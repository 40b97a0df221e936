------------------------------- MODULE Timers -------------------------------
(***************************************************************************)
(* Timers: the runtime timers of runtime/timer.go and the Timer, Ticker    *)
(* and AfterFunc of the time package (stdlib/src/time/timer.mgo) on top.   *)
(*                                                                         *)
(* The VM owner starts, stops, discards and drains timers.  A clock alarm  *)
(* runs markReady on a goroutine of its own: it sets ready under the       *)
(* timer's lock, unlocks, and only then reads timer.vm and signals.  Both  *)
(* gaps (before the lock and before the signal) are states here.           *)
(*                                                                         *)
(* Two goroutines run the VM for the object's scopes: the supervisor, and  *)
(* the Wait of another call while that call is the foreground one.  A      *)
(* signal puts a token in a channel of each; the supervisor drops its own  *)
(* when it finds a foreground call active.                                 *)
(*                                                                         *)
(* One object of the time package is modelled.  Each of its starts makes a *)
(* signal channel, a runtime timer for it and a goroutine that waits for   *)
(* the signal, so a start, its timer, its signal and its goroutine share   *)
(* one number.                                                             *)
(***************************************************************************)
EXTENDS Naturals, Sequences, FiniteSets, TaskQueue

CONSTANTS
    MaxStarts,          \* bound: starts of the object
    MaxSignals,         \* bound: alarms of one timer between unlock and signal
    MaxCalls,           \* bound: foreground calls made meanwhile, by kind of object
    MaxPendingEvents,   \* Limits.MaxPendingEvents
    Scopes,             \* execution scopes that may be cancelled
    ScopeOf,            \* the scope of the task that makes each start
    Kinds               \* subset of {"ticker", "timer", "func"}

ASSUME TimersAssumption ==
    /\ MaxStarts \in Nat \ {0}
    /\ MaxSignals \in Nat \ {0}
    /\ MaxCalls \in [Kinds -> Nat]
    /\ MaxPendingEvents \in Nat \ {0}
    /\ DOMAIN ScopeOf = 1..MaxStarts
    /\ Kinds \subseteq {"ticker", "timer", "func"}

Starts == 1..MaxStarts

VARIABLES
    timer,      \* the runtime timer of each start
    signal,     \* its signal channel: buffered values and whether it is closed
    go,         \* its goroutine in the time package
    canceled,   \* the scopes that were cancelled
    events,     \* vm.pendingEvents
    wake,       \* the token in vm.wake
    supervisor, \* the token in instance.supervisor
    missed,     \* the supervisor dropped a token, or was not told that a call left
                \* tasks in the run queue, and has not run since
    foreground, \* the foreground call: none, not polled yet, or polled before
    calls,      \* foreground calls so far
    owner,      \* "wait" when nobody runs the VM; "run", "drain" or "down"
    todo,       \* timers this drain has still to visit
    rearm,      \* the periodic timer it is re-arming, or 0
    object,     \* the Timer or Ticker
    user,       \* where the task is that calls its methods
    channel,    \* object.channel: its buffer and the sends blocked on it
    history     \* of each start of a Timer or AfterFunc: stopped, or fired

who  == <<supervisor, missed, foreground, calls>>
vars == <<timer, signal, go, canceled, events, wake, who, owner, todo, rearm,
          object, user, channel, history>>

\* state "active" is membership in vm.timers; armed: its alarm may still fire;
\* firing: the alarm fired, markReady has not locked yet; signals: callbacks
\* that set ready and have not signalled yet
Timer == [state : {"unused", "active", "removed"}, ready : BOOLEAN, stopped : BOOLEAN,
          armed : BOOLEAN, firing : BOOLEAN, signals : 0..MaxSignals]

NoTimer == [state |-> "unused", ready |-> FALSE, stopped |-> FALSE,
            armed |-> FALSE, firing |-> FALSE, signals |-> 0]

\* generation is the start whose generation is the object's current one, or 0;
\* current is object.signal
Object == [kind : Kinds, active : BOOLEAN, generation : 0..MaxStarts, current : 0..MaxStarts]

TypeOK ==
    /\ timer \in [Starts -> Timer]
    /\ signal \in [Starts -> [buffered : 0..1, closed : BOOLEAN]]
    /\ go \in [Starts -> {"none", "recv", "check", "clear", "send", "blocked", "ended"}]
    /\ canceled \subseteq Scopes
    /\ events \in 0..MaxPendingEvents
    /\ wake \in BOOLEAN /\ supervisor \in BOOLEAN /\ missed \in BOOLEAN
    /\ foreground \in {"none", "started", "pending"}
    /\ calls \in Nat
    /\ owner \in {"wait", "run", "drain", "down"}
    /\ todo \subseteq Starts
    /\ rearm \in 0..MaxStarts
    /\ object \in Object
    /\ user \in {"idle", "stopping", "stopped", "resetting", "starting"}
    /\ channel \in [buffer : Seq(Starts), pending : QueueType(Starts)]
    /\ history \in [Starts -> [stopped : BOOLEAN, fired : BOOLEAN]]

Init ==
    /\ timer = [i \in Starts |-> NoTimer]
    /\ signal = [i \in Starts |-> [buffered |-> 0, closed |-> FALSE]]
    /\ go = [i \in Starts |-> "none"]
    /\ canceled = {}
    /\ events = 0
    /\ wake = FALSE /\ supervisor = FALSE /\ missed = FALSE
    /\ foreground = "none" /\ calls = 0
    /\ owner = "run"
    /\ todo = {}
    /\ rearm = 0
    /\ object \in [kind : Kinds, active : {FALSE}, generation : {0}, current : {0}]
    /\ user = "idle"
    /\ channel = [buffer |-> <<>>, pending |-> EmptyQueue]
    /\ history = [i \in Starts |-> [stopped |-> FALSE, fired |-> FALSE]]

Active == {i \in Starts : timer[i].state = "active"}
Periodic == object.kind = "ticker"
runtime == <<timer, signal, canceled, events, wake, who, owner, todo, rearm>>
package == <<go, object, user, channel, history>>

-----------------------------------------------------------------------------
(***************************************************************************)
(* The clock and markReady, on goroutines of their own.                    *)
(***************************************************************************)
AlarmFires(i) ==
    /\ timer[i].armed
    /\ timer' = [timer EXCEPT ![i].armed = FALSE, ![i].firing = TRUE]
    /\ UNCHANGED <<signal, canceled, events, wake, who, owner, todo, rearm>>
    /\ UNCHANGED package

\* the locked section of markReady
MarkReady(i) ==
    /\ timer[i].firing
    /\ timer[i].signals < MaxSignals
    /\ timer' = [timer EXCEPT ![i].firing = FALSE,
                              ![i].ready = @ \/ ~timer[i].stopped,
                              ![i].signals = IF timer[i].stopped THEN @ ELSE @ + 1]
    /\ UNCHANGED <<signal, canceled, events, wake, who, owner, todo, rearm>>
    /\ UNCHANGED package

\* signalWake: one token in each channel
SignalWake == wake' = TRUE /\ supervisor' = TRUE /\ UNCHANGED <<missed, foreground, calls>>

\* after the unlock: timer.vm is read without the lock, so once removeTimer has
\* cleared it the read finds the VM or nil, and signalWake of nil does nothing
MarkReadySignal(i) ==
    /\ timer[i].signals > 0
    /\ timer' = [timer EXCEPT ![i].signals = @ - 1]
    /\ SignalWake \/ (timer[i].state = "removed" /\ UNCHANGED <<wake, who>>)
    /\ UNCHANGED <<signal, canceled, events, owner, todo, rearm>>
    /\ UNCHANGED package

\* another completion, or a cancellation, signals the VM
OtherWake ==
    /\ ~(wake /\ supervisor)
    /\ SignalWake
    /\ UNCHANGED <<timer, signal, canceled, events, owner, todo, rearm>>
    /\ UNCHANGED package

-----------------------------------------------------------------------------
(***************************************************************************)
(* removeTimer and discardTimer, as functions of all timers.  Nobody reads  *)
(* ready of a timer that is not in vm.timers, so it is reset.              *)
(***************************************************************************)
Removed(is) ==
    [i \in Starts |-> IF i \in is
        THEN [timer[i] EXCEPT !.state = "removed", !.stopped = TRUE, !.armed = FALSE,
                             !.ready = FALSE]
        ELSE timer[i]]

-----------------------------------------------------------------------------
(***************************************************************************)
(* Who runs the VM.  A run is taken up to where nothing is runnable or the *)
(* foreground call ends.                                                   *)
(***************************************************************************)
\* goroutines in the run queue
InQueue == {i \in Starts : \/ go[i] \in {"check", "clear", "send"}
                           \/ go[i] = "recv" /\ signal[i].buffered > 0}
\* goroutines that can go on when the blocked ones have been asked
Runnable == InQueue \cup {i \in Starts : go[i] = "recv" /\ signal[i].closed}

\* start of another call: attached, not polled yet
ForegroundStarts ==
    /\ owner = "wait" /\ foreground = "none" /\ calls < MaxCalls[object.kind]
    /\ foreground' = "started" /\ calls' = calls + 1
    /\ UNCHANGED <<timer, signal, canceled, events, wake, supervisor, missed, owner, todo, rearm>>
    /\ UNCHANGED package

\* its Wait polls a running execution at once ...
WaitPolls ==
    /\ owner = "wait" /\ foreground = "started"
    /\ owner' = "run" /\ foreground' = "pending"
    /\ UNCHANGED <<timer, signal, canceled, events, wake, supervisor, missed, calls, todo, rearm>>
    /\ UNCHANGED package

\* ... and a pending one when it has taken a token
Wake ==
    /\ owner = "wait" /\ foreground = "pending"
    /\ wake
    /\ wake' = FALSE
    /\ owner' = "run"
    /\ UNCHANGED <<timer, signal, canceled, events, who, todo, rearm>>
    /\ UNCHANGED package

\* the supervisor takes its token and enters the owner: it runs the background
\* tasks, or drops the token because a foreground call is active
Supervise ==
    /\ owner = "wait" /\ supervisor
    /\ supervisor' = FALSE
    /\ missed' = (foreground # "none")
    /\ owner' = IF foreground = "none" THEN "run" ELSE "wait"
    /\ UNCHANGED <<timer, signal, canceled, events, wake, foreground, calls, todo, rearm>>
    /\ UNCHANGED package

\* the root task of the call ends, and with it the run.  Only a call that
\* completes tells the supervisor of tasks in the run queue (one that a limit or
\* a cancellation ends does not); the task that calls the object's methods is
\* there unless it is outside of them.
ForegroundEnds(completes) ==
    /\ owner = "run" /\ foreground = "pending"
    /\ owner' = "wait" /\ foreground' = "none"
    /\ LET left == InQueue # {} \/ user # "idle"
       IN  /\ supervisor' = (supervisor \/ (completes /\ left))
           /\ missed' = (missed \/ (~completes /\ left))
    /\ UNCHANGED <<timer, signal, canceled, events, wake, calls, todo, rearm>>
    /\ UNCHANGED package

-----------------------------------------------------------------------------
(***************************************************************************)
(* drainReadyTimers, at the start of wakeBlocked.  The map is visited in   *)
(* any order, each timer once; alarms go on meanwhile.                     *)
(***************************************************************************)
DrainBegin ==
    /\ owner = "run"
    /\ owner' = "drain"
    /\ todo' = Active
    /\ UNCHANGED <<timer, signal, canceled, events, wake, who, rearm>>
    /\ UNCHANGED package

DrainSkip(i) ==
    /\ owner = "drain" /\ rearm = 0 /\ i \in todo
    /\ ~timer[i].ready
    /\ todo' = todo \ {i}
    /\ UNCHANGED <<timer, signal, canceled, events, wake, who, owner, rearm>>
    /\ UNCHANGED package

\* Mutant of DrainDeliver: a one-shot timer is removed, and its signal cleared,
\* before it is delivered.
DrainDeliverRemoves(i) ==
    /\ owner = "drain" /\ rearm = 0 /\ i \in todo
    /\ timer[i].ready
    /\ todo' = todo \ {i}
    /\ signal' = IF Periodic THEN [signal EXCEPT ![i].buffered = 1] ELSE signal
    /\ timer' = [(IF Periodic THEN timer ELSE Removed({i})) EXCEPT ![i].ready = FALSE]
    /\ events' = IF Periodic THEN events ELSE events - 1
    /\ rearm' = IF Periodic THEN i ELSE 0
    /\ UNCHANGED <<canceled, wake, who, owner>>
    /\ UNCHANGED package

\* ready is taken, and the signal sent unless one is buffered already; a
\* one-shot timer is removed, a periodic one goes on to be re-armed
DrainDeliver(i) ==
    /\ owner = "drain" /\ rearm = 0 /\ i \in todo
    /\ timer[i].ready
    /\ todo' = todo \ {i}
    /\ signal' = [signal EXCEPT ![i].buffered = 1]
    /\ timer' = [(IF Periodic THEN timer ELSE Removed({i})) EXCEPT ![i].ready = FALSE]
    /\ events' = IF Periodic THEN events ELSE events - 1
    /\ rearm' = IF Periodic THEN i ELSE 0
    /\ UNCHANGED <<canceled, wake, who, owner>>
    /\ UNCHANGED package

\* Mutant of DrainRearm: the next alarm is not set.
DrainRearmForgets ==
    /\ owner = "drain" /\ rearm # 0
    /\ rearm' = 0
    /\ UNCHANGED <<timer, signal, canceled, events, wake, who, owner, todo>>
    /\ UNCHANGED package

DrainRearm ==
    /\ owner = "drain" /\ rearm # 0
    /\ timer' = [timer EXCEPT ![rearm].armed = TRUE]
    /\ rearm' = 0
    /\ UNCHANGED <<signal, canceled, events, wake, who, owner, todo>>
    /\ UNCHANGED package

\* the clock returns no alarm: the drain fails, the run with it, and finishRun
\* closes all timers
DrainClockFails ==
    /\ owner = "drain" /\ rearm # 0
    /\ timer' = Removed(Active)
    /\ events' = events - Cardinality(Active)
    /\ owner' = "down" /\ todo' = {} /\ rearm' = 0
    /\ UNCHANGED <<signal, canceled, wake, who>>
    /\ UNCHANGED package

\* Mutant of DrainEnd: the token is taken as old before Wait waits.
DrainEndClearsToken ==
    /\ owner = "drain" /\ rearm = 0 /\ todo = {}
    /\ owner' \in IF Runnable = {} /\ user = "idle" THEN {"run", "wait"} ELSE {"run"}
    /\ wake' = FALSE
    /\ UNCHANGED <<timer, signal, canceled, events, who, todo, rearm>>
    /\ UNCHANGED package

\* the drain is over; run goes on, or has nothing runnable and returns to Wait
DrainEnd ==
    /\ owner = "drain" /\ rearm = 0 /\ todo = {}
    /\ owner' \in IF Runnable = {} /\ user = "idle" THEN {"run", "wait"} ELSE {"run"}
    /\ UNCHANGED <<timer, signal, canceled, events, wake, who, todo, rearm>>
    /\ UNCHANGED package

-----------------------------------------------------------------------------
(***************************************************************************)
(* The object's methods, called by a task of scope s.  A task may be       *)
(* preempted after the intrinsic runtimeTimerStop.                         *)
(***************************************************************************)
NextStart == object.current + 1
\* the calling task belongs to a scope that was not cancelled
Callable(i) == i \in Starts /\ ScopeOf[i] \notin canceled

\* start, with startTimer: a delay of zero or less is ready at once
Start(ready, active) ==
    /\ Callable(NextStart)
    /\ ready => ~Periodic
    /\ events < MaxPendingEvents
    /\ object' = [object EXCEPT !.active = active, !.generation = NextStart, !.current = NextStart]
    /\ user' = "idle"
    /\ timer' = [timer EXCEPT ![NextStart] =
                     [NoTimer EXCEPT !.state = "active", !.ready = ready, !.armed = ~ready]]
    /\ events' = events + 1
    /\ IF ready THEN SignalWake ELSE UNCHANGED <<wake, who>>
    /\ go' = [go EXCEPT ![NextStart] = "recv"]
    /\ UNCHANGED <<signal, canceled, owner, todo, rearm, channel, history>>

\* startTimer refuses (too many events, or the clock gives no alarm and the
\* timer is removed again): the task panics before the goroutine is started
StartFails(active) ==
    /\ Callable(NextStart)
    /\ object' = [object EXCEPT !.active = active, !.generation = NextStart, !.current = NextStart]
    /\ user' = "idle"
    /\ UNCHANGED runtime
    /\ UNCHANGED <<go, channel, history>>

\* NewTimer, NewTicker, AfterFunc
New(ready) ==
    /\ owner = "run" /\ user = "idle" /\ object.current = 0
    /\ Start(ready, TRUE)

NewFails == owner = "run" /\ user = "idle" /\ object.current = 0 /\ StartFails(TRUE)

\* Reset after its runtimeTimerStop: active is set ...
ResetActivates ==
    /\ owner = "run" /\ user = "resetting"
    /\ object' = [object EXCEPT !.active = TRUE]
    /\ user' = "starting"
    /\ UNCHANGED runtime
    /\ UNCHANGED <<go, channel, history>>

\* ... and the timer started again; other goroutines may run in between
Reset(ready) == owner = "run" /\ user = "starting" /\ Start(ready, object.active)

ResetFails == owner = "run" /\ user = "starting" /\ StartFails(object.active)

\* runtimeTimerStop, first in Stop and in Reset; stopTimer closes the signal
StopIntrinsic(next) ==
    /\ owner = "run" /\ user = "idle"
    /\ object.current # 0
    /\ LET i == object.current
       IN  /\ timer' = Removed({i} \cap Active)
           /\ signal' = [signal EXCEPT ![i].closed = @ \/ i \in Active]
           /\ events' = events - Cardinality({i} \cap Active)
           /\ user' = IF next = "reset" THEN "resetting"
                      ELSE IF i \in Active THEN "stopped" ELSE "stopping"
           /\ history' = [history EXCEPT ![i].stopped = @ \/ i \in Active]
    /\ UNCHANGED <<canceled, wake, who, owner, todo, rearm, go, object, channel>>

\* the rest of Stop; a Timer that was not stopped keeps its state
StopReturns ==
    /\ owner = "run" /\ user \in {"stopped", "stopping"}
    /\ object' = IF user = "stopped" \/ Periodic
                 THEN [object EXCEPT !.active = FALSE, !.generation = 0]
                 ELSE object
    /\ user' = "idle"
    /\ UNCHANGED runtime
    /\ UNCHANGED <<go, channel, history>>

-----------------------------------------------------------------------------
(***************************************************************************)
(* The goroutine of a start, and the readers of the object's channel.      *)
(***************************************************************************)
Owns(i) == owner = "run" /\ ScopeOf[i] \notin canceled
Current(i) == object.generation = i
AfterTick(i) == IF Periodic THEN "recv" ELSE "ended"

\* Mutant of GoReceive: ok is not looked at, so a closed signal counts as a tick.
GoReceiveClosed(i) ==
    /\ Owns(i) /\ go[i] = "recv"
    /\ signal[i].buffered = 1 \/ signal[i].closed
    /\ signal' = [signal EXCEPT ![i].buffered = 0]
    /\ go' = [go EXCEPT ![i] = "check"]
    /\ UNCHANGED <<timer, canceled, events, wake, who, owner, todo, rearm>>
    /\ UNCHANGED <<object, user, channel, history>>

GoReceive(i) ==
    /\ Owns(i) /\ go[i] = "recv"
    /\ \/ /\ signal[i].buffered = 1
          /\ signal' = [signal EXCEPT ![i].buffered = 0]
          /\ go' = [go EXCEPT ![i] = "check"]
       \/ /\ signal[i].buffered = 0 /\ signal[i].closed
          /\ go' = [go EXCEPT ![i] = "ended"]
          /\ UNCHANGED signal
    /\ UNCHANGED <<timer, canceled, events, wake, who, owner, todo, rearm>>
    /\ UNCHANGED <<object, user, channel, history>>

\* the value of a Timer, or the callback, of start i has come
Fired(i) == IF Periodic THEN history ELSE [history EXCEPT ![i].fired = TRUE]
Func == object.kind = "func"

\* The signal came, and the generation is compared.  When it is over, nothing is
\* sent, and a callback is called without clearing active.  (A channel object
\* must be active too; what Stop and Reset assign to active and generation
\* cannot come between the two reads unnoticed.)
GoCheck(i) ==
    /\ Owns(i) /\ go[i] = "check"
    /\ IF Current(i) /\ (object.active \/ Func)
       THEN /\ go' = [go EXCEPT ![i] = IF Periodic THEN "send" ELSE "clear"]
            /\ UNCHANGED history
       ELSE /\ go' = [go EXCEPT ![i] = AfterTick(i)]
            /\ history' = IF Func THEN Fired(i) ELSE history
    /\ UNCHANGED runtime
    /\ UNCHANGED <<object, user, channel>>

\* A one-shot timer is no longer active: t.active = false, without another look
\* at the generation, then the callback or the send.
GoClear(i) ==
    /\ Owns(i) /\ go[i] = "clear"
    /\ object' = [object EXCEPT !.active = FALSE]
    /\ go' = [go EXCEPT ![i] = IF Func THEN "ended" ELSE "send"]
    /\ history' = IF Func THEN Fired(i) ELSE history
    /\ UNCHANGED runtime
    /\ UNCHANGED <<user, channel>>

\* object.channel <- Now()
GoSend(i) ==
    /\ Owns(i) /\ go[i] = "send"
    /\ IF channel.buffer = <<>>
       THEN /\ channel' = [channel EXCEPT !.buffer = <<i>>]
            /\ go' = [go EXCEPT ![i] = AfterTick(i)]
            /\ history' = Fired(i)
       ELSE /\ channel' = [channel EXCEPT !.pending = PushBack(@, i)]
            /\ go' = [go EXCEPT ![i] = "blocked"]
            /\ UNCHANGED history
    /\ UNCHANGED runtime
    /\ UNCHANGED <<object, user>>

\* <-object.C by any task: a blocked send moves into the buffer
Read ==
    /\ owner = "run"
    /\ channel.buffer # <<>>
    /\ \/ /\ channel.pending.elems = {}
          /\ channel' = [channel EXCEPT !.buffer = <<>>]
          /\ UNCHANGED <<go, history>>
       \/ \E i \in Starts :
            /\ IsHead(channel.pending, i)
            /\ channel' = [buffer |-> <<i>>, pending |-> Without(channel.pending, {i})]
            /\ go' = [go EXCEPT ![i] = AfterTick(i)]
            /\ history' = Fired(i)
    /\ UNCHANGED runtime
    /\ UNCHANGED <<object, user>>

\* cancelScope: timers of the scope are discarded, its tasks aborted and their
\* blocked sends withdrawn
CancelScope(s) ==
    /\ owner = "run"
    /\ s \notin canceled
    /\ LET mine == {i \in Starts : ScopeOf[i] = s}
       IN  /\ timer' = Removed(mine \cap Active)
           /\ events' = events - Cardinality(mine \cap Active)
           /\ go' = [i \in Starts |-> IF i \in mine /\ go[i] # "none" THEN "ended" ELSE go[i]]
           /\ channel' = [channel EXCEPT !.pending = Without(@, mine)]
    /\ canceled' = canceled \cup {s}
    /\ UNCHANGED <<signal, wake, who, owner, todo, rearm, object, user, history>>

-----------------------------------------------------------------------------
Alarm(i) == AlarmFires(i) \/ MarkReady(i) \/ MarkReadySignal(i)
Goroutine(i) == GoReceive(i) \/ GoCheck(i) \/ GoClear(i) \/ GoSend(i)

\* Execution.Wait of the foreground call
Wait == WaitPolls \/ Wake

\* the VM under whoever owns it
Run ==
    \/ DrainBegin
    \/ \E i \in Starts : DrainSkip(i) \/ DrainDeliver(i)
    \/ DrainRearm
    \/ DrainEnd

Foreground == ForegroundStarts \/ (\E completes \in BOOLEAN : ForegroundEnds(completes))

User ==
    \/ \E ready \in BOOLEAN : New(ready) \/ Reset(ready)
    \/ NewFails
    \/ ResetActivates
    \/ ResetFails
    \/ \E s \in Scopes : CancelScope(s)
    \/ \E next \in {"stop", "reset"} : StopIntrinsic(next)
    \/ StopReturns
    \/ Read

Next ==
    \/ \E i \in Starts : Alarm(i) \/ Goroutine(i)
    \/ Wait
    \/ Supervise
    \/ Run
    \/ Foreground
    \/ OtherWake
    \/ DrainClockFails
    \/ User

\* Alarms fire and their callbacks run.  A host that made a call waits for it, the
\* supervisor takes its tokens, and a run goes on: drains end, and the run queue
\* is first in, first out, so a runnable task gets its turn.  Nobody has to make
\* or end a call.
Fairness ==
    /\ \A i \in Starts : WF_vars(Alarm(i)) /\ SF_vars(Goroutine(i))
    /\ WF_vars(Wait) /\ WF_vars(Supervise) /\ WF_vars(Run)

Spec == Init /\ [][Next]_vars /\ Fairness

-----------------------------------------------------------------------------
(***************************************************************************)
(* Properties.                                                             *)
(***************************************************************************)
\* While nobody runs the VM, a timer that is ready has been announced to somebody
\* who will: its callback is about to signal (markReady signals after its unlock),
\* or Wait will poll or has its token, or the supervisor has.  The exception is a
\* supervisor that missed it: it dropped the token for a call that has ended since
\* (instance_state.go:164), or was not told of the end of one (vm.go:441).
ReadyIsAnnounced ==
    owner = "wait" =>
        \A i \in Active : timer[i].ready =>
            \/ timer[i].signals > 0
            \/ foreground = "started"
            \/ foreground = "pending" /\ wake
            \/ foreground = "none" /\ (supervisor \/ missed)

\* Outside its own re-arming every active timer has exactly one source for its
\* next tick: an armed alarm, a callback on its way to the lock, or ready.  A
\* removed timer has no armed alarm, and its event is returned
\* (drainReadyTimers, discardTimer, removeTimer).
OneTickSource ==
    /\ \A i \in Active : i # rearm =>
         Cardinality({k \in 1..3 : \/ k = 1 /\ timer[i].armed
                                   \/ k = 2 /\ timer[i].firing
                                   \/ k = 3 /\ timer[i].ready}) = 1
    /\ \A i \in Starts \ Active : ~timer[i].armed
    /\ events = Cardinality(Active)

\* "Stop prevents the Timer from firing": once runtimeTimerStop reported true
\* for a start of a Timer or AfterFunc, neither its value nor its callback ever
\* comes, although its alarm may be running and its goroutine waiting.  (A Ticker
\* may still send a tick that its goroutine has decided to send: GoCheck, GoSend.)
StopIsFinal ==
    \A i \in Starts : ~Periodic => ~(history[i].stopped /\ history[i].fired)

\* Nobody is left who will run the VM: no call is active, and the supervisor missed
\* what the last one left.
Stranded == owner = "wait" /\ foreground = "none" /\ missed /\ ~supervisor

\* What ends the claim on a start: its scope is cancelled or the run has failed.
Over(i) == ScopeOf[i] \in canceled \/ owner = "down"

\* A callback timer that was started is stopped or calls its function, unless the
\* VM is stranded: no alarm and no signal is lost on the way through markReady,
\* either token, the drain and the goroutine, and a foreground call may begin and
\* end at any moment.
CallbackRuns ==
    \A i \in Starts :
        (object.kind = "func" /\ i \in Active) ~>
            (history[i].fired \/ history[i].stopped \/ Over(i) \/ Stranded)

\* The promise without that exception: "AfterFunc waits for the duration to
\* elapse and then calls f" (timer.mgo:37).
AfterFuncCalls ==
    \A i \in Starts :
        (object.kind = "func" /\ i \in Active) ~>
            (history[i].fired \/ history[i].stopped \/ Over(i))
=============================================================================
