------------------------------- MODULE Instance -------------------------------
(***************************************************************************)
(* One go-mini Instance: the goroutines that share its VM and the tokens   *)
(* they wake each other with (src/runtime/instance_call.go,                *)
(* instance_state.go, execution.go, scheduler_run.go, vm.go).              *)
(*                                                                         *)
(* Goroutines                                                              *)
(*   host e        Start, then Execution.Wait                              *)
(*   canceler e    Interrupt or Cancel from outside, or the AfterFunc of   *)
(*                 the Wait context                                        *)
(*   supervisor    Instance.supervise                                      *)
(*   shutdown      Instance.Shutdown and shutdownInstance                  *)
(*   host calls    an FFI provider or a clock completing one operation     *)
(*                                                                         *)
(* Whoever holds the VM owner runs alone in the machine, so a section      *)
(* under the owner is one step unless what it reads can change meanwhile   *)
(* (FFI results, timers, cancel and interrupt flags): machine.run is taken *)
(* one task yield at a time.                                               *)
(***************************************************************************)
EXTENDS Machine

CONSTANT Scenarios   \* each is what embedder and script may do in one behaviour

InstructionSet == {"compute", "spawn", "ffi", "timer", "recv", "send", "fail", "limit"}

ScenarioType ==
  [calls        : SUBSET Execs,           \* executions that may be started
   instructions : SUBSET InstructionSet,  \* what the script may do
   steps        : Nat \ {0},              \* limits.MaxSteps, per scope
   quantum      : Nat,                    \* instruction budget of one Poll, 0 for no limit
   cancelable   : SUBSET Execs,           \* executions some other goroutine may cancel
   withContext  : SUBSET Execs,           \* executions whose Wait context may end
   shutdown     : BOOLEAN,                \* whether the host calls Shutdown
   fair         : BOOLEAN]                \* whether everybody goes on (Fairness)

ASSUME InstanceAssumption == Scenarios \subseteq ScenarioType

VARIABLES
  scenario,   \* the one this behaviour follows; it never changes
  m,          \* the machine (Machine.tla)
  owner,      \* vm.owner, with who holds it
  wake,       \* a token is in vm.wake
  supToken,   \* a token is in instance.supervisor
  interrupt,  \* vm.interruptRequested
  signals,    \* completions that have stored their result and not yet signalled
  lifecycle,  \* instance.lifecycle
  instDone,   \* instance.done is closed
  active,     \* instance.active
  est,        \* Execution.state, "none" before Start
  cancelReq,  \* Execution.cancelRequested
  ctxDone,    \* the Wait context is done
  hpc, cpc, spc, dpc,  \* where host, canceler, supervisor, shutdown are
  phase,      \* where machine.run is, "off" when nobody runs it
  outcome     \* what machine.run returned

threads == <<hpc, cpc, spc, dpc>>
tokens  == <<wake, supToken, signals>>
handles == <<lifecycle, instDone, active, est>>
flags   == <<interrupt, cancelReq, ctxDone>>
working == <<m, owner, tokens, flags, handles, threads, phase, outcome>>
vars    == <<working, scenario>>

Instructions == scenario.instructions
Cancelable   == scenario.cancelable
MaxSteps     == scenario.steps
Quantum      == scenario.quantum

Threads == (Execs \X {"host", "cancel"}) \cup ({NoExec} \X {"supervisor", "shutdown"})
Free    == <<NoExec, "free">>
HostOf(e)   == <<e, "host">>
Supervisor  == <<NoExec, "supervisor">>

Terminal == {"completed", "failed", "canceled"}
Outcomes == {"none", "running", "pending", "completed", "canceled", "failed", "limited", "lost"}

TypeOK ==
  /\ scenario \in Scenarios
  /\ m \in MachineType
  /\ owner \in Threads \cup {Free}
  /\ wake \in BOOLEAN /\ supToken \in BOOLEAN /\ interrupt \in BOOLEAN
  /\ signals \in Nat
  /\ lifecycle \in {"open", "faulted", "closing", "closed"}
  /\ instDone \in BOOLEAN
  /\ active \in Execs \cup {NoExec}
  /\ est \in [Execs -> {"none", "running", "pending"} \cup Terminal]
  /\ cancelReq \in [Execs -> BOOLEAN]
  /\ ctxDone \in [Execs -> BOOLEAN]
  /\ hpc \in [Execs -> {"idle", "starting", "loop", "select", "poll", "run",
                        "cancel", "signal", "apply", "returned"}]
  /\ cpc \in [Execs -> {"idle", "signal", "apply", "done"}]
  /\ spc \in {"select", "enter", "run", "exit"}
  /\ dpc \in {"idle", "interrupt", "enter", "session", "done"}
  /\ phase \in {"off", "begin", "pick", "exec", "wake", "return"}
  /\ outcome \in Outcomes

Init ==
  /\ scenario \in Scenarios
  /\ m = InitMachine
  /\ owner = Free
  /\ wake = FALSE /\ supToken = FALSE /\ signals = 0
  /\ interrupt = FALSE
  /\ lifecycle = "open" /\ instDone = FALSE /\ active = NoExec
  /\ est = [e \in Execs |-> "none"]
  /\ cancelReq = [e \in Execs |-> FALSE]
  /\ ctxDone = [e \in Execs |-> FALSE]
  /\ hpc = [e \in Execs |-> "idle"]
  /\ cpc = [e \in Execs |-> "idle"]
  /\ spc = "select" /\ dpc = "idle"
  /\ phase = "off" /\ outcome = "none"

-----------------------------------------------------------------------------
(* Shared helpers                                                          *)

IsOpen == lifecycle = "open"

\* signalWake: one token in each channel, none is queued twice.
SignalWake == wake' = TRUE /\ supToken' = TRUE

\* capture: publish a run outcome in the execution handle; a completion does
\* not replace a cancellation.  A terminal state frees the instance; a failure
\* that is not a library scope's own limit faults it; the end of a program
\* closes it.
Capture(e, out) ==
  LET state    == IF out \in {"limited", "lost"} THEN "failed"
                  ELSE IF out = "completed" /\ est[e] = "canceled" THEN "canceled" ELSE out
      program  == e \in Programs
      scopeFailure == out = "limited" /\ ~program
      fails    == state = "failed" /\ ~scopeFailure
      closes   == program /\ state \in {"completed", "canceled"}
  IN  /\ est' = [est EXCEPT ![e] = state]
      /\ active' = IF state \in Terminal THEN NoExec ELSE active
      /\ lifecycle' = IF IsOpen /\ fails THEN "faulted"
                      ELSE IF IsOpen /\ closes THEN "closed" ELSE lifecycle
      /\ instDone' = (instDone \/ fails \/ closes)

\* cancelRequestedScopes on m
Requested(mm) == {e \in OpenScopes(mm) : cancelReq[e]}

\* applyRequestedCancellationsLocked
ApplyRequestedCancellations ==
  LET E  == Requested(m)
      fg == m.foreground
      c  == CancelScopes(m, E, "canceled")
  IN  IF m.up /\ fg \in E
      THEN /\ m' = IF fg \in Programs THEN FinishRun(c) ELSE FinishForeground(c)
           /\ Capture(fg, "canceled")
      ELSE /\ m' = IF m.up THEN c ELSE m
           /\ UNCHANGED handles

-----------------------------------------------------------------------------
(* Host: Start and Wait                                                    *)

\* start enters the owner and looks at the instance.
StartEnter(e) ==
  /\ hpc[e] = "idle" /\ e \in scenario.calls /\ owner = Free /\ ~ctxDone[e]
  /\ IsOpen /\ active = NoExec /\ m.foreground = NoExec
  /\ m.nextID <= NumTasks                   \* bound on context ids
  /\ hpc' = [hpc EXCEPT ![e] = "starting"]
  /\ owner' = HostOf(e)
  /\ UNCHANGED <<m, tokens, flags, handles, cpc, spc, dpc, phase, outcome, scenario>>

\* start returns an error: the context is done, the instance is not open, or
\* another execution is active.
StartRefused(e) ==
  /\ hpc[e] = "idle" /\ e \in scenario.calls
  /\ \/ ctxDone[e]
     \/ owner = Free /\ ~(IsOpen /\ active = NoExec /\ m.foreground = NoExec)
  /\ hpc' = [hpc EXCEPT ![e] = "returned"]
  /\ UNCHANGED <<m, owner, tokens, flags, handles, cpc, spc, dpc, phase, outcome, scenario>>

\* prepareFunction or prepareProgramEntry, then the handle is attached.
StartPrepare(e) ==
  /\ hpc[e] = "starting"
  /\ interrupt' = FALSE
  /\ m' = PrepareScheduled(m, e)
  /\ est' = [est EXCEPT ![e] = "running"]
  /\ active' = e
  /\ hpc' = [hpc EXCEPT ![e] = "loop"]
  /\ owner' = Free
  /\ UNCHANGED <<tokens, cancelReq, ctxDone, lifecycle, instDone, cpc, spc, dpc, phase, outcome, scenario>>

\* The context ended while start was preparing: the scope is cancelled and no
\* handle is returned.
StartAbandon(e) ==
  /\ hpc[e] = "starting" /\ ctxDone[e]
  /\ interrupt' = FALSE
  /\ m' = FinishForeground(CancelScopes(PrepareScheduled(m, e), {e}, "canceled"))
  /\ hpc' = [hpc EXCEPT ![e] = "returned"]
  /\ owner' = Free
  /\ UNCHANGED <<tokens, cancelReq, ctxDone, handles, cpc, spc, dpc, phase, outcome, scenario>>

\* waitValues reads the state and decides.
WaitLoop(e) ==
  /\ hpc[e] = "loop"
  /\ hpc' = [hpc EXCEPT ![e] = CASE est[e] \in Terminal -> "returned"
                                 [] est[e] = "pending"  -> "select"
                                 [] OTHER               -> "poll"]
  /\ UNCHANGED <<m, owner, tokens, flags, handles, cpc, spc, dpc, phase, outcome, scenario>>

\* case <-vm.wake
WaitWake(e) ==
  /\ hpc[e] = "select" /\ wake
  /\ wake' = FALSE
  /\ hpc' = [hpc EXCEPT ![e] = "poll"]
  /\ UNCHANGED <<m, owner, supToken, signals, flags, handles, cpc, spc, dpc, phase, outcome, scenario>>

\* case <-ctx.Done()
WaitContext(e) ==
  /\ hpc[e] = "select" /\ ctxDone[e]
  /\ hpc' = [hpc EXCEPT ![e] = "cancel"]
  /\ UNCHANGED <<m, owner, tokens, flags, handles, cpc, spc, dpc, phase, outcome, scenario>>

\* Where Wait goes after a poll that left the execution in state: it looks
\* again, or calls Cancel when the poll's error is the error of its own context.
AfterPoll(e, state) == IF ctxDone[e] /\ state = "canceled" THEN {"loop", "cancel"} ELSE {"loop"}

\* pollSteps enters the owner, looks again and starts a run.
PollEnter(e) ==
  /\ hpc[e] = "poll" /\ owner = Free
  /\ IF est[e] \in Terminal
     THEN /\ \E p \in AfterPoll(e, est[e]) : hpc' = [hpc EXCEPT ![e] = p]
          /\ UNCHANGED <<owner, phase>>
     ELSE /\ hpc' = [hpc EXCEPT ![e] = "run"]
          /\ owner' = HostOf(e) /\ phase' = "begin"
  /\ UNCHANGED <<m, tokens, flags, handles, cpc, spc, dpc, outcome, scenario>>

\* enterOwnerContext gives up because the context is done.  What it found busy
\* may be a section of another goroutine that is one step here, so owner says
\* nothing about it.  Wait calls Cancel if it polled a running execution, which
\* may have ended meanwhile.
PollContext(e) ==
  /\ hpc[e] = "poll" /\ ctxDone[e]
  /\ \/ est[e] # "pending" /\ hpc' = [hpc EXCEPT ![e] = "cancel"]
     \/ est[e] # "running" /\ hpc' = [hpc EXCEPT ![e] = "loop"]
  /\ UNCHANGED <<m, owner, tokens, flags, handles, cpc, spc, dpc, phase, outcome, scenario>>

\* Mutant of Returned: the end of a program leaves background scopes alone.
ReturnedForeground(e, p) ==
  IF outcome \in {"running", "pending"} THEN m ELSE FinishForeground(p)

\* runPrepared after machine.run: what is left of the machine.
Returned(e, p) ==
  CASE outcome \in {"running", "pending"} -> m
    [] outcome \in {"completed", "canceled"} -> IF e \in Programs THEN FinishRun(p) ELSE FinishForeground(p)
    [] outcome = "limited" /\ e \notin Programs -> FinishForeground(p)
    [] OTHER -> FinishRun(AbortQueuedTasks(p))

\* The rest of runPrepared, then capture and leaveOwner.
PollReturn(e) ==
  LET state == IF outcome \in {"limited", "lost"} THEN "failed" ELSE outcome
  IN  /\ hpc[e] = "run" /\ phase = "return"
      /\ m' = Returned(e, PublishScopeRoot(m, m.foreground, state))
      /\ Capture(e, outcome)
      /\ supToken' = (supToken \/ (outcome = "completed" /\ m'.up /\ m'.runnable.elems # {}))
      /\ \E p \in AfterPoll(e, state) : hpc' = [hpc EXCEPT ![e] = p]
      /\ owner' = Free /\ phase' = "off" /\ outcome' = "none"
      /\ UNCHANGED <<wake, signals, flags, cpc, spc, dpc, scenario>>

\* Wait itself calls Cancel: requestCancel stores the flag ...
HostCancel(e) ==
  /\ hpc[e] = "cancel"
  /\ cancelReq' = [cancelReq EXCEPT ![e] = TRUE]
  /\ hpc' = [hpc EXCEPT ![e] = "signal"]
  /\ UNCHANGED <<m, owner, tokens, interrupt, ctxDone, handles, cpc, spc, dpc, phase, outcome, scenario>>

\* ... then wakes the VM ...
HostCancelSignal(e) ==
  /\ hpc[e] = "signal"
  /\ SignalWake
  /\ hpc' = [hpc EXCEPT ![e] = "apply"]
  /\ UNCHANGED <<m, owner, signals, flags, handles, cpc, spc, dpc, phase, outcome, scenario>>

\* ... and applies the cancellation under the owner before Wait returns.
HostCancelApply(e) ==
  /\ hpc[e] = "apply" /\ owner = Free
  /\ ApplyRequestedCancellations
  /\ hpc' = [hpc EXCEPT ![e] = "returned"]
  /\ UNCHANGED <<owner, tokens, flags, cpc, spc, dpc, phase, outcome, scenario>>

-----------------------------------------------------------------------------
(* Canceler: Interrupt, Cancel, context.AfterFunc                          *)

ContextEnds(e) ==
  /\ e \in scenario.withContext /\ ~ctxDone[e]
  /\ ctxDone' = [ctxDone EXCEPT ![e] = TRUE]
  /\ UNCHANGED <<m, owner, tokens, interrupt, cancelReq, handles, threads, phase, outcome, scenario>>

\* requestCancel stores the flag.  AfterFunc runs it once the context is done
\* and Wait has registered it.
RequestCancel(e) ==
  /\ cpc[e] = "idle" /\ est[e] # "none"
  /\ e \in Cancelable \/ (ctxDone[e] /\ hpc[e] # "returned")
  /\ cancelReq' = [cancelReq EXCEPT ![e] = TRUE]
  /\ cpc' = [cpc EXCEPT ![e] = "signal"]
  /\ UNCHANGED <<m, owner, tokens, interrupt, ctxDone, handles, hpc, spc, dpc, phase, outcome, scenario>>

\* Mutant of RequestSignal: a flag nobody is told of.
RequestSilently(e) ==
  /\ cpc[e] = "signal"
  /\ cpc' = [cpc EXCEPT ![e] = "done"]
  /\ UNCHANGED <<m, owner, tokens, flags, handles, hpc, spc, dpc, phase, outcome, scenario>>

\* ... and wakes the VM and the supervisor.
RequestSignal(e) ==
  /\ cpc[e] = "signal"
  /\ SignalWake
  /\ \/ e \in Cancelable /\ cpc' = [cpc EXCEPT ![e] = "apply"]   \* Cancel
     \/ cpc' = [cpc EXCEPT ![e] = "done"]                       \* Interrupt, AfterFunc
  /\ UNCHANGED <<m, owner, signals, flags, handles, hpc, spc, dpc, phase, outcome, scenario>>

\* Cancel goes on to the owner.
CancelApply(e) ==
  /\ cpc[e] = "apply" /\ owner = Free
  /\ ApplyRequestedCancellations
  /\ cpc' = [cpc EXCEPT ![e] = "done"]
  /\ UNCHANGED <<owner, tokens, flags, hpc, spc, dpc, phase, outcome, scenario>>

-----------------------------------------------------------------------------
(* Supervisor                                                              *)

SuperviseWake ==
  /\ spc = "select" /\ supToken
  /\ supToken' = FALSE
  /\ spc' = IF IsOpen THEN "enter" ELSE "select"
  /\ UNCHANGED <<m, owner, wake, signals, flags, handles, hpc, cpc, dpc, phase, outcome, scenario>>

SuperviseExit ==
  /\ spc = "select" /\ instDone
  /\ spc' = "exit"
  /\ UNCHANGED <<m, owner, tokens, flags, handles, hpc, cpc, dpc, phase, outcome, scenario>>

\* Mutant of SuperviseEnter: an early continue forgets leaveOwner.
SuperviseEnterLeaks ==
  /\ spc = "enter" /\ owner = Free
  /\ ApplyRequestedCancellations
  /\ owner' = Supervisor
  /\ IF lifecycle' = "open" /\ active' = NoExec /\ m'.up
     THEN spc' = "run" /\ phase' = "begin"
     ELSE spc' = "select" /\ UNCHANGED phase
  /\ UNCHANGED <<tokens, flags, hpc, cpc, dpc, outcome, scenario>>

\* The token is dropped when a foreground execution is active: its Poll is
\* expected to run the background tasks too.
SuperviseEnter ==
  /\ spc = "enter" /\ owner = Free
  /\ IF IsOpen /\ m.up
     THEN /\ ApplyRequestedCancellations
          /\ IF lifecycle' = "open" /\ active' = NoExec /\ m'.up
             THEN spc' = "run" /\ owner' = Supervisor /\ phase' = "begin"
             ELSE spc' = "select" /\ UNCHANGED <<owner, phase>>
     ELSE spc' = "select" /\ UNCHANGED <<m, handles, owner, phase>>
  /\ UNCHANGED <<tokens, flags, hpc, cpc, dpc, outcome, scenario>>

SuperviseReturn ==
  LET fails == outcome \notin {"running", "pending", "completed"}
  IN  /\ spc = "run" /\ phase = "return"
      /\ m' = CASE fails -> FinishRun(AbortQueuedTasks(m))
                [] outcome = "pending" /\ OpenScopes(m) = {} -> FinishForeground(m)
                [] OTHER -> m
      /\ lifecycle' = IF fails /\ IsOpen THEN "faulted" ELSE lifecycle
      /\ instDone' = (instDone \/ fails)
      /\ supToken' = (supToken \/ outcome = "running")
      /\ spc' = "select" /\ owner' = Free /\ phase' = "off" /\ outcome' = "none"
      /\ UNCHANGED <<wake, signals, flags, active, est, hpc, cpc, dpc, scenario>>

-----------------------------------------------------------------------------
(* Shutdown                                                                *)

ShutdownBegin ==
  /\ scenario.shutdown /\ dpc = "idle"
  /\ lifecycle' = "closing"
  /\ dpc' = "interrupt"
  /\ UNCHANGED <<m, owner, tokens, flags, instDone, active, est, hpc, cpc, spc, phase, outcome, scenario>>

ShutdownInterrupt ==
  /\ dpc = "interrupt"
  /\ interrupt' = TRUE
  /\ SignalWake
  /\ dpc' = "enter"
  /\ UNCHANGED <<m, owner, signals, cancelReq, ctxDone, handles, hpc, cpc, spc, phase, outcome, scenario>>

\* Mutant of ShutdownAbort: every handle is cancelled, ended or not.
ShutdownAbortAll ==
  /\ dpc = "enter" /\ owner = Free
  /\ m' = FinishRun(IF m.up THEN AbortQueuedTasks(m) ELSE m)
  /\ est' = [e \in Execs |-> IF est[e] # "none" THEN "canceled" ELSE est[e]]
  /\ active' = NoExec
  /\ dpc' = "session"
  /\ UNCHANGED <<owner, tokens, flags, lifecycle, instDone, hpc, cpc, spc, phase, outcome, scenario>>

\* shutdownInstance: abort, finishRun and cancelOwned of the active execution.
ShutdownAbort ==
  /\ dpc = "enter" /\ owner = Free
  /\ m' = FinishRun(IF m.up THEN AbortQueuedTasks(m) ELSE m)
  /\ est' = [e \in Execs |-> IF e = active /\ est[e] \notin Terminal THEN "canceled" ELSE est[e]]
  /\ active' = NoExec
  /\ dpc' = "session"
  /\ UNCHANGED <<owner, tokens, flags, lifecycle, instDone, hpc, cpc, spc, phase, outcome, scenario>>

\* The FFI session is shut down, revisions are closed, done closes.
ShutdownFinish ==
  /\ dpc = "session" /\ owner = Free
  /\ lifecycle' = "closed" /\ instDone' = TRUE
  /\ dpc' = "done"
  /\ UNCHANGED <<m, owner, tokens, flags, active, est, hpc, cpc, spc, phase, outcome, scenario>>

-----------------------------------------------------------------------------
(* Host operations that complete                                           *)

\* pendingFFICall.complete stores the result ...
FFIComplete(t) ==
  /\ m.tk[t].ffi = "waiting"
  /\ m' = [m EXCEPT !.tk[t].ffi = "ready"]
  /\ signals' = signals + 1
  /\ UNCHANGED <<owner, wake, supToken, flags, handles, threads, phase, outcome, scenario>>

\* runtimeTimer.markReady does the same ...
TimerFire(t) ==
  /\ m.tk[t].timer = "armed"
  /\ m' = [m EXCEPT !.tk[t].timer = "ready"]
  /\ signals' = signals + 1
  /\ UNCHANGED <<owner, wake, supToken, flags, handles, threads, phase, outcome, scenario>>

\* Mutant of CompletionSignal: only the supervisor is woken.
CompletionSignalsSupervisor ==
  /\ signals > 0
  /\ signals' = signals - 1
  /\ supToken' = TRUE
  /\ UNCHANGED <<m, owner, wake, flags, handles, threads, phase, outcome, scenario>>

\* ... and both signal after they have unlocked.
CompletionSignal ==
  /\ signals > 0
  /\ signals' = signals - 1
  /\ SignalWake
  /\ UNCHANGED <<m, owner, flags, handles, threads, phase, outcome, scenario>>

-----------------------------------------------------------------------------
(* machine.run, by whoever owns the VM                                     *)

rest == <<owner, tokens, flags, handles, threads, scenario>>

\* Continue in phase p, or return with outcome o.
Goto(p)   == phase' = p /\ UNCHANGED outcome
Return(o) == phase' = "return" /\ outcome' = o

RunBegin ==
  /\ phase = "begin"
  /\ m' = [CancelScopes(m, Requested(m), "canceled") EXCEPT !.attempts = 0]
  /\ IF m.foreground \in Requested(m) THEN Return("canceled") ELSE Goto("pick")
  /\ UNCHANGED rest

\* popRunnable
RunPick ==
  /\ phase = "pick"
  /\ \E t \in Tasks :
       /\ IsHead(m.runnable, t)
       /\ m' = [m EXCEPT !.runnable = Without(@, {t}), !.running = t]
  /\ Goto("exec")
  /\ UNCHANGED rest

\* Nothing is runnable: wake what can be woken, or say why the run stops.
RunIdle ==
  /\ phase = "pick" /\ m.runnable.elems = {}
  /\ \E w \in {WakeBlocked(m)} :
      /\ m' = w
      /\ CASE w.runnable.elems # {} -> Goto("pick")
           [] w.runnable.elems = {} /\ w.blocked.elems # {} ->
                IF \/ AllTimers(w) # {}
                   \/ \E t \in w.blocked.elems : w.tk[t].op = "ffi"
                   \/ w.foreground = NoExec
                THEN Return("pending")
                ELSE Return("failed")          \* AllBlockedError
           [] w.runnable.elems = {} /\ w.blocked.elems = {} ->
                IF w.foreground = NoExec THEN Return("pending")
                ELSE Return("lost")            \* root execution context did not complete
  /\ UNCHANGED rest

RunWake ==
  /\ phase = "wake"
  /\ m' = WakeBlocked(m)
  /\ Goto("pick")
  /\ UNCHANGED rest

\* A task of machine q failed in a way its own scope answers for:
\* cancelRequested, or a library scope over a limit.  Only that scope ends.
EndScope(q, state, out) ==
  /\ m' = CancelScopes(EndRunning(q), {Scope(m)}, state)
  /\ IF m.foreground = Scope(m) THEN Return(out) ELSE Goto("pick")

\* Any other error ends every queued task and the run.
FailRun(out) ==
  /\ m' = AbortQueuedTasks(EndRunning(m))
  /\ Return(out)

Running == phase = "exec" /\ UNCHANGED rest

\* Mutant of RunCanceled: a cancelled task ends the whole run.
RunCanceledAll ==
  /\ Running /\ cancelReq[Scope(m)]
  /\ FailRun("canceled")

RunCanceled ==
  /\ Running /\ cancelReq[Scope(m)]
  /\ EndScope(m, "canceled", "canceled")

RunInterrupted ==
  /\ Running /\ ~cancelReq[Scope(m)] /\ interrupt
  /\ FailRun("canceled")

\* The flags and the poll budget are looked at before each instruction.
Polled == Quantum > 0 /\ m.attempts >= Quantum
Checked == Running /\ ~cancelReq[Scope(m)] /\ ~interrupt

\* taskYieldPoll
RunPollYield ==
  /\ Checked /\ Polled
  /\ m' = PollYield(m)
  /\ Return("running")

\* A limit of the scope: its steps are used up, or an allocation is refused.
LimitReached == m.sc[Scope(m)].steps >= MaxSteps \/ "limit" \in Instructions

RunLimit ==
  /\ Checked /\ ~Polled /\ LimitReached
  /\ IF Scope(m) \in Programs THEN FailRun("limited") ELSE EndScope(Attempt(m), "failed", "limited")

\* The flag is looked at again when an instruction has failed.  A request that
\* came in between makes the scope answer for the error, whatever it is.
RunFailCanceled ==
  /\ Running /\ cancelReq[Scope(m)] /\ ~Polled
  /\ \/ "fail" \in Instructions /\ EndScope(Attempt(m), "failed", "failed")
     \/ LimitReached /\ EndScope(Attempt(m), "failed", "limited")

\* taskYieldComplete.  Falling off the end of the root frame looks at no flag.
RunComplete ==
  /\ Running
  /\ LET root    == m.foreground # NoExec /\ m.running = m.sc[m.foreground].root
         program == root /\ m.foreground \in Programs
         ended   == EndRunning(m)
     IN  /\ m' = IF program THEN AbortQueuedTasks(ended) ELSE ended
         /\ IF root THEN Return("completed") ELSE Goto("wake")

\* One more instruction is allowed and is of kind i.
Execute(i) ==
  /\ Checked /\ ~Polled
  /\ i \in Instructions
  /\ m.sc[Scope(m)].steps < MaxSteps

RunCompute ==
  /\ Execute("compute")
  /\ m' = Step(m)
  /\ Goto("exec")

\* Its quantum is used up and others are runnable.  A NoSwitch function goes
\* on instead.
RunCooperate ==
  /\ Checked /\ ~Polled
  /\ m.tk[m.running].quantum >= TaskQuantum
  /\ m.runnable.elems # {}
  /\ m' = Cooperate(m)
  /\ Goto("wake")

\* An unrecovered panic or a runtime error.
RunFail ==
  /\ Execute("fail")
  /\ FailRun("failed")

RunSpawn ==
  /\ Execute("spawn")
  /\ m.nextID <= NumTasks                 \* bound on context ids
  /\ IF TaskLimitHit(m, 2)
     THEN FailRun("limited")
     ELSE m' = Spawn(Step(m)) /\ Goto("wake")

RunFFI ==
  /\ Execute("ffi")
  /\ IF EventLimitHit(m)
     THEN FailRun("failed")
     ELSE m' = BlockOnFFI(Step(m)) /\ Goto("wake")

RunTimer ==
  /\ Execute("timer") /\ m.tk[m.running].timer = "none"
  /\ IF EventLimitHit(m)
     THEN FailRun("failed")
     ELSE m' = StartTimer(Step(m)) /\ Goto("exec")

RunReceive ==
  /\ Execute("recv")
  /\ m' = Receive(Step(m))
  /\ IF m.tk[m.running].sig THEN Goto("exec") ELSE Goto("wake")

\* A send another task's receive is waiting for.
RunSend ==
  /\ Execute("send")
  /\ \E u \in m.blocked.elems :
       /\ m.tk[u].op = "recv" /\ ~m.tk[u].sig
       /\ m' = [Step(m) EXCEPT !.tk[u].sig = TRUE]
  /\ Goto("exec")

RunStep ==
  \/ RunBegin \/ RunPick \/ RunIdle \/ RunWake
  \/ RunCanceled \/ RunInterrupted \/ RunPollYield \/ RunLimit \/ RunFailCanceled
  \/ RunComplete \/ RunCompute \/ RunCooperate \/ RunFail \/ RunSpawn \/ RunFFI \/ RunTimer
  \/ RunReceive \/ RunSend

-----------------------------------------------------------------------------
HostStep(e) ==
  \/ StartPrepare(e) \/ StartAbandon(e) \/ WaitLoop(e) \/ WaitWake(e) \/ WaitContext(e)
  \/ PollEnter(e) \/ PollContext(e) \/ PollReturn(e)
  \/ HostCancel(e) \/ HostCancelSignal(e) \/ HostCancelApply(e)

SupervisorStep == SuperviseWake \/ SuperviseExit \/ SuperviseEnter \/ SuperviseReturn
ShutdownStep   == ShutdownInterrupt \/ ShutdownAbort \/ ShutdownFinish

Request ==
  \/ \E e \in Execs : StartEnter(e) \/ StartRefused(e) \/ ContextEnds(e) \/ RequestCancel(e)
  \/ ShutdownBegin

\* What has to go on by itself: every goroutine that is not waiting for
\* somebody else, the hosts the VM calls and its clocks.  Nobody has to start,
\* cancel or shut down.
Progress ==
  \/ \E e \in Execs : HostStep(e) \/ RequestSignal(e) \/ CancelApply(e)
  \/ SupervisorStep
  \/ ShutdownStep
  \/ \E t \in Tasks : FFIComplete(t) \/ TimerFire(t)
  \/ CompletionSignal
  \/ RunStep

Next == Progress \/ Request

Spec == Init /\ [][Next]_vars

\* Every script ends (consumeStep), so no step can be overtaken forever and one
\* weak fairness condition on all of them is enough.  A scenario without it may
\* stop anywhere, and only its safety is looked at.
Fairness == WF_vars(scenario.fair /\ Progress)

FairSpec == Spec /\ Fairness

-----------------------------------------------------------------------------
(* Properties                                                              *)

\* Each counter of an open scope is the number of things it counts, and a
\* scope whose done channel is closed owns nothing any more ("ScopeDone closes
\* after all tasks, timers, and FFI calls created by this invocation have
\* reached a terminal state", execution_scope.go).
ScopeAccounting ==
  \A e \in Execs :
    /\ m.sc[e].status = "open" =>
         /\ m.sc[e].tasks  = Cardinality(Live(m, e))
         /\ m.sc[e].timers = Cardinality(Timers(m, e))
         /\ m.sc[e].ffis   = Cardinality(FFICalls(m, e))
    /\ m.sc[e].status # "open" => Live(m, e) \cup Timers(m, e) \cup FFICalls(m, e) = {}

\* Every task that has not finished is in exactly one of the places the
\* scheduler will look at: the two queues or the task being run.  None is left
\* behind when the machine is dropped.
TaskInOnePlace ==
  /\ m.runnable.elems \cap m.blocked.elems = {}
  /\ m.running \notin Queued(m)
  /\ {t \in Tasks : m.tk[t].state = "live"} = (Queued(m) \cup {m.running}) \ {NoTask}

\* vm.pendingEvents is what MaxPendingEvents is compared with: it counts the
\* outstanding timers and FFI calls, none of them twice.
EventAccounting ==
  /\ m.events = Cardinality(AllTimers(m)) + Cardinality(AllFFICalls(m))
  /\ m.events <= MaxPendingEvents

\* Once instance.done is closed nothing of the instance is left behind: no
\* machine, no open scope, no timer or FFI call.
DoneMeansQuiet ==
  instDone /\ owner = Free =>
    /\ ~m.up /\ OpenScopes(m) = {}
    /\ AllTimers(m) \cup AllFFICalls(m) = {}

\* The state a settled scope reports for its root is the state of the execution
\* handle the host holds.
RootStateAgrees ==
  owner = Free =>
    \A e \in Execs :
      m.sc[e].status # "none" /\ m.sc[e].published /\ est[e] # "none" => m.sc[e].rootState = est[e]

\* A result that was published is never replaced, whoever cancels or shuts down
\* later (USAGE.md: Cancel leaves a completed result unchanged).
ResultStable == [][\A e \in Execs : est[e] \in Terminal => est'[e] = est[e]]_vars

\* The running task may spawn another, which would pass MaxTasks.
SpawnPassesLimit ==
  /\ phase = "exec" /\ "spawn" \in Instructions
  /\ m.sc[Scope(m)].steps < MaxSteps
  /\ TaskLimitHit(m, 2)

\* A task that does not end by itself ends because of its own scope (cancelled,
\* or one of its tasks failed or hit a limit), because the run or the instance
\* ends, or because a spawn of the running task was refused at MaxTasks: that limit
\* is the machine's, and the run answers for it (scheduler_run.go, admitTasks).
ScopesEndAlone ==
  [][\A t \in Tasks :
       /\ m.tk[t].state = "live" /\ m'.tk[t].state = "finished"
       /\ t # m.running
       => \/ cancelReq[m.tk[t].scope]
          \/ m.running # NoTask /\ Scope(m) = m.tk[t].scope
          \/ lifecycle' # "open" \/ outcome' = "failed"
          \/ m.foreground \in Programs
          \/ outcome' = "limited" /\ SpawnPassesLimit]_vars

\* The calls of the scenarios in which everybody goes on: liveness is about them.
FairCalls == UNION {s.calls : s \in {x \in Scenarios : x.fair}}

\* Execution.Wait returns.
WaitReturns ==
  \A e \in FairCalls : scenario.fair /\ hpc[e] = "loop" ~> hpc[e] = "returned"

\* Execution.Wait returns, or somebody has called Shutdown.
WaitReturnsOrShutdown ==
  \A e \in FairCalls :
    scenario.fair /\ hpc[e] = "loop" ~> (hpc[e] = "returned" \/ dpc # "idle")

\* A cancel request reaches the scope even when nobody polls it.
CancelSettles ==
  \A e \in FairCalls :
    scenario.fair /\ cancelReq[e] /\ m.sc[e].status = "open" ~> m.sc[e].status = "settled"

\* Shutdown always reaches its end.
ShutdownCompletes == scenario.fair /\ dpc = "interrupt" ~> dpc = "done"

==============================================================================
