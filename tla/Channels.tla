------------------------------ MODULE Channels ------------------------------
(***************************************************************************)
(* Tasks that communicate over channels: the send, receive and select      *)
(* instructions (runtime/scheduler_control.go), their reflect forms        *)
(* (runtime/reflect_select.go, reflect_channel.go, scheduler_run.go), the  *)
(* instruction sequence a select statement is compiled to                  *)
(* (compiler/lower/control_select.go) and the scheduler's resumption of    *)
(* blocked tasks (runtime/scheduler_wait.go).                              *)
(*                                                                         *)
(* One task runs at a time.  It may be preempted between any two           *)
(* instructions (its quantum is 64 instructions and a program has others   *)
(* between these), so a select is five kinds of step: the registration of  *)
(* each case, the park or poll, the communication of the chosen case, its  *)
(* body, and the cancellation of the wait set after the body.  Every yield *)
(* is followed by wakeBlocked, whose passes over the blocked list are      *)
(* single steps here during which nothing else runs.                       *)
(***************************************************************************)
EXTENDS Waitable, Functions, SequencesExt

CONSTANTS
    Selects,    \* the case lists of the program's select statements
    MaxOps,     \* bound: communications a task performs
    Starts,     \* bound: how many of them each task has already used up
    MaxCases    \* bound: cases of a select

None == "none"     \* no task is running

\* A value names the send it came from, so that two values are never confused.
\* Token i of a task's n-th communication belongs to its i-th select case;
\* token 0 is the one a blocked receive holds.
ASSUME ChannelsAssumption ==
    /\ MaxOps \in Nat \ {0}
    /\ MaxCases \in Nat
    /\ None \notin Tasks
    /\ IsFiniteSet(Tasks)
    /\ Starts \subseteq [Tasks -> 0..MaxOps]
    /\ Values = Tasks \X (1..MaxOps)
    /\ Tokens = Tasks \X (1..MaxOps) \X (0..MaxCases)
    /\ Selects \subseteq UNION {[1..i -> Directions \X (Chans \cup {Nil})] : i \in 1..MaxCases}

NoValue == <<>>
Case == Directions \X (Chans \cup {Nil})

VARIABLES
    heap,       \* the channels and the wait tokens
    task,       \* each task's place in its current communication
    runnable,   \* machine.runnable
    blocked,    \* machine.blocked
    current,    \* the task being run, or None
    scan,       \* wakeBlocked's index into blocked, 0 outside it
    progress,   \* whether this pass of wakeBlocked resumed a task
    got,        \* the last value each task received
    sent        \* the values whose send returned to the program

vars == <<heap, task, runnable, blocked, current, scan, progress, got, sent>>
machine == <<runnable, blocked, current, scan, progress>>

(***************************************************************************)
(* A task's record: pc; n, the number of communications it began; cases,   *)
(* the select it is in (<<>> outside one); dflt and refl, whether that     *)
(* select has a default clause and whether it is reflect.Select; k, the    *)
(* case being registered, or the chosen one; op, what it is blocked on.    *)
(***************************************************************************)
Idle(n) == [pc |-> "run", n |-> n, cases |-> <<>>, dflt |-> FALSE, refl |-> FALSE,
            k |-> 0, op |-> <<"recv", Nil>>]

Pcs == {"run", "register", "choose", "commit", "body", "send", "recv", "park", "done"}

TaskType ==
    [pc : Pcs, n : 0..MaxOps, cases : {<<>>} \cup Selects, dflt : BOOLEAN, refl : BOOLEAN,
     k : 0..MaxCases + 1, op : Case]

TypeOK ==
    /\ heap \in Heap
    /\ task \in [Tasks -> TaskType]
    /\ \A t \in Tasks : task[t].pc = "register" => task[t].k \in 1..Len(task[t].cases)
    /\ runnable \in Seq(Tasks)
    /\ blocked \in Seq(Tasks)
    /\ current \in Tasks \cup {None}
    /\ scan \in 0..Len(blocked) + 1
    /\ progress \in BOOLEAN
    /\ got \in [Tasks -> Values \cup {NoValue}]
    /\ sent \subseteq Values

Init ==
    /\ heap = EmptyHeap
    /\ \E used \in Starts :
         /\ task = [t \in Tasks |-> [Idle(used[t]) EXCEPT !.pc = IF used[t] < MaxOps THEN @ ELSE "done"]]
         /\ runnable \in SetToSeqs({t \in Tasks : used[t] < MaxOps})
    /\ blocked = <<>>
    /\ current = None
    /\ scan = 0
    /\ progress = FALSE
    /\ got = [t \in Tasks |-> NoValue]
    /\ sent = {}

TokenOf(t, i) == <<t, task[t].n, i>>
SelectTokens(t) == {TokenOf(t, i) : i \in 1..Len(task[t].cases)}
ValueOf(t) == <<t, task[t].n>>

-----------------------------------------------------------------------------
(***************************************************************************)
(* Yields.  Each ends the slice and starts wakeBlocked.                    *)
(***************************************************************************)
StartWake == scan' = 1 /\ progress' = FALSE /\ current' = None

KeepRunning == UNCHANGED machine

\* blockTask and taskYieldBlocked
Block(t) ==
    /\ blocked' = Append(blocked, t)
    /\ StartWake
    /\ UNCHANGED runnable

Dispatch ==
    /\ current = None
    /\ scan = 0
    /\ runnable # <<>>
    /\ current' = Head(runnable)
    /\ runnable' = Tail(runnable)
    /\ UNCHANGED <<heap, task, blocked, scan, progress, got, sent>>

\* taskYieldCooperate: the quantum is used up and another task is runnable
Preempt(t) ==
    /\ current = t
    /\ runnable # <<>>
    /\ runnable' = Append(runnable, t)
    /\ StartWake
    /\ UNCHANGED <<heap, task, blocked, got, sent>>

\* taskYieldComplete
Finish(t) ==
    /\ current = t
    /\ task[t].pc = "run"
    /\ task' = [task EXCEPT ![t].pc = "done"]
    /\ StartWake
    /\ UNCHANGED <<heap, runnable, blocked, got, sent>>

-----------------------------------------------------------------------------
(***************************************************************************)
(* Send and receive, as statements and as the communication of a select    *)
(* case that was chosen.  An operation that returns goes on in the body of *)
(* the select it belongs to; one that panics leaves the select, and the    *)
(* task goes on in a recovering caller.                                    *)
(***************************************************************************)
Returned(me) == IF me.cases = <<>> THEN Idle(me.n) ELSE [me EXCEPT !.pc = "body"]

\* preparedWaitableSend, and reflect's Send, by the task whose record is me
DoSend(t, me, c) ==
    /\ IF c = Nil \/ (~heap.chan[c].closed /\ Full(heap, c))
       THEN /\ task' = [task EXCEPT ![t] = [me EXCEPT !.pc = "send", !.op = <<"send", c>>]]
            /\ Block(t)
       ELSE /\ task' = [task EXCEPT ![t] = IF heap.chan[c].closed THEN Idle(me.n) ELSE Returned(me)]
            /\ KeepRunning
    /\ IF c = Nil \/ heap.chan[c].closed
       THEN UNCHANGED <<heap, sent>>
       ELSE /\ heap' = Send(heap, c, t, <<t, me.n>>)
            /\ sent' = IF Full(heap, c) THEN sent ELSE sent \cup {<<t, me.n>>}
    /\ UNCHANGED got

\* waitableTryRecvValue's result: a value, or the zero value of a closed channel
Received(s, c) == IF HasValue(s, c) THEN FrontValue(s, c) ELSE NoValue
Taken(s, c) == IF HasValue(s, c) THEN TakeValue(s, c) ELSE s

\* preparedWaitableRecv and preparedWaitableRecvOK, and reflect's Recv
DoRecv(t, me, c) ==
    /\ IF RecvReady(heap, c)
       THEN /\ heap' = Taken(heap, c)
            /\ got' = [got EXCEPT ![t] = Received(heap, c)]
            /\ task' = [task EXCEPT ![t] = Returned(me)]
            /\ KeepRunning
       ELSE /\ heap' = WaitRecv(heap, c, <<t, me.n, 0>>)
            /\ task' = [task EXCEPT ![t] = [me EXCEPT !.pc = "recv", !.op = <<"recv", c>>]]
            /\ Block(t)
            /\ UNCHANGED got
    /\ UNCHANGED sent

\* the task begins its next communication, with this record
Begins(t) == current = t /\ task[t].pc = "run" /\ task[t].n < MaxOps
Begun(t) == Idle(task[t].n + 1)

SendStatement(t, c) == Begins(t) /\ DoSend(t, Begun(t), c)

RecvExpression(t, c) == Begins(t) /\ DoRecv(t, Begun(t), c)

\* reflect's TrySend; on a closed channel it only reports an error
TrySendCall(t, c) ==
    /\ Begins(t)
    /\ ~heap.chan[c].closed
    /\ task' = [task EXCEPT ![t] = Begun(t)]
    /\ IF CanTrySend(heap, c)
       THEN /\ heap' = TrySend(heap, c, <<t, Begun(t).n>>)
            /\ sent' = sent \cup {<<t, Begun(t).n>>}
       ELSE UNCHANGED <<heap, sent>>
    /\ KeepRunning
    /\ UNCHANGED got

\* close(c); of a closed channel it only panics
CloseStatement(t, c) ==
    /\ Begins(t)
    /\ ~heap.chan[c].closed
    /\ task' = [task EXCEPT ![t] = Begun(t)]
    /\ heap' = Close(heap, c)
    /\ KeepRunning
    /\ UNCHANGED <<got, sent>>

-----------------------------------------------------------------------------
(***************************************************************************)
(* The select statement.                                                   *)
(***************************************************************************)
\* lowerSelectCommunication up to the new wait set
SelectBegin(t, cases, dflt) ==
    /\ Begins(t)
    /\ task' = [task EXCEPT ![t] = [Begun(t) EXCEPT
                    !.pc = "register", !.cases = cases, !.dflt = dflt, !.k = 1]]
    /\ KeepRunning
    /\ UNCHANGED <<heap, got, sent>>

Subscribe(s, c, k) == IF c[1] = "recv" THEN WaitRecv(s, c[2], k) ELSE WaitSend(s, c[2], k)

\* make the case's token, add it to the wait set, subscribe it to its channel
SelectRegister(t) ==
    /\ current = t
    /\ task[t].pc = "register"
    /\ heap' = Subscribe(heap, task[t].cases[task[t].k], TokenOf(t, task[t].k))
    /\ task' = [task EXCEPT ![t].k = @ + 1,
                            ![t].pc = IF task[t].k = Len(task[t].cases) THEN "choose" ELSE @]
    /\ KeepRunning
    /\ UNCHANGED <<got, sent>>

\* waitSetReadyIndex: one of the cases whose token is signalled
ReadyCases(s, t) ==
    {i \in 1..Len(task[t].cases) :
        s.token[TokenOf(t, i)].signaled /\ ~s.token[TokenOf(t, i)].canceled}

Chosen(t, i) == [task[t] EXCEPT !.pc = "commit", !.k = i, !.op = task[t].cases[i]]

\* preparedWaitSetPark and preparedWaitSetPoll.  The communication of the
\* chosen case is an ordinary send or receive, executed by a later step
SelectChoose(t) ==
    /\ current = t
    /\ task[t].pc = "choose"
    /\ \/ /\ \E i \in ReadyCases(heap, t) : task' = [task EXCEPT ![t] = Chosen(t, i)]
          /\ KeepRunning
       \/ /\ ReadyCases(heap, t) = {}
          /\ task[t].dflt
          /\ task' = [task EXCEPT ![t].pc = "body"]
          /\ KeepRunning
       \/ /\ ReadyCases(heap, t) = {}
          /\ ~task[t].dflt
          /\ task' = [task EXCEPT ![t].pc = "park"]
          /\ Block(t)
    /\ UNCHANGED <<heap, got, sent>>

\* the chosen case's communication
SelectCommit(t) ==
    /\ current = t
    /\ task[t].pc = "commit"
    /\ IF task[t].op[1] = "send" THEN DoSend(t, task[t], task[t].op[2])
                                 ELSE DoRecv(t, task[t], task[t].op[2])

\* the body falls through (or breaks) to the end of the select, where the wait
\* set is cancelled
SelectEnd(t) ==
    /\ current = t
    /\ task[t].pc = "body"
    /\ heap' = CancelTokens(heap, SelectTokens(t))
    /\ task' = [task EXCEPT ![t] = Idle(task[t].n)]
    /\ KeepRunning
    /\ UNCHANGED <<got, sent>>

\* the body leaves by return, continue, an outer break or a panic: the jump
\* passes over the cancellation, and the tokens stay subscribed
SelectLeave(t) ==
    /\ current = t
    /\ task[t].pc = "body"
    /\ task' = [task EXCEPT ![t] = Idle(task[t].n)]
    /\ KeepRunning
    /\ UNCHANGED <<heap, got, sent>>

-----------------------------------------------------------------------------
(***************************************************************************)
(* reflect.Select is one instruction: it takes a ready case at once, or    *)
(* subscribes all of them and parks.                                       *)
(***************************************************************************)
CaseReady(s, c) == IF c[1] = "recv" THEN RecvReady(s, c[2]) ELSE SendReady(s, c[2])

\* all cases are subscribed, case i with token toks[i], when none is ready.  A send
\* case then finds nobody but an earlier receive case of its own on the same
\* unbuffered channel, and is signalled.
SubscribeAll(s, cases, toks) ==
    LET self(i) == /\ cases[i][1] = "send" /\ cases[i][2] # Nil /\ Capacity[cases[i][2]] = 0
                   /\ \E j \in 1..i - 1 : cases[j] = <<"recv", cases[i][2]>>
        queued(dir, c) == {toks[i] : i \in {j \in DOMAIN cases : cases[j] = <<dir, c>> /\ ~self(j)}}
    IN  [chan |-> [c \in Chans |->
             [s.chan[c] EXCEPT !.recvWaiters = @ \o Keep(toks, queued("recv", c)),
                               !.sendWaiters = @ \o Keep(toks, queued("send", c))]],
         token |-> [k \in Tokens |->
             [s.token[k] EXCEPT
                 !.signaled = @ \/ \E i \in DOMAIN cases : toks[i] = k /\ self(i),
                 !.registrations = @ \cup {r \in Registration : k \in queued(r[2], r[1])}]]]

\* reflectCompleteSelect: the chosen case is done at once, or it panics because
\* its channel was closed for sending or is no longer ready
CompleteSelect(s, t, c, v) ==
    \/ /\ c[1] = "send" /\ ~s.chan[c[2]].closed /\ CanTrySend(s, c[2])
       /\ heap' = TrySend(s, c[2], v)
       /\ sent' = sent \cup {v}
       /\ UNCHANGED got
    \/ /\ c[1] = "recv" /\ RecvReady(s, c[2])
       /\ heap' = Taken(s, c[2])
       /\ got' = [got EXCEPT ![t] = Received(s, c[2])]
       /\ UNCHANGED sent
    \/ /\ ~(c[1] = "send" /\ ~s.chan[c[2]].closed /\ CanTrySend(s, c[2]))
       /\ ~(c[1] = "recv" /\ RecvReady(s, c[2]))
       /\ heap' = s
       /\ UNCHANGED <<got, sent>>

\* a case that is ready at once, the default, or all cases subscribed; then the
\* wait set is looked at before the task parks
ReflectSelect(t, cases, dflt) ==
    /\ Begins(t)
    /\ LET me     == Begun(t)
           toks   == [i \in DOMAIN cases |-> <<t, me.n, i>>]
           first  == {i \in DOMAIN cases : CaseReady(heap, cases[i])}
           subscribed == SubscribeAll(heap, cases, toks)
           second == {i \in DOMAIN cases : subscribed.token[toks[i]].signaled}
           canceled == CancelTokens(subscribed, Range(toks))
           parks  == first = {} /\ ~dflt /\ second = {}
       IN  /\ \/ \E i \in first : CompleteSelect(heap, t, cases[i], <<t, me.n>>)
              \/ first = {} /\ dflt /\ UNCHANGED <<heap, got, sent>>
              \/ /\ first = {} /\ ~dflt
                 /\ \E i \in second : CompleteSelect(canceled, t, cases[i], <<t, me.n>>)
              \/ parks /\ heap' = subscribed /\ UNCHANGED <<got, sent>>
           /\ IF parks
              THEN /\ task' = [task EXCEPT ![t] = [me EXCEPT !.pc = "park", !.cases = cases, !.refl = TRUE]]
                   /\ Block(t)
              ELSE /\ task' = [task EXCEPT ![t] = me]
                   /\ KeepRunning

-----------------------------------------------------------------------------
(***************************************************************************)
(* wakeBlocked: the blocked tasks are asked in their order, again and      *)
(* again until a pass resumes none.                                        *)
(***************************************************************************)
Ready(t) ==
    LET c == task[t].op[2]
    IN  \/ /\ task[t].pc = "send" /\ c # Nil
           /\ (t \in heap.chan[c].completed \/ heap.chan[c].closed)
        \/ task[t].pc = "recv" /\ RecvReady(heap, c)
        \/ task[t].pc = "park" /\ ReadyCases(heap, t) # {}

\* resumeBlocked, operation "send": the send was completed, or it panics
ResumeSend(t, c) ==
    /\ task[t].pc = "send"
    /\ IF t \in heap.chan[c].completed
       THEN /\ heap' = TakeCompletedSend(heap, c, t)
            /\ task' = [task EXCEPT ![t] = Returned(task[t])]
            /\ sent' = sent \cup {ValueOf(t)}
       ELSE /\ task' = [task EXCEPT ![t] = Idle(task[t].n)]
            /\ UNCHANGED <<heap, sent>>
    /\ UNCHANGED got

\* operation "recv"
ResumeRecv(t, c) ==
    /\ task[t].pc = "recv"
    /\ heap' = TokenCancel(Taken(heap, c), TokenOf(t, 0))
    /\ got' = [got EXCEPT ![t] = Received(heap, c)]
    /\ task' = [task EXCEPT ![t] = Returned(task[t])]
    /\ UNCHANGED sent

\* operation "waitset" of a select statement, and of reflect.Select
ResumePark(t) ==
    /\ task[t].pc = "park"
    /\ \E i \in ReadyCases(heap, t) :
         IF task[t].refl
         THEN /\ CompleteSelect(CancelTokens(heap, SelectTokens(t)), t, task[t].cases[i], ValueOf(t))
              /\ task' = [task EXCEPT ![t] = Idle(task[t].n)]
         ELSE /\ task' = [task EXCEPT ![t] = Chosen(t, i)]
              /\ UNCHANGED <<heap, got, sent>>

WakeResume ==
    /\ scan \in 1..Len(blocked)
    /\ LET t == blocked[scan]
       IN  /\ Ready(t)
           /\ ResumeSend(t, task[t].op[2]) \/ ResumeRecv(t, task[t].op[2]) \/ ResumePark(t)
           /\ blocked' = RemoveAt(blocked, scan)
           /\ runnable' = Append(runnable, t)
    /\ progress' = TRUE
    /\ UNCHANGED <<current, scan>>

\* Mutant of WakeSkip: the pass ends at the first task that cannot go on.
WakeSkipStops ==
    /\ scan \in 1..Len(blocked)
    /\ ~Ready(blocked[scan])
    /\ scan' = Len(blocked) + 1
    /\ UNCHANGED <<heap, task, runnable, blocked, current, progress, got, sent>>

WakeSkip ==
    /\ scan \in 1..Len(blocked)
    /\ ~Ready(blocked[scan])
    /\ scan' = scan + 1
    /\ UNCHANGED <<heap, task, runnable, blocked, current, progress, got, sent>>

WakePassEnd ==
    /\ scan = Len(blocked) + 1
    /\ scan' = IF progress THEN 1 ELSE 0
    /\ progress' = FALSE
    /\ UNCHANGED <<heap, task, runnable, blocked, current, got, sent>>

\* run's loop finds nothing runnable: it wakes once more before it reports that
\* all tasks are blocked, or waits for a timer or the host
WakeIdle ==
    /\ current = None
    /\ scan = 0
    /\ runnable = <<>>
    /\ blocked # <<>>
    /\ StartWake
    /\ UNCHANGED <<heap, task, runnable, blocked, got, sent>>

-----------------------------------------------------------------------------
(***************************************************************************)
(* cancelScope: the tasks of a scope are aborted, because one of them      *)
(* failed while it ran (no wakeBlocked follows) or because the scope was   *)
(* cancelled between slices.  cancelBlockedOperation undoes what each      *)
(* blocked task waits for; a task preempted inside a select is dropped     *)
(* with its tokens still subscribed.                                       *)
(***************************************************************************)
CancelBlockedOperations(s, scope) ==
    LET senders(c) == {t \in scope : task[t].pc = "send" /\ task[t].op[2] = c}
        waiters == {t \in scope : task[t].pc = "recv"}
        parked == {t \in scope : task[t].pc = "park"}
    IN  CancelTokens([s EXCEPT !.chan = [c \in Chans |-> CancelSend(@[c], senders(c))]],
                     {TokenOf(t, 0) : t \in waiters} \cup UNION {SelectTokens(t) : t \in parked})

CancelScope(scope) ==
    /\ \/ current \in scope
       \/ current = None /\ scan = 0
    /\ \A t \in scope : task[t].pc # "done"
    /\ heap' = CancelBlockedOperations(heap, scope)
    /\ task' = [t \in Tasks |-> IF t \in scope THEN [Idle(task[t].n) EXCEPT !.pc = "done"] ELSE task[t]]
    /\ runnable' = Keep(runnable, Tasks \ scope)
    /\ blocked' = Keep(blocked, Tasks \ scope)
    /\ current' = None
    /\ UNCHANGED <<scan, progress, got, sent>>

Next ==
    \/ Dispatch
    \/ WakeResume
    \/ WakeSkip
    \/ WakePassEnd
    \/ \E t \in Tasks :
         \/ Preempt(t)
         \/ Finish(t)
         \/ \E c \in Chans \cup {Nil} : SendStatement(t, c)
         \/ \E c \in Chans \cup {Nil} : RecvExpression(t, c)
         \/ \E c \in Chans : TrySendCall(t, c)
         \/ \E c \in Chans : CloseStatement(t, c)
         \/ \E cases \in Selects, dflt \in BOOLEAN : SelectBegin(t, cases, dflt)
         \/ SelectRegister(t)
         \/ SelectChoose(t)
         \/ SelectCommit(t)
         \/ SelectEnd(t)
         \/ SelectLeave(t)
         \/ \E cases \in Selects, dflt \in BOOLEAN : ReflectSelect(t, cases, dflt)
    \/ WakeIdle
    \/ \E scope \in SUBSET Tasks : scope # {} /\ CancelScope(scope)

Spec == Init /\ [][Next]_vars

-----------------------------------------------------------------------------
(***************************************************************************)
(* Properties.                                                             *)
(***************************************************************************)
\* A waiter list holds only tokens that may still be woken, each registered
\* with the channel and none twice, and a token is registered nowhere else:
\* signal and cancel take a token out of every channel of its select
\* (unregisterAll), so no value's one signal is spent on a dead waiter.
WaitersLive ==
    \A c \in Chans, k \in Tokens :
        LET recv == heap.chan[c].recvWaiters
            send == heap.chan[c].sendWaiters
        IN  /\ k \in Range(recv) <=> <<c, "recv">> \in heap.token[k].registrations
            /\ k \in Range(send) <=> <<c, "send">> \in heap.token[k].registrations
            /\ heap.token[k].registrations # {} => Live(heap, k)
            /\ \A i, j \in DOMAIN recv : recv[i] = recv[j] => i = j
            /\ \A i, j \in DOMAIN send : send[i] = send[j] => i = j

\* Every blocked sender of an open channel has its value in Pending exactly
\* once, or its completion recorded, and never both; nothing is recorded for a
\* task that no longer waits there (its send returned, panicked or was aborted:
\* takeCompletedSend, cancelSend).  And a sender is kept waiting only while the
\* buffer is full: a receive that takes from the buffer refills it from Pending,
\* never beyond its capacity (waitableFillBufferedPending).
SendersAccounted ==
    /\ \A c \in Chans :
         /\ Len(heap.chan[c].buffer) <= Capacity[c]
         /\ Capacity[c] > 0 /\ heap.chan[c].pending # <<>> => Len(heap.chan[c].buffer) = Capacity[c]
    /\ \A c \in Chans, t \in Tasks :
         LET ch     == heap.chan[c]
             mine   == {i \in DOMAIN ch.pending : ch.pending[i].task = t}
             waits  == task[t].pc = "send" /\ task[t].op[2] = c
         IN  /\ ~waits => mine = {} /\ t \notin ch.completed
             /\ waits => Cardinality(mine) <= 1 /\ (mine # {} => t \notin ch.completed)
             /\ waits /\ ~ch.closed => mine # {} \/ t \in ch.completed

\* When wakeBlocked is done no blocked task can go on: a value taken from or
\* left in a channel late in a pass still reaches a task early in the list, so
\* a sender and a receiver of one channel are never both left blocked.
WakeLeavesNobody ==
    [][scan # 0 /\ scan' = 0 => \A i \in DOMAIN blocked : ~Ready(blocked[i])]_vars

\* Close releases everyone: no list of a closed channel keeps a waiter, and a
\* task parked on a case of a closed channel finds that case signalled, even
\* when it was registering its cases while the channel was being closed.
CloseReleases ==
    \A c \in Chans : heap.chan[c].closed =>
        /\ heap.chan[c].recvWaiters = <<>> /\ heap.chan[c].sendWaiters = <<>>
        /\ \A t \in Tasks : task[t].pc = "park" =>
             \A i \in DOMAIN task[t].cases :
                 task[t].cases[i][2] = c => i \in ReadyCases(heap, t)

\* What the channels promise the program: ChannelSpec, with the buffer and the
\* values of the blocked senders as one queue.
Waiting == {t \in Tasks : task[t].pc = "send" /\ task[t].op[2] # Nil}

Promise == INSTANCE ChannelSpec WITH
    queue   <- [c \in Chans |-> heap.chan[c].buffer \o
                   [i \in DOMAIN heap.chan[c].pending |-> heap.chan[c].pending[i].value]],
    closed  <- {c \in Chans : heap.chan[c].closed},
    waiting <- {ValueOf(t) : t \in Waiting},
    refused <- {ValueOf(t) : t \in {u \in Waiting : /\ heap.chan[task[u].op[2]].closed
                                                 /\ u \notin heap.chan[task[u].op[2]].completed}}

\* The channels implement the promise: values leave in the order of their sends,
\* each once, a send that returned was accepted, a refused one is not delivered.
ImplementsPromise == Promise!Spec
=============================================================================
