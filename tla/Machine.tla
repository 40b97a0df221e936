------------------------------- MODULE Machine -------------------------------
(***************************************************************************)
(* The scheduler state of one VM and the helpers that change it: tasks,    *)
(* execution scopes, and the timers and FFI calls a scope owns             *)
(* (src/runtime/scheduler_scope.go, scheduler_completion.go,               *)
(* scheduler_wait.go, vm_debug_control.go, ffi_call.go, timer.go).         *)
(*                                                                         *)
(* Every helper runs under the VM owner, so each is an operator from a     *)
(* machine to a machine.  Instance.tla strings them together exactly as    *)
(* the handlers call them and adds the goroutines around them.             *)
(*                                                                         *)
(* One execution has one scope, so both are named by a member of Execs.  A *)
(* task has at most one FFI call (it is blocked until the call ends) and   *)
(* here at most one one-shot timer, so both are kept with the task.  The   *)
(* debugger is off: machine.paused stays nil.                              *)
(***************************************************************************)
EXTENDS Integers, FiniteSets, TaskQueue

CONSTANTS
  Execs,            \* execution handles, each with its scope
  NoExec,
  NumTasks,         \* bound on execution context ids ever handed out
  Programs,         \* the executions started with StartMain
  MaxTasks,         \* limits.MaxTasks
  MaxPendingEvents, \* limits.MaxPendingEvents
  TaskQuantum       \* taskInstructionQuantum

Tasks  == 1..NumTasks
NoTask == 0

ASSUME ExecsAssumption  == IsFiniteSet(Execs) /\ NoExec \notin Execs /\ Programs \subseteq Execs
ASSUME LimitsAssumption ==
  /\ NumTasks \in Nat \ {0}
  /\ MaxTasks \in Nat \ {0}
  /\ MaxPendingEvents \in Nat \ {0}
  /\ TaskQuantum \in Nat \ {0}

-----------------------------------------------------------------------------
(* State                                                                   *)

ScopeType ==
  [status    : {"none", "open", "settled"},   \* settled: done is closed
   root      : Tasks \cup {NoTask},
   rootState : {"running", "completed", "failed", "canceled"},
   published : BOOLEAN,
   tasks : Nat, timers : Nat, ffis : Nat,
   steps : Nat]

TaskType ==
  [scope : Execs \cup {NoExec},
   state : {"free", "live", "finished"},
   op    : {"none", "ffi", "recv"},           \* task.blocked.kind
   ffi   : {"none", "waiting", "ready"},      \* the call in vm.ffiCalls
   timer : {"none", "armed", "ready"},        \* the timer in vm.timers
   quantum : Nat,                             \* quantumSteps
   sig   : BOOLEAN]                           \* a value is buffered for its receive

MachineType ==
  [up         : BOOLEAN,                      \* vm.machine # nil
   foreground : Execs \cup {NoExec},
   running    : Tasks \cup {NoTask},
   runnable   : QueueType(Tasks),
   blocked    : QueueType(Tasks),
   sc         : [Execs -> ScopeType],
   tk         : [Tasks -> TaskType],
   nextID     : Nat,                          \* vm.nextExecutionContextID
   events     : Nat,                          \* vm.pendingEvents
   attempts   : Nat]                          \* pollAttempts

NoScope == [status |-> "none", root |-> NoTask, rootState |-> "running", published |-> FALSE,
            tasks |-> 0, timers |-> 0, ffis |-> 0, steps |-> 0]

FreeTask == [scope |-> NoExec, state |-> "free", op |-> "none", ffi |-> "none",
             timer |-> "none", quantum |-> 0, sig |-> FALSE]

InitMachine ==
  [up |-> FALSE, foreground |-> NoExec, running |-> NoTask,
   runnable |-> EmptyQueue, blocked |-> EmptyQueue,
   sc |-> [e \in Execs |-> NoScope], tk |-> [t \in Tasks |-> FreeTask],
   nextID |-> 1, events |-> 0, attempts |-> 0]

TasksOf(m, e)  == {t \in Tasks : m.tk[t].scope = e}
Live(m, e)     == {t \in TasksOf(m, e) : m.tk[t].state = "live"}
Timers(m, e)   == {t \in TasksOf(m, e) : m.tk[t].timer # "none"}
FFICalls(m, e) == {t \in TasksOf(m, e) : m.tk[t].ffi # "none"}
AllTimers(m)   == {t \in Tasks : m.tk[t].timer # "none"}
AllFFICalls(m) == {t \in Tasks : m.tk[t].ffi # "none"}
Queued(m)      == m.runnable.elems \cup m.blocked.elems
OpenScopes(m)  == {e \in Execs : m.sc[e].status = "open"}
ScopesOf(m, S) == {m.tk[t].scope : t \in S}

-----------------------------------------------------------------------------
(* Scope accounting                                                        *)

\* if scope.tasks > 0 { scope.tasks-- }, k times
Less(n, k) == IF n > k THEN n - k ELSE 0

\* settleScope: the last release after the root result is published closes done.
SettleScope(s) ==
  IF s.status = "open" /\ s.tasks = 0 /\ s.timers = 0 /\ s.ffis = 0 /\ s.published
  THEN [s EXCEPT !.status = "settled"]
  ELSE s

\* finishTask, releaseScopeTimer and releaseScopeFFI, for so many of each.
ReleaseScope(s, tasks, timers, ffis) ==
  IF s.status # "open" THEN s ELSE
    SettleScope([s EXCEPT !.tasks = Less(@, tasks), !.timers = Less(@, timers), !.ffis = Less(@, ffis)])

\* publishScopeRoot
PublishScopeRoot(m, e, state) ==
  IF e = NoExec THEN m ELSE
    IF m.sc[e].status # "open" \/ m.sc[e].published THEN m ELSE
      [m EXCEPT !.sc[e] = SettleScope([@ EXCEPT !.published = TRUE, !.rootState = state])]

\* finishTask of the tasks T, discardTimer of the timers of X and settle of the
\* FFI calls of F: each lowers the counter of its scope, and a timer or a call
\* gives its pending event back.
Release(m, T, X, F) ==
  [m EXCEPT
    !.tk = [t \in Tasks |->
              [m.tk[t] EXCEPT !.state = IF t \in T THEN "finished" ELSE @,
                              !.op    = IF t \in T THEN "none" ELSE @,
                              !.timer = IF t \in X THEN "none" ELSE @,
                              !.ffi   = IF t \in F THEN "none" ELSE @]],
    !.sc = [e \in Execs |-> ReleaseScope(m.sc[e],
                              Cardinality(T \cap TasksOf(m, e)),
                              Cardinality(X \cap TasksOf(m, e)),
                              Cardinality(F \cap TasksOf(m, e)))],
    !.events = @ - Cardinality(X) - Cardinality(F)]

\* Mutant of EndTasks: the event of a stopped call is given back twice.
EndTasksTwice(m, S) ==
  LET calls == {t \in S : m.tk[t].op = "ffi" /\ m.tk[t].ffi # "none"}
  IN  [Release(m, S, {}, calls) EXCEPT !.events = @ - Cardinality(calls)]

\* abortTask and finishTask of every task in S: a blocked FFI call is stopped.
EndTasks(m, S) == Release(m, S, {}, {t \in S : m.tk[t].op = "ffi" /\ m.tk[t].ffi # "none"})

\* Mutant of PublishCanceled: a published root is overwritten.
PublishCanceledAlways(m, C, state) ==
  [m EXCEPT !.sc = [e \in Execs |->
     IF e \in C THEN [m.sc[e] EXCEPT !.published = TRUE, !.rootState = state] ELSE m.sc[e]]]

\* cancelScope, first part: a root that was not published yet ends with state.
PublishCanceled(m, C, state) ==
  [m EXCEPT !.sc = [e \in Execs |->
     IF e \in C /\ ~m.sc[e].published
     THEN [m.sc[e] EXCEPT !.published = TRUE, !.rootState = state]
     ELSE m.sc[e]]]

\* Mutant of CancelScopes: only the runnable list is filtered.
CancelRunnable(m, E, state) ==
  LET C    == E \cap OpenScopes(m)
      ours == UNION {TasksOf(m, e) : e \in C}
      gone == Queued(m) \cap ours
  IN  [Release(PublishCanceled(m, C, state), gone, AllTimers(m) \cap ours, AllFFICalls(m) \cap ours)
        EXCEPT !.runnable   = Without(m.runnable, gone),
               !.foreground = IF m.foreground \in C THEN NoExec ELSE m.foreground]

\* cancelScope for every open scope in E: its queued tasks are aborted, its
\* timers and FFI calls closed, and it is the foreground no more.
CancelScopes(m, E, state) ==
  LET C    == E \cap OpenScopes(m)
      ours == UNION {TasksOf(m, e) : e \in C}
      gone == Queued(m) \cap ours
  IN  [Release(PublishCanceled(m, C, state), gone, AllTimers(m) \cap ours, AllFFICalls(m) \cap ours)
        EXCEPT !.runnable   = Without(m.runnable, gone),
               !.blocked    = Without(m.blocked, gone),
               !.foreground = IF m.foreground \in C THEN NoExec ELSE m.foreground]

\* abortQueuedTasks: every queued task of every scope.
AbortQueuedTasks(m) ==
  [EndTasks(m, Queued(m)) EXCEPT
    !.runnable = EmptyQueue, !.blocked = EmptyQueue, !.running = NoTask]

\* vm.machine = nil
Down(m) ==
  [m EXCEPT !.up = FALSE, !.foreground = NoExec, !.running = NoTask,
            !.runnable = EmptyQueue, !.blocked = EmptyQueue]

\* finishForeground: the machine goes away with its last scope.
FinishForeground(m) ==
  IF m.up /\ OpenScopes(m) = {} THEN Down(m) ELSE [m EXCEPT !.foreground = NoExec]

\* finishRun: cancelAllScopes, then closeTimers and closeFFICalls of whatever
\* is left, then machine = nil.
FinishRun(m) ==
  LET C    == IF m.up THEN OpenScopes(m) ELSE {}
      ours == UNION {TasksOf(m, e) : e \in C}
  IN  Down(Release(PublishCanceled(m, C, "canceled"), Queued(m) \cap ours, AllTimers(m), AllFFICalls(m)))

\* prepareScheduledFunction: a new scope whose root task is runnable.
PrepareScheduled(m, e) ==
  LET t == m.nextID
  IN  [m EXCEPT
        !.up = TRUE, !.foreground = e, !.nextID = @ + 1,
        !.sc[e] = [NoScope EXCEPT !.status = "open", !.root = t, !.tasks = 1],
        !.tk[t] = [FreeTask EXCEPT !.scope = e, !.state = "live"],
        !.runnable = PushBack(@, t)]

-----------------------------------------------------------------------------
(* Waking blocked tasks                                                    *)

\* Timers that fired: drainReadyTimers sends their signals and removes them.
ReadyTimers(m) == {t \in Tasks : m.tk[t].timer = "ready"}

HasSignal(m, t) == m.tk[t].sig \/ t \in ReadyTimers(m)

\* resumeBlocked finds the operation of task t complete.
Resumable(m, t) ==
  \/ m.tk[t].op = "ffi"  /\ m.tk[t].ffi = "ready"
  \/ m.tk[t].op = "recv" /\ HasSignal(m, t)

\* wakeBlocked: ready timers are drained, then resumable tasks become runnable
\* in the order they blocked; an FFI result is taken and its call settled, a
\* received signal is consumed.
WakeBlocked(m) ==
  LET W == {t \in m.blocked.elems : Resumable(m, t)}
      r == Release(m, {}, ReadyTimers(m), W \cap AllFFICalls(m))
  IN  [r EXCEPT
        !.tk = [t \in Tasks |->
                 [r.tk[t] EXCEPT !.op  = IF t \in W THEN "none" ELSE @,
                                 !.sig = HasSignal(m, t) /\ ~(t \in W /\ m.tk[t].op = "recv")]],
        !.runnable = Join(m.runnable, Only(m.blocked, W)),
        !.blocked  = Without(m.blocked, W)]

-----------------------------------------------------------------------------
(* What the running task does                                              *)

Scope(m) == m.tk[m.running].scope

\* One instruction: pollAttempts++, quantumSteps++ up to the quantum, consumeStep.
Step(m) ==
  [m EXCEPT !.attempts = @ + 1,
            !.tk[m.running].quantum = IF @ < TaskQuantum THEN @ + 1 ELSE @,
            !.sc[Scope(m)].steps = @ + 1]

\* The part of it that an instruction the limit refuses has done: pollAttempts++.
Attempt(m) == [m EXCEPT !.attempts = @ + 1]

\* Every yield but taskYieldPoll starts a new quantum.
NewQuantum(m) == [m EXCEPT !.tk[m.running].quantum = 0]

\* The running task ends (abortTask if it failed, then finishTask).
EndRunning(m) == [EndTasks(m, {m.running}) EXCEPT !.running = NoTask]

\* Mutant of Spawn: addTask is not called for the child.
SpawnUncounted(m) ==
  LET c == m.nextID
  IN  [NewQuantum(m) EXCEPT !.nextID = @ + 1,
                !.tk[c] = [FreeTask EXCEPT !.scope = Scope(m), !.state = "live"],
                !.runnable = PushBack(PushBack(@, c), m.running),
                !.running = NoTask]

\* taskYieldSpawn: the child is queued before its parent.
Spawn(m) ==
  LET c == m.nextID
      e == Scope(m)
  IN  [NewQuantum(m) EXCEPT !.nextID = @ + 1,
                !.tk[c] = [FreeTask EXCEPT !.scope = e, !.state = "live"],
                !.sc[e].tasks = IF m.sc[e].status = "settled" THEN @ ELSE @ + 1,
                !.runnable = PushBack(PushBack(@, c), m.running),
                !.running = NoTask]

\* startFFICall and taskYieldBlocked
BlockOnFFI(m) ==
  [NewQuantum(m) EXCEPT !.tk[m.running] = [@ EXCEPT !.op = "ffi", !.ffi = "waiting"],
            !.sc[Scope(m)].ffis = @ + 1, !.events = @ + 1,
            !.blocked = PushBack(@, m.running), !.running = NoTask]

\* startTimer: the task goes on.
StartTimer(m) ==
  [m EXCEPT !.tk[m.running].timer = "armed",
            !.sc[Scope(m)].timers = @ + 1, !.events = @ + 1]

\* A receive that finds nothing buffered blocks; otherwise the value is taken.
Receive(m) ==
  IF m.tk[m.running].sig
  THEN [m EXCEPT !.tk[m.running].sig = FALSE]
  ELSE [NewQuantum(m) EXCEPT
          !.tk[m.running].op = "recv",
          !.blocked = PushBack(@, m.running), !.running = NoTask]

\* taskYieldCooperate
Cooperate(m) == [NewQuantum(m) EXCEPT !.runnable = PushBack(@, m.running), !.running = NoTask]

\* taskYieldPoll: the task keeps its place and its quantum.
PollYield(m) == [m EXCEPT !.runnable = PushFront(@, m.running), !.running = NoTask]

\* admitTasks(count) rejects.
TaskLimitHit(m, count) == Cardinality(Queued(m)) + count > MaxTasks

\* Mutant of EventLimitHit: off by one.
EventLimitPassed(m) == m.events > MaxPendingEvents

\* reservePendingEvent rejects.
EventLimitHit(m) == m.events >= MaxPendingEvents

==============================================================================
