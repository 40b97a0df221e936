# TLA+ models of the go-mini runtime and its RPC layer

go-mini compiles a Go-like script language to bytecode and runs it in an
embedded VM. This directory holds TLA+ models of the concurrent core of the Go
runtime (`src/runtime`), of the script channels and timers that run on it, and of
the RPC layer below its foreign calls (`src/rpc`), the TLC configurations that
check them, and TLAPS proofs. `PROJECT.json` maps every definition to the source lines it stands for
and lists runs, mutants, findings, hazards and theorems.

## 1. Inventory

### Parts, state, operations

| Part | State | Operations | Model |
|---|---|---|---|
| VM owner (`vm.go`) | atomic flag `owner`, one-token channel `ownerWake` | `enterOwner`, `enterOwnerContext`, `leaveOwner` | `OwnerLock`, abstractly `VMOwner` |
| Scheduler (`scheduler_*.go`, `vm_debug_control.go`) | run queue, blocked list, running task, execution scopes with counters, foreground scope | `run`, `wakeBlocked`, `cancelScope`, `abortQueuedTasks`, `finishForeground`, `finishRun` | `Machine`, `TaskQueue`, the Run actions of `Instance` |
| Instance (`instance*.go`) | lifecycle, `active`, `done`, supervisor token | start, `supervise`, `Shutdown` | `Instance` |
| Execution (`execution.go`) | state, `cancelRequested` | `Wait`, `pollSteps`, `Cancel`, `Interrupt`, `capture` | `Instance` |
| FFI calls (`ffi_call.go`, `ffi/ffi.go`) | call state, relay, result, reserved bytes | start, complete, take, stop, settle | `FFICall`, abstractly `ResultDisposal` |
| Timers (`timer.go`), Timer, Ticker and AfterFunc of the time package (`stdlib/src/time/timer.mgo`) | active timers with alarm, ready flag and pending ticks; the closed flag of an object and its goroutine | start, alarm, `markReady`, drain, re-arm, stop, discard; Stop and Reset of the object | `Timers`; one-shot timers in `Machine` and `Instance` |
| Limits (`limits.go`) | pending events, boundary bytes, steps, memory | reserve, release | `FFICall` (bytes, events), `Machine` (events, tasks, steps) |
| Channels, wait sets (`waitable.go`, `wait.go`), select (`compiler/lower/control_select.go`, `reflect_select.go`) | buffer, pending sends, completed senders, waiter lists, wait tokens | send, receive, close, try-send, select statement and `reflect.Select`, resume, cancel | `Waitable`, `Channels`, abstractly `ChannelSpec`; one buffered signal per task in `Instance` |
| Debugger (`debugger.go`) | pause, breakpoints | pause, resume, inspect | not yet; off in the models |
| Hot reload (`hot_reload*.go`) | current and retired revisions with pins, plans, pending patch | prepare, apply, close, pin, retire, sweep | `HotReload` |
| RPC route set, results, resources (`route_set*.go`, `result.go`) | open/draining/cleaning/closed, call and result counters, resources with borrows, provisional resources, undecided results | call, export, `Accept`, `Discard`, `Drop`, `Close`, `Shutdown`, `finishCleanup` | `RouteSet`, abstractly `RouteSpec` |
| RPC endpoint (`endpoint*.go`) | operations in both directions, pending replies, two write lanes, reservations, leases, bindings | request, cancel, write, read, dispatch of bind, call, decision, drop and close, expiry, failure | `Endpoint` |
| RPC host, FFI session, router, gateway | sessions, upstream providers | attach, call, select | not modelled (section 7) |
| Compiler, bytecode, rest of the standard library, tools, Rust runtime | — | — | not modelled (section 7) |

### How they interact

One instance has one VM. Everything that touches the scheduler first takes the
VM *owner*. The goroutines that compete for it:

* the host goroutine of an execution: `start`, then the loop of `Wait`;
* whoever cancels: `Cancel`, `InterruptHandle.Interrupt`, or the
  `context.AfterFunc` that `Wait` registers;
* the *supervisor*, one goroutine per instance, which runs the background
  tasks that outlive their foreground call;
* `Shutdown` and its `shutdownInstance` goroutine.

FFI providers and Go timers complete at any moment *without* the owner: they
store a result behind their own lock, unlock, and then call `signalWake`, which
puts one token into `vm.wake` (for `Wait`) and one into the supervisor channel.
Both channels hold one token and a send to a full channel is dropped. The flags
`cancelRequested` and `interruptRequested` are atomics read between
instructions. So a run can be overtaken by completions, cancellations and
`Shutdown` at every instruction.

Inside a run one script task executes at a time, so channel operations are
atomic; but a task is preempted between any two instructions, and a select
statement is a sequence of them (subscribe each case, park, commit, body, cancel
the wait set). Every yield is followed by `wakeBlocked`, which asks the blocked
tasks in order whether they can go on.

A foreign call may end in another process. A `RouteSet` is used by host
goroutines directly, without the VM owner: each call runs its handler, handlers
export and drop resources, consumers decide results, and `Close` and `Shutdown`
start one `finishCleanup` goroutine that waits for all of them. The `Endpoint`
carries route sets over one connection: a writer, a reader, the lease
maintenance, one goroutine per dispatched request and one per cancelled request
share `Endpoint.mu` on each side, and the peer does the same.

### What is hard, and what makes each part correct

* Owner: mutual exclusion, and one token in `ownerWake` must be enough although
  it can be taken by a goroutine that no longer needs it.
* Scopes: a scope may settle (close `ScopeDone`) only when its root result is
  published and its last task, timer and FFI call is gone, in any order of
  these events; cancellation filters both queues while tasks end.
* Executions: a published result stays; one scope's end is not another's; the end of a program takes background
  scopes with it before `done` closes.
* Wake-ups: `Wait` returns, runnable tasks run, cancellation arrives, `Shutdown`
  ends, with single shared tokens. Section 6 has the cases where they fail.
* Channels: a waiter list holds only those who still wait, a value is received
  once and in order, a blocked sender is told once, closing releases everybody,
  and after `wakeBlocked` nobody is blocked who could go on.
* Timers: an alarm fires, is re-armed or stopped with the lock released in
  between; there is one source of the next tick, none after a stop, and a ready
  timer is announced to whoever runs the VM next: the supervisor or a Wait.
  A goroutine of the time package may be preempted between looking at the
  generation, clearing `active` and sending.
* Route sets: a resource is closed once, when nobody borrows it, also when the
  handler that drops it holds it; an accepted result has an owner or is taken
  back although the contexts of its consumers end; cleanup ends.
* Endpoint: call, decision, cancellation, drop, close, lease expiry and failure of
  the connection cross each other; the sides agree on what was decided and never
  take each other for violators; counters return; every result is settled.
* Hot reload: a plan is applied once, on the revision it was made for, and never
  stays pending when it is over; no replaced revision closes while a frame or
  timer pins it, and none stays once nothing refers to it.
* FFI: the result is delivered or discarded exactly once, whatever the order of
  completion, take, stop and detach; quotas come back exactly.

`PROJECT.json` lists these, with the code line where each bites, as hazards.

## 2. Modules

| Module | Content |
|---|---|
| `Lists` | the loops that filter a slice in place: what is kept, in its order |
| `TaskQueue` | a queue of distinct tasks: its elements and its order relation, so that the filter loops are restrictions |
| `Machine` | the state of `executionMachine` and its helpers, each an operator from machine to machine |
| `Instance` | EXTENDS `Machine`; the goroutines above as program counters, `machine.run` one yield or instruction at a time; all properties of the composition |
| `OwnerLock` / `VMOwner` | the owner at the level of single atomic operations / the lock it implements |
| `FFICall` / `ResultDisposal` | `pendingFFICall` with each locked section a step / the promise of `ffi.Result.Discard` |
| `Waitable` | channels and wait tokens; every function of `waitable.go` and `wait.go` as an operator from heap to heap |
| `Channels` / `ChannelSpec` | EXTENDS `Waitable`; tasks that communicate, select as it is compiled, `wakeBlocked` / a queue of values per channel as its users see it |
| `Timers` | one object of the time package with its goroutines, its runtime timers, the Go alarms, the owner's drain and re-arm loop, and who runs the VM: the supervisor or a foreground call |
| `RouteSet` / `RouteSpec` | a local route set with its calls, results, resources and cleanup / the promise to the owner of a resource |
| `Endpoint` | two endpoints and the connection between them, one binding |
| `HotReload` | plans and revisions of one instance, the frames, timers and globals that refer to them, `Shutdown` |
| `InstanceProofs` | lemmas about the machine's helpers, and theorems about the books of an instance, its execution handles and its end |
| `OwnerLockProofs`, `FFICallProofs`, `ChannelsProofs`, `TimersProofs`, `RouteSetProofs`, `EndpointProofs`, `HotReloadProofs` | theorems about the module of that name |
| `MCInstance`, `MCOwnerLock`, `MCFFICall`, `MCChannels`, `MCTimers`, `MCRouteSet`, `MCEndpoint`, `MCHotReload` | the constants the `.cfg` files use |

Composition. `Instance` uses the owner as the abstract lock of `VMOwner`: taking
a free owner is one step. `OwnerLock` shows that the real flag and channel
implement that lock (`RefinesVMOwner`), so the step is justified. `Instance`
keeps of an FFI call only *waiting* or *ready*; `FFICall` has the two locks, the
relay and the quota. `Channels` and `Timers` refine what `Instance` has as the
instructions recv, send and timer; they contain the part of the scheduler they
depend on (`Channels` the queues and `wakeBlocked`, `Timers` the owner's loop).
`HotReload` has of the scheduler only when frames and timers come and go.
`Endpoint` has of the server's route set what it needs: each call's handler,
result and resource, and the cleanup; `RouteSet` has the rest.

Correspondence. `hpc`, `cpc`, `spc`, `dpc` say where host, canceler, supervisor
and shutdown are; a section under the owner is one action unless something it
reads can change meanwhile. `phase` is the place in `machine.run`: `begin`
(`RunBegin`), `pick` (`RunPick`, `RunIdle`), `exec` (one action per kind of
instruction or yield), `wake` (`RunWake`), `return`. `outcome` is what it
returned: `limited` is a scope-policy error, `failed` any other, `lost` the
error "root execution context did not complete". `Capture`, `Returned`,
`ApplyRequestedCancellations`, `SuperviseEnter`, `ShutdownAbort` are whole
handlers under the owner, the trailing `finishRun`/`finishForeground`
included. `signals` counts completions that have stored their result and not
yet signalled.

In `Channels`, `task[t].pc` says where a task is in its communication: `run`
between two, `register`, `choose`, `commit`, `body` inside a select, `send`,
`recv` or `park` when blocked in it. `scan` and `progress` are the loop
variables of `wakeBlocked`. In `Timers`, `Alarm` is the Go timer's goroutine,
with the two gaps before the lock of `markReady` and before its signal; `rearm`
is the timer whose lock the drain has released around `AfterFunc`; `wake` and
`supervisor` are the tokens in the two channels, `foreground` the call whose
`Wait` takes the first, and `missed` says that the supervisor dropped its own
(`Supervise`) or was not told what an ended call left (`ForegroundEnds`).
`go[i]` is the place of the goroutine of a start: `recv`, `check`
(`timer.mgo:65`), `clear` (`:66`), `send`; `user` is the place in `Stop` and
`Reset` (`stopping`, `stopped`, `resetting`, `starting`). In
`RouteSet`, every section under `RouteSet.mu` is a step; `release` holds what is left
of a `releaseObjects` loop, `cleaner` the place of `finishCleanup`. In
`Endpoint`, every section under `Endpoint.mu` is a step; `out` has the lanes in
which control messages overtake requests, `wire` what is written and not read,
and a call and the decision on its result share one identifier. In `HotReload`,
`host[h].pc` is the place in `ApplyPatch` (`enter`, `check`, `clear`, `fail`) or
`Close` (`mark`, `unset`), `down` the place of `shutdownInstance`; `Heap` is what
`retain`, `release` and `sweepRetiredRevisions` change.

Definitions whose comment starts with "Mutant of" are plausible bugs, used only
to show that a property can be violated; no specification refers to them.

### Abstractions

Runtime:

* An instruction is one of compute, spawn, ffi, timer, recv, send, fail and
  limit (an allocation is refused). The state variable `scenario` of `Instance`
  never changes; it says which calls a behaviour has, which instructions their
  tasks may execute, the limit of steps, the quantum of a Poll, who may cancel or
  shut down, and whether everybody goes on (`fair`).
  Frames, defer and recover inside a task are not kept: a task goes on, ends,
  or fails with a panic nobody recovered.
* A channel is one buffered signal per task: a receive takes it or blocks, a
  one-shot timer or another task's send sets it.
* A task has at most one timer at a time; timers are one-shot.
* The debugger is off. Preparing a call never fails, no patch is pending and
  resuming a blocked task does not fail.
* A task may or may not yield when its quantum is used up, which covers
  functions marked NoSwitch.
* `RunFailCanceled` covers every moment at which `cancelRequested` can be set
  between its two reads, hence also requests made before the first; the code
  would then take `RunCanceled`. The model has more behaviours than the code.
* `AfterPoll` chooses whether the error of a poll is the error of the Wait
  context (`errors.Is`), which depends on why that context ended.
* `PollContext` may give up whenever the context is done: the section it would
  have to find inside the owner is often a single step of the model.
* `StartAbandon` records the root as cancelled; with a deadline the code records
  it as failed. Nobody holds a handle to that scope.

Channels, timers and RPC:

* A value on a channel names the send it came from, so no two are confused.
  Allocation charges and slice growth are left out.
* Deadlines are abstract: an armed alarm goes off at some time. One object of
  the time package is started at most `MaxStarts` times, and at most
  `MaxSignals` signals of one timer are on their way. `MaxCalls` bounds the
  foreground calls made meanwhile. A run goes on to where nothing is runnable
  or the foreground call ends. The module revision a timer pins is in
  `HotReload`.
* Route sets are local. Method lookup and reference validation are preconditions
  of `CallBegin`. `Scenarios` says which calls, resources and consumers a
  behaviour has.
* The endpoint has one binding and requests of one side only. A lease is live,
  lapsed or absent; the server's may lapse only when the client's is no longer
  live, since the client counts from sending and the server from receiving.
  Renewal messages, handshake, fragments and byte budgets are left out. Whether
  the client can decode a result is `scenario.decodes`. A scenario bounds the
  number of faults: ended contexts, cancellations, lapses, lost connections.

Hot reload:

* A revision is its generation, a closure the generation of its code. Whether a
  target fits, and whether it can be bound, is a choice; every program has one
  module, whose initialization state goes from revision to revision.
* A global is the set of generations its closures have. A called function may get
  one closure of its caller; other values in locals are left out.
* A scope has at most one timer. Scopes are library calls (a program's end closes
  the instance, which `Instance` has).
* `Close` of a plan that is over does nothing and is no step.

## 3. Runs

| Run | Instance | Shows |
|---|---|---|
| `instance` | two library calls and a program, 3 tasks of which 2 may live at once (`MaxTasks`), 2 pending events; five scenarios (below), one of them fair | `TypeOK`, `ScopeAccounting`, `TaskInOnePlace`, `RootStateAgrees`, `EventAccounting`, `DoneMeansQuiet`, `ScopesEndAlone`, `ResultStable`, `WaitReturnsOrShutdown`, `CancelSettles`, `ShutdownCompletes` |
| `owner_lock` | 3 goroutines, one with a context, fair | `MutualExclusion`, `NoStrandedWaiter`, `RefinesVMOwner`, `SomebodyEnters` |
| `ffi_call` | 2 calls, payloads of 0, 2, 3, 5 bytes against a limit of 4, 2 events | `AtMostOneDisposal`, `NoResultLost`, `HostCallCanceled`, `QuotaReturned`, `KeepsPromise` |
| `channels` | an unbuffered, a buffered (capacity 1) and the nil channel; 3 tasks with one communication each, or 2 with two; a select of a receive and a send; preemption and cancellation at any moment | `WaitersLive`, `SendersAccounted`, `CloseReleases`, `ImplementsPromise`, `WakeLeavesNobody` |
| `timers` | one Ticker, Timer or AfterFunc started twice, 1 signal on its way, 2 events, one of the two scopes can be cancelled; for an AfterFunc 1 further foreground call; fair | `ReadyIsAnnounced`, `OneTickSource`, `StopIsFinal`, `CallbackRuns` |
| `route_set` | 2 calls, 2 resources, 2 consumers in four scenarios (a result with two resources; a result that two consumers decide; a resource that comes with a result and is used by a second call; two handlers that hold an accepted resource each and may drop the other), at the limits of 2 calls and 2 resources, fair | `OwnedOrReleased`, `KeepsPromise`, `CleanupCompletes` |
| `endpoint` | five scenarios: bind and close under 2 faults; a call with every answer under 1; call, drop and close racing; two calls at the limits of 1 call, 2 controls, 1 result; a result the client cannot decode; fair | `PeersAgree`, `DecisionsAgree`, `CountersAgree`, `ResultsSettle`, `RequestsReturn` |
| `hot_reload` | 2 hosts, 2 plans (3 revisions), 2 scopes, 2 frames, at most 2 live revisions; cancellation, failure and Shutdown at any moment | `PlanProtocol`, `RevisionsKept` |

The scenarios of `instance` are alternatives of `Init`:

* `OneCall`, fair: one call that spawns, calls the host and waits, 2 steps per
  scope, quantum 1, cancelled or shut down at any moment;
* `TwoCalls`: two calls whose tasks spawn, compute, fail, send and receive, 2
  steps, quantum 1, one call may be cancelled;
* `TwoCallsFFI`: the same with host calls, 1 step;
* `Events`: a call and a program that reach `MaxPendingEvents` with timers and
  host calls;
* `Program`: a call and a program whose Wait context may end; they block, leave a
  timer behind or pass a limit, and the instance is shut down at any moment.

Four more runs expect a violation: section 6 lists them, each with the promise
of the repository that the code does not keep. Where a property above has an
exception for what they find, they check it without the exception.

What the less obvious ones say. `WaitersLive`: a live token is registered where,
and only where, its list has it, so a select is completed through exactly the
channels it waits for. `SendersAccounted`: a blocked sender is pending or
completed, never both or neither, and a buffer with senders behind it is full. `WakeLeavesNobody`: when the scheduler stops
asking, no blocked task is ready. `StopIsFinal`: once `runtimeTimerStop` has
reported true for a start of a Timer or AfterFunc, neither its value nor its
callback comes. It says nothing of a Ticker, whose Stop reports nothing and may
be followed by a last tick (section 6). `ReadyIsAnnounced`: while nobody runs the
VM, whoever will has a token for a ready timer or is about to get it, unless the
supervisor missed it (`missed`). `CallbackRuns`: a started AfterFunc is stopped
or calls its function, unless the VM is `Stranded`: no call is active and the
supervisor missed what the last one left (`afterfunc_lost` has no such
exception). `OwnedOrReleased`: once `Accept` returned nil to somebody the result
never takes its resources back, and if it returned nil to nobody it does.
`PeersAgree`: neither side meets a message it treats as a protocol violation.
`DecisionsAgree` is about what was decided: a result may be released after it
was accepted, as when its lease lapses (section 6).
`ResultsSettle`: a result does not stay undecided while its lease is renewed. It
excepts results the client could not decode, and the scenarios of its run have as
many controls as decisions can be made at once; `ResultsDecided` has neither
restriction and is violated both ways (`result_undecided`).
`PlanProtocol`: a plan that may still be committed is the pending one and fits
the current revision, so while the instance is open "stale_plan" does not occur;
one host applies it; a finished plan stays pending only until somebody who is on
the way clears it. `ScopesEndAlone`: a task ends by itself, or because
of its own scope, the run or the instance, or because a spawn of the running task
was refused at `MaxTasks` (`SpawnPassesLimit`; section 6). `WaitReturnsOrShutdown`
is claimed for one execution at a time: two share a token (section 6).
`RevisionsKept`: pins
are exact, nothing pinned is in a closed revision, the limit holds, and when
nothing runs only globals keep revisions. It says nothing of a closure in a
global or of a frame made from one, which do not pin a revision that has closed:
`ClosuresKeepTheirRevision` does (`closure_revision`).

Bounds. `NumTasks` bounds the context ids ever handed out (guards of
`StartEnter` and `RunSpawn`), `MaxSteps` is the code's own limit. Two
executions are the smallest number with a foreground and a background scope;
three tasks give each execution a root and one of them a background task, so a
queue can hold tasks of two scopes on either side of the running one, and a spawn
beside it passes `MaxTasks`. A quantum of 1 makes every Poll return between
instructions and every task yield. Two pending events are a task and a timer, or
two tasks, that wait while a third request is refused. The liveness properties
need everybody to go on and are about the one fair scenario; in the others a
behaviour may stop anywhere, which safety does not mind. In
`ffi_call` two and three bytes each fit the quota of four and their sum does
not, five never does, and zero is the case `reserveBoundaryBytes` skips. Three
goroutines are needed for one to leave, one to wait and one to take the token in
between. For the properties proved in section 5 the bounds do not matter.

`MaxOps` bounds the communications of a task, `Starts` how many of them it has
left, `MaxCases` the cases of a select. Three tasks are a waiter, its partner
and one that comes between; two communications let a token of an earlier select
be met by a later one. The tasks are symmetric: no channel property names one.
`MaxStarts` = 2 is a start and a Reset, whose late goroutine and alarm can meet
the first one's; one foreground call beside the one that made the AfterFunc is
enough for the supervisor to drop its token and for the call to end in every way
(`MaxCalls` says how many each kind of object has; `ReadyIsAnnounced` and
`CallbackRuns` need it). Two calls, resources and consumers are a pair of everything
that can wait for each other in a route set. In `endpoint` one result and one
call are the limits at which the second call is refused while the first one is
decided; two controls are one more than a decision and its cancellation need.
The scenarios are alternatives of `Init`, because all requests at once are out
of reach. In `hot_reload` two hosts can apply and close the same plan at once and
a second plan follows the first while its hosts are still on their way; two live
revisions are the limit at which the second patch waits for the first revision;
two frames are a caller and its callee, in one scope or two.

Deadlock checking is off in all runs: a host may stop calling, and once every
call has returned nothing has to happen. What must happen is stated as liveness.

## 4. Fairness

`Instance`: one weak fairness condition on `Progress`, the disjunction of
everything that goes on by itself (goroutines not waiting for anybody, FFI
providers and clocks that finish, the run loop), in the behaviours of a fair
scenario; the others may stop anywhere. It is weaker than fairness for
each goroutine, hence the liveness results hold under either. It suffices
because every script ends: `consumeStep` refuses an instruction once `MaxSteps`
of the scope are used. With `UnlimitedSteps` a script may run for ever and
nothing is claimed. No fairness is assumed for starting, cancelling or shutting
down. A counterexample under it ends in a state where nobody can go on.

`OwnerLock`: weak fairness for each goroutine that has begun; a section under
the owner ends because a Poll has an instruction budget.

`FFICall`, `Channels` and `HotReload`: none; everything checked there is safety.
`Timers`: each Go alarm, the `Wait` of a call, the supervisor and a run that has
begun go on (weak fairness). That a token is taken says nothing of a drain: the
supervisor drops it while a call is active. A script goroutine that can run
again and again is run (strong fairness): the run queue is first in, first out,
but between two of its steps nobody may be running the VM, which disables it.
Nobody has to make a foreground call or to end one.
`RouteSet` and `Endpoint`: one weak fairness condition on `Progress`, as in
`Instance`: handlers, `Resource.Close`, providers, writers and readers go on.
Nobody has to call, drop, close, shut down or cancel, and nothing is assumed of
timeouts and renewals. In `Endpoint` a caller decides the result it was given.

## 5. Proofs

All are for arbitrary constants under the named assumptions (finite sets of
executions, calls, resources, positive limits). Every proof of an invariant has
the same shape: the inductive invariant as a conjunction of named parts, lemmas
about the operators, one lemma per action that it keeps the invariant, one
theorem. The parts that are not obvious, and why the property alone is not
inductive:

* `OwnerLockProofs`: `MutualExclusion` is inductive together with the type.
  `NoStrandedWaiter` is inductive on top of it: whenever somebody waits and the
  owner is free, a token is there, or about to be sent, or another goroutine is
  about to try. The refinement maps the holder to the goroutine inside.
* `FFICallProofs`: the invariant says that a result is in one place at a time
  (with its host, in the call, with the VM that settles the call, or disposed
  of) and which states of a call go with which place of the VM.
  `AtMostOneDisposal` alone is not inductive: the VM holds a result in `held`
  after the call is already consumed. From it follow at most one disposal, at
  least one at the end, the cancellation of stopped host calls, and the
  refinement of `ResultDisposal`. `QuotaReturned` is proved apart
  (`QuotaInv`): pendingBoundaryBytes is a sum over the pending calls, and a
  fold over an arbitrary set cannot be unfolded by the provers, so the sum is
  stated as the number of pairs `<<call, byte>>` that the calls occupy, and the
  theorems on finite sets give what a reservation adds and a settled call takes
  away. It needs which calls vm.ffiCalls lists (`Listed`) and that a settled
  call's bytes are with the VM until they are given back (`Load`). The same
  invariant shows that no counter drops below zero (`FFICallTypes`).
* `InstanceProofs` has three parts. The first is about `Machine`: `MachineInv` is
  preserved by every helper of the machine. Its parts: what has work belongs to an open scope (`Owned`), counters count
  (`Counted`, `EventsCounted`), every live task is in one place and a task with
  a call is blocked on it (`Placed`), ids not handed out are unused (`Fresh`),
  and an open scope has a machine (`Lifetime`). `Owned` and `Placed` are needed
  because `cancelScope` and `finishRun` find a scope's tasks through the queues.
  The second part composes: every goroutine calls the helpers where they may be
  called. The invariant adds who holds the owner (`OwnerHeld`), that a task
  runs only inside the loop (`RunsInLoop`), that an ended run has an outcome, and
  that a handle not yet started has no scope. Results: `InstanceTypes`,
  `ScopesCountTheirWork` (a settled scope owns nothing), `NoTaskIsLost`,
  `EventsStayWithinLimit`.
  The third part is about handles. It shows for each helper
  which roots it publishes and with which state (`Roots`), and which tasks it
  ends (`EndsOnly`). The invariant is that of the second part with what pairs the
  handles with the machine (`Paired`): only
  the foreground scope has not published its root (`OneUnpublished`), the active
  handle is the one that is not finished (`Handles`), the foreground is the active
  handle's scope unless its host has just run it to the end (`Foreground`,
  `Carried`), and a published root has the state of its handle unless that host
  has yet to capture it (`Agreed`). The exceptions are the point:
  `finishForeground` publishes in the scope, `capture` later in the handle.
  `Ended` says what is gone once the instance has ended; from it
  `DoneMeansQuiet`. `ResultStable` and `ScopesEndAlone` are action properties
  and follow from the step lemmas.
* `ChannelsProofs`: the provers need to unfold what a slice filter leaves, and a
  fold over tokens or tasks. `Keep` is therefore defined by the ascending order of
  the places kept (`Lists`); that there is exactly one such order is proved first
  (`AscendingExists`, `AscendingUnique`), and `wakeWaiters`, `unregisterAll` and
  the cancellation of a scope are described by what they leave in the heap
  (`Unlisted`, `Filtered`, `Between`, `Effect`). The invariant: a list holds
  exactly the live tokens that are registered there, each once, and a closed
  channel none (`Listed`, `ClosedUnlisted`); a task has a token of its own for
  each case, subscribed or signalled from its registration to its commit
  (`FreshTokens`, `Subscribed`); a blocked sender's value is pending once or its
  completion is recorded, and nobody else's is (`Accounted`); the value of a send
  that is not over has not been counted as sent, and is in the buffer only when
  its completion is recorded (`SentOnce`, `BufferedOnce`).
  `CloseReleases` is not inductive without `Subscribed`: that a task parked on a
  channel finds its case signalled when the channel closes depends on the token
  having been in the list until then.
  `WakeLeavesNobody` follows from `Scanned`: as long as a pass has made no
  progress, nobody it has passed could go on. `ChannelsKeepPromise` maps a
  channel to its buffer followed by its pending values; each action then is an
  `Accept`, `Offer`, `Receive`, `Close` or another step of `ChannelSpec`, or a
  stutter (`PromiseStep`), and the invariant gives the guards.
* `TimersProofs`: at each moment an active timer is armed, firing, or ready, and
  exactly one of them (`Sourced`) unless it is the one being re-armed
  (`Drains`). A ready timer is known to both who may run the VM (`Announced`):
  the supervisor has a token, is about to get one, missed it, or runs the VM and
  has still to visit the timer (`ToldSupervisor`); and while a Wait waits or a
  drain is on, its token is there or on its way, or the drain has still to
  visit the timer (`ToldWait`). Neither half is inductive without the other,
  since a call may begin or end at any moment. `StopIsFinal` needs the goroutine
  of the script side too: a stopped one-shot timer has nothing buffered and its
  goroutine still waits or has ended (`OneShot`).
* `HotReloadProofs`: one half follows a plan: one host applies it
  (`ApplierInv`), and a plan pending in the instance may still be committed, or
  its host is on its way to clear it, or whoever closed it to unset it
  (`PendingInv`). The other half follows a revision: each commit makes one
  generation (`Generations`), what is gone pins nothing (`WorkInv`, `Quiet`),
  `pins` is the number of frames and timers of the generation (`PinsExact`), and
  a closed revision has none, the list of retired ones is exact and within the
  limit, and without work only globals keep any (`HeapInv`). Since `retained` is
  as old as the last sweep, the last part is proved through the sweep that each
  end of a scope makes (`SweptFor`). `ClosuresKeepTheirRevision` is refuted, not
  proved.
* `RouteSetProofs`: the WaitGroup counts what cleanup waits for and `borrowed`
  the handlers (`Counted`, `Borrowed`, by cardinalities); an attempt to close a
  resource belongs to the executor whose list it heads, or to a Drop
  (`Attempts`); a held resource is in a list of somebody who releases it, or
  still registered so that `Shutdown` will list it (`AllKept`); which list may
  be non-empty when (`Executing`), until when a result is registered
  (`AllRegistered`), and that after the barrier neither calls nor results
  appear (`Cleaning`). From these the cleaner ends its loop with nothing held,
  as `RouteSpec` requires before the lease is closed. `RouteSetKeepsPromise` maps
  each step to one of `Create`, `Adopt`, `Use`, `Leave`, `Retire`,
  `CloseCalled`, `CloseReturned`, `LeaseClosed` and `End`, or to a stutter; the
  invariant gives their guards. `ResultsOwned` needs
  what is known of a decision at each of its places (`Decision`: abandoned,
  delivered and cleaned exclude each other as they must) and that a cleaned
  result has no live resource left (`Outcome`).

* `EndpointProofs`: `CountersAgree` says that each counter is the cardinality of
  a part of a table, so the lemmas on tables (`InLane`, `Counts`) give what one
  entry more or less does to it. It is not inductive alone, because an entry
  that replaces another would count twice: a request enters `pending` only when
  nobody waits under its identifier. On the client side therefore an identifier
  is taken once (`Identified`), who waits is in flight (`Pending`), and a
  decision and a close begin once (`DecidedOnce`, `ClosedOnce`, `Canceled`). On
  the server side what was dispatched has an identifier not above `peerID`
  (`Seen`), and a reservation belongs to a dispatch that has not ended
  (`Reserved`). Between the two, each frame on its way names an operation that has
  an identifier (`Frames`). `EndpointTypes` comes out of the same induction.
  `PeersAgree` and `DecisionsAgree` are about both ends and everything between
  them, so their invariant (`Agreement`, on top of the one above) follows each
  request from its queue to its answer. Requests travel once each and, but for
  decisions, which overtake on the control lane, in the order of their
  identifiers, all above `peerID` (`Sending`, `Numbered`); a reply is to a request
  that is no longer on its way, ACCEPTED comes before the answer, and which of
  them may be under way is told by the place of the dispatch (`Replying`,
  `Dispatching`); what the client has noted of a reply is true, and after the
  terminal one nothing more is said (`Noting`, `Silent`); a decision begins after
  the offer, when the dispatch of its call has finished (`Offering`). So a
  reply fits who waits for it (`ReplyFits`), and an identifier is the one the
  server expects (`IdentifierExpected`). For the fate of a result: it has none
  before its handler returns, only its decision accepts it, and a decision that
  succeeded has settled it wherever the answer is, in the dispatch, on its way or
  with the caller (`Applying`). Steps of the client that neither send nor read
  are treated together (`Quietly`), those of the server through what any of
  them may do to dispatches and fates (`DispatchMoves`, `FateMoves`).

Every invariant and every action property that a passing run checks, and each of
the refinements, is stated by a theorem. Only model-checked: the liveness properties
(`SomebodyEnters`, `WaitReturnsOrShutdown`, `CancelSettles`, `ShutdownCompletes`,
 `CallbackRuns`, `CleanupCompletes`, `ResultsSettle`,
`RequestsReturn`), because fairness and ENABLED are out of the prover's reach. The
findings stay with TLC, which finds a behaviour for each.

## 6. Findings

| Run | What the code does |
|---|---|
| `shutdown_wait` | `Shutdown` sends its wake-up before it cancels the active execution; `cancelOwned` sends none. A `Wait` that takes the token in between, finds its execution still pending and blocks again, hangs. |
| `afterfunc_lost` | The alarm's token reaches the supervisor during a foreground call and is dropped; the call completes with nothing in the run queue, so nobody is told of the ready timer, and its function is never called. |
| `result_undecided` | The client refuses the values of a result (`endpoint.go:289`), neither accepts nor discards it, and goes on renewing its lease. The same happens when a decision is refused at `MaxPendingControls` (`endpoint_transport.go:220`), which is not tried again: with 2 calls, 1 control and 2 results the second stays undecided. Either scenario of the run violates the property alone. |
| `closure_revision` | A frame of a replaced revision stores its closure in a global and returns: the revision closes, since `rootRetained` is as old as the last sweep; `USAGE.md:260` says closures keep their revision. |

What does hold of the same behaviours is checked by the passing runs:
`WaitReturnsOrShutdown` for a single execution that nobody shuts down, `CallbackRuns`
while the supervisor has not missed what a call left, `ResultsSettle` for results
that were decoded and whose decision could be sent, `RevisionsKept` for what pins
a revision.

Observations without a run. Those of the first list contradict a document too and
are behaviours of the models, though no run is kept for them; no property above
excludes them.

* All executions share one wake token. The `Wait` of an execution started later
  takes the token that the cancellation of an earlier one sent
  (`execution.go:201`), and the earlier `Wait` hangs; `execution.go:98-99` says
  that the pending execution becomes ready.
* The supervisor drops its token while a foreground call is active
  (`instance_state.go:164`). A call that ends over a limit or by cancellation
  tells it nothing (`vm.go:441-447`), so a runnable background task of an earlier
  call stays in the run queue until something else wakes the VM; `USAGE.md:148`
  says that what an entry has spawned may go on after it returned.
* A spawn over `MaxTasks` takes the error path of the run
  (`scheduler_run.go:388`) and ends the tasks of every scope; `USAGE.md:163` says
  the library scope over a limit fails and the instance can still be called.
* A select parked on a send to an unbuffered channel waits in `SendWaiters`,
  which a receiver that comes later does not signal (`waitable.go:266`): both stay
  blocked. The Write of `net.Pipe` sends inside a select, and `net.mgo:160` says
  that reads on one end are matched with writes on the other.
* The goroutine of a Ticker looks at the generation and then sends
  (`timer.mgo:157-158`): a tick may come after `Stop` has returned, though
  `timer.mgo:164` says "After Stop, no more ticks will be sent."
* The goroutine of an expired Timer clears `active` (`timer.mgo:66`) after a Reset
  has set it; the goroutine of the new start finds it false and sends nothing,
  though `timer.mgo:94` says that Reset makes the timer expire again.
* A server whose lease lapses during `Accept` releases the result and confirms the
  Accept (`endpoint_dispatch.go:232`); `RPC.md:293` says `unavailable`.

Instance:

* A timer or call refused at `MaxPendingEvents` is reported as a plain error: it
  fails the run and not its scope, with the effect of a spawn over `MaxTasks`; in the
  supervisor it faults the instance.
* `prepareFunction` clears `interruptRequested`, so a start already inside the
  owner can erase the interrupt of `Shutdown`, which then waits for the run's
  next yield. `Done` may close (end of a program, fault) before a `Shutdown` has
  finished.
* The host's `Discard` and `Cancel` run while the owner is held, though docs
  describe host cleanup as outside the VM lock.

Channels and timers:

* The chosen case of a select is committed by an ordinary blocking operation
  (`control_select.go:118-130`): when another task was faster it blocks on that
  one case, default or not. `reflect.Select` panics instead ("no longer ready").
* The wait set is cancelled after the body of the case, so the tokens stay
  subscribed when the body leaves by return, continue or panic.
* A select with a receive and a send on the same unbuffered channel sees its own
  waiter as the partner.
* A goroutine of a Ticker that is blocked on its send when `Stop` returns, and
  one of an unread Timer when it is Reset, stay blocked until somebody reads.
* `startTimer` does not look whether its signal channel is closed; a delivery
  that then fails, fails the whole run.

Hot reload:

* A closure whose revision has closed still runs, unpinned, and the revision is
  neither counted against `MaxRetainedRevisions` nor reported. The same holds
  for a closure that only lives in locals of a newer frame. `HotReload` has both.
* Error paths of `advanceCompletion` that pop a frame without recycling it
  (`scheduler_completion.go:153,204`) keep its pin; validated bytecode does not
  reach them.

RPC:

* A request whose context ends during the physical write fails the connection
  (`endpoint_transport.go:473-488`).
* A resource exported by a goroutine that outlives its handler is not closed by
  `Shutdown`. Handlers that drop each other's resources wait for each other until
  they are cancelled. A provisional resource whose `Close` failed keeps a
  drained set from ending. While a call ends, `pendingCalls` plus
  `pendingResults` counts it twice for a moment.

## 7. Not modelled

Most of the repository is sequential: scanner to linker, bytecode formats and
their validation, single instructions and reflection, the standard library's
script code and host bindings, MRPC generators and generated bindings, LSP and
DAP. These transform data, are reached well by unit tests, and their inputs
(programs, images, syntax trees) cannot be enumerated to any useful size; a
model would restate them. The share of the repository's lines that the map names
is small for that reason; of the files it touches it covers about half, the rest
being types, errors, validation, and accessors. The Rust runtime is a
second implementation; this project is about the Go one.

Parts with state that are left out, and why:

* Hot reload: what a patch may change in a module, breakpoints, inspection.
* Debugger: pauses keep a task outside the queues; all models have it off.
* RPC host and FFI session: attach and capacity; the racing parts of their work
  are calls, results and resources, which `RouteSet` and `FFICall` have.
* RPC router and gateway: a choice among upstream providers and a control
  protocol of generated messages.
* Endpoint handshake, fragments, byte budgets and renewal times; more than one
  binding on a connection; requests of both sides at once.
* The ring buffer behind the run queue, frames, defer and recover in a task,
  memory charging (a refusal at any moment instead).

## 8. Plan

What was planned is done: owner, scheduler, instance, FFI calls, channels,
timers, route sets, endpoint and hot reload are modelled, their safety properties
and refinements proved. If the work is taken up again:

1. the debugger's paused task in `Machine` and the pauses of `Instance`;
2. FFI sessions and the RPC host over `RouteSet`, then the router's choice among
   providers;
3. more than one binding on a connection in `Endpoint`, and requests of both sides
   at once.
