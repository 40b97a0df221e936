------------------------------ MODULE HotReload ------------------------------
(***************************************************************************)
(* Patches of a running instance: PatchPlan, PreparePatch and ApplyPatch   *)
(* (runtime/hot_reload.go), the revisions they replace                     *)
(* (hot_reload_revision.go) and what keeps a replaced revision alive       *)
(* (hot_reload_retention.go).                                              *)
(*                                                                         *)
(* A revision is named by its generation.  A frame or a timer pins the     *)
(* revision it was made in; a closure stored in a global keeps its         *)
(* revision only through the scan of sweepRetiredRevisions, whose answer   *)
(* is cached in rootRetained until the next sweep.                         *)
(*                                                                         *)
(* Preparing takes the VM owner, applying only tries to; PatchPlan.mu and  *)
(* patchMu are taken without it, so several hosts may apply and close the  *)
(* same plan at once.  Programs are abstract: whether a target fits its    *)
(* base is a choice.                                                       *)
(***************************************************************************)
EXTENDS Naturals, FiniteSets

CONSTANTS
    Hosts,          \* goroutines that prepare, apply and close
    Plans,          \* bound: plans ever prepared
    Scopes,         \* bound: execution scopes
    Frames,         \* bound: frames at a time
    MaxRetained,    \* Limits.MaxRetainedRevisions
    None

Gens == 1..(Cardinality(Plans) + 1)

ASSUME HotReloadAssumption ==
    /\ IsFiniteSet(Plans) /\ IsFiniteSet(Scopes) /\ IsFiniteSet(Frames)
    /\ MaxRetained \in Nat \ {0}
    /\ None \notin Hosts \cup Plans \cup Scopes
    /\ "vm" \notin Hosts \cup {None}

VARIABLES
    lifecycle,  \* Instance.lifecycle
    owner,      \* who holds the VM owner: None, "vm" while the machine runs, or a host
    current,    \* vm.revision, 0 once the revisions are closed
    rev,        \* the instanceRevision of each generation
    retired,    \* vm.retiredRevisions
    frame,      \* the frames of all tasks
    timer,      \* per scope, the revision its timer belongs to
    globals,    \* the revisions of the closures in global variables
    initState,  \* moduleState.initState of the program's module
    plan,       \* the state and base of each plan
    pending,    \* Instance.pendingPatch
    host,       \* where each host is, and with which plan
    down        \* the same for shutdownInstance

vars == <<lifecycle, owner, current, rev, retired, frame, timer, globals, initState,
          plan, pending, host, down>>
revisions == <<current, rev, retired>>
work == <<frame, timer, globals, initState>>
patches == <<plan, pending, host, down>>

Revision == [pins : Nat, retained : BOOLEAN, retired : BOOLEAN, closed : BOOLEAN]
NoFrame == [scope |-> None, gen |-> 0, pinned |-> FALSE, holds |-> 0, init |-> FALSE]
NoTimer == [gen |-> 0, pinned |-> FALSE]
Lifecycles == {"open", "faulted", "closing", "closed"}
PlanStates == {"none", "ready", "applying", "committed", "closed"}
Places == {"idle", "enter", "check", "clear", "fail", "mark", "unset"}
DownPlaces == {"none", "pending", "mark", "unset", "abort", "revisions", "done"}

TypeOK ==
    /\ lifecycle \in Lifecycles
    /\ owner \in Hosts \cup {None, "vm"}
    /\ current \in Gens \cup {0}
    /\ rev \in [Gens -> Revision]
    /\ retired \subseteq Gens
    /\ frame \in [Frames -> [scope : Scopes \cup {None}, gen : Gens \cup {0}, pinned : BOOLEAN,
                             holds : Gens \cup {0}, init : BOOLEAN]]
    /\ timer \in [Scopes -> [gen : Gens \cup {0}, pinned : BOOLEAN]]
    /\ globals \subseteq Gens
    /\ initState \in {"new", "initializing", "ready", "failed"}
    /\ plan \in [Plans -> [state : PlanStates, base : Gens \cup {0}]]
    /\ pending \in Plans \cup {None}
    /\ host \in [Hosts -> [pc : Places, plan : Plans \cup {None}]]
    /\ down \in [pc : DownPlaces, plan : Plans \cup {None}]

Init ==
    /\ lifecycle = "open" /\ owner = None /\ current = 1
    /\ rev = [g \in Gens |-> [pins |-> 0, retained |-> FALSE, retired |-> FALSE, closed |-> FALSE]]
    /\ retired = {}
    /\ frame = [f \in Frames |-> NoFrame]
    /\ timer = [s \in Scopes |-> NoTimer]
    /\ globals = {}
    /\ initState = "new"
    /\ plan = [p \in Plans |-> [state |-> "none", base |-> 0]]
    /\ pending = None
    /\ host = [h \in Hosts |-> [pc |-> "idle", plan |-> None]]
    /\ down = [pc |-> "none", plan |-> None]

-----------------------------------------------------------------------------
(***************************************************************************)
(* Revisions.  h is a record of the vm's revisions: h.rev and h.retired.   *)
(***************************************************************************)
Heap == [rev |-> rev, retired |-> retired]

SetHeap(h) == rev' = h.rev /\ retired' = h.retired

\* Mutant of CloseReady: a pin does not keep a revision.
CloseReadyPinned(r) ==
    IF r.retired /\ ~r.retained THEN [r EXCEPT !.closed = TRUE] ELSE r

\* closeReadyLocked
CloseReady(r) ==
    IF r.retired /\ ~r.retained /\ r.pins = 0 THEN [r EXCEPT !.closed = TRUE] ELSE r

\* retain: nothing is pinned in a closed revision
Retain(h, g) ==
    IF h.rev[g].closed THEN h ELSE [h EXCEPT !.rev[g].pins = @ + 1]

\* how many of these frames, and timers of these scopes, pin revision g
Pins(frames, timers, g) ==
    Cardinality({f \in frames : frame[f].pinned /\ frame[f].gen = g})
    + Cardinality({s \in timers : timer[s].pinned /\ timer[s].gen = g})

\* release, once for each of them that did pin: the last pin of a retired revision
\* closes it and takes it off the list
Release(h, frames, timers) ==
    LET rest == [g \in Gens |->
                    IF Pins(frames, timers, g) > 0
                    THEN CloseReady([h.rev[g] EXCEPT !.pins = @ - Pins(frames, timers, g)])
                    ELSE h.rev[g]]
    IN  [rev |-> rest, retired |-> {g \in h.retired : ~rest[g].closed}]

\* sweepRetiredRevisions: scan the globals, then drop what is closed
Sweep(h, held) ==
    LET swept == [g \in Gens |->
                    IF g \in h.retired THEN CloseReady([h.rev[g] EXCEPT !.retained = g \in held]) ELSE h.rev[g]]
    IN  [rev |-> swept, retired |-> {g \in h.retired : ~swept[g].closed}]

\* liveRevisionCount and checkRevisionCapacity
LiveRevisions(h) == {g \in Gens : (g \in h.retired \/ g = current) /\ ~h.rev[g].closed}
HasCapacity(h) == Cardinality(LiveRevisions(h)) + 1 <= MaxRetained

-----------------------------------------------------------------------------
(***************************************************************************)
(* The program: frames, timers and globals.  The machine runs while owner  *)
(* is "vm".                                                                *)
(***************************************************************************)
Used == {f \in Frames : frame[f].scope # None}
Active(s) == timer[s] # NoTimer \/ \E f \in Used : frame[f].scope = s
Open == lifecycle = "open"

\* newPreparedExecutionFrame
NewFrame(f, s, g, closure, init) ==
    /\ f \notin Used
    /\ SetHeap(Retain(Heap, g))
    /\ frame' = [frame EXCEPT ![f] = [scope |-> s, gen |-> g, pinned |-> ~rev[g].closed,
                                      holds |-> closure, init |-> init]]

\* start: the root frame is in the current revision, which the first call of all
\* initializes
Start(s, f) ==
    /\ Open /\ owner = None /\ ~Active(s) /\ initState \in {"new", "ready"}
    /\ NewFrame(f, s, current, 0, initState = "new")
    /\ initState' = IF initState = "new" THEN "initializing" ELSE initState
    /\ UNCHANGED <<lifecycle, owner, current, timer, globals, patches>>

\* Poll, or the supervisor, enters the machine ...
RunBegin ==
    /\ owner = None /\ \E s \in Scopes : Active(s)
    /\ owner' = "vm"
    /\ UNCHANGED <<lifecycle, revisions, work, patches>>

\* ... and leaves it; the supervisor sweeps before it does
RunEnd ==
    /\ owner = "vm" /\ owner' = None
    /\ SetHeap(Heap) \/ SetHeap(Sweep(Heap, globals))
    /\ UNCHANGED <<lifecycle, current, work, patches>>

Runs(f) == owner = "vm" /\ f \in Used

InitDone(f) ==
    /\ Runs(f) /\ frame[f].init
    /\ frame' = [frame EXCEPT ![f].init = FALSE]
    /\ initState' = "ready"
    /\ UNCHANGED <<lifecycle, owner, revisions, timer, globals, patches>>

\* the closures a frame can get at: its own functions, what it holds, the globals
Reach(f) == {frame[f].gen} \cup globals \cup ({frame[f].holds} \ {0})

\* directCallTarget: a call by name goes to the current revision, and may take a
\* closure of the caller with it
CallNamed(f, e, closure) ==
    /\ Runs(f) /\ closure \in {0, frame[f].gen}
    /\ NewFrame(e, frame[f].scope, current, closure, FALSE)
    /\ UNCHANGED <<lifecycle, owner, current, timer, globals, initState, patches>>

\* a closure runs in the revision it was made in
CallClosure(f, e, g) ==
    /\ Runs(f) /\ g \in Reach(f)
    /\ NewFrame(e, frame[f].scope, g, 0, FALSE)
    /\ UNCHANGED <<lifecycle, owner, current, timer, globals, initState, patches>>

StoreGlobal(f, g) ==
    /\ Runs(f) /\ g \in Reach(f)
    /\ globals' = globals \cup {g}
    /\ UNCHANGED <<lifecycle, owner, revisions, frame, timer, initState, patches>>

ClearGlobal(f, g) ==
    /\ Runs(f) /\ g \in globals
    /\ globals' = globals \ {g}
    /\ UNCHANGED <<lifecycle, owner, revisions, frame, timer, initState, patches>>

\* startTimer pins the module's revision for the timer
StartTimer(f) ==
    LET s == frame[f].scope IN
    /\ Runs(f) /\ timer[s] = NoTimer
    /\ SetHeap(Retain(Heap, frame[f].gen))
    /\ timer' = [timer EXCEPT ![s] = [gen |-> frame[f].gen, pinned |-> ~rev[frame[f].gen].closed]]
    /\ UNCHANGED <<lifecycle, owner, current, frame, globals, initState, patches>>

\* settleScope, after a frame or timer of s is gone: the last one sweeps
Settled(h, s, frames, timers) ==
    IF timers[s] = NoTimer /\ \A f \in Frames : frames[f].scope # s THEN Sweep(h, globals) ELSE h

\* frame.recycle when the function returns, then releaseTask
Return(f) ==
    LET left == [frame EXCEPT ![f] = NoFrame] IN
    /\ Runs(f) /\ ~frame[f].init
    /\ frame' = left
    /\ SetHeap(Settled(Release(Heap, {f}, {}), frame[f].scope, left, timer))
    /\ UNCHANGED <<lifecycle, owner, current, timer, globals, initState, patches>>

\* removeTimer, when the timer has fired or was stopped: its scope settles before
\* its revision is released
RemoveTimer(s) ==
    LET left == [timer EXCEPT ![s] = NoTimer] IN
    /\ owner = "vm" /\ timer[s] # NoTimer
    /\ timer' = left
    /\ SetHeap(Release(Settled(Heap, s, frame, left), {}, {s}))
    /\ UNCHANGED <<lifecycle, owner, current, frame, globals, initState, patches>>

\* the frames these scopes own, and those of them whose last task settles them
FramesOf(scopes) == {f \in Used : frame[f].scope \in scopes}
SettledByTasks(scopes) == {s \in scopes : Active(s) /\ timer[s] = NoTimer}

\* abortQueuedTasks aborts the tasks in the order of their queues; the first scope
\* without a timer that loses its last one sweeps: what ended until then
EndedFirst(scopes) ==
    IF SettledByTasks(scopes) = {}
    THEN {FramesOf(scopes)}
    ELSE {early \in SUBSET FramesOf(scopes) : \E s \in SettledByTasks(scopes) :
            {t \in SettledByTasks(scopes) : FramesOf({t}) \subseteq early} = {s}}

\* abortQueuedTasks and cancelScope for these scopes: all frames, then the timers,
\* each of which settles its scope before its revision is released.  A second sweep
\* finds nothing the first one and the releases after it have left.  A module that
\* was being initialized has failed.
Abort(scopes) ==
    LET dead == FramesOf(scopes)
    IN  /\ \E early \in EndedFirst(scopes) :
              SetHeap(IF \E s \in scopes : Active(s)
                      THEN Release(Sweep(Release(Heap, early, {}), globals), dead \ early, scopes)
                      ELSE Heap)
        /\ frame' = [f \in Frames |-> IF f \in dead THEN NoFrame ELSE frame[f]]
        /\ timer' = [s \in Scopes |-> IF s \in scopes THEN NoTimer ELSE timer[s]]
        /\ initState' = IF \E f \in dead : frame[f].init THEN "failed" ELSE initState
        /\ UNCHANGED <<current, globals>>

\* Execution.Cancel, or a scope that fails alone
CancelScope(s) ==
    /\ owner \in {None, "vm"} /\ Active(s)
    /\ Abort({s})
    /\ UNCHANGED <<lifecycle, owner, patches>>

\* a run fails: abortQueuedTasks, finishRun, Instance.fail
RunFails ==
    /\ owner = "vm" /\ owner' = None
    /\ Abort(Scopes)
    /\ lifecycle' = IF Open THEN "faulted" ELSE lifecycle
    /\ UNCHANGED patches

-----------------------------------------------------------------------------
(***************************************************************************)
(* Plans.                                                                  *)
(***************************************************************************)
At(h, place) == host[h].pc = place
GoTo(h, place) == host' = [host EXCEPT ![h].pc = place]
Finish(h) == host' = [host EXCEPT ![h] = [pc |-> "idle", plan |-> None]]
SetPlan(p, state) == plan' = [plan EXCEPT ![p].state = state]
Leave(h) == owner' = IF owner = h THEN None ELSE owner

\* PreparePatch, for a target that fits; every refusal leaves all as it is
PreparePatch(p) ==
    /\ Open /\ owner = None /\ pending = None /\ plan[p].state = "none"
    /\ HasCapacity(Heap)
    /\ plan' = [plan EXCEPT ![p] = [state |-> "ready", base |-> current]]
    /\ pending' = p
    /\ UNCHANGED <<lifecycle, owner, revisions, work, host, down>>

\* ApplyPatch: the plan is taken ...
ApplyTake(h, p) ==
    /\ At(h, "idle") /\ plan[p].state = "ready"
    /\ SetPlan(p, "applying")
    /\ host' = [host EXCEPT ![h] = [pc |-> "enter", plan |-> p]]
    /\ UNCHANGED <<lifecycle, owner, revisions, work, pending, down>>

\* ... and the owner, unless somebody has it: "busy"
ApplyEnter(h) ==
    /\ At(h, "enter")
    /\ IF owner = None THEN owner' = h /\ GoTo(h, "check") ELSE UNCHANGED owner /\ GoTo(h, "fail")
    /\ UNCHANGED <<lifecycle, revisions, work, plan, pending, down>>

Admissible(p) ==
    /\ Open /\ current = plan[p].base
    /\ initState # "initializing" /\ HasCapacity(Heap)

\* "closed", "stale_plan", "module_initializing", "resource_limit", or the target
\* cannot be bound
ApplyRefused(h) ==
    /\ At(h, "check")
    /\ GoTo(h, "fail")
    /\ UNCHANGED <<lifecycle, owner, revisions, work, plan, pending, down>>

\* the next revision is current, the previous one is retired and swept
ApplyCommit(h) ==
    LET p == host[h].plan
        replaced == [rev |-> [rev EXCEPT ![current].retired = TRUE, ![current].retained = TRUE],
                     retired |-> retired \cup {current}]
    IN  /\ At(h, "check") /\ Admissible(p)
        /\ SetPlan(p, "committed")
        /\ current' = current + 1
        /\ SetHeap(Sweep(replaced, globals))
        /\ GoTo(h, "clear")
        /\ UNCHANGED <<lifecycle, owner, work, pending, down>>

ApplyClear(h) ==
    /\ At(h, "clear")
    /\ pending' = IF pending = host[h].plan THEN None ELSE pending
    /\ Finish(h) /\ Leave(h)
    /\ UNCHANGED <<lifecycle, revisions, work, plan, down>>

\* Mutant of FailReady: the plan is closed while it still counts as applying.
FailAsApplying(h) ==
    /\ At(h, "fail")
    /\ GoTo(h, "mark")
    /\ UNCHANGED <<lifecycle, owner, revisions, work, plan, pending, down>>

\* fail: the plan is ready again for a moment, then closed
FailReady(h) ==
    /\ At(h, "fail")
    /\ IF plan[host[h].plan].state = "applying" THEN SetPlan(host[h].plan, "ready") ELSE UNCHANGED plan
    /\ GoTo(h, "mark")
    /\ UNCHANGED <<lifecycle, owner, revisions, work, pending, down>>

\* PatchPlan.Close by its user (of a plan that is over it does nothing)
CloseBegin(h, p) ==
    /\ At(h, "idle") /\ plan[p].state \in {"ready", "applying"}
    /\ host' = [host EXCEPT ![h] = [pc |-> "mark", plan |-> p]]
    /\ UNCHANGED <<lifecycle, owner, revisions, work, plan, pending, down>>

\* Close: a plan that is over or being applied is left alone
CloseMark(h) ==
    LET p == host[h].plan IN
    /\ At(h, "mark")
    /\ IF plan[p].state = "ready"
       THEN SetPlan(p, "closed") /\ GoTo(h, "unset") /\ UNCHANGED owner
       ELSE UNCHANGED plan /\ Finish(h) /\ Leave(h)
    /\ UNCHANGED <<lifecycle, revisions, work, pending, down>>

CloseUnset(h) ==
    /\ At(h, "unset")
    /\ pending' = IF pending = host[h].plan THEN None ELSE pending
    /\ Finish(h) /\ Leave(h)
    /\ UNCHANGED <<lifecycle, revisions, work, plan, down>>

-----------------------------------------------------------------------------
(***************************************************************************)
(* Shutdown: the pending plan is looked up under the owner and closed      *)
(* without it; then the work ends, and last the revisions.                 *)
(***************************************************************************)
ShutdownBegin ==
    /\ down.pc = "none"
    /\ lifecycle' = "closing"
    /\ down' = [down EXCEPT !.pc = "pending"]
    /\ UNCHANGED <<owner, revisions, work, plan, pending, host>>

ShutdownPending ==
    /\ down.pc = "pending" /\ owner = None
    /\ down' = [pc |-> IF pending = None THEN "abort" ELSE "mark", plan |-> pending]
    /\ UNCHANGED <<lifecycle, owner, revisions, work, plan, pending, host>>

ShutdownMark ==
    /\ down.pc = "mark"
    /\ IF plan[down.plan].state = "ready"
       THEN SetPlan(down.plan, "closed") /\ down' = [down EXCEPT !.pc = "unset"]
       ELSE UNCHANGED plan /\ down' = [down EXCEPT !.pc = "abort"]
    /\ UNCHANGED <<lifecycle, owner, revisions, work, pending, host>>

ShutdownUnset ==
    /\ down.pc = "unset"
    /\ pending' = IF pending = down.plan THEN None ELSE pending
    /\ down' = [down EXCEPT !.pc = "abort"]
    /\ UNCHANGED <<lifecycle, owner, revisions, work, plan, host>>

ShutdownAbort ==
    /\ down.pc = "abort" /\ owner = None
    /\ Abort(Scopes)
    /\ down' = [down EXCEPT !.pc = "revisions"]
    /\ UNCHANGED <<lifecycle, owner, plan, pending, host>>

\* closeRevisions
ShutdownRevisions ==
    /\ down.pc = "revisions" /\ owner = None
    /\ rev' = [g \in Gens |-> IF g = current \/ g \in retired THEN [rev[g] EXCEPT !.closed = TRUE] ELSE rev[g]]
    /\ current' = 0 /\ retired' = {}
    /\ lifecycle' = "closed"
    /\ down' = [down EXCEPT !.pc = "done"]
    /\ UNCHANGED <<owner, work, plan, pending, host>>

-----------------------------------------------------------------------------
Program ==
    \/ \E s \in Scopes : CancelScope(s) \/ RemoveTimer(s) \/ \E f \in Frames : Start(s, f)
    \/ RunBegin \/ RunEnd \/ RunFails
    \/ \E f \in Frames : InitDone(f) \/ StartTimer(f) \/ Return(f)
    \/ \E f \in Frames, g \in Gens : StoreGlobal(f, g) \/ ClearGlobal(f, g)
    \/ \E f, e \in Frames, g \in Gens : CallNamed(f, e, 0) \/ CallNamed(f, e, g) \/ CallClosure(f, e, g)

Patch ==
    \/ \E p \in Plans : PreparePatch(p)
    \/ \E h \in Hosts, p \in Plans : ApplyTake(h, p) \/ CloseBegin(h, p)
    \/ \E h \in Hosts : \/ ApplyEnter(h) \/ ApplyRefused(h) \/ ApplyCommit(h) \/ ApplyClear(h)
                        \/ FailReady(h) \/ CloseMark(h) \/ CloseUnset(h)

Shutdown ==
    \/ ShutdownBegin \/ ShutdownPending \/ ShutdownMark \/ ShutdownUnset
    \/ ShutdownAbort \/ ShutdownRevisions

Next == Program \/ Patch \/ Shutdown

Spec == Init /\ [][Next]_vars

-----------------------------------------------------------------------------
(***************************************************************************)
(* Properties.                                                             *)
(***************************************************************************)
\* The hands a plan is in: it is being applied, or about to be closed.
Appliers(p) == {h \in Hosts : host[h].plan = p /\ host[h].pc \in {"enter", "check", "fail"}}
Closing(p) ==
    \/ \E h \in Hosts : host[h].plan = p /\ host[h].pc \in {"clear", "mark", "unset"}
    \/ down.plan = p /\ down.pc \in {"mark", "unset"}

\* A plan that may still be committed is the pending one and its base is the
\* current revision, so "stale_plan" never happens while the instance is open;
\* one host at a time applies it; and a plan that is over never stays pending,
\* which would refuse every later PreparePatch, although ApplyPatch, its failure,
\* Close and Shutdown take PatchPlan.mu, patchMu and the owner one by one.  After
\* Shutdown only a plan somebody is about to close is left.
PlanProtocol ==
    \A p \in Plans :
        /\ plan[p].state \in {"ready", "applying"} => pending = p
        /\ plan[p].state \in {"ready", "applying"} /\ Open => plan[p].base = current
        /\ Cardinality(Appliers(p)) = (IF plan[p].state = "applying" THEN 1 ELSE 0)
        /\ pending = p /\ plan[p].state \in {"committed", "closed"} => Closing(p)
        /\ down.pc = "done" /\ plan[p].state = "ready" => Closing(p)

\* The books of pins and retirement: the pins of a revision are the frames and
\* timers that pinned it, none of them is left in a closed revision before the
\* instance closes, the current one is open, the list of retired revisions is
\* exact and never beyond the limit, and once nothing runs every retired revision
\* left is held by a global variable.  Closures do not pin:
\* ClosuresKeepTheirRevision is about them.
RevisionsKept ==
    LET Pinned(g) == Cardinality({f \in Frames : frame[f].pinned /\ frame[f].gen = g})
                     + Cardinality({s \in Scopes : timer[s].pinned /\ timer[s].gen = g})
    IN  /\ \A g \in Gens : rev[g].pins = Pinned(g)
        /\ current # 0 =>
             /\ ~rev[current].closed /\ ~rev[current].retired
             /\ \A g \in Gens : rev[g].closed => rev[g].pins = 0
             /\ retired = {g \in Gens : rev[g].retired /\ ~rev[g].closed}
             /\ Cardinality(LiveRevisions(Heap)) <= MaxRetained
             /\ (\A s \in Scopes : ~Active(s)) => retired \subseteq globals

\* What USAGE.md:260 says, existing frames, defers and closures keep their old
\* revision: until the instance closes, no closure in a global variable and no
\* frame belongs to a revision that is closed.  closeReadyLocked looks at pins and
\* rootRetained only, and the latter is as old as the last sweep.
ClosuresKeepTheirRevision ==
    current # 0 =>
        \A g \in Gens : rev[g].closed =>
            g \notin globals /\ \A f \in Frames : frame[f].gen # g
=============================================================================
