------------------------------ MODULE RouteSet ------------------------------
(***************************************************************************)
(* One routing epoch of an in-process binding: rpc/route_set.go,           *)
(* rpc/route_set_resources.go and rpc/result.go.                           *)
(*                                                                         *)
(* Goroutines: the callers of Call, each with its handler; the consumers   *)
(* that accept or discard a Result; the decision goroutine of each Result; *)
(* a goroutine per Drop; and the one that runs finishCleanup.  Every       *)
(* section under the mutex of the set or of a result is one step, and so   *)
(* is every wait between two sections.  Handlers, Resource.Close and the   *)
(* provider's decision are the host's: they end in either way.             *)
(***************************************************************************)
EXTENDS Naturals, Sequences, FiniteSets, SequencesExt

CONSTANTS
    Calls,              \* calls ever made; a call has at most one result
    Resources,          \* resources ever exported
    Consumers,          \* goroutines that decide results
    Scenarios,          \* bound: what is accepted at first, oldest first, the calls made,
                        \* what their handlers may export, who gets their results,
                        \* and which resources others than handlers may drop
    MaxPendingCalls,    \* Limits.MaxPendingCalls
    MaxResources        \* Limits.MaxResources

ASSUME RouteSetAssumption ==
    /\ IsFiniteSet(Calls) /\ IsFiniteSet(Resources)
    /\ \A plan \in Scenarios :
         /\ plan.accepted \in Seq(Resources) /\ IsInjective(plan.accepted)
         /\ plan.shapes \in [Calls -> SUBSET (BOOLEAN \X SUBSET Resources)]
         /\ plan.exports \in [Calls -> SUBSET Resources]
         /\ plan.deciders \in [Calls -> SUBSET Consumers]
         /\ plan.droppable \subseteq Resources
    /\ MaxPendingCalls \in Nat \ {0}
    /\ MaxResources \in Nat

None == <<"none">>

VARIABLES
    state,          \* RouteSet.state
    pendingCalls,   \* RouteSet.pendingCalls
    pendingResults, \* RouteSet.pendingResults
    calls,          \* the counter of the WaitGroup RouteSet.calls
    canceled,       \* whether callContext was cancelled
    res,            \* RouteSet.resources and resourceCloses
    order,          \* RouteSet.resourceOrder
    provisional,    \* RouteSet.provisionalResources
    owners,         \* RouteSet.pendingResultOwners, by call
    call,           \* where each call is, and what it borrows
    result,         \* each call's Result
    waiting,        \* consumers inside Result.decide
    left,           \* consumers whose decide returned, and what
    release,        \* the objects releaseObjects has still to do, by executor
    cleaner,        \* finishCleanup: its place, and the results it joins
    closer,         \* Close between its two sections
    lease,          \* whether the provider's lease is open
    scenario        \* the calls this behaviour may make

vars == <<state, pendingCalls, pendingResults, calls, canceled, res, order, provisional, owners,
          call, result, waiting, left, release, cleaner, closer, lease,
          scenario>>

registry == <<res, order, provisional>>
counters == <<pendingCalls, pendingResults, calls, owners>>
decisions == <<result, waiting, left>>
ending == <<state, canceled, cleaner, closer, lease>>

\* The executors of releaseObjects: a failed call, a result's decision
\* goroutine, and finishCleanup.
Executors == ({"call", "result"} \X Calls) \cup {<<"cleaner">>}

\* stage and by are the entry in resourceCloses and who made it: "wait" until the
\* borrowers are gone, "close" while Resource.Close runs, "failed" once that
\* failed; a Drop goroutine has two more steps before it closes attempt.done
Stages == {"none", "wait", "close", "finalize", "await", "failed"}
Drop == <<"drop">>

Resource == [st : {"none", "held", "closed", "lost"}, active : BOOLEAN, borrowed : Nat,
             stage : Stages, by : Executors \cup {Drop, None}]

CallPcs == {"idle", "handler", "dropping", "ok", "failed", "releasing", "leave", "finalize", "end"}
ResultPcs == {"none", "provider", "finish", "releasing", "settle", "finalize", "await", "close",
              "abandoned", "abandoning", "finalizing", "end"}

NoCall == [pc |-> "idle", borrows |-> {}, dropping |-> None]
NoResult == [pc |-> "none", objects |-> {}, accepted |-> FALSE, done |-> FALSE, failed |-> FALSE,
             delivered |-> FALSE, abandoned |-> FALSE, cleaned |-> FALSE]

TypeOK ==
    /\ state \in {"open", "draining", "cleaning", "closed"}
    /\ pendingCalls \in Nat /\ pendingResults \in Nat /\ calls \in Nat
    /\ canceled \in BOOLEAN /\ lease \in BOOLEAN
    /\ res \in [Resources -> Resource]
    /\ order \in Seq(Resources)
    /\ provisional \in [Calls -> SUBSET Resources]
    /\ owners \subseteq Calls
    /\ \A c \in Calls : call[c].pc \in CallPcs /\ call[c].borrows \subseteq Resources
    /\ \A c \in Calls : result[c].pc \in ResultPcs /\ result[c].objects \subseteq Resources
    /\ waiting \in [Calls -> SUBSET Consumers]
    /\ left \in [Calls -> SUBSET (Consumers \X {"nil", "error"})]
    /\ release \in [Executors -> Seq(Resources)]
    /\ cleaner.pc \in {"none", "begin", "wait", "results", "release", "lease", "end"}
    /\ closer \in BOOLEAN
    /\ scenario \in Scenarios

Init ==
    /\ state = "open"
    /\ pendingCalls = 0 /\ pendingResults = 0 /\ calls = 0
    /\ canceled = FALSE
    /\ scenario \in Scenarios
    /\ res = [r \in Resources |->
                [st |-> IF r \in ToSet(scenario.accepted) THEN "held" ELSE "none",
                 active |-> r \in ToSet(scenario.accepted),
                 borrowed |-> 0, stage |-> "none", by |-> None]]
    /\ order = scenario.accepted
    /\ provisional = [c \in Calls |-> {}]
    /\ owners = {}
    /\ call = [c \in Calls |-> NoCall]
    /\ result = [c \in Calls |-> NoResult]
    /\ waiting = [c \in Calls |-> {}]
    /\ left = [c \in Calls |-> {}]
    /\ release = [e \in Executors |-> <<>>]
    /\ cleaner = [pc |-> "none", results |-> {}]
    /\ closer = FALSE
    /\ lease = TRUE

Held == {r \in Resources : res[r].st = "held"}
AcceptsResourceCalls == state \in {"open", "draining"}

-----------------------------------------------------------------------------
(***************************************************************************)
(* finalizeIfIdle: beginCleanup(false).  The goroutine that starts the     *)
(* cleanup runs it to its end before it goes on.                           *)
(***************************************************************************)
Idle == state = "draining" /\ pendingCalls = 0 /\ pendingResults = 0 /\ Held = {}

Finalize ==
    /\ state' = IF Idle THEN "cleaning" ELSE state
    /\ cleaner' = IF Idle THEN [cleaner EXCEPT !.pc = "begin"] ELSE cleaner
    /\ UNCHANGED <<canceled, lease>>

-----------------------------------------------------------------------------
(***************************************************************************)
(* Call.                                                                   *)
(***************************************************************************)
\* a service call, or a call of a resource, with the resources it borrows as
\* receiver and arguments
CallBegin(c, onResource, rs) ==
    /\ call[c].pc = "idle" /\ <<onResource, rs>> \in scenario.shapes[c]
    /\ IF onResource THEN AcceptsResourceCalls /\ rs # {} ELSE state = "open"
    /\ pendingCalls + pendingResults < MaxPendingCalls
    /\ \A r \in rs : r \in Held /\ res[r].active /\ res[r].stage = "none"
    /\ call' = [call EXCEPT ![c] = [NoCall EXCEPT !.pc = "handler", !.borrows = rs]]
    /\ res' = [r \in Resources |-> IF r \in rs THEN [res[r] EXCEPT !.borrowed = @ + 1] ELSE res[r]]
    /\ pendingCalls' = pendingCalls + 1
    /\ calls' = calls + 1
    /\ UNCHANGED <<order, provisional, pendingResults, owners, release>>
    /\ UNCHANGED <<decisions, ending>>

\* routeExporter.Export, called by the handler
Export(c, r) ==
    /\ call[c].pc = "handler" /\ r \in scenario.exports[c]
    /\ AcceptsResourceCalls
    /\ Cardinality(Held) < MaxResources
    /\ res[r].st = "none"
    /\ res' = [res EXCEPT ![r].st = "held"]
    /\ provisional' = [provisional EXCEPT ![c] = @ \cup {r}]
    /\ UNCHANGED <<order, call, release>>
    /\ UNCHANGED <<counters, decisions, ending>>

\* the handler returns or panics; releaseResourceBorrows
HandlerReturn(c, ok) ==
    /\ call[c].pc = "handler"
    /\ res' = [r \in Resources |->
                 IF r \in call[c].borrows THEN [res[r] EXCEPT !.borrowed = @ - 1] ELSE res[r]]
    /\ call' = [call EXCEPT ![c] = [NoCall EXCEPT !.pc = IF ok THEN "ok" ELSE "failed"]]
    /\ UNCHANGED <<order, provisional, release>>
    /\ UNCHANGED <<counters, decisions, ending>>

\* an error, a nil result or invalid values: what was exported is released
CallFail(c) ==
    /\ call[c].pc = "failed"
    /\ \E objects \in SetToSeqs(provisional[c]) : release' = [release EXCEPT ![<<"call", c>>] = objects]
    /\ provisional' = [provisional EXCEPT ![c] = {}]
    /\ call' = [call EXCEPT ![c].pc = "releasing"]
    /\ UNCHANGED <<res, order>>
    /\ UNCHANGED <<counters, decisions, ending>>

\* the Result is made and registered
CallPublish(c) ==
    /\ call[c].pc = "ok"
    /\ pendingResults' = pendingResults + 1
    /\ owners' = owners \cup {c}
    /\ result' = [result EXCEPT ![c].objects = provisional[c]]
    /\ call' = [call EXCEPT ![c].pc = "leave"]
    /\ UNCHANGED <<pendingCalls, calls, release, waiting, left>>
    /\ UNCHANGED <<registry, ending>>

\* the deferred end of Call
CallLeave(c) ==
    /\ call[c].pc \in {"leave", "releasing"}
    /\ release[<<"call", c>>] = <<>>
    /\ pendingCalls' = pendingCalls - 1
    /\ calls' = calls - 1
    /\ call' = [call EXCEPT ![c].pc = "finalize"]
    /\ UNCHANGED <<pendingResults, owners, release>>
    /\ UNCHANGED <<registry, decisions, ending>>

CallFinalize(c) ==
    /\ call[c].pc = "finalize"
    /\ Finalize
    /\ call' = [call EXCEPT ![c].pc = "end"]
    /\ UNCHANGED <<release, closer>>
    /\ UNCHANGED <<registry, counters, decisions>>

-----------------------------------------------------------------------------
(***************************************************************************)
(* releaseObjects, by executor e: its objects one after the other.         *)
(***************************************************************************)
\* resourceCloses holds an attempt whose done is not closed
AttemptRunning(r) == res[r].stage \in {"wait", "close", "finalize", "await"}

Register(r, e) == res' = [res EXCEPT ![r].stage = "wait", ![r].by = e]

\* detachResourceLocked
Detached(r) == [res EXCEPT ![r].st = "closed", ![r].stage = "none", ![r].by = None]
WithoutResource(r) == RemoveFirst(order, r)

\* the object is gone, or an attempt of somebody else is waited for and the
\* executor's own registered
ReleaseTake(e) ==
    /\ release[e] # <<>>
    /\ LET r == Head(release[e])
       IN  IF r \in Held
           THEN ~AttemptRunning(r) /\ Register(r, e) /\ UNCHANGED release
           ELSE release' = [release EXCEPT ![e] = Tail(@)] /\ UNCHANGED res
    /\ UNCHANGED <<order, provisional, call>>
    /\ UNCHANGED <<counters, decisions, ending>>

\* Mutant of CloseBegins: borrowDone is not waited for.
CloseBeginsAtOnce(r) ==
    /\ res[r].stage = "wait"
    /\ res' = [res EXCEPT ![r].stage = "close"]
    /\ UNCHANGED <<order, provisional, call, release>>
    /\ UNCHANGED <<counters, decisions, ending>>

\* borrowDone is closed, and Resource.Close is called; in a Drop too
CloseBegins(r) ==
    /\ res[r].stage = "wait"
    /\ res[r].borrowed = 0
    /\ res' = [res EXCEPT ![r].stage = "close"]
    /\ UNCHANGED <<order, provisional, call, release>>
    /\ UNCHANGED <<counters, decisions, ending>>

\* Close returned to releaseObjects: a failed object is kept for a later
\* attempt unless the set is being cleaned up
ReleaseEnds(e, ok) ==
    /\ release[e] # <<>>
    /\ LET r == Head(release[e])
       IN  /\ res[r].by = e /\ res[r].stage = "close"
           /\ IF ~ok /\ AcceptsResourceCalls
              THEN /\ res' = [res EXCEPT ![r].stage = "failed", ![r].by = None]
                   /\ order' = IF r \in ToSet(order) THEN order ELSE Append(order, r)
              ELSE /\ res' = Detached(r)
                   /\ order' = WithoutResource(r)
    /\ release' = [release EXCEPT ![e] = Tail(@)]
    /\ result' = IF e[1] = "result"
                 THEN [result EXCEPT ![e[2]].failed = @ \/ ~ok]
                 ELSE result
    /\ UNCHANGED <<provisional, call, waiting, left>>
    /\ UNCHANGED <<counters, ending>>

-----------------------------------------------------------------------------
(***************************************************************************)
(* Drop.  Its caller waits for the attempt or for its own context; only a  *)
(* caller that is a handler matters, because it keeps its borrows.         *)
(***************************************************************************)
Droppable(r) == AcceptsResourceCalls /\ r \in Held /\ res[r].active

DropBegin(r) ==
    /\ Droppable(r) /\ r \in scenario.droppable
    /\ ~AttemptRunning(r)
    /\ Register(r, Drop)
    /\ calls' = calls + 1
    /\ UNCHANGED <<order, provisional, pendingCalls, pendingResults, owners, call, release>>
    /\ UNCHANGED <<decisions, ending>>

\* a handler closes a resource it has not borrowed itself, and waits
HandlerDrop(c, r) ==
    /\ call[c].pc = "handler"
    /\ Droppable(r)
    /\ r \notin call[c].borrows
    /\ call' = [call EXCEPT ![c].pc = "dropping", ![c].dropping = r]
    /\ IF AttemptRunning(r) THEN UNCHANGED <<res, calls>>
                            ELSE Register(r, Drop) /\ calls' = calls + 1
    /\ UNCHANGED <<order, provisional, pendingCalls, pendingResults, owners, release>>
    /\ UNCHANGED <<decisions, ending>>

\* its attempt is done, or its call's context was cancelled
HandlerDropReturns(c) ==
    /\ call[c].pc = "dropping"
    /\ canceled \/ ~AttemptRunning(call[c].dropping)
    /\ call' = [call EXCEPT ![c].pc = "handler", ![c].dropping = None]
    /\ UNCHANGED <<release>>
    /\ UNCHANGED <<registry, counters, decisions, ending>>

DropEnds(r, ok) ==
    /\ res[r].by = Drop /\ res[r].stage = "close"
    /\ res' = [res EXCEPT ![r].st = IF ok THEN "closed" ELSE @, ![r].stage = "finalize"]
    /\ order' = IF ok THEN WithoutResource(r) ELSE order
    /\ calls' = calls - 1
    /\ UNCHANGED <<provisional, pendingCalls, pendingResults, owners, call, release>>
    /\ UNCHANGED <<decisions, ending>>

\* attempt.done is closed, after the cleanup this goroutine may have started
DropDone(r) == res' = [res EXCEPT ![r].stage = IF r \in Held THEN "failed" ELSE "none", ![r].by = None]

DropFinalize(r) ==
    /\ res[r].stage = "finalize"
    /\ Finalize
    /\ IF Idle THEN res' = [res EXCEPT ![r].stage = "await"] ELSE DropDone(r)
    /\ UNCHANGED <<order, provisional, call, release, closer>>
    /\ UNCHANGED <<counters, decisions>>

DropAwait(r) ==
    /\ res[r].stage = "await"
    /\ state = "closed"
    /\ DropDone(r)
    /\ UNCHANGED <<order, provisional, call, release>>
    /\ UNCHANGED <<counters, decisions, ending>>

-----------------------------------------------------------------------------
(***************************************************************************)
(* Result.decide, by a consumer k of the result of call c.                 *)
(***************************************************************************)
Published(c) == call[c].pc = "end" /\ (c \in owners \/ result[c].pc # "none")
Undecided(c) == result[c].pc = "none"
Deciding(c, accept) == [result EXCEPT ![c].pc = "provider", ![c].accepted = accept]

\* the first decision starts the decision goroutine; an Accept whose context is
\* cancelled already is a discard.  A later one joins it, or is refused.
Decide(c, k, accept, canceledContext) ==
    /\ Published(c)
    /\ k \in scenario.deciders[c] \ (waiting[c] \cup {x[1] : x \in left[c]})
    /\ \/ /\ Undecided(c)
          /\ result' = Deciding(c, accept /\ ~canceledContext)
          /\ waiting' = [waiting EXCEPT ![c] = @ \cup {k}]
          /\ UNCHANGED left
       \/ /\ ~Undecided(c)
          /\ result[c].accepted = accept /\ ~(result[c].abandoned /\ accept)
          /\ waiting' = [waiting EXCEPT ![c] = @ \cup {k}]
          /\ UNCHANGED <<result, left>>
       \/ /\ ~Undecided(c)
          /\ result[c].accepted # accept \/ (result[c].abandoned /\ accept)
          /\ left' = [left EXCEPT ![c] = @ \cup {<<k, "error">>}]
          /\ UNCHANGED <<result, waiting>>
    /\ UNCHANGED <<call, release>>
    /\ UNCHANGED <<registry, counters, ending>>

\* claimAbandonedReleaseLocked: the release is claimed once the decision is done
Claimed(r) ==
    IF r.done /\ r.accepted /\ r.abandoned /\ ~r.cleaned /\ ~r.failed
    THEN [r EXCEPT !.cleaned = TRUE, !.pc = "abandoned"]
    ELSE r

\* Mutant of WaiterReturns: the delivery is not recorded.
WaiterReturnsSilently(c, k) ==
    /\ k \in waiting[c]
    /\ result[c].done
    /\ waiting' = [waiting EXCEPT ![c] = @ \ {k}]
    /\ left' = [left EXCEPT ![c] = @ \cup {<<k, IF result[c].failed THEN "error" ELSE "nil">>}]
    /\ UNCHANGED <<call, release, result>>
    /\ UNCHANGED <<registry, counters, ending>>

\* decide returns the decision's error
WaiterReturns(c, k) ==
    /\ k \in waiting[c]
    /\ result[c].done
    /\ waiting' = [waiting EXCEPT ![c] = @ \ {k}]
    /\ left' = [left EXCEPT ![c] = @ \cup {<<k, IF result[c].failed THEN "error" ELSE "nil">>}]
    /\ result' = [result EXCEPT ![c].delivered = @ \/ ~result[c].failed]
    /\ UNCHANGED <<call, release>>
    /\ UNCHANGED <<registry, counters, ending>>

\* its context ended: without another waiter or an earlier delivery the result
\* is abandoned
WaiterCanceled(c, k) ==
    /\ k \in waiting[c]
    /\ waiting' = [waiting EXCEPT ![c] = @ \ {k}]
    /\ left' = [left EXCEPT ![c] = @ \cup {<<k, "error">>}]
    /\ result' = [result EXCEPT ![c] =
            Claimed([result[c] EXCEPT !.abandoned = @ \/ (waiting'[c] = {} /\ ~result[c].delivered)])]
    /\ UNCHANGED <<call, release>>
    /\ UNCHANGED <<registry, counters, ending>>

-----------------------------------------------------------------------------
(***************************************************************************)
(* finishDecision, on the result's own goroutine.                          *)
(***************************************************************************)
\* ProviderResult.accept or discard, once
ProviderDecides(c, ok) ==
    /\ result[c].pc = "provider"
    /\ result' = [result EXCEPT ![c].pc = "finish", ![c].failed = ~ok]
    /\ UNCHANGED <<call, release, waiting, left>>
    /\ UNCHANGED <<registry, counters, ending>>

\* finishResult: the resources become active, or are released
FinishResult(c) ==
    /\ result[c].pc = "finish"
    /\ provisional' = [provisional EXCEPT ![c] = {}]
    /\ IF result[c].accepted /\ ~result[c].failed /\ AcceptsResourceCalls
       THEN /\ \E adopted \in SetToSeqs(result[c].objects \cap Held) : order' = order \o adopted
            /\ res' = [r \in Resources |-> IF r \in result[c].objects \cap Held
                                           THEN [res[r] EXCEPT !.active = TRUE] ELSE res[r]]
            /\ result' = [result EXCEPT ![c].pc = "settle"]
            /\ UNCHANGED release
       ELSE /\ \E objects \in SetToSeqs(result[c].objects) :
                 release' = [release EXCEPT ![<<"result", c>>] = objects]
            /\ result' = [result EXCEPT ![c].pc = "releasing"]
            /\ UNCHANGED <<res, order>>
    /\ UNCHANGED <<call, waiting, left>>
    /\ UNCHANGED <<counters, ending>>

\* Mutant of ResultSettles: the result stays registered until its decision is done.
ResultSettlesOwned(c) ==
    /\ result[c].pc \in {"settle", "releasing"}
    /\ release[<<"result", c>>] = <<>>
    /\ pendingResults' = pendingResults - 1
    /\ result' = [result EXCEPT ![c].pc = "finalize"]
    /\ UNCHANGED <<pendingCalls, calls, owners, call, release, waiting, left>>
    /\ UNCHANGED <<registry, ending>>

\* the deferred end of the accept closure
ResultSettles(c) ==
    /\ result[c].pc \in {"settle", "releasing"}
    /\ release[<<"result", c>>] = <<>>
    /\ pendingResults' = pendingResults - 1
    /\ owners' = owners \ {c}
    /\ result' = [result EXCEPT ![c].pc = "finalize"]
    /\ UNCHANGED <<pendingCalls, calls, call, release, waiting, left>>
    /\ UNCHANGED <<registry, ending>>

ResultFinalize(c) ==
    /\ result[c].pc \in {"finalize", "finalizing"}
    /\ Finalize
    /\ result' = [result EXCEPT ![c].pc =
            IF @ = "finalizing" THEN "end" ELSE IF Idle THEN "await" ELSE "close"]
    /\ UNCHANGED <<call, release, closer, waiting, left>>
    /\ UNCHANGED <<registry, counters>>

\* done is closed, and an abandoned acceptance claimed
ResultClose(c) ==
    /\ result[c].pc = "close" \/ (result[c].pc = "await" /\ state = "closed")
    /\ result' = [result EXCEPT ![c] = Claimed([@ EXCEPT !.done = TRUE, !.pc = "end"])]
    /\ UNCHANGED <<call, release, waiting, left>>
    /\ UNCHANGED <<registry, counters, ending>>

\* result.release of an abandoned acceptance, unless the cleanup does it
AbandonBegin(c) ==
    /\ result[c].pc = "abandoned"
    /\ IF AcceptsResourceCalls /\ result[c].objects # {}
       THEN /\ calls' = calls + 1
            /\ \E objects \in SetToSeqs(result[c].objects) :
                 release' = [release EXCEPT ![<<"result", c>>] = objects]
            /\ result' = [result EXCEPT ![c].pc = "abandoning"]
       ELSE /\ result' = [result EXCEPT ![c].pc = "end"]
            /\ UNCHANGED <<calls, release>>
    /\ UNCHANGED <<pendingCalls, pendingResults, owners, call, waiting, left>>
    /\ UNCHANGED <<registry, ending>>

AbandonEnd(c) ==
    /\ result[c].pc = "abandoning"
    /\ release[<<"result", c>>] = <<>>
    /\ calls' = calls - 1
    /\ result' = [result EXCEPT ![c].pc = "finalizing"]
    /\ UNCHANGED <<pendingCalls, pendingResults, owners, call, release, waiting, left>>
    /\ UNCHANGED <<registry, ending>>

-----------------------------------------------------------------------------
(***************************************************************************)
(* Close, Shutdown (and disconnect, which is the same for a local set),    *)
(* and finishCleanup.                                                      *)
(***************************************************************************)
CloseSet ==
    /\ state = "open"
    /\ state' = "draining"
    /\ closer' = TRUE
    /\ UNCHANGED <<canceled, cleaner, lease, call, release>>
    /\ UNCHANGED <<registry, counters, decisions>>

CloseFinalize ==
    /\ closer
    /\ closer' = FALSE
    /\ Finalize
    /\ UNCHANGED <<call, release>>
    /\ UNCHANGED <<registry, counters, decisions>>

\* beginCleanup(true): accepted resources, newest first, after provisional ones
Shutdown ==
    /\ AcceptsResourceCalls
    /\ state' = "cleaning"
    /\ cleaner' = [cleaner EXCEPT !.pc = "begin"]
    /\ \E loose \in SetToSeqs(UNION {provisional[c] : c \in Calls}) :
         release' = [release EXCEPT ![<<"cleaner">>] = Reverse(order \o loose)]
    /\ UNCHANGED <<canceled, closer, lease, call>>
    /\ UNCHANGED <<registry, counters, decisions>>

CleanupCancel ==
    /\ cleaner.pc = "begin"
    /\ canceled' = TRUE
    /\ cleaner' = [cleaner EXCEPT !.pc = "wait"]
    /\ UNCHANGED <<state, closer, lease, call, release>>
    /\ UNCHANGED <<registry, counters, decisions>>

\* s.calls.Wait; then the results nobody decided are listed
CleanupBarrier ==
    /\ cleaner.pc = "wait"
    /\ calls = 0
    /\ cleaner' = [pc |-> "results", results |-> owners]
    /\ UNCHANGED <<state, canceled, closer, lease, call, release>>
    /\ UNCHANGED <<registry, counters, decisions>>

\* finishForShutdown: an undecided result is discarded, any is joined
CleanupResult(c) ==
    /\ cleaner.pc = "results" /\ c \in cleaner.results
    /\ \/ /\ Undecided(c)
          /\ result' = Deciding(c, FALSE)
          /\ UNCHANGED cleaner
       \/ /\ result[c].done
          /\ cleaner' = [cleaner EXCEPT !.results = @ \ {c}]
          /\ UNCHANGED result
    /\ UNCHANGED <<state, canceled, closer, lease, call, release, waiting, left>>
    /\ UNCHANGED <<registry, counters>>

CleanupRelease ==
    /\ cleaner.pc = "results" /\ cleaner.results = {}
    /\ cleaner' = [cleaner EXCEPT !.pc = "release"]
    /\ UNCHANGED <<state, canceled, closer, lease, call, release>>
    /\ UNCHANGED <<registry, counters, decisions>>

CleanupLease ==
    /\ cleaner.pc = "release"
    /\ release[<<"cleaner">>] = <<>>
    /\ lease' = FALSE
    /\ cleaner' = [cleaner EXCEPT !.pc = "lease"]
    /\ UNCHANGED <<state, canceled, closer, call, release>>
    /\ UNCHANGED <<registry, counters, decisions>>

\* the registry is dropped, whatever is in it, and cleanupDone closed
CleanupEnd ==
    /\ cleaner.pc = "lease"
    /\ state' = "closed"
    /\ cleaner' = [cleaner EXCEPT !.pc = "end"]
    /\ res' = [r \in Resources |-> IF r \in Held THEN [res[r] EXCEPT !.st = "lost"] ELSE res[r]]
    /\ order' = <<>>
    /\ provisional' = [c \in Calls |-> {}]
    /\ owners' = {}
    /\ UNCHANGED <<canceled, closer, lease, call, release, pendingCalls, pendingResults, calls>>
    /\ UNCHANGED decisions

-----------------------------------------------------------------------------
\* what goes on by itself once it began
CallStep(c) ==
    \/ \E ok \in BOOLEAN : HandlerReturn(c, ok)
    \/ HandlerDropReturns(c)
    \/ CallFail(c) \/ CallPublish(c) \/ CallLeave(c) \/ CallFinalize(c)

ResultStep(c) ==
    \/ \E ok \in BOOLEAN : ProviderDecides(c, ok)
    \/ FinishResult(c) \/ ResultSettles(c) \/ ResultFinalize(c) \/ ResultClose(c)
    \/ AbandonBegin(c) \/ AbandonEnd(c)
    \/ \E k \in Consumers : WaiterReturns(c, k)

ReleaseStep ==
    \/ \E e \in Executors : ReleaseTake(e) \/ (\E ok \in BOOLEAN : ReleaseEnds(e, ok))
    \/ \E r \in Resources : CloseBegins(r) \/ DropFinalize(r) \/ DropAwait(r)
                            \/ (\E ok \in BOOLEAN : DropEnds(r, ok))

CleanupStep ==
    \/ CleanupCancel \/ CleanupBarrier \/ CleanupRelease \/ CleanupLease \/ CleanupEnd
    \/ \E c \in Calls : CleanupResult(c)

Progress ==
    \/ \E c \in Calls : CallStep(c) \/ ResultStep(c)
    \/ ReleaseStep
    \/ CleanupStep
    \/ CloseFinalize

\* what the program and its handlers may do
Request ==
    \/ \E c \in Calls, onResource \in BOOLEAN, rs \in SUBSET Resources : CallBegin(c, onResource, rs)
    \/ \E c \in Calls, r \in Resources : Export(c, r) \/ HandlerDrop(c, r)
    \/ \E r \in Resources : DropBegin(r)
    \/ \E c \in Calls, k \in Consumers, accept, canceledContext \in BOOLEAN :
         Decide(c, k, accept, canceledContext)
    \/ \E c \in Calls, k \in Consumers : WaiterCanceled(c, k)
    \/ CloseSet
    \/ Shutdown

Next == (Progress \/ Request) /\ UNCHANGED scenario

\* Handlers and Resource.Close return and every goroutine goes on; nobody has
\* to call, decide, drop or shut down.
Spec == Init /\ [][Next]_vars /\ WF_vars(Progress /\ UNCHANGED scenario)

-----------------------------------------------------------------------------
(***************************************************************************)
(* Properties.                                                             *)
(***************************************************************************)
Life(r) ==
    IF res[r].st # "held" THEN res[r].st
    ELSE CASE res[r].stage = "close" -> "closing"
           [] res[r].stage \notin {"none", "close"} -> "retired"
           [] res[r].stage = "none" /\ res[r].active -> "live"
           [] res[r].stage = "none" /\ ~res[r].active -> "provisional"

Promise == INSTANCE RouteSpec WITH
    life  <- [r \in Resources |-> Life(r)],
    using <- [r \in Resources |-> {c \in Calls : r \in call[c].borrows}],
    ended <- (state = "closed")

\* The set keeps its promise to the owners of resources, whatever calls, drops,
\* decisions and a Shutdown overlap: see RouteSpec.
KeepsPromise == Promise!Spec

\* The resources of an accepted result belong to somebody: once an Accept has
\* returned nil the result never releases them itself; and when its decision is
\* over, every Accept has returned and none of them with nil (all contexts
\* ended meanwhile), they are no longer live (Result.decide and
\* claimAbandonedReleaseLocked).
OwnedOrReleased ==
    \A c \in Calls :
        LET told == \E x \in left[c] : x[2] = "nil"
        IN  result[c].accepted =>
              /\ told => \A r \in result[c].objects : res[r].by # <<"result", c>>
              /\ result[c].pc = "end" /\ ~told /\ waiting[c] = {} =>
                   \A r \in result[c].objects : Life(r) # "live" \/ ~AcceptsResourceCalls

\* Cleanup ends: after Shutdown, and after a Close once the last call, result and
\* resource is gone, whoever was the last (finalizeIfIdle); handlers that wait
\* for each other's resources are released by the cancelled call context.
CleanupCompletes == (state = "cleaning" \/ Idle) ~> state = "closed"
=============================================================================
