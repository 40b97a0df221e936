----------------------------- MODULE RouteSpec ------------------------------
(***************************************************************************)
(* What a route set promises the owner of the resources that handlers      *)
(* export through it: a resource is invoked only between the acceptance of *)
(* the result that carries it and its release; Close is never called while *)
(* an invocation runs, never twice at once and never again after it        *)
(* succeeded; and the set ends only after every resource was released, and *)
(* then the provider's lease after them.                                   *)
(***************************************************************************)
EXTENDS FiniteSets

CONSTANTS Resources, Calls

VARIABLES
    life,       \* the life of each resource
    using,      \* the invocations that use it
    lease,      \* whether the provider's lease is open
    ended       \* whether Shutdown may report completion

specVars == <<life, using, lease, ended>>

Lives == {"none", "provisional", "live", "retired", "closing", "closed"}

SpecInit ==
    /\ life \in [Resources -> {"none", "live"}]
    /\ using = [r \in Resources |-> {}]
    /\ lease = TRUE
    /\ ended = FALSE

\* a handler exports a resource
Create(r) ==
    /\ lease /\ life[r] = "none"
    /\ life' = [life EXCEPT ![r] = "provisional"]
    /\ UNCHANGED <<using, lease, ended>>

\* the result that carries these resources is accepted
Adopt(rs) ==
    /\ \A r \in rs : life[r] = "provisional"
    /\ life' = [r \in Resources |-> IF r \in rs THEN "live" ELSE life[r]]
    /\ UNCHANGED <<using, lease, ended>>

Use(c, rs) ==
    /\ \A r \in rs : life[r] = "live"
    /\ using' = [r \in Resources |-> IF r \in rs THEN using[r] \cup {c} ELSE using[r]]
    /\ UNCHANGED <<life, lease, ended>>

Leave(c) ==
    /\ using' = [r \in Resources |-> using[r] \ {c}]
    /\ UNCHANGED <<life, lease, ended>>

\* somebody decides to release it: no new use from now on
Retire(r) ==
    /\ life[r] \in {"provisional", "live"}
    /\ life' = [life EXCEPT ![r] = "retired"]
    /\ UNCHANGED <<using, lease, ended>>

\* Resource.Close is called, and returns; after a failure it may be tried again
CloseCalled(r) ==
    /\ life[r] = "retired"
    /\ using[r] = {}
    /\ life' = [life EXCEPT ![r] = "closing"]
    /\ UNCHANGED <<using, lease, ended>>

CloseReturned(r) ==
    /\ life[r] = "closing"
    /\ life' \in {[life EXCEPT ![r] = x] : x \in {"retired", "closed"}}
    /\ UNCHANGED <<using, lease, ended>>

LeaseClosed ==
    /\ lease
    /\ \A r \in Resources : life[r] \in {"none", "closed"} /\ using[r] = {}
    /\ lease' = FALSE
    /\ UNCHANGED <<life, using, ended>>

End ==
    /\ ~lease
    /\ ended' = TRUE
    /\ UNCHANGED <<life, using, lease>>

SpecNext ==
    \/ \E r \in Resources : Create(r) \/ Retire(r) \/ CloseCalled(r) \/ CloseReturned(r)
    \/ \E rs \in SUBSET Resources : Adopt(rs) \/ (\E c \in Calls : Use(c, rs))
    \/ \E c \in Calls : Leave(c)
    \/ LeaseClosed
    \/ End

Spec == SpecInit /\ [][SpecNext]_specVars
=============================================================================
