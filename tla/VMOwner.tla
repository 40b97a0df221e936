------------------------------- MODULE VMOwner -------------------------------
(***************************************************************************)
(* What vm.owner promises: at most one goroutine at a time is inside the   *)
(* VM.  Instance.tla uses the VM owner in this form.                       *)
(***************************************************************************)
CONSTANTS Goroutines, Nobody

VARIABLE holder

Acquire(g) == holder = Nobody /\ holder' = g

Release(g) == holder = g /\ holder' = Nobody

Init == holder = Nobody

Next == \E g \in Goroutines : Acquire(g) \/ Release(g)

Spec == Init /\ [][Next]_holder

==============================================================================
