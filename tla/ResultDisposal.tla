---------------------------- MODULE ResultDisposal ----------------------------
(***************************************************************************)
(* What the runtime promises about the result of an FFI call (the comment  *)
(* on Result.Discard in src/ffi/ffi.go): once a host has reported it, it   *)
(* is delivered to the guest or discarded, never both and never twice.     *)
(***************************************************************************)
CONSTANT Calls

VARIABLE disposal

Report(c)  == disposal[c] = "unreported" /\ disposal' = [disposal EXCEPT ![c] = "held"]
Deliver(c) == disposal[c] = "held" /\ disposal' = [disposal EXCEPT ![c] = "delivered"]
Discard(c) == disposal[c] = "held" /\ disposal' = [disposal EXCEPT ![c] = "discarded"]

Init == disposal = [c \in Calls |-> "unreported"]

Next == \E c \in Calls : Report(c) \/ Deliver(c) \/ Discard(c)

Spec == Init /\ [][Next]_disposal

==============================================================================
