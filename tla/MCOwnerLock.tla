----------------------------- MODULE MCOwnerLock -----------------------------
(* Three goroutines, one of which may give up, are enough for a token to be *)
(* taken by one while another still waits and a third leaves.               *)
EXTENDS OwnerLock

==============================================================================
