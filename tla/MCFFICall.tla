------------------------------ MODULE MCFFICall ------------------------------
(* Two calls that compete for the quota, so that one is refused or fails at *)
(* the boundary limit while the other is settled.                           *)
EXTENDS FFICall

==============================================================================
