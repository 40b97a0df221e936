------------------------------ MODULE OwnerLock ------------------------------
(***************************************************************************)
(* How the VM owner is built (src/runtime/vm.go): an atomic flag taken by  *)
(* compare-and-swap and a one-token channel ownerWake that leaveOwner      *)
(* fills without blocking.  Every atomic operation is a step of its own,   *)
(* so a token may be sent, found full, or taken by a goroutine that no     *)
(* longer needs it, between any two operations of the others.              *)
(***************************************************************************)
EXTENDS Naturals

CONSTANTS
  Goroutines,
  Nobody,
  Impatient   \* those that wait with a context that may end

ASSUME GoroutinesAssumption == Nobody \notin Goroutines /\ Impatient \subseteq Goroutines

VARIABLES
  owner,      \* vm.owner
  token,      \* tokens in vm.ownerWake, which has room for one
  pc,         \* where each goroutine is
  ctxDone     \* contexts that ended

vars == <<owner, token, pc, ctxDone>>

(* "try": about to do the one CAS of enterOwner.  "cas", "select": in the    *)
(* loop of enterOwnerContext.  "inside": owns the VM.  "send": leaveOwner has *)
(* stored false and not yet tried to send.                                   *)
Locations == {"outside", "try", "cas", "select", "inside", "send"}

TypeOK ==
  /\ owner \in BOOLEAN
  /\ token \in 0..1
  /\ pc \in [Goroutines -> Locations]
  /\ ctxDone \in [Goroutines -> BOOLEAN]

Init ==
  /\ owner = FALSE
  /\ token = 0
  /\ pc = [g \in Goroutines |-> "outside"]
  /\ ctxDone = [g \in Goroutines |-> FALSE]

At(g, l)   == pc[g] = l
GoTo(g, l) == pc' = [pc EXCEPT ![g] = l]

-----------------------------------------------------------------------------
Begin(g) ==
  /\ At(g, "outside")
  /\ GoTo(g, "try") \/ GoTo(g, "cas")
  /\ UNCHANGED <<owner, token, ctxDone>>

\* Mutant of Enter: a load and a store instead of the compare-and-swap.
EnterWithoutCAS(g) ==
  /\ At(g, "try") \/ At(g, "cas")
  /\ owner' = TRUE
  /\ GoTo(g, "inside")
  /\ UNCHANGED <<token, ctxDone>>

\* owner.CompareAndSwap(false, true) succeeds.
Enter(g) ==
  /\ At(g, "try") \/ At(g, "cas")
  /\ ~owner
  /\ owner' = TRUE
  /\ GoTo(g, "inside")
  /\ UNCHANGED <<token, ctxDone>>

\* enterOwner gives up: ErrBusy.
Busy(g) ==
  /\ At(g, "try") /\ owner
  /\ GoTo(g, "outside")
  /\ UNCHANGED <<owner, token, ctxDone>>

\* enterOwnerContext goes to its select.
Block(g) ==
  /\ At(g, "cas") /\ owner
  /\ GoTo(g, "select")
  /\ UNCHANGED <<owner, token, ctxDone>>

\* Mutant of Woken: the select is not followed by another CAS.
WokenWithoutRetry(g) ==
  /\ At(g, "select") /\ token > 0
  /\ token' = token - 1
  /\ UNCHANGED <<owner, pc, ctxDone>>

\* case <-vm.ownerWake
Woken(g) ==
  /\ At(g, "select") /\ token > 0
  /\ token' = token - 1
  /\ GoTo(g, "cas")
  /\ UNCHANGED <<owner, ctxDone>>

\* Mutant of GiveUp: leaveOwner is deferred before the error is looked at.
GiveUpAndLeave(g) ==
  /\ At(g, "select") /\ ctxDone[g]
  /\ owner' = FALSE
  /\ GoTo(g, "send")
  /\ UNCHANGED <<token, ctxDone>>

\* case <-ctx.Done()
GiveUp(g) ==
  /\ At(g, "select") /\ ctxDone[g]
  /\ GoTo(g, "outside")
  /\ UNCHANGED <<owner, token, ctxDone>>

ContextEnds(g) ==
  /\ g \in Impatient /\ ~ctxDone[g]
  /\ ctxDone' = [ctxDone EXCEPT ![g] = TRUE]
  /\ UNCHANGED <<owner, token, pc>>

\* leaveOwner: owner.Store(false) ...
Leave(g) ==
  /\ At(g, "inside")
  /\ owner' = FALSE
  /\ GoTo(g, "send")
  /\ UNCHANGED <<token, ctxDone>>

\* Mutant of Send: no token is sent.
SendNothing(g) ==
  /\ At(g, "send")
  /\ GoTo(g, "outside")
  /\ UNCHANGED <<owner, token, ctxDone>>

\* ... then the token, unless one is there already.
Send(g) ==
  /\ At(g, "send")
  /\ token' = IF token < 1 THEN token + 1 ELSE token
  /\ GoTo(g, "outside")
  /\ UNCHANGED <<owner, ctxDone>>

Step(g) ==
  Enter(g) \/ Busy(g) \/ Block(g) \/ Woken(g) \/ GiveUp(g) \/ Leave(g) \/ Send(g)

Next == \E g \in Goroutines : Begin(g) \/ Step(g) \/ ContextEnds(g)

Spec == Init /\ [][Next]_vars

\* Every goroutine that has begun goes on; a section under the owner ends.
Fairness == \A g \in Goroutines : WF_vars(Step(g))

FairSpec == Spec /\ Fairness

-----------------------------------------------------------------------------
\* Two goroutines are never inside the VM, and the flag is set exactly while
\* one is.
MutualExclusion ==
  /\ owner <=> \E g \in Goroutines : At(g, "inside")
  /\ \A g, h \in Goroutines : At(g, "inside") /\ At(h, "inside") => g = h

\* A goroutine blocked in enterOwnerContext while the VM is free is never left
\* alone: a token is there, or is about to be sent, or somebody is about to
\* take the owner and will send one when it leaves.  The channel has room for
\* one token however many wait, and leaveOwner drops the rest.
NoStrandedWaiter ==
  ~owner /\ (\E g \in Goroutines : At(g, "select")) =>
     token > 0 \/ \E h \in Goroutines : At(h, "cas") \/ At(h, "try") \/ At(h, "send")

Holder == IF \E g \in Goroutines : At(g, "inside") THEN CHOOSE g \in Goroutines : At(g, "inside") ELSE Nobody

Abstract == INSTANCE VMOwner WITH holder <- Holder

\* The flag and the channel together are the lock of VMOwner: who is inside
\* changes only by one goroutine entering a free VM or the holder leaving it.
RefinesVMOwner == Abstract!Spec

\* As long as somebody is blocked in enterOwnerContext, the VM is entered again
\* and again.  (Not by everybody: the loop has no queue, so one waiter may be
\* overtaken for ever.)
SomebodyEnters ==
  (\E g \in Goroutines : At(g, "select")) ~>
     (owner \/ ~\E g \in Goroutines : At(g, "select"))

==============================================================================
