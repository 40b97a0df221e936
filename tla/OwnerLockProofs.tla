--------------------------- MODULE OwnerLockProofs ---------------------------
(***************************************************************************)
(* The VM owner is a lock, for any number of goroutines.                   *)
(***************************************************************************)
EXTENDS OwnerLock, TLAPS

\* The induction needs the type, the flag tied to who is inside, and nothing
\* about the token; the token part is inductive on top of it.
IInv == TypeOK /\ MutualExclusion

LEMMA InitEstablishes == Init => IInv /\ NoStrandedWaiter
<1> SUFFICES ASSUME Init PROVE IInv /\ NoStrandedWaiter
  OBVIOUS
<1>1. TypeOK
  <2>1. ctxDone \in [Goroutines -> BOOLEAN] /\ owner \in BOOLEAN
    BY Zenon DEF Init
  <2>2. token \in 0..1 /\ pc \in [Goroutines -> Locations]
    BY DEF Init, Locations
  <2>3. QED
    BY <2>1, <2>2 DEF TypeOK
<1>2. \A g \in Goroutines : pc[g] = "outside"
  BY DEF Init
<1>3. MutualExclusion /\ NoStrandedWaiter
  BY <1>2 DEF Init, MutualExclusion, NoStrandedWaiter, At
<1>4. QED
  BY <1>1, <1>3 DEF IInv

\* Every step keeps the type and the exclusion.
LEMMA StepKeepsExclusion == IInv /\ [Next]_vars => IInv'
<1> SUFFICES ASSUME IInv, [Next]_vars PROVE IInv'
  OBVIOUS
<1> USE DEF IInv, TypeOK, MutualExclusion, Locations, At, GoTo
<1>1. CASE UNCHANGED vars
  BY <1>1 DEF vars
<1>2. ASSUME NEW g \in Goroutines, Begin(g) PROVE IInv'
  BY <1>2 DEF Begin
<1>3. ASSUME NEW g \in Goroutines, Enter(g) PROVE IInv'
  BY <1>3 DEF Enter
<1>4. ASSUME NEW g \in Goroutines, Busy(g) PROVE IInv'
  BY <1>4 DEF Busy
<1>5. ASSUME NEW g \in Goroutines, Block(g) PROVE IInv'
  BY <1>5 DEF Block
<1>6. ASSUME NEW g \in Goroutines, Woken(g) PROVE IInv'
  BY <1>6 DEF Woken
<1>7. ASSUME NEW g \in Goroutines, GiveUp(g) PROVE IInv'
  BY <1>7 DEF GiveUp
<1>8. ASSUME NEW g \in Goroutines, ContextEnds(g) PROVE IInv'
  BY <1>8 DEF ContextEnds
<1>9. ASSUME NEW g \in Goroutines, Leave(g) PROVE IInv'
  BY <1>9 DEF Leave
<1>10. ASSUME NEW g \in Goroutines, Send(g) PROVE IInv'
  BY <1>10 DEF Send
<1>11. QED
  BY <1>1, <1>2, <1>3, <1>4, <1>5, <1>6, <1>7, <1>8, <1>9, <1>10 DEF Next, Step

\* Every step keeps a free VM's waiters accompanied.
LEMMA StepKeepsCompany == IInv /\ NoStrandedWaiter /\ [Next]_vars => NoStrandedWaiter'
<1> SUFFICES ASSUME IInv, NoStrandedWaiter, [Next]_vars PROVE NoStrandedWaiter'
  OBVIOUS
<1> USE DEF IInv, TypeOK, MutualExclusion, NoStrandedWaiter, Locations, At, GoTo
<1>1. CASE UNCHANGED vars
  BY <1>1 DEF vars
<1>2. ASSUME NEW g \in Goroutines, Begin(g) PROVE NoStrandedWaiter'
  BY <1>2 DEF Begin
<1>3. ASSUME NEW g \in Goroutines, Enter(g) PROVE NoStrandedWaiter'
  BY <1>3 DEF Enter
<1>4. ASSUME NEW g \in Goroutines, Busy(g) PROVE NoStrandedWaiter'
  BY <1>4 DEF Busy
<1>5. ASSUME NEW g \in Goroutines, Block(g) PROVE NoStrandedWaiter'
  BY <1>5 DEF Block
<1>6. ASSUME NEW g \in Goroutines, Woken(g) PROVE NoStrandedWaiter'
  BY <1>6 DEF Woken
<1>7. ASSUME NEW g \in Goroutines, GiveUp(g) PROVE NoStrandedWaiter'
  BY <1>7 DEF GiveUp
<1>8. ASSUME NEW g \in Goroutines, ContextEnds(g) PROVE NoStrandedWaiter'
  BY <1>8 DEF ContextEnds
<1>9. ASSUME NEW g \in Goroutines, Leave(g) PROVE NoStrandedWaiter'
  BY <1>9 DEF Leave
<1>10. ASSUME NEW g \in Goroutines, Send(g) PROVE NoStrandedWaiter'
  BY <1>10 DEF Send
<1>11. QED
  BY <1>1, <1>2, <1>3, <1>4, <1>5, <1>6, <1>7, <1>8, <1>9, <1>10 DEF Next, Step

\* However many goroutines call enterOwner and enterOwnerContext, no two are
\* inside the VM, and vm.owner is set exactly while one is.
THEOREM OwnerExcludes == Spec => [](TypeOK /\ MutualExclusion)
<1>1. IInv /\ [Next]_vars => IInv'
  BY StepKeepsExclusion
<1>2. QED
  BY <1>1, InitEstablishes, PTL DEF Spec, IInv

\* One token is enough for any number of waiters: whenever the VM is free and
\* somebody is blocked in enterOwnerContext, a wake-up is there or on its way.
THEOREM OwnerWakesWaiters == Spec => []NoStrandedWaiter
<1>1. Spec => []IInv
  BY StepKeepsExclusion, InitEstablishes, PTL DEF Spec
<1>2. QED
  BY <1>1, StepKeepsCompany, InitEstablishes, PTL DEF Spec

-----------------------------------------------------------------------------
\* Where one goroutine only is inside, it is the one Holder chooses.
LEMMA TheOneInside ==
  ASSUME NEW f, NEW g \in Goroutines, f[g] = "inside",
         \A h, k \in Goroutines : f[h] = "inside" /\ f[k] = "inside" => h = k
  PROVE  (CHOOSE h \in Goroutines : f[h] = "inside") = g
  OBVIOUS

\* The holder of the abstract lock, before and after a step.
LEMMA HolderIs ==
  ASSUME IInv, NEW g \in Goroutines, At(g, "inside") PROVE owner /\ Holder = g
  BY TheOneInside DEF IInv, MutualExclusion, Holder, At

LEMMA HolderIsNext ==
  ASSUME IInv', NEW g \in Goroutines, At(g, "inside")' PROVE owner' /\ Holder' = g
  BY TheOneInside DEF IInv, MutualExclusion, Holder, At

\* A step that leaves the flag and everybody inside where they are stutters.
LEMMA HolderStutters ==
  ASSUME IInv, IInv', owner' = owner,
         \A h \in Goroutines : At(h, "inside") => At(h, "inside")'
  PROVE  UNCHANGED Holder
<1>1. CASE ~owner
  BY <1>1 DEF IInv, MutualExclusion, Holder
<1>2. CASE owner
  <2>1. PICK h \in Goroutines : At(h, "inside")
    BY <1>2 DEF IInv, MutualExclusion
  <2>2. QED
    BY <2>1, HolderIs, HolderIsNext
<1>3. QED
  BY <1>1, <1>2

\* Each step of the flag and the channel is a step of the abstract lock or
\* leaves its holder alone.
LEMMA StepRefines == IInv /\ IInv' /\ [Next]_vars => [Abstract!Next]_Holder
<1> SUFFICES ASSUME IInv, IInv', [Next]_vars PROVE [Abstract!Next]_Holder
  OBVIOUS
<1>1. CASE UNCHANGED vars
  BY <1>1 DEF vars, Holder, At
<1>2. ASSUME NEW g \in Goroutines, Enter(g) PROVE Abstract!Acquire(g)
  <2>1. At(g, "inside")'
    BY <1>2 DEF Enter, At, GoTo, IInv, TypeOK
  <2>2. Holder = Nobody
    BY <1>2 DEF Enter, IInv, MutualExclusion, Holder
  <2>3. QED
    BY <2>1, <2>2, HolderIsNext DEF Abstract!Acquire
<1>3. ASSUME NEW g \in Goroutines, Leave(g) PROVE Abstract!Release(g)
  <2>1. At(g, "inside")
    BY <1>3 DEF Leave
  <2>2. Holder' = Nobody
    BY <1>3 DEF Leave, IInv, MutualExclusion, Holder
  <2>3. QED
    BY <2>1, <2>2, HolderIs DEF Abstract!Release
<1>4. ASSUME NEW g \in Goroutines,
             Begin(g) \/ Busy(g) \/ Block(g) \/ Woken(g) \/ GiveUp(g) \/ ContextEnds(g) \/ Send(g)
      PROVE  UNCHANGED Holder
  <2>1. owner' = owner /\ \A h \in Goroutines : At(h, "inside") => At(h, "inside")'
    BY <1>4 DEF Begin, Busy, Block, Woken, GiveUp, ContextEnds, Send, At, GoTo, IInv, TypeOK
  <2>2. QED
    BY <2>1, HolderStutters
<1>5. QED
  BY <1>1, <1>2, <1>3, <1>4 DEF Next, Step, Abstract!Next

\* The flag and the channel of vm.go implement the lock Instance.tla relies on.
THEOREM OwnerImplementsLock == Spec => RefinesVMOwner
<1>1. Init => Abstract!Init
  BY DEF Init, Abstract!Init, Holder, At
<1>2. Spec => []IInv
  BY StepKeepsExclusion, InitEstablishes, PTL DEF Spec
<1>3. QED
  BY <1>1, <1>2, StepRefines, PTL DEF Spec, Abstract!Spec, RefinesVMOwner

==============================================================================
