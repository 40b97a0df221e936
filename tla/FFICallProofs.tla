---------------------------- MODULE FFICallProofs ----------------------------
(***************************************************************************)
(* The result of an FFI call is disposed of exactly once, and its quota is *)
(* given back, for any number of calls, any sizes and any limits.          *)
(***************************************************************************)
EXTENDS FFICall, FiniteSetTheorems, TLAPS

\* The type without the quota counters, which the disposal of a result does not
\* depend on.
Types ==
  /\ state \in [Calls -> {"new", "refused", "waiting", "ready", "consumed", "canceled"}]
  /\ result \in [Calls -> Results]
  /\ host \in [Calls -> {"none", "established", "canceled"}]
  /\ vmpc \in {"idle", "reserved", "starting", "settled", "detached"}
  /\ cur \in Calls \cup {NoCall}
  /\ held.result \in Results
  /\ held.next \in {"consumed", "canceled"}
  /\ hpc \in [Calls -> {"none", "working", "relayed", "discard", "fail", "signal", "done"}]
  /\ delivered \subseteq Calls
  /\ discards \in [Calls -> Nat]

Settling == vmpc \in {"settled", "detached"}

\* What the VM works on, and in which state it is.
VMPart ==
  /\ (cur = NoCall) <=> (vmpc = "idle")
  /\ vmpc = "reserved" => state[cur] = "new"
  /\ vmpc = "starting" => state[cur] \in {"waiting", "ready"}
  /\ Settling => state[cur] = held.next
  /\ ~Settling => held.result = "none"

InCall(c) == result[c] \in Values
InVM(c)   == cur = c /\ held.result \in Values
Disposed(c) == c \in delivered \/ discards[c] > 0

\* A value is in one place at a time: with its host, in the call, with the VM
\* that settles the call, or disposed of.
OnePlace ==
  \A c \in Calls :
    /\ state[c] \in {"new", "refused"} => hpc[c] = "none"
    /\ result[c] # "none" => state[c] = "ready"
    /\ hpc[c] \notin {"signal", "done"} => ~InCall(c) /\ ~InVM(c) /\ ~Disposed(c)
    /\ InCall(c) \/ InVM(c) => ~Disposed(c)
    /\ discards[c] <= 1
    /\ c \in delivered => discards[c] = 0
    /\ hpc[c] \in {"signal", "done"} => InCall(c) \/ InVM(c) \/ Disposed(c)

\* Only the VM establishes or cancels a host call.
HostPart ==
  \A c \in Calls : state[c] = "canceled" /\ host[c] = "established" => cur = c /\ Settling

IInv == Types /\ VMPart /\ OnePlace /\ HostPart

LEMMA InitEstablishes == Init => IInv
<1> SUFFICES ASSUME Init PROVE IInv
  OBVIOUS
<1> USE CallsAssumption DEF Init
<1>1. Types
  BY DEF Types, NothingHeld, Results
<1>2. VMPart
  BY DEF VMPart, Settling, NothingHeld
<1>3. OnePlace
  BY DEF OnePlace, InCall, InVM, Disposed, NothingHeld, Values
<1>4. HostPart
  BY DEF HostPart
<1>5. QED
  BY <1>1, <1>2, <1>3, <1>4 DEF IInv

LEMMA StepKeeps == IInv /\ [Next]_vars => IInv'
<1> SUFFICES ASSUME IInv, [Next]_vars PROVE IInv'
  OBVIOUS
<1> USE CallsAssumption DEF IInv, Types, VMPart, OnePlace, HostPart, Settling, InCall, InVM, Disposed,
        Results, Values, call, quota, fate
<1>1. CASE UNCHANGED vars
  BY <1>1 DEF vars
<1>2. ASSUME NEW c \in Calls, NEW n \in Sizes, StartReserve(c, n) PROVE IInv'
  BY <1>2 DEF StartReserve
<1>3. CASE StartBoundary
  BY <1>3 DEF StartBoundary
<1>4. CASE StartReturn
  BY <1>4 DEF StartReturn
<1>5. CASE StartError
  BY <1>5 DEF StartError
<1>6. ASSUME NEW c \in Calls, NEW refused \in BOOLEAN, Take(c, refused) PROVE IInv'
  BY <1>6 DEF Take, SettleLock
<1>7. ASSUME NEW c \in Calls, Stop(c) PROVE IInv'
  BY <1>7 DEF Stop, SettleLock
<1>8. CASE SettleDetach
  BY <1>8 DEF SettleDetach
<1>9. CASE SettleFinish
  BY <1>9 DEF SettleFinish, NothingHeld
<1>10. ASSUME NEW c \in Calls, Relay(c) PROVE IInv'
  BY <1>10 DEF Relay
<1>11. ASSUME NEW c \in Calls, NEW n \in Sizes, NEW failed \in BOOLEAN, Complete(c, n, failed) PROVE IInv'
  BY <1>11 DEF Complete
<1>12. ASSUME NEW c \in Calls, HostDiscard(c) PROVE IInv'
  BY <1>12 DEF HostDiscard
<1>13. ASSUME NEW c \in Calls, Signal(c) PROVE IInv'
  BY <1>13 DEF Signal
<1>14. QED
  BY <1>1, <1>2, <1>3, <1>4, <1>5, <1>6, <1>7, <1>8, <1>9, <1>10, <1>11, <1>12, <1>13
     DEF Next, StartStep, SettleStep, HostStep

\* The strengthened invariant holds in every state.
LEMMA IInvHolds == Spec => []IInv
  BY InitEstablishes, StepKeeps, PTL DEF Spec

\* The value a host reports is never delivered and discarded, nor discarded
\* twice, however completion, take, stop and detach interleave.
THEOREM DisposedAtMostOnce == Spec => []AtMostOneDisposal
<1>1. IInv => AtMostOneDisposal
  BY DEF IInv, Types, OnePlace, AtMostOneDisposal
<1>2. QED
  BY <1>1, IInvHolds, PTL

\* Once the host is done and settle has ended the call, its value was delivered
\* or discarded: a late completion is not dropped.
THEOREM DisposedAtLeastOnce == Spec => []NoResultLost
<1>1. IInv => NoResultLost
  BY DEF IInv, Types, OnePlace, InCall, InVM, Disposed, Values, NoResultLost
<1>2. QED
  BY <1>1, IInvHolds, PTL

\* A stopped call cancels the host call that Start established.
THEOREM StoppedCallIsCanceled == Spec => []HostCallCanceled
<1>1. IInv => HostCallCanceled
  BY DEF IInv, HostPart, HostCallCanceled
<1>2. QED
  BY <1>1, IInvHolds, PTL

-----------------------------------------------------------------------------
\* The abstract disposal of one call, under the invariant.
LEMMA DisposalIs ==
  ASSUME IInv, NEW c \in Calls
  PROVE  Disposal[c] = IF c \in delivered THEN "delivered"
                       ELSE IF discards[c] = 1 THEN "discarded"
                       ELSE IF hpc[c] \in {"none", "working"} THEN "unreported" ELSE "held"
  BY DEF IInv, Types, OnePlace, Disposal

LEMMA DisposalIsNext ==
  ASSUME IInv', NEW c \in Calls
  PROVE  Disposal'[c] = IF c \in delivered' THEN "delivered"
                        ELSE IF discards'[c] = 1 THEN "discarded"
                        ELSE IF hpc'[c] \in {"none", "working"} THEN "unreported" ELSE "held"
  BY DEF IInv, Types, OnePlace, Disposal

\* A step that changes the disposal of c only, as function update.
LEMMA DisposalUpdate ==
  ASSUME NEW c \in Calls, NEW d, Disposal'[c] = d,
         \A b \in Calls \ {c} : Disposal'[b] = Disposal[b]
  PROVE  Disposal' = [Disposal EXCEPT ![c] = d]
<1>1. Disposal' = [b \in Calls |-> Disposal'[b]]
  BY DEF Disposal
<1>2. Disposal = [b \in Calls |-> Disposal[b]]
  BY DEF Disposal
<1>3. QED
  BY <1>1, <1>2

LEMMA DisposalSame ==
  ASSUME \A b \in Calls : Disposal'[b] = Disposal[b]
  PROVE  Disposal' = Disposal
<1>1. Disposal' = [b \in Calls |-> Disposal'[b]]
  BY DEF Disposal
<1>2. Disposal = [b \in Calls |-> Disposal[b]]
  BY DEF Disposal
<1>3. QED
  BY <1>1, <1>2

\* Each step reports, delivers or discards one value of the promise, or none.
LEMMA StepKeepsPromise == IInv /\ IInv' /\ [Next]_vars => [Promise!Next]_Disposal
<1> SUFFICES ASSUME IInv, IInv', [Next]_vars PROVE Promise!Next \/ Disposal' = Disposal
  OBVIOUS
<1>1. CASE UNCHANGED <<hpc, delivered, discards>>
  BY <1>1, DisposalIs, DisposalIsNext, DisposalSame
<1>2. CASE StartBoundary \/ StartError
  <2>1. \A b \in Calls : (hpc'[b] \in {"none", "working"}) = (hpc[b] \in {"none", "working"})
    BY <1>2, CallsAssumption DEF StartBoundary, StartError, IInv, Types, VMPart, OnePlace
  <2>2. UNCHANGED <<delivered, discards>>
    BY <1>2 DEF StartBoundary, StartError, fate
  <2>3. QED
    BY <2>1, <2>2, DisposalIs, DisposalIsNext, DisposalSame
<1>3. CASE SettleFinish
  <2>1. cur \in Calls /\ UNCHANGED hpc
    BY <1>3, CallsAssumption DEF SettleFinish, IInv, Types, VMPart
  <2>2. \A b \in Calls \ {cur} : Disposal'[b] = Disposal[b]
    BY <1>3, <2>1, DisposalIs, DisposalIsNext DEF SettleFinish, IInv, Types
  <2>3. CASE held.result \notin Values
    <3>1. UNCHANGED <<delivered, discards>>
      BY <1>3, <2>1, <2>3 DEF SettleFinish, IInv, Types
    <3>2. QED
      BY <3>1, <2>1, DisposalIs, DisposalIsNext, DisposalSame
  <2>4. CASE held.result \in Values
    <3>1. InVM(cur) /\ ~Disposed(cur) /\ hpc[cur] \in {"signal", "done"}
      BY <2>1, <2>4 DEF IInv, OnePlace, InVM
    <3>2. Disposal[cur] = "held"
      BY <2>1, <3>1, DisposalIs DEF Disposed, IInv, Types
    <3>3. Disposal'[cur] \in {"delivered", "discarded"}
      BY <1>3, <2>1, <2>4, <3>1, DisposalIsNext DEF SettleFinish, Disposed, IInv, Types
    <3>4. QED
      BY <2>1, <2>2, <3>2, <3>3, DisposalUpdate DEF Promise!Next, Promise!Deliver, Promise!Discard
  <2>5. QED
    BY <2>3, <2>4
<1>4. ASSUME NEW c \in Calls, Relay(c) PROVE Promise!Report(c)
  <2>1. UNCHANGED <<delivered, discards>> /\ hpc[c] = "working" /\ hpc'[c] \in {"relayed", "discard"}
        /\ \A b \in Calls \ {c} : hpc'[b] = hpc[b]
    BY <1>4 DEF Relay, fate, IInv, Types
  <2>2. Disposal[c] = "unreported" /\ Disposal'[c] = "held"
    BY <2>1, DisposalIs, DisposalIsNext DEF IInv, OnePlace, Disposed, Types
  <2>3. \A b \in Calls \ {c} : Disposal'[b] = Disposal[b]
    BY <2>1, DisposalIs, DisposalIsNext
  <2>4. QED
    BY <2>2, <2>3, DisposalUpdate DEF Promise!Report
<1>5. ASSUME NEW c \in Calls, HostDiscard(c) PROVE Promise!Discard(c)
  <2>1. /\ delivered' = delivered /\ c \notin delivered
        /\ discards[c] = 0 /\ discards'[c] = 1
        /\ hpc[c] \in {"discard", "fail"}
        /\ \A b \in Calls \ {c} : hpc'[b] = hpc[b] /\ discards'[b] = discards[b]
    BY <1>5 DEF HostDiscard, IInv, Types, OnePlace, Disposed
  <2>2. Disposal[c] = "held" /\ Disposal'[c] = "discarded"
    BY <2>1, DisposalIs, DisposalIsNext
  <2>3. \A b \in Calls \ {c} : Disposal'[b] = Disposal[b]
    BY <2>1, DisposalIs, DisposalIsNext
  <2>4. QED
    BY <2>2, <2>3, DisposalUpdate DEF Promise!Discard
<1>6. ASSUME NEW c \in Calls,
             Signal(c) \/ \E n \in Sizes, failed \in BOOLEAN : Complete(c, n, failed)
      PROVE  Disposal' = Disposal
  <2>1. /\ UNCHANGED <<delivered, discards>>
        /\ \A b \in Calls : (hpc'[b] \in {"none", "working"}) = (hpc[b] \in {"none", "working"})
    BY <1>6 DEF Signal, Complete, fate, IInv, Types
  <2>2. QED
    BY <2>1, DisposalIs, DisposalIsNext, DisposalSame
<1>7. CASE \/ UNCHANGED vars \/ StartReturn \/ SettleDetach
           \/ \E c \in Calls, n \in Sizes : StartReserve(c, n)
           \/ \E c \in Calls, refused \in BOOLEAN : Take(c, refused)
           \/ \E c \in Calls : Stop(c)
  BY <1>1, <1>7 DEF vars, StartReturn, SettleDetach, StartReserve, Take, Stop, fate
<1>8. QED
  BY <1>2, <1>3, <1>4, <1>5, <1>6, <1>7 DEF Next, StartStep, SettleStep, HostStep, Promise!Next

\* A pending FFI call implements the promise of Result.Discard.
THEOREM CallKeepsPromise == Spec => KeepsPromise
<1>1. Init => Promise!Init
  BY DEF Init, Promise!Init, Disposal
<1>2. QED
  BY <1>1, IInvHolds, StepKeepsPromise, PTL DEF Spec, Promise!Spec, KeepsPromise

-----------------------------------------------------------------------------
(* The quota.  pendingBoundaryBytes is a sum over the pending calls, stated *)
(* without one: the bytes a call occupies are the pairs <<c, 1>>, <<c, 2>>, *)
(* ..., and the counter is the number of the pairs of all calls.            *)

\* The byte counts calls may occupy, and the pairs they stand for.
Loads == [Calls -> 0..MaxBoundaryBytes]
Units(load) == {u \in Calls \X (1..MaxBoundaryBytes) : u[2] <= load[u[1]]}

LEMMA UnitsFinite ==
  ASSUME NEW load
  PROVE  IsFiniteSet(Units(load)) /\ Cardinality(Units(load)) \in Nat
<1>1. IsFiniteSet(1..MaxBoundaryBytes)
  BY FS_Interval, SizesAssumption
<1>2. IsFiniteSet(Calls \X (1..MaxBoundaryBytes))
  BY <1>1, FS_Product, CallsAssumption
<1>3. Units(load) \in SUBSET (Calls \X (1..MaxBoundaryBytes))
  BY DEF Units
<1>4. IsFiniteSet(Units(load))
  BY <1>2, <1>3, FS_Subset
<1>5. QED
  BY <1>4, FS_CardinalityType

\* n more bytes for one call are n more pairs.
LEMMA UnitsGrow ==
  ASSUME NEW load \in Loads, NEW c \in Calls, NEW n \in Nat, load[c] + n <= MaxBoundaryBytes
  PROVE  Cardinality(Units([load EXCEPT ![c] = @ + n])) = Cardinality(Units(load)) + n
<1> DEFINE more  == [load EXCEPT ![c] = @ + n]
           range == (load[c] + 1)..(load[c] + n)
           new   == {c} \X range
<1>1. load[c] \in Nat /\ MaxBoundaryBytes \in Nat
  BY SizesAssumption DEF Loads
<1>2. IsFiniteSet(range) /\ Cardinality(range) = n
  <2> DEFINE a == load[c] + 1
             b == load[c] + n
  <2>1. a \in Int /\ b \in Int
    BY <1>1
  <2>2. (IF a > b THEN 0 ELSE b - a + 1) = n
    BY <1>1
  <2> HIDE DEF a, b
  <2>3. IsFiniteSet(a..b) /\ Cardinality(a..b) = IF a > b THEN 0 ELSE b - a + 1
    BY <2>1, FS_Interval
  <2>4. QED
    BY <2>2, <2>3 DEF a, b
<1>3. IsFiniteSet({c}) /\ Cardinality({c}) = 1
  BY FS_Singleton
<1> HIDE DEF range
<1>4. IsFiniteSet(new) /\ Cardinality(new) = n
  <2>1. IsFiniteSet(new) /\ Cardinality(new) = Cardinality({c}) * Cardinality(range)
    BY <1>2, <1>3, FS_Product
  <2>2. 1 * n = n
    OBVIOUS
  <2>3. QED
    BY <2>1, <2>2, <1>2, <1>3
<1> USE DEF range
<1>5. Units(more) = Units(load) \cup new
  BY <1>1 DEF Units, Loads
<1>6. Units(load) \cap new = {}
  BY <1>1 DEF Units, Loads
<1>7. IsFiniteSet(Units(load)) /\ Cardinality(Units(load)) \in Nat
  BY UnitsFinite
<1>8. Cardinality(Units(load) \cap new) = 0
  BY <1>6, FS_EmptySet
<1> HIDE DEF range, new, more
<1>9. Cardinality(Units(load) \cup new) = Cardinality(Units(load)) + n - 0
  BY <1>4, <1>7, <1>8, FS_Union
<1>10. Cardinality(Units(more)) = Cardinality(Units(load)) + n
  BY <1>5, <1>7, <1>9
<1>11. QED
  BY <1>10 DEF more

\* A call that gives its bytes back.
LEMMA UnitsRelease ==
  ASSUME NEW load \in Loads, NEW c \in Calls
  PROVE  Cardinality(Units([load EXCEPT ![c] = 0])) = Cardinality(Units(load)) - load[c]
<1> DEFINE less == [load EXCEPT ![c] = 0]
<1>1. less \in Loads /\ load[c] \in Nat /\ less[c] + load[c] <= MaxBoundaryBytes
  BY SizesAssumption DEF Loads
<1>2. load = [less EXCEPT ![c] = @ + load[c]]
  <2>1. less[c] + load[c] = load[c]
    BY <1>1 DEF Loads
  <2>2. load = [less EXCEPT ![c] = load[c]]
    BY DEF Loads
  <2>3. QED
    BY <2>1, <2>2
<1>3. Cardinality(Units(less)) \in Nat
  BY UnitsFinite
<1> HIDE DEF less
<1>4. Cardinality(Units([less EXCEPT ![c] = @ + load[c]])) = Cardinality(Units(less)) + load[c]
  BY <1>1, UnitsGrow
<1>5. Cardinality(Units(load)) = Cardinality(Units(less)) + load[c]
  BY <1>2, <1>4
<1>6. QED
  BY <1>1, <1>3, <1>5 DEF less

\* No call occupies more than all of them.
LEMMA UnitsBound ==
  ASSUME NEW load \in Loads, NEW c \in Calls
  PROVE  load[c] <= Cardinality(Units(load))
<1>1. Cardinality(Units([load EXCEPT ![c] = 0])) \in Nat
  BY UnitsFinite
<1>2. load[c] \in Nat /\ Cardinality(Units(load)) \in Nat
  BY UnitsFinite, SizesAssumption DEF Loads
<1>3. QED
  BY <1>1, <1>2, UnitsRelease

\* The bytes a call occupies: settle takes them out of the call before it gives
\* them back.
Load == [c \in Calls |->
           IF cur = c /\ Settling THEN held.bytes
           ELSE IF c \in ffiCalls THEN bytes[c] ELSE 0]

\* vm.ffiCalls lists the calls that wait or are ready, and the one settled.
Listed ==
  \A c \in Calls :
    c \in ffiCalls <=> state[c] \in {"waiting", "ready"} \/ (cur = c /\ Settling)

EventsAgree ==
  /\ events = Cardinality(ffiCalls) + (IF vmpc = "reserved" THEN 1 ELSE 0)
  /\ events <= MaxPendingEvents

BytesAgree ==
  /\ vmpc = "reserved" => bytes[cur] <= MaxBoundaryBytes
  /\ Load \in Loads
  /\ boundary = Cardinality(Units(Load))
  /\ boundary <= MaxBoundaryBytes

QuotaInv == IInv /\ TypeOK /\ Listed /\ EventsAgree /\ BytesAgree

LEMMA QuotaInit == Init => QuotaInv
<1> SUFFICES ASSUME Init PROVE QuotaInv
  OBVIOUS
<1> USE SizesAssumption, CallsAssumption DEF Init
<1>1. TypeOK
  BY DEF TypeOK, Held, NothingHeld, Results
<1>2. Listed
  BY DEF Listed, Settling
<1>3. EventsAgree
  BY FS_EmptySet DEF EventsAgree
<1>4. BytesAgree
  <2>1. Load = [c \in Calls |-> 0]
    BY DEF Load, Settling
  <2>2. Load \in Loads
    BY <2>1 DEF Loads
  <2>3. Units(Load) = {}
    BY <2>1 DEF Units
  <2>4. QED
    BY <2>2, <2>3, FS_EmptySet DEF BytesAgree
<1>5. QED
  BY <1>1, <1>2, <1>3, <1>4, InitEstablishes DEF QuotaInv

\* What the bytes of a call depend on.
LEMMA LoadSame ==
  ASSUME \A b \in Calls : Load'[b] = Load[b]
  PROVE  Load' = Load
<1>1. Load' = [b \in Calls |-> Load'[b]]
  BY DEF Load
<1>2. Load = [b \in Calls |-> Load[b]]
  BY DEF Load
<1>3. QED
  BY <1>1, <1>2

LEMMA LoadUpdate ==
  ASSUME NEW c \in Calls, NEW n, Load'[c] = n,
         \A b \in Calls \ {c} : Load'[b] = Load[b]
  PROVE  Load' = [Load EXCEPT ![c] = n]
<1>1. Load' = [b \in Calls |-> Load'[b]]
  BY DEF Load
<1>2. Load = [b \in Calls |-> Load[b]]
  BY DEF Load
<1>3. QED
  BY <1>1, <1>2

\* A step that reserves n bytes for c, under the test of reserveBoundaryBytes.
LEMMA BytesReserved ==
  ASSUME BytesAgree, NEW c \in Calls, NEW n \in Nat, ~BoundaryFull(n),
         boundary' = boundary + n, Load' = [Load EXCEPT ![c] = @ + n],
         vmpc' = "reserved" => bytes'[cur'] <= MaxBoundaryBytes
  PROVE  BytesAgree'
<1>1. Load \in Loads /\ Load[c] \in Nat /\ Load[c] <= boundary /\ boundary \in Nat /\ MaxBoundaryBytes \in Nat
  BY UnitsBound, UnitsFinite, SizesAssumption DEF BytesAgree, Loads
<1>2. boundary + n <= MaxBoundaryBytes
  BY <1>1 DEF BytesAgree, BoundaryFull
<1>3. Load[c] + n <= MaxBoundaryBytes
  BY <1>1, <1>2
<1>4. Load' \in Loads
  BY <1>1, <1>3 DEF Loads
<1>5. Cardinality(Units(Load')) = Cardinality(Units(Load)) + n
  BY <1>1, <1>3, UnitsGrow
<1>6. Cardinality(Units(Load')) = boundary'
  BY <1>5 DEF BytesAgree
<1>7. QED
  BY <1>2, <1>4, <1>6 DEF BytesAgree, Units

LEMMA QuotaStep == QuotaInv /\ IInv' /\ [Next]_vars => QuotaInv'
<1> SUFFICES ASSUME QuotaInv, IInv', [Next]_vars PROVE QuotaInv'
  OBVIOUS
<1> USE SizesAssumption, CallsAssumption DEF call, quota, fate
<1>a. IInv /\ TypeOK /\ Listed /\ EventsAgree /\ BytesAgree
  BY DEF QuotaInv
<1>b. VMPart /\ OnePlace
  BY <1>a DEF IInv
<1>c. IsFiniteSet(ffiCalls) /\ Cardinality(ffiCalls) \in Nat
  BY <1>a, FS_Subset, FS_CardinalityType DEF TypeOK
\* Steps that change neither the counters nor what they count.
<1>d. ASSUME UNCHANGED quota, Load' = Load, vmpc' # "reserved", vmpc # "reserved", TypeOK', Listed'
      PROVE  QuotaInv'
  <2>1. EventsAgree'
    BY <1>a, <1>d DEF EventsAgree
  <2>2. BytesAgree'
    BY <1>a, <1>d DEF BytesAgree, Units
  <2>3. QED
    BY <1>d, <2>1, <2>2 DEF QuotaInv
<1>1. CASE UNCHANGED vars
  BY <1>a, <1>1 DEF vars, QuotaInv, TypeOK, Listed, EventsAgree, BytesAgree, Load, Settling, Units
<1>2. ASSUME NEW c \in Calls, NEW n \in Sizes, StartReserve(c, n) PROVE QuotaInv'
  <2>1. TypeOK'
    BY <1>a, <1>2 DEF StartReserve, TypeOK
  <2>2. Listed'
    BY <1>a, <1>b, <1>2 DEF StartReserve, TypeOK, Listed, Settling, VMPart
  <2>3. EventsAgree'
    BY <1>a, <1>c, <1>2 DEF StartReserve, TypeOK, EventsAgree
  <2>4. Load' = Load
    <3>1. \A b \in Calls : Load'[b] = Load[b]
      BY <1>a, <1>2 DEF StartReserve, TypeOK, Listed, Load, Settling
    <3>2. QED
      BY <3>1, LoadSame
  <2>5. BytesAgree'
    <3>1. vmpc' = "reserved" => bytes'[cur'] <= MaxBoundaryBytes
      BY <1>a, <1>2 DEF StartReserve, TypeOK
    <3>2. boundary' = boundary
      BY <1>2 DEF StartReserve
    <3>3. QED
      BY <1>a, <2>4, <3>1, <3>2 DEF BytesAgree, Units
  <2>6. QED
    BY <2>1, <2>2, <2>3, <2>5 DEF QuotaInv
<1>3. CASE StartBoundary
  <2>1. cur \in Calls /\ state[cur] = "new" /\ cur \notin ffiCalls /\ vmpc = "reserved"
    BY <1>a, <1>b, <1>3 DEF StartBoundary, VMPart, TypeOK, Listed, Settling
  <2>2. CASE BoundaryFull(bytes[cur])
    <3>1. TypeOK'
      BY <1>a, <1>c, <1>3, <2>1, <2>2 DEF StartBoundary, TypeOK, EventsAgree
    <3>2. Listed'
      BY <1>a, <1>3, <2>1, <2>2 DEF StartBoundary, TypeOK, Listed, Settling
    <3>3. EventsAgree'
      BY <1>a, <1>c, <1>3, <2>1, <2>2 DEF StartBoundary, TypeOK, EventsAgree
    <3>4. \A b \in Calls : Load'[b] = Load[b]
      BY <1>a, <1>3, <2>1, <2>2 DEF StartBoundary, TypeOK, Load, Settling
    <3>5. BytesAgree'
      BY <1>a, <1>3, <2>1, <2>2, <3>4, LoadSame DEF StartBoundary, BytesAgree, Units
    <3>6. QED
      BY <3>1, <3>2, <3>3, <3>5 DEF QuotaInv
  <2>3. CASE ~BoundaryFull(bytes[cur])
    <3>1. TypeOK'
      <4>1. boundary' \in Nat /\ ffiCalls' \subseteq Calls
        BY <1>a, <1>3, <2>1, <2>3 DEF StartBoundary, TypeOK
      <4>2. /\ state' = [state EXCEPT ![cur] = "waiting"]
            /\ relay' = [relay EXCEPT ![cur] = TRUE]
            /\ hpc' = [hpc EXCEPT ![cur] = "working"]
            /\ vmpc' = "starting"
            /\ UNCHANGED <<bytes, events, cur, result, host, held, fate>>
        BY <1>3, <2>3 DEF StartBoundary
      <4>3. QED
        BY <1>a, <2>1, <4>1, <4>2 DEF TypeOK
    <3>2. Listed'
      BY <1>a, <1>3, <2>1, <2>3 DEF StartBoundary, TypeOK, Listed, Settling
    <3>3. EventsAgree'
      <4>1. Cardinality(ffiCalls') = Cardinality(ffiCalls) + 1
        BY <1>c, <1>3, <2>1, <2>3, FS_AddElement DEF StartBoundary
      <4>2. QED
        BY <1>a, <1>c, <1>3, <2>1, <2>3, <4>1 DEF StartBoundary, EventsAgree
    <3>4. bytes[cur] \in Nat /\ Load[cur] = 0
      BY <1>a, <2>1 DEF TypeOK, Load, Settling
    <3>5. Load'[cur] = bytes[cur] /\ \A b \in Calls \ {cur} : Load'[b] = Load[b]
      BY <1>a, <1>3, <2>1, <2>3 DEF StartBoundary, TypeOK, Load, Settling
    <3>6. Load' = [Load EXCEPT ![cur] = bytes[cur]]
      BY <2>1, <3>5, LoadUpdate
    <3>7. Load' = [Load EXCEPT ![cur] = @ + bytes[cur]]
      <4>1. Load[cur] + bytes[cur] = bytes[cur]
        BY <3>4
      <4>2. QED
        BY <3>6, <4>1
    <3>8. BytesAgree'
      BY <1>a, <1>3, <2>1, <2>3, <3>4, <3>7, BytesReserved DEF StartBoundary
    <3>9. QED
      BY <3>1, <3>2, <3>3, <3>8 DEF QuotaInv
  <2>4. QED
    BY <2>2, <2>3
<1>4. CASE StartReturn \/ StartError \/ SettleDetach
  <2>1. TypeOK' /\ Listed'
    <3>1. CASE StartReturn
      BY <1>a, <1>b, <3>1 DEF StartReturn, TypeOK, Listed, Settling, VMPart
    <3>2. CASE StartError
      BY <1>a, <1>b, <3>2 DEF StartError, TypeOK, Listed, Settling, VMPart, Results
    <3>3. CASE SettleDetach
      BY <1>a, <1>b, <3>3 DEF SettleDetach, TypeOK, Listed, Settling, VMPart
    <3>4. QED
      BY <1>4, <3>1, <3>2, <3>3
  <2>2. \A b \in Calls : Load'[b] = Load[b]
    BY <1>a, <1>4 DEF StartReturn, StartError, SettleDetach, TypeOK, Load, Settling
  <2>3. UNCHANGED quota /\ vmpc # "reserved" /\ vmpc' # "reserved"
    BY <1>4 DEF StartReturn, StartError, SettleDetach
  <2>4. QED
    BY <2>1, <2>2, <2>3, <1>d, LoadSame
<1>5. ASSUME NEW c \in Calls, NEW next \in {"consumed", "canceled"}, NEW refused \in BOOLEAN,
             vmpc = "idle", c \in ffiCalls, SettleLock(c, next, refused),
             UNCHANGED <<relay, host, quota, hpc, fate>>
      PROVE  QuotaInv'
  <2>1. TypeOK'
    BY <1>a, <1>5 DEF SettleLock, TypeOK, Held, Results
  <2>2. Listed'
    BY <1>a, <1>5 DEF SettleLock, TypeOK, Listed, Settling
  <2>3. \A b \in Calls : Load'[b] = Load[b]
    BY <1>a, <1>5 DEF SettleLock, TypeOK, Load, Settling
  <2>4. QED
    BY <1>5, <1>d, <2>1, <2>2, <2>3, LoadSame DEF SettleLock
<1>6. ASSUME NEW c \in Calls, NEW refused \in BOOLEAN, Take(c, refused) PROVE QuotaInv'
  BY <1>a, <1>5, <1>6 DEF Take, Listed
<1>7. ASSUME NEW c \in Calls, Stop(c) PROVE QuotaInv'
  BY <1>5, <1>7 DEF Stop
<1>8. CASE SettleFinish
  <2>1. cur \in Calls /\ cur \in ffiCalls /\ Load[cur] = held.bytes /\ vmpc = "detached"
    BY <1>a, <1>b, <1>8 DEF SettleFinish, VMPart, TypeOK, Listed, Settling, Load
  <2>2. held.bytes \in Nat /\ boundary \in Nat /\ Load \in Loads /\ held.bytes <= boundary
    BY <1>a, <2>1, UnitsBound DEF TypeOK, Held, BytesAgree
  <2>3. Cardinality(ffiCalls') = Cardinality(ffiCalls) - 1
    BY <1>c, <1>8, <2>1, FS_RemoveElement DEF SettleFinish
  <2>4. Cardinality(ffiCalls) > 0
    BY <1>c, <2>1, FS_EmptySet
  <2>5. events' = events - 1 /\ events > 0 /\ events = Cardinality(ffiCalls)
    BY <1>a, <1>8, <1>c, <2>1, <2>4 DEF EventsAgree, SettleFinish
  <2>6. TypeOK'
    BY <1>a, <1>8, <2>1, <2>2, <2>5 DEF SettleFinish, TypeOK, NothingHeld, Held, Results
  <2>7. Listed'
    <3>1. state[cur] \notin {"waiting", "ready"}
      BY <1>a, <1>b, <2>1 DEF VMPart, Settling, TypeOK, Held
    <3>2. ffiCalls' = ffiCalls \ {cur} /\ state' = state /\ vmpc' = "idle"
      BY <1>8 DEF SettleFinish
    <3>3. QED
      BY <1>a, <3>1, <3>2 DEF Listed, Settling
  <2>8. EventsAgree'
    BY <1>a, <1>c, <1>8, <2>3, <2>5 DEF EventsAgree, SettleFinish
  <2>9. BytesAgree'
    <3>1. Load'[cur] = 0 /\ \A b \in Calls \ {cur} : Load'[b] = Load[b]
      BY <1>a, <1>8, <2>1 DEF SettleFinish, Load, Settling, TypeOK
    <3>2. Load' = [Load EXCEPT ![cur] = 0]
      BY <2>1, <3>1, LoadUpdate
    <3>3. Cardinality(Units(Load')) = Cardinality(Units(Load)) - held.bytes
      BY <2>1, <2>2, <3>2, UnitsRelease
    <3>4. Load' \in Loads
      <4>1. 0 \in 0..MaxBoundaryBytes
        OBVIOUS
      <4>2. [Load EXCEPT ![cur] = 0] \in Loads
        BY <2>2, <4>1 DEF Loads
      <4>3. QED
        BY <3>2, <4>2
    <3>5. boundary' = Cardinality(Units(Load')) /\ boundary' <= MaxBoundaryBytes /\ vmpc' = "idle"
      BY <1>a, <1>8, <2>2, <3>3 DEF SettleFinish, BytesAgree
    <3>6. QED
      BY <3>4, <3>5 DEF BytesAgree, Units
  <2>10. QED
    BY <2>6, <2>7, <2>8, <2>9 DEF QuotaInv
<1>9. ASSUME NEW c \in Calls, Relay(c) \/ HostDiscard(c) \/ Signal(c) PROVE QuotaInv'
  <2>1. TypeOK'
    BY <1>a, <1>9 DEF Relay, HostDiscard, Signal, TypeOK
  <2>2. UNCHANGED <<state, bytes, quota, vmpc, cur, held>>
    BY <1>9 DEF Relay, HostDiscard, Signal
  <2>3. QED
    BY <1>a, <2>1, <2>2 DEF QuotaInv, Listed, EventsAgree, BytesAgree, Load, Settling, Units
<1>10. ASSUME NEW c \in Calls, NEW n \in Sizes, NEW failed \in BOOLEAN, Complete(c, n, failed)
       PROVE  QuotaInv'
  <2>1. TypeOK'
    BY <1>a, <1>10 DEF Complete, TypeOK, Results
  <2>2. Listed'
    BY <1>a, <1>10 DEF Complete, TypeOK, Listed, Settling
  <2>3. EventsAgree'
    BY <1>a, <1>10 DEF Complete, EventsAgree
  <2>4. CASE UNCHANGED <<bytes, boundary>>
    <3>1. UNCHANGED <<bytes, boundary, ffiCalls, vmpc, cur, held>>
      BY <1>10, <2>4 DEF Complete
    <3>2. BytesAgree'
      BY <1>a, <3>1 DEF BytesAgree, Load, Settling, Units
    <3>3. QED
      BY <2>1, <2>2, <2>3, <3>2 DEF QuotaInv
  <2>5. CASE ~UNCHANGED <<bytes, boundary>>
    <3>1. /\ state[c] = "waiting" /\ ~BoundaryFull(n) /\ n \in Nat
          /\ boundary' = boundary + n
          /\ bytes' = [bytes EXCEPT ![c] = @ + n]
          /\ UNCHANGED <<ffiCalls, vmpc, cur, held>>
      BY <1>10, <2>5 DEF Complete
    <3>2. c \in ffiCalls /\ ~(cur = c /\ Settling)
      BY <1>a, <1>b, <3>1 DEF Listed, VMPart, TypeOK, Held
    <3>3. Load[c] = bytes[c] /\ bytes[c] \in Nat
      BY <1>a, <3>2 DEF Load, TypeOK
    <3>4. Load'[c] = bytes[c] + n /\ \A b \in Calls \ {c} : Load'[b] = Load[b]
      BY <1>a, <3>1, <3>2 DEF Load, Settling, TypeOK
    <3>5. Load' = [Load EXCEPT ![c] = bytes[c] + n]
      BY <3>4, LoadUpdate
    <3>6. Load' = [Load EXCEPT ![c] = @ + n]
      BY <3>3, <3>5
    <3>7. vmpc' = "reserved" => bytes'[cur'] <= MaxBoundaryBytes
      <4>1. vmpc = "reserved" => cur # c /\ cur \in Calls
        BY <1>a, <1>b, <3>1 DEF VMPart, TypeOK
      <4>2. QED
        BY <1>a, <3>1, <4>1 DEF BytesAgree, TypeOK
    <3>8. BytesAgree'
      BY <1>a, <3>1, <3>6, <3>7, BytesReserved
    <3>9. QED
      BY <2>1, <2>2, <2>3, <3>8 DEF QuotaInv
  <2>6. QED
    BY <2>4, <2>5
<1>11. QED
  BY <1>1, <1>2, <1>3, <1>4, <1>6, <1>7, <1>8, <1>9, <1>10 DEF Next, StartStep, SettleStep, HostStep

LEMMA QuotaInvHolds == Spec => []QuotaInv
<1>1. QuotaInv => IInv
  BY DEF QuotaInv
<1>2. QED
  BY <1>1, IInvHolds, QuotaInit, QuotaStep, PTL DEF Spec

\* The variables have their types: no counter drops below zero.
THEOREM FFICallTypes == Spec => []TypeOK
<1>1. QuotaInv => TypeOK
  BY DEF QuotaInv
<1>2. QED
  BY <1>1, QuotaInvHolds, PTL

\* pendingEvents counts the pending calls, pendingBoundaryBytes stays within
\* its limit although a response is added by a host goroutine, and both are
\* zero again when no call is left.
THEOREM QuotaGivenBack == Spec => []QuotaReturned
<1>1. ASSUME QuotaInv, ffiCalls = {}, vmpc = "idle" PROVE boundary = 0
  <2>1. Units(Load) = {}
    BY <1>1 DEF Units, Load, Settling
  <2>2. QED
    BY <1>1, <2>1, FS_EmptySet DEF QuotaInv, BytesAgree
<1>2. QuotaInv => QuotaReturned
  BY <1>1 DEF QuotaInv, EventsAgree, BytesAgree, QuotaReturned
<1>3. QED
  BY <1>2, QuotaInvHolds, PTL

==============================================================================
