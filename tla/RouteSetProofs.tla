--------------------------- MODULE RouteSetProofs ---------------------------
(***************************************************************************)
(* Proofs about RouteSet: that it implements RouteSpec, and that the       *)
(* resources of an accepted result belong to somebody.                     *)
(***************************************************************************)
EXTENDS RouteSet, FiniteSetTheorems, TLAPS

-----------------------------------------------------------------------------
(***************************************************************************)
(* The inductive invariant.                                                *)
(***************************************************************************)
CallRecord == [pc : CallPcs, borrows : SUBSET Resources, dropping : Resources \cup {None}]

ResultRecord ==
  [pc : ResultPcs, objects : SUBSET Resources, accepted : BOOLEAN, done : BOOLEAN,
   failed : BOOLEAN, delivered : BOOLEAN, abandoned : BOOLEAN, cleaned : BOOLEAN]

CleanerPcs == {"none", "begin", "wait", "results", "release", "lease", "end"}

Types ==
  /\ state \in {"open", "draining", "cleaning", "closed"}
  /\ calls \in Nat
  /\ lease \in BOOLEAN
  /\ res \in [Resources -> Resource]
  /\ order \in Seq(Resources)
  /\ provisional \in [Calls -> SUBSET Resources]
  /\ owners \subseteq Calls
  /\ call \in [Calls -> CallRecord]
  /\ result \in [Calls -> ResultRecord]
  /\ waiting \in [Calls -> SUBSET Consumers]
  /\ left \in [Calls -> SUBSET (Consumers \X {"nil", "error"})]
  /\ release \in [Executors -> Seq(Resources)]
  /\ cleaner \in [pc : CleanerPcs, results : SUBSET Calls]
  /\ scenario \in Scenarios

(***************************************************************************)
(* The counters.  Cleanup waits for the WaitGroup, so its counter must be  *)
(* the number of what it is waiting for; the closer of a resource waits    *)
(* for its borrowers.                                                      *)
(***************************************************************************)
Active == {"handler", "dropping", "ok", "failed", "releasing", "leave"}
ActiveCalls == {c \in Calls : call[c].pc \in Active}
Drops == {r \in Resources : res[r].by = Drop /\ res[r].stage \in {"wait", "close"}}
Abandoning == {c \in Calls : result[c].pc = "abandoning"}

Counted == calls = Cardinality(ActiveCalls) + Cardinality(Drops) + Cardinality(Abandoning)

Borrowers(r) == {c \in Calls : r \in call[c].borrows}

Borrowed ==
  /\ \A r \in Resources : res[r].borrowed = Cardinality(Borrowers(r))
  /\ \A c \in Calls : call[c].borrows # {} => call[c].pc \in {"handler", "dropping"}

(***************************************************************************)
(* The resources.  An attempt to close one is that of the executor whose   *)
(* list it heads, or a Drop's; and one that is held is in a list of        *)
(* somebody who will release it.                                           *)
(***************************************************************************)
Attempt(r) ==
  /\ res[r].st \in {"none", "held", "closed"}
  /\ res[r].st = "none" => ~res[r].active /\ res[r].stage = "none"
  /\ res[r].stage \in {"wait", "close", "failed"} => res[r].st = "held"
  /\ res[r].stage = "await" => res[r].st = "closed"
  /\ res[r].by \in Executors => /\ res[r].stage \in {"wait", "close"}
                                /\ release[res[r].by] # <<>>
                                /\ Head(release[res[r].by]) = r
  /\ res[r].stage \in {"wait", "close"} => res[r].by # None

Listed(r) == \E e \in Executors : r \in ToSet(release[e])
Expected(r) == r \in ToSet(order) \/ \E c \in Calls : r \in provisional[c]

Kept(r) == res[r].st = "held" => Listed(r) \/ (AcceptsResourceCalls /\ Expected(r))

Attempts == \A r \in Resources : Attempt(r)
AllKept == \A r \in Resources : Kept(r)

(***************************************************************************)
(* The executors, the decisions and the cleanup.                           *)
(***************************************************************************)
Executing ==
  /\ \A c \in Calls : release[<<"call", c>>] # <<>> => call[c].pc = "releasing"
  /\ \A c \in Calls : release[<<"result", c>>] # <<>> => result[c].pc \in {"releasing", "abandoning"}
  /\ release[<<"cleaner">>] # <<>> => cleaner.pc \in {"begin", "wait", "results", "release"}

Undone == {"none", "provider", "finish", "releasing", "settle"}

\* a result is registered from its publication until its decision has settled
Registered(c) ==
  /\ c \in owners => result[c].pc \in Undone /\ provisional[c] \subseteq result[c].objects
  /\ result[c].pc \in Undone \ {"none"} => c \in owners
  /\ c \in owners \/ result[c].pc # "none" => call[c].pc \in {"leave", "finalize", "end"}
  /\ result[c].done <=> result[c].pc \in {"abandoned", "abandoning", "finalizing", "end"}

AllRegistered == \A c \in Calls : Registered(c)

Cleaning ==
  /\ state \in {"open", "draining"} <=> cleaner.pc = "none"
  /\ state = "closed" <=> cleaner.pc = "end"
  /\ lease <=> cleaner.pc \notin {"lease", "end"}
  /\ cleaner.pc \in {"results", "release", "lease", "end"} => calls = 0 /\ owners \subseteq cleaner.results
  /\ cleaner.pc \in {"release", "lease", "end"} => cleaner.results = {}
  /\ cleaner.pc \in {"lease", "end"} => Held = {}
  /\ \A c \in cleaner.results : c \in owners \/ result[c].pc # "none"

KInv == Types /\ Counted /\ Borrowed /\ Attempts /\ AllKept /\ Executing /\ AllRegistered /\ Cleaning

(***************************************************************************)
(* What becomes of a result.                                               *)
(***************************************************************************)
Of(c) == provisional[c] \cup result[c].objects

\* a resource comes with one result only
Exported ==
  /\ \A c, d \in Calls : c # d => Of(c) \cap Of(d) = {}
  /\ \A c \in Calls : \A r \in Of(c) : res[r].st # "none"

Told(c) == \E x \in left[c] : x[2] = "nil"

Decision(c) ==
  /\ result[c].pc = "none" => waiting[c] = {} /\ ~result[c].abandoned
  /\ Told(c) <=> result[c].delivered
  /\ result[c].delivered => result[c].done
  /\ result[c].cleaned => result[c].accepted /\ result[c].abandoned /\ result[c].done
  /\ result[c].accepted /\ result[c].abandoned => waiting[c] = {} /\ ~result[c].delivered
  /\ result[c].accepted =>
       \/ waiting[c] # {}
       \/ result[c].abandoned
       \/ result[c].delivered
       \/ result[c].done /\ result[c].failed
  /\ result[c].done /\ result[c].accepted /\ result[c].abandoned /\ ~result[c].failed => result[c].cleaned
  /\ result[c].pc \in {"abandoned", "abandoning", "finalizing"} => result[c].cleaned

\* an object of a result that was not activated, or is never live again
Unused(r) == ~res[r].active
Gone(r) == res[r].st # "held" \/ res[r].stage # "none"

Outcome(c) ==
  /\ \A r \in provisional[c] : Unused(r)
  /\ \/ result[c].pc \in Undone \ {"settle"}
     \/ result[c].failed /\ ~result[c].cleaned
     => \A r \in result[c].objects : Unused(r)
  /\ result[c].pc = "settle" => ~result[c].failed
  /\ result[c].pc = "abandoning" =>
       \A r \in result[c].objects : Gone(r) \/ r \in ToSet(release[<<"result", c>>])
  /\ result[c].pc = "finalizing" \/ (result[c].pc = "end" /\ result[c].cleaned) =>
       \A r \in result[c].objects : Gone(r) \/ ~AcceptsResourceCalls

OInv == Exported /\ (\A c \in Calls : Decision(c)) /\ (\A c \in Calls : Outcome(c))

RInv == KInv /\ OInv


-----------------------------------------------------------------------------
(***************************************************************************)
(* Sequences and counts.                                                   *)
(***************************************************************************)
\* Two executors differ in their kind or in their call.
LEMMA ExecutorsDiffer ==
  /\ \A c \in Calls : <<"call", c>> \in Executors /\ <<"result", c>> \in Executors
  /\ <<"cleaner">> \in Executors
  /\ \A c, d \in Calls : <<"call", c>> # <<"result", d>>
  /\ \A c, d \in Calls : c # d => <<"call", c>> # <<"call", d>> /\ <<"result", c>> # <<"result", d>>
  /\ \A c \in Calls : <<"call", c>> # <<"cleaner">> /\ <<"result", c>> # <<"cleaner">>
  /\ Drop \notin Executors /\ None \notin Executors /\ Drop # None
  /\ \A e \in Executors : \/ \E c \in Calls : e = <<"call", c>> \/ e = <<"result", c>>
                          \/ e = <<"cleaner">>
  /\ \A e \in Executors : e[1] = "result" => e[2] \in Calls /\ e = <<"result", e[2]>>
<1>1. \A c \in Calls : /\ <<"call", c>> \in Executors /\ <<"result", c>> \in Executors
                       /\ <<"call", c>>[1] = "call" /\ <<"result", c>>[1] = "result"
                       /\ <<"call", c>>[2] = c /\ <<"result", c>>[2] = c
  BY DEF Executors
<1>2. <<"cleaner">> \in Executors /\ <<"cleaner">>[1] = "cleaner"
  BY DEF Executors
<1>3. \A e \in Executors : \/ \E c \in Calls : e = <<"call", c>> \/ e = <<"result", c>>
                           \/ e = <<"cleaner">>
  BY DEF Executors
<1>4. Drop[1] = "drop" /\ None[1] = "none"
  BY DEF Drop, None
<1>5. \A e \in Executors : e[1] \in {"call", "result", "cleaner"}
  BY <1>1, <1>2, <1>3
<1>6. \A e \in Executors : e[1] = "result" => e[2] \in Calls /\ e = <<"result", e[2]>>
  BY <1>1, <1>2, <1>3
<1>7. Drop \notin Executors /\ None \notin Executors /\ Drop # None
  BY <1>4, <1>5
<1>8. \A c, d \in Calls : /\ <<"call", c>> # <<"result", d>>
                          /\ c # d => <<"call", c>> # <<"call", d>> /\ <<"result", c>> # <<"result", d>>
                          /\ <<"call", c>> # <<"cleaner">> /\ <<"result", c>> # <<"cleaner">>
  BY <1>1, <1>2
<1>9. QED
  BY <1>1, <1>2, <1>3, <1>6, <1>7, <1>8

\* What a sequence holds is its head and what its tail holds.
LEMMA HeadAndTail ==
  ASSUME NEW s \in Seq(Resources), s # <<>>
  PROVE  /\ Head(s) \in Resources /\ Tail(s) \in Seq(Resources)
         /\ ToSet(s) = {Head(s)} \cup ToSet(Tail(s))
<1>1. /\ Head(s) \in Resources /\ Tail(s) \in Seq(Resources) /\ Len(s) \in Nat \ {0}
      /\ Len(Tail(s)) = Len(s) - 1 /\ Head(s) = s[1]
      /\ \A i \in 1..Len(s) - 1 : Tail(s)[i] = s[i + 1]
  OBVIOUS
<1>2. ToSet(s) \subseteq {Head(s)} \cup ToSet(Tail(s))
  <2>1. SUFFICES ASSUME NEW i \in 1..Len(s), i # 1
                 PROVE  s[i] \in ToSet(Tail(s))
    BY <1>1 DEF ToSet
  <2>2. i - 1 \in 1..Len(s) - 1 /\ Tail(s)[i - 1] = s[i]
    BY <1>1, <2>1
  <2>3. i - 1 \in DOMAIN Tail(s)
    BY <1>1, <2>2
  <2>4. QED
    BY <2>2, <2>3 DEF ToSet
<1>3. {Head(s)} \cup ToSet(Tail(s)) \subseteq ToSet(s)
  BY <1>1 DEF ToSet
<1>4. QED
  BY <1>1, <1>2, <1>3

LEMMA ToSetConcat ==
  ASSUME NEW s \in Seq(Resources), NEW t \in Seq(Resources)
  PROVE  s \o t \in Seq(Resources) /\ ToSet(s \o t) = ToSet(s) \cup ToSet(t)
<1>1. /\ s \o t \in Seq(Resources) /\ Len(s) \in Nat /\ Len(t) \in Nat
      /\ Len(s \o t) = Len(s) + Len(t)
      /\ \A i \in 1..Len(s) + Len(t) : (s \o t)[i] = IF i <= Len(s) THEN s[i] ELSE t[i - Len(s)]
  OBVIOUS
<1>2. ToSet(s \o t) \subseteq ToSet(s) \cup ToSet(t)
  <2>1. SUFFICES ASSUME NEW i \in 1..Len(s) + Len(t)
                 PROVE  (s \o t)[i] \in ToSet(s) \cup ToSet(t)
    BY <1>1 DEF ToSet
  <2>2. CASE i <= Len(s)
    BY <1>1, <2>2 DEF ToSet
  <2>3. CASE i > Len(s)
    <3>1. i - Len(s) \in 1..Len(t) /\ (s \o t)[i] = t[i - Len(s)]
      BY <1>1, <2>3
    <3>2. QED
      BY <3>1 DEF ToSet
  <2>4. QED
    BY <1>1, <2>2, <2>3
<1>3. ToSet(s) \subseteq ToSet(s \o t)
  BY <1>1 DEF ToSet
<1>4. ToSet(t) \subseteq ToSet(s \o t)
  <2>1. SUFFICES ASSUME NEW x \in ToSet(t) PROVE x \in ToSet(s \o t)
    OBVIOUS
  <2>2. PICK i \in 1..Len(t) : x = t[i]
    BY <1>1, <2>1 DEF ToSet
  <2>3. Len(s) + i \in 1..Len(s) + Len(t) /\ (s \o t)[Len(s) + i] = t[i]
    BY <1>1, <2>2
  <2>4. DOMAIN (s \o t) = 1..Len(s) + Len(t)
    BY <1>1
  <2>5. QED
    BY <2>2, <2>3, <2>4 DEF ToSet
<1>5. QED
  BY <1>1, <1>2, <1>3, <1>4

LEMMA ToSetAppend ==
  ASSUME NEW s \in Seq(Resources), NEW r \in Resources
  PROVE  Append(s, r) \in Seq(Resources) /\ ToSet(Append(s, r)) = ToSet(s) \cup {r}
<1>1. /\ Append(s, r) \in Seq(Resources) /\ Len(s) \in Nat /\ Len(Append(s, r)) = Len(s) + 1
      /\ \A i \in 1..Len(s) : Append(s, r)[i] = s[i]
      /\ Append(s, r)[Len(s) + 1] = r
  OBVIOUS
<1>2. 1..Len(s) + 1 = 1..Len(s) \cup {Len(s) + 1}
  BY <1>1
<1>3. QED
  BY <1>1, <1>2 DEF ToSet

LEMMA ToSetReverse ==
  ASSUME NEW s \in Seq(Resources)
  PROVE  Reverse(s) \in Seq(Resources) /\ ToSet(Reverse(s)) = ToSet(s)
<1>1. /\ Len(s) \in Nat /\ DOMAIN Reverse(s) = 1..Len(s)
      /\ \A i \in 1..Len(s) : /\ Reverse(s)[i] = s[Len(s) - i + 1]
                              /\ Len(s) - i + 1 \in 1..Len(s)
                              /\ Len(s) - (Len(s) - i + 1) + 1 = i
      /\ \A i \in 1..Len(s) : s[i] \in Resources
  BY DEF Reverse
<1>2. Reverse(s) \in [1..Len(s) -> Resources]
  BY <1>1 DEF Reverse
<1>3. Reverse(s) \in Seq(Resources)
  BY <1>1, <1>2
<1>4. \A i \in 1..Len(s) : s[i] = Reverse(s)[Len(s) - i + 1]
  BY <1>1
<1>5. QED
  BY <1>1, <1>3, <1>4 DEF ToSet

\* Removing one occurrence takes nothing else away, and adds nothing.
LEMMA ToSetRemoveFirst ==
  ASSUME NEW s \in Seq(Resources), NEW r \in Resources
  PROVE  /\ RemoveFirst(s, r) \in Seq(Resources)
         /\ ToSet(s) \ {r} \subseteq ToSet(RemoveFirst(s, r))
<1>1. Len(s) \in Nat
  OBVIOUS
<1>2. CASE \E i \in 1..Len(s) : s[i] = r
  <2>1. PICK n \in 1..Len(s) : n = SelectInSeq(s, LAMBDA v : v = r) /\ s[n] = r
    <3> DEFINE I == {i \in 1..Len(s) : s[i] = r}
    <3>1. I # {} /\ I \subseteq Nat
      BY <1>1, <1>2
    <3>2. \E x \in I : \A y \in I : ~(<<y, x>> \in OpToRel(<, Nat))
      BY <3>1, WFMin, NatLessThanWellFounded
    <3>3. \E x \in I : \A y \in I : x <= y
      <4>1. \A x, y \in Nat : y < x => <<y, x>> \in OpToRel(<, Nat)
        BY DEF OpToRel
      <4>2. \A x, y \in Nat : ~(y < x) => x <= y
        OBVIOUS
      <4>3. QED
        BY <3>1, <3>2, <4>1, <4>2
    <3>4. Min(I) \in I
      BY <3>3 DEF Min
    <3>5. SelectInSeq(s, LAMBDA v : v = r) = Min(I)
      BY <3>1 DEF SelectInSeq
    <3>6. QED
      BY <3>4, <3>5
  <2>2. RemoveFirst(s, r) = SubSeq(s, 1, n - 1) \o SubSeq(s, n + 1, Len(s))
    BY <1>2, <2>1 DEF RemoveFirst, RemoveAt
  <2>3. /\ SubSeq(s, 1, n - 1) \in Seq(Resources) /\ SubSeq(s, n + 1, Len(s)) \in Seq(Resources)
        /\ Len(SubSeq(s, 1, n - 1)) = n - 1 /\ Len(SubSeq(s, n + 1, Len(s))) = Len(s) - n
        /\ \A i \in 1..n - 1 : SubSeq(s, 1, n - 1)[i] = s[i]
        /\ \A i \in 1..Len(s) - n : SubSeq(s, n + 1, Len(s))[i] = s[n + i]
    BY <1>1
  <2>4. ASSUME NEW i \in 1..Len(s), s[i] # r
        PROVE  s[i] \in ToSet(SubSeq(s, 1, n - 1)) \cup ToSet(SubSeq(s, n + 1, Len(s)))
    <3>1. CASE i < n
      <4>1. i \in 1..n - 1 /\ i \in DOMAIN SubSeq(s, 1, n - 1)
        BY <1>1, <2>3, <3>1
      <4>2. QED
        BY <2>3, <4>1 DEF ToSet
    <3>2. CASE i > n
      <4>1. i - n \in 1..Len(s) - n /\ SubSeq(s, n + 1, Len(s))[i - n] = s[i]
        BY <1>1, <2>3, <3>2
      <4>2. i - n \in DOMAIN SubSeq(s, n + 1, Len(s))
        BY <2>3, <4>1
      <4>3. QED
        BY <4>1, <4>2 DEF ToSet
    <3>3. QED
      BY <1>1, <2>1, <2>4, <3>1, <3>2
  <2>5. /\ RemoveFirst(s, r) \in Seq(Resources)
        /\ ToSet(RemoveFirst(s, r)) = ToSet(SubSeq(s, 1, n - 1)) \cup ToSet(SubSeq(s, n + 1, Len(s)))
    BY <2>2, <2>3, ToSetConcat
  <2>6. ToSet(s) = {s[i] : i \in 1..Len(s)}
    BY DEF ToSet
  <2>7. QED
    BY <2>4, <2>5, <2>6
<1>3. CASE ~\E i \in 1..Len(s) : s[i] = r
  BY <1>3 DEF RemoveFirst
<1>4. QED
  BY <1>2, <1>3

\* The sequences of a set of resources hold its elements.
LEMMA ToSetSequence ==
  ASSUME NEW S \in SUBSET Resources, NEW s \in SetToSeqs(S)
  PROVE  s \in Seq(Resources) /\ ToSet(s) = S
<1>1. IsFiniteSet(S)
  BY RouteSetAssumption, FS_Subset
<1>2. s \in Injection(1..Cardinality(S), S)
  BY DEF SetToSeqs, Injection, IsInjective
<1>3. Cardinality(S) \in Nat
  BY <1>1, FS_CardinalityType
<1>4. IsFiniteSet(1..Cardinality(S)) /\ Cardinality(1..Cardinality(S)) = Cardinality(S)
  BY <1>3, FS_Interval
<1>5. s \in Surjection(1..Cardinality(S), S)
  BY <1>1, <1>2, <1>4, FS_Injection
<1>6. /\ s \in [1..Cardinality(S) -> Resources]
      /\ \A x \in S : \E i \in 1..Cardinality(S) : s[i] = x
      /\ \A i \in 1..Cardinality(S) : s[i] \in S
  BY <1>2, <1>5 DEF Surjection, Injection
<1>7. s \in Seq(Resources) /\ DOMAIN s = 1..Cardinality(S)
  BY <1>3, <1>6
<1>8. QED
  BY <1>6, <1>7 DEF ToSet


-----------------------------------------------------------------------------
(***************************************************************************)
(* What a step does not disturb.                                           *)
(***************************************************************************)
LEMMA CountsAreFinite ==
  /\ IsFiniteSet(ActiveCalls) /\ Cardinality(ActiveCalls) \in Nat
  /\ IsFiniteSet(Drops) /\ Cardinality(Drops) \in Nat
  /\ IsFiniteSet(Abandoning) /\ Cardinality(Abandoning) \in Nat
  /\ \A r : IsFiniteSet(Borrowers(r)) /\ Cardinality(Borrowers(r)) \in Nat
<1>1. ActiveCalls \subseteq Calls /\ Drops \subseteq Resources /\ Abandoning \subseteq Calls
  BY DEF ActiveCalls, Drops, Abandoning
<1>2. \A r : Borrowers(r) \subseteq Calls
  BY DEF Borrowers
<1>3. \A S : S \subseteq Calls \/ S \subseteq Resources => IsFiniteSet(S)
  BY RouteSetAssumption, FS_Subset
<1>4. \A S : IsFiniteSet(S) => Cardinality(S) \in Nat
  BY FS_CardinalityType
<1>5. QED
  BY <1>1, <1>2, <1>3, <1>4

LEMMA CountsArePrimedFinite ==
  /\ IsFiniteSet(ActiveCalls') /\ Cardinality(ActiveCalls') \in Nat
  /\ IsFiniteSet(Drops') /\ Cardinality(Drops') \in Nat
  /\ IsFiniteSet(Abandoning') /\ Cardinality(Abandoning') \in Nat
<1>1. ActiveCalls' \subseteq Calls /\ Drops' \subseteq Resources /\ Abandoning' \subseteq Calls
  BY DEF ActiveCalls, Drops, Abandoning
<1>2. \A S : S \subseteq Calls \/ S \subseteq Resources => IsFiniteSet(S)
  BY RouteSetAssumption, FS_Subset
<1>3. \A S : IsFiniteSet(S) => Cardinality(S) \in Nat
  BY FS_CardinalityType
<1>4. QED
  BY <1>1, <1>2, <1>3

LEMMA OneMore ==
  ASSUME NEW S, NEW x, IsFiniteSet(S), x \notin S
  PROVE  Cardinality(S \cup {x}) = Cardinality(S) + 1
  BY FS_AddElement

LEMMA OneLess ==
  ASSUME NEW S, NEW x, IsFiniteSet(S), x \in S
  PROVE  Cardinality(S \ {x}) = Cardinality(S) - 1
  BY FS_RemoveElement

\* While calls are counted none of the counted sets has a member unseen.
LEMMA NothingCounted ==
  ASSUME Counted, calls = 0
  PROVE  ActiveCalls = {} /\ Drops = {} /\ Abandoning = {}
<1>1. Cardinality(ActiveCalls) = 0 /\ Cardinality(Drops) = 0 /\ Cardinality(Abandoning) = 0
  BY CountsAreFinite DEF Counted
<1>2. QED
  BY <1>1, CountsAreFinite, FS_EmptySet

\* Each part is kept by a step that leaves its variables alone.
LEMMA Frames ==
  ASSUME RInv
  PROVE  /\ UNCHANGED <<calls, call, res, result>> => Counted'
         /\ UNCHANGED <<res, call>> => Borrowed'
         /\ UNCHANGED <<res, release>> => Attempts'
         /\ UNCHANGED <<res, release, order, provisional, state>> => AllKept'
         /\ UNCHANGED <<release, call, result, cleaner>> => Executing'
         /\ UNCHANGED <<owners, provisional, result, call>> => AllRegistered'
         /\ UNCHANGED <<state, cleaner, lease, calls, owners, res, result>> => Cleaning'
         /\ UNCHANGED <<provisional, result, res>> => Exported'
         /\ UNCHANGED <<result, waiting, left>> => \A c \in Calls : Decision(c)'
         /\ UNCHANGED <<provisional, res, result, release, state>> => \A c \in Calls : Outcome(c)'
<1>1. UNCHANGED <<calls, call, res, result>> => Counted'
  BY DEF RInv, KInv, Counted, ActiveCalls, Drops, Abandoning
<1>2. UNCHANGED <<res, call>> => Borrowed'
  BY DEF RInv, KInv, Borrowed, Borrowers
<1>3. UNCHANGED <<res, release>> => Attempts'
  BY DEF RInv, KInv, Attempts, Attempt
<1>4. UNCHANGED <<res, release, order, provisional, state>> => AllKept'
  BY DEF RInv, KInv, AllKept, Kept, Listed, Expected, AcceptsResourceCalls
<1>5. UNCHANGED <<release, call, result, cleaner>> => Executing'
  BY DEF RInv, KInv, Executing
<1>6. UNCHANGED <<owners, provisional, result, call>> => AllRegistered'
  BY DEF RInv, KInv, AllRegistered, Registered
<1>7. UNCHANGED <<state, cleaner, lease, calls, owners, res, result>> => Cleaning'
  BY DEF RInv, KInv, Cleaning, Held
<1>8. UNCHANGED <<provisional, result, res>> => Exported'
  BY DEF RInv, OInv, Exported, Of
<1>9. UNCHANGED <<result, waiting, left>> => \A c \in Calls : Decision(c)'
  BY DEF RInv, OInv, Decision, Told
<1>10. UNCHANGED <<provisional, res, result, release, state>> => \A c \in Calls : Outcome(c)'
  BY DEF RInv, OInv, Outcome, Unused, Gone, AcceptsResourceCalls
<1>11. QED
  BY <1>1, <1>2, <1>3, <1>4, <1>5, <1>6, <1>7, <1>8, <1>9, <1>10

\* The parts together.
LEMMA Together ==
  ASSUME Types', Counted', Borrowed', Attempts', AllKept', Executing', AllRegistered', Cleaning',
         Exported', \A c \in Calls : Decision(c)', \A c \in Calls : Outcome(c)'
  PROVE  RInv'
  BY DEF RInv, KInv, OInv

(***************************************************************************)
(* Records.                                                                *)
(***************************************************************************)
\* call c is at p with these borrows, and the other calls are where they were
CallAt(c, p, b) ==
  /\ call' \in [Calls -> CallRecord]
  /\ call'[c].pc = p /\ call'[c].borrows = b
  /\ \A d \in Calls : d # c => call'[d] = call[d]

LEMMA CallMoves ==
  ASSUME Types, NEW c \in Calls, NEW p \in CallPcs, call' = [call EXCEPT ![c].pc = p]
  PROVE  CallAt(c, p, call[c].borrows)
  BY DEF Types, CallRecord, CallAt

LEMMA CallDrops ==
  ASSUME Types, NEW c \in Calls, NEW p \in CallPcs, NEW d \in Resources \cup {None},
         call' = [call EXCEPT ![c].pc = p, ![c].dropping = d]
  PROVE  CallAt(c, p, call[c].borrows)
<1>1. call \in [Calls -> CallRecord] /\ call[c] \in CallRecord
  BY DEF Types
<1>2. PICK new : new = [call[c] EXCEPT !.pc = p, !.dropping = d]
  OBVIOUS
<1>3. new \in CallRecord /\ new.pc = p /\ new.borrows = call[c].borrows
  BY <1>1, <1>2 DEF CallRecord
<1>4. call' = [call EXCEPT ![c] = new]
  BY <1>1, <1>2
<1>5. QED
  BY <1>1, <1>3, <1>4 DEF CallAt

LEMMA CallRestarts ==
  ASSUME Types, NEW c \in Calls, NEW p \in CallPcs,
         call' = [call EXCEPT ![c] = [NoCall EXCEPT !.pc = p]]
  PROVE  CallAt(c, p, {})
  BY DEF Types, CallRecord, CallAt, NoCall

\* What the call's move does to the set of those the WaitGroup counts.
LEMMA CallCounts ==
  ASSUME NEW c \in Calls, NEW p, NEW b, CallAt(c, p, b)
  PROVE  /\ p \in Active /\ call[c].pc \in Active => ActiveCalls' = ActiveCalls
         /\ p \notin Active /\ call[c].pc \notin Active => ActiveCalls' = ActiveCalls
         /\ p \in Active /\ call[c].pc \notin Active =>
              c \notin ActiveCalls /\ ActiveCalls' = ActiveCalls \cup {c}
         /\ p \notin Active /\ call[c].pc \in Active =>
              c \in ActiveCalls /\ ActiveCalls' = ActiveCalls \ {c}
  BY DEF CallAt, ActiveCalls

\* result c has a new pc and is otherwise as it was, and so are the others
OnlyPc(c, p) ==
  /\ result' \in [Calls -> ResultRecord]
  /\ result'[c].pc = p
  /\ result'[c].objects = result[c].objects
  /\ result'[c].accepted = result[c].accepted /\ result'[c].done = result[c].done
  /\ result'[c].failed = result[c].failed /\ result'[c].delivered = result[c].delivered
  /\ result'[c].abandoned = result[c].abandoned /\ result'[c].cleaned = result[c].cleaned
  /\ \A d \in Calls : d # c => result'[d] = result[d]

LEMMA ResultMoves ==
  ASSUME Types, NEW c \in Calls, NEW p \in ResultPcs, result' = [result EXCEPT ![c].pc = p]
  PROVE  OnlyPc(c, p)
  BY DEF Types, ResultRecord, OnlyPc

\* only the count of borrowers changes
OnlyBorrows ==
  /\ res' \in [Resources -> Resource]
  /\ \A r \in Resources : /\ res'[r].st = res[r].st /\ res'[r].active = res[r].active
                          /\ res'[r].stage = res[r].stage /\ res'[r].by = res[r].by

LEMMA BorrowFrames ==
  ASSUME RInv, OnlyBorrows
  PROVE  /\ Drops' = Drops /\ Held' = Held
         /\ UNCHANGED release => Attempts'
         /\ UNCHANGED <<release, order, provisional, state>> => AllKept'
         /\ UNCHANGED <<provisional, result>> => Exported'
         /\ UNCHANGED <<provisional, result, release, state>> => \A c \in Calls : Outcome(c)'
<1>1. Drops' = Drops /\ Held' = Held
  BY DEF OnlyBorrows, Drops, Held
<1>2. UNCHANGED release => Attempts'
  BY DEF OnlyBorrows, RInv, KInv, Attempts, Attempt
<1>3. UNCHANGED <<release, order, provisional, state>> => AllKept'
  BY DEF OnlyBorrows, RInv, KInv, AllKept, Kept, Listed, Expected, AcceptsResourceCalls
<1>4. UNCHANGED <<provisional, result>> => Exported'
  <2>1. SUFFICES ASSUME UNCHANGED <<provisional, result>> PROVE Exported'
    OBVIOUS
  <2>2. \A c \in Calls : Of(c)' = Of(c) /\ Of(c) \subseteq Resources
    BY <2>1 DEF Of, RInv, KInv, Types, ResultRecord
  <2>3. QED
    BY <2>2 DEF OnlyBorrows, RInv, OInv, Exported
<1>5. UNCHANGED <<provisional, result, release, state>> => \A c \in Calls : Outcome(c)'
  <2>1. SUFFICES ASSUME UNCHANGED <<provisional, result, release, state>>, NEW c \in Calls
                 PROVE  Outcome(c)'
    OBVIOUS
  <2>2. /\ \A r \in Resources : (Unused(r)' <=> Unused(r)) /\ (Gone(r)' <=> Gone(r))
        /\ AcceptsResourceCalls' <=> AcceptsResourceCalls
    BY <2>1 DEF OnlyBorrows, Unused, Gone, AcceptsResourceCalls
  <2>3. provisional[c] \subseteq Resources /\ result[c].objects \subseteq Resources
    BY DEF RInv, KInv, Types, ResultRecord
  <2>4. QED
    BY <2>1, <2>2, <2>3 DEF RInv, OInv, Outcome
<1>6. QED
  BY <1>1, <1>2, <1>3, <1>4, <1>5


-----------------------------------------------------------------------------
(***************************************************************************)
(* The steps of a call.                                                    *)
(***************************************************************************)
LEMMA CallBeginKeeps ==
  ASSUME RInv, UNCHANGED scenario, NEW c \in Calls, NEW onResource \in BOOLEAN,
         NEW rs \in SUBSET Resources, CallBegin(c, onResource, rs)
  PROVE  RInv'
<1>0. Types
  BY DEF RInv, KInv
<1>1. /\ call[c].pc = "idle" /\ calls' = calls + 1
      /\ call' = [call EXCEPT ![c] = [NoCall EXCEPT !.pc = "handler", !.borrows = rs]]
      /\ res' = [r \in Resources |-> IF r \in rs THEN [res[r] EXCEPT !.borrowed = @ + 1] ELSE res[r]]
      /\ UNCHANGED <<order, provisional, owners, release, result, waiting, left, state, cleaner, lease>>
  BY DEF CallBegin, decisions, ending
<1>2. state \in {"open", "draining"}
  BY DEF CallBegin, AcceptsResourceCalls
<1>3. CallAt(c, "handler", rs)
  BY <1>0, <1>1 DEF CallAt, Types, CallRecord, CallPcs, NoCall
<1>4. /\ OnlyBorrows
      /\ \A r \in Resources : res'[r].borrowed = IF r \in rs THEN res[r].borrowed + 1 ELSE res[r].borrowed
  <2>1. ASSUME NEW r \in Resources
        PROVE  /\ res'[r] \in Resource
               /\ res'[r].st = res[r].st /\ res'[r].active = res[r].active
               /\ res'[r].stage = res[r].stage /\ res'[r].by = res[r].by
               /\ res'[r].borrowed = IF r \in rs THEN res[r].borrowed + 1 ELSE res[r].borrowed
    <3>1. res[r] \in Resource /\ res'[r] = IF r \in rs THEN [res[r] EXCEPT !.borrowed = @ + 1] ELSE res[r]
      BY <1>0, <1>1 DEF Types
    <3>2. QED
      BY <3>1 DEF Resource
  <2>2. res' \in [Resources -> Resource]
    BY <1>1, <2>1
  <2>3. QED
    BY <2>1, <2>2 DEF OnlyBorrows
<1>5. Types'
  BY <1>0, <1>1, <1>3, <1>4 DEF Types, CallAt, OnlyBorrows
<1>6. Counted'
  <2>1. Drops' = Drops /\ Abandoning' = Abandoning
    BY <1>1, <1>4, BorrowFrames DEF Abandoning
  <2>2. c \notin ActiveCalls /\ ActiveCalls' = ActiveCalls \cup {c}
    BY <1>1, <1>3, CallCounts DEF Active
  <2>3. Cardinality(ActiveCalls') = Cardinality(ActiveCalls) + 1
    BY <2>2, CountsAreFinite, OneMore
  <2>4. QED
    BY <1>1, <2>1, <2>3, CountsAreFinite DEF RInv, KInv, Counted
<1>7. Borrowed'
  <2>1. call[c].borrows = {}
    BY <1>1 DEF RInv, KInv, Borrowed
  <2>2. ASSUME NEW r \in Resources
        PROVE  res'[r].borrowed = Cardinality(Borrowers(r)')
    <3>1. res[r].borrowed = Cardinality(Borrowers(r))
      BY DEF RInv, KInv, Borrowed
    <3>2. CASE r \in rs
      <4>1. c \notin Borrowers(r) /\ Borrowers(r)' = Borrowers(r) \cup {c}
        BY <1>3, <2>1, <3>2 DEF CallAt, Borrowers
      <4>2. Cardinality(Borrowers(r)') = Cardinality(Borrowers(r)) + 1
        BY <4>1, CountsAreFinite, OneMore
      <4>3. QED
        BY <1>4, <3>1, <3>2, <4>2
    <3>3. CASE r \notin rs
      <4>1. Borrowers(r)' = Borrowers(r)
        BY <1>3, <2>1, <3>3 DEF CallAt, Borrowers
      <4>2. QED
        BY <1>4, <3>1, <3>3, <4>1
    <3>4. QED
      BY <3>2, <3>3
  <2>3. \A d \in Calls : call'[d].borrows # {} => call'[d].pc \in {"handler", "dropping"}
    BY <1>3 DEF CallAt, RInv, KInv, Borrowed
  <2>4. QED
    BY <2>2, <2>3 DEF Borrowed
<1>8. Executing'
  BY <1>1, <1>3 DEF CallAt, RInv, KInv, Executing
<1>9. AllRegistered'
  BY <1>1, <1>3 DEF CallAt, RInv, KInv, AllRegistered, Registered
<1>10. Cleaning'
  <2>1. Held' = Held
    BY <1>4, BorrowFrames
  <2>2. QED
    BY <1>1, <1>2, <2>1 DEF RInv, KInv, Cleaning
<1>11. Attempts' /\ AllKept' /\ Exported' /\ \A d \in Calls : Outcome(d)'
  BY <1>1, <1>4, BorrowFrames
<1>12. \A d \in Calls : Decision(d)'
  BY <1>1, Frames
<1>13. QED
  BY <1>5, <1>6, <1>7, <1>8, <1>9, <1>10, <1>11, <1>12, Together

\* The handler's borrows end with it.
LEMMA HandlerReturnKeeps ==
  ASSUME RInv, UNCHANGED scenario, NEW c \in Calls, NEW ok \in BOOLEAN, HandlerReturn(c, ok)
  PROVE  RInv'
<1>0. Types
  BY DEF RInv, KInv
<1>1. PICK p \in {"ok", "failed"} :
        /\ call[c].pc = "handler"
        /\ call' = [call EXCEPT ![c] = [NoCall EXCEPT !.pc = p]]
        /\ res' = [r \in Resources |-> IF r \in call[c].borrows THEN [res[r] EXCEPT !.borrowed = @ - 1]
                                                                ELSE res[r]]
        /\ UNCHANGED <<calls, order, provisional, owners, release, result, waiting, left, state,
                       cleaner, lease>>
  BY DEF HandlerReturn, counters, decisions, ending
<1>2. CallAt(c, p, {})
  BY <1>0, <1>1, CallRestarts DEF CallPcs
<1>3. ASSUME NEW r \in Resources
      PROVE  /\ res[r].borrowed = Cardinality(Borrowers(r)) /\ res[r].borrowed \in Nat
             /\ r \in call[c].borrows =>
                  c \in Borrowers(r) /\ Cardinality(Borrowers(r) \ {c}) = Cardinality(Borrowers(r)) - 1
  <2>1. r \in call[c].borrows => c \in Borrowers(r)
    BY DEF Borrowers
  <2>2. QED
    BY <2>1, CountsAreFinite, OneLess DEF RInv, KInv, Borrowed
<1>4. \A r \in Resources : r \in call[c].borrows => res[r].borrowed - 1 \in Nat
  <2>1. \A r \in Resources : r \in call[c].borrows => Cardinality(Borrowers(r)) # 0
    BY <1>3, CountsAreFinite, FS_EmptySet
  <2>2. \A n \in Nat : n # 0 => n - 1 \in Nat
    OBVIOUS
  <2>3. QED
    BY <1>3, <2>1, <2>2
<1>5. /\ OnlyBorrows
      /\ \A r \in Resources :
           res'[r].borrowed = IF r \in call[c].borrows THEN res[r].borrowed - 1 ELSE res[r].borrowed
  <2>1. ASSUME NEW r \in Resources
        PROVE  /\ res'[r] \in Resource
               /\ res'[r].borrowed = IF r \in call[c].borrows THEN res[r].borrowed - 1 ELSE res[r].borrowed
               /\ res'[r].st = res[r].st /\ res'[r].active = res[r].active
               /\ res'[r].stage = res[r].stage /\ res'[r].by = res[r].by
    <3>1. res[r] \in Resource
      BY <1>0 DEF Types
    <3>2. res'[r] = IF r \in call[c].borrows THEN [res[r] EXCEPT !.borrowed = @ - 1] ELSE res[r]
      BY <1>1
    <3>3. CASE r \in call[c].borrows
      <4>1. PICK n \in Nat : n = res[r].borrowed - 1
        BY <1>4, <3>3
      <4>2. res'[r] = [res[r] EXCEPT !.borrowed = n]
        BY <3>2, <3>3, <4>1
      <4>3. QED
        BY <3>1, <3>3, <4>1, <4>2 DEF Resource
    <3>4. CASE r \notin call[c].borrows
      BY <3>1, <3>2, <3>4
    <3>5. QED
      BY <3>3, <3>4
  <2>2. QED
    BY <1>1, <2>1 DEF OnlyBorrows
<1>6. Types'
  BY <1>0, <1>1, <1>2, <1>5 DEF Types, CallAt, OnlyBorrows
<1>7. Counted'
  <2>1. Drops' = Drops /\ Abandoning' = Abandoning
    BY <1>1, <1>5, BorrowFrames DEF Abandoning
  <2>2. ActiveCalls' = ActiveCalls
    BY <1>1, <1>2, CallCounts DEF Active
  <2>3. QED
    BY <1>1, <2>1, <2>2 DEF RInv, KInv, Counted
<1>8. Borrowed'
  <2>1. ASSUME NEW r \in Resources
        PROVE  res'[r].borrowed = Cardinality(Borrowers(r)')
    <3>1. Borrowers(r)' = IF r \in call[c].borrows THEN Borrowers(r) \ {c} ELSE Borrowers(r)
      BY <1>2 DEF CallAt, Borrowers
    <3>2. QED
      BY <1>3, <1>5, <3>1
  <2>2. \A d \in Calls : call'[d].borrows # {} => call'[d].pc \in {"handler", "dropping"}
    BY <1>2 DEF CallAt, RInv, KInv, Borrowed
  <2>3. QED
    BY <2>1, <2>2 DEF Borrowed
<1>9. Executing'
  BY <1>1, <1>2 DEF CallAt, RInv, KInv, Executing
<1>10. AllRegistered'
  BY <1>1, <1>2 DEF CallAt, RInv, KInv, AllRegistered, Registered
<1>11. Cleaning'
  <2>1. Held' = Held
    BY <1>5, BorrowFrames
  <2>2. QED
    BY <1>1, <2>1 DEF RInv, KInv, Cleaning
<1>12. Attempts' /\ AllKept' /\ Exported' /\ \A d \in Calls : Outcome(d)'
  BY <1>1, <1>5, BorrowFrames
<1>13. \A d \in Calls : Decision(d)'
  BY <1>1, Frames
<1>14. QED
  BY <1>6, <1>7, <1>8, <1>9, <1>10, <1>11, <1>12, <1>13, Together

\* An exported resource is expected by the call that exports it.
LEMMA ExportKeeps ==
  ASSUME RInv, UNCHANGED scenario, NEW c \in Calls, NEW r \in Resources, Export(c, r)
  PROVE  RInv'
<1>0. Types
  BY DEF RInv, KInv
<1>1. /\ call[c].pc = "handler" /\ AcceptsResourceCalls /\ res[r].st = "none"
      /\ res' = [res EXCEPT ![r].st = "held"]
      /\ provisional' = [provisional EXCEPT ![c] = @ \cup {r}]
      /\ UNCHANGED <<calls, order, owners, call, release, result, waiting, left, state, cleaner, lease>>
  BY DEF Export, counters, decisions, ending
<1>2. /\ res' \in [Resources -> Resource]
      /\ res'[r].st = "held" /\ res'[r].active = res[r].active /\ res'[r].borrowed = res[r].borrowed
      /\ res'[r].stage = res[r].stage /\ res'[r].by = res[r].by
      /\ \A q \in Resources : q # r => res'[q] = res[q]
  BY <1>0, <1>1 DEF Types, Resource
<1>3. /\ provisional' \in [Calls -> SUBSET Resources]
      /\ provisional'[c] = provisional[c] \cup {r}
      /\ \A d \in Calls : d # c => provisional'[d] = provisional[d]
  BY <1>0, <1>1 DEF Types
<1>4. Attempt(r) /\ ~res[r].active /\ res[r].stage = "none"
  BY <1>1 DEF RInv, KInv, Attempts, Attempt
<1>5. Types'
  BY <1>0, <1>1, <1>2, <1>3 DEF Types
<1>6. Counted'
  <2>1. Drops' = Drops /\ ActiveCalls' = ActiveCalls /\ Abandoning' = Abandoning
    BY <1>1, <1>2 DEF Drops, ActiveCalls, Abandoning
  <2>2. QED
    BY <1>1, <2>1 DEF RInv, KInv, Counted
<1>7. Borrowed'
  <2>1. \A q \in Resources : Borrowers(q)' = Borrowers(q) /\ res'[q].borrowed = res[q].borrowed
    BY <1>1, <1>2 DEF Borrowers
  <2>2. QED
    BY <1>1, <2>1 DEF RInv, KInv, Borrowed
<1>8. Attempts'
  <2>1. Attempt(r)'
    BY <1>1, <1>2, <1>4, ExecutorsDiffer DEF Attempt
  <2>2. \A q \in Resources : q # r => Attempt(q)'
    BY <1>1, <1>2 DEF RInv, KInv, Attempts, Attempt
  <2>3. QED
    BY <2>1, <2>2 DEF Attempts
<1>9. AllKept'
  <2>1. Kept(r)'
    BY <1>1, <1>3 DEF Kept, Expected, AcceptsResourceCalls
  <2>2. \A q \in Resources : q # r => Kept(q)'
    BY <1>1, <1>2, <1>3 DEF RInv, KInv, AllKept, Kept, Listed, Expected, AcceptsResourceCalls
  <2>3. QED
    BY <2>1, <2>2 DEF AllKept
<1>10. Executing' /\ AllRegistered' /\ \A d \in Calls : Decision(d)'
  <2>1. c \notin owners
    BY <1>1 DEF RInv, KInv, AllRegistered, Registered
  <2>2. AllRegistered'
    BY <1>1, <1>3, <2>1 DEF RInv, KInv, AllRegistered, Registered
  <2>3. QED
    BY <1>1, <2>2, Frames
<1>11. Cleaning'
  BY <1>1 DEF RInv, KInv, Cleaning, AcceptsResourceCalls
<1>12. Exported'
  <2>1. /\ Of(c)' = Of(c) \cup {r} /\ \A d \in Calls : d # c => Of(d)' = Of(d)
        /\ \A d \in Calls : r \notin Of(d) /\ Of(d) \subseteq Resources
    BY <1>0, <1>1, <1>3 DEF Of, Types, ResultRecord, RInv, OInv, Exported
  <2>2. QED
    BY <1>2, <2>1 DEF RInv, OInv, Exported
<1>13. \A d \in Calls : Outcome(d)'
  <2>1. ASSUME NEW d \in Calls PROVE Outcome(d)'
    <3>1. r \notin result[d].objects /\ result[d].objects \subseteq Resources /\ provisional[d] \subseteq Resources
      BY <1>0, <1>1 DEF Types, ResultRecord, RInv, OInv, Exported, Of
    <3>2. \A q \in Resources : q # r => (Unused(q)' <=> Unused(q)) /\ (Gone(q)' <=> Gone(q))
      BY <1>2 DEF Unused, Gone
    <3>3. Unused(r)'
      BY <1>2, <1>4 DEF Unused
    <3>4. Outcome(d)
      BY DEF RInv, OInv
    <3>5. \A q \in provisional'[d] : Unused(q)'
      BY <1>3, <3>1, <3>2, <3>3, <3>4 DEF Outcome
    <3>6. QED
      BY <1>1, <3>1, <3>2, <3>4, <3>5 DEF Outcome, AcceptsResourceCalls
  <2>2. QED
    BY <2>1
<1>14. QED
  BY <1>5, <1>6, <1>7, <1>8, <1>9, <1>10, <1>11, <1>12, <1>13, Together


\* finalizeIfIdle starts the cleanup at most once, when nothing is held.
LEMMA FinalizeFrames ==
  ASSUME RInv, Finalize
  PROVE  /\ state' \in {"open", "draining", "cleaning", "closed"}
         /\ cleaner' \in [pc : CleanerPcs, results : SUBSET Calls] /\ lease' = lease
         /\ AcceptsResourceCalls' => AcceptsResourceCalls
         /\ UNCHANGED <<release, order, provisional>> /\ Held' = Held => AllKept'
         /\ release' = release /\ (\A c \in Calls : /\ (call[c].pc = "releasing") => (call'[c].pc = "releasing")
                                                   /\ result'[c].pc = result[c].pc) => Executing'
         /\ /\ UNCHANGED <<calls, owners>> /\ Held' = Held
            /\ \A c \in Calls : result[c].pc # "none" => result'[c].pc # "none"
            => Cleaning'
<1>1. \/ state' = state /\ cleaner' = cleaner
      \/ /\ state = "draining" /\ state' = "cleaning" /\ Held = {}
         /\ cleaner.pc = "none" /\ cleaner'.pc = "begin" /\ cleaner'.results = cleaner.results
         /\ cleaner' \in [pc : CleanerPcs, results : SUBSET Calls]
  <2>1. CASE Idle
    <3>1. state = "draining" /\ state' = "cleaning" /\ Held = {} /\ cleaner' = [cleaner EXCEPT !.pc = "begin"]
      BY <2>1 DEF Finalize, Idle
    <3>2. cleaner.pc = "none"
      BY <3>1 DEF RInv, KInv, Cleaning
    <3>3. QED
      BY <3>1, <3>2 DEF RInv, KInv, Types, CleanerPcs
  <2>2. CASE ~Idle
    BY <2>2 DEF Finalize
  <2>3. QED
    BY <2>1, <2>2
<1>2. lease' = lease
  BY DEF Finalize
<1>3. Types /\ Executing /\ Cleaning /\ AllKept
  BY DEF RInv, KInv
<1>4. /\ state' \in {"open", "draining", "cleaning", "closed"}
      /\ cleaner' \in [pc : CleanerPcs, results : SUBSET Calls]
      /\ AcceptsResourceCalls' => AcceptsResourceCalls
  BY <1>1, <1>3 DEF Types, AcceptsResourceCalls
<1>5. UNCHANGED <<release, order, provisional>> /\ Held' = Held => AllKept'
  <2>1. SUFFICES ASSUME UNCHANGED <<release, order, provisional>>, Held' = Held,
                        NEW r \in Resources, res'[r].st = "held"
                 PROVE  Listed(r)' \/ (AcceptsResourceCalls' /\ Expected(r)')
    BY DEF AllKept, Kept
  <2>2. r \in Held /\ res[r].st = "held"
    BY <2>1 DEF Held
  <2>3. state' = state
    BY <1>1, <2>2
  <2>4. QED
    BY <1>3, <2>1, <2>2, <2>3 DEF AllKept, Kept, Listed, Expected, AcceptsResourceCalls
<1>6. release' = release /\ (\A c \in Calls : /\ (call[c].pc = "releasing") => (call'[c].pc = "releasing")
                                             /\ result'[c].pc = result[c].pc) => Executing'
  BY <1>1, <1>3 DEF Executing
<1>7. /\ UNCHANGED <<calls, owners>> /\ Held' = Held
      /\ \A c \in Calls : result[c].pc # "none" => result'[c].pc # "none"
      => Cleaning'
  <2>1. SUFFICES ASSUME UNCHANGED <<calls, owners>>, Held' = Held,
                        \A c \in Calls : result[c].pc # "none" => result'[c].pc # "none"
                 PROVE  Cleaning'
    OBVIOUS
  <2>2. cleaner.results \subseteq Calls
    BY <1>3 DEF Types
  <2>3. QED
    BY <1>1, <1>2, <1>3, <2>1, <2>2 DEF Cleaning
<1>8. QED
  BY <1>2, <1>4, <1>5, <1>6, <1>7

\* The outcome of a result stands when the set stops accepting calls.
LEMMA OutcomeFrames ==
  ASSUME RInv, AcceptsResourceCalls' => AcceptsResourceCalls,
         UNCHANGED <<provisional, res, result, release>>
  PROVE  \A c \in Calls : Outcome(c)'
  BY DEF RInv, OInv, Outcome, Unused, Gone

\* What a failed call exported is listed for its release.
LEMMA CallFailKeeps ==
  ASSUME RInv, UNCHANGED scenario, NEW c \in Calls, CallFail(c)
  PROVE  RInv'
<1>0. Types
  BY DEF RInv, KInv
<1>1. PICK objects \in SetToSeqs(provisional[c]) :
        /\ call[c].pc = "failed"
        /\ release' = [release EXCEPT ![<<"call", c>>] = objects]
        /\ provisional' = [provisional EXCEPT ![c] = {}]
        /\ call' = [call EXCEPT ![c].pc = "releasing"]
        /\ UNCHANGED <<calls, owners, res, order, result, waiting, left, state, cleaner, lease>>
  BY DEF CallFail, counters, decisions, ending
<1>2. CallAt(c, "releasing", call[c].borrows)
  BY <1>0, <1>1, CallMoves DEF CallPcs
<1>3. objects \in Seq(Resources) /\ ToSet(objects) = provisional[c]
  BY <1>0, <1>1, ToSetSequence DEF Types
<1>4. /\ release' \in [Executors -> Seq(Resources)]
      /\ release'[<<"call", c>>] = objects
      /\ \A e \in Executors : e # <<"call", c>> => release'[e] = release[e]
  BY <1>0, <1>1, <1>3, ExecutorsDiffer DEF Types
<1>5. /\ provisional' \in [Calls -> SUBSET Resources] /\ provisional'[c] = {}
      /\ \A d \in Calls : d # c => provisional'[d] = provisional[d]
  BY <1>0, <1>1 DEF Types
<1>6. release[<<"call", c>>] = <<>>
  BY <1>1 DEF RInv, KInv, Executing
<1>7. Types'
  BY <1>0, <1>1, <1>2, <1>4, <1>5 DEF Types, CallAt
<1>8. Counted'
  <2>1. ActiveCalls' = ActiveCalls /\ Drops' = Drops /\ Abandoning' = Abandoning
    BY <1>1, <1>2, CallCounts DEF Active, Drops, Abandoning
  <2>2. QED
    BY <1>1, <2>1 DEF RInv, KInv, Counted
<1>9. Borrowed'
  <2>1. \A d \in Calls : call'[d].borrows = call[d].borrows
    BY <1>2 DEF CallAt
  <2>2. \A r : Borrowers(r)' = Borrowers(r)
    BY <2>1 DEF Borrowers
  <2>3. call[c].borrows = {}
    BY <1>1 DEF RInv, KInv, Borrowed
  <2>4. QED
    BY <1>1, <1>2, <2>1, <2>2, <2>3 DEF CallAt, RInv, KInv, Borrowed
<1>10. Attempts'
  BY <1>1, <1>4, <1>6 DEF RInv, KInv, Attempts, Attempt
<1>11. AllKept'
  <2>1. ASSUME NEW r \in Resources, res'[r].st = "held"
        PROVE  Listed(r)' \/ (AcceptsResourceCalls' /\ Expected(r)')
    <3>1. Listed(r) \/ (AcceptsResourceCalls /\ Expected(r))
      BY <1>1, <2>1 DEF RInv, KInv, AllKept, Kept
    <3>2. CASE Listed(r)
      <4>1. PICK e \in Executors : r \in ToSet(release[e])
        BY <3>2 DEF Listed
      <4>2. e # <<"call", c>>
        BY <1>6, <4>1 DEF ToSet
      <4>3. QED
        BY <1>4, <4>1, <4>2 DEF Listed
    <3>3. CASE r \in provisional[c]
      <4>1. r \in ToSet(release'[<<"call", c>>]) /\ <<"call", c>> \in Executors
        BY <1>3, <1>4, <3>3, ExecutorsDiffer
      <4>2. QED
        BY <4>1 DEF Listed
    <3>4. CASE AcceptsResourceCalls /\ Expected(r) /\ r \notin provisional[c]
      BY <1>1, <1>5, <3>4 DEF Expected, AcceptsResourceCalls
    <3>5. QED
      BY <3>1, <3>2, <3>3, <3>4
  <2>2. QED
    BY <2>1 DEF AllKept, Kept
<1>12. Executing'
  BY <1>1, <1>2, <1>4, ExecutorsDiffer DEF CallAt, RInv, KInv, Executing
<1>13. AllRegistered'
  BY <1>1, <1>2, <1>5 DEF CallAt, RInv, KInv, AllRegistered, Registered
<1>14. Cleaning' /\ \A d \in Calls : Decision(d)'
  BY <1>1, Frames
<1>15. Exported'
  <2>1. \A d \in Calls : Of(d)' \subseteq Of(d)
    BY <1>1, <1>5 DEF Of
  <2>2. QED
    BY <1>1, <2>1 DEF RInv, OInv, Exported
<1>16. \A d \in Calls : Outcome(d)'
  <2>1. \A d \in Calls : /\ release'[<<"result", d>>] = release[<<"result", d>>]
                         /\ provisional'[d] \subseteq provisional[d]
    BY <1>4, <1>5, ExecutorsDiffer
  <2>2. QED
    BY <1>1, <2>1 DEF RInv, OInv, Outcome, Unused, Gone, AcceptsResourceCalls
<1>17. QED
  BY <1>7, <1>8, <1>9, <1>10, <1>11, <1>12, <1>13, <1>14, <1>15, <1>16, Together

\* A published result has its resources, and is registered.
LEMMA CallPublishKeeps ==
  ASSUME RInv, UNCHANGED scenario, NEW c \in Calls, CallPublish(c)
  PROVE  RInv'
<1>0. Types
  BY DEF RInv, KInv
<1>1. /\ call[c].pc = "ok" /\ owners' = owners \cup {c}
      /\ result' = [result EXCEPT ![c].objects = provisional[c]]
      /\ call' = [call EXCEPT ![c].pc = "leave"]
      /\ UNCHANGED <<calls, release, waiting, left, res, order, provisional, state, cleaner, lease>>
  BY DEF CallPublish, registry, ending
<1>2. CallAt(c, "leave", call[c].borrows)
  BY <1>0, <1>1, CallMoves DEF CallPcs
<1>3. /\ result' \in [Calls -> ResultRecord]
      /\ result'[c].objects = provisional[c] /\ result'[c].pc = result[c].pc
      /\ result'[c].accepted = result[c].accepted /\ result'[c].done = result[c].done
      /\ result'[c].failed = result[c].failed /\ result'[c].delivered = result[c].delivered
      /\ result'[c].abandoned = result[c].abandoned /\ result'[c].cleaned = result[c].cleaned
      /\ \A d \in Calls : d # c => result'[d] = result[d]
  <2>1. result \in [Calls -> ResultRecord] /\ result[c] \in ResultRecord /\ provisional[c] \subseteq Resources
    BY <1>0 DEF Types
  <2>2. PICK new : new = [result[c] EXCEPT !.objects = provisional[c]]
    OBVIOUS
  <2>3. /\ new \in ResultRecord /\ new.objects = provisional[c] /\ new.pc = result[c].pc
        /\ new.accepted = result[c].accepted /\ new.done = result[c].done
        /\ new.failed = result[c].failed /\ new.delivered = result[c].delivered
        /\ new.abandoned = result[c].abandoned /\ new.cleaned = result[c].cleaned
    BY <2>1, <2>2 DEF ResultRecord
  <2>4. result' = [result EXCEPT ![c] = new]
    BY <1>1, <2>1, <2>2
  <2>5. QED
    BY <2>1, <2>3, <2>4
<1>4. result[c].pc = "none" /\ c \notin owners
  BY <1>1 DEF RInv, KInv, AllRegistered, Registered
<1>5. calls # 0
  <2>1. c \in ActiveCalls
    BY <1>1 DEF ActiveCalls, Active
  <2>2. QED
    BY <2>1, NothingCounted DEF RInv, KInv
<1>6. Types'
  BY <1>0, <1>1, <1>2, <1>3 DEF Types, CallAt
<1>7. Counted'
  <2>1. ActiveCalls' = ActiveCalls
    BY <1>1, <1>2, CallCounts DEF Active
  <2>2. Drops' = Drops /\ Abandoning' = Abandoning
    BY <1>1, <1>3 DEF Drops, Abandoning
  <2>3. QED
    BY <1>1, <2>1, <2>2 DEF RInv, KInv, Counted
<1>8. Borrowed'
  <2>1. \A d \in Calls : call'[d].borrows = call[d].borrows
    BY <1>2 DEF CallAt
  <2>2. \A r : Borrowers(r)' = Borrowers(r)
    BY <2>1 DEF Borrowers
  <2>3. call[c].borrows = {}
    BY <1>1 DEF RInv, KInv, Borrowed
  <2>4. QED
    BY <1>1, <1>2, <2>1, <2>2, <2>3 DEF CallAt, RInv, KInv, Borrowed
<1>9. Attempts' /\ AllKept'
  BY <1>1, Frames
<1>10. Executing'
  BY <1>1, <1>2, <1>3 DEF CallAt, RInv, KInv, Executing
<1>11. AllRegistered'
  BY <1>1, <1>2, <1>3, <1>4 DEF CallAt, RInv, KInv, AllRegistered, Registered, Undone
<1>12. Cleaning'
  <2>1. Held' = Held
    BY <1>1 DEF Held
  <2>2. \A d \in cleaner.results : d \in owners' \/ result'[d].pc # "none"
    BY <1>0, <1>1, <1>3 DEF RInv, KInv, Cleaning, Types
  <2>3. QED
    BY <1>1, <1>5, <2>1, <2>2 DEF RInv, KInv, Cleaning
<1>13. Exported'
  <2>1. \A d \in Calls : Of(d)' \subseteq Of(d)
    BY <1>1, <1>3 DEF Of
  <2>2. QED
    BY <1>1, <2>1 DEF RInv, OInv, Exported
<1>14. \A d \in Calls : Decision(d)'
  BY <1>1, <1>3 DEF RInv, OInv, Decision, Told
<1>15. \A d \in Calls : Outcome(d)'
  BY <1>1, <1>3, <1>4 DEF RInv, OInv, Outcome, Unused, Gone, AcceptsResourceCalls, Undone
<1>16. QED
  BY <1>6, <1>7, <1>8, <1>9, <1>10, <1>11, <1>12, <1>13, <1>14, <1>15, Together


\* Call's deferred end: the WaitGroup loses the call.
LEMMA CallLeaveKeeps ==
  ASSUME RInv, UNCHANGED scenario, NEW c \in Calls, CallLeave(c)
  PROVE  RInv'
<1>0. Types
  BY DEF RInv, KInv
<1>1. /\ call[c].pc \in {"leave", "releasing"} /\ release[<<"call", c>>] = <<>>
      /\ calls' = calls - 1 /\ call' = [call EXCEPT ![c].pc = "finalize"]
      /\ UNCHANGED <<owners, release, result, waiting, left, res, order, provisional, state, cleaner, lease>>
  BY DEF CallLeave, registry, decisions, ending
<1>2. CallAt(c, "finalize", call[c].borrows)
  BY <1>0, <1>1, CallMoves DEF CallPcs
<1>3. /\ Cardinality(ActiveCalls') = Cardinality(ActiveCalls) - 1
      /\ Drops' = Drops /\ Abandoning' = Abandoning
  <2>1. c \in ActiveCalls /\ ActiveCalls' = ActiveCalls \ {c}
    BY <1>1, <1>2, CallCounts DEF Active
  <2>2. QED
    BY <1>1, <2>1, CountsAreFinite, OneLess DEF Drops, Abandoning
<1>4. Counted'
  BY <1>1, <1>3, CountsAreFinite DEF RInv, KInv, Counted
<1>5. calls' \in Nat /\ calls # 0
  <2>1. calls # 0
    <3>1. c \in ActiveCalls
      BY <1>1 DEF ActiveCalls, Active
    <3>2. QED
      BY <3>1, NothingCounted DEF RInv, KInv
  <2>2. QED
    BY <1>0, <1>1, <2>1 DEF Types
<1>6. Types'
  BY <1>0, <1>1, <1>2, <1>5 DEF Types, CallAt
<1>7. Borrowed'
  <2>1. \A d \in Calls : call'[d].borrows = call[d].borrows
    BY <1>2 DEF CallAt
  <2>2. \A r : Borrowers(r)' = Borrowers(r)
    BY <2>1 DEF Borrowers
  <2>3. call[c].borrows = {}
    BY <1>1 DEF RInv, KInv, Borrowed
  <2>4. QED
    BY <1>1, <1>2, <2>1, <2>2, <2>3 DEF CallAt, RInv, KInv, Borrowed
<1>8. Executing'
  BY <1>1, <1>2 DEF CallAt, RInv, KInv, Executing
<1>9. AllRegistered'
  BY <1>1, <1>2 DEF CallAt, RInv, KInv, AllRegistered, Registered
<1>10. Cleaning'
  BY <1>1, <1>5 DEF RInv, KInv, Cleaning, Held
<1>11. Attempts' /\ AllKept' /\ Exported' /\ (\A d \in Calls : Decision(d)')
       /\ \A d \in Calls : Outcome(d)'
  BY <1>1, Frames
<1>12. QED
  BY <1>4, <1>6, <1>7, <1>8, <1>9, <1>10, <1>11, Together

LEMMA CallFinalizeKeeps ==
  ASSUME RInv, UNCHANGED scenario, NEW c \in Calls, CallFinalize(c)
  PROVE  RInv'
<1>0. Types
  BY DEF RInv, KInv
<1>1. /\ call[c].pc = "finalize" /\ Finalize /\ call' = [call EXCEPT ![c].pc = "end"]
      /\ UNCHANGED <<calls, owners, release, result, waiting, left, res, order, provisional>>
  BY DEF CallFinalize, registry, decisions, counters
<1>2. CallAt(c, "end", call[c].borrows)
  BY <1>0, <1>1, CallMoves DEF CallPcs
<1>3. Held' = Held /\ ActiveCalls' = ActiveCalls /\ Drops' = Drops /\ Abandoning' = Abandoning
  BY <1>1, <1>2, CallCounts DEF Held, Active, Drops, Abandoning
<1>4. Counted'
  BY <1>1, <1>3 DEF RInv, KInv, Counted
<1>5. /\ state' \in {"open", "draining", "cleaning", "closed"}
      /\ cleaner' \in [pc : CleanerPcs, results : SUBSET Calls] /\ lease' = lease
      /\ AcceptsResourceCalls' => AcceptsResourceCalls
  BY <1>1, FinalizeFrames
<1>6. Types'
  BY <1>0, <1>1, <1>2, <1>5 DEF Types, CallAt
<1>7. Borrowed'
  <2>1. \A d \in Calls : call'[d].borrows = call[d].borrows
    BY <1>2 DEF CallAt
  <2>2. \A r : Borrowers(r)' = Borrowers(r)
    BY <2>1 DEF Borrowers
  <2>3. call[c].borrows = {}
    BY <1>1 DEF RInv, KInv, Borrowed
  <2>4. QED
    BY <1>1, <1>2, <2>1, <2>2, <2>3 DEF CallAt, RInv, KInv, Borrowed
<1>8. Executing'
  <2>1. \A d \in Calls : /\ (call[d].pc = "releasing") => (call'[d].pc = "releasing")
                         /\ result'[d].pc = result[d].pc
    BY <1>1, <1>2 DEF CallAt
  <2>2. QED
    BY <1>1, <2>1, FinalizeFrames
<1>9. AllRegistered'
  BY <1>1, <1>2 DEF CallAt, RInv, KInv, AllRegistered, Registered
<1>10. AllKept' /\ Cleaning'
  BY <1>1, <1>3, FinalizeFrames
<1>11. Attempts' /\ Exported' /\ (\A d \in Calls : Decision(d)')
  BY <1>1, Frames
<1>12. \A d \in Calls : Outcome(d)'
  BY <1>1, <1>5, OutcomeFrames
<1>13. QED
  BY <1>4, <1>6, <1>7, <1>8, <1>9, <1>10, <1>11, <1>12, Together


LEMMA HandlerDropReturnsKeeps ==
  ASSUME RInv, UNCHANGED scenario, NEW c \in Calls, HandlerDropReturns(c)
  PROVE  RInv'
<1>0. Types
  BY DEF RInv, KInv
<1>1. /\ call[c].pc = "dropping"
      /\ call' = [call EXCEPT ![c].pc = "handler", ![c].dropping = None]
      /\ UNCHANGED <<calls, owners, release, result, waiting, left, res, order, provisional, state,
                     cleaner, lease>>
  BY DEF HandlerDropReturns, registry, decisions, counters, ending
<1>2. CallAt(c, "handler", call[c].borrows)
  BY <1>0, <1>1, CallDrops DEF CallPcs
<1>3. Types'
  BY <1>0, <1>1, <1>2 DEF Types, CallAt
<1>4. Counted'
  <2>1. ActiveCalls' = ActiveCalls /\ Drops' = Drops /\ Abandoning' = Abandoning
    BY <1>1, <1>2, CallCounts DEF Active, Drops, Abandoning
  <2>2. QED
    BY <1>1, <2>1 DEF RInv, KInv, Counted
<1>5. Borrowed'
  <2>1. \A d \in Calls : call'[d].borrows = call[d].borrows
    BY <1>2 DEF CallAt
  <2>2. \A r : Borrowers(r)' = Borrowers(r)
    BY <2>1 DEF Borrowers
  <2>3. QED
    BY <1>1, <1>2, <2>1, <2>2 DEF CallAt, RInv, KInv, Borrowed
<1>6. Executing'
  BY <1>1, <1>2 DEF CallAt, RInv, KInv, Executing
<1>7. AllRegistered'
  BY <1>1, <1>2 DEF CallAt, RInv, KInv, AllRegistered, Registered
<1>8. /\ Attempts' /\ AllKept' /\ Cleaning' /\ Exported' /\ (\A d \in Calls : Decision(d)')
      /\ \A d \in Calls : Outcome(d)'
  BY <1>1, Frames
<1>9. QED
  BY <1>3, <1>4, <1>5, <1>6, <1>7, <1>8, Together

-----------------------------------------------------------------------------
(***************************************************************************)
(* The attempts to close a resource.                                       *)
(***************************************************************************)
\* only r's attempt, and whether it is held, change
ResAt(r, st, stage, by) ==
  /\ res' \in [Resources -> Resource]
  /\ res'[r].st = st /\ res'[r].stage = stage /\ res'[r].by = by
  /\ res'[r].active = res[r].active /\ res'[r].borrowed = res[r].borrowed
  /\ \A q \in Resources : q # r => res'[q] = res[q]

LEMMA ResMoves ==
  ASSUME Types, NEW r \in Resources, NEW st \in {"none", "held", "closed", "lost"},
         NEW stage \in Stages, NEW by \in Executors \cup {Drop, None}
  PROVE  /\ res' = [res EXCEPT ![r].st = st, ![r].stage = stage, ![r].by = by] => ResAt(r, st, stage, by)
         /\ res' = [res EXCEPT ![r].stage = stage, ![r].by = by] => ResAt(r, res[r].st, stage, by)
         /\ res' = [res EXCEPT ![r].stage = stage] => ResAt(r, res[r].st, stage, res[r].by)
         /\ res' = [res EXCEPT ![r].st = st, ![r].stage = stage] => ResAt(r, st, stage, res[r].by)
<1>1. res \in [Resources -> Resource] /\ res[r] \in Resource
  BY DEF Types
<1>2. ASSUME NEW new \in Resource, res' = [res EXCEPT ![r] = new],
             new.active = res[r].active, new.borrowed = res[r].borrowed
      PROVE  ResAt(r, new.st, new.stage, new.by)
  BY <1>1, <1>2 DEF ResAt
<1>3. ASSUME res' = [res EXCEPT ![r].st = st, ![r].stage = stage, ![r].by = by]
      PROVE  ResAt(r, st, stage, by)
  <2>1. PICK new : new = [res[r] EXCEPT !.st = st, !.stage = stage, !.by = by]
    OBVIOUS
  <2>2. res' = [res EXCEPT ![r] = new]
    BY <1>1, <1>3, <2>1
  <2>3. /\ new \in Resource /\ new.active = res[r].active /\ new.borrowed = res[r].borrowed
        /\ new.st = st /\ new.stage = stage /\ new.by = by
    BY <1>1, <2>1 DEF Resource
  <2>4. QED
    BY <1>2, <2>2, <2>3
<1>4. ASSUME res' = [res EXCEPT ![r].stage = stage, ![r].by = by]
      PROVE  ResAt(r, res[r].st, stage, by)
  <2>1. PICK new : new = [res[r] EXCEPT !.stage = stage, !.by = by]
    OBVIOUS
  <2>2. res' = [res EXCEPT ![r] = new]
    BY <1>1, <1>4, <2>1
  <2>3. /\ new \in Resource /\ new.active = res[r].active /\ new.borrowed = res[r].borrowed
        /\ new.st = res[r].st /\ new.stage = stage /\ new.by = by
    BY <1>1, <2>1 DEF Resource
  <2>4. QED
    BY <1>2, <2>2, <2>3
<1>5. ASSUME res' = [res EXCEPT ![r].stage = stage]
      PROVE  ResAt(r, res[r].st, stage, res[r].by)
  BY <1>1, <1>5 DEF Resource, ResAt
<1>6. ASSUME res' = [res EXCEPT ![r].st = st, ![r].stage = stage]
      PROVE  ResAt(r, st, stage, res[r].by)
  <2>1. PICK new : new = [res[r] EXCEPT !.st = st, !.stage = stage]
    OBVIOUS
  <2>2. res' = [res EXCEPT ![r] = new]
    BY <1>1, <1>6, <2>1
  <2>3. /\ new \in Resource /\ new.active = res[r].active /\ new.borrowed = res[r].borrowed
        /\ new.st = st /\ new.stage = stage /\ new.by = res[r].by
    BY <1>1, <2>1 DEF Resource
  <2>4. QED
    BY <1>2, <2>2, <2>3
<1>7. QED
  BY <1>3, <1>4, <1>5, <1>6

\* A resource that is held stays what it was to its borrowers and to its result;
\* one whose attempt began is not live again.
LEMMA ResFrames ==
  ASSUME RInv, NEW r \in Resources, NEW st, NEW stage, NEW by, ResAt(r, st, stage, by),
         res[r].st # "none", st # "none", st = "held" => res[r].st = "held",
         Gone(r) => st # "held" \/ stage # "none"
  PROVE  /\ st = res[r].st => Held' = Held
         /\ st # "held" => Held' = Held \ {r}
         /\ call' = call => Borrowed'
         /\ UNCHANGED <<release, order, provisional, state>> => AllKept'
         /\ (\A c \in Calls : Of(c)' \subseteq Of(c)) => Exported'
         /\ UNCHANGED <<provisional, result, release>> /\ (AcceptsResourceCalls' => AcceptsResourceCalls)
            => \A c \in Calls : Outcome(c)'
<1>1. (st = res[r].st => Held' = Held) /\ (st # "held" => Held' = Held \ {r})
  BY DEF ResAt, Held
<1>2. call' = call => Borrowed'
  <2>1. call' = call => \A q : Borrowers(q)' = Borrowers(q)
    BY DEF Borrowers
  <2>2. \A q \in Resources : res'[q].borrowed = res[q].borrowed
    BY DEF ResAt
  <2>3. QED
    BY <2>1, <2>2 DEF RInv, KInv, Borrowed
<1>3. \A q \in Resources : res'[q].st = "held" => res[q].st = "held"
  BY DEF ResAt
<1>4. UNCHANGED <<release, order, provisional, state>> => AllKept'
  BY <1>3 DEF RInv, KInv, AllKept, Kept, Listed, Expected, AcceptsResourceCalls
<1>5. (\A c \in Calls : Of(c)' \subseteq Of(c)) => Exported'
  <2>1. \A q \in Resources : res[q].st # "none" => res'[q].st # "none"
    BY DEF ResAt
  <2>2. \A c \in Calls : Of(c) \subseteq Resources
    BY DEF Of, RInv, KInv, Types, ResultRecord
  <2>3. QED
    BY <2>1, <2>2 DEF RInv, OInv, Exported
<1>6. UNCHANGED <<provisional, result, release>> /\ (AcceptsResourceCalls' => AcceptsResourceCalls)
      => \A c \in Calls : Outcome(c)'
  <2>1. SUFFICES ASSUME UNCHANGED <<provisional, result, release>>, NEW c \in Calls,
                        AcceptsResourceCalls' => AcceptsResourceCalls
                 PROVE  Outcome(c)'
    OBVIOUS
  <2>2. \A q \in Resources : (Unused(q) => Unused(q)') /\ (Gone(q) => Gone(q)')
    BY DEF ResAt, Unused, Gone
  <2>3. provisional[c] \subseteq Resources /\ result[c].objects \subseteq Resources
    BY DEF RInv, KInv, Types, ResultRecord
  <2>4. QED
    BY <2>1, <2>2, <2>3 DEF RInv, OInv, Outcome
<1>7. QED
  BY <1>1, <1>2, <1>4, <1>5, <1>6

\* Attempts at other resources go on.
LEMMA OtherAttempts ==
  ASSUME RInv, NEW r \in Resources, NEW st, NEW stage, NEW by, ResAt(r, st, stage, by),
         NEW q \in Resources, q # r,
         res[q].by \in Executors => release'[res[q].by] = release[res[q].by]
  PROVE  Attempt(q)'
  BY DEF ResAt, RInv, KInv, Attempts, Attempt

\* Which Drops the WaitGroup counts depends on r's attempt alone.
LEMMA DropCounts ==
  ASSUME NEW r \in Resources, NEW st, NEW stage, NEW by, ResAt(r, st, stage, by)
  PROVE  /\ r \notin Drops /\ (by # Drop \/ stage \notin {"wait", "close"}) => Drops' = Drops
         /\ r \in Drops /\ by = Drop /\ stage \in {"wait", "close"} => Drops' = Drops
         /\ r \notin Drops /\ by = Drop /\ stage \in {"wait", "close"} => Drops' = Drops \cup {r}
         /\ r \in Drops /\ stage \notin {"wait", "close"} => Drops' = Drops \ {r}
  BY DEF ResAt, Drops


\* A new attempt is made at a held resource that has none.
LEMMA RegisterFrames ==
  ASSUME RInv, NEW r \in Resources, NEW e \in Executors \cup {Drop}, r \in Held, ~AttemptRunning(r),
         Register(r, e), release' = release,
         e \in Executors => release[e] # <<>> /\ Head(release[e]) = r
  PROVE  /\ ResAt(r, "held", "wait", e) /\ Attempts' /\ Held' = Held
         /\ call' = call => Borrowed'
         /\ UNCHANGED <<order, provisional, state>> => AllKept'
         /\ UNCHANGED <<provisional, result>> => Exported'
         /\ UNCHANGED <<provisional, result, state>> => \A c \in Calls : Outcome(c)'
         /\ e # Drop => Drops' = Drops
         /\ e = Drop => Cardinality(Drops') = Cardinality(Drops) + 1
<1>1. ResAt(r, "held", "wait", e)
  BY ResMoves DEF Register, RInv, KInv, Stages, Held
<1>2. res[r].st = "held" /\ res[r].stage \in {"none", "failed"}
  BY DEF Held, AttemptRunning, RInv, KInv, Types, Resource, Stages
<1>3. Attempts'
  <2>1. Attempt(r)'
    BY <1>1, ExecutorsDiffer DEF ResAt, Attempt
  <2>2. \A q \in Resources : q # r => Attempt(q)'
    BY <1>1, OtherAttempts
  <2>3. QED
    BY <2>1, <2>2 DEF Attempts
<1>4. r \notin Drops
  BY <1>2 DEF Drops
<1>5. (e # Drop => Drops' = Drops) /\ (e = Drop => Drops' = Drops \cup {r})
  BY <1>1, <1>4, DropCounts
<1>6. e = Drop => Cardinality(Drops') = Cardinality(Drops) + 1
  BY <1>4, <1>5, CountsAreFinite, OneMore
<1>7. \A c \in Calls : UNCHANGED <<provisional, result>> => Of(c)' = Of(c)
  BY DEF Of
<1>8. /\ Held' = Held
      /\ call' = call => Borrowed'
      /\ UNCHANGED <<order, provisional, state>> => AllKept'
      /\ UNCHANGED <<provisional, result>> => Exported'
      /\ UNCHANGED <<provisional, result, state>> => \A c \in Calls : Outcome(c)'
  <2>1. state' = state => (AcceptsResourceCalls' => AcceptsResourceCalls)
    BY DEF AcceptsResourceCalls
  <2>2. QED
    BY <1>1, <1>2, <1>7, <2>1, ResFrames
<1>9. QED
  BY <1>1, <1>3, <1>5, <1>6, <1>8

LEMMA DropBeginKeeps ==
  ASSUME RInv, UNCHANGED scenario, NEW r \in Resources, DropBegin(r)
  PROVE  RInv'
<1>0. Types
  BY DEF RInv, KInv
<1>1. /\ AcceptsResourceCalls /\ r \in Held /\ ~AttemptRunning(r) /\ Register(r, Drop)
      /\ calls' = calls + 1
      /\ UNCHANGED <<order, provisional, owners, call, release, result, waiting, left, state, cleaner, lease>>
  BY DEF DropBegin, Droppable, decisions, ending
<1>2. ResAt(r, "held", "wait", Drop) /\ Held' = Held /\ Cardinality(Drops') = Cardinality(Drops) + 1
  BY <1>1, RegisterFrames, ExecutorsDiffer
<1>3. Attempts' /\ Borrowed' /\ AllKept' /\ Exported' /\ \A c \in Calls : Outcome(c)'
  BY <1>1, RegisterFrames, ExecutorsDiffer
<1>4. Types'
  BY <1>0, <1>1, <1>2 DEF Types, ResAt
<1>5. Counted'
  <2>1. ActiveCalls' = ActiveCalls /\ Abandoning' = Abandoning
    BY <1>1 DEF ActiveCalls, Abandoning
  <2>2. QED
    BY <1>1, <1>2, <2>1, CountsAreFinite DEF RInv, KInv, Counted
<1>6. Cleaning'
  BY <1>1, <1>2 DEF RInv, KInv, Cleaning, AcceptsResourceCalls
<1>7. Executing' /\ AllRegistered' /\ \A c \in Calls : Decision(c)'
  BY <1>1, Frames
<1>8. QED
  BY <1>3, <1>4, <1>5, <1>6, <1>7, Together

\* A handler that drops keeps its borrows, and is still counted.
LEMMA HandlerDropKeeps ==
  ASSUME RInv, UNCHANGED scenario, NEW c \in Calls, NEW r \in Resources, HandlerDrop(c, r)
  PROVE  RInv'
<1>0. Types
  BY DEF RInv, KInv
<1>1. /\ call[c].pc = "handler" /\ AcceptsResourceCalls /\ r \in Held
      /\ call' = [call EXCEPT ![c].pc = "dropping", ![c].dropping = r]
      /\ UNCHANGED <<order, provisional, owners, release, result, waiting, left, state, cleaner, lease>>
  BY DEF HandlerDrop, Droppable, decisions, ending
<1>2. CallAt(c, "dropping", call[c].borrows)
  BY <1>0, <1>1, CallDrops DEF CallPcs
<1>3. ActiveCalls' = ActiveCalls /\ Abandoning' = Abandoning
  BY <1>1, <1>2, CallCounts DEF Active, Abandoning
<1>4. /\ calls' \in Nat /\ res' \in [Resources -> Resource] /\ Held' = Held
      /\ Counted' /\ Attempts' /\ AllKept' /\ Exported' /\ (\A d \in Calls : Outcome(d)')
      /\ \A q \in Resources : res'[q].borrowed = res[q].borrowed
  <2>1. CASE AttemptRunning(r)
    <3>1. UNCHANGED <<res, calls>>
      BY <2>1 DEF HandlerDrop
    <3>2. Held' = Held /\ Drops' = Drops
      BY <3>1 DEF Held, Drops
    <3>3. Counted'
      BY <1>3, <3>1, <3>2 DEF RInv, KInv, Counted
    <3>4. Attempts' /\ AllKept' /\ Exported' /\ \A d \in Calls : Outcome(d)'
      BY <1>1, <3>1, Frames
    <3>5. QED
      BY <1>0, <3>1, <3>2, <3>3, <3>4 DEF Types
  <2>2. CASE ~AttemptRunning(r)
    <3>1. Register(r, Drop) /\ calls' = calls + 1
      BY <2>2 DEF HandlerDrop
    <3>2. ResAt(r, "held", "wait", Drop) /\ Held' = Held /\ Cardinality(Drops') = Cardinality(Drops) + 1
      BY <1>1, <2>2, <3>1, RegisterFrames, ExecutorsDiffer
    <3>3. Attempts' /\ AllKept' /\ Exported' /\ \A d \in Calls : Outcome(d)'
      BY <1>1, <2>2, <3>1, RegisterFrames, ExecutorsDiffer
    <3>4. Counted'
      BY <1>3, <3>1, <3>2, CountsAreFinite DEF RInv, KInv, Counted
    <3>5. calls' \in Nat /\ res' \in [Resources -> Resource]
      BY <1>0, <3>1, <3>2 DEF Types, ResAt
    <3>6. \A q \in Resources : res'[q].borrowed = res[q].borrowed
      BY <3>2 DEF ResAt
    <3>7. QED
      BY <3>2, <3>3, <3>4, <3>5, <3>6
  <2>3. QED
    BY <2>1, <2>2
<1>5. Types'
  BY <1>0, <1>1, <1>2, <1>4 DEF Types, CallAt
<1>6. Borrowed'
  <2>1. \A d \in Calls : call'[d].borrows = call[d].borrows
    BY <1>2 DEF CallAt
  <2>2. \A q : Borrowers(q)' = Borrowers(q)
    BY <2>1 DEF Borrowers
  <2>3. QED
    BY <1>2, <1>4, <2>1, <2>2 DEF CallAt, RInv, KInv, Borrowed
<1>7. Executing'
  BY <1>1, <1>2 DEF CallAt, RInv, KInv, Executing
<1>8. AllRegistered'
  BY <1>1, <1>2 DEF CallAt, RInv, KInv, AllRegistered, Registered
<1>9. Cleaning'
  BY <1>1, <1>4 DEF RInv, KInv, Cleaning, AcceptsResourceCalls
<1>10. \A d \in Calls : Decision(d)'
  BY <1>1, Frames
<1>11. QED
  BY <1>4, <1>5, <1>6, <1>7, <1>8, <1>9, <1>10, Together

\* The closer goes on when the borrowers are gone.
LEMMA CloseBeginsKeeps ==
  ASSUME RInv, UNCHANGED scenario, NEW r \in Resources, CloseBegins(r)
  PROVE  RInv'
<1>0. Types
  BY DEF RInv, KInv
<1>1. /\ res[r].stage = "wait" /\ res' = [res EXCEPT ![r].stage = "close"]
      /\ UNCHANGED <<calls, order, provisional, owners, call, release, result, waiting, left, state,
                     cleaner, lease>>
  BY DEF CloseBegins, counters, decisions, ending
<1>2. res[r].by \in Executors \cup {Drop, None} /\ res[r].st \in {"none", "held", "closed", "lost"}
  BY <1>0 DEF Types, Resource
<1>3. ResAt(r, res[r].st, "close", res[r].by)
  BY <1>0, <1>1, <1>2, ResMoves DEF Stages
<1>4. Attempt(r) /\ res[r].st = "held"
  BY <1>1 DEF RInv, KInv, Attempts, Attempt
<1>5. Types'
  BY <1>0, <1>1, <1>3 DEF Types, ResAt
<1>6. Counted'
  <2>1. Drops' = Drops
    BY <1>1, <1>3, DropCounts DEF Drops
  <2>2. ActiveCalls' = ActiveCalls /\ Abandoning' = Abandoning
    BY <1>1 DEF ActiveCalls, Abandoning
  <2>3. QED
    BY <1>1, <2>1, <2>2 DEF RInv, KInv, Counted
<1>7. Attempts'
  <2>1. Attempt(r)'
    BY <1>1, <1>3, <1>4 DEF ResAt, Attempt
  <2>2. \A q \in Resources : q # r => Attempt(q)'
    BY <1>1, <1>3, OtherAttempts
  <2>3. QED
    BY <2>1, <2>2 DEF Attempts
<1>8. /\ Held' = Held /\ Borrowed' /\ AllKept' /\ Exported' /\ \A c \in Calls : Outcome(c)'
  <2>1. /\ \A c \in Calls : Of(c)' = Of(c)
        /\ AcceptsResourceCalls' => AcceptsResourceCalls
    BY <1>1 DEF Of, AcceptsResourceCalls
  <2>2. QED
    BY <1>1, <1>3, <1>4, <2>1, ResFrames
<1>9. Cleaning'
  BY <1>1, <1>8 DEF RInv, KInv, Cleaning
<1>10. Executing' /\ AllRegistered' /\ \A c \in Calls : Decision(c)'
  BY <1>1, Frames
<1>11. QED
  BY <1>5, <1>6, <1>7, <1>8, <1>9, <1>10, Together


\* A Drop is over for the WaitGroup when Close has returned.
LEMMA DropEndsKeeps ==
  ASSUME RInv, UNCHANGED scenario, NEW r \in Resources, NEW ok \in BOOLEAN, DropEnds(r, ok)
  PROVE  RInv'
<1>0. Types
  BY DEF RInv, KInv
<1>1. /\ res[r].by = Drop /\ res[r].stage = "close"
      /\ res' = [res EXCEPT ![r].st = IF ok THEN "closed" ELSE @, ![r].stage = "finalize"]
      /\ order' = IF ok THEN WithoutResource(r) ELSE order
      /\ calls' = calls - 1
      /\ UNCHANGED <<provisional, owners, call, release, result, waiting, left, state, cleaner, lease>>
  BY DEF DropEnds, decisions, ending
<1>2. Attempt(r) /\ res[r].st = "held"
  BY <1>1 DEF RInv, KInv, Attempts, Attempt
<1>3. PICK st \in {"held", "closed"} : /\ ResAt(r, st, "finalize", Drop)
                                       /\ st = "held" => order' = order
                                       /\ st = "closed" => order' = WithoutResource(r)
  <2>1. CASE ok
    <3>1. res' = [res EXCEPT ![r].st = "closed", ![r].stage = "finalize"]
      BY <1>1, <2>1
    <3>2. ResAt(r, "closed", "finalize", Drop)
      BY <1>0, <1>1, <3>1, ResMoves DEF Stages
    <3>3. QED
      BY <1>1, <2>1, <3>2
  <2>2. CASE ~ok
    <3>1. res' = [res EXCEPT ![r].st = "held", ![r].stage = "finalize"]
      BY <1>0, <1>1, <1>2, <2>2 DEF Types
    <3>2. ResAt(r, "held", "finalize", Drop)
      BY <1>0, <1>1, <3>1, ResMoves DEF Stages
    <3>3. QED
      BY <1>1, <2>2, <3>2
  <2>3. QED
    BY <2>1, <2>2
<1>4. order' \in Seq(Resources) /\ ToSet(order) \ {r} \subseteq ToSet(order') /\ (st = "held" => order' = order)
  BY <1>0, <1>3, ToSetRemoveFirst DEF Types, WithoutResource
<1>5. r \in Drops /\ Cardinality(Drops') = Cardinality(Drops) - 1
  <2>1. r \in Drops
    BY <1>1 DEF Drops
  <2>2. Drops' = Drops \ {r}
    BY <1>3, <2>1, DropCounts
  <2>3. QED
    BY <2>1, <2>2, CountsAreFinite, OneLess
<1>6. calls # 0
  BY <1>5, NothingCounted DEF RInv, KInv
<1>7. Types'
  <2>1. calls' \in Nat
    BY <1>0, <1>1, <1>6 DEF Types
  <2>2. QED
    BY <1>0, <1>1, <1>3, <1>4, <2>1 DEF Types, ResAt
<1>8. Counted'
  <2>1. ActiveCalls' = ActiveCalls /\ Abandoning' = Abandoning
    BY <1>1 DEF ActiveCalls, Abandoning
  <2>2. QED
    BY <1>1, <1>5, <2>1, CountsAreFinite DEF RInv, KInv, Counted
<1>9. Attempts'
  <2>1. Attempt(r)'
    BY <1>1, <1>3, ExecutorsDiffer DEF ResAt, Attempt
  <2>2. \A q \in Resources : q # r => Attempt(q)'
    BY <1>1, <1>3, OtherAttempts
  <2>3. QED
    BY <2>1, <2>2 DEF Attempts
<1>10. /\ Held' = Held \/ Held' = Held \ {r}
       /\ Borrowed' /\ Exported' /\ \A c \in Calls : Outcome(c)'
  <2>1. /\ \A c \in Calls : Of(c)' = Of(c)
        /\ AcceptsResourceCalls' => AcceptsResourceCalls
    BY <1>1 DEF Of, AcceptsResourceCalls
  <2>2. QED
    BY <1>1, <1>2, <1>3, <2>1, ResFrames
<1>11. AllKept'
  <2>1. ASSUME NEW q \in Resources, res'[q].st = "held"
        PROVE  Listed(q)' \/ (AcceptsResourceCalls' /\ Expected(q)')
    <3>1. res[q].st = "held" /\ (q # r \/ order' = order)
      BY <1>2, <1>3, <2>1 DEF ResAt
    <3>2. q \in ToSet(order) => q \in ToSet(order')
      BY <1>4, <3>1
    <3>3. QED
      BY <1>1, <3>1, <3>2 DEF RInv, KInv, AllKept, Kept, Listed, Expected, AcceptsResourceCalls
  <2>2. QED
    BY <2>1 DEF AllKept, Kept
<1>12. Cleaning'
  BY <1>1, <1>6, <1>10 DEF RInv, KInv, Cleaning
<1>13. Executing' /\ AllRegistered' /\ \A c \in Calls : Decision(c)'
  BY <1>1, Frames
<1>14. QED
  BY <1>7, <1>8, <1>9, <1>10, <1>11, <1>12, <1>13, Together

\* The end of a Drop's attempt.
LEMMA DropDoneFrames ==
  ASSUME RInv, NEW r \in Resources, res[r].stage \in {"finalize", "await"}, DropDone(r),
         UNCHANGED <<call, release, provisional, result>>,
         AcceptsResourceCalls' => AcceptsResourceCalls
  PROVE  /\ res' \in [Resources -> Resource] /\ Drops' = Drops /\ Held' = Held
         /\ Attempts' /\ Borrowed' /\ Exported' /\ \A c \in Calls : Outcome(c)'
         /\ UNCHANGED <<order, state>> => AllKept'
<1>1. Attempt(r) /\ Types
  BY DEF RInv, KInv, Attempts
<1>2. res[r].st \in {"held", "closed"}
  BY <1>1 DEF Attempt
<1>3. PICK stage \in {"failed", "none"} : /\ ResAt(r, res[r].st, stage, None)
                                          /\ stage = "failed" <=> res[r].st = "held"
  <2>1. CASE r \in Held
    <3>1. res' = [res EXCEPT ![r].stage = "failed", ![r].by = None]
      BY <2>1 DEF DropDone
    <3>2. ResAt(r, res[r].st, "failed", None)
      BY <1>1, <1>2, <3>1, ResMoves DEF Stages
    <3>3. QED
      BY <2>1, <3>2 DEF Held
  <2>2. CASE r \notin Held
    <3>1. res' = [res EXCEPT ![r].stage = "none", ![r].by = None]
      BY <2>2 DEF DropDone
    <3>2. ResAt(r, res[r].st, "none", None)
      BY <1>1, <1>2, <3>1, ResMoves DEF Stages
    <3>3. QED
      BY <2>2, <3>2 DEF Held
  <2>3. QED
    BY <2>1, <2>2
<1>4. Drops' = Drops
  BY <1>3, DropCounts, ExecutorsDiffer DEF Drops
<1>5. Attempts'
  <2>1. Attempt(r)'
    BY <1>2, <1>3, ExecutorsDiffer DEF ResAt, Attempt
  <2>2. \A q \in Resources : q # r => Attempt(q)'
    BY <1>3, OtherAttempts
  <2>3. QED
    BY <2>1, <2>2 DEF Attempts
<1>6. /\ Held' = Held /\ Borrowed' /\ Exported' /\ (\A c \in Calls : Outcome(c)')
      /\ UNCHANGED <<order, state>> => AllKept'
  <2>1. \A c \in Calls : Of(c)' = Of(c)
    BY DEF Of
  <2>2. QED
    BY <1>2, <1>3, <2>1, ResFrames
<1>7. QED
  BY <1>3, <1>4, <1>5, <1>6 DEF ResAt

LEMMA DropAwaitKeeps ==
  ASSUME RInv, UNCHANGED scenario, NEW r \in Resources, DropAwait(r)
  PROVE  RInv'
<1>0. Types
  BY DEF RInv, KInv
<1>1. /\ res[r].stage = "await" /\ DropDone(r)
      /\ UNCHANGED <<calls, order, provisional, owners, call, release, result, waiting, left, state,
                     cleaner, lease>>
      /\ AcceptsResourceCalls' => AcceptsResourceCalls
  BY DEF DropAwait, counters, decisions, ending, AcceptsResourceCalls
<1>2. /\ res' \in [Resources -> Resource] /\ Drops' = Drops /\ Held' = Held
      /\ Attempts' /\ Borrowed' /\ Exported' /\ (\A c \in Calls : Outcome(c)') /\ AllKept'
  BY <1>1, DropDoneFrames
<1>3. Types'
  BY <1>0, <1>1, <1>2 DEF Types
<1>4. Counted'
  BY <1>1, <1>2 DEF RInv, KInv, Counted, ActiveCalls, Abandoning
<1>5. Cleaning'
  BY <1>1, <1>2 DEF RInv, KInv, Cleaning
<1>6. Executing' /\ AllRegistered' /\ \A c \in Calls : Decision(c)'
  BY <1>1, Frames
<1>7. QED
  BY <1>2, <1>3, <1>4, <1>5, <1>6, Together

LEMMA DropFinalizeKeeps ==
  ASSUME RInv, UNCHANGED scenario, NEW r \in Resources, DropFinalize(r)
  PROVE  RInv'
<1>0. Types
  BY DEF RInv, KInv
<1>1. /\ res[r].stage = "finalize" /\ Finalize
      /\ UNCHANGED <<calls, order, provisional, owners, call, release, result, waiting, left>>
  BY DEF DropFinalize, counters, decisions
<1>2. /\ state' \in {"open", "draining", "cleaning", "closed"}
      /\ cleaner' \in [pc : CleanerPcs, results : SUBSET Calls] /\ lease' = lease
      /\ AcceptsResourceCalls' => AcceptsResourceCalls
  BY <1>1, FinalizeFrames
<1>3. /\ res' \in [Resources -> Resource] /\ Drops' = Drops /\ Held' = Held
      /\ Attempts' /\ Borrowed' /\ Exported' /\ \A c \in Calls : Outcome(c)'
  <2>1. CASE Idle
    <3>1. res' = [res EXCEPT ![r].stage = "await"] /\ Held = {}
      BY <2>1 DEF DropFinalize, Idle
    <3>2. Attempt(r) /\ res[r].st \in {"none", "held", "closed", "lost"}
          /\ res[r].by \in Executors \cup {Drop, None}
      BY <1>0 DEF RInv, KInv, Attempts, Types, Resource
    <3>3. res[r].st = "closed"
      BY <1>1, <3>1, <3>2 DEF Attempt, Held
    <3>4. ResAt(r, "closed", "await", res[r].by)
      BY <1>0, <3>1, <3>2, <3>3, ResMoves DEF Stages
    <3>5. r \notin Drops /\ Drops' = Drops
      BY <1>1, <3>4, DropCounts DEF Drops
    <3>6. Attempts'
      <4>1. Attempt(r)'
        BY <1>1, <3>2, <3>4 DEF ResAt, Attempt
      <4>2. \A q \in Resources : q # r => Attempt(q)'
        BY <1>1, <3>4, OtherAttempts
      <4>3. QED
        BY <4>1, <4>2 DEF Attempts
    <3>7. \A c \in Calls : Of(c)' = Of(c)
      BY <1>1 DEF Of
    <3>8. Held' = Held /\ Borrowed' /\ Exported' /\ \A c \in Calls : Outcome(c)'
      BY <1>1, <1>2, <3>3, <3>4, <3>7, ResFrames
    <3>9. QED
      BY <3>4, <3>5, <3>6, <3>8 DEF ResAt
  <2>2. CASE ~Idle
    <3>1. DropDone(r)
      BY <2>2 DEF DropFinalize
    <3>2. QED
      BY <1>1, <1>2, <3>1, DropDoneFrames
  <2>3. QED
    BY <2>1, <2>2
<1>4. Types'
  BY <1>0, <1>1, <1>2, <1>3 DEF Types
<1>5. Counted'
  BY <1>1, <1>3 DEF RInv, KInv, Counted, ActiveCalls, Abandoning
<1>6. AllKept' /\ Cleaning' /\ Executing'
  BY <1>1, <1>3, FinalizeFrames
<1>7. AllRegistered' /\ \A c \in Calls : Decision(c)'
  BY <1>1, Frames
<1>8. QED
  BY <1>3, <1>4, <1>5, <1>6, <1>7, Together


-----------------------------------------------------------------------------
(***************************************************************************)
(* releaseObjects.                                                         *)
(***************************************************************************)
\* the executor's list loses its head, and the other lists nothing
Popped(e) ==
  /\ release' \in [Executors -> Seq(Resources)]
  /\ release'[e] = Tail(release[e])
  /\ \A f \in Executors : f # e => release'[f] = release[f]

LEMMA ReleasePops ==
  ASSUME Types, NEW e \in Executors, release[e] # <<>>, release' = [release EXCEPT ![e] = Tail(@)]
  PROVE  /\ Popped(e) /\ Head(release[e]) \in Resources
         /\ ToSet(release[e]) = {Head(release[e])} \cup ToSet(Tail(release[e]))
<1>1. release \in [Executors -> Seq(Resources)] /\ release[e] \in Seq(Resources)
  BY DEF Types
<1>2. /\ Head(release[e]) \in Resources /\ Tail(release[e]) \in Seq(Resources)
      /\ ToSet(release[e]) = {Head(release[e])} \cup ToSet(Tail(release[e]))
  BY <1>1, HeadAndTail
<1>3. QED
  BY <1>1, <1>2 DEF Popped

\* Whatever is popped, the others stay listed.
LEMMA PoppedFrames ==
  ASSUME RInv, NEW e \in Executors, release[e] # <<>>, Popped(e),
         ToSet(release[e]) = {Head(release[e])} \cup ToSet(Tail(release[e]))
  PROVE  /\ \A q : Listed(q) /\ q # Head(release[e]) => Listed(q)'
         /\ (\A c \in Calls : call'[c].pc = call[c].pc /\ result'[c].pc = result[c].pc)
            /\ cleaner'.pc = cleaner.pc => Executing'
         /\ \A c \in Calls : \A q : q \in ToSet(release[<<"result", c>>]) /\ q # Head(release[e])
                                => q \in ToSet(release'[<<"result", c>>])
<1>1. \A f \in Executors : \A q : q \in ToSet(release[f]) /\ q # Head(release[e]) => q \in ToSet(release'[f])
  BY DEF Popped
<1>2. \A q : Listed(q) /\ q # Head(release[e]) => Listed(q)'
  BY <1>1 DEF Listed
<1>3. \A f \in Executors : release'[f] # <<>> => release[f] # <<>>
  BY DEF Popped
<1>4. (\A c \in Calls : call'[c].pc = call[c].pc /\ result'[c].pc = result[c].pc)
      /\ cleaner'.pc = cleaner.pc => Executing'
  BY <1>3, ExecutorsDiffer DEF RInv, KInv, Executing
<1>5. QED
  BY <1>1, <1>2, <1>4, ExecutorsDiffer

LEMMA ReleaseTakeKeeps ==
  ASSUME RInv, UNCHANGED scenario, NEW e \in Executors, ReleaseTake(e)
  PROVE  RInv'
<1>0. Types
  BY DEF RInv, KInv
<1>1. /\ release[e] # <<>>
      /\ UNCHANGED <<calls, order, provisional, owners, call, result, waiting, left, state, cleaner, lease>>
  BY DEF ReleaseTake, counters, decisions, ending
<1>2. PICK r \in Resources : r = Head(release[e]) /\ release[e] \in Seq(Resources)
  BY <1>0, <1>1, HeadAndTail DEF Types
<1>3. CASE r \in Held
  <2>1. ~AttemptRunning(r) /\ Register(r, e) /\ release' = release
    BY <1>2, <1>3 DEF ReleaseTake
  <2>2. ResAt(r, "held", "wait", e) /\ Held' = Held /\ Drops' = Drops
    BY <1>1, <1>2, <1>3, <2>1, RegisterFrames, ExecutorsDiffer
  <2>3. Attempts' /\ Borrowed' /\ AllKept' /\ Exported' /\ \A c \in Calls : Outcome(c)'
    BY <1>1, <1>2, <1>3, <2>1, RegisterFrames, ExecutorsDiffer
  <2>4. Types'
    BY <1>0, <1>1, <2>1, <2>2 DEF Types, ResAt
  <2>5. Counted'
    BY <1>1, <2>2 DEF RInv, KInv, Counted, ActiveCalls, Abandoning
  <2>6. Cleaning'
    BY <1>1, <2>2 DEF RInv, KInv, Cleaning
  <2>7. Executing' /\ AllRegistered' /\ \A c \in Calls : Decision(c)'
    BY <1>1, <2>1, Frames
  <2>8. QED
    BY <2>3, <2>4, <2>5, <2>6, <2>7, Together
<1>4. CASE r \notin Held
  <2>1. release' = [release EXCEPT ![e] = Tail(@)] /\ res' = res
    BY <1>2, <1>4 DEF ReleaseTake
  <2>2. Popped(e) /\ ToSet(release[e]) = {r} \cup ToSet(Tail(release[e])) /\ res[r].st # "held"
    BY <1>0, <1>1, <1>2, <1>4, <2>1, ReleasePops DEF Held
  <2>3. Types'
    BY <1>0, <1>1, <2>1, <2>2 DEF Types, Popped
  <2>4. Attempts'
    <3>1. ASSUME NEW q \in Resources PROVE Attempt(q)'
      <4>1. Attempt(q)
        BY DEF RInv, KInv, Attempts
      <4>2. res[q].by # e
        BY <1>2, <2>2, <4>1 DEF Attempt
      <4>3. QED
        BY <2>1, <2>2, <4>1, <4>2 DEF Attempt, Popped
    <3>2. QED
      BY <3>1 DEF Attempts
  <2>5. AllKept'
    <3>1. ASSUME NEW q \in Resources, res'[q].st = "held"
          PROVE  Listed(q)' \/ (AcceptsResourceCalls' /\ Expected(q)')
      <4>1. q # r /\ (Listed(q) \/ (AcceptsResourceCalls /\ Expected(q)))
        BY <2>1, <2>2, <3>1 DEF RInv, KInv, AllKept, Kept
      <4>2. Listed(q) => Listed(q)'
        BY <1>1, <1>2, <2>2, <4>1, PoppedFrames
      <4>3. QED
        BY <1>1, <4>1, <4>2 DEF Expected, AcceptsResourceCalls
    <3>2. QED
      BY <3>1 DEF AllKept, Kept
  <2>6. Executing'
    BY <1>1, <1>2, <2>2, PoppedFrames
  <2>7. \A c \in Calls : Outcome(c)'
    <3>1. ASSUME NEW c \in Calls PROVE Outcome(c)'
      <4>1. \A q : q \in ToSet(release[<<"result", c>>]) /\ q # r => q \in ToSet(release'[<<"result", c>>])
        BY <1>1, <1>2, <2>2, PoppedFrames
      <4>2. Gone(r) /\ Outcome(c)
        BY <2>2 DEF Gone, RInv, OInv
      <4>3. QED
        BY <1>1, <2>1, <4>1, <4>2 DEF Outcome, Unused, Gone, AcceptsResourceCalls
    <3>2. QED
      BY <3>1
  <2>8. Counted' /\ Borrowed' /\ AllRegistered' /\ Cleaning' /\ Exported' /\ \A c \in Calls : Decision(c)'
    BY <1>1, <2>1, Frames
  <2>9. QED
    BY <2>3, <2>4, <2>5, <2>6, <2>7, <2>8, Together
<1>5. QED
  BY <1>3, <1>4


\* An executor is done with an object: it is closed, or kept for a later attempt.
LEMMA ReleaseEndsKeeps ==
  ASSUME RInv, UNCHANGED scenario, NEW e \in Executors, NEW ok \in BOOLEAN, ReleaseEnds(e, ok)
  PROVE  RInv'
<1>0. Types
  BY DEF RInv, KInv
<1>1. /\ release[e] # <<>> /\ release' = [release EXCEPT ![e] = Tail(@)]
      /\ result' = IF e[1] = "result" THEN [result EXCEPT ![e[2]].failed = @ \/ ~ok] ELSE result
      /\ UNCHANGED <<calls, provisional, owners, call, waiting, left, state, cleaner, lease>>
  BY DEF ReleaseEnds, counters, ending
<1>2. PICK r \in Resources : r = Head(release[e])
  BY <1>0, <1>1, HeadAndTail DEF Types
<1>3. /\ res[r].by = e /\ res[r].stage = "close"
      /\ IF ~ok /\ AcceptsResourceCalls
         THEN /\ res' = [res EXCEPT ![r].stage = "failed", ![r].by = None]
              /\ order' = IF r \in ToSet(order) THEN order ELSE Append(order, r)
         ELSE /\ res' = Detached(r)
              /\ order' = WithoutResource(r)
  BY <1>2 DEF ReleaseEnds
<1>4. Popped(e) /\ ToSet(release[e]) = {r} \cup ToSet(Tail(release[e]))
  BY <1>0, <1>1, <1>2, ReleasePops
<1>5. Attempt(r) /\ res[r].st = "held"
  BY <1>3 DEF RInv, KInv, Attempts, Attempt
<1>6. PICK st \in {"held", "closed"}, stage \in {"failed", "none"} :
        /\ ResAt(r, st, stage, None) /\ order' \in Seq(Resources)
        /\ st = "held" <=> stage = "failed"
        /\ st = "held" => AcceptsResourceCalls /\ r \in ToSet(order')
        /\ ToSet(order) \ {r} \subseteq ToSet(order')
  <2>1. CASE ~ok /\ AcceptsResourceCalls
    <3>1. res' = [res EXCEPT ![r].stage = "failed", ![r].by = None]
          /\ order' = IF r \in ToSet(order) THEN order ELSE Append(order, r)
      BY <1>3, <2>1
    <3>2. ResAt(r, "held", "failed", None)
      BY <1>0, <1>5, <3>1, ResMoves DEF Stages
    <3>3. order' \in Seq(Resources) /\ r \in ToSet(order') /\ ToSet(order) \subseteq ToSet(order')
      BY <1>0, <3>1, ToSetAppend DEF Types
    <3>4. QED
      BY <2>1, <3>2, <3>3
  <2>2. CASE ~(~ok /\ AcceptsResourceCalls)
    <3>1. res' = [res EXCEPT ![r].st = "closed", ![r].stage = "none", ![r].by = None]
          /\ order' = WithoutResource(r)
      BY <1>3, <2>2 DEF Detached
    <3>2. ResAt(r, "closed", "none", None)
      BY <1>0, <3>1, ResMoves DEF Stages
    <3>3. order' \in Seq(Resources) /\ ToSet(order) \ {r} \subseteq ToSet(order')
      BY <1>0, <3>1, ToSetRemoveFirst DEF Types, WithoutResource
    <3>4. QED
      BY <3>2, <3>3
  <2>3. QED
    BY <2>1, <2>2
<1>7. \/ result' = result
      \/ \E c \in Calls : e = <<"result", c>> /\ result' = [result EXCEPT ![c].failed = @ \/ ~ok]
  BY <1>1, ExecutorsDiffer
<1>8. /\ result' \in [Calls -> ResultRecord]
      /\ \A c \in Calls :
           /\ result'[c].pc = result[c].pc /\ result'[c].objects = result[c].objects
           /\ result'[c].accepted = result[c].accepted /\ result'[c].done = result[c].done
           /\ result'[c].delivered = result[c].delivered
           /\ result'[c].abandoned = result[c].abandoned /\ result'[c].cleaned = result[c].cleaned
           /\ result[c].failed => result'[c].failed
           /\ result'[c].failed => result[c].failed \/ result[c].pc \in {"releasing", "abandoning"}
  <2>1. CASE result' = result
    BY <1>0, <2>1 DEF Types
  <2>2. ASSUME NEW c \in Calls, e = <<"result", c>>, result' = [result EXCEPT ![c].failed = @ \/ ~ok]
        PROVE  <1>8!1 /\ <1>8!2
    <3>1. result[c].pc \in {"releasing", "abandoning"}
      BY <1>1, <2>2 DEF RInv, KInv, Executing
    <3>2. result[c] \in ResultRecord /\ (result[c].failed \/ ~ok) \in BOOLEAN
      BY <1>0 DEF Types, ResultRecord
    <3>3. /\ result' \in [Calls -> ResultRecord]
          /\ \A d \in Calls : d # c => result'[d] = result[d]
          /\ result'[c] = [result[c] EXCEPT !.failed = @ \/ ~ok]
      BY <1>0, <2>2, <3>2 DEF Types, ResultRecord
    <3>4. /\ result'[c].pc = result[c].pc /\ result'[c].objects = result[c].objects
          /\ result'[c].accepted = result[c].accepted /\ result'[c].done = result[c].done
          /\ result'[c].delivered = result[c].delivered
          /\ result'[c].abandoned = result[c].abandoned /\ result'[c].cleaned = result[c].cleaned
          /\ result[c].failed => result'[c].failed
      BY <3>2, <3>3 DEF ResultRecord
    <3>5. QED
      BY <3>1, <3>3, <3>4
  <2>3. QED
    BY <1>7, <2>1, <2>2
<1>9. Types'
  BY <1>0, <1>1, <1>4, <1>6, <1>8 DEF Types, Popped, ResAt
<1>10. Counted'
  <2>1. Drops' = Drops
    BY <1>3, <1>6, DropCounts, ExecutorsDiffer DEF Drops
  <2>2. ActiveCalls' = ActiveCalls /\ Abandoning' = Abandoning
    BY <1>1, <1>8 DEF ActiveCalls, Abandoning
  <2>3. QED
    BY <1>1, <2>1, <2>2 DEF RInv, KInv, Counted
<1>11. Attempts'
  <2>1. Attempt(r)'
    BY <1>6, ExecutorsDiffer DEF ResAt, Attempt
  <2>2. ASSUME NEW q \in Resources, q # r PROVE Attempt(q)'
    <3>1. Attempt(q)
      BY DEF RInv, KInv, Attempts
    <3>2. res[q].by # e
      BY <1>2, <2>2, <3>1 DEF Attempt
    <3>3. QED
      BY <1>4, <1>6, <2>2, <3>2, OtherAttempts DEF Popped
  <2>3. QED
    BY <2>1, <2>2 DEF Attempts
<1>12. (Held' = Held \/ Held' = Held \ {r}) /\ Borrowed' /\ Exported'
  <2>1. \A c \in Calls : Of(c)' = Of(c)
    BY <1>1, <1>8 DEF Of
  <2>2. Gone(r)
    BY <1>3 DEF Gone
  <2>3. QED
    BY <1>1, <1>5, <1>6, <2>1, <2>2, ResFrames
<1>13. AllKept'
  <2>1. ASSUME NEW q \in Resources, res'[q].st = "held"
        PROVE  Listed(q)' \/ (AcceptsResourceCalls' /\ Expected(q)')
    <3>1. CASE q = r
      BY <1>1, <1>6, <2>1, <3>1 DEF ResAt, Expected, AcceptsResourceCalls
    <3>2. CASE q # r
      <4>1. Listed(q) \/ (AcceptsResourceCalls /\ Expected(q))
        BY <1>6, <2>1, <3>2 DEF ResAt, RInv, KInv, AllKept, Kept
      <4>2. Listed(q) => Listed(q)'
        BY <1>1, <1>2, <1>4, <3>2, PoppedFrames
      <4>3. q \in ToSet(order) => q \in ToSet(order')
        BY <1>6, <3>2
      <4>4. QED
        BY <1>1, <4>1, <4>2, <4>3 DEF Expected, AcceptsResourceCalls
    <3>3. QED
      BY <3>1, <3>2
  <2>2. QED
    BY <2>1 DEF AllKept, Kept
<1>14. Executing'
  BY <1>1, <1>2, <1>4, <1>8, PoppedFrames
<1>15. AllRegistered'
  BY <1>1, <1>8 DEF RInv, KInv, AllRegistered, Registered
<1>16. Cleaning'
  BY <1>0, <1>1, <1>8, <1>12 DEF RInv, KInv, Cleaning, Types
<1>17. \A c \in Calls : Decision(c)'
  <2>1. ASSUME NEW c \in Calls PROVE Decision(c)'
    <3>1. Decision(c) /\ Registered(c)
      BY DEF RInv, KInv, OInv, AllRegistered
    <3>2. Told(c)' <=> Told(c)
      BY <1>1 DEF Told
    <3>3. QED
      BY <1>1, <1>8, <3>1, <3>2 DEF Decision
  <2>2. QED
    BY <2>1
<1>18. \A c \in Calls : Outcome(c)'
  <2>1. ASSUME NEW c \in Calls PROVE Outcome(c)'
    <3>1. Outcome(c) /\ Decision(c)
      BY DEF RInv, OInv
    <3>2. \A q \in Resources : (Unused(q) => Unused(q)') /\ (Gone(q) => Gone(q)')
      BY <1>6 DEF ResAt, Unused, Gone
    <3>3. Gone(r)'
      BY <1>6 DEF ResAt, Gone
    <3>4. \A q : q \in ToSet(release[<<"result", c>>]) /\ q # r => q \in ToSet(release'[<<"result", c>>])
      BY <1>1, <1>2, <1>4, PoppedFrames
    <3>5. provisional[c] \subseteq Resources /\ result[c].objects \subseteq Resources
      BY <1>0 DEF Types, ResultRecord
    <3>6. /\ \A q \in provisional'[c] : Unused(q)'
          /\ \/ result'[c].pc \in Undone \ {"settle"}
             \/ result'[c].failed /\ ~result'[c].cleaned
             => \A q \in result'[c].objects : Unused(q)'
      BY <1>1, <1>8, <3>1, <3>2, <3>5 DEF Outcome, Decision, Undone
    <3>7. result'[c].pc = "settle" => ~result'[c].failed
      BY <1>8, <3>1 DEF Outcome
    <3>8. result'[c].pc = "abandoning" =>
            \A q \in result'[c].objects : Gone(q)' \/ q \in ToSet(release'[<<"result", c>>])
      BY <1>8, <3>1, <3>2, <3>3, <3>4, <3>5 DEF Outcome
    <3>9. result'[c].pc = "finalizing" \/ (result'[c].pc = "end" /\ result'[c].cleaned) =>
            \A q \in result'[c].objects : Gone(q)' \/ ~AcceptsResourceCalls'
      BY <1>1, <1>8, <3>1, <3>2, <3>5 DEF Outcome, AcceptsResourceCalls
    <3>10. QED
      BY <3>6, <3>7, <3>8, <3>9 DEF Outcome
  <2>2. QED
    BY <2>1
<1>19. QED
  BY <1>9, <1>10, <1>11, <1>12, <1>13, <1>14, <1>15, <1>16, <1>17, <1>18, Together


-----------------------------------------------------------------------------
(***************************************************************************)
(* Decisions.                                                              *)
(***************************************************************************)
\* only the result of c changes, and it keeps its objects
OnlyResult(c) ==
  /\ result' \in [Calls -> ResultRecord]
  /\ result'[c].objects = result[c].objects
  /\ \A d \in Calls : d # c => result'[d] = result[d]

\* The new record is that of the result.
LEMMA ResultSet ==
  ASSUME Types, NEW c \in Calls, NEW new \in ResultRecord, result' = [result EXCEPT ![c] = new],
         new.objects = result[c].objects
  PROVE  OnlyResult(c) /\ result'[c] = new
  BY DEF OnlyResult, Types

\* What the other results and the registry keep.
LEMMA ResultFrames ==
  ASSUME RInv, NEW c \in Calls, OnlyResult(c)
  PROVE  /\ UNCHANGED <<provisional, res>> => Exported'
         /\ (\A d \in Calls : d # c => waiting'[d] = waiting[d] /\ left'[d] = left[d]) /\ Decision(c)'
            => \A d \in Calls : Decision(d)'
         /\ UNCHANGED <<provisional, res, release, state>> /\ Outcome(c)' => \A d \in Calls : Outcome(d)'
         /\ (result'[c].pc = "abandoning" <=> result[c].pc = "abandoning") => Abandoning' = Abandoning
         /\ UNCHANGED <<owners, provisional, call>> /\ Registered(c)' => AllRegistered'
         /\ UNCHANGED <<release, call, cleaner>>
            /\ (result[c].pc \in {"releasing", "abandoning"} => result'[c].pc = result[c].pc) => Executing'
         /\ UNCHANGED <<state, cleaner, lease, calls, owners, res>> /\ result'[c].pc # "none" => Cleaning'
<1>0. Types
  BY DEF RInv, KInv
<1>1. UNCHANGED <<provisional, res>> => Exported'
  <2>1. provisional' = provisional => \A d \in Calls : Of(d)' = Of(d)
    BY DEF OnlyResult, Of
  <2>2. QED
    BY <2>1 DEF RInv, OInv, Exported
<1>2. (\A d \in Calls : d # c => waiting'[d] = waiting[d] /\ left'[d] = left[d]) /\ Decision(c)'
      => \A d \in Calls : Decision(d)'
  BY DEF OnlyResult, RInv, OInv, Decision, Told
<1>3. UNCHANGED <<provisional, res, release, state>> /\ Outcome(c)' => \A d \in Calls : Outcome(d)'
  BY DEF OnlyResult, RInv, OInv, Outcome, Unused, Gone, AcceptsResourceCalls
<1>4. (result'[c].pc = "abandoning" <=> result[c].pc = "abandoning") => Abandoning' = Abandoning
  BY DEF OnlyResult, Abandoning
<1>5. UNCHANGED <<owners, provisional, call>> /\ Registered(c)' => AllRegistered'
  BY DEF OnlyResult, RInv, KInv, AllRegistered, Registered
<1>6. UNCHANGED <<release, call, cleaner>>
      /\ (result[c].pc \in {"releasing", "abandoning"} => result'[c].pc = result[c].pc) => Executing'
  BY DEF OnlyResult, RInv, KInv, Executing
<1>7. UNCHANGED <<state, cleaner, lease, calls, owners, res>> /\ result'[c].pc # "none" => Cleaning'
  BY <1>0 DEF OnlyResult, RInv, KInv, Cleaning, Held, Types
<1>8. QED
  BY <1>1, <1>2, <1>3, <1>4, <1>5, <1>6, <1>7

\* A step that only decides: the registry, the calls and the executors stay.
LEMMA DecidingKeeps ==
  ASSUME RInv, NEW c \in Calls, OnlyResult(c),
         UNCHANGED <<scenario, state, calls, lease, res, order, provisional, owners, call, release, cleaner>>,
         waiting' \in [Calls -> SUBSET Consumers],
         left' \in [Calls -> SUBSET (Consumers \X {"nil", "error"})],
         \A d \in Calls : d # c => waiting'[d] = waiting[d] /\ left'[d] = left[d],
         result'[c].pc # "none",
         result[c].pc \in {"releasing", "abandoning"} => result'[c].pc = result[c].pc,
         result'[c].pc = "abandoning" => result[c].pc = "abandoning",
         Registered(c)', Decision(c)', Outcome(c)'
  PROVE  RInv'
<1>1. Types'
  BY DEF RInv, KInv, Types, OnlyResult
<1>2. Counted'
  <2>1. ActiveCalls' = ActiveCalls /\ Drops' = Drops
    BY DEF ActiveCalls, Drops
  <2>2. Abandoning' = Abandoning
    BY ResultFrames
  <2>3. QED
    BY <2>1, <2>2 DEF RInv, KInv, Counted
<1>3. Borrowed' /\ Attempts' /\ AllKept'
  BY Frames
<1>4. /\ Executing' /\ AllRegistered' /\ Cleaning' /\ Exported'
      /\ (\A d \in Calls : Decision(d)') /\ \A d \in Calls : Outcome(d)'
  BY ResultFrames
<1>5. QED
  BY <1>1, <1>2, <1>3, <1>4, Together

\* The provider is asked once, while nothing of the result is active.
LEMMA ProviderDecidesKeeps ==
  ASSUME RInv, UNCHANGED scenario, NEW c \in Calls, NEW ok \in BOOLEAN, ProviderDecides(c, ok)
  PROVE  RInv'
<1>0. Types /\ Registered(c) /\ Decision(c) /\ Outcome(c)
  BY DEF RInv, KInv, OInv, AllRegistered
<1>1. /\ result[c].pc = "provider"
      /\ result' = [result EXCEPT ![c].pc = "finish", ![c].failed = ~ok]
      /\ UNCHANGED <<scenario, state, calls, lease, res, order, provisional, owners, call, release, cleaner,
                     waiting, left>>
  BY DEF ProviderDecides, registry, counters, ending
<1>2. /\ OnlyResult(c) /\ result'[c].pc = "finish"
      /\ result'[c].accepted = result[c].accepted /\ result'[c].done = result[c].done
      /\ result'[c].delivered = result[c].delivered
      /\ result'[c].abandoned = result[c].abandoned /\ result'[c].cleaned = result[c].cleaned
  <2>1. PICK new : new = [result[c] EXCEPT !.pc = "finish", !.failed = ~ok]
    OBVIOUS
  <2>2. result[c] \in ResultRecord /\ result' = [result EXCEPT ![c] = new]
    BY <1>0, <1>1, <2>1 DEF Types
  <2>3. /\ new \in ResultRecord /\ new.pc = "finish" /\ new.objects = result[c].objects
        /\ new.accepted = result[c].accepted /\ new.done = result[c].done
        /\ new.delivered = result[c].delivered
        /\ new.abandoned = result[c].abandoned /\ new.cleaned = result[c].cleaned
    BY <2>1, <2>2 DEF ResultRecord, ResultPcs
  <2>4. QED
    BY <1>0, <2>2, <2>3, ResultSet
<1>3. Registered(c)'
  BY <1>0, <1>1, <1>2 DEF OnlyResult, Registered, Undone
<1>4. ~result[c].done
  BY <1>0, <1>1 DEF Registered
<1>5. Decision(c)'
  BY <1>0, <1>1, <1>2, <1>4 DEF Decision, Told
<1>6. Outcome(c)'
  BY <1>0, <1>1, <1>2 DEF OnlyResult, Outcome, Undone, Unused
<1>7. waiting' \in [Calls -> SUBSET Consumers] /\ left' \in [Calls -> SUBSET (Consumers \X {"nil", "error"})]
  BY <1>0, <1>1 DEF Types
<1>8. QED
  BY <1>1, <1>2, <1>3, <1>5, <1>6, <1>7, DecidingKeeps


\* A consumer decides, joins the decision or is refused.
LEMMA DecideKeeps ==
  ASSUME RInv, UNCHANGED scenario, NEW c \in Calls, NEW k \in Consumers,
         NEW accept \in BOOLEAN, NEW canceledContext \in BOOLEAN, Decide(c, k, accept, canceledContext)
  PROVE  RInv'
<1>0. Types /\ Registered(c) /\ Decision(c) /\ Outcome(c)
  BY DEF RInv, KInv, OInv, AllRegistered
<1>1. /\ call[c].pc = "end" /\ (c \in owners \/ result[c].pc # "none")
      /\ UNCHANGED <<scenario, state, calls, lease, res, order, provisional, owners, call, release, cleaner>>
  BY DEF Decide, Published, registry, counters, ending
<1>2. CASE /\ result[c].pc = "none" /\ result' = Deciding(c, accept /\ ~canceledContext)
           /\ waiting' = [waiting EXCEPT ![c] = @ \cup {k}] /\ left' = left
  <2>1. PICK new : new = [result[c] EXCEPT !.pc = "provider", !.accepted = accept /\ ~canceledContext]
    OBVIOUS
  <2>2. result[c] \in ResultRecord /\ result' = [result EXCEPT ![c] = new]
    BY <1>0, <1>2, <2>1 DEF Types, Deciding
  <2>3. (accept /\ ~canceledContext) \in BOOLEAN
    OBVIOUS
  <2>4. /\ new \in ResultRecord /\ new.pc = "provider" /\ new.objects = result[c].objects
        /\ new.done = result[c].done /\ new.failed = result[c].failed
        /\ new.delivered = result[c].delivered
        /\ new.abandoned = result[c].abandoned /\ new.cleaned = result[c].cleaned
    BY <2>1, <2>2, <2>3 DEF ResultRecord, ResultPcs
  <2>5. OnlyResult(c) /\ result'[c] = new
    BY <1>0, <2>2, <2>4, ResultSet
  <2>6. ~result[c].done /\ ~result[c].delivered /\ ~result[c].cleaned /\ ~result[c].abandoned
    BY <1>0, <1>2 DEF Registered, Decision
  <2>7. Registered(c)'
    BY <1>0, <1>1, <1>2, <2>4, <2>5 DEF Registered, Undone
  <2>8. /\ waiting' \in [Calls -> SUBSET Consumers] /\ waiting'[c] # {}
        /\ \A d \in Calls : d # c => waiting'[d] = waiting[d]
    BY <1>0, <1>2 DEF Types
  <2>9. Decision(c)'
    BY <1>0, <1>2, <2>4, <2>5, <2>6, <2>8 DEF Decision, Told
  <2>10. Outcome(c)'
    BY <1>0, <1>1, <1>2, <2>4, <2>5 DEF Outcome, Undone, Unused
  <2>11. left' \in [Calls -> SUBSET (Consumers \X {"nil", "error"})]
    BY <1>0, <1>2 DEF Types
  <2>12. QED
    BY <1>1, <1>2, <2>4, <2>5, <2>7, <2>8, <2>9, <2>10, <2>11, DecidingKeeps
<1>3. CASE /\ result[c].pc # "none" /\ result' = result
           /\ ~(result[c].abandoned /\ result[c].accepted)
           /\ waiting' = [waiting EXCEPT ![c] = @ \cup {k}] /\ left' = left
  <2>1. OnlyResult(c)
    BY <1>0, <1>3 DEF OnlyResult, Types
  <2>2. /\ waiting' \in [Calls -> SUBSET Consumers] /\ waiting'[c] # {}
        /\ \A d \in Calls : d # c => waiting'[d] = waiting[d]
    BY <1>0, <1>3 DEF Types
  <2>3. Decision(c)'
    BY <1>0, <1>3, <2>2 DEF Decision, Told
  <2>4. Registered(c)' /\ Outcome(c)'
    BY <1>0, <1>1, <1>3 DEF Registered, Outcome, Unused, Gone, AcceptsResourceCalls
  <2>5. left' \in [Calls -> SUBSET (Consumers \X {"nil", "error"})]
    BY <1>0, <1>3 DEF Types
  <2>6. QED
    BY <1>1, <1>3, <2>1, <2>2, <2>3, <2>4, <2>5, DecidingKeeps
<1>4. CASE /\ result[c].pc # "none" /\ result' = result /\ waiting' = waiting
           /\ left' = [left EXCEPT ![c] = @ \cup {<<k, "error">>}]
  <2>1. OnlyResult(c)
    BY <1>0, <1>4 DEF OnlyResult, Types
  <2>2. /\ left' \in [Calls -> SUBSET (Consumers \X {"nil", "error"})]
        /\ left'[c] = left[c] \cup {<<k, "error">>}
        /\ \A d \in Calls : d # c => left'[d] = left[d]
    BY <1>0, <1>4 DEF Types
  <2>3. Told(c)' <=> Told(c)
    BY <2>2 DEF Told
  <2>4. Decision(c)'
    BY <1>0, <1>4, <2>3 DEF Decision
  <2>5. Registered(c)' /\ Outcome(c)'
    BY <1>0, <1>1, <1>4 DEF Registered, Outcome, Unused, Gone, AcceptsResourceCalls
  <2>6. waiting' \in [Calls -> SUBSET Consumers]
    BY <1>0, <1>4 DEF Types
  <2>7. QED
    BY <1>1, <1>4, <2>1, <2>2, <2>4, <2>5, <2>6, DecidingKeeps
<1>5. QED
  BY <1>2, <1>3, <1>4 DEF Decide, Undecided

\* Who is told nil has the result delivered to him, and it is abandoned no more.
LEMMA WaiterReturnsKeeps ==
  ASSUME RInv, UNCHANGED scenario, NEW c \in Calls, NEW k \in Consumers, WaiterReturns(c, k)
  PROVE  RInv'
<1>0. Types /\ Registered(c) /\ Decision(c) /\ Outcome(c)
  BY DEF RInv, KInv, OInv, AllRegistered
<1>1. /\ k \in waiting[c] /\ result[c].done
      /\ waiting' = [waiting EXCEPT ![c] = @ \ {k}]
      /\ left' = [left EXCEPT ![c] = @ \cup {<<k, IF result[c].failed THEN "error" ELSE "nil">>}]
      /\ result' = [result EXCEPT ![c].delivered = @ \/ ~result[c].failed]
      /\ UNCHANGED <<scenario, state, calls, lease, res, order, provisional, owners, call, release, cleaner>>
  BY DEF WaiterReturns, registry, counters, ending
<1>2. /\ OnlyResult(c) /\ result'[c].pc = result[c].pc
      /\ result'[c].accepted = result[c].accepted /\ result'[c].done = result[c].done
      /\ result'[c].failed = result[c].failed
      /\ result'[c].abandoned = result[c].abandoned /\ result'[c].cleaned = result[c].cleaned
      /\ result'[c].delivered <=> result[c].delivered \/ ~result[c].failed
  <2>1. result[c] \in ResultRecord
    BY <1>0 DEF Types
  <2>2. PICK d \in BOOLEAN : d <=> result[c].delivered \/ ~result[c].failed
    OBVIOUS
  <2>3. (result[c].delivered \/ ~result[c].failed) \in BOOLEAN
    BY <2>1 DEF ResultRecord
  <2>4. (result[c].delivered \/ ~result[c].failed) = d
    BY <2>2, <2>3
  <2>5. PICK new : new = [result[c] EXCEPT !.delivered = d]
    OBVIOUS
  <2>6. result' = [result EXCEPT ![c] = new]
    BY <1>0, <1>1, <2>4, <2>5 DEF Types
  <2>7. /\ new \in ResultRecord /\ new.pc = result[c].pc /\ new.objects = result[c].objects
        /\ new.accepted = result[c].accepted /\ new.done = result[c].done /\ new.failed = result[c].failed
        /\ new.abandoned = result[c].abandoned /\ new.cleaned = result[c].cleaned
        /\ new.delivered = d
    BY <2>1, <2>5 DEF ResultRecord
  <2>8. QED
    BY <1>0, <2>2, <2>6, <2>7, ResultSet
<1>3. /\ waiting' \in [Calls -> SUBSET Consumers]
      /\ \A d \in Calls : d # c => waiting'[d] = waiting[d]
  BY <1>0, <1>1 DEF Types
<1>4. PICK verdict \in {"nil", "error"} :
        /\ verdict = "nil" <=> ~result[c].failed
        /\ left' \in [Calls -> SUBSET (Consumers \X {"nil", "error"})]
        /\ left'[c] = left[c] \cup {<<k, verdict>>}
        /\ \A d \in Calls : d # c => left'[d] = left[d]
  <2>1. PICK verdict \in {"nil", "error"} : verdict = IF result[c].failed THEN "error" ELSE "nil"
    OBVIOUS
  <2>2. left' = [left EXCEPT ![c] = @ \cup {<<k, verdict>>}]
    BY <1>1, <2>1
  <2>3. QED
    BY <1>0, <2>1, <2>2 DEF Types
<1>5. Told(c)' <=> Told(c) \/ ~result[c].failed
  <2>1. <<k, verdict>>[2] = verdict
    OBVIOUS
  <2>2. Told(c)' <=> Told(c) \/ verdict = "nil"
    BY <1>4, <2>1 DEF Told
  <2>3. QED
    BY <1>4, <2>2
<1>6. ~(result[c].accepted /\ result[c].abandoned)
  BY <1>0, <1>1 DEF Decision
<1>7. result[c].pc # "none"
  BY <1>0, <1>1 DEF Decision
<1>8. Decision(c)'
  BY <1>0, <1>1, <1>2, <1>5, <1>6, <1>7 DEF Decision
<1>9. Registered(c)' /\ Outcome(c)'
  BY <1>0, <1>1, <1>2 DEF OnlyResult, Registered, Outcome, Unused, Gone, AcceptsResourceCalls
<1>10. QED
  BY <1>1, <1>2, <1>3, <1>4, <1>7, <1>8, <1>9, DecidingKeeps


\* A claim is made once, and only for a decision that is done.
Claims(r) == r.done /\ r.accepted /\ r.abandoned /\ ~r.cleaned /\ ~r.failed

LEMMA ClaimedResult ==
  ASSUME NEW r \in ResultRecord
  PROVE  /\ Claimed(r) \in ResultRecord
         /\ Claimed(r).objects = r.objects /\ Claimed(r).accepted = r.accepted
         /\ Claimed(r).done = r.done /\ Claimed(r).failed = r.failed
         /\ Claimed(r).delivered = r.delivered /\ Claimed(r).abandoned = r.abandoned
         /\ Claims(r) => Claimed(r).pc = "abandoned" /\ Claimed(r).cleaned
         /\ ~Claims(r) => Claimed(r) = r
<1>1. CASE Claims(r)
  <2>1. PICK new : new = [r EXCEPT !.cleaned = TRUE, !.pc = "abandoned"]
    OBVIOUS
  <2>2. Claimed(r) = new
    BY <1>1, <2>1 DEF Claims, Claimed
  <2>3. /\ new \in ResultRecord /\ new.pc = "abandoned" /\ new.cleaned
        /\ new.objects = r.objects /\ new.accepted = r.accepted
        /\ new.done = r.done /\ new.failed = r.failed
        /\ new.delivered = r.delivered /\ new.abandoned = r.abandoned
    BY <2>1 DEF ResultRecord, ResultPcs
  <2>4. QED
    BY <1>1, <2>2, <2>3
<1>2. CASE ~Claims(r)
  <2>1. Claimed(r) = r
    BY <1>2 DEF Claims, Claimed
  <2>2. QED
    BY <1>2, <2>1
<1>3. QED
  BY <1>1, <1>2

\* The last waiter that leaves undelivered abandons the result.
LEMMA WaiterCanceledKeeps ==
  ASSUME RInv, UNCHANGED scenario, NEW c \in Calls, NEW k \in Consumers, WaiterCanceled(c, k)
  PROVE  RInv'
<1>0. Types /\ Registered(c) /\ Decision(c) /\ Outcome(c)
  BY DEF RInv, KInv, OInv, AllRegistered
<1>1. /\ k \in waiting[c]
      /\ waiting' = [waiting EXCEPT ![c] = @ \ {k}]
      /\ left' = [left EXCEPT ![c] = @ \cup {<<k, "error">>}]
      /\ UNCHANGED <<scenario, state, calls, lease, res, order, provisional, owners, call, release, cleaner>>
  BY DEF WaiterCanceled, registry, counters, ending
<1>2. /\ waiting' \in [Calls -> SUBSET Consumers] /\ waiting'[c] = waiting[c] \ {k}
      /\ \A d \in Calls : d # c => waiting'[d] = waiting[d]
  BY <1>0, <1>1 DEF Types
<1>3. /\ left' \in [Calls -> SUBSET (Consumers \X {"nil", "error"})]
      /\ left'[c] = left[c] \cup {<<k, "error">>}
      /\ \A d \in Calls : d # c => left'[d] = left[d]
  BY <1>0, <1>1 DEF Types
<1>4. Told(c)' <=> Told(c)
  <2>1. <<k, "error">>[2] = "error"
    OBVIOUS
  <2>2. QED
    BY <1>3, <2>1 DEF Told
<1>5. PICK a \in BOOLEAN : a = (result[c].abandoned \/ (waiting'[c] = {} /\ ~result[c].delivered))
  <2>1. result[c].abandoned \in BOOLEAN
    BY <1>0 DEF Types, ResultRecord
  <2>2. QED
    BY <2>1
<1>6. PICK mid : mid = [result[c] EXCEPT !.abandoned = a]
  OBVIOUS
<1>7. /\ mid \in ResultRecord /\ mid.pc = result[c].pc /\ mid.objects = result[c].objects
      /\ mid.accepted = result[c].accepted /\ mid.done = result[c].done /\ mid.failed = result[c].failed
      /\ mid.delivered = result[c].delivered /\ mid.abandoned = a /\ mid.cleaned = result[c].cleaned
  BY <1>0, <1>5, <1>6 DEF Types, ResultRecord
<1>8. result' = [result EXCEPT ![c] = Claimed(mid)]
  BY <1>0, <1>5, <1>6 DEF WaiterCanceled, Types
<1>9. /\ Claimed(mid) \in ResultRecord /\ Claimed(mid).objects = result[c].objects
      /\ Claimed(mid).accepted = result[c].accepted /\ Claimed(mid).done = result[c].done
      /\ Claimed(mid).failed = result[c].failed /\ Claimed(mid).delivered = result[c].delivered
      /\ Claimed(mid).abandoned = a
      /\ Claims(mid) => Claimed(mid).pc = "abandoned" /\ Claimed(mid).cleaned
      /\ ~Claims(mid) => Claimed(mid).pc = result[c].pc /\ Claimed(mid).cleaned = result[c].cleaned
  BY <1>7, ClaimedResult
<1>10. OnlyResult(c) /\ result'[c] = Claimed(mid)
  BY <1>0, <1>8, <1>9, ResultSet
<1>11. /\ ~(result[c].accepted /\ result[c].abandoned) /\ ~result[c].cleaned
       /\ result[c].pc # "none"
  BY <1>0, <1>1 DEF Decision
<1>12. Claims(mid) <=> result[c].done /\ result[c].accepted /\ a /\ ~result[c].failed
  BY <1>7, <1>11 DEF Claims
<1>13. Claims(mid) => result[c].pc = "end"
  <2>1. result[c].done => result[c].pc \in {"abandoned", "abandoning", "finalizing", "end"}
    BY <1>0 DEF Registered
  <2>2. QED
    BY <1>0, <1>11, <1>12, <2>1 DEF Decision
<1>14. Registered(c)'
  BY <1>0, <1>1, <1>9, <1>10, <1>13 DEF Registered, Undone
<1>15. Decision(c)'
  <2>1. result[c].accepted => (a <=> waiting'[c] = {} /\ ~result[c].delivered)
    BY <1>5, <1>11
  <2>2. CASE Claims(mid)
    BY <1>0, <1>4, <1>9, <1>10, <1>11, <1>12, <2>1, <2>2 DEF Decision
  <2>3. CASE ~Claims(mid)
    BY <1>0, <1>4, <1>9, <1>10, <1>11, <1>12, <2>1, <2>3 DEF Decision
  <2>4. QED
    BY <2>2, <2>3
<1>16. Outcome(c)'
  <2>1. /\ provisional'[c] = provisional[c]
        /\ \A r : (Unused(r)' <=> Unused(r)) /\ (Gone(r)' <=> Gone(r))
        /\ AcceptsResourceCalls' <=> AcceptsResourceCalls
    BY <1>1 DEF Unused, Gone, AcceptsResourceCalls
  <2>2. CASE Claims(mid)
    BY <1>0, <1>9, <1>10, <1>12, <1>13, <2>1, <2>2 DEF Outcome, Undone
  <2>3. CASE ~Claims(mid)
    BY <1>0, <1>1, <1>9, <1>10, <2>1, <2>3 DEF Outcome
  <2>4. QED
    BY <2>2, <2>3
<1>17. QED
  BY <1>1, <1>2, <1>3, <1>9, <1>10, <1>11, <1>13, <1>14, <1>15, <1>16, DecidingKeeps

\* The decision is done: an acceptance nobody waits for any more is claimed.
LEMMA ResultCloseKeeps ==
  ASSUME RInv, UNCHANGED scenario, NEW c \in Calls, ResultClose(c)
  PROVE  RInv'
<1>0. Types /\ Registered(c) /\ Decision(c) /\ Outcome(c)
  BY DEF RInv, KInv, OInv, AllRegistered
<1>1. /\ result[c].pc \in {"close", "await"}
      /\ UNCHANGED <<scenario, state, calls, lease, res, order, provisional, owners, call, release, cleaner,
                     waiting, left>>
  BY DEF ResultClose, registry, counters, ending
<1>2. PICK mid : mid = [result[c] EXCEPT !.done = TRUE, !.pc = "end"]
  OBVIOUS
<1>3. /\ mid \in ResultRecord /\ mid.pc = "end" /\ mid.objects = result[c].objects
      /\ mid.accepted = result[c].accepted /\ mid.done /\ mid.failed = result[c].failed
      /\ mid.delivered = result[c].delivered /\ mid.abandoned = result[c].abandoned
      /\ mid.cleaned = result[c].cleaned
  <2>1. result[c] \in ResultRecord
    BY <1>0 DEF Types
  <2>2. QED
    BY <1>2, <2>1 DEF ResultRecord, ResultPcs
<1>4. result' = [result EXCEPT ![c] = Claimed(mid)]
  BY <1>0, <1>2 DEF ResultClose, Types
<1>5. /\ Claimed(mid) \in ResultRecord /\ Claimed(mid).objects = result[c].objects
      /\ Claimed(mid).accepted = result[c].accepted /\ Claimed(mid).done
      /\ Claimed(mid).failed = result[c].failed /\ Claimed(mid).delivered = result[c].delivered
      /\ Claimed(mid).abandoned = result[c].abandoned
      /\ Claims(mid) => Claimed(mid).pc = "abandoned" /\ Claimed(mid).cleaned
      /\ ~Claims(mid) => Claimed(mid).pc = "end" /\ Claimed(mid).cleaned = result[c].cleaned
  BY <1>3, ClaimedResult
<1>6. OnlyResult(c) /\ result'[c] = Claimed(mid)
  BY <1>0, <1>4, <1>5, ResultSet
<1>7. ~result[c].done /\ ~result[c].delivered /\ ~result[c].cleaned /\ c \notin owners
  BY <1>0, <1>1 DEF Registered, Decision, Undone
<1>8. Claims(mid) <=> result[c].accepted /\ result[c].abandoned /\ ~result[c].failed
  BY <1>3, <1>7 DEF Claims
<1>9. Registered(c)'
  BY <1>0, <1>1, <1>5, <1>6, <1>7 DEF Registered, Undone
<1>10. Decision(c)'
  <2>1. Told(c)' <=> Told(c)
    BY <1>1 DEF Told
  <2>2. QED
    BY <1>0, <1>1, <1>5, <1>6, <1>7, <1>8, <2>1 DEF Decision
<1>11. Outcome(c)'
  <2>1. /\ provisional'[c] = provisional[c]
        /\ \A r : (Unused(r)' <=> Unused(r)) /\ (Gone(r)' <=> Gone(r))
        /\ AcceptsResourceCalls' <=> AcceptsResourceCalls
    BY <1>1 DEF Unused, Gone, AcceptsResourceCalls
  <2>2. QED
    BY <1>0, <1>5, <1>6, <1>7, <1>8, <2>1 DEF Outcome, Undone
<1>12. waiting' \in [Calls -> SUBSET Consumers] /\ left' \in [Calls -> SUBSET (Consumers \X {"nil", "error"})]
  BY <1>0, <1>1 DEF Types
<1>13. QED
  BY <1>1, <1>5, <1>6, <1>9, <1>10, <1>11, <1>12, DecidingKeeps

\* The cleanup discards a result nobody decided, and joins the decision of any.
LEMMA CleanupResultKeeps ==
  ASSUME RInv, UNCHANGED scenario, NEW c \in Calls, CleanupResult(c)
  PROVE  RInv'
<1>0. Types /\ Registered(c) /\ Decision(c) /\ Outcome(c) /\ Cleaning
  BY DEF RInv, KInv, OInv, AllRegistered
<1>1. /\ cleaner.pc = "results" /\ c \in cleaner.results
      /\ UNCHANGED <<scenario, state, calls, lease, res, order, provisional, owners, call, release,
                     waiting, left>>
  BY DEF CleanupResult, registry, counters
<1>2. CASE result[c].pc = "none" /\ result' = Deciding(c, FALSE) /\ cleaner' = cleaner
  <2>1. PICK new : new = [result[c] EXCEPT !.pc = "provider", !.accepted = FALSE]
    OBVIOUS
  <2>2. result[c] \in ResultRecord /\ result' = [result EXCEPT ![c] = new]
    BY <1>0, <1>2, <2>1 DEF Types, Deciding
  <2>3. /\ new \in ResultRecord /\ new.pc = "provider" /\ new.objects = result[c].objects
        /\ ~new.accepted /\ new.done = result[c].done /\ new.failed = result[c].failed
        /\ new.delivered = result[c].delivered
        /\ new.abandoned = result[c].abandoned /\ new.cleaned = result[c].cleaned
    BY <2>1, <2>2 DEF ResultRecord, ResultPcs
  <2>4. OnlyResult(c) /\ result'[c] = new
    BY <1>0, <2>2, <2>3, ResultSet
  <2>5. ~result[c].done /\ ~result[c].cleaned /\ c \in owners
    BY <1>0, <1>1, <1>2 DEF Registered, Decision, Cleaning
  <2>6. Registered(c)'
    BY <1>0, <1>1, <1>2, <2>3, <2>4, <2>5 DEF Registered, Undone
  <2>7. Decision(c)'
    BY <1>0, <1>1, <1>2, <2>3, <2>4, <2>5 DEF Decision, Told
  <2>8. Outcome(c)'
    BY <1>0, <1>1, <1>2, <2>3, <2>4 DEF Outcome, Undone, Unused
  <2>9. waiting' \in [Calls -> SUBSET Consumers] /\ left' \in [Calls -> SUBSET (Consumers \X {"nil", "error"})]
    BY <1>0, <1>1 DEF Types
  <2>10. QED
    BY <1>1, <1>2, <2>3, <2>4, <2>6, <2>7, <2>8, <2>9, DecidingKeeps
<1>3. CASE result[c].done /\ cleaner' = [cleaner EXCEPT !.results = @ \ {c}] /\ result' = result
  <2>1. /\ cleaner' \in [pc : CleanerPcs, results : SUBSET Calls]
        /\ cleaner'.pc = cleaner.pc /\ cleaner'.results = cleaner.results \ {c}
    BY <1>0, <1>3 DEF Types
  <2>2. c \notin owners
    BY <1>0, <1>3 DEF Registered, Undone
  <2>3. Types'
    BY <1>0, <1>1, <1>3, <2>1 DEF Types
  <2>4. Cleaning'
    BY <1>0, <1>1, <1>3, <2>1, <2>2 DEF Cleaning, Held
  <2>5. Executing'
    BY <1>1, <1>3, <2>1 DEF RInv, KInv, Executing
  <2>6. /\ Counted' /\ Borrowed' /\ Attempts' /\ AllKept' /\ AllRegistered' /\ Exported'
        /\ (\A d \in Calls : Decision(d)') /\ \A d \in Calls : Outcome(d)'
    BY <1>1, <1>3, Frames
  <2>7. QED
    BY <2>3, <2>4, <2>5, <2>6, Together
<1>4. QED
  BY <1>2, <1>3 DEF CleanupResult, Undecided


LEMMA OnlyPcIsOnlyResult ==
  ASSUME NEW c \in Calls, NEW p, OnlyPc(c, p)
  PROVE  /\ OnlyResult(c) /\ result'[c].pc = p
         /\ (waiting' = waiting /\ left' = left /\ Decision(c) /\ p # "none" /\ result[c].pc # "none"
             /\ (p \in {"abandoned", "abandoning", "finalizing"} => result[c].cleaned)) => Decision(c)'
  BY DEF OnlyPc, OnlyResult, Decision, Told

\* A result that has settled is registered no more.
LEMMA ResultSettlesKeeps ==
  ASSUME RInv, UNCHANGED scenario, NEW c \in Calls, ResultSettles(c)
  PROVE  RInv'
<1>0. Types /\ Registered(c) /\ Decision(c) /\ Outcome(c)
  BY DEF RInv, KInv, OInv, AllRegistered
<1>1. /\ result[c].pc \in {"settle", "releasing"} /\ release[<<"result", c>>] = <<>>
      /\ owners' = owners \ {c} /\ result' = [result EXCEPT ![c].pc = "finalize"]
      /\ UNCHANGED <<scenario, state, calls, lease, res, order, provisional, call, release, cleaner,
                     waiting, left>>
  BY DEF ResultSettles, registry, ending
<1>2. OnlyPc(c, "finalize")
  BY <1>0, <1>1, ResultMoves DEF ResultPcs
<1>3. OnlyResult(c) /\ result'[c].pc = "finalize" /\ Decision(c)'
  BY <1>0, <1>1, <1>2, OnlyPcIsOnlyResult
<1>4. Types'
  BY <1>0, <1>1, <1>3 DEF Types, OnlyResult
<1>5. Counted'
  <2>1. Abandoning' = Abandoning
    BY <1>1, <1>3, ResultFrames
  <2>2. QED
    BY <1>1, <2>1 DEF RInv, KInv, Counted, ActiveCalls, Drops
<1>6. Borrowed' /\ Attempts' /\ AllKept'
  BY <1>1, Frames
<1>7. Executing'
  BY <1>1, <1>3 DEF OnlyResult, RInv, KInv, Executing
<1>8. AllRegistered'
  <2>1. Registered(c)'
    BY <1>0, <1>1, <1>2 DEF OnlyPc, Registered, Undone
  <2>2. \A d \in Calls : d # c => Registered(d)'
    BY <1>1, <1>3 DEF OnlyResult, RInv, KInv, AllRegistered, Registered
  <2>3. QED
    BY <2>1, <2>2 DEF AllRegistered
<1>9. Cleaning'
  BY <1>0, <1>1, <1>3 DEF OnlyResult, RInv, KInv, Cleaning, Held, Types
<1>10. Outcome(c)'
  BY <1>0, <1>1, <1>2 DEF OnlyPc, Outcome, Undone, Unused
<1>11. Exported' /\ (\A d \in Calls : Decision(d)') /\ \A d \in Calls : Outcome(d)'
  BY <1>1, <1>3, <1>10, ResultFrames
<1>12. QED
  BY <1>4, <1>5, <1>6, <1>7, <1>8, <1>9, <1>11, Together

LEMMA ResultFinalizeKeeps ==
  ASSUME RInv, UNCHANGED scenario, NEW c \in Calls, ResultFinalize(c)
  PROVE  RInv'
<1>0. Types /\ Registered(c) /\ Decision(c) /\ Outcome(c)
  BY DEF RInv, KInv, OInv, AllRegistered
<1>1. /\ result[c].pc \in {"finalize", "finalizing"} /\ Finalize
      /\ result' = [result EXCEPT ![c].pc =
            IF @ = "finalizing" THEN "end" ELSE IF Idle THEN "await" ELSE "close"]
      /\ UNCHANGED <<scenario, calls, res, order, provisional, owners, call, release, waiting, left>>
  BY DEF ResultFinalize, registry, counters
<1>2. PICK p \in {"end", "await", "close"} :
        /\ p = "end" <=> result[c].pc = "finalizing"
        /\ result' = [result EXCEPT ![c].pc = p]
  <2>1. CASE result[c].pc = "finalizing"
    BY <1>1, <2>1
  <2>2. CASE result[c].pc # "finalizing"
    BY <1>1, <2>2
  <2>3. QED
    BY <2>1, <2>2
<1>3. OnlyPc(c, p)
  BY <1>0, <1>2, ResultMoves DEF ResultPcs
<1>4. OnlyResult(c) /\ result'[c].pc = p /\ Decision(c)'
  BY <1>0, <1>1, <1>3, OnlyPcIsOnlyResult
<1>5. /\ state' \in {"open", "draining", "cleaning", "closed"}
      /\ cleaner' \in [pc : CleanerPcs, results : SUBSET Calls] /\ lease' = lease
      /\ AcceptsResourceCalls' => AcceptsResourceCalls
  BY <1>1, FinalizeFrames
<1>6. Types'
  BY <1>0, <1>1, <1>4, <1>5 DEF Types, OnlyResult
<1>7. Counted'
  <2>1. Abandoning' = Abandoning
    BY <1>1, <1>4, ResultFrames
  <2>2. QED
    BY <1>1, <2>1 DEF RInv, KInv, Counted, ActiveCalls, Drops
<1>8. Borrowed' /\ Attempts'
  BY <1>1, Frames
<1>9. AllKept'
  <2>1. Held' = Held
    BY <1>1 DEF Held
  <2>2. QED
    BY <1>1, <2>1, FinalizeFrames
<1>10. Cleaning'
  <2>1. Held' = Held
    BY <1>1 DEF Held
  <2>2. \A d \in Calls : result[d].pc # "none" => result'[d].pc # "none"
    BY <1>4 DEF OnlyResult
  <2>3. QED
    BY <1>1, <2>1, <2>2, FinalizeFrames
<1>11. Executing'
  <2>1. release[<<"result", c>>] = <<>>
    BY <1>1 DEF RInv, KInv, Executing
  <2>2. release[<<"cleaner">>] # <<>> => cleaner'.pc \in {"begin", "wait", "results", "release"}
    <3>1. Finalize => cleaner' = cleaner \/ cleaner' = [cleaner EXCEPT !.pc = "begin"]
      BY DEF Finalize
    <3>2. cleaner' = cleaner \/ cleaner'.pc = "begin"
      BY <1>0, <1>1, <3>1 DEF Types
    <3>3. QED
      BY <3>2 DEF RInv, KInv, Executing
  <2>3. QED
    BY <1>1, <1>4, <2>1, <2>2 DEF OnlyResult, RInv, KInv, Executing
<1>12. AllRegistered'
  <2>1. Registered(c)'
    BY <1>0, <1>1, <1>2, <1>3 DEF OnlyPc, Registered, Undone
  <2>2. QED
    BY <1>1, <1>4, <2>1, ResultFrames
<1>13. Exported' /\ \A d \in Calls : Decision(d)'
  BY <1>1, <1>4, ResultFrames
<1>14. \A d \in Calls : Outcome(d)'
  <2>1. \A r : (Unused(r)' <=> Unused(r)) /\ (Gone(r)' <=> Gone(r))
    BY <1>1 DEF Unused, Gone
  <2>2. Outcome(c)'
    <3>1. result[c].cleaned => result[c].done
      BY <1>0 DEF Decision
    <3>2. result[c].cleaned => result[c].pc = "finalizing"
      BY <1>0, <1>1, <3>1 DEF Registered
    <3>3. QED
      BY <1>0, <1>1, <1>2, <1>3, <1>5, <2>1, <3>2 DEF OnlyPc, Outcome, Undone
  <2>3. \A d \in Calls : d # c => Outcome(d)'
    BY <1>1, <1>4, <1>5, <2>1 DEF OnlyResult, RInv, OInv, Outcome
  <2>4. QED
    BY <2>2, <2>3
<1>15. QED
  BY <1>6, <1>7, <1>8, <1>9, <1>10, <1>11, <1>12, <1>13, <1>14, Together

\* The release of an abandoned acceptance has ended.
LEMMA AbandonEndKeeps ==
  ASSUME RInv, UNCHANGED scenario, NEW c \in Calls, AbandonEnd(c)
  PROVE  RInv'
<1>0. Types /\ Registered(c) /\ Decision(c) /\ Outcome(c)
  BY DEF RInv, KInv, OInv, AllRegistered
<1>1. /\ result[c].pc = "abandoning" /\ release[<<"result", c>>] = <<>>
      /\ calls' = calls - 1 /\ result' = [result EXCEPT ![c].pc = "finalizing"]
      /\ UNCHANGED <<scenario, state, lease, owners, res, order, provisional, call, release, cleaner,
                     waiting, left>>
  BY DEF AbandonEnd, registry, ending
<1>2. OnlyPc(c, "finalizing")
  BY <1>0, <1>1, ResultMoves DEF ResultPcs
<1>3. OnlyResult(c) /\ result'[c].pc = "finalizing" /\ Decision(c)'
  <2>1. result[c].cleaned
    BY <1>0, <1>1 DEF Decision
  <2>2. QED
    BY <1>0, <1>1, <1>2, <2>1, OnlyPcIsOnlyResult
<1>4. Cardinality(Abandoning') = Cardinality(Abandoning) - 1 /\ Abandoning # {}
  <2>1. c \in Abandoning /\ Abandoning' = Abandoning \ {c}
    BY <1>1, <1>3 DEF OnlyResult, Abandoning
  <2>2. QED
    BY <2>1, CountsAreFinite, OneLess
<1>5. calls # 0 /\ calls' \in Nat
  <2>1. calls # 0
    BY <1>4, NothingCounted DEF RInv, KInv
  <2>2. QED
    BY <1>0, <1>1, <2>1 DEF Types
<1>6. Counted'
  BY <1>1, <1>4, CountsAreFinite DEF RInv, KInv, Counted, ActiveCalls, Drops
<1>7. Types'
  BY <1>0, <1>1, <1>3, <1>5 DEF Types, OnlyResult
<1>8. Borrowed' /\ Attempts' /\ AllKept'
  BY <1>1, Frames
<1>9. Executing'
  BY <1>1, <1>3 DEF OnlyResult, RInv, KInv, Executing
<1>10. AllRegistered'
  <2>1. Registered(c)'
    BY <1>0, <1>1, <1>2 DEF OnlyPc, Registered, Undone
  <2>2. QED
    BY <1>1, <1>3, <2>1, ResultFrames
<1>11. Cleaning'
  BY <1>0, <1>1, <1>3, <1>5 DEF OnlyResult, RInv, KInv, Cleaning, Held, Types
<1>12. Outcome(c)'
  <2>1. ToSet(release[<<"result", c>>]) = {}
    BY <1>1 DEF ToSet
  <2>2. result[c].cleaned
    BY <1>0, <1>1 DEF Decision
  <2>3. QED
    BY <1>0, <1>1, <1>2, <2>1, <2>2 DEF OnlyPc, Outcome, Undone, Unused, Gone
<1>13. Exported' /\ (\A d \in Calls : Decision(d)') /\ \A d \in Calls : Outcome(d)'
  BY <1>1, <1>3, <1>12, ResultFrames
<1>14. QED
  BY <1>6, <1>7, <1>8, <1>9, <1>10, <1>11, <1>13, Together


\* An idle executor is given objects to release.
ListSet(e, s) ==
  /\ release' \in [Executors -> Seq(Resources)]
  /\ release'[e] = s
  /\ \A f \in Executors : f # e => release'[f] = release[f]

LEMMA ListedFrames ==
  ASSUME RInv, NEW e \in Executors, NEW s \in Seq(Resources), release[e] = <<>>,
         release' = [release EXCEPT ![e] = s]
  PROVE  /\ ListSet(e, s)
         /\ \A q : Listed(q) \/ q \in ToSet(s) => Listed(q)'
         /\ res' = res => Attempts'
<1>1. ListSet(e, s)
  BY DEF ListSet, RInv, KInv, Types
<1>2. \A f \in Executors : \A q : q \in ToSet(release[f]) => f # e
  BY DEF ToSet
<1>3. \A q : Listed(q) \/ q \in ToSet(s) => Listed(q)'
  BY <1>1, <1>2 DEF Listed, ListSet
<1>4. res' = res => Attempts'
  BY <1>1 DEF ListSet, RInv, KInv, Attempts, Attempt
<1>5. QED
  BY <1>1, <1>3, <1>4

\* An abandoned acceptance is released, unless the cleanup does it.
LEMMA AbandonBeginKeeps ==
  ASSUME RInv, UNCHANGED scenario, NEW c \in Calls, AbandonBegin(c)
  PROVE  RInv'
<1>0. Types /\ Registered(c) /\ Decision(c) /\ Outcome(c)
  BY DEF RInv, KInv, OInv, AllRegistered
<1>1. /\ result[c].pc = "abandoned"
      /\ UNCHANGED <<scenario, state, lease, owners, res, order, provisional, call, cleaner, waiting, left>>
  BY DEF AbandonBegin, registry, ending
<1>2. result[c].cleaned /\ release[<<"result", c>>] = <<>>
  BY <1>0, <1>1 DEF Decision, RInv, KInv, Executing
<1>3. CASE AcceptsResourceCalls /\ result[c].objects # {}
  <2>1. PICK objects \in SetToSeqs(result[c].objects) :
          /\ calls' = calls + 1
          /\ release' = [release EXCEPT ![<<"result", c>>] = objects]
          /\ result' = [result EXCEPT ![c].pc = "abandoning"]
    BY <1>3 DEF AbandonBegin
  <2>2. objects \in Seq(Resources) /\ ToSet(objects) = result[c].objects
    BY <1>0, <2>1, ToSetSequence DEF Types, ResultRecord
  <2>3. /\ ListSet(<<"result", c>>, objects)
        /\ \A q : Listed(q) \/ q \in ToSet(objects) => Listed(q)'
        /\ Attempts'
    BY <1>1, <1>2, <2>1, <2>2, ExecutorsDiffer, ListedFrames
  <2>4. OnlyPc(c, "abandoning")
    BY <1>0, <2>1, ResultMoves DEF ResultPcs
  <2>5. OnlyResult(c) /\ result'[c].pc = "abandoning" /\ Decision(c)'
    BY <1>0, <1>1, <1>2, <2>4, OnlyPcIsOnlyResult
  <2>6. Types'
    BY <1>0, <1>1, <2>1, <2>3, <2>5 DEF Types, OnlyResult, ListSet
  <2>7. Counted'
    <3>1. c \notin Abandoning /\ Abandoning' = Abandoning \cup {c}
      BY <1>1, <2>5 DEF OnlyResult, Abandoning
    <3>2. Cardinality(Abandoning') = Cardinality(Abandoning) + 1
      BY <3>1, CountsAreFinite, OneMore
    <3>3. QED
      BY <1>1, <2>1, <3>2, CountsAreFinite DEF RInv, KInv, Counted, ActiveCalls, Drops
  <2>8. Borrowed'
    BY <1>1, Frames
  <2>9. AllKept'
    BY <1>1, <2>3 DEF RInv, KInv, AllKept, Kept, Expected, AcceptsResourceCalls
  <2>10. Executing'
    BY <1>1, <2>3, <2>5, ExecutorsDiffer DEF OnlyResult, ListSet, RInv, KInv, Executing
  <2>11. AllRegistered'
    <3>1. Registered(c)'
      BY <1>0, <1>1, <2>4 DEF OnlyPc, Registered, Undone
    <3>2. QED
      BY <1>1, <2>5, <3>1, ResultFrames
  <2>12. Cleaning'
    BY <1>0, <1>1, <1>3, <2>5 DEF OnlyResult, RInv, KInv, Cleaning, Held, Types, AcceptsResourceCalls
  <2>13. Exported' /\ \A d \in Calls : Decision(d)'
    BY <1>1, <2>5, ResultFrames
  <2>14. \A d \in Calls : Outcome(d)'
    <3>1. /\ \A r : (Unused(r)' <=> Unused(r)) /\ (Gone(r)' <=> Gone(r))
          /\ AcceptsResourceCalls' <=> AcceptsResourceCalls
      BY <1>1 DEF Unused, Gone, AcceptsResourceCalls
    <3>2. Outcome(c)'
      BY <1>0, <1>1, <1>2, <2>2, <2>3, <2>4, <3>1 DEF OnlyPc, ListSet, Outcome, Undone
    <3>3. \A d \in Calls : d # c => Outcome(d)'
      BY <1>1, <2>3, <2>5, <3>1, ExecutorsDiffer DEF OnlyResult, ListSet, RInv, OInv, Outcome
    <3>4. QED
      BY <3>2, <3>3
  <2>15. QED
    BY <2>3, <2>6, <2>7, <2>8, <2>9, <2>10, <2>11, <2>12, <2>13, <2>14, Together
<1>4. CASE ~(AcceptsResourceCalls /\ result[c].objects # {})
  <2>1. result' = [result EXCEPT ![c].pc = "end"] /\ UNCHANGED <<calls, release>>
    BY <1>4 DEF AbandonBegin
  <2>2. OnlyPc(c, "end")
    BY <1>0, <2>1, ResultMoves DEF ResultPcs
  <2>3. OnlyResult(c) /\ result'[c].pc = "end" /\ Decision(c)'
    BY <1>0, <1>1, <2>2, OnlyPcIsOnlyResult
  <2>4. Registered(c)'
    BY <1>0, <1>1, <2>2 DEF OnlyPc, Registered, Undone
  <2>5. Outcome(c)'
    BY <1>0, <1>1, <1>2, <1>4, <2>1, <2>2 DEF OnlyPc, Outcome, Undone, Unused, AcceptsResourceCalls
  <2>6. waiting' \in [Calls -> SUBSET Consumers] /\ left' \in [Calls -> SUBSET (Consumers \X {"nil", "error"})]
    BY <1>0, <1>1 DEF Types
  <2>7. QED
    BY <1>1, <2>1, <2>3, <2>4, <2>5, <2>6, DecidingKeeps
<1>5. QED
  BY <1>3, <1>4

\* finishResult: the result's resources become active, or are listed.
LEMMA FinishResultKeeps ==
  ASSUME RInv, UNCHANGED scenario, NEW c \in Calls, FinishResult(c)
  PROVE  RInv'
<1>0. Types /\ Registered(c) /\ Decision(c) /\ Outcome(c)
  BY DEF RInv, KInv, OInv, AllRegistered
<1>1. /\ result[c].pc = "finish"
      /\ provisional' = [provisional EXCEPT ![c] = {}]
      /\ UNCHANGED <<scenario, state, calls, lease, owners, call, cleaner, waiting, left>>
  BY DEF FinishResult, counters, ending
<1>2. /\ c \in owners /\ provisional[c] \subseteq result[c].objects /\ result[c].objects \subseteq Resources
      /\ ~result[c].cleaned /\ release[<<"result", c>>] = <<>>
  <2>1. c \in owners /\ ~result[c].done
    BY <1>0, <1>1 DEF Registered, Undone
  <2>2. QED
    BY <1>0, <1>1, <2>1 DEF Registered, Decision, Types, ResultRecord, RInv, KInv, Executing
<1>3. /\ provisional' \in [Calls -> SUBSET Resources] /\ provisional'[c] = {}
      /\ \A d \in Calls : d # c => provisional'[d] = provisional[d]
  BY <1>0, <1>1 DEF Types
<1>4. \A d \in Calls : d # c => Of(d) \cap Of(c) = {} /\ Of(d) \subseteq Resources
  BY <1>0 DEF Of, RInv, OInv, Exported, Types, ResultRecord
<1>5. CASE result[c].accepted /\ ~result[c].failed /\ AcceptsResourceCalls
  <2>1. PICK adopted \in SetToSeqs(result[c].objects \cap Held) :
          /\ order' = order \o adopted
          /\ res' = [r \in Resources |-> IF r \in result[c].objects \cap Held
                                         THEN [res[r] EXCEPT !.active = TRUE] ELSE res[r]]
          /\ result' = [result EXCEPT ![c].pc = "settle"]
          /\ release' = release
    BY <1>5 DEF FinishResult
  <2>2. order' \in Seq(Resources) /\ ToSet(order') = ToSet(order) \cup (result[c].objects \cap Held)
    <3>1. adopted \in Seq(Resources) /\ ToSet(adopted) = result[c].objects \cap Held
      BY <1>2, <2>1, ToSetSequence
    <3>2. QED
      BY <1>0, <2>1, <3>1, ToSetConcat DEF Types
  <2>3. /\ res' \in [Resources -> Resource]
        /\ \A r \in Resources :
             /\ res'[r].st = res[r].st /\ res'[r].stage = res[r].stage /\ res'[r].by = res[r].by
             /\ res'[r].borrowed = res[r].borrowed
             /\ r \notin Of(c) => res'[r] = res[r]
             /\ res[r].st = "none" => res'[r] = res[r]
    <3>1. ASSUME NEW r \in Resources
          PROVE  /\ res'[r] \in Resource
                 /\ res'[r].st = res[r].st /\ res'[r].stage = res[r].stage /\ res'[r].by = res[r].by
                 /\ res'[r].borrowed = res[r].borrowed
                 /\ r \notin Of(c) => res'[r] = res[r]
                 /\ res[r].st = "none" => res'[r] = res[r]
      <4>1. res[r] \in Resource
        BY <1>0 DEF Types
      <4>2. CASE r \in result[c].objects \cap Held
        <5>1. res'[r] = [res[r] EXCEPT !.active = TRUE]
          BY <2>1, <4>2
        <5>2. r \in Of(c) /\ res[r].st = "held"
          BY <4>2 DEF Of, Held
        <5>3. QED
          BY <4>1, <5>1, <5>2 DEF Resource
      <4>3. CASE r \notin result[c].objects \cap Held
        BY <2>1, <4>1, <4>3
      <4>4. QED
        BY <4>2, <4>3
    <3>2. res' \in [Resources -> Resource]
      BY <2>1, <3>1
    <3>3. QED
      BY <3>1, <3>2
  <2>4. Held' = Held /\ Drops' = Drops
    BY <2>3 DEF Held, Drops
  <2>5. OnlyPc(c, "settle")
    BY <1>0, <2>1, ResultMoves DEF ResultPcs
  <2>6. OnlyResult(c) /\ result'[c].pc = "settle" /\ Decision(c)'
    BY <1>0, <1>1, <2>5, OnlyPcIsOnlyResult
  <2>7. Types'
    BY <1>0, <1>1, <1>3, <2>1, <2>2, <2>3, <2>6 DEF Types, OnlyResult
  <2>8. Counted'
    <3>1. Abandoning' = Abandoning
      BY <1>1, <2>6, ResultFrames
    <3>2. QED
      BY <1>1, <2>4, <3>1 DEF RInv, KInv, Counted, ActiveCalls
  <2>9. Borrowed'
    <3>1. \A r : Borrowers(r)' = Borrowers(r)
      BY <1>1 DEF Borrowers
    <3>2. \A r \in Resources : res'[r].borrowed = res[r].borrowed
      BY <2>3
    <3>3. QED
      BY <1>1, <3>1, <3>2 DEF RInv, KInv, Borrowed
  <2>10. Attempts'
    <3>1. ASSUME NEW r \in Resources PROVE Attempt(r)'
      <4>1. Attempt(r)
        BY DEF RInv, KInv, Attempts
      <4>2. res[r].st = "none" => ~res'[r].active
        BY <2>3, <4>1 DEF Attempt
      <4>3. QED
        BY <2>1, <2>3, <4>1, <4>2 DEF Attempt
    <3>2. QED
      BY <3>1 DEF Attempts
  <2>11. AllKept'
    <3>1. ASSUME NEW r \in Resources, res'[r].st = "held"
          PROVE  Listed(r)' \/ (AcceptsResourceCalls' /\ Expected(r)')
      <4>1. r \in Held /\ (Listed(r) \/ (AcceptsResourceCalls /\ Expected(r)))
        BY <2>3, <3>1 DEF RInv, KInv, AllKept, Kept, Held
      <4>2. Listed(r) => Listed(r)'
        BY <2>1 DEF Listed
      <4>3. Expected(r) => Expected(r)'
        BY <1>2, <1>3, <2>2, <4>1 DEF Expected
      <4>4. QED
        BY <1>1, <4>1, <4>2, <4>3 DEF AcceptsResourceCalls
    <3>2. QED
      BY <3>1 DEF AllKept, Kept
  <2>12. Executing'
    BY <1>1, <2>1, <2>6, ResultFrames
  <2>13. AllRegistered'
    <3>1. Registered(c)'
      BY <1>0, <1>1, <1>3, <2>5 DEF OnlyPc, Registered, Undone
    <3>2. \A d \in Calls : d # c => Registered(d)'
      BY <1>1, <1>3, <2>6 DEF OnlyResult, RInv, KInv, AllRegistered, Registered
    <3>3. QED
      BY <3>1, <3>2 DEF AllRegistered
  <2>14. Cleaning'
    BY <1>0, <1>1, <2>4, <2>6 DEF OnlyResult, RInv, KInv, Cleaning, Types
  <2>15. Exported'
    <3>1. \A d \in Calls : Of(d)' \subseteq Of(d) /\ Of(d) \subseteq Resources
      BY <1>0, <1>3, <2>6 DEF OnlyResult, Of, Types, ResultRecord
    <3>2. QED
      BY <2>3, <3>1 DEF RInv, OInv, Exported
  <2>16. \A d \in Calls : Decision(d)'
    BY <1>1, <2>6, ResultFrames
  <2>17. \A d \in Calls : Outcome(d)'
    <3>1. Outcome(c)'
      BY <1>2, <1>3, <1>5, <2>5 DEF OnlyPc, Outcome, Undone
    <3>2. ASSUME NEW d \in Calls, d # c PROVE Outcome(d)'
      <4>1. \A r \in Of(d) : (Unused(r)' <=> Unused(r)) /\ (Gone(r)' <=> Gone(r))
        BY <1>4, <2>3, <3>2 DEF Unused, Gone
      <4>2. provisional[d] \subseteq Of(d) /\ result[d].objects \subseteq Of(d)
        BY DEF Of
      <4>3. Outcome(d) /\ result'[d] = result[d] /\ provisional'[d] = provisional[d] /\ release' = release
            /\ (AcceptsResourceCalls' <=> AcceptsResourceCalls)
        BY <1>1, <1>3, <2>1, <2>6, <3>2 DEF OnlyResult, RInv, OInv, AcceptsResourceCalls
      <4>4. QED
        BY <4>1, <4>2, <4>3 DEF Outcome
    <3>3. QED
      BY <3>1, <3>2
  <2>18. QED
    BY <2>7, <2>8, <2>9, <2>10, <2>11, <2>12, <2>13, <2>14, <2>15, <2>16, <2>17, Together
<1>6. CASE ~(result[c].accepted /\ ~result[c].failed /\ AcceptsResourceCalls)
  <2>1. PICK objects \in SetToSeqs(result[c].objects) :
          /\ release' = [release EXCEPT ![<<"result", c>>] = objects]
          /\ result' = [result EXCEPT ![c].pc = "releasing"]
          /\ UNCHANGED <<res, order>>
    BY <1>6 DEF FinishResult
  <2>2. objects \in Seq(Resources) /\ ToSet(objects) = result[c].objects
    BY <1>2, <2>1, ToSetSequence
  <2>3. /\ ListSet(<<"result", c>>, objects)
        /\ \A q : Listed(q) \/ q \in ToSet(objects) => Listed(q)'
        /\ Attempts'
    BY <1>2, <2>1, <2>2, ExecutorsDiffer, ListedFrames
  <2>4. OnlyPc(c, "releasing")
    BY <1>0, <2>1, ResultMoves DEF ResultPcs
  <2>5. OnlyResult(c) /\ result'[c].pc = "releasing" /\ Decision(c)'
    BY <1>0, <1>1, <2>4, OnlyPcIsOnlyResult
  <2>6. Types'
    BY <1>0, <1>1, <1>3, <2>1, <2>3, <2>5 DEF Types, OnlyResult, ListSet
  <2>7. Counted'
    <3>1. Abandoning' = Abandoning
      BY <1>1, <2>5, ResultFrames
    <3>2. QED
      BY <1>1, <2>1, <3>1 DEF RInv, KInv, Counted, ActiveCalls, Drops
  <2>8. Borrowed'
    BY <1>1, <2>1, Frames
  <2>9. AllKept'
    BY <1>1, <1>2, <1>3, <2>1, <2>2, <2>3 DEF RInv, KInv, AllKept, Kept, Expected, AcceptsResourceCalls
  <2>10. Executing'
    BY <1>1, <2>3, <2>5, ExecutorsDiffer DEF OnlyResult, ListSet, RInv, KInv, Executing
  <2>11. AllRegistered'
    <3>1. Registered(c)'
      BY <1>0, <1>1, <1>3, <2>4 DEF OnlyPc, Registered, Undone
    <3>2. \A d \in Calls : d # c => Registered(d)'
      BY <1>1, <1>3, <2>5 DEF OnlyResult, RInv, KInv, AllRegistered, Registered
    <3>3. QED
      BY <3>1, <3>2 DEF AllRegistered
  <2>12. Cleaning'
    BY <1>0, <1>1, <2>1, <2>5 DEF OnlyResult, RInv, KInv, Cleaning, Held, Types
  <2>13. Exported'
    <3>1. \A d \in Calls : Of(d)' \subseteq Of(d)
      BY <1>3, <2>5 DEF OnlyResult, Of
    <3>2. QED
      BY <2>1, <3>1 DEF RInv, OInv, Exported
  <2>14. \A d \in Calls : Decision(d)'
    BY <1>1, <2>5, ResultFrames
  <2>15. \A d \in Calls : Outcome(d)'
    <3>1. /\ \A r : (Unused(r)' <=> Unused(r)) /\ (Gone(r)' <=> Gone(r))
          /\ AcceptsResourceCalls' <=> AcceptsResourceCalls
      BY <1>1, <2>1 DEF Unused, Gone, AcceptsResourceCalls
    <3>2. Outcome(c)'
      BY <1>0, <1>1, <1>2, <1>3, <2>4, <3>1 DEF OnlyPc, Outcome, Undone
    <3>3. \A d \in Calls : d # c => Outcome(d)'
      BY <1>1, <1>3, <2>3, <2>5, <3>1, ExecutorsDiffer DEF OnlyResult, ListSet, RInv, OInv, Outcome
    <3>4. QED
      BY <3>2, <3>3
  <2>16. QED
    BY <2>3, <2>6, <2>7, <2>8, <2>9, <2>10, <2>11, <2>12, <2>13, <2>14, <2>15, Together
<1>7. QED
  BY <1>5, <1>6


-----------------------------------------------------------------------------
(***************************************************************************)
(* Close, Shutdown and the cleanup.                                        *)
(***************************************************************************)
\* A step that touches neither the registry nor a call or a decision.
LEMMA EndingKeeps ==
  ASSUME RInv, UNCHANGED <<scenario, calls, res, order, provisional, owners, call, result, waiting, left>>,
         state' \in {"open", "draining", "cleaning", "closed"}, lease' \in BOOLEAN,
         cleaner' \in [pc : CleanerPcs, results : SUBSET Calls],
         release' \in [Executors -> Seq(Resources)],
         \A c \in Calls : release'[<<"result", c>>] = release[<<"result", c>>],
         AcceptsResourceCalls' => AcceptsResourceCalls,
         Attempts', AllKept', Executing', Cleaning'
  PROVE  RInv'
<1>1. Types'
  BY DEF RInv, KInv, Types
<1>2. Counted' /\ Borrowed' /\ AllRegistered' /\ Exported' /\ \A c \in Calls : Decision(c)'
  BY Frames
<1>3. \A c \in Calls : Outcome(c)'
  BY DEF RInv, OInv, Outcome, Unused, Gone
<1>4. QED
  BY <1>1, <1>2, <1>3, Together

LEMMA CloseSetKeeps ==
  ASSUME RInv, UNCHANGED scenario, CloseSet
  PROVE  RInv'
<1>0. Types /\ Cleaning
  BY DEF RInv, KInv
<1>1. /\ state = "open" /\ state' = "draining"
      /\ UNCHANGED <<calls, res, order, provisional, owners, call, result, waiting, left, release,
                     cleaner, lease>>
  BY DEF CloseSet, registry, counters, decisions
<1>2. AcceptsResourceCalls' /\ AcceptsResourceCalls
  BY <1>1 DEF AcceptsResourceCalls
<1>3. Attempts' /\ Executing'
  BY <1>1, Frames
<1>4. AllKept'
  BY <1>1, <1>2 DEF RInv, KInv, AllKept, Kept, Listed, Expected
<1>5. Cleaning'
  BY <1>0, <1>1 DEF Cleaning, Held
<1>6. QED
  BY <1>0, <1>1, <1>2, <1>3, <1>4, <1>5, EndingKeeps DEF Types

LEMMA CloseFinalizeKeeps ==
  ASSUME RInv, UNCHANGED scenario, CloseFinalize
  PROVE  RInv'
<1>0. Types
  BY DEF RInv, KInv
<1>1. /\ Finalize
      /\ UNCHANGED <<calls, res, order, provisional, owners, call, result, waiting, left, release>>
  BY DEF CloseFinalize, registry, counters, decisions
<1>2. Held' = Held
  BY <1>1 DEF Held
<1>3. /\ state' \in {"open", "draining", "cleaning", "closed"}
      /\ cleaner' \in [pc : CleanerPcs, results : SUBSET Calls] /\ lease' = lease
      /\ AcceptsResourceCalls' => AcceptsResourceCalls
      /\ AllKept' /\ Executing' /\ Cleaning'
  BY <1>1, <1>2, FinalizeFrames
<1>4. Attempts'
  BY <1>1, Frames
<1>5. QED
  BY <1>0, <1>1, <1>3, <1>4, EndingKeeps DEF Types

\* Shutdown lists what is registered, and so what anybody expected.
LEMMA ShutdownKeeps ==
  ASSUME RInv, UNCHANGED scenario, Shutdown
  PROVE  RInv'
<1>0. Types /\ Cleaning /\ Executing
  BY DEF RInv, KInv
<1>1. PICK loose \in SetToSeqs(UNION {provisional[c] : c \in Calls}) :
        release' = [release EXCEPT ![<<"cleaner">>] = Reverse(order \o loose)]
  BY DEF Shutdown
<1>2. /\ AcceptsResourceCalls /\ state' = "cleaning" /\ cleaner' = [cleaner EXCEPT !.pc = "begin"]
      /\ UNCHANGED <<calls, res, order, provisional, owners, call, result, waiting, left, lease>>
  BY DEF Shutdown, registry, counters, decisions
<1>3. cleaner.pc = "none" /\ release[<<"cleaner">>] = <<>>
  BY <1>0, <1>2 DEF Cleaning, Executing, AcceptsResourceCalls
<1>4. /\ cleaner' \in [pc : CleanerPcs, results : SUBSET Calls] /\ cleaner'.pc = "begin"
      /\ cleaner'.results = cleaner.results
  BY <1>0, <1>2 DEF Types, CleanerPcs
<1>5. PICK s \in Seq(Resources) : /\ s = Reverse(order \o loose)
                                  /\ ToSet(s) = ToSet(order) \cup UNION {provisional[c] : c \in Calls}
  <2>1. UNION {provisional[c] : c \in Calls} \subseteq Resources
    BY <1>0 DEF Types
  <2>2. loose \in Seq(Resources) /\ ToSet(loose) = UNION {provisional[c] : c \in Calls}
    BY <1>1, <2>1, ToSetSequence
  <2>3. order \o loose \in Seq(Resources) /\ ToSet(order \o loose) = ToSet(order) \cup ToSet(loose)
    BY <1>0, <2>2, ToSetConcat DEF Types
  <2>4. QED
    BY <2>2, <2>3, ToSetReverse
<1>6. /\ ListSet(<<"cleaner">>, s)
      /\ \A q : Listed(q) \/ q \in ToSet(s) => Listed(q)'
      /\ Attempts'
  BY <1>1, <1>2, <1>3, <1>5, ExecutorsDiffer, ListedFrames
<1>7. AllKept'
  BY <1>2, <1>5, <1>6 DEF RInv, KInv, AllKept, Kept, Expected
<1>8. Executing'
  BY <1>0, <1>2, <1>4, <1>6, ExecutorsDiffer DEF ListSet, Executing
<1>9. Cleaning'
  BY <1>0, <1>2, <1>3, <1>4 DEF Cleaning, Held, AcceptsResourceCalls
<1>10. /\ release' \in [Executors -> Seq(Resources)]
       /\ \A c \in Calls : release'[<<"result", c>>] = release[<<"result", c>>]
  BY <1>6, ExecutorsDiffer DEF ListSet
<1>11. /\ ~AcceptsResourceCalls' /\ lease' \in BOOLEAN
       /\ state' \in {"open", "draining", "cleaning", "closed"}
  BY <1>0, <1>2 DEF AcceptsResourceCalls, Types
<1>12. QED
  BY <1>2, <1>4, <1>6, <1>7, <1>8, <1>9, <1>10, <1>11, EndingKeeps

\* Nobody but the cleanup has anything left to release once it has joined the
\* calls and the results.
LEMMA NothingListed ==
  ASSUME RInv, calls = 0, owners = {}, release[<<"cleaner">>] = <<>>
  PROVE  \A r : ~Listed(r)
<1>1. ActiveCalls = {} /\ Abandoning = {}
  BY NothingCounted DEF RInv, KInv
<1>2. \A c \in Calls : release[<<"call", c>>] = <<>>
  BY <1>1 DEF ActiveCalls, Active, RInv, KInv, Executing
<1>3. ASSUME NEW c \in Calls, release[<<"result", c>>] # <<>> PROVE FALSE
  <2>1. result[c].pc \in {"releasing", "abandoning"}
    BY <1>3 DEF RInv, KInv, Executing
  <2>2. result[c].pc # "abandoning"
    BY <1>1 DEF Abandoning
  <2>3. result[c].pc # "releasing"
    BY DEF RInv, KInv, AllRegistered, Registered, Undone
  <2>4. QED
    BY <2>1, <2>2, <2>3
<1>4. \A e \in Executors : release[e] = <<>>
  BY <1>2, <1>3, ExecutorsDiffer
<1>5. QED
  BY <1>4 DEF Listed, ToSet

\* What the cleanup does between Shutdown and its end.
LEMMA CleanupKeeps ==
  ASSUME RInv, UNCHANGED scenario, CleanupCancel \/ CleanupBarrier \/ CleanupRelease \/ CleanupLease
  PROVE  RInv'
<1>0. Types /\ Cleaning /\ Executing
  BY DEF RInv, KInv
<1>1. UNCHANGED <<state, calls, res, order, provisional, owners, call, result, waiting, left, release>>
  BY DEF CleanupCancel, CleanupBarrier, CleanupRelease, CleanupLease, registry, counters, decisions
<1>2. Attempts' /\ AllKept'
  BY <1>1, Frames
<1>3. AcceptsResourceCalls' <=> AcceptsResourceCalls
  BY <1>1 DEF AcceptsResourceCalls
<1>4. Held' = Held
  BY <1>1 DEF Held
<1>5. /\ cleaner' \in [pc : CleanerPcs, results : SUBSET Calls] /\ lease' \in BOOLEAN
      /\ Cleaning' /\ Executing'
  <2>1. CASE CleanupCancel
    <3>1. cleaner.pc = "begin" /\ lease' = lease /\ cleaner' = [cleaner EXCEPT !.pc = "wait"]
      BY <2>1 DEF CleanupCancel
    <3>2. /\ cleaner' \in [pc : CleanerPcs, results : SUBSET Calls]
          /\ cleaner'.pc = "wait" /\ cleaner'.results = cleaner.results
      BY <1>0, <3>1 DEF Types, CleanerPcs
    <3>3. Cleaning'
      BY <1>0, <1>1, <1>4, <3>1, <3>2 DEF Cleaning
    <3>4. Executing'
      BY <1>0, <1>1, <3>2 DEF Executing
    <3>5. QED
      BY <1>0, <3>1, <3>2, <3>3, <3>4 DEF Types
  <2>2. CASE CleanupBarrier
    <3>1. cleaner.pc = "wait" /\ calls = 0 /\ lease' = lease /\ cleaner' = [pc |-> "results", results |-> owners]
      BY <2>2 DEF CleanupBarrier
    <3>2. cleaner' \in [pc : CleanerPcs, results : SUBSET Calls]
      BY <1>0, <3>1 DEF Types, CleanerPcs
    <3>3. Cleaning'
      BY <1>0, <1>1, <1>4, <3>1 DEF Cleaning
    <3>4. Executing'
      BY <1>0, <1>1, <3>1 DEF Executing
    <3>5. QED
      BY <1>0, <3>1, <3>2, <3>3, <3>4 DEF Types
  <2>3. CASE CleanupRelease
    <3>1. /\ cleaner.pc = "results" /\ cleaner.results = {} /\ lease' = lease
          /\ cleaner' = [cleaner EXCEPT !.pc = "release"]
      BY <2>3 DEF CleanupRelease
    <3>2. /\ cleaner' \in [pc : CleanerPcs, results : SUBSET Calls]
          /\ cleaner'.pc = "release" /\ cleaner'.results = {}
      BY <1>0, <3>1 DEF Types, CleanerPcs
    <3>3. Cleaning'
      BY <1>0, <1>1, <1>4, <3>1, <3>2 DEF Cleaning
    <3>4. Executing'
      BY <1>0, <1>1, <3>2 DEF Executing
    <3>5. QED
      BY <1>0, <3>1, <3>2, <3>3, <3>4 DEF Types
  <2>4. CASE CleanupLease
    <3>1. /\ cleaner.pc = "release" /\ release[<<"cleaner">>] = <<>> /\ lease' = FALSE
          /\ cleaner' = [cleaner EXCEPT !.pc = "lease"]
      BY <2>4 DEF CleanupLease
    <3>2. /\ cleaner' \in [pc : CleanerPcs, results : SUBSET Calls]
          /\ cleaner'.pc = "lease" /\ cleaner'.results = cleaner.results
      BY <1>0, <3>1 DEF Types, CleanerPcs
    <3>3. calls = 0 /\ owners = {} /\ cleaner.results = {} /\ ~AcceptsResourceCalls
      BY <1>0, <3>1 DEF Cleaning, AcceptsResourceCalls
    <3>4. \A r : ~Listed(r)
      BY <3>1, <3>3, NothingListed
    <3>5. Held = {}
      BY <3>3, <3>4 DEF RInv, KInv, AllKept, Kept, Held
    <3>6. Cleaning'
      BY <1>0, <1>1, <1>4, <3>1, <3>2, <3>3, <3>5 DEF Cleaning
    <3>7. Executing'
      BY <1>0, <1>1, <3>1, <3>2 DEF Executing
    <3>8. QED
      BY <3>1, <3>2, <3>6, <3>7
  <2>5. QED
    BY <2>1, <2>2, <2>3, <2>4
<1>6. QED
  BY <1>0, <1>1, <1>2, <1>3, <1>5, EndingKeeps DEF Types

\* The registry that is dropped is empty of held resources.
LEMMA CleanupEndKeeps ==
  ASSUME RInv, UNCHANGED scenario, CleanupEnd
  PROVE  RInv' /\ Held = {} /\ res' = res
<1>0. Types /\ Cleaning /\ Executing
  BY DEF RInv, KInv
<1>1. /\ cleaner.pc = "lease" /\ state' = "closed" /\ cleaner' = [cleaner EXCEPT !.pc = "end"]
      /\ res' = [r \in Resources |-> IF r \in Held THEN [res[r] EXCEPT !.st = "lost"] ELSE res[r]]
      /\ order' = <<>> /\ provisional' = [c \in Calls |-> {}] /\ owners' = {}
      /\ UNCHANGED <<lease, call, release, calls, result, waiting, left>>
  BY DEF CleanupEnd, decisions
<1>2. Held = {} /\ owners = {}
  BY <1>0, <1>1 DEF Cleaning
<1>3. res' = res
  BY <1>0, <1>1, <1>2 DEF Types
<1>4. /\ cleaner' \in [pc : CleanerPcs, results : SUBSET Calls]
      /\ cleaner'.pc = "end" /\ cleaner'.results = cleaner.results
  BY <1>0, <1>1 DEF Types, CleanerPcs
<1>5. Types'
  <2>1. order' \in Seq(Resources) /\ provisional' \in [Calls -> SUBSET Resources] /\ owners' \subseteq Calls
    BY <1>1
  <2>2. state' \in {"open", "draining", "cleaning", "closed"}
    BY <1>1
  <2>3. QED
    BY <1>0, <1>1, <1>3, <1>4, <2>1, <2>2 DEF Types
<1>6. Counted' /\ Borrowed' /\ Attempts' /\ \A c \in Calls : Decision(c)'
  BY <1>1, <1>3, Frames
<1>7. AllKept'
  BY <1>2, <1>3 DEF AllKept, Kept, Held
<1>8. Executing'
  BY <1>0, <1>1 , <1>4 DEF Executing, Cleaning
<1>9. AllRegistered'
  BY <1>1, <1>2 DEF RInv, KInv, AllRegistered, Registered
<1>10. Cleaning'
  BY <1>0, <1>1, <1>2, <1>3, <1>4 DEF Cleaning, Held
<1>11. Exported'
  <2>1. \A c \in Calls : Of(c)' \subseteq Of(c)
    BY <1>1 DEF Of
  <2>2. QED
    BY <1>3, <2>1 DEF RInv, OInv, Exported
<1>12. \A c \in Calls : Outcome(c)'
  <2>1. ~AcceptsResourceCalls'
    BY <1>1 DEF AcceptsResourceCalls
  <2>2. QED
    BY <1>1, <1>3, <2>1 DEF RInv, OInv, Outcome, Unused, Gone
<1>13. QED
  BY <1>2, <1>3, <1>5, <1>6, <1>7, <1>8, <1>9, <1>10, <1>11, <1>12, Together


-----------------------------------------------------------------------------
(***************************************************************************)
(* The inductive invariant.                                                *)
(***************************************************************************)
LEMMA RInitially ==
  ASSUME Init
  PROVE  RInv
<1>1. scenario \in Scenarios /\ scenario.accepted \in Seq(Resources)
  BY RouteSetAssumption DEF Init
<1>2. ToSet(scenario.accepted) \subseteq Resources
  BY <1>1 DEF ToSet
<1>3. /\ res \in [Resources -> Resource]
      /\ \A r \in Resources : /\ res[r].st = IF r \in ToSet(scenario.accepted) THEN "held" ELSE "none"
                              /\ res[r].active <=> r \in ToSet(scenario.accepted)
                              /\ res[r].borrowed = 0 /\ res[r].stage = "none" /\ res[r].by = None
  <2>1. res = [r \in Resources |->
                [st |-> IF r \in ToSet(scenario.accepted) THEN "held" ELSE "none",
                 active |-> r \in ToSet(scenario.accepted),
                 borrowed |-> 0, stage |-> "none", by |-> None]]
    BY DEF Init
  <2>2. ASSUME NEW r \in Resources
        PROVE  /\ res[r] \in Resource
               /\ res[r].st = IF r \in ToSet(scenario.accepted) THEN "held" ELSE "none"
               /\ res[r].active <=> r \in ToSet(scenario.accepted)
               /\ res[r].borrowed = 0 /\ res[r].stage = "none" /\ res[r].by = None
    <3>1. PICK st \in {"held", "none"} : st = IF r \in ToSet(scenario.accepted) THEN "held" ELSE "none"
      OBVIOUS
    <3>2. PICK a \in BOOLEAN : a = (r \in ToSet(scenario.accepted))
      <4>1. CASE r \in ToSet(scenario.accepted)
        <5>1. (r \in ToSet(scenario.accepted)) = TRUE
          BY <4>1
        <5>2. QED
          BY <5>1
      <4>2. CASE r \notin ToSet(scenario.accepted)
        <5>1. (r \in ToSet(scenario.accepted)) = FALSE
          BY <4>2
        <5>2. QED
          BY <5>1
      <4>3. QED
        BY <4>1, <4>2
    <3>3. res[r] = [st |-> st, active |-> a, borrowed |-> 0, stage |-> "none", by |-> None]
      BY <2>1, <3>1, <3>2
    <3>4. a <=> r \in ToSet(scenario.accepted)
      BY <3>2, Zenon
    <3>5. /\ res[r] \in Resource /\ res[r].st = st /\ res[r].active = a
          /\ res[r].borrowed = 0 /\ res[r].stage = "none" /\ res[r].by = None
      BY <3>1, <3>3 DEF Resource, Stages
    <3>6. QED
      BY <3>1, <3>4, <3>5
  <2>3. QED
    BY <2>1, <2>2
<1>4. /\ state = "open" /\ calls = 0 /\ lease = TRUE /\ order = scenario.accepted
      /\ provisional = [c \in Calls |-> {}] /\ owners = {}
      /\ call = [c \in Calls |-> NoCall] /\ result = [c \in Calls |-> NoResult]
      /\ waiting = [c \in Calls |-> {}] /\ left = [c \in Calls |-> {}]
      /\ release = [e \in Executors |-> <<>>]
      /\ cleaner = [pc |-> "none", results |-> {}]
  BY DEF Init
<1>5. NoCall \in CallRecord /\ NoCall.pc = "idle" /\ NoCall.borrows = {}
  BY DEF NoCall, CallRecord, CallPcs
<1>6. /\ NoResult \in ResultRecord /\ NoResult.pc = "none" /\ NoResult.objects = {}
      /\ ~NoResult.accepted /\ ~NoResult.done /\ ~NoResult.failed
      /\ ~NoResult.delivered /\ ~NoResult.abandoned /\ ~NoResult.cleaned
  BY DEF NoResult, ResultRecord, ResultPcs
<1>7. Types
  BY <1>1, <1>3, <1>4, <1>5, <1>6 DEF Types, CleanerPcs
<1>8. Counted
  <2>1. ActiveCalls = {} /\ Drops = {} /\ Abandoning = {}
    BY <1>3, <1>4, <1>5, <1>6 DEF ActiveCalls, Active, Drops, Abandoning
  <2>2. QED
    BY <1>4, <2>1, FS_EmptySet DEF Counted
<1>9. Borrowed
  <2>1. \A r : Borrowers(r) = {}
    BY <1>4, <1>5 DEF Borrowers
  <2>2. QED
    BY <1>3, <1>4, <1>5, <2>1, FS_EmptySet DEF Borrowed
<1>10. Attempts
  BY <1>3, ExecutorsDiffer DEF Attempts, Attempt
<1>11. AllKept
  BY <1>3, <1>4 DEF AllKept, Kept, Expected, AcceptsResourceCalls
<1>12. Executing /\ AllRegistered /\ Cleaning
  BY <1>4, <1>5, <1>6, ExecutorsDiffer DEF Executing, AllRegistered, Registered, Cleaning, Undone
<1>13. Exported
  BY <1>4, <1>6 DEF Exported, Of
<1>14. \A c \in Calls : Decision(c) /\ Outcome(c)
  BY <1>4, <1>6 DEF Decision, Told, Outcome, Undone
<1>15. QED
  BY <1>7, <1>8, <1>9, <1>10, <1>11, <1>12, <1>13, <1>14 DEF RInv, KInv, OInv

\* A call, a request or a goroutine takes a step, and the invariant stands.
LEMMA RStep ==
  ASSUME RInv, [Next]_vars
  PROVE  RInv'
<1>1. CASE UNCHANGED vars
  <2>1. UNCHANGED <<state, calls, lease, res, order, provisional, owners, call, result, waiting, left,
                    release, cleaner, scenario>>
    BY <1>1 DEF vars
  <2>2. Types'
    BY <2>1 DEF RInv, KInv, Types
  <2>3. QED
    BY <2>1, <2>2, Frames, Together
<1>2. ASSUME UNCHANGED scenario, NEW c \in Calls, CallStep(c) PROVE RInv'
  BY <1>2, HandlerReturnKeeps, HandlerDropReturnsKeeps, CallFailKeeps, CallPublishKeeps, CallLeaveKeeps,
     CallFinalizeKeeps DEF CallStep
<1>3. ASSUME UNCHANGED scenario, NEW c \in Calls, ResultStep(c) PROVE RInv'
  BY <1>3, ProviderDecidesKeeps, FinishResultKeeps, ResultSettlesKeeps, ResultFinalizeKeeps,
     ResultCloseKeeps, AbandonBeginKeeps, AbandonEndKeeps, WaiterReturnsKeeps DEF ResultStep
<1>4. ASSUME UNCHANGED scenario, ReleaseStep PROVE RInv'
  BY <1>4, ReleaseTakeKeeps, ReleaseEndsKeeps, CloseBeginsKeeps, DropFinalizeKeeps, DropAwaitKeeps,
     DropEndsKeeps DEF ReleaseStep
<1>5. ASSUME UNCHANGED scenario, CleanupStep PROVE RInv'
  BY <1>5, CleanupKeeps, CleanupEndKeeps, CleanupResultKeeps DEF CleanupStep
<1>6. ASSUME UNCHANGED scenario, Request PROVE RInv'
  BY <1>6, CallBeginKeeps, ExportKeeps, HandlerDropKeeps, DropBeginKeeps, DecideKeeps,
     WaiterCanceledKeeps, CloseSetKeeps, ShutdownKeeps DEF Request
<1>7. QED
  BY <1>1, <1>2, <1>3, <1>4, <1>5, <1>6, CloseFinalizeKeeps DEF Next, Progress

\* The counters, the attempts to close a resource, the lists of the executors,
\* the registration of results and the cleanup agree, whatever calls, drops,
\* decisions and a Shutdown overlap.
THEOREM RouteSetInvariant == Spec => []RInv
<1>1. Init => RInv
  BY RInitially
<1>2. RInv /\ [Next]_vars => RInv'
  BY RStep
<1>3. QED
  BY <1>1, <1>2, PTL DEF Spec


-----------------------------------------------------------------------------
(***************************************************************************)
(* Every step is a step of the promise, or none.                           *)
(***************************************************************************)
PromiseStep == Promise!SpecNext \/ UNCHANGED Promise!specVars

SameLives == \A r \in Resources : Life(r)' = Life(r)
SameUsers == \A r \in Resources : Borrowers(r)' = Borrowers(r)
SameEnd == lease' = lease /\ (state' = "closed" <=> state = "closed")

\* only the life of r changes
OtherLives(r) == \A q \in Resources : q # r => Life(q)' = Life(q)

LEMMA Stutters ==
  ASSUME SameLives, SameUsers, SameEnd
  PROVE  PromiseStep
<1>1. [r \in Resources |-> Life(r)]' = [r \in Resources |-> Life(r)]
  BY DEF SameLives
<1>2. [r \in Resources |-> {c \in Calls : r \in call[c].borrows}]'
      = [r \in Resources |-> {c \in Calls : r \in call[c].borrows}]
  BY DEF SameUsers, Borrowers
<1>3. (state = "closed")' = (state = "closed")
  BY DEF SameEnd
<1>4. lease' = lease
  BY DEF SameEnd
<1>5. QED
  BY <1>1, <1>2, <1>3, <1>4 DEF PromiseStep, Promise!specVars

\* A resource is created, retired, or its closing begins or ends.
LEMMA LifeMoves ==
  ASSUME NEW r \in Resources, OtherLives(r), SameUsers, SameEnd,
         \/ Life(r) = "none" /\ Life(r)' = "provisional" /\ lease
         \/ Life(r) \in {"provisional", "live"} /\ Life(r)' = "retired"
         \/ Life(r) = "retired" /\ Life(r)' = "closing" /\ Borrowers(r) = {}
         \/ Life(r) = "closing" /\ Life(r)' \in {"retired", "closed"}
         \/ Life(r)' = Life(r)
  PROVE  PromiseStep
<1>1. PICK lives : lives = [q \in Resources |-> Life(q)]
  OBVIOUS
<1>2. PICK to : to = Life(r)'
  OBVIOUS
<1>3. [q \in Resources |-> Life(q)]' = [lives EXCEPT ![r] = to]
  BY <1>1, <1>2 DEF OtherLives
<1>4. lives[r] = Life(r)
  BY <1>1
<1>5. [q \in Resources |-> {c \in Calls : q \in call[c].borrows}]'
      = [q \in Resources |-> {c \in Calls : q \in call[c].borrows}]
  BY DEF SameUsers, Borrowers
<1>6. (state = "closed")' = (state = "closed") /\ lease' = lease
  BY DEF SameEnd
<1>7. CASE Life(r) = "none" /\ Life(r)' = "provisional" /\ lease
  <2>1. Promise!Create(r)
    BY <1>1, <1>2, <1>3, <1>4, <1>5, <1>6, <1>7 DEF Promise!Create
  <2>2. QED
    BY <2>1 DEF PromiseStep, Promise!SpecNext
<1>8. CASE Life(r) \in {"provisional", "live"} /\ Life(r)' = "retired"
  <2>1. Promise!Retire(r)
    BY <1>1, <1>2, <1>3, <1>4, <1>5, <1>6, <1>8 DEF Promise!Retire
  <2>2. QED
    BY <2>1 DEF PromiseStep, Promise!SpecNext
<1>9. CASE Life(r) = "retired" /\ Life(r)' = "closing" /\ Borrowers(r) = {}
  <2>1. Promise!CloseCalled(r)
    BY <1>1, <1>2, <1>3, <1>4, <1>5, <1>6, <1>9 DEF Promise!CloseCalled, Borrowers
  <2>2. QED
    BY <2>1 DEF PromiseStep, Promise!SpecNext
<1>10. CASE Life(r) = "closing" /\ Life(r)' \in {"retired", "closed"}
  <2>1. Promise!CloseReturned(r)
    BY <1>1, <1>2, <1>3, <1>4, <1>5, <1>6, <1>10 DEF Promise!CloseReturned
  <2>2. QED
    BY <2>1 DEF PromiseStep, Promise!SpecNext
<1>11. CASE Life(r)' = Life(r)
  <2>1. SameLives
    BY <1>11 DEF OtherLives, SameLives
  <2>2. QED
    BY <2>1, Stutters
<1>12. QED
  BY <1>7, <1>8, <1>9, <1>10, <1>11

\* What a life is made of.
LEMMA Lives ==
  /\ \A r : /\ res'[r].st = res[r].st /\ res'[r].stage = res[r].stage
            /\ res[r].st # "held" \/ res[r].stage # "none" \/ res'[r].active = res[r].active
            => Life(r)' = Life(r)
  /\ \A r : res'[r] = res[r] => Life(r)' = Life(r)
  /\ \A r : Life(r) = IF res[r].st # "held" THEN res[r].st
                      ELSE IF res[r].stage = "close" THEN "closing"
                      ELSE IF res[r].stage # "none" THEN "retired"
                      ELSE IF res[r].active THEN "live" ELSE "provisional"
<1>1. ASSUME NEW r
      PROVE  Life(r) = IF res[r].st # "held" THEN res[r].st
                       ELSE IF res[r].stage = "close" THEN "closing"
                       ELSE IF res[r].stage # "none" THEN "retired"
                       ELSE IF res[r].active THEN "live" ELSE "provisional"
  BY DEF Life
<1>2. ASSUME NEW r
      PROVE  Life(r)' = IF res'[r].st # "held" THEN res'[r].st
                        ELSE IF res'[r].stage = "close" THEN "closing"
                        ELSE IF res'[r].stage # "none" THEN "retired"
                        ELSE IF res'[r].active THEN "live" ELSE "provisional"
  BY DEF Life
<1>3. QED
  BY <1>1, <1>2

LEMMA UsersStay ==
  ASSUME Types, NEW c \in Calls, NEW p, CallAt(c, p, call[c].borrows)
  PROVE  SameUsers
<1>1. \A d \in Calls : call'[d].borrows = call[d].borrows
  BY DEF CallAt
<1>2. QED
  BY <1>1 DEF SameUsers, Borrowers

\* The cleanup begins in finalizeIfIdle, and ends later.
LEMMA FinalizeEnds ==
  ASSUME Finalize
  PROVE  SameEnd
  BY DEF Finalize, Idle, SameEnd

LEMMA SameAll ==
  /\ res' = res => SameLives
  /\ call' = call => SameUsers
  /\ UNCHANGED <<state, lease>> => SameEnd
<1>1. res' = res => SameLives
  BY Lives DEF SameLives
<1>2. call' = call => SameUsers
  BY DEF SameUsers, Borrowers
<1>3. UNCHANGED <<state, lease>> => SameEnd
  BY DEF SameEnd
<1>4. QED
  BY <1>1, <1>2, <1>3


\* A call goes on outside its handler.
LEMMA CallIsQuiet ==
  ASSUME RInv, NEW c \in Calls,
         HandlerDropReturns(c) \/ CallFail(c) \/ CallPublish(c) \/ CallLeave(c) \/ CallFinalize(c)
  PROVE  PromiseStep
<1>0. Types
  BY DEF RInv, KInv
<1>1. res' = res
  BY DEF HandlerDropReturns, CallFail, CallPublish, CallLeave, CallFinalize, registry
<1>2. PICK p \in CallPcs : CallAt(c, p, call[c].borrows)
  <2>1. CASE HandlerDropReturns(c)
    <3>1. call' = [call EXCEPT ![c].pc = "handler", ![c].dropping = None]
      BY <2>1 DEF HandlerDropReturns
    <3>2. CallAt(c, "handler", call[c].borrows) /\ "handler" \in CallPcs
      BY <1>0, <3>1, CallDrops DEF CallPcs
    <3>3. QED
      BY <3>2
  <2>2. ASSUME NEW p \in CallPcs, call' = [call EXCEPT ![c].pc = p]
        PROVE  \E q \in CallPcs : CallAt(c, q, call[c].borrows)
    BY <1>0, <2>2, CallMoves
  <2>3. {"releasing", "leave", "finalize", "end"} \subseteq CallPcs
    BY DEF CallPcs
  <2>4. QED
    BY <2>1, <2>2, <2>3 DEF CallFail, CallPublish, CallLeave, CallFinalize
<1>3. SameEnd
  <2>1. CallFinalize(c) => SameEnd
    BY FinalizeEnds DEF CallFinalize
  <2>2. ~CallFinalize(c) => UNCHANGED <<state, lease>>
    BY DEF HandlerDropReturns, CallFail, CallPublish, CallLeave, ending
  <2>3. QED
    BY <2>1, <2>2, SameAll
<1>4. QED
  BY <1>0, <1>1, <1>2, <1>3, UsersStay, SameAll, Stutters

\* Decisions, but for the one that activates resources.
LEMMA DecisionIsQuiet ==
  ASSUME RInv, NEW c \in Calls,
         \/ \E k \in Consumers, accept, canceledContext \in BOOLEAN : Decide(c, k, accept, canceledContext)
         \/ \E k \in Consumers : WaiterReturns(c, k) \/ WaiterCanceled(c, k)
         \/ \E ok \in BOOLEAN : ProviderDecides(c, ok)
         \/ ResultSettles(c) \/ ResultFinalize(c) \/ ResultClose(c)
         \/ AbandonBegin(c) \/ AbandonEnd(c) \/ CleanupResult(c)
  PROVE  PromiseStep
<1>1. UNCHANGED <<res, call>>
  BY DEF Decide, WaiterReturns, WaiterCanceled, ProviderDecides, ResultSettles, ResultFinalize, ResultClose,
         AbandonBegin, AbandonEnd, CleanupResult, registry
<1>2. SameEnd
  <2>1. ResultFinalize(c) => SameEnd
    BY FinalizeEnds DEF ResultFinalize
  <2>2. ~ResultFinalize(c) => UNCHANGED <<state, lease>>
    BY DEF Decide, WaiterReturns, WaiterCanceled, ProviderDecides, ResultSettles, ResultClose,
           AbandonBegin, AbandonEnd, CleanupResult, ending
  <2>3. QED
    BY <2>1, <2>2, SameAll
<1>3. QED
  BY <1>1, <1>2, SameAll, Stutters

\* Close, Shutdown and the cleanup up to the provider's lease.
LEMMA EndingIsQuiet ==
  ASSUME RInv, \/ CloseSet \/ CloseFinalize \/ Shutdown
               \/ CleanupCancel \/ CleanupBarrier \/ CleanupRelease
  PROVE  PromiseStep
<1>1. UNCHANGED <<res, call>>
  BY DEF CloseSet, CloseFinalize, Shutdown, CleanupCancel, CleanupBarrier, CleanupRelease, registry
<1>2. SameEnd
  <2>1. CloseFinalize => SameEnd
    BY FinalizeEnds DEF CloseFinalize
  <2>2. CloseSet \/ Shutdown => SameEnd
    BY DEF CloseSet, Shutdown, SameEnd, AcceptsResourceCalls
  <2>3. CleanupCancel \/ CleanupBarrier \/ CleanupRelease => UNCHANGED <<state, lease>>
    BY DEF CleanupCancel, CleanupBarrier, CleanupRelease
  <2>4. QED
    BY <2>1, <2>2, <2>3, SameAll
<1>3. QED
  BY <1>1, <1>2, SameAll, Stutters

\* Call: a resource is used only while it is live.
LEMMA CallBeginUses ==
  ASSUME RInv, NEW c \in Calls, NEW onResource \in BOOLEAN, NEW rs \in SUBSET Resources,
         CallBegin(c, onResource, rs)
  PROVE  PromiseStep
<1>0. Types
  BY DEF RInv, KInv
<1>1. /\ call[c].pc = "idle"
      /\ \A r \in rs : r \in Held /\ res[r].active /\ res[r].stage = "none"
      /\ call' = [call EXCEPT ![c] = [NoCall EXCEPT !.pc = "handler", !.borrows = rs]]
      /\ res' = [r \in Resources |-> IF r \in rs THEN [res[r] EXCEPT !.borrowed = @ + 1] ELSE res[r]]
      /\ UNCHANGED <<state, lease>>
  BY DEF CallBegin, ending
<1>2. call[c].borrows = {}
  BY <1>1 DEF RInv, KInv, Borrowed
<1>3. CallAt(c, "handler", rs)
  BY <1>0, <1>1 DEF CallAt, Types, CallRecord, CallPcs, NoCall
<1>4. \A r \in Resources : Life(r)' = Life(r)
  <2>1. \A r \in Resources : /\ res'[r].st = res[r].st /\ res'[r].stage = res[r].stage
                             /\ res'[r].active = res[r].active
    BY <1>0, <1>1 DEF Types, Resource
  <2>2. QED
    BY <2>1, Lives
<1>5. \A r \in rs : Life(r) = "live"
  BY <1>1, Lives DEF Held
<1>6. \A r \in Resources : Borrowers(r)' = IF r \in rs THEN Borrowers(r) \cup {c} ELSE Borrowers(r)
  BY <1>2, <1>3 DEF CallAt, Borrowers
<1>7. Promise!Use(c, rs)
  <2>1. [r \in Resources |-> Life(r)]' = [r \in Resources |-> Life(r)]
    BY <1>4
  <2>2. (state = "closed")' = (state = "closed") /\ lease' = lease
    BY <1>1
  <2>3. [r \in Resources |-> {d \in Calls : r \in call[d].borrows}]'
        = [r \in Resources |->
             IF r \in rs THEN [q \in Resources |-> {d \in Calls : q \in call[d].borrows}][r] \cup {c}
                         ELSE [q \in Resources |-> {d \in Calls : q \in call[d].borrows}][r]]
    BY <1>6 DEF Borrowers
  <2>4. \A r \in rs : [q \in Resources |-> Life(q)][r] = "live"
    BY <1>5
  <2>5. QED
    BY <2>1, <2>2, <2>3, <2>4 DEF Promise!Use
<1>8. QED
  BY <1>7 DEF PromiseStep, Promise!SpecNext

\* The handler has returned: its call uses nothing any more.
LEMMA HandlerReturnLeaves ==
  ASSUME RInv, NEW c \in Calls, NEW ok \in BOOLEAN, HandlerReturn(c, ok)
  PROVE  PromiseStep
<1>0. Types
  BY DEF RInv, KInv
<1>1. PICK p \in {"ok", "failed"} :
        /\ call' = [call EXCEPT ![c] = [NoCall EXCEPT !.pc = p]]
        /\ res' = [r \in Resources |-> IF r \in call[c].borrows THEN [res[r] EXCEPT !.borrowed = @ - 1]
                                                                ELSE res[r]]
        /\ UNCHANGED <<state, lease>>
  BY DEF HandlerReturn, ending
<1>2. CallAt(c, p, {})
  BY <1>0, <1>1, CallRestarts DEF CallPcs
<1>3. \A r \in Resources : Life(r)' = Life(r)
  <2>1. \A r \in Resources : /\ res'[r].st = res[r].st /\ res'[r].stage = res[r].stage
                             /\ res'[r].active = res[r].active
    BY <1>0, <1>1 DEF Types, Resource
  <2>2. QED
    BY <2>1, Lives
<1>4. \A r \in Resources : Borrowers(r)' = Borrowers(r) \ {c}
  BY <1>2 DEF CallAt, Borrowers
<1>5. Promise!Leave(c)
  <2>1. [r \in Resources |-> Life(r)]' = [r \in Resources |-> Life(r)]
    BY <1>3
  <2>2. (state = "closed")' = (state = "closed") /\ lease' = lease
    BY <1>1
  <2>3. [r \in Resources |-> {d \in Calls : r \in call[d].borrows}]'
        = [r \in Resources |-> [q \in Resources |-> {d \in Calls : q \in call[d].borrows}][r] \ {c}]
    BY <1>4 DEF Borrowers
  <2>4. QED
    BY <2>1, <2>2, <2>3 DEF Promise!Leave
<1>6. QED
  BY <1>5 DEF PromiseStep, Promise!SpecNext


LEMMA ResAtLives ==
  ASSUME NEW r \in Resources, NEW st, NEW stage, NEW by, ResAt(r, st, stage, by)
  PROVE  OtherLives(r)
  BY Lives DEF ResAt, OtherLives

\* Export: a resource is created while the lease is open.
LEMMA ExportCreates ==
  ASSUME RInv, NEW c \in Calls, NEW r \in Resources, Export(c, r)
  PROVE  PromiseStep
<1>0. Types /\ Cleaning /\ Attempt(r)
  BY DEF RInv, KInv, Attempts
<1>1. /\ AcceptsResourceCalls /\ res[r].st = "none" /\ res' = [res EXCEPT ![r].st = "held"]
      /\ UNCHANGED <<call, state, lease>>
  BY DEF Export, ending
<1>2. /\ res'[r].st = "held" /\ res'[r].stage = res[r].stage /\ res'[r].active = res[r].active
      /\ \A q \in Resources : q # r => res'[q] = res[q]
  BY <1>0, <1>1 DEF Types, Resource
<1>3. Life(r) = "none" /\ lease /\ ~res[r].active /\ res[r].stage = "none"
  BY <1>0, <1>1, Lives DEF Cleaning, AcceptsResourceCalls, Attempt
<1>4. Life(r)' = "provisional"
  BY <1>2, <1>3 DEF Life
<1>5. OtherLives(r)
  BY <1>2, Lives DEF OtherLives
<1>6. QED
  BY <1>1, <1>3, <1>4, <1>5, SameAll, LifeMoves

\* A new attempt retires the resource, if none did before.
LEMMA RegisterRetires ==
  ASSUME RInv, NEW r \in Resources, NEW e \in Executors \cup {Drop}, r \in Held, ~AttemptRunning(r),
         Register(r, e), SameUsers, SameEnd
  PROVE  PromiseStep
<1>0. Types
  BY DEF RInv, KInv
<1>1. res[r].st = "held" /\ res[r].stage \in {"none", "failed"} /\ res[r] \in Resource
  <2>1. res[r] \in Resource /\ res[r].stage # "finalize" /\ res[r].stage # "await"
    BY <1>0 DEF Types, AttemptRunning
  <2>2. QED
    BY <2>1 DEF Held, AttemptRunning, Resource, Stages
<1>2. ResAt(r, "held", "wait", e)
  BY <1>0, <1>1, ResMoves DEF Register, Stages
<1>3. OtherLives(r)
  BY <1>2, ResAtLives
<1>4. Life(r)' = "retired"
  BY <1>2 DEF ResAt, Life
<1>5. Life(r) \in {"provisional", "live", "retired"}
  BY <1>1, Lives
<1>6. QED
  BY <1>3, <1>4, <1>5, LifeMoves

LEMMA DropBeginRetires ==
  ASSUME RInv, NEW r \in Resources, DropBegin(r)
  PROVE  PromiseStep
<1>1. r \in Held /\ ~AttemptRunning(r) /\ Register(r, Drop) /\ UNCHANGED <<call, state, lease>>
  BY DEF DropBegin, Droppable, ending
<1>2. SameUsers /\ SameEnd
  BY <1>1, SameAll
<1>3. QED
  BY <1>1, <1>2, RegisterRetires

LEMMA HandlerDropRetires ==
  ASSUME RInv, NEW c \in Calls, NEW r \in Resources, HandlerDrop(c, r)
  PROVE  PromiseStep
<1>0. Types
  BY DEF RInv, KInv
<1>1. /\ r \in Held /\ call' = [call EXCEPT ![c].pc = "dropping", ![c].dropping = r]
      /\ UNCHANGED <<state, lease>>
  BY DEF HandlerDrop, Droppable, ending
<1>2. CallAt(c, "dropping", call[c].borrows)
  BY <1>0, <1>1, CallDrops DEF CallPcs
<1>3. SameUsers /\ SameEnd
  BY <1>0, <1>1, <1>2, UsersStay, SameAll
<1>4. CASE AttemptRunning(r)
  <2>1. res' = res
    BY <1>4 DEF HandlerDrop
  <2>2. QED
    BY <1>3, <2>1, SameAll, Stutters
<1>5. CASE ~AttemptRunning(r)
  <2>1. Register(r, Drop)
    BY <1>5 DEF HandlerDrop
  <2>2. QED
    BY <1>1, <1>3, <1>5, <2>1, RegisterRetires
<1>6. QED
  BY <1>4, <1>5

LEMMA ReleaseTakeRetires ==
  ASSUME RInv, NEW e \in Executors, ReleaseTake(e)
  PROVE  PromiseStep
<1>0. Types
  BY DEF RInv, KInv
<1>1. release[e] # <<>> /\ UNCHANGED <<call, state, lease>>
  BY DEF ReleaseTake, ending
<1>2. PICK r \in Resources : r = Head(release[e])
  BY <1>0, <1>1, HeadAndTail DEF Types
<1>3. SameUsers /\ SameEnd
  BY <1>1, SameAll
<1>4. CASE r \in Held
  <2>1. ~AttemptRunning(r) /\ Register(r, e)
    BY <1>2, <1>4 DEF ReleaseTake
  <2>2. QED
    BY <1>3, <1>4, <2>1, RegisterRetires
<1>5. CASE r \notin Held
  <2>1. res' = res
    BY <1>2, <1>5 DEF ReleaseTake
  <2>2. QED
    BY <1>3, <2>1, SameAll, Stutters
<1>6. QED
  BY <1>4, <1>5

\* Close is called when nobody uses the resource.
LEMMA CloseBeginsCalls ==
  ASSUME RInv, NEW r \in Resources, CloseBegins(r)
  PROVE  PromiseStep
<1>0. Types
  BY DEF RInv, KInv
<1>1. /\ res[r].stage = "wait" /\ res[r].borrowed = 0 /\ res' = [res EXCEPT ![r].stage = "close"]
      /\ UNCHANGED <<call, state, lease>>
  BY DEF CloseBegins, ending
<1>2. res[r].st = "held" /\ res[r].by \in Executors \cup {Drop, None}
  BY <1>0, <1>1 DEF RInv, KInv, Attempts, Attempt, Types, Resource
<1>3. ResAt(r, "held", "close", res[r].by)
  BY <1>0, <1>1, <1>2, ResMoves DEF Stages
<1>4. Borrowers(r) = {}
  <2>1. Cardinality(Borrowers(r)) = 0
    BY <1>1 DEF RInv, KInv, Borrowed
  <2>2. QED
    BY <2>1, CountsAreFinite, FS_EmptySet
<1>5. Life(r) = "retired" /\ Life(r)' = "closing"
  BY <1>1, <1>2, <1>3, Lives DEF ResAt, Life
<1>6. OtherLives(r)
  BY <1>3, ResAtLives
<1>7. QED
  BY <1>1, <1>4, <1>5, <1>6, SameAll, LifeMoves

LEMMA ReleaseEndsReturns ==
  ASSUME RInv, NEW e \in Executors, NEW ok \in BOOLEAN, ReleaseEnds(e, ok)
  PROVE  PromiseStep
<1>0. Types
  BY DEF RInv, KInv
<1>1. release[e] # <<>> /\ UNCHANGED <<call, state, lease>>
  BY DEF ReleaseEnds, ending
<1>2. PICK r \in Resources : r = Head(release[e])
  BY <1>0, <1>1, HeadAndTail DEF Types
<1>3. /\ res[r].by = e /\ res[r].stage = "close"
      /\ \/ res' = [res EXCEPT ![r].stage = "failed", ![r].by = None]
         \/ res' = [res EXCEPT ![r].st = "closed", ![r].stage = "none", ![r].by = None]
  BY <1>2 DEF ReleaseEnds, Detached
<1>4. res[r].st = "held" /\ Life(r) = "closing"
  BY <1>3, Lives DEF RInv, KInv, Attempts, Attempt
<1>5. PICK st \in {"held", "closed"} :
        \E stage \in {"failed", "none"} : ResAt(r, st, stage, None) /\ (st = "held" <=> stage = "failed")
  <2>1. CASE res' = [res EXCEPT ![r].stage = "failed", ![r].by = None]
    <3>1. ResAt(r, "held", "failed", None)
      BY <1>0, <1>4, <2>1, ResMoves DEF Stages
    <3>2. QED
      BY <3>1
  <2>2. CASE res' = [res EXCEPT ![r].st = "closed", ![r].stage = "none", ![r].by = None]
    <3>1. ResAt(r, "closed", "none", None)
      BY <1>0, <2>2, ResMoves DEF Stages
    <3>2. QED
      BY <3>1
  <2>3. QED
    BY <1>3, <2>1, <2>2
<1>6. OtherLives(r)
  BY <1>5, ResAtLives
<1>7. Life(r)' \in {"retired", "closed"}
  BY <1>5 DEF ResAt, Life
<1>8. QED
  BY <1>1, <1>4, <1>6, <1>7, SameAll, LifeMoves

LEMMA DropEndsReturns ==
  ASSUME RInv, NEW r \in Resources, NEW ok \in BOOLEAN, DropEnds(r, ok)
  PROVE  PromiseStep
<1>0. Types
  BY DEF RInv, KInv
<1>1. /\ res[r].by = Drop /\ res[r].stage = "close"
      /\ res' = [res EXCEPT ![r].st = IF ok THEN "closed" ELSE @, ![r].stage = "finalize"]
      /\ UNCHANGED <<call, state, lease>>
  BY DEF DropEnds, ending
<1>2. res[r].st = "held" /\ Life(r) = "closing"
  BY <1>1, Lives DEF RInv, KInv, Attempts, Attempt
<1>3. PICK st \in {"held", "closed"} : ResAt(r, st, "finalize", Drop)
  <2>1. PICK st \in {"held", "closed"} : st = IF ok THEN "closed" ELSE res[r].st
    BY <1>2
  <2>2. res' = [res EXCEPT ![r].st = st, ![r].stage = "finalize"]
    BY <1>0, <1>1, <2>1 DEF Types
  <2>3. ResAt(r, st, "finalize", Drop)
    <3>1. ResAt(r, st, "finalize", res[r].by)
      BY <1>0, <2>2, ResMoves DEF Stages
    <3>2. QED
      BY <1>1, <3>1
  <2>4. QED
    BY <2>3
<1>4. OtherLives(r)
  BY <1>3, ResAtLives
<1>5. Life(r)' \in {"retired", "closed"}
  BY <1>3 DEF ResAt, Life
<1>6. QED
  BY <1>1, <1>2, <1>4, <1>5, SameAll, LifeMoves

\* The rest of a Drop moves nothing.
LEMMA DropDoneIsQuiet ==
  ASSUME RInv, NEW r \in Resources, DropFinalize(r) \/ DropAwait(r)
  PROVE  PromiseStep
<1>0. Types /\ Attempt(r)
  BY DEF RInv, KInv, Attempts
<1>1. res[r].stage \in {"finalize", "await"} /\ call' = call
  BY DEF DropFinalize, DropAwait
<1>2. res[r].st \in {"held", "closed"} /\ res[r].by \in Executors \cup {Drop, None}
  BY <1>0, <1>1 DEF Attempt, Types, Resource
<1>3. SameEnd
  BY FinalizeEnds, SameAll DEF DropFinalize, DropAwait, ending
<1>4. PICK stage \in {"await", "failed", "none"} :
        /\ \E by : ResAt(r, res[r].st, stage, by)
        /\ res[r].st = "held" => stage # "none"
  <2>1. CASE res' = [res EXCEPT ![r].stage = "await"]
    <3>1. ResAt(r, res[r].st, "await", res[r].by)
      BY <1>0, <1>2, <2>1, ResMoves DEF Stages
    <3>2. QED
      BY <3>1
  <2>2. CASE res' = [res EXCEPT ![r].stage = "failed", ![r].by = None]
    <3>1. ResAt(r, res[r].st, "failed", None)
      BY <1>0, <1>2, <2>2, ResMoves DEF Stages
    <3>2. QED
      BY <3>1
  <2>3. CASE r \notin Held /\ res' = [res EXCEPT ![r].stage = "none", ![r].by = None]
    <3>1. ResAt(r, res[r].st, "none", None)
      BY <1>0, <1>2, <2>3, ResMoves DEF Stages
    <3>2. QED
      BY <2>3, <3>1 DEF Held
  <2>4. QED
    BY <2>1, <2>2, <2>3 DEF DropFinalize, DropAwait, DropDone
<1>5. OtherLives(r)
  BY <1>4, ResAtLives
<1>6. Life(r)' = Life(r)
  <2>1. /\ res'[r].st = res[r].st /\ res'[r].stage \in {"await", "failed", "none"}
        /\ res[r].st = "held" => res'[r].stage # "none"
    BY <1>4 DEF ResAt
  <2>2. Life(r)' = IF res'[r].st # "held" THEN res'[r].st ELSE "retired"
    BY <2>1 DEF Life
  <2>3. Life(r) = IF res[r].st # "held" THEN res[r].st ELSE "retired"
    BY <1>1, Lives
  <2>4. QED
    BY <2>1, <2>2, <2>3
<1>7. QED
  BY <1>1, <1>3, <1>5, <1>6, SameAll, LifeMoves


\* finishResult: the provisional resources of the result become live together.
LEMMA FinishResultAdopts ==
  ASSUME RInv, NEW c \in Calls, FinishResult(c)
  PROVE  PromiseStep
<1>0. Types /\ Outcome(c)
  BY DEF RInv, KInv, OInv
<1>1. result[c].pc = "finish" /\ UNCHANGED <<call, state, lease>>
  BY DEF FinishResult, ending
<1>2. SameUsers /\ SameEnd
  BY <1>1, SameAll
<1>3. CASE ~(result[c].accepted /\ ~result[c].failed /\ AcceptsResourceCalls)
  <2>1. res' = res
    BY <1>3 DEF FinishResult
  <2>2. QED
    BY <1>2, <2>1, SameAll, Stutters
<1>4. CASE result[c].accepted /\ ~result[c].failed /\ AcceptsResourceCalls
  <2>1. res' = [r \in Resources |-> IF r \in result[c].objects \cap Held
                                    THEN [res[r] EXCEPT !.active = TRUE] ELSE res[r]]
    BY <1>4 DEF FinishResult
  <2>2. PICK rs : rs = {r \in result[c].objects \cap Held : res[r].stage = "none"}
    OBVIOUS
  <2>3. rs \subseteq Resources
    BY <1>0, <2>2 DEF Types, ResultRecord
  <2>4. \A r \in rs : Life(r) = "provisional"
    <3>1. \A r \in result[c].objects : ~res[r].active
      BY <1>0, <1>1 DEF Outcome, Undone, Unused
    <3>2. QED
      BY <2>2, <3>1, Lives DEF Held
  <2>5. ASSUME NEW r \in Resources
        PROVE  Life(r)' = IF r \in rs THEN "live" ELSE Life(r)
    <3>1. res[r] \in Resource
      BY <1>0 DEF Types
    <3>2. CASE r \in rs
      <4>1. res'[r] = [res[r] EXCEPT !.active = TRUE] /\ res[r].st = "held" /\ res[r].stage = "none"
        BY <2>1, <2>2, <3>2 DEF Held
      <4>2. res'[r].active /\ res'[r].st = "held" /\ res'[r].stage = "none"
        BY <3>1, <4>1 DEF Resource
      <4>3. QED
        BY <3>2, <4>2 DEF Life
    <3>3. CASE r \in result[c].objects \cap Held /\ r \notin rs
      <4>1. res'[r] = [res[r] EXCEPT !.active = TRUE] /\ res[r].stage # "none"
        BY <2>1, <2>2, <3>3
      <4>2. res'[r].st = res[r].st /\ res'[r].stage = res[r].stage
        BY <3>1, <4>1 DEF Resource
      <4>3. QED
        BY <3>3, <4>1, <4>2, Lives
    <3>4. CASE r \notin result[c].objects \cap Held
      <4>1. res'[r] = res[r] /\ r \notin rs
        BY <2>1, <2>2, <3>4
      <4>2. QED
        BY <4>1, Lives
    <3>5. QED
      BY <3>2, <3>3, <3>4
  <2>6. Promise!Adopt(rs)
    <3>1. \A r \in rs : [q \in Resources |-> Life(q)][r] = "provisional"
      BY <2>3, <2>4
    <3>2. [r \in Resources |-> Life(r)]'
          = [r \in Resources |-> IF r \in rs THEN "live" ELSE [q \in Resources |-> Life(q)][r]]
      BY <2>5
    <3>3. [r \in Resources |-> {d \in Calls : r \in call[d].borrows}]'
          = [r \in Resources |-> {d \in Calls : r \in call[d].borrows}]
      BY <1>1
    <3>4. (state = "closed")' = (state = "closed") /\ lease' = lease
      BY <1>1
    <3>5. QED
      BY <3>1, <3>2, <3>3, <3>4 DEF Promise!Adopt
  <2>7. QED
    BY <2>3, <2>6 DEF PromiseStep, Promise!SpecNext
<1>5. QED
  BY <1>3, <1>4

\* The lease is closed after the last resource.
LEMMA CleanupLeaseCloses ==
  ASSUME RInv, RInv', CleanupLease
  PROVE  PromiseStep
<1>0. Types /\ Cleaning
  BY DEF RInv, KInv
<1>1. /\ cleaner.pc = "release" /\ lease' = FALSE /\ cleaner' = [cleaner EXCEPT !.pc = "lease"]
      /\ UNCHANGED <<res, call, state>>
  BY DEF CleanupLease, registry
<1>2. lease = TRUE /\ calls = 0
  BY <1>0, <1>1 DEF Cleaning, Types
<1>3. Held = {}
  <2>1. cleaner'.pc = "lease"
    BY <1>0, <1>1 DEF Types
  <2>2. Held' = {}
    BY <2>1 DEF RInv, KInv, Cleaning
  <2>3. QED
    BY <1>1, <2>2 DEF Held
<1>4. ASSUME NEW r \in Resources
      PROVE  Life(r) \in {"none", "closed"} /\ Borrowers(r) = {}
  <2>1. res[r].st \in {"none", "closed"}
    BY <1>3 DEF RInv, KInv, Attempts, Attempt, Held
  <2>2. ActiveCalls = {}
    BY <1>2, NothingCounted DEF RInv, KInv
  <2>3. \A c \in Calls : call[c].borrows = {}
    BY <2>2 DEF RInv, KInv, Borrowed, ActiveCalls, Active
  <2>4. QED
    BY <2>1, <2>3, Lives DEF Borrowers
<1>5. Promise!LeaseClosed
  <2>1. [r \in Resources |-> Life(r)]' = [r \in Resources |-> Life(r)]
    BY <1>1, SameAll DEF SameLives
  <2>2. [r \in Resources |-> {d \in Calls : r \in call[d].borrows}]'
        = [r \in Resources |-> {d \in Calls : r \in call[d].borrows}]
    BY <1>1
  <2>3. \A r \in Resources : /\ [q \in Resources |-> Life(q)][r] \in {"none", "closed"}
                             /\ [q \in Resources |-> {d \in Calls : q \in call[d].borrows}][r] = {}
    BY <1>4 DEF Borrowers
  <2>4. QED
    BY <1>1, <1>2, <2>1, <2>2, <2>3 DEF Promise!LeaseClosed
<1>6. QED
  BY <1>5 DEF PromiseStep, Promise!SpecNext

\* The set ends with its lease closed, and loses no resource.
LEMMA CleanupEndEnds ==
  ASSUME RInv, UNCHANGED scenario, CleanupEnd
  PROVE  PromiseStep
<1>1. cleaner.pc = "lease" /\ state' = "closed" /\ UNCHANGED <<call, lease>>
  BY DEF CleanupEnd
<1>2. res' = res
  BY CleanupEndKeeps
<1>3. ~lease
  BY <1>1 DEF RInv, KInv, Cleaning
<1>4. Promise!End
  <2>1. [r \in Resources |-> Life(r)]' = [r \in Resources |-> Life(r)]
    BY <1>2, SameAll DEF SameLives
  <2>2. [r \in Resources |-> {d \in Calls : r \in call[d].borrows}]'
        = [r \in Resources |-> {d \in Calls : r \in call[d].borrows}]
    BY <1>1
  <2>3. (state' = "closed") = TRUE
    BY <1>1
  <2>4. QED
    BY <1>1, <1>3, <2>1, <2>2, <2>3 DEF Promise!End
<1>5. QED
  BY <1>4 DEF PromiseStep, Promise!SpecNext

LEMMA PromiseInitially ==
  ASSUME Init
  PROVE  Promise!SpecInit
<1>1. scenario.accepted \in Seq(Resources)
  BY RouteSetAssumption DEF Init
<1>2. \A r \in Resources : Life(r) \in {"none", "live"}
  <2>1. \A r \in Resources :
          /\ res[r].st = IF r \in ToSet(scenario.accepted) THEN "held" ELSE "none"
          /\ res[r].active = (r \in ToSet(scenario.accepted)) /\ res[r].stage = "none"
    BY DEF Init
  <2>2. ASSUME NEW r \in Resources PROVE Life(r) \in {"none", "live"}
    <3>1. CASE r \in ToSet(scenario.accepted)
      <4>1. res[r].st = "held" /\ res[r].active /\ res[r].stage = "none"
        BY <2>1, <3>1
      <4>2. QED
        BY <4>1, Lives
    <3>2. CASE r \notin ToSet(scenario.accepted)
      <4>1. res[r].st = "none"
        BY <2>1, <3>2
      <4>2. QED
        BY <4>1, Lives
    <3>3. QED
      BY <3>1, <3>2
  <2>3. QED
    BY <2>2
<1>3. \A c \in Calls : call[c].borrows = {}
  BY DEF Init, NoCall
<1>4. lease = TRUE /\ (state = "closed") = FALSE
  BY DEF Init
<1>5. [r \in Resources |-> {c \in Calls : r \in call[c].borrows}] = [r \in Resources |-> {}]
  BY <1>3
<1>6. [r \in Resources |-> Life(r)] \in [Resources -> {"none", "live"}]
  BY <1>2
<1>7. QED
  BY <1>4, <1>5, <1>6 DEF Promise!SpecInit

LEMMA NextIsPromised ==
  ASSUME RInv, RInv', [Next]_vars
  PROVE  PromiseStep
<1>1. CASE UNCHANGED vars
  <2>1. UNCHANGED <<res, call, state, lease>>
    BY <1>1 DEF vars
  <2>2. QED
    BY <2>1, SameAll, Stutters
<1>2. ASSUME NEW c \in Calls, CallStep(c) PROVE PromiseStep
  BY <1>2, HandlerReturnLeaves, CallIsQuiet DEF CallStep
<1>3. ASSUME NEW c \in Calls, ResultStep(c) PROVE PromiseStep
  BY <1>3, FinishResultAdopts, DecisionIsQuiet DEF ResultStep
<1>4. ASSUME ReleaseStep PROVE PromiseStep
  BY <1>4, ReleaseTakeRetires, ReleaseEndsReturns, CloseBeginsCalls, DropDoneIsQuiet, DropEndsReturns
     DEF ReleaseStep
<1>5. ASSUME UNCHANGED scenario, CleanupStep PROVE PromiseStep
  BY <1>5, EndingIsQuiet, CleanupLeaseCloses, CleanupEndEnds, DecisionIsQuiet DEF CleanupStep
<1>6. ASSUME Request PROVE PromiseStep
  <2>1. CASE \E c \in Calls, onResource \in BOOLEAN, rs \in SUBSET Resources : CallBegin(c, onResource, rs)
    BY <2>1, CallBeginUses
  <2>2. CASE \E c \in Calls, r \in Resources : Export(c, r) \/ HandlerDrop(c, r)
    BY <2>2, ExportCreates, HandlerDropRetires
  <2>3. CASE \E r \in Resources : DropBegin(r)
    BY <2>3, DropBeginRetires
  <2>4. CASE \E c \in Calls, k \in Consumers, accept, canceledContext \in BOOLEAN :
               Decide(c, k, accept, canceledContext)
    BY <2>4, DecisionIsQuiet
  <2>5. CASE \E c \in Calls, k \in Consumers : WaiterCanceled(c, k)
    BY <2>5, DecisionIsQuiet
  <2>6. CASE CloseSet \/ Shutdown
    BY <2>6, EndingIsQuiet
  <2>7. QED
    BY <1>6, <2>1, <2>2, <2>3, <2>4, <2>5, <2>6 DEF Request
<1>7. QED
  BY <1>1, <1>2, <1>3, <1>4, <1>5, <1>6, EndingIsQuiet DEF Next, Progress

\* The route set implements RouteSpec: a resource is used only between the
\* acceptance of its result and its release, Close runs alone and once, and the
\* lease and the set end after every resource is released.
THEOREM RouteSetKeepsPromise == Spec => KeepsPromise
<1>1. Init => Promise!SpecInit
  BY PromiseInitially
<1>2. RInv /\ RInv' /\ [Next]_vars => [Promise!SpecNext]_(Promise!specVars)
  BY NextIsPromised DEF PromiseStep
<1>3. QED
  BY <1>1, <1>2, RouteSetInvariant, PTL DEF Spec, KeepsPromise, Promise!Spec

-----------------------------------------------------------------------------
\* An accepted result that was delivered is never released by itself, and one
\* that nobody was told of is not live once its decision is over.
THEOREM ResultsOwned == Spec => []OwnedOrReleased
<1>1. ASSUME RInv PROVE OwnedOrReleased
  <2>1. SUFFICES ASSUME NEW c \in Calls, result[c].accepted
                 PROVE  /\ Told(c) => \A r \in result[c].objects : res[r].by # <<"result", c>>
                        /\ result[c].pc = "end" /\ ~Told(c) /\ waiting[c] = {} =>
                             \A r \in result[c].objects : Life(r) # "live" \/ ~AcceptsResourceCalls
    BY DEF OwnedOrReleased, Told
  <2>2. Decision(c) /\ Outcome(c) /\ Registered(c) /\ result[c].objects \subseteq Resources
    BY <1>1 DEF RInv, KInv, OInv, AllRegistered, Types, ResultRecord
  <2>3. ASSUME Told(c), NEW r \in result[c].objects, res[r].by = <<"result", c>> PROVE FALSE
    <3>1. result[c].done /\ ~result[c].cleaned
      BY <2>1, <2>2, <2>3 DEF Decision
    <3>2. result[c].pc = "end"
      BY <2>2, <3>1 DEF Registered, Decision
    <3>3. release[<<"result", c>>] # <<>>
      <4>1. r \in Resources
        BY <2>2, <2>3
      <4>2. Attempt(r)
        BY <1>1, <4>1 DEF RInv, KInv, Attempts
      <4>3. <<"result", c>> \in Executors
        BY ExecutorsDiffer
      <4>4. res[r].by \in Executors
        BY <2>3, <4>3
      <4>5. release[res[r].by] # <<>>
        BY <4>2, <4>4 DEF Attempt
      <4>6. QED
        BY <2>3, <4>5
    <3>4. QED
      BY <1>1, <3>2, <3>3 DEF RInv, KInv, Executing
  <2>4. ASSUME result[c].pc = "end", ~Told(c), waiting[c] = {}, NEW r \in result[c].objects
        PROVE  Life(r) # "live" \/ ~AcceptsResourceCalls
    <3>1. CASE result[c].cleaned
      <4>1. Gone(r) \/ ~AcceptsResourceCalls
        BY <2>2, <2>4, <3>1 DEF Outcome
      <4>2. res[r].st \in {"none", "held", "closed"}
        BY <1>1, <2>2 DEF RInv, KInv, Attempts, Attempt
      <4>3. Gone(r) => Life(r) # "live"
        BY <4>2, Lives DEF Gone
      <4>4. QED
        BY <4>1, <4>3
    <3>2. CASE ~result[c].cleaned
      <4>1. result[c].failed
        <5>1. result[c].done
          BY <2>2, <2>4 DEF Registered
        <5>2. ~result[c].delivered
          BY <2>2, <2>4 DEF Decision
        <5>3. QED
          BY <2>1, <2>2, <2>4, <3>2, <5>1, <5>2 DEF Decision
      <4>2. ~res[r].active
        BY <2>2, <2>4, <3>2, <4>1 DEF Outcome, Unused
      <4>3. res[r].st \in {"none", "held", "closed"}
        BY <1>1, <2>2 DEF RInv, KInv, Attempts, Attempt
      <4>4. QED
        BY <4>2, <4>3, Lives
    <3>3. QED
      BY <3>1, <3>2
  <2>5. QED
    BY <2>3, <2>4
<1>2. QED
  BY <1>1, RouteSetInvariant, PTL
=============================================================================
