--------------------------- MODULE ChannelsProofs ---------------------------
(***************************************************************************)
(* Channels keep their waiter lists and account for every sender, for any  *)
(* channels, capacities, tasks and select statements, and implement the    *)
(* promise of ChannelSpec.                                                 *)
(***************************************************************************)
EXTENDS Channels, FiniteSetTheorems, SequenceTheorems, TLAPS

-----------------------------------------------------------------------------
(* The inductive invariant                                                 *)

\* The tokens in a channel's lists are those registered with it, alive, each once.
Listed(s) ==
    /\ \A c \in Chans, k \in Tokens :
         /\ k \in Range(s.chan[c].recvWaiters) <=> <<c, "recv">> \in s.token[k].registrations
         /\ k \in Range(s.chan[c].sendWaiters) <=> <<c, "send">> \in s.token[k].registrations
    /\ \A k \in Tokens : s.token[k].registrations # {} => Live(s, k)
    /\ \A c \in Chans : IsInjective(s.chan[c].recvWaiters) /\ IsInjective(s.chan[c].sendWaiters)

ClosedUnlisted(s) ==
    \A c \in Chans : s.chan[c].closed => s.chan[c].recvWaiters = <<>> /\ s.chan[c].sendWaiters = <<>>

\* A token nobody has subscribed yet is as it was made.
Unused(t, m, i) ==
    \/ m > task[t].n
    \/ /\ m = task[t].n
       /\ \/ i = 0 /\ task[t].pc \in {"register", "choose", "park", "commit"}
          \/ i >= task[t].k /\ task[t].pc = "register"

FreshTokens ==
    \A t \in Tasks, m \in 1..MaxOps, i \in 0..MaxCases :
        Unused(t, m, i) => heap.token[<<t, m, i>>] = NewToken

\* A case that was subscribed waits with its channel or was signalled.
Subscribed ==
    \A t \in Tasks : \A i \in 1..Len(task[t].cases) :
        LET case == task[t].cases[i]
            token == heap.token[TokenOf(t, i)]
        IN  task[t].pc \in {"choose", "park"} \/ (task[t].pc = "register" /\ i < task[t].k) =>
                /\ ~token.canceled
                /\ case[2] = Nil \/ token.signaled \/ <<case[2], case[1]>> \in token.registrations

WaitInv == Listed(heap) /\ ClosedUnlisted(heap) /\ FreshTokens /\ Subscribed

\* The buffer has room for all it holds, and nobody waits while there is room.
Filled(ch, capacity) ==
    /\ Len(ch.buffer) <= capacity
    /\ capacity > 0 /\ ch.pending # <<>> => Len(ch.buffer) = capacity

WaitsToSend(t, c) == task[t].pc = "send" /\ task[t].op[2] = c

\* What is pending belongs to a sender that waits, once, or to nobody; what is
\* completed too; a sender that waits on an open channel is in one of the two.
Accounted(c) ==
    LET ch == heap.chan[c]
    IN  /\ Filled(ch, Capacity[c])
        /\ \A i \in DOMAIN ch.pending :
             IF ch.pending[i].task = NoTask THEN ch.pending[i].value \in sent
             ELSE /\ ~ch.closed
                  /\ WaitsToSend(ch.pending[i].task, c)
                  /\ ch.pending[i].task \notin ch.completed
                  /\ ch.pending[i].value = ValueOf(ch.pending[i].task)
        /\ \A i, j \in DOMAIN ch.pending :
             ch.pending[i].task = ch.pending[j].task /\ ch.pending[i].task # NoTask => i = j
        /\ \A t \in ch.completed : WaitsToSend(t, c)
        /\ \A t \in Tasks : WaitsToSend(t, c) /\ ~ch.closed =>
             t \in ch.completed \/ \E i \in DOMAIN ch.pending : ch.pending[i].task = t

\* The value of a communication that has not sent it is nowhere.
Unsent(t) == task[t].pc \in {"register", "choose", "park", "commit", "send", "recv"}

SentOnce == \A v \in sent : v[2] < task[v[1]].n \/ (v[2] = task[v[1]].n /\ ~Unsent(v[1]))

BufferedOnce ==
    \A c \in Chans : \A v \in Range(heap.chan[c].buffer) :
        \/ v[2] < task[v[1]].n
        \/ /\ v[2] = task[v[1]].n
           /\ Unsent(v[1]) => WaitsToSend(v[1], c) /\ v[1] \in heap.chan[c].completed

SendInv == (\A c \in Chans : Accounted(c)) /\ SentOnce /\ BufferedOnce

\* While wakeBlocked runs nothing else does; what it has passed in a pass without
\* progress cannot go on.
Scanned ==
    /\ current # None => scan = 0
    /\ ~progress => \A i \in DOMAIN blocked : i < scan => ~Ready(blocked[i])

\* Only a task that began a communication is inside one.
Numbered == \A t \in Tasks : task[t].pc \notin {"run", "done"} => task[t].n > 0

IInv == TypeOK /\ Numbered /\ WaitInv /\ SendInv /\ Scanned

-----------------------------------------------------------------------------
(* Filtered lists                                                          *)

LEMMA LeastNumber == ASSUME NEW S \in SUBSET Nat, S # {} PROVE \E m \in S : \A n \in S : m <= n
<1>1. PICK m \in S : \A n \in S : <<n, m>> \notin OpToRel(<, Nat)
  BY NatLessThanWellFounded, WFMin, Zenon
<1>2. \A n \in S : ~(n < m)
  BY <1>1 DEF OpToRel
<1>3. QED
  BY <1>2

IsAscending(f, places) ==
    /\ f \in [1..Cardinality(places) -> places]
    /\ \A m, n \in DOMAIN f : m < n => f[m] < f[n]
    /\ \A i \in places : \E n \in DOMAIN f : f[n] = i

LEMMA FinitePlaces ==
  ASSUME NEW n \in Nat, NEW D \in SUBSET (1..n)
  PROVE  IsFiniteSet(D) /\ Cardinality(D) \in Nat
<1>1. IsFiniteSet(1..n)
  BY FS_Interval
<1>2. IsFiniteSet(D)
  BY <1>1, FS_Subset
<1>3. QED
  BY <1>2, FS_CardinalityType

\* One more place at the end.
LEMMA AscendOneMore ==
  ASSUME NEW n \in Nat, NEW D \in SUBSET (1..n), NEW f, IsAscending(f, D)
  PROVE  \E g : IsAscending(g, D \cup {n + 1})
<1> DEFINE k == Cardinality(D)
           g == [m \in 1..k + 1 |-> IF m = k + 1 THEN n + 1 ELSE f[m]]
<1>1. IsFiniteSet(D) /\ k \in Nat
  BY FinitePlaces
<1>2. n + 1 \notin D
  OBVIOUS
<1>3. Cardinality(D \cup {n + 1}) = k + 1
  BY <1>1, <1>2, FS_AddElement
<1>4. \A m \in 1..k : f[m] \in D /\ f[m] \in 1..n
  BY DEF IsAscending
<1>5. g \in [1..k + 1 -> D \cup {n + 1}]
  BY <1>1, <1>4
<1>6. \A a, b \in 1..k + 1 : a < b => g[a] < g[b]
  <2> SUFFICES ASSUME NEW a \in 1..k + 1, NEW b \in 1..k + 1, a < b PROVE g[a] < g[b]
    OBVIOUS
  <2>1. a \in 1..k /\ g[a] = f[a]
    BY <1>1
  <2>2. CASE b = k + 1
    BY <2>1, <2>2, <1>4
  <2>3. CASE b # k + 1
    <3>1. b \in 1..k /\ g[b] = f[b]
      BY <2>3, <1>1
    <3>2. QED
      BY <2>1, <3>1 DEF IsAscending
  <2>4. QED
    BY <2>2, <2>3
<1>7. \A i \in D \cup {n + 1} : \E m \in 1..k + 1 : g[m] = i
  <2>1. ASSUME NEW i \in D PROVE \E m \in 1..k + 1 : g[m] = i
    <3>1. PICK m \in 1..k : f[m] = i
      BY DEF IsAscending
    <3>2. m \in 1..k + 1 /\ g[m] = i
      BY <3>1, <1>1
    <3>3. QED
      BY <3>2
  <2>2. g[k + 1] = n + 1 /\ k + 1 \in 1..k + 1
    BY <1>1
  <2>3. QED
    BY <2>1, <2>2
<1>8. IsAscending(g, D \cup {n + 1})
  <2>1. DOMAIN g = 1..k + 1
    OBVIOUS
  <2>2. QED
    BY <2>1, <1>3, <1>5, <1>6, <1>7 DEF IsAscending
<1>9. QED
  BY <1>8

LEMMA AscendingExists ==
  ASSUME NEW n \in Nat, NEW D \in SUBSET (1..n)
  PROVE  \E f : IsAscending(f, D)
<1> DEFINE Missing == {m \in Nat : m <= n /\ ~\E f : IsAscending(f, D \cap 1..m)}
<1>1. ASSUME Missing # {} PROVE FALSE
  <2>1. PICK m \in Missing : \A a \in Missing : m <= a
    <3> HIDE DEF Missing
    <3>1. Missing \in SUBSET Nat
      BY DEF Missing
    <3>2. QED
      BY <3>1, <1>1, LeastNumber
  <2>2. CASE m = 0
    <3>1. D \cap 1..m = {} /\ Cardinality({}) = 0
      BY <2>2, FS_EmptySet
    <3>2. IsAscending(<<>>, {})
      BY <3>1 DEF IsAscending
    <3>3. QED
      BY <3>1, <3>2
  <2>3. CASE m # 0
    <3> DEFINE E == D \cap 1..m - 1
    <3>1. m \in Nat /\ m <= n /\ m - 1 \in Nat /\ m - 1 <= n
      BY <2>3
    <3>9. m - 1 \notin Missing
      <4> HIDE DEF Missing
      <4>1. ~(m <= m - 1)
        BY <3>1
      <4>2. QED
        BY <4>1, <2>1
    <3>2. PICK f : IsAscending(f, E)
      BY <3>1, <3>9
    <3>3. CASE m \in D
      <4>1. D \cap 1..m = E \cup {m - 1 + 1}
        BY <3>1, <3>3
      <4>2. \E g : IsAscending(g, E \cup {m - 1 + 1})
        <5> HIDE DEF E
        <5>1. E \in SUBSET (1..m - 1)
          BY DEF E
        <5>2. QED
          BY <3>1, <3>2, <5>1, AscendOneMore
      <4>3. QED
        BY <4>1, <4>2
    <3>4. CASE m \notin D
      <4>1. D \cap 1..m = E
        BY <3>1, <3>4
      <4>2. QED
        BY <4>1, <3>2
    <3>5. QED
      BY <3>3, <3>4
  <2>4. QED
    BY <2>2, <2>3
<1>2. D \cap 1..n = D
  OBVIOUS
<1>3. n \notin Missing
  BY <1>1
<1>4. QED
  BY <1>2, <1>3

LEMMA AscendingIs ==
  ASSUME NEW n \in Nat, NEW D \in SUBSET (1..n)
  PROVE  IsAscending(Ascending(D), D)
<1> DEFINE k == Cardinality(D)
           Order(f) == \A a, b \in DOMAIN f : a < b => f[a] < f[b]
<1>1. IsFiniteSet(D) /\ k \in Nat
  BY FinitePlaces
<1>2. \E f \in [1..k -> D] : Order(f)
  BY AscendingExists DEF IsAscending
<1>3. Ascending(D) \in [1..k -> D] /\ Order(Ascending(D))
  BY <1>2 DEF Ascending
<1> DEFINE f == Ascending(D)
<1> HIDE DEF f
<1>4. f \in Injection(1..k, D)
  <2>1. \A a, b \in 1..k : f[a] = f[b] => a = b
    <3> SUFFICES ASSUME NEW a \in 1..k, NEW b \in 1..k, f[a] = f[b], a # b PROVE FALSE
      OBVIOUS
    <3>1. f[a] \in 1..n /\ f[b] \in 1..n
      BY <1>3 DEF f
    <3>2. a < b \/ b < a
      BY <1>1
    <3>3. QED
      BY <1>3, <3>1, <3>2 DEF f
  <2>2. f \in [1..k -> D]
    BY <1>3 DEF f
  <2>3. QED
    BY <2>1, <2>2 DEF Injection, IsInjective
<1>5. IsFiniteSet(1..k) /\ Cardinality(1..k) = k
  BY <1>1, FS_Interval
<1>6. f \in Surjection(1..k, D)
  BY <1>1, <1>4, <1>5, FS_Injection
<1>7. QED
  BY <1>3, <1>6 DEF IsAscending, Surjection, f

\* Two ascending orders of a set are the same.
LEMMA AscendingUnique ==
  ASSUME NEW n \in Nat, NEW D \in SUBSET (1..n), NEW f, IsAscending(f, D), NEW g, IsAscending(g, D)
  PROVE  f = g
<1> DEFINE k == Cardinality(D)
           Different == {m \in Nat : m \in 1..k /\ f[m] # g[m]}
<1>1. k \in Nat
  BY FinitePlaces
<1>2. \A m \in 1..k : f[m] \in D /\ g[m] \in D /\ f[m] \in 1..n /\ g[m] \in 1..n
  BY DEF IsAscending
<1>3. DOMAIN f = 1..k /\ DOMAIN g = 1..k
  BY DEF IsAscending
<1>4. ASSUME Different # {} PROVE FALSE
  <2>1. PICK m \in Different : \A a \in Different : m <= a
    <3> HIDE DEF Different
    <3>1. Different \in SUBSET Nat
      BY DEF Different
    <3>2. QED
      BY <3>1, <1>4, LeastNumber
  <2>2. m \in 1..k /\ f[m] # g[m] /\ \A a \in 1..k : a < m => f[a] = g[a]
    BY <2>1, <1>1
  <2>3. CASE f[m] < g[m]
    <3>1. PICK a \in 1..k : g[a] = f[m]
      BY <1>2, <1>3, <2>2 DEF IsAscending
    <3>9. m < a => g[m] < g[a]
      BY <1>3, <2>2 DEF IsAscending
    <3>2. a < m
      <4>1. a # m /\ ~(m < a)
        BY <1>2, <1>3, <2>2, <2>3, <3>1, <3>9
      <4>2. QED
        BY <4>1, <1>1, <2>2
    <3>3. f[a] < f[m] /\ f[a] = g[a]
      BY <1>3, <2>2, <3>2 DEF IsAscending
    <3>4. QED
      BY <3>1, <3>3, <1>2, <2>2
  <2>4. CASE g[m] < f[m]
    <3>1. PICK a \in 1..k : f[a] = g[m]
      BY <1>2, <1>3, <2>2 DEF IsAscending
    <3>9. m < a => f[m] < f[a]
      BY <1>3, <2>2 DEF IsAscending
    <3>2. a < m
      <4>1. a # m /\ ~(m < a)
        BY <1>2, <1>3, <2>2, <2>4, <3>1, <3>9
      <4>2. QED
        BY <4>1, <1>1, <2>2
    <3>3. g[a] < g[m] /\ f[a] = g[a]
      BY <1>3, <2>2, <3>2 DEF IsAscending
    <3>4. QED
      BY <3>1, <3>3, <1>2, <2>2
  <2>5. QED
    BY <2>2, <2>3, <2>4, <1>2
<1>5. \A m \in 1..k : f[m] = g[m]
  BY <1>4, <1>1
<1>6. f \in [1..k -> D] /\ g \in [1..k -> D]
  BY DEF IsAscending
<1>7. QED
  <2> HIDE DEF k, Different
  <2>1. f = [m \in 1..k |-> f[m]] /\ g = [m \in 1..k |-> g[m]]
    BY <1>6
  <2>2. QED
    BY <2>1, <1>5

Places(list, kept) == {i \in DOMAIN list : list[i] \in kept}

LEMMA KeepOrder ==
  ASSUME NEW S, NEW list \in Seq(S), NEW kept
  PROVE  /\ Places(list, kept) \in SUBSET (1..Len(list))
         /\ IsFiniteSet(Places(list, kept)) /\ Cardinality(Places(list, kept)) \in 0..Len(list)
         /\ IsAscending(Ascending(Places(list, kept)), Places(list, kept))
         /\ Keep(list, kept) = [n \in 1..Cardinality(Places(list, kept)) |->
                                   list[Ascending(Places(list, kept))[n]]]
<1>1. Len(list) \in Nat /\ DOMAIN list = 1..Len(list)
  BY LenProperties
<1>2. Places(list, kept) \in SUBSET (1..Len(list))
  BY <1>1 DEF Places
<1>3. IsFiniteSet(Places(list, kept)) /\ Cardinality(Places(list, kept)) \in Nat
  BY <1>1, <1>2, FinitePlaces
<1>4. IsFiniteSet(1..Len(list)) /\ Cardinality(1..Len(list)) = Len(list)
  BY <1>1, FS_Interval
<1>5. Cardinality(Places(list, kept)) <= Len(list)
  BY <1>2, <1>4, FS_Subset
<1>6. IsAscending(Ascending(Places(list, kept)), Places(list, kept))
  BY <1>1, <1>2, AscendingIs
<1>7. DOMAIN Ascending(Places(list, kept)) = 1..Cardinality(Places(list, kept))
  BY <1>6 DEF IsAscending
<1>8. Keep(list, kept) = [n \in DOMAIN Ascending(Places(list, kept)) |->
                             list[Ascending(Places(list, kept))[n]]]
  BY DEF Keep, Places
<1>9. QED
  BY <1>1, <1>2, <1>3, <1>5, <1>6, <1>7, <1>8

\* What Keep returns: the elements that are kept, each as often as before.
LEMMA KeepFacts ==
  ASSUME NEW S, NEW list \in Seq(S), NEW kept
  PROVE  /\ Keep(list, kept) \in Seq(S) /\ Keep(list, kept) \in Seq(kept)
         /\ Len(Keep(list, kept)) <= Len(list)
         /\ Range(Keep(list, kept)) = Range(list) \cap kept
         /\ IsInjective(list) => IsInjective(Keep(list, kept))
<1> DEFINE D == Places(list, kept)
           k == Cardinality(D)
           order == Ascending(D)
           result == Keep(list, kept)
<1>1. /\ D \in SUBSET (1..Len(list)) /\ k \in 0..Len(list) /\ Len(list) \in Nat
      /\ IsAscending(order, D) /\ result = [n \in 1..k |-> list[order[n]]]
  BY KeepOrder, LenProperties
<1>2. \A n \in 1..k : order[n] \in D
  BY <1>1 DEF IsAscending
<1>3. \A i \in D : i \in DOMAIN list /\ list[i] \in S /\ list[i] \in kept
  BY ElementOfSeq DEF Places
<1>4. \A i \in D : \E n \in 1..k : order[n] = i
  BY <1>1 DEF IsAscending
<1>5. \A m, n \in 1..k : order[m] = order[n] => m = n
  <2> SUFFICES ASSUME NEW m \in 1..k, NEW n \in 1..k, order[m] = order[n], m # n PROVE FALSE
    OBVIOUS
  <2>1. DOMAIN order = 1..k /\ order[m] \in 1..Len(list) /\ order[n] \in 1..Len(list)
    BY <1>1, <1>2 DEF IsAscending
  <2>2. m < n \/ n < m
    BY <1>1
  <2>3. order[m] < order[n] \/ order[n] < order[m]
    BY <2>1, <2>2, <1>1 DEF IsAscending
  <2>4. QED
    BY <2>1, <2>3
<1>6. D = {i \in DOMAIN list : list[i] \in kept}
  BY DEF Places
<1> HIDE DEF D, k, order, result
<1>7. \A n \in 1..k : result[n] \in S /\ result[n] \in kept /\ result[n] = list[order[n]]
  BY <1>1, <1>2, <1>3
<1>8. result \in Seq(S) /\ result \in Seq(kept) /\ Len(result) = k /\ DOMAIN result = 1..k
  <2>1. result \in [1..k -> S] /\ result \in [1..k -> kept] /\ k \in Nat
    BY <1>1, <1>7
  <2>2. QED
    BY <2>1, IsASeq, LenProperties
<1>9. Range(result) = Range(list) \cap kept
  <2>1. ASSUME NEW x \in Range(result) PROVE x \in Range(list) \cap kept
    <3>1. PICK n \in 1..k : x = result[n]
      BY <1>8 DEF Range
    <3>2. order[n] \in DOMAIN list /\ x = list[order[n]] /\ x \in kept
      BY <3>1, <1>2, <1>3, <1>7
    <3>3. QED
      BY <3>2 DEF Range
  <2>2. ASSUME NEW x \in Range(list) \cap kept PROVE x \in Range(result)
    <3>1. PICK i \in DOMAIN list : x = list[i]
      BY DEF Range
    <3>2. i \in D
      BY <3>1, <1>6
    <3>3. PICK n \in 1..k : order[n] = i
      BY <3>2, <1>4
    <3>4. result[n] = x
      BY <3>1, <3>3, <1>7
    <3>5. QED
      BY <3>4, <1>8 DEF Range
  <2>3. QED
    BY <2>1, <2>2
<1>10. ASSUME IsInjective(list) PROVE IsInjective(result)
  <2> SUFFICES ASSUME NEW m \in 1..k, NEW n \in 1..k, result[m] = result[n] PROVE m = n
    BY <1>8 DEF IsInjective
  <2>1. list[order[m]] = list[order[n]] /\ order[m] \in DOMAIN list /\ order[n] \in DOMAIN list
    BY <1>7, <1>2, <1>3
  <2>2. order[m] = order[n]
    BY <2>1, <1>10 DEF IsInjective
  <2>3. QED
    BY <2>2, <1>5
<1>11. QED
  BY <1>1, <1>8, <1>9, <1>10 DEF result

\* Nothing is lost when all elements are kept.
LEMMA KeepAll ==
  ASSUME NEW S, NEW list \in Seq(S), NEW kept, Range(list) \subseteq kept
  PROVE  Keep(list, kept) = list
<1> DEFINE n == Len(list)
           same == [i \in 1..n |-> i]
<1>1. n \in Nat /\ DOMAIN list = 1..n
  BY LenProperties
<1>2. Places(list, kept) = 1..n
  BY <1>1 DEF Places, Range
<1>3. Cardinality(1..n) = n
  BY <1>1, FS_Interval
<1>4. IsAscending(same, 1..n)
  BY <1>1, <1>3 DEF IsAscending
<1>5. Ascending(1..n) = same
  <2>1. IsAscending(Ascending(1..n), 1..n)
    BY <1>1, AscendingIs
  <2> HIDE DEF same
  <2>2. QED
    BY <1>1, <1>4, <2>1, AscendingUnique
<1>6. Keep(list, kept) = [m \in 1..n |-> list[Ascending(1..n)[m]]]
  BY <1>2, <1>3, KeepOrder
<1>7. Keep(list, kept) = [m \in 1..n |-> list[m]]
  BY <1>5, <1>6
<1>8. list = [m \in 1..n |-> list[m]]
  BY <1>1, LenProperties
<1>9. QED
  BY <1>7, <1>8

LEMMA KeepNothing ==
  ASSUME NEW S, NEW list \in Seq(S), NEW kept, Range(list) \cap kept = {}
  PROVE  Keep(list, kept) = <<>>
<1>1. Keep(list, kept) \in Seq(S) /\ Range(Keep(list, kept)) = {}
  BY KeepFacts
<1>2. Len(Keep(list, kept)) = 0
  BY <1>1, LenProperties DEF Range
<1>3. QED
  BY <1>1, <1>2, EmptySeq

LEMMA AscendingFrom ==
  ASSUME NEW n \in Nat, NEW D \in SUBSET (1..n), NEW k \in Nat, NEW g \in [1..k -> D],
         \A a, b \in 1..k : a < b => g[a] < g[b],
         \A i \in D : \E m \in 1..k : g[m] = i
  PROVE  Cardinality(D) = k /\ Ascending(D) = g
<1>1. \A a, b \in 1..k : g[a] = g[b] => a = b
  <2> SUFFICES ASSUME NEW a \in 1..k, NEW b \in 1..k, g[a] = g[b], a # b PROVE FALSE
    OBVIOUS
  <2>1. g[a] \in 1..n /\ g[b] \in 1..n
    OBVIOUS
  <2>2. a < b \/ b < a
    OBVIOUS
  <2>3. QED
    BY <2>1, <2>2
<1>2. g \in Bijection(1..k, D)
  BY <1>1 DEF Bijection, Injection, IsInjective, Surjection
<1>3. IsFiniteSet(1..k) /\ Cardinality(1..k) = k
  BY FS_Interval
<1>4. Cardinality(D) = k
  BY <1>2, <1>3, FS_Bijection DEF ExistsBijection
<1>5. IsAscending(g, D)
  BY <1>4 DEF IsAscending
<1>6. QED
  BY <1>4, <1>5, AscendingIs, AscendingUnique

LEMMA KeepConcat ==
  ASSUME NEW S, NEW a \in Seq(S), NEW b \in Seq(S), NEW kept
  PROVE  Keep(a \o b, kept) = Keep(a, kept) \o Keep(b, kept)
<1> DEFINE A == Places(a, kept)
           B == Places(b, kept)
           D == Places(a \o b, kept)
           h == Cardinality(A)
           k == Cardinality(B)
           f == Ascending(A)
           g == Ascending(B)
           o == [n \in 1..h + k |-> IF n <= h THEN f[n] ELSE Len(a) + g[n - h]]
<1>1. /\ Len(a) \in Nat /\ Len(b) \in Nat /\ DOMAIN a = 1..Len(a) /\ DOMAIN b = 1..Len(b)
      /\ a \o b \in Seq(S) /\ Len(a \o b) = Len(a) + Len(b)
      /\ DOMAIN (a \o b) = 1..Len(a) + Len(b)
      /\ \A i \in 1..Len(a) + Len(b) : (a \o b)[i] = IF i <= Len(a) THEN a[i] ELSE b[i - Len(a)]
  BY LenProperties, ConcatProperties
<1>2. /\ h \in Nat /\ A \in SUBSET (1..Len(a)) /\ IsAscending(f, A)
      /\ Keep(a, kept) = [n \in 1..h |-> a[f[n]]]
  BY KeepOrder, <1>1
<1>3. /\ k \in Nat /\ B \in SUBSET (1..Len(b)) /\ IsAscending(g, B)
      /\ Keep(b, kept) = [n \in 1..k |-> b[g[n]]]
  BY KeepOrder, <1>1
<1>4. D = A \cup {i \in Len(a) + 1..Len(a) + Len(b) : i - Len(a) \in B}
  BY <1>1 DEF Places
<1>5. D \in SUBSET (1..Len(a) + Len(b))
  BY <1>1 DEF Places
<1>6. /\ \A n \in 1..h : f[n] \in A
      /\ \A m, n \in 1..h : m < n => f[m] < f[n]
      /\ \A i \in A : \E n \in 1..h : f[n] = i
  BY <1>2 DEF IsAscending
<1>7. /\ \A n \in 1..k : g[n] \in B
      /\ \A m, n \in 1..k : m < n => g[m] < g[n]
      /\ \A i \in B : \E n \in 1..k : g[n] = i
  BY <1>3 DEF IsAscending
<1> DEFINE la == Len(a)
           lb == Len(b)
<1> HIDE DEF A, B, D, h, k, f, g, la, lb
<1>8. la \in Nat /\ lb \in Nat
  BY <1>1 DEF la, lb
<1>9. \A n \in 1..h + k : \/ n \in 1..h /\ o[n] = f[n] /\ o[n] \in A /\ o[n] \in 1..la
                         \/ /\ n - h \in 1..k /\ o[n] = la + g[n - h] /\ g[n - h] \in B
                            /\ o[n] \in la + 1..la + lb
  <2> SUFFICES ASSUME NEW n \in 1..h + k
               PROVE  \/ n \in 1..h /\ o[n] = f[n] /\ o[n] \in A /\ o[n] \in 1..la
                      \/ /\ n - h \in 1..k /\ o[n] = la + g[n - h] /\ g[n - h] \in B
                         /\ o[n] \in la + 1..la + lb
    OBVIOUS
  <2>1. CASE n <= h
    <3>1. n \in 1..h
      BY <2>1, <1>2, <1>3
    <3>2. QED
      BY <3>1, <2>1, <1>2, <1>6 DEF la
  <2>2. CASE ~(n <= h)
    <3>1. n - h \in 1..k
      BY <2>2, <1>2, <1>3
    <3>2. g[n - h] \in B /\ g[n - h] \in 1..lb
      BY <3>1, <1>3, <1>7 DEF lb
    <3>3. QED
      BY <3>1, <3>2, <2>2, <1>8 DEF la, lb
  <2>3. QED
    BY <2>1, <2>2
<1>10. o \in [1..h + k -> D]
  <2>1. \A n \in 1..h + k : o[n] \in D
    <3> SUFFICES ASSUME NEW n \in 1..h + k PROVE o[n] \in D
      OBVIOUS
    <3>1. CASE n \in 1..h /\ o[n] = f[n] /\ o[n] \in A
      BY <3>1, <1>4
    <3>2. CASE n - h \in 1..k /\ o[n] = la + g[n - h] /\ g[n - h] \in B /\ o[n] \in la + 1..la + lb
      <4>1. o[n] - la = g[n - h] /\ o[n] \in la + 1..la + lb
        <5>1. g[n - h] \in 1..lb
          BY <3>2, <1>3 DEF lb
        <5>2. QED
          BY <5>1, <3>2, <1>8
      <4>2. QED
        BY <4>1, <3>2, <1>4 DEF la, lb
    <3>3. QED
      BY <3>1, <3>2, <1>9
  <2>2. QED
    BY <2>1
<1>11. \A m, n \in 1..h + k : m < n => o[m] < o[n]
  <2> SUFFICES ASSUME NEW m \in 1..h + k, NEW n \in 1..h + k, m < n PROVE o[m] < o[n]
    OBVIOUS
  <2> HIDE DEF o
  <2>1. CASE m \in 1..h /\ n \in 1..h /\ o[m] = f[m] /\ o[n] = f[n]
    BY <2>1, <1>6
  <2>2. CASE o[m] \in 1..la /\ o[n] \in la + 1..la + lb
    BY <2>2, <1>8
  <2>3. CASE m - h \in 1..k /\ n - h \in 1..k /\ o[m] = la + g[m - h] /\ o[n] = la + g[n - h]
    <3>1. m - h < n - h
      BY <1>2, <1>3
    <3>2. g[m - h] < g[n - h] /\ g[m - h] \in 1..lb /\ g[n - h] \in 1..lb
      BY <3>1, <2>3, <1>7, <1>3 DEF lb
    <3>3. QED
      BY <3>2, <2>3, <1>8
  <2>4. CASE m - h \in 1..k /\ n \in 1..h
    BY <2>4, <1>2, <1>3
  <2>5. QED
    BY <2>1, <2>2, <2>3, <2>4, <1>9
<1>12. \A i \in D : \E n \in 1..h + k : o[n] = i
  <2> SUFFICES ASSUME NEW i \in D PROVE \E n \in 1..h + k : o[n] = i
    OBVIOUS
  <2>1. CASE i \in A
    <3>1. PICK n \in 1..h : f[n] = i
      BY <2>1, <1>6
    <3>2. n \in 1..h + k /\ o[n] = i
      BY <3>1, <1>2, <1>3
    <3>3. QED
      BY <3>2
  <2>2. CASE i \in la + 1..la + lb /\ i - la \in B
    <3>1. PICK n \in 1..k : g[n] = i - la
      BY <2>2, <1>7
    <3>2. n + h \in 1..h + k /\ ~(n + h <= h) /\ (n + h) - h = n
      BY <1>2, <1>3
    <3>3. o[n + h] = la + g[(n + h) - h]
      <4> HIDE DEF o
      <4> DEFINE m == n + h
      <4>1. m \in 1..h + k /\ m \notin 1..h
        BY <1>2, <1>3
      <4> HIDE DEF m
      <4>2. o[m] = la + g[m - h]
        BY <4>1, <1>9
      <4>3. QED
        BY <4>2 DEF m
    <3>4. o[n + h] = i
      <4> HIDE DEF o
      <4>1. g[(n + h) - h] = i - la
        BY <3>1, <3>2
      <4>2. QED
        BY <4>1, <3>3, <2>2, <1>8
    <3>5. QED
      BY <3>2, <3>4
  <2>3. QED
    BY <2>1, <2>2, <1>4 DEF la, lb
<1>13. Cardinality(D) = h + k /\ Ascending(D) = o
  <2> HIDE DEF o
  <2>1. h + k \in Nat /\ Len(a) + Len(b) \in Nat
    BY <1>1, <1>2, <1>3
  <2>2. QED
    BY <2>1, <1>5, <1>10, <1>11, <1>12, AscendingFrom
<1>14. Keep(a \o b, kept) = [n \in 1..h + k |-> (a \o b)[o[n]]]
  <2> HIDE DEF o
  <2>1. Keep(a \o b, kept) = [n \in 1..Cardinality(D) |-> (a \o b)[Ascending(D)[n]]]
    <3> DEFINE list == a \o b
    <3>1. list \in Seq(S)
      BY <1>1
    <3> HIDE DEF list
    <3>2. Keep(list, kept) = [n \in 1..Cardinality(Places(list, kept)) |->
                                 list[Ascending(Places(list, kept))[n]]]
      BY <3>1, KeepOrder
    <3>3. QED
      BY <3>2 DEF D, list
  <2>2. QED
    BY <2>1, <1>13
<1>15. \A n \in 1..h + k : (a \o b)[o[n]] = IF n <= h THEN Keep(a, kept)[n] ELSE Keep(b, kept)[n - h]
  <2> SUFFICES ASSUME NEW n \in 1..h + k
               PROVE  (a \o b)[o[n]] = IF n <= h THEN Keep(a, kept)[n] ELSE Keep(b, kept)[n - h]
    OBVIOUS
  <2>1. CASE n \in 1..h /\ o[n] = f[n] /\ o[n] \in 1..la
    <3> HIDE DEF o
    <3>1. (a \o b)[o[n]] = a[f[n]]
      BY <2>1, <1>1 DEF la
    <3>2. QED
      BY <3>1, <2>1, <1>2
  <2>2. CASE n - h \in 1..k /\ o[n] = la + g[n - h] /\ g[n - h] \in B /\ o[n] \in la + 1..la + lb
    <3> HIDE DEF o
    <3>1. g[n - h] \in 1..lb
      BY <2>2, <1>3 DEF lb
    <3>2. ~(o[n] <= la) /\ o[n] - la = g[n - h] /\ o[n] \in 1..la + lb
      BY <3>1, <2>2, <1>8
    <3>3. (a \o b)[o[n]] = b[g[n - h]]
      BY <3>2, <1>1 DEF la, lb
    <3>4. ~(n <= h)
      BY <2>2, <1>2, <1>3
    <3>5. QED
      BY <3>3, <3>4, <2>2, <1>3
  <2>3. QED
    BY <2>1, <2>2, <1>9
<1>16. Keep(a, kept) \in Seq(S) /\ Len(Keep(a, kept)) = h /\ Keep(b, kept) \in Seq(S) /\ Len(Keep(b, kept)) = k
  <2>1. Keep(a, kept) \in Seq(S) /\ Keep(b, kept) \in Seq(S)
    BY KeepFacts
  <2>2. DOMAIN Keep(a, kept) = 1..h /\ DOMAIN Keep(b, kept) = 1..k
    BY <1>2, <1>3
  <2>3. QED
    BY <2>1, <2>2, <1>2, <1>3, LenProperties
<1>17. QED
  <2> HIDE DEF o
  <2>1. Keep(a \o b, kept) \in Seq(S)
    BY <1>1, KeepFacts
  <2>2. DOMAIN Keep(a \o b, kept) = 1..h + k /\ h + k \in Nat
    BY <1>14, <1>2, <1>3
  <2>3. Len(Keep(a \o b, kept)) = h + k
    BY <2>1, <2>2, LenProperties
  <2>7. \A n \in 1..h + k : (Keep(a, kept) \o Keep(b, kept))[n] =
                                IF n <= h THEN Keep(a, kept)[n] ELSE Keep(b, kept)[n - h]
    BY <1>16, ConcatProperties
  <2>4. \A n \in 1..h + k : Keep(a \o b, kept)[n] = (Keep(a, kept) \o Keep(b, kept))[n]
    BY <1>14, <1>15, <2>7
  <2>5. Keep(a, kept) \o Keep(b, kept) \in Seq(S) /\ Len(Keep(a, kept) \o Keep(b, kept)) = h + k
    BY <1>16, ConcatProperties
  <2>6. QED
    BY <2>1, <2>3, <2>4, <2>5, SeqEqual

\* What a list of records is mapped to is filtered in the same way.
LEMMA KeepMatching ==
  ASSUME NEW S, NEW T, NEW a \in Seq(S), NEW b \in Seq(T), NEW keptA, NEW keptB, DOMAIN b = DOMAIN a,
         \A i \in DOMAIN a : a[i] \in keptA <=> b[i] \in keptB
  PROVE  /\ DOMAIN Keep(b, keptB) = DOMAIN Keep(a, keptA)
         /\ \A n \in DOMAIN Keep(a, keptA) :
              \E i \in DOMAIN a : Keep(a, keptA)[n] = a[i] /\ Keep(b, keptB)[n] = b[i]
<1> DEFINE D == Places(a, keptA)
           k == Cardinality(D)
<1>1. Places(b, keptB) = D
  BY DEF Places
<1>2. /\ D \in SUBSET (1..Len(a)) /\ IsAscending(Ascending(D), D)
      /\ Keep(a, keptA) = [n \in 1..k |-> a[Ascending(D)[n]]]
  BY KeepOrder
<1>3. Keep(b, keptB) = [n \in 1..k |-> b[Ascending(D)[n]]]
  BY KeepOrder, <1>1
<1>4. \A n \in 1..k : Ascending(D)[n] \in DOMAIN a
  BY <1>2, LenProperties DEF IsAscending
<1> HIDE DEF D, k
<1>5. QED
  BY <1>2, <1>3, <1>4

-----------------------------------------------------------------------------
(* Waiter lists                                                            *)

LEMMA HeapFields ==
  ASSUME NEW s \in Heap
  PROVE  /\ s.chan \in [Chans -> Channel] /\ s.token \in [Tokens -> Token]
         /\ s = [chan |-> s.chan, token |-> s.token]
         /\ \A c \in Chans : /\ s.chan[c] \in Channel
                             /\ s.chan[c].buffer \in Seq(Values) /\ s.chan[c].pending \in Seq(PendingSend)
                             /\ s.chan[c].completed \in SUBSET Tasks /\ s.chan[c].closed \in BOOLEAN
                             /\ s.chan[c].recvWaiters \in Seq(Tokens) /\ s.chan[c].sendWaiters \in Seq(Tokens)
         /\ \A k \in Tokens : /\ s.token[k] \in Token
                              /\ s.token[k].signaled \in BOOLEAN /\ s.token[k].canceled \in BOOLEAN
                              /\ s.token[k].registrations \in SUBSET Registration
<1>1. s.chan \in [Chans -> Channel] /\ s.token \in [Tokens -> Token] /\ s = [chan |-> s.chan, token |-> s.token]
  BY DEF Heap
<1>2. QED
  BY <1>1 DEF Channel, Token

\* The part of a heap that waiting does not touch.
SameValues(s, r) ==
    \A c \in Chans : /\ r.chan[c].buffer = s.chan[c].buffer /\ r.chan[c].pending = s.chan[c].pending
                     /\ r.chan[c].completed = s.chan[c].completed /\ r.chan[c].closed = s.chan[c].closed

\* The tokens K are gone from the lists.
Unlisted(s, r, K) ==
    /\ \A c \in Chans :
         /\ Range(r.chan[c].recvWaiters) = Range(s.chan[c].recvWaiters) \ K
         /\ Range(r.chan[c].sendWaiters) = Range(s.chan[c].sendWaiters) \ K
         /\ IsInjective(r.chan[c].recvWaiters) /\ IsInjective(r.chan[c].sendWaiters)
    /\ \A k \in Tokens : IF k \in K THEN r.token[k].registrations = {} ELSE r.token[k] = s.token[k]

LEMMA UnlistedListed ==
  ASSUME NEW s \in Heap, Listed(s), NEW r \in Heap, NEW K, Unlisted(s, r, K)
  PROVE  Listed(r)
<1>1. ASSUME NEW c \in Chans, NEW k \in Tokens
      PROVE  /\ k \in Range(r.chan[c].recvWaiters) <=> <<c, "recv">> \in r.token[k].registrations
             /\ k \in Range(r.chan[c].sendWaiters) <=> <<c, "send">> \in r.token[k].registrations
  BY DEF Listed, Unlisted
<1>2. ASSUME NEW k \in Tokens, r.token[k].registrations # {} PROVE Live(r, k)
  <2>1. k \notin K /\ r.token[k] = s.token[k]
    BY <1>2 DEF Unlisted
  <2>2. QED
    BY <2>1, <1>2 DEF Listed, Live
<1>3. QED
  BY <1>1, <1>2 DEF Listed, Unlisted

\* unregisterAll, cancelWaitSet and closing filter the lists in one way.
Filtered(s, r, K) ==
    \A c \in Chans :
        /\ r.chan[c].recvWaiters =
             IF \E k \in K : <<c, "recv">> \in s.token[k].registrations
             THEN Keep(s.chan[c].recvWaiters, LiveTokens(s) \ K) ELSE s.chan[c].recvWaiters
        /\ r.chan[c].sendWaiters =
             IF \E k \in K : <<c, "send">> \in s.token[k].registrations
             THEN Keep(s.chan[c].sendWaiters, LiveTokens(s) \ K) ELSE s.chan[c].sendWaiters

LEMMA ListedFacts ==
  ASSUME NEW s \in Heap, Listed(s), NEW c \in Chans
  PROVE  /\ Range(s.chan[c].recvWaiters) \subseteq LiveTokens(s)
         /\ Range(s.chan[c].sendWaiters) \subseteq LiveTokens(s)
         /\ IsInjective(s.chan[c].recvWaiters) /\ IsInjective(s.chan[c].sendWaiters)
<1>1. Range(s.chan[c].recvWaiters) \subseteq Tokens /\ Range(s.chan[c].sendWaiters) \subseteq Tokens
  <2>1. s.chan[c].recvWaiters \in Seq(Tokens) /\ s.chan[c].sendWaiters \in Seq(Tokens)
    BY HeapFields
  <2>2. QED
    BY <2>1, LenProperties DEF Range
<1>2. QED
  BY <1>1 DEF Listed, LiveTokens

LEMMA FilteredUnlisted ==
  ASSUME NEW s \in Heap, Listed(s), NEW r, NEW K \in SUBSET Tokens, Filtered(s, r, K),
         \A k \in Tokens : IF k \in K THEN r.token[k].registrations = {} ELSE r.token[k] = s.token[k]
  PROVE  /\ Unlisted(s, r, K)
         /\ \A c \in Chans : r.chan[c].recvWaiters \in Seq(Tokens) /\ r.chan[c].sendWaiters \in Seq(Tokens)
<1>1. ASSUME NEW c \in Chans
      PROVE  /\ Range(r.chan[c].recvWaiters) = Range(s.chan[c].recvWaiters) \ K
             /\ IsInjective(r.chan[c].recvWaiters) /\ r.chan[c].recvWaiters \in Seq(Tokens)
  <2> DEFINE list == s.chan[c].recvWaiters
  <2>1. list \in Seq(Tokens) /\ Range(list) \subseteq LiveTokens(s) /\ IsInjective(list)
    BY HeapFields, ListedFacts
  <2>2. /\ Keep(list, LiveTokens(s) \ K) \in Seq(Tokens) /\ IsInjective(Keep(list, LiveTokens(s) \ K))
        /\ Range(Keep(list, LiveTokens(s) \ K)) = Range(list) \cap (LiveTokens(s) \ K)
    BY <2>1, KeepFacts
  <2>3. CASE \E k \in K : <<c, "recv">> \in s.token[k].registrations
    BY <2>1, <2>2, <2>3 DEF Filtered
  <2>4. CASE ~\E k \in K : <<c, "recv">> \in s.token[k].registrations
    <3>1. Range(list) \cap K = {}
      BY <2>4 DEF Listed
    <3>2. QED
      BY <2>1, <2>4, <3>1 DEF Filtered
  <2>5. QED
    BY <2>3, <2>4
<1>2. ASSUME NEW c \in Chans
      PROVE  /\ Range(r.chan[c].sendWaiters) = Range(s.chan[c].sendWaiters) \ K
             /\ IsInjective(r.chan[c].sendWaiters) /\ r.chan[c].sendWaiters \in Seq(Tokens)
  <2> DEFINE list == s.chan[c].sendWaiters
  <2>1. list \in Seq(Tokens) /\ Range(list) \subseteq LiveTokens(s) /\ IsInjective(list)
    BY HeapFields, ListedFacts
  <2>2. /\ Keep(list, LiveTokens(s) \ K) \in Seq(Tokens) /\ IsInjective(Keep(list, LiveTokens(s) \ K))
        /\ Range(Keep(list, LiveTokens(s) \ K)) = Range(list) \cap (LiveTokens(s) \ K)
    BY <2>1, KeepFacts
  <2>3. CASE \E k \in K : <<c, "send">> \in s.token[k].registrations
    BY <2>1, <2>2, <2>3 DEF Filtered
  <2>4. CASE ~\E k \in K : <<c, "send">> \in s.token[k].registrations
    <3>1. Range(list) \cap K = {}
      BY <2>4 DEF Listed
    <3>2. QED
      BY <2>1, <2>4, <3>1 DEF Filtered
  <2>5. QED
    BY <2>3, <2>4
<1>3. QED
  BY <1>1, <1>2 DEF Unlisted

-----------------------------------------------------------------------------
(* Wait tokens                                                             *)

\* Some waiting tokens were signalled.
Woken(s, r) ==
    /\ r \in Heap /\ Listed(r) /\ SameValues(s, r)
    /\ \A k \in Tokens :
         \/ r.token[k] = s.token[k]
         \/ /\ s.token[k].registrations # {}
            /\ r.token[k] = [signaled |-> TRUE, canceled |-> FALSE, registrations |-> {}]

\* The tokens K were cancelled.
Canceled(s, r, K) ==
    /\ r \in Heap /\ Listed(r) /\ SameValues(s, r)
    /\ \A k \in Tokens :
         IF k \in K THEN r.token[k].canceled /\ r.token[k].registrations = {} ELSE r.token[k] = s.token[k]

\* A heap in which only waiter lists and tokens differ from those of s.
LEMMA RelistedHeap ==
  ASSUME NEW s \in Heap, NEW r, r = [chan |-> r.chan, token |-> r.token],
         r.chan = [c \in Chans |-> r.chan[c]], r.token = [k \in Tokens |-> r.token[k]],
         \A c \in Chans : r.chan[c] = [s.chan[c] EXCEPT !.recvWaiters = r.chan[c].recvWaiters,
                                                       !.sendWaiters = r.chan[c].sendWaiters],
         \A c \in Chans : r.chan[c].recvWaiters \in Seq(Tokens) /\ r.chan[c].sendWaiters \in Seq(Tokens),
         \A k \in Tokens : r.token[k] \in Token
  PROVE  r \in Heap /\ SameValues(s, r)
<1>1. ASSUME NEW c \in Chans
      PROVE  /\ r.chan[c] \in Channel
             /\ r.chan[c].buffer = s.chan[c].buffer /\ r.chan[c].pending = s.chan[c].pending
             /\ r.chan[c].completed = s.chan[c].completed /\ r.chan[c].closed = s.chan[c].closed
  <2> DEFINE R == r.chan[c].recvWaiters
             S == r.chan[c].sendWaiters
  <2>1. s.chan[c] \in Channel /\ R \in Seq(Tokens) /\ S \in Seq(Tokens)
    BY HeapFields, Zenon
  <2>2. r.chan[c] = [s.chan[c] EXCEPT !.recvWaiters = R, !.sendWaiters = S]
    BY Zenon
  <2> HIDE DEF R, S
  <2>3. QED
    BY <2>1, <2>2, Zenon DEF Channel
<1>2. r.chan \in [Chans -> Channel] /\ r.token \in [Tokens -> Token]
  BY <1>1, Zenon
<1>3. QED
  BY <1>1, <1>2, Zenon DEF Heap, SameValues

LEMMA TokenSet ==
  ASSUME NEW x \in Token, NEW y \in BOOLEAN
  PROVE  /\ [x EXCEPT !.canceled = y, !.registrations = {}] =
                [signaled |-> x.signaled, canceled |-> y, registrations |-> {}]
         /\ [x EXCEPT !.signaled = y, !.registrations = {}] =
                [signaled |-> y, canceled |-> x.canceled, registrations |-> {}]
         /\ [x EXCEPT !.registrations = {}] =
                [signaled |-> x.signaled, canceled |-> x.canceled, registrations |-> {}]
         /\ x.signaled \in BOOLEAN /\ x.canceled \in BOOLEAN
<1>1. /\ [x EXCEPT !.canceled = y, !.registrations = {}] \in Token
      /\ [x EXCEPT !.canceled = y, !.registrations = {}].signaled = x.signaled
      /\ [x EXCEPT !.canceled = y, !.registrations = {}].canceled = y
      /\ [x EXCEPT !.canceled = y, !.registrations = {}].registrations = {}
  BY DEF Token
<1>2. /\ [x EXCEPT !.signaled = y, !.registrations = {}] \in Token
      /\ [x EXCEPT !.signaled = y, !.registrations = {}].signaled = y
      /\ [x EXCEPT !.signaled = y, !.registrations = {}].canceled = x.canceled
      /\ [x EXCEPT !.signaled = y, !.registrations = {}].registrations = {}
  BY DEF Token
<1>3. x.signaled \in BOOLEAN /\ x.canceled \in BOOLEAN
  BY DEF Token
<1>6. /\ [x EXCEPT !.registrations = {}] \in Token
      /\ [x EXCEPT !.registrations = {}].signaled = x.signaled
      /\ [x EXCEPT !.registrations = {}].canceled = x.canceled
      /\ [x EXCEPT !.registrations = {}].registrations = {}
  BY DEF Token
<1>4. \A w \in Token : w = [signaled |-> w.signaled, canceled |-> w.canceled, registrations |-> w.registrations]
  BY DEF Token
<1>5. QED
  BY <1>1, <1>2, <1>3, <1>4, <1>6

LEMMA TokenRegister ==
  ASSUME NEW x \in Token, NEW z \in SUBSET Registration
  PROVE  /\ [x EXCEPT !.registrations = z] \in Token
         /\ [x EXCEPT !.registrations = z] = [signaled |-> x.signaled, canceled |-> x.canceled, registrations |-> z]
<1>1. /\ [x EXCEPT !.registrations = z] \in Token
      /\ [x EXCEPT !.registrations = z].signaled = x.signaled
      /\ [x EXCEPT !.registrations = z].canceled = x.canceled
      /\ [x EXCEPT !.registrations = z].registrations = z
  BY DEF Token
<1>2. \A w \in Token : w = [signaled |-> w.signaled, canceled |-> w.canceled, registrations |-> w.registrations]
  BY DEF Token
<1>3. QED
  BY <1>1, <1>2

LEMMA TokenMade ==
  ASSUME NEW x \in BOOLEAN, NEW y \in BOOLEAN
  PROVE  [signaled |-> x, canceled |-> y, registrations |-> {}] \in Token
BY DEF Token

LEMMA CancelTokensFacts ==
  ASSUME NEW s \in Heap, Listed(s), NEW K \in SUBSET Tokens
  PROVE  Canceled(s, CancelTokens(s, K), K)
<1> DEFINE r == CancelTokens(s, K)
<1>1. \A c \in Chans : r.chan[c] = [s.chan[c] EXCEPT !.recvWaiters = r.chan[c].recvWaiters,
                                                    !.sendWaiters = r.chan[c].sendWaiters]
  <2> SUFFICES ASSUME NEW c \in Chans
               PROVE  r.chan[c] = [s.chan[c] EXCEPT !.recvWaiters = r.chan[c].recvWaiters,
                                                    !.sendWaiters = r.chan[c].sendWaiters]
    OBVIOUS
  <2> PICK x : x = s.chan[c]
    OBVIOUS
  <2>1. x \in Channel
    BY HeapFields
  <2> DEFINE left(dir, waiters) == IF \E k \in K : <<c, dir>> \in s.token[k].registrations
                                   THEN Keep(waiters, LiveTokens(s) \ K) ELSE waiters
  <2> PICK a : a = left("recv", x.recvWaiters)
    OBVIOUS
  <2> PICK b : b = left("send", x.sendWaiters)
    OBVIOUS
  <2>2. r.chan[c] = [x EXCEPT !.recvWaiters = a, !.sendWaiters = b]
    BY DEF CancelTokens
  <2>3. r.chan[c].recvWaiters = a /\ r.chan[c].sendWaiters = b
    BY ONLY <2>1, <2>2 DEF Channel
  <2>4. QED
    BY ONLY <2>2, <2>3, x = s.chan[c]
<1>2. Filtered(s, r, K)
  <2>1. \A c \in Chans : s.chan[c] \in Channel
    BY HeapFields
  <2>2. QED
    BY <2>1 DEF CancelTokens, Filtered, Channel
<1>3. /\ r = [chan |-> r.chan, token |-> r.token]
      /\ r.chan = [c \in Chans |-> r.chan[c]] /\ r.token = [k \in Tokens |-> r.token[k]]
  BY DEF CancelTokens
<1>4. \A k \in Tokens : r.token[k] = IF k \in K
                                   THEN [s.token[k] EXCEPT !.canceled = TRUE, !.registrations = {}]
                                   ELSE s.token[k]
  BY DEF CancelTokens
<1> HIDE DEF r
<1>5. \A k \in Tokens : r.token[k] = IF k \in K
                                   THEN [signaled |-> s.token[k].signaled, canceled |-> TRUE, registrations |-> {}]
                                   ELSE s.token[k]
  BY <1>4, TokenSet, HeapFields, Zenon
<1>6. \A k \in Tokens :
         IF k \in K THEN r.token[k].canceled /\ r.token[k].registrations = {} ELSE r.token[k] = s.token[k]
  <2>1. ASSUME NEW k \in Tokens
        PROVE  IF k \in K THEN r.token[k].canceled /\ r.token[k].registrations = {} ELSE r.token[k] = s.token[k]
    <3>1. CASE k \in K
      <4>1. r.token[k] = [signaled |-> s.token[k].signaled, canceled |-> TRUE, registrations |-> {}]
        BY <1>5, <3>1
      <4>2. QED
        BY <4>1, <3>1
    <3>2. CASE k \notin K
      BY <1>5, <3>2
    <3>3. QED
      BY <3>1, <3>2
  <2>2. QED
    BY <2>1
<1>7. \A k \in Tokens : r.token[k] \in Token
  BY <1>5, HeapFields, TokenMade
<1>8. Unlisted(s, r, K) /\ \A c \in Chans : r.chan[c].recvWaiters \in Seq(Tokens) /\ r.chan[c].sendWaiters \in Seq(Tokens)
  BY <1>2, <1>6, FilteredUnlisted
<1>9. r \in Heap /\ SameValues(s, r)
  BY <1>1, <1>3, <1>7, <1>8, RelistedHeap, Zenon
<1>10. Listed(r)
  BY <1>8, <1>9, UnlistedListed
<1>11. QED
  BY <1>6, <1>9, <1>10 DEF Canceled, r

\* Token k leaves every list; nothing else changes but that token.
Left(s, r, k, x) ==
    /\ r \in Heap /\ Listed(r) /\ SameValues(s, r)
    /\ r.token = [s.token EXCEPT ![k] = x]

\* The lists of h are those of s, token k taken from some of them already.
Between(s, h, k) ==
    /\ h \in Heap /\ SameValues(s, h) /\ h.token = s.token
    /\ \A c \in Chans :
         /\ Range(s.chan[c].recvWaiters) \ {k} \subseteq Range(h.chan[c].recvWaiters)
         /\ Range(h.chan[c].recvWaiters) \subseteq Range(s.chan[c].recvWaiters)
         /\ IsInjective(h.chan[c].recvWaiters)
         /\ Range(s.chan[c].sendWaiters) \ {k} \subseteq Range(h.chan[c].sendWaiters)
         /\ Range(h.chan[c].sendWaiters) \subseteq Range(s.chan[c].sendWaiters)
         /\ IsInjective(h.chan[c].sendWaiters)

LosesOne(list, whole, kept, k) ==
    /\ list \in Seq(Tokens) /\ IsInjective(list)
    /\ whole \ {k} \subseteq kept /\ k \notin kept /\ whole \ {k} \subseteq Range(list) /\ Range(list) \subseteq whole

LEMMA LeftList ==
  ASSUME NEW list, NEW whole, NEW kept, NEW k, LosesOne(list, whole, kept, k)
  PROVE  /\ Keep(list, kept) \in Seq(Tokens) /\ IsInjective(Keep(list, kept))
         /\ Range(Keep(list, kept)) = whole \ {k}
         /\ k \notin whole => Range(list) = whole \ {k}
<1>1. /\ Keep(list, kept) \in Seq(Tokens) /\ IsInjective(Keep(list, kept))
      /\ Range(Keep(list, kept)) = Range(list) \cap kept
  BY KeepFacts DEF LosesOne
<1>2. QED
  BY <1>1 DEF LosesOne

LEMMA UnregisterFacts ==
  ASSUME NEW s \in Heap, Listed(s), NEW k \in Tokens, NEW h, Between(s, h, k), NEW g, NEW x \in Token,
         g.chan = h.chan, g.token = [s.token EXCEPT ![k] = x], x.registrations = s.token[k].registrations
  PROVE  Left(s, UnregisterAll(g, k), k, [signaled |-> x.signaled, canceled |-> x.canceled, registrations |-> {}])
<1> DEFINE r == UnregisterAll(g, k)
           y == [signaled |-> x.signaled, canceled |-> x.canceled, registrations |-> {}]
           live == LiveTokens(s)
<1>1. LiveTokens(g) \ {k} = live \ {k}
  BY HeapFields DEF LiveTokens, Live
<1>2. g.token[k].registrations = s.token[k].registrations
  BY HeapFields
<1>3. \A c \in Chans :
        /\ h.chan[c] \in Channel
        /\ r.chan[c] = [h.chan[c] EXCEPT !.recvWaiters = IF <<c, "recv">> \in s.token[k].registrations
                                                         THEN Keep(@, live \ {k}) ELSE @,
                                         !.sendWaiters = IF <<c, "send">> \in s.token[k].registrations
                                                         THEN Keep(@, live \ {k}) ELSE @]
  <2>1. \A c \in Chans : h.chan[c] \in Channel
    BY HeapFields DEF Between
  <2> HIDE DEF live
  <2>2. QED
    BY <2>1, <1>1, <1>2 DEF UnregisterAll
<1>4. \A c \in Chans :
        /\ r.chan[c].recvWaiters = IF <<c, "recv">> \in s.token[k].registrations
                                   THEN Keep(h.chan[c].recvWaiters, live \ {k}) ELSE h.chan[c].recvWaiters
        /\ r.chan[c].sendWaiters = IF <<c, "send">> \in s.token[k].registrations
                                   THEN Keep(h.chan[c].sendWaiters, live \ {k}) ELSE h.chan[c].sendWaiters
        /\ r.chan[c] = [h.chan[c] EXCEPT !.recvWaiters = r.chan[c].recvWaiters, !.sendWaiters = r.chan[c].sendWaiters]
  <2> HIDE DEF r, live
  <2>1. QED
    BY <1>3, Zenon DEF Channel
<1>5. /\ r = [chan |-> r.chan, token |-> r.token] /\ r.chan = [c \in Chans |-> r.chan[c]]
      /\ r.token = [s.token EXCEPT ![k] = y]
  <2>1. /\ r = [chan |-> r.chan, token |-> r.token] /\ r.chan = [c \in Chans |-> r.chan[c]]
        /\ r.token = [g.token EXCEPT ![k].registrations = {}]
    BY DEF UnregisterAll
  <2>2. s.token \in [Tokens -> Token] /\ g.token[k] = x
    BY HeapFields
  <2>3. [x EXCEPT !.registrations = {}] = y
    BY TokenSet, Zenon
  <2>4. r.token = [g.token EXCEPT ![k] = [x EXCEPT !.registrations = {}]]
    BY <2>1, <2>2
  <2> HIDE DEF r, y
  <2>5. QED
    BY <2>1, <2>2, <2>3, <2>4
<1>6. y \in Token /\ y.registrations = {}
  BY TokenMade, TokenSet, Zenon DEF Token
<1> HIDE DEF r, y
<1>7. /\ r.token \in [Tokens -> Token] /\ r.token[k] = y
      /\ \A m \in Tokens : m # k => r.token[m] = s.token[m]
  BY <1>5, <1>6, HeapFields
<1>8. ASSUME NEW c \in Chans
      PROVE  /\ r.chan[c].recvWaiters \in Seq(Tokens) /\ IsInjective(r.chan[c].recvWaiters)
             /\ Range(r.chan[c].recvWaiters) = Range(s.chan[c].recvWaiters) \ {k}
             /\ r.chan[c].sendWaiters \in Seq(Tokens) /\ IsInjective(r.chan[c].sendWaiters)
             /\ Range(r.chan[c].sendWaiters) = Range(s.chan[c].sendWaiters) \ {k}
  <2> DEFINE R == h.chan[c].recvWaiters
             S == h.chan[c].sendWaiters
             RS == Range(s.chan[c].recvWaiters)
             SS == Range(s.chan[c].sendWaiters)
             kept == live \ {k}
  <2>1. R \in Seq(Tokens) /\ S \in Seq(Tokens)
    BY HeapFields DEF Between
  <2>2. RS \subseteq live /\ SS \subseteq live /\ live \subseteq Tokens
    BY ListedFacts DEF LiveTokens
  <2>3. /\ RS \ {k} \subseteq Range(R) /\ Range(R) \subseteq RS /\ IsInjective(R)
        /\ SS \ {k} \subseteq Range(S) /\ Range(S) \subseteq SS /\ IsInjective(S)
    BY DEF Between
  <2>4. (k \in RS => <<c, "recv">> \in s.token[k].registrations) /\ (k \in SS => <<c, "send">> \in s.token[k].registrations)
    BY DEF Listed
  <2>5. /\ r.chan[c].recvWaiters = IF <<c, "recv">> \in s.token[k].registrations THEN Keep(R, kept) ELSE R
        /\ r.chan[c].sendWaiters = IF <<c, "send">> \in s.token[k].registrations THEN Keep(S, kept) ELSE S
    BY <1>4, Zenon
  <2>9. LosesOne(R, RS, kept, k) /\ LosesOne(S, SS, kept, k)
    BY <2>1, <2>2, <2>3 DEF LosesOne
  <2> HIDE DEF R, S, RS, SS, kept
  <2>6. r.chan[c].recvWaiters \in Seq(Tokens) /\ IsInjective(r.chan[c].recvWaiters) /\ Range(r.chan[c].recvWaiters) = RS \ {k}
    <3>1. /\ Keep(R, kept) \in Seq(Tokens) /\ IsInjective(Keep(R, kept))
          /\ Range(Keep(R, kept)) = RS \ {k}
          /\ k \notin RS => Range(R) = RS \ {k}
      BY <2>9, LeftList
    <3>2. QED
      BY <2>1, <2>3, <2>4, <2>5, <3>1
  <2>7. r.chan[c].sendWaiters \in Seq(Tokens) /\ IsInjective(r.chan[c].sendWaiters) /\ Range(r.chan[c].sendWaiters) = SS \ {k}
    <3>1. /\ Keep(S, kept) \in Seq(Tokens) /\ IsInjective(Keep(S, kept))
          /\ Range(Keep(S, kept)) = SS \ {k}
          /\ k \notin SS => Range(S) = SS \ {k}
      BY <2>9, LeftList
    <3>2. QED
      BY <2>1, <2>3, <2>4, <2>5, <3>1
  <2>8. QED
    BY <2>6, <2>7 DEF RS, SS
<1>9. r \in Heap /\ SameValues(h, r)
  <2>1. h \in Heap
    BY DEF Between
  <2>2. r.token = [m \in Tokens |-> r.token[m]] /\ \A m \in Tokens : r.token[m] \in Token
    BY <1>7
  <2>3. QED
    BY <2>1, <2>2, <1>4, <1>5, <1>8, RelistedHeap, Zenon
<1>10. SameValues(s, r)
  BY <1>9 DEF Between, SameValues
<1>11. Unlisted(s, r, {k})
  BY <1>6, <1>7, <1>8 DEF Unlisted
<1>12. Listed(r)
  BY <1>9, <1>11, UnlistedListed
<1>13. QED
  BY <1>5, <1>9, <1>10, <1>12 DEF Left, r, y

Awake == [signaled |-> TRUE, canceled |-> FALSE, registrations |-> {}]

LEMMA BetweenSelf ==
  ASSUME NEW s \in Heap, Listed(s), NEW k
  PROVE  Between(s, s, k)
BY ListedFacts DEF Between, SameValues

LEMMA TokenField ==
  ASSUME NEW x \in Token
  PROVE  /\ [x EXCEPT !.signaled = TRUE] \in Token /\ [x EXCEPT !.signaled = TRUE].signaled = TRUE
         /\ [x EXCEPT !.signaled = TRUE].canceled = x.canceled
         /\ [x EXCEPT !.signaled = TRUE].registrations = x.registrations
         /\ [x EXCEPT !.canceled = TRUE] \in Token /\ [x EXCEPT !.canceled = TRUE].canceled = TRUE
         /\ [x EXCEPT !.canceled = TRUE].signaled = x.signaled
         /\ [x EXCEPT !.canceled = TRUE].registrations = x.registrations
BY DEF Token

LEMMA TokenSignalFacts ==
  ASSUME NEW s \in Heap, Listed(s), NEW k \in Tokens, ~s.token[k].canceled, NEW h, Between(s, h, k)
  PROVE  Left(s, TokenSignal(h, k), k, Awake)
<1> DEFINE x == [s.token[k] EXCEPT !.signaled = TRUE]
           g == [h EXCEPT !.token[k].signaled = TRUE]
<1>1. h \in Heap /\ h.token = s.token
  BY DEF Between
<1>2. TokenSignal(h, k) = UnregisterAll(g, k)
  BY <1>1 DEF TokenSignal
<1>3. g.chan = h.chan /\ g.token = [s.token EXCEPT ![k] = x]
  BY <1>1, HeapFields
<1>4. s.token[k] \in Token
  BY HeapFields
<1>5. /\ x \in Token /\ x.registrations = s.token[k].registrations
      /\ x.signaled = TRUE /\ x.canceled = FALSE
  <2>1. s.token[k].canceled = FALSE
    BY HeapFields
  <2>2. QED
    BY <1>4, <2>1, TokenField
<1> HIDE DEF x, g
<1>6. Left(s, UnregisterAll(g, k), k, [signaled |-> x.signaled, canceled |-> x.canceled, registrations |-> {}])
  BY <1>3, <1>5, UnregisterFacts
<1>7. QED
  BY <1>2, <1>5, <1>6 DEF Awake

LEMMA TokenCancelFacts ==
  ASSUME NEW s \in Heap, Listed(s), NEW k \in Tokens
  PROVE  Canceled(s, TokenCancel(s, k), {k})
<1>1. CASE s.token[k].canceled
  <2>1. s.token[k].registrations = {}
    BY <1>1 DEF Listed, Live
  <2>2. QED
    BY <1>1, <2>1 DEF TokenCancel, Canceled, SameValues
<1>2. CASE ~s.token[k].canceled
  <2> DEFINE x == [s.token[k] EXCEPT !.canceled = TRUE]
             g == [s EXCEPT !.token[k].canceled = TRUE]
             r == UnregisterAll(g, k)
             y == [signaled |-> x.signaled, canceled |-> x.canceled, registrations |-> {}]
  <2>1. TokenCancel(s, k) = r
    BY <1>2 DEF TokenCancel
  <2>2. g.chan = s.chan /\ g.token = [s.token EXCEPT ![k] = x]
    BY HeapFields
  <2>3. s.token[k] \in Token
    BY HeapFields
  <2>4. x \in Token /\ x.registrations = s.token[k].registrations /\ x.canceled
    BY <2>3, TokenField
  <2>5. Between(s, s, k)
    BY BetweenSelf
  <2> HIDE DEF x, g
  <2>6. Left(s, UnregisterAll(g, k), k, y)
    BY <2>2, <2>4, <2>5, UnregisterFacts
  <2>7. y.canceled /\ y.registrations = {}
    BY <2>4
  <2> HIDE DEF r, y
  <2>8. r \in Heap /\ Listed(r) /\ SameValues(s, r) /\ r.token = [s.token EXCEPT ![k] = y]
    BY <2>6 DEF Left, r
  <2>9. ASSUME NEW m \in Tokens
        PROVE  IF m \in {k} THEN r.token[m].canceled /\ r.token[m].registrations = {} ELSE r.token[m] = s.token[m]
    <3>1. CASE m = k
      BY <2>8, <3>1, <2>7, HeapFields
    <3>2. CASE m # k
      BY <2>8, <3>2, HeapFields
    <3>3. QED
      BY <3>1, <3>2
  <2>10. QED
    BY <2>1, <2>8, <2>9 DEF Canceled
<1>3. QED
  BY <1>1, <1>2

LEMMA LeftWoken ==
  ASSUME NEW s \in Heap, NEW r, NEW k \in Tokens, Left(s, r, k, Awake), s.token[k].registrations # {}
  PROVE  Woken(s, r)
<1>1. ASSUME NEW m \in Tokens
      PROVE  \/ r.token[m] = s.token[m]
             \/ s.token[m].registrations # {} /\ r.token[m] = Awake
  BY HeapFields DEF Left
<1>2. QED
  BY <1>1 DEF Left, Woken, Awake

LEMMA TailRange ==
  ASSUME NEW S, NEW list \in Seq(S), list # <<>>, IsInjective(list)
  PROVE  /\ Tail(list) \in Seq(S) /\ IsInjective(Tail(list))
         /\ Head(list) \in Range(list) /\ Head(list) \in S
         /\ Range(Tail(list)) = Range(list) \ {Head(list)}
<1>1. /\ Tail(list) \in Seq(S) /\ Len(Tail(list)) = Len(list) - 1 /\ Head(list) = list[1]
      /\ \A i \in 1..Len(list) - 1 : Tail(list)[i] = list[i + 1]
  BY HeadTailProperties
<1>2. Len(list) \in Nat /\ Len(list) # 0 /\ DOMAIN list = 1..Len(list) /\ DOMAIN Tail(list) = 1..Len(list) - 1
  BY <1>1, LenProperties, EmptySeq
<1>3. IsInjective(Tail(list))
  <2> SUFFICES ASSUME NEW i \in 1..Len(list) - 1, NEW j \in 1..Len(list) - 1, Tail(list)[i] = Tail(list)[j]
               PROVE  i = j
    BY <1>2 DEF IsInjective
  <2>1. list[i + 1] = list[j + 1] /\ i + 1 \in DOMAIN list /\ j + 1 \in DOMAIN list
    BY <1>1, <1>2
  <2>2. i + 1 = j + 1
    BY <2>1 DEF IsInjective
  <2>3. QED
    BY <2>2
<1>4. Head(list) \in Range(list) /\ Head(list) \in S
  BY <1>1, <1>2, ElementOfSeq DEF Range
<1>5. ASSUME NEW v \in Range(Tail(list)) PROVE v \in Range(list) /\ v # Head(list)
  <2>1. PICK i \in 1..Len(list) - 1 : v = Tail(list)[i]
    BY <1>2 DEF Range
  <2>2. v = list[i + 1] /\ i + 1 \in DOMAIN list /\ 1 \in DOMAIN list /\ i + 1 # 1
    BY <2>1, <1>1, <1>2
  <2>3. QED
    BY <2>2, <1>1 DEF Range, IsInjective
<1>6. ASSUME NEW v \in Range(list), v # Head(list) PROVE v \in Range(Tail(list))
  <2>1. PICK i \in 1..Len(list) : v = list[i]
    BY <1>2 DEF Range
  <2>2. i # 1 /\ i - 1 \in 1..Len(list) - 1
    BY <2>1, <1>1, <1>2, <1>6
  <2>3. Tail(list)[i - 1] = list[(i - 1) + 1] /\ (i - 1) + 1 = i
    BY <2>2, <1>1
  <2>4. QED
    BY <2>1, <2>2, <2>3, <1>2 DEF Range
<1>7. QED
  BY <1>1, <1>3, <1>4, <1>5, <1>6

\* Every waiter in a list is alive, so the first one is signalled.
LEMMA AllLive ==
  ASSUME NEW s \in Heap, Listed(s), NEW c \in Chans
  PROVE  /\ LiveOnly(s, s.chan[c].recvWaiters) = s.chan[c].recvWaiters
         /\ LiveOnly(s, s.chan[c].sendWaiters) = s.chan[c].sendWaiters
<1>1. /\ s.chan[c].recvWaiters \in Seq(Tokens) /\ s.chan[c].sendWaiters \in Seq(Tokens)
      /\ Range(s.chan[c].recvWaiters) \subseteq LiveTokens(s) /\ Range(s.chan[c].sendWaiters) \subseteq LiveTokens(s)
  BY HeapFields, ListedFacts
<1>2. QED
  BY <1>1, KeepAll DEF LiveOnly

LEMMA SignalOneRecvFacts ==
  ASSUME NEW s \in Heap, Listed(s), NEW c \in Chans
  PROVE  Woken(s, SignalOneRecvWaiter(s, c))
<1> DEFINE list == s.chan[c].recvWaiters
           k == Head(list)
           rest == Tail(list)
           h == [s EXCEPT !.chan[c].recvWaiters = rest]
<1>1. LiveOnly(s, list) = list /\ list \in Seq(Tokens) /\ IsInjective(list) /\ Range(list) \subseteq LiveTokens(s)
  BY AllLive, HeapFields, ListedFacts
<1>2. CASE list = <<>>
  <2>1. [s EXCEPT !.chan[c].recvWaiters = <<>>] = s
    <3>1. s.chan[c] \in Channel /\ s.chan[c].recvWaiters = <<>> /\ s.chan \in [Chans -> Channel]
      BY <1>2, HeapFields
    <3>2. [s.chan[c] EXCEPT !.recvWaiters = <<>>] = s.chan[c]
      BY <3>1 DEF Channel
    <3>3. [s.chan EXCEPT ![c] = s.chan[c]] = s.chan
      BY <3>1
    <3>4. s \in [chan : [Chans -> Channel], token : [Tokens -> Token]]
      BY DEF Heap
    <3>5. [s EXCEPT !.chan[c].recvWaiters = <<>>] = [s EXCEPT !.chan = [s.chan EXCEPT ![c] = [s.chan[c] EXCEPT !.recvWaiters = <<>>]]]
      OBVIOUS
    <3>6. [s EXCEPT !.chan = s.chan] = s
      BY <3>4
    <3>7. QED
      BY <3>2, <3>3, <3>5, <3>6
  <2>2. SignalOneRecvWaiter(s, c) = s
    BY <1>1, <1>2, <2>1 DEF SignalOneRecvWaiter
  <2>3. QED
    BY <2>2 DEF Woken, SameValues
<1>3. CASE list # <<>>
  <2>1. SignalOneRecvWaiter(s, c) = TokenSignal(h, k)
    BY <1>1, <1>3 DEF SignalOneRecvWaiter
  <2>2. /\ rest \in Seq(Tokens) /\ IsInjective(rest) /\ k \in Range(list) /\ k \in Tokens
        /\ Range(rest) = Range(list) \ {k}
    BY <1>1, <1>3, TailRange
  <2> HIDE DEF k, rest
  <2>3. /\ h = [chan |-> h.chan, token |-> h.token] /\ h.chan = [d \in Chans |-> h.chan[d]] /\ h.token = s.token
        /\ \A d \in Chans : h.chan[d] = IF d = c THEN [s.chan[c] EXCEPT !.recvWaiters = rest] ELSE s.chan[d]
    <3>1. s.chan \in [Chans -> Channel] /\ s = [chan |-> s.chan, token |-> s.token]
      BY HeapFields
    <3>2. QED
      BY <3>1
  <2> HIDE DEF h
  <2>4. ASSUME NEW d \in Chans
        PROVE  /\ h.chan[d] = [s.chan[d] EXCEPT !.recvWaiters = h.chan[d].recvWaiters, !.sendWaiters = h.chan[d].sendWaiters]
               /\ h.chan[d].recvWaiters \in Seq(Tokens) /\ h.chan[d].sendWaiters \in Seq(Tokens)
               /\ h.chan[d].sendWaiters = s.chan[d].sendWaiters
               /\ h.chan[d].recvWaiters = IF d = c THEN rest ELSE s.chan[d].recvWaiters
    <3>1. s.chan[d] \in Channel /\ s.chan[d].recvWaiters \in Seq(Tokens) /\ s.chan[d].sendWaiters \in Seq(Tokens)
      BY HeapFields
    <3>2. CASE d = c
      BY <2>2, <2>3, <3>1, <3>2 DEF Channel
    <3>3. CASE d # c
      BY <2>3, <3>1, <3>3 DEF Channel
    <3>4. QED
      BY <3>2, <3>3
  <2>5. h.token = [m \in Tokens |-> h.token[m]] /\ \A m \in Tokens : h.token[m] \in Token
    BY <2>3, HeapFields
  <2>6. h \in Heap /\ SameValues(s, h)
    BY <2>3, <2>4, <2>5, RelistedHeap, Zenon
  <2>7. Between(s, h, k)
    <3>1. \A d \in Chans : IsInjective(s.chan[d].recvWaiters) /\ IsInjective(s.chan[d].sendWaiters)
      BY ListedFacts
    <3>2. QED
      BY <2>2, <2>3, <2>4, <2>6, <3>1, Zenon DEF Between
  <2>8. ~s.token[k].canceled /\ <<c, "recv">> \in s.token[k].registrations
    BY <1>1, <2>2 DEF Listed, LiveTokens, Live
  <2>9. Left(s, TokenSignal(h, k), k, Awake)
    BY <2>2, <2>7, <2>8, TokenSignalFacts
  <2>10. QED
    BY <2>1, <2>2, <2>8, <2>9, LeftWoken
<1>4. QED
  BY <1>2, <1>3

LEMMA SignalOneSendFacts ==
  ASSUME NEW s \in Heap, Listed(s), NEW c \in Chans
  PROVE  Woken(s, SignalOneSendWaiter(s, c))
<1> DEFINE list == s.chan[c].sendWaiters
           k == Head(list)
           rest == Tail(list)
           h == [s EXCEPT !.chan[c].sendWaiters = rest]
<1>1. LiveOnly(s, list) = list /\ list \in Seq(Tokens) /\ IsInjective(list) /\ Range(list) \subseteq LiveTokens(s)
  BY AllLive, HeapFields, ListedFacts
<1>2. CASE list = <<>>
  <2>1. [s EXCEPT !.chan[c].sendWaiters = <<>>] = s
    <3>1. s.chan[c] \in Channel /\ s.chan[c].sendWaiters = <<>> /\ s.chan \in [Chans -> Channel]
      BY <1>2, HeapFields
    <3>2. [s.chan[c] EXCEPT !.sendWaiters = <<>>] = s.chan[c]
      BY <3>1 DEF Channel
    <3>3. [s.chan EXCEPT ![c] = s.chan[c]] = s.chan
      BY <3>1
    <3>4. s \in [chan : [Chans -> Channel], token : [Tokens -> Token]]
      BY DEF Heap
    <3>5. [s EXCEPT !.chan[c].sendWaiters = <<>>] = [s EXCEPT !.chan = [s.chan EXCEPT ![c] = [s.chan[c] EXCEPT !.sendWaiters = <<>>]]]
      OBVIOUS
    <3>6. [s EXCEPT !.chan = s.chan] = s
      BY <3>4
    <3>7. QED
      BY <3>2, <3>3, <3>5, <3>6
  <2>2. SignalOneSendWaiter(s, c) = s
    BY <1>1, <1>2, <2>1 DEF SignalOneSendWaiter
  <2>3. QED
    BY <2>2 DEF Woken, SameValues
<1>3. CASE list # <<>>
  <2>1. SignalOneSendWaiter(s, c) = TokenSignal(h, k)
    BY <1>1, <1>3 DEF SignalOneSendWaiter
  <2>2. /\ rest \in Seq(Tokens) /\ IsInjective(rest) /\ k \in Range(list) /\ k \in Tokens
        /\ Range(rest) = Range(list) \ {k}
    BY <1>1, <1>3, TailRange
  <2> HIDE DEF k, rest
  <2>3. /\ h = [chan |-> h.chan, token |-> h.token] /\ h.chan = [d \in Chans |-> h.chan[d]] /\ h.token = s.token
        /\ \A d \in Chans : h.chan[d] = IF d = c THEN [s.chan[c] EXCEPT !.sendWaiters = rest] ELSE s.chan[d]
    <3>1. s.chan \in [Chans -> Channel] /\ s = [chan |-> s.chan, token |-> s.token]
      BY HeapFields
    <3>2. QED
      BY <3>1
  <2> HIDE DEF h
  <2>4. ASSUME NEW d \in Chans
        PROVE  /\ h.chan[d] = [s.chan[d] EXCEPT !.recvWaiters = h.chan[d].recvWaiters, !.sendWaiters = h.chan[d].sendWaiters]
               /\ h.chan[d].sendWaiters \in Seq(Tokens) /\ h.chan[d].recvWaiters \in Seq(Tokens)
               /\ h.chan[d].recvWaiters = s.chan[d].recvWaiters
               /\ h.chan[d].sendWaiters = IF d = c THEN rest ELSE s.chan[d].sendWaiters
    <3>1. s.chan[d] \in Channel /\ s.chan[d].sendWaiters \in Seq(Tokens) /\ s.chan[d].recvWaiters \in Seq(Tokens)
      BY HeapFields
    <3>2. CASE d = c
      BY <2>2, <2>3, <3>1, <3>2 DEF Channel
    <3>3. CASE d # c
      BY <2>3, <3>1, <3>3 DEF Channel
    <3>4. QED
      BY <3>2, <3>3
  <2>5. h.token = [m \in Tokens |-> h.token[m]] /\ \A m \in Tokens : h.token[m] \in Token
    BY <2>3, HeapFields
  <2>6. h \in Heap /\ SameValues(s, h)
    BY <2>3, <2>4, <2>5, RelistedHeap, Zenon
  <2>7. Between(s, h, k)
    <3>1. \A d \in Chans : IsInjective(s.chan[d].sendWaiters) /\ IsInjective(s.chan[d].recvWaiters)
      BY ListedFacts
    <3>2. QED
      BY <2>2, <2>3, <2>4, <2>6, <3>1, Zenon DEF Between
  <2>8. ~s.token[k].canceled /\ <<c, "send">> \in s.token[k].registrations
    BY <1>1, <2>2 DEF Listed, LiveTokens, Live
  <2>9. Left(s, TokenSignal(h, k), k, Awake)
    BY <2>2, <2>7, <2>8, TokenSignalFacts
  <2>10. QED
    BY <2>1, <2>2, <2>8, <2>9, LeftWoken
<1>4. QED
  BY <1>2, <1>3

LEMMA ConcatRange ==
  ASSUME NEW S, NEW a \in Seq(S), NEW b \in Seq(S)
  PROVE  /\ a \o b \in Seq(S) /\ Range(a \o b) = Range(a) \cup Range(b)
         /\ IsInjective(a) /\ IsInjective(b) /\ Range(a) \cap Range(b) = {} => IsInjective(a \o b)
<1> DEFINE ab == a \o b
           la == Len(a)
           lb == Len(b)
<1>1. /\ ab \in Seq(S) /\ DOMAIN ab = 1..la + lb /\ la \in Nat /\ lb \in Nat
      /\ DOMAIN a = 1..la /\ DOMAIN b = 1..lb
      /\ \A i \in 1..la + lb : ab[i] = IF i <= la THEN a[i] ELSE b[i - la]
  BY ConcatProperties, LenProperties
<1> HIDE DEF ab, la, lb
<1>2. \A i \in 1..la : i \in 1..la + lb /\ ab[i] = a[i]
  BY <1>1
<1>3. \A i \in 1..lb : la + i \in 1..la + lb /\ ab[la + i] = b[i]
  <2> SUFFICES ASSUME NEW i \in 1..lb PROVE la + i \in 1..la + lb /\ ab[la + i] = b[i]
    OBVIOUS
  <2>1. la + i \in 1..la + lb /\ ~(la + i <= la) /\ (la + i) - la = i
    BY <1>1
  <2>2. QED
    BY <1>1, <2>1
<1>4. \A i \in 1..la + lb : i \in 1..la \/ (i - la \in 1..lb /\ ab[i] = b[i - la] /\ ~(i <= la))
  BY <1>1
<1>5. Range(ab) = Range(a) \cup Range(b)
  <2>1. ASSUME NEW v \in Range(ab) PROVE v \in Range(a) \cup Range(b)
    <3>1. PICK i \in 1..la + lb : v = ab[i]
      BY <1>1 DEF Range
    <3>2. CASE i \in 1..la
      BY <3>1, <3>2, <1>1, <1>2 DEF Range
    <3>3. CASE i - la \in 1..lb /\ ab[i] = b[i - la]
      BY <3>1, <3>3, <1>1 DEF Range
    <3>4. QED
      BY <3>2, <3>3, <1>4
  <2>2. ASSUME NEW v \in Range(a) PROVE v \in Range(ab)
    <3>1. PICK i \in 1..la : v = a[i]
      BY <1>1 DEF Range
    <3>2. QED
      BY <3>1, <1>1, <1>2 DEF Range
  <2>3. ASSUME NEW v \in Range(b) PROVE v \in Range(ab)
    <3>1. PICK i \in 1..lb : v = b[i]
      BY <1>1 DEF Range
    <3>2. QED
      BY <3>1, <1>1, <1>3 DEF Range
  <2>4. QED
    BY <2>1, <2>2, <2>3
<1>6. ASSUME IsInjective(a), IsInjective(b), Range(a) \cap Range(b) = {} PROVE IsInjective(ab)
  <2>1. ASSUME NEW i \in 1..la, NEW j \in 1..lb PROVE a[i] # b[j]
    <3>1. a[i] \in Range(a) /\ b[j] \in Range(b)
      BY <1>1 DEF Range
    <3>2. QED
      BY <3>1, <1>6
  <2> SUFFICES ASSUME NEW i \in 1..la + lb, NEW j \in 1..la + lb, ab[i] = ab[j] PROVE i = j
    BY <1>1 DEF IsInjective
  <2>2. CASE i \in 1..la /\ j \in 1..la
    BY <2>2, <1>1, <1>2, <1>6 DEF IsInjective
  <2>3. CASE i \in 1..la /\ ~(j \in 1..la)
    BY <2>1, <2>3, <1>2, <1>4
  <2>4. CASE ~(i \in 1..la) /\ j \in 1..la
    BY <2>1, <2>4, <1>2, <1>4
  <2>5. CASE ~(i \in 1..la) /\ ~(j \in 1..la)
    <3>1. i - la \in 1..lb /\ j - la \in 1..lb /\ b[i - la] = b[j - la]
      BY <2>5, <1>4
    <3>2. i - la = j - la
      BY <3>1, <1>1, <1>6 DEF IsInjective
    <3>3. QED
      BY <3>2, <1>1
  <2>6. QED
    BY <2>2, <2>3, <2>4, <2>5
<1>7. QED
  BY <1>1, <1>5, <1>6 DEF ab

LEMMA AppendRange ==
  ASSUME NEW S, NEW a \in Seq(S), NEW k \in S
  PROVE  /\ Append(a, k) \in Seq(S) /\ Range(Append(a, k)) = Range(a) \cup {k}
         /\ IsInjective(a) /\ k \notin Range(a) => IsInjective(Append(a, k))
<1>1. Append(a, k) = a \o <<k>>
  OBVIOUS
<1>2. <<k>> \in Seq(S) /\ Range(<<k>>) = {k} /\ IsInjective(<<k>>)
  BY DEF Range, IsInjective
<1> DEFINE b == <<k>>
<1> HIDE DEF b
<1>3. b \in Seq(S) /\ Range(b) = {k} /\ IsInjective(b) /\ Append(a, k) = a \o b
  BY <1>1, <1>2 DEF b
<1>4. /\ a \o b \in Seq(S) /\ Range(a \o b) = Range(a) \cup Range(b)
      /\ IsInjective(a) /\ IsInjective(b) /\ Range(a) \cap Range(b) = {} => IsInjective(a \o b)
  BY <1>3, ConcatRange
<1>5. QED
  BY <1>3, <1>4

\* Nothing is registered anew with a closed channel.
NoneNewOnClosed(s, r) ==
    \A k \in Tokens : \A x \in r.token[k].registrations : x \in s.token[k].registrations \/ ~s.chan[x[1]].closed

LEMMA StillUnlisted ==
  ASSUME NEW s \in Heap, Listed(s), ClosedUnlisted(s), NEW r \in Heap, Listed(r), NoneNewOnClosed(s, r),
         \A c \in Chans : r.chan[c].closed => s.chan[c].closed
  PROVE  ClosedUnlisted(r)
<1> SUFFICES ASSUME NEW c \in Chans, r.chan[c].closed
             PROVE  r.chan[c].recvWaiters = <<>> /\ r.chan[c].sendWaiters = <<>>
  BY DEF ClosedUnlisted
<1>1. s.chan[c].closed /\ s.chan[c].recvWaiters = <<>> /\ s.chan[c].sendWaiters = <<>>
  BY DEF ClosedUnlisted
<1>2. Range(s.chan[c].recvWaiters) = {} /\ Range(s.chan[c].sendWaiters) = {}
  BY <1>1 DEF Range
<1>3. \A k \in Tokens : <<c, "recv">> \notin r.token[k].registrations /\ <<c, "send">> \notin r.token[k].registrations
  <2> SUFFICES ASSUME NEW k \in Tokens, NEW dir, <<c, dir>> \in r.token[k].registrations, dir = "recv" \/ dir = "send"
               PROVE  FALSE
    OBVIOUS
  <2>1. <<c, dir>> \in s.token[k].registrations
    BY <1>1 DEF NoneNewOnClosed
  <2>2. QED
    BY <2>1, <1>2 DEF Listed
<1>4. /\ r.chan[c].recvWaiters \in Seq(Tokens) /\ r.chan[c].sendWaiters \in Seq(Tokens)
      /\ Range(r.chan[c].recvWaiters) \subseteq Tokens /\ Range(r.chan[c].sendWaiters) \subseteq Tokens
  BY HeapFields, ListedFacts DEF LiveTokens
<1>5. Range(r.chan[c].recvWaiters) = {} /\ Range(r.chan[c].sendWaiters) = {}
  BY <1>3, <1>4 DEF Listed
<1>6. ASSUME NEW list \in Seq(Tokens), Range(list) = {} PROVE list = <<>>
  <2>1. Len(list) \in Nat /\ DOMAIN list = 1..Len(list)
    BY LenProperties
  <2>2. \A i \in 1..Len(list) : list[i] \in Range(list)
    BY <2>1 DEF Range
  <2>3. ~(1 \in 1..Len(list))
    BY <2>2, <1>6
  <2>4. Len(list) = 0
    BY <2>1, <2>3
  <2>5. QED
    BY <2>4, EmptySeq
<1>7. QED
  BY <1>4, <1>5, <1>6

LEMMA WokenUnlisted ==
  ASSUME NEW s \in Heap, Listed(s), ClosedUnlisted(s), NEW r, Woken(s, r)
  PROVE  ClosedUnlisted(r)
<1>1. NoneNewOnClosed(s, r)
  <2> SUFFICES ASSUME NEW k \in Tokens, NEW x \in r.token[k].registrations PROVE x \in s.token[k].registrations
    BY DEF NoneNewOnClosed
  <2>1. CASE r.token[k] = s.token[k]
    BY <2>1
  <2>2. CASE r.token[k] = [signaled |-> TRUE, canceled |-> FALSE, registrations |-> {}]
    BY <2>2
  <2>3. QED
    BY <2>1, <2>2 DEF Woken
<1>2. QED
  BY <1>1, StillUnlisted DEF Woken, SameValues

LEMMA CanceledUnlisted ==
  ASSUME NEW s \in Heap, Listed(s), ClosedUnlisted(s), NEW K, NEW r, Canceled(s, r, K)
  PROVE  ClosedUnlisted(r)
<1>1. NoneNewOnClosed(s, r)
  BY DEF NoneNewOnClosed, Canceled
<1>2. QED
  BY <1>1, StillUnlisted DEF Canceled, SameValues

LEMMA SignalAllFacts ==
  ASSUME NEW s \in Heap, Listed(s), NEW c \in Chans
  PROVE  /\ Woken(s, SignalAllWaiters(s, c))
         /\ SignalAllWaiters(s, c).chan[c].recvWaiters = <<>> /\ SignalAllWaiters(s, c).chan[c].sendWaiters = <<>>
<1> DEFINE r == SignalAllWaiters(s, c)
           woken == {k \in Tokens : /\ ~s.token[k].canceled
                                    /\ \/ \E i \in DOMAIN s.chan[c].recvWaiters : s.chan[c].recvWaiters[i] = k
                                       \/ \E i \in DOMAIN s.chan[c].sendWaiters : s.chan[c].sendWaiters[i] = k}
           left(d, dir, waiters) ==
               IF d = c THEN <<>>
               ELSE IF \E k \in woken : <<d, dir>> \in s.token[k].registrations
                    THEN Keep(waiters, LiveTokens(s) \ woken)
                    ELSE waiters
<1>1. /\ r = [chan |-> r.chan, token |-> r.token] /\ r.chan = [d \in Chans |-> r.chan[d]]
      /\ r.token = [k \in Tokens |-> r.token[k]]
      /\ \A d \in Chans : r.chan[d] = [s.chan[d] EXCEPT !.recvWaiters = left(d, "recv", @), !.sendWaiters = left(d, "send", @)]
      /\ \A k \in Tokens : r.token[k] = IF k \in woken THEN [s.token[k] EXCEPT !.signaled = TRUE, !.registrations = {}]
                                                       ELSE s.token[k]
  BY DEF SignalAllWaiters
<1>2. woken = Range(s.chan[c].recvWaiters) \cup Range(s.chan[c].sendWaiters) /\ woken \in SUBSET Tokens
  <2>1. Range(s.chan[c].recvWaiters) \subseteq LiveTokens(s) /\ Range(s.chan[c].sendWaiters) \subseteq LiveTokens(s)
    BY ListedFacts
  <2>2. QED
    BY <2>1 DEF LiveTokens, Live, Range
<1>3. \A d \in Chans : s.chan[d] \in Channel
  BY HeapFields
<1>4. \A d \in Chans :
        /\ r.chan[d].recvWaiters = left(d, "recv", s.chan[d].recvWaiters)
        /\ r.chan[d].sendWaiters = left(d, "send", s.chan[d].sendWaiters)
        /\ r.chan[d] = [s.chan[d] EXCEPT !.recvWaiters = r.chan[d].recvWaiters, !.sendWaiters = r.chan[d].sendWaiters]
  <2> HIDE DEF r, woken, left
  <2> SUFFICES ASSUME NEW d \in Chans
               PROVE  /\ r.chan[d].recvWaiters = left(d, "recv", s.chan[d].recvWaiters)
                      /\ r.chan[d].sendWaiters = left(d, "send", s.chan[d].sendWaiters)
                      /\ r.chan[d] = [s.chan[d] EXCEPT !.recvWaiters = r.chan[d].recvWaiters,
                                                      !.sendWaiters = r.chan[d].sendWaiters]
    OBVIOUS
  <2> PICK x : x = left(d, "recv", s.chan[d].recvWaiters)
    OBVIOUS
  <2> PICK y : y = left(d, "send", s.chan[d].sendWaiters)
    OBVIOUS
  <2> PICK k : k = s.chan[d]
    OBVIOUS
  <2> PICK m : m = r.chan[d]
    OBVIOUS
  <2>1. m = [k EXCEPT !.recvWaiters = x, !.sendWaiters = y]
    BY <1>1, Zenon
  <2>2. k \in Channel
    BY <1>3
  <2>3. m.recvWaiters = x /\ m.sendWaiters = y
    BY ONLY <2>1, <2>2 DEF Channel
  <2>4. QED
    BY ONLY <2>1, <2>3, x = left(d, "recv", s.chan[d].recvWaiters), y = left(d, "send", s.chan[d].sendWaiters),
            k = s.chan[d], m = r.chan[d]
<1> HIDE DEF r, woken
<1>5. /\ s.chan[c].recvWaiters \in Seq(Tokens) /\ s.chan[c].sendWaiters \in Seq(Tokens)
  BY HeapFields
<1>6. Filtered(s, r, woken)
  <2> DEFINE kept == LiveTokens(s) \ woken
  <2>1. /\ r.chan[c].recvWaiters = <<>> /\ r.chan[c].sendWaiters = <<>>
    BY <1>4, Zenon
  <2>2. Range(s.chan[c].recvWaiters) \cap kept = {} /\ Range(s.chan[c].sendWaiters) \cap kept = {}
    BY <1>2
  <2>3. Keep(s.chan[c].recvWaiters, kept) = <<>> /\ Keep(s.chan[c].sendWaiters, kept) = <<>>
    BY <1>5, <2>2, KeepNothing
  <2>4. ASSUME ~\E k \in woken : <<c, "recv">> \in s.token[k].registrations PROVE s.chan[c].recvWaiters = <<>>
    <3>1. Range(s.chan[c].recvWaiters) \subseteq kept
      BY <2>4, <1>2 DEF Listed
    <3>2. Keep(s.chan[c].recvWaiters, kept) = s.chan[c].recvWaiters
      BY <1>5, <3>1, KeepAll
    <3>3. QED
      BY <3>2, <2>3
  <2>5. ASSUME ~\E k \in woken : <<c, "send">> \in s.token[k].registrations PROVE s.chan[c].sendWaiters = <<>>
    <3>1. Range(s.chan[c].sendWaiters) \subseteq kept
      BY <2>5, <1>2 DEF Listed
    <3>2. Keep(s.chan[c].sendWaiters, kept) = s.chan[c].sendWaiters
      BY <1>5, <3>1, KeepAll
    <3>3. QED
      BY <3>2, <2>3
  <2> SUFFICES ASSUME NEW d \in Chans
               PROVE  /\ r.chan[d].recvWaiters = IF \E k \in woken : <<d, "recv">> \in s.token[k].registrations
                                                 THEN Keep(s.chan[d].recvWaiters, kept) ELSE s.chan[d].recvWaiters
                      /\ r.chan[d].sendWaiters = IF \E k \in woken : <<d, "send">> \in s.token[k].registrations
                                                 THEN Keep(s.chan[d].sendWaiters, kept) ELSE s.chan[d].sendWaiters
    BY DEF Filtered
  <2> HIDE DEF kept
  <2>6. CASE d = c
    BY <2>1, <2>3, <2>4, <2>5, <2>6
  <2>7. CASE d # c
    BY <1>4, <2>7, Zenon DEF kept
  <2>8. QED
    BY <2>6, <2>7
<1>7. \A k \in Tokens : r.token[k] = IF k \in woken THEN Awake ELSE s.token[k]
  <2> SUFFICES ASSUME NEW k \in Tokens PROVE r.token[k] = IF k \in woken THEN Awake ELSE s.token[k]
    OBVIOUS
  <2>1. CASE k \in woken
    <3>1. r.token[k] = [s.token[k] EXCEPT !.signaled = TRUE, !.registrations = {}]
      BY <1>1, <2>1, Zenon
    <3>2. s.token[k] \in Token /\ s.token[k].canceled = FALSE
      <4>1. k \in LiveTokens(s)
        BY <1>2, <2>1, ListedFacts
      <4>2. QED
        BY <4>1, HeapFields DEF LiveTokens, Live
    <3>3. r.token[k] = [signaled |-> TRUE, canceled |-> s.token[k].canceled, registrations |-> {}]
      BY <3>1, <3>2, TokenSet, Zenon
    <3>4. QED
      BY <2>1, <3>2, <3>3 DEF Awake
  <2>2. CASE k \notin woken
    BY <1>1, <2>2, Zenon
  <2>3. QED
    BY <2>1, <2>2
<1>8. Awake \in Token /\ Awake.registrations = {}
  BY TokenMade DEF Awake
<1>9. \A k \in Tokens : IF k \in woken THEN r.token[k].registrations = {} ELSE r.token[k] = s.token[k]
  <2> SUFFICES ASSUME NEW k \in Tokens PROVE IF k \in woken THEN r.token[k].registrations = {} ELSE r.token[k] = s.token[k]
    OBVIOUS
  <2>1. QED
    BY <1>7, <1>8
<1>10. Unlisted(s, r, woken) /\ \A d \in Chans : r.chan[d].recvWaiters \in Seq(Tokens) /\ r.chan[d].sendWaiters \in Seq(Tokens)
  BY <1>2, <1>6, <1>9, FilteredUnlisted
<1>11. \A k \in Tokens : r.token[k] \in Token
  BY <1>7, <1>8, HeapFields
<1>12. r \in Heap /\ SameValues(s, r)
  BY <1>1, <1>4, <1>10, <1>11, RelistedHeap, Zenon
<1>13. Listed(r)
  BY <1>10, <1>12, UnlistedListed
<1>14. \A k \in woken : s.token[k].registrations # {}
  BY <1>2 DEF Listed
<1>15. Woken(s, r)
  BY <1>7, <1>12, <1>13, <1>14 DEF Woken, Awake
<1>16. QED
  BY <1>4, <1>15, Zenon DEF r

\* Token k, unused until now, waits with channel c for its direction, or is signalled.
Waits(s, r, k, c, dir) ==
    /\ r \in Heap /\ Listed(r) /\ SameValues(s, r)
    /\ \A m \in Tokens : m # k => r.token[m] = s.token[m]
    /\ ~r.token[k].canceled
    /\ \A x \in r.token[k].registrations : ~s.chan[x[1]].closed
    /\ c = Nil \/ r.token[k].signaled \/ <<c, dir>> \in r.token[k].registrations

LEMMA NewTokenUnlisted ==
  ASSUME NEW s \in Heap, Listed(s), NEW k \in Tokens, s.token[k] = NewToken
  PROVE  /\ s.token[k].signaled = FALSE /\ s.token[k].canceled = FALSE /\ s.token[k].registrations = {}
         /\ \A c \in Chans : k \notin Range(s.chan[c].recvWaiters) /\ k \notin Range(s.chan[c].sendWaiters)
<1>1. s.token[k].signaled = FALSE /\ s.token[k].canceled = FALSE /\ s.token[k].registrations = {}
  BY DEF NewToken
<1>2. QED
  BY <1>1 DEF Listed

LEMMA WaitsAwake ==
  ASSUME NEW s \in Heap, Listed(s), NEW k \in Tokens, s.token[k] = NewToken, NEW c, NEW dir
  PROVE  Waits(s, TokenSignal(s, k), k, c, dir)
<1>1. Left(s, TokenSignal(s, k), k, Awake)
  BY NewTokenUnlisted, BetweenSelf, TokenSignalFacts
<1> DEFINE r == TokenSignal(s, k)
<1> HIDE DEF r
<1>2. r \in Heap /\ Listed(r) /\ SameValues(s, r) /\ r.token = [s.token EXCEPT ![k] = Awake]
  BY <1>1 DEF Left, r
<1>3. r.token[k] = Awake /\ \A m \in Tokens : m # k => r.token[m] = s.token[m]
  BY <1>2, HeapFields
<1>4. QED
  BY <1>2, <1>3 DEF Waits, Awake, r

\* Tokens enter the lists of what they are registered with.
Added(s, r, A) ==
    /\ \A c \in Chans :
         /\ Range(r.chan[c].recvWaiters) = Range(s.chan[c].recvWaiters) \cup {k \in Tokens : <<c, "recv">> \in A[k]}
         /\ Range(r.chan[c].sendWaiters) = Range(s.chan[c].sendWaiters) \cup {k \in Tokens : <<c, "send">> \in A[k]}
         /\ IsInjective(r.chan[c].recvWaiters) /\ IsInjective(r.chan[c].sendWaiters)
    /\ \A k \in Tokens : /\ r.token[k].registrations = s.token[k].registrations \cup A[k]
                         /\ r.token[k].registrations # {} => Live(r, k)

LEMMA AddedListed ==
  ASSUME NEW s \in Heap, Listed(s), NEW r \in Heap, NEW A, Added(s, r, A)
  PROVE  Listed(r)
<1>1. ASSUME NEW c \in Chans, NEW k \in Tokens
      PROVE  /\ k \in Range(r.chan[c].recvWaiters) <=> <<c, "recv">> \in r.token[k].registrations
             /\ k \in Range(r.chan[c].sendWaiters) <=> <<c, "send">> \in r.token[k].registrations
  <2>1. /\ k \in Range(s.chan[c].recvWaiters) <=> <<c, "recv">> \in s.token[k].registrations
        /\ k \in Range(s.chan[c].sendWaiters) <=> <<c, "send">> \in s.token[k].registrations
    BY DEF Listed
  <2>2. /\ Range(r.chan[c].recvWaiters) = Range(s.chan[c].recvWaiters) \cup {m \in Tokens : <<c, "recv">> \in A[m]}
        /\ Range(r.chan[c].sendWaiters) = Range(s.chan[c].sendWaiters) \cup {m \in Tokens : <<c, "send">> \in A[m]}
        /\ r.token[k].registrations = s.token[k].registrations \cup A[k]
    BY DEF Added
  <2>3. QED
    BY <2>1, <2>2
<1>2. QED
  BY <1>1 DEF Added, Listed

LEMMA WaitRecvFacts ==
  ASSUME NEW s \in Heap, Listed(s), NEW k \in Tokens, s.token[k] = NewToken, NEW c \in Chans \cup {Nil}
  PROVE  Waits(s, WaitRecv(s, c, k), k, c, "recv")
<1>1. CASE c = Nil
  <2>1. WaitRecv(s, c, k) = s
    BY <1>1 DEF WaitRecv, RecvReady
  <2>2. QED
    BY <1>1, <2>1, NewTokenUnlisted DEF Waits, SameValues
<1>2. CASE c # Nil /\ RecvReady(s, c)
  <2>1. WaitRecv(s, c, k) = TokenSignal(s, k)
    BY <1>2 DEF WaitRecv
  <2>2. QED
    BY <2>1, WaitsAwake
<1>3. CASE c # Nil /\ ~RecvReady(s, c)
  <2> DEFINE r == WaitRecv(s, c, k)
             x == [signaled |-> FALSE, canceled |-> FALSE, registrations |-> {<<c, "recv">>}]
             A == [m \in Tokens |-> IF m = k THEN {<<c, "recv">>} ELSE {}]
  <2>1. c \in Chans /\ ~s.chan[c].closed
    BY <1>3 DEF RecvReady
  <2>2. r = [s EXCEPT !.chan[c].recvWaiters = Append(@, k), !.token[k].registrations = {<<c, "recv">>}]
    <3>1. (IF Live(s, k) THEN s.token[k].registrations \cup {<<c, "recv">>} ELSE s.token[k].registrations) = {<<c, "recv">>}
      BY NewTokenUnlisted DEF Live
    <3>2. r = [s EXCEPT !.chan[c].recvWaiters = Append(@, k),
                        !.token[k].registrations = IF Live(s, k) THEN @ \cup {<<c, "recv">>} ELSE @]
      BY <1>3 DEF WaitRecv
    <3>3. QED
      BY <3>1, <3>2
  <2>3. /\ r = [chan |-> r.chan, token |-> r.token] /\ r.chan = [d \in Chans |-> r.chan[d]]
        /\ r.token = [m \in Tokens |-> r.token[m]]
        /\ \A m \in Tokens : r.token[m] = IF m = k THEN [s.token[k] EXCEPT !.registrations = {<<c, "recv">>}] ELSE s.token[m]
        /\ \A d \in Chans : r.chan[d] = IF d = c THEN [s.chan[c] EXCEPT !.recvWaiters = Append(@, k)] ELSE s.chan[d]
    <3>1. s.chan \in [Chans -> Channel] /\ s.token \in [Tokens -> Token] /\ s = [chan |-> s.chan, token |-> s.token]
      BY HeapFields
    <3> HIDE DEF r
    <3>2. QED
      BY <2>1, <2>2, <3>1
  <2> HIDE DEF r
  <2>4. [s.token[k] EXCEPT !.registrations = {<<c, "recv">>}] = x
    <3>1. {<<c, "recv">>} \in SUBSET Registration /\ s.token[k] \in Token
      BY <2>1, HeapFields DEF Registration, Directions
    <3>2. s.token[k].signaled = FALSE /\ s.token[k].canceled = FALSE
      BY NewTokenUnlisted
    <3>3. QED
      BY <3>1, <3>2, TokenRegister
  <2>5. x \in Token
    <3>1. {<<c, "recv">>} \in SUBSET Registration
      BY <2>1 DEF Registration, Directions
    <3>2. QED
      BY <3>1 DEF Token
  <2>6. \A m \in Tokens : r.token[m] \in Token
    BY <2>3, <2>4, <2>5, HeapFields
  <2>7. ASSUME NEW d \in Chans
        PROVE  /\ r.chan[d] = [s.chan[d] EXCEPT !.recvWaiters = r.chan[d].recvWaiters, !.sendWaiters = r.chan[d].sendWaiters]
               /\ r.chan[d].recvWaiters \in Seq(Tokens) /\ r.chan[d].sendWaiters \in Seq(Tokens)
               /\ r.chan[d].sendWaiters = s.chan[d].sendWaiters /\ IsInjective(r.chan[d].sendWaiters)
               /\ IsInjective(r.chan[d].recvWaiters)
               /\ Range(r.chan[d].recvWaiters) = Range(s.chan[d].recvWaiters) \cup (IF d = c THEN {k} ELSE {})
    <3>1. s.chan[d] \in Channel /\ s.chan[d].recvWaiters \in Seq(Tokens) /\ s.chan[d].sendWaiters \in Seq(Tokens)
      BY HeapFields
    <3>2. k \notin Range(s.chan[d].recvWaiters)
      BY NewTokenUnlisted
    <3>3. IsInjective(s.chan[d].recvWaiters) /\ IsInjective(s.chan[d].sendWaiters)
      BY ListedFacts
    <3>4. CASE d = c
      <4> DEFINE new == Append(s.chan[d].recvWaiters, k)
      <4>1. new \in Seq(Tokens) /\ Range(new) = Range(s.chan[d].recvWaiters) \cup {k} /\ IsInjective(new)
        BY <3>1, <3>2, <3>3, AppendRange
      <4>2. r.chan[d] = [s.chan[d] EXCEPT !.recvWaiters = new]
        BY <2>3, <3>4
      <4> HIDE DEF new
      <4>3. r.chan[d].recvWaiters = new /\ r.chan[d].sendWaiters = s.chan[d].sendWaiters
        BY <4>2, <3>1 DEF Channel
      <4>4. r.chan[d] = [s.chan[d] EXCEPT !.recvWaiters = r.chan[d].recvWaiters, !.sendWaiters = r.chan[d].sendWaiters]
        BY <4>2, <4>3, <3>1 DEF Channel
      <4>5. QED
        BY <3>1, <3>3, <3>4, <4>1, <4>3, <4>4
    <3>5. CASE d # c
      <4>1. r.chan[d] = s.chan[d]
        BY <2>3, <3>5
      <4>2. r.chan[d] = [s.chan[d] EXCEPT !.recvWaiters = r.chan[d].recvWaiters, !.sendWaiters = r.chan[d].sendWaiters]
        BY <4>1, <3>1 DEF Channel
      <4>3. QED
        BY <3>1, <3>3, <3>5, <4>1, <4>2
    <3>6. QED
      BY <3>4, <3>5
  <2>8. r \in Heap /\ SameValues(s, r)
    BY <2>3, <2>6, <2>7, RelistedHeap, Zenon
  <2>9. r.token[k].signaled = FALSE /\ r.token[k].canceled = FALSE /\ r.token[k].registrations = {<<c, "recv">>}
    BY <2>3, <2>4
  <2>10. ASSUME NEW m \in Tokens
         PROVE  /\ r.token[m].registrations = s.token[m].registrations \cup A[m]
                /\ r.token[m].registrations # {} => Live(r, m)
    <3>1. CASE m = k
      BY <3>1, <2>9, NewTokenUnlisted DEF Live
    <3>2. CASE m # k
      BY <3>2, <2>3 DEF Listed, Live
    <3>3. QED
      BY <3>1, <3>2
  <2>11. \A d \in Chans : /\ {m \in Tokens : <<d, "recv">> \in A[m]} = (IF d = c THEN {k} ELSE {})
                          /\ {m \in Tokens : <<d, "send">> \in A[m]} = {}
    OBVIOUS
  <2> HIDE DEF A
  <2>12. Added(s, r, A)
    BY <2>7, <2>10, <2>11, Zenon DEF Added
  <2>13. Listed(r)
    BY <2>8, <2>12, AddedListed
  <2>14. QED
    BY <2>1, <2>3, <2>8, <2>9, <2>13 DEF Waits, r
<1>4. QED
  BY <1>1, <1>2, <1>3

LEMMA WaitSendFacts ==
  ASSUME NEW s \in Heap, Listed(s), NEW k \in Tokens, s.token[k] = NewToken, NEW c \in Chans \cup {Nil}
  PROVE  Waits(s, WaitSend(s, c, k), k, c, "send")
<1>1. CASE c = Nil
  <2>1. WaitSend(s, c, k) = s
    BY <1>1 DEF WaitSend, SendReady
  <2>2. QED
    BY <1>1, <2>1, NewTokenUnlisted DEF Waits, SameValues
<1>2. CASE c # Nil /\ SendReady(s, c)
  <2>1. WaitSend(s, c, k) = TokenSignal(s, k)
    BY <1>2 DEF WaitSend
  <2>2. QED
    BY <2>1, WaitsAwake
<1>3. CASE c # Nil /\ ~SendReady(s, c)
  <2> DEFINE r == WaitSend(s, c, k)
             x == [signaled |-> FALSE, canceled |-> FALSE, registrations |-> {<<c, "send">>}]
             A == [m \in Tokens |-> IF m = k THEN {<<c, "send">>} ELSE {}]
  <2>1. c \in Chans /\ ~s.chan[c].closed
    BY <1>3 DEF SendReady
  <2>2. r = [s EXCEPT !.chan[c].sendWaiters = Append(@, k), !.token[k].registrations = {<<c, "send">>}]
    <3>1. (IF Live(s, k) THEN s.token[k].registrations \cup {<<c, "send">>} ELSE s.token[k].registrations) = {<<c, "send">>}
      BY NewTokenUnlisted DEF Live
    <3>2. r = [s EXCEPT !.chan[c].sendWaiters = Append(@, k),
                        !.token[k].registrations = IF Live(s, k) THEN @ \cup {<<c, "send">>} ELSE @]
      BY <1>3 DEF WaitSend
    <3>3. QED
      BY <3>1, <3>2
  <2>3. /\ r = [chan |-> r.chan, token |-> r.token] /\ r.chan = [d \in Chans |-> r.chan[d]]
        /\ r.token = [m \in Tokens |-> r.token[m]]
        /\ \A m \in Tokens : r.token[m] = IF m = k THEN [s.token[k] EXCEPT !.registrations = {<<c, "send">>}] ELSE s.token[m]
        /\ \A d \in Chans : r.chan[d] = IF d = c THEN [s.chan[c] EXCEPT !.sendWaiters = Append(@, k)] ELSE s.chan[d]
    <3>1. s.chan \in [Chans -> Channel] /\ s.token \in [Tokens -> Token] /\ s = [chan |-> s.chan, token |-> s.token]
      BY HeapFields
    <3> HIDE DEF r
    <3>2. QED
      BY <2>1, <2>2, <3>1
  <2> HIDE DEF r
  <2>4. [s.token[k] EXCEPT !.registrations = {<<c, "send">>}] = x
    <3>1. {<<c, "send">>} \in SUBSET Registration /\ s.token[k] \in Token
      BY <2>1, HeapFields DEF Registration, Directions
    <3>2. s.token[k].signaled = FALSE /\ s.token[k].canceled = FALSE
      BY NewTokenUnlisted
    <3>3. QED
      BY <3>1, <3>2, TokenRegister
  <2>5. x \in Token
    <3>1. {<<c, "send">>} \in SUBSET Registration
      BY <2>1 DEF Registration, Directions
    <3>2. QED
      BY <3>1 DEF Token
  <2>6. \A m \in Tokens : r.token[m] \in Token
    BY <2>3, <2>4, <2>5, HeapFields
  <2>7. ASSUME NEW d \in Chans
        PROVE  /\ r.chan[d] = [s.chan[d] EXCEPT !.recvWaiters = r.chan[d].recvWaiters, !.sendWaiters = r.chan[d].sendWaiters]
               /\ r.chan[d].sendWaiters \in Seq(Tokens) /\ r.chan[d].recvWaiters \in Seq(Tokens)
               /\ r.chan[d].recvWaiters = s.chan[d].recvWaiters /\ IsInjective(r.chan[d].recvWaiters)
               /\ IsInjective(r.chan[d].sendWaiters)
               /\ Range(r.chan[d].sendWaiters) = Range(s.chan[d].sendWaiters) \cup (IF d = c THEN {k} ELSE {})
    <3>1. s.chan[d] \in Channel /\ s.chan[d].sendWaiters \in Seq(Tokens) /\ s.chan[d].recvWaiters \in Seq(Tokens)
      BY HeapFields
    <3>2. k \notin Range(s.chan[d].sendWaiters)
      BY NewTokenUnlisted
    <3>3. IsInjective(s.chan[d].sendWaiters) /\ IsInjective(s.chan[d].recvWaiters)
      BY ListedFacts
    <3>4. CASE d = c
      <4> DEFINE new == Append(s.chan[d].sendWaiters, k)
      <4>1. new \in Seq(Tokens) /\ Range(new) = Range(s.chan[d].sendWaiters) \cup {k} /\ IsInjective(new)
        BY <3>1, <3>2, <3>3, AppendRange
      <4>2. r.chan[d] = [s.chan[d] EXCEPT !.sendWaiters = new]
        BY <2>3, <3>4
      <4> HIDE DEF new
      <4>3. r.chan[d].sendWaiters = new /\ r.chan[d].recvWaiters = s.chan[d].recvWaiters
        BY <4>2, <3>1 DEF Channel
      <4>4. r.chan[d] = [s.chan[d] EXCEPT !.recvWaiters = r.chan[d].recvWaiters, !.sendWaiters = r.chan[d].sendWaiters]
        BY <4>2, <4>3, <3>1 DEF Channel
      <4>5. QED
        BY <3>1, <3>3, <3>4, <4>1, <4>3, <4>4
    <3>5. CASE d # c
      <4>1. r.chan[d] = s.chan[d]
        BY <2>3, <3>5
      <4>2. r.chan[d] = [s.chan[d] EXCEPT !.recvWaiters = r.chan[d].recvWaiters, !.sendWaiters = r.chan[d].sendWaiters]
        BY <4>1, <3>1 DEF Channel
      <4>3. QED
        BY <3>1, <3>3, <3>5, <4>1, <4>2
    <3>6. QED
      BY <3>4, <3>5
  <2>8. r \in Heap /\ SameValues(s, r)
    BY <2>3, <2>6, <2>7, RelistedHeap, Zenon
  <2>9. r.token[k].signaled = FALSE /\ r.token[k].canceled = FALSE /\ r.token[k].registrations = {<<c, "send">>}
    BY <2>3, <2>4
  <2>10. ASSUME NEW m \in Tokens
         PROVE  /\ r.token[m].registrations = s.token[m].registrations \cup A[m]
                /\ r.token[m].registrations # {} => Live(r, m)
    <3>1. CASE m = k
      BY <3>1, <2>9, NewTokenUnlisted DEF Live
    <3>2. CASE m # k
      BY <3>2, <2>3 DEF Listed, Live
    <3>3. QED
      BY <3>1, <3>2
  <2>11. \A d \in Chans : /\ {m \in Tokens : <<d, "send">> \in A[m]} = (IF d = c THEN {k} ELSE {})
                          /\ {m \in Tokens : <<d, "recv">> \in A[m]} = {}
    OBVIOUS
  <2> HIDE DEF A
  <2>12. Added(s, r, A)
    BY <2>7, <2>10, <2>11, Zenon DEF Added
  <2>13. Listed(r)
    BY <2>8, <2>12, AddedListed
  <2>14. QED
    BY <2>1, <2>3, <2>8, <2>9, <2>13 DEF Waits, r
<1>4. QED
  BY <1>1, <1>2, <1>3

LEMMA TokenEqual ==
  ASSUME NEW x \in Token, NEW y \in Token,
         x.signaled = y.signaled, x.canceled = y.canceled, x.registrations = y.registrations
  PROVE  x = y
<1>1. \A w \in Token : w = [signaled |-> w.signaled, canceled |-> w.canceled, registrations |-> w.registrations]
  BY DEF Token
<1>2. QED
  BY <1>1

\* reflect.Select subscribes unused tokens, one for each case; no case was ready.
LEMMA SubscribeAllFacts ==
  ASSUME NEW s \in Heap, Listed(s), NEW n \in Nat, NEW cases \in [1..n -> Case], NEW toks \in [1..n -> Tokens],
         \A i, j \in 1..n : toks[i] = toks[j] => i = j,
         \A i \in 1..n : s.token[toks[i]] = NewToken /\ ~CaseReady(s, cases[i])
  PROVE  LET r == SubscribeAll(s, cases, toks)
         IN  /\ r \in Heap /\ Listed(r) /\ SameValues(s, r) /\ NoneNewOnClosed(s, r)
             /\ \A k \in Tokens : (\A i \in 1..n : toks[i] # k) => r.token[k] = s.token[k]
             /\ \A i \in 1..n :
                  /\ ~r.token[toks[i]].canceled
                  /\ cases[i][2] = Nil \/ r.token[toks[i]].signaled
                     \/ <<cases[i][2], cases[i][1]>> \in r.token[toks[i]].registrations
<1> DEFINE r == SubscribeAll(s, cases, toks)
           self(i) == /\ cases[i][1] = "send" /\ cases[i][2] # Nil /\ Capacity[cases[i][2]] = 0
                      /\ \E j \in 1..i - 1 : cases[j] = <<"recv", cases[i][2]>>
           queued(dir, c) == {toks[i] : i \in {j \in DOMAIN cases : cases[j] = <<dir, c>> /\ ~self(j)}}
           A == [k \in Tokens |-> {x \in Registration : k \in queued(x[2], x[1])}]
           F(k) == \E i \in DOMAIN cases : toks[i] = k /\ self(i)
<1>1. DOMAIN cases = 1..n /\ toks \in Seq(Tokens) /\ Range(toks) \subseteq Tokens /\ IsInjective(toks) /\ DOMAIN toks = 1..n
  BY LenProperties DEF Range, IsInjective
<1>2. /\ r = [chan |-> r.chan, token |-> r.token] /\ r.chan = [c \in Chans |-> r.chan[c]]
      /\ r.token = [k \in Tokens |-> r.token[k]]
      /\ \A c \in Chans : r.chan[c] = [s.chan[c] EXCEPT !.recvWaiters = @ \o Keep(toks, queued("recv", c)),
                                                       !.sendWaiters = @ \o Keep(toks, queued("send", c))]
      /\ \A k \in Tokens : r.token[k] = [s.token[k] EXCEPT !.signaled = @ \/ F(k), !.registrations = @ \cup A[k]]
  BY DEF SubscribeAll
<1>3. \A dir, c : queued(dir, c) \subseteq Range(toks)
  BY <1>1 DEF Range
<1>4. \A k \in Tokens : A[k] = {x \in Registration : k \in queued(x[2], x[1])}
  OBVIOUS
<1>5. ASSUME NEW i \in 1..n, NEW dir, NEW c, toks[i] \in queued(dir, c)
      PROVE  cases[i] = <<dir, c>> /\ ~self(i)
  <2> HIDE DEF self
  <2>1. PICK j \in 1..n : toks[i] = toks[j] /\ cases[j] = <<dir, c>> /\ ~self(j)
    BY <1>1, <1>5
  <2>2. QED
    BY <2>1
<1>6. \A i \in 1..n : F(toks[i]) <=> self(i)
  <2> HIDE DEF self
  <2>1. QED
    BY <1>1
<1>7. \A i \in 1..n : \A dir, c : cases[i] = <<dir, c>> /\ ~self(i) => toks[i] \in queued(dir, c)
  <2> HIDE DEF self
  <2>1. QED
    BY <1>1
<1>8. \A k \in Tokens : (\A i \in 1..n : toks[i] # k) => ~F(k) /\ \A dir, c : k \notin queued(dir, c)
  <2> HIDE DEF self
  <2>1. QED
    BY <1>1
<1>9. \A k \in Tokens : F(k) \in BOOLEAN
  OBVIOUS
<1> HIDE DEF r, queued, A, F
<1>10. ASSUME NEW k \in Tokens
       PROVE  /\ r.token[k] \in Token /\ r.token[k].signaled = (s.token[k].signaled \/ F(k))
              /\ r.token[k].canceled = s.token[k].canceled
              /\ r.token[k].registrations = s.token[k].registrations \cup A[k]
  <2>1. s.token[k] \in Token /\ A[k] \in SUBSET Registration /\ F(k) \in BOOLEAN
    BY <1>4, <1>9, HeapFields
  <2>2. r.token[k] = [s.token[k] EXCEPT !.signaled = @ \/ F(k), !.registrations = @ \cup A[k]]
    BY <1>2, Zenon
  <2> DEFINE f == F(k)
             a == A[k]
             x == s.token[k]
  <2> HIDE DEF f, a, x
  <2>3. x \in Token /\ a \in SUBSET Registration /\ f \in BOOLEAN /\ r.token[k] = [x EXCEPT !.signaled = @ \/ f, !.registrations = @ \cup a]
    BY <2>1, <2>2 DEF f, a, x
  <2>4. /\ r.token[k] \in Token /\ r.token[k].signaled = (x.signaled \/ f)
        /\ r.token[k].canceled = x.canceled /\ r.token[k].registrations = x.registrations \cup a
    <3> DEFINE f2 == x.signaled \/ f
               a2 == x.registrations \cup a
               y == [x EXCEPT !.signaled = f2, !.registrations = a2]
    <3>1. f2 \in BOOLEAN /\ a2 \in SUBSET Registration /\ r.token[k] = y
      BY <2>3 DEF Token
    <3> HIDE DEF f2, a2
    <3>2. y \in Token /\ y.signaled = f2 /\ y.canceled = x.canceled /\ y.registrations = a2
      BY <2>3, <3>1, Zenon DEF Token
    <3> HIDE DEF y
    <3>3. QED
      BY <3>1, <3>2 DEF f2, a2
  <2>5. QED
    BY <2>4 DEF f, a, x
<1>11. ASSUME NEW c \in Chans
       PROVE  /\ r.chan[c] = [s.chan[c] EXCEPT !.recvWaiters = r.chan[c].recvWaiters, !.sendWaiters = r.chan[c].sendWaiters]
              /\ r.chan[c].recvWaiters \in Seq(Tokens) /\ IsInjective(r.chan[c].recvWaiters)
              /\ Range(r.chan[c].recvWaiters) = Range(s.chan[c].recvWaiters) \cup queued("recv", c)
              /\ r.chan[c].sendWaiters \in Seq(Tokens) /\ IsInjective(r.chan[c].sendWaiters)
              /\ Range(r.chan[c].sendWaiters) = Range(s.chan[c].sendWaiters) \cup queued("send", c)
  <2> DEFINE KR == Keep(toks, queued("recv", c))
             KS == Keep(toks, queued("send", c))
             R == s.chan[c].recvWaiters
             S == s.chan[c].sendWaiters
  <2>1. /\ KR \in Seq(Tokens) /\ IsInjective(KR) /\ Range(KR) = queued("recv", c)
        /\ KS \in Seq(Tokens) /\ IsInjective(KS) /\ Range(KS) = queued("send", c)
    <3> DEFINE q == queued("recv", c)
               p == queued("send", c)
    <3>1. q \subseteq Range(toks) /\ p \subseteq Range(toks)
      BY <1>3
    <3> HIDE DEF q, p
    <3>2. \A kept : /\ Keep(toks, kept) \in Seq(Tokens) /\ IsInjective(Keep(toks, kept))
                    /\ Range(Keep(toks, kept)) = Range(toks) \cap kept
      BY <1>1, KeepFacts
    <3>3. /\ Keep(toks, q) \in Seq(Tokens) /\ IsInjective(Keep(toks, q)) /\ Range(Keep(toks, q)) = q
          /\ Keep(toks, p) \in Seq(Tokens) /\ IsInjective(Keep(toks, p)) /\ Range(Keep(toks, p)) = p
      <4>1. Range(toks) \cap q = q /\ Range(toks) \cap p = p
        BY <3>1
      <4>2. /\ Keep(toks, q) \in Seq(Tokens) /\ IsInjective(Keep(toks, q))
            /\ Range(Keep(toks, q)) = Range(toks) \cap q
        BY <3>2
      <4>3. /\ Keep(toks, p) \in Seq(Tokens) /\ IsInjective(Keep(toks, p))
            /\ Range(Keep(toks, p)) = Range(toks) \cap p
        BY <3>2
      <4>4. QED
        BY <4>1, <4>2, <4>3
    <3>4. QED
      BY <3>3 DEF q, p
  <2>2. /\ s.chan[c] \in Channel /\ R \in Seq(Tokens) /\ S \in Seq(Tokens) /\ IsInjective(R) /\ IsInjective(S)
    BY HeapFields, ListedFacts
  <2>3. Range(R) \cap Range(toks) = {} /\ Range(S) \cap Range(toks) = {}
    <3>1. ASSUME NEW i \in 1..n PROVE toks[i] \notin Range(R) /\ toks[i] \notin Range(S)
      BY NewTokenUnlisted
    <3>2. QED
      BY <3>1, <1>1 DEF Range
  <2>4. Range(R) \cap Range(KR) = {} /\ Range(S) \cap Range(KS) = {}
    BY <2>1, <2>3, <1>3
  <2>5. r.chan[c] = [s.chan[c] EXCEPT !.recvWaiters = R \o KR, !.sendWaiters = S \o KS]
    BY <1>2, Zenon
  <2> HIDE DEF KR, KS, R, S
  <2>6. /\ R \o KR \in Seq(Tokens) /\ IsInjective(R \o KR) /\ Range(R \o KR) = Range(R) \cup Range(KR)
        /\ S \o KS \in Seq(Tokens) /\ IsInjective(S \o KS) /\ Range(S \o KS) = Range(S) \cup Range(KS)
    BY <2>1, <2>2, <2>4, ConcatRange
  <2>7. r.chan[c].recvWaiters = R \o KR /\ r.chan[c].sendWaiters = S \o KS
    BY <2>2, <2>5 DEF Channel
  <2>8. r.chan[c] = [s.chan[c] EXCEPT !.recvWaiters = r.chan[c].recvWaiters, !.sendWaiters = r.chan[c].sendWaiters]
    BY <2>5, <2>7
  <2>9. QED
    BY <2>1, <2>6, <2>7, <2>8, Zenon DEF R, S
<1>12. r \in Heap /\ SameValues(s, r)
  BY <1>2, <1>10, <1>11, RelistedHeap, Zenon
<1>13. \A c \in Chans, dir \in Directions : {k \in Tokens : <<c, dir>> \in A[k]} = queued(dir, c)
  <2> SUFFICES ASSUME NEW c \in Chans, NEW dir \in Directions, NEW k
               PROVE  k \in Tokens /\ <<c, dir>> \in A[k] <=> k \in queued(dir, c)
    OBVIOUS
  <2>1. <<c, dir>> \in Registration
    BY DEF Registration
  <2>2. k \in queued(dir, c) => k \in Tokens
    BY <1>1, <1>3
  <2>3. QED
    BY <2>1, <2>2, <1>4
<1>14. ASSUME NEW i \in 1..n
       PROVE  /\ s.token[toks[i]].signaled = FALSE /\ s.token[toks[i]].canceled = FALSE
              /\ s.token[toks[i]].registrations = {} /\ toks[i] \in Tokens
  BY NewTokenUnlisted
<1>15. ASSUME NEW k \in Tokens, r.token[k].registrations # {} PROVE Live(r, k)
  <2>1. CASE \A i \in 1..n : toks[i] # k
    <3>1. A[k] = {} /\ ~F(k)
      BY <1>4, <1>8, <2>1
    <3>2. s.token[k].registrations # {} /\ Live(s, k)
      BY <1>10, <1>15, <3>1 DEF Listed
    <3>3. QED
      BY <3>1, <3>2, <1>10 DEF Live
  <2>2. CASE \E i \in 1..n : toks[i] = k
    <3>1. PICK i \in 1..n : toks[i] = k
      BY <2>2
    <3>2. PICK x \in Registration : k \in queued(x[2], x[1])
      BY <1>4, <1>10, <1>14, <1>15, <3>1
    <3>3. ~self(i)
      BY <1>5, <3>1, <3>2
    <3>4. ~F(k)
      BY <1>6, <3>1, <3>3
    <3>5. QED
      BY <1>10, <1>14, <3>1, <3>4 DEF Live
  <2>3. QED
    BY <2>1, <2>2
<1>16. Added(s, r, A)
  <2>1. "recv" \in Directions /\ "send" \in Directions
    BY DEF Directions
  <2>2. QED
    BY <2>1, <1>10, <1>11, <1>13, <1>15, Zenon DEF Added
<1>17. Listed(r)
  BY <1>12, <1>16, AddedListed
<1>18. NoneNewOnClosed(s, r)
  <2> SUFFICES ASSUME NEW k \in Tokens, NEW x \in r.token[k].registrations, x \notin s.token[k].registrations
               PROVE  ~s.chan[x[1]].closed
    BY DEF NoneNewOnClosed
  <2>1. x \in Registration /\ k \in queued(x[2], x[1])
    BY <1>4, <1>10
  <2>2. PICK i \in 1..n : toks[i] = k
    BY <1>8, <2>1
  <2>3. cases[i] = <<x[2], x[1]>>
    BY <1>5, <2>1, <2>2
  <2>4. x[1] \in Chans /\ x[1] # Nil
    BY <2>1, WaitableAssumption DEF Registration
  <2>5. cases[i][1] = x[2] /\ cases[i][2] = x[1] /\ x[2] \in {"recv", "send"}
    BY <2>1, <2>3 DEF Registration, Directions
  <2>6. ~RecvReady(s, x[1]) \/ ~SendReady(s, x[1])
    BY <2>5 DEF CaseReady
  <2>7. QED
    BY <2>4, <2>6, Zenon DEF RecvReady, SendReady
<1>19. ASSUME NEW k \in Tokens, \A i \in 1..n : toks[i] # k PROVE r.token[k] = s.token[k]
  <2>1. A[k] = {} /\ F(k) = FALSE
    BY <1>4, <1>8, <1>9, <1>19
  <2>2. s.token[k] \in Token /\ s.token[k].signaled \in BOOLEAN
    BY HeapFields
  <2>3. /\ r.token[k] \in Token /\ r.token[k].signaled = s.token[k].signaled
        /\ r.token[k].canceled = s.token[k].canceled /\ r.token[k].registrations = s.token[k].registrations
    BY <1>10, <2>1, <2>2
  <2>4. QED
    BY <2>2, <2>3, TokenEqual
<1>20. ASSUME NEW i \in 1..n
       PROVE  /\ ~r.token[toks[i]].canceled
              /\ cases[i][2] = Nil \/ r.token[toks[i]].signaled
                 \/ <<cases[i][2], cases[i][1]>> \in r.token[toks[i]].registrations
  <2>1. ~r.token[toks[i]].canceled
    BY <1>10, <1>14
  <2>2. CASE self(i)
    <3>1. F(toks[i])
      BY <2>2, <1>6
    <3>2. QED
      BY <2>1, <3>1, <1>10, <1>14
  <2>3. CASE ~self(i) /\ cases[i][2] # Nil
    <3> DEFINE c == cases[i][2]
               dir == cases[i][1]
    <3>1. cases[i] = <<dir, c>> /\ c \in Chans /\ dir \in Directions
      BY <2>3 DEF Case
    <3> HIDE DEF c, dir
    <3>2. toks[i] \in queued(dir, c)
      BY <3>1, <2>3, <1>7
    <3>3. <<c, dir>> \in A[toks[i]]
      BY <3>1, <3>2, <1>13
    <3>4. QED
      BY <2>1, <3>3, <1>10, <1>14 DEF c, dir
  <2>4. QED
    BY <2>1, <2>2, <2>3
<1>21. QED
  BY <1>12, <1>17, <1>18, <1>19, <1>20 DEF r

-----------------------------------------------------------------------------
(* Values                                                                  *)

\* The values of channel c become b, p, co and cl; waiting tokens may have been
\* signalled.
Effect(s, r, c, b, p, co, cl) ==
    /\ r \in Heap /\ Listed(r)
    /\ r.chan[c].buffer = b /\ r.chan[c].pending = p /\ r.chan[c].completed = co /\ r.chan[c].closed = cl
    /\ \A d \in Chans \ {c} :
         /\ r.chan[d].buffer = s.chan[d].buffer /\ r.chan[d].pending = s.chan[d].pending
         /\ r.chan[d].completed = s.chan[d].completed /\ r.chan[d].closed = s.chan[d].closed
    /\ \A k \in Tokens : \/ r.token[k] = s.token[k]
                         \/ s.token[k].registrations # {} /\ r.token[k] = Awake

LEMMA EffectUnlisted ==
  ASSUME NEW s \in Heap, Listed(s), ClosedUnlisted(s), NEW c \in Chans, NEW b, NEW p, NEW co, NEW r,
         Effect(s, r, c, b, p, co, s.chan[c].closed)
  PROVE  ClosedUnlisted(r)
<1>1. r \in Heap /\ Listed(r) /\ \A d \in Chans : r.chan[d].closed = s.chan[d].closed
  BY DEF Effect
<1>2. NoneNewOnClosed(s, r)
  <2> SUFFICES ASSUME NEW k \in Tokens, NEW x \in r.token[k].registrations PROVE x \in s.token[k].registrations
    BY DEF NoneNewOnClosed
  <2>1. CASE r.token[k] = s.token[k]
    BY <2>1
  <2>2. CASE r.token[k] = Awake
    BY <2>2 DEF Awake
  <2>3. QED
    BY <2>1, <2>2 DEF Effect
<1>3. QED
  BY <1>1, <1>2, StillUnlisted

\* A step that moves values of channel c and leaves the waiter lists alone.
ValueStep(s, h, c) ==
    /\ h = [chan |-> h.chan, token |-> s.token] /\ h.chan = [d \in Chans |-> h.chan[d]]
    /\ h.chan[c] \in Channel
    /\ h.chan[c].recvWaiters = s.chan[c].recvWaiters /\ h.chan[c].sendWaiters = s.chan[c].sendWaiters
    /\ \A d \in Chans \ {c} : h.chan[d] = s.chan[d]

LEMMA ValueStepFacts ==
  ASSUME NEW s \in Heap, Listed(s), NEW c \in Chans, NEW h, ValueStep(s, h, c)
  PROVE  /\ h \in Heap /\ Listed(h) /\ h.token = s.token
         /\ Effect(s, h, c, h.chan[c].buffer, h.chan[c].pending, h.chan[c].completed, h.chan[c].closed)
<1>1. h.token = s.token
  BY DEF ValueStep
<1>2. h.chan \in [Chans -> Channel]
  BY HeapFields DEF ValueStep
<1>3. h \in Heap
  BY <1>2, HeapFields DEF ValueStep, Heap
<1>4. \A d \in Chans : h.chan[d].recvWaiters = s.chan[d].recvWaiters /\ h.chan[d].sendWaiters = s.chan[d].sendWaiters
  BY DEF ValueStep
<1>5. Listed(h)
  BY <1>1, <1>4 DEF Listed, Live
<1>6. QED
  BY <1>1, <1>3, <1>5 DEF Effect, ValueStep

LEMMA WokenEffect ==
  ASSUME NEW s, NEW h, NEW c \in Chans, NEW b, NEW p, NEW co, NEW cl, Effect(s, h, c, b, p, co, cl), h.token = s.token,
         NEW r, Woken(h, r)
  PROVE  Effect(s, r, c, b, p, co, cl)
BY DEF Effect, Woken, SameValues, Awake

\* h, made from s by setting fields of channel c.
LEMMA SetPending ==
  ASSUME NEW s \in Heap, NEW c \in Chans, NEW p \in Seq(PendingSend)
  PROVE  LET h == [s EXCEPT !.chan[c].pending = p]
         IN  /\ ValueStep(s, h, c) /\ h.chan[c].buffer = s.chan[c].buffer /\ h.chan[c].pending = p
             /\ h.chan[c].completed = s.chan[c].completed /\ h.chan[c].closed = s.chan[c].closed
<1> DEFINE ch == [s.chan[c] EXCEPT !.pending = p]
           h == [s EXCEPT !.chan[c].pending = p]
<1>1. s.chan \in [Chans -> Channel] /\ s = [chan |-> s.chan, token |-> s.token] /\ s.chan[c] \in Channel
  BY HeapFields
<1>2. /\ ch \in Channel /\ ch.buffer = s.chan[c].buffer /\ ch.pending = p
      /\ ch.completed = s.chan[c].completed /\ ch.closed = s.chan[c].closed
      /\ ch.recvWaiters = s.chan[c].recvWaiters /\ ch.sendWaiters = s.chan[c].sendWaiters
  BY <1>1 DEF Channel
<1>3. h = [chan |-> [s.chan EXCEPT ![c] = ch], token |-> s.token]
  BY <1>1
<1> HIDE DEF ch, h
<1>4. h.chan[c] = ch /\ \A d \in Chans \ {c} : h.chan[d] = s.chan[d]
  BY <1>1, <1>3
<1>5. h = [chan |-> h.chan, token |-> s.token] /\ h.chan = [d \in Chans |-> h.chan[d]]
  BY <1>1, <1>3
<1>6. QED
  BY <1>2, <1>4, <1>5 DEF ValueStep, h

LEMMA SetBuffer ==
  ASSUME NEW s \in Heap, NEW c \in Chans, NEW b \in Seq(Values)
  PROVE  LET h == [s EXCEPT !.chan[c].buffer = b]
         IN  /\ ValueStep(s, h, c) /\ h.chan[c].buffer = b /\ h.chan[c].pending = s.chan[c].pending
             /\ h.chan[c].completed = s.chan[c].completed /\ h.chan[c].closed = s.chan[c].closed
<1> DEFINE ch == [s.chan[c] EXCEPT !.buffer = b]
           h == [s EXCEPT !.chan[c].buffer = b]
<1>1. s.chan \in [Chans -> Channel] /\ s = [chan |-> s.chan, token |-> s.token] /\ s.chan[c] \in Channel
  BY HeapFields
<1>2. /\ ch \in Channel /\ ch.buffer = b /\ ch.pending = s.chan[c].pending
      /\ ch.completed = s.chan[c].completed /\ ch.closed = s.chan[c].closed
      /\ ch.recvWaiters = s.chan[c].recvWaiters /\ ch.sendWaiters = s.chan[c].sendWaiters
  BY <1>1 DEF Channel
<1>3. h = [chan |-> [s.chan EXCEPT ![c] = ch], token |-> s.token]
  BY <1>1
<1> HIDE DEF ch, h
<1>4. h.chan[c] = ch /\ \A d \in Chans \ {c} : h.chan[d] = s.chan[d]
  BY <1>1, <1>3
<1>5. h = [chan |-> h.chan, token |-> s.token] /\ h.chan = [d \in Chans |-> h.chan[d]]
  BY <1>1, <1>3
<1>6. QED
  BY <1>2, <1>4, <1>5 DEF ValueStep, h

LEMMA SetCompleted ==
  ASSUME NEW s \in Heap, NEW c \in Chans, NEW co \in SUBSET Tasks
  PROVE  LET h == [s EXCEPT !.chan[c].completed = co]
         IN  /\ ValueStep(s, h, c) /\ h.chan[c].buffer = s.chan[c].buffer /\ h.chan[c].pending = s.chan[c].pending
             /\ h.chan[c].completed = co /\ h.chan[c].closed = s.chan[c].closed
<1> DEFINE ch == [s.chan[c] EXCEPT !.completed = co]
           h == [s EXCEPT !.chan[c].completed = co]
<1>1. s.chan \in [Chans -> Channel] /\ s = [chan |-> s.chan, token |-> s.token] /\ s.chan[c] \in Channel
  BY HeapFields
<1>2. /\ ch \in Channel /\ ch.buffer = s.chan[c].buffer /\ ch.pending = s.chan[c].pending
      /\ ch.completed = co /\ ch.closed = s.chan[c].closed
      /\ ch.recvWaiters = s.chan[c].recvWaiters /\ ch.sendWaiters = s.chan[c].sendWaiters
  BY <1>1 DEF Channel
<1>3. h = [chan |-> [s.chan EXCEPT ![c] = ch], token |-> s.token]
  BY <1>1
<1> HIDE DEF ch, h
<1>4. h.chan[c] = ch /\ \A d \in Chans \ {c} : h.chan[d] = s.chan[d]
  BY <1>1, <1>3
<1>5. h = [chan |-> h.chan, token |-> s.token] /\ h.chan = [d \in Chans |-> h.chan[d]]
  BY <1>1, <1>3
<1>6. QED
  BY <1>2, <1>4, <1>5 DEF ValueStep, h

LEMMA SetClosed ==
  ASSUME NEW s \in Heap, NEW c \in Chans, NEW cl \in BOOLEAN
  PROVE  LET h == [s EXCEPT !.chan[c].closed = cl]
         IN  /\ ValueStep(s, h, c) /\ h.chan[c].buffer = s.chan[c].buffer /\ h.chan[c].pending = s.chan[c].pending
             /\ h.chan[c].completed = s.chan[c].completed /\ h.chan[c].closed = cl
<1> DEFINE ch == [s.chan[c] EXCEPT !.closed = cl]
           h == [s EXCEPT !.chan[c].closed = cl]
<1>1. s.chan \in [Chans -> Channel] /\ s = [chan |-> s.chan, token |-> s.token] /\ s.chan[c] \in Channel
  BY HeapFields
<1>2. /\ ch \in Channel /\ ch.buffer = s.chan[c].buffer /\ ch.pending = s.chan[c].pending
      /\ ch.completed = s.chan[c].completed /\ ch.closed = cl
      /\ ch.recvWaiters = s.chan[c].recvWaiters /\ ch.sendWaiters = s.chan[c].sendWaiters
  BY <1>1 DEF Channel
<1>3. h = [chan |-> [s.chan EXCEPT ![c] = ch], token |-> s.token]
  BY <1>1
<1> HIDE DEF ch, h
<1>4. h.chan[c] = ch /\ \A d \in Chans \ {c} : h.chan[d] = s.chan[d]
  BY <1>1, <1>3
<1>5. h = [chan |-> h.chan, token |-> s.token] /\ h.chan = [d \in Chans |-> h.chan[d]]
  BY <1>1, <1>3
<1>6. QED
  BY <1>2, <1>4, <1>5 DEF ValueStep, h

LEMMA ValueSteps ==
  ASSUME NEW s \in Heap, NEW c \in Chans, NEW h, ValueStep(s, h, c), NEW g, ValueStep(h, g, c)
  PROVE  ValueStep(s, g, c)
BY DEF ValueStep

LEMMA ValueStepHeap ==
  ASSUME NEW s \in Heap, NEW c \in Chans, NEW h, ValueStep(s, h, c)
  PROVE  h \in Heap
<1>1. h.chan \in [Chans -> Channel]
  BY HeapFields DEF ValueStep
<1>2. QED
  BY <1>1, HeapFields DEF ValueStep, Heap

\* A sender's value is buffered, or left in Pending.
LEMMA SendFacts ==
  ASSUME NEW s \in Heap, Listed(s), NEW c \in Chans, NEW t \in Tasks, NEW v \in Values
  PROVE  LET ch == s.chan[c]
         IN  /\ Full(s, c) => Effect(s, Send(s, c, t, v), c, ch.buffer,
                                     Append(ch.pending, [value |-> v, task |-> t]), ch.completed, ch.closed)
             /\ ~Full(s, c) => Effect(s, Send(s, c, t, v), c, Append(ch.buffer, v), ch.pending, ch.completed, ch.closed)
<1> DEFINE p == Append(s.chan[c].pending, [value |-> v, task |-> t])
           b == Append(s.chan[c].buffer, v)
           h == IF Full(s, c) THEN [s EXCEPT !.chan[c].pending = p] ELSE [s EXCEPT !.chan[c].buffer = b]
<1>1. [value |-> v, task |-> t] \in PendingSend
  BY DEF PendingSend
<1>2. p \in Seq(PendingSend) /\ b \in Seq(Values)
  BY <1>1, HeapFields, AppendProperties
<1>3. Send(s, c, t, v) = SignalOneRecvWaiter(h, c)
  BY DEF Send
<1> HIDE DEF p, b
<1>4. CASE Full(s, c)
  <2>1. /\ ValueStep(s, h, c) /\ h.chan[c].buffer = s.chan[c].buffer /\ h.chan[c].pending = p
        /\ h.chan[c].completed = s.chan[c].completed /\ h.chan[c].closed = s.chan[c].closed
    BY <1>2, <1>4, SetPending
  <2> HIDE DEF h
  <2>2. /\ h \in Heap /\ Listed(h) /\ h.token = s.token
        /\ Effect(s, h, c, h.chan[c].buffer, h.chan[c].pending, h.chan[c].completed, h.chan[c].closed)
    BY <2>1, ValueStepFacts
  <2>3. Effect(s, h, c, s.chan[c].buffer, p, s.chan[c].completed, s.chan[c].closed)
    BY <2>1, <2>2
  <2>4. Woken(h, SignalOneRecvWaiter(h, c))
    BY <2>2, SignalOneRecvFacts
  <2>5. QED
    BY <1>3, <1>4, <2>2, <2>3, <2>4, WokenEffect DEF p
<1>5. CASE ~Full(s, c)
  <2>1. /\ ValueStep(s, h, c) /\ h.chan[c].buffer = b /\ h.chan[c].pending = s.chan[c].pending
        /\ h.chan[c].completed = s.chan[c].completed /\ h.chan[c].closed = s.chan[c].closed
    BY <1>2, <1>5, SetBuffer
  <2> HIDE DEF h
  <2>2. /\ h \in Heap /\ Listed(h) /\ h.token = s.token
        /\ Effect(s, h, c, h.chan[c].buffer, h.chan[c].pending, h.chan[c].completed, h.chan[c].closed)
    BY <2>1, ValueStepFacts
  <2>3. Effect(s, h, c, b, s.chan[c].pending, s.chan[c].completed, s.chan[c].closed)
    BY <2>1, <2>2
  <2>4. Woken(h, SignalOneRecvWaiter(h, c))
    BY <2>2, SignalOneRecvFacts
  <2>5. QED
    BY <1>3, <1>5, <2>2, <2>3, <2>4, WokenEffect DEF b
<1>6. QED
  BY <1>4, <1>5

LEMMA TrySendFacts ==
  ASSUME NEW s \in Heap, Listed(s), NEW c \in Chans, NEW v \in Values
  PROVE  LET ch == s.chan[c]
         IN  /\ Capacity[c] = 0 => Effect(s, TrySend(s, c, v), c, ch.buffer,
                                          Append(ch.pending, [value |-> v, task |-> NoTask]), ch.completed, ch.closed)
             /\ Capacity[c] # 0 => Effect(s, TrySend(s, c, v), c, Append(ch.buffer, v), ch.pending, ch.completed, ch.closed)
<1> DEFINE p == Append(s.chan[c].pending, [value |-> v, task |-> NoTask])
           b == Append(s.chan[c].buffer, v)
           h == IF Capacity[c] = 0 THEN [s EXCEPT !.chan[c].pending = p] ELSE [s EXCEPT !.chan[c].buffer = b]
<1>1. [value |-> v, task |-> NoTask] \in PendingSend
  BY DEF PendingSend
<1>2. p \in Seq(PendingSend) /\ b \in Seq(Values)
  BY <1>1, HeapFields, AppendProperties
<1>3. TrySend(s, c, v) = SignalOneRecvWaiter(h, c)
  BY DEF TrySend
<1> HIDE DEF p, b
<1>4. CASE Capacity[c] = 0
  <2>1. /\ ValueStep(s, h, c) /\ h.chan[c].buffer = s.chan[c].buffer /\ h.chan[c].pending = p
        /\ h.chan[c].completed = s.chan[c].completed /\ h.chan[c].closed = s.chan[c].closed
    BY <1>2, <1>4, SetPending, Zenon
  <2> HIDE DEF h
  <2>2. /\ h \in Heap /\ Listed(h) /\ h.token = s.token
        /\ Effect(s, h, c, h.chan[c].buffer, h.chan[c].pending, h.chan[c].completed, h.chan[c].closed)
    BY <2>1, ValueStepFacts
  <2>3. Effect(s, h, c, s.chan[c].buffer, p, s.chan[c].completed, s.chan[c].closed)
    BY <2>1, <2>2
  <2>4. Woken(h, SignalOneRecvWaiter(h, c))
    BY <2>2, SignalOneRecvFacts
  <2>5. QED
    BY <1>3, <1>4, <2>2, <2>3, <2>4, WokenEffect DEF p
<1>5. CASE Capacity[c] # 0
  <2>1. /\ ValueStep(s, h, c) /\ h.chan[c].buffer = b /\ h.chan[c].pending = s.chan[c].pending
        /\ h.chan[c].completed = s.chan[c].completed /\ h.chan[c].closed = s.chan[c].closed
    BY <1>2, <1>5, SetBuffer
  <2> HIDE DEF h
  <2>2. /\ h \in Heap /\ Listed(h) /\ h.token = s.token
        /\ Effect(s, h, c, h.chan[c].buffer, h.chan[c].pending, h.chan[c].completed, h.chan[c].closed)
    BY <2>1, ValueStepFacts
  <2>3. Effect(s, h, c, b, s.chan[c].pending, s.chan[c].completed, s.chan[c].closed)
    BY <2>1, <2>2
  <2>4. Woken(h, SignalOneRecvWaiter(h, c))
    BY <2>2, SignalOneRecvFacts
  <2>5. QED
    BY <1>3, <1>5, <2>2, <2>3, <2>4, WokenEffect DEF b
<1>6. QED
  BY <1>4, <1>5

LEMMA TakeCompletedFacts ==
  ASSUME NEW s \in Heap, Listed(s), NEW c \in Chans, NEW t
  PROVE  LET ch == s.chan[c]
         IN  Effect(s, TakeCompletedSend(s, c, t), c, ch.buffer, ch.pending, ch.completed \ {t}, ch.closed)
<1> DEFINE co == s.chan[c].completed \ {t}
           h == [s EXCEPT !.chan[c].completed = co]
<1>1. co \in SUBSET Tasks /\ TakeCompletedSend(s, c, t) = h
  BY HeapFields DEF TakeCompletedSend
<1> HIDE DEF co
<1>2. /\ ValueStep(s, h, c) /\ h.chan[c].buffer = s.chan[c].buffer /\ h.chan[c].pending = s.chan[c].pending
      /\ h.chan[c].completed = co /\ h.chan[c].closed = s.chan[c].closed
  BY <1>1, SetCompleted
<1> HIDE DEF h
<1>3. Effect(s, h, c, h.chan[c].buffer, h.chan[c].pending, h.chan[c].completed, h.chan[c].closed)
  BY <1>2, ValueStepFacts
<1>4. QED
  BY <1>1, <1>2, <1>3 DEF co

LEMMA CloseFacts ==
  ASSUME NEW s \in Heap, Listed(s), NEW c \in Chans
  PROVE  LET ch == s.chan[c]
             r  == Close(s, c)
         IN  /\ Effect(s, r, c, ch.buffer, Keep(ch.pending, PendingNotOf(Tasks)), ch.completed, TRUE)
             /\ r.chan[c].recvWaiters = <<>> /\ r.chan[c].sendWaiters = <<>>
<1> DEFINE p == Keep(s.chan[c].pending, PendingNotOf(Tasks))
           y == TRUE
           g == [s EXCEPT !.chan[c].closed = y]
           h == [g EXCEPT !.chan[c].pending = p]
<1>1. s.chan[c].pending \in Seq(PendingSend)
  BY HeapFields
<1>2. p \in Seq(PendingSend) /\ y \in BOOLEAN
  BY <1>1, KeepFacts
<1>3. Close(s, c) = SignalAllWaiters(h, c)
  BY DEF Close
<1> HIDE DEF p, y
<1>4. /\ ValueStep(s, g, c) /\ g.chan[c].buffer = s.chan[c].buffer /\ g.chan[c].pending = s.chan[c].pending
      /\ g.chan[c].completed = s.chan[c].completed /\ g.chan[c].closed = y
  BY <1>2, SetClosed
<1> HIDE DEF g
<1>5. g \in Heap
  BY <1>4, ValueStepHeap
<1>6. /\ ValueStep(g, h, c) /\ h.chan[c].buffer = g.chan[c].buffer /\ h.chan[c].pending = p
      /\ h.chan[c].completed = g.chan[c].completed /\ h.chan[c].closed = g.chan[c].closed
  BY <1>2, <1>5, SetPending
<1> HIDE DEF h
<1>7. ValueStep(s, h, c)
  BY <1>4, <1>6, ValueSteps
<1>8. /\ h \in Heap /\ Listed(h) /\ h.token = s.token
      /\ Effect(s, h, c, h.chan[c].buffer, h.chan[c].pending, h.chan[c].completed, h.chan[c].closed)
  BY <1>7, ValueStepFacts
<1>9. Effect(s, h, c, s.chan[c].buffer, p, s.chan[c].completed, TRUE)
  BY <1>4, <1>6, <1>8 DEF y
<1>10. /\ Woken(h, SignalAllWaiters(h, c))
       /\ SignalAllWaiters(h, c).chan[c].recvWaiters = <<>> /\ SignalAllWaiters(h, c).chan[c].sendWaiters = <<>>
  BY <1>8, SignalAllFacts
<1>11. QED
  BY <1>3, <1>8, <1>9, <1>10, WokenEffect DEF p

\* Refilling the buffer moves the first pending value in when there is room for one.
LEMMA FillFacts ==
  ASSUME NEW h \in Heap, NEW c \in Chans,
         \/ h.chan[c].pending = <<>>
         \/ Capacity[c] <= Len(h.chan[c].buffer)
         \/ Capacity[c] = Len(h.chan[c].buffer) + 1
  PROVE  LET g == FillBufferedPending(h, c)
             b == h.chan[c].buffer
             p == h.chan[c].pending
             co == h.chan[c].completed
         IN  /\ ValueStep(h, g, c) /\ g.chan[c].closed = h.chan[c].closed
             /\ p = <<>> \/ Capacity[c] <= Len(b) =>
                    g.chan[c].buffer = b /\ g.chan[c].pending = p /\ g.chan[c].completed = co
             /\ p # <<>> /\ Capacity[c] = Len(b) + 1 =>
                    /\ g.chan[c].buffer = Append(b, Head(p).value) /\ g.chan[c].pending = Tail(p)
                    /\ g.chan[c].completed = co \cup ({Head(p).task} \ {NoTask})
<1> DEFINE g == FillBufferedPending(h, c)
           b == h.chan[c].buffer
           p == h.chan[c].pending
           co == h.chan[c].completed
           room == IF Capacity[c] > Len(b) THEN Capacity[c] - Len(b) ELSE 0
           moved == IF room < Len(p) THEN room ELSE Len(p)
           b2 == b \o [i \in 1..moved |-> p[i].value]
           p2 == SubSeq(p, moved + 1, Len(p))
           co2 == co \cup ({p[i].task : i \in 1..moved} \ {NoTask})
           f == [h EXCEPT !.chan[c].buffer = b2]
           e == [f EXCEPT !.chan[c].pending = p2]
           d == [e EXCEPT !.chan[c].completed = co2]
<1>1. b \in Seq(Values) /\ p \in Seq(PendingSend) /\ co \in SUBSET Tasks
  BY HeapFields
<1>2. Len(b) \in Nat /\ Len(p) \in Nat /\ Capacity[c] \in Nat
  BY <1>1, LenProperties, WaitableAssumption
<1>21. moved \in 0..Len(p) /\ (p = <<>> \/ Capacity[c] <= Len(b) => moved = 0)
       /\ (p # <<>> /\ Capacity[c] = Len(b) + 1 => moved = 1)
  <2> DEFINE n == Len(p)
             k == Len(b)
             m == Capacity[c]
  <2>1. p # <<>> => n # 0
    BY <1>1, EmptySeq
  <2>2. p = <<>> => n = 0
    BY <1>1, EmptySeq
  <2>3. n \in Nat /\ k \in Nat /\ m \in Nat
    BY <1>2
  <2> HIDE DEF b, p, co, n, k, m
  <2>4. room \in Nat /\ (m <= k => room = 0) /\ (m = k + 1 => room = 1)
    BY <2>3 DEF k, m
  <2> HIDE DEF room
  <2>5. moved \in 0..n /\ (n = 0 \/ room = 0 => moved = 0) /\ (n # 0 /\ room = 1 => moved = 1)
    <3>1. moved = IF room < n THEN room ELSE n
      BY DEF n
    <3>2. room \in Nat
      BY <2>4
    <3> HIDE DEF moved
    <3>3. moved \in 0..n
      BY <2>3, <3>1, <3>2
    <3>4. (n = 0 \/ room = 0) => moved = 0
      BY <2>3, <3>1, <3>2
    <3>5. (n # 0 /\ room = 1) => moved = 1
      BY <2>3, <3>1, <3>2
    <3>6. QED
      BY <3>3, <3>4, <3>5
  <2> HIDE DEF moved
  <2>6. QED
    BY <2>1, <2>2, <2>4, <2>5 DEF n, k, m
<1>3. moved \in 0..Len(p)
  BY <1>21
<1>4. g = d
  BY DEF FillBufferedPending
<1>5. p = <<>> \/ Capacity[c] <= Len(b) => moved = 0
  BY <1>21
<1>6. p # <<>> /\ Capacity[c] = Len(b) + 1 => moved = 1
  BY <1>21
<1> HIDE DEF b, p, co, room, moved, g
<1>7. [i \in 1..moved |-> p[i].value] \in Seq(Values)
  <2>1. \A i \in 1..moved : p[i] \in PendingSend
    BY <1>1, <1>3, ElementOfSeq
  <2>2. moved \in Nat
    BY <1>2, <1>3
  <2>3. [i \in 1..moved |-> p[i].value] \in [1..moved -> Values]
    BY <2>1 DEF PendingSend
  <2>4. QED
    BY <2>2, <2>3, SeqDef
<1>8. b2 \in Seq(Values)
  BY <1>1, <1>7, ConcatProperties
<1>9. p2 \in Seq(PendingSend)
  BY <1>1, <1>2, <1>3
<1>10. co2 \in SUBSET Tasks
  <2>1. \A i \in 1..moved : p[i].task \in Tasks \cup {NoTask}
    <3>1. \A i \in 1..moved : p[i] \in PendingSend
      BY <1>1, <1>3, ElementOfSeq
    <3>2. QED
      BY <3>1 DEF PendingSend
  <2>2. QED
    BY <1>1, <2>1
<1>11. moved = 0 => b2 = b /\ p2 = p /\ co2 = co
  <2> SUFFICES ASSUME moved = 0 PROVE b2 = b /\ p2 = p /\ co2 = co
    OBVIOUS
  <2>1. b2 = b
    <3>1. [i \in 1..moved |-> p[i].value] = <<>>
      OBVIOUS
    <3>2. QED
      BY <3>1, <1>1, ConcatEmptySeq
  <2>2. p2 = p
    BY <1>1, <1>2
  <2>3. co2 = co
    OBVIOUS
  <2>4. QED
    BY <2>1, <2>2, <2>3
<1>12. moved = 1 /\ p # <<>> => b2 = Append(b, Head(p).value) /\ p2 = Tail(p) /\ co2 = co \cup ({Head(p).task} \ {NoTask})
  <2> SUFFICES ASSUME moved = 1, p # <<>>
               PROVE  b2 = Append(b, Head(p).value) /\ p2 = Tail(p) /\ co2 = co \cup ({Head(p).task} \ {NoTask})
    OBVIOUS
  <2>1. Head(p) = p[1]
    BY <1>1, HeadTailProperties
  <2>2. b2 = Append(b, Head(p).value)
    <3>1. [i \in 1..moved |-> p[i].value] = <<Head(p).value>>
      BY <2>1
    <3>2. QED
      BY <3>1, <1>1
  <2>3. p2 = Tail(p)
    BY <1>1, <1>2
  <2>4. co2 = co \cup ({Head(p).task} \ {NoTask})
    BY <2>1
  <2>5. QED
    BY <2>2, <2>3, <2>4
<1> HIDE DEF b2, p2, co2
<1>13. /\ ValueStep(h, f, c) /\ f.chan[c].buffer = b2 /\ f.chan[c].pending = h.chan[c].pending
       /\ f.chan[c].completed = h.chan[c].completed /\ f.chan[c].closed = h.chan[c].closed
  BY <1>8, SetBuffer
<1> HIDE DEF f
<1>14. f \in Heap
  BY <1>13, ValueStepHeap
<1>15. /\ ValueStep(f, e, c) /\ e.chan[c].buffer = f.chan[c].buffer /\ e.chan[c].pending = p2
       /\ e.chan[c].completed = f.chan[c].completed /\ e.chan[c].closed = f.chan[c].closed
  BY <1>9, <1>14, SetPending
<1> HIDE DEF e
<1>16. e \in Heap /\ ValueStep(h, e, c)
  BY <1>13, <1>14, <1>15, ValueStepHeap, ValueSteps
<1>17. /\ ValueStep(e, d, c) /\ d.chan[c].buffer = e.chan[c].buffer /\ d.chan[c].pending = e.chan[c].pending
       /\ d.chan[c].completed = co2 /\ d.chan[c].closed = e.chan[c].closed
  BY <1>10, <1>16, SetCompleted
<1> HIDE DEF d
<1>18. ValueStep(h, d, c)
  BY <1>16, <1>17, ValueSteps
<1>19. d.chan[c].buffer = b2 /\ d.chan[c].pending = p2 /\ d.chan[c].completed = co2 /\ d.chan[c].closed = h.chan[c].closed
  BY <1>13, <1>15, <1>17
<1>20. QED
  BY <1>4, <1>5, <1>6, <1>11, <1>12, <1>18, <1>19 DEF b, p, co, g

\* A received value is the oldest; the first blocked sender moves up and is done.
LEMMA TakeFacts ==
  ASSUME NEW s \in Heap, Listed(s), NEW c \in Chans, Filled(s.chan[c], Capacity[c]), HasValue(s, c)
  PROVE  LET r == TakeValue(s, c)
             b == s.chan[c].buffer
             p == s.chan[c].pending
             co == s.chan[c].completed
             done == co \cup ({Head(p).task} \ {NoTask})
         IN  /\ p = <<>> => b # <<>> /\ Effect(s, r, c, Tail(b), p, co, s.chan[c].closed)
             /\ p # <<>> /\ Capacity[c] = 0 => b = <<>> /\ Effect(s, r, c, b, Tail(p), done, s.chan[c].closed)
             /\ p # <<>> /\ Capacity[c] # 0 =>
                    b # <<>> /\ Effect(s, r, c, Append(Tail(b), Head(p).value), Tail(p), done, s.chan[c].closed)
<1> DEFINE r == TakeValue(s, c)
           b == s.chan[c].buffer
           p == s.chan[c].pending
           co == s.chan[c].completed
           done == co \cup ({Head(p).task} \ {NoTask})
           pb == [s EXCEPT !.chan[c].buffer = Tail(b)]
           pp == [s EXCEPT !.chan[c].pending = Tail(p)]
           g(h) == FillBufferedPending(h, c)
<1>1. b \in Seq(Values) /\ p \in Seq(PendingSend) /\ co \in SUBSET Tasks /\ s.chan[c].closed \in BOOLEAN
  BY HeapFields
<1>2. Len(b) \in Nat /\ Len(p) \in Nat /\ Capacity[c] \in Nat /\ (b = <<>> <=> Len(b) = 0)
  BY <1>1, LenProperties, EmptySeq, WaitableAssumption
<1>3. Len(b) <= Capacity[c] /\ (Capacity[c] > 0 /\ p # <<>> => Len(b) = Capacity[c]) /\ (b # <<>> \/ p # <<>>)
  BY DEF Filled, HasValue
<1>4. b # <<>> => Tail(b) \in Seq(Values) /\ Len(Tail(b)) = Len(b) - 1
  BY <1>1, HeadTailProperties
<1>5. p # <<>> => Tail(p) \in Seq(PendingSend) /\ Head(p).task \in Tasks \cup {NoTask}
  <2> HIDE DEF p
  <2> SUFFICES ASSUME p # <<>> PROVE Tail(p) \in Seq(PendingSend) /\ Head(p).task \in Tasks \cup {NoTask}
    OBVIOUS
  <2>1. Tail(p) \in Seq(PendingSend) /\ Head(p) \in PendingSend
    <3>1. Len(p) \in Nat /\ Len(p) # 0
      BY <1>1, EmptySeq, LenProperties
    <3>2. 1 \in 1..Len(p)
      BY <3>1
    <3>3. QED
      BY <1>1, <3>2, HeadTailProperties, ElementOfSeq
  <2>2. QED
    BY <2>1 DEF PendingSend
<1> HIDE DEF b, p, co
<1>6. ASSUME NEW h, ValueStep(s, h, c), h.chan[c].closed = s.chan[c].closed, NEW x, NEW y, NEW z,
             \/ h.chan[c].pending = <<>> \/ Capacity[c] <= Len(h.chan[c].buffer) \/ Capacity[c] = Len(h.chan[c].buffer) + 1,
             g(h).chan[c].buffer = x, g(h).chan[c].pending = y, g(h).chan[c].completed = z
      PROVE  Effect(s, SignalOneSendWaiter(g(h), c), c, x, y, z, s.chan[c].closed)
  <2>1. h \in Heap
    BY <1>6, ValueStepHeap
  <2>2. ValueStep(h, g(h), c) /\ g(h).chan[c].closed = h.chan[c].closed
    BY <2>1, <1>6, FillFacts
  <2> DEFINE k == g(h)
  <2> HIDE DEF k
  <2>3. ValueStep(s, k, c) /\ k.chan[c].closed = s.chan[c].closed
    BY <1>6, <2>1, <2>2, ValueSteps DEF k
  <2>4. /\ k \in Heap /\ Listed(k) /\ k.token = s.token
        /\ Effect(s, k, c, k.chan[c].buffer, k.chan[c].pending, k.chan[c].completed, k.chan[c].closed)
    BY <2>3, ValueStepFacts
  <2>5. Effect(s, k, c, x, y, z, s.chan[c].closed)
    BY <1>6, <2>3, <2>4 DEF k
  <2>6. Woken(k, SignalOneSendWaiter(k, c))
    BY <2>4, SignalOneSendFacts
  <2>7. QED
    BY <2>4, <2>5, <2>6, WokenEffect DEF k
<1>7. CASE b # <<>>
  <2>1. r = SignalOneSendWaiter(g(pb), c)
    BY <1>7 DEF TakeValue, b
  <2> DEFINE tb == Tail(b)
             h == [s EXCEPT !.chan[c].buffer = tb]
  <2>2. tb \in Seq(Values) /\ Len(tb) = Len(b) - 1
    BY <1>4, <1>7
  <2> HIDE DEF tb
  <2>3. /\ ValueStep(s, h, c) /\ h.chan[c].buffer = tb /\ h.chan[c].pending = p
        /\ h.chan[c].completed = co /\ h.chan[c].closed = s.chan[c].closed
    BY <2>2, SetBuffer DEF p, co
  <2>4. pb = h
    BY DEF tb
  <2> HIDE DEF h
  <2>5. h \in Heap
    BY <2>3, ValueStepHeap
  <2>6. CASE p = <<>>
    <3>1. g(h).chan[c].buffer = tb /\ g(h).chan[c].pending = p /\ g(h).chan[c].completed = co
      BY <2>3, <2>5, <2>6, FillFacts
    <3>2. Effect(s, SignalOneSendWaiter(g(h), c), c, tb, p, co, s.chan[c].closed)
      BY <1>6, <2>3, <2>6, <3>1
    <3>3. QED
      BY <1>7, <2>1, <2>4, <2>6, <3>2 DEF b, p, co, tb
  <2>7. CASE p # <<>>
    <3>1. Capacity[c] = Len(tb) + 1 /\ Capacity[c] # 0
      BY <1>2, <1>3, <1>7, <2>2, <2>7
    <3>2. /\ g(h).chan[c].buffer = Append(tb, Head(p).value) /\ g(h).chan[c].pending = Tail(p)
          /\ g(h).chan[c].completed = done
      BY <2>3, <2>5, <2>7, <3>1, FillFacts
    <3>3. Effect(s, SignalOneSendWaiter(g(h), c), c, Append(tb, Head(p).value), Tail(p), done, s.chan[c].closed)
      BY <1>6, <2>3, <3>1, <3>2
    <3>4. QED
      BY <1>7, <2>1, <2>4, <2>7, <3>1, <3>3 DEF b, p, co, tb
  <2>8. QED
    BY <2>6, <2>7
<1>8. CASE b = <<>>
  <2>1. p # <<>> /\ Len(b) = 0 /\ Capacity[c] = 0
    BY <1>2, <1>3, <1>8
  <2>2. r = SignalOneSendWaiter(g(CompleteSend(pp, c, Head(p).task)), c)
    BY <1>8 DEF TakeValue, b, p
  <2> DEFINE tp == Tail(p)
             e == [s EXCEPT !.chan[c].pending = tp]
             h == CompleteSend(e, c, Head(p).task)
  <2>3. tp \in Seq(PendingSend)
    BY <1>5, <2>1
  <2> HIDE DEF tp
  <2>4. /\ ValueStep(s, e, c) /\ e.chan[c].buffer = b /\ e.chan[c].pending = tp
        /\ e.chan[c].completed = co /\ e.chan[c].closed = s.chan[c].closed
    BY <2>3, SetPending DEF b, co
  <2>5. pp = e
    BY DEF tp
  <2> HIDE DEF e
  <2>6. e \in Heap
    BY <2>4, ValueStepHeap
  <2>7. /\ ValueStep(s, h, c) /\ h.chan[c].buffer = b /\ h.chan[c].pending = tp
        /\ h.chan[c].completed = done /\ h.chan[c].closed = s.chan[c].closed
    <3>1. CASE Head(p).task = NoTask
      <4>1. h = e /\ done = co
        BY <3>1 DEF CompleteSend
      <4>2. QED
        BY <4>1, <2>4
    <3>2. CASE Head(p).task # NoTask
      <4> DEFINE d == co \cup {Head(p).task}
                 f == [e EXCEPT !.chan[c].completed = d]
      <4>1. h = f /\ done = d
        BY <3>2, <2>4 DEF CompleteSend
      <4>2. d \in SUBSET Tasks
        BY <1>1, <1>5, <2>1, <3>2
      <4> HIDE DEF d
      <4>3. /\ ValueStep(e, f, c) /\ f.chan[c].buffer = b /\ f.chan[c].pending = tp
            /\ f.chan[c].completed = d /\ f.chan[c].closed = s.chan[c].closed
        BY <2>4, <2>6, <4>2, SetCompleted
      <4> HIDE DEF f
      <4>4. ValueStep(s, f, c)
        BY <2>4, <4>3, ValueSteps
      <4> HIDE DEF h, done
      <4>5. QED
        BY <4>1, <4>3, <4>4
    <3>3. QED
      BY <3>1, <3>2
  <2>8. r = SignalOneSendWaiter(g(h), c)
    BY <2>2, <2>5
  <2> HIDE DEF h
  <2>9. h \in Heap
    BY <2>7, ValueStepHeap
  <2>10. Capacity[c] <= Len(h.chan[c].buffer)
    BY <2>1, <2>7
  <2>11. g(h).chan[c].buffer = b /\ g(h).chan[c].pending = tp /\ g(h).chan[c].completed = done
    BY <2>7, <2>9, <2>10, FillFacts
  <2>12. Effect(s, SignalOneSendWaiter(g(h), c), c, b, tp, done, s.chan[c].closed)
    BY <1>6, <2>7, <2>10, <2>11
  <2>13. QED
    BY <1>8, <2>1, <2>8, <2>12 DEF b, p, co, tp
<1>9. QED
  BY <1>7, <1>8

-----------------------------------------------------------------------------
(* The scheduler's lists                                                   *)

MachineOK ==
    /\ runnable \in Seq(Tasks) /\ blocked \in Seq(Tasks) /\ current \in Tasks \cup {None}
    /\ scan \in 0..Len(blocked) + 1 /\ progress \in BOOLEAN

DataOK ==
    /\ heap \in Heap /\ task \in [Tasks -> TaskType]
    /\ \A t \in Tasks : task[t].pc = "register" => task[t].k \in 1..Len(task[t].cases)
    /\ got \in [Tasks -> Values \cup {NoValue}] /\ sent \in SUBSET Values
    /\ Numbered

LEMMA Types == TypeOK /\ Numbered <=> MachineOK /\ DataOK
BY DEF TypeOK, MachineOK, DataOK

LEMMA KeepsRunning ==
  ASSUME MachineOK, Scanned, NEW t \in Tasks, current = t, KeepRunning
  PROVE  MachineOK' /\ Scanned'
<1>1. current # None /\ scan = 0
  BY ChannelsAssumption DEF Scanned
<1>2. MachineOK'
  BY DEF KeepRunning, machine, MachineOK
<1>3. DOMAIN blocked' = 1..Len(blocked') /\ scan' = 0
  BY <1>1, <1>2, LenProperties DEF MachineOK, KeepRunning, machine
<1>4. \A i \in DOMAIN blocked' : ~(i < scan')
  BY <1>3
<1>5. QED
  BY <1>2, <1>3, <1>4 DEF Scanned

LEMMA StartsWake ==
  ASSUME MachineOK, StartWake, runnable' \in Seq(Tasks), blocked' \in Seq(Tasks)
  PROVE  MachineOK' /\ Scanned'
<1>1. Len(blocked') \in Nat /\ DOMAIN blocked' = 1..Len(blocked')
  BY LenProperties
<1>2. MachineOK'
  <2>1. scan' = 1 /\ progress' = FALSE /\ current' = None
    BY DEF StartWake
  <2>2. scan' \in 0..Len(blocked') + 1
    BY <1>1, <2>1
  <2>3. QED
    BY <2>1, <2>2 DEF MachineOK
<1>3. \A i \in DOMAIN blocked' : ~(i < scan')
  BY <1>1 DEF StartWake
<1>4. QED
  BY <1>2, <1>3 DEF Scanned, StartWake

LEMMA Blocks ==
  ASSUME MachineOK, NEW t \in Tasks, Block(t)
  PROVE  MachineOK' /\ Scanned'
<1>1. runnable' \in Seq(Tasks) /\ blocked' \in Seq(Tasks) /\ StartWake
  BY AppendProperties DEF MachineOK, Block
<1>2. QED
  BY <1>1, StartsWake

-----------------------------------------------------------------------------
(* Tokens of a task                                                        *)

LEMMA SelectFacts ==
  ASSUME NEW cases \in Selects
  PROVE  \E n \in 1..MaxCases : cases \in [1..n -> Case] /\ Len(cases) = n /\ DOMAIN cases = 1..n /\ cases # <<>>
<1>1. PICK n \in 1..MaxCases : cases \in [1..n -> Case]
  BY ChannelsAssumption DEF Case
<1>2. n \in Nat /\ n # 0
  BY ChannelsAssumption
<1>3. cases \in Seq(Case)
  BY <1>1, <1>2, SeqDef
<1>4. Len(cases) = n
  BY <1>1, <1>2, <1>3, LenProperties
<1>5. QED
  BY <1>1, <1>2, <1>3, <1>4, EmptySeq

LEMMA TaskFields ==
  ASSUME DataOK, NEW t \in Tasks
  PROVE  LET me == task[t]
         IN  /\ me \in TaskType /\ me.pc \in Pcs /\ me.n \in 0..MaxOps /\ me.n \in Nat
             /\ me.cases \in {<<>>} \cup Selects /\ me.dflt \in BOOLEAN /\ me.refl \in BOOLEAN
             /\ me.k \in 0..MaxCases + 1 /\ me.k \in Nat /\ me.op \in Case
             /\ Len(me.cases) \in 0..MaxCases /\ Len(me.cases) \in Nat /\ DOMAIN me.cases = 1..Len(me.cases)
             /\ \A i \in 1..Len(me.cases) : me.cases[i] \in Case
             /\ me.pc = "register" => me.k \in 1..Len(me.cases)
             /\ me.pc \notin {"run", "done"} => me.n \in 1..MaxOps
<1>1. task[t] \in TaskType
  BY DEF DataOK
<1>2. /\ task[t].pc \in Pcs /\ task[t].n \in 0..MaxOps /\ task[t].n \in Nat
      /\ task[t].cases \in {<<>>} \cup Selects /\ task[t].dflt \in BOOLEAN /\ task[t].refl \in BOOLEAN
      /\ task[t].k \in 0..MaxCases + 1 /\ task[t].k \in Nat /\ task[t].op \in Case
  BY <1>1, ChannelsAssumption DEF TaskType
<1>3. /\ Len(task[t].cases) \in 0..MaxCases /\ Len(task[t].cases) \in Nat /\ DOMAIN task[t].cases = 1..Len(task[t].cases)
      /\ \A i \in 1..Len(task[t].cases) : task[t].cases[i] \in Case
  <2>1. CASE task[t].cases = <<>>
    BY <2>1, ChannelsAssumption
  <2>2. CASE task[t].cases \in Selects
    <3>1. PICK n \in 1..MaxCases : task[t].cases \in [1..n -> Case] /\ Len(task[t].cases) = n /\ DOMAIN task[t].cases = 1..n
      BY <2>2, SelectFacts
    <3>2. QED
      BY <3>1, ChannelsAssumption
  <2>3. QED
    BY <2>1, <2>2, <1>2
<1>4. /\ task[t].pc = "register" => task[t].k \in 1..Len(task[t].cases)
      /\ task[t].pc \notin {"run", "done"} => task[t].n \in 1..MaxOps
  BY <1>2, ChannelsAssumption DEF DataOK, Numbered
<1>5. QED
  BY <1>1, <1>2, <1>3, <1>4

LEMMA TokenTypes ==
  ASSUME NEW t \in Tasks, NEW n \in 1..MaxOps, NEW i \in 0..MaxCases
  PROVE  <<t, n, i>> \in Tokens /\ <<t, n>> \in Values
BY ChannelsAssumption

\* Unused and Subscribed, for the task t when its record is me.
UnusedBy(me, m, i) ==
    \/ m > me.n
    \/ /\ m = me.n
       /\ \/ i = 0 /\ me.pc \in {"register", "choose", "park", "commit"}
          \/ i >= me.k /\ me.pc = "register"

FreshFor(s, me, t) ==
    \A m \in 1..MaxOps, i \in 0..MaxCases : UnusedBy(me, m, i) => s.token[<<t, m, i>>] = NewToken

\* t's case is subscribed with the token k.
SubscribedCase(s, case, k) ==
    /\ ~s.token[k].canceled
    /\ case[2] = Nil \/ s.token[k].signaled \/ <<case[2], case[1]>> \in s.token[k].registrations

SubscribedFor(s, me, t) ==
    \A i \in 1..Len(me.cases) :
        me.pc \in {"choose", "park"} \/ (me.pc = "register" /\ i < me.k) =>
            SubscribedCase(s, me.cases[i], <<t, me.n, i>>)

LEMMA PerTask == /\ FreshTokens <=> \A t \in Tasks : FreshFor(heap, task[t], t)
                 /\ Subscribed <=> \A t \in Tasks : SubscribedFor(heap, task[t], t)
<1>1. FreshTokens <=> \A t \in Tasks : FreshFor(heap, task[t], t)
  BY DEF FreshTokens, Unused, FreshFor, UnusedBy
<1>2. Subscribed <=> \A t \in Tasks : SubscribedFor(heap, task[t], t)
  BY DEF Subscribed, SubscribedFor, SubscribedCase, TokenOf
<1>3. QED
  BY <1>1, <1>2

\* Token k is as it was, or was signalled while it waited.
TokenKept(s, r, k) == \/ r.token[k] = s.token[k]
                      \/ s.token[k].registrations # {} /\ r.token[k] = Awake

LEMMA KeptFor ==
  ASSUME NEW s, NEW r, NEW t \in Tasks, NEW me, me.n \in 0..MaxOps, Len(me.cases) \in 0..MaxCases,
         \A m \in 1..MaxOps, i \in 0..MaxCases : TokenKept(s, r, <<t, m, i>>)
  PROVE  /\ FreshFor(s, me, t) => FreshFor(r, me, t)
         /\ me.n \in 1..MaxOps /\ SubscribedFor(s, me, t) => SubscribedFor(r, me, t)
<1>1. ASSUME FreshFor(s, me, t) PROVE FreshFor(r, me, t)
  <2> SUFFICES ASSUME NEW m \in 1..MaxOps, NEW i \in 0..MaxCases, UnusedBy(me, m, i)
               PROVE  r.token[<<t, m, i>>] = NewToken
    BY DEF FreshFor
  <2>1. s.token[<<t, m, i>>] = NewToken
    BY <1>1 DEF FreshFor
  <2>2. s.token[<<t, m, i>>].registrations = {}
    BY <2>1 DEF NewToken
  <2>3. TokenKept(s, r, <<t, m, i>>)
    OBVIOUS
  <2>4. QED
    BY <2>1, <2>2, <2>3 DEF TokenKept
<1>2. ASSUME me.n \in 1..MaxOps, SubscribedFor(s, me, t) PROVE SubscribedFor(r, me, t)
  <2> SUFFICES ASSUME NEW i \in 1..Len(me.cases),
                      me.pc \in {"choose", "park"} \/ (me.pc = "register" /\ i < me.k)
               PROVE  SubscribedCase(r, me.cases[i], <<t, me.n, i>>)
    BY DEF SubscribedFor
  <2>1. SubscribedCase(s, me.cases[i], <<t, me.n, i>>)
    BY <1>2 DEF SubscribedFor
  <2>2. i \in 0..MaxCases
    BY ChannelsAssumption
  <2>3. TokenKept(s, r, <<t, me.n, i>>)
    BY <1>2, <2>2
  <2>4. CASE r.token[<<t, me.n, i>>] = s.token[<<t, me.n, i>>]
    BY <2>1, <2>4 DEF SubscribedCase
  <2>5. CASE r.token[<<t, me.n, i>>] = Awake
    BY <2>5 DEF SubscribedCase, Awake
  <2>6. QED
    BY <2>3, <2>4, <2>5 DEF TokenKept
<1>3. QED
  BY <1>1, <1>2

\* Every token not of t's first n communications is kept.
TokensKept(s, r, t, n) == \A k \in Tokens : k[1] # t \/ k[2] > n => TokenKept(s, r, k)

LEMMA OtherTasksKept ==
  ASSUME DataOK, FreshTokens, Subscribed, NEW r, NEW t \in Tasks, NEW n, TokensKept(heap, r, t, n),
         NEW u \in Tasks, u # t
  PROVE  FreshFor(r, task[u], u) /\ SubscribedFor(r, task[u], u)
<1>1. \A m \in 1..MaxOps, i \in 0..MaxCases : TokenKept(heap, r, <<u, m, i>>)
  <2> SUFFICES ASSUME NEW m \in 1..MaxOps, NEW i \in 0..MaxCases PROVE TokenKept(heap, r, <<u, m, i>>)
    OBVIOUS
  <2>1. <<u, m, i>> \in Tokens /\ <<u, m, i>>[1] # t
    BY TokenTypes
  <2>2. QED
    BY <2>1 DEF TokensKept
<1>2. FreshFor(heap, task[u], u) /\ SubscribedFor(heap, task[u], u)
  BY PerTask
<1>3. task[u].n \in 0..MaxOps /\ Len(task[u].cases) \in 0..MaxCases
  BY TaskFields
<1>4. FreshFor(r, task[u], u)
  BY <1>1, <1>2, <1>3, KeptFor
<1>5. CASE task[u].n \in 1..MaxOps
  BY <1>1, <1>2, <1>3, <1>4, <1>5, KeptFor
<1>6. CASE task[u].n \notin 1..MaxOps
  <2>1. task[u].pc \in {"run", "done"}
    BY <1>6, TaskFields
  <2>2. QED
    BY <1>4, <2>1 DEF SubscribedFor
<1>7. QED
  BY <1>5, <1>6

\* One task steps: the others keep what they wait with.
LEMMA WaitStep ==
  ASSUME DataOK, WaitInv, NEW t \in Tasks, NEW me, NEW n, task' = [task EXCEPT ![t] = me],
         Listed(heap'), ClosedUnlisted(heap'), TokensKept(heap, heap', t, n),
         FreshFor(heap', me, t), SubscribedFor(heap', me, t)
  PROVE  WaitInv'
<1>1. task'[t] = me /\ \A u \in Tasks : u # t => task'[u] = task[u]
  BY DEF DataOK
<1>2. \A u \in Tasks : FreshFor(heap', task'[u], u) /\ SubscribedFor(heap', task'[u], u)
  <2> SUFFICES ASSUME NEW u \in Tasks PROVE FreshFor(heap', task'[u], u) /\ SubscribedFor(heap', task'[u], u)
    OBVIOUS
  <2>1. CASE u = t
    BY <1>1, <2>1
  <2>2. CASE u # t
    BY <1>1, <2>2, OtherTasksKept DEF WaitInv
  <2>3. QED
    BY <2>1, <2>2
<1>3. FreshTokens' /\ Subscribed'
  <2>1. (FreshTokens <=> \A u \in Tasks : FreshFor(heap, task[u], u))'
    BY DEF FreshTokens, Unused, FreshFor, UnusedBy
  <2>2. (Subscribed <=> \A u \in Tasks : SubscribedFor(heap, task[u], u))'
    BY DEF Subscribed, SubscribedFor, SubscribedCase, TokenOf
  <2>3. QED
    BY <1>2, <2>1, <2>2
<1>4. QED
  BY <1>3 DEF WaitInv

Plain == {"run", "body", "send", "recv", "done"}

\* A task that leaves the registration of cases behind it.
LEMMA PlainStep ==
  ASSUME DataOK, WaitInv, NEW t \in Tasks, NEW me, task' = [task EXCEPT ![t] = me],
         me.pc \in Plain, me.n \in task[t].n..MaxOps,
         Listed(heap'), ClosedUnlisted(heap'), TokensKept(heap, heap', t, me.n)
  PROVE  WaitInv'
<1>1. task[t].n \in Nat /\ me.n \in Nat
  BY TaskFields, ChannelsAssumption
<1>2. FreshFor(heap, task[t], t)
  BY PerTask DEF WaitInv
<1>3. FreshFor(heap', me, t)
  <2> SUFFICES ASSUME NEW m \in 1..MaxOps, NEW i \in 0..MaxCases, UnusedBy(me, m, i)
               PROVE  heap'.token[<<t, m, i>>] = NewToken
    BY DEF FreshFor
  <2>1. m > me.n
    BY DEF UnusedBy, Plain
  <2>2. m > task[t].n
    BY <2>1, <1>1, ChannelsAssumption
  <2>3. heap.token[<<t, m, i>>] = NewToken
    BY <1>2, <2>2 DEF FreshFor, UnusedBy
  <2>4. heap.token[<<t, m, i>>].registrations = {}
    BY <2>3 DEF NewToken
  <2>5. TokenKept(heap, heap', <<t, m, i>>)
    <3>1. <<t, m, i>> \in Tokens /\ <<t, m, i>>[2] > me.n
      BY <2>1, TokenTypes
    <3>2. QED
      BY <3>1 DEF TokensKept
  <2>6. QED
    BY <2>3, <2>4, <2>5 DEF TokenKept
<1>4. SubscribedFor(heap', me, t)
  BY DEF SubscribedFor, Plain
<1>5. QED
  BY <1>3, <1>4, WaitStep

LEMMA EffectWaits ==
  ASSUME NEW s \in Heap, Listed(s), ClosedUnlisted(s), NEW c \in Chans, NEW b, NEW p, NEW co, NEW r,
         Effect(s, r, c, b, p, co, s.chan[c].closed)
  PROVE  /\ r \in Heap /\ Listed(r) /\ ClosedUnlisted(r)
         /\ \A t, n : TokensKept(s, r, t, n)
BY EffectUnlisted DEF Effect, TokensKept, TokenKept

-----------------------------------------------------------------------------
(* Values of a task                                                        *)

\* The values of c become b, p, co and cl; those of the other channels stay.
Moved(s, r, c, b, p, co, cl) ==
    /\ r.chan[c].buffer = b /\ r.chan[c].pending = p /\ r.chan[c].completed = co /\ r.chan[c].closed = cl
    /\ \A d \in Chans \ {c} :
         /\ r.chan[d].buffer = s.chan[d].buffer /\ r.chan[d].pending = s.chan[d].pending
         /\ r.chan[d].completed = s.chan[d].completed /\ r.chan[d].closed = s.chan[d].closed

LEMMA EffectMoved ==
  ASSUME NEW s, NEW r, NEW c, NEW b, NEW p, NEW co, NEW cl, Effect(s, r, c, b, p, co, cl)
  PROVE  Moved(s, r, c, b, p, co, cl)
BY DEF Effect, Moved

LEMMA SameMoved ==
  ASSUME NEW s, NEW q, NEW r, NEW c \in Chans, NEW b, NEW p, NEW co, NEW cl
  PROVE  /\ SameValues(s, q) /\ Moved(q, r, c, b, p, co, cl) => Moved(s, r, c, b, p, co, cl)
         /\ Moved(s, q, c, b, p, co, cl) /\ SameValues(q, r) => Moved(s, r, c, b, p, co, cl)
BY DEF Moved, SameValues

UnsentPcs == {"register", "choose", "park", "commit", "send", "recv"}

\* v, in the buffer of c, was sent, or its sender is done and not yet resumed.
OneBuffered(v, c) ==
    \/ v[2] < task[v[1]].n
    \/ /\ v[2] = task[v[1]].n
       /\ Unsent(v[1]) => WaitsToSend(v[1], c) /\ v[1] \in heap.chan[c].completed

OneSent(v) == v[2] < task[v[1]].n \/ (v[2] = task[v[1]].n /\ ~Unsent(v[1]))

NotSending(me) == ~(me.pc = "send" /\ me.op[2] \in Chans)

\* A step of t; one that neither begins nor ends a wait to send on c, and on any channel.
Moves(t, me) ==
    /\ task' = [task EXCEPT ![t] = me]
    /\ me.n \in task[t].n..MaxOps
    /\ me.n = task[t].n /\ me.pc \in UnsentPcs => task[t].pc \in UnsentPcs

QuietOn(t, me, c) == Moves(t, me) /\ ~WaitsToSend(t, c) /\ ~(me.pc = "send" /\ me.op[2] = c)

Quiet(t, me) == Moves(t, me) /\ NotSending(task[t]) /\ NotSending(me)

LEMMA QuietIsOn == ASSUME NEW t, NEW me, Quiet(t, me) PROVE Moves(t, me) /\ \A c \in Chans : QuietOn(t, me, c)
BY DEF Quiet, QuietOn, NotSending, WaitsToSend

LEMMA SendInvParts == SendInv <=> /\ \A c \in Chans : Accounted(c)
                                  /\ \A v \in sent : OneSent(v)
                                  /\ \A c \in Chans : \A v \in Range(heap.chan[c].buffer) : OneBuffered(v, c)
BY DEF SendInv, SentOnce, BufferedOnce, OneSent, OneBuffered

LEMMA ValueFields ==
  ASSUME NEW v \in Values
  PROVE  v[1] \in Tasks /\ v[2] \in 1..MaxOps /\ v[2] \in Nat /\ v = <<v[1], v[2]>>
BY ChannelsAssumption

\* After a step of t to me, what was sent stays sent.
LEMMA OneSentKept ==
  ASSUME DataOK, NEW v \in Values, OneSent(v), NEW t \in Tasks, NEW me, Moves(t, me)
  PROVE  OneSent(v)'
<1>1. v[1] \in Tasks /\ v[2] \in Nat /\ task[v[1]].n \in Nat /\ me.n \in Nat /\ task[t].n <= me.n
  BY ValueFields, TaskFields, ChannelsAssumption DEF Moves
<1>2. task'[t] = me /\ \A u \in Tasks : u # t => task'[u] = task[u]
  BY DEF DataOK, Moves
<1>3. CASE v[1] = t
  BY <1>1, <1>2, <1>3 DEF OneSent, Unsent, UnsentPcs, Moves
<1>4. CASE v[1] # t
  BY <1>1, <1>2, <1>4 DEF OneSent, Unsent
<1>5. QED
  BY <1>3, <1>4

LEMMA OneBufferedKept ==
  ASSUME DataOK, NEW c \in Chans, NEW v \in Values, OneBuffered(v, c), NEW t \in Tasks, NEW me, Moves(t, me),
         ~WaitsToSend(t, c), heap.chan[c].completed \subseteq heap'.chan[c].completed
  PROVE  OneBuffered(v, c)'
<1>1. v[1] \in Tasks /\ v[2] \in Nat /\ task[v[1]].n \in Nat /\ me.n \in Nat /\ task[t].n <= me.n
  BY ValueFields, TaskFields, ChannelsAssumption DEF Moves
<1>2. task'[t] = me /\ \A u \in Tasks : u # t => task'[u] = task[u]
  BY DEF DataOK, Moves
<1>3. CASE v[1] = t
  <2>1. ~WaitsToSend(t, c)
    OBVIOUS
  <2>2. CASE v[2] < task[t].n
    BY <1>1, <1>2, <1>3, <2>2 DEF OneBuffered
  <2>3. CASE v[2] = task[t].n /\ ~Unsent(t)
    <3>1. CASE me.n = task[t].n
      <4>1. me.pc \notin UnsentPcs
        BY <2>3, <3>1 DEF Moves, Unsent, UnsentPcs
      <4>2. QED
        BY <1>2, <1>3, <2>3, <3>1, <4>1 DEF OneBuffered, Unsent, UnsentPcs
    <3>2. CASE me.n # task[t].n
      BY <1>1, <1>2, <1>3, <2>3, <3>2 DEF OneBuffered
    <3>3. QED
      BY <3>1, <3>2
  <2>4. QED
    BY <1>3, <2>1, <2>2, <2>3 DEF OneBuffered
<1>4. CASE v[1] # t
  BY <1>1, <1>2, <1>4 DEF OneBuffered, Unsent, WaitsToSend
<1>5. QED
  BY <1>3, <1>4

\* What is pending was pending before, in its order.
LEMMA AccountedSub ==
  ASSUME NEW c \in Chans, Accounted(c), Filled(heap'.chan[c], Capacity[c]),
         NEW f \in [DOMAIN heap'.chan[c].pending -> DOMAIN heap.chan[c].pending],
         \A m, n \in DOMAIN heap'.chan[c].pending : f[m] = f[n] => m = n,
         \A n \in DOMAIN heap'.chan[c].pending : heap'.chan[c].pending[n] = heap.chan[c].pending[f[n]],
         \A n \in DOMAIN heap'.chan[c].pending : \A u :
             u = heap'.chan[c].pending[n].task /\ u # NoTask =>
                 /\ ~heap'.chan[c].closed /\ WaitsToSend(u, c)' /\ u \notin heap'.chan[c].completed
                 /\ task'[u].n = task[u].n,
         sent \subseteq sent',
         \A t \in heap'.chan[c].completed : WaitsToSend(t, c)',
         \A t \in Tasks : WaitsToSend(t, c)' /\ ~heap'.chan[c].closed =>
             t \in heap'.chan[c].completed \/ \E i \in DOMAIN heap'.chan[c].pending : heap'.chan[c].pending[i].task = t
  PROVE  Accounted(c)'
<1> DEFINE p == heap.chan[c].pending
           q == heap'.chan[c].pending
           D == DOMAIN p
           E == DOMAIN q
           N(u) == task[u].n
           N2(u) == task'[u].n
<1>1. \A i \in D : IF p[i].task = NoTask THEN p[i].value \in sent ELSE p[i].value = <<p[i].task, N(p[i].task)>>
  BY Zenon DEF Accounted, ValueOf
<1>2. \A i, j \in D : p[i].task = p[j].task /\ p[i].task # NoTask => i = j
  BY Zenon DEF Accounted
<1>3. \A n \in E : f[n] \in D /\ q[n] = p[f[n]]
  OBVIOUS
<1>4. \A m, n \in E : f[m] = f[n] => m = n
  OBVIOUS
<1>5. \A n \in E : q[n].task # NoTask => N2(q[n].task) = N(q[n].task)
  OBVIOUS
<1>6. /\ \A n \in E : IF q[n].task = NoTask THEN q[n].value \in sent' ELSE q[n].value = <<q[n].task, N2(q[n].task)>>
      /\ \A m, n \in E : q[m].task = q[n].task /\ q[m].task # NoTask => m = n
  <2> HIDE DEF p, q, D, E, N, N2
  <2>1. ASSUME NEW n \in E
        PROVE  IF q[n].task = NoTask THEN q[n].value \in sent' ELSE q[n].value = <<q[n].task, N2(q[n].task)>>
    <3>1. f[n] \in D /\ q[n] = p[f[n]]
      BY <1>3
    <3>2. CASE q[n].task = NoTask
      BY <1>1, <3>1, <3>2
    <3>3. CASE q[n].task # NoTask
      <4>1. N2(q[n].task) = N(q[n].task)
        BY <1>5, <3>3
      <4>2. p[f[n]].value = <<p[f[n]].task, N(p[f[n]].task)>>
        BY <1>1, <3>1, <3>3
      <4>3. QED
        BY <3>1, <3>3, <4>1, <4>2, Zenon
    <3>4. QED
      BY <3>2, <3>3
  <2>2. ASSUME NEW m \in E, NEW n \in E, q[m].task = q[n].task, q[m].task # NoTask PROVE m = n
    <3>1. f[m] \in D /\ q[m] = p[f[m]] /\ f[n] \in D /\ q[n] = p[f[n]]
      BY <1>3
    <3>2. f[m] = f[n]
      BY <1>2, <2>2, <3>1
    <3>3. QED
      BY <1>4, <3>2
  <2>3. QED
    BY <2>1, <2>2
<1>7. \A n \in DOMAIN heap'.chan[c].pending :
         IF heap'.chan[c].pending[n].task = NoTask THEN heap'.chan[c].pending[n].value \in sent'
         ELSE /\ ~heap'.chan[c].closed
              /\ (task'[heap'.chan[c].pending[n].task].pc = "send" /\ task'[heap'.chan[c].pending[n].task].op[2] = c)
              /\ heap'.chan[c].pending[n].task \notin heap'.chan[c].completed
              /\ heap'.chan[c].pending[n].value =
                    <<heap'.chan[c].pending[n].task, task'[heap'.chan[c].pending[n].task].n>>
  <2> SUFFICES ASSUME NEW n \in E
               PROVE  IF q[n].task = NoTask THEN q[n].value \in sent'
                      ELSE /\ ~heap'.chan[c].closed
                           /\ (task'[q[n].task].pc = "send" /\ task'[q[n].task].op[2] = c)
                           /\ q[n].task \notin heap'.chan[c].completed
                           /\ q[n].value = <<q[n].task, task'[q[n].task].n>>
    OBVIOUS
  <2> PICK u : u = q[n].task
    OBVIOUS
  <2>1. CASE u = NoTask
    BY <1>6, <2>1
  <2>2. CASE u # NoTask
    <3>1. ~heap'.chan[c].closed /\ WaitsToSend(u, c)' /\ u \notin heap'.chan[c].completed
      BY <2>2
    <3>2. task'[u].pc = "send" /\ task'[u].op[2] = c
      BY ONLY <3>1 DEF WaitsToSend
    <3>3. q[n].value = <<u, task'[u].n>>
      BY <1>6, <2>2
    <3>4. QED
      BY ONLY <2>2, <3>1, <3>2, <3>3, u = q[n].task
  <2>3. QED
    BY <2>1, <2>2
<1>8. QED
  BY <1>6, <1>7, Zenon DEF Accounted, ValueOf, WaitsToSend

LEMMA PendingFields ==
  ASSUME NEW p \in Seq(PendingSend), NEW n \in DOMAIN p
  PROVE  p[n].task \in Tasks \cup {NoTask} /\ p[n].value \in Values
<1>1. p[n] \in PendingSend
  BY ElementOfSeq, LenProperties
<1>2. QED
  BY <1>1 DEF PendingSend

LEMMA AccountedSame ==
  ASSUME DataOK, NEW c \in Chans, Accounted(c), sent \subseteq sent',
         heap'.chan[c].buffer = heap.chan[c].buffer, heap'.chan[c].pending = heap.chan[c].pending,
         heap'.chan[c].completed = heap.chan[c].completed, heap'.chan[c].closed = heap.chan[c].closed,
         \A u \in Tasks : (WaitsToSend(u, c)' <=> WaitsToSend(u, c)) /\ (WaitsToSend(u, c) => task'[u].n = task[u].n)
  PROVE  Accounted(c)'
<1> DEFINE f == [i \in DOMAIN heap.chan[c].pending |-> i]
<1>1. heap.chan[c].pending \in Seq(PendingSend) /\ heap.chan[c].completed \in SUBSET Tasks
  BY HeapFields DEF DataOK
<1>2. \A n \in DOMAIN heap.chan[c].pending : heap.chan[c].pending[n].task \in Tasks \cup {NoTask}
  BY <1>1, PendingFields
<1>3. Filled(heap'.chan[c], Capacity[c])
  BY DEF Accounted, Filled
<1> PICK p : p = heap.chan[c].pending
  OBVIOUS
<1>4. \A u \in Tasks : (WaitsToSend(u, c)' <=> WaitsToSend(u, c)) /\ (WaitsToSend(u, c) => ValueOf(u)' = ValueOf(u))
  BY DEF ValueOf
<1>5. \A i \in DOMAIN p :
         IF p[i].task = NoTask THEN p[i].value \in sent'
         ELSE /\ ~heap.chan[c].closed
              /\ WaitsToSend(p[i].task, c)'
              /\ p[i].task \notin heap.chan[c].completed
              /\ p[i].value = ValueOf(p[i].task)'
  <2> SUFFICES ASSUME NEW i \in DOMAIN p
               PROVE  IF p[i].task = NoTask THEN p[i].value \in sent'
                      ELSE /\ ~heap.chan[c].closed
                           /\ WaitsToSend(p[i].task, c)'
                           /\ p[i].task \notin heap.chan[c].completed
                           /\ p[i].value = ValueOf(p[i].task)'
    OBVIOUS
  <2> PICK u : u = p[i].task
    OBVIOUS
  <2>1. IF u = NoTask THEN p[i].value \in sent
        ELSE /\ ~heap.chan[c].closed /\ WaitsToSend(u, c)
             /\ u \notin heap.chan[c].completed /\ p[i].value = ValueOf(u)
    BY DEF Accounted
  <2>2. u # NoTask => u \in Tasks
    BY <1>2
  <2>3. QED
    BY <1>4, <2>1, <2>2
<1>6. /\ \A i, j \in DOMAIN p : p[i].task = p[j].task /\ p[i].task # NoTask => i = j
      /\ \A u \in heap.chan[c].completed : WaitsToSend(u, c)'
      /\ \A u \in Tasks : WaitsToSend(u, c)' /\ ~heap.chan[c].closed =>
            u \in heap.chan[c].completed \/ \E i \in DOMAIN p : p[i].task = u
  BY <1>1, <1>4 DEF Accounted
<1>7. /\ \A i \in DOMAIN p :
            IF p[i].task = NoTask THEN p[i].value \in sent'
            ELSE /\ ~heap'.chan[c].closed
                 /\ WaitsToSend(p[i].task, c)'
                 /\ p[i].task \notin heap'.chan[c].completed
                 /\ p[i].value = ValueOf(p[i].task)'
      /\ \A u \in heap'.chan[c].completed : WaitsToSend(u, c)'
      /\ \A u \in Tasks : WaitsToSend(u, c)' /\ ~heap'.chan[c].closed =>
            u \in heap'.chan[c].completed \/ \E i \in DOMAIN p : p[i].task = u
  BY <1>5, <1>6
<1>8. heap'.chan[c].pending = p
  OBVIOUS
<1>9. QED
  BY ONLY <1>3, <1>6, <1>7, <1>8 DEF Accounted

LEMMA QuietWaits ==
  ASSUME DataOK, NEW t \in Tasks, NEW me, NEW c, QuietOn(t, me, c), NEW u \in Tasks
  PROVE  (WaitsToSend(u, c)' <=> WaitsToSend(u, c)) /\ (WaitsToSend(u, c) => task'[u].n = task[u].n)
<1>1. task'[t] = me /\ \A w \in Tasks : w # t => task'[w] = task[w]
  BY DEF DataOK, QuietOn, Moves
<1>2. CASE u = t
  BY <1>1, <1>2 DEF WaitsToSend, QuietOn
<1>3. CASE u # t
  BY <1>1, <1>3 DEF WaitsToSend
<1>4. QED
  BY <1>2, <1>3

SameChannel(c) ==
    /\ heap'.chan[c].buffer = heap.chan[c].buffer /\ heap'.chan[c].pending = heap.chan[c].pending
    /\ heap'.chan[c].completed = heap.chan[c].completed /\ heap'.chan[c].closed = heap.chan[c].closed

LEMMA BufferTypes ==
  ASSUME DataOK, NEW c \in Chans
  PROVE  /\ heap.chan[c].buffer \in Seq(Values) /\ Range(heap.chan[c].buffer) \subseteq Values
         /\ heap.chan[c].pending \in Seq(PendingSend) /\ heap.chan[c].completed \in SUBSET Tasks
         /\ Len(heap.chan[c].buffer) \in Nat /\ Len(heap.chan[c].pending) \in Nat /\ Capacity[c] \in Nat
         /\ DOMAIN heap.chan[c].pending = 1..Len(heap.chan[c].pending)
<1>1. heap.chan[c].buffer \in Seq(Values) /\ heap.chan[c].pending \in Seq(PendingSend) /\ heap.chan[c].completed \in SUBSET Tasks
  BY HeapFields DEF DataOK
<1>2. QED
  BY <1>1, LenProperties, WaitableAssumption DEF Range

LEMMA QuietSame ==
  ASSUME DataOK, SendInv, NEW t \in Tasks, NEW me, NEW c \in Chans, QuietOn(t, me, c), sent \subseteq sent', SameChannel(c)
  PROVE  Accounted(c)' /\ \A v \in Range(heap'.chan[c].buffer) : OneBuffered(v, c)'
<1>1. Accounted(c)'
  BY QuietWaits, AccountedSame DEF SendInv, SameChannel
<1>2. ASSUME NEW v \in Range(heap'.chan[c].buffer) PROVE OneBuffered(v, c)'
  <2>1. v \in Range(heap.chan[c].buffer)
    BY DEF SameChannel
  <2>2. v \in Values /\ OneBuffered(v, c)
    BY <2>1, BufferTypes, SendInvParts
  <2>3. QED
    BY <2>2, OneBufferedKept DEF SameChannel, QuietOn
<1>3. QED
  BY <1>1, <1>2

LEMMA QuietSent ==
  ASSUME DataOK, SendInv, NEW t \in Tasks, NEW me, Moves(t, me), NEW v \in sent
  PROVE  OneSent(v)'
<1>1. v \in Values /\ OneSent(v)
  BY SendInvParts DEF DataOK
<1>2. QED
  BY <1>1, OneSentKept

LEMMA SendInvNext ==
  (SendInv <=> /\ \A c \in Chans : Accounted(c)
               /\ \A v \in sent : OneSent(v)
               /\ \A c \in Chans : \A v \in Range(heap.chan[c].buffer) : OneBuffered(v, c))'
BY DEF SendInv, SentOnce, BufferedOnce, OneSent, OneBuffered

LEMMA QuietStep ==
  ASSUME DataOK, SendInv, NEW t \in Tasks, NEW me, Quiet(t, me), sent' = sent, \A c \in Chans : SameChannel(c)
  PROVE  SendInv'
<1>1. \A v \in sent' : OneSent(v)'
  BY QuietSent, QuietIsOn
<1>2. \A c \in Chans : Accounted(c)' /\ \A v \in Range(heap'.chan[c].buffer) : OneBuffered(v, c)'
  BY QuietSame, QuietIsOn
<1>3. QED
  BY <1>1, <1>2, SendInvNext

\* The values of one channel change.
LEMMA QuietOthers ==
  ASSUME DataOK, SendInv, NEW t \in Tasks, NEW me, Moves(t, me), NEW c \in Chans,
         \A d \in Chans \ {c} : QuietOn(t, me, d) /\ SameChannel(d),
         sent \subseteq sent', \A v \in sent' \ sent : OneSent(v)',
         Accounted(c)', \A v \in Range(heap'.chan[c].buffer) : OneBuffered(v, c)'
  PROVE  SendInv'
<1>1. \A v \in sent' : OneSent(v)'
  BY QuietSent
<1>2. \A d \in Chans : Accounted(d)' /\ \A v \in Range(heap'.chan[d].buffer) : OneBuffered(v, d)'
  <2> SUFFICES ASSUME NEW d \in Chans
               PROVE  Accounted(d)' /\ \A v \in Range(heap'.chan[d].buffer) : OneBuffered(v, d)'
    OBVIOUS
  <2>1. CASE d = c
    BY <2>1
  <2>2. CASE d # c
    BY <2>2, QuietSame
  <2>3. QED
    BY <2>1, <2>2
<1>3. QED
  BY <1>1, <1>2, SendInvNext

\* t's send, done in this step.
LEMMA SentNow ==
  ASSUME DataOK, NEW t \in Tasks, NEW me, task' = [task EXCEPT ![t] = me], me.n \in Nat, me.pc \notin UnsentPcs, NEW c
  PROVE  OneSent(<<t, me.n>>)' /\ OneBuffered(<<t, me.n>>, c)'
<1>1. task'[t] = me
  BY DEF DataOK
<1>2. ~Unsent(t)'
  BY <1>1 DEF Unsent, UnsentPcs
<1>3. QED
  BY <1>1, <1>2 DEF OneSent, OneBuffered

\* A value goes into the buffer.
LEMMA BufferStep ==
  ASSUME DataOK, SendInv, NEW t \in Tasks, NEW me, Quiet(t, me), me.n \in 1..MaxOps, me.pc \notin UnsentPcs,
         NEW c \in Chans, Len(heap.chan[c].buffer) < Capacity[c],
         Moved(heap, heap', c, Append(heap.chan[c].buffer, <<t, me.n>>), heap.chan[c].pending,
               heap.chan[c].completed, heap.chan[c].closed),
         sent' = sent \cup {<<t, me.n>>}
  PROVE  SendInv'
<1> DEFINE b == heap.chan[c].buffer
           p == heap.chan[c].pending
           v == <<t, me.n>>
<1>1. OneSent(v)' /\ OneBuffered(v, c)'
  <2>1. me.n \in Nat /\ task' = [task EXCEPT ![t] = me]
    BY ChannelsAssumption DEF Quiet, Moves
  <2>2. QED
    BY <2>1, SentNow
<1>2. v \in Values
  BY ChannelsAssumption
<1>3. /\ heap'.chan[c].buffer = Append(b, v) /\ heap'.chan[c].pending = p
      /\ heap'.chan[c].completed = heap.chan[c].completed /\ heap'.chan[c].closed = heap.chan[c].closed
      /\ \A d \in Chans \ {c} : SameChannel(d)
  BY Zenon DEF Moved, SameChannel
<1>4. b \in Seq(Values) /\ Len(b) \in Nat /\ Capacity[c] \in Nat /\ p \in Seq(PendingSend)
  BY BufferTypes
<1>5. Accounted(c) /\ Filled(heap.chan[c], Capacity[c]) /\ \A w \in Range(b) : w \in Values /\ OneBuffered(w, c)
  BY BufferTypes, SendInvParts, Zenon DEF Accounted
<1>6. p = <<>>
  BY <1>4, <1>5 DEF Filled
<1>7. Filled(heap'.chan[c], Capacity[c])
  <2>1. Len(Append(b, v)) = Len(b) + 1
    BY <1>2, <1>4, AppendProperties
  <2>2. Len(heap'.chan[c].buffer) <= Capacity[c]
    <3>1. Len(heap'.chan[c].buffer) = Len(b) + 1
      BY <1>3, <2>1, Zenon
    <3>2. Len(b) \in Nat /\ Capacity[c] \in Nat
      BY <1>4
    <3>3. QED
      BY ONLY Len(b) < Capacity[c], <3>1, <3>2
  <2>3. heap'.chan[c].pending = <<>>
    BY ONLY <1>3, <1>6
  <2>4. QED
    BY ONLY <2>2, <2>3 DEF Filled
<1>8. Accounted(c)'
  <2> DEFINE f == [i \in DOMAIN p |-> i]
  <2>1. DOMAIN p = {}
    BY <1>6
  <2>2. /\ \A u \in heap'.chan[c].completed : WaitsToSend(u, c)'
        /\ \A u \in Tasks : WaitsToSend(u, c)' /\ ~heap'.chan[c].closed => u \in heap'.chan[c].completed
    <3>1. \A u \in Tasks : WaitsToSend(u, c)' <=> WaitsToSend(u, c)
      BY QuietWaits, QuietIsOn
    <3>2. \A u \in heap.chan[c].completed : WaitsToSend(u, c) /\ u \in Tasks
      BY <1>5, BufferTypes DEF Accounted
    <3>3. \A u \in Tasks : WaitsToSend(u, c) /\ ~heap.chan[c].closed => u \in heap.chan[c].completed
      BY <1>5, <2>1 DEF Accounted
    <3>4. QED
      BY <1>3, <3>1, <3>2, <3>3, Zenon
  <2>3. QED
    BY <1>3, <1>7, <2>1, <2>2, Zenon DEF Accounted
<1>9. \A w \in Range(heap'.chan[c].buffer) : OneBuffered(w, c)'
  <2> SUFFICES ASSUME NEW w \in Range(Append(b, v)) PROVE OneBuffered(w, c)'
    BY <1>3, Zenon
  <2>1. w \in Range(b) \/ w = v
    BY <1>2, <1>4, AppendRange
  <2>2. CASE w \in Range(b)
    BY <1>3, <1>5, <2>2, OneBufferedKept, QuietIsOn, Zenon DEF QuietOn
  <2>3. CASE w = v
    BY <1>1, <2>3
  <2>4. QED
    BY <2>1, <2>2, <2>3
<1>10. QED
  <2>1. \A w \in sent' \ sent : OneSent(w)'
    BY <1>1
  <2>2. QED
    BY <1>3, <1>8, <1>9, <2>1, QuietOthers, QuietIsOn, Zenon

\* What is in Pending after one more entry.
LEMMA AppendPending ==
  ASSUME NEW p \in Seq(PendingSend), NEW e \in PendingSend
  PROVE  /\ Append(p, e) \in Seq(PendingSend) /\ DOMAIN Append(p, e) = DOMAIN p \cup {Len(p) + 1}
         /\ Len(p) + 1 \notin DOMAIN p
         /\ Append(p, e)[Len(p) + 1] = e /\ \A i \in DOMAIN p : Append(p, e)[i] = p[i]
<1>1. Len(p) \in Nat /\ DOMAIN p = 1..Len(p)
  BY LenProperties
<1>2. Append(p, e) \in Seq(PendingSend) /\ Len(Append(p, e)) = Len(p) + 1
      /\ Append(p, e)[Len(p) + 1] = e /\ \A i \in 1..Len(p) : Append(p, e)[i] = p[i]
  BY AppendProperties
<1>3. DOMAIN Append(p, e) = 1..Len(p) + 1
  BY <1>1, <1>2, LenProperties
<1>4. QED
  BY <1>1, <1>2, <1>3

\* A value offered without waiting is in transit.
LEMMA TransitStep ==
  ASSUME DataOK, SendInv, NEW t \in Tasks, NEW me, Quiet(t, me), me.n \in 1..MaxOps, me.pc \notin UnsentPcs,
         NEW c \in Chans, Capacity[c] = 0,
         Moved(heap, heap', c, heap.chan[c].buffer, Append(heap.chan[c].pending, [value |-> <<t, me.n>>, task |-> NoTask]),
               heap.chan[c].completed, heap.chan[c].closed),
         sent' = sent \cup {<<t, me.n>>}
  PROVE  SendInv'
<1> DEFINE p == heap.chan[c].pending
           v == <<t, me.n>>
           e == [value |-> v, task |-> NoTask]
           q == Append(p, e)
<1>1. OneSent(v)' /\ OneBuffered(v, c)'
  <2>1. me.n \in Nat /\ task' = [task EXCEPT ![t] = me]
    BY ChannelsAssumption DEF Quiet, Moves
  <2>2. QED
    BY <2>1, SentNow
<1>2. e \in PendingSend /\ e.task = NoTask /\ e.value = v
  BY ChannelsAssumption DEF PendingSend
<1>3. /\ heap'.chan[c].buffer = heap.chan[c].buffer /\ heap'.chan[c].pending = q
      /\ heap'.chan[c].completed = heap.chan[c].completed /\ heap'.chan[c].closed = heap.chan[c].closed
      /\ \A d \in Chans \ {c} : SameChannel(d)
  BY DEF Moved, SameChannel
<1>4. p \in Seq(PendingSend) /\ v \in sent'
  BY BufferTypes
<1>5. Accounted(c) /\ Filled(heap.chan[c], Capacity[c])
  BY Zenon DEF Accounted, SendInv
<1>6. /\ DOMAIN q = DOMAIN p \cup {Len(p) + 1} /\ Len(p) + 1 \notin DOMAIN p
      /\ q[Len(p) + 1] = e /\ \A i \in DOMAIN p : q[i] = p[i]
  BY <1>2, <1>4, AppendPending
<1>7. Filled(heap'.chan[c], Capacity[c])
  BY <1>3, <1>5 DEF Filled
<1>8. Accounted(c)'
  <2> HIDE DEF q, e
  <2> DEFINE m == Len(p) + 1
  <2> HIDE DEF m
  <2>1. \A u \in Tasks : (WaitsToSend(u, c)' <=> WaitsToSend(u, c)) /\ (WaitsToSend(u, c) => task'[u].n = task[u].n)
    BY QuietWaits, QuietIsOn
  <2>2. \A i \in DOMAIN p : p[i].task \in Tasks \cup {NoTask}
    BY <1>4, PendingFields
  <2>3. \A i \in DOMAIN q : (i \in DOMAIN p /\ q[i] = p[i]) \/ (i = m /\ q[i] = e)
    BY <1>6 DEF m
  <2>4. ASSUME NEW i \in DOMAIN q
        PROVE  IF q[i].task = NoTask THEN q[i].value \in sent'
               ELSE /\ ~heap'.chan[c].closed
                    /\ task'[q[i].task].pc = "send" /\ task'[q[i].task].op[2] = c
                    /\ q[i].task \notin heap'.chan[c].completed
                    /\ q[i].value = <<q[i].task, task'[q[i].task].n>>
    <3>1. CASE i = m /\ q[i] = e
      BY <3>1, <1>2, <1>4
    <3>2. CASE i \in DOMAIN p /\ q[i] = p[i]
      <4> DEFINE u == p[i].task
      <4>1. u \in Tasks \cup {NoTask}
        BY <2>2, <3>2
      <4>2. IF u = NoTask THEN p[i].value \in sent
            ELSE ~heap.chan[c].closed /\ WaitsToSend(u, c) /\ u \notin heap.chan[c].completed /\ p[i].value = ValueOf(u)
        BY <1>5, <3>2 DEF Accounted
      <4>3. CASE u = NoTask
        BY <3>2, <4>2, <4>3
      <4>4. CASE u # NoTask
        <5>1. u \in Tasks /\ WaitsToSend(u, c)
          BY <4>1, <4>2, <4>4
        <5>2. task'[u].pc = "send" /\ task'[u].op[2] = c /\ task'[u].n = task[u].n
          BY <2>1, <5>1, Zenon DEF WaitsToSend
        <5>3. p[i].value = <<u, task[u].n>>
          BY <4>2, <4>4, Zenon DEF ValueOf
        <5> HIDE DEF u
        <5>4. q[i].task = u /\ q[i].value = p[i].value
          BY <3>2 DEF u
        <5>5. QED
          BY <1>3, <4>2, <4>4, <5>2, <5>3, <5>4
      <4>5. QED
        BY <4>3, <4>4
    <3>3. QED
      BY <2>3, <3>1, <3>2
  <2>5. \A i, j \in DOMAIN q : q[i].task = q[j].task /\ q[i].task # NoTask => i = j
    BY <1>2, <1>5, <2>3 DEF Accounted
  <2>6. \A u \in heap'.chan[c].completed : WaitsToSend(u, c)'
    BY <1>3, <1>5, <2>1, BufferTypes DEF Accounted
  <2>7. ASSUME NEW u \in Tasks, WaitsToSend(u, c)', ~heap'.chan[c].closed
        PROVE  u \in heap'.chan[c].completed \/ \E i \in DOMAIN q : q[i].task = u
    <3>1. u \in heap.chan[c].completed \/ \E i \in DOMAIN p : p[i].task = u
      BY <1>3, <1>5, <2>1, <2>7, Zenon DEF Accounted
    <3>2. QED
      BY <1>3, <1>6, <3>1
  <2>8. QED
    BY <1>3, <1>7, <2>4, <2>5, <2>6, <2>7 DEF Accounted, WaitsToSend, ValueOf
<1>9. \A w \in Range(heap'.chan[c].buffer) : OneBuffered(w, c)'
  BY <1>3, BufferTypes, SendInvParts, OneBufferedKept, QuietIsOn DEF QuietOn
<1>10. QED
  <2>1. \A w \in sent' \ sent : OneSent(w)'
    BY <1>1
  <2>2. QED
    BY <1>3, <1>8, <1>9, <2>1, QuietOthers, QuietIsOn

\* A sender that finds no room leaves its value in Pending and waits.
LEMMA OfferStep ==
  ASSUME DataOK, SendInv, NEW t \in Tasks, NEW me, Moves(t, me), NotSending(task[t]), me.n \in 1..MaxOps,
         NEW c \in Chans, me.pc = "send", me.op[2] = c, Full(heap, c), ~heap.chan[c].closed,
         Moved(heap, heap', c, heap.chan[c].buffer, Append(heap.chan[c].pending, [value |-> <<t, me.n>>, task |-> t]),
               heap.chan[c].completed, heap.chan[c].closed),
         sent' = sent
  PROVE  SendInv'
<1> DEFINE p == heap.chan[c].pending
           v == <<t, me.n>>
           e == [value |-> v, task |-> t]
           q == Append(p, e)
<1>1. task'[t] = me /\ \A u \in Tasks : u # t => task'[u] = task[u]
  BY DEF DataOK, Moves
<1>2. e \in PendingSend /\ e.task = t /\ e.value = v /\ t # NoTask
  BY ChannelsAssumption, WaitableAssumption DEF PendingSend
<1>3. /\ heap'.chan[c].buffer = heap.chan[c].buffer /\ heap'.chan[c].pending = q
      /\ heap'.chan[c].completed = heap.chan[c].completed /\ heap'.chan[c].closed = heap.chan[c].closed
      /\ \A d \in Chans \ {c} : SameChannel(d)
  BY DEF Moved, SameChannel
<1>4. p \in Seq(PendingSend) /\ Len(heap.chan[c].buffer) \in Nat /\ Capacity[c] \in Nat
  BY BufferTypes
<1>5. Accounted(c) /\ Filled(heap.chan[c], Capacity[c])
  BY Zenon DEF Accounted, SendInv
<1>6. /\ DOMAIN q = DOMAIN p \cup {Len(p) + 1} /\ Len(p) + 1 \notin DOMAIN p
      /\ q[Len(p) + 1] = e /\ \A i \in DOMAIN p : q[i] = p[i]
  BY <1>2, <1>4, AppendPending
<1>7. Filled(heap'.chan[c], Capacity[c])
  BY <1>3, <1>4, <1>5 DEF Filled, Full
<1>8. ~WaitsToSend(t, c) /\ WaitsToSend(t, c)'
  BY <1>1 DEF NotSending, WaitsToSend
<1>9. Accounted(c)'
  <2> HIDE DEF q, e
  <2> DEFINE m == Len(p) + 1
  <2> HIDE DEF m
  <2>1. \A u \in Tasks : u # t => (WaitsToSend(u, c)' <=> WaitsToSend(u, c)) /\ task'[u].n = task[u].n
    BY <1>1 DEF WaitsToSend
  <2>2. \A i \in DOMAIN p : p[i].task \in Tasks \cup {NoTask} /\ p[i].task # t
    BY <1>2, <1>4, <1>5, <1>8, PendingFields, Zenon DEF Accounted
  <2>3. \A i \in DOMAIN q : (i \in DOMAIN p /\ q[i] = p[i]) \/ (i = m /\ q[i] = e)
    BY <1>6 DEF m
  <2>4. ASSUME NEW i \in DOMAIN q
        PROVE  IF q[i].task = NoTask THEN q[i].value \in sent'
               ELSE /\ ~heap'.chan[c].closed
                    /\ task'[q[i].task].pc = "send" /\ task'[q[i].task].op[2] = c
                    /\ q[i].task \notin heap'.chan[c].completed
                    /\ q[i].value = <<q[i].task, task'[q[i].task].n>>
    <3>1. CASE i = m /\ q[i] = e
      <4>1. t \notin heap.chan[c].completed
        BY <1>5, <1>8 DEF Accounted
      <4>2. QED
        BY <3>1, <4>1, <1>1, <1>2, <1>3
    <3>2. CASE i \in DOMAIN p /\ q[i] = p[i]
      <4> DEFINE u == p[i].task
      <4>1. u \in Tasks \cup {NoTask} /\ u # t
        BY <2>2, <3>2
      <4>2. IF u = NoTask THEN p[i].value \in sent
            ELSE ~heap.chan[c].closed /\ WaitsToSend(u, c) /\ u \notin heap.chan[c].completed /\ p[i].value = ValueOf(u)
        BY <1>5, <3>2, Zenon DEF Accounted
      <4>3. CASE u = NoTask
        BY <3>2, <4>2, <4>3
      <4>4. CASE u # NoTask
        <5>1. u \in Tasks /\ WaitsToSend(u, c)
          BY <4>1, <4>2, <4>4
        <5>2. task'[u].pc = "send" /\ task'[u].op[2] = c /\ task'[u].n = task[u].n
          BY <2>1, <4>1, <5>1, Zenon DEF WaitsToSend
        <5>3. p[i].value = <<u, task[u].n>>
          BY <4>2, <4>4, Zenon DEF ValueOf
        <5> HIDE DEF u
        <5>4. q[i].task = u /\ q[i].value = p[i].value
          BY <3>2 DEF u
        <5>5. QED
          BY <1>3, <4>2, <4>4, <5>2, <5>3, <5>4
      <4>5. QED
        BY <4>3, <4>4
    <3>3. QED
      BY <2>3, <3>1, <3>2
  <2>5. \A i, j \in DOMAIN q : q[i].task = q[j].task /\ q[i].task # NoTask => i = j
    BY <1>2, <1>5, <2>2, <2>3, SMTT(40) DEF Accounted
  <2>6. \A u \in heap'.chan[c].completed : WaitsToSend(u, c)'
    <3>1. \A u \in heap.chan[c].completed : WaitsToSend(u, c) /\ u \in Tasks /\ u # t
      BY <1>5, <1>8, BufferTypes DEF Accounted
    <3>2. QED
      BY <3>1, <2>1, <1>3
  <2>7. \A u \in Tasks : WaitsToSend(u, c)' /\ ~heap'.chan[c].closed =>
           u \in heap'.chan[c].completed \/ \E i \in DOMAIN q : q[i].task = u
    <3> SUFFICES ASSUME NEW u \in Tasks, WaitsToSend(u, c)', ~heap'.chan[c].closed
                 PROVE  u \in heap'.chan[c].completed \/ \E i \in DOMAIN q : q[i].task = u
      OBVIOUS
    <3>1. CASE u = t
      BY <1>2, <1>6, <3>1
    <3>2. CASE u # t
      <4>1. u \in heap.chan[c].completed \/ \E i \in DOMAIN p : p[i].task = u
        BY <1>3, <1>5, <2>1, <3>2, Zenon DEF Accounted
      <4>2. QED
        BY <1>3, <1>6, <4>1
    <3>3. QED
      BY <3>1, <3>2
  <2>8. QED
    BY <1>3, <1>7, <2>4, <2>5, <2>6, <2>7 DEF Accounted, WaitsToSend, ValueOf
<1>10. \A w \in Range(heap'.chan[c].buffer) : OneBuffered(w, c)'
  BY <1>3, <1>8, BufferTypes, SendInvParts, OneBufferedKept
<1>11. QED
  <2>1. \A d \in Chans \ {c} : QuietOn(t, me, d)
    BY DEF QuietOn, NotSending, WaitsToSend
  <2>2. QED
    BY <1>3, <1>9, <1>10, <2>1, QuietOthers

\* The tail of a list of pending sends.
LEMMA TailFacts ==
  ASSUME NEW p \in Seq(PendingSend), p # <<>>
  PROVE  /\ Tail(p) \in Seq(PendingSend) /\ Head(p) = p[1] /\ 1 \in DOMAIN p /\ Len(p) \in Nat /\ Len(Tail(p)) = Len(p) - 1
         /\ DOMAIN p = 1..Len(p) /\ DOMAIN Tail(p) = 1..Len(p) - 1
         /\ \A n \in DOMAIN Tail(p) : n + 1 \in DOMAIN p /\ Tail(p)[n] = p[n + 1]
         /\ \A i \in DOMAIN p : i # 1 => i - 1 \in DOMAIN Tail(p) /\ Tail(p)[i - 1] = p[i]
<1>1. Len(p) \in Nat /\ Len(p) # 0 /\ DOMAIN p = 1..Len(p)
  BY LenProperties, EmptySeq
<1>2. /\ Head(p) = p[1] /\ Tail(p) \in Seq(PendingSend) /\ Len(Tail(p)) = Len(p) - 1
      /\ \A i \in 1..Len(Tail(p)) : Tail(p)[i] = p[i + 1]
  BY HeadTailProperties
<1>3. DOMAIN Tail(p) = 1..Len(p) - 1
  BY <1>2, LenProperties
<1>4. \A n \in DOMAIN Tail(p) : n + 1 \in DOMAIN p /\ Tail(p)[n] = p[n + 1]
  BY <1>1, <1>2, <1>3
<1>5. ASSUME NEW i \in DOMAIN p, i # 1 PROVE i - 1 \in DOMAIN Tail(p) /\ Tail(p)[i - 1] = p[i]
  <2>1. i - 1 \in 1..Len(p) - 1 /\ (i - 1) + 1 = i
    BY <1>1, <1>5
  <2>2. QED
    BY <2>1, <1>3, <1>4
<1>6. QED
  BY <1>1, <1>2, <1>3, <1>4, <1>5

\* The first pending send moves up: a sender is done.
LEMMA MovesUp ==
  ASSUME DataOK, NEW c \in Chans, Accounted(c), NEW t \in Tasks, NEW me, QuietOn(t, me, c), sent \subseteq sent',
         Filled(heap'.chan[c], Capacity[c]), heap.chan[c].pending # <<>>,
         heap'.chan[c].pending = Tail(heap.chan[c].pending), heap'.chan[c].closed = heap.chan[c].closed,
         heap'.chan[c].completed = heap.chan[c].completed \cup ({Head(heap.chan[c].pending).task} \ {NoTask})
  PROVE  Accounted(c)'
<1> DEFINE p == heap.chan[c].pending
           h == p[1].task
           f == [n \in DOMAIN Tail(p) |-> n + 1]
<1>1. p \in Seq(PendingSend) /\ heap.chan[c].completed \in SUBSET Tasks
  BY BufferTypes
<1>2. /\ Tail(p) \in Seq(PendingSend) /\ Head(p) = p[1] /\ 1 \in DOMAIN p /\ Len(p) \in Nat
      /\ DOMAIN p = 1..Len(p) /\ DOMAIN Tail(p) = 1..Len(p) - 1
      /\ \A n \in DOMAIN Tail(p) : n + 1 \in DOMAIN p /\ Tail(p)[n] = p[n + 1]
      /\ \A i \in DOMAIN p : i # 1 => i - 1 \in DOMAIN Tail(p) /\ Tail(p)[i - 1] = p[i]
  BY <1>1, TailFacts
<1>3. \A u \in Tasks : (WaitsToSend(u, c)' <=> WaitsToSend(u, c)) /\ (WaitsToSend(u, c) => task'[u].n = task[u].n)
  BY QuietWaits
<1>4. \A i \in DOMAIN p : p[i].task \in Tasks \cup {NoTask}
  BY <1>1, PendingFields
<1>5. heap'.chan[c].completed = heap.chan[c].completed \cup ({h} \ {NoTask}) /\ h \in Tasks \cup {NoTask}
  BY <1>2, <1>4
<1>6. \A i \in DOMAIN p : p[i].task # NoTask =>
         ~heap.chan[c].closed /\ WaitsToSend(p[i].task, c) /\ p[i].task \notin heap.chan[c].completed
  BY DEF Accounted
<1>7. \A i, j \in DOMAIN p : p[i].task = p[j].task /\ p[i].task # NoTask => i = j
  BY DEF Accounted
<1>8. /\ f \in [DOMAIN Tail(p) -> DOMAIN p]
      /\ \A m, n \in DOMAIN Tail(p) : f[m] = f[n] => m = n
      /\ \A n \in DOMAIN Tail(p) : Tail(p)[n] = p[f[n]]
  <2>1. \A m, n \in DOMAIN Tail(p) : m + 1 = n + 1 => m = n
    BY <1>2
  <2>2. QED
    BY <1>2, <2>1
<1>9. ASSUME NEW n \in DOMAIN Tail(p), NEW u, u = Tail(p)[n].task, u # NoTask
      PROVE  ~heap'.chan[c].closed /\ WaitsToSend(u, c)' /\ u \notin heap'.chan[c].completed /\ task'[u].n = task[u].n
  <2>1. n + 1 \in DOMAIN p /\ Tail(p)[n] = p[n + 1] /\ n + 1 # 1
    BY <1>2
  <2>2. ~heap.chan[c].closed /\ WaitsToSend(u, c) /\ u \notin heap.chan[c].completed /\ u \in Tasks
    BY <1>4, <1>6, <1>9, <2>1
  <2>3. u # h
    BY <1>2, <1>7, <1>9, <2>1
  <2>4. QED
    BY <1>3, <1>5, <2>2, <2>3
<1>10. \A u \in heap'.chan[c].completed : WaitsToSend(u, c)'
  <2>1. \A u \in heap.chan[c].completed : WaitsToSend(u, c) /\ u \in Tasks
    BY <1>1 DEF Accounted
  <2>2. h # NoTask => WaitsToSend(h, c)
    BY <1>2, <1>6
  <2>3. QED
    BY <1>3, <1>5, <2>1, <2>2
<1>11. ASSUME NEW u \in Tasks, WaitsToSend(u, c)', ~heap'.chan[c].closed
       PROVE  u \in heap'.chan[c].completed \/ \E i \in DOMAIN Tail(p) : Tail(p)[i].task = u
  <2>1. u \in heap.chan[c].completed \/ \E i \in DOMAIN p : p[i].task = u
    BY <1>3, <1>11 DEF Accounted
  <2>2. CASE u \in heap.chan[c].completed
    BY <1>5, <2>2
  <2>3. CASE \E i \in DOMAIN p : p[i].task = u
    <3>1. PICK i \in DOMAIN p : p[i].task = u
      BY <2>3
    <3>2. u # NoTask
      BY WaitableAssumption
    <3>3. CASE i = 1
      BY <1>5, <3>1, <3>2, <3>3
    <3>4. CASE i # 1
      BY <1>2, <3>1, <3>4
    <3>5. QED
      BY <3>3, <3>4
  <2>4. QED
    BY <2>1, <2>2, <2>3
<1> HIDE DEF f
<1>12. /\ f \in [DOMAIN heap'.chan[c].pending -> DOMAIN heap.chan[c].pending]
       /\ \A m, n \in DOMAIN heap'.chan[c].pending : f[m] = f[n] => m = n
       /\ \A n \in DOMAIN heap'.chan[c].pending : heap'.chan[c].pending[n] = heap.chan[c].pending[f[n]]
  BY <1>8
<1>13. \A n \in DOMAIN heap'.chan[c].pending : \A u :
          u = heap'.chan[c].pending[n].task /\ u # NoTask =>
              /\ ~heap'.chan[c].closed /\ WaitsToSend(u, c)' /\ u \notin heap'.chan[c].completed
              /\ task'[u].n = task[u].n
  BY <1>9, Zenon
<1>14. \A u \in Tasks : WaitsToSend(u, c)' /\ ~heap'.chan[c].closed =>
           u \in heap'.chan[c].completed \/ \E i \in DOMAIN heap'.chan[c].pending : heap'.chan[c].pending[i].task = u
  BY <1>11
<1> HIDE DEF p
<1>15. QED
  BY <1>10, <1>12, <1>13, <1>14, AccountedSub, Zenon

\* Nothing but the buffer changes, and nobody is pending.
LEMMA NonePending ==
  ASSUME DataOK, NEW c \in Chans, Accounted(c), NEW t \in Tasks, NEW me, QuietOn(t, me, c), sent \subseteq sent',
         Filled(heap'.chan[c], Capacity[c]), heap.chan[c].pending = <<>>,
         heap'.chan[c].pending = heap.chan[c].pending, heap'.chan[c].closed = heap.chan[c].closed,
         heap'.chan[c].completed = heap.chan[c].completed
  PROVE  Accounted(c)'
<1>1. DOMAIN heap.chan[c].pending = {}
  OBVIOUS
<1>2. \A u \in Tasks : WaitsToSend(u, c)' <=> WaitsToSend(u, c)
  BY QuietWaits
<1>3. \A u \in heap.chan[c].completed : WaitsToSend(u, c) /\ u \in Tasks
  BY BufferTypes DEF Accounted
<1>4. \A u \in Tasks : WaitsToSend(u, c) /\ ~heap.chan[c].closed => u \in heap.chan[c].completed
  BY <1>1 DEF Accounted
<1>5. \A u \in heap'.chan[c].completed : WaitsToSend(u, c)'
  BY <1>2, <1>3
<1>6. \A u \in Tasks : WaitsToSend(u, c)' /\ ~heap'.chan[c].closed => u \in heap'.chan[c].completed
  BY <1>2, <1>4
<1>7. QED
  BY <1>1, <1>5, <1>6 DEF Accounted

\* What taking a value from c moves.
LEMMA TakeMoves ==
  ASSUME SendInv, NEW c \in Chans,
         NEW s \in Heap, Listed(s), SameValues(heap, s), HasValue(s, c), SameValues(TakeValue(s, c), heap')
  PROVE  LET b == heap.chan[c].buffer
             p == heap.chan[c].pending
             co == heap.chan[c].completed
             cl == heap.chan[c].closed
             done == co \cup ({Head(p).task} \ {NoTask})
         IN  /\ p = <<>> => b # <<>> /\ Moved(heap, heap', c, Tail(b), p, co, cl)
             /\ p # <<>> /\ Capacity[c] = 0 => b = <<>> /\ Moved(heap, heap', c, b, Tail(p), done, cl)
             /\ p # <<>> /\ Capacity[c] # 0 => b # <<>> /\ Moved(heap, heap', c, Append(Tail(b), Head(p).value), Tail(p), done, cl)
<1> DEFINE b == heap.chan[c].buffer
           p == heap.chan[c].pending
           co == heap.chan[c].completed
           cl == heap.chan[c].closed
           done == co \cup ({Head(p).task} \ {NoTask})
           r == TakeValue(s, c)
<1>1. s.chan[c].buffer = b /\ s.chan[c].pending = p /\ s.chan[c].completed = co /\ s.chan[c].closed = cl
  BY DEF SameValues
<1>2. Filled(s.chan[c], Capacity[c])
  BY <1>1 DEF Accounted, SendInv, Filled
<1>3. /\ p = <<>> => b # <<>> /\ Effect(s, r, c, Tail(b), p, co, cl)
      /\ p # <<>> /\ Capacity[c] = 0 => b = <<>> /\ Effect(s, r, c, b, Tail(p), done, cl)
      /\ p # <<>> /\ Capacity[c] # 0 => b # <<>> /\ Effect(s, r, c, Append(Tail(b), Head(p).value), Tail(p), done, cl)
  BY <1>1, <1>2, TakeFacts
<1>4. /\ p = <<>> => b # <<>> /\ Moved(heap, heap', c, Tail(b), p, co, cl)
      /\ p # <<>> /\ Capacity[c] = 0 => b = <<>> /\ Moved(heap, heap', c, b, Tail(p), done, cl)
      /\ p # <<>> /\ Capacity[c] # 0 => b # <<>> /\ Moved(heap, heap', c, Append(Tail(b), Head(p).value), Tail(p), done, cl)
  <2> HIDE DEF r, b, p, co, cl, done
  <2>1. SameValues(r, heap')
    BY DEF r
  <2>2. QED
    BY <1>3, <2>1, EffectMoved, SameMoved
<1>5. QED
  BY <1>4

\* A value is received.
LEMMA TakeStep ==
  ASSUME DataOK, SendInv, NEW t \in Tasks, NEW me, Quiet(t, me), NEW c \in Chans,
         NEW s \in Heap, Listed(s), SameValues(heap, s), HasValue(s, c), SameValues(TakeValue(s, c), heap'), sent' = sent
  PROVE  SendInv'
<1> DEFINE b == heap.chan[c].buffer
           p == heap.chan[c].pending
           co == heap.chan[c].completed
           cl == heap.chan[c].closed
           done == co \cup ({Head(p).task} \ {NoTask})
<1>1. Accounted(c) /\ Filled(heap.chan[c], Capacity[c]) /\ QuietOn(t, me, c)
  BY QuietIsOn DEF Accounted, SendInv
<1>2. /\ b \in Seq(Values) /\ Range(b) \subseteq Values /\ p \in Seq(PendingSend) /\ co \in SUBSET Tasks
      /\ Len(b) \in Nat /\ Capacity[c] \in Nat
  BY BufferTypes
<1>3. /\ p = <<>> => b # <<>> /\ Moved(heap, heap', c, Tail(b), p, co, cl)
      /\ p # <<>> /\ Capacity[c] = 0 => b = <<>> /\ Moved(heap, heap', c, b, Tail(p), done, cl)
      /\ p # <<>> /\ Capacity[c] # 0 => b # <<>> /\ Moved(heap, heap', c, Append(Tail(b), Head(p).value), Tail(p), done, cl)
  BY TakeMoves
<1>4. \A w \in Range(b) : w \in Values /\ OneBuffered(w, c)
  BY <1>2, SendInvParts
<1>5. ASSUME co \subseteq heap'.chan[c].completed PROVE \A w \in Range(b) : OneBuffered(w, c)'
  BY <1>1, <1>4, <1>5, OneBufferedKept DEF QuietOn
<1>6. ASSUME b # <<>> PROVE Tail(b) \in Seq(Values) /\ Range(Tail(b)) \subseteq Range(b) /\ Len(Tail(b)) = Len(b) - 1
  <2>1. Tail(b) \in Seq(Values) /\ Len(Tail(b)) = Len(b) - 1 /\ \A i \in 1..Len(Tail(b)) : Tail(b)[i] = b[i + 1]
    BY <1>2, <1>6, HeadTailProperties
  <2>2. DOMAIN b = 1..Len(b) /\ DOMAIN Tail(b) = 1..Len(b) - 1
    BY <2>1, <1>2, LenProperties
  <2>3. \A i \in DOMAIN Tail(b) : i + 1 \in DOMAIN b /\ Tail(b)[i] = b[i + 1]
    BY <2>1, <2>2, <1>2
  <2>4. QED
    BY <2>1, <2>3 DEF Range
<1>7. ASSUME Moved(heap, heap', c, heap'.chan[c].buffer, heap'.chan[c].pending, heap'.chan[c].completed, heap'.chan[c].closed),
             Accounted(c)', \A w \in Range(heap'.chan[c].buffer) : OneBuffered(w, c)'
      PROVE  SendInv'
  <2>1. \A d \in Chans \ {c} : SameChannel(d) /\ QuietOn(t, me, d)
    BY <1>7, QuietIsOn DEF Moved, SameChannel
  <2>2. QED
    BY <1>7, <2>1, QuietOthers, QuietIsOn
<1>8. CASE p = <<>>
  <2>1. /\ heap'.chan[c].buffer = Tail(b) /\ heap'.chan[c].pending = p /\ heap'.chan[c].completed = co
        /\ heap'.chan[c].closed = cl /\ b # <<>>
    BY <1>3, <1>8 DEF Moved
  <2>2. Filled(heap'.chan[c], Capacity[c])
    BY <1>1, <1>2, <1>6, <1>8, <2>1 DEF Filled
  <2>3. Accounted(c)'
    BY <1>1, <1>8, <2>1, <2>2, NonePending
  <2>4. \A w \in Range(heap'.chan[c].buffer) : OneBuffered(w, c)'
    BY <1>5, <1>6, <2>1
  <2>5. QED
    BY <1>3, <1>7, <1>8, <2>1, <2>3, <2>4
<1>9. CASE p # <<>>
  <2>1. heap'.chan[c].pending = Tail(p) /\ heap'.chan[c].completed = done /\ heap'.chan[c].closed = cl
    BY <1>3, <1>9 DEF Moved
  <2>2. Head(p) = p[1] /\ 1 \in DOMAIN p /\ Head(p).task \in Tasks \cup {NoTask} /\ Head(p).value \in Values
    BY <1>2, <1>9, TailFacts, PendingFields
  <2>3. CASE Capacity[c] = 0
    <3>1. heap'.chan[c].buffer = b /\ b = <<>>
      BY <1>3, <1>9, <2>3 DEF Moved
    <3>2. Filled(heap'.chan[c], Capacity[c])
      BY <1>1, <2>3, <3>1 DEF Filled
    <3>3. Accounted(c)'
      BY <1>1, <1>9, <2>1, <3>2, MovesUp
    <3>4. \A w \in Range(heap'.chan[c].buffer) : OneBuffered(w, c)'
      BY <1>5, <2>1, <3>1
    <3>5. QED
      BY <1>3, <1>7, <1>9, <2>1, <2>3, <3>1, <3>3, <3>4
  <2>4. CASE Capacity[c] # 0
    <3>0. PICK v \in Values, u \in Tasks \cup {NoTask} : v = Head(p).value /\ u = Head(p).task
      BY <2>2
    <3>1. heap'.chan[c].buffer = Append(Tail(b), v) /\ b # <<>>
      BY <1>3, <1>9, <2>4, <3>0 DEF Moved
    <3>2. Filled(heap'.chan[c], Capacity[c])
      <4>1. Len(Append(Tail(b), v)) = (Len(b) - 1) + 1 /\ Len(b) = Capacity[c]
        BY <1>1, <1>2, <1>6, <1>9, <2>4, <3>1, AppendProperties DEF Filled
      <4>2. Len(heap'.chan[c].buffer) = Capacity[c]
        BY <1>2, <3>1, <4>1
      <4>3. QED
        BY <1>2, <4>2 DEF Filled
    <3>3. Accounted(c)'
      BY <1>1, <1>9, <2>1, <3>2, MovesUp
    <3>4. OneBuffered(v, c)'
      <4>1. CASE u = NoTask
        <5>1. v \in sent
          BY <1>1, <2>2, <3>0, <4>1, SMTT(40) DEF Accounted
        <5>2. OneSent(v)'
          BY <5>1, QuietSent, QuietIsOn
        <5>3. QED
          BY <5>2 DEF OneSent, OneBuffered
      <4>2. CASE u # NoTask
        <5>1. u \in Tasks /\ WaitsToSend(u, c) /\ v = <<u, task[u].n>>
          BY <1>1, <2>2, <3>0, <4>2, SMTT(40) DEF Accounted, ValueOf
        <5>2. WaitsToSend(u, c)' /\ task'[u].n = task[u].n
          BY <1>1, <5>1, QuietWaits
        <5>3. u \in heap'.chan[c].completed
          BY <2>1, <3>0, <4>2
        <5>4. v[1] = u /\ v[2] = task'[u].n
          BY <5>1, <5>2
        <5>5. QED
          BY <5>2, <5>3, <5>4 DEF OneBuffered
      <4>3. QED
        BY <4>1, <4>2
    <3>5. \A w \in Range(heap'.chan[c].buffer) : OneBuffered(w, c)'
      <4>0. PICK a : a = Tail(b) /\ a \in Seq(Values)
        BY <1>6, <3>1
      <4>1. Range(Append(Tail(b), v)) = Range(Tail(b)) \cup {v}
        <5>1. v \in Values
          BY <3>0
        <5>2. a \in Seq(Values)
          BY <4>0
        <5>3. Range(Append(a, v)) = Range(a) \cup {v}
          BY ONLY <5>1, <5>2, AppendRange
        <5>4. QED
          BY <4>0, <5>3
      <4>2. co \subseteq heap'.chan[c].completed
        BY <2>1
      <4>3. QED
        BY <1>5, <1>6, <3>1, <3>4, <4>1, <4>2
    <3>6. Moved(heap, heap', c, heap'.chan[c].buffer, heap'.chan[c].pending, heap'.chan[c].completed, heap'.chan[c].closed)
      BY <1>3, <1>9, <2>4 DEF Moved
    <3>7. QED
      BY <1>7, <3>3, <3>5, <3>6
  <2>5. QED
    BY <2>3, <2>4
<1>10. QED
  BY <1>8, <1>9

\* Where what is kept comes from.
LEMMA KeepPlaces ==
  ASSUME NEW S, NEW list \in Seq(S), NEW kept
  PROVE  \E f \in [DOMAIN Keep(list, kept) -> DOMAIN list] :
           /\ \A m, n \in DOMAIN Keep(list, kept) : f[m] = f[n] => m = n
           /\ \A n \in DOMAIN Keep(list, kept) : Keep(list, kept)[n] = list[f[n]] /\ list[f[n]] \in kept
           /\ \A i \in DOMAIN list : list[i] \in kept => \E n \in DOMAIN Keep(list, kept) : f[n] = i
<1> DEFINE P == Places(list, kept)
           f == Ascending(P)
           N == Cardinality(P)
<1>1. /\ P \in SUBSET (1..Len(list)) /\ N \in 0..Len(list) /\ IsAscending(f, P)
      /\ Keep(list, kept) = [n \in 1..N |-> list[f[n]]]
  BY KeepOrder
<1>2. DOMAIN list = 1..Len(list) /\ Len(list) \in Nat
  BY LenProperties
<1>3. \A i \in DOMAIN list : i \in P <=> list[i] \in kept
  BY <1>2 DEF Places
<1> HIDE DEF P
<1>4. f \in [1..N -> P] /\ (\A m, n \in 1..N : m < n => f[m] < f[n]) /\ \A i \in P : \E n \in 1..N : f[n] = i
  BY <1>1 DEF IsAscending
<1> HIDE DEF f, N
<1>5. ASSUME NEW n \in 1..N PROVE f[n] \in P /\ f[n] \in DOMAIN list /\ f[n] \in Nat
  <2>1. f[n] \in P
    BY <1>4
  <2>2. f[n] \in 1..Len(list)
    BY <1>1, <2>1
  <2>3. QED
    BY <1>2, <2>1, <2>2
<1>6. \A m, n \in 1..N : f[m] = f[n] => m = n
  <2> SUFFICES ASSUME NEW m \in 1..N, NEW n \in 1..N, f[m] = f[n] PROVE m = n
    OBVIOUS
  <2>1. m \in Int /\ n \in Int /\ f[m] \in Nat
    BY <1>1, <1>5
  <2>2. ~(m < n) /\ ~(n < m)
    BY <1>4, <2>1
  <2>3. QED
    BY <2>1, <2>2
<1>7. DOMAIN Keep(list, kept) = 1..N
  BY <1>1
<1>8. f \in [1..N -> DOMAIN list]
  BY <1>4, <1>5
<1>9. /\ \A n \in 1..N : Keep(list, kept)[n] = list[f[n]] /\ list[f[n]] \in kept
      /\ \A i \in DOMAIN list : list[i] \in kept => \E n \in 1..N : f[n] = i
  BY <1>1, <1>3, <1>4, <1>5
<1>10. PICK g : g = f
  OBVIOUS
<1>11. /\ g \in [DOMAIN Keep(list, kept) -> DOMAIN list]
       /\ \A m, n \in DOMAIN Keep(list, kept) : g[m] = g[n] => m = n
  BY <1>6, <1>7, <1>8, <1>10
<1>12. /\ \A n \in DOMAIN Keep(list, kept) : Keep(list, kept)[n] = list[g[n]] /\ list[g[n]] \in kept
       /\ \A i \in DOMAIN list : list[i] \in kept => \E n \in DOMAIN Keep(list, kept) : g[n] = i
  BY <1>7, <1>9, <1>10
<1>13. QED
  BY ONLY <1>11, <1>12

\* Closing drops the values of the senders that wait.
LEMMA CloseStep ==
  ASSUME DataOK, SendInv, NEW t \in Tasks, NEW me, Quiet(t, me), NEW c \in Chans,
         Moved(heap, heap', c, heap.chan[c].buffer, Keep(heap.chan[c].pending, PendingNotOf(Tasks)),
               heap.chan[c].completed, TRUE),
         sent' = sent
  PROVE  SendInv'
<1> DEFINE p == heap.chan[c].pending
           q == Keep(p, PendingNotOf(Tasks))
<1>1. /\ heap'.chan[c].buffer = heap.chan[c].buffer /\ heap'.chan[c].pending = q
      /\ heap'.chan[c].completed = heap.chan[c].completed /\ heap'.chan[c].closed
      /\ \A d \in Chans \ {c} : SameChannel(d)
  BY DEF Moved, SameChannel
<1>2. Accounted(c) /\ Filled(heap.chan[c], Capacity[c]) /\ QuietOn(t, me, c)
  BY QuietIsOn DEF Accounted, SendInv
<1>3. p \in Seq(PendingSend) /\ heap.chan[c].completed \in SUBSET Tasks
  BY BufferTypes
<1>4. PICK f \in [DOMAIN q -> DOMAIN p] :
           /\ \A m, n \in DOMAIN q : f[m] = f[n] => m = n
           /\ \A n \in DOMAIN q : q[n] = p[f[n]] /\ p[f[n]] \in PendingNotOf(Tasks)
  BY <1>3, KeepPlaces
<1>5. \A n \in DOMAIN q : q[n].task = NoTask
  BY <1>4 DEF PendingNotOf, PendingSend
<1>6. Filled(heap'.chan[c], Capacity[c])
  <2>1. q # <<>> => p # <<>>
    <3>1. Len(q) <= Len(p) /\ q \in Seq(PendingSend)
      BY <1>3, KeepFacts
    <3>2. Len(q) \in Nat /\ Len(p) \in Nat /\ (Len(q) = 0 <=> q = <<>>) /\ (Len(p) = 0 <=> p = <<>>)
      BY <1>3, <3>1, LenProperties, EmptySeq
    <3>3. QED
      BY <3>1, <3>2
  <2>2. QED
    BY <1>1, <1>2, <2>1 DEF Filled
<1>7. \A u \in heap'.chan[c].completed : WaitsToSend(u, c)'
  BY <1>1, <1>2, <1>3, QuietWaits DEF Accounted
<1>8. Accounted(c)'
  <2> HIDE DEF q
  <2>1. /\ f \in [DOMAIN heap'.chan[c].pending -> DOMAIN heap.chan[c].pending]
        /\ \A m, n \in DOMAIN heap'.chan[c].pending : f[m] = f[n] => m = n
        /\ \A n \in DOMAIN heap'.chan[c].pending : heap'.chan[c].pending[n] = heap.chan[c].pending[f[n]]
        /\ \A n \in DOMAIN heap'.chan[c].pending : heap'.chan[c].pending[n].task = NoTask
    BY <1>1, <1>4, <1>5
  <2> HIDE DEF p
  <2>2. QED
    BY <1>1, <1>2, <1>6, <1>7, <2>1, AccountedSub
<1>9. \A w \in Range(heap'.chan[c].buffer) : OneBuffered(w, c)'
  BY <1>1, <1>2, BufferTypes, SendInvParts, OneBufferedKept DEF QuietOn
<1>10. QED
  BY <1>1, <1>8, <1>9, QuietOthers, QuietIsOn

\* A step of t that ends its wait to send on c.
LEMMA EndsWait ==
  ASSUME DataOK, SendInv, NEW t \in Tasks, NEW me, Moves(t, me), NEW c \in Chans, WaitsToSend(t, c),
         me.pc \notin UnsentPcs, me.n = task[t].n, SameChannel(c) \/ heap'.chan[c].completed = heap.chan[c].completed \ {t}
  PROVE  /\ ~WaitsToSend(t, c)' /\ \A u \in Tasks \ {t} : (WaitsToSend(u, c)' <=> WaitsToSend(u, c)) /\ task'[u].n = task[u].n
         /\ \A d \in Chans \ {c} : QuietOn(t, me, d)
         /\ \A v \in Range(heap.chan[c].buffer) : OneBuffered(v, c)'
<1>1. task'[t] = me /\ \A u \in Tasks : u # t => task'[u] = task[u]
  BY DEF DataOK, Moves
<1>2. me.pc # "send"
  BY DEF UnsentPcs
<1>3. ASSUME NEW v \in Range(heap.chan[c].buffer) PROVE OneBuffered(v, c)'
  <2>1. v \in Values /\ OneBuffered(v, c) /\ v[1] \in Tasks /\ v[2] \in Nat
    BY BufferTypes, SendInvParts, ValueFields
  <2>2. CASE v[1] = t
    BY <1>1, <2>1, <2>2 DEF OneBuffered, Unsent, UnsentPcs
  <2>3. CASE v[1] # t
    <3>1. v[1] \in heap.chan[c].completed => v[1] \in heap'.chan[c].completed
      BY <2>3 DEF SameChannel
    <3>2. QED
      BY <1>1, <2>1, <2>3, <3>1 DEF OneBuffered, Unsent, WaitsToSend
  <2>4. QED
    BY <2>2, <2>3
<1>4. \A d \in Chans \ {c} : QuietOn(t, me, d)
  BY <1>2 DEF QuietOn, WaitsToSend
<1>5. QED
  BY <1>1, <1>2, <1>3, <1>4 DEF WaitsToSend

\* The send was completed and returns.
LEMMA ReturnStep ==
  ASSUME DataOK, SendInv, NEW t \in Tasks, NEW me, Moves(t, me), NEW c \in Chans, WaitsToSend(t, c),
         me.pc \notin UnsentPcs, me.n = task[t].n, t \in heap.chan[c].completed,
         Moved(heap, heap', c, heap.chan[c].buffer, heap.chan[c].pending, heap.chan[c].completed \ {t}, heap.chan[c].closed),
         sent' = sent \cup {<<t, me.n>>}
  PROVE  SendInv'
<1> DEFINE p == heap.chan[c].pending
           f == [i \in DOMAIN p |-> i]
<1>1. /\ heap'.chan[c].buffer = heap.chan[c].buffer /\ heap'.chan[c].pending = p
      /\ heap'.chan[c].completed = heap.chan[c].completed \ {t} /\ heap'.chan[c].closed = heap.chan[c].closed
      /\ \A d \in Chans \ {c} : SameChannel(d)
  BY DEF Moved, SameChannel
<1>2. /\ ~WaitsToSend(t, c)' /\ \A u \in Tasks \ {t} : (WaitsToSend(u, c)' <=> WaitsToSend(u, c)) /\ task'[u].n = task[u].n
      /\ \A d \in Chans \ {c} : QuietOn(t, me, d)
      /\ \A v \in Range(heap.chan[c].buffer) : OneBuffered(v, c)'
  BY <1>1, EndsWait
<1>3. Accounted(c) /\ Filled(heap'.chan[c], Capacity[c])
  BY <1>1, Zenon DEF Accounted, SendInv, Filled
<1>4. p \in Seq(PendingSend) /\ heap.chan[c].completed \in SUBSET Tasks
  BY BufferTypes
<1>5. \A i \in DOMAIN p : p[i].task \in Tasks \cup {NoTask}
  BY <1>4, PendingFields
<1>6. ASSUME NEW i \in DOMAIN p, NEW u, u = p[i].task, u # NoTask
      PROVE  ~heap'.chan[c].closed /\ WaitsToSend(u, c)' /\ u \notin heap'.chan[c].completed /\ task'[u].n = task[u].n
  <2>1. u \in Tasks /\ ~heap.chan[c].closed /\ WaitsToSend(u, c) /\ u \notin heap.chan[c].completed
    BY <1>3, <1>5, <1>6 DEF Accounted
  <2>2. QED
    BY <1>1, <1>2, <2>1
<1>7. /\ \A u \in heap'.chan[c].completed : WaitsToSend(u, c)'
      /\ \A u \in Tasks : WaitsToSend(u, c)' /\ ~heap'.chan[c].closed =>
             u \in heap'.chan[c].completed \/ \E i \in DOMAIN p : p[i].task = u
  BY <1>1, <1>2, <1>3, <1>4 DEF Accounted
<1>8. Accounted(c)'
  <2>1. /\ f \in [DOMAIN heap'.chan[c].pending -> DOMAIN heap.chan[c].pending]
        /\ \A m, n \in DOMAIN heap'.chan[c].pending : f[m] = f[n] => m = n
        /\ \A n \in DOMAIN heap'.chan[c].pending : heap'.chan[c].pending[n] = heap.chan[c].pending[f[n]]
    BY <1>1
  <2>2. \A n \in DOMAIN heap'.chan[c].pending : \A u :
            u = heap'.chan[c].pending[n].task /\ u # NoTask =>
              /\ ~heap'.chan[c].closed /\ WaitsToSend(u, c)' /\ u \notin heap'.chan[c].completed
              /\ task'[u].n = task[u].n
    BY <1>1, <1>6
  <2>3. \A u \in Tasks : WaitsToSend(u, c)' /\ ~heap'.chan[c].closed =>
           u \in heap'.chan[c].completed \/ \E i \in DOMAIN heap'.chan[c].pending : heap'.chan[c].pending[i].task = u
    BY <1>1, <1>7
  <2> HIDE DEF f, p
  <2>4. QED
    BY <1>3, <1>7, <2>1, <2>2, <2>3, AccountedSub
<1>9. \A w \in Range(heap'.chan[c].buffer) : OneBuffered(w, c)'
  BY <1>1, <1>2
<1>10. \A w \in sent' \ sent : OneSent(w)'
  <2>1. me.n \in Nat /\ task' = [task EXCEPT ![t] = me]
    BY TaskFields DEF Moves
  <2>2. OneSent(<<t, me.n>>)'
    BY <2>1, SentNow
  <2>3. QED
    BY <2>2
<1>11. QED
  BY <1>1, <1>2, <1>8, <1>9, <1>10, QuietOthers

\* The channel was closed: the send panics.
LEMMA RefuseStep ==
  ASSUME DataOK, SendInv, NEW t \in Tasks, NEW me, Moves(t, me), NEW c \in Chans, WaitsToSend(t, c),
         me.pc \notin UnsentPcs, me.n = task[t].n, t \notin heap.chan[c].completed, heap.chan[c].closed,
         heap' = heap, sent' = sent
  PROVE  SendInv'
<1>1. \A d \in Chans : SameChannel(d)
  BY DEF SameChannel
<1>2. /\ ~WaitsToSend(t, c)' /\ \A u \in Tasks \ {t} : (WaitsToSend(u, c)' <=> WaitsToSend(u, c)) /\ task'[u].n = task[u].n
      /\ \A d \in Chans \ {c} : QuietOn(t, me, d)
      /\ \A v \in Range(heap.chan[c].buffer) : OneBuffered(v, c)'
  BY <1>1, EndsWait
<1>3. Accounted(c)
  BY DEF SendInv
<1>4. \A i \in DOMAIN heap.chan[c].pending : heap.chan[c].pending[i].task = NoTask /\ heap.chan[c].pending[i].value \in sent
  BY <1>3 DEF Accounted
<1>5. \A u \in heap.chan[c].completed : WaitsToSend(u, c)'
  <2>1. \A u \in heap.chan[c].completed : WaitsToSend(u, c) /\ u \in Tasks /\ u # t
    BY <1>3, BufferTypes DEF Accounted
  <2>2. QED
    BY <1>2, <2>1
<1>6. Accounted(c)'
  BY <1>3, <1>4, <1>5 DEF Accounted
<1>7. QED
  BY <1>1, <1>2, <1>6, QuietOthers

Aborted(n) == [Idle(n) EXCEPT !.pc = "done"]

\* The tasks of S that wait to send on c.
Senders(S, c) == {t \in S : task[t].pc = "send" /\ task[t].op[2] = c}

LEMMA AbortedFields == \A n : Aborted(n).pc = "done" /\ Aborted(n).n = n /\ Aborted(n).cases = <<>>
BY DEF Aborted, Idle

\* The tasks of S are aborted, and what they wait to send is withdrawn.
LEMMA WithdrawStep ==
  ASSUME DataOK, SendInv, NEW S \in SUBSET Tasks,
         task' = [t \in Tasks |-> IF t \in S THEN Aborted(task[t].n) ELSE task[t]],
         \A c \in Chans : /\ heap'.chan[c].buffer = heap.chan[c].buffer
                          /\ heap'.chan[c].pending = Keep(heap.chan[c].pending, PendingNotOf(Senders(S, c)))
                          /\ heap'.chan[c].completed = heap.chan[c].completed \ Senders(S, c)
                          /\ heap'.chan[c].closed = heap.chan[c].closed,
         sent' = sent
  PROVE  SendInv'
<1>1. \A u \in Tasks : /\ u \in S => task'[u].pc = "done" /\ task'[u].n = task[u].n
                       /\ u \notin S => task'[u] = task[u]
  BY AbortedFields
<1>2. ASSUME NEW c \in Chans PROVE Accounted(c)'
  <2> DEFINE p == heap.chan[c].pending
             q == Keep(p, PendingNotOf(Senders(S, c)))
  <2>1. Accounted(c) /\ Filled(heap.chan[c], Capacity[c])
    BY DEF Accounted, SendInv
  <2>2. p \in Seq(PendingSend) /\ heap.chan[c].completed \in SUBSET Tasks
    BY BufferTypes
  <2>3. PICK f \in [DOMAIN q -> DOMAIN p] :
           /\ \A m, n \in DOMAIN q : f[m] = f[n] => m = n
           /\ \A n \in DOMAIN q : q[n] = p[f[n]] /\ p[f[n]] \in PendingNotOf(Senders(S, c))
           /\ \A i \in DOMAIN p : p[i] \in PendingNotOf(Senders(S, c)) => \E n \in DOMAIN q : f[n] = i
    BY <2>2, KeepPlaces
  <2>4. Filled(heap'.chan[c], Capacity[c])
    <3>1. q # <<>> => p # <<>>
      <4>1. Len(q) <= Len(p) /\ q \in Seq(PendingSend)
        BY <2>2, KeepFacts
      <4>2. Len(q) \in Nat /\ Len(p) \in Nat /\ (Len(q) = 0 <=> q = <<>>) /\ (Len(p) = 0 <=> p = <<>>)
        BY <2>2, <4>1, LenProperties, EmptySeq
      <4>3. QED
        BY <4>1, <4>2
    <3>2. QED
      BY <2>1, <3>1 DEF Filled
  <2>5. \A u \in Tasks : WaitsToSend(u, c) /\ u \notin Senders(S, c) =>
           WaitsToSend(u, c)' /\ task'[u].n = task[u].n
    BY <1>1 DEF Senders, WaitsToSend
  <2>6. \A u \in Tasks : WaitsToSend(u, c)' => WaitsToSend(u, c) /\ u \notin Senders(S, c)
    BY <1>1 DEF Senders, WaitsToSend
  <2>7. ASSUME NEW n \in DOMAIN q, NEW u, u = q[n].task, u # NoTask
        PROVE  ~heap'.chan[c].closed /\ WaitsToSend(u, c)' /\ u \notin heap'.chan[c].completed /\ task'[u].n = task[u].n
    <3>1. f[n] \in DOMAIN p /\ q[n] = p[f[n]] /\ u \notin Senders(S, c)
      BY <2>3, <2>7 DEF PendingNotOf
    <3>2. u \in Tasks
      BY <2>2, <2>7, <3>1, PendingFields
    <3>3. ~heap.chan[c].closed /\ WaitsToSend(u, c) /\ u \notin heap.chan[c].completed
      <4>1. f[n] \in DOMAIN p /\ u = p[f[n]].task /\ u # NoTask
        BY <2>7, <3>1
      <4>2. \A i \in DOMAIN p : p[i].task # NoTask =>
                ~heap.chan[c].closed /\ WaitsToSend(p[i].task, c) /\ p[i].task \notin heap.chan[c].completed
        BY <2>1 DEF Accounted
      <4>3. QED
        BY ONLY <4>1, <4>2
    <3>4. QED
      BY <2>5, <3>1, <3>2, <3>3
  <2>8. \A u \in heap'.chan[c].completed : WaitsToSend(u, c)'
    <3>1. \A u \in heap.chan[c].completed : WaitsToSend(u, c) /\ u \in Tasks
      BY <2>1, <2>2 DEF Accounted
    <3>2. QED
      BY <2>5, <3>1
  <2>9. ASSUME NEW u \in Tasks, WaitsToSend(u, c)', ~heap'.chan[c].closed
        PROVE  u \in heap'.chan[c].completed \/ \E n \in DOMAIN q : q[n].task = u
    <3>1. WaitsToSend(u, c) /\ u \notin Senders(S, c) /\ ~heap.chan[c].closed
      BY <2>6, <2>9
    <3>2. u \in heap.chan[c].completed \/ \E i \in DOMAIN p : p[i].task = u
      BY <2>1, <3>1 DEF Accounted
    <3>3. ASSUME NEW i \in DOMAIN p, p[i].task = u PROVE \E n \in DOMAIN q : q[n].task = u
      <4>1. p[i] \in PendingSend
        BY <2>2, ElementOfSeq, LenProperties
      <4>2. p[i] \in PendingNotOf(Senders(S, c))
        BY <3>1, <3>3, <4>1 DEF PendingNotOf
      <4>3. PICK n \in DOMAIN q : f[n] = i
        BY <2>3, <4>2
      <4>4. QED
        BY <2>3, <3>3, <4>3
    <3>4. QED
      BY <3>1, <3>2, <3>3
  <2> HIDE DEF q
  <2>10. /\ f \in [DOMAIN heap'.chan[c].pending -> DOMAIN heap.chan[c].pending]
         /\ \A m, n \in DOMAIN heap'.chan[c].pending : f[m] = f[n] => m = n
         /\ \A n \in DOMAIN heap'.chan[c].pending : heap'.chan[c].pending[n] = heap.chan[c].pending[f[n]]
    BY <2>3 DEF q
  <2>11. \A n \in DOMAIN heap'.chan[c].pending : \A u :
            u = heap'.chan[c].pending[n].task /\ u # NoTask =>
              /\ ~heap'.chan[c].closed /\ WaitsToSend(u, c)' /\ u \notin heap'.chan[c].completed
              /\ task'[u].n = task[u].n
    BY <2>7, Zenon DEF q
  <2>12. \A u \in Tasks : WaitsToSend(u, c)' /\ ~heap'.chan[c].closed =>
            u \in heap'.chan[c].completed \/ \E i \in DOMAIN heap'.chan[c].pending : heap'.chan[c].pending[i].task = u
    BY <2>9 DEF q
  <2> HIDE DEF p
  <2>13. QED
    BY <2>1, <2>4, <2>8, <2>10, <2>11, <2>12, AccountedSub
<1>3. ASSUME NEW v \in sent' PROVE OneSent(v)'
  <2>1. v \in Values /\ OneSent(v) /\ v[1] \in Tasks
    BY SendInvParts, ValueFields DEF DataOK
  <2>2. QED
    BY <1>1, <2>1 DEF OneSent, Unsent
<1>4. ASSUME NEW c \in Chans, NEW v \in Range(heap'.chan[c].buffer) PROVE OneBuffered(v, c)'
  <2>1. v \in Values /\ OneBuffered(v, c) /\ v[1] \in Tasks
    BY BufferTypes, SendInvParts, ValueFields
  <2>2. CASE v[1] \in S
    BY <1>1, <2>1, <2>2 DEF OneBuffered, Unsent
  <2>3. CASE v[1] \notin S
    <3>1. v[1] \in heap.chan[c].completed => v[1] \in heap'.chan[c].completed
      BY <2>3 DEF Senders
    <3>2. QED
      BY <1>1, <2>1, <2>3, <3>1 DEF OneBuffered, Unsent, WaitsToSend
  <2>4. QED
    BY <2>2, <2>3
<1>5. QED
  BY <1>2, <1>3, <1>4, SendInvNext

-----------------------------------------------------------------------------
(* A channel's queue: its buffer, then the values of its blocked senders      *)

LEMMA AppendFacts ==
  ASSUME NEW S, NEW a \in Seq(S), NEW v \in S
  PROVE  /\ Append(a, v) \in Seq(S) /\ Len(a) \in Nat /\ Len(Append(a, v)) = Len(a) + 1
         /\ DOMAIN a = 1..Len(a) /\ DOMAIN Append(a, v) = 1..Len(a) + 1
         /\ \A i \in 1..Len(a) : Append(a, v)[i] = a[i]
         /\ Append(a, v)[Len(a) + 1] = v
BY AppendProperties, LenProperties

LEMMA ConcatFacts ==
  ASSUME NEW S, NEW a \in Seq(S), NEW b \in Seq(S)
  PROVE  /\ a \o b \in Seq(S) /\ Len(a) \in Nat /\ Len(b) \in Nat /\ Len(a \o b) = Len(a) + Len(b)
         /\ DOMAIN a = 1..Len(a) /\ DOMAIN b = 1..Len(b) /\ DOMAIN (a \o b) = 1..Len(a) + Len(b)
         /\ \A i \in 1..Len(a) : (a \o b)[i] = a[i]
         /\ \A i \in 1..Len(b) : (a \o b)[Len(a) + i] = b[i]
<1>1. /\ a \o b \in Seq(S) /\ Len(a) \in Nat /\ Len(b) \in Nat /\ Len(a \o b) = Len(a) + Len(b)
      /\ DOMAIN a = 1..Len(a) /\ DOMAIN b = 1..Len(b) /\ DOMAIN (a \o b) = 1..Len(a) + Len(b)
      /\ \A i \in 1..Len(a) + Len(b) : (a \o b)[i] = IF i <= Len(a) THEN a[i] ELSE b[i - Len(a)]
  BY LenProperties, ConcatProperties
<1>2. ASSUME NEW i \in 1..Len(a) PROVE (a \o b)[i] = a[i]
  <2>1. i \in 1..Len(a) + Len(b) /\ i <= Len(a)
    BY <1>1
  <2>2. QED
    BY <1>1, <2>1
<1>3. ASSUME NEW i \in 1..Len(b) PROVE (a \o b)[Len(a) + i] = b[i]
  <2>1. PICK j : j = Len(a) + i
    OBVIOUS
  <2>2. j \in 1..Len(a) + Len(b) /\ ~(j <= Len(a)) /\ j - Len(a) = i
    BY <1>1, <2>1
  <2>3. (a \o b)[j] = b[i]
    BY <1>1, <2>2
  <2>4. QED
    BY <2>1, <2>3
<1>4. QED
  BY <1>1, <1>2, <1>3

LEMMA OneValue ==
  ASSUME NEW S, NEW v \in S
  PROVE  \E w \in Seq(S) : w = <<v>> /\ Len(w) = 1 /\ w[1] = v
<1>1. <<v>> \in Seq(S)
  OBVIOUS
<1>2. Len(<<v>>) = 1 /\ <<v>>[1] = v
  OBVIOUS
<1>3. QED
  BY <1>1, <1>2

LEMMA FrontConcat ==
  ASSUME NEW S, NEW b \in Seq(S), b # <<>>
  PROVE  LET w == <<Head(b)>> IN w \in Seq(S) /\ b = w \o Tail(b) /\ Tail(b) \in Seq(S) /\ Head(b) \in S
<1>1. Head(b) \in S /\ Tail(b) \in Seq(S) /\ Len(Tail(b)) = Len(b) - 1
      /\ \A i \in 1..Len(Tail(b)) : Tail(b)[i] = b[i + 1]
  BY HeadTailProperties
<1>2. Len(b) \in Nat \ {0}
  BY EmptySeq
<1>3. PICK w \in Seq(S) : w = <<Head(b)>> /\ Len(w) = 1 /\ w[1] = Head(b)
  BY <1>1, OneValue
<1>4. PICK r \in Seq(S) : r = Tail(b)
  BY <1>1
<1>5. /\ w \o r \in Seq(S) /\ Len(w \o r) = 1 + Len(r)
      /\ (w \o r)[1] = Head(b) /\ \A i \in 1..Len(r) : (w \o r)[1 + i] = r[i]
  <2>1. 1 \in 1..Len(w)
    BY <1>3
  <2>2. QED
    BY <1>3, <2>1, ConcatFacts
<1>6. Head(b) = b[1]
  BY <1>2
<1>7. ASSUME NEW i \in 1..Len(b) PROVE b[i] = (w \o r)[i]
  <2>1. CASE i = 1
    BY <1>5, <1>6, <2>1
  <2>2. CASE i # 1
    <3>1. PICK j : j = i - 1
      OBVIOUS
    <3>2. j \in 1..Len(r) /\ j + 1 = i /\ 1 + j = i
      BY <1>1, <1>2, <1>4, <2>2, <3>1
    <3>3. QED
      BY <1>1, <1>4, <1>5, <3>2
  <2>3. QED
    BY <2>1, <2>2
<1>8. Len(b) = Len(w \o r)
  BY <1>1, <1>2, <1>4, <1>5
<1>9. b = w \o r
  BY <1>5, <1>7, <1>8, SeqEqual
<1>10. QED
  BY <1>1, <1>3, <1>4, <1>9

LEMMA HeadAndTail ==
  ASSUME NEW S, NEW v \in S, NEW r \in Seq(S)
  PROVE  LET w == <<v>> IN w \o r # <<>> /\ Head(w \o r) = v /\ Tail(w \o r) = r /\ w \o r \in Seq(S)
<1>1. PICK w \in Seq(S) : w = <<v>> /\ Len(w) = 1 /\ w[1] = v
  BY OneValue
<1>2. PICK q : q = w \o r
  OBVIOUS
<1>3. /\ q \in Seq(S) /\ Len(q) = 1 + Len(r) /\ Len(r) \in Nat
      /\ q[1] = v /\ \A i \in 1..Len(r) : q[1 + i] = r[i]
  <2>1. 1 \in 1..Len(w)
    BY <1>1
  <2>2. QED
    BY <1>1, <1>2, <2>1, ConcatFacts
<1>4. q # <<>>
  BY <1>3, EmptySeq
<1>5. Head(q) = v
  BY <1>3, <1>4
<1>6. Tail(q) \in Seq(S) /\ Len(Tail(q)) = Len(q) - 1 /\ \A i \in 1..Len(Tail(q)) : Tail(q)[i] = q[i + 1]
  BY <1>3, <1>4, HeadTailProperties
<1>7. Len(Tail(q)) = Len(r)
  BY <1>3, <1>6
<1>8. \A i \in 1..Len(Tail(q)) : Tail(q)[i] = r[i]
  <2>1. ASSUME NEW i \in 1..Len(Tail(q)) PROVE Tail(q)[i] = r[i]
    <3>1. i + 1 = 1 + i
      OBVIOUS
    <3>2. QED
      BY <1>3, <1>6, <1>7, <3>1
  <2>2. QED
    BY <2>1
<1>9. Tail(q) = r
  BY <1>6, <1>7, <1>8, SeqEqual
<1>10. QED
  BY <1>1, <1>2, <1>3, <1>4, <1>5, <1>9

\* Taking the front of a \o b.
LEMMA TailConcat ==
  ASSUME NEW S, NEW a \in Seq(S), NEW b \in Seq(S), a # <<>>
  PROVE  Head(a \o b) = Head(a) /\ Tail(a \o b) = Tail(a) \o b /\ a \o b # <<>>
<1>1. PICK w \in Seq(S) : w = <<Head(a)>> /\ a = w \o Tail(a)
  BY FrontConcat
<1>2. PICK r \in Seq(S) : r = Tail(a)
  BY FrontConcat
<1>3. r \o b \in Seq(S) /\ Head(a) \in S
  BY FrontConcat, ConcatProperties
<1>4. a \o b = w \o (r \o b)
  BY <1>1, <1>2, ConcatAssociative
<1>5. w \o (r \o b) # <<>> /\ Head(w \o (r \o b)) = Head(a) /\ Tail(w \o (r \o b)) = r \o b
  BY <1>1, <1>3, HeadAndTail
<1>6. QED
  BY <1>2, <1>4, <1>5

\* The front of b moves to the end of a.
LEMMA MoveFront ==
  ASSUME NEW S, NEW a \in Seq(S), NEW b \in Seq(S), b # <<>>
  PROVE  Append(a, Head(b)) \o Tail(b) = a \o b
<1>1. PICK w \in Seq(S) : w = <<Head(b)>> /\ b = w \o Tail(b)
  BY FrontConcat
<1>2. PICK r \in Seq(S) : r = Tail(b)
  BY FrontConcat
<1>3. Append(a, Head(b)) = a \o w
  BY <1>1, FrontConcat, AppendIsConcat
<1>4. (a \o w) \o r = a \o (w \o r)
  BY ONLY a \in Seq(S), w \in Seq(S), r \in Seq(S), ConcatAssociative
<1>5. QED
  BY <1>1, <1>2, <1>3, <1>4

ValuesOf(p) == [i \in DOMAIN p |-> p[i].value]
QueueOf(ch) == ch.buffer \o ValuesOf(ch.pending)

LEMMA ValuesOfFacts ==
  ASSUME NEW p \in Seq(PendingSend)
  PROVE  /\ ValuesOf(p) \in Seq(Values) /\ Len(ValuesOf(p)) = Len(p) /\ Len(p) \in Nat
         /\ DOMAIN p = 1..Len(p) /\ DOMAIN ValuesOf(p) = 1..Len(p)
         /\ \A i \in 1..Len(p) : ValuesOf(p)[i] = p[i].value /\ p[i] \in PendingSend
<1>1. Len(p) \in Nat /\ DOMAIN p = 1..Len(p) /\ \A i \in 1..Len(p) : p[i] \in PendingSend
  BY LenProperties, ElementOfSeq
<1>2. PICK n \in Nat : n = Len(p)
  BY <1>1, Zenon
<1>3. ValuesOf(p) = [i \in 1..n |-> p[i].value]
  BY <1>1, <1>2 DEF ValuesOf
<1>4. \A i \in 1..n : p[i].value \in Values
  BY <1>1, <1>2 DEF PendingSend
<1>5. ValuesOf(p) \in Seq(Values) /\ Len(ValuesOf(p)) = n
  <2>1. ValuesOf(p) \in [1..n -> Values]
    BY <1>3, <1>4
  <2>2. ValuesOf(p) \in Seq(Values)
    BY <2>1
  <2>3. QED
    BY <2>1, <2>2
<1>6. QED
  BY <1>1, <1>2, <1>3, <1>5

LEMMA ValuesOfNone == ASSUME NEW p \in Seq(PendingSend) PROVE p = <<>> <=> ValuesOf(p) = <<>>
<1>1. ValuesOf(p) \in Seq(Values) /\ Len(ValuesOf(p)) = Len(p)
  BY ValuesOfFacts
<1>2. p = <<>> <=> Len(p) = 0
  BY EmptySeq
<1>3. ValuesOf(p) = <<>> <=> Len(ValuesOf(p)) = 0
  BY <1>1, EmptySeq
<1>4. QED
  BY <1>1, <1>2, <1>3

LEMMA ValuesOfAppend ==
  ASSUME NEW p \in Seq(PendingSend), NEW e \in PendingSend
  PROVE  ValuesOf(Append(p, e)) = Append(ValuesOf(p), e.value)
<1>1. PICK q \in Seq(PendingSend) : q = Append(p, e)
  BY AppendProperties
<1>2. /\ Len(p) \in Nat /\ Len(q) = Len(p) + 1 /\ q[Len(p) + 1] = e /\ \A i \in 1..Len(p) : q[i] = p[i]
  BY <1>1, AppendFacts
<1>3. /\ ValuesOf(q) \in Seq(Values) /\ Len(ValuesOf(q)) = Len(q) /\ \A i \in 1..Len(q) : ValuesOf(q)[i] = q[i].value
      /\ ValuesOf(p) \in Seq(Values) /\ Len(ValuesOf(p)) = Len(p) /\ \A i \in 1..Len(p) : ValuesOf(p)[i] = p[i].value
  BY ValuesOfFacts
<1>4. PICK v \in Values : v = e.value
  BY DEF PendingSend
<1>5. PICK r \in Seq(Values) : r = Append(ValuesOf(p), v)
  BY <1>3, AppendProperties
<1>6. Len(r) = Len(p) + 1 /\ r[Len(p) + 1] = v /\ \A i \in 1..Len(p) : r[i] = p[i].value
  BY <1>3, <1>5, AppendFacts
<1>7. \A i \in 1..Len(q) : ValuesOf(q)[i] = r[i]
  <2>1. ASSUME NEW i \in 1..Len(q) PROVE ValuesOf(q)[i] = r[i]
    <3>1. i \in 1..Len(p) \/ i = Len(p) + 1
      BY <1>2
    <3>2. QED
      BY <1>2, <1>3, <1>4, <1>6, <3>1
  <2>2. QED
    BY <2>1
<1>8. ValuesOf(q) = r
  BY <1>2, <1>3, <1>6, <1>7, SeqEqual
<1>9. QED
  BY <1>1, <1>4, <1>5, <1>8

LEMMA QueueAppend ==
  ASSUME NEW b \in Seq(Values), NEW p \in Seq(PendingSend), NEW e \in PendingSend
  PROVE  b \o ValuesOf(Append(p, e)) = Append(b \o ValuesOf(p), e.value)
<1>1. PICK vs \in Seq(Values) : vs = ValuesOf(p)
  BY ValuesOfFacts
<1>2. PICK v \in Values : v = e.value
  BY DEF PendingSend
<1>3. PICK w \in Seq(Values) : w = <<v>>
  BY <1>2, OneValue
<1>4. PICK q \in Seq(Values) : q = b \o vs
  BY <1>1, ConcatProperties
<1>5. Append(q, v) = q \o w
  BY <1>2, <1>3, <1>4, AppendIsConcat
<1>6. Append(vs, v) = vs \o w
  BY <1>1, <1>2, <1>3, AppendIsConcat
<1>7. (b \o vs) \o w = b \o (vs \o w)
  BY <1>1, <1>3, ConcatAssociative
<1>8. QED
  BY <1>1, <1>2, <1>4, <1>5, <1>6, <1>7, ValuesOfAppend

LEMMA ValuesOfTail ==
  ASSUME NEW p \in Seq(PendingSend), p # <<>>
  PROVE  /\ ValuesOf(p) # <<>> /\ Head(ValuesOf(p)) = Head(p).value /\ Tail(ValuesOf(p)) = ValuesOf(Tail(p))
         /\ Head(p).value \in Values /\ Tail(p) \in Seq(PendingSend)
<1>1. PICK q \in Seq(PendingSend) : q = Tail(p)
  BY TailFacts
<1>2. /\ Head(p) = p[1] /\ Len(p) \in Nat \ {0} /\ Len(q) = Len(p) - 1 /\ 1 \in 1..Len(p)
      /\ \A i \in 1..Len(q) : q[i] = p[i + 1]
  BY <1>1, EmptySeq, HeadTailProperties
<1>3. PICK v \in Seq(Values) : v = ValuesOf(p)
  BY ValuesOfFacts
<1>4. PICK w \in Seq(Values) : w = ValuesOf(q)
  BY ValuesOfFacts
<1>5. Len(v) = Len(p) /\ (\A i \in 1..Len(p) : v[i] = p[i].value /\ p[i] \in PendingSend)
      /\ Len(w) = Len(q) /\ \A i \in 1..Len(q) : w[i] = q[i].value
  BY <1>3, <1>4, ValuesOfFacts
<1>6. v # <<>>
  BY <1>2, <1>5, EmptySeq
<1>7. Head(v) = Head(p).value
  BY <1>2, <1>5, <1>6
<1>8. Tail(v) \in Seq(Values) /\ Len(Tail(v)) = Len(v) - 1 /\ \A i \in 1..Len(Tail(v)) : Tail(v)[i] = v[i + 1]
  BY <1>6, HeadTailProperties
<1>9. ASSUME NEW i \in 1..Len(Tail(v)) PROVE Tail(v)[i] = w[i]
  <2>1. i \in 1..Len(q) /\ i + 1 \in 1..Len(p)
    BY <1>2, <1>5, <1>8
  <2>2. QED
    BY <1>2, <1>5, <1>8, <2>1
<1>10. Tail(v) = w
  BY <1>2, <1>5, <1>8, <1>9, SeqEqual
<1>11. Head(p).value \in Values
  BY <1>2, <1>5 DEF PendingSend
<1>12. QED
  BY <1>1, <1>3, <1>4, <1>6, <1>7, <1>10, <1>11

-----------------------------------------------------------------------------
(* The promise's steps, in terms of the channels                              *)

Queues == [c \in Chans |-> QueueOf(heap.chan[c])]
ClosedChans == {c \in Chans : heap.chan[c].closed}
WaitingValues == {ValueOf(t) : t \in Waiting}
RefusedTasks == {u \in Waiting : heap.chan[task[u].op[2]].closed /\ u \notin heap.chan[task[u].op[2]].completed}
RefusedValues == {ValueOf(t) : t \in RefusedTasks}
promise == <<Queues, ClosedChans, WaitingValues, RefusedValues, sent, got>>

BeyondCapacity(c) == {Queues[c][i] : i \in Capacity[c] + 1..Len(Queues[c])}

LEMMA PromiseParts ==
  /\ \A c : Promise!Beyond(c) = BeyondCapacity(c)
  /\ Promise!vars = promise /\ Promise!vars' = promise'
BY DEF promise, Queues, QueueOf, ValuesOf, ClosedChans, WaitingValues, RefusedTasks, RefusedValues, BeyondCapacity,
       Promise!Beyond, Promise!vars

LEMMA PromiseKeeps ==
  /\ \A list, kept : Promise!Keep(list, kept) = Keep(list, kept)
  /\ \A c, gone : Promise!Without(c, gone) = Keep(Queues[c], Values \ gone)
<1>1. ASSUME NEW places PROVE Promise!Ascending(places) = Ascending(places)
  <2>1. Promise!Cardinality(places) = Cardinality(places)
    BY DEF Promise!Cardinality, Cardinality
  <2>2. QED
    BY <2>1, Zenon DEF Promise!Ascending, Ascending
<1>2. \A list, kept : Promise!Keep(list, kept) = Keep(list, kept)
  BY <1>1 DEF Promise!Keep, Keep
<1>3. QED
  BY <1>2 DEF Promise!Without, Queues, QueueOf, ValuesOf

LEMMA Accepts ==
  ASSUME NEW c \in Chans, NEW v \in Values, c \notin ClosedChans,
         Capacity[c] = 0 \/ Len(Queues[c]) < Capacity[c],
         Queues' = [Queues EXCEPT ![c] = Append(@, v)], sent' = sent \cup {v},
         UNCHANGED <<ClosedChans, WaitingValues, RefusedValues, got>>
  PROVE  Promise!Next
<1>1. Promise!Accept(c, v)
  BY Zenon DEF Queues, QueueOf, ValuesOf, ClosedChans, WaitingValues, RefusedTasks, RefusedValues, Promise!Accept
<1>2. QED
  BY <1>1 DEF Promise!Next

LEMMA Offers ==
  ASSUME NEW c \in Chans, NEW v \in Values, c \notin ClosedChans, Len(Queues[c]) >= Capacity[c],
         Queues' = [Queues EXCEPT ![c] = Append(@, v)], WaitingValues' = WaitingValues \cup {v},
         UNCHANGED <<ClosedChans, RefusedValues, sent, got>>
  PROVE  Promise!Next
<1>1. Promise!Offer(c, v)
  BY Zenon DEF Queues, QueueOf, ValuesOf, ClosedChans, WaitingValues, RefusedTasks, RefusedValues, Promise!Offer
<1>2. QED
  BY <1>1 DEF Promise!Next

LEMMA Receives ==
  ASSUME NEW c \in Chans, NEW t \in Tasks, Queues[c] # <<>>,
         Queues' = [Queues EXCEPT ![c] = Tail(@)], got' = [got EXCEPT ![t] = Head(Queues[c])],
         UNCHANGED <<ClosedChans, WaitingValues, RefusedValues, sent>>
  PROVE  Promise!Next
<1>1. Promise!Receive(c, t)
  BY Zenon DEF Queues, QueueOf, ValuesOf, ClosedChans, WaitingValues, RefusedTasks, RefusedValues, Promise!Receive
<1>2. QED
  BY <1>1 DEF Promise!Next

LEMMA ReceivesClosed ==
  ASSUME NEW c \in Chans, NEW t \in Tasks, c \in ClosedChans, Queues[c] = <<>>,
         got' = [got EXCEPT ![t] = NoValue],
         UNCHANGED <<Queues, ClosedChans, WaitingValues, RefusedValues, sent>>
  PROVE  Promise!Next
<1>1. Promise!ReceiveClosed(c, t)
  BY Zenon DEF Queues, QueueOf, ValuesOf, ClosedChans, WaitingValues, RefusedTasks, RefusedValues, NoValue,
         Promise!ReceiveClosed, Promise!NoValue
<1>2. QED
  BY <1>1 DEF Promise!Next

LEMMA Returns ==
  ASSUME NEW v \in Values, v \in WaitingValues \ RefusedValues, \A c \in Chans : v \notin BeyondCapacity(c),
         WaitingValues' = WaitingValues \ {v}, sent' = sent \cup {v},
         UNCHANGED <<Queues, ClosedChans, RefusedValues, got>>
  PROVE  Promise!Next
<1>1. Promise!Return(v)
  BY PromiseParts, Zenon DEF Queues, QueueOf, ValuesOf, ClosedChans, WaitingValues, RefusedTasks, RefusedValues, Promise!Return
<1>2. QED
  BY <1>1 DEF Promise!Next

LEMMA Refuses ==
  ASSUME NEW v \in Values, v \in RefusedValues,
         WaitingValues' = WaitingValues \ {v}, RefusedValues' = RefusedValues \ {v},
         UNCHANGED <<Queues, ClosedChans, sent, got>>
  PROVE  Promise!Next
<1>1. Promise!Refuse(v)
  BY Zenon DEF Queues, QueueOf, ValuesOf, ClosedChans, WaitingValues, RefusedTasks, RefusedValues, Promise!Refuse
<1>2. QED
  BY <1>1 DEF Promise!Next

LEMMA Closes ==
  ASSUME NEW c \in Chans, c \notin ClosedChans, ClosedChans' = ClosedChans \cup {c},
         RefusedValues' = RefusedValues \cup (BeyondCapacity(c) \cap WaitingValues),
         Queues' = [Queues EXCEPT ![c] = Keep(Queues[c], Values \ (BeyondCapacity(c) \cap WaitingValues))],
         UNCHANGED <<WaitingValues, sent, got>>
  PROVE  Promise!Next
<1>1. Promise!Close(c)
  BY PromiseParts, PromiseKeeps, Zenon DEF Queues, QueueOf, ValuesOf, ClosedChans, WaitingValues, RefusedTasks, RefusedValues,
         Promise!Close
<1>2. QED
  BY <1>1 DEF Promise!Next

LEMMA Withdraws ==
  ASSUME NEW gone \in SUBSET WaitingValues,
         WaitingValues' = WaitingValues \ gone, RefusedValues' = RefusedValues \ gone,
         Queues' = [c \in Chans |-> Keep(Queues[c], Values \ (gone \cap BeyondCapacity(c)))],
         UNCHANGED <<ClosedChans, sent, got>>
  PROVE  Promise!Next
<1>1. Promise!Withdraw(gone)
  BY PromiseParts, PromiseKeeps, Zenon DEF Queues, QueueOf, ValuesOf, ClosedChans, WaitingValues, RefusedTasks, RefusedValues,
         Promise!Withdraw
<1>2. QED
  BY <1>1 DEF Promise!Next, WaitingValues

-----------------------------------------------------------------------------
(* What the steps of the channels change of the promise                       *)

LEMMA ReadyChannel == ASSUME NEW s, NEW c \in Chans \cup {Nil} PROVE (RecvReady(s, c) \/ HasValue(s, c)) => c \in Chans
BY WaitableAssumption DEF RecvReady, HasValue

LEMMA SameTwice == ASSUME NEW s, NEW q, NEW r, SameValues(s, q), SameValues(q, r) PROVE SameValues(s, r)
BY DEF SameValues

\* A step of t, which does not wait to send on a channel before it or after it.
Aside(t) == t \notin Waiting /\ t \notin Waiting' /\ \A u \in Tasks \ {t} : task'[u] = task[u]

LEMMA WaitingKept ==
  ASSUME NEW t, Aside(t)
  PROVE  /\ Waiting' = Waiting /\ (\A u \in Waiting : u \in Tasks /\ task'[u] = task[u])
         /\ WaitingValues' = WaitingValues
<1>1. \A u \in Tasks : u # t => (u \in Waiting' <=> u \in Waiting)
  BY DEF Aside, Waiting
<1>2. Waiting' \subseteq Tasks /\ Waiting \subseteq Tasks
  BY DEF Waiting
<1>3. Waiting' = Waiting /\ t \notin Waiting
  BY <1>1, <1>2 DEF Aside
<1>4. \A u \in Waiting : u \in Tasks /\ task'[u] = task[u]
  BY <1>2, <1>3 DEF Aside
<1>5. WaitingValues' = {<<u, task'[u].n>> : u \in Waiting'} /\ WaitingValues = {<<u, task[u].n>> : u \in Waiting}
  BY DEF WaitingValues, ValueOf
<1> HIDE DEF Aside
<1>6. WaitingValues' = WaitingValues
  BY <1>3, <1>4, <1>5
<1>7. QED
  BY <1>3, <1>4, <1>6

LEMMA WaitingOn ==
  ASSUME DataOK, NEW u \in Waiting
  PROVE  u \in Tasks /\ task[u].op[2] \in Chans /\ WaitsToSend(u, task[u].op[2]) /\ ValueOf(u) \in Values
<1>1. u \in Tasks /\ task[u].pc = "send" /\ task[u].op[2] # Nil
  BY DEF Waiting
<1>2. task[u].op \in Case /\ task[u].n \in 1..MaxOps
  BY <1>1, TaskFields
<1>3. task[u].op[2] \in Chans
  BY <1>1, <1>2 DEF Case
<1>4. QED
  BY <1>1, <1>2, <1>3, ChannelsAssumption DEF WaitsToSend, ValueOf

\* The waiting senders stay, and of those that wait on a closed channel so does the
\* completion.
LEMMA RefusedKept ==
  ASSUME DataOK, NEW t, Aside(t),
         \A c \in Chans : /\ heap'.chan[c].closed = heap.chan[c].closed
                          /\ heap.chan[c].closed => heap'.chan[c].completed = heap.chan[c].completed
  PROVE  RefusedValues' = RefusedValues
<1>1. Waiting' = Waiting /\ \A u \in Waiting : u \in Tasks /\ task'[u] = task[u] /\ task[u].op[2] \in Chans
  BY WaitingKept, WaitingOn
<1>2. RefusedTasks' = {u \in Waiting' : heap'.chan[task'[u].op[2]].closed /\ u \notin heap'.chan[task'[u].op[2]].completed}
  BY DEF RefusedTasks
<1>3. RefusedTasks' = RefusedTasks
  BY <1>1, <1>2 DEF RefusedTasks
<1>4. RefusedValues' = {<<u, task'[u].n>> : u \in RefusedTasks'} /\ RefusedValues = {<<u, task[u].n>> : u \in RefusedTasks}
  BY DEF RefusedValues, ValueOf
<1>5. \A u \in RefusedTasks : task'[u] = task[u]
  BY <1>1 DEF RefusedTasks
<1>6. QED
  BY <1>3, <1>4, <1>5

LEMMA QueueTypes ==
  ASSUME DataOK, NEW c \in Chans
  PROVE  LET b == heap.chan[c].buffer
             v == ValuesOf(heap.chan[c].pending)
         IN  /\ Queues[c] = b \o v /\ b \in Seq(Values) /\ v \in Seq(Values) /\ Queues[c] \in Seq(Values)
             /\ Len(b) \in Nat /\ Len(v) = Len(heap.chan[c].pending) /\ Len(v) \in Nat
             /\ Len(Queues[c]) = Len(b) + Len(v) /\ Capacity[c] \in Nat
<1>1. PICK b \in Seq(Values) : b = heap.chan[c].buffer
  BY BufferTypes
<1>2. PICK p \in Seq(PendingSend) : p = heap.chan[c].pending
  BY BufferTypes
<1>3. PICK v \in Seq(Values) : v = ValuesOf(p) /\ Len(v) = Len(p)
  BY ValuesOfFacts
<1>4. Queues[c] = b \o v
  BY <1>1, <1>2, <1>3 DEF Queues, QueueOf
<1>5. b \o v \in Seq(Values) /\ Len(b) \in Nat /\ Len(v) \in Nat /\ Len(b \o v) = Len(b) + Len(v)
  BY ConcatFacts
<1>6. Capacity[c] \in Nat
  BY WaitableAssumption
<1>7. QED
  BY <1>1, <1>2, <1>3, <1>4, <1>5, <1>6

LEMMA OneQueue ==
  ASSUME NEW c \in Chans, NEW b, NEW p, NEW co, NEW cl, Moved(heap, heap', c, b, p, co, cl),
         NEW q, b \o ValuesOf(p) = q
  PROVE  /\ Queues' = [Queues EXCEPT ![c] = q]
         /\ cl = heap.chan[c].closed => ClosedChans' = ClosedChans
<1>1. Queues' = [d \in Chans |-> QueueOf(heap'.chan[d])]
  BY DEF Queues
<1>2. QueueOf(heap'.chan[c]) = q
  BY DEF Moved, QueueOf
<1>3. \A d \in Chans \ {c} : QueueOf(heap'.chan[d]) = QueueOf(heap.chan[d]) /\ heap'.chan[d].closed = heap.chan[d].closed
  BY DEF Moved, QueueOf
<1>4. Queues' = [Queues EXCEPT ![c] = q]
  BY <1>1, <1>2, <1>3 DEF Queues
<1>5. ASSUME cl = heap.chan[c].closed PROVE ClosedChans' = ClosedChans
  <2>1. \A d \in Chans : heap'.chan[d].closed = heap.chan[d].closed
    BY <1>3, <1>5 DEF Moved
  <2>2. ClosedChans' = {d \in Chans : heap'.chan[d].closed}
    BY DEF ClosedChans
  <2>3. QED
    BY <2>1, <2>2 DEF ClosedChans
<1>6. QED
  BY <1>4, <1>5

PromiseStep == Promise!Next \/ UNCHANGED promise

LEMMA SameQueues ==
  ASSUME SameValues(heap, heap')
  PROVE  Queues' = Queues /\ ClosedChans' = ClosedChans
<1>1. \A d \in Chans : QueueOf(heap'.chan[d]) = QueueOf(heap.chan[d]) /\ heap'.chan[d].closed = heap.chan[d].closed
  BY DEF SameValues, QueueOf
<1>2. Queues' = [d \in Chans |-> QueueOf(heap'.chan[d])] /\ ClosedChans' = {d \in Chans : heap'.chan[d].closed}
  BY DEF Queues, ClosedChans
<1>3. QED
  BY <1>1, <1>2 DEF Queues, ClosedChans

LEMMA StutterStep ==
  ASSUME DataOK, NEW t, Aside(t), SameValues(heap, heap'), UNCHANGED <<got, sent>>
  PROVE  PromiseStep
<1>1. Queues' = Queues /\ ClosedChans' = ClosedChans
  BY SameQueues
<1>2. WaitingValues' = WaitingValues
  BY WaitingKept
<1>3. RefusedValues' = RefusedValues
  BY RefusedKept DEF SameValues
<1>4. QED
  BY <1>1, <1>2, <1>3 DEF PromiseStep, promise

\* A value is sent without being made to wait.
LEMMA AcceptStep ==
  ASSUME DataOK, SendInv, NEW t, Aside(t), NEW c \in Chans, NEW v \in Values, ~heap.chan[c].closed,
         NEW b \in Seq(Values), NEW p \in Seq(PendingSend), b = heap.chan[c].buffer, p = heap.chan[c].pending,
         \/ /\ Capacity[c] = 0
            /\ Moved(heap, heap', c, b, Append(p, [value |-> v, task |-> NoTask]), heap.chan[c].completed, heap.chan[c].closed)
         \/ /\ Len(b) < Capacity[c]
            /\ Moved(heap, heap', c, Append(b, v), p, heap.chan[c].completed, heap.chan[c].closed),
         sent' = sent \cup {v}, got' = got
  PROVE  PromiseStep
<1>1. Queues[c] = b \o ValuesOf(p) /\ ValuesOf(p) \in Seq(Values) /\ Len(Queues[c]) = Len(b) + Len(ValuesOf(p))
      /\ Len(b) \in Nat /\ Capacity[c] \in Nat /\ Len(ValuesOf(p)) = Len(p)
  BY QueueTypes
<1>2. /\ \A d \in Chans : /\ heap'.chan[d].closed = heap.chan[d].closed
                          /\ heap'.chan[d].completed = heap.chan[d].completed
  BY Zenon DEF Moved
<1>3. WaitingValues' = WaitingValues /\ RefusedValues' = RefusedValues
  BY <1>2, WaitingKept, RefusedKept
<1>4. PICK q \in Seq(Values) : q = Append(Queues[c], v)
  BY <1>1, QueueTypes, AppendProperties, Zenon
<1>5. CASE /\ Capacity[c] = 0
           /\ Moved(heap, heap', c, b, Append(p, [value |-> v, task |-> NoTask]), heap.chan[c].completed, heap.chan[c].closed)
  <2>1. PICK e \in PendingSend : e = [value |-> v, task |-> NoTask] /\ e.value = v
    BY DEF PendingSend
  <2>2. b \o ValuesOf(Append(p, e)) = q
    <3>1. b \o ValuesOf(Append(p, e)) = Append(b \o ValuesOf(p), e.value)
      BY <2>1, QueueAppend, Zenon
    <3>2. QED
      BY <1>1, <1>4, <2>1, <3>1, Zenon
  <2>3. PICK p2 \in Seq(PendingSend) : p2 = Append(p, e) /\ b \o ValuesOf(p2) = q
    BY <2>2, AppendProperties
  <2>4. Moved(heap, heap', c, b, p2, heap.chan[c].completed, heap.chan[c].closed)
    BY <1>5, <2>1, <2>3, Zenon
  <2>5. Queues' = [Queues EXCEPT ![c] = q] /\ ClosedChans' = ClosedChans
    <3>1. c \in Chans /\ b \o ValuesOf(p2) = q
      BY <2>3
    <3>2. QED
      BY ONLY <2>4, <3>1, OneQueue
  <2>6. Queues' = [Queues EXCEPT ![c] = Append(@, v)]
    BY <1>4, <2>5
  <2>7. c \notin ClosedChans
    BY DEF ClosedChans
  <2>8. QED
    BY <1>3, <1>5, <2>5, <2>6, <2>7, Accepts DEF PromiseStep
<1>6. CASE /\ Len(b) < Capacity[c]
           /\ Moved(heap, heap', c, Append(b, v), p, heap.chan[c].completed, heap.chan[c].closed)
  <2>1. p = <<>>
    <3>1. Filled(heap.chan[c], Capacity[c])
      BY DEF SendInv, Accounted
    <3>2. QED
      BY <1>1, <1>6, <3>1 DEF Filled
  <2>2. PICK b2 \in Seq(Values) : b2 = Append(b, v)
    BY AppendProperties
  <2>3. ValuesOf(p) = <<>> /\ Len(p) = 0
    BY <2>1, ValuesOfNone
  <2>4. Queues[c] = b /\ b2 \o ValuesOf(p) = b2
    BY <1>1, <2>3, ConcatEmptySeq
  <2>5. b2 \o ValuesOf(p) = q
    BY <1>4, <2>2, <2>4
  <2>6. Moved(heap, heap', c, b2, p, heap.chan[c].completed, heap.chan[c].closed)
    BY <1>6, <2>2
  <2>7. Queues' = [Queues EXCEPT ![c] = q] /\ ClosedChans' = ClosedChans
    BY <2>5, <2>6, OneQueue, Zenon
  <2>8. Queues' = [Queues EXCEPT ![c] = Append(@, v)]
    BY <1>4, <2>7
  <2>9. Len(Queues[c]) < Capacity[c]
    BY <1>6, <2>4
  <2>10. c \notin ClosedChans
    BY DEF ClosedChans
  <2>11. QED
    BY <1>3, <2>7, <2>8, <2>9, <2>10, Accepts, Zenon DEF PromiseStep
<1>7. QED
  BY <1>5, <1>6

LEMMA QuietAside ==
  ASSUME DataOK, NEW t \in Tasks, NEW w \in TaskType, NotSending(task[t]), NotSending(w), task' = [task EXCEPT ![t] = w]
  PROVE  Aside(t)
<1>1. task'[t] = w /\ \A u \in Tasks \ {t} : task'[u] = task[u]
  BY DEF DataOK
<1>2. w.op[2] \in Chans \cup {Nil} /\ task[t].op[2] \in Chans \cup {Nil}
  BY TaskFields DEF TaskType, Case
<1>3. t \notin Waiting
  BY <1>2 DEF Waiting, NotSending
<1>4. t \notin Waiting'
  BY <1>1, <1>2 DEF Waiting, NotSending
<1>5. QED
  BY <1>1, <1>3, <1>4 DEF Aside

\* A value is sent by a task that is made to wait.
LEMMA WaitStepOffers ==
  ASSUME DataOK, SendInv, NEW t \in Tasks, NEW w, task' = [task EXCEPT ![t] = w], NotSending(task[t]), w.n \in 1..MaxOps,
         NEW c \in Chans, w.pc = "send", w.op[2] = c, Full(heap, c), ~heap.chan[c].closed,
         Moved(heap, heap', c, heap.chan[c].buffer, Append(heap.chan[c].pending, [value |-> <<t, w.n>>, task |-> t]),
               heap.chan[c].completed, heap.chan[c].closed),
         sent' = sent, got' = got
  PROVE  PromiseStep
<1>1. task'[t] = w /\ \A u \in Tasks : u # t => task'[u] = task[u]
  BY DEF DataOK
<1>2. PICK v \in Values : v = <<t, w.n>>
  BY ChannelsAssumption
<1>3. t \notin Waiting
  <2>1. task[t].op[2] \in Chans \cup {Nil}
    BY TaskFields DEF Case
  <2>2. QED
    BY <2>1 DEF Waiting, NotSending
<1>4. Waiting' = Waiting \cup {t}
  <2>1. \A u \in Tasks : u \in Waiting' <=> (u \in Waiting \/ u = t)
    BY <1>1, WaitableAssumption DEF Waiting
  <2>2. Waiting \subseteq Tasks /\ Waiting' \subseteq Tasks
    BY DEF Waiting
  <2>3. QED
    BY <2>1, <2>2
<1>5. \A u \in Waiting : u \in Tasks /\ u # t /\ task'[u] = task[u] /\ task[u].op[2] \in Chans
  BY <1>1, <1>3, WaitingOn
<1>6. WaitingValues' = WaitingValues \cup {v}
  <2>1. WaitingValues' = {<<u, task'[u].n>> : u \in Waiting'} /\ WaitingValues = {<<u, task[u].n>> : u \in Waiting}
    BY DEF WaitingValues, ValueOf
  <2>2. QED
    BY <1>1, <1>2, <1>4, <1>5, <2>1
<1>7. RefusedValues' = RefusedValues
  <2>1. \A d \in Chans : heap'.chan[d].closed = heap.chan[d].closed /\ heap'.chan[d].completed = heap.chan[d].completed
    BY DEF Moved
  <2>2. RefusedTasks' = {u \in Waiting' : heap'.chan[task'[u].op[2]].closed /\ u \notin heap'.chan[task'[u].op[2]].completed}
    BY DEF RefusedTasks
  <2>3. ~heap'.chan[task'[t].op[2]].closed
    BY <1>1, <2>1
  <2>4. RefusedTasks' = RefusedTasks
    <3>1. \A u \in Waiting : u \in RefusedTasks' <=> u \in RefusedTasks
      BY <1>4, <1>5, <2>1, <2>2 DEF RefusedTasks
    <3>2. t \notin RefusedTasks'
      BY <2>2, <2>3
    <3>3. RefusedTasks \subseteq Waiting /\ RefusedTasks' \subseteq Waiting'
      BY <2>2 DEF RefusedTasks
    <3>4. QED
      BY ONLY <1>4, <3>1, <3>2, <3>3
  <2>5. RefusedValues' = {<<u, task'[u].n>> : u \in RefusedTasks'} /\ RefusedValues = {<<u, task[u].n>> : u \in RefusedTasks}
    BY DEF RefusedValues, ValueOf
  <2>6. \A u \in RefusedTasks : task'[u] = task[u]
    BY <1>5 DEF RefusedTasks
  <2>7. QED
    BY <2>4, <2>5, <2>6
<1>8. PICK b \in Seq(Values), p \in Seq(PendingSend) : b = heap.chan[c].buffer /\ p = heap.chan[c].pending
  BY BufferTypes
<1>9. Queues[c] = b \o ValuesOf(p) /\ ValuesOf(p) \in Seq(Values) /\ Len(Queues[c]) = Len(b) + Len(ValuesOf(p))
      /\ Len(b) \in Nat /\ Capacity[c] \in Nat /\ Len(ValuesOf(p)) \in Nat /\ Queues[c] \in Seq(Values)
  BY <1>8, QueueTypes
<1>10. Len(Queues[c]) >= Capacity[c]
  <2>1. Capacity[c] = 0 \/ Len(b) >= Capacity[c]
    BY <1>8 DEF Full
  <2>2. QED
    BY <1>9, <2>1
<1>11. PICK e \in PendingSend : e = [value |-> v, task |-> t] /\ e.value = v
  BY <1>2 DEF PendingSend
<1>12. PICK p2 \in Seq(PendingSend) : p2 = Append(p, e)
  BY AppendProperties
<1>13. PICK q \in Seq(Values) : q = Append(Queues[c], v)
  BY <1>9, AppendProperties
<1>14. b \o ValuesOf(p2) = q
  <2>1. b \o ValuesOf(Append(p, e)) = Append(b \o ValuesOf(p), e.value)
    BY QueueAppend
  <2>2. QED
    BY <1>9, <1>11, <1>12, <1>13, <2>1
<1>15. Moved(heap, heap', c, b, p2, heap.chan[c].completed, heap.chan[c].closed)
  BY <1>2, <1>8, <1>11, <1>12
<1>16. Queues' = [Queues EXCEPT ![c] = q] /\ ClosedChans' = ClosedChans
  <2>1. c \in Chans
    OBVIOUS
  <2>2. QED
    BY ONLY <1>14, <1>15, <2>1, OneQueue
<1>17. Queues' = [Queues EXCEPT ![c] = Append(@, v)]
  BY <1>13, <1>16
<1>18. c \notin ClosedChans
  BY DEF ClosedChans
<1>19. QED
  BY <1>6, <1>7, <1>10, <1>16, <1>17, <1>18, Offers DEF PromiseStep

\* A value, or the zero value of a closed channel, is received from a heap s with
\* the values of the channels.
LEMMA ReceiveStep ==
  ASSUME DataOK, SendInv, NEW t \in Tasks, Aside(t), NEW c \in Chans \cup {Nil},
         NEW s \in Heap, Listed(s), SameValues(heap, s), RecvReady(s, c), SameValues(Taken(s, c), heap'),
         got' = [got EXCEPT ![t] = Received(s, c)], sent' = sent
  PROVE  PromiseStep
<1>1. c \in Chans
  BY ReadyChannel
<1>2. PICK b \in Seq(Values), p \in Seq(PendingSend) : b = heap.chan[c].buffer /\ p = heap.chan[c].pending
  BY <1>1, BufferTypes
<1>3. PICK vs \in Seq(Values) : vs = ValuesOf(p)
  BY ValuesOfFacts
<1>4. Queues[c] = b \o vs
  BY <1>1, <1>2, <1>3, QueueTypes
<1>5. s.chan[c].buffer = b /\ s.chan[c].pending = p /\ s.chan[c].closed = heap.chan[c].closed
  BY <1>1, <1>2 DEF SameValues
<1>6. CASE HasValue(s, c)
  <2>1. Taken(s, c) = TakeValue(s, c) /\ Received(s, c) = FrontValue(s, c)
    BY <1>6 DEF Taken, Received
  <2> DEFINE co == heap.chan[c].completed
             cl == heap.chan[c].closed
             done == co \cup ({Head(p).task} \ {NoTask})
  <2>2. /\ p = <<>> => b # <<>> /\ Moved(heap, heap', c, Tail(b), p, co, cl)
        /\ p # <<>> /\ Capacity[c] = 0 => b = <<>> /\ Moved(heap, heap', c, b, Tail(p), done, cl)
        /\ p # <<>> /\ Capacity[c] # 0 => b # <<>> /\ Moved(heap, heap', c, Append(Tail(b), Head(p).value), Tail(p), done, cl)
    BY <1>1, <1>2, <1>6, <2>1, TakeMoves
  <2>3. p # <<>> /\ cl => done = co
    <3>1. SUFFICES ASSUME p # <<>>, cl PROVE Head(p).task = NoTask
      OBVIOUS
    <3>2. 1 \in DOMAIN p /\ Head(p) = p[1]
      BY <3>1, HeadTailProperties, LenProperties, EmptySeq
    <3>3. Accounted(c)
      BY <1>1 DEF SendInv
    <3>4. QED
      BY <1>2, <3>1, <3>2, <3>3 DEF Accounted
  <2>4. \E b2, p2, co2, q :
           /\ Moved(heap, heap', c, b2, p2, co2, cl) /\ (cl => co2 = co)
           /\ q = b2 \o ValuesOf(p2) /\ q = Tail(Queues[c])
           /\ Queues[c] # <<>> /\ Head(Queues[c]) = FrontValue(s, c)
    <3>1. CASE p = <<>>
      <4>1. vs = <<>> /\ Queues[c] = b /\ b # <<>>
        BY <1>3, <1>4, <2>2, <3>1, ValuesOfNone, ConcatEmptySeq
      <4>2. PICK b2 \in Seq(Values) : b2 = Tail(b)
        BY <4>1, HeadTailProperties
      <4>3. b2 \o ValuesOf(p) = b2
        BY <1>3, <4>1, ConcatEmptySeq
      <4>4. FrontValue(s, c) = Head(b)
        BY <1>5, <4>1 DEF FrontValue
      <4>5. Moved(heap, heap', c, b2, p, co, cl)
        BY <2>2, <3>1, <4>2
      <4> HIDE DEF co, cl, done
      <4>6. QED
        BY <4>1, <4>2, <4>3, <4>4, <4>5
    <3>2. CASE p # <<>> /\ Capacity[c] = 0
      <4>1. b = <<>> /\ Queues[c] = vs
        BY <1>4, <2>2, <3>2, ConcatEmptySeq
      <4>2. PICK p2 \in Seq(PendingSend) : p2 = Tail(p)
        BY <3>2, ValuesOfTail
      <4>3. vs # <<>> /\ Head(vs) = Head(p).value /\ Tail(vs) = ValuesOf(p2)
        BY <1>3, <3>2, <4>2, ValuesOfTail
      <4>4. ValuesOf(p2) \in Seq(Values) /\ b \o ValuesOf(p2) = ValuesOf(p2)
        BY <4>1, ValuesOfFacts, ConcatEmptySeq
      <4>5. FrontValue(s, c) = Head(p).value
        BY <1>5, <4>1 DEF FrontValue
      <4>6. Moved(heap, heap', c, b, p2, done, cl)
        BY <2>2, <3>2, <4>2
      <4> HIDE DEF co, cl, done
      <4>7. QED
        BY <2>3, <3>2, <4>1, <4>3, <4>4, <4>5, <4>6
    <3>3. CASE p # <<>> /\ Capacity[c] # 0
      <4>1. b # <<>>
        BY <2>2, <3>3
      <4>2. PICK p2 \in Seq(PendingSend) : p2 = Tail(p)
        BY <3>3, ValuesOfTail
      <4>3. vs # <<>> /\ Head(vs) = Head(p).value /\ Tail(vs) = ValuesOf(p2)
        BY <1>3, <3>3, <4>2, ValuesOfTail
      <4>4. PICK b1 \in Seq(Values) : b1 = Tail(b)
        BY <4>1, HeadTailProperties
      <4>5. Append(b1, Head(vs)) \o Tail(vs) = b1 \o vs
        BY <4>3, MoveFront
      <4>6. Head(b \o vs) = Head(b) /\ Tail(b \o vs) = b1 \o vs /\ b \o vs # <<>>
        BY <4>1, <4>4, TailConcat
      <4>7. PICK b2 : b2 = Append(b1, Head(p).value)
        OBVIOUS
      <4>8. b2 \in Seq(Values)
        BY <3>3, <4>7, ValuesOfTail, AppendProperties
      <4>9. FrontValue(s, c) = Head(b)
        BY <1>5, <4>1 DEF FrontValue
      <4>10. Moved(heap, heap', c, b2, p2, done, cl)
        BY <2>2, <3>3, <4>2, <4>4, <4>7
      <4>11. PICK q \in Seq(Values) : q = b1 \o vs
        BY ConcatProperties
      <4>12. q = b2 \o ValuesOf(p2) /\ q = Tail(Queues[c]) /\ Queues[c] # <<>> /\ Head(Queues[c]) = FrontValue(s, c)
        BY <1>4, <4>3, <4>5, <4>6, <4>7, <4>9, <4>11
      <4> HIDE DEF co, cl, done
      <4>13. QED
        BY <2>3, <3>3, <4>8, <4>10, <4>11, <4>12
    <3>4. QED
      BY <3>1, <3>2, <3>3
  <2>5. PICK b2, p2, co2, q : /\ Moved(heap, heap', c, b2, p2, co2, cl) /\ (cl => co2 = co)
                              /\ q = b2 \o ValuesOf(p2) /\ q = Tail(Queues[c])
                              /\ Queues[c] # <<>> /\ Head(Queues[c]) = FrontValue(s, c)
    BY <2>4
  <2>6. Queues' = [Queues EXCEPT ![c] = q] /\ ClosedChans' = ClosedChans
    <3>1. b2 \o ValuesOf(p2) = q
      BY <2>5
    <3>2. QED
      BY ONLY <1>1, <2>5, <3>1, OneQueue
  <2>7. Queues' = [Queues EXCEPT ![c] = Tail(@)]
    BY <2>5, <2>6
  <2>8. \A d \in Chans : /\ heap'.chan[d].closed = heap.chan[d].closed
                         /\ heap.chan[d].closed => heap'.chan[d].completed = heap.chan[d].completed
    BY <1>1, <2>5 DEF Moved
  <2>9. WaitingValues' = WaitingValues /\ RefusedValues' = RefusedValues
    BY <2>8, WaitingKept, RefusedKept
  <2>10. got' = [got EXCEPT ![t] = Head(Queues[c])]
    BY <2>1, <2>5
  <2>11. QED
    BY <1>1, <2>5, <2>6, <2>7, <2>9, <2>10, Receives DEF PromiseStep
<1>7. CASE ~HasValue(s, c)
  <2>1. SameValues(s, heap') /\ Received(s, c) = NoValue
    BY <1>7 DEF Taken, Received
  <2>2. b = <<>> /\ p = <<>> /\ heap.chan[c].closed
    BY <1>1, <1>5, <1>7, WaitableAssumption DEF HasValue, RecvReady
  <2>3. Queues[c] = <<>> /\ c \in ClosedChans
    BY <1>1, <1>3, <1>4, <2>2, ValuesOfNone, ConcatEmptySeq DEF ClosedChans
  <2>4. SameValues(heap, heap')
    BY <2>1, SameTwice
  <2>5. Queues' = Queues /\ ClosedChans' = ClosedChans
    BY <2>4, SameQueues
  <2>6. WaitingValues' = WaitingValues /\ RefusedValues' = RefusedValues
    BY <2>4, WaitingKept, RefusedKept DEF SameValues
  <2>7. QED
    BY <1>1, <2>1, <2>3, <2>5, <2>6, ReceivesClosed DEF PromiseStep
<1>8. QED
  BY <1>6, <1>7

-----------------------------------------------------------------------------
(* Values that leave a queue with their senders                               *)

LEMMA SameLength == ASSUME NEW m \in Nat, NEW n \in Nat, 1..m = 1..n PROVE m = n
<1>1. CASE m < n
  <2>1. n \in 1..n /\ n \notin 1..m
    BY <1>1
  <2>2. QED
    BY <2>1
<1>2. CASE n < m
  <2>1. m \in 1..m /\ m \notin 1..n
    BY <1>2
  <2>2. QED
    BY <2>1
<1>3. QED
  BY <1>1, <1>2

LEMMA KeepQueue ==
  ASSUME NEW b \in Seq(Values), NEW p \in Seq(PendingSend), NEW T, NEW gone, \A v \in Range(b) : v \notin gone,
         \A i \in DOMAIN p : p[i].value \in gone <=> p[i].task \in T
  PROVE  Keep(b \o ValuesOf(p), Values \ gone) = b \o ValuesOf(Keep(p, PendingNotOf(T)))
<1>1. PICK vs \in Seq(Values) : vs = ValuesOf(p) /\ DOMAIN vs = DOMAIN p /\ \A i \in DOMAIN p : vs[i] = p[i].value
  BY ValuesOfFacts
<1>2. Range(b) \subseteq Values \ gone
  BY ElementOfSeq, LenProperties DEF Range
<1>3. Keep(b, Values \ gone) = b
  BY <1>2, KeepAll
<1>4. Keep(b \o vs, Values \ gone) = Keep(b, Values \ gone) \o Keep(vs, Values \ gone)
  BY KeepConcat
<1>5. PICK kept : kept = PendingNotOf(T)
  OBVIOUS
<1>6. PICK others : others = Values \ gone
  OBVIOUS
<1>7. p \in Seq(PendingSend) /\ vs \in Seq(Values) /\ DOMAIN vs = DOMAIN p
  BY <1>1
<1>8. \A i \in DOMAIN p : p[i] \in kept <=> vs[i] \in others
  <2> SUFFICES ASSUME NEW i \in DOMAIN p PROVE p[i] \in kept <=> vs[i] \in others
    OBVIOUS
  <2>1. p[i] \in PendingSend /\ p[i].value \in Values
    BY PendingFields, ElementOfSeq, LenProperties
  <2>2. QED
    BY <1>1, <1>5, <1>6, <2>1 DEF PendingNotOf
<1>9. PICK q \in Seq(PendingSend) : q = Keep(p, kept)
  BY KeepFacts
<1>10. PICK r \in Seq(Values) : r = Keep(vs, others)
  BY <1>1, KeepFacts
<1>11. /\ DOMAIN Keep(vs, others) = DOMAIN Keep(p, kept)
       /\ \A n \in DOMAIN Keep(p, kept) : \E i \in DOMAIN p : Keep(p, kept)[n] = p[i] /\ Keep(vs, others)[n] = vs[i]
  BY ONLY <1>7, <1>8, KeepMatching
<1>12. DOMAIN r = DOMAIN q /\ \A n \in DOMAIN q : r[n] = q[n].value
  BY <1>1, <1>9, <1>10, <1>11
<1>13. ValuesOf(q) \in Seq(Values) /\ DOMAIN ValuesOf(q) = DOMAIN q /\ \A n \in DOMAIN q : ValuesOf(q)[n] = q[n].value
  BY <1>9, ValuesOfFacts
<1>14. r = ValuesOf(q)
  <2>1. PICK u \in Seq(Values) : u = ValuesOf(q) /\ DOMAIN u = DOMAIN q /\ \A n \in DOMAIN q : u[n] = q[n].value
    BY <1>13
  <2>2. DOMAIN r = 1..Len(r) /\ DOMAIN u = 1..Len(u) /\ Len(r) \in Nat /\ Len(u) \in Nat
    BY <1>10, <2>1, LenProperties
  <2>3. Len(r) = Len(u)
    BY <1>12, <2>1, <2>2, SameLength
  <2>4. \A n \in 1..Len(r) : r[n] = u[n]
    BY <1>12, <2>1, <2>2
  <2>5. r = u
    BY <1>10, <2>1, <2>3, <2>4, SeqEqual
  <2>6. QED
    BY <2>1, <2>5
<1>15. QED
  BY <1>1, <1>3, <1>4, <1>5, <1>6, <1>9, <1>10, <1>14

\* What is beyond the capacity of a channel is what is pending.
LEMMA BeyondPending ==
  ASSUME DataOK, SendInv, NEW c \in Chans
  PROVE  BeyondCapacity(c) = {heap.chan[c].pending[i].value : i \in DOMAIN heap.chan[c].pending}
<1>1. PICK b \in Seq(Values), p \in Seq(PendingSend) : b = heap.chan[c].buffer /\ p = heap.chan[c].pending
  BY BufferTypes
<1>2. PICK vs \in Seq(Values) : vs = ValuesOf(p) /\ Len(vs) = Len(p) /\ DOMAIN p = 1..Len(p) /\ \A i \in 1..Len(p) : vs[i] = p[i].value
  BY ValuesOfFacts
<1>3. PICK q \in Seq(Values) : q = Queues[c] /\ q = b \o vs
  BY <1>1, <1>2, QueueTypes
<1>4. /\ Len(b) \in Nat /\ Len(p) \in Nat /\ Len(q) = Len(b) + Len(p)
      /\ \A i \in 1..Len(p) : q[Len(b) + i] = vs[i]
  <2>1. /\ Len(b) \in Nat /\ Len(vs) \in Nat /\ Len(b \o vs) = Len(b) + Len(vs)
        /\ \A i \in 1..Len(vs) : (b \o vs)[Len(b) + i] = vs[i]
    BY ConcatFacts
  <2>2. QED
    BY <1>2, <1>3, <2>1
<1>5. PICK n \in Nat : n = Capacity[c]
  BY WaitableAssumption
<1>6. Len(b) <= n /\ (n > 0 /\ Len(p) # 0 => Len(b) = n)
  <2>1. Filled(heap.chan[c], Capacity[c])
    BY DEF SendInv, Accounted
  <2>2. Len(p) # 0 => p # <<>>
    OBVIOUS
  <2>3. QED
    BY <1>1, <1>5, <2>1, <2>2 DEF Filled
<1>7. BeyondCapacity(c) = {q[i] : i \in n + 1..Len(q)}
  BY <1>3, <1>5 DEF BeyondCapacity
<1>8. CASE Len(p) = 0
  <2>1. n + 1..Len(q) = {} /\ DOMAIN p = {}
    BY <1>2, <1>4, <1>6, <1>8
  <2>2. QED
    BY <1>1, <1>7, <2>1
<1>9. CASE Len(p) # 0
  <2>1. Len(b) = n
    BY <1>4, <1>6, <1>9
  <2>2. \A i \in n + 1..Len(q) : i - n \in 1..Len(p) /\ q[i] = p[i - n].value
    BY <1>2, <1>4, <2>1
  <2>3. \A i \in 1..Len(p) : n + i \in n + 1..Len(q) /\ q[n + i] = p[i].value
    BY <1>2, <1>4, <2>1
  <2>4. {q[i] : i \in n + 1..Len(q)} = {p[i].value : i \in DOMAIN p}
    <3>1. \A i \in n + 1..Len(q) : \E j \in DOMAIN p : q[i] = p[j].value
      BY <1>2, <2>2
    <3>2. \A j \in DOMAIN p : \E i \in n + 1..Len(q) : q[i] = p[j].value
      BY <1>2, <2>3
    <3>3. PICK A, B : A = {q[i] : i \in n + 1..Len(q)} /\ B = {p[i].value : i \in DOMAIN p}
      OBVIOUS
    <3>4. \A v \in A : v \in B
      BY <3>1, <3>3
    <3>5. \A v \in B : v \in A
      BY <3>2, <3>3
    <3>6. A = B
      BY <3>4, <3>5
    <3>7. QED
      BY <3>3, <3>6
  <2>5. QED
    BY <1>1, <1>7, <2>4
<1>10. QED
  BY <1>8, <1>9

\* A pending value is a waiting task's when the pending send is.
LEMMA PendingOf ==
  ASSUME DataOK, SendInv, NEW c \in Chans, NEW S \in SUBSET Waiting, NEW i \in DOMAIN heap.chan[c].pending,
         NEW e, e = heap.chan[c].pending[i]
  PROVE  /\ e.value \in {ValueOf(t) : t \in S} <=> e.task \in S
         /\ e.task # NoTask => /\ e.task \in Waiting /\ WaitsToSend(e.task, c) /\ e.task \in Tasks
                               /\ e.task \notin heap.chan[c].completed /\ e.value = ValueOf(e.task)
<1>1. e.task \in Tasks \cup {NoTask} /\ e.value \in Values
  BY BufferTypes, PendingFields
<1>2. IF e.task = NoTask THEN e.value \in sent
      ELSE WaitsToSend(e.task, c) /\ e.task \notin heap.chan[c].completed /\ e.value = ValueOf(e.task)
  BY DEF SendInv, Accounted
<1>3. e.task # NoTask => e.task \in Waiting
  BY <1>1, <1>2, WaitableAssumption DEF Waiting, WaitsToSend
<1>4. \A t \in Waiting : t \in Tasks /\ t # NoTask /\ task[t].pc = "send" /\ task[t].n \in Nat
  BY TaskFields, WaitableAssumption DEF Waiting
<1>5. ASSUME NEW t \in S, e.value = ValueOf(t) PROVE e.task = t
  <2>1. e.value[1] = t /\ e.value[2] = task[t].n
    BY <1>5 DEF ValueOf
  <2>2. e.value \notin sent
    <3>1. SUFFICES ASSUME e.value \in sent PROVE FALSE
      OBVIOUS
    <3>2. task[t].n < task[t].n \/ ~Unsent(t)
      BY <2>1, <3>1 DEF SendInv, SentOnce
    <3>3. QED
      BY <1>4, <3>2 DEF Unsent
  <2>3. e.value = ValueOf(e.task)
    BY <1>2, <2>2
  <2>4. QED
    BY <1>5, <2>3 DEF ValueOf
<1>6. QED
  BY <1>1, <1>2, <1>3, <1>4, <1>5

\* No buffered value is beyond the capacity and a waiting sender's.
LEMMA BufferedStays ==
  ASSUME DataOK, SendInv, NEW c \in Chans, NEW v \in Range(heap.chan[c].buffer)
  PROVE  v \notin WaitingValues \cap BeyondCapacity(c)
<1>1. SUFFICES ASSUME v \in WaitingValues, v \in BeyondCapacity(c) PROVE FALSE
  OBVIOUS
<1>2. PICK t \in Waiting : v = ValueOf(t)
  BY <1>1 DEF WaitingValues
<1>3. t \in Tasks /\ task[t].pc = "send" /\ task[t].n \in Nat /\ v[1] = t /\ v[2] = task[t].n
  BY <1>2, TaskFields DEF Waiting, ValueOf
<1>4. PICK i \in DOMAIN heap.chan[c].pending : v = heap.chan[c].pending[i].value
  BY <1>1, BeyondPending
<1>5. PICK e : e = heap.chan[c].pending[i]
  OBVIOUS
<1>6. e.task \in {t} /\ e.task \notin heap.chan[c].completed
  <2>1. PICK S \in SUBSET Waiting : S = {t}
    BY <1>2
  <2>2. e.value \in {ValueOf(u) : u \in S}
    BY <1>2, <1>4, <1>5, <2>1
  <2>3. e.task \in S
    BY <1>5, <2>2, PendingOf
  <2>4. e.task # NoTask
    BY <1>3, <2>1, <2>3, WaitableAssumption
  <2>5. QED
    BY <1>5, <2>1, <2>3, <2>4, PendingOf
<1>7. t \in heap.chan[c].completed
  BY <1>3 DEF SendInv, BufferedOnce, Unsent
<1>8. QED
  BY <1>6, <1>7

\* The values of the waiting tasks of T are taken out of what is beyond the capacity
\* of c.
LEMMA WithoutQueue ==
  ASSUME DataOK, SendInv, NEW c \in Chans, NEW T, NoTask \notin T,
         NEW gone, \A v : v \in gone <=> v \in BeyondCapacity(c) /\ \E t \in Waiting : t \in T /\ v = ValueOf(t)
  PROVE  heap.chan[c].buffer \o ValuesOf(Keep(heap.chan[c].pending, PendingNotOf(T))) = Keep(Queues[c], Values \ gone)
<1>1. PICK r \in Seq(PendingSend), b \in Seq(Values) : r = heap.chan[c].pending /\ b = heap.chan[c].buffer
  BY BufferTypes
<1>2. Queues[c] = b \o ValuesOf(r)
  BY <1>1, QueueTypes
<1>3. \A v \in Range(b) : v \notin gone
  <2>1. \A v \in gone : v \in WaitingValues \cap BeyondCapacity(c)
    BY DEF WaitingValues
  <2>2. QED
    BY <1>1, <2>1, BufferedStays
<1>4. ASSUME NEW i \in DOMAIN r PROVE r[i].value \in gone <=> r[i].task \in T
  <2>1. PICK e : e = heap.chan[c].pending[i] /\ i \in DOMAIN heap.chan[c].pending
    BY <1>1, <1>4
  <2>2. PICK S \in SUBSET Waiting : S = T \cap Waiting
    OBVIOUS
  <2>3. e.value \in {ValueOf(t) : t \in S} <=> e.task \in S
    BY <2>1, <2>2, PendingOf
  <2>4. e.value \in BeyondCapacity(c)
    BY <2>1, BeyondPending
  <2>5. e.value \in gone <=> e.value \in {ValueOf(t) : t \in S}
    BY <2>2, <2>4
  <2>6. e.task \in T <=> e.task \in S
    BY <2>1, <2>2, PendingOf
  <2>7. QED
    BY <1>1, <2>1, <2>3, <2>5, <2>6
<1>5. r \in Seq(PendingSend) /\ b \in Seq(Values)
  BY <1>1
<1>6. Keep(b \o ValuesOf(r), Values \ gone) = b \o ValuesOf(Keep(r, PendingNotOf(T)))
  BY ONLY <1>3, <1>4, <1>5, KeepQueue, Zenon
<1>7. QED
  BY <1>1, <1>2, <1>6, Zenon

\* The tasks of S stop waiting to send.
LEMMA LeaveWaiting ==
  ASSUME DataOK, NEW S \in SUBSET Waiting, Waiting' = Waiting \ S, \A u \in Waiting \ S : task'[u] = task[u],
         \A d \in Chans : /\ heap'.chan[d].closed = heap.chan[d].closed
                          /\ \A u \in Tasks \ S : u \in heap'.chan[d].completed <=> u \in heap.chan[d].completed,
         NEW gone, gone = {ValueOf(t) : t \in S}
  PROVE  WaitingValues' = WaitingValues \ gone /\ RefusedValues' = RefusedValues \ gone
<1>1. \A u \in Waiting : u \in Tasks /\ task[u].op[2] \in Chans
  BY WaitingOn
<1>2. RefusedTasks' = RefusedTasks \ S
  <2>1. RefusedTasks' = {u \in Waiting' : heap'.chan[task'[u].op[2]].closed /\ u \notin heap'.chan[task'[u].op[2]].completed}
    BY DEF RefusedTasks
  <2>2. \A u \in Waiting \ S : /\ heap'.chan[task'[u].op[2]].closed <=> heap.chan[task[u].op[2]].closed
                               /\ u \in heap'.chan[task'[u].op[2]].completed <=> u \in heap.chan[task[u].op[2]].completed
    BY <1>1
  <2>3. QED
    BY <2>1, <2>2 DEF RefusedTasks
<1>3. WaitingValues' = {<<u, task'[u].n>> : u \in Waiting'} /\ RefusedValues' = {<<u, task'[u].n>> : u \in RefusedTasks'}
  BY DEF WaitingValues, RefusedValues, ValueOf
<1>4. WaitingValues = {<<u, task[u].n>> : u \in Waiting} /\ RefusedValues = {<<u, task[u].n>> : u \in RefusedTasks}
      /\ gone = {<<u, task[u].n>> : u \in S}
  BY DEF WaitingValues, RefusedValues, ValueOf
<1>5. RefusedTasks \subseteq Waiting
  BY DEF RefusedTasks
<1>6. WaitingValues' = WaitingValues \ gone
  BY <1>3, <1>4
<1>7. RefusedValues' = RefusedValues \ gone
  BY <1>2, <1>3, <1>4, <1>5
<1>8. QED
  BY <1>6, <1>7

\* A channel is closed.
LEMMA CloseStepCloses ==
  ASSUME DataOK, SendInv, NEW t, Aside(t), NEW c \in Chans, ~heap.chan[c].closed,
         Moved(heap, heap', c, heap.chan[c].buffer, Keep(heap.chan[c].pending, PendingNotOf(Tasks)),
               heap.chan[c].completed, TRUE),
         sent' = sent, got' = got
  PROVE  PromiseStep
<1>1. PICK b, p : b = heap.chan[c].buffer /\ p = Keep(heap.chan[c].pending, PendingNotOf(Tasks))
  OBVIOUS
<1>2. PICK gone : gone = WaitingValues \cap BeyondCapacity(c)
  OBVIOUS
<1>3. b \o ValuesOf(p) = Keep(Queues[c], Values \ gone)
  <2>1. \A v : v \in gone <=> v \in BeyondCapacity(c) /\ \E u \in Waiting : u \in Tasks /\ v = ValueOf(u)
    BY <1>2 DEF WaitingValues, Waiting
  <2>2. NoTask \notin Tasks
    BY WaitableAssumption
  <2>3. heap.chan[c].buffer \o ValuesOf(Keep(heap.chan[c].pending, PendingNotOf(Tasks))) = Keep(Queues[c], Values \ gone)
    BY <2>1, <2>2, WithoutQueue
  <2>4. QED
    BY <1>1, <2>3
<1>4. PICK q : q = Keep(Queues[c], Values \ gone)
  OBVIOUS
<1>5. Moved(heap, heap', c, b, p, heap.chan[c].completed, TRUE)
  BY <1>1
<1>6. Queues' = [Queues EXCEPT ![c] = q]
  <2>1. b \o ValuesOf(p) = q /\ c \in Chans
    BY <1>3, <1>4
  <2>2. QED
    BY ONLY <1>5, <2>1, OneQueue
<1>7. ClosedChans' = ClosedChans \cup {c}
  <2>1. ClosedChans' = {d \in Chans : heap'.chan[d].closed}
    BY DEF ClosedChans
  <2>2. \A d \in Chans : heap'.chan[d].closed <=> (heap.chan[d].closed \/ d = c)
    BY <1>5 DEF Moved
  <2>3. QED
    BY <2>1, <2>2 DEF ClosedChans
<1>8. Waiting' = Waiting /\ WaitingValues' = WaitingValues
      /\ \A u \in Waiting : u \in Tasks /\ task'[u] = task[u] /\ task[u].op[2] \in Chans /\ WaitsToSend(u, task[u].op[2])
  BY WaitingKept, WaitingOn
<1>9. PICK dropped : dropped = {u \in Waiting : task[u].op[2] = c /\ u \notin heap.chan[c].completed}
  OBVIOUS
<1>10. RefusedTasks' = RefusedTasks \cup dropped
  <2>1. RefusedTasks' = {u \in Waiting' : heap'.chan[task'[u].op[2]].closed /\ u \notin heap'.chan[task'[u].op[2]].completed}
    BY DEF RefusedTasks
  <2>2. \A d \in Chans : /\ heap'.chan[d].closed <=> (heap.chan[d].closed \/ d = c)
                         /\ heap'.chan[d].completed = heap.chan[d].completed
    BY <1>5 DEF Moved
  <2>3. \A u \in Waiting : u \in RefusedTasks' <=> (u \in RefusedTasks \/ u \in dropped)
    BY <1>8, <1>9, <2>1, <2>2 DEF RefusedTasks
  <2>4. RefusedTasks' \subseteq Waiting /\ RefusedTasks \subseteq Waiting /\ dropped \subseteq Waiting
    BY <1>8, <1>9, <2>1 DEF RefusedTasks
  <2>5. QED
    BY <2>3, <2>4
<1>11. gone = {<<u, task[u].n>> : u \in dropped}
  <2>1. ASSUME NEW v \in gone PROVE \E u \in dropped : v = <<u, task[u].n>>
    <3>1. PICK i \in DOMAIN heap.chan[c].pending : v = heap.chan[c].pending[i].value
      BY <1>2, BeyondPending
    <3>2. PICK e : e = heap.chan[c].pending[i]
      OBVIOUS
    <3>3. PICK S \in SUBSET Waiting : S = Waiting
      OBVIOUS
    <3>4. e.value \in {ValueOf(u) : u \in S}
      BY <1>2, <3>1, <3>2, <3>3 DEF WaitingValues
    <3>5. e.task \in Waiting
      BY <3>2, <3>3, <3>4, PendingOf
    <3>6. e.task # NoTask
      BY <3>5, WaitableAssumption DEF Waiting
    <3>7. WaitsToSend(e.task, c) /\ e.task \notin heap.chan[c].completed /\ e.value = ValueOf(e.task)
      BY <3>2, <3>3, <3>6, PendingOf
    <3>8. QED
      BY <1>9, <3>1, <3>2, <3>5, <3>7, Zenon DEF WaitsToSend, ValueOf
  <2>2. ASSUME NEW u \in dropped PROVE <<u, task[u].n>> \in gone
    <3>1. u \in Waiting /\ u \in Tasks /\ WaitsToSend(u, c) /\ u \notin heap.chan[c].completed
      BY <1>8, <1>9
    <3>2. PICK i \in DOMAIN heap.chan[c].pending : heap.chan[c].pending[i].task = u
      BY <3>1 DEF SendInv, Accounted
    <3>3. PICK e : e = heap.chan[c].pending[i]
      OBVIOUS
    <3>4. u # NoTask
      BY <3>1, WaitableAssumption
    <3>5. e.value = ValueOf(u)
      BY <3>2, <3>3, <3>4, PendingOf
    <3>6. ValueOf(u) \in BeyondCapacity(c)
      BY <3>2, <3>3, <3>5, BeyondPending
    <3>7. QED
      BY <1>2, <3>1, <3>6 DEF WaitingValues, ValueOf
  <2>3. PICK D : D = {<<u, task[u].n>> : u \in dropped}
    OBVIOUS
  <2>4. \A v \in gone : v \in D
    BY <2>1, <2>3
  <2>5. \A v \in D : v \in gone
    BY <2>2, <2>3
  <2>6. QED
    BY <2>3, <2>4, <2>5
<1>12. RefusedValues' = RefusedValues \cup (BeyondCapacity(c) \cap WaitingValues)
  <2>1. RefusedValues' = {<<u, task'[u].n>> : u \in RefusedTasks'} /\ RefusedValues = {<<u, task[u].n>> : u \in RefusedTasks}
    BY DEF RefusedValues, ValueOf
  <2>2. \A u \in RefusedTasks \cup dropped : task'[u] = task[u]
    BY <1>8, <1>9 DEF RefusedTasks
  <2>3. RefusedValues' = RefusedValues \cup gone
    BY <1>10, <1>11, <2>1, <2>2
  <2>4. QED
    BY <1>2, <2>3
<1>13. gone = BeyondCapacity(c) \cap WaitingValues
  BY <1>2
<1>14. Queues' = [Queues EXCEPT ![c] = Keep(Queues[c], Values \ (BeyondCapacity(c) \cap WaitingValues))]
  BY <1>4, <1>6, <1>13
<1>15. c \notin ClosedChans
  BY DEF ClosedChans
<1>16. QED
  BY <1>7, <1>8, <1>12, <1>14, <1>15, Closes DEF PromiseStep

\* A step to w of t, which waited to send on c.
LEMMA StopsWaiting ==
  ASSUME DataOK, NEW t \in Tasks, NEW w, w.pc # "send", task' = [task EXCEPT ![t] = w], NEW c \in Chans, WaitsToSend(t, c),
         \A d \in Chans : /\ heap'.chan[d].closed = heap.chan[d].closed
                          /\ \A u \in Tasks \ {t} : u \in heap'.chan[d].completed <=> u \in heap.chan[d].completed,
         NEW v, v = ValueOf(t)
  PROVE  /\ t \in Waiting /\ v \in WaitingValues /\ v \in Values
         /\ WaitingValues' = WaitingValues \ {v} /\ RefusedValues' = RefusedValues \ {v}
<1>1. task'[t] = w /\ \A u \in Tasks : u # t => task'[u] = task[u]
  BY DEF DataOK
<1>2. t \in Waiting
  BY WaitableAssumption DEF Waiting, WaitsToSend
<1>3. PICK S \in SUBSET Waiting : S = {t}
  BY <1>2
<1>4. Waiting' = Waiting \ S
  <2>1. \A u \in Tasks : u \in Waiting' <=> (u \in Waiting /\ u # t)
    BY <1>1 DEF Waiting
  <2>2. Waiting' \subseteq Tasks /\ Waiting \subseteq Tasks
    BY DEF Waiting
  <2>3. QED
    BY <1>3, <2>1, <2>2
<1>5. \A u \in Waiting \ S : task'[u] = task[u]
  BY <1>1, <1>3 DEF Waiting
<1>6. PICK gone : gone = {ValueOf(u) : u \in S}
  OBVIOUS
<1>7. gone = {v}
  BY <1>3, <1>6
<1>8. \A d \in Chans : /\ heap'.chan[d].closed = heap.chan[d].closed
                       /\ \A u \in Tasks \ S : u \in heap'.chan[d].completed <=> u \in heap.chan[d].completed
  BY <1>3
<1>9. WaitingValues' = WaitingValues \ gone /\ RefusedValues' = RefusedValues \ gone
  BY <1>4, <1>5, <1>6, <1>8, LeaveWaiting
<1>10. v \in WaitingValues /\ v \in Values
  BY <1>2, WaitingOn DEF WaitingValues
<1>11. QED
  BY <1>2, <1>7, <1>9, <1>10

LEMMA RefusedIs ==
  ASSUME DataOK, NEW t \in Waiting
  PROVE  ValueOf(t) \in RefusedValues <=> t \in RefusedTasks
BY DEF RefusedValues, ValueOf

\* The send was completed and returns.
LEMMA ReturnStepReturns ==
  ASSUME DataOK, SendInv, NEW t \in Tasks, NEW w, w.pc # "send", task' = [task EXCEPT ![t] = w],
         NEW c \in Chans, WaitsToSend(t, c), t \in heap.chan[c].completed,
         Moved(heap, heap', c, heap.chan[c].buffer, heap.chan[c].pending, heap.chan[c].completed \ {t}, heap.chan[c].closed),
         sent' = sent \cup {ValueOf(t)}, got' = got
  PROVE  PromiseStep
<1>1. PICK v : v = ValueOf(t)
  OBVIOUS
<1>2. /\ \A d \in Chans : /\ heap'.chan[d].closed = heap.chan[d].closed
                          /\ \A u \in Tasks \ {t} : u \in heap'.chan[d].completed <=> u \in heap.chan[d].completed
  BY DEF Moved
<1>3. /\ t \in Waiting /\ v \in WaitingValues /\ v \in Values
      /\ WaitingValues' = WaitingValues \ {v} /\ RefusedValues' = RefusedValues \ {v}
  BY <1>1, <1>2, StopsWaiting
<1>4. v \notin RefusedValues
  <2>1. t \notin RefusedTasks
    BY DEF RefusedTasks, WaitsToSend
  <2>2. QED
    BY <1>1, <1>3, <2>1, RefusedIs
<1>5. ASSUME NEW d \in Chans PROVE v \notin BeyondCapacity(d)
  <2>1. SUFFICES ASSUME v \in BeyondCapacity(d) PROVE FALSE
    OBVIOUS
  <2>2. PICK i \in DOMAIN heap.chan[d].pending : v = heap.chan[d].pending[i].value
    BY <2>1, BeyondPending
  <2>3. PICK e : e = heap.chan[d].pending[i]
    OBVIOUS
  <2>4. PICK S \in SUBSET Waiting : S = {t}
    BY <1>3
  <2>5. e.value \in {ValueOf(u) : u \in S}
    BY <1>1, <2>2, <2>3, <2>4
  <2>6. e.task \in S
    BY <2>2, <2>3, <2>4, <2>5, PendingOf
  <2>7. e.task # NoTask /\ e.task = t
    BY <2>4, <2>6, WaitableAssumption
  <2>8. WaitsToSend(t, d) /\ t \notin heap.chan[d].completed
    BY <2>3, <2>4, <2>7, PendingOf
  <2>9. QED
    BY <2>8 DEF WaitsToSend
<1>6. Queues' = Queues /\ ClosedChans' = ClosedChans
  <2>1. \A d \in Chans : QueueOf(heap'.chan[d]) = QueueOf(heap.chan[d]) /\ heap'.chan[d].closed = heap.chan[d].closed
    BY DEF Moved, QueueOf
  <2>2. Queues' = [d \in Chans |-> QueueOf(heap'.chan[d])] /\ ClosedChans' = {d \in Chans : heap'.chan[d].closed}
    BY DEF Queues, ClosedChans
  <2>3. QED
    BY <2>1, <2>2 DEF Queues, ClosedChans
<1>7. sent' = sent \cup {v} /\ RefusedValues' = RefusedValues
  BY <1>1, <1>3, <1>4
<1>8. QED
  BY <1>3, <1>4, <1>5, <1>6, <1>7, Returns DEF PromiseStep

\* The channel was closed: the send panics.
LEMMA RefuseStepRefuses ==
  ASSUME DataOK, SendInv, NEW t \in Tasks, NEW w, w.pc # "send", task' = [task EXCEPT ![t] = w],
         NEW c \in Chans, WaitsToSend(t, c), t \notin heap.chan[c].completed, heap.chan[c].closed,
         heap' = heap, sent' = sent, got' = got
  PROVE  PromiseStep
<1>1. PICK v : v = ValueOf(t)
  OBVIOUS
<1>2. /\ t \in Waiting /\ v \in WaitingValues /\ v \in Values
      /\ WaitingValues' = WaitingValues \ {v} /\ RefusedValues' = RefusedValues \ {v}
  BY <1>1, StopsWaiting
<1>3. v \in RefusedValues
  <2>1. t \in RefusedTasks
    BY <1>2 DEF RefusedTasks, WaitsToSend
  <2>2. QED
    BY <1>1, <1>2, <2>1, RefusedIs
<1>4. Queues' = Queues /\ ClosedChans' = ClosedChans
  BY SameQueues DEF SameValues
<1>5. QED
  BY <1>2, <1>3, <1>4, Refuses DEF PromiseStep

\* The tasks of S are aborted.
LEMMA WithdrawStepWithdraws ==
  ASSUME DataOK, SendInv, NEW S \in SUBSET Tasks,
         task' = [t \in Tasks |-> IF t \in S THEN Aborted(task[t].n) ELSE task[t]],
         \A c \in Chans : /\ heap'.chan[c].buffer = heap.chan[c].buffer
                          /\ heap'.chan[c].pending = Keep(heap.chan[c].pending, PendingNotOf(Senders(S, c)))
                          /\ heap'.chan[c].completed = heap.chan[c].completed \ Senders(S, c)
                          /\ heap'.chan[c].closed = heap.chan[c].closed,
         sent' = sent, got' = got
  PROVE  PromiseStep
<1>1. \A u \in Tasks : /\ u \in S => task'[u].pc = "done"
                       /\ u \notin S => task'[u] = task[u]
  BY AbortedFields
<1>2. PICK W \in SUBSET Waiting : W = S \cap Waiting
  OBVIOUS
<1>3. PICK gone : gone = {ValueOf(u) : u \in W}
  OBVIOUS
<1>4. gone \in SUBSET WaitingValues
  BY <1>2, <1>3 DEF WaitingValues
<1>5. Waiting' = Waiting \ W
  <2>1. \A u \in Tasks : u \in Waiting' <=> (u \in Waiting /\ u \notin S)
    BY <1>1 DEF Waiting
  <2>2. Waiting' \subseteq Tasks /\ Waiting \subseteq Tasks
    BY DEF Waiting
  <2>3. QED
    BY <1>2, <2>1, <2>2
<1>6. \A u \in Waiting \ W : task'[u] = task[u]
  BY <1>1, <1>2 DEF Waiting
<1>7. ASSUME NEW d \in Chans, NEW u \in Tasks \ W
      PROVE  u \in heap'.chan[d].completed <=> u \in heap.chan[d].completed
  <2>1. u \in heap.chan[d].completed => WaitsToSend(u, d)
    BY DEF SendInv, Accounted
  <2>2. u \in Senders(S, d) => u \notin heap.chan[d].completed
    <3>1. u \in Senders(S, d) => u \in S /\ u \in Waiting
      BY WaitableAssumption DEF Senders, Waiting
    <3>2. QED
      BY <1>2, <3>1
  <2>3. QED
    BY <2>1, <2>2
<1>8. WaitingValues' = WaitingValues \ gone /\ RefusedValues' = RefusedValues \ gone
  <2>1. \A d \in Chans : /\ heap'.chan[d].closed = heap.chan[d].closed
                         /\ \A u \in Tasks \ W : u \in heap'.chan[d].completed <=> u \in heap.chan[d].completed
    BY <1>7
  <2>2. QED
    BY <1>3, <1>5, <1>6, <2>1, LeaveWaiting
<1>9. ASSUME NEW c \in Chans
      PROVE  QueueOf(heap'.chan[c]) = Keep(Queues[c], Values \ (gone \cap BeyondCapacity(c)))
  <2>1. PICK T : T = Senders(S, c)
    OBVIOUS
  <2>2. PICK out : out = gone \cap BeyondCapacity(c)
    OBVIOUS
  <2>3. ASSUME NEW v \in out PROVE \E t \in Waiting : t \in T /\ v = ValueOf(t)
    <3>1. PICK i \in DOMAIN heap.chan[c].pending : v = heap.chan[c].pending[i].value
      BY <2>2, BeyondPending
    <3>2. PICK e : e = heap.chan[c].pending[i]
      OBVIOUS
    <3>3. e.value \in {ValueOf(u) : u \in W}
      BY <1>3, <2>2, <3>1, <3>2
    <3>4. e.task \in W
      BY <1>2, <3>1, <3>2, <3>3, PendingOf
    <3>5. e.task # NoTask
      BY <1>2, <3>4, WaitableAssumption DEF Waiting
    <3>6. WaitsToSend(e.task, c) /\ e.value = ValueOf(e.task)
      BY <3>1, <3>2, <3>5, PendingOf
    <3>7. QED
      BY <1>2, <2>1, <3>1, <3>2, <3>4, <3>6, Zenon DEF Senders, WaitsToSend
  <2>4. ASSUME NEW t \in Waiting, t \in T PROVE ValueOf(t) \in gone
    BY <1>2, <1>3, <2>1, <2>4 DEF Senders
  <2>5. \A v : v \in out <=> v \in BeyondCapacity(c) /\ \E t \in Waiting : t \in T /\ v = ValueOf(t)
    BY <2>2, <2>3, <2>4
  <2>6. NoTask \notin T
    BY <2>1, WaitableAssumption DEF Senders
  <2>7. heap.chan[c].buffer \o ValuesOf(Keep(heap.chan[c].pending, PendingNotOf(T))) = Keep(Queues[c], Values \ out)
    <3>1. DataOK /\ SendInv /\ c \in Chans
      OBVIOUS
    <3>2. QED
      BY ONLY <2>5, <2>6, <3>1, WithoutQueue
  <2>8. heap'.chan[c].buffer = heap.chan[c].buffer /\ heap'.chan[c].pending = Keep(heap.chan[c].pending, PendingNotOf(T))
    BY <2>1
  <2>9. QED
    BY <2>2, <2>7, <2>8 DEF QueueOf
<1>10. Queues' = [c \in Chans |-> Keep(Queues[c], Values \ (gone \cap BeyondCapacity(c)))]
  <2>1. Queues' = [c \in Chans |-> QueueOf(heap'.chan[c])]
    BY DEF Queues
  <2>2. QED
    BY <1>9, <2>1
<1>11. ClosedChans' = ClosedChans
  <2>1. ClosedChans' = {d \in Chans : heap'.chan[d].closed}
    BY DEF ClosedChans
  <2>2. QED
    BY <2>1 DEF ClosedChans
<1>12. QED
  BY <1>4, <1>8, <1>10, <1>11, Withdraws DEF PromiseStep

-----------------------------------------------------------------------------
(* Task records                                                            *)

LEMMA Parts == /\ IInv <=> MachineOK /\ Scanned /\ DataOK /\ WaitInv /\ SendInv
               /\ IInv' <=> MachineOK' /\ Scanned' /\ DataOK' /\ WaitInv' /\ SendInv'
<1>1. IInv <=> MachineOK /\ Scanned /\ DataOK /\ WaitInv /\ SendInv
  BY DEF IInv, TypeOK, MachineOK, DataOK
<1>2. IInv' <=> MachineOK' /\ Scanned' /\ DataOK' /\ WaitInv' /\ SendInv'
  BY DEF IInv, TypeOK, MachineOK, DataOK
<1>3. QED
  BY <1>1, <1>2

LEMMA IdleFacts ==
  ASSUME NEW n \in 0..MaxOps
  PROVE  /\ Idle(n) \in TaskType /\ Idle(n).pc = "run" /\ Idle(n).n = n /\ Idle(n).cases = <<>>
         /\ Aborted(n) \in TaskType
<1>1. 0 \in 0..MaxCases + 1 /\ {<<>>} \subseteq {<<>>} \cup Selects
  BY ChannelsAssumption
<1>2. <<"recv", Nil>> \in Case
  BY DEF Case, Directions
<1>3. PICK o \in Case : o = <<"recv", Nil>>
  BY <1>2
<1>4. Idle(n) = [pc |-> "run", n |-> n, cases |-> <<>>, dflt |-> FALSE, refl |-> FALSE, k |-> 0, op |-> o]
  BY <1>3 DEF Idle
<1>5. Idle(n) \in TaskType /\ Idle(n).pc = "run" /\ Idle(n).n = n /\ Idle(n).cases = <<>>
  BY <1>1, <1>4 DEF TaskType, Pcs
<1>6. Aborted(n) \in TaskType
  BY <1>5 DEF Aborted, TaskType, Pcs
<1>7. QED
  BY <1>5, <1>6

LEMMA ReturnedFacts ==
  ASSUME NEW me \in TaskType
  PROVE  /\ Returned(me) \in TaskType /\ Returned(me).n = me.n /\ Returned(me).pc \in {"run", "body"}
<1>1. me.n \in 0..MaxOps
  BY DEF TaskType
<1>2. CASE me.cases = <<>>
  BY <1>1, <1>2, IdleFacts DEF Returned
<1>3. CASE me.cases # <<>>
  <2>1. Returned(me) = [me EXCEPT !.pc = "body"]
    BY <1>3 DEF Returned
  <2>2. QED
    BY <2>1 DEF TaskType, Pcs
<1>4. QED
  BY <1>2, <1>3

\* me, blocked on channel c.
Blocking(me, pc, c) == [me EXCEPT !.pc = pc, !.op = <<pc, c>>]

LEMMA BlockingFacts ==
  ASSUME NEW me \in TaskType, NEW pc \in {"send", "recv"}, NEW c \in Chans \cup {Nil}
  PROVE  LET w == Blocking(me, pc, c)
         IN  w \in TaskType /\ w.pc = pc /\ w.n = me.n /\ w.op[1] = pc /\ w.op[2] = c
<1>1. <<pc, c>> \in Case
  BY DEF Case, Directions
<1>2. PICK o : o = <<pc, c>> /\ o \in Case /\ o[1] = pc /\ o[2] = c
  BY <1>1
<1>3. Blocking(me, pc, c) = [me EXCEPT !.pc = pc, !.op = o]
  BY <1>2 DEF Blocking
<1>4. [me EXCEPT !.pc = pc, !.op = o] \in TaskType
  BY <1>2 DEF TaskType, Pcs
<1>5. [me EXCEPT !.pc = pc, !.op = o].pc = pc /\ [me EXCEPT !.pc = pc, !.op = o].n = me.n
      /\ [me EXCEPT !.pc = pc, !.op = o].op = o
  BY DEF TaskType
<1>6. QED
  BY <1>2, <1>3, <1>4, <1>5

LEMMA OneTask ==
  ASSUME DataOK, NEW t \in Tasks, NEW me \in TaskType, task' = [task EXCEPT ![t] = me],
         me.pc = "register" => me.k \in 1..Len(me.cases), me.pc \notin {"run", "done"} => me.n > 0,
         heap' \in Heap, got' \in [Tasks -> Values \cup {NoValue}], sent' \in SUBSET Values
  PROVE  DataOK'
<1>1. task'[t] = me /\ \A u \in Tasks : u # t => task'[u] = task[u]
  BY DEF DataOK
<1>2. task' \in [Tasks -> TaskType]
  BY DEF DataOK
<1>3. \A u \in Tasks : task'[u].pc = "register" => task'[u].k \in 1..Len(task'[u].cases)
  BY <1>1 DEF DataOK
<1>4. Numbered'
  BY <1>1 DEF DataOK, Numbered
<1>5. QED
  BY <1>2, <1>3, <1>4 DEF DataOK

\* A step of t to me that changes only the waiting lists, if anything.
LEMMA PlainQuiet ==
  ASSUME DataOK, WaitInv, SendInv, NEW t \in Tasks, NEW me \in TaskType, Quiet(t, me), me.pc \in Plain,
         me.pc \notin {"run", "done"} => me.n > 0,
         heap' \in Heap, Listed(heap'), ClosedUnlisted(heap'), SameValues(heap, heap'), TokensKept(heap, heap', t, me.n),
         sent' = sent, got' = got
  PROVE  DataOK' /\ WaitInv' /\ SendInv' /\ PromiseStep
<1>1. task' = [task EXCEPT ![t] = me] /\ me.n \in task[t].n..MaxOps
  BY DEF Quiet, Moves
<1>2. DataOK'
  <2>1. me.pc # "register" /\ sent' \in SUBSET Values /\ got' \in [Tasks -> Values \cup {NoValue}]
    BY DEF Plain, DataOK
  <2>2. QED
    BY <1>1, <2>1, OneTask
<1>3. WaitInv'
  BY <1>1, PlainStep
<1>4. \A c \in Chans : SameChannel(c)
  BY DEF SameValues, SameChannel
<1>5. SendInv'
  BY <1>4, QuietStep
<1>6. PromiseStep
  <2>1. Aside(t)
    BY <1>1, QuietAside DEF Quiet
  <2>2. QED
    BY <2>1, StutterStep
<1>7. QED
  BY <1>2, <1>3, <1>5, <1>6

LEMMA SameHeap ==
  ASSUME DataOK, WaitInv, heap' = heap
  PROVE  /\ heap' \in Heap /\ Listed(heap') /\ ClosedUnlisted(heap') /\ SameValues(heap, heap')
         /\ \A t, n : TokensKept(heap, heap', t, n)
BY DEF DataOK, WaitInv, SameValues, TokensKept, TokenKept

\* A task that changes nothing but its own place.
LEMMA PlaceStep ==
  ASSUME DataOK, WaitInv, SendInv, NEW t \in Tasks, NEW me \in TaskType, Quiet(t, me), me.pc \in Plain,
         me.pc \notin {"run", "done"} => me.n > 0, UNCHANGED <<heap, sent, got>>
  PROVE  DataOK' /\ WaitInv' /\ SendInv' /\ PromiseStep
<1>1. heap' = heap /\ sent' = sent /\ got' = got
  OBVIOUS
<1>2. QED
  BY <1>1, SameHeap, PlainQuiet

\* t goes on with the record me: it begins a communication, or does that of a
\* chosen case.
Acts(t, me) ==
    /\ current = t /\ me \in TaskType /\ me.n \in 1..MaxOps
    /\ (me.n > task[t].n /\ task[t].pc = "run") \/ (me = task[t] /\ task[t].pc = "commit")

LEMMA BegunActs ==
  ASSUME DataOK, NEW t \in Tasks, Begins(t)
  PROVE  Acts(t, Begun(t)) /\ Begun(t).n = task[t].n + 1 /\ Begun(t).pc = "run" /\ Begun(t).cases = <<>>
<1>1. task[t].n + 1 \in 1..MaxOps /\ task[t].n \in Nat
  BY TaskFields, ChannelsAssumption DEF Begins
<1>2. task[t].n + 1 \in 0..MaxOps
  BY <1>1, ChannelsAssumption
<1>3. /\ Begun(t) \in TaskType /\ Begun(t).pc = "run" /\ Begun(t).n = task[t].n + 1 /\ Begun(t).cases = <<>>
  BY <1>2, IdleFacts DEF Begun
<1>4. QED
  BY <1>1, <1>3 DEF Acts, Begins

LEMMA CommitActs ==
  ASSUME DataOK, NEW t \in Tasks, current = t, task[t].pc = "commit"
  PROVE  Acts(t, task[t])
BY TaskFields DEF Acts

\* t's next record w, in the same communication as me.
LEMMA ActsMoves ==
  ASSUME DataOK, NEW t \in Tasks, NEW me, Acts(t, me), NEW w, w.n = me.n, task' = [task EXCEPT ![t] = w]
  PROVE  Moves(t, w) /\ NotSending(task[t]) /\ (NotSending(w) => Quiet(t, w)) /\ w.n > 0 /\ w.n \in Nat
<1>1. task[t].n \in Nat /\ me.n \in Nat /\ me.n > 0
  BY TaskFields, ChannelsAssumption DEF Acts
<1>2. Moves(t, w)
  BY <1>1, ChannelsAssumption DEF Acts, Moves, UnsentPcs
<1>3. NotSending(task[t])
  BY DEF Acts, NotSending
<1>4. QED
  BY <1>1, <1>2, <1>3 DEF Quiet

LEMMA NothingListed ==
  ASSUME NEW list \in Seq(Tokens), \A k \in Tokens : k \notin Range(list)
  PROVE  list = <<>>
<1>1. ASSUME list # <<>> PROVE FALSE
  <2>1. Len(list) \in Nat /\ Len(list) # 0 /\ DOMAIN list = 1..Len(list)
    BY <1>1, LenProperties, EmptySeq
  <2>2. list[1] \in Tokens /\ 1 \in DOMAIN list
    BY <2>1, ElementOfSeq
  <2>3. QED
    BY <2>2 DEF Range
<1>2. QED
  BY <1>1

LEMMA WaitsUnlisted ==
  ASSUME NEW s \in Heap, Listed(s), ClosedUnlisted(s), NEW k \in Tokens, s.token[k] = NewToken, NEW r, NEW c, NEW dir,
         Waits(s, r, k, c, dir)
  PROVE  r \in Heap /\ Listed(r) /\ SameValues(s, r) /\ ClosedUnlisted(r)
<1>1. r \in Heap /\ Listed(r) /\ SameValues(s, r) /\ \A d \in Chans : r.chan[d].closed = s.chan[d].closed
  BY DEF Waits, SameValues
<1>2. NoneNewOnClosed(s, r)
  <2> SUFFICES ASSUME NEW m \in Tokens, NEW x \in r.token[m].registrations
               PROVE  x \in s.token[m].registrations \/ ~s.chan[x[1]].closed
    BY DEF NoneNewOnClosed
  <2>1. CASE m = k
    BY <2>1 DEF Waits
  <2>2. CASE m # k
    BY <2>2 DEF Waits
  <2>3. QED
    BY <2>1, <2>2
<1>3. QED
  BY <1>1, <1>2, StillUnlisted

\* The token a receive would wait with is unused.
LEMMA ActsFresh ==
  ASSUME DataOK, WaitInv, NEW t \in Tasks, NEW me, Acts(t, me)
  PROVE  <<t, me.n, 0>> \in Tokens /\ heap.token[<<t, me.n, 0>>] = NewToken
<1>1. me.n \in 1..MaxOps /\ 0 \in 0..MaxCases /\ task[t].n \in Nat
  BY TaskFields, ChannelsAssumption DEF Acts
<1>2. <<t, me.n, 0>> \in Tokens
  BY <1>1, TokenTypes
<1>3. Unused(t, me.n, 0)
  BY <1>1 DEF Acts, Unused
<1>4. QED
  BY <1>1, <1>2, <1>3 DEF WaitInv, FreshTokens

-----------------------------------------------------------------------------
(* Sends and receives                                                      *)

Invariants == DataOK /\ WaitInv /\ SendInv

LEMMA PlainNotSending == ASSUME NEW w, w.pc # "send" \/ w.op[2] = Nil PROVE NotSending(w)
BY WaitableAssumption DEF NotSending

\* DoSend, but for the machine: the task cannot go on, goes on or panics.
LEMMA SendKeeps ==
  ASSUME Invariants, NEW t \in Tasks, NEW me, Acts(t, me), NEW c \in Chans \cup {Nil}, DoSend(t, me, c)
  PROVE  Invariants' /\ PromiseStep
<1> DEFINE wait == Blocking(me, "send", c)
           idle == Idle(me.n)
           done == Returned(me)
<1>1. me \in TaskType /\ me.n \in 1..MaxOps /\ me.n \in 0..MaxOps
  BY ChannelsAssumption DEF Acts
<1>2. wait \in TaskType /\ wait.pc = "send" /\ wait.n = me.n /\ wait.op[2] = c
  BY <1>1, BlockingFacts
<1>3. idle \in TaskType /\ idle.pc = "run" /\ idle.n = me.n
  BY <1>1, IdleFacts
<1>4. done \in TaskType /\ done.pc \in {"run", "body"} /\ done.n = me.n
  BY <1>1, ReturnedFacts
<1>5. NotSending(idle) /\ NotSending(done)
  BY <1>3, <1>4, PlainNotSending
<1>6. DataOK /\ WaitInv /\ SendInv /\ heap \in Heap /\ Listed(heap) /\ ClosedUnlisted(heap)
  BY DEF Invariants, DataOK, WaitInv
<1>7. CASE c = Nil
  <2>1. task' = [task EXCEPT ![t] = wait] /\ UNCHANGED <<heap, sent, got>>
    BY <1>7 DEF DoSend, Blocking
  <2> HIDE DEF wait
  <2>2. NotSending(wait)
    BY <1>2, <1>7, PlainNotSending
  <2>3. Quiet(t, wait) /\ wait.n > 0 /\ wait.pc \in Plain
    BY <1>2, <1>6, <2>1, <2>2, ActsMoves DEF Plain
  <2>4. QED
    BY <1>2, <1>6, <2>1, <2>3, PlaceStep DEF Invariants
<1>8. CASE c # Nil /\ heap.chan[c].closed
  <2>1. task' = [task EXCEPT ![t] = idle] /\ UNCHANGED <<heap, sent, got>>
    BY <1>8 DEF DoSend
  <2> HIDE DEF idle
  <2>2. Quiet(t, idle) /\ idle.n > 0 /\ idle.pc \in Plain
    BY <1>3, <1>5, <1>6, <2>1, ActsMoves DEF Plain
  <2>3. QED
    BY <1>3, <1>6, <2>1, <2>2, PlaceStep DEF Invariants
<1>9. CASE c # Nil /\ ~heap.chan[c].closed
  <2> DEFINE v == <<t, me.n>>
             r == Send(heap, c, t, v)
  <2>1. c \in Chans /\ v \in Values /\ got' = got /\ heap' = r
    BY <1>1, <1>9, ChannelsAssumption DEF DoSend
  <2>2. /\ Full(heap, c) => Effect(heap, heap', c, heap.chan[c].buffer,
                                   Append(heap.chan[c].pending, [value |-> v, task |-> t]),
                                   heap.chan[c].completed, heap.chan[c].closed)
        /\ ~Full(heap, c) => Effect(heap, heap', c, Append(heap.chan[c].buffer, v), heap.chan[c].pending,
                                    heap.chan[c].completed, heap.chan[c].closed)
    BY <1>6, <2>1, SendFacts
  <2> HIDE DEF r
  <2>3. CASE Full(heap, c)
    <3>1. task' = [task EXCEPT ![t] = wait] /\ sent' = sent
      BY <1>9, <2>3 DEF DoSend, Blocking
    <3> HIDE DEF wait
    <3>2. Moves(t, wait) /\ NotSending(task[t]) /\ wait.n > 0 /\ wait.n \in task[t].n..MaxOps
      BY <1>2, <1>6, <3>1, ActsMoves DEF Moves
    <3>3. heap' \in Heap /\ Listed(heap') /\ ClosedUnlisted(heap') /\ TokensKept(heap, heap', t, wait.n)
      BY <1>6, <2>1, <2>2, <2>3, EffectWaits
    <3>4. DataOK'
      BY <1>2, <1>6, <2>1, <3>1, <3>2, <3>3, OneTask DEF DataOK
    <3>5. WaitInv'
      BY <1>2, <1>6, <3>1, <3>2, <3>3, PlainStep DEF Plain
    <3>6. Moved(heap, heap', c, heap.chan[c].buffer, Append(heap.chan[c].pending, [value |-> <<t, wait.n>>, task |-> t]),
                heap.chan[c].completed, heap.chan[c].closed)
      BY <1>2, <2>2, <2>3, EffectMoved
    <3>7. SendInv'
      BY <1>1, <1>2, <1>6, <1>9, <2>1, <2>3, <3>1, <3>2, <3>6, OfferStep
    <3>8. PromiseStep
      BY <1>1, <1>2, <1>6, <1>9, <2>1, <2>3, <3>1, <3>2, <3>6, WaitStepOffers
    <3>9. QED
      BY <3>4, <3>5, <3>7, <3>8 DEF Invariants
  <2>4. CASE ~Full(heap, c)
    <3>1. task' = [task EXCEPT ![t] = done] /\ sent' = sent \cup {<<t, done.n>>}
      BY <1>4, <1>9, <2>4 DEF DoSend
    <3> HIDE DEF done
    <3>2. Quiet(t, done) /\ done.n > 0 /\ done.n \in task[t].n..MaxOps
      BY <1>4, <1>5, <1>6, <3>1, ActsMoves DEF Moves
    <3>3. heap' \in Heap /\ Listed(heap') /\ ClosedUnlisted(heap') /\ TokensKept(heap, heap', t, done.n)
      BY <1>6, <2>1, <2>2, <2>4, EffectWaits
    <3>4. DataOK'
      BY <1>4, <1>6, <2>1, <3>1, <3>2, <3>3, OneTask DEF DataOK
    <3>5. WaitInv'
      BY <1>4, <1>6, <3>1, <3>2, <3>3, PlainStep DEF Plain
    <3>6. Moved(heap, heap', c, Append(heap.chan[c].buffer, <<t, done.n>>), heap.chan[c].pending,
                heap.chan[c].completed, heap.chan[c].closed)
      BY <1>4, <2>2, <2>4, EffectMoved
    <3>7. Len(heap.chan[c].buffer) < Capacity[c]
      BY <1>6, <2>1, <2>4, BufferTypes DEF Full
    <3>8. SendInv'
      BY <1>1, <1>4, <1>6, <2>1, <3>1, <3>2, <3>6, <3>7, BufferStep DEF UnsentPcs
    <3>9. PromiseStep
      <4>1. Aside(t)
        BY <1>4, <1>6, <3>1, <3>2, QuietAside DEF Quiet
      <4>2. PICK u \in Values : u = <<t, done.n>>
        BY <1>4, <2>1
      <4>3. PICK b \in Seq(Values), p \in Seq(PendingSend) : b = heap.chan[c].buffer /\ p = heap.chan[c].pending
        BY <1>6, <2>1, BufferTypes
      <4>4. /\ Len(b) < Capacity[c]
            /\ Moved(heap, heap', c, Append(b, u), p, heap.chan[c].completed, heap.chan[c].closed)
        BY <3>6, <3>7, <4>2, <4>3
      <4>5. sent' = sent \cup {u}
        BY <3>1, <4>2
      <4>6. QED
        BY <1>6, <1>9, <2>1, <4>1, <4>3, <4>4, <4>5, AcceptStep
    <3>10. QED
      BY <3>4, <3>5, <3>8, <3>9 DEF Invariants
  <2>5. QED
    BY <2>3, <2>4
<1>10. QED
  BY <1>7, <1>8, <1>9

LEMMA TakeWaits ==
  ASSUME NEW s \in Heap, Listed(s), ClosedUnlisted(s), NEW c \in Chans, Filled(s.chan[c], Capacity[c]), HasValue(s, c)
  PROVE  LET r == TakeValue(s, c)
         IN  r \in Heap /\ Listed(r) /\ ClosedUnlisted(r) /\ \A t, n : TokensKept(s, r, t, n)
<1> DEFINE r == TakeValue(s, c)
<1>1. \E b, p, co : Effect(s, r, c, b, p, co, s.chan[c].closed)
  BY TakeFacts
<1>2. PICK b, p, co : Effect(s, r, c, b, p, co, s.chan[c].closed)
  BY <1>1
<1> HIDE DEF r
<1>3. r \in Heap /\ Listed(r) /\ ClosedUnlisted(r) /\ \A t, n : TokensKept(s, r, t, n)
  BY <1>2, EffectWaits
<1>4. QED
  BY <1>3 DEF r

LEMMA FrontType ==
  ASSUME NEW s \in Heap, NEW c
  PROVE  c \in Chans \cup {Nil} => Received(s, c) \in Values \cup {NoValue}
<1> SUFFICES ASSUME c \in Chans, HasValue(s, c) PROVE FrontValue(s, c) \in Values
  BY DEF Received, HasValue
<1>1. s.chan[c].buffer \in Seq(Values) /\ s.chan[c].pending \in Seq(PendingSend)
  BY HeapFields
<1>2. CASE s.chan[c].buffer # <<>>
  BY <1>1, <1>2, HeadTailProperties DEF FrontValue
<1>3. CASE s.chan[c].buffer = <<>>
  <2>1. s.chan[c].pending # <<>>
    BY <1>3 DEF HasValue
  <2>2. Head(s.chan[c].pending) \in PendingSend
    BY <1>1, <2>1, HeadTailProperties
  <2>3. QED
    BY <1>3, <2>2 DEF FrontValue, PendingSend
<1>4. QED
  BY <1>2, <1>3

LEMMA GotType ==
  ASSUME DataOK, NEW s \in Heap, NEW t, NEW c \in Chans \cup {Nil}, got' = [got EXCEPT ![t] = Received(s, c)]
  PROVE  got' \in [Tasks -> Values \cup {NoValue}]
BY FrontType DEF DataOK

\* A value, or the zero value of a closed channel, is received from s, and w is
\* t's next record.
LEMMA TakenKeeps ==
  ASSUME DataOK, WaitInv, SendInv, NEW t \in Tasks, NEW w \in TaskType, Quiet(t, w), w.pc \in Plain,
         w.pc \notin {"run", "done"} => w.n > 0, NEW c \in Chans \cup {Nil},
         NEW s \in Heap, RecvReady(s, c), Listed(s), ClosedUnlisted(s), SameValues(heap, s), TokensKept(heap, s, t, w.n),
         \A k \in Tokens : k[1] # t \/ k[2] > w.n => s.token[k] = heap.token[k],
         heap' \in Heap, Listed(heap'), ClosedUnlisted(heap'), SameValues(Taken(s, c), heap'),
         TokensKept(s, heap', t, w.n), sent' = sent, got' = [got EXCEPT ![t] = Received(s, c)]
  PROVE  Invariants' /\ PromiseStep
<1>1. task' = [task EXCEPT ![t] = w] /\ w.n \in task[t].n..MaxOps
  BY DEF Quiet, Moves
<1>2. DataOK'
  <2>1. w.pc # "register" /\ sent' \in SUBSET Values
    BY DEF Plain, DataOK
  <2>2. got' \in [Tasks -> Values \cup {NoValue}]
    BY GotType
  <2>3. QED
    BY <1>1, <2>1, <2>2, OneTask
<1>3. TokensKept(heap, heap', t, w.n)
  BY DEF TokensKept, TokenKept
<1>4. WaitInv'
  BY <1>1, <1>3, PlainStep
<1>5. SendInv'
  <2>1. CASE HasValue(s, c)
    <3>1. c \in Chans /\ Taken(s, c) = TakeValue(s, c)
      BY <2>1, ReadyChannel DEF Taken
    <3>2. QED
      BY <2>1, <3>1, TakeStep
  <2>2. CASE ~HasValue(s, c)
    <3>1. SameValues(s, heap')
      BY <2>2 DEF Taken
    <3>2. \A d \in Chans : SameChannel(d)
      BY <3>1 DEF SameValues, SameChannel
    <3>3. QED
      BY <3>2, QuietStep
  <2>3. QED
    BY <2>1, <2>2
<1>6. PromiseStep
  <2>1. Aside(t)
    BY <1>1, QuietAside DEF Quiet
  <2>2. QED
    BY <2>1, ReceiveStep
<1>7. QED
  BY <1>2, <1>4, <1>5, <1>6 DEF Invariants

\* What receiving leaves of a heap with the values of the channels.
LEMMA TakenWaits ==
  ASSUME SendInv, NEW s \in Heap, Listed(s), ClosedUnlisted(s), SameValues(heap, s), NEW c \in Chans \cup {Nil}
  PROVE  LET r == Taken(s, c)
         IN  r \in Heap /\ Listed(r) /\ ClosedUnlisted(r) /\ \A t, n : TokensKept(s, r, t, n)
<1>1. CASE HasValue(s, c)
  <2>1. c \in Chans /\ Taken(s, c) = TakeValue(s, c)
    BY <1>1, ReadyChannel DEF Taken
  <2>2. Filled(s.chan[c], Capacity[c])
    BY <2>1 DEF SendInv, Accounted, Filled, SameValues
  <2>3. QED
    BY <1>1, <2>1, <2>2, TakeWaits
<1>2. CASE ~HasValue(s, c)
  BY <1>2 DEF Taken, TokensKept, TokenKept
<1>3. QED
  BY <1>1, <1>2

LEMMA SelfFacts ==
  ASSUME DataOK, WaitInv
  PROVE  /\ heap \in Heap /\ Listed(heap) /\ ClosedUnlisted(heap) /\ SameValues(heap, heap)
         /\ \A t, n : TokensKept(heap, heap, t, n)
BY DEF DataOK, WaitInv, SameValues, TokensKept, TokenKept

\* DoRecv, but for the machine.
LEMMA RecvKeeps ==
  ASSUME Invariants, NEW t \in Tasks, NEW me, Acts(t, me), NEW c \in Chans \cup {Nil}, DoRecv(t, me, c)
  PROVE  Invariants' /\ PromiseStep
<1> DEFINE wait == Blocking(me, "recv", c)
           done == Returned(me)
           k == <<t, me.n, 0>>
<1>1. me \in TaskType /\ me.n \in 1..MaxOps /\ me.n \in 0..MaxOps
  BY ChannelsAssumption DEF Acts
<1>2. wait \in TaskType /\ wait.pc = "recv" /\ wait.n = me.n
  BY <1>1, BlockingFacts
<1>3. done \in TaskType /\ done.pc \in {"run", "body"} /\ done.n = me.n
  BY <1>1, ReturnedFacts
<1>4. NotSending(wait) /\ NotSending(done)
  BY <1>2, <1>3, PlainNotSending
<1>5. /\ DataOK /\ WaitInv /\ SendInv /\ heap \in Heap /\ Listed(heap) /\ ClosedUnlisted(heap) /\ SameValues(heap, heap)
      /\ \A u, n : TokensKept(heap, heap, u, n)
  BY SelfFacts DEF Invariants
<1>6. CASE RecvReady(heap, c)
  <2>1. /\ task' = [task EXCEPT ![t] = done] /\ heap' = Taken(heap, c) /\ sent' = sent
        /\ got' = [got EXCEPT ![t] = Received(heap, c)]
    BY <1>6 DEF DoRecv
  <2> HIDE DEF done
  <2>2. Quiet(t, done) /\ done.n > 0 /\ done.pc \in Plain
    BY <1>3, <1>4, <1>5, <2>1, ActsMoves DEF Plain
  <2>3. heap' \in Heap /\ Listed(heap') /\ ClosedUnlisted(heap') /\ \A u, n : TokensKept(heap, heap', u, n)
    BY <1>5, <2>1, TakenWaits
  <2>4. SameValues(Taken(heap, c), heap')
    BY <2>1 DEF SameValues
  <2>5. QED
    BY <1>3, <1>5, <1>6, <2>1, <2>2, <2>3, <2>4, TakenKeeps
<1>7. CASE ~RecvReady(heap, c)
  <2>1. /\ task' = [task EXCEPT ![t] = wait] /\ heap' = WaitRecv(heap, c, k) /\ sent' = sent /\ got' = got
    BY <1>7 DEF DoRecv, Blocking
  <2> HIDE DEF wait
  <2>2. Quiet(t, wait) /\ wait.n > 0 /\ wait.pc \in Plain
    BY <1>2, <1>4, <1>5, <2>1, ActsMoves DEF Plain
  <2>3. k \in Tokens /\ heap.token[k] = NewToken
    BY <1>5, ActsFresh
  <2>4. Waits(heap, heap', k, c, "recv")
    BY <1>5, <2>1, <2>3, WaitRecvFacts
  <2>5. TokensKept(heap, heap', t, wait.n)
    <3> SUFFICES ASSUME NEW m \in Tokens, m[1] # t \/ m[2] > wait.n PROVE TokenKept(heap, heap', m)
      BY DEF TokensKept
    <3>1. m # k
      BY <1>1, <1>2
    <3>2. QED
      BY <2>4, <3>1 DEF Waits, TokenKept
  <2>6. heap' \in Heap /\ Listed(heap') /\ SameValues(heap, heap') /\ ClosedUnlisted(heap')
    BY <1>5, <2>3, <2>4, WaitsUnlisted
  <2>7. QED
    BY <1>2, <1>5, <2>1, <2>2, <2>5, <2>6, PlainQuiet DEF Invariants
<1>8. QED
  BY <1>6, <1>7

\* t offers a value without waiting, or goes on without having done so.
LEMMA TriedKeeps ==
  ASSUME DataOK, WaitInv, SendInv, NEW t \in Tasks, NEW w \in TaskType, Quiet(t, w), w.pc = "run", w.n \in 1..MaxOps,
         NEW c \in Chans, NEW s \in Heap, Listed(s), ClosedUnlisted(s), SameValues(heap, s),
         \A k \in Tokens : k[1] # t \/ k[2] > w.n => s.token[k] = heap.token[k],
         ~s.chan[c].closed, CanTrySend(s, c), heap' = TrySend(s, c, <<t, w.n>>), sent' = sent \cup {<<t, w.n>>}, got' = got
  PROVE  Invariants' /\ PromiseStep
<1> DEFINE v == <<t, w.n>>
           r == TrySend(s, c, v)
           b == heap.chan[c].buffer
           p == heap.chan[c].pending
           co == heap.chan[c].completed
           cl == heap.chan[c].closed
           e == [value |-> v, task |-> NoTask]
<1>1. task' = [task EXCEPT ![t] = w] /\ w.n \in task[t].n..MaxOps /\ v \in Values
  BY ChannelsAssumption DEF Quiet, Moves
<1>2. s.chan[c].buffer = b /\ s.chan[c].pending = p /\ s.chan[c].completed = co /\ s.chan[c].closed = cl
  BY DEF SameValues
<1>3. /\ Capacity[c] = 0 => Effect(s, r, c, b, Append(p, e), co, cl)
      /\ Capacity[c] # 0 => Effect(s, r, c, Append(b, v), p, co, cl)
  BY <1>1, <1>2, TrySendFacts
<1> HIDE DEF r, b, p, co, cl, e
<1>4. heap' = r
  BY DEF r
<1>5. \E x, y : Effect(s, heap', c, x, y, co, s.chan[c].closed)
  BY <1>2, <1>3, <1>4
<1>6. heap' \in Heap /\ Listed(heap') /\ ClosedUnlisted(heap') /\ \A u, n : TokensKept(s, heap', u, n)
  BY <1>5, EffectWaits
<1>7. TokensKept(heap, heap', t, w.n)
  BY <1>6 DEF TokensKept, TokenKept
<1>8. DataOK'
  <2>1. sent' \in SUBSET Values /\ got' \in [Tasks -> Values \cup {NoValue}]
    BY <1>1 DEF DataOK
  <2>2. QED
    BY <1>1, <1>6, <2>1, OneTask
<1>9. WaitInv'
  BY <1>1, <1>6, <1>7, PlainStep DEF Plain
<1>10. SendInv'
  <2>1. CASE Capacity[c] = 0
    <3>1. Moved(heap, heap', c, b, Append(p, e), co, cl)
      BY <1>3, <1>4, <2>1, EffectMoved, SameMoved
    <3>2. Moved(heap, heap', c, heap.chan[c].buffer, Append(heap.chan[c].pending, [value |-> <<t, w.n>>, task |-> NoTask]),
                heap.chan[c].completed, heap.chan[c].closed)
      BY <3>1 DEF b, p, e, co, cl
    <3>3. QED
      BY <2>1, <3>2, TransitStep DEF UnsentPcs
  <2>2. CASE Capacity[c] # 0
    <3>1. Moved(heap, heap', c, Append(b, v), p, co, cl)
      BY <1>3, <1>4, <2>2, EffectMoved, SameMoved
    <3>2. Moved(heap, heap', c, Append(heap.chan[c].buffer, <<t, w.n>>), heap.chan[c].pending,
                heap.chan[c].completed, heap.chan[c].closed)
      BY <3>1 DEF b, p, co, cl
    <3>3. Len(heap.chan[c].buffer) < Capacity[c]
      BY <1>2, <2>2 DEF CanTrySend, b
    <3>4. QED
      BY <3>2, <3>3, BufferStep DEF UnsentPcs
  <2>3. QED
    BY <2>1, <2>2
<1>11. PromiseStep
  <2>1. Aside(t)
    BY <1>1, QuietAside DEF Quiet
  <2>2. PICK u \in Values : u = v
    BY <1>1
  <2>3. PICK bb \in Seq(Values), pp \in Seq(PendingSend) :
          bb = heap.chan[c].buffer /\ pp = heap.chan[c].pending /\ bb = b /\ pp = p
    BY BufferTypes DEF b, p
  <2>4. \/ /\ Capacity[c] = 0
           /\ Moved(heap, heap', c, bb, Append(pp, [value |-> u, task |-> NoTask]), heap.chan[c].completed, heap.chan[c].closed)
        \/ /\ Len(bb) < Capacity[c]
           /\ Moved(heap, heap', c, Append(bb, u), pp, heap.chan[c].completed, heap.chan[c].closed)
    <3>1. CASE Capacity[c] = 0
      <4>1. Moved(heap, heap', c, b, Append(p, e), co, cl)
        BY <1>3, <1>4, <3>1, EffectMoved, SameMoved
      <4>2. QED
        BY <2>2, <2>3, <3>1, <4>1 DEF e, co, cl
    <3>2. CASE Capacity[c] # 0
      <4>1. Moved(heap, heap', c, Append(b, v), p, co, cl)
        BY <1>3, <1>4, <3>2, EffectMoved, SameMoved
      <4>2. Len(b) < Capacity[c]
        BY <1>2, <3>2 DEF CanTrySend, b
      <4>3. QED
        BY <2>2, <2>3, <4>1, <4>2 DEF co, cl
    <3>3. QED
      BY <3>1, <3>2
  <2>5. ~heap.chan[c].closed /\ sent' = sent \cup {u}
    BY <1>2, <2>2 DEF cl
  <2>6. QED
    BY <2>1, <2>3, <2>4, <2>5, AcceptStep
<1>12. QED
  BY <1>8, <1>9, <1>10, <1>11 DEF Invariants

LEMMA CanTryChannel == ASSUME NEW s, NEW c \in Chans \cup {Nil}, CanTrySend(s, c) PROVE c \in Chans
BY DEF CanTrySend

\* reflect.Select does the chosen case in s, which has the values of the channels.
LEMMA CompleteKeeps ==
  ASSUME DataOK, WaitInv, SendInv, NEW t \in Tasks, NEW w \in TaskType, Quiet(t, w), w.pc = "run", w.n \in 1..MaxOps,
         NEW c \in Case, NEW s \in Heap, Listed(s), ClosedUnlisted(s), SameValues(heap, s),
         \A k \in Tokens : k[1] # t \/ k[2] > w.n => s.token[k] = heap.token[k],
         CompleteSelect(s, t, c, <<t, w.n>>)
  PROVE  Invariants' /\ PromiseStep
<1>1. c[2] \in Chans \cup {Nil}
  BY DEF Case
<1>2. TokensKept(heap, s, t, w.n)
  BY DEF TokensKept, TokenKept
<1>3. CASE /\ c[1] = "send" /\ ~s.chan[c[2]].closed /\ CanTrySend(s, c[2])
           /\ heap' = TrySend(s, c[2], <<t, w.n>>) /\ sent' = sent \cup {<<t, w.n>>} /\ got' = got
  <2>1. c[2] \in Chans
    BY <1>1, <1>3, CanTryChannel
  <2>2. QED
    BY <1>3, <2>1, TriedKeeps
<1>4. CASE RecvReady(s, c[2]) /\ heap' = Taken(s, c[2]) /\ got' = [got EXCEPT ![t] = Received(s, c[2])] /\ sent' = sent
  <2>1. heap' \in Heap /\ Listed(heap') /\ ClosedUnlisted(heap') /\ \A u, n : TokensKept(s, heap', u, n)
    BY <1>1, <1>4, TakenWaits
  <2>2. SameValues(Taken(s, c[2]), heap')
    BY <1>4 DEF SameValues
  <2>3. w.pc \in Plain /\ (w.pc \notin {"run", "done"} => w.n > 0)
    BY DEF Plain
  <2>4. QED
    BY <1>1, <1>2, <1>4, <2>1, <2>2, <2>3, TakenKeeps
<1>5. CASE heap' = s /\ sent' = sent /\ got' = got
  <2>1. w.pc \in Plain /\ (w.pc \notin {"run", "done"} => w.n > 0)
    BY DEF Plain
  <2>2. QED
    BY <1>2, <1>5, <2>1, PlainQuiet DEF Invariants
<1>6. QED
  BY <1>3, <1>4, <1>5 DEF CompleteSelect

LEMMA TryKeeps ==
  ASSUME Invariants, NEW t \in Tasks, NEW c \in Chans, TrySendCall(t, c)
  PROVE  Invariants' /\ PromiseStep
<1> DEFINE me == Begun(t)
<1>1. /\ DataOK /\ WaitInv /\ SendInv /\ heap \in Heap /\ Listed(heap) /\ ClosedUnlisted(heap) /\ SameValues(heap, heap)
  BY SelfFacts DEF Invariants
<1>2. Acts(t, me) /\ me.pc = "run" /\ me \in TaskType /\ me.n \in 1..MaxOps
  BY <1>1, BegunActs DEF TrySendCall, Acts
<1>3. task' = [task EXCEPT ![t] = me] /\ got' = got
  BY DEF TrySendCall
<1>4. \/ CanTrySend(heap, c) /\ heap' = TrySend(heap, c, <<t, me.n>>) /\ sent' = sent \cup {<<t, me.n>>}
      \/ heap' = heap /\ sent' = sent
  BY DEF TrySendCall
<1> HIDE DEF me
<1>5. Quiet(t, me) /\ me.n > 0
  BY <1>1, <1>2, <1>3, ActsMoves, PlainNotSending
<1>6. CASE CanTrySend(heap, c) /\ heap' = TrySend(heap, c, <<t, me.n>>) /\ sent' = sent \cup {<<t, me.n>>}
  <2>1. ~heap.chan[c].closed
    BY DEF TrySendCall
  <2>2. QED
    BY <1>1, <1>2, <1>3, <1>5, <1>6, <2>1, TriedKeeps
<1>7. CASE heap' = heap /\ sent' = sent
  BY <1>1, <1>2, <1>3, <1>5, <1>7, PlaceStep DEF Invariants, Plain
<1>8. QED
  BY <1>4, <1>6, <1>7

LEMMA CloseKeeps ==
  ASSUME Invariants, NEW t \in Tasks, NEW c \in Chans, CloseStatement(t, c)
  PROVE  Invariants' /\ PromiseStep
<1> DEFINE me == Begun(t)
           q == Keep(heap.chan[c].pending, PendingNotOf(Tasks))
<1>1. DataOK /\ WaitInv /\ SendInv /\ heap \in Heap /\ Listed(heap) /\ ClosedUnlisted(heap)
  BY SelfFacts DEF Invariants
<1>2. Acts(t, me) /\ me.pc = "run" /\ me \in TaskType /\ me.n \in 1..MaxOps
  BY <1>1, BegunActs DEF CloseStatement, Acts
<1>3. task' = [task EXCEPT ![t] = me] /\ got' = got /\ sent' = sent /\ heap' = Close(heap, c)
  BY DEF CloseStatement
<1> HIDE DEF me
<1>4. Quiet(t, me) /\ me.n > 0 /\ me.n \in task[t].n..MaxOps
  BY <1>1, <1>2, <1>3, ActsMoves, PlainNotSending DEF Moves
<1>5. /\ Effect(heap, heap', c, heap.chan[c].buffer, q, heap.chan[c].completed, TRUE)
      /\ heap'.chan[c].recvWaiters = <<>> /\ heap'.chan[c].sendWaiters = <<>>
  BY <1>1, <1>3, CloseFacts
<1> HIDE DEF q
<1>6. heap' \in Heap /\ Listed(heap') /\ TokensKept(heap, heap', t, me.n)
  BY <1>5 DEF Effect, TokensKept, TokenKept
<1>7. ClosedUnlisted(heap')
  <2> SUFFICES ASSUME NEW d \in Chans, heap'.chan[d].closed
               PROVE  heap'.chan[d].recvWaiters = <<>> /\ heap'.chan[d].sendWaiters = <<>>
    BY DEF ClosedUnlisted
  <2>1. CASE d = c
    BY <1>5, <2>1
  <2>2. CASE d # c
    <3>1. heap.chan[d].closed
      BY <1>5, <2>2 DEF Effect
    <3>2. heap.chan[d].recvWaiters = <<>> /\ heap.chan[d].sendWaiters = <<>>
      BY <1>1, <3>1 DEF ClosedUnlisted
    <3>3. \A k \in Tokens : <<d, "recv">> \notin heap.token[k].registrations /\ <<d, "send">> \notin heap.token[k].registrations
      BY <1>1, <3>2 DEF Listed, Range
    <3>4. \A k \in Tokens : <<d, "recv">> \notin heap'.token[k].registrations /\ <<d, "send">> \notin heap'.token[k].registrations
      BY <1>5, <3>3 DEF Effect, Awake
    <3>5. heap'.chan[d].recvWaiters \in Seq(Tokens) /\ heap'.chan[d].sendWaiters \in Seq(Tokens)
      BY <1>6, HeapFields
    <3>6. \A k \in Tokens : k \notin Range(heap'.chan[d].recvWaiters) /\ k \notin Range(heap'.chan[d].sendWaiters)
      BY <1>6, <3>4 DEF Listed
    <3>7. QED
      BY <3>5, <3>6, NothingListed
  <2>3. QED
    BY <2>1, <2>2
<1>8. DataOK'
  BY <1>1, <1>2, <1>3, <1>6, OneTask DEF DataOK
<1>9. WaitInv'
  BY <1>1, <1>2, <1>3, <1>4, <1>6, <1>7, PlainStep DEF Plain
<1>10. SendInv'
  <2>1. Moved(heap, heap', c, heap.chan[c].buffer, Keep(heap.chan[c].pending, PendingNotOf(Tasks)),
              heap.chan[c].completed, TRUE)
    BY <1>5, EffectMoved DEF q
  <2>2. QED
    BY <1>1, <1>3, <1>4, <2>1, CloseStep
<1>11. PromiseStep
  <2>1. Aside(t)
    BY <1>1, <1>2, <1>3, <1>4, QuietAside DEF Quiet
  <2>2. Moved(heap, heap', c, heap.chan[c].buffer, Keep(heap.chan[c].pending, PendingNotOf(Tasks)),
              heap.chan[c].completed, TRUE)
    BY <1>5, EffectMoved DEF q
  <2>3. ~heap.chan[c].closed
    BY DEF CloseStatement
  <2>4. QED
    BY <1>1, <1>3, <2>1, <2>2, <2>3, CloseStepCloses
<1>12. QED
  BY <1>8, <1>9, <1>10, <1>11 DEF Invariants

-----------------------------------------------------------------------------
(* Selects                                                                 *)

LEMMA StaysQuiet ==
  ASSUME DataOK, NEW t \in Tasks, NEW w, task' = [task EXCEPT ![t] = w], w.n = task[t].n,
         task[t].pc # "send", w.pc # "send", w.pc \in UnsentPcs => task[t].pc \in UnsentPcs
  PROVE  Quiet(t, w)
<1>1. w.n \in task[t].n..MaxOps
  BY TaskFields, ChannelsAssumption
<1>2. QED
  BY <1>1 DEF Quiet, Moves, NotSending

LEMMA SelectBeginKeeps ==
  ASSUME Invariants, NEW t \in Tasks, NEW cases \in Selects, NEW dflt \in BOOLEAN, SelectBegin(t, cases, dflt)
  PROVE  Invariants' /\ PromiseStep
<1> DEFINE me == [Begun(t) EXCEPT !.pc = "register", !.cases = cases, !.dflt = dflt, !.k = 1]
<1>1. DataOK /\ WaitInv /\ SendInv
  BY DEF Invariants
<1>2. /\ task' = [task EXCEPT ![t] = me] /\ heap' = heap /\ got' = got /\ sent' = sent /\ Begins(t)
  BY DEF SelectBegin
<1>3. Acts(t, Begun(t)) /\ Begun(t).n = task[t].n + 1 /\ Begun(t) \in TaskType
  BY <1>1, <1>2, BegunActs DEF Acts
<1>4. Len(cases) \in 1..MaxCases /\ 1 \in 0..MaxCases + 1
  <2>1. PICK n \in 1..MaxCases : Len(cases) = n
    BY SelectFacts
  <2>2. QED
    BY <2>1, ChannelsAssumption
<1>5. /\ me \in TaskType /\ me.pc = "register" /\ me.cases = cases /\ me.k = 1 /\ me.n = task[t].n + 1
  BY <1>3, <1>4 DEF TaskType, Pcs
<1> HIDE DEF me
<1>6. Quiet(t, me) /\ me.n > 0
  BY <1>1, <1>2, <1>3, <1>5, ActsMoves, PlainNotSending
<1>7. /\ heap' \in Heap /\ Listed(heap') /\ ClosedUnlisted(heap') /\ SameValues(heap, heap')
      /\ \A u, n : TokensKept(heap, heap', u, n)
  BY <1>1, <1>2, SameHeap
<1>8. DataOK'
  <2>1. me.k \in 1..Len(me.cases)
    BY <1>4, <1>5
  <2>2. sent' \in SUBSET Values /\ got' \in [Tasks -> Values \cup {NoValue}]
    BY <1>1, <1>2 DEF DataOK
  <2>3. QED
    BY <1>1, <1>2, <1>5, <1>6, <1>7, <2>1, <2>2, OneTask
<1>9. FreshFor(heap', me, t)
  <2>1. FreshFor(heap, task[t], t)
    BY <1>1, PerTask DEF WaitInv
  <2>2. task[t].n \in Nat /\ MaxOps \in Nat
    BY <1>1, TaskFields, ChannelsAssumption
  <2>3. \A m \in 1..MaxOps, i \in 0..MaxCases : UnusedBy(me, m, i) => UnusedBy(task[t], m, i)
    BY <1>5, <2>2 DEF UnusedBy
  <2>4. QED
    BY <1>2, <2>1, <2>3 DEF FreshFor
<1>10. SubscribedFor(heap', me, t)
  <2>1. ASSUME NEW i \in 1..Len(me.cases) PROVE ~(i < me.k)
    BY <1>4, <1>5
  <2>2. QED
    BY <1>5, <2>1 DEF SubscribedFor
<1>11. WaitInv'
  BY <1>1, <1>2, <1>7, <1>9, <1>10, WaitStep
<1>12. SendInv'
  <2>1. \A c \in Chans : SameChannel(c)
    BY <1>2 DEF SameChannel
  <2>2. QED
    BY <1>1, <1>2, <1>6, <2>1, QuietStep
<1>13. PromiseStep
  <2>1. Aside(t)
    BY <1>1, <1>2, <1>5, <1>6, QuietAside DEF Quiet
  <2>2. QED
    BY <1>1, <1>2, <1>7, <2>1, StutterStep
<1>14. QED
  BY <1>8, <1>11, <1>12, <1>13 DEF Invariants

\* A task inside a select changes its place, and maybe the waiter lists.
LEMMA SelectKeeps ==
  ASSUME DataOK, WaitInv, SendInv, NEW t \in Tasks, NEW me \in TaskType, task' = [task EXCEPT ![t] = me],
         task[t].pc \in UnsentPcs \ {"send"}, me.pc \in UnsentPcs \ {"send"}, me.n = task[t].n,
         me.pc = "register" => me.k \in 1..Len(me.cases),
         heap' \in Heap, Listed(heap'), ClosedUnlisted(heap'), SameValues(heap, heap'), TokensKept(heap, heap', t, me.n),
         FreshFor(heap', me, t), SubscribedFor(heap', me, t), sent' = sent, got' = got
  PROVE  Invariants' /\ PromiseStep
<1>1. Quiet(t, me)
  BY StaysQuiet
<1>2. task[t].n > 0 /\ task[t].n \in Nat
  BY TaskFields, ChannelsAssumption, SMTT(40) DEF UnsentPcs
<1>3. DataOK'
  BY <1>2, OneTask DEF DataOK
<1>4. WaitInv'
  BY WaitStep
<1>5. \A c \in Chans : SameChannel(c)
  BY DEF SameValues, SameChannel
<1>6. SendInv'
  BY <1>1, <1>5, QuietStep
<1>7. PromiseStep
  <2>1. Aside(t)
    BY <1>1, QuietAside DEF Quiet
  <2>2. QED
    BY <2>1, StutterStep
<1>8. QED
  BY <1>3, <1>4, <1>6, <1>7 DEF Invariants

LEMMA SelectRegisterKeeps ==
  ASSUME Invariants, NEW t \in Tasks, SelectRegister(t)
  PROVE  Invariants' /\ PromiseStep
<1> DEFINE case == task[t].cases[task[t].k]
           last == Len(task[t].cases)
           me == [task[t] EXCEPT !.k = @ + 1, !.pc = IF task[t].k = last THEN "choose" ELSE @]
           k == <<t, task[t].n, task[t].k>>
           j == task[t].k
           n == task[t].n
<1>1. DataOK /\ WaitInv /\ SendInv /\ heap \in Heap /\ Listed(heap) /\ ClosedUnlisted(heap)
  BY SelfFacts DEF Invariants
<1>2. task[t].pc = "register" /\ heap' = Subscribe(heap, case, k) /\ got' = got /\ sent' = sent
  BY DEF SelectRegister, TokenOf
<1>3. /\ task[t] \in TaskType /\ n \in 1..MaxOps /\ n \in Nat /\ j \in 1..last /\ last \in 0..MaxCases /\ last \in Nat
      /\ j \in Nat /\ j \in 0..MaxCases /\ case \in Case
  BY <1>1, <1>2, TaskFields, ChannelsAssumption
<1>4. task' = [task EXCEPT ![t] = me]
  BY <1>1, <1>3 DEF SelectRegister, TaskType, DataOK
<1>5. /\ me \in TaskType /\ me.k = j + 1 /\ me.n = n /\ me.cases = task[t].cases
      /\ me.pc = IF j = last THEN "choose" ELSE "register"
  <2>1. PICK pc \in {"choose", "register"} : pc = IF j = last THEN "choose" ELSE task[t].pc
    BY <1>2
  <2>2. PICK next \in 0..MaxCases + 1 : next = j + 1
    BY <1>3, ChannelsAssumption
  <2>3. me = [task[t] EXCEPT !.k = next, !.pc = pc]
    BY <1>3, <2>1, <2>2 DEF TaskType
  <2>4. QED
    BY <1>2, <1>3, <2>1, <2>2, <2>3 DEF TaskType, Pcs
<1>6. k \in Tokens /\ heap.token[k] = NewToken
  <2>1. Unused(t, n, j)
    BY <1>2, <1>3 DEF Unused
  <2>2. QED
    BY <1>1, <1>3, <2>1, TokenTypes DEF WaitInv, FreshTokens
<1> HIDE DEF me
<1>7. Waits(heap, heap', k, case[2], case[1])
  <2>1. case[2] \in Chans \cup {Nil} /\ case[1] \in {"recv", "send"}
    BY <1>3 DEF Case, Directions
  <2>2. CASE case[1] = "recv"
    <3>1. heap' = WaitRecv(heap, case[2], k)
      BY <1>2, <2>2 DEF Subscribe
    <3>2. Waits(heap, heap', k, case[2], "recv")
      BY <1>1, <1>6, <2>1, <3>1, WaitRecvFacts
    <3>3. QED
      BY <2>2, <3>2
  <2>3. CASE case[1] = "send"
    <3>1. heap' = WaitSend(heap, case[2], k)
      BY <1>2, <2>3 DEF Subscribe
    <3>2. Waits(heap, heap', k, case[2], "send")
      BY <1>1, <1>6, <2>1, <3>1, WaitSendFacts
    <3>3. QED
      BY <2>3, <3>2
  <2>4. QED
    BY <2>1, <2>2, <2>3
<1>8. heap' \in Heap /\ Listed(heap') /\ SameValues(heap, heap') /\ ClosedUnlisted(heap')
  BY <1>1, <1>6, <1>7, WaitsUnlisted
<1>9. \A m \in Tokens : m # k => heap'.token[m] = heap.token[m]
  BY <1>7 DEF Waits
<1>10. TokensKept(heap, heap', t, me.n)
  <2> SUFFICES ASSUME NEW m \in Tokens, m[1] # t \/ m[2] > me.n PROVE TokenKept(heap, heap', m)
    BY DEF TokensKept
  <2>1. m # k
    BY <1>3, <1>5
  <2>2. QED
    BY <1>9, <2>1 DEF TokenKept
<1>11. FreshFor(heap', me, t)
  <2> SUFFICES ASSUME NEW m \in 1..MaxOps, NEW i \in 0..MaxCases, UnusedBy(me, m, i)
               PROVE  heap'.token[<<t, m, i>>] = NewToken
    BY DEF FreshFor
  <2>1. UnusedBy(task[t], m, i) /\ ~(m = n /\ i = j)
    BY <1>2, <1>3, <1>5 DEF UnusedBy
  <2>2. heap.token[<<t, m, i>>] = NewToken
    BY <1>1, <2>1, PerTask DEF WaitInv, FreshFor
  <2>3. <<t, m, i>> \in Tokens /\ <<t, m, i>> # k
    BY <2>1, TokenTypes
  <2>4. QED
    BY <1>9, <2>2, <2>3
<1>12. SubscribedFor(heap', me, t)
  <2> SUFFICES ASSUME NEW i \in 1..last, me.pc = "choose" \/ i < me.k
               PROVE  SubscribedCase(heap', task[t].cases[i], <<t, n, i>>)
    BY <1>5 DEF SubscribedFor
  <2>1. i \in 0..MaxCases /\ (i = j \/ i < j)
    BY <1>3, <1>5, ChannelsAssumption
  <2>2. CASE i = j
    BY <1>7, <2>2 DEF Waits, SubscribedCase
  <2>3. CASE i < j
    <3>1. SubscribedCase(heap, task[t].cases[i], <<t, n, i>>)
      BY <1>1, <1>2, <2>3, PerTask DEF WaitInv, SubscribedFor
    <3>2. <<t, n, i>> \in Tokens
      BY <1>3, <2>1, TokenTypes
    <3>3. i # j
      BY <1>3, <2>3
    <3>4. QED
      BY <1>9, <3>1, <3>2, <3>3 DEF SubscribedCase
  <2>4. QED
    BY <2>1, <2>2, <2>3
<1>13. QED
  <2>1. me.pc = "register" => me.k \in 1..Len(me.cases)
    BY <1>3, <1>5
  <2>2. task[t].pc \in UnsentPcs \ {"send"} /\ me.pc \in UnsentPcs \ {"send"}
    BY <1>2, <1>5 DEF UnsentPcs
  <2>3. QED
    BY <1>1, <1>2, <1>4, <1>5, <1>8, <1>10, <1>11, <1>12, <2>1, <2>2, SelectKeeps, Zenon

\* A task in a select goes on to another place of it, with nothing subscribed or
\* what it has subscribed.
LEMMA SamePlaceKeeps ==
  ASSUME Invariants, NEW t \in Tasks, NEW me \in TaskType, task' = [task EXCEPT ![t] = me], me.n = task[t].n,
         \/ task[t].pc \in {"choose", "park"} /\ me.pc = "commit"
         \/ task[t].pc = "choose" /\ me.pc = "park" /\ me.cases = task[t].cases,
         UNCHANGED <<heap, got, sent>>
  PROVE  Invariants' /\ PromiseStep
<1>1. DataOK /\ WaitInv /\ SendInv /\ heap' = heap /\ got' = got /\ sent' = sent
  BY DEF Invariants
<1>2. /\ heap' \in Heap /\ Listed(heap') /\ ClosedUnlisted(heap') /\ SameValues(heap, heap')
      /\ TokensKept(heap, heap', t, me.n)
  BY <1>1, SameHeap
<1>3. FreshFor(heap', me, t)
  <2>1. FreshFor(heap, task[t], t)
    BY <1>1, PerTask DEF WaitInv
  <2>2. \A m, i : UnusedBy(me, m, i) => UnusedBy(task[t], m, i)
    BY DEF UnusedBy
  <2>3. QED
    BY <1>1, <2>1, <2>2 DEF FreshFor
<1>4. SubscribedFor(heap', me, t)
  <2>1. SubscribedFor(heap, task[t], t)
    BY <1>1, PerTask DEF WaitInv
  <2>2. QED
    BY <1>1, <2>1 DEF SubscribedFor
<1>5. QED
  BY <1>1, <1>2, <1>3, <1>4, SelectKeeps DEF UnsentPcs

LEMMA ChosenFacts ==
  ASSUME DataOK, NEW t \in Tasks, NEW i \in 1..Len(task[t].cases)
  PROVE  Chosen(t, i) \in TaskType /\ Chosen(t, i).pc = "commit" /\ Chosen(t, i).n = task[t].n
<1>1. task[t] \in TaskType /\ task[t].cases[i] \in Case /\ i \in 0..MaxCases + 1
  BY TaskFields, ChannelsAssumption
<1>2. PICK o : o = task[t].cases[i]
  OBVIOUS
<1>3. Chosen(t, i) = [task[t] EXCEPT !.pc = "commit", !.k = i, !.op = o]
  BY <1>2 DEF Chosen
<1>4. QED
  BY <1>1, <1>2, <1>3 DEF TaskType, Pcs

LEMMA PcFacts ==
  ASSUME DataOK, NEW t \in Tasks, NEW pc \in Pcs
  PROVE  LET me == [task[t] EXCEPT !.pc = pc]
         IN  me \in TaskType /\ me.pc = pc /\ me.n = task[t].n /\ me.cases = task[t].cases
<1>1. task[t] \in TaskType
  BY TaskFields
<1>2. QED
  BY <1>1 DEF TaskType

LEMMA SelectChooseKeeps ==
  ASSUME Invariants, NEW t \in Tasks, SelectChoose(t)
  PROVE  Invariants' /\ PromiseStep
<1>1. DataOK /\ WaitInv /\ SendInv
  BY DEF Invariants
<1>2. task[t].pc = "choose" /\ UNCHANGED <<heap, got, sent>>
  BY DEF SelectChoose
<1>3. CASE \E i \in ReadyCases(heap, t) : task' = [task EXCEPT ![t] = Chosen(t, i)]
  <2>1. PICK i \in 1..Len(task[t].cases) : task' = [task EXCEPT ![t] = Chosen(t, i)]
    BY <1>3 DEF ReadyCases
  <2>2. PICK me \in TaskType : me = Chosen(t, i) /\ me.pc = "commit" /\ me.n = task[t].n
    BY <1>1, ChosenFacts
  <2>3. QED
    BY <1>2, <2>1, <2>2, SamePlaceKeeps
<1>4. CASE task' = [task EXCEPT ![t].pc = "body"]
  <2>1. PICK me : me = [task[t] EXCEPT !.pc = "body"]
    OBVIOUS
  <2>2. me \in TaskType /\ me.pc = "body" /\ me.n = task[t].n
    BY <1>1, <2>1, PcFacts DEF Pcs
  <2>3. task' = [task EXCEPT ![t] = me]
    BY <1>1, <1>4, <2>1 DEF DataOK
  <2>4. Quiet(t, me) /\ me.pc \in Plain
    BY <1>1, <1>2, <2>2, <2>3, StaysQuiet DEF UnsentPcs, Plain
  <2>5. me.n > 0
    BY <1>1, <1>2, <2>2, TaskFields, ChannelsAssumption
  <2>6. QED
    BY <1>1, <1>2, <2>2, <2>3, <2>4, <2>5, PlaceStep DEF Invariants
<1>5. CASE task' = [task EXCEPT ![t].pc = "park"]
  <2>1. PICK me : me = [task[t] EXCEPT !.pc = "park"]
    OBVIOUS
  <2>2. me \in TaskType /\ me.pc = "park" /\ me.n = task[t].n /\ me.cases = task[t].cases
    BY <1>1, <2>1, PcFacts DEF Pcs
  <2>3. task' = [task EXCEPT ![t] = me]
    BY <1>1, <1>5, <2>1 DEF DataOK
  <2>4. QED
    BY <1>2, <2>2, <2>3, SamePlaceKeeps
<1>6. QED
  BY <1>3, <1>4, <1>5 DEF SelectChoose

\* A task outside a wait to send goes on with its program.
LEMMA GoesOn ==
  ASSUME DataOK, NEW t \in Tasks, task[t].pc # "send"
  PROVE  LET me == Idle(task[t].n)
         IN  /\ me \in TaskType /\ me.pc = "run" /\ me.n = task[t].n
             /\ task' = [task EXCEPT ![t] = me] => Quiet(t, me)
<1>1. PICK me : me = Idle(task[t].n)
  OBVIOUS
<1>2. me \in TaskType /\ me.pc = "run" /\ me.n = task[t].n
  BY <1>1, TaskFields, IdleFacts
<1>3. ASSUME task' = [task EXCEPT ![t] = me] PROVE Quiet(t, me)
  BY <1>2, <1>3, StaysQuiet DEF UnsentPcs
<1>4. QED
  BY <1>1, <1>2, <1>3

LEMMA SelectTokensFacts ==
  ASSUME DataOK, NEW t \in Tasks, task[t].pc \notin {"run", "done"}
  PROVE  /\ SelectTokens(t) \in SUBSET Tokens
         /\ \A k \in SelectTokens(t) : k[1] = t /\ k[2] = task[t].n
<1>1. task[t].n \in 1..MaxOps /\ Len(task[t].cases) \in 0..MaxCases
  BY TaskFields
<1>2. \A i \in 1..Len(task[t].cases) : i \in 0..MaxCases
  BY <1>1, ChannelsAssumption
<1>3. \A i \in 1..Len(task[t].cases) : <<t, task[t].n, i>> \in Tokens
  BY <1>1, <1>2, TokenTypes
<1>4. \A k \in SelectTokens(t) : \E i \in 1..Len(task[t].cases) : k = <<t, task[t].n, i>>
  BY DEF SelectTokens, TokenOf
<1>5. QED
  BY <1>3, <1>4

\* The tokens of t's select are cancelled.
LEMMA CanceledKept ==
  ASSUME DataOK, WaitInv, NEW t \in Tasks, task[t].pc \notin {"run", "done"}
  PROVE  LET s == CancelTokens(heap, SelectTokens(t))
         IN  /\ s \in Heap /\ Listed(s) /\ ClosedUnlisted(s) /\ SameValues(heap, s)
             /\ \A k \in Tokens : k[1] # t \/ k[2] > task[t].n => s.token[k] = heap.token[k]
             /\ TokensKept(heap, s, t, task[t].n)
<1> DEFINE s == CancelTokens(heap, SelectTokens(t))
<1>1. heap \in Heap /\ Listed(heap) /\ ClosedUnlisted(heap)
  BY SelfFacts
<1>2. Canceled(heap, s, SelectTokens(t))
  BY <1>1, SelectTokensFacts, CancelTokensFacts
<1> HIDE DEF s
<1>3. s \in Heap /\ Listed(s) /\ SameValues(heap, s) /\ ClosedUnlisted(s)
  BY <1>1, <1>2, CanceledUnlisted DEF Canceled
<1>4. \A k \in Tokens : k[1] # t \/ k[2] > task[t].n => s.token[k] = heap.token[k]
  <2> SUFFICES ASSUME NEW k \in Tokens, k[1] # t \/ k[2] > task[t].n PROVE k \notin SelectTokens(t)
    BY <1>2 DEF Canceled
  <2>1. task[t].n \in Nat
    BY TaskFields
  <2>2. QED
    BY <2>1, SelectTokensFacts
<1>5. TokensKept(heap, s, t, task[t].n)
  BY <1>4 DEF TokensKept, TokenKept
<1>6. QED
  BY <1>3, <1>4, <1>5 DEF s

LEMMA SelectEndKeeps ==
  ASSUME Invariants, NEW t \in Tasks, SelectEnd(t) \/ SelectLeave(t)
  PROVE  Invariants' /\ PromiseStep
<1>1. DataOK /\ WaitInv /\ SendInv
  BY DEF Invariants
<1>2. PICK me : me = Idle(task[t].n)
  OBVIOUS
<1>3. task[t].pc = "body" /\ task' = [task EXCEPT ![t] = me] /\ got' = got /\ sent' = sent
  BY <1>2 DEF SelectEnd, SelectLeave
<1>4. me \in TaskType /\ me.pc = "run" /\ me.n = task[t].n /\ Quiet(t, me)
  BY <1>1, <1>2, <1>3, GoesOn
<1>5. me.pc \in Plain /\ (me.pc \notin {"run", "done"} => me.n > 0)
  BY <1>4 DEF Plain
<1>6. CASE heap' = heap
  BY <1>1, <1>3, <1>4, <1>5, <1>6, PlaceStep DEF Invariants
<1>7. CASE heap' = CancelTokens(heap, SelectTokens(t))
  <2>1. /\ heap' \in Heap /\ Listed(heap') /\ ClosedUnlisted(heap') /\ SameValues(heap, heap')
        /\ TokensKept(heap, heap', t, me.n)
    BY <1>1, <1>3, <1>4, <1>7, CanceledKept
  <2>2. QED
    BY <1>1, <1>3, <1>4, <1>5, <2>1, PlainQuiet DEF Invariants
<1>8. QED
  BY <1>6, <1>7 DEF SelectEnd, SelectLeave

LEMMA FinishKeeps ==
  ASSUME Invariants, NEW t \in Tasks, Finish(t)
  PROVE  Invariants' /\ PromiseStep
<1>1. DataOK /\ WaitInv /\ SendInv
  BY DEF Invariants
<1>2. PICK me : me = [task[t] EXCEPT !.pc = "done"]
  OBVIOUS
<1>3. me \in TaskType /\ me.pc = "done" /\ me.n = task[t].n
  BY <1>1, <1>2, PcFacts DEF Pcs
<1>4. task[t].pc = "run" /\ task' = [task EXCEPT ![t] = me] /\ UNCHANGED <<heap, got, sent>>
  BY <1>1, <1>2 DEF Finish, DataOK
<1>5. Quiet(t, me) /\ me.pc \in Plain
  BY <1>1, <1>3, <1>4, StaysQuiet DEF UnsentPcs, Plain
<1>6. QED
  BY <1>1, <1>3, <1>4, <1>5, PlaceStep DEF Invariants

\* Every case subscribed, when none is ready.
LEMMA AllSubscribed ==
  ASSUME DataOK, WaitInv, NEW t \in Tasks, Begins(t), NEW cases \in Selects,
         \A i \in DOMAIN cases : ~CaseReady(heap, cases[i]),
         NEW toks, toks = [i \in DOMAIN cases |-> <<t, task[t].n + 1, i>>]
  PROVE  LET r == SubscribeAll(heap, cases, toks)
         IN  /\ r \in Heap /\ Listed(r) /\ ClosedUnlisted(r) /\ SameValues(heap, r)
             /\ Range(toks) \in SUBSET Tokens /\ \A k \in Range(toks) : k[1] = t /\ k[2] = task[t].n + 1 /\ k[3] # 0
             /\ \A k \in Tokens : k \notin Range(toks) => r.token[k] = heap.token[k]
             /\ \A i \in DOMAIN cases : SubscribedCase(r, cases[i], <<t, task[t].n + 1, i>>)
<1> DEFINE r == SubscribeAll(heap, cases, toks)
           next == task[t].n + 1
<1>1. PICK n \in 1..MaxCases : cases \in [1..n -> Case] /\ DOMAIN cases = 1..n
  BY SelectFacts
<1>2. n \in Nat /\ next \in 1..MaxOps /\ task[t].n \in Nat
  BY TaskFields, ChannelsAssumption DEF Begins
<1>3. \A i \in 1..n : i \in 0..MaxCases
  BY <1>2, ChannelsAssumption
<1>4. \A i \in 1..n : toks[i] = <<t, next, i>> /\ <<t, next, i>> \in Tokens
  BY <1>1, <1>2, <1>3, TokenTypes
<1> HIDE DEF r
<1>5. toks \in [1..n -> Tokens] /\ DOMAIN toks = 1..n
  BY <1>1, <1>4
<1>6. \A i, j \in 1..n : toks[i] = toks[j] => i = j
  BY <1>4
<1>7. \A i \in 1..n : heap.token[toks[i]] = NewToken
  <2> SUFFICES ASSUME NEW i \in 1..n PROVE heap.token[toks[i]] = NewToken
    OBVIOUS
  <2>1. Unused(t, next, i)
    BY <1>2 DEF Unused
  <2>2. QED
    BY <1>2, <1>3, <1>4, <2>1 DEF WaitInv, FreshTokens
<1>8. heap \in Heap /\ Listed(heap) /\ ClosedUnlisted(heap)
  BY SelfFacts
<1>9. /\ r \in Heap /\ Listed(r) /\ SameValues(heap, r) /\ NoneNewOnClosed(heap, r)
      /\ \A k \in Tokens : (\A i \in 1..n : toks[i] # k) => r.token[k] = heap.token[k]
      /\ \A i \in 1..n : SubscribedCase(r, cases[i], toks[i])
  <2>1. \A i \in 1..n : heap.token[toks[i]] = NewToken /\ ~CaseReady(heap, cases[i])
    BY <1>1, <1>7
  <2>2. LET q == SubscribeAll(heap, cases, toks)
        IN  /\ q \in Heap /\ Listed(q) /\ SameValues(heap, q) /\ NoneNewOnClosed(heap, q)
            /\ \A k \in Tokens : (\A i \in 1..n : toks[i] # k) => q.token[k] = heap.token[k]
            /\ \A i \in 1..n :
                 /\ ~q.token[toks[i]].canceled
                 /\ cases[i][2] = Nil \/ q.token[toks[i]].signaled
                    \/ <<cases[i][2], cases[i][1]>> \in q.token[toks[i]].registrations
    BY ONLY <1>1, <1>2, <1>5, <1>6, <1>8, <2>1, SubscribeAllFacts
  <2>3. QED
    BY <2>2 DEF r, SubscribedCase
<1>10. ClosedUnlisted(r)
  BY <1>8, <1>9, StillUnlisted DEF SameValues
<1>11. /\ Range(toks) \in SUBSET Tokens /\ \A k \in Range(toks) : \E i \in 1..n : k = <<t, next, i>>
       /\ \A i \in 1..n : toks[i] \in Range(toks)
  BY <1>4, <1>5 DEF Range
<1>12. \A k \in Range(toks) : k[1] = t /\ k[2] = next /\ k[3] # 0
  BY <1>1, <1>11
<1>13. \A k \in Tokens : k \notin Range(toks) => r.token[k] = heap.token[k]
  BY <1>9, <1>11
<1>14. QED
  BY <1>1, <1>4, <1>9, <1>10, <1>11, <1>12, <1>13 DEF r

LEMMA ReflectSelectKeeps ==
  ASSUME Invariants, NEW t \in Tasks, NEW cases \in Selects, NEW dflt \in BOOLEAN, ReflectSelect(t, cases, dflt)
  PROVE  Invariants' /\ PromiseStep
<1> DEFINE me == Begun(t)
           toks == [i \in DOMAIN cases |-> <<t, me.n, i>>]
           first == {i \in DOMAIN cases : CaseReady(heap, cases[i])}
           r == SubscribeAll(heap, cases, toks)
           second == {i \in DOMAIN cases : r.token[toks[i]].signaled}
           s == CancelTokens(r, Range(toks))
           parks == first = {} /\ ~dflt /\ second = {}
           parked == [me EXCEPT !.pc = "park", !.cases = cases, !.refl = TRUE]
<1>1. /\ DataOK /\ WaitInv /\ SendInv /\ heap \in Heap /\ Listed(heap) /\ ClosedUnlisted(heap) /\ SameValues(heap, heap)
  BY SelfFacts DEF Invariants
<1>2. Begins(t)
  BY DEF ReflectSelect
<1>3. Acts(t, me) /\ me \in TaskType /\ me.pc = "run" /\ me.n = task[t].n + 1 /\ me.n \in 1..MaxOps
  BY <1>1, <1>2, BegunActs DEF Acts
<1>4. /\ \/ \E i \in first : CompleteSelect(heap, t, cases[i], <<t, me.n>>)
         \/ first = {} /\ dflt /\ UNCHANGED <<heap, got, sent>>
         \/ first = {} /\ ~dflt /\ \E i \in second : CompleteSelect(s, t, cases[i], <<t, me.n>>)
         \/ parks /\ heap' = r /\ UNCHANGED <<got, sent>>
      /\ parks => task' = [task EXCEPT ![t] = parked]
      /\ ~parks => task' = [task EXCEPT ![t] = me]
  BY Zenon DEF ReflectSelect
<1>5. PICK n \in 1..MaxCases : cases \in [1..n -> Case] /\ DOMAIN cases = 1..n /\ Len(cases) = n
  BY SelectFacts
<1>6. \A i \in DOMAIN cases : cases[i] \in Case
  BY <1>5
<1>7. ASSUME first = {}
      PROVE  /\ r \in Heap /\ Listed(r) /\ ClosedUnlisted(r) /\ SameValues(heap, r)
             /\ Range(toks) \in SUBSET Tokens /\ \A k \in Range(toks) : k[1] = t /\ k[2] = me.n /\ k[3] # 0
             /\ \A k \in Tokens : k \notin Range(toks) => r.token[k] = heap.token[k]
             /\ \A i \in DOMAIN cases : SubscribedCase(r, cases[i], <<t, me.n, i>>)
  <2>1. \A i \in DOMAIN cases : ~CaseReady(heap, cases[i])
    BY <1>7
  <2>2. PICK ks : ks = toks
    OBVIOUS
  <2> HIDE DEF me
  <2>3. ks = [i \in DOMAIN cases |-> <<t, task[t].n + 1, i>>]
    BY <1>3, <2>2
  <2>4. LET q == SubscribeAll(heap, cases, ks)
        IN  /\ q \in Heap /\ Listed(q) /\ ClosedUnlisted(q) /\ SameValues(heap, q)
            /\ Range(ks) \in SUBSET Tokens /\ \A k \in Range(ks) : k[1] = t /\ k[2] = task[t].n + 1 /\ k[3] # 0
            /\ \A k \in Tokens : k \notin Range(ks) => q.token[k] = heap.token[k]
            /\ \A i \in DOMAIN cases : SubscribedCase(q, cases[i], <<t, task[t].n + 1, i>>)
    BY <1>1, <1>2, <2>1, <2>3, AllSubscribed
  <2>5. QED
    BY <1>3, <2>2, <2>4
<1> HIDE DEF me, toks, r, s, first, second, parked
<1>8. task[t].n \in Nat /\ me.n \in Nat /\ me.n > task[t].n
  BY <1>1, <1>3, TaskFields
<1>9. ASSUME task' = [task EXCEPT ![t] = me] PROVE Quiet(t, me)
  BY <1>1, <1>3, <1>9, ActsMoves, PlainNotSending
<1>10. CASE first # {} /\ \E i \in first : CompleteSelect(heap, t, cases[i], <<t, me.n>>)
  <2>1. PICK i \in first : CompleteSelect(heap, t, cases[i], <<t, me.n>>)
    BY <1>10
  <2>2. cases[i] \in Case
    BY <1>6 DEF first
  <2>3. task' = [task EXCEPT ![t] = me]
    BY <1>4, <1>10
  <2>4. QED
    BY <1>1, <1>3, <1>9, <2>1, <2>2, <2>3, CompleteKeeps
<1>11. CASE first = {} /\ dflt /\ UNCHANGED <<heap, got, sent>>
  <2>1. task' = [task EXCEPT ![t] = me] /\ Quiet(t, me) /\ me.pc \in Plain
    BY <1>3, <1>4, <1>9, <1>11 DEF Plain
  <2>2. QED
    BY <1>1, <1>3, <1>11, <2>1, PlaceStep DEF Invariants
<1>12. CASE first = {} /\ ~dflt /\ \E i \in second : CompleteSelect(s, t, cases[i], <<t, me.n>>)
  <2>1. PICK i \in second : CompleteSelect(s, t, cases[i], <<t, me.n>>)
    BY <1>12
  <2>2. cases[i] \in Case /\ second # {}
    BY <1>6, <2>1 DEF second
  <2>3. task' = [task EXCEPT ![t] = me] /\ Quiet(t, me)
    BY <1>4, <1>9, <2>2
  <2>4. r \in Heap /\ Listed(r) /\ ClosedUnlisted(r) /\ SameValues(heap, r) /\ Range(toks) \in SUBSET Tokens
    BY <1>7, <1>12
  <2>5. Canceled(r, s, Range(toks))
    BY <2>4, CancelTokensFacts DEF s
  <2>6. s \in Heap /\ Listed(s) /\ ClosedUnlisted(s) /\ SameValues(heap, s)
    BY <2>4, <2>5, CanceledUnlisted, SameTwice DEF Canceled
  <2>7. ASSUME NEW k \in Tokens, k[1] # t \/ k[2] > me.n PROVE s.token[k] = heap.token[k]
    <3>1. k \notin Range(toks)
      BY <1>7, <1>8, <1>12, <2>7
    <3>2. QED
      BY <1>7, <1>12, <2>5, <3>1 DEF Canceled
  <2>8. QED
    BY <1>1, <1>3, <2>1, <2>2, <2>3, <2>6, <2>7, CompleteKeeps
<1>13. CASE parks /\ heap' = r /\ UNCHANGED <<got, sent>>
  <2>1. /\ heap' \in Heap /\ Listed(heap') /\ ClosedUnlisted(heap') /\ SameValues(heap, heap')
        /\ sent' = sent /\ got' = got /\ task' = [task EXCEPT ![t] = parked]
    BY <1>4, <1>7, <1>13
  <2>2. /\ parked \in TaskType /\ parked.pc = "park" /\ parked.cases = cases /\ parked.n = me.n
    BY <1>3 DEF parked, TaskType, Pcs
  <2>3. Quiet(t, parked) /\ parked.n > 0
    BY <1>1, <1>3, <2>1, <2>2, ActsMoves, PlainNotSending
  <2>4. \A k \in Tokens : k[1] # t \/ k[2] > me.n \/ k[3] = 0 => heap'.token[k] = heap.token[k]
    <3>1. \A k \in Range(toks) : k[1] = t /\ k[2] = me.n /\ k[3] # 0
      BY <1>7, <1>13
    <3>2. QED
      BY <1>7, <1>8, <1>13, <3>1
  <2>5. TokensKept(heap, heap', t, parked.n)
    BY <2>2, <2>4 DEF TokensKept, TokenKept
  <2>6. FreshFor(heap', parked, t)
    <3> SUFFICES ASSUME NEW m \in 1..MaxOps, NEW i \in 0..MaxCases, UnusedBy(parked, m, i)
                 PROVE  heap'.token[<<t, m, i>>] = NewToken
      BY DEF FreshFor
    <3>1. m > me.n \/ (m = me.n /\ i = 0)
      BY <2>2 DEF UnusedBy
    <3>2. m > task[t].n
      BY <1>8, <3>1
    <3>3. heap.token[<<t, m, i>>] = NewToken
      BY <1>1, <3>2, PerTask DEF WaitInv, FreshFor, UnusedBy
    <3>4. <<t, m, i>> \in Tokens
      BY TokenTypes
    <3>5. QED
      BY <2>4, <3>1, <3>3, <3>4
  <2>7. SubscribedFor(heap', parked, t)
    BY <1>5, <1>7, <1>13, <2>2 DEF SubscribedFor
  <2>8. DataOK'
    BY <1>1, <2>1, <2>2, <2>3, OneTask DEF DataOK
  <2>9. WaitInv'
    BY <1>1, <2>1, <2>5, <2>6, <2>7, WaitStep
  <2>10. \A c \in Chans : SameChannel(c)
    BY <2>1 DEF SameValues, SameChannel
  <2>11. SendInv'
    BY <1>1, <2>1, <2>3, <2>10, QuietStep
  <2>12. PromiseStep
    <3>1. Aside(t)
      BY <1>1, <2>1, <2>2, <2>3, QuietAside DEF Quiet
    <3>2. QED
      BY <1>1, <2>1, <3>1, StutterStep
  <2>13. QED
    BY <2>8, <2>9, <2>11, <2>12 DEF Invariants
<1>14. QED
  BY <1>4, <1>10, <1>11, <1>12, <1>13

-----------------------------------------------------------------------------
(* Resumption                                                              *)

LEMMA ResumeSendKeeps ==
  ASSUME Invariants, NEW t \in Tasks, Ready(t), ResumeSend(t, task[t].op[2])
  PROVE  Invariants' /\ PromiseStep
<1>1. DataOK /\ WaitInv /\ SendInv /\ heap \in Heap /\ Listed(heap) /\ ClosedUnlisted(heap)
  BY SelfFacts DEF Invariants
<1>2. PICK c : c = task[t].op[2]
  OBVIOUS
<1>3. task[t].pc = "send" /\ c \in Chans /\ (t \in heap.chan[c].completed \/ heap.chan[c].closed)
  <2>1. task[t].pc = "send"
    BY DEF ResumeSend
  <2>2. c \in Chans \cup {Nil}
    BY <1>1, <1>2, TaskFields DEF Case
  <2>3. QED
    BY <1>2, <2>1, <2>2 DEF Ready
<1>4. WaitsToSend(t, c) /\ task[t] \in TaskType /\ task[t].n \in 1..MaxOps /\ task[t].n \in 0..MaxOps /\ task[t].n > 0
  BY <1>1, <1>2, <1>3, TaskFields, ChannelsAssumption DEF WaitsToSend
<1>5. ASSUME NEW w, w.n = task[t].n, w.pc \notin UnsentPcs, task' = [task EXCEPT ![t] = w] PROVE Moves(t, w)
  BY <1>4, <1>5, ChannelsAssumption DEF Moves
<1>6. CASE t \in heap.chan[c].completed
  <2>1. PICK w : w = Returned(task[t])
    OBVIOUS
  <2>2. w \in TaskType /\ w.n = task[t].n /\ w.pc \in {"run", "body"} /\ w.pc \in Plain /\ w.pc \notin UnsentPcs
    BY <1>4, <2>1, ReturnedFacts DEF Plain, UnsentPcs
  <2>3. /\ task' = [task EXCEPT ![t] = w] /\ heap' = TakeCompletedSend(heap, c, t)
        /\ sent' = sent \cup {<<t, w.n>>} /\ got' = got
    BY <1>2, <1>6, <2>1, <2>2 DEF ResumeSend, ValueOf
  <2>4. Moves(t, w) /\ w.n \in task[t].n..MaxOps
    BY <1>5, <2>2, <2>3 DEF Moves
  <2>5. Effect(heap, heap', c, heap.chan[c].buffer, heap.chan[c].pending, heap.chan[c].completed \ {t}, heap.chan[c].closed)
    BY <1>1, <1>3, <2>3, TakeCompletedFacts
  <2>6. heap' \in Heap /\ Listed(heap') /\ ClosedUnlisted(heap') /\ TokensKept(heap, heap', t, w.n)
    BY <1>1, <1>3, <2>5, EffectWaits
  <2>7. DataOK'
    <3>1. <<t, w.n>> \in Values
      BY <1>4, <2>2, ChannelsAssumption
    <3>2. sent' \in SUBSET Values /\ got' \in [Tasks -> Values \cup {NoValue}]
      BY <1>1, <2>3, <3>1 DEF DataOK
    <3>3. QED
      BY <1>1, <1>4, <2>2, <2>3, <2>6, <3>2, OneTask
  <2>8. WaitInv'
    BY <1>1, <2>2, <2>3, <2>4, <2>6, PlainStep
  <2>9. SendInv'
    BY <1>1, <1>3, <1>4, <1>6, <2>2, <2>3, <2>4, <2>5, EffectMoved, ReturnStep
  <2>10. PromiseStep
    <3>1. sent' = sent \cup {ValueOf(t)} /\ w.pc # "send"
      BY <2>2, <2>3 DEF ValueOf
    <3>2. Moved(heap, heap', c, heap.chan[c].buffer, heap.chan[c].pending, heap.chan[c].completed \ {t}, heap.chan[c].closed)
      BY <2>5, EffectMoved
    <3>3. QED
      BY <1>1, <1>3, <1>4, <1>6, <2>3, <3>1, <3>2, ReturnStepReturns
  <2>11. QED
    BY <2>7, <2>8, <2>9, <2>10 DEF Invariants
<1>7. CASE t \notin heap.chan[c].completed
  <2>1. PICK w : w = Idle(task[t].n)
    OBVIOUS
  <2>2. w \in TaskType /\ w.n = task[t].n /\ w.pc = "run" /\ w.pc \in Plain /\ w.pc \notin UnsentPcs
    BY <1>4, <2>1, IdleFacts DEF Plain, UnsentPcs
  <2>3. task' = [task EXCEPT ![t] = w] /\ heap' = heap /\ sent' = sent /\ got' = got
    BY <1>2, <1>7, <2>1 DEF ResumeSend
  <2>4. Moves(t, w) /\ w.n \in task[t].n..MaxOps
    BY <1>5, <2>2, <2>3 DEF Moves
  <2>5. heap' \in Heap /\ Listed(heap') /\ ClosedUnlisted(heap') /\ TokensKept(heap, heap', t, w.n)
    BY <1>1, <2>3, SameHeap
  <2>6. DataOK'
    BY <1>1, <1>4, <2>2, <2>3, <2>5, OneTask DEF DataOK
  <2>7. WaitInv'
    BY <1>1, <2>2, <2>3, <2>4, <2>5, PlainStep
  <2>8. SendInv'
    BY <1>1, <1>3, <1>4, <1>7, <2>2, <2>3, <2>4, RefuseStep
  <2>9. PromiseStep
    <3>1. w.pc # "send" /\ heap.chan[c].closed
      BY <1>3, <1>7, <2>2
    <3>2. QED
      BY <1>1, <1>3, <1>4, <1>7, <2>3, <3>1, RefuseStepRefuses
  <2>10. QED
    BY <2>6, <2>7, <2>8, <2>9 DEF Invariants
<1>8. QED
  BY <1>6, <1>7

LEMMA ResumeRecvKeeps ==
  ASSUME Invariants, NEW t \in Tasks, Ready(t), ResumeRecv(t, task[t].op[2])
  PROVE  Invariants' /\ PromiseStep
<1>1. /\ DataOK /\ WaitInv /\ SendInv /\ heap \in Heap /\ Listed(heap) /\ ClosedUnlisted(heap) /\ SameValues(heap, heap)
      /\ \A u, n : TokensKept(heap, heap, u, n)
  BY SelfFacts DEF Invariants
<1>2. task[t].pc = "recv"
  BY DEF ResumeRecv
<1>3. PICK c \in Chans \cup {Nil} : c = task[t].op[2]
  BY <1>1, TaskFields DEF Case
<1>4. task[t] \in TaskType /\ task[t].n \in 1..MaxOps /\ task[t].n \in Nat /\ task[t].n > 0
  BY <1>1, <1>2, TaskFields, ChannelsAssumption
<1>5. PICK w : w = Returned(task[t])
  OBVIOUS
<1>6. w \in TaskType /\ w.n = task[t].n /\ w.pc \in {"run", "body"} /\ w.pc \in Plain /\ w.pc \notin UnsentPcs /\ w.pc # "send"
  BY <1>4, <1>5, ReturnedFacts DEF Plain, UnsentPcs
<1>7. PICK k : k = <<t, task[t].n, 0>>
  OBVIOUS
<1>8. k \in Tokens
  BY <1>4, <1>7, TokenTypes, ChannelsAssumption
<1>9. PICK r : r = Taken(heap, c)
  OBVIOUS
<1>10. /\ task' = [task EXCEPT ![t] = w] /\ heap' = TokenCancel(r, k) /\ sent' = sent
       /\ got' = [got EXCEPT ![t] = Received(heap, c)]
  BY <1>3, <1>5, <1>7, <1>9 DEF ResumeRecv, TokenOf
<1>11. Quiet(t, w)
  BY <1>1, <1>2, <1>6, <1>10, StaysQuiet
<1>12. r \in Heap /\ Listed(r) /\ ClosedUnlisted(r) /\ TokensKept(heap, r, t, w.n)
  BY <1>1, <1>9, TakenWaits
<1>13. Canceled(r, heap', {k})
  BY <1>8, <1>10, <1>12, TokenCancelFacts
<1>14. heap' \in Heap /\ Listed(heap') /\ ClosedUnlisted(heap') /\ SameValues(Taken(heap, c), heap')
  BY <1>9, <1>12, <1>13, CanceledUnlisted DEF Canceled
<1>15. TokensKept(heap, heap', t, w.n)
  <2> SUFFICES ASSUME NEW m \in Tokens, m[1] # t \/ m[2] > w.n PROVE TokenKept(heap, heap', m)
    BY DEF TokensKept
  <2>1. m # k
    BY <1>4, <1>6, <1>7
  <2>2. heap'.token[m] = r.token[m]
    BY <1>13, <2>1 DEF Canceled
  <2>3. TokenKept(heap, r, m)
    BY <1>12 DEF TokensKept
  <2>4. QED
    BY <2>2, <2>3 DEF TokenKept
<1>16. RecvReady(heap, c)
  BY <1>2, <1>3 DEF Ready
<1>17. QED
  BY <1>1, <1>4, <1>6, <1>10, <1>11, <1>14, <1>15, <1>16, TakenKeeps

LEMMA ResumeParkKeeps ==
  ASSUME Invariants, NEW t \in Tasks, ResumePark(t)
  PROVE  Invariants' /\ PromiseStep
<1>1. DataOK /\ WaitInv /\ SendInv
  BY DEF Invariants
<1>2. task[t].pc = "park"
  BY DEF ResumePark
<1>3. PICK i \in ReadyCases(heap, t) :
         IF task[t].refl
         THEN /\ CompleteSelect(CancelTokens(heap, SelectTokens(t)), t, task[t].cases[i], ValueOf(t))
              /\ task' = [task EXCEPT ![t] = Idle(task[t].n)]
         ELSE /\ task' = [task EXCEPT ![t] = Chosen(t, i)]
              /\ UNCHANGED <<heap, got, sent>>
  BY DEF ResumePark
<1>4. i \in 1..Len(task[t].cases) /\ task[t].cases[i] \in Case
  BY <1>1, TaskFields DEF ReadyCases
<1>5. CASE task[t].refl
  <2>1. PICK w : w = Idle(task[t].n)
    OBVIOUS
  <2>2. PICK s : s = CancelTokens(heap, SelectTokens(t))
    OBVIOUS
  <2>3. w \in TaskType /\ w.pc = "run" /\ w.n = task[t].n /\ (task' = [task EXCEPT ![t] = w] => Quiet(t, w))
    BY <1>1, <1>2, <2>1, GoesOn
  <2>4. Quiet(t, w) /\ CompleteSelect(s, t, task[t].cases[i], <<t, w.n>>)
    BY <1>3, <1>5, <2>1, <2>2, <2>3 DEF ValueOf
  <2>5. w.n \in 1..MaxOps
    BY <1>1, <1>2, <2>3, TaskFields
  <2>6. /\ s \in Heap /\ Listed(s) /\ ClosedUnlisted(s) /\ SameValues(heap, s)
        /\ \A k \in Tokens : k[1] # t \/ k[2] > w.n => s.token[k] = heap.token[k]
    BY <1>1, <1>2, <2>2, <2>3, CanceledKept
  <2>7. QED
    BY <1>1, <1>4, <2>3, <2>4, <2>5, <2>6, CompleteKeeps
<1>6. CASE ~task[t].refl
  <2>1. PICK me \in TaskType : me = Chosen(t, i) /\ me.pc = "commit" /\ me.n = task[t].n
    BY <1>1, <1>4, ChosenFacts
  <2>2. task' = [task EXCEPT ![t] = me] /\ UNCHANGED <<heap, got, sent>>
    BY <1>3, <1>6, <2>1
  <2>3. QED
    BY <1>2, <2>1, <2>2, SamePlaceKeeps
<1>7. QED
  BY <1>5, <1>6

-----------------------------------------------------------------------------
(* Aborted tasks                                                           *)

LEMMA WithdrawHeap ==
  ASSUME NEW s \in Heap, Listed(s), ClosedUnlisted(s), NEW G, \A c \in Chans : G[c] \in SUBSET Tasks,
         NEW h, h = [chan |-> h.chan, token |-> s.token], h.chan = [c \in Chans |-> h.chan[c]],
         \A c \in Chans : h.chan[c] = CancelSend(s.chan[c], G[c])
  PROVE  /\ h \in Heap /\ Listed(h) /\ ClosedUnlisted(h) /\ h.token = s.token
         /\ \A c \in Chans : /\ h.chan[c].buffer = s.chan[c].buffer
                             /\ h.chan[c].pending = Keep(s.chan[c].pending, PendingNotOf(G[c]))
                             /\ h.chan[c].completed = s.chan[c].completed \ G[c]
                             /\ h.chan[c].closed = s.chan[c].closed
<1>1. PICK new : new = h.chan
  OBVIOUS
<1>2. ASSUME NEW c \in Chans
      PROVE  /\ new[c] \in Channel /\ new[c].buffer = s.chan[c].buffer
             /\ new[c].pending = Keep(s.chan[c].pending, PendingNotOf(G[c]))
             /\ new[c].completed = s.chan[c].completed \ G[c] /\ new[c].closed = s.chan[c].closed
             /\ new[c].recvWaiters = s.chan[c].recvWaiters /\ new[c].sendWaiters = s.chan[c].sendWaiters
  <2>1. s.chan[c] \in Channel /\ s.chan[c].pending \in Seq(PendingSend) /\ s.chan[c].completed \in SUBSET Tasks
    BY HeapFields
  <2>2. PICK p \in Seq(PendingSend) : p = Keep(s.chan[c].pending, PendingNotOf(G[c]))
    BY <2>1, KeepFacts
  <2>3. PICK co \in SUBSET Tasks : co = s.chan[c].completed \ G[c]
    BY <2>1
  <2>4. new[c] = [s.chan[c] EXCEPT !.completed = co, !.pending = p]
    BY <1>1, <2>2, <2>3, Zenon DEF CancelSend
  <2>5. QED
    BY <2>1, <2>2, <2>3, <2>4 DEF Channel
<1>3. h.token = s.token /\ h.chan = new
  BY <1>1
<1>4. new \in [Chans -> Channel]
  BY <1>1, <1>2
<1>5. h \in Heap
  BY <1>3, <1>4, HeapFields DEF Heap
<1>6. Listed(h)
  BY <1>2, <1>3 DEF Listed, Live
<1>7. ClosedUnlisted(h)
  BY <1>2, <1>3 DEF ClosedUnlisted
<1>8. QED
  BY <1>2, <1>3, <1>5, <1>6, <1>7

LEMMA CancelScopeHeap ==
  ASSUME DataOK, WaitInv, NEW S \in SUBSET Tasks, NEW r, r = CancelBlockedOperations(heap, S)
  PROVE  /\ r \in Heap /\ Listed(r) /\ ClosedUnlisted(r)
         /\ \A c \in Chans : /\ r.chan[c].buffer = heap.chan[c].buffer
                             /\ r.chan[c].pending = Keep(heap.chan[c].pending, PendingNotOf(Senders(S, c)))
                             /\ r.chan[c].completed = heap.chan[c].completed \ Senders(S, c)
                             /\ r.chan[c].closed = heap.chan[c].closed
         /\ \A k \in Tokens : k[1] \notin S \/ k[2] # task[k[1]].n => r.token[k] = heap.token[k]
<1>1. heap \in Heap /\ Listed(heap) /\ ClosedUnlisted(heap)
  BY SelfFacts
<1>2. PICK G : G = [c \in Chans |-> Senders(S, c)]
  OBVIOUS
<1>3. (\A c \in Chans : G[c] \in SUBSET Tasks) /\ \A c \in Chans : G[c] = Senders(S, c)
  BY <1>2 DEF Senders
<1>4. PICK h : h = [heap EXCEPT !.chan = [c \in Chans |-> CancelSend(@[c], G[c])]]
  OBVIOUS
<1>5. PICK K : K = {TokenOf(t, 0) : t \in {u \in S : task[u].pc = "recv"}}
                   \cup UNION {SelectTokens(t) : t \in {u \in S : task[u].pc = "park"}}
  OBVIOUS
<1>6. r = CancelTokens(h, K)
  <2>1. h = [heap EXCEPT !.chan = [c \in Chans |-> CancelSend(@[c], Senders(S, c))]]
    BY <1>3, <1>4
  <2>2. QED
    BY <1>5, <2>1 DEF CancelBlockedOperations, Senders
<1>7. \A k \in K : k \in Tokens /\ k[1] \in S /\ k[2] = task[k[1]].n
  <2> SUFFICES ASSUME NEW k \in K PROVE k \in Tokens /\ k[1] \in S /\ k[2] = task[k[1]].n
    OBVIOUS
  <2>1. CASE \E t \in S : task[t].pc = "recv" /\ k = TokenOf(t, 0)
    <3>1. PICK t \in S : task[t].pc = "recv" /\ k = TokenOf(t, 0)
      BY <2>1
    <3>2. task[t].n \in 1..MaxOps /\ 0 \in 0..MaxCases
      BY <3>1, TaskFields, ChannelsAssumption
    <3>3. QED
      BY <3>1, <3>2, TokenTypes DEF TokenOf
  <2>2. CASE \E t \in S : task[t].pc = "park" /\ k \in SelectTokens(t)
    <3>1. PICK t \in S : task[t].pc = "park" /\ k \in SelectTokens(t)
      BY <2>2
    <3>2. t \in Tasks
      OBVIOUS
    <3>3. k \in Tokens /\ k[1] = t /\ k[2] = task[t].n
      BY <3>1, <3>2, SelectTokensFacts
    <3>4. QED
      BY <3>3
  <2>3. QED
    BY <1>5, <2>1, <2>2
<1>8. /\ h \in Heap /\ Listed(h) /\ ClosedUnlisted(h) /\ h.token = heap.token
      /\ \A c \in Chans : /\ h.chan[c].buffer = heap.chan[c].buffer
                          /\ h.chan[c].pending = Keep(heap.chan[c].pending, PendingNotOf(G[c]))
                          /\ h.chan[c].completed = heap.chan[c].completed \ G[c]
                          /\ h.chan[c].closed = heap.chan[c].closed
  <2>1. h = [chan |-> h.chan, token |-> heap.token] /\ h.chan = [c \in Chans |-> h.chan[c]]
    BY <1>1, <1>4, HeapFields
  <2>2. \A c \in Chans : h.chan[c] = CancelSend(heap.chan[c], G[c])
    BY <1>1, <1>4, HeapFields
  <2>3. QED
    BY ONLY <1>1, <1>3, <2>1, <2>2, WithdrawHeap
<1>9. Canceled(h, r, K)
  <2>1. K \in SUBSET Tokens
    BY <1>7
  <2>2. QED
    BY ONLY <1>6, <1>8, <2>1, CancelTokensFacts
<1>10. r \in Heap /\ Listed(r)
  BY <1>9 DEF Canceled
<1>11. ClosedUnlisted(r)
  BY ONLY <1>8, <1>9, CanceledUnlisted
<1>12. \A c \in Chans : /\ r.chan[c].buffer = heap.chan[c].buffer
                        /\ r.chan[c].pending = Keep(heap.chan[c].pending, PendingNotOf(Senders(S, c)))
                        /\ r.chan[c].completed = heap.chan[c].completed \ Senders(S, c)
                        /\ r.chan[c].closed = heap.chan[c].closed
  BY <1>3, <1>8, <1>9 DEF Canceled, SameValues
<1>13. \A k \in Tokens : k[1] \notin S \/ k[2] # task[k[1]].n => r.token[k] = heap.token[k]
  BY <1>7, <1>8, <1>9 DEF Canceled
<1>14. QED
  BY <1>10, <1>11, <1>12, <1>13

LEMMA CancelScopeKeeps ==
  ASSUME Invariants, NEW S \in SUBSET Tasks, CancelScope(S)
  PROVE  Invariants' /\ PromiseStep
<1>1. DataOK /\ WaitInv /\ SendInv /\ heap \in Heap
  BY SelfFacts DEF Invariants
<1>2. /\ heap' = CancelBlockedOperations(heap, S) /\ got' = got /\ sent' = sent
      /\ task' = [t \in Tasks |-> IF t \in S THEN Aborted(task[t].n) ELSE task[t]]
  BY DEF CancelScope, Aborted
<1>3. /\ heap' \in Heap /\ Listed(heap') /\ ClosedUnlisted(heap')
      /\ \A c \in Chans : /\ heap'.chan[c].buffer = heap.chan[c].buffer
                          /\ heap'.chan[c].pending = Keep(heap.chan[c].pending, PendingNotOf(Senders(S, c)))
                          /\ heap'.chan[c].completed = heap.chan[c].completed \ Senders(S, c)
                          /\ heap'.chan[c].closed = heap.chan[c].closed
      /\ \A k \in Tokens : k[1] \notin S \/ k[2] # task[k[1]].n => heap'.token[k] = heap.token[k]
  BY <1>1, <1>2, CancelScopeHeap
<1>4. ASSUME NEW t \in Tasks
      PROVE  /\ t \in S => task'[t] = Aborted(task[t].n) /\ task'[t] \in TaskType /\ task'[t].pc = "done" /\ task'[t].n = task[t].n
             /\ t \notin S => task'[t] = task[t] /\ task'[t] \in TaskType
  BY <1>1, <1>2, IdleFacts, AbortedFields, TaskFields
<1>5. DataOK'
  <2>1. task' \in [Tasks -> TaskType]
    BY <1>2, <1>4
  <2>2. \A t \in Tasks : task'[t].pc = "register" => task'[t].k \in 1..Len(task'[t].cases)
    BY <1>1, <1>4 DEF DataOK
  <2>3. Numbered'
    BY <1>1, <1>4 DEF DataOK, Numbered
  <2>4. QED
    BY <1>1, <1>2, <1>3, <2>1, <2>2, <2>3 DEF DataOK
<1>6. \A t \in Tasks : FreshFor(heap', task'[t], t) /\ SubscribedFor(heap', task'[t], t)
  <2> SUFFICES ASSUME NEW t \in Tasks PROVE FreshFor(heap', task'[t], t) /\ SubscribedFor(heap', task'[t], t)
    OBVIOUS
  <2>1. FreshFor(heap, task[t], t) /\ SubscribedFor(heap, task[t], t)
    BY <1>1, PerTask DEF WaitInv
  <2>2. task[t].n \in Nat /\ Len(task[t].cases) \in 0..MaxCases
    BY <1>1, TaskFields
  <2>3. CASE t \in S
    <3>1. task'[t].pc = "done" /\ task'[t].n = task[t].n
      BY <1>4, <2>3
    <3>2. SubscribedFor(heap', task'[t], t)
      BY <3>1 DEF SubscribedFor
    <3>3. ASSUME NEW m \in 1..MaxOps, NEW i \in 0..MaxCases, UnusedBy(task'[t], m, i)
          PROVE  heap'.token[<<t, m, i>>] = NewToken
      <4>1. m > task[t].n /\ m # task[t].n
        BY <2>2, <3>1, <3>3 DEF UnusedBy
      <4>2. heap.token[<<t, m, i>>] = NewToken
        BY <2>1, <4>1 DEF FreshFor, UnusedBy
      <4>3. <<t, m, i>> \in Tokens
        BY TokenTypes
      <4>4. QED
        BY <1>3, <4>1, <4>2, <4>3
    <3>4. QED
      BY <3>2, <3>3 DEF FreshFor
  <2>4. CASE t \notin S
    <3>1. task'[t] = task[t]
      BY <1>4, <2>4
    <3>2. \A m \in 1..MaxOps, i \in 0..MaxCases : heap'.token[<<t, m, i>>] = heap.token[<<t, m, i>>]
      BY <1>3, <2>4, TokenTypes
    <3>3. FreshFor(heap', task'[t], t)
      BY <2>1, <3>1, <3>2 DEF FreshFor
    <3>4. SubscribedFor(heap', task'[t], t)
      <4> SUFFICES ASSUME NEW i \in 1..Len(task[t].cases),
                          task[t].pc \in {"choose", "park"} \/ (task[t].pc = "register" /\ i < task[t].k)
                   PROVE  SubscribedCase(heap', task[t].cases[i], <<t, task[t].n, i>>)
        BY <3>1 DEF SubscribedFor
      <4>1. SubscribedCase(heap, task[t].cases[i], <<t, task[t].n, i>>)
        BY <2>1 DEF SubscribedFor
      <4>2. task[t].n \in 1..MaxOps
        <5>1. task[t].pc \notin {"run", "done"}
          OBVIOUS
        <5>2. QED
          BY <1>1, <5>1, TaskFields
      <4>3. i \in 0..MaxCases
        BY <2>2, ChannelsAssumption
      <4>4. QED
        BY <3>2, <4>1, <4>2, <4>3 DEF SubscribedCase
    <3>5. QED
      BY <3>3, <3>4
  <2>5. QED
    BY <2>3, <2>4
<1>7. WaitInv'
  <2>1. (FreshTokens <=> \A u \in Tasks : FreshFor(heap, task[u], u))'
    BY DEF FreshTokens, Unused, FreshFor, UnusedBy
  <2>2. (Subscribed <=> \A u \in Tasks : SubscribedFor(heap, task[u], u))'
    BY DEF Subscribed, SubscribedFor, SubscribedCase, TokenOf
  <2>3. QED
    BY <1>3, <1>6, <2>1, <2>2 DEF WaitInv
<1>8. SendInv'
  BY <1>1, <1>2, <1>3, WithdrawStep
<1>9. PromiseStep
  BY <1>1, <1>2, <1>3, WithdrawStepWithdraws
<1>10. QED
  BY <1>5, <1>7, <1>8, <1>9 DEF Invariants

-----------------------------------------------------------------------------
(* The scheduler                                                           *)

LEMMA SameData ==
  ASSUME Invariants, UNCHANGED <<heap, task, got, sent>>
  PROVE  Invariants' /\ PromiseStep
<1>1. heap' = heap /\ task' = task /\ got' = got /\ sent' = sent
  OBVIOUS
<1>2. DataOK'
  BY <1>1 DEF Invariants, DataOK, Numbered
<1>3. WaitInv'
  <2>1. Listed(heap') /\ ClosedUnlisted(heap')
    BY <1>1 DEF Invariants, WaitInv
  <2>2. FreshTokens'
    BY <1>1 DEF Invariants, WaitInv, FreshTokens, Unused
  <2>3. Subscribed'
    BY <1>1 DEF Invariants, WaitInv, Subscribed, TokenOf
  <2>4. QED
    BY <2>1, <2>2, <2>3 DEF WaitInv
<1>4. SendInv'
  <2>1. ASSUME NEW c \in Chans PROVE Accounted(c)'
    <3>1. Accounted(c)
      BY DEF Invariants, SendInv
    <3>2. Accounted(c)' <=> Accounted(c)
      BY <1>1 DEF Accounted, WaitsToSend, ValueOf, Filled
    <3>3. QED
      BY <3>1, <3>2
  <2>2. SentOnce' /\ BufferedOnce'
    BY <1>1 DEF Invariants, SendInv, SentOnce, BufferedOnce, WaitsToSend, Unsent
  <2>3. QED
    BY <2>1, <2>2 DEF SendInv
<1>5. PromiseStep
  <2>1. Waiting' = Waiting /\ RefusedTasks' = RefusedTasks
    BY <1>1 DEF Waiting, RefusedTasks
  <2>2. Queues' = Queues /\ ClosedChans' = ClosedChans
    BY <1>1, SameQueues DEF SameValues
  <2>3. WaitingValues' = WaitingValues /\ RefusedValues' = RefusedValues
    BY <1>1, <2>1 DEF WaitingValues, RefusedValues, ValueOf
  <2>4. QED
    BY <1>1, <2>2, <2>3 DEF PromiseStep, promise
<1>6. QED
  BY <1>2, <1>3, <1>4, <1>5 DEF Invariants

LEMMA SameReady ==
  ASSUME UNCHANGED <<heap, task>>, NEW t
  PROVE  Ready(t)' <=> Ready(t)
BY DEF Ready, ReadyCases, TokenOf, RecvReady

LEMMA DispatchKeeps ==
  ASSUME MachineOK, Dispatch
  PROVE  MachineOK' /\ Scanned'
<1>1. runnable # <<>> /\ scan = 0 /\ blocked' = blocked /\ scan' = scan /\ progress' = progress
  BY DEF Dispatch
<1>2. Head(runnable) \in Tasks /\ Tail(runnable) \in Seq(Tasks)
  BY <1>1, HeadTailProperties DEF MachineOK
<1>3. MachineOK'
  BY <1>1, <1>2 DEF MachineOK, Dispatch
<1>4. \A i \in DOMAIN blocked' : ~(i < scan')
  BY <1>1, LenProperties DEF MachineOK
<1>5. QED
  BY <1>1, <1>3, <1>4 DEF Scanned

LEMMA PreemptKeeps ==
  ASSUME MachineOK, NEW t \in Tasks, Preempt(t)
  PROVE  MachineOK' /\ Scanned'
<1>1. runnable' \in Seq(Tasks) /\ blocked' \in Seq(Tasks) /\ StartWake
  BY AppendProperties DEF MachineOK, Preempt
<1>2. QED
  BY <1>1, StartsWake

LEMMA WakeIdleKeeps ==
  ASSUME MachineOK, WakeIdle
  PROVE  MachineOK' /\ Scanned'
<1>1. runnable' \in Seq(Tasks) /\ blocked' \in Seq(Tasks) /\ StartWake
  BY DEF MachineOK, WakeIdle
<1>2. QED
  BY <1>1, StartsWake

LEMMA WakeSkipKeeps ==
  ASSUME MachineOK, Scanned, WakeSkip
  PROVE  MachineOK' /\ Scanned'
<1>1. /\ scan \in 1..Len(blocked) /\ scan' = scan + 1 /\ ~Ready(blocked[scan])
      /\ runnable' = runnable /\ blocked' = blocked /\ current' = current /\ progress' = progress
      /\ UNCHANGED <<heap, task>>
  BY DEF WakeSkip
<1>2. Len(blocked) \in Nat /\ DOMAIN blocked = 1..Len(blocked)
  BY LenProperties DEF MachineOK
<1>3. scan' \in 0..Len(blocked) + 1 /\ scan # 0
  BY <1>1, <1>2
<1>4. MachineOK'
  BY <1>1, <1>3 DEF MachineOK
<1>5. current' = None
  BY <1>1, <1>3 DEF Scanned
<1>6. ASSUME ~progress', NEW i \in DOMAIN blocked', i < scan'
      PROVE  ~Ready(blocked[i])'
  <2>1. i \in 1..Len(blocked) /\ (i < scan \/ i = scan)
    BY <1>1, <1>2, <1>6
  <2>2. ~Ready(blocked[i])
    BY <1>1, <1>2, <1>6, <2>1 DEF Scanned
  <2>3. PICK u : u = blocked[i] /\ u = blocked'[i]
    BY <1>1
  <2>4. ~Ready(u)'
    BY <1>1, <2>2, <2>3, SameReady
  <2>5. QED
    BY <2>3, <2>4 DEF Ready
<1>7. QED
  BY <1>4, <1>5, <1>6 DEF Scanned

LEMMA WakePassEndKeeps ==
  ASSUME MachineOK, Scanned, WakePassEnd
  PROVE  MachineOK' /\ Scanned'
<1>1. /\ scan = Len(blocked) + 1 /\ scan' = IF progress THEN 1 ELSE 0
      /\ runnable' = runnable /\ blocked' = blocked /\ current' = current /\ progress' = FALSE
  BY DEF WakePassEnd
<1>2. Len(blocked) \in Nat /\ DOMAIN blocked = 1..Len(blocked)
  BY LenProperties DEF MachineOK
<1>3. scan' \in 0..Len(blocked) + 1 /\ scan # 0
  BY <1>1, <1>2
<1>4. MachineOK'
  BY <1>1, <1>3 DEF MachineOK
<1>5. current' = None
  BY <1>1, <1>3 DEF Scanned
<1>6. \A i \in DOMAIN blocked' : ~(i < scan')
  BY <1>1, <1>2
<1>7. QED
  BY <1>4, <1>5, <1>6 DEF Scanned

LEMMA Removed ==
  ASSUME NEW S, NEW s \in Seq(S), NEW i \in 1..Len(s)
  PROVE  RemoveAt(s, i) \in Seq(S) /\ Len(RemoveAt(s, i)) = Len(s) - 1
<1>1. Len(s) \in Nat /\ DOMAIN s = 1..Len(s)
  BY LenProperties
<1>2. SubSeq(s, 1, i - 1) \in Seq(S) /\ Len(SubSeq(s, 1, i - 1)) = i - 1
  BY <1>1, SubSeqProperties
<1>3. SubSeq(s, i + 1, Len(s)) \in Seq(S) /\ Len(SubSeq(s, i + 1, Len(s))) = Len(s) - i
  <2>1. PICK a \in Int : a = i + 1
    OBVIOUS
  <2>2. PICK b \in Nat : b = Len(s)
    BY LenProperties
  <2>3. \A j \in a..b : s[j] \in S
    BY <1>1, <2>1, <2>2, ElementOfSeq
  <2>4. SubSeq(s, a, b) \in Seq(S) /\ Len(SubSeq(s, a, b)) = IF a <= b THEN (b - a) + 1 ELSE 0
    BY <2>3, SubSeqProperties
  <2>5. (IF a <= b THEN (b - a) + 1 ELSE 0) = b - i
    <3>1. i \in 1..b
      BY <2>2
    <3>2. QED
      BY <2>1, <3>1
  <2>6. QED
    BY <2>1, <2>2, <2>4, <2>5
<1>4. RemoveAt(s, i) = SubSeq(s, 1, i - 1) \o SubSeq(s, i + 1, Len(s))
  BY DEF RemoveAt
<1>5. (i - 1) + (Len(s) - i) = Len(s) - 1
  BY <1>1
<1>6. PICK x \in Seq(S) : x = SubSeq(s, 1, i - 1)
  BY <1>2
<1>7. PICK y \in Seq(S) : y = SubSeq(s, i + 1, Len(s))
  BY <1>3
<1>8. x \o y \in Seq(S) /\ Len(x \o y) = Len(x) + Len(y)
  BY ConcatProperties
<1>9. QED
  BY <1>2, <1>3, <1>4, <1>5, <1>6, <1>7, <1>8, Zenon

LEMMA WakeResumeKeeps ==
  ASSUME IInv, WakeResume
  PROVE  IInv' /\ PromiseStep
<1>1. MachineOK /\ Scanned /\ Invariants
  BY Parts DEF Invariants
<1>2. PICK t : t = blocked[scan]
  OBVIOUS
<1>3. /\ scan \in 1..Len(blocked) /\ Ready(t) /\ blocked' = RemoveAt(blocked, scan)
      /\ ResumeSend(t, task[t].op[2]) \/ ResumeRecv(t, task[t].op[2]) \/ ResumePark(t)
      /\ runnable' = Append(runnable, t) /\ progress' = TRUE /\ current' = current /\ scan' = scan
  BY <1>2 DEF WakeResume
<1>4. blocked \in Seq(Tasks) /\ Len(blocked) \in Nat /\ DOMAIN blocked = 1..Len(blocked) /\ runnable \in Seq(Tasks)
  BY <1>1, LenProperties DEF MachineOK
<1>5. t \in Tasks
  BY <1>2, <1>3, <1>4, ElementOfSeq
<1>6. Invariants' /\ PromiseStep
  BY <1>1, <1>3, <1>5, ResumeSendKeeps, ResumeRecvKeeps, ResumeParkKeeps
<1>7. blocked' \in Seq(Tasks) /\ Len(blocked') = Len(blocked) - 1
  BY <1>3, <1>4, Removed, Zenon
<1>8. runnable' \in Seq(Tasks)
  BY <1>3, <1>4, <1>5, AppendProperties
<1>9. scan' \in 0..Len(blocked') + 1 /\ scan # 0
  BY <1>3, <1>4, <1>7
<1>10. current' = None
  BY <1>1, <1>3, <1>9 DEF Scanned
<1>11. MachineOK'
  BY <1>3, <1>7, <1>8, <1>9, <1>10 DEF MachineOK
<1>12. Scanned'
  BY <1>3, <1>10 DEF Scanned
<1>13. QED
  BY <1>6, <1>11, <1>12, Parts DEF Invariants

LEMMA CancelScopeMachine ==
  ASSUME MachineOK, Scanned, NEW S \in SUBSET Tasks, CancelScope(S)
  PROVE  MachineOK' /\ Scanned'
<1>1. /\ current \in S \/ (current = None /\ scan = 0)
      /\ runnable' = Keep(runnable, Tasks \ S) /\ blocked' = Keep(blocked, Tasks \ S)
      /\ current' = None /\ scan' = scan /\ progress' = progress
  BY DEF CancelScope
<1>2. runnable' \in Seq(Tasks) /\ blocked' \in Seq(Tasks)
  BY <1>1, KeepFacts DEF MachineOK
<1>3. scan = 0
  BY <1>1, ChannelsAssumption DEF Scanned
<1>4. Len(blocked') \in Nat /\ DOMAIN blocked' = 1..Len(blocked')
  BY <1>2, LenProperties
<1>5. scan' \in 0..Len(blocked') + 1
  BY <1>1, <1>3, <1>4
<1>6. MachineOK'
  BY <1>1, <1>2, <1>5 DEF MachineOK
<1>7. \A i \in DOMAIN blocked' : ~(i < scan')
  BY <1>1, <1>3, <1>4
<1>8. QED
  BY <1>1, <1>6, <1>7 DEF Scanned

-----------------------------------------------------------------------------
(* The invariant                                                           *)

LEMMA InitMachine ==
  ASSUME Init
  PROVE  MachineOK /\ Scanned
<1>1. PICK used \in Starts : runnable \in SetToSeqs({t \in Tasks : used[t] < MaxOps})
  BY DEF Init
<1>2. PICK T : T = {t \in Tasks : used[t] < MaxOps}
  OBVIOUS
<1>3. T \in SUBSET Tasks /\ Cardinality(T) \in Nat
  <2>1. IsFiniteSet(T)
    BY <1>2, ChannelsAssumption, FS_Subset
  <2>2. QED
    BY <1>2, <2>1, FS_CardinalityType
<1>4. runnable \in Seq(Tasks)
  <2>1. runnable \in [1..Cardinality(T) -> T]
    BY <1>1, <1>2 DEF SetToSeqs
  <2>2. PICK k \in Nat : k = Cardinality(T)
    BY <1>3
  <2>3. runnable \in [1..k -> Tasks]
    BY <1>3, <2>1, <2>2
  <2>4. QED
    BY <2>3
<1>5. blocked = <<>> /\ current = None /\ scan = 0 /\ progress = FALSE
  BY DEF Init
<1>6. Len(blocked) = 0 /\ DOMAIN blocked = {} /\ blocked \in Seq(Tasks)
  BY <1>5
<1>7. MachineOK
  <2>1. scan \in 0..Len(blocked) + 1
    BY <1>5, <1>6
  <2>2. current \in Tasks \cup {None} /\ progress \in BOOLEAN
    BY <1>5
  <2>3. QED
    BY <1>4, <1>6, <2>1, <2>2 DEF MachineOK
<1>8. Scanned
  BY <1>5, <1>6 DEF Scanned
<1>9. QED
  BY <1>7, <1>8

LEMMA EmptyHeapFacts ==
  /\ EmptyHeap \in Heap /\ Listed(EmptyHeap) /\ ClosedUnlisted(EmptyHeap)
  /\ \A c \in Chans : EmptyHeap.chan[c] = NewChannel
  /\ \A k \in Tokens : EmptyHeap.token[k] = NewToken
<1>1. NewChannel \in Channel
  <2>1. <<>> \in Seq(Values) /\ <<>> \in Seq(PendingSend) /\ <<>> \in Seq(Tokens)
    OBVIOUS
  <2>2. QED
    BY <2>1 DEF NewChannel, Channel
<1>2. NewToken \in Token
  BY DEF NewToken, Token
<1>3. EmptyHeap \in Heap
  BY <1>1, <1>2 DEF EmptyHeap, Heap
<1>4. /\ \A c \in Chans : EmptyHeap.chan[c] = NewChannel
      /\ \A k \in Tokens : EmptyHeap.token[k] = NewToken
  BY DEF EmptyHeap
<1>5. PICK none : none = <<>>
  OBVIOUS
<1>6. DOMAIN none = {}
  BY <1>5
<1>7. Range(none) = {} /\ IsInjective(none)
  BY <1>6 DEF Range, IsInjective
<1>8. /\ NewChannel.recvWaiters = none /\ NewChannel.sendWaiters = none /\ ~NewChannel.closed
      /\ NewToken.registrations = {}
  BY <1>5 DEF NewChannel, NewToken
<1>9. Listed(EmptyHeap)
  BY <1>4, <1>7, <1>8 DEF Listed
<1>10. ClosedUnlisted(EmptyHeap)
  BY <1>4, <1>8 DEF ClosedUnlisted
<1>11. QED
  BY <1>3, <1>4, <1>9, <1>10

LEMMA InitData ==
  ASSUME Init
  PROVE  Invariants
<1>1. PICK used \in Starts :
        task = [t \in Tasks |-> [Idle(used[t]) EXCEPT !.pc = IF used[t] < MaxOps THEN @ ELSE "done"]]
  BY DEF Init
<1>2. heap = EmptyHeap /\ got = [t \in Tasks |-> NoValue] /\ sent = {}
  BY DEF Init
<1>3. ASSUME NEW t \in Tasks
      PROVE  task[t] \in TaskType /\ task[t].pc \in {"run", "done"} /\ task[t].cases = <<>>
  <2>1. used[t] \in 0..MaxOps
    BY ChannelsAssumption
  <2>2. PICK idle : idle = Idle(used[t])
    OBVIOUS
  <2>3. idle \in TaskType /\ idle.pc = "run" /\ idle.cases = <<>>
    BY <2>1, <2>2, IdleFacts
  <2>4. task[t] = [idle EXCEPT !.pc = IF used[t] < MaxOps THEN idle.pc ELSE "done"]
    BY <1>1, <2>2
  <2>5. QED
    BY <2>3, <2>4 DEF TaskType, Pcs
<1>4. DataOK
  <2>1. task \in [Tasks -> TaskType]
    BY <1>1, <1>3
  <2>2. \A t \in Tasks : task[t].pc # "register"
    BY <1>3
  <2>3. Numbered
    BY <1>3 DEF Numbered
  <2>4. QED
    BY <1>2, <2>1, <2>2, <2>3, EmptyHeapFacts DEF DataOK
<1>5. WaitInv
  <2>1. FreshTokens
    BY <1>2, EmptyHeapFacts, TokenTypes DEF FreshTokens
  <2>2. Subscribed
    BY <1>3 DEF Subscribed
  <2>3. QED
    BY <1>2, <2>1, <2>2, EmptyHeapFacts DEF WaitInv
<1>6. SendInv
  <2>1. ASSUME NEW c \in Chans
        PROVE  /\ heap.chan[c].buffer = <<>> /\ heap.chan[c].pending = <<>>
               /\ heap.chan[c].completed = {} /\ heap.chan[c].closed = FALSE
    BY <1>2, EmptyHeapFacts DEF NewChannel
  <2>2. ASSUME NEW c \in Chans PROVE Accounted(c)
    <3>1. Filled(heap.chan[c], Capacity[c])
      <4>1. PICK none : none = <<>> /\ Len(none) = 0
        OBVIOUS
      <4>2. PICK capacity \in Nat : capacity = Capacity[c]
        BY WaitableAssumption
      <4>3. heap.chan[c].buffer = none /\ heap.chan[c].pending = none
        BY <2>1, <4>1
      <4>4. Len(none) <= capacity
        BY <4>1
      <4>5. QED
        BY <4>1, <4>2, <4>3, <4>4 DEF Filled
    <3>2. \A t \in Tasks : ~WaitsToSend(t, c)
      BY <1>3 DEF WaitsToSend
    <3>3. DOMAIN heap.chan[c].pending = {}
      <4>1. PICK none : none = <<>>
        OBVIOUS
      <4>2. DOMAIN none = {}
        BY <4>1
      <4>3. QED
        BY <2>1, <4>1, <4>2
    <3>4. QED
      BY <2>1, <3>1, <3>2, <3>3 DEF Accounted
  <2>3. SentOnce
    BY <1>2 DEF SentOnce
  <2>4. BufferedOnce
    <3>1. PICK none : none = <<>>
      OBVIOUS
    <3>2. Range(none) = {}
      BY <3>1 DEF Range
    <3>3. QED
      BY <2>1, <3>1, <3>2 DEF BufferedOnce
  <2>5. QED
    BY <2>2, <2>3, <2>4 DEF SendInv
<1>7. QED
  BY <1>4, <1>5, <1>6 DEF Invariants

\* A task that goes on, or blocks.
LEMMA TaskStepMachine ==
  ASSUME MachineOK, Scanned, NEW t \in Tasks, (current = t /\ KeepRunning) \/ Block(t)
  PROVE  MachineOK' /\ Scanned'
BY KeepsRunning, Blocks

LEMMA TaskKeeps ==
  ASSUME IInv, NEW t \in Tasks,
         \/ Finish(t)
         \/ \E c \in Chans \cup {Nil} : SendStatement(t, c)
         \/ \E c \in Chans \cup {Nil} : RecvExpression(t, c)
         \/ \E c \in Chans : TrySendCall(t, c)
         \/ \E c \in Chans : CloseStatement(t, c)
         \/ \E cases \in Selects, dflt \in BOOLEAN : SelectBegin(t, cases, dflt)
         \/ SelectRegister(t)
         \/ SelectChoose(t)
         \/ SelectCommit(t)
         \/ SelectEnd(t)
         \/ SelectLeave(t)
         \/ \E cases \in Selects, dflt \in BOOLEAN : ReflectSelect(t, cases, dflt)
  PROVE  IInv' /\ PromiseStep
<1>1. MachineOK /\ Scanned /\ Invariants
  BY Parts DEF Invariants
<1>2. DataOK
  BY <1>1 DEF Invariants
<1> SUFFICES MachineOK' /\ Scanned' /\ Invariants' /\ PromiseStep
  BY Parts DEF Invariants
<1>3. CASE Finish(t)
  <2>1. runnable' \in Seq(Tasks) /\ blocked' \in Seq(Tasks) /\ StartWake
    BY <1>1, <1>3 DEF Finish, MachineOK
  <2>2. MachineOK' /\ Scanned'
    BY <1>1, <2>1, StartsWake
  <2>3. QED
    BY <1>1, <1>3, <2>2, FinishKeeps
<1>4. ASSUME NEW c \in Chans \cup {Nil}, SendStatement(t, c)
      PROVE  MachineOK' /\ Scanned' /\ Invariants' /\ PromiseStep
  <2>1. Acts(t, Begun(t)) /\ DoSend(t, Begun(t), c) /\ current = t
    BY <1>2, <1>4, BegunActs DEF SendStatement, Begins
  <2>2. (current = t /\ KeepRunning) \/ Block(t)
    BY <2>1 DEF DoSend
  <2>3. QED
    BY <1>1, <2>1, <2>2, TaskStepMachine, SendKeeps
<1>5. ASSUME NEW c \in Chans \cup {Nil}, RecvExpression(t, c)
      PROVE  MachineOK' /\ Scanned' /\ Invariants' /\ PromiseStep
  <2>1. Acts(t, Begun(t)) /\ DoRecv(t, Begun(t), c) /\ current = t
    BY <1>2, <1>5, BegunActs DEF RecvExpression, Begins
  <2>2. (current = t /\ KeepRunning) \/ Block(t)
    BY <2>1 DEF DoRecv
  <2>3. QED
    BY <1>1, <2>1, <2>2, TaskStepMachine, RecvKeeps
<1>6. ASSUME NEW c \in Chans, TrySendCall(t, c)
      PROVE  MachineOK' /\ Scanned' /\ Invariants' /\ PromiseStep
  <2>1. current = t /\ KeepRunning
    BY <1>6 DEF TrySendCall, Begins
  <2>2. QED
    BY <1>1, <1>6, <2>1, TaskStepMachine, TryKeeps
<1>7. ASSUME NEW c \in Chans, CloseStatement(t, c)
      PROVE  MachineOK' /\ Scanned' /\ Invariants' /\ PromiseStep
  <2>1. current = t /\ KeepRunning
    BY <1>7 DEF CloseStatement, Begins
  <2>2. QED
    BY <1>1, <1>7, <2>1, TaskStepMachine, CloseKeeps
<1>8. ASSUME NEW cases \in Selects, NEW dflt \in BOOLEAN, SelectBegin(t, cases, dflt)
      PROVE  MachineOK' /\ Scanned' /\ Invariants' /\ PromiseStep
  <2>1. current = t /\ KeepRunning
    BY <1>8, Zenon DEF SelectBegin, Begins
  <2>2. QED
    BY <1>1, <1>8, <2>1, TaskStepMachine, SelectBeginKeeps
<1>9. CASE SelectRegister(t)
  <2>1. current = t /\ KeepRunning
    BY <1>9 DEF SelectRegister
  <2>2. QED
    BY <1>1, <1>9, <2>1, TaskStepMachine, SelectRegisterKeeps
<1>10. CASE SelectChoose(t)
  <2>1. (current = t /\ KeepRunning) \/ Block(t)
    BY <1>10 DEF SelectChoose
  <2>2. QED
    BY <1>1, <1>10, <2>1, TaskStepMachine, SelectChooseKeeps
<1>11. CASE SelectCommit(t)
  <2>1. PICK c \in Chans \cup {Nil} : c = task[t].op[2]
    BY <1>2, TaskFields DEF Case
  <2>2. Acts(t, task[t]) /\ current = t /\ (DoSend(t, task[t], c) \/ DoRecv(t, task[t], c))
    BY <1>2, <1>11, <2>1, CommitActs DEF SelectCommit
  <2>3. (current = t /\ KeepRunning) \/ Block(t)
    BY <2>2 DEF DoSend, DoRecv
  <2>4. QED
    BY <1>1, <2>2, <2>3, TaskStepMachine, SendKeeps, RecvKeeps
<1>12. CASE SelectEnd(t) \/ SelectLeave(t)
  <2>1. current = t /\ KeepRunning
    BY <1>12 DEF SelectEnd, SelectLeave
  <2>2. QED
    BY <1>1, <1>12, <2>1, TaskStepMachine, SelectEndKeeps
<1>13. ASSUME NEW cases \in Selects, NEW dflt \in BOOLEAN, ReflectSelect(t, cases, dflt)
       PROVE  MachineOK' /\ Scanned' /\ Invariants' /\ PromiseStep
  <2>1. (current = t /\ KeepRunning) \/ Block(t)
    BY <1>13, Zenon DEF ReflectSelect, Begins
  <2>2. QED
    BY <1>1, <1>13, <2>1, TaskStepMachine, ReflectSelectKeeps
<1>14. QED
  BY <1>3, <1>4, <1>5, <1>6, <1>7, <1>8, <1>9, <1>10, <1>11, <1>12, <1>13

LEMMA StepKeeps ==
  ASSUME IInv, [Next]_vars
  PROVE  IInv' /\ PromiseStep
<1>1. MachineOK /\ Scanned /\ Invariants
  BY Parts DEF Invariants
<1>2. CASE \E t \in Tasks : Preempt(t)
  <2>1. PICK t \in Tasks : Preempt(t)
    BY <1>2
  <2>2. Invariants' /\ MachineOK' /\ Scanned' /\ PromiseStep
    BY <1>1, <2>1, SameData, PreemptKeeps DEF Preempt
  <2>3. QED
    BY <2>2, Parts DEF Invariants
<1>3. CASE Dispatch
  <2>1. Invariants' /\ MachineOK' /\ Scanned' /\ PromiseStep
    BY <1>1, <1>3, SameData, DispatchKeeps DEF Dispatch
  <2>2. QED
    BY <2>1, Parts DEF Invariants
<1>4. CASE WakeSkip
  <2>1. Invariants' /\ MachineOK' /\ Scanned' /\ PromiseStep
    BY <1>1, <1>4, SameData, WakeSkipKeeps DEF WakeSkip
  <2>2. QED
    BY <2>1, Parts DEF Invariants
<1>5. CASE WakePassEnd
  <2>1. Invariants' /\ MachineOK' /\ Scanned' /\ PromiseStep
    BY <1>1, <1>5, SameData, WakePassEndKeeps DEF WakePassEnd
  <2>2. QED
    BY <2>1, Parts DEF Invariants
<1>6. CASE WakeIdle
  <2>1. Invariants' /\ MachineOK' /\ Scanned' /\ PromiseStep
    BY <1>1, <1>6, SameData, WakeIdleKeeps DEF WakeIdle
  <2>2. QED
    BY <2>1, Parts DEF Invariants
<1>7. CASE \E S \in SUBSET Tasks : CancelScope(S)
  <2>1. PICK S \in SUBSET Tasks : CancelScope(S)
    BY <1>7
  <2>2. Invariants' /\ MachineOK' /\ Scanned' /\ PromiseStep
    BY <1>1, <2>1, CancelScopeKeeps, CancelScopeMachine
  <2>3. QED
    BY <2>2, Parts DEF Invariants
<1>8. CASE UNCHANGED vars
  <2>1. UNCHANGED <<heap, task, got, sent>> /\ UNCHANGED <<runnable, blocked, current, scan, progress>>
    BY <1>8 DEF vars
  <2>2. Invariants' /\ MachineOK' /\ PromiseStep
    BY <1>1, <2>1, SameData DEF MachineOK
  <2>3. Scanned'
    BY <1>1, <2>1, Zenon DEF Scanned, Ready, ReadyCases, TokenOf, RecvReady
  <2>4. QED
    BY <2>2, <2>3, Parts DEF Invariants
<1>9. QED
  BY <1>2, <1>3, <1>4, <1>5, <1>6, <1>7, <1>8, WakeResumeKeeps, TaskKeeps DEF Next

LEMMA InitPromise ==
  ASSUME Init
  PROVE  Promise!Init
<1>1. PICK used \in Starts :
        task = [t \in Tasks |-> [Idle(used[t]) EXCEPT !.pc = IF used[t] < MaxOps THEN @ ELSE "done"]]
  BY DEF Init
<1>2. heap = EmptyHeap /\ got = [t \in Tasks |-> NoValue] /\ sent = {}
  BY DEF Init
<1>3. \A t \in Tasks : task[t].pc # "send"
  BY <1>1 DEF Idle
<1>4. Waiting = {} /\ WaitingValues = {} /\ RefusedValues = {}
  BY <1>3 DEF Waiting, WaitingValues, RefusedValues, RefusedTasks
<1>5. \A c \in Chans : heap.chan[c].buffer = <<>> /\ heap.chan[c].pending = <<>> /\ ~heap.chan[c].closed
  BY <1>2, EmptyHeapFacts DEF NewChannel
<1>6. ASSUME NEW c \in Chans PROVE QueueOf(heap.chan[c]) = <<>>
  <2> <<>> \in Seq(Values) /\ <<>> \in Seq(PendingSend)
    OBVIOUS
  <2>1. PICK none : none = <<>> /\ none \in Seq(Values)
    OBVIOUS
  <2>2. PICK unsent : unsent = <<>> /\ unsent \in Seq(PendingSend)
    OBVIOUS
  <2>3. ValuesOf(unsent) = none
    BY <2>1, <2>2, ValuesOfNone
  <2>4. none \o none = none
    BY <2>1, ConcatEmptySeq
  <2>5. QED
    BY <1>5, <2>1, <2>2, <2>3, <2>4 DEF QueueOf
<1>7. Queues = [c \in Chans |-> <<>>] /\ ClosedChans = {}
  BY <1>5, <1>6 DEF Queues, ClosedChans
<1>8. QED
  BY <1>2, <1>4, <1>7 DEF Promise!Init, Queues, QueueOf, ValuesOf, ClosedChans, WaitingValues, RefusedTasks, RefusedValues,
                          NoValue, Promise!NoValue

\* Every state satisfies the inductive invariant.
THEOREM Inductive == Spec => []IInv
<1>1. Init => IInv
  BY InitMachine, InitData, Parts DEF Invariants
<1>2. IInv /\ [Next]_vars => IInv'
  BY StepKeeps
<1>3. QED
  BY <1>1, <1>2, PTL DEF Spec

-----------------------------------------------------------------------------
(* Theorems                                                                *)

\* The channels, the tokens, every task's record and the scheduler's lists stay
\* in their types (runtime/waitable.go, scheduler_wait.go).
THEOREM ChannelTypes == Spec => []TypeOK
<1>1. IInv => TypeOK
  BY DEF IInv
<1>2. QED
  BY <1>1, Inductive, PTL

\* The waiter lists hold the tokens that are registered there, alive and each once:
\* tokenSignal and tokenCancel take a token out of every channel of its select
\* (unregisterAll), and no signal is spent on a waiter that is gone.
THEOREM ListsHoldTheLiving == Spec => []WaitersLive
<1>1. IInv => WaitersLive
  BY Zenon DEF IInv, WaitInv, Listed, WaitersLive, IsInjective
<1>2. QED
  BY <1>1, Inductive, PTL

LEMMA AtMostOne ==
  ASSUME NEW S, \A i, j \in S : i = j
  PROVE  Cardinality(S) <= 1
<1>1. CASE S = {}
  BY <1>1, FS_EmptySet
<1>2. CASE S # {}
  <2>1. PICK i \in S : TRUE
    BY <1>2
  <2>2. S = {i}
    BY <2>1
  <2>3. Cardinality({i}) = 1
    BY FS_Singleton
  <2>4. QED
    BY <2>2, <2>3
<1>3. QED
  BY <1>1, <1>2

LEMMA AccountedFor ==
  ASSUME NEW c \in Chans, NEW t \in Tasks, Accounted(c)
  PROVE  LET ch     == heap.chan[c]
             mine   == {i \in DOMAIN ch.pending : ch.pending[i].task = t}
             waits  == task[t].pc = "send" /\ task[t].op[2] = c
         IN  /\ ~waits => mine = {} /\ t \notin ch.completed
             /\ waits => Cardinality(mine) <= 1 /\ (mine # {} => t \notin ch.completed)
             /\ waits /\ ~ch.closed => mine # {} \/ t \in ch.completed
<1> DEFINE ch == heap.chan[c]
           mine == {i \in DOMAIN ch.pending : ch.pending[i].task = t}
<1>1. t # NoTask
  BY WaitableAssumption
<1>2. \A i \in mine : WaitsToSend(t, c) /\ t \notin ch.completed
  BY <1>1 DEF Accounted
<1>3. \A i, j \in mine : i = j
  BY <1>1 DEF Accounted
<1>4. Cardinality(mine) <= 1
  BY <1>3, AtMostOne
<1>5. t \in ch.completed => WaitsToSend(t, c)
  BY DEF Accounted
<1>6. WaitsToSend(t, c) /\ ~ch.closed => mine # {} \/ t \in ch.completed
  BY DEF Accounted
<1> HIDE DEF mine
<1>7. QED
  BY <1>2, <1>4, <1>5, <1>6 DEF WaitsToSend, mine

\* A blocked sender is accounted for exactly once while its channel is open, nothing
\* is recorded for a task that no longer waits, and nobody waits while the buffer
\* has room (waitableSendTaskValue, takeCompletedSend, cancelSend and
\* waitableFillBufferedPending).
THEOREM SendersAreAccounted == Spec => []SendersAccounted
<1>1. IInv => SendersAccounted
  <2> SUFFICES ASSUME IInv PROVE SendersAccounted
    OBVIOUS
  <2>1. \A c \in Chans : Accounted(c)
    BY DEF IInv, SendInv
  <2>2. \A c \in Chans : Filled(heap.chan[c], Capacity[c])
    BY <2>1 DEF Accounted
  <2>3. QED
    BY <2>1, <2>2, AccountedFor DEF SendersAccounted, Filled
<1>2. QED
  BY <1>1, Inductive, PTL

\* Closing a channel releases everyone: waitableCloseValue leaves no waiter behind,
\* and a task parked on a case of a closed channel finds the case signalled.
THEOREM ClosingReleases == Spec => []CloseReleases
<1>1. IInv => CloseReleases
  <2> SUFFICES ASSUME IInv, NEW c \in Chans, heap.chan[c].closed
               PROVE  /\ heap.chan[c].recvWaiters = <<>> /\ heap.chan[c].sendWaiters = <<>>
                      /\ \A t \in Tasks : task[t].pc = "park" =>
                           \A i \in DOMAIN task[t].cases :
                               task[t].cases[i][2] = c => i \in ReadyCases(heap, t)
    BY DEF CloseReleases
  <2>1. DataOK /\ Listed(heap) /\ ClosedUnlisted(heap) /\ Subscribed
    BY Parts DEF IInv, WaitInv
  <2>2. heap.chan[c].recvWaiters = <<>> /\ heap.chan[c].sendWaiters = <<>>
    BY <2>1 DEF ClosedUnlisted
  <2>3. Range(heap.chan[c].recvWaiters) = {} /\ Range(heap.chan[c].sendWaiters) = {}
    <3>1. PICK none : none = <<>>
      OBVIOUS
    <3>2. Range(none) = {}
      BY <3>1 DEF Range
    <3>3. QED
      BY <2>2, <3>1, <3>2
  <2>4. ASSUME NEW t \in Tasks, task[t].pc = "park", NEW i \in DOMAIN task[t].cases, task[t].cases[i][2] = c
        PROVE  i \in ReadyCases(heap, t)
    <3>1. i \in 1..Len(task[t].cases) /\ task[t].cases[i] \in Case /\ i \in 0..MaxCases /\ task[t].n \in 1..MaxOps
      BY <2>1, <2>4, TaskFields, ChannelsAssumption, SMTT(40)
    <3>2. PICK k \in Tokens : k = TokenOf(t, i)
      BY <3>1, TokenTypes DEF TokenOf
    <3>3. PICK dir : dir = task[t].cases[i][1]
      OBVIOUS
    <3>4. dir \in {"recv", "send"}
      BY <3>1, <3>3 DEF Case, Directions
    <3>5. ~heap.token[k].canceled /\ (c = Nil \/ heap.token[k].signaled \/ <<c, dir>> \in heap.token[k].registrations)
      BY <2>1, <2>4, <3>1, <3>2, <3>3 DEF Subscribed
    <3>6. <<c, dir>> \notin heap.token[k].registrations
      BY <2>1, <2>3, <3>4 DEF Listed
    <3>7. c # Nil
      BY WaitableAssumption
    <3>8. QED
      BY <3>1, <3>2, <3>5, <3>6, <3>7 DEF ReadyCases
  <2>5. QED
    BY <2>2, <2>4
<1>2. QED
  BY <1>1, Inductive, PTL

\* Only the end of a pass ends wakeBlocked.
LEMMA ScanEnds ==
  ASSUME MachineOK, Scanned, [Next]_vars, scan # 0, scan' = 0
  PROVE  WakePassEnd
<1>1. current = None
  BY DEF Scanned
<1>2. scan \in Nat
  BY LenProperties DEF MachineOK
<1>3. \A t \in Tasks : current # t
  BY <1>1, ChannelsAssumption
<1>4. \A t \in Tasks : ~Begins(t)
  BY <1>3 DEF Begins
<1>5. ASSUME NEW t \in Tasks
      PROVE  /\ ~Preempt(t) /\ ~Finish(t)
             /\ \A c : /\ ~SendStatement(t, c) /\ ~RecvExpression(t, c)
                       /\ ~TrySendCall(t, c) /\ ~CloseStatement(t, c)
             /\ \A cases, dflt : ~SelectBegin(t, cases, dflt) /\ ~ReflectSelect(t, cases, dflt)
             /\ ~SelectRegister(t) /\ ~SelectChoose(t) /\ ~SelectCommit(t)
             /\ ~SelectEnd(t) /\ ~SelectLeave(t)
  <2>1. current # t /\ ~Begins(t)
    BY <1>3, <1>4
  <2>2. ~Preempt(t) /\ ~Finish(t)
    BY <2>1 DEF Preempt, Finish
  <2>3. \A c : /\ ~SendStatement(t, c) /\ ~RecvExpression(t, c)
               /\ ~TrySendCall(t, c) /\ ~CloseStatement(t, c)
    BY <2>1 DEF SendStatement, RecvExpression, TrySendCall, CloseStatement
  <2>4. \A cases, dflt : ~SelectBegin(t, cases, dflt)
    BY <2>1 DEF SelectBegin
  <2>5. \A cases, dflt : ~ReflectSelect(t, cases, dflt)
    BY <2>1 DEF ReflectSelect
  <2>6. ~SelectRegister(t) /\ ~SelectChoose(t) /\ ~SelectCommit(t)
    BY <2>1 DEF SelectRegister, SelectChoose, SelectCommit
  <2>7. ~SelectEnd(t) /\ ~SelectLeave(t)
    BY <2>1 DEF SelectEnd, SelectLeave
  <2>8. QED
    BY <2>2, <2>3, <2>4, <2>5, <2>6, <2>7
<1>6. ~Dispatch /\ ~WakeIdle /\ ~WakeResume /\ ~(UNCHANGED vars)
  BY DEF Dispatch, WakeIdle, WakeResume, vars
<1>7. ~WakeSkip
  BY <1>2 DEF WakeSkip
<1>8. ASSUME NEW S \in SUBSET Tasks PROVE ~CancelScope(S)
  BY <1>1, ChannelsAssumption DEF CancelScope
<1>9. QED
  BY <1>5, <1>6, <1>7, <1>8 DEF Next

\* When wakeBlocked is done no blocked task can go on: the last pass resumed none,
\* and each task it passed still cannot go on.
THEOREM WakeLeavesNobodyBehind == Spec => WakeLeavesNobody
<1>1. IInv /\ [Next]_vars => (scan # 0 /\ scan' = 0 => \A i \in DOMAIN blocked : ~Ready(blocked[i]))
  <2> SUFFICES ASSUME IInv, [Next]_vars, scan # 0, scan' = 0, NEW i \in DOMAIN blocked
               PROVE  ~Ready(blocked[i])
    OBVIOUS
  <2>1. MachineOK /\ Scanned
    BY Parts
  <2>2. WakePassEnd
    BY <2>1, ScanEnds
  <2>3. scan = Len(blocked) + 1 /\ scan' = IF progress THEN 1 ELSE 0
    BY <2>2 DEF WakePassEnd
  <2>4. ~progress
    BY <2>3
  <2>5. i < scan
    <3>1. DOMAIN blocked = 1..Len(blocked) /\ Len(blocked) \in Nat
      BY <2>1, LenProperties DEF MachineOK
    <3>2. QED
      BY <2>3, <3>1
  <2>6. QED
    BY <2>1, <2>4, <2>5 DEF Scanned
<1>2. QED
  BY <1>1, Inductive, PTL DEF Spec, WakeLeavesNobody

\* The channels keep their promise: whatever the lists, the tokens and the completed
\* set do inside, a channel is a queue whose values leave in the order of their sends,
\* each once; a send that returned was accepted, a refused or withdrawn one is not
\* delivered (waitableSend, waitableTryRecvValue, waitableFillBufferedPending,
\* closeWaitable, cancelSend).
THEOREM ChannelsKeepPromise == Spec => ImplementsPromise
<1>1. Init => Promise!Init
  BY InitPromise
<1>2. IInv /\ [Next]_vars => [Promise!Next]_(Promise!vars)
  <2>1. SUFFICES ASSUME IInv, [Next]_vars PROVE Promise!Next \/ Promise!vars' = Promise!vars
    OBVIOUS
  <2>2. PromiseStep
    BY <2>1, StepKeeps
  <2>3. Promise!vars' = promise' /\ Promise!vars = promise
    BY PromiseParts
  <2>4. QED
    BY <2>2, <2>3, Zenon DEF PromiseStep
<1>3. QED
  BY <1>1, <1>2, Inductive, PTL DEF Spec, ImplementsPromise, Promise!Spec

=============================================================================
