--------------------------- MODULE EndpointProofs ---------------------------
(***************************************************************************)
(* For any calls, limits and scenarios: the counters of an endpoint agree  *)
(* with its tables and no limit is passed, two endpoints never take each   *)
(* other for violators of the protocol, and what a caller was told of its  *)
(* decision is what the provider applied.                                  *)
(***************************************************************************)
EXTENDS Endpoint, FiniteSetTheorems, SequenceTheorems, TLAPS

-----------------------------------------------------------------------------
(* Counters                                                                *)

\* The operations of a table whose request is counted in a lane.
InLane(table, lane) == {o \in Operations : table[o] # <<>> /\ CountedAs(table[o]) = lane}

Tables == [Operations -> Requests \cup {<<>>}]

Counts(counter, table) == \A lane \in Lanes : counter[lane] = Cardinality(InLane(table, lane))

\* The requests of Endpoint.pending.
Waiting == [o \in Operations |-> pending[o].request]

-----------------------------------------------------------------------------
(* The inductive invariant                                                 *)

\* Frames name the operation by its identifier: it has one.
Known == {q \in Requests : id[OperationOf(q)] # 0}
ClientFrames == {f \in Frame : f.of \in Known /\ f.kind \in {"cancel", f.of[1]}}

Frames ==
    /\ \A lane \in Lanes : out["client"][lane] \in Seq(ClientFrames)
    /\ wire["client"] \in Seq(ClientFrames)

\* A request is in flight in request() or in the goroutine of cancelRequest.
InFlight(q) ==
    \/ req[q].pc \in {"queued", "sent", "accepted"}
    \/ cancel[q] \in {"wait", "cancel", "writing", "await"}

\* Who waits for an operation is in flight.
Pending ==
    \A o \in Operations : pending[o].request # <<>> =>
        OperationOf(pending[o].request) = o /\ InFlight(pending[o].request)

\* An identifier is taken once, when the operation is sent.
Identified ==
    /\ \A o \in Operations : req[o].pc \in {"idle", "start"} => id[o] = 0
    /\ \A q \in Requests : InFlight(q) \/ cancel[q] # "none" \/ req[q].outcome = "ok" =>
                               id[OperationOf(q)] # 0
    /\ \A c \in Calls : req[Decision(c)].pc # "idle" => id[Call(c)] # 0

\* cancelRequest gives up a request that returns without an outcome.
Canceled ==
    \A q \in Requests :
        /\ cancel[q] # "none" => req[q].pc \in {"returned", "end"} /\ req[q].outcome = "uncertain"
        /\ cancel[q] = "cleanup" => q = Bind \/ q[1] = "call"

\* The decision on a result begins once: by its holder, or by the cleanup of a
\* call that was cancelled.
DecidedOnce ==
    \A c \in Calls :
        /\ given[c] = "held" => req[Call(c)].pc = "end" /\ req[Call(c)].outcome = "ok"
        /\ req[Decision(c)].pc # "idle" =>
             \/ cancel[Call(c)] \in {"cleanup", "end"}
             \/ req[Call(c)].pc = "end" /\ req[Call(c)].outcome = "ok" /\ given[c] # "held"

\* The binding is closed once: at the end of its RouteSet, or because Bind was
\* cancelled and there is no RouteSet.
ClosedOnce ==
    /\ routes # "none" => req[Bind].pc \in {"idle", "end"} /\ cancel[Bind] = "none"
    /\ req[Close].pc # "idle" => routes \in {"closing", "closed"} \/ cancel[Bind] \in {"cleanup", "end"}
    /\ cancel[Bind] = "end" => req[Close].pc \in {"idle", "end"}

RequestInv == Pending /\ Identified /\ Canceled /\ DecidedOnce /\ ClosedOnce

ClientInv == RequestInv /\ Counts(pendingCount, Waiting)

\* An operation that was dispatched has an identifier the peer has seen.
Seen ==
    \A o \in Operations : disp[o].pc # "idle" \/ active[o] # <<>> => id[o] # 0 /\ id[o] <= peerID

\* A reservation belongs to a dispatch that has not ended, and to a call until its
\* result is offered.
Reserved ==
    /\ \A q \in Requests : disp[q].holds =>
           disp[q].pc \notin {"idle", "end"} /\ (q = Bind \/ q[1] = "call")
    /\ \A c \in Calls : disp[Call(c)].pc \in {"admit", "run", "handler", "offer"} => disp[Call(c)].holds
    /\ reserved.results = Cardinality({c \in Calls : disp[Call(c)].holds})
    /\ reserved.inbound = (IF disp[Bind].holds THEN 1 ELSE 0)

ResultsBounded == Open("server") => Cardinality(Entries) + reserved.results <= MaxPendingResults

ServerInv == Seen /\ Reserved /\ ResultsBounded /\ Counts(activeCount, active)

IInv == TypeOK /\ Frames /\ ClientInv /\ ServerInv

-----------------------------------------------------------------------------
(* Requests                                                                *)

LEMMA RequestFacts ==
    /\ Bind \in Operations /\ Close \in Operations /\ Operations \subseteq Requests
    /\ Bind[1] = "bind" /\ Close[1] = "close"
    /\ OperationOf(Bind) = Bind /\ OperationOf(Close) = Close
    /\ \A c \in Calls :
         /\ Call(c) \in Operations /\ DropOf(c) \in Operations
         /\ Decision(c) \in Requests /\ Decision(c) \notin Operations
         /\ Call(c)[1] = "call" /\ Call(c)[2] = c /\ OperationOf(Call(c)) = Call(c)
         /\ DropOf(c)[1] = "drop" /\ DropOf(c)[2] = c /\ OperationOf(DropOf(c)) = DropOf(c)
         /\ Decision(c)[1] = "decision" /\ Decision(c)[2] = c /\ OperationOf(Decision(c)) = Call(c)
    /\ \A q \in Requests :
         \/ q = Bind \/ q = Close
         \/ \E c \in Calls : q = Call(c) \/ q = DropOf(c) \/ q = Decision(c)
  BY DEF Bind, Close, Call, DropOf, Decision, Operations, Requests, OperationOf

LEMMA NoRequestIsEmpty == <<>> \notin Requests
<1>1. \A q \in Requests : Len(q) # 0
  BY DEF Bind, Close, Call, DropOf, Decision, Operations, Requests
<1>2. QED
  BY <1>1

LEMMA RequestTypes ==
  ASSUME NEW q \in Requests
  PROVE  /\ OperationOf(q) \in Operations /\ CountedAs(q) \in Lanes
         /\ q \in Operations => OperationOf(q) = q
         /\ q \notin Operations => \E c \in Calls : q = Decision(c)
         /\ q[1] = "call" => \E c \in Calls : q = Call(c)
         /\ q[1] = "drop" => \E c \in Calls : q = DropOf(c)
         /\ q[1] = "decision" => \E c \in Calls : q = Decision(c)
         /\ q[1] = "bind" => q = Bind
         /\ q[1] = "close" => q = Close
  BY RequestFacts DEF CountedAs, Lanes

LEMMA OperationsFinite == IsFiniteSet(Operations)
<1> DEFINE calls == {Call(c) : c \in Calls}
           drops == {DropOf(c) : c \in Calls}
<1>1. IsFiniteSet(Calls)
  BY EndpointAssumption
<1>2. IsFiniteSet(calls)
  <2> DEFINE f == [c \in Calls |-> Call(c)]
  <2>1. f \in Surjection(Calls, calls)
    BY DEF Surjection
  <2>2. QED
    BY <1>1, <2>1, FS_Surjection
<1>3. IsFiniteSet(drops)
  <2> DEFINE f == [c \in Calls |-> DropOf(c)]
  <2>1. f \in Surjection(Calls, drops)
    BY DEF Surjection
  <2>2. QED
    BY <1>1, <2>1, FS_Surjection
<1>4. IsFiniteSet({Bind}) /\ IsFiniteSet({Close})
  BY FS_Singleton
<1>5. Operations = ({Bind} \cup {Close}) \cup (calls \cup drops)
  BY DEF Operations
<1> HIDE DEF calls, drops
<1>6. QED
  BY <1>2, <1>3, <1>4, <1>5, FS_Union

-----------------------------------------------------------------------------
(* Tables and their counters                                               *)

LEMMA InLaneFinite ==
  ASSUME NEW table, NEW lane
  PROVE  IsFiniteSet(InLane(table, lane)) /\ Cardinality(InLane(table, lane)) \in Nat
  BY OperationsFinite, FS_Subset, FS_CardinalityType DEF InLane

LEMMA CountsUp ==
  ASSUME NEW table \in Tables, NEW counter \in [Lanes -> Nat], Counts(counter, table),
         NEW o \in Operations, table[o] = <<>>, NEW q \in Requests
  PROVE  /\ Counts(Count(counter, q, "up"), [table EXCEPT ![o] = q])
         /\ Count(counter, q, "up") \in [Lanes -> Nat]
<1> DEFINE new == [table EXCEPT ![o] = q]
<1>1. CountedAs(q) \in Lanes
  BY RequestTypes
<1>2. ASSUME NEW lane \in Lanes PROVE Count(counter, q, "up")[lane] = Cardinality(InLane(new, lane))
  <2>1. CASE CountedAs(q) = lane
    <3>1. InLane(new, lane) = InLane(table, lane) \cup {o} /\ o \notin InLane(table, lane)
      BY <2>1, NoRequestIsEmpty DEF InLane, Tables
    <3>2. Cardinality(InLane(new, lane)) = Cardinality(InLane(table, lane)) + 1
      BY <3>1, InLaneFinite, FS_AddElement
    <3>3. QED
      BY <2>1, <3>2 DEF Counts, Count
  <2>2. CASE CountedAs(q) # lane
    <3>1. InLane(new, lane) = InLane(table, lane)
      BY <2>2 DEF InLane, Tables
    <3>2. QED
      BY <1>1, <2>2, <3>1 DEF Counts, Count
  <2>3. QED
    BY <2>1, <2>2
<1>3. Count(counter, q, "up") \in [Lanes -> Nat]
  BY <1>1 DEF Count
<1>4. Counts(Count(counter, q, "up"), new)
  BY <1>2 DEF Counts
<1>5. QED
  BY <1>3, <1>4

LEMMA CountsDown ==
  ASSUME NEW table \in Tables, NEW counter \in [Lanes -> Nat], Counts(counter, table),
         NEW o \in Operations, NEW less,
         less = IF table[o] = <<>> THEN counter ELSE Count(counter, table[o], "down")
  PROVE  Counts(less, [table EXCEPT ![o] = <<>>]) /\ less \in [Lanes -> Nat]
<1> DEFINE new == [table EXCEPT ![o] = <<>>]
<1>1. CASE table[o] = <<>>
  <2>1. new = table
    BY <1>1 DEF Tables
  <2>2. QED
    BY <1>1, <2>1
<1>2. CASE table[o] # <<>>
  <2> DEFINE q == table[o]
  <2>1. q \in Requests /\ CountedAs(q) \in Lanes
    BY <1>2, RequestTypes DEF Tables
  <2>2. ASSUME NEW lane \in Lanes
        PROVE  less[lane] = Cardinality(InLane(new, lane)) /\ less[lane] \in Nat
    <3>1. CASE CountedAs(q) = lane
      <4>1. InLane(new, lane) = InLane(table, lane) \ {o} /\ o \in InLane(table, lane)
        BY <1>2, <3>1 DEF InLane, Tables
      <4>2. Cardinality(InLane(new, lane)) = Cardinality(InLane(table, lane)) - 1
        <5> DEFINE there == InLane(table, lane)
        <5>1. IsFiniteSet(there)
          BY InLaneFinite
        <5>2. InLane(new, lane) = there \ {o} /\ o \in there
          BY <4>1
        <5> HIDE DEF new, there
        <5>3. Cardinality(there \ {o}) = Cardinality(there) - 1
          BY <5>1, <5>2, FS_RemoveElement
        <5>4. Cardinality(InLane(new, lane)) = Cardinality(there) - 1
          BY <5>2, <5>3
        <5>5. QED
          BY <5>4 DEF there
      <4>3. less[lane] = counter[lane] - 1
        BY <1>2, <3>1 DEF Count
      <4>4. QED
        BY <4>2, <4>3, InLaneFinite DEF Counts
    <3>2. CASE CountedAs(q) # lane
      <4>1. InLane(new, lane) = InLane(table, lane)
        BY <3>2 DEF InLane, Tables
      <4>2. less[lane] = counter[lane]
        BY <1>2, <2>1, <3>2 DEF Count
      <4>3. QED
        BY <4>1, <4>2 DEF Counts
    <3>3. QED
      BY <3>1, <3>2
  <2>3. less = [counter EXCEPT ![CountedAs(q)] = @ - 1]
    BY <1>2 DEF Count
  <2>4. less \in [Lanes -> Nat]
    <3>1. \A lane \in Lanes : less[lane] \in Nat
      BY <2>2
    <3>2. less = [lane \in Lanes |-> less[lane]]
      BY <2>1, <2>3
    <3>3. QED
      BY <3>1, <3>2
  <2>5. QED
    BY <2>2, <2>4 DEF Counts
<1>3. QED
  BY <1>1, <1>2

\* Several operations leave a table at once (expireLeases).
LEMMA CountsDrop ==
  ASSUME NEW table \in Tables, NEW counter \in [Lanes -> Nat], Counts(counter, table),
         NEW gone \in SUBSET Operations, \A o \in gone : table[o] # <<>>,
         NEW less, less = [lane \in Lanes |-> counter[lane] - Cardinality({o \in gone : CountedAs(table[o]) = lane})]
  PROVE  /\ Counts(less, [o \in Operations |-> IF o \in gone THEN <<>> ELSE table[o]])
         /\ less \in [Lanes -> Nat]
<1> DEFINE new == [o \in Operations |-> IF o \in gone THEN <<>> ELSE table[o]]
           off(lane) == {o \in gone : CountedAs(table[o]) = lane}
<1>1. ASSUME NEW lane \in Lanes
      PROVE  less[lane] = Cardinality(InLane(new, lane)) /\ less[lane] \in Nat
  <2>1. InLane(new, lane) = InLane(table, lane) \ off(lane)
    BY DEF InLane
  <2>2. InLane(table, lane) \cap off(lane) = off(lane)
    BY DEF InLane
  <2> HIDE DEF off, new
  <2>3. Cardinality(InLane(new, lane)) = Cardinality(InLane(table, lane)) - Cardinality(off(lane))
    BY <2>1, <2>2, InLaneFinite, FS_Difference
  <2>4. Cardinality(InLane(new, lane)) \in Nat
    BY InLaneFinite
  <2>5. QED
    BY <2>3, <2>4 DEF Counts, off, new
<1>2. QED
  BY <1>1 DEF Counts

-----------------------------------------------------------------------------
(* The client                                                              *)

ClientState == TransportTypes /\ ClientTypes /\ Frames /\ ClientInv

\* The table of pending requests under the changes that actions make to it.
LEMMA WaitingTable ==
  ASSUME ClientTypes
  PROVE  Waiting \in Tables /\ pendingCount \in [Lanes -> Nat]
  BY DEF ClientTypes, PendingType, Waiting, Tables

\* removePendingLocked
LEMMA PendingRemoved ==
  ASSUME ClientTypes, Counts(pendingCount, Waiting), NEW o \in Operations,
         pending' = Removed(o), pendingCount' = CountRemoved(o)
  PROVE  /\ Counts(pendingCount', Waiting')
         /\ pendingCount' \in [Lanes -> Nat] /\ pending' \in [Operations -> PendingType]
<1>1. Waiting' = [Waiting EXCEPT ![o] = <<>>]
  BY DEF Waiting, Removed, NoPending, ClientTypes, PendingType
<1>2. pendingCount' = IF Waiting[o] = <<>> THEN pendingCount ELSE Count(pendingCount, Waiting[o], "down")
  BY DEF Waiting, CountRemoved
<1>3. Counts(pendingCount', Waiting') /\ pendingCount' \in [Lanes -> Nat]
  BY <1>1, <1>2, WaitingTable, CountsDown
<1>4. pending' \in [Operations -> PendingType]
  BY DEF Removed, NoPending, ClientTypes, PendingType
<1>5. QED
  BY <1>3, <1>4

\* The requests that wait stay, whatever else is noted of them.
LEMMA WaitingKept ==
  ASSUME Counts(pendingCount, Waiting), pendingCount' = pendingCount,
         \A o \in Operations : pending'[o].request = pending[o].request
  PROVE  Counts(pendingCount', Waiting')
<1>1. Waiting' = Waiting
  BY DEF Waiting
<1>2. QED
  BY <1>1 DEF Counts, InLane

\* What an action makes of one request.
Moves(q, pc, outcome) ==
    /\ req'[q].pc = pc /\ req'[q].outcome = outcome
    /\ \A p \in Requests \ {q} : req'[p].pc = req[p].pc /\ req'[p].outcome = req[p].outcome

\* Operations at most leave the table of pending requests.
Leave == \A o \in Operations : pending'[o].request \in {<<>>, pending[o].request}

LEMMA CallFacts ==
    /\ Bind \in Requests /\ Close \in Requests /\ Bind # Close
    /\ \A c \in Calls :
         /\ Call(c) \in Requests /\ Call(c) # Bind /\ Call(c) # Close
         /\ Decision(c) \in Requests /\ Decision(c) # Bind /\ Decision(c) # Close
         /\ \A d \in Calls : /\ Call(c) # Decision(d) /\ (Call(c) = Call(d) => c = d)
                             /\ Decision(c) = Decision(d) => c = d
  BY RequestFacts

\* Whatever a request notes of its replies, and whoever is told that its operation
\* is over, the state of the requests is the same.
LEMMA QuietKeeps ==
  ASSUME RequestInv, ClientTypes, Leave,
         \A p \in Requests : req'[p].pc = req[p].pc /\ req'[p].outcome = req[p].outcome,
         id' = id, cancel' = cancel, given' = given,
         routes' = routes \/ (routes = "open" /\ routes' \in {"shutdown", "disconnect"})
  PROVE  RequestInv'
<1>a. Pending /\ Identified /\ Canceled /\ DecidedOnce /\ ClosedOnce
  BY DEF RequestInv
<1>w. \A o \in Operations : pending[o].request \in Requests \cup {<<>>}
  BY DEF ClientTypes, PendingType
<1>1. Pending'
  BY <1>a, <1>w DEF Pending, InFlight, Leave
<1>2. Identified'
  BY <1>a, RequestFacts DEF Identified, InFlight
<1>3. Canceled'
  BY <1>a DEF Canceled
<1>4. DecidedOnce'
  BY <1>a, CallFacts DEF DecidedOnce
<1>5. ClosedOnce'
  BY <1>a, CallFacts DEF ClosedOnce
<1>6. QED
  BY <1>1, <1>2, <1>3, <1>4, <1>5 DEF RequestInv

\* A request returns and nobody waits for it any more.
LEMMA ReturnKeeps ==
  ASSUME RequestInv, ClientTypes, Leave, NEW q \in Requests, NEW outcome \in Codes,
         req[q].pc \in {"start", "queued", "sent", "accepted"},
         req[q].pc = "start" => outcome # "ok",
         pending'[OperationOf(q)].request # q, Moves(q, "returned", outcome),
         id' = id, cancel' = cancel, given' = given, routes' = routes
  PROVE  RequestInv'
<1>a. Pending /\ Identified /\ Canceled /\ DecidedOnce /\ ClosedOnce
  BY DEF RequestInv
<1>w. \A o \in Operations : pending[o].request \in Requests \cup {<<>>}
  BY DEF ClientTypes, PendingType
<1>1. Pending'
  BY <1>a, <1>w DEF Pending, InFlight, Leave, Moves
<1>2. Identified'
  BY <1>a, RequestFacts DEF Identified, InFlight, Moves, Codes
<1>3. Canceled'
  BY <1>a DEF Canceled, Moves
<1>4. DecidedOnce'
  BY <1>a, CallFacts DEF DecidedOnce, Canceled, Moves
<1>5. ClosedOnce'
  BY <1>a, CallFacts DEF ClosedOnce, Canceled, Moves
<1>6. QED
  BY <1>1, <1>2, <1>3, <1>4, <1>5 DEF RequestInv

\* A request is given up, and the goroutine of cancelRequest takes over.
LEMMA GivenUpKeeps ==
  ASSUME RequestInv, ClientTypes, Leave, NEW q \in Requests, NEW pc \in {"wait", "cancel"},
         req[q].pc \in {"queued", "sent", "accepted"}, Moves(q, "returned", "uncertain"),
         cancel' = [cancel EXCEPT ![q] = pc],
         id' = id, given' = given, routes' = routes
  PROVE  RequestInv'
<1>a. Pending /\ Identified /\ Canceled /\ DecidedOnce /\ ClosedOnce
  BY DEF RequestInv
<1>b. cancel'[q] = pc /\ \A p \in Requests \ {q} : cancel'[p] = cancel[p]
  BY DEF ClientTypes
<1>w. \A o \in Operations : pending[o].request \in Requests \cup {<<>>}
  BY DEF ClientTypes, PendingType
<1>1. Pending'
  BY <1>a, <1>b, <1>w DEF Pending, InFlight, Leave, Moves
<1>2. Identified'
  BY <1>a, <1>b, RequestFacts DEF Identified, InFlight, Moves
<1>3. Canceled'
  BY <1>a, <1>b DEF Canceled, Moves
<1>4. DecidedOnce'
  BY <1>a, <1>b, CallFacts DEF DecidedOnce, Canceled, Moves
<1>5. ClosedOnce'
  BY <1>a, <1>b, CallFacts DEF ClosedOnce, Canceled, Moves
<1>6. QED
  BY <1>1, <1>2, <1>3, <1>4, <1>5 DEF RequestInv

\* A request in flight that goes on: it is written, or accepted.
LEMMA FlightKeeps ==
  ASSUME RequestInv, ClientTypes, Leave, NEW q \in Requests, NEW pc \in {"sent", "accepted"},
         req[q].pc \in {"queued", "sent", "accepted"}, Moves(q, pc, req[q].outcome),
         id' = id, cancel' = cancel, given' = given, routes' = routes
  PROVE  RequestInv'
<1>a. Pending /\ Identified /\ Canceled /\ DecidedOnce /\ ClosedOnce
  BY DEF RequestInv
<1>w. \A o \in Operations : pending[o].request \in Requests \cup {<<>>}
  BY DEF ClientTypes, PendingType
<1>1. Pending'
  BY <1>a, <1>w DEF Pending, InFlight, Leave, Moves
<1>2. Identified'
  BY <1>a, RequestFacts DEF Identified, InFlight, Moves
<1>3. Canceled'
  BY <1>a DEF Canceled, Moves
<1>4. DecidedOnce'
  BY <1>a, CallFacts DEF DecidedOnce, Canceled, Moves
<1>5. ClosedOnce'
  BY <1>a, CallFacts DEF ClosedOnce, Canceled, Moves
<1>6. QED
  BY <1>1, <1>2, <1>3, <1>4, <1>5 DEF RequestInv

\* The goroutine of cancelRequest ends before a cleanup.
LEMMA GoroutineKeeps ==
  ASSUME RequestInv, ClientTypes, Leave, NEW q \in Requests,
         NEW pc \in {"writing", "await", "end"},
         cancel[q] \in {"wait", "cancel", "writing", "await"},
         pc = "end" => pending'[OperationOf(q)].request # q,
         cancel' = [cancel EXCEPT ![q] = pc],
         \A p \in Requests : req'[p].pc = req[p].pc /\ req'[p].outcome = req[p].outcome,
         id' = id, given' = given, routes' = routes
  PROVE  RequestInv'
<1>a. Pending /\ Identified /\ Canceled /\ DecidedOnce /\ ClosedOnce
  BY DEF RequestInv
<1>b. cancel'[q] = pc /\ \A p \in Requests \ {q} : cancel'[p] = cancel[p]
  BY DEF ClientTypes
<1>w. \A o \in Operations : pending[o].request \in Requests \cup {<<>>}
  BY DEF ClientTypes, PendingType
<1>1. Pending'
  BY <1>a, <1>b, <1>w DEF Pending, InFlight, Leave
<1>2. Identified'
  BY <1>a, <1>b, RequestFacts DEF Identified, InFlight
<1>3. Canceled'
  BY <1>a, <1>b DEF Canceled
<1>4. DecidedOnce'
  BY <1>a, <1>b, CallFacts DEF DecidedOnce, Canceled
<1>5. ClosedOnce'
  BY <1>a, <1>b, CallFacts DEF ClosedOnce, Canceled
<1>6. QED
  BY <1>1, <1>2, <1>3, <1>4, <1>5 DEF RequestInv

LEMMA TransportKept ==
  ASSUME TransportTypes, Frames, UNCHANGED <<state, protocolError, transport, id>>
  PROVE  TransportTypes' /\ Frames'
  BY DEF TransportTypes, Frames, ClientFrames, Known, transport

\* The parts of a step of the client that leaves its frames and identifiers alone.
LEMMA ClientParts ==
  ASSUME ClientState, UNCHANGED <<state, protocolError, transport, id>>,
         ClientTypes', RequestInv', Counts(pendingCount', Waiting')
  PROVE  ClientState'
  BY TransportKept DEF ClientState, ClientInv

LEMMA RemovedLeaves ==
  ASSUME ClientTypes, NEW q \in Requests, pending' = Removed(OperationOf(q))
  PROVE  Leave /\ pending'[OperationOf(q)].request # q
  BY RequestTypes, NoRequestIsEmpty DEF Leave, Removed, NoPending, ClientTypes, PendingType

\* A request whose record is replaced.
LEMMA RequestSet ==
  ASSUME ClientTypes, NEW q \in Requests, NEW r \in RequestType, req' = [req EXCEPT ![q] = r]
  PROVE  req' \in [Requests -> RequestType] /\ Moves(q, r.pc, r.outcome)
  BY DEF ClientTypes, Moves

\* A request moves on.
LEMMA RequestEdit ==
  ASSUME ClientTypes, NEW q \in Requests,
         NEW pc \in {"idle", "start", "queued", "sent", "accepted", "returned", "end"}
  PROVE  /\ [req[q] EXCEPT !.pc = pc] \in RequestType
         /\ [req[q] EXCEPT !.pc = pc].pc = pc
         /\ [req[q] EXCEPT !.pc = pc].outcome = req[q].outcome
<1>1. req[q] \in RequestType
  BY DEF ClientTypes
<1>2. QED
  BY <1>1 DEF RequestType

LEMMA RequestMoves ==
  ASSUME ClientTypes, NEW q \in Requests,
         NEW pc \in {"idle", "start", "queued", "sent", "accepted", "returned", "end"},
         req' = [req EXCEPT ![q].pc = pc]
  PROVE  req' \in [Requests -> RequestType] /\ Moves(q, pc, req[q].outcome)
<1> DEFINE r == [req[q] EXCEPT !.pc = pc]
<1>1. r \in RequestType /\ r.pc = pc /\ r.outcome = req[q].outcome
  BY RequestEdit
<1>2. req' = [req EXCEPT ![q] = r]
  OBVIOUS
<1> HIDE DEF r
<1>3. req' \in [Requests -> RequestType] /\ Moves(q, r.pc, r.outcome)
  BY <1>1, <1>2, RequestSet
<1>4. QED
  BY <1>1, <1>3

LEMMA ReturnedTypes ==
  ASSUME ClientTypes, NEW q \in Requests, NEW code \in Codes, req' = Returned(q, code)
  PROVE  req' \in [Requests -> RequestType] /\ Moves(q, "returned", code)
<1> DEFINE r == [req[q] EXCEPT !.pc = "returned", !.outcome = code]
<1>1. req[q] \in RequestType
  BY DEF ClientTypes
<1>2. r \in RequestType /\ r.pc = "returned" /\ r.outcome = code
  BY <1>1 DEF RequestType
<1>3. req' = [req EXCEPT ![q] = r]
  BY DEF Returned
<1> HIDE DEF r
<1>4. QED
  BY <1>2, <1>3, RequestSet

LEMMA AskKeeps ==
  ASSUME ClientState, NEW q \in Requests, Ask(q)
  PROVE  ClientState'
<1>a. ClientTypes /\ RequestInv /\ Counts(pendingCount, Waiting)
  BY DEF ClientState, ClientInv
<1>b. Pending /\ Identified /\ Canceled /\ DecidedOnce /\ ClosedOnce
  BY <1>a DEF RequestInv
<1>1. req' \in [Requests -> RequestType] /\ Moves(q, "start", req[q].outcome)
  <2>1. req' = [req EXCEPT ![q].pc = "start"]
    BY DEF Ask, Started
  <2>2. QED
    BY <1>a, <2>1, RequestMoves
<1>2. /\ UNCHANGED <<id, cancel, pending, pendingCount, operation, binding, routes, given>>
      /\ UNCHANGED <<state, protocolError, transport>>
      /\ req[q].pc = "idle"
  BY DEF Ask
<1>3. q \in Operations /\ q # Close /\ (q = Bind => routes = "none")
  BY RequestFacts DEF Ask
<1>4. ClientTypes'
  BY <1>a, <1>1, <1>2 DEF ClientTypes
<1>f. \A p \in Requests : InFlight(p)' <=> InFlight(p)
  BY <1>b, <1>1, <1>2 DEF InFlight, Canceled, Moves
<1>w. \A o \in Operations : pending[o].request \in Requests \cup {<<>>}
  BY <1>a DEF ClientTypes, PendingType
<1>5. Pending'
  BY <1>b, <1>2, <1>f, <1>w DEF Pending
<1>6. Identified'
  BY <1>b, <1>1, <1>2, <1>3, <1>f, RequestFacts DEF Identified, Moves
<1>7. Canceled'
  BY <1>b, <1>1, <1>2 DEF Canceled, Moves
<1>8. DecidedOnce'
  BY <1>b, <1>1, <1>2, <1>3, RequestFacts DEF DecidedOnce, Canceled, Moves
<1>9. ClosedOnce'
  BY <1>b, <1>1, <1>2, <1>3, CallFacts DEF ClosedOnce, Canceled, Moves
<1>10. Counts(pendingCount', Waiting')
  BY <1>a, <1>2, WaitingKept
<1>11. QED
  BY <1>2, <1>4, <1>5, <1>6, <1>7, <1>8, <1>9, <1>10, ClientParts DEF RequestInv

\* A context that ends is noted in the request.
LEMMA ContextKeeps ==
  ASSUME ClientState, NEW q \in Requests, req' = [req EXCEPT ![q].canceled = TRUE],
         UNCHANGED <<id, cancel, pending, pendingCount, operation, binding, routes, given>>,
         UNCHANGED <<state, protocolError, transport>>
  PROVE  ClientState'
<1>a. ClientTypes /\ RequestInv /\ Counts(pendingCount, Waiting)
  BY DEF ClientState, ClientInv
<1>1. /\ req' \in [Requests -> RequestType]
      /\ \A p \in Requests : req'[p].pc = req[p].pc /\ req'[p].outcome = req[p].outcome
  <2> DEFINE r == [req[q] EXCEPT !.canceled = TRUE]
  <2>1. req[q] \in RequestType
    BY <1>a DEF ClientTypes
  <2>2. r \in RequestType /\ r.pc = req[q].pc /\ r.outcome = req[q].outcome
    BY <2>1 DEF RequestType
  <2>3. req' = [req EXCEPT ![q] = r]
    OBVIOUS
  <2> HIDE DEF r
  <2>4. req' \in [Requests -> RequestType] /\ Moves(q, r.pc, r.outcome)
    BY <1>a, <2>2, <2>3, RequestSet
  <2>5. QED
    BY <2>2, <2>4 DEF Moves
<1>2. ClientTypes'
  BY <1>a, <1>1 DEF ClientTypes
<1>3. RequestInv'
  BY <1>a, <1>1, QuietKeeps DEF Leave
<1>4. QED
  BY <1>a, <1>2, <1>3, WaitingKept, ClientParts

\* Only leases lapse, or the program shuts the binding down.
OperationLapseOrShutdown == (\E o \in Operations : OperationLapse(o)) \/ BindingLapse \/ RoutesShutdown

LEMMA LapseKeeps ==
  ASSUME ClientState, OperationLapseOrShutdown
  PROVE  ClientState'
<1>a. ClientTypes /\ RequestInv /\ Counts(pendingCount, Waiting)
  BY DEF ClientState, ClientInv
<1>1. ClientTypes'
  BY <1>a DEF OperationLapseOrShutdown, OperationLapse, BindingLapse, RoutesShutdown, ClientTypes, Lease
<1>2. /\ UNCHANGED <<id, req, cancel, pending, pendingCount, given>>
      /\ UNCHANGED <<state, protocolError, transport>>
      /\ routes' = routes \/ (routes = "open" /\ routes' = "shutdown")
  BY DEF OperationLapseOrShutdown, OperationLapse, BindingLapse, RoutesShutdown
<1>3. RequestInv'
  BY <1>a, <1>2, QuietKeeps DEF Leave
<1>4. QED
  BY <1>a, <1>1, <1>2, <1>3, WaitingKept, ClientParts

LEMMA RequestUnsentKeeps ==
  ASSUME ClientState, NEW q \in Requests, RequestUnsent(q)
  PROVE  ClientState'
<1>a. ClientTypes /\ RequestInv /\ Counts(pendingCount, Waiting) /\ OperationOf(q) \in Operations
  BY RequestTypes DEF ClientState, ClientInv
<1>1. req' \in [Requests -> RequestType] /\ Moves(q, "returned", "uncertain") /\ req[q].pc = "queued"
  BY <1>a, ReturnedTypes DEF RequestUnsent, Codes
<1>2. /\ pending' = Removed(OperationOf(q)) /\ pendingCount' = CountRemoved(OperationOf(q))
      /\ UNCHANGED <<id, cancel, binding, routes, given>>
      /\ UNCHANGED <<state, protocolError, transport>>
      /\ operation' \in [Operations -> Lease]
  BY <1>a DEF RequestUnsent, ClientTypes, Lease
<1>3. Counts(pendingCount', Waiting') /\ pendingCount' \in [Lanes -> Nat] /\ pending' \in [Operations -> PendingType]
  BY <1>a, <1>2, PendingRemoved
<1>4. Leave /\ pending'[OperationOf(q)].request # q
  BY <1>a, <1>2, RemovedLeaves
<1>5. ClientTypes'
  BY <1>a, <1>1, <1>2, <1>3 DEF ClientTypes
<1>6. RequestInv'
  BY <1>a, <1>1, <1>2, <1>4, ReturnKeeps DEF Codes
<1>7. QED
  BY <1>2, <1>3, <1>5, <1>6, ClientParts

LEMMA RequestReplyKeeps ==
  ASSUME ClientState, NEW q \in Requests, RequestReply(q)
  PROVE  ClientState'
<1> DEFINE reply == Head(req[q].response)
           o == OperationOf(q)
<1>a. ClientTypes /\ RequestInv /\ Counts(pendingCount, Waiting) /\ o \in Operations
  BY RequestTypes DEF ClientState, ClientInv
<1>b. Pending /\ Identified
  BY <1>a DEF RequestInv
<1>1. req[q].response \in Seq(Frame) /\ req[q].response # <<>> /\ req[q].pc \in {"sent", "accepted"}
  BY <1>a DEF RequestReply, ClientTypes, RequestType
<1>2. reply \in Frame /\ Tail(req[q].response) \in Seq(Frame)
  BY <1>1, HeadTailProperties
<1>3. UNCHANGED <<id, cancel, binding, routes, given>> /\ UNCHANGED <<state, protocolError, transport>>
  BY DEF RequestReply
<1>4. CASE reply.kind = "accepted"
  <2>1. /\ req' = [req EXCEPT ![q].pc = "accepted", ![q].response = Tail(@)]
        /\ UNCHANGED <<pending, pendingCount, operation>>
    BY <1>4 DEF RequestReply
  <2>2. req' \in [Requests -> RequestType] /\ Moves(q, "accepted", req[q].outcome)
    <3> DEFINE r == [req[q] EXCEPT !.pc = "accepted", !.response = Tail(@)]
    <3>1. req[q] \in RequestType
      BY <1>a DEF ClientTypes
    <3>2. r \in RequestType /\ r.pc = "accepted" /\ r.outcome = req[q].outcome
      BY <1>2, <3>1 DEF RequestType
    <3>3. req' = [req EXCEPT ![q] = r]
      BY <2>1
    <3> HIDE DEF r
    <3>4. QED
      BY <1>a, <3>2, <3>3, RequestSet
  <2>4. ClientTypes'
    BY <1>a, <1>3, <2>1, <2>2 DEF ClientTypes
  <2>5. RequestInv'
    BY <1>a, <1>1, <1>3, <2>1, <2>2, FlightKeeps DEF Leave
  <2>6. QED
    BY <1>a, <1>3, <2>1, <2>4, <2>5, WaitingKept, ClientParts
<1>5. CASE reply.kind # "accepted"
  <2>1. req' = Returned(q, reply.code) /\ pending' = Removed(o) /\ pendingCount' = CountRemoved(o)
    BY <1>5 DEF RequestReply
  <2>2. operation' \in [Operations -> Lease]
    BY <1>a, <1>5 DEF RequestReply, ClientTypes, Lease
  <2>3. reply.code \in Codes
    BY <1>2 DEF Frame
  <2> HIDE DEF reply
  <2>4. req' \in [Requests -> RequestType] /\ Moves(q, "returned", reply.code)
    BY <1>a, <2>1, <2>3, ReturnedTypes
  <2>6. Counts(pendingCount', Waiting') /\ pendingCount' \in [Lanes -> Nat] /\ pending' \in [Operations -> PendingType]
    BY <1>a, <2>1, PendingRemoved
  <2>7. Leave /\ pending'[o].request # q
    BY <1>a, <2>1, RemovedLeaves
  <2>8. ClientTypes'
    BY <1>a, <1>3, <2>2, <2>4, <2>6 DEF ClientTypes
  <2>9. RequestInv'
    BY <1>a, <1>1, <1>3, <2>3, <2>4, <2>7, ReturnKeeps
  <2>10. QED
    BY <1>3, <2>6, <2>8, <2>9, ClientParts
<1>6. QED
  BY <1>4, <1>5

LEMMA CancelRequestKeeps ==
  ASSUME ClientState, NEW q \in Requests, CancelRequest(q)
  PROVE  ClientState'
<1> DEFINE o == OperationOf(q)
<1>a. ClientTypes /\ RequestInv /\ Counts(pendingCount, Waiting) /\ o \in Operations
  BY RequestTypes DEF ClientState, ClientInv
<1>1. /\ req[q].pc \in {"queued", "sent", "accepted"}
      /\ req' = Returned(q, "uncertain")
      /\ UNCHANGED <<id, pendingCount, binding, routes, given>>
      /\ UNCHANGED <<state, protocolError, transport>>
  BY DEF CancelRequest
<1>2. req' \in [Requests -> RequestType] /\ Moves(q, "returned", "uncertain")
  BY <1>a, <1>1, ReturnedTypes DEF Codes
<1>4. operation' \in [Operations -> Lease]
  BY <1>a DEF CancelRequest, ClientTypes, Lease
<1>5. CASE pending[o].request = <<>>
  <2>1. UNCHANGED <<pending, cancel>>
    BY <1>5 DEF CancelRequest
  <2>2. pending'[o].request # q
    BY <1>5, <2>1, NoRequestIsEmpty
  <2>3. ClientTypes'
    BY <1>a, <1>1, <1>2, <1>4, <2>1 DEF ClientTypes
  <2>4. RequestInv'
    BY <1>a, <1>1, <1>2, <2>1, <2>2, ReturnKeeps DEF Leave, Codes
  <2>5. QED
    BY <1>a, <1>1, <2>1, <2>3, <2>4, WaitingKept, ClientParts
<1>6. CASE pending[o].request # <<>>
  <2>1. PICK pc \in {"wait", "cancel"} : cancel' = [cancel EXCEPT ![q] = pc]
    BY <1>6 DEF CancelRequest
  <2>2. pending' = [pending EXCEPT ![o].abandoned = TRUE]
    BY <1>6 DEF CancelRequest
  <2>3. pending' \in [Operations -> PendingType] /\ \A x \in Operations : pending'[x].request = pending[x].request
    BY <1>a, <2>2 DEF ClientTypes, PendingType
  <2>4. ClientTypes'
    BY <1>a, <1>1, <1>2, <1>4, <2>1, <2>3 DEF ClientTypes
  <2>5. RequestInv'
    BY <1>a, <1>1, <1>2, <2>1, <2>3, GivenUpKeeps DEF Leave
  <2>6. QED
    BY <1>a, <1>1, <2>3, <2>4, <2>5, WaitingKept, ClientParts
<1>7. QED
  BY <1>5, <1>6

LEMMA CancelGivesUpKeeps ==
  ASSUME ClientState, NEW q \in Requests, CancelGivesUp(q) \/ CancelTimer(q)
  PROVE  ClientState'
<1> DEFINE o == OperationOf(q)
<1>a. ClientTypes /\ RequestInv /\ Counts(pendingCount, Waiting) /\ o \in Operations
  BY RequestTypes DEF ClientState, ClientInv
<1>1. /\ cancel[q] \in {"wait", "cancel", "writing", "await"}
      /\ cancel' = [cancel EXCEPT ![q] = "end"]
      /\ pending' = Removed(o) /\ pendingCount' = CountRemoved(o)
      /\ UNCHANGED <<id, req, operation, binding, routes, given>>
      /\ UNCHANGED <<state, protocolError, transport>>
  BY DEF CancelGivesUp, CancelTimer, CancelEnds
<1>2. Counts(pendingCount', Waiting') /\ pendingCount' \in [Lanes -> Nat] /\ pending' \in [Operations -> PendingType]
  BY <1>a, <1>1, PendingRemoved
<1>3. Leave /\ pending'[o].request # q
  BY <1>a, <1>1, RemovedLeaves
<1>4. ClientTypes'
  BY <1>a, <1>1, <1>2 DEF ClientTypes
<1>5. RequestInv'
  BY <1>a, <1>1, <1>3, GoroutineKeeps
<1>6. QED
  BY <1>1, <1>2, <1>4, <1>5, ClientParts

\* The request that cancelRequest makes to clean up after q begins.
LEMMA CleanupKeeps ==
  ASSUME RequestInv, ClientTypes, Leave, NEW q \in Requests, NEW cleanup \in Requests,
         \/ q = Bind /\ cleanup = Close
         \/ \E c \in Calls : q = Call(c) /\ cleanup = Decision(c),
         cancel[q] = "await", cancel' = [cancel EXCEPT ![q] = "cleanup"],
         pending'[OperationOf(q)].request # q, Moves(cleanup, "start", req[cleanup].outcome),
         id' = id, given' = given, routes' = routes
  PROVE  RequestInv'
<1>a. Pending /\ Identified /\ Canceled /\ DecidedOnce /\ ClosedOnce
  BY DEF RequestInv
<1>w. \A o \in Operations : pending[o].request \in Requests \cup {<<>>}
  BY DEF ClientTypes, PendingType
<1>b. cancel'[q] = "cleanup" /\ \A p \in Requests \ {q} : cancel'[p] = cancel[p]
  BY DEF ClientTypes
<1>c. q # cleanup /\ req[cleanup].pc = "idle"
  BY <1>a, CallFacts DEF Canceled, DecidedOnce, ClosedOnce
<1>1. Pending'
  BY <1>a, <1>b, <1>c, <1>w DEF Pending, InFlight, Leave, Moves, Canceled
<1>2. Identified'
  <2>1. \A o \in Operations : req'[o].pc \in {"idle", "start"} => id[o] = 0
    BY <1>a, <1>c, RequestFacts DEF Identified, Moves
  <2>2. \A p \in Requests : cancel'[p] # "none" \/ req'[p].outcome = "ok" => cancel[p] # "none" \/ req[p].outcome = "ok"
    BY <1>b, <1>c DEF Moves
  <2>3. \A p \in Requests : InFlight(p)' => InFlight(p)
    BY <1>b, <1>c DEF Moves, InFlight
  <2>4. \A c \in Calls : req'[Decision(c)].pc # "idle" => id[Call(c)] # 0
    BY <1>a, <1>c, RequestFacts DEF Identified, Moves
  <2>5. QED
    BY <1>a, <2>1, <2>2, <2>3, <2>4 DEF Identified
<1>3. Canceled'
  BY <1>a, <1>b, <1>c, CallFacts, RequestFacts DEF Canceled, Moves
<1>4. DecidedOnce'
  BY <1>a, <1>b, <1>c, CallFacts DEF DecidedOnce, Canceled, Moves
<1>5. ClosedOnce'
  BY <1>a, <1>b, <1>c, CallFacts DEF ClosedOnce, Canceled, Moves
<1>6. QED
  BY <1>1, <1>2, <1>3, <1>4, <1>5 DEF RequestInv

LEMMA CleanupIs ==
  ASSUME NEW q \in Requests, NEW reply, Cleanup(q, reply) # <<>>
  PROVE  \/ q = Bind /\ Cleanup(q, reply) = Close
         \/ \E c \in Calls : q = Call(c) /\ Cleanup(q, reply) = Decision(c)
  BY RequestTypes, RequestFacts DEF Cleanup

LEMMA CancelReplyKeeps ==
  ASSUME ClientState, NEW q \in Requests, CancelReply(q)
  PROVE  ClientState'
<1> DEFINE o == OperationOf(q)
           reply == Head(req[q].response)
           cleanup == Cleanup(q, reply)
<1>a. ClientTypes /\ RequestInv /\ Counts(pendingCount, Waiting) /\ o \in Operations
  BY RequestTypes DEF ClientState, ClientInv
<1>1. /\ cancel[q] = "await" /\ req[q].response # <<>>
      /\ UNCHANGED <<id, operation, binding, routes, given>>
      /\ UNCHANGED <<state, protocolError, transport>>
  BY DEF CancelReply
<1>2. /\ req[q] \in RequestType /\ req[q].response \in Seq(Frame)
      /\ Tail(req[q].response) \in Seq(Frame) /\ <<>> \in Seq(Frame)
  BY <1>a, <1>1, HeadTailProperties, EmptySeq DEF ClientTypes, RequestType
<1>3. CASE reply.kind = "accepted"
  <2>1. req' = [req EXCEPT ![q].response = Tail(@)] /\ UNCHANGED <<cancel, pending, pendingCount>>
    BY <1>3 DEF CancelReply
  <2>2. /\ req' \in [Requests -> RequestType]
        /\ \A p \in Requests : req'[p].pc = req[p].pc /\ req'[p].outcome = req[p].outcome
    BY <1>a, <1>2, <2>1 DEF ClientTypes, RequestType
  <2>3. ClientTypes'
    BY <1>a, <1>1, <2>1, <2>2 DEF ClientTypes
  <2>4. RequestInv'
    BY <1>a, <1>1, <2>1, <2>2, QuietKeeps DEF Leave
  <2>5. QED
    BY <1>a, <1>1, <2>1, <2>3, <2>4, WaitingKept, ClientParts
<1>4. CASE reply.kind # "accepted"
  <2>1. /\ pending' = Removed(o) /\ pendingCount' = CountRemoved(o)
        /\ cancel' = [cancel EXCEPT ![q] = IF cleanup = <<>> THEN "end" ELSE "cleanup"]
        /\ req' = IF cleanup = <<>> THEN [req EXCEPT ![q].response = <<>>]
                                    ELSE [req EXCEPT ![q].response = <<>>, ![cleanup].pc = "start"]
    BY <1>4 DEF CancelReply
  <2>2. Counts(pendingCount', Waiting') /\ pendingCount' \in [Lanes -> Nat] /\ pending' \in [Operations -> PendingType]
    BY <1>a, <2>1, PendingRemoved
  <2>3. Leave /\ pending'[o].request # q
    BY <1>a, <2>1, RemovedLeaves
  <2>4. cancel' \in [Requests -> {"none", "wait", "cancel", "writing", "await", "cleanup", "end"}]
    BY <1>a, <2>1 DEF ClientTypes
  <2>5. CASE cleanup = <<>>
    <3>1. /\ req' \in [Requests -> RequestType]
          /\ \A p \in Requests : req'[p].pc = req[p].pc /\ req'[p].outcome = req[p].outcome
      BY <1>a, <1>2, <2>1, <2>5 DEF ClientTypes, RequestType
    <3>2. ClientTypes'
      BY <1>a, <1>1, <2>2, <2>4, <3>1 DEF ClientTypes
    <3>3. RequestInv'
      BY <1>a, <1>1, <2>1, <2>3, <2>5, <3>1, GoroutineKeeps
    <3>4. QED
      BY <1>1, <2>2, <3>2, <3>3, ClientParts
  <2>6. CASE cleanup # <<>>
    <3>1. \/ q = Bind /\ cleanup = Close
          \/ \E c \in Calls : q = Call(c) /\ cleanup = Decision(c)
      BY <2>6, CleanupIs
    <3>2. cleanup \in Requests /\ cleanup # q
      BY <3>1, CallFacts
    <3> HIDE DEF cleanup
    <3>3. req' \in [Requests -> RequestType] /\ Moves(cleanup, "start", req[cleanup].outcome)
      <4> DEFINE r == [req[q] EXCEPT !.response = <<>>]
                 t == [req[cleanup] EXCEPT !.pc = "start"]
      <4>1. r \in RequestType /\ r.pc = req[q].pc /\ r.outcome = req[q].outcome
        BY <1>2 DEF RequestType
      <4>2. t \in RequestType /\ t.pc = "start" /\ t.outcome = req[cleanup].outcome
        BY <1>a, <3>2 DEF ClientTypes, RequestType
      <4>3. req' = [req EXCEPT ![q] = r, ![cleanup] = t]
        BY <1>a, <2>1, <2>6, <3>2 DEF ClientTypes
      <4> HIDE DEF r, t
      <4>4. QED
        BY <1>a, <3>2, <4>1, <4>2, <4>3 DEF ClientTypes, Moves
    <3>4. ClientTypes'
      BY <1>a, <1>1, <2>2, <2>4, <3>3 DEF ClientTypes
    <3>5. RequestInv'
      BY <1>a, <1>1, <2>1, <2>3, <2>6, <3>1, <3>2, <3>3, CleanupKeeps
    <3>6. QED
      BY <1>1, <2>2, <3>4, <3>5, ClientParts
  <2>7. QED
    BY <2>5, <2>6
<1>5. QED
  BY <1>3, <1>4

LEMMA CancelCleanedKeeps ==
  ASSUME ClientState, NEW q \in Requests, CancelCleaned(q)
  PROVE  ClientState'
<1> DEFINE o == OperationOf(q)
           cleanup == IF q = Bind THEN Close ELSE Decision(q[2])
<1>a. ClientTypes /\ RequestInv /\ Counts(pendingCount, Waiting) /\ o \in Operations
  BY RequestTypes DEF ClientState, ClientInv
<1>b. Pending /\ Identified /\ Canceled /\ DecidedOnce /\ ClosedOnce
  BY <1>a DEF RequestInv
<1>1. /\ cancel[q] = "cleanup" /\ req[cleanup].pc = "returned"
      /\ cancel' = [cancel EXCEPT ![q] = "end"]
      /\ req' = [req EXCEPT ![cleanup].pc = "end"]
      /\ pending' = Removed(o) /\ pendingCount' = CountRemoved(o)
      /\ UNCHANGED <<id, operation, given>>
      /\ UNCHANGED <<state, protocolError, transport>>
  BY DEF CancelCleaned, CancelEnds
<1>2. /\ routes' = routes \/ (routes = "open" /\ routes' = "disconnect")
      /\ binding' \in Lease
  BY <1>a DEF CancelCleaned, Disconnected, ClientTypes, Lease
<1>3. \/ q = Bind /\ cleanup = Close
      \/ \E c \in Calls : q = Call(c) /\ cleanup = Decision(c)
  BY <1>b, <1>1, RequestTypes, RequestFacts DEF Canceled
<1>4. cleanup \in Requests /\ cleanup # q
  BY <1>3, CallFacts
<1> HIDE DEF cleanup
<1>5. Counts(pendingCount', Waiting') /\ pendingCount' \in [Lanes -> Nat] /\ pending' \in [Operations -> PendingType]
  BY <1>a, <1>1, PendingRemoved
<1>6. Leave
  BY <1>a, <1>1, RemovedLeaves
<1>7. req' \in [Requests -> RequestType] /\ Moves(cleanup, "end", req[cleanup].outcome)
  BY <1>a, <1>1, <1>4, RequestMoves
<1>8. cancel'[q] = "end" /\ \A p \in Requests \ {q} : cancel'[p] = cancel[p]
  BY <1>a, <1>1 DEF ClientTypes
<1>9. ClientTypes'
  BY <1>a, <1>1, <1>2, <1>5, <1>7 DEF ClientTypes
<1>w. \A x \in Operations : pending[x].request \in Requests \cup {<<>>}
  BY <1>a DEF ClientTypes, PendingType
<1>10. Pending'
  BY <1>b, <1>1, <1>6, <1>7, <1>8, <1>w DEF Pending, InFlight, Leave, Moves, Canceled
<1>11. Identified'
  <2>1. \A p \in Requests : InFlight(p)' => InFlight(p)
    BY <1>7, <1>8 DEF InFlight, Moves
  <2>2. QED
    BY <1>b, <1>1, <1>7, <1>8, <2>1, RequestFacts DEF Identified, Moves
<1>12. Canceled'
  BY <1>b, <1>1, <1>7, <1>8 DEF Canceled, Moves
<1>13. DecidedOnce'
  BY <1>b, <1>1, <1>3, <1>7, <1>8, CallFacts DEF DecidedOnce, Moves
<1>14. ClosedOnce'
  BY <1>b, <1>1, <1>2, <1>3, <1>7, <1>8, CallFacts DEF ClosedOnce, Moves
<1>15. QED
  BY <1>1, <1>5, <1>9, <1>10, <1>11, <1>12, <1>13, <1>14, ClientParts DEF RequestInv

LEMMA BindReturnsKeeps ==
  ASSUME ClientState, NEW confirmed \in BOOLEAN, BindReturns(confirmed)
  PROVE  ClientState'
<1>a. ClientTypes /\ RequestInv /\ Counts(pendingCount, Waiting)
  BY DEF ClientState, ClientInv
<1>b. Pending /\ Identified /\ Canceled /\ DecidedOnce /\ ClosedOnce
  BY <1>a DEF RequestInv
<1>1. /\ req[Bind].pc = "returned"
      /\ req' = [req EXCEPT ![Bind].pc = "end"]
      /\ UNCHANGED <<id, cancel, pending, pendingCount, operation, given>>
      /\ UNCHANGED <<state, protocolError, transport>>
  BY DEF BindReturns, ContinueTo
<1>2. /\ routes' = routes \/ (req[Bind].outcome = "ok" /\ routes' \in {"open", "disconnect"})
      /\ routes' \in {"none", "open", "shutdown", "disconnect", "closing", "closed"}
      /\ binding' \in Lease
  BY <1>a DEF BindReturns, ClientTypes, Lease
<1>3. req' \in [Requests -> RequestType] /\ Moves(Bind, "end", req[Bind].outcome)
  BY <1>a, <1>1, CallFacts, RequestMoves
<1>4. ClientTypes'
  BY <1>a, <1>1, <1>2, <1>3 DEF ClientTypes
<1>5. Pending'
  BY <1>a, <1>b, <1>1, <1>3 DEF Pending, InFlight, Moves, ClientTypes, PendingType
<1>6. Identified'
  BY <1>b, <1>1, <1>3, RequestFacts DEF Identified, InFlight, Moves
<1>7. Canceled'
  BY <1>b, <1>1, <1>3 DEF Canceled, Moves
<1>8. DecidedOnce'
  BY <1>b, <1>1, <1>3, CallFacts DEF DecidedOnce, Moves
<1>9. ClosedOnce'
  BY <1>b, <1>1, <1>2, <1>3, CallFacts DEF ClosedOnce, Canceled, Moves
<1>10. QED
  BY <1>a, <1>1, <1>4, <1>5, <1>6, <1>7, <1>8, <1>9, WaitingKept, ClientParts DEF RequestInv

\* A decision begins: at the hand of its holder, or for a result that came too
\* late, with the call that ends.
LEMMA DecisionBegins ==
  ASSUME RequestInv, ClientTypes, NEW c \in Calls,
         req[Call(c)].pc \in {"returned", "end"}, req[Call(c)].outcome = "ok",
         req[Call(c)].pc = "returned" \/ given[c] = "held",
         req'[Call(c)].pc = "end" /\ req'[Decision(c)].pc = "start",
         \A p \in Requests \ {Call(c), Decision(c)} : req'[p].pc = req[p].pc,
         \A p \in Requests : req'[p].outcome = req[p].outcome,
         given'[c] # "held", \A d \in Calls \ {c} : given'[d] = given[d],
         UNCHANGED <<id, cancel, pending, routes>>
  PROVE  RequestInv'
<1>b. Pending /\ Identified /\ Canceled /\ DecidedOnce /\ ClosedOnce
  BY DEF RequestInv
<1>c. /\ Call(c) \in Requests /\ Decision(c) \in Requests /\ Call(c) # Decision(c)
      /\ cancel[Call(c)] = "none" /\ req[Decision(c)].pc = "idle"
  BY <1>b, CallFacts DEF Canceled, DecidedOnce
<1>w. \A o \in Operations : pending[o].request \in Requests \cup {<<>>}
  BY DEF ClientTypes, PendingType
<1>f. \A p \in Requests : InFlight(p)' <=> InFlight(p)
  BY <1>c DEF InFlight
<1>1. Pending'
  BY <1>b, <1>f, <1>w DEF Pending
<1>2. Identified'
  <2>1. \A o \in Operations : req'[o].pc \in {"idle", "start"} => id[o] = 0
    BY <1>b, <1>c, RequestFacts DEF Identified
  <2>2. id[Call(c)] # 0
    BY <1>b, <1>c, RequestFacts DEF Identified
  <2>3. \A d \in Calls : req'[Decision(d)].pc # "idle" => id[Call(d)] # 0
    BY <1>b, <1>c, <2>2, CallFacts DEF Identified
  <2>4. QED
    BY <1>b, <1>f, <2>1, <2>3 DEF Identified
<1>3. Canceled'
  <2>1. cancel[Decision(c)] = "none"
    BY <1>b, <1>c DEF Canceled
  <2>2. QED
    BY <1>b, <1>c, <2>1 DEF Canceled
<1>4. DecidedOnce'
  BY <1>b, <1>c, CallFacts DEF DecidedOnce
<1>5. ClosedOnce'
  BY <1>b, <1>c, CallFacts DEF ClosedOnce
<1>6. QED
  BY <1>1, <1>2, <1>3, <1>4, <1>5 DEF RequestInv

LEMMA CallReturnsKeeps ==
  ASSUME ClientState, NEW c \in Calls, CallReturns(c)
  PROVE  ClientState'
<1> DEFINE q == Call(c)
           offered == req[q].outcome = "ok" /\ scenario.decodes
           kept == operation[q] = "live" /\ routes = "open"
<1>a. ClientTypes /\ RequestInv /\ Counts(pendingCount, Waiting)
  BY DEF ClientState, ClientInv
<1>b. Pending /\ Identified /\ Canceled /\ DecidedOnce /\ ClosedOnce
  BY <1>a DEF RequestInv
<1>c. q \in Requests /\ Decision(c) \in Requests /\ q # Decision(c)
  BY CallFacts
<1>1. /\ req[q].pc = "returned"
      /\ given' = [given EXCEPT ![c] = IF offered /\ kept THEN "held" ELSE "failed"]
      /\ req' = IF offered /\ ~kept
                THEN [req EXCEPT ![q].pc = "end", ![Decision(c)].pc = "start"]
                ELSE [req EXCEPT ![q].pc = "end"]
      /\ UNCHANGED <<id, cancel, pending, pendingCount, operation, binding, routes>>
      /\ UNCHANGED <<state, protocolError, transport>>
  BY DEF CallReturns, ContinueTo
<1> DEFINE r == [req[q] EXCEPT !.pc = "end"]
<1>2. r \in RequestType /\ r.pc = "end" /\ r.outcome = req[q].outcome
  BY <1>a, <1>c, RequestEdit
<1>3. given' \in [Calls -> {"none", "held", "deciding", "accepted", "discarded", "failed"}]
  BY <1>a, <1>1 DEF ClientTypes
<1> HIDE DEF offered, kept, r, q
<1>4. CASE offered /\ ~kept
  <2> DEFINE t == [req[Decision(c)] EXCEPT !.pc = "start"]
  <2>1. t \in RequestType /\ t.pc = "start" /\ t.outcome = req[Decision(c)].outcome
    BY <1>a, <1>c, RequestEdit
  <2>2. req' = [req EXCEPT ![q] = r, ![Decision(c)] = t]
    BY <1>a, <1>c, <1>1, <1>4 DEF ClientTypes, r
  <2> HIDE DEF t
  <2>3. /\ req' \in [Requests -> RequestType]
        /\ req'[q].pc = "end" /\ req'[Decision(c)].pc = "start"
        /\ \A p \in Requests \ {q, Decision(c)} : req'[p].pc = req[p].pc
        /\ \A p \in Requests : req'[p].outcome = req[p].outcome
    BY <1>a, <1>c, <1>2, <2>1, <2>2 DEF ClientTypes
  <2>4. ClientTypes'
    BY <1>a, <1>1, <1>3, <2>3 DEF ClientTypes
  <2>5. given'[c] # "held" /\ \A d \in Calls \ {c} : given'[d] = given[d]
    BY <1>a, <1>1, <1>4 DEF ClientTypes
  <2>6. RequestInv'
    BY <1>a, <1>1, <1>4, <2>3, <2>5, DecisionBegins DEF offered, q
  <2>7. QED
    BY <1>a, <1>1, <2>4, <2>6, WaitingKept, ClientParts
<1>5. CASE ~(offered /\ ~kept)
  <2>1. req' = [req EXCEPT ![q] = r]
    BY <1>1, <1>5 DEF r
  <2>2. req' \in [Requests -> RequestType] /\ Moves(q, "end", req[q].outcome)
    BY <1>a, <1>c, <1>2, <2>1, RequestSet
  <2>3. ClientTypes'
    BY <1>a, <1>1, <1>3, <2>2 DEF ClientTypes
  <2>4. /\ given'[c] = "held" => req[q].outcome = "ok"
        /\ \A d \in Calls \ {c} : given'[d] = given[d]
    BY <1>a, <1>1 DEF ClientTypes, offered
  <2>5. Pending'
    BY <1>a, <1>b, <1>1, <2>2 DEF Pending, InFlight, Moves, ClientTypes, PendingType
  <2>6. Identified'
    <3>1. \A p \in Requests : InFlight(p)' => InFlight(p)
      BY <1>1, <2>2 DEF InFlight, Moves
    <3>2. \A d \in Calls : req'[Decision(d)].pc # "idle" => req[Decision(d)].pc # "idle"
      BY <1>1, <2>2, CallFacts DEF Moves
    <3>3. \A o \in Operations : req'[o].pc \in {"idle", "start"} => req[o].pc \in {"idle", "start"}
      BY <2>2, RequestFacts DEF Moves
    <3>4. \A p \in Requests : req'[p].outcome = req[p].outcome
      BY <2>2 DEF Moves
    <3>5. QED
      BY <1>b, <1>1, <3>1, <3>2, <3>3, <3>4 DEF Identified
  <2>7. Canceled'
    BY <1>b, <1>1, <2>2 DEF Canceled, Moves
  <2>8. DecidedOnce'
    BY <1>b, <1>c, <1>1, <2>2, <2>4, CallFacts DEF DecidedOnce, Canceled, Moves, q
  <2>9. ClosedOnce'
    BY <1>b, <1>c, <1>1, <2>2, CallFacts DEF ClosedOnce, Moves, q
  <2>10. QED
    BY <1>a, <1>1, <2>3, <2>5, <2>6, <2>7, <2>8, <2>9, WaitingKept, ClientParts DEF RequestInv
<1>6. QED
  BY <1>4, <1>5

LEMMA DecideKeeps ==
  ASSUME ClientState, NEW c \in Calls, NEW accept \in BOOLEAN,
         given[c] = "held", given' = [given EXCEPT ![c] = "deciding"], req' = Deciding(c, accept),
         UNCHANGED <<id, cancel, pending, pendingCount, operation, binding, routes>>,
         UNCHANGED <<state, protocolError, transport>>
  PROVE  ClientState'
<1> DEFINE q == Decision(c)
           r == [req[q] EXCEPT !.pc = "start", !.accept = accept]
<1>a. ClientTypes /\ RequestInv /\ Counts(pendingCount, Waiting)
  BY DEF ClientState, ClientInv
<1>b. q \in Requests /\ Call(c) \in Requests /\ q # Call(c)
  BY CallFacts
<1>1. r \in RequestType /\ r.pc = "start" /\ r.outcome = req[q].outcome
  <2>1. req[q] \in RequestType
    BY <1>a, <1>b DEF ClientTypes
  <2>2. QED
    BY <2>1 DEF RequestType
<1>2. req' = [req EXCEPT ![q] = r]
  BY <1>a, <1>b DEF Deciding, ClientTypes
<1> HIDE DEF r
<1>3. req' \in [Requests -> RequestType] /\ Moves(q, "start", req[q].outcome)
  BY <1>a, <1>b, <1>1, <1>2, RequestSet
<1>4. ClientTypes'
  BY <1>a, <1>3 DEF ClientTypes
<1>5. req[Call(c)].pc = "end" /\ req[Call(c)].outcome = "ok"
  BY <1>a DEF RequestInv, DecidedOnce
<1>6. given'[c] # "held" /\ \A d \in Calls \ {c} : given'[d] = given[d]
  BY <1>a DEF ClientTypes
<1>7. /\ req'[Call(c)].pc = "end" /\ req'[q].pc = "start"
      /\ \A p \in Requests \ {Call(c), q} : req'[p].pc = req[p].pc
      /\ \A p \in Requests : req'[p].outcome = req[p].outcome
  BY <1>b, <1>3, <1>5 DEF Moves
<1>8. RequestInv'
  BY <1>a, <1>5, <1>6, <1>7, DecisionBegins
<1>9. QED
  BY <1>a, <1>4, <1>8, WaitingKept, ClientParts

\* A decision that is over has returned.
LEMMA DecisionReturnsKeeps ==
  ASSUME ClientState, NEW c \in Calls, DecisionReturns(c)
  PROVE  ClientState'
<1> DEFINE q == Decision(c)
           r == [req[q] EXCEPT !.pc = "end"]
<1>a. ClientTypes /\ RequestInv /\ Counts(pendingCount, Waiting)
  BY DEF ClientState, ClientInv
<1>b. Pending /\ Identified /\ Canceled /\ DecidedOnce /\ ClosedOnce
  BY <1>a DEF RequestInv
<1>c. q \in Requests /\ Call(c) \in Requests
  BY CallFacts
<1>1. /\ req[q].pc = "returned"
      /\ req' = [req EXCEPT ![q] = r]
      /\ UNCHANGED <<id, cancel, pending, pendingCount>>
      /\ UNCHANGED <<state, protocolError, transport>>
  BY <1>a DEF DecisionReturns, ContinueTo, ClientTypes
<1>2. r \in RequestType /\ r.pc = "end" /\ r.outcome = req[q].outcome
  BY <1>a, <1>c, RequestEdit
<1>3. /\ given' \in [Calls -> {"none", "held", "deciding", "accepted", "discarded", "failed"}]
      /\ \A d \in Calls : given'[d] = "held" => given[d] = "held" /\ d # c
      /\ \A d \in Calls \ {c} : given'[d] = given[d]
  BY <1>a DEF DecisionReturns, ClientTypes
<1>4. /\ operation' \in [Operations -> Lease]
      /\ routes' = routes \/ (routes = "open" /\ routes' = "disconnect")
      /\ binding' \in Lease
  BY <1>a DEF DecisionReturns, Disconnected, ClientTypes, Lease
<1> HIDE DEF r
<1>5. req' \in [Requests -> RequestType] /\ Moves(q, "end", req[q].outcome)
  BY <1>a, <1>c, <1>1, <1>2, RequestSet
<1>6. ClientTypes'
  BY <1>a, <1>1, <1>3, <1>4, <1>5 DEF ClientTypes
<1>f. \A p \in Requests : InFlight(p)' <=> InFlight(p)
  BY <1>1, <1>5 DEF InFlight, Moves
<1>7. RequestInv'
  <2>w. \A o \in Operations : pending[o].request \in Requests \cup {<<>>}
    BY <1>a DEF ClientTypes, PendingType
  <2>1. Pending'
    BY <1>b, <1>1, <1>f, <2>w DEF Pending
  <2>2. Identified'
    <3>1. \A d \in Calls : req'[Decision(d)].pc # "idle" => req[Decision(d)].pc # "idle"
      BY <1>1, <1>5, CallFacts DEF Moves
    <3>2. \A o \in Operations : req'[o].pc = req[o].pc
      BY <1>5, RequestFacts DEF Moves
    <3>3. \A p \in Requests : req'[p].outcome = req[p].outcome
      BY <1>5 DEF Moves
    <3>4. QED
      BY <1>b, <1>1, <1>f, <3>1, <3>2, <3>3 DEF Identified
  <2>3. Canceled'
    BY <1>b, <1>1, <1>5 DEF Canceled, Moves
  <2>4. DecidedOnce'
    BY <1>b, <1>1, <1>3, <1>5, CallFacts DEF DecidedOnce, Moves
  <2>5. ClosedOnce'
    BY <1>b, <1>1, <1>4, <1>5, CallFacts DEF ClosedOnce, Moves
  <2>6. QED
    BY <2>1, <2>2, <2>3, <2>4, <2>5 DEF RequestInv
<1>8. QED
  BY <1>a, <1>1, <1>6, <1>7, WaitingKept, ClientParts

LEMMA ControlReturnsKeeps ==
  ASSUME ClientState, NEW q \in Requests, ControlReturns(q)
  PROVE  ClientState'
<1> DEFINE r == [req[q] EXCEPT !.pc = "end"]
<1>a. ClientTypes /\ RequestInv /\ Counts(pendingCount, Waiting)
  BY DEF ClientState, ClientInv
<1>b. Pending /\ Identified /\ Canceled /\ DecidedOnce /\ ClosedOnce
  BY <1>a DEF RequestInv
<1>c. /\ q = Close \/ q[1] = "drop"
      /\ \A c \in Calls : q # Call(c) /\ q # Decision(c)
      /\ q # Bind
  BY RequestFacts DEF ControlReturns
<1>1. /\ req[q].pc = "returned" /\ cancel[Bind] # "cleanup"
      /\ req' = [req EXCEPT ![q] = r]
      /\ UNCHANGED <<id, cancel, pending, pendingCount, operation, given>>
      /\ UNCHANGED <<state, protocolError, transport>>
  BY <1>a DEF ControlReturns, ContinueTo, ClientTypes
<1>2. r \in RequestType /\ r.pc = "end" /\ r.outcome = req[q].outcome
  BY <1>a, RequestEdit
<1>3. /\ routes' = routes \/ (routes = "open" /\ routes' = "disconnect") \/ (q = Close /\ routes' = "closed")
      /\ binding' \in Lease
  BY <1>a, <1>c DEF ControlReturns, Disconnected, ClientTypes, Lease
<1> HIDE DEF r
<1>4. req' \in [Requests -> RequestType] /\ Moves(q, "end", req[q].outcome)
  BY <1>a, <1>1, <1>2, RequestSet
<1>5. ClientTypes'
  BY <1>a, <1>1, <1>3, <1>4 DEF ClientTypes
<1>f. \A p \in Requests : InFlight(p)' <=> InFlight(p)
  BY <1>1, <1>4 DEF InFlight, Moves
<1>6. RequestInv'
  <2>w. \A o \in Operations : pending[o].request \in Requests \cup {<<>>}
    BY <1>a DEF ClientTypes, PendingType
  <2>1. Pending'
    BY <1>b, <1>1, <1>f, <2>w DEF Pending
  <2>2. Identified'
    <3>1. \A d \in Calls : req'[Decision(d)].pc = req[Decision(d)].pc
      BY <1>c, <1>4, CallFacts DEF Moves
    <3>2. \A o \in Operations : req'[o].pc \in {"idle", "start"} => req[o].pc \in {"idle", "start"}
      BY <1>4, RequestFacts DEF Moves
    <3>3. \A p \in Requests : req'[p].outcome = req[p].outcome
      BY <1>4 DEF Moves
    <3>4. QED
      BY <1>b, <1>1, <1>f, <3>1, <3>2, <3>3 DEF Identified
  <2>3. Canceled'
    BY <1>b, <1>1, <1>4 DEF Canceled, Moves
  <2>4. DecidedOnce'
    BY <1>b, <1>c, <1>1, <1>4, CallFacts DEF DecidedOnce, Moves
  <2>5. ClosedOnce'
    BY <1>b, <1>c, <1>1, <1>3, <1>4, CallFacts DEF ClosedOnce, Moves
  <2>6. QED
    BY <2>1, <2>2, <2>3, <2>4, <2>5 DEF RequestInv
<1>7. QED
  BY <1>a, <1>1, <1>5, <1>6, WaitingKept, ClientParts

LEMMA RoutesFinishKeeps ==
  ASSUME ClientState, RoutesFinish
  PROVE  ClientState'
<1>a. ClientTypes /\ RequestInv /\ Counts(pendingCount, Waiting)
  BY DEF ClientState, ClientInv
<1>b. Pending /\ Identified /\ Canceled /\ DecidedOnce /\ ClosedOnce
  BY <1>a DEF RequestInv
<1>1. /\ routes \in {"shutdown", "disconnect"}
      /\ UNCHANGED <<id, cancel, pending, pendingCount, operation, binding, given>>
      /\ UNCHANGED <<state, protocolError, transport>>
  BY DEF RoutesFinish, Cleaning
<1>c. req[Close].pc = "idle" \/ cancel[Bind] = "end"
  BY <1>b, <1>1 DEF ClosedOnce
<1>d. cancel[Bind] = "none" /\ req[Close].pc = "idle"
  BY <1>b, <1>1, <1>c DEF ClosedOnce
<1>2. CASE routes = "shutdown"
  <2> DEFINE r == [req[Close] EXCEPT !.pc = "start"]
  <2>1. routes' = "closing" /\ req' = [req EXCEPT ![Close] = r]
    BY <1>a, <1>2 DEF RoutesFinish, Started, ClientTypes
  <2>2. r \in RequestType /\ r.pc = "start" /\ r.outcome = req[Close].outcome
    BY <1>a, CallFacts, RequestEdit
  <2> HIDE DEF r
  <2>3. req' \in [Requests -> RequestType] /\ Moves(Close, "start", req[Close].outcome)
    <3>1. Close \in Requests
      BY CallFacts
    <3>2. req' \in [Requests -> RequestType] /\ Moves(Close, r.pc, r.outcome)
      BY <1>a, <2>1, <2>2, <3>1, RequestSet
    <3>3. QED
      BY <2>2, <3>2
  <2>4. ClientTypes'
    BY <1>a, <1>1, <2>1, <2>3 DEF ClientTypes
  <2>f. \A p \in Requests : InFlight(p)' <=> InFlight(p)
    BY <1>1, <1>d, <2>3 DEF InFlight, Moves
  <2>w. \A o \in Operations : pending[o].request \in Requests \cup {<<>>}
    BY <1>a DEF ClientTypes, PendingType
  <2>5. Pending'
    BY <1>b, <1>1, <2>f, <2>w DEF Pending
  <2>6. Identified'
    <3>1. \A d \in Calls : req'[Decision(d)].pc = req[Decision(d)].pc
      BY <2>3, CallFacts DEF Moves
    <3>2. \A o \in Operations : req'[o].pc \in {"idle", "start"} => req[o].pc \in {"idle", "start"}
      BY <1>d, <2>3, RequestFacts DEF Moves
    <3>3. \A p \in Requests : req'[p].outcome = req[p].outcome
      BY <2>3 DEF Moves
    <3>4. QED
      BY <1>b, <1>1, <2>f, <3>1, <3>2, <3>3 DEF Identified
  <2>7. Canceled'
    BY <1>b, <1>1, <1>d, <2>3 DEF Canceled, Moves
  <2>8. DecidedOnce'
    BY <1>b, <1>1, <2>3, CallFacts DEF DecidedOnce, Moves
  <2>9. ClosedOnce'
    BY <1>b, <1>1, <1>d, <2>1, <2>3, CallFacts DEF ClosedOnce, Moves
  <2>10. QED
    BY <1>a, <1>1, <2>4, <2>5, <2>6, <2>7, <2>8, <2>9, WaitingKept, ClientParts DEF RequestInv
<1>3. CASE routes # "shutdown"
  <2>1. routes' = "closed" /\ req' = req
    BY <1>3 DEF RoutesFinish
  <2>2. ClientTypes'
    BY <1>a, <1>1, <2>1 DEF ClientTypes
  <2>w. \A o \in Operations : pending[o].request \in Requests \cup {<<>>}
    BY <1>a DEF ClientTypes, PendingType
  <2>3. Pending' /\ Identified' /\ Canceled' /\ DecidedOnce'
    BY <1>b, <1>1, <2>1, <2>w DEF Pending, Identified, InFlight, Canceled, DecidedOnce
  <2>4. ClosedOnce'
    BY <1>b, <1>1, <2>1 DEF ClosedOnce
  <2>5. QED
    BY <1>a, <1>1, <2>2, <2>3, <2>4, WaitingKept, ClientParts DEF RequestInv
<1>4. QED
  BY <1>2, <1>3

\* Frames that a side queues, sends and reads.
LEMMA ClientQueues ==
  ASSUME TransportTypes, Frames, NEW f \in ClientFrames', ClientFrames \subseteq ClientFrames',
         out' = Queued("client", f), UNCHANGED <<state, protocolError, wire>>
  PROVE  TransportTypes' /\ Frames'
<1> DEFINE lane == LaneOf(f.kind)
<1>1. lane \in Lanes /\ f \in Frame
  BY DEF LaneOf, Lanes, ClientFrames
<1>2. Append(out["client"][lane], f) \in Seq(Frame)
  BY <1>1, AppendProperties DEF TransportTypes, Sides
<1>3. \A l \in Lanes : out["client"][l] \in Seq(ClientFrames')
  <2>1. ASSUME NEW l \in Lanes PROVE out["client"][l] \in Seq(ClientFrames')
    <3>1. out["client"][l] \in Seq(ClientFrames)
      BY DEF Frames
    <3> HIDE DEF ClientFrames
    <3>2. QED
      BY <3>1, SeqMonotonic
  <2>2. QED
    BY <2>1
<1>4. wire'["client"] \in Seq(ClientFrames')
  <2>1. wire'["client"] \in Seq(ClientFrames)
    BY DEF Frames
  <2>2. QED
    BY <2>1, SeqMonotonic
<1>5. Append(out["client"][lane], f) \in Seq(ClientFrames')
  BY <1>1, <1>3, AppendProperties
<1> DEFINE row == [out["client"] EXCEPT ![lane] = Append(out["client"][lane], f)]
<1>6. out' = [out EXCEPT !["client"] = row]
  BY DEF Queued
<1> HIDE DEF lane
<1>r. row \in [Lanes -> Seq(Frame)]
  BY <1>1, <1>2 DEF TransportTypes, Sides
<1>s. row[lane] = Append(out["client"][lane], f) /\ \A l \in Lanes \ {lane} : row[l] = out["client"][l]
  BY <1>1 DEF TransportTypes, Sides
<1> HIDE DEF row
<1>7. out'["client"] = row /\ out' \in [Sides -> [Lanes -> Seq(Frame)]]
  BY <1>6, <1>r DEF TransportTypes, Sides
<1>8. \A l \in Lanes : out'["client"][l] \in Seq(ClientFrames')
  BY <1>3, <1>5, <1>7, <1>s
<1>9. TransportTypes'
  BY <1>7 DEF TransportTypes
<1>10. Frames'
  BY <1>4, <1>8 DEF Frames
<1>11. QED
  BY <1>9, <1>10

LEMMA ClientStateParts ==
  ASSUME TransportTypes', Frames', ClientTypes', RequestInv', Counts(pendingCount', Waiting')
  PROVE  ClientState'
  BY DEF ClientState, ClientInv, Counts, InLane

LEMMA EnqueueRequestKeeps ==
  ASSUME ClientState, NEW q \in Requests, EnqueueRequest(q)
  PROVE  ClientState' /\ \A x \in Operations : id'[x] = id[x] \/ id[x] = 0
<1> DEFINE o == OperationOf(q)
<1>a. ClientTypes /\ RequestInv /\ Counts(pendingCount, Waiting) /\ o \in Operations /\ TransportTypes /\ Frames
  BY RequestTypes DEF ClientState, ClientInv
<1>b. Pending /\ Identified /\ Canceled /\ DecidedOnce /\ ClosedOnce
  BY <1>a DEF RequestInv
<1>1. req[q].pc = "start" /\ UNCHANGED <<cancel, operation, binding, routes, given>> /\ UNCHANGED <<state, protocolError, wire>>
  BY DEF EnqueueRequest
<1>c. cancel[q] = "none" /\ ~InFlight(q)
  BY <1>b, <1>1 DEF Canceled, InFlight, ClientTypes
<1>w. \A x \in Operations : pending[x].request \in Requests \cup {<<>>}
  BY <1>a DEF ClientTypes, PendingType
<1>2. CASE Admission(q) # "ok"
  <2> DEFINE code == Admission(q)
  <2>1. code \in Codes /\ code # "ok" /\ req' = Returned(q, code) /\ UNCHANGED <<id, pending, pendingCount, out>>
    BY <1>2 DEF EnqueueRequest, Admission, Codes
  <2> HIDE DEF code
  <2>2. req' \in [Requests -> RequestType] /\ Moves(q, "returned", code)
    BY <1>a, <2>1, ReturnedTypes
  <2>3. ClientTypes'
    BY <1>a, <1>1, <2>1, <2>2 DEF ClientTypes
  <2>4. pending'[o].request # q
    BY <1>a, <1>b, <1>c, <2>1, NoRequestIsEmpty DEF Pending
  <2>5. RequestInv'
    BY <1>a, <1>1, <2>1, <2>2, <2>4, ReturnKeeps DEF Leave
  <2>6. QED
    BY <1>a, <1>1, <2>1, <2>3, <2>5, WaitingKept, ClientParts DEF transport
<1>3. CASE Admission(q) = "ok"
  <2> DEFINE f == Message(q[1], q, "ok", req[q].accept)
             entered == [NoPending EXCEPT !.request = q]
             r == [req[q] EXCEPT !.pc = "queued"]
  <2>1. /\ id' = IF q = o THEN [id EXCEPT ![o] = Cardinality({x \in Operations : id[x] # 0}) + 1] ELSE id
        /\ pending' = [pending EXCEPT ![o] = entered]
        /\ pendingCount' = Count(pendingCount, q, "up")
        /\ out' = Queued("client", f)
        /\ req' = [req EXCEPT ![q] = r]
    BY <1>a, <1>3 DEF EnqueueRequest, ClientTypes
  <2>2. pending[o].request = <<>>
    <3>1. SUFFICES ASSUME pending[o].request # <<>> PROVE FALSE
      OBVIOUS
    <3> DEFINE p == pending[o].request
    <3>2. p \in Requests /\ OperationOf(p) = o /\ InFlight(p) /\ id[o] # 0
      BY <1>a, <1>b, <1>w, <3>1 DEF Pending, Identified
    <3> HIDE DEF p
    <3>3. CASE q \in Operations
      BY <1>b, <1>1, <3>2, <3>3, RequestTypes DEF Identified
    <3>4. CASE q \notin Operations
      <4>1. PICK c \in Calls : q = Decision(c)
        BY <3>4, RequestTypes
      <4>2. p = Call(c) \/ p = q
        BY <3>2, <4>1, RequestFacts
      <4>3. p = Call(c)
        BY <1>c, <3>2, <4>2
      <4>4. \/ cancel[Call(c)] \in {"cleanup", "end"}
            \/ req[Call(c)].pc = "end" /\ req[Call(c)].outcome = "ok"
        BY <1>b, <1>1, <4>1 DEF DecidedOnce
      <4>5. QED
        BY <1>b, <3>2, <4>3, <4>4, CallFacts DEF Canceled, InFlight
    <3>5. QED
      BY <3>3, <3>4
  <2>3. /\ r \in RequestType /\ r.pc = "queued" /\ r.outcome = req[q].outcome /\ req[q].accept \in BOOLEAN
        /\ entered \in PendingType /\ entered.request = q
    <3>1. r \in RequestType /\ r.pc = "queued" /\ r.outcome = req[q].outcome
      BY <1>a, RequestEdit
    <3>2. req[q] \in RequestType
      BY <1>a DEF ClientTypes
    <3>3. req[q].accept \in BOOLEAN
      BY <3>2 DEF RequestType
    <3>4. entered \in PendingType /\ entered.request = q
      BY DEF PendingType, NoPending
    <3>5. QED
      BY <3>1, <3>3, <3>4
  <2>4. /\ id' \in [Operations -> Nat] /\ id'[o] # 0
        /\ \A x \in Operations : id'[x] = id[x] \/ (x = q /\ id[x] = 0)
    <3>1. Cardinality({x \in Operations : id[x] # 0}) \in Nat
      BY OperationsFinite, FS_Subset, FS_CardinalityType
    <3>2. CASE q = o
      <4>1. id[o] = 0
        BY <1>a, <1>b, <1>1, <3>2 DEF Identified
      <4> HIDE DEF o
      <4>2. QED
        BY <1>a, <2>1, <3>1, <3>2, <4>1 DEF ClientTypes
    <3>3. CASE q # o
      <4>1. PICK c \in Calls : q = Decision(c)
        BY <3>3, RequestTypes
      <4>2. id[o] # 0
        BY <1>b, <1>1, <4>1, RequestFacts DEF Identified
      <4> HIDE DEF o
      <4>3. QED
        BY <1>a, <2>1, <3>3, <4>2 DEF ClientTypes
    <3>4. QED
      BY <3>2, <3>3
  <2>5. TransportTypes' /\ Frames'
    <3>1. q[1] \in {"bind", "call", "drop", "close", "decision"}
      BY RequestFacts
    <3>2. f \in Frame /\ f.of = q /\ f.kind = q[1]
      BY <2>3, <3>1 DEF Message, Frame, Codes
    <3>3. ClientFrames \subseteq ClientFrames' /\ f \in ClientFrames'
      <4>1. Known \subseteq Known' /\ q \in Known'
        BY <1>a, <2>4, RequestTypes DEF Known
      <4> HIDE DEF f
      <4>2. QED
        BY <3>2, <4>1 DEF ClientFrames
    <3> HIDE DEF f
    <3>4. QED
      BY <1>a, <1>1, <2>1, <3>3, ClientQueues
  <2> HIDE DEF f, entered, r
  <2>6. req' \in [Requests -> RequestType] /\ Moves(q, "queued", req[q].outcome)
    <3>1. req' \in [Requests -> RequestType] /\ Moves(q, r.pc, r.outcome)
      BY <1>a, <2>1, <2>3, RequestSet
    <3>2. QED
      BY <2>3, <3>1
  <2>7. pending' \in [Operations -> PendingType] /\ Waiting' = [Waiting EXCEPT ![o] = q]
    <3> HIDE DEF o
    <3>1. pending'[o] = entered /\ \A x \in Operations \ {o} : pending'[x] = pending[x]
      BY <1>a, <2>1 DEF ClientTypes
    <3>2. QED
      BY <1>a, <2>1, <2>3, <3>1 DEF ClientTypes, Waiting
  <2>8. Counts(pendingCount', Waiting') /\ pendingCount' \in [Lanes -> Nat]
    <3>1. Waiting \in Tables /\ pendingCount \in [Lanes -> Nat] /\ Waiting[o] = <<>>
      BY <1>a, <2>2, WaitingTable DEF Waiting
    <3> HIDE DEF o
    <3>2. QED
      BY <1>a, <2>1, <2>7, <3>1, CountsUp
  <2>9. ClientTypes'
    BY <1>a, <1>1, <2>4, <2>6, <2>7, <2>8 DEF ClientTypes
  <2>10. /\ InFlight(q)'
         /\ \A p \in Requests \ {q} : InFlight(p)' <=> InFlight(p)
    BY <1>1, <2>6 DEF InFlight, Moves
  <2>11. Pending'
    <3>1. pending'[o].request = q /\ \A x \in Operations \ {o} : pending'[x].request = pending[x].request
      BY <2>7, <1>a DEF Waiting
    <3>2. ASSUME NEW x \in Operations, x # o, pending[x].request # <<>>
          PROVE  OperationOf(pending[x].request) = x /\ InFlight(pending[x].request)' /\ pending[x].request \in Requests
      <4> DEFINE p == pending[x].request
      <4>1. p \in Requests /\ OperationOf(p) = x /\ InFlight(p)
        BY <1>b, <1>w, <3>2 DEF Pending
      <4>2. p # q
        BY <3>2, <4>1
      <4>3. pending'[x].request = p
        BY <3>1, <3>2
      <4>4. QED
        BY <1>1, <2>6, <4>1, <4>2, <4>3 DEF InFlight, Moves
    <3>3. QED
      BY <2>10, <3>1, <3>2 DEF Pending
  <2>12. Identified'
    <3>1. \A x \in Operations : req'[x].pc \in {"idle", "start"} => id'[x] = 0
      BY <1>b, <2>4, <2>6, RequestFacts DEF Identified, Moves
    <3>2. \A p \in Requests \ {q} : InFlight(p)' \/ cancel'[p] # "none" \/ req'[p].outcome = "ok" => id'[OperationOf(p)] # 0
      BY <1>b, <1>1, <2>4, <2>6, <2>10, RequestTypes DEF Identified, Moves
    <3>3. \A c \in Calls : req'[Decision(c)].pc # "idle" => id'[Call(c)] # 0
      BY <1>b, <1>1, <2>4, <2>6, RequestFacts DEF Identified, Moves
    <3>4. QED
      BY <2>4, <3>1, <3>2, <3>3 DEF Identified
  <2>13. Canceled'
    BY <1>b, <1>c, <1>1, <2>6 DEF Canceled, Moves
  <2>14. DecidedOnce'
    BY <1>b, <1>1, <2>6, CallFacts DEF DecidedOnce, Moves
  <2>15. ClosedOnce'
    BY <1>b, <1>c, <1>1, <2>6, CallFacts DEF ClosedOnce, Moves
  <2>16. RequestInv'
    BY <2>11, <2>12, <2>13, <2>14, <2>15 DEF RequestInv
  <2>17. QED
    BY <2>4, <2>5, <2>8, <2>9, <2>16, ClientStateParts
<1>4. QED
  BY <1>2, <1>3

LEMMA CancelSendKeeps ==
  ASSUME ClientState, NEW q \in Requests, CancelSend(q)
  PROVE  ClientState'
<1> DEFINE f == Message("cancel", q, "ok", FALSE)
<1>a. ClientTypes /\ RequestInv /\ Counts(pendingCount, Waiting) /\ TransportTypes /\ Frames
  BY DEF ClientState, ClientInv
<1>b. Identified
  BY <1>a DEF RequestInv
<1>1. /\ cancel[q] = "cancel" /\ cancel' = [cancel EXCEPT ![q] = "writing"]
      /\ out' = Queued("client", f)
      /\ UNCHANGED <<id, req, pending, pendingCount, operation, binding, routes, given>>
      /\ UNCHANGED <<state, protocolError, wire>>
  BY DEF CancelSend
<1>2. ClientTypes'
  BY <1>a, <1>1 DEF ClientTypes
<1>3. RequestInv'
  BY <1>a, <1>1, GoroutineKeeps DEF Leave
<1>4. TransportTypes' /\ Frames'
  <2>1. f \in Frame /\ f.of = q /\ f.kind = "cancel"
    BY DEF Message, Frame, Codes
  <2>2. q \in Known' /\ Known' = Known
    BY <1>b, <1>1 DEF Known, Identified
  <2> HIDE DEF f
  <2>3. f \in ClientFrames' /\ ClientFrames' = ClientFrames
    BY <2>1, <2>2 DEF ClientFrames
  <2>4. QED
    BY <1>a, <1>1, <2>3, ClientQueues
<1>5. QED
  BY <1>a, <1>1, <1>2, <1>3, <1>4, WaitingKept, ClientStateParts

\* The writer takes the first frame of a lane, and may put it on the wire.
LEMMA ClientWrites ==
  ASSUME TransportTypes, Frames, NEW lane \in Lanes, out["client"][lane] # <<>>,
         out' = [out EXCEPT !["client"][lane] = Tail(@)],
         \/ wire' = wire
         \/ wire' = [wire EXCEPT !["client"] = Append(@, Head(out["client"][lane]))],
         UNCHANGED <<state, protocolError, id>>
  PROVE  TransportTypes' /\ Frames' /\ Head(out["client"][lane]) \in ClientFrames
<1> DEFINE f == Head(out["client"][lane])
           row == [out["client"] EXCEPT ![lane] = Tail(out["client"][lane])]
           written == Append(wire["client"], f)
<1>1. out["client"] \in [Lanes -> Seq(Frame)] /\ out["client"][lane] \in Seq(ClientFrames)
  BY DEF TransportTypes, Sides, Frames
<1>2. f \in ClientFrames /\ Tail(out["client"][lane]) \in Seq(ClientFrames)
  BY <1>1, HeadTailProperties
<1>3. f \in Frame /\ Tail(out["client"][lane]) \in Seq(Frame)
  <2>1. out["client"][lane] \in Seq(Frame)
    BY <1>1
  <2>2. QED
    BY <2>1, HeadTailProperties
<1>4. row \in [Lanes -> Seq(Frame)] /\ \A l \in Lanes : row[l] \in Seq(ClientFrames)
  BY <1>1, <1>2, <1>3 DEF Frames
<1>5. out' = [out EXCEPT !["client"] = row]
  OBVIOUS
<1>6. wire["client"] \in Seq(Frame) /\ wire["client"] \in Seq(ClientFrames)
  BY DEF TransportTypes, Sides, Frames
<1>7. written \in Seq(Frame) /\ written \in Seq(ClientFrames)
  <2>1. written \in Seq(Frame)
    BY <1>3, <1>6, AppendProperties
  <2>2. written \in Seq(ClientFrames)
    BY <1>2, <1>6, AppendProperties
  <2>3. QED
    BY <2>1, <2>2
<1> HIDE DEF row
<1>8. out' \in [Sides -> [Lanes -> Seq(Frame)]] /\ out'["client"] = row
  BY <1>4, <1>5 DEF TransportTypes, Sides
<1>9. wire' \in [Sides -> Seq(Frame)] /\ wire'["client"] \in {wire["client"], written}
  <2>1. wire' = wire \/ wire' = [wire EXCEPT !["client"] = written]
    OBVIOUS
  <2> HIDE DEF written
  <2>2. QED
    BY <1>7, <2>1 DEF TransportTypes, Sides
<1>10. ClientFrames' = ClientFrames
  BY DEF ClientFrames, Known
<1>11. Frames'
  <2> HIDE DEF written
  <2>1. QED
    BY <1>4, <1>6, <1>7, <1>8, <1>9, <1>10 DEF Frames
<1>12. TransportTypes'
  BY <1>8, <1>9 DEF TransportTypes
<1>13. QED
  BY <1>2, <1>11, <1>12

LEMMA WriteClientKeeps ==
  ASSUME ClientState, NEW lane \in Lanes, WriteClient(lane)
  PROVE  ClientState'
<1> DEFINE f == Head(out["client"][lane])
           q == f.of
           o == OperationOf(q)
           skipped == f.kind # "cancel" /\ req[q].canceled
<1>a. ClientTypes /\ RequestInv /\ Counts(pendingCount, Waiting) /\ TransportTypes /\ Frames
  BY DEF ClientState, ClientInv
<1>1. /\ out["client"][lane] # <<>>
      /\ out' = [out EXCEPT !["client"][lane] = Tail(@)]
      /\ wire' = wire \/ wire' = [wire EXCEPT !["client"] = Append(@, f)]
      /\ UNCHANGED <<id, pending, pendingCount, binding, routes, given>>
      /\ UNCHANGED <<state, protocolError>>
  BY DEF WriteClient
<1>2. TransportTypes' /\ Frames' /\ f \in ClientFrames
  <2> HIDE DEF f
  <2>1. wire' = wire \/ wire' = [wire EXCEPT !["client"] = Append(@, Head(out["client"][lane]))]
    BY <1>1 DEF f
  <2>2. QED
    BY <1>a, <1>1, <2>1, ClientWrites DEF f
<1>3. q \in Requests /\ o \in Operations
  BY <1>2, RequestTypes DEF ClientFrames, Known
<1>4. /\ f.kind = "cancel" =>
           /\ cancel' = [cancel EXCEPT ![q] = IF @ = "writing" THEN "await" ELSE @]
           /\ UNCHANGED <<req, operation>>
      /\ f.kind # "cancel" =>
           /\ cancel' = cancel
           /\ req' = IF skipped THEN [req EXCEPT ![q].unsent = TRUE]
                                ELSE [req EXCEPT ![q].pc = IF @ = "queued" THEN "sent" ELSE @]
           /\ operation' = [operation EXCEPT ![o] = "live"] \/ operation' = operation
  BY DEF WriteClient
<1> HIDE DEF f, q, o, skipped
<1>5. operation' \in [Operations -> Lease]
  BY <1>a, <1>3, <1>4 DEF ClientTypes, Lease
<1>6. CASE f.kind = "cancel"
  <2>1. cancel' \in [Requests -> {"none", "wait", "cancel", "writing", "await", "cleanup", "end"}]
    BY <1>a, <1>3, <1>4, <1>6 DEF ClientTypes
  <2>2. ClientTypes'
    BY <1>a, <1>1, <1>4, <1>5, <1>6, <2>1 DEF ClientTypes
  <2>3. CASE cancel[q] = "writing"
    <3>1. cancel' = [cancel EXCEPT ![q] = "await"]
      BY <1>4, <1>6, <2>3
    <3>2. RequestInv'
      BY <1>a, <1>1, <1>3, <1>4, <1>6, <2>3, <3>1, GoroutineKeeps DEF Leave
    <3>3. QED
      BY <1>a, <1>1, <1>2, <2>2, <3>2, WaitingKept, ClientStateParts
  <2>4. CASE cancel[q] # "writing"
    <3>1. cancel' = cancel
      BY <1>a, <1>3, <1>4, <1>6, <2>4 DEF ClientTypes
    <3>2. RequestInv'
      BY <1>a, <1>1, <1>4, <1>6, <3>1, QuietKeeps DEF Leave
    <3>3. QED
      BY <1>a, <1>1, <1>2, <2>2, <3>2, WaitingKept, ClientStateParts
  <2>5. QED
    BY <2>3, <2>4
<1>7. CASE f.kind # "cancel"
  <2> DEFINE sends == ~skipped /\ req[q].pc = "queued"
             r == IF skipped THEN [req[q] EXCEPT !.unsent = TRUE]
                             ELSE [req[q] EXCEPT !.pc = IF @ = "queued" THEN "sent" ELSE @]
  <2>1. req' = [req EXCEPT ![q] = r]
    BY <1>4, <1>7
  <2>2. r \in RequestType /\ r.pc = (IF sends THEN "sent" ELSE req[q].pc) /\ r.outcome = req[q].outcome
    <3>1. req[q] \in RequestType
      BY <1>a, <1>3 DEF ClientTypes
    <3>2. QED
      BY <3>1 DEF RequestType
  <2> HIDE DEF r
  <2>3. req' \in [Requests -> RequestType] /\ Moves(q, r.pc, r.outcome)
    BY <1>a, <1>3, <2>1, <2>2, RequestSet
  <2>4. ClientTypes'
    BY <1>a, <1>1, <1>4, <1>5, <1>7, <2>3 DEF ClientTypes
  <2>5. RequestInv'
    <3>1. CASE sends
      <4>1. Moves(q, "sent", req[q].outcome) /\ req[q].pc = "queued"
        BY <2>2, <2>3, <3>1
      <4>2. QED
        BY <1>a, <1>1, <1>3, <1>4, <1>7, <4>1, FlightKeeps DEF Leave
    <3>2. CASE ~sends
      <4>1. \A p \in Requests : req'[p].pc = req[p].pc /\ req'[p].outcome = req[p].outcome
        BY <2>2, <2>3, <3>2 DEF Moves
      <4>2. QED
        BY <1>a, <1>1, <1>4, <1>7, <4>1, QuietKeeps DEF Leave
    <3>3. QED
      BY <3>1, <3>2
  <2>6. QED
    BY <1>a, <1>1, <1>2, <2>4, <2>5, WaitingKept, ClientStateParts
<1>8. QED
  BY <1>6, <1>7

LEMMA PushedTypes ==
  ASSUME ClientTypes, NEW q \in Requests, NEW f \in Frame
  PROVE  /\ Pushed(req, q, f) \in [Requests -> RequestType]
         /\ \A p \in Requests : Pushed(req, q, f)[p].pc = req[p].pc /\ Pushed(req, q, f)[p].outcome = req[p].outcome
<1> DEFINE told == IF Len(req[q].response) < 2 THEN Append(req[q].response, f) ELSE req[q].response
           r == [req[q] EXCEPT !.response = told]
<1>1. req[q] \in RequestType /\ req[q].response \in Seq(Frame)
  BY DEF ClientTypes, RequestType
<1>2. told \in Seq(Frame)
  BY <1>1, AppendProperties
<1>3. Pushed(req, q, f) = [req EXCEPT ![q] = r]
  BY DEF Pushed, ClientTypes
<1> HIDE DEF told
<1>4. r \in RequestType /\ r.pc = req[q].pc /\ r.outcome = req[q].outcome
  BY <1>1, <1>2 DEF RequestType
<1> HIDE DEF r
<1>5. QED
  BY <1>3, <1>4 DEF ClientTypes

LEMMA ReadClientKeeps ==
  ASSUME ClientState, ReadClient
  PROVE  ClientState'
<1> DEFINE f == Head(wire["server"])
           o == OperationOf(f.of)
           q == pending[o].request
<1>a. ClientTypes /\ RequestInv /\ Counts(pendingCount, Waiting) /\ TransportTypes /\ Frames
  BY DEF ClientState, ClientInv
<1>1. /\ wire["server"] # <<>>
      /\ wire' = [wire EXCEPT !["server"] = Tail(@)]
      /\ UNCHANGED <<id, cancel, pendingCount, operation, binding, routes, given>>
      /\ UNCHANGED <<state, out>>
  BY DEF ReadClient
<1>2. wire["server"] \in Seq(Frame) /\ f \in Frame /\ Tail(wire["server"]) \in Seq(Frame)
  <2>1. wire["server"] \in Seq(Frame)
    BY <1>a DEF TransportTypes, Sides
  <2>2. QED
    BY <1>1, <2>1, HeadTailProperties
<1>3. o \in Operations
  BY <1>2, RequestTypes DEF Frame
<1>4. protocolError' \in BOOLEAN
  BY <1>a DEF ReadClient, TransportTypes
<1>5. TransportTypes' /\ Frames'
  <2>1. wire' \in [Sides -> Seq(Frame)] /\ wire'["client"] = wire["client"]
    BY <1>a, <1>1, <1>2 DEF TransportTypes, Sides
  <2>2. QED
    BY <1>a, <1>1, <1>4, <2>1 DEF TransportTypes, Frames, ClientFrames, Known
<1>6. CASE q = <<>>
  <2>1. UNCHANGED <<req, pending>>
    BY <1>6 DEF ReadClient
  <2>2. ClientTypes'
    BY <1>a, <1>1, <2>1 DEF ClientTypes
  <2>3. RequestInv'
    BY <1>a, <1>1, <2>1, QuietKeeps DEF Leave
  <2>4. QED
    BY <1>a, <1>1, <1>5, <2>1, <2>2, <2>3, WaitingKept, ClientStateParts
<1>7. CASE q # <<>>
  <2>1. /\ pending' = [pending EXCEPT ![o].accepted = @ \/ f.kind = "accepted",
                                      ![o].terminal = @ \/ f.kind # "accepted"]
        /\ req' = Pushed(req, q, f)
    BY <1>7 DEF ReadClient
  <2>2. q \in Requests
    BY <1>a, <1>3, <1>7 DEF ClientTypes, PendingType
  <2>3. pending' \in [Operations -> PendingType] /\ \A x \in Operations : pending'[x].request = pending[x].request
    <3> DEFINE e == [pending[o] EXCEPT !.accepted = @ \/ f.kind = "accepted",
                                       !.terminal = @ \/ f.kind # "accepted"]
    <3> HIDE DEF f, o
    <3>1. pending[o] \in PendingType
      BY <1>a, <1>3 DEF ClientTypes
    <3>2. e \in PendingType /\ e.request = pending[o].request
      BY <3>1 DEF PendingType
    <3>3. pending' = [pending EXCEPT ![o] = e]
      BY <1>a, <1>3, <2>1 DEF ClientTypes
    <3> HIDE DEF e
    <3>4. QED
      BY <1>a, <1>3, <3>2, <3>3 DEF ClientTypes
  <2> HIDE DEF f, o, q
  <2>4. /\ req' \in [Requests -> RequestType]
        /\ \A p \in Requests : req'[p].pc = req[p].pc /\ req'[p].outcome = req[p].outcome
    BY <1>a, <1>2, <2>1, <2>2, PushedTypes
  <2>5. ClientTypes'
    BY <1>a, <1>1, <2>3, <2>4 DEF ClientTypes
  <2>6. RequestInv'
    BY <1>a, <1>1, <2>3, <2>4, QuietKeeps DEF Leave
  <2>7. QED
    BY <1>a, <1>1, <1>5, <2>3, <2>5, <2>6, WaitingKept, ClientStateParts
<1>8. QED
  BY <1>6, <1>7

\* Everybody who waits for an operation that is over is told.
LEMMA ToldTypes ==
  ASSUME ClientTypes, NEW told \in SUBSET Requests,
         req' = [q \in Requests |-> IF q \in told THEN Pushed(req, q, Unavailable(q))[q] ELSE req[q]]
  PROVE  /\ req' \in [Requests -> RequestType]
         /\ \A p \in Requests : req'[p].pc = req[p].pc /\ req'[p].outcome = req[p].outcome
<1>1. ASSUME NEW q \in Requests
      PROVE  req'[q] \in RequestType /\ req'[q].pc = req[q].pc /\ req'[q].outcome = req[q].outcome
  <2>1. Unavailable(q) \in Frame
    BY DEF Unavailable, Message, Frame, Codes
  <2>2. /\ Pushed(req, q, Unavailable(q))[q] \in RequestType
        /\ Pushed(req, q, Unavailable(q))[q].pc = req[q].pc
        /\ Pushed(req, q, Unavailable(q))[q].outcome = req[q].outcome
    BY <2>1, PushedTypes
  <2>3. req[q] \in RequestType
    BY DEF ClientTypes
  <2>4. QED
    BY <2>2, <2>3
<1>2. QED
  BY <1>1

LEMMA ClientExpiresKeeps ==
  ASSUME ClientState, ClientExpires
  PROVE  ClientState'
<1> DEFINE over == {o \in Operations : operation[o] = "lapsed"}
           told == {o \in over : pending[o].request # <<>> /\ ~pending[o].terminal}
           whose == {q \in Requests : OperationOf(q) \in told /\ pending[OperationOf(q)].request = q}
<1>a. ClientTypes /\ RequestInv /\ Counts(pendingCount, Waiting)
  BY DEF ClientState, ClientInv
<1>1. /\ operation' = [o \in Operations |-> IF o \in over THEN "none" ELSE operation[o]]
      /\ req' = [q \in Requests |->
                   IF OperationOf(q) \in told /\ pending[OperationOf(q)].request = q
                   THEN Pushed(req, q, Unavailable(q))[q] ELSE req[q]]
      /\ pending' = [o \in Operations |-> IF o \in told THEN NoPending ELSE pending[o]]
      /\ pendingCount' = [lane \in Lanes |->
              pendingCount[lane] - Cardinality({o \in told : CountedAs(pending[o].request) = lane})]
      /\ UNCHANGED <<id, cancel, given>>
      /\ UNCHANGED <<state, protocolError, transport>>
  BY DEF ClientExpires
<1>2. /\ routes' = routes \/ (routes = "open" /\ routes' = "disconnect")
      /\ binding' \in Lease
  BY <1>a DEF ClientExpires, Disconnected, ClientTypes, Lease
<1>3. told \in SUBSET Operations /\ (\A o \in told : Waiting[o] # <<>>) /\ whose \in SUBSET Requests
  BY DEF Waiting
<1> HIDE DEF told
<1>4. /\ req' \in [Requests -> RequestType]
      /\ \A p \in Requests : req'[p].pc = req[p].pc /\ req'[p].outcome = req[p].outcome
  <2>1. req' = [q \in Requests |-> IF q \in whose THEN Pushed(req, q, Unavailable(q))[q] ELSE req[q]]
    BY <1>1
  <2> HIDE DEF whose
  <2>2. QED
    BY <1>a, <1>3, <2>1, ToldTypes
<1>5. pending' \in [Operations -> PendingType] /\ Leave
  BY <1>a, <1>1 DEF ClientTypes, PendingType, NoPending, Leave
<1>6. Counts(pendingCount', Waiting') /\ pendingCount' \in [Lanes -> Nat]
  <2>1. Waiting' = [o \in Operations |-> IF o \in told THEN <<>> ELSE Waiting[o]]
    BY <1>a, <1>1 DEF Waiting, NoPending
  <2>2. pendingCount' = [lane \in Lanes |-> pendingCount[lane] - Cardinality({o \in told : CountedAs(Waiting[o]) = lane})]
    <3>1. \A o \in told : Waiting[o] = pending[o].request
      BY <1>3 DEF Waiting
    <3>2. \A lane \in Lanes : {o \in told : CountedAs(pending[o].request) = lane} = {o \in told : CountedAs(Waiting[o]) = lane}
      BY <3>1
    <3>3. QED
      BY <1>1, <3>2
  <2>3. QED
    BY <1>a, <1>3, <2>1, <2>2, WaitingTable, CountsDrop
<1>7. operation' \in [Operations -> Lease]
  BY <1>a, <1>1 DEF ClientTypes, Lease
<1>8. ClientTypes'
  BY <1>a, <1>1, <1>2, <1>4, <1>5, <1>6, <1>7 DEF ClientTypes
<1>9. RequestInv'
  BY <1>a, <1>1, <1>2, <1>4, <1>5, QuietKeeps
<1>10. QED
  BY <1>1, <1>6, <1>8, <1>9, ClientParts

\* No operation is left in a table.
LEMMA CountsNone == 
  ASSUME NEW table, \A o \in Operations : table[o] = <<>>,
         NEW counter, counter = [lane \in Lanes |-> 0]
  PROVE  Counts(counter, table) /\ counter \in [Lanes -> Nat]
<1>1. \A lane : InLane(table, lane) = {}
  BY DEF InLane
<1>2. QED
  BY <1>1, FS_EmptySet DEF Counts

\* A failed side forgets the frames it has not written.
LEMMA FailedTransport ==
  ASSUME TransportTypes, Frames, NEW side \in Sides,
         state' = [state EXCEPT ![side] = "closing"],
         out' = [out EXCEPT ![side] = [lane \in Lanes |-> <<>>]],
         UNCHANGED <<protocolError, wire, id>>
  PROVE  TransportTypes' /\ Frames'
<1>1. /\ <<>> \in Seq(Frame) /\ <<>> \in Seq(ClientFrames)
  BY EmptySeq
<1>2. [lane \in Lanes |-> <<>>] \in [Lanes -> Seq(Frame)]
  BY <1>1
<1>3. state' \in [Sides -> {"open", "closing", "closed"}] /\ out' \in [Sides -> [Lanes -> Seq(Frame)]]
  BY <1>2 DEF TransportTypes
<1>4. \A lane \in Lanes : out'["client"][lane] \in Seq(ClientFrames)
  BY <1>1 DEF TransportTypes, Sides, Frames
<1>5. ClientFrames' = ClientFrames
  BY DEF ClientFrames, Known
<1>6. QED
  BY <1>3, <1>4, <1>5 DEF TransportTypes, Frames

LEMMA FailClientKeeps ==
  ASSUME ClientState, FailClient
  PROVE  ClientState'
<1> DEFINE whose == {q \in Requests : pending[OperationOf(q)].request = q}
<1>a. ClientTypes /\ RequestInv /\ Counts(pendingCount, Waiting) /\ TransportTypes /\ Frames
  BY DEF ClientState, ClientInv
<1>1. /\ state' = [state EXCEPT !["client"] = "closing"]
      /\ out' = [out EXCEPT !["client"] = [lane \in Lanes |-> <<>>]]
      /\ req' = [q \in Requests |-> IF q \in whose THEN Pushed(req, q, Unavailable(q))[q] ELSE req[q]]
      /\ pending' = [o \in Operations |-> NoPending]
      /\ pendingCount' = [lane \in Lanes |-> 0]
      /\ operation' = [o \in Operations |-> "none"]
      /\ binding' = "none"
      /\ UNCHANGED <<protocolError, wire, id, cancel, given>>
  BY DEF FailClient
<1>2. routes' = routes \/ (routes = "open" /\ routes' = "disconnect")
  BY DEF FailClient, Disconnected
<1>3. whose \in SUBSET Requests
  OBVIOUS
<1> HIDE DEF whose
<1>4. /\ req' \in [Requests -> RequestType]
      /\ \A p \in Requests : req'[p].pc = req[p].pc /\ req'[p].outcome = req[p].outcome
  BY <1>a, <1>1, <1>3, ToldTypes
<1>5. pending' \in [Operations -> PendingType] /\ Leave /\ \A o \in Operations : Waiting'[o] = <<>>
  BY <1>1, NoRequestIsEmpty DEF ClientTypes, PendingType, NoPending, Leave, Waiting
<1>6. Counts(pendingCount', Waiting') /\ pendingCount' \in [Lanes -> Nat]
  BY <1>1, <1>5, CountsNone
<1>7. ClientTypes'
  BY <1>a, <1>1, <1>2, <1>4, <1>5, <1>6 DEF ClientTypes, Lease
<1>8. RequestInv'
  BY <1>a, <1>1, <1>2, <1>4, <1>5, QuietKeeps
<1>9. TransportTypes' /\ Frames'
  BY <1>a, <1>1, FailedTransport DEF Sides
<1>10. QED
  BY <1>6, <1>7, <1>8, <1>9, ClientStateParts

\* The steps of the client, but for the identifiers they take.
LEMMA ClientStepKeeps ==
  ASSUME ClientState, ClientStep
  PROVE  ClientState' /\ \A x \in Operations : id'[x] = id[x] \/ id[x] = 0
<1>1. ASSUME NEW q \in Requests, RequestStep(q)
      PROVE  ClientState' /\ \A x \in Operations : id'[x] = id[x] \/ id[x] = 0
  <2>1. CASE EnqueueRequest(q)
    BY <2>1, EnqueueRequestKeeps
  <2>2. CASE RequestUnsent(q)
    BY <2>2, RequestUnsentKeeps DEF RequestUnsent
  <2>3. CASE RequestReply(q)
    BY <2>3, RequestReplyKeeps DEF RequestReply
  <2>4. CASE CancelRequest(q)
    BY <2>4, CancelRequestKeeps DEF CancelRequest
  <2>5. CASE CancelGivesUp(q)
    BY <2>5, CancelGivesUpKeeps DEF CancelGivesUp
  <2>6. CASE CancelSend(q)
    BY <2>6, CancelSendKeeps DEF CancelSend
  <2>7. CASE CancelReply(q)
    BY <2>7, CancelReplyKeeps DEF CancelReply
  <2>8. CASE CancelCleaned(q)
    BY <2>8, CancelCleanedKeeps DEF CancelCleaned
  <2>9. CASE ControlReturns(q)
    BY <2>9, ControlReturnsKeeps DEF ControlReturns
  <2>10. QED
    BY <1>1, <2>1, <2>2, <2>3, <2>4, <2>5, <2>6, <2>7, <2>8, <2>9 DEF RequestStep
<1>2. ASSUME NEW confirmed \in BOOLEAN, BindReturns(confirmed)
      PROVE  ClientState' /\ id' = id
  BY <1>2, BindReturnsKeeps DEF BindReturns
<1>3. ASSUME NEW c \in Calls,
             \/ CallReturns(c) \/ DecisionReturns(c) \/ RoutesCancel(c) \/ RoutesDiscard(c)
             \/ \E accept \in BOOLEAN : Decide(c, accept)
      PROVE  ClientState' /\ id' = id
  <2>1. CASE CallReturns(c)
    BY <2>1, CallReturnsKeeps DEF CallReturns
  <2>2. CASE DecisionReturns(c)
    BY <2>2, DecisionReturnsKeeps DEF DecisionReturns
  <2>3. CASE RoutesCancel(c)
    BY <2>3, CallFacts, ContextKeeps DEF RoutesCancel
  <2>4. CASE RoutesDiscard(c)
    BY <2>4, DecideKeeps DEF RoutesDiscard
  <2>5. ASSUME NEW accept \in BOOLEAN, Decide(c, accept) PROVE ClientState' /\ id' = id
    BY <2>5, DecideKeeps DEF Decide
  <2>6. QED
    BY <1>3, <2>1, <2>2, <2>3, <2>4, <2>5
<1>4. CASE RoutesFinish
  BY <1>4, RoutesFinishKeeps DEF RoutesFinish
<1>5. CASE ClientExpires
  BY <1>5, ClientExpiresKeeps DEF ClientExpires
<1>6. QED
  BY <1>1, <1>2, <1>3, <1>4, <1>5 DEF ClientStep

-----------------------------------------------------------------------------
(* The server                                                              *)

ServerState == ServerTypes /\ ServerInv

\* The steps of the server leave the client alone, but for what is in flight.
LEMMA ClientIdle ==
  ASSUME ClientState, UNCHANGED client, TransportTypes', Frames'
  PROVE  ClientState'
<1>1. /\ UNCHANGED <<id, req, cancel, pending, pendingCount, operation, binding, routes, given>>
      /\ ClientTypes /\ RequestInv /\ Counts(pendingCount, Waiting)
  BY DEF client, ClientState, ClientInv
<1>2. ClientTypes'
  BY <1>1 DEF ClientTypes
<1>3. RequestInv'
  BY <1>1, QuietKeeps DEF Leave
<1>4. QED
  BY <1>1, <1>2, <1>3, WaitingKept, ClientStateParts

LEMMA ServerTransport ==
  ASSUME TransportTypes, Frames,
         out' = out \/ \E f \in Frame : out' = Queued("server", f),
         wire' = wire \/ (wire["client"] # <<>> /\ wire' = [wire EXCEPT !["client"] = Tail(@)]),
         protocolError' \in BOOLEAN, state' = state, id' = id
  PROVE  TransportTypes' /\ Frames'
<1>1. out' \in [Sides -> [Lanes -> Seq(Frame)]] /\ out'["client"] = out["client"]
  <2>1. CASE out' = out
    BY <2>1 DEF TransportTypes
  <2>2. ASSUME NEW f \in Frame, out' = Queued("server", f)
        PROVE  out' \in [Sides -> [Lanes -> Seq(Frame)]] /\ out'["client"] = out["client"]
    <3> DEFINE lane == LaneOf(f.kind)
               row == [out["server"] EXCEPT ![lane] = Append(out["server"][lane], f)]
    <3>1. lane \in Lanes /\ out["server"] \in [Lanes -> Seq(Frame)]
      BY DEF LaneOf, Lanes, TransportTypes, Sides
    <3>2. Append(out["server"][lane], f) \in Seq(Frame)
      BY <3>1, AppendProperties
    <3>3. row \in [Lanes -> Seq(Frame)]
      BY <3>1, <3>2
    <3>4. out' = [out EXCEPT !["server"] = row]
      BY <2>2 DEF Queued
    <3> HIDE DEF row
    <3>5. QED
      BY <3>3, <3>4 DEF TransportTypes, Sides
  <2>3. QED
    BY <2>1, <2>2
<1>2. wire' \in [Sides -> Seq(Frame)] /\ wire'["client"] \in Seq(ClientFrames)
  <2>1. CASE wire' = wire
    BY <2>1 DEF TransportTypes, Frames
  <2>2. CASE wire["client"] # <<>> /\ wire' = [wire EXCEPT !["client"] = Tail(@)]
    <3> DEFINE rest == Tail(wire["client"])
    <3>1. wire["client"] \in Seq(Frame) /\ wire["client"] \in Seq(ClientFrames)
      BY DEF TransportTypes, Sides, Frames
    <3>2. rest \in Seq(Frame)
      BY <2>2, <3>1, HeadTailProperties
    <3>3. rest \in Seq(ClientFrames)
      BY <2>2, <3>1, HeadTailProperties
    <3>4. wire' = [wire EXCEPT !["client"] = rest]
      BY <2>2
    <3> HIDE DEF rest
    <3>5. QED
      BY <3>2, <3>3, <3>4 DEF TransportTypes, Sides
  <2>3. QED
    BY <2>1, <2>2
<1>3. ClientFrames' = ClientFrames
  BY DEF ClientFrames, Known
<1>4. QED
  BY <1>1, <1>2, <1>3 DEF TransportTypes, Frames

-----------------------------------------------------------------------------
(* Dispatches and their reservations                                       *)

\* What an action makes of one dispatch.
Goes(q, pc, holds) ==
    /\ disp'[q].pc = pc /\ disp'[q].holds = holds
    /\ \A p \in Requests \ {q} : disp'[p].pc = disp[p].pc /\ disp'[p].holds = disp[p].holds

\* Operations at most leave the table of active requests.
Over == \A o \in Operations : active'[o] \in {<<>>, active[o]}

Holders == {c \in Calls : disp[Call(c)].holds}

LEMMA DispatchSet ==
  ASSUME ServerTypes, NEW q \in Requests, NEW r \in DispatchType, disp' = [disp EXCEPT ![q] = r]
  PROVE  disp' \in [Requests -> DispatchType] /\ Goes(q, r.pc, r.holds)
  BY DEF ServerTypes, Goes

\* A dispatch moves on.
LEMMA DispatchEdit ==
  ASSUME ServerTypes, NEW q \in Requests,
         NEW pc \in {"admit", "run", "handler", "offer", "deciding", "decided", "abort", "reply", "finish", "end"}
  PROVE  /\ [disp[q] EXCEPT !.pc = pc] \in DispatchType
         /\ [disp[q] EXCEPT !.pc = pc].pc = pc
         /\ [disp[q] EXCEPT !.pc = pc].holds = disp[q].holds
<1>1. disp[q] \in DispatchType
  BY DEF ServerTypes
<1>2. QED
  BY <1>1 DEF DispatchType

\* Dispatches whose request is over are cancelled.
LEMMA DispatchesCanceled ==
  ASSUME ServerTypes, NEW whose \in SUBSET Requests,
         disp' = [q \in Requests |-> IF q \in whose THEN [disp[q] EXCEPT !.canceled = TRUE] ELSE disp[q]]
  PROVE  /\ disp' \in [Requests -> DispatchType]
         /\ \A p \in Requests : disp'[p].pc = disp[p].pc /\ disp'[p].holds = disp[p].holds
<1>1. ASSUME NEW q \in Requests
      PROVE  disp'[q] \in DispatchType /\ disp'[q].pc = disp[q].pc /\ disp'[q].holds = disp[q].holds
  <2> DEFINE r == [disp[q] EXCEPT !.canceled = TRUE]
  <2>1. disp[q] \in DispatchType
    BY DEF ServerTypes
  <2>2. r \in DispatchType /\ r.pc = disp[q].pc /\ r.holds = disp[q].holds
    BY <2>1 DEF DispatchType
  <2>3. disp'[q] = r \/ disp'[q] = disp[q]
    OBVIOUS
  <2> HIDE DEF r
  <2>4. QED
    BY <2>1, <2>2, <2>3
<1>2. QED
  BY <1>1

LEMMA ReplyTypes ==
  ASSUME ServerTypes, NEW q \in Requests, NEW code \in Codes, NEW release \in BOOLEAN,
         Reply(q, code, release)
  PROVE  /\ disp' \in [Requests -> DispatchType]
         /\ release => Goes(q, "reply", FALSE)
         /\ ~release => Goes(q, "reply", disp[q].holds)
         /\ out' = out \/ \E f \in Frame : out' = Queued("server", f)
<1> DEFINE r == [disp[q] EXCEPT !.pc = "reply", !.code = code, !.holds = @ /\ ~release]
<1>1. disp[q] \in DispatchType
  BY DEF ServerTypes
<1>2. /\ r \in DispatchType /\ r.pc = "reply"
      /\ (release => r.holds = FALSE) /\ (~release => r.holds = disp[q].holds)
  BY <1>1 DEF DispatchType
<1>3. disp' = [disp EXCEPT ![q] = r]
  BY DEF Reply, ServerTypes
<1>4. Message(ReplyKind(q), q, code, FALSE) \in Frame
  BY DEF Message, ReplyKind, Frame
<1>5. out' = out \/ \E f \in Frame : out' = Queued("server", f)
  BY <1>4 DEF Reply
<1> HIDE DEF r
<1>6. QED
  BY <1>2, <1>3, <1>5, DispatchSet

LEMMA SeenKeeps ==
  ASSUME Seen, Over, \A o \in Operations : disp[o].pc = "idle" => disp'[o].pc = "idle",
         id' = id, peerID' = peerID
  PROVE  Seen'
  BY DEF Seen, Over

Early == {"admit", "run", "handler", "offer"}

\* A dispatch goes on with its reservation.
LEMMA ReservedKeeps ==
  ASSUME Reserved, \A p \in Requests : disp'[p].holds = disp[p].holds, reserved' = reserved,
         NEW q \in Requests, \A p \in Requests \ {q} : disp'[p].pc = disp[p].pc,
         disp'[q].pc \notin {"idle", "end"} \/ disp'[q].pc = disp[q].pc,
         disp'[q].pc \in Early => disp[q].pc \in Early
  PROVE  Reserved'
<1>1. \A p \in Requests : disp'[p].holds => disp'[p].pc \notin {"idle", "end"} /\ (p = Bind \/ p[1] = "call")
  BY DEF Reserved
<1>2. \A c \in Calls : disp'[Call(c)].pc \in Early => disp'[Call(c)].holds
  BY CallFacts DEF Reserved, Early
<1>3. {c \in Calls : disp'[Call(c)].holds} = {c \in Calls : disp[Call(c)].holds}
  BY CallFacts
<1>4. disp'[Bind].holds = disp[Bind].holds
  BY CallFacts
<1>5. QED
  BY <1>1, <1>2, <1>3, <1>4 DEF Reserved, Early

LEMMA HoldersFinite == IsFiniteSet(Holders) /\ Cardinality(Holders) \in Nat
  BY EndpointAssumption, FS_Subset, FS_CardinalityType DEF Holders

LEMMA ReservedParts ==
  ASSUME \A p \in Requests : disp'[p].holds => disp'[p].pc \notin {"idle", "end"} /\ (p = Bind \/ p[1] = "call"),
         \A c \in Calls : disp'[Call(c)].pc \in Early => disp'[Call(c)].holds,
         reserved'.results = Cardinality(Holders'),
         reserved'.inbound = (IF disp'[Bind].holds THEN 1 ELSE 0)
  PROVE  Reserved'
  BY DEF Reserved, Holders, Early

\* A dispatch gives its reservation back, if it has one.
LEMMA ReservedReturns ==
  ASSUME Reserved, ServerTypes, NEW q \in Requests, NEW pc, Goes(q, pc, FALSE), pc \notin Early,
         reserved' = Unreserved(q)
  PROVE  Reserved' /\ reserved' \in [inbound : Nat, results : Nat] /\ reserved'.results <= reserved.results
<1>1. \A p \in Requests : disp'[p].holds => disp'[p].pc \notin {"idle", "end"} /\ (p = Bind \/ p[1] = "call")
  BY DEF Reserved, Goes
<1>2. \A c \in Calls : disp'[Call(c)].pc \in Early => disp'[Call(c)].holds
  BY CallFacts DEF Reserved, Early, Goes
<1>3. \A p \in Requests : disp[p].holds \in BOOLEAN
  BY DEF ServerTypes, DispatchType
<1>4. /\ reserved \in [inbound : Nat, results : Nat]
      /\ reserved.results = Cardinality(Holders)
      /\ reserved.inbound = (IF disp[Bind].holds THEN 1 ELSE 0)
  BY DEF Reserved, Holders, ServerTypes
<1>5. CASE ~disp[q].holds
  <2>1. \A p \in Requests : disp'[p].holds = disp[p].holds
    BY <1>3, <1>5 DEF Goes
  <2>2. Holders' = Holders /\ disp'[Bind].holds = disp[Bind].holds
    BY <2>1, CallFacts DEF Holders
  <2>3. reserved' = reserved
    BY <1>5 DEF Unreserved
  <2>4. reserved'.results = Cardinality(Holders')
    BY <1>4, <2>2, <2>3
  <2>5. reserved'.inbound = (IF disp'[Bind].holds THEN 1 ELSE 0)
    BY <1>4, <2>2, <2>3
  <2>6. QED
    BY <1>1, <1>2, <1>4, <2>3, <2>4, <2>5, ReservedParts
<1>6. CASE disp[q].holds /\ q = Bind
  <2>1. Holders' = Holders
    BY <1>6, CallFacts DEF Goes, Holders
  <2>2. ~disp'[Bind].holds
    BY <1>6 DEF Goes
  <2>3. reserved' = [reserved EXCEPT !.inbound = @ - 1]
    BY <1>6 DEF Unreserved
  <2>4. reserved'.results = reserved.results /\ reserved'.inbound = 0 /\ reserved' \in [inbound : Nat, results : Nat]
    BY <1>4, <1>6, <2>3
  <2>5. reserved'.results = Cardinality(Holders')
    BY <1>4, <2>1, <2>4
  <2>6. reserved'.inbound = (IF disp'[Bind].holds THEN 1 ELSE 0)
    BY <2>2, <2>4
  <2>7. reserved'.results <= reserved.results
    BY <1>4, <2>4
  <2>8. QED
    BY <1>1, <1>2, <2>4, <2>5, <2>6, <2>7, ReservedParts
<1>7. CASE disp[q].holds /\ q # Bind
  <2>1. PICK c \in Calls : q = Call(c)
    BY <1>7, RequestTypes DEF Reserved
  <2>2. c \in Holders /\ Holders' = Holders \ {c}
    BY <1>7, <2>1, CallFacts DEF Goes, Holders
  <2>3. Cardinality(Holders') = Cardinality(Holders) - 1 /\ Cardinality(Holders') \in Nat
    <3>1. Cardinality(Holders') = Cardinality(Holders) - 1
      BY <2>2, HoldersFinite, FS_RemoveElement
    <3>2. IsFiniteSet(Holders \ {c})
      BY HoldersFinite, FS_Subset
    <3>3. QED
      BY <2>2, <3>1, <3>2, FS_CardinalityType
  <2>4. reserved' = [reserved EXCEPT !.results = @ - 1]
    BY <1>7 DEF Unreserved
  <2>5. /\ reserved'.results = reserved.results - 1 /\ reserved'.results = Cardinality(Holders')
        /\ reserved'.inbound = reserved.inbound /\ reserved' \in [inbound : Nat, results : Nat]
    BY <1>4, <2>3, <2>4
  <2>6. disp'[Bind].holds = disp[Bind].holds
    BY <1>7, CallFacts DEF Goes
  <2>7. QED
    BY <1>1, <1>2, <1>4, <2>5, <2>6, ReservedParts
<1>8. QED
  BY <1>5, <1>6, <1>7

LEMMA EntriesFinite == IsFiniteSet(Entries) /\ Cardinality(Entries) \in Nat
  BY EndpointAssumption, FS_Subset, FS_CardinalityType DEF Entries

LEMMA BoundKeeps ==
  ASSUME ResultsBounded, Entries' \subseteq Entries, Open("server")' => Open("server"),
         reserved \in [inbound : Nat, results : Nat], reserved' \in [inbound : Nat, results : Nat],
         reserved'.results <= reserved.results
  PROVE  ResultsBounded'
<1>1. Cardinality(Entries') <= Cardinality(Entries) /\ Cardinality(Entries') \in Nat
  <2>1. IsFiniteSet(Entries')
    BY EntriesFinite, FS_Subset
  <2>2. QED
    BY <2>1, EntriesFinite, FS_Subset, FS_CardinalityType
<1>2. MaxPendingResults \in Nat
  BY EndpointAssumption
<1>3. QED
  BY <1>1, <1>2, EntriesFinite DEF ResultsBounded

\* finish()
LEMMA ActiveFinished ==
  ASSUME ServerTypes, Counts(activeCount, active), NEW o \in Operations,
         active' = Finished(o), activeCount' = CountFinished(o)
  PROVE  /\ Counts(activeCount', active') /\ Over
         /\ activeCount' \in [Lanes -> Nat] /\ active' \in [Operations -> Requests \cup {<<>>}]
<1>1. active \in Tables /\ activeCount \in [Lanes -> Nat]
  BY DEF ServerTypes, Tables
<1>2. activeCount' = IF active[o] = <<>> THEN activeCount ELSE Count(activeCount, active[o], "down")
  BY DEF CountFinished
<1>3. active' = [active EXCEPT ![o] = <<>>]
  BY DEF Finished
<1>4. Counts(activeCount', active') /\ activeCount' \in [Lanes -> Nat]
  <2>1. Counts(activeCount', [active EXCEPT ![o] = <<>>]) /\ activeCount' \in [Lanes -> Nat]
    BY <1>1, <1>2, CountsDown
  <2>2. QED
    BY <1>3, <2>1
<1>5. active' \in [Operations -> Requests \cup {<<>>}] /\ Over
  BY <1>1, <1>3 DEF Tables, Over
<1>6. QED
  BY <1>4, <1>5

LEMMA CountsKept ==
  ASSUME Counts(activeCount, active), UNCHANGED <<active, activeCount>>
  PROVE  Counts(activeCount', active') /\ Over
  BY DEF Counts, InLane, Over

LEMMA ServerParts ==
  ASSUME ServerTypes', Seen', Reserved', ResultsBounded', Counts(activeCount', active')
  PROVE  ServerState'
  BY DEF ServerState, ServerInv, Counts, InLane

\* The steps of the client leave the server alone, but for the identifiers they take.
LEMMA ServerIdle ==
  ASSUME ServerState, UNCHANGED server, Open("server")' => Open("server"),
         \A x \in Operations : id'[x] = id[x] \/ id[x] = 0
  PROVE  ServerState'
<1>a. ServerTypes /\ Seen /\ Reserved /\ ResultsBounded /\ Counts(activeCount, active)
  BY DEF ServerState, ServerInv
<1>1. UNCHANGED <<peerID, active, activeCount, reserved, disp, held, entry, lease, served, fate>>
  BY DEF server
<1>2. ServerTypes'
  BY <1>a, <1>1 DEF ServerTypes
<1>3. Seen'
  BY <1>a, <1>1 DEF Seen
<1>4. Reserved'
  BY <1>a, <1>1 DEF Reserved
<1>5. Entries' = Entries
  BY <1>1 DEF Entries
<1>6. ResultsBounded'
  BY <1>a, <1>1, <1>5 DEF ResultsBounded
<1>7. QED
  BY <1>a, <1>1, <1>2, <1>3, <1>4, <1>6, CountsKept, ServerParts

-----------------------------------------------------------------------------
(* The steps of the server                                                 *)

Connection == TransportTypes /\ Frames

\* A dispatch goes on with its reservation, or without a change.
LEMMA Proceeds ==
  ASSUME ServerState, ServerTypes', NEW q \in Requests, NEW pc, Goes(q, pc, disp[q].holds),
         pc = disp[q].pc \/ (disp[q].pc # "idle" /\ pc \notin {"idle", "end"}),
         pc \in Early => disp[q].pc \in Early,
         UNCHANGED <<id, peerID, reserved, active, activeCount>>,
         Entries' \subseteq Entries, Open("server")' => Open("server")
  PROVE  ServerState'
<1>a. ServerTypes /\ Seen /\ Reserved /\ ResultsBounded /\ Counts(activeCount, active)
  BY DEF ServerState, ServerInv
<1>1. Counts(activeCount', active') /\ Over
  BY <1>a, CountsKept
<1>2. Seen'
  <2>1. \A o \in Operations : disp[o].pc = "idle" => disp'[o].pc = "idle"
    BY RequestFacts DEF Goes
  <2>2. QED
    BY <1>a, <1>1, <2>1, SeenKeeps
<1>3. Reserved'
  BY <1>a, ReservedKeeps DEF Goes
<1>4. ResultsBounded'
  BY <1>a, BoundKeeps DEF ServerTypes
<1>5. QED
  BY <1>1, <1>2, <1>3, <1>4, ServerParts

\* A dispatch goes on, and gives its reservation back.
LEMMA Returns ==
  ASSUME ServerState, NEW q \in Requests, NEW pc, Goes(q, pc, FALSE),
         disp[q].pc # "idle", pc \notin Early, reserved' = Unreserved(q),
         reserved' \in [inbound : Nat, results : Nat] => ServerTypes',
         Counts(activeCount', active') /\ Over,
         UNCHANGED <<id, peerID>>,
         Entries' \subseteq Entries, Open("server")' => Open("server")
  PROVE  ServerState'
<1>a. ServerTypes /\ Seen /\ Reserved /\ ResultsBounded
  BY DEF ServerState, ServerInv
<1>1. Reserved' /\ reserved' \in [inbound : Nat, results : Nat] /\ reserved'.results <= reserved.results
  BY <1>a, ReservedReturns
<1>2. Seen'
  <2>1. \A o \in Operations : disp[o].pc = "idle" => disp'[o].pc = "idle"
    BY RequestFacts DEF Goes
  <2>2. QED
    BY <1>a, <2>1, SeenKeeps
<1>3. ResultsBounded'
  BY <1>a, <1>1, BoundKeeps DEF ServerTypes
<1>4. QED
  BY <1>1, <1>2, <1>3, ServerParts

\* Dispatches are cancelled, leases end and results retire: nothing is dispatched or
\* given back.
LEMMA Notes ==
  ASSUME ServerState, ServerTypes',
         \A p \in Requests : disp'[p].pc = disp[p].pc /\ disp'[p].holds = disp[p].holds,
         UNCHANGED <<id, peerID, reserved, active, activeCount>>,
         Entries' \subseteq Entries, Open("server")' => Open("server")
  PROVE  ServerState'
<1>1. Bind \in Requests /\ Goes(Bind, disp[Bind].pc, disp[Bind].holds)
  BY CallFacts DEF Goes
<1>2. QED
  BY <1>1, Proceeds

LEMMA WriteServerKeeps ==
  ASSUME ServerState, Connection, NEW lane \in Lanes, WriteServer(lane)
  PROVE  ServerState' /\ Connection'
<1> DEFINE f == Head(out["server"][lane])
           q == f.of
           pc == CASE disp[q].pc = "admit" -> "run"
                   [] disp[q].pc = "reply" -> "finish"
                   [] OTHER -> disp[q].pc
           r == [disp[q] EXCEPT !.pc = pc]
           row == [out["server"] EXCEPT ![lane] = Tail(out["server"][lane])]
           written == Append(wire["server"], f)
<1>a. ServerTypes /\ TransportTypes /\ Frames
  BY DEF ServerState, Connection
<1>1. /\ out["server"][lane] # <<>>
      /\ out' = [out EXCEPT !["server"] = row]
      /\ wire' = [wire EXCEPT !["server"] = written]
      /\ disp' = [disp EXCEPT ![q] = r]
      /\ UNCHANGED <<peerID, active, activeCount, reserved, held, entry, lease, served, fate>>
      /\ UNCHANGED <<state, protocolError, id>>
  <2>1. disp' = [disp EXCEPT ![q].pc = pc] /\ q = f.of
    BY DEF WriteServer
  <2> HIDE DEF q, pc
  <2>2. disp' = [disp EXCEPT ![q] = r]
    BY <2>1
  <2>3. QED
    BY <2>2 DEF WriteServer, client
<1>2. out["server"] \in [Lanes -> Seq(Frame)] /\ wire["server"] \in Seq(Frame)
  BY <1>a DEF TransportTypes, Sides
<1>3. f \in Frame /\ Tail(out["server"][lane]) \in Seq(Frame)
  BY <1>1, <1>2, HeadTailProperties
<1>4. row \in [Lanes -> Seq(Frame)] /\ written \in Seq(Frame) /\ q \in Requests
  <2>1. written \in Seq(Frame)
    BY <1>2, <1>3, AppendProperties
  <2>2. row \in [Lanes -> Seq(Frame)]
    BY <1>2, <1>3
  <2>3. QED
    BY <1>3, <2>1, <2>2 DEF Frame
<1> HIDE DEF row, written, f, q
<1>5. /\ out' \in [Sides -> [Lanes -> Seq(Frame)]] /\ out'["client"] = out["client"]
      /\ wire' \in [Sides -> Seq(Frame)] /\ wire'["client"] = wire["client"]
  BY <1>a, <1>1, <1>4 DEF TransportTypes, Sides
<1>6. TransportTypes' /\ Frames'
  BY <1>a, <1>1, <1>5 DEF TransportTypes, Frames, ClientFrames, Known
<1>7. disp[q] \in DispatchType
  BY <1>a, <1>4 DEF ServerTypes
<1>8. /\ pc \in {"idle", "admit", "run", "handler", "offer", "deciding", "decided", "abort", "reply", "finish", "end"}
      /\ pc = disp[q].pc \/ (disp[q].pc # "idle" /\ pc \notin {"idle", "end"})
      /\ pc \in Early => disp[q].pc \in Early
  BY <1>7 DEF DispatchType, Early
<1> HIDE DEF pc
<1>9. r \in DispatchType /\ r.pc = pc /\ r.holds = disp[q].holds
  BY <1>7, <1>8 DEF DispatchType
<1> HIDE DEF r
<1>10. disp' \in [Requests -> DispatchType] /\ Goes(q, pc, disp[q].holds)
  <2>1. disp' \in [Requests -> DispatchType] /\ Goes(q, r.pc, r.holds)
    BY <1>a, <1>1, <1>4, <1>9, DispatchSet
  <2>2. QED
    BY <1>9, <2>1
<1>11. ServerTypes' /\ Entries' = Entries
  BY <1>a, <1>1, <1>10 DEF ServerTypes, Entries
<1>12. ServerState'
  BY <1>1, <1>4, <1>8, <1>10, <1>11, Proceeds DEF Open
<1>13. QED
  BY <1>6, <1>12 DEF Connection

LEMMA ReadCancelKeeps ==
  ASSUME ServerState, Connection, ReadCancel
  PROVE  ServerState' /\ Connection'
<1> DEFINE o == OperationOf(Head(wire["client"]).of)
<1>a. ServerTypes /\ TransportTypes /\ Frames
  BY DEF ServerState, Connection
<1>1. /\ wire["client"] # <<>>
      /\ wire' = [wire EXCEPT !["client"] = Tail(@)]
      /\ entry' = IF o[1] = "call" /\ entry[o[2]].deciding
                  THEN [entry EXCEPT ![o[2]].retiring = "canceled"] ELSE entry
      /\ disp' = IF active[o] # <<>> THEN [disp EXCEPT ![active[o]].canceled = TRUE] ELSE disp
      /\ UNCHANGED <<peerID, active, activeCount, reserved, held, lease, served, fate>>
      /\ UNCHANGED <<state, protocolError, out, id>>
  BY DEF ReadCancel, client
<1>2. o \in Operations
  <2>1. Head(wire["client"]) \in ClientFrames
    BY <1>a, <1>1, HeadTailProperties DEF Frames
  <2>2. QED
    BY <2>1, RequestTypes DEF ClientFrames, Known
<1> HIDE DEF o
<1>3. TransportTypes' /\ Frames'
  BY <1>a, <1>1, ServerTransport DEF TransportTypes
<1>4. entry' \in [Calls -> EntryType] /\ Entries' = Entries
  <2>1. CASE o[1] = "call" /\ entry[o[2]].deciding
    <3>1. PICK c \in Calls : o[2] = c
      BY <1>2, <2>1, RequestFacts
    <3>2. entry' = [entry EXCEPT ![c].retiring = "canceled"]
      BY <1>1, <2>1, <3>1
    <3>3. QED
      BY <1>a, <3>2 DEF ServerTypes, EntryType, Entries
  <2>2. CASE ~(o[1] = "call" /\ entry[o[2]].deciding)
    <3>1. entry' = entry
      BY <1>1, <2>2
    <3>2. QED
      BY <1>a, <3>1 DEF ServerTypes, Entries
  <2>3. QED
    BY <2>1, <2>2
<1>5. /\ disp' \in [Requests -> DispatchType]
      /\ \A p \in Requests : disp'[p].pc = disp[p].pc /\ disp'[p].holds = disp[p].holds
  <2>1. CASE active[o] = <<>>
    BY <1>a, <1>1, <2>1 DEF ServerTypes
  <2>2. CASE active[o] # <<>>
    <3> DEFINE q == active[o]
    <3>1. q \in Requests /\ disp' = [disp EXCEPT ![q].canceled = TRUE]
      BY <1>a, <1>1, <1>2, <2>2 DEF ServerTypes
    <3> HIDE DEF q
    <3>2. {q} \in SUBSET Requests
      BY <3>1
    <3>3. disp' = [p \in Requests |-> IF p \in {q} THEN [disp[p] EXCEPT !.canceled = TRUE] ELSE disp[p]]
      BY <1>a, <3>1 DEF ServerTypes
    <3>4. QED
      BY <1>a, <3>2, <3>3, DispatchesCanceled
  <2>3. QED
    BY <2>1, <2>2
<1>6. ServerTypes'
  BY <1>a, <1>1, <1>4, <1>5 DEF ServerTypes
<1>7. ServerState'
  BY <1>1, <1>4, <1>5, <1>6, Notes DEF Open
<1>8. QED
  BY <1>3, <1>7 DEF Connection

\* The steps below queue at most a reply.
LEMMA RepliesKeep ==
  ASSUME Connection, out' = out \/ \E f \in Frame : out' = Queued("server", f),
         UNCHANGED <<state, protocolError, wire, client>>
  PROVE  Connection' /\ id' = id /\ (Open("server")' => Open("server"))
<1>1. id' = id
  BY DEF client
<1>2. TransportTypes' /\ Frames'
  <2>1. TransportTypes /\ Frames /\ protocolError' \in BOOLEAN
    BY DEF Connection, TransportTypes
  <2>2. QED
    BY <1>1, <2>1, ServerTransport
<1>3. QED
  BY <1>1, <1>2 DEF Connection, Open

LEMMA DispatchBindKeeps ==
  ASSUME ServerState, Connection, NEW ok \in BOOLEAN, DispatchBind(ok)
  PROVE  ServerState' /\ Connection'
<1> DEFINE registered == ok /\ Open("server") /\ active[Bind] # <<>> /\ ~disp[Bind].canceled
<1>a. ServerTypes /\ Counts(activeCount, active) /\ Bind \in Requests
  BY CallFacts DEF ServerState, ServerInv
<1>1. /\ disp[Bind].pc = "run" /\ reserved' = Unreserved(Bind)
      /\ \/ served' = [routes |-> "open", inbound |-> TRUE] /\ lease' = "live"
         \/ UNCHANGED <<served, lease>>
      /\ UNCHANGED <<peerID, active, activeCount, held, entry, fate>>
      /\ UNCHANGED <<state, protocolError, wire, client>>
  BY DEF DispatchBind
<1>2. PICK code \in Codes : Reply(Bind, code, TRUE)
  <2>1. "ok" \in Codes /\ "uncertain" \in Codes /\ "definite" \in Codes
    BY DEF Codes
  <2>2. CASE registered
    BY <2>1, <2>2 DEF DispatchBind
  <2>3. CASE ~registered /\ ok
    BY <2>1, <2>3 DEF DispatchBind
  <2>4. CASE ~registered /\ ~ok
    BY <2>1, <2>4 DEF DispatchBind
  <2>5. QED
    BY <2>2, <2>3, <2>4
<1>3. /\ disp' \in [Requests -> DispatchType] /\ Goes(Bind, "reply", FALSE)
      /\ out' = out \/ \E f \in Frame : out' = Queued("server", f)
  BY <1>a, <1>2, ReplyTypes
<1>4. Connection' /\ id' = id /\ (Open("server")' => Open("server"))
  BY <1>1, <1>3, RepliesKeep
<1>5. served' \in [routes : {"none", "open", "aborting", "aborted"}, inbound : BOOLEAN] /\ lease' \in Lease
  <2>1. CASE served' = [routes |-> "open", inbound |-> TRUE] /\ lease' = "live"
    BY <2>1 DEF Lease
  <2>2. CASE UNCHANGED <<served, lease>>
    BY <1>a, <2>2 DEF ServerTypes
  <2>3. QED
    BY <1>1, <2>1, <2>2
<1>6. reserved' \in [inbound : Nat, results : Nat] => ServerTypes'
  BY <1>a, <1>1, <1>3, <1>5 DEF ServerTypes
<1>7. Counts(activeCount', active') /\ Over /\ Entries' = Entries
  BY <1>a, <1>1, CountsKept DEF Entries
<1>8. ServerState'
  BY <1>a, <1>1, <1>3, <1>4, <1>6, <1>7, Returns DEF Early
<1>9. QED
  BY <1>4, <1>8

\* A call, a decision or a drop replies and gives its reservation back.
LEMMA RepliedReturns ==
  ASSUME ServerState, Connection, NEW q \in Requests, NEW code \in Codes, Reply(q, code, TRUE),
         disp[q].pc # "idle", reserved' = Unreserved(q),
         Entries' \subseteq Entries, entry' \in [Calls -> EntryType],
         fate' \in [Calls -> {"none", "undecided", "accepted", "discarded", "released"}],
         served' \in [routes : {"none", "open", "aborting", "aborted"}, inbound : BOOLEAN],
         UNCHANGED <<peerID, active, activeCount, held, lease>>,
         UNCHANGED <<state, protocolError, wire, client>>
  PROVE  ServerState' /\ Connection'
<1>a. ServerTypes /\ Counts(activeCount, active)
  BY DEF ServerState, ServerInv
<1>1. /\ disp' \in [Requests -> DispatchType] /\ Goes(q, "reply", FALSE)
      /\ out' = out \/ \E f \in Frame : out' = Queued("server", f)
  BY <1>a, ReplyTypes
<1>2. Connection' /\ id' = id /\ (Open("server")' => Open("server"))
  BY <1>1, RepliesKeep
<1>3. reserved' \in [inbound : Nat, results : Nat] => ServerTypes'
  BY <1>a, <1>1 DEF ServerTypes
<1>4. Counts(activeCount', active') /\ Over
  BY <1>a, CountsKept
<1>5. ServerState'
  BY <1>1, <1>2, <1>3, <1>4, Returns DEF Early
<1>6. QED
  BY <1>2, <1>5

\* Only calls and Bind hold a reservation.
LEMMA NothingReserved ==
  ASSUME ServerState, NEW q \in Requests, q # Bind, \A c \in Calls : q # Call(c)
  PROVE  Unreserved(q) = reserved
<1>1. ~disp[q].holds
  BY RequestTypes DEF ServerState, ServerInv, Reserved
<1>2. QED
  BY <1>1 DEF Unreserved

\* A dispatch goes on without a reply.
LEMMA GoesOn ==
  ASSUME ServerState, NEW q \in Requests, NEW r \in DispatchType, disp' = [disp EXCEPT ![q] = r],
         r.holds = disp[q].holds, disp[q].pc # "idle", r.pc \notin {"idle", "end"},
         r.pc \in Early => disp[q].pc \in Early,
         disp' \in [Requests -> DispatchType] => ServerTypes',
         UNCHANGED <<id, peerID, reserved, active, activeCount>>,
         Entries' \subseteq Entries, Open("server")' => Open("server")
  PROVE  ServerState'
<1>1. disp' \in [Requests -> DispatchType] /\ Goes(q, r.pc, r.holds)
  BY DispatchSet DEF ServerState
<1>2. Goes(q, r.pc, disp[q].holds)
  BY <1>1
<1>3. QED
  BY <1>1, <1>2, Proceeds

LEMMA DispatchCallKeeps ==
  ASSUME ServerState, Connection, NEW c \in Calls, DispatchCall(c)
  PROVE  ServerState' /\ Connection'
<1> DEFINE q == Call(c)
<1>a. ServerTypes /\ q \in Requests
  BY CallFacts DEF ServerState
<1>1. /\ disp[q].pc = "run"
      /\ UNCHANGED <<peerID, active, activeCount, held, entry, lease, served, fate>>
      /\ UNCHANGED <<state, protocolError, wire, client>>
  BY DEF DispatchCall
<1>e. Entries' = Entries
  BY <1>1 DEF Entries
<1>2. CASE Reply(q, "definite", FALSE) /\ UNCHANGED reserved
  <2>1. /\ disp' \in [Requests -> DispatchType] /\ Goes(q, "reply", disp[q].holds)
        /\ out' = out \/ \E f \in Frame : out' = Queued("server", f)
    BY <1>a, <1>2, ReplyTypes DEF Codes
  <2>2. Connection' /\ id' = id /\ (Open("server")' => Open("server"))
    BY <1>1, <2>1, RepliesKeep
  <2>3. ServerTypes'
    BY <1>a, <1>1, <1>2, <2>1 DEF ServerTypes
  <2>4. ServerState'
    BY <1>a, <1>1, <1>2, <1>e, <2>1, <2>2, <2>3, Proceeds DEF Early
  <2>5. QED
    BY <2>2, <2>4
<1>3. CASE Reply(q, "uncertain", TRUE) /\ reserved' = Unreserved(q)
  BY <1>a, <1>1, <1>3, <1>e, RepliedReturns DEF ServerTypes, Codes
<1>4. CASE disp' = [disp EXCEPT ![q].pc = "handler"] /\ UNCHANGED <<out, reserved>>
  <2> DEFINE r == [disp[q] EXCEPT !.pc = "handler"]
  <2>1. disp' = [disp EXCEPT ![q] = r]
    BY <1>4
  <2>2. r \in DispatchType /\ r.pc = "handler" /\ r.holds = disp[q].holds
    BY <1>a, DispatchEdit
  <2> HIDE DEF r
  <2>3. Connection' /\ id' = id /\ (Open("server")' => Open("server"))
    BY <1>1, <1>4, RepliesKeep
  <2>4. disp' \in [Requests -> DispatchType] => ServerTypes'
    BY <1>a, <1>1, <1>4 DEF ServerTypes
  <2>5. ServerState'
    BY <1>a, <1>1, <1>4, <1>e, <2>1, <2>2, <2>3, <2>4, GoesOn DEF Early
  <2>6. QED
    BY <2>3, <2>5
<1>5. QED
  BY <1>2, <1>3, <1>4 DEF DispatchCall

LEMMA HandlerReturnsKeeps ==
  ASSUME ServerState, Connection, NEW c \in Calls, NEW code \in Codes, HandlerReturns(c, code)
  PROVE  ServerState' /\ Connection'
<1> DEFINE q == Call(c)
<1>a. ServerTypes /\ q \in Requests
  BY CallFacts DEF ServerState
<1>1. /\ disp[q].pc = "handler"
      /\ UNCHANGED <<peerID, active, activeCount, held, entry, lease, served>>
      /\ UNCHANGED <<state, protocolError, wire, client>>
  BY DEF HandlerReturns
<1>e. Entries' = Entries
  BY <1>1 DEF Entries
<1>2. CASE code = "ok"
  <2> DEFINE r == [disp[q] EXCEPT !.pc = "offer"]
  <2>1. disp' = [disp EXCEPT ![q] = r] /\ UNCHANGED <<out, reserved>>
    BY <1>2 DEF HandlerReturns
  <2>2. r \in DispatchType /\ r.pc = "offer" /\ r.holds = disp[q].holds
    BY <1>a, DispatchEdit
  <2> HIDE DEF r
  <2>3. Connection' /\ id' = id /\ (Open("server")' => Open("server"))
    BY <1>1, <2>1, RepliesKeep
  <2>4. fate' \in [Calls -> {"none", "undecided", "accepted", "discarded", "released"}]
    BY <1>a, <1>2 DEF HandlerReturns, ServerTypes
  <2>5. disp' \in [Requests -> DispatchType] => ServerTypes'
    BY <1>a, <1>1, <2>1, <2>4 DEF ServerTypes
  <2>6. ServerState'
    BY <1>a, <1>1, <1>e, <2>1, <2>2, <2>3, <2>5, GoesOn DEF Early
  <2>7. QED
    BY <2>3, <2>6
<1>3. CASE code # "ok"
  <2>1. Reply(q, code, TRUE) /\ reserved' = Unreserved(q) /\ UNCHANGED fate
    BY <1>3 DEF HandlerReturns
  <2>2. QED
    BY <1>a, <1>1, <1>e, <2>1, RepliedReturns DEF ServerTypes
<1>4. QED
  BY <1>2, <1>3

\* Results that are marked or forgotten.
LEMMA EntryEdits ==
  ASSUME ServerTypes, NEW c \in Calls, NEW e \in EntryType, e.present => entry[c].present,
         entry' = [entry EXCEPT ![c] = e]
  PROVE  entry' \in [Calls -> EntryType] /\ Entries' \subseteq Entries
<1>1. entry' \in [Calls -> EntryType]
  BY DEF ServerTypes
<1>2. \A d \in Calls : entry'[d].present => entry[d].present
  BY DEF ServerTypes
<1>3. QED
  BY <1>1, <1>2 DEF Entries

LEMMA OfferKeeps ==
  ASSUME ServerState, Connection, NEW c \in Calls, Offer(c)
  PROVE  ServerState' /\ Connection'
<1> DEFINE q == Call(c)
           offered == /\ Open("server") /\ active[q] # <<>> /\ ~disp[q].canceled
                      /\ served.inbound /\ held[q] = "live"
<1>a. /\ ServerTypes /\ Seen /\ Reserved /\ ResultsBounded /\ Counts(activeCount, active)
      /\ q \in Requests /\ q \in Operations
  BY CallFacts, RequestFacts DEF ServerState, ServerInv
<1>1. /\ disp[q].pc = "offer" /\ reserved' = Unreserved(q)
      /\ UNCHANGED <<peerID, held, lease, served>>
      /\ UNCHANGED <<state, protocolError, wire, client>>
  BY DEF Offer
<1>2. CASE ~offered
  <2>1. fate' = Discarded(c) /\ Reply(q, "uncertain", TRUE) /\ UNCHANGED <<entry, active, activeCount>>
    BY <1>2 DEF Offer
  <2>2. fate' \in [Calls -> {"none", "undecided", "accepted", "discarded", "released"}]
    BY <1>a, <2>1 DEF Discarded, ServerTypes
  <2>3. Entries' = Entries
    BY <2>1 DEF Entries
  <2>4. QED
    BY <1>a, <1>1, <2>1, <2>2, <2>3, RepliedReturns DEF ServerTypes, Codes
<1>3. CASE offered
  <2> DEFINE e == [NoEntry EXCEPT !.present = TRUE]
             r == [disp[q] EXCEPT !.pc = "reply", !.holds = FALSE, !.finished = TRUE]
             f == Message("offer", q, "ok", FALSE)
  <2>1. /\ entry' = [entry EXCEPT ![c] = e]
        /\ active' = Finished(q) /\ activeCount' = CountFinished(q)
        /\ out' = Queued("server", f)
        /\ UNCHANGED fate
    BY <1>3 DEF Offer
  <2>2. disp' = [disp EXCEPT ![q] = r]
    BY <1>3, <1>a DEF Offer, ServerTypes
  <2>3. f \in Frame
    BY <1>a DEF Message, Frame, Codes
  <2> HIDE DEF f
  <2>4. Connection' /\ id' = id /\ (Open("server")' => Open("server"))
    BY <1>1, <2>1, <2>3, RepliesKeep
  <2>5. r \in DispatchType /\ r.pc = "reply" /\ r.holds = FALSE
    <3>1. disp[q] \in DispatchType
      BY <1>a DEF ServerTypes
    <3>2. QED
      BY <3>1 DEF DispatchType
  <2>6. e \in EntryType
    BY DEF NoEntry, EntryType
  <2> HIDE DEF r, e
  <2>7. disp' \in [Requests -> DispatchType] /\ Goes(q, "reply", FALSE)
    <3>1. disp' \in [Requests -> DispatchType] /\ Goes(q, r.pc, r.holds)
      BY <1>a, <2>2, <2>5, DispatchSet
    <3>2. QED
      BY <2>5, <3>1
  <2>8. /\ Counts(activeCount', active') /\ Over
        /\ activeCount' \in [Lanes -> Nat] /\ active' \in [Operations -> Requests \cup {<<>>}]
    <3> HIDE DEF q
    <3>1. QED
      BY <1>a, <2>1, ActiveFinished
  <2>9. Reserved' /\ reserved' \in [inbound : Nat, results : Nat]
    BY <1>a, <1>1, <2>7, ReservedReturns DEF Early
  <2>10. entry' \in [Calls -> EntryType] /\ Entries' \subseteq Entries \cup {c}
    <3>1. entry' \in [Calls -> EntryType] /\ \A d \in Calls \ {c} : entry'[d] = entry[d]
      BY <1>a, <2>1, <2>6 DEF ServerTypes
    <3>2. QED
      BY <3>1 DEF Entries
  <2>11. ServerTypes'
    BY <1>a, <1>1, <2>1, <2>7, <2>8, <2>9, <2>10 DEF ServerTypes
  <2>12. Seen'
    <3>1. \A o \in Operations : disp[o].pc = "idle" => disp'[o].pc = "idle"
      BY <1>1, <2>7, RequestFacts DEF Goes
    <3>2. QED
      BY <1>a, <1>1, <2>4, <2>8, <3>1, SeenKeeps
  <2>13. ResultsBounded'
    <3>1. /\ disp[q].holds /\ q # Bind
      BY <1>a, <1>1, CallFacts DEF Reserved
    <3>2. reserved' = [reserved EXCEPT !.results = @ - 1]
      BY <1>1, <3>1 DEF Unreserved
    <3>3. reserved'.results = reserved.results - 1 /\ reserved.results \in Nat
      BY <1>a, <3>2 DEF ServerTypes
    <3>4. Cardinality(Entries') <= Cardinality(Entries) + 1 /\ Cardinality(Entries') \in Nat
      <4>1. IsFiniteSet(Entries \cup {c}) /\ Cardinality(Entries \cup {c}) <= Cardinality(Entries) + 1
        <5>1. IsFiniteSet(Entries) /\ Cardinality(Entries) \in Nat
          BY EntriesFinite
        <5>2. /\ IsFiniteSet(Entries \cup {c})
              /\ Cardinality(Entries \cup {c}) = IF c \in Entries THEN Cardinality(Entries) ELSE Cardinality(Entries) + 1
          BY <5>1, FS_AddElement
        <5>3. QED
          BY <5>1, <5>2
      <4>2. IsFiniteSet(Entries') /\ Cardinality(Entries') <= Cardinality(Entries \cup {c})
        BY <2>10, <4>1, FS_Subset
      <4>3. QED
        BY <4>1, <4>2, EntriesFinite, FS_CardinalityType
    <3>5. MaxPendingResults \in Nat
      BY EndpointAssumption
    <3>6. QED
      BY <1>a, <2>4, <3>3, <3>4, <3>5, EntriesFinite DEF ResultsBounded
  <2>14. QED
    BY <2>4, <2>8, <2>9, <2>11, <2>12, <2>13, ServerParts
<1>4. QED
  BY <1>2, <1>3

LEMMA DispatchDecisionKeeps ==
  ASSUME ServerState, Connection, NEW c \in Calls, DispatchDecision(c)
  PROVE  ServerState' /\ Connection'
<1> DEFINE q == Decision(c)
           decides == entry[c].present /\ entry[c].retiring = "no" /\ held[Call(c)] = "live"
<1>a. ServerTypes /\ q \in Requests /\ Unreserved(q) = reserved
  <2>1. q \in Requests /\ q # Bind /\ \A d \in Calls : q # Call(d)
    BY CallFacts
  <2>2. QED
    BY <2>1, NothingReserved DEF ServerState
<1>1. /\ disp[q].pc = "run"
      /\ UNCHANGED <<peerID, active, activeCount, reserved, held, lease, served, fate>>
      /\ UNCHANGED <<state, protocolError, wire, client>>
  BY DEF DispatchDecision
<1>2. CASE decides
  <2> DEFINE r == [disp[q] EXCEPT !.pc = "deciding"]
             e == [entry[c] EXCEPT !.deciding = TRUE]
  <2>1. disp' = [disp EXCEPT ![q] = r] /\ entry' = [entry EXCEPT ![c] = e] /\ UNCHANGED out
    BY <1>2 DEF DispatchDecision
  <2>2. r \in DispatchType /\ r.pc = "deciding" /\ r.holds = disp[q].holds
    BY <1>a, DispatchEdit
  <2>3. e \in EntryType /\ e.present = entry[c].present
    <3>1. entry[c] \in EntryType
      BY <1>a DEF ServerTypes
    <3>2. QED
      BY <3>1 DEF EntryType
  <2> HIDE DEF r, e
  <2>4. entry' \in [Calls -> EntryType] /\ Entries' \subseteq Entries
    BY <1>a, <2>1, <2>3, EntryEdits
  <2>5. Connection' /\ id' = id /\ (Open("server")' => Open("server"))
    BY <1>1, <2>1, RepliesKeep
  <2>6. disp' \in [Requests -> DispatchType] => ServerTypes'
    BY <1>a, <1>1, <2>4 DEF ServerTypes
  <2>7. ServerState'
    BY <1>a, <1>1, <2>1, <2>2, <2>4, <2>5, <2>6, GoesOn DEF Early
  <2>8. QED
    BY <2>5, <2>7
<1>3. CASE ~decides
  <2>1. Reply(q, "definite", TRUE) /\ UNCHANGED entry
    BY <1>3 DEF DispatchDecision
  <2>2. Entries' = Entries
    BY <2>1 DEF Entries
  <2>3. QED
    BY <1>a, <1>1, <2>1, <2>2, RepliedReturns DEF ServerTypes, Codes
<1>4. QED
  BY <1>2, <1>3

LEMMA DecisionAppliesKeeps ==
  ASSUME ServerState, Connection, NEW c \in Calls, NEW code \in Codes, DecisionApplies(c, code)
  PROVE  ServerState' /\ Connection'
<1> DEFINE q == Decision(c)
           r == [disp[q] EXCEPT !.pc = "decided", !.code = code]
<1>a. ServerTypes /\ q \in Requests
  BY CallFacts DEF ServerState
<1>1. /\ disp[q].pc = "deciding" /\ disp' = [disp EXCEPT ![q] = r]
      /\ UNCHANGED <<peerID, active, activeCount, reserved, held, entry, lease, served>>
      /\ UNCHANGED <<state, protocolError, transport, client>>
  BY <1>a DEF DecisionApplies, ServerTypes
<1>2. r \in DispatchType /\ r.pc = "decided" /\ r.holds = disp[q].holds
  <2>1. disp[q] \in DispatchType
    BY <1>a DEF ServerTypes
  <2>2. QED
    BY <2>1 DEF DispatchType
<1> HIDE DEF r
<1>3. fate' \in [Calls -> {"none", "undecided", "accepted", "discarded", "released"}]
  BY <1>a DEF DecisionApplies, ServerTypes
<1>4. Connection' /\ id' = id /\ (Open("server")' => Open("server"))
  BY <1>1, RepliesKeep DEF transport
<1>5. disp' \in [Requests -> DispatchType] => ServerTypes'
  BY <1>a, <1>1, <1>3 DEF ServerTypes
<1>6. Entries' = Entries
  BY <1>1 DEF Entries
<1>7. ServerState'
  BY <1>a, <1>1, <1>2, <1>4, <1>5, <1>6, GoesOn DEF Early
<1>8. QED
  BY <1>4, <1>7

LEMMA DecisionChecksKeeps ==
  ASSUME ServerState, Connection, NEW c \in Calls, DecisionChecks(c)
  PROVE  ServerState' /\ Connection'
<1> DEFINE q == Decision(c)
<1>a. ServerTypes /\ q \in Requests /\ Unreserved(q) = reserved
  <2>1. q \in Requests /\ q # Bind /\ \A d \in Calls : q # Call(d)
    BY CallFacts
  <2>2. QED
    BY <2>1, NothingReserved DEF ServerState
<1>1. /\ disp[q].pc = "decided" /\ Reply(q, disp[q].code, TRUE)
      /\ UNCHANGED <<peerID, active, activeCount, reserved, held, entry, lease, served>>
      /\ UNCHANGED <<state, protocolError, wire, client>>
  BY DEF DecisionChecks
<1>2. disp[q].code \in Codes
  BY <1>a DEF ServerTypes, DispatchType
<1>3. fate' \in [Calls -> {"none", "undecided", "accepted", "discarded", "released"}]
  BY <1>a DEF DecisionChecks, ServerTypes
<1>4. Entries' = Entries
  BY <1>1 DEF Entries
<1>5. QED
  BY <1>a, <1>1, <1>2, <1>3, <1>4, RepliedReturns DEF ServerTypes

LEMMA DispatchDropKeeps ==
  ASSUME ServerState, Connection, NEW c \in Calls, NEW code \in Codes, DispatchDrop(c, code)
  PROVE  ServerState' /\ Connection'
<1> DEFINE q == DropOf(c)
<1>a. ServerTypes /\ q \in Requests /\ Unreserved(q) = reserved
  <2>1. q \in Requests /\ q # Bind /\ \A d \in Calls : q # Call(d)
    BY RequestFacts
  <2>2. QED
    BY <2>1, NothingReserved DEF ServerState
<1>1. /\ disp[q].pc = "run" /\ Reply(q, code, TRUE)
      /\ UNCHANGED <<peerID, active, activeCount, reserved, held, entry, lease, served>>
      /\ UNCHANGED <<state, protocolError, wire, client>>
  BY DEF DispatchDrop
<1>2. fate' \in [Calls -> {"none", "undecided", "accepted", "discarded", "released"}]
  BY <1>a DEF DispatchDrop, ServerTypes
<1>3. Entries' = Entries
  BY <1>1 DEF Entries
<1>4. QED
  BY <1>a, <1>1, <1>2, <1>3, RepliedReturns DEF ServerTypes

LEMMA DispatchCloseKeeps ==
  ASSUME ServerState, Connection, DispatchClose
  PROVE  ServerState' /\ Connection'
<1> DEFINE r == [disp[Close] EXCEPT !.pc = "abort"]
<1>a. ServerTypes /\ Close \in Requests
  BY CallFacts DEF ServerState
<1>1. /\ disp[Close].pc = "run" /\ disp' = [disp EXCEPT ![Close] = r]
      /\ lease' = "none"
      /\ UNCHANGED <<peerID, active, activeCount, reserved, fate>>
      /\ UNCHANGED <<state, protocolError, transport, client>>
  BY DEF DispatchClose
<1>2. r \in DispatchType /\ r.pc = "abort" /\ r.holds = disp[Close].holds
  BY <1>a, DispatchEdit
<1> HIDE DEF r
<1>3. held' \in [Operations -> Lease]
  BY <1>a DEF DispatchClose, ServerTypes, Lease
<1>4. entry' \in [Calls -> EntryType] /\ Entries' \subseteq Entries
  BY <1>a DEF DispatchClose, ServerTypes, EntryType, Entries
<1>5. served' \in [routes : {"none", "open", "aborting", "aborted"}, inbound : BOOLEAN]
  BY <1>a DEF DispatchClose, Aborting, ServerTypes
<1>6. Connection' /\ id' = id /\ (Open("server")' => Open("server"))
  BY <1>1, RepliesKeep DEF transport
<1>7. disp' \in [Requests -> DispatchType] => ServerTypes'
  BY <1>a, <1>1, <1>3, <1>4, <1>5 DEF ServerTypes, Lease
<1>8. ServerState'
  BY <1>a, <1>1, <1>2, <1>4, <1>6, <1>7, GoesOn DEF Early
<1>9. QED
  BY <1>6, <1>8

LEMMA CloseAbortedKeeps ==
  ASSUME ServerState, Connection, CloseAborted
  PROVE  ServerState' /\ Connection'
<1>a. ServerTypes /\ Close \in Requests /\ Unreserved(Close) = reserved
  <2>1. Close \in Requests /\ Close # Bind /\ \A d \in Calls : Close # Call(d)
    BY CallFacts
  <2>2. QED
    BY <2>1, NothingReserved DEF ServerState
<1>1. /\ disp[Close].pc = "abort" /\ Reply(Close, "ok", TRUE)
      /\ UNCHANGED <<peerID, active, activeCount, reserved, held, lease, fate>>
      /\ UNCHANGED <<state, protocolError, wire, client>>
  BY DEF CloseAborted
<1>2. served' \in [routes : {"none", "open", "aborting", "aborted"}, inbound : BOOLEAN]
  BY <1>a DEF CloseAborted, ServerTypes
<1>3. entry' \in [Calls -> EntryType] /\ Entries' \subseteq Entries
  BY <1>a DEF CloseAborted, ServerTypes, EntryType, NoEntry, Entries
<1>4. QED
  BY <1>a, <1>1, <1>2, <1>3, RepliedReturns DEF ServerTypes, Codes

LEMMA DispatchStoppedKeeps ==
  ASSUME ServerState, Connection, NEW q \in Requests, DispatchStopped(q)
  PROVE  ServerState' /\ Connection'
<1> DEFINE r == [disp[q] EXCEPT !.pc = "finish"]
<1>a. ServerTypes
  BY DEF ServerState
<1>1. /\ disp[q].pc \in {"admit", "reply"} /\ disp' = [disp EXCEPT ![q] = r]
      /\ UNCHANGED <<peerID, active, activeCount, reserved, held, entry, lease, served, fate>>
      /\ UNCHANGED <<state, protocolError, transport, client>>
  BY DEF DispatchStopped
<1>2. r \in DispatchType /\ r.pc = "finish" /\ r.holds = disp[q].holds
  BY <1>a, DispatchEdit
<1> HIDE DEF r
<1>3. Connection' /\ id' = id /\ (Open("server")' => Open("server"))
  BY <1>1, RepliesKeep DEF transport
<1>4. disp' \in [Requests -> DispatchType] => ServerTypes'
  BY <1>a, <1>1 DEF ServerTypes
<1>5. Entries' = Entries
  BY <1>1 DEF Entries
<1>6. ServerState'
  BY <1>1, <1>2, <1>3, <1>4, <1>5, GoesOn DEF Early
<1>7. QED
  BY <1>3, <1>6

LEMMA DispatchFinishKeeps ==
  ASSUME ServerState, Connection, NEW q \in Requests, DispatchFinish(q)
  PROVE  ServerState' /\ Connection'
<1> DEFINE o == OperationOf(q)
           decided == q[1] = "decision" /\ entry[q[2]].deciding
           r == [disp[q] EXCEPT !.pc = "end", !.holds = FALSE]
<1>a. ServerTypes /\ Counts(activeCount, active) /\ o \in Operations
  BY RequestTypes DEF ServerState, ServerInv
<1>1. /\ disp[q].pc = "finish" /\ reserved' = Unreserved(q)
      /\ UNCHANGED <<peerID, lease, served, fate>>
      /\ UNCHANGED <<state, protocolError, transport, client>>
  BY DEF DispatchFinish
<1>2. disp' = [disp EXCEPT ![q] = r]
  BY <1>a DEF DispatchFinish, ServerTypes
<1>3. r \in DispatchType /\ r.pc = "end" /\ r.holds = FALSE
  <2>1. disp[q] \in DispatchType
    BY <1>a DEF ServerTypes
  <2>2. QED
    BY <2>1 DEF DispatchType
<1> HIDE DEF r
<1>4. disp' \in [Requests -> DispatchType] /\ Goes(q, "end", FALSE)
  <2>1. disp' \in [Requests -> DispatchType] /\ Goes(q, r.pc, r.holds)
    BY <1>a, <1>2, <1>3, DispatchSet
  <2>2. QED
    BY <1>3, <2>1
<1>5. Connection' /\ id' = id /\ (Open("server")' => Open("server"))
  BY <1>1, RepliesKeep DEF transport
<1>6. entry' \in [Calls -> EntryType] /\ Entries' \subseteq Entries
  <2>1. CASE decided
    <3>1. PICK c \in Calls : q[2] = c
      BY <2>1, RequestTypes, RequestFacts
    <3>2. entry' = [entry EXCEPT ![c] = NoEntry]
      BY <2>1, <3>1 DEF DispatchFinish
    <3>3. NoEntry \in EntryType /\ ~NoEntry.present
      BY DEF NoEntry, EntryType
    <3>4. QED
      BY <1>a, <3>2, <3>3, EntryEdits
  <2>2. CASE ~decided
    <3>1. entry' = entry
      BY <2>2 DEF DispatchFinish
    <3>2. QED
      BY <1>a, <3>1 DEF ServerTypes, Entries
  <2>3. QED
    BY <2>1, <2>2
<1>7. /\ Counts(activeCount', active') /\ Over
      /\ activeCount' \in [Lanes -> Nat] /\ active' \in [Operations -> Requests \cup {<<>>}]
      /\ held' \in [Operations -> Lease]
  <2>1. CASE disp[q].finished
    <3>1. UNCHANGED <<active, activeCount, held>>
      BY <2>1 DEF DispatchFinish
    <3>2. QED
      BY <1>a, <3>1, CountsKept DEF ServerTypes
  <2>2. CASE ~disp[q].finished
    <3>1. active' = Finished(o) /\ activeCount' = CountFinished(o)
      BY <2>2 DEF DispatchFinish
    <3>2. held' = held \/ held' = [held EXCEPT ![o] = "none"]
      BY <2>2 DEF DispatchFinish
    <3>3. held' \in [Operations -> Lease]
      BY <1>a, <3>2 DEF ServerTypes, Lease
    <3> HIDE DEF o
    <3>4. QED
      BY <1>a, <3>1, <3>3, ActiveFinished
  <2>3. QED
    BY <2>1, <2>2
<1>8. reserved' \in [inbound : Nat, results : Nat] => ServerTypes'
  BY <1>a, <1>1, <1>4, <1>6, <1>7 DEF ServerTypes
<1>9. ServerState'
  BY <1>1, <1>4, <1>5, <1>6, <1>7, <1>8, Returns DEF Early
<1>10. QED
  BY <1>5, <1>9

\* Leases and the end of the binding's RouteSet.
LEMMA LeaseKeeps ==
  ASSUME ServerState, Connection, LeaseStep
  PROVE  ServerState' /\ Connection' /\ UNCHANGED client
<1>a. ServerTypes
  BY DEF ServerState
<1>1. CASE RoutesAborted
  <2>1. /\ UNCHANGED <<peerID, active, activeCount, reserved, disp, held, entry, lease>>
        /\ UNCHANGED <<state, protocolError, transport, client>>
    BY <1>1 DEF RoutesAborted
  <2>2. /\ served' \in [routes : {"none", "open", "aborting", "aborted"}, inbound : BOOLEAN]
        /\ fate' \in [Calls -> {"none", "undecided", "accepted", "discarded", "released"}]
    BY <1>a, <1>1 DEF RoutesAborted, ServerTypes
  <2>3. ServerTypes' /\ Entries' = Entries
    BY <1>a, <2>1, <2>2 DEF ServerTypes, Entries
  <2>4. Connection' /\ id' = id /\ (Open("server")' => Open("server"))
    BY <2>1, RepliesKeep DEF transport
  <2>5. QED
    BY <2>1, <2>3, <2>4, Notes
<1>2. ASSUME LeaseLapse \/ \E o \in Operations : HeldLapse(o)
      PROVE  ServerState' /\ Connection' /\ UNCHANGED client
  <2>1. /\ UNCHANGED <<peerID, active, activeCount, reserved, disp, entry, served, fate>>
        /\ UNCHANGED <<state, protocolError, transport, client>>
    BY <1>2 DEF LeaseLapse, HeldLapse
  <2>2. held' \in [Operations -> Lease] /\ lease' \in Lease
    BY <1>a, <1>2 DEF LeaseLapse, HeldLapse, ServerTypes, Lease
  <2>3. ServerTypes' /\ Entries' = Entries
    BY <1>a, <2>1, <2>2 DEF ServerTypes, Entries
  <2>4. Connection' /\ id' = id /\ (Open("server")' => Open("server"))
    BY <2>1, RepliesKeep DEF transport
  <2>5. QED
    BY <2>1, <2>3, <2>4, Notes
<1>3. CASE ServerExpires
  <2>1. /\ UNCHANGED <<peerID, active, activeCount, reserved, fate>>
        /\ UNCHANGED <<state, protocolError, transport, client>>
    BY <1>3 DEF ServerExpires
  <2>2. held' \in [Operations -> Lease] /\ lease' \in Lease
    BY <1>a, <1>3 DEF ServerExpires, ServerTypes, Lease
  <2>3. served' \in [routes : {"none", "open", "aborting", "aborted"}, inbound : BOOLEAN]
    BY <1>a, <1>3 DEF ServerExpires, Aborting, ServerTypes
  <2>4. /\ disp' \in [Requests -> DispatchType]
        /\ \A p \in Requests : disp'[p].pc = disp[p].pc /\ disp'[p].holds = disp[p].holds
    <3> DEFINE gone == lease = "lapsed"
               over == {o \in Operations : held[o] = "lapsed" \/ (gone /\ o # Bind /\ active[o] # <<>>)}
               whose == {q \in Requests : OperationOf(q) \in over /\ active[OperationOf(q)] = q}
    <3>1. disp' = [q \in Requests |-> IF q \in whose THEN [disp[q] EXCEPT !.canceled = TRUE] ELSE disp[q]]
      BY <1>3 DEF ServerExpires
    <3>2. whose \in SUBSET Requests
      OBVIOUS
    <3> HIDE DEF whose
    <3>3. QED
      BY <1>a, <3>1, <3>2, DispatchesCanceled
  <2>5. entry' \in [Calls -> EntryType] /\ Entries' \subseteq Entries
    BY <1>a, <1>3 DEF ServerExpires, ServerTypes, EntryType, Entries
  <2>6. ServerTypes'
    BY <1>a, <2>1, <2>2, <2>3, <2>4, <2>5 DEF ServerTypes
  <2>7. Connection' /\ id' = id /\ (Open("server")' => Open("server"))
    BY <2>1, RepliesKeep DEF transport
  <2>8. QED
    BY <2>1, <2>4, <2>5, <2>6, <2>7, Notes
<1>4. ASSUME NEW c \in Calls, EntryRetired(c)
      PROVE  ServerState' /\ Connection' /\ UNCHANGED client
  <2>1. /\ UNCHANGED <<peerID, active, activeCount, reserved, disp, lease, served>>
        /\ UNCHANGED <<state, protocolError, transport, client>>
        /\ entry' = [entry EXCEPT ![c] = NoEntry]
    BY <1>4 DEF EntryRetired
  <2>2. held' \in [Operations -> Lease]
    BY <1>a, <1>4 DEF EntryRetired, ServerTypes, Lease
  <2>3. fate' \in [Calls -> {"none", "undecided", "accepted", "discarded", "released"}]
    BY <1>a, <1>4 DEF EntryRetired, Discarded, ServerTypes
  <2>4. entry' \in [Calls -> EntryType] /\ Entries' \subseteq Entries
    <3>1. NoEntry \in EntryType /\ ~NoEntry.present
      BY DEF NoEntry, EntryType
    <3>2. QED
      BY <1>a, <2>1, <3>1, EntryEdits
  <2>5. ServerTypes'
    BY <1>a, <2>1, <2>2, <2>3, <2>4 DEF ServerTypes
  <2>6. Connection' /\ id' = id /\ (Open("server")' => Open("server"))
    BY <2>1, RepliesKeep DEF transport
  <2>7. QED
    BY <2>1, <2>4, <2>5, <2>6, Notes
<1>5. QED
  BY <1>1, <1>2, <1>3, <1>4 DEF LeaseStep

LEMMA FailServerKeeps ==
  ASSUME ServerState, Connection, FailServer
  PROVE  ServerState' /\ Connection' /\ UNCHANGED client
<1>a. ServerTypes /\ Seen /\ Reserved /\ TransportTypes /\ Frames
  BY DEF ServerState, ServerInv, Connection
<1>1. /\ state' = [state EXCEPT !["server"] = "closing"]
      /\ out' = [out EXCEPT !["server"] = [lane \in Lanes |-> <<>>]]
      /\ active' = [o \in Operations |-> <<>>]
      /\ activeCount' = [lane \in Lanes |-> 0]
      /\ held' = [o \in Operations |-> "none"]
      /\ entry' = [c \in Calls |-> NoEntry]
      /\ lease' = "none"
      /\ UNCHANGED <<protocolError, wire, peerID, reserved, fate, client>>
  BY DEF FailServer
<1>2. UNCHANGED client /\ id' = id
  BY <1>1 DEF client
<1>3. Connection'
  BY <1>a, <1>1, <1>2, FailedTransport DEF Sides, Connection
<1>4. /\ disp' \in [Requests -> DispatchType]
      /\ \A p \in Requests : disp'[p].pc = disp[p].pc /\ disp'[p].holds = disp[p].holds
  <2> DEFINE whose == {q \in Requests : active[OperationOf(q)] = q}
  <2>1. disp' = [q \in Requests |-> IF q \in whose THEN [disp[q] EXCEPT !.canceled = TRUE] ELSE disp[q]]
    BY DEF FailServer
  <2>2. whose \in SUBSET Requests
    OBVIOUS
  <2> HIDE DEF whose
  <2>3. QED
    BY <1>a, <2>1, <2>2, DispatchesCanceled
<1>5. served' \in [routes : {"none", "open", "aborting", "aborted"}, inbound : BOOLEAN]
  BY <1>a DEF FailServer, Aborting, ServerTypes
<1>6. Counts(activeCount', active') /\ activeCount' \in [Lanes -> Nat] /\ Over
  BY <1>1, CountsNone DEF Over
<1>7. ServerTypes'
  BY <1>a, <1>1, <1>4, <1>5, <1>6 DEF ServerTypes, Lease, NoEntry, EntryType
<1>8. Seen'
  BY <1>a, <1>1, <1>2, <1>4, <1>6, RequestFacts, SeenKeeps
<1>9. Reserved'
  <2>1. Bind \in Requests
    BY CallFacts
  <2>2. QED
    BY <1>a, <1>1, <1>4, <2>1, ReservedKeeps
<1>10. ResultsBounded'
  BY <1>a, <1>1 DEF ResultsBounded, Open, TransportTypes, Sides
<1>11. ServerState'
  BY <1>6, <1>7, <1>8, <1>9, <1>10, ServerParts
<1>12. QED
  BY <1>2, <1>3, <1>11

\* A request that is admitted reserves a place for its result, or its binding.
LEMMA AdmitReserves ==
  ASSUME Reserved, ServerTypes, NEW q \in Requests, ~disp[q].holds,
         Goes(q, "admit", (q = Bind \/ q[1] = "call")),
         reserved' = [inbound |-> reserved.inbound + (IF q = Bind THEN 1 ELSE 0),
                      results |-> reserved.results + (IF q[1] = "call" THEN 1 ELSE 0)]
  PROVE  Reserved' /\ reserved' \in [inbound : Nat, results : Nat]
<1>1. \A p \in Requests : disp'[p].holds => disp'[p].pc \notin {"idle", "end"} /\ (p = Bind \/ p[1] = "call")
  BY DEF Reserved, Goes
<1>h. q = Bind \/ q[1] = "call" => disp'[q].holds
  BY DEF Goes
<1>2. \A c \in Calls : disp'[Call(c)].pc \in Early => disp'[Call(c)].holds
  <2>1. ASSUME NEW c \in Calls, disp'[Call(c)].pc \in Early PROVE disp'[Call(c)].holds
    <3>1. CASE Call(c) = q
      BY <1>h, <3>1, RequestFacts
    <3>2. CASE Call(c) # q
      <4>1. disp'[Call(c)].pc = disp[Call(c)].pc /\ disp'[Call(c)].holds = disp[Call(c)].holds
        BY <3>2, CallFacts DEF Goes
      <4>2. QED
        BY <2>1, <4>1 DEF Reserved, Early
    <3>3. QED
      BY <3>1, <3>2
  <2>2. QED
    BY <2>1
<1>3. /\ reserved \in [inbound : Nat, results : Nat]
      /\ reserved.results = Cardinality(Holders)
      /\ reserved.inbound = (IF disp[Bind].holds THEN 1 ELSE 0)
  BY DEF Reserved, Holders, ServerTypes
<1>4. reserved' \in [inbound : Nat, results : Nat]
  BY <1>3
<1>5. reserved'.results = Cardinality(Holders')
  <2>1. CASE q[1] = "call"
    <3>1. PICK c \in Calls : q = Call(c)
      BY <2>1, RequestTypes
    <3>2. c \notin Holders /\ Holders' = Holders \cup {c}
      BY <2>1, <3>1, CallFacts DEF Goes, Holders
    <3>3. IsFiniteSet(Holders)
      BY HoldersFinite
    <3>4. Cardinality(Holders \cup {c}) = Cardinality(Holders) + 1
      BY <3>2, <3>3, FS_AddElement
    <3>5. QED
      BY <1>3, <2>1, <3>2, <3>4
  <2>2. CASE q[1] # "call"
    <3>1. \A c \in Calls : Call(c) \in Requests \ {q}
      BY <2>2, RequestFacts
    <3>2. Holders' = Holders
      BY <3>1 DEF Goes, Holders
    <3>3. QED
      BY <1>3, <2>2, <3>2
  <2>3. QED
    BY <2>1, <2>2
<1>6. reserved'.inbound = (IF disp'[Bind].holds THEN 1 ELSE 0)
  <2>1. CASE q = Bind
    <3>1. disp'[Bind].holds /\ ~disp[Bind].holds
      BY <1>h, <2>1
    <3>2. reserved'.inbound = reserved.inbound + 1 /\ reserved.inbound = 0
      BY <1>3, <2>1, <3>1
    <3>3. QED
      BY <3>1, <3>2
  <2>2. CASE q # Bind
    <3>1. Bind \in Requests \ {q}
      BY <2>2, CallFacts
    <3>2. disp'[Bind].holds = disp[Bind].holds
      BY <3>1 DEF Goes
    <3>3. QED
      BY <1>3, <2>2, <3>2
  <2>3. QED
    BY <2>1, <2>2
<1>7. QED
  BY <1>1, <1>2, <1>4, <1>5, <1>6, ReservedParts

LEMMA ReadRequestKeeps ==
  ASSUME ServerState, Connection, id \in [Operations -> Nat], ReadRequest
  PROVE  ServerState' /\ Connection'
<1> DEFINE f == Head(wire["client"])
           q == f.of
           o == OperationOf(q)
           decided == f.kind = "decision" /\ entry[q[2]].deciding
<1>a. /\ ServerTypes /\ Seen /\ Reserved /\ ResultsBounded /\ Counts(activeCount, active)
      /\ TransportTypes /\ Frames
  BY DEF ServerState, ServerInv, Connection
<1>1. /\ wire["client"] # <<>> /\ f.kind # "cancel"
      /\ wire' = [wire EXCEPT !["client"] = Tail(@)]
      /\ peerID' = (IF f.kind = "decision" \/ ~IdentifierFits(f) THEN peerID ELSE id[q])
      /\ UNCHANGED <<entry, lease, served, fate>>
      /\ UNCHANGED <<state, client>>
      /\ id' = id
  BY DEF ReadRequest, client
<1>2. q \in Requests /\ f.kind = q[1] /\ id[o] # 0 /\ o \in Operations /\ f.accept \in BOOLEAN
  <2>1. f \in ClientFrames
    BY <1>a, <1>1, HeadTailProperties DEF Frames
  <2>2. QED
    BY <1>1, <2>1, RequestTypes DEF ClientFrames, Known, Frame
<1>3. /\ f.kind # "decision" => q = o /\ q \in Operations
      /\ f.kind = "decision" => q \notin Operations /\ q # Bind /\ q[1] # "call"
  BY <1>2, RequestFacts, RequestTypes
<1>4. \/ /\ decided \/ ~IdentifierFits(f)
         /\ protocolError' \in {protocolError, TRUE}
         /\ UNCHANGED <<out, active, activeCount, reserved, held, disp>>
      \/ /\ IdentifierFits(f) /\ Overloaded(q)
         /\ out' = Queued("server", Message(ReplyKind(q), q, "definite", FALSE))
         /\ UNCHANGED <<protocolError, active, activeCount, reserved, held, disp>>
      \/ /\ IdentifierFits(f) /\ ~Overloaded(q)
         /\ Admit(f)
         /\ UNCHANGED protocolError
  BY DEF ReadRequest
<1>5. \A kind \in {"accepted", "offer", "done"} : \A code \in Codes : Message(kind, q, code, FALSE) \in Frame
  BY <1>2 DEF Message, Frame
<1>6. IdentifierFits(f) => IF f.kind = "decision" THEN id[o] <= peerID /\ active[o] = <<>> ELSE id[o] > peerID
  BY DEF IdentifierFits
<1>7. peerID' \in Nat /\ peerID <= peerID'
  BY <1>a, <1>1, <1>2, <1>3, <1>6 DEF ServerTypes
<1>8. Entries' = Entries /\ (Open("server")' => Open("server"))
  BY <1>1 DEF Entries, Open
<1>9. CASE /\ decided \/ ~IdentifierFits(f)
           /\ protocolError' \in {protocolError, TRUE}
           /\ UNCHANGED <<out, active, activeCount, reserved, held, disp>>
  <2>1. peerID' = peerID
    BY <1>1, <1>9
  <2>2. ServerTypes'
    BY <1>a, <1>1, <1>9, <2>1 DEF ServerTypes
  <2>3. ServerState'
    BY <1>1, <1>8, <1>9, <2>1, <2>2, Notes
  <2>4. TransportTypes' /\ Frames'
    BY <1>a, <1>1, <1>9, ServerTransport DEF TransportTypes
  <2>5. QED
    BY <2>3, <2>4 DEF Connection
<1>10. CASE /\ IdentifierFits(f) /\ Overloaded(q)
            /\ out' = Queued("server", Message(ReplyKind(q), q, "definite", FALSE))
            /\ UNCHANGED <<protocolError, active, activeCount, reserved, held, disp>>
  <2>1. ServerTypes'
    BY <1>a, <1>1, <1>7, <1>10 DEF ServerTypes
  <2>2. TransportTypes' /\ Frames'
    <3>1. Message(ReplyKind(q), q, "definite", FALSE) \in Frame
      BY <1>5 DEF ReplyKind, Codes
    <3>2. QED
      BY <1>a, <1>1, <1>10, <3>1, ServerTransport DEF TransportTypes
  <2>3. Seen'
    BY <1>a, <1>1, <1>7, <1>10 DEF Seen, ServerTypes
  <2>4. Reserved'
    BY <1>a, <1>10 DEF Reserved
  <2>5. ResultsBounded'
    BY <1>a, <1>8, <1>10 DEF ResultsBounded
  <2>6. Counts(activeCount', active')
    BY <1>a, <1>10, CountsKept
  <2>7. QED
    BY <2>1, <2>2, <2>3, <2>4, <2>5, <2>6, ServerParts DEF Connection
<1>11. CASE /\ IdentifierFits(f) /\ ~Overloaded(q)
            /\ Admit(f)
            /\ UNCHANGED protocolError
  <2> DEFINE r == [NoDispatch EXCEPT !.pc = "admit", !.accept = f.accept, !.holds = q = Bind \/ q[1] = "call"]
             m == Message("accepted", q, "ok", FALSE)
  <2>1. /\ active' = [active EXCEPT ![o] = q]
        /\ activeCount' = Count(activeCount, q, "up")
        /\ reserved' = [inbound |-> reserved.inbound + (IF q = Bind THEN 1 ELSE 0),
                        results |-> reserved.results + (IF q[1] = "call" THEN 1 ELSE 0)]
        /\ held' = IF q = o THEN [held EXCEPT ![o] = "live"] ELSE held
        /\ disp' = [disp EXCEPT ![q] = r]
        /\ out' = Queued("server", m)
    BY <1>11 DEF Admit
  <2>2. r \in DispatchType /\ r.pc = "admit" /\ r.holds = (q = Bind \/ q[1] = "call")
    BY <1>2 DEF DispatchType, NoDispatch, Codes
  <2>3. m \in Frame
    BY <1>5 DEF Codes
  <2> HIDE DEF m, r
  <2>4. TransportTypes' /\ Frames'
    BY <1>a, <1>1, <1>11, <2>1, <2>3, ServerTransport DEF TransportTypes
  <2> HIDE DEF f, q, o, decided
  <2>5. ~disp[q].holds /\ active[o] = <<>>
    <3>1. CASE f.kind = "decision"
      BY <1>2, <1>3, <1>6, <1>11, <3>1, <1>a DEF Reserved
    <3>2. CASE f.kind # "decision"
      <4>1. id[o] > peerID /\ q = o /\ q \in Operations
        BY <1>3, <1>6, <1>11, <3>2
      <4>2. disp[q].pc = "idle" /\ active[o] = <<>>
        BY <1>a, <4>1 DEF Seen, ServerTypes
      <4>3. QED
        BY <1>a, <1>2, <4>2 DEF Reserved
    <3>3. QED
      BY <3>1, <3>2
  <2>6. disp' \in [Requests -> DispatchType] /\ Goes(q, "admit", (q = Bind \/ q[1] = "call"))
    <3>1. disp' \in [Requests -> DispatchType] /\ Goes(q, r.pc, r.holds)
      BY <1>a, <1>2, <2>1, <2>2, DispatchSet
    <3>2. QED
      BY <2>2, <3>1
  <2>7. Reserved' /\ reserved' \in [inbound : Nat, results : Nat]
    BY <1>a, <1>2, <2>1, <2>5, <2>6, AdmitReserves
  <2>8. Counts(activeCount', active') /\ activeCount' \in [Lanes -> Nat]
    <3>1. active \in Tables /\ activeCount \in [Lanes -> Nat]
      BY <1>a DEF ServerTypes, Tables
    <3>2. Counts(activeCount', [active EXCEPT ![o] = q]) /\ activeCount' \in [Lanes -> Nat]
      BY <1>a, <1>2, <2>1, <2>5, <3>1, CountsUp
    <3>3. QED
      BY <2>1, <3>2
  <2>9. active' \in [Operations -> Requests \cup {<<>>}] /\ held' \in [Operations -> Lease]
    BY <1>a, <1>2, <2>1 DEF ServerTypes, Lease
  <2>10. ServerTypes'
    BY <1>a, <1>1, <1>7, <2>6, <2>7, <2>8, <2>9 DEF ServerTypes
  <2>11. Seen'
    <3>1. id[o] <= peerID'
      BY <1>a, <1>1, <1>2, <1>3, <1>6, <1>7, <1>11 DEF ServerTypes
    <3>2. ASSUME NEW x \in Operations, x # o
          PROVE  disp'[x].pc # "idle" \/ active'[x] # <<>> => id[x] # 0 /\ id[x] <= peerID'
      <4>1. x # q
        BY <1>3, <3>2
      <4>2. disp'[x].pc = disp[x].pc /\ active'[x] = active[x]
        BY <1>a, <2>1, <2>6, <3>2, <4>1, RequestFacts DEF Goes, ServerTypes
      <4>3. QED
        BY <1>a, <1>7, <4>2 DEF Seen, ServerTypes
    <3>3. QED
      BY <1>1, <1>2, <3>1, <3>2 DEF Seen
  <2>12. ResultsBounded'
    <3>1. CASE q[1] = "call"
      <4>1. ~(Cardinality(Entries) + reserved.results >= MaxPendingResults)
        BY <1>11, <3>1 DEF Overloaded
      <4>2. reserved'.results = reserved.results + 1 /\ reserved.results \in Nat
        BY <1>a, <2>1, <3>1 DEF ServerTypes
      <4>3. MaxPendingResults \in Nat
        BY EndpointAssumption
      <4>4. QED
        BY <1>8, <4>1, <4>2, <4>3, EntriesFinite DEF ResultsBounded
    <3>2. CASE q[1] # "call"
      <4>1. reserved'.results = reserved.results
        BY <1>a, <2>1, <3>2 DEF ServerTypes
      <4>2. QED
        BY <1>a, <1>8, <4>1 DEF ResultsBounded
    <3>3. QED
      BY <3>1, <3>2
  <2>13. QED
    BY <2>4, <2>7, <2>8, <2>10, <2>11, <2>12, ServerParts DEF Connection
<1>12. QED
  BY <1>4, <1>9, <1>10, <1>11

-----------------------------------------------------------------------------
(* Every step                                                              *)

\* A dispatch is the server's alone.
LEMMA DispatchStepKeeps ==
  ASSUME ServerState, Connection, scenario.answers \subseteq Codes, DispatchStep
  PROVE  ServerState' /\ Connection' /\ UNCHANGED client
<1>1. ASSUME NEW ok \in BOOLEAN, DispatchBind(ok) PROVE ServerState' /\ Connection' /\ UNCHANGED client
  BY <1>1, DispatchBindKeeps DEF DispatchBind
<1>2. ASSUME NEW c \in Calls,
             \/ DispatchCall(c) \/ Offer(c) \/ DispatchDecision(c) \/ DecisionChecks(c)
             \/ \E code \in scenario.answers : HandlerReturns(c, code)
             \/ \E code \in Codes : DecisionApplies(c, code) \/ DispatchDrop(c, code)
      PROVE  ServerState' /\ Connection' /\ UNCHANGED client
  <2>1. CASE DispatchCall(c)
    BY <2>1, DispatchCallKeeps DEF DispatchCall
  <2>2. CASE Offer(c)
    BY <2>2, OfferKeeps DEF Offer
  <2>3. CASE DispatchDecision(c)
    BY <2>3, DispatchDecisionKeeps DEF DispatchDecision
  <2>4. CASE DecisionChecks(c)
    BY <2>4, DecisionChecksKeeps DEF DecisionChecks
  <2>5. ASSUME NEW code \in Codes, HandlerReturns(c, code) PROVE ServerState' /\ Connection' /\ UNCHANGED client
    BY <2>5, HandlerReturnsKeeps DEF HandlerReturns
  <2>6. ASSUME NEW code \in Codes, DecisionApplies(c, code) PROVE ServerState' /\ Connection' /\ UNCHANGED client
    BY <2>6, DecisionAppliesKeeps DEF DecisionApplies
  <2>7. ASSUME NEW code \in Codes, DispatchDrop(c, code) PROVE ServerState' /\ Connection' /\ UNCHANGED client
    BY <2>7, DispatchDropKeeps DEF DispatchDrop
  <2>8. QED
    BY <1>2, <2>1, <2>2, <2>3, <2>4, <2>5, <2>6, <2>7
<1>3. CASE DispatchClose
  BY <1>3, DispatchCloseKeeps DEF DispatchClose
<1>4. CASE CloseAborted
  BY <1>4, CloseAbortedKeeps DEF CloseAborted
<1>5. ASSUME NEW q \in Requests, DispatchStopped(q) PROVE ServerState' /\ Connection' /\ UNCHANGED client
  BY <1>5, DispatchStoppedKeeps DEF DispatchStopped
<1>6. ASSUME NEW q \in Requests, DispatchFinish(q) PROVE ServerState' /\ Connection' /\ UNCHANGED client
  BY <1>6, DispatchFinishKeeps DEF DispatchFinish
<1>7. QED
  BY <1>1, <1>2, <1>3, <1>4, <1>5, <1>6 DEF DispatchStep

\* What the program asks for, and what the clock does to a request.
ClientFault ==
    \/ Request
    \/ \E q \in Requests : ContextEnds(q) \/ CancelRequest(q) \/ CancelTimer(q)
    \/ \E o \in Operations : OperationLapse(o)
    \/ BindingLapse

LEMMA ClientFaultKeeps ==
  ASSUME ClientState, ClientFault
  PROVE  ClientState' /\ UNCHANGED <<id, state, server>>
<1>1. ASSUME NEW q \in Requests, Ask(q) PROVE ClientState' /\ UNCHANGED <<id, state, server>>
  BY <1>1, AskKeeps DEF Ask
<1>2. ASSUME NEW q \in Requests, ContextEnds(q) PROVE ClientState' /\ UNCHANGED <<id, state, server>>
  BY <1>2, ContextKeeps DEF ContextEnds
<1>3. ASSUME NEW q \in Requests, CancelRequest(q) PROVE ClientState' /\ UNCHANGED <<id, state, server>>
  BY <1>3, CancelRequestKeeps DEF CancelRequest
<1>4. ASSUME NEW q \in Requests, CancelTimer(q) PROVE ClientState' /\ UNCHANGED <<id, state, server>>
  BY <1>4, CancelGivesUpKeeps DEF CancelTimer
<1>5. CASE OperationLapseOrShutdown
  <2>1. ClientState'
    BY <1>5, LapseKeeps
  <2>2. UNCHANGED <<id, state, server>>
    BY <1>5 DEF OperationLapseOrShutdown, OperationLapse, BindingLapse, RoutesShutdown
  <2>3. QED
    BY <2>1, <2>2
<1>6. QED
  BY <1>1, <1>2, <1>3, <1>4, <1>5 DEF ClientFault, Request, OperationLapseOrShutdown

LEMMA ClientStepIsLocal ==
  ASSUME ClientStep
  PROVE  UNCHANGED <<state, server>>
<1>1. ASSUME NEW q \in Requests, RequestStep(q) PROVE UNCHANGED <<state, server>>
  BY <1>1 DEF RequestStep, EnqueueRequest, RequestUnsent, RequestReply, CancelRequest, CancelGivesUp,
              CancelSend, CancelReply, CancelCleaned, ControlReturns
<1>2. ASSUME NEW c \in Calls,
             \/ CallReturns(c) \/ DecisionReturns(c) \/ RoutesCancel(c) \/ RoutesDiscard(c)
             \/ \E accept \in BOOLEAN : Decide(c, accept)
      PROVE  UNCHANGED <<state, server>>
  BY <1>2 DEF CallReturns, DecisionReturns, RoutesCancel, RoutesDiscard, Decide
<1>3. ASSUME NEW confirmed \in BOOLEAN, BindReturns(confirmed) PROVE UNCHANGED <<state, server>>
  BY <1>3 DEF BindReturns
<1>4. CASE RoutesFinish \/ ClientExpires
  BY <1>4 DEF RoutesFinish, ClientExpires
<1>5. QED
  BY <1>1, <1>2, <1>3, <1>4 DEF ClientStep

LEMMA ShutdownEndsKeeps ==
  ASSUME ClientState, ServerState, NEW side \in Sides, ShutdownEnds(side)
  PROVE  ClientState' /\ ServerState'
<1>1. /\ state[side] = "closing" /\ state' = [state EXCEPT ![side] = "closed"]
      /\ UNCHANGED <<protocolError, transport, client, server>>
  BY DEF ShutdownEnds
<1>2. TransportTypes /\ Frames
  BY DEF ClientState
<1>3. id' = id /\ out' = out /\ wire' = wire
  BY <1>1 DEF client, transport
<1>4. TransportTypes' /\ Frames'
  BY <1>1, <1>2, <1>3 DEF TransportTypes, Frames, ClientFrames, Known
<1>5. Open("server")' => Open("server")
  BY <1>1, <1>2 DEF Open, TransportTypes, Sides
<1>6. QED
  BY <1>1, <1>3, <1>4, <1>5, ClientIdle, ServerIdle

LEMMA FailKeeps ==
  ASSUME ClientState, ServerState, NEW side \in Sides, Fail(side)
  PROVE  ClientState' /\ ServerState'
<1>1. CASE FailClient
  <2>1. /\ state' = [state EXCEPT !["client"] = "closing"] /\ UNCHANGED <<id, server>>
    BY <1>1 DEF FailClient
  <2>2. Open("server")' => Open("server")
    BY <2>1 DEF Open, ClientState, TransportTypes, Sides
  <2>3. ClientState'
    BY <1>1, FailClientKeeps
  <2>4. ServerState'
    BY <2>1, <2>2, ServerIdle
  <2>5. QED
    BY <2>3, <2>4
<1>2. CASE FailServer
  <2>1. Connection
    BY DEF ClientState, Connection
  <2>2. ServerState' /\ Connection' /\ UNCHANGED client
    BY <1>2, <2>1, FailServerKeeps
  <2>3. QED
    BY <2>2, ClientIdle DEF Connection
<1>3. QED
  BY <1>1, <1>2 DEF Fail

LEMMA TransportStepKeeps ==
  ASSUME ClientState, ServerState, TransportStep
  PROVE  ClientState' /\ ServerState'
<1>a. Connection /\ id \in [Operations -> Nat]
  BY DEF ClientState, Connection, ClientTypes
<1>1. ASSUME NEW lane \in Lanes, WriteClient(lane) PROVE ClientState' /\ ServerState'
  <2>1. UNCHANGED <<id, state, server>>
    BY <1>1 DEF WriteClient
  <2>2. QED
    BY <1>1, <2>1, WriteClientKeeps, ServerIdle DEF Open
<1>2. CASE ReadClient
  <2>1. UNCHANGED <<id, state, server>>
    BY <1>2 DEF ReadClient
  <2>2. QED
    BY <1>2, <2>1, ReadClientKeeps, ServerIdle DEF Open
<1>3. ASSUME ServerState', Connection', UNCHANGED client PROVE ClientState' /\ ServerState'
  BY <1>3, ClientIdle DEF Connection
<1>4. ASSUME NEW lane \in Lanes, WriteServer(lane) PROVE ClientState' /\ ServerState'
  BY <1>a, <1>3, <1>4, WriteServerKeeps DEF WriteServer
<1>5. CASE ReadCancel
  BY <1>a, <1>3, <1>5, ReadCancelKeeps DEF ReadCancel
<1>6. CASE ReadRequest
  BY <1>a, <1>3, <1>6, ReadRequestKeeps DEF ReadRequest
<1>7. ASSUME NEW side \in Sides, ConnectionLost(side) PROVE ClientState' /\ ServerState'
  BY <1>7, FailKeeps DEF ConnectionLost
<1>8. ASSUME NEW side \in Sides, ShutdownEnds(side) PROVE ClientState' /\ ServerState'
  BY <1>8, ShutdownEndsKeeps
<1>9. QED
  BY <1>1, <1>2, <1>4, <1>5, <1>6, <1>7, <1>8 DEF TransportStep

LEMMA ScenarioFacts ==
  ASSUME scenario \in Scenarios
  PROVE  scenario.answers \subseteq Codes /\ scenario.faults \in Nat /\ scenario.bound \in BOOLEAN
  BY EndpointAssumption DEF Codes

LEMMA NextKeeps ==
  ASSUME ClientState, ServerState, scenario \in Scenarios, Next
  PROVE  ClientState' /\ ServerState'
<1>a. Connection
  BY DEF ClientState, Connection
<1>1. ASSUME ServerState', Connection', UNCHANGED client PROVE ClientState' /\ ServerState'
  BY <1>1, ClientIdle DEF Connection
<1>2. CASE ClientStep
  <2>1. ClientState' /\ \A x \in Operations : id'[x] = id[x] \/ id[x] = 0
    BY <1>2, ClientStepKeeps
  <2>2. UNCHANGED <<state, server>>
    BY <1>2, ClientStepIsLocal
  <2>3. ServerState'
    BY <2>1, <2>2, ServerIdle DEF Open
  <2>4. QED
    BY <2>1, <2>3
<1>3. CASE TransportStep
  BY <1>3, TransportStepKeeps
<1>4. CASE DispatchStep
  BY <1>a, <1>1, <1>4, ScenarioFacts, DispatchStepKeeps
<1>5. CASE LeaseStep
  BY <1>a, <1>1, <1>5, LeaseKeeps
<1>6. CASE ClientFault
  <2>1. ClientState' /\ UNCHANGED <<id, state, server>>
    BY <1>6, ClientFaultKeeps
  <2>2. ServerState'
    BY <2>1, ServerIdle DEF Open
  <2>3. QED
    BY <2>1, <2>2
<1>7. ASSUME NEW side \in Sides, Fail(side) PROVE ClientState' /\ ServerState'
  BY <1>7, FailKeeps
<1>8. QED
  BY <1>2, <1>3, <1>4, <1>5, <1>6, <1>7 DEF Next, Progress, Fault, ClientFault

LEMMA InitHolds == Init => IInv
<1> SUFFICES ASSUME Init PROVE IInv
  OBVIOUS
<1>e. <<>> \in Seq(Frame) /\ <<>> \in Seq(ClientFrames)
  BY EmptySeq
<1>s. scenario.faults \in Nat /\ scenario.bound \in BOOLEAN
  BY ScenarioFacts DEF Init
<1>r. NoRequest \in RequestType /\ NoRequest.pc = "idle" /\ NoRequest.outcome = "none"
  BY <1>e DEF NoRequest, RequestType
<1>d. NoDispatch \in DispatchType /\ NoDispatch.pc = "idle" /\ ~NoDispatch.holds
  BY DEF NoDispatch, DispatchType, Codes
<1>1. TypeOK
  <2>1. TransportTypes
    BY <1>e DEF Init, TransportTypes
  <2>2. ClientTypes
    BY <1>r DEF Init, ClientTypes, NoPending, PendingType, Lease
  <2>3. ServerTypes
    BY <1>d, <1>s DEF Init, ServerTypes, NoEntry, EntryType, Lease
  <2>4. QED
    BY <1>s, <2>1, <2>2, <2>3 DEF Init, TypeOK
<1>2. Frames
  BY <1>e DEF Init, Frames, Sides
<1>3. ClientInv
  <2>1. \A o \in Operations : Waiting[o] = <<>> /\ pending[o].request = <<>>
    BY DEF Init, Waiting, NoPending
  <2>2. Counts(pendingCount, Waiting)
    BY <2>1, CountsNone DEF Init
  <2>3. \A q \in Requests : req[q].pc = "idle" /\ req[q].outcome = "none" /\ cancel[q] = "none"
    BY <1>r DEF Init
  <2>4. Pending /\ Canceled
    BY <2>1, <2>3 DEF Pending, Canceled
  <2>5. Identified
    BY <2>3, RequestFacts DEF Identified, InFlight, Init
  <2>6. DecidedOnce /\ ClosedOnce
    BY <2>3, CallFacts DEF DecidedOnce, ClosedOnce, Init
  <2>7. QED
    BY <2>2, <2>4, <2>5, <2>6 DEF ClientInv, RequestInv
<1>4. ServerInv
  <2>1. \A q \in Requests : disp[q].pc = "idle" /\ ~disp[q].holds
    BY <1>d DEF Init
  <2>2. Seen
    BY <2>1, RequestFacts DEF Seen, Init
  <2>3. Counts(activeCount, active)
    BY CountsNone DEF Init
  <2>4. Reserved
    <3>1. {c \in Calls : disp[Call(c)].holds} = {}
      BY <2>1, CallFacts
    <3>2. Cardinality({c \in Calls : disp[Call(c)].holds}) = 0
      BY <3>1, FS_EmptySet
    <3>3. QED
      BY <2>1, <3>2, CallFacts DEF Reserved, Init
  <2>5. ResultsBounded
    <3>1. Entries = {}
      BY DEF Init, Entries, NoEntry
    <3>2. Cardinality(Entries) = 0
      BY <3>1, FS_EmptySet
    <3>3. QED
      BY <3>2, EndpointAssumption DEF ResultsBounded, Init
  <2>6. QED
    BY <2>2, <2>3, <2>4, <2>5 DEF ServerInv
<1>5. QED
  BY <1>1, <1>2, <1>3, <1>4 DEF IInv

LEMMA StutterKeeps ==
  ASSUME IInv, UNCHANGED vars
  PROVE  IInv'
<1>1. UNCHANGED <<state, protocolError, transport, client, server, faults, scenario>>
  BY DEF vars
<1>2. ClientState /\ ServerState /\ TransportTypes /\ Frames
  BY DEF IInv, TypeOK, ClientState, ServerState
<1>3. TransportTypes' /\ Frames' /\ id' = id
  BY <1>1, <1>2, TransportKept DEF client
<1>4. ClientState' /\ ServerState'
  BY <1>1, <1>2, <1>3, ClientIdle, ServerIdle DEF Open
<1>5. QED
  BY <1>1, <1>4 DEF IInv, TypeOK, ClientState, ServerState

LEMMA StepKeeps == IInv /\ [Next]_vars => IInv'
<1> SUFFICES ASSUME IInv, [Next]_vars PROVE IInv'
  OBVIOUS
<1>1. CASE Next
  <2>1. ClientState /\ ServerState /\ scenario \in Scenarios /\ faults \in 0..scenario.faults
    BY DEF IInv, TypeOK, ClientState, ServerState
  <2>2. ClientState' /\ ServerState'
    BY <1>1, <2>1, NextKeeps
  <2>3. scenario' = scenario /\ faults' \in 0..scenario.faults
    BY <1>1, <2>1, ScenarioFacts DEF Next
  <2>4. QED
    BY <2>1, <2>2, <2>3 DEF IInv, TypeOK, ClientState, ServerState
<1>2. CASE UNCHANGED vars
  BY <1>2, StutterKeeps
<1>3. QED
  BY <1>1, <1>2

LEMMA EndpointInvariant == Spec => []IInv
<1>1. Init => IInv
  BY InitHolds
<1>2. IInv /\ [Next]_vars => IInv'
  BY StepKeeps
<1>3. QED
  BY <1>1, <1>2, PTL DEF Spec

-----------------------------------------------------------------------------
\* Every part of an endpoint stays in its type (rpc/endpoint.go, Endpoint).
THEOREM EndpointTypes == Spec => []TypeOK
<1>1. IInv => TypeOK
  BY DEF IInv
<1>2. QED
  BY <1>1, EndpointInvariant, PTL

\* The counters that bound an endpoint agree with the tables they count, every
\* reservation is given back exactly once, and no more results are held or reserved
\* than the limit allows (finish and releaseReservation of dispatch,
\* removePendingLocked, the overload checks of readLoop).
THEOREM CountersHold == Spec => []CountersAgree
<1>1. IInv => CountersAgree
  <2> SUFFICES ASSUME IInv PROVE CountersAgree
    OBVIOUS
  <2>1. ASSUME NEW lane \in Lanes
        PROVE  /\ pendingCount[lane] = Cardinality({o \in Operations :
                      pending[o].request # <<>> /\ CountedAs(pending[o].request) = lane})
               /\ activeCount[lane] = Cardinality({o \in Operations :
                      active[o] # <<>> /\ CountedAs(active[o]) = lane})
    <3>1. InLane(Waiting, lane) = {o \in Operations : pending[o].request # <<>> /\ CountedAs(pending[o].request) = lane}
      BY DEF InLane, Waiting
    <3>2. InLane(active, lane) = {o \in Operations : active[o] # <<>> /\ CountedAs(active[o]) = lane}
      BY DEF InLane
    <3>3. pendingCount[lane] = Cardinality(InLane(Waiting, lane)) /\ activeCount[lane] = Cardinality(InLane(active, lane))
      BY DEF IInv, ClientInv, ServerInv, Counts
    <3>4. QED
      BY <3>1, <3>2, <3>3
  <2>2. /\ reserved.results = Cardinality({c \in Calls : disp[Call(c)].holds})
        /\ reserved.inbound = (IF disp[Bind].holds THEN 1 ELSE 0)
        /\ Open("server") => Cardinality(Entries) + reserved.results <= MaxPendingResults
    BY DEF IInv, ServerInv, Reserved, ResultsBounded
  <2>3. QED
    BY <2>1, <2>2 DEF CountersAgree
<1>2. QED
  BY <1>1, EndpointInvariant, PTL

-----------------------------------------------------------------------------
(* What is on its way                                                      *)

\* The frames of a sequence, and what a side has queued, or written and its peer
\* not read.
Within(s) == {s[i] : i \in 1..Len(s)}
OutOf(side) == UNION {Within(out[side][lane]) : lane \in Lanes}
Flying(side) == OutOf(side) \cup Within(wire[side])

\* A frame of the client that makes a request, and a reply that ends one with success.
Asks(f) == f.kind # "cancel"
Answers(f) == f.kind # "accepted" /\ f.code = "ok"

\* The client sends a request once, and the operations in the order of their
\* identifiers; a decision has that of its call and may overtake them.
Follows(ids, f, g) ==
    Asks(f) /\ Asks(g) =>
        /\ f.of # g.of
        /\ f.of \in Operations /\ g.of \in Operations => ids[f.of] < ids[g.of]
InOrder(ids, s) == \A i, j \in 1..Len(s) : i < j => Follows(ids, s[i], s[j])

\* The server accepts a request before it answers it, and answers it once.
Precedes(f, g) == f.of = g.of => f.kind = "accepted" /\ g.kind # "accepted"
InTurn(s) == \A i, j \in 1..Len(s) : i < j => Precedes(s[i], s[j])

LEMMA WithinEmpty == Within(<<>>) = {} /\ \A ids : InOrder(ids, <<>>) /\ InTurn(<<>>)
  BY DEF Within, InOrder, InTurn

LEMMA WithinType ==
  ASSUME NEW S, NEW s \in Seq(S)
  PROVE  Within(s) \subseteq S
  BY DEF Within

LEMMA WithinAppend ==
  ASSUME NEW S, NEW s \in Seq(S), NEW f \in S
  PROVE  Within(Append(s, f)) = Within(s) \cup {f}
<1> PICK t : t = Append(s, f)
  OBVIOUS
<1>1. /\ Len(t) = Len(s) + 1 /\ Len(s) \in Nat /\ t[Len(s) + 1] = f
      /\ \A i \in 1..Len(s) : t[i] = s[i]
  BY AppendProperties
<1>2. Within(t) \subseteq Within(s) \cup {f}
  BY <1>1 DEF Within
<1>3. Within(s) \cup {f} \subseteq Within(t)
  BY <1>1 DEF Within
<1>4. QED
  BY <1>2, <1>3

LEMMA WithinTail ==
  ASSUME NEW S, NEW s \in Seq(S), s # <<>>
  PROVE  /\ Within(Tail(s)) \subseteq Within(s) /\ Head(s) \in Within(s) /\ Head(s) \in S
         /\ Within(s) = Within(Tail(s)) \cup {Head(s)} /\ Tail(s) \in Seq(S)
<1> PICK t : t = Tail(s)
  OBVIOUS
<1> PICK h : h = Head(s)
  OBVIOUS
<1>1. /\ Len(s) \in Nat /\ Len(s) > 0 /\ Len(t) = Len(s) - 1 /\ h = s[1] /\ t \in Seq(S) /\ h \in S
      /\ \A i \in 1..Len(t) : t[i] = s[i + 1]
  BY HeadTailProperties
<1>2. Within(t) \subseteq Within(s) /\ h \in Within(s)
  BY <1>1 DEF Within
<1>3. Within(s) \subseteq Within(t) \cup {h}
  <2> SUFFICES ASSUME NEW i \in 1..Len(s), s[i] # h PROVE s[i] \in Within(t)
    BY DEF Within
  <2>1. i - 1 \in 1..Len(t) /\ t[i - 1] = s[i]
    BY <1>1
  <2>2. QED
    BY <2>1 DEF Within
<1>4. QED
  BY <1>1, <1>2, <1>3

LEMMA OrderAppend ==
  ASSUME NEW ids, NEW s \in Seq(Frame), NEW f \in Frame, InOrder(ids, s),
         \A g \in Within(s) : Follows(ids, g, f)
  PROVE  InOrder(ids, Append(s, f))
<1> PICK t : t = Append(s, f)
  OBVIOUS
<1>1. /\ Len(t) = Len(s) + 1 /\ Len(s) \in Nat /\ t[Len(s) + 1] = f
      /\ \A i \in 1..Len(s) : t[i] = s[i]
  BY AppendProperties
<1>2. ASSUME NEW i \in 1..Len(t), NEW j \in 1..Len(t), i < j PROVE Follows(ids, t[i], t[j])
  <2>1. i \in 1..Len(s) /\ t[i] = s[i] /\ s[i] \in Within(s)
    BY <1>1, <1>2 DEF Within
  <2>2. CASE j = Len(s) + 1
    BY <1>1, <2>1, <2>2
  <2>3. CASE j \in 1..Len(s)
    BY <1>1, <1>2, <2>1, <2>3 DEF InOrder
  <2>4. QED
    BY <1>1, <2>2, <2>3
<1>3. QED
  BY <1>2 DEF InOrder

LEMMA OrderTail ==
  ASSUME NEW ids, NEW s \in Seq(Frame), s # <<>>, InOrder(ids, s)
  PROVE  InOrder(ids, Tail(s)) /\ \A g \in Within(Tail(s)) : Follows(ids, Head(s), g)
<1> PICK t : t = Tail(s)
  OBVIOUS
<1> PICK h : h = Head(s)
  OBVIOUS
<1>1. /\ Len(s) \in Nat /\ Len(s) > 0 /\ Len(t) = Len(s) - 1 /\ h = s[1]
      /\ \A i \in 1..Len(t) : t[i] = s[i + 1]
  BY HeadTailProperties
<1>2. \A i \in 1..Len(t) : i + 1 \in 1..Len(s) /\ 1 < i + 1 /\ 1 \in 1..Len(s) /\ t[i] = s[i + 1]
  BY <1>1
<1>3. \A i, j \in 1..Len(t) : i < j => Follows(ids, t[i], t[j])
  BY <1>2 DEF InOrder
<1>4. \A i \in 1..Len(t) : Follows(ids, h, t[i])
  BY <1>1, <1>2 DEF InOrder
<1>5. QED
  BY <1>3, <1>4 DEF InOrder, Within

LEMMA TurnAppend ==
  ASSUME NEW s \in Seq(Frame), NEW f \in Frame, InTurn(s),
         \A g \in Within(s) : Precedes(g, f)
  PROVE  InTurn(Append(s, f))
<1> PICK t : t = Append(s, f)
  OBVIOUS
<1>1. /\ Len(t) = Len(s) + 1 /\ Len(s) \in Nat /\ t[Len(s) + 1] = f
      /\ \A i \in 1..Len(s) : t[i] = s[i]
  BY AppendProperties
<1>2. ASSUME NEW i \in 1..Len(t), NEW j \in 1..Len(t), i < j PROVE Precedes(t[i], t[j])
  <2>1. i \in 1..Len(s) /\ t[i] = s[i] /\ s[i] \in Within(s)
    BY <1>1, <1>2 DEF Within
  <2>2. CASE j = Len(s) + 1
    BY <1>1, <2>1, <2>2
  <2>3. CASE j \in 1..Len(s)
    BY <1>1, <1>2, <2>1, <2>3 DEF InTurn
  <2>4. QED
    BY <1>1, <2>2, <2>3
<1>3. QED
  BY <1>2 DEF InTurn

LEMMA TurnTail ==
  ASSUME NEW s \in Seq(Frame), s # <<>>, InTurn(s)
  PROVE  InTurn(Tail(s)) /\ \A g \in Within(Tail(s)) : Precedes(Head(s), g)
<1> PICK t : t = Tail(s)
  OBVIOUS
<1> PICK h : h = Head(s)
  OBVIOUS
<1>1. /\ Len(s) \in Nat /\ Len(s) > 0 /\ Len(t) = Len(s) - 1 /\ h = s[1]
      /\ \A i \in 1..Len(t) : t[i] = s[i + 1]
  BY HeadTailProperties
<1>2. \A i \in 1..Len(t) : i + 1 \in 1..Len(s) /\ 1 < i + 1 /\ 1 \in 1..Len(s) /\ t[i] = s[i + 1]
  BY <1>1
<1>3. \A i, j \in 1..Len(t) : i < j => Precedes(t[i], t[j])
  BY <1>2 DEF InTurn
<1>4. \A i \in 1..Len(t) : Precedes(h, t[i])
  BY <1>1, <1>2 DEF InTurn
<1>5. QED
  BY <1>3, <1>4 DEF InTurn, Within

\* A side queues a frame.
LEMMA QueuedFrames ==
  ASSUME TransportTypes, NEW side \in Sides, NEW f \in Frame, NEW lane \in Lanes, lane = LaneOf(f.kind),
         out' = Queued(side, f)
  PROVE  /\ out'[side][lane] = Append(out[side][lane], f)
         /\ \A l \in Lanes \ {lane} : out'[side][l] = out[side][l]
         /\ \A l \in Lanes : Within(out'[side][l]) = IF l = lane THEN Within(out[side][l]) \cup {f}
                                                               ELSE Within(out[side][l])
         /\ OutOf(side)' = OutOf(side) \cup {f}
         /\ out'[Peer(side)] = out[Peer(side)] /\ OutOf(Peer(side))' = OutOf(Peer(side))
<1>1. out[side] \in [Lanes -> Seq(Frame)] /\ out[side][lane] \in Seq(Frame) /\ Peer(side) # side /\ Peer(side) \in Sides
  BY DEF TransportTypes, Sides, Peer
<1> PICK more : more = Append(out[side][lane], f)
  OBVIOUS
<1>2. out'[side] = [out[side] EXCEPT ![lane] = more] /\ out'[Peer(side)] = out[Peer(side)]
  BY <1>1 DEF TransportTypes, Queued
<1>3. out'[side][lane] = more /\ \A l \in Lanes \ {lane} : out'[side][l] = out[side][l]
  BY <1>1, <1>2
<1>4. Within(more) = Within(out[side][lane]) \cup {f}
  BY <1>1, WithinAppend
<1>5. \A l \in Lanes : Within(out'[side][l]) = IF l = lane THEN Within(out[side][l]) \cup {f}
                                                           ELSE Within(out[side][l])
  BY <1>3, <1>4
<1>6. OutOf(side)' = OutOf(side) \cup {f}
  BY <1>5 DEF OutOf
<1>7. OutOf(Peer(side))' = OutOf(Peer(side))
  BY <1>2 DEF OutOf
<1>8. QED
  BY <1>2, <1>3, <1>5, <1>6, <1>7

\* A side takes a frame to write it.
LEMMA TakenFrames ==
  ASSUME TransportTypes, NEW side \in Sides, NEW lane \in Lanes, out[side][lane] # <<>>,
         out' = [out EXCEPT ![side][lane] = Tail(@)], NEW f, f = Head(out[side][lane])
  PROVE  /\ f \in Within(out[side][lane]) /\ f \in OutOf(side) /\ f \in Frame
         /\ out'[side][lane] = Tail(out[side][lane])
         /\ \A l \in Lanes \ {lane} : out'[side][l] = out[side][l]
         /\ \A l \in Lanes : Within(out'[side][l]) \subseteq Within(out[side][l])
         /\ OutOf(side)' \subseteq OutOf(side)
         /\ out'[Peer(side)] = out[Peer(side)] /\ OutOf(Peer(side))' = OutOf(Peer(side))
<1>1. out[side] \in [Lanes -> Seq(Frame)] /\ out[side][lane] \in Seq(Frame) /\ Peer(side) # side /\ Peer(side) \in Sides
  BY DEF TransportTypes, Sides, Peer
<1> PICK rest : rest = Tail(out[side][lane])
  OBVIOUS
<1>2. out'[side] = [out[side] EXCEPT ![lane] = rest] /\ out'[Peer(side)] = out[Peer(side)]
  BY <1>1 DEF TransportTypes
<1>3. out'[side][lane] = rest /\ \A l \in Lanes \ {lane} : out'[side][l] = out[side][l]
  BY <1>1, <1>2
<1>4. Within(rest) \subseteq Within(out[side][lane]) /\ f \in Within(out[side][lane]) /\ f \in Frame
  BY <1>1, WithinTail
<1>5. \A l \in Lanes : Within(out'[side][l]) \subseteq Within(out[side][l])
  BY <1>3, <1>4
<1>6. OutOf(side)' \subseteq OutOf(side) /\ f \in OutOf(side)
  BY <1>4, <1>5 DEF OutOf
<1>7. OutOf(Peer(side))' = OutOf(Peer(side))
  BY <1>2 DEF OutOf
<1>8. QED
  BY <1>2, <1>3, <1>4, <1>5, <1>6, <1>7

\* A side reads a frame of its peer.
LEMMA ReadFrames ==
  ASSUME TransportTypes, NEW side \in Sides, wire[side] # <<>>,
         wire' = [wire EXCEPT ![side] = Tail(@)], NEW f, f = Head(wire[side])
  PROVE  /\ f \in Within(wire[side]) /\ f \in Frame /\ wire[side] \in Seq(Frame)
         /\ wire'[side] = Tail(wire[side]) /\ Within(wire'[side]) \subseteq Within(wire[side])
         /\ wire'[Peer(side)] = wire[Peer(side)]
<1>1. wire[side] \in Seq(Frame) /\ Peer(side) # side /\ Peer(side) \in Sides
  BY DEF TransportTypes, Sides, Peer
<1> PICK rest : rest = Tail(wire[side])
  OBVIOUS
<1>2. wire'[side] = rest /\ wire'[Peer(side)] = wire[Peer(side)]
  BY <1>1 DEF TransportTypes
<1>3. Within(rest) \subseteq Within(wire[side]) /\ f \in Within(wire[side]) /\ f \in Frame
  BY <1>1, WithinTail
<1>4. QED
  BY <1>1, <1>2, <1>3

LEMMA WrittenFrames ==
  ASSUME TransportTypes, NEW side \in Sides, NEW f \in Frame, wire' = [wire EXCEPT ![side] = Append(@, f)]
  PROVE  /\ wire[side] \in Seq(Frame) /\ wire'[side] = Append(wire[side], f)
         /\ Within(wire'[side]) = Within(wire[side]) \cup {f} /\ wire'[Peer(side)] = wire[Peer(side)]
<1>1. wire[side] \in Seq(Frame) /\ Peer(side) # side /\ Peer(side) \in Sides
  BY DEF TransportTypes, Sides, Peer
<1> PICK more : more = Append(wire[side], f)
  OBVIOUS
<1>2. wire'[side] = more /\ wire'[Peer(side)] = wire[Peer(side)]
  BY <1>1 DEF TransportTypes
<1>3. Within(more) = Within(wire[side]) \cup {f}
  BY <1>1, WithinAppend
<1>4. QED
  BY <1>1, <1>2, <1>3

LEMMA FrameTypes ==
  ASSUME TransportTypes, NEW side \in Sides
  PROVE  /\ Flying(side) \subseteq Frame /\ OutOf(side) \subseteq Flying(side)
         /\ Within(wire[side]) \subseteq Flying(side)
         /\ \A lane \in Lanes : Within(out[side][lane]) \subseteq OutOf(side)
         /\ \A f \in Flying(side) : f.of \in Requests
<1>1. /\ wire[side] \in Seq(Frame) /\ \A lane \in Lanes : out[side][lane] \in Seq(Frame)
  BY DEF TransportTypes
<1>2. Within(wire[side]) \subseteq Frame
  BY <1>1, WithinType
<1>3. \A lane \in Lanes : Within(out[side][lane]) \subseteq Frame
  BY <1>1, WithinType
<1>4. Flying(side) \subseteq Frame
  BY <1>2, <1>3 DEF Flying, OutOf
<1>5. QED
  BY <1>4 DEF Flying, OutOf, Frame

-----------------------------------------------------------------------------
(* What the two endpoints agree on                                         *)

Begun(q) == req[q].pc \notin {"idle", "start"}

Taken == Cardinality({o \in Operations : id[o] # 0})

\* A request is on its way before its dispatch, and once.
Sending ==
    /\ \A lane \in Lanes : \A f \in Within(out["client"][lane]) :
         Asks(f) => (lane = "data" <=> f.of \in Operations)
    /\ \A lane \in Lanes : InOrder(id, out["client"][lane])
    /\ InOrder(id, wire["client"])
    /\ \A f \in Within(wire["client"]), g \in OutOf("client") : Follows(id, f, g)
    /\ \A f \in Flying("client") : Asks(f) =>
         /\ Begun(f.of) /\ disp[f.of].pc = "idle" /\ f.accept = req[f.of].accept
         /\ f.of \in Operations => peerID < id[f.of]

\* An identifier that is taken next is greater than all before it.
Numbered == peerID <= Taken /\ \A o \in Operations : id[o] <= Taken

\* ACCEPTED leaves before its dispatch runs, and the answer before it ends; a
\* request that is refused is answered without a dispatch.
Replying ==
    /\ \A f \in Flying("server") :
         /\ f.kind \in {"accepted", ReplyKind(f.of)}
         /\ Begun(f.of)
         /\ \A g \in Flying("client") : Asks(g) => g.of # f.of
    /\ \A lane \in Lanes : \A f \in Within(out["server"][lane]) : LaneOf(f.kind) = lane
    /\ \A lane \in Lanes : InTurn(out["server"][lane])
    /\ InTurn(wire["server"])
    /\ \A f \in Within(wire["server"]), g \in OutOf("server") : Precedes(f, g)
    /\ \A f \in OutOf("server") :
         IF f.kind = "accepted" THEN disp[f.of].pc = "admit" ELSE disp[f.of].pc \in {"idle", "reply"}
    /\ \A f \in Within(wire["server"]) :
         IF f.kind = "accepted" THEN disp[f.of].pc \notin {"idle", "admit"}
                                ELSE disp[f.of].pc \in {"idle", "finish", "end"}
    /\ ~Open("server") => OutOf("server") = {}

\* A dispatch has the decision its client made; what is active under an identifier
\* is a dispatch of its operation that has not finished.
Dispatching ==
    /\ \A q \in Requests :
         /\ disp[q].pc # "idle" => Begun(q) /\ disp[q].accept = req[q].accept
         /\ disp[q].finished => disp[q].pc \in {"reply", "finish", "end"}
    /\ \A o \in Operations : active[o] # <<>> =>
         OperationOf(active[o]) = o /\ disp[active[o]].pc # "idle" /\ ~disp[active[o]].finished

\* Nothing more will be said of a request.
Silent(q) ==
    /\ Begun(q) /\ disp[q].pc \in {"idle", "finish", "end"}
    /\ \A f \in Flying("server") : f.of # q
    /\ \A f \in Flying("client") : Asks(f) => f.of # q

\* What the client has noted of the replies to a request.
Noting ==
    \A o \in Operations : pending[o].request # <<>> =>
        /\ pending[o].terminal => Silent(pending[o].request)
        /\ pending[o].accepted =>
             /\ disp[pending[o].request].pc \notin {"idle", "admit"}
             /\ \A f \in Within(wire["server"]) : f.of = pending[o].request => f.kind # "accepted"

Succeeded(q) == req[q].outcome = "ok" \/ \E f \in Within(req[q].response) : Answers(f)

\* A result reached the client: its call is over, the decision may begin.
Offered(c) == Succeeded(Call(c)) \/ req[Decision(c)].pc # "idle"

Offering ==
    \A c \in Calls :
        /\ Offered(c) => Silent(Call(c)) /\ disp[Call(c)].finished
        /\ \A f \in Flying("server") : f.of = Call(c) /\ Answers(f) => disp[Call(c)].finished

\* What a decision that succeeded has made of its result.
Settles(c, accept) == IF accept THEN fate[c] \in {"accepted", "released"} ELSE fate[c] = "discarded"

\* A result is there once its handler has returned, it is decided by its decision
\* only, and a decision that succeeded, wherever its answer is, settled it.
Applying ==
    \A c \in Calls :
        /\ disp[Call(c)].pc \in {"idle", "admit", "run", "handler"} => fate[c] = "none"
        /\ disp[Call(c)].pc = "offer" => fate[c] # "none"
        /\ fate[c] = "none" => ~entry[c].present /\ disp[Decision(c)].pc # "deciding"
        /\ disp[Decision(c)].pc \in {"idle", "admit", "run", "deciding"} => fate[c] \notin {"accepted", "released"}
        /\ disp[Decision(c)].pc = "decided" /\ disp[Decision(c)].code = "ok" => Settles(c, disp[Decision(c)].accept)
        /\ \A f \in Flying("server") : f.of = Decision(c) /\ Answers(f) => Settles(c, req[Decision(c)].accept)
        /\ Succeeded(Decision(c)) => Begun(Decision(c)) /\ Settles(c, req[Decision(c)].accept)

Traffic == Sending /\ Numbered /\ Replying /\ Dispatching /\ Noting /\ Offering

Agreement == PeersAgree /\ DecisionsAgree /\ Traffic /\ Applying

-----------------------------------------------------------------------------
(* The steps of the client that send and read nothing                      *)

\* A side may end, and the client forget what it has not written.
Hushed ==
    /\ UNCHANGED <<protocolError, wire, id, server>>
    /\ out'["server"] = out["server"] /\ (Open("server")' <=> Open("server"))
    /\ \A lane \in Lanes : out'["client"][lane] \in {out["client"][lane], <<>>}

\* What such a step may do to requests.
Quietly ==
    /\ Hushed
    /\ \A q \in Requests :
         /\ Begun(q) => Begun(q)'
         /\ req[q].pc # "idle" => req'[q].pc # "idle" /\ req'[q].accept = req[q].accept
         /\ Succeeded(q)' => Succeeded(q)
    /\ \A c \in Calls : req'[Decision(c)].pc # "idle" => Offered(c)
    /\ \A o \in Operations : pending'[o].request # <<>> =>
         /\ pending'[o].request = pending[o].request
         /\ pending'[o].terminal = pending[o].terminal /\ pending'[o].accepted = pending[o].accepted
    /\ \A c \in Calls :
         /\ given'[c] = "accepted" => given[c] = "accepted" \/ (req[Decision(c)].outcome = "ok" /\ req[Decision(c)].accept)
         /\ given'[c] = "discarded" => given[c] = "discarded" \/ (req[Decision(c)].outcome = "ok" /\ ~req[Decision(c)].accept)

LEMMA FlyingKept ==
  ASSUME UNCHANGED transport
  PROVE  /\ out' = out /\ wire' = wire
         /\ \A side \in Sides : Flying(side)' = Flying(side) /\ OutOf(side)' = OutOf(side)
  BY DEF transport, Flying, OutOf

LEMMA ServerKept ==
  ASSUME UNCHANGED server
  PROVE  UNCHANGED <<peerID, active, activeCount, reserved, disp, held, entry, lease, served, fate>>
  BY DEF server

LEMMA SilentKept ==
  ASSUME NEW q \in Requests, Silent(q), Begun(q) => Begun(q)', disp'[q].pc \in {"idle", "finish", "end"},
         \A f \in Flying("server")' : f.of = q => f \in Flying("server"),
         \A f \in Flying("client")' : f.of = q /\ Asks(f) => f \in Flying("client")
  PROVE  Silent(q)'
  BY DEF Silent

LEMMA HushedFrames ==
  ASSUME Hushed
  PROVE  /\ wire' = wire /\ OutOf("server")' = OutOf("server") /\ Flying("server")' = Flying("server")
         /\ Flying("client")' \subseteq Flying("client") /\ OutOf("client")' \subseteq OutOf("client")
         /\ \A lane \in Lanes : Within(out'["client"][lane]) \subseteq Within(out["client"][lane])
<1>1. wire' = wire /\ out'["server"] = out["server"]
  BY DEF Hushed
<1>2. \A lane \in Lanes : Within(out'["client"][lane]) \subseteq Within(out["client"][lane])
  BY WithinEmpty DEF Hushed
<1>3. OutOf("server")' = OutOf("server")
  BY <1>1 DEF OutOf
<1>4. OutOf("client")' \subseteq OutOf("client")
  BY <1>2 DEF OutOf
<1>5. Flying("server")' = Flying("server") /\ Flying("client")' \subseteq Flying("client")
  BY <1>1, <1>3, <1>4 DEF Flying
<1>6. QED
  BY <1>1, <1>2, <1>3, <1>4, <1>5

LEMMA QuietlyKeeps ==
  ASSUME TypeOK, Agreement, Quietly
  PROVE  Agreement'
<1>a. /\ Hushed /\ UNCHANGED <<protocolError, id, server>> /\ (Open("server")' <=> Open("server"))
      /\ \A q \in Requests :
           /\ Begun(q) => Begun(q)'
           /\ req[q].pc # "idle" => req'[q].pc # "idle" /\ req'[q].accept = req[q].accept
           /\ Succeeded(q)' => Succeeded(q)
      /\ \A c \in Calls : req'[Decision(c)].pc # "idle" => Offered(c)
      /\ \A o \in Operations : pending'[o].request # <<>> =>
           /\ pending'[o].request = pending[o].request
           /\ pending'[o].terminal = pending[o].terminal /\ pending'[o].accepted = pending[o].accepted
  BY DEF Quietly, Hushed
<1>b. /\ out'["server"] = out["server"] /\ wire' = wire
      /\ Flying("client")' \subseteq Flying("client") /\ OutOf("client")' \subseteq OutOf("client")
      /\ Flying("server")' = Flying("server") /\ OutOf("server")' = OutOf("server")
  BY <1>a, HushedFrames DEF Hushed
<1>c. peerID' = peerID /\ disp' = disp /\ active' = active /\ entry' = entry /\ fate' = fate
  BY <1>a, ServerKept
<1>t. /\ \A f \in Flying("client") : f.of \in Requests
      /\ \A f \in Flying("server") : f.of \in Requests
      /\ \A o \in Operations : pending[o].request \in Requests \cup {<<>>}
  BY FrameTypes DEF TypeOK, Sides, ClientTypes, PendingType
<1>s. \A q \in Requests : Silent(q) => Silent(q)'
  BY <1>a, <1>b, <1>c DEF Silent
<1>n. \A q \in Requests : Begun(q) => req[q].pc # "idle"
  BY DEF Begun
<1>1. Sending'
  <2>1. Sending
    BY DEF Agreement, Traffic
  <2>2. \A lane \in Lanes : \A f \in Within(out'["client"][lane]) : Asks(f) => (lane = "data" <=> f.of \in Operations)
    BY <1>a, <2>1, HushedFrames DEF Sending
  <2>3. \A lane \in Lanes : InOrder(id, out'["client"][lane])
    BY <1>a, <2>1, WithinEmpty DEF Sending, Hushed
  <2>4. InOrder(id, wire["client"]) /\ \A f \in Within(wire["client"]), g \in OutOf("client")' : Follows(id, f, g)
    BY <1>b, <2>1 DEF Sending
  <2>5. \A f \in Flying("client")' : Asks(f) =>
          /\ Begun(f.of)' /\ disp[f.of].pc = "idle" /\ f.accept = req'[f.of].accept
          /\ f.of \in Operations => peerID < id[f.of]
    BY <1>a, <1>b, <1>t, <1>n, <2>1 DEF Sending
  <2>6. QED
    BY <1>a, <1>b, <1>c, <2>2, <2>3, <2>4, <2>5 DEF Sending
<1>2. Numbered'
  BY <1>a, <1>c DEF Numbered, Taken, Agreement, Traffic
<1>3. Replying'
  BY <1>a, <1>b, <1>c, <1>t DEF Replying, Agreement, Traffic
<1>4. Dispatching'
  BY <1>a, <1>c, <1>n DEF Dispatching, Agreement, Traffic
<1>5. Noting'
  BY <1>a, <1>b, <1>c, <1>s, <1>t DEF Noting, Agreement, Traffic
<1>6. \A c \in Calls : Call(c) \in Requests /\ Decision(c) \in Requests
  BY CallFacts
<1>7. Offering'
  <2>1. \A c \in Calls : Offered(c)' => Offered(c)
    BY <1>a, <1>6 DEF Offered
  <2>2. QED
    BY <1>b, <1>c, <1>s, <1>6, <2>1 DEF Offering, Agreement, Traffic
<1>9. Applying'
  <2> SUFFICES ASSUME NEW c \in Calls
               PROVE  /\ disp[Call(c)].pc \in {"idle", "admit", "run", "handler"} => fate[c] = "none"
                      /\ disp[Call(c)].pc = "offer" => fate[c] # "none"
                      /\ fate[c] = "none" => ~entry[c].present /\ disp[Decision(c)].pc # "deciding"
                      /\ disp[Decision(c)].pc \in {"idle", "admit", "run", "deciding"} => fate[c] \notin {"accepted", "released"}
                      /\ disp[Decision(c)].pc = "decided" /\ disp[Decision(c)].code = "ok" => Settles(c, disp[Decision(c)].accept)
                      /\ \A f \in Flying("server") : f.of = Decision(c) /\ Answers(f) => Settles(c, req'[Decision(c)].accept)
                      /\ Succeeded(Decision(c))' => Begun(Decision(c))' /\ Settles(c, req'[Decision(c)].accept)
    BY <1>b, <1>c DEF Applying, Settles
  <2>1. Applying /\ \A f \in Flying("server") : Begun(f.of)
    BY DEF Agreement, Traffic, Replying
  <2>2. Begun(Decision(c)) => Begun(Decision(c))' /\ req'[Decision(c)].accept = req[Decision(c)].accept
    BY <1>a, <1>n, <1>6
  <2>3. Succeeded(Decision(c))' => Succeeded(Decision(c))
    BY <1>a, <1>6
  <2>4. \A f \in Flying("server") : f.of = Decision(c) /\ Answers(f) => Settles(c, req'[Decision(c)].accept)
    BY <2>1, <2>2 DEF Applying
  <2>5. QED
    BY <2>1, <2>2, <2>3, <2>4 DEF Applying
<1>10. PeersAgree'
  BY <1>a DEF PeersAgree, Agreement
<1>11. DecisionsAgree'
  <2> SUFFICES ASSUME NEW c \in Calls
               PROVE  /\ given'[c] = "accepted" => fate[c] \in {"accepted", "released"}
                      /\ given'[c] = "discarded" => fate[c] = "discarded"
    BY <1>c DEF DecisionsAgree
  <2>1. req[Decision(c)].outcome = "ok" => Settles(c, req[Decision(c)].accept)
    BY DEF Applying, Agreement, Succeeded
  <2>2. QED
    BY <2>1 DEF Quietly, DecisionsAgree, Agreement, Settles
<1>12. QED
  BY <1>1, <1>2, <1>3, <1>4, <1>5, <1>7, <1>9, <1>10, <1>11 DEF Agreement, Traffic

\* A request moves on, by what it knows.
GoesOnTo(q, r) ==
    /\ Begun(q) => r.pc \notin {"idle", "start"}
    /\ req[q].pc # "idle" => r.pc # "idle" /\ r.accept = req[q].accept
    /\ r.outcome = "ok" => Succeeded(q)
    /\ \A f \in Within(r.response) : Answers(f) => f \in Within(req[q].response)

Remarks ==
    \A q \in Requests :
         /\ Begun(q) => Begun(q)'
         /\ req[q].pc # "idle" => req'[q].pc # "idle" /\ req'[q].accept = req[q].accept
         /\ Succeeded(q)' => Succeeded(q)

LEMMA OneRemark ==
  ASSUME ClientTypes, NEW q \in Requests, NEW r, req' = [req EXCEPT ![q] = r], GoesOnTo(q, r)
  PROVE  Remarks /\ req'[q] = r /\ \A p \in Requests \ {q} : req'[p] = req[p]
<1>1. req'[q] = r /\ \A p \in Requests \ {q} : req'[p] = req[p]
  BY DEF ClientTypes
<1>2. \A p \in Requests \ {q} : (Begun(p) => Begun(p)') /\ (Succeeded(p)' => Succeeded(p))
  BY <1>1 DEF Begun, Succeeded
<1>3. (Begun(q) => Begun(q)') /\ (Succeeded(q)' => Succeeded(q))
  BY <1>1 DEF GoesOnTo, Begun, Succeeded
<1>4. QED
  BY <1>1, <1>2, <1>3 DEF Remarks, GoesOnTo

\* Two requests move on.
LEMMA TwoRemarks ==
  ASSUME ClientTypes, NEW q \in Requests, NEW p \in Requests, p # q, NEW r, NEW t,
         req' = [req EXCEPT ![q] = r, ![p] = t], GoesOnTo(q, r), GoesOnTo(p, t)
  PROVE  Remarks /\ req'[q] = r /\ req'[p] = t /\ \A x \in Requests \ {p, q} : req'[x] = req[x]
<1>1. req'[q] = r /\ req'[p] = t /\ \A x \in Requests \ {p, q} : req'[x] = req[x]
  BY DEF ClientTypes
<1>2. \A x \in Requests \ {p, q} : (Begun(x) => Begun(x)') /\ (Succeeded(x)' => Succeeded(x))
  BY <1>1 DEF Begun, Succeeded
<1>3. (Begun(q) => Begun(q)') /\ (Succeeded(q)' => Succeeded(q))
  BY <1>1 DEF GoesOnTo, Begun, Succeeded
<1>4. (Begun(p) => Begun(p)') /\ (Succeeded(p)' => Succeeded(p))
  BY <1>1 DEF GoesOnTo, Begun, Succeeded
<1>5. QED
  BY <1>1, <1>2, <1>3, <1>4 DEF Remarks, GoesOnTo

\* No decision begins, or the one on a result that was offered.
DecisionsWait == \A c \in Calls : req'[Decision(c)].pc # "idle" => Offered(c)

LEMMA NoDecisionBegins ==
  ASSUME NEW q \in Requests, \A p \in Requests \ {q} : req'[p] = req[p],
         \/ q \in Operations
         \/ req[q].pc # "idle"
         \/ \E c \in Calls : q = Decision(c) /\ Succeeded(Call(c))
  PROVE  DecisionsWait
  BY CallFacts, RequestFacts DEF DecisionsWait, Offered

\* What waits is not changed, or gone.
Forgotten ==
    \A o \in Operations : pending'[o].request # <<>> =>
         /\ pending'[o].request = pending[o].request
         /\ pending'[o].terminal = pending[o].terminal /\ pending'[o].accepted = pending[o].accepted

LEMMA RemovedForgotten ==
  ASSUME ClientTypes, NEW o \in Operations, pending' = Removed(o) \/ pending' = pending
  PROVE  Forgotten
<1>1. CASE pending' = Removed(o)
  <2>1. pending'[o] = NoPending /\ \A x \in Operations \ {o} : pending'[x] = pending[x]
    BY <1>1 DEF Removed, ClientTypes
  <2>2. NoPending.request = <<>>
    BY DEF NoPending
  <2>3. QED
    BY <2>1, <2>2 DEF Forgotten
<1>2. CASE pending' = pending
  BY <1>2 DEF Forgotten
<1>3. QED
  BY <1>1, <1>2

\* Nobody is told of a decision.
LEMMA QuietlyParts ==
  ASSUME UNCHANGED <<state, protocolError, transport, id, server>>,
         Remarks, DecisionsWait, Forgotten,
         \A c \in Calls : given'[c] \in {"accepted", "discarded"} => given'[c] = given[c]
  PROVE  Quietly
<1>1. Hushed
  BY DEF Hushed, Open, transport
<1>2. QED
  BY <1>1 DEF Quietly, Remarks, DecisionsWait, Forgotten

LEMMA PcGoesOn ==
  ASSUME ClientTypes, NEW q \in Requests, NEW pc, pc # "idle", Begun(q) => pc # "start",
         NEW r, r = [req[q] EXCEPT !.pc = pc]
  PROVE  GoesOnTo(q, r)
<1>1. req[q] \in RequestType
  BY DEF ClientTypes
<1>2. r.pc = pc /\ r.outcome = req[q].outcome /\ r.response = req[q].response /\ r.accept = req[q].accept
  BY <1>1 DEF RequestType
<1>3. QED
  BY <1>2 DEF GoesOnTo, Succeeded

LEMMA ReturnGoesOn ==
  ASSUME ClientTypes, NEW q \in Requests, NEW code, code = "ok" => Succeeded(q), req' = Returned(q, code)
  PROVE  Remarks /\ \A p \in Requests \ {q} : req'[p] = req[p]
<1> PICK r : r = [req[q] EXCEPT !.pc = "returned", !.outcome = code]
  OBVIOUS
<1>1. req[q] \in RequestType
  BY DEF ClientTypes
<1>2. r.pc = "returned" /\ r.outcome = code /\ r.response = req[q].response /\ r.accept = req[q].accept
  BY <1>1 DEF RequestType
<1>3. req' = [req EXCEPT ![q] = r]
  BY DEF Returned
<1>4. GoesOnTo(q, r)
  BY <1>2 DEF GoesOnTo
<1>5. QED
  BY <1>3, <1>4, OneRemark

LEMMA AskIsQuiet ==
  ASSUME ClientState, NEW q \in Requests, Ask(q)
  PROVE  Quietly
<1>a. ClientTypes
  BY DEF ClientState
<1> PICK r : r = [req[q] EXCEPT !.pc = "start"]
  OBVIOUS
<1>1. /\ req' = [req EXCEPT ![q] = r] /\ req[q].pc = "idle" /\ q \in Operations
      /\ UNCHANGED <<state, protocolError, transport, id, server, pending, given>>
  BY RequestFacts DEF Ask, Started
<1>2. GoesOnTo(q, r)
  BY <1>a, <1>1, PcGoesOn DEF Begun
<1>3. Remarks /\ DecisionsWait
  BY <1>a, <1>1, <1>2, OneRemark, NoDecisionBegins
<1>4. Forgotten
  BY <1>1 DEF Forgotten
<1>5. QED
  BY <1>1, <1>3, <1>4, QuietlyParts

LEMMA ContextIsQuiet ==
  ASSUME ClientState, NEW q \in Requests, req[q].pc # "idle", req' = [req EXCEPT ![q].canceled = TRUE],
         UNCHANGED <<id, pending, given>>, UNCHANGED <<state, protocolError, transport, server>>
  PROVE  Quietly
<1>a. ClientTypes
  BY DEF ClientState
<1> PICK r : r = [req[q] EXCEPT !.canceled = TRUE]
  OBVIOUS
<1>1. req' = [req EXCEPT ![q] = r]
  OBVIOUS
<1>2. GoesOnTo(q, r)
  <2>1. req[q] \in RequestType
    BY <1>a DEF ClientTypes
  <2>2. r.pc = req[q].pc /\ r.outcome = req[q].outcome /\ r.response = req[q].response /\ r.accept = req[q].accept
    BY <2>1 DEF RequestType
  <2>3. QED
    BY <2>2 DEF GoesOnTo, Succeeded, Begun
<1>3. Remarks /\ DecisionsWait
  BY <1>a, <1>1, <1>2, OneRemark, NoDecisionBegins
<1>4. Forgotten
  BY DEF Forgotten
<1>5. QED
  BY <1>3, <1>4, QuietlyParts

LEMMA RequestUnsentIsQuiet ==
  ASSUME ClientState, NEW q \in Requests, RequestUnsent(q)
  PROVE  Quietly
<1>a. ClientTypes /\ OperationOf(q) \in Operations
  BY RequestTypes DEF ClientState
<1>1. /\ req' = Returned(q, "uncertain") /\ req[q].pc = "queued" /\ pending' = Removed(OperationOf(q))
      /\ UNCHANGED <<id, given>> /\ UNCHANGED <<state, protocolError, transport, server>>
  BY DEF RequestUnsent
<1>2. Remarks /\ DecisionsWait
  BY <1>a, <1>1, ReturnGoesOn, NoDecisionBegins
<1>3. Forgotten
  BY <1>a, <1>1, RemovedForgotten
<1>4. QED
  BY <1>1, <1>2, <1>3, QuietlyParts

LEMMA RequestReplyIsQuiet ==
  ASSUME ClientState, NEW q \in Requests, RequestReply(q)
  PROVE  Quietly
<1>a. ClientTypes /\ OperationOf(q) \in Operations
  BY RequestTypes DEF ClientState
<1> PICK replies : replies = req[q].response
  OBVIOUS
<1> PICK reply : reply = Head(replies)
  OBVIOUS
<1> PICK rest : rest = Tail(replies)
  OBVIOUS
<1>b. req[q] \in RequestType /\ replies \in Seq(Frame)
  BY <1>a DEF ClientTypes, RequestType
<1>1. /\ req[q].pc \in {"sent", "accepted"} /\ replies # <<>>
      /\ IF reply.kind = "accepted"
         THEN req' = [req EXCEPT ![q].pc = "accepted", ![q].response = rest] /\ pending' = pending
         ELSE req' = Returned(q, reply.code) /\ pending' = Removed(OperationOf(q))
      /\ UNCHANGED <<id, given>> /\ UNCHANGED <<state, protocolError, transport, server>>
  BY DEF RequestReply
<1>2. Within(rest) \subseteq Within(replies) /\ reply \in Within(replies)
  BY <1>b, <1>1, WithinTail
<1>3. Remarks /\ \A p \in Requests \ {q} : req'[p] = req[p]
  <2>1. CASE reply.kind = "accepted"
    <3> PICK r : r = [req[q] EXCEPT !.pc = "accepted", !.response = rest]
      OBVIOUS
    <3>1. r.pc = "accepted" /\ r.outcome = req[q].outcome /\ r.response = rest /\ r.accept = req[q].accept
      BY <1>b DEF RequestType
    <3>2. req' = [req EXCEPT ![q] = r]
      BY <1>1, <2>1
    <3>3. GoesOnTo(q, r)
      BY <1>2, <3>1 DEF GoesOnTo, Succeeded
    <3>4. QED
      BY <1>a, <3>2, <3>3, OneRemark
  <2>2. CASE reply.kind # "accepted"
    <3>1. reply.code = "ok" => Succeeded(q)
      BY <1>2, <2>2 DEF Succeeded, Answers
    <3>2. QED
      BY <1>a, <1>1, <2>2, <3>1, ReturnGoesOn
  <2>3. QED
    BY <2>1, <2>2
<1>4. DecisionsWait
  BY <1>1, <1>3, NoDecisionBegins
<1>5. Forgotten
  BY <1>a, <1>1, RemovedForgotten
<1>6. QED
  BY <1>1, <1>3, <1>4, <1>5, QuietlyParts

LEMMA CancelRequestIsQuiet ==
  ASSUME ClientState, NEW q \in Requests, CancelRequest(q)
  PROVE  Quietly
<1>a. ClientTypes /\ OperationOf(q) \in Operations
  BY RequestTypes DEF ClientState
<1>1. /\ req' = Returned(q, "uncertain") /\ req[q].pc \in {"queued", "sent", "accepted"}
      /\ pending' = pending \/ pending' = [pending EXCEPT ![OperationOf(q)].abandoned = TRUE]
      /\ UNCHANGED <<id, given>> /\ UNCHANGED <<state, protocolError, transport, server>>
  BY DEF CancelRequest
<1>2. Remarks /\ DecisionsWait
  BY <1>a, <1>1, ReturnGoesOn, NoDecisionBegins
<1>3. Forgotten
  <2>1. CASE pending' = pending
    BY <2>1 DEF Forgotten
  <2>2. CASE pending' = [pending EXCEPT ![OperationOf(q)].abandoned = TRUE]
    BY <1>a, <2>2 DEF Forgotten, ClientTypes, PendingType
  <2>3. QED
    BY <1>1, <2>1, <2>2
<1>4. QED
  BY <1>1, <1>2, <1>3, QuietlyParts

LEMMA CancelGivesUpIsQuiet ==
  ASSUME ClientState, NEW q \in Requests, CancelGivesUp(q) \/ CancelTimer(q)
  PROVE  Quietly
<1>a. ClientTypes /\ OperationOf(q) \in Operations
  BY RequestTypes DEF ClientState
<1>1. /\ pending' = Removed(OperationOf(q))
      /\ UNCHANGED <<id, given, req>> /\ UNCHANGED <<state, protocolError, transport, server>>
  BY DEF CancelGivesUp, CancelTimer, CancelEnds
<1>2. Remarks /\ DecisionsWait
  BY <1>1 DEF Remarks, DecisionsWait, Offered, Begun, Succeeded
<1>3. Forgotten
  BY <1>a, <1>1, RemovedForgotten
<1>4. QED
  BY <1>1, <1>2, <1>3, QuietlyParts

LEMMA CancelReplyIsQuiet ==
  ASSUME ClientState, NEW q \in Requests, CancelReply(q)
  PROVE  Quietly
<1>a. ClientTypes /\ OperationOf(q) \in Operations /\ RequestInv
  BY RequestTypes DEF ClientState, ClientInv
<1> PICK replies : replies = req[q].response
  OBVIOUS
<1> PICK reply : reply = Head(replies)
  OBVIOUS
<1> PICK rest : rest = Tail(replies)
  OBVIOUS
<1> PICK none : none = <<>>
  OBVIOUS
<1> PICK cleanup : cleanup = Cleanup(q, reply)
  OBVIOUS
<1>b. req[q] \in RequestType /\ replies \in Seq(Frame)
  BY <1>a DEF ClientTypes, RequestType
<1>1. /\ cancel[q] = "await" /\ replies # <<>>
      /\ IF reply.kind = "accepted"
         THEN req' = [req EXCEPT ![q].response = rest] /\ pending' = pending
         ELSE /\ pending' = Removed(OperationOf(q))
              /\ req' = IF cleanup = <<>> THEN [req EXCEPT ![q].response = none]
                                          ELSE [req EXCEPT ![q].response = none, ![cleanup].pc = "start"]
      /\ UNCHANGED <<id, given>> /\ UNCHANGED <<state, protocolError, transport, server>>
  BY DEF CancelReply
<1>2. Within(rest) \subseteq Within(replies) /\ reply \in Within(replies)
  BY <1>b, <1>1, WithinTail
<1>3. Within(none) = {}
  BY WithinEmpty
<1>4. req[q].pc \in {"returned", "end"}
  BY <1>a, <1>1 DEF RequestInv, Canceled
<1> DEFINE kept(left) == [req[q] EXCEPT !.response = left]
<1>5. ASSUME NEW left, Within(left) \subseteq Within(replies) PROVE GoesOnTo(q, kept(left))
  <2> PICK r : r = kept(left)
    OBVIOUS
  <2>1. r.pc = req[q].pc /\ r.outcome = req[q].outcome /\ r.response = left /\ r.accept = req[q].accept
    BY <1>b DEF RequestType
  <2>2. GoesOnTo(q, r)
    BY <1>5, <2>1 DEF GoesOnTo, Succeeded, Begun
  <2>3. QED
    BY <2>2
<1> HIDE DEF kept
<1>6. Remarks /\ DecisionsWait
  <2>1. CASE reply.kind = "accepted" \/ cleanup = <<>>
    <3> PICK left : left = IF reply.kind = "accepted" THEN rest ELSE none
      OBVIOUS
    <3> PICK r : r = kept(left)
      OBVIOUS
    <3>1. req' = [req EXCEPT ![q] = r]
      BY <1>1, <2>1 DEF kept
    <3>2. GoesOnTo(q, r)
      BY <1>2, <1>3, <1>5
    <3>3. Remarks /\ \A p \in Requests \ {q} : req'[p] = req[p]
      BY <1>a, <3>1, <3>2, OneRemark
    <3>4. QED
      BY <1>4, <3>3, NoDecisionBegins
  <2>2. CASE reply.kind # "accepted" /\ cleanup # <<>>
    <3>1. /\ \/ q = Bind /\ cleanup = Close
             \/ \E c \in Calls : q = Call(c) /\ cleanup = Decision(c)
          /\ reply.code = "ok"
      <4>1. \/ q = Bind /\ cleanup = Close
            \/ \E c \in Calls : q = Call(c) /\ cleanup = Decision(c)
        BY <2>2, CleanupIs
      <4>2. reply.code = "ok"
        BY <2>2 DEF Cleanup
      <4>3. QED
        BY <4>1, <4>2
    <3>2. cleanup \in Requests /\ cleanup # q
      BY <3>1, CallFacts
    <3>3. req[cleanup].pc = "idle"
      BY <1>a, <1>1, <3>1, CallFacts DEF RequestInv, Canceled, DecidedOnce, ClosedOnce
    <3> PICK r : r = kept(none)
      OBVIOUS
    <3> PICK t : t = [req[cleanup] EXCEPT !.pc = "start"]
      OBVIOUS
    <3>4. req' = [req EXCEPT ![q] = r, ![cleanup] = t]
      BY <1>a, <1>1, <2>2, <3>2 DEF ClientTypes, kept
    <3>5. GoesOnTo(q, r)
      BY <1>3, <1>5
    <3>6. GoesOnTo(cleanup, t)
      BY <1>a, <3>2, <3>3, PcGoesOn DEF Begun
    <3> HIDE <1>5
    <3> PICK p \in Requests : p = cleanup
      BY <3>2
    <3>c. ClientTypes /\ p # q /\ req' = [req EXCEPT ![q] = r, ![p] = t] /\ GoesOnTo(q, r) /\ GoesOnTo(p, t)
      BY <1>a, <3>2, <3>4, <3>5, <3>6
    <3>7. Remarks /\ req'[q] = r /\ \A x \in Requests \ {cleanup, q} : req'[x] = req[x]
      <4>1. Remarks /\ req'[q] = r /\ req'[p] = t /\ \A x \in Requests \ {p, q} : req'[x] = req[x]
        BY ONLY q \in Requests, p \in Requests, <3>c, TwoRemarks
      <4>2. QED
        BY <4>1
    <3>8. Succeeded(q)
      BY <1>2, <2>2, <3>1 DEF Succeeded, Answers
    <3>9. DecisionsWait
      BY <3>1, <3>7, <3>8, CallFacts DEF DecisionsWait, Offered
    <3>10. QED
      BY <3>7, <3>9
  <2>3. QED
    BY <2>1, <2>2
<1>7. Forgotten
  BY <1>a, <1>1, RemovedForgotten
<1>8. QED
  BY <1>1, <1>6, <1>7, QuietlyParts

\* A request that has returned ends.
LEMMA EndIsQuiet ==
  ASSUME ClientState, NEW q \in Requests, req[q].pc = "returned", req' = [req EXCEPT ![q].pc = "end"],
         \/ pending' = pending
         \/ \E o \in Operations : pending' = Removed(o),
         UNCHANGED id, UNCHANGED <<state, protocolError, transport, server>>
  PROVE  Remarks /\ DecisionsWait /\ Forgotten
<1>a. ClientTypes
  BY DEF ClientState
<1> PICK r : r = [req[q] EXCEPT !.pc = "end"]
  OBVIOUS
<1>1. req' = [req EXCEPT ![q] = r]
  OBVIOUS
<1>2. GoesOnTo(q, r)
  BY <1>a, PcGoesOn
<1>3. Remarks /\ \A p \in Requests \ {q} : req'[p] = req[p]
  BY <1>a, <1>1, <1>2, OneRemark
<1>4. DecisionsWait
  BY <1>3, NoDecisionBegins
<1>5. Forgotten
  BY <1>a, RemovedForgotten, RequestFacts
<1>6. QED
  BY <1>3, <1>4, <1>5

LEMMA CancelCleanedIsQuiet ==
  ASSUME ClientState, NEW q \in Requests, CancelCleaned(q)
  PROVE  Quietly
<1>a. Canceled /\ OperationOf(q) \in Operations
  BY RequestTypes DEF ClientState, ClientInv, RequestInv
<1> PICK cleanup : cleanup = IF q = Bind THEN Close ELSE Decision(q[2])
  OBVIOUS
<1>1. /\ cancel[q] = "cleanup" /\ req[cleanup].pc = "returned" /\ req' = [req EXCEPT ![cleanup].pc = "end"]
      /\ pending' = Removed(OperationOf(q))
      /\ UNCHANGED <<id, given>> /\ UNCHANGED <<state, protocolError, transport, server>>
  BY DEF CancelCleaned, CancelEnds
<1>2. cleanup \in Requests
  BY <1>a, <1>1, RequestTypes, RequestFacts, CallFacts DEF Canceled
<1>3. Remarks /\ DecisionsWait /\ Forgotten
  BY <1>a, <1>1, <1>2, EndIsQuiet
<1>4. QED
  BY <1>1, <1>3, QuietlyParts

LEMMA BindReturnsIsQuiet ==
  ASSUME ClientState, NEW confirmed \in BOOLEAN, BindReturns(confirmed)
  PROVE  Quietly
<1>1. /\ req[Bind].pc = "returned" /\ req' = [req EXCEPT ![Bind].pc = "end"]
      /\ UNCHANGED <<id, given, pending>> /\ UNCHANGED <<state, protocolError, transport, server>>
  BY DEF BindReturns, ContinueTo
<1>2. Remarks /\ DecisionsWait /\ Forgotten
  BY <1>1, CallFacts, EndIsQuiet
<1>3. QED
  BY <1>1, <1>2, QuietlyParts

LEMMA ControlReturnsIsQuiet ==
  ASSUME ClientState, NEW q \in Requests, ControlReturns(q)
  PROVE  Quietly
<1>1. /\ req[q].pc = "returned" /\ req' = [req EXCEPT ![q].pc = "end"]
      /\ UNCHANGED <<id, given, pending>> /\ UNCHANGED <<state, protocolError, transport, server>>
  BY DEF ControlReturns, ContinueTo
<1>2. Remarks /\ DecisionsWait /\ Forgotten
  BY <1>1, EndIsQuiet
<1>3. QED
  BY <1>1, <1>2, QuietlyParts

LEMMA CallReturnsIsQuiet ==
  ASSUME ClientState, NEW c \in Calls, CallReturns(c)
  PROVE  Quietly
<1>a. ClientTypes /\ RequestInv /\ Call(c) \in Requests /\ Decision(c) \in Requests /\ Call(c) # Decision(c)
  BY CallFacts DEF ClientState, ClientInv
<1> PICK r : r = [req[Call(c)] EXCEPT !.pc = "end"]
  OBVIOUS
<1> PICK t : t = [req[Decision(c)] EXCEPT !.pc = "start"]
  OBVIOUS
<1>1. /\ req[Call(c)].pc = "returned"
      /\ \/ req' = [req EXCEPT ![Call(c)].pc = "end"]
         \/ req[Call(c)].outcome = "ok" /\ req' = [req EXCEPT ![Call(c)].pc = "end", ![Decision(c)].pc = "start"]
      /\ UNCHANGED <<id, pending>> /\ UNCHANGED <<state, protocolError, transport, server>>
  BY DEF CallReturns, ContinueTo
<1>2. \A d \in Calls : given'[d] \in {"accepted", "discarded"} => given'[d] = given[d]
  BY <1>a DEF CallReturns, ClientTypes
<1>3. Forgotten
  BY <1>1 DEF Forgotten
<1>4. Remarks /\ DecisionsWait
  <2>1. CASE req' = [req EXCEPT ![Call(c)].pc = "end"]
    BY <1>a, <1>1, <2>1, EndIsQuiet
  <2>2. CASE req[Call(c)].outcome = "ok" /\ req' = [req EXCEPT ![Call(c)].pc = "end", ![Decision(c)].pc = "start"]
    <3>1. req[Decision(c)].pc = "idle"
      BY <1>a, <1>1, <2>2 DEF RequestInv, DecidedOnce, Canceled
    <3>2. req' = [req EXCEPT ![Call(c)] = r, ![Decision(c)] = t]
      BY <1>a, <2>2 DEF ClientTypes
    <3>3. GoesOnTo(Call(c), r)
      BY <1>a, PcGoesOn
    <3>4. GoesOnTo(Decision(c), t)
      BY <1>a, <3>1, PcGoesOn DEF Begun
    <3>5. Remarks /\ \A x \in Requests \ {Decision(c), Call(c)} : req'[x] = req[x]
      BY <1>a, <3>2, <3>3, <3>4, TwoRemarks
    <3>6. Succeeded(Call(c))
      BY <2>2 DEF Succeeded
    <3>7. DecisionsWait
      BY <3>5, <3>6, CallFacts DEF DecisionsWait, Offered
    <3>8. QED
      BY <3>5, <3>7
  <2>3. QED
    BY <1>1, <2>1, <2>2
<1>5. QED
  BY <1>1, <1>2, <1>3, <1>4, QuietlyParts

LEMMA DecideIsQuiet ==
  ASSUME ClientState, NEW c \in Calls, NEW accept \in BOOLEAN,
         given[c] = "held", given' = [given EXCEPT ![c] = "deciding"], req' = Deciding(c, accept),
         UNCHANGED <<id, pending>>, UNCHANGED <<state, protocolError, transport, server>>
  PROVE  Quietly
<1>a. ClientTypes /\ RequestInv /\ Call(c) \in Requests /\ Decision(c) \in Requests
  BY CallFacts DEF ClientState, ClientInv
<1>1. req[Call(c)].outcome = "ok" /\ req[Decision(c)].pc = "idle"
  BY <1>a DEF RequestInv, DecidedOnce, Canceled
<1> PICK r : r = [req[Decision(c)] EXCEPT !.pc = "start", !.accept = accept]
  OBVIOUS
<1>2. req' = [req EXCEPT ![Decision(c)] = r]
  BY DEF Deciding
<1>3. GoesOnTo(Decision(c), r)
  <2>1. req[Decision(c)] \in RequestType
    BY <1>a DEF ClientTypes
  <2>2. r.pc = "start" /\ r.outcome = req[Decision(c)].outcome /\ r.response = req[Decision(c)].response
    BY <2>1 DEF RequestType
  <2>3. QED
    BY <1>1, <2>2 DEF GoesOnTo, Succeeded, Begun
<1>4. Remarks /\ \A p \in Requests \ {Decision(c)} : req'[p] = req[p]
  BY <1>a, <1>2, <1>3, OneRemark
<1>5. DecisionsWait
  BY <1>a, <1>1, <1>4, NoDecisionBegins DEF Succeeded
<1>6. Forgotten
  BY DEF Forgotten
<1>7. \A d \in Calls : given'[d] \in {"accepted", "discarded"} => given'[d] = given[d]
  BY <1>a DEF ClientTypes
<1>8. QED
  BY <1>4, <1>5, <1>6, <1>7, QuietlyParts

LEMMA DecisionReturnsIsQuiet ==
  ASSUME ClientState, NEW c \in Calls, DecisionReturns(c)
  PROVE  Quietly
<1>a. ClientTypes /\ Decision(c) \in Requests
  BY CallFacts DEF ClientState
<1>1. /\ req[Decision(c)].pc = "returned" /\ req' = [req EXCEPT ![Decision(c)].pc = "end"]
      /\ UNCHANGED <<id, pending>> /\ UNCHANGED <<state, protocolError, transport, server>>
  BY DEF DecisionReturns, ContinueTo
<1>2. Remarks /\ DecisionsWait /\ Forgotten
  BY <1>a, <1>1, EndIsQuiet
<1>3. \A d \in Calls :
         /\ given'[d] = "accepted" => given[d] = "accepted" \/ (req[Decision(d)].outcome = "ok" /\ req[Decision(d)].accept)
         /\ given'[d] = "discarded" => given[d] = "discarded" \/ (req[Decision(d)].outcome = "ok" /\ ~req[Decision(d)].accept)
  BY <1>a DEF DecisionReturns, ClientTypes
<1>4. Hushed
  BY <1>1 DEF Hushed, Open, transport
<1>5. QED
  BY <1>1, <1>2, <1>3, <1>4 DEF Quietly, Remarks, DecisionsWait, Forgotten

LEMMA RoutesFinishIsQuiet ==
  ASSUME ClientState, RoutesFinish
  PROVE  Quietly
<1>a. ClientTypes /\ RequestInv /\ Close \in Requests /\ Close \in Operations
  BY CallFacts, RequestFacts DEF ClientState, ClientInv
<1>1. /\ routes \in {"shutdown", "disconnect"}
      /\ req' = req \/ req' = [req EXCEPT ![Close].pc = "start"]
      /\ UNCHANGED <<id, pending, given>> /\ UNCHANGED <<state, protocolError, transport, server>>
  BY DEF RoutesFinish, Cleaning, Started
<1>2. req[Close].pc = "idle"
  BY <1>a, <1>1 DEF RequestInv, ClosedOnce
<1>3. Remarks /\ DecisionsWait
  <2>1. CASE req' = req
    BY <2>1 DEF Remarks, DecisionsWait, Offered, Begun, Succeeded
  <2>2. CASE req' = [req EXCEPT ![Close].pc = "start"]
    <3> PICK r : r = [req[Close] EXCEPT !.pc = "start"]
      OBVIOUS
    <3>1. req' = [req EXCEPT ![Close] = r]
      BY <2>2
    <3>2. GoesOnTo(Close, r)
      BY <1>a, <1>2, PcGoesOn DEF Begun
    <3>3. QED
      BY <1>a, <3>1, <3>2, OneRemark, NoDecisionBegins
  <2>3. QED
    BY <1>1, <2>1, <2>2
<1>4. Forgotten
  BY <1>1 DEF Forgotten
<1>5. QED
  BY <1>1, <1>3, <1>4, QuietlyParts

LEMMA LapseIsQuiet ==
  ASSUME OperationLapseOrShutdown
  PROVE  Quietly
<1>1. /\ UNCHANGED <<id, req, pending, given>> /\ UNCHANGED <<state, protocolError, transport, server>>
  BY DEF OperationLapseOrShutdown, OperationLapse, BindingLapse, RoutesShutdown
<1>2. Remarks /\ DecisionsWait /\ Forgotten
  BY <1>1 DEF Remarks, DecisionsWait, Forgotten, Offered, Begun, Succeeded
<1>3. QED
  BY <1>1, <1>2, QuietlyParts

\* Whoever is told that its request failed is not told of a success.
LEMMA TellingIsQuiet ==
  ASSUME ClientTypes, NEW told \in SUBSET Requests,
         req' = [q \in Requests |-> IF q \in told THEN Pushed(req, q, Unavailable(q))[q] ELSE req[q]]
  PROVE  Remarks /\ DecisionsWait
<1>1. ASSUME NEW q \in Requests
      PROVE  /\ req'[q].pc = req[q].pc /\ req'[q].outcome = req[q].outcome /\ req'[q].accept = req[q].accept
             /\ \A f \in Within(req'[q].response) : Answers(f) => f \in Within(req[q].response)
  <2> PICK replies : replies = req[q].response
    OBVIOUS
  <2> PICK f : f = Unavailable(q)
    OBVIOUS
  <2>1. f \in Frame /\ ~Answers(f)
    BY DEF Unavailable, Message, Frame, Codes, Answers
  <2>2. req[q] \in RequestType /\ replies \in Seq(Frame)
    BY DEF ClientTypes, RequestType
  <2> PICK more : more = IF Len(replies) < 2 THEN Append(replies, f) ELSE replies
    OBVIOUS
  <2>3. \A g \in Within(more) : Answers(g) => g \in Within(replies)
    BY <2>1, <2>2, WithinAppend
  <2> PICK r : r = [req[q] EXCEPT !.response = more]
    OBVIOUS
  <2>4. Pushed(req, q, f)[q] = r
    BY DEF Pushed, ClientTypes
  <2>5. r.pc = req[q].pc /\ r.outcome = req[q].outcome /\ r.accept = req[q].accept /\ r.response = more
    BY <2>2 DEF RequestType
  <2>6. req'[q] = r \/ req'[q] = req[q]
    BY <2>4
  <2>7. QED
    BY <2>3, <2>5, <2>6
<1>2. Remarks
  BY <1>1 DEF Remarks, Begun, Succeeded
<1>3. DecisionsWait
  BY <1>1, CallFacts DEF DecisionsWait, Offered
<1>4. QED
  BY <1>2, <1>3

LEMMA ClientExpiresIsQuiet ==
  ASSUME ClientState, ClientExpires
  PROVE  Quietly
<1>a. ClientTypes
  BY DEF ClientState
<1> PICK told : told = {o \in {x \in Operations : operation[x] = "lapsed"} : pending[o].request # <<>> /\ ~pending[o].terminal}
  OBVIOUS
<1> PICK whose : whose = {q \in Requests : OperationOf(q) \in told /\ pending[OperationOf(q)].request = q}
  OBVIOUS
<1>1. /\ req' = [q \in Requests |-> IF q \in whose THEN Pushed(req, q, Unavailable(q))[q] ELSE req[q]]
      /\ pending' = [o \in Operations |-> IF o \in told THEN NoPending ELSE pending[o]]
      /\ UNCHANGED <<id, given>> /\ UNCHANGED <<state, protocolError, transport, server>>
  BY DEF ClientExpires
<1>2. whose \in SUBSET Requests
  OBVIOUS
<1>3. Remarks /\ DecisionsWait
  BY <1>a, <1>1, <1>2, TellingIsQuiet
<1>4. Forgotten
  BY <1>1 DEF Forgotten, NoPending
<1>5. QED
  BY <1>1, <1>3, <1>4, QuietlyParts

LEMMA FailClientIsQuiet ==
  ASSUME ClientState, FailClient
  PROVE  Quietly
<1>a. ClientTypes /\ TransportTypes
  BY DEF ClientState
<1> PICK whose : whose = {q \in Requests : pending[OperationOf(q)].request = q}
  OBVIOUS
<1>1. /\ req' = [q \in Requests |-> IF q \in whose THEN Pushed(req, q, Unavailable(q))[q] ELSE req[q]]
      /\ pending' = [o \in Operations |-> NoPending]
      /\ state' = [state EXCEPT !["client"] = "closing"]
      /\ out' = [out EXCEPT !["client"] = [lane \in Lanes |-> <<>>]]
      /\ UNCHANGED <<protocolError, wire, id, given, server>>
  BY DEF FailClient
<1>2. whose \in SUBSET Requests
  OBVIOUS
<1>3. Remarks /\ DecisionsWait
  BY <1>a, <1>1, <1>2, TellingIsQuiet
<1>4. Forgotten
  BY <1>1 DEF Forgotten, NoPending
<1>5. Hushed
  BY <1>a, <1>1 DEF Hushed, Open, TransportTypes, Sides
<1>6. QED
  BY <1>1, <1>3, <1>4, <1>5 DEF Quietly, Remarks, DecisionsWait, Forgotten

LEMMA ShutdownIsQuiet ==
  ASSUME ClientState, NEW side \in Sides, ShutdownEnds(side)
  PROVE  Quietly
<1>1. /\ state[side] = "closing" /\ state' = [state EXCEPT ![side] = "closed"]
      /\ UNCHANGED <<protocolError, transport, client, server>>
  BY DEF ShutdownEnds
<1>2. UNCHANGED <<out, wire, id, req, pending, given>>
  BY <1>1 DEF client, transport
<1>3. Hushed
  BY <1>1, <1>2 DEF Hushed, Open, ClientState, TransportTypes, Sides
<1>4. Remarks /\ DecisionsWait /\ Forgotten
  BY <1>2 DEF Remarks, DecisionsWait, Forgotten, Offered, Begun, Succeeded
<1>5. QED
  BY <1>2, <1>3, <1>4 DEF Quietly, Remarks, DecisionsWait, Forgotten

-----------------------------------------------------------------------------
(* The client sends                                                        *)

LEMMA InvParts ==
  ASSUME IInv
  PROVE  /\ TypeOK /\ ClientState /\ TransportTypes /\ ClientTypes /\ ServerTypes /\ Frames
         /\ RequestInv /\ Pending /\ Identified /\ Canceled /\ DecidedOnce /\ ClosedOnce
         /\ ServerInv /\ Seen /\ Reserved /\ Counts(activeCount, active)
  BY DEF IInv, TypeOK, ClientState, ClientInv, RequestInv, ServerInv

LEMMA AgreementParts ==
  ASSUME Agreement
  PROVE  /\ PeersAgree /\ DecisionsAgree /\ Sending /\ Numbered /\ Replying /\ Dispatching
         /\ Noting /\ Offering /\ Applying
  BY DEF Agreement, Traffic

LEMMA AgreementMade ==
  ASSUME PeersAgree', DecisionsAgree', Sending', Numbered', Replying', Dispatching',
         Noting', Offering', Applying'
  PROVE  Agreement'
  BY DEF Agreement, Traffic

\* The frames of the client name requests it has an identifier for.
LEMMA ClientFlying ==
  ASSUME TransportTypes, Frames
  PROVE  \A f \in Flying("client") :
            f.of \in Requests /\ id[OperationOf(f.of)] # 0 /\ (Asks(f) => f.kind = f.of[1])
<1> PICK S : S = ClientFrames
  OBVIOUS
<1>1. wire["client"] \in Seq(S) /\ \A lane \in Lanes : out["client"][lane] \in Seq(S)
  BY DEF Frames
<1>2. Within(wire["client"]) \subseteq S /\ \A lane \in Lanes : Within(out["client"][lane]) \subseteq S
  BY <1>1, WithinType
<1>3. Flying("client") \subseteq S
  BY <1>2 DEF Flying, OutOf
<1>4. QED
  BY <1>3 DEF ClientFrames, Known, Asks

LEMMA OrderKept ==
  ASSUME NEW ids, NEW others, NEW s, InOrder(ids, s),
         \A f \in Within(s) : Asks(f) /\ f.of \in Operations => others[f.of] = ids[f.of]
  PROVE  InOrder(others, s)
  BY DEF InOrder, Follows, Within

LEMMA QueuesInOrder ==
  ASSUME TransportTypes, NEW m \in Frame, out' = Queued("client", m), wire' = wire, NEW ids,
         \A lane \in Lanes : InOrder(ids, out["client"][lane]),
         \A f \in Within(wire["client"]), g \in OutOf("client") : Follows(ids, f, g),
         \A g \in Flying("client") : Follows(ids, g, m)
  PROVE  /\ \A lane \in Lanes : InOrder(ids, out'["client"][lane])
         /\ \A f \in Within(wire["client"]), g \in OutOf("client")' : Follows(ids, f, g)
         /\ \A lane \in Lanes : Within(out'["client"][lane]) =
               IF lane = LaneOf(m.kind) THEN Within(out["client"][lane]) \cup {m} ELSE Within(out["client"][lane])
         /\ Flying("client")' = Flying("client") \cup {m}
         /\ out'["server"] = out["server"]
         /\ OutOf("server")' = OutOf("server") /\ Flying("server")' = Flying("server")
<1> PICK lane \in Lanes : lane = LaneOf(m.kind)
  BY DEF LaneOf, Lanes
<1>1. /\ out'["client"][lane] = Append(out["client"][lane], m)
      /\ \A l \in Lanes \ {lane} : out'["client"][l] = out["client"][l]
      /\ \A l \in Lanes : Within(out'["client"][l]) = IF l = lane THEN Within(out["client"][l]) \cup {m}
                                                                  ELSE Within(out["client"][l])
      /\ OutOf("client")' = OutOf("client") \cup {m}
      /\ out'["server"] = out["server"] /\ OutOf("server")' = OutOf("server")
  BY QueuedFrames DEF Sides, Peer
<1>2. out["client"][lane] \in Seq(Frame) /\ Within(out["client"][lane]) \subseteq Flying("client")
      /\ Within(wire["client"]) \subseteq Flying("client")
  BY FrameTypes DEF TransportTypes, Sides
<1>3. InOrder(ids, Append(out["client"][lane], m))
  BY <1>2, OrderAppend
<1>4. \A l \in Lanes : InOrder(ids, out'["client"][l])
  BY <1>1, <1>3
<1>5. \A f \in Within(wire["client"]), g \in OutOf("client")' : Follows(ids, f, g)
  BY <1>1, <1>2
<1>6. Flying("client")' = Flying("client") \cup {m} /\ Flying("server")' = Flying("server")
  BY <1>1 DEF Flying
<1>7. QED
  BY <1>1, <1>4, <1>5, <1>6

LEMMA EnqueueRefusedIsQuiet ==
  ASSUME ClientState, NEW q \in Requests, EnqueueRequest(q), Admission(q) # "ok"
  PROVE  Quietly
<1>a. ClientTypes
  BY DEF ClientState
<1> PICK code : code = Admission(q)
  OBVIOUS
<1>1. /\ req' = Returned(q, code) /\ req[q].pc = "start" /\ code # "ok"
      /\ UNCHANGED <<id, given, pending>> /\ UNCHANGED <<state, protocolError, transport, server>>
  BY DEF EnqueueRequest, transport
<1>2. Remarks /\ DecisionsWait
  BY <1>a, <1>1, ReturnGoesOn, NoDecisionBegins
<1>3. Forgotten
  BY <1>1 DEF Forgotten
<1>4. QED
  BY <1>1, <1>2, <1>3, QuietlyParts

\* What the client notes and the server does is the same; one request is begun.
LEMMA BegunKeeps ==
  ASSUME IInv, Agreement, NEW q \in Requests, req[q].pc = "start",
         \A p \in Requests \ {q} : req'[p] = req[p],
         req'[q].pc = "queued", req'[q].accept = req[q].accept,
         req'[q].outcome = req[q].outcome, req'[q].response = req[q].response
  PROVE  /\ \A p \in Requests : /\ Begun(p) => Begun(p)' /\ p # q
                                /\ req'[p].accept = req[p].accept
                                /\ Succeeded(p)' <=> Succeeded(p)
         /\ Begun(q)' /\ disp[q].pc = "idle"
         /\ \A c \in Calls : Offered(c)' <=> Offered(c)
         /\ \A f \in Flying("client") : Asks(f) => f.of # q
         /\ \A f \in Flying("server") : f.of # q
<1>1. \A p \in Requests : /\ Begun(p) => Begun(p)' /\ p # q
                          /\ req'[p].accept = req[p].accept
                          /\ Succeeded(p)' <=> Succeeded(p)
  BY DEF Begun, Succeeded
<1>2. Begun(q)' /\ ~Begun(q)
  BY DEF Begun
<1>3. Sending /\ Replying /\ Dispatching
  BY AgreementParts
<1>4. disp[q].pc = "idle"
  BY <1>2, <1>3 DEF Dispatching
<1>5. \A c \in Calls : Offered(c)' <=> Offered(c)
  <2>1. \A c \in Calls : req'[Decision(c)].pc # "idle" <=> req[Decision(c)].pc # "idle"
    BY CallFacts
  <2>2. \A c \in Calls : Succeeded(Call(c))' <=> Succeeded(Call(c))
    BY <1>1, CallFacts
  <2>3. QED
    BY <2>1, <2>2 DEF Offered
<1>6. \A f \in Flying("client") : Asks(f) => f.of # q
  BY <1>2, <1>3 DEF Sending
<1>7. \A f \in Flying("server") : f.of # q
  BY <1>2, <1>3 DEF Replying
<1>8. QED
  BY <1>1, <1>2, <1>4, <1>5, <1>6, <1>7

\* The next identifier is greater than all before it.
LEMMA NextIdentifier ==
  ASSUME Numbered, id \in [Operations -> Nat], peerID \in Nat, NEW o \in Operations, id[o] = 0,
         id' = [id EXCEPT ![o] = Cardinality({x \in Operations : id[x] # 0}) + 1]
  PROVE  /\ id'[o] = Taken + 1 /\ Taken' = Taken + 1 /\ Taken \in Nat
         /\ \A x \in Operations \ {o} : id'[x] = id[x] /\ id[x] < id'[o]
         /\ peerID < id'[o]
<1> PICK T : T = {x \in Operations : id[x] # 0}
  OBVIOUS
<1>1. IsFiniteSet(T) /\ Cardinality(T) \in Nat /\ o \notin T
  BY OperationsFinite, FS_Subset, FS_CardinalityType
<1> PICK n \in Nat : n = Cardinality(T)
  BY <1>1
<1>2. id' = [id EXCEPT ![o] = n + 1] /\ Taken = n
  BY DEF Taken
<1>3. id'[o] = n + 1 /\ \A x \in Operations \ {o} : id'[x] = id[x]
  BY <1>2
<1>4. {x \in Operations : id'[x] # 0} = T \cup {o}
  BY <1>3
<1>5. Cardinality(T \cup {o}) = n + 1
  BY <1>1, FS_AddElement
<1>6. Taken' = n + 1
  BY <1>4, <1>5 DEF Taken
<1>7. \A x \in Operations \ {o} : id[x] < n + 1
  BY <1>2 DEF Numbered
<1>8. peerID < n + 1
  BY <1>2 DEF Numbered
<1>9. QED
  BY <1>2, <1>3, <1>6, <1>7, <1>8

LEMMA EnqueueAdmitted ==
  ASSUME IInv, Agreement, NEW q \in Requests, EnqueueRequest(q), Admission(q) = "ok"
  PROVE  Agreement'
<1>a. /\ TypeOK /\ TransportTypes /\ ClientTypes /\ ServerTypes /\ Frames /\ Pending /\ Identified
      /\ PeersAgree /\ DecisionsAgree /\ Sending /\ Numbered /\ Replying /\ Dispatching
      /\ Noting /\ Offering /\ Applying
  BY InvParts, AgreementParts
<1> PICK o \in Operations : o = OperationOf(q)
  BY RequestTypes
<1> PICK m : m = Message(q[1], q, "ok", req[q].accept)
  OBVIOUS
<1> PICK fresh : fresh = [NoPending EXCEPT !.request = q]
  OBVIOUS
<1> PICK r : r = [req[q] EXCEPT !.pc = "queued"]
  OBVIOUS
<1>b. fresh.request = q /\ ~fresh.terminal /\ ~fresh.accepted
  BY DEF NoPending
<1>1. /\ req[q].pc = "start" /\ req' = [req EXCEPT ![q] = r]
      /\ id' = IF q = o THEN [id EXCEPT ![o] = Cardinality({x \in Operations : id[x] # 0}) + 1] ELSE id
      /\ pending' = [pending EXCEPT ![o] = fresh]
      /\ out' = Queued("client", m)
      /\ UNCHANGED <<state, protocolError, wire, given, server>>
  BY DEF EnqueueRequest
<1>c. peerID' = peerID /\ disp' = disp /\ active' = active /\ entry' = entry /\ fate' = fate /\ wire' = wire
  BY <1>1, ServerKept
<1>2. req[q] \in RequestType
  BY <1>a DEF ClientTypes
<1>3. /\ r.pc = "queued" /\ r.accept = req[q].accept /\ r.outcome = req[q].outcome /\ r.response = req[q].response
      /\ req[q].accept \in BOOLEAN
  BY <1>2 DEF RequestType
<1>4. req'[q] = r /\ \A p \in Requests \ {q} : req'[p] = req[p]
  BY <1>a, <1>1 DEF ClientTypes
<1>5. /\ \A p \in Requests : /\ Begun(p) => Begun(p)' /\ p # q
                             /\ req'[p].accept = req[p].accept
                             /\ Succeeded(p)' <=> Succeeded(p)
      /\ Begun(q)' /\ disp[q].pc = "idle"
      /\ \A c \in Calls : Offered(c)' <=> Offered(c)
      /\ \A f \in Flying("client") : Asks(f) => f.of # q
      /\ \A f \in Flying("server") : f.of # q
  BY <1>1, <1>3, <1>4, BegunKeeps
<1>6. /\ m \in Frame /\ m.of = q /\ Asks(m) /\ m.kind = q[1] /\ m.accept = req'[q].accept
      /\ (LaneOf(m.kind) = "data" <=> q \in Operations) /\ LaneOf(m.kind) \in Lanes
  <2>1. q[1] \in {"bind", "close", "call", "drop", "decision"} /\ (q[1] = "decision" <=> q \notin Operations)
    BY RequestFacts
  <2>2. m.kind = q[1] /\ m.of = q /\ m.accept = req[q].accept /\ m \in Frame
    BY <1>3, <2>1 DEF Message, Frame, Codes
  <2>3. QED
    BY <1>3, <1>4, <2>1, <2>2 DEF Asks, LaneOf, PhysicalControl, Lanes
<1>7. /\ Numbered'
      /\ \A x \in Operations \ {q} : id'[x] = id[x]
      /\ q \in Operations => peerID < id'[q] /\ \A x \in Operations \ {q} : id[x] < id'[q]
  <2>1. CASE q = o
    <3>1. id[o] = 0 /\ id' = [id EXCEPT ![o] = Cardinality({x \in Operations : id[x] # 0}) + 1]
      BY <1>a, <1>1, <2>1 DEF Identified
    <3>2. id \in [Operations -> Nat] /\ peerID \in Nat
      BY <1>a DEF ClientTypes, ServerTypes
    <3>3. /\ id'[o] = Taken + 1 /\ Taken' = Taken + 1 /\ Taken \in Nat
          /\ \A x \in Operations \ {o} : id'[x] = id[x] /\ id[x] < id'[o]
          /\ peerID < id'[o]
      BY <1>a, <3>1, <3>2, NextIdentifier
    <3>4. Numbered'
      BY <1>a, <1>c, <3>2, <3>3 DEF Numbered
    <3>5. QED
      BY <2>1, <3>3, <3>4
  <2>2. CASE q # o
    <3>1. id' = id /\ q \notin Operations
      BY <1>1, <2>2, RequestTypes
    <3>2. Numbered'
      BY <1>a, <1>c, <3>1 DEF Numbered, Taken
    <3>3. QED
      BY <3>1, <3>2
  <2>3. QED
    BY <2>1, <2>2
<1>t. /\ \A f \in Flying("client") : f.of \in Requests
      /\ \A f \in Flying("server") : f.of \in Requests
      /\ OutOf("client") \subseteq Flying("client") /\ Within(wire["client"]) \subseteq Flying("client")
      /\ \A lane \in Lanes : Within(out["client"][lane]) \subseteq Flying("client")
  BY <1>a, FrameTypes DEF Sides
<1>8. \A g \in Flying("client") : Follows(id', g, m)
  BY <1>5, <1>6, <1>7, <1>t DEF Follows
<1>9. /\ \A lane \in Lanes : InOrder(id', out["client"][lane])
      /\ InOrder(id', wire["client"])
      /\ \A f \in Within(wire["client"]), g \in OutOf("client") : Follows(id', f, g)
  <2>1. \A f \in Flying("client") : Asks(f) /\ f.of \in Operations => id'[f.of] = id[f.of]
    BY <1>5, <1>7
  <2>2. \A lane \in Lanes : InOrder(id', out["client"][lane])
    BY <1>a, <1>t, <2>1, OrderKept DEF Sending
  <2>3. InOrder(id', wire["client"])
    BY <1>a, <1>t, <2>1, OrderKept DEF Sending
  <2>4. \A f \in Within(wire["client"]), g \in OutOf("client") : Follows(id', f, g)
    BY <1>a, <1>t, <2>1 DEF Sending, Follows
  <2>5. QED
    BY <2>2, <2>3, <2>4
<1>10. /\ \A lane \in Lanes : InOrder(id', out'["client"][lane])
       /\ \A f \in Within(wire["client"]), g \in OutOf("client")' : Follows(id', f, g)
       /\ \A lane \in Lanes : Within(out'["client"][lane]) =
             IF lane = LaneOf(m.kind) THEN Within(out["client"][lane]) \cup {m} ELSE Within(out["client"][lane])
       /\ Flying("client")' = Flying("client") \cup {m}
       /\ out'["server"] = out["server"]
       /\ OutOf("server")' = OutOf("server") /\ Flying("server")' = Flying("server")
  <2> PICK ids : ids = id'
    OBVIOUS
  <2>1. TransportTypes /\ m \in Frame /\ out' = Queued("client", m) /\ wire' = wire
    BY <1>a, <1>c, <1>1, <1>6
  <2>2. /\ \A lane \in Lanes : InOrder(ids, out["client"][lane])
        /\ \A f \in Within(wire["client"]), g \in OutOf("client") : Follows(ids, f, g)
        /\ \A g \in Flying("client") : Follows(ids, g, m)
    BY <1>8, <1>9
  <2>3. /\ \A lane \in Lanes : InOrder(ids, out'["client"][lane])
        /\ \A f \in Within(wire["client"]), g \in OutOf("client")' : Follows(ids, f, g)
        /\ \A lane \in Lanes : Within(out'["client"][lane]) =
               IF lane = LaneOf(m.kind) THEN Within(out["client"][lane]) \cup {m} ELSE Within(out["client"][lane])
        /\ Flying("client")' = Flying("client") \cup {m}
        /\ out'["server"] = out["server"]
        /\ OutOf("server")' = OutOf("server") /\ Flying("server")' = Flying("server")
    BY ONLY <2>1, <2>2, QueuesInOrder
  <2>4. QED
    BY <2>3
<1>11. Sending'
  <2>1. \A lane \in Lanes : \A f \in Within(out'["client"][lane]) : Asks(f) => (lane = "data" <=> f.of \in Operations)
    BY <1>a, <1>6, <1>10 DEF Sending, Lanes
  <2>2. \A f \in Flying("client")' : Asks(f) =>
          /\ Begun(f.of)' /\ disp[f.of].pc = "idle" /\ f.accept = req'[f.of].accept
          /\ f.of \in Operations => peerID < id'[f.of]
    BY <1>a, <1>5, <1>6, <1>7, <1>10, <1>t DEF Sending
  <2>3. QED
    BY <1>c, <1>9, <1>10, <2>1, <2>2 DEF Sending
<1>12. Replying'
  BY <1>a, <1>1, <1>c, <1>5, <1>6, <1>10, <1>t DEF Replying, Open
<1>13. Dispatching'
  BY <1>a, <1>c, <1>5 DEF Dispatching
<1>s. \A p \in Requests : Silent(p) => Silent(p)'
  BY <1>c, <1>5, <1>6, <1>10 DEF Silent
<1>14. Noting'
  <2>1. ASSUME NEW x \in Operations, x # o PROVE pending'[x] = pending[x]
    BY <1>a, <1>1, <2>1 DEF ClientTypes
  <2>2. pending'[o] = fresh
    BY <1>a, <1>1 DEF ClientTypes
  <2>3. \A x \in Operations : pending[x].request \in Requests \cup {<<>>}
    BY <1>a DEF ClientTypes, PendingType
  <2>4. QED
    BY <1>a, <1>b, <1>c, <1>s, <2>1, <2>2, <2>3 DEF Noting
<1>15. Offering'
  BY <1>a, <1>c, <1>5, <1>10, <1>s, CallFacts DEF Offering
<1>16. Applying'
  BY <1>a, <1>c, <1>5, <1>10, CallFacts DEF Applying, Settles
<1>17. PeersAgree' /\ DecisionsAgree'
  BY <1>a, <1>1, <1>c DEF PeersAgree, DecisionsAgree
<1>18. QED
  BY <1>7, <1>11, <1>12, <1>13, <1>14, <1>15, <1>16, <1>17, AgreementMade

\* Frames of the client move towards its peer, and requests go on.
LEMMA ClientMoves ==
  ASSUME IInv, Agreement, Remarks, DecisionsWait, UNCHANGED <<state, protocolError, id, pending, given, server>>,
         out'["server"] = out["server"], wire'["server"] = wire["server"],
         \A f \in Flying("client")' : Asks(f) => f \in Flying("client"),
         \A lane \in Lanes : \A f \in Within(out'["client"][lane]) : Asks(f) => (lane = "data" <=> f.of \in Operations),
         \A lane \in Lanes : InOrder(id, out'["client"][lane]),
         InOrder(id, wire'["client"]),
         \A f \in Within(wire'["client"]), g \in OutOf("client")' : Follows(id, f, g)
  PROVE  Agreement'
<1>a. /\ TypeOK /\ TransportTypes /\ ClientTypes /\ ServerTypes
      /\ PeersAgree /\ DecisionsAgree /\ Sending /\ Numbered /\ Replying /\ Dispatching
      /\ Noting /\ Offering /\ Applying
  BY InvParts, AgreementParts
<1>c. peerID' = peerID /\ disp' = disp /\ active' = active /\ entry' = entry /\ fate' = fate
  BY ServerKept
<1>b. Flying("server")' = Flying("server") /\ OutOf("server")' = OutOf("server")
  BY DEF Flying, OutOf
<1>5. \A p \in Requests : /\ Begun(p) => Begun(p)'
                          /\ req[p].pc # "idle" => req'[p].pc # "idle" /\ req'[p].accept = req[p].accept
                          /\ Succeeded(p)' => Succeeded(p)
  BY DEF Remarks
<1>n. \A q \in Requests : Begun(q) => req[q].pc # "idle"
  BY DEF Begun
<1>6. \A c \in Calls : Offered(c)' => Offered(c)
  BY <1>5, CallFacts DEF Offered, DecisionsWait
<1>t. /\ \A f \in Flying("client") : f.of \in Requests
      /\ \A f \in Flying("server") : f.of \in Requests
      /\ \A o \in Operations : pending[o].request \in Requests \cup {<<>>}
  BY <1>a, FrameTypes DEF Sides, ClientTypes, PendingType
<1>s. \A q \in Requests : Silent(q) => Silent(q)'
  BY <1>b, <1>c, <1>5 DEF Silent
<1>1. Sending'
  <2>1. \A f \in Flying("client")' : Asks(f) =>
          /\ Begun(f.of)' /\ disp[f.of].pc = "idle" /\ f.accept = req'[f.of].accept
          /\ f.of \in Operations => peerID < id[f.of]
    BY <1>a, <1>5, <1>t, <1>n DEF Sending
  <2>2. QED
    BY <1>c, <2>1 DEF Sending
<1>2. Numbered'
  BY <1>a, <1>c DEF Numbered, Taken
<1>3. Replying'
  BY <1>a, <1>b, <1>c, <1>5, <1>t DEF Replying, Open
<1>4. Dispatching'
  BY <1>a, <1>c, <1>5, <1>n DEF Dispatching
<1>7. Noting'
  BY <1>a, <1>c, <1>s, <1>t DEF Noting
<1>8. Offering'
  BY <1>a, <1>b, <1>c, <1>6, <1>s, CallFacts DEF Offering
<1>9. Applying'
  <2>1. \A c \in Calls : Begun(Decision(c)) => Begun(Decision(c))' /\ req'[Decision(c)].accept = req[Decision(c)].accept
    BY <1>5, <1>n, CallFacts
  <2>2. \A f \in Flying("server") : Begun(f.of)
    BY <1>a DEF Replying
  <2>3. \A c \in Calls : Succeeded(Decision(c))' => Succeeded(Decision(c))
    BY <1>5, CallFacts
  <2>4. QED
    BY <1>a, <1>b, <1>c, <2>1, <2>2, <2>3 DEF Applying, Settles
<1>10. PeersAgree' /\ DecisionsAgree'
  BY <1>a, <1>c DEF PeersAgree, DecisionsAgree
<1>11. QED
  BY <1>1, <1>2, <1>3, <1>4, <1>7, <1>8, <1>9, <1>10, AgreementMade

LEMMA CancelSendAgrees ==
  ASSUME IInv, Agreement, NEW q \in Requests, CancelSend(q)
  PROVE  Agreement'
<1>a. TransportTypes /\ Sending
  BY InvParts, AgreementParts
<1> PICK m : m = Message("cancel", q, "ok", FALSE)
  OBVIOUS
<1>1. out' = Queued("client", m) /\ UNCHANGED <<state, protocolError, wire, id, req, pending, given, server>>
  BY DEF CancelSend
<1>2. m \in Frame /\ ~Asks(m)
  BY DEF Message, Frame, Codes, Asks
<1>3. \A ids : \A g \in Flying("client") : Follows(ids, g, m)
  BY <1>2 DEF Follows
<1> PICK ids : ids = id
  OBVIOUS
<1>4. /\ \A lane \in Lanes : InOrder(ids, out["client"][lane])
      /\ \A f \in Within(wire["client"]), g \in OutOf("client") : Follows(ids, f, g)
      /\ \A g \in Flying("client") : Follows(ids, g, m)
  BY <1>a, <1>3 DEF Sending
<1>5. /\ \A lane \in Lanes : InOrder(ids, out'["client"][lane])
      /\ \A f \in Within(wire["client"]), g \in OutOf("client")' : Follows(ids, f, g)
      /\ \A lane \in Lanes : Within(out'["client"][lane]) =
            IF lane = LaneOf(m.kind) THEN Within(out["client"][lane]) \cup {m} ELSE Within(out["client"][lane])
      /\ Flying("client")' = Flying("client") \cup {m}
      /\ out'["server"] = out["server"]
  <2>1. out' = Queued("client", m) /\ wire' = wire
    BY <1>1
  <2>2. QED
    BY ONLY <1>a, <1>2, <1>4, <2>1, QueuesInOrder
<1>6. \A lane \in Lanes : \A f \in Within(out'["client"][lane]) : Asks(f) => (lane = "data" <=> f.of \in Operations)
  <2>1. \A lane \in Lanes : \A f \in Within(out'["client"][lane]) : f = m \/ f \in Within(out["client"][lane])
    <3> SUFFICES ASSUME NEW lane \in Lanes, NEW f \in Within(out'["client"][lane])
                 PROVE  f = m \/ f \in Within(out["client"][lane])
      OBVIOUS
    <3>1. CASE lane = LaneOf(m.kind)
      <4>1. Within(out'["client"][lane]) = Within(out["client"][lane]) \cup {m}
        BY <1>5, <3>1
      <4>2. QED
        BY <4>1
    <3>2. CASE lane # LaneOf(m.kind)
      <4>1. Within(out'["client"][lane]) = Within(out["client"][lane])
        BY <1>5, <3>2
      <4>2. QED
        BY <4>1
    <3>3. QED
      BY <3>1, <3>2
  <2>2. QED
    BY <1>a, <1>2, <2>1 DEF Sending
<1>7. Remarks /\ DecisionsWait
  BY <1>1 DEF Remarks, DecisionsWait, Offered, Begun, Succeeded
<1>8. InOrder(id, wire'["client"])
  BY <1>a, <1>1 DEF Sending
<1>9. \A f \in Flying("client")' : Asks(f) => f \in Flying("client")
  BY <1>2, <1>5
<1>10. QED
  BY <1>1, <1>5, <1>6, <1>7, <1>8, <1>9, ClientMoves

\* The frames of two lanes, one of which loses its first frame to the wire.
LEMMA WritesInOrder ==
  ASSUME TransportTypes, Sending, NEW lane \in Lanes, out["client"][lane] # <<>>,
         out' = [out EXCEPT !["client"][lane] = Tail(@)], NEW f, f = Head(out["client"][lane]),
         wire' = wire \/ wire' = [wire EXCEPT !["client"] = Append(@, f)]
  PROVE  /\ f \in Frame /\ f \in OutOf("client") /\ f \in Flying("client") /\ f \in Within(out["client"][lane])
         /\ out'["server"] = out["server"] /\ wire'["server"] = wire["server"]
         /\ Flying("client")' \subseteq Flying("client")
         /\ \A l \in Lanes : \A g \in Within(out'["client"][l]) : Asks(g) => (l = "data" <=> g.of \in Operations)
         /\ \A l \in Lanes : InOrder(id, out'["client"][l])
         /\ InOrder(id, wire'["client"])
         /\ \A g \in Within(wire'["client"]), h \in OutOf("client")' : Follows(id, g, h)
<1> PICK other \in Lanes : other # lane
  BY DEF Lanes
<1> PICK rest : rest = Tail(out["client"][lane])
  OBVIOUS
<1>l. \A l \in Lanes : l = lane \/ l = other
  BY DEF Lanes
<1>1. /\ f \in Within(out["client"][lane]) /\ f \in OutOf("client") /\ f \in Frame
      /\ out'["client"][lane] = rest /\ out'["client"][other] = out["client"][other]
      /\ \A l \in Lanes : Within(out'["client"][l]) \subseteq Within(out["client"][l])
      /\ OutOf("client")' \subseteq OutOf("client")
      /\ out'["server"] = out["server"]
  BY TakenFrames DEF Sides, Peer
<1>2. /\ \A l \in Lanes : \A g \in Within(out["client"][l]) : Asks(g) => (l = "data" <=> g.of \in Operations)
      /\ \A l \in Lanes : InOrder(id, out["client"][l])
      /\ InOrder(id, wire["client"])
      /\ \A g \in Within(wire["client"]), h \in OutOf("client") : Follows(id, g, h)
  BY DEF Sending
<1>3. out["client"][lane] \in Seq(Frame)
  BY DEF TransportTypes, Sides
<1>4. InOrder(id, rest) /\ \A g \in Within(rest) : Follows(id, f, g)
  BY <1>2, <1>3, OrderTail
<1>5. \A l \in Lanes : InOrder(id, out'["client"][l])
  BY <1>1, <1>2, <1>4, <1>l
<1>6. \A h \in OutOf("client")' : Follows(id, f, h)
  <2>1. \A h \in Within(out["client"][other]) : Follows(id, f, h)
    <3> SUFFICES ASSUME NEW h \in Within(out["client"][other]), Asks(f), Asks(h) PROVE Follows(id, f, h)
      BY DEF Follows
    <3>1. f.of \in Operations <=> h.of \notin Operations
      BY <1>1, <1>2 DEF Lanes
    <3>2. QED
      BY <3>1 DEF Follows
  <2>2. OutOf("client")' = Within(rest) \cup Within(out["client"][other])
    BY <1>1, <1>l DEF OutOf
  <2>3. QED
    BY <1>4, <2>1, <2>2
<1>7. CASE wire' = wire
  <2>1. Flying("client")' \subseteq Flying("client")
    BY <1>1, <1>7 DEF Flying
  <2>2. QED
    BY <1>1, <1>2, <1>5, <1>7, <2>1 DEF Flying
<1>8. CASE wire' = [wire EXCEPT !["client"] = Append(@, f)]
  <2>1. /\ wire["client"] \in Seq(Frame) /\ wire'["client"] = Append(wire["client"], f)
        /\ Within(wire'["client"]) = Within(wire["client"]) \cup {f} /\ wire'["server"] = wire["server"]
    BY <1>1, <1>8, WrittenFrames DEF Sides, Peer
  <2>2. InOrder(id, wire'["client"])
    BY <1>1, <1>2, <2>1, OrderAppend
  <2>3. \A g \in Within(wire'["client"]), h \in OutOf("client")' : Follows(id, g, h)
    BY <1>1, <1>2, <1>6, <2>1
  <2>4. Flying("client")' \subseteq Flying("client")
    BY <1>1, <2>1 DEF Flying
  <2>5. QED
    BY <1>1, <1>2, <1>5, <2>1, <2>2, <2>3, <2>4 DEF Flying
<1>9. QED
  BY <1>7, <1>8

LEMMA WriteClientAgrees ==
  ASSUME IInv, Agreement, NEW lane \in Lanes, WriteClient(lane)
  PROVE  Agreement'
<1>a. TransportTypes /\ ClientTypes /\ Frames /\ Sending
  BY InvParts, AgreementParts
<1> PICK f : f = Head(out["client"][lane])
  OBVIOUS
<1>1. /\ out["client"][lane] # <<>> /\ out' = [out EXCEPT !["client"][lane] = Tail(@)]
      /\ wire' = wire \/ wire' = [wire EXCEPT !["client"] = Append(@, f)]
      /\ UNCHANGED <<state, protocolError, id, pending, given, server>>
      /\ \/ f.kind = "cancel" /\ req' = req
         \/ f.kind # "cancel" /\ req' = [req EXCEPT ![f.of].unsent = TRUE]
         \/ f.kind # "cancel" /\ req' = [req EXCEPT ![f.of].pc = IF @ = "queued" THEN "sent" ELSE @]
  BY DEF WriteClient
<1>2. /\ f \in Frame /\ f \in Flying("client") /\ f \in Within(out["client"][lane])
      /\ out'["server"] = out["server"] /\ wire'["server"] = wire["server"]
      /\ Flying("client")' \subseteq Flying("client")
      /\ \A l \in Lanes : \A g \in Within(out'["client"][l]) : Asks(g) => (l = "data" <=> g.of \in Operations)
      /\ \A l \in Lanes : InOrder(id, out'["client"][l])
      /\ InOrder(id, wire'["client"])
      /\ \A g \in Within(wire'["client"]), h \in OutOf("client")' : Follows(id, g, h)
  BY <1>a, <1>1, WritesInOrder
<1> PICK q \in Requests : q = f.of
  BY <1>2 DEF Frame
<1>3. Remarks /\ DecisionsWait
  <2>1. CASE f.kind = "cancel" /\ req' = req
    BY <2>1 DEF Remarks, DecisionsWait, Offered, Begun, Succeeded
  <2>2. CASE f.kind # "cancel"
    <3>1. Begun(q)
      BY <1>a, <1>2, <2>2 DEF Sending, Asks
    <3>2. req[q] \in RequestType
      BY <1>a DEF ClientTypes
    <3> PICK r : r = IF req' = [req EXCEPT ![q].unsent = TRUE]
                     THEN [req[q] EXCEPT !.unsent = TRUE]
                     ELSE [req[q] EXCEPT !.pc = IF @ = "queued" THEN "sent" ELSE @]
      OBVIOUS
    <3>3. req' = [req EXCEPT ![q] = r]
      BY <1>1, <2>2
    <3>4. /\ r.pc \in {req[q].pc, "sent"} /\ r.outcome = req[q].outcome /\ r.response = req[q].response
          /\ r.accept = req[q].accept
      BY <3>2 DEF RequestType
    <3>5. GoesOnTo(q, r)
      BY <3>1, <3>4 DEF GoesOnTo, Succeeded, Begun
    <3>6. QED
      BY <1>a, <3>1, <3>3, <3>5, OneRemark, NoDecisionBegins DEF Begun
  <2>3. QED
    BY <1>1, <2>1, <2>2
<1>4. \A g \in Flying("client")' : Asks(g) => g \in Flying("client")
  BY <1>2
<1>5. QED
  BY <1>1, <1>2, <1>3, <1>4, ClientMoves

-----------------------------------------------------------------------------
(* The client reads                                                        *)

\* Once a decision has begun, its call waits for nothing.
LEMMA DecisionFollows ==
  ASSUME IInv, NEW c \in Calls, req[Decision(c)].pc # "idle"
  PROVE  ~InFlight(Call(c)) /\ pending[Call(c)].request # Call(c)
<1>1. Canceled /\ DecidedOnce /\ Pending /\ Call(c) \in Requests /\ Call(c) # <<>>
  BY InvParts, CallFacts, NoRequestIsEmpty
<1>2. ~InFlight(Call(c))
  BY <1>1 DEF Canceled, DecidedOnce, InFlight
<1>3. QED
  BY <1>1, <1>2, RequestFacts DEF Pending

\* Whoever waits under the identifier of a reply has made the request it answers.
LEMMA ReplyIsAwaited ==
  ASSUME IInv, Agreement, NEW f \in Flying("server"), NEW o, o = OperationOf(f.of), pending[o].request # <<>>
  PROVE  pending[o].request = f.of
<1>1. /\ Pending /\ Replying /\ Offering /\ TransportTypes /\ ClientTypes
  BY InvParts, AgreementParts
<1>2. f.of \in Requests /\ Begun(f.of)
  BY <1>1, FrameTypes DEF Sides, Replying
<1> PICK q : q = pending[o].request
  OBVIOUS
<1>3. o \in Operations /\ q \in Requests /\ OperationOf(q) = o
  BY <1>1, <1>2, RequestTypes DEF Pending, ClientTypes, PendingType
<1>4. q = f.of \/ \E c \in Calls : o = Call(c) /\ ((q = Call(c) /\ f.of = Decision(c)) \/ (q = Decision(c) /\ f.of = Call(c)))
  BY <1>2, <1>3, RequestFacts
<1>5. ASSUME NEW c \in Calls, o = Call(c), q = Call(c), f.of = Decision(c) PROVE FALSE
  BY <1>2, <1>5, DecisionFollows DEF Begun
<1>6. ASSUME NEW c \in Calls, o = Call(c), q = Decision(c), f.of = Call(c) PROVE FALSE
  <2>1. InFlight(q)
    BY <1>1, <1>3, NoRequestIsEmpty DEF Pending
  <2>2. req[Decision(c)].pc # "idle"
    <3>1. Canceled /\ Decision(c) \in Requests
      BY InvParts, CallFacts
    <3>2. QED
      BY <1>6, <2>1, <3>1 DEF InFlight, Canceled
  <2>3. Silent(Call(c))
    BY <1>1, <2>2 DEF Offering, Offered
  <2>4. QED
    BY <1>6, <2>3 DEF Silent
<1>7. QED
  BY <1>4, <1>5, <1>6

LEMMA ReplyFits ==
  ASSUME IInv, Agreement, NEW f \in Within(wire["server"]), NEW o, o = OperationOf(f.of), pending[o].request # <<>>
  PROVE  Fits(f, pending[o])
<1>1. /\ Pending /\ ClosedOnce /\ Replying /\ Noting /\ TransportTypes
  BY InvParts, AgreementParts
<1>2. f \in Flying("server") /\ f.of \in Requests
  BY <1>1, FrameTypes DEF Sides
<1> PICK q \in Requests : q = f.of
  BY <1>2
<1>3. pending[o].request = q /\ o \in Operations
  BY <1>2, ReplyIsAwaited, RequestTypes
<1>4. ~pending[o].terminal
  BY <1>1, <1>2, <1>3, NoRequestIsEmpty DEF Noting, Silent
<1>5. f.kind = "accepted" => ~pending[o].accepted
  BY <1>1, <1>3, NoRequestIsEmpty DEF Noting
<1>6. f.kind \in {"accepted", ReplyKind(q)}
  BY <1>1, <1>2 DEF Replying
<1>7. q = Bind => routes = "none"
  <2>1. q = Bind => InFlight(Bind)
    BY <1>1, <1>3, NoRequestIsEmpty DEF Pending
  <2>2. QED
    BY <1>1, <2>1 DEF InFlight, ClosedOnce
<1>8. QED
  BY <1>3, <1>4, <1>5, <1>6, <1>7 DEF Fits, ReplyKind

\* A reply is taken off the wire.
LEMMA ReplyTaken ==
  ASSUME IInv, Agreement, wire["server"] # <<>>, wire' = [wire EXCEPT !["server"] = Tail(@)],
         NEW f, f = Head(wire["server"]), out' = out
  PROVE  /\ f \in Within(wire["server"]) /\ f \in Flying("server") /\ f \in Frame
         /\ wire'["client"] = wire["client"]
         /\ Flying("client")' = Flying("client") /\ OutOf("client")' = OutOf("client")
         /\ Flying("server")' \subseteq Flying("server") /\ OutOf("server")' = OutOf("server")
         /\ Within(wire'["server"]) \subseteq Within(wire["server"]) /\ InTurn(wire'["server"])
         /\ \A g \in Flying("server")' : Precedes(f, g)
<1>1. TransportTypes /\ Replying
  BY InvParts, AgreementParts
<1>2. /\ f \in Within(wire["server"]) /\ f \in Frame /\ wire["server"] \in Seq(Frame)
      /\ wire'["server"] = Tail(wire["server"]) /\ Within(wire'["server"]) \subseteq Within(wire["server"])
      /\ wire'["client"] = wire["client"]
  BY <1>1, ReadFrames DEF Sides, Peer
<1>3. /\ InTurn(wire["server"]) /\ \A g \in Within(wire["server"]), h \in OutOf("server") : Precedes(g, h)
  BY <1>1 DEF Replying
<1>4. InTurn(wire'["server"]) /\ \A g \in Within(wire'["server"]) : Precedes(f, g)
  BY <1>2, <1>3, TurnTail
<1>5. OutOf("server")' = OutOf("server") /\ OutOf("client")' = OutOf("client")
  BY DEF OutOf
<1>6. \A g \in Flying("server")' : Precedes(f, g)
  BY <1>2, <1>3, <1>4, <1>5 DEF Flying
<1>7. QED
  BY <1>2, <1>4, <1>5, <1>6 DEF Flying

\* A request is told of its reply.
LEMMA ReplyPushed ==
  ASSUME ClientTypes, NEW q \in Requests, NEW f \in Frame, req' = Pushed(req, q, f)
  PROVE  /\ \A p \in Requests \ {q} : req'[p] = req[p]
         /\ \A p \in Requests : req'[p].pc = req[p].pc /\ req'[p].accept = req[p].accept
         /\ \A p \in Requests : (Begun(p)' <=> Begun(p)) /\ (Succeeded(p)' => Succeeded(p) \/ (p = q /\ Answers(f)))
<1> PICK replies : replies = req[q].response
  OBVIOUS
<1>1. req[q] \in RequestType /\ replies \in Seq(Frame)
  BY DEF ClientTypes, RequestType
<1> PICK more : more = IF Len(replies) < 2 THEN Append(replies, f) ELSE replies
  OBVIOUS
<1>2. \A g \in Within(more) : g = f \/ g \in Within(replies)
  BY <1>1, WithinAppend
<1> PICK r : r = [req[q] EXCEPT !.response = more]
  OBVIOUS
<1>3. r.pc = req[q].pc /\ r.outcome = req[q].outcome /\ r.accept = req[q].accept /\ r.response = more
  BY <1>1 DEF RequestType
<1>4. req' = [req EXCEPT ![q] = r]
  BY DEF Pushed, ClientTypes
<1>5. req'[q] = r /\ \A p \in Requests \ {q} : req'[p] = req[p]
  BY <1>4 DEF ClientTypes
<1>6. \A p \in Requests : req'[p].pc = req[p].pc /\ req'[p].accept = req[p].accept /\ req'[p].outcome = req[p].outcome
  BY <1>3, <1>5
<1>7. \A p \in Requests : \A g \in Within(req'[p].response) : g \in Within(req[p].response) \/ (p = q /\ g = f)
  BY <1>2, <1>3, <1>5
<1>8. QED
  BY <1>5, <1>6, <1>7 DEF Begun, Succeeded

\* What a reply that was read says of its request.
LEMMA ReplyMeans ==
  ASSUME IInv, Agreement, wire["server"] # <<>>, wire' = [wire EXCEPT !["server"] = Tail(@)], out' = out,
         NEW f, f = Head(wire["server"]), disp' = disp, \A p \in Requests : Begun(p)' <=> Begun(p)
  PROVE  /\ f.kind # "accepted" => Silent(f.of)'
         /\ f.kind = "accepted" => /\ disp[f.of].pc \notin {"idle", "admit"}
                                   /\ \A g \in Within(wire'["server"]) : g.of = f.of => g.kind # "accepted"
<1>1. TransportTypes /\ Replying
  BY InvParts, AgreementParts
<1>2. /\ f \in Within(wire["server"]) /\ f \in Flying("server") /\ f \in Frame
      /\ Flying("client")' = Flying("client") /\ Within(wire'["server"]) \subseteq Flying("server")'
      /\ \A g \in Flying("server")' : Precedes(f, g)
  BY ReplyTaken DEF Flying
<1>3. f.of \in Requests /\ Begun(f.of) /\ \A g \in Flying("client") : Asks(g) => g.of # f.of
  BY <1>1, <1>2 DEF Frame, Replying
<1>4. f.kind # "accepted" => Silent(f.of)'
  <2>1. f.kind # "accepted" => disp[f.of].pc \in {"idle", "finish", "end"}
    BY <1>1, <1>2 DEF Replying
  <2>2. f.kind # "accepted" => \A g \in Flying("server")' : g.of # f.of
    BY <1>2 DEF Precedes
  <2>3. QED
    BY <1>2, <1>3, <2>1, <2>2 DEF Silent
<1>5. f.kind = "accepted" => disp[f.of].pc \notin {"idle", "admit"}
  BY <1>1, <1>2 DEF Replying
<1>6. \A g \in Within(wire'["server"]) : g.of = f.of => g.kind # "accepted"
  BY <1>2 DEF Precedes
<1>7. QED
  BY <1>4, <1>5, <1>6

LEMMA ReadClientAgrees ==
  ASSUME IInv, Agreement, ReadClient
  PROVE  Agreement'
<1>a. /\ TypeOK /\ TransportTypes /\ ClientTypes
      /\ PeersAgree /\ DecisionsAgree /\ Sending /\ Numbered /\ Replying /\ Dispatching
      /\ Noting /\ Offering /\ Applying
  BY InvParts, AgreementParts
<1> PICK f : f = Head(wire["server"])
  OBVIOUS
<1>1. /\ wire["server"] # <<>> /\ wire' = [wire EXCEPT !["server"] = Tail(@)]
      /\ UNCHANGED <<id, given, state, out, server>>
  BY DEF ReadClient
<1>2. /\ f \in Within(wire["server"]) /\ f \in Flying("server") /\ f \in Frame
      /\ wire'["client"] = wire["client"]
      /\ Flying("client")' = Flying("client") /\ OutOf("client")' = OutOf("client")
      /\ Flying("server")' \subseteq Flying("server") /\ OutOf("server")' = OutOf("server")
      /\ Within(wire'["server"]) \subseteq Within(wire["server"]) /\ InTurn(wire'["server"])
      /\ \A g \in Flying("server")' : Precedes(f, g)
  BY <1>1, ReplyTaken
<1> PICK q \in Requests : q = f.of
  BY <1>2 DEF Frame
<1> PICK o \in Operations : o = OperationOf(q)
  BY RequestTypes
<1>c. peerID' = peerID /\ disp' = disp /\ active' = active /\ entry' = entry /\ fate' = fate
  BY <1>1, ServerKept
<1>3. /\ protocolError' = protocolError
      /\ \/ UNCHANGED <<req, pending>>
         \/ /\ pending[o].request = q /\ req' = Pushed(req, q, f)
            /\ pending' = [pending EXCEPT ![o].accepted = @ \/ f.kind = "accepted",
                                          ![o].terminal = @ \/ f.kind # "accepted"]
            /\ ~pending[o].terminal
  <2>1. CASE pending[o].request = <<>>
    BY <1>a, <2>1 DEF ReadClient
  <2>2. CASE pending[o].request # <<>>
    <3>1. pending[o].request = q
      BY <1>2, <2>2, ReplyIsAwaited
    <3>2. Fits(f, pending[o])
      BY <1>2, <2>2, ReplyFits
    <3>3. ~pending[o].terminal
      BY <3>2 DEF Fits
    <3>4. /\ protocolError' = (protocolError \/ ~Fits(f, pending[o]))
          /\ pending' = [pending EXCEPT ![o].accepted = @ \/ f.kind = "accepted",
                                        ![o].terminal = @ \/ f.kind # "accepted"]
          /\ req' = Pushed(req, pending[o].request, f)
      BY <2>2 DEF ReadClient
    <3>5. protocolError = FALSE
      BY <1>a DEF PeersAgree, TransportTypes
    <3>6. protocolError' = FALSE
      BY <3>2, <3>4, <3>5, Zenon
    <3>7. req' = Pushed(req, q, f)
      BY <3>1, <3>4
    <3>8. QED
      BY <3>1, <3>3, <3>4, <3>5, <3>6, <3>7
  <2>3. QED
    BY <2>1, <2>2
<1>4. /\ \A p \in Requests : req'[p].pc = req[p].pc /\ req'[p].accept = req[p].accept
      /\ \A p \in Requests : (Begun(p)' <=> Begun(p)) /\ (Succeeded(p)' => Succeeded(p) \/ (p = q /\ Answers(f)))
  <2>1. CASE UNCHANGED <<req, pending>>
    BY <2>1 DEF Begun, Succeeded
  <2>2. CASE req' = Pushed(req, q, f)
    BY <1>a, <1>2, <2>2, ReplyPushed
  <2>3. QED
    BY <1>3, <2>1, <2>2
<1>5. /\ f.kind # "accepted" => Silent(q)'
      /\ f.kind = "accepted" => /\ disp[q].pc \notin {"idle", "admit"}
                                /\ \A g \in Within(wire'["server"]) : g.of = q => g.kind # "accepted"
  BY <1>1, <1>c, <1>4, ReplyMeans
<1>s. \A p \in Requests : Silent(p) => Silent(p)'
  BY <1>2, <1>c, <1>4 DEF Silent
<1>t. /\ \A g \in Flying("client") : g.of \in Requests
      /\ \A g \in Flying("server") : g.of \in Requests
      /\ \A x \in Operations : pending[x].request \in Requests \cup {<<>>}
  BY <1>a, FrameTypes DEF Sides, ClientTypes, PendingType
<1>6. Sending'
  <2>1. \A g \in Flying("client")' : Asks(g) =>
          /\ Begun(g.of)' /\ disp[g.of].pc = "idle" /\ g.accept = req'[g.of].accept
          /\ g.of \in Operations => peerID < id[g.of]
    BY <1>a, <1>2, <1>4, <1>t DEF Sending
  <2>2. QED
    BY <1>a, <1>1, <1>2, <1>c, <2>1 DEF Sending
<1>7. Numbered'
  BY <1>a, <1>1, <1>c DEF Numbered, Taken
<1>8. Replying'
  BY <1>a, <1>1, <1>2, <1>c, <1>4, <1>t DEF Replying, Open
<1>9. Dispatching'
  BY <1>a, <1>c, <1>4 DEF Dispatching
<1>10. Noting'
  <2>1. ASSUME NEW x \in Operations, NEW p \in Requests, pending'[x].request = p
        PROVE  /\ pending'[x].terminal => Silent(p)'
               /\ pending'[x].accepted =>
                    disp[p].pc \notin {"idle", "admit"} /\ \A g \in Within(wire'["server"]) : g.of = p => g.kind # "accepted"
    <3>1. CASE pending'[x] = pending[x]
      <4>1. /\ pending[x].terminal => Silent(p)
            /\ pending[x].accepted =>
                 disp[p].pc \notin {"idle", "admit"} /\ \A g \in Within(wire["server"]) : g.of = p => g.kind # "accepted"
        BY <1>a, <2>1, <3>1, NoRequestIsEmpty DEF Noting
      <4>2. QED
        BY <1>2, <1>s, <3>1, <4>1
    <3>2. CASE x = o /\ pending' # pending
      <4>1. /\ pending[o].request = q /\ ~pending[o].terminal
            /\ pending' = [pending EXCEPT ![o].accepted = @ \/ f.kind = "accepted",
                                          ![o].terminal = @ \/ f.kind # "accepted"]
        BY <1>3, <3>2
      <4>2. pending[o] \in PendingType
        BY <1>a DEF ClientTypes
      <4> PICK a \in BOOLEAN : a = (pending[o].accepted \/ f.kind = "accepted")
        OBVIOUS
      <4> PICK t \in BOOLEAN : t = (pending[o].terminal \/ f.kind # "accepted")
        OBVIOUS
      <4> PICK r : r = [pending[o] EXCEPT !.accepted = a, !.terminal = t]
        OBVIOUS
      <4>3. pending' = [pending EXCEPT ![o] = r]
        BY <1>a, <4>1 DEF ClientTypes
      <4>4. r.request = q /\ r.accepted = a /\ r.terminal = t
        BY <4>1, <4>2 DEF PendingType
      <4>5. pending'[o] = r
        BY <1>a, <4>3 DEF ClientTypes
      <4>6. t => Silent(q)'
        BY <1>5, <4>1
      <4>7. a => disp[q].pc \notin {"idle", "admit"} /\ \A g \in Within(wire'["server"]) : g.of = q => g.kind # "accepted"
        BY <1>a, <1>2, <1>5, <4>1, NoRequestIsEmpty DEF Noting
      <4>8. p = q
        BY <2>1, <3>2, <4>4, <4>5
      <4>9. QED
        BY <3>2, <4>4, <4>5, <4>6, <4>7, <4>8
    <3>3. QED
      BY <1>a, <1>3, <3>1, <3>2 DEF ClientTypes
  <2>2. \A x \in Operations : pending'[x].request = pending[x].request
    <3>1. CASE UNCHANGED <<req, pending>>
      BY <3>1
    <3>2. CASE pending' = [pending EXCEPT ![o].accepted = @ \/ f.kind = "accepted",
                                          ![o].terminal = @ \/ f.kind # "accepted"]
      BY <1>a, <3>2 DEF ClientTypes, PendingType
    <3>3. QED
      BY <1>3, <3>1, <3>2
  <2>3. QED
    BY <1>c, <1>t, <2>1, <2>2 DEF Noting
<1>11. Offering'
  <2>1. ASSUME NEW c \in Calls, Offered(c)' PROVE Silent(Call(c))' /\ disp[Call(c)].finished
    <3>1. Offered(c) \/ (Call(c) = q /\ Answers(f))
      BY <1>4, <2>1, CallFacts DEF Offered
    <3>2. CASE Offered(c)
      BY <1>a, <1>s, <3>2, CallFacts DEF Offering
    <3>3. CASE Call(c) = q /\ Answers(f)
      BY <1>a, <1>2, <1>5, <3>3 DEF Offering, Answers
    <3>4. QED
      BY <3>1, <3>2, <3>3
  <2>2. \A c \in Calls : \A g \in Flying("server")' : g.of = Call(c) /\ Answers(g) => disp[Call(c)].finished
    BY <1>a, <1>2 DEF Offering
  <2>3. QED
    BY <1>c, <2>1, <2>2 DEF Offering
<1>12. Applying'
  <2>1. \A c \in Calls : \A g \in Flying("server")' : g.of = Decision(c) /\ Answers(g) => Settles(c, req'[Decision(c)].accept)
    BY <1>a, <1>2, <1>4, CallFacts DEF Applying
  <2>2. ASSUME NEW c \in Calls, Succeeded(Decision(c))'
        PROVE  Begun(Decision(c))' /\ Settles(c, req'[Decision(c)].accept)
    <3>1. Succeeded(Decision(c)) \/ (Decision(c) = q /\ Answers(f))
      BY <1>4, <2>2, CallFacts
    <3>2. CASE Succeeded(Decision(c))
      BY <1>a, <1>4, <3>2, CallFacts DEF Applying
    <3>3. CASE Decision(c) = q /\ Answers(f)
      BY <1>a, <1>2, <1>4, <3>3 DEF Applying, Replying
    <3>4. QED
      BY <3>1, <3>2, <3>3
  <2>3. QED
    BY <1>a, <1>c, <2>1, <2>2 DEF Applying, Settles
<1>13. PeersAgree' /\ DecisionsAgree'
  BY <1>a, <1>1, <1>3, <1>c DEF PeersAgree, DecisionsAgree
<1>14. QED
  BY <1>6, <1>7, <1>8, <1>9, <1>10, <1>11, <1>12, <1>13, AgreementMade

-----------------------------------------------------------------------------
(* The steps of the server                                                 *)

\* A dispatch goes on.
Onward(old, new) ==
    \/ old = "admit" /\ new \in {"run", "finish"}
    \/ old = "run" /\ new \in {"handler", "deciding", "abort", "reply"}
    \/ old = "handler" /\ new \in {"offer", "reply"}
    \/ old = "deciding" /\ new = "decided"
    \/ old \in {"offer", "decided", "abort"} /\ new = "reply"
    \/ old = "reply" /\ new = "finish"
    \/ old = "finish" /\ new = "end"

\* What a step of the server does to its dispatches.
DispatchMoves ==
    /\ \A q \in Requests :
         /\ disp'[q].pc = disp[q].pc \/ Onward(disp[q].pc, disp'[q].pc)
         /\ disp'[q].accept = disp[q].accept
         /\ disp[q].finished => disp'[q].finished
         /\ disp'[q].finished => disp'[q].pc \in {"reply", "finish", "end"}
    /\ \A o \in Operations : active'[o] # <<>> => active'[o] = active[o] /\ ~disp'[active[o]].finished

\* What it does to the fate of results: none is decided twice.
FateMoves ==
    \A c \in Calls :
        /\ fate[c] \in {"accepted", "released"} => fate'[c] \in {"accepted", "released"}
        /\ fate[c] = "discarded" => fate'[c] = "discarded"
        /\ fate[c] = "none" => fate'[c] = "none" \/ disp'[Call(c)].pc = "offer"
        /\ disp'[Call(c)].pc = "offer" => disp[Call(c)].pc = "offer" \/ fate'[c] # "none"
        /\ fate'[c] = "none" => /\ fate[c] = "none" /\ (entry'[c].present => entry[c].present)
                                /\ disp'[Decision(c)].pc = "deciding" => disp[Decision(c)].pc = "deciding"
        /\ fate'[c] \in {"accepted", "released"} =>
             \/ fate[c] \in {"accepted", "released"}
             \/ disp'[Decision(c)].pc \notin {"idle", "admit", "run", "deciding"}

SettlesNext(c, accept) == IF accept THEN fate'[c] \in {"accepted", "released"} ELSE fate'[c] = "discarded"

LEMMA FateSettles ==
  ASSUME FateMoves, NEW c \in Calls, NEW accept, Settles(c, accept)
  PROVE  SettlesNext(c, accept)
  BY DEF FateMoves, Settles, SettlesNext

LEMMA AppliesOn ==
  ASSUME Applying, DispatchMoves, FateMoves, UNCHANGED client,
         \A c \in Calls : disp'[Decision(c)].pc = "decided" /\ disp'[Decision(c)].code = "ok" =>
            \/ disp[Decision(c)].pc = "decided" /\ disp[Decision(c)].code = "ok"
            \/ SettlesNext(c, disp'[Decision(c)].accept),
         \A c \in Calls : \A f \in Flying("server")' : f.of = Decision(c) /\ Answers(f) =>
            f \in Flying("server") \/ SettlesNext(c, req[Decision(c)].accept)
  PROVE  Applying'
<1>1. req' = req
  BY DEF client
<1>2. \A c \in Calls : Call(c) \in Requests /\ Decision(c) \in Requests
  BY CallFacts
<1>3. ASSUME NEW c \in Calls
      PROVE  /\ disp'[Call(c)].pc \in {"idle", "admit", "run", "handler"} => fate'[c] = "none"
             /\ disp'[Call(c)].pc = "offer" => fate'[c] # "none"
             /\ fate'[c] = "none" => ~entry'[c].present /\ disp'[Decision(c)].pc # "deciding"
             /\ disp'[Decision(c)].pc \in {"idle", "admit", "run", "deciding"} => fate'[c] \notin {"accepted", "released"}
  <2>1. disp'[Call(c)].pc \in {"idle", "admit", "run", "handler"} => disp[Call(c)].pc \in {"idle", "admit", "run", "handler"}
    BY <1>2 DEF DispatchMoves, Onward
  <2>2. disp'[Decision(c)].pc \in {"idle", "admit", "run", "deciding"} => disp[Decision(c)].pc \in {"idle", "admit", "run", "deciding"}
    BY <1>2 DEF DispatchMoves, Onward
  <2>3. /\ disp[Call(c)].pc \in {"idle", "admit", "run", "handler"} => fate[c] = "none"
        /\ disp[Call(c)].pc = "offer" => fate[c] # "none"
        /\ fate[c] = "none" => ~entry[c].present /\ disp[Decision(c)].pc # "deciding"
        /\ disp[Decision(c)].pc \in {"idle", "admit", "run", "deciding"} => fate[c] \notin {"accepted", "released"}
    BY DEF Applying
  <2>4. QED
    BY <2>1, <2>2, <2>3 DEF FateMoves
<1>4. \A c \in Calls : disp'[Decision(c)].pc = "decided" /\ disp'[Decision(c)].code = "ok" =>
         SettlesNext(c, disp'[Decision(c)].accept)
  BY <1>2, FateSettles DEF Applying, DispatchMoves
<1>5. \A c \in Calls : \A f \in Flying("server")' : f.of = Decision(c) /\ Answers(f) => SettlesNext(c, req[Decision(c)].accept)
  BY FateSettles DEF Applying
<1>6. \A c \in Calls : Succeeded(Decision(c)) => Begun(Decision(c)) /\ SettlesNext(c, req[Decision(c)].accept)
  BY FateSettles DEF Applying
<1>7. QED
  BY <1>1, <1>3, <1>4, <1>5, <1>6 DEF Applying, Settles, SettlesNext, Succeeded, Begun

\* What the invariant still needs of a step of the server that reads no request.
LEMMA ServerKeeps ==
  ASSUME IInv, Agreement, DispatchMoves, FateMoves, UNCHANGED <<protocolError, client, peerID>>,
         out'["client"] = out["client"], InOrder(id, wire'["client"]), Within(wire'["client"]) \subseteq Within(wire["client"]),
         \A f \in Flying("server")' :
            \/ f \in Flying("server")
            \/ /\ disp[f.of].pc \notin {"idle", "finish", "end"}
               /\ \A c \in Calls : f.of = Call(c) /\ Answers(f) => disp'[Call(c)].finished,
         \A f \in Within(wire'["server"]) : f.kind = "accepted" => f \in Within(wire["server"]) \/ disp[f.of].pc = "admit",
         Replying', Applying'
  PROVE  Agreement'
<1>a. /\ TypeOK /\ TransportTypes /\ ClientTypes /\ ServerTypes
      /\ PeersAgree /\ DecisionsAgree /\ Sending /\ Numbered /\ Replying /\ Dispatching
      /\ Noting /\ Offering /\ Applying
  BY InvParts, AgreementParts
<1>c. id' = id /\ req' = req /\ pending' = pending /\ given' = given /\ peerID' = peerID
  BY DEF client
<1>b. OutOf("client")' = OutOf("client") /\ Flying("client")' \subseteq Flying("client")
  BY DEF OutOf, Flying
<1>t. /\ \A f \in Flying("client") : f.of \in Requests
      /\ \A o \in Operations : pending[o].request \in Requests \cup {<<>>}
      /\ \A o \in Operations : active[o] \in Requests \cup {<<>>}
  BY <1>a, FrameTypes DEF Sides, ClientTypes, PendingType, ServerTypes
<1>m. \A q \in Requests :
        /\ disp'[q].pc = "idle" <=> disp[q].pc = "idle"
        /\ disp'[q].pc = "admit" => disp[q].pc = "admit"
        /\ disp[q].pc \in {"finish", "end"} => disp'[q].pc \in {"finish", "end"}
        /\ disp'[q].accept = disp[q].accept
        /\ disp[q].finished => disp'[q].finished
        /\ disp'[q].finished => disp'[q].pc \in {"reply", "finish", "end"}
  BY DEF DispatchMoves, Onward
<1>1. Sending'
  <2>1. \A f \in Flying("client")' : Asks(f) =>
          /\ Begun(f.of) /\ disp'[f.of].pc = "idle" /\ f.accept = req[f.of].accept
          /\ f.of \in Operations => peerID < id[f.of]
    BY <1>a, <1>b, <1>m, <1>t DEF Sending
  <2>2. \A f \in Within(wire'["client"]), g \in OutOf("client") : Follows(id, f, g)
    BY <1>a DEF Sending
  <2>3. QED
    BY <1>a, <1>b, <1>c, <2>1, <2>2 DEF Sending, Begun
<1>2. Numbered'
  BY <1>a, <1>c DEF Numbered, Taken
<1>3. Dispatching'
  <2>1. \A q \in Requests :
          /\ disp'[q].pc # "idle" => Begun(q) /\ disp'[q].accept = req[q].accept
          /\ disp'[q].finished => disp'[q].pc \in {"reply", "finish", "end"}
    BY <1>a, <1>m DEF Dispatching
  <2>2. ASSUME NEW o \in Operations, active'[o] # <<>>
        PROVE  OperationOf(active'[o]) = o /\ disp'[active'[o]].pc # "idle" /\ ~disp'[active'[o]].finished
    <3>1. active'[o] = active[o] /\ ~disp'[active[o]].finished
      BY <2>2 DEF DispatchMoves
    <3>2. OperationOf(active[o]) = o /\ disp[active[o]].pc # "idle" /\ active[o] \in Requests
      BY <1>a, <1>t, <2>2, <3>1 DEF Dispatching
    <3>3. QED
      BY <1>m, <3>1, <3>2
  <2>3. QED
    BY <1>c, <2>1, <2>2 DEF Dispatching, Begun
<1>s. \A q \in Requests : Silent(q) => Silent(q)'
  BY <1>b, <1>c, <1>m DEF Silent, Begun
<1>4. Noting'
  <2>1. ASSUME NEW o \in Operations, NEW q \in Requests, pending[o].request = q, pending[o].accepted
        PROVE  disp'[q].pc \notin {"idle", "admit"} /\ \A f \in Within(wire'["server"]) : f.of = q => f.kind # "accepted"
    <3>1. disp[q].pc \notin {"idle", "admit"} /\ \A f \in Within(wire["server"]) : f.of = q => f.kind # "accepted"
      BY <1>a, <2>1, NoRequestIsEmpty DEF Noting
    <3>2. QED
      BY <1>m, <3>1
  <2>2. \A o \in Operations : \A q \in Requests : pending[o].request = q /\ pending[o].terminal => Silent(q)'
    BY <1>a, <1>s, NoRequestIsEmpty DEF Noting
  <2>3. QED
    BY <1>c, <1>t, <2>1, <2>2 DEF Noting
<1>5. Offering'
  <2>1. \A c \in Calls : Offered(c)' => Offered(c)
    BY <1>c DEF Offered, Succeeded
  <2>2. \A c \in Calls : Offered(c) => Silent(Call(c))' /\ disp'[Call(c)].finished
    BY <1>a, <1>m, <1>s, CallFacts DEF Offering
  <2>3. \A c \in Calls : \A f \in Flying("server")' : f.of = Call(c) /\ Answers(f) => disp'[Call(c)].finished
    BY <1>a, <1>m, CallFacts DEF Offering
  <2>4. QED
    BY <2>1, <2>2, <2>3 DEF Offering
<1>6. PeersAgree' /\ DecisionsAgree'
  BY <1>a, <1>c DEF PeersAgree, DecisionsAgree, FateMoves
<1>7. QED
  BY <1>1, <1>2, <1>3, <1>4, <1>5, <1>6, AgreementMade

\* Nothing new is said of requests.
LEMMA RepliesStand ==
  ASSUME IInv, Agreement, DispatchMoves, UNCHANGED client, wire'["server"] = wire["server"],
         out'["client"] = out["client"], Within(wire'["client"]) \subseteq Within(wire["client"]),
         \A lane \in Lanes : out'["server"][lane] \in {out["server"][lane], <<>>},
         \/ OutOf("server")' = {}
         \/ /\ Open("server")' <=> Open("server")
            /\ \A q \in Requests : disp[q].pc \in {"admit", "reply"} => disp'[q].pc = disp[q].pc
  PROVE  /\ Replying' /\ Flying("server")' \subseteq Flying("server")
         /\ \A f \in Within(wire'["server"]) : f \in Within(wire["server"])
<1>a. TransportTypes /\ Replying
  BY InvParts, AgreementParts
<1>1. \A lane \in Lanes : Within(out'["server"][lane]) \subseteq Within(out["server"][lane]) /\ InTurn(out'["server"][lane])
  BY <1>a, WithinEmpty DEF Replying
<1>2. OutOf("server")' \subseteq OutOf("server")
  BY <1>1 DEF OutOf
<1>3. Flying("server")' \subseteq Flying("server")
  BY <1>2 DEF Flying
<1>4. Flying("client")' \subseteq Flying("client")
  BY DEF Flying, OutOf
<1>t. \A f \in Flying("server") : f.of \in Requests
  BY <1>a, FrameTypes DEF Sides
<1>5. \A f \in Flying("server")' :
        /\ f.kind \in {"accepted", ReplyKind(f.of)} /\ Begun(f.of)'
        /\ \A g \in Flying("client")' : Asks(g) => g.of # f.of
  BY <1>a, <1>3, <1>4 DEF Replying, Begun, client
<1>6. /\ \A lane \in Lanes : \A f \in Within(out'["server"][lane]) : LaneOf(f.kind) = lane
      /\ \A lane \in Lanes : InTurn(out'["server"][lane])
      /\ InTurn(wire'["server"])
      /\ \A f \in Within(wire'["server"]), g \in OutOf("server")' : Precedes(f, g)
  BY <1>a, <1>1, <1>2 DEF Replying
<1>7. \A f \in OutOf("server")' :
        IF f.kind = "accepted" THEN disp'[f.of].pc = "admit" ELSE disp'[f.of].pc \in {"idle", "reply"}
  <2> SUFFICES ASSUME NEW f \in OutOf("server")'
               PROVE  IF f.kind = "accepted" THEN disp'[f.of].pc = "admit" ELSE disp'[f.of].pc \in {"idle", "reply"}
    OBVIOUS
  <2>1. f.of \in Requests /\ f \in OutOf("server")
    BY <1>2, <1>t DEF Flying
  <2>2. IF f.kind = "accepted" THEN disp[f.of].pc = "admit" ELSE disp[f.of].pc \in {"idle", "reply"}
    BY <1>a, <2>1 DEF Replying
  <2>3. QED
    BY <2>1, <2>2 DEF DispatchMoves, Onward
<1>8. \A f \in Within(wire'["server"]) :
        IF f.kind = "accepted" THEN disp'[f.of].pc \notin {"idle", "admit"}
                               ELSE disp'[f.of].pc \in {"idle", "finish", "end"}
  <2> SUFFICES ASSUME NEW f \in Within(wire["server"])
               PROVE  IF f.kind = "accepted" THEN disp'[f.of].pc \notin {"idle", "admit"}
                                             ELSE disp'[f.of].pc \in {"idle", "finish", "end"}
    OBVIOUS
  <2>1. f.of \in Requests
    BY <1>t DEF Flying
  <2>2. IF f.kind = "accepted" THEN disp[f.of].pc \notin {"idle", "admit"}
                               ELSE disp[f.of].pc \in {"idle", "finish", "end"}
    BY <1>a DEF Replying
  <2>3. QED
    BY <2>1, <2>2 DEF DispatchMoves, Onward
<1>9. ~Open("server")' => OutOf("server")' = {}
  BY <1>a, <1>2 DEF Replying
<1>10. QED
  BY <1>3, <1>5, <1>6, <1>7, <1>8, <1>9 DEF Replying

\* The server queues a frame.
LEMMA FrameQueued ==
  ASSUME IInv, Agreement, UNCHANGED client, NEW q \in Requests, NEW m \in Frame, m.of = q,
         m.kind \in {"accepted", ReplyKind(q)}, out' = Queued("server", m), wire'["server"] = wire["server"],
         Within(wire'["client"]) \subseteq Within(wire["client"]), Begun(q), Open("server")',
         \A g \in Flying("client")' : Asks(g) => g.of # q,
         \A g \in OutOf("server") : g.of # q,
         \A g \in Within(wire["server"]) : g.of = q =>
            g.kind = "accepted" /\ m.kind # "accepted" /\ disp'[q].pc \notin {"idle", "admit"},
         \A p \in Requests \ {q} : disp'[p].pc = disp[p].pc,
         IF m.kind = "accepted" THEN disp'[q].pc = "admit" ELSE disp'[q].pc \in {"idle", "reply"}
  PROVE  /\ Replying' /\ Flying("server")' = Flying("server") \cup {m}
         /\ out'["client"] = out["client"]
<1>a. TransportTypes /\ Replying
  BY InvParts, AgreementParts
<1> PICK lane \in Lanes : lane = LaneOf(m.kind)
  BY DEF LaneOf, Lanes
<1>1. /\ out'["server"][lane] = Append(out["server"][lane], m)
      /\ \A l \in Lanes \ {lane} : out'["server"][l] = out["server"][l]
      /\ \A l \in Lanes : Within(out'["server"][l]) = IF l = lane THEN Within(out["server"][l]) \cup {m}
                                                                ELSE Within(out["server"][l])
      /\ OutOf("server")' = OutOf("server") \cup {m}
      /\ out'["client"] = out["client"] /\ OutOf("client")' = OutOf("client")
  BY <1>a, QueuedFrames DEF Sides, Peer
<1>2. Flying("server")' = Flying("server") \cup {m} /\ Flying("client")' \subseteq Flying("client")
  BY <1>1 DEF Flying
<1>t. /\ \A f \in Flying("server") : f.of \in Requests
      /\ \A l \in Lanes : Within(out["server"][l]) \subseteq OutOf("server") /\ out["server"][l] \in Seq(Frame)
  BY <1>a, FrameTypes DEF Sides, TransportTypes
<1>3. \A g \in Flying("server") : Precedes(g, m)
  BY DEF Flying, Precedes
<1>4. \A l \in Lanes : InTurn(out'["server"][l])
  <2>1. InTurn(out'["server"][lane])
    <3>1. InTurn(out["server"][lane]) /\ \A g \in Within(out["server"][lane]) : Precedes(g, m)
      BY <1>a, <1>3, <1>t DEF Replying, Flying
    <3>2. out["server"][lane] \in Seq(Frame)
      BY <1>t
    <3>3. InTurn(Append(out["server"][lane], m))
      BY ONLY <3>1, <3>2, m \in Frame, TurnAppend
    <3>4. QED
      BY <1>1, <3>3
  <2>2. \A l \in Lanes \ {lane} : InTurn(out'["server"][l])
    BY <1>a, <1>1 DEF Replying
  <2>3. QED
    BY <2>1, <2>2
<1>5. \A f \in Flying("server")' :
        /\ f.kind \in {"accepted", ReplyKind(f.of)} /\ Begun(f.of)'
        /\ \A g \in Flying("client")' : Asks(g) => g.of # f.of
  BY <1>a, <1>2 DEF Replying, Begun, client
<1>6. \A l \in Lanes : \A f \in Within(out'["server"][l]) : LaneOf(f.kind) = l
  <2> SUFFICES ASSUME NEW l \in Lanes, NEW f \in Within(out'["server"][l]) PROVE LaneOf(f.kind) = l
    OBVIOUS
  <2>1. f \in Within(out["server"][l]) \/ (f = m /\ l = lane)
    BY <1>1
  <2>2. QED
    BY <1>a, <2>1 DEF Replying
<1>7. /\ InTurn(wire'["server"])
      /\ \A f \in Within(wire'["server"]), g \in OutOf("server")' : Precedes(f, g)
  BY <1>a, <1>1, <1>3 DEF Replying, Flying
<1>8. \A f \in OutOf("server")' :
        IF f.kind = "accepted" THEN disp'[f.of].pc = "admit" ELSE disp'[f.of].pc \in {"idle", "reply"}
  <2> SUFFICES ASSUME NEW f \in OutOf("server")'
               PROVE  IF f.kind = "accepted" THEN disp'[f.of].pc = "admit" ELSE disp'[f.of].pc \in {"idle", "reply"}
    OBVIOUS
  <2>1. CASE f = m
    BY <2>1
  <2>2. CASE f \in OutOf("server")
    <3>1. f.of \in Requests \ {q}
      BY <1>t, <2>2 DEF Flying
    <3>2. disp'[f.of].pc = disp[f.of].pc
      BY <3>1
    <3>3. QED
      BY <1>a, <2>2, <3>2 DEF Replying
  <2>3. QED
    BY <1>1, <2>1, <2>2
<1>9. \A f \in Within(wire'["server"]) :
        IF f.kind = "accepted" THEN disp'[f.of].pc \notin {"idle", "admit"}
                               ELSE disp'[f.of].pc \in {"idle", "finish", "end"}
  <2> SUFFICES ASSUME NEW f \in Within(wire["server"])
               PROVE  IF f.kind = "accepted" THEN disp'[f.of].pc \notin {"idle", "admit"}
                                             ELSE disp'[f.of].pc \in {"idle", "finish", "end"}
    OBVIOUS
  <2>1. CASE f.of = q
    BY <2>1
  <2>2. CASE f.of # q
    <3>1. f.of \in Requests \ {q}
      BY <1>t, <2>2 DEF Flying
    <3>2. disp'[f.of].pc = disp[f.of].pc
      BY <3>1
    <3>3. QED
      BY <1>a, <3>2 DEF Replying
  <2>3. QED
    BY <2>1, <2>2
<1>10. QED
  BY <1>1, <1>2, <1>4, <1>5, <1>6, <1>7, <1>8, <1>9 DEF Replying

\* One dispatch goes on.
LEMMA OneDispatch ==
  ASSUME ServerTypes, Dispatching, NEW q \in Requests, \A p \in Requests \ {q} : disp'[p] = disp[p],
         disp'[q].pc = disp[q].pc \/ Onward(disp[q].pc, disp'[q].pc), disp'[q].accept = disp[q].accept,
         \/ disp'[q].finished = disp[q].finished
         \/ disp'[q].pc \in {"reply", "finish", "end"} /\ disp'[q].finished /\ active'[OperationOf(q)] = <<>>,
         \A o \in Operations : active'[o] \in {active[o], <<>>}
  PROVE  DispatchMoves
<1>1. \A p \in Requests :
        /\ disp'[p].pc = disp[p].pc \/ Onward(disp[p].pc, disp'[p].pc)
        /\ disp'[p].accept = disp[p].accept
        /\ disp[p].finished => disp'[p].finished
        /\ disp'[p].finished => disp'[p].pc \in {"reply", "finish", "end"}
  <2>1. \A p \in Requests \ {q} :
          /\ disp'[p].pc = disp[p].pc \/ Onward(disp[p].pc, disp'[p].pc)
          /\ disp'[p].accept = disp[p].accept
          /\ disp[p].finished => disp'[p].finished
          /\ disp'[p].finished => disp'[p].pc \in {"reply", "finish", "end"}
    BY DEF Dispatching
  <2>2. /\ disp[q].finished => disp'[q].finished
        /\ disp'[q].finished => disp'[q].pc \in {"reply", "finish", "end"}
    BY DEF Dispatching, Onward
  <2>3. QED
    BY <2>1, <2>2
<1>2. \A o \in Operations : active'[o] # <<>> => active'[o] = active[o] /\ ~disp'[active[o]].finished
  <2> SUFFICES ASSUME NEW o \in Operations, active'[o] # <<>> PROVE active'[o] = active[o] /\ ~disp'[active[o]].finished
    OBVIOUS
  <2>1. active'[o] = active[o] /\ active[o] # <<>> /\ active[o] \in Requests
    BY DEF ServerTypes
  <2>2. OperationOf(active[o]) = o /\ ~disp[active[o]].finished
    BY <2>1 DEF Dispatching
  <2>3. CASE active[o] = q
    BY <2>1, <2>2, <2>3
  <2>4. CASE active[o] # q
    BY <2>1, <2>2, <2>4
  <2>5. QED
    BY <2>1, <2>3, <2>4
<1>3. QED
  BY <1>1, <1>2 DEF DispatchMoves

\* Dispatches are cancelled, and no more.
LEMMA CancelingMoves ==
  ASSUME ServerTypes, Dispatching, NEW whose \in SUBSET Requests,
         disp' = [q \in Requests |-> IF q \in whose THEN [disp[q] EXCEPT !.canceled = TRUE] ELSE disp[q]],
         \A o \in Operations : active'[o] \in {active[o], <<>>}
  PROVE  DispatchMoves /\ \A q \in Requests : disp'[q].pc = disp[q].pc /\ disp'[q].code = disp[q].code
<1>1. ASSUME NEW q \in Requests
      PROVE  /\ disp'[q].pc = disp[q].pc /\ disp'[q].code = disp[q].code
             /\ disp'[q].accept = disp[q].accept /\ disp'[q].finished = disp[q].finished
  <2> PICK r : r = [disp[q] EXCEPT !.canceled = TRUE]
    OBVIOUS
  <2>1. disp[q] \in DispatchType
    BY DEF ServerTypes
  <2>2. r.pc = disp[q].pc /\ r.code = disp[q].code /\ r.accept = disp[q].accept /\ r.finished = disp[q].finished
    BY <2>1 DEF DispatchType
  <2>3. disp'[q] = r \/ disp'[q] = disp[q]
    OBVIOUS
  <2>4. QED
    BY <2>2, <2>3
<1>2. \A o \in Operations : active[o] \in Requests \cup {<<>>}
  BY DEF ServerTypes
<1>3. QED
  BY <1>1, <1>2 DEF DispatchMoves, Dispatching

LEMMA SameFate ==
  ASSUME Applying, UNCHANGED fate, \A c \in Calls : entry'[c].present => entry[c].present,
         \A c \in Calls : disp'[Decision(c)].pc = "deciding" => disp[Decision(c)].pc = "deciding",
         \A c \in Calls : disp'[Call(c)].pc = "offer" => disp[Call(c)].pc = "offer"
  PROVE  FateMoves
  BY DEF FateMoves

\* A dispatch answers its request.
LEMMA AnswerAgrees ==
  ASSUME IInv, Agreement, NEW q \in Requests, disp[q].pc \in {"run", "handler", "offer", "decided", "abort"},
         NEW code \in Codes,
         \A p \in Requests \ {q} : disp'[p] = disp[p], disp'[q].pc = "reply", disp'[q].accept = disp[q].accept,
         \/ disp'[q].finished = disp[q].finished
         \/ disp'[q].finished /\ active'[OperationOf(q)] = <<>>,
         \A o \in Operations : active'[o] \in {active[o], <<>>},
         q[1] = "call" /\ code = "ok" => disp'[q].finished,
         out' = IF Open("server") THEN Queued("server", Message(ReplyKind(q), q, code, FALSE)) ELSE out,
         UNCHANGED <<state, protocolError, wire, client, peerID>>,
         FateMoves, \A c \in Calls : q = Decision(c) /\ code = "ok" => SettlesNext(c, req[q].accept)
  PROVE  Agreement'
<1>a. /\ TransportTypes /\ ServerTypes /\ Sending /\ Replying /\ Dispatching /\ Applying
  BY InvParts, AgreementParts
<1> PICK m : m = Message(ReplyKind(q), q, code, FALSE)
  OBVIOUS
<1>1. /\ m \in Frame /\ m.of = q /\ m.kind = ReplyKind(q) /\ m.kind # "accepted" /\ (Answers(m) => code = "ok")
  BY DEF Message, Frame, ReplyKind, Answers
<1>2. Onward(disp[q].pc, disp'[q].pc)
  BY DEF Onward
<1>3. DispatchMoves
  <2>1. \/ disp'[q].finished = disp[q].finished
        \/ disp'[q].pc \in {"reply", "finish", "end"} /\ disp'[q].finished /\ active'[OperationOf(q)] = <<>>
    OBVIOUS
  <2>2. QED
    BY <1>a, <1>2, <2>1, OneDispatch
<1>t. /\ \A f \in Flying("server") : f.of \in Requests
      /\ OutOf("server") \subseteq Flying("server") /\ Within(wire["server"]) \subseteq Flying("server")
  BY <1>a, FrameTypes DEF Sides
<1>4. Begun(q) /\ \A g \in Flying("client") : Asks(g) => g.of # q
  BY <1>a DEF Dispatching, Sending
<1>5. Open("server")' <=> Open("server")
  BY DEF Open
<1>6. /\ Replying' /\ out'["client"] = out["client"]
      /\ \A f \in Flying("server")' : f \in Flying("server") \/ f = m
  <2>1. CASE Open("server")
    <3>1. \A g \in OutOf("server") : g.of # q
      BY <1>a DEF Replying
    <3>2. \A g \in Within(wire["server"]) : g.of = q =>
             g.kind = "accepted" /\ m.kind # "accepted" /\ disp'[q].pc \notin {"idle", "admit"}
      BY <1>a, <1>1 DEF Replying
    <3>3. Flying("client")' = Flying("client")
      <4>1. out'["client"] = out["client"]
        BY <1>1, <1>a, <2>1, QueuedFrames DEF Sides, Peer, LaneOf, Lanes
      <4>2. QED
        BY <4>1 DEF Flying, OutOf
    <3>4. out' = Queued("server", m)
      BY <2>1
    <3>5. QED
      BY <1>1, <1>4, <1>5, <2>1, <3>1, <3>2, <3>3, <3>4, FrameQueued
  <2>2. CASE ~Open("server")
    <3>1. OutOf("server") = {} /\ out' = out
      BY <1>a, <2>2 DEF Replying
    <3>2. OutOf("server")' = {}
      BY <3>1 DEF OutOf
    <3>3. \A lane \in Lanes : out'["server"][lane] \in {out["server"][lane], <<>>}
      BY <3>1
    <3>4. Replying' /\ Flying("server")' \subseteq Flying("server")
      BY <1>3, <3>1, <3>2, <3>3, RepliesStand
    <3>5. QED
      BY <3>1, <3>4
  <2>3. QED
    BY <2>1, <2>2
<1>7. Applying'
  <2>1. \A c \in Calls : disp'[Decision(c)].pc = "decided" => disp'[Decision(c)] = disp[Decision(c)]
    BY CallFacts
  <2>2. \A c \in Calls : \A f \in Flying("server")' : f.of = Decision(c) /\ Answers(f) =>
            f \in Flying("server") \/ SettlesNext(c, req[Decision(c)].accept)
    BY <1>1, <1>6
  <2>3. QED
    BY <1>a, <1>3, <2>1, <2>2, AppliesOn
<1>8. \A f \in Flying("server")' :
        \/ f \in Flying("server")
        \/ /\ disp[f.of].pc \notin {"idle", "finish", "end"}
           /\ \A c \in Calls : f.of = Call(c) /\ Answers(f) => disp'[Call(c)].finished
  <2>1. \A c \in Calls : q = Call(c) /\ code = "ok" => disp'[Call(c)].finished
    BY RequestFacts
  <2>2. disp[q].pc \notin {"idle", "finish", "end"}
    OBVIOUS
  <2>3. \A f \in Flying("server")' : f \in Flying("server") \/ f = m
    BY <1>6
  <2>4. m.of = q /\ (Answers(m) => code = "ok")
    BY <1>1
  <2>5. QED
    BY <2>1, <2>2, <2>3, <2>4
<1>9. InOrder(id, wire'["client"])
  BY <1>a DEF Sending
<1>10. QED
  BY <1>3, <1>6, <1>7, <1>8, <1>9, ServerKeeps

\* A step of the server of which nobody is told.
LEMMA InternalAgrees ==
  ASSUME IInv, Agreement, DispatchMoves, FateMoves, UNCHANGED <<state, protocolError, out, wire, client, peerID>>,
         \A q \in Requests : disp[q].pc \in {"admit", "reply"} => disp'[q].pc = disp[q].pc \/ ~Open("server"),
         \A c \in Calls : disp'[Decision(c)].pc = "decided" /\ disp'[Decision(c)].code = "ok" =>
            \/ disp[Decision(c)].pc = "decided" /\ disp[Decision(c)].code = "ok"
            \/ SettlesNext(c, disp'[Decision(c)].accept)
  PROVE  Agreement'
<1>a. Sending /\ Replying /\ Applying
  BY AgreementParts
<1>1. Flying("server")' = Flying("server") /\ OutOf("server")' = OutOf("server")
  BY DEF Flying, OutOf
<1>2. \/ OutOf("server")' = {}
      \/ /\ Open("server")' <=> Open("server")
         /\ \A q \in Requests : disp[q].pc \in {"admit", "reply"} => disp'[q].pc = disp[q].pc
  BY <1>a, <1>1 DEF Replying, Open
<1>3. Replying'
  BY <1>2, RepliesStand
<1>4. Applying'
  BY <1>a, <1>1, AppliesOn
<1>5. InOrder(id, wire'["client"])
  BY <1>a DEF Sending
<1>6. QED
  BY <1>1, <1>3, <1>4, <1>5, ServerKeeps

LEMMA ReplyMoves ==
  ASSUME ServerTypes, NEW q \in Requests, NEW code, NEW release, Reply(q, code, release)
  PROVE  /\ \A p \in Requests \ {q} : disp'[p] = disp[p]
         /\ disp'[q].pc = "reply" /\ disp'[q].accept = disp[q].accept /\ disp'[q].finished = disp[q].finished
         /\ disp'[q].code = code
         /\ out' = IF Open("server") THEN Queued("server", Message(ReplyKind(q), q, code, FALSE)) ELSE out
<1>1. disp[q] \in DispatchType
  BY DEF ServerTypes
<1> PICK holds : holds = (disp[q].holds /\ ~release)
  OBVIOUS
<1> PICK r : r = [disp[q] EXCEPT !.pc = "reply", !.code = code, !.holds = holds]
  OBVIOUS
<1>2. disp' = [disp EXCEPT ![q] = r]
  BY DEF Reply, ServerTypes
<1>3. r.pc = "reply" /\ r.accept = disp[q].accept /\ r.finished = disp[q].finished /\ r.code = code
  BY <1>1 DEF DispatchType
<1>4. disp'[q] = r /\ \A p \in Requests \ {q} : disp'[p] = disp[p]
  BY <1>2 DEF ServerTypes
<1>5. QED
  BY <1>3, <1>4 DEF Reply

LEMMA PcMoves ==
  ASSUME ServerTypes, NEW q \in Requests, NEW pc, disp' = [disp EXCEPT ![q].pc = pc]
  PROVE  /\ \A p \in Requests \ {q} : disp'[p] = disp[p]
         /\ disp'[q].pc = pc /\ disp'[q].accept = disp[q].accept /\ disp'[q].finished = disp[q].finished
         /\ disp'[q].code = disp[q].code
<1>1. disp[q] \in DispatchType
  BY DEF ServerTypes
<1> PICK r : r = [disp[q] EXCEPT !.pc = pc]
  OBVIOUS
<1>2. disp' = [disp EXCEPT ![q] = r]
  BY DEF ServerTypes
<1>3. r.pc = pc /\ r.accept = disp[q].accept /\ r.finished = disp[q].finished /\ r.code = disp[q].code
  BY <1>1 DEF DispatchType
<1>4. disp'[q] = r /\ \A p \in Requests \ {q} : disp'[p] = disp[p]
  BY <1>2 DEF ServerTypes
<1>5. QED
  BY <1>3, <1>4

LEMMA ReplyAgrees ==
  ASSUME IInv, Agreement, NEW q \in Requests, disp[q].pc \in {"run", "handler", "offer", "decided", "abort"},
         NEW code \in Codes, NEW release, Reply(q, code, release), q[1] = "call" => code # "ok",
         UNCHANGED <<state, protocolError, wire, client, peerID, active>>,
         FateMoves, \A c \in Calls : q = Decision(c) /\ code = "ok" => SettlesNext(c, req[q].accept)
  PROVE  Agreement'
<1>a. ServerTypes
  BY InvParts
<1>1. /\ \A p \in Requests \ {q} : disp'[p] = disp[p]
      /\ disp'[q].pc = "reply" /\ disp'[q].accept = disp[q].accept /\ disp'[q].finished = disp[q].finished
      /\ out' = IF Open("server") THEN Queued("server", Message(ReplyKind(q), q, code, FALSE)) ELSE out
  BY <1>a, ReplyMoves
<1>2. /\ \A o \in Operations : active'[o] \in {active[o], <<>>}
      /\ q[1] = "call" /\ code = "ok" => disp'[q].finished
      /\ disp'[q].finished = disp[q].finished \/ (disp'[q].finished /\ active'[OperationOf(q)] = <<>>)
  BY <1>1
<1>3. QED
  BY <1>1, <1>2, AnswerAgrees

\* A reply that decides nothing.
LEMMA PlainReplyAgrees ==
  ASSUME IInv, Agreement, NEW q \in Requests, disp[q].pc \in {"run", "handler", "offer", "decided", "abort"},
         NEW code \in Codes, NEW release, Reply(q, code, release),
         code = "ok" => q[1] # "call" /\ q[1] # "decision",
         UNCHANGED <<state, protocolError, wire, client, peerID, active, fate>>,
         \A c \in Calls : entry'[c].present => entry[c].present
  PROVE  Agreement'
<1>a. ServerTypes /\ Applying
  BY InvParts, AgreementParts
<1>1. (\A p \in Requests \ {q} : disp'[p] = disp[p]) /\ disp'[q].pc = "reply"
  BY <1>a, ReplyMoves
<1>2. \A p \in Requests : disp'[p].pc \in {"deciding", "offer"} => disp'[p] = disp[p]
  BY <1>1
<1>3. FateMoves
  BY <1>a, <1>2, CallFacts, SameFate
<1>4. \A c \in Calls : Decision(c)[1] = "decision"
  BY DEF Decision
<1>5. (\A c \in Calls : q = Decision(c) => code # "ok") /\ (q[1] = "call" => code # "ok")
  BY <1>4
<1>6. QED
  BY <1>3, <1>5, ReplyAgrees

LEMMA DispatchBindAgrees ==
  ASSUME IInv, Agreement, NEW ok \in BOOLEAN, DispatchBind(ok)
  PROVE  Agreement'
<1>1. /\ disp[Bind].pc = "run" /\ UNCHANGED <<peerID, active, entry, fate, state, protocolError, wire, client>>
      /\ \E code \in Codes : Reply(Bind, code, TRUE)
  BY DEF DispatchBind, Codes
<1> PICK code \in Codes : Reply(Bind, code, TRUE)
  BY <1>1
<1>2. Bind \in Requests /\ Bind[1] = "bind"
  BY RequestFacts
<1>3. QED
  BY <1>1, <1>2, PlainReplyAgrees

LEMMA CloseAbortedAgrees ==
  ASSUME IInv, Agreement, CloseAborted
  PROVE  Agreement'
<1>1. /\ disp[Close].pc = "abort" /\ UNCHANGED <<peerID, active, fate, state, protocolError, wire, client>>
      /\ Reply(Close, "ok", TRUE) /\ "ok" \in Codes
      /\ entry' = [c \in Calls |-> IF c \in Entries /\ ~entry[c].deciding THEN NoEntry ELSE entry[c]]
  BY DEF CloseAborted, Codes
<1>2. Close \in Requests /\ Close[1] = "close"
  BY RequestFacts
<1>3. \A c \in Calls : entry'[c].present => entry[c].present
  BY <1>1 DEF NoEntry
<1>4. QED
  BY <1>1, <1>2, <1>3, PlainReplyAgrees

LEMMA DispatchCallAgrees ==
  ASSUME IInv, Agreement, NEW c \in Calls, DispatchCall(c)
  PROVE  Agreement'
<1> PICK q \in Requests : q = Call(c)
  BY CallFacts
<1>a. ServerTypes /\ Dispatching /\ Applying
  BY InvParts, AgreementParts
<1>1. /\ disp[q].pc = "run" /\ UNCHANGED <<peerID, active, entry, fate, state, protocolError, wire, client>>
      /\ \/ \E code \in {"definite", "uncertain"}, release \in BOOLEAN : Reply(q, code, release)
         \/ disp' = [disp EXCEPT ![q].pc = "handler"] /\ UNCHANGED out
  BY DEF DispatchCall
<1>2. ASSUME NEW code \in {"definite", "uncertain"}, NEW release \in BOOLEAN, Reply(q, code, release) PROVE Agreement'
  <2>1. code \in Codes /\ code # "ok"
    BY DEF Codes
  <2>2. QED
    BY <1>1, <1>2, <2>1, PlainReplyAgrees
<1>3. CASE disp' = [disp EXCEPT ![q].pc = "handler"] /\ UNCHANGED out
  <2>1. /\ \A p \in Requests \ {q} : disp'[p] = disp[p]
        /\ disp'[q].pc = "handler" /\ disp'[q].accept = disp[q].accept /\ disp'[q].finished = disp[q].finished
    BY <1>a, <1>3, PcMoves
  <2>2. DispatchMoves
    BY <1>1, <1>a, <2>1, OneDispatch DEF Onward
  <2>3. \A p \in Requests : disp'[p].pc \in {"deciding", "offer", "decided"} => disp'[p] = disp[p]
    BY <2>1
  <2>4. FateMoves
    BY <1>1, <1>a, <2>3, CallFacts, SameFate
  <2>5. \A p \in Requests : disp[p].pc \in {"admit", "reply"} => disp'[p].pc = disp[p].pc
    BY <1>1, <2>1
  <2>6. QED
    BY <1>1, <1>3, <2>2, <2>3, <2>4, <2>5, CallFacts, InternalAgrees
<1>4. QED
  BY <1>1, <1>2, <1>3

LEMMA HandlerReturnsAgrees ==
  ASSUME IInv, Agreement, NEW c \in Calls, NEW code \in scenario.answers, HandlerReturns(c, code)
  PROVE  Agreement'
<1> PICK q \in Requests : q = Call(c)
  BY CallFacts
<1>a. ServerTypes /\ Dispatching /\ Applying /\ TypeOK
  BY InvParts, AgreementParts
<1>1. disp[q].pc = "handler" /\ UNCHANGED <<peerID, active, entry, state, protocolError, wire, client>>
  BY DEF HandlerReturns
<1>2. CASE code # "ok"
  <2>1. Reply(q, code, TRUE) /\ fate' = fate
    BY <1>2 DEF HandlerReturns
  <2>2. code \in Codes
    BY <1>a, EndpointAssumption DEF TypeOK, Codes
  <2>3. QED
    BY <1>1, <1>2, <2>1, <2>2, PlainReplyAgrees
<1>3. CASE code = "ok"
  <2>0. disp' = [disp EXCEPT ![q].pc = "offer"] /\ fate' = [fate EXCEPT ![c] = "undecided"] /\ out' = out
    BY <1>3 DEF HandlerReturns
  <2>1. /\ \A p \in Requests \ {q} : disp'[p] = disp[p]
        /\ disp'[q].pc = "offer" /\ disp'[q].accept = disp[q].accept /\ disp'[q].finished = disp[q].finished
    BY <1>a, <2>0, PcMoves
  <2>2. DispatchMoves
    BY <1>1, <1>a, <2>1, OneDispatch DEF Onward
  <2>3. \A d \in Calls : disp'[Decision(d)] = disp[Decision(d)]
    BY <2>1, CallFacts
  <2>4. FateMoves
    <3>1. fate'[c] = "undecided" /\ fate[c] = "none" /\ \A d \in Calls \ {c} : fate'[d] = fate[d]
      BY <1>1, <1>a, <2>0 DEF ServerTypes, Applying
    <3>2. \A d \in Calls \ {c} : disp'[Call(d)] = disp[Call(d)]
      BY <2>1, CallFacts
    <3>3. QED
      BY <1>1, <2>1, <2>3, <3>1, <3>2 DEF FateMoves
  <2>5. \A p \in Requests : disp[p].pc \in {"admit", "reply"} => disp'[p].pc = disp[p].pc
    BY <1>1, <2>1
  <2>6. QED
    BY <1>1, <2>0, <2>2, <2>3, <2>4, <2>5, InternalAgrees
<1>4. QED
  BY <1>2, <1>3

\* A result nobody decided is discarded.
LEMMA DiscardMoves ==
  ASSUME ServerTypes, Applying, NEW c \in Calls, fate' = Discarded(c),
         \A d \in Calls : entry'[d].present => entry[d].present,
         \A d \in Calls : disp'[Decision(d)].pc = "deciding" => disp[Decision(d)].pc = "deciding",
         \A d \in Calls : disp'[Call(d)].pc = "offer" => disp[Call(d)].pc = "offer"
  PROVE  FateMoves
<1>1. fate'[c] = (IF fate[c] = "undecided" THEN "discarded" ELSE fate[c]) /\ \A d \in Calls \ {c} : fate'[d] = fate[d]
  BY DEF Discarded, ServerTypes
<1>2. QED
  BY <1>1 DEF FateMoves

LEMMA OfferAgrees ==
  ASSUME IInv, Agreement, NEW c \in Calls, Offer(c)
  PROVE  Agreement'
<1> PICK q \in Requests : q = Call(c)
  BY CallFacts
<1>a. ServerTypes /\ Dispatching /\ Applying
  BY InvParts, AgreementParts
<1>1. disp[q].pc = "offer" /\ UNCHANGED <<peerID, state, protocolError, wire, client>>
  BY DEF Offer
<1>2. /\ q \in Operations /\ OperationOf(q) = q /\ ReplyKind(q) = "offer" /\ \A d \in Calls : q # Decision(d)
      /\ \A d \in Calls \ {c} : q # Call(d)
  BY RequestFacts, CallFacts DEF ReplyKind
<1>3. CASE fate' = Discarded(c) /\ Reply(q, "uncertain", TRUE) /\ UNCHANGED <<entry, active>>
  <2>1. (\A p \in Requests \ {q} : disp'[p] = disp[p]) /\ disp'[q].pc = "reply"
    BY <1>a, <1>3, ReplyMoves
  <2>2. \A p \in Requests : disp'[p].pc \in {"deciding", "offer"} => disp'[p] = disp[p]
    BY <2>1
  <2>3. FateMoves
    BY <1>a, <1>3, <2>2, CallFacts, DiscardMoves
  <2>4. "uncertain" \in Codes
    BY DEF Codes
  <2>5. QED
    BY <1>1, <1>2, <1>3, <2>3, <2>4, ReplyAgrees
<1>4. CASE ~(fate' = Discarded(c) /\ Reply(q, "uncertain", TRUE) /\ UNCHANGED <<entry, active>>)
  <2>1. /\ Open("server") /\ fate' = fate /\ active' = Finished(q)
        /\ entry' = [entry EXCEPT ![c] = [NoEntry EXCEPT !.present = TRUE]]
        /\ disp' = [disp EXCEPT ![q].pc = "reply", ![q].holds = FALSE, ![q].finished = TRUE]
        /\ out' = Queued("server", Message("offer", q, "ok", FALSE))
    BY <1>4 DEF Offer
  <2> PICK r : r = [disp[q] EXCEPT !.pc = "reply", !.holds = FALSE, !.finished = TRUE]
    OBVIOUS
  <2>2. disp[q] \in DispatchType
    BY <1>a DEF ServerTypes
  <2>3. r.pc = "reply" /\ r.accept = disp[q].accept /\ r.finished
    BY <2>2 DEF DispatchType
  <2>4. disp' = [disp EXCEPT ![q] = r]
    BY <1>a, <2>1 DEF ServerTypes
  <2>5. disp'[q] = r /\ \A p \in Requests \ {q} : disp'[p] = disp[p]
    BY <1>a, <2>4 DEF ServerTypes
  <2>6. active'[q] = <<>> /\ \A o \in Operations : active'[o] \in {active[o], <<>>}
    BY <1>a, <1>2, <2>1 DEF ServerTypes, Finished
  <2>7. FateMoves
    <3>1. fate[c] # "none"
      BY <1>1, <1>a DEF Applying
    <3>2. \A d \in Calls \ {c} : entry'[d] = entry[d]
      BY <1>a, <2>1 DEF ServerTypes
    <3>3. \A d \in Calls : disp'[Decision(d)] = disp[Decision(d)]
      BY <1>2, <2>5, CallFacts
    <3>4. \A d \in Calls : disp'[Call(d)].pc = "offer" => disp[Call(d)].pc = "offer"
      BY <1>1, <2>5, CallFacts
    <3>5. QED
      BY <1>a, <2>1, <3>1, <3>2, <3>3, <3>4 DEF FateMoves
  <2>8. out' = IF Open("server") THEN Queued("server", Message(ReplyKind(q), q, "ok", FALSE)) ELSE out
    BY <1>2, <2>1
  <2>9. "ok" \in Codes
    BY DEF Codes
  <2>10. /\ disp'[q].pc = "reply" /\ disp'[q].accept = disp[q].accept /\ disp'[q].finished
         /\ active'[OperationOf(q)] = <<>> /\ \A p \in Requests \ {q} : disp'[p] = disp[p]
    BY <1>2, <2>3, <2>5, <2>6
  <2>11. /\ disp[q].pc \in {"run", "handler", "offer", "decided", "abort"}
         /\ UNCHANGED <<state, protocolError, wire, client, peerID>>
         /\ \A d \in Calls : q # Decision(d)
         /\ \A o \in Operations : active'[o] \in {active[o], <<>>}
    BY <1>1, <1>2, <2>6
  <2>12. QED
    BY ONLY IInv, Agreement, q \in Requests, <2>7, <2>8, <2>9, <2>10, <2>11, AnswerAgrees
<1>5. QED
  BY <1>3, <1>4

LEMMA DispatchDecisionAgrees ==
  ASSUME IInv, Agreement, NEW c \in Calls, DispatchDecision(c)
  PROVE  Agreement'
<1> PICK q \in Requests : q = Decision(c)
  BY CallFacts
<1>a. ServerTypes /\ Dispatching /\ Applying
  BY InvParts, AgreementParts
<1>1. disp[q].pc = "run" /\ UNCHANGED <<peerID, active, fate, state, protocolError, wire, client>>
  BY DEF DispatchDecision
<1>2. CASE Reply(q, "definite", TRUE) /\ UNCHANGED entry
  <2>1. "definite" \in Codes
    BY DEF Codes
  <2>2. QED
    BY <1>1, <1>2, <2>1, PlainReplyAgrees
<1>3. CASE ~(Reply(q, "definite", TRUE) /\ UNCHANGED entry)
  <2>0. /\ entry[c].present /\ entry' = [entry EXCEPT ![c].deciding = TRUE]
        /\ disp' = [disp EXCEPT ![q].pc = "deciding"] /\ out' = out
    BY <1>3 DEF DispatchDecision
  <2>1. /\ \A p \in Requests \ {q} : disp'[p] = disp[p]
        /\ disp'[q].pc = "deciding" /\ disp'[q].accept = disp[q].accept /\ disp'[q].finished = disp[q].finished
    BY <1>a, <2>0, PcMoves
  <2>2. DispatchMoves
    BY <1>1, <1>a, <2>1, OneDispatch DEF Onward
  <2>3. \A p \in Requests : disp'[p].pc \in {"offer", "decided"} => disp'[p] = disp[p]
    BY <2>1
  <2>4. FateMoves
    <3>1. fate[c] # "none"
      BY <1>a, <2>0 DEF Applying
    <3>2. \A d \in Calls : entry'[d].present = entry[d].present
      BY <1>a, <2>0 DEF ServerTypes, EntryType
    <3>3. \A d \in Calls \ {c} : disp'[Decision(d)] = disp[Decision(d)]
      BY <2>1, CallFacts
    <3>4. \A d \in Calls : disp'[Call(d)] = disp[Call(d)]
      BY <2>1, CallFacts
    <3>5. QED
      BY <1>1, <1>a, <3>1, <3>2, <3>3, <3>4 DEF FateMoves
  <2>5. \A p \in Requests : disp[p].pc \in {"admit", "reply"} => disp'[p].pc = disp[p].pc
    BY <1>1, <2>1
  <2>6. QED
    BY <1>1, <2>0, <2>2, <2>3, <2>4, <2>5, CallFacts, InternalAgrees
<1>4. QED
  BY <1>2, <1>3

LEMMA DecisionAppliesAgrees ==
  ASSUME IInv, Agreement, NEW c \in Calls, NEW code \in Codes, DecisionApplies(c, code)
  PROVE  Agreement'
<1> PICK q \in Requests : q = Decision(c)
  BY CallFacts
<1>a. ServerTypes /\ Dispatching /\ Applying
  BY InvParts, AgreementParts
<1>1. /\ disp[q].pc = "deciding" /\ UNCHANGED <<peerID, active, entry, state, protocolError, out, wire, client>>
      /\ disp' = [disp EXCEPT ![q].pc = "decided", ![q].code = code]
  BY DEF DecisionApplies, transport
<1> PICK r : r = [disp[q] EXCEPT !.pc = "decided", !.code = code]
  OBVIOUS
<1>2. disp[q] \in DispatchType
  BY <1>a DEF ServerTypes
<1>3. r.pc = "decided" /\ r.accept = disp[q].accept /\ r.finished = disp[q].finished /\ r.code = code
  BY <1>2 DEF DispatchType
<1>4. disp' = [disp EXCEPT ![q] = r]
  BY <1>a, <1>1 DEF ServerTypes
<1>5. disp'[q] = r /\ \A p \in Requests \ {q} : disp'[p] = disp[p]
  BY <1>a, <1>4 DEF ServerTypes
<1>6. DispatchMoves
  BY <1>1, <1>3, <1>5, <1>a, OneDispatch DEF Onward
<1>7. fate[c] # "none" /\ fate[c] \notin {"accepted", "released"}
  BY <1>1, <1>a DEF Applying
<1>8. /\ \A d \in Calls \ {c} : fate'[d] = fate[d]
      /\ code = "ok" => SettlesNext(c, disp[q].accept)
      /\ fate'[c] # "none" /\ (fate[c] = "discarded" => fate'[c] = "discarded")
  <2>1. CASE fate[c] = "undecided"
    <3>1. fate' = [fate EXCEPT ![c] = IF disp[q].accept /\ code = "ok" THEN "accepted" ELSE "discarded"]
      BY <2>1 DEF DecisionApplies
    <3>2. fate'[c] = (IF disp[q].accept /\ code = "ok" THEN "accepted" ELSE "discarded")
          /\ \A d \in Calls \ {c} : fate'[d] = fate[d]
      BY <1>a, <3>1 DEF ServerTypes
    <3>3. QED
      BY <2>1, <3>2 DEF SettlesNext
  <2>2. CASE fate[c] # "undecided"
    <3>1. fate' = fate /\ code = (IF disp[q].accept THEN "definite" ELSE "ok")
      BY <2>2 DEF DecisionApplies
    <3>2. fate[c] = "discarded"
      BY <1>7, <1>a, <2>2 DEF ServerTypes
    <3>3. QED
      BY <3>1, <3>2 DEF SettlesNext
  <2>3. QED
    BY <2>1, <2>2
<1>9. FateMoves
  <2>1. \A d \in Calls : disp'[Call(d)] = disp[Call(d)]
    BY <1>5, CallFacts
  <2>2. \A d \in Calls \ {c} : disp'[Decision(d)] = disp[Decision(d)]
    BY <1>5, CallFacts
  <2>3. disp'[Decision(c)].pc = "decided"
    BY <1>3, <1>5
  <2>4. QED
    BY <1>1, <1>7, <1>8, <2>1, <2>2, <2>3 DEF FateMoves
<1>10. \A p \in Requests : disp[p].pc \in {"admit", "reply"} => disp'[p].pc = disp[p].pc
  BY <1>1, <1>5
<1>11. \A d \in Calls : disp'[Decision(d)].pc = "decided" /\ disp'[Decision(d)].code = "ok" =>
            \/ disp[Decision(d)].pc = "decided" /\ disp[Decision(d)].code = "ok"
            \/ SettlesNext(d, disp'[Decision(d)].accept)
  <2>1. \A d \in Calls \ {c} : disp'[Decision(d)] = disp[Decision(d)]
    BY <1>5, CallFacts
  <2>2. disp'[Decision(c)].code = code /\ disp'[Decision(c)].accept = disp[q].accept
    BY <1>3, <1>5
  <2>3. QED
    BY <1>8, <2>1, <2>2
<1>12. QED
  BY <1>1, <1>6, <1>9, <1>10, <1>11, InternalAgrees

LEMMA DecisionChecksAgrees ==
  ASSUME IInv, Agreement, NEW c \in Calls, DecisionChecks(c)
  PROVE  Agreement'
<1> PICK q \in Requests : q = Decision(c)
  BY CallFacts
<1>a. ServerTypes /\ Dispatching /\ Applying
  BY InvParts, AgreementParts
<1> PICK code \in Codes : code = disp[q].code
  BY <1>a DEF ServerTypes, DispatchType
<1>1. /\ disp[q].pc = "decided" /\ UNCHANGED <<peerID, active, entry, state, protocolError, wire, client>>
      /\ Reply(q, code, TRUE)
      /\ fate' = fate \/ (disp[q].accept /\ disp[q].code = "ok" /\ fate' = [fate EXCEPT ![c] = "released"])
  BY DEF DecisionChecks
<1>2. disp[q].accept = req[q].accept
  BY <1>1, <1>a DEF Dispatching
<1>3. code = "ok" => Settles(c, req[q].accept)
  BY <1>1, <1>2, <1>a DEF Applying
<1>4. \/ fate' = fate
      \/ /\ fate[c] \in {"accepted", "released"} /\ fate'[c] = "released" /\ \A d \in Calls \ {c} : fate'[d] = fate[d]
  BY <1>1, <1>2, <1>3, <1>a DEF Settles, ServerTypes
<1>5. (\A p \in Requests \ {q} : disp'[p] = disp[p]) /\ disp'[q].pc = "reply"
  BY <1>1, <1>a, ReplyMoves
<1>6. \A p \in Requests : disp'[p].pc \in {"deciding", "offer"} => disp'[p] = disp[p]
  BY <1>5
<1>7. FateMoves
  <2>1. CASE fate' = fate
    BY <1>1, <1>6, <1>a, <2>1, CallFacts, SameFate
  <2>2. CASE /\ fate[c] \in {"accepted", "released"} /\ fate'[c] = "released"
             /\ \A d \in Calls \ {c} : fate'[d] = fate[d]
    BY <1>1, <1>6, <2>2, CallFacts DEF FateMoves
  <2>3. QED
    BY <1>4, <2>1, <2>2
<1>8. \A d \in Calls : q = Decision(d) /\ code = "ok" => SettlesNext(d, req[q].accept)
  <2>1. code = "ok" => SettlesNext(c, req[q].accept)
    BY <1>3, <1>7, FateSettles
  <2>2. QED
    BY <2>1, CallFacts
<1>9. q[1] = "decision"
  BY DEF Decision
<1>10. QED
  BY <1>1, <1>7, <1>8, <1>9, ReplyAgrees

LEMMA DispatchDropAgrees ==
  ASSUME IInv, Agreement, NEW c \in Calls, NEW code \in Codes, DispatchDrop(c, code)
  PROVE  Agreement'
<1> PICK q \in Requests : q = DropOf(c)
  BY RequestFacts
<1>a. ServerTypes /\ Dispatching /\ Applying
  BY InvParts, AgreementParts
<1>1. /\ disp[q].pc = "run" /\ UNCHANGED <<peerID, active, entry, state, protocolError, wire, client>>
      /\ Reply(q, code, TRUE)
      /\ fate' = fate \/ (fate[c] = "accepted" /\ fate' = [fate EXCEPT ![c] = "released"])
  BY DEF DispatchDrop
<1>2. (\A p \in Requests \ {q} : disp'[p] = disp[p]) /\ disp'[q].pc = "reply"
  BY <1>1, <1>a, ReplyMoves
<1>3. \A p \in Requests : disp'[p].pc \in {"deciding", "offer"} => disp'[p] = disp[p]
  BY <1>2
<1>4. FateMoves
  <2>1. CASE fate' = fate
    BY <1>1, <1>3, <1>a, <2>1, CallFacts, SameFate
  <2>2. CASE fate[c] = "accepted" /\ fate' = [fate EXCEPT ![c] = "released"]
    <3>1. fate'[c] = "released" /\ \A d \in Calls \ {c} : fate'[d] = fate[d]
      BY <1>a, <2>2 DEF ServerTypes
    <3>2. QED
      BY <1>1, <1>3, <2>2, <3>1, CallFacts DEF FateMoves
  <2>3. QED
    BY <1>1, <2>1, <2>2
<1>5. q[1] = "drop" /\ \A d \in Calls : q # Decision(d)
  BY RequestFacts
<1>6. QED
  BY <1>1, <1>4, <1>5, ReplyAgrees

\* A dispatch goes on by itself, and decides nothing.
LEMMA PlainMoveAgrees ==
  ASSUME IInv, Agreement, NEW q \in Requests, \A p \in Requests \ {q} : disp'[p] = disp[p],
         Onward(disp[q].pc, disp'[q].pc), disp'[q].pc \notin {"deciding", "offer", "decided"},
         disp'[q].accept = disp[q].accept, disp'[q].finished = disp[q].finished,
         disp[q].pc \in {"admit", "reply"} => ~Open("server"),
         \A o \in Operations : active'[o] \in {active[o], <<>>},
         \A c \in Calls : entry'[c].present => entry[c].present,
         UNCHANGED <<state, protocolError, out, wire, client, peerID, fate>>
  PROVE  Agreement'
<1>a. ServerTypes /\ Dispatching /\ Applying
  BY InvParts, AgreementParts
<1>1. DispatchMoves
  BY <1>a, OneDispatch
<1>2. \A p \in Requests : disp'[p].pc \in {"deciding", "offer", "decided"} => disp'[p] = disp[p]
  OBVIOUS
<1>3. FateMoves
  BY <1>2, <1>a, CallFacts, SameFate
<1>4. \A p \in Requests : disp[p].pc \in {"admit", "reply"} => disp'[p].pc = disp[p].pc \/ ~Open("server")
  OBVIOUS
<1>5. QED
  BY <1>1, <1>2, <1>3, <1>4, CallFacts, InternalAgrees

LEMMA DispatchCloseAgrees ==
  ASSUME IInv, Agreement, DispatchClose
  PROVE  Agreement'
<1>a. ServerTypes
  BY InvParts
<1>1. /\ disp[Close].pc = "run" /\ disp' = [disp EXCEPT ![Close].pc = "abort"]
      /\ UNCHANGED <<state, protocolError, out, wire, client, peerID, active, fate>>
      /\ entry' = [c \in Calls |-> IF c \in Entries THEN [entry[c] EXCEPT !.retiring = "closed"] ELSE entry[c]]
  BY DEF DispatchClose, transport
<1>2. /\ \A p \in Requests \ {Close} : disp'[p] = disp[p]
      /\ disp'[Close].pc = "abort" /\ disp'[Close].accept = disp[Close].accept
      /\ disp'[Close].finished = disp[Close].finished
  BY <1>1, <1>a, CallFacts, PcMoves
<1>3. \A c \in Calls : entry'[c].present => entry[c].present
  BY <1>1, <1>a DEF Entries
<1>4. Onward(disp[Close].pc, disp'[Close].pc)
  BY <1>1, <1>2 DEF Onward
<1>5. \A o \in Operations : active'[o] \in {active[o], <<>>}
  BY <1>1
<1>6. QED
  BY <1>1, <1>2, <1>3, <1>4, <1>5, CallFacts, PlainMoveAgrees

LEMMA DispatchStoppedAgrees ==
  ASSUME IInv, Agreement, NEW q \in Requests, DispatchStopped(q)
  PROVE  Agreement'
<1>a. ServerTypes
  BY InvParts
<1>1. /\ ~Open("server") /\ disp[q].pc \in {"admit", "reply"} /\ disp' = [disp EXCEPT ![q].pc = "finish"]
      /\ UNCHANGED <<state, protocolError, out, wire, client, peerID, active, entry, fate>>
  BY DEF DispatchStopped, transport
<1>2. /\ \A p \in Requests \ {q} : disp'[p] = disp[p]
      /\ disp'[q].pc = "finish" /\ disp'[q].accept = disp[q].accept /\ disp'[q].finished = disp[q].finished
  BY <1>1, <1>a, PcMoves
<1>3. Onward(disp[q].pc, disp'[q].pc)
  BY <1>1, <1>2 DEF Onward
<1>4. QED
  BY <1>1, <1>2, <1>3, PlainMoveAgrees

LEMMA DispatchFinishAgrees ==
  ASSUME IInv, Agreement, NEW q \in Requests, DispatchFinish(q)
  PROVE  Agreement'
<1>a. ServerTypes
  BY InvParts
<1>1. /\ disp[q].pc = "finish" /\ disp' = [disp EXCEPT ![q].pc = "end", ![q].holds = FALSE]
      /\ UNCHANGED <<state, protocolError, out, wire, client, peerID, fate>>
      /\ entry' = entry \/ entry' = [entry EXCEPT ![q[2]] = NoEntry]
      /\ active' = active \/ active' = Finished(OperationOf(q))
  BY DEF DispatchFinish, transport
<1> PICK r : r = [disp[q] EXCEPT !.pc = "end", !.holds = FALSE]
  OBVIOUS
<1>2. disp[q] \in DispatchType
  BY <1>a DEF ServerTypes
<1>3. r.pc = "end" /\ r.accept = disp[q].accept /\ r.finished = disp[q].finished
  BY <1>2 DEF DispatchType
<1>4. disp' = [disp EXCEPT ![q] = r]
  BY <1>a, <1>1 DEF ServerTypes
<1>5. disp'[q] = r /\ \A p \in Requests \ {q} : disp'[p] = disp[p]
  BY <1>a, <1>4 DEF ServerTypes
<1>6. \A o \in Operations : active'[o] \in {active[o], <<>>}
  BY <1>1, <1>a DEF ServerTypes, Finished
<1>7. \A c \in Calls : entry'[c].present => entry[c].present
  BY <1>1, <1>a DEF ServerTypes, NoEntry
<1>8. Onward(disp[q].pc, disp'[q].pc) /\ disp'[q].pc = "end"
  BY <1>1, <1>3, <1>5 DEF Onward
<1>9. disp'[q].accept = disp[q].accept /\ disp'[q].finished = disp[q].finished
  BY <1>3, <1>5
<1>10. QED
  BY <1>1, <1>5, <1>6, <1>7, <1>8, <1>9, PlainMoveAgrees

\* The leases of the server end, or its RouteSet.
LEMMA LeaseAgrees ==
  ASSUME IInv, Agreement, DispatchMoves, FateMoves,
         \A q \in Requests : disp'[q].pc = disp[q].pc /\ disp'[q].code = disp[q].code,
         UNCHANGED <<state, protocolError, out, wire, client, peerID>>
  PROVE  Agreement'
<1>1. \A q \in Requests : disp[q].pc \in {"admit", "reply"} => disp'[q].pc = disp[q].pc \/ ~Open("server")
  OBVIOUS
<1>2. QED
  BY <1>1, CallFacts, InternalAgrees

LEMMA StillMoves ==
  ASSUME ServerTypes, Dispatching, disp' = disp, active' = active
  PROVE  DispatchMoves /\ \A q \in Requests : disp'[q].pc = disp[q].pc /\ disp'[q].code = disp[q].code
BY DEF DispatchMoves, Dispatching, ServerTypes

LEMMA RoutesAbortedAgrees ==
  ASSUME IInv, Agreement, RoutesAborted
  PROVE  Agreement'
<1>a. ServerTypes /\ Dispatching
  BY InvParts, AgreementParts
<1>1. /\ UNCHANGED <<state, protocolError, out, wire, client, peerID, disp, active, entry>>
      /\ fate' = [c \in Calls |-> CASE fate[c] = "undecided" -> "discarded"
                                    [] fate[c] = "accepted" -> "released"
                                    [] OTHER -> fate[c]]
  BY DEF RoutesAborted, transport
<1>2. FateMoves
  BY <1>1, <1>a DEF FateMoves, ServerTypes
<1>3. QED
  BY <1>1, <1>2, <1>a, StillMoves, LeaseAgrees

LEMMA LapsesAgree ==
  ASSUME IInv, Agreement, LeaseLapse \/ \E o \in Operations : HeldLapse(o)
  PROVE  Agreement'
<1>a. ServerTypes /\ Dispatching /\ Applying
  BY InvParts, AgreementParts
<1>1. UNCHANGED <<state, protocolError, out, wire, client, peerID, disp, active, entry, fate>>
  BY DEF LeaseLapse, HeldLapse, transport
<1>2. FateMoves
  BY <1>1, <1>a, SameFate
<1>3. QED
  BY <1>1, <1>2, <1>a, StillMoves, LeaseAgrees

LEMMA EntryRetiredAgrees ==
  ASSUME IInv, Agreement, NEW c \in Calls, EntryRetired(c)
  PROVE  Agreement'
<1>a. ServerTypes /\ Dispatching /\ Applying
  BY InvParts, AgreementParts
<1>1. /\ UNCHANGED <<state, protocolError, out, wire, client, peerID, disp, active>>
      /\ fate' = Discarded(c) /\ entry' = [entry EXCEPT ![c] = NoEntry]
  BY DEF EntryRetired, transport
<1>2. \A d \in Calls : entry'[d].present => entry[d].present
  BY <1>1, <1>a DEF ServerTypes, NoEntry
<1>3. FateMoves
  BY <1>1, <1>2, <1>a, DiscardMoves
<1>4. QED
  BY <1>1, <1>3, <1>a, StillMoves, LeaseAgrees

LEMMA ServerExpiresAgrees ==
  ASSUME IInv, Agreement, ServerExpires
  PROVE  Agreement'
<1>a. ServerTypes /\ Dispatching /\ Applying
  BY InvParts, AgreementParts
<1> PICK gone : gone = (lease = "lapsed")
  OBVIOUS
<1> PICK over : over = {o \in Operations : held[o] = "lapsed" \/ (gone /\ o # Bind /\ active[o] # <<>>)}
  OBVIOUS
<1> PICK whose \in SUBSET Requests : whose = {q \in Requests : OperationOf(q) \in over /\ active[OperationOf(q)] = q}
  OBVIOUS
<1>1. /\ UNCHANGED <<state, protocolError, out, wire, client, peerID, active, fate>>
      /\ disp' = [q \in Requests |->
                    IF OperationOf(q) \in over /\ active[OperationOf(q)] = q
                    THEN [disp[q] EXCEPT !.canceled = TRUE] ELSE disp[q]]
      /\ \A c \in Calls : \E late : entry'[c] = entry[c] \/ entry'[c] = [entry[c] EXCEPT !.retiring = late]
  BY DEF ServerExpires, transport
<1>2. disp' = [q \in Requests |-> IF q \in whose THEN [disp[q] EXCEPT !.canceled = TRUE] ELSE disp[q]]
  BY <1>1
<1>3. DispatchMoves /\ \A q \in Requests : disp'[q].pc = disp[q].pc /\ disp'[q].code = disp[q].code
  BY <1>1, <1>2, <1>a, CancelingMoves
<1>4. \A c \in Calls : entry'[c].present => entry[c].present
  BY <1>1, <1>a DEF ServerTypes, EntryType
<1>5. FateMoves
  BY <1>1, <1>3, <1>4, <1>a, CallFacts, SameFate
<1>6. QED
  BY <1>1, <1>3, <1>5, LeaseAgrees

LEMMA FailServerAgrees ==
  ASSUME IInv, Agreement, FailServer
  PROVE  Agreement'
<1>a. /\ TransportTypes /\ ServerTypes /\ Sending /\ Dispatching /\ Applying
  BY InvParts, AgreementParts
<1> PICK whose \in SUBSET Requests : whose = {q \in Requests : active[OperationOf(q)] = q}
  OBVIOUS
<1>1. /\ UNCHANGED <<protocolError, wire, client, peerID, fate>>
      /\ out' = [out EXCEPT !["server"] = [lane \in Lanes |-> <<>>]]
      /\ active' = [o \in Operations |-> <<>>] /\ entry' = [c \in Calls |-> NoEntry]
      /\ disp' = [q \in Requests |-> IF q \in whose THEN [disp[q] EXCEPT !.canceled = TRUE] ELSE disp[q]]
  BY DEF FailServer
<1>2. DispatchMoves /\ \A q \in Requests : disp'[q].pc = disp[q].pc /\ disp'[q].code = disp[q].code
  BY <1>1, <1>a, CancelingMoves
<1>3. \A c \in Calls : entry'[c].present => entry[c].present
  BY <1>1 DEF NoEntry
<1>4. FateMoves
  BY <1>1, <1>2, <1>3, <1>a, CallFacts, SameFate
<1>5. out'["client"] = out["client"] /\ \A lane \in Lanes : out'["server"][lane] = <<>>
  BY <1>1, <1>a DEF TransportTypes, Sides
<1>6. OutOf("server")' = {}
  BY <1>5, WithinEmpty DEF OutOf
<1>7. /\ Replying' /\ Flying("server")' \subseteq Flying("server")
      /\ \A f \in Within(wire'["server"]) : f \in Within(wire["server"])
  BY <1>1, <1>2, <1>5, <1>6, RepliesStand
<1>8. Applying'
  BY <1>1, <1>2, <1>4, <1>7, <1>a, CallFacts, AppliesOn
<1>9. InOrder(id, wire'["client"])
  BY <1>1, <1>a DEF Sending
<1>10. QED
  BY <1>1, <1>2, <1>4, <1>5, <1>7, <1>8, <1>9, ServerKeeps

\* The server reads a frame.
LEMMA RequestTaken ==
  ASSUME TransportTypes, Sending, wire["client"] # <<>>, wire' = [wire EXCEPT !["client"] = Tail(@)],
         NEW f, f = Head(wire["client"]), out'["client"] = out["client"]
  PROVE  /\ f \in Within(wire["client"]) /\ f \in Flying("client") /\ f \in Frame
         /\ wire'["server"] = wire["server"]
         /\ Within(wire'["client"]) \subseteq Within(wire["client"]) /\ InOrder(id, wire'["client"])
         /\ OutOf("client")' = OutOf("client") /\ Flying("client")' \subseteq Flying("client")
         /\ \A g \in Flying("client")' : Follows(id, f, g)
<1>1. /\ f \in Within(wire["client"]) /\ f \in Frame /\ wire["client"] \in Seq(Frame)
      /\ wire'["client"] = Tail(wire["client"]) /\ Within(wire'["client"]) \subseteq Within(wire["client"])
      /\ wire'["server"] = wire["server"]
  BY ReadFrames DEF Sides, Peer
<1>2. /\ InOrder(id, wire["client"]) /\ \A g \in Within(wire["client"]), h \in OutOf("client") : Follows(id, g, h)
  BY DEF Sending
<1>3. InOrder(id, wire'["client"]) /\ \A g \in Within(wire'["client"]) : Follows(id, f, g)
  BY <1>1, <1>2, OrderTail
<1>4. OutOf("client")' = OutOf("client")
  BY DEF OutOf
<1>5. \A g \in Flying("client")' : Follows(id, f, g)
  BY <1>1, <1>2, <1>3, <1>4 DEF Flying
<1>6. QED
  BY <1>1, <1>3, <1>4, <1>5 DEF Flying

\* A frame is read that changes nothing but what is cancelled.
LEMMA FrameDropped ==
  ASSUME IInv, Agreement, DispatchMoves, \A q \in Requests : disp'[q].pc = disp[q].pc /\ disp'[q].code = disp[q].code,
         wire["client"] # <<>>, wire' = [wire EXCEPT !["client"] = Tail(@)],
         \A c \in Calls : entry'[c].present => entry[c].present,
         UNCHANGED <<state, protocolError, out, client, peerID, fate>>
  PROVE  Agreement'
<1>a. TransportTypes /\ Sending /\ Applying
  BY InvParts, AgreementParts
<1> PICK f : f = Head(wire["client"])
  OBVIOUS
<1>1. /\ wire'["server"] = wire["server"]
      /\ Within(wire'["client"]) \subseteq Within(wire["client"]) /\ InOrder(id, wire'["client"])
  BY <1>a, RequestTaken
<1>2. FateMoves
  BY <1>a, CallFacts, SameFate
<1>3. /\ Replying' /\ Flying("server")' \subseteq Flying("server")
      /\ \A g \in Within(wire'["server"]) : g \in Within(wire["server"])
  BY <1>1, RepliesStand DEF Open
<1>4. Applying'
  BY <1>2, <1>3, <1>a, CallFacts, AppliesOn
<1>5. QED
  BY <1>1, <1>2, <1>3, <1>4, ServerKeeps

LEMMA ReadCancelAgrees ==
  ASSUME IInv, Agreement, ReadCancel
  PROVE  Agreement'
<1>a. TransportTypes /\ ServerTypes /\ Dispatching
  BY InvParts, AgreementParts
<1> PICK q : q = Head(wire["client"]).of
  OBVIOUS
<1> PICK o : o = OperationOf(q)
  OBVIOUS
<1>1. /\ wire["client"] # <<>> /\ wire' = [wire EXCEPT !["client"] = Tail(@)]
      /\ UNCHANGED <<state, protocolError, out, client, peerID, active, fate>>
      /\ entry' = entry \/ entry' = [entry EXCEPT ![o[2]].retiring = "canceled"]
      /\ disp' = disp \/ (active[o] # <<>> /\ disp' = [disp EXCEPT ![active[o]].canceled = TRUE])
  BY DEF ReadCancel
<1>2. o \in Operations
  <2>1. Head(wire["client"]) \in Frame
    BY <1>1, <1>a, WithinTail DEF TransportTypes, Sides
  <2>2. QED
    BY <2>1, RequestTypes DEF Frame
<1>3. \A c \in Calls : entry'[c].present => entry[c].present
  <2> PICK r : r = [entry[o[2]] EXCEPT !.retiring = "canceled"]
    OBVIOUS
  <2>1. entry \in [Calls -> EntryType]
    BY <1>a DEF ServerTypes
  <2>2. entry' = entry \/ entry' = [entry EXCEPT ![o[2]] = r]
    BY ONLY <1>1, r = [entry[o[2]] EXCEPT !.retiring = "canceled"]
  <2>3. o[2] \in Calls => r.present = entry[o[2]].present
    BY ONLY <2>1, r = [entry[o[2]] EXCEPT !.retiring = "canceled"] DEF EntryType
  <2>4. QED
    BY ONLY <2>1, <2>2, <2>3
<1>4. DispatchMoves /\ \A p \in Requests : disp'[p].pc = disp[p].pc /\ disp'[p].code = disp[p].code
  <2>1. CASE disp' = disp
    BY <1>1, <1>a, <2>1, StillMoves
  <2>2. CASE active[o] # <<>> /\ disp' = [disp EXCEPT ![active[o]].canceled = TRUE]
    <3> PICK whose \in SUBSET Requests : whose = {p \in Requests : p = active[o]}
      OBVIOUS
    <3>1. disp' = [p \in Requests |-> IF p \in whose THEN [disp[p] EXCEPT !.canceled = TRUE] ELSE disp[p]]
      BY <1>2, <1>a, <2>2 DEF ServerTypes
    <3>2. QED
      BY <1>1, <1>a, <3>1, CancelingMoves
  <2>3. QED
    BY <1>1, <2>1, <2>2
<1>5. QED
  BY <1>1, <1>3, <1>4, FrameDropped

LEMMA WriteServerAgrees ==
  ASSUME IInv, Agreement, NEW lane \in Lanes, WriteServer(lane)
  PROVE  Agreement'
<1>a. TransportTypes /\ ServerTypes /\ Sending /\ Replying /\ Dispatching /\ Applying
  BY InvParts, AgreementParts
<1> PICK f : f = Head(out["server"][lane])
  OBVIOUS
<1>1. /\ Open("server") /\ out["server"][lane] # <<>> /\ out' = [out EXCEPT !["server"][lane] = Tail(@)]
      /\ wire' = [wire EXCEPT !["server"] = Append(@, f)]
      /\ UNCHANGED <<peerID, active, entry, fate, state, protocolError, client>>
  BY DEF WriteServer
<1>2. /\ f \in Within(out["server"][lane]) /\ f \in OutOf("server") /\ f \in Frame
      /\ out'["server"][lane] = Tail(out["server"][lane])
      /\ \A l \in Lanes \ {lane} : out'["server"][l] = out["server"][l]
      /\ \A l \in Lanes : Within(out'["server"][l]) \subseteq Within(out["server"][l])
      /\ OutOf("server")' \subseteq OutOf("server")
      /\ out'["client"] = out["client"]
  BY <1>1, <1>a, TakenFrames DEF Sides, Peer
<1>3. /\ wire["server"] \in Seq(Frame) /\ wire'["server"] = Append(wire["server"], f)
      /\ Within(wire'["server"]) = Within(wire["server"]) \cup {f} /\ wire'["client"] = wire["client"]
  BY <1>1, <1>2, <1>a, WrittenFrames DEF Sides, Peer
<1>4. Flying("server")' \subseteq Flying("server") /\ Flying("client")' = Flying("client")
  BY <1>2, <1>3 DEF Flying, OutOf
<1> PICK q \in Requests : q = f.of
  BY <1>2 DEF Frame
<1>5. IF f.kind = "accepted" THEN disp[q].pc = "admit" ELSE disp[q].pc \in {"idle", "reply"}
  BY <1>2, <1>a DEF Replying
<1> PICK pc : pc = IF disp[q].pc = "admit" THEN "run" ELSE IF disp[q].pc = "reply" THEN "finish" ELSE "idle"
  OBVIOUS
<1>6. disp' = [disp EXCEPT ![q].pc = pc]
  BY <1>5 DEF WriteServer
<1>7. /\ \A p \in Requests \ {q} : disp'[p] = disp[p]
      /\ disp'[q].pc = pc /\ disp'[q].accept = disp[q].accept /\ disp'[q].finished = disp[q].finished
  <2>1. ServerTypes /\ q \in Requests
    BY <1>a
  <2>2. QED
    BY ONLY <1>6, <2>1, PcMoves
<1>8. DispatchMoves
  <2>1. disp'[q].pc = disp[q].pc \/ Onward(disp[q].pc, disp'[q].pc)
    BY <1>5, <1>7 DEF Onward
  <2>2. \A o \in Operations : active'[o] \in {active[o], <<>>}
    BY <1>1
  <2>3. QED
    BY <1>7, <1>a, <2>1, <2>2, OneDispatch
<1>t. /\ \A g \in Flying("server") : g.of \in Requests
      /\ OutOf("server") \subseteq Flying("server") /\ Within(wire["server"]) \subseteq Flying("server")
      /\ \A l \in Lanes : out["server"][l] \in Seq(Frame)
  BY <1>a, FrameTypes DEF Sides, TransportTypes
<1>9. \A l \in Lanes : InTurn(out'["server"][l])
  <2>1. out["server"][lane] \in Seq(Frame) /\ InTurn(out["server"][lane])
    BY <1>a, <1>t DEF Replying
  <2>2. InTurn(Tail(out["server"][lane]))
    BY ONLY <1>1, <2>1, TurnTail
  <2>3. QED
    BY <1>2, <1>a, <2>2 DEF Replying
\* Its dispatch waits for that frame, and for no other.
<1>10. \A h \in OutOf("server")' : h.of # q
  <2> SUFFICES ASSUME NEW l \in Lanes, NEW h \in Within(out'["server"][l]), h.of = q PROVE FALSE
    BY DEF OutOf
  <2>1. h \in Within(out["server"][l]) /\ h \in OutOf("server")
    BY <1>2 DEF OutOf
  <2>2. IF h.kind = "accepted" THEN disp[q].pc = "admit" ELSE disp[q].pc \in {"idle", "reply"}
    BY <2>1, <1>a DEF Replying
  <2>3. h.kind \in {"accepted", ReplyKind(q)} /\ f.kind \in {"accepted", ReplyKind(q)}
    BY <2>1, <1>2, <1>a, <1>t DEF Replying
  <2>4. h.kind = f.kind
    BY <1>5, <2>2, <2>3
  <2>5. l = lane
    <3>1. LaneOf(h.kind) = l /\ LaneOf(f.kind) = lane
      BY <2>1, <1>2, <1>a DEF Replying
    <3>2. QED
      BY <2>4, <3>1
  <2>6. Precedes(f, h)
    <3>1. out["server"][lane] \in Seq(Frame) /\ InTurn(out["server"][lane])
      BY <1>a, <1>t DEF Replying
    <3>2. \A g \in Within(Tail(out["server"][lane])) : Precedes(Head(out["server"][lane]), g)
      BY ONLY <1>1, <3>1, TurnTail
    <3>3. QED
      BY <1>2, <2>5, <3>2
  <2>7. QED
    BY <2>4, <2>6 DEF Precedes
<1>11. InTurn(wire'["server"])
  <2>1. InTurn(wire["server"]) /\ \A g \in Within(wire["server"]) : Precedes(g, f)
    BY <1>2, <1>a DEF Replying
  <2>2. QED
    BY <1>2, <1>3, <2>1, TurnAppend
<1>12. \A g \in Within(wire'["server"]), h \in OutOf("server")' : Precedes(g, h)
  <2>1. \A h \in OutOf("server")' : Precedes(f, h)
    BY <1>10 DEF Precedes
  <2>2. QED
    BY <1>2, <1>3, <1>a, <2>1 DEF Replying
<1>13. \A h \in OutOf("server")' :
         IF h.kind = "accepted" THEN disp'[h.of].pc = "admit" ELSE disp'[h.of].pc \in {"idle", "reply"}
  <2> SUFFICES ASSUME NEW h \in OutOf("server")'
               PROVE  IF h.kind = "accepted" THEN disp'[h.of].pc = "admit" ELSE disp'[h.of].pc \in {"idle", "reply"}
    OBVIOUS
  <2>1. h \in OutOf("server") /\ h.of \in Requests \ {q}
    BY <1>2, <1>10, <1>t
  <2>2. disp'[h.of] = disp[h.of]
    BY <1>7, <2>1
  <2>3. QED
    BY <1>a, <2>1, <2>2 DEF Replying
<1>14. \A g \in Within(wire'["server"]) :
         IF g.kind = "accepted" THEN disp'[g.of].pc \notin {"idle", "admit"}
                                ELSE disp'[g.of].pc \in {"idle", "finish", "end"}
  <2> SUFFICES ASSUME NEW g \in Within(wire'["server"])
               PROVE  IF g.kind = "accepted" THEN disp'[g.of].pc \notin {"idle", "admit"}
                                             ELSE disp'[g.of].pc \in {"idle", "finish", "end"}
    OBVIOUS
  <2>1. CASE g = f
    BY <1>5, <1>7, <2>1
  <2>2. CASE g \in Within(wire["server"])
    <3>1. g.of \in Requests
      BY <1>t, <2>2
    <3>2. IF g.kind = "accepted" THEN disp[g.of].pc \notin {"idle", "admit"}
                                 ELSE disp[g.of].pc \in {"idle", "finish", "end"}
      BY <1>a, <2>2 DEF Replying
    <3>3. QED
      BY <1>8, <3>1, <3>2 DEF DispatchMoves, Onward
  <2>3. QED
    BY <1>3, <2>1, <2>2
<1>15. Replying'
  <2>1. \A g \in Flying("server")' :
          /\ g.kind \in {"accepted", ReplyKind(g.of)} /\ Begun(g.of)'
          /\ \A h \in Flying("client")' : Asks(h) => h.of # g.of
    BY <1>1, <1>4, <1>a DEF Replying, Begun, client
  <2>2. \A l \in Lanes : \A g \in Within(out'["server"][l]) : LaneOf(g.kind) = l
    BY <1>2, <1>a DEF Replying
  <2>3. Open("server")'
    BY <1>1 DEF Open
  <2>4. QED
    BY <1>9, <1>11, <1>12, <1>13, <1>14, <2>1, <2>2, <2>3 DEF Replying
<1>16. \A p \in Requests : disp'[p].pc \in {"deciding", "offer", "decided"} => disp'[p] = disp[p]
  BY <1>5, <1>7
<1>17. FateMoves
  BY <1>1, <1>16, <1>a, CallFacts, SameFate
<1>18. Applying'
  BY <1>1, <1>4, <1>8, <1>16, <1>17, <1>a, CallFacts, AppliesOn
<1>19. InOrder(id, wire'["client"])
  BY <1>3, <1>a DEF Sending
<1>20. \A g \in Within(wire'["server"]) : g.kind = "accepted" => g \in Within(wire["server"]) \/ disp[g.of].pc = "admit"
  BY <1>3, <1>5
<1>21. QED
  BY <1>1, <1>2, <1>3, <1>4, <1>8, <1>15, <1>17, <1>18, <1>19, <1>20, ServerKeeps

\* The identifier of a request is the one its peer expects.
LEMMA IdentifierExpected ==
  ASSUME IInv, Agreement, NEW f \in Flying("client"), Asks(f)
  PROVE  IdentifierFits(f)
<1>a. /\ TransportTypes /\ ServerTypes /\ Frames /\ Seen /\ Sending /\ Dispatching /\ Offering
  BY InvParts, AgreementParts
<1> PICK q \in Requests : q = f.of
  BY <1>a, ClientFlying
<1>1. /\ f.kind = q[1] /\ Begun(q) /\ disp[q].pc = "idle"
      /\ q \in Operations => peerID < id[q]
  BY <1>a, ClientFlying DEF Sending
<1>2. CASE q \in Operations
  <2>1. OperationOf(q) = q /\ q[1] # "decision"
    BY <1>2, RequestTypes, RequestFacts
  <2>2. id[q] > peerID
    BY <1>1, <1>2
  <2>3. QED
    BY <1>1, <2>1, <2>2 DEF IdentifierFits
<1>3. CASE q \notin Operations
  <2> PICK c \in Calls : q = Decision(c)
    BY <1>3, RequestTypes
  <2>1. OperationOf(q) = Call(c) /\ q[1] = "decision" /\ Call(c) \in Operations
    BY RequestFacts DEF OperationOf, Decision
  <2>2. disp[Call(c)].finished
    BY <1>1, <1>a DEF Offering, Offered, Begun
  <2>3. disp[Call(c)].pc # "idle"
    BY <1>a, <2>2, CallFacts DEF Dispatching
  <2>4. id[Call(c)] <= peerID
    BY <1>a, <2>1, <2>3 DEF Seen
  <2>5. active[Call(c)] = <<>>
    <3> SUFFICES ASSUME active[Call(c)] # <<>> PROVE FALSE
      OBVIOUS
    <3>1. /\ OperationOf(active[Call(c)]) = Call(c) /\ disp[active[Call(c)]].pc # "idle"
          /\ ~disp[active[Call(c)]].finished /\ active[Call(c)] \in Requests
      BY <1>a, <2>1 DEF Dispatching, ServerTypes
    <3>2. active[Call(c)] = Call(c) \/ active[Call(c)] = Decision(c)
      BY <3>1, RequestFacts
    <3>3. QED
      BY <1>1, <2>2, <3>1, <3>2
  <2>6. QED
    BY <1>1, <2>1, <2>4, <2>5 DEF IdentifierFits
<1>4. QED
  BY <1>2, <1>3

\* A request is read and answered, or admitted.
LEMMA RequestMet ==
  ASSUME IInv, Agreement, wire["client"] # <<>>, wire' = [wire EXCEPT !["client"] = Tail(@)],
         NEW f, f = Head(wire["client"]), Asks(f), NEW q \in Requests, q = f.of, Open("server"),
         NEW m \in Frame, m.of = q, m.kind \in {"accepted", ReplyKind(q)}, ~Answers(m), out' = Queued("server", m),
         q \in Operations => peerID' = id[q], q \notin Operations => peerID' = peerID,
         \A p \in Requests \ {q} : disp'[p] = disp[p],
         \/ disp'[q] = disp[q] /\ m.kind # "accepted" /\ active' = active
         \/ /\ disp'[q].pc = "admit" /\ disp'[q].accept = f.accept /\ ~disp'[q].finished /\ m.kind = "accepted"
            /\ active' = [active EXCEPT ![OperationOf(q)] = q],
         UNCHANGED <<protocolError, entry, fate, state, client>>
  PROVE  Agreement'
<1>a. /\ TypeOK /\ TransportTypes /\ ClientTypes /\ ServerTypes
      /\ PeersAgree /\ DecisionsAgree /\ Sending /\ Numbered /\ Replying /\ Dispatching
      /\ Noting /\ Offering /\ Applying
  BY InvParts, AgreementParts
<1>c. id' = id /\ req' = req /\ pending' = pending /\ given' = given
  BY DEF client
<1>1. out'["client"] = out["client"]
  BY <1>a, QueuedFrames DEF Sides, Peer, LaneOf, Lanes
<1>2. /\ f \in Within(wire["client"]) /\ f \in Flying("client") /\ f \in Frame
      /\ wire'["server"] = wire["server"]
      /\ Within(wire'["client"]) \subseteq Within(wire["client"]) /\ InOrder(id, wire'["client"])
      /\ OutOf("client")' = OutOf("client") /\ Flying("client")' \subseteq Flying("client")
      /\ \A g \in Flying("client")' : Follows(id, f, g)
  BY <1>1, <1>a, RequestTaken
<1>3. /\ Begun(q) /\ disp[q].pc = "idle" /\ f.accept = req[q].accept
      /\ q \in Operations => peerID < id[q]
  BY <1>2, <1>a DEF Sending
<1>4. /\ \A g \in Flying("client")' : Asks(g) => g.of # q
      /\ \A g \in Flying("client")' : Asks(g) /\ q \in Operations /\ g.of \in Operations => id[q] < id[g.of]
  BY <1>2 DEF Follows
<1>5. \A g \in Flying("server") : g.of # q
  BY <1>2, <1>a DEF Replying
<1>t. /\ \A g \in Flying("client") : g.of \in Requests
      /\ \A g \in Flying("server") : g.of \in Requests
      /\ \A o \in Operations : pending[o].request \in Requests \cup {<<>>}
      /\ \A o \in Operations : active[o] \in Requests \cup {<<>>}
  BY <1>a, FrameTypes DEF Sides, ClientTypes, PendingType, ServerTypes
<1>6. disp'[q].pc \in {"idle", "admit"} /\ ~disp'[q].finished
  BY <1>3, <1>a DEF Dispatching
<1>7. Replying' /\ Flying("server")' = Flying("server") \cup {m}
  <2>1. \A g \in OutOf("server") : g.of # q
    BY <1>5 DEF Flying
  <2>2. \A g \in Within(wire["server"]) : g.of # q
    BY <1>5 DEF Flying
  <2>3. IF m.kind = "accepted" THEN disp'[q].pc = "admit" ELSE disp'[q].pc \in {"idle", "reply"}
    BY <1>3
  <2>4. Open("server")'
    BY DEF Open
  <2>5. \A p \in Requests \ {q} : disp'[p].pc = disp[p].pc
    OBVIOUS
  <2>6. QED
    BY <1>2, <1>3, <1>4, <2>1, <2>2, <2>3, <2>4, <2>5, FrameQueued
<1>8. Sending'
  <2>1. \A g \in Flying("client")' : Asks(g) =>
          /\ Begun(g.of) /\ disp'[g.of].pc = "idle" /\ g.accept = req[g.of].accept
          /\ g.of \in Operations => peerID' < id[g.of]
    <3> SUFFICES ASSUME NEW g \in Flying("client")', Asks(g)
                 PROVE  /\ Begun(g.of) /\ disp'[g.of].pc = "idle" /\ g.accept = req[g.of].accept
                        /\ g.of \in Operations => peerID' < id[g.of]
      OBVIOUS
    <3>1. g \in Flying("client") /\ g.of \in Requests \ {q}
      BY <1>2, <1>4, <1>t
    <3>2. disp'[g.of] = disp[g.of]
      BY <3>1
    <3>3. /\ Begun(g.of) /\ disp[g.of].pc = "idle" /\ g.accept = req[g.of].accept
          /\ g.of \in Operations => peerID < id[g.of]
      BY <1>a, <3>1 DEF Sending
    <3>4. g.of \in Operations => peerID' < id[g.of]
      BY <1>4, <3>3
    <3>5. QED
      BY <3>2, <3>3, <3>4
  <2>2. \A g \in Within(wire'["client"]), h \in OutOf("client") : Follows(id, g, h)
    BY <1>2, <1>a DEF Sending
  <2>3. QED
    BY <1>1, <1>2, <1>a, <1>c, <2>1, <2>2 DEF Sending, Begun
<1>9. Numbered'
  <2>1. peerID' <= Taken
    BY <1>a DEF Numbered
  <2>2. QED
    BY <1>a, <1>c, <2>1 DEF Numbered, Taken
<1>10. Dispatching'
  <2>1. \A p \in Requests :
          /\ disp'[p].pc # "idle" => Begun(p) /\ disp'[p].accept = req[p].accept
          /\ disp'[p].finished => disp'[p].pc \in {"reply", "finish", "end"}
    <3>1. \A p \in Requests \ {q} :
            /\ disp'[p].pc # "idle" => Begun(p) /\ disp'[p].accept = req[p].accept
            /\ disp'[p].finished => disp'[p].pc \in {"reply", "finish", "end"}
      BY <1>a DEF Dispatching
    <3>2. disp'[q].pc # "idle" => Begun(q) /\ disp'[q].accept = req[q].accept
      BY <1>3
    <3>3. QED
      BY <1>6, <3>1, <3>2
  <2>2. ASSUME NEW o \in Operations, active'[o] # <<>>
        PROVE  OperationOf(active'[o]) = o /\ disp'[active'[o]].pc # "idle" /\ ~disp'[active'[o]].finished
    <3>1. CASE active'[o] = active[o]
      <4>1. OperationOf(active[o]) = o /\ disp[active[o]].pc # "idle" /\ ~disp[active[o]].finished /\ active[o] \in Requests
        BY <1>a, <1>t, <2>2, <3>1 DEF Dispatching
      <4>2. disp'[active[o]] = disp[active[o]]
        BY <1>3, <4>1
      <4>3. QED
        BY <3>1, <4>1, <4>2
    <3>2. CASE active'[o] # active[o]
      <4>1. active' = [active EXCEPT ![OperationOf(q)] = q] /\ disp'[q].pc = "admit" /\ ~disp'[q].finished
        BY <3>2
      <4>2. o = OperationOf(q) /\ active'[o] = q
        BY <1>a, <3>2, <4>1 DEF ServerTypes
      <4>3. QED
        BY <4>1, <4>2
    <3>3. QED
      BY <3>1, <3>2
  <2>3. QED
    BY <1>c, <2>1, <2>2 DEF Dispatching, Begun
<1>s. ASSUME NEW p \in Requests, Silent(p) PROVE p # q /\ disp'[p] = disp[p] /\ Silent(p)'
  <2>1. p # q
    BY <1>2, <1>s DEF Silent
  <2>2. QED
    BY <1>2, <1>7, <1>c, <1>s, <2>1 DEF Silent, Begun
<1>11. Noting'
  <2>1. ASSUME NEW o \in Operations, NEW p \in Requests, pending[o].request = p, pending[o].accepted
        PROVE  disp'[p].pc \notin {"idle", "admit"} /\ \A g \in Within(wire["server"]) : g.of = p => g.kind # "accepted"
    <3>1. disp[p].pc \notin {"idle", "admit"} /\ \A g \in Within(wire["server"]) : g.of = p => g.kind # "accepted"
      BY <1>a, <2>1, NoRequestIsEmpty DEF Noting
    <3>2. p # q
      BY <1>3, <3>1
    <3>3. QED
      BY <3>1, <3>2
  <2>2. \A o \in Operations : \A p \in Requests : pending[o].request = p /\ pending[o].terminal => Silent(p)'
    BY <1>a, <1>s, NoRequestIsEmpty DEF Noting
  <2>3. QED
    BY <1>2, <1>c, <1>t, <2>1, <2>2 DEF Noting
<1>12. Offering'
  <2>1. \A c \in Calls : Offered(c)' => Offered(c)
    BY <1>c DEF Offered, Succeeded
  <2>2. \A c \in Calls : Offered(c) => Silent(Call(c))' /\ disp'[Call(c)].finished
    BY <1>a, <1>s, CallFacts DEF Offering
  <2>3. ASSUME NEW c \in Calls, NEW g \in Flying("server")', g.of = Call(c), Answers(g) PROVE disp'[Call(c)].finished
    <3>1. g \in Flying("server") /\ Call(c) \in Requests \ {q}
      BY <1>5, <1>7, <2>3, CallFacts
    <3>2. QED
      BY <1>a, <2>3, <3>1 DEF Offering
  <2>4. QED
    BY <2>1, <2>2, <2>3 DEF Offering
<1>13. Applying'
  <2>1. \A p \in Requests : \/ disp'[p] = disp[p]
                            \/ disp'[p].pc = "admit" /\ disp[p].pc = "idle"
    BY <1>3
  <2>2. \A c \in Calls : \A g \in Flying("server")' : Answers(g) => g \in Flying("server")
    BY <1>7
  <2>3. \A c \in Calls :
          /\ disp'[Call(c)].pc \in {"idle", "admit", "run", "handler"} => fate[c] = "none"
          /\ disp'[Call(c)].pc = "offer" => fate[c] # "none"
          /\ fate[c] = "none" => ~entry[c].present /\ disp'[Decision(c)].pc # "deciding"
          /\ disp'[Decision(c)].pc \in {"idle", "admit", "run", "deciding"} => fate[c] \notin {"accepted", "released"}
          /\ disp'[Decision(c)].pc = "decided" /\ disp'[Decision(c)].code = "ok" => Settles(c, disp'[Decision(c)].accept)
    BY <1>a, <2>1, CallFacts DEF Applying
  <2>4. \A c \in Calls : \A g \in Flying("server")' : g.of = Decision(c) /\ Answers(g) => Settles(c, req[Decision(c)].accept)
    BY <1>a, <2>2 DEF Applying
  <2>5. \A c \in Calls : Succeeded(Decision(c)) => Begun(Decision(c)) /\ Settles(c, req[Decision(c)].accept)
    BY <1>a DEF Applying
  <2>6. QED
    BY <1>c, <2>3, <2>4, <2>5 DEF Applying, Settles, Succeeded, Begun
<1>14. PeersAgree' /\ DecisionsAgree'
  BY <1>a, <1>c DEF PeersAgree, DecisionsAgree
<1>15. QED
  BY <1>7, <1>8, <1>9, <1>10, <1>11, <1>12, <1>13, <1>14, AgreementMade

LEMMA ReadRequestAgrees ==
  ASSUME IInv, Agreement, ReadRequest
  PROVE  Agreement'
<1>a. /\ TransportTypes /\ ServerTypes /\ ClientTypes /\ Sending /\ Dispatching
  BY InvParts, AgreementParts
<1> PICK f : f = Head(wire["client"])
  OBVIOUS
<1> PICK q : q = f.of
  OBVIOUS
<1>1. /\ wire["client"] # <<>> /\ wire' = [wire EXCEPT !["client"] = Tail(@)]
      /\ Asks(f) /\ Open("server")
      /\ peerID' = (IF f.kind = "decision" \/ ~IdentifierFits(f) THEN peerID ELSE id[q])
      /\ UNCHANGED <<entry, fate>>
      /\ UNCHANGED <<state, client>>
  BY DEF ReadRequest, Asks
<1>2. f \in Within(wire["client"]) /\ f \in Frame
  BY <1>1, <1>a, ReadFrames DEF Sides, Peer
<1>3. f \in Flying("client")
  BY <1>2 DEF Flying
<1>4. IdentifierFits(f)
  BY <1>1, <1>3, IdentifierExpected
<1>5. q \in Requests /\ f.kind = q[1] /\ f.accept \in BOOLEAN
  <2>1. Frames
    BY InvParts
  <2>2. q \in Requests /\ f.kind = q[1]
    BY <1>1, <1>3, <1>a, <2>1, ClientFlying
  <2>3. QED
    BY <1>2, <2>2 DEF Frame
<1>6. disp[q].pc = "idle" /\ f.accept = req[q].accept
  BY <1>1, <1>3, <1>a DEF Sending
<1>7. /\ f.kind = "decision" => q \notin Operations
      /\ f.kind # "decision" => q \in Operations
  BY <1>5, RequestFacts, RequestTypes
<1>8. /\ q \in Operations => peerID' = id[q]
      /\ q \notin Operations => peerID' = peerID
  BY <1>1, <1>4, <1>7
<1>9. ReplyKind(q) \in {"offer", "done"}
  BY DEF ReplyKind
<1>10. CASE f.kind = "decision" /\ entry[q[2]].deciding
  <2>1. UNCHANGED <<protocolError, out, active, disp>>
    BY <1>10 DEF ReadRequest
  <2>2. peerID' = peerID
    BY <1>1, <1>10
  <2>3. DispatchMoves /\ \A p \in Requests : disp'[p].pc = disp[p].pc /\ disp'[p].code = disp[p].code
    BY <1>a, <2>1, StillMoves
  <2>4. QED
    BY <1>1, <2>1, <2>2, <2>3, FrameDropped
<1>11. CASE /\ Overloaded(q) /\ ~(f.kind = "decision" /\ entry[q[2]].deciding)
            /\ out' = Queued("server", Message(ReplyKind(q), q, "definite", FALSE))
            /\ UNCHANGED <<protocolError, active, activeCount, reserved, held, disp>>
  <2> PICK m : m = Message(ReplyKind(q), q, "definite", FALSE)
    OBVIOUS
  <2>1. /\ m \in Frame /\ m.of = q /\ m.kind = ReplyKind(q) /\ ~Answers(m) /\ m.kind # "accepted"
    BY <1>5, <1>9 DEF Message, Frame, Answers, Codes
  <2>2. out' = Queued("server", m) /\ disp' = disp /\ active' = active /\ protocolError' = protocolError
    BY <1>11
  <2>3. (\A p \in Requests \ {q} : disp'[p] = disp[p]) /\ disp'[q] = disp[q]
    BY <2>2
  <2>4. QED
    BY <1>1, <1>5, <1>8, <2>1, <2>2, <2>3, RequestMet
<1>12. CASE Admit(f) /\ UNCHANGED protocolError
  <2> PICK m : m = Message("accepted", q, "ok", FALSE)
    OBVIOUS
  <2>1. m \in Frame /\ m.of = q /\ m.kind = "accepted" /\ ~Answers(m)
    BY <1>5 DEF Message, Frame, Answers, Codes
  <2>2. /\ out' = Queued("server", m) /\ active' = [active EXCEPT ![OperationOf(q)] = q]
        /\ disp' = [disp EXCEPT ![q] = [NoDispatch EXCEPT !.pc = "admit", !.accept = f.accept,
                                                          !.holds = q = Bind \/ q[1] = "call"]]
    BY <1>12 DEF Admit
  <2> PICK h : h = (q = Bind \/ q[1] = "call")
    OBVIOUS
  <2>3. disp' = [disp EXCEPT ![q] = [NoDispatch EXCEPT !.pc = "admit", !.accept = f.accept, !.holds = h]]
    BY <2>2
  <2>4. disp'[q].pc = "admit" /\ disp'[q].accept = f.accept /\ ~disp'[q].finished
    BY <1>5, <1>a, <2>3 DEF NoDispatch, ServerTypes
  <2>5. \A p \in Requests \ {q} : disp'[p] = disp[p]
    BY <1>a, <2>3 DEF ServerTypes
  <2>6. UNCHANGED <<protocolError, entry, fate, state, client>>
    BY <1>1, <1>12
  <2>7. \/ disp'[q] = disp[q] /\ m.kind # "accepted" /\ active' = active
        \/ /\ disp'[q].pc = "admit" /\ disp'[q].accept = f.accept /\ ~disp'[q].finished /\ m.kind = "accepted"
           /\ active' = [active EXCEPT ![OperationOf(q)] = q]
    BY <2>1, <2>2, <2>4
  <2>8. /\ wire["client"] # <<>> /\ wire' = [wire EXCEPT !["client"] = Tail(@)]
        /\ Asks(f) /\ Open("server") /\ q \in Requests
        /\ m \in Frame /\ m.of = q /\ m.kind \in {"accepted", ReplyKind(q)} /\ ~Answers(m) /\ out' = Queued("server", m)
    BY <1>1, <1>5, <2>1, <2>2
  <2>9. QED
    BY ONLY IInv, Agreement, f = Head(wire["client"]), q = f.of, <1>8, <2>5, <2>6, <2>7, <2>8, RequestMet
<1>13. QED
  BY <1>4, <1>10, <1>11, <1>12 DEF ReadRequest

-----------------------------------------------------------------------------
(* Every step                                                              *)

LEMMA ClientStepAgrees ==
  ASSUME IInv, Agreement, ClientStep
  PROVE  Agreement'
<1>a. TypeOK /\ ClientState
  BY InvParts
<1>b. Quietly => Agreement'
  BY <1>a, QuietlyKeeps
<1>1. ASSUME NEW q \in Requests, RequestStep(q) PROVE Agreement'
  <2>1. CASE EnqueueRequest(q)
    BY <1>a, <1>b, <2>1, EnqueueRefusedIsQuiet, EnqueueAdmitted
  <2>2. CASE RequestUnsent(q)
    BY <1>a, <1>b, <2>2, RequestUnsentIsQuiet
  <2>3. CASE RequestReply(q)
    BY <1>a, <1>b, <2>3, RequestReplyIsQuiet
  <2>4. CASE CancelRequest(q)
    BY <1>a, <1>b, <2>4, CancelRequestIsQuiet
  <2>5. CASE CancelGivesUp(q)
    BY <1>a, <1>b, <2>5, CancelGivesUpIsQuiet
  <2>6. CASE CancelSend(q)
    BY <2>6, CancelSendAgrees
  <2>7. CASE CancelReply(q)
    BY <1>a, <1>b, <2>7, CancelReplyIsQuiet
  <2>8. CASE CancelCleaned(q)
    BY <1>a, <1>b, <2>8, CancelCleanedIsQuiet
  <2>9. CASE ControlReturns(q)
    BY <1>a, <1>b, <2>9, ControlReturnsIsQuiet
  <2>10. QED
    BY <1>1, <2>1, <2>2, <2>3, <2>4, <2>5, <2>6, <2>7, <2>8, <2>9 DEF RequestStep
<1>2. ASSUME NEW confirmed \in BOOLEAN, BindReturns(confirmed) PROVE Agreement'
  BY <1>a, <1>b, <1>2, BindReturnsIsQuiet
<1>3. ASSUME NEW c \in Calls,
             \/ CallReturns(c) \/ DecisionReturns(c) \/ RoutesCancel(c) \/ RoutesDiscard(c)
             \/ \E accept \in BOOLEAN : Decide(c, accept)
      PROVE  Agreement'
  <2>1. CASE CallReturns(c)
    BY <1>a, <1>b, <2>1, CallReturnsIsQuiet
  <2>2. CASE DecisionReturns(c)
    BY <1>a, <1>b, <2>2, DecisionReturnsIsQuiet
  <2>3. CASE RoutesCancel(c)
    <3>1. /\ Call(c) \in Requests /\ req[Call(c)].pc # "idle" /\ req' = [req EXCEPT ![Call(c)].canceled = TRUE]
          /\ UNCHANGED <<id, pending, given>> /\ UNCHANGED <<state, protocolError, transport, server>>
      BY <2>3, CallFacts DEF RoutesCancel
    <3>2. QED
      BY <1>a, <1>b, <3>1, ContextIsQuiet
  <2>4. CASE RoutesDiscard(c)
    <3>1. /\ given[c] = "held" /\ given' = [given EXCEPT ![c] = "deciding"] /\ req' = Deciding(c, FALSE)
          /\ UNCHANGED <<id, pending>> /\ UNCHANGED <<state, protocolError, transport, server>>
      BY <2>4 DEF RoutesDiscard
    <3>2. QED
      BY <1>a, <1>b, <3>1, DecideIsQuiet
  <2>5. ASSUME NEW accept \in BOOLEAN, Decide(c, accept) PROVE Agreement'
    <3>1. /\ given[c] = "held" /\ given' = [given EXCEPT ![c] = "deciding"] /\ req' = Deciding(c, accept)
          /\ UNCHANGED <<id, pending>> /\ UNCHANGED <<state, protocolError, transport, server>>
      BY <2>5 DEF Decide
    <3>2. QED
      BY <1>a, <1>b, <3>1, DecideIsQuiet
  <2>6. QED
    BY <1>3, <2>1, <2>2, <2>3, <2>4, <2>5
<1>4. CASE RoutesFinish
  BY <1>a, <1>b, <1>4, RoutesFinishIsQuiet
<1>5. CASE ClientExpires
  BY <1>a, <1>b, <1>5, ClientExpiresIsQuiet
<1>6. QED
  BY <1>1, <1>2, <1>3, <1>4, <1>5 DEF ClientStep

LEMMA FailAgrees ==
  ASSUME IInv, Agreement, NEW side \in Sides, Fail(side)
  PROVE  Agreement'
<1>1. CASE FailClient
  BY <1>1, InvParts, FailClientIsQuiet, QuietlyKeeps
<1>2. CASE FailServer
  BY <1>2, FailServerAgrees
<1>3. QED
  BY <1>1, <1>2 DEF Fail

LEMMA TransportStepAgrees ==
  ASSUME IInv, Agreement, TransportStep
  PROVE  Agreement'
<1>1. ASSUME NEW lane \in Lanes, WriteClient(lane) \/ WriteServer(lane) PROVE Agreement'
  BY <1>1, WriteClientAgrees, WriteServerAgrees
<1>2. CASE ReadClient
  BY <1>2, ReadClientAgrees
<1>3. CASE ReadCancel
  BY <1>3, ReadCancelAgrees
<1>4. CASE ReadRequest
  BY <1>4, ReadRequestAgrees
<1>5. ASSUME NEW side \in Sides, ConnectionLost(side) PROVE Agreement'
  BY <1>5, FailAgrees DEF ConnectionLost
<1>6. ASSUME NEW side \in Sides, ShutdownEnds(side) PROVE Agreement'
  BY <1>6, InvParts, ShutdownIsQuiet, QuietlyKeeps
<1>7. QED
  BY <1>1, <1>2, <1>3, <1>4, <1>5, <1>6 DEF TransportStep

LEMMA DispatchStepAgrees ==
  ASSUME IInv, Agreement, DispatchStep
  PROVE  Agreement'
<1>1. ASSUME NEW ok \in BOOLEAN, DispatchBind(ok) PROVE Agreement'
  BY <1>1, DispatchBindAgrees
<1>2. ASSUME NEW c \in Calls, DispatchCall(c) \/ Offer(c) \/ DispatchDecision(c) \/ DecisionChecks(c)
      PROVE  Agreement'
  BY <1>2, DispatchCallAgrees, OfferAgrees, DispatchDecisionAgrees, DecisionChecksAgrees
<1>3. ASSUME NEW c \in Calls, NEW code \in scenario.answers, HandlerReturns(c, code) PROVE Agreement'
  BY <1>3, HandlerReturnsAgrees
<1>4. ASSUME NEW c \in Calls, NEW code \in Codes, DecisionApplies(c, code) \/ DispatchDrop(c, code) PROVE Agreement'
  BY <1>4, DecisionAppliesAgrees, DispatchDropAgrees
<1>5. CASE DispatchClose \/ CloseAborted
  BY <1>5, DispatchCloseAgrees, CloseAbortedAgrees
<1>6. ASSUME NEW q \in Requests, DispatchStopped(q) \/ DispatchFinish(q) PROVE Agreement'
  BY <1>6, DispatchStoppedAgrees, DispatchFinishAgrees
<1>7. QED
  BY <1>1, <1>2, <1>3, <1>4, <1>5, <1>6 DEF DispatchStep

LEMMA LeaseStepAgrees ==
  ASSUME IInv, Agreement, LeaseStep
  PROVE  Agreement'
<1>1. CASE RoutesAborted
  BY <1>1, RoutesAbortedAgrees
<1>2. CASE LeaseLapse \/ \E o \in Operations : HeldLapse(o)
  BY <1>2, LapsesAgree
<1>3. CASE ServerExpires
  BY <1>3, ServerExpiresAgrees
<1>4. ASSUME NEW c \in Calls, EntryRetired(c) PROVE Agreement'
  BY <1>4, EntryRetiredAgrees
<1>5. QED
  BY <1>1, <1>2, <1>3, <1>4 DEF LeaseStep

LEMMA ClientFaultAgrees ==
  ASSUME IInv, Agreement, ClientFault
  PROVE  Agreement'
<1>a. TypeOK /\ ClientState
  BY InvParts
<1>b. Quietly => Agreement'
  BY <1>a, QuietlyKeeps
<1>1. ASSUME NEW q \in Requests, Ask(q) PROVE Agreement'
  BY <1>a, <1>b, <1>1, AskIsQuiet
<1>2. ASSUME NEW q \in Requests, ContextEnds(q) PROVE Agreement'
  <2>1. /\ req[q].pc # "idle" /\ req' = [req EXCEPT ![q].canceled = TRUE]
        /\ UNCHANGED <<id, pending, given>> /\ UNCHANGED <<state, protocolError, transport, server>>
    BY <1>2 DEF ContextEnds
  <2>2. QED
    BY <1>a, <1>b, <2>1, ContextIsQuiet
<1>3. ASSUME NEW q \in Requests, CancelRequest(q) PROVE Agreement'
  BY <1>a, <1>b, <1>3, CancelRequestIsQuiet
<1>4. ASSUME NEW q \in Requests, CancelTimer(q) PROVE Agreement'
  BY <1>a, <1>b, <1>4, CancelGivesUpIsQuiet
<1>5. CASE OperationLapseOrShutdown
  BY <1>b, <1>5, LapseIsQuiet
<1>6. QED
  BY <1>1, <1>2, <1>3, <1>4, <1>5 DEF ClientFault, Request, OperationLapseOrShutdown

LEMMA StutterAgrees ==
  ASSUME IInv, Agreement, UNCHANGED vars
  PROVE  Agreement'
<1>a. ClientTypes
  BY InvParts
<1>1. UNCHANGED <<state, protocolError, transport, id, req, pending, given, server>>
  BY DEF vars, client
<1>2. Hushed
  BY <1>1 DEF Hushed, Open, transport
<1>3. \A c \in Calls : req[Decision(c)].pc # "idle" => Offered(c)
  BY DEF Offered
<1>4. \A q \in Requests : (Begun(q)' <=> Begun(q)) /\ (Succeeded(q)' <=> Succeeded(q))
  BY <1>1 DEF Begun, Succeeded
<1>5. Quietly
  BY <1>1, <1>2, <1>3, <1>4 DEF Quietly
<1>6. QED
  BY <1>5, InvParts, QuietlyKeeps

LEMMA AgreementStep == IInv /\ Agreement /\ [Next]_vars => Agreement'
<1> SUFFICES ASSUME IInv, Agreement, [Next]_vars PROVE Agreement'
  OBVIOUS
<1>1. CASE ClientStep
  BY <1>1, ClientStepAgrees
<1>2. CASE TransportStep
  BY <1>2, TransportStepAgrees
<1>3. CASE DispatchStep
  BY <1>3, DispatchStepAgrees
<1>4. CASE LeaseStep
  BY <1>4, LeaseStepAgrees
<1>5. CASE ClientFault
  BY <1>5, ClientFaultAgrees
<1>6. ASSUME NEW side \in Sides, Fail(side) PROVE Agreement'
  BY <1>6, FailAgrees
<1>7. CASE UNCHANGED vars
  BY <1>7, StutterAgrees
<1>8. QED
  BY <1>1, <1>2, <1>3, <1>4, <1>5, <1>6, <1>7 DEF Next, Progress, Fault, ClientFault

LEMMA AgreementInit == Init => Agreement
<1> SUFFICES ASSUME Init PROVE Agreement
  OBVIOUS
<1>a. IInv
  BY InitHolds
<1>1. \A q \in Requests : /\ req[q].pc = "idle" /\ req[q].outcome = "none" /\ req[q].response = <<>>
                          /\ disp[q].pc = "idle" /\ ~disp[q].finished
  BY DEF Init, NoRequest, NoDispatch
<1>2. \A side \in Sides : /\ wire[side] = <<>> /\ \A lane \in Lanes : out[side][lane] = <<>>
  BY DEF Init
<1>3. \A side \in Sides : Within(wire[side]) = {} /\ OutOf(side) = {} /\ Flying(side) = {}
  BY <1>2, WithinEmpty DEF OutOf, Flying
<1>4. Sending
  BY <1>2, <1>3, WithinEmpty DEF Sending, Sides
<1>5. Numbered
  <2>1. {o \in Operations : id[o] # 0} = {}
    BY DEF Init
  <2>2. Taken = 0
    BY <2>1, FS_EmptySet DEF Taken
  <2>3. QED
    BY <2>2 DEF Numbered, Init
<1>6. Replying
  BY <1>2, <1>3, WithinEmpty DEF Replying, Sides
<1>7. Dispatching
  BY <1>1 DEF Dispatching, Init
<1>8. Noting
  BY DEF Noting, Init, NoPending
<1>9. \A q \in Requests : ~Succeeded(q)
  BY <1>1, WithinEmpty DEF Succeeded
<1>10. Offering
  BY <1>1, <1>3, <1>9, CallFacts DEF Offering, Offered, Sides
<1>11. Applying
  BY <1>1, <1>3, <1>9, CallFacts DEF Applying, Sides, Init, NoEntry
<1>12. PeersAgree /\ DecisionsAgree
  BY DEF PeersAgree, DecisionsAgree, Init
<1>13. QED
  BY <1>4, <1>5, <1>6, <1>7, <1>8, <1>10, <1>11, <1>12 DEF Agreement, Traffic

LEMMA EndpointsAgree == Spec => [](IInv /\ Agreement)
<1>1. Init => IInv /\ Agreement
  BY InitHolds, AgreementInit
<1>2. IInv /\ Agreement /\ [Next]_vars => (IInv /\ Agreement)'
  BY StepKeeps, AgreementStep
<1>3. QED
  BY <1>1, <1>2, PTL DEF Spec

\* Two endpoints that follow the code never take each other for violators of the
\* protocol: every reply meets a request that waits for it, once accepted and once
\* answered, and every identifier arrives in the order in which it was taken, or
\* names the call a decision is about, whatever is cancelled, late or overtaken on
\* the control lane (the checks of readLoop).
THEOREM PeersNeverQuarrel == Spec => []PeersAgree
<1>1. IInv /\ Agreement => PeersAgree
  BY DEF Agreement
<1>2. QED
  BY <1>1, EndpointsAgree, PTL

\* What a caller was told of its decision is what the provider applied, although
\* cancellation, the expiry of a lease, the close of the binding and the decision
\* itself race for the result (decision case of dispatch, expireLeases,
\* Result.decide).
THEOREM DecisionsHold == Spec => []DecisionsAgree
<1>1. IInv /\ Agreement => DecisionsAgree
  BY DEF Agreement
<1>2. QED
  BY <1>1, EndpointsAgree, PTL

=============================================================================
