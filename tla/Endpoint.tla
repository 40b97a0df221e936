------------------------------ MODULE Endpoint ------------------------------
(***************************************************************************)
(* One connection between two RPC endpoints (rpc/endpoint*.go), seen from  *)
(* one side's requests: the client endpoint binds, calls, decides results, *)
(* drops resources and closes its binding; the server endpoint dispatches. *)
(*                                                                         *)
(* Goroutines: request() of each client request and the goroutine          *)
(* cancelRequest leaves behind; the writer and the reader of each side;    *)
(* the server's dispatch of each request; expireLeases of each side; the   *)
(* cleanup of the binding's RouteSet on each side.  Every section under    *)
(* Endpoint.mu is one step.  A call and the decision on its result are two *)
(* requests of one operation: they share its identifier.                   *)
(*                                                                         *)
(* Time: a lease is live, lapsed (its time is over, nobody noticed yet) or *)
(* absent.  The client's may lapse at any time; the server's only when the *)
(* client's is no longer live, because the client counts from the moment   *)
(* it sent and the server from the moment it received (sentAt in           *)
(* completeWrite and maintainLeases, renewInboundTargets).                 *)
(***************************************************************************)
EXTENDS Naturals, Sequences, FiniteSets

CONSTANTS
    Calls,              \* calls ever made
    Scenarios,          \* bound: whether there is a binding; what is asked for, whose
                        \* context may end, what handlers and providers may answer, whether
                        \* the client's limits admit the values of a result, and how many
                        \* faults happen
    MaxPendingCalls,    \* Limits, the same on both sides
    MaxPendingControls,
    MaxPendingResults

Bind == <<"bind">>
Close == <<"close">>
Call(c) == <<"call", c>>
Decision(c) == <<"decision", c>>
DropOf(c) == <<"drop", c>>

Operations == {Bind, Close} \cup {Call(c) : c \in Calls} \cup {DropOf(c) : c \in Calls}
Requests == Operations \cup {Decision(c) : c \in Calls}
OperationOf(q) == IF q[1] = "decision" THEN Call(q[2]) ELSE q

ASSUME EndpointAssumption ==
    /\ IsFiniteSet(Calls)
    /\ \A plan \in Scenarios :
         /\ plan.bound \in BOOLEAN /\ plan.asked \subseteq Operations
         /\ plan.canceled \subseteq Operations /\ plan.faults \in Nat
         /\ plan.answers \subseteq {"ok", "uncertain", "definite"} /\ plan.decodes \in BOOLEAN
    /\ {MaxPendingCalls, MaxPendingControls, MaxPendingResults} \subseteq Nat \ {0}

Sides == {"client", "server"}
Peer(side) == IF side = "client" THEN "server" ELSE "client"
Lanes == {"control", "data"}
Lease == {"none", "live", "lapsed"}

VARIABLES
    state,          \* Endpoint.state of each side
    protocolError,  \* whether a side failed the connection for what its peer sent
    out,            \* controlWrites, and replyWrites or requestWrites, of each side
    wire,           \* what each side has written and its peer has not read
    \* client
    id,             \* the identifier of each operation, 0 before nextID is taken
    req,            \* request() of each request
    cancel,         \* where the goroutine of cancelRequest is
    pending,        \* Endpoint.pending, by operation
    pendingCount,   \* pendingData and pendingControls
    operation,      \* outboundOperations
    binding,        \* outboundLease
    routes,         \* the remote RouteSet of the binding
    given,          \* what the caller has of each call's Result
    \* server
    peerID,         \* Endpoint.peerID
    active,         \* Endpoint.active, by operation
    activeCount,    \* activeData and activeControls
    reserved,       \* inboundReservations and resultReservations
    disp,           \* dispatch() of each request
    held,           \* inboundOperations, and expiresAt of a result
    entry,          \* Endpoint.results
    lease,          \* inboundLease
    served,         \* the RouteSet of the binding, and whether inbound has it
    fate,           \* what became of each call's result at its provider
    faults,         \* faults so far
    scenario

client == <<id, req, cancel, pending, pendingCount, operation, binding, routes, given>>
server == <<peerID, active, activeCount, reserved, disp, held, entry, lease, served, fate>>
transport == <<out, wire>>
vars == <<state, protocolError, transport, client, server, faults, scenario>>

NoPending == [request |-> <<>>, accepted |-> FALSE, terminal |-> FALSE, abandoned |-> FALSE]
NoRequest == [pc |-> "idle", canceled |-> FALSE, unsent |-> FALSE, response |-> <<>>,
              outcome |-> "none", accept |-> FALSE]
NoDispatch == [pc |-> "idle", canceled |-> FALSE, code |-> "ok", accept |-> FALSE,
               holds |-> FALSE, finished |-> FALSE]
NoEntry == [present |-> FALSE, deciding |-> FALSE, retiring |-> "no"]

\* codes: a success; Unavailable, Canceled or DeadlineExceeded; any other failure
Codes == {"ok", "uncertain", "definite"}

\* of is the request a frame belongs to; the wire carries the identifier of its
\* operation only
Frame == [kind : {"bind", "call", "drop", "close", "decision", "cancel", "accepted", "offer", "done"},
          of : Requests, code : Codes, accept : BOOLEAN]

PendingType == [request : Requests \cup {<<>>}, accepted : BOOLEAN, terminal : BOOLEAN, abandoned : BOOLEAN]
RequestType == [pc : {"idle", "start", "queued", "sent", "accepted", "returned", "end"},
                canceled : BOOLEAN, unsent : BOOLEAN, response : Seq(Frame),
                outcome : Codes \cup {"none"}, accept : BOOLEAN]
DispatchType == [pc : {"idle", "admit", "run", "handler", "offer", "deciding", "decided", "abort",
                       "reply", "finish", "end"},
                 canceled : BOOLEAN, code : Codes, accept : BOOLEAN, holds : BOOLEAN, finished : BOOLEAN]
EntryType == [present : BOOLEAN, deciding : BOOLEAN,
              retiring : {"no", "expired", "late", "closed", "canceled"}]

ClientTypes ==
    /\ id \in [Operations -> Nat]
    /\ req \in [Requests -> RequestType]
    /\ cancel \in [Requests -> {"none", "wait", "cancel", "writing", "await", "cleanup", "end"}]
    /\ pending \in [Operations -> PendingType]
    /\ pendingCount \in [Lanes -> Nat]
    /\ operation \in [Operations -> Lease] /\ binding \in Lease
    /\ routes \in {"none", "open", "shutdown", "disconnect", "closing", "closed"}
    /\ given \in [Calls -> {"none", "held", "deciding", "accepted", "discarded", "failed"}]

ServerTypes ==
    /\ peerID \in Nat
    /\ active \in [Operations -> Requests \cup {<<>>}]
    /\ activeCount \in [Lanes -> Nat]
    /\ reserved \in [inbound : Nat, results : Nat]
    /\ disp \in [Requests -> DispatchType]
    /\ held \in [Operations -> Lease] /\ lease \in Lease
    /\ entry \in [Calls -> EntryType]
    /\ served \in [routes : {"none", "open", "aborting", "aborted"}, inbound : BOOLEAN]
    /\ fate \in [Calls -> {"none", "undecided", "accepted", "discarded", "released"}]

TransportTypes ==
    /\ state \in [Sides -> {"open", "closing", "closed"}]
    /\ protocolError \in BOOLEAN
    /\ out \in [Sides -> [Lanes -> Seq(Frame)]]
    /\ wire \in [Sides -> Seq(Frame)]

TypeOK ==
    /\ TransportTypes /\ ClientTypes /\ ServerTypes
    /\ scenario \in Scenarios
    /\ faults \in 0..scenario.faults

Init ==
    /\ scenario \in Scenarios
    /\ state = [s \in Sides |-> "open"]
    /\ protocolError = FALSE
    /\ out = [s \in Sides |-> [lane \in Lanes |-> <<>>]]
    /\ wire = [s \in Sides |-> <<>>]
    /\ id = [o \in Operations |-> 0]
    /\ req = [q \in Requests |-> NoRequest]
    /\ cancel = [q \in Requests |-> "none"]
    /\ pending = [o \in Operations |-> NoPending]
    /\ pendingCount = [lane \in Lanes |-> 0]
    /\ operation = [o \in Operations |-> "none"]
    /\ binding = IF scenario.bound THEN "live" ELSE "none"
    /\ routes = IF scenario.bound THEN "open" ELSE "none"
    /\ given = [c \in Calls |-> "none"]
    /\ peerID = 0
    /\ active = [o \in Operations |-> <<>>]
    /\ activeCount = [lane \in Lanes |-> 0]
    /\ reserved = [inbound |-> 0, results |-> 0]
    /\ disp = [q \in Requests |-> NoDispatch]
    /\ held = [o \in Operations |-> "none"]
    /\ entry = [c \in Calls |-> NoEntry]
    /\ lease = IF scenario.bound THEN "live" ELSE "none"
    /\ served = [routes |-> IF scenario.bound THEN "open" ELSE "none", inbound |-> scenario.bound]
    /\ fate = [c \in Calls |-> "none"]
    /\ faults = 0

\* endpointPhysicalControl: these overtake the data lane
PhysicalControl(kind) == kind \in {"accepted", "cancel", "decision", "done"}
LaneOf(kind) == IF PhysicalControl(kind) THEN "control" ELSE "data"

\* endpointControlFrame: how a request is counted
CountedAs(q) == IF q[1] = "call" THEN "data" ELSE "control"
Count(counter, q, by) == [counter EXCEPT ![CountedAs(q)] = IF by = "up" THEN @ + 1 ELSE @ - 1]

Message(kind, q, code, accept) == [kind |-> kind, of |-> q, code |-> code, accept |-> accept]
Queued(side, f) == [out EXCEPT ![side][LaneOf(f.kind)] = Append(@, f)]
Open(side) == state[side] = "open"

-----------------------------------------------------------------------------
(***************************************************************************)
(* Client: request() and cancelRequest().                                  *)
(***************************************************************************)
Started(q) == [req EXCEPT ![q].pc = "start"]
Deciding(c, accept) == [req EXCEPT ![Decision(c)].pc = "start", ![Decision(c)].accept = accept]
Returned(q, code) == [req EXCEPT ![q].pc = "returned", ![q].outcome = code]

\* removePendingLocked
Removed(o) == [pending EXCEPT ![o] = NoPending]
CountRemoved(o) ==
    IF pending[o].request = <<>> THEN pendingCount ELSE Count(pendingCount, pending[o].request, "down")

\* the program binds, calls or drops
Ask(q) ==
    /\ q \in scenario.asked /\ req[q].pc = "idle"
    /\ CASE q = Bind -> routes = "none"
         [] q[1] = "call" -> routes = "open"
         [] OTHER -> q[1] = "drop" /\ routes = "open" /\ given[q[2]] = "accepted"
    /\ req' = Started(q)
    /\ UNCHANGED <<id, cancel, pending, pendingCount, operation, binding, routes, given>>
    /\ UNCHANGED <<state, protocolError, transport, server>>

ContextEnds(q) ==
    /\ q \in scenario.canceled /\ req[q].pc \in {"queued", "sent", "accepted"} /\ ~req[q].canceled
    /\ req' = [req EXCEPT ![q].canceled = TRUE]
    /\ UNCHANGED <<id, cancel, pending, pendingCount, operation, binding, routes, given>>
    /\ UNCHANGED <<state, protocolError, transport, server>>

PendingLimit(q) == IF CountedAs(q) = "data" THEN MaxPendingCalls ELSE MaxPendingControls

\* why enqueueRequest refuses, or "ok"
Admission(q) ==
    IF ~Open("client") \/ (q[1] = "call" /\ binding # "live") THEN "uncertain"
    ELSE IF pendingCount[CountedAs(q)] >= PendingLimit(q) THEN "definite"
    ELSE "ok"

\* enqueueRequest: a decision keeps the identifier of its call
EnqueueRequest(q) ==
    LET o == OperationOf(q)
    IN  /\ req[q].pc = "start"
        /\ IF Admission(q) = "ok"
           THEN /\ id' = IF q = o THEN [id EXCEPT ![o] = Cardinality({x \in Operations : id[x] # 0}) + 1]
                                  ELSE id
                /\ pending' = [pending EXCEPT ![o] = [NoPending EXCEPT !.request = q]]
                /\ pendingCount' = Count(pendingCount, q, "up")
                /\ out' = Queued("client", Message(q[1], q, "ok", req[q].accept))
                /\ req' = [req EXCEPT ![q].pc = "queued"]
           ELSE /\ req' = Returned(q, Admission(q))
                /\ UNCHANGED <<id, pending, pendingCount, out>>
        /\ UNCHANGED <<cancel, operation, binding, routes, given>>
        /\ UNCHANGED <<state, protocolError, wire, server>>

\* writeDone reports that the request was not sent, or the endpoint is stopping
RequestUnsent(q) ==
    LET o == OperationOf(q)
    IN  /\ req[q].pc = "queued"
        /\ req[q].unsent \/ ~Open("client")
        /\ req' = Returned(q, "uncertain")
        /\ pending' = Removed(o)
        /\ pendingCount' = CountRemoved(o)
        /\ operation' = [operation EXCEPT ![o] = "none"]
        /\ UNCHANGED <<id, cancel, binding, routes, given>>
        /\ UNCHANGED <<state, protocolError, transport, server>>

\* ACCEPTED, or the terminal reply
RequestReply(q) ==
    LET o == OperationOf(q)
        reply == Head(req[q].response)
    IN  /\ req[q].pc \in {"sent", "accepted"} /\ req[q].response # <<>>
        /\ IF reply.kind = "accepted"
           THEN /\ req' = [req EXCEPT ![q].pc = "accepted", ![q].response = Tail(@)]
                /\ UNCHANGED <<pending, pendingCount, operation>>
           ELSE /\ req' = Returned(q, reply.code)
                /\ pending' = Removed(o)
                /\ pendingCount' = CountRemoved(o)
                /\ operation' = IF q[1] = "call" /\ reply.code = "ok"
                                THEN operation ELSE [operation EXCEPT ![o] = "none"]
        /\ UNCHANGED <<id, cancel, binding, routes, given>>
        /\ UNCHANGED <<state, protocolError, transport, server>>

\* its context ended, or admission was not confirmed in time: cancelRequest
CancelRequest(q) ==
    LET o == OperationOf(q)
    IN  /\ req[q].pc \in {"queued", "sent", "accepted"}
        /\ req[q].canceled \/ req[q].pc = "sent"
        /\ operation' = [operation EXCEPT ![o] = "none"]
        /\ IF pending[o].request # <<>>
           THEN /\ pending' = [pending EXCEPT ![o].abandoned = TRUE]
                /\ cancel' = [cancel EXCEPT ![q] = IF req[q].pc = "queued" THEN "wait" ELSE "cancel"]
           ELSE UNCHANGED <<pending, cancel>>
        /\ req' = Returned(q, "uncertain")
        /\ UNCHANGED <<id, pendingCount, binding, routes, given>>
        /\ UNCHANGED <<state, protocolError, transport, server>>

-----------------------------------------------------------------------------
(***************************************************************************)
(* Client: the goroutine of cancelRequest, for request q.                  *)
(***************************************************************************)
\* its end, with the deferred removePendingLocked
CancelEnds(q) ==
    /\ cancel' = [cancel EXCEPT ![q] = "end"]
    /\ pending' = Removed(OperationOf(q))
    /\ pendingCount' = CountRemoved(OperationOf(q))

CancelGivesUp(q) ==
    /\ \/ ~Open("client") /\ cancel[q] \in {"wait", "cancel", "writing", "await"}
       \/ cancel[q] = "wait" /\ req[q].unsent
    /\ CancelEnds(q)
    /\ UNCHANGED <<id, req, operation, binding, routes, given>>
    /\ UNCHANGED <<state, protocolError, transport, server>>

\* its timer, a LeaseTTL after the cancellation
CancelTimer(q) ==
    /\ cancel[q] \in {"wait", "await"}
    /\ CancelEnds(q)
    /\ UNCHANGED <<id, req, operation, binding, routes, given>>
    /\ UNCHANGED <<state, protocolError, transport, server>>

CancelSend(q) ==
    /\ Open("client") /\ cancel[q] = "cancel"
    /\ cancel' = [cancel EXCEPT ![q] = "writing"]
    /\ out' = Queued("client", Message("cancel", q, "ok", FALSE))
    /\ UNCHANGED <<id, req, pending, pendingCount, operation, binding, routes, given>>
    /\ UNCHANGED <<state, protocolError, wire, server>>

\* the request discardReply makes for what came too late, if any
Cleanup(q, reply) ==
    CASE reply.code = "ok" /\ q = Bind -> Close
      [] reply.code = "ok" /\ q[1] = "call" -> Decision(q[2])
      [] OTHER -> <<>>

CancelReply(q) ==
    LET reply == Head(req[q].response)
        cleanup == Cleanup(q, reply)
    IN  /\ cancel[q] = "await" /\ req[q].response # <<>>
        /\ IF reply.kind = "accepted"
           THEN /\ req' = [req EXCEPT ![q].response = Tail(@)]
                /\ UNCHANGED <<cancel, pending, pendingCount>>
           ELSE /\ pending' = Removed(OperationOf(q))
                /\ pendingCount' = CountRemoved(OperationOf(q))
                /\ cancel' = [cancel EXCEPT ![q] = IF cleanup = <<>> THEN "end" ELSE "cleanup"]
                /\ req' = IF cleanup = <<>> THEN [req EXCEPT ![q].response = <<>>]
                                            ELSE [req EXCEPT ![q].response = <<>>, ![cleanup].pc = "start"]
        /\ UNCHANGED <<id, operation, binding, routes, given>>
        /\ UNCHANGED <<state, protocolError, transport, server>>

\* invalidateOutbound; RouteSet.disconnect
Disconnected == IF routes = "open" THEN "disconnect" ELSE routes

CancelCleaned(q) ==
    LET cleanup == IF q = Bind THEN Close ELSE Decision(q[2])
    IN  /\ cancel[q] = "cleanup" /\ req[cleanup].pc = "returned"
        /\ req' = [req EXCEPT ![cleanup].pc = "end"]
        /\ IF req[cleanup].outcome = "uncertain" /\ routes \notin {"none", "closed"}
           THEN binding' = "none" /\ routes' = Disconnected
           ELSE UNCHANGED <<binding, routes>>
        /\ CancelEnds(q)
        /\ UNCHANGED <<id, operation, given>>
        /\ UNCHANGED <<state, protocolError, transport, server>>

-----------------------------------------------------------------------------
(***************************************************************************)
(* Client: what follows a request, and the remote RouteSet.                *)
(***************************************************************************)
ContinueTo(q) == [req EXCEPT ![q].pc = "end"]

\* Bind publishes the binding and confirms its lease by a renewal of its own
BindReturns(confirmed) ==
    /\ req[Bind].pc = "returned"
    /\ confirmed => lease = "live" /\ Open("server")
    /\ req' = ContinueTo(Bind)
    /\ IF req[Bind].outcome = "ok" /\ Open("client")
       THEN /\ binding' = IF confirmed THEN "live" ELSE "none"
            /\ routes' = IF confirmed THEN "open" ELSE "disconnect"
       ELSE UNCHANGED <<binding, routes>>
    /\ UNCHANGED <<id, cancel, pending, pendingCount, operation, given>>
    /\ UNCHANGED <<state, protocolError, transport, server>>

\* the call closure of Bind and RouteSet.Call: a result that came after its
\* lease, or after the set began to close, is discarded at once; one whose values
\* DecodeValues refuses is left as it is
CallReturns(c) ==
    LET q == Call(c)
        offered == req[q].outcome = "ok" /\ scenario.decodes
        kept == operation[q] = "live" /\ routes = "open"
    IN  /\ req[q].pc = "returned"
        /\ given' = [given EXCEPT ![c] = IF offered /\ kept THEN "held" ELSE "failed"]
        /\ req' = IF offered /\ ~kept
                  THEN [req EXCEPT ![q].pc = "end", ![Decision(c)].pc = "start"]
                  ELSE ContinueTo(q)
        /\ UNCHANGED <<id, cancel, pending, pendingCount, operation, binding, routes>>
        /\ UNCHANGED <<state, protocolError, transport, server>>

\* Result.Accept or Discard of the caller
Decide(c, accept) ==
    /\ given[c] = "held"
    /\ given' = [given EXCEPT ![c] = "deciding"]
    /\ req' = Deciding(c, accept)
    /\ UNCHANGED <<id, cancel, pending, pendingCount, operation, binding, routes>>
    /\ UNCHANGED <<state, protocolError, transport, server>>

\* the accept closure
DecisionReturns(c) ==
    LET q == Decision(c)
        code == req[q].outcome
    IN  /\ req[q].pc = "returned" /\ cancel[Call(c)] # "cleanup"
        /\ req' = ContinueTo(q)
        /\ given' = [given EXCEPT ![c] =
                IF @ = "failed" \/ code # "ok" THEN "failed"
                ELSE IF req[q].accept THEN "accepted" ELSE "discarded"]
        /\ operation' = IF code = "ok" THEN [operation EXCEPT ![Call(c)] = "none"] ELSE operation
        /\ IF code = "uncertain"
           THEN binding' = "none" /\ routes' = Disconnected
           ELSE UNCHANGED <<binding, routes>>
        /\ UNCHANGED <<id, cancel, pending, pendingCount>>
        /\ UNCHANGED <<state, protocolError, transport, server>>

\* the drop and the close closure
ControlReturns(q) ==
    /\ q[1] \in {"drop", "close"} /\ req[q].pc = "returned" /\ cancel[Bind] # "cleanup"
    /\ req' = ContinueTo(q)
    /\ IF q = Close
       THEN binding' = "none" /\ routes' = "closed"
       ELSE IF req[q].outcome = "uncertain"
            THEN binding' = "none" /\ routes' = Disconnected
            ELSE UNCHANGED <<binding, routes>>
    /\ UNCHANGED <<id, cancel, pending, pendingCount, operation, given>>
    /\ UNCHANGED <<state, protocolError, transport, server>>

\* the program shuts the binding's RouteSet down
RoutesShutdown ==
    /\ Close \in scenario.asked /\ routes = "open"
    /\ routes' = "shutdown"
    /\ UNCHANGED <<id, req, cancel, pending, pendingCount, operation, binding, given>>
    /\ UNCHANGED <<state, protocolError, transport, server>>

\* finishCleanup: the contexts of the calls end, the calls and drops are joined,
\* the results nobody decided are discarded, and the peer is told, unless the
\* transport revoked the binding
Cleaning == routes \in {"shutdown", "disconnect"}
Busy(q) == req[q].pc \notin {"idle", "end"}
CallsDone ==
    \A c \in Calls : /\ ~Busy(Call(c)) /\ ~Busy(DropOf(c))
                     /\ given[c] # "deciding"
                     /\ Busy(Decision(c)) => cancel[Call(c)] = "cleanup"

RoutesCancel(c) ==
    /\ Cleaning
    /\ req[Call(c)].pc \in {"queued", "sent", "accepted"} /\ ~req[Call(c)].canceled
    /\ req' = [req EXCEPT ![Call(c)].canceled = TRUE]
    /\ UNCHANGED <<id, cancel, pending, pendingCount, operation, binding, routes, given>>
    /\ UNCHANGED <<state, protocolError, transport, server>>

RoutesDiscard(c) ==
    /\ Cleaning /\ CallsDone
    /\ given[c] = "held"
    /\ given' = [given EXCEPT ![c] = "deciding"]
    /\ req' = Deciding(c, FALSE)
    /\ UNCHANGED <<id, cancel, pending, pendingCount, operation, binding, routes>>
    /\ UNCHANGED <<state, protocolError, transport, server>>

RoutesFinish ==
    /\ Cleaning /\ CallsDone
    /\ \A c \in Calls : given[c] # "held"
    /\ IF routes = "shutdown"
       THEN routes' = "closing" /\ req' = Started(Close)
       ELSE routes' = "closed" /\ UNCHANGED req
    /\ UNCHANGED <<id, cancel, pending, pendingCount, operation, binding, given>>
    /\ UNCHANGED <<state, protocolError, transport, server>>

-----------------------------------------------------------------------------
(***************************************************************************)
(* Client: leases.                                                         *)
(***************************************************************************)
OperationLapse(o) ==
    /\ operation[o] = "live"
    /\ operation' = [operation EXCEPT ![o] = "lapsed"]
    /\ UNCHANGED <<id, req, cancel, pending, pendingCount, binding, routes, given>>
    /\ UNCHANGED <<state, protocolError, transport, server>>

BindingLapse ==
    /\ binding = "live"
    /\ binding' = "lapsed"
    /\ UNCHANGED <<id, req, cancel, pending, pendingCount, operation, routes, given>>
    /\ UNCHANGED <<state, protocolError, transport, server>>

Unavailable(q) == Message("done", q, "uncertain", FALSE)

\* a response channel has room for two frames; fail and expireLeases drop a third,
\* and readLoop blocks on it
Pushed(requests, q, f) ==
    [requests EXCEPT ![q].response = IF Len(@) < 2 THEN Append(@, f) ELSE @]

\* Mutant of ClientExpires: whoever waits for the operation is not told
ClientExpiresSilently ==
    LET over == {o \in Operations : operation[o] = "lapsed"}
        told == {o \in over : pending[o].request # <<>> /\ ~pending[o].terminal}
    IN  /\ Open("client") /\ (over # {} \/ binding = "lapsed")
        /\ operation' = [o \in Operations |-> IF o \in over THEN "none" ELSE operation[o]]
        /\ UNCHANGED req
        /\ pending' = [o \in Operations |-> IF o \in told THEN NoPending ELSE pending[o]]
        /\ pendingCount' = [lane \in Lanes |->
                pendingCount[lane] - Cardinality({o \in told : CountedAs(pending[o].request) = lane})]
        /\ IF binding = "lapsed" THEN binding' = "none" /\ routes' = Disconnected
                                 ELSE UNCHANGED <<binding, routes>>
        /\ UNCHANGED <<id, cancel, given>>
        /\ UNCHANGED <<state, protocolError, transport, server>>

\* expireLeases: whoever waits for an operation is told, and the RouteSet of the
\* binding disconnected
ClientExpires ==
    LET over == {o \in Operations : operation[o] = "lapsed"}
        told == {o \in over : pending[o].request # <<>> /\ ~pending[o].terminal}
    IN  /\ Open("client") /\ (over # {} \/ binding = "lapsed")
        /\ operation' = [o \in Operations |-> IF o \in over THEN "none" ELSE operation[o]]
        /\ req' = [q \in Requests |->
                     IF OperationOf(q) \in told /\ pending[OperationOf(q)].request = q
                     THEN Pushed(req, q, Unavailable(q))[q] ELSE req[q]]
        /\ pending' = [o \in Operations |-> IF o \in told THEN NoPending ELSE pending[o]]
        /\ pendingCount' = [lane \in Lanes |->
                pendingCount[lane] - Cardinality({o \in told : CountedAs(pending[o].request) = lane})]
        /\ IF binding = "lapsed" THEN binding' = "none" /\ routes' = Disconnected
                                 ELSE UNCHANGED <<binding, routes>>
        /\ UNCHANGED <<id, cancel, given>>
        /\ UNCHANGED <<state, protocolError, transport, server>>

-----------------------------------------------------------------------------
(***************************************************************************)
(* The transport: writeLoop, and the reader of the client.                 *)
(***************************************************************************)
\* A request whose context has ended is not sent; one whose context ends while it is
\* being written fails the connection.  completeWrite starts the lease of an
\* operation nobody has abandoned.
WriteClient(lane) ==
    LET f == Head(out["client"][lane])
        o == OperationOf(f.of)
        skipped == f.kind # "cancel" /\ req[f.of].canceled
    IN  /\ Open("client") /\ out["client"][lane] # <<>>
        /\ out' = [out EXCEPT !["client"][lane] = Tail(@)]
        /\ wire' = IF skipped THEN wire ELSE [wire EXCEPT !["client"] = Append(@, f)]
        /\ IF f.kind = "cancel"
           THEN /\ cancel' = [cancel EXCEPT ![f.of] = IF @ = "writing" THEN "await" ELSE @]
                /\ UNCHANGED <<req, operation>>
           ELSE /\ req' = IF skipped THEN [req EXCEPT ![f.of].unsent = TRUE]
                                     ELSE [req EXCEPT ![f.of].pc = IF @ = "queued" THEN "sent" ELSE @]
                /\ operation' = IF ~skipped /\ f.of = o /\ pending[o].request # <<>> /\ ~pending[o].abandoned
                                THEN [operation EXCEPT ![o] = "live"] ELSE operation
                /\ UNCHANGED cancel
        /\ UNCHANGED <<id, pending, pendingCount, binding, routes, given>>
        /\ UNCHANGED <<state, protocolError, server>>

\* dispatch goes on when its reply is on the wire
WriteServer(lane) ==
    LET f == Head(out["server"][lane])
        pc == disp[f.of].pc
    IN  /\ Open("server") /\ out["server"][lane] # <<>>
        /\ out' = [out EXCEPT !["server"][lane] = Tail(@)]
        /\ wire' = [wire EXCEPT !["server"] = Append(@, f)]
        /\ disp' = [disp EXCEPT ![f.of].pc =
                CASE pc = "admit" -> "run"
                  [] pc = "reply" -> "finish"
                  [] OTHER -> pc]
        /\ UNCHANGED <<peerID, active, activeCount, reserved, held, entry, lease, served, fate>>
        /\ UNCHANGED <<state, protocolError, client>>

\* whether a reply fits the state of the operation it names
Fits(f, p) ==
    /\ ~p.terminal
    /\ \/ f.kind = "accepted" /\ ~p.accepted
       \/ f.kind = "offer" /\ p.request[1] = "call"
       \/ f.kind = "done" /\ (p.request[1] = "call" => f.code # "ok")
    /\ p.request = Bind /\ f.kind = "done" /\ f.code = "ok" => routes = "none"

\* readLoop of the client: a reply nobody waits for is dropped
ReadClient ==
    LET f == Head(wire["server"])
        o == OperationOf(f.of)
        p == pending[o]
    IN  /\ Open("client") /\ wire["server"] # <<>>
        /\ wire' = [wire EXCEPT !["server"] = Tail(@)]
        /\ IF p.request = <<>>
           THEN UNCHANGED <<req, pending, protocolError>>
           ELSE /\ Len(req[p.request].response) < 2
                /\ protocolError' = (protocolError \/ ~Fits(f, p))
                /\ pending' = [pending EXCEPT ![o].accepted = @ \/ f.kind = "accepted",
                                              ![o].terminal = @ \/ f.kind # "accepted"]
                /\ req' = Pushed(req, p.request, f)
        /\ UNCHANGED <<id, cancel, pendingCount, operation, binding, routes, given>>
        /\ UNCHANGED <<state, out, server>>

-----------------------------------------------------------------------------
(***************************************************************************)
(* Server: readLoop.                                                       *)
(***************************************************************************)
Entries == {c \in Calls : entry[c].present}

\* the checks on the identifier of a request
IdentifierFits(f) ==
    LET o == OperationOf(f.of)
    IN  IF f.kind = "decision" THEN id[o] <= peerID /\ active[o] = <<>> ELSE id[o] > peerID

Overloaded(q) ==
    \/ activeCount[CountedAs(q)] >= PendingLimit(q)
    \/ q[1] = "call" /\ Cardinality(Entries) + reserved.results >= MaxPendingResults

ReplyKind(q) == IF q[1] = "call" THEN "offer" ELSE "done"

ReadCancel ==
    LET q == Head(wire["client"]).of
        o == OperationOf(q)
    IN  /\ Open("server") /\ wire["client"] # <<>> /\ Head(wire["client"]).kind = "cancel"
        /\ wire' = [wire EXCEPT !["client"] = Tail(@)]
        /\ entry' = IF o[1] = "call" /\ entry[o[2]].deciding
                    THEN [entry EXCEPT ![o[2]].retiring = "canceled"] ELSE entry
        /\ disp' = IF active[o] # <<>> THEN [disp EXCEPT ![active[o]].canceled = TRUE] ELSE disp
        /\ UNCHANGED <<peerID, active, activeCount, reserved, held, lease, served, fate>>
        /\ UNCHANGED <<state, protocolError, out, client>>

\* Mutant of Admit: dispatch does not wait until ACCEPTED is written
AdmitAtOnce(f) ==
    LET q == f.of
        o == OperationOf(q)
    IN  /\ active' = [active EXCEPT ![o] = q]
        /\ activeCount' = Count(activeCount, q, "up")
        /\ reserved' = [inbound |-> reserved.inbound + (IF q = Bind THEN 1 ELSE 0),
                        results |-> reserved.results + (IF q[1] = "call" THEN 1 ELSE 0)]
        /\ held' = IF q = o THEN [held EXCEPT ![o] = "live"] ELSE held
        /\ disp' = [disp EXCEPT ![q] = [NoDispatch EXCEPT !.pc = "run", !.accept = f.accept,
                                                          !.holds = q = Bind \/ q[1] = "call"]]
        /\ out' = Queued("server", Message("accepted", q, "ok", FALSE))

\* an admitted request is dispatched, and dispatch first writes ACCEPTED
Admit(f) ==
    LET q == f.of
        o == OperationOf(q)
    IN  /\ active' = [active EXCEPT ![o] = q]
        /\ activeCount' = Count(activeCount, q, "up")
        /\ reserved' = [inbound |-> reserved.inbound + (IF q = Bind THEN 1 ELSE 0),
                        results |-> reserved.results + (IF q[1] = "call" THEN 1 ELSE 0)]
        /\ held' = IF q = o THEN [held EXCEPT ![o] = "live"] ELSE held
        /\ disp' = [disp EXCEPT ![q] = [NoDispatch EXCEPT !.pc = "admit", !.accept = f.accept,
                                                          !.holds = q = Bind \/ q[1] = "call"]]
        /\ out' = Queued("server", Message("accepted", q, "ok", FALSE))

ReadRequest ==
    LET f == Head(wire["client"])
        q == f.of
    IN  /\ Open("server") /\ wire["client"] # <<>> /\ f.kind # "cancel"
        /\ wire' = [wire EXCEPT !["client"] = Tail(@)]
        /\ peerID' = IF f.kind = "decision" \/ ~IdentifierFits(f) THEN peerID ELSE id[q]
        /\ IF f.kind = "decision" /\ entry[q[2]].deciding
           THEN UNCHANGED <<protocolError, out, active, activeCount, reserved, held, disp>>
           ELSE \/ /\ ~IdentifierFits(f)
                   /\ protocolError' = TRUE
                   /\ UNCHANGED <<out, active, activeCount, reserved, held, disp>>
                \/ /\ IdentifierFits(f) /\ Overloaded(q)
                   /\ out' = Queued("server", Message(ReplyKind(q), q, "definite", FALSE))
                   /\ UNCHANGED <<protocolError, active, activeCount, reserved, held, disp>>
                \/ /\ IdentifierFits(f) /\ ~Overloaded(q)
                   /\ Admit(f)
                   /\ UNCHANGED protocolError
        /\ UNCHANGED <<entry, lease, served, fate>>
        /\ UNCHANGED <<state, client>>

-----------------------------------------------------------------------------
(***************************************************************************)
(* Server: dispatch.                                                       *)
(***************************************************************************)
\* the reply is queued; without a connection nobody waits for it.  The
\* reservation is given back before it, or at the end.
Reply(q, code, release) ==
    /\ disp' = [disp EXCEPT ![q].pc = "reply", ![q].code = code, ![q].holds = @ /\ ~release]
    /\ out' = IF Open("server") THEN Queued("server", Message(ReplyKind(q), q, code, FALSE)) ELSE out

Unreserved(q) ==
    IF ~disp[q].holds THEN reserved
    ELSE IF q = Bind THEN [reserved EXCEPT !.inbound = @ - 1] ELSE [reserved EXCEPT !.results = @ - 1]

RoutesFound == served.inbound /\ lease = "live"

\* Binder.Bind returned; the binding is registered unless the request is over
DispatchBind(ok) ==
    LET registered == ok /\ Open("server") /\ active[Bind] # <<>> /\ ~disp[Bind].canceled
    IN  /\ disp[Bind].pc = "run"
        /\ reserved' = Unreserved(Bind)
        /\ IF registered
           THEN /\ served' = [routes |-> "open", inbound |-> TRUE]
                /\ lease' = "live"
                /\ Reply(Bind, "ok", TRUE)
           ELSE /\ Reply(Bind, IF ok THEN "uncertain" ELSE "definite", TRUE)
                /\ UNCHANGED <<served, lease>>
        /\ UNCHANGED <<peerID, active, activeCount, held, entry, fate>>
        /\ UNCHANGED <<state, protocolError, wire, client>>

DispatchCall(c) ==
    LET q == Call(c)
    IN  /\ disp[q].pc = "run"
        /\ IF ~RoutesFound THEN Reply(q, "definite", FALSE) /\ UNCHANGED reserved
           ELSE IF served.routes # "open"
                THEN Reply(q, "uncertain", TRUE) /\ reserved' = Unreserved(q)
                ELSE disp' = [disp EXCEPT ![q].pc = "handler"] /\ UNCHANGED <<out, reserved>>
        /\ UNCHANGED <<peerID, active, activeCount, held, entry, lease, served, fate>>
        /\ UNCHANGED <<state, protocolError, wire, client>>

HandlerReturns(c, code) ==
    LET q == Call(c)
    IN  /\ disp[q].pc = "handler"
        /\ IF code = "ok"
           THEN /\ disp' = [disp EXCEPT ![q].pc = "offer"]
                /\ fate' = [fate EXCEPT ![c] = "undecided"]
                /\ UNCHANGED <<out, reserved>>
           ELSE Reply(q, code, TRUE) /\ reserved' = Unreserved(q) /\ UNCHANGED fate
        /\ UNCHANGED <<peerID, active, activeCount, held, entry, lease, served>>
        /\ UNCHANGED <<state, protocolError, wire, client>>

\* Result.Discard, and finishForShutdown of a result nobody decided
Discarded(c) == [fate EXCEPT ![c] = IF @ = "undecided" THEN "discarded" ELSE @]

\* finish(): whatever is active under the identifier of the request is over
Finished(o) == [active EXCEPT ![o] = <<>>]
CountFinished(o) == IF active[o] = <<>> THEN activeCount ELSE Count(activeCount, active[o], "down")

\* Mutant of Offer: reserved is not cleared after the decrement
OfferReleasesTwice(c) ==
    LET q == Call(c)
        offered == /\ Open("server") /\ active[q] # <<>> /\ ~disp[q].canceled
                   /\ served.inbound /\ held[q] = "live"
    IN  /\ disp[q].pc = "offer"
        /\ reserved' = Unreserved(q)
        /\ IF offered
           THEN /\ entry' = [entry EXCEPT ![c] = [NoEntry EXCEPT !.present = TRUE]]
                /\ active' = Finished(q)
                /\ activeCount' = CountFinished(q)
                /\ disp' = [disp EXCEPT ![q].pc = "reply", ![q].finished = TRUE]
                /\ out' = Queued("server", Message("offer", q, "ok", FALSE))
                /\ UNCHANGED fate
           ELSE /\ fate' = Discarded(c)
                /\ Reply(q, "uncertain", TRUE)
                /\ UNCHANGED <<entry, active, activeCount>>
        /\ UNCHANGED <<peerID, held, lease, served>>
        /\ UNCHANGED <<state, protocolError, wire, client>>

\* the result becomes the operation's, and the execution of the call is over
Offer(c) ==
    LET q == Call(c)
        offered == /\ Open("server") /\ active[q] # <<>> /\ ~disp[q].canceled
                   /\ served.inbound /\ held[q] = "live"
    IN  /\ disp[q].pc = "offer"
        /\ reserved' = Unreserved(q)
        /\ IF offered
           THEN /\ entry' = [entry EXCEPT ![c] = [NoEntry EXCEPT !.present = TRUE]]
                /\ active' = Finished(q)
                /\ activeCount' = CountFinished(q)
                /\ disp' = [disp EXCEPT ![q].pc = "reply", ![q].holds = FALSE, ![q].finished = TRUE]
                /\ out' = Queued("server", Message("offer", q, "ok", FALSE))
                /\ UNCHANGED fate
           ELSE /\ fate' = Discarded(c)
                /\ Reply(q, "uncertain", TRUE)
                /\ UNCHANGED <<entry, active, activeCount>>
        /\ UNCHANGED <<peerID, held, lease, served>>
        /\ UNCHANGED <<state, protocolError, wire, client>>

DispatchDecision(c) ==
    LET q == Decision(c)
    IN  /\ disp[q].pc = "run"
        /\ IF entry[c].present /\ entry[c].retiring = "no" /\ held[Call(c)] = "live"
           THEN /\ entry' = [entry EXCEPT ![c].deciding = TRUE]
                /\ disp' = [disp EXCEPT ![q].pc = "deciding"]
                /\ UNCHANGED out
           ELSE Reply(q, "definite", TRUE) /\ UNCHANGED entry
        /\ UNCHANGED <<peerID, active, activeCount, reserved, held, lease, served, fate>>
        /\ UNCHANGED <<state, protocolError, wire, client>>

\* Result.Accept or Discard returns; a failed Accept has released the result, and
\* one that comes after the cleanup's discard is refused
DecisionApplies(c, code) ==
    LET q == Decision(c)
    IN  /\ disp[q].pc = "deciding"
        /\ IF fate[c] = "undecided"
           THEN /\ code \in scenario.answers
                /\ fate' = [fate EXCEPT ![c] = IF disp[q].accept /\ code = "ok" THEN "accepted" ELSE "discarded"]
                /\ disp' = [disp EXCEPT ![q].pc = "decided", ![q].code = code]
           ELSE /\ code = (IF disp[q].accept THEN "definite" ELSE "ok")
                /\ disp' = [disp EXCEPT ![q].pc = "decided", ![q].code = code]
                /\ UNCHANGED fate
        /\ UNCHANGED <<peerID, active, activeCount, reserved, held, entry, lease, served>>
        /\ UNCHANGED <<state, protocolError, transport, client>>

\* Mutant of DecisionChecks: the error of the decision is not put into the reply
DecisionChecksSilently(c) ==
    LET q == Decision(c)
        abandoned == ~entry[c].present \/ entry[c].retiring # "no" \/ held[Call(c)] # "live"
    IN  /\ disp[q].pc = "decided"
        /\ fate' = IF disp[q].accept /\ disp[q].code = "ok" /\ abandoned
                   THEN [fate EXCEPT ![c] = "released"] ELSE fate
        /\ Reply(q, "ok", TRUE)
        /\ UNCHANGED <<peerID, active, activeCount, reserved, held, entry, lease, served>>
        /\ UNCHANGED <<state, protocolError, wire, client>>

\* an acceptance that was retired meanwhile is taken back; then the reply
DecisionChecks(c) ==
    LET q == Decision(c)
        abandoned == ~entry[c].present \/ entry[c].retiring # "no" \/ held[Call(c)] # "live"
    IN  /\ disp[q].pc = "decided"
        /\ fate' = IF disp[q].accept /\ disp[q].code = "ok" /\ abandoned
                   THEN [fate EXCEPT ![c] = "released"] ELSE fate
        /\ Reply(q, disp[q].code, TRUE)
        /\ UNCHANGED <<peerID, active, activeCount, reserved, held, entry, lease, served>>
        /\ UNCHANGED <<state, protocolError, wire, client>>

DispatchDrop(c, code) ==
    LET q == DropOf(c)
    IN  /\ disp[q].pc = "run"
        /\ IF ~RoutesFound \/ fate[c] # "accepted" THEN code = "definite"
           ELSE IF served.routes # "open" THEN code = "uncertain"
           ELSE code \in scenario.answers
        /\ fate' = IF code = "ok" THEN [fate EXCEPT ![c] = "released"] ELSE fate
        /\ Reply(q, code, TRUE)
        /\ UNCHANGED <<peerID, active, activeCount, reserved, held, entry, lease, served>>
        /\ UNCHANGED <<state, protocolError, wire, client>>

Aborting == IF served.routes = "open" THEN [served EXCEPT !.routes = "aborting"] ELSE served

\* the binding loses its lease and its results retire, before Abort
DispatchClose ==
    /\ disp[Close].pc = "run"
    /\ lease' = "none"
    /\ held' = [o \in Operations |-> IF o \in {Call(c) : c \in Entries} THEN "none" ELSE held[o]]
    /\ entry' = [c \in Calls |-> IF c \in Entries THEN [entry[c] EXCEPT !.retiring = "closed"] ELSE entry[c]]
    /\ served' = IF served.inbound THEN Aborting ELSE served
    /\ disp' = [disp EXCEPT ![Close].pc = "abort"]
    /\ UNCHANGED <<peerID, active, activeCount, reserved, fate>>
    /\ UNCHANGED <<state, protocolError, transport, client>>

CloseAborted ==
    /\ disp[Close].pc = "abort"
    /\ served.routes \in {"none", "aborted"}
    /\ served' = [served EXCEPT !.inbound = FALSE]
    /\ entry' = [c \in Calls |-> IF c \in Entries /\ ~entry[c].deciding THEN NoEntry ELSE entry[c]]
    /\ Reply(Close, "ok", TRUE)
    /\ UNCHANGED <<peerID, active, activeCount, reserved, held, lease, fate>>
    /\ UNCHANGED <<state, protocolError, wire, client>>

\* without a connection dispatch does not wait for its writes
DispatchStopped(q) ==
    /\ ~Open("server")
    /\ disp[q].pc \in {"admit", "reply"}
    /\ disp' = [disp EXCEPT ![q].pc = "finish"]
    /\ UNCHANGED <<peerID, active, activeCount, reserved, held, entry, lease, served, fate>>
    /\ UNCHANGED <<state, protocolError, transport, client>>

\* a result that was decided goes; then the deferred finish, which the offer of a
\* call has run already, and releaseReservation
DispatchFinish(q) ==
    LET o == OperationOf(q)
        decided == q[1] = "decision" /\ entry[q[2]].deciding
        kept == o[1] = "call" /\ entry[o[2]].present /\ ~decided
    IN  /\ disp[q].pc = "finish"
        /\ disp' = [disp EXCEPT ![q].pc = "end", ![q].holds = FALSE]
        /\ reserved' = Unreserved(q)
        /\ entry' = IF decided THEN [entry EXCEPT ![q[2]] = NoEntry] ELSE entry
        /\ IF disp[q].finished
           THEN UNCHANGED <<active, activeCount, held>>
           ELSE /\ active' = Finished(o)
                /\ activeCount' = CountFinished(o)
                /\ held' = IF kept THEN held ELSE [held EXCEPT ![o] = "none"]
        /\ UNCHANGED <<peerID, lease, served, fate>>
        /\ UNCHANGED <<state, protocolError, transport, client>>

-----------------------------------------------------------------------------
(***************************************************************************)
(* Server: leases, and the end of the binding's RouteSet.                  *)
(***************************************************************************)
\* RouteSet.Abort: the handlers return, what is undecided is discarded, and what
\* was accepted is closed
RoutesAborted ==
    /\ served.routes = "aborting"
    /\ \A c \in Calls : disp[Call(c)].pc # "handler" /\ disp[Decision(c)].pc # "deciding"
    /\ served' = [routes |-> "aborted", inbound |-> served.inbound /\ disp[Close].pc = "abort"]
    /\ fate' = [c \in Calls |-> CASE fate[c] = "undecided" -> "discarded"
                                  [] fate[c] = "accepted" -> "released"
                                  [] OTHER -> fate[c]]
    /\ UNCHANGED <<peerID, active, activeCount, reserved, disp, held, entry, lease>>
    /\ UNCHANGED <<state, protocolError, transport, client>>

\* the lease of an operation matters until its reply, and that of a call as long as
\* its result is there
HeldLapse(o) ==
    /\ held[o] = "live" /\ operation[o] # "live"
    /\ o = Bind \/ o[1] = "call"
    /\ disp[o].pc \in {"admit", "run", "handler", "offer"} \/ (o # Bind /\ entry[o[2]].present)
    /\ held' = [held EXCEPT ![o] = "lapsed"]
    /\ UNCHANGED <<peerID, active, activeCount, reserved, disp, entry, lease, served, fate>>
    /\ UNCHANGED <<state, protocolError, transport, client>>

LeaseLapse ==
    /\ lease = "live" /\ binding # "live"
    /\ lease' = "lapsed"
    /\ UNCHANGED <<peerID, active, activeCount, reserved, disp, held, entry, served, fate>>
    /\ UNCHANGED <<state, protocolError, transport, client>>

\* Mutant of ServerExpires: results retire with their binding only
ServerExpiresBindings ==
    LET gone == lease = "lapsed"
        over == {o \in Operations : held[o] = "lapsed" \/ (gone /\ o # Bind /\ active[o] # <<>>)}
        retire == {c \in Entries : entry[c].retiring = "no" /\ lease # "live"}
    IN  /\ Open("server") /\ (gone \/ over # {} \/ retire # {})
        /\ lease' = IF gone THEN "none" ELSE lease
        /\ held' = [o \in Operations |-> IF o \in over THEN "none" ELSE held[o]]
        /\ disp' = [q \in Requests |->
                      IF OperationOf(q) \in over /\ active[OperationOf(q)] = q
                      THEN [disp[q] EXCEPT !.canceled = TRUE] ELSE disp[q]]
        /\ entry' = [c \in Calls |->
                       IF c \in retire
                       THEN [entry[c] EXCEPT !.retiring = IF entry[c].deciding THEN "late" ELSE "expired"]
                       ELSE entry[c]]
        /\ served' = IF gone /\ served.inbound THEN Aborting ELSE served
        /\ UNCHANGED <<peerID, active, activeCount, reserved, fate>>
        /\ UNCHANGED <<state, protocolError, transport, client>>

\* expireLeases: operations are cancelled, with the binding all of its own, and
\* results without a lease or a binding retire
ServerExpires ==
    LET gone == lease = "lapsed"
        over == {o \in Operations : held[o] = "lapsed" \/ (gone /\ o # Bind /\ active[o] # <<>>)}
        retire == {c \in Entries : /\ entry[c].retiring = "no"
                                   /\ lease # "live" \/ Call(c) \in over \/ held[Call(c)] = "none"}
    IN  /\ Open("server") /\ (gone \/ over # {} \/ retire # {})
        /\ lease' = IF gone THEN "none" ELSE lease
        /\ held' = [o \in Operations |-> IF o \in over THEN "none" ELSE held[o]]
        /\ disp' = [q \in Requests |->
                      IF OperationOf(q) \in over /\ active[OperationOf(q)] = q
                      THEN [disp[q] EXCEPT !.canceled = TRUE] ELSE disp[q]]
        /\ entry' = [c \in Calls |->
                       IF c \in retire
                       THEN [entry[c] EXCEPT !.retiring = IF entry[c].deciding THEN "late" ELSE "expired"]
                       ELSE entry[c]]
        /\ served' = IF gone /\ served.inbound THEN Aborting ELSE served
        /\ UNCHANGED <<peerID, active, activeCount, reserved, fate>>
        /\ UNCHANGED <<state, protocolError, transport, client>>

\* the goroutine that discards an expired result
EntryRetired(c) ==
    /\ c \in Entries /\ entry[c].retiring = "expired"
    /\ fate' = Discarded(c)
    /\ entry' = [entry EXCEPT ![c] = NoEntry]
    /\ held' = [held EXCEPT ![Call(c)] = "none"]
    /\ UNCHANGED <<peerID, active, activeCount, reserved, disp, lease, served>>
    /\ UNCHANGED <<state, protocolError, transport, client>>

-----------------------------------------------------------------------------
(***************************************************************************)
(* fail() and its coordinator.                                             *)
(***************************************************************************)
FailClient ==
    /\ state' = [state EXCEPT !["client"] = "closing"]
    /\ out' = [out EXCEPT !["client"] = [lane \in Lanes |-> <<>>]]
    /\ req' = [q \in Requests |->
                 IF pending[OperationOf(q)].request = q THEN Pushed(req, q, Unavailable(q))[q] ELSE req[q]]
    /\ pending' = [o \in Operations |-> NoPending]
    /\ pendingCount' = [lane \in Lanes |-> 0]
    /\ operation' = [o \in Operations |-> "none"]
    /\ binding' = "none"
    /\ routes' = Disconnected
    /\ UNCHANGED <<protocolError, wire, id, cancel, given, server>>

FailServer ==
    /\ state' = [state EXCEPT !["server"] = "closing"]
    /\ out' = [out EXCEPT !["server"] = [lane \in Lanes |-> <<>>]]
    /\ disp' = [q \in Requests |->
                  IF active[OperationOf(q)] = q THEN [disp[q] EXCEPT !.canceled = TRUE] ELSE disp[q]]
    /\ active' = [o \in Operations |-> <<>>]
    /\ activeCount' = [lane \in Lanes |-> 0]
    /\ held' = [o \in Operations |-> "none"]
    /\ entry' = [c \in Calls |-> NoEntry]
    /\ lease' = "none"
    /\ served' = [Aborting EXCEPT !.inbound = FALSE]
    /\ UNCHANGED <<protocolError, wire, peerID, reserved, fate, client>>

Fail(side) == Open(side) /\ IF side = "client" THEN FailClient ELSE FailServer

\* the peer's end of the connection is closed, or the peer broke the protocol
ConnectionLost(side) == (state[Peer(side)] # "open" \/ protocolError) /\ Fail(side)

\* the dispatches, the goroutines of cancelRequest and the RouteSet are joined
ShutdownEnds(side) ==
    /\ state[side] = "closing"
    /\ IF side = "client"
       THEN /\ \A q \in Requests : cancel[q] \in {"none", "end"}
            /\ routes \in {"none", "closed"}
       ELSE /\ \A q \in Requests : disp[q].pc \in {"idle", "end"}
            /\ served.routes \in {"none", "aborted"}
    /\ state' = [state EXCEPT ![side] = "closed"]
    /\ UNCHANGED <<protocolError, transport, client, server>>

-----------------------------------------------------------------------------
RequestStep(q) ==
    \/ EnqueueRequest(q) \/ RequestUnsent(q) \/ RequestReply(q)
    \/ req[q].canceled /\ CancelRequest(q)
    \/ CancelGivesUp(q) \/ CancelSend(q) \/ CancelReply(q) \/ CancelCleaned(q)
    \/ ControlReturns(q)

ClientStep ==
    \/ \E q \in Requests : RequestStep(q)
    \/ \E confirmed \in BOOLEAN : BindReturns(confirmed)
    \/ \E c \in Calls : \/ CallReturns(c) \/ DecisionReturns(c) \/ RoutesCancel(c) \/ RoutesDiscard(c)
                        \/ \E accept \in BOOLEAN : Decide(c, accept)
    \/ RoutesFinish
    \/ ClientExpires

TransportStep ==
    \/ \E lane \in Lanes : WriteClient(lane) \/ WriteServer(lane)
    \/ ReadClient \/ ReadCancel \/ ReadRequest
    \/ \E side \in Sides : ConnectionLost(side) \/ ShutdownEnds(side)

DispatchStep ==
    \/ \E ok \in BOOLEAN : DispatchBind(ok)
    \/ \E c \in Calls : \/ DispatchCall(c) \/ Offer(c)
                        \/ DispatchDecision(c) \/ DecisionChecks(c)
                        \/ \E code \in scenario.answers : HandlerReturns(c, code)
                        \/ \E code \in Codes : DecisionApplies(c, code) \/ DispatchDrop(c, code)
    \/ DispatchClose \/ CloseAborted
    \/ \E q \in Requests : DispatchStopped(q) \/ DispatchFinish(q)

LeaseStep ==
    \/ RoutesAborted \/ LeaseLapse \/ ServerExpires
    \/ \E o \in Operations : HeldLapse(o)
    \/ \E c \in Calls : EntryRetired(c)

\* what goes on by itself
Progress == ClientStep \/ TransportStep \/ DispatchStep \/ LeaseStep

\* what the program asks for
Request == (\E q \in Requests : Ask(q)) \/ RoutesShutdown

\* what the clock and the network may do
Fault ==
    \/ \E q \in Requests : ContextEnds(q) \/ CancelRequest(q) \/ CancelTimer(q)
    \/ \E o \in Operations : OperationLapse(o)
    \/ BindingLapse
    \/ \E side \in Sides : Fail(side)

Next ==
    /\ UNCHANGED scenario
    /\ \/ (Progress \/ Request) /\ UNCHANGED faults
       \/ faults < scenario.faults /\ Fault /\ faults' = faults + 1

\* Writers, readers, handlers, providers and the lease maintenance go on, and a
\* caller decides the result it got; nothing is assumed of timeouts,
\* cancellations and renewals.
Spec == Init /\ [][Next]_vars /\ WF_vars(Progress /\ UNCHANGED <<faults, scenario>>)

-----------------------------------------------------------------------------
(***************************************************************************)
(* Properties.                                                             *)
(***************************************************************************)
\* Two endpoints that follow the code never take each other for violators of the
\* protocol, whatever is cancelled, late or overtaken on the control lane
\* (readLoop's "rpc reply does not match operation state", "rpc request id is not
\* strictly increasing", "rpc operation is already active").
PeersAgree == ~protocolError

\* What a caller was told of its decision is what the provider applied: after an
\* Accept that returned nil the result has been accepted (and perhaps released
\* since: dropped, or taken back with its lease or its binding), never discarded,
\* and after a Discard it was never accepted, although cancellation, expiry, the
\* close of the binding and the decision itself race for it (decision case of
\* dispatch, expireLeases, Result.decide).
DecisionsAgree ==
    \A c \in Calls : /\ given[c] = "accepted" => fate[c] \in {"accepted", "released"}
                     /\ given[c] = "discarded" => fate[c] = "discarded"

\* The counters that bound an endpoint agree with the tables they count, and a
\* reservation is given back exactly once, although a call and its decision
\* share an identifier (finish and releaseReservation of dispatch,
\* removePendingLocked): nothing leaks and no limit is passed.
CountersAgree ==
    /\ \A lane \in Lanes :
         /\ pendingCount[lane] = Cardinality({o \in Operations :
                pending[o].request # <<>> /\ CountedAs(pending[o].request) = lane})
         /\ activeCount[lane] = Cardinality({o \in Operations :
                active[o] # <<>> /\ CountedAs(active[o]) = lane})
    /\ reserved.results = Cardinality({c \in Calls : disp[Call(c)].holds})
    /\ reserved.inbound = (IF disp[Bind].holds THEN 1 ELSE 0)
    /\ Open("server") => Cardinality(Entries) + reserved.results <= MaxPendingResults

\* A result is in nobody's hands: undecided, or accepted although the caller was
\* told that Accept failed.
Orphan(c) == fate[c] = "undecided" \/ (fate[c] = "accepted" /\ given[c] = "failed")

\* A result that the client decoded and whose decision it could send never stays
\* undecided, and is never accepted behind the back of a caller whose Accept
\* failed: a lost decision is made up for by the lease of the operation or of the
\* binding.  What it leaves out are the two ways to get no decision on its way
\* while the leases are renewed: values that DecodeValues refuses (endpoint.go:289),
\* and a decision refused at MaxPendingControls (endpoint_transport.go:220), which
\* takes more decisions at once than there are controls.  ResultsDecided has both.
ResultsSettle ==
    []<>(\A c \in Calls :
            Orphan(c) => ~scenario.decodes /\ fate[c] = "undecided" /\ binding = "live" /\ routes = "open")

\* "Exactly one of Accept or Discard is applied" (result.go:44), for every result.
ResultsDecided == []<>(\A c \in Calls : ~Orphan(c))

\* Every request returns to its caller, whatever is lost, and a failed endpoint
\* ends its dispatches, its cancellations and its bindings.
RequestsReturn ==
    []<>(/\ \A q \in Requests : ~Busy(q) /\ cancel[q] \in {"none", "end"}
         /\ \A side \in Sides : state[side] # "closing")
=============================================================================
