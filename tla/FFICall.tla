------------------------------- MODULE FFICall -------------------------------
(***************************************************************************)
(* The life of a pendingFFICall (src/runtime/ffi_call.go): the VM starts   *)
(* it, a host goroutine completes it at any moment from then on, and the   *)
(* VM takes its result or stops it.  The two sides share                   *)
(*   - the relay, behind relay.mu, which settle detaches,                  *)
(*   - the call, behind call.mu,                                           *)
(*   - the atomic counters pendingEvents and pendingBoundaryBytes          *)
(* and every section under a lock is a step of its own.  The VM side is    *)
(* one thread: the VM owner.                                               *)
(*                                                                         *)
(* Every result carries a Discard function.  A host reports at most once,  *)
(* and not at all when its Start fails (src/ffi/ffi.go).                   *)
(***************************************************************************)
EXTENDS Integers, FiniteSets

CONSTANTS
  Calls,             \* the FFI calls that may be made
  NoCall,
  Sizes,             \* bytes of a request or a response
  MaxBoundaryBytes,  \* limits.MaxBoundaryBytes
  MaxPendingEvents   \* limits.MaxPendingEvents

ASSUME CallsAssumption == IsFiniteSet(Calls) /\ NoCall \notin Calls
ASSUME SizesAssumption ==
  /\ Sizes \subseteq Nat
  /\ MaxBoundaryBytes \in Nat
  /\ MaxPendingEvents \in Nat \ {0}

VARIABLES
  state,      \* call.state, "new" before startFFICall, "refused" if it failed
  relay,      \* relay.pending # nil
  result,     \* call.result: the host's value, an error, or nothing
  bytes,      \* call.boundaryBytes
  host,       \* call.call, and whether its Cancel was called
  ffiCalls,   \* vm.ffiCalls
  events,     \* vm.pendingEvents
  boundary,   \* vm.pendingBoundaryBytes
  vmpc, cur,  \* where the VM is, and with which call
  held,       \* what settle took out of the call
  hpc,        \* where the host goroutine of each call is
  delivered,  \* calls whose value the guest received
  discards    \* how often each value's Discard ran

call  == <<state, result, bytes>>
quota == <<ffiCalls, events, boundary>>
fate  == <<delivered, discards>>
vars  == <<call, relay, host, quota, vmpc, cur, held, hpc, fate>>

Results == {"none", "empty", "value", "error"}   \* empty: a value without bytes
Values  == {"empty", "value"}

Held == [result : Results, bytes : Nat, next : {"consumed", "canceled"}, refused : BOOLEAN]
NothingHeld == [result |-> "none", bytes |-> 0, next |-> "canceled", refused |-> FALSE]

TypeOK ==
  /\ state \in [Calls -> {"new", "refused", "waiting", "ready", "consumed", "canceled"}]
  /\ relay \in [Calls -> BOOLEAN]
  /\ result \in [Calls -> Results]
  /\ bytes \in [Calls -> Nat]
  /\ host \in [Calls -> {"none", "established", "canceled"}]
  /\ ffiCalls \subseteq Calls
  /\ events \in Nat
  /\ boundary \in Nat
  /\ vmpc \in {"idle", "reserved", "starting", "settled", "detached"}
  /\ cur \in Calls \cup {NoCall}
  /\ held \in Held
  /\ hpc \in [Calls -> {"none", "working", "relayed", "discard", "fail", "signal", "done"}]
  /\ delivered \subseteq Calls
  /\ discards \in [Calls -> Nat]

Init ==
  /\ state = [c \in Calls |-> "new"]
  /\ relay = [c \in Calls |-> FALSE]
  /\ result = [c \in Calls |-> "none"]
  /\ bytes = [c \in Calls |-> 0]
  /\ host = [c \in Calls |-> "none"]
  /\ ffiCalls = {} /\ events = 0 /\ boundary = 0
  /\ vmpc = "idle" /\ cur = NoCall /\ held = NothingHeld
  /\ hpc = [c \in Calls |-> "none"]
  /\ delivered = {}
  /\ discards = [c \in Calls |-> 0]

-----------------------------------------------------------------------------
(* The VM starts a call                                                    *)

\* reserveBoundaryBytes fails.
BoundaryFull(n) == n > 0 /\ boundary > MaxBoundaryBytes - n

\* reservePendingEvent, or the error for a request that is too long or one
\* event too many.
StartReserve(c, n) ==
  /\ vmpc = "idle" /\ state[c] = "new"
  /\ IF n > MaxBoundaryBytes \/ events >= MaxPendingEvents
     THEN /\ state' = [state EXCEPT ![c] = "refused"]
          /\ UNCHANGED <<bytes, events, vmpc, cur>>
     ELSE /\ events' = events + 1
          /\ bytes' = [bytes EXCEPT ![c] = n]
          /\ vmpc' = "reserved" /\ cur' = c
          /\ UNCHANGED state
  /\ UNCHANGED <<result, relay, host, ffiCalls, boundary, held, hpc, fate>>

\* reserveBoundaryBytes for the request, or give the event back.
StartBoundary ==
  /\ vmpc = "reserved"
  /\ IF BoundaryFull(bytes[cur])
     THEN /\ events' = events - 1
          /\ state' = [state EXCEPT ![cur] = "refused"]
          /\ bytes' = [bytes EXCEPT ![cur] = 0]
          /\ vmpc' = "idle" /\ cur' = NoCall
          /\ UNCHANGED <<relay, ffiCalls, boundary, hpc>>
     ELSE /\ boundary' = boundary + bytes[cur]
          /\ state' = [state EXCEPT ![cur] = "waiting"]
          /\ relay' = [relay EXCEPT ![cur] = TRUE]
          /\ ffiCalls' = ffiCalls \cup {cur}
          /\ hpc' = [hpc EXCEPT ![cur] = "working"]     \* ffiSession.Start
          /\ vmpc' = "starting"
          /\ UNCHANGED <<bytes, events, cur>>
  /\ UNCHANGED <<result, host, held, fate>>

\* Start returns a call.  It is cancelled at once if it was stopped meanwhile.
StartReturn ==
  /\ vmpc = "starting"
  /\ host' = [host EXCEPT ![cur] = IF state[cur] = "canceled" THEN "canceled" ELSE "established"]
  /\ vmpc' = "idle" /\ cur' = NoCall
  /\ UNCHANGED <<call, relay, quota, held, hpc, fate>>

\* Start returns an error: no call was established, the VM completes it itself.
StartError ==
  /\ vmpc = "starting" /\ hpc[cur] = "working"
  /\ hpc' = [hpc EXCEPT ![cur] = "none"]
  /\ state' = [state EXCEPT ![cur] = "ready"]
  /\ result' = [result EXCEPT ![cur] = "error"]
  /\ vmpc' = "idle" /\ cur' = NoCall
  /\ UNCHANGED <<bytes, relay, host, quota, held, fate>>

-----------------------------------------------------------------------------
(* The VM takes a result or stops a call                                   *)

\* settle, the section under call.mu.
SettleLock(c, next, refused) ==
  /\ state' = [state EXCEPT ![c] = next]
  /\ held' = [result |-> result[c], bytes |-> bytes[c], next |-> next, refused |-> refused]
  /\ result' = [result EXCEPT ![c] = "none"]
  /\ bytes' = [bytes EXCEPT ![c] = 0]
  /\ vmpc' = "settled" /\ cur' = c

\* take.  The guest may have no memory left for the payload.
Take(c, refused) ==
  /\ vmpc = "idle" /\ state[c] = "ready"
  /\ refused => result[c] = "value"
  /\ SettleLock(c, "consumed", refused)
  /\ UNCHANGED <<relay, host, quota, hpc, fate>>

\* stop: the task, its scope or the instance is cancelled.
Stop(c) ==
  /\ vmpc = "idle" /\ c \in ffiCalls
  /\ state[c] \notin {"consumed", "canceled"}
  /\ SettleLock(c, "canceled", FALSE)
  /\ UNCHANGED <<relay, host, quota, hpc, fate>>

\* relay.detach
SettleDetach ==
  /\ vmpc = "settled"
  /\ relay' = [relay EXCEPT ![cur] = FALSE]
  /\ vmpc' = "detached"
  /\ UNCHANGED <<call, host, quota, cur, held, hpc, fate>>

\* Mutants of SettleFinish: the host call goes on after a stop, or a value the
\* guest has no memory for is discarded and delivered all the same.
SettleFinishQuietly ==
  LET lost == held.result \in Values /\ (held.next = "canceled" \/ held.refused)
  IN  /\ vmpc = "detached"
      /\ events' = events - 1
      /\ boundary' = boundary - held.bytes
      /\ ffiCalls' = ffiCalls \ {cur}
      /\ discards' = [discards EXCEPT ![cur] = IF lost THEN @ + 1 ELSE @]
      /\ delivered' = IF held.result \in Values /\ ~lost THEN delivered \cup {cur} ELSE delivered
      /\ vmpc' = "idle" /\ cur' = NoCall /\ held' = NothingHeld
      /\ UNCHANGED <<call, relay, host, hpc>>

SettleFinishRefused ==
  LET lost == held.result \in Values /\ (held.next = "canceled" \/ held.refused)
  IN  /\ vmpc = "detached"
      /\ events' = events - 1
      /\ boundary' = boundary - held.bytes
      /\ ffiCalls' = ffiCalls \ {cur}
      /\ host' = [host EXCEPT ![cur] =
                    IF held.next = "canceled" /\ @ = "established" THEN "canceled" ELSE @]
      /\ discards' = [discards EXCEPT ![cur] = IF lost THEN @ + 1 ELSE @]
      /\ delivered' = IF held.result \in Values /\ held.next = "consumed" THEN delivered \cup {cur} ELSE delivered
      /\ vmpc' = "idle" /\ cur' = NoCall /\ held' = NothingHeld
      /\ UNCHANGED <<call, relay, hpc>>

\* The quota is given back, the host call is cancelled, the value goes to the
\* guest or is discarded.
SettleFinish ==
  LET lost == held.result \in Values /\ (held.next = "canceled" \/ held.refused)
  IN  /\ vmpc = "detached"
      /\ events' = events - 1
      /\ boundary' = boundary - held.bytes
      /\ ffiCalls' = ffiCalls \ {cur}
      /\ host' = [host EXCEPT ![cur] =
                    IF held.next = "canceled" /\ @ = "established" THEN "canceled" ELSE @]
      /\ discards' = [discards EXCEPT ![cur] = IF lost THEN @ + 1 ELSE @]
      /\ delivered' = IF held.result \in Values /\ ~lost THEN delivered \cup {cur} ELSE delivered
      /\ vmpc' = "idle" /\ cur' = NoCall /\ held' = NothingHeld
      /\ UNCHANGED <<call, relay, hpc>>

-----------------------------------------------------------------------------
(* The host completes a call                                               *)

\* relay.complete reads the pending call, and discards if it is gone.
Relay(c) ==
  /\ hpc[c] = "working"
  /\ hpc' = [hpc EXCEPT ![c] = IF relay[c] THEN "relayed" ELSE "discard"]
  /\ UNCHANGED <<call, relay, host, quota, vmpc, cur, held, fate>>

\* Mutants of Complete: a late result is dropped, the bytes of a response are
\* not remembered in the call, or an error keeps its Discard.
CompleteDropsLate(c, n, failed) ==
  /\ hpc[c] = "relayed"
  /\ IF state[c] # "waiting"
     THEN hpc' = [hpc EXCEPT ![c] = "done"] /\ UNCHANGED call
     ELSE /\ state' = [state EXCEPT ![c] = "ready"]
          /\ result' = [result EXCEPT ![c] = "error"]
          /\ hpc' = [hpc EXCEPT ![c] = "fail"]
          /\ UNCHANGED bytes
  /\ UNCHANGED <<relay, host, quota, vmpc, cur, held, fate>>

CompleteForgetsBytes(c, n, failed) ==
  /\ hpc[c] = "relayed" /\ state[c] = "waiting" /\ ~failed /\ ~BoundaryFull(n)
  /\ state' = [state EXCEPT ![c] = "ready"]
  /\ result' = [result EXCEPT ![c] = "value"]
  /\ boundary' = boundary + n
  /\ hpc' = [hpc EXCEPT ![c] = "signal"]
  /\ UNCHANGED <<bytes, relay, host, ffiCalls, events, vmpc, cur, held, fate>>

CompleteKeepsDiscard(c, n, failed) ==
  /\ hpc[c] = "relayed" /\ state[c] = "waiting" /\ failed
  /\ state' = [state EXCEPT ![c] = "ready"]
  /\ result' = [result EXCEPT ![c] = "value"]
  /\ hpc' = [hpc EXCEPT ![c] = "fail"]
  /\ UNCHANGED <<bytes, relay, host, quota, vmpc, cur, held, fate>>

\* pendingFFICall.complete, under call.mu, for a result of n bytes or an error.
Complete(c, n, failed) ==
  /\ hpc[c] = "relayed"
  /\ IF state[c] # "waiting"
     THEN /\ hpc' = [hpc EXCEPT ![c] = "discard"]
          /\ UNCHANGED <<call, boundary>>
     ELSE /\ state' = [state EXCEPT ![c] = "ready"]
          /\ IF failed \/ n > MaxBoundaryBytes \/ BoundaryFull(n)
             THEN /\ result' = [result EXCEPT ![c] = "error"]
                  /\ hpc' = [hpc EXCEPT ![c] = "fail"]
                  /\ UNCHANGED <<bytes, boundary>>
             ELSE /\ result' = [result EXCEPT ![c] = IF n = 0 THEN "empty" ELSE "value"]
                  /\ boundary' = boundary + n
                  /\ bytes' = [bytes EXCEPT ![c] = @ + n]
                  /\ hpc' = [hpc EXCEPT ![c] = "signal"]
  /\ UNCHANGED <<relay, host, ffiCalls, events, vmpc, cur, held, fate>>

\* The Discard of a result that was not stored; an error is still signalled.
HostDiscard(c) ==
  /\ hpc[c] \in {"discard", "fail"}
  /\ discards' = [discards EXCEPT ![c] = @ + 1]
  /\ hpc' = [hpc EXCEPT ![c] = IF @ = "fail" THEN "signal" ELSE "done"]
  /\ UNCHANGED <<call, relay, host, quota, vmpc, cur, held, delivered>>

\* signalWake, the CompletionSignal of Instance.tla.
Signal(c) ==
  /\ hpc[c] = "signal"
  /\ hpc' = [hpc EXCEPT ![c] = "done"]
  /\ UNCHANGED <<call, relay, host, quota, vmpc, cur, held, fate>>

-----------------------------------------------------------------------------
StartStep  == StartBoundary \/ StartReturn \/ StartError
SettleStep == SettleDetach \/ SettleFinish
HostStep(c) ==
  \/ Relay(c) \/ HostDiscard(c) \/ Signal(c)
  \/ \E n \in Sizes, failed \in BOOLEAN : Complete(c, n, failed)

Next ==
  \/ \E c \in Calls, n \in Sizes : StartReserve(c, n)
  \/ \E c \in Calls, refused \in BOOLEAN : Take(c, refused)
  \/ \E c \in Calls : Stop(c)
  \/ StartStep \/ SettleStep
  \/ \E c \in Calls : HostStep(c)

Spec == Init /\ [][Next]_vars

-----------------------------------------------------------------------------
(* Properties                                                              *)

\* A value is never delivered and discarded, nor discarded twice, whatever the
\* order of completion, take, stop and detach.
AtMostOneDisposal ==
  \A c \in Calls : discards[c] + (IF c \in delivered THEN 1 ELSE 0) <= 1

\* When the host is done and the VM has ended the call, the value was disposed
\* of: nothing the host allocated for it is left behind.
NoResultLost ==
  \A c \in Calls :
    hpc[c] = "done" /\ cur # c /\ state[c] \in {"consumed", "canceled"} =>
      c \in delivered \/ discards[c] = 1

\* A host call that was established is cancelled if its call was.
HostCallCanceled ==
  \A c \in Calls : state[c] = "canceled" /\ cur # c => host[c] # "established"

\* The quota counters: pendingEvents counts the calls in vm.ffiCalls, the
\* pending bytes stay within their limit, and both return to zero.
QuotaReturned ==
  /\ events = Cardinality(ffiCalls) + (IF vmpc = "reserved" THEN 1 ELSE 0)
  /\ events <= MaxPendingEvents
  /\ boundary <= MaxBoundaryBytes
  /\ ffiCalls = {} /\ vmpc = "idle" => boundary = 0

Disposal ==
  [c \in Calls |->
    CASE c \in delivered /\ discards[c] = 0 -> "delivered"
      [] c \notin delivered /\ discards[c] = 1 -> "discarded"
      [] c \notin delivered /\ discards[c] = 0 ->
           IF hpc[c] \in {"none", "working"} THEN "unreported" ELSE "held"
      [] OTHER -> "twice"]

Promise == INSTANCE ResultDisposal WITH disposal <- Disposal

\* The call keeps the promise of Result.Discard.
KeepsPromise == Promise!Spec

==============================================================================
