------------------------------ MODULE Waitable ------------------------------
(***************************************************************************)
(* Channels and wait tokens: runtime/waitable.go and runtime/wait.go.      *)
(*                                                                         *)
(* A heap s is a record of s.chan, the waitableResource of every channel,  *)
(* and s.token, the waitTokenState of every wait token.  Each function of  *)
(* the two files that changes them is an operator from heaps to heaps.     *)
(* All of them run under the VM owner, so they are atomic.                 *)
(*                                                                         *)
(* A channel's values are abstract.  Its slices with head indexes (Buffer, *)
(* Pending) are sequences; their growth and the allocation limits charged  *)
(* for it are left out.                                                    *)
(***************************************************************************)
EXTENDS Naturals, Sequences, FiniteSets, Lists

CONSTANTS
    Chans,      \* the channels of the program
    Nil,        \* the nil channel, which no operation ever completes on
    Capacity,   \* the capacity each channel was made with
    Tasks,      \* the identities of tasks that may send and block
    NoTask,     \* TaskID 0: the sender did not wait (trySend)
    Tokens,     \* the identities of wait tokens
    Values      \* what is sent

ASSUME WaitableAssumption ==
    /\ Nil \notin Chans
    /\ NoTask \notin Tasks
    /\ Capacity \in [Chans -> Nat]
    /\ IsFiniteSet(Chans)

Directions == {"recv", "send"}
Registration == Chans \X Directions

(***************************************************************************)
(* waitableResource and waitTokenState.                                    *)
(***************************************************************************)
PendingSend == [value : Values, task : Tasks \cup {NoTask}]

Channel ==
    [buffer : Seq(Values), pending : Seq(PendingSend), completed : SUBSET Tasks,
     recvWaiters : Seq(Tokens), sendWaiters : Seq(Tokens), closed : BOOLEAN]

Token == [signaled : BOOLEAN, canceled : BOOLEAN, registrations : SUBSET Registration]

Heap == [chan : [Chans -> Channel], token : [Tokens -> Token]]

NewChannel ==
    [buffer |-> <<>>, pending |-> <<>>, completed |-> {},
     recvWaiters |-> <<>>, sendWaiters |-> <<>>, closed |-> FALSE]

NewToken == [signaled |-> FALSE, canceled |-> FALSE, registrations |-> {}]

EmptyHeap == [chan |-> [c \in Chans |-> NewChannel], token |-> [k \in Tokens |-> NewToken]]

-----------------------------------------------------------------------------
(***************************************************************************)
(* Wait tokens.                                                            *)
(***************************************************************************)
Live(s, k) == ~s.token[k].signaled /\ ~s.token[k].canceled

LiveTokens(s) == {k \in Tokens : Live(s, k)}
LiveOnly(s, waiters) == Keep(waiters, LiveTokens(s))

\* unregisterAll: the token leaves every list it is registered in, and each of
\* those lists loses its other dead tokens too (removeWaiterFrom)
UnregisterAll(s, k) ==
    LET left(c, dir, waiters) ==
            IF <<c, dir>> \in s.token[k].registrations
            THEN Keep(waiters, LiveTokens(s) \ {k})
            ELSE waiters
    IN  [chan |-> [c \in Chans |->
             [s.chan[c] EXCEPT !.recvWaiters = left(c, "recv", @),
                               !.sendWaiters = left(c, "send", @)]],
         token |-> [s.token EXCEPT ![k].registrations = {}]]

TokenSignal(s, k) ==
    IF s.token[k].canceled
    THEN s
    ELSE UnregisterAll([s EXCEPT !.token[k].signaled = TRUE], k)

\* Mutant of TokenCancel: the token stays in the lists it is registered in.
TokenCancelStays(s, k) == [s EXCEPT !.token[k].canceled = TRUE]

TokenCancel(s, k) ==
    IF s.token[k].canceled
    THEN s
    ELSE UnregisterAll([s EXCEPT !.token[k].canceled = TRUE], k)

\* cancelWaitSet, and the end of an aborted select
CancelTokens(s, ks) ==
    LET left(c, dir, waiters) ==
            IF \E k \in ks : <<c, dir>> \in s.token[k].registrations
            THEN Keep(waiters, LiveTokens(s) \ ks)
            ELSE waiters
    IN  [chan |-> [c \in Chans |->
             [s.chan[c] EXCEPT !.recvWaiters = left(c, "recv", @),
                               !.sendWaiters = left(c, "send", @)]],
         token |-> [k \in Tokens |->
             IF k \in ks THEN [s.token[k] EXCEPT !.canceled = TRUE, !.registrations = {}]
                         ELSE s.token[k]]]

-----------------------------------------------------------------------------
(***************************************************************************)
(* Waiter lists: one waiter is signalled per value or per free slot, all   *)
(* of them when the channel closes.                                        *)
(***************************************************************************)
SignalOneRecvWaiter(s, c) ==
    LET live == LiveOnly(s, s.chan[c].recvWaiters)
    IN  IF live = <<>>
        THEN [s EXCEPT !.chan[c].recvWaiters = <<>>]
        ELSE TokenSignal([s EXCEPT !.chan[c].recvWaiters = Tail(live)], Head(live))

SignalOneSendWaiter(s, c) ==
    LET live == LiveOnly(s, s.chan[c].sendWaiters)
    IN  IF live = <<>>
        THEN [s EXCEPT !.chan[c].sendWaiters = <<>>]
        ELSE TokenSignal([s EXCEPT !.chan[c].sendWaiters = Tail(live)], Head(live))

\* waitableSignalAllRecvWaiters and waitableSignalAllSendWaiters
SignalAllWaiters(s, c) ==
    LET woken == {k \in Tokens : /\ ~s.token[k].canceled
                                 /\ \/ \E i \in DOMAIN s.chan[c].recvWaiters : s.chan[c].recvWaiters[i] = k
                                    \/ \E i \in DOMAIN s.chan[c].sendWaiters : s.chan[c].sendWaiters[i] = k}
        left(d, dir, waiters) ==
            IF d = c THEN <<>>
            ELSE IF \E k \in woken : <<d, dir>> \in s.token[k].registrations
                 THEN Keep(waiters, LiveTokens(s) \ woken)
                 ELSE waiters
    IN  [chan |-> [d \in Chans |->
             [s.chan[d] EXCEPT !.recvWaiters = left(d, "recv", @),
                               !.sendWaiters = left(d, "send", @)]],
         token |-> [k \in Tokens |->
             IF k \in woken THEN [s.token[k] EXCEPT !.signaled = TRUE, !.registrations = {}]
                            ELSE s.token[k]]]

RecvReady(s, c) ==
    /\ c # Nil
    /\ \/ s.chan[c].buffer # <<>>
       \/ s.chan[c].pending # <<>>
       \/ s.chan[c].closed

SendReady(s, c) ==
    /\ c # Nil
    /\ \/ s.chan[c].closed
       \/ /\ Capacity[c] = 0
          /\ \E i \in DOMAIN s.chan[c].recvWaiters : ~s.token[s.chan[c].recvWaiters[i]].canceled
       \/ Capacity[c] > 0 /\ Len(s.chan[c].buffer) < Capacity[c]

\* waitableWaitRecvValue: subscribe a token to the channel's next value
WaitRecv(s, c, k) ==
    CASE c = Nil -> s
      [] RecvReady(s, c) -> TokenSignal(s, k)
      [] OTHER -> [s EXCEPT !.chan[c].recvWaiters = Append(@, k),
                            !.token[k].registrations = IF Live(s, k) THEN @ \cup {<<c, "recv">>} ELSE @]

\* waitableWaitSendValue: subscribe a token to the channel's next free slot
WaitSend(s, c, k) ==
    CASE c = Nil -> s
      [] SendReady(s, c) -> TokenSignal(s, k)
      [] OTHER -> [s EXCEPT !.chan[c].sendWaiters = Append(@, k),
                            !.token[k].registrations = IF Live(s, k) THEN @ \cup {<<c, "send">>} ELSE @]

-----------------------------------------------------------------------------
(***************************************************************************)
(* Sending.                                                                *)
(***************************************************************************)
Full(s, c) == Capacity[c] = 0 \/ Len(s.chan[c].buffer) >= Capacity[c]

\* waitableSendTaskValue on an open channel: a sender that finds no room leaves
\* its value in Pending and blocks
Send(s, c, t, v) ==
    SignalOneRecvWaiter(
        IF Full(s, c)
        THEN [s EXCEPT !.chan[c].pending = Append(@, [value |-> v, task |-> t])]
        ELSE [s EXCEPT !.chan[c].buffer = Append(@, v)], c)

\* waitableTrySendValue on an open channel: when it succeeds, and what it does
CanTrySend(s, c) ==
    /\ c # Nil
    /\ IF Capacity[c] = 0 THEN SendReady(s, c) ELSE Len(s.chan[c].buffer) < Capacity[c]

TrySend(s, c, v) ==
    SignalOneRecvWaiter(
        IF Capacity[c] = 0
        THEN [s EXCEPT !.chan[c].pending = Append(@, [value |-> v, task |-> NoTask])]
        ELSE [s EXCEPT !.chan[c].buffer = Append(@, v)], c)

CompleteSend(s, c, t) ==
    IF t = NoTask THEN s ELSE [s EXCEPT !.chan[c].completed = @ \cup {t}]

\* takeCompletedSend, when the task is there
TakeCompletedSend(s, c, t) == [s EXCEPT !.chan[c].completed = @ \ {t}]

PendingNotOf(ts) == {p \in PendingSend : p.task \notin ts}

\* Mutant of CancelSend: the completion of the aborted sender is left behind.
CancelSendPendingOnly(ch, ts) == [ch EXCEPT !.pending = Keep(@, PendingNotOf(ts))]

\* cancelSend, for each of the tasks ts that wait to send on the channel
CancelSend(ch, ts) ==
    [ch EXCEPT !.completed = @ \ ts, !.pending = Keep(@, PendingNotOf(ts))]

-----------------------------------------------------------------------------
(***************************************************************************)
(* Receiving and closing.                                                  *)
(***************************************************************************)
\* waitableFillBufferedPending after a value was taken: blocked senders move
\* into the free slots of the buffer in their order
FillBufferedPending(s, c) ==
    LET ch    == s.chan[c]
        room  == IF Capacity[c] > Len(ch.buffer) THEN Capacity[c] - Len(ch.buffer) ELSE 0
        moved == IF room < Len(ch.pending) THEN room ELSE Len(ch.pending)
    IN  [s EXCEPT !.chan[c].buffer =
                      @ \o [i \in 1..moved |-> ch.pending[i].value],
                  !.chan[c].pending = SubSeq(@, moved + 1, Len(@)),
                  !.chan[c].completed =
                      @ \cup ({ch.pending[i].task : i \in 1..moved} \ {NoTask})]

\* waitableTryRecvValue finds a value
HasValue(s, c) == c # Nil /\ (s.chan[c].buffer # <<>> \/ s.chan[c].pending # <<>>)

FrontValue(s, c) ==
    IF s.chan[c].buffer # <<>> THEN Head(s.chan[c].buffer) ELSE Head(s.chan[c].pending).value

\* waitableTryRecvValue when it does
TakeValue(s, c) ==
    LET popped ==
            IF s.chan[c].buffer # <<>>
            THEN [s EXCEPT !.chan[c].buffer = Tail(@)]
            ELSE CompleteSend([s EXCEPT !.chan[c].pending = Tail(@)], c, Head(s.chan[c].pending).task)
    IN  SignalOneSendWaiter(FillBufferedPending(popped, c), c)

\* Mutants of Close: waiting senders are not signalled, or the values of
\* blocked senders stay receivable.
CloseSignalsOne(s, c) ==
    SignalOneRecvWaiter([s EXCEPT !.chan[c].closed = TRUE,
                                  !.chan[c].pending = Keep(@, PendingNotOf(Tasks))], c)

CloseKeepsPending(s, c) == SignalAllWaiters([s EXCEPT !.chan[c].closed = TRUE], c)

\* waitableCloseValue on an open channel: the values of blocked senders are
\* dropped (those senders panic when they are next looked at), a value sent
\* without waiting stays
Close(s, c) ==
    SignalAllWaiters([s EXCEPT !.chan[c].closed = TRUE,
                               !.chan[c].pending = Keep(@, PendingNotOf(Tasks))], c)
=============================================================================
