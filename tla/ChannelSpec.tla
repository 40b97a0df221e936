---------------------------- MODULE ChannelSpec ----------------------------
(***************************************************************************)
(* What a channel promises the tasks that use it, whatever it does inside: *)
(* a queue of values.  A value whose send was not made to wait is accepted *)
(* at once; one that finds the queue full waits, and is accepted when it   *)
(* is among the first Capacity values or is received.  A value offered     *)
(* without waiting to an unbuffered channel (TrySend) is in transit to a   *)
(* waiting receiver and is accepted too.                                   *)
(***************************************************************************)
EXTENDS Naturals, Sequences, Lists

CONSTANTS Chans, Capacity, Tasks, Values
NoValue == <<>>

VARIABLES
    queue,      \* the values in each channel, oldest first
    closed,     \* the closed channels
    waiting,    \* values whose sender is waiting
    refused,    \* of those, the ones a close has dropped
    sent,       \* values whose send has returned
    got         \* the last value each task received

vars == <<queue, closed, waiting, refused, sent, got>>

Init ==
    /\ queue = [c \in Chans |-> <<>>]
    /\ closed = {} /\ waiting = {} /\ refused = {} /\ sent = {}
    /\ got = [t \in Tasks |-> NoValue]

\* the values of c that are beyond its capacity
Beyond(c) == {queue[c][i] : i \in Capacity[c] + 1..Len(queue[c])}

Without(c, gone) == Keep(queue[c], Values \ gone)

Accept(c, v) ==
    /\ c \notin closed
    /\ Capacity[c] = 0 \/ Len(queue[c]) < Capacity[c]
    /\ queue' = [queue EXCEPT ![c] = Append(@, v)]
    /\ sent' = sent \cup {v}
    /\ UNCHANGED <<closed, waiting, refused, got>>

Offer(c, v) ==
    /\ c \notin closed
    /\ Len(queue[c]) >= Capacity[c]
    /\ queue' = [queue EXCEPT ![c] = Append(@, v)]
    /\ waiting' = waiting \cup {v}
    /\ UNCHANGED <<closed, refused, sent, got>>

Receive(c, t) ==
    /\ queue[c] # <<>>
    /\ queue' = [queue EXCEPT ![c] = Tail(@)]
    /\ got' = [got EXCEPT ![t] = Head(queue[c])]
    /\ UNCHANGED <<closed, waiting, refused, sent>>

ReceiveClosed(c, t) ==
    /\ c \in closed
    /\ queue[c] = <<>>
    /\ got' = [got EXCEPT ![t] = NoValue]
    /\ UNCHANGED <<queue, closed, waiting, refused, sent>>

\* the waiting sender returns
Return(v) ==
    /\ v \in waiting \ refused
    /\ \A c \in Chans : v \notin Beyond(c)
    /\ waiting' = waiting \ {v}
    /\ sent' = sent \cup {v}
    /\ UNCHANGED <<queue, closed, refused, got>>

Close(c) ==
    /\ c \notin closed
    /\ closed' = closed \cup {c}
    /\ refused' = refused \cup (Beyond(c) \cap waiting)
    /\ queue' = [queue EXCEPT ![c] = Without(c, Beyond(c) \cap waiting)]
    /\ UNCHANGED <<waiting, sent, got>>

\* the sender of a refused value panics
Refuse(v) ==
    /\ v \in refused
    /\ waiting' = waiting \ {v}
    /\ refused' = refused \ {v}
    /\ UNCHANGED <<queue, closed, sent, got>>

\* the senders of these values are aborted; an accepted value stays
Withdraw(gone) ==
    /\ waiting' = waiting \ gone
    /\ refused' = refused \ gone
    /\ queue' = [c \in Chans |-> Without(c, gone \cap Beyond(c))]
    /\ UNCHANGED <<closed, sent, got>>

Next ==
    \/ \E c \in Chans, v \in Values : Accept(c, v) \/ Offer(c, v)
    \/ \E c \in Chans, t \in Tasks : Receive(c, t) \/ ReceiveClosed(c, t)
    \/ \E c \in Chans : Close(c)
    \/ \E v \in Values : Return(v) \/ Refuse(v)
    \/ \E gone \in SUBSET waiting : Withdraw(gone)

Spec == Init /\ [][Next]_vars
=============================================================================
