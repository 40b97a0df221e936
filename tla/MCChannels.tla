----------------------------- MODULE MCChannels -----------------------------
(***************************************************************************)
(* Small instances of Channels.                                            *)
(***************************************************************************)
EXTENDS Channels, TLC

CONSTANTS u, b      \* an unbuffered and a buffered channel

MCCapacity == [c \in Chans |-> IF c = b THEN 1 ELSE 0]
MCValues == Tasks \X (1..MaxOps)
MCTokens == Tasks \X (1..MaxOps) \X (0..MaxCases)
\* three tasks with one communication each, or two tasks with two each
MCStarts == {used \in [Tasks -> 0..MaxOps] :
                \/ \A t \in Tasks : used[t] = MaxOps - 1
                \/ \E t \in Tasks : /\ used[t] = MaxOps
                                    /\ \A o \in Tasks \ {t} : used[o] = 0}
TaskSymmetry == Permutations(Tasks)
MCSelects == {<<<<"recv", u>>, <<"send", b>>>>}
=============================================================================
