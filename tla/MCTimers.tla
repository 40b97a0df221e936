------------------------------ MODULE MCTimers ------------------------------
EXTENDS Timers

CONSTANTS s1, s2

MCScopes == {s1}
MCScopeOf == <<s1, s2>>

\* another call is made only while there is an AfterFunc
MCMaxCalls == [k \in Kinds |-> IF k = "func" THEN 1 ELSE 0]
=============================================================================
