----------------------------- MODULE MCEndpoint -----------------------------
EXTENDS Endpoint

CONSTANTS c1, c2

MCCalls == {c1, c2}

Plan(asked, canceled, answers, n) ==
    [bound |-> Bind \notin asked, asked |-> asked, canceled |-> canceled, answers |-> answers,
     decodes |-> TRUE, faults |-> n]

\* a binding is made and closed, under two faults; one call is made, under one; a
\* call, its decision and a drop race with the shutdown of the binding; two calls
\* meet the limits; the values of a result are beyond the client's limits
MCScenarios ==
    {Plan({Bind, Close}, {Bind}, {"ok"}, 2),
     Plan({Call(c1)}, {Call(c1)}, Codes, 1),
     Plan({Call(c1), DropOf(c1), Close}, {}, {"ok", "uncertain"}, 0),
     Plan({Call(c1), Call(c2)}, {}, {"ok"}, 0),
     [Plan({Call(c1), Close}, {}, {"ok"}, 0) EXCEPT !.decodes = FALSE]}

\* a result whose values are beyond the client's limits; two results that are
\* decided at the same time, with one control
MCUndecided ==
    {[Plan({Call(c1)}, {}, {"ok"}, 0) EXCEPT !.decodes = FALSE],
     Plan({Call(c1), Call(c2)}, {}, {"ok"}, 0)}
=============================================================================
