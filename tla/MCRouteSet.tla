----------------------------- MODULE MCRouteSet -----------------------------
EXTENDS RouteSet, TLC

CONSTANTS c1, c2, k1, k2, r1, r2

MCCalls == {c1, c2}
MCResources == {r1, r2}
MCConsumers == {k1, k2}

Service == <<FALSE, {}>>
On(r) == <<TRUE, {r}>>

\* a result with two resources; one that two consumers decide; a resource that
\* comes with a result and is used by a later call; two handlers that hold one
\* resource each
MCScenarios ==
    {[accepted |-> <<>>,
      shapes   |-> c1 :> {Service} @@ c2 :> {},
      exports  |-> c1 :> {r1, r2} @@ c2 :> {},
      deciders |-> c1 :> {k1} @@ c2 :> {},
      droppable |-> {r1}],
     [accepted |-> <<>>,
      shapes   |-> c1 :> {Service} @@ c2 :> {},
      exports  |-> c1 :> {r1} @@ c2 :> {},
      deciders |-> c1 :> {k1, k2} @@ c2 :> {},
      droppable |-> {r1}],
     [accepted |-> <<>>,
      shapes   |-> c1 :> {Service} @@ c2 :> {On(r2)},
      exports  |-> c1 :> {r2} @@ c2 :> {},
      deciders |-> c1 :> {k1} @@ c2 :> {},
      droppable |-> {r2}],
     [accepted |-> <<r1, r2>>,
      shapes   |-> c1 :> {On(r1)} @@ c2 :> {On(r2)},
      exports  |-> c1 :> {} @@ c2 :> {},
      deciders |-> c1 :> {} @@ c2 :> {},
      droppable |-> {}]}
=============================================================================
