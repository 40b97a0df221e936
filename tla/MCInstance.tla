----------------------------- MODULE MCInstance -----------------------------
(* The scenarios of Instance.tla that TLC checks: two library calls e1, e2   *)
(* and the program main.                                                     *)
EXTENDS Instance

CONSTANTS e1, e2, main

\* Calls that end by themselves, with nobody outside who disturbs them.
Calls(calls, instructions, steps, quantum) ==
  [calls |-> calls, instructions |-> instructions, steps |-> steps, quantum |-> quantum,
   cancelable |-> {}, withContext |-> {}, shutdown |-> FALSE, fair |-> FALSE]

\* One call with background tasks and host calls, cancelled or shut down at any
\* moment, while everybody goes on.
OneCall ==
  [Calls({e1}, {"spawn", "ffi", "recv"}, 2, 1)
    EXCEPT !.cancelable = {e1}, !.shutdown = TRUE, !.fair = TRUE]

\* Two calls with tasks that wait for each other, fail or pass their step limit;
\* the first may be cancelled.
TwoCalls ==
  [Calls({e1, e2}, {"spawn", "compute", "fail", "recv", "send"}, 2, 1)
    EXCEPT !.cancelable = {e1}]

\* Two calls with host calls, of which one scope leaves some behind.
TwoCallsFFI ==
  [Calls({e1, e2}, {"spawn", "ffi", "recv"}, 1, 1) EXCEPT !.cancelable = {e1}]

\* A call and a program that reach MaxPendingEvents.
Events == Calls({e1, main}, {"timer", "ffi"}, 2, 0)

\* A call and a program with a context that block, leave a timer behind or pass a
\* limit, shut down at any moment.
Program ==
  [Calls({e1, main}, {"recv", "timer", "limit"}, 1, 0)
    EXCEPT !.withContext = {main}, !.shutdown = TRUE]

MCScenarios == {OneCall, TwoCalls, TwoCallsFFI, Events, Program}

\* One call and Shutdown.
MCShutdown == {[Calls({e1}, {"ffi"}, 2, 0) EXCEPT !.shutdown = TRUE, !.fair = TRUE]}

==============================================================================
