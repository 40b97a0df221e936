------------------------------ MODULE TaskQueue ------------------------------
(***************************************************************************)
(* The runnable and blocked lists of executionMachine                      *)
(* (src/runtime/scheduler_state.go).                                       *)
(*                                                                         *)
(* The code keeps slices of distinct task pointers.  Here a queue is the   *)
(* set of its elements with the pairs <<a, b>> such that a is before b, so *)
(* that "drop every task of a scope" is a restriction and not a loop.      *)
(***************************************************************************)

EmptyQueue == [elems |-> {}, before |-> {}]

\* append(machine.runnable, task)
PushBack(q, t) ==
  [elems  |-> q.elems \cup {t},
   before |-> q.before \cup (q.elems \X {t})]

\* machine.pushRunnableFront(task)
PushFront(q, t) ==
  [elems  |-> q.elems \cup {t},
   before |-> q.before \cup ({t} \X q.elems)]

\* The part of q inside S, order kept.
Only(q, S) ==
  [elems  |-> q.elems \cap S,
   before |-> q.before \cap (S \X S)]

\* The filter loops of cancelScope and the copy-down of wakeBlocked.
Without(q, S) == Only(q, q.elems \ S)

\* All of r after all of q, each in its own order.
Join(q, r) ==
  [elems  |-> q.elems \cup r.elems,
   before |-> q.before \cup r.before \cup (q.elems \X r.elems)]

\* t is what popRunnable would return.
IsHead(q, t) ==
  /\ t \in q.elems
  /\ \A u \in q.elems : <<u, t>> \notin q.before

QueueType(T) == [elems : SUBSET T, before : SUBSET (T \X T)]

==============================================================================
