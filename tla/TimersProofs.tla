---------------------------- MODULE TimersProofs ----------------------------
(***************************************************************************)
(* The invariants of Timers.tla, for any number of starts, any limits and  *)
(* any scopes.                                                             *)
(***************************************************************************)
EXTENDS Timers, FiniteSetTheorems, TLAPS

-----------------------------------------------------------------------------
(***************************************************************************)
(* The inductive invariant, part by part.                                  *)
(***************************************************************************)
\* The life of one runtime timer: before its start nothing of it exists, an
\* active one is not stopped and its signal is open, a removed one is out of the
\* clock.
Lives ==
  \A i \in Starts :
    /\ timer[i].state = "unused" =>
         /\ ~timer[i].armed /\ ~timer[i].firing /\ timer[i].signals = 0
         /\ signal[i].buffered = 0 /\ ~signal[i].closed
         /\ go[i] = "none"
         /\ ~history[i].stopped /\ ~history[i].fired
    /\ timer[i].state = "active" => ~timer[i].stopped /\ ~signal[i].closed
    /\ timer[i].state = "removed" => timer[i].stopped /\ ~timer[i].armed
    /\ i > object.current => timer[i].state = "unused"

\* A drain visits timers that stay active, and re-arms one that it visited.
Drains ==
  /\ owner # "drain" => todo = {} /\ rearm = 0
  /\ todo \subseteq Active
  /\ rearm # 0 => /\ Periodic /\ rearm \in Active \ todo
                  /\ ~timer[rearm].armed /\ ~timer[rearm].firing /\ ~timer[rearm].ready

\* The alarm is armed, or its callback is on its way, or the timer is ready.
OneOf(a, b, c) == (a \/ b \/ c) /\ ~(a /\ b) /\ ~(a /\ c) /\ ~(b /\ c)

Sourced ==
  \A i \in Active : i # rearm => OneOf(timer[i].armed, timer[i].firing, timer[i].ready)

EventsCounted == events = Cardinality(Active)

\* A timer that is ready is known to the supervisor, or will be, unless he missed
\* it or runs the VM himself and has still to come to it ...
ToldSupervisor(i) ==
  \/ timer[i].signals > 0 \/ supervisor \/ missed
  \/ foreground = "none" /\ (owner = "run" \/ (owner = "drain" /\ i \in todo))

\* ... and while a drain is on or Wait waits, only the timers the drain has still
\* to visit may be ready without a token for Wait.
ToldWait(i) ==
  owner = "drain" \/ (owner = "wait" /\ foreground = "pending") =>
    i \in todo \/ wake \/ timer[i].signals > 0

Announced == \A i \in Active : timer[i].ready => ToldSupervisor(i) /\ ToldWait(i)

\* Until a one-shot timer is drained or stopped its goroutine waits for a signal
\* that has not come; after a stop that signal never comes.
OneShot ==
  ~Periodic =>
    \A i \in Starts :
      /\ i \in Active => /\ signal[i].buffered = 0 /\ go[i] = "recv"
                         /\ ~history[i].fired /\ ~history[i].stopped
      /\ history[i].stopped => /\ i \notin Active /\ signal[i].buffered = 0
                               /\ go[i] \in {"recv", "ended"} /\ ~history[i].fired

\* The sends blocked on the object's channel are those of the goroutines that wait
\* there.
Pending == channel.pending.elems = {i \in Starts : go[i] = "blocked"}

Inv == /\ TypeOK /\ Lives /\ Drains /\ Sourced /\ EventsCounted
       /\ Announced /\ OneShot /\ Pending

-----------------------------------------------------------------------------
(***************************************************************************)
(* Lemmas about the operators of the module.                               *)
(***************************************************************************)
\* Sets of starts are finite, and removing a part of one subtracts its size.
LEMMA StartsCount ==
  ASSUME NEW S, S \subseteq Starts, NEW R, R \subseteq S
  PROVE  /\ IsFiniteSet(S) /\ Cardinality(S) \in Nat
         /\ Cardinality(S \ R) = Cardinality(S) - Cardinality(R)
         /\ Cardinality(R) \in Nat /\ Cardinality(R) <= Cardinality(S)
<1>1. IsFiniteSet(Starts)
  BY FS_Interval, TimersAssumption DEF Starts
<1>2. IsFiniteSet(S) /\ IsFiniteSet(R)
  BY <1>1, FS_Subset
<1>3. Cardinality(S \ R) = Cardinality(S) - Cardinality(R)
  <2>1. S \cap R = R
    OBVIOUS
  <2>2. QED
    BY <1>2, <2>1, FS_Difference
<1>4. Cardinality(R) <= Cardinality(S)
  BY <1>2, FS_Subset
<1>5. QED
  BY <1>2, <1>3, <1>4, FS_CardinalityType

LEMMA AddStart ==
  ASSUME NEW S, S \subseteq Starts, NEW i \in Starts \ S
  PROVE  Cardinality(S \cup {i}) = Cardinality(S) + 1
  BY StartsCount, FS_AddElement

\* removeTimer of some active timers: they leave vm.timers and the clock, and
\* their events are returned.
LEMMA Removing ==
  ASSUME TypeOK, EventsCounted, NEW is, is \subseteq Active
  PROVE  /\ Removed(is) \in [Starts -> Timer]
         /\ \A j \in is : /\ Removed(is)[j].state = "removed" /\ Removed(is)[j].stopped
                          /\ ~Removed(is)[j].armed /\ ~Removed(is)[j].ready
                          /\ Removed(is)[j].firing = timer[j].firing
                          /\ Removed(is)[j].signals = timer[j].signals
         /\ \A j \in Starts \ is : Removed(is)[j] = timer[j]
         /\ {j \in Starts : Removed(is)[j].state = "active"} = Active \ is
         /\ events - Cardinality(is) = Cardinality(Active \ is)
         /\ events - Cardinality(is) \in 0..MaxPendingEvents
<1>1. ASSUME NEW j \in Starts
      PROVE  /\ Removed(is)[j] = IF j \in is
                  THEN [timer[j] EXCEPT !.state = "removed", !.stopped = TRUE,
                                        !.armed = FALSE, !.ready = FALSE]
                  ELSE timer[j]
             /\ timer[j] \in Timer
  BY DEF Removed, TypeOK
<1>r. ASSUME NEW old \in Timer, NEW new,
             new = [old EXCEPT !.state = "removed", !.stopped = TRUE, !.armed = FALSE, !.ready = FALSE]
      PROVE  /\ new \in Timer /\ new.state = "removed" /\ new.stopped /\ ~new.armed /\ ~new.ready
             /\ new.firing = old.firing /\ new.signals = old.signals
  BY <1>r DEF Timer
<1>t. is \subseteq Starts
  BY DEF Active
<1>2. \A j \in Starts : Removed(is)[j] \in Timer
  <2> SUFFICES ASSUME NEW j \in Starts PROVE Removed(is)[j] \in Timer
    OBVIOUS
  <2>1. CASE j \in is
    BY <1>1, <1>r, <2>1
  <2>2. CASE j \notin is
    BY <1>1, <2>2
  <2>3. QED
    BY <2>1, <2>2
<1>3. Removed(is) \in [Starts -> Timer]
  BY <1>2 DEF Removed
<1>4. \A j \in is : /\ Removed(is)[j].state = "removed" /\ Removed(is)[j].stopped
                    /\ ~Removed(is)[j].armed /\ ~Removed(is)[j].ready
                    /\ Removed(is)[j].firing = timer[j].firing
                    /\ Removed(is)[j].signals = timer[j].signals
  <2> SUFFICES ASSUME NEW j \in is
               PROVE  /\ Removed(is)[j].state = "removed" /\ Removed(is)[j].stopped
                      /\ ~Removed(is)[j].armed /\ ~Removed(is)[j].ready
                      /\ Removed(is)[j].firing = timer[j].firing
                      /\ Removed(is)[j].signals = timer[j].signals
    OBVIOUS
  <2>1. /\ timer[j] \in Timer
        /\ Removed(is)[j] = [timer[j] EXCEPT !.state = "removed", !.stopped = TRUE,
                                             !.armed = FALSE, !.ready = FALSE]
    BY <1>1, <1>t
  <2>2. QED
    BY <1>r, <2>1
<1>5. \A j \in Starts \ is : Removed(is)[j] = timer[j]
  BY <1>1
<1>6. {j \in Starts : Removed(is)[j].state = "active"} = Active \ is
  BY <1>4, <1>5 DEF Active
<1>7. events - Cardinality(is) = Cardinality(Active \ is)
  BY StartsCount DEF EventsCounted, Active
<1>8. events - Cardinality(is) \in 0..MaxPendingEvents
  <2>1. events \in 0..MaxPendingEvents /\ events = Cardinality(Active) /\ Active \subseteq Starts
    BY DEF TypeOK, EventsCounted, Active
  <2>2. Cardinality(is) \in Nat /\ Cardinality(is) <= events
    BY <2>1, StartsCount
  <2>3. QED
    BY <2>1, <2>2, TimersAssumption
<1>9. QED
  BY <1>3, <1>4, <1>5, <1>6, <1>7, <1>8

\* The three ways to count a source are the three sources.
LEMMA OneSource ==
  ASSUME NEW a \in BOOLEAN, NEW b \in BOOLEAN, NEW c \in BOOLEAN, OneOf(a, b, c)
  PROVE  Cardinality({k \in 1..3 : \/ k = 1 /\ a
                                   \/ k = 2 /\ b
                                   \/ k = 3 /\ c}) = 1
<1> DEFINE S == {k \in 1..3 : \/ k = 1 /\ a
                              \/ k = 2 /\ b
                              \/ k = 3 /\ c}
<1>1. \A k : k \in S <=> (k = 1 /\ a) \/ (k = 2 /\ b) \/ (k = 3 /\ c)
  OBVIOUS
<1> HIDE DEF S
<1>2. S = {1} \/ S = {2} \/ S = {3}
  BY <1>1 DEF OneOf
<1>3. Cardinality(S) = 1
  BY <1>2, FS_Singleton
<1>4. QED
  BY <1>3 DEF S

-----------------------------------------------------------------------------
(***************************************************************************)
(* The clock and markReady.                                                *)
(***************************************************************************)
LEMMA AlarmFiresKeeps ==
  ASSUME Inv, NEW i \in Starts, AlarmFires(i)
  PROVE  Inv'
<1>1. /\ timer' \in [Starts -> Timer]
      /\ \A j \in Starts : /\ timer'[j].state = timer[j].state
                           /\ timer'[j].stopped = timer[j].stopped
                           /\ timer'[j].ready = timer[j].ready
                           /\ timer'[j].signals = timer[j].signals
                           /\ j # i => timer'[j] = timer[j]
      /\ ~timer'[i].armed /\ timer'[i].firing
  <2>1. PICK t : t = [timer[i] EXCEPT !.armed = FALSE, !.firing = TRUE]
    OBVIOUS
  <2>2. timer \in [Starts -> Timer] /\ timer[i] \in Timer
    BY DEF Inv, TypeOK
  <2>3. timer' = [timer EXCEPT ![i] = t]
    BY <2>1, <2>2 DEF AlarmFires
  <2>4. /\ t \in Timer /\ ~t.armed /\ t.firing
        /\ t.state = timer[i].state /\ t.stopped = timer[i].stopped
        /\ t.ready = timer[i].ready /\ t.signals = timer[i].signals
    BY <2>1, <2>2 DEF Timer
  <2>5. QED
    BY <2>2, <2>3, <2>4
<1>2. Active' = Active
  BY <1>1 DEF Active
<1>3. Periodic' = Periodic
  BY DEF AlarmFires, Periodic, package
<1>4. TypeOK'
  BY <1>1 DEF AlarmFires, Inv, TypeOK, package, who
<1>5. Lives' /\ Drains' /\ Sourced'
  BY <1>1, <1>2, <1>3 DEF AlarmFires, Inv, Lives, Drains, Sourced, OneOf, package, Active
<1>6. EventsCounted' /\ Announced' /\ OneShot' /\ Pending'
  <2>1. UNCHANGED <<signal, canceled, events, wake, who, owner, todo, rearm>> /\ UNCHANGED package
    BY DEF AlarmFires
  <2>2. EventsCounted'
    BY <1>2, <2>1 DEF Inv, EventsCounted
  <2>3. Announced'
    BY <1>1, <1>2, <2>1 DEF Inv, Announced, ToldSupervisor, ToldWait, Active, who
  <2>4. OneShot'
    BY <1>2, <1>3, <2>1 DEF Inv, OneShot, package
  <2>5. Pending'
    BY <2>1 DEF Inv, Pending, package
  <2>6. QED
    BY <2>2, <2>3, <2>4, <2>5
<1>7. QED
  BY <1>4, <1>5, <1>6 DEF Inv

LEMMA MarkReadyKeeps ==
  ASSUME Inv, NEW i \in Starts, MarkReady(i)
  PROVE  Inv'
<1>1. timer[i] \in Timer /\ MaxSignals \in Nat
  BY TimersAssumption DEF Inv, TypeOK
<1>2. /\ timer' \in [Starts -> Timer]
      /\ \A j \in Starts : /\ timer'[j].state = timer[j].state
                           /\ timer'[j].stopped = timer[j].stopped
                           /\ timer'[j].armed = timer[j].armed
                           /\ j # i => timer'[j] = timer[j]
      /\ ~timer'[i].firing
      /\ timer[i].stopped => timer'[i].ready = timer[i].ready
                             /\ timer'[i].signals = timer[i].signals
      /\ ~timer[i].stopped => timer'[i].ready /\ timer'[i].signals > 0
  <2> DEFINE n == IF timer[i].stopped THEN timer[i].signals ELSE timer[i].signals + 1
             t == [timer[i] EXCEPT !.firing = FALSE, !.ready = @ \/ ~timer[i].stopped,
                                   !.signals = n]
  <2>1. n \in 0..MaxSignals
    BY <1>1 DEF MarkReady, Timer
  <2>2. timer' = [timer EXCEPT ![i] = t] /\ timer \in [Starts -> Timer]
    BY DEF MarkReady, Inv, TypeOK
  <2>3. t \in Timer
    BY <1>1, <2>1 DEF Timer
  <2>4. ~timer[i].stopped => n > 0
    BY <1>1 DEF Timer
  <2> HIDE DEF n
  <2>5. /\ t.state = timer[i].state /\ t.stopped = timer[i].stopped
        /\ t.armed = timer[i].armed /\ ~t.firing
        /\ t.ready = (timer[i].ready \/ ~timer[i].stopped) /\ t.signals = n
    BY <1>1 DEF Timer
  <2>6. timer[i].stopped => n = timer[i].signals
    BY DEF n
  <2> HIDE DEF t
  <2>7. QED
    BY <1>1, <2>2, <2>3, <2>4, <2>5, <2>6 DEF Timer
<1>3. Active' = Active
  BY <1>2 DEF Active
<1>4. Periodic' = Periodic
  BY DEF MarkReady, Periodic, package
<1>5. TypeOK'
  BY <1>2 DEF MarkReady, Inv, TypeOK, package, who
<1>u. /\ UNCHANGED <<signal, canceled, events, wake, who, owner, todo, rearm>> /\ UNCHANGED package
      /\ timer[i].firing
  BY DEF MarkReady
<1>6. Lives' /\ Drains' /\ Sourced'
  <2>1. Lives'
    BY <1>2, <1>u DEF Inv, Lives, package
  <2>2. Drains'
    BY <1>2, <1>3, <1>4, <1>u DEF Inv, Drains, Active
  <2>3. Sourced'
    BY <1>2, <1>3, <1>u DEF Inv, Lives, Sourced, OneOf, Active
  <2>4. QED
    BY <2>1, <2>2, <2>3
<1>7. EventsCounted' /\ Announced' /\ OneShot' /\ Pending'
  <2>1. EventsCounted'
    BY <1>3, <1>u DEF Inv, EventsCounted
  <2>2. Announced'
    <3> SUFFICES ASSUME NEW j \in Active, timer'[j].ready
                 PROVE  ToldSupervisor(j)' /\ ToldWait(j)'
      BY <1>3 DEF Announced
    <3>1. j \in Starts /\ (timer[j].ready => ToldSupervisor(j) /\ ToldWait(j))
      BY DEF Inv, Announced, Active
    <3>2. timer'[j].signals > 0 \/ (timer[j].ready /\ timer'[j].signals = timer[j].signals)
      BY <1>2, <3>1
    <3>3. QED
      BY <1>u, <3>1, <3>2 DEF ToldSupervisor, ToldWait, who
  <2>3. OneShot'
    BY <1>3, <1>4, <1>u DEF Inv, OneShot, package
  <2>4. Pending'
    BY <1>u DEF Inv, Pending, package
  <2>5. QED
    BY <2>1, <2>2, <2>3, <2>4
<1>8. QED
  BY <1>5, <1>6, <1>7 DEF Inv

LEMMA MarkReadySignalKeeps ==
  ASSUME Inv, NEW i \in Starts, MarkReadySignal(i)
  PROVE  Inv'
<1>1. /\ timer[i] \in Timer /\ MaxSignals \in Nat
      /\ wake' \in BOOLEAN /\ supervisor' \in BOOLEAN /\ UNCHANGED <<missed, foreground, calls>>
  BY TimersAssumption DEF MarkReadySignal, SignalWake, who, Inv, TypeOK
<1>2. /\ timer' \in [Starts -> Timer]
      /\ \A j \in Starts : /\ timer'[j].state = timer[j].state
                           /\ timer'[j].stopped = timer[j].stopped
                           /\ timer'[j].armed = timer[j].armed
                           /\ timer'[j].firing = timer[j].firing
                           /\ timer'[j].ready = timer[j].ready
                           /\ j # i => timer'[j] = timer[j]
      /\ timer[i].signals > 0
  <2> DEFINE t == [timer[i] EXCEPT !.signals = timer[i].signals - 1]
  <2>1. timer' = [timer EXCEPT ![i] = t] /\ timer \in [Starts -> Timer] /\ timer[i].signals > 0
    BY DEF MarkReadySignal, Inv, TypeOK
  <2>2. t \in Timer
    <3>1. timer[i].signals - 1 \in 0..MaxSignals
      BY <1>1, <2>1 DEF Timer
    <3>2. QED
      BY <1>1, <3>1 DEF Timer
  <2>3. /\ t.state = timer[i].state /\ t.stopped = timer[i].stopped
        /\ t.armed = timer[i].armed /\ t.firing = timer[i].firing
        /\ t.ready = timer[i].ready
    BY <1>1 DEF Timer
  <2> HIDE DEF t
  <2>4. QED
    BY <1>1, <2>1, <2>2, <2>3 DEF Timer
<1>3. Active' = Active
  BY <1>2 DEF Active
<1>4. Periodic' = Periodic
  BY DEF MarkReadySignal, Periodic, package
<1>5. TypeOK'
  BY <1>1, <1>2 DEF MarkReadySignal, Inv, TypeOK, package
<1>6. Lives' /\ Drains' /\ Sourced'
  BY <1>2, <1>3, <1>4 DEF MarkReadySignal, Inv, Lives, Drains, Sourced, OneOf, package, Active
<1>7. (wake => wake') /\ (supervisor => supervisor') /\ UNCHANGED <<owner, todo>>
  BY DEF MarkReadySignal, SignalWake, who
<1>8. i \in Active => wake' /\ supervisor'
  BY DEF MarkReadySignal, SignalWake, Active
<1>9. Announced'
  <2> SUFFICES ASSUME NEW j \in Active, timer'[j].ready
               PROVE  ToldSupervisor(j)' /\ ToldWait(j)'
    BY <1>3 DEF Announced
  <2>1. j \in Starts /\ ToldSupervisor(j) /\ ToldWait(j)
    BY <1>2 DEF Inv, Announced, Active
  <2>2. (wake' /\ supervisor') \/ timer'[j] = timer[j]
    BY <1>2, <1>8, <2>1
  <2>3. QED
    BY <1>1, <1>7, <2>1, <2>2 DEF ToldSupervisor, ToldWait
<1>10. EventsCounted' /\ OneShot' /\ Pending'
  BY <1>2, <1>3, <1>4 DEF MarkReadySignal, Inv, EventsCounted, OneShot, Pending,
        package, Active
<1>11. QED
  BY <1>5, <1>6, <1>9, <1>10 DEF Inv

-----------------------------------------------------------------------------
(***************************************************************************)
(* The owner: Wait and the drain.                                          *)
(***************************************************************************)
\* Tokens, calls, starting a drain, passing a timer that is not ready and ending
\* the drain change no timer and nothing of the package.
LEMMA OwnerMovesKeep ==
  ASSUME Inv,
         \/ OtherWake \/ Wait \/ Supervise \/ Foreground \/ DrainBegin \/ DrainEnd
         \/ \E i \in Starts : DrainSkip(i)
  PROVE  Inv'
<1> USE DEF ToldSupervisor, ToldWait
<1>1. /\ UNCHANGED <<timer, signal, canceled, events, rearm>>
      /\ UNCHANGED package
  BY DEF OtherWake, Wait, WaitPolls, Wake, Supervise, Foreground, ForegroundStarts,
     ForegroundEnds, DrainBegin, DrainEnd, DrainSkip
<1>2. Active' = Active /\ Periodic' = Periodic
  BY <1>1 DEF Active, Periodic, package
<1>3. /\ wake' \in BOOLEAN /\ supervisor' \in BOOLEAN /\ missed' \in BOOLEAN
      /\ foreground' \in {"none", "started", "pending"} /\ calls' \in Nat
      /\ owner' \in {"wait", "run", "drain", "down"} /\ todo' \subseteq Starts
      /\ Drains' /\ Announced'
  <2>1. CASE OtherWake
    BY <1>1, <1>2, <2>1 DEF OtherWake, SignalWake, Inv, TypeOK, Drains, Announced
  <2>2. CASE WaitPolls
    BY <1>1, <1>2, <2>2 DEF WaitPolls, Inv, TypeOK, Drains, Announced
  <2>3. CASE Wake
    BY <1>1, <1>2, <2>3 DEF Wake, who, Inv, TypeOK, Drains, Announced
  <2>4. CASE Supervise
    BY <1>1, <1>2, <2>4 DEF Supervise, Inv, TypeOK, Drains, Announced
  <2>5. CASE ForegroundStarts
    BY <1>1, <1>2, <2>5, TimersAssumption DEF ForegroundStarts, Inv, TypeOK, Drains, Announced
  <2>6. ASSUME NEW completes \in BOOLEAN, ForegroundEnds(completes)
        PROVE  /\ supervisor' \in BOOLEAN /\ missed' \in BOOLEAN /\ owner' = "wait"
               /\ foreground' = "none" /\ UNCHANGED <<wake, calls, todo>>
               /\ Drains' /\ Announced'
    <3>1. /\ owner = "run" /\ foreground = "pending" /\ owner' = "wait" /\ foreground' = "none"
          /\ UNCHANGED <<wake, calls, todo>>
          /\ supervisor' \in BOOLEAN /\ missed' \in BOOLEAN
          /\ (supervisor => supervisor') /\ (missed => missed')
      BY <2>6 DEF ForegroundEnds, Inv, TypeOK
    <3>2. QED
      BY <1>1, <1>2, <3>1 DEF Inv, Drains, Announced
  <2>7. CASE DrainBegin
    BY <1>1, <1>2, <2>7 DEF DrainBegin, who, Inv, TypeOK, Drains, Announced, Active
  <2>8. CASE DrainEnd
    BY <1>1, <1>2, <2>8 DEF DrainEnd, who, Inv, TypeOK, Drains, Announced
  <2>9. ASSUME NEW i \in Starts, DrainSkip(i)
        PROVE  todo' \subseteq Starts /\ UNCHANGED <<wake, who, owner>> /\ Drains' /\ Announced'
    BY <1>1, <1>2, <2>9 DEF DrainSkip, who, Inv, TypeOK, Drains, Announced
  <2>10. QED
    BY <2>1, <2>2, <2>3, <2>4, <2>5, <2>6, <2>7, <2>8, <2>9 DEF Wait, Foreground, Inv, TypeOK, who
<1>4. TypeOK'
  BY <1>1, <1>3 DEF Inv, TypeOK, package
<1>5. Lives' /\ Sourced' /\ EventsCounted' /\ OneShot' /\ Pending'
  BY <1>1, <1>2 DEF Inv, Lives, Sourced, EventsCounted, OneShot, Pending, package
<1>6. QED
  BY <1>3, <1>4, <1>5 DEF Inv

\* A ticker's timer stays and is taken out of its sources until it is re-armed;
\* a one-shot timer is removed with its event.
LEMMA DrainDeliverKeeps ==
  ASSUME Inv, NEW i \in Starts, DrainDeliver(i)
  PROVE  Inv'
<1> DEFINE is == IF Periodic THEN {} ELSE {i}
<1>1. is \subseteq Active /\ i \in Active /\ i \in todo /\ rearm = 0 /\ owner = "drain"
  BY DEF DrainDeliver, Inv, Drains
<1>2. UNCHANGED <<go, object, user, channel, history, canceled, wake, who, owner>>
  BY DEF DrainDeliver, package
<1>3. Periodic' = Periodic
  BY <1>2 DEF Periodic
<1>4. /\ timer' \in [Starts -> Timer]
      /\ \A j \in Starts : j # i => timer'[j] = timer[j]
      /\ timer'[i].state = (IF Periodic THEN "active" ELSE "removed")
      /\ timer'[i].stopped <=> ~Periodic
      /\ ~timer'[i].armed /\ ~timer'[i].firing /\ ~timer'[i].ready
  <2>1. CASE Periodic
    <3>1. timer' = [timer EXCEPT ![i].ready = FALSE]
      BY <2>1 DEF DrainDeliver
    <3>2. timer[i] \in Timer /\ timer[i].ready /\ timer[i].state = "active" /\ ~timer[i].stopped
      BY <1>1 DEF DrainDeliver, Inv, TypeOK, Lives, Active
    <3>3. ~timer[i].armed /\ ~timer[i].firing
      BY <1>1, <3>2 DEF Inv, Sourced, OneOf, Starts
    <3>4. QED
      BY <2>1, <3>1, <3>2, <3>3 DEF Inv, TypeOK, Timer
  <2>2. CASE ~Periodic
    <3>1. timer' = [Removed({i}) EXCEPT ![i].ready = FALSE]
      BY <2>2 DEF DrainDeliver
    <3>2. ~timer[i].firing
      BY <1>1 DEF DrainDeliver, Inv, Sourced, OneOf, Starts
    <3>3. /\ Removed({i}) \in [Starts -> Timer]
          /\ Removed({i})[i].state = "removed" /\ Removed({i})[i].stopped
          /\ ~Removed({i})[i].armed /\ ~Removed({i})[i].firing
          /\ \A j \in Starts : j # i => Removed({i})[j] = timer[j]
      <4>1. is = {i}
        BY <2>2
      <4>2. TypeOK /\ EventsCounted
        BY DEF Inv
      <4>3. is \subseteq Active
        BY <1>1
      <4> HIDE DEF is
      <4>4. /\ Removed(is) \in [Starts -> Timer]
            /\ \A j \in is : /\ Removed(is)[j].state = "removed" /\ Removed(is)[j].stopped
                             /\ ~Removed(is)[j].armed /\ ~Removed(is)[j].ready
                             /\ Removed(is)[j].firing = timer[j].firing
                             /\ Removed(is)[j].signals = timer[j].signals
            /\ \A j \in Starts \ is : Removed(is)[j] = timer[j]
        BY <4>2, <4>3, Removing
      <4>5. QED
        BY <3>2, <4>1, <4>4
    <3>4. QED
      BY <2>2, <3>1, <3>3 DEF Timer
  <2>3. QED
    BY <2>1, <2>2
<1>5. Active' = Active \ is
  BY <1>1, <1>4 DEF Active
<1>6. /\ events' = Cardinality(Active \ is) /\ events' \in 0..MaxPendingEvents
  <2>1. CASE Periodic
    BY <1>1, <2>1 DEF DrainDeliver, Inv, EventsCounted, TypeOK
  <2>2. CASE ~Periodic
    <3>1. events' = events - Cardinality(is)
      BY <2>2, FS_Singleton DEF DrainDeliver
    <3>2. is \subseteq Active /\ TypeOK /\ EventsCounted
      BY <1>1 DEF Inv
    <3> HIDE DEF is
    <3>3. QED
      BY <3>1, <3>2, Removing
  <2>3. QED
    BY <2>1, <2>2
<1>7. /\ todo' = todo \ {i} /\ rearm' = (IF Periodic THEN i ELSE 0)
      /\ signal' = [signal EXCEPT ![i].buffered = 1]
  BY DEF DrainDeliver
<1>8. /\ signal' \in [Starts -> [buffered : 0..1, closed : BOOLEAN]]
      /\ \A j \in Starts : signal'[j].closed = signal[j].closed
      /\ \A j \in Starts : j # i => signal'[j] = signal[j]
  <2>1. signal[i] \in [buffered : 0..1, closed : BOOLEAN]
        /\ signal \in [Starts -> [buffered : 0..1, closed : BOOLEAN]]
    BY DEF Inv, TypeOK
  <2>2. [signal[i] EXCEPT !.buffered = 1] \in [buffered : 0..1, closed : BOOLEAN]
        /\ [signal[i] EXCEPT !.buffered = 1].closed = signal[i].closed
    BY <2>1
  <2>3. QED
    BY <1>7, <2>1, <2>2
<1> HIDE DEF is
<1>9. TypeOK'
  <2>1. todo' \subseteq Starts /\ rearm' \in 0..MaxStarts
    BY <1>7, TimersAssumption DEF Inv, TypeOK, Starts
  <2>2. QED
    BY <1>2, <1>4, <1>6, <1>8, <2>1 DEF Inv, TypeOK, who
<1>10. Lives' /\ EventsCounted' /\ Pending'
  <2>1. Lives'
    BY <1>1, <1>2, <1>4, <1>8 DEF Inv, Lives, Active
  <2>2. EventsCounted' /\ Pending'
    BY <1>2, <1>5, <1>6 DEF Inv, EventsCounted, Pending
  <2>3. QED
    BY <2>1, <2>2
<1>11. Drains' /\ Sourced' /\ Announced'
  <2>1. Active' \subseteq Active /\ (Periodic => Active' = Active) /\ (~Periodic => i \notin Active')
    BY <1>5 DEF is
  <2>2. Active' \subseteq Starts /\ todo \subseteq Active /\ \A j \in Active : j # i => j \in Active'
    BY <1>5 DEF Active, Inv, Drains, is
  <2>3. 0 \notin Starts
    BY DEF Starts
  <2>4. QED
    <3>1. Drains' /\ Sourced'
      BY <1>1, <1>2, <1>3, <1>4, <1>7, <2>1, <2>2, <2>3 DEF Inv, Drains, Sourced
    <3>2. \A j \in Active' : timer'[j].ready => j \in Active /\ j # i /\ timer'[j] = timer[j]
      BY <1>4, <2>1, <2>2
    <3>3. Announced'
      BY <1>2, <1>7, <3>2 DEF Inv, Announced, ToldSupervisor, ToldWait, who
    <3>4. QED
      BY <3>1, <3>3
<1>12. OneShot'
  <2>1. SUFFICES ASSUME ~Periodic PROVE OneShot'
    BY <1>3 DEF OneShot
  <2>2. i \notin Active' /\ \A j \in Starts : j \in Active' => j \in Active
    BY <2>1, <1>5 DEF is
  <2>3. ~history[i].stopped
    BY <1>1, <2>1 DEF Inv, OneShot
  <2>4. QED
    BY <1>2, <1>3, <1>8, <2>1, <2>2, <2>3 DEF Inv, OneShot
<1>13. QED
  BY <1>9, <1>10, <1>11, <1>12 DEF Inv

LEMMA DrainRearmKeeps ==
  ASSUME Inv, DrainRearm
  PROVE  Inv'
<1>1. rearm \in Active /\ Periodic /\ rearm \in Starts /\ rearm # 0 /\ rearm \notin todo
      /\ owner = "drain"
  BY DEF DrainRearm, Inv, Drains, Active
<1>2. /\ timer' \in [Starts -> Timer]
      /\ \A j \in Starts : j # rearm => timer'[j] = timer[j]
      /\ timer'[rearm].state = "active" /\ ~timer'[rearm].stopped
      /\ timer'[rearm].armed /\ ~timer'[rearm].firing /\ ~timer'[rearm].ready
  <2>1. timer' = [timer EXCEPT ![rearm].armed = TRUE] /\ timer \in [Starts -> Timer]
    BY DEF DrainRearm, Inv, TypeOK
  <2>2. /\ timer[rearm] \in Timer /\ timer[rearm].state = "active" /\ ~timer[rearm].stopped
        /\ ~timer[rearm].firing /\ ~timer[rearm].ready
    BY <1>1, <2>1 DEF Inv, Drains, Lives, Active
  <2>3. QED
    BY <1>1, <2>1, <2>2 DEF Timer
<1>3. Active' = Active
  BY <1>1, <1>2 DEF Active
<1>4. rearm' = 0 /\ UNCHANGED <<signal, canceled, events, wake, who, owner, todo>> /\ UNCHANGED package
  BY DEF DrainRearm
<1>5. Periodic' = Periodic
  BY <1>4 DEF Periodic, package
<1>6. TypeOK'
  BY <1>2, <1>4, TimersAssumption DEF Inv, TypeOK, package, who
<1>7. Lives' /\ Drains' /\ Sourced'
  BY <1>1, <1>2, <1>3, <1>4, <1>5 DEF Inv, Lives, Drains, Sourced, OneOf, package, Active
<1>8. EventsCounted' /\ OneShot' /\ Pending'
  BY <1>1, <1>2, <1>3, <1>4, <1>5 DEF Inv, EventsCounted, OneShot, Pending, package, Active
<1>9. Announced'
  <2>1. \A j \in Active' : timer'[j].ready => j \in Active /\ timer'[j] = timer[j]
    BY <1>2, <1>3 DEF Active
  <2>2. QED
    BY <1>4, <2>1 DEF Inv, Announced, ToldSupervisor, ToldWait, who
<1>10. QED
  BY <1>6, <1>7, <1>8, <1>9 DEF Inv

LEMMA DrainClockFailsKeeps ==
  ASSUME Inv, DrainClockFails
  PROVE  Inv'
<1>1. /\ timer' = Removed(Active) /\ events' = events - Cardinality(Active)
      /\ owner' = "down" /\ todo' = {} /\ rearm' = 0
      /\ UNCHANGED <<signal, canceled, wake, who>> /\ UNCHANGED package
  BY DEF DrainClockFails
<1>2. Periodic
  BY DEF DrainClockFails, Inv, Drains
<1>3. Periodic'
  BY <1>1, <1>2 DEF Periodic, package
<1>4. /\ timer' \in [Starts -> Timer]
      /\ \A j \in Active : timer'[j].state = "removed" /\ timer'[j].stopped /\ ~timer'[j].armed
      /\ \A j \in Starts \ Active : timer'[j] = timer[j]
      /\ Active' = Active \ Active
      /\ events' = Cardinality(Active \ Active) /\ events' \in 0..MaxPendingEvents
  <2>1. Active \subseteq Active /\ TypeOK /\ EventsCounted
    BY DEF Inv
  <2>2. Active' = {j \in Starts : timer'[j].state = "active"}
    BY DEF Active
  <2>3. PICK a : a = Active
    OBVIOUS
  <2>4. a \subseteq Active /\ TypeOK /\ EventsCounted
    BY <2>1, <2>3
  <2>5. /\ Removed(a) \in [Starts -> Timer]
        /\ \A j \in a : Removed(a)[j].state = "removed" /\ Removed(a)[j].stopped
                         /\ ~Removed(a)[j].armed
        /\ \A j \in Starts \ a : Removed(a)[j] = timer[j]
    BY <2>4, Removing
  <2>6. /\ {j \in Starts : Removed(a)[j].state = "active"} = Active \ a
        /\ events - Cardinality(a) = Cardinality(Active \ a)
        /\ events - Cardinality(a) \in 0..MaxPendingEvents
    BY <2>4, Removing
  <2>7. timer' = Removed(a) /\ events' = events - Cardinality(a)
    BY <1>1, <2>3
  <2>8. QED
    BY <2>2, <2>3, <2>5, <2>6, <2>7
<1>5. Active' = {}
  BY <1>4
<1>6. TypeOK'
  BY <1>1, <1>4, TimersAssumption DEF Inv, TypeOK, package, who
<1>7. Lives'
  BY <1>1, <1>4 DEF Inv, Lives, package, Active
<1>8. Drains' /\ Sourced' /\ EventsCounted' /\ Announced' /\ OneShot'
  BY <1>1, <1>3, <1>4, <1>5 DEF Drains, Sourced, EventsCounted, Announced, OneShot
<1>9. Pending'
  BY <1>1 DEF Inv, Pending, package
<1>10. QED
  BY <1>6, <1>7, <1>8, <1>9 DEF Inv

-----------------------------------------------------------------------------
(***************************************************************************)
(* The object's methods.                                                   *)
(***************************************************************************)
LEMMA StartKeeps ==
  ASSUME Inv, NEW ready \in BOOLEAN, NEW active \in BOOLEAN, Start(ready, active), owner = "run"
  PROVE  Inv'
<1> DEFINE n == NextStart
           new == [NoTimer EXCEPT !.state = "active", !.ready = ready, !.armed = ~ready]
<1>1. /\ n \in Starts /\ n > object.current /\ n # 0 /\ n = object.current + 1
      /\ object \in Object /\ object.current \in 0..MaxStarts
  BY TimersAssumption DEF Start, Callable, NextStart, Starts, Inv, TypeOK, Object
<1>2. /\ timer[n].state = "unused" /\ signal[n].buffered = 0 /\ ~signal[n].closed /\ go[n] = "none"
      /\ ~history[n].stopped /\ ~history[n].fired
  BY <1>1 DEF Inv, Lives
<1>3. UNCHANGED <<signal, canceled, owner, todo, rearm, channel, history>>
  BY DEF Start
<1>4. /\ new \in Timer /\ new.state = "active" /\ ~new.stopped /\ new.signals = 0
      /\ ~new.firing /\ (new.armed <=> ~ready) /\ (new.ready <=> ready)
  <2>1. NoTimer \in Timer /\ ~NoTimer.stopped /\ NoTimer.signals = 0 /\ ~NoTimer.firing
    BY TimersAssumption DEF Timer, NoTimer
  <2>2. QED
    BY <2>1 DEF Timer
<1>5. timer' = [timer EXCEPT ![n] = new] /\ timer \in [Starts -> Timer]
  BY DEF Start, Inv, TypeOK
<1> HIDE DEF new
<1>6. /\ timer' \in [Starts -> Timer] /\ timer'[n] = new
      /\ \A j \in Starts : j # n => timer'[j] = timer[j]
  BY <1>1, <1>4, <1>5
<1>7. Active' = Active \cup {n} /\ n \notin Active /\ Active \subseteq Starts
  BY <1>1, <1>2, <1>4, <1>6 DEF Active
<1>8. /\ object' \in Object /\ object'.kind = object.kind
      /\ object'.generation = n /\ object'.current = n
  <2>1. object' = [object EXCEPT !.active = active, !.generation = n, !.current = n]
    BY DEF Start
  <2>2. n \in 0..MaxStarts
    BY <1>1, TimersAssumption DEF Starts
  <2> HIDE DEF n
  <2>3. QED
    BY <1>1, <2>1, <2>2 DEF Object
<1>9. Periodic' = Periodic
  BY <1>8 DEF Periodic
<1>10. /\ go' \in [Starts -> {"none", "recv", "check", "clear", "send", "blocked", "ended"}]
       /\ go'[n] = "recv" /\ \A j \in Starts : j # n => go'[j] = go[j]
  BY <1>1 DEF Start, Inv, TypeOK
<1>11. /\ events' = events + 1 /\ events' \in 0..MaxPendingEvents /\ user' = "idle"
       /\ wake' \in BOOLEAN /\ supervisor' \in BOOLEAN /\ (supervisor => supervisor')
       /\ (ready => supervisor') /\ UNCHANGED <<missed, foreground, calls>>
  <2>1. /\ wake \in BOOLEAN /\ supervisor \in BOOLEAN /\ events \in 0..MaxPendingEvents
        /\ MaxPendingEvents \in Nat
    BY TimersAssumption DEF Inv, TypeOK
  <2>2. events' = events + 1 /\ events < MaxPendingEvents /\ user' = "idle"
    BY DEF Start
  <2>3. events' \in 0..MaxPendingEvents
    BY <2>1, <2>2
  <2>4. \/ ready /\ wake' = TRUE /\ supervisor' = TRUE /\ UNCHANGED <<missed, foreground, calls>>
        \/ ~ready /\ UNCHANGED <<wake, supervisor, missed, foreground, calls>>
    BY DEF Start, SignalWake, who
  <2>5. QED
    BY <2>1, <2>2, <2>3, <2>4
<1>12. TypeOK'
  BY <1>3, <1>6, <1>8, <1>10, <1>11 DEF Inv, TypeOK
<1> HIDE DEF n
<1>13. Lives'
  BY <1>1, <1>2, <1>3, <1>4, <1>6, <1>8, <1>10 DEF Inv, Lives, Starts
<1>14. todo = {} /\ rearm = 0 /\ 0 \notin Starts
  BY DEF Inv, Drains, Starts
<1>15. Drains' /\ Announced'
  <2>1. Drains' /\ owner' = "run"
    BY <1>3, <1>14 DEF Drains
  <2>2. ASSUME NEW j \in Active', timer'[j].ready
        PROVE  ToldSupervisor(j)'
    <3>1. CASE j = n
      BY <1>4, <1>6, <1>11, <2>2, <3>1 DEF ToldSupervisor
    <3>2. CASE j # n
      <4>1. j \in Active /\ timer'[j] = timer[j]
        BY <1>6, <1>7, <3>2
      <4>2. ToldSupervisor(j)
        BY <2>2, <4>1 DEF Inv, Announced
      <4>3. QED
        BY <1>3, <1>11, <4>1, <4>2 DEF ToldSupervisor
    <3>3. QED
      BY <3>1, <3>2
  <2>3. QED
    BY <2>1, <2>2 DEF Announced, ToldWait
<1>16. Sourced'
  BY <1>3, <1>4, <1>6, <1>7, <1>14 DEF Inv, Sourced, OneOf
<1>17. EventsCounted'
  <2>1. n \in Starts \ Active /\ Active \subseteq Starts
    BY <1>1, <1>7
  <2>2. Cardinality(Active \cup {n}) = Cardinality(Active) + 1
    BY <2>1, AddStart
  <2>3. QED
    BY <1>7, <1>11, <2>2 DEF Inv, EventsCounted
<1>18. OneShot'
  BY <1>1, <1>2, <1>3, <1>7, <1>9, <1>10 DEF Inv, OneShot
<1>19. Pending'
  <2>1. {j \in Starts : go'[j] = "blocked"} = {j \in Starts : go[j] = "blocked"}
    BY <1>1, <1>2, <1>10
  <2>2. QED
    BY <1>3, <2>1 DEF Inv, Pending
<1>20. QED
  BY <1>12, <1>13, <1>15, <1>16, <1>17, <1>18, <1>19 DEF Inv

\* StartFails, the end of Stop and the first assignment of Reset change the object
\* only.
LEMMA ObjectMovesKeep ==
  ASSUME Inv, NEW active \in BOOLEAN, StartFails(active) \/ StopReturns \/ ResetActivates
  PROVE  Inv'
<1>1. UNCHANGED runtime /\ UNCHANGED <<go, channel, history>>
      /\ user' \in {"idle", "starting"}
  BY DEF StartFails, StopReturns, ResetActivates
<1>2. /\ object' \in Object /\ object'.kind = object.kind
      /\ object'.current \in {object.current, NextStart}
  <2>1. object \in Object /\ MaxStarts \in Nat
    BY TimersAssumption DEF Inv, TypeOK
  <2>2. CASE StartFails(active)
    <3>1. object' = [object EXCEPT !.active = active, !.generation = NextStart, !.current = NextStart]
          /\ NextStart \in Starts
      BY <2>2 DEF StartFails, Callable
    <3>2. NextStart \in 0..MaxStarts
      BY <2>1, <3>1 DEF Starts
    <3>3. QED
      BY <2>1, <3>1, <3>2 DEF Object
  <2>3. CASE StopReturns
    <3>1. object' = object \/ object' = [object EXCEPT !.active = FALSE, !.generation = 0]
      BY <2>3 DEF StopReturns
    <3>2. object' \in Object /\ object'.kind = object.kind /\ object'.current = object.current
      <4> DEFINE o == [object EXCEPT !.active = FALSE, !.generation = 0]
      <4>1. o \in Object /\ o.kind = object.kind /\ o.current = object.current
        <5>1. 0 \in 0..MaxStarts
          BY <2>1
        <5>2. QED
          BY <2>1, <5>1 DEF Object
      <4> HIDE DEF o
      <4>2. CASE object' = o
        BY <4>1, <4>2
      <4>3. CASE object' = object
        BY <2>1, <4>3
      <4>4. QED
        BY <3>1, <4>2, <4>3 DEF o
    <3>3. QED
      BY <3>2
  <2>4. CASE ResetActivates
    BY <2>1, <2>4 DEF ResetActivates, Object
  <2>5. QED
    BY <2>2, <2>3, <2>4
<1>3. NextStart = object.current + 1 /\ object.current \in Nat /\ object'.current >= object.current
  BY <1>2 DEF NextStart, Inv, TypeOK, Object
<1>4. Active' = Active /\ Periodic' = Periodic
  BY <1>1, <1>2 DEF Active, Periodic, runtime
<1>5. TypeOK'
  BY <1>1, <1>2 DEF Inv, TypeOK, runtime, who
<1>6. Lives'
  <2>1. \A j \in Starts : j > object'.current => j > object.current
    BY <1>2, <1>3 DEF Starts, Object
  <2>2. QED
    BY <1>1, <2>1 DEF Inv, Lives, runtime
<1>7. Drains' /\ Sourced' /\ EventsCounted' /\ Announced' /\ OneShot'
  BY <1>1, <1>4 DEF Inv, Drains, Sourced, EventsCounted, Announced, ToldSupervisor, ToldWait,
     OneShot, runtime, who
<1>8. Pending'
  BY <1>1 DEF Inv, Pending
<1>9. QED
  BY <1>5, <1>6, <1>7, <1>8 DEF Inv

LEMMA StopIntrinsicKeeps ==
  ASSUME Inv, NEW next \in {"stop", "reset"}, StopIntrinsic(next)
  PROVE  Inv'
<1> DEFINE i == object.current
           is == {i} \cap Active
<1>1. /\ i \in Starts /\ object \in Object /\ owner = "run" /\ is \subseteq Active
      /\ todo = {} /\ rearm = 0 /\ 0 \notin Starts
  BY DEF StopIntrinsic, Inv, TypeOK, Object, Starts, Drains
<1>2. /\ timer' = Removed(is) /\ events' = events - Cardinality(is)
      /\ signal' = [signal EXCEPT ![i].closed = @ \/ i \in Active]
      /\ history' = [history EXCEPT ![i].stopped = @ \/ i \in Active]
      /\ user' \in {"resetting", "stopped", "stopping"}
      /\ UNCHANGED <<canceled, wake, who, owner, todo, rearm, go, object, channel>>
  BY DEF StopIntrinsic
<1>3. TypeOK /\ EventsCounted
  BY DEF Inv
<1> HIDE DEF i, is
<1>4. /\ timer' \in [Starts -> Timer]
      /\ \A j \in is : timer'[j].state = "removed" /\ timer'[j].stopped /\ ~timer'[j].armed
      /\ \A j \in Starts \ is : timer'[j] = timer[j]
      /\ Active' = Active \ is
      /\ events' = Cardinality(Active \ is) /\ events' \in 0..MaxPendingEvents
  <2>1. Active' = {j \in Starts : timer'[j].state = "active"}
    BY DEF Active
  <2>2. is \subseteq Active
    BY <1>1
  <2>3. /\ Removed(is) \in [Starts -> Timer]
        /\ \A j \in is : Removed(is)[j].state = "removed" /\ Removed(is)[j].stopped
                         /\ ~Removed(is)[j].armed
        /\ \A j \in Starts \ is : Removed(is)[j] = timer[j]
    BY <1>3, <2>2, Removing
  <2>4. /\ {j \in Starts : Removed(is)[j].state = "active"} = Active \ is
        /\ events - Cardinality(is) = Cardinality(Active \ is)
        /\ events - Cardinality(is) \in 0..MaxPendingEvents
    BY <1>3, <2>2, Removing
  <2>5. QED
    BY <1>2, <2>1, <2>3, <2>4
<1>5. /\ signal' \in [Starts -> [buffered : 0..1, closed : BOOLEAN]]
      /\ \A j \in Starts : signal'[j].buffered = signal[j].buffered
      /\ \A j \in Starts : j # i => signal'[j] = signal[j]
      /\ signal'[i].closed <=> signal[i].closed \/ i \in Active
  <2> DEFINE t == [signal[i] EXCEPT !.closed = @ \/ i \in Active]
  <2>1. signal[i] \in [buffered : 0..1, closed : BOOLEAN]
        /\ signal \in [Starts -> [buffered : 0..1, closed : BOOLEAN]]
    BY <1>1, <1>3 DEF TypeOK
  <2>2. t \in [buffered : 0..1, closed : BOOLEAN] /\ t.buffered = signal[i].buffered
        /\ (t.closed <=> signal[i].closed \/ i \in Active)
    BY <2>1
  <2>3. signal' = [signal EXCEPT ![i] = t]
    BY <1>2
  <2> HIDE DEF t
  <2>4. QED
    BY <1>1, <2>1, <2>2, <2>3
<1>6. /\ history' \in [Starts -> [stopped : BOOLEAN, fired : BOOLEAN]]
      /\ \A j \in Starts : history'[j].fired = history[j].fired
      /\ \A j \in Starts : j # i => history'[j] = history[j]
      /\ history'[i].stopped <=> history[i].stopped \/ i \in Active
  <2> DEFINE H == [stopped : BOOLEAN, fired : BOOLEAN]
             t == [history[i] EXCEPT !.stopped = @ \/ i \in Active]
  <2>1. history[i] \in H /\ history \in [Starts -> H]
    BY <1>1, <1>3 DEF TypeOK
  <2>2. t \in H /\ t.fired = history[i].fired
        /\ (t.stopped <=> history[i].stopped \/ i \in Active)
    BY <2>1
  <2>3. history' = [history EXCEPT ![i] = t]
    BY <1>2
  <2> HIDE DEF t, H
  <2>4. history' \in [Starts -> H] /\ history'[i] = t
        /\ \A j \in Starts : j # i => history'[j] = history[j]
    BY <1>1, <2>1, <2>2, <2>3
  <2>5. QED
    BY <2>2, <2>4 DEF H
<1>7. Periodic' = Periodic
  BY <1>2 DEF Periodic
<1>8. TypeOK'
  BY <1>2, <1>3, <1>4, <1>5, <1>6 DEF TypeOK, who
<1>9. \A j \in Starts : j \in is <=> j = i /\ j \in Active
  BY <1>1 DEF is
<1>10. Lives'
  BY <1>1, <1>2, <1>4, <1>5, <1>6, <1>9 DEF Inv, Lives, Active
<1>11. Drains' /\ EventsCounted'
  BY <1>1, <1>2, <1>4 DEF Drains, EventsCounted
<1>12. Sourced' /\ Announced'
  BY <1>1, <1>2, <1>4 DEF Inv, Sourced, Announced, ToldSupervisor, ToldWait, Active, who
<1>13. OneShot'
  BY <1>1, <1>2, <1>4, <1>5, <1>6, <1>7, <1>9 DEF Inv, OneShot
<1>14. Pending'
  BY <1>2 DEF Inv, Pending
<1>15. QED
  BY <1>8, <1>10, <1>11, <1>12, <1>13, <1>14 DEF Inv

-----------------------------------------------------------------------------
(***************************************************************************)
(* The goroutine of a start, the readers of the channel, cancellation.     *)
(***************************************************************************)
LEMMA GoReceiveKeeps ==
  ASSUME Inv, NEW i \in Starts, GoReceive(i)
  PROVE  Inv'
<1>1. /\ go[i] = "recv" /\ owner = "run"
      /\ UNCHANGED <<timer, canceled, events, wake, who, owner, todo, rearm>>
      /\ UNCHANGED <<object, user, channel, history>>
  BY DEF GoReceive, Owns
<1>2. /\ go' \in [Starts -> {"none", "recv", "check", "clear", "send", "blocked", "ended"}]
      /\ go'[i] \in {"check", "ended"}
      /\ go'[i] = "check" => signal[i].buffered = 1
      /\ go'[i] = "ended" => signal[i].closed
      /\ \A j \in Starts : j # i => go'[j] = go[j]
  BY DEF GoReceive, Inv, TypeOK
<1>3. /\ signal' \in [Starts -> [buffered : 0..1, closed : BOOLEAN]]
      /\ \A j \in Starts : signal'[j].closed = signal[j].closed
      /\ \A j \in Starts : j # i => signal'[j] = signal[j]
      /\ signal'[i].buffered = 0
  <2> DEFINE t == [signal[i] EXCEPT !.buffered = 0]
  <2>1. signal[i] \in [buffered : 0..1, closed : BOOLEAN]
        /\ signal \in [Starts -> [buffered : 0..1, closed : BOOLEAN]]
    BY DEF Inv, TypeOK
  <2>2. t \in [buffered : 0..1, closed : BOOLEAN] /\ t.closed = signal[i].closed /\ t.buffered = 0
    BY <2>1
  <2>3. \/ signal' = [signal EXCEPT ![i] = t]
        \/ signal[i].buffered = 0 /\ signal' = signal
    BY DEF GoReceive
  <2> HIDE DEF t
  <2>4. QED
    BY <2>1, <2>2, <2>3
<1>4. Active' = Active /\ Periodic' = Periodic
  BY <1>1 DEF Active, Periodic
<1>5. TypeOK'
  BY <1>1, <1>2, <1>3 DEF Inv, TypeOK, who
<1>6. Lives'
  BY <1>1, <1>2, <1>3 DEF Inv, Lives
<1>7. Drains' /\ Sourced' /\ EventsCounted' /\ Announced'
  BY <1>1, <1>4 DEF Inv, Drains, Sourced, EventsCounted, Announced, ToldSupervisor,
     ToldWait, who
<1>8. OneShot'
  <2>1. ASSUME ~Periodic, i \in Active
        PROVE  FALSE
    BY <1>2, <2>1 DEF Inv, OneShot, Lives, Active
  <2>2. ASSUME ~Periodic, history[i].stopped
        PROVE  go'[i] = "ended"
    BY <1>2, <2>2 DEF Inv, OneShot
  <2>3. QED
    BY <1>1, <1>2, <1>3, <1>4, <2>1, <2>2 DEF Inv, OneShot
<1>9. Pending'
  <2>1. {j \in Starts : go'[j] = "blocked"} = {j \in Starts : go[j] = "blocked"}
    BY <1>1, <1>2
  <2>2. QED
    BY <1>1, <1>2, <2>1 DEF Inv, Pending
<1>10. QED
  BY <1>5, <1>6, <1>7, <1>8, <1>9 DEF Inv

\* What the goroutine of a start records changes fired of that start only.
LEMMA Firing ==
  ASSUME TypeOK, NEW i \in Starts, history' = Fired(i) \/ UNCHANGED history
  PROVE  /\ history' \in [Starts -> [stopped : BOOLEAN, fired : BOOLEAN]]
         /\ \A j \in Starts : /\ history'[j].stopped = history[j].stopped
                              /\ j # i => history'[j] = history[j]
<1> DEFINE H == [stopped : BOOLEAN, fired : BOOLEAN]
           t == [history[i] EXCEPT !.fired = TRUE]
<1>1. history[i] \in H /\ history \in [Starts -> H]
  BY DEF TypeOK
<1>2. history' = [history EXCEPT ![i] = t] \/ history' = history
  BY DEF Fired
<1>3. t \in H /\ t.stopped = history[i].stopped
  BY <1>1
<1> HIDE DEF t, H
<1>4. /\ history' \in [Starts -> H] /\ history'[i] \in {t, history[i]}
      /\ \A j \in Starts : j # i => history'[j] = history[j]
  BY <1>1, <1>2, <1>3
<1>5. QED
  BY <1>3, <1>4 DEF H

\* Both steps of a goroutine between its signal and its send: its timer is neither
\* active nor stopped.
LEMMA GoDecidesKeeps ==
  ASSUME Inv, NEW i \in Starts, go[i] \in {"check", "clear"},
         UNCHANGED runtime, UNCHANGED <<user, channel>>,
         go' \in [Starts -> {"none", "recv", "check", "clear", "send", "blocked", "ended"}],
         go'[i] \in {"clear", "send", "recv", "ended"},
         \A j \in Starts : j # i => go'[j] = go[j],
         object' \in Object, object'.kind = object.kind, object'.current = object.current,
         history' = Fired(i) \/ UNCHANGED history
  PROVE  Inv'
<1>1. /\ history' \in [Starts -> [stopped : BOOLEAN, fired : BOOLEAN]]
      /\ \A j \in Starts : /\ history'[j].stopped = history[j].stopped
                           /\ j # i => history'[j] = history[j]
  BY Firing DEF Inv
<1>2. Active' = Active /\ Periodic' = Periodic
  BY DEF Active, Periodic, runtime
<1>3. TypeOK'
  BY <1>1 DEF Inv, TypeOK, runtime, who
<1>4. Lives'
  BY <1>1 DEF Inv, Lives, runtime
<1>5. Drains' /\ Sourced' /\ EventsCounted' /\ Announced'
  BY <1>2 DEF Inv, Drains, Sourced, EventsCounted, Announced, ToldSupervisor, ToldWait,
     runtime, who
<1>6. OneShot'
  <2>1. ASSUME ~Periodic
        PROVE  i \notin Active /\ ~history[i].stopped
    BY <2>1 DEF Inv, OneShot
  <2>2. QED
    BY <1>1, <1>2, <2>1 DEF Inv, OneShot, runtime
<1>7. Pending'
  <2>1. {j \in Starts : go'[j] = "blocked"} = {j \in Starts : go[j] = "blocked"}
    OBVIOUS
  <2>2. QED
    BY <1>1, <2>1 DEF Inv, Pending
<1>8. QED
  BY <1>3, <1>4, <1>5, <1>6, <1>7 DEF Inv

LEMMA GoCheckKeeps ==
  ASSUME Inv, NEW i \in Starts, GoCheck(i)
  PROVE  Inv'
<1>1. /\ go[i] = "check" /\ UNCHANGED runtime /\ UNCHANGED <<object, user, channel>>
      /\ history' = Fired(i) \/ UNCHANGED history
  BY DEF GoCheck
<1>2. /\ go' \in [Starts -> {"none", "recv", "check", "clear", "send", "blocked", "ended"}]
      /\ go'[i] \in {"clear", "send", "recv", "ended"}
      /\ \A j \in Starts : j # i => go'[j] = go[j]
  BY DEF GoCheck, AfterTick, Current, Inv, TypeOK
<1>3. object' \in Object /\ object'.kind = object.kind /\ object'.current = object.current
  BY <1>1 DEF Inv, TypeOK
<1>4. UNCHANGED <<user, channel>> /\ go[i] \in {"check", "clear"}
  BY <1>1
<1>5. QED
  BY <1>1, <1>2, <1>3, <1>4, GoDecidesKeeps

LEMMA GoClearKeeps ==
  ASSUME Inv, NEW i \in Starts, GoClear(i)
  PROVE  Inv'
<1>1. /\ go[i] = "clear" /\ UNCHANGED runtime /\ UNCHANGED <<user, channel>>
      /\ history' = Fired(i) \/ UNCHANGED history
  BY DEF GoClear
<1>2. /\ go' \in [Starts -> {"none", "recv", "check", "clear", "send", "blocked", "ended"}]
      /\ go'[i] \in {"clear", "send", "recv", "ended"}
      /\ \A j \in Starts : j # i => go'[j] = go[j]
  BY DEF GoClear, Inv, TypeOK
<1>3. object' \in Object /\ object'.kind = object.kind /\ object'.current = object.current
  <2>1. object \in Object /\ object' = [object EXCEPT !.active = FALSE]
    BY DEF GoClear, Inv, TypeOK
  <2>2. QED
    BY <2>1 DEF Object
<1>4. go[i] \in {"check", "clear"}
  BY <1>1
<1>5. QED
  BY <1>1, <1>2, <1>3, <1>4, GoDecidesKeeps

LEMMA GoSendKeeps ==
  ASSUME Inv, NEW i \in Starts, GoSend(i)
  PROVE  Inv'
<1>1. go[i] = "send" /\ UNCHANGED runtime /\ UNCHANGED <<object, user>>
  BY DEF GoSend
<1>2. /\ go' \in [Starts -> {"none", "recv", "check", "clear", "send", "blocked", "ended"}]
      /\ go'[i] \in {"blocked", "recv", "ended"}
      /\ \A j \in Starts : j # i => go'[j] = go[j]
  BY DEF GoSend, AfterTick, Inv, TypeOK
<1>3. /\ history' \in [Starts -> [stopped : BOOLEAN, fired : BOOLEAN]]
      /\ \A j \in Starts : /\ history'[j].stopped = history[j].stopped
                           /\ j # i => history'[j] = history[j]
  <2>1. history' = Fired(i) \/ UNCHANGED history
    BY DEF GoSend
  <2>2. QED
    BY <2>1, Firing DEF Inv
<1>4. /\ channel' \in [buffer : Seq(Starts), pending : QueueType(Starts)]
      /\ channel'.pending.elems =
           IF go'[i] = "blocked" THEN channel.pending.elems \cup {i} ELSE channel.pending.elems
  <2>1. channel \in [buffer : Seq(Starts), pending : QueueType(Starts)] /\ <<i>> \in Seq(Starts)
    BY DEF Inv, TypeOK
  <2>2. PushBack(channel.pending, i) \in QueueType(Starts)
        /\ PushBack(channel.pending, i).elems = channel.pending.elems \cup {i}
    BY <2>1 DEF PushBack, QueueType
  <2>3. CASE channel' = [channel EXCEPT !.buffer = <<i>>] /\ go' = [go EXCEPT ![i] = AfterTick(i)]
    <3>1. go'[i] # "blocked"
      BY <2>3 DEF AfterTick, Inv, TypeOK
    <3>2. QED
      BY <2>1, <2>3, <3>1
  <2>4. CASE channel' = [channel EXCEPT !.pending = PushBack(channel.pending, i)]
             /\ go' = [go EXCEPT ![i] = "blocked"]
    <3>1. go'[i] = "blocked"
      BY <2>4 DEF Inv, TypeOK
    <3>2. QED
      BY <2>1, <2>2, <2>4, <3>1
  <2>5. QED
    BY <2>3, <2>4 DEF GoSend
<1>5. Active' = Active /\ Periodic' = Periodic
  BY <1>1 DEF Active, Periodic, runtime
<1>6. TypeOK'
  BY <1>1, <1>2, <1>3, <1>4 DEF Inv, TypeOK, runtime, who
<1>7. Lives' /\ OneShot'
  <2>1. Lives'
    BY <1>1, <1>2, <1>3 DEF Inv, Lives, runtime
  <2>2. ~Periodic => i \notin Active /\ ~history[i].stopped
    BY <1>1 DEF Inv, OneShot
  <2>3. OneShot'
    BY <1>1, <1>2, <1>3, <1>5, <2>2 DEF Inv, OneShot, runtime
  <2>4. QED
    BY <2>1, <2>3
<1>8. Drains' /\ Sourced' /\ EventsCounted' /\ Announced'
  BY <1>1, <1>5 DEF Inv, Drains, Sourced, EventsCounted, Announced, ToldSupervisor,
     ToldWait, runtime, who
<1>9. Pending'
  <2>1. channel'.pending.elems = {j \in Starts : go'[j] = "blocked"}
    BY <1>1, <1>2, <1>4 DEF Inv, Pending
  <2>2. QED
    BY <2>1 DEF Pending
<1>10. QED
  BY <1>6, <1>7, <1>8, <1>9 DEF Inv

LEMMA ReadKeeps ==
  ASSUME Inv, Read
  PROVE  Inv'
<1>1. UNCHANGED runtime /\ UNCHANGED <<object, user>> /\ owner = "run"
      /\ channel \in [buffer : Seq(Starts), pending : QueueType(Starts)]
  BY DEF Read, Inv, TypeOK
<1>2. Active' = Active /\ Periodic' = Periodic
  BY <1>1 DEF Active, Periodic, runtime
<1>3. Drains' /\ Sourced' /\ EventsCounted' /\ Announced'
  BY <1>1, <1>2 DEF Inv, Drains, Sourced, EventsCounted, Announced, ToldSupervisor,
     ToldWait, runtime, who
<1>4. CASE channel' = [channel EXCEPT !.buffer = <<>>] /\ UNCHANGED <<go, history>>
  <2>1. channel' \in [buffer : Seq(Starts), pending : QueueType(Starts)]
        /\ channel'.pending = channel.pending
    <3>1. <<>> \in Seq(Starts)
      OBVIOUS
    <3>2. QED
      BY <1>1, <1>4, <3>1
  <2>2. TypeOK'
    BY <1>1, <1>4, <2>1 DEF Inv, TypeOK, runtime, who
  <2>3. Lives' /\ OneShot' /\ Pending'
    BY <1>1, <1>2, <1>4, <2>1 DEF Inv, Lives, OneShot, Pending, runtime
  <2>4. QED
    BY <1>3, <2>2, <2>3 DEF Inv
<1>5. ASSUME NEW i \in Starts, IsHead(channel.pending, i),
             channel' = [buffer |-> <<i>>, pending |-> Without(channel.pending, {i})],
             go' = [go EXCEPT ![i] = AfterTick(i)], history' = Fired(i)
      PROVE  Inv'
  <2>1. go[i] = "blocked"
    BY <1>5 DEF IsHead, Inv, Pending
  <2>2. /\ go' \in [Starts -> {"none", "recv", "check", "clear", "send", "blocked", "ended"}]
        /\ go'[i] \in {"recv", "ended"}
        /\ \A j \in Starts : j # i => go'[j] = go[j]
    BY <1>5 DEF AfterTick, Inv, TypeOK
  <2>3. /\ history' \in [Starts -> [stopped : BOOLEAN, fired : BOOLEAN]]
        /\ \A j \in Starts : /\ history'[j].stopped = history[j].stopped
                             /\ j # i => history'[j] = history[j]
    BY <1>5, Firing DEF Inv
  <2>4. /\ channel' \in [buffer : Seq(Starts), pending : QueueType(Starts)]
        /\ channel'.pending.elems = channel.pending.elems \ {i}
    <3>1. channel.pending \in QueueType(Starts) /\ <<i>> \in Seq(Starts)
      BY <1>1
    <3>2. Without(channel.pending, {i}) \in QueueType(Starts)
          /\ Without(channel.pending, {i}).elems = channel.pending.elems \ {i}
      BY <3>1 DEF Without, Only, QueueType
    <3>3. QED
      BY <1>5, <3>1, <3>2
  <2>5. TypeOK'
    BY <1>1, <2>2, <2>3, <2>4 DEF Inv, TypeOK, runtime, who
  <2>6. Lives'
    BY <1>1, <2>1, <2>2, <2>3 DEF Inv, Lives, runtime
  <2>7. OneShot'
    <3>1. ~Periodic => i \notin Active /\ ~history[i].stopped
      BY <2>1 DEF Inv, OneShot
    <3>2. QED
      BY <1>1, <1>2, <2>2, <2>3, <3>1 DEF Inv, OneShot, runtime
  <2>8. Pending'
    <3>1. channel'.pending.elems = {j \in Starts : go'[j] = "blocked"}
      BY <2>2, <2>4 DEF Inv, Pending
    <3>2. QED
      BY <1>1, <2>2, <2>3, <3>1 DEF Inv, Pending
  <2>9. QED
    BY <1>3, <2>5, <2>6, <2>7, <2>8 DEF Inv
<1>6. QED
  BY <1>4, <1>5 DEF Read

LEMMA CancelScopeKeeps ==
  ASSUME Inv, NEW s \in Scopes, CancelScope(s)
  PROVE  Inv'
<1> DEFINE mine == {i \in Starts : ScopeOf[i] = s}
           is == mine \cap Active
<1>1. /\ owner = "run" /\ is \subseteq Active /\ is \subseteq Starts
      /\ todo = {} /\ rearm = 0 /\ 0 \notin Starts
  BY DEF CancelScope, Inv, Starts, Drains
<1>2. /\ timer' = Removed(is) /\ events' = events - Cardinality(is)
      /\ go' = [i \in Starts |-> IF i \in mine /\ go[i] # "none" THEN "ended" ELSE go[i]]
      /\ channel' = [channel EXCEPT !.pending = Without(channel.pending, mine)]
      /\ canceled' = canceled \cup {s}
      /\ UNCHANGED <<signal, wake, who, owner, todo, rearm, object, user, history>>
  BY DEF CancelScope
<1>3. TypeOK /\ EventsCounted
  BY DEF Inv
<1> HIDE DEF mine, is
<1>4. /\ timer' \in [Starts -> Timer]
      /\ \A j \in is : timer'[j].state = "removed" /\ timer'[j].stopped /\ ~timer'[j].armed
      /\ \A j \in Starts \ is : timer'[j] = timer[j]
      /\ Active' = Active \ is
      /\ events' = Cardinality(Active \ is) /\ events' \in 0..MaxPendingEvents
  <2>1. Active' = {j \in Starts : timer'[j].state = "active"}
    BY DEF Active
  <2>2. timer' = Removed(is) /\ events' = events - Cardinality(is)
    BY <1>2
  <2>3. is \subseteq Active
    BY <1>1
  <2>4. /\ Removed(is) \in [Starts -> Timer]
        /\ \A j \in is : Removed(is)[j].state = "removed" /\ Removed(is)[j].stopped
                         /\ ~Removed(is)[j].armed
        /\ \A j \in Starts \ is : Removed(is)[j] = timer[j]
    BY <1>3, <2>3, Removing
  <2>5. /\ {j \in Starts : Removed(is)[j].state = "active"} = Active \ is
        /\ events - Cardinality(is) = Cardinality(Active \ is)
        /\ events - Cardinality(is) \in 0..MaxPendingEvents
    BY <1>3, <2>3, Removing
  <2>6. QED
    BY <2>1, <2>2, <2>4, <2>5
<1>5. /\ go' \in [Starts -> {"none", "recv", "check", "clear", "send", "blocked", "ended"}]
      /\ \A j \in Starts : /\ j \in mine => go'[j] \in {"none", "ended"}
                           /\ j \notin mine => go'[j] = go[j]
                           /\ go[j] = "none" => go'[j] = "none"
                           /\ go[j] # "none" => go'[j] \in {"ended", go[j]}
  BY <1>2, <1>3 DEF TypeOK
<1>6. /\ channel' \in [buffer : Seq(Starts), pending : QueueType(Starts)]
      /\ channel'.pending.elems = channel.pending.elems \ mine
  <2>1. channel \in [buffer : Seq(Starts), pending : QueueType(Starts)]
    BY <1>3 DEF TypeOK
  <2>2. Without(channel.pending, mine) \in QueueType(Starts)
        /\ Without(channel.pending, mine).elems = channel.pending.elems \ mine
    BY <2>1 DEF Without, Only, QueueType
  <2>3. QED
    BY <1>2, <2>1, <2>2
<1>7. Periodic' = Periodic
  BY <1>2 DEF Periodic
<1>8. TypeOK'
  BY <1>2, <1>3, <1>4, <1>5, <1>6 DEF TypeOK, who
<1>9. \A j \in Starts : j \in is <=> j \in mine /\ j \in Active
  BY DEF is
<1>10. Lives'
  BY <1>1, <1>2, <1>4, <1>5, <1>9 DEF Inv, Lives, Active
<1>11. Drains' /\ EventsCounted'
  BY <1>1, <1>2, <1>4 DEF Drains, EventsCounted
<1>12. Sourced' /\ Announced'
  BY <1>1, <1>2, <1>4 DEF Inv, Sourced, Announced, ToldSupervisor, ToldWait, Active, who
<1>13. OneShot'
  <2>1. SUFFICES ASSUME ~Periodic, NEW j \in Starts
                 PROVE  /\ j \in Active' => /\ signal'[j].buffered = 0 /\ go'[j] = "recv"
                                            /\ ~history'[j].fired /\ ~history'[j].stopped
                        /\ history'[j].stopped =>
                             /\ j \notin Active' /\ signal'[j].buffered = 0
                             /\ go'[j] \in {"recv", "ended"} /\ ~history'[j].fired
    BY <1>7 DEF OneShot
  <2>2. j \in Active' => j \in Active /\ j \notin mine
    BY <1>4, <1>9
  <2>3. QED
    BY <1>2, <1>5, <2>1, <2>2 DEF Inv, OneShot
<1>14. Pending'
  <2>1. channel'.pending.elems = {j \in Starts : go'[j] = "blocked"}
    BY <1>5, <1>6 DEF Inv, Pending
  <2>2. QED
    BY <1>2, <1>5, <2>1 DEF Inv, Pending
<1>15. QED
  BY <1>8, <1>10, <1>11, <1>12, <1>13, <1>14 DEF Inv

-----------------------------------------------------------------------------
(***************************************************************************)
(* The theorems.                                                           *)
(***************************************************************************)
LEMMA InitInv == Init => Inv
<1> SUFFICES ASSUME Init PROVE Inv
  OBVIOUS
<1>1. Active = {}
  BY DEF Init, NoTimer, Active
<1>2. /\ NoTimer \in Timer /\ {} \subseteq Scopes /\ <<>> \in Seq(Starts)
      /\ EmptyQueue \in QueueType(Starts) /\ EmptyQueue.elems = {}
  BY TimersAssumption DEF NoTimer, Timer, EmptyQueue, QueueType
<1>3. TypeOK
  <2>1. object \in Object
    <3>1. \E k \in Kinds : object = [kind |-> k, active |-> FALSE, generation |-> 0, current |-> 0]
      BY DEF Init
    <3>2. 0 \in 0..MaxStarts
      BY TimersAssumption
    <3>3. QED
      BY <3>1, <3>2 DEF Object
  <2>2. channel \in [buffer : Seq(Starts), pending : QueueType(Starts)]
    BY <1>2 DEF Init
  <2>3. /\ signal \in [Starts -> [buffered : 0..1, closed : BOOLEAN]]
        /\ history \in [Starts -> [stopped : BOOLEAN, fired : BOOLEAN]]
        /\ events \in 0..MaxPendingEvents /\ rearm \in 0..MaxStarts /\ calls \in Nat
    BY TimersAssumption DEF Init
  <2>4. QED
    BY <1>2, <2>1, <2>2, <2>3 DEF Init, TypeOK
<1>4. Lives /\ Drains /\ Sourced /\ Announced
  BY <1>1 DEF Init, Lives, Drains, Sourced, Announced, NoTimer
<1>5. EventsCounted
  BY <1>1, FS_EmptySet DEF Init, EventsCounted
<1>6. OneShot /\ Pending
  BY <1>1, <1>2 DEF Init, OneShot, Pending
<1>7. QED
  BY <1>3, <1>4, <1>5, <1>6 DEF Inv

LEMMA StepInv == Inv /\ [Next]_vars => Inv'
<1> SUFFICES ASSUME Inv, [Next]_vars PROVE Inv'
  OBVIOUS
<1>1. ASSUME NEW i \in Starts, Alarm(i)
      PROVE  Inv'
  BY <1>1, AlarmFiresKeeps, MarkReadyKeeps, MarkReadySignalKeeps DEF Alarm
<1>2. ASSUME NEW i \in Starts, Goroutine(i)
      PROVE  Inv'
  BY <1>2, GoReceiveKeeps, GoCheckKeeps, GoClearKeeps, GoSendKeeps DEF Goroutine
<1>3. CASE Run
  BY <1>3, OwnerMovesKeep, DrainDeliverKeeps, DrainRearmKeeps DEF Run
<1>4. CASE Wait \/ Supervise \/ Foreground \/ OtherWake \/ DrainClockFails
  BY <1>4, OwnerMovesKeep, DrainClockFailsKeeps
<1>5. CASE User
  <2>1. ASSUME NEW ready \in BOOLEAN, New(ready) \/ Reset(ready)
        PROVE  Inv'
    <3>1. PICK active \in BOOLEAN : Start(ready, active)
      BY <2>1 DEF New, Reset, Inv, TypeOK, Object
    <3>2. owner = "run"
      BY <2>1 DEF New, Reset
    <3>3. QED
      BY <3>1, <3>2, StartKeeps
  <2>2. CASE NewFails \/ ResetFails \/ StopReturns \/ ResetActivates
    <3>1. \E active \in BOOLEAN : StartFails(active) \/ StopReturns \/ ResetActivates
      BY <2>2 DEF NewFails, ResetFails, Inv, TypeOK, Object
    <3>2. QED
      BY <3>1, ObjectMovesKeep
  <2>3. QED
    BY <1>5, <2>1, <2>2, CancelScopeKeeps, StopIntrinsicKeeps, ReadKeeps DEF User
<1>6. CASE UNCHANGED vars
  BY <1>6 DEF vars, Inv, TypeOK, Lives, Drains, Sourced, EventsCounted, Announced,
     ToldSupervisor, ToldWait, OneShot, Pending, Active, Periodic, who
<1>7. QED
  BY <1>1, <1>2, <1>3, <1>4, <1>5, <1>6 DEF Next

\* The inductive invariant holds in every state, and with it the types.
THEOREM TimersInvariant == Spec => []Inv
<1>1. QED
  BY InitInv, StepInv, PTL DEF Spec

\* No wake-up is lost between an alarm's markReady and Wait.
THEOREM TimersAnnounced == Spec => []ReadyIsAnnounced
<1>1. Inv => ReadyIsAnnounced
  BY DEF Inv, TypeOK, Drains, Announced, ToldSupervisor, ToldWait, ReadyIsAnnounced
<1>2. QED
  BY <1>1, TimersInvariant, PTL

\* Every active timer has exactly one source for its next tick, a removed one has
\* none in the clock, and the events are those of the active timers.
THEOREM TimersOneSource == Spec => []OneTickSource
<1>1. Inv => OneTickSource
  <2> SUFFICES ASSUME Inv PROVE OneTickSource
    OBVIOUS
  <2>1. ASSUME NEW i \in Active, i # rearm
        PROVE  Cardinality({k \in 1..3 : \/ k = 1 /\ timer[i].armed
                                         \/ k = 2 /\ timer[i].firing
                                         \/ k = 3 /\ timer[i].ready}) = 1
    <3>1. timer[i] \in Timer
      BY DEF Inv, TypeOK, Active
    <3>2. timer[i].armed \in BOOLEAN /\ timer[i].firing \in BOOLEAN /\ timer[i].ready \in BOOLEAN
      BY <3>1 DEF Timer
    <3>3. OneOf(timer[i].armed, timer[i].firing, timer[i].ready)
      BY <2>1 DEF Inv, Sourced
    <3>4. QED
      BY <3>2, <3>3, OneSource
  <2>2. ASSUME NEW i \in Starts \ Active
        PROVE  ~timer[i].armed
    <3>1. timer[i].state \in {"unused", "removed"}
      BY <2>2 DEF Inv, TypeOK, Timer, Active
    <3>2. QED
      BY <3>1 DEF Inv, Lives
  <2>3. QED
    BY <2>1, <2>2 DEF OneTickSource, Inv, EventsCounted
<1>2. QED
  BY <1>1, TimersInvariant, PTL

\* Once Stop or Reset of a Timer or AfterFunc reported true, that start neither sends
\* its value nor calls its function.
THEOREM TimersStopIsFinal == Spec => []StopIsFinal
<1>1. Inv => StopIsFinal
  BY DEF Inv, OneShot, StopIsFinal
<1>2. QED
  BY <1>1, TimersInvariant, PTL
=============================================================================
