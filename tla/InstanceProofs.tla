--------------------------- MODULE InstanceProofs ---------------------------
(***************************************************************************)
(* Instance.tla keeps the books of its machine, for any executions, tasks, *)
(* limits and scripts.  The first part shows what every operator of        *)
(* Machine.tla preserves: the bookkeeping invariant MachineInv.  The       *)
(* second shows that every goroutine calls them where they may be called:  *)
(* only the holder of the VM owner touches the machine, and no task is     *)
(* running while the machine is torn down.  The third shows that the       *)
(* execution handles agree with the machine.                               *)
(***************************************************************************)
EXTENDS Instance, FiniteSetTheorems, TLAPS

\* Everything a scope owns has an open scope to answer for it.
Owned(h) ==
  \A t \in Tasks :
    h.tk[t].state = "live" \/ h.tk[t].timer # "none" \/ h.tk[t].ffi # "none"
      => h.tk[t].scope \in OpenScopes(h)

\* The counters of an open scope count what it owns.
Counted(h) ==
  \A e \in OpenScopes(h) :
    /\ h.sc[e].tasks  = Cardinality(Live(h, e))
    /\ h.sc[e].timers = Cardinality(Timers(h, e))
    /\ h.sc[e].ffis   = Cardinality(FFICalls(h, e))

EventsCounted(h) == h.events = Cardinality(AllTimers(h)) + Cardinality(AllFFICalls(h))

\* A live task is in one queue or is the running one; a task with a call is
\* blocked on it.
Placed(h) ==
  /\ h.runnable.elems \cap h.blocked.elems = {}
  /\ h.running \notin Queued(h)
  /\ \A t \in Tasks :
       /\ h.tk[t].state = "live" <=> t \in Queued(h) \cup {h.running}
       /\ h.tk[t].ffi # "none" => t \in h.blocked.elems /\ h.tk[t].op = "ffi"

\* Ids that were not handed out yet are unused.
Fresh(h) ==
  /\ h.nextID > 0
  /\ \A t \in Tasks : t >= h.nextID => h.tk[t].state = "free" /\ h.tk[t].scope = NoExec

\* There is a machine while a scope is open.
Lifetime(h) == ~h.up => h.foreground = NoExec /\ OpenScopes(h) = {}

Books(h) == h \in MachineType /\ Owned(h) /\ Counted(h) /\ EventsCounted(h)

MachineInv(h) == Books(h) /\ Placed(h) /\ Fresh(h) /\ Lifetime(h)

-----------------------------------------------------------------------------
(* Counting                                                                *)

LEMMA TasksFinite ==
  ASSUME NEW S, S \subseteq Tasks
  PROVE  IsFiniteSet(S) /\ Cardinality(S) \in Nat /\ (Cardinality(S) = 0 <=> S = {})
<1>1. IsFiniteSet(Tasks)
  BY FS_Interval, LimitsAssumption DEF Tasks
<1>2. IsFiniteSet(S)
  BY <1>1, FS_Subset
<1>3. QED
  BY <1>2, FS_CardinalityType, FS_EmptySet

\* Removing B from A takes as many away as they share.
LEMMA CardDifference ==
  ASSUME NEW A, NEW B, A \subseteq Tasks
  PROVE  /\ Cardinality(A \ B) = Cardinality(A) - Cardinality(A \cap B)
         /\ Cardinality(A \cap B) <= Cardinality(A)
<1>1. IsFiniteSet(A \ B) /\ IsFiniteSet(A \cap B) /\ IsFiniteSet(A)
  BY TasksFinite
<1>2. (A \ B) \cup (A \cap B) = A /\ (A \ B) \cap (A \cap B) = {}
  OBVIOUS
<1>3. Cardinality(A) = Cardinality(A \ B) + Cardinality(A \cap B) - Cardinality({})
  BY <1>1, <1>2, FS_Union
<1>4. QED
  BY <1>1, <1>3, TasksFinite, FS_EmptySet

LEMMA CardAdd ==
  ASSUME NEW A, NEW x \in Tasks, A \subseteq Tasks, x \notin A
  PROVE  Cardinality(A \cup {x}) = Cardinality(A) + 1
  BY TasksFinite, FS_AddElement

-----------------------------------------------------------------------------
(* Releasing                                                               *)

\* r is h after finishTask of T, discardTimer of X and settle of F.
Released(r, h, T, X, F) ==
  /\ r.up = h.up /\ r.foreground = h.foreground /\ r.running = h.running
  /\ r.runnable = h.runnable /\ r.blocked = h.blocked
  /\ r.nextID = h.nextID /\ r.attempts = h.attempts
  /\ r.events = h.events - Cardinality(X) - Cardinality(F)
  /\ \A t \in Tasks :
       /\ r.tk[t] \in TaskType
       /\ r.tk[t].scope = h.tk[t].scope
       /\ r.tk[t].state = (IF t \in T THEN "finished" ELSE h.tk[t].state)
       /\ r.tk[t].op    = (IF t \in T THEN "none" ELSE h.tk[t].op)
       /\ r.tk[t].timer = (IF t \in X THEN "none" ELSE h.tk[t].timer)
       /\ r.tk[t].ffi   = (IF t \in F THEN "none" ELSE h.tk[t].ffi)
       /\ r.tk[t].sig = h.tk[t].sig
  /\ \A e \in Execs :
       r.sc[e] = ReleaseScope(h.sc[e],
                   Cardinality(T \cap TasksOf(h, e)),
                   Cardinality(X \cap TasksOf(h, e)),
                   Cardinality(F \cap TasksOf(h, e)))

LEMMA ReleaseFields ==
  ASSUME NEW h \in MachineType, NEW T, NEW X, NEW F,
         NEW r, r = Release(h, T, X, F)
  PROVE  Released(r, h, T, X, F)
<1>1. /\ r.up = h.up /\ r.foreground = h.foreground /\ r.running = h.running
      /\ r.runnable = h.runnable /\ r.blocked = h.blocked
      /\ r.nextID = h.nextID /\ r.attempts = h.attempts
      /\ r.events = h.events - Cardinality(X) - Cardinality(F)
      /\ r.tk = [t \in Tasks |->
              [h.tk[t] EXCEPT !.state = IF t \in T THEN "finished" ELSE @,
                              !.op    = IF t \in T THEN "none" ELSE @,
                              !.timer = IF t \in X THEN "none" ELSE @,
                              !.ffi   = IF t \in F THEN "none" ELSE @]]
      /\ r.sc = [e \in Execs |-> ReleaseScope(h.sc[e],
                              Cardinality(T \cap TasksOf(h, e)),
                              Cardinality(X \cap TasksOf(h, e)),
                              Cardinality(F \cap TasksOf(h, e)))]
      /\ r = [h EXCEPT !.tk = r.tk, !.sc = r.sc, !.events = r.events]
  BY DEF Release, MachineType
<1>2. ASSUME NEW t \in Tasks
      PROVE  /\ r.tk[t] \in TaskType
             /\ r.tk[t].scope = h.tk[t].scope
             /\ r.tk[t].state = (IF t \in T THEN "finished" ELSE h.tk[t].state)
             /\ r.tk[t].op    = (IF t \in T THEN "none" ELSE h.tk[t].op)
             /\ r.tk[t].timer = (IF t \in X THEN "none" ELSE h.tk[t].timer)
             /\ r.tk[t].ffi   = (IF t \in F THEN "none" ELSE h.tk[t].ffi)
             /\ r.tk[t].sig = h.tk[t].sig
  <2>1. h.tk[t] \in TaskType
    BY DEF MachineType
  <2>2. r.tk[t] = [h.tk[t] EXCEPT !.state = IF t \in T THEN "finished" ELSE @,
                              !.op    = IF t \in T THEN "none" ELSE @,
                              !.timer = IF t \in X THEN "none" ELSE @,
                              !.ffi   = IF t \in F THEN "none" ELSE @]
    <3>1. r.tk = [u \in Tasks |->
              [h.tk[u] EXCEPT !.state = IF u \in T THEN "finished" ELSE @,
                              !.op    = IF u \in T THEN "none" ELSE @,
                              !.timer = IF u \in X THEN "none" ELSE @,
                              !.ffi   = IF u \in F THEN "none" ELSE @]]
      BY <1>1
    <3>2. QED
      BY <3>1
  <2>3. QED
    BY <2>1, <2>2 DEF TaskType
<1>3. \A e \in Execs :
              r.sc[e] = ReleaseScope(h.sc[e],
                          Cardinality(T \cap TasksOf(h, e)),
                          Cardinality(X \cap TasksOf(h, e)),
                          Cardinality(F \cap TasksOf(h, e)))
  BY <1>1
<1>4. QED
  BY <1>1, <1>2, <1>3 DEF Released

LEMMA ReleaseScopeFields ==
  ASSUME NEW s \in ScopeType, NEW a \in Nat, NEW b \in Nat, NEW c \in Nat,
         s.status = "open" => a <= s.tasks /\ b <= s.timers /\ c <= s.ffis,
         NEW r, r = ReleaseScope(s, a, b, c)
  PROVE  /\ r \in ScopeType
         /\ s.status # "open" => r = s
         /\ s.status = "open" =>
              /\ r.status \in {"open", "settled"}
              /\ r.tasks = s.tasks - a /\ r.timers = s.timers - b /\ r.ffis = s.ffis - c
              /\ r.status = "settled" => r.tasks = 0 /\ r.timers = 0 /\ r.ffis = 0
<1> DEFINE q == [s EXCEPT !.tasks = Less(@, a), !.timers = Less(@, b), !.ffis = Less(@, c)]
<1>1. CASE s.status # "open"
  BY <1>1 DEF ReleaseScope
<1>2. CASE s.status = "open"
  <2>1. /\ q \in ScopeType /\ q.status = "open" /\ q.published = s.published
        /\ q.tasks = s.tasks - a /\ q.timers = s.timers - b /\ q.ffis = s.ffis - c
    <3>1. s.tasks \in Nat /\ s.timers \in Nat /\ s.ffis \in Nat
      BY DEF ScopeType
    <3>2. Less(s.tasks, a) = s.tasks - a /\ Less(s.timers, b) = s.timers - b /\ Less(s.ffis, c) = s.ffis - c
      BY <1>2, <3>1 DEF Less
    <3>3. s.tasks - a \in Nat /\ s.timers - b \in Nat /\ s.ffis - c \in Nat
      BY <1>2, <3>1
    <3>4. QED
      BY <1>2, <3>2, <3>3 DEF ScopeType
  <2>2. ReleaseScope(s, a, b, c) = SettleScope(q)
    BY <1>2 DEF ReleaseScope
  <2> HIDE DEF q
  <2>3. CASE q.tasks = 0 /\ q.timers = 0 /\ q.ffis = 0 /\ q.published
    <3>1. r = [q EXCEPT !.status = "settled"]
      BY <2>1, <2>2, <2>3 DEF SettleScope
    <3>2. QED
      BY <1>2, <2>1, <2>3, <3>1 DEF ScopeType
  <2>4. CASE ~(q.tasks = 0 /\ q.timers = 0 /\ q.ffis = 0 /\ q.published)
    <3>1. r = q
      BY <2>1, <2>2, <2>4 DEF SettleScope
    <3>2. QED
      BY <1>2, <2>1, <2>4, <3>1
  <2>5. QED
    BY <2>3, <2>4
<1>3. QED
  BY <1>1, <1>2

LEMMA ScopeEmptied ==
  ASSUME NEW s \in ScopeType, s.status = "open",
         NEW q, q = [s EXCEPT !.tasks = Less(@, s.tasks), !.timers = Less(@, s.timers), !.ffis = Less(@, s.ffis)]
  PROVE  /\ q \in ScopeType /\ q.status = "open" /\ q.published = s.published
         /\ q.tasks = 0 /\ q.timers = 0 /\ q.ffis = 0
<1>1. s.tasks \in Nat /\ s.timers \in Nat /\ s.ffis \in Nat
  BY DEF ScopeType
<1>2. Less(s.tasks, s.tasks) = 0 /\ Less(s.timers, s.timers) = 0 /\ Less(s.ffis, s.ffis) = 0
  BY <1>1 DEF Less
<1>3. q.tasks = 0 /\ q.timers = 0 /\ q.ffis = 0
  BY <1>2 DEF ScopeType
<1>4. q.status = "open" /\ q.published = s.published
  BY DEF ScopeType
<1>5. q \in ScopeType
  <2>1. 0 \in Nat
    OBVIOUS
  <2>2. QED
    BY <1>2, <2>1 DEF ScopeType
<1>6. QED
  BY <1>3, <1>4, <1>5

\* Releasing all a published scope has settles it.
LEMMA ReleaseScopeSettles ==
  ASSUME NEW s \in ScopeType, s.status = "open", s.published = TRUE,
         NEW r, r = ReleaseScope(s, s.tasks, s.timers, s.ffis)
  PROVE  r.status = "settled"
<1>1. PICK q : q = [s EXCEPT !.tasks = Less(@, s.tasks), !.timers = Less(@, s.timers), !.ffis = Less(@, s.ffis)]
  OBVIOUS
<1>2. r = SettleScope(q)
  BY <1>1 DEF ReleaseScope
<1>3. q \in ScopeType /\ q.status = "open" /\ q.published = s.published /\ q.tasks = 0 /\ q.timers = 0 /\ q.ffis = 0
  BY <1>1, ScopeEmptied
<1>4. r = [q EXCEPT !.status = "settled"]
  BY <1>2, <1>3 DEF SettleScope
<1>5. QED
  BY <1>3, <1>4 DEF ScopeType

\* The scopes of r are those of h, some of them settled.
Settling(r, h) ==
  /\ OpenScopes(r) \subseteq OpenScopes(h)
  /\ \A e \in Execs : h.sc[e].status # "open" => r.sc[e].status = h.sc[e].status
  /\ \A e \in OpenScopes(h) : r.sc[e].status \in {"open", "settled"}
  /\ r.events <= h.events

\* A published scope of h that owns nothing in r is settled there.
Settled(r, h) ==
  \A e \in OpenScopes(h) :
    /\ h.sc[e].published = TRUE
    /\ Live(r, e) = {} /\ Timers(r, e) = {} /\ FFICalls(r, e) = {}
    => r.sc[e].status = "settled"

\* A release of things that are there keeps the books: types, owners, counters
\* and events.
LEMMA ReleaseKeepsBooks ==
  ASSUME NEW h, Books(h),
         NEW T, NEW X, NEW F, NEW r, r = Release(h, T, X, F),
         T \subseteq {t \in Tasks : h.tk[t].state = "live"},
         X \subseteq AllTimers(h), F \subseteq AllFFICalls(h)
  PROVE  Books(r) /\ Settling(r, h) /\ Settled(r, h)
<1>0. h \in MachineType /\ Owned(h) /\ Counted(h) /\ EventsCounted(h)
  BY DEF Books
<1>1. Released(r, h, T, X, F)
  BY <1>0, ReleaseFields
<1>2. \A t \in Tasks :
        /\ r.tk[t] \in TaskType
        /\ r.tk[t].scope = h.tk[t].scope
        /\ r.tk[t].state = (IF t \in T THEN "finished" ELSE h.tk[t].state)
        /\ r.tk[t].timer = (IF t \in X THEN "none" ELSE h.tk[t].timer)
        /\ r.tk[t].ffi   = (IF t \in F THEN "none" ELSE h.tk[t].ffi)
  BY <1>1 DEF Released
<1>3. ASSUME NEW e \in Execs
      PROVE  /\ TasksOf(r, e) = TasksOf(h, e)
             /\ Live(r, e) = Live(h, e) \ T
             /\ Timers(r, e) = Timers(h, e) \ X
             /\ FFICalls(r, e) = FFICalls(h, e) \ F
  <2>1. TasksOf(r, e) = TasksOf(h, e)
    BY <1>2 DEF TasksOf
  <2>2. QED
    BY <1>2, <2>1 DEF Live, Timers, FFICalls, TasksOf
<1>4. ASSUME NEW e \in Execs
      PROVE  /\ T \cap TasksOf(h, e) = Live(h, e) \cap T
             /\ X \cap TasksOf(h, e) = Timers(h, e) \cap X
             /\ F \cap TasksOf(h, e) = FFICalls(h, e) \cap F
  BY DEF Live, Timers, FFICalls, TasksOf, AllTimers, AllFFICalls
<1> DEFINE a(e) == Cardinality(T \cap TasksOf(h, e))
           b(e) == Cardinality(X \cap TasksOf(h, e))
           c(e) == Cardinality(F \cap TasksOf(h, e))
<1>5. ASSUME NEW e \in Execs
      PROVE  /\ a(e) \in Nat /\ b(e) \in Nat /\ c(e) \in Nat
             /\ a(e) <= Cardinality(Live(h, e))
             /\ b(e) <= Cardinality(Timers(h, e))
             /\ c(e) <= Cardinality(FFICalls(h, e))
             /\ Cardinality(Live(r, e)) = Cardinality(Live(h, e)) - a(e)
             /\ Cardinality(Timers(r, e)) = Cardinality(Timers(h, e)) - b(e)
             /\ Cardinality(FFICalls(r, e)) = Cardinality(FFICalls(h, e)) - c(e)
  <2>1. Live(h, e) \subseteq Tasks /\ Timers(h, e) \subseteq Tasks /\ FFICalls(h, e) \subseteq Tasks
    BY DEF Live, Timers, FFICalls, TasksOf
  <2>2. a(e) \in Nat /\ b(e) \in Nat /\ c(e) \in Nat
    BY <1>4, <2>1, TasksFinite
  <2>3. QED
    <3>1. /\ Cardinality(Live(h, e) \ T) = Cardinality(Live(h, e)) - Cardinality(Live(h, e) \cap T)
          /\ Cardinality(Live(h, e) \cap T) <= Cardinality(Live(h, e))
      BY <2>1, CardDifference
    <3>2. /\ Cardinality(Timers(h, e) \ X) = Cardinality(Timers(h, e)) - Cardinality(Timers(h, e) \cap X)
          /\ Cardinality(Timers(h, e) \cap X) <= Cardinality(Timers(h, e))
      BY <2>1, CardDifference
    <3>3. /\ Cardinality(FFICalls(h, e) \ F) = Cardinality(FFICalls(h, e)) - Cardinality(FFICalls(h, e) \cap F)
          /\ Cardinality(FFICalls(h, e) \cap F) <= Cardinality(FFICalls(h, e))
      BY <2>1, CardDifference
    <3>4. QED
      BY <1>3, <1>4, <2>2, <3>1, <3>2, <3>3
<1>6. ASSUME NEW e \in Execs
      PROVE  /\ r.sc[e] \in ScopeType
             /\ h.sc[e].status # "open" => r.sc[e] = h.sc[e]
             /\ h.sc[e].status = "open" =>
                  /\ r.sc[e].status \in {"open", "settled"}
                  /\ r.sc[e].tasks = Cardinality(Live(r, e))
                  /\ r.sc[e].timers = Cardinality(Timers(r, e))
                  /\ r.sc[e].ffis = Cardinality(FFICalls(r, e))
                  /\ r.sc[e].status = "settled" => r.sc[e].tasks = 0 /\ r.sc[e].timers = 0 /\ r.sc[e].ffis = 0
  <2>1. r.sc[e] = ReleaseScope(h.sc[e], a(e), b(e), c(e))
    BY <1>1 DEF Released
  <2>2. h.sc[e] \in ScopeType
    BY <1>0 DEF MachineType
  <2>3. h.sc[e].status = "open" =>
          /\ h.sc[e].tasks = Cardinality(Live(h, e))
          /\ h.sc[e].timers = Cardinality(Timers(h, e))
          /\ h.sc[e].ffis = Cardinality(FFICalls(h, e))
    BY <1>0 DEF Counted, OpenScopes
  <2>4. h.sc[e].status = "open" => a(e) <= h.sc[e].tasks /\ b(e) <= h.sc[e].timers /\ c(e) <= h.sc[e].ffis
    BY <1>5, <2>3
  <2>5. a(e) \in Nat /\ b(e) \in Nat /\ c(e) \in Nat
    BY <1>5
  <2> HIDE DEF a, b, c
  <2>6. /\ r.sc[e] \in ScopeType
        /\ h.sc[e].status # "open" => r.sc[e] = h.sc[e]
        /\ h.sc[e].status = "open" =>
             /\ r.sc[e].status \in {"open", "settled"}
             /\ r.sc[e].tasks = h.sc[e].tasks - a(e)
             /\ r.sc[e].timers = h.sc[e].timers - b(e)
             /\ r.sc[e].ffis = h.sc[e].ffis - c(e)
             /\ r.sc[e].status = "settled" => r.sc[e].tasks = 0 /\ r.sc[e].timers = 0 /\ r.sc[e].ffis = 0
    <3>1. PICK old, new, x, y, z :
            old = h.sc[e] /\ new = r.sc[e] /\ x = a(e) /\ y = b(e) /\ z = c(e)
      OBVIOUS
    <3>2. /\ old \in ScopeType /\ x \in Nat /\ y \in Nat /\ z \in Nat
          /\ old.status = "open" => x <= old.tasks /\ y <= old.timers /\ z <= old.ffis
          /\ new = ReleaseScope(old, x, y, z)
      BY <2>1, <2>2, <2>4, <2>5, <3>1
    <3>3. /\ new \in ScopeType
          /\ old.status # "open" => new = old
          /\ old.status = "open" =>
               /\ new.status \in {"open", "settled"}
               /\ new.tasks = old.tasks - x /\ new.timers = old.timers - y /\ new.ffis = old.ffis - z
               /\ new.status = "settled" => new.tasks = 0 /\ new.timers = 0 /\ new.ffis = 0
      BY <3>2, ReleaseScopeFields
    <3>4. QED
      BY <3>1, <3>3
  <2>7. /\ Cardinality(Live(r, e)) = Cardinality(Live(h, e)) - a(e)
        /\ Cardinality(Timers(r, e)) = Cardinality(Timers(h, e)) - b(e)
        /\ Cardinality(FFICalls(r, e)) = Cardinality(FFICalls(h, e)) - c(e)
    BY <1>5
  <2>8. QED
    BY <2>3, <2>6, <2>7
<1>7. Counted(r)
  BY <1>6 DEF Counted, OpenScopes
<1>8. Owned(r)
  <2> SUFFICES ASSUME NEW t \in Tasks,
                      r.tk[t].state = "live" \/ r.tk[t].timer # "none" \/ r.tk[t].ffi # "none"
               PROVE  r.tk[t].scope \in OpenScopes(r)
    BY DEF Owned
  <2> DEFINE e == h.tk[t].scope
  <2>1. e \in OpenScopes(h) /\ r.tk[t].scope = e
    BY <1>0, <1>2 DEF Owned
  <2>2. e \in Execs /\ h.sc[e].status = "open"
    BY <2>1 DEF OpenScopes
  <2>3. Live(r, e) # {} \/ Timers(r, e) # {} \/ FFICalls(r, e) # {}
    BY <2>1 DEF Live, Timers, FFICalls, TasksOf
  <2>4. ~(r.sc[e].tasks = 0 /\ r.sc[e].timers = 0 /\ r.sc[e].ffis = 0)
    <3>1. Live(r, e) \subseteq Tasks /\ Timers(r, e) \subseteq Tasks /\ FFICalls(r, e) \subseteq Tasks
      BY DEF Live, Timers, FFICalls, TasksOf
    <3>2. QED
      BY <1>6, <2>2, <2>3, <3>1, TasksFinite
  <2>5. QED
    BY <1>6, <2>1, <2>2, <2>4 DEF OpenScopes
<1>9. EventsCounted(r) /\ r.events \in Nat /\ r.events <= h.events
  <2>1. AllTimers(r) = AllTimers(h) \ X /\ AllFFICalls(r) = AllFFICalls(h) \ F
    BY <1>2 DEF AllTimers, AllFFICalls
  <2>2. AllTimers(h) \subseteq Tasks /\ AllFFICalls(h) \subseteq Tasks
    BY DEF AllTimers, AllFFICalls
  <2>3. AllTimers(h) \cap X = X /\ AllFFICalls(h) \cap F = F
    OBVIOUS
  <2>4. r.events = h.events - Cardinality(X) - Cardinality(F)
    BY <1>1 DEF Released
  <2>5. /\ Cardinality(AllTimers(r)) = Cardinality(AllTimers(h)) - Cardinality(X)
        /\ Cardinality(AllFFICalls(r)) = Cardinality(AllFFICalls(h)) - Cardinality(F)
    <3>1. Cardinality(AllTimers(h) \ X) = Cardinality(AllTimers(h)) - Cardinality(AllTimers(h) \cap X)
      BY <2>2, CardDifference
    <3>2. Cardinality(AllFFICalls(h) \ F) = Cardinality(AllFFICalls(h)) - Cardinality(AllFFICalls(h) \cap F)
      BY <2>2, CardDifference
    <3>3. QED
      BY <2>1, <2>3, <3>1, <3>2
  <2>6. /\ Cardinality(AllTimers(h)) \in Nat /\ Cardinality(AllFFICalls(h)) \in Nat
        /\ Cardinality(AllTimers(r)) \in Nat /\ Cardinality(AllFFICalls(r)) \in Nat
        /\ Cardinality(X) \in Nat /\ Cardinality(F) \in Nat
    BY <2>1, <2>2, TasksFinite
  <2>7. QED
    BY <1>0, <2>4, <2>5, <2>6 DEF EventsCounted
<1>10. r \in MachineType
  <2>1. r.tk = [t \in Tasks |-> r.tk[t]] /\ r.sc = [e \in Execs |-> r.sc[e]]
    BY <1>0 DEF Release, MachineType
  <2>2. r.tk \in [Tasks -> TaskType] /\ r.sc \in [Execs -> ScopeType]
    BY <1>2, <1>6, <2>1
  <2>3. r = [h EXCEPT !.tk = r.tk, !.sc = r.sc, !.events = r.events]
    BY <1>0 DEF Release, MachineType
  <2>4. QED
    BY <1>0, <1>9, <2>2, <2>3 DEF MachineType
<1>11. ASSUME NEW e \in OpenScopes(h), h.sc[e].published = TRUE,
              Live(r, e) = {}, Timers(r, e) = {}, FFICalls(r, e) = {}
       PROVE  r.sc[e].status = "settled"
  <2>1. e \in Execs /\ h.sc[e] \in ScopeType /\ h.sc[e].status = "open"
    BY <1>0 DEF OpenScopes, MachineType
  <2>2. Live(h, e) \cap T = Live(h, e) /\ Timers(h, e) \cap X = Timers(h, e) /\ FFICalls(h, e) \cap F = FFICalls(h, e)
    BY <1>3, <1>11, <2>1
  <2>3. a(e) = h.sc[e].tasks /\ b(e) = h.sc[e].timers /\ c(e) = h.sc[e].ffis
    BY <1>0, <1>4, <2>1, <2>2 DEF Counted
  <2>4. r.sc[e] = ReleaseScope(h.sc[e], a(e), b(e), c(e))
    BY <1>1, <2>1 DEF Released
  <2> HIDE DEF a, b, c
  <2>5. QED
    <3>1. PICK old, new : old = h.sc[e] /\ new = r.sc[e]
      OBVIOUS
    <3>2. /\ old \in ScopeType /\ old.status = "open" /\ old.published = TRUE
          /\ new = ReleaseScope(old, old.tasks, old.timers, old.ffis)
      BY <1>11, <2>1, <2>3, <2>4, <3>1
    <3>3. new.status = "settled"
      BY <3>2, ReleaseScopeSettles
    <3>4. QED
      BY <3>1, <3>3
<1>12. Settling(r, h)
  BY <1>6, <1>9 DEF Settling, OpenScopes
<1>13. Settled(r, h)
  BY <1>11 DEF Settled
<1>14. QED
  BY <1>7, <1>8, <1>9, <1>10, <1>12, <1>13 DEF Books

\* Two machines whose tasks and scopes own the same things have the same books.
LEMMA SameBooks ==
  ASSUME NEW h, NEW r,
         \A t \in Tasks :
           /\ r.tk[t].scope = h.tk[t].scope
           /\ r.tk[t].state = "live" <=> h.tk[t].state = "live"
           /\ r.tk[t].timer # "none" <=> h.tk[t].timer # "none"
           /\ r.tk[t].ffi # "none" <=> h.tk[t].ffi # "none",
         \A e \in Execs :
           /\ r.sc[e].status = "open" <=> h.sc[e].status = "open"
           /\ r.sc[e].tasks = h.sc[e].tasks
           /\ r.sc[e].timers = h.sc[e].timers
           /\ r.sc[e].ffis = h.sc[e].ffis,
         r.events = h.events,
         Owned(h), Counted(h), EventsCounted(h)
  PROVE  Owned(r) /\ Counted(r) /\ EventsCounted(r) /\ OpenScopes(r) = OpenScopes(h)
<1>1. OpenScopes(r) = OpenScopes(h)
  BY DEF OpenScopes
<1>2. \A e : /\ Live(r, e) = Live(h, e)
             /\ Timers(r, e) = Timers(h, e)
             /\ FFICalls(r, e) = FFICalls(h, e)
  BY DEF Live, Timers, FFICalls, TasksOf
<1>3. AllTimers(r) = AllTimers(h) /\ AllFFICalls(r) = AllFFICalls(h)
  BY DEF AllTimers, AllFFICalls
<1>4. Owned(r)
  BY <1>1 DEF Owned
<1>5. Counted(r)
  BY <1>1, <1>2 DEF Counted, OpenScopes
<1>6. EventsCounted(r)
  BY <1>3 DEF EventsCounted
<1>7. QED
  BY <1>1, <1>4, <1>5, <1>6

RootStates == {"running", "completed", "failed", "canceled"}

\* p is h with the roots of C published.
PublishedIn(p, h, C) ==
  /\ p.tk = h.tk /\ p.up = h.up /\ p.foreground = h.foreground /\ p.running = h.running
  /\ p.runnable = h.runnable /\ p.blocked = h.blocked /\ p.nextID = h.nextID
  /\ OpenScopes(p) = OpenScopes(h) /\ p.events = h.events
  /\ \A e \in Execs : p.sc[e].status = h.sc[e].status
  /\ \A e \in C \cap Execs : p.sc[e].published = TRUE

LEMMA PublishCanceledKeepsBooks ==
  ASSUME NEW h, Books(h),
         NEW C, NEW state \in RootStates, NEW p, p = PublishCanceled(h, C, state)
  PROVE  Books(p) /\ PublishedIn(p, h, C)
<1>0. h \in MachineType
  BY DEF Books
<1>1. /\ p.tk = h.tk /\ p.up = h.up /\ p.foreground = h.foreground /\ p.running = h.running
      /\ p.runnable = h.runnable /\ p.blocked = h.blocked /\ p.nextID = h.nextID
      /\ p.events = h.events
      /\ p = [h EXCEPT !.sc = p.sc]
      /\ p.sc = [e \in Execs |-> IF e \in C /\ ~h.sc[e].published
                                 THEN [h.sc[e] EXCEPT !.published = TRUE, !.rootState = state]
                                 ELSE h.sc[e]]
  BY <1>0 DEF PublishCanceled, MachineType
<1>2. ASSUME NEW e \in Execs
      PROVE  /\ p.sc[e] \in ScopeType
             /\ p.sc[e].status = h.sc[e].status
             /\ p.sc[e].tasks = h.sc[e].tasks
             /\ p.sc[e].timers = h.sc[e].timers
             /\ p.sc[e].ffis = h.sc[e].ffis
             /\ e \in C => p.sc[e].published = TRUE
  <2>1. h.sc[e] \in ScopeType
    BY <1>0 DEF MachineType
  <2>2. p.sc[e] = IF e \in C /\ ~h.sc[e].published
                  THEN [h.sc[e] EXCEPT !.published = TRUE, !.rootState = state] ELSE h.sc[e]
    <3>1. p.sc = [f \in Execs |-> IF f \in C /\ ~h.sc[f].published
                                  THEN [h.sc[f] EXCEPT !.published = TRUE, !.rootState = state]
                                  ELSE h.sc[f]]
      BY <1>1
    <3>2. QED
      BY <3>1
  <2>3. CASE e \in C /\ ~h.sc[e].published
    <3>1. PICK old, new : old = h.sc[e] /\ new = p.sc[e]
      OBVIOUS
    <3>2. old \in ScopeType /\ new = [old EXCEPT !.published = TRUE, !.rootState = state]
      BY <2>1, <2>2, <2>3, <3>1
    <3>3. /\ new \in ScopeType /\ new.status = old.status /\ new.tasks = old.tasks
          /\ new.timers = old.timers /\ new.ffis = old.ffis /\ new.published = TRUE
      BY <3>2 DEF ScopeType, RootStates
    <3>4. QED
      BY <3>1, <3>3
  <2>4. CASE ~(e \in C /\ ~h.sc[e].published)
    BY <2>1, <2>2, <2>4
  <2>5. QED
    BY <2>3, <2>4
<1>3. p.sc \in [Execs -> ScopeType]
  BY <1>1, <1>2
<1>4. p \in MachineType
  BY <1>0, <1>1, <1>3 DEF MachineType
<1>5. Owned(p) /\ Counted(p) /\ EventsCounted(p) /\ OpenScopes(p) = OpenScopes(h)
  <2>1. \A t \in Tasks :
           /\ p.tk[t].scope = h.tk[t].scope
           /\ p.tk[t].state = "live" <=> h.tk[t].state = "live"
           /\ p.tk[t].timer # "none" <=> h.tk[t].timer # "none"
           /\ p.tk[t].ffi # "none" <=> h.tk[t].ffi # "none"
    BY <1>1
  <2>2. \A e \in Execs :
           /\ p.sc[e].status = "open" <=> h.sc[e].status = "open"
           /\ p.sc[e].tasks = h.sc[e].tasks
           /\ p.sc[e].timers = h.sc[e].timers
           /\ p.sc[e].ffis = h.sc[e].ffis
    BY <1>2
  <2>3. p.events = h.events
    BY <1>1
  <2>4. QED
    BY <2>1, <2>2, <2>3, SameBooks DEF Books
<1>6. QED
  BY <1>1, <1>2, <1>4, <1>5 DEF Books, PublishedIn

-----------------------------------------------------------------------------
(* Ending tasks, scopes and the machine                                    *)

LEMMA QueueTypes ==
  ASSUME NEW q \in QueueType(Tasks), NEW S, NEW t \in Tasks, NEW r \in QueueType(Tasks)
  PROVE  /\ Without(q, S) \in QueueType(Tasks) /\ Without(q, S).elems = q.elems \ S
         /\ Only(q, S) \in QueueType(Tasks) /\ Only(q, S).elems = q.elems \cap S
         /\ PushBack(q, t) \in QueueType(Tasks) /\ PushBack(q, t).elems = q.elems \cup {t}
         /\ PushFront(q, t) \in QueueType(Tasks) /\ PushFront(q, t).elems = q.elems \cup {t}
         /\ Join(q, r) \in QueueType(Tasks) /\ Join(q, r).elems = q.elems \cup r.elems
         /\ EmptyQueue \in QueueType(Tasks) /\ EmptyQueue.elems = {}
  BY DEF QueueType, Without, Only, PushBack, PushFront, Join, EmptyQueue

\* A change of queues, foreground, running task and up alone leaves the books.
LEMMA QueuesKeepBooks ==
  ASSUME NEW h, Books(h), NEW r,
         r \in MachineType, r.tk = h.tk, r.sc = h.sc, r.events = h.events
  PROVE  Books(r) /\ OpenScopes(r) = OpenScopes(h)
<1>1. OpenScopes(r) = OpenScopes(h)
  BY DEF OpenScopes
<1>2. Owned(r)
  BY <1>1 DEF Books, Owned
<1>3. Counted(r)
  <2>1. \A e : Live(r, e) = Live(h, e) /\ Timers(r, e) = Timers(h, e) /\ FFICalls(r, e) = FFICalls(h, e)
    BY DEF Live, Timers, FFICalls, TasksOf
  <2>2. QED
    BY <1>1, <2>1 DEF Books, Counted
<1>4. EventsCounted(r)
  BY DEF Books, EventsCounted, AllTimers, AllFFICalls
<1>5. QED
  BY <1>1, <1>2, <1>3, <1>4 DEF Books

\* What a scope owns ends with it: without open scopes nothing is alive.
LEMMA NothingOpen ==
  ASSUME NEW h, Books(h), OpenScopes(h) = {}
  PROVE  /\ \A t \in Tasks : h.tk[t].state # "live" /\ h.tk[t].timer = "none" /\ h.tk[t].ffi = "none"
         /\ AllTimers(h) = {} /\ AllFFICalls(h) = {}
  BY DEF Books, Owned, AllTimers, AllFFICalls

LEMMA DownKeepsInv ==
  ASSUME NEW h, Books(h), Fresh(h), OpenScopes(h) = {}, NEW r, r = Down(h)
  PROVE  /\ MachineInv(r) /\ r.running = NoTask /\ ~r.up /\ r.foreground = NoExec
         /\ r.nextID = h.nextID /\ r.sc = h.sc /\ r.tk = h.tk /\ r.events = h.events
<1>1. /\ r.up = FALSE /\ r.foreground = NoExec /\ r.running = NoTask
      /\ r.runnable = EmptyQueue /\ r.blocked = EmptyQueue /\ r.nextID = h.nextID
      /\ r.sc = h.sc /\ r.tk = h.tk /\ r.events = h.events
  BY DEF Down, Books, MachineType
<1>2. r \in MachineType
  <2>1. EmptyQueue \in QueueType(Tasks)
    BY DEF QueueType, EmptyQueue
  <2>2. QED
    BY <2>1 DEF Down, Books, MachineType
<1>3. Books(r) /\ OpenScopes(r) = {}
  BY <1>1, <1>2, QueuesKeepBooks
<1>4. Placed(r)
  <2>1. NoTask \notin Tasks
    BY LimitsAssumption DEF NoTask, Tasks
  <2>2. Queued(r) = {} /\ r.runnable.elems = {} /\ r.blocked.elems = {}
    BY <1>1 DEF Queued, EmptyQueue
  <2>3. \A t \in Tasks : r.tk[t].state # "live" /\ r.tk[t].ffi = "none"
    BY <1>3, NothingOpen
  <2>4. QED
    BY <1>1, <2>1, <2>2, <2>3 DEF Placed
<1>5. Fresh(r)
  BY <1>1 DEF Fresh
<1>6. Lifetime(r)
  BY <1>1, <1>3 DEF Lifetime
<1>7. QED
  BY <1>1, <1>3, <1>4, <1>5, <1>6 DEF MachineInv

\* r came from h by ending things.
Ends(r, h) ==
  /\ r.nextID = h.nextID /\ r.events <= h.events
  /\ r.running \in {h.running, NoTask}
  /\ \A e \in Execs : h.sc[e].status = "none" => r.sc[e].status = "none"

LEMMA EventsNat ==
  ASSUME NEW h, MachineInv(h)
  PROVE  h.events \in Nat /\ h.events <= h.events
<1>1. h.events \in Nat
  BY DEF MachineInv, Books, MachineType
<1>2. QED
  BY <1>1

LEMMA EndsTransitive ==
  ASSUME NEW h, NEW q, NEW r, MachineInv(h), MachineInv(q), MachineInv(r), Ends(q, h), Ends(r, q)
  PROVE  Ends(r, h)
<1>1. r.events \in Nat /\ q.events \in Nat /\ h.events \in Nat
  BY EventsNat
<1>2. r.events <= h.events
  BY <1>1 DEF Ends
<1>3. QED
  BY <1>2 DEF Ends

LEMMA FinishForegroundKeepsInv ==
  ASSUME NEW h, MachineInv(h), NEW r, r = FinishForeground(h)
  PROVE  MachineInv(r) /\ Ends(r, h)
<1>1. CASE h.up /\ OpenScopes(h) = {}
  <2>1. r = Down(h)
    BY <1>1 DEF FinishForeground
  <2>2. QED
    BY <1>1, <2>1, DownKeepsInv, EventsNat DEF MachineInv, Ends
<1>2. CASE ~(h.up /\ OpenScopes(h) = {})
  <2>1. r = [h EXCEPT !.foreground = NoExec]
    BY <1>2 DEF FinishForeground
  <2>2. h \in MachineType
    BY DEF MachineInv, Books
  <2>3. /\ r \in MachineType /\ r.tk = h.tk /\ r.sc = h.sc /\ r.events = h.events /\ r.foreground = NoExec
        /\ r.running = h.running /\ r.runnable = h.runnable /\ r.blocked = h.blocked
        /\ r.nextID = h.nextID /\ r.up = h.up
    BY <2>1, <2>2 DEF MachineType
  <2>4. Books(r) /\ OpenScopes(r) = OpenScopes(h)
    BY <2>3, QueuesKeepBooks DEF MachineInv
  <2>5. Placed(r)
    BY <2>3 DEF MachineInv, Placed, Queued
  <2>6. Fresh(r)
    BY <2>3 DEF MachineInv, Fresh
  <2>7. Lifetime(r)
    BY <2>3, <2>4 DEF MachineInv, Lifetime
  <2>8. QED
    BY <2>3, <2>4, <2>5, <2>6, <2>7, EventsNat DEF MachineInv, Ends
<1>3. QED
  BY <1>1, <1>2

\* A scope that is cancelled publishes its root first; then all it owns is
\* released, unless one of its tasks is running.
LEMMA CancelScopesKeepsInv ==
  ASSUME NEW h, MachineInv(h), NEW E, NEW state \in RootStates,
         NEW r, r = CancelScopes(h, E, state)
  PROVE  MachineInv(r) /\ Ends(r, h)
<1> DEFINE C    == E \cap OpenScopes(h)
           ours == UNION {TasksOf(h, e) : e \in C}
           gone == Queued(h) \cap ours
           X    == AllTimers(h) \cap ours
           F    == AllFFICalls(h) \cap ours
<1>p. PICK p : p = PublishCanceled(h, C, state)
  OBVIOUS
<1>q. PICK q : q = Release(p, gone, X, F)
  OBVIOUS
<1>1. Books(h) /\ h \in MachineType
  BY DEF MachineInv, Books
<1>2. Books(p) /\ PublishedIn(p, h, C)
  <2> HIDE DEF C
  <2>1. QED
    BY <1>1, <1>p, PublishCanceledKeepsBooks
<1>3. \A t : t \in ours <=> t \in Tasks /\ h.tk[t].scope \in C
  BY DEF TasksOf
<1>4. /\ gone \subseteq {t \in Tasks : p.tk[t].state = "live"}
      /\ X \subseteq AllTimers(p) /\ F \subseteq AllFFICalls(p)
  <2>1. gone \subseteq {t \in Tasks : h.tk[t].state = "live"}
    BY <1>3 DEF MachineInv, Placed
  <2>2. AllTimers(p) = AllTimers(h) /\ AllFFICalls(p) = AllFFICalls(h)
    BY <1>2 DEF AllTimers, AllFFICalls, PublishedIn
  <2>3. p.tk = h.tk
    BY <1>2 DEF PublishedIn
  <2>4. QED
    BY <2>1, <2>2, <2>3
<1>5. r = [q EXCEPT !.runnable   = Without(h.runnable, gone),
                    !.blocked    = Without(h.blocked, gone),
                    !.foreground = IF h.foreground \in C THEN NoExec ELSE h.foreground]
  BY <1>p, <1>q DEF CancelScopes
<1> HIDE DEF gone, X, F, ours, C
<1>6. Books(q) /\ Settling(q, p)
  BY <1>q, <1>2, <1>4, ReleaseKeepsBooks
<1>7. /\ q.up = h.up /\ q.running = h.running /\ q.nextID = h.nextID
      /\ \A t \in Tasks :
           /\ q.tk[t].scope = h.tk[t].scope
           /\ q.tk[t].state = (IF t \in gone THEN "finished" ELSE h.tk[t].state)
           /\ q.tk[t].op    = (IF t \in gone THEN "none" ELSE h.tk[t].op)
           /\ q.tk[t].ffi   = (IF t \in F THEN "none" ELSE h.tk[t].ffi)
  <2>1. p \in MachineType
    BY <1>2 DEF Books
  <2>2. Released(q, p, gone, X, F)
    BY <1>q, <2>1, ReleaseFields
  <2>3. QED
    BY <1>2, <2>2 DEF Released, PublishedIn
<1>8. /\ h.runnable \in QueueType(Tasks) /\ h.blocked \in QueueType(Tasks)
      /\ h.foreground \in Execs \cup {NoExec}
  BY <1>1 DEF MachineType
<1>9. /\ Without(h.runnable, gone) \in QueueType(Tasks) /\ Without(h.blocked, gone) \in QueueType(Tasks)
      /\ Without(h.runnable, gone).elems = h.runnable.elems \ gone
      /\ Without(h.blocked, gone).elems = h.blocked.elems \ gone
  BY <1>8 DEF QueueType, Without, Only
<1>10. /\ r \in MachineType
       /\ r.tk = q.tk /\ r.sc = q.sc /\ r.events = q.events /\ r.up = q.up
       /\ r.running = q.running /\ r.nextID = q.nextID
       /\ r.runnable = Without(h.runnable, gone) /\ r.blocked = Without(h.blocked, gone)
       /\ r.foreground = (IF h.foreground \in C THEN NoExec ELSE h.foreground)
  BY <1>5, <1>6, <1>8, <1>9 DEF MachineType, Books
<1>11. Books(r) /\ OpenScopes(r) = OpenScopes(q)
  BY <1>6, <1>10, QueuesKeepBooks
<1>12. Placed(r)
  <2>1. /\ r.runnable.elems = h.runnable.elems \ gone /\ r.blocked.elems = h.blocked.elems \ gone
        /\ r.running = h.running
    BY <1>7, <1>9, <1>10
  <2>2. Queued(r) = Queued(h) \ gone
    BY <2>1 DEF Queued
  <2>3. h.running \notin gone
    BY DEF gone, MachineInv, Placed
  <2>4. ASSUME NEW t \in Tasks
        PROVE  r.tk[t].state = "live" <=> t \in Queued(r) \cup {r.running}
    <3>1. h.tk[t].state = "live" <=> t \in Queued(h) \cup {h.running}
      BY DEF MachineInv, Placed
    <3>2. QED
      BY <1>7, <1>10, <2>1, <2>2, <2>3, <3>1
  <2>5. ASSUME NEW t \in Tasks, r.tk[t].ffi # "none"
        PROVE  t \in r.blocked.elems /\ r.tk[t].op = "ffi"
    <3>1. h.tk[t].ffi # "none" /\ t \notin F
      BY <1>7, <1>10, <2>5
    <3>2. t \in h.blocked.elems /\ h.tk[t].op = "ffi"
      BY <3>1 DEF MachineInv, Placed
    <3>3. t \notin gone
      BY <3>1 DEF F, gone, AllFFICalls
    <3>4. QED
      BY <1>7, <1>10, <2>1, <3>2, <3>3
  <2>6. r.runnable.elems \cap r.blocked.elems = {} /\ r.running \notin Queued(r)
    BY <2>1, <2>2 DEF MachineInv, Placed
  <2>7. QED
    BY <2>4, <2>5, <2>6 DEF Placed
<1>13. Fresh(r)
  <2>1. ASSUME NEW t \in Tasks, t >= r.nextID
        PROVE  r.tk[t].state = "free" /\ r.tk[t].scope = NoExec
    <3>1. h.tk[t].state = "free" /\ h.tk[t].scope = NoExec
      BY <1>7, <1>10, <2>1 DEF MachineInv, Fresh
    <3>2. t \notin gone
      BY <1>3, <3>1, ExecsAssumption DEF gone, C, OpenScopes
    <3>3. QED
      BY <1>7, <1>10, <3>1, <3>2
  <2>2. QED
    BY <1>7, <1>10, <2>1 DEF MachineInv, Fresh
<1>14. /\ OpenScopes(r) \subseteq OpenScopes(h)
       /\ \A e \in Execs : h.sc[e].status = "none" => r.sc[e].status = "none"
       /\ r.events <= h.events
  BY <1>2, <1>6, <1>10, <1>11 DEF Settling, PublishedIn
<1>15. Lifetime(r)
  BY <1>7, <1>10, <1>14 DEF MachineInv, Lifetime
<1>16. QED
  BY <1>7, <1>10, <1>11, <1>12, <1>13, <1>14, <1>15 DEF MachineInv, Ends

LEMMA NoTaskIsNone == NoTask \notin Tasks
  BY LimitsAssumption DEF NoTask, Tasks

LEMMA AbortQueuedTasksKeepsInv ==
  ASSUME NEW h, MachineInv(h), h.running = NoTask, NEW r, r = AbortQueuedTasks(h)
  PROVE  MachineInv(r) /\ Ends(r, h)
<1> DEFINE S == Queued(h)
           F == {t \in S : h.tk[t].op = "ffi" /\ h.tk[t].ffi # "none"}
<1>1. PICK q : q = Release(h, S, {}, F)
  OBVIOUS
<1>2. r = [q EXCEPT !.runnable = EmptyQueue, !.blocked = EmptyQueue, !.running = NoTask]
  BY <1>1 DEF AbortQueuedTasks, EndTasks
<1>3. Books(h) /\ h \in MachineType
  BY DEF MachineInv, Books
<1>4. /\ S \subseteq {t \in Tasks : h.tk[t].state = "live"}
      /\ {t \in Tasks : h.tk[t].state = "live"} \subseteq S
  <2>1. S \subseteq Tasks
    BY <1>3 DEF MachineType, QueueType, Queued
  <2>2. QED
    BY <2>1, NoTaskIsNone DEF MachineInv, Placed
<1>5. {} \subseteq AllTimers(h) /\ F = AllFFICalls(h)
  BY <1>4 DEF AllFFICalls, MachineInv, Placed, Queued
<1> HIDE DEF S, F
<1>6. Books(q) /\ Settling(q, h)
  BY <1>1, <1>3, <1>4, <1>5, ReleaseKeepsBooks
<1>7. Released(q, h, S, {}, F)
  BY <1>1, <1>3, ReleaseFields
<1>8. /\ r \in MachineType
      /\ r.tk = q.tk /\ r.sc = q.sc /\ r.events = q.events /\ r.up = q.up
      /\ r.running = NoTask /\ r.nextID = q.nextID /\ r.foreground = q.foreground
      /\ r.runnable = EmptyQueue /\ r.blocked = EmptyQueue
  <2>1. EmptyQueue \in QueueType(Tasks) /\ q \in MachineType
    BY <1>6 DEF QueueType, EmptyQueue, Books
  <2>2. QED
    BY <1>2, <2>1 DEF MachineType
<1>9. Books(r) /\ OpenScopes(r) = OpenScopes(q)
  BY <1>6, <1>8, QueuesKeepBooks
<1>10. Placed(r)
  <2>1. r.runnable.elems = {} /\ r.blocked.elems = {} /\ Queued(r) = {}
    BY <1>8 DEF EmptyQueue, Queued
  <2>2. ASSUME NEW t \in Tasks
        PROVE  r.tk[t].state # "live" /\ r.tk[t].ffi = "none"
    <3>1. h.tk[t].state = "live" => t \in S
      BY <1>4
    <3>2. h.tk[t].ffi # "none" => t \in F
      BY <1>5 DEF AllFFICalls
    <3>3. QED
      BY <1>7, <1>8, <3>1, <3>2 DEF Released
  <2>3. QED
    BY <1>8, <2>1, <2>2, NoTaskIsNone DEF Placed
<1>11. Fresh(r)
  <2>1. ASSUME NEW t \in Tasks, t >= r.nextID
        PROVE  r.tk[t].state = "free" /\ r.tk[t].scope = NoExec
    <3>1. h.tk[t].state = "free" /\ h.tk[t].scope = NoExec
      BY <1>7, <1>8, <2>1 DEF MachineInv, Fresh, Released
    <3>2. t \notin S
      BY <1>4, <3>1
    <3>3. QED
      BY <1>7, <1>8, <3>1, <3>2 DEF Released
  <2>2. QED
    BY <1>7, <1>8, <2>1 DEF MachineInv, Fresh, Released
<1>12. Lifetime(r)
  BY <1>6, <1>7, <1>8, <1>9 DEF MachineInv, Lifetime, Settling, Released
<1>13. Ends(r, h)
  BY <1>6, <1>7, <1>8 DEF Ends, Settling, Released
<1>14. QED
  BY <1>9, <1>10, <1>11, <1>12, <1>13 DEF MachineInv

\* cancelAllScopes settles every scope, so the machine can go.
LEMMA FinishRunKeepsInv ==
  ASSUME NEW h, MachineInv(h), h.running = NoTask, NEW r, r = FinishRun(h)
  PROVE  MachineInv(r) /\ Ends(r, h)
<1> DEFINE C == IF h.up THEN OpenScopes(h) ELSE {}
           ours == UNION {TasksOf(h, e) : e \in C}
           S == Queued(h) \cap ours
<1>1. C = OpenScopes(h)
  BY DEF MachineInv, Lifetime
<1>2. PICK p : p = PublishCanceled(h, C, "canceled")
  OBVIOUS
<1>3. PICK q : q = Release(p, S, AllTimers(h), AllFFICalls(h))
  OBVIOUS
<1>4. r = Down(q)
  BY <1>2, <1>3 DEF FinishRun
<1>5. Books(h) /\ h \in MachineType
  BY DEF MachineInv, Books
<1>6. Books(p) /\ PublishedIn(p, h, C)
  <2> HIDE DEF C
  <2>1. "canceled" \in RootStates
    BY DEF RootStates
  <2>2. QED
    BY <1>2, <1>5, <2>1, PublishCanceledKeepsBooks
<1>7. \A t : t \in ours <=> t \in Tasks /\ h.tk[t].scope \in OpenScopes(h)
  BY <1>1 DEF TasksOf
<1>8. /\ S \subseteq {t \in Tasks : p.tk[t].state = "live"}
      /\ {t \in Tasks : p.tk[t].state = "live"} \subseteq S
  <2>1. p.tk = h.tk
    BY <1>6 DEF PublishedIn
  <2>2. S \subseteq {t \in Tasks : h.tk[t].state = "live"}
    BY <1>7 DEF MachineInv, Placed
  <2>3. ASSUME NEW t \in Tasks, h.tk[t].state = "live" PROVE t \in S
    <3>1. t \in Queued(h)
      BY <2>3, NoTaskIsNone DEF MachineInv, Placed
    <3>2. t \in ours
      BY <1>7, <2>3 DEF MachineInv, Books, Owned
    <3>3. QED
      BY <3>1, <3>2
  <2>4. QED
    BY <2>1, <2>2, <2>3
<1>9. AllTimers(h) = AllTimers(p) /\ AllFFICalls(h) = AllFFICalls(p)
  BY <1>6 DEF AllTimers, AllFFICalls, PublishedIn
<1> HIDE DEF S, ours, C
<1>10. Books(q) /\ Settling(q, p) /\ Settled(q, p)
  BY <1>3, <1>6, <1>8, <1>9, ReleaseKeepsBooks
<1>11. Released(q, p, S, AllTimers(h), AllFFICalls(h))
  <2>1. p \in MachineType
    BY <1>6 DEF Books
  <2>2. QED
    BY <1>3, <2>1, ReleaseFields
<1>12. ASSUME NEW t \in Tasks
       PROVE  /\ q.tk[t].state # "live" /\ q.tk[t].timer = "none" /\ q.tk[t].ffi = "none"
              /\ q.tk[t].scope = h.tk[t].scope
              /\ h.tk[t].state # "live" => q.tk[t].state = h.tk[t].state
  <2>1. p.tk = h.tk
    BY <1>6 DEF PublishedIn
  <2>2. h.tk[t].state = "live" <=> t \in S
    BY <1>8, <2>1
  <2>3. /\ h.tk[t].timer # "none" <=> t \in AllTimers(h)
        /\ h.tk[t].ffi # "none" <=> t \in AllFFICalls(h)
    BY DEF AllTimers, AllFFICalls
  <2>4. QED
    BY <1>11, <2>1, <2>2, <2>3 DEF Released
<1>13. \A e : Live(q, e) = {} /\ Timers(q, e) = {} /\ FFICalls(q, e) = {}
  BY <1>12 DEF Live, Timers, FFICalls, TasksOf
<1>14. OpenScopes(q) = {}
  <2> SUFFICES ASSUME NEW e \in OpenScopes(q) PROVE FALSE
    OBVIOUS
  <2>1. e \in OpenScopes(p) /\ e \in OpenScopes(h) /\ e \in Execs
    BY <1>6, <1>10 DEF Settling, OpenScopes, PublishedIn
  <2>2. p.sc[e].published = TRUE
    BY <1>1, <1>6, <2>1 DEF PublishedIn
  <2>3. q.sc[e].status = "settled"
    BY <1>10, <1>13, <2>1, <2>2 DEF Settled
  <2>4. QED
    BY <2>3 DEF OpenScopes
<1>15. Fresh(q)
  <2>1. q.nextID = h.nextID
    BY <1>6, <1>11 DEF Released, PublishedIn
  <2>2. QED
    BY <1>12, <2>1 DEF MachineInv, Fresh
<1>16. /\ MachineInv(r) /\ r.running = NoTask /\ r.nextID = q.nextID /\ r.sc = q.sc /\ r.events = q.events
  BY <1>4, <1>10, <1>14, <1>15, DownKeepsInv
<1>17. Ends(r, h)
  BY <1>6, <1>10, <1>11, <1>16 DEF Ends, Settling, Released, PublishedIn
<1>18. QED
  BY <1>16, <1>17

-----------------------------------------------------------------------------
(* The running task                                                        *)

LEMMA RunningFacts ==
  ASSUME NEW h, MachineInv(h), h.running # NoTask
  PROVE  /\ h.running \in Tasks /\ h.running \notin Queued(h)
         /\ h.tk[h.running] \in TaskType
         /\ h.tk[h.running].state = "live" /\ h.tk[h.running].ffi = "none"
         /\ Scope(h) \in Execs /\ Scope(h) \in OpenScopes(h) /\ h.sc[Scope(h)].status = "open"
         /\ h.sc[Scope(h)] \in ScopeType
<1>1. h \in MachineType /\ Owned(h) /\ Placed(h)
  BY DEF MachineInv, Books
<1>2. h.running \in Tasks
  BY <1>1 DEF MachineType
<1>3. h.tk[h.running] \in TaskType
  BY <1>1, <1>2 DEF MachineType
<1>4. h.running \notin Queued(h) /\ h.tk[h.running].state = "live" /\ h.tk[h.running].ffi = "none"
  BY <1>1, <1>2 DEF Placed, Queued
<1>5. Scope(h) \in OpenScopes(h)
  BY <1>1, <1>2, <1>4 DEF Owned, Scope
<1>6. Scope(h) \in Execs /\ h.sc[Scope(h)].status = "open"
  BY <1>5 DEF OpenScopes
<1>7. h.sc[Scope(h)] \in ScopeType
  BY <1>1, <1>6 DEF MachineType
<1>8. QED
  BY <1>2, <1>3, <1>4, <1>5, <1>6, <1>7

LEMMA EndRunningKeepsInv ==
  ASSUME NEW h, MachineInv(h), h.running # NoTask, NEW r, r = EndRunning(h)
  PROVE  MachineInv(r) /\ Ends(r, h) /\ r.running = NoTask
<1> DEFINE S == {h.running}
           F == {t \in S : h.tk[t].op = "ffi" /\ h.tk[t].ffi # "none"}
<1>1. PICK q : q = Release(h, S, {}, F)
  OBVIOUS
<1>2. r = [q EXCEPT !.running = NoTask]
  BY <1>1 DEF EndRunning, EndTasks
<1>3. Books(h) /\ h \in MachineType
  BY DEF MachineInv, Books
<1>4. S \subseteq {t \in Tasks : h.tk[t].state = "live"} /\ F = {}
  BY RunningFacts
<1> HIDE DEF S, F
<1>5. {} \subseteq AllTimers(h) /\ F \subseteq AllFFICalls(h)
  BY <1>4
<1>6. Books(q) /\ Settling(q, h)
  BY <1>1, <1>3, <1>4, <1>5, ReleaseKeepsBooks
<1>7. Released(q, h, S, {}, F)
  BY <1>1, <1>3, ReleaseFields
<1>8. /\ r \in MachineType
      /\ r.tk = q.tk /\ r.sc = q.sc /\ r.events = q.events /\ r.up = q.up
      /\ r.running = NoTask /\ r.nextID = q.nextID /\ r.foreground = q.foreground
      /\ r.runnable = q.runnable /\ r.blocked = q.blocked
  <2>1. q \in MachineType
    BY <1>6 DEF Books
  <2>2. QED
    BY <1>2, <2>1 DEF MachineType
<1>9. Books(r) /\ OpenScopes(r) = OpenScopes(q)
  BY <1>6, <1>8, QueuesKeepBooks
<1>10. Placed(r)
  <2>1. r.runnable = h.runnable /\ r.blocked = h.blocked /\ Queued(r) = Queued(h)
    BY <1>7, <1>8 DEF Released, Queued
  <2>2. Queued(h) \subseteq Tasks
    BY <1>3 DEF MachineType, QueueType, Queued
  <2>3. ASSUME NEW t \in Tasks
        PROVE  /\ r.tk[t].state = "live" <=> t \in Queued(r) \cup {r.running}
               /\ r.tk[t].ffi # "none" => t \in r.blocked.elems /\ r.tk[t].op = "ffi"
    <3>1. /\ h.tk[t].state = "live" <=> t \in Queued(h) \cup {h.running}
          /\ h.tk[t].ffi # "none" => t \in h.blocked.elems /\ h.tk[t].op = "ffi"
          /\ h.running \notin Queued(h)
      BY DEF MachineInv, Placed
    <3>2. CASE t = h.running
      <4>1. r.tk[t].state = "finished" /\ r.tk[t].ffi = "none"
        BY <1>4, <1>7, <1>8, <3>2, RunningFacts DEF Released, S
      <4>2. QED
        BY <1>8, <2>1, <3>1, <3>2, <4>1, NoTaskIsNone
    <3>3. CASE t # h.running
      <4>1. r.tk[t].state = h.tk[t].state /\ r.tk[t].ffi = h.tk[t].ffi /\ r.tk[t].op = h.tk[t].op
        BY <1>4, <1>7, <1>8, <3>3 DEF Released, S
      <4>2. QED
        BY <1>8, <2>1, <3>1, <3>3, <4>1, NoTaskIsNone
    <3>4. QED
      BY <3>2, <3>3
  <2>4. r.runnable.elems \cap r.blocked.elems = {} /\ r.running \notin Queued(r)
    BY <1>8, <2>1, <2>2, NoTaskIsNone DEF MachineInv, Placed
  <2>5. QED
    BY <2>3, <2>4 DEF Placed
<1>11. Fresh(r)
  <2>1. ASSUME NEW t \in Tasks, t >= r.nextID
        PROVE  r.tk[t].state = "free" /\ r.tk[t].scope = NoExec
    <3>1. h.tk[t].state = "free" /\ h.tk[t].scope = NoExec
      BY <1>7, <1>8, <2>1 DEF MachineInv, Fresh, Released
    <3>2. t \notin S
      BY <1>4, <3>1
    <3>3. QED
      BY <1>7, <1>8, <3>1, <3>2 DEF Released
  <2>2. QED
    BY <1>7, <1>8, <2>1 DEF MachineInv, Fresh, Released
<1>12. Lifetime(r)
  BY <1>6, <1>7, <1>8, <1>9 DEF MachineInv, Lifetime, Settling, Released
<1>13. Ends(r, h)
  BY <1>6, <1>7, <1>8 DEF Ends, Settling, Released
<1>14. QED
  BY <1>8, <1>9, <1>10, <1>11, <1>12, <1>13 DEF MachineInv

\* A program's failure and a library scope's own.
LEMMA FailRunKeepsInv ==
  ASSUME NEW h, MachineInv(h), h.running # NoTask, NEW r, r = AbortQueuedTasks(EndRunning(h))
  PROVE  MachineInv(r) /\ Ends(r, h) /\ r.running = NoTask
<1>1. PICK q : q = EndRunning(h)
  OBVIOUS
<1>2. MachineInv(q) /\ Ends(q, h) /\ q.running = NoTask
  BY <1>1, EndRunningKeepsInv
<1>3. MachineInv(r) /\ Ends(r, q)
  BY <1>1, <1>2, AbortQueuedTasksKeepsInv
<1>4. Ends(r, h)
  BY <1>2, <1>3, EndsTransitive
<1>5. QED
  BY <1>2, <1>3, <1>4 DEF Ends

LEMMA EndScopeKeepsInv ==
  ASSUME NEW h, MachineInv(h), h.running # NoTask, NEW E, NEW state \in RootStates,
         NEW r, r = CancelScopes(EndRunning(h), E, state)
  PROVE  MachineInv(r) /\ Ends(r, h) /\ r.running = NoTask
<1>1. PICK q : q = EndRunning(h)
  OBVIOUS
<1>2. MachineInv(q) /\ Ends(q, h) /\ q.running = NoTask
  BY <1>1, EndRunningKeepsInv
<1>3. MachineInv(r) /\ Ends(r, q)
  BY <1>1, <1>2, CancelScopesKeepsInv
<1>4. Ends(r, h)
  BY <1>2, <1>3, EndsTransitive
<1>5. QED
  BY <1>2, <1>3, <1>4 DEF Ends

LEMMA SettleScopeFields ==
  ASSUME NEW s \in ScopeType, NEW r, r = SettleScope(s)
  PROVE  /\ r \in ScopeType
         /\ r.tasks = s.tasks /\ r.timers = s.timers /\ r.ffis = s.ffis
         /\ \/ r.status = s.status
            \/ s.status = "open" /\ r.status = "settled" /\ s.tasks = 0 /\ s.timers = 0 /\ s.ffis = 0
<1>1. CASE s.status = "open" /\ s.tasks = 0 /\ s.timers = 0 /\ s.ffis = 0 /\ s.published
  <2>1. r = [s EXCEPT !.status = "settled"]
    BY <1>1 DEF SettleScope
  <2>2. QED
    BY <1>1, <2>1 DEF ScopeType
<1>2. CASE ~(s.status = "open" /\ s.tasks = 0 /\ s.timers = 0 /\ s.ffis = 0 /\ s.published)
  BY <1>2 DEF SettleScope
<1>3. QED
  BY <1>1, <1>2

LEMMA PublishScopeRootKeepsInv ==
  ASSUME NEW h, MachineInv(h), NEW x \in Execs \cup {NoExec}, NEW state \in RootStates,
         NEW r, r = PublishScopeRoot(h, x, state)
  PROVE  MachineInv(r) /\ Ends(r, h)
<1>1. CASE r = h
  BY <1>1, EventsNat DEF Ends
<1>2. CASE r # h
  <2>1. /\ x \in Execs /\ h.sc[x].status = "open"
        /\ r = [h EXCEPT !.sc[x] = SettleScope([@ EXCEPT !.published = TRUE, !.rootState = state])]
    BY <1>2 DEF PublishScopeRoot
  <2>2. Books(h) /\ h \in MachineType /\ h.sc[x] \in ScopeType
    BY <2>1 DEF MachineInv, Books, MachineType
  <2>3. PICK s : s = [h.sc[x] EXCEPT !.published = TRUE, !.rootState = state]
    OBVIOUS
  <2>4. /\ s \in ScopeType /\ s.status = "open"
        /\ s.tasks = h.sc[x].tasks /\ s.timers = h.sc[x].timers /\ s.ffis = h.sc[x].ffis
    BY <2>1, <2>2, <2>3 DEF ScopeType, RootStates
  <2>5. PICK z : z = SettleScope(s)
    OBVIOUS
  <2>6. /\ z \in ScopeType
        /\ z.tasks = s.tasks /\ z.timers = s.timers /\ z.ffis = s.ffis
        /\ \/ z.status = "open"
           \/ z.status = "settled" /\ s.tasks = 0 /\ s.timers = 0 /\ s.ffis = 0
    BY <2>4, <2>5, SettleScopeFields
  <2>7. /\ r \in MachineType
        /\ r.tk = h.tk /\ r.events = h.events /\ r.up = h.up /\ r.nextID = h.nextID
        /\ r.running = h.running /\ r.foreground = h.foreground
        /\ r.runnable = h.runnable /\ r.blocked = h.blocked
        /\ r.sc = [h.sc EXCEPT ![x] = z]
    BY <2>1, <2>2, <2>3, <2>5, <2>6 DEF MachineType
  <2>8. r.sc[x] = z /\ \A e \in Execs : e # x => r.sc[e] = h.sc[e]
    BY <2>1, <2>2, <2>7 DEF MachineType
  <2>9. \A e : Live(r, e) = Live(h, e) /\ Timers(r, e) = Timers(h, e) /\ FFICalls(r, e) = FFICalls(h, e)
    BY <2>7 DEF Live, Timers, FFICalls, TasksOf
  <2>10. OpenScopes(r) \subseteq OpenScopes(h) /\ OpenScopes(h) \ {x} \subseteq OpenScopes(r)
    BY <2>1, <2>8 DEF OpenScopes
  <2>11. Counted(r)
    <3> SUFFICES ASSUME NEW e \in OpenScopes(r)
                 PROVE  /\ r.sc[e].tasks  = Cardinality(Live(h, e))
                        /\ r.sc[e].timers = Cardinality(Timers(h, e))
                        /\ r.sc[e].ffis   = Cardinality(FFICalls(h, e))
      BY <2>9 DEF Counted
    <3>1. e \in OpenScopes(h) /\ e \in Execs
      BY <2>10 DEF OpenScopes
    <3>2. r.sc[e].tasks = h.sc[e].tasks /\ r.sc[e].timers = h.sc[e].timers /\ r.sc[e].ffis = h.sc[e].ffis
      BY <2>4, <2>6, <2>8, <3>1
    <3>3. QED
      BY <2>2, <3>1, <3>2 DEF Books, Counted
  <2>12. Owned(r)
    <3> SUFFICES ASSUME NEW t \in Tasks,
                        r.tk[t].state = "live" \/ r.tk[t].timer # "none" \/ r.tk[t].ffi # "none"
                 PROVE  r.tk[t].scope \in OpenScopes(r)
      BY DEF Owned
    <3>1. h.tk[t].scope \in OpenScopes(h) /\ r.tk[t].scope = h.tk[t].scope
      BY <2>2, <2>7 DEF Books, Owned
    <3>2. CASE h.tk[t].scope # x
      BY <2>10, <3>1, <3>2
    <3>3. CASE h.tk[t].scope = x
      <4>1. Live(h, x) # {} \/ Timers(h, x) # {} \/ FFICalls(h, x) # {}
        BY <2>7, <3>3 DEF Live, Timers, FFICalls, TasksOf
      <4>2. Live(h, x) \subseteq Tasks /\ Timers(h, x) \subseteq Tasks /\ FFICalls(h, x) \subseteq Tasks
        BY DEF Live, Timers, FFICalls, TasksOf
      <4>3. /\ h.sc[x].tasks = Cardinality(Live(h, x)) /\ h.sc[x].timers = Cardinality(Timers(h, x))
            /\ h.sc[x].ffis = Cardinality(FFICalls(h, x))
        BY <2>2, <3>1, <3>3 DEF Books, Counted
      <4>4. ~(h.sc[x].tasks = 0 /\ h.sc[x].timers = 0 /\ h.sc[x].ffis = 0)
        BY <4>1, <4>2, <4>3, TasksFinite
      <4>5. r.sc[x].status = "open"
        BY <2>4, <2>6, <2>8, <4>4
      <4>6. QED
        BY <2>1, <3>1, <3>3, <4>5 DEF OpenScopes
    <3>4. QED
      BY <3>2, <3>3
  <2>13. EventsCounted(r)
    BY <2>2, <2>7 DEF Books, EventsCounted, AllTimers, AllFFICalls
  <2>14. Placed(r)
    BY <2>7 DEF MachineInv, Placed, Queued
  <2>15. Fresh(r)
    BY <2>7 DEF MachineInv, Fresh
  <2>16. Lifetime(r)
    BY <2>7, <2>10 DEF MachineInv, Lifetime
  <2>17. Ends(r, h)
    BY <2>1, <2>7, <2>8, EventsNat DEF Ends
  <2>18. QED
    BY <2>7, <2>11, <2>12, <2>13, <2>14, <2>15, <2>16, <2>17 DEF MachineInv, Books
<1>3. QED
  BY <1>1, <1>2

-----------------------------------------------------------------------------
(* Steps that leave the books as they are                                  *)

\* r differs from h in nothing a scope answers for.
Similar(r, h) ==
  /\ \A t \in Tasks :
       /\ r.tk[t].scope = h.tk[t].scope
       /\ r.tk[t].state = h.tk[t].state
       /\ r.tk[t].timer # "none" <=> h.tk[t].timer # "none"
       /\ r.tk[t].ffi # "none" <=> h.tk[t].ffi # "none"
  /\ \A e \in Execs :
       /\ r.sc[e].status = h.sc[e].status
       /\ r.sc[e].tasks = h.sc[e].tasks
       /\ r.sc[e].timers = h.sc[e].timers
       /\ r.sc[e].ffis = h.sc[e].ffis
       /\ r.sc[e].published = h.sc[e].published
       /\ r.sc[e].rootState = h.sc[e].rootState
  /\ r.events = h.events /\ r.nextID = h.nextID
  /\ r.up = h.up /\ r.foreground = h.foreground

\* r has the scopes and roots of h, and its tasks are alive.
SameRoots(r, h) ==
  /\ r.up = h.up /\ r.foreground = h.foreground
  /\ \A e \in Execs :
       /\ r.sc[e].status = h.sc[e].status
       /\ r.sc[e].published = h.sc[e].published
       /\ r.sc[e].rootState = h.sc[e].rootState
  /\ \A t \in Tasks : h.tk[t].state = "live" => r.tk[t].state = "live"

LEMMA SimilarKeepsInv ==
  ASSUME NEW h, MachineInv(h), NEW r, r \in MachineType, Similar(r, h), Placed(r)
  PROVE  MachineInv(r) /\ OpenScopes(r) = OpenScopes(h)
<1>1. Books(h)
  BY DEF MachineInv
<1>2. /\ \A t \in Tasks :
           /\ r.tk[t].scope = h.tk[t].scope
           /\ r.tk[t].state = "live" <=> h.tk[t].state = "live"
           /\ r.tk[t].timer # "none" <=> h.tk[t].timer # "none"
           /\ r.tk[t].ffi # "none" <=> h.tk[t].ffi # "none"
      /\ \A e \in Execs :
           /\ r.sc[e].status = "open" <=> h.sc[e].status = "open"
           /\ r.sc[e].tasks = h.sc[e].tasks
           /\ r.sc[e].timers = h.sc[e].timers
           /\ r.sc[e].ffis = h.sc[e].ffis
      /\ r.events = h.events
  BY DEF Similar
<1>3. Owned(r) /\ Counted(r) /\ EventsCounted(r) /\ OpenScopes(r) = OpenScopes(h)
  BY <1>1, <1>2, SameBooks DEF Books
<1>4. Fresh(r)
  BY DEF MachineInv, Fresh, Similar
<1>5. Lifetime(r)
  BY <1>3 DEF MachineInv, Lifetime, Similar
<1>6. QED
  BY <1>3, <1>4, <1>5 DEF MachineInv, Books

\* The same tasks in the same places.
SameRun(r, h) ==
  /\ Similar(r, h)
  /\ r.running = h.running /\ r.runnable = h.runnable /\ r.blocked = h.blocked
  /\ \A t \in Tasks : r.tk[t].op = h.tk[t].op

LEMMA SameRunKeepsInv ==
  ASSUME NEW h, MachineInv(h), NEW r, r \in MachineType, SameRun(r, h)
  PROVE  MachineInv(r)
<1>1. Placed(r)
  <2>1. /\ r.runnable.elems \cap r.blocked.elems = {} /\ r.running \notin Queued(r)
        /\ Queued(r) = Queued(h)
    BY DEF MachineInv, Placed, SameRun, Queued
  <2>2. ASSUME NEW t \in Tasks
        PROVE  /\ r.tk[t].state = "live" <=> t \in Queued(r) \cup {r.running}
               /\ r.tk[t].ffi # "none" => t \in r.blocked.elems /\ r.tk[t].op = "ffi"
    <3>1. /\ h.tk[t].state = "live" <=> t \in Queued(h) \cup {h.running}
          /\ h.tk[t].ffi # "none" => t \in h.blocked.elems /\ h.tk[t].op = "ffi"
      BY DEF MachineInv, Placed
    <3>2. /\ r.tk[t].state = h.tk[t].state /\ r.tk[t].op = h.tk[t].op
          /\ r.tk[t].ffi # "none" <=> h.tk[t].ffi # "none"
          /\ r.running = h.running /\ r.blocked = h.blocked
      BY DEF SameRun, Similar
    <3>3. QED
      BY <2>1, <3>1, <3>2
  <2>3. QED
    BY <2>1, <2>2 DEF Placed
<1>2. QED
  BY <1>1, SimilarKeepsInv DEF SameRun

\* One field of one task changes.
LEMMA TaskKeepsInv ==
  ASSUME NEW h, MachineInv(h), NEW x \in Tasks, NEW z \in TaskType,
         z.scope = h.tk[x].scope, z.state = h.tk[x].state, z.op = h.tk[x].op,
         z.timer # "none" <=> h.tk[x].timer # "none", z.ffi # "none" <=> h.tk[x].ffi # "none",
         NEW r, r = [h EXCEPT !.tk[x] = z]
  PROVE  MachineInv(r) /\ SameRun(r, h) /\ r.tk[x] = z /\ r.sc = h.sc
<1>1. h \in MachineType
  BY DEF MachineInv, Books
<1>2. /\ r \in MachineType
      /\ r.sc = h.sc /\ r.events = h.events /\ r.up = h.up /\ r.nextID = h.nextID
      /\ r.running = h.running /\ r.foreground = h.foreground
      /\ r.runnable = h.runnable /\ r.blocked = h.blocked
      /\ r.tk = [h.tk EXCEPT ![x] = z]
  BY <1>1 DEF MachineType
<1>3. r.tk[x] = z /\ \A t \in Tasks : t # x => r.tk[t] = h.tk[t]
  BY <1>1, <1>2 DEF MachineType
<1>4. Similar(r, h)
  BY <1>2, <1>3 DEF Similar
<1>5. SameRun(r, h)
  BY <1>2, <1>3, <1>4 DEF SameRun
<1>6. QED
  BY <1>2, <1>3, <1>5, SameRunKeepsInv

LEMMA StepKeepsInv ==
  ASSUME NEW h, MachineInv(h), h.running # NoTask, NEW r, r = Step(h)
  PROVE  MachineInv(r) /\ SameRun(r, h)
<1>1. h \in MachineType
  BY DEF MachineInv, Books
<1> DEFINE u == h.running
           x == Scope(h)
<1>2. /\ u \in Tasks /\ h.tk[u] \in TaskType
      /\ x \in Execs /\ h.sc[x] \in ScopeType
  BY RunningFacts
<1>3. PICK z : z = [h.tk[u] EXCEPT !.quantum = IF @ < TaskQuantum THEN @ + 1 ELSE @]
  OBVIOUS
<1>4. PICK s : s = [h.sc[x] EXCEPT !.steps = @ + 1]
  OBVIOUS
<1>5. /\ z \in TaskType /\ z.scope = h.tk[u].scope /\ z.state = h.tk[u].state /\ z.op = h.tk[u].op
      /\ z.timer = h.tk[u].timer /\ z.ffi = h.tk[u].ffi
  <2>1. h.tk[u].quantum \in Nat
    BY <1>2 DEF TaskType
  <2>2. (IF h.tk[u].quantum < TaskQuantum THEN h.tk[u].quantum + 1 ELSE h.tk[u].quantum) \in Nat
    BY <2>1
  <2>3. QED
    BY <1>2, <1>3, <2>2 DEF TaskType
<1>6. /\ s \in ScopeType /\ s.status = h.sc[x].status /\ s.tasks = h.sc[x].tasks
      /\ s.timers = h.sc[x].timers /\ s.ffis = h.sc[x].ffis
      /\ s.published = h.sc[x].published /\ s.rootState = h.sc[x].rootState
  <2>1. h.sc[x].steps + 1 \in Nat
    BY <1>2 DEF ScopeType
  <2>2. QED
    BY <1>2, <1>4, <2>1 DEF ScopeType
<1>7. r = [h EXCEPT !.attempts = @ + 1, !.tk[u] = z, !.sc[x] = s]
  BY <1>1, <1>2, <1>3, <1>4 DEF Step, MachineType
<1> HIDE DEF u, x
<1>8. /\ r \in MachineType
      /\ r.events = h.events /\ r.up = h.up /\ r.nextID = h.nextID
      /\ r.running = h.running /\ r.foreground = h.foreground
      /\ r.runnable = h.runnable /\ r.blocked = h.blocked
      /\ r.tk = [h.tk EXCEPT ![u] = z] /\ r.sc = [h.sc EXCEPT ![x] = s]
  <2>1. [h.tk EXCEPT ![u] = z] \in [Tasks -> TaskType] /\ [h.sc EXCEPT ![x] = s] \in [Execs -> ScopeType]
    BY <1>1, <1>5, <1>6 DEF MachineType
  <2>2. h.attempts + 1 \in Nat
    BY <1>1 DEF MachineType
  <2>3. r = [h EXCEPT !.attempts = h.attempts + 1, !.tk = [h.tk EXCEPT ![u] = z], !.sc = [h.sc EXCEPT ![x] = s]]
    BY <1>1, <1>7 DEF MachineType
  <2>4. QED
    BY <1>1, <2>1, <2>2, <2>3 DEF MachineType
<1>9. r.tk[u] = z /\ \A t \in Tasks : t # u => r.tk[t] = h.tk[t]
  BY <1>1, <1>2, <1>8 DEF MachineType
<1>10. r.sc[x] = s /\ \A e \in Execs : e # x => r.sc[e] = h.sc[e]
  BY <1>1, <1>2, <1>8 DEF MachineType
<1>11. Similar(r, h)
  BY <1>2, <1>5, <1>6, <1>8, <1>9, <1>10 DEF Similar
<1>12. SameRun(r, h)
  BY <1>2, <1>5, <1>8, <1>9, <1>11 DEF SameRun
<1>13. QED
  BY <1>8, <1>12, SameRunKeepsInv

LEMMA NewQuantumKeepsInv ==
  ASSUME NEW h, MachineInv(h), h.running # NoTask, NEW r, r = NewQuantum(h)
  PROVE  MachineInv(r) /\ SameRun(r, h) /\ r.sc = h.sc
<1>1. h \in MachineType
  BY DEF MachineInv, Books
<1> DEFINE u == h.running
<1>2. u \in Tasks /\ h.tk[u] \in TaskType
  BY RunningFacts
<1>3. PICK z : z = [h.tk[u] EXCEPT !.quantum = 0]
  OBVIOUS
<1>4. /\ z \in TaskType /\ z.scope = h.tk[u].scope /\ z.state = h.tk[u].state /\ z.op = h.tk[u].op
      /\ z.timer = h.tk[u].timer /\ z.ffi = h.tk[u].ffi
  BY <1>2, <1>3 DEF TaskType
<1>5. r = [h EXCEPT !.tk[u] = z]
  BY <1>1, <1>2, <1>3 DEF NewQuantum, MachineType
<1> HIDE DEF u
<1>6. QED
  BY <1>2, <1>4, <1>5, TaskKeepsInv

-----------------------------------------------------------------------------
(* Steps that move tasks between the queues                                *)

\* The running task goes into a queue.
LEMMA YieldKeepsInv ==
  ASSUME NEW h, MachineInv(h), h.running # NoTask,
         NEW r, r \in MachineType, Similar(r, h), r.running = NoTask,
         Queued(r) = Queued(h) \cup {h.running},
         r.runnable.elems \cap r.blocked.elems = {}, h.blocked.elems \subseteq r.blocked.elems,
         \A t \in Tasks : t # h.running => r.tk[t].op = h.tk[t].op
  PROVE  MachineInv(r)
<1>1. h.running \in Tasks /\ h.running \notin Queued(h) /\ h.tk[h.running].ffi = "none"
  BY RunningFacts
<1>2. h \in MachineType
  BY DEF MachineInv, Books
<1>3. NoTask \notin Queued(r)
  BY <1>1, <1>2, NoTaskIsNone DEF Queued, MachineType, QueueType
<1>4. ASSUME NEW t \in Tasks
      PROVE  /\ r.tk[t].state = "live" <=> t \in Queued(r) \cup {r.running}
             /\ r.tk[t].ffi # "none" => t \in r.blocked.elems /\ r.tk[t].op = "ffi"
  <2>1. /\ h.tk[t].state = "live" <=> t \in Queued(h) \cup {h.running}
        /\ h.tk[t].ffi # "none" => t \in h.blocked.elems /\ h.tk[t].op = "ffi"
    BY DEF MachineInv, Placed
  <2>2. r.tk[t].state = h.tk[t].state /\ (r.tk[t].ffi # "none" <=> h.tk[t].ffi # "none")
    BY DEF Similar
  <2>3. t # NoTask
    BY NoTaskIsNone
  <2>4. QED
    BY <1>1, <2>1, <2>2, <2>3
<1>5. Placed(r)
  BY <1>3, <1>4 DEF Placed
<1>6. QED
  BY <1>5, SimilarKeepsInv

LEMMA CooperateKeepsInv ==
  ASSUME NEW h, MachineInv(h), h.running # NoTask, NEW r, r = Cooperate(h)
  PROVE  MachineInv(r) /\ Similar(r, h) /\ r.running = NoTask
<1>1. PICK n : n = NewQuantum(h)
  OBVIOUS
<1>2. MachineInv(n) /\ SameRun(n, h)
  BY <1>1, NewQuantumKeepsInv
<1>3. n.running = h.running /\ n.runnable = h.runnable /\ Similar(n, h)
  BY <1>2 DEF SameRun
<1>4. PICK q : q = PushBack(n.runnable, n.running)
  OBVIOUS
<1>5. r = [n EXCEPT !.runnable = q, !.running = NoTask]
  BY <1>1, <1>3, <1>4 DEF Cooperate
<1>6. n \in MachineType /\ n.running \in Tasks /\ n.running \notin Queued(n)
  BY <1>2, <1>3, RunningFacts DEF MachineInv, Books
<1>7. q \in QueueType(Tasks) /\ q.elems = n.runnable.elems \cup {n.running}
  <2>1. n.runnable \in QueueType(Tasks)
    BY <1>6 DEF MachineType
  <2>2. QED
    BY <1>4, <1>6, <2>1 DEF QueueType, PushBack
<1>8. /\ r \in MachineType /\ r.tk = n.tk /\ r.sc = n.sc /\ r.events = n.events /\ r.up = n.up
      /\ r.nextID = n.nextID /\ r.running = NoTask /\ r.foreground = n.foreground
      /\ r.runnable = q /\ r.blocked = n.blocked
  BY <1>5, <1>6, <1>7 DEF MachineType
<1>9. Similar(r, n)
  BY <1>8 DEF Similar
<1>10. MachineInv(r)
  <2>1. Queued(r) = Queued(n) \cup {n.running} /\ r.blocked.elems = n.blocked.elems
    BY <1>7, <1>8 DEF Queued
  <2>2. r.runnable.elems \cap r.blocked.elems = {}
    BY <1>2, <1>6, <1>7, <1>8 DEF MachineInv, Placed, Queued
  <2>3. \A t \in Tasks : r.tk[t].op = n.tk[t].op
    BY <1>8
  <2>4. QED
    BY <1>2, <1>3, <1>8, <1>9, <2>1, <2>2, <2>3, YieldKeepsInv
<1>11. Similar(r, h)
  BY <1>3, <1>9 DEF Similar
<1>12. QED
  BY <1>8, <1>10, <1>11

LEMMA PollYieldKeepsInv ==
  ASSUME NEW h, MachineInv(h), h.running # NoTask, NEW r, r = PollYield(h)
  PROVE  MachineInv(r) /\ Similar(r, h) /\ r.running = NoTask
<1>1. PICK q : q = PushFront(h.runnable, h.running)
  OBVIOUS
<1>2. r = [h EXCEPT !.runnable = q, !.running = NoTask]
  BY <1>1 DEF PollYield
<1>3. h \in MachineType /\ h.running \in Tasks /\ h.running \notin Queued(h)
  BY RunningFacts DEF MachineInv, Books
<1>4. q \in QueueType(Tasks) /\ q.elems = h.runnable.elems \cup {h.running}
  <2>1. h.runnable \in QueueType(Tasks)
    BY <1>3 DEF MachineType
  <2>2. QED
    BY <1>1, <1>3, <2>1 DEF QueueType, PushFront
<1>5. /\ r \in MachineType /\ r.tk = h.tk /\ r.sc = h.sc /\ r.events = h.events /\ r.up = h.up
      /\ r.nextID = h.nextID /\ r.running = NoTask /\ r.foreground = h.foreground
      /\ r.runnable = q /\ r.blocked = h.blocked
  BY <1>2, <1>3, <1>4 DEF MachineType
<1>6. Similar(r, h)
  BY <1>5 DEF Similar
<1>7. Queued(r) = Queued(h) \cup {h.running} /\ r.blocked.elems = h.blocked.elems
  BY <1>4, <1>5 DEF Queued
<1>8. r.runnable.elems \cap r.blocked.elems = {}
  BY <1>3, <1>4, <1>5 DEF MachineInv, Placed, Queued
<1>9. \A t \in Tasks : r.tk[t].op = h.tk[t].op
  BY <1>5
<1>10. QED
  BY <1>5, <1>6, <1>7, <1>8, <1>9, YieldKeepsInv

LEMMA ReceiveKeepsInv ==
  ASSUME NEW h, MachineInv(h), h.running # NoTask, NEW r, r = Receive(h)
  PROVE  /\ MachineInv(r) /\ Similar(r, h)
         /\ r.running = (IF h.tk[h.running].sig THEN h.running ELSE NoTask)
<1> DEFINE u == h.running
<1>1. u \in Tasks /\ h.tk[u] \in TaskType /\ h \in MachineType
  BY RunningFacts DEF MachineInv, Books
<1>2. CASE h.tk[u].sig
  <2>1. PICK z : z = [h.tk[u] EXCEPT !.sig = FALSE]
    OBVIOUS
  <2>2. /\ z \in TaskType /\ z.scope = h.tk[u].scope /\ z.state = h.tk[u].state /\ z.op = h.tk[u].op
        /\ z.timer = h.tk[u].timer /\ z.ffi = h.tk[u].ffi
    BY <1>1, <2>1 DEF TaskType
  <2>3. r = [h EXCEPT !.tk[u] = z]
    BY <1>1, <1>2, <2>1 DEF Receive, MachineType
  <2> HIDE DEF u
  <2>4. MachineInv(r) /\ SameRun(r, h)
    BY <1>1, <2>2, <2>3, TaskKeepsInv
  <2>5. QED
    BY <1>2, <2>4 DEF SameRun, u
<1>3. CASE ~h.tk[u].sig
  <2>1. PICK n : n = NewQuantum(h)
    OBVIOUS
  <2>2. MachineInv(n) /\ SameRun(n, h)
    BY <2>1, NewQuantumKeepsInv
  <2>3. n.running = u /\ n.blocked = h.blocked /\ Similar(n, h)
    BY <2>2 DEF SameRun
  <2>4. PICK q : q = PushBack(n.blocked, u)
    OBVIOUS
  <2>5. PICK z : z = [n.tk[u] EXCEPT !.op = "recv"]
    OBVIOUS
  <2>6. /\ n \in MachineType /\ u \notin Queued(n) /\ n.tk[u] \in TaskType
        /\ n.running # NoTask
    BY <2>2, <2>3, RunningFacts DEF MachineInv, Books
  <2>7. r = [n EXCEPT !.tk[u] = z, !.blocked = q, !.running = NoTask]
    BY <1>1, <1>3, <2>1, <2>3, <2>4, <2>5, <2>6 DEF Receive, MachineType
  <2>8. /\ z \in TaskType /\ z.scope = n.tk[u].scope /\ z.state = n.tk[u].state
        /\ z.timer = n.tk[u].timer /\ z.ffi = n.tk[u].ffi
    BY <2>5, <2>6 DEF TaskType
  <2>9. q \in QueueType(Tasks) /\ q.elems = n.blocked.elems \cup {u}
    <3>1. n.blocked \in QueueType(Tasks)
      BY <2>6 DEF MachineType
    <3>2. QED
      BY <1>1, <2>4, <3>1 DEF QueueType, PushBack
  <2>10. /\ r \in MachineType /\ r.tk = [n.tk EXCEPT ![u] = z] /\ r.sc = n.sc /\ r.events = n.events
         /\ r.up = n.up /\ r.nextID = n.nextID /\ r.running = NoTask /\ r.foreground = n.foreground
         /\ r.runnable = n.runnable /\ r.blocked = q
    <3>1. [n.tk EXCEPT ![u] = z] \in [Tasks -> TaskType]
      BY <2>6, <2>8 DEF MachineType
    <3>2. r = [n EXCEPT !.tk = [n.tk EXCEPT ![u] = z], !.blocked = q, !.running = NoTask]
      BY <2>6, <2>7 DEF MachineType
    <3>3. QED
      BY <2>6, <2>9, <3>1, <3>2 DEF MachineType
  <2>11. r.tk[u] = z /\ \A t \in Tasks : t # u => r.tk[t] = n.tk[t]
    BY <1>1, <2>6, <2>10 DEF MachineType
  <2>12. Similar(r, n)
    BY <1>1, <2>8, <2>10, <2>11 DEF Similar
  <2>13. Queued(r) = Queued(n) \cup {n.running} /\ n.blocked.elems \subseteq r.blocked.elems
    BY <2>3, <2>9, <2>10 DEF Queued
  <2>14. r.runnable.elems \cap r.blocked.elems = {}
    BY <2>2, <2>6, <2>9, <2>10 DEF MachineInv, Placed, Queued
  <2>15. \A t \in Tasks : t # n.running => r.tk[t].op = n.tk[t].op
    BY <2>3, <2>11
  <2>16. MachineInv(r)
    <3>1. MachineInv(n) /\ n.running # NoTask /\ r \in MachineType /\ r.running = NoTask
      BY <2>2, <2>6, <2>10
    <3>2. QED
      BY <2>12, <2>13, <2>14, <2>15, <3>1, YieldKeepsInv
  <2>17. Similar(r, h)
    BY <2>3, <2>12 DEF Similar
  <2>18. QED
    BY <1>3, <2>10, <2>16, <2>17
<1>4. QED
  BY <1>2, <1>3

\* popRunnable
LEMMA PickKeepsInv ==
  ASSUME NEW h, MachineInv(h), h.running = NoTask, NEW x \in Tasks, x \in h.runnable.elems,
         NEW r, r = [h EXCEPT !.runnable = Without(@, {x}), !.running = x]
  PROVE  MachineInv(r) /\ Similar(r, h) /\ r.running = x
<1>1. h \in MachineType /\ Placed(h)
  BY DEF MachineInv, Books
<1>2. PICK q : q = Without(h.runnable, {x})
  OBVIOUS
<1>3. q \in QueueType(Tasks) /\ q.elems = h.runnable.elems \ {x}
  <2>1. h.runnable \in QueueType(Tasks)
    BY <1>1 DEF MachineType
  <2>2. QED
    BY <1>2, <2>1 DEF QueueType, Without, Only
<1>4. r = [h EXCEPT !.runnable = q, !.running = x]
  BY <1>2
<1>5. /\ r \in MachineType /\ r.tk = h.tk /\ r.sc = h.sc /\ r.events = h.events /\ r.up = h.up
      /\ r.nextID = h.nextID /\ r.running = x /\ r.foreground = h.foreground
      /\ r.runnable = q /\ r.blocked = h.blocked
  BY <1>1, <1>3, <1>4 DEF MachineType
<1>6. Similar(r, h)
  BY <1>5 DEF Similar
<1>7. Queued(r) = Queued(h) \ {x} /\ x \in Queued(h)
  BY <1>1, <1>3, <1>5 DEF Queued, Placed
<1>8. Placed(r)
  BY <1>1, <1>3, <1>5, <1>7, NoTaskIsNone DEF Placed
<1>9. QED
  BY <1>5, <1>6, <1>8, SimilarKeepsInv

-----------------------------------------------------------------------------
(* Steps that add to the books                                             *)

LEMMA StartTimerKeepsInv ==
  ASSUME NEW h, MachineInv(h), h.running # NoTask, h.tk[h.running].timer = "none",
         NEW r, r = StartTimer(h)
  PROVE  /\ MachineInv(r) /\ r.running = h.running /\ r.events = h.events + 1
         /\ SameRoots(r, h)
<1> DEFINE u == h.running
           x == Scope(h)
<1>1. /\ u \in Tasks /\ h.tk[u] \in TaskType /\ h.tk[u].scope = x
      /\ x \in Execs /\ x \in OpenScopes(h) /\ h.sc[x] \in ScopeType /\ h.sc[x].status = "open"
  BY RunningFacts DEF Scope
<1>2. h \in MachineType /\ Owned(h) /\ Counted(h) /\ EventsCounted(h)
  BY DEF MachineInv, Books
<1>3. PICK z : z = [h.tk[u] EXCEPT !.timer = "armed"]
  OBVIOUS
<1>4. PICK s : s = [h.sc[x] EXCEPT !.timers = @ + 1]
  OBVIOUS
<1>5. /\ z \in TaskType /\ z.scope = x /\ z.state = h.tk[u].state /\ z.op = h.tk[u].op
      /\ z.timer = "armed" /\ z.ffi = h.tk[u].ffi
  BY <1>1, <1>3 DEF TaskType
<1>6. /\ s \in ScopeType /\ s.status = "open" /\ s.tasks = h.sc[x].tasks
      /\ s.timers = h.sc[x].timers + 1 /\ s.ffis = h.sc[x].ffis
      /\ s.published = h.sc[x].published /\ s.rootState = h.sc[x].rootState
  <2>1. h.sc[x].timers + 1 \in Nat
    BY <1>1 DEF ScopeType
  <2>2. QED
    BY <1>1, <1>4, <2>1 DEF ScopeType
<1>7. r = [h EXCEPT !.tk = [h.tk EXCEPT ![u] = z], !.sc = [h.sc EXCEPT ![x] = s], !.events = h.events + 1]
  BY <1>1, <1>2, <1>3, <1>4 DEF StartTimer, MachineType
<1>t. h.tk[u].timer = "none"
  OBVIOUS
<1>r. h.running = u
  OBVIOUS
<1> HIDE DEF u, x
<1>8. /\ r \in MachineType
      /\ r.events = h.events + 1 /\ r.up = h.up /\ r.nextID = h.nextID
      /\ r.running = h.running /\ r.foreground = h.foreground
      /\ r.runnable = h.runnable /\ r.blocked = h.blocked
      /\ r.tk = [h.tk EXCEPT ![u] = z] /\ r.sc = [h.sc EXCEPT ![x] = s]
  <2>1. [h.tk EXCEPT ![u] = z] \in [Tasks -> TaskType] /\ [h.sc EXCEPT ![x] = s] \in [Execs -> ScopeType]
    BY <1>2, <1>5, <1>6 DEF MachineType
  <2>2. h.events + 1 \in Nat
    BY <1>2 DEF MachineType
  <2>3. QED
    BY <1>2, <1>7, <2>1, <2>2 DEF MachineType
<1>9. r.tk[u] = z /\ \A t \in Tasks : t # u => r.tk[t] = h.tk[t]
  BY <1>1, <1>2, <1>8 DEF MachineType
<1>10. r.sc[x] = s /\ \A e \in Execs : e # x => r.sc[e] = h.sc[e]
  BY <1>1, <1>2, <1>8 DEF MachineType
<1>11. OpenScopes(r) = OpenScopes(h) /\ \A e \in Execs : r.sc[e].status = h.sc[e].status
  BY <1>1, <1>6, <1>10 DEF OpenScopes
<1>12. \A t \in Tasks : r.tk[t].scope = h.tk[t].scope /\ r.tk[t].state = h.tk[t].state /\ r.tk[t].ffi = h.tk[t].ffi /\ r.tk[t].op = h.tk[t].op
  BY <1>1, <1>5, <1>9
<1>13. /\ \A e : Live(r, e) = Live(h, e) /\ FFICalls(r, e) = FFICalls(h, e) /\ (e # x => Timers(r, e) = Timers(h, e))
       /\ Timers(r, x) = Timers(h, x) \cup {u} /\ u \notin Timers(h, x)
       /\ AllTimers(r) = AllTimers(h) \cup {u} /\ u \notin AllTimers(h)
       /\ AllFFICalls(r) = AllFFICalls(h)
  <2>1. /\ u \notin Timers(h, x) /\ u \notin AllTimers(h)
    BY <1>t DEF Timers, AllTimers
  <2>2. \A e : TasksOf(r, e) = TasksOf(h, e)
    BY <1>12 DEF TasksOf
  <2>3. \A e : Live(r, e) = Live(h, e) /\ FFICalls(r, e) = FFICalls(h, e)
    BY <1>12, <2>2 DEF Live, FFICalls, TasksOf
  <2>4. \A t \in Tasks : r.tk[t].timer # "none" <=> h.tk[t].timer # "none" \/ t = u
    BY <1>1, <1>5, <1>9
  <2>5. \A e : e # x => Timers(r, e) = Timers(h, e)
    BY <1>1, <2>2, <2>4 DEF Timers, TasksOf
  <2>6. Timers(r, x) = Timers(h, x) \cup {u}
    <3>1. u \in TasksOf(h, x) /\ TasksOf(h, x) \subseteq Tasks
      BY <1>1 DEF TasksOf
    <3>2. \A t : t \in Timers(r, x) <=> t \in TasksOf(h, x) /\ (h.tk[t].timer # "none" \/ t = u)
      BY <2>2, <2>4, <3>1 DEF Timers
    <3>3. QED
      BY <3>1, <3>2 DEF Timers
  <2>7. AllTimers(r) = AllTimers(h) \cup {u} /\ AllFFICalls(r) = AllFFICalls(h)
    BY <1>1, <1>12, <2>4 DEF AllTimers, AllFFICalls
  <2>8. QED
    BY <2>1, <2>3, <2>5, <2>6, <2>7
<1>14. Counted(r)
  <2> SUFFICES ASSUME NEW e \in OpenScopes(h)
               PROVE  /\ r.sc[e].tasks  = Cardinality(Live(r, e))
                      /\ r.sc[e].timers = Cardinality(Timers(r, e))
                      /\ r.sc[e].ffis   = Cardinality(FFICalls(r, e))
    BY <1>11 DEF Counted
  <2>1. /\ h.sc[e].tasks  = Cardinality(Live(h, e))
        /\ h.sc[e].timers = Cardinality(Timers(h, e))
        /\ h.sc[e].ffis   = Cardinality(FFICalls(h, e)) /\ e \in Execs
    BY <1>2 DEF Counted, OpenScopes
  <2>2. CASE e # x
    BY <1>10, <1>13, <2>1, <2>2
  <2>3. CASE e = x
    <3>1. Timers(h, x) \subseteq Tasks
      BY DEF Timers, TasksOf
    <3>2. Cardinality(Timers(h, x) \cup {u}) = Cardinality(Timers(h, x)) + 1
      BY <1>1, <1>13, <3>1, CardAdd
    <3>3. QED
      BY <1>6, <1>10, <1>13, <2>1, <2>3, <3>2
  <2>4. QED
    BY <2>2, <2>3
<1>15. Owned(r)
  <2> SUFFICES ASSUME NEW t \in Tasks,
                      r.tk[t].state = "live" \/ r.tk[t].timer # "none" \/ r.tk[t].ffi # "none"
               PROVE  r.tk[t].scope \in OpenScopes(h)
    BY <1>11 DEF Owned
  <2>1. CASE t = u
    BY <1>1, <1>12, <2>1
  <2>2. CASE t # u
    BY <1>2, <1>9, <2>2 DEF Owned
  <2>3. QED
    BY <2>1, <2>2
<1>16. EventsCounted(r)
  <2>1. AllTimers(h) \subseteq Tasks /\ AllFFICalls(h) \subseteq Tasks
    BY DEF AllTimers, AllFFICalls
  <2>2. Cardinality(AllTimers(h) \cup {u}) = Cardinality(AllTimers(h)) + 1
    BY <1>1, <1>13, <2>1, CardAdd
  <2>3. Cardinality(AllTimers(h)) \in Nat /\ Cardinality(AllFFICalls(h)) \in Nat
    BY <2>1, TasksFinite
  <2>4. QED
    BY <1>2, <1>8, <1>13, <2>2, <2>3 DEF EventsCounted
<1>17. Placed(r)
  BY <1>8, <1>12 DEF MachineInv, Placed, Queued
<1>18. Fresh(r)
  BY <1>8, <1>12 DEF MachineInv, Fresh
<1>19. Lifetime(r)
  BY <1>8, <1>11 DEF MachineInv, Lifetime
<1>s. SameRoots(r, h)
  BY <1>1, <1>6, <1>8, <1>10, <1>11, <1>12 DEF SameRoots
<1>20. QED
  BY <1>s, <1>8, <1>11, <1>14, <1>15, <1>16, <1>17, <1>18, <1>19 DEF MachineInv, Books

LEMMA BlockOnFFIKeepsInv ==
  ASSUME NEW h, MachineInv(h), h.running # NoTask, NEW r, r = BlockOnFFI(h)
  PROVE  /\ MachineInv(r) /\ r.running = NoTask /\ r.events = h.events + 1
         /\ SameRoots(r, h)
<1>n. PICK n : n = NewQuantum(h)
  OBVIOUS
<1>h. MachineInv(n) /\ SameRun(n, h) /\ n.sc = h.sc
  BY <1>n, NewQuantumKeepsInv
<1> DEFINE u == h.running
           x == Scope(h)
<1>0. n.running = u /\ Scope(n) = x /\ n.running # NoTask
  <2>1. n.running = u /\ n.tk[u].scope = h.tk[u].scope
    BY <1>h, RunningFacts DEF SameRun, Similar
  <2>2. QED
    BY <2>1 DEF Scope
<1>1. /\ u \in Tasks /\ n.tk[u] \in TaskType /\ n.tk[u].scope = x /\ n.tk[u].state = "live"
      /\ u \notin Queued(n) /\ n.tk[u].ffi = "none"
      /\ x \in Execs /\ x \in OpenScopes(n) /\ n.sc[x] \in ScopeType /\ n.sc[x].status = "open"
  <2>1. n.tk[n.running].scope = Scope(n)
    BY DEF Scope
  <2>2. QED
    BY <1>h, <1>0, <2>1, RunningFacts
<1>2. n \in MachineType /\ Owned(n) /\ Counted(n) /\ EventsCounted(n)
  BY <1>h DEF MachineInv, Books
<1>3. PICK z : z = [n.tk[u] EXCEPT !.op = "ffi", !.ffi = "waiting"]
  OBVIOUS
<1>4. PICK s : s = [n.sc[x] EXCEPT !.ffis = @ + 1]
  OBVIOUS
<1>b. PICK q : q = PushBack(n.blocked, u)
  OBVIOUS
<1>5. /\ z \in TaskType /\ z.scope = x /\ z.state = "live" /\ z.op = "ffi"
      /\ z.timer = n.tk[u].timer /\ z.ffi = "waiting"
  BY <1>1, <1>3 DEF TaskType
<1>6. /\ s \in ScopeType /\ s.status = "open" /\ s.tasks = n.sc[x].tasks
      /\ s.timers = n.sc[x].timers /\ s.ffis = n.sc[x].ffis + 1
      /\ s.published = n.sc[x].published /\ s.rootState = n.sc[x].rootState
  <2>1. n.sc[x].ffis + 1 \in Nat
    BY <1>1 DEF ScopeType
  <2>2. QED
    BY <1>1, <1>4, <2>1 DEF ScopeType
<1>c. q \in QueueType(Tasks) /\ q.elems = n.blocked.elems \cup {u}
  <2>1. n.blocked \in QueueType(Tasks)
    BY <1>2 DEF MachineType
  <2>2. QED
    BY <1>1, <1>b, <2>1 DEF QueueType, PushBack
<1>7. r = [n EXCEPT !.tk = [n.tk EXCEPT ![u] = z], !.sc = [n.sc EXCEPT ![x] = s], !.events = n.events + 1,
                    !.blocked = q, !.running = NoTask]
  <2>1. r = [n EXCEPT !.tk[u] = [@ EXCEPT !.op = "ffi", !.ffi = "waiting"],
                      !.sc[x].ffis = @ + 1, !.events = @ + 1,
                      !.blocked = PushBack(@, u), !.running = NoTask]
    BY <1>n DEF BlockOnFFI
  <2>2. QED
    BY <1>1, <1>2, <1>3, <1>4, <1>b, <2>1 DEF MachineType
<1> HIDE DEF u, x
<1>8. /\ r \in MachineType
      /\ r.events = n.events + 1 /\ r.up = n.up /\ r.nextID = n.nextID
      /\ r.running = NoTask /\ r.foreground = n.foreground
      /\ r.runnable = n.runnable /\ r.blocked = q
      /\ r.tk = [n.tk EXCEPT ![u] = z] /\ r.sc = [n.sc EXCEPT ![x] = s]
  <2>1. [n.tk EXCEPT ![u] = z] \in [Tasks -> TaskType] /\ [n.sc EXCEPT ![x] = s] \in [Execs -> ScopeType]
    BY <1>2, <1>5, <1>6 DEF MachineType
  <2>2. n.events + 1 \in Nat
    BY <1>2 DEF MachineType
  <2>3. PICK tasks, scopes, k :
          tasks = [n.tk EXCEPT ![u] = z] /\ scopes = [n.sc EXCEPT ![x] = s] /\ k = n.events + 1
    OBVIOUS
  <2>4. r = [n EXCEPT !.tk = tasks, !.sc = scopes, !.events = k, !.blocked = q, !.running = NoTask]
    BY <1>7, <2>3
  <2>5. tasks \in [Tasks -> TaskType] /\ scopes \in [Execs -> ScopeType] /\ k \in Nat
    BY <2>1, <2>2, <2>3
  <2>6. /\ r \in MachineType
        /\ r.events = k /\ r.up = n.up /\ r.nextID = n.nextID
        /\ r.running = NoTask /\ r.foreground = n.foreground
        /\ r.runnable = n.runnable /\ r.blocked = q
        /\ r.tk = tasks /\ r.sc = scopes
    <3>1. NoTask \in Tasks \cup {NoTask} /\ q \in QueueType(Tasks)
      BY <1>c
    <3>2. QED
      BY <1>2, <2>4, <2>5, <3>1 DEF MachineType
  <2>7. QED
    BY <2>3, <2>6
<1>9. r.tk[u] = z /\ \A t \in Tasks : t # u => r.tk[t] = n.tk[t]
  BY <1>1, <1>2, <1>8 DEF MachineType
<1>10. r.sc[x] = s /\ \A e \in Execs : e # x => r.sc[e] = n.sc[e]
  BY <1>1, <1>2, <1>8 DEF MachineType
<1>11. OpenScopes(r) = OpenScopes(n) /\ \A e \in Execs : r.sc[e].status = n.sc[e].status
  BY <1>1, <1>6, <1>10 DEF OpenScopes
<1>12. \A t \in Tasks : r.tk[t].scope = n.tk[t].scope /\ r.tk[t].state = n.tk[t].state /\ r.tk[t].timer = n.tk[t].timer
  BY <1>1, <1>5, <1>9
<1>13. /\ \A e : Live(r, e) = Live(n, e) /\ Timers(r, e) = Timers(n, e) /\ (e # x => FFICalls(r, e) = FFICalls(n, e))
       /\ FFICalls(r, x) = FFICalls(n, x) \cup {u} /\ u \notin FFICalls(n, x)
       /\ AllFFICalls(r) = AllFFICalls(n) \cup {u} /\ u \notin AllFFICalls(n)
       /\ AllTimers(r) = AllTimers(n)
  <2>1. /\ u \notin FFICalls(n, x) /\ u \notin AllFFICalls(n)
    BY <1>1 DEF FFICalls, AllFFICalls
  <2>2. \A e : TasksOf(r, e) = TasksOf(n, e)
    BY <1>12 DEF TasksOf
  <2>3. \A e : Live(r, e) = Live(n, e) /\ Timers(r, e) = Timers(n, e)
    BY <1>12, <2>2 DEF Live, Timers, TasksOf
  <2>4. \A t \in Tasks : r.tk[t].ffi # "none" <=> n.tk[t].ffi # "none" \/ t = u
    BY <1>1, <1>5, <1>9
  <2>5. \A e : e # x => FFICalls(r, e) = FFICalls(n, e)
    BY <1>1, <2>2, <2>4 DEF FFICalls, TasksOf
  <2>6. FFICalls(r, x) = FFICalls(n, x) \cup {u}
    <3>1. u \in TasksOf(n, x) /\ TasksOf(n, x) \subseteq Tasks
      BY <1>1 DEF TasksOf
    <3>2. \A t : t \in FFICalls(r, x) <=> t \in TasksOf(n, x) /\ (n.tk[t].ffi # "none" \/ t = u)
      BY <2>2, <2>4, <3>1 DEF FFICalls
    <3>3. QED
      BY <3>1, <3>2 DEF FFICalls
  <2>7. AllFFICalls(r) = AllFFICalls(n) \cup {u} /\ AllTimers(r) = AllTimers(n)
    BY <1>1, <1>12, <2>4 DEF AllTimers, AllFFICalls
  <2>8. QED
    BY <2>1, <2>3, <2>5, <2>6, <2>7
<1>14. Counted(r)
  <2> SUFFICES ASSUME NEW e \in OpenScopes(n)
               PROVE  /\ r.sc[e].tasks  = Cardinality(Live(r, e))
                      /\ r.sc[e].timers = Cardinality(Timers(r, e))
                      /\ r.sc[e].ffis   = Cardinality(FFICalls(r, e))
    BY <1>11 DEF Counted
  <2>1. /\ n.sc[e].tasks  = Cardinality(Live(n, e))
        /\ n.sc[e].timers = Cardinality(Timers(n, e))
        /\ n.sc[e].ffis   = Cardinality(FFICalls(n, e)) /\ e \in Execs
    BY <1>2 DEF Counted, OpenScopes
  <2>2. CASE e # x
    BY <1>10, <1>13, <2>1, <2>2
  <2>3. CASE e = x
    <3>1. FFICalls(n, x) \subseteq Tasks
      BY DEF FFICalls, TasksOf
    <3>2. Cardinality(FFICalls(n, x) \cup {u}) = Cardinality(FFICalls(n, x)) + 1
      BY <1>1, <1>13, <3>1, CardAdd
    <3>3. QED
      BY <1>6, <1>10, <1>13, <2>1, <2>3, <3>2
  <2>4. QED
    BY <2>2, <2>3
<1>15. Owned(r)
  <2> SUFFICES ASSUME NEW t \in Tasks,
                      r.tk[t].state = "live" \/ r.tk[t].timer # "none" \/ r.tk[t].ffi # "none"
               PROVE  r.tk[t].scope \in OpenScopes(n)
    BY <1>11 DEF Owned
  <2>1. CASE t = u
    BY <1>1, <1>12, <2>1
  <2>2. CASE t # u
    BY <1>2, <1>9, <2>2 DEF Owned
  <2>3. QED
    BY <2>1, <2>2
<1>16. EventsCounted(r)
  <2>1. AllTimers(n) \subseteq Tasks /\ AllFFICalls(n) \subseteq Tasks
    BY DEF AllTimers, AllFFICalls
  <2>2. Cardinality(AllFFICalls(n) \cup {u}) = Cardinality(AllFFICalls(n)) + 1
    BY <1>1, <1>13, <2>1, CardAdd
  <2>3. Cardinality(AllTimers(n)) \in Nat /\ Cardinality(AllFFICalls(n)) \in Nat
    BY <2>1, TasksFinite
  <2>4. QED
    BY <1>2, <1>8, <1>13, <2>2, <2>3 DEF EventsCounted
<1>17. Placed(r)
  <2>1. Placed(n) /\ n.running = u
    BY <1>h, <1>0 DEF MachineInv
  <2>2. Queued(r) = Queued(n) \cup {u}
    BY <1>8, <1>c DEF Queued
  <2>3. NoTask \notin Queued(r)
    BY <1>1, <1>2, <2>2, NoTaskIsNone DEF MachineType, QueueType, Queued
  <2>4. r.runnable.elems \cap r.blocked.elems = {}
    BY <1>1, <1>8, <1>c, <2>1 DEF Placed, Queued
  <2>5. ASSUME NEW t \in Tasks
        PROVE  /\ r.tk[t].state = "live" <=> t \in Queued(r) \cup {r.running}
               /\ r.tk[t].ffi # "none" => t \in r.blocked.elems /\ r.tk[t].op = "ffi"
    <3>1. t # NoTask
      BY NoTaskIsNone
    <3>2. CASE t = u
      BY <1>5, <1>9, <1>c, <1>8, <2>2, <3>2
    <3>3. CASE t # u
      BY <1>8, <1>9, <1>c, <2>1, <2>2, <3>1, <3>3 DEF Placed
    <3>4. QED
      BY <3>2, <3>3
  <2>6. QED
    BY <1>8, <2>3, <2>4, <2>5 DEF Placed
<1>18. Fresh(r)
  BY <1>h, <1>8, <1>12 DEF MachineInv, Fresh
<1>19. Lifetime(r)
  BY <1>h, <1>8, <1>11 DEF MachineInv, Lifetime
<1>e. n.events = h.events
  BY <1>h DEF SameRun, Similar
<1>s. SameRoots(r, h)
  <2>1. SameRoots(r, n)
    BY <1>1, <1>6, <1>8, <1>10, <1>11, <1>12 DEF SameRoots
  <2>2. QED
    BY <1>h, <2>1 DEF SameRoots, SameRun, Similar
<1>20. QED
  BY <1>s, <1>h, <1>e, <1>8, <1>11, <1>14, <1>15, <1>16, <1>17, <1>18, <1>19 DEF MachineInv, Books

\* r is h with a fresh task c in the scope x, which is new or open.
AddedTask(r, h, c, x) ==
  /\ c = h.nextID /\ r.nextID = h.nextID + 1 /\ r.events = h.events
  /\ r.tk[c].scope = x /\ r.tk[c].state = "live" /\ r.tk[c].timer = "none" /\ r.tk[c].ffi = "none"
  /\ \A t \in Tasks : t # c => r.tk[t] = h.tk[t]
  /\ r.sc[x].status = "open" /\ \A e \in Execs : e # x => r.sc[e] = h.sc[e]
  /\ x \in OpenScopes(h) =>
       /\ r.sc[x].tasks = h.sc[x].tasks + 1
       /\ r.sc[x].timers = h.sc[x].timers /\ r.sc[x].ffis = h.sc[x].ffis
  /\ x \notin OpenScopes(h) => r.sc[x].tasks = 1 /\ r.sc[x].timers = 0 /\ r.sc[x].ffis = 0

LEMMA AddTaskKeepsBooks ==
  ASSUME NEW h, Books(h), Fresh(h), NEW c \in Tasks, NEW x \in Execs,
         NEW r, r \in MachineType, AddedTask(r, h, c, x)
  PROVE  Books(r) /\ Fresh(r)
<1>0. /\ c = h.nextID /\ r.nextID = h.nextID + 1 /\ r.events = h.events
      /\ r.tk[c].scope = x /\ r.tk[c].state = "live" /\ r.tk[c].timer = "none" /\ r.tk[c].ffi = "none"
      /\ \A t \in Tasks : t # c => r.tk[t] = h.tk[t]
      /\ r.sc[x].status = "open" /\ \A e \in Execs : e # x => r.sc[e] = h.sc[e]
  BY DEF AddedTask
<1>1. h \in MachineType /\ Owned(h) /\ Counted(h) /\ EventsCounted(h) /\ h.nextID \in Nat
  BY DEF Books, MachineType
<1>2. h.tk[c].state = "free" /\ h.tk[c].scope = NoExec
  BY <1>0, <1>1 DEF Fresh
<1>3. h.tk[c].timer = "none" /\ h.tk[c].ffi = "none"
  <2>1. NoExec \notin OpenScopes(h)
    BY ExecsAssumption DEF OpenScopes
  <2>2. QED
    BY <1>1, <1>2, <2>1 DEF Owned
<1>4. OpenScopes(r) = OpenScopes(h) \cup {x}
  BY <1>0 DEF OpenScopes
<1>5. ASSUME NEW e \in Execs
      PROVE  /\ Timers(r, e) = Timers(h, e) /\ FFICalls(r, e) = FFICalls(h, e)
             /\ e # x => Live(r, e) = Live(h, e)
  <2>1. \A t \in Tasks : t # c => r.tk[t] = h.tk[t]
    BY <1>0
  <2>2. e # NoExec
    BY ExecsAssumption
  <2>3. c \notin Timers(r, e) /\ c \notin Timers(h, e)
    BY <1>0, <1>3 DEF Timers
  <2>4. c \notin FFICalls(r, e) /\ c \notin FFICalls(h, e)
    BY <1>0, <1>3 DEF FFICalls
  <2>5. e # x => c \notin Live(r, e) /\ c \notin Live(h, e)
    BY <1>0, <1>2, ExecsAssumption DEF Live, TasksOf
  <2>6. Timers(r, e) = Timers(h, e)
    BY <2>1, <2>3 DEF Timers, TasksOf
  <2>7. FFICalls(r, e) = FFICalls(h, e)
    BY <2>1, <2>4 DEF FFICalls, TasksOf
  <2>8. e # x => Live(r, e) = Live(h, e)
    BY <2>1, <2>5 DEF Live, TasksOf
  <2>9. QED
    BY <2>6, <2>7, <2>8
<1>6. Live(r, x) = Live(h, x) \cup {c} /\ c \notin Live(h, x)
  <2>1. \A t \in Tasks : t # c => (t \in Live(r, x) <=> t \in Live(h, x))
    BY <1>0 DEF Live, TasksOf
  <2>2. c \in Live(r, x) /\ c \notin Live(h, x)
    BY <1>0, <1>2, ExecsAssumption DEF Live, TasksOf
  <2>3. Live(r, x) \subseteq Tasks /\ Live(h, x) \subseteq Tasks
    BY DEF Live, TasksOf
  <2>4. QED
    BY <2>1, <2>2, <2>3
<1>7. Counted(r)
  <2> SUFFICES ASSUME NEW e \in OpenScopes(r)
               PROVE  /\ r.sc[e].tasks  = Cardinality(Live(r, e))
                      /\ r.sc[e].timers = Cardinality(Timers(r, e))
                      /\ r.sc[e].ffis   = Cardinality(FFICalls(r, e))
    BY DEF Counted
  <2>1. e \in Execs
    BY DEF OpenScopes
  <2>2. CASE e # x
    <3>1. e \in OpenScopes(h) /\ r.sc[e] = h.sc[e]
      BY <1>0, <1>4, <2>1, <2>2
    <3>2. QED
      BY <1>1, <1>5, <2>1, <2>2, <3>1 DEF Counted
  <2>3. CASE e = x /\ x \in OpenScopes(h)
    <3>1. Live(h, x) \subseteq Tasks
      BY DEF Live, TasksOf
    <3>2. Cardinality(Live(h, x) \cup {c}) = Cardinality(Live(h, x)) + 1
      BY <1>6, <3>1, CardAdd
    <3>3. /\ h.sc[x].tasks  = Cardinality(Live(h, x))
          /\ h.sc[x].timers = Cardinality(Timers(h, x))
          /\ h.sc[x].ffis   = Cardinality(FFICalls(h, x))
      BY <1>1, <2>3 DEF Counted
    <3>4. r.sc[x].tasks = h.sc[x].tasks + 1 /\ r.sc[x].timers = h.sc[x].timers /\ r.sc[x].ffis = h.sc[x].ffis
      BY <2>3 DEF AddedTask
    <3>5. QED
      BY <1>5, <1>6, <2>3, <3>2, <3>3, <3>4
  <2>4. CASE e = x /\ x \notin OpenScopes(h)
    <3>1. Live(h, x) = {} /\ Timers(h, x) = {} /\ FFICalls(h, x) = {}
      BY <1>1, <2>4 DEF Owned, Live, Timers, FFICalls, TasksOf
    <3>2. Cardinality({}) = 0
      BY FS_EmptySet
    <3>3. Cardinality(Live(h, x) \cup {c}) = Cardinality(Live(h, x)) + 1
      BY <1>6, <3>1, CardAdd
    <3>4. Cardinality(Live(r, x)) = 1 /\ Cardinality(Timers(r, x)) = 0 /\ Cardinality(FFICalls(r, x)) = 0
      BY <1>5, <1>6, <3>1, <3>2, <3>3
    <3>5. r.sc[x].tasks = 1 /\ r.sc[x].timers = 0 /\ r.sc[x].ffis = 0
      BY <2>4 DEF AddedTask
    <3>6. QED
      BY <2>4, <3>4, <3>5
  <2>5. QED
    BY <2>2, <2>3, <2>4
<1>8. Owned(r)
  <2> SUFFICES ASSUME NEW t \in Tasks,
                      r.tk[t].state = "live" \/ r.tk[t].timer # "none" \/ r.tk[t].ffi # "none"
               PROVE  r.tk[t].scope \in OpenScopes(r)
    BY DEF Owned
  <2>1. CASE t = c
    BY <1>0, <1>4, <2>1
  <2>2. CASE t # c
    BY <1>0, <1>1, <1>4, <2>2 DEF Owned
  <2>3. QED
    BY <2>1, <2>2
<1>9. EventsCounted(r)
  <2>1. AllTimers(r) = AllTimers(h) /\ AllFFICalls(r) = AllFFICalls(h)
    BY <1>0, <1>3 DEF AllTimers, AllFFICalls
  <2>2. QED
    BY <1>0, <1>1, <2>1 DEF EventsCounted
<1>10. Fresh(r)
  <2>1. ASSUME NEW t \in Tasks, t >= r.nextID
        PROVE  r.tk[t].state = "free" /\ r.tk[t].scope = NoExec
    <3>1. t # c /\ t >= h.nextID
      BY <1>0, <1>1, <2>1 DEF Tasks
    <3>2. QED
      BY <1>0, <3>1 DEF Fresh
  <2>2. QED
    BY <1>0, <1>1, <2>1 DEF Fresh
<1>11. QED
  BY <1>7, <1>8, <1>9, <1>10 DEF Books

LEMMA SpawnKeepsInv ==
  ASSUME NEW h, MachineInv(h), h.running # NoTask, h.nextID \in Tasks, NEW r, r = Spawn(h)
  PROVE  /\ MachineInv(r) /\ r.running = NoTask /\ r.events = h.events
         /\ SameRoots(r, h)
<1>n. PICK n : n = NewQuantum(h)
  OBVIOUS
<1>h. MachineInv(n) /\ SameRun(n, h) /\ n.sc = h.sc
  BY <1>n, NewQuantumKeepsInv
<1> DEFINE u == h.running
           x == Scope(h)
           c == h.nextID
<1>0. n.running = u /\ Scope(n) = x /\ n.running # NoTask /\ n.nextID = c
  <2>1. n.running = u /\ n.tk[u].scope = h.tk[u].scope /\ n.nextID = c
    BY <1>h, RunningFacts DEF SameRun, Similar
  <2>2. QED
    BY <2>1 DEF Scope
<1>1. /\ u \in Tasks /\ n.tk[u].state = "live" /\ u \notin Queued(n)
      /\ x \in Execs /\ x \in OpenScopes(n) /\ n.sc[x] \in ScopeType /\ n.sc[x].status = "open"
  BY <1>h, <1>0, RunningFacts
<1>2. n \in MachineType /\ Books(n) /\ Fresh(n) /\ Placed(n)
  BY <1>h DEF MachineInv, Books
<1>3. PICK z : z = [FreeTask EXCEPT !.scope = x, !.state = "live"]
  OBVIOUS
<1>4. PICK s : s = [n.sc[x] EXCEPT !.tasks = @ + 1]
  OBVIOUS
<1>5. PICK q : q = PushBack(PushBack(n.runnable, c), u)
  OBVIOUS
<1>6. z \in TaskType /\ z.scope = x /\ z.state = "live" /\ z.timer = "none" /\ z.ffi = "none"
  BY <1>1, <1>3 DEF TaskType, FreeTask
<1>7. /\ s \in ScopeType /\ s.status = "open" /\ s.tasks = n.sc[x].tasks + 1
      /\ s.timers = n.sc[x].timers /\ s.ffis = n.sc[x].ffis
      /\ s.published = n.sc[x].published /\ s.rootState = n.sc[x].rootState
  <2>1. n.sc[x].tasks + 1 \in Nat
    BY <1>1 DEF ScopeType
  <2>2. QED
    BY <1>1, <1>4, <2>1 DEF ScopeType
<1>8. q \in QueueType(Tasks) /\ q.elems = n.runnable.elems \cup {c, u}
  <2>1. n.runnable \in QueueType(Tasks)
    BY <1>2 DEF MachineType
  <2>2. PICK w : w = PushBack(n.runnable, c)
    OBVIOUS
  <2>3. w \in QueueType(Tasks) /\ w.elems = n.runnable.elems \cup {c}
    BY <2>1, <2>2 DEF QueueType, PushBack
  <2>4. q = PushBack(w, u)
    BY <1>5, <2>2
  <2>5. QED
    BY <1>1, <2>3, <2>4 DEF QueueType, PushBack
<1>9. r = [n EXCEPT !.nextID = c + 1, !.tk = [n.tk EXCEPT ![c] = z], !.sc = [n.sc EXCEPT ![x] = s],
                    !.runnable = q, !.running = NoTask]
  <2>1. h.sc[x].status # "settled"
    BY <1>h, <1>1
  <2>2. r = [n EXCEPT !.nextID = @ + 1, !.tk[c] = z, !.sc[x].tasks = @ + 1, !.runnable = q, !.running = NoTask]
    BY <1>n, <1>3, <1>5, <2>1 DEF Spawn
  <2>3. QED
    BY <1>0, <1>1, <1>2, <1>4, <2>2 DEF MachineType
<1>c. c \in Tasks /\ c \in Nat /\ n.nextID = c
  BY <1>0, <1>2 DEF MachineType
<1> HIDE DEF u, x, c
<1>10. /\ r \in MachineType
       /\ r.events = n.events /\ r.up = n.up /\ r.nextID = c + 1
       /\ r.running = NoTask /\ r.foreground = n.foreground
       /\ r.runnable = q /\ r.blocked = n.blocked
       /\ r.tk = [n.tk EXCEPT ![c] = z] /\ r.sc = [n.sc EXCEPT ![x] = s]
  <2>1. [n.tk EXCEPT ![c] = z] \in [Tasks -> TaskType] /\ [n.sc EXCEPT ![x] = s] \in [Execs -> ScopeType]
    BY <1>2, <1>6, <1>7 DEF MachineType
  <2>2. c + 1 \in Nat
    BY <1>c
  <2>3. PICK tasks, scopes, k :
          tasks = [n.tk EXCEPT ![c] = z] /\ scopes = [n.sc EXCEPT ![x] = s] /\ k = c + 1
    OBVIOUS
  <2>4. r = [n EXCEPT !.nextID = k, !.tk = tasks, !.sc = scopes, !.runnable = q, !.running = NoTask]
    BY <1>9, <2>3
  <2>5. tasks \in [Tasks -> TaskType] /\ scopes \in [Execs -> ScopeType] /\ k \in Nat
    BY <2>1, <2>2, <2>3
  <2>6. /\ r \in MachineType
        /\ r.events = n.events /\ r.up = n.up /\ r.nextID = k
        /\ r.running = NoTask /\ r.foreground = n.foreground
        /\ r.runnable = q /\ r.blocked = n.blocked
        /\ r.tk = tasks /\ r.sc = scopes
    BY <1>2, <1>8, <2>4, <2>5 DEF MachineType
  <2>7. QED
    BY <2>3, <2>6
<1>11. r.tk[c] = z /\ \A t \in Tasks : t # c => r.tk[t] = n.tk[t]
  BY <1>2, <1>10, <1>c DEF MachineType
<1>12. r.sc[x] = s /\ \A e \in Execs : e # x => r.sc[e] = n.sc[e]
  BY <1>1, <1>2, <1>10 DEF MachineType
<1>13. Books(r) /\ Fresh(r)
  <2>1. /\ r.tk[c].scope = x /\ r.tk[c].state = "live" /\ r.tk[c].timer = "none" /\ r.tk[c].ffi = "none"
    BY <1>6, <1>11
  <2>2. /\ r.sc[x].status = "open" /\ r.sc[x].tasks = n.sc[x].tasks + 1
        /\ r.sc[x].timers = n.sc[x].timers /\ r.sc[x].ffis = n.sc[x].ffis
    BY <1>7, <1>12
  <2>3. r.events = n.events /\ r.nextID = n.nextID + 1
    BY <1>10, <1>c
  <2>4. QED
    <3>1. AddedTask(r, n, c, x)
      BY <1>1, <1>c, <1>11, <1>12, <2>1, <2>2, <2>3 DEF AddedTask
    <3>2. QED
      BY <1>1, <1>2, <1>c, <1>10, <3>1, AddTaskKeepsBooks
<1>14. \A e \in Execs : r.sc[e].status = n.sc[e].status
  BY <1>1, <1>7, <1>12
<1>15. Placed(r)
  <2>1. c \notin Queued(n) /\ c # u
    <3>1. n.tk[c].state = "free"
      BY <1>2, <1>c DEF Fresh
    <3>2. QED
      BY <1>1, <1>2, <1>c, <3>1 DEF Placed
  <2>2. Queued(r) = Queued(n) \cup {c, u}
    BY <1>8, <1>10 DEF Queued
  <2>3. NoTask \notin Queued(r)
    BY <1>1, <1>2, <1>c, <2>2, NoTaskIsNone DEF MachineType, QueueType, Queued
  <2>4. r.runnable.elems \cap r.blocked.elems = {}
    BY <1>1, <1>2, <1>8, <1>10, <2>1 DEF Placed, Queued
  <2>5. n.running = u
    BY <1>0 DEF u
  <2>6. ASSUME NEW t \in Tasks
        PROVE  /\ r.tk[t].state = "live" <=> t \in Queued(r) \cup {r.running}
               /\ r.tk[t].ffi # "none" => t \in r.blocked.elems /\ r.tk[t].op = "ffi"
    <3>1. t # NoTask
      BY NoTaskIsNone
    <3>2. CASE t = c
      BY <1>6, <1>11, <2>2, <3>2
    <3>3. CASE t # c
      BY <1>2, <1>10, <1>11, <2>2, <2>5, <3>1, <3>3 DEF Placed
    <3>4. QED
      BY <3>2, <3>3
  <2>7. QED
    BY <1>10, <2>3, <2>4, <2>6 DEF Placed
<1>16. Lifetime(r)
  BY <1>h, <1>1, <1>10 DEF MachineInv, Lifetime
<1>e. n.events = h.events
  BY <1>h DEF SameRun, Similar
<1>s. SameRoots(r, h)
  <2>1. SameRoots(r, n)
    BY <1>1, <1>6, <1>7, <1>10, <1>11, <1>12, <1>14 DEF SameRoots
  <2>2. QED
    BY <1>h, <2>1 DEF SameRoots, SameRun, Similar
<1>17. QED
  BY <1>s, <1>h, <1>e, <1>10, <1>13, <1>14, <1>15, <1>16 DEF MachineInv

LEMMA PrepareScheduledKeepsInv ==
  ASSUME NEW h, MachineInv(h), h.running = NoTask, h.nextID \in Tasks,
         NEW x \in Execs, h.sc[x].status = "none", NEW r, r = PrepareScheduled(h, x)
  PROVE  /\ MachineInv(r) /\ r.running = NoTask /\ r.nextID = h.nextID + 1 /\ r.events = h.events
         /\ \A e \in Execs : e # x => r.sc[e] = h.sc[e]
<1> DEFINE c == h.nextID
<1>1. h \in MachineType /\ Books(h) /\ Fresh(h) /\ Placed(h)
  BY DEF MachineInv, Books
<1>2. PICK z : z = [FreeTask EXCEPT !.scope = x, !.state = "live"]
  OBVIOUS
<1>3. PICK s : s = [NoScope EXCEPT !.status = "open", !.root = c, !.tasks = 1]
  OBVIOUS
<1>4. PICK q : q = PushBack(h.runnable, c)
  OBVIOUS
<1>5. z \in TaskType /\ z.scope = x /\ z.state = "live" /\ z.timer = "none" /\ z.ffi = "none"
  BY <1>2 DEF TaskType, FreeTask
<1>6. s \in ScopeType /\ s.status = "open" /\ s.tasks = 1 /\ s.timers = 0 /\ s.ffis = 0
  BY <1>3 DEF ScopeType, NoScope
<1>7. q \in QueueType(Tasks) /\ q.elems = h.runnable.elems \cup {c}
  <2>1. h.runnable \in QueueType(Tasks)
    BY <1>1 DEF MachineType
  <2>2. QED
    BY <1>4, <2>1 DEF QueueType, PushBack
<1>8. r = [h EXCEPT !.up = TRUE, !.foreground = x, !.nextID = c + 1,
                    !.sc = [h.sc EXCEPT ![x] = s], !.tk = [h.tk EXCEPT ![c] = z], !.runnable = q]
  BY <1>1, <1>2, <1>3, <1>4 DEF PrepareScheduled, MachineType
<1>c. c \in Tasks /\ c \in Nat /\ c = h.nextID
  BY <1>1 DEF MachineType
<1> HIDE DEF c
<1>9. /\ r \in MachineType
      /\ r.events = h.events /\ r.up = TRUE /\ r.nextID = c + 1
      /\ r.running = h.running /\ r.foreground = x
      /\ r.runnable = q /\ r.blocked = h.blocked
      /\ r.tk = [h.tk EXCEPT ![c] = z] /\ r.sc = [h.sc EXCEPT ![x] = s]
  <2>1. [h.tk EXCEPT ![c] = z] \in [Tasks -> TaskType] /\ [h.sc EXCEPT ![x] = s] \in [Execs -> ScopeType]
    BY <1>1, <1>5, <1>6 DEF MachineType
  <2>2. c + 1 \in Nat
    BY <1>c
  <2>3. PICK tasks, scopes, k :
          tasks = [h.tk EXCEPT ![c] = z] /\ scopes = [h.sc EXCEPT ![x] = s] /\ k = c + 1
    OBVIOUS
  <2>4. r = [h EXCEPT !.up = TRUE, !.foreground = x, !.nextID = k, !.sc = scopes, !.tk = tasks, !.runnable = q]
    BY <1>8, <2>3
  <2>5. tasks \in [Tasks -> TaskType] /\ scopes \in [Execs -> ScopeType] /\ k \in Nat
    BY <2>1, <2>2, <2>3
  <2>6. r \in MachineType
    BY <1>1, <1>7, <2>4, <2>5 DEF MachineType
  <2>7. /\ r.events = h.events /\ r.up = TRUE /\ r.nextID = k
        /\ r.running = h.running /\ r.foreground = x
    BY <1>1, <2>4 DEF MachineType
  <2>8. /\ r.runnable = q /\ r.blocked = h.blocked
        /\ r.tk = tasks /\ r.sc = scopes
    BY <1>1, <2>4 DEF MachineType
  <2>9. QED
    BY <2>3, <2>6, <2>7, <2>8
<1>10. r.tk[c] = z /\ \A t \in Tasks : t # c => r.tk[t] = h.tk[t]
  BY <1>1, <1>9, <1>c DEF MachineType
<1>11. r.sc[x] = s /\ \A e \in Execs : e # x => r.sc[e] = h.sc[e]
  BY <1>1, <1>9 DEF MachineType
<1>12. Books(r) /\ Fresh(r)
  <2>1. /\ r.tk[c].scope = x /\ r.tk[c].state = "live" /\ r.tk[c].timer = "none" /\ r.tk[c].ffi = "none"
    BY <1>5, <1>10
  <2>2. /\ r.sc[x].status = "open" /\ r.sc[x].tasks = 1 /\ r.sc[x].timers = 0 /\ r.sc[x].ffis = 0
    BY <1>6, <1>11
  <2>3. r.events = h.events /\ r.nextID = h.nextID + 1 /\ x \notin OpenScopes(h)
    BY <1>9, <1>c DEF OpenScopes
  <2>4. QED
    <3>1. AddedTask(r, h, c, x)
      BY <1>c, <1>10, <1>11, <2>1, <2>2, <2>3 DEF AddedTask
    <3>2. QED
      BY <1>1, <1>c, <1>9, <3>1, AddTaskKeepsBooks
<1>13. Placed(r)
  <2>1. c \notin Queued(h)
    <3>1. h.tk[c].state = "free"
      BY <1>1, <1>c DEF Fresh
    <3>2. QED
      BY <1>1, <1>c, <3>1 DEF Placed
  <2>2. Queued(r) = Queued(h) \cup {c}
    BY <1>7, <1>9 DEF Queued
  <2>3. NoTask \notin Queued(r)
    BY <1>1, <1>c, <2>2, NoTaskIsNone DEF MachineType, QueueType, Queued
  <2>4. r.runnable.elems \cap r.blocked.elems = {}
    BY <1>1, <1>7, <1>9, <2>1 DEF Placed, Queued
  <2>5. ASSUME NEW t \in Tasks
        PROVE  /\ r.tk[t].state = "live" <=> t \in Queued(r) \cup {r.running}
               /\ r.tk[t].ffi # "none" => t \in r.blocked.elems /\ r.tk[t].op = "ffi"
    <3>1. t # NoTask
      BY NoTaskIsNone
    <3>2. CASE t = c
      BY <1>5, <1>10, <2>2, <3>2
    <3>3. CASE t # c
      BY <1>1, <1>9, <1>10, <2>2, <3>1, <3>3 DEF Placed
    <3>4. QED
      BY <3>2, <3>3
  <2>6. QED
    BY <1>9, <2>3, <2>4, <2>5 DEF Placed
<1>14. Lifetime(r)
  BY <1>9 DEF Lifetime
<1>15. QED
  BY <1>9, <1>11, <1>12, <1>13, <1>14, <1>c DEF MachineInv

-----------------------------------------------------------------------------
(* Waking                                                                  *)

LEMMA WakeBlockedKeepsInv ==
  ASSUME NEW h, MachineInv(h), h.running = NoTask, NEW r, r = WakeBlocked(h)
  PROVE  /\ MachineInv(r) /\ Ends(r, h)
         /\ \E X, F : Similar(r, Release(h, {}, X, F))
<1> DEFINE W == {t \in h.blocked.elems : Resumable(h, t)}
           X == ReadyTimers(h)
           F == W \cap AllFFICalls(h)
<1>1. PICK q : q = Release(h, {}, X, F)
  OBVIOUS
<1>2. h \in MachineType /\ Books(h) /\ Placed(h) /\ Fresh(h) /\ Lifetime(h)
  BY DEF MachineInv, Books
<1>3. PICK k : k = [t \in Tasks |->
                 [q.tk[t] EXCEPT !.op  = IF t \in W THEN "none" ELSE @,
                                 !.sig = HasSignal(h, t) /\ ~(t \in W /\ h.tk[t].op = "recv")]]
  OBVIOUS
<1>4. PICK a : a = Join(h.runnable, Only(h.blocked, W))
  OBVIOUS
<1>5. PICK b : b = Without(h.blocked, W)
  OBVIOUS
<1>6. r = [q EXCEPT !.tk = k, !.runnable = a, !.blocked = b]
  BY <1>1, <1>3, <1>4, <1>5 DEF WakeBlocked
<1>7. {} \subseteq {t \in Tasks : h.tk[t].state = "live"} /\ X \subseteq AllTimers(h) /\ F \subseteq AllFFICalls(h)
  BY DEF ReadyTimers, AllTimers
<1>w. W \subseteq h.blocked.elems
  OBVIOUS
<1>f. \A t : t \in F <=> t \in W /\ t \in AllFFICalls(h)
  OBVIOUS
<1> HIDE DEF W, X, F
<1>8. Books(q) /\ Settling(q, h)
  BY <1>1, <1>2, <1>7, ReleaseKeepsBooks
<1>9. Released(q, h, {}, X, F)
  BY <1>1, <1>2, ReleaseFields
<1>10. ASSUME NEW t \in Tasks
       PROVE  /\ q.tk[t] \in TaskType
              /\ q.tk[t].scope = h.tk[t].scope /\ q.tk[t].state = h.tk[t].state /\ q.tk[t].op = h.tk[t].op
              /\ q.tk[t].ffi = (IF t \in F THEN "none" ELSE h.tk[t].ffi)
  BY <1>9 DEF Released
<1>11. /\ q.up = h.up /\ q.foreground = h.foreground /\ q.running = h.running
       /\ q.runnable = h.runnable /\ q.blocked = h.blocked /\ q.nextID = h.nextID
  BY <1>9 DEF Released
<1>12. Placed(q)
  <2>1. Queued(q) = Queued(h)
    BY <1>11 DEF Queued
  <2>2. ASSUME NEW t \in Tasks
        PROVE  /\ q.tk[t].state = "live" <=> t \in Queued(q) \cup {q.running}
               /\ q.tk[t].ffi # "none" => t \in q.blocked.elems /\ q.tk[t].op = "ffi"
    BY <1>2, <1>10, <1>11, <2>1 DEF Placed
  <2>3. QED
    BY <1>2, <1>11, <2>1, <2>2 DEF Placed
<1>13. MachineInv(q)
  <2>1. Fresh(q)
    BY <1>2, <1>10, <1>11 DEF Fresh
  <2>2. Lifetime(q)
    BY <1>2, <1>8, <1>11 DEF Lifetime, Settling
  <2>3. QED
    BY <1>8, <1>12, <2>1, <2>2 DEF MachineInv
<1>14. ASSUME NEW t \in Tasks
       PROVE  /\ k[t] \in TaskType /\ k[t].scope = q.tk[t].scope /\ k[t].state = q.tk[t].state
              /\ k[t].timer = q.tk[t].timer /\ k[t].ffi = q.tk[t].ffi
              /\ k[t].op = (IF t \in W THEN "none" ELSE q.tk[t].op)
  <2>1. PICK g : g = (HasSignal(h, t) /\ ~(t \in W /\ h.tk[t].op = "recv"))
    OBVIOUS
  <2>2. g \in BOOLEAN
    BY <2>1
  <2>3. PICK o : o = IF t \in W THEN "none" ELSE q.tk[t].op
    OBVIOUS
  <2>4. k[t] = [q.tk[t] EXCEPT !.op = o, !.sig = g]
    BY <1>3, <2>1, <2>3
  <2>5. o \in {"none", "ffi", "recv"}
    BY <1>10, <2>3 DEF TaskType
  <2>6. QED
    BY <1>10, <2>2, <2>3, <2>4, <2>5 DEF TaskType
<1>15. k \in [Tasks -> TaskType]
  <2>1. k = [t \in Tasks |-> k[t]]
    BY <1>3
  <2>2. QED
    BY <1>14, <2>1
<1>16. /\ a \in QueueType(Tasks) /\ a.elems = h.runnable.elems \cup W
       /\ b \in QueueType(Tasks) /\ b.elems = h.blocked.elems \ W
  <2>1. h.runnable \in QueueType(Tasks) /\ h.blocked \in QueueType(Tasks)
    BY <1>2 DEF MachineType
  <2>2. PICK o : o = Only(h.blocked, W)
    OBVIOUS
  <2>3. o \in QueueType(Tasks) /\ o.elems = W
    BY <1>w, <2>1, <2>2 DEF QueueType, Only
  <2>4. b \in QueueType(Tasks) /\ b.elems = h.blocked.elems \ W
    BY <1>5, <2>1 DEF QueueType, Without, Only
  <2>5. a = Join(h.runnable, o)
    BY <1>4, <2>2
  <2>6. a \in QueueType(Tasks) /\ a.elems = h.runnable.elems \cup W
    BY <2>1, <2>3, <2>5 DEF QueueType, Join
  <2>7. QED
    BY <2>4, <2>6
<1>17. /\ r \in MachineType
       /\ r.events = q.events /\ r.up = q.up /\ r.nextID = q.nextID
       /\ r.running = q.running /\ r.foreground = q.foreground
       /\ r.runnable = a /\ r.blocked = b /\ r.tk = k /\ r.sc = q.sc
  <2>1. q \in MachineType
    BY <1>8 DEF Books
  <2>2. QED
    BY <1>6, <1>15, <1>16, <2>1 DEF MachineType
<1>18. Similar(r, q)
  BY <1>14, <1>17 DEF Similar
<1>19. Placed(r)
  <2>1. Queued(r) = Queued(h) /\ r.running = h.running
    BY <1>11, <1>16, <1>17, <1>w DEF Queued
  <2>2. r.runnable.elems \cap r.blocked.elems = {} /\ r.running \notin Queued(r)
    BY <1>2, <1>16, <1>17, <2>1 DEF Placed
  <2>3. ASSUME NEW t \in Tasks
        PROVE  r.tk[t].state = "live" <=> t \in Queued(r) \cup {r.running}
    BY <1>2, <1>10, <1>14, <1>17, <2>1 DEF Placed
  <2>4. ASSUME NEW t \in Tasks, r.tk[t].ffi # "none"
        PROVE  t \in r.blocked.elems /\ r.tk[t].op = "ffi"
    <3>1. t \notin F /\ h.tk[t].ffi # "none"
      BY <1>10, <1>14, <1>17, <2>4
    <3>2. t \in h.blocked.elems /\ h.tk[t].op = "ffi"
      BY <1>2, <3>1 DEF Placed
    <3>3. t \notin W
      BY <1>f, <3>1 DEF AllFFICalls
    <3>4. QED
      BY <1>10, <1>14, <1>16, <1>17, <3>2, <3>3
  <2>5. QED
    BY <2>2, <2>3, <2>4 DEF Placed
<1>20. MachineInv(r)
  BY <1>13, <1>17, <1>18, <1>19, SimilarKeepsInv
<1>21. Ends(r, h)
  BY <1>8, <1>11, <1>17 DEF Ends, Settling
<1>22. Similar(r, Release(h, {}, X, F))
  BY <1>1, <1>18
<1>23. QED
  BY <1>20, <1>21, <1>22

-----------------------------------------------------------------------------
(* The invariant of the instance                                            *)

\* The owner word says who is in the machine.
OwnerHeld ==
  /\ \A e \in Execs : owner = HostOf(e) <=> hpc[e] \in {"starting", "run"}
  /\ owner = Supervisor <=> spc = "run"
  /\ phase # "off" => spc = "run" \/ \E e \in Execs : hpc[e] = "run"

\* A task runs only inside the run loop, between two yields.
RunsInLoop == phase = "exec" <=> m.running # NoTask

\* A run that is over says how it ended.
ReturnsOutcome == phase = "return" => outcome # "none"

\* A handle that was not started has no scope yet, and start found room for
\* its root task.
NotStarted ==
  \A e \in Execs :
    /\ hpc[e] \in {"idle", "starting"} => m.sc[e].status = "none"
    /\ hpc[e] = "starting" => m.nextID \in Tasks

EventsBounded == m.events <= MaxPendingEvents

IInv ==
  /\ TypeOK
  /\ MachineInv(m) /\ EventsBounded
  /\ OwnerHeld /\ RunsInLoop /\ ReturnsOutcome /\ NotStarted

-----------------------------------------------------------------------------
(* Types of everything but the machine                                     *)

Words ==
  /\ owner \in Threads \cup {Free}
  /\ signals \in Nat
  /\ lifecycle \in {"open", "faulted", "closing", "closed"}
  /\ active \in Execs \cup {NoExec}
  /\ est \in [Execs -> {"none", "running", "pending"} \cup Terminal]
  /\ hpc \in [Execs -> {"idle", "starting", "loop", "select", "poll", "run",
                        "cancel", "signal", "apply", "returned"}]
  /\ cpc \in [Execs -> {"idle", "signal", "apply", "done"}]
  /\ spc \in {"select", "enter", "run", "exit"}
  /\ dpc \in {"idle", "interrupt", "enter", "session", "done"}
  /\ phase \in {"off", "begin", "pick", "exec", "wake", "return"}
  /\ outcome \in Outcomes

Bits ==
  /\ scenario \in Scenarios
  /\ wake \in BOOLEAN /\ supToken \in BOOLEAN /\ interrupt \in BOOLEAN
  /\ instDone \in BOOLEAN
  /\ cancelReq \in [Execs -> BOOLEAN]
  /\ ctxDone \in [Execs -> BOOLEAN]

LEMMA CaptureTypes ==
  ASSUME Words, NEW e \in Execs, NEW out \in Outcomes, Capture(e, out)
  PROVE  /\ est' \in [Execs -> {"none", "running", "pending"} \cup Terminal]
         /\ active' \in Execs \cup {NoExec}
         /\ lifecycle' \in {"open", "faulted", "closing", "closed"}
<1>1. PICK state : state = IF out \in {"limited", "lost"} THEN "failed"
                           ELSE IF out = "completed" /\ est[e] = "canceled" THEN "canceled" ELSE out
  OBVIOUS
<1>2. state \in {"none", "running", "pending"} \cup Terminal
  BY <1>1 DEF Outcomes, Terminal
<1>3. est' = [est EXCEPT ![e] = state] /\ active' \in {active, NoExec}
      /\ lifecycle' \in {"faulted", "closed", lifecycle}
  BY <1>1 DEF Capture
<1>4. QED
  BY <1>2, <1>3 DEF Words

LEMMA ApplyTypes ==
  ASSUME Words, m \in MachineType, ApplyRequestedCancellations
  PROVE  /\ est' \in [Execs -> {"none", "running", "pending"} \cup Terminal]
         /\ active' \in Execs \cup {NoExec}
         /\ lifecycle' \in {"open", "faulted", "closing", "closed"}
<1>1. CASE m.up /\ m.foreground \in Requested(m)
  <2>1. m.foreground \in Execs /\ "canceled" \in Outcomes
    BY <1>1 DEF Requested, OpenScopes, Outcomes
  <2>2. Capture(m.foreground, "canceled")
    BY <1>1 DEF ApplyRequestedCancellations
  <2>3. QED
    BY <2>1, <2>2, CaptureTypes
<1>2. CASE ~(m.up /\ m.foreground \in Requested(m))
  BY <1>2 DEF ApplyRequestedCancellations, handles, Words
<1>3. QED
  BY <1>1, <1>2

LEMMA HostWords ==
  ASSUME Words, m \in MachineType, NEW e \in Execs,
         StartEnter(e) \/ StartRefused(e) \/ HostStep(e)
  PROVE  Words'
<1> USE DEF Words, threads, tokens, handles, flags
<1>1. HostOf(e) \in Threads /\ Free \in Threads \cup {Free}
  BY DEF HostOf, Threads
<1>2. CASE StartEnter(e)
  BY <1>1, <1>2 DEF StartEnter
<1>3. CASE StartRefused(e)
  BY <1>3 DEF StartRefused
<1>4. CASE StartPrepare(e)
  BY <1>1, <1>4 DEF StartPrepare
<1>5. CASE StartAbandon(e)
  BY <1>1, <1>5 DEF StartAbandon
<1>6. CASE WaitLoop(e)
  BY <1>6 DEF WaitLoop
<1>7. CASE WaitWake(e)
  BY <1>7 DEF WaitWake
<1>8. CASE WaitContext(e)
  BY <1>8 DEF WaitContext
<1>9. CASE PollEnter(e)
  BY <1>1, <1>9 DEF PollEnter, AfterPoll
<1>10. CASE PollContext(e)
  BY <1>10 DEF PollContext
<1>11. CASE PollReturn(e)
  <2>1. Capture(e, outcome) /\ outcome \in Outcomes
    BY <1>11 DEF PollReturn, AfterPoll
  <2>2. /\ est' \in [Execs -> {"none", "running", "pending"} \cup Terminal]
        /\ active' \in Execs \cup {NoExec}
        /\ lifecycle' \in {"open", "faulted", "closing", "closed"}
    BY <2>1, CaptureTypes
  <2>3. QED
    BY <1>11, <2>2 DEF PollReturn, AfterPoll, Outcomes
<1>12. CASE HostCancel(e)
  BY <1>12 DEF HostCancel
<1>13. CASE HostCancelSignal(e)
  BY <1>13 DEF HostCancelSignal
<1>14. CASE HostCancelApply(e)
  <2>1. ApplyRequestedCancellations
    BY <1>14 DEF HostCancelApply
  <2>2. /\ est' \in [Execs -> {"none", "running", "pending"} \cup Terminal]
        /\ active' \in Execs \cup {NoExec}
        /\ lifecycle' \in {"open", "faulted", "closing", "closed"}
    BY <2>1, ApplyTypes
  <2>3. QED
    BY <1>14, <2>2 DEF HostCancelApply
<1>15. QED
  BY <1>2, <1>3, <1>4, <1>5, <1>6, <1>7, <1>8, <1>9, <1>10, <1>11, <1>12, <1>13, <1>14 DEF HostStep

\* The steps of everybody but the hosts and the run loop.
OtherStep ==
  \/ \E e \in Execs : ContextEnds(e) \/ RequestCancel(e) \/ RequestSignal(e) \/ CancelApply(e)
  \/ SupervisorStep
  \/ ShutdownBegin \/ ShutdownStep
  \/ \E t \in Tasks : FFIComplete(t) \/ TimerFire(t)
  \/ CompletionSignal

LEMMA OtherWords ==
  ASSUME Words, m \in MachineType, OtherStep
  PROVE  Words'
<1> USE DEF Words, threads, tokens, handles, flags
<1>0. Supervisor \in Threads /\ Free \in Threads \cup {Free}
  BY DEF Supervisor, Threads
<1>1. ASSUME NEW e \in Execs, ContextEnds(e) PROVE Words'
  BY <1>1 DEF ContextEnds
<1>2. ASSUME NEW e \in Execs, RequestCancel(e) PROVE Words'
  BY <1>2 DEF RequestCancel
<1>3. ASSUME NEW e \in Execs, RequestSignal(e) PROVE Words'
  BY <1>3 DEF RequestSignal
<1>4. ASSUME NEW e \in Execs, CancelApply(e) PROVE Words'
  <2>1. ApplyRequestedCancellations
    BY <1>4 DEF CancelApply
  <2>2. /\ est' \in [Execs -> {"none", "running", "pending"} \cup Terminal]
        /\ active' \in Execs \cup {NoExec}
        /\ lifecycle' \in {"open", "faulted", "closing", "closed"}
    BY <2>1, ApplyTypes
  <2>3. QED
    BY <1>4, <2>2 DEF CancelApply
<1>5. CASE SuperviseWake
  BY <1>5 DEF SuperviseWake
<1>6. CASE SuperviseExit
  BY <1>6 DEF SuperviseExit
<1>7. CASE SuperviseEnter
  <2>1. CASE IsOpen /\ m.up
    <3>1. ApplyRequestedCancellations
      BY <1>7, <2>1 DEF SuperviseEnter
    <3>2. /\ est' \in [Execs -> {"none", "running", "pending"} \cup Terminal]
          /\ active' \in Execs \cup {NoExec}
          /\ lifecycle' \in {"open", "faulted", "closing", "closed"}
      BY <3>1, ApplyTypes
    <3>3. QED
      BY <1>0, <1>7, <2>1, <3>2 DEF SuperviseEnter
  <2>2. CASE ~(IsOpen /\ m.up)
    BY <1>7, <2>2 DEF SuperviseEnter
  <2>3. QED
    BY <2>1, <2>2
<1>8. CASE SuperviseReturn
  BY <1>0, <1>8 DEF SuperviseReturn, Outcomes
<1>9. CASE ShutdownBegin
  BY <1>9 DEF ShutdownBegin
<1>10. CASE ShutdownInterrupt
  BY <1>10 DEF ShutdownInterrupt
<1>11. CASE ShutdownAbort
  BY <1>11 DEF ShutdownAbort, Terminal
<1>12. CASE ShutdownFinish
  BY <1>12 DEF ShutdownFinish
<1>13. ASSUME NEW t \in Tasks, FFIComplete(t) PROVE Words'
  BY <1>13 DEF FFIComplete
<1>14. ASSUME NEW t \in Tasks, TimerFire(t) PROVE Words'
  BY <1>14 DEF TimerFire
<1>15. CASE CompletionSignal
  BY <1>15 DEF CompletionSignal
<1>16. QED
  BY <1>1, <1>2, <1>3, <1>4, <1>5, <1>6, <1>7, <1>8, <1>9, <1>10, <1>11, <1>12, <1>13, <1>14, <1>15
     DEF OtherStep, SupervisorStep, ShutdownStep

\* A step of the run loop goes on or returns, and touches nothing but the
\* machine.
LEMMA RunPhases ==
  ASSUME RunStep
  PROVE  /\ phase \in {"begin", "pick", "exec", "wake"}
         /\ \/ phase' \in {"pick", "exec", "wake"} /\ outcome' = outcome
            \/ phase' = "return" /\ outcome' \in Outcomes \ {"none"}
         /\ UNCHANGED rest
<1> USE DEF Goto, Return, Outcomes
<1>1. CASE RunBegin
  BY <1>1 DEF RunBegin
<1>2. CASE RunPick
  BY <1>2 DEF RunPick
<1>3. CASE RunIdle
  BY <1>3 DEF RunIdle
<1>4. CASE RunWake
  BY <1>4 DEF RunWake
<1>5. CASE RunCanceled
  BY <1>5 DEF RunCanceled, Running, EndScope
<1>6. CASE RunInterrupted
  BY <1>6 DEF RunInterrupted, Running, FailRun
<1>7. CASE RunPollYield
  BY <1>7 DEF RunPollYield, Checked, Running
<1>8. CASE RunLimit
  BY <1>8 DEF RunLimit, Checked, Running, FailRun, EndScope
<1>9. CASE RunComplete
  BY <1>9 DEF RunComplete, Running
<1>10. CASE RunCompute
  BY <1>10 DEF RunCompute, Execute, Checked, Running
<1>11. CASE RunCooperate
  BY <1>11 DEF RunCooperate, Checked, Running
<1>12. CASE RunFail
  BY <1>12 DEF RunFail, Execute, Checked, Running, FailRun
<1>13. CASE RunSpawn
  BY <1>13 DEF RunSpawn, Execute, Checked, Running, FailRun
<1>14. CASE RunFFI
  BY <1>14 DEF RunFFI, Execute, Checked, Running, FailRun
<1>15. CASE RunTimer
  BY <1>15 DEF RunTimer, Execute, Checked, Running, FailRun
<1>16. CASE RunReceive
  BY <1>16 DEF RunReceive, Execute, Checked, Running
<1>17. CASE RunSend
  BY <1>17 DEF RunSend, Execute, Checked, Running
<1>18. CASE RunFailCanceled
  BY <1>18 DEF RunFailCanceled, Running, EndScope
<1>19. QED
  BY <1>1, <1>2, <1>3, <1>4, <1>5, <1>6, <1>7, <1>8, <1>9, <1>10, <1>11, <1>12, <1>13, <1>14, <1>15, <1>16, <1>17, <1>18
     DEF RunStep

LEMMA RunWords ==
  ASSUME Words, RunStep
  PROVE  Words'
  BY RunPhases DEF Words, rest, threads, tokens, handles

LEMMA BitsStep ==
  ASSUME Bits, Next
  PROVE  Bits'
<1> USE DEF Bits, threads, tokens, handles, flags
<1>a. ASSUME ApplyRequestedCancellations PROVE instDone' \in BOOLEAN
  BY <1>a DEF ApplyRequestedCancellations, Capture
<1>1. ASSUME NEW e \in Execs, StartEnter(e) \/ StartRefused(e) PROVE Bits'
  BY <1>1 DEF StartEnter, StartRefused
<1>2. ASSUME NEW e \in Execs, StartPrepare(e) \/ StartAbandon(e) PROVE Bits'
  BY <1>2 DEF StartPrepare, StartAbandon
<1>3. ASSUME NEW e \in Execs, WaitLoop(e) \/ WaitWake(e) \/ WaitContext(e) \/ PollEnter(e) \/ PollContext(e)
      PROVE  Bits'
  BY <1>3 DEF WaitLoop, WaitWake, WaitContext, PollEnter, PollContext
<1>4. ASSUME NEW e \in Execs, PollReturn(e) PROVE Bits'
  BY <1>4 DEF PollReturn, Capture
<1>5. ASSUME NEW e \in Execs, HostCancel(e) PROVE Bits'
  BY <1>5 DEF HostCancel
<1>6. ASSUME NEW e \in Execs, HostCancelSignal(e) PROVE Bits'
  BY <1>6 DEF HostCancelSignal, SignalWake
<1>7. ASSUME NEW e \in Execs, HostCancelApply(e) PROVE Bits'
  BY <1>7, <1>a DEF HostCancelApply
<1>8. ASSUME NEW e \in Execs, ContextEnds(e) \/ RequestCancel(e) PROVE Bits'
  BY <1>8 DEF ContextEnds, RequestCancel
<1>9. ASSUME NEW e \in Execs, RequestSignal(e) PROVE Bits'
  BY <1>9 DEF RequestSignal, SignalWake
<1>10. ASSUME NEW e \in Execs, CancelApply(e) PROVE Bits'
  BY <1>10, <1>a DEF CancelApply
<1>11. CASE SuperviseWake \/ SuperviseExit
  BY <1>11 DEF SuperviseWake, SuperviseExit
<1>12. CASE SuperviseEnter
  BY <1>12, <1>a DEF SuperviseEnter
<1>13. CASE SuperviseReturn
  BY <1>13 DEF SuperviseReturn
<1>14. CASE ShutdownBegin \/ ShutdownInterrupt \/ ShutdownAbort \/ ShutdownFinish
  BY <1>14 DEF ShutdownBegin, ShutdownInterrupt, ShutdownAbort, ShutdownFinish, SignalWake
<1>15. ASSUME NEW t \in Tasks, FFIComplete(t) \/ TimerFire(t) PROVE Bits'
  BY <1>15 DEF FFIComplete, TimerFire
<1>16. CASE CompletionSignal
  BY <1>16 DEF CompletionSignal, SignalWake
<1>17. CASE RunStep
  BY <1>17, RunPhases DEF rest
<1>18. QED
  BY <1>1, <1>2, <1>3, <1>4, <1>5, <1>6, <1>7, <1>8, <1>9, <1>10, <1>11, <1>12, <1>13, <1>14, <1>15, <1>16, <1>17
     DEF Next, Progress, Request, HostStep, SupervisorStep, ShutdownStep

-----------------------------------------------------------------------------
(* Who is in the machine                                                   *)

LEMMA ThreadNames ==
  ASSUME NEW e \in Execs
  PROVE  /\ HostOf(e) # Free /\ HostOf(e) # Supervisor /\ Supervisor # Free
         /\ \A f \in Execs : HostOf(e) = HostOf(f) => e = f
  BY DEF HostOf, Free, Supervisor

\* With the owner word free nobody is in the machine.
LEMMA FreeMeansOff ==
  ASSUME OwnerHeld, owner = Free, phase \in {"off", "begin", "pick", "exec", "wake", "return"}
  PROVE  phase = "off" /\ spc # "run" /\ \A e \in Execs : hpc[e] \notin {"starting", "run"}
  BY ThreadNames DEF OwnerHeld, HostOf, Free, Supervisor

\* A start in progress holds the owner word, so nobody runs.
LEMMA StartingMeansOff ==
  ASSUME OwnerHeld, NEW e \in Execs, hpc[e] = "starting"
  PROVE  phase = "off" /\ spc # "run" /\ owner = HostOf(e) /\ \A f \in Execs : hpc[f] = "starting" => f = e
<1>1. owner = HostOf(e)
  BY DEF OwnerHeld
<1>2. spc # "run"
  BY <1>1, ThreadNames DEF OwnerHeld
<1>3. \A f \in Execs : hpc[f] \in {"starting", "run"} => f = e
  BY <1>1, ThreadNames DEF OwnerHeld
<1>4. QED
  BY <1>1, <1>2, <1>3 DEF OwnerHeld

\* Only one goroutine runs.
LEMMA OneRuns ==
  ASSUME OwnerHeld, NEW e \in Execs, hpc[e] = "run"
  PROVE  spc # "run" /\ owner = HostOf(e) /\ \A f \in Execs : hpc[f] \in {"starting", "run"} => f = e
<1>1. owner = HostOf(e)
  BY DEF OwnerHeld
<1>2. QED
  BY <1>1, ThreadNames DEF OwnerHeld

LEMMA SupervisorRuns ==
  ASSUME OwnerHeld, spc = "run"
  PROVE  owner = Supervisor /\ \A f \in Execs : hpc[f] \notin {"starting", "run"}
<1>1. owner = Supervisor
  BY DEF OwnerHeld
<1>2. QED
  BY <1>1, ThreadNames DEF OwnerHeld

LEMMA OwnerStep ==
  ASSUME Words, OwnerHeld, Next
  PROVE  OwnerHeld'
<1> USE DEF OwnerHeld, threads, tokens, handles, flags
<1>h. hpc \in [Execs -> {"idle", "starting", "loop", "select", "poll", "run",
                        "cancel", "signal", "apply", "returned"}]
      /\ phase \in {"off", "begin", "pick", "exec", "wake", "return"}
  BY DEF Words
<1>f. owner = Free => phase = "off" /\ spc # "run" /\ \A e \in Execs : hpc[e] \notin {"starting", "run"}
  BY <1>h, FreeMeansOff
<1>1. ASSUME NEW e \in Execs, StartEnter(e) PROVE OwnerHeld'
  BY <1>1, <1>h, <1>f, ThreadNames DEF StartEnter
<1>2. ASSUME NEW e \in Execs, StartRefused(e) PROVE OwnerHeld'
  BY <1>2, <1>h DEF StartRefused
<1>3. ASSUME NEW e \in Execs, StartPrepare(e) \/ StartAbandon(e) PROVE OwnerHeld'
  <2>1. phase = "off" /\ spc # "run" /\ owner = HostOf(e) /\ \A f \in Execs : hpc[f] = "starting" => f = e
    BY <1>3, StartingMeansOff DEF StartPrepare, StartAbandon
  <2>2. \A f \in Execs : f # e => hpc[f] \notin {"starting", "run"}
    BY <2>1, ThreadNames
  <2>3. /\ owner' = Free /\ spc' = spc /\ phase' = phase
        /\ hpc' = [hpc EXCEPT ![e] = "loop"] \/ hpc' = [hpc EXCEPT ![e] = "returned"]
    BY <1>3 DEF StartPrepare, StartAbandon
  <2>4. \A f \in Execs : hpc'[f] \notin {"starting", "run"}
    BY <1>h, <2>2, <2>3
  <2>5. QED
    BY <2>1, <2>3, <2>4, ThreadNames
<1>4. ASSUME NEW e \in Execs, WaitLoop(e) \/ WaitWake(e) \/ WaitContext(e) \/ PollContext(e) PROVE OwnerHeld'
  BY <1>4, <1>h DEF WaitLoop, WaitWake, WaitContext, PollContext
<1>5. ASSUME NEW e \in Execs, PollEnter(e) PROVE OwnerHeld'
  BY <1>5, <1>h, <1>f, ThreadNames DEF PollEnter, AfterPoll
<1>6. ASSUME NEW e \in Execs, PollReturn(e) PROVE OwnerHeld'
  <2>1. spc # "run" /\ owner = HostOf(e) /\ \A f \in Execs : hpc[f] \in {"starting", "run"} => f = e
    BY <1>6, OneRuns DEF PollReturn
  <2>2. owner' = Free /\ spc' = spc /\ phase' = "off" /\ \E p \in {"loop", "cancel"} : hpc' = [hpc EXCEPT ![e] = p]
    BY <1>6 DEF PollReturn, AfterPoll
  <2>3. \A f \in Execs : hpc'[f] \notin {"starting", "run"}
    BY <1>h, <2>1, <2>2
  <2>4. QED
    BY <2>1, <2>2, <2>3, ThreadNames DEF Free, Supervisor
<1>7. ASSUME NEW e \in Execs, HostCancel(e) \/ HostCancelSignal(e) \/ HostCancelApply(e) PROVE OwnerHeld'
  BY <1>7, <1>h DEF HostCancel, HostCancelSignal, HostCancelApply
<1>8. ASSUME NEW e \in Execs, ContextEnds(e) \/ RequestCancel(e) \/ RequestSignal(e) \/ CancelApply(e) PROVE OwnerHeld'
  BY <1>8 DEF ContextEnds, RequestCancel, RequestSignal, CancelApply
<1>9. CASE SuperviseWake \/ SuperviseExit
  BY <1>9, <1>f DEF SuperviseWake, SuperviseExit
<1>10. CASE SuperviseEnter
  <2>1. owner = Free /\ hpc' = hpc
    BY <1>10 DEF SuperviseEnter
  <2>2. \/ spc' = "run" /\ owner' = Supervisor
        \/ spc' = "select" /\ owner' = owner /\ phase' = phase
    BY <1>10 DEF SuperviseEnter
  <2>3. QED
    BY <1>f, <2>1, <2>2, ThreadNames DEF Free, Supervisor
<1>11. CASE SuperviseReturn
  <2>1. owner = Supervisor /\ \A f \in Execs : hpc[f] \notin {"starting", "run"}
    BY <1>11, SupervisorRuns DEF SuperviseReturn
  <2>2. owner' = Free /\ spc' = "select" /\ phase' = "off" /\ hpc' = hpc
    BY <1>11 DEF SuperviseReturn
  <2>3. QED
    BY <2>1, <2>2, ThreadNames DEF Free, Supervisor
<1>12. CASE ShutdownBegin \/ ShutdownInterrupt \/ ShutdownAbort \/ ShutdownFinish
  BY <1>12 DEF ShutdownBegin, ShutdownInterrupt, ShutdownAbort, ShutdownFinish
<1>13. ASSUME NEW t \in Tasks, FFIComplete(t) \/ TimerFire(t) PROVE OwnerHeld'
  BY <1>13 DEF FFIComplete, TimerFire
<1>14. CASE CompletionSignal
  BY <1>14 DEF CompletionSignal
<1>15. CASE RunStep
  BY <1>15, RunPhases DEF rest
<1>16. QED
  BY <1>1, <1>2, <1>3, <1>4, <1>5, <1>6, <1>7, <1>8, <1>9, <1>10, <1>11, <1>12, <1>13, <1>14, <1>15
     DEF Next, Progress, Request, HostStep, SupervisorStep, ShutdownStep

-----------------------------------------------------------------------------
(* The machine through a run                                               *)

\* r has the books of a machine, is within the event limit, and opens no scope
\* of a handle that q does not have.
Keeps(r, q) ==
  /\ MachineInv(r)
  /\ r.events <= MaxPendingEvents
  /\ \A e \in Execs : q.sc[e].status = "none" => r.sc[e].status = "none"

LEMMA EndsKeeps ==
  ASSUME NEW q, NEW r, MachineInv(q), MachineInv(r), q.events <= MaxPendingEvents, Ends(r, q)
  PROVE  Keeps(r, q)
<1>1. r.events \in Nat /\ q.events \in Nat
  BY EventsNat
<1>2. r.events <= MaxPendingEvents
  BY <1>1, LimitsAssumption DEF Ends
<1>3. QED
  BY <1>2 DEF Keeps, Ends

LEMMA SimilarKeeps ==
  ASSUME NEW q, NEW r, MachineInv(r), q.events <= MaxPendingEvents, Similar(r, q)
  PROVE  Keeps(r, q)
  BY DEF Keeps, Similar

LEMMA KeepsAfterStep ==
  ASSUME NEW q, NEW p, NEW r, SameRun(p, q), Keeps(r, p)
  PROVE  Keeps(r, q)
  BY DEF Keeps, SameRun, Similar

\* A failing task ends every queued task.
LEMMA FailRunKeeps ==
  ASSUME MachineInv(m), EventsBounded, m.running # NoTask, NEW out, FailRun(out)
  PROVE  Keeps(m', m) /\ RunsInLoop'
<1>1. m' = AbortQueuedTasks(EndRunning(m)) /\ phase' = "return"
  BY DEF FailRun, Return
<1>2. MachineInv(m') /\ Ends(m', m) /\ m'.running = NoTask
  BY <1>1, FailRunKeepsInv
<1>3. QED
  BY <1>1, <1>2, EndsKeeps DEF RunsInLoop, EventsBounded

\* A scope that ends alone.
LEMMA EndScopeKeeps ==
  ASSUME MachineInv(m), EventsBounded, m.running # NoTask, NEW q, MachineInv(q), SameRun(q, m),
         NEW state \in RootStates, NEW out, EndScope(q, state, out)
  PROVE  Keeps(m', m) /\ RunsInLoop'
<1>1. m' = CancelScopes(EndRunning(q), {Scope(m)}, state) /\ phase' \in {"return", "pick"}
  BY DEF EndScope, Return, Goto
<1>2. q.running # NoTask /\ q.events <= MaxPendingEvents
  BY DEF SameRun, Similar, EventsBounded
<1>3. MachineInv(m') /\ Ends(m', q) /\ m'.running = NoTask
  BY <1>1, <1>2, EndScopeKeepsInv
<1>4. Keeps(m', q)
  BY <1>2, <1>3, EndsKeeps
<1>5. QED
  BY <1>1, <1>3, <1>4, KeepsAfterStep DEF RunsInLoop

LEMMA AttemptKeepsInv ==
  ASSUME NEW q, MachineInv(q), NEW r, r = Attempt(q)
  PROVE  MachineInv(r) /\ SameRun(r, q)
<1>1. q \in MachineType
  BY DEF MachineInv, Books
<1>2. r \in MachineType /\ SameRun(r, q)
  BY <1>1 DEF Attempt, MachineType, SameRun, Similar
<1>3. QED
  BY <1>2, SameRunKeepsInv

\* The steps between two tasks.
LEMMA IdleStepKeeps ==
  ASSUME MachineInv(m), EventsBounded, RunsInLoop, RunBegin \/ RunPick \/ RunIdle \/ RunWake
  PROVE  Keeps(m', m) /\ RunsInLoop'
<1>0. m.running = NoTask
  BY DEF RunsInLoop, RunBegin, RunPick, RunIdle, RunWake
<1>1. CASE RunBegin
  <2>1. PICK c : c = CancelScopes(m, Requested(m), "canceled")
    OBVIOUS
  <2>2. "canceled" \in RootStates
    BY DEF RootStates
  <2>3. MachineInv(c) /\ Ends(c, m)
    BY <2>1, <2>2, CancelScopesKeepsInv
  <2>4. m' = [c EXCEPT !.attempts = 0] /\ phase' \in {"return", "pick"}
    BY <1>1, <2>1 DEF RunBegin, Return, Goto
  <2>5. c \in MachineType
    BY <2>3 DEF MachineInv, Books
  <2>6. m' \in MachineType /\ SameRun(m', c)
    BY <2>4, <2>5 DEF MachineType, SameRun, Similar
  <2>7. MachineInv(m')
    BY <2>3, <2>6, SameRunKeepsInv
  <2>8. Ends(m', m) /\ m'.running = NoTask
    BY <1>0, <2>3, <2>4, <2>5 DEF Ends, MachineType
  <2>9. QED
    BY <2>4, <2>7, <2>8, EndsKeeps DEF RunsInLoop, EventsBounded
<1>2. CASE RunPick
  <2>1. PICK t \in Tasks : /\ IsHead(m.runnable, t)
                           /\ m' = [m EXCEPT !.runnable = Without(@, {t}), !.running = t]
    BY <1>2 DEF RunPick
  <2>2. t \in m.runnable.elems
    BY <2>1 DEF IsHead
  <2>3. MachineInv(m') /\ Similar(m', m) /\ m'.running = t
    BY <1>0, <2>1, <2>2, PickKeepsInv
  <2>4. phase' = "exec"
    BY <1>2 DEF RunPick, Goto
  <2>5. QED
    BY <2>3, <2>4, SimilarKeeps, NoTaskIsNone DEF RunsInLoop, EventsBounded
<1>3. CASE RunIdle \/ RunWake
  <2>1. m' = WakeBlocked(m)
    BY <1>3 DEF RunIdle, RunWake
  <2>2. phase' \in {"return", "pick"}
    BY <1>3 DEF RunIdle, RunWake, Goto, Return
  <2>3. MachineInv(m') /\ Ends(m', m)
    BY <1>0, <2>1, WakeBlockedKeepsInv
  <2>4. QED
    BY <1>0, <2>2, <2>3, EndsKeeps DEF RunsInLoop, EventsBounded, Ends
<1>4. QED
  BY <1>1, <1>2, <1>3

\* The ways a task stops before its next instruction.
LEMMA StopStepKeeps ==
  ASSUME MachineInv(m), EventsBounded, RunsInLoop,
         \/ RunCanceled \/ RunInterrupted \/ RunPollYield \/ RunLimit \/ RunFailCanceled
         \/ RunComplete \/ RunCooperate \/ RunFail
  PROVE  Keeps(m', m) /\ RunsInLoop'
<1>0. m.running # NoTask
  BY DEF RunsInLoop, RunCanceled, RunInterrupted, RunPollYield, RunLimit, RunComplete, RunCooperate, RunFail,
         RunFailCanceled, Execute, Checked, Running
<1>a. "canceled" \in RootStates /\ "failed" \in RootStates
  BY DEF RootStates
<1>b. MachineInv(Attempt(m)) /\ SameRun(Attempt(m), m)
  BY AttemptKeepsInv
<1>1. CASE RunCanceled
  <2>1. SameRun(m, m)
    BY DEF SameRun, Similar
  <2>2. QED
    BY <1>0, <1>1, <1>a, <2>1, EndScopeKeeps DEF RunCanceled
<1>2. CASE RunInterrupted
  BY <1>0, <1>2, FailRunKeeps DEF RunInterrupted
<1>3. CASE RunPollYield
  <2>1. m' = PollYield(m) /\ phase' = "return"
    BY <1>3 DEF RunPollYield, Return
  <2>2. MachineInv(m') /\ Similar(m', m) /\ m'.running = NoTask
    BY <1>0, <2>1, PollYieldKeepsInv
  <2>3. QED
    BY <2>1, <2>2, SimilarKeeps DEF RunsInLoop, EventsBounded
<1>4. CASE RunLimit
  <2>1. FailRun("limited") \/ EndScope(Attempt(m), "failed", "limited")
    BY <1>4 DEF RunLimit
  <2>2. QED
    BY <1>0, <1>a, <1>b, <2>1, FailRunKeeps, EndScopeKeeps
<1>5. CASE RunComplete
  <2>1. m' = AbortQueuedTasks(EndRunning(m)) \/ m' = EndRunning(m)
    BY <1>5 DEF RunComplete
  <2>2. phase' \in {"return", "wake"}
    BY <1>5 DEF RunComplete, Return, Goto
  <2>3. MachineInv(m') /\ Ends(m', m) /\ m'.running = NoTask
    BY <1>0, <2>1, FailRunKeepsInv, EndRunningKeepsInv
  <2>4. QED
    BY <2>2, <2>3, EndsKeeps DEF RunsInLoop, EventsBounded
<1>6. CASE RunCooperate
  <2>1. m' = Cooperate(m) /\ phase' = "wake"
    BY <1>6 DEF RunCooperate, Goto
  <2>2. MachineInv(m') /\ Similar(m', m) /\ m'.running = NoTask
    BY <1>0, <2>1, CooperateKeepsInv
  <2>3. QED
    BY <2>1, <2>2, SimilarKeeps DEF RunsInLoop, EventsBounded
<1>7. CASE RunFail
  BY <1>0, <1>7, FailRunKeeps DEF RunFail
<1>8. CASE RunFailCanceled
  <2>1. EndScope(Attempt(m), "failed", "failed") \/ EndScope(Attempt(m), "failed", "limited")
    BY <1>8 DEF RunFailCanceled
  <2>2. QED
    BY <1>0, <1>a, <1>b, <2>1, EndScopeKeeps
<1>9. QED
  BY <1>1, <1>2, <1>3, <1>4, <1>5, <1>6, <1>7, <1>8

\* A step that starts a timer or an FFI call stays within the event limit.
LEMMA OneMoreEvent ==
  ASSUME NEW q, MachineInv(q), q.events <= MaxPendingEvents, ~EventLimitHit(q),
         NEW r, MachineInv(r), r.events = q.events + 1,
         \A e \in Execs : r.sc[e].status = q.sc[e].status
  PROVE  Keeps(r, q)
<1>1. q.events \in Nat /\ q.events < MaxPendingEvents
  BY EventsNat, LimitsAssumption DEF EventLimitHit
<1>2. r.events <= MaxPendingEvents
  BY <1>1, LimitsAssumption
<1>3. QED
  BY <1>2 DEF Keeps

LEMMA SimilarRoots ==
  ASSUME NEW q, NEW r, Similar(r, q)
  PROVE  SameRoots(r, q)
  BY DEF Similar, SameRoots

LEMMA SameRootsTransitive ==
  ASSUME NEW q, NEW p, NEW r, SameRoots(p, q), SameRoots(r, p)
  PROVE  SameRoots(r, q)
  BY DEF SameRoots

\* An instruction leaves the scopes and the roots, or ends the run.
StaysOrFails ==
  \/ SameRoots(m', m)
  \/ m' = AbortQueuedTasks(EndRunning(m)) /\ phase' = "return"

\* The instructions that are executed.
LEMMA ExecuteStepKeeps ==
  ASSUME MachineInv(m), EventsBounded, RunsInLoop,
         RunCompute \/ RunSpawn \/ RunFFI \/ RunTimer \/ RunReceive \/ RunSend
  PROVE  Keeps(m', m) /\ RunsInLoop' /\ StaysOrFails
<1>0. m.running # NoTask
  BY DEF RunsInLoop, RunCompute, RunSpawn, RunFFI, RunTimer, RunReceive, RunSend, Execute, Checked, Running
<1>1. PICK q : q = Step(m)
  OBVIOUS
<1>2. MachineInv(q) /\ SameRun(q, m)
  BY <1>0, <1>1, StepKeepsInv
<1>3. q.running = m.running /\ q.nextID = m.nextID /\ q.events = m.events
  BY <1>2 DEF SameRun, Similar
<1>4. q.running # NoTask /\ q.events <= MaxPendingEvents
  BY <1>0, <1>3 DEF EventsBounded
<1>5. m.running \in Tasks /\ m \in MachineType
  BY <1>0, RunningFacts DEF MachineInv, Books
<1>6. q.tk[m.running].sig = m.tk[m.running].sig /\ q.tk[m.running].timer = m.tk[m.running].timer
  <2>1. PICK z : z = [m.tk[m.running] EXCEPT !.quantum = IF @ < TaskQuantum THEN @ + 1 ELSE @]
    OBVIOUS
  <2>2. m.tk \in [Tasks -> TaskType] /\ m.tk[m.running] \in TaskType
    BY <1>5 DEF MachineType
  <2>3. z.sig = m.tk[m.running].sig /\ z.timer = m.tk[m.running].timer
    BY <2>1, <2>2 DEF TaskType
  <2>4. q.tk = [m.tk EXCEPT ![m.running] = z]
    BY <1>1, <1>5, <2>1 DEF Step, MachineType
  <2>5. QED
    BY <1>5, <2>2, <2>3, <2>4
<1>s. SameRoots(q, m) /\ \A r : SameRoots(r, q) => SameRoots(r, m)
  <2>1. SameRoots(q, m)
    BY <1>2, SimilarRoots DEF SameRun
  <2>2. QED
    BY <2>1, SameRootsTransitive
<1>f. ASSUME NEW out, FailRun(out) PROVE StaysOrFails
  BY <1>f DEF FailRun, Return, StaysOrFails
<1>7. CASE RunCompute
  <2>1. m' = q /\ phase' = "exec"
    BY <1>1, <1>7 DEF RunCompute, Goto
  <2>2. Keeps(m', m)
    BY <1>2, <2>1, SimilarKeeps DEF SameRun, EventsBounded
  <2>3. QED
    BY <1>4, <1>s, <2>1, <2>2 DEF RunsInLoop, StaysOrFails
<1>8. CASE RunSpawn
  <2>1. CASE FailRun("limited")
    BY <1>0, <1>f, <2>1, FailRunKeeps
  <2>2. CASE m' = Spawn(q) /\ phase' = "wake"
    <3>1. m.nextID <= NumTasks /\ m.nextID \in Nat /\ m.nextID > 0
      BY <1>5, <1>8 DEF RunSpawn, MachineInv, Fresh, MachineType
    <3>2. q.nextID \in Tasks
      BY <1>3, <3>1, LimitsAssumption DEF Tasks
    <3>3. /\ MachineInv(m') /\ m'.running = NoTask /\ m'.events = q.events
          /\ SameRoots(m', q)
      BY <1>2, <1>4, <2>2, <3>2, SpawnKeepsInv
    <3>4. Keeps(m', q)
      BY <1>4, <3>3 DEF Keeps, SameRoots
    <3>5. QED
      BY <1>2, <1>s, <2>2, <3>3, <3>4, KeepsAfterStep DEF RunsInLoop, StaysOrFails
  <2>3. QED
    BY <1>1, <1>8, <2>1, <2>2 DEF RunSpawn, Goto
<1>9. CASE RunFFI
  <2>1. CASE FailRun("failed")
    BY <1>0, <1>f, <2>1, FailRunKeeps
  <2>2. CASE ~EventLimitHit(m) /\ m' = BlockOnFFI(q) /\ phase' = "wake"
    <3>1. ~EventLimitHit(q)
      BY <1>3, <2>2 DEF EventLimitHit
    <3>2. /\ MachineInv(m') /\ m'.running = NoTask /\ m'.events = q.events + 1
          /\ SameRoots(m', q)
      BY <1>2, <1>4, <2>2, BlockOnFFIKeepsInv
    <3>3. Keeps(m', q)
      BY <1>2, <1>4, <3>1, <3>2, OneMoreEvent DEF SameRoots
    <3>4. QED
      BY <1>2, <1>s, <2>2, <3>2, <3>3, KeepsAfterStep DEF RunsInLoop, StaysOrFails
  <2>3. QED
    BY <1>1, <1>9, <2>1, <2>2 DEF RunFFI, Goto
<1>10. CASE RunTimer
  <2>1. CASE FailRun("failed")
    BY <1>0, <1>f, <2>1, FailRunKeeps
  <2>2. CASE ~EventLimitHit(m) /\ m' = StartTimer(q) /\ phase' = "exec"
    <3>1. ~EventLimitHit(q)
      BY <1>3, <2>2 DEF EventLimitHit
    <3>2. q.tk[q.running].timer = "none"
      BY <1>3, <1>6, <1>10 DEF RunTimer
    <3>3. /\ MachineInv(m') /\ m'.running = q.running /\ m'.events = q.events + 1
          /\ SameRoots(m', q)
      BY <1>2, <1>4, <2>2, <3>2, StartTimerKeepsInv
    <3>4. Keeps(m', q)
      BY <1>2, <1>4, <3>1, <3>3, OneMoreEvent DEF SameRoots
    <3>5. QED
      BY <1>2, <1>4, <1>s, <2>2, <3>3, <3>4, KeepsAfterStep DEF RunsInLoop, StaysOrFails
  <2>3. QED
    BY <1>1, <1>10, <2>1, <2>2 DEF RunTimer, Goto
<1>11. CASE RunReceive
  <2>1. m' = Receive(q) /\ phase' = IF m.tk[m.running].sig THEN "exec" ELSE "wake"
    BY <1>1, <1>11 DEF RunReceive, Goto
  <2>2. /\ MachineInv(m') /\ Similar(m', q)
        /\ m'.running = (IF q.tk[q.running].sig THEN q.running ELSE NoTask)
    BY <1>2, <1>4, <2>1, ReceiveKeepsInv
  <2>3. Keeps(m', q)
    BY <1>4, <2>2, SimilarKeeps
  <2>4. Keeps(m', m)
    BY <1>2, <2>3, KeepsAfterStep
  <2>s. StaysOrFails
    BY <1>s, <2>2, SimilarRoots DEF StaysOrFails
  <2>5. CASE m.tk[m.running].sig
    BY <2>s, <1>3, <1>4, <1>6, <2>1, <2>2, <2>4, <2>5 DEF RunsInLoop
  <2>6. CASE ~m.tk[m.running].sig
    BY <2>s, <1>3, <1>4, <1>6, <2>1, <2>2, <2>4, <2>6 DEF RunsInLoop
  <2>7. QED
    BY <2>5, <2>6
<1>12. CASE RunSend
  <2>1. PICK u \in m.blocked.elems : m' = [q EXCEPT !.tk[u].sig = TRUE]
    BY <1>1, <1>12 DEF RunSend
  <2>2. u \in Tasks
    BY <1>5, <2>1 DEF MachineType, QueueType
  <2>3. q \in MachineType
    BY <1>2 DEF MachineInv, Books
  <2>4. q.tk[u] \in TaskType
    BY <2>2, <2>3 DEF MachineType
  <2>5. PICK z : z = [q.tk[u] EXCEPT !.sig = TRUE]
    OBVIOUS
  <2>6. /\ z \in TaskType /\ z.scope = q.tk[u].scope /\ z.state = q.tk[u].state /\ z.op = q.tk[u].op
        /\ z.timer = q.tk[u].timer /\ z.ffi = q.tk[u].ffi
    BY <2>4, <2>5 DEF TaskType
  <2>7. m' = [q EXCEPT !.tk[u] = z]
    BY <2>1, <2>2, <2>3, <2>5 DEF MachineType
  <2>8. MachineInv(m') /\ SameRun(m', q)
    BY <1>2, <2>2, <2>6, <2>7, TaskKeepsInv
  <2>9. Keeps(m', q)
    BY <1>4, <2>8, SimilarKeeps DEF SameRun
  <2>10. phase' = "exec" /\ m'.running = q.running
    BY <1>12, <2>8 DEF RunSend, Goto, SameRun
  <2>s. SameRoots(m', q)
    BY <2>8, SimilarRoots DEF SameRun
  <2>11. QED
    BY <1>2, <1>4, <1>s, <2>s, <2>9, <2>10, KeepsAfterStep DEF RunsInLoop, StaysOrFails
<1>13. QED
  BY <1>7, <1>8, <1>9, <1>10, <1>11, <1>12

LEMMA RunStepKeeps ==
  ASSUME MachineInv(m), EventsBounded, RunsInLoop, RunStep
  PROVE  Keeps(m', m) /\ RunsInLoop'
  BY IdleStepKeeps, StopStepKeeps, ExecuteStepKeeps DEF RunStep

-----------------------------------------------------------------------------
(* The machine through every other step                                    *)

\* What is said about the machine and the goroutines together.
Bound == EventsBounded /\ RunsInLoop /\ ReturnsOutcome /\ NotStarted

\* Nobody begins a start and the machine only loses work.
LEMMA EndsBound ==
  ASSUME MachineInv(m), Bound, MachineInv(m'), Ends(m', m), m.running = NoTask,
         phase' \in {"off", "begin"},
         \A f \in Execs : hpc'[f] \in {"idle", "starting"} => hpc'[f] = hpc[f]
  PROVE  Bound'
<1>1. EventsBounded'
  BY EndsKeeps DEF Bound, EventsBounded, Keeps
<1>2. RunsInLoop' /\ ReturnsOutcome'
  BY DEF Ends, RunsInLoop, ReturnsOutcome
<1>3. NotStarted'
  BY DEF Bound, NotStarted, Ends
<1>4. QED
  BY <1>1, <1>2, <1>3 DEF Bound

LEMMA EndsItself ==
  ASSUME NEW q, MachineInv(q)
  PROVE  Ends(q, q)
  BY EventsNat DEF Ends

LEMMA ApplyKeepsInv ==
  ASSUME MachineInv(m), m.running = NoTask, ApplyRequestedCancellations
  PROVE  MachineInv(m') /\ Ends(m', m)
<1>1. PICK c : c = CancelScopes(m, Requested(m), "canceled")
  OBVIOUS
<1>2. MachineInv(c) /\ Ends(c, m)
  BY <1>1, CancelScopesKeepsInv DEF RootStates
<1>3. c.running = NoTask
  BY <1>2 DEF Ends
<1>4. \/ m' = FinishRun(c) \/ m' = FinishForeground(c) \/ m' = c \/ m' = m
  BY <1>1 DEF ApplyRequestedCancellations
<1>5. CASE m' = FinishRun(c)
  <2>1. MachineInv(m') /\ Ends(m', c)
    BY <1>2, <1>3, <1>5, FinishRunKeepsInv
  <2>2. QED
    BY <1>2, <2>1, EndsTransitive
<1>6. CASE m' = FinishForeground(c)
  <2>1. MachineInv(m') /\ Ends(m', c)
    BY <1>2, <1>6, FinishForegroundKeepsInv
  <2>2. QED
    BY <1>2, <2>1, EndsTransitive
<1>7. CASE m' = c
  BY <1>2, <1>7
<1>8. CASE m' = m
  BY <1>8, EndsItself
<1>9. QED
  BY <1>4, <1>5, <1>6, <1>7, <1>8

\* abortQueuedTasks, then finishRun.
LEMMA AbortAndFinishKeepsInv ==
  ASSUME NEW q, MachineInv(q), q.running = NoTask, NEW r, r = FinishRun(AbortQueuedTasks(q))
  PROVE  MachineInv(r) /\ Ends(r, q)
<1>1. PICK a : a = AbortQueuedTasks(q)
  OBVIOUS
<1>2. MachineInv(a) /\ Ends(a, q)
  BY <1>1, AbortQueuedTasksKeepsInv
<1>3. a.running = NoTask
  BY <1>2 DEF Ends
<1>4. MachineInv(r) /\ Ends(r, a)
  BY <1>1, <1>2, <1>3, FinishRunKeepsInv
<1>5. QED
  BY <1>2, <1>4, EndsTransitive

LEMMA ReturnedKeepsInv ==
  ASSUME MachineInv(m), m.running = NoTask, outcome \in Outcomes \ {"none"}, NEW e \in Execs,
         NEW state, state = IF outcome \in {"limited", "lost"} THEN "failed" ELSE outcome,
         NEW r, r = Returned(e, PublishScopeRoot(m, m.foreground, state))
  PROVE  MachineInv(r) /\ Ends(r, m)
<1>1. CASE outcome \in {"running", "pending"}
  <2>1. r = m
    BY <1>1 DEF Returned
  <2>2. QED
    BY <2>1, EndsItself
<1>2. CASE outcome \notin {"running", "pending"}
  <2>1. PICK p : p = PublishScopeRoot(m, m.foreground, state)
    OBVIOUS
  <2>2. state \in RootStates
    BY <1>2 DEF RootStates, Outcomes
  <2>3. m.foreground \in Execs \cup {NoExec}
    BY DEF MachineInv, Books, MachineType
  <2>4. MachineInv(p) /\ Ends(p, m)
    BY <2>1, <2>2, <2>3, PublishScopeRootKeepsInv
  <2>5. p.running = NoTask
    BY <2>4 DEF Ends
  <2>6. r = FinishRun(p) \/ r = FinishForeground(p) \/ r = FinishRun(AbortQueuedTasks(p))
    BY <1>2, <2>1 DEF Returned, Outcomes
  <2>7. MachineInv(r) /\ Ends(r, p)
    BY <2>4, <2>5, <2>6, FinishRunKeepsInv, FinishForegroundKeepsInv, AbortAndFinishKeepsInv
  <2>8. QED
    BY <2>4, <2>7, EndsTransitive
<1>3. QED
  BY <1>1, <1>2

\* The steps that leave the machine and its run alone, unless one begins.
LEMMA SameMachineBound ==
  ASSUME MachineInv(m), Bound, m' = m,
         \/ phase' = phase /\ outcome' = outcome
         \/ phase = "off" /\ phase' = "begin",
         \A f \in Execs : hpc'[f] \in {"idle", "starting"} => hpc'[f] = hpc[f]
  PROVE  MachineInv(m') /\ Bound'
  BY DEF Bound, EventsBounded, RunsInLoop, ReturnsOutcome, NotStarted

\* Start: the handle that prepares has no scope yet, and nobody else prepares.
LEMMA StartKeeps ==
  ASSUME IInv, NEW e \in Execs, StartEnter(e) \/ StartPrepare(e) \/ StartAbandon(e)
  PROVE  MachineInv(m') /\ Bound'
<1>h. /\ MachineInv(m) /\ Bound /\ OwnerHeld
      /\ hpc \in [Execs -> {"idle", "starting", "loop", "select", "poll", "run",
                            "cancel", "signal", "apply", "returned"}]
      /\ m.nextID \in Nat
  BY DEF IInv, Bound, TypeOK, MachineType
<1>1. CASE StartEnter(e)
  <2>1. /\ hpc[e] = "idle" /\ m.nextID <= NumTasks /\ m' = m /\ phase' = phase /\ outcome' = outcome
        /\ hpc' = [hpc EXCEPT ![e] = "starting"]
    BY <1>1 DEF StartEnter
  <2>2. m.nextID \in Tasks
    BY <1>h, <2>1, LimitsAssumption DEF MachineInv, Fresh, Tasks
  <2>3. NotStarted'
    BY <1>h, <2>1, <2>2 DEF Bound, NotStarted
  <2>4. QED
    BY <1>h, <2>1, <2>3 DEF Bound, EventsBounded, RunsInLoop, ReturnsOutcome
<1>2. CASE StartPrepare(e) \/ StartAbandon(e)
  <2>1. hpc[e] = "starting"
    BY <1>2 DEF StartPrepare, StartAbandon
  <2>2. phase = "off" /\ \A f \in Execs : hpc[f] = "starting" => f = e
    BY <1>h, <2>1, StartingMeansOff
  <2>3. m.running = NoTask /\ m.sc[e].status = "none" /\ m.nextID \in Tasks
    BY <1>h, <2>1, <2>2 DEF Bound, RunsInLoop, NotStarted
  <2>4. PICK p : p = PrepareScheduled(m, e)
    OBVIOUS
  <2>5. /\ MachineInv(p) /\ p.running = NoTask /\ p.nextID = m.nextID + 1 /\ p.events = m.events
        /\ \A f \in Execs : f # e => p.sc[f] = m.sc[f]
    BY <1>h, <2>3, <2>4, PrepareScheduledKeepsInv
  <2>6. MachineInv(m') /\ Ends(m', p)
    <3>1. CASE StartPrepare(e)
      <4>1. m' = p
        BY <2>4, <3>1 DEF StartPrepare
      <4>2. QED
        BY <2>5, <4>1, EndsItself
    <3>2. CASE StartAbandon(e)
      <4>1. PICK c : c = CancelScopes(p, {e}, "canceled")
        OBVIOUS
      <4>2. MachineInv(c) /\ Ends(c, p)
        BY <2>5, <4>1, CancelScopesKeepsInv DEF RootStates
      <4>3. m' = FinishForeground(c)
        BY <2>4, <3>2, <4>1 DEF StartAbandon
      <4>4. MachineInv(m') /\ Ends(m', c)
        BY <4>2, <4>3, FinishForegroundKeepsInv
      <4>5. QED
        BY <2>5, <4>2, <4>4, EndsTransitive
    <3>3. QED
      BY <1>2, <3>1, <3>2
  <2>7. /\ phase' = phase /\ outcome' = outcome
        /\ hpc' = [hpc EXCEPT ![e] = "loop"] \/ hpc' = [hpc EXCEPT ![e] = "returned"]
    BY <1>2 DEF StartPrepare, StartAbandon
  <2>8. EventsBounded'
    <3>1. p.events <= MaxPendingEvents
      BY <1>h, <2>5 DEF Bound, EventsBounded
    <3>2. QED
      BY <2>5, <2>6, <3>1, EndsKeeps DEF Keeps, EventsBounded
  <2>9. RunsInLoop' /\ ReturnsOutcome'
    BY <2>2, <2>5, <2>6, <2>7 DEF Ends, RunsInLoop, ReturnsOutcome
  <2>10. NotStarted'
    <3>1. \A f \in Execs : hpc'[f] \in {"idle", "starting"} => f # e /\ hpc[f] = "idle" /\ hpc'[f] = "idle"
      BY <1>h, <2>2, <2>7
    <3>2. \A f \in Execs : hpc'[f] \in {"idle", "starting"} => m'.sc[f].status = "none"
      BY <1>h, <2>5, <2>6, <3>1 DEF Bound, NotStarted, Ends
    <3>3. QED
      BY <3>1, <3>2 DEF NotStarted
  <2>11. QED
    BY <2>6, <2>8, <2>9, <2>10 DEF Bound
<1>3. QED
  BY <1>1, <1>2

LEMMA HostKeeps ==
  ASSUME IInv, NEW e \in Execs, StartEnter(e) \/ StartRefused(e) \/ HostStep(e)
  PROVE  MachineInv(m') /\ Bound'
<1>h. /\ MachineInv(m) /\ Bound /\ OwnerHeld
      /\ hpc \in [Execs -> {"idle", "starting", "loop", "select", "poll", "run",
                            "cancel", "signal", "apply", "returned"}]
      /\ phase \in {"off", "begin", "pick", "exec", "wake", "return"} /\ outcome \in Outcomes
  BY DEF IInv, Bound, TypeOK
<1>1. CASE StartEnter(e) \/ StartPrepare(e) \/ StartAbandon(e)
  BY <1>1, StartKeeps
<1>2. CASE StartRefused(e) \/ WaitLoop(e) \/ WaitWake(e) \/ WaitContext(e) \/ PollContext(e)
           \/ HostCancel(e) \/ HostCancelSignal(e)
  <2>1. m' = m /\ phase' = phase /\ outcome' = outcome
    BY <1>2 DEF StartRefused, WaitLoop, WaitWake, WaitContext, PollContext, HostCancel, HostCancelSignal
  <2>2. \A f \in Execs : hpc'[f] \in {"idle", "starting"} => hpc'[f] = hpc[f]
    BY <1>h, <1>2 DEF StartRefused, WaitLoop, WaitWake, WaitContext, PollContext, HostCancel, HostCancelSignal
  <2>3. QED
    BY <1>h, <2>1, <2>2, SameMachineBound
<1>3. CASE PollEnter(e)
  <2>1. owner = Free /\ m' = m /\ outcome' = outcome /\ phase' \in {phase, "begin"}
    BY <1>3 DEF PollEnter, AfterPoll
  <2>2. phase = "off"
    BY <1>h, <2>1, FreeMeansOff
  <2>3. \A f \in Execs : hpc'[f] \in {"idle", "starting"} => hpc'[f] = hpc[f]
    BY <1>h, <1>3 DEF PollEnter, AfterPoll
  <2>4. QED
    BY <1>h, <2>1, <2>2, <2>3, SameMachineBound
<1>4. CASE PollReturn(e)
  <2>1. PICK state : state = IF outcome \in {"limited", "lost"} THEN "failed" ELSE outcome
    OBVIOUS
  <2>2. /\ phase = "return" /\ phase' = "off" /\ \E p \in {"loop", "cancel"} : hpc' = [hpc EXCEPT ![e] = p]
        /\ m' = Returned(e, PublishScopeRoot(m, m.foreground, state))
    BY <1>4, <2>1 DEF PollReturn, AfterPoll
  <2>3. m.running = NoTask /\ outcome \in Outcomes \ {"none"}
    BY <1>h, <2>2 DEF Bound, RunsInLoop, ReturnsOutcome
  <2>4. MachineInv(m') /\ Ends(m', m)
    BY <1>h, <2>1, <2>2, <2>3, ReturnedKeepsInv
  <2>5. \A f \in Execs : hpc'[f] \in {"idle", "starting"} => hpc'[f] = hpc[f]
    BY <1>h, <2>2
  <2>6. QED
    BY <1>h, <2>2, <2>3, <2>4, <2>5, EndsBound
<1>5. CASE HostCancelApply(e)
  <2>1. owner = Free /\ ApplyRequestedCancellations /\ phase' = phase /\ hpc' = [hpc EXCEPT ![e] = "returned"]
    BY <1>5 DEF HostCancelApply
  <2>2. phase = "off"
    BY <1>h, <2>1, FreeMeansOff
  <2>3. m.running = NoTask
    BY <1>h, <2>2 DEF Bound, RunsInLoop
  <2>4. MachineInv(m') /\ Ends(m', m)
    BY <1>h, <2>1, <2>3, ApplyKeepsInv
  <2>5. \A f \in Execs : hpc'[f] \in {"idle", "starting"} => hpc'[f] = hpc[f]
    BY <1>h, <2>1
  <2>6. QED
    BY <1>h, <2>1, <2>2, <2>3, <2>4, <2>5, EndsBound
<1>6. QED
  BY <1>1, <1>2, <1>3, <1>4, <1>5 DEF HostStep

\* A completion changes the word of one timer or call.
LEMMA CompletionKeeps ==
  ASSUME MachineInv(m), Bound, NEW t \in Tasks, FFIComplete(t) \/ TimerFire(t)
  PROVE  MachineInv(m') /\ Bound' /\ Similar(m', m)
<1>1. m \in MachineType
  BY DEF MachineInv, Books
<1>2. m.tk[t] \in TaskType
  BY <1>1 DEF MachineType
<1>3. \E z \in TaskType :
        /\ m' = [m EXCEPT !.tk[t] = z]
        /\ z.scope = m.tk[t].scope /\ z.state = m.tk[t].state /\ z.op = m.tk[t].op
        /\ z.timer # "none" <=> m.tk[t].timer # "none"
        /\ z.ffi # "none" <=> m.tk[t].ffi # "none"
  <2>1. CASE FFIComplete(t)
    <3>1. PICK z : z = [m.tk[t] EXCEPT !.ffi = "ready"]
      OBVIOUS
    <3>2. m' = [m EXCEPT !.tk[t] = z] /\ m.tk[t].ffi = "waiting"
      BY <1>1, <2>1, <3>1 DEF FFIComplete, MachineType
    <3>3. /\ z \in TaskType /\ z.scope = m.tk[t].scope /\ z.state = m.tk[t].state /\ z.op = m.tk[t].op
          /\ z.timer = m.tk[t].timer /\ z.ffi = "ready"
      BY <1>2, <3>1 DEF TaskType
    <3>4. QED
      BY <3>2, <3>3
  <2>2. CASE TimerFire(t)
    <3>1. PICK z : z = [m.tk[t] EXCEPT !.timer = "ready"]
      OBVIOUS
    <3>2. m' = [m EXCEPT !.tk[t] = z] /\ m.tk[t].timer = "armed"
      BY <1>1, <2>2, <3>1 DEF TimerFire, MachineType
    <3>3. /\ z \in TaskType /\ z.scope = m.tk[t].scope /\ z.state = m.tk[t].state /\ z.op = m.tk[t].op
          /\ z.timer = "ready" /\ z.ffi = m.tk[t].ffi
      BY <1>2, <3>1 DEF TaskType
    <3>4. QED
      BY <3>2, <3>3
  <2>3. QED
    BY <2>1, <2>2
<1>4. MachineInv(m') /\ SameRun(m', m)
  BY <1>3, TaskKeepsInv
<1>5. Keeps(m', m)
  BY <1>4, SimilarKeeps DEF SameRun, Bound, EventsBounded
<1>6. m'.running = m.running /\ m'.nextID = m.nextID
  BY <1>4 DEF SameRun, Similar
<1>7. phase' = phase /\ outcome' = outcome /\ hpc' = hpc
  BY DEF FFIComplete, TimerFire, threads
<1>8. QED
  BY <1>4, <1>5, <1>6, <1>7 DEF Keeps, Bound, EventsBounded, RunsInLoop, ReturnsOutcome, NotStarted, SameRun

LEMMA OtherKeeps ==
  ASSUME IInv, OtherStep
  PROVE  MachineInv(m') /\ Bound'
<1>h. /\ MachineInv(m) /\ Bound /\ OwnerHeld
      /\ phase \in {"off", "begin", "pick", "exec", "wake", "return"}
  BY DEF IInv, Bound, TypeOK
<1>f. owner = Free => phase = "off" /\ m.running = NoTask
  BY <1>h, FreeMeansOff DEF Bound, RunsInLoop
<1>1. ASSUME NEW e \in Execs, ContextEnds(e) \/ RequestCancel(e) \/ RequestSignal(e)
      PROVE  MachineInv(m') /\ Bound'
  BY <1>h, <1>1, SameMachineBound DEF ContextEnds, RequestCancel, RequestSignal, threads
<1>2. ASSUME NEW e \in Execs, CancelApply(e) PROVE MachineInv(m') /\ Bound'
  <2>1. owner = Free /\ ApplyRequestedCancellations /\ phase' = phase /\ hpc' = hpc
    BY <1>2 DEF CancelApply
  <2>2. MachineInv(m') /\ Ends(m', m)
    BY <1>h, <1>f, <2>1, ApplyKeepsInv
  <2>3. QED
    BY <1>h, <1>f, <2>1, <2>2, EndsBound
<1>3. CASE SuperviseWake \/ SuperviseExit \/ ShutdownBegin \/ ShutdownInterrupt \/ ShutdownFinish
           \/ CompletionSignal
  BY <1>h, <1>3, SameMachineBound
     DEF SuperviseWake, SuperviseExit, ShutdownBegin, ShutdownInterrupt, ShutdownFinish, CompletionSignal, threads
<1>4. CASE SuperviseEnter
  <2>1. owner = Free /\ hpc' = hpc /\ phase' \in {phase, "begin"}
    BY <1>4 DEF SuperviseEnter
  <2>2. ApplyRequestedCancellations \/ m' = m
    BY <1>4 DEF SuperviseEnter
  <2>3. MachineInv(m') /\ Ends(m', m)
    BY <1>h, <1>f, <2>1, <2>2, ApplyKeepsInv, EndsItself
  <2>4. QED
    BY <1>h, <1>f, <2>1, <2>3, EndsBound
<1>5. CASE SuperviseReturn
  <2>1. phase = "return" /\ phase' = "off" /\ hpc' = hpc
    BY <1>5 DEF SuperviseReturn
  <2>2. m.running = NoTask
    BY <1>h, <2>1 DEF Bound, RunsInLoop
  <2>3. m' = FinishRun(AbortQueuedTasks(m)) \/ m' = FinishForeground(m) \/ m' = m
    BY <1>5 DEF SuperviseReturn
  <2>4. MachineInv(m') /\ Ends(m', m)
    BY <1>h, <2>2, <2>3, AbortAndFinishKeepsInv, FinishForegroundKeepsInv, EndsItself
  <2>5. QED
    BY <1>h, <2>1, <2>2, <2>4, EndsBound
<1>6. CASE ShutdownAbort
  <2>1. /\ owner = Free /\ hpc' = hpc /\ phase' = phase
        /\ m' = FinishRun(AbortQueuedTasks(m)) \/ m' = FinishRun(m)
    BY <1>6 DEF ShutdownAbort
  <2>2. MachineInv(m') /\ Ends(m', m)
    BY <1>h, <1>f, <2>1, AbortAndFinishKeepsInv, FinishRunKeepsInv
  <2>3. QED
    BY <1>h, <1>f, <2>1, <2>2, EndsBound
<1>7. ASSUME NEW t \in Tasks, FFIComplete(t) \/ TimerFire(t) PROVE MachineInv(m') /\ Bound'
  BY <1>h, <1>7, CompletionKeeps
<1>8. QED
  BY <1>1, <1>2, <1>3, <1>4, <1>5, <1>6, <1>7 DEF OtherStep, SupervisorStep, ShutdownStep

LEMMA RunKeeps ==
  ASSUME IInv, RunStep
  PROVE  MachineInv(m') /\ Bound'
<1>1. MachineInv(m) /\ EventsBounded /\ RunsInLoop /\ NotStarted /\ OwnerHeld
  BY DEF IInv
<1>2. Keeps(m', m) /\ RunsInLoop'
  BY <1>1, RunStepKeeps
<1>3. hpc' = hpc
  BY RunPhases DEF rest, threads
<1>4. \A f \in Execs : hpc[f] # "starting"
  BY <1>1, RunPhases, StartingMeansOff
<1>5. NotStarted'
  BY <1>1, <1>2, <1>3, <1>4 DEF NotStarted, Keeps
<1>6. ReturnsOutcome'
  BY RunPhases DEF ReturnsOutcome
<1>7. QED
  BY <1>2, <1>5, <1>6 DEF Bound, Keeps, EventsBounded

-----------------------------------------------------------------------------
(* The inductive invariant                                                 *)

LEMMA TypeParts == TypeOK <=> m \in MachineType /\ Words /\ Bits
  BY DEF TypeOK, Words, Bits

LEMMA InitMachineInv ==
  ASSUME NEW q, q = InitMachine
  PROVE  /\ MachineInv(q) /\ q.running = NoTask /\ q.events = 0
         /\ \A e \in Execs : q.sc[e].status = "none"
<1>1. NoScope \in ScopeType /\ NoScope.status = "none"
  BY DEF NoScope, ScopeType
<1>2. /\ FreeTask \in TaskType /\ FreeTask.state = "free" /\ FreeTask.timer = "none"
      /\ FreeTask.ffi = "none" /\ FreeTask.scope = NoExec
  BY DEF FreeTask, TaskType
<1>3. /\ q.sc = [e \in Execs |-> NoScope] /\ q.tk = [t \in Tasks |-> FreeTask]
      /\ q.up = FALSE /\ q.foreground = NoExec /\ q.running = NoTask /\ q.nextID = 1
      /\ q.events = 0 /\ q.runnable = EmptyQueue /\ q.blocked = EmptyQueue
  BY DEF InitMachine
<1>4. EmptyQueue \in QueueType(Tasks) /\ EmptyQueue.elems = {}
  BY DEF EmptyQueue, QueueType
<1>5. q \in MachineType
  BY <1>1, <1>2, <1>4 DEF InitMachine, MachineType
<1>6. OpenScopes(q) = {}
  BY <1>1, <1>3 DEF OpenScopes
<1>7. Owned(q) /\ Counted(q)
  BY <1>2, <1>3, <1>6 DEF Owned, Counted
<1>8. EventsCounted(q)
  <2>1. AllTimers(q) = {} /\ AllFFICalls(q) = {}
    BY <1>2, <1>3 DEF AllTimers, AllFFICalls
  <2>2. QED
    BY <1>3, <2>1, FS_EmptySet DEF EventsCounted
<1>9. Placed(q)
  BY <1>2, <1>3, <1>4, NoTaskIsNone DEF Placed, Queued
<1>10. Fresh(q) /\ Lifetime(q)
  BY <1>2, <1>3, <1>6 DEF Fresh, Lifetime
<1>11. QED
  BY <1>1, <1>3, <1>5, <1>7, <1>8, <1>9, <1>10 DEF MachineInv, Books

LEMMA InitIInv == Init => IInv
<1> SUFFICES ASSUME Init PROVE IInv
  OBVIOUS
<1>1. /\ MachineInv(m) /\ m.running = NoTask /\ m.events = 0
      /\ \A e \in Execs : m.sc[e].status = "none"
  BY InitMachineInv DEF Init
<1>2. Words
  BY DEF Init, Words, Threads, Outcomes
<1>3. Bits
  BY DEF Init, Bits
<1>4. TypeOK
  BY <1>1, <1>2, <1>3, TypeParts DEF MachineInv, Books
<1>5. EventsBounded /\ RunsInLoop /\ ReturnsOutcome /\ NotStarted
  BY <1>1, LimitsAssumption DEF Init, EventsBounded, RunsInLoop, ReturnsOutcome, NotStarted
<1>6. OwnerHeld
  BY ThreadNames DEF Init, OwnerHeld, Free, Supervisor
<1>7. QED
  BY <1>1, <1>4, <1>5, <1>6 DEF IInv

LEMMA NextIInv == IInv /\ [Next]_vars => IInv'
<1> SUFFICES ASSUME IInv, [Next]_vars PROVE IInv'
  OBVIOUS
<1>1. CASE Next
  <2>1. \/ \E e \in Execs : StartEnter(e) \/ StartRefused(e) \/ HostStep(e)
        \/ OtherStep
        \/ RunStep
    BY <1>1 DEF Next, Progress, Request, OtherStep
  <2>2. m \in MachineType /\ Words /\ Bits /\ OwnerHeld
    BY TypeParts DEF IInv
  <2>3. Words'
    BY <2>1, <2>2, HostWords, OtherWords, RunWords
  <2>4. Bits'
    BY <1>1, <2>2, BitsStep
  <2>5. OwnerHeld'
    BY <1>1, <2>2, OwnerStep
  <2>6. MachineInv(m') /\ Bound'
    BY <2>1, HostKeeps, OtherKeeps, RunKeeps
  <2>7. m' \in MachineType
    BY <2>6 DEF MachineInv, Books
  <2>8. TypeOK'
    BY <2>3, <2>4, <2>7 DEF TypeOK, Words, Bits
  <2>9. QED
    BY <2>5, <2>6, <2>8 DEF IInv, Bound
<1>2. CASE UNCHANGED vars
  BY <1>2 DEF vars, working, threads, tokens, handles, flags, IInv, TypeOK, EventsBounded, OwnerHeld, RunsInLoop,
              ReturnsOutcome, NotStarted
<1>3. QED
  BY <1>1, <1>2

LEMMA Invariance == Spec => []IInv
  BY InitIInv, NextIInv, PTL DEF Spec

-----------------------------------------------------------------------------
(* Theorems                                                                *)

\* Every variable of an instance keeps its type; in particular the pending
\* event counter, which releasePendingEvent lowers without looking, never goes
\* below zero.
THEOREM InstanceTypes == Spec => []TypeOK
<1>1. IInv => TypeOK
  BY DEF IInv
<1>2. QED
  BY <1>1, Invariance, PTL

\* The counters of an open scope are exact and a settled scope owns nothing, so
\* ScopeDone closes after the last task, timer and FFI call and never before
\* (addTask, finishTask, settleScope, cancelScope).
THEOREM ScopesCountTheirWork == Spec => []ScopeAccounting
<1>1. IInv => ScopeAccounting
  <2> SUFFICES ASSUME IInv, NEW e \in Execs
               PROVE  /\ m.sc[e].status = "open" =>
                           /\ m.sc[e].tasks  = Cardinality(Live(m, e))
                           /\ m.sc[e].timers = Cardinality(Timers(m, e))
                           /\ m.sc[e].ffis   = Cardinality(FFICalls(m, e))
                      /\ m.sc[e].status # "open" => Live(m, e) \cup Timers(m, e) \cup FFICalls(m, e) = {}
    BY DEF ScopeAccounting
  <2>1. Owned(m) /\ Counted(m)
    BY DEF IInv, MachineInv, Books
  <2>2. m.sc[e].status = "open" <=> e \in OpenScopes(m)
    BY DEF OpenScopes
  <2>3. CASE m.sc[e].status = "open"
    BY <2>1, <2>2, <2>3 DEF Counted
  <2>4. CASE m.sc[e].status # "open"
    BY <2>1, <2>2, <2>4 DEF Owned, Live, Timers, FFICalls, TasksOf
  <2>5. QED
    BY <2>3, <2>4
<1>2. QED
  BY <1>1, Invariance, PTL

\* No goroutine, cancellation, failure or shutdown loses a task or queues it
\* twice (popRunnable, pushRunnable, blockTask, wakeBlocked, cancelScope).
THEOREM NoTaskIsLost == Spec => []TaskInOnePlace
<1>1. IInv => TaskInOnePlace
  <2> SUFFICES ASSUME IInv PROVE TaskInOnePlace
    OBVIOUS
  <2>1. Placed(m) /\ m \in MachineType
    BY DEF IInv, MachineInv, Books
  <2>2. Queued(m) \subseteq Tasks /\ m.running \in Tasks \cup {NoTask}
    BY <2>1 DEF Queued, MachineType, QueueType
  <2>3. {t \in Tasks : m.tk[t].state = "live"} = (Queued(m) \cup {m.running}) \ {NoTask}
    BY <2>1, <2>2, NoTaskIsNone DEF Placed
  <2>4. QED
    BY <2>1, <2>3 DEF Placed, TaskInOnePlace
<1>2. QED
  BY <1>1, Invariance, PTL

\* The pending event counter is exact and never passes MaxPendingEvents
\* (reservePendingEvent, releasePendingEvent).
THEOREM EventsStayWithinLimit == Spec => []EventAccounting
<1>1. IInv => EventAccounting
  BY DEF IInv, MachineInv, Books, EventsCounted, EventsBounded, EventAccounting
<1>2. QED
  BY <1>1, Invariance, PTL

-----------------------------------------------------------------------------
(***************************************************************************)
(* The execution handles.  The theorems above show that the books of the   *)
(* machine are kept; here it is shown which roots each operator publishes  *)
(* and which tasks it ends, and that the goroutines publish the same state *)
(* in the handle: the handles agree with the scopes of the machine, a      *)
(* published result stays, a closed instance is quiet, and a scope that    *)
(* ends takes no other scope's tasks with it.                              *)
(***************************************************************************)
-----------------------------------------------------------------------------
(* The roots an operator publishes                                         *)

\* r has the roots of q, and those open scopes of C that had not published
\* theirs have published state.  A scope that settled has published.
Roots(r, q, C, state) ==
  \A e \in Execs :
    /\ q.sc[e].status # "open" => r.sc[e].status = q.sc[e].status
    /\ q.sc[e].status = "open" => \/ r.sc[e].status = "open"
                                  \/ r.sc[e].status = "settled" /\ r.sc[e].published
    /\ IF e \in C /\ q.sc[e].status = "open" /\ ~q.sc[e].published
       THEN r.sc[e].published /\ r.sc[e].rootState = state
       ELSE r.sc[e].published = q.sc[e].published /\ r.sc[e].rootState = q.sc[e].rootState

\* Of the live tasks of q only members of S are not live in r.
EndsOnly(r, q, S) ==
  \A t \in Tasks : q.tk[t].state = "live" /\ r.tk[t].state # "live" => t \in S

\* r publishes nothing, keeps the foreground and ends only tasks of S.
Kept(r, q, S) ==
  /\ Roots(r, q, {}, "canceled") /\ EndsOnly(r, q, S)
  /\ r.foreground = q.foreground /\ r.up = q.up

LEMMA SettleScopeRoot ==
  ASSUME NEW s \in ScopeType, NEW r, r = SettleScope(s)
  PROVE  /\ r.published = s.published /\ r.rootState = s.rootState
         /\ s.status # "open" => r.status = s.status
         /\ s.status = "open" => r.status = "open" \/ (r.status = "settled" /\ s.published)
<1>1. CASE s.status = "open" /\ s.tasks = 0 /\ s.timers = 0 /\ s.ffis = 0 /\ s.published
  <2>1. r = [s EXCEPT !.status = "settled"]
    BY <1>1 DEF SettleScope
  <2>2. QED
    BY <1>1, <2>1 DEF ScopeType
<1>2. CASE ~(s.status = "open" /\ s.tasks = 0 /\ s.timers = 0 /\ s.ffis = 0 /\ s.published)
  BY <1>2 DEF SettleScope
<1>3. QED
  BY <1>1, <1>2

LEMMA ReleaseScopeRoot ==
  ASSUME NEW s \in ScopeType, NEW a \in Nat, NEW b \in Nat, NEW c \in Nat, NEW r, r = ReleaseScope(s, a, b, c)
  PROVE  /\ r.published = s.published /\ r.rootState = s.rootState
         /\ s.status # "open" => r.status = s.status
         /\ s.status = "open" => r.status = "open" \/ (r.status = "settled" /\ s.published)
<1>1. CASE s.status # "open"
  BY <1>1 DEF ReleaseScope
<1>2. CASE s.status = "open"
  <2>1. PICK q : q = [s EXCEPT !.tasks = Less(@, a), !.timers = Less(@, b), !.ffis = Less(@, c)]
    OBVIOUS
  <2>2. r = SettleScope(q)
    BY <1>2, <2>1 DEF ReleaseScope
  <2>3. q \in ScopeType
    <3>1. s.tasks \in Nat /\ s.timers \in Nat /\ s.ffis \in Nat
      BY DEF ScopeType
    <3>2. Less(s.tasks, a) \in Nat /\ Less(s.timers, b) \in Nat /\ Less(s.ffis, c) \in Nat
      BY <3>1 DEF Less
    <3>3. QED
      BY <2>1, <3>2 DEF ScopeType
  <2>4. q.status = "open" /\ q.published = s.published /\ q.rootState = s.rootState
    BY <1>2, <2>1 DEF ScopeType
  <2>5. QED
    BY <1>2, <2>2, <2>3, <2>4, SettleScopeRoot
<1>3. QED
  BY <1>1, <1>2

LEMMA ReleaseRoots ==
  ASSUME NEW q \in MachineType, NEW T, NEW X, NEW F, NEW r, r = Release(q, T, X, F)
  PROVE  /\ Kept(r, q, T)
         /\ \A t \in Tasks : r.tk[t].scope = q.tk[t].scope
<1>1. Released(r, q, T, X, F)
  BY ReleaseFields
<1>2. Roots(r, q, {}, "canceled")
  <2> SUFFICES ASSUME NEW e \in Execs
               PROVE  /\ q.sc[e].status # "open" => r.sc[e].status = q.sc[e].status
                      /\ q.sc[e].status = "open" => \/ r.sc[e].status = "open"
                                                    \/ r.sc[e].status = "settled" /\ r.sc[e].published
                      /\ r.sc[e].published = q.sc[e].published /\ r.sc[e].rootState = q.sc[e].rootState
    BY DEF Roots
  <2>1. PICK a, b, c : /\ a = Cardinality(T \cap TasksOf(q, e))
                       /\ b = Cardinality(X \cap TasksOf(q, e))
                       /\ c = Cardinality(F \cap TasksOf(q, e))
    OBVIOUS
  <2>2. a \in Nat /\ b \in Nat /\ c \in Nat
    <3>1. \A S : S \cap TasksOf(q, e) \subseteq Tasks
      BY DEF TasksOf
    <3>2. QED
      BY <2>1, <3>1, TasksFinite
  <2>3. r.sc[e] = ReleaseScope(q.sc[e], a, b, c) /\ q.sc[e] \in ScopeType
    BY <1>1, <2>1 DEF Released, MachineType
  <2>4. QED
    BY <2>2, <2>3, ReleaseScopeRoot
<1>3. EndsOnly(r, q, T)
  BY <1>1 DEF Released, EndsOnly
<1>4. QED
  BY <1>1, <1>2, <1>3 DEF Kept, Released

\* A change of anything but scopes, tasks, foreground and up.
LEMMA KeptBySame ==
  ASSUME NEW q, NEW r, NEW p, NEW S, Kept(p, q, S),
         r.sc = p.sc, r.tk = p.tk, r.foreground = p.foreground, r.up = p.up
  PROVE  Kept(r, q, S)
  BY DEF Kept, Roots, EndsOnly

LEMMA KeptItself ==
  ASSUME NEW q, NEW S
  PROVE  Kept(q, q, S)
  BY DEF Kept, Roots, EndsOnly

LEMMA KeptTransitive ==
  ASSUME NEW q, NEW p, NEW r, NEW S, NEW U, Kept(p, q, S), Kept(r, p, U)
  PROVE  Kept(r, q, S \cup U)
<1>1. Roots(r, q, {}, "canceled")
  BY DEF Kept, Roots
<1>2. EndsOnly(r, q, S \cup U)
  BY DEF Kept, EndsOnly
<1>3. QED
  BY <1>1, <1>2 DEF Kept

LEMMA RootsAfterKept ==
  ASSUME NEW q, NEW p, NEW r, NEW C, NEW state, Roots(p, q, {}, "canceled"), Roots(r, p, C, state)
  PROVE  Roots(r, q, C, state)
  BY DEF Roots

\* What follows publishes only what is published already.
LEMMA RootsThenNothing ==
  ASSUME NEW q, NEW p, NEW r, NEW C, NEW state, NEW D, NEW other,
         Roots(p, q, C, state), Roots(r, p, D, other),
         \A e \in D \cap OpenScopes(p) : p.sc[e].published
  PROVE  Roots(r, q, C, state)
<1>1. Roots(r, p, {}, "canceled")
  BY DEF Roots, OpenScopes
<1>2. QED
  BY <1>1 DEF Roots

\* cancelScope publishes the roots of C that were not published.
LEMMA PublishCanceledFields ==
  ASSUME NEW q, q \in MachineType, NEW C, NEW state \in RootStates, NEW p, p = PublishCanceled(q, C, state)
  PROVE  \A e \in Execs :
           /\ p.sc[e].status = q.sc[e].status
           /\ e \in C /\ ~q.sc[e].published => p.sc[e].published /\ p.sc[e].rootState = state
           /\ ~(e \in C /\ ~q.sc[e].published) => p.sc[e] = q.sc[e]
<1>1. /\ p = [q EXCEPT !.sc = p.sc]
      /\ p.sc = [e \in Execs |-> IF e \in C /\ ~q.sc[e].published
                                 THEN [q.sc[e] EXCEPT !.published = TRUE, !.rootState = state]
                                 ELSE q.sc[e]]
  BY DEF PublishCanceled, MachineType
<1> SUFFICES ASSUME NEW e \in Execs
             PROVE  /\ p.sc[e].status = q.sc[e].status
                    /\ e \in C /\ ~q.sc[e].published => p.sc[e].published /\ p.sc[e].rootState = state
                    /\ ~(e \in C /\ ~q.sc[e].published) => p.sc[e] = q.sc[e]
  OBVIOUS
<1>2. p.sc[e] = IF e \in C /\ ~q.sc[e].published
                THEN [q.sc[e] EXCEPT !.published = TRUE, !.rootState = state] ELSE q.sc[e]
  BY <1>1
<1>3. q.sc[e] \in ScopeType
  BY DEF MachineType
<1>4. CASE e \in C /\ ~q.sc[e].published
  <2>1. PICK old, new : old = q.sc[e] /\ new = p.sc[e]
    OBVIOUS
  <2>2. old \in ScopeType /\ new = [old EXCEPT !.published = TRUE, !.rootState = state]
    BY <1>2, <1>3, <1>4, <2>1
  <2>3. new.status = old.status /\ new.published = TRUE /\ new.rootState = state
    BY <2>2 DEF ScopeType
  <2>4. QED
    BY <1>4, <2>1, <2>3
<1>5. CASE ~(e \in C /\ ~q.sc[e].published)
  BY <1>2, <1>5
<1>6. QED
  BY <1>4, <1>5

LEMMA PublishCanceledRoots ==
  ASSUME NEW q, q \in MachineType, NEW C, \A e \in C : q.sc[e].status = "open",
         NEW state \in RootStates, NEW p, p = PublishCanceled(q, C, state)
  PROVE  Roots(p, q, C, state)
<1>1. \A e \in Execs :
        /\ p.sc[e].status = q.sc[e].status
        /\ e \in C /\ ~q.sc[e].published => p.sc[e].published /\ p.sc[e].rootState = state
        /\ ~(e \in C /\ ~q.sc[e].published) => p.sc[e] = q.sc[e]
  BY PublishCanceledFields
<1>2. QED
  BY <1>1 DEF Roots

\* r is q after the scopes of E have ended for good.
Cancelled(r, q, E, state) ==
  /\ Roots(r, q, E, state) /\ E \cap OpenScopes(r) = {} /\ r.up = q.up
  /\ r.foreground = IF q.foreground \in E \cap OpenScopes(q) THEN NoExec ELSE q.foreground
  /\ EndsOnly(r, q, {t \in Tasks : q.tk[t].scope \in E})

\* cancelScope ends a scope for good: with no task running nothing of it is
\* left, and no task of another scope is touched.
LEMMA CancelScopesRoots ==
  ASSUME NEW q, MachineInv(q), q.running = NoTask, NEW E, NEW state \in RootStates,
         NEW r, r = CancelScopes(q, E, state)
  PROVE  Cancelled(r, q, E, state)
<1> DEFINE C    == E \cap OpenScopes(q)
           ours == UNION {TasksOf(q, e) : e \in C}
           gone == Queued(q) \cap ours
           X    == AllTimers(q) \cap ours
           F    == AllFFICalls(q) \cap ours
<1>p. PICK p : p = PublishCanceled(q, C, state)
  OBVIOUS
<1>s. PICK s : s = Release(p, gone, X, F)
  OBVIOUS
<1>1. Books(q) /\ q \in MachineType
  BY DEF MachineInv, Books
<1>2. Books(p) /\ PublishedIn(p, q, C) /\ Roots(p, q, C, state)
  <2>1. \A e \in C : q.sc[e].status = "open"
    BY DEF OpenScopes
  <2> HIDE DEF C
  <2>2. QED
    BY <1>1, <1>p, <2>1, PublishCanceledKeepsBooks, PublishCanceledRoots
<1>3. \A t : t \in ours <=> t \in Tasks /\ q.tk[t].scope \in C
  BY DEF TasksOf
<1>4. /\ gone \subseteq {t \in Tasks : p.tk[t].state = "live"}
      /\ X \subseteq AllTimers(p) /\ F \subseteq AllFFICalls(p) /\ p.tk = q.tk
  <2>1. gone \subseteq {t \in Tasks : q.tk[t].state = "live"}
    BY <1>3 DEF MachineInv, Placed
  <2>2. AllTimers(p) = AllTimers(q) /\ AllFFICalls(p) = AllFFICalls(q)
    BY <1>2 DEF AllTimers, AllFFICalls, PublishedIn
  <2>3. p.tk = q.tk
    BY <1>2 DEF PublishedIn
  <2>4. QED
    BY <2>1, <2>2, <2>3
<1>5. r = [s EXCEPT !.runnable   = Without(q.runnable, gone),
                    !.blocked    = Without(q.blocked, gone),
                    !.foreground = IF q.foreground \in C THEN NoExec ELSE q.foreground]
  BY <1>p, <1>s DEF CancelScopes
<1>g. /\ gone \subseteq ours
      /\ \A t \in Tasks : t \in ours /\ q.tk[t].state = "live" => t \in gone
      /\ \A t \in ours : /\ q.tk[t].timer # "none" => t \in X
                         /\ q.tk[t].ffi # "none" => t \in F
  <2>1. \A t \in Tasks : q.tk[t].state = "live" => t \in Queued(q)
    BY NoTaskIsNone DEF MachineInv, Placed
  <2>2. QED
    BY <1>3, <2>1 DEF AllTimers, AllFFICalls
<1>c. \A e : e \in C <=> e \in E /\ e \in OpenScopes(q)
  OBVIOUS
<1> HIDE DEF gone, X, F, ours, C
<1>6. Books(s) /\ Settling(s, p) /\ Settled(s, p)
  BY <1>s, <1>2, <1>4, ReleaseKeepsBooks
<1>7. p \in MachineType /\ s \in MachineType
  BY <1>2, <1>6 DEF Books
<1>8. Released(s, p, gone, X, F)
  BY <1>s, <1>7, ReleaseFields
<1>9. Kept(s, p, gone)
  BY <1>s, <1>7, ReleaseRoots
<1>10. /\ r.sc = s.sc /\ r.tk = s.tk /\ r.up = s.up
       /\ r.foreground = IF q.foreground \in C THEN NoExec ELSE q.foreground
  <2>1. PICK f : f = IF q.foreground \in C THEN NoExec ELSE q.foreground
    OBVIOUS
  <2>2. r = [s EXCEPT !.runnable = Without(q.runnable, gone), !.blocked = Without(q.blocked, gone),
                      !.foreground = f]
    BY <1>5, <2>1
  <2>3. r.sc = s.sc /\ r.tk = s.tk /\ r.up = s.up /\ r.foreground = f
    BY <1>7, <2>2 DEF MachineType
  <2>4. QED
    BY <2>1, <2>3
<1>11. Roots(r, q, E, state)
  <2>1. Roots(r, p, {}, "canceled")
    BY <1>9, <1>10 DEF Kept, Roots
  <2>2. Roots(r, q, C, state)
    BY <1>2, <2>1, RootsThenNothing
  <2>3. QED
    BY <1>c, <2>2 DEF Roots, OpenScopes
<1>12. ASSUME NEW e \in C PROVE s.sc[e].status = "settled"
  <2>1. e \in OpenScopes(p) /\ p.sc[e].published = TRUE /\ e \in Execs
    BY <1>2, <1>12, <1>c DEF PublishedIn, OpenScopes
  <2>2. Live(s, e) = {} /\ Timers(s, e) = {} /\ FFICalls(s, e) = {}
    <3>1. ASSUME NEW t \in Tasks, s.tk[t].scope = e
          PROVE  s.tk[t].state # "live" /\ s.tk[t].timer = "none" /\ s.tk[t].ffi = "none"
      <4>1. q.tk[t].scope = e /\ t \in ours
        BY <1>3, <1>4, <1>8, <1>12, <3>1 DEF Released
      <4>2. /\ s.tk[t].state = (IF t \in gone THEN "finished" ELSE q.tk[t].state)
            /\ s.tk[t].timer = (IF t \in X THEN "none" ELSE q.tk[t].timer)
            /\ s.tk[t].ffi   = (IF t \in F THEN "none" ELSE q.tk[t].ffi)
        BY <1>4, <1>8, <3>1 DEF Released
      <4>3. QED
        BY <1>g, <4>1, <4>2
    <3>2. QED
      BY <3>1 DEF Live, Timers, FFICalls, TasksOf
  <2>3. QED
    BY <1>6, <2>1, <2>2 DEF Settled
<1>13. E \cap OpenScopes(r) = {}
  <2> SUFFICES ASSUME NEW e \in E, e \in OpenScopes(r) PROVE FALSE
    OBVIOUS
  <2>1. e \in Execs /\ r.sc[e].status = "open"
    BY DEF OpenScopes
  <2>2. q.sc[e].status = "open"
    BY <1>11, <2>1 DEF Roots
  <2>3. e \in C
    BY <1>c, <2>1, <2>2 DEF OpenScopes
  <2>4. QED
    BY <1>10, <1>12, <2>1, <2>3
<1>14. EndsOnly(r, q, {t \in Tasks : q.tk[t].scope \in E})
  BY <1>3, <1>4, <1>9, <1>10, <1>c, <1>g DEF Kept, EndsOnly
<1>15. r.up = q.up
  BY <1>2, <1>9, <1>10 DEF Kept, PublishedIn
<1>16. r.foreground = IF q.foreground \in E \cap OpenScopes(q) THEN NoExec ELSE q.foreground
  BY <1>10, <1>c
<1>17. QED
  BY <1>11, <1>13, <1>14, <1>15, <1>16 DEF Cancelled

LEMMA SameRootsKept ==
  ASSUME NEW q, NEW r, NEW S, SameRoots(r, q)
  PROVE  Kept(r, q, S)
  BY DEF SameRoots, Kept, Roots, EndsOnly

LEMMA SimilarKept ==
  ASSUME NEW q, NEW r, NEW S, Similar(r, q)
  PROVE  Kept(r, q, S)
  BY SimilarRoots, SameRootsKept

\* finishTask of one set of tasks, and then queues and the running task change.
LEMMA EndTasksRoots ==
  ASSUME NEW q \in MachineType, NEW S, NEW a, NEW b, NEW r,
         r = [EndTasks(q, S) EXCEPT !.runnable = a, !.blocked = b, !.running = NoTask]
  PROVE  Kept(r, q, S)
<1> DEFINE F == {t \in S : q.tk[t].op = "ffi" /\ q.tk[t].ffi # "none"}
<1>1. PICK p : p = Release(q, S, {}, F)
  OBVIOUS
<1>2. Kept(p, q, S)
  BY <1>1, ReleaseRoots
<1>3. PICK k, s, n : p = [q EXCEPT !.tk = k, !.sc = s, !.events = n]
  BY <1>1 DEF Release
<1>4. r = [p EXCEPT !.runnable = a, !.blocked = b, !.running = NoTask]
  BY <1>1 DEF EndTasks
<1>5. r.sc = p.sc /\ r.tk = p.tk /\ r.foreground = p.foreground /\ r.up = p.up
  BY <1>3, <1>4 DEF MachineType
<1>6. QED
  BY <1>2, <1>5, KeptBySame

LEMMA AbortQueuedTasksRoots ==
  ASSUME NEW q \in MachineType, NEW r, r = AbortQueuedTasks(q)
  PROVE  Kept(r, q, Queued(q))
  BY EndTasksRoots DEF AbortQueuedTasks

LEMMA EndRunningRoots ==
  ASSUME NEW q \in MachineType, NEW r, r = EndRunning(q)
  PROVE  Kept(r, q, {q.running})
<1> DEFINE F == {t \in {q.running} : q.tk[t].op = "ffi" /\ q.tk[t].ffi # "none"}
<1>1. PICK p : p = Release(q, {q.running}, {}, F)
  OBVIOUS
<1>2. Kept(p, q, {q.running})
  BY <1>1, ReleaseRoots
<1>3. PICK k, s, n : p = [q EXCEPT !.tk = k, !.sc = s, !.events = n]
  BY <1>1 DEF Release
<1>4. r = [p EXCEPT !.running = NoTask]
  BY <1>1 DEF EndRunning, EndTasks
<1>5. r.sc = p.sc /\ r.tk = p.tk /\ r.foreground = p.foreground /\ r.up = p.up
  BY <1>3, <1>4 DEF MachineType
<1>6. QED
  BY <1>2, <1>5, KeptBySame

LEMMA FailRunRoots ==
  ASSUME NEW q, MachineInv(q), q.running # NoTask, NEW r, r = AbortQueuedTasks(EndRunning(q))
  PROVE  Kept(r, q, Tasks)
<1>1. PICK p : p = EndRunning(q)
  OBVIOUS
<1>2. q \in MachineType /\ p \in MachineType
  BY <1>1, EndRunningKeepsInv DEF MachineInv, Books
<1>3. Kept(p, q, {q.running}) /\ Kept(r, p, Queued(p))
  BY <1>1, <1>2, EndRunningRoots, AbortQueuedTasksRoots
<1>4. QED
  BY <1>3 DEF Kept, Roots, EndsOnly

LEMMA WakeBlockedRoots ==
  ASSUME NEW q, MachineInv(q), q.running = NoTask, NEW r, r = WakeBlocked(q)
  PROVE  Kept(r, q, {})
<1>1. PICK X, F : Similar(r, Release(q, {}, X, F))
  BY WakeBlockedKeepsInv
<1>2. PICK p : p = Release(q, {}, X, F)
  OBVIOUS
<1>3. Kept(p, q, {}) /\ Kept(r, p, {})
  BY <1>1, <1>2, ReleaseRoots, SimilarKept DEF MachineInv, Books
<1>4. QED
  BY <1>3 DEF Kept, Roots, EndsOnly

\* What ends the machine publishes what is left as cancelled.
LEMMA FinishRunRoots ==
  ASSUME NEW q, MachineInv(q), q.running = NoTask, NEW r, r = FinishRun(q)
  PROVE  /\ Roots(r, q, OpenScopes(q), "canceled")
         /\ ~r.up /\ r.foreground = NoExec /\ OpenScopes(r) = {}
<1> DEFINE C    == IF q.up THEN OpenScopes(q) ELSE {}
           ours == UNION {TasksOf(q, e) : e \in C}
           gone == Queued(q) \cap ours
<1>1. PICK p : p = PublishCanceled(q, C, "canceled")
  OBVIOUS
<1>2. PICK s : s = Release(p, gone, AllTimers(q), AllFFICalls(q))
  OBVIOUS
<1>3. r = Down(s)
  BY <1>1, <1>2 DEF FinishRun
<1>c. C = OpenScopes(q) /\ \A e \in C : q.sc[e].status = "open"
  BY DEF MachineInv, Lifetime, OpenScopes
<1> HIDE DEF C, ours, gone
<1>4. q \in MachineType /\ p \in MachineType
  BY <1>1, PublishCanceledKeepsBooks DEF MachineInv, Books, RootStates
<1>5. Roots(p, q, C, "canceled")
  BY <1>1, <1>4, <1>c, PublishCanceledRoots DEF RootStates
<1>6. Kept(s, p, gone)
  BY <1>2, <1>4, ReleaseRoots
<1>7. PICK k, w, n : s = [p EXCEPT !.tk = k, !.sc = w, !.events = n]
  BY <1>2 DEF Release
<1>8. r.sc = s.sc /\ r.up = FALSE /\ r.foreground = NoExec
  BY <1>3, <1>4, <1>7 DEF Down, MachineType
<1>9. Roots(r, p, {}, "canceled")
  BY <1>6, <1>8 DEF Kept, Roots
<1>10. Roots(r, q, C, "canceled")
  BY <1>5, <1>9, RootsThenNothing
<1>11. OpenScopes(r) = {}
  <2>1. MachineInv(r)
    BY FinishRunKeepsInv
  <2>2. QED
    BY <1>8, <2>1 DEF MachineInv, Lifetime
<1>12. QED
  BY <1>8, <1>10, <1>11, <1>c

LEMMA FinishForegroundRoots ==
  ASSUME NEW q \in MachineType, NEW r, r = FinishForeground(q)
  PROVE  r.sc = q.sc /\ r.tk = q.tk /\ r.foreground = NoExec /\ (r.up => q.up)
<1>1. \/ r = [q EXCEPT !.foreground = NoExec]
      \/ r = [q EXCEPT !.up = FALSE, !.foreground = NoExec, !.running = NoTask,
                       !.runnable = EmptyQueue, !.blocked = EmptyQueue]
  BY DEF FinishForeground, Down
<1>2. QED
  BY <1>1 DEF MachineType

LEMMA PublishScopeRootRoots ==
  ASSUME NEW q \in MachineType, NEW x \in Execs \cup {NoExec}, NEW state \in RootStates,
         NEW r, r = PublishScopeRoot(q, x, state)
  PROVE  /\ Roots(r, q, {x}, state)
         /\ r.tk = q.tk /\ r.foreground = q.foreground /\ r.up = q.up
<1>1. CASE x = NoExec \/ q.sc[x].status # "open" \/ q.sc[x].published
  <2>1. r = q
    BY <1>1 DEF PublishScopeRoot
  <2>2. x \notin Execs \/ q.sc[x].status # "open" \/ q.sc[x].published
    BY <1>1, ExecsAssumption
  <2>3. QED
    BY <2>1, <2>2 DEF Roots
<1>2. CASE ~(x = NoExec \/ q.sc[x].status # "open" \/ q.sc[x].published)
  <2>1. /\ x \in Execs /\ q.sc[x].status = "open" /\ ~q.sc[x].published
        /\ r = [q EXCEPT !.sc[x] = SettleScope([@ EXCEPT !.published = TRUE, !.rootState = state])]
    BY <1>2 DEF PublishScopeRoot
  <2>2. PICK old : old = q.sc[x]
    OBVIOUS
  <2>3. PICK s : s = [old EXCEPT !.published = TRUE, !.rootState = state]
    OBVIOUS
  <2>4. old \in ScopeType
    BY <2>1, <2>2 DEF MachineType
  <2>5. /\ s \in ScopeType /\ s.status = "open" /\ s.published = TRUE /\ s.rootState = state
    BY <2>1, <2>2, <2>3, <2>4 DEF ScopeType, RootStates
  <2>6. PICK z : z = SettleScope(s)
    OBVIOUS
  <2>7. /\ z.published = TRUE /\ z.rootState = state /\ z.status \in {"open", "settled"}
    BY <2>5, <2>6, SettleScopeRoot
  <2>8. r = [q EXCEPT !.sc = [q.sc EXCEPT ![x] = z]]
    BY <2>1, <2>2, <2>3, <2>6 DEF MachineType
  <2>9. /\ r.tk = q.tk /\ r.foreground = q.foreground /\ r.up = q.up
        /\ r.sc = [q.sc EXCEPT ![x] = z]
    BY <2>8 DEF MachineType
  <2>10. r.sc[x] = z /\ \A e \in Execs : e # x => r.sc[e] = q.sc[e]
    BY <2>1, <2>9 DEF MachineType
  <2>11. QED
    BY <2>1, <2>7, <2>9, <2>10 DEF Roots
<1>3. QED
  BY <1>1, <1>2

LEMMA PrepareScheduledRoots ==
  ASSUME NEW q \in MachineType, NEW x \in Execs, NEW r, r = PrepareScheduled(q, x)
  PROVE  /\ r.foreground = x /\ r.up
         /\ r.sc[x].status = "open" /\ ~r.sc[x].published
         /\ \A e \in Execs : e # x => r.sc[e] = q.sc[e]
<1>1. PICK s : s = [NoScope EXCEPT !.status = "open", !.root = q.nextID, !.tasks = 1]
  OBVIOUS
<1>2. PICK k, n, w : r = [q EXCEPT !.up = TRUE, !.foreground = x, !.nextID = n,
                                   !.sc = [q.sc EXCEPT ![x] = s], !.tk = k, !.runnable = w]
  <2>1. PICK k : k = [q.tk EXCEPT ![q.nextID] = [FreeTask EXCEPT !.scope = x, !.state = "live"]]
    OBVIOUS
  <2>2. r = [q EXCEPT !.up = TRUE, !.foreground = x, !.nextID = q.nextID + 1,
                      !.sc = [q.sc EXCEPT ![x] = s], !.tk = k,
                      !.runnable = PushBack(q.runnable, q.nextID)]
    BY <1>1, <2>1 DEF PrepareScheduled, MachineType
  <2>3. QED
    BY <2>2
<1>3. r.foreground = x /\ r.up = TRUE /\ r.sc = [q.sc EXCEPT ![x] = s]
  BY <1>2 DEF MachineType
<1>4. r.sc[x] = s /\ \A e \in Execs : e # x => r.sc[e] = q.sc[e]
  BY <1>3 DEF MachineType
<1>5. s.status = "open" /\ ~s.published
  BY <1>1 DEF NoScope
<1>6. QED
  BY <1>3, <1>4, <1>5

-----------------------------------------------------------------------------
(* The foreground and its root                                             *)

\* The state a handle publishes for the outcome of a run.
StateOf(out) == IF out \in {"limited", "lost"} THEN "failed" ELSE out

\* The foreground scope is open and its root has not ended; every other open
\* scope is a library's and has published its root.
OneUnpublished(q) ==
  /\ q.foreground # NoExec => q.foreground \in OpenScopes(q) /\ ~q.sc[q.foreground].published
  /\ \A e \in OpenScopes(q) : e # q.foreground => q.sc[e].published /\ e \notin Programs

\* r has the roots and the foreground of q.
Quiet(r, q) == Roots(r, q, {}, "canceled") /\ r.foreground = q.foreground /\ (r.up => q.up)

\* The foreground of q has published its root as state and is gone.
Gone(r, q, state) ==
  /\ q.foreground \in Execs /\ r.foreground = NoExec /\ (r.up => q.up)
  /\ Roots(r, q, {q.foreground}, state)
  /\ q.foreground \in OpenScopes(r) => q.foreground \notin Programs

LEMMA KeptIsQuiet ==
  ASSUME NEW q, NEW r, NEW S, Kept(r, q, S)
  PROVE  Quiet(r, q)
  BY DEF Kept, Quiet

LEMMA QuietKeepsOne ==
  ASSUME NEW q, NEW r, OneUnpublished(q), Quiet(r, q)
  PROVE  OneUnpublished(r)
<1>1. \A e \in Execs : /\ r.sc[e].published = q.sc[e].published
                       /\ q.sc[e].status # "open" => r.sc[e].status # "open"
                       /\ q.sc[e].status = "open" /\ ~q.sc[e].published => r.sc[e].status = "open"
  BY DEF Quiet, Roots
<1>2. r.foreground = q.foreground
  BY DEF Quiet
<1>3. QED
  BY <1>1, <1>2 DEF OneUnpublished, OpenScopes

LEMMA GoneKeepsOne ==
  ASSUME NEW q, NEW r, NEW state, OneUnpublished(q), Gone(r, q, state)
  PROVE  /\ OneUnpublished(r)
         /\ r.sc[q.foreground].published /\ r.sc[q.foreground].rootState = state
         /\ r.sc[q.foreground].status # "none"
<1>1. q.foreground \in Execs /\ q.sc[q.foreground].status = "open" /\ ~q.sc[q.foreground].published
      /\ q.foreground # NoExec
  BY ExecsAssumption DEF OneUnpublished, Gone, OpenScopes
<1>2. /\ r.sc[q.foreground].published /\ r.sc[q.foreground].rootState = state
      /\ r.sc[q.foreground].status \in {"open", "settled"}
  BY <1>1 DEF Gone, Roots
<1>3. ASSUME NEW e \in OpenScopes(r) PROVE r.sc[e].published /\ e \notin Programs
  <2>1. e \in Execs /\ r.sc[e].status = "open"
    BY <1>3 DEF OpenScopes
  <2>2. CASE e = q.foreground
    BY <1>2, <1>3, <2>2 DEF Gone
  <2>3. CASE e # q.foreground
    <3>1. q.sc[e].status = "open" /\ r.sc[e].published = q.sc[e].published
      BY <2>1, <2>3 DEF Gone, Roots
    <3>2. QED
      BY <2>1, <2>3, <3>1 DEF OneUnpublished, OpenScopes
  <2>4. QED
    BY <2>2, <2>3
<1>4. r.foreground = NoExec
  BY DEF Gone
<1>5. QED
  BY <1>2, <1>3, <1>4 DEF OneUnpublished

\* What publishes no root but those of published scopes and the foreground.
LEMMA OnlyForegroundPublishes ==
  ASSUME NEW q, NEW r, NEW E, NEW state, OneUnpublished(q), Roots(r, q, E, state)
  PROVE  /\ q.foreground \notin E => Roots(r, q, {}, "canceled")
         /\ q.foreground \in E => Roots(r, q, {q.foreground}, state)
<1>1. \A e \in Execs : e # q.foreground /\ q.sc[e].status = "open" => q.sc[e].published
  BY DEF OneUnpublished, OpenScopes
<1>2. QED
  BY <1>1 DEF Roots

\* Two steps in a row.
LEMMA QuietQuiet ==
  ASSUME NEW q, NEW p, NEW r, Quiet(p, q), Quiet(r, p)
  PROVE  Quiet(r, q)
  BY DEF Quiet, Roots

LEMMA QuietGone ==
  ASSUME NEW q, NEW p, NEW r, NEW state, Quiet(p, q), Gone(r, p, state)
  PROVE  q.foreground \in Execs /\ r.foreground = NoExec /\ (r.up => q.up)
         /\ Roots(r, q, {q.foreground}, state) /\ Gone(r, q, state)
<1>1. q.foreground = p.foreground
  BY DEF Quiet
<1>2. Roots(r, q, {q.foreground}, state)
  BY <1>1 DEF Quiet, Gone, Roots
<1>3. QED
  BY <1>1, <1>2 DEF Quiet, Gone

LEMMA GoneQuiet ==
  ASSUME NEW q, NEW p, NEW r, NEW state, Gone(p, q, state), Quiet(r, p)
  PROVE  Gone(r, q, state)
<1>1. Roots(r, q, {q.foreground}, state)
  BY DEF Quiet, Gone, Roots
<1>2. q.foreground \in OpenScopes(r) => q.foreground \in OpenScopes(p)
  BY DEF Quiet, Roots, OpenScopes
<1>3. QED
  BY <1>1, <1>2 DEF Quiet, Gone

LEMMA CancelScopesForeground ==
  ASSUME NEW q, MachineInv(q), q.running = NoTask, OneUnpublished(q),
         NEW E, E \subseteq Execs, NEW state \in RootStates, NEW r, r = CancelScopes(q, E, state)
  PROVE  /\ q.foreground \in E => Gone(r, q, state)
         /\ q.foreground \notin E => Quiet(r, q)
         /\ OneUnpublished(r)
<1>1. /\ Roots(r, q, E, state) /\ E \cap OpenScopes(r) = {} /\ r.up = q.up
      /\ r.foreground = (IF q.foreground \in E \cap OpenScopes(q) THEN NoExec ELSE q.foreground)
  <2>1. Cancelled(r, q, E, state)
    BY CancelScopesRoots
  <2>2. QED
    BY <2>1 DEF Cancelled
<1>2. CASE q.foreground \in E
  <2>1. q.foreground \in Execs /\ q.foreground \in OpenScopes(q)
    BY <1>2, ExecsAssumption DEF OneUnpublished
  <2>2. r.foreground = NoExec /\ q.foreground \notin OpenScopes(r)
    BY <1>1, <1>2, <2>1
  <2>3. Roots(r, q, {q.foreground}, state)
    BY <1>1, <1>2, OnlyForegroundPublishes
  <2>4. Gone(r, q, state)
    BY <1>1, <2>1, <2>2, <2>3 DEF Gone
  <2>5. QED
    BY <1>2, <2>4, GoneKeepsOne
<1>3. CASE q.foreground \notin E
  <2>1. Roots(r, q, {}, "canceled")
    BY <1>1, <1>3, OnlyForegroundPublishes
  <2>2. r.foreground = q.foreground
    BY <1>1, <1>3
  <2>3. Quiet(r, q)
    BY <1>1, <2>1, <2>2 DEF Quiet
  <2>4. QED
    BY <1>3, <2>3, QuietKeepsOne
<1>4. QED
  BY <1>2, <1>3

LEMMA FinishRunForeground ==
  ASSUME NEW q, MachineInv(q), q.running = NoTask, OneUnpublished(q), NEW r, r = FinishRun(q)
  PROVE  /\ q.foreground # NoExec => Gone(r, q, "canceled")
         /\ q.foreground = NoExec => Quiet(r, q)
         /\ ~r.up
<1>1. /\ Roots(r, q, OpenScopes(q), "canceled")
      /\ ~r.up /\ r.foreground = NoExec /\ OpenScopes(r) = {}
  BY FinishRunRoots
<1>2. CASE q.foreground # NoExec
  <2>1. q.foreground \in OpenScopes(q) /\ q.foreground \in Execs
    BY <1>2 DEF OneUnpublished, OpenScopes
  <2>2. Roots(r, q, {q.foreground}, "canceled")
    BY <1>1, <2>1, OnlyForegroundPublishes
  <2>3. QED
    BY <1>1, <1>2, <2>1, <2>2 DEF Gone
<1>3. CASE q.foreground = NoExec
  <2>1. q.foreground \notin OpenScopes(q)
    BY <1>3, ExecsAssumption DEF OpenScopes
  <2>2. Roots(r, q, {}, "canceled")
    BY <1>1, <2>1, OnlyForegroundPublishes
  <2>3. QED
    BY <1>1, <1>3, <2>2 DEF Quiet
<1>4. QED
  BY <1>1, <1>2, <1>3

-----------------------------------------------------------------------------
(* A run publishes a root only when it returns                             *)

\* What machine.run does to the roots.
RunRoots ==
  \/ Quiet(m', m)
  \/ /\ phase' = "return" /\ outcome' \in {"canceled", "failed", "limited"}
     /\ Gone(m', m, StateOf(outcome'))

LEMMA FailRunQuiet ==
  ASSUME MachineInv(m), m.running # NoTask, NEW out, FailRun(out)
  PROVE  Quiet(m', m)
  BY FailRunRoots, KeptIsQuiet DEF FailRun

LEMMA EndScopeRoots ==
  ASSUME MachineInv(m), m.running # NoTask, OneUnpublished(m),
         NEW q, MachineInv(q), SameRun(q, m),
         NEW state \in RootStates, NEW out \in {"canceled", "failed", "limited"},
         state = StateOf(out), EndScope(q, state, out)
  PROVE  RunRoots
<1>1. /\ m' = CancelScopes(EndRunning(q), {Scope(m)}, state)
      /\ m.foreground = Scope(m) => phase' = "return" /\ outcome' = out
  BY DEF EndScope, Return
<1>2. PICK p : p = EndRunning(q)
  OBVIOUS
<1>3. q.running # NoTask /\ Similar(q, m)
  BY DEF SameRun
<1>4. MachineInv(p) /\ p.running = NoTask
  BY <1>2, <1>3, EndRunningKeepsInv
<1>5. Quiet(p, m)
  <2>1. Kept(p, q, {q.running}) /\ Kept(q, m, {})
    BY <1>2, <1>3, EndRunningRoots, SimilarKept DEF MachineInv, Books
  <2>2. QED
    BY <2>1, KeptIsQuiet, QuietQuiet
<1>6. OneUnpublished(p) /\ p.foreground = m.foreground
  BY <1>5, QuietKeepsOne DEF Quiet
<1>7. Scope(m) \in Execs
  BY RunningFacts
<1>8. /\ p.foreground \in {Scope(m)} => Gone(m', p, state)
      /\ p.foreground \notin {Scope(m)} => Quiet(m', p)
  <2>1. PICK E : E = {Scope(m)}
    OBVIOUS
  <2>2. E \subseteq Execs /\ m' = CancelScopes(p, E, state)
    BY <1>1, <1>2, <1>7, <2>1
  <2>3. QED
    BY <1>4, <1>6, <2>1, <2>2, CancelScopesForeground
<1>9. CASE m.foreground = Scope(m)
  <2>1. Gone(m', m, state)
    BY <1>5, <1>6, <1>8, <1>9, QuietGone
  <2>2. QED
    BY <1>1, <1>9, <2>1 DEF RunRoots
<1>10. CASE m.foreground # Scope(m)
  <2>1. Quiet(m', m)
    BY <1>5, <1>6, <1>8, <1>10, QuietQuiet
  <2>2. QED
    BY <2>1 DEF RunRoots
<1>11. QED
  BY <1>9, <1>10

LEMMA IdleStepRoots ==
  ASSUME MachineInv(m), RunsInLoop, OneUnpublished(m), RunBegin \/ RunPick \/ RunIdle \/ RunWake
  PROVE  RunRoots
<1>0. m.running = NoTask
  BY DEF RunsInLoop, RunBegin, RunPick, RunIdle, RunWake
<1>1. CASE RunBegin
  <2>1. PICK E : E = Requested(m)
    OBVIOUS
  <2>2. PICK c : c = CancelScopes(m, E, "canceled")
    OBVIOUS
  <2>3. E \subseteq Execs /\ "canceled" \in RootStates
    BY <2>1 DEF Requested, OpenScopes, RootStates
  <2>4. /\ m.foreground \in E => Gone(c, m, "canceled")
        /\ m.foreground \notin E => Quiet(c, m)
    BY <1>0, <2>2, <2>3, CancelScopesForeground
  <2>5. MachineInv(c)
    BY <2>2, <2>3, CancelScopesKeepsInv
  <2>6. m' = [c EXCEPT !.attempts = 0]
    BY <1>1, <2>1, <2>2 DEF RunBegin
  <2>7. m.foreground \in E => phase' = "return" /\ outcome' = "canceled"
    BY <1>1, <2>1 DEF RunBegin, Return
  <2>8. m'.sc = c.sc /\ m'.foreground = c.foreground /\ m'.up = c.up
    BY <2>5, <2>6 DEF MachineInv, Books, MachineType
  <2>9. Quiet(m', c)
    BY <2>8 DEF Quiet, Roots
  <2>10. CASE m.foreground \in E
    <3>1. Gone(m', m, "canceled")
      BY <2>4, <2>9, <2>10, GoneQuiet
    <3>2. QED
      BY <2>7, <2>10, <3>1 DEF RunRoots, StateOf
  <2>11. CASE m.foreground \notin E
    <3>1. Quiet(m', m)
      BY <2>4, <2>9, <2>11, QuietQuiet
    <3>2. QED
      BY <3>1 DEF RunRoots
  <2>12. QED
    BY <2>10, <2>11
<1>2. CASE RunPick
  <2>1. PICK t \in Tasks : /\ t \in m.runnable.elems
                           /\ m' = [m EXCEPT !.runnable = Without(@, {t}), !.running = t]
    BY <1>2 DEF RunPick, IsHead
  <2>2. Similar(m', m)
    BY <1>0, <2>1, PickKeepsInv
  <2>3. QED
    BY <2>2, SimilarKept, KeptIsQuiet DEF RunRoots
<1>3. CASE RunIdle \/ RunWake
  <2>1. m' = WakeBlocked(m)
    BY <1>3 DEF RunIdle, RunWake
  <2>2. QED
    BY <1>0, <2>1, WakeBlockedRoots, KeptIsQuiet DEF RunRoots
<1>4. QED
  BY <1>1, <1>2, <1>3

LEMMA StopStepRoots ==
  ASSUME MachineInv(m), RunsInLoop, OneUnpublished(m),
         \/ RunCanceled \/ RunInterrupted \/ RunPollYield \/ RunLimit \/ RunFailCanceled
         \/ RunComplete \/ RunCooperate \/ RunFail
  PROVE  RunRoots
<1>0. m.running # NoTask
  BY DEF RunsInLoop, RunCanceled, RunInterrupted, RunPollYield, RunLimit, RunComplete, RunCooperate, RunFail,
         RunFailCanceled, Execute, Checked, Running
<1>a. /\ "canceled" \in RootStates /\ "failed" \in RootStates
      /\ StateOf("canceled") = "canceled" /\ StateOf("failed") = "failed" /\ StateOf("limited") = "failed"
  BY DEF RootStates, StateOf
<1>b. MachineInv(Attempt(m)) /\ SameRun(Attempt(m), m) /\ SameRun(m, m)
  BY AttemptKeepsInv DEF SameRun, Similar
<1>1. ASSUME NEW out, FailRun(out) PROVE RunRoots
  BY <1>0, <1>1, FailRunQuiet DEF RunRoots
<1>2. CASE RunCanceled
  <2>1. EndScope(m, "canceled", "canceled")
    BY <1>2 DEF RunCanceled
  <2>2. QED
    BY <1>0, <1>a, <1>b, <2>1, EndScopeRoots
<1>3. CASE RunInterrupted \/ RunFail
  BY <1>1, <1>3 DEF RunInterrupted, RunFail
<1>4. CASE RunPollYield
  <2>1. m' = PollYield(m)
    BY <1>4 DEF RunPollYield
  <2>2. Similar(m', m)
    BY <1>0, <2>1, PollYieldKeepsInv
  <2>3. QED
    BY <2>2, SimilarKept, KeptIsQuiet DEF RunRoots
<1>5. CASE RunLimit
  <2>1. FailRun("limited") \/ EndScope(Attempt(m), "failed", "limited")
    BY <1>5 DEF RunLimit
  <2>2. QED
    BY <1>0, <1>1, <1>a, <1>b, <2>1, EndScopeRoots
<1>6. CASE RunFailCanceled
  <2>1. EndScope(Attempt(m), "failed", "failed") \/ EndScope(Attempt(m), "failed", "limited")
    BY <1>6 DEF RunFailCanceled
  <2>2. QED
    BY <1>0, <1>a, <1>b, <2>1, EndScopeRoots
<1>7. CASE RunComplete
  <2>1. m' = AbortQueuedTasks(EndRunning(m)) \/ m' = EndRunning(m)
    BY <1>7 DEF RunComplete
  <2>2. Kept(m', m, Tasks) \/ Kept(m', m, {m.running})
    BY <1>0, <2>1, FailRunRoots, EndRunningRoots DEF MachineInv, Books
  <2>3. QED
    BY <2>2, KeptIsQuiet DEF RunRoots
<1>8. CASE RunCooperate
  <2>1. m' = Cooperate(m)
    BY <1>8 DEF RunCooperate
  <2>2. Similar(m', m)
    BY <1>0, <2>1, CooperateKeepsInv
  <2>3. QED
    BY <2>2, SimilarKept, KeptIsQuiet DEF RunRoots
<1>9. QED
  BY <1>2, <1>3, <1>4, <1>5, <1>6, <1>7, <1>8

LEMMA RunStepRoots ==
  ASSUME MachineInv(m), EventsBounded, RunsInLoop, OneUnpublished(m), RunStep
  PROVE  RunRoots
<1>1. CASE RunCompute \/ RunSpawn \/ RunFFI \/ RunTimer \/ RunReceive \/ RunSend
  <2>1. m.running # NoTask
    BY <1>1 DEF RunsInLoop, RunCompute, RunSpawn, RunFFI, RunTimer, RunReceive, RunSend, Execute, Checked, Running
  <2>2. StaysOrFails
    BY <1>1, ExecuteStepKeeps
  <2>3. Kept(m', m, Tasks)
    BY <2>1, <2>2, SameRootsKept, FailRunRoots DEF StaysOrFails
  <2>4. QED
    BY <2>3, KeptIsQuiet DEF RunRoots
<1>2. QED
  BY <1>1, IdleStepRoots, StopStepRoots DEF RunStep

-----------------------------------------------------------------------------
(* The invariant                                                           *)

\* The active handle is the one that has neither ended nor is still to start.
Handles ==
  /\ \A e \in Execs : est[e] \in {"running", "pending"} <=> active = e
  /\ \A e \in Execs : hpc[e] \in {"idle", "starting"} => est[e] = "none"
  /\ \A e \in Execs : est[e] = "none" => hpc[e] \in {"idle", "starting", "returned"}

\* What host e runs is its own scope, until the run has published its root and
\* returned.
Carried(e) ==
  \/ m.foreground = e
  \/ /\ phase = "return" /\ m.foreground = NoExec
     /\ outcome \in {"canceled", "failed", "limited"}
     /\ m.sc[e].published /\ m.sc[e].rootState = StateOf(outcome)

\* The foreground of the machine is the active handle, but for the host that
\* is running it.
Foreground ==
  /\ owner = Free \/ spc = "run" => m.foreground = active
  /\ spc = "run" => active = NoExec
  /\ \A e \in Execs :
       /\ hpc[e] = "starting" => active = NoExec /\ m.foreground = NoExec
       /\ hpc[e] = "run" => active = e /\ Carried(e)

\* A published root has the state of its handle, but for the host that has yet
\* to capture it.
Agreed ==
  \A e \in Execs :
    m.sc[e].status # "none" /\ m.sc[e].published /\ est[e] # "none" /\ hpc[e] # "run"
      => m.sc[e].rootState = est[e]

\* Who has ended the instance, and what is gone by then.
Ended ==
  /\ interrupt => dpc # "idle"
  /\ dpc # "idle" \/ instDone => ~IsOpen
  /\ instDone \/ dpc \in {"session", "done"} =>
       ~m.up /\ \A e \in Execs : hpc[e] # "starting"

Paired == OneUnpublished(m) /\ Handles /\ Foreground /\ Agreed

HInv == IInv /\ Paired /\ Ended

\* A step that publishes nothing and ends nothing: hosts may move on, and
\* somebody may take or leave the owner word.
LEMMA QuietStep ==
  ASSUME Paired, Quiet(m', m), est' = est, active' = active,
         \A f \in Execs : \/ hpc'[f] = hpc[f]
                          \/ /\ hpc[f] # "run" /\ hpc'[f] \notin {"idle", "starting", "run"}
                             /\ est[f] = "none" => hpc'[f] = "returned",
         owner' = Free \/ spc' = "run" => m.foreground = active,
         spc' = "run" => active = NoExec,
         \A f \in Execs : hpc[f] = "run" =>
            phase # "return" \/ (phase' = phase /\ outcome' = outcome)
  PROVE  Paired'
<1>1. OneUnpublished(m')
  BY QuietKeepsOne DEF Paired
<1>2. Handles'
  BY DEF Paired, Handles
<1>3. /\ m'.foreground = m.foreground
      /\ \A e \in Execs : /\ m'.sc[e].published = m.sc[e].published
                          /\ m'.sc[e].rootState = m.sc[e].rootState
                          /\ m'.sc[e].status # "none" => m.sc[e].status # "none"
  BY DEF Quiet, Roots
<1>4. Foreground'
  <2>1. ASSUME NEW f \in Execs, hpc'[f] = "starting" PROVE active' = NoExec /\ m'.foreground = NoExec
    BY <1>3, <2>1 DEF Paired, Foreground
  <2>2. ASSUME NEW f \in Execs, hpc'[f] = "run" PROVE active' = f /\ Carried(f)'
    <3>1. hpc[f] = "run" /\ active = f /\ Carried(f)
      BY <2>2 DEF Paired, Foreground
    <3>2. CASE m.foreground = f
      BY <1>3, <3>1, <3>2 DEF Carried
    <3>3. CASE m.foreground # f
      BY <1>3, <3>1, <3>3 DEF Carried
    <3>4. QED
      BY <3>2, <3>3
  <2>3. QED
    BY <1>3, <2>1, <2>2 DEF Foreground
<1>5. Agreed'
  BY <1>3 DEF Paired, Agreed
<1>6. QED
  BY <1>1, <1>2, <1>4, <1>5 DEF Paired

\* The active execution ends while nobody runs it: its root and its handle get
\* the same state.
LEMMA GoneStep ==
  ASSUME Paired, TypeOK, NEW state \in Terminal, Gone(m', m, state), active = m.foreground,
         est' = [est EXCEPT ![active] = state], active' = NoExec,
         \A f \in Execs : /\ hpc[f] \notin {"starting", "run"}
                          /\ \/ hpc'[f] = hpc[f]
                             \/ hpc[f] # "idle" /\ hpc'[f] = "returned"
  PROVE  Paired'
<1>1. /\ OneUnpublished(m') /\ m'.foreground = NoExec /\ active \in Execs
      /\ m'.sc[active].published /\ m'.sc[active].rootState = state
  BY GoneKeepsOne DEF Paired, Gone
<1>t. state \notin {"none", "running", "pending"} /\ est \in [Execs -> {"none", "running", "pending"} \cup Terminal]
  BY DEF Terminal, TypeOK
<1>e. est'[active] = state /\ \A f \in Execs : f # active => est'[f] = est[f]
  BY <1>1, <1>t
<1>2. Handles'
  <2>1. ASSUME NEW f \in Execs PROVE est'[f] \notin {"running", "pending"} /\ active' # f
    BY <1>t, <1>e, <2>1, ExecsAssumption DEF Paired, Handles
  <2>2. ASSUME NEW f \in Execs
        PROVE  /\ hpc'[f] \in {"idle", "starting"} => est'[f] = "none"
               /\ est'[f] = "none" => hpc'[f] \in {"idle", "starting", "returned"}
    <3>1. est[active] \in {"running", "pending"} /\ hpc[active] # "idle"
      BY <1>1 DEF Paired, Handles
    <3>2. CASE f = active
      BY <1>t, <1>e, <3>1, <3>2
    <3>3. CASE f # active
      BY <1>e, <3>3 DEF Paired, Handles
    <3>4. QED
      BY <3>2, <3>3
  <2>3. QED
    BY <2>1, <2>2 DEF Handles
<1>3. Foreground'
  BY <1>1 DEF Foreground
<1>4. Agreed'
  <2> SUFFICES ASSUME NEW f \in Execs, m'.sc[f].status # "none", m'.sc[f].published, est'[f] # "none"
               PROVE  m'.sc[f].rootState = est'[f]
    BY DEF Agreed
  <2>1. CASE f = active
    BY <1>1, <1>e, <2>1
  <2>2. CASE f # active
    <3>1. /\ m'.sc[f].published = m.sc[f].published /\ m'.sc[f].rootState = m.sc[f].rootState
          /\ m.sc[f].status # "none" /\ est'[f] = est[f]
      BY <1>e, <2>2 DEF Gone, Roots
    <3>2. QED
      BY <3>1 DEF Paired, Agreed
  <2>3. QED
    BY <2>1, <2>2
<1>5. QED
  BY <1>1, <1>2, <1>3, <1>4 DEF Paired

-----------------------------------------------------------------------------
(* Cancellations that are applied outside a run                            *)

\* The foreground is cancelled with its handle, or nothing of either changes.
Applied ==
  \/ Quiet(m', m) /\ UNCHANGED handles
  \/ /\ Gone(m', m, "canceled") /\ active' = NoExec
     /\ est' = [est EXCEPT ![m.foreground] = "canceled"]
     /\ IF m.foreground \in Programs
        THEN /\ ~m'.up /\ instDone' = TRUE
             /\ lifecycle' = IF IsOpen THEN "closed" ELSE lifecycle
        ELSE instDone' = instDone /\ lifecycle' = lifecycle

LEMMA ApplyRoots ==
  ASSUME MachineInv(m), m.running = NoTask, OneUnpublished(m), instDone \in BOOLEAN,
         ApplyRequestedCancellations
  PROVE  Applied
<1>1. PICK E : E = Requested(m)
  OBVIOUS
<1>2. PICK c : c = CancelScopes(m, E, "canceled")
  OBVIOUS
<1>3. E \subseteq Execs /\ "canceled" \in RootStates
  BY <1>1 DEF Requested, OpenScopes, RootStates
<1>4. /\ m.foreground \in E => Gone(c, m, "canceled")
      /\ m.foreground \notin E => Quiet(c, m)
      /\ OneUnpublished(c)
  BY <1>2, <1>3, CancelScopesForeground
<1>5. MachineInv(c) /\ c.running = NoTask /\ c \in MachineType
  BY <1>2, <1>3, CancelScopesKeepsInv DEF Ends, MachineInv, Books
<1>6. CASE m.up /\ m.foreground \in E
  <2>1. /\ m' = IF m.foreground \in Programs THEN FinishRun(c) ELSE FinishForeground(c)
        /\ Capture(m.foreground, "canceled")
    BY <1>1, <1>2, <1>6 DEF ApplyRequestedCancellations
  <2>2. Gone(c, m, "canceled") /\ c.foreground = NoExec
    BY <1>4, <1>6 DEF Gone
  <2>3. Quiet(m', c) /\ (m.foreground \in Programs => ~m'.up)
    <3>1. CASE m.foreground \in Programs
      <4>1. m' = FinishRun(c)
        BY <2>1, <3>1
      <4>2. QED
        BY <1>4, <1>5, <2>2, <4>1, FinishRunForeground
    <3>2. CASE m.foreground \notin Programs
      <4>1. m' = FinishForeground(c)
        BY <2>1, <3>2
      <4>2. m'.sc = c.sc /\ m'.foreground = NoExec /\ (m'.up => c.up)
        BY <1>5, <4>1, FinishForegroundRoots
      <4>3. QED
        BY <2>2, <3>2, <4>2 DEF Quiet, Roots
    <3>3. QED
      BY <3>1, <3>2
  <2>4. Gone(m', m, "canceled")
    BY <2>2, <2>3, GoneQuiet
  <2>5. /\ active' = NoExec /\ est' = [est EXCEPT ![m.foreground] = "canceled"]
        /\ lifecycle' = IF IsOpen /\ m.foreground \in Programs THEN "closed" ELSE lifecycle
        /\ instDone' = (instDone \/ m.foreground \in Programs)
    <3>1. "canceled" \in Terminal /\ "canceled" \notin {"limited", "lost"} /\ "canceled" # "failed"
          /\ "canceled" # "completed"
      BY DEF Terminal
    <3>2. QED
      BY <2>1, <3>1 DEF Capture
  <2>6. IF m.foreground \in Programs
        THEN /\ ~m'.up /\ instDone' = TRUE
             /\ lifecycle' = IF IsOpen THEN "closed" ELSE lifecycle
        ELSE instDone' = instDone /\ lifecycle' = lifecycle
    <3>1. CASE m.foreground \in Programs
      BY <2>3, <2>5, <3>1
    <3>2. CASE m.foreground \notin Programs
      BY <2>5, <3>2
    <3>3. QED
      BY <3>1, <3>2
  <2>7. QED
    BY <2>4, <2>5, <2>6 DEF Applied
<1>7. CASE ~(m.up /\ m.foreground \in E)
  <2>1. /\ m' = IF m.up THEN c ELSE m
        /\ UNCHANGED handles
    BY <1>1, <1>2, <1>7 DEF ApplyRequestedCancellations
  <2>2. Quiet(m', m)
    <3>1. CASE m.up
      BY <1>4, <1>7, <2>1, <3>1
    <3>2. CASE ~m.up
      BY <2>1, <3>2, KeptItself, KeptIsQuiet
    <3>3. QED
      BY <3>1, <3>2
  <2>3. QED
    BY <2>1, <2>2 DEF Applied
<1>8. QED
  BY <1>6, <1>7

\* ApplyRequestedCancellations by whoever finds the owner word free.
LEMMA AppliedStep ==
  ASSUME IInv, Paired, owner = Free, Applied,
         \A f \in Execs : hpc'[f] = hpc[f] \/ (hpc[f] = "apply" /\ hpc'[f] = "returned"),
         spc' = "run" => active' = NoExec
  PROVE  Paired'
<1>1. TypeOK /\ OwnerHeld /\ phase \in {"off", "begin", "pick", "exec", "wake", "return"}
  BY DEF IInv, TypeOK
<1>2. m.foreground = active /\ \A f \in Execs : hpc[f] \notin {"starting", "run"}
  BY <1>1, FreeMeansOff DEF Paired, Foreground
<1>3. CASE Quiet(m', m) /\ UNCHANGED handles
  <2>1. est' = est /\ active' = active
    BY <1>3 DEF handles
  <2>2. QED
    BY <1>2, <1>3, <2>1, QuietStep
<1>4. CASE Gone(m', m, "canceled") /\ active' = NoExec /\ est' = [est EXCEPT ![m.foreground] = "canceled"]
  BY <1>1, <1>2, <1>4, GoneStep DEF Terminal
<1>5. QED
  BY <1>3, <1>4 DEF Applied

-----------------------------------------------------------------------------
(* Start and Wait                                                          *)

LEMMA StartStep ==
  ASSUME IInv, Paired, NEW e \in Execs, StartEnter(e) \/ StartPrepare(e) \/ StartAbandon(e)
  PROVE  Paired'
<1>h. /\ MachineInv(m) /\ m \in MachineType /\ OwnerHeld /\ Bound
      /\ hpc \in [Execs -> {"idle", "starting", "loop", "select", "poll", "run",
                            "cancel", "signal", "apply", "returned"}]
      /\ est \in [Execs -> {"none", "running", "pending"} \cup Terminal]
      /\ phase \in {"off", "begin", "pick", "exec", "wake", "return"}
  BY DEF IInv, Bound, TypeOK
<1>1. CASE StartEnter(e)
  <2>1. /\ owner = Free /\ hpc[e] = "idle" /\ active = NoExec /\ m.foreground = NoExec
        /\ m' = m /\ est' = est /\ active' = active /\ spc' = spc /\ phase' = phase /\ outcome' = outcome
        /\ hpc' = [hpc EXCEPT ![e] = "starting"] /\ owner' = HostOf(e)
    BY <1>1 DEF StartEnter, handles
  <2>2. spc # "run" /\ \A f \in Execs : hpc[f] \notin {"starting", "run"}
    BY <1>h, <2>1, FreeMeansOff
  <2>3. Handles'
    BY <1>h, <2>1 DEF Paired, Handles
  <2>4. Foreground'
    BY <1>h, <2>1, <2>2, ThreadNames DEF Foreground
  <2>5. Agreed'
    BY <1>h, <2>1, <2>2 DEF Paired, Agreed
  <2>6. QED
    BY <2>1, <2>3, <2>4, <2>5 DEF Paired
<1>2. CASE StartPrepare(e) \/ StartAbandon(e)
  <2>1. hpc[e] = "starting" /\ owner' = Free /\ spc' = spc /\ phase' = phase /\ outcome' = outcome
    BY <1>2 DEF StartPrepare, StartAbandon
  <2>2. /\ phase = "off" /\ spc # "run"
        /\ \A f \in Execs : hpc[f] = "starting" => f = e
        /\ \A f \in Execs : hpc[f] = "run" => f = e
    BY <1>h, <2>1, StartingMeansOff, ThreadNames DEF OwnerHeld
  <2>3. \A f \in Execs : hpc[f] # "run" /\ (f # e => hpc[f] # "starting")
    BY <2>1, <2>2
  <2>4. active = NoExec /\ m.foreground = NoExec /\ est[e] = "none"
    BY <2>1 DEF Paired, Foreground, Handles
  <2>5. PICK p : p = PrepareScheduled(m, e)
    OBVIOUS
  <2>6. /\ p.foreground = e /\ p.sc[e].status = "open" /\ ~p.sc[e].published
        /\ \A f \in Execs : f # e => p.sc[f] = m.sc[f]
    <3>1. m \in MachineType
      BY <1>h
    <3>2. /\ p.foreground = e /\ p.up
          /\ p.sc[e].status = "open" /\ ~p.sc[e].published
          /\ \A f \in Execs : f # e => p.sc[f] = m.sc[f]
      BY <2>5, <3>1, PrepareScheduledRoots
    <3>3. QED
      BY <3>2
  <2>7. OneUnpublished(p)
    <3>1. \A f \in OpenScopes(m) : m.sc[f].published /\ f \notin Programs
      BY <2>4, ExecsAssumption DEF Paired, OneUnpublished, OpenScopes
    <3>2. QED
      BY <2>6, <3>1 DEF OneUnpublished, OpenScopes
  <2>8. CASE StartPrepare(e)
    <3>1. /\ m' = p /\ est' = [est EXCEPT ![e] = "running"] /\ active' = e
          /\ hpc' = [hpc EXCEPT ![e] = "loop"]
      BY <2>5, <2>8 DEF StartPrepare
    <3>2. Handles'
      BY <1>h, <2>4, <3>1, ExecsAssumption DEF Paired, Handles
    <3>3. Foreground'
      BY <1>h, <2>1, <2>2, <2>3, <2>6, <3>1 DEF Foreground
    <3>4. Agreed'
      BY <1>h, <2>3, <2>6, <3>1 DEF Paired, Agreed
    <3>5. QED
      BY <2>7, <3>1, <3>2, <3>3, <3>4 DEF Paired
  <2>9. CASE StartAbandon(e)
    <3>1. /\ m' = FinishForeground(CancelScopes(p, {e}, "canceled")) /\ est' = est /\ active' = active
          /\ hpc' = [hpc EXCEPT ![e] = "returned"]
      BY <2>5, <2>9 DEF StartAbandon, handles
    <3>2. PICK c : c = CancelScopes(p, {e}, "canceled")
      OBVIOUS
    <3>3. m.running = NoTask /\ m.sc[e].status = "none" /\ m.nextID \in Tasks
      BY <1>h, <2>1, <2>2 DEF Bound, RunsInLoop, NotStarted
    <3>4. MachineInv(p) /\ p.running = NoTask
      BY <1>h, <2>5, <3>3, PrepareScheduledKeepsInv
    <3>5. Gone(c, p, "canceled") /\ MachineInv(c)
      <4>1. {e} \subseteq Execs /\ "canceled" \in RootStates /\ p.foreground \in {e}
        BY <2>6 DEF RootStates
      <4>2. QED
        BY <2>7, <3>2, <3>4, <4>1, CancelScopesForeground, CancelScopesKeepsInv
    <3>6. Quiet(m', c)
      <4>1. m'.sc = c.sc /\ m'.foreground = NoExec /\ (m'.up => c.up)
        BY <3>1, <3>2, <3>5, FinishForegroundRoots DEF MachineInv, Books
      <4>2. QED
        BY <3>5, <4>1 DEF Quiet, Gone, Roots
    <3>7. Gone(m', p, "canceled")
      BY <3>5, <3>6, GoneQuiet
    <3>8. OneUnpublished(m') /\ m'.foreground = NoExec
      BY <2>7, <3>7, GoneKeepsOne DEF Gone
    <3>9. \A f \in Execs : f # e => /\ m'.sc[f].published = m.sc[f].published
                                    /\ m'.sc[f].rootState = m.sc[f].rootState
                                    /\ m'.sc[f].status # "none" => m.sc[f].status # "none"
      BY <2>6, <3>7 DEF Gone, Roots
    <3>10. Handles'
      BY <1>h, <2>4, <3>1 DEF Paired, Handles
    <3>11. Foreground'
      BY <1>h, <2>1, <2>2, <2>3, <2>4, <3>1, <3>8 DEF Foreground
    <3>12. Agreed'
      BY <1>h, <2>3, <2>4, <3>1, <3>9 DEF Paired, Agreed
    <3>13. QED
      BY <3>8, <3>10, <3>11, <3>12 DEF Paired
  <2>10. QED
    BY <1>2, <2>8, <2>9
<1>3. QED
  BY <1>1, <1>2


\* A host that only looks, or tells others to look.
LEMMA HostMoveStep ==
  ASSUME IInv, Paired, NEW e \in Execs,
         \/ StartRefused(e) \/ WaitLoop(e) \/ WaitWake(e) \/ WaitContext(e) \/ PollContext(e)
         \/ HostCancel(e) \/ HostCancelSignal(e)
  PROVE  Paired'
<1>h. hpc \in [Execs -> {"idle", "starting", "loop", "select", "poll", "run",
                         "cancel", "signal", "apply", "returned"}]
  BY DEF IInv, TypeOK
<1>1. /\ m' = m /\ est' = est /\ active' = active /\ owner' = owner /\ spc' = spc
      /\ phase' = phase /\ outcome' = outcome
  BY DEF StartRefused, WaitLoop, WaitWake, WaitContext, PollContext, HostCancel, HostCancelSignal, handles
<1>2. \E p \in {"returned", "select", "poll", "cancel", "loop", "signal", "apply"} :
        /\ hpc' = [hpc EXCEPT ![e] = p]
        /\ hpc[e] \in {"idle", "loop", "select", "poll", "cancel", "signal"}
        /\ hpc[e] = "idle" => p = "returned"
  BY DEF StartRefused, WaitLoop, WaitWake, WaitContext, PollContext, HostCancel, HostCancelSignal
<1>3. \A f \in Execs :
         \/ hpc'[f] = hpc[f]
         \/ /\ hpc[f] # "run" /\ hpc'[f] \notin {"idle", "starting", "run"}
            /\ est[f] = "none" => hpc'[f] = "returned"
  BY <1>h, <1>2 DEF Paired, Handles
<1>4. Quiet(m', m)
  BY <1>1, KeptItself, KeptIsQuiet
<1>5. /\ owner' = Free \/ spc' = "run" => m.foreground = active
      /\ spc' = "run" => active = NoExec
  BY <1>1 DEF Paired, Foreground
<1>6. QED
  BY <1>1, <1>3, <1>4, <1>5, QuietStep

\* pollSteps finds the owner word free.
LEMMA PollEnterStep ==
  ASSUME IInv, Paired, NEW e \in Execs, PollEnter(e)
  PROVE  Paired'
<1>h. /\ hpc \in [Execs -> {"idle", "starting", "loop", "select", "poll", "run",
                            "cancel", "signal", "apply", "returned"}]
      /\ est \in [Execs -> {"none", "running", "pending"} \cup Terminal]
      /\ phase \in {"off", "begin", "pick", "exec", "wake", "return"} /\ OwnerHeld
  BY DEF IInv, TypeOK
<1>1. /\ m' = m /\ est' = est /\ active' = active /\ spc' = spc /\ outcome' = outcome
      /\ owner = Free /\ hpc[e] = "poll"
  BY DEF PollEnter, handles
<1>2. phase = "off" /\ spc # "run" /\ \A f \in Execs : hpc[f] \notin {"starting", "run"}
  BY <1>h, <1>1, FreeMeansOff
<1>3. m.foreground = active /\ Quiet(m', m)
  BY <1>1, KeptItself, KeptIsQuiet DEF Paired, Foreground
<1>4. CASE est[e] \in Terminal
  <2>1. /\ \E p \in {"loop", "cancel"} : hpc' = [hpc EXCEPT ![e] = p]
        /\ owner' = owner /\ phase' = phase
    BY <1>4 DEF PollEnter, AfterPoll
  <2>2. est[e] # "none"
    BY <1>1 DEF Paired, Handles
  <2>3. \A f \in Execs :
           \/ hpc'[f] = hpc[f]
           \/ /\ hpc[f] # "run" /\ hpc'[f] \notin {"idle", "starting", "run"}
              /\ est[f] = "none" => hpc'[f] = "returned"
    BY <1>h, <1>1, <2>1, <2>2
  <2>4. QED
    BY <1>1, <1>2, <1>3, <2>1, <2>3, QuietStep
<1>5. CASE est[e] \notin Terminal
  <2>1. hpc' = [hpc EXCEPT ![e] = "run"] /\ owner' = HostOf(e)
    BY <1>5 DEF PollEnter
  <2>2. est[e] \in {"running", "pending"} /\ active = e
    <3>1. est[e] # "none"
      BY <1>1 DEF Paired, Handles
    <3>2. QED
      BY <1>h, <1>5, <3>1 DEF Paired, Handles
  <2>3. Handles'
    BY <1>h, <1>1, <2>1, <2>2 DEF Paired, Handles
  <2>4. Foreground'
    <3>1. \A f \in Execs : /\ hpc'[f] # "starting"
                           /\ hpc'[f] = "run" => f = e
      BY <1>h, <1>2, <2>1
    <3>2. Carried(e)'
      BY <1>1, <1>3, <2>2 DEF Carried
    <3>3. owner' # Free /\ spc' # "run"
      BY <1>1, <1>2, <2>1, ThreadNames
    <3>4. QED
      BY <1>1, <2>2, <3>1, <3>2, <3>3 DEF Foreground
  <2>5. Agreed'
    BY <1>h, <1>1, <1>2, <2>1 DEF Paired, Agreed
  <2>6. QED
    BY <1>1, <2>3, <2>4, <2>5 DEF Paired
<1>6. QED
  BY <1>4, <1>5

\* Cancel has found the owner word free.
LEMMA HostCancelApplyStep ==
  ASSUME IInv, Paired, NEW e \in Execs, HostCancelApply(e)
  PROVE  Paired'
<1>h. /\ MachineInv(m) /\ OwnerHeld /\ RunsInLoop /\ instDone \in BOOLEAN
      /\ hpc \in [Execs -> {"idle", "starting", "loop", "select", "poll", "run",
                            "cancel", "signal", "apply", "returned"}]
      /\ phase \in {"off", "begin", "pick", "exec", "wake", "return"}
  BY DEF IInv, TypeOK
<1>1. /\ owner = Free /\ ApplyRequestedCancellations /\ spc' = spc
      /\ hpc[e] = "apply" /\ hpc' = [hpc EXCEPT ![e] = "returned"]
  BY DEF HostCancelApply
<1>2. phase = "off" /\ spc # "run" /\ m.running = NoTask
  BY <1>h, <1>1, FreeMeansOff DEF RunsInLoop
<1>3. Applied
  BY <1>h, <1>1, <1>2, ApplyRoots DEF Paired
<1>4. \A f \in Execs : hpc'[f] = hpc[f] \/ (hpc[f] = "apply" /\ hpc'[f] = "returned")
  BY <1>h, <1>1
<1>5. QED
  BY <1>1, <1>2, <1>3, <1>4, AppliedStep

-----------------------------------------------------------------------------
(* A run returns to its host                                               *)

\* What FinishRun does once every open scope has published.
LEMMA FinishPublished ==
  ASSUME NEW q, MachineInv(q), q.running = NoTask, NEW r, r = FinishRun(q),
         \A e \in OpenScopes(q) : q.sc[e].published
  PROVE  Roots(r, q, {}, "canceled") /\ ~r.up /\ r.foreground = NoExec /\ OpenScopes(r) = {}
<1>1. Roots(r, q, OpenScopes(q), "canceled") /\ ~r.up /\ r.foreground = NoExec /\ OpenScopes(r) = {}
  BY FinishRunRoots
<1>2. QED
  BY <1>1 DEF Roots, OpenScopes

\* The host takes the outcome of a run that is over: the root of its scope has
\* that state, and the foreground is gone.
LEMMA ReturnedRoots ==
  ASSUME MachineInv(m), m.running = NoTask, OneUnpublished(m), NEW e \in Execs, Carried(e),
         outcome \in {"completed", "canceled", "failed", "limited", "lost"},
         m' = Returned(e, PublishScopeRoot(m, m.foreground, StateOf(outcome)))
  PROVE  /\ OneUnpublished(m') /\ m'.foreground = NoExec /\ (m'.up => m.up)
         /\ m'.sc[e].published /\ m'.sc[e].rootState = StateOf(outcome)
         /\ \A f \in Execs : f # e => /\ m'.sc[f].published = m.sc[f].published
                                      /\ m'.sc[f].rootState = m.sc[f].rootState
                                      /\ m'.sc[f].status # "none" => m.sc[f].status # "none"
         /\ m'.up => e \notin Programs /\ outcome \in {"completed", "canceled", "limited"}
<1>1. PICK state : state = StateOf(outcome)
  OBVIOUS
<1>2. state \in Terminal /\ state \in RootStates
  BY <1>1 DEF StateOf, Terminal, RootStates
<1>3. PICK p : p = PublishScopeRoot(m, m.foreground, state)
  OBVIOUS
<1>4. m \in MachineType /\ m.foreground \in Execs \cup {NoExec}
  BY DEF MachineInv, Books, MachineType
<1>5. Roots(p, m, {m.foreground}, state) /\ p.tk = m.tk /\ p.foreground = m.foreground /\ p.up = m.up
  BY <1>2, <1>3, <1>4, PublishScopeRootRoots
<1>6. MachineInv(p) /\ Ends(p, m)
  BY <1>2, <1>3, <1>4, PublishScopeRootKeepsInv
<1>7. p.running = NoTask /\ p \in MachineType
  BY <1>6 DEF Ends, MachineInv, Books
<1>8. \A f \in OpenScopes(p) : p.sc[f].published
  <2> SUFFICES ASSUME NEW f \in OpenScopes(p) PROVE p.sc[f].published
    OBVIOUS
  <2>1. f \in Execs /\ m.sc[f].status = "open"
    BY <1>5 DEF Roots, OpenScopes
  <2>2. CASE f = m.foreground
    BY <1>5, <2>1, <2>2 DEF Roots
  <2>3. CASE f # m.foreground
    BY <1>5, <2>1, <2>3 DEF Roots, OneUnpublished, OpenScopes
  <2>4. QED
    BY <2>2, <2>3
<1>9. PICK a : a = AbortQueuedTasks(p)
  OBVIOUS
<1>10. MachineInv(a) /\ a.running = NoTask
  BY <1>6, <1>7, <1>9, AbortQueuedTasksKeepsInv DEF Ends
<1>11. Roots(a, p, {}, "canceled") /\ \A f \in OpenScopes(a) : a.sc[f].published
  <2>1. Roots(a, p, {}, "canceled")
    BY <1>7, <1>9, AbortQueuedTasksRoots DEF Kept
  <2>2. QED
    BY <1>8, <2>1 DEF Roots, OpenScopes
<1>12. /\ Roots(m', p, {}, "canceled") /\ m'.foreground = NoExec /\ (m'.up => m.up)
       /\ e \in OpenScopes(m') => e \notin Programs
       /\ m'.up => e \notin Programs /\ outcome \in {"completed", "canceled", "limited"}
  <2>1. \/ m' = FinishRun(p)
        \/ /\ m' = FinishForeground(p) /\ e \notin Programs
           /\ outcome \in {"completed", "canceled", "limited"}
        \/ m' = FinishRun(a)
    BY <1>1, <1>3, <1>9 DEF Returned
  <2>2. CASE m' = FinishRun(p)
    BY <1>6, <1>7, <1>8, <2>2, FinishPublished
  <2>3. CASE /\ m' = FinishForeground(p) /\ e \notin Programs
             /\ outcome \in {"completed", "canceled", "limited"}
    <3>1. m'.sc = p.sc /\ m'.tk = p.tk /\ m'.foreground = NoExec /\ (m'.up => p.up)
      BY <1>7, <2>3, FinishForegroundRoots
    <3>2. QED
      BY <1>5, <2>3, <3>1 DEF Roots
  <2>4. CASE m' = FinishRun(a)
    <3>1. Roots(m', a, {}, "canceled") /\ ~m'.up /\ m'.foreground = NoExec /\ OpenScopes(m') = {}
      BY <1>10, <1>11, <2>4, FinishPublished
    <3>2. Roots(m', p, {}, "canceled")
      BY <1>11, <3>1, RootsAfterKept
    <3>3. QED
      BY <3>1, <3>2
  <2>5. QED
    BY <2>1, <2>2, <2>3, <2>4
<1>13. Roots(m', m, {m.foreground}, state)
  BY <1>5, <1>12, RootsThenNothing
<1>14. CASE m.foreground = e
  <2>1. Gone(m', m, state)
    BY <1>12, <1>13, <1>14 DEF Gone
  <2>2. /\ OneUnpublished(m') /\ m'.sc[e].published /\ m'.sc[e].rootState = state
    BY <1>14, <2>1, GoneKeepsOne
  <2>3. QED
    BY <1>1, <1>12, <1>13, <1>14, <2>2 DEF Roots
<1>15. CASE m.foreground # e
  <2>1. m.foreground = NoExec /\ m.sc[e].published /\ m.sc[e].rootState = state
    BY <1>1, <1>15 DEF Carried
  <2>2. m.foreground \notin Execs
    BY <2>1, ExecsAssumption
  <2>3. Quiet(m', m)
    BY <1>12, <1>13, <2>1, <2>2 DEF Quiet, Roots
  <2>4. OneUnpublished(m')
    BY <2>3, QuietKeepsOne
  <2>5. QED
    BY <1>1, <1>12, <2>1, <2>3, <2>4 DEF Quiet, Roots
<1>16. QED
  BY <1>14, <1>15

LEMMA PollReturnStep ==
  ASSUME IInv, Paired, NEW e \in Execs, PollReturn(e)
  PROVE  Paired'
<1>h. /\ MachineInv(m) /\ OwnerHeld /\ RunsInLoop /\ ReturnsOutcome /\ outcome \in Outcomes
      /\ est \in [Execs -> {"none", "running", "pending"} \cup Terminal]
      /\ hpc \in [Execs -> {"idle", "starting", "loop", "select", "poll", "run",
                            "cancel", "signal", "apply", "returned"}]
  BY DEF IInv, TypeOK
<1>1. /\ hpc[e] = "run" /\ phase = "return" /\ owner' = Free /\ spc' = spc /\ phase' = "off"
      /\ \E p \in {"loop", "cancel"} : hpc' = [hpc EXCEPT ![e] = p]
      /\ Capture(e, outcome)
      /\ m' = Returned(e, PublishScopeRoot(m, m.foreground, StateOf(outcome)))
  BY DEF PollReturn, AfterPoll, StateOf
<1>2. /\ spc # "run" /\ \A f \in Execs : hpc[f] \in {"starting", "run"} => f = e
  BY <1>h, <1>1, OneRuns
<1>3. active = e /\ Carried(e) /\ est[e] \in {"running", "pending"}
  BY <1>1 DEF Paired, Foreground, Handles
<1>4. \A f \in Execs : /\ hpc'[f] \notin {"idle", "starting", "run"} \/ (f # e /\ hpc'[f] = hpc[f])
                       /\ hpc'[f] \notin {"starting", "run"}
                       /\ f # e => hpc'[f] = hpc[f]
  BY <1>h, <1>1, <1>2
<1>5. m.running = NoTask
  BY <1>h, <1>1 DEF RunsInLoop
<1>6. CASE outcome \in {"running", "pending"}
  <2>1. m' = m
    BY <1>1, <1>6 DEF Returned
  <2>2. est' = [est EXCEPT ![e] = outcome] /\ active' = e
    BY <1>1, <1>3, <1>6 DEF Capture, Terminal
  <2>3. m.foreground = e
    BY <1>3, <1>6 DEF Carried
  <2>4. ~m.sc[e].published
    BY <2>3, ExecsAssumption DEF Paired, OneUnpublished
  <2>5. Handles'
    <3>1. \A f \in Execs : f # e => est'[f] = est[f]
      BY <1>h, <2>2
    <3>2. est'[e] = outcome
      BY <1>h, <2>2
    <3>3. \A f \in Execs : est'[f] \in {"running", "pending"} <=> active' = f
      BY <1>3, <1>6, <2>2, <3>1, <3>2 DEF Paired, Handles
    <3>4. \A f \in Execs : /\ hpc'[f] \in {"idle", "starting"} => est'[f] = "none"
                           /\ est'[f] = "none" => hpc'[f] \in {"idle", "starting", "returned"}
      BY <1>4, <1>6, <3>1, <3>2 DEF Paired, Handles
    <3>5. QED
      BY <3>3, <3>4 DEF Handles
  <2>6. Foreground'
    BY <1>1, <1>2, <1>4, <2>1, <2>2, <2>3 DEF Foreground
  <2>7. Agreed'
    <3>1. \A f \in Execs : f # e => est'[f] = est[f] /\ hpc[f] # "run"
      BY <1>h, <1>2, <2>2
    <3>2. QED
      BY <2>1, <2>4, <3>1 DEF Paired, Agreed
  <2>8. QED
    BY <2>1, <2>5, <2>6, <2>7 DEF Paired
<1>7. CASE outcome \notin {"running", "pending"}
  <2>1. outcome \in {"completed", "canceled", "failed", "limited", "lost"}
    BY <1>h, <1>1, <1>7 DEF ReturnsOutcome, Outcomes
  <2>2. PICK state : state = StateOf(outcome)
    OBVIOUS
  <2>3. state \in Terminal /\ state \notin {"none", "running", "pending"}
    BY <2>1, <2>2 DEF StateOf, Terminal
  <2>4. est' = [est EXCEPT ![e] = state] /\ active' = NoExec
    <3>1. est[e] # "canceled"
      BY <1>3
    <3>2. QED
      BY <1>1, <2>1, <2>2, <2>3, <3>1 DEF Capture, StateOf
  <2>5. /\ OneUnpublished(m') /\ m'.foreground = NoExec /\ (m'.up => m.up)
        /\ m'.sc[e].published /\ m'.sc[e].rootState = state
        /\ \A f \in Execs : f # e => /\ m'.sc[f].published = m.sc[f].published
                                     /\ m'.sc[f].rootState = m.sc[f].rootState
                                     /\ m'.sc[f].status # "none" => m.sc[f].status # "none"
    <3>1. /\ OneUnpublished(m') /\ m'.foreground = NoExec /\ (m'.up => m.up)
          /\ m'.sc[e].published /\ m'.sc[e].rootState = StateOf(outcome)
          /\ \A f \in Execs : f # e => /\ m'.sc[f].published = m.sc[f].published
                                       /\ m'.sc[f].rootState = m.sc[f].rootState
                                       /\ m'.sc[f].status # "none" => m.sc[f].status # "none"
          /\ m'.up => e \notin Programs /\ outcome \in {"completed", "canceled", "limited"}
      BY <1>h, <1>1, <1>3, <1>5, <2>1, ReturnedRoots DEF Paired
    <3>2. QED
      BY <2>2, <3>1
  <2>6. est'[e] = state /\ \A f \in Execs : f # e => est'[f] = est[f]
    BY <1>h, <2>4
  <2>7. Handles'
    <3>1. \A f \in Execs : est'[f] \notin {"running", "pending"} /\ active' # f
      BY <1>3, <2>3, <2>4, <2>6, ExecsAssumption DEF Paired, Handles
    <3>2. \A f \in Execs : /\ hpc'[f] \in {"idle", "starting"} => est'[f] = "none"
                           /\ est'[f] = "none" => hpc'[f] \in {"idle", "starting", "returned"}
      BY <1>4, <2>3, <2>6 DEF Paired, Handles
    <3>3. QED
      BY <3>1, <3>2 DEF Handles
  <2>8. Foreground'
    BY <1>1, <1>2, <1>4, <2>4, <2>5 DEF Foreground
  <2>9. Agreed'
    BY <1>2, <2>5, <2>6 DEF Paired, Agreed
  <2>10. QED
    BY <2>5, <2>7, <2>8, <2>9 DEF Paired
<1>8. QED
  BY <1>6, <1>7

-----------------------------------------------------------------------------
(* Everybody but the hosts and the run loop                                *)

LEMMA SuperviseReturnStep ==
  ASSUME IInv, Paired, SuperviseReturn
  PROVE  Paired'
<1>h. MachineInv(m) /\ m \in MachineType /\ OwnerHeld /\ RunsInLoop
  BY DEF IInv, TypeOK
<1>1. /\ spc = "run" /\ phase = "return" /\ spc' = "select" /\ owner' = Free
      /\ est' = est /\ active' = active /\ hpc' = hpc
      /\ m' = FinishRun(AbortQueuedTasks(m)) \/ m' = FinishForeground(m) \/ m' = m
  BY DEF SuperviseReturn
<1>2. m.running = NoTask /\ \A f \in Execs : hpc[f] \notin {"starting", "run"}
  BY <1>h, <1>1, SupervisorRuns DEF RunsInLoop
<1>3. m.foreground = NoExec /\ active = NoExec
  BY <1>1 DEF Paired, Foreground
<1>4. Quiet(m', m)
  <2>1. CASE m' = FinishRun(AbortQueuedTasks(m))
    <3>1. PICK a : a = AbortQueuedTasks(m)
      OBVIOUS
    <3>2. MachineInv(a) /\ a.running = NoTask
      BY <1>h, <1>2, <3>1, AbortQueuedTasksKeepsInv DEF Ends
    <3>3. Quiet(a, m)
      BY <1>h, <3>1, AbortQueuedTasksRoots, KeptIsQuiet
    <3>4. OneUnpublished(a) /\ a.foreground = NoExec
      BY <1>3, <3>3, QuietKeepsOne DEF Paired, Quiet
    <3>5. Quiet(m', a)
      BY <2>1, <3>1, <3>2, <3>4, FinishRunForeground
    <3>6. QED
      BY <3>3, <3>5, QuietQuiet
  <2>2. CASE m' = FinishForeground(m)
    <3>1. m'.sc = m.sc /\ m'.tk = m.tk /\ m'.foreground = NoExec /\ (m'.up => m.up)
      BY <1>h, <2>2, FinishForegroundRoots
    <3>2. QED
      BY <1>3, <3>1 DEF Quiet, Roots
  <2>3. CASE m' = m
    BY <2>3, KeptItself, KeptIsQuiet
  <2>4. QED
    BY <1>1, <2>1, <2>2, <2>3
<1>5. QED
  BY <1>1, <1>2, <1>3, <1>4, QuietStep

LEMMA ShutdownAbortStep ==
  ASSUME IInv, Paired, ShutdownAbort
  PROVE  Paired'
<1>h. /\ MachineInv(m) /\ m \in MachineType /\ OwnerHeld /\ RunsInLoop /\ TypeOK
      /\ est \in [Execs -> {"none", "running", "pending"} \cup Terminal]
      /\ phase \in {"off", "begin", "pick", "exec", "wake", "return"}
  BY DEF IInv, TypeOK
<1>1. /\ owner = Free /\ owner' = owner /\ spc' = spc /\ hpc' = hpc /\ phase' = phase /\ active' = NoExec
      /\ m' = FinishRun(IF m.up THEN AbortQueuedTasks(m) ELSE m)
      /\ est' = [f \in Execs |-> IF f = active /\ est[f] \notin Terminal THEN "canceled" ELSE est[f]]
  BY DEF ShutdownAbort
<1>2. m.running = NoTask /\ spc # "run" /\ \A f \in Execs : hpc[f] \notin {"starting", "run"}
  BY <1>h, <1>1, FreeMeansOff DEF RunsInLoop
<1>3. m.foreground = active
  BY <1>1 DEF Paired, Foreground
<1>4. PICK a : a = IF m.up THEN AbortQueuedTasks(m) ELSE m
  OBVIOUS
<1>5. MachineInv(a) /\ a.running = NoTask /\ Quiet(a, m)
  <2>1. CASE m.up
    <3>1. a = AbortQueuedTasks(m)
      BY <1>4, <2>1
    <3>2. MachineInv(a) /\ a.running = NoTask
      BY <1>h, <1>2, <3>1, AbortQueuedTasksKeepsInv DEF Ends
    <3>3. Quiet(a, m)
      BY <1>h, <3>1, AbortQueuedTasksRoots, KeptIsQuiet
    <3>4. QED
      BY <3>2, <3>3
  <2>2. CASE ~m.up
    BY <1>h, <1>2, <1>4, <2>2, KeptItself, KeptIsQuiet
  <2>3. QED
    BY <2>1, <2>2
<1>6. OneUnpublished(a) /\ a.foreground = m.foreground /\ m' = FinishRun(a)
  BY <1>1, <1>4, <1>5, QuietKeepsOne DEF Paired, Quiet
<1>7. CASE active = NoExec
  <2>1. Quiet(m', m)
    <3>1. Quiet(m', a)
      BY <1>3, <1>5, <1>6, <1>7, FinishRunForeground
    <3>2. QED
      BY <1>5, <3>1, QuietQuiet
  <2>2. est' = est
    <3>1. \A f \in Execs : f # active
      BY <1>7, ExecsAssumption
    <3>2. QED
      BY <1>h, <1>1, <3>1
  <2>3. QED
    BY <1>1, <1>2, <1>3, <1>7, <2>1, <2>2, QuietStep
<1>8. CASE active # NoExec
  <2>1. Gone(m', m, "canceled")
    <3>1. Gone(m', a, "canceled")
      BY <1>3, <1>5, <1>6, <1>8, FinishRunForeground
    <3>2. QED
      BY <1>5, <3>1, QuietGone
  <2>2. est' = [est EXCEPT ![active] = "canceled"]
    <3>1. active \in Execs /\ est[active] \in {"running", "pending"}
      BY <1>3, <2>1 DEF Gone, Paired, Handles
    <3>2. est[active] \notin Terminal
      BY <3>1 DEF Terminal
    <3>3. QED
      BY <1>h, <1>1, <3>1, <3>2
  <2>3. \A f \in Execs : /\ hpc[f] \notin {"starting", "run"}
                         /\ \/ hpc'[f] = hpc[f]
                            \/ hpc[f] # "idle" /\ hpc'[f] = "returned"
    BY <1>1, <1>2
  <2>4. QED
    BY <1>h, <1>1, <1>3, <2>1, <2>2, <2>3, GoneStep DEF Terminal
<1>9. QED
  BY <1>7, <1>8

LEMMA OtherHandlesStep ==
  ASSUME IInv, Paired, OtherStep
  PROVE  Paired'
<1>h. /\ MachineInv(m) /\ OwnerHeld /\ RunsInLoop /\ Bound /\ instDone \in BOOLEAN
      /\ phase \in {"off", "begin", "pick", "exec", "wake", "return"}
  BY DEF IInv, TypeOK, Bound
<1>f. owner = Free => m.running = NoTask
  BY <1>h, FreeMeansOff DEF RunsInLoop
<1>u. /\ owner = Free \/ spc = "run" => m.foreground = active
      /\ spc = "run" => active = NoExec
  BY DEF Paired, Foreground
<1>s. Quiet(m, m)
  BY KeptItself, KeptIsQuiet
<1>q. ASSUME Quiet(m', m), est' = est, active' = active, hpc' = hpc, owner' = owner,
             spc' = spc \/ spc' # "run", phase' = phase, outcome' = outcome
      PROVE  Paired'
  BY <1>q, <1>u, QuietStep
<1>1. ASSUME NEW e \in Execs, ContextEnds(e) \/ RequestCancel(e) \/ RequestSignal(e) PROVE Paired'
  BY <1>1, <1>q, <1>s DEF ContextEnds, RequestCancel, RequestSignal, threads, handles
<1>2. ASSUME NEW e \in Execs, CancelApply(e) PROVE Paired'
  <2>1. owner = Free /\ ApplyRequestedCancellations /\ hpc' = hpc /\ spc' = spc
    BY <1>2 DEF CancelApply
  <2>2. Applied
    BY <1>h, <1>f, <2>1, ApplyRoots DEF Paired
  <2>3. spc' # "run"
    BY <1>h, <2>1, FreeMeansOff
  <2>4. QED
    BY <2>1, <2>2, <2>3, AppliedStep
<1>3. CASE SuperviseWake \/ SuperviseExit \/ ShutdownBegin \/ ShutdownInterrupt \/ ShutdownFinish
           \/ CompletionSignal
  <2>1. /\ m' = m /\ est' = est /\ active' = active /\ hpc' = hpc /\ owner' = owner
        /\ spc' = spc \/ spc' # "run"
        /\ phase' = phase /\ outcome' = outcome
    BY <1>3 DEF SuperviseWake, SuperviseExit, ShutdownBegin, ShutdownInterrupt, ShutdownFinish, CompletionSignal,
                threads, handles
  <2>2. QED
    BY <1>q, <1>s, <2>1
<1>4. CASE SuperviseEnter
  <2>1. owner = Free /\ hpc' = hpc /\ outcome' = outcome
    BY <1>4 DEF SuperviseEnter
  <2>2. CASE IsOpen /\ m.up
    <3>1. ApplyRequestedCancellations /\ (spc' = "run" => active' = NoExec)
      BY <1>4, <2>2 DEF SuperviseEnter
    <3>2. Applied
      BY <1>h, <1>f, <2>1, <3>1, ApplyRoots DEF Paired
    <3>3. QED
      BY <2>1, <3>1, <3>2, AppliedStep
  <2>3. CASE ~(IsOpen /\ m.up)
    <3>1. /\ m' = m /\ est' = est /\ active' = active /\ owner' = owner /\ spc' # "run" /\ phase' = phase
      BY <1>4, <2>3 DEF SuperviseEnter, handles
    <3>2. QED
      BY <1>q, <1>s, <2>1, <3>1
  <2>4. QED
    BY <2>2, <2>3
<1>5. ASSUME NEW t \in Tasks, FFIComplete(t) \/ TimerFire(t) PROVE Paired'
  <2>1. Similar(m', m)
    BY <1>h, <1>5, CompletionKeeps
  <2>2. Quiet(m', m)
    BY <2>1, SimilarKept, KeptIsQuiet
  <2>3. /\ est' = est /\ active' = active /\ hpc' = hpc /\ owner' = owner /\ spc' = spc
        /\ phase' = phase /\ outcome' = outcome
    BY <1>5 DEF FFIComplete, TimerFire, threads, handles
  <2>4. QED
    BY <1>q, <2>2, <2>3
<1>6. QED
  BY <1>1, <1>2, <1>3, <1>4, <1>5, SuperviseReturnStep, ShutdownAbortStep
     DEF OtherStep, SupervisorStep, ShutdownStep

LEMMA RunHandlesStep ==
  ASSUME IInv, Paired, RunStep
  PROVE  Paired'
<1>h. MachineInv(m) /\ EventsBounded /\ RunsInLoop /\ OwnerHeld
  BY DEF IInv
<1>1. /\ phase \in {"begin", "pick", "exec", "wake"}
      /\ est' = est /\ active' = active /\ hpc' = hpc /\ owner' = owner /\ spc' = spc
  BY RunPhases DEF rest, handles, threads
<1>2. \/ spc = "run" /\ \A f \in Execs : hpc[f] \notin {"starting", "run"}
      \/ \E e \in Execs : /\ hpc[e] = "run" /\ spc # "run" /\ owner # Free
                          /\ \A f \in Execs : hpc[f] \in {"starting", "run"} => f = e
  <2>1. phase # "off"
    BY <1>1
  <2>2. spc = "run" \/ \E e \in Execs : hpc[e] = "run"
    BY <1>h, <2>1 DEF OwnerHeld
  <2>3. CASE spc = "run"
    BY <1>h, <2>3, SupervisorRuns
  <2>4. CASE \E e \in Execs : hpc[e] = "run"
    <3>1. PICK e \in Execs : hpc[e] = "run"
      BY <2>4
    <3>2. spc # "run" /\ owner = HostOf(e) /\ \A f \in Execs : hpc[f] \in {"starting", "run"} => f = e
      BY <1>h, <3>1, OneRuns
    <3>3. owner # Free
      BY <3>2, ThreadNames
    <3>4. QED
      BY <3>1, <3>2, <3>3
  <2>5. QED
    BY <2>2, <2>3, <2>4
<1>3. RunRoots
  BY <1>h, RunStepRoots DEF Paired
<1>4. CASE Quiet(m', m)
  <2>1. /\ owner' = Free \/ spc' = "run" => m.foreground = active
        /\ spc' = "run" => active = NoExec
    BY <1>1 DEF Paired, Foreground
  <2>2. QED
    BY <1>1, <1>4, <2>1, QuietStep
<1>5. CASE /\ phase' = "return" /\ outcome' \in {"canceled", "failed", "limited"}
           /\ Gone(m', m, StateOf(outcome'))
  <2>1. PICK state : state = StateOf(outcome')
    OBVIOUS
  <2>2. Gone(m', m, state)
    BY <1>5, <2>1
  <2>3. PICK e \in Execs : /\ hpc[e] = "run" /\ spc # "run" /\ owner # Free
                           /\ \A f \in Execs : hpc[f] \in {"starting", "run"} => f = e
    <3>1. CASE spc = "run"
      <4>1. m.foreground = NoExec
        BY <3>1 DEF Paired, Foreground
      <4>2. QED
        BY <2>2, <4>1, ExecsAssumption DEF Gone
    <3>2. QED
      BY <1>2, <3>1
  <2>4. m.foreground = e /\ active = e
    BY <1>1, <2>3 DEF Paired, Foreground, Carried
  <2>5. /\ OneUnpublished(m') /\ m'.foreground = NoExec
        /\ m'.sc[e].published /\ m'.sc[e].rootState = state
    BY <2>2, <2>4, GoneKeepsOne DEF Paired, Gone
  <2>6. Handles'
    BY <1>1 DEF Paired, Handles
  <2>7. Foreground'
    <3>1. Carried(e)'
      BY <1>5, <2>1, <2>5 DEF Carried
    <3>2. \A f \in Execs : hpc'[f] # "starting" /\ (hpc'[f] = "run" => f = e)
      BY <1>1, <2>3
    <3>3. QED
      BY <1>1, <2>3, <2>4, <3>1, <3>2 DEF Foreground
  <2>8. Agreed'
    <3>1. \A f \in Execs : f # e => /\ m'.sc[f].published = m.sc[f].published
                                    /\ m'.sc[f].rootState = m.sc[f].rootState
                                    /\ m'.sc[f].status # "none" => m.sc[f].status # "none"
      BY <2>2, <2>4 DEF Gone, Roots
    <3>2. QED
      BY <1>1, <2>3, <3>1 DEF Paired, Agreed
  <2>9. QED
    BY <2>5, <2>6, <2>7, <2>8 DEF Paired
<1>6. QED
  BY <1>3, <1>4, <1>5 DEF RunRoots

\* No step separates a handle from the scope it stands for.
LEMMA PairedStep ==
  ASSUME IInv, Paired, Next
  PROVE  Paired'
<1>1. \/ \E e \in Execs : StartEnter(e) \/ StartRefused(e) \/ HostStep(e)
      \/ OtherStep
      \/ RunStep
  BY DEF Next, Progress, Request, OtherStep
<1>2. ASSUME NEW e \in Execs, StartEnter(e) \/ StartRefused(e) \/ HostStep(e) PROVE Paired'
  BY <1>2, StartStep, HostMoveStep, PollEnterStep, PollReturnStep, HostCancelApplyStep DEF HostStep
<1>3. QED
  BY <1>1, <1>2, OtherHandlesStep, RunHandlesStep

-----------------------------------------------------------------------------
(* How an instance ends                                                    *)

\* Nobody ends the instance or begins a start, and the machine does not come up.
LEMMA EndedStays ==
  ASSUME Ended, dpc' = dpc, instDone' = instDone, lifecycle' = lifecycle,
         interrupt' => interrupt, m'.up => m.up,
         \A f \in Execs : hpc'[f] = "starting" => hpc[f] = "starting"
  PROVE  Ended'
  BY DEF Ended, IsOpen

LEMMA EndedApply ==
  ASSUME IInv, Ended, owner = Free, Applied, dpc' = dpc, interrupt' = interrupt,
         \A f \in Execs : hpc'[f] = "starting" => hpc[f] = "starting"
  PROVE  Ended'
<1>h. OwnerHeld /\ phase \in {"off", "begin", "pick", "exec", "wake", "return"}
  BY DEF IInv, TypeOK
<1>1. \A f \in Execs : hpc'[f] # "starting"
  BY <1>h, FreeMeansOff
<1>2. CASE Quiet(m', m) /\ UNCHANGED handles
  BY <1>2, EndedStays DEF Quiet, handles
<1>3. CASE Gone(m', m, "canceled") /\ m.foreground \in Programs
  <2>1. ~m'.up /\ instDone' = TRUE /\ lifecycle' = IF IsOpen THEN "closed" ELSE lifecycle
    <3>1. ~Quiet(m', m)
      BY <1>3, ExecsAssumption DEF Gone, Quiet
    <3>2. QED
      BY <1>3, <3>1 DEF Applied
  <2>2. ~IsOpen'
    BY <2>1 DEF IsOpen
  <2>3. QED
    BY <1>1, <2>1, <2>2 DEF Ended
<1>4. CASE Gone(m', m, "canceled") /\ m.foreground \notin Programs
  <2>1. ~Quiet(m', m)
    BY <1>4, ExecsAssumption DEF Gone, Quiet
  <2>2. instDone' = instDone /\ lifecycle' = lifecycle /\ (m'.up => m.up)
    BY <1>4, <2>1 DEF Applied, Gone
  <2>3. QED
    BY <2>2, EndedStays
<1>5. QED
  BY <1>2, <1>3, <1>4 DEF Applied

LEMMA EndedHost ==
  ASSUME IInv, Paired, Ended, NEW e \in Execs, StartEnter(e) \/ StartRefused(e) \/ HostStep(e)
  PROVE  Ended'
<1>h. /\ MachineInv(m) /\ OwnerHeld /\ RunsInLoop /\ ReturnsOutcome /\ outcome \in Outcomes
      /\ hpc \in [Execs -> {"idle", "starting", "loop", "select", "poll", "run",
                            "cancel", "signal", "apply", "returned"}]
      /\ phase \in {"off", "begin", "pick", "exec", "wake", "return"} /\ instDone \in BOOLEAN
  BY DEF IInv, TypeOK
<1>1. CASE StartEnter(e)
  <2>1. IsOpen /\ m' = m /\ dpc' = dpc /\ instDone' = instDone /\ lifecycle' = lifecycle /\ interrupt' = interrupt
    BY <1>1 DEF StartEnter, handles, flags
  <2>2. dpc = "idle" /\ ~instDone
    BY <2>1 DEF Ended
  <2>3. QED
    BY <2>1, <2>2 DEF Ended, IsOpen
<1>2. CASE \/ StartRefused(e) \/ WaitLoop(e) \/ WaitWake(e) \/ WaitContext(e) \/ PollEnter(e) \/ PollContext(e)
           \/ HostCancel(e) \/ HostCancelSignal(e)
  <2>1. m' = m /\ dpc' = dpc /\ instDone' = instDone /\ lifecycle' = lifecycle /\ interrupt' = interrupt
    BY <1>2 DEF StartRefused, WaitLoop, WaitWake, WaitContext, PollEnter, PollContext, HostCancel, HostCancelSignal,
                handles, flags
  <2>2. \E p \in {"returned", "select", "poll", "cancel", "loop", "signal", "apply", "run"} :
          hpc' = [hpc EXCEPT ![e] = p]
    BY <1>2 DEF StartRefused, WaitLoop, WaitWake, WaitContext, PollEnter, PollContext, HostCancel, HostCancelSignal,
                AfterPoll
  <2>3. \A f \in Execs : hpc'[f] = "starting" => hpc[f] = "starting"
    BY <1>h, <2>2
  <2>4. QED
    BY <2>1, <2>3, EndedStays
<1>3. CASE StartPrepare(e) \/ StartAbandon(e)
  <2>1. /\ hpc[e] = "starting" /\ interrupt' = FALSE
        /\ dpc' = dpc /\ instDone' = instDone /\ lifecycle' = lifecycle
    BY <1>3 DEF StartPrepare, StartAbandon, handles
  <2>2. ~instDone /\ dpc \notin {"session", "done"}
    BY <2>1 DEF Ended
  <2>3. QED
    BY <2>1, <2>2 DEF Ended, IsOpen
<1>4. CASE PollReturn(e)
  <2>1. /\ hpc[e] = "run" /\ phase = "return" /\ dpc' = dpc /\ interrupt' = interrupt
        /\ \E p \in {"loop", "cancel"} : hpc' = [hpc EXCEPT ![e] = p]
        /\ Capture(e, outcome)
        /\ m' = Returned(e, PublishScopeRoot(m, m.foreground, StateOf(outcome)))
    BY <1>4 DEF PollReturn, AfterPoll, StateOf, flags
  <2>2. \A f \in Execs : hpc'[f] # "starting"
    <3>1. \A f \in Execs : hpc[f] = "starting" => f = e
      BY <1>h, <2>1, OneRuns
    <3>2. QED
      BY <1>h, <2>1, <3>1
  <2>3. CASE outcome \in {"running", "pending"}
    <3>1. m' = m
      BY <2>1, <2>3 DEF Returned
    <3>2. instDone' = instDone /\ lifecycle' = lifecycle
      BY <1>h, <2>1, <2>3 DEF Capture, Terminal
    <3>3. QED
      BY <2>1, <2>2, <3>1, <3>2, EndedStays
  <2>4. CASE outcome \notin {"running", "pending"}
    <3>1. outcome \in {"completed", "canceled", "failed", "limited", "lost"}
      BY <1>h, <2>1, <2>4 DEF ReturnsOutcome, Outcomes
    <3>2. m.running = NoTask /\ Carried(e)
      BY <1>h, <2>1 DEF RunsInLoop, Paired, Foreground
    <3>3. (m'.up => m.up) /\ (m'.up => e \notin Programs /\ outcome \in {"completed", "canceled", "limited"})
      <4>1. /\ OneUnpublished(m') /\ m'.foreground = NoExec /\ (m'.up => m.up)
            /\ m'.sc[e].published /\ m'.sc[e].rootState = StateOf(outcome)
            /\ \A f \in Execs : f # e => /\ m'.sc[f].published = m.sc[f].published
                                         /\ m'.sc[f].rootState = m.sc[f].rootState
                                         /\ m'.sc[f].status # "none" => m.sc[f].status # "none"
            /\ m'.up => e \notin Programs /\ outcome \in {"completed", "canceled", "limited"}
        BY <1>h, <2>1, <3>1, <3>2, ReturnedRoots DEF Paired
      <4>2. QED
        BY <4>1
    <3>4. \/ instDone' = instDone /\ lifecycle' = lifecycle
          \/ instDone' = TRUE /\ lifecycle' # "open" /\ ~m'.up
      <4>1. CASE m'.up
        <5>1. e \notin Programs /\ outcome \in {"completed", "canceled", "limited"}
          BY <3>3, <4>1
        <5>2. instDone' = instDone /\ lifecycle' = lifecycle
          BY <1>h, <2>1, <5>1 DEF Capture
        <5>3. QED
          BY <5>2
      <4>2. CASE ~m'.up
        BY <1>h, <2>1, <4>2 DEF Capture, IsOpen
      <4>3. QED
        BY <4>1, <4>2
    <3>5. CASE instDone' = instDone /\ lifecycle' = lifecycle
      BY <2>1, <2>2, <3>3, <3>5, EndedStays
    <3>6. CASE instDone' = TRUE /\ lifecycle' # "open" /\ ~m'.up
      BY <2>1, <2>2, <3>6 DEF Ended, IsOpen
    <3>7. QED
      BY <3>4, <3>5, <3>6
  <2>5. QED
    BY <2>3, <2>4
<1>5. CASE HostCancelApply(e)
  <2>1. /\ owner = Free /\ ApplyRequestedCancellations /\ dpc' = dpc /\ interrupt' = interrupt
        /\ hpc' = [hpc EXCEPT ![e] = "returned"]
    BY <1>5 DEF HostCancelApply, flags
  <2>2. m.running = NoTask
    BY <1>h, <2>1, FreeMeansOff DEF RunsInLoop
  <2>3. Applied
    BY <1>h, <2>1, <2>2, ApplyRoots DEF Paired
  <2>4. \A f \in Execs : hpc'[f] = "starting" => hpc[f] = "starting"
    BY <1>h, <2>1
  <2>5. QED
    BY <2>1, <2>3, <2>4, EndedApply
<1>6. QED
  BY <1>1, <1>2, <1>3, <1>4, <1>5 DEF HostStep

LEMMA EndedOther ==
  ASSUME IInv, Paired, Ended, OtherStep
  PROVE  Ended'
<1>h. /\ MachineInv(m) /\ m \in MachineType /\ OwnerHeld /\ RunsInLoop /\ Bound
      /\ phase \in {"off", "begin", "pick", "exec", "wake", "return"} /\ instDone \in BOOLEAN
  BY DEF IInv, TypeOK, Bound
<1>f. owner = Free => m.running = NoTask /\ \A f \in Execs : hpc[f] # "starting"
  BY <1>h, FreeMeansOff DEF RunsInLoop
<1>a. ASSUME owner = Free, ApplyRequestedCancellations, dpc' = dpc, interrupt' = interrupt, hpc' = hpc
      PROVE  Ended'
  <2>1. Applied
    BY <1>h, <1>f, <1>a, ApplyRoots DEF Paired
  <2>2. QED
    BY <1>a, <2>1, EndedApply
<1>1. ASSUME NEW e \in Execs, ContextEnds(e) \/ RequestCancel(e) \/ RequestSignal(e) PROVE Ended'
  BY <1>1 DEF ContextEnds, RequestCancel, RequestSignal, threads, handles, flags, Ended, IsOpen
<1>2. ASSUME NEW e \in Execs, CancelApply(e) PROVE Ended'
  BY <1>a, <1>2 DEF CancelApply, flags
<1>3. CASE SuperviseWake \/ SuperviseExit \/ CompletionSignal
  BY <1>3 DEF SuperviseWake, SuperviseExit, CompletionSignal, threads, handles, flags, Ended, IsOpen
<1>4. CASE SuperviseEnter
  <2>1. owner = Free /\ hpc' = hpc /\ dpc' = dpc /\ interrupt' = interrupt
    BY <1>4 DEF SuperviseEnter, flags
  <2>2. ApplyRequestedCancellations \/ (m' = m /\ UNCHANGED handles)
    BY <1>4 DEF SuperviseEnter
  <2>3. QED
    BY <1>a, <2>1, <2>2, EndedStays DEF handles
<1>5. CASE SuperviseReturn
  <2>1. PICK fails : fails = (outcome \notin {"running", "pending", "completed"})
    OBVIOUS
  <2>2. /\ spc = "run" /\ phase = "return" /\ dpc' = dpc /\ interrupt' = interrupt /\ hpc' = hpc
        /\ fails => m' = FinishRun(AbortQueuedTasks(m)) /\ lifecycle' # "open"
        /\ ~fails => m' = FinishForeground(m) \/ m' = m
        /\ ~fails => lifecycle' = lifecycle
        /\ instDone' = (instDone \/ fails)
    BY <1>5, <2>1 DEF SuperviseReturn, flags, IsOpen
  <2>3. m.running = NoTask /\ \A f \in Execs : hpc[f] # "starting"
    BY <1>h, <2>2, SupervisorRuns DEF RunsInLoop
  <2>4. CASE fails
    <3>1. PICK a : a = AbortQueuedTasks(m)
      OBVIOUS
    <3>2. MachineInv(a) /\ a.running = NoTask
      BY <1>h, <2>3, <3>1, AbortQueuedTasksKeepsInv DEF Ends
    <3>3. m' = FinishRun(a)
      BY <2>2, <2>4, <3>1
    <3>4. ~m'.up
      BY <3>2, <3>3, FinishRunRoots
    <3>5. QED
      BY <2>2, <2>3, <2>4, <3>4 DEF Ended, IsOpen
  <2>5. CASE ~fails
    <3>1. m'.up => m.up
      BY <1>h, <2>2, <2>5, FinishForegroundRoots
    <3>2. instDone' = instDone /\ lifecycle' = lifecycle
      BY <1>h, <2>2, <2>5
    <3>3. QED
      BY <2>2, <3>1, <3>2, EndedStays
  <2>6. QED
    BY <2>4, <2>5
<1>6. CASE ShutdownBegin \/ ShutdownInterrupt
  BY <1>6 DEF ShutdownBegin, ShutdownInterrupt, handles, Ended, IsOpen, flags
<1>7. CASE ShutdownAbort
  <2>1. /\ owner = Free /\ dpc = "enter" /\ dpc' = "session" /\ hpc' = hpc /\ interrupt' = interrupt
        /\ lifecycle' = lifecycle /\ instDone' = instDone
        /\ m' = FinishRun(IF m.up THEN AbortQueuedTasks(m) ELSE m)
    BY <1>7 DEF ShutdownAbort, flags
  <2>2. PICK a : a = IF m.up THEN AbortQueuedTasks(m) ELSE m
    OBVIOUS
  <2>3. MachineInv(a) /\ a.running = NoTask
    <3>1. CASE m.up
      <4>1. a = AbortQueuedTasks(m)
        BY <2>2, <3>1
      <4>2. QED
        BY <1>h, <1>f, <2>1, <4>1, AbortQueuedTasksKeepsInv DEF Ends
    <3>2. CASE ~m.up
      BY <1>h, <1>f, <2>1, <2>2, <3>2
    <3>3. QED
      BY <3>1, <3>2
  <2>4. m' = FinishRun(a)
    BY <2>1, <2>2
  <2>5. ~m'.up
    BY <2>3, <2>4, FinishRunRoots
  <2>6. QED
    BY <1>f, <2>1, <2>5 DEF Ended, IsOpen
<1>8. CASE ShutdownFinish
  <2>1. /\ dpc = "session" /\ m' = m /\ hpc' = hpc /\ lifecycle' = "closed" /\ dpc' = "done"
        /\ interrupt' = interrupt
    BY <1>8 DEF ShutdownFinish, flags
  <2>2. QED
    BY <2>1 DEF Ended, IsOpen
<1>9. ASSUME NEW t \in Tasks, FFIComplete(t) \/ TimerFire(t) PROVE Ended'
  <2>1. Similar(m', m)
    BY <1>h, <1>9, CompletionKeeps
  <2>2. m'.up => m.up
    BY <2>1, SimilarKept DEF Kept
  <2>3. /\ dpc' = dpc /\ instDone' = instDone /\ lifecycle' = lifecycle /\ interrupt' = interrupt /\ hpc' = hpc
    BY <1>9 DEF FFIComplete, TimerFire, threads, handles, flags
  <2>4. QED
    BY <2>2, <2>3, EndedStays
<1>10. QED
  BY <1>1, <1>2, <1>3, <1>4, <1>5, <1>6, <1>7, <1>8, <1>9 DEF OtherStep, SupervisorStep, ShutdownStep

LEMMA EndedRun ==
  ASSUME IInv, Paired, Ended, RunStep
  PROVE  Ended'
<1>1. RunRoots
  BY RunStepRoots DEF IInv, Paired
<1>2. m'.up => m.up
  BY <1>1 DEF RunRoots, Quiet, Gone
<1>3. dpc' = dpc /\ instDone' = instDone /\ lifecycle' = lifecycle /\ interrupt' = interrupt /\ hpc' = hpc
  BY RunPhases DEF rest, threads, handles, flags
<1>4. QED
  BY <1>2, <1>3, EndedStays

-----------------------------------------------------------------------------
(* The inductive invariant                                                 *)

LEMMA InitHInv == Init => HInv
<1> SUFFICES ASSUME Init PROVE HInv
  OBVIOUS
<1>1. IInv
  BY InitIInv
<1>2. m.foreground = NoExec /\ ~m.up /\ \A e \in Execs : m.sc[e].status = "none"
  BY DEF Init, InitMachine, NoScope
<1>3. OneUnpublished(m)
  BY <1>2 DEF OneUnpublished, OpenScopes
<1>4. Handles
  BY ExecsAssumption DEF Init, Handles
<1>5. Foreground
  BY <1>2 DEF Init, Foreground
<1>6. Agreed /\ Ended
  BY <1>2 DEF Init, Agreed, Ended, IsOpen
<1>7. QED
  BY <1>1, <1>3, <1>4, <1>5, <1>6 DEF HInv, Paired

LEMMA NextHInv == HInv /\ [Next]_vars => HInv'
<1> SUFFICES ASSUME HInv, [Next]_vars PROVE HInv'
  OBVIOUS
<1>1. IInv /\ Paired /\ Ended
  BY DEF HInv
<1>2. IInv'
  BY <1>1, NextIInv
<1>3. CASE Next
  <2>1. \/ \E e \in Execs : StartEnter(e) \/ StartRefused(e) \/ HostStep(e)
        \/ OtherStep
        \/ RunStep
    BY <1>3 DEF Next, Progress, Request, OtherStep
  <2>2. Paired'
    BY <1>1, <1>3, PairedStep
  <2>3. Ended'
    BY <1>1, <2>1, EndedHost, EndedOther, EndedRun
  <2>4. QED
    BY <1>2, <2>2, <2>3 DEF HInv
<1>4. CASE UNCHANGED vars
  <2>1. Paired'
    BY <1>1, <1>4 DEF vars, working, threads, tokens, handles, flags, Paired, OneUnpublished, OpenScopes, Handles, Foreground,
                      Carried, Agreed
  <2>2. Ended'
    BY <1>1, <1>4 DEF vars, working, threads, tokens, handles, flags, Ended, IsOpen
  <2>3. QED
    BY <1>2, <2>1, <2>2 DEF HInv
<1>5. QED
  BY <1>3, <1>4

LEMMA HandlesInvariance == Spec => []HInv
  BY InitHInv, NextHInv, PTL DEF Spec

-----------------------------------------------------------------------------
(* Which tasks a step ends                                                 *)

\* Why task t, which is not running, may end.
Answers(t) ==
  \/ cancelReq[m.tk[t].scope]
  \/ m.running # NoTask /\ Scope(m) = m.tk[t].scope
  \/ lifecycle' # "open" \/ outcome' = "failed"
  \/ m.foreground \in Programs
  \/ outcome' = "limited" /\ SpawnPassesLimit

Alone ==
  \A t \in Tasks :
    m.tk[t].state = "live" /\ m'.tk[t].state = "finished" /\ t # m.running => Answers(t)

LEMMA EndsOnlyAlone ==
  ASSUME NEW S, EndsOnly(m', m, S), \A t \in S : t = m.running \/ Answers(t)
  PROVE  Alone
  BY DEF EndsOnly, Alone

LEMMA SameTasksAlone ==
  ASSUME m'.tk = m.tk
  PROVE  Alone
  BY DEF Alone

LEMMA EndRunningScopes ==
  ASSUME NEW q \in MachineType, NEW r, r = EndRunning(q)
  PROVE  \A t \in Tasks : r.tk[t].scope = q.tk[t].scope
<1> DEFINE F == {t \in {q.running} : q.tk[t].op = "ffi" /\ q.tk[t].ffi # "none"}
<1>1. PICK p : p = Release(q, {q.running}, {}, F)
  OBVIOUS
<1>2. \A t \in Tasks : p.tk[t].scope = q.tk[t].scope
  BY <1>1, ReleaseRoots
<1>3. PICK k, s, n : p = [q EXCEPT !.tk = k, !.sc = s, !.events = n]
  BY <1>1 DEF Release
<1>4. r = [p EXCEPT !.running = NoTask]
  BY <1>1 DEF EndRunning, EndTasks
<1>5. r.tk = p.tk
  BY <1>3, <1>4 DEF MachineType
<1>6. QED
  BY <1>2, <1>5

\* A scope that is over takes its own tasks with it.
LEMMA EndScopeAlone ==
  ASSUME MachineInv(m), m.running # NoTask, NEW q, MachineInv(q), SameRun(q, m),
         NEW state \in RootStates, NEW out, EndScope(q, state, out)
  PROVE  Alone
<1>1. m' = CancelScopes(EndRunning(q), {Scope(m)}, state)
  BY DEF EndScope
<1>2. PICK p : p = EndRunning(q)
  OBVIOUS
<1>3. q.running # NoTask /\ q.running = m.running /\ Similar(q, m) /\ q \in MachineType
  BY DEF SameRun, MachineInv, Books
<1>4. MachineInv(p) /\ p.running = NoTask
  BY <1>2, <1>3, EndRunningKeepsInv
<1>5. Kept(p, q, {m.running}) /\ Kept(q, m, {})
  <2>1. Kept(p, q, {q.running})
    BY <1>2, <1>3, EndRunningRoots
  <2>2. QED
    BY <1>3, <2>1, SimilarKept
<1>6. PICK E : E = {Scope(m)}
  OBVIOUS
<1>7. EndsOnly(m', p, {t \in Tasks : p.tk[t].scope \in E})
  <2>1. m' = CancelScopes(p, E, state)
    BY <1>1, <1>2, <1>6
  <2>2. Cancelled(m', p, E, state)
    BY <1>4, <2>1, CancelScopesRoots
  <2>3. QED
    BY <2>2 DEF Cancelled
<1>8. \A t \in Tasks : p.tk[t].scope = q.tk[t].scope /\ q.tk[t].scope = m.tk[t].scope
  BY <1>2, <1>3, EndRunningScopes DEF Similar
<1>9. EndsOnly(m', m, {m.running} \cup {t \in Tasks : m.tk[t].scope = Scope(m)})
  BY <1>5, <1>6, <1>7, <1>8 DEF Kept, EndsOnly
<1>10. QED
  BY <1>9, EndsOnlyAlone DEF Answers

LEMMA RunAlone ==
  ASSUME HInv, RunStep
  PROVE  Alone
<1>h. MachineInv(m) /\ m \in MachineType /\ EventsBounded /\ RunsInLoop /\ OneUnpublished(m) /\ Ended
  BY DEF HInv, IInv, TypeOK, Paired
<1>l. lifecycle' = lifecycle
  BY RunPhases DEF rest, handles
<1>n. ASSUME NEW S, Kept(m', m, S), S \subseteq {m.running} PROVE Alone
  BY <1>n, EndsOnlyAlone DEF Kept
<1>a. "canceled" \in RootStates /\ "failed" \in RootStates
  BY DEF RootStates
<1>b. MachineInv(Attempt(m)) /\ SameRun(Attempt(m), m) /\ SameRun(m, m)
  BY <1>h, AttemptKeepsInv DEF SameRun, Similar
<1>1. CASE RunBegin
  <2>1. PICK E : E = Requested(m)
    OBVIOUS
  <2>2. PICK c : c = CancelScopes(m, E, "canceled")
    OBVIOUS
  <2>3. m.running = NoTask
    BY <1>h, <1>1 DEF RunsInLoop, RunBegin
  <2>4. MachineInv(c)
    BY <1>h, <1>a, <2>2, CancelScopesKeepsInv
  <2>5. EndsOnly(c, m, {t \in Tasks : m.tk[t].scope \in E})
    <3>1. Cancelled(c, m, E, "canceled")
      BY <1>h, <1>a, <2>2, <2>3, CancelScopesRoots
    <3>2. QED
      BY <3>1 DEF Cancelled
  <2>6. m' = [c EXCEPT !.attempts = 0]
    BY <1>1, <2>1, <2>2 DEF RunBegin
  <2>7. m'.tk = c.tk
    BY <2>4, <2>6 DEF MachineInv, Books, MachineType
  <2>8. EndsOnly(m', m, {t \in Tasks : m.tk[t].scope \in E})
    BY <2>5, <2>7 DEF EndsOnly
  <2>9. \A t \in {u \in Tasks : m.tk[u].scope \in E} : Answers(t)
    BY <2>1 DEF Requested, Answers
  <2>10. QED
    BY <2>8, <2>9, EndsOnlyAlone
<1>2. CASE RunPick \/ RunIdle \/ RunWake
  <2>1. m.running = NoTask
    BY <1>h, <1>2 DEF RunsInLoop, RunPick, RunIdle, RunWake
  <2>2. CASE RunPick
    <3>1. PICK t \in Tasks : /\ t \in m.runnable.elems
                             /\ m' = [m EXCEPT !.runnable = Without(@, {t}), !.running = t]
      BY <2>2 DEF RunPick, IsHead
    <3>2. Similar(m', m)
      BY <1>h, <2>1, <3>1, PickKeepsInv
    <3>3. QED
      BY <1>n, <3>2, SimilarKept
  <2>3. CASE RunIdle \/ RunWake
    <3>1. m' = WakeBlocked(m)
      BY <2>3 DEF RunIdle, RunWake
    <3>2. QED
      BY <1>h, <1>n, <2>1, <3>1, WakeBlockedRoots
  <2>4. QED
    BY <1>2, <2>2, <2>3
<1>3. CASE RunCanceled \/ RunFailCanceled
  <2>1. m.running # NoTask
    BY <1>h, <1>3 DEF RunsInLoop, RunCanceled, RunFailCanceled, Running
  <2>2. \/ EndScope(m, "canceled", "canceled")
        \/ EndScope(Attempt(m), "failed", "failed") \/ EndScope(Attempt(m), "failed", "limited")
    BY <1>3 DEF RunCanceled, RunFailCanceled
  <2>3. QED
    BY <1>h, <1>a, <1>b, <2>1, <2>2, EndScopeAlone
<1>4. CASE RunInterrupted
  <2>1. interrupt
    BY <1>4 DEF RunInterrupted
  <2>2. lifecycle' # "open"
    BY <1>h, <1>l, <2>1 DEF Ended, IsOpen
  <2>3. QED
    BY <2>2 DEF Alone, Answers
<1>5. CASE RunPollYield \/ RunCooperate
  <2>1. m.running # NoTask /\ (m' = PollYield(m) \/ m' = Cooperate(m))
    BY <1>h, <1>5 DEF RunsInLoop, RunPollYield, RunCooperate, Checked, Running
  <2>2. Similar(m', m)
    BY <1>h, <2>1, PollYieldKeepsInv, CooperateKeepsInv
  <2>3. QED
    BY <1>n, <2>2, SimilarKept
<1>6. CASE RunLimit
  <2>1. m.running # NoTask
    BY <1>h, <1>6 DEF RunsInLoop, RunLimit, Checked, Running
  <2>2. CASE Scope(m) \in Programs
    <3>1. Scope(m) \in OpenScopes(m)
      BY <1>h, <2>1, RunningFacts
    <3>2. m.foreground \in Programs
      BY <1>h, <2>2, <3>1 DEF OneUnpublished
    <3>3. QED
      BY <3>2 DEF Alone, Answers
  <2>3. CASE Scope(m) \notin Programs
    <3>1. EndScope(Attempt(m), "failed", "limited")
      BY <1>6, <2>3 DEF RunLimit
    <3>2. QED
      BY <1>h, <1>a, <1>b, <2>1, <3>1, EndScopeAlone
  <2>4. QED
    BY <2>2, <2>3
<1>7. CASE RunComplete
  <2>1. m.foreground \in Programs \/ m' = EndRunning(m)
    BY <1>7 DEF RunComplete
  <2>2. CASE m.foreground \in Programs
    BY <2>2 DEF Alone, Answers
  <2>3. CASE m' = EndRunning(m)
    BY <1>h, <1>n, <2>3, EndRunningRoots
  <2>4. QED
    BY <2>1, <2>2, <2>3
<1>8. CASE RunFail
  BY <1>8 DEF RunFail, FailRun, Return, Alone, Answers
<1>9. CASE RunCompute \/ RunSpawn \/ RunFFI \/ RunTimer \/ RunReceive \/ RunSend
  <2>1. StaysOrFails
    BY <1>h, <1>9, ExecuteStepKeeps
  <2>2. CASE SameRoots(m', m)
    BY <1>n, <2>2, SameRootsKept
  <2>3. CASE phase' = "return"
    <3>1. \/ outcome' = "limited" /\ SpawnPassesLimit
          \/ outcome' = "failed"
      BY <1>9, <2>3 DEF RunCompute, RunSpawn, RunFFI, RunTimer, RunReceive, RunSend, Goto, FailRun, Return,
                        SpawnPassesLimit, Execute, Checked, Running
    <3>2. QED
      BY <3>1 DEF Alone, Answers
  <2>4. QED
    BY <2>1, <2>2, <2>3 DEF StaysOrFails
<1>10. QED
  BY <1>1, <1>2, <1>3, <1>4, <1>5, <1>6, <1>7, <1>8, <1>9 DEF RunStep

\* Only the scopes somebody asked to cancel end.
LEMMA ApplyAlone ==
  ASSUME MachineInv(m), m.running = NoTask, ApplyRequestedCancellations
  PROVE  Alone
<1>1. PICK E : E = Requested(m)
  OBVIOUS
<1>2. PICK c : c = CancelScopes(m, E, "canceled")
  OBVIOUS
<1>3. MachineInv(c)
  BY <1>2, CancelScopesKeepsInv DEF RootStates
<1>4. EndsOnly(c, m, {t \in Tasks : m.tk[t].scope \in E})
  <2>0. "canceled" \in RootStates
    BY DEF RootStates
  <2>1. Cancelled(c, m, E, "canceled")
    BY <1>2, <2>0, CancelScopesRoots
  <2>2. QED
    BY <2>1 DEF Cancelled
<1>5. \A t \in {u \in Tasks : m.tk[u].scope \in E} : Answers(t)
  BY <1>1 DEF Requested, Answers
<1>6. m.foreground \in Programs \/ m' = FinishForeground(c) \/ m' = c \/ m' = m
  BY <1>1, <1>2 DEF ApplyRequestedCancellations
<1>7. CASE m.foreground \in Programs
  BY <1>7 DEF Alone, Answers
<1>8. CASE m' = FinishForeground(c) \/ m' = c
  <2>1. m'.tk = c.tk
    BY <1>3, <1>8, FinishForegroundRoots DEF MachineInv, Books
  <2>2. EndsOnly(m', m, {t \in Tasks : m.tk[t].scope \in E})
    BY <1>4, <2>1 DEF EndsOnly
  <2>3. QED
    BY <1>5, <2>2, EndsOnlyAlone
<1>9. CASE m' = m
  BY <1>9, SameTasksAlone
<1>10. QED
  BY <1>6, <1>7, <1>8, <1>9

LEMMA PrepareScheduledTasks ==
  ASSUME NEW q \in MachineType, NEW x \in Execs, NEW r, r = PrepareScheduled(q, x)
  PROVE  \A t \in Tasks : t # q.nextID => r.tk[t] = q.tk[t]
<1>1. PICK z : z = [FreeTask EXCEPT !.scope = x, !.state = "live"]
  OBVIOUS
<1>2. r.tk = [q.tk EXCEPT ![q.nextID] = z]
  BY <1>1 DEF PrepareScheduled, MachineType
<1>3. QED
  BY <1>2 DEF MachineType

\* A start touches no task that is there.
LEMMA StartAlone ==
  ASSUME HInv, NEW e \in Execs, StartPrepare(e) \/ StartAbandon(e)
  PROVE  Alone
<1>h. MachineInv(m) /\ m \in MachineType /\ Owned(m) /\ Fresh(m) /\ OwnerHeld /\ RunsInLoop /\ NotStarted
  BY DEF HInv, IInv, TypeOK, MachineInv, Books
<1>1. hpc[e] = "starting"
  BY DEF StartPrepare, StartAbandon
<1>2. m.running = NoTask /\ m.sc[e].status = "none" /\ m.nextID \in Tasks
  <2>1. phase = "off"
    BY <1>h, <1>1, StartingMeansOff
  <2>2. QED
    BY <1>h, <1>1, <2>1 DEF RunsInLoop, NotStarted
<1>3. PICK p : p = PrepareScheduled(m, e)
  OBVIOUS
<1>4. ASSUME NEW t \in Tasks, m.tk[t].state = "live"
      PROVE  p.tk[t] = m.tk[t] /\ m.tk[t].scope # e
  <2>1. m.tk[t].scope \in OpenScopes(m)
    BY <1>h, <1>4 DEF Owned
  <2>2. m.tk[t].scope # e
    BY <1>2, <2>1 DEF OpenScopes
  <2>3. t # m.nextID
    <3>1. m.tk[m.nextID].state = "free"
      BY <1>h, <1>2 DEF Fresh, Tasks
    <3>2. QED
      BY <1>4, <3>1
  <2>4. \A u \in Tasks : u # m.nextID => p.tk[u] = m.tk[u]
    BY <1>h, <1>3, PrepareScheduledTasks
  <2>5. QED
    BY <2>2, <2>3, <2>4
<1>5. CASE StartPrepare(e)
  <2>1. m' = p
    BY <1>3, <1>5 DEF StartPrepare
  <2>2. QED
    BY <1>4, <2>1 DEF Alone
<1>6. CASE StartAbandon(e)
  <2>1. PICK c : c = CancelScopes(p, {e}, "canceled")
    OBVIOUS
  <2>2. MachineInv(p) /\ p.running = NoTask
    BY <1>h, <1>2, <1>3, PrepareScheduledKeepsInv
  <2>3. MachineInv(c)
    BY <2>1, <2>2, CancelScopesKeepsInv DEF RootStates
  <2>4. EndsOnly(c, p, {t \in Tasks : p.tk[t].scope = e})
    <3>1. PICK E : E = {e}
      OBVIOUS
    <3>2. Cancelled(c, p, E, "canceled")
      <4>1. c = CancelScopes(p, E, "canceled") /\ "canceled" \in RootStates
        BY <2>1, <3>1 DEF RootStates
      <4>2. QED
        BY <2>2, <4>1, CancelScopesRoots
    <3>3. QED
      BY <3>1, <3>2 DEF Cancelled, EndsOnly
  <2>5. m' = FinishForeground(c)
    BY <1>3, <1>6, <2>1 DEF StartAbandon
  <2>6. m'.tk = c.tk
    BY <2>3, <2>5, FinishForegroundRoots DEF MachineInv, Books
  <2>7. QED
    BY <1>4, <2>4, <2>6 DEF EndsOnly, Alone
<1>7. QED
  BY <1>5, <1>6

\* A run that leaves more than its own scope ended ends the instance.
LEMMA ReturnAlone ==
  ASSUME HInv, NEW e \in Execs, PollReturn(e)
  PROVE  Alone
<1>h. MachineInv(m) /\ m \in MachineType /\ ReturnsOutcome /\ outcome \in Outcomes
  BY DEF HInv, IInv, TypeOK
<1>1. PICK state : state = StateOf(outcome)
  OBVIOUS
<1>2. PICK p : p = PublishScopeRoot(m, m.foreground, state)
  OBVIOUS
<1>3. m' = Returned(e, p) /\ Capture(e, outcome) /\ outcome # "none"
  BY <1>h, <1>1, <1>2 DEF PollReturn, StateOf, ReturnsOutcome
<1>4. m' = m \/ m' = FinishForeground(p) \/ lifecycle' # "open"
  <2>1. \/ outcome \in {"running", "pending"}
        \/ outcome \in {"completed", "canceled"}
        \/ outcome \in {"limited", "failed", "lost"}
    BY <1>h, <1>3 DEF Outcomes
  <2>2. CASE outcome \in {"running", "pending"}
    BY <1>3, <2>2 DEF Returned
  <2>3. CASE outcome \in {"completed", "canceled"}
    BY <1>3, <2>3 DEF Returned, Capture, IsOpen
  <2>4. CASE outcome \in {"limited", "failed", "lost"}
    BY <1>3, <2>4 DEF Returned, Capture, IsOpen
  <2>5. QED
    BY <2>1, <2>2, <2>3, <2>4
<1>5. CASE m' = m
  BY <1>5, SameTasksAlone
<1>6. CASE m' = FinishForeground(p)
  <2>1. m.foreground \in Execs \cup {NoExec}
    BY <1>h DEF MachineType
  <2>2. CASE outcome \in {"running", "pending"}
    <3>1. m' = m
      BY <1>3, <2>2 DEF Returned
    <3>2. QED
      BY <3>1, SameTasksAlone
  <2>3. CASE outcome \notin {"running", "pending"}
    <3>1. state \in RootStates
      BY <1>h, <1>1, <1>3, <2>3 DEF StateOf, RootStates, Outcomes
    <3>2. p.tk = m.tk
      BY <1>h, <1>2, <2>1, <3>1, PublishScopeRootRoots
    <3>3. p \in MachineType
      BY <1>h, <1>2, <2>1, <3>1, PublishScopeRootKeepsInv DEF MachineInv, Books
    <3>4. m'.tk = p.tk
      BY <1>6, <3>3, FinishForegroundRoots
    <3>5. QED
      BY <3>2, <3>4, SameTasksAlone
  <2>4. QED
    BY <2>2, <2>3
<1>7. CASE lifecycle' # "open"
  BY <1>7 DEF Alone, Answers
<1>8. QED
  BY <1>4, <1>5, <1>6, <1>7

LEMMA AloneStep ==
  ASSUME HInv, [Next]_vars
  PROVE  Alone
<1>h. /\ MachineInv(m) /\ m \in MachineType /\ OwnerHeld /\ RunsInLoop /\ Bound /\ Ended
      /\ phase \in {"off", "begin", "pick", "exec", "wake", "return"}
  BY DEF HInv, IInv, TypeOK, Bound
<1>f. owner = Free => m.running = NoTask
  BY <1>h, FreeMeansOff DEF RunsInLoop
<1>1. ASSUME NEW e \in Execs,
             \/ StartEnter(e) \/ StartRefused(e) \/ WaitLoop(e) \/ WaitWake(e) \/ WaitContext(e) \/ PollEnter(e)
             \/ PollContext(e) \/ HostCancel(e) \/ HostCancelSignal(e)
             \/ ContextEnds(e) \/ RequestCancel(e) \/ RequestSignal(e)
      PROVE  Alone
  <2>1. m' = m
    BY <1>1 DEF StartEnter, StartRefused, WaitLoop, WaitWake, WaitContext, PollEnter, PollContext, HostCancel,
                HostCancelSignal, ContextEnds, RequestCancel, RequestSignal
  <2>2. QED
    BY <2>1, SameTasksAlone
<1>2. ASSUME NEW e \in Execs, HostCancelApply(e) \/ CancelApply(e) PROVE Alone
  BY <1>h, <1>f, <1>2, ApplyAlone DEF HostCancelApply, CancelApply
<1>3. ASSUME NEW e \in Execs, StartPrepare(e) \/ StartAbandon(e) \/ PollReturn(e) PROVE Alone
  BY <1>3, StartAlone, ReturnAlone
<1>4. CASE SuperviseWake \/ SuperviseExit \/ ShutdownBegin \/ ShutdownInterrupt \/ ShutdownFinish
           \/ CompletionSignal \/ UNCHANGED vars
  <2>1. m' = m
    BY <1>4 DEF SuperviseWake, SuperviseExit, ShutdownBegin, ShutdownInterrupt, ShutdownFinish, CompletionSignal, vars, working
  <2>2. QED
    BY <2>1, SameTasksAlone
<1>5. CASE SuperviseEnter
  <2>1. owner = Free /\ (ApplyRequestedCancellations \/ m' = m)
    BY <1>5 DEF SuperviseEnter
  <2>2. QED
    BY <1>h, <1>f, <2>1, ApplyAlone, SameTasksAlone
<1>6. CASE SuperviseReturn
  <2>1. lifecycle' # "open" \/ m' = FinishForeground(m) \/ m' = m
    BY <1>6 DEF SuperviseReturn, IsOpen
  <2>2. CASE lifecycle' # "open"
    BY <2>2 DEF Alone, Answers
  <2>3. CASE m' = FinishForeground(m) \/ m' = m
    <3>1. m'.tk = m.tk
      BY <1>h, <2>3, FinishForegroundRoots
    <3>2. QED
      BY <3>1, SameTasksAlone
  <2>4. QED
    BY <2>1, <2>2, <2>3
<1>7. CASE ShutdownAbort
  <2>1. dpc = "enter" /\ lifecycle' = lifecycle
    BY <1>7 DEF ShutdownAbort
  <2>2. lifecycle' # "open"
    BY <1>h, <2>1 DEF Ended, IsOpen
  <2>3. QED
    BY <2>2 DEF Alone, Answers
<1>8. ASSUME NEW t \in Tasks, FFIComplete(t) \/ TimerFire(t) PROVE Alone
  <2>1. Similar(m', m)
    BY <1>h, <1>8, CompletionKeeps
  <2>2. Kept(m', m, {})
    BY <2>1, SimilarKept
  <2>3. QED
    BY <2>2, EndsOnlyAlone DEF Kept
<1>9. CASE RunStep
  BY <1>9, RunAlone
<1>10. QED
  BY <1>1, <1>2, <1>3, <1>4, <1>5, <1>6, <1>7, <1>8, <1>9 DEF Next, Progress, Request, HostStep, SupervisorStep, ShutdownStep

-----------------------------------------------------------------------------
(* Theorems                                                                *)

\* Whoever closes instance.done (capture, supervise or shutdownInstance) leaves
\* no machine, open scope, timer or FFI call behind.
THEOREM DoneIsQuiet == Spec => []DoneMeansQuiet
<1>1. HInv => DoneMeansQuiet
  <2> SUFFICES ASSUME HInv, instDone
               PROVE  /\ ~m.up /\ OpenScopes(m) = {}
                      /\ AllTimers(m) \cup AllFFICalls(m) = {}
    BY DEF DoneMeansQuiet
  <2>1. ~m.up /\ Lifetime(m) /\ Owned(m)
    BY DEF HInv, Ended, IInv, MachineInv, Books
  <2>2. OpenScopes(m) = {}
    BY <2>1 DEF Lifetime
  <2>3. AllTimers(m) \cup AllFFICalls(m) = {}
    BY <2>1, <2>2 DEF Owned, AllTimers, AllFFICalls
  <2>4. QED
    BY <2>1, <2>2, <2>3
<1>2. QED
  BY <1>1, HandlesInvariance, PTL

\* The state publishScopeRoot or cancelScope gives the root of a scope is the
\* state capture or cancelOwned gives the execution handle.
THEOREM HandlesAgree == Spec => []RootStateAgrees
<1>1. HInv => RootStateAgrees
  <2> SUFFICES ASSUME HInv, owner = Free,
                      NEW e \in Execs, m.sc[e].status # "none", m.sc[e].published, est[e] # "none"
               PROVE  m.sc[e].rootState = est[e]
    BY DEF RootStateAgrees
  <2>1. OwnerHeld /\ Agreed /\ phase \in {"off", "begin", "pick", "exec", "wake", "return"}
    BY DEF HInv, IInv, TypeOK, Paired
  <2>2. hpc[e] # "run"
    BY <2>1, FreeMeansOff
  <2>3. QED
    BY <2>1, <2>2 DEF Agreed
<1>2. QED
  BY <1>1, HandlesInvariance, PTL

\* Who writes a handle writes that of an execution that has not ended.
LEMMA EndedHandleStays ==
  ASSUME HInv, [Next]_vars, NEW e \in Execs, est[e] \in Terminal
  PROVE  est'[e] = est[e]
<1>h. /\ MachineInv(m) /\ OwnerHeld /\ RunsInLoop /\ Paired
      /\ est \in [Execs -> {"none", "running", "pending"} \cup Terminal] /\ instDone \in BOOLEAN
      /\ phase \in {"off", "begin", "pick", "exec", "wake", "return"}
  BY DEF HInv, IInv, TypeOK
<1>e. est[e] \notin {"none", "running", "pending"} /\ active # e
  BY <1>h DEF Terminal, Paired, Handles
<1>a. ASSUME owner = Free, ApplyRequestedCancellations PROVE est'[e] = est[e]
  <2>1. m.running = NoTask /\ m.foreground = active
    BY <1>h, <1>a, FreeMeansOff DEF RunsInLoop, Paired, Foreground
  <2>2. Applied
    BY <1>h, <1>a, <2>1, ApplyRoots DEF Paired
  <2>3. est' = est \/ est' = [est EXCEPT ![active] = "canceled"]
    BY <2>1, <2>2 DEF Applied, handles
  <2>4. QED
    BY <1>h, <1>e, <2>3
<1>1. ASSUME NEW f \in Execs, StartPrepare(f) PROVE est'[e] = est[e]
  <2>1. est[f] = "none" /\ est' = [est EXCEPT ![f] = "running"]
    BY <1>h, <1>1 DEF StartPrepare, Paired, Handles
  <2>2. QED
    BY <1>h, <1>e, <2>1
<1>2. ASSUME NEW f \in Execs, PollReturn(f) PROVE est'[e] = est[e]
  <2>1. active = f
    BY <1>h, <1>2 DEF PollReturn, Paired, Foreground
  <2>2. \E s : est' = [est EXCEPT ![f] = s]
    BY <1>2 DEF PollReturn, Capture
  <2>3. QED
    BY <1>h, <1>e, <2>1, <2>2
<1>3. ASSUME NEW f \in Execs, HostCancelApply(f) \/ CancelApply(f) PROVE est'[e] = est[e]
  BY <1>a, <1>3 DEF HostCancelApply, CancelApply
<1>4. CASE SuperviseEnter
  BY <1>a, <1>4 DEF SuperviseEnter, handles
<1>5. CASE ShutdownAbort
  BY <1>5 DEF ShutdownAbort
<1>6. ASSUME NEW f \in Execs,
             \/ StartEnter(f) \/ StartRefused(f) \/ StartAbandon(f) \/ WaitLoop(f) \/ WaitWake(f)
             \/ WaitContext(f) \/ PollEnter(f) \/ PollContext(f) \/ HostCancel(f) \/ HostCancelSignal(f)
             \/ ContextEnds(f) \/ RequestCancel(f) \/ RequestSignal(f)
      PROVE  est'[e] = est[e]
  BY <1>6 DEF StartEnter, StartRefused, StartAbandon, WaitLoop, WaitWake, WaitContext, PollEnter, PollContext,
              HostCancel, HostCancelSignal, ContextEnds, RequestCancel, RequestSignal, handles
<1>7. CASE SuperviseWake \/ SuperviseExit \/ SuperviseReturn \/ ShutdownBegin \/ ShutdownInterrupt
           \/ ShutdownFinish \/ CompletionSignal
  BY <1>7 DEF SuperviseWake, SuperviseExit, SuperviseReturn, ShutdownBegin, ShutdownInterrupt, ShutdownFinish,
              CompletionSignal, handles
<1>8. ASSUME NEW t \in Tasks, FFIComplete(t) \/ TimerFire(t) PROVE est'[e] = est[e]
  BY <1>8 DEF FFIComplete, TimerFire, handles
<1>9. CASE RunStep
  BY <1>9, RunPhases DEF rest, handles
<1>10. CASE UNCHANGED vars
  BY <1>10 DEF vars, working, handles
<1>11. QED
  BY <1>1, <1>2, <1>3, <1>4, <1>5, <1>6, <1>7, <1>8, <1>9, <1>10 DEF Next, Progress, Request, HostStep, SupervisorStep, ShutdownStep

\* Cancel, Interrupt, Shutdown and a late outcome leave a published result
\* alone (capture, cancelOwned, applyRequestedCancellationsLocked).
THEOREM ResultsStay == Spec => ResultStable
<1>1. HInv /\ [Next]_vars => [\A e \in Execs : est[e] \in Terminal => est'[e] = est[e]]_vars
  BY EndedHandleStays
<1>2. QED
  BY <1>1, HandlesInvariance, PTL DEF Spec, ResultStable

\* cancelScope, a limit or a failure of one library scope leaves the tasks of
\* every other scope alone; what ends them as well ends the run or the instance
\* (scheduler_run.go, runPrepared, supervise, shutdownInstance).
THEOREM ScopesDoNotMeet == Spec => ScopesEndAlone
<1>1. ASSUME HInv, [Next]_vars
      PROVE  [\A t \in Tasks :
                /\ m.tk[t].state = "live" /\ m'.tk[t].state = "finished"
                /\ t # m.running
                => \/ cancelReq[m.tk[t].scope]
                   \/ m.running # NoTask /\ Scope(m) = m.tk[t].scope
                   \/ lifecycle' # "open" \/ outcome' = "failed"
                   \/ m.foreground \in Programs
                   \/ outcome' = "limited" /\ SpawnPassesLimit]_vars
  BY <1>1, AloneStep DEF Alone, Answers
<1>2. QED
  BY <1>1, HandlesInvariance, PTL DEF Spec, ScopesEndAlone

==============================================================================
