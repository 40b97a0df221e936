--------------------------- MODULE HotReloadProofs ---------------------------
(***************************************************************************)
(* The invariants of HotReload.tla, for any hosts, plans, scopes, frames   *)
(* and any limit of retained revisions.                                    *)
(***************************************************************************)
EXTENDS HotReload, FiniteSetTheorems, TLAPS

-----------------------------------------------------------------------------
(***************************************************************************)
(* The inductive invariant: the plans.                                     *)
(***************************************************************************)
PatchTypes ==
  /\ lifecycle \in Lifecycles
  /\ owner \in Hosts \cup {None, "vm"}
  /\ plan \in [Plans -> [state : PlanStates, base : Gens \cup {0}]]
  /\ pending \in Plans \cup {None}
  /\ host \in [Hosts -> [pc : Places, plan : Plans \cup {None}]]
  /\ down \in [pc : DownPlaces, plan : Plans \cup {None}]

\* Where a host is says what it has in hand: the owner while it checks and clears,
\* a committed plan until it is cleared, a closed one until it is unset.
HostInv ==
  \A h \in Hosts :
    /\ host[h].pc # "idle" => host[h].plan \in Plans
    /\ host[h].pc \in {"check", "clear"} => owner = h
    /\ host[h].pc = "clear" => plan[host[h].plan].state = "committed"
    /\ host[h].pc = "unset" => plan[host[h].plan].state = "closed"

\* The same for shutdownInstance; once it has begun nothing is started.
DownInv ==
  /\ down.pc # "none" => lifecycle \in {"closing", "closed"}
  /\ down.pc \in {"mark", "unset"} => down.plan \in Plans
  /\ down.pc = "unset" => plan[down.plan].state = "closed"
  /\ down.pc = "done" <=> current = 0

\* One host applies a plan that is being applied, none another plan.
ApplierInv ==
  \A p \in Plans :
    /\ plan[p].state = "applying" => \E h \in Hosts : Appliers(p) = {h}
    /\ plan[p].state # "applying" => Appliers(p) = {}

Clearing(p) == \E h \in Hosts : host[h].plan = p /\ host[h].pc = "clear"
Marking(p) ==
  \/ \E h \in Hosts : host[h].plan = p /\ host[h].pc = "mark"
  \/ down.plan = p /\ down.pc = "mark"
Unsetting(p) ==
  \/ \E h \in Hosts : host[h].plan = p /\ host[h].pc = "unset"
  \/ down.plan = p /\ down.pc = "unset"

PendingOf(p) ==
  /\ plan[p].state \in {"ready", "applying"} => pending = p
  /\ plan[p].state \in {"ready", "applying"} /\ Open => plan[p].base = current
  /\ pending = p /\ plan[p].state = "committed" => Clearing(p)
  /\ pending = p /\ plan[p].state = "closed" => Unsetting(p)
  /\ plan[p].state = "ready" /\ down.pc \notin {"none", "pending"} => Marking(p)

PendingInv == \A p \in Plans : PendingOf(p)

PatchInv == PatchTypes /\ HostInv /\ DownInv /\ ApplierInv /\ PendingInv

-----------------------------------------------------------------------------
(***************************************************************************)
(* The inductive invariant: the revisions.                                 *)
(***************************************************************************)
FrameType == [scope : Scopes \cup {None}, gen : Gens \cup {0}, pinned : BOOLEAN,
              holds : Gens \cup {0}, init : BOOLEAN]
TimerType == [gen : Gens \cup {0}, pinned : BOOLEAN]

WorkTypes ==
  /\ frame \in [Frames -> FrameType]
  /\ timer \in [Scopes -> TimerType]
  /\ globals \subseteq Gens
  /\ initState \in {"new", "initializing", "ready", "failed"}

RevTypes ==
  /\ current \in Gens \cup {0}
  /\ rev \in [Gens -> Revision]
  /\ retired \subseteq Gens
  /\ WorkTypes

Committed == {p \in Plans : plan[p].state = "committed"}

\* Each commit makes one generation.
Generations == current # 0 => current = 1 + Cardinality(Committed)

\* Frames and timers are made in a revision, and those that are gone pin nothing.
WorkInv ==
  /\ \A f \in Frames : IF f \in Used THEN frame[f].gen \in Gens ELSE ~frame[f].pinned
  /\ \A s \in Scopes : timer[s] # NoTimer => timer[s].gen \in Gens

\* Once Shutdown has ended the work there is none.
Quiet ==
  down.pc \in {"revisions", "done"} =>
    Used = {} /\ (\A s \in Scopes : timer[s] = NoTimer) /\ owner # "vm"

\* The revisions h are pinned by these frames and timers while c is the current
\* one: the pins are counted, a closed revision has none, and the list of retired
\* ones is exact.
Kept(h, frames, timers, c) ==
  /\ h.rev \in [Gens -> Revision] /\ h.retired \subseteq Gens
  /\ \A g \in Gens :
       /\ h.rev[g].pins = Pins(frames, timers, g)
       /\ h.rev[g].closed => h.rev[g].pins = 0 /\ h.rev[g].retired
       /\ g \in h.retired <=> h.rev[g].retired /\ ~h.rev[g].closed
       /\ g >= c => ~h.rev[g].retired

PinsExact == \A g \in Gens : rev[g].pins = Pins(Frames, Scopes, g)

HeapInv ==
  current # 0 =>
    /\ Kept(Heap, Frames, Scopes, current)
    /\ Cardinality(retired) + 1 <= MaxRetained
    /\ (\A s \in Scopes : ~Active(s)) => retired \subseteq globals

RevInv == RevTypes /\ Generations /\ WorkInv /\ Quiet /\ PinsExact /\ HeapInv

Inv == PatchInv /\ RevInv

-----------------------------------------------------------------------------
(***************************************************************************)
(* The plans: what one step writes.                                        *)
(***************************************************************************)
LEMMA NameFacts == /\ None \notin Hosts /\ None \notin Plans /\ None \notin Scopes
                   /\ "vm" \notin Hosts /\ None # "vm"
  BY HotReloadAssumption

LEMMA PlanSet ==
  ASSUME PatchTypes, NEW p \in Plans, NEW state \in PlanStates, SetPlan(p, state)
  PROVE  /\ plan' \in [Plans -> [state : PlanStates, base : Gens \cup {0}]]
         /\ plan'[p].state = state /\ plan'[p].base = plan[p].base
         /\ \A q \in Plans : q # p => plan'[q] = plan[q]
<1> DEFINE t == [plan[p] EXCEPT !.state = state]
           P == [state : PlanStates, base : Gens \cup {0}]
<1>1. plan \in [Plans -> P] /\ plan[p] \in P /\ plan' = [plan EXCEPT ![p] = t]
  BY DEF PatchTypes, SetPlan
<1>2. t \in P /\ t.state = state /\ t.base = plan[p].base
  BY <1>1
<1> HIDE DEF t
<1>3. plan' \in [Plans -> P] /\ plan'[p] = t /\ \A q \in Plans : q # p => plan'[q] = plan[q]
  BY <1>1, <1>2
<1>4. QED
  BY <1>2, <1>3

LEMMA HostGoes ==
  ASSUME PatchTypes, NEW h \in Hosts, NEW place \in Places, GoTo(h, place)
  PROVE  /\ host' \in [Hosts -> [pc : Places, plan : Plans \cup {None}]]
         /\ host'[h].pc = place /\ host'[h].plan = host[h].plan
         /\ \A k \in Hosts : k # h => host'[k] = host[k]
<1> DEFINE t == [host[h] EXCEPT !.pc = place]
           H == [pc : Places, plan : Plans \cup {None}]
<1>1. host \in [Hosts -> H] /\ host[h] \in H /\ host' = [host EXCEPT ![h] = t]
  BY DEF PatchTypes, GoTo
<1>2. t \in H /\ t.pc = place /\ t.plan = host[h].plan
  BY <1>1
<1> HIDE DEF t
<1>3. host' \in [Hosts -> H] /\ host'[h] = t /\ \A k \in Hosts : k # h => host'[k] = host[k]
  BY <1>1, <1>2
<1>4. QED
  BY <1>2, <1>3

LEMMA HostTakes ==
  ASSUME PatchTypes, NEW h \in Hosts, NEW place \in Places, NEW p \in Plans \cup {None},
         host' = [host EXCEPT ![h] = [pc |-> place, plan |-> p]]
  PROVE  /\ host' \in [Hosts -> [pc : Places, plan : Plans \cup {None}]]
         /\ host'[h].pc = place /\ host'[h].plan = p
         /\ \A k \in Hosts : k # h => host'[k] = host[k]
  BY DEF PatchTypes

LEMMA HostFinishes ==
  ASSUME PatchTypes, NEW h \in Hosts, Finish(h), Leave(h)
  PROVE  /\ host' \in [Hosts -> [pc : Places, plan : Plans \cup {None}]]
         /\ host'[h].pc = "idle"
         /\ \A k \in Hosts : k # h => host'[k] = host[k]
         /\ owner' \in Hosts \cup {None, "vm"}
         /\ \A k \in Hosts : k # h /\ owner = k => owner' = k
<1>1. "idle" \in Places
  BY DEF Places
<1>2. /\ host' \in [Hosts -> [pc : Places, plan : Plans \cup {None}]]
      /\ host'[h].pc = "idle"
      /\ \A k \in Hosts : k # h => host'[k] = host[k]
  BY <1>1, HostTakes DEF Finish
<1>3. QED
  BY <1>2 DEF Leave, PatchTypes

-----------------------------------------------------------------------------
(***************************************************************************)
(* The plans: the steps.                                                   *)
(***************************************************************************)
\* The program takes and leaves the owner while no host has it, and may fail.
LEMMA PatchProgram ==
  ASSUME PatchInv, UNCHANGED patches, UNCHANGED current,
         lifecycle' = lifecycle \/ (Open /\ lifecycle' = "faulted"),
         owner' = owner \/ (owner \in {None, "vm"} /\ owner' \in {None, "vm"})
  PROVE  PatchInv'
<1>1. UNCHANGED <<plan, pending, host, down, current>>
  BY DEF patches
<1>2. PatchTypes'
  BY <1>1 DEF PatchInv, PatchTypes, Lifecycles
<1>3. HostInv'
  BY <1>1, NameFacts DEF PatchInv, HostInv
<1>4. DownInv' /\ (Open' => Open)
  BY <1>1 DEF PatchInv, DownInv, Open
<1>5. ApplierInv' /\ PendingInv'
  BY <1>1, <1>4 DEF PatchInv, ApplierInv, PendingInv, PendingOf, Appliers, Clearing, Marking, Unsetting
<1>6. QED
  BY <1>2, <1>3, <1>4, <1>5 DEF PatchInv

LEMMA PatchPrepare ==
  ASSUME PatchInv, current \in Gens, NEW p \in Plans, PreparePatch(p)
  PROVE  PatchInv'
<1>1. /\ Open /\ owner = None /\ pending = None /\ plan[p].state = "none"
      /\ plan' = [plan EXCEPT ![p] = [state |-> "ready", base |-> current]] /\ pending' = p
      /\ UNCHANGED <<lifecycle, owner, current, host, down>>
  BY DEF PreparePatch, revisions
<1>2. /\ plan' \in [Plans -> [state : PlanStates, base : Gens \cup {0}]]
      /\ plan'[p].state = "ready" /\ plan'[p].base = current
      /\ \A q \in Plans : q # p => plan'[q] = plan[q]
  BY <1>1 DEF PatchInv, PatchTypes, PlanStates
<1>3. PatchTypes'
  BY <1>1, <1>2 DEF PatchInv, PatchTypes
<1>4. HostInv' /\ DownInv'
  BY <1>1, <1>2 DEF PatchInv, HostInv, DownInv
<1>5. ApplierInv'
  BY <1>1, <1>2 DEF PatchInv, ApplierInv, Appliers
<1>6. down.pc = "none"
  BY <1>1 DEF PatchInv, DownInv, Open
<1>7. PendingInv'
  BY <1>1, <1>2, <1>6, NameFacts DEF PatchInv, PendingInv, PendingOf, Open
<1>8. QED
  BY <1>3, <1>4, <1>5, <1>7 DEF PatchInv

LEMMA PatchTake ==
  ASSUME PatchInv, NEW h \in Hosts, NEW p \in Plans, ApplyTake(h, p)
  PROVE  PatchInv'
<1>1. /\ host[h].pc = "idle" /\ plan[p].state = "ready" /\ SetPlan(p, "applying")
      /\ host' = [host EXCEPT ![h] = [pc |-> "enter", plan |-> p]]
      /\ UNCHANGED <<lifecycle, owner, current, pending, down>>
  BY DEF ApplyTake, At, revisions
<1>2. /\ plan' \in [Plans -> [state : PlanStates, base : Gens \cup {0}]]
      /\ plan'[p].state = "applying" /\ plan'[p].base = plan[p].base
      /\ \A q \in Plans : q # p => plan'[q] = plan[q]
  BY <1>1, PlanSet DEF PatchInv, PlanStates
<1>3. /\ host' \in [Hosts -> [pc : Places, plan : Plans \cup {None}]]
      /\ host'[h].pc = "enter" /\ host'[h].plan = p
      /\ \A k \in Hosts : k # h => host'[k] = host[k]
  BY <1>1, HostTakes DEF PatchInv, Places
<1>4. PatchTypes'
  BY <1>1, <1>2, <1>3 DEF PatchInv, PatchTypes
<1>5. HostInv' /\ DownInv'
  BY <1>1, <1>2, <1>3 DEF PatchInv, HostInv, DownInv
<1>6. ApplierInv'
  <2>1. Appliers(p)' = {h}
    BY <1>1, <1>3 DEF Appliers, PatchInv, ApplierInv
  <2>2. \A q \in Plans : q # p => Appliers(q)' = Appliers(q)
    BY <1>1, <1>3 DEF Appliers
  <2>3. QED
    BY <1>2, <2>1, <2>2 DEF PatchInv, ApplierInv
<1>7. PendingInv'
  <2>1. \A q \in Plans : q # p =>
          /\ (Clearing(q) => Clearing(q)') /\ (Marking(q) => Marking(q)')
          /\ (Unsetting(q) => Unsetting(q)')
    BY <1>1, <1>3 DEF Clearing, Marking, Unsetting
  <2>2. QED
    BY <1>1, <1>2, <2>1 DEF PatchInv, PendingInv, PendingOf, Open
<1>8. QED
  BY <1>4, <1>5, <1>6, <1>7 DEF PatchInv

\* A host takes the owner or gives up, and a refused one gives up: the plan stays
\* in its hands.
LEMMA PatchEnter ==
  ASSUME PatchInv, NEW h \in Hosts, ApplyEnter(h) \/ ApplyRefused(h)
  PROVE  PatchInv'
<1>1. /\ host[h].pc \in {"enter", "check"}
      /\ UNCHANGED <<lifecycle, current, plan, pending, down>>
      /\ \/ owner = None /\ owner' = h /\ GoTo(h, "check")
         \/ UNCHANGED owner /\ GoTo(h, "fail")
  BY DEF ApplyEnter, ApplyRefused, At, revisions
<1>2. /\ host' \in [Hosts -> [pc : Places, plan : Plans \cup {None}]]
      /\ host'[h].plan = host[h].plan
      /\ \A k \in Hosts : k # h => host'[k] = host[k]
      /\ \/ owner = None /\ owner' = h /\ host'[h].pc = "check"
         \/ UNCHANGED owner /\ host'[h].pc = "fail"
  BY <1>1, HostGoes DEF PatchInv, Places
<1>3. PatchTypes'
  BY <1>1, <1>2 DEF PatchInv, PatchTypes
<1>4. HostInv' /\ DownInv'
  BY <1>1, <1>2, NameFacts DEF PatchInv, HostInv, DownInv
<1>5. ApplierInv'
  <2>1. \A q \in Plans : Appliers(q)' = Appliers(q)
    BY <1>1, <1>2 DEF Appliers
  <2>2. QED
    BY <1>1, <2>1 DEF PatchInv, ApplierInv
<1>6. PendingInv'
  <2>1. \A q \in Plans :
          /\ (Clearing(q) => Clearing(q)') /\ (Marking(q) => Marking(q)')
          /\ (Unsetting(q) => Unsetting(q)')
    BY <1>1, <1>2 DEF Clearing, Marking, Unsetting
  <2>2. QED
    BY <1>1, <2>1 DEF PatchInv, PendingInv, PendingOf, Open
<1>7. QED
  BY <1>3, <1>4, <1>5, <1>6 DEF PatchInv

\* No other plan can still be committed, so none is left with a stale base.
LEMMA PatchCommit ==
  ASSUME PatchInv, NEW h \in Hosts, ApplyCommit(h), current' # 0
  PROVE  PatchInv'
<1>0. PICK p \in Plans : p = host[h].plan
  BY DEF ApplyCommit, At, PatchInv, HostInv
<1>1. /\ host[h].pc = "check" /\ Open /\ SetPlan(p, "committed") /\ GoTo(h, "clear")
      /\ UNCHANGED <<lifecycle, owner, pending, down>>
  BY <1>0 DEF ApplyCommit, Admissible, At
<1>2. h \in Appliers(p) /\ owner = h
  BY <1>0, <1>1 DEF PatchInv, HostInv, Appliers
<1>3. plan[p].state = "applying" /\ Appliers(p) = {h}
  BY <1>2 DEF PatchInv, ApplierInv
<1>4. /\ plan' \in [Plans -> [state : PlanStates, base : Gens \cup {0}]]
      /\ plan'[p].state = "committed"
      /\ \A q \in Plans : q # p => plan'[q] = plan[q]
  BY <1>1, PlanSet DEF PatchInv, PlanStates
<1>5. /\ host' \in [Hosts -> [pc : Places, plan : Plans \cup {None}]]
      /\ host'[h].pc = "clear" /\ host'[h].plan = p
      /\ \A k \in Hosts : k # h => host'[k] = host[k]
  BY <1>0, <1>1, HostGoes DEF PatchInv, Places
<1>6. pending = p /\ down.pc = "none"
  BY <1>1, <1>2, <1>3 DEF PatchInv, PendingInv, PendingOf, DownInv, Open
<1>7. PatchTypes'
  BY <1>1, <1>4, <1>5 DEF PatchInv, PatchTypes
<1>8. HostInv'
  BY <1>1, <1>2, <1>3, <1>4, <1>5 DEF PatchInv, HostInv
<1>9. DownInv'
  BY <1>1, <1>6 DEF PatchInv, DownInv
<1>10. ApplierInv'
  <2>1. Appliers(p)' = {}
    BY <1>3, <1>5 DEF Appliers
  <2>2. \A q \in Plans : q # p => Appliers(q)' = Appliers(q)
    BY <1>0, <1>5 DEF Appliers
  <2>3. QED
    BY <1>4, <2>1, <2>2 DEF PatchInv, ApplierInv
<1>11. PendingInv'
  <2>1. ASSUME NEW q \in Plans, q # p
        PROVE  plan'[q].state \notin {"ready", "applying"} /\ pending' # q
    BY <1>1, <1>4, <1>6, <2>1 DEF PatchInv, PendingInv, PendingOf
  <2>2. QED
    BY <1>4, <1>5, <2>1 DEF PendingInv, PendingOf, Clearing
<1>12. QED
  BY <1>7, <1>8, <1>9, <1>10, <1>11 DEF PatchInv

\* ApplyPatch and Close take a plan that is over from Instance.pendingPatch.
LEMMA PatchOver ==
  ASSUME PatchInv, NEW h \in Hosts, ApplyClear(h) \/ CloseUnset(h)
  PROVE  PatchInv'
<1>0. PICK p \in Plans : p = host[h].plan
  BY DEF ApplyClear, CloseUnset, At, PatchInv, HostInv
<1>1. /\ host[h].pc \in {"clear", "unset"} /\ Finish(h) /\ Leave(h)
      /\ pending' = (IF pending = p THEN None ELSE pending)
      /\ UNCHANGED <<lifecycle, current, plan, down>>
  BY <1>0 DEF ApplyClear, CloseUnset, At, revisions
<1>2. plan[p].state \in {"committed", "closed"}
  BY <1>0, <1>1 DEF PatchInv, HostInv
<1>3. /\ host' \in [Hosts -> [pc : Places, plan : Plans \cup {None}]]
      /\ host'[h].pc = "idle"
      /\ \A k \in Hosts : k # h => host'[k] = host[k]
      /\ owner' \in Hosts \cup {None, "vm"}
      /\ \A k \in Hosts : k # h /\ owner = k => owner' = k
  BY <1>1, HostFinishes DEF PatchInv
<1>5. PatchTypes'
  BY <1>1, <1>3 DEF PatchInv, PatchTypes
<1>6. HostInv' /\ DownInv'
  BY <1>1, <1>3 DEF PatchInv, HostInv, DownInv
<1>7. ApplierInv'
  <2>1. \A q \in Plans : Appliers(q)' = Appliers(q)
    BY <1>1, <1>3 DEF Appliers
  <2>2. QED
    BY <1>1, <2>1 DEF PatchInv, ApplierInv
<1>8. PendingInv'
  <2>1. \A q \in Plans : q # p =>
          /\ (Clearing(q) => Clearing(q)') /\ (Marking(q) => Marking(q)')
          /\ (Unsetting(q) => Unsetting(q)')
    BY <1>0, <1>1, <1>3 DEF Clearing, Marking, Unsetting
  <2>2. ASSUME NEW q \in Plans
        PROVE  /\ pending' = q => pending = q /\ q # p
               /\ plan[q].state \in {"ready", "applying"} => q # p
    BY <1>1, <1>2, <2>2, NameFacts
  <2>3. QED
    BY <1>1, <2>1, <2>2 DEF PatchInv, PendingInv, PendingOf, Open
<1>9. QED
  BY <1>5, <1>6, <1>7, <1>8 DEF PatchInv

\* A failed plan is ready again until it is marked.
LEMMA PatchFail ==
  ASSUME PatchInv, NEW h \in Hosts, FailReady(h)
  PROVE  PatchInv'
<1>0. PICK p \in Plans : p = host[h].plan
  BY DEF FailReady, At, PatchInv, HostInv
<1>1. host[h].pc = "fail" /\ GoTo(h, "mark") /\ UNCHANGED <<lifecycle, owner, current, pending, down>>
  BY DEF FailReady, At, revisions
<1>2. h \in Appliers(p)
  BY <1>0, <1>1 DEF PatchInv, HostInv, Appliers
<1>3. plan[p].state = "applying" /\ Appliers(p) = {h}
  BY <1>2 DEF PatchInv, ApplierInv
<1>4. SetPlan(p, "ready")
  BY <1>0, <1>3 DEF FailReady
<1>5. /\ plan' \in [Plans -> [state : PlanStates, base : Gens \cup {0}]]
      /\ plan'[p].state = "ready" /\ plan'[p].base = plan[p].base
      /\ \A q \in Plans : q # p => plan'[q] = plan[q]
  BY <1>4, PlanSet DEF PatchInv, PlanStates
<1>6. /\ host' \in [Hosts -> [pc : Places, plan : Plans \cup {None}]]
      /\ host'[h].pc = "mark" /\ host'[h].plan = p
      /\ \A k \in Hosts : k # h => host'[k] = host[k]
  BY <1>0, <1>1, HostGoes DEF PatchInv, Places
<1>8. PatchTypes'
  BY <1>1, <1>5, <1>6 DEF PatchInv, PatchTypes
<1>9. HostInv'
  BY <1>1, <1>3, <1>5, <1>6 DEF PatchInv, HostInv
<1>10. DownInv'
  BY <1>1, <1>3, <1>5 DEF PatchInv, DownInv
<1>11. ApplierInv'
  <2>1. Appliers(p)' = {}
    BY <1>3, <1>6 DEF Appliers
  <2>2. \A q \in Plans : q # p => Appliers(q)' = Appliers(q)
    BY <1>0, <1>6 DEF Appliers
  <2>3. QED
    BY <1>5, <2>1, <2>2 DEF PatchInv, ApplierInv
<1>12. PendingInv'
  <2>1. \A q \in Plans : q # p =>
          /\ (Clearing(q) => Clearing(q)') /\ (Marking(q) => Marking(q)')
          /\ (Unsetting(q) => Unsetting(q)')
    BY <1>1, <1>0, <1>6 DEF Clearing, Marking, Unsetting
  <2>2. Marking(p)'
    BY <1>6 DEF Marking
  <2>3. QED
    BY <1>1, <1>3, <1>5, <2>1, <2>2 DEF PatchInv, PendingInv, PendingOf, Open
<1>13. QED
  BY <1>8, <1>9, <1>10, <1>11, <1>12 DEF PatchInv

LEMMA PatchCloseBegin ==
  ASSUME PatchInv, NEW h \in Hosts, NEW p \in Plans, CloseBegin(h, p)
  PROVE  PatchInv'
<1>1. /\ host[h].pc = "idle" /\ host' = [host EXCEPT ![h] = [pc |-> "mark", plan |-> p]]
      /\ UNCHANGED <<lifecycle, owner, current, plan, pending, down>>
  BY DEF CloseBegin, At, revisions
<1>2. /\ host' \in [Hosts -> [pc : Places, plan : Plans \cup {None}]]
      /\ host'[h].pc = "mark" /\ host'[h].plan = p
      /\ \A k \in Hosts : k # h => host'[k] = host[k]
  BY <1>1, HostTakes DEF PatchInv, Places
<1>3. PatchTypes'
  BY <1>1, <1>2 DEF PatchInv, PatchTypes
<1>4. HostInv' /\ DownInv'
  BY <1>1, <1>2 DEF PatchInv, HostInv, DownInv
<1>5. ApplierInv'
  <2>1. \A q \in Plans : Appliers(q)' = Appliers(q)
    BY <1>1, <1>2 DEF Appliers
  <2>2. QED
    BY <1>1, <2>1 DEF PatchInv, ApplierInv
<1>6. PendingInv'
  <2>1. \A q \in Plans :
          /\ (Clearing(q) => Clearing(q)') /\ (Marking(q) => Marking(q)')
          /\ (Unsetting(q) => Unsetting(q)')
    BY <1>1, <1>2 DEF Clearing, Marking, Unsetting
  <2>2. QED
    BY <1>1, <2>1 DEF PatchInv, PendingInv, PendingOf, Open
<1>7. QED
  BY <1>3, <1>4, <1>5, <1>6 DEF PatchInv

\* Close ends a plan that is ready, and leaves any other alone.
LEMMA PatchCloseMark ==
  ASSUME PatchInv, NEW h \in Hosts, CloseMark(h)
  PROVE  PatchInv'
<1>1. PICK p \in Plans : p = host[h].plan
  BY DEF CloseMark, At, PatchInv, HostInv
<1>2. host[h].pc = "mark" /\ UNCHANGED <<lifecycle, current, pending, down>>
  BY DEF CloseMark, At, revisions
<1>3. /\ plan' \in [Plans -> [state : PlanStates, base : Gens \cup {0}]]
      /\ \A q \in Plans :
           plan'[q] = plan[q] \/ (q = p /\ plan[q].state = "ready" /\ plan'[q].state = "closed")
      /\ host' \in [Hosts -> [pc : Places, plan : Plans \cup {None}]]
      /\ \A k \in Hosts : k # h => host'[k] = host[k]
      /\ \/ host'[h].pc = "unset" /\ host'[h].plan = p /\ plan'[p].state = "closed"
         \/ host'[h].pc = "idle" /\ plan[p].state # "ready" /\ plan' = plan
      /\ owner' \in Hosts \cup {None, "vm"}
      /\ \A k \in Hosts : k # h /\ owner = k => owner' = k
  <2>1. CASE plan[p].state = "ready"
    <3>1. SetPlan(p, "closed") /\ GoTo(h, "unset") /\ UNCHANGED owner
      BY <1>1, <2>1 DEF CloseMark
    <3>2. /\ plan' \in [Plans -> [state : PlanStates, base : Gens \cup {0}]]
          /\ plan'[p].state = "closed"
          /\ \A q \in Plans : q # p => plan'[q] = plan[q]
      BY <3>1, PlanSet DEF PatchInv, PlanStates
    <3>3. /\ host' \in [Hosts -> [pc : Places, plan : Plans \cup {None}]]
          /\ host'[h].pc = "unset" /\ host'[h].plan = p
          /\ \A k \in Hosts : k # h => host'[k] = host[k]
      BY <1>1, <3>1, HostGoes DEF PatchInv, Places
    <3>4. QED
      BY <2>1, <3>1, <3>2, <3>3 DEF PatchInv, PatchTypes
  <2>2. CASE plan[p].state # "ready"
    <3>1. UNCHANGED plan /\ Finish(h) /\ Leave(h)
      BY <1>1, <2>2 DEF CloseMark
    <3>2. QED
      BY <2>2, <3>1, HostFinishes DEF PatchInv, PatchTypes
  <2>3. QED
    BY <2>1, <2>2
<1>4. PatchTypes'
  BY <1>2, <1>3 DEF PatchInv, PatchTypes
<1>5. HostInv' /\ DownInv'
  <2>1. \A q \in Plans : plan[q].state \in {"committed", "closed"} => plan'[q] = plan[q]
    BY <1>3
  <2>2. HostInv'
    BY <1>2, <1>3, <2>1 DEF PatchInv, HostInv
  <2>3. DownInv'
    BY <1>2, <2>1 DEF PatchInv, DownInv
  <2>4. QED
    BY <2>2, <2>3
<1>6. ApplierInv'
  <2>1. \A q \in Plans : Appliers(q)' = Appliers(q)
    BY <1>2, <1>3 DEF Appliers
  <2>2. ASSUME NEW q \in Plans
        PROVE  \/ plan'[q] = plan[q]
               \/ plan[q].state = "ready" /\ plan'[q].state = "closed"
    BY <1>3
  <2>3. ASSUME NEW q \in Plans
        PROVE  plan'[q].state = "applying" <=> plan[q].state = "applying"
    BY <2>2
  <2>4. QED
    BY <2>1, <2>3 DEF PatchInv, ApplierInv
<1>7. PendingInv'
  <2>1. ASSUME NEW q \in Plans, q # p
        PROVE  PendingOf(q)'
    <3>1. /\ (Clearing(q) => Clearing(q)') /\ (Marking(q) => Marking(q)')
          /\ (Unsetting(q) => Unsetting(q)')
      BY <1>1, <1>2, <1>3, <2>1 DEF Clearing, Marking, Unsetting
    <3>2. plan'[q] = plan[q]
      BY <1>3, <2>1
    <3>3. QED
      BY <1>2, <3>1, <3>2 DEF PatchInv, PendingInv, PendingOf, Open
  <2>2. PendingOf(p)'
    <3>1. CASE host'[h].pc = "unset" /\ host'[h].plan = p /\ plan'[p].state = "closed"
      BY <3>1 DEF PendingOf, Unsetting
    <3>2. CASE host'[h].pc = "idle" /\ plan[p].state # "ready" /\ plan' = plan
      <4>1. (Clearing(p) => Clearing(p)') /\ (Unsetting(p) => Unsetting(p)')
        BY <1>2, <1>3 DEF Clearing, Unsetting
      <4>2. QED
        BY <1>2, <3>2, <4>1 DEF PatchInv, PendingInv, PendingOf, Open
    <3>3. QED
      BY <1>3, <3>1, <3>2
  <2>3. QED
    BY <2>1, <2>2 DEF PendingInv
<1>8. QED
  BY <1>4, <1>5, <1>6, <1>7 DEF PatchInv

\* Shutdown stops everything that asks for an open instance, and looks up the plan
\* that is pending then.
LEMMA PatchShutdownBegin ==
  ASSUME PatchInv, current # 0, ShutdownBegin \/ ShutdownPending
  PROVE  PatchInv'
<1>1. UNCHANGED <<owner, current, plan, pending, host>>
  BY DEF ShutdownBegin, ShutdownPending, revisions
<1>2. /\ down'.pc \in {"pending", "mark", "abort"} /\ down' \in [pc : DownPlaces, plan : Plans \cup {None}]
      /\ \/ lifecycle' = "closing"
         \/ lifecycle' = lifecycle /\ lifecycle \in {"closing", "closed"}
      /\ \/ down'.pc = "pending"
         \/ down'.pc = "mark" /\ down'.plan = pending /\ pending # None
         \/ down'.pc = "abort" /\ pending = None
      /\ down.pc \in {"none", "pending"}
  <2>1. down \in [pc : DownPlaces, plan : Plans \cup {None}] /\ pending \in Plans \cup {None}
    BY DEF PatchInv, PatchTypes
  <2>2. CASE ShutdownBegin
    BY <2>1, <2>2 DEF ShutdownBegin, DownPlaces
  <2>3. CASE ShutdownPending
    <3>1. lifecycle' = lifecycle /\ lifecycle \in {"closing", "closed"} /\ down.pc = "pending"
      BY <2>3 DEF ShutdownPending, PatchInv, DownInv
    <3>2. down' = [pc |-> IF pending = None THEN "abort" ELSE "mark", plan |-> pending]
      BY <2>3 DEF ShutdownPending
    <3>3. QED
      BY <2>1, <3>1, <3>2 DEF DownPlaces
  <2>4. QED
    BY <2>2, <2>3
<1>3. PatchTypes'
  BY <1>1, <1>2 DEF PatchInv, PatchTypes, Lifecycles
<1>4. HostInv' /\ ApplierInv'
  BY <1>1 DEF PatchInv, HostInv, ApplierInv, Appliers
<1>5. DownInv'
  BY <1>1, <1>2 DEF PatchInv, PatchTypes, DownInv
<1>6. PendingInv'
  <2>1. ASSUME NEW q \in Plans
        PROVE  PendingOf(q)'
    <3>1. (Clearing(q) => Clearing(q)') /\ (Unsetting(q) => Unsetting(q)')
      BY <1>1, <1>2 DEF Clearing, Unsetting
    <3>2. plan[q].state = "ready" /\ down'.pc # "pending" => Marking(q)'
      BY <1>2, NameFacts DEF PatchInv, PendingInv, PendingOf, Marking
    <3>3. ~Open'
      BY <1>2 DEF Open
    <3>4. QED
      BY <1>1, <1>2, <3>1, <3>2, <3>3 DEF PatchInv, PendingInv, PendingOf
  <2>2. QED
    BY <2>1 DEF PendingInv
<1>7. QED
  BY <1>3, <1>4, <1>5, <1>6 DEF PatchInv

LEMMA PatchShutdownMark ==
  ASSUME PatchInv, ShutdownMark
  PROVE  PatchInv'
<1>1. PICK p \in Plans : p = down.plan
  BY DEF ShutdownMark, PatchInv, DownInv
<1>2. down.pc = "mark" /\ UNCHANGED <<lifecycle, owner, current, pending, host>>
  BY DEF ShutdownMark, revisions
<1>3. /\ plan' \in [Plans -> [state : PlanStates, base : Gens \cup {0}]]
      /\ \A q \in Plans :
           plan'[q] = plan[q] \/ (q = p /\ plan[q].state = "ready" /\ plan'[q].state = "closed")
      /\ down' \in [pc : DownPlaces, plan : Plans \cup {None}] /\ down'.plan = p
      /\ \/ down'.pc = "unset" /\ plan'[p].state = "closed"
         \/ down'.pc = "abort" /\ plan[p].state # "ready" /\ plan' = plan
  <2>1. CASE plan[p].state = "ready"
    <3>1. SetPlan(p, "closed") /\ down' = [down EXCEPT !.pc = "unset"]
      BY <1>1, <2>1 DEF ShutdownMark
    <3>2. /\ plan' \in [Plans -> [state : PlanStates, base : Gens \cup {0}]]
          /\ plan'[p].state = "closed"
          /\ \A q \in Plans : q # p => plan'[q] = plan[q]
      BY <3>1, PlanSet DEF PatchInv, PlanStates
    <3>3. QED
      BY <1>1, <2>1, <3>1, <3>2 DEF PatchInv, PatchTypes, DownPlaces
  <2>2. CASE plan[p].state # "ready"
    BY <1>1, <2>2 DEF ShutdownMark, PatchInv, PatchTypes, DownPlaces
  <2>3. QED
    BY <2>1, <2>2
<1>4. PatchTypes'
  BY <1>2, <1>3 DEF PatchInv, PatchTypes
<1>5. HostInv' /\ DownInv'
  BY <1>2, <1>3 DEF PatchInv, HostInv, DownInv
<1>6. ApplierInv'
  <2>1. \A q \in Plans : Appliers(q)' = Appliers(q)
    BY <1>2 DEF Appliers
  <2>2. QED
    BY <1>3, <2>1 DEF PatchInv, ApplierInv
<1>7. PendingInv'
  <2>1. ASSUME NEW q \in Plans, q # p
        PROVE  PendingOf(q)'
    <3>1. /\ (Clearing(q) => Clearing(q)') /\ (Marking(q) => Marking(q)')
          /\ (Unsetting(q) => Unsetting(q)')
      BY <1>1, <1>2, <2>1 DEF Clearing, Marking, Unsetting
    <3>2. plan'[q] = plan[q]
      BY <1>3, <2>1
    <3>3. QED
      BY <1>2, <3>1, <3>2 DEF PatchInv, PendingInv, PendingOf, Open
  <2>2. PendingOf(p)'
    <3>1. CASE down'.pc = "unset" /\ plan'[p].state = "closed"
      BY <1>3, <3>1 DEF PendingOf, Unsetting
    <3>2. CASE down'.pc = "abort" /\ plan[p].state # "ready" /\ plan' = plan
      <4>1. (Clearing(p) => Clearing(p)') /\ (Unsetting(p) => Unsetting(p)')
        BY <1>2 DEF Clearing, Unsetting
      <4>2. QED
        BY <1>2, <3>2, <4>1 DEF PatchInv, PendingInv, PendingOf, Open
    <3>3. QED
      BY <1>3, <3>1, <3>2
  <2>3. QED
    BY <2>1, <2>2 DEF PendingInv
<1>8. QED
  BY <1>4, <1>5, <1>6, <1>7 DEF PatchInv

LEMMA PatchShutdownUnset ==
  ASSUME PatchInv, ShutdownUnset
  PROVE  PatchInv'
<1>1. PICK p \in Plans : p = down.plan
  BY DEF ShutdownUnset, PatchInv, DownInv
<1>2. /\ down.pc = "unset" /\ down' = [down EXCEPT !.pc = "abort"]
      /\ pending' = (IF pending = p THEN None ELSE pending)
      /\ UNCHANGED <<lifecycle, owner, current, plan, host>>
  BY <1>1 DEF ShutdownUnset, revisions
<1>3. down' \in [pc : DownPlaces, plan : Plans \cup {None}] /\ down'.pc = "abort"
  BY <1>2 DEF PatchInv, PatchTypes, DownPlaces
<1>4. PatchTypes'
  BY <1>2, <1>3 DEF PatchInv, PatchTypes
<1>5. HostInv' /\ DownInv' /\ ApplierInv'
  BY <1>2, <1>3 DEF PatchInv, HostInv, DownInv, ApplierInv, Appliers
<1>6. PendingInv'
  <2>1. ASSUME NEW q \in Plans
        PROVE  PendingOf(q)'
    <3>1. plan[p].state = "closed"
      BY <1>1, <1>2 DEF PatchInv, DownInv
    <3>2. /\ (Clearing(q) => Clearing(q)') /\ (Marking(q) => Marking(q)')
          /\ (q # p /\ Unsetting(q) => Unsetting(q)')
      BY <1>1, <1>2, <1>3 DEF Clearing, Marking, Unsetting
    <3>3. pending' = q => pending = q /\ q # p
      BY <1>2, NameFacts
    <3>4. QED
      BY <1>2, <1>3, <3>1, <3>2, <3>3 DEF PatchInv, PendingInv, PendingOf, Open
  <2>2. QED
    BY <2>1 DEF PendingInv
<1>7. QED
  BY <1>4, <1>5, <1>6 DEF PatchInv

LEMMA PatchShutdownEnd ==
  ASSUME PatchInv, current # 0, ShutdownAbort \/ ShutdownRevisions
  PROVE  PatchInv'
<1>1. UNCHANGED <<owner, plan, pending, host>>
  BY DEF ShutdownAbort, ShutdownRevisions
<1>2. /\ down' \in [pc : DownPlaces, plan : Plans \cup {None}]
      /\ \/ /\ down.pc = "abort" /\ down'.pc = "revisions"
            /\ current' = current /\ lifecycle' = lifecycle
         \/ /\ down.pc = "revisions" /\ down'.pc = "done"
            /\ current' = 0 /\ lifecycle' = "closed"
  BY DEF ShutdownAbort, ShutdownRevisions, Abort, PatchInv, PatchTypes, DownPlaces
<1>3. PatchTypes'
  BY <1>1, <1>2 DEF PatchInv, PatchTypes, Lifecycles
<1>4. HostInv' /\ DownInv' /\ ApplierInv' /\ ~Open'
  BY <1>1, <1>2 DEF PatchInv, HostInv, DownInv, ApplierInv, Appliers, Open
<1>5. PendingInv'
  <2>1. ASSUME NEW q \in Plans
        PROVE  PendingOf(q)'
    <3>1. /\ (Clearing(q) => Clearing(q)') /\ (Marking(q) => Marking(q)')
          /\ (Unsetting(q) => Unsetting(q)')
      BY <1>1, <1>2 DEF Clearing, Marking, Unsetting
    <3>2. QED
      BY <1>1, <1>2, <1>4, <3>1 DEF PatchInv, PendingInv, PendingOf
  <2>2. QED
    BY <2>1 DEF PendingInv
<1>6. QED
  BY <1>3, <1>4, <1>5 DEF PatchInv

-----------------------------------------------------------------------------
(***************************************************************************)
(* The revisions: the operators.                                           *)
(***************************************************************************)
LEMMA GensFacts == /\ Gens \subseteq Nat \ {0} /\ IsFiniteSet(Gens) /\ 0 \notin Gens
                   /\ 1 \in Gens /\ Cardinality(Plans) \in Nat
<1>1. Cardinality(Plans) \in Nat
  BY FS_CardinalityType, HotReloadAssumption
<1>2. IsFiniteSet(Gens)
  BY <1>1, FS_Interval DEF Gens
<1>3. QED
  BY <1>1, <1>2 DEF Gens

\* Pins of frames and timers that go are subtracted from the pins of all.
LEMMA PinsCount ==
  ASSUME NEW frames, frames \subseteq Frames, NEW timers, timers \subseteq Scopes,
         NEW fs, fs \subseteq frames, NEW ts, ts \subseteq timers, NEW g
  PROVE  /\ Pins(frames, timers, g) \in Nat /\ Pins(fs, ts, g) \in Nat
         /\ Pins(frames \ fs, timers \ ts, g) = Pins(frames, timers, g) - Pins(fs, ts, g)
         /\ Pins(fs, ts, g) <= Pins(frames, timers, g)
<1> DEFINE A == {f \in frames : frame[f].pinned /\ frame[f].gen = g}
           B == {s \in timers : timer[s].pinned /\ timer[s].gen = g}
           a == {f \in fs : frame[f].pinned /\ frame[f].gen = g}
           b == {s \in ts : timer[s].pinned /\ timer[s].gen = g}
<1>1. IsFiniteSet(A) /\ IsFiniteSet(B) /\ IsFiniteSet(a) /\ IsFiniteSet(b)
  <2>1. A \subseteq Frames /\ a \subseteq Frames /\ B \subseteq Scopes /\ b \subseteq Scopes
    OBVIOUS
  <2>2. QED
    BY <2>1, FS_Subset, HotReloadAssumption
<1>2. /\ Cardinality(A) \in Nat /\ Cardinality(B) \in Nat
      /\ Cardinality(a) \in Nat /\ Cardinality(b) \in Nat
  BY <1>1, FS_CardinalityType
<1>3. A \cap a = a /\ B \cap b = b
  OBVIOUS
<1>4. {f \in frames \ fs : frame[f].pinned /\ frame[f].gen = g} = A \ a
  OBVIOUS
<1>5. {s \in timers \ ts : timer[s].pinned /\ timer[s].gen = g} = B \ b
  OBVIOUS
<1>6. Pins(frames, timers, g) = Cardinality(A) + Cardinality(B)
  BY DEF Pins
<1>7. Pins(fs, ts, g) = Cardinality(a) + Cardinality(b)
  BY DEF Pins
<1>8. Pins(frames \ fs, timers \ ts, g) = Cardinality(A \ a) + Cardinality(B \ b)
  BY <1>4, <1>5 DEF Pins
<1>9. a \subseteq A /\ b \subseteq B
  OBVIOUS
<1> HIDE DEF A, B, a, b
<1>10. Cardinality(A \ a) = Cardinality(A) - Cardinality(a)
  <2>1. Cardinality(A \ a) = Cardinality(A) - Cardinality(A \cap a)
    BY <1>1, FS_Difference
  <2>2. QED
    BY <1>3, <2>1
<1>11. Cardinality(B \ b) = Cardinality(B) - Cardinality(b)
  <2>1. Cardinality(B \ b) = Cardinality(B) - Cardinality(B \cap b)
    BY <1>1, FS_Difference
  <2>2. QED
    BY <1>3, <2>1
<1>12. Cardinality(a) <= Cardinality(A)
  BY <1>1, <1>9, FS_Subset
<1>13. Cardinality(b) <= Cardinality(B)
  BY <1>1, <1>9, FS_Subset
<1>14. QED
  BY <1>2, <1>6, <1>7, <1>8, <1>10, <1>11, <1>12, <1>13

\* closeReadyLocked
LEMMA CloseReadyFields ==
  ASSUME NEW r \in Revision
  PROVE  /\ CloseReady(r) \in Revision
         /\ CloseReady(r).pins = r.pins /\ CloseReady(r).retained = r.retained
         /\ CloseReady(r).retired = r.retired
         /\ CloseReady(r).closed <=> r.closed \/ (r.retired /\ ~r.retained /\ r.pins = 0)
  BY DEF CloseReady, Revision

\* The retired revisions of h that a sweep for these globals has left, some of
\* their pins released since.
SweptFor(h, held) ==
  \A g \in h.retired : /\ h.rev[g].retained <=> g \in held
                       /\ h.rev[g].pins = 0 => g \in held

\* release: the pins that are left are those of the others, a revision closes with
\* the last, and what a sweep has left stays as it left it.
LEMMA ReleaseKeeps ==
  ASSUME NEW h, NEW c \in Nat, NEW frames, frames \subseteq Frames, NEW timers, timers \subseteq Scopes,
         NEW fs, fs \subseteq frames, NEW ts, ts \subseteq timers, Kept(h, frames, timers, c)
  PROVE  /\ Kept(Release(h, fs, ts), frames \ fs, timers \ ts, c)
         /\ Release(h, fs, ts).retired \subseteq h.retired
         /\ \A held : SweptFor(h, held) => SweptFor(Release(h, fs, ts), held)
<1> DEFINE r == Release(h, fs, ts)
           n(g) == Pins(fs, ts, g)
           less(g) == [h.rev[g] EXCEPT !.pins = @ - n(g)]
<1>1. h.rev \in [Gens -> Revision] /\ h.retired \subseteq Gens
  BY DEF Kept
<1>2. /\ r.rev = [g \in Gens |-> IF n(g) > 0 THEN CloseReady(less(g)) ELSE h.rev[g]]
      /\ r.retired = {g \in h.retired : ~r.rev[g].closed}
  BY DEF Release
<1>3. ASSUME NEW g \in Gens
      PROVE  /\ n(g) \in Nat /\ h.rev[g].pins \in Nat /\ h.rev[g].pins = Pins(frames, timers, g)
             /\ h.rev[g].pins - n(g) \in Nat
             /\ Pins(frames \ fs, timers \ ts, g) = h.rev[g].pins - n(g)
  <2>1. h.rev[g].pins = Pins(frames, timers, g)
    BY DEF Kept
  <2>2. /\ Pins(frames, timers, g) \in Nat /\ Pins(fs, ts, g) \in Nat
        /\ Pins(frames \ fs, timers \ ts, g) = Pins(frames, timers, g) - Pins(fs, ts, g)
        /\ Pins(fs, ts, g) <= Pins(frames, timers, g)
    BY PinsCount
  <2>3. QED
    BY <2>1, <2>2
<1>4. ASSUME NEW g \in Gens
      PROVE  /\ less(g) \in Revision /\ less(g).pins = h.rev[g].pins - n(g)
             /\ less(g).retained = h.rev[g].retained /\ less(g).retired = h.rev[g].retired
             /\ less(g).closed = h.rev[g].closed
  BY <1>1, <1>3 DEF Revision
<1>5. ASSUME NEW g \in Gens
      PROVE  /\ r.rev[g] \in Revision
             /\ r.rev[g].pins = h.rev[g].pins - n(g)
             /\ r.rev[g].retained = h.rev[g].retained /\ r.rev[g].retired = h.rev[g].retired
             /\ h.rev[g].closed => r.rev[g].closed
             /\ r.rev[g].closed => \/ h.rev[g].closed
                                   \/ h.rev[g].retired /\ h.rev[g].pins - n(g) = 0
             /\ n(g) > 0 /\ h.rev[g].retired /\ ~h.rev[g].retained /\ h.rev[g].pins - n(g) = 0 =>
                  r.rev[g].closed
  <2>1. CASE n(g) > 0
    <3>1. r.rev[g] = CloseReady(less(g))
      BY <1>2, <2>1
    <3> HIDE DEF r, less
    <3>2. QED
      BY <1>4, <3>1, CloseReadyFields
  <2>2. CASE ~(n(g) > 0)
    <3>1. r.rev[g] = h.rev[g] /\ n(g) = 0
      BY <1>2, <1>3, <2>2
    <3> HIDE DEF r, n
    <3>2. QED
      BY <1>1, <1>3, <3>1
  <2>3. QED
    BY <2>1, <2>2
<1>6. r.rev \in [Gens -> Revision] /\ r.retired \subseteq h.retired
  BY <1>2, <1>5
<1> HIDE DEF r, n, less
<1>7. ASSUME NEW g \in Gens
      PROVE  /\ r.rev[g].pins = Pins(frames \ fs, timers \ ts, g)
             /\ r.rev[g].closed => r.rev[g].pins = 0 /\ r.rev[g].retired
             /\ g \in r.retired <=> r.rev[g].retired /\ ~r.rev[g].closed
             /\ g >= c => ~r.rev[g].retired
  <2>1. /\ h.rev[g].closed => h.rev[g].pins = 0 /\ h.rev[g].retired
        /\ g \in h.retired <=> h.rev[g].retired /\ ~h.rev[g].closed
        /\ g >= c => ~h.rev[g].retired
    BY DEF Kept
  <2>2. g \in r.retired <=> g \in h.retired /\ ~r.rev[g].closed
    BY <1>2
  <2>3. r.rev[g].pins = h.rev[g].pins - n(g) /\ r.rev[g].retired = h.rev[g].retired
    BY <1>5
  <2>4. r.rev[g].pins = Pins(frames \ fs, timers \ ts, g)
    BY <1>3, <2>3
  <2>5. ASSUME r.rev[g].closed
        PROVE  r.rev[g].pins = 0 /\ r.rev[g].retired
    <3>1. CASE h.rev[g].closed
      <4>1. n(g) \in Nat /\ h.rev[g].pins - n(g) \in Nat /\ h.rev[g].pins = 0 /\ h.rev[g].retired
        BY <1>3, <2>1, <3>1
      <4>2. h.rev[g].pins - n(g) = 0
        BY <4>1
      <4>3. QED
        BY <2>3, <4>1, <4>2
    <3>2. CASE ~h.rev[g].closed
      BY <1>5, <2>3, <2>5, <3>2
    <3>3. QED
      BY <3>1, <3>2
  <2>6. g \in r.retired <=> r.rev[g].retired /\ ~r.rev[g].closed
    BY <1>5, <2>1, <2>2, <2>3
  <2>7. QED
    BY <2>1, <2>3, <2>4, <2>5, <2>6
<1>8. Kept(r, frames \ fs, timers \ ts, c)
  BY <1>1, <1>6, <1>7 DEF Kept
<1>9. ASSUME NEW held, SweptFor(h, held)
      PROVE  SweptFor(r, held)
  <2>1. SUFFICES ASSUME NEW g \in r.retired
                 PROVE  /\ r.rev[g].retained <=> g \in held
                        /\ r.rev[g].pins = 0 => g \in held
    BY DEF SweptFor
  <2>2. g \in Gens /\ g \in h.retired /\ ~r.rev[g].closed
    BY <1>1, <1>2, <2>1
  <2>3. h.rev[g].retired
    BY <2>2 DEF Kept
  <2>4. /\ h.rev[g].retained <=> g \in held
        /\ h.rev[g].pins = 0 => g \in held
    BY <1>9, <2>2 DEF SweptFor
  <2>5. ASSUME r.rev[g].pins = 0
        PROVE  g \in held
    <3>1. h.rev[g].pins - n(g) = 0
      BY <1>5, <2>2, <2>5
    <3>2. CASE n(g) > 0
      <4>1. h.rev[g].retained
        BY <1>5, <2>2, <2>3, <3>1, <3>2
      <4>2. QED
        BY <2>4, <4>1
    <3>3. CASE ~(n(g) > 0)
      BY <1>3, <2>2, <2>4, <3>1, <3>3
    <3>4. QED
      BY <3>2, <3>3
  <2>6. QED
    BY <1>5, <2>2, <2>4, <2>5
<1>10. QED
  BY <1>6, <1>8, <1>9 DEF r

\* sweepRetiredRevisions: no pin changes, and what is left is held by a global or
\* pinned.
LEMMA SweepKeeps ==
  ASSUME NEW h, NEW c \in Nat, NEW frames, NEW timers, NEW held, Kept(h, frames, timers, c)
  PROVE  /\ Kept(Sweep(h, held), frames, timers, c)
         /\ Sweep(h, held).retired \subseteq h.retired
         /\ SweptFor(Sweep(h, held), held)
<1> DEFINE r == Sweep(h, held)
           marked(g) == [h.rev[g] EXCEPT !.retained = g \in held]
<1>1. h.rev \in [Gens -> Revision] /\ h.retired \subseteq Gens
  BY DEF Kept
<1>2. /\ r.rev = [g \in Gens |-> IF g \in h.retired THEN CloseReady(marked(g)) ELSE h.rev[g]]
      /\ r.retired = {g \in h.retired : ~r.rev[g].closed}
  BY DEF Sweep
<1>3. ASSUME NEW g \in Gens
      PROVE  /\ marked(g) \in Revision /\ marked(g).pins = h.rev[g].pins
             /\ marked(g).retained <=> g \in held
             /\ marked(g).retired = h.rev[g].retired /\ marked(g).closed = h.rev[g].closed
  <2>1. h.rev[g] \in Revision /\ (g \in held) \in BOOLEAN
    BY <1>1
  <2>2. QED
    BY <2>1 DEF Revision
<1>4. ASSUME NEW g \in Gens
      PROVE  /\ r.rev[g] \in Revision
             /\ r.rev[g].pins = h.rev[g].pins /\ r.rev[g].retired = h.rev[g].retired
             /\ g \notin h.retired => r.rev[g] = h.rev[g]
             /\ g \in h.retired => /\ r.rev[g].retained <=> g \in held
                                   /\ r.rev[g].closed <=> \/ h.rev[g].closed
                                                          \/ /\ h.rev[g].retired /\ g \notin held
                                                             /\ h.rev[g].pins = 0
  <2>1. CASE g \in h.retired
    <3>1. r.rev[g] = CloseReady(marked(g))
      BY <1>2, <2>1
    <3> HIDE DEF r, marked
    <3>2. QED
      BY <1>3, <2>1, <3>1, CloseReadyFields
  <2>2. CASE g \notin h.retired
    <3>1. r.rev[g] = h.rev[g]
      BY <1>2, <2>2
    <3> HIDE DEF r
    <3>2. QED
      BY <1>1, <2>2, <3>1
  <2>3. QED
    BY <2>1, <2>2
<1>5. r.rev \in [Gens -> Revision] /\ r.retired \subseteq h.retired
  BY <1>2, <1>4
<1> HIDE DEF r, marked
<1>6. ASSUME NEW g \in Gens
      PROVE  /\ r.rev[g].pins = Pins(frames, timers, g)
             /\ r.rev[g].closed => r.rev[g].pins = 0 /\ r.rev[g].retired
             /\ g \in r.retired <=> r.rev[g].retired /\ ~r.rev[g].closed
             /\ g >= c => ~r.rev[g].retired
             /\ g \in r.retired => /\ r.rev[g].retained <=> g \in held
                                   /\ r.rev[g].pins = 0 => g \in held
  <2>1. /\ h.rev[g].pins = Pins(frames, timers, g)
        /\ h.rev[g].closed => h.rev[g].pins = 0 /\ h.rev[g].retired
        /\ g \in h.retired <=> h.rev[g].retired /\ ~h.rev[g].closed
        /\ g >= c => ~h.rev[g].retired
    BY DEF Kept
  <2>2. g \in r.retired <=> g \in h.retired /\ ~r.rev[g].closed
    BY <1>2
  <2>3. QED
    BY <1>4, <2>1, <2>2
<1>7. QED
  BY <1>1, <1>5, <1>6 DEF Kept, SweptFor, r

-----------------------------------------------------------------------------
(***************************************************************************)
(* The revisions: what a step has to keep.                                 *)
(***************************************************************************)
\* These frames and timers pin nothing any more, the others what they did.
PinsEnd(dead, gone) ==
  /\ \A f \in Frames : IF f \in dead THEN ~frame'[f].pinned
                       ELSE frame'[f].pinned = frame[f].pinned /\ frame'[f].gen = frame[f].gen
  /\ \A s \in Scopes : IF s \in gone THEN ~timer'[s].pinned
                       ELSE timer'[s].pinned = timer[s].pinned /\ timer'[s].gen = timer[s].gen

\* Pins left when some frames and timers pin nothing any more.
LEMMA PinsAfter ==
  ASSUME NEW dead, dead \subseteq Frames, NEW gone, gone \subseteq Scopes, NEW g,
         PinsEnd(dead, gone)
  PROVE  Pins(Frames, Scopes, g)' = Pins(Frames \ dead, Scopes \ gone, g)
<1>1. {f \in Frames : frame'[f].pinned /\ frame'[f].gen = g}
      = {f \in Frames \ dead : frame[f].pinned /\ frame[f].gen = g}
  BY DEF PinsEnd
<1>2. {s \in Scopes : timer'[s].pinned /\ timer'[s].gen = g}
      = {s \in Scopes \ gone : timer[s].pinned /\ timer[s].gen = g}
  BY DEF PinsEnd
<1>3. QED
  BY <1>1, <1>2 DEF Pins

\* Where nothing runs, nothing is pinned.
LEMMA IdlePins ==
  ASSUME WorkTypes', WorkInv', \A s \in Scopes : ~Active(s)', NEW g
  PROVE  Pins(Frames, Scopes, g)' = 0
<1>1. \A f \in Frames : ~frame'[f].pinned
  BY DEF WorkTypes, FrameType, WorkInv, Active, Used
<1>2. \A s \in Scopes : ~timer'[s].pinned
  BY DEF Active, NoTimer
<1>3. /\ Cardinality({f \in Frames : frame'[f].pinned /\ frame'[f].gen = g}) = 0
      /\ Cardinality({s \in Scopes : timer'[s].pinned /\ timer'[s].gen = g}) = 0
  <2>1. /\ {f \in Frames : frame'[f].pinned /\ frame'[f].gen = g} = {}
        /\ {s \in Scopes : timer'[s].pinned /\ timer'[s].gen = g} = {}
    BY <1>1, <1>2
  <2>2. Cardinality({}) = 0
    BY FS_EmptySet
  <2>3. QED
    BY <2>1, <2>2
<1>4. Pins(Frames, Scopes, g)'
      = Cardinality({f \in Frames : frame'[f].pinned /\ frame'[f].gen = g})
        + Cardinality({s \in Scopes : timer'[s].pinned /\ timer'[s].gen = g})
  BY DEF Pins
<1>5. QED
  BY <1>3, <1>4

\* After a sweep only what the globals hold is left where nothing runs.
LEMMA IdleSwept ==
  ASSUME WorkTypes', WorkInv', Kept(Heap, Frames, Scopes, current)', SweptFor(Heap, globals)',
         \A s \in Scopes : ~Active(s)'
  PROVE  retired' \subseteq globals'
<1>1. ASSUME NEW g \in retired'
      PROVE  g \in globals'
  <2>1. g \in Gens /\ rev'[g].pins = Pins(Frames, Scopes, g)'
    BY <1>1 DEF Kept, Heap
  <2>2. rev'[g].pins = 0
    BY <2>1, IdlePins
  <2>3. QED
    BY <1>1, <2>2 DEF SweptFor, Heap
<1>2. QED
  BY <1>1

\* Generations and the limit, for a step that commits nothing.
LEMMA RevFrom ==
  ASSUME RevInv, current # 0, current' = current, Committed' = Committed, Quiet',
         WorkTypes', WorkInv', Kept(Heap, Frames, Scopes, current)', retired' \subseteq retired,
         (\A s \in Scopes : ~Active(s)') => retired' \subseteq globals'
  PROVE  RevInv'
<1>1. RevTypes' /\ PinsExact'
  BY DEF RevInv, RevTypes, Kept, Heap, PinsExact
<1>2. Generations'
  BY DEF RevInv, Generations
<1>3. Cardinality(retired') + 1 <= MaxRetained
  <2>1. retired \subseteq Gens /\ Cardinality(retired) + 1 <= MaxRetained
    BY DEF RevInv, RevTypes, HeapInv
  <2>2. IsFiniteSet(retired)
    BY <2>1, GensFacts, FS_Subset
  <2>3. Cardinality(retired') <= Cardinality(retired)
    BY <2>2, FS_Subset
  <2>4. IsFiniteSet(retired')
    BY <2>2, FS_Subset
  <2>5. Cardinality(retired) \in Nat /\ Cardinality(retired') \in Nat /\ MaxRetained \in Nat
    BY <2>2, <2>4, FS_CardinalityType, HotReloadAssumption
  <2>6. QED
    BY <2>1, <2>3, <2>5
<1>4. HeapInv'
  BY <1>3 DEF HeapInv
<1>5. QED
  BY <1>1, <1>2, <1>4 DEF RevInv

\* A step after which these frames and timers pin nothing.
LEMMA RevStep ==
  ASSUME RevInv, current # 0, current' = current, Committed' = Committed, Quiet',
         WorkTypes', WorkInv',
         NEW h, SetHeap(h), h.retired \subseteq retired,
         NEW dead, dead \subseteq Frames, NEW gone, gone \subseteq Scopes,
         Kept(h, Frames \ dead, Scopes \ gone, current),
         PinsEnd(dead, gone),
         \/ \E s \in Scopes : Active(s)'
         \/ SweptFor(h, globals')
         \/ h.retired \subseteq globals'
  PROVE  RevInv'
<1>1. rev' = h.rev /\ retired' = h.retired
  BY DEF SetHeap
<1>2. \A g : Pins(Frames, Scopes, g)' = Pins(Frames \ dead, Scopes \ gone, g)
  BY PinsAfter
<1>3. Kept(Heap, Frames, Scopes, current)'
  BY <1>1, <1>2 DEF Kept, Heap
<1>4. SweptFor(h, globals') => SweptFor(Heap, globals)'
  BY <1>1 DEF SweptFor, Heap
<1>5. SweptFor(Heap, globals)' /\ (\A s \in Scopes : ~Active(s)') => retired' \subseteq globals'
  BY <1>3, IdleSwept
<1>6. (\A s \in Scopes : ~Active(s)') => retired' \subseteq globals'
  BY <1>1, <1>4, <1>5
<1>7. QED
  BY <1>1, <1>3, <1>6, RevFrom

\* A step that pins the revision of a new frame or timer, unless it is closed.
LEMMA RevPin ==
  ASSUME RevInv, current # 0, current' = current, Committed' = Committed, Quiet',
         WorkTypes', WorkInv', NEW g \in Gens, SetHeap(Retain(Heap, g)),
         \A k \in Gens : Pins(Frames, Scopes, k)'
                         = Pins(Frames, Scopes, k) + (IF k = g /\ ~rev[g].closed THEN 1 ELSE 0),
         \E s \in Scopes : Active(s)'
  PROVE  RevInv'
<1>1. Kept(Heap, Frames, Scopes, current)
  BY DEF RevInv, HeapInv
<1>2. /\ rev \in [Gens -> Revision] /\ retired \subseteq Gens
      /\ \A k \in Gens : /\ rev[k].pins = Pins(Frames, Scopes, k)
                         /\ rev[k].closed => rev[k].pins = 0 /\ rev[k].retired
                         /\ k \in retired <=> rev[k].retired /\ ~rev[k].closed
                         /\ k >= current => ~rev[k].retired
  BY <1>1 DEF Kept, Heap
<1>3. /\ retired' = retired /\ rev' \in [Gens -> Revision]
      /\ \A k \in Gens :
           /\ rev'[k].pins = rev[k].pins + (IF k = g /\ ~rev[g].closed THEN 1 ELSE 0)
           /\ (rev'[k].closed <=> rev[k].closed) /\ (rev'[k].retired <=> rev[k].retired)
  <2>1. CASE rev[g].closed
    <3>1. rev' = rev /\ retired' = retired
      BY <2>1 DEF SetHeap, Retain, Heap
    <3>2. QED
      BY <1>2, <2>1, <3>1 DEF Revision
  <2>2. CASE ~rev[g].closed
    <3> DEFINE t == [rev[g] EXCEPT !.pins = @ + 1]
    <3>1. rev' = [rev EXCEPT ![g] = t] /\ retired' = retired
      BY <2>2 DEF SetHeap, Retain, Heap
    <3>2. rev[g] \in Revision
      BY <1>2
    <3>3. /\ t \in Revision /\ t.pins = rev[g].pins + 1
          /\ t.closed = rev[g].closed /\ t.retired = rev[g].retired
      BY <3>2 DEF Revision
    <3> HIDE DEF t
    <3>4. \A k \in Gens : rev[k].pins \in Nat
      BY <1>2 DEF Revision
    <3>5. /\ rev' \in [Gens -> Revision] /\ rev'[g] = t
          /\ \A k \in Gens : k # g => rev'[k] = rev[k]
      BY <1>2, <3>1, <3>3
    <3>6. QED
      BY <2>2, <3>1, <3>3, <3>4, <3>5
  <2>3. QED
    BY <2>1, <2>2
<1>4. ASSUME NEW k \in Gens
      PROVE  /\ rev'[k].pins = Pins(Frames, Scopes, k)'
             /\ rev'[k].closed => rev'[k].pins = 0 /\ rev'[k].retired
             /\ k \in retired' <=> rev'[k].retired /\ ~rev'[k].closed
             /\ k >= current' => ~rev'[k].retired
  <2>1. rev'[k].pins = Pins(Frames, Scopes, k)'
    BY <1>2, <1>3
  <2>2. rev[k].closed => rev'[k].pins = 0 /\ rev[k].retired
    BY <1>2, <1>3
  <2>3. QED
    BY <1>2, <1>3, <2>1, <2>2
<1>5. Kept(Heap, Frames, Scopes, current)'
  BY <1>2, <1>3, <1>4 DEF Kept, Heap
<1>6. retired' \subseteq retired
  BY <1>3
<1>7. QED
  BY <1>5, <1>6, RevFrom

\* One more frame, or the timer of a scope that had none.
LEMMA PinsNewFrame ==
  ASSUME WorkTypes, WorkInv, NEW f \in Frames, f \notin Used, NEW t \in FrameType,
         frame' = [frame EXCEPT ![f] = t], UNCHANGED timer, NEW g
  PROVE  Pins(Frames, Scopes, g)'
         = Pins(Frames, Scopes, g) + (IF g = t.gen /\ t.pinned THEN 1 ELSE 0)
<1> DEFINE old == {e \in Frames : frame[e].pinned /\ frame[e].gen = g}
           now == {e \in Frames : frame'[e].pinned /\ frame'[e].gen = g}
           S == {s \in Scopes : timer[s].pinned /\ timer[s].gen = g}
<1>1. f \notin old
  BY DEF WorkInv
<1>2. IsFiniteSet(old) /\ IsFiniteSet(S)
  BY FS_Subset, HotReloadAssumption
<1>3. Cardinality(old) \in Nat /\ Cardinality(S) \in Nat
  BY <1>2, FS_CardinalityType
<1>4. now = (IF g = t.gen /\ t.pinned THEN old \cup {f} ELSE old)
  BY <1>1 DEF WorkTypes
<1>5. Pins(Frames, Scopes, g) = Cardinality(old) + Cardinality(S)
  BY DEF Pins
<1>6. Pins(Frames, Scopes, g)' = Cardinality(now) + Cardinality(S)
  BY DEF Pins
<1> HIDE DEF old, now, S
<1>7. Cardinality(old \cup {f}) = Cardinality(old) + 1
  BY <1>1, <1>2, FS_AddElement
<1>8. QED
  BY <1>3, <1>4, <1>5, <1>6, <1>7

LEMMA PinsNewTimer ==
  ASSUME WorkTypes, NEW s \in Scopes, timer[s] = NoTimer, NEW t \in TimerType,
         timer' = [timer EXCEPT ![s] = t], UNCHANGED frame, NEW g
  PROVE  Pins(Frames, Scopes, g)'
         = Pins(Frames, Scopes, g) + (IF g = t.gen /\ t.pinned THEN 1 ELSE 0)
<1> DEFINE old == {e \in Scopes : timer[e].pinned /\ timer[e].gen = g}
           now == {e \in Scopes : timer'[e].pinned /\ timer'[e].gen = g}
           F == {f \in Frames : frame[f].pinned /\ frame[f].gen = g}
<1>1. s \notin old
  BY DEF NoTimer
<1>2. IsFiniteSet(old) /\ IsFiniteSet(F)
  BY FS_Subset, HotReloadAssumption
<1>3. Cardinality(old) \in Nat /\ Cardinality(F) \in Nat
  BY <1>2, FS_CardinalityType
<1>4. now = (IF g = t.gen /\ t.pinned THEN old \cup {s} ELSE old)
  BY <1>1 DEF WorkTypes
<1>5. Pins(Frames, Scopes, g) = Cardinality(F) + Cardinality(old)
  BY DEF Pins
<1>6. Pins(Frames, Scopes, g)' = Cardinality(F) + Cardinality(now)
  BY DEF Pins
<1> HIDE DEF old, now, F
<1>7. Cardinality(old \cup {s}) = Cardinality(old) + 1
  BY <1>1, <1>2, FS_AddElement
<1>8. QED
  BY <1>3, <1>4, <1>5, <1>6, <1>7

\* Until Shutdown has ended the work there are revisions.
LEMMA Working ==
  ASSUME Inv, UNCHANGED down,
         Open \/ owner = "vm" \/ \E s \in Scopes : Active(s)
  PROVE  Quiet' /\ current # 0 /\ current \in Gens
<1>1. down.pc \notin {"revisions", "done"}
  BY DEF Inv, PatchInv, DownInv, RevInv, Quiet, Active, Open
<1>2. QED
  BY <1>1 DEF Inv, PatchInv, DownInv, RevInv, RevTypes, Quiet

-----------------------------------------------------------------------------
(***************************************************************************)
(* The revisions: the steps of the program.                                *)
(***************************************************************************)
LEMMA SameCommitted ==
  ASSUME UNCHANGED patches
  PROVE  Committed' = Committed /\ UNCHANGED down
BY DEF patches, Committed

\* Start, CallNamed and CallClosure.
LEMMA RevNewFrame ==
  ASSUME Inv, Open \/ owner = "vm", UNCHANGED <<current, timer, globals, patches>>,
         NEW f \in Frames, NEW s \in Scopes, NEW g \in Gens, NEW closure \in Gens \cup {0},
         NEW init \in BOOLEAN, NewFrame(f, s, g, closure, init),
         initState' \in {"new", "initializing", "ready", "failed"}
  PROVE  RevInv'
<1> DEFINE t == [scope |-> s, gen |-> g, pinned |-> ~rev[g].closed, holds |-> closure, init |-> init]
<1>1. Committed' = Committed /\ Quiet' /\ current # 0
  BY SameCommitted, Working
<1>2. RevInv /\ WorkTypes /\ WorkInv
  BY DEF Inv, RevInv, RevTypes
<1>3. f \notin Used /\ SetHeap(Retain(Heap, g)) /\ frame' = [frame EXCEPT ![f] = t]
  BY DEF NewFrame
<1>4. t \in FrameType /\ t.scope = s /\ t.gen = g /\ (t.pinned <=> ~rev[g].closed)
  BY DEF FrameType
<1> HIDE DEF t
<1>5. /\ frame' \in [Frames -> FrameType] /\ frame'[f] = t
      /\ \A e \in Frames : e # f => frame'[e] = frame[e]
  BY <1>2, <1>3, <1>4 DEF WorkTypes
<1>6. WorkTypes'
  BY <1>2, <1>5 DEF WorkTypes
<1>7. f \in Used' /\ s # None
  BY <1>4, <1>5, NameFacts DEF Used
<1>8. WorkInv'
  BY <1>2, <1>4, <1>5, <1>7 DEF WorkInv, Used
<1>9. Active(s)'
  BY <1>4, <1>5, <1>7 DEF Active
<1>10. \A k \in Gens : Pins(Frames, Scopes, k)'
                       = Pins(Frames, Scopes, k) + (IF k = g /\ ~rev[g].closed THEN 1 ELSE 0)
  BY <1>2, <1>3, <1>4, PinsNewFrame
<1>11. QED
  BY <1>1, <1>2, <1>3, <1>6, <1>8, <1>9, <1>10, RevPin

LEMMA RevStartTimer ==
  ASSUME Inv, NEW f \in Frames, StartTimer(f)
  PROVE  RevInv'
<1>1. /\ owner = "vm" /\ f \in Used /\ timer[frame[f].scope] = NoTimer
      /\ UNCHANGED <<current, frame, globals, initState, patches>>
  BY DEF StartTimer, Runs
<1>2. RevInv /\ WorkTypes /\ WorkInv
  BY DEF Inv, RevInv, RevTypes
<1>3. PICK s \in Scopes, g \in Gens : s = frame[f].scope /\ g = frame[f].gen
  BY <1>1, <1>2 DEF WorkTypes, FrameType, WorkInv, Used
<1>4. Committed' = Committed /\ Quiet' /\ current # 0
  BY <1>1, SameCommitted, Working
<1> DEFINE t == [gen |-> g, pinned |-> ~rev[g].closed]
<1>5. /\ t \in TimerType /\ t.gen = g /\ (t.pinned <=> ~rev[g].closed)
      /\ timer' = [timer EXCEPT ![s] = t]
  BY <1>3 DEF StartTimer, TimerType
<1> HIDE DEF t
<1>6. SetHeap(Retain(Heap, g)) /\ timer[s] = NoTimer
  BY <1>1, <1>3 DEF StartTimer
<1>7. timer' \in [Scopes -> TimerType] /\ timer'[s] = t /\ \A e \in Scopes : e # s => timer'[e] = timer[e]
  BY <1>2, <1>5 DEF WorkTypes
<1>8. WorkTypes'
  BY <1>1, <1>2, <1>7 DEF WorkTypes
<1>9. WorkInv'
  BY <1>1, <1>2, <1>5, <1>7 DEF WorkInv, Used
<1>10. Active(s)'
  BY <1>1, <1>3 DEF Active, Used
<1>11. \A k \in Gens : Pins(Frames, Scopes, k)'
                       = Pins(Frames, Scopes, k) + (IF k = g /\ ~rev[g].closed THEN 1 ELSE 0)
  BY <1>1, <1>2, <1>5, <1>6, PinsNewTimer
<1>12. QED
  BY <1>1, <1>2, <1>4, <1>6, <1>8, <1>9, <1>10, <1>11, RevPin

\* A step that ends these frames and timers.
LEMMA WorkEnds ==
  ASSUME WorkTypes, WorkInv, NEW dead, dead \subseteq Frames, NEW gone, gone \subseteq Scopes,
         frame' = [f \in Frames |-> IF f \in dead THEN NoFrame ELSE frame[f]],
         timer' = [s \in Scopes |-> IF s \in gone THEN NoTimer ELSE timer[s]],
         UNCHANGED globals, initState' \in {"new", "initializing", "ready", "failed"}
  PROVE  /\ WorkTypes' /\ WorkInv'
         /\ PinsEnd(dead, gone)
<1>1. NoFrame \in FrameType /\ NoFrame.scope = None /\ ~NoFrame.pinned
  BY DEF NoFrame, FrameType
<1>2. NoTimer \in TimerType /\ ~NoTimer.pinned
  BY DEF NoTimer, TimerType
<1>3. WorkTypes'
  BY <1>1, <1>2 DEF WorkTypes
<1>4. WorkInv'
  BY <1>1 DEF WorkInv, Used
<1>5. QED
  BY <1>1, <1>2, <1>3, <1>4 DEF PinsEnd

\* RunBegin, RunEnd, InitDone, StoreGlobal and ClearGlobal: no frame or timer comes
\* or goes.
LEMMA RevRuns ==
  ASSUME Inv, UNCHANGED <<current, patches>>, WorkTypes',
         owner = "vm" \/ \E s \in Scopes : Active(s),
         UNCHANGED timer,
         \A f \in Frames : /\ frame'[f].scope = frame[f].scope
                           /\ frame'[f].pinned = frame[f].pinned /\ frame'[f].gen = frame[f].gen,
         \/ SetHeap(Heap) /\ (globals \subseteq globals' \/ \E s \in Scopes : Active(s))
         \/ SetHeap(Sweep(Heap, globals)) /\ UNCHANGED globals
  PROVE  RevInv'
<1>1. Committed' = Committed /\ Quiet' /\ current # 0 /\ current \in Gens
  BY SameCommitted, Working
<1>2. RevInv /\ WorkInv /\ Kept(Heap, Frames, Scopes, current)
  BY <1>1 DEF Inv, RevInv, HeapInv
<1>3. WorkInv' /\ \A s \in Scopes : Active(s)' <=> Active(s)
  BY <1>2 DEF WorkInv, Active, Used
<1>4. /\ {} \subseteq Frames /\ {} \subseteq Scopes
      /\ PinsEnd({}, {})
  BY DEF PinsEnd
<1>5. current \in Nat
  BY <1>1, GensFacts
<1>6. CASE SetHeap(Heap) /\ (globals \subseteq globals' \/ \E s \in Scopes : Active(s))
  <2>1. Heap.retired \subseteq retired
    BY DEF Heap
  <2>2. (\E s \in Scopes : Active(s)') \/ Heap.retired \subseteq globals'
    BY <1>1, <1>2, <1>3, <1>6 DEF RevInv, HeapInv, Heap
  <2>3. Frames \ {} = Frames /\ Scopes \ {} = Scopes
    OBVIOUS
  <2>4. Kept(Heap, Frames \ {}, Scopes \ {}, current)
    BY <1>2, <2>3
  <2>5. QED
    BY <1>1, <1>2, <1>3, <1>4, <1>6, <2>1, <2>2, <2>4, RevStep
<1>7. CASE SetHeap(Sweep(Heap, globals)) /\ UNCHANGED globals
  <2> DEFINE h == Sweep(Heap, globals)
  <2>1. Kept(h, Frames, Scopes, current) /\ h.retired \subseteq retired /\ SweptFor(h, globals')
    BY <1>2, <1>5, <1>7, SweepKeeps DEF Heap
  <2>2. Frames \ {} = Frames /\ Scopes \ {} = Scopes
    OBVIOUS
  <2>3. Kept(h, Frames \ {}, Scopes \ {}, current) /\ SetHeap(h)
    BY <1>7, <2>1, <2>2
  <2> HIDE DEF h
  <2>4. QED
    BY <1>1, <1>2, <1>3, <1>4, <2>1, <2>3, RevStep
<1>8. QED
  BY <1>6, <1>7

\* These frames and timers end, and leave the revisions h.
Ends(h, dead, gone) ==
  /\ UNCHANGED <<current, globals>>
  /\ SetHeap(h) /\ h.retired \subseteq retired
  /\ dead \subseteq Frames /\ gone \subseteq Scopes
  /\ Kept(h, Frames \ dead, Scopes \ gone, current)
  /\ frame' = [f \in Frames |-> IF f \in dead THEN NoFrame ELSE frame[f]]
  /\ timer' = [s \in Scopes |-> IF s \in gone THEN NoTimer ELSE timer[s]]
  /\ initState' \in {"new", "initializing", "ready", "failed"}
  /\ \/ \E s \in Scopes : Active(s)'
     \/ SweptFor(h, globals)
     \/ h.retired \subseteq globals

LEMMA RevEnds ==
  ASSUME RevInv, current # 0, Committed' = Committed, Quiet',
         NEW h, NEW dead, NEW gone, Ends(h, dead, gone)
  PROVE  RevInv'
<1>1. WorkTypes /\ WorkInv
  BY DEF RevInv, RevTypes
<1>2. WorkTypes' /\ WorkInv' /\ PinsEnd(dead, gone)
  BY <1>1, WorkEnds DEF Ends
<1>3. /\ UNCHANGED <<current, globals>>
      /\ SetHeap(h) /\ h.retired \subseteq retired
      /\ dead \subseteq Frames /\ gone \subseteq Scopes
      /\ Kept(h, Frames \ dead, Scopes \ gone, current)
      /\ \/ \E s \in Scopes : Active(s)'
         \/ SweptFor(h, globals')
         \/ h.retired \subseteq globals'
  BY DEF Ends
<1>4. QED
  BY <1>2, <1>3, RevStep

LEMMA RevReturn ==
  ASSUME Inv, NEW f \in Frames, Return(f)
  PROVE  RevInv'
<1> DEFINE left == [frame EXCEPT ![f] = NoFrame]
           once == Release(Heap, {f}, {})
           h == Settled(once, frame[f].scope, left, timer)
<1>1. /\ owner = "vm" /\ f \in Used /\ frame' = left /\ SetHeap(h)
      /\ UNCHANGED <<current, timer, globals, initState, patches>>
  BY DEF Return, Runs
<1>2. /\ Committed' = Committed /\ Quiet' /\ current # 0 /\ current \in Nat
      /\ RevInv /\ WorkTypes /\ Kept(Heap, Frames, Scopes, current)
  BY <1>1, SameCommitted, Working, GensFacts DEF Inv, RevInv, RevTypes, HeapInv
<1>3. /\ {f} \subseteq Frames /\ {} \subseteq Scopes /\ Scopes \ {} = Scopes
      /\ left = [e \in Frames |-> IF e \in {f} THEN NoFrame ELSE frame[e]]
      /\ timer' = [s \in Scopes |-> IF s \in {} THEN NoTimer ELSE timer[s]]
      /\ initState' \in {"new", "initializing", "ready", "failed"}
  BY <1>1, <1>2 DEF WorkTypes
<1>4. Kept(once, Frames \ {f}, Scopes \ {}, current) /\ once.retired \subseteq retired
  BY <1>2, <1>3, ReleaseKeeps DEF Heap
<1>5. CASE timer[frame[f].scope] = NoTimer /\ \A e \in Frames : left[e].scope # frame[f].scope
  <2>1. h = Sweep(once, globals)
    BY <1>5 DEF Settled
  <2> HIDE DEF h, once, left
  <2>2. /\ Kept(h, Frames \ {f}, Scopes \ {}, current) /\ h.retired \subseteq retired
        /\ SweptFor(h, globals)
    BY <1>2, <1>4, <2>1, SweepKeeps
  <2>3. Ends(h, {f}, {})
    BY <1>1, <1>3, <2>2 DEF Ends
  <2>4. QED
    BY <1>2, <2>3, RevEnds
<1>6. CASE ~(timer[frame[f].scope] = NoTimer /\ \A e \in Frames : left[e].scope # frame[f].scope)
  <2>1. h = once
    BY <1>6 DEF Settled
  <2>2. PICK s \in Scopes : s = frame[f].scope /\ s # None
    BY <1>1, <1>2 DEF WorkTypes, FrameType, Used
  <2> HIDE DEF h, once, left
  <2>3. Active(s)'
    BY <1>1, <1>6, <2>2 DEF Active, Used
  <2>4. Ends(h, {f}, {})
    BY <1>1, <1>3, <1>4, <2>1, <2>3 DEF Ends
  <2>5. QED
    BY <1>2, <2>4, RevEnds
<1>7. QED
  BY <1>5, <1>6

LEMMA RevRemoveTimer ==
  ASSUME Inv, NEW s \in Scopes, RemoveTimer(s)
  PROVE  RevInv'
<1> DEFINE left == [timer EXCEPT ![s] = NoTimer]
           before == Settled(Heap, s, frame, left)
           h == Release(before, {}, {s})
<1>1. /\ owner = "vm" /\ timer' = left /\ SetHeap(h)
      /\ UNCHANGED <<current, frame, globals, initState, patches>>
  BY DEF RemoveTimer
<1>2. /\ Committed' = Committed /\ Quiet' /\ current # 0 /\ current \in Nat
      /\ RevInv /\ WorkTypes /\ Kept(Heap, Frames, Scopes, current)
  BY <1>1, SameCommitted, Working, GensFacts DEF Inv, RevInv, RevTypes, HeapInv
<1>3. /\ {s} \subseteq Scopes /\ {} \subseteq Frames
      /\ left = [e \in Scopes |-> IF e \in {s} THEN NoTimer ELSE timer[e]]
      /\ frame' = [f \in Frames |-> IF f \in {} THEN NoFrame ELSE frame[f]]
      /\ initState' \in {"new", "initializing", "ready", "failed"}
  BY <1>1, <1>2 DEF WorkTypes
<1>4. left[s] = NoTimer
  BY <1>2 DEF WorkTypes
<1>5. CASE \A f \in Frames : frame[f].scope # s
  <2>1. before = Sweep(Heap, globals)
    BY <1>4, <1>5 DEF Settled
  <2> HIDE DEF h, before, left
  <2>2. /\ Kept(before, Frames, Scopes, current) /\ before.retired \subseteq retired
        /\ SweptFor(before, globals)
    BY <1>2, <2>1, SweepKeeps DEF Heap
  <2>3. /\ Kept(h, Frames \ {}, Scopes \ {s}, current) /\ h.retired \subseteq before.retired
        /\ SweptFor(h, globals)
    BY <1>2, <1>3, <2>2, ReleaseKeeps DEF h
  <2>4. h.retired \subseteq retired
    BY <2>2, <2>3
  <2>5. Ends(h, {}, {s})
    BY <1>1, <1>3, <2>3, <2>4 DEF Ends
  <2>6. QED
    BY <1>2, <2>5, RevEnds
<1>6. CASE ~(\A f \in Frames : frame[f].scope # s)
  <2>1. before = Heap
    BY <1>6 DEF Settled
  <2> HIDE DEF h, before, left
  <2>2. Kept(h, Frames \ {}, Scopes \ {s}, current) /\ h.retired \subseteq before.retired
    BY <1>2, <1>3, <2>1, ReleaseKeeps DEF h
  <2>3. h.retired \subseteq retired
    BY <2>1, <2>2 DEF Heap
  <2>4. Active(s)'
    BY <1>1, <1>6, NameFacts DEF Active, Used
  <2>5. Ends(h, {}, {s})
    BY <1>1, <1>3, <2>2, <2>3, <2>4 DEF Ends
  <2>6. QED
    BY <1>2, <2>5, RevEnds
<1>7. QED
  BY <1>5, <1>6

\* abortQueuedTasks and cancelScope
LEMMA RevAbort ==
  ASSUME Inv, current # 0, NEW scopes, scopes \subseteq Scopes, Abort(scopes),
         Committed' = Committed, Quiet',
         scopes = Scopes \/ \E s \in scopes : Active(s)
  PROVE  RevInv'
<1> DEFINE dead == FramesOf(scopes)
<1>1. /\ UNCHANGED <<current, globals>>
      /\ frame' = [f \in Frames |-> IF f \in dead THEN NoFrame ELSE frame[f]]
      /\ timer' = [s \in Scopes |-> IF s \in scopes THEN NoTimer ELSE timer[s]]
  BY DEF Abort
<1>2. /\ current \in Nat /\ RevInv /\ WorkTypes /\ Kept(Heap, Frames, Scopes, current)
  BY GensFacts DEF Inv, RevInv, RevTypes, HeapInv
<1>3. initState' \in {"new", "initializing", "ready", "failed"}
  BY <1>2 DEF Abort, WorkTypes
<1>4. PICK early \in EndedFirst(scopes) :
        SetHeap(IF \E s \in scopes : Active(s)
                THEN Release(Sweep(Release(Heap, early, {}), globals), dead \ early, scopes)
                ELSE Heap)
  BY DEF Abort
<1>5. dead \subseteq Frames /\ early \subseteq dead
  BY DEF FramesOf, Used, EndedFirst
<1>6. CASE \E s \in scopes : Active(s)
  <2> DEFINE once == Release(Heap, early, {})
             swept == Sweep(once, globals)
             h == Release(swept, dead \ early, scopes)
  <2>1. SetHeap(h)
    BY <1>4, <1>6
  <2> HIDE DEF dead
  <2>2. Kept(once, Frames \ early, Scopes \ {}, current) /\ once.retired \subseteq retired
    <3>1. early \subseteq Frames /\ {} \subseteq Scopes
      BY <1>5
    <3>2. Kept(Heap, Frames, Scopes, current) /\ current \in Nat
      BY <1>2
    <3>3. Kept(once, Frames \ early, Scopes \ {}, current) /\ once.retired \subseteq Heap.retired
      BY <3>1, <3>2, ReleaseKeeps
    <3>4. QED
      BY <3>3 DEF Heap
  <2> HIDE DEF once
  <2>3. /\ Kept(swept, Frames \ early, Scopes \ {}, current) /\ swept.retired \subseteq retired
        /\ SweptFor(swept, globals)
    BY <1>2, <2>2, SweepKeeps
  <2> HIDE DEF swept
  <2>4. /\ Frames \ early \subseteq Frames /\ dead \ early \subseteq Frames \ early
        /\ Scopes \ {} \subseteq Scopes /\ scopes \subseteq Scopes \ {}
    BY <1>5
  <2>5. /\ Kept(h, (Frames \ early) \ (dead \ early), (Scopes \ {}) \ scopes, current)
        /\ h.retired \subseteq swept.retired /\ SweptFor(h, globals)
    BY <1>2, <2>3, <2>4, ReleaseKeeps
  <2> HIDE DEF h
  <2>6. (Frames \ early) \ (dead \ early) = Frames \ dead /\ (Scopes \ {}) \ scopes = Scopes \ scopes
    BY <1>5
  <2>7. Kept(h, Frames \ dead, Scopes \ scopes, current) /\ h.retired \subseteq retired
    BY <2>3, <2>5, <2>6
  <2>8. Ends(h, dead, scopes)
    BY <1>1, <1>3, <1>5, <2>1, <2>5, <2>7 DEF Ends
  <2>9. QED
    BY <1>2, <2>8, RevEnds
<1>7. CASE ~(\E s \in scopes : Active(s))
  <2>1. \A s \in Scopes : ~Active(s)
    BY <1>7
  <2>2. dead = {} /\ \A s \in Scopes : timer[s] = NoTimer
    BY <2>1 DEF Active, FramesOf
  <2>3. SetHeap(Heap) /\ Heap.retired \subseteq retired /\ Heap.retired \subseteq globals
    BY <1>2, <1>4, <1>7, <2>1 DEF RevInv, HeapInv, Heap
  <2>4. /\ {} \subseteq Frames /\ {} \subseteq Scopes
        /\ Frames \ {} = Frames /\ Scopes \ {} = Scopes
    OBVIOUS
  <2>5. frame' = [f \in Frames |-> IF f \in {} THEN NoFrame ELSE frame[f]]
    BY <1>1, <2>2
  <2>6. timer' = [s \in Scopes |-> IF s \in {} THEN NoTimer ELSE timer[s]]
    BY <1>1, <2>2
  <2>7. Kept(Heap, Frames \ {}, Scopes \ {}, current)
    BY <1>2, <2>4
  <2>8. Ends(Heap, {}, {})
    BY <1>1, <1>3, <2>3, <2>4, <2>5, <2>6, <2>7 DEF Ends
  <2>9. QED
    BY <1>2, <2>8, RevEnds
<1>8. QED
  BY <1>6, <1>7

-----------------------------------------------------------------------------
(***************************************************************************)
(* The revisions: the steps of patches and shutdown.                       *)
(***************************************************************************)
LEMMA RevSame ==
  ASSUME RevInv, UNCHANGED revisions, UNCHANGED work, Committed' = Committed, Quiet'
  PROVE  RevInv'
<1>1. UNCHANGED <<current, rev, retired, frame, timer, globals, initState>>
  BY DEF revisions, work
<1>2. RevTypes' /\ Generations' /\ WorkInv'
  BY <1>1 DEF RevInv, RevTypes, WorkTypes, Generations, WorkInv, Used
<1>3. \A g : Pins(Frames, Scopes, g)' = Pins(Frames, Scopes, g)
  BY <1>1 DEF Pins
<1>4. PinsExact'
  BY <1>1, <1>3 DEF RevInv, PinsExact
<1>5. Kept(Heap, Frames, Scopes, current) => Kept(Heap, Frames, Scopes, current)'
  BY <1>1, <1>3 DEF Kept, Heap
<1>6. (\A s \in Scopes : ~Active(s)') => \A s \in Scopes : ~Active(s)
  BY <1>1 DEF Active, Used
<1>7. HeapInv'
  BY <1>1, <1>5, <1>6 DEF RevInv, HeapInv
<1>8. QED
  BY <1>2, <1>4, <1>7 DEF RevInv

\* A plan that is not committed and does not become so.
LEMMA StateCommits ==
  ASSUME PatchTypes, NEW p \in Plans, NEW state \in PlanStates, SetPlan(p, state),
         plan[p].state # "committed"
  PROVE  Committed' = IF state = "committed" THEN Committed \cup {p} ELSE Committed
BY PlanSet DEF Committed

LEMMA OwnerStays ==
  ASSUME Quiet, UNCHANGED work, UNCHANGED down, owner' = owner \/ owner' \in Hosts \cup {None}
  PROVE  Quiet'
BY NameFacts DEF Quiet, Used, work

\* Each patch action of a host but ApplyCommit.
LEMMA RevPatch ==
  ASSUME Inv,
         \/ \E p \in Plans : PreparePatch(p)
         \/ \E h \in Hosts, p \in Plans : ApplyTake(h, p) \/ CloseBegin(h, p)
         \/ \E h \in Hosts : \/ ApplyEnter(h) \/ ApplyRefused(h) \/ ApplyClear(h)
                             \/ FailReady(h) \/ CloseMark(h) \/ CloseUnset(h)
  PROVE  RevInv'
<1>1. UNCHANGED revisions /\ UNCHANGED work /\ UNCHANGED down
  BY DEF PreparePatch, ApplyTake, CloseBegin, ApplyEnter, ApplyRefused, ApplyClear, FailReady,
         CloseMark, CloseUnset
<1>2. owner' = owner \/ owner' \in Hosts \cup {None}
  BY DEF PreparePatch, ApplyTake, CloseBegin, ApplyEnter, ApplyRefused, ApplyClear, FailReady,
         CloseMark, CloseUnset, Leave
<1>3. PatchTypes /\ RevInv /\ Quiet /\ {"ready", "applying", "closed"} \subseteq PlanStates
  BY DEF Inv, PatchInv, RevInv, PlanStates
<1>4. Committed' = Committed
  <2>1. CASE UNCHANGED plan
    BY <2>1 DEF Committed
  <2>2. ASSUME NEW p \in Plans, PreparePatch(p)
        PROVE  Committed' = Committed
    BY <1>3, <2>2 DEF PreparePatch, PatchTypes, Committed
  <2>3. ASSUME NEW h \in Hosts, NEW p \in Plans, ApplyTake(h, p)
        PROVE  Committed' = Committed
    <3>1. SetPlan(p, "applying") /\ plan[p].state # "committed"
      BY <2>3 DEF ApplyTake
    <3>2. QED
      BY <1>3, <3>1, StateCommits
  <2>4. ASSUME NEW h \in Hosts, FailReady(h)
        PROVE  Committed' = Committed
    <3>1. PICK p \in Plans : p = host[h].plan
      BY <2>4 DEF FailReady, At, Inv, PatchInv, HostInv
    <3>2. UNCHANGED plan \/ (SetPlan(p, "ready") /\ plan[p].state # "committed")
      BY <2>4, <3>1 DEF FailReady
    <3>3. QED
      BY <1>3, <2>1, <3>2, StateCommits
  <2>5. ASSUME NEW h \in Hosts, CloseMark(h)
        PROVE  Committed' = Committed
    <3>1. PICK p \in Plans : p = host[h].plan
      BY <2>5 DEF CloseMark, At, Inv, PatchInv, HostInv
    <3>2. UNCHANGED plan \/ (SetPlan(p, "closed") /\ plan[p].state # "committed")
      BY <2>5, <3>1 DEF CloseMark
    <3>3. QED
      BY <1>3, <2>1, <3>2, StateCommits
  <2>6. \A h \in Hosts : /\ \A p \in Plans : CloseBegin(h, p) => UNCHANGED plan
                         /\ ApplyEnter(h) \/ ApplyRefused(h) \/ ApplyClear(h) \/ CloseUnset(h) =>
                              UNCHANGED plan
    BY DEF CloseBegin, ApplyEnter, ApplyRefused, ApplyClear, CloseUnset
  <2>7. QED
    BY <2>1, <2>2, <2>3, <2>4, <2>5, <2>6
<1>5. QED
  BY <1>1, <1>2, <1>3, <1>4, OwnerStays, RevSame

\* While there are revisions, the live ones are the current and the retired ones.
LEMMA Live ==
  ASSUME RevInv, current # 0
  PROVE  LiveRevisions(Heap) = retired \cup {current}
<1>1. /\ current \in Gens /\ retired \subseteq Gens
      /\ \A g \in Gens : /\ g \in retired <=> rev[g].retired /\ ~rev[g].closed
                         /\ rev[g].closed => rev[g].retired
                         /\ g >= current => ~rev[g].retired
  BY DEF RevInv, RevTypes, HeapInv, Kept, Heap
<1>2. current >= current
  BY <1>1, GensFacts
<1>3. ~rev[current].closed
  BY <1>1, <1>2
<1>4. QED
  BY <1>1, <1>3 DEF LiveRevisions, Heap

\* The replaced revision is the newest retired one.
LEMMA Replaced ==
  ASSUME RevInv, current # 0,
         NEW h, h = [rev |-> [rev EXCEPT ![current].retired = TRUE, ![current].retained = TRUE],
                     retired |-> retired \cup {current}]
  PROVE  Kept(h, Frames, Scopes, current + 1) /\ h.retired = retired \cup {current}
<1>1. current \in Gens /\ Kept(Heap, Frames, Scopes, current)
  BY DEF RevInv, RevTypes, HeapInv
<1>2. /\ rev \in [Gens -> Revision] /\ retired \subseteq Gens
      /\ \A g \in Gens : /\ rev[g].pins = Pins(Frames, Scopes, g)
                         /\ rev[g].closed => rev[g].pins = 0 /\ rev[g].retired
                         /\ g \in retired <=> rev[g].retired /\ ~rev[g].closed
                         /\ g >= current => ~rev[g].retired
  BY <1>1 DEF Kept, Heap
<1> DEFINE t == [[rev[current] EXCEPT !.retired = TRUE] EXCEPT !.retained = TRUE]
<1>3. h.rev = [rev EXCEPT ![current] = t] /\ h.retired = retired \cup {current}
  BY <1>1, <1>2
<1>4. t \in Revision /\ t.retired /\ t.pins = rev[current].pins /\ t.closed = rev[current].closed
  BY <1>1, <1>2 DEF Revision
<1> HIDE DEF t
<1>5. /\ h.rev \in [Gens -> Revision] /\ h.rev[current] = t
      /\ \A g \in Gens : g # current => h.rev[g] = rev[g]
  BY <1>1, <1>2, <1>3, <1>4
<1>6. current >= current /\ \A g \in Gens : g >= current + 1 => g >= current /\ g # current
  BY <1>1, GensFacts
<1>7. ~rev[current].closed
  BY <1>1, <1>2, <1>6
<1>8. ASSUME NEW g \in Gens
      PROVE  /\ h.rev[g].pins = Pins(Frames, Scopes, g)
             /\ h.rev[g].closed => h.rev[g].pins = 0 /\ h.rev[g].retired
             /\ g \in h.retired <=> h.rev[g].retired /\ ~h.rev[g].closed
             /\ g >= current + 1 => ~h.rev[g].retired
  <2>1. CASE g = current
    BY <1>1, <1>2, <1>3, <1>4, <1>5, <1>6, <1>7, <2>1
  <2>2. CASE g # current
    BY <1>2, <1>3, <1>5, <1>6, <2>2
  <2>3. QED
    BY <2>1, <2>2
<1>9. h.retired \subseteq Gens
  BY <1>1, <1>2, <1>3
<1>10. QED
  BY <1>3, <1>5, <1>8, <1>9 DEF Kept

LEMMA RevCommit ==
  ASSUME Inv, NEW h \in Hosts, ApplyCommit(h)
  PROVE  RevInv' /\ current' # 0
<1> DEFINE replaced == [rev |-> [rev EXCEPT ![current].retired = TRUE, ![current].retained = TRUE],
                        retired |-> retired \cup {current}]
           swept == Sweep(replaced, globals)
<1>1. PICK p \in Plans : p = host[h].plan
  BY DEF ApplyCommit, At, Inv, PatchInv, HostInv
<1>2. /\ host[h].pc = "check" /\ Open /\ HasCapacity(Heap) /\ SetPlan(p, "committed")
      /\ current' = current + 1 /\ SetHeap(swept)
      /\ UNCHANGED work /\ UNCHANGED <<owner, down>>
  <2>1. /\ At(h, "check") /\ Admissible(host[h].plan) /\ SetPlan(host[h].plan, "committed")
        /\ current' = current + 1 /\ SetHeap(swept)
        /\ UNCHANGED <<lifecycle, owner, work, pending, down>>
    BY DEF ApplyCommit
  <2> HIDE DEF swept
  <2>2. At(h, "check") /\ Admissible(p) /\ SetPlan(p, "committed")
    BY <1>1, <2>1
  <2>3. QED
    BY <2>1, <2>2 DEF Admissible, At
<1>3. /\ current # 0 /\ Quiet' /\ RevInv /\ WorkTypes /\ WorkInv /\ PatchTypes
      /\ "committed" \in PlanStates
  BY <1>2, Working DEF Inv, PatchInv, RevInv, RevTypes, PlanStates
<1>4. UNCHANGED <<frame, timer, globals, initState>>
  BY <1>2 DEF work
<1>5. current \in Gens /\ current \in Nat
  BY <1>3, GensFacts DEF RevInv, RevTypes
<1>6. Kept(swept, Frames, Scopes, current + 1) /\ swept.retired \subseteq retired \cup {current}
      /\ SweptFor(swept, globals)
  <2>1. Kept(replaced, Frames, Scopes, current + 1) /\ replaced.retired = retired \cup {current}
    BY <1>3, Replaced
  <2> HIDE DEF replaced
  <2>2. current + 1 \in Nat
    BY <1>5
  <2>3. QED
    BY <2>1, <2>2, SweepKeeps
<1> HIDE DEF swept
<1>7. WorkTypes' /\ WorkInv'
  BY <1>3, <1>4 DEF WorkTypes, WorkInv, Used
<1>8. rev' = swept.rev /\ retired' = swept.retired
  BY <1>2 DEF SetHeap
<1>9. \A g : Pins(Frames, Scopes, g)' = Pins(Frames, Scopes, g)
  BY <1>4 DEF Pins
<1>10. Kept(Heap, Frames, Scopes, current)'
  BY <1>2, <1>6, <1>8, <1>9 DEF Kept, Heap
<1>11. SweptFor(Heap, globals)'
  BY <1>4, <1>6, <1>8 DEF SweptFor, Heap
<1>12. (\A s \in Scopes : ~Active(s)') => retired' \subseteq globals'
  BY <1>7, <1>10, <1>11, IdleSwept
<1>13. Cardinality(retired') + 1 <= MaxRetained
  <2>1. LiveRevisions(Heap) = retired \cup {current}
    BY <1>3, Live
  <2>2. Cardinality(retired \cup {current}) + 1 <= MaxRetained
    BY <1>2, <2>1 DEF HasCapacity
  <2>3. retired \cup {current} \subseteq Gens
    BY <1>3, <1>5 DEF RevInv, RevTypes
  <2>4. retired' \subseteq retired \cup {current}
    BY <1>6, <1>8
  <2>5. IsFiniteSet(retired \cup {current})
    BY <2>3, GensFacts, FS_Subset
  <2>6. IsFiniteSet(retired') /\ Cardinality(retired') <= Cardinality(retired \cup {current})
    BY <2>4, <2>5, FS_Subset
  <2>7. Cardinality(retired') \in Nat /\ Cardinality(retired \cup {current}) \in Nat
    BY <2>5, <2>6, FS_CardinalityType
  <2>8. QED
    BY <2>2, <2>6, <2>7, HotReloadAssumption
<1>14. current' = 1 + Cardinality(Committed') /\ current' \in Gens
  <2>1. plan[p].state = "applying"
    BY <1>1, <1>2 DEF Inv, PatchInv, ApplierInv, Appliers
  <2>2. Committed' = Committed \cup {p} /\ p \notin Committed
    BY <1>2, <1>3, <2>1, StateCommits DEF Committed
  <2>3. Committed \subseteq Plans /\ Committed' \subseteq Plans
    BY DEF Committed
  <2>4. IsFiniteSet(Committed) /\ IsFiniteSet(Committed')
    BY <2>3, FS_Subset, HotReloadAssumption
  <2>5. Cardinality(Committed') = Cardinality(Committed) + 1
    BY <2>2, <2>4, FS_AddElement
  <2>6. Cardinality(Committed') <= Cardinality(Plans)
    BY <2>3, FS_Subset, HotReloadAssumption
  <2>7. /\ Cardinality(Committed) \in Nat /\ Cardinality(Committed') \in Nat
        /\ Cardinality(Plans) \in Nat
    BY <2>4, FS_CardinalityType, GensFacts
  <2>8. current = 1 + Cardinality(Committed)
    BY <1>3 DEF RevInv, Generations
  <2>9. QED
    BY <1>2, <2>5, <2>6, <2>7, <2>8 DEF Gens
<1>15. RevTypes' /\ PinsExact'
  BY <1>7, <1>10, <1>14 DEF RevTypes, Kept, Heap, PinsExact
<1>16. Generations' /\ HeapInv'
  BY <1>10, <1>12, <1>13, <1>14 DEF Generations, HeapInv
<1>17. current' # 0
  BY <1>14, GensFacts
<1>18. QED
  BY <1>3, <1>7, <1>15, <1>16, <1>17 DEF RevInv

\* closeRevisions
LEMMA RevShutdownEnd ==
  ASSUME Inv, ShutdownRevisions
  PROVE  RevInv'
<1>1. /\ current' = 0 /\ retired' = {} /\ down.pc = "revisions" /\ owner = None
      /\ rev' = [g \in Gens |-> IF g = current \/ g \in retired THEN [rev[g] EXCEPT !.closed = TRUE]
                                ELSE rev[g]]
      /\ UNCHANGED work /\ UNCHANGED <<owner, plan>>
  BY DEF ShutdownRevisions
<1>2. RevInv /\ RevTypes /\ WorkTypes /\ WorkInv /\ Quiet /\ PinsExact
  BY DEF Inv, RevInv, RevTypes
<1>3. UNCHANGED <<frame, timer, globals, initState>>
  BY <1>1 DEF work
<1>4. rev' \in [Gens -> Revision] /\ \A g \in Gens : rev'[g].pins = rev[g].pins
  <2>1. ASSUME NEW g \in Gens
        PROVE  rev'[g] \in Revision /\ rev'[g].pins = rev[g].pins
    <3>1. rev[g] \in Revision
      BY <1>2 DEF RevTypes
    <3>2. rev'[g] = [rev[g] EXCEPT !.closed = TRUE] \/ rev'[g] = rev[g]
      BY <1>1
    <3>3. QED
      BY <3>1, <3>2 DEF Revision
  <2>2. QED
    BY <1>1, <2>1
<1>5. WorkTypes' /\ WorkInv'
  BY <1>2, <1>3 DEF WorkTypes, WorkInv, Used
<1>6. RevTypes'
  BY <1>1, <1>4, <1>5 DEF RevTypes
<1>7. \A g : Pins(Frames, Scopes, g)' = Pins(Frames, Scopes, g)
  BY <1>3 DEF Pins
<1>8. PinsExact'
  BY <1>2, <1>4, <1>7 DEF PinsExact
<1>9. Quiet'
  BY <1>1, <1>2, <1>3, NameFacts DEF Quiet, Used
<1>10. Generations' /\ HeapInv'
  BY <1>1 DEF Generations, HeapInv
<1>11. QED
  BY <1>5, <1>6, <1>8, <1>9, <1>10 DEF RevInv

LEMMA RevShutdown ==
  ASSUME Inv, Shutdown
  PROVE  RevInv'
<1>1. RevInv /\ Quiet /\ PatchTypes /\ "closed" \in PlanStates
  BY DEF Inv, PatchInv, RevInv, PlanStates
<1>2. CASE ShutdownBegin \/ ShutdownPending \/ ShutdownMark \/ ShutdownUnset
  <2>1. /\ UNCHANGED revisions /\ UNCHANGED work /\ UNCHANGED owner
        /\ down'.pc \notin {"revisions", "done"}
    <3>1. down \in [pc : DownPlaces, plan : Plans \cup {None}]
      BY <1>1 DEF PatchTypes
    <3>2. QED
      BY <1>2, <3>1 DEF ShutdownBegin, ShutdownPending, ShutdownMark, ShutdownUnset
  <2>2. Committed' = Committed
    <3>1. CASE UNCHANGED plan
      BY <3>1 DEF Committed
    <3>2. CASE ShutdownMark
      <4>1. PICK p \in Plans : p = down.plan
        BY <3>2 DEF ShutdownMark, Inv, PatchInv, DownInv
      <4>2. UNCHANGED plan \/ (SetPlan(p, "closed") /\ plan[p].state # "committed")
        BY <3>2, <4>1 DEF ShutdownMark
      <4>3. QED
        BY <1>1, <3>1, <4>2, StateCommits
    <3>3. QED
      BY <1>2, <3>1, <3>2 DEF ShutdownBegin, ShutdownPending, ShutdownUnset
  <2>3. Quiet'
    BY <2>1 DEF Quiet
  <2>4. QED
    BY <1>1, <2>1, <2>2, <2>3, RevSame
<1>3. CASE ShutdownAbort
  <2>1. /\ Abort(Scopes) /\ owner = None /\ UNCHANGED <<owner, plan>> /\ down.pc = "abort"
        /\ Scopes \subseteq Scopes
    BY <1>3 DEF ShutdownAbort
  <2>2. Committed' = Committed
    BY <2>1 DEF Committed
  <2>3. current # 0
    BY <2>1 DEF Inv, PatchInv, DownInv
  <2>4. Quiet'
    <3>1. frame' = [f \in Frames |-> IF f \in FramesOf(Scopes) THEN NoFrame ELSE frame[f]]
      BY <2>1 DEF Abort
    <3>2. timer' = [s \in Scopes |-> IF s \in Scopes THEN NoTimer ELSE timer[s]]
      BY <2>1 DEF Abort
    <3>3. \A f \in Frames : f \notin FramesOf(Scopes) => frame[f].scope = None
      BY DEF FramesOf, Used, Inv, RevInv, RevTypes, WorkTypes, FrameType
    <3>4. \A f \in Frames : frame'[f].scope = None
      BY <3>1, <3>3 DEF NoFrame
    <3>5. \A s \in Scopes : timer'[s] = NoTimer
      BY <3>2
    <3>6. owner' # "vm"
      BY <2>1, NameFacts
    <3>7. QED
      BY <3>4, <3>5, <3>6 DEF Quiet, Used
  <2>5. QED
    BY <2>1, <2>2, <2>3, <2>4, RevAbort
<1>4. QED
  BY <1>2, <1>3, RevShutdownEnd DEF Shutdown

-----------------------------------------------------------------------------
(***************************************************************************)
(* The steps of the program.                                               *)
(***************************************************************************)
\* What the program does to the patches: nothing.
LEMMA ProgramLeaves ==
  ASSUME Program
  PROVE  /\ UNCHANGED patches /\ UNCHANGED current
         /\ lifecycle' = lifecycle \/ (Open /\ lifecycle' = "faulted")
         /\ owner' = owner \/ (owner \in {None, "vm"} /\ owner' \in {None, "vm"})
<1>1. ASSUME NEW s \in Scopes, CancelScope(s) \/ RemoveTimer(s) \/ \E f \in Frames : Start(s, f)
      PROVE  UNCHANGED patches /\ UNCHANGED current /\ UNCHANGED <<lifecycle, owner>>
  BY <1>1 DEF CancelScope, Abort, RemoveTimer, Start
<1>2. CASE RunBegin \/ RunEnd \/ RunFails
  BY <1>2 DEF RunBegin, RunEnd, RunFails, Abort, revisions
<1>3. ASSUME NEW f \in Frames, InitDone(f) \/ StartTimer(f) \/ Return(f)
      PROVE  UNCHANGED patches /\ UNCHANGED current /\ UNCHANGED <<lifecycle, owner>>
  BY <1>3 DEF InitDone, StartTimer, Return, revisions
<1>4. ASSUME NEW f \in Frames, NEW g \in Gens, StoreGlobal(f, g) \/ ClearGlobal(f, g)
      PROVE  UNCHANGED patches /\ UNCHANGED current /\ UNCHANGED <<lifecycle, owner>>
  BY <1>4 DEF StoreGlobal, ClearGlobal, revisions
<1>5. ASSUME NEW f \in Frames, NEW e \in Frames, NEW g \in Gens,
             CallNamed(f, e, 0) \/ CallNamed(f, e, g) \/ CallClosure(f, e, g)
      PROVE  UNCHANGED patches /\ UNCHANGED current /\ UNCHANGED <<lifecycle, owner>>
  BY <1>5 DEF CallNamed, CallClosure
<1>6. QED
  BY <1>1, <1>2, <1>3, <1>4, <1>5 DEF Program

\* The scope of a running frame is active.
LEMMA UsedIsActive ==
  ASSUME WorkTypes, NEW f \in Used
  PROVE  \E s \in Scopes : Active(s)
BY DEF WorkTypes, FrameType, Used, Active

LEMMA RevProgram ==
  ASSUME Inv, Program
  PROVE  RevInv'
<1>1. UNCHANGED patches /\ UNCHANGED current
  BY ProgramLeaves
<1>2. RevInv /\ WorkTypes /\ WorkInv
  BY DEF Inv, RevInv, RevTypes
<1>3. ASSUME NEW s \in Scopes, CancelScope(s)
      PROVE  RevInv'
  <2>1. Active(s) /\ Abort({s}) /\ {s} \subseteq Scopes
    BY <1>3 DEF CancelScope
  <2>2. Committed' = Committed /\ Quiet' /\ current # 0
    BY <1>1, <2>1, SameCommitted, Working
  <2>3. \E e \in {s} : Active(e)
    BY <2>1
  <2>4. QED
    BY <2>1, <2>2, <2>3, RevAbort
<1>4. ASSUME NEW s \in Scopes, NEW f \in Frames, Start(s, f)
      PROVE  RevInv'
  <2>1. /\ Open /\ NewFrame(f, s, current, 0, initState = "new")
        /\ initState' \in {"new", "initializing", "ready", "failed"}
        /\ UNCHANGED <<current, timer, globals, patches>>
    BY <1>2, <1>4 DEF Start, WorkTypes
  <2>2. current \in Gens /\ 0 \in Gens \cup {0} /\ (initState = "new") \in BOOLEAN
    BY <1>1, <2>1, SameCommitted, Working
  <2>3. QED
    BY <2>1, <2>2, RevNewFrame
<1>5. CASE RunBegin
  <2>1. /\ SetHeap(Heap) /\ UNCHANGED <<frame, timer, globals, initState>>
        /\ \E s \in Scopes : Active(s)
    BY <1>5 DEF RunBegin, revisions, work, SetHeap, Heap
  <2>2. WorkTypes' /\ globals \subseteq globals'
    BY <1>2, <2>1 DEF WorkTypes
  <2>3. QED
    BY <1>1, <2>1, <2>2, RevRuns
<1>6. CASE RunEnd
  <2>1. /\ owner = "vm" /\ (SetHeap(Heap) \/ SetHeap(Sweep(Heap, globals)))
        /\ UNCHANGED <<frame, timer, globals, initState>>
    BY <1>6 DEF RunEnd, work
  <2>2. WorkTypes' /\ globals \subseteq globals'
    BY <1>2, <2>1 DEF WorkTypes
  <2>3. QED
    BY <1>1, <2>1, <2>2, RevRuns
<1>7. CASE RunFails
  <2>1. owner = "vm" /\ Abort(Scopes) /\ Scopes \subseteq Scopes
    BY <1>7 DEF RunFails
  <2>2. Committed' = Committed /\ Quiet' /\ current # 0
    BY <1>1, <2>1, SameCommitted, Working
  <2>3. QED
    BY <2>1, <2>2, RevAbort
<1>8. ASSUME NEW f \in Frames, InitDone(f)
      PROVE  RevInv'
  <2>1. /\ owner = "vm" /\ f \in Used /\ frame' = [frame EXCEPT ![f].init = FALSE]
        /\ initState' = "ready" /\ SetHeap(Heap) /\ UNCHANGED <<timer, globals>>
    BY <1>8 DEF InitDone, Runs, revisions, SetHeap, Heap
  <2> DEFINE t == [frame[f] EXCEPT !.init = FALSE]
  <2>2. frame \in [Frames -> FrameType] /\ frame[f] \in FrameType /\ frame' = [frame EXCEPT ![f] = t]
    BY <1>2, <2>1 DEF WorkTypes
  <2>3. /\ t \in FrameType /\ t.scope = frame[f].scope /\ t.gen = frame[f].gen
        /\ t.pinned = frame[f].pinned
    BY <2>2 DEF FrameType
  <2> HIDE DEF t
  <2>4. /\ frame' \in [Frames -> FrameType] /\ frame'[f] = t
        /\ \A e \in Frames : e # f => frame'[e] = frame[e]
    BY <2>2, <2>3
  <2>5. WorkTypes' /\ globals \subseteq globals'
    BY <1>2, <2>1, <2>4 DEF WorkTypes
  <2>6. \A e \in Frames : /\ frame'[e].scope = frame[e].scope
                          /\ frame'[e].pinned = frame[e].pinned /\ frame'[e].gen = frame[e].gen
    BY <2>3, <2>4
  <2>7. QED
    BY <1>1, <2>1, <2>5, <2>6, RevRuns
<1>9. ASSUME NEW f \in Frames, NEW g \in Gens, StoreGlobal(f, g) \/ ClearGlobal(f, g)
      PROVE  RevInv'
  <2>1. /\ owner = "vm" /\ f \in Used /\ SetHeap(Heap) /\ UNCHANGED <<frame, timer, initState>>
        /\ globals' = globals \cup {g} \/ globals' = globals \ {g}
    BY <1>9 DEF StoreGlobal, ClearGlobal, Runs, revisions, SetHeap, Heap
  <2>2. WorkTypes' /\ \E s \in Scopes : Active(s)
    BY <1>2, <2>1, UsedIsActive DEF WorkTypes
  <2>3. QED
    BY <1>1, <2>1, <2>2, RevRuns
<1>10. ASSUME NEW f \in Frames, NEW e \in Frames, NEW g \in Gens,
              CallNamed(f, e, 0) \/ CallNamed(f, e, g) \/ CallClosure(f, e, g)
      PROVE  RevInv'
  <2>1. /\ owner = "vm" /\ f \in Used /\ UNCHANGED <<timer, globals, initState>>
        /\ \/ \E k \in {0, frame[f].gen} : NewFrame(e, frame[f].scope, current, k, FALSE)
           \/ NewFrame(e, frame[f].scope, g, 0, FALSE)
    BY <1>10 DEF CallNamed, CallClosure, Runs
  <2>2. PICK s \in Scopes : s = frame[f].scope
    BY <1>2, <2>1 DEF WorkTypes, FrameType, Used
  <2>3. {0, frame[f].gen} \subseteq Gens \cup {0} /\ current \in Gens
    BY <1>1, <1>2, <2>1, SameCommitted, Working DEF WorkInv
  <2>4. PICK k \in Gens \cup {0}, c \in Gens : NewFrame(e, s, c, k, FALSE)
    BY <2>1, <2>2, <2>3
  <2>5. initState' \in {"new", "initializing", "ready", "failed"}
    BY <1>2, <2>1 DEF WorkTypes
  <2>6. QED
    BY <1>1, <2>1, <2>4, <2>5, RevNewFrame
<1>11. QED
  BY <1>3, <1>4, <1>5, <1>6, <1>7, <1>8, <1>9, <1>10, RevRemoveTimer, RevStartTimer, RevReturn
     DEF Program

-----------------------------------------------------------------------------
(***************************************************************************)
(* The theorems.                                                           *)
(***************************************************************************)
LEMMA InitInv ==
  ASSUME Init
  PROVE  Inv
<1>1. /\ lifecycle = "open" /\ owner = None /\ current = 1 /\ retired = {} /\ globals = {}
      /\ rev = [g \in Gens |-> [pins |-> 0, retained |-> FALSE, retired |-> FALSE, closed |-> FALSE]]
      /\ frame = [f \in Frames |-> NoFrame] /\ timer = [s \in Scopes |-> NoTimer]
      /\ initState = "new" /\ pending = None
      /\ plan = [p \in Plans |-> [state |-> "none", base |-> 0]]
      /\ host = [h \in Hosts |-> [pc |-> "idle", plan |-> None]]
      /\ down = [pc |-> "none", plan |-> None]
  BY DEF Init
<1>2. PatchTypes
  BY <1>1 DEF PatchTypes, Lifecycles, PlanStates, Places, DownPlaces
<1>3. HostInv /\ DownInv
  BY <1>1 DEF HostInv, DownInv
<1>4. ApplierInv /\ PendingInv
  BY <1>1, NameFacts DEF ApplierInv, PendingInv, PendingOf, Appliers
<1>5. WorkTypes /\ WorkInv /\ Used = {}
  BY <1>1 DEF WorkTypes, WorkInv, FrameType, TimerType, NoFrame, NoTimer, Used
<1>6. /\ 1 \in Gens /\ Gens \subseteq Nat
      /\ rev \in [Gens -> Revision] /\ \A g \in Gens : rev[g].pins = 0 /\ ~rev[g].retired /\ ~rev[g].closed
  BY <1>1, GensFacts DEF Revision
<1>7. RevTypes
  BY <1>1, <1>5, <1>6 DEF RevTypes
<1>8. Generations
  <2>1. Committed = {}
    BY <1>1 DEF Committed
  <2>2. QED
    BY <1>1, <2>1, FS_EmptySet DEF Generations
<1>9. \A g : Pins(Frames, Scopes, g) = 0
  <2>1. ASSUME NEW g
        PROVE  Pins(Frames, Scopes, g) = 0
    <3>1. /\ {f \in Frames : frame[f].pinned /\ frame[f].gen = g} = {}
          /\ {s \in Scopes : timer[s].pinned /\ timer[s].gen = g} = {}
      BY <1>1 DEF NoFrame, NoTimer
    <3>2. Cardinality({}) = 0
      BY FS_EmptySet
    <3>3. QED
      BY <3>1, <3>2 DEF Pins
  <2>2. QED
    BY <2>1
<1>10. PinsExact /\ Kept(Heap, Frames, Scopes, current)
  BY <1>1, <1>6, <1>9 DEF PinsExact, Kept, Heap
<1>11. HeapInv
  <2>1. Cardinality(retired) = 0
    BY <1>1, FS_EmptySet
  <2>2. retired \subseteq globals
    BY <1>1
  <2>3. QED
    BY <1>10, <2>1, <2>2, HotReloadAssumption DEF HeapInv
<1>12. Quiet
  BY <1>1 DEF Quiet
<1>13. QED
  BY <1>2, <1>3, <1>4, <1>5, <1>7, <1>8, <1>10, <1>11, <1>12 DEF Inv, PatchInv, RevInv

LEMMA StepInv ==
  ASSUME Inv, [Next]_vars
  PROVE  Inv'
<1>1. PatchInv /\ RevInv
  BY DEF Inv
<1>2. CASE UNCHANGED vars
  <2>1. UNCHANGED <<revisions, work, patches, lifecycle, owner, current, down>>
    BY <1>2 DEF vars, revisions, work, patches
  <2>2. PatchInv'
    BY <1>1, <2>1, PatchProgram
  <2>3. Committed' = Committed
    BY <2>1, SameCommitted
  <2>4. Quiet'
    BY <1>1, <2>1, OwnerStays DEF RevInv
  <2>5. QED
    BY <1>1, <2>1, <2>2, <2>3, <2>4, RevSame DEF Inv
<1>3. CASE Program
  BY <1>1, <1>3, ProgramLeaves, PatchProgram, RevProgram DEF Inv
<1>4. CASE Patch
  <2>1. ASSUME NEW p \in Plans, PreparePatch(p)
        PROVE  PatchInv'
    <3>1. current \in Gens
      <4>1. Open
        BY <2>1 DEF PreparePatch
      <4>2. current # 0
        BY <1>1, <4>1 DEF PatchInv, DownInv, Open
      <4>3. QED
        BY <1>1, <4>2 DEF RevInv, RevTypes
    <3>2. QED
      BY <1>1, <2>1, <3>1, PatchPrepare
  <2>2. ASSUME NEW h \in Hosts, ApplyCommit(h)
        PROVE  Inv'
    BY <1>1, <2>2, RevCommit, PatchCommit DEF Inv
  <2>3. CASE \/ \E p \in Plans : PreparePatch(p)
             \/ \E h \in Hosts, p \in Plans : ApplyTake(h, p) \/ CloseBegin(h, p)
             \/ \E h \in Hosts : \/ ApplyEnter(h) \/ ApplyRefused(h) \/ ApplyClear(h)
                                 \/ FailReady(h) \/ CloseMark(h) \/ CloseUnset(h)
    <3>1. RevInv'
      BY <2>3, RevPatch
    <3>2. PatchInv'
      BY <1>1, <2>1, <2>3, PatchTake, PatchCloseBegin, PatchEnter, PatchOver, PatchFail, PatchCloseMark
    <3>3. QED
      BY <3>1, <3>2 DEF Inv
  <2>4. QED
    BY <1>4, <2>2, <2>3 DEF Patch
<1>5. CASE Shutdown
  <2>1. current # 0
    BY <1>1, <1>5 DEF Shutdown, ShutdownBegin, ShutdownPending, ShutdownMark, ShutdownUnset,
                      ShutdownAbort, ShutdownRevisions, PatchInv, DownInv
  <2>2. PatchInv'
    BY <1>1, <1>5, <2>1, PatchShutdownBegin, PatchShutdownMark, PatchShutdownUnset, PatchShutdownEnd
       DEF Shutdown
  <2>3. QED
    BY <1>5, <2>2, RevShutdown DEF Inv
<1>6. QED
  BY <1>2, <1>3, <1>4, <1>5 DEF Next

\* The invariant of plans and revisions holds, so every variable has its type.
THEOREM HotReloadInvariant == Spec => []Inv
BY InitInv, StepInv, PTL DEF Spec

THEOREM HotReloadTypes == Spec => []TypeOK
<1>1. Inv => TypeOK
  BY DEF Inv, PatchInv, PatchTypes, RevInv, RevTypes, WorkTypes, FrameType, TimerType, TypeOK
<1>2. QED
  BY <1>1, HotReloadInvariant, PTL

\* ApplyPatch, its failure, Close and Shutdown agree on who has a plan, although
\* they take its mutex, patchMu and the owner one by one: a plan that may still be
\* committed is the pending one with a current base, one host at a time applies it,
\* and a plan that is over is about to be taken from pendingPatch.
THEOREM PlanProtocolHolds == Spec => []PlanProtocol
<1>1. Inv => PlanProtocol
  <2>1. SUFFICES ASSUME Inv, NEW p \in Plans
                 PROVE  /\ plan[p].state \in {"ready", "applying"} => pending = p
                        /\ plan[p].state \in {"ready", "applying"} /\ Open => plan[p].base = current
                        /\ Cardinality(Appliers(p)) = (IF plan[p].state = "applying" THEN 1 ELSE 0)
                        /\ pending = p /\ plan[p].state \in {"committed", "closed"} => Closing(p)
                        /\ down.pc = "done" /\ plan[p].state = "ready" => Closing(p)
    BY DEF PlanProtocol
  <2>2. PendingOf(p)
    BY <2>1 DEF Inv, PatchInv, PendingInv
  <2>3. Clearing(p) \/ Marking(p) \/ Unsetting(p) => Closing(p)
    BY DEF Clearing, Marking, Unsetting, Closing
  <2>4. Cardinality(Appliers(p)) = (IF plan[p].state = "applying" THEN 1 ELSE 0)
    <3>1. CASE plan[p].state = "applying"
      <4>1. PICK h \in Hosts : Appliers(p) = {h}
        BY <2>1, <3>1 DEF Inv, PatchInv, ApplierInv
      <4>2. Cardinality({h}) = 1
        BY FS_Singleton
      <4>3. QED
        BY <3>1, <4>1, <4>2
    <3>2. CASE plan[p].state # "applying"
      BY <2>1, <3>2, FS_EmptySet DEF Inv, PatchInv, ApplierInv
    <3>3. QED
      BY <3>1, <3>2
  <2>5. QED
    BY <2>2, <2>3, <2>4 DEF PendingOf
<1>2. QED
  BY <1>1, HotReloadInvariant, PTL

\* retain, release, sweepRetiredRevisions and closeReadyLocked keep the pins exact, no
\* pinned revision closes, and the list of retired ones is exact, within
\* MaxRetainedRevisions, and without work no longer than what the globals hold.
THEOREM RevisionsKeptHolds == Spec => []RevisionsKept
<1>1. Inv => RevisionsKept
  <2>1. SUFFICES ASSUME Inv
                 PROVE  RevisionsKept
    OBVIOUS
  <2>2. RevInv /\ PinsExact
    BY <2>1 DEF Inv, RevInv
  <2>3. \A g \in Gens : rev[g].pins = Cardinality({f \in Frames : frame[f].pinned /\ frame[f].gen = g})
                                      + Cardinality({s \in Scopes : timer[s].pinned /\ timer[s].gen = g})
    BY <2>2 DEF PinsExact, Pins
  <2>4. ASSUME current # 0
        PROVE  /\ ~rev[current].closed /\ ~rev[current].retired
               /\ \A g \in Gens : rev[g].closed => rev[g].pins = 0
               /\ retired = {g \in Gens : rev[g].retired /\ ~rev[g].closed}
               /\ Cardinality(LiveRevisions(Heap)) <= MaxRetained
               /\ (\A s \in Scopes : ~Active(s)) => retired \subseteq globals
    <3>1. /\ current \in Gens /\ retired \subseteq Gens /\ Cardinality(retired) + 1 <= MaxRetained
          /\ \A g \in Gens : /\ rev[g].closed => rev[g].pins = 0 /\ rev[g].retired
                             /\ g \in retired <=> rev[g].retired /\ ~rev[g].closed
                             /\ g >= current => ~rev[g].retired
          /\ (\A s \in Scopes : ~Active(s)) => retired \subseteq globals
      BY <2>2, <2>4 DEF RevInv, RevTypes, HeapInv, Kept, Heap
    <3>2. current >= current
      BY <3>1, GensFacts
    <3>3. current \notin retired /\ ~rev[current].closed /\ ~rev[current].retired
      BY <3>1, <3>2
    <3>4. IsFiniteSet(retired)
      BY <3>1, GensFacts, FS_Subset
    <3>5. Cardinality(retired \cup {current}) = Cardinality(retired) + 1
      BY <3>3, <3>4, FS_AddElement
    <3>6. Cardinality(LiveRevisions(Heap)) <= MaxRetained
      BY <2>2, <2>4, <3>1, <3>5, Live
    <3>7. retired = {g \in Gens : rev[g].retired /\ ~rev[g].closed}
      BY <3>1
    <3>8. QED
      BY <3>1, <3>3, <3>6, <3>7
  <2>5. QED
    BY <2>3, <2>4 DEF RevisionsKept
<1>2. QED
  BY <1>1, HotReloadInvariant, PTL
=============================================================================
