----------------------- MODULE RecycledSession_proofs -----------------------
(***************************************************************************)
(* The recycled sessions' safety for any set of sessions and any number of *)
(* selections.                                                             *)
(*                                                                         *)
(* The argument: the barrier is held exactly while a decision is in flight *)
(* (Barrier), so decisions of a session follow each other; what a decision *)
(* reports is decided by its own teardown (Reports); the recorder hands    *)
(* every generation to one decision (Generations), whose settled record is *)
(* emitted in the step that ends it (AuditOfDecisions).                    *)
(***************************************************************************)
EXTENDS RecycledSession, TLAPS

InFlight(d) == decision[d].stage \in InFlightStages

\* activeOperation names the one decision in flight.
Barrier == \A d \in Decisions : InFlight(d) <=> active[d[1]] = d[2]

\* Selections are taken in order; one that was not taken has no child.
Unused ==
  \A d \in Decisions :
    /\ decision[d].stage = "idle" <=> nextSelection[d[1]] <= d[2]
    /\ decision[d].stage = "idle" => child[d] = "unborn"

\* A settled decision reports what its teardown allows; no other reports anything.
Reports ==
  \A d \in Decisions :
    IF decision[d].stage \in SettledStages
    THEN /\ decision[d].reported = Verdict(decision[d].got, decision[d].reaped)
         /\ decision[d].reaped => child[d] # "alive"
    ELSE decision[d].reported = "none" /\ ~decision[d].reaped

\* close() has returned only where no decision holds the barrier.
ClosedBarrier ==
  \A x \in Sessions :
    /\ closed[x] <=> closing[x] # "no"
    /\ closing[x] = "done" => active[x] = 0

\* The inner call has settled before the teardown starts.
Gained ==
  \A d \in Decisions :
    decision[d].stage \in {"teardown"} \cup SettledStages => decision[d].got # "none"

Lifecycle == TypeOK /\ Barrier /\ Unused /\ Reports /\ ClosedBarrier /\ Gained

\* A decision is named by its session and its number.
LEMMA Pairs ==
  /\ \A d \in Decisions : d[1] \in Sessions /\ d[2] \in Selections /\ d = <<d[1], d[2]>>
  /\ \A d, e \in Decisions : d[1] = e[1] /\ d[2] = e[2] => d = e
  /\ \A x \in Sessions, s \in Selections :
       <<x, s>> \in Decisions /\ <<x, s>>[1] = x /\ <<x, s>>[2] = s
BY DEF Decisions

\* What one decision's record is after it alone was changed.
LEMMA AtRecord ==
  ASSUME NEW stage \in Stages, NEW got \in Outcomes, NEW g \in Nat
  PROVE  /\ At(stage, got, g) \in DecisionRecord
         /\ At(stage, got, g).stage = stage
         /\ At(stage, got, g).got = got
         /\ At(stage, got, g).generation = g
         /\ At(stage, got, g).reaped = FALSE
         /\ At(stage, got, g).reported = "none"
BY DEF At, DecisionRecord

\* What a decision's record is after it was settled.
LEMMA SettledRecord ==
  ASSUME TypeOK, NEW d \in Decisions, NEW reaped \in BOOLEAN,
         decision[d].got # "none"
  PROVE  /\ Settled(d, reaped) \in DecisionRecord
         /\ Settled(d, reaped).stage \in SettledStages
         /\ Settled(d, reaped).got = decision[d].got
         /\ Settled(d, reaped).generation = decision[d].generation
         /\ Settled(d, reaped).reaped = reaped
         /\ Settled(d, reaped).reported = Verdict(decision[d].got, reaped)
<1>1. decision[d] \in DecisionRecord
  BY DEF TypeOK
<1>2. Verdict(decision[d].got, reaped)
        \in {"decision", "recycle_failed"} \cup Failures
  BY <1>1 DEF Verdict, DecisionRecord, Outcomes, Failures
<1> QED
  BY <1>1, <1>2 DEF Settled, DecisionRecord, SettledStages, Stages, Outcomes, Failures

\* A session starts open, with nothing selected and no child.
LEMMA InitLifecycle ==
  ASSUME Init
  PROVE  Lifecycle
<1>1. At("idle", "none", 0) \in DecisionRecord
  BY DEF At, DecisionRecord, Stages, Outcomes
<1>2. TypeOK
  BY <1>1, SelectionsAssumption DEF Init, TypeOK, Selections
<1>3. Barrier /\ Unused /\ Reports /\ ClosedBarrier /\ Gained
  BY Pairs, SelectionsAssumption
  DEF Init, Barrier, InFlight, InFlightStages, Unused, Reports, SettledStages, ClosedBarrier,
      Gained, At, Selections
<1> QED
  BY <1>2, <1>3 DEF Lifecycle

\* One decision moves on within the barrier: the shape of Ready, SetupFails and
\* InnerSettles.
LEMMA Advances ==
  ASSUME Lifecycle, NEW d \in Decisions, NEW r \in DecisionRecord,
         InFlight(d), r.stage \in InFlightStages,
         r.reported = "none", ~r.reaped, r.stage = "teardown" => r.got # "none",
         decision' = [decision EXCEPT ![d] = r],
         nextGeneration' \in Nat \ {0}, trail' \in Seq(AuditRecord),
         UNCHANGED <<closed, active, nextSelection, closing, child>>
  PROVE  Lifecycle'
<1>1. TypeOK'
  BY DEF Lifecycle, TypeOK
<1>2. \A e \in Decisions : decision'[e] = IF e = d THEN r ELSE decision[e]
  BY DEF Lifecycle, TypeOK
<1>3. r.stage # "idle" /\ r.stage \notin SettledStages /\ decision[d].stage # "idle"
  BY DEF InFlight, InFlightStages, SettledStages
<1>4. Barrier'
  BY <1>2 DEF Lifecycle, Barrier, InFlight
<1>5. Unused' /\ Reports' /\ Gained'
  BY <1>2, <1>3 DEF Lifecycle, Unused, Reports, Gained, SettledStages
<1>6. ClosedBarrier'
  BY DEF Lifecycle, ClosedBarrier
<1> QED
  BY <1>1, <1>4, <1>5, <1>6 DEF Lifecycle

\* A decision is handed back: the shape of the two teardown actions.
LEMMA HandsBack ==
  ASSUME Lifecycle, NEW d \in Decisions, NEW reaped \in BOOLEAN,
         decision[d].stage = "teardown", Leave(d, reaped),
         child' \in [Decisions -> {"unborn", "unspawned", "alive", "dead"}],
         \A e \in Decisions : e # d => child'[e] = child[e],
         reaped => child'[d] # "alive",
         UNCHANGED <<closed, nextSelection, nextGeneration>>
  PROVE  Lifecycle'
<1> USE DEF Lifecycle
<1>1. decision[d].got # "none" /\ decision[d] \in DecisionRecord
  BY DEF Gained, TypeOK
<1>2. \A e \in Decisions : decision'[e] = IF e = d THEN Settled(d, reaped) ELSE decision[e]
  BY DEF Leave, TypeOK
<1>3. /\ Settled(d, reaped) \in DecisionRecord
      /\ Settled(d, reaped).stage \in SettledStages
      /\ Settled(d, reaped).got = decision[d].got
      /\ Settled(d, reaped).reaped = reaped
      /\ Settled(d, reaped).reported = Verdict(decision[d].got, reaped)
  BY <1>1, SettledRecord
<1>4. /\ d[1] \in Sessions /\ d[2] \in Selections /\ active[d[1]] = d[2] /\ d[2] # 0
  BY Pairs DEF Barrier, InFlight, InFlightStages, Selections
<1>5. trail' \in Seq(AuditRecord)
  <2>1. decision[d].generation \in Nat /\ d[2] \in Nat
    BY <1>1, <1>4 DEF DecisionRecord, Selections
  <2>2. \A p \in {"reaped", "reap_failed"} :
          Append(trail, Audit(p, decision[d].generation, d[2])) \in Seq(AuditRecord)
    BY <2>1 DEF Audit, AuditRecord, TypeOK
  <2> QED
    BY <2>2 DEF Leave, TrailAfter, TypeOK
<1>6. TypeOK'
  <2>1. decision' \in [Decisions -> DecisionRecord]
    BY <1>3 DEF Leave, TypeOK
  <2>2. active' \in [Sessions -> {0} \cup Selections]
    BY <1>4 DEF Leave, TypeOK
  <2>3. closing' \in [Sessions -> {"no", "waiting", "done"}]
    BY <1>4 DEF Leave, TypeOK
  <2> QED
    BY <2>1, <2>2, <2>3, <1>5 DEF TypeOK
<1>7. Barrier'
  <2> SUFFICES ASSUME NEW e \in Decisions
               PROVE  InFlight(e)' <=> active'[e[1]] = e[2]
    BY DEF Barrier
  <2>1. CASE e = d
    BY <2>1, <1>2, <1>3, <1>4 DEF InFlight, InFlightStages, SettledStages, Leave, TypeOK
  <2>2. CASE e # d /\ e[1] = d[1]
    <3>1. e[2] # d[2] /\ e[2] # 0 /\ e[2] \in Selections
      BY <2>2, Pairs DEF Selections
    <3>2. ~InFlight(e) /\ active'[e[1]] = 0
      BY <2>2, <3>1, <1>4 DEF Barrier, Leave, TypeOK
    <3> QED
      BY <2>2, <3>1, <3>2, <1>2 DEF InFlight
  <2>3. CASE e[1] # d[1]
    <3>1. active'[e[1]] = active[e[1]] /\ decision'[e] = decision[e]
      BY <2>3, <1>2, Pairs DEF Leave, TypeOK
    <3> QED
      BY <3>1 DEF Barrier, InFlight
  <2> QED
    BY <2>1, <2>2, <2>3
<1>8. Unused'
  BY <1>2, <1>3 DEF Unused, SettledStages
<1>9. Reports'
  BY <1>2, <1>3 DEF Reports
<1>10. Gained'
  BY <1>1, <1>2, <1>3 DEF Gained
<1>11. ClosedBarrier'
  BY <1>4 DEF ClosedBarrier, Leave, TypeOK
<1> QED
  BY <1>6, <1>7, <1>8, <1>9, <1>10, <1>11

\* Every step of the sessions keeps the life of each decision in order.
LEMMA LifecycleStep ==
  ASSUME Lifecycle, [Next]_vars
  PROVE  Lifecycle'
<1> USE DEF Lifecycle
<1>1. CASE UNCHANGED vars
  BY <1>1 DEF vars, TypeOK, Barrier, InFlight, Unused, Reports, ClosedBarrier, Gained
<1>2. ASSUME NEW x \in Sessions, SelectAction(x)
      PROVE  Lifecycle'
  <2> DEFINE s == nextSelection[x]
             d == <<x, s>>
  <2>1. s \in Selections /\ s # 0 /\ d \in Decisions /\ d[1] = x /\ d[2] = s
    BY <1>2, Pairs DEF SelectAction, Bounded, TypeOK, Selections
  <2>2. At("setup", "none", 0) \in DecisionRecord
    BY DEF At, DecisionRecord, Stages, Outcomes
  <2> HIDE DEF d, s
  <2>3. \A e \in Decisions :
          decision'[e] = IF e = d THEN At("setup", "none", 0) ELSE decision[e]
    BY <1>2, <2>1 DEF SelectAction, Bounded, TypeOK, d, s
  <2>4. nextSelection' = [nextSelection EXCEPT ![x] = s + 1] /\ active' = [active EXCEPT ![x] = s]
    BY <1>2 DEF SelectAction, Bounded, s
  <2>5. TypeOK'
    <3>1. decision' \in [Decisions -> DecisionRecord]
      BY <1>2, <2>2 DEF SelectAction, Bounded, TypeOK
    <3>2. nextSelection' \in [Sessions -> 1 .. MaxSelections + 1]
      BY <2>1, <2>4, SelectionsAssumption DEF TypeOK, Selections
    <3>3. active' \in [Sessions -> {0} \cup Selections]
      BY <2>1, <2>4 DEF TypeOK
    <3> QED
      BY <1>2, <3>1, <3>2, <3>3 DEF SelectAction, Bounded, TypeOK
  <2>6. \A e \in Decisions : e[1] = x => ~InFlight(e)
    BY <1>2, Pairs DEF SelectAction, Bounded, Barrier, Selections
  <2>7. Barrier'
    <3> SUFFICES ASSUME NEW e \in Decisions
                 PROVE  InFlight(e)' <=> active'[e[1]] = e[2]
      BY DEF Barrier
    <3>1. CASE e = d
      BY <3>1, <2>1, <2>3, <2>4 DEF InFlight, InFlightStages, At, TypeOK
    <3>2. CASE e # d /\ e[1] = x
      <4>1. e[2] # s
        BY <3>2, <2>1, Pairs
      <4> QED
        BY <3>2, <4>1, <2>3, <2>4, <2>6 DEF InFlight, TypeOK
    <3>3. CASE e[1] # x
      <4>1. e # d /\ e[1] \in Sessions
        BY <3>3, <2>1, Pairs
      <4> QED
        BY <3>3, <4>1, <2>3, <2>4 DEF InFlight, Barrier, TypeOK
    <3> QED
      BY <3>1, <3>2, <3>3
  <2>8. Unused'
    <3> SUFFICES ASSUME NEW e \in Decisions
                 PROVE  /\ decision'[e].stage = "idle" <=> nextSelection'[e[1]] <= e[2]
                        /\ decision'[e].stage = "idle" => child'[e] = "unborn"
      BY DEF Unused
    <3>1. child'[e] = child[e]
      BY <1>2 DEF SelectAction, Bounded
    <3>2. CASE e = d
      BY <3>2, <2>1, <2>3, <2>4 DEF At, TypeOK, Selections
    <3>3. CASE e # d /\ e[1] = x
      <4>1. e[2] # s /\ e[2] \in Selections
        BY <3>3, <2>1, Pairs
      <4>2. nextSelection'[x] = s + 1 /\ nextSelection[x] = s /\ decision'[e] = decision[e]
        BY <2>3, <2>4, <3>3 DEF TypeOK, s
      <4>3. s + 1 <= e[2] <=> s <= e[2]
        BY <4>1, <2>1 DEF Selections
      <4> QED
        BY <3>1, <3>3, <4>2, <4>3 DEF Unused
    <3>4. CASE e[1] # x
      <4>1. e # d /\ e[1] \in Sessions
        BY <3>4, <2>1, Pairs
      <4> QED
        BY <3>1, <3>4, <4>1, <2>3, <2>4 DEF Unused, TypeOK
    <3> QED
      BY <3>2, <3>3, <3>4
  <2>9. Reports' /\ Gained'
    <3>1. child' = child
      BY <1>2 DEF SelectAction, Bounded
    <3>2. /\ At("setup", "none", 0).stage = "setup"
          /\ At("setup", "none", 0).reported = "none"
          /\ At("setup", "none", 0).reaped = FALSE
      BY DEF At
    <3>3. Reports'
      BY <2>3, <3>1, <3>2 DEF Reports, SettledStages
    <3>4. Gained'
      BY <2>3, <3>2 DEF Gained, SettledStages
    <3> QED
      BY <3>3, <3>4
  <2>10. ClosedBarrier'
    BY <1>2, <2>1, <2>4 DEF SelectAction, Bounded, ClosedBarrier, TypeOK
  <2> QED
    BY <2>5, <2>7, <2>8, <2>9, <2>10
<1>3. ASSUME NEW x \in Sessions, Close(x)
      PROVE  Lifecycle'
  <2>1. TypeOK'
    BY <1>3 DEF Close, TypeOK
  <2>2. ClosedBarrier'
    BY <1>3 DEF Close, ClosedBarrier, TypeOK
  <2> QED
    BY <1>3, <2>1, <2>2 DEF Close, Barrier, InFlight, Unused, Reports, Gained
<1>4. ASSUME NEW d \in Decisions, Spawn(d) \/ SpawnFails(d)
      PROVE  Lifecycle'
  <2>1. TypeOK' /\ \A e \in Decisions : e # d => child'[e] = child[e]
    BY <1>4 DEF Spawn, SpawnFails, TypeOK
  <2>2. Unused' /\ Reports'
    BY <1>4, <2>1 DEF Spawn, SpawnFails, Unused, Reports, SettledStages
  <2> QED
    BY <1>4, <2>1, <2>2 DEF Spawn, SpawnFails, Barrier, InFlight, ClosedBarrier, Gained
<1>5. ASSUME NEW d \in Decisions, ChildDies(d)
      PROVE  Lifecycle'
  <2>1. TypeOK' /\ \A e \in Decisions : child'[e] = IF e = d THEN "dead" ELSE child[e]
    BY <1>5 DEF ChildDies, TypeOK
  <2>2. Unused' /\ Reports'
    BY <1>5, <2>1 DEF ChildDies, Unused, Reports, SettledStages
  <2> QED
    BY <1>5, <2>1, <2>2 DEF ChildDies, Barrier, InFlight, ClosedBarrier, Gained
<1>6. ASSUME NEW d \in Decisions, SetupFails(d)
      PROVE  Lifecycle'
  <2>1. PICK got \in Failures : decision' = [decision EXCEPT ![d] = At("teardown", got, 0)]
    BY <1>6 DEF SetupFails
  <2>2. InFlight(d) /\ At("teardown", got, 0) \in DecisionRecord
    BY <1>6 DEF SetupFails, InFlight, InFlightStages, At, DecisionRecord, Stages, Outcomes, Failures
  <2>3. UNCHANGED <<closed, active, nextSelection, closing, child, nextGeneration, trail>>
    BY <1>6 DEF SetupFails
  <2> QED
    BY <2>1, <2>2, <2>3, Advances DEF At, InFlightStages, Failures, TypeOK
<1>7. ASSUME NEW d \in Decisions, Ready(d)
      PROVE  Lifecycle'
  <2> DEFINE r == At("select", "none", nextGeneration)
  <2>1. InFlight(d) /\ r \in DecisionRecord
    BY <1>7 DEF Ready, InFlight, InFlightStages, At, DecisionRecord, Stages, Outcomes, TypeOK
  <2>2. Audit("opened", nextGeneration, d[2]) \in AuditRecord
    BY Pairs DEF Audit, AuditRecord, TypeOK, Selections
  <2>3. trail' \in Seq(AuditRecord) /\ nextGeneration' \in Nat \ {0}
    BY <1>7, <2>2 DEF Ready, TypeOK
  <2>4. /\ decision' = [decision EXCEPT ![d] = r]
        /\ UNCHANGED <<closed, active, nextSelection, closing, child>>
    BY <1>7 DEF Ready
  <2> QED
    BY <2>1, <2>3, <2>4, Advances DEF At, InFlightStages
<1>8. ASSUME NEW d \in Decisions, InnerSettles(d)
      PROVE  Lifecycle'
  <2>1. PICK got \in {"decision", "unbranded"} \cup Failures :
          decision' = [decision EXCEPT ![d] = At("teardown", got, decision[d].generation)]
    BY <1>8 DEF InnerSettles
  <2>2. decision[d] \in DecisionRecord
    BY DEF TypeOK
  <2>3. InFlight(d) /\ At("teardown", got, decision[d].generation) \in DecisionRecord
    BY <1>8, <2>2 DEF InnerSettles, InFlight, InFlightStages, At, DecisionRecord, Stages, Outcomes,
                      Failures
  <2>4. UNCHANGED <<closed, active, nextSelection, closing, child, nextGeneration, trail>>
    BY <1>8 DEF InnerSettles
  <2> QED
    BY <2>1, <2>3, <2>4, Advances DEF At, InFlightStages, Failures, TypeOK
<1>9. ASSUME NEW d \in Decisions, TeardownSucceeds(d)
      PROVE  Lifecycle'
  <2>1. /\ child' \in [Decisions -> {"unborn", "unspawned", "alive", "dead"}]
        /\ \A e \in Decisions : e # d => child'[e] = child[e]
        /\ child'[d] # "alive"
    BY <1>9 DEF TeardownSucceeds, TypeOK
  <2> QED
    BY <1>9, <2>1, HandsBack DEF TeardownSucceeds
<1>10. ASSUME NEW d \in Decisions, TeardownFails(d)
       PROVE  Lifecycle'
  BY <1>10, HandsBack DEF TeardownFails, TypeOK
<1> QED
  BY <1>1, <1>2, <1>3, <1>4, <1>5, <1>6, <1>7, <1>8, <1>9, <1>10 DEF Next, Decide

(* ---- The audit trail ------------------------------------------------------ *)

\* The recorder gives a generation to one decision, whose child is then born, and every
\* record stands for a generation given out.
Generations ==
  /\ \A d \in Decisions :
       /\ decision[d].generation < nextGeneration
       /\ decision[d].stage \in {"idle", "setup"} => decision[d].generation = 0
       /\ decision[d].generation # 0 => HadProcess(d)
  /\ \A d, e \in Decisions :
       decision[d].generation # 0 /\ decision[d].generation = decision[e].generation => d = e
  /\ \A i \in DOMAIN trail : trail[i].generation # 0 /\ trail[i].generation < nextGeneration

\* A decision in flight was opened under its selection and has not been settled.
AuditOfDecisions ==
  \A d \in Decisions : decision[d].generation # 0 =>
    /\ \E i \in DOMAIN trail : /\ OpenedAt(i)
                               /\ trail[i].generation = decision[d].generation
                               /\ trail[i].selection = d[2]
    /\ InFlight(d) => \A i \in DOMAIN trail :
         SettledAt(i) => trail[i].generation # decision[d].generation

AuditLaw ==
  Generations /\ AuditOfDecisions /\ GenerationsInOrder /\ AuditPairsUp /\ ReapedIsDead

Inductive == Lifecycle /\ AuditLaw

\* The trail starts empty.
LEMMA InitAudit ==
  ASSUME Init
  PROVE  AuditLaw
<1>1. /\ trail = <<>> /\ nextGeneration = 1
      /\ \A d \in Decisions : decision[d].generation = 0 /\ decision[d].stage = "idle"
  BY DEF Init, At
<1>2. DOMAIN trail = {}
  BY <1>1
<1>3. Generations /\ AuditOfDecisions /\ ReapedIsDead
  BY <1>1, <1>2 DEF Generations, AuditOfDecisions, ReapedIsDead
<1>4. GenerationsInOrder
  BY <1>1, <1>2 DEF GenerationsInOrder
<1>5. AuditPairsUp
  BY <1>1, <1>2 DEF AuditPairsUp
<1> QED
  BY <1>3, <1>4, <1>5 DEF AuditLaw

\* A step that emits no record and ends no decision that holds a generation.
LEMMA AuditUnmoved ==
  ASSUME AuditLaw, UNCHANGED <<trail, nextGeneration>>,
         \A d \in Decisions :
           /\ decision'[d].generation = decision[d].generation
           /\ decision'[d].stage \in {"idle", "setup"} =>
                decision[d].stage \in {"idle", "setup"}
           /\ decision[d].generation # 0 /\ InFlight(d)' => InFlight(d)
           /\ decision[d].generation # 0 /\ decision'[d].stage \in SettledStages =>
                decision[d].stage \in SettledStages
           /\ HadProcess(d) => HadProcess(d)'
           /\ child[d] = "dead" => child'[d] = "dead"
  PROVE  AuditLaw'
<1>1. Generations'
  BY DEF AuditLaw, Generations
<1>2. AuditOfDecisions'
  BY DEF AuditLaw, AuditOfDecisions, OpenedAt, SettledAt
<1>3. GenerationsInOrder' /\ ReapedIsDead'
  BY DEF AuditLaw, GenerationsInOrder, ReapedIsDead, OpenedAt
<1>4. AuditPairsUp'
  BY DEF AuditLaw, AuditPairsUp, OpenedAt, SettledAt
<1> QED
  BY <1>1, <1>2, <1>3, <1>4 DEF AuditLaw

\* An appended record is the last, and the others stay where they were.
LEMMA Appended ==
  ASSUME TypeOK, NEW r, trail' = Append(trail, r)
  PROVE  /\ Len(trail) \in Nat
         /\ DOMAIN trail = 1 .. Len(trail)
         /\ DOMAIN trail' = 1 .. Len(trail) + 1
         /\ \A i \in DOMAIN trail : trail'[i] = trail[i]
         /\ trail'[Len(trail) + 1] = r
         /\ \A i \in DOMAIN trail : trail[i] \in AuditRecord
BY DEF TypeOK

\* A child that becomes ready is the next generation of the trail.
LEMMA ReadyAudit ==
  ASSUME Lifecycle, AuditLaw, NEW d \in Decisions, Ready(d)
  PROVE  AuditLaw'
<1> USE DEF AuditLaw
<1> DEFINE g == nextGeneration
           n == Len(trail)
           r == Audit("opened", g, d[2])
<1>1. /\ trail' = Append(trail, r) /\ nextGeneration' = g + 1 /\ child' = child
      /\ decision[d].stage = "setup" /\ HadProcess(d)
  BY DEF Ready
<1>2. r.phase = "opened" /\ r.generation = g /\ r.selection = d[2]
  BY DEF Audit
<1>3. g \in Nat /\ g # 0 /\ \A e \in Decisions : decision[e].generation \in Nat
  BY DEF Lifecycle, TypeOK, DecisionRecord
<1>4. \A e \in Decisions :
        IF e = d
        THEN decision'[e].generation = g /\ decision'[e].stage = "select"
        ELSE decision'[e] = decision[e]
  BY DEF Lifecycle, TypeOK, Ready, At
<1>5. /\ n \in Nat /\ DOMAIN trail = 1 .. n /\ DOMAIN trail' = 1 .. n + 1
      /\ \A i \in 1 .. n : trail'[i] = trail[i] /\ trail[i].generation \in Nat
      /\ trail'[n + 1] = r
  BY <1>1, Appended DEF Lifecycle, AuditRecord
<1> HIDE DEF g, n, r
<1>6. \A i \in 1 .. n + 1 : i = n + 1 \/ i \in 1 .. n
  BY <1>5
<1>7. Generations'
  <2>1. \A i \in DOMAIN trail' : trail'[i].generation # 0 /\ trail'[i].generation < g + 1
    BY <1>2, <1>3, <1>5, <1>6 DEF Generations, g
  <2>2. \A e \in Decisions :
          /\ decision'[e].generation < g + 1
          /\ decision'[e].stage \in {"idle", "setup"} => decision'[e].generation = 0
          /\ decision'[e].generation # 0 => HadProcess(e)'
    BY <1>1, <1>3, <1>4 DEF Generations, g, HadProcess
  <2>3. \A e, f \in Decisions :
          decision'[e].generation # 0 /\ decision'[e].generation = decision'[f].generation
            => e = f
    BY <1>3, <1>4 DEF Generations, g
  <2> QED
    BY <1>1, <2>1, <2>2, <2>3 DEF Generations
<1>8. AuditOfDecisions'
  <2> SUFFICES ASSUME NEW e \in Decisions, decision'[e].generation # 0
               PROVE  /\ \E i \in DOMAIN trail' :
                           /\ trail'[i].phase = "opened"
                           /\ trail'[i].generation = decision'[e].generation
                           /\ trail'[i].selection = e[2]
                      /\ InFlight(e)' => \A i \in DOMAIN trail' :
                           trail'[i].phase # "opened" =>
                             trail'[i].generation # decision'[e].generation
    BY DEF AuditOfDecisions, OpenedAt, SettledAt
  <2>1. CASE e = d
    <3>1. n + 1 \in DOMAIN trail' /\ decision'[e].generation = g
      BY <2>1, <1>4, <1>5
    <3>2. \A i \in DOMAIN trail' :
            trail'[i].phase # "opened" => trail'[i].generation # g
      BY <1>2, <1>3, <1>5, <1>6 DEF Generations, g
    <3> QED
      BY <2>1, <3>1, <3>2, <1>2, <1>5
  <2>2. CASE e # d
    <3>1. decision'[e] = decision[e]
      BY <2>2, <1>4
    <3>2. PICK i \in DOMAIN trail : /\ trail[i].phase = "opened"
                                    /\ trail[i].generation = decision[e].generation
                                    /\ trail[i].selection = e[2]
      BY <3>1 DEF AuditOfDecisions, OpenedAt
    <3>3. i \in DOMAIN trail' /\ trail'[i] = trail[i]
      BY <1>5
    <3>4. InFlight(e)' => \A j \in DOMAIN trail' :
            trail'[j].phase # "opened" => trail'[j].generation # decision'[e].generation
      BY <3>1, <1>2, <1>5, <1>6 DEF AuditOfDecisions, SettledAt, InFlight
    <3> QED
      BY <3>1, <3>2, <3>3, <3>4
  <2> QED
    BY <2>1, <2>2
<1>9. GenerationsInOrder'
  <2>1. \A i, j \in DOMAIN trail' :
          trail'[i].phase = "opened" /\ trail'[j].phase = "opened" /\ i < j =>
            trail'[i].generation < trail'[j].generation
    <3> SUFFICES ASSUME NEW i \in 1 .. n + 1, NEW j \in 1 .. n + 1, i < j,
                        trail'[i].phase = "opened", trail'[j].phase = "opened"
                 PROVE  trail'[i].generation < trail'[j].generation
      BY <1>5
    <3>1. i \in 1 .. n
      BY <1>5, <1>6
    <3>2. CASE j = n + 1
      BY <3>1, <3>2, <1>2, <1>5 DEF Generations, g
    <3>3. CASE j \in 1 .. n
      BY <3>1, <3>3, <1>5 DEF GenerationsInOrder, OpenedAt
    <3> QED
      BY <3>2, <3>3, <1>6
  <2>2. ASSUME NEW h \in 1 .. g
        PROVE  \E i \in DOMAIN trail' : trail'[i].phase = "opened" /\ trail'[i].generation = h
    <3>1. CASE h = g
      BY <3>1, <1>2, <1>5
    <3>2. CASE h # g
      <4>1. h \in 1 .. nextGeneration - 1
        BY <3>2, <1>3 DEF g
      <4>2. PICK i \in DOMAIN trail : trail[i].phase = "opened" /\ trail[i].generation = h
        BY <4>1 DEF GenerationsInOrder, OpenedAt
      <4> QED
        BY <4>2, <1>5
    <3> QED
      BY <3>1, <3>2
  <2>3. nextGeneration' - 1 = g
    BY <1>1, <1>3
  <2> QED
    BY <2>1, <2>2, <2>3 DEF GenerationsInOrder, OpenedAt
<1>10. AuditPairsUp'
  <2>1. \A i \in DOMAIN trail' : trail'[i].phase # "opened" => i \in 1 .. n
    BY <1>2, <1>5, <1>6
  <2>2. \A i, j \in DOMAIN trail' :
          trail'[i].phase # "opened" /\ trail'[j].phase # "opened"
            /\ trail'[i].generation = trail'[j].generation => i = j
    BY <2>1, <1>5 DEF AuditPairsUp, SettledAt
  <2>3. ASSUME NEW j \in DOMAIN trail', trail'[j].phase # "opened"
        PROVE  \E i \in 1 .. j - 1 : /\ trail'[i].phase = "opened"
                                     /\ trail'[i].generation = trail'[j].generation
                                     /\ trail'[i].selection = trail'[j].selection
    <3>1. j \in 1 .. n /\ trail'[j] = trail[j]
      BY <2>1, <2>3, <1>5
    <3>2. PICK i \in 1 .. j - 1 : /\ trail[i].phase = "opened"
                                  /\ trail[i].generation = trail[j].generation
                                  /\ trail[i].selection = trail[j].selection
      BY <3>1, <2>3, <1>5 DEF AuditPairsUp, OpenedAt, SettledAt
    <3>3. i \in 1 .. n
      BY <3>1, <1>5
    <3> QED
      BY <3>1, <3>2, <3>3, <1>5
  <2>4. ASSUME NEW e \in Decisions, decision'[e].stage \in SettledStages,
               decision'[e].generation # 0
        PROVE  \E j \in DOMAIN trail' :
                 /\ trail'[j].phase # "opened"
                 /\ trail'[j].generation = decision'[e].generation
    <3>1. decision'[e] = decision[e]
      BY <2>4, <1>4 DEF SettledStages
    <3>2. PICK j \in DOMAIN trail : /\ trail[j].phase # "opened"
                                    /\ trail[j].generation = decision[e].generation
      BY <2>4, <3>1 DEF AuditPairsUp, SettledAt
    <3> QED
      BY <3>1, <3>2, <1>5
  <2> QED
    BY <2>2, <2>3, <2>4 DEF AuditPairsUp, OpenedAt, SettledAt
<1>11. ReapedIsDead'
  <2> SUFFICES ASSUME NEW i \in DOMAIN trail', NEW e \in Decisions,
                      trail'[i].phase = "reaped",
                      decision'[e].generation = trail'[i].generation
               PROVE  child'[e] = "dead"
    BY DEF ReapedIsDead
  <2>1. i \in DOMAIN trail /\ trail'[i] = trail[i]
    BY <1>2, <1>5, <1>6
  <2>2. e # d
    BY <2>1, <1>4, <1>5, <1>3 DEF Generations, g
  <2> QED
    BY <2>1, <2>2, <1>1, <1>4 DEF ReapedIsDead
<1> QED
  BY <1>7, <1>8, <1>9, <1>10, <1>11

\* A settled record ends the decision whose generation it carries.
LEMMA SettleAudit ==
  ASSUME Lifecycle, AuditLaw, NEW d \in Decisions, NEW reaped \in BOOLEAN,
         decision[d].stage = "teardown", decision[d].generation # 0, Leave(d, reaped),
         nextGeneration' = nextGeneration,
         \A e \in Decisions : /\ HadProcess(e) => HadProcess(e)'
                              /\ child[e] = "dead" => child'[e] = "dead",
         reaped => child'[d] = "dead"
  PROVE  AuditLaw'
<1> USE DEF AuditLaw
<1> DEFINE g == decision[d].generation
           n == Len(trail)
           r == Audit(IF reaped THEN "reaped" ELSE "reap_failed", g, d[2])
<1>1. trail' = Append(trail, r)
  BY DEF Leave, TrailAfter
<1>2. /\ r.phase = (IF reaped THEN "reaped" ELSE "reap_failed") /\ r.phase # "opened"
      /\ r.generation = g /\ r.selection = d[2]
  BY DEF Audit
<1>3. decision[d].got # "none" /\ decision[d] \in DecisionRecord
  BY DEF Lifecycle, TypeOK, Gained
<1>4. \A e \in Decisions :
        IF e = d
        THEN decision'[e].generation = g /\ decision'[e].stage \in SettledStages
        ELSE decision'[e] = decision[e]
  BY <1>3, SettledRecord DEF Lifecycle, TypeOK, Leave
<1>5. /\ n \in Nat /\ DOMAIN trail = 1 .. n /\ DOMAIN trail' = 1 .. n + 1
      /\ \A i \in 1 .. n : trail'[i] = trail[i]
      /\ trail'[n + 1] = r
  BY <1>1, Appended DEF Lifecycle
<1>6. g # 0 /\ InFlight(d)
  BY DEF InFlight, InFlightStages
<1> HIDE DEF g, n, r
<1>7. \A i \in 1 .. n + 1 : i = n + 1 \/ i \in 1 .. n
  BY <1>5
<1>8. \A i \in 1 .. n : trail[i].phase # "opened" => trail[i].generation # g
  BY <1>6, <1>5 DEF AuditOfDecisions, SettledAt, g
<1>9. Generations'
  BY <1>2, <1>4, <1>5, <1>6, <1>7 DEF Generations, SettledStages, g
<1>10. AuditOfDecisions'
  <2> SUFFICES ASSUME NEW e \in Decisions, decision'[e].generation # 0
               PROVE  /\ \E i \in DOMAIN trail' :
                           /\ trail'[i].phase = "opened"
                           /\ trail'[i].generation = decision'[e].generation
                           /\ trail'[i].selection = e[2]
                      /\ InFlight(e)' => \A i \in DOMAIN trail' :
                           trail'[i].phase # "opened" =>
                             trail'[i].generation # decision'[e].generation
    BY DEF AuditOfDecisions, OpenedAt, SettledAt
  <2>1. decision'[e].generation = decision[e].generation
    BY <1>4 DEF g
  <2>2. PICK i \in DOMAIN trail : /\ trail[i].phase = "opened"
                                  /\ trail[i].generation = decision[e].generation
                                  /\ trail[i].selection = e[2]
    BY <2>1 DEF AuditOfDecisions, OpenedAt
  <2>3. i \in DOMAIN trail' /\ trail'[i] = trail[i]
    BY <1>5
  <2>4. ASSUME InFlight(e)', NEW j \in DOMAIN trail', trail'[j].phase # "opened"
        PROVE  trail'[j].generation # decision'[e].generation
    <3>1. e # d /\ InFlight(e)
      BY <2>4, <1>4 DEF InFlight, InFlightStages, SettledStages
    <3>2. CASE j = n + 1
      BY <3>1, <3>2, <2>1, <1>2, <1>5, <1>6 DEF Generations, g
    <3>3. CASE j \in 1 .. n
      BY <3>1, <3>3, <2>1, <2>4, <1>5 DEF AuditOfDecisions, SettledAt
    <3> QED
      BY <3>2, <3>3, <1>5, <1>7
  <2> QED
    BY <2>1, <2>2, <2>3, <2>4
<1>11. GenerationsInOrder'
  <2>1. \A i \in 1 .. n + 1 : trail'[i].phase = "opened" => i \in 1 .. n
    BY <1>2, <1>5, <1>7
  <2>2. \A i, j \in 1 .. n + 1 :
          trail'[i].phase = "opened" /\ trail'[j].phase = "opened" /\ i < j =>
            trail'[i].generation < trail'[j].generation
    BY <2>1, <1>5 DEF GenerationsInOrder, OpenedAt
  <2>3. \A h \in 1 .. nextGeneration - 1 :
          \E i \in 1 .. n + 1 : trail'[i].phase = "opened" /\ trail'[i].generation = h
    BY <1>5 DEF GenerationsInOrder, OpenedAt
  <2> QED
    BY <2>2, <2>3, <1>5 DEF GenerationsInOrder, OpenedAt
<1>12. AuditPairsUp'
  <2>1. \A i, j \in 1 .. n + 1 :
          trail'[i].phase # "opened" /\ trail'[j].phase # "opened"
            /\ trail'[i].generation = trail'[j].generation => i = j
    <3> SUFFICES ASSUME NEW i \in 1 .. n + 1, NEW j \in 1 .. n + 1,
                        trail'[i].phase # "opened", trail'[j].phase # "opened",
                        trail'[i].generation = trail'[j].generation
                 PROVE  i = j
      OBVIOUS
    <3>1. CASE i \in 1 .. n /\ j \in 1 .. n
      BY <3>1, <1>5 DEF AuditPairsUp, SettledAt
    <3>2. CASE i = n + 1 \/ j = n + 1
      BY <3>2, <1>2, <1>5, <1>7, <1>8
    <3> QED
      BY <3>1, <3>2, <1>7
  <2>2. ASSUME NEW j \in 1 .. n + 1, trail'[j].phase # "opened"
        PROVE  \E i \in 1 .. j - 1 : /\ trail'[i].phase = "opened"
                                     /\ trail'[i].generation = trail'[j].generation
                                     /\ trail'[i].selection = trail'[j].selection
    <3>1. CASE j = n + 1
      <4>1. PICK i \in 1 .. n : /\ trail[i].phase = "opened" /\ trail[i].generation = g
                                /\ trail[i].selection = d[2]
        BY <1>5, <1>6 DEF AuditOfDecisions, OpenedAt, g
      <4>2. i \in 1 .. j - 1 /\ trail'[i] = trail[i]
        BY <3>1, <1>5
      <4> QED
        BY <3>1, <4>1, <4>2, <1>2, <1>5
    <3>2. CASE j \in 1 .. n
      <4>1. PICK i \in 1 .. j - 1 : /\ trail[i].phase = "opened"
                                    /\ trail[i].generation = trail[j].generation
                                    /\ trail[i].selection = trail[j].selection
        BY <3>2, <2>2, <1>5 DEF AuditPairsUp, OpenedAt, SettledAt
      <4>2. i \in 1 .. n
        BY <3>2, <1>5
      <4> QED
        BY <3>2, <4>1, <4>2, <1>5
    <3> QED
      BY <3>1, <3>2, <1>7
  <2>3. ASSUME NEW e \in Decisions, decision'[e].stage \in SettledStages,
               decision'[e].generation # 0
        PROVE  \E j \in 1 .. n + 1 : /\ trail'[j].phase # "opened"
                                     /\ trail'[j].generation = decision'[e].generation
    <3>1. CASE e = d
      BY <3>1, <1>2, <1>4, <1>5
    <3>2. CASE e # d
      <4>1. decision'[e] = decision[e]
        BY <3>2, <1>4
      <4>2. PICK j \in 1 .. n : /\ trail[j].phase # "opened"
                                /\ trail[j].generation = decision[e].generation
        BY <2>3, <4>1, <1>5 DEF AuditPairsUp, SettledAt
      <4> QED
        BY <4>1, <4>2, <1>5
    <3> QED
      BY <3>1, <3>2
  <2> QED
    BY <2>1, <2>2, <2>3, <1>5 DEF AuditPairsUp, OpenedAt, SettledAt
<1>13. ReapedIsDead'
  <2> SUFFICES ASSUME NEW i \in 1 .. n + 1, NEW e \in Decisions,
                      trail'[i].phase = "reaped",
                      decision'[e].generation = trail'[i].generation
               PROVE  child'[e] = "dead"
    BY <1>5 DEF ReapedIsDead
  <2>1. decision'[e].generation = decision[e].generation
    BY <1>4 DEF g
  <2>2. CASE i \in 1 .. n
    BY <2>1, <2>2, <1>5 DEF ReapedIsDead
  <2>3. CASE i = n + 1
    <3>1. e = d
      BY <2>1, <2>3, <1>2, <1>5, <1>6 DEF Generations, g
    <3> QED
      BY <3>1, <2>3, <1>2, <1>5
  <2> QED
    BY <2>2, <2>3, <1>7
<1> QED
  BY <1>9, <1>10, <1>11, <1>12, <1>13

\* Every step of the sessions keeps the trail true.
LEMMA AuditStep ==
  ASSUME Lifecycle, AuditLaw, [Next]_vars
  PROVE  AuditLaw'
<1>1. CASE UNCHANGED vars
  BY <1>1, AuditUnmoved DEF vars, InFlight, HadProcess
<1>2. ASSUME NEW x \in Sessions, SelectAction(x)
      PROVE  AuditLaw'
  <2> DEFINE d == <<x, nextSelection[x]>>
  <2>1. d \in Decisions /\ decision[d].stage = "idle"
    <3>1. nextSelection[x] \in Selections
      BY <1>2 DEF SelectAction, Bounded, Lifecycle, TypeOK, Selections
    <3>2. d \in Decisions /\ d[1] = x /\ d[2] = nextSelection[x]
      BY <3>1, Pairs
    <3> QED
      BY <3>1, <3>2 DEF Lifecycle, Unused, Selections
  <2>2. decision[d].generation = 0
    BY <2>1 DEF AuditLaw, Generations
  <2>3. \A e \in Decisions : decision'[e] = IF e = d THEN At("setup", "none", 0) ELSE decision[e]
    BY <1>2, <2>1 DEF SelectAction, Bounded, Lifecycle, TypeOK
  <2>4. At("setup", "none", 0).stage = "setup" /\ At("setup", "none", 0).generation = 0
    BY DEF At
  <2>5. UNCHANGED <<child, trail, nextGeneration>>
    BY <1>2 DEF SelectAction, Bounded
  <2> HIDE DEF d
  <2> QED
    BY <2>1, <2>2, <2>3, <2>4, <2>5, AuditUnmoved DEF InFlight, HadProcess, InFlightStages, SettledStages
<1>3. ASSUME NEW x \in Sessions, Close(x)
      PROVE  AuditLaw'
  BY <1>3, AuditUnmoved DEF Close, InFlight, HadProcess
<1>4. ASSUME NEW d \in Decisions, Spawn(d) \/ SpawnFails(d) \/ ChildDies(d)
      PROVE  AuditLaw'
  <2>1. \A e \in Decisions : /\ HadProcess(e) => HadProcess(e)'
                             /\ child[e] = "dead" => child'[e] = "dead"
    BY <1>4 DEF Spawn, SpawnFails, ChildDies, HadProcess, Lifecycle, TypeOK
  <2> QED
    BY <1>4, <2>1, AuditUnmoved DEF Spawn, SpawnFails, ChildDies, InFlight
<1>5. ASSUME NEW d \in Decisions, SetupFails(d) \/ InnerSettles(d)
      PROVE  AuditLaw'
  <2>1. /\ decision[d].stage \in {"setup", "select"}
        /\ UNCHANGED <<child, trail, nextGeneration>>
    BY <1>5 DEF SetupFails, InnerSettles
  <2>2. /\ decision'[d].stage = "teardown"
        /\ decision'[d].generation = decision[d].generation
    BY <1>5 DEF SetupFails, InnerSettles, At, Lifecycle, TypeOK, AuditLaw, Generations
  <2>3. \A e \in Decisions : e # d => decision'[e] = decision[e]
    BY <1>5 DEF SetupFails, InnerSettles, Lifecycle, TypeOK
  <2> QED
    BY <2>1, <2>2, <2>3, AuditUnmoved DEF InFlight, HadProcess, InFlightStages, SettledStages
<1>6. ASSUME NEW d \in Decisions, Ready(d)
      PROVE  AuditLaw'
  BY <1>6, ReadyAudit
<1>7. ASSUME NEW d \in Decisions, TeardownSucceeds(d) \/ TeardownFails(d)
      PROVE  AuditLaw'
  <2>1. PICK reaped \in BOOLEAN :
          /\ Leave(d, reaped)
          /\ reaped => child'[d] # "alive"
    <3>1. CASE TeardownSucceeds(d)
      BY <3>1 DEF TeardownSucceeds, Lifecycle, TypeOK
    <3>2. CASE TeardownFails(d)
      BY <3>2 DEF TeardownFails
    <3> QED
      BY <1>7, <3>1, <3>2
  <2>2. /\ nextGeneration' = nextGeneration /\ decision[d].stage = "teardown"
        /\ child' \in [Decisions -> {"unborn", "unspawned", "alive", "dead"}]
        /\ \A e \in Decisions : /\ HadProcess(e) => HadProcess(e)'
                                /\ child[e] = "dead" => child'[e] = "dead"
    BY <1>7 DEF TeardownSucceeds, TeardownFails, HadProcess, Lifecycle, TypeOK
  <2>3. CASE decision[d].generation # 0
    <3>1. HadProcess(d)'
      BY <2>2, <2>3 DEF AuditLaw, Generations
    <3>2. reaped => child'[d] = "dead"
      BY <3>1, <2>1 DEF HadProcess
    <3> QED
      BY <2>1, <2>2, <2>3, <3>2, SettleAudit
  <2>4. CASE decision[d].generation = 0
    <3>1. decision[d].got # "none"
      BY <2>2 DEF Lifecycle, Gained
    <3>2. \A e \in Decisions :
            IF e = d
            THEN decision'[e].generation = 0 /\ decision'[e].stage \in SettledStages
            ELSE decision'[e] = decision[e]
      BY <2>1, <2>4, <3>1, SettledRecord DEF Lifecycle, TypeOK, Leave
    <3>3. trail' = trail
      BY <2>1, <2>4 DEF Leave, TrailAfter
    <3> QED
      BY <2>2, <2>4, <3>2, <3>3, AuditUnmoved DEF InFlight, InFlightStages, SettledStages
  <2> QED
    BY <2>3, <2>4
<1> QED
  BY <1>1, <1>2, <1>3, <1>4, <1>5, <1>6, <1>7 DEF Next, Decide

(* ---- Theorems ------------------------------------------------------------- *)

\* The inductive invariant of the sessions and of their shared recorder holds in every
\* reachable state.
THEOREM Safety == Spec => []Inductive
<1>1. Init => Inductive
  BY InitLifecycle, InitAudit DEF Inductive
<1>2. Inductive /\ [Next]_vars => Inductive'
  BY LifecycleStep, AuditStep DEF Inductive
<1> QED
  BY <1>1, <1>2, PTL DEF Spec

\* What is reported is typed: an unbranded value never leaves decide() as a decision.
THEOREM TypeCorrect == Spec => []TypeOK
<1>1. Inductive => TypeOK
  BY DEF Inductive, Lifecycle
<1> QED
  BY <1>1, Safety, PTL

\* No move and no deadline or memory verdict is reported while the child it came from may
\* be running, whatever fails and wherever close() comes.
THEOREM NoMoveFromLiveChild == Spec => []NothingFromLiveChild
<1>1. Inductive => NothingFromLiveChild
  BY DEF Inductive, Lifecycle, Reports, NothingFromLiveChild, Verdict, Classified
<1> QED
  BY <1>1, Safety, PTL

\* Per-decision children of a session do not overlap, save for those whose teardown was
\* reported as failed.
THEOREM ChildrenDoNotOverlap == Spec => []OneChildAtATime
<1>1. ASSUME Inductive, NEW x \in Sessions, NEW s \in Selections,
             child[<<x, s>>] = "alive", active[x] # s
      PROVE  decision[<<x, s>>].reported = "recycle_failed"
  <2> DEFINE d == <<x, s>>
  <2>1. d \in Decisions /\ d[1] = x /\ d[2] = s
    BY Pairs
  <2>2. ~InFlight(d) /\ decision[d].stage # "idle" /\ decision[d] \in DecisionRecord
    BY <1>1, <2>1 DEF Inductive, Lifecycle, Barrier, Unused, TypeOK
  <2>3. decision[d].stage \in SettledStages
    BY <2>2 DEF InFlight, InFlightStages, SettledStages, Stages, DecisionRecord
  <2> QED
    BY <1>1, <2>1, <2>3 DEF Inductive, Lifecycle, Reports, Verdict
<1>2. Inductive => OneChildAtATime
  BY <1>1 DEF OneChildAtATime
<1> QED
  BY <1>2, Safety, PTL

\* The shared audit trail opens 1, 2, 3... in order, pairs every settled record with its
\* opened record, and says reaped only of dead children.
THEOREM TrailIsTrue == Spec => []AuditTellsTheTruth
<1>1. Inductive => AuditTellsTheTruth
  BY DEF Inductive, AuditLaw, AuditTellsTheTruth
<1> QED
  BY <1>1, Safety, PTL

\* close() returns only when nothing is in flight.
THEOREM ClosedMeansQuiet == Spec => []ClosedIsQuiet
<1>1. ASSUME Inductive, NEW x \in Sessions, closing[x] = "done", NEW s \in Selections
      PROVE  decision[<<x, s>>].stage \notin InFlightStages
  BY <1>1, Pairs DEF Inductive, Lifecycle, ClosedBarrier, Barrier, InFlight, Selections
<1>2. Inductive => ClosedIsQuiet
  BY <1>1 DEF ClosedIsQuiet
<1> QED
  BY <1>2, Safety, PTL

\* No single step reopens a closed session or overwrites a settled decision.
LEMMA ClosedStep ==
  ASSUME Inductive, Next, NEW d \in Decisions
  PROVE  /\ decision[d].stage \in SettledStages => decision'[d] = decision[d]
         /\ closed[d[1]] /\ decision[d].stage = "idle" => decision'[d].stage = "idle"
<1> USE DEF Inductive, Lifecycle
<1>1. ASSUME NEW x \in Sessions, SelectAction(x)
      PROVE  /\ decision[d].stage \in SettledStages => decision'[d] = decision[d]
             /\ closed[d[1]] /\ decision[d].stage = "idle" => decision'[d].stage = "idle"
  <2> DEFINE s == nextSelection[x]
  <2>1. s \in Selections /\ <<x, s>> \in Decisions /\ <<x, s>>[1] = x /\ <<x, s>>[2] = s
    <3>1. s \in Selections
      BY <1>1 DEF SelectAction, Bounded, TypeOK, Selections
    <3> QED
      BY <3>1, Pairs
  <2>2. decision[<<x, s>>].stage = "idle" /\ ~closed[x]
    BY <1>1, <2>1 DEF SelectAction, Bounded, Unused, Selections
  <2>3. decision' = [decision EXCEPT ![<<x, s>>] = At("setup", "none", 0)]
    BY <1>1 DEF SelectAction, Bounded
  <2> QED
    BY <2>1, <2>2, <2>3 DEF TypeOK, SettledStages
<1>2. ASSUME NEW e \in Decisions, Decide(e)
      PROVE  /\ decision[d].stage \in SettledStages => decision'[d] = decision[d]
             /\ decision[d].stage = "idle" => decision'[d] = decision[d]
  <2>1. decision' = decision \/ decision[e].stage \in InFlightStages
    BY <1>2 DEF Decide, Spawn, SpawnFails, SetupFails, Ready, InnerSettles, TeardownSucceeds,
                TeardownFails, InFlightStages
  <2>2. e # d => decision'[d] = decision[d]
    BY <1>2 DEF Decide, Spawn, SpawnFails, SetupFails, Ready, InnerSettles, TeardownSucceeds,
                TeardownFails, Leave, TypeOK
  <2> QED
    BY <2>1, <2>2 DEF InFlightStages, SettledStages
<1>3. ASSUME NEW e \in Decisions, ChildDies(e)
      PROVE  decision' = decision
  BY <1>3 DEF ChildDies
<1>4. ASSUME NEW x \in Sessions, Close(x)
      PROVE  decision' = decision
  BY <1>4 DEF Close
<1> QED
  BY <1>1, <1>2, <1>3, <1>4 DEF Next

\* No step overwrites a settled decision, and a closed session starts none.
THEOREM NothingAfterClose == Spec => ClosedStaysClosed
<1>1. ASSUME Inductive, Next
      PROVE  \A x \in Sessions, s \in Selections :
               /\ decision[<<x, s>>].stage \in SettledStages =>
                    decision'[<<x, s>>] = decision[<<x, s>>]
               /\ closed[x] /\ decision[<<x, s>>].stage = "idle" =>
                    decision'[<<x, s>>].stage = "idle"
  BY <1>1, ClosedStep, Pairs
<1>2. ASSUME UNCHANGED vars
      PROVE  \A x \in Sessions, s \in Selections :
               /\ decision[<<x, s>>].stage \in SettledStages =>
                    decision'[<<x, s>>] = decision[<<x, s>>]
               /\ closed[x] /\ decision[<<x, s>>].stage = "idle" =>
                    decision'[<<x, s>>].stage = "idle"
  BY <1>2 DEF vars
<1>3. Inductive /\ [Next]_vars =>
        [\A x \in Sessions, s \in Selections :
           /\ decision[<<x, s>>].stage \in SettledStages =>
                decision'[<<x, s>>] = decision[<<x, s>>]
           /\ closed[x] /\ decision[<<x, s>>].stage = "idle" =>
                decision'[<<x, s>>].stage = "idle"]_vars
  BY <1>1, <1>2
<1> QED
  BY <1>3, Safety, PTL DEF Spec, ClosedStaysClosed
=============================================================================
