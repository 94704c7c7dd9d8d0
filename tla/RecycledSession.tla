--------------------------- MODULE RecycledSession ---------------------------
(***************************************************************************)
(* recycledNormalDuelWasmSession in worker-engine-proxy.mjs: sessions      *)
(* whose every decision runs in a subprocess of its own, which is reaped   *)
(* before the decision is handed back.  The sessions of one adapter share  *)
(* its audit recorder.                                                     *)
(*                                                                         *)
(* decide() awaits three times (inner session ready, inner selectAction,   *)
(* inner close) and the caller may call selectAction and close at any of   *)
(* those points; each await is a step here.  observe() changes nothing.    *)
(* The inner session is SubprocessHost seen from outside: it settles with  *)
(* a branded decision, an unbranded value or an error, and its teardown    *)
(* may fail with the child dead or still running.  Where the fork failed   *)
(* there is no child to exit, and its teardown never returns.              *)
(***************************************************************************)
EXTENDS Naturals, Sequences, FiniteSets

CONSTANTS
  Sessions,       \* the sessions createSession returns
  MaxSelections,  \* bound on the selectAction calls a session admits
  MaxDecisions,   \* bound on those calls over all sessions
  TeardownMayFail \* whether an inner close() may fail

ASSUME SelectionsAssumption == MaxSelections \in Nat
ASSUME DecisionsAssumption == MaxDecisions \in Nat
ASSUME TeardownAssumption == TeardownMayFail \in BOOLEAN

VARIABLES
  closed,         \* per session: its closed flag
  active,         \* per session: activeOperation, as its selection, 0 for null
  nextSelection,  \* per session
  closing,        \* per session: close() is "no", "waiting" on activeOperation, "done"
  decision,       \* per decision: what decide() has got to
  child,          \* per decision: its subprocess is "unborn", "unspawned", "alive" or "dead"
  nextGeneration, \* of the adapter's audit recorder
  trail           \* the audit records emitted so far

vars == <<closed, active, nextSelection, closing, decision, child, nextGeneration, trail>>

Selections == 1 .. MaxSelections

\* A decision is a session and the ordinal of a selectAction call it admitted.
Decisions == Sessions \X Selections

Stages == {"idle", "setup", "select", "teardown", "resolved", "rejected"}
InFlightStages == {"setup", "select", "teardown"}
SettledStages == {"resolved", "rejected"}

\* What decide() has so far: nothing, a branded decision, a value without the brand,
\* or an error, which may carry a private deadline or memory classification.
Outcomes == {"none", "decision", "unbranded", "crash", "deadline", "memory"}
Failures == {"crash", "deadline", "memory"}
Classified == {"deadline", "memory"}

DecisionRecord ==
  [stage : Stages, got : Outcomes, generation : Nat, reaped : BOOLEAN,
   reported : {"none", "decision", "recycle_failed"} \cup Failures]

At(stage, got, generation) ==
  [stage |-> stage, got |-> got, generation |-> generation, reaped |-> FALSE,
   reported |-> "none"]

AuditRecord == [phase : {"opened", "reaped", "reap_failed"}, generation : Nat, selection : Nat]

Audit(phase, generation, selection) ==
  [phase |-> phase, generation |-> generation, selection |-> selection]

Init ==
  /\ closed = [x \in Sessions |-> FALSE]
  /\ active = [x \in Sessions |-> 0]
  /\ nextSelection = [x \in Sessions |-> 1]
  /\ closing = [x \in Sessions |-> "no"]
  /\ decision = [d \in Decisions |-> At("idle", "none", 0)]
  /\ child = [d \in Decisions |-> "unborn"]
  /\ nextGeneration = 1
  /\ trail = <<>>

(* ---- selectAction and decide -------------------------------------------- *)

Bounded(x) ==
  /\ nextSelection[x] <= MaxSelections
  /\ Cardinality({d \in Decisions : decision[d].stage # "idle"}) < MaxDecisions

\* A call is refused once the session is closed or while another decision is active;
\* otherwise it takes the barrier and starts decide().
SelectAction(x) ==
  /\ ~closed[x]
  /\ active[x] = 0
  /\ Bounded(x)
  /\ nextSelection' = [nextSelection EXCEPT ![x] = @ + 1]
  /\ active' = [active EXCEPT ![x] = nextSelection[x]]
  /\ decision' = [decision EXCEPT ![<<x, nextSelection[x]>>] = At("setup", "none", 0)]
  /\ UNCHANGED <<closed, closing, child, nextGeneration, trail>>

\* base.createSession spawns the per-decision child.
Spawn(d) ==
  /\ decision[d].stage = "setup" /\ child[d] = "unborn"
  /\ child' = [child EXCEPT ![d] = "alive"]
  /\ UNCHANGED <<closed, active, nextSelection, closing, decision, nextGeneration, trail>>

\* The fork fails with an 'error' event: an inner session without a process.
SpawnFails(d) ==
  /\ decision[d].stage = "setup" /\ child[d] = "unborn"
  /\ child' = [child EXCEPT ![d] = "unspawned"]
  /\ UNCHANGED <<closed, active, nextSelection, closing, decision, nextGeneration, trail>>

HadProcess(d) == child[d] \in {"alive", "dead"}

\* createSession or ready() fails: no generation is opened; an inner session that
\* exists is still torn down.
SetupFails(d) ==
  /\ decision[d].stage = "setup"
  /\ \E got \in Failures : decision' = [decision EXCEPT ![d] = At("teardown", got, 0)]
  /\ UNCHANGED <<closed, active, nextSelection, closing, child, nextGeneration, trail>>

\* The inner session is ready: one fresh child, one generation.
Ready(d) ==
  /\ decision[d].stage = "setup" /\ HadProcess(d)
  /\ decision' = [decision EXCEPT ![d] = At("select", "none", nextGeneration)]
  /\ nextGeneration' = nextGeneration + 1
  /\ trail' = Append(trail, Audit("opened", nextGeneration, d[2]))
  /\ UNCHANGED <<closed, active, nextSelection, closing, child>>

\* The inner selectAction settles, one way or another.
InnerSettles(d) ==
  /\ decision[d].stage = "select"
  /\ \E got \in {"decision", "unbranded"} \cup Failures :
       decision' = [decision EXCEPT ![d] = At("teardown", got, decision[d].generation)]
  /\ UNCHANGED <<closed, active, nextSelection, closing, child, nextGeneration, trail>>

\* The child may die by itself at any time.
ChildDies(d) ==
  /\ child[d] = "alive"
  /\ child' = [child EXCEPT ![d] = "dead"]
  /\ UNCHANGED <<closed, active, nextSelection, closing, decision, nextGeneration, trail>>

VerdictTrusting(got, reaped) ==
  CASE got = "unbranded" -> "crash"
    [] ~reaped /\ got = "crash" -> "recycle_failed"
    [] OTHER -> got

\* failClosed and the end of decide: an unproven teardown replaces whatever the
\* decision would have reported, a healthy decision included.
Verdict(got, reaped) ==
  IF ~reaped THEN "recycle_failed" ELSE IF got = "unbranded" THEN "crash" ELSE got

TrailAfterIgnoringFailure(d, reaped) ==
  IF decision[d].generation = 0 THEN trail
  ELSE Append(trail, Audit("reaped", decision[d].generation, d[2]))

\* audit.settled, called where a generation was opened.
TrailAfter(d, reaped) ==
  IF decision[d].generation = 0 THEN trail
  ELSE Append(trail, Audit(IF reaped THEN "reaped" ELSE "reap_failed",
                           decision[d].generation, d[2]))

\* The end of decide: its result or its error is what selectAction returns.
Settled(d, reaped) ==
  LET verdict == Verdict(decision[d].got, reaped)
  IN [stage |-> IF verdict = "decision" THEN "resolved" ELSE "rejected",
      got |-> decision[d].got, generation |-> decision[d].generation,
      reaped |-> reaped, reported |-> verdict]

LeaveWithoutWaking(d, reaped) ==
  /\ decision' = [decision EXCEPT ![d] = Settled(d, reaped)]
  /\ trail' = TrailAfter(d, reaped)
  /\ active' = [active EXCEPT ![d[1]] = 0]
  /\ UNCHANGED closing

\* decide() settles; the finally block of selectAction clears the barrier and wakes a
\* waiting close().
Leave(d, reaped) ==
  /\ decision' = [decision EXCEPT ![d] = Settled(d, reaped)]
  /\ trail' = TrailAfter(d, reaped)
  /\ active' = [active EXCEPT ![d[1]] = 0]
  /\ closing' = [closing EXCEPT ![d[1]] = IF @ = "waiting" THEN "done" ELSE @]

\* inner.close() has returned: its child, if there is one, has exited.  It awaits that
\* exit; a fork that failed has none, and close() waits for ever.
TeardownSucceeds(d) ==
  /\ decision[d].stage = "teardown" /\ child[d] # "unspawned"
  /\ child' = [child EXCEPT ![d] = IF @ = "alive" THEN "dead" ELSE @]
  /\ Leave(d, TRUE)
  /\ UNCHANGED <<closed, nextSelection, nextGeneration>>

\* inner.close(), or the fault injected after it, throws; the child may live on.
TeardownFails(d) ==
  /\ TeardownMayFail
  /\ decision[d].stage = "teardown" /\ HadProcess(d)
  /\ Leave(d, FALSE)
  /\ UNCHANGED <<closed, nextSelection, nextGeneration, child>>

(* ---- close --------------------------------------------------------------- *)

\* close() refuses further calls at once and waits for the decision in flight.
Close(x) ==
  /\ closing[x] = "no"
  /\ closed' = [closed EXCEPT ![x] = TRUE]
  /\ closing' = [closing EXCEPT ![x] = IF active[x] = 0 THEN "done" ELSE "waiting"]
  /\ UNCHANGED <<active, nextSelection, decision, child, nextGeneration, trail>>

Decide(d) ==
  \/ Spawn(d) \/ SpawnFails(d) \/ SetupFails(d) \/ Ready(d) \/ InnerSettles(d)
  \/ TeardownSucceeds(d) \/ TeardownFails(d)

Next ==
  \/ \E x \in Sessions : SelectAction(x) \/ Close(x)
  \/ \E d \in Decisions : Decide(d) \/ ChildDies(d)

\* The inner session settles every await: its ready timer, its rpc timer and the exit
\* of a killed child see to it.  The close() of a fork that failed is no step of
\* Decide, so nothing is assumed of it.
Fairness == \A d \in Decisions : WF_vars(Decide(d))

Spec == Init /\ [][Next]_vars /\ Fairness

(* ---- Properties ---------------------------------------------------------- *)

\* Type correctness; in particular a value without the host's brand is never reported
\* as such.
TypeOK ==
  /\ closed \in [Sessions -> BOOLEAN]
  /\ active \in [Sessions -> {0} \cup Selections]
  /\ nextSelection \in [Sessions -> 1 .. MaxSelections + 1]
  /\ closing \in [Sessions -> {"no", "waiting", "done"}]
  /\ decision \in [Decisions -> DecisionRecord]
  /\ child \in [Decisions -> {"unborn", "unspawned", "alive", "dead"}]
  /\ nextGeneration \in Nat \ {0}
  /\ trail \in Seq(AuditRecord)

\* No move is ever accepted from a possibly live child, and a deadline or memory
\* verdict is reported only when the child it describes is known to be gone
\* (1199-1208: while cleanup is unproven the verdict survives as context only).
NothingFromLiveChild ==
  \A d \in Decisions :
    decision[d].reported \in {"decision"} \cup Classified => child[d] # "alive"

\* A session has at most one live child, the active decision's, beside those whose
\* teardown has been reported as failed.
OneChildAtATime ==
  \A x \in Sessions, s \in Selections :
    child[<<x, s>>] = "alive" =>
      active[x] = s \/ decision[<<x, s>>].reported = "recycle_failed"

OpenedAt(i) == trail[i].phase = "opened"
SettledAt(i) == trail[i].phase # "opened"

\* Over all the sessions of the adapter the audit trail opens the generations 1, 2, 3...
\* each once and in that order, so a repeated or skipped child shows in the trail alone.
GenerationsInOrder ==
  /\ \A i, j \in DOMAIN trail :
       OpenedAt(i) /\ OpenedAt(j) /\ i < j => trail[i].generation < trail[j].generation
  /\ \A g \in 1 .. nextGeneration - 1 :
       \E i \in DOMAIN trail : OpenedAt(i) /\ trail[i].generation = g

\* Each generation is settled at most once, after it was opened and for the same
\* selection; and no outcome leaves decide() before its settled record was emitted.
AuditPairsUp ==
  /\ \A i, j \in DOMAIN trail :
       SettledAt(i) /\ SettledAt(j) /\ trail[i].generation = trail[j].generation => i = j
  /\ \A j \in DOMAIN trail : SettledAt(j) =>
       \E i \in 1 .. j - 1 : /\ OpenedAt(i)
                             /\ trail[i].generation = trail[j].generation
                             /\ trail[i].selection = trail[j].selection
  /\ \A d \in Decisions :
       decision[d].stage \in SettledStages /\ decision[d].generation # 0 =>
         \E j \in DOMAIN trail :
           SettledAt(j) /\ trail[j].generation = decision[d].generation

\* A reaped record is a proven teardown, never an intention: the child it stands for
\* is dead.
ReapedIsDead ==
  \A i \in DOMAIN trail, d \in Decisions :
    trail[i].phase = "reaped" /\ decision[d].generation = trail[i].generation =>
      child[d] = "dead"

\* What the audit trail says is what happened.
AuditTellsTheTruth == GenerationsInOrder /\ AuditPairsUp /\ ReapedIsDead

\* When close() has returned, no decision of the session is in flight.
ClosedIsQuiet ==
  \A x \in Sessions : closing[x] = "done" =>
    \A s \in Selections : decision[<<x, s>>].stage \notin InFlightStages

\* close() overwrites no result and admits nothing: a settled decision stays as it is
\* and a closed session starts no decision.
ClosedStaysClosed ==
  [][\A x \in Sessions, s \in Selections :
       /\ decision[<<x, s>>].stage \in SettledStages =>
            decision'[<<x, s>>] = decision[<<x, s>>]
       /\ closed[x] /\ decision[<<x, s>>].stage = "idle" =>
            decision'[<<x, s>>].stage = "idle"]_vars

\* Every decision that was admitted is answered, and close() never hangs on the decision
\* it waits for: whichever of setup, selection and teardown fails, every way out of
\* selectAction settles its promise and releases the barrier.  The one exception is a
\* decision whose fork failed, which waits for an exit that never comes, and with it
\* the close() of its session (1256-1262 says that closing cannot hang).
EveryWaitEnds ==
  /\ \A d \in Decisions :
       decision[d].stage \in InFlightStages ~>
         decision[d].stage \in SettledStages \/ child[d] = "unspawned"
  /\ \A x \in Sessions :
       closing[x] = "waiting" ~>
         \/ closing[x] = "done"
         \/ \E s \in Selections : active[x] = s /\ child[<<x, s>>] = "unspawned"

=============================================================================
