-------------------------- MODULE CheckpointEvaluation --------------------------
(***************************************************************************)
(* evaluateCheckpoint and promoteCheckpoint in normal-duel-checkpoints.mjs *)
(* around the queue of games: the node budget both engines are given, the  *)
(* summary of the results and the decision to promote.                     *)
(***************************************************************************)
EXTENDS CheckpointGames, EvaluationSummary, Functions

CONSTANTS
  Plans,   \* the arguments of an evaluation and of the promotion after it
  Reports  \* summaries that another process hands to promoteCheckpoint

\* Every opening is played with either colour.
ASSUME PairedAssumption == Games % 2 = 0

\* The thresholds are valid ones, and there is at most one incumbent.
ASSUME PlansAssumption ==
  \A p \in Plans : /\ p.minimumPairs \in Nat \ {0}
                   /\ p.incumbent = <<>> \/ p.incumbent = <<p.incumbent[1]>>

VARIABLES plan, summary, promotion

evaluationVars == <<queueVars, plan, summary, promotion>>

None == <<>>  \* or the one value

(* ---- The node budget ---------------------------------------------------- *)

\* Explicit, or the larger of the two published counts; 0 for a refusal.  A count that
\* is not published is 0.
ResolveNodeBudget(p) ==
  IF p.nodeBudget > 0 THEN p.nodeBudget
  ELSE IF p.publishes["baseline"] = 0 \/ p.publishes["candidate"] = 0 THEN 0
  ELSE IF p.publishes["baseline"] > p.publishes["candidate"] THEN p.publishes["baseline"]
  ELSE p.publishes["candidate"]

Accepted(p) == p.mode = "strength" \/ ResolveNodeBudget(p) > 0

Engines == {"candidate", "baseline"}

\* The candidate checks its own searches; the harness checks the nodes of a baseline that
\* reports them.  Strength mode passes no budget.
Overspenders(p) ==
  {engine \in Engines : /\ p.mode = "regression"
                        /\ p.spends[engine] > ResolveNodeBudget(p)
                        /\ engine = "candidate" \/ p.reportsNodes}

\* The job list: opening by opening, the candidate as A and then as B.
SideOf(job) == IF job % 2 = 1 THEN "A" ELSE "B"
OpeningOf(job) == (job + 1) \div 2

\* An engine that overspends forfeits at its first move, which no opening is near enough
\* to a goal row to forestall: only the other's failure can come before.
Endings(p) ==
  IF Overspenders(p) = {} THEN Values \cup {"throws"}
  ELSE {"throws", "candidate_forfeits", "baseline_forfeits"}

\* An evaluation with no budget is refused before a game is played.
EvaluationInit ==
  /\ plan \in Plans /\ Accepted(plan)
  /\ QueueInit
  /\ \A j \in Jobs : fate[j] \in Endings(plan)
  /\ summary = None /\ promotion = None

PlayGames == QueueNext /\ UNCHANGED <<plan, summary, promotion>>

(* ---- The summary -------------------------------------------------------- *)

HarnessResults(endings) ==
  [j \in Jobs |-> Result(OpeningOf(j), SideOf(j), "candidate", "baseline", endings[j])]

FailuresOfTheLoser(played) ==
  Cardinality({i \in DOMAIN played :
                 played[i].failed # "none" /\ played[i].engines[played[i].failed] = "candidate"})

\* A win handed over by the opponent is not a win, so the opponent's forfeits are counted.
OpponentFailures(played) ==
  Cardinality({i \in DOMAIN played :
                 played[i].failed # "none" /\ played[i].engines[played[i].failed] # "candidate"})

Summarize ==
  /\ verdict.kind = "returned" /\ summary = None
  /\ LET played == HarnessResults(verdict.results)
         harness == SummarizeEvaluation(played, "candidate", "baseline", OpeningOf(Games), FALSE)
     IN summary' = <<[games |-> harness.tally.games, openingPairs |-> harness.openingPairs,
                    wins |-> harness.tally.wins, losses |-> harness.tally.losses,
                    draws |-> harness.tally.draws,
                    winRate |-> <<harness.tally.wins, harness.tally.games>>,
                    sideSplits |-> harness.sideSplits,
                    opponentFailures |-> OpponentFailures(played)]>>
  /\ UNCHANGED <<queueVars, plan, promotion>>

(* ---- Promotion ----------------------------------------------------------- *)

\* p / q >= r / s.
AtLeast(rate, other) == rate[1] * other[2] >= other[1] * rate[2]

SummaryIsWellFormed(s) ==
  /\ s.games > 0
  /\ s.opponentFailures <= s.games
  /\ s.wins + s.losses + s.draws = s.games
  /\ 2 * s.openingPairs = s.games

Met(s, p) ==
  /\ SummaryIsWellFormed(s)
  /\ p.incumbent # <<>> => SummaryIsWellFormed(p.incumbent[1])
  /\ s.openingPairs >= p.minimumPairs
  /\ AtLeast(s.winRate, p.minimumRate)
  /\ s.opponentFailures = 0
  /\ s.sideSplits["A"].wins >= 1 /\ s.sideSplits["B"].wins >= 1
  /\ p.incumbent # <<>> => AtLeast(s.winRate, p.incumbent[1].winRate)

PromoteCheckpoint(s) ==
  /\ promotion = None
  /\ promotion' = <<[of |-> s, promoted |-> s # None /\ Met(s[1], plan)]>>
  /\ UNCHANGED <<queueVars, plan, summary>>

PromoteOwn == summary # None /\ PromoteCheckpoint(summary)

\* The summary of another process, or none at all from an evaluation that threw.
PromoteReported == verdict.kind # "pending" /\ \E s \in Reports : PromoteCheckpoint(<<s>>)
PromoteNothing == verdict.kind = "threw" /\ PromoteCheckpoint(None)

EvaluationNext == PlayGames \/ Summarize \/ PromoteOwn \/ PromoteReported \/ PromoteNothing

EvaluationSpec ==
  EvaluationInit /\ [][EvaluationNext]_evaluationVars /\ WF_evaluationVars(PlayGames)

(* ---- Properties ---------------------------------------------------------- *)

\* A checkpoint is promoted exactly when its games earned it: every game was played to an
\* end, none was handed over by the baseline, it won with either colour, often enough and
\* as often as the incumbent did.  So neither engine ran against a budget it could not
\* meet, whoever set the budget.  A summary from elsewhere is promoted only if its totals
\* add up.
PromotionIsEarned ==
  \A decision \in Range(promotion) :
    IF decision.of = None THEN ~decision.promoted
    ELSE IF decision.of = summary
    THEN LET won(side) == Cardinality({j \in Jobs : SideOf(j) = side /\ fate[j] = "wins"})
             rate == <<won("A") + won("B"), Games>>
         IN /\ decision.promoted => Overspenders(plan) = {}
            /\ decision.promoted <=>
                 /\ \A j \in Jobs : fate[j] \notin {"throws", "baseline_forfeits"}
                 /\ won("A") > 0 /\ won("B") > 0
                 /\ AtLeast(rate, plan.minimumRate) /\ Games >= 2 * plan.minimumPairs
                 /\ \A incumbent \in Range(plan.incumbent) :
                      SummaryIsWellFormed(incumbent) /\ AtLeast(rate, incumbent.winRate)
    ELSE decision.promoted =>
           /\ decision.of[1].wins + decision.of[1].losses + decision.of[1].draws = decision.of[1].games
           /\ decision.of[1].games = 2 * decision.of[1].openingPairs

=============================================================================
