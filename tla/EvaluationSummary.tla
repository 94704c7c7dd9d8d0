--------------------------- MODULE EvaluationSummary ---------------------------
(***************************************************************************)
(* summarizeEvaluation in normal-duel-strength.mjs: what the results of    *)
(* the paired games of an evaluation say.                                  *)
(*                                                                         *)
(* A result keeps what the summary reads.  Points are counted in halves    *)
(* and means are left as sums, so the comparisons with 0.66 and with the   *)
(* lower confidence bound are exact.                                       *)
(***************************************************************************)
EXTENDS Integers, Sequences, FiniteSets, FiniteSetsExt

Colours == {"A", "B"}
Against(side) == IF side = "A" THEN "B" ELSE "A"

\* The record runMatch returns, by how the game ended for the contender.
Result(pair, side, contender, baseline, ending) ==
  [pair |-> pair, contenderSide |-> side,
   engines |-> [x \in Colours |-> IF x = side THEN contender ELSE baseline],
   winner |-> CASE ending \in {"wins", "baseline_forfeits"} -> side
                [] ending \in {"loses", "candidate_forfeits"} -> Against(side)
                [] OTHER -> "none",
   failed |-> CASE ending = "candidate_forfeits" -> side
                [] ending = "baseline_forfeits" -> Against(side)
                [] OTHER -> "none"]

WonBy(r, id) == r.winner # "none" /\ r.engines[r.winner] = id

\* Of the results at the given places: all of them, or those of one side.
Tally(results, at, contender, baseline) ==
  LET games == Cardinality(at)
      wins == Cardinality({i \in at : WonBy(results[i], contender)})
      losses == Cardinality({i \in at : WonBy(results[i], baseline)})
  IN [games |-> games, wins |-> wins, losses |-> losses, draws |-> games - wins - losses]

On(results, side) == {i \in DOMAIN results : results[i].contenderSide = side}

(* ---- Paired clusters ---------------------------------------------------- *)

PairIds(results) == {results[i].pair : i \in DOMAIN results}

Pair(results, id) == {i \in DOMAIN results : results[i].pair = id}

\* Exactly one contender game on each side, or the summary throws.
ProperlyPaired(results) ==
  \A id \in PairIds(results) :
    /\ Cardinality(Pair(results, id)) = 2
    /\ {results[i].contenderSide : i \in Pair(results, id)} = Colours

\* In halves of a game.
ResultPoint(r, contender, draw) ==
  IF r.winner = "none" THEN draw ELSE IF WonBy(r, contender) THEN 2 ELSE 0

\* mean - 1.96 * sqrt(variance / n) > 1/2, with the clusters in quarters: the mean is
\* total / 4n and the variance (n * squares - total^2) / 16n(n - 1).
LowerBoundAboveHalf(n, total, squares) ==
  /\ n > 1 /\ total > 2 * n
  /\ 10000 * (total - 2 * n) * (total - 2 * n) * (n - 1) > 38416 * (n * squares - total * total)

\* The mean of one cluster has no error bar: its interval is [0, 1].
ClusterInterval(results, contender, draw) ==
  LET points(id) == MapThenSumSet(LAMBDA i : ResultPoint(results[i], contender, draw), Pair(results, id))
      n == Cardinality(PairIds(results))
      total == MapThenSumSet(points, PairIds(results))
      squares == MapThenSumSet(LAMBDA id : points(id) * points(id), PairIds(results))
  IN [clusters |-> n, total |-> total, aboveHalf |-> LowerBoundAboveHalf(n, total, squares)]

(* ---- The summary -------------------------------------------------------- *)

\* wins / games >= 0.66.
WinRateMet(tally) == tally.games > 0 /\ 100 * tally.wins >= 66 * tally.games

Forfeits(results) == Cardinality({i \in DOMAIN results : results[i].failed # "none"})

\* A gate passes for results that were played under an enforcement token, and only then.
SummarizeEvaluation(results, contender, baseline, minimumPairs, eligible) ==
  LET tally == Tally(results, DOMAIN results, contender, baseline)
      pairs == Cardinality(PairIds(results))
      score == ClusterInterval(results, contender, 1)
      criteria == /\ pairs >= minimumPairs /\ tally.games >= 2 * minimumPairs
                  /\ WinRateMet(tally) /\ score.aboveHalf
  IN [contender |-> contender, openingPairs |-> pairs, tally |-> tally,
      sideSplits |-> [side \in Colours |-> Tally(results, On(results, side), contender, baseline)],
      score |-> score, winRate |-> ClusterInterval(results, contender, 0),
      failures |-> Forfeits(results),
      eligible |-> eligible, criteriaMet |-> criteria, passed |-> eligible /\ criteria]
=============================================================================
