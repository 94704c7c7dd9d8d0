------------------------ MODULE MCCheckpointEvaluation ------------------------
(* What runs at once in an evaluation: the games of a checkpoint's (two openings, *)
(* four games; the baseline that publishes no count had every one of its moves    *)
(* forfeited when the budget defaulted to 1), or recycled sessions that share an  *)
(* audit recorder.                                                                *)
EXTENDS CheckpointEvaluation, RecycledSession

VARIABLE part     \* the two share nothing: a behaviour is about one of them

Counts(c, b) == [e \in Engines |-> IF e = "candidate" THEN c ELSE b]

Splits(a, b) ==
  [x \in Colours |-> [games |-> 2, wins |-> IF x = "A" THEN a ELSE b, losses |-> 0, draws |-> 0]]
Summary(wins, losses, rate, splits) ==
  [games |-> 4, openingPairs |-> 2, wins |-> wins, losses |-> losses, draws |-> 4 - wins - losses,
   winRate |-> rate, sideSplits |-> splits, opponentFailures |-> 0]

Regression(budget, publishes, spends) ==
  [mode |-> "regression", nodeBudget |-> budget, publishes |-> publishes, spends |-> spends,
   reportsNodes |-> TRUE, minimumRate |-> <<1, 2>>, minimumPairs |-> 2, incumbent |-> <<>>]

MCPlans ==
  {Regression(0, Counts(2, 3), Counts(2, 3)),
   Regression(0, Counts(2, 0), Counts(2, 3)),
   Regression(2, Counts(2, 3), Counts(2, 3)),
   [Regression(2, Counts(2, 3), Counts(2, 3)) EXCEPT !.reportsNodes = FALSE,
      !.incumbent = <<Summary(3, 1, <<3, 4>>, Splits(2, 1))>>],
   [Regression(0, Counts(0, 0), Counts(2, 3)) EXCEPT !.mode = "strength", !.minimumRate = <<1, 4>>,
      !.incumbent = <<[Summary(3, 1, <<3, 4>>, Splits(2, 1)) EXCEPT !.games = 0]>>]}

\* Losses that were dropped from the totals, and pairs that were not completed.
MCReports == {[Summary(3, 1, <<3, 4>>, Splits(2, 1)) EXCEPT !.losses = 0],
              [Summary(3, 1, <<3, 4>>, Splits(2, 1)) EXCEPT !.openingPairs = 3]}

\* The fairness of the queue is kept in either part: an evaluation whose games all throw
\* is over before the sessions open.
PartsInit ==
  /\ Init /\ EvaluationInit /\ part \in {"queue", "sessions"}
  /\ part = "sessions" => fate = [j \in Jobs |-> "throws"] /\ plan = CHOOSE p \in Plans : Accepted(p)
PartsNext ==
  /\ UNCHANGED part
  /\ \/ part = "queue" /\ EvaluationNext /\ UNCHANGED vars
     \/ part = "sessions" /\ PlayGames /\ UNCHANGED vars
     \/ part = "sessions" /\ verdict.kind # "pending" /\ Next /\ UNCHANGED evaluationVars
PartsSpec ==
  PartsInit /\ [][PartsNext]_<<vars, evaluationVars, part>> /\ WF_evaluationVars(PlayGames) /\ Fairness
=============================================================================
