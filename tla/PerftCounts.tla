----------------------------- MODULE PerftCounts -----------------------------
(***************************************************************************)
(* The leaf counter of js/normal-duel-perft.mjs with its budget, recursive *)
(* as the code is.                                                         *)
(***************************************************************************)
EXTENDS RulesCallers, TLC

\* A count under way: the leaves so far and the state visits charged, or the refusal.
Charge(count, budget) ==
  IF ~count.ok \/ count.visits >= budget THEN [count EXCEPT !.ok = FALSE]
  ELSE [count EXCEPT !.visits = @ + 1]

Adding(count, leaves) == [count EXCEPT !.leaves = @ + leaves]

\* A game that is over is a leaf at every depth.
RECURSIVE CountWithEarlyLeaves(_, _, _, _)
CountWithEarlyLeaves(s, remaining, count, budget) ==
  LET charged == Charge(count, budget)
  IN IF ~charged.ok THEN charged
     ELSE IF remaining = 0 \/ s.outcome.kind # "ongoing" THEN Adding(charged, 1)
     ELSE FoldSet(LAMBDA a, sofar : CountWithEarlyLeaves(Applied(s, a), remaining - 1, sofar, budget),
                  charged, LegalActions(s))

RECURSIVE CountExact(_, _, _, _)
CountExact(s, remaining, count, budget) ==
  LET charged == Charge(count, budget)
  IN IF ~charged.ok THEN charged
     ELSE IF remaining = 0 THEN Adding(charged, 1)
     ELSE IF s.outcome.kind # "ongoing" THEN charged
     ELSE IF remaining = 1 THEN Adding(charged, Cardinality(LegalActions(s)))
     ELSE FoldSet(LAMBDA a, sofar : CountExact(Applied(s, a), remaining - 1, sofar, budget),
                  charged, LegalActions(s))

Zero == [ok |-> TRUE, leaves |-> 0, visits |-> 0]

Perft(s, depth, budget) == CountExact(s, depth, Zero, budget)

\* One counter for the whole report; a child's leaf at depth zero is never visited.
PerftReport(s, depth, budget) ==
  LET start == Charge(Zero, budget)
      flat == [d \in 0 .. depth |-> IF d = 0 THEN 1 ELSE 0]
      child(a, d, sofar) ==
        LET n == CountExact(Applied(s, a), d, [sofar EXCEPT !.leaves = 0], budget)
        IN [n EXCEPT !.leaves = 0] @@ [at |-> d, found |-> n.leaves]
      entry(a, sofar) ==
        FoldLeft(LAMBDA acc, d :
                   LET n == child(a, d, acc.count)
                   IN [count |-> [ok |-> n.ok, leaves |-> 0, visits |-> n.visits],
                       by |-> [acc.by EXCEPT ![d + 1] = @ + n.found]],
                 [sofar EXCEPT !.by[1] = @ + 1], [d \in 1 .. depth - 1 |-> d])
      total == FoldSet(entry, [count |-> start, by |-> flat], LegalActions(s))
  IN IF depth = 0 \/ s.outcome.kind # "ongoing"
     THEN [ok |-> start.ok, visits |-> start.visits, leavesByDepth |-> flat]
     ELSE [ok |-> total.count.ok, visits |-> total.count.visits, leavesByDepth |-> Table(total.by)]

(* ---- Properties --------------------------------------------------------- *)

\* Every walk of the game tree from a state, by the number of its steps.
RECURSIVE Walks(_, _)
Walks(s, n) ==
  IF n = 0 THEN {<<>>}
  ELSE UNION {{<<a>> \o rest : rest \in Walks(Applied(s, a), n - 1)} : a \in LegalActions(s)}

\* A perft count is the number of games that play exactly that many actions on: one that
\* ends early counts nowhere below its end.  The report's totals are the single counts,
\* and a budget too small for the visits refuses instead of returning a smaller number.
\* (Asked near the start, where the tree is widest, and near the cap, where games end.)
PerftCountsWalks ==
  ply \in {1, PlyCap - 2} =>
    \A depth \in {2} : \A report \in {PerftReport(GameState, depth, 5000)} :
      /\ report.ok
      /\ \A d \in 0 .. depth : \A count \in {Cardinality(Walks(GameState, d))} :
           Perft(GameState, d, 5000).leaves = count /\ report.leavesByDepth[d] = count
      /\ \A budget \in {report.visits, report.visits - 1} :
           \A again \in {PerftReport(GameState, depth, budget)} :
             IF budget = report.visits THEN again = report ELSE ~again.ok
=============================================================================
