----------------------------- MODULE RulesCallers -----------------------------
(***************************************************************************)
(* Callers that ask the rules about a state and answer from what they      *)
(* hear: the placeholder evaluator of js/normal-duel-gumbel-search.mjs     *)
(* with its own breadth-first search, the generator of the openings that   *)
(* engines are measured from, and the bridge js/normal-duel-consumer.mjs   *)
(* that the older client asks for moves with a board and no state.  (The   *)
(* leaf counter is in PerftCounts.)                                        *)
(***************************************************************************)
EXTENDS FeatureInversion

(* ---- The placeholder evaluator ------------------------------------------ *)

BlockedEdges(ws) == [h |-> WallPlane("H", ws), v |-> WallPlane("V", ws)]

EdgeIsBlockedFrom(blocked, from, to) ==
  IF from[1] = to[1] THEN blocked.v[from] # 0 ELSE blocked.h[from] # 0

EdgeIsBlocked(blocked, from, to) ==
  LET low(i) == IF from[i] < to[i] THEN from[i] ELSE to[i]
  IN IF from[1] = to[1] THEN blocked.v[<<from[1], low(2)>>] # 0
                        ELSE blocked.h[<<low(1), from[2]>>] # 0

Infinite == CellCount

\* The steps from a pawn to its goal row, past walls and through the other pawn.
GoalDistance(blocked, from, goalRow) ==
  LET reached(cell, distance, n) ==
        \E near \in Adjacent[cell] : distance[near] = n - 1 /\ ~EdgeIsBlocked(blocked, near, cell)
      distance == FoldLeft(LAMBDA d, n :
                             Table([cell \in Cells |-> IF d[cell] = Infinite /\ reached(cell, d, n)
                                                       THEN n ELSE d[cell]]),
                           Table([cell \in Cells |-> IF cell = from THEN 0 ELSE Infinite]),
                           [n \in 1 .. CellCount - 1 |-> n])
      goals == {distance[cell] : cell \in {c \in Cells : c[1] = goalRow}}
  IN CHOOSE d \in goals : \A other \in goals : d <= other

\* d / (1 + |d|) for half the lead in steps, as <<numerator, denominator>>.
StubValue(s) ==
  LET blocked == BlockedEdges(s.walls)
      steps(p) == GoalDistance(blocked, s.pawns[p], GoalRow[p])
      lead == steps(Other(s.turn)) - steps(s.turn)
  IN IF s.outcome.kind = "win" THEN IF s.outcome.winner = s.turn THEN <<1, 1>> ELSE <<-1, 1>>
     ELSE IF s.outcome.kind # "ongoing" THEN <<0, 1>>
     ELSE IF Infinite \in {steps("A"), steps("B")} THEN <<0, 1>>
     ELSE <<lead, 2 + Abs(lead)>>

(* ---- The generator of balanced openings --------------------------------- *)

\* The two anchors whose walls would bar a step.
BarringAnchors(from, to) ==
  LET low(i) == IF from[i] < to[i] THEN from[i] ELSE to[i]
  IN IF from[2] = to[2] THEN {<<"H", low(1), from[2]>>, <<"H", low(1), from[2] - 1>>}
                        ELSE {<<"V", from[1], low(2)>>, <<"V", from[1] - 1, low(2)>>}

\* Breadth first: the cells within n steps, until one lies on the goal row.
ShortestWallOnlyDistance(start, goalRow, ws) ==
  LET wider(within) ==
        within \cup {cell \in Cells : \E near \in Adjacent[cell] \cap within :
                                       BarringAnchors(near, cell) \cap ws = {}}
      arrived(within) == \E cell \in within : cell[1] = goalRow
      search == FoldLeft(LAMBDA sofar, n :
                           IF arrived(sofar.within) \/ sofar.steps = Infinite THEN sofar
                           ELSE [within |-> wider(sofar.within), steps |-> n],
                         [within |-> {start}, steps |-> 0], [n \in 1 .. CellCount |-> n])
  IN search.steps

Balance(s) == Table([p \in Players |-> ShortestWallOnlyDistance(s.pawns[p], GoalRow[p], s.walls)])

\* What selectBalancedAction may come to over all that its generator may draw: a kind is
\* preferred and any place in the list may be the first looked at.  None is a throw.
SelectBalancedAction(s) ==
  {a \in LegalActions(s) :
     \E next \in {Applied(s, a)} : \E d \in {Balance(next)} :
       /\ next.outcome.kind = "ongoing"
       /\ Infinite \notin {d["A"], d["B"]}
       /\ d["A"] - d["B"] \in -1 .. 1}

(* ---- The bridge of the older client ------------------------------------- *)

\* A snapshot has no stock: either side is given the full allotment.
Snapshot(s) == [PositionOf(s) EXCEPT !.stock = [p \in Players |-> 10]]

NormalDuelTryWall(s, w) == IF IsLegalWall(Snapshot(s), w) THEN s.walls \cup {w} ELSE {}

\* The exits past a rival who is in the way: straight on, the two turns, and back.
Exits(mover, rival) ==
  LET dr == rival[1] - mover[1]
      dc == rival[2] - mover[2]
  IN <<<<rival[1] + dr, rival[2] + dc>>, <<rival[1] - dc, rival[2] + dr>>,
       <<rival[1] + dc, rival[2] - dr>>, <<rival[1] - dr, rival[2] - dc>>>>

\* The step of a path, or around the rival standing on it: a set, empty for null.
NormalDuelMoveTowardGoal(s, next) ==
  LET legal == PawnDestinations(Snapshot(s))
      rival == s.pawns[Other(s.turn)]
      exits == Exits(s.pawns[s.turn], rival)
      open == {i \in 1 .. 4 : exits[i] \in legal}
  IN IF next # rival THEN {next} \cap legal
     ELSE IF open = {} THEN {} ELSE {exits[CHOOSE i \in open : \A j \in open : i <= j]}

(* ---- Properties --------------------------------------------------------- *)

\* Four searches answer the same question: the evaluator's distance from a pawn is the
\* encoder's field at that pawn and the opening generator's balance, it is infinite exactly
\* when the engine finds no path, and a step of the field leads to a nearer cell; so the
\* value the self-play loop starts from and the plane the network reads never disagree
\* about who is ahead, and an opening of a strength evaluation, whose recorded delta the
\* harness believes (normal-duel-strength.mjs:345), is as even as it says and goes on.
DistancesAgree ==
  LET blocked == BlockedEdges(walls)
      field == Table([p \in Players |-> GoalDistanceField(walls, GoalRow[p])])
      steps == [p \in Players |-> field[p][pawns[p]]]
  IN /\ Balance(GameState) = steps
     /\ \A p \in Players :
          /\ GoalDistance(blocked, pawns[p], GoalRow[p]) = steps[p]
          /\ \A cell \in Cells :
               /\ (field[p][cell] = -1) <=> ~HasPath(cell, GoalRow[p], walls)
               /\ field[p][cell] > 0 =>
                    \E near \in OpenNeighbours(cell, walls) : field[p][near] = field[p][cell] - 1
     /\ outcome = Ongoing => StubValue(GameState)[1] = steps[Other(turn)] - steps[turn]
     /\ outcome = Ongoing =>
          \A a \in SelectBalancedAction(GameState) :
            LET next == Applied(GameState, a)
                lead == GoalDistanceField(next.walls, GoalRow["A"])[next.pawns["A"]]
                        - GoalDistanceField(next.walls, GoalRow["B"])[next.pawns["B"]]
            IN lead \in -1 .. 1 /\ LegalActions(next) # {}
=============================================================================
