--------------------------- MODULE NormalDuelRules ---------------------------
(***************************************************************************)
(* The normal-duel-v1 rules as js/normal-duel-engine.mjs implements them:  *)
(* two pawns race to opposite edges of a board, each turn either moves the *)
(* mover's pawn or spends one of its walls.  A state of the game is the    *)
(* record the engine hands to its callers; the two actions are its two     *)
(* entry points, applyAction (for untrusted actions) and applyLegalAction  *)
(* (for an action a caller has just taken from legalActions).              *)
(*                                                                         *)
(* The engine is pure: it keeps nothing between calls and revalidates the  *)
(* whole record each time, so what can go wrong is that a long sequence of *)
(* legal calls produces a record its own validateState then refuses, or    *)
(* one whose repetition window has forgotten something that mattered.      *)
(***************************************************************************)
EXTENDS Integers, FiniteSets, FiniteSetsExt

CONSTANTS
  Rows, Cols,          \* the code admits 9x9 and 7x7; the rules need neither
  StockA, StockB,      \* initialStock
  RepetitionThreshold, \* 3 in the code
  PlyCap,
  FirstPlayer

Players == {"A", "B"}

ASSUME ConfigAssumption ==
  /\ Rows \in Nat /\ Cols \in Nat
  /\ Rows >= 3 /\ Cols >= 2
  /\ StockA \in Nat /\ StockB \in Nat
  /\ RepetitionThreshold \in Nat /\ RepetitionThreshold >= 2
  /\ PlyCap \in Nat /\ PlyCap >= 1
  /\ FirstPlayer \in Players

VARIABLES
  pawns,           \* position.pawns: player -> <<row, column>>
  walls,           \* position.walls, as a set of <<orientation, row, column>>
  stock,           \* position.stock: player -> walls left
  turn,            \* position.turn
  ply,             \* completed player actions
  historyStartPly, \* the ply of the last wall, 0 when there is none
  counts,          \* repetitionCounts: position key -> occurrences
  outcome

vars == <<pawns, walls, stock, turn, ply, historyStartPly, counts, outcome>>

Other(p) == IF p = "A" THEN "B" ELSE "A"

Cells == (0 .. Rows-1) \X (0 .. Cols-1)
Walls == {"H", "V"} \X (0 .. Rows-2) \X (0 .. Cols-2)

Start == [p \in Players |-> IF p = "A" THEN <<Rows-1, Cols \div 2>>
                                       ELSE <<0, Cols \div 2>>]
GoalRow == [p \in Players |-> IF p = "A" THEN 0 ELSE Rows-1]
InitialStock == [p \in Players |-> IF p = "A" THEN StockA ELSE StockB]

Abs(n) == IF n < 0 THEN -n ELSE n
Distance(a, b) == Abs(a[1] - b[1]) + Abs(a[2] - b[2])

(* ---- Geometry ---------------------------------------------------------- *)

\* A wall spans two edges: a horizontal one blocks the crossing below row r at
\* columns c and c+1, a vertical one the crossing right of column c at rows r, r+1.
EdgeBlocked(from, to, ws) ==
  IF from[1] # to[1]
  THEN LET row == IF from[1] < to[1] THEN from[1] ELSE to[1]
       IN <<"H", row, from[2]>> \in ws \/ <<"H", row, from[2] - 1>> \in ws
  ELSE LET column == IF from[2] < to[2] THEN from[2] ELSE to[2]
       IN <<"V", from[1], column>> \in ws \/ <<"V", from[1] - 1, column>> \in ws

Adjacent == [cell \in Cells |->
  {<<cell[1]-1, cell[2]>>, <<cell[1], cell[2]-1>>,
   <<cell[1], cell[2]+1>>, <<cell[1]+1, cell[2]>>} \cap Cells]

OpenNeighbours(cell, ws) == {n \in Adjacent[cell] : ~EdgeBlocked(cell, n, ws)}

\* The breadth-first search, a round of its queue at a time: it ends at the first
\* cell of the goal row or when a round discovers nothing.
HasPath(from, goalRow, ws) ==
  LET reaches[seen \in SUBSET Cells] ==
        LET found == seen \cup UNION {OpenNeighbours(cell, ws) : cell \in seen}
        IN \/ \E cell \in seen : cell[1] = goalRow
           \/ found # seen /\ reaches[found]
  IN reaches[{from}]

BothHavePath(ps, ws) == \A p \in Players : HasPath(ps[p], GoalRow[p], ws)

\* The anchors a wall may not share an edge or a midpoint with.
Conflicts(w) ==
  {IF w[1] = "H" THEN <<"H", w[2], w[3]-1>> ELSE <<"V", w[2]-1, w[3]>>,
   IF w[1] = "H" THEN <<"H", w[2], w[3]+1>> ELSE <<"V", w[2]+1, w[3]>>,
   <<IF w[1] = "H" THEN "V" ELSE "H", w[2], w[3]>>}

(* ---- Legality ---------------------------------------------------------- *)

\* An adjacent pawn only blocks.
PawnDestinationsWithoutJump(pos) ==
  OpenNeighbours(pos.pawns[pos.turn], pos.walls) \ {pos.pawns[Other(pos.turn)]}

\* An adjacent pawn may be jumped by any open exit of its cell but the one back.
PawnDestinations(pos) ==
  LET mover    == pos.pawns[pos.turn]
      opponent == pos.pawns[Other(pos.turn)]
  IN UNION {IF step = opponent THEN OpenNeighbours(opponent, pos.walls) \ {mover}
                               ELSE {step} : step \in OpenNeighbours(mover, pos.walls)}

IsLegalWall(pos, w) ==
  /\ pos.stock[pos.turn] # 0
  /\ w \notin pos.walls
  /\ Conflicts(w) \cap pos.walls = {}
  /\ BothHavePath(pos.pawns, pos.walls \cup {w})

PawnActions == [kind : {"pawn"}, to : Cells]
WallActions == [kind : {"wall"}, wall : Walls]
Actions == PawnActions \cup WallActions

Square(cell) == cell[1] * Cols + cell[2]
AnchorIndex(w) == w[2] * (Cols - 1) + w[3]
Anchors == (Rows - 1) * (Cols - 1)
PolicySize == Rows * Cols + 2 * Anchors

ActionCodeOneBank(a) ==
  IF a.kind = "pawn" THEN Square(a.to) ELSE Rows * Cols + AnchorIndex(a.wall)

\* encodeAction: pawn targets first, then horizontal anchors, then vertical ones.
ActionCode(a) ==
  IF a.kind = "pawn" THEN Square(a.to)
  ELSE Rows * Cols + (IF a.wall[1] = "V" THEN Anchors ELSE 0) + AnchorIndex(a.wall)

DecodeAction(code) ==
  LET offset == code - Rows * Cols
      anchor == offset % Anchors
  IN IF code < Rows * Cols
     THEN [kind |-> "pawn", to |-> <<code \div Cols, code % Cols>>]
     ELSE [kind |-> "wall",
           wall |-> <<IF offset < Anchors THEN "H" ELSE "V",
                      anchor \div (Cols-1), anchor % (Cols-1)>>]

LegalPositionActionCodes(pos) ==
  {ActionCode([kind |-> "pawn", to |-> to]) : to \in PawnDestinations(pos)}
  \cup (IF pos.stock[pos.turn] > 0
        THEN {ActionCode([kind |-> "wall", wall |-> w]) :
                w \in {x \in Walls : IsLegalWall(pos, x)}}
        ELSE {})

IsTrustedActionLegal(pos, a) ==
  IF a.kind = "pawn" THEN a.to \in PawnDestinations(pos) ELSE IsLegalWall(pos, a.wall)

(* ---- Positions, their keys and the repetition window ------------------- *)

Position == [pawns |-> pawns, walls |-> walls, stock |-> stock, turn |-> turn]

InitialPosition ==
  [pawns |-> Start, walls |-> {}, stock |-> InitialStock, turn |-> FirstPlayer]

Banks(ws) == [o \in {"H", "V"} |-> {AnchorIndex(w) : w \in {x \in ws : x[1] = o}}]

\* positionKeyNormalized, less the configuration every key of a game repeats.
PositionKey(pos) ==
  [squareA |-> Square(pos.pawns["A"]), squareB |-> Square(pos.pawns["B"]),
   anchors |-> Banks(pos.walls), stock |-> pos.stock, turn |-> pos.turn]

CellOf(square) == <<square \div Cols, square % Cols>>

PositionFromKey(key) ==
  [pawns |-> [p \in Players |-> CellOf(IF p = "A" THEN key.squareA ELSE key.squareB)],
   walls |-> {w \in Walls : AnchorIndex(w) \in key.anchors[w[1]]},
   stock |-> key.stock, turn |-> key.turn]

NoCounts == [key \in {} |-> 0]
CountIn(table, key) == IF key \in DOMAIN table THEN table[key] ELSE 0
CountOnce(table, key) ==
  [k \in DOMAIN table \cup {key} |-> IF k = key THEN CountIn(table, key) + 1 ELSE table[k]]

\* What normalizePosition throws on.
Normal(pos) ==
  /\ pos.pawns \in [Players -> Cells] /\ pos.pawns["A"] # pos.pawns["B"]
  /\ pos.turn \in Players
  /\ \A p \in Players : pos.stock[p] \in 0 .. InitialStock[p]
  /\ pos.walls \subseteq Walls
  /\ \A w \in pos.walls : Conflicts(w) \cap pos.walls = {}
  /\ BothHavePath(pos.pawns, pos.walls)

\* The position it returns, none when it throws.
NormalizePosition(pos) == {p \in {pos} : Normal(p)}

(* ---- Adjudication and the two entry points ------------------------------ *)

Ongoing == [kind |-> "ongoing", winner |-> "none", reason |-> "none"]
Win(p) == [kind |-> "win", winner |-> p, reason |-> "goal"]
Draw(why) == [kind |-> "draw", winner |-> "none", reason |-> why]
Outcomes == {Ongoing} \cup {Win(p) : p \in Players}
            \cup {Draw(why) : why \in {"threefold_repetition", "ply_cap"}}

AdjudicateLate(goalWinner, count, resultingPly) ==
  IF goalWinner \in Players THEN Win(goalWinner)
  ELSE IF count > RepetitionThreshold THEN Draw("threefold_repetition")
  ELSE IF resultingPly >= PlyCap THEN Draw("ply_cap")
  ELSE Ongoing

Adjudicate(goalWinner, count, resultingPly) ==
  IF goalWinner \in Players THEN Win(goalWinner)
  ELSE IF count >= RepetitionThreshold THEN Draw("threefold_repetition")
  ELSE IF resultingPly >= PlyCap THEN Draw("ply_cap")
  ELSE Ongoing

Init ==
  /\ pawns = Start
  /\ walls = {}
  /\ stock = InitialStock
  /\ turn = FirstPlayer
  /\ ply = 0
  /\ historyStartPly = 0
  /\ counts = CountOnce(NoCounts, PositionKey(InitialPosition))
  /\ outcome = Ongoing

After(a) ==
  [pawns |-> IF a.kind = "pawn" THEN [pawns EXCEPT ![turn] = a.to] ELSE pawns,
   walls |-> IF a.kind = "wall" THEN walls \cup {a.wall} ELSE walls,
   stock |-> IF a.kind = "wall" THEN [stock EXCEPT ![turn] = @ - 1] ELSE stock,
   turn  |-> Other(turn)]

\* The window restarts at every ply.
WindowAlwaysRestarts(a) == NoCounts

\* A wall can never be taken back, so no position before it can recur: the
\* window restarts there.
WindowAfter(a) == IF a.kind = "wall" THEN NoCounts ELSE counts

ApplyTrustedAction(a) ==
  \E next \in NormalizePosition(After(a)) :
    LET key   == PositionKey(next)
        tally == CountOnce(WindowAfter(a), key)
    IN
     /\ pawns' = next.pawns
     /\ walls' = next.walls
     /\ stock' = next.stock
     /\ turn' = next.turn
     /\ ply' = ply + 1
     /\ historyStartPly' = IF a.kind = "wall" THEN ply + 1 ELSE historyStartPly
     /\ counts' = tally
     /\ outcome' = Adjudicate(IF next.pawns[turn][1] = GoalRow[turn] THEN turn ELSE "none",
                              tally[key], ply + 1)

\* applyAction: membership in the enumerated policy codes.
ApplyAction ==
  /\ outcome.kind = "ongoing"
  /\ LET legal == LegalPositionActionCodes(Position)
     IN \E a \in {x \in Actions : ActionCode(x) \in legal} : ApplyTrustedAction(a)

\* applyLegalAction: the direct predicate on one candidate.
ApplyLegalAction ==
  /\ outcome.kind = "ongoing"
  /\ \E a \in {x \in Actions : IsTrustedActionLegal(Position, x)} : ApplyTrustedAction(a)

Next == ApplyAction \/ ApplyLegalAction

Spec == Init /\ [][Next]_vars

\* A match plays on for as long as the game is not over.
FairSpec == Spec /\ WF_vars(Next)

(* ---- validateState ------------------------------------------------------ *)

ExpectedTurn(n) == IF n % 2 = 0 THEN FirstPlayer ELSE Other(FirstPlayer)

CompletedActions(n) ==
  [p \in Players |-> IF p = FirstPlayer THEN (n + 1) \div 2 ELSE n \div 2]

Spent(p) == InitialStock[p] - stock[p]

StockIsOnTheBoard == Spent("A") + Spent("B") = Cardinality(walls)

\* The walls on the board are paid for by actions completed when the repetition window
\* started, and it started with the last of them: no position from before a wall is in it.
WindowStartsAtLastWall ==
  /\ Cardinality(walls) <= ply
  /\ Cardinality(walls) <= historyStartPly
  /\ historyStartPly <= ply
  /\ \A p \in Players : Spent(p) <= CompletedActions(historyStartPly)[p]
  /\ (walls = {}) <=> (historyStartPly = 0)
  /\ historyStartPly > 0 => Spent(ExpectedTurn(historyStartPly - 1)) > 0

FirstPlyIsLegal ==
  ply = 1 =>
    LET other == Other(FirstPlayer)
    IN \/ /\ walls = {}
          /\ pawns[other] = Start[other]
          /\ pawns[FirstPlayer] \in PawnDestinations(InitialPosition)
       \/ /\ Cardinality(walls) = 1
          /\ pawns = Start
          /\ stock[FirstPlayer] = InitialStock[FirstPlayer] - 1
          /\ stock[other] = InitialStock[other]
          /\ \A w \in walls : IsLegalWall(InitialPosition, w)

PawnsWithinReach ==
  \A p \in Players : Distance(Start[p], pawns[p]) <= 2 * CompletedActions(ply)[p]

HistoryLength == ply - historyStartPly + 1

\* Every occurrence in the window of a position with p to move.
Occurring(p) == UNION {{k} \X (1 .. counts[k]) : k \in {x \in DOMAIN counts : x.turn = p}}
TurnCount(p) == Cardinality(Occurring(p))

WindowIsConsistent ==
  LET key == PositionKey(Position)
      first == ExpectedTurn(historyStartPly)
      moves == [p \in Players |-> CompletedActions(ply)[p] - CompletedActions(historyStartPly)[p]]
  IN /\ key \in DOMAIN counts
     /\ \A k \in DOMAIN counts :
          LET historical == PositionFromKey(k)
          IN /\ Normal(historical) /\ PositionKey(historical) = k
             /\ historical.walls = walls /\ historical.stock = stock
             /\ counts[k] >= 1
             /\ counts[k] <= 1 + (HistoryLength - 1) \div 4
             /\ \A p \in Players : Distance(historical.pawns[p], pawns[p]) <= 2 * moves[p]
     /\ historyStartPly = 0 => PositionKey(InitialPosition) \in DOMAIN counts
     /\ TurnCount(first) = (HistoryLength + 1) \div 2
     /\ TurnCount(Other(first)) = HistoryLength \div 2

AtGoal(ps, p) == ps[p][1] = GoalRow[p]

OutcomeIsEarned ==
  LET key == PositionKey(Position)
      winner == {p \in Players : AtGoal(pawns, p)}
  IN /\ Cardinality(winner) <= 1 /\ turn \notin winner
     /\ \A k \in DOMAIN counts :
          (\E p \in Players : AtGoal(PositionFromKey(k).pawns, p)) => k = key /\ counts[k] = 1
     /\ outcome = IF ply = 0 THEN Ongoing
                  ELSE Adjudicate(IF winner = {} THEN "none" ELSE CHOOSE p \in winner : TRUE,
                                  counts[key], ply)
     /\ ply = 0 => key = PositionKey(InitialPosition)
     /\ ply <= PlyCap
     /\ counts[key] <= RepetitionThreshold
     /\ \A k \in DOMAIN counts \ {key} : counts[k] < RepetitionThreshold

\* What validateState accepts: every state the engine produces must still pass it on
\* the next call, which is made on nothing but the returned record.
ValidState ==
  /\ Normal(Position)
  /\ turn = ExpectedTurn(ply)
  /\ StockIsOnTheBoard
  /\ WindowStartsAtLastWall
  /\ FirstPlyIsLegal
  /\ PawnsWithinReach
  /\ WindowIsConsistent
  /\ OutcomeIsEarned

(* ---- Properties --------------------------------------------------------- *)

\* Types of the state record; a count is kept per position key seen in the window.
TypeOK ==
  /\ pawns \in [Players -> Cells]
  /\ walls \subseteq Walls
  /\ stock \in [Players -> Nat]
  /\ turn \in Players
  /\ ply \in Nat /\ historyStartPly \in Nat
  /\ counts \in [DOMAIN counts -> Nat]
  /\ outcome \in Outcomes

\* applyAction, which asks the enumerated policy codes, and applyLegalAction, which
\* asks the one-candidate predicate, accept exactly the same actions.
EntryPointsAgree ==
  LET legal == LegalPositionActionCodes(Position)
  IN \A a \in Actions : ActionCode(a) \in legal <=> IsTrustedActionLegal(Position, a)

\* The record says the game is over exactly when it is: nobody to move stands on their
\* goal, a win belongs to the player who has just moved there, and a position seen the
\* threshold number of times, or the cap, can only be the last.
ResultIsDecided ==
  LET key == PositionKey(Position)
  IN /\ ~AtGoal(pawns, turn)
     /\ outcome.kind = "win" <=> AtGoal(pawns, Other(turn))
     /\ outcome.kind = "win" => outcome.winner = Other(turn)
     /\ ply <= PlyCap
     /\ outcome = Ongoing => ply < PlyCap
     /\ key \in DOMAIN counts
     /\ \A k \in DOMAIN counts :
          /\ counts[k] <= RepetitionThreshold
          /\ counts[k] = RepetitionThreshold => k = key /\ outcome # Ongoing

\* What makes the record keep validating, as an inductive invariant: everything
\* validateState asks but the paths and the sums over the repetition window.
Inductive ==
  /\ TypeOK
  /\ IsFiniteSet(walls)
  /\ pawns["A"] # pawns["B"]
  /\ \A w \in walls : Conflicts(w) \cap walls = {}
  /\ turn = ExpectedTurn(ply)
  /\ \A p \in Players : stock[p] <= InitialStock[p]
  /\ StockIsOnTheBoard
  /\ WindowStartsAtLastWall
  /\ PawnsWithinReach
  /\ ResultIsDecided

\* A game played on to its end does end: the ply cap bounds it, and until then the
\* mover always has an action.
EveryGameEnds == <>(outcome # Ongoing)
=============================================================================
