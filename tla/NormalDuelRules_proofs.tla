------------------------ MODULE NormalDuelRules_proofs ------------------------
(***************************************************************************)
(* Proofs about the normal-duel-v1 rules, for every board, stock, cap,     *)
(* threshold and first player that ConfigAssumption allows.                *)
(***************************************************************************)
EXTENDS MCNormalDuel, RulesCallers, FiniteSetTheorems, WellFoundedInduction, TLAPS

(* ---- Arithmetic of the policy codes ------------------------------------ *)

\* Two numbers written with the same base and different leading digits differ: what
\* keeps squares and wall anchors of different rows apart.
LEMMA LeadingDigit ==
  ASSUME NEW base \in Nat, NEW r \in Nat, NEW s \in Nat, NEW c \in Nat, NEW d \in Nat,
         r < s, c < base
  PROVE  r * base + c < s * base + d
<1> DEFINE gap == s - r - 1
<1>1. gap \in Nat /\ s = r + 1 + gap
  OBVIOUS
<1>2. s * base = r * base + base + gap * base
  BY <1>1, Z3
<1>3. gap * base \in Nat /\ r * base \in Nat /\ s * base \in Nat
  BY <1>1
<1> HIDE DEF gap
<1>4. QED
  BY <1>2, <1>3

\* A row-major index determines its row and column.
LEMMA RowMajor ==
  ASSUME NEW base \in Nat, NEW r \in Nat, NEW s \in Nat, NEW c \in Nat, NEW d \in Nat,
         c < base, d < base, r * base + c = s * base + d
  PROVE  r = s /\ c = d
<1>1. ~(r < s) /\ ~(s < r)
  BY LeadingDigit
<1>2. r = s
  BY <1>1
<1>3. r * base \in Nat
  OBVIOUS
<1>4. QED
  BY <1>2, <1>3

\* A row-major index stays below the size of its table.
LEMMA RowMajorBound ==
  ASSUME NEW base \in Nat, NEW rows \in Nat, NEW r \in Nat, NEW c \in Nat,
         r < rows, c < base
  PROVE  r * base + c \in Nat /\ r * base + c < rows * base
<1>1. r * base + c < rows * base + 0
  BY LeadingDigit
<1>2. r * base \in Nat /\ rows * base \in Nat
  OBVIOUS
<1>3. QED
  BY <1>1, <1>2

(* ---- Geometry ----------------------------------------------------------- *)

\* Every cell is a pair of board coordinates.
LEMMA CellShape ==
  ASSUME NEW cell \in Cells
  PROVE  /\ cell = <<cell[1], cell[2]>>
         /\ cell[1] \in Nat /\ cell[1] < Rows
         /\ cell[2] \in Nat /\ cell[2] < Cols
  BY ConfigAssumption DEF Cells

\* Every wall is an orientation and an anchor inside the board.
LEMMA WallShape ==
  ASSUME NEW w \in Walls
  PROVE  /\ w = <<w[1], w[2], w[3]>>
         /\ w[1] \in {"H", "V"}
         /\ w[2] \in Nat /\ w[2] < Rows - 1
         /\ w[3] \in Nat /\ w[3] < Cols - 1
  BY ConfigAssumption DEF Walls

\* An orthogonal step stays on the board and changes the Manhattan distance to any
\* cell by at most one.
LEMMA StepDistance ==
  ASSUME NEW x \in Cells, NEW cell \in Cells, NEW n \in Adjacent[cell]
  PROVE  n \in Cells /\ Distance(x, n) <= Distance(x, cell) + 1
<1>1. n \in {<<cell[1]-1, cell[2]>>, <<cell[1], cell[2]-1>>,
             <<cell[1], cell[2]+1>>, <<cell[1]+1, cell[2]>>} /\ n \in Cells
  BY DEF Adjacent
<1>2. /\ x[1] \in Int /\ x[2] \in Int /\ cell[1] \in Int /\ cell[2] \in Int
  BY CellShape
<1>3. \/ n[1] = cell[1] - 1 /\ n[2] = cell[2]
      \/ n[1] = cell[1] /\ n[2] = cell[2] - 1
      \/ n[1] = cell[1] /\ n[2] = cell[2] + 1
      \/ n[1] = cell[1] + 1 /\ n[2] = cell[2]
  BY <1>1
<1>4. QED
  BY <1>1, <1>2, <1>3 DEF Distance, Abs

\* A pawn action, jumps included, lands on the board, not on the opponent, and at
\* most two steps from where the pawn stood.
LEMMA DestinationDistance ==
  ASSUME NEW pos, pos.pawns \in [Players -> Cells], pos.turn \in Players,
         NEW to \in PawnDestinations(pos), NEW x \in Cells
  PROVE  to \in Cells /\ Distance(x, to) <= Distance(x, pos.pawns[pos.turn]) + 2
<1> DEFINE mover == pos.pawns[pos.turn]
           opponent == pos.pawns[Other(pos.turn)]
<1>1. mover \in Cells /\ opponent \in Cells
  BY DEF Players, Other
<1>2. PICK step \in OpenNeighbours(mover, pos.walls) :
        to \in IF step = opponent THEN OpenNeighbours(opponent, pos.walls) \ {mover} ELSE {step}
  BY DEF PawnDestinations
<1>3. step \in Adjacent[mover]
  BY DEF OpenNeighbours
<1>4. step \in Cells /\ Distance(x, step) <= Distance(x, mover) + 1
  BY <1>1, <1>3, StepDistance
<1>5. Distance(x, step) \in Int /\ Distance(x, mover) \in Int
  BY <1>1, <1>4, CellShape DEF Distance, Abs
<1>6. CASE to = step
  BY <1>4, <1>5, <1>6
<1>7. CASE step = opponent /\ to \in Adjacent[opponent]
  <2>1. to \in Cells /\ Distance(x, to) <= Distance(x, opponent) + 1
    BY <1>1, <1>7, StepDistance
  <2>2. Distance(x, to) \in Int
    BY <2>1, CellShape DEF Distance, Abs
  <2>3. QED
    BY <1>4, <1>5, <1>7, <2>1, <2>2
<1>8. to = step \/ (step = opponent /\ to \in Adjacent[opponent])
  BY <1>2 DEF OpenNeighbours
<1>9. QED
  BY <1>6, <1>7, <1>8

(* ---- Policy codes -------------------------------------------------------- *)

\* Squares are numbered below the size of the board.
LEMMA SquareRange ==
  ASSUME NEW cell \in Cells
  PROVE  Square(cell) \in Nat /\ Square(cell) < Rows * Cols
<1>1. cell[1] \in Nat /\ cell[1] < Rows /\ cell[2] \in Nat /\ cell[2] < Cols
  BY CellShape
<1>2. QED
  BY <1>1, RowMajorBound, ConfigAssumption DEF Square

\* Wall anchors are numbered below the size of one bank of walls.
LEMMA AnchorRange ==
  ASSUME NEW w \in Walls
  PROVE  AnchorIndex(w) \in Nat /\ AnchorIndex(w) < Anchors
<1>1. w[2] \in Nat /\ w[2] < Rows - 1 /\ w[3] \in Nat /\ w[3] < Cols - 1
  BY WallShape
<1>2. Rows - 1 \in Nat /\ Cols - 1 \in Nat
  BY ConfigAssumption
<1>3. QED
  BY <1>1, <1>2, RowMajorBound DEF AnchorIndex, Anchors

\* No two cells share a number.
LEMMA SquareInjective ==
  ASSUME NEW a \in Cells, NEW b \in Cells, Square(a) = Square(b)
  PROVE  a = b
<1>1. a[1] = b[1] /\ a[2] = b[2]
  BY CellShape, RowMajor, ConfigAssumption DEF Square
<1>2. QED
  BY <1>1, CellShape

\* No two anchors share a number.
LEMMA AnchorInjective ==
  ASSUME NEW v \in Walls, NEW w \in Walls, v[1] = w[1], AnchorIndex(v) = AnchorIndex(w)
  PROVE  v = w
<1>1. Cols - 1 \in Nat
  BY ConfigAssumption
<1>2. v[2] = w[2] /\ v[3] = w[3]
  BY <1>1, WallShape, RowMajor DEF AnchorIndex
<1>3. QED
  BY <1>2, WallShape

\* No two actions share a policy code.
LEMMA CodeInjective ==
  ASSUME NEW a \in Actions, NEW b \in Actions, ActionCode(a) = ActionCode(b)
  PROVE  a = b
<1> DEFINE cells == Rows * Cols
<1>0. cells \in Nat /\ Anchors \in Nat
  BY ConfigAssumption DEF Anchors
<1>1. ASSUME NEW x \in PawnActions
      PROVE  ActionCode(x) = Square(x.to) /\ Square(x.to) \in Nat /\ Square(x.to) < cells
  BY SquareRange DEF PawnActions, ActionCode
<1>2. ASSUME NEW x \in WallActions
      PROVE  /\ ActionCode(x) = cells + (IF x.wall[1] = "V" THEN Anchors ELSE 0) + AnchorIndex(x.wall)
             /\ AnchorIndex(x.wall) \in Nat /\ AnchorIndex(x.wall) < Anchors
             /\ x.wall[1] \in {"H", "V"}
  BY AnchorRange, WallShape DEF WallActions, ActionCode
<1> HIDE DEF cells
<1>3. CASE a \in PawnActions /\ b \in PawnActions
  <2>1. Square(a.to) = Square(b.to)
    BY <1>1, <1>3
  <2>2. a.to = b.to
    BY <1>3, <2>1, SquareInjective DEF PawnActions
  <2>3. QED
    BY <1>3, <2>2 DEF PawnActions
<1>4. CASE a \in WallActions /\ b \in WallActions
  <2>1. a.wall[1] = b.wall[1] /\ AnchorIndex(a.wall) = AnchorIndex(b.wall)
    BY <1>0, <1>2, <1>4
  <2>2. a.wall = b.wall
    BY <1>4, <2>1, AnchorInjective DEF WallActions
  <2>3. QED
    BY <1>4, <2>2 DEF WallActions
<1>5. ASSUME NEW x \in PawnActions, NEW y \in WallActions
      PROVE  ActionCode(x) # ActionCode(y)
  <2>1. ActionCode(x) \in Nat /\ ActionCode(x) < cells
    BY <1>1
  <2>2. ActionCode(y) >= cells
    BY <1>0, <1>2
  <2>3. QED
    BY <1>0, <2>1, <2>2
<1>6. QED
  BY <1>3, <1>4, <1>5 DEF Actions

\* For a position with well-typed pawns and stock, a code is among the enumerated
\* legal codes exactly when its action passes the one-candidate predicate.
LEMMA LegalCodes ==
  ASSUME NEW pos, pos.pawns \in [Players -> Cells], pos.turn \in Players,
         pos.stock \in [Players -> Nat], NEW a \in Actions
  PROVE  ActionCode(a) \in LegalPositionActionCodes(pos) <=> IsTrustedActionLegal(pos, a)
<1> DEFINE Pawn(to) == [kind |-> "pawn", to |-> to]
           Wall(w) == [kind |-> "wall", wall |-> w]
<1>1. \A to \in PawnDestinations(pos) : Pawn(to) \in PawnActions
  <2>1. pos.pawns[pos.turn] \in Cells
    OBVIOUS
  <2>2. \A to \in PawnDestinations(pos) : to \in Cells
    BY <2>1, DestinationDistance
  <2>3. QED
    BY <2>2 DEF PawnActions
<1>2. \A w \in Walls : Wall(w) \in WallActions
  BY DEF WallActions
<1>3. pos.stock[pos.turn] \in Nat
  OBVIOUS
<1>4. CASE a \in PawnActions
  <2>1. a = Pawn(a.to) /\ a.kind = "pawn"
    BY <1>4 DEF PawnActions
  <2>2. \A w \in Walls : Wall(w) # a
    BY <2>1
  <2>3. ASSUME ActionCode(a) \in LegalPositionActionCodes(pos)
        PROVE  a.to \in PawnDestinations(pos)
    <3>1. CASE \E to \in PawnDestinations(pos) : ActionCode(a) = ActionCode(Pawn(to))
      <4>1. PICK to \in PawnDestinations(pos) : ActionCode(a) = ActionCode(Pawn(to))
        BY <3>1
      <4>2. a = Pawn(to)
        BY <1>1, <4>1, CodeInjective DEF Actions
      <4>3. QED
        BY <4>2
    <3>2. CASE \E w \in Walls : ActionCode(a) = ActionCode(Wall(w))
      BY <1>2, <2>2, <3>2, CodeInjective DEF Actions
    <3>3. QED
      BY <2>3, <3>1, <3>2 DEF LegalPositionActionCodes
  <2>4. ASSUME a.to \in PawnDestinations(pos)
        PROVE  ActionCode(a) \in LegalPositionActionCodes(pos)
    BY <2>1, <2>4 DEF LegalPositionActionCodes
  <2>5. QED
    BY <2>1, <2>3, <2>4 DEF IsTrustedActionLegal
<1>5. CASE a \in WallActions
  <2>1. a = Wall(a.wall) /\ a.kind = "wall" /\ a.wall \in Walls
    BY <1>5 DEF WallActions
  <2>2. \A to \in PawnDestinations(pos) : Pawn(to) # a
    BY <2>1
  <2>3. ASSUME ActionCode(a) \in LegalPositionActionCodes(pos)
        PROVE  IsLegalWall(pos, a.wall)
    <3>1. CASE \E to \in PawnDestinations(pos) : ActionCode(a) = ActionCode(Pawn(to))
      BY <1>1, <2>2, <3>1, CodeInjective DEF Actions
    <3>2. CASE \E w \in Walls : IsLegalWall(pos, w) /\ ActionCode(a) = ActionCode(Wall(w))
      <4>1. PICK w \in Walls : IsLegalWall(pos, w) /\ ActionCode(a) = ActionCode(Wall(w))
        BY <3>2
      <4>2. a = Wall(w)
        BY <1>2, <4>1, CodeInjective DEF Actions
      <4>3. QED
        BY <4>1, <4>2
    <3>3. QED
      BY <2>3, <3>1, <3>2 DEF LegalPositionActionCodes
  <2>4. ASSUME IsLegalWall(pos, a.wall)
        PROVE  ActionCode(a) \in LegalPositionActionCodes(pos)
    <3>1. pos.stock[pos.turn] > 0
      BY <1>3, <2>4 DEF IsLegalWall
    <3>2. QED
      BY <2>1, <2>4, <3>1 DEF LegalPositionActionCodes
  <2>5. QED
    BY <2>1, <2>3, <2>4 DEF IsTrustedActionLegal
<1>6. QED
  BY <1>4, <1>5 DEF Actions

(* ---- The steps ------------------------------------------------------------ *)

\* A typed record has a typed position.
LEMMA PositionTyped ==
  ASSUME TypeOK
  PROVE  /\ Position.pawns = pawns /\ Position.walls = walls
         /\ Position.stock = stock /\ Position.turn = turn
         /\ Position.pawns \in [Players -> Cells] /\ Position.turn \in Players
         /\ Position.stock \in [Players -> Nat]
  BY DEF TypeOK, Position

\* Through either entry point, a step applies an action the one-candidate predicate
\* accepts, and only to an ongoing game.
LEMMA StepIsLegal ==
  ASSUME TypeOK, Next
  PROVE  /\ outcome = Ongoing
         /\ \E a \in Actions : IsTrustedActionLegal(Position, a) /\ ApplyTrustedAction(a)
<1>1. outcome.kind = "ongoing"
  BY DEF Next, ApplyAction, ApplyLegalAction
<1>2. outcome = Ongoing
  BY <1>1 DEF TypeOK, Outcomes, Ongoing, Win, Draw
<1>3. CASE ApplyAction
  <2>1. PICK a \in Actions : /\ ActionCode(a) \in LegalPositionActionCodes(Position)
                             /\ ApplyTrustedAction(a)
    BY <1>3 DEF ApplyAction
  <2>2. IsTrustedActionLegal(Position, a)
    BY <2>1, PositionTyped, LegalCodes
  <2>3. QED
    BY <1>2, <2>1, <2>2
<1>4. CASE ApplyLegalAction
  BY <1>2, <1>4 DEF ApplyLegalAction
<1>5. QED
  BY <1>3, <1>4 DEF Next

\* What applyTrustedAction leaves: the normalised position, one more ply, the window
\* with the new position counted once, and the adjudicated outcome.
LEMMA ActionEffect ==
  ASSUME NEW a \in Actions, ApplyTrustedAction(a)
  PROVE  LET next == After(a)
             key == PositionKey(next)
         IN /\ Normal(next) /\ Position' = next
            /\ pawns' = next.pawns /\ walls' = next.walls
            /\ stock' = next.stock /\ turn' = next.turn
            /\ ply' = ply + 1
            /\ historyStartPly' = IF a.kind = "wall" THEN ply + 1 ELSE historyStartPly
            /\ counts' = CountOnce(WindowAfter(a), key)
            /\ outcome' = Adjudicate(IF next.pawns[turn][1] = GoalRow[turn] THEN turn ELSE "none",
                                     counts'[key], ply + 1)
<1>1. PICK next \in NormalizePosition(After(a)) :
        LET key   == PositionKey(next)
            tally == CountOnce(WindowAfter(a), key)
        IN /\ pawns' = next.pawns /\ walls' = next.walls
           /\ stock' = next.stock /\ turn' = next.turn
           /\ ply' = ply + 1
           /\ historyStartPly' = IF a.kind = "wall" THEN ply + 1 ELSE historyStartPly
           /\ counts' = tally
           /\ outcome' = Adjudicate(IF next.pawns[turn][1] = GoalRow[turn] THEN turn ELSE "none",
                                    tally[key], ply + 1)
  BY DEF ApplyTrustedAction
<1>2. next = After(a) /\ Normal(next)
  BY DEF NormalizePosition
<1>3. Position' = [pawns |-> pawns', walls |-> walls', stock |-> stock', turn |-> turn']
  BY DEF Position
<1>4. After(a) = [pawns |-> After(a).pawns, walls |-> After(a).walls,
                  stock |-> After(a).stock, turn |-> After(a).turn]
  BY DEF After
<1>5. Position' = After(a)
  BY <1>1, <1>2, <1>3, <1>4
<1>6. QED
  BY <1>1, <1>2, <1>5

\* Turns alternate with the plies, and each ply completes one action of its mover.
LEMMA TurnArithmetic ==
  ASSUME NEW n \in Nat
  PROVE  LET mover == ExpectedTurn(n)
         IN /\ mover \in Players /\ ExpectedTurn(n + 1) = Other(mover)
            /\ CompletedActions(n + 1)[mover] = CompletedActions(n)[mover] + 1
            /\ CompletedActions(n + 1)[Other(mover)] = CompletedActions(n)[Other(mover)]
            /\ \A p \in Players : CompletedActions(n)[p] \in Nat
<1>1. FirstPlayer \in Players /\ Other(FirstPlayer) \in Players
      /\ Other(Other(FirstPlayer)) = FirstPlayer /\ Other(FirstPlayer) # FirstPlayer
  BY ConfigAssumption DEF Players, Other
<1>2. CASE n % 2 = 0
  <2>1. (n + 1) % 2 = 1 /\ (n + 1 + 1) \div 2 = (n + 1) \div 2 + 1 /\ (n + 1) \div 2 = n \div 2
    BY <1>2
  <2>2. (n + 1) \div 2 \in Nat /\ n \div 2 \in Nat
    OBVIOUS
  <2>3. QED
    BY <1>1, <1>2, <2>1, <2>2 DEF ExpectedTurn, CompletedActions
<1>3. CASE n % 2 = 1
  <2>1. (n + 1) % 2 = 0 /\ (n + 1 + 1) \div 2 = (n + 1) \div 2 /\ (n + 1) \div 2 = n \div 2 + 1
    BY <1>3
  <2>2. (n + 1) \div 2 \in Nat /\ n \div 2 \in Nat
    OBVIOUS
  <2>3. QED
    BY <1>1, <1>3, <2>1, <2>2 DEF ExpectedTurn, CompletedActions
<1>4. QED
  BY <1>2, <1>3

\* The record stays well-typed, and the outcome stays decided by where the mover has
\* arrived, by the count of the new position and by the cap.
LEMMA ResultStep ==
  ASSUME Inductive, outcome = Ongoing, NEW a \in Actions, ApplyTrustedAction(a)
  PROVE  TypeOK' /\ ResultIsDecided'
<1> DEFINE next == After(a)
           key == PositionKey(next)
           winner == IF next.pawns[turn][1] = GoalRow[turn] THEN turn ELSE "none"
<1>1. /\ Normal(next) /\ Position' = next
      /\ pawns' = next.pawns /\ walls' = next.walls
      /\ stock' = next.stock /\ turn' = next.turn
      /\ ply' = ply + 1
      /\ historyStartPly' = IF a.kind = "wall" THEN ply + 1 ELSE historyStartPly
      /\ counts' = CountOnce(WindowAfter(a), key)
      /\ outcome' = Adjudicate(winner, counts'[key], ply + 1)
  BY ActionEffect
<1>2. /\ TypeOK /\ ~AtGoal(pawns, turn) /\ ply < PlyCap
      /\ ~AtGoal(pawns, Other(turn))
      /\ \A k \in DOMAIN counts : counts[k] < RepetitionThreshold
  <2>1. TypeOK /\ ~AtGoal(pawns, turn) /\ ply < PlyCap
    BY DEF Inductive, ResultIsDecided
  <2>2. outcome.kind # "win"
    BY DEF Ongoing
  <2>3. ~AtGoal(pawns, Other(turn))
    BY <2>2 DEF Inductive, ResultIsDecided
  <2>4. \A k \in DOMAIN counts : counts[k] <= RepetitionThreshold /\ counts[k] # RepetitionThreshold
    BY DEF Inductive, ResultIsDecided
  <2>5. \A k \in DOMAIN counts : counts[k] \in Nat
    BY <2>1 DEF TypeOK
  <2>6. QED
    BY <2>1, <2>3, <2>4, <2>5, ConfigAssumption
<1>3. turn \in Players /\ Other(turn) \in Players /\ Other(turn) # turn /\ turn # "none"
      /\ next.turn = Other(turn) /\ Other(Other(turn)) = turn
  BY <1>2 DEF TypeOK, Players, Other, After
<1>4. next.pawns[Other(turn)] = pawns[Other(turn)]
  BY <1>2, <1>3 DEF TypeOK, After
<1>5. /\ key \in DOMAIN counts' /\ counts' \in [DOMAIN counts' -> Nat]
      /\ counts'[key] <= RepetitionThreshold
      /\ \A k \in DOMAIN counts' : k # key => counts'[k] < RepetitionThreshold
  <2> DEFINE window == WindowAfter(a)
  <2>1. /\ window \in [DOMAIN window -> Nat]
        /\ \A k \in DOMAIN window : window[k] < RepetitionThreshold
    <3>1. CASE a.kind = "wall"
      BY <3>1 DEF WindowAfter, NoCounts
    <3>2. CASE a.kind # "wall"
      BY <1>2, <3>2 DEF WindowAfter, TypeOK
    <3>3. QED
      BY <3>1, <3>2
  <2> HIDE DEF window
  <2>2. counts' = CountOnce(window, key)
    BY <1>1 DEF window
  <2> HIDE DEF key
  <2>3. CountIn(window, key) \in Nat /\ CountIn(window, key) + 1 <= RepetitionThreshold
    BY <2>1, ConfigAssumption DEF CountIn
  <2>4. /\ DOMAIN counts' = DOMAIN window \cup {key}
        /\ counts'[key] = CountIn(window, key) + 1
        /\ \A k \in DOMAIN window : k # key => counts'[k] = window[k]
    BY <2>2 DEF CountOnce
  <2>5. counts' = [k \in DOMAIN counts' |-> counts'[k]]
    BY <2>2 DEF CountOnce
  <2>6. \A k \in DOMAIN counts' : counts'[k] \in Nat
    BY <2>1, <2>3, <2>4
  <2>7. counts' \in [DOMAIN counts' -> Nat]
    BY <2>5, <2>6
  <2>8. QED
    BY <2>1, <2>3, <2>4, <2>7
<1>6. /\ outcome' \in Outcomes
      /\ outcome'.kind = "win" <=> winner = turn
      /\ outcome'.kind = "win" => outcome'.winner = turn
      /\ outcome' = Ongoing => counts'[key] < RepetitionThreshold /\ ply + 1 < PlyCap
  <2>1. winner \in {turn, "none"} /\ "none" \notin Players
    BY DEF Players
  <2>2. counts'[key] \in Nat /\ ply + 1 \in Nat
    BY <1>2, <1>5 DEF TypeOK
  <2> HIDE DEF winner, key
  <2>3. outcome' = IF winner \in Players THEN Win(winner)
                   ELSE IF counts'[key] >= RepetitionThreshold THEN Draw("threefold_repetition")
                   ELSE IF ply + 1 >= PlyCap THEN Draw("ply_cap") ELSE Ongoing
    BY <1>1 DEF Adjudicate
  <2>4. CASE winner = turn
    BY <1>3, <2>3, <2>4 DEF Win, Ongoing, Outcomes
  <2>5. CASE winner = "none"
    BY <1>3, <2>1, <2>2, <2>3, <2>5, ConfigAssumption DEF Draw, Ongoing, Outcomes
  <2>6. QED
    BY <2>1, <2>4, <2>5
<1>7. TypeOK'
  <2>1. /\ pawns' \in [Players -> Cells] /\ turn' \in Players /\ walls' \subseteq Walls
        /\ \A p \in Players : stock'[p] \in 0 .. InitialStock[p]
    BY <1>1 DEF Normal
  <2>2. stock' \in [Players -> Int]
    <3>1. stock \in [Players -> Int]
      BY <1>2 DEF TypeOK
    <3>2. stock' = IF a.kind = "wall" THEN [stock EXCEPT ![turn] = @ - 1] ELSE stock
      BY <1>1 DEF After
    <3>3. QED
      BY <1>3, <3>1, <3>2
  <2>3. stock' \in [Players -> Nat]
    BY <2>1, <2>2
  <2>4. ply' \in Nat /\ historyStartPly' \in Nat
    BY <1>1, <1>2 DEF TypeOK
  <2>5. QED
    BY <1>5, <1>6, <2>1, <2>3, <2>4 DEF TypeOK
<1>8. ResultIsDecided'
  <2>1. turn' = Other(turn) /\ Other(turn') = turn
    BY <1>1, <1>3
  <2>2. ~AtGoal(pawns', turn')
    BY <1>1, <1>2, <1>4, <2>1 DEF AtGoal
  <2>3. winner = turn <=> AtGoal(pawns', Other(turn'))
    BY <1>1, <1>3, <2>1 DEF AtGoal
  <2>4. ply' <= PlyCap /\ (outcome' = Ongoing => ply' < PlyCap)
    BY <1>1, <1>2, <1>6, ConfigAssumption DEF TypeOK
  <2>5. PositionKey(Position)' = key
    BY <1>1 DEF PositionKey
  <2>6. counts'[key] = RepetitionThreshold => outcome' # Ongoing
    BY <1>5, <1>6, ConfigAssumption
  <2>7. \A k \in DOMAIN counts' : /\ counts'[k] <= RepetitionThreshold
                                  /\ counts'[k] = RepetitionThreshold => k = key /\ outcome' # Ongoing
    <3>1. \A k \in DOMAIN counts' : counts'[k] \in Nat
      BY <1>5
    <3>2. QED
      BY <1>5, <2>6, <3>1, ConfigAssumption
  <2> HIDE DEF key, winner
  <2>8. QED
    BY <1>5, <1>6, <2>1, <2>2, <2>3, <2>4, <2>5, <2>7 DEF ResultIsDecided, AtGoal
<1>9. QED
  BY <1>7, <1>8

\* A pawn action spends no wall and takes the pawn at most two squares further from
\* its start.
LEMMA PawnStep ==
  ASSUME Inductive, NEW a \in PawnActions, IsTrustedActionLegal(Position, a),
         ApplyTrustedAction(a)
  PROVE  /\ walls' = walls /\ StockIsOnTheBoard' /\ WindowStartsAtLastWall'
         /\ PawnsWithinReach' /\ turn' = ExpectedTurn(ply')
         /\ \A p \in Players : stock'[p] <= InitialStock[p]
<1>1. /\ pawns' = [pawns EXCEPT ![turn] = a.to] /\ walls' = walls /\ stock' = stock
      /\ turn' = Other(turn) /\ ply' = ply + 1 /\ historyStartPly' = historyStartPly
  <2>1. a \in Actions /\ a.kind = "pawn"
    BY DEF Actions, PawnActions
  <2>2. QED
    BY <2>1, ActionEffect DEF After
<1>2. TypeOK /\ turn = ExpectedTurn(ply)
  BY DEF Inductive
<1>3. ply \in Nat /\ historyStartPly \in Nat /\ turn \in Players /\ Other(turn) \in Players
      /\ (\A p \in Players : p = turn \/ p = Other(turn)) /\ Other(turn) # turn
  BY <1>2 DEF TypeOK, Players, Other
<1>4. turn' = ExpectedTurn(ply')
  BY <1>1, <1>2, <1>3, TurnArithmetic
<1>5. StockIsOnTheBoard' /\ \A p \in Players : stock'[p] <= InitialStock[p]
  BY <1>1 DEF Inductive, StockIsOnTheBoard, Spent
<1>6. WindowStartsAtLastWall'
  <2>1. /\ WindowStartsAtLastWall /\ Cardinality(walls) \in Nat
    BY FS_CardinalityType DEF Inductive
  <2>2. \A p \in Players : Spent(p)' = Spent(p)
    BY <1>1 DEF Spent
  <2>3. \A n \in Nat : ExpectedTurn(n) \in Players
    BY TurnArithmetic
  <2>4. historyStartPly > 0 => ExpectedTurn(historyStartPly - 1) \in Players
    BY <1>3, <2>3
  <2>5. QED
    BY <1>1, <1>3, <2>1, <2>2, <2>4 DEF WindowStartsAtLastWall
<1>7. PawnsWithinReach'
  <2>1. a.to \in PawnDestinations(Position)
    BY DEF IsTrustedActionLegal, PawnActions
  <2>2. \A p \in Players : Start[p] \in Cells
    BY ConfigAssumption DEF Start, Cells, Players
  <2>3. /\ Distance(Start[turn], a.to) <= Distance(Start[turn], pawns[turn]) + 2
        /\ a.to \in Cells
    <3>1. Start[turn] \in Cells
      BY <1>3, <2>2
    <3>2. QED
      BY <1>2, <2>1, <3>1, PositionTyped, DestinationDistance
  <2>4. /\ CompletedActions(ply + 1)[turn] = CompletedActions(ply)[turn] + 1
        /\ CompletedActions(ply + 1)[Other(turn)] = CompletedActions(ply)[Other(turn)]
        /\ \A p \in Players : CompletedActions(ply)[p] \in Nat
    BY <1>2, <1>3, TurnArithmetic
  <2>5. \A p \in Players : Distance(Start[p], pawns[p]) <= 2 * CompletedActions(ply)[p]
    BY DEF Inductive, PawnsWithinReach
  <2>6. /\ pawns'[turn] = a.to /\ pawns'[Other(turn)] = pawns[Other(turn)]
        /\ pawns[turn] \in Cells
    BY <1>1, <1>2, <1>3 DEF TypeOK
  <2>7. \A x \in Cells, y \in Cells : Distance(x, y) \in Int
    BY CellShape DEF Distance, Abs
  <2>8. Distance(Start[turn], pawns'[turn]) <= 2 * CompletedActions(ply')[turn]
    <3>1. Distance(Start[turn], a.to) \in Int /\ Distance(Start[turn], pawns[turn]) \in Int
      BY <1>3, <2>2, <2>3, <2>6, <2>7
    <3>2. Distance(Start[turn], pawns[turn]) <= 2 * CompletedActions(ply)[turn]
      BY <1>3, <2>5
    <3>3. CompletedActions(ply)[turn] \in Nat
      BY <1>3, <2>4
    <3> HIDE DEF Distance, CompletedActions
    <3>4. QED
      BY <1>1, <2>3, <2>4, <2>6, <3>1, <3>2, <3>3
  <2>9. Distance(Start[Other(turn)], pawns'[Other(turn)]) <= 2 * CompletedActions(ply')[Other(turn)]
    BY <1>1, <1>3, <2>4, <2>5, <2>6
  <2>10. QED
    BY <1>3, <2>8, <2>9 DEF PawnsWithinReach
<1>8. QED
  BY <1>1, <1>4, <1>5, <1>6, <1>7

\* A wall action puts exactly one new wall on the board, out of the mover's stock, and
\* restarts the window at the ply it completes.
LEMMA WallStep ==
  ASSUME Inductive, NEW a \in WallActions, IsTrustedActionLegal(Position, a),
         ApplyTrustedAction(a)
  PROVE  /\ IsFiniteSet(walls') /\ StockIsOnTheBoard' /\ WindowStartsAtLastWall'
         /\ PawnsWithinReach' /\ turn' = ExpectedTurn(ply')
         /\ \A p \in Players : stock'[p] <= InitialStock[p]
<1>1. /\ pawns' = pawns /\ walls' = walls \cup {a.wall}
      /\ stock' = [stock EXCEPT ![turn] = @ - 1]
      /\ turn' = Other(turn) /\ ply' = ply + 1 /\ historyStartPly' = ply + 1
  <2>1. a \in Actions /\ a.kind = "wall"
    BY DEF Actions, WallActions
  <2>2. QED
    BY <2>1, ActionEffect DEF After
<1>2. TypeOK /\ turn = ExpectedTurn(ply)
  BY DEF Inductive
<1>3. ply \in Nat /\ historyStartPly \in Nat /\ turn \in Players /\ Other(turn) \in Players
      /\ (\A p \in Players : p = turn \/ p = Other(turn)) /\ Other(turn) # turn
  BY <1>2 DEF TypeOK, Players, Other
<1>4. turn' = ExpectedTurn(ply')
  BY <1>1, <1>2, <1>3, TurnArithmetic
<1>5. a.wall \notin walls
  BY PositionTyped, <1>2 DEF IsTrustedActionLegal, IsLegalWall, WallActions
<1>6. /\ IsFiniteSet(walls') /\ Cardinality(walls') = Cardinality(walls) + 1
      /\ Cardinality(walls) \in Nat
  BY <1>1, <1>5, FS_AddElement, FS_CardinalityType DEF Inductive
<1>7. /\ stock[turn] \in Nat /\ stock[Other(turn)] \in Nat
      /\ stock'[turn] = stock[turn] - 1 /\ stock'[Other(turn)] = stock[Other(turn)]
      /\ \A p \in Players : InitialStock[p] \in Nat
  BY <1>1, <1>2, <1>3, ConfigAssumption DEF TypeOK, InitialStock
<1> DEFINE SpentNow(p) == InitialStock[p] - stock'[p]
<1>8. /\ SpentNow(turn) = Spent(turn) + 1 /\ SpentNow(Other(turn)) = Spent(Other(turn))
      /\ Spent(turn) \in Nat /\ Spent(Other(turn)) \in Nat
      /\ \A p \in Players : Spent(p)' = SpentNow(p)
  <2>1. stock[turn] <= InitialStock[turn] /\ stock[Other(turn)] <= InitialStock[Other(turn)]
    BY <1>3 DEF Inductive
  <2>2. InitialStock[turn] \in Nat /\ InitialStock[Other(turn)] \in Nat
    BY <1>3, <1>7
  <2>3. QED
    BY <1>7, <2>1, <2>2 DEF Spent
<1>9. StockIsOnTheBoard' /\ \A p \in Players : stock'[p] <= InitialStock[p]
  <2>1. Spent("A")' + Spent("B")' = Spent("A") + Spent("B") + 1
    <3>1. CASE turn = "A"
      BY <1>8, <3>1 DEF Players, Other
    <3>2. CASE turn = "B"
      BY <1>8, <3>2 DEF Players, Other
    <3>3. QED
      BY <1>3, <3>1, <3>2 DEF Players
  <2>2. Spent("A") + Spent("B") = Cardinality(walls)
    BY DEF Inductive, StockIsOnTheBoard
  <2>3. StockIsOnTheBoard'
    BY <1>6, <2>1, <2>2 DEF StockIsOnTheBoard
  <2>4. SpentNow(turn) >= 0 /\ SpentNow(Other(turn)) >= 0
    BY <1>8
  <2>5. stock'[turn] <= InitialStock[turn] /\ stock'[Other(turn)] <= InitialStock[Other(turn)]
    BY <1>3, <1>7, <2>4
  <2>6. QED
    BY <1>3, <2>3, <2>5
<1> HIDE DEF SpentNow
<1>10. WindowStartsAtLastWall'
  <2>1. /\ Cardinality(walls) <= ply /\ historyStartPly <= ply
        /\ \A p \in Players : Spent(p) <= CompletedActions(historyStartPly)[p]
    BY DEF Inductive, WindowStartsAtLastWall
  <2>2. walls' # {}
    BY <1>1
  <2>3. Spent(turn) <= CompletedActions(ply)[turn]
        /\ Spent(Other(turn)) <= CompletedActions(ply)[Other(turn)]
    <3>1. \A p \in Players : CompletedActions(historyStartPly)[p] <= CompletedActions(ply)[p]
      BY <1>3, <2>1 DEF CompletedActions
    <3>2. \A p \in Players : CompletedActions(historyStartPly)[p] \in Nat /\ CompletedActions(ply)[p] \in Nat
      BY <1>3, TurnArithmetic
    <3>3. QED
      BY <1>3, <1>8, <2>1, <3>1, <3>2
  <2>4. /\ CompletedActions(ply + 1)[turn] = CompletedActions(ply)[turn] + 1
        /\ CompletedActions(ply + 1)[Other(turn)] = CompletedActions(ply)[Other(turn)]
        /\ \A p \in Players : CompletedActions(ply)[p] \in Nat
    BY <1>2, <1>3, TurnArithmetic
  <2>5. /\ SpentNow(turn) <= CompletedActions(ply + 1)[turn]
        /\ SpentNow(Other(turn)) <= CompletedActions(ply + 1)[Other(turn)]
    BY <1>3, <1>8, <2>3, <2>4
  <2>6. \A p \in Players : Spent(p)' <= CompletedActions(historyStartPly')[p]
    BY <1>1, <1>3, <1>8, <2>5
  <2>7. historyStartPly' - 1 = ply /\ historyStartPly' > 0 /\ historyStartPly' <= ply'
    BY <1>1, <1>3
  <2>8. Spent(ExpectedTurn(historyStartPly - 1))' > 0
    <3>1. ExpectedTurn(historyStartPly - 1)' = turn
      BY <1>2, <2>7 DEF ExpectedTurn
    <3>2. SpentNow(turn) > 0
      BY <1>8
    <3>3. QED
      BY <3>1, <3>2 DEF Spent, SpentNow
  <2>9. Cardinality(walls') <= ply' /\ Cardinality(walls') <= historyStartPly'
    BY <1>1, <1>3, <1>6, <2>1
  <2>10. QED
    BY <2>2, <2>6, <2>7, <2>8, <2>9 DEF WindowStartsAtLastWall
<1>11. PawnsWithinReach'
  <2>1. \A p \in Players : /\ Distance(Start[p], pawns[p]) <= 2 * CompletedActions(ply)[p]
                           /\ Distance(Start[p], pawns[p]) \in Int
    <3>1. \A p \in Players : Start[p] \in Cells /\ pawns[p] \in Cells
      BY <1>2, ConfigAssumption DEF Start, Cells, Players, TypeOK
    <3>2. \A x \in Cells, y \in Cells : Distance(x, y) \in Int
      BY CellShape DEF Distance, Abs
    <3>3. QED
      BY <3>1, <3>2 DEF Inductive, PawnsWithinReach
  <2>2. \A p \in Players : /\ CompletedActions(ply)[p] \in Nat
                           /\ CompletedActions(ply + 1)[p] \in Nat
                           /\ CompletedActions(ply)[p] <= CompletedActions(ply + 1)[p]
    BY <1>3, TurnArithmetic DEF CompletedActions
  <2>3. \A p \in Players : Distance(Start[p], pawns[p]) <= 2 * CompletedActions(ply + 1)[p]
    BY <2>1, <2>2
  <2>4. QED
    BY <1>1, <2>3 DEF PawnsWithinReach
<1>12. QED
  BY <1>4, <1>6, <1>9, <1>10, <1>11

(* ---- The theorems --------------------------------------------------------- *)

\* The record of createInitialState satisfies the invariant.
LEMMA InitInductive ==
  ASSUME Init
  PROVE  Inductive
<1> DEFINE key == PositionKey(InitialPosition)
<1>1. /\ Start \in [Players -> Cells] /\ InitialStock \in [Players -> Nat]
      /\ Start["A"] # Start["B"] /\ Start["A"][1] = Rows - 1 /\ Start["B"][1] = 0
  BY ConfigAssumption DEF Start, Cells, Players, InitialStock
<1>2. Position = InitialPosition
  BY DEF Init, Position, InitialPosition
<1>3. counts = [k \in {key} |-> 1]
  BY DEF Init, CountOnce, CountIn, NoCounts
<1> HIDE DEF key
<1>4. TypeOK
  BY <1>1, <1>3, ConfigAssumption DEF Init, TypeOK, Outcomes
<1>5. IsFiniteSet(walls) /\ Cardinality(walls) = 0
  BY FS_EmptySet DEF Init
<1>6. turn = ExpectedTurn(ply)
  BY DEF Init, ExpectedTurn
<1>7. StockIsOnTheBoard /\ \A p \in Players : Spent(p) = 0
  BY <1>1, <1>5 DEF Init, StockIsOnTheBoard, Spent, Players
<1>8. \A p \in Players : CompletedActions(0)[p] \in Nat
  BY TurnArithmetic
<1>9. WindowStartsAtLastWall
  BY <1>5, <1>7, <1>8 DEF Init, WindowStartsAtLastWall
<1>10. PawnsWithinReach
  <2>1. \A p \in Players : Distance(Start[p], Start[p]) = 0
    BY <1>1, CellShape DEF Distance, Abs
  <2>2. QED
    BY <1>8, <2>1 DEF Init, PawnsWithinReach
<1>11. ResultIsDecided
  <2>1. ~AtGoal(pawns, turn) /\ ~AtGoal(pawns, Other(turn))
    BY <1>1, ConfigAssumption DEF Init, AtGoal, GoalRow, Players, Other
  <2>2. outcome.kind # "win" /\ ply < PlyCap /\ ply <= PlyCap
    BY ConfigAssumption DEF Init, Ongoing
  <2>3. PositionKey(Position) \in DOMAIN counts
    BY <1>2, <1>3 DEF key
  <2>4. \A k \in DOMAIN counts : counts[k] < RepetitionThreshold /\ counts[k] \in Nat
    BY <1>3, ConfigAssumption
  <2>5. QED
    BY <2>1, <2>2, <2>3, <2>4, ConfigAssumption DEF ResultIsDecided
<1>12. pawns["A"] # pawns["B"] /\ \A w \in walls : Conflicts(w) \cap walls = {}
  BY <1>1 DEF Init
<1>13. \A p \in Players : stock[p] <= InitialStock[p]
  BY <1>1 DEF Init
<1>14. QED
  BY <1>4, <1>5, <1>6, <1>7, <1>9, <1>10, <1>11, <1>12, <1>13 DEF Inductive

\* Every call that applies an action, and a stutter, keeps the invariant.
LEMMA NextInductive ==
  ASSUME Inductive, Next
  PROVE  Inductive'
<1>1. TypeOK
  BY DEF Inductive
<1>2. PICK a \in Actions : IsTrustedActionLegal(Position, a) /\ ApplyTrustedAction(a)
  BY <1>1, StepIsLegal
<1>3. outcome = Ongoing
  BY <1>1, StepIsLegal
<1>4. TypeOK' /\ ResultIsDecided'
  BY <1>2, <1>3, ResultStep
<1>5. pawns'["A"] # pawns'["B"] /\ \A w \in walls' : Conflicts(w) \cap walls' = {}
  BY <1>2, ActionEffect DEF Normal
<1>6. CASE a \in PawnActions
  <2>1. IsFiniteSet(walls)
    BY DEF Inductive
  <2>2. QED
    BY <1>2, <1>4, <1>5, <1>6, <2>1, PawnStep DEF Inductive
<1>7. CASE a \in WallActions
  BY <1>2, <1>4, <1>5, <1>7, WallStep DEF Inductive
<1>8. QED
  BY <1>6, <1>7 DEF Actions

\* Every record the engine produces, on any board and with any stock, satisfies what
\* validateState asks of turn, stock, walls, window, distances and outcome.
THEOREM RecordsValidate == Spec => []Inductive
<1>1. Inductive /\ UNCHANGED vars => Inductive'
  BY DEF Inductive, vars, TypeOK, StockIsOnTheBoard, Spent, WindowStartsAtLastWall,
         PawnsWithinReach, ResultIsDecided, AtGoal, Position
<1>2. QED
  BY InitInductive, NextInductive, <1>1, PTL DEF Spec

\* Type correctness of the game record.
THEOREM TypeCorrect == Spec => []TypeOK
<1>1. Inductive => TypeOK
  BY DEF Inductive
<1>2. QED
  BY RecordsValidate, <1>1, PTL

\* A goal, a repetition or the cap ends the game the moment it is reached, and nothing
\* else does.
THEOREM ResultsAreDecided == Spec => []ResultIsDecided
<1>1. Inductive => ResultIsDecided
  BY DEF Inductive
<1>2. QED
  BY RecordsValidate, <1>1, PTL

\* The walls on the board are those the players have spent, and the repetition window
\* starts at the last of them.
THEOREM WindowsStartAtLastWall == Spec => []WindowStartsAtLastWall
<1>1. Inductive => WindowStartsAtLastWall
  BY DEF Inductive
<1>2. QED
  BY RecordsValidate, <1>1, PTL

\* applyAction and applyLegalAction accept the same actions in every reachable state.
THEOREM EntryPointsAlwaysAgree == Spec => []EntryPointsAgree
<1>1. TypeOK => EntryPointsAgree
  BY PositionTyped, LegalCodes DEF EntryPointsAgree
<1>2. QED
  BY TypeCorrect, <1>1, PTL

\* A wall excludes exactly the walls that exclude it.
LEMMA ConflictsSymmetric ==
  ASSUME NEW v \in Walls, NEW w \in Walls, v \in Conflicts(w)
  PROVE  w \in Conflicts(v)
<1>1. /\ v = <<v[1], v[2], v[3]>> /\ w = <<w[1], w[2], w[3]>>
      /\ v[1] \in {"H", "V"} /\ w[1] \in {"H", "V"}
      /\ v[2] \in Int /\ v[3] \in Int /\ w[2] \in Int /\ w[3] \in Int
  BY WallShape
<1>2. CASE w[1] = "H"
  BY <1>1, <1>2 DEF Conflicts
<1>3. CASE w[1] = "V"
  BY <1>1, <1>3 DEF Conflicts
<1>4. QED
  BY <1>1, <1>2, <1>3

\* A wall never conflicts with itself.
LEMMA NoSelfConflict ==
  ASSUME NEW w \in Walls
  PROVE  w \notin Conflicts(w)
  BY WallShape DEF Conflicts

\* A legal wall never makes normalizePosition throw: neither the geometry nor the stock
\* nor either player's path, whatever the walls already standing.
THEOREM LegalWallsAlwaysApply ==
  Spec => [](\A w \in Walls : IsLegalWall(Position, w)
                                => Normal(After([kind |-> "wall", wall |-> w])))
<1>1. ASSUME Inductive, NEW w \in Walls, IsLegalWall(Position, w)
      PROVE  Normal(After([kind |-> "wall", wall |-> w]))
  <2> DEFINE next == After([kind |-> "wall", wall |-> w])
  <2>1. TypeOK
    BY <1>1 DEF Inductive
  <2>2. /\ next.pawns = pawns /\ next.walls = walls \cup {w}
        /\ next.stock = [stock EXCEPT ![turn] = @ - 1] /\ next.turn = Other(turn)
    BY DEF After
  <2> HIDE DEF next
  <2>3. /\ stock[turn] # 0 /\ w \notin walls /\ Conflicts(w) \cap walls = {}
        /\ BothHavePath(pawns, walls \cup {w})
    BY <1>1, <2>1, PositionTyped DEF IsLegalWall
  <2>4. \A v \in walls \cup {w} : Conflicts(v) \cap (walls \cup {w}) = {}
    <3>1. \A v \in walls : w \notin Conflicts(v)
      BY <2>1, <2>3, ConflictsSymmetric DEF TypeOK
    <3>2. \A v \in walls : Conflicts(v) \cap walls = {}
      BY <1>1 DEF Inductive
    <3>3. QED
      BY <2>3, <3>1, <3>2, NoSelfConflict
  <2>5. \A p \in Players : next.stock[p] \in 0 .. InitialStock[p]
    <3>1. \A p \in Players : stock[p] \in Nat /\ stock[p] <= InitialStock[p] /\ InitialStock[p] \in Nat
      BY <1>1, <2>1, ConfigAssumption DEF Inductive, TypeOK, InitialStock
    <3>2. \A p \in Players : next.stock[p] = IF p = turn THEN stock[p] - 1 ELSE stock[p]
      BY <2>1, <2>2 DEF TypeOK
    <3>3. QED
      BY <2>1, <2>3, <3>1, <3>2 DEF TypeOK
  <2>6. next.turn \in Players /\ next.pawns["A"] # next.pawns["B"]
        /\ next.pawns \in [Players -> Cells] /\ next.walls \subseteq Walls
    BY <1>1, <2>1, <2>2 DEF Inductive, TypeOK, Players, Other
  <2>7. Normal(next)
    BY <2>2, <2>3, <2>4, <2>5, <2>6 DEF Normal
  <2>8. QED
    BY <2>7 DEF next
<1>2. Inductive => (\A w \in Walls : IsLegalWall(Position, w)
                                       => Normal(After([kind |-> "wall", wall |-> w])))
  BY <1>1
<1>3. QED
  BY RecordsValidate, <1>2, PTL

(* ---- Paths, keys and the initial position ---------------------------------- *)

\* A nonempty set of numbers has a least one.
LEMMA LeastNumber ==
  ASSUME NEW D \in SUBSET Nat, D # {}
  PROVE  \E d \in D : \A e \in D : d <= e
<1> DEFINE R == OpToRel(<, Nat)
<1>1. PICK d \in D : \A e \in D : ~(<<e, d>> \in R)
  <2> HIDE DEF R
  <2>1. IsWellFoundedOn(R, Nat)
    BY NatLessThanWellFounded DEF R
  <2>2. QED
    BY <2>1, WFMin
<1>2. \A e \in D : ~(e < d)
  BY <1>1 DEF OpToRel
<1>3. QED
  BY <1>2

\* The board has finitely many cells.
LEMMA CellsFinite == IsFiniteSet(Cells)
<1>1. IsFiniteSet(0 .. Rows - 1) /\ IsFiniteSet(0 .. Cols - 1)
  BY FS_Interval, ConfigAssumption
<1>2. QED
  BY <1>1, FS_Product DEF Cells

\* A set of cells that no open edge leads out of.
Closed(C, ws) == C \in SUBSET Cells /\ \A cell \in C : OpenNeighbours(cell, ws) \subseteq C

\* The cells that a round of the search adds its open neighbours to.
Round(seen, ws) == seen \cup UNION {OpenNeighbours(cell, ws) : cell \in seen}

\* A round stays on the board, and finds nothing exactly when no open edge leads out.
LEMMA RoundFinds ==
  ASSUME NEW seen \in SUBSET Cells, NEW ws
  PROVE  /\ Round(seen, ws) \in SUBSET Cells /\ seen \subseteq Round(seen, ws)
         /\ Round(seen, ws) = seen <=> Closed(seen, ws)
         /\ \A C : Closed(C, ws) => (seen \subseteq C <=> Round(seen, ws) \subseteq C)
<1>1. \A cell \in Cells : OpenNeighbours(cell, ws) \subseteq Cells
  BY DEF OpenNeighbours, Adjacent
<1>2. QED
  BY <1>1 DEF Round, Closed

\* What a search of the sets of cells that have been seen answers.
Found(f, seen, goal, ws) == \/ \E cell \in seen : cell[1] = goal
                            \/ Round(seen, ws) # seen /\ f[Round(seen, ws)]
IsSearch(f, goal, ws) == f = [seen \in SUBSET Cells |-> Found(f, seen, goal, ws)]

\* The recursion of the search has a solution: whether every set without a way out that
\* holds the cells seen reaches the goal row.
LEMMA SearchIsDefined ==
  ASSUME NEW goal, NEW ws
  PROVE  \E f : IsSearch(f, goal, ws)
<1> DEFINE Out(seen) == \A C : Closed(C, ws) /\ seen \subseteq C => \E cell \in C : cell[1] = goal
           f == [seen \in SUBSET Cells |-> Out(seen)]
<1>1. ASSUME NEW seen \in SUBSET Cells
      PROVE  f[seen] = Found(f, seen, goal, ws)
  <2> USE DEF Found
  <2>1. f[seen] = Out(seen) /\ f[Round(seen, ws)] = Out(Round(seen, ws))
    BY RoundFinds
  <2>2. Out(Round(seen, ws)) <=> Out(seen)
    BY RoundFinds
  <2>3. (\E cell \in seen : cell[1] = goal) => Out(seen)
    OBVIOUS
  <2>4. Round(seen, ws) = seen /\ Out(seen) => \E cell \in seen : cell[1] = goal
    BY RoundFinds
  <2> HIDE DEF Out, f
  <2>5. f[seen] \in BOOLEAN
    BY <2>1 DEF Out
  <2>6. QED
    BY <2>1, <2>2, <2>3, <2>4, <2>5
<1>2. f = [seen \in SUBSET Cells |-> f[seen]]
  OBVIOUS
<1> HIDE DEF f
<1>3. QED
  BY <1>1, <1>2 DEF IsSearch

\* hasPathSet finds a path exactly when there is one: when no set of cells that holds the
\* pawn, and that no open edge leads out of, stays off the goal row.
THEOREM PathIsReachability ==
  ASSUME NEW from \in Cells, NEW goal, NEW ws
  PROVE  HasPath(from, goal, ws) <=>
           \A C : Closed(C, ws) /\ from \in C => \E cell \in C : cell[1] = goal
<1> DEFINE reaches == CHOOSE f : IsSearch(f, goal, ws)
<1>1. HasPath(from, goal, ws) = reaches[{from}]
  BY DEF HasPath, Round, IsSearch, Found
<1>2. IsSearch(reaches, goal, ws)
  BY SearchIsDefined
<1> HIDE DEF reaches
<1>3. \A seen \in SUBSET Cells : reaches[seen] = Found(reaches, seen, goal, ws)
  BY <1>2 DEF IsSearch
<1>4. \A seen \in SUBSET Cells : IsFiniteSet(seen) /\ Cardinality(seen) \in Nat
                                 /\ Cardinality(seen) <= Cardinality(Cells)
  BY CellsFinite, FS_Subset, FS_CardinalityType
<1> DEFINE Left(seen) == Cardinality(Cells) - Cardinality(seen)
<1>5. \A seen \in SUBSET Cells : Left(seen) \in Nat
  BY <1>4, CellsFinite, FS_CardinalityType
<1>6. ASSUME NEW seen \in SUBSET Cells, Round(seen, ws) # seen
      PROVE  Left(Round(seen, ws)) < Left(seen)
  <2>1. Round(seen, ws) \in SUBSET Cells /\ seen \subseteq Round(seen, ws)
    BY RoundFinds
  <2>2. Cardinality(seen) < Cardinality(Round(seen, ws))
    BY <1>4, <1>6, <2>1, FS_Subset
  <2>3. QED
    BY <1>4, <2>1, <2>2, CellsFinite, FS_CardinalityType
<1> HIDE DEF Left
<1>7. ASSUME ~reaches[{from}]
      PROVE  \E C : Closed(C, ws) /\ from \in C /\ ~\E cell \in C : cell[1] = goal
  <2> DEFINE Bad == {seen \in SUBSET Cells : from \in seen /\ ~reaches[seen]}
  <2>1. {from} \in Bad
    BY <1>7
  <2>2. PICK seen \in Bad : \A other \in Bad : Left(seen) <= Left(other)
    <3> DEFINE D == {Left(seen) : seen \in Bad}
    <3>1. D \in SUBSET Nat /\ D # {}
      BY <1>5, <2>1
    <3>2. PICK d \in D : \A e \in D : d <= e
      BY <3>1, LeastNumber
    <3>3. QED
      BY <3>2
  <2>3. ~Found(reaches, seen, goal, ws)
    BY <1>3
  <2>4. Round(seen, ws) = seen
    <3>1. ASSUME Round(seen, ws) # seen PROVE FALSE
      <4>1. Round(seen, ws) \in Bad
        BY <2>3, <3>1, RoundFinds DEF Found
      <4>2. QED
        BY <1>5, <1>6, <2>2, <3>1, <4>1
    <3>2. QED
      BY <3>1
  <2>5. QED
    BY <2>3, <2>4, RoundFinds DEF Found
<1>8. ASSUME reaches[{from}], NEW C, Closed(C, ws), from \in C
      PROVE  \E cell \in C : cell[1] = goal
  <2> SUFFICES ASSUME ~\E cell \in C : cell[1] = goal PROVE FALSE
    OBVIOUS
  <2> DEFINE Good == {seen \in SUBSET Cells : seen \subseteq C /\ reaches[seen]}
  <2>1. {from} \in Good
    BY <1>8
  <2>2. PICK seen \in Good : \A other \in Good : Left(seen) <= Left(other)
    <3> DEFINE D == {Left(seen) : seen \in Good}
    <3>1. D \in SUBSET Nat /\ D # {}
      BY <1>5, <2>1
    <3>2. PICK d \in D : \A e \in D : d <= e
      BY <3>1, LeastNumber
    <3>3. QED
      BY <3>2
  <2>3. Found(reaches, seen, goal, ws) /\ ~\E cell \in seen : cell[1] = goal
    BY <1>3
  <2>4. Round(seen, ws) # seen /\ Round(seen, ws) \in Good
    BY <1>8, <2>3, RoundFinds DEF Found
  <2>5. QED
    BY <1>5, <1>6, <2>2, <2>4
<1>9. QED
  BY <1>1, <1>7, <1>8
\* On an empty board a pawn reaches the far row straight ahead.
LEMMA StraightAhead ==
  ASSUME NEW from \in Cells, NEW goal \in {0, Rows - 1}
  PROVE  HasPath(from, goal, {})
<1> SUFFICES ASSUME NEW C, Closed(C, {}), from \in C
             PROVE  \E cell \in C : cell[1] = goal
  BY PathIsReachability
<1>0. Rows \in Nat /\ Cols \in Nat /\ goal \in Int /\ 0 <= goal /\ goal <= Rows - 1
  BY ConfigAssumption
<1> DEFINE Off(cell) == IF goal = 0 THEN cell[1] ELSE Rows - 1 - cell[1]
           D == {Off(cell) : cell \in C}
<1>1. D \in SUBSET Nat /\ D # {}
  <2>1. \A cell \in C : cell \in Cells
    BY DEF Closed
  <2>2. \A cell \in C : Off(cell) \in Nat
    BY <1>0, <2>1, CellShape
  <2>3. QED
    BY <2>2
<1>2. PICK d \in D : \A e \in D : d <= e
  BY <1>1, LeastNumber
<1>3. PICK cell \in C : d = Off(cell)
  BY <1>2
<1>4. /\ cell \in Cells /\ cell = <<cell[1], cell[2]>>
      /\ cell[1] \in Nat /\ cell[1] < Rows /\ cell[2] \in Nat /\ cell[2] < Cols
  BY CellShape DEF Closed
<1>5. ASSUME cell[1] # goal
      PROVE  FALSE
  <2> DEFINE next == <<IF goal = 0 THEN cell[1] - 1 ELSE cell[1] + 1, cell[2]>>
  <2>1. next \in Cells /\ next \in Adjacent[cell]
    <3>1. next \in Cells
      BY <1>0, <1>4, <1>5, ConfigAssumption DEF Cells
    <3>2. next \in {<<cell[1]-1, cell[2]>>, <<cell[1]+1, cell[2]>>}
      OBVIOUS
    <3> HIDE DEF next
    <3>3. QED
      BY <1>4, <3>1, <3>2 DEF Adjacent
  <2>2. Off(next) < Off(cell)
    BY <1>0, <1>4
  <2> HIDE DEF next
  <2>3. next \in OpenNeighbours(cell, {})
    BY <2>1 DEF OpenNeighbours, EdgeBlocked
  <2>4. next \in C
    BY <2>3 DEF Closed
  <2>5. Off(next) \in D /\ Off(next) \in Nat /\ Off(cell) \in Nat
    BY <1>1, <2>4
  <2> HIDE DEF Off, D
  <2>6. QED
    BY <1>2, <1>3, <2>2, <2>5
<1>6. QED
  BY <1>5

\* createInitialState makes a position that normalizePosition accepts.
LEMMA InitialIsNormal == Normal(InitialPosition)
<1>1. /\ Start \in [Players -> Cells] /\ InitialStock \in [Players -> Nat]
      /\ Start["A"] # Start["B"] /\ FirstPlayer \in Players
  BY ConfigAssumption DEF Start, Cells, Players, InitialStock
<1>2. \A p \in Players : GoalRow[p] \in {0, Rows - 1}
  BY DEF GoalRow
<1>3. BothHavePath(Start, {})
  <2>1. ASSUME NEW p \in Players
        PROVE  HasPath(Start[p], GoalRow[p], {})
    <3>1. Start[p] \in Cells
      BY <1>1
    <3>2. QED
      BY <1>2, <3>1, StraightAhead
  <2>2. QED
    BY <2>1 DEF BothHavePath
<1>4. QED
  BY <1>1, <1>3 DEF Normal, InitialPosition

\* A row-major index is divided back into its row and column.
LEMMA RowMajorDivides ==
  ASSUME NEW base \in Nat, NEW r \in Nat, NEW c \in Nat, c < base
  PROVE  (r * base + c) \div base = r /\ (r * base + c) % base = c
<1> DEFINE x == r * base + c
           q == x \div base
           m == x % base
<1>1. x \in Nat
  OBVIOUS
<1> HIDE DEF x
<1>2. q \in Nat /\ m \in Nat /\ m < base /\ x = base * q + m
  BY <1>1
<1> HIDE DEF q, m
<1>3. q * base + m = x
  BY <1>2
<1>4. q = r /\ m = c
  BY <1>2, <1>3, RowMajor DEF x
<1>5. QED
  BY <1>4 DEF q, m, x

\* What a normalised position is made of.
Positions == [pawns : [Players -> Cells], walls : SUBSET Walls, stock : [Players -> Nat], turn : Players]

\* A position key tells the whole position, which is read back from it.
LEMMA KeyTellsPosition ==
  ASSUME NEW pos \in Positions
  PROVE  /\ PositionFromKey(PositionKey(pos)) = pos
         /\ PositionKey(pos).turn = pos.turn
<1> DEFINE key == PositionKey(pos)
           back == PositionFromKey(key)
<1>1. /\ pos.pawns \in [Players -> Cells] /\ pos.walls \in SUBSET Walls
      /\ key.squareA = Square(pos.pawns["A"]) /\ key.squareB = Square(pos.pawns["B"])
      /\ key.anchors = Banks(pos.walls) /\ key.stock = pos.stock /\ key.turn = pos.turn
  BY DEF Positions, PositionKey
<1> HIDE DEF key
<1>2. \A cell \in Cells : CellOf(Square(cell)) = cell
  <2> SUFFICES ASSUME NEW cell \in Cells PROVE CellOf(Square(cell)) = cell
    OBVIOUS
  <2>1. /\ cell = <<cell[1], cell[2]>> /\ Cols \in Nat
        /\ cell[1] \in Nat /\ cell[2] \in Nat /\ cell[2] < Cols
    BY CellShape, ConfigAssumption
  <2>2. Square(cell) \div Cols = cell[1] /\ Square(cell) % Cols = cell[2]
    BY <2>1, RowMajorDivides DEF Square
  <2>3. QED
    BY <2>1, <2>2 DEF CellOf
<1>3. /\ back.pawns = [p \in Players |-> CellOf(IF p = "A" THEN key.squareA ELSE key.squareB)]
      /\ back.walls = {w \in Walls : AnchorIndex(w) \in key.anchors[w[1]]}
      /\ back.stock = key.stock /\ back.turn = key.turn
      /\ back = [pawns |-> back.pawns, walls |-> back.walls, stock |-> back.stock, turn |-> back.turn]
  BY DEF PositionFromKey
<1> HIDE DEF back
<1>4. back.pawns = pos.pawns
  BY <1>1, <1>2, <1>3 DEF Players
<1>5. back.walls = pos.walls
  <2>1. ASSUME NEW w \in Walls
        PROVE  AnchorIndex(w) \in key.anchors[w[1]] <=> w \in pos.walls
    <3>1. w[1] \in {"H", "V"}
      BY WallShape
    <3>2. key.anchors[w[1]] = {AnchorIndex(v) : v \in {x \in pos.walls : x[1] = w[1]}}
      BY <1>1, <3>1 DEF Banks
    <3>3. \A v \in pos.walls : v[1] = w[1] /\ AnchorIndex(v) = AnchorIndex(w) => v = w
      BY <1>1, AnchorInjective
    <3>4. QED
      BY <3>2, <3>3
  <2>2. QED
    BY <1>1, <1>3, <2>1
<1>6. pos = [pawns |-> pos.pawns, walls |-> pos.walls, stock |-> pos.stock, turn |-> pos.turn]
  BY DEF Positions
<1>7. back = pos
  BY <1>1, <1>3, <1>4, <1>5, <1>6
<1>8. QED
  BY <1>1, <1>7 DEF back, key

\* Two positions with one key are one position.
LEMMA KeyInjective ==
  ASSUME NEW pos \in Positions, NEW other \in Positions, PositionKey(pos) = PositionKey(other)
  PROVE  pos = other
  BY KeyTellsPosition

(* ---- The whole game -------------------------------------------------------- *)

\* The plies of the repetition window, as indices of a game's positions.
Window == historyStartPly + 1 .. ply + 1
Seen(g, k) == {i \in Window : PositionKey(g[i]) = k}

\* A record is the end of a game: a line of normal positions from the initial one, with the
\* turns in order, in which walls only stay.
LineOf(g) ==
  /\ g \in Seq(Positions) /\ Len(g) = ply + 1
  /\ g[1] = InitialPosition /\ g[ply + 1] = Position
  /\ \A i \in 1 .. ply + 1 : Normal(g[i]) /\ g[i].turn = ExpectedTurn(i - 1) /\ g[i].walls \subseteq walls

\* The window is the part of it with the walls that stand now.
WindowOf(g) ==
  \A i \in 1 .. ply + 1 : /\ i \in Window => g[i].walls = walls /\ g[i].stock = stock
                          /\ i \notin Window => g[i].walls # walls

\* The counts are those of the positions in the window.
CountsOf(g) ==
  /\ DOMAIN counts = {PositionKey(g[i]) : i \in Window}
  /\ \A k \in DOMAIN counts : counts[k] = Cardinality(Seen(g, k))

\* Each ply in it has moved the pawn of its mover and no other.
MovesOf(g) ==
  \A i \in Window : i <= ply =>
    /\ g[i + 1].pawns[g[i].turn] # g[i].pawns[g[i].turn]
    /\ g[i + 1].pawns[Other(g[i].turn)] = g[i].pawns[Other(g[i].turn)]

\* No position but the last has a pawn on its goal.
UndecidedBefore(g) == \A i \in 1 .. ply, p \in Players : ~AtGoal(g[i].pawns, p)

\* No position of the window is further away than its moves.
ReachOf(g) ==
  \A i \in Window, p \in Players :
    Distance(g[i].pawns[p], pawns[p])
      <= 2 * (CompletedActions(ply)[p] - CompletedActions(historyStartPly)[p])

Trail(g) == LineOf(g) /\ WindowOf(g) /\ CountsOf(g) /\ MovesOf(g) /\ UndecidedBefore(g) /\ ReachOf(g)

\* A pawn that moves does move.
LEMMA PawnLeaves ==
  ASSUME NEW pos, pos.pawns \in [Players -> Cells], pos.turn \in Players,
         NEW to \in PawnDestinations(pos)
  PROVE  to # pos.pawns[pos.turn] /\ to \in Cells
<1> DEFINE mover == pos.pawns[pos.turn]
           opponent == pos.pawns[Other(pos.turn)]
<1>1. mover \in Cells
  OBVIOUS
<1>2. PICK step \in OpenNeighbours(mover, pos.walls) :
        to \in IF step = opponent THEN OpenNeighbours(opponent, pos.walls) \ {mover} ELSE {step}
  BY DEF PawnDestinations
<1>3. step # mover
  BY <1>1, <1>2, CellShape DEF OpenNeighbours, Adjacent
<1>4. to # mover
  BY <1>2, <1>3
<1>5. to \in Cells
  BY <1>1, DestinationDistance
<1>6. QED
  BY <1>4, <1>5

\* What one ply does to the record, as either kind of action does it.
LEMMA PlyOf ==
  ASSUME Inductive, outcome = Ongoing, NEW a \in Actions, IsTrustedActionLegal(Position, a), ApplyTrustedAction(a)
  PROVE  /\ Position' \in Positions /\ Normal(Position)' /\ TypeOK /\ TypeOK'
         /\ ply \in Nat /\ historyStartPly \in Nat /\ historyStartPly <= ply
         /\ ply' = ply + 1 /\ turn = ExpectedTurn(ply) /\ turn' = Other(turn) /\ turn' = ExpectedTurn(ply + 1)
         /\ \/ /\ a.kind = "pawn" /\ walls' = walls /\ stock' = stock /\ historyStartPly' = historyStartPly
               /\ pawns' = [pawns EXCEPT ![turn] = a.to] /\ a.to # pawns[turn] /\ a.to \in PawnDestinations(Position)
               /\ counts' = CountOnce(counts, PositionKey(Position)')
            \/ /\ a.kind = "wall" /\ historyStartPly' = ply + 1 /\ pawns' = pawns
               /\ a.wall \notin walls /\ walls' = walls \cup {a.wall} /\ a.wall \in Walls
               /\ IsLegalWall(Position, a.wall)
               /\ stock' = [stock EXCEPT ![turn] = @ - 1]
               /\ counts' = CountOnce(NoCounts, PositionKey(Position)')
<1>1. TypeOK /\ TypeOK' /\ turn = ExpectedTurn(ply) /\ historyStartPly <= ply
  BY ResultStep DEF Inductive, WindowStartsAtLastWall
<1>2. ply \in Nat /\ historyStartPly \in Nat
  BY <1>1 DEF TypeOK
<1>3. /\ Normal(After(a)) /\ Position' = After(a)
      /\ pawns' = After(a).pawns /\ walls' = After(a).walls
      /\ stock' = After(a).stock /\ turn' = After(a).turn
      /\ ply' = ply + 1
      /\ historyStartPly' = IF a.kind = "wall" THEN ply + 1 ELSE historyStartPly
      /\ counts' = CountOnce(WindowAfter(a), PositionKey(After(a)))
  BY ActionEffect
<1>4. Position' \in Positions /\ Normal(Position)' /\ PositionKey(Position)' = PositionKey(After(a))
  <2>1. Position' \in Positions
    BY <1>1 DEF Position, Positions, TypeOK
  <2>2. Normal(Position)'
    BY <1>3 DEF Normal
  <2>3. QED
    BY <1>3, <2>1, <2>2 DEF PositionKey
<1>5. turn' = Other(turn) /\ turn' = ExpectedTurn(ply + 1)
  BY <1>1, <1>2, <1>3, TurnArithmetic DEF After
<1>6. CASE a \in PawnActions
  <2>1. a.kind = "pawn" /\ a.to \in PawnDestinations(Position)
    BY <1>6 DEF PawnActions, IsTrustedActionLegal
  <2>2. a.to # pawns[turn]
    BY <1>1, <2>1, PositionTyped, PawnLeaves
  <2>3. QED
    BY <1>1, <1>2, <1>3, <1>4, <1>5, <2>1, <2>2 DEF After, WindowAfter
<1>7. CASE a \in WallActions
  <2>1. a.kind = "wall" /\ a.wall \in Walls /\ IsLegalWall(Position, a.wall)
    BY <1>7 DEF WallActions, IsTrustedActionLegal
  <2>2. a.wall \notin walls
    BY <1>1, <2>1, PositionTyped DEF IsLegalWall
  <2>3. QED
    BY <1>1, <1>2, <1>3, <1>4, <1>5, <2>1, <2>2 DEF After, WindowAfter
<1>8. QED
  BY <1>6, <1>7 DEF Actions

\* A ply goes on the game by one position, and keeps all that is said of the game.
LEMMA TrailGrows ==
  ASSUME Inductive, outcome = Ongoing, NEW a \in Actions, IsTrustedActionLegal(Position, a), ApplyTrustedAction(a),
         NEW CONSTANT g, Trail(g), NEW CONSTANT h, h = Append(g, Position')
  PROVE  Trail(h)'
<1>1. /\ Position' \in Positions /\ Normal(Position)' /\ TypeOK /\ TypeOK'
      /\ ply \in Nat /\ historyStartPly \in Nat /\ historyStartPly <= ply
      /\ ply' = ply + 1 /\ turn = ExpectedTurn(ply) /\ turn' = Other(turn) /\ turn' = ExpectedTurn(ply + 1)
  BY PlyOf
<1>2. \/ /\ a.kind = "pawn" /\ walls' = walls /\ stock' = stock /\ historyStartPly' = historyStartPly
         /\ pawns' = [pawns EXCEPT ![turn] = a.to] /\ a.to # pawns[turn] /\ a.to \in PawnDestinations(Position)
         /\ counts' = CountOnce(counts, PositionKey(Position)')
      \/ /\ a.kind = "wall" /\ historyStartPly' = ply + 1 /\ pawns' = pawns
         /\ a.wall \notin walls /\ walls' = walls \cup {a.wall}
         /\ counts' = CountOnce(NoCounts, PositionKey(Position)')
  BY PlyOf
<1>3. /\ h \in Seq(Positions) /\ Len(h) = ply + 2 /\ h[ply + 2] = Position'
      /\ \A i \in 1 .. ply + 1 : h[i] = g[i] /\ g[i] \in Positions
      /\ g[ply + 1] = Position /\ g[1] = InitialPosition
  BY <1>1 DEF Trail, LineOf
<1>4. /\ Position'.pawns = pawns' /\ Position'.walls = walls' /\ Position'.stock = stock' /\ Position'.turn = turn'
      /\ Position.pawns = pawns /\ Position.walls = walls /\ Position.stock = stock /\ Position.turn = turn
  BY DEF Position
<1>5. Window = historyStartPly + 1 .. ply + 1 /\ Window' = historyStartPly' + 1 .. ply + 2
  BY <1>1 DEF Window
<1>6. LineOf(h)'
  <2>1. walls \subseteq walls'
    BY <1>2
  <2>2. \A i \in 1 .. ply + 1 : Normal(h[i]) /\ h[i].turn = ExpectedTurn(i - 1) /\ h[i].walls \subseteq walls'
    BY <1>3, <2>1 DEF Trail, LineOf
  <2>3. Normal(Position') /\ Position'.turn = ExpectedTurn(ply + 1) /\ Position'.walls \subseteq walls'
    BY <1>1, <1>4 DEF Normal
  <2>4. \A i \in 1 .. ply + 2 : Normal(h[i]) /\ h[i].turn = ExpectedTurn(i - 1) /\ h[i].walls \subseteq walls'
    <3>1. \A i \in 1 .. ply + 2 : i \in 1 .. ply + 1 \/ i = ply + 2
      BY <1>1
    <3>2. h[ply + 2].turn = ExpectedTurn((ply + 2) - 1)
      BY <1>1, <1>3, <2>3
    <3>3. QED
      BY <1>3, <2>2, <2>3, <3>1, <3>2
  <2>5. h[1] = InitialPosition /\ Len(h) = ply' + 1 /\ h[ply' + 1] = Position'
    BY <1>1, <1>3
  <2>6. 1 .. ply' + 1 = 1 .. ply + 2
    BY <1>1
  <2>7. QED
    BY <1>3, <2>4, <2>5, <2>6 DEF LineOf, Normal
<1>7. WindowOf(h)'
  <2>1. \A i \in 1 .. ply + 2 : i = ply + 2 \/ i \in 1 .. ply + 1
    BY <1>1
  <2>2. ply' + 1 = ply + 2 /\ ply + 2 \in Window'
    BY <1>1, <1>2, <1>5
  <2>3. h[ply + 2].walls = walls' /\ h[ply + 2].stock = stock'
    BY <1>3, <1>4
  <2>4. ASSUME NEW i \in 1 .. ply + 1
        PROVE  /\ i \in Window' => h[i].walls = walls' /\ h[i].stock = stock'
               /\ i \notin Window' => h[i].walls # walls'
    <3>1. CASE a.kind = "pawn"
      BY <1>1, <1>2, <1>3, <1>5, <3>1 DEF Trail, WindowOf
    <3>2. CASE a.kind = "wall"
      <4>1. i \notin Window'
        BY <1>1, <1>2, <1>5, <3>2
      <4>2. g[i].walls \subseteq walls /\ walls' # walls /\ walls \subseteq walls'
        BY <1>2, <3>2 DEF Trail, LineOf
      <4>3. QED
        BY <1>2, <1>3, <3>2, <4>1, <4>2
    <3>3. QED
      BY <1>2, <3>1, <3>2
  <2>5. QED
    BY <2>1, <2>2, <2>3, <2>4 DEF WindowOf
<1>8. CountsOf(h)'
  <2> DEFINE key == PositionKey(Position)'
  <2>1. key = PositionKey(h[ply + 2])
    BY <1>3 DEF PositionKey
  <2> HIDE DEF key
  <2> DEFINE At(k) == {i \in Window' : PositionKey(h[i]) = k}
  <2>2. \A k : Seen(h, k)' = At(k)
    BY DEF Seen, PositionKey
  <2>3. /\ DOMAIN counts' = {PositionKey(h[i]) : i \in Window'}
        /\ \A k \in DOMAIN counts' : counts'[k] = Cardinality(At(k))
    <3>1. CASE a.kind = "pawn"
      <4>1. Window' = Window \cup {ply + 2} /\ ply + 2 \notin Window /\ Window \subseteq 1 .. ply + 1
        BY <1>1, <1>2, <1>5, <3>1
      <4>2. \A i \in Window : h[i] = g[i]
        BY <1>3, <4>1
      <4>3. counts' = CountOnce(counts, key)
        BY <1>2, <3>1 DEF key
      <4>4. DOMAIN counts' = DOMAIN counts \cup {key}
        BY <4>3 DEF CountOnce
      <4>5. DOMAIN counts = {PositionKey(h[i]) : i \in Window}
        BY <4>2 DEF Trail, CountsOf
      <4>6. DOMAIN counts' = {PositionKey(h[i]) : i \in Window'}
        BY <2>1, <4>1, <4>4, <4>5
      <4>7. ASSUME NEW k \in DOMAIN counts'
            PROVE  counts'[k] = Cardinality(At(k))
        <5> DEFINE before == Seen(g, k)
        <5>1. before = {i \in Window : PositionKey(h[i]) = k}
          BY <4>2 DEF Seen
        <5>2. IsFiniteSet(before)
          <6>1. IsFiniteSet(Window)
            BY <1>1, FS_Interval DEF Window
          <6>2. QED
            BY <5>1, <6>1, FS_Subset
        <5>3. CountIn(counts, k) = Cardinality(before)
          <6>1. CASE k \in DOMAIN counts
            BY <6>1 DEF CountIn, Trail, CountsOf
          <6>2. CASE k \notin DOMAIN counts
            <7>1. before = {}
              BY <4>5, <5>1, <6>2
            <7>2. QED
              BY <6>2, <7>1, FS_EmptySet DEF CountIn
          <6>3. QED
            BY <6>1, <6>2
        <5>4. CASE k = key
          <6>1. At(k) = before \cup {ply + 2} /\ ply + 2 \notin before
            BY <2>1, <4>1, <5>1, <5>4
          <6> HIDE DEF before, At
          <6>2. Cardinality(At(k)) = Cardinality(before) + 1
            BY <5>2, <6>1, FS_AddElement
          <6>3. counts'[k] = CountIn(counts, k) + 1
            BY <4>3, <5>4 DEF CountOnce
          <6>4. QED
            BY <5>3, <6>2, <6>3
        <5>5. CASE k # key
          <6>1. At(k) = before
            BY <2>1, <4>1, <5>1, <5>5
          <6>2. counts'[k] = counts[k] /\ k \in DOMAIN counts
            BY <4>3, <4>4, <5>5 DEF CountOnce
          <6>3. QED
            BY <5>3, <6>1, <6>2 DEF CountIn
        <5>6. QED
          BY <5>4, <5>5
      <4>8. QED
        BY <4>6, <4>7
    <3>2. CASE a.kind = "wall"
      <4>1. Window' = {ply + 2}
        BY <1>1, <1>2, <1>5, <3>2
      <4>2. counts' = CountOnce(NoCounts, key)
        BY <1>2, <3>2 DEF key
      <4>3. DOMAIN counts' = {key} /\ counts'[key] = 1
        BY <4>2 DEF CountOnce, NoCounts, CountIn
      <4>4. At(key) = {ply + 2}
        BY <2>1, <4>1
      <4>5. Cardinality({ply + 2}) = 1
        BY FS_Singleton
      <4>6. QED
        BY <2>1, <4>1, <4>3, <4>4, <4>5
    <3>3. QED
      BY <1>2, <3>1, <3>2
  <2>4. \A i : PositionKey(h[i])' = PositionKey(h[i])
    BY DEF PositionKey
  <2> HIDE DEF At
  <2>5. QED
    BY <2>2, <2>3, <2>4 DEF CountsOf
<1>9. MovesOf(h)'
  <2>1. ASSUME NEW i \in Window', i <= ply'
        PROVE  /\ h[i + 1].pawns[h[i].turn] # h[i].pawns[h[i].turn]
               /\ h[i + 1].pawns[Other(h[i].turn)] = h[i].pawns[Other(h[i].turn)]
    <3>1. a.kind = "pawn" /\ i \in Window
      BY <1>1, <1>2, <1>5, <2>1
    <3>2. CASE i <= ply
      <4>1. i + 1 \in 1 .. ply + 1 /\ i \in 1 .. ply + 1
        BY <1>1, <1>5, <3>1, <3>2
      <4>2. h[i] = g[i] /\ h[i + 1] = g[i + 1]
        BY <1>3, <4>1
      <4>3. QED
        BY <3>1, <3>2, <4>2 DEF Trail, MovesOf
    <3>3. CASE i = ply + 1
      <4>1. h[i] = Position /\ h[i + 1] = Position'
        BY <1>1, <1>3, <3>3
      <4>2. turn \in Players /\ Other(turn) \in Players /\ turn # Other(turn) /\ pawns \in [Players -> Cells]
        BY <1>1 DEF TypeOK, Players, Other
      <4>3. pawns' = [pawns EXCEPT ![turn] = a.to] /\ a.to # pawns[turn]
        BY <1>2, <3>1
      <4>4. /\ h[i].turn = turn /\ h[i].pawns = pawns /\ h[i + 1].pawns = pawns'
        BY <1>4, <4>1
      <4>5. pawns'[turn] # pawns[turn] /\ pawns'[Other(turn)] = pawns[Other(turn)]
        BY <4>2, <4>3
      <4>6. QED
        BY <4>4, <4>5
    <3>4. i \in Int /\ i <= ply + 1
      BY <1>1, <1>5, <2>1, <3>1
    <3>5. i <= ply \/ i = ply + 1
      BY <1>1, <3>4
    <3>6. QED
      BY <3>2, <3>3, <3>5
  <2>2. \A p : Other(p)' = Other(p)
    BY DEF Other
  <2>3. QED
    BY <2>1, <2>2 DEF MovesOf
<1>10. UndecidedBefore(h)'
  <2>1. \A p \in Players : ~AtGoal(pawns, p)
    <3>1. ~AtGoal(pawns, turn) /\ ~AtGoal(pawns, Other(turn))
      BY DEF Inductive, ResultIsDecided, Ongoing
    <3>2. QED
      BY <1>1, <3>1 DEF TypeOK, Players, Other
  <2>2. ASSUME NEW i \in 1 .. ply + 1, NEW p \in Players
        PROVE  ~AtGoal(h[i].pawns, p)
    <3>1. CASE i = ply + 1
      BY <1>3, <1>4, <2>1, <3>1
    <3>2. CASE i \in 1 .. ply
      BY <1>3, <3>2 DEF Trail, UndecidedBefore
    <3>3. i = ply + 1 \/ i \in 1 .. ply
      BY <1>1
    <3>4. QED
      BY <3>1, <3>2, <3>3
  <2>3. QED
    BY <1>1, <2>2 DEF UndecidedBefore, AtGoal
<1>11. ReachOf(h)'
  <2> DEFINE Moves(n, p) == CompletedActions(n)[p]
  <2>1. \A n \in Nat, p \in Players : Moves(n, p) \in Nat
    BY TurnArithmetic
  <2>2. /\ turn \in Players /\ Other(turn) \in Players /\ \A p \in Players : p = turn \/ p = Other(turn)
        /\ turn # Other(turn) /\ pawns \in [Players -> Cells] /\ pawns' \in [Players -> Cells]
    BY <1>1 DEF TypeOK, Players, Other
  <2>3. Moves(ply + 1, turn) = Moves(ply, turn) + 1 /\ Moves(ply + 1, Other(turn)) = Moves(ply, Other(turn))
    BY <1>1, TurnArithmetic
  <2>4. \A p \in Players : Moves(historyStartPly, p) <= Moves(ply + 1, p)
    BY <1>1 DEF CompletedActions
  <2>5. \A x, y \in Cells : Distance(x, y) \in Int /\ Distance(x, x) = 0
    BY CellShape DEF Distance, Abs
  <2> HIDE DEF Moves
  <2>6. ASSUME NEW i \in Window', NEW p \in Players
        PROVE  Distance(h[i].pawns[p], pawns'[p]) <= 2 * (Moves(ply + 1, p) - Moves(historyStartPly', p))
    <3>1. CASE i = ply + 2
      <4>1. Distance(h[i].pawns[p], pawns'[p]) = 0
        BY <1>3, <1>4, <2>2, <2>5, <3>1
      <4>2. Moves(historyStartPly', p) <= Moves(ply + 1, p)
        <5>1. Moves(ply + 1, p) \in Nat
          BY <1>1, <2>1
        <5>2. QED
          BY <1>2, <2>4, <5>1
      <4>3. Moves(historyStartPly', p) \in Nat /\ Moves(ply + 1, p) \in Nat
        BY <1>1, <1>2, <2>1
      <4>4. QED
        BY <4>1, <4>2, <4>3
    <3>2. CASE i # ply + 2
      <4>1. a.kind = "pawn" /\ i \in Window
        BY <1>1, <1>2, <1>5, <3>2
      <4>2. historyStartPly' = historyStartPly /\ pawns' = [pawns EXCEPT ![turn] = a.to] /\ a.to \in PawnDestinations(Position)
        BY <1>2, <4>1
      <4>3. h[i] = g[i] /\ g[i] \in Positions
        BY <1>1, <1>3, <1>5, <4>1
      <4> DEFINE x == g[i].pawns[p]
      <4>4. x \in Cells /\ pawns[p] \in Cells
        BY <2>2, <4>3 DEF Positions
      <4>5. Distance(x, pawns[p]) <= 2 * (Moves(ply, p) - Moves(historyStartPly, p))
        BY <4>1 DEF Trail, ReachOf, Moves
      <4> HIDE DEF x
      <4>6. /\ Moves(ply, p) \in Nat /\ Moves(ply + 1, p) \in Nat /\ Moves(historyStartPly, p) \in Nat
            /\ Distance(x, pawns[p]) \in Int
        <5>1. ply + 1 \in Nat
          BY <1>1
        <5>2. Distance(x, pawns[p]) \in Int
          BY <2>5, <4>4
        <5>3. QED
          BY <1>1, <2>1, <5>1, <5>2
      <4>7. CASE p = turn
        <5>1. Distance(x, a.to) <= Distance(x, pawns[p]) + 2 /\ a.to \in Cells
          BY <1>1, <4>2, <4>4, <4>7, PositionTyped, DestinationDistance
        <5>2. Distance(x, a.to) \in Int
          BY <2>5, <4>4, <5>1
        <5>3. Moves(ply + 1, p) = Moves(ply, p) + 1
          BY <2>3, <4>7
        <5>4. Distance(x, a.to) <= 2 * (Moves(ply + 1, p) - Moves(historyStartPly, p))
          BY <4>5, <4>6, <5>1, <5>2, <5>3
        <5>5. pawns'[p] = a.to
          BY <2>2, <4>2, <4>7
        <5>6. QED
          BY <4>2, <4>3, <5>4, <5>5 DEF x
      <4>8. CASE p = Other(turn)
        <5>1. pawns'[p] = pawns[p] /\ Moves(ply + 1, p) = Moves(ply, p)
          BY <2>2, <2>3, <4>2, <4>8
        <5>2. QED
          BY <4>2, <4>3, <4>5, <5>1 DEF x
      <4>9. QED
        BY <2>2, <4>7, <4>8
    <3>3. QED
      BY <3>1, <3>2
  <2>7. \A n, p : CompletedActions(n)'[p] = CompletedActions(n)[p]
    BY DEF CompletedActions
  <2>8. QED
    BY <1>1, <2>6, <2>7 DEF ReachOf, Moves, CompletedActions, Distance, Abs
<1>12. QED
  BY <1>6, <1>7, <1>8, <1>9, <1>10, <1>11 DEF Trail

\* A game begins as one position.
LEMMA TrailBegins ==
  ASSUME Init, NEW CONSTANT g, g = <<InitialPosition>>
  PROVE  Trail(g)
<1> DEFINE key == PositionKey(InitialPosition)
<1>1. /\ ply = 0 /\ historyStartPly = 0 /\ Position = InitialPosition /\ turn = FirstPlayer /\ walls = {}
      /\ pawns = Start /\ stock = InitialStock /\ counts = CountOnce(NoCounts, key)
  BY DEF Init, Position, InitialPosition
<1>2. /\ InitialPosition.pawns = Start /\ InitialPosition.walls = {} /\ InitialPosition.stock = InitialStock
      /\ InitialPosition.turn = FirstPlayer /\ InitialPosition \in Positions
  <2>1. /\ Start \in [Players -> Cells] /\ InitialStock \in [Players -> Nat]
        /\ FirstPlayer \in Players
    BY ConfigAssumption DEF Start, Cells, Players, InitialStock
  <2>2. QED
    BY <2>1 DEF InitialPosition, Positions
<1>3. Len(g) = 1 /\ g[1] = InitialPosition /\ g \in Seq(Positions)
  BY <1>2
<1>4. 1 .. ply + 1 = {1} /\ Window = {1} /\ 1 .. ply = {}
  BY <1>1 DEF Window
<1>5. ExpectedTurn(0) = FirstPlayer
  BY DEF ExpectedTurn
<1>6. LineOf(g)
  BY <1>1, <1>2, <1>3, <1>4, <1>5, InitialIsNormal DEF LineOf
<1>7. WindowOf(g)
  BY <1>1, <1>2, <1>3, <1>4 DEF WindowOf
<1>8. CountsOf(g)
  <2> HIDE DEF key
  <2>1. DOMAIN counts = {key} /\ counts[key] = 1
    BY <1>1 DEF CountOnce, NoCounts, CountIn
  <2>2. Seen(g, key) = {1}
    BY <1>3, <1>4 DEF Seen, key
  <2>3. Cardinality({1}) = 1
    BY FS_Singleton
  <2>4. {PositionKey(g[i]) : i \in Window} = {key}
    BY <1>3, <1>4 DEF key
  <2>5. QED
    BY <2>1, <2>2, <2>3, <2>4 DEF CountsOf
<1>9. MovesOf(g) /\ UndecidedBefore(g)
  BY <1>1, <1>4 DEF MovesOf, UndecidedBefore
<1>10. ReachOf(g)
  <2>1. ASSUME NEW p \in Players
        PROVE  Distance(Start[p], Start[p]) = 0 /\ CompletedActions(0)[p] \in Nat
    <3>1. Start[p] \in Cells
      BY ConfigAssumption DEF Start, Cells, Players
    <3>2. \A x \in Cells : Distance(x, x) = 0
      BY CellShape DEF Distance, Abs
    <3>3. 0 \in Nat
      OBVIOUS
    <3>4. CompletedActions(0)[p] \in Nat
      BY <3>3, TurnArithmetic
    <3>5. QED
      BY <3>1, <3>2, <3>4
  <2>2. QED
    BY <1>1, <1>2, <1>3, <1>4, <2>1 DEF ReachOf
<1>11. QED
  BY <1>6, <1>7, <1>8, <1>9, <1>10 DEF Trail

\* The occurrences a table of counts stands for.
OccurrencesIn(table, p) == UNION {{k} \X (1 .. table[k]) : k \in {x \in DOMAIN table : x.turn = p}}

\* What counting one more position does to the occurrences.
LEMMA OneMoreOccurrence ==
  ASSUME NEW table, NEW key, NEW p, \A k \in DOMAIN table : table[k] \in Nat
  PROVE  OccurrencesIn(CountOnce(table, key), p)
           = IF key.turn = p THEN OccurrencesIn(table, p) \cup {<<key, CountIn(table, key) + 1>>}
                             ELSE OccurrencesIn(table, p)
<1> DEFINE one == CountOnce(table, key)
           all(t) == OccurrencesIn(t, p)
<1>1. /\ DOMAIN one = DOMAIN table \cup {key} /\ one[key] = CountIn(table, key) + 1
      /\ \A k \in DOMAIN table : k # key => one[k] = table[k]
  BY DEF CountOnce
<1>2. CountIn(table, key) \in Nat /\ (key \in DOMAIN table => table[key] = CountIn(table, key))
      /\ (key \notin DOMAIN table => CountIn(table, key) = 0)
  BY DEF CountIn
<1>3. 1 .. CountIn(table, key) + 1 = (1 .. CountIn(table, key)) \cup {CountIn(table, key) + 1}
  BY <1>2
<1> HIDE DEF one
<1>4. ASSUME NEW e
      PROVE  e \in all(one) <=> \/ e \in all(table)
                                \/ key.turn = p /\ e = <<key, CountIn(table, key) + 1>>
  <2>1. \A t : e \in all(t) <=> \E k \in DOMAIN t : k.turn = p /\ e \in {k} \X (1 .. t[k])
    BY DEF OccurrencesIn
  <2> HIDE DEF all
  <2> DEFINE c == CountIn(table, key)
  <2>2. e \in {key} \X (1 .. c + 1) <=> e \in {key} \X (1 .. c) \/ e = <<key, c + 1>>
    BY <1>3
  <2>3. c = 0 => {key} \X (1 .. c) = {}
    OBVIOUS
  <2> HIDE DEF c
  <2>4. ASSUME e \in all(one)
        PROVE  e \in all(table) \/ (key.turn = p /\ e = <<key, c + 1>>)
    <3>1. PICK k \in DOMAIN one : k.turn = p /\ e \in {k} \X (1 .. one[k])
      BY <2>1, <2>4
    <3>2. CASE k = key
      <4>1. e \in {key} \X (1 .. c) \/ e = <<key, c + 1>>
        BY <1>1, <2>2, <3>1, <3>2 DEF c
      <4>2. e \in {key} \X (1 .. c) => key \in DOMAIN table /\ table[key] = c
        BY <1>2, <2>3 DEF c
      <4>3. QED
        BY <2>1, <3>1, <3>2, <4>1, <4>2
    <3>3. CASE k # key
      BY <1>1, <2>1, <3>1, <3>3
    <3>4. QED
      BY <3>2, <3>3
  <2>5. ASSUME e \in all(table)
        PROVE  e \in all(one)
    <3>1. PICK k \in DOMAIN table : k.turn = p /\ e \in {k} \X (1 .. table[k])
      BY <2>1, <2>5
    <3>2. CASE k = key
      <4>1. table[k] = c /\ one[k] = c + 1
        BY <1>1, <1>2, <3>2 DEF c
      <4>2. e \in {k} \X (1 .. one[k])
        BY <2>2, <3>1, <3>2, <4>1
      <4>3. QED
        BY <1>1, <2>1, <3>1, <4>2
    <3>3. CASE k # key
      BY <1>1, <2>1, <3>1, <3>3
    <3>4. QED
      BY <3>2, <3>3
  <2>6. ASSUME key.turn = p, e = <<key, c + 1>>
        PROVE  e \in all(one)
    <3>1. e \in {key} \X (1 .. c + 1)
      BY <2>2, <2>6
    <3>2. QED
      BY <1>1, <2>1, <2>6, <3>1 DEF c
  <2>7. QED
    BY <2>4, <2>5, <2>6 DEF c
<1>5. QED
  BY <1>4 DEF one

\* Turns alternate from any ply on.
LEMMA TurnParity ==
  ASSUME NEW n \in Nat, NEW m \in Nat
  PROVE  /\ ExpectedTurn(n) \in Players /\ Other(ExpectedTurn(n)) # ExpectedTurn(n)
         /\ ExpectedTurn(n + m) = IF m % 2 = 0 THEN ExpectedTurn(n) ELSE Other(ExpectedTurn(n))
<1>1. FirstPlayer \in Players /\ Other(FirstPlayer) \in Players
      /\ Other(Other(FirstPlayer)) = FirstPlayer /\ Other(FirstPlayer) # FirstPlayer
  BY ConfigAssumption DEF Players, Other
<1>2. \/ n % 2 = 0 /\ m % 2 = 0 /\ (n + m) % 2 = 0
      \/ n % 2 = 0 /\ m % 2 = 1 /\ (n + m) % 2 = 1
      \/ n % 2 = 1 /\ m % 2 = 0 /\ (n + m) % 2 = 1
      \/ n % 2 = 1 /\ m % 2 = 1 /\ (n + m) % 2 = 0
  OBVIOUS
<1>3. QED
  BY <1>1, <1>2 DEF ExpectedTurn


\* The occurrences of n + 1 positions, the first of them of first's turn.
Alternates(table, n, first) ==
  /\ \A p \in Players : IsFiniteSet(OccurrencesIn(table, p))
  /\ Cardinality(OccurrencesIn(table, first)) = (n + 2) \div 2
  /\ Cardinality(OccurrencesIn(table, Other(first))) = (n + 1) \div 2

\* Counting the position after them keeps the turns alternating.
LEMMA AlternatesOn ==
  ASSUME NEW table, NEW key, \A k \in DOMAIN table : table[k] \in Nat,
         NEW n \in Nat, NEW first \in Players, Alternates(table, n, first),
         key.turn = IF (n + 1) % 2 = 0 THEN first ELSE Other(first)
  PROVE  Alternates(CountOnce(table, key), n + 1, first)
<1> DEFINE one == CountOnce(table, key)
           new == <<key, CountIn(table, key) + 1>>
<1>1. Other(first) # first /\ Other(first) \in Players
  BY DEF Players, Other
<1>2. \A p \in Players : new \notin OccurrencesIn(table, p)
  <2>1. ASSUME NEW p \in Players, new \in OccurrencesIn(table, p)
        PROVE  FALSE
    <3>1. PICK k \in DOMAIN table : new \in {k} \X (1 .. table[k])
      BY <2>1 DEF OccurrencesIn
    <3>2. k = key /\ CountIn(table, key) + 1 \in 1 .. table[key]
      BY <3>1
    <3>3. CountIn(table, key) = table[key] /\ table[key] \in Nat
      BY <3>1, <3>2 DEF CountIn
    <3>4. QED
      BY <3>2, <3>3
  <2>2. QED
    BY <2>1
<1>3. \A p \in Players : OccurrencesIn(one, p) = IF key.turn = p THEN OccurrencesIn(table, p) \cup {new}
                                                                 ELSE OccurrencesIn(table, p)
  BY OneMoreOccurrence
<1> HIDE DEF one, new
<1>4. ASSUME NEW p \in Players
      PROVE  /\ IsFiniteSet(OccurrencesIn(one, p))
             /\ Cardinality(OccurrencesIn(one, p))
                  = IF key.turn = p THEN Cardinality(OccurrencesIn(table, p)) + 1
                                    ELSE Cardinality(OccurrencesIn(table, p))
  <2>1. IsFiniteSet(OccurrencesIn(table, p))
    BY DEF Alternates
  <2>2. /\ IsFiniteSet(OccurrencesIn(table, p) \cup {new})
        /\ Cardinality(OccurrencesIn(table, p) \cup {new}) = Cardinality(OccurrencesIn(table, p)) + 1
    BY <1>2, <2>1, FS_AddElement
  <2>3. QED
    BY <1>3, <2>1, <2>2
<1>5. \/ (n + 1) % 2 = 0 /\ (n + 3) \div 2 = (n + 2) \div 2 + 1 /\ (n + 2) \div 2 = (n + 1) \div 2
      \/ (n + 1) % 2 = 1 /\ (n + 3) \div 2 = (n + 2) \div 2 /\ (n + 2) \div 2 = (n + 1) \div 2 + 1
  OBVIOUS
<1>6. /\ Cardinality(OccurrencesIn(one, first)) = (n + 3) \div 2
      /\ Cardinality(OccurrencesIn(one, Other(first))) = (n + 2) \div 2
  BY <1>1, <1>4, <1>5 DEF Alternates
<1>7. (n + 1) + 2 = n + 3 /\ (n + 1) + 1 = n + 2
  OBVIOUS
<1>8. QED
  BY <1>4, <1>6, <1>7 DEF Alternates, one

\* One position is one occurrence.
LEMMA AlternatesOnce ==
  ASSUME NEW key, NEW first \in Players, key.turn = first
  PROVE  Alternates(CountOnce(NoCounts, key), 0, first)
<1> DEFINE one == CountOnce(NoCounts, key)
<1>1. DOMAIN one = {key} /\ one[key] = 1
  BY DEF CountOnce, NoCounts, CountIn
<1> HIDE DEF one
<1>2. OccurrencesIn(one, first) = {<<key, 1>>} /\ \A p : p # first => OccurrencesIn(one, p) = {}
  BY <1>1 DEF OccurrencesIn
<1>3. /\ IsFiniteSet({<<key, 1>>}) /\ Cardinality({<<key, 1>>}) = 1
      /\ IsFiniteSet({}) /\ Cardinality({}) = 0
  BY FS_Singleton, FS_EmptySet
<1>4. Other(first) # first
  BY DEF Players, Other
<1>5. (0 + 2) \div 2 = 1 /\ (0 + 1) \div 2 = 0
  OBVIOUS
<1>6. \A p \in Players : IsFiniteSet(OccurrencesIn(one, p))
  BY <1>2, <1>3
<1>7. QED
  BY <1>2, <1>3, <1>4, <1>5, <1>6 DEF Alternates, one

\* The repetition window holds as many positions of each player as its plies say.
TurnsCounted == Alternates(counts, ply - historyStartPly, ExpectedTurn(historyStartPly))

\* The first position is the one occurrence there is, of the first player's turn.
LEMMA TurnsCountedFirst ==
  ASSUME Init
  PROVE  TurnsCounted
<1> DEFINE key == PositionKey(InitialPosition)
<1>1. counts = CountOnce(NoCounts, key) /\ ply = 0 /\ historyStartPly = 0 /\ key.turn = FirstPlayer
  BY DEF Init, PositionKey, InitialPosition
<1>2. FirstPlayer \in Players /\ ExpectedTurn(0) = FirstPlayer
  BY ConfigAssumption DEF ExpectedTurn
<1> HIDE DEF key
<1>3. Alternates(counts, 0, FirstPlayer)
  BY <1>1, <1>2, AlternatesOnce
<1>4. ply - historyStartPly = 0
  BY <1>1
<1>5. QED
  BY <1>1, <1>2, <1>3, <1>4 DEF TurnsCounted

\* A ply counts one occurrence for the player whose turn comes.
LEMMA TurnsCountedStep ==
  ASSUME Inductive, TurnsCounted, outcome = Ongoing,
         NEW a \in Actions, IsTrustedActionLegal(Position, a), ApplyTrustedAction(a)
  PROVE  TurnsCounted'
<1> DEFINE key == PositionKey(Position)'
           n == ply - historyStartPly
           first == ExpectedTurn(historyStartPly)
<1>1. /\ TypeOK /\ ply \in Nat /\ historyStartPly \in Nat /\ historyStartPly <= ply
      /\ ply' = ply + 1 /\ turn' = ExpectedTurn(ply + 1) /\ turn' \in Players
      /\ \/ historyStartPly' = historyStartPly /\ counts' = CountOnce(counts, key)
         \/ historyStartPly' = ply + 1 /\ counts' = CountOnce(NoCounts, key)
  BY PlyOf DEF TypeOK
<1>2. key.turn = turn'
  BY DEF PositionKey, Position
<1>3. \A k \in DOMAIN counts : counts[k] \in Nat
  BY <1>1 DEF TypeOK
<1>4. TurnsCounted' <=> Alternates(counts', ply' - historyStartPly', ExpectedTurn(historyStartPly'))
  BY DEF TurnsCounted, Alternates, OccurrencesIn, ExpectedTurn, Other, Players
<1> HIDE DEF key
<1>5. CASE historyStartPly' = historyStartPly /\ counts' = CountOnce(counts, key)
  <2>1. n \in Nat /\ n + 1 \in Nat /\ historyStartPly + (n + 1) = ply + 1
    BY <1>1
  <2>2. first \in Players /\ turn' = IF (n + 1) % 2 = 0 THEN first ELSE Other(first)
    BY <1>1, <2>1, TurnParity
  <2>3. Alternates(counts, n, first)
    BY DEF TurnsCounted
  <2>4. ply' - historyStartPly' = n + 1
    BY <1>1, <1>5
  <2> HIDE DEF n, first
  <2>5. Alternates(counts', n + 1, first)
    BY <1>2, <1>3, <1>5, <2>1, <2>2, <2>3, AlternatesOn
  <2>6. QED
    BY <1>4, <1>5, <2>4, <2>5 DEF first
<1>6. CASE historyStartPly' = ply + 1 /\ counts' = CountOnce(NoCounts, key)
  <2>1. Alternates(counts', 0, turn')
    BY <1>1, <1>2, <1>6, AlternatesOnce
  <2>2. ply' - historyStartPly' = 0
    BY <1>1, <1>6
  <2>3. QED
    BY <1>1, <1>4, <1>6, <2>1, <2>2
<1>7. QED
  BY <1>1, <1>5, <1>6

\* A first ply is one that the initial position allows.
LEMMA FirstPlyStep ==
  ASSUME Inductive, outcome = Ongoing, NEW a \in Actions, IsTrustedActionLegal(Position, a), ApplyTrustedAction(a),
         NEW CONSTANT g, LineOf(g)
  PROVE  FirstPlyIsLegal'
<1>1. SUFFICES ASSUME ply' = 1
               PROVE  LET other == Other(FirstPlayer)
                      IN \/ /\ walls' = {}
                            /\ pawns'[other] = Start[other]
                            /\ pawns'[FirstPlayer] \in PawnDestinations(InitialPosition)
                         \/ /\ Cardinality(walls') = 1
                            /\ pawns' = Start
                            /\ stock'[FirstPlayer] = InitialStock[FirstPlayer] - 1
                            /\ stock'[other] = InitialStock[other]
                            /\ \A w \in walls' : IsLegalWall(InitialPosition, w)
  BY DEF FirstPlyIsLegal, Other
<1>2. ply \in Nat /\ ply = 0 /\ TypeOK
  BY <1>1, PlyOf
<1>3. Position = InitialPosition
  BY <1>2 DEF LineOf
<1>4. pawns = Start /\ walls = {} /\ stock = InitialStock /\ turn = FirstPlayer
  BY <1>3 DEF Position, InitialPosition
<1>5. FirstPlayer \in Players /\ Other(FirstPlayer) \in Players /\ Other(FirstPlayer) # FirstPlayer
      /\ DOMAIN Start = Players /\ DOMAIN InitialStock = Players
  BY ConfigAssumption DEF Players, Other, Start, InitialStock
<1>6. \/ /\ walls' = walls
         /\ pawns' = [pawns EXCEPT ![turn] = a.to] /\ a.to \in PawnDestinations(Position)
      \/ /\ pawns' = pawns /\ walls' = walls \cup {a.wall} /\ IsLegalWall(Position, a.wall)
         /\ stock' = [stock EXCEPT ![turn] = @ - 1]
  BY PlyOf
<1>7. CASE /\ walls' = walls
           /\ pawns' = [pawns EXCEPT ![turn] = a.to] /\ a.to \in PawnDestinations(Position)
  BY <1>3, <1>4, <1>5, <1>7
<1>8. CASE /\ pawns' = pawns /\ walls' = walls \cup {a.wall} /\ IsLegalWall(Position, a.wall)
           /\ stock' = [stock EXCEPT ![turn] = @ - 1]
  <2>1. walls' = {a.wall} /\ Cardinality({a.wall}) = 1
    BY <1>4, <1>8, FS_Singleton
  <2>2. /\ stock'[FirstPlayer] = InitialStock[FirstPlayer] - 1
        /\ stock'[Other(FirstPlayer)] = InitialStock[Other(FirstPlayer)]
    BY <1>4, <1>5, <1>8
  <2>3. \A w \in walls' : IsLegalWall(InitialPosition, w)
    BY <1>3, <1>8, <2>1
  <2>4. QED
    BY <1>4, <1>8, <2>1, <2>2, <2>3
<1>9. QED
  BY <1>6, <1>7, <1>8

\* The outcome is what adjudicate gives the record, whoever stands on a goal.
OutcomeFollows ==
  LET winner == {p \in Players : AtGoal(pawns, p)}
  IN outcome = IF ply = 0 THEN Ongoing
               ELSE Adjudicate(IF winner = {} THEN "none" ELSE CHOOSE p \in winner : TRUE,
                               counts[PositionKey(Position)], ply)

\* applyTrustedAction leaves that outcome: only the pawn that moved can be on its goal.
LEMMA OutcomeStep ==
  ASSUME Inductive, outcome = Ongoing, NEW a \in Actions, IsTrustedActionLegal(Position, a), ApplyTrustedAction(a)
  PROVE  OutcomeFollows'
<1> DEFINE winner == {p \in Players : AtGoal(pawns', p)}
           key == PositionKey(Position)'
<1>1. /\ outcome' = Adjudicate(IF AtGoal(pawns', turn) THEN turn ELSE "none", counts'[key], ply + 1)
  <2>1. /\ Position' = After(a) /\ pawns' = After(a).pawns
        /\ outcome' = Adjudicate(IF After(a).pawns[turn][1] = GoalRow[turn] THEN turn ELSE "none",
                                 counts'[PositionKey(After(a))], ply + 1)
    BY ActionEffect
  <2>2. key = PositionKey(After(a))
    BY <2>1 DEF PositionKey
  <2>3. QED
    BY <2>1, <2>2 DEF AtGoal
<1>2. ply \in Nat /\ ply' = ply + 1 /\ turn' = Other(turn) /\ turn \in Players
  BY PlyOf DEF TypeOK
<1>3. ~AtGoal(pawns', Other(turn))
  <2>1. ResultIsDecided'
    BY ResultStep
  <2>2. ~AtGoal(pawns', turn')
    BY <2>1 DEF ResultIsDecided, AtGoal
  <2>3. QED
    BY <1>2, <2>2
<1>4. winner = IF AtGoal(pawns', turn) THEN {turn} ELSE {}
  BY <1>2, <1>3 DEF Players, Other
<1>5. (IF winner = {} THEN "none" ELSE CHOOSE p \in winner : TRUE)
        = IF AtGoal(pawns', turn) THEN turn ELSE "none"
  BY <1>4
<1>6. ply' # 0
  BY <1>2
<1>7. OutcomeFollows' <=> outcome' = IF ply' = 0 THEN Ongoing
               ELSE Adjudicate(IF winner = {} THEN "none" ELSE CHOOSE p \in winner : TRUE, counts'[key], ply')
  BY DEF OutcomeFollows, AtGoal, PositionKey, Players, Adjudicate, Ongoing
<1> HIDE DEF winner, key
<1>8. QED
  BY <1>1, <1>2, <1>5, <1>6, <1>7

(* ---- The repetition counts ------------------------------------------------- *)

\* A position comes back only after both players have moved away and returned.
LEMMA SeenApart ==
  ASSUME TypeOK, NEW g, LineOf(g), MovesOf(g),
         NEW i \in Window, NEW j \in Window, i < j, PositionKey(g[i]) = PositionKey(g[j])
  PROVE  j - i >= 4
<1>1. /\ ply \in Nat /\ historyStartPly \in Nat /\ i \in Nat /\ j \in Nat /\ i >= 1 /\ j >= 1
      /\ i \in 1 .. ply + 1 /\ j \in 1 .. ply + 1
  BY DEF TypeOK, Window
<1>2. g[i] \in Positions /\ g[j] \in Positions
  BY <1>1 DEF LineOf
<1>3. g[i] = g[j]
  BY <1>2, KeyInjective
<1> DEFINE first == ExpectedTurn(i - 1)
<1>4. g[i].turn = first /\ g[j].turn = ExpectedTurn(j - 1)
  BY <1>1 DEF LineOf
<1>5. (j - i) % 2 = 0
  <2>1. i - 1 \in Nat /\ j - i \in Nat /\ (i - 1) + (j - i) = j - 1
    BY <1>1
  <2>2. Other(first) # first /\ ExpectedTurn((i - 1) + (j - i)) = IF (j - i) % 2 = 0 THEN first ELSE Other(first)
    BY <2>1, TurnParity
  <2>3. QED
    BY <1>3, <1>4, <2>1, <2>2
<1>6. j - i # 2
  <2>1. SUFFICES ASSUME j = i + 2 PROVE FALSE
    BY <1>1
  <2>2. i + 1 \in Window /\ i + 1 \in 1 .. ply + 1 /\ i <= ply /\ i + 1 <= ply
    BY <1>1, <2>1 DEF Window
  <2>3. g[i + 1].turn = Other(first) /\ first \in Players
    <3>1. i - 1 \in Nat /\ (i + 1) - 1 = (i - 1) + 1
      BY <1>1
    <3>2. g[i + 1].turn = ExpectedTurn((i + 1) - 1)
      BY <2>2 DEF LineOf
    <3>3. QED
      BY <3>1, <3>2, TurnArithmetic
  <2>4. Other(Other(first)) = first
    BY <2>3 DEF Players, Other
  <2>5. g[i + 1].pawns[first] # g[i].pawns[first]
    BY <1>4, <2>2 DEF MovesOf
  <2>6. g[(i + 1) + 1].pawns[first] = g[i + 1].pawns[first]
    BY <2>2, <2>3, <2>4 DEF MovesOf
  <2>7. (i + 1) + 1 = j
    BY <1>1, <2>1
  <2>8. QED
    BY <1>3, <2>5, <2>6, <2>7
<1>7. QED
  BY <1>1, <1>5, <1>6

\* So a position fits in the window no more often than every fourth ply.
LEMMA SeenSeldom ==
  ASSUME TypeOK, historyStartPly <= ply, NEW g, LineOf(g), MovesOf(g), NEW k
  PROVE  /\ IsFiniteSet(Seen(g, k)) /\ Cardinality(Seen(g, k)) \in Nat
         /\ Cardinality(Seen(g, k)) <= 1 + (ply - historyStartPly) \div 4
<1> DEFINE n == ply - historyStartPly
           S == Seen(g, k)
           T == 0 .. n \div 4
           f == [i \in S |-> (i - historyStartPly - 1) \div 4]
<1>1. ply \in Nat /\ historyStartPly \in Nat /\ n \in Nat
  BY DEF TypeOK
<1>2. S \subseteq Window /\ Window \subseteq Nat
  BY <1>1 DEF Seen, Window
<1>3. IsFiniteSet(T) /\ Cardinality(T) = 1 + n \div 4 /\ n \div 4 \in Nat
  <2>1. n \div 4 \in Nat
    BY <1>1
  <2>2. QED
    BY <2>1, FS_Interval
<1>4. f \in [S -> T]
  <2>1. ASSUME NEW i \in S PROVE (i - historyStartPly - 1) \div 4 \in T
    <3>1. i \in historyStartPly + 1 .. ply + 1
      BY <1>2 DEF Window
    <3>2. i - historyStartPly - 1 \in 0 .. n
      BY <1>1, <3>1
    <3> DEFINE x == i - historyStartPly - 1
    <3>3. x \in Int /\ 0 <= x /\ x <= n
      BY <1>1, <3>2
    <3> HIDE DEF x, n
    <3>4. x \div 4 \in 0 .. n \div 4
      BY <1>1, <3>3
    <3>5. QED
      BY <3>4 DEF x
  <2>2. QED
    BY <2>1
<1>5. \A i, j \in S : f[i] = f[j] => i = j
  <2>1. ASSUME NEW i \in S, NEW j \in S, i < j PROVE f[i] # f[j]
    <3>1. i \in Window /\ j \in Window /\ PositionKey(g[i]) = PositionKey(g[j])
      BY <1>2, <2>1 DEF Seen
    <3>2. j - i >= 4
      BY <2>1, <3>1, SeenApart
    <3>3. (i - historyStartPly - 1) \div 4 # (j - historyStartPly - 1) \div 4
      BY <1>1, <1>2, <3>1, <3>2
    <3>4. QED
      BY <3>3
  <2>2. \A i, j \in S : i \in Nat /\ j \in Nat
    BY <1>2
  <2>3. \A i, j \in S : i = j \/ i < j \/ j < i
    BY <2>2
  <2>4. QED
    BY <2>1, <2>3
<1>6. IsFiniteSet(S) /\ Cardinality(S) <= Cardinality(T)
  <2> HIDE DEF f, S, T
  <2>1. f \in Injection(S, T)
    BY <1>4, <1>5 DEF Injection, IsInjective
  <2>2. QED
    BY <1>3, <2>1, FS_Injection
<1>7. QED
  BY <1>3, <1>6, FS_CardinalityType

\* What a game leaves behind it, as an invariant of its record.
Whole(g) == Inductive /\ Trail(g) /\ TurnsCounted /\ FirstPlyIsLegal /\ OutcomeFollows

\* The positions of the window are those its keys tell.
LEMMA WindowTold ==
  ASSUME TypeOK, NEW g, Trail(g), NEW k \in DOMAIN counts
  PROVE  \E i \in Window : /\ PositionFromKey(k) = g[i] /\ PositionKey(g[i]) = k
                           /\ g[i] \in Positions /\ i \in Seen(g, k) /\ i \in 1 .. ply + 1
<1>1. PICK i \in Window : PositionKey(g[i]) = k
  BY DEF Trail, CountsOf
<1>2. i \in 1 .. ply + 1
  BY DEF Window, TypeOK
<1>3. g[i] \in Positions
  BY <1>2 DEF Trail, LineOf, TypeOK
<1>4. QED
  BY <1>1, <1>2, <1>3, KeyTellsPosition DEF Seen

\* The window of such a record is consistent, as validateState asks.
LEMMA WindowHolds ==
  ASSUME NEW CONSTANT g, Whole(g)
  PROVE  WindowIsConsistent
<1> DEFINE key == PositionKey(Position)
           first == ExpectedTurn(historyStartPly)
           moves == [p \in Players |-> CompletedActions(ply)[p] - CompletedActions(historyStartPly)[p]]
           n == ply - historyStartPly
<1>1. /\ TypeOK /\ Trail(g) /\ LineOf(g) /\ WindowOf(g) /\ CountsOf(g) /\ MovesOf(g) /\ ReachOf(g)
      /\ ply \in Nat /\ historyStartPly \in Nat /\ historyStartPly <= ply /\ n \in Nat
  BY DEF Whole, Inductive, Trail, TypeOK, WindowStartsAtLastWall
<1>2. key \in DOMAIN counts
  BY DEF Whole, Inductive, ResultIsDecided
<1>3. ASSUME NEW k \in DOMAIN counts
      PROVE  LET historical == PositionFromKey(k)
             IN /\ Normal(historical) /\ PositionKey(historical) = k
                /\ historical.walls = walls /\ historical.stock = stock
                /\ counts[k] >= 1
                /\ counts[k] <= 1 + (HistoryLength - 1) \div 4
                /\ \A p \in Players : Distance(historical.pawns[p], pawns[p]) <= 2 * moves[p]
  <2>1. PICK i \in Window : /\ PositionFromKey(k) = g[i] /\ PositionKey(g[i]) = k
                            /\ i \in Seen(g, k) /\ i \in 1 .. ply + 1
    BY <1>1, WindowTold
  <2>2. Normal(g[i]) /\ g[i].walls = walls /\ g[i].stock = stock
    BY <1>1, <2>1 DEF LineOf, WindowOf
  <2>3. \A p \in Players : Distance(g[i].pawns[p], pawns[p]) <= 2 * moves[p]
    BY <1>1, <2>1 DEF ReachOf
  <2>4. counts[k] = Cardinality(Seen(g, k))
    BY <1>1 DEF CountsOf
  <2>5. /\ IsFiniteSet(Seen(g, k)) /\ counts[k] \in Nat
        /\ counts[k] <= 1 + n \div 4
    BY <1>1, <2>4, SeenSeldom
  <2>6. counts[k] # 0
    BY <2>1, <2>4, <2>5, FS_EmptySet
  <2>7. HistoryLength - 1 = n
    BY <1>1 DEF HistoryLength
  <2>8. counts[k] >= 1
    BY <2>5, <2>6
  <2> HIDE DEF moves, n
  <2>9. counts[k] <= 1 + (HistoryLength - 1) \div 4
    BY <2>5, <2>7
  <2>10. QED
    BY <2>1, <2>2, <2>3, <2>8, <2>9
<1>4. historyStartPly = 0 => PositionKey(InitialPosition) \in DOMAIN counts
  BY <1>1 DEF LineOf, CountsOf, Window
<1>5. TurnCount(first) = (HistoryLength + 1) \div 2 /\ TurnCount(Other(first)) = HistoryLength \div 2
  <2>1. \A p : TurnCount(p) = Cardinality(OccurrencesIn(counts, p))
    BY DEF TurnCount, Occurring, OccurrencesIn
  <2>2. HistoryLength + 1 = n + 2 /\ HistoryLength = n + 1
    BY <1>1 DEF HistoryLength
  <2>3. Alternates(counts, n, first)
    BY DEF Whole, TurnsCounted
  <2> HIDE DEF n, first
  <2>4. QED
    BY <2>1, <2>2, <2>3 DEF Alternates
<1>6. QED
  BY <1>2, <1>3, <1>4, <1>5 DEF WindowIsConsistent

\* Its outcome is the one it has earned.
LEMMA OutcomeHolds ==
  ASSUME NEW CONSTANT g, Whole(g)
  PROVE  OutcomeIsEarned
<1> DEFINE key == PositionKey(Position)
           winner == {p \in Players : AtGoal(pawns, p)}
<1>1. /\ TypeOK /\ Trail(g) /\ LineOf(g) /\ CountsOf(g) /\ UndecidedBefore(g) /\ ply \in Nat
      /\ turn \in Players /\ ResultIsDecided
  BY DEF Whole, Inductive, Trail, TypeOK
<1>2. g[ply + 1] = Position /\ Position.pawns = pawns
  BY <1>1 DEF LineOf, Position
<1>3. Cardinality(winner) <= 1 /\ turn \notin winner
  <2>1. winner = {} \/ winner = {Other(turn)}
    BY <1>1 DEF ResultIsDecided, Players, Other
  <2>2. Cardinality({}) = 0 /\ Cardinality({Other(turn)}) = 1
    BY FS_EmptySet, FS_Singleton
  <2>3. turn \notin winner
    BY <1>1 DEF ResultIsDecided
  <2> HIDE DEF winner
  <2>4. QED
    BY <2>1, <2>2, <2>3
<1>4. ASSUME NEW k \in DOMAIN counts, NEW p \in Players, AtGoal(PositionFromKey(k).pawns, p)
      PROVE  k = key /\ counts[k] = 1
  <2>1. PICK i \in Window : /\ PositionFromKey(k) = g[i] /\ PositionKey(g[i]) = k /\ g[i] \in Positions
                            /\ i \in Seen(g, k) /\ i \in 1 .. ply + 1
    BY <1>1, WindowTold
  <2>2. ASSUME NEW j \in Seen(g, k)
        PROVE  j = ply + 1
    <3>1. j \in Window /\ PositionKey(g[j]) = k
      BY DEF Seen
    <3>2. j \in 1 .. ply + 1
      BY <1>1, <3>1 DEF Window, TypeOK
    <3>3. g[j] \in Positions
      BY <1>1, <3>2 DEF LineOf
    <3>4. g[j] = g[i]
      BY <2>1, <3>1, <3>3, KeyInjective
    <3>5. j \notin 1 .. ply
      BY <1>1, <1>4, <2>1, <3>4 DEF UndecidedBefore
    <3>6. QED
      BY <1>1, <3>2, <3>5
  <2>3. i = ply + 1 /\ Seen(g, k) = {ply + 1}
    BY <2>1, <2>2
  <2>4. counts[k] = Cardinality({ply + 1})
    BY <1>1, <2>3 DEF CountsOf
  <2>5. QED
    BY <1>2, <2>1, <2>3, <2>4, FS_Singleton
<1>5. ply = 0 => key = PositionKey(InitialPosition)
  BY <1>1, <1>2 DEF LineOf
<1>6. ply <= PlyCap /\ counts[key] <= RepetitionThreshold
  BY <1>1 DEF ResultIsDecided
<1>7. \A k \in DOMAIN counts \ {key} : counts[k] < RepetitionThreshold
  <2>1. ASSUME NEW k \in DOMAIN counts, k # key
        PROVE  counts[k] < RepetitionThreshold
    <3>1. counts[k] \in Nat /\ counts[k] <= RepetitionThreshold /\ counts[k] # RepetitionThreshold
      BY <1>1, <2>1 DEF ResultIsDecided, TypeOK
    <3>2. QED
      BY <3>1, ConfigAssumption
  <2>2. QED
    BY <2>1
<1>8. outcome = IF ply = 0 THEN Ongoing
                ELSE Adjudicate(IF winner = {} THEN "none" ELSE CHOOSE p \in winner : TRUE, counts[key], ply)
  BY DEF Whole, OutcomeFollows
<1>9. QED
  BY <1>3, <1>4, <1>5, <1>6, <1>7, <1>8 DEF OutcomeIsEarned

\* So the record is one that validateState accepts.
LEMMA WholeIsValid ==
  ASSUME NEW CONSTANT g, Whole(g)
  PROVE  ValidState
<1>1. Normal(Position)
  <2>1. ply \in Nat /\ Normal(g[ply + 1]) /\ g[ply + 1] = Position
    BY DEF Whole, Inductive, TypeOK, Trail, LineOf
  <2>2. QED
    BY <2>1
<1>2. WindowIsConsistent /\ OutcomeIsEarned
  BY WindowHolds, OutcomeHolds
<1>3. QED
  BY <1>1, <1>2 DEF ValidState, Whole, Inductive

\* A game of one position is whole.
LEMMA WholeFirst ==
  ASSUME Init
  PROVE  Whole(<<InitialPosition>>)
<1>1. Inductive /\ Trail(<<InitialPosition>>) /\ TurnsCounted
  BY InitInductive, TrailBegins, TurnsCountedFirst
<1>2. ply = 0 /\ outcome = Ongoing
  BY DEF Init
<1>3. QED
  BY <1>1, <1>2 DEF Whole, FirstPlyIsLegal, OutcomeFollows

\* A ply makes a whole game of a whole game.
LEMMA WholeStep ==
  ASSUME NEW CONSTANT g, Whole(g), Next, NEW CONSTANT h, h = Append(g, Position')
  PROVE  Whole(h)'
<1>1. Inductive /\ Trail(g) /\ LineOf(g) /\ TurnsCounted /\ TypeOK
  BY DEF Whole, Trail, Inductive
<1>2. PICK a \in Actions : IsTrustedActionLegal(Position, a) /\ ApplyTrustedAction(a)
  BY <1>1, StepIsLegal
<1>3. outcome = Ongoing
  BY <1>1, StepIsLegal
<1>4. Inductive'
  BY <1>1, NextInductive
<1>5. Trail(h)'
  BY <1>1, <1>2, <1>3, TrailGrows
<1>6. TurnsCounted'
  BY <1>1, <1>2, <1>3, TurnsCountedStep
<1>7. FirstPlyIsLegal'
  BY <1>1, <1>2, <1>3, FirstPlyStep
<1>8. OutcomeFollows'
  BY <1>1, <1>2, <1>3, OutcomeStep
<1>9. QED
  BY <1>4, <1>5, <1>6, <1>7, <1>8 DEF Whole

\* It stays whole while nothing is played.
LEMMA WholeStutters ==
  ASSUME NEW CONSTANT g, Whole(g), UNCHANGED vars
  PROVE  Whole(g)'
<1>1. Inductive'
  BY DEF Whole, Inductive, vars, TypeOK, StockIsOnTheBoard, Spent, WindowStartsAtLastWall,
         PawnsWithinReach, ResultIsDecided, AtGoal, Position
<1>2. Window' = Window /\ Position' = Position
  BY DEF vars, Window, Position
<1>3. LineOf(g)' /\ WindowOf(g)' /\ CountsOf(g)' /\ MovesOf(g)' /\ UndecidedBefore(g)' /\ ReachOf(g)'
  BY <1>2 DEF Whole, Trail, vars, LineOf, WindowOf, CountsOf, MovesOf, UndecidedBefore, ReachOf, Seen
<1>4. TurnsCounted' /\ FirstPlyIsLegal' /\ OutcomeFollows'
  BY <1>2 DEF Whole, vars, TurnsCounted, FirstPlyIsLegal, OutcomeFollows
<1>5. QED
  BY <1>1, <1>3, <1>4 DEF Whole, Trail

\* Every record the engine produces passes its own validateState.
THEOREM RecordsAlwaysValidate == Spec => []ValidState
<1> DEFINE Inv == \E g : Whole(g)
<1>1. Init => Inv
  BY WholeFirst
<1>2. Inv /\ [Next]_vars => Inv'
  <2>1. SUFFICES ASSUME NEW CONSTANT g, Whole(g), [Next]_vars
                 PROVE  Inv'
    OBVIOUS
  <2>2. CASE Next
    BY <2>1, <2>2, WholeStep
  <2>3. CASE UNCHANGED vars
    BY <2>1, <2>3, WholeStutters
  <2>4. QED
    BY <2>1, <2>2, <2>3
<1>3. Inv => ValidState
  BY WholeIsValid
<1>4. QED
  BY <1>1, <1>2, <1>3, PTL DEF Spec

(* ---- The outcome and the whole game ----------------------------------------- *)

\* How often a position is in a game, and that only its last is there often enough to end it.
Times(g, pos) == Cardinality({i \in DOMAIN g : g[i] = pos})
OthersAreRare(g) == \A i \in DOMAIN g : Times(g, g[i]) < RepetitionThreshold \/ g[i] = Position

\* The window forgets no occurrence of the position that stands: what is before it has fewer walls.
LEMMA CountIsTimes ==
  ASSUME NEW CONSTANT g, Whole(g)
  PROVE  counts[PositionKey(Position)] = Times(g, Position)
<1> DEFINE key == PositionKey(Position)
<1>1. /\ TypeOK /\ Trail(g) /\ LineOf(g) /\ WindowOf(g) /\ CountsOf(g) /\ key \in DOMAIN counts
      /\ ply \in Nat /\ historyStartPly \in Nat
  BY DEF Whole, Inductive, Trail, TypeOK, ResultIsDecided
<1>2. DOMAIN g = 1 .. ply + 1 /\ Window \subseteq DOMAIN g /\ ply + 1 \in DOMAIN g
  BY <1>1 DEF LineOf, Window
<1>3. Position \in Positions /\ Position.walls = walls
  BY <1>1, <1>2 DEF LineOf, Position
<1>4. ASSUME NEW i \in DOMAIN g
      PROVE  g[i] = Position <=> i \in Seen(g, key)
  <2>1. g[i] \in Positions
    BY <1>1, <1>2 DEF LineOf
  <2>2. g[i] = Position => i \in Window
    BY <1>1, <1>2, <1>3 DEF WindowOf
  <2>3. PositionKey(g[i]) = key => g[i] = Position
    BY <1>3, <2>1, KeyInjective
  <2>4. QED
    BY <2>2, <2>3 DEF Seen
<1>5. {i \in DOMAIN g : g[i] = Position} = Seen(g, key)
  BY <1>2, <1>4 DEF Seen
<1>6. QED
  BY <1>1, <1>5 DEF CountsOf, Times

\* A ply can only make the new position frequent.
LEMMA RareStep ==
  ASSUME NEW CONSTANT g, Whole(g), OthersAreRare(g), Next, NEW CONSTANT h, h = Append(g, Position')
  PROVE  OthersAreRare(h)'
<1>1. outcome = Ongoing
  BY StepIsLegal DEF Whole, Inductive
<1>2. Times(g, Position) < RepetitionThreshold
  <2>1. /\ PositionKey(Position) \in DOMAIN counts
        /\ counts[PositionKey(Position)] \in Nat
        /\ counts[PositionKey(Position)] <= RepetitionThreshold
        /\ counts[PositionKey(Position)] # RepetitionThreshold
    BY <1>1 DEF Whole, Inductive, ResultIsDecided, TypeOK
  <2>2. QED
    BY <2>1, CountIsTimes, ConfigAssumption
<1>3. \A i \in DOMAIN g : Times(g, g[i]) < RepetitionThreshold
  BY <1>2 DEF OthersAreRare
<1>4. /\ g \in Seq(Positions) /\ DOMAIN h = DOMAIN g \cup {Len(g) + 1}
      /\ h[Len(g) + 1] = Position' /\ \A i \in DOMAIN g : h[i] = g[i]
  <2>1. g \in Seq(Positions)
    BY DEF Whole, Trail, LineOf
  <2>2. DOMAIN g = 1 .. Len(g) /\ Len(g) \in Nat /\ DOMAIN h = 1 .. Len(g) + 1
    BY <2>1
  <2>3. h[Len(g) + 1] = Position' /\ \A i \in 1 .. Len(g) : h[i] = g[i]
    BY <2>1
  <2>4. QED
    BY <2>1, <2>2, <2>3
<1>5. ASSUME NEW i \in DOMAIN h, h[i] # Position'
      PROVE  Times(h, h[i]) < RepetitionThreshold
  <2>1. i \in DOMAIN g /\ h[i] = g[i]
    BY <1>4, <1>5
  <2>2. {j \in DOMAIN h : h[j] = h[i]} = {j \in DOMAIN g : g[j] = g[i]}
    BY <1>4, <1>5, <2>1
  <2>3. QED
    BY <1>3, <2>1, <2>2 DEF Times
<1>6. QED
  BY <1>5 DEF OthersAreRare, Times

\* The outcome of a record is the one the contract gives the whole game.
LEMMA OutcomeOfWhole ==
  ASSUME NEW CONSTANT g, Whole(g), OthersAreRare(g), g = game
  PROVE  OutcomeOfWholeGame
<1> DEFINE key == PositionKey(Position)
           winner == {p \in Players : AtGoal(pawns, p)}
           won == \E p \in Players : AtGoal(pawns, p)
<1>1. TypeOK /\ ResultIsDecided /\ turn \in Players /\ key \in DOMAIN counts /\ counts[key] \in Nat
  BY DEF Whole, Inductive, TypeOK, ResultIsDecided
<1>2. \A pos : Occurrences(pos) = Times(g, pos)
  BY DEF Occurrences, Times
<1>3. Occurrences(Position) = counts[key]
  BY <1>2, CountIsTimes
<1>4. outcome.kind = "win" <=> won
  BY <1>1 DEF ResultIsDecided, Players, Other
<1>5. outcome.reason = "threefold_repetition" <=> counts[key] >= RepetitionThreshold /\ ~won
  <2>1. CASE ply = 0
    <3>1. outcome = Ongoing
      BY <2>1 DEF Whole, OutcomeFollows
    <3>2. counts[key] # RepetitionThreshold /\ counts[key] <= RepetitionThreshold
      BY <1>1, <3>1 DEF ResultIsDecided
    <3>3. QED
      BY <1>1, <3>1, <3>2, ConfigAssumption DEF Ongoing
  <2>2. CASE ply # 0
    <3>1. outcome = Adjudicate(IF winner = {} THEN "none" ELSE CHOOSE p \in winner : TRUE, counts[key], ply)
      BY <2>2 DEF Whole, OutcomeFollows
    <3>2. CASE won
      <4>1. (CHOOSE p \in winner : TRUE) \in winner /\ winner # {} /\ winner \subseteq Players
        BY <3>2
      <4>2. outcome = Win(CHOOSE p \in winner : TRUE)
        BY <3>1, <4>1 DEF Adjudicate
      <4>3. QED
        BY <3>2, <4>2 DEF Win
    <3>3. CASE ~won
      <4>1. winner = {} /\ "none" \notin Players
        BY <3>3 DEF Players
      <4>2. outcome = IF counts[key] >= RepetitionThreshold THEN Draw("threefold_repetition")
                      ELSE IF ply >= PlyCap THEN Draw("ply_cap") ELSE Ongoing
        BY <3>1, <4>1 DEF Adjudicate
      <4>3. QED
        BY <3>3, <4>2 DEF Draw, Ongoing
    <3>4. QED
      BY <3>2, <3>3
  <2>3. QED
    BY <2>1, <2>2
<1>6. \A i \in 1 .. Len(game) - 1 : Occurrences(game[i]) < RepetitionThreshold \/ game[i] = Position
  <2>1. g \in Seq(Positions)
    BY DEF Whole, Trail, LineOf
  <2>2. \A i \in 1 .. Len(game) - 1 : i \in DOMAIN g
    BY <2>1
  <2>3. QED
    BY <1>2, <2>2 DEF OthersAreRare
<1>7. QED
  BY <1>3, <1>4, <1>5, <1>6 DEF OutcomeOfWholeGame

\* A game ends by repetition exactly when a position of it, counted from its first ply and not
\* only in the window, is there for the third time.
THEOREM WindowForgetsNothing == GameSpec => []OutcomeOfWholeGame
<1> DEFINE Inv == \E g : g = game /\ Whole(g) /\ OthersAreRare(g)
<1>1. GameInit => Inv
  <2>1. SUFFICES ASSUME GameInit, NEW CONSTANT g, g = <<InitialPosition>>
                 PROVE  g = game /\ Whole(g) /\ OthersAreRare(g)
    OBVIOUS
  <2>2. Init /\ g = game
    BY <2>1 DEF GameInit
  <2>3. Whole(g)
    BY <2>1, <2>2, WholeFirst
  <2>4. Position = InitialPosition
    BY <2>2 DEF Init, Position, InitialPosition
  <2>5. OthersAreRare(g)
    BY <2>1, <2>4 DEF OthersAreRare
  <2>6. QED
    BY <2>2, <2>3, <2>5
<1>2. Inv /\ [GameNext]_gameVars => Inv'
  <2>1. SUFFICES ASSUME NEW CONSTANT g, g = game, Whole(g), OthersAreRare(g), [GameNext]_gameVars
                 PROVE  Inv'
    OBVIOUS
  <2>2. CASE GameNext
    <3>1. SUFFICES ASSUME NEW CONSTANT h, h = game'
                   PROVE  Whole(h)' /\ OthersAreRare(h)'
      OBVIOUS
    <3>2. Next /\ h = Append(g, Position')
      BY <2>1, <2>2, <3>1 DEF GameNext
    <3>3. QED
      BY <2>1, <3>2, WholeStep, RareStep
  <2>3. CASE UNCHANGED gameVars
    <3>1. UNCHANGED vars /\ game' = g
      BY <2>1, <2>3 DEF gameVars
    <3>2. Whole(g)'
      BY <2>1, <3>1, WholeStutters
    <3>3. Position' = Position
      BY <3>1 DEF vars, Position
    <3>4. OthersAreRare(g)'
      BY <2>1, <3>3 DEF OthersAreRare, Times
    <3>5. QED
      BY <3>1, <3>2, <3>4
  <2>4. QED
    BY <2>1, <2>2, <2>3
<1>3. Inv => OutcomeOfWholeGame
  BY OutcomeOfWhole
<1>4. QED
  BY <1>1, <1>2, <1>3, PTL DEF GameSpec

(* ---- Folds over numbers ------------------------------------------------------ *)

\* Of sets of subsets of a finite set, a smallest one has no part in them.
LEMMA SmallestSet ==
  ASSUME NEW S, IsFiniteSet(S), NEW B \in SUBSET (SUBSET S), B # {}
  PROVE  \E T \in B : IsFiniteSet(T) /\ \A x \in T : \A U \in SUBSET (T \ {x}) : U \notin B
<1> DEFINE D == {Cardinality(T) : T \in B}
<1>1. \A T \in SUBSET S : IsFiniteSet(T) /\ Cardinality(T) \in Nat
  BY FS_Subset, FS_CardinalityType
<1>2. D \in SUBSET Nat /\ D # {}
  BY <1>1
<1>3. PICK d \in D : \A e \in D : d <= e
  <2> HIDE DEF D
  <2> QED BY <1>2, LeastNumber
<1>4. PICK T \in B : Cardinality(T) = d
  OBVIOUS
<1>5. ASSUME NEW x \in T, NEW U \in SUBSET (T \ {x}), U \in B
      PROVE  FALSE
  <2>1. U \in SUBSET T /\ U # T
    OBVIOUS
  <2>2. Cardinality(U) < Cardinality(T)
    BY <1>1, <2>1, FS_Subset
  <2>3. d <= Cardinality(U)
    BY <1>3, <1>5
  <2>4. Cardinality(U) \in Nat /\ Cardinality(T) \in Nat
    BY <1>1, <1>5
  <2> QED BY <1>4, <2>2, <2>3, <2>4
<1> QED BY <1>1, <1>5

\* The greatest of some numbers up to N is one of them.
LEMMA GreatestNumber ==
  ASSUME NEW N \in Nat, NEW s \in SUBSET (1 .. N), s # {}
  PROVE  Max(s) \in s /\ \A y \in s : Max(s) >= y
<1> DEFINE D == {N - x : x \in s}
<1>0. \A x \in s : x \in Nat /\ N - x \in Nat
  <2> TAKE x \in s
  <2>1. x \in 1 .. N
    OBVIOUS
  <2> QED BY <2>1
<1>1. D \in SUBSET Nat /\ D # {}
  BY <1>0
<1>2. PICK d \in D : \A e \in D : d <= e
  <2> HIDE DEF D
  <2> QED BY <1>1, LeastNumber
<1>3. PICK x \in s : d = N - x
  OBVIOUS
<1>4. \A y \in s : x >= y
  <2> TAKE y \in s
  <2>1. d <= N - y
    BY <1>2
  <2> QED BY <1>0, <1>3, <2>1
<1> QED BY <1>4 DEF Max

\* A set of some of the numbers 1 to N.
UpTo(s, N) == s \subseteq 1 .. N

\* The recursion by which a fold over numbers is defined, whose step is a function F of
\* what is folded so far and of the number.
IsFold(it, base, F, S) == it = [s \in SUBSET S |-> IF s = {} THEN base ELSE F[<<it[s \ {Max(s)}], Max(s)>>]]

\* What it computes for the numbers in T it computes whatever greater ones there are.
LEMMA FoldUnique ==
  ASSUME NEW N \in Nat, NEW S, NEW T, NEW base, NEW F, NEW f, NEW h, UpTo(S, N), T \subseteq S,
         IsFold(f, base, F, S), IsFold(h, base, F, T)
  PROVE  f[T] = h[T]
<1> DEFINE B == {s \in SUBSET T : f[s] # h[s]}
<1> SUFFICES ASSUME B # {} PROVE FALSE
  OBVIOUS
<1>0. IsFiniteSet(1 .. N)
  BY FS_Interval
<1>1. B \in SUBSET (SUBSET T) /\ IsFiniteSet(T) /\ S \in SUBSET (1 .. N)
  BY <1>0, FS_Subset DEF UpTo
<1>2. PICK s \in B : \A x \in s : \A U \in SUBSET (s \ {x}) : U \notin B
  <2> HIDE DEF B
  <2> QED BY <1>1, SmallestSet
<1>3. \A u \in SUBSET T : /\ f[u] = IF u = {} THEN base ELSE F[<<f[u \ {Max(u)}], Max(u)>>]
                          /\ h[u] = IF u = {} THEN base ELSE F[<<h[u \ {Max(u)}], Max(u)>>]
  <2> TAKE u \in SUBSET T
  <2>1. u \in SUBSET S
    OBVIOUS
  <2>2. f[u] = IF u = {} THEN base ELSE F[<<f[u \ {Max(u)}], Max(u)>>]
    BY <2>1 DEF IsFold
  <2>3. h[u] = IF u = {} THEN base ELSE F[<<h[u \ {Max(u)}], Max(u)>>]
    BY DEF IsFold
  <2> QED BY <2>2, <2>3
<1>4. s # {}
  BY <1>3
<1>5. Max(s) \in s
  BY <1>1, <1>4, GreatestNumber
<1>6. f[s \ {Max(s)}] = h[s \ {Max(s)}]
  BY <1>2, <1>5
<1> QED BY <1>3, <1>4, <1>6

\* It has a solution.
LEMMA FoldDefined ==
  ASSUME NEW N \in Nat, NEW base, NEW F
  PROVE  \E f : IsFold(f, base, F, 1 .. N)
<1> DEFINE S == 1 .. N
           B == {T \in SUBSET S : ~\E f : IsFold(f, base, F, T)}
           G(s) == (CHOOSE f : IsFold(f, base, F, s))[s]
<1> SUFFICES ASSUME B # {} PROVE FALSE
  OBVIOUS
<1>0. IsFiniteSet(S)
  BY FS_Interval
<1>1. B \in SUBSET (SUBSET S)
  OBVIOUS
<1>2. PICK T \in B : \A x \in T : \A U \in SUBSET (T \ {x}) : U \notin B
  <2> HIDE DEF B, S
  <2> QED BY <1>0, <1>1, SmallestSet
<1>3. \A s \in SUBSET T : s \in SUBSET S /\ (s # {} => Max(s) \in s)
  BY GreatestNumber
<1>4. ASSUME NEW u \in SUBSET T, u # T
      PROVE  G(u) = IF u = {} THEN base ELSE F[<<G(u \ {Max(u)}), Max(u)>>]
  <2>1. \A s \in SUBSET u : \E f : IsFold(f, base, F, s)
    <3> SUFFICES ASSUME NEW s \in SUBSET u PROVE s \notin B
      OBVIOUS
    <3>1. PICK x \in T : x \notin s
      BY <1>4
    <3> QED BY <1>2, <3>1
  <2> DEFINE Hf(s) == CHOOSE f : IsFold(f, base, F, s)
  <2>2. \A s \in SUBSET u : IsFold(Hf(s), base, F, s)
    BY <2>1
  <2>3. G(u) = Hf(u)[u] /\ G(u \ {Max(u)}) = Hf(u \ {Max(u)})[u \ {Max(u)}]
    OBVIOUS
  <2>6. UpTo(u, N)
    BY <1>3 DEF UpTo
  <2> HIDE DEF Hf, G, B, S
  <2>4. Hf(u)[u \ {Max(u)}] = Hf(u \ {Max(u)})[u \ {Max(u)}]
    <3>1. u \ {Max(u)} \in SUBSET u /\ u \in SUBSET u
      OBVIOUS
    <3>2. IsFold(Hf(u), base, F, u) /\ IsFold(Hf(u \ {Max(u)}), base, F, u \ {Max(u)})
      BY <2>2, <3>1
    <3> DEFINE a == Hf(u)
               v == u \ {Max(u)}
               b == Hf(v)
    <3>3. v \subseteq u /\ IsFold(a, base, F, u) /\ IsFold(b, base, F, v)
      BY <3>1, <3>2
    <3> HIDE DEF a, b, v
    <3>4. a[v] = b[v]
      BY <2>6, <3>3, FoldUnique
    <3> QED BY <3>4 DEF a, b, v
  <2>5. Hf(u)[u] = IF u = {} THEN base ELSE F[<<Hf(u)[u \ {Max(u)}], Max(u)>>]
    BY <2>2 DEF IsFold
  <2> QED BY <2>3, <2>4, <2>5
<1> DEFINE f == [s \in SUBSET T |-> IF s = {} THEN base ELSE F[<<G(s \ {Max(s)}), Max(s)>>]]
<1>5. ASSUME NEW s \in SUBSET T, s # {}
      PROVE  f[s \ {Max(s)}] = G(s \ {Max(s)})
  <2>1. Max(s) \in s
    BY <1>3, <1>5
  <2>2. s \ {Max(s)} \in SUBSET T /\ s \ {Max(s)} # T
    BY <2>1
  <2> QED BY <1>4, <2>2
<1>6. \A s \in SUBSET T : f[s] = IF s = {} THEN base ELSE F[<<G(s \ {Max(s)}), Max(s)>>]
  OBVIOUS
<1>8. f = [s \in SUBSET T |-> f[s]]
  OBVIOUS
<1>7. IsFold(f, base, F, T)
  <2> HIDE DEF f, G, B
  <2>1. \A s \in SUBSET T : f[s] = IF s = {} THEN base ELSE F[<<f[s \ {Max(s)}], Max(s)>>]
    BY <1>5, <1>6
  <2> QED BY <2>1, <1>8 DEF IsFold
<1> QED BY <1>7

\* And stays in what its step is a function of.
LEMMA FoldTyped ==
  ASSUME NEW N \in Nat, NEW X, NEW base \in X, NEW F \in [X \X (1 .. N) -> X], NEW f, IsFold(f, base, F, 1 .. N),
         NEW s \in SUBSET (1 .. N)
  PROVE  f[s] \in X
<1> DEFINE B == {t \in SUBSET (1 .. N) : f[t] \notin X}
<1> SUFFICES ASSUME B # {} PROVE FALSE
  OBVIOUS
<1>0. IsFiniteSet(1 .. N)
  BY FS_Interval
<1>2. PICK t \in B : \A x \in t : \A U \in SUBSET (t \ {x}) : U \notin B
  <2> DEFINE S == 1 .. N
  <2>1. B \in SUBSET (SUBSET S) /\ IsFiniteSet(S)
    BY <1>0
  <2> HIDE DEF B, S
  <2> QED BY <2>1, SmallestSet
<1>3. f[t] = IF t = {} THEN base ELSE F[<<f[t \ {Max(t)}], Max(t)>>]
  BY DEF IsFold
<1>4. t # {}
  BY <1>3
<1>5. Max(t) \in t
  BY <1>4, GreatestNumber
<1>6. f[t \ {Max(t)}] \in X
  BY <1>2, <1>5
<1>7. <<f[t \ {Max(t)}], Max(t)>> \in X \X (1 .. N)
  BY <1>5, <1>6
<1> QED BY <1>3, <1>4, <1>7

\* What is left of the numbers up to n without the last.
LEMMA LastOfThem ==
  ASSUME NEW n \in Nat, n >= 1
  PROVE  (1 .. n) # {} /\ Max(1 .. n) = n /\ (1 .. n) \ {Max(1 .. n)} = 1 .. n - 1
<1> DEFINE s == 1 .. n
<1>0. s \in SUBSET (1 .. n) /\ s # {}
  OBVIOUS
<1>1. Max(1 .. n) \in 1 .. n /\ \A y \in 1 .. n : Max(1 .. n) >= y
  <2> HIDE DEF s
  <2>1. Max(s) \in s /\ \A y \in s : Max(s) >= y
    BY <1>0, GreatestNumber
  <2> QED BY <2>1 DEF s
<1>2. Max(1 .. n) = n
  BY <1>1
<1> QED BY <1>2

\* A function is the same tabulated.
LEMMA TableIs == ASSUME NEW f PROVE Table(f) = f
BY DEF Table

(* ---- Searches of the board, a round at a time ------------------------------- *)

\* An open edge is open both ways.
LEMMA NeighbourSymmetric ==
  ASSUME NEW c \in Cells, NEW ws, NEW x \in OpenNeighbours(c, ws)
  PROVE  x \in Cells /\ c \in OpenNeighbours(x, ws)
<1>1. x \in Cells /\ x \in Adjacent[c] /\ ~EdgeBlocked(c, x, ws)
  BY DEF OpenNeighbours, Adjacent
<1>2. c[1] \in Int /\ c[2] \in Int /\ x[1] \in Int /\ x[2] \in Int /\ c = <<c[1], c[2]>> /\ x = <<x[1], x[2]>>
  BY <1>1, ConfigAssumption DEF Cells
<1>3. x \in {<<c[1]-1, c[2]>>, <<c[1], c[2]-1>>, <<c[1], c[2]+1>>, <<c[1]+1, c[2]>>}
  BY <1>1 DEF Adjacent
<1>4. c \in {<<x[1]-1, x[2]>>, <<x[1], x[2]-1>>, <<x[1], x[2]+1>>, <<x[1]+1, x[2]>>}
  BY <1>2, <1>3
<1>5. c \in Adjacent[x]
  BY <1>1, <1>4 DEF Adjacent
<1>6. EdgeBlocked(x, c, ws) <=> EdgeBlocked(c, x, ws)
  <2>1. CASE x[1] # c[1]
    <3>1. x[2] = c[2] /\ (x[1] < c[1] <=> ~(c[1] < x[1]))
      BY <1>2, <1>3, <2>1
    <3> QED BY <1>2, <2>1, <3>1 DEF EdgeBlocked
  <2>2. CASE x[1] = c[1]
    <3>1. x[2] < c[2] <=> ~(c[2] < x[2])
      BY <1>2, <1>3, <2>2
    <3> QED BY <1>2, <2>2, <3>1 DEF EdgeBlocked
  <2> QED BY <2>1, <2>2
<1> QED BY <1>1, <1>5, <1>6 DEF OpenNeighbours

\* What a search that numbers the cells begins with, and its n-th round; cells it has
\* not reached have the number U.
SearchStart(S, U) == [cell \in Cells |-> IF cell \in S THEN 0 ELSE U]
SearchRound(d, n, ws, U) ==
  [cell \in Cells |-> IF d[cell] = U /\ \E near \in OpenNeighbours(cell, ws) : d[near] = n - 1 THEN n ELSE d[cell]]

\* The recursion by which K such rounds are folded.
IsSearchFold(it, S, ws, U, K) ==
  it = [s \in SUBSET (1 .. K) |-> IF s = {} THEN SearchStart(S, U)
                                  ELSE SearchRound(it[s \ {Max(s)}], Max(s), ws, U)]

\* The recursion by which such a search is folded has a solution.
LEMMA SearchFoldDefined ==
  ASSUME NEW S, NEW ws, NEW U \in Int, NEW K \in Nat
  PROVE  \E it : IsSearchFold(it, S, ws, U, K)
<1> DEFINE X == [Cells -> Int]
           F == [p \in X \X (1 .. K) |-> SearchRound(p[1], p[2], ws, U)]
           base == SearchStart(S, U)
<1>1. base \in X
  BY DEF SearchStart
<1>2. F \in [X \X (1 .. K) -> X]
  <2> SUFFICES ASSUME NEW d \in X, NEW n \in 1 .. K
               PROVE  SearchRound(d, n, ws, U) \in X
    OBVIOUS
  <2> QED BY DEF SearchRound
<1>3. \A d \in X, n \in 1 .. K : F[<<d, n>>] = SearchRound(d, n, ws, U)
  OBVIOUS
<1> HIDE DEF X, F, base
<1>4. PICK it : IsFold(it, base, F, 1 .. K)
  BY FoldDefined
<1>5. \A s \in SUBSET (1 .. K) : it[s] \in X
  BY <1>1, <1>2, <1>4, FoldTyped
<1>6. \A s \in SUBSET (1 .. K) : s # {} => F[<<it[s \ {Max(s)}], Max(s)>>] = SearchRound(it[s \ {Max(s)}], Max(s), ws, U)
  <2> TAKE s \in SUBSET (1 .. K)
  <2> HAVE s # {}
  <2>1. Max(s) \in s
    BY GreatestNumber
  <2>2. s \ {Max(s)} \in SUBSET (1 .. K) /\ Max(s) \in 1 .. K
    BY <2>1
  <2> QED BY <1>3, <1>5, <2>2
<1>7. it = [s \in SUBSET (1 .. K) |-> IF s = {} THEN base ELSE F[<<it[s \ {Max(s)}], Max(s)>>]]
  BY <1>4 DEF IsFold
<1>8. it = [s \in SUBSET (1 .. K) |-> IF s = {} THEN base ELSE SearchRound(it[s \ {Max(s)}], Max(s), ws, U)]
  BY <1>6, <1>7
<1> QED BY <1>8 DEF IsSearchFold, base

\* The rounds of a search, as a sequence d[0], d[1] ... of numberings.
Rounds(d, S, ws, U, K) ==
  /\ d[0] = SearchStart(S, U)
  /\ \A n \in 1 .. K : d[n] = SearchRound(d[n - 1], n, ws, U)

\* What it has after each round.
LEMMA SearchFoldSteps ==
  ASSUME NEW S, NEW ws, NEW U \in Int, NEW K \in Nat, NEW it, IsSearchFold(it, S, ws, U, K)
  PROVE  Rounds([n \in 0 .. K |-> it[1 .. n]], S, ws, U, K)
<1> DEFINE d == [n \in 0 .. K |-> it[1 .. n]]
<1>1. \A s \in SUBSET (1 .. K) : it[s] = IF s = {} THEN SearchStart(S, U) ELSE SearchRound(it[s \ {Max(s)}], Max(s), ws, U)
  BY DEF IsSearchFold
<1>2. ASSUME NEW n \in 1 .. K
      PROVE  it[1 .. n] = SearchRound(it[1 .. n - 1], n, ws, U)
  <2>1. n \in Nat /\ n >= 1 /\ 1 .. n \in SUBSET (1 .. K)
    OBVIOUS
  <2>2. (1 .. n) # {} /\ Max(1 .. n) = n /\ (1 .. n) \ {Max(1 .. n)} = 1 .. n - 1
    BY <2>1, LastOfThem
  <2> QED BY <1>1, <2>1, <2>2
<1>3. d[0] = it[{}] /\ \A n \in 1 .. K : d[n] = it[1 .. n] /\ d[n - 1] = it[1 .. n - 1]
  <2>1. 1 .. 0 = {}
    OBVIOUS
  <2> QED BY <2>1
<1>4. it[{}] = SearchStart(S, U)
  BY <1>1
<1> HIDE DEF d
<1>5. Rounds(d, S, ws, U, K)
  BY <1>2, <1>3, <1>4 DEF Rounds
<1> QED BY <1>5 DEF d

\* The recursion by which goalDistanceField folds its rounds.
IsFieldFold(it, ws, goalRow) ==
  it = [s \in SUBSET DOMAIN [n \in 1 .. CellCount - 1 |-> n] |->
          IF s = {} THEN Table([cell \in Cells |-> IF cell[1] = goalRow THEN 0 ELSE -1])
          ELSE Table([cell \in Cells |->
                IF it[s \ {Max(s)}][cell] = -1
                   /\ \E near \in OpenNeighbours(cell, ws) : it[s \ {Max(s)}][near] = [n \in 1 .. CellCount - 1 |-> n][Max(s)] - 1
                THEN [n \in 1 .. CellCount - 1 |-> n][Max(s)] ELSE it[s \ {Max(s)}][cell]])]

\* goalDistanceField is what the fold over the rounds comes to.
LEMMA FieldUnfolds ==
  ASSUME NEW ws, NEW goalRow
  PROVE  GoalDistanceField(ws, goalRow) = (CHOOSE it : IsFieldFold(it, ws, goalRow))[DOMAIN [n \in 1 .. CellCount - 1 |-> n]]
BY DEF GoalDistanceField, FoldLeft, MapThenFoldSet, IsFieldFold

\* The board has as many cells as its sides say, six or more.
LEMMA CellsCounted == CellCount \in Nat /\ CellCount >= 6 /\ Cardinality(Cells) = CellCount
<1>1. Rows \in Nat /\ Cols \in Nat /\ Rows >= 3 /\ Cols >= 2 /\ Rows - 1 \in Int /\ Cols - 1 \in Int
  BY ConfigAssumption
<1>2. /\ IsFiniteSet(0 .. Rows - 1) /\ Cardinality(0 .. Rows - 1) = Rows
      /\ IsFiniteSet(0 .. Cols - 1) /\ Cardinality(0 .. Cols - 1) = Cols
  BY <1>1, FS_Interval
<1>3. Cardinality(Cells) = Rows * Cols
  <2> DEFINE R == 0 .. Rows - 1
             C == 0 .. Cols - 1
  <2>1. IsFiniteSet(R) /\ IsFiniteSet(C) /\ Cardinality(R) = Rows /\ Cardinality(C) = Cols /\ Cells = R \X C
    BY <1>2 DEF Cells
  <2> HIDE DEF R, C
  <2>2. Cardinality(R \X C) = Cardinality(R) * Cardinality(C)
    BY <2>1, FS_Product
  <2> QED BY <2>1, <2>2
<1>4. Rows * Cols \in Nat /\ Rows * Cols >= 6
  BY <1>1, SMT
<1> QED BY <1>3, <1>4 DEF CellCount

\* Neither mark of a cell that was not reached is a number of steps.
LEMMA SymbolsOfSearch == /\ CellCount - 1 \in Nat /\ CellCount \in Int /\ -1 \in Int
                         /\ CellCount \notin 0 .. CellCount - 1 /\ -1 \notin 0 .. CellCount - 1
BY CellsCounted

\* The cells of a row.
GoalCells(goalRow) == {cell \in Cells : cell[1] = goalRow}

\* The field that the encoder computes is the last of the rounds of a search from the row.
LEMMA FieldRounds ==
  ASSUME NEW ws, NEW goalRow
  PROVE  \E d : Rounds(d, GoalCells(goalRow), ws, -1, CellCount - 1) /\ GoalDistanceField(ws, goalRow) = d[CellCount - 1]
<1> DEFINE K == CellCount - 1
           S == GoalCells(goalRow)
           seq == [n \in 1 .. CellCount - 1 |-> n]
           it == CHOOSE f : IsFieldFold(f, ws, goalRow)
<1>1. K \in Nat /\ -1 \in Int /\ DOMAIN seq = 1 .. K
  BY SymbolsOfSearch
<1>2. \A cell \in Cells : cell \in S <=> cell[1] = goalRow
  BY DEF GoalCells
<1>3. ASSUME NEW f
      PROVE  IsFieldFold(f, ws, goalRow) <=> IsSearchFold(f, S, ws, -1, K)
  <2>1. Table([cell \in Cells |-> IF cell[1] = goalRow THEN 0 ELSE -1]) = SearchStart(S, -1)
    BY <1>2, TableIs DEF SearchStart
  <2>2. ASSUME NEW s \in SUBSET (1 .. K), s # {}
        PROVE  Table([cell \in Cells |->
                  IF f[s \ {Max(s)}][cell] = -1
                     /\ \E near \in OpenNeighbours(cell, ws) : f[s \ {Max(s)}][near] = seq[Max(s)] - 1
                  THEN seq[Max(s)] ELSE f[s \ {Max(s)}][cell]])
               = SearchRound(f[s \ {Max(s)}], Max(s), ws, -1)
    <3>1. Max(s) \in s
      BY <1>1, <2>2, GreatestNumber
    <3>2. seq[Max(s)] = Max(s)
      BY <1>1, <3>1
    <3> HIDE DEF seq, K, S
    <3>3. [cell \in Cells |->
                  IF f[s \ {Max(s)}][cell] = -1
                     /\ \E near \in OpenNeighbours(cell, ws) : f[s \ {Max(s)}][near] = seq[Max(s)] - 1
                  THEN seq[Max(s)] ELSE f[s \ {Max(s)}][cell]]
               = SearchRound(f[s \ {Max(s)}], Max(s), ws, -1)
      BY <3>2 DEF SearchRound
    <3> QED BY <3>3, TableIs
  <2>3. IsFieldFold(f, ws, goalRow) <=>
          f = [s \in SUBSET (1 .. K) |->
          IF s = {} THEN Table([cell \in Cells |-> IF cell[1] = goalRow THEN 0 ELSE -1])
          ELSE Table([cell \in Cells |->
                IF f[s \ {Max(s)}][cell] = -1
                   /\ \E near \in OpenNeighbours(cell, ws) : f[s \ {Max(s)}][near] = seq[Max(s)] - 1
                THEN seq[Max(s)] ELSE f[s \ {Max(s)}][cell]])]
    BY <1>1 DEF IsFieldFold
  <2> HIDE DEF seq, K, S
  <2>4. [s \in SUBSET (1 .. K) |->
          IF s = {} THEN Table([cell \in Cells |-> IF cell[1] = goalRow THEN 0 ELSE -1])
          ELSE Table([cell \in Cells |->
                IF f[s \ {Max(s)}][cell] = -1
                   /\ \E near \in OpenNeighbours(cell, ws) : f[s \ {Max(s)}][near] = seq[Max(s)] - 1
                THEN seq[Max(s)] ELSE f[s \ {Max(s)}][cell]])]
        = [s \in SUBSET (1 .. K) |-> IF s = {} THEN SearchStart(S, -1)
                                  ELSE SearchRound(f[s \ {Max(s)}], Max(s), ws, -1)]
    BY <2>1, <2>2
  <2> QED BY <2>3, <2>4 DEF IsSearchFold
<1> HIDE DEF K, S, seq
<1>4. \E f : IsFieldFold(f, ws, goalRow)
  BY <1>1, <1>3, SearchFoldDefined
<1>5. IsSearchFold(it, S, ws, -1, K)
  BY <1>3, <1>4
<1>6. GoalDistanceField(ws, goalRow) = it[1 .. K]
  BY <1>1, FieldUnfolds DEF seq
<1> HIDE DEF it
<1> DEFINE d == [n \in 0 .. K |-> it[1 .. n]]
<1>7. Rounds(d, S, ws, -1, K)
  <2> DEFINE U == -1
  <2>1. U \in Int /\ IsSearchFold(it, S, ws, U, K)
    BY <1>1, <1>5
  <2> HIDE DEF U
  <2>2. Rounds(d, S, ws, U, K)
    BY <1>1, <2>1, SearchFoldSteps
  <2> QED BY <2>2 DEF U
<1>8. d[K] = it[1 .. K]
  BY <1>1
<1> HIDE DEF d
<1> QED BY <1>6, <1>7, <1>8 DEF K, S

\* A search from the cells S that has gone n rounds: its numbers up to n go down to 0, which
\* only S has, by open steps, and those below n have no neighbour that is more than one ahead.
Layers(e, S, ws, U, n) ==
  /\ e \in [Cells -> Int]
  /\ \A c \in Cells : e[c] = U \/ e[c] \in 0 .. n
  /\ \A c \in Cells : e[c] = 0 <=> c \in S
  /\ \A c \in Cells : e[c] \in 1 .. n => \E x \in OpenNeighbours(c, ws) : e[x] = e[c] - 1
  /\ \A c \in Cells : \A x \in OpenNeighbours(c, ws) : e[x] \in 0 .. n - 1 => e[c] \in 0 .. e[x] + 1

\* That is so before the first round,
LEMMA LayersBegin ==
  ASSUME NEW S \in SUBSET Cells, NEW ws, NEW U \in Int, U # 0
  PROVE  Layers(SearchStart(S, U), S, ws, U, 0)
<1> DEFINE e == SearchStart(S, U)
<1>1. e \in [Cells -> Int] /\ \A c \in Cells : e[c] = IF c \in S THEN 0 ELSE U
  BY DEF SearchStart
<1> HIDE DEF e
<1>2. \A c \in Cells : ~(e[c] \in 1 .. 0) /\ \A x : ~(e[x] \in 0 .. 0 - 1)
  OBVIOUS
<1>3. Layers(e, S, ws, U, 0)
  BY <1>1, <1>2 DEF Layers
<1> QED BY <1>3 DEF e

\* and a round keeps it,
LEMMA LayersStep ==
  ASSUME NEW S \in SUBSET Cells, NEW ws, NEW K \in Nat, NEW U \in Int, U \notin 0 .. K, NEW n \in 1 .. K, NEW e,
         Layers(e, S, ws, U, n - 1)
  PROVE  Layers(SearchRound(e, n, ws, U), S, ws, U, n)
<1> DEFINE f == SearchRound(e, n, ws, U)
<1>1. /\ e \in [Cells -> Int]
      /\ \A c \in Cells : e[c] = U \/ e[c] \in 0 .. n - 1
      /\ \A c \in Cells : e[c] = 0 <=> c \in S
      /\ \A c \in Cells : e[c] \in 1 .. n - 1 => \E x \in OpenNeighbours(c, ws) : e[x] = e[c] - 1
      /\ \A c \in Cells : \A x \in OpenNeighbours(c, ws) : e[x] \in 0 .. n - 2 => e[c] \in 0 .. e[x] + 1
  BY DEF Layers
<1>2. \A c \in Cells : f[c] = IF e[c] = U /\ \E near \in OpenNeighbours(c, ws) : e[near] = n - 1 THEN n ELSE e[c]
  BY DEF SearchRound
<1>3. f \in [Cells -> Int]
  BY <1>1 DEF SearchRound
<1>4. \A c \in Cells : \A x \in OpenNeighbours(c, ws) : x \in Cells
  BY NeighbourSymmetric
<1>5. n \in Int /\ n >= 1 /\ U # n /\ U # 0 /\ U \notin 0 .. n
  OBVIOUS
<1> HIDE DEF f
<1>6. \A c \in Cells : e[c] # U => f[c] = e[c]
  BY <1>2
<1>7. \A c \in Cells : f[c] = e[c] \/ (f[c] = n /\ e[c] = U /\ \E x \in OpenNeighbours(c, ws) : e[x] = n - 1)
  BY <1>2
<1>8. \A c \in Cells : f[c] = U \/ f[c] \in 0 .. n
  BY <1>1, <1>5, <1>7
<1>9. \A c \in Cells : f[c] = 0 <=> c \in S
  <2> TAKE c \in Cells
  <2>1. e[c] = 0 <=> c \in S
    BY <1>1
  <2> QED BY <1>5, <1>7, <2>1
<1>10. ASSUME NEW c \in Cells, f[c] \in 1 .. n
       PROVE  \E x \in OpenNeighbours(c, ws) : f[x] = f[c] - 1
  <2>1. CASE f[c] = n /\ e[c] = U /\ \E x \in OpenNeighbours(c, ws) : e[x] = n - 1
    <3>1. PICK x \in OpenNeighbours(c, ws) : e[x] = n - 1
      BY <2>1
    <3>2. f[x] = e[x]
      <4>1. e[x] # U /\ x \in Cells
        BY <1>4, <1>5, <3>1
      <4> QED BY <1>6, <4>1
    <3> QED BY <2>1, <3>1, <3>2
  <2>2. CASE f[c] = e[c]
    <3>1. e[c] \in 1 .. n - 1
      BY <1>1, <1>5, <1>10, <2>2
    <3>2. PICK x \in OpenNeighbours(c, ws) : e[x] = e[c] - 1
      BY <1>1, <3>1
    <3>3. f[x] = e[x]
      <4>1. e[x] # U /\ x \in Cells
        BY <1>4, <1>5, <3>1, <3>2
      <4> QED BY <1>6, <4>1
    <3> QED BY <2>2, <3>2, <3>3
  <2> QED BY <1>7, <2>1, <2>2
<1>11. ASSUME NEW c \in Cells, NEW x \in OpenNeighbours(c, ws), f[x] \in 0 .. n - 1
       PROVE  f[c] \in 0 .. f[x] + 1
  <2>1. x \in Cells
    BY <1>4
  <2>2. f[x] = e[x]
    BY <1>5, <1>7, <1>11, <2>1
  <2>3. CASE e[x] = n - 1
    <3>1. CASE e[c] = U
      <4>1. f[c] = n
        BY <1>2, <2>3, <3>1
      <4> QED BY <1>5, <2>2, <2>3, <4>1
    <3>2. CASE e[c] \in 0 .. n - 1
      <4>1. f[c] = e[c]
        BY <1>5, <1>6, <3>2
      <4> QED BY <1>5, <2>2, <2>3, <3>2, <4>1
    <3> QED BY <1>1, <3>1, <3>2
  <2>4. CASE e[x] \in 0 .. n - 2
    <3>1. e[c] \in 0 .. e[x] + 1
      BY <1>1, <2>4
    <3>2. e[c] # U
      BY <1>5, <2>4, <3>1
    <3> QED BY <1>6, <2>2, <3>1, <3>2
  <2> QED BY <1>5, <1>11, <2>2, <2>3, <2>4
<1>12. Layers(f, S, ws, U, n)
  BY <1>3, <1>8, <1>9, <1>10, <1>11 DEF Layers
<1> QED BY <1>12 DEF f

\* The steps from the cells S, U where walls are in the way.
IsDistances(e, S, ws, U) ==
  /\ e \in [Cells -> Int]
  /\ \A c \in Cells : e[c] = U \/ e[c] \in 0 .. CellCount - 1
  /\ \A c \in Cells : e[c] = 0 <=> c \in S
  /\ \A c \in Cells : e[c] # U /\ e[c] # 0 => \E x \in OpenNeighbours(c, ws) : e[x] = e[c] - 1
  /\ \A c \in Cells : \A x \in OpenNeighbours(c, ws) : e[x] # U => e[c] # U /\ e[c] <= e[x] + 1

\* so it is so after every round.
LEMMA LayersReach ==
  ASSUME NEW S \in SUBSET Cells, NEW ws, NEW U \in Int, NEW K \in Nat, U \notin 0 .. K, NEW d, Rounds(d, S, ws, U, K)
  PROVE  Layers(d[K], S, ws, U, K)
<1> DEFINE B == {n \in 0 .. K : ~Layers(d[n], S, ws, U, n)}
<1> SUFFICES ASSUME B # {} PROVE FALSE
  OBVIOUS
<1>1. PICK n \in B : \A m \in B : n <= m
  <2>1. B \in SUBSET Nat
    OBVIOUS
  <2> HIDE DEF B
  <2> QED BY <2>1, LeastNumber
<1>2. n # 0
  <2>1. Layers(d[0], S, ws, U, 0)
    BY LayersBegin DEF Rounds
  <2> QED BY <2>1
<1>3. n \in 1 .. K /\ n - 1 \in 0 .. K /\ n - 1 \notin B
  BY <1>1, <1>2
<1>4. Layers(d[n - 1], S, ws, U, n - 1)
  BY <1>3
<1>5. Layers(SearchRound(d[n - 1], n, ws, U), S, ws, U, n)
  <2> DEFINE e == d[n - 1]
  <2>1. Layers(e, S, ws, U, n - 1)
    BY <1>4
  <2> HIDE DEF e
  <2>2. Layers(SearchRound(e, n, ws, U), S, ws, U, n)
    BY <1>3, <2>1, LayersStep
  <2> QED BY <2>2 DEF e
<1> QED BY <1>3, <1>5 DEF Rounds

\* With as many rounds as there are cells, less one, nothing is left to find: were a
\* neighbour of a cell of the last round still without a number, every number would have a
\* cell of its own, and there would be a cell too many.
LEMMA NothingBeyond ==
  ASSUME NEW S \in SUBSET Cells, NEW ws, NEW U \in Int, U \notin 0 .. CellCount - 1, NEW e,
         Layers(e, S, ws, U, CellCount - 1), NEW c \in Cells, e[c] = U, NEW y \in Cells, e[y] = CellCount - 1
  PROVE  FALSE
<1> DEFINE K == CellCount - 1
           B == {j \in 0 .. K : ~\E x \in Cells : e[x] = K - j}
<1>1. K \in Nat /\ Cardinality(Cells) = K + 1
  BY CellsCounted
<1>2. \A x \in Cells : e[x] \in 1 .. K => \E z \in Cells : e[z] = e[x] - 1
  BY NeighbourSymmetric DEF Layers
<1>3. e[y] = K
  OBVIOUS
<1> HIDE DEF K
<1>4. B = {}
  <2> SUFFICES ASSUME B # {} PROVE FALSE
    OBVIOUS
  <2>1. PICK j \in B : \A i \in B : j <= i
    <3>1. B \in SUBSET Nat
      OBVIOUS
    <3> HIDE DEF B
    <3> QED BY <3>1, LeastNumber
  <2>2. j # 0
    BY <1>1, <1>3
  <2>3. j - 1 \in 0 .. K /\ j - 1 \notin B
    BY <1>1, <2>1, <2>2
  <2>4. PICK x \in Cells : e[x] = K - (j - 1)
    BY <2>3
  <2>5. e[x] \in 1 .. K
    BY <1>1, <2>2, <2>4
  <2>6. PICK z \in Cells : e[z] = e[x] - 1
    BY <1>2, <2>5
  <2> QED BY <1>1, <2>1, <2>4, <2>6
<1>5. \A i \in 0 .. K : \E x \in Cells : e[x] = i
  <2> TAKE i \in 0 .. K
  <2>1. K - i \in 0 .. K /\ K - (K - i) = i
    BY <1>1
  <2> QED BY <1>4, <2>1
<1> DEFINE T == Cells \ {c}
           w == [i \in 0 .. K |-> CHOOSE x \in Cells : e[x] = i]
<1>6. \A i \in 0 .. K : w[i] \in Cells /\ e[w[i]] = i
  BY <1>5
<1>7. U \notin 0 .. K
  BY DEF K
<1>8. w \in [0 .. K -> T]
  BY <1>6, <1>7
<1>9. IsFiniteSet(T) /\ Cardinality(T) = K
  BY <1>1, CellsFinite, FS_RemoveElement
<1>10. IsFiniteSet(0 .. K) /\ Cardinality(0 .. K) = K + 1
  <2>1. 0 \in Int /\ K \in Int /\ ~(0 > K) /\ K - 0 + 1 = K + 1
    BY <1>1
  <2> QED BY <2>1, FS_Interval
<1>11. \E i, j \in 0 .. K : i # j /\ w[i] = w[j]
  <2> DEFINE I == 0 .. K
  <2>1. IsFiniteSet(I) /\ Cardinality(T) < Cardinality(I) /\ w \in [I -> T]
    BY <1>1, <1>8, <1>9, <1>10
  <2> HIDE DEF I, T, w
  <2>2. \E i, j \in I : i # j /\ w[i] = w[j]
    BY <1>9, <2>1, FS_PigeonHole
  <2> QED BY <2>2 DEF I
<1> HIDE DEF w
<1> QED BY <1>6, <1>11

\* The rounds there are tell the steps from S of every cell.
LEMMA RoundsReach ==
  ASSUME NEW S \in SUBSET Cells, NEW ws, NEW U \in Int, U \notin 0 .. CellCount - 1, NEW d, Rounds(d, S, ws, U, CellCount - 1)
  PROVE  IsDistances(d[CellCount - 1], S, ws, U)
<1> DEFINE K == CellCount - 1
           e == d[K]
<1>1. K \in Nat
  BY CellsCounted
<1>2. Layers(e, S, ws, U, K)
  BY <1>1, LayersReach
<1>3. U \notin 0 .. K
  OBVIOUS
<1> HIDE DEF e
<1>4. ASSUME NEW c \in Cells, NEW x \in OpenNeighbours(c, ws), e[x] # U
      PROVE  e[c] # U /\ e[c] <= e[x] + 1
  <2>1. x \in Cells
    BY NeighbourSymmetric
  <2>2. e[x] \in 0 .. K /\ (e[c] = U \/ e[c] \in 0 .. K)
    BY <1>2, <1>4, <2>1 DEF Layers
  <2>3. CASE e[x] = K
    <3>1. e[c] # U
      BY <1>2, <2>1, <2>3, NothingBeyond
    <3> QED BY <1>1, <2>2, <2>3, <3>1
  <2>4. CASE e[x] # K
    <3>1. e[x] \in 0 .. K - 1
      BY <1>1, <2>2, <2>4
    <3>2. e[c] \in 0 .. e[x] + 1
      BY <1>2, <3>1 DEF Layers
    <3>3. e[x] + 1 <= K
      BY <1>1, <3>1
    <3> HIDE DEF K
    <3> QED BY <1>1, <1>3, <2>2, <3>1, <3>2, <3>3
  <2> QED BY <2>3, <2>4
<1>5. \A c \in Cells : e[c] # U /\ e[c] # 0 => e[c] \in 1 .. K
  BY <1>1, <1>2 DEF Layers
<1>6. IsDistances(e, S, ws, U)
  BY <1>2, <1>4, <1>5 DEF Layers, IsDistances
<1> QED BY <1>6 DEF e

\* The field of the encoder.
LEMMA FieldIs ==
  ASSUME NEW ws, NEW goalRow
  PROVE  IsDistances(GoalDistanceField(ws, goalRow), GoalCells(goalRow), ws, -1)
<1> DEFINE S == GoalCells(goalRow)
           U == -1
           K == CellCount - 1
<1>1. PICK d : Rounds(d, S, ws, U, K) /\ GoalDistanceField(ws, goalRow) = d[K]
  BY FieldRounds
<1>2. S \in SUBSET Cells /\ U \in Int /\ U \notin 0 .. CellCount - 1
  BY SymbolsOfSearch DEF GoalCells
<1> HIDE DEF S, U
<1>3. IsDistances(d[CellCount - 1], S, ws, U)
  BY <1>1, <1>2, RoundsReach
<1> QED BY <1>1, <1>3 DEF S, U

\* The field says of every cell whether there is a path.
LEMMA FieldTellsPaths ==
  ASSUME NEW ws, NEW goalRow, NEW cell \in Cells
  PROVE  (GoalDistanceField(ws, goalRow)[cell] = -1) <=> ~HasPath(cell, goalRow, ws)
<1> DEFINE e == GoalDistanceField(ws, goalRow)
           U == -1
<1>1. IsDistances(e, GoalCells(goalRow), ws, U)
  BY FieldIs
<1>2. /\ \A c \in Cells : e[c] = U \/ e[c] \in 0 .. CellCount - 1
      /\ \A c \in Cells : e[c] = 0 => c[1] = goalRow
      /\ \A c \in Cells : e[c] = U => c[1] # goalRow
      /\ \A c \in Cells : e[c] # U /\ e[c] # 0 => \E x \in OpenNeighbours(c, ws) : e[x] = e[c] - 1
      /\ \A c \in Cells : \A x \in OpenNeighbours(c, ws) : e[x] # U => e[c] # U
  <2>1. \A c \in Cells : e[c] = 0 <=> c[1] = goalRow
    BY <1>1 DEF IsDistances, GoalCells
  <2> HIDE DEF e
  <2>2. U # 0
    OBVIOUS
  <2> HIDE DEF U
  <2> QED BY <1>1, <2>1, <2>2 DEF IsDistances
<1>3. U = -1
  OBVIOUS
<1> HIDE DEF e, U
<1>4. ASSUME e[cell] = U
      PROVE  ~HasPath(cell, goalRow, ws)
  <2> DEFINE C == {c \in Cells : e[c] = U}
  <2>1. Closed(C, ws)
    <3> SUFFICES ASSUME NEW c \in C, NEW x \in OpenNeighbours(c, ws) PROVE x \in C
      BY DEF Closed
    <3>1. x \in Cells
      BY NeighbourSymmetric
    <3> QED BY <1>2, <3>1
  <2>2. cell \in C /\ ~\E c \in C : c[1] = goalRow
    BY <1>2, <1>4
  <2> QED BY <2>1, <2>2, PathIsReachability
<1>5. ASSUME e[cell] # U
      PROVE  HasPath(cell, goalRow, ws)
  <2> SUFFICES ASSUME NEW C, Closed(C, ws), cell \in C PROVE \E c \in C : c[1] = goalRow
    BY PathIsReachability
  <2>0. C \in SUBSET Cells /\ \A c \in C : OpenNeighbours(c, ws) \subseteq C
    BY DEF Closed
  <2> DEFINE D == {e[c] : c \in {x \in C : e[x] # U}}
  <2>1. D \in SUBSET Nat /\ D # {}
    <3>1. \A x \in C : e[x] # U => e[x] \in Nat
      <4> TAKE x \in C
      <4> HAVE e[x] # U
      <4>1. x \in Cells
        BY <2>0
      <4>2. e[x] \in 0 .. CellCount - 1
        BY <1>2, <4>1
      <4> QED BY <4>2
    <3>2. e[cell] \in D
      BY <1>5
    <3> QED BY <3>1, <3>2
  <2>2. PICK m \in D : \A n \in D : m <= n
    <3> HIDE DEF D
    <3> QED BY <2>1, LeastNumber
  <2>3. PICK c \in C : e[c] # U /\ e[c] = m
    OBVIOUS
  <2>4. e[c] = 0
    <3> SUFFICES ASSUME e[c] # 0 PROVE FALSE
      OBVIOUS
    <3>1. PICK x \in OpenNeighbours(c, ws) : e[x] = e[c] - 1
      BY <1>2, <2>0, <2>3
    <3>2. e[c] \in 0 .. CellCount - 1
      BY <1>2, <2>0, <2>3
    <3>3. x \in C /\ e[x] # U
      BY <1>3, <2>0, <3>1, <3>2
    <3>4. e[x] \in D
      BY <3>3
    <3>5. m <= e[x]
      BY <2>2, <3>4
    <3> QED BY <2>3, <3>1, <3>2, <3>5
  <2> QED BY <1>2, <2>0, <2>4
<1> QED BY <1>3, <1>4, <1>5 DEF e

\* The one of a plane is not zero.
LEMMA OnePositive == One \in Nat /\ One >= 1
<1> DEFINE a == IF StockA = 0 THEN 1 ELSE StockA
           b == IF StockB = 0 THEN 1 ELSE StockB
           r == Rows - 1
           k == CellCount - 1
<1>1. a \in Nat /\ a >= 1 /\ b \in Nat /\ b >= 1 /\ r \in Nat /\ r >= 1 /\ k \in Nat /\ k >= 1
  BY CellsCounted, ConfigAssumption
<1>2. One = 2 * r * k * a * b
  BY DEF One
<1> HIDE DEF a, b, r, k
<1>3. \A m, n \in Nat : m >= 1 /\ n >= 1 => m * n \in Nat /\ m * n >= 1
  BY SMT
<1>4. 2 * r \in Nat /\ 2 * r >= 1
  BY <1>1
<1>5. 2 * r * k \in Nat /\ 2 * r * k >= 1
  BY <1>1, <1>3, <1>4
<1>6. 2 * r * k * a \in Nat /\ 2 * r * k * a >= 1
  BY <1>1, <1>3, <1>5
<1>7. 2 * r * k * a * b \in Nat /\ 2 * r * k * a * b >= 1
  BY <1>1, <1>3, <1>6
<1> QED BY <1>2, <1>7

\* The planes say of every step whether a wall bars it.
LEMMA PlanesTellEdges ==
  ASSUME NEW c \in Cells, NEW ws, NEW near \in Adjacent[c]
  PROVE  EdgeIsBlocked(BlockedEdges(ws), near, c) <=> EdgeBlocked(c, near, ws)
<1>1. \A cell \in Cells :
        /\ BlockedEdges(ws).h[cell] = IF <<cell[1] + 1, cell[2]>> \in Cells /\ EdgeBlocked(cell, <<cell[1] + 1, cell[2]>>, ws) THEN One ELSE 0
        /\ BlockedEdges(ws).v[cell] = IF <<cell[1], cell[2] + 1>> \in Cells /\ EdgeBlocked(cell, <<cell[1], cell[2] + 1>>, ws) THEN One ELSE 0
  BY TableIs DEF BlockedEdges, WallPlane
<1>2. One # 0
  BY OnePositive
<1>3. near \in {<<c[1]-1, c[2]>>, <<c[1], c[2]-1>>, <<c[1], c[2]+1>>, <<c[1]+1, c[2]>>} /\ near \in Cells
  BY DEF Adjacent
<1>4. c[1] \in Int /\ c[2] \in Int /\ near[1] \in Int /\ near[2] \in Int /\ c = <<c[1], c[2]>> /\ near = <<near[1], near[2]>>
  BY <1>3, ConfigAssumption DEF Cells
<1>5. CASE near = <<c[1]-1, c[2]>>
  <2>1. c = <<near[1] + 1, near[2]>> /\ near[1] # c[1] /\ near[1] < c[1] /\ ~(c[1] < near[1]) /\ near[2] = c[2]
    BY <1>4, <1>5
  <2>2. BlockedEdges(ws).h[near] = IF EdgeBlocked(near, c, ws) THEN One ELSE 0
    BY <1>1, <1>3, <2>1
  <2>3. EdgeIsBlocked(BlockedEdges(ws), near, c) <=> BlockedEdges(ws).h[near] # 0
    BY <1>4, <2>1 DEF EdgeIsBlocked
  <2>4. EdgeBlocked(near, c, ws) <=> EdgeBlocked(c, near, ws)
    BY <2>1 DEF EdgeBlocked
  <2> QED BY <1>2, <2>2, <2>3, <2>4
<1>6. CASE near = <<c[1]+1, c[2]>>
  <2>1. near = <<c[1] + 1, c[2]>> /\ near[1] # c[1] /\ ~(near[1] < c[1]) /\ near[2] = c[2]
    BY <1>4, <1>6
  <2>2. BlockedEdges(ws).h[c] = IF EdgeBlocked(c, near, ws) THEN One ELSE 0
    BY <1>1, <1>3, <2>1
  <2>3. EdgeIsBlocked(BlockedEdges(ws), near, c) <=> BlockedEdges(ws).h[c] # 0
    BY <1>4, <2>1 DEF EdgeIsBlocked
  <2> QED BY <1>2, <2>2, <2>3
<1>7. CASE near = <<c[1], c[2]-1>>
  <2>1. c = <<near[1], near[2] + 1>> /\ near[1] = c[1] /\ near[2] < c[2] /\ ~(c[2] < near[2])
    BY <1>4, <1>7
  <2>2. BlockedEdges(ws).v[near] = IF EdgeBlocked(near, c, ws) THEN One ELSE 0
    BY <1>1, <1>3, <2>1
  <2>3. EdgeIsBlocked(BlockedEdges(ws), near, c) <=> BlockedEdges(ws).v[near] # 0
    BY <1>4, <2>1 DEF EdgeIsBlocked
  <2>4. EdgeBlocked(near, c, ws) <=> EdgeBlocked(c, near, ws)
    BY <2>1 DEF EdgeBlocked
  <2> QED BY <1>2, <2>2, <2>3, <2>4
<1>8. CASE near = <<c[1], c[2]+1>>
  <2>1. near = <<c[1], c[2] + 1>> /\ near[1] = c[1] /\ ~(near[2] < c[2]) /\ c[2] < near[2]
    BY <1>4, <1>8
  <2>2. BlockedEdges(ws).v[c] = IF EdgeBlocked(c, near, ws) THEN One ELSE 0
    BY <1>1, <1>3, <2>1
  <2>3. EdgeIsBlocked(BlockedEdges(ws), near, c) <=> BlockedEdges(ws).v[c] # 0
    BY <1>4, <2>1 DEF EdgeIsBlocked
  <2> QED BY <1>2, <2>2, <2>3
<1> QED BY <1>3, <1>5, <1>6, <1>7, <1>8

\* The steps from a pawn and the steps to the goal row are those of the same ways: what is
\* so far from the pawn, and so far from the row, is on one of that length.
LEMMA Triangle ==
  ASSUME NEW ws, NEW from \in Cells, NEW goalRow, NEW U \in Int, U \notin 0 .. CellCount - 1, NEW e, NEW f,
         IsDistances(e, {from}, ws, U), IsDistances(f, GoalCells(goalRow), ws, -1), NEW c \in Cells, e[c] # U, f[c] # -1
  PROVE  f[from] # -1 /\ f[from] <= e[c] + f[c]
<1> DEFINE W == -1
           Bad == {x \in Cells : e[x] # U /\ f[x] # W /\ ~(f[from] # W /\ f[from] <= e[x] + f[x])}
           D == {e[x] : x \in Bad}
<1>1. /\ \A x \in Cells : e[x] # U => e[x] \in Nat
      /\ \A x \in Cells : e[x] = 0 <=> x = from
      /\ \A x \in Cells : e[x] # U /\ e[x] # 0 => \E z \in OpenNeighbours(x, ws) : e[z] = e[x] - 1
  BY DEF IsDistances
<1>2. /\ \A x \in Cells : f[x] # W => f[x] \in Nat
      /\ \A x \in Cells : \A z \in OpenNeighbours(x, ws) : f[z] # W => f[x] # W /\ f[x] <= f[z] + 1
  BY DEF IsDistances
<1>3. U \notin Nat \/ U >= CellCount
  BY CellsCounted
<1>4. \A x \in Cells : e[x] # U => e[x] < CellCount
  BY CellsCounted DEF IsDistances
<1> SUFFICES Bad = {}
  OBVIOUS
<1> SUFFICES ASSUME Bad # {} PROVE FALSE
  OBVIOUS
<1>5. D \in SUBSET Nat /\ D # {}
  BY <1>1
<1>6. PICK m \in D : \A n \in D : m <= n
  <2> HIDE DEF D
  <2> QED BY <1>5, LeastNumber
<1>7. PICK x \in Bad : e[x] = m
  OBVIOUS
<1>8. x \in Cells /\ e[x] # U /\ f[x] # W /\ ~(f[from] # W /\ f[from] <= e[x] + f[x]) /\ e[x] \in Nat /\ f[x] \in Nat
  BY <1>1, <1>2
<1>9. e[x] # 0
  BY <1>1, <1>8
<1>10. PICK z \in OpenNeighbours(x, ws) : e[z] = e[x] - 1
  BY <1>1, <1>8, <1>9
<1>11. z \in Cells /\ x \in OpenNeighbours(z, ws)
  BY <1>8, NeighbourSymmetric
<1>12. e[z] \in Nat /\ e[z] # U
  BY <1>3, <1>4, <1>8, <1>9, <1>10, CellsCounted
<1>13. f[z] # W /\ f[z] <= f[x] + 1 /\ f[z] \in Nat
  BY <1>2, <1>8, <1>11
<1>14. z \notin Bad
  <2> SUFFICES ASSUME z \in Bad PROVE FALSE
    OBVIOUS
  <2>1. e[z] \in D
    OBVIOUS
  <2>2. m <= e[z]
    BY <1>6, <2>1
  <2> QED BY <1>7, <1>8, <1>10, <2>2
<1>15. f[from] # W /\ f[from] <= e[z] + f[z]
  BY <1>11, <1>12, <1>13, <1>14
<1>16. f[from] \in Nat
  BY <1>2, <1>15
<1> HIDE DEF Bad, D, W
<1> QED BY <1>8, <1>10, <1>12, <1>13, <1>15, <1>16

\* And from a cell that the pawn reaches its way goes on, down the field, to the row.
LEMMA WayDown ==
  ASSUME NEW ws, NEW from \in Cells, NEW goalRow, NEW U \in Int, U >= CellCount, NEW e, NEW f,
         IsDistances(e, {from}, ws, U), IsDistances(f, GoalCells(goalRow), ws, -1), NEW c \in Cells, e[c] # U, f[c] # -1
  PROVE  \E g \in GoalCells(goalRow) : e[g] # U /\ e[g] <= e[c] + f[c]
<1> DEFINE W == -1
           Fine(x) == \E g \in GoalCells(goalRow) : e[g] # U /\ e[g] <= e[x] + f[x]
           Bad == {x \in Cells : e[x] # U /\ f[x] # W /\ ~Fine(x)}
           D == {f[x] : x \in Bad}
<1>1. /\ \A x \in Cells : f[x] # W => f[x] \in Nat
      /\ \A x \in Cells : f[x] = 0 <=> x \in GoalCells(goalRow)
      /\ \A x \in Cells : f[x] # W /\ f[x] # 0 => \E z \in OpenNeighbours(x, ws) : f[z] = f[x] - 1
  BY DEF IsDistances
<1>2. /\ \A x \in Cells : e[x] # U => e[x] \in Nat
      /\ \A x \in Cells : \A z \in OpenNeighbours(x, ws) : e[z] # U => e[x] # U /\ e[x] <= e[z] + 1
  BY DEF IsDistances
<1>3. W \notin Nat
  OBVIOUS
<1> SUFFICES Bad = {}
  OBVIOUS
<1> SUFFICES ASSUME Bad # {} PROVE FALSE
  OBVIOUS
<1>5. D \in SUBSET Nat /\ D # {}
  <2> HIDE DEF Fine, W
  <2> QED BY <1>1
<1>6. PICK m \in D : \A n \in D : m <= n
  <2> HIDE DEF D
  <2> QED BY <1>5, LeastNumber
<1>7. PICK x \in Bad : f[x] = m
  OBVIOUS
<1> HIDE DEF Fine, W
<1>8. x \in Cells /\ e[x] # U /\ f[x] # W /\ ~Fine(x) /\ e[x] \in Nat /\ f[x] \in Nat
  BY <1>1, <1>2
<1>9. f[x] # 0
  <2> SUFFICES ASSUME f[x] = 0 PROVE FALSE
    OBVIOUS
  <2>1. x \in GoalCells(goalRow) /\ e[x] <= e[x] + f[x]
    BY <1>1, <1>8
  <2> QED BY <1>8, <2>1 DEF Fine
<1>10. PICK z \in OpenNeighbours(x, ws) : f[z] = f[x] - 1
  BY <1>1, <1>8, <1>9
<1>11. z \in Cells /\ x \in OpenNeighbours(z, ws)
  BY <1>8, NeighbourSymmetric
<1>12. f[z] \in Nat /\ f[z] # W
  BY <1>3, <1>8, <1>9, <1>10
<1>13. e[z] # U /\ e[z] <= e[x] + 1 /\ e[z] \in Nat
  BY <1>2, <1>8, <1>11
<1>14. z \notin Bad
  <2> SUFFICES ASSUME z \in Bad PROVE FALSE
    OBVIOUS
  <2>1. f[z] \in D
    OBVIOUS
  <2>2. m <= f[z]
    BY <1>6, <2>1
  <2> QED BY <1>7, <1>8, <1>10, <2>2
<1>15. Fine(z)
  BY <1>11, <1>12, <1>13, <1>14
<1>16. PICK g \in GoalCells(goalRow) : e[g] # U /\ e[g] <= e[z] + f[z]
  BY <1>15 DEF Fine
<1>17. e[g] \in Nat
  BY <1>2, <1>16 DEF GoalCells
<1>18. e[g] <= e[x] + f[x]
  BY <1>8, <1>10, <1>12, <1>13, <1>16, <1>17
<1> QED BY <1>8, <1>16, <1>18 DEF Fine

\* The least of some numbers.
LeastOf(N) == CHOOSE d \in N : \A other \in N : d <= other

\* Of the numbers that e gives the cells R, m is the least, and a cell has it.
LeastIs(e, m, R) ==
  /\ LeastOf({e[cell] : cell \in R}) = m
  /\ m \in 0 .. CellCount - 1
  /\ \E g \in R : e[g] = m
  /\ \A g \in R : m <= e[g]

\* The least of the distances from the pawn to the cells of the row is the field at the pawn.
LEMMA LeastIsField ==
  ASSUME NEW ws, NEW from \in Cells, NEW goalRow, NEW e, NEW f,
         IsDistances(e, {from}, ws, CellCount), IsDistances(f, GoalCells(goalRow), ws, -1), f[from] # -1
  PROVE  LeastIs(e, f[from], GoalCells(goalRow))
<1> DEFINE N == {e[cell] : cell \in GoalCells(goalRow)}
           W == -1
<1>1. CellCount \in Int /\ CellCount \in Nat /\ CellCount \notin 0 .. CellCount - 1
  BY CellsCounted
<1>2. f[from] \in 0 .. CellCount - 1
  BY DEF IsDistances
<1>3. e[from] = 0 /\ e[from] # CellCount
  <2>1. e[from] = 0
    BY DEF IsDistances
  <2> QED BY <2>1, CellsCounted
<1>4. \A x \in Cells : e[x] \in Nat /\ e[x] <= CellCount
  BY <1>1 DEF IsDistances
<1>5. \A g \in GoalCells(goalRow) : f[from] <= e[g] /\ e[g] \in Nat
  <2> TAKE g \in GoalCells(goalRow)
  <2>1. g \in Cells /\ f[g] = 0
    BY DEF GoalCells, IsDistances
  <2>2. CASE e[g] = CellCount
    BY <1>1, <1>2, <2>2
  <2>3. CASE e[g] # CellCount
    <3>1. f[g] # -1
      BY <2>1
    <3>2. f[from] <= e[g] + f[g]
      BY <1>1, <2>1, <2>3, <3>1, Triangle
    <3> QED BY <1>2, <1>4, <2>1, <3>2
  <2> QED BY <2>2, <2>3
<1>6. PICK g \in GoalCells(goalRow) : e[g] # CellCount /\ e[g] <= e[from] + f[from]
  <2>1. CellCount >= CellCount
    BY <1>1
  <2> QED BY <1>1, <1>3, <2>1, WayDown
<1>7. e[g] = f[from]
  BY <1>2, <1>3, <1>5, <1>6
<1>8. f[from] \in N /\ \A other \in N : f[from] <= other /\ other \in Nat
  BY <1>5, <1>7
<1>9. \A d \in N : (\A other \in N : d <= other) => d = f[from]
  <2> HIDE DEF N
  <2> TAKE d \in N
  <2> HAVE \A other \in N : d <= other
  <2>1. d <= f[from] /\ f[from] <= d /\ d \in Nat
    BY <1>8
  <2> QED BY <1>2, <2>1
<1>10. LeastOf(N) = f[from]
  <2> HIDE DEF N
  <2> QED BY <1>8, <1>9 DEF LeastOf
<1> QED BY <1>2, <1>5, <1>7, <1>10 DEF LeastIs

\* The recursion by which the evaluator folds its rounds from a pawn.
IsPawnFold(it, blocked, from) ==
  it = [s \in SUBSET DOMAIN [n \in 1 .. CellCount - 1 |-> n] |->
          IF s = {} THEN Table([cell \in Cells |-> IF cell = from THEN 0 ELSE Infinite])
          ELSE Table([cell \in Cells |->
                IF it[s \ {Max(s)}][cell] = Infinite
                   /\ \E near \in Adjacent[cell] :
                        it[s \ {Max(s)}][near] = [n \in 1 .. CellCount - 1 |-> n][Max(s)] - 1 /\ ~EdgeIsBlocked(blocked, near, cell)
                THEN [n \in 1 .. CellCount - 1 |-> n][Max(s)] ELSE it[s \ {Max(s)}][cell]])]

\* What it comes to.
StepsFrom(blocked, from) == (CHOOSE it : IsPawnFold(it, blocked, from))[DOMAIN [n \in 1 .. CellCount - 1 |-> n]]

\* The evaluator's distance is the least its fold gives a cell of the row.
LEMMA GoalDistanceUnfolds ==
  ASSUME NEW blocked, NEW from, NEW goalRow
  PROVE  GoalDistance(blocked, from, goalRow) = LeastOf({StepsFrom(blocked, from)[cell] : cell \in GoalCells(goalRow)})
BY DEF GoalDistance, FoldLeft, MapThenFoldSet, IsPawnFold, StepsFrom, LeastOf, GoalCells

\* The search of the evaluator is a search from the pawn.
LEMMA StepsFromIs ==
  ASSUME NEW ws, NEW from \in Cells
  PROVE  IsDistances(StepsFrom(BlockedEdges(ws), from), {from}, ws, CellCount)
<1> DEFINE K == CellCount - 1
           S == {from}
           U == CellCount
           seq == [n \in 1 .. CellCount - 1 |-> n]
           blocked == BlockedEdges(ws)
           it == CHOOSE f : IsPawnFold(f, blocked, from)
           Body(f, s) == [cell \in Cells |->
                  IF f[s \ {Max(s)}][cell] = Infinite
                     /\ \E near \in Adjacent[cell] :
                          f[s \ {Max(s)}][near] = seq[Max(s)] - 1 /\ ~EdgeIsBlocked(blocked, near, cell)
                  THEN seq[Max(s)] ELSE f[s \ {Max(s)}][cell]]
           Base == [cell \in Cells |-> IF cell = from THEN 0 ELSE Infinite]
<1>1. K \in Nat /\ U \in Int /\ DOMAIN seq = 1 .. K /\ U \notin 0 .. CellCount - 1 /\ Infinite = U
  BY SymbolsOfSearch DEF Infinite
<1>2. ASSUME NEW f
      PROVE  IsPawnFold(f, blocked, from) <=> IsSearchFold(f, S, ws, U, K)
  <2>1. Table(Base) = SearchStart(S, U)
    BY <1>1, TableIs DEF SearchStart
  <2>2. ASSUME NEW s \in SUBSET (1 .. K), s # {}
        PROVE  Table(Body(f, s)) = SearchRound(f[s \ {Max(s)}], Max(s), ws, U)
    <3>1. Max(s) \in s
      BY <1>1, <2>2, GreatestNumber
    <3>2. seq[Max(s)] = Max(s)
      BY <1>1, <3>1
    <3>3. ASSUME NEW cell \in Cells, NEW h, NEW m
          PROVE  (\E near \in Adjacent[cell] : h[near] = m - 1 /\ ~EdgeIsBlocked(blocked, near, cell))
                 <=> \E near \in OpenNeighbours(cell, ws) : h[near] = m - 1
      <4>1. \A near \in Adjacent[cell] : EdgeIsBlocked(blocked, near, cell) <=> EdgeBlocked(cell, near, ws)
        BY PlanesTellEdges
      <4> HIDE DEF blocked
      <4> QED BY <4>1 DEF OpenNeighbours
    <3> HIDE DEF seq, K, S, blocked
    <3>4. Body(f, s) = SearchRound(f[s \ {Max(s)}], Max(s), ws, U)
      <4> DEFINE h == f[s \ {Max(s)}]
                 m == Max(s)
      <4>1. Body(f, s) = [cell \in Cells |->
                  IF h[cell] = U /\ \E near \in Adjacent[cell] : h[near] = m - 1 /\ ~EdgeIsBlocked(blocked, near, cell)
                  THEN m ELSE h[cell]]
        BY <1>1, <3>2
      <4> HIDE DEF h, m, Body, U
      <4>2. [cell \in Cells |->
                  IF h[cell] = U /\ \E near \in Adjacent[cell] : h[near] = m - 1 /\ ~EdgeIsBlocked(blocked, near, cell)
                  THEN m ELSE h[cell]] = SearchRound(h, m, ws, U)
        BY <3>3 DEF SearchRound
      <4>3. Body(f, s) = SearchRound(h, m, ws, U)
        BY <4>1, <4>2
      <4> QED BY <4>3 DEF h, m
    <3> HIDE DEF Body
    <3> QED BY <3>4, TableIs
  <2>3. IsPawnFold(f, blocked, from) <=>
          f = [s \in SUBSET (1 .. K) |-> IF s = {} THEN Table(Base) ELSE Table(Body(f, s))]
    BY <1>1 DEF IsPawnFold
  <2> HIDE DEF seq, K, S, Base, Body, U
  <2>4. [s \in SUBSET (1 .. K) |-> IF s = {} THEN Table(Base) ELSE Table(Body(f, s))]
        = [s \in SUBSET (1 .. K) |-> IF s = {} THEN SearchStart(S, U)
                                  ELSE SearchRound(f[s \ {Max(s)}], Max(s), ws, U)]
    BY <2>1, <2>2
  <2> QED BY <2>3, <2>4 DEF IsSearchFold
<1>3. StepsFrom(blocked, from) = it[1 .. K]
  BY <1>1 DEF StepsFrom
<1> HIDE DEF S, seq, Base, Body, blocked, U
<1>4. \E f : IsPawnFold(f, blocked, from)
  BY <1>1, <1>2, SearchFoldDefined
<1>5. IsSearchFold(it, S, ws, U, K)
  BY <1>2, <1>4
<1> HIDE DEF it
<1> DEFINE d == [n \in 0 .. K |-> it[1 .. n]]
<1>6. Rounds(d, S, ws, U, K)
  BY <1>1, <1>5, SearchFoldSteps
<1>7. d[K] = it[1 .. K]
  BY <1>1
<1> HIDE DEF d
<1>8. S \in SUBSET Cells
  BY DEF S
<1>9. IsDistances(d[CellCount - 1], S, ws, U)
  BY <1>1, <1>6, <1>8, RoundsReach
<1> QED BY <1>3, <1>7, <1>9 DEF S, U, blocked

\* So it finds the field at the pawn.
LEMMA GoalDistanceIs ==
  ASSUME NEW ws, NEW from \in Cells, NEW goalRow, GoalDistanceField(ws, goalRow)[from] # -1
  PROVE  GoalDistance(BlockedEdges(ws), from, goalRow) = GoalDistanceField(ws, goalRow)[from]
<1> DEFINE e == StepsFrom(BlockedEdges(ws), from)
           f == GoalDistanceField(ws, goalRow)
<1>1. IsDistances(e, {from}, ws, CellCount) /\ IsDistances(f, GoalCells(goalRow), ws, -1)
  BY StepsFromIs, FieldIs
<1>2. GoalDistance(BlockedEdges(ws), from, goalRow) = LeastOf({e[cell] : cell \in GoalCells(goalRow)})
  BY GoalDistanceUnfolds
<1>3. f[from] # -1
  OBVIOUS
<1> HIDE DEF e, f
<1>4. LeastIs(e, f[from], GoalCells(goalRow))
  BY <1>1, <1>3, LeastIsField
<1> QED BY <1>2, <1>4 DEF f, LeastIs

\* The anchors whose walls bar a step are those that the rules look for.
LEMMA AnchorsTellEdges ==
  ASSUME NEW c \in Cells, NEW ws, NEW near \in Adjacent[c]
  PROVE  BarringAnchors(near, c) \cap ws = {} <=> ~EdgeBlocked(c, near, ws)
<1>1. near \in {<<c[1]-1, c[2]>>, <<c[1], c[2]-1>>, <<c[1], c[2]+1>>, <<c[1]+1, c[2]>>} /\ near \in Cells
  BY DEF Adjacent
<1>2. c[1] \in Int /\ c[2] \in Int /\ near[1] \in Int /\ near[2] \in Int
  BY <1>1, ConfigAssumption DEF Cells
<1>3. \A x, y : {x, y} \cap ws = {} <=> ~(x \in ws \/ y \in ws)
  OBVIOUS
<1>4. CASE near[1] # c[1]
  <2> DEFINE row == IF near[1] < c[1] THEN near[1] ELSE c[1]
  <2>1. near[2] = c[2] /\ row = IF c[1] < near[1] THEN c[1] ELSE near[1]
    BY <1>1, <1>2, <1>4
  <2>2. BarringAnchors(near, c) = {<<"H", row, c[2]>>, <<"H", row, c[2] - 1>>}
    BY <2>1 DEF BarringAnchors
  <2>3. EdgeBlocked(c, near, ws) <=> (<<"H", row, c[2]>> \in ws \/ <<"H", row, c[2] - 1>> \in ws)
    BY <1>4, <2>1 DEF EdgeBlocked
  <2> HIDE DEF row
  <2> QED BY <1>3, <2>2, <2>3
<1>5. CASE near[1] = c[1]
  <2> DEFINE column == IF near[2] < c[2] THEN near[2] ELSE c[2]
  <2>1. near[2] # c[2] /\ column = IF c[2] < near[2] THEN c[2] ELSE near[2]
    BY <1>1, <1>2, <1>5
  <2>2. BarringAnchors(near, c) = {<<"V", c[1], column>>, <<"V", c[1] - 1, column>>}
    BY <1>5, <2>1 DEF BarringAnchors
  <2>3. EdgeBlocked(c, near, ws) <=> (<<"V", c[1], column>> \in ws \/ <<"V", c[1] - 1, column>> \in ws)
    BY <1>5, <2>1 DEF EdgeBlocked
  <2> HIDE DEF column
  <2> QED BY <1>3, <2>2, <2>3
<1> QED BY <1>4, <1>5

\* One round of the search of the opening generator.
Widened(sofar, n, goalRow, ws) ==
  IF (\E cell \in sofar.within : cell[1] = goalRow) \/ sofar.steps = Infinite THEN sofar
  ELSE [within |-> sofar.within \cup {cell \in Cells : \E near \in Adjacent[cell] \cap sofar.within :
                                                        BarringAnchors(near, cell) \cap ws = {}},
        steps |-> n]

\* The recursion by which the generator folds its rounds.
IsWideFold(it, start, goalRow, ws) ==
  it = [s \in SUBSET DOMAIN [n \in 1 .. CellCount |-> n] |->
          IF s = {} THEN [within |-> {start}, steps |-> 0]
          ELSE Widened(it[s \ {Max(s)}], [n \in 1 .. CellCount |-> n][Max(s)], goalRow, ws)]

\* The generator's distance is the number of steps its fold ends with.
LEMMA WallOnlyUnfolds ==
  ASSUME NEW start, NEW goalRow, NEW ws
  PROVE  ShortestWallOnlyDistance(start, goalRow, ws)
         = (CHOOSE it : IsWideFold(it, start, goalRow, ws))[DOMAIN [n \in 1 .. CellCount |-> n]].steps
BY DEF ShortestWallOnlyDistance, FoldLeft, MapThenFoldSet, IsWideFold, Widened

\* The cells within k steps of the pawn.
Ball(e, k) == [within |-> {c \in Cells : e[c] <= k}, steps |-> k]

\* Until the row is reached a round adds the cells that are one step further off,
LEMMA BallGrows ==
  ASSUME NEW ws, NEW from \in Cells, NEW goalRow, NEW e, NEW m, IsDistances(e, {from}, ws, CellCount),
         LeastIs(e, m, GoalCells(goalRow)), NEW n \in Nat, n >= 1, n <= m
  PROVE  Widened(Ball(e, n - 1), n, goalRow, ws) = Ball(e, n)
<1> DEFINE U == CellCount
           In(k) == {c \in Cells : e[c] <= k}
           Wider == In(n - 1) \cup {cell \in Cells : \E near \in Adjacent[cell] \cap In(n - 1) : BarringAnchors(near, cell) \cap ws = {}}
<1>1. U \in Nat /\ Infinite = U /\ m \in 0 .. U - 1 /\ \A g \in Cells : g[1] = goalRow => m <= e[g]
  BY CellsCounted DEF Infinite, LeastIs, GoalCells
<1>2. /\ \A c \in Cells : e[c] = U \/ e[c] \in 0 .. U - 1
      /\ \A c \in Cells : e[c] # U /\ e[c] # 0 => \E x \in OpenNeighbours(c, ws) : e[x] = e[c] - 1
      /\ \A c \in Cells : \A x \in OpenNeighbours(c, ws) : e[x] # U => e[c] # U /\ e[c] <= e[x] + 1
  BY DEF IsDistances
<1> HIDE DEF U
<1>3. \A c \in Cells : e[c] \in Nat /\ (e[c] <= n => e[c] # U)
  BY <1>1, <1>2
<1>4. ~\E cell \in In(n - 1) : cell[1] = goalRow
  BY <1>1, <1>3
<1>5. Wider = In(n)
  <2>1. ASSUME NEW c \in Wider
        PROVE  c \in In(n)
    <3>1. CASE c \in In(n - 1)
      BY <1>3, <3>1
    <3>2. CASE c \in Cells /\ \E near \in Adjacent[c] \cap In(n - 1) : BarringAnchors(near, c) \cap ws = {}
      <4>1. PICK near \in Adjacent[c] : near \in In(n - 1) /\ BarringAnchors(near, c) \cap ws = {}
        BY <3>2
      <4>2. near \in OpenNeighbours(c, ws)
        BY <3>2, <4>1, AnchorsTellEdges DEF OpenNeighbours
      <4>3. near \in Cells /\ e[near] <= n - 1 /\ e[near] \in Nat /\ e[near] # U
        BY <1>3, <4>1
      <4>4. e[c] <= e[near] + 1 /\ e[c] \in Nat
        BY <1>2, <1>3, <3>2, <4>2, <4>3
      <4> QED BY <3>2, <4>3, <4>4
    <3> QED BY <2>1, <3>1, <3>2
  <2>2. ASSUME NEW c \in In(n)
        PROVE  c \in Wider
    <3>1. CASE e[c] <= n - 1
      BY <3>1
    <3>2. CASE ~(e[c] <= n - 1)
      <4>1. c \in Cells /\ e[c] = n /\ e[c] # U /\ e[c] # 0
        BY <1>3, <3>2
      <4>2. PICK x \in OpenNeighbours(c, ws) : e[x] = n - 1
        BY <1>2, <4>1
      <4>3. x \in Cells /\ x \in Adjacent[c] /\ ~EdgeBlocked(c, x, ws)
        BY <4>1, NeighbourSymmetric DEF OpenNeighbours
      <4>4. BarringAnchors(x, c) \cap ws = {}
        BY <4>1, <4>3, AnchorsTellEdges
      <4>5. x \in In(n - 1)
        BY <4>2, <4>3
      <4> QED BY <4>1, <4>3, <4>4, <4>5
    <3> QED BY <3>1, <3>2
  <2> HIDE DEF Wider, In
  <2> QED BY <2>1, <2>2
<1>6. Ball(e, n - 1).within = In(n - 1) /\ Ball(e, n - 1).steps = n - 1 /\ n - 1 # Infinite
  BY <1>1 DEF Ball
<1>7. Widened(Ball(e, n - 1), n, goalRow, ws) = [within |-> Wider, steps |-> n]
  <2> HIDE DEF In
  <2> QED BY <1>4, <1>6 DEF Widened
<1> QED BY <1>5, <1>7 DEF Ball

\* and then it adds nothing.
LEMMA BallArrived ==
  ASSUME NEW ws, NEW goalRow, NEW e, NEW m, LeastIs(e, m, GoalCells(goalRow)), NEW n
  PROVE  Widened(Ball(e, m), n, goalRow, ws) = Ball(e, m)
<1>1. PICK g \in GoalCells(goalRow) : e[g] = m
  BY DEF LeastIs
<1>2. g \in Cells /\ g[1] = goalRow /\ e[g] <= m
  BY <1>1 DEF GoalCells, LeastIs
<1>3. \E cell \in Ball(e, m).within : cell[1] = goalRow
  BY <1>2 DEF Ball
<1> QED BY <1>3 DEF Widened

\* The same over the numbers 1 to K.
IsWideFoldTo(it, start, goalRow, ws, K) ==
  it = [s \in SUBSET (1 .. K) |-> IF s = {} THEN [within |-> {start}, steps |-> 0]
                                  ELSE Widened(it[s \ {Max(s)}], Max(s), goalRow, ws)]

\* The recursion of that fold has a solution.
LEMMA WideFoldDefined ==
  ASSUME NEW start \in Cells, NEW goalRow, NEW ws, NEW K \in Nat
  PROVE  \E it : IsWideFoldTo(it, start, goalRow, ws, K)
<1> DEFINE X == [within : SUBSET Cells, steps : Int]
           F == [p \in X \X (1 .. K) |-> Widened(p[1], p[2], goalRow, ws)]
           base == [within |-> {start}, steps |-> 0]
<1>1. base \in X
  OBVIOUS
<1>2. F \in [X \X (1 .. K) -> X]
  <2> SUFFICES ASSUME NEW d \in X, NEW n \in 1 .. K
               PROVE  Widened(d, n, goalRow, ws) \in X
    OBVIOUS
  <2> QED BY DEF Widened
<1>3. \A d \in X, n \in 1 .. K : F[<<d, n>>] = Widened(d, n, goalRow, ws)
  OBVIOUS
<1> HIDE DEF X, F, base
<1>4. PICK it : IsFold(it, base, F, 1 .. K)
  BY FoldDefined
<1>5. \A s \in SUBSET (1 .. K) : it[s] \in X
  BY <1>1, <1>2, <1>4, FoldTyped
<1>6. \A s \in SUBSET (1 .. K) : s # {} => F[<<it[s \ {Max(s)}], Max(s)>>] = Widened(it[s \ {Max(s)}], Max(s), goalRow, ws)
  <2> TAKE s \in SUBSET (1 .. K)
  <2> HAVE s # {}
  <2>1. Max(s) \in s
    BY GreatestNumber
  <2>2. s \ {Max(s)} \in SUBSET (1 .. K) /\ Max(s) \in 1 .. K
    BY <2>1
  <2> QED BY <1>3, <1>5, <2>2
<1>7. it = [s \in SUBSET (1 .. K) |-> IF s = {} THEN base ELSE F[<<it[s \ {Max(s)}], Max(s)>>]]
  BY <1>4 DEF IsFold
<1>8. it = [s \in SUBSET (1 .. K) |-> IF s = {} THEN base ELSE Widened(it[s \ {Max(s)}], Max(s), goalRow, ws)]
  BY <1>6, <1>7
<1> QED BY <1>8 DEF base, IsWideFoldTo

\* The search of the generator is as long as the field says.
LEMMA WallOnlyIsField ==
  ASSUME NEW ws, NEW from \in Cells, NEW goalRow, GoalDistanceField(ws, goalRow)[from] # -1
  PROVE  ShortestWallOnlyDistance(from, goalRow, ws) = GoalDistanceField(ws, goalRow)[from]
<1> DEFINE e == StepsFrom(BlockedEdges(ws), from)
           f == GoalDistanceField(ws, goalRow)
           K == CellCount
           seq == [n \in 1 .. CellCount |-> n]
           base == [within |-> {from}, steps |-> 0]
           it == CHOOSE h : IsWideFold(h, from, goalRow, ws)
           Fold(h) == IsWideFoldTo(h, from, goalRow, ws, K)
<1>1. IsDistances(e, {from}, ws, CellCount) /\ IsDistances(f, GoalCells(goalRow), ws, -1)
  BY StepsFromIs, FieldIs
<1>2. K \in Nat /\ DOMAIN seq = 1 .. K
  BY CellsCounted
<1>3. ShortestWallOnlyDistance(from, goalRow, ws) = it[1 .. K].steps
  BY <1>2, WallOnlyUnfolds
<1>4. \E h : Fold(h)
  <2> HIDE DEF K
  <2> QED BY <1>2, WideFoldDefined
<1>5. ASSUME NEW h
      PROVE  IsWideFold(h, from, goalRow, ws) <=> Fold(h)
  <2>1. \A s \in SUBSET (1 .. K) : s # {} => seq[Max(s)] = Max(s)
    BY <1>2, GreatestNumber
  <2>2. IsWideFold(h, from, goalRow, ws) <=>
          h = [s \in SUBSET (1 .. K) |-> IF s = {} THEN base ELSE Widened(h[s \ {Max(s)}], seq[Max(s)], goalRow, ws)]
    BY <1>2 DEF IsWideFold
  <2>3. Fold(h) <=> h = [s \in SUBSET (1 .. K) |-> IF s = {} THEN base ELSE Widened(h[s \ {Max(s)}], Max(s), goalRow, ws)]
    BY DEF IsWideFoldTo
  <2> HIDE DEF seq, K, base, Fold
  <2> QED BY <2>1, <2>2, <2>3
<1>6. Fold(it)
  <2> HIDE DEF Fold
  <2> QED BY <1>4, <1>5
<1> DEFINE m == f[from]
<1>7. m # -1
  OBVIOUS
<1> HIDE DEF e, f, seq, base, it, K
<1>8. LeastIs(e, m, GoalCells(goalRow))
  BY <1>1, <1>7, LeastIsField
<1> HIDE DEF m
<1>9. m \in Nat /\ m < K
  BY <1>2, <1>8 DEF LeastIs, K
<1>10. it[{}] = base /\ \A n \in 1 .. K : it[1 .. n] = Widened(it[1 .. n - 1], n, goalRow, ws)
  <2>1. \A s \in SUBSET (1 .. K) : it[s] = IF s = {} THEN base ELSE Widened(it[s \ {Max(s)}], Max(s), goalRow, ws)
    BY <1>6 DEF IsWideFoldTo, base
  <2>2. ASSUME NEW n \in 1 .. K
        PROVE  it[1 .. n] = Widened(it[1 .. n - 1], n, goalRow, ws)
    <3>1. n \in Nat /\ n >= 1 /\ 1 .. n \in SUBSET (1 .. K)
      BY <1>2
    <3>2. (1 .. n) # {} /\ Max(1 .. n) = n /\ (1 .. n) \ {Max(1 .. n)} = 1 .. n - 1
      BY <3>1, LastOfThem
    <3> QED BY <2>1, <3>1, <3>2
  <2> QED BY <2>1, <2>2
<1>11. base = Ball(e, 0)
  <2>1. \A c \in Cells : e[c] <= 0 <=> c = from
    <3> TAKE c \in Cells
    <3>1. e[c] \in Nat
      BY <1>1, <1>2 DEF IsDistances, K
    <3>2. e[c] = 0 <=> c = from
      BY <1>1 DEF IsDistances
    <3> QED BY <3>1, <3>2
  <2>2. {from} = {c \in Cells : e[c] <= 0}
    BY <2>1
  <2> QED BY <2>2 DEF base, Ball
<1> DEFINE Good(n) == it[1 .. n] = Ball(e, IF n <= m THEN n ELSE m)
           B == {n \in 0 .. K : ~Good(n)}
<1>12. B = {}
  <2> SUFFICES ASSUME B # {} PROVE FALSE
    OBVIOUS
  <2>1. PICK n \in B : \A k \in B : n <= k
    <3>1. B \in SUBSET Nat
      OBVIOUS
    <3> HIDE DEF B
    <3> QED BY <3>1, LeastNumber
  <2>2. n # 0
    <3>1. 1 .. 0 = {} /\ 0 <= m
      BY <1>9
    <3>2. Good(0)
      BY <1>10, <1>11, <3>1
    <3> HIDE DEF Good
    <3> QED BY <3>2
  <2>3. n \in 1 .. K /\ n - 1 \in 0 .. K /\ n - 1 \notin B
    <3> HIDE DEF Good
    <3> QED BY <1>2, <2>1, <2>2
  <2>4. Good(n - 1)
    <3> HIDE DEF Good
    <3> QED BY <2>3
  <2>5. it[1 .. n] = Widened(it[1 .. n - 1], n, goalRow, ws)
    BY <1>10, <2>3
  <2>6. CASE n <= m
    <3>1. it[1 .. n - 1] = Ball(e, n - 1)
      BY <1>9, <2>3, <2>4, <2>6
    <3>2. Widened(Ball(e, n - 1), n, goalRow, ws) = Ball(e, n)
      BY <1>1, <1>2, <1>8, <2>3, <2>6, BallGrows
    <3> QED BY <2>5, <2>6, <3>1, <3>2
  <2>7. CASE ~(n <= m)
    <3>1. it[1 .. n - 1] = Ball(e, m)
      <4>1. n - 1 <= m => n - 1 = m
        BY <1>2, <1>9, <2>3, <2>7
      <4> QED BY <2>4, <4>1
    <3>2. Widened(Ball(e, m), n, goalRow, ws) = Ball(e, m)
      BY <1>8, BallArrived
    <3> QED BY <2>5, <2>7, <3>1, <3>2
  <2> HIDE DEF Good
  <2>8. ~Good(n)
    BY <2>1
  <2> QED BY <2>6, <2>7, <2>8 DEF Good
<1>13. Good(K)
  <2> HIDE DEF Good
  <2> QED BY <1>2, <1>12
<1>14. it[1 .. K] = Ball(e, m)
  BY <1>2, <1>9, <1>13
<1> QED BY <1>3, <1>14 DEF Ball, m, f

\* Whoever is to move has a square to go to: hemmed in by the rival alone, neither would
\* have a way to the goal row, for two squares side by side do not touch both rows.
LEMMA MoverHasStep ==
  ASSUME NEW pos, pos.pawns \in [Players -> Cells], pos.turn \in Players,
         \A p \in Players : ~AtGoal(pos.pawns, p), BothHavePath(pos.pawns, pos.walls)
  PROVE  PawnDestinations(pos) # {} /\ PawnDestinations(pos) \subseteq Cells
<1> DEFINE t == pos.turn
           r == Other(pos.turn)
           m == pos.pawns[t]
           o == pos.pawns[r]
           ws == pos.walls
           D == PawnDestinations(pos)
<1>1. t \in Players /\ r \in Players /\ m \in Cells /\ o \in Cells
  BY DEF Players, Other
<1>2. D = UNION {IF step = o THEN OpenNeighbours(o, ws) \ {m} ELSE {step} : step \in OpenNeighbours(m, ws)}
  BY DEF PawnDestinations
<1>3. HasPath(m, GoalRow[t], ws) /\ HasPath(o, GoalRow[r], ws) /\ m[1] # GoalRow[t] /\ o[1] # GoalRow[r]
  BY <1>1 DEF BothHavePath, AtGoal
<1>4. GoalRow[t] - GoalRow[r] \notin -1 .. 1 /\ GoalRow[t] \in Int /\ GoalRow[r] \in Int
  BY <1>1, ConfigAssumption DEF GoalRow, Players, Other
<1> HIDE DEF t, r, m, o, ws, D
<1>5. OpenNeighbours(m, ws) \subseteq Cells /\ OpenNeighbours(o, ws) \subseteq Cells
  BY <1>1, NeighbourSymmetric
<1>6. D \subseteq Cells
  <2> SUFFICES ASSUME NEW x \in D PROVE x \in Cells
    OBVIOUS
  <2>1. PICK step \in OpenNeighbours(m, ws) : x \in IF step = o THEN OpenNeighbours(o, ws) \ {m} ELSE {step}
    BY <1>2
  <2> QED BY <1>5, <2>1
<1>7. ASSUME D = {}
      PROVE  FALSE
  <2>1. \A step \in OpenNeighbours(m, ws) : step = o /\ OpenNeighbours(o, ws) \subseteq {m}
    <3> TAKE step \in OpenNeighbours(m, ws)
    <3>1. (IF step = o THEN OpenNeighbours(o, ws) \ {m} ELSE {step}) = {}
      BY <1>2, <1>7
    <3> QED BY <3>1
  <2>2. CASE o \in OpenNeighbours(m, ws)
    <3>1. OpenNeighbours(m, ws) \subseteq {o} /\ OpenNeighbours(o, ws) \subseteq {m}
      BY <2>1, <2>2
    <3>2. Closed({m, o}, ws)
      BY <1>1, <3>1 DEF Closed
    <3>3. \E cell \in {m, o} : cell[1] = GoalRow[t]
      BY <1>1, <1>3, <3>2, PathIsReachability
    <3>4. \E cell \in {m, o} : cell[1] = GoalRow[r]
      BY <1>1, <1>3, <3>2, PathIsReachability
    <3>5. o[1] = GoalRow[t] /\ m[1] = GoalRow[r]
      BY <1>3, <3>3, <3>4
    <3>6. o \in {<<m[1]-1, m[2]>>, <<m[1], m[2]-1>>, <<m[1], m[2]+1>>, <<m[1]+1, m[2]>>}
      BY <1>1, <2>2 DEF OpenNeighbours, Adjacent
    <3>7. m[1] \in Int /\ o[1] \in Int /\ o[1] - m[1] \in -1 .. 1
      BY <1>1, <3>6, ConfigAssumption DEF Cells
    <3> QED BY <1>4, <3>5, <3>7
  <2>3. CASE o \notin OpenNeighbours(m, ws)
    <3>1. OpenNeighbours(m, ws) = {}
      BY <2>1, <2>3
    <3>2. Closed({m}, ws)
      BY <1>1, <3>1 DEF Closed
    <3>3. \E cell \in {m} : cell[1] = GoalRow[t]
      BY <1>1, <1>3, <3>2, PathIsReachability
    <3> QED BY <1>3, <3>3
  <2> QED BY <2>2, <2>3
<1> QED BY <1>6, <1>7 DEF D

\* A path from a cell is a path from its neighbours.
LEMMA PathFromNeighbour ==
  ASSUME NEW c \in Cells, NEW ws, NEW goal, HasPath(c, goal, ws), NEW x \in OpenNeighbours(c, ws)
  PROVE  HasPath(x, goal, ws)
<1>1. x \in Cells /\ c \in OpenNeighbours(x, ws)
  BY NeighbourSymmetric
<1>2. \A C : Closed(C, ws) /\ c \in C => \E cell \in C : cell[1] = goal
  BY PathIsReachability
<1>3. \A C : Closed(C, ws) /\ x \in C => \E cell \in C : cell[1] = goal
  <2> SUFFICES ASSUME NEW C, Closed(C, ws), x \in C PROVE \E cell \in C : cell[1] = goal
    OBVIOUS
  <2>1. c \in C
    BY <1>1 DEF Closed
  <2> QED BY <1>2, <2>1
<1> QED BY <1>1, <1>3, PathIsReachability

\* What an action leaves, when the game goes on.
Stands(s) ==
  /\ s.pawns \in [Players -> Cells] /\ s.turn \in Players
  /\ \A p \in Players : ~AtGoal(s.pawns, p)
  /\ BothHavePath(s.pawns, s.walls)

\* A pawn that steps or jumps still has its way to the row.
LEMMA PawnStands ==
  ASSUME TypeOK, NEW to \in PawnDestinations(Position), BothHavePath(pawns, walls)
  PROVE  BothHavePath([pawns EXCEPT ![turn] = to], walls) /\ to \in Cells
<1> DEFINE m == pawns[turn]
           o == pawns[Other(turn)]
<1>1. turn \in Players /\ Other(turn) \in Players /\ m \in Cells /\ o \in Cells /\ pawns \in [Players -> Cells]
  BY DEF TypeOK, Players, Other
<1>2. HasPath(m, GoalRow[turn], walls) /\ \A p \in Players : HasPath(pawns[p], GoalRow[p], walls)
  BY <1>1 DEF BothHavePath
<1>3. PawnDestinations(Position) = UNION {IF step = o THEN OpenNeighbours(o, walls) \ {m} ELSE {step} : step \in OpenNeighbours(m, walls)}
  BY DEF PawnDestinations, Position
<1> HIDE DEF m, o
<1>4. PICK step \in OpenNeighbours(m, walls) : to \in IF step = o THEN OpenNeighbours(o, walls) \ {m} ELSE {step}
  BY <1>3
<1>5. step \in Cells /\ HasPath(step, GoalRow[turn], walls)
  BY <1>1, <1>2, NeighbourSymmetric, PathFromNeighbour
<1>6. to = step \/ (to \in OpenNeighbours(step, walls) /\ step = o)
  BY <1>4
<1>7. to \in Cells /\ HasPath(to, GoalRow[turn], walls)
  BY <1>5, <1>6, NeighbourSymmetric, PathFromNeighbour
<1> QED BY <1>1, <1>2, <1>7 DEF BothHavePath

\* A legal action that does not end the game leaves a board with both ways open and nobody home.
LEMMA NextStands ==
  ASSUME Inductive, ValidState, outcome = Ongoing, NEW a \in LegalActions(GameState),
         Applied(GameState, a).outcome.kind = "ongoing"
  PROVE  Stands(Applied(GameState, a))
<1> DEFINE next == Applied(GameState, a)
<1>1. TypeOK /\ BothHavePath(pawns, walls) /\ ~AtGoal(pawns, turn) /\ ~AtGoal(pawns, Other(turn))
  <2>1. TypeOK /\ ResultIsDecided /\ Normal(Position)
    BY DEF Inductive, ValidState
  <2>2. BothHavePath(pawns, walls)
    BY <2>1, PositionTyped DEF Normal
  <2>3. outcome.kind # "win"
    BY DEF Ongoing
  <2> QED BY <2>1, <2>2, <2>3 DEF ResultIsDecided
<1>2. turn \in Players /\ Other(turn) \in Players /\ Other(turn) # turn /\ pawns \in [Players -> Cells]
      /\ \A p \in Players : p = turn \/ p = Other(turn)
  BY <1>1 DEF TypeOK, Players, Other
<1>3. a \in Actions /\ IsTrustedActionLegal(Position, a)
  BY DEF LegalActions, GameState, PositionOf, Position, Ongoing
<1>4. /\ next.pawns = IF a.kind = "pawn" THEN [pawns EXCEPT ![turn] = a.to] ELSE pawns
      /\ next.walls = IF a.kind = "wall" THEN walls \cup {a.wall} ELSE walls
      /\ next.turn = Other(turn)
  BY DEF Applied, GameState
<1>5. ~AtGoal(next.pawns, turn)
  <2>1. \E n, k : next.outcome = Adjudicate(IF AtGoal(next.pawns, turn) THEN turn ELSE "none", n, k)
    BY DEF Applied, GameState
  <2> SUFFICES ASSUME AtGoal(next.pawns, turn) PROVE FALSE
    OBVIOUS
  <2> HIDE DEF next
  <2>2. next.outcome = Win(turn)
    BY <1>2, <2>1 DEF Adjudicate
  <2>3. next.outcome.kind = "win"
    BY <2>2 DEF Win
  <2>4. next.outcome.kind = "ongoing"
    BY DEF next
  <2> QED BY <2>3, <2>4
<1> HIDE DEF next
<1>6. CASE a.kind = "pawn"
  <2>1. a.to \in PawnDestinations(Position)
    BY <1>3, <1>6 DEF IsTrustedActionLegal
  <2>2. BothHavePath([pawns EXCEPT ![turn] = a.to], walls) /\ a.to \in Cells
    BY <1>1, <2>1, PawnStands
  <2>3. next.pawns = [pawns EXCEPT ![turn] = a.to] /\ next.walls = walls
    BY <1>4, <1>6
  <2>4. next.pawns \in [Players -> Cells] /\ next.pawns[Other(turn)] = pawns[Other(turn)]
    BY <1>2, <2>2, <2>3
  <2>5. ~AtGoal(next.pawns, Other(turn))
    BY <1>1, <2>4 DEF AtGoal
  <2> QED BY <1>2, <1>4, <1>5, <2>2, <2>3, <2>4, <2>5 DEF Stands, next
<1>7. CASE a.kind # "pawn"
  <2>1. IsLegalWall(Position, a.wall) /\ a.kind = "wall"
    BY <1>3, <1>7 DEF IsTrustedActionLegal, Actions, PawnActions, WallActions
  <2>2. BothHavePath(pawns, walls \cup {a.wall})
    BY <1>1, <2>1, PositionTyped DEF IsLegalWall
  <2>3. next.pawns = pawns /\ next.walls = walls \cup {a.wall}
    BY <1>4, <2>1
  <2> QED BY <1>1, <1>2, <1>4, <1>5, <2>2, <2>3 DEF Stands, next
<1> QED BY <1>6, <1>7

\* So while the game goes on there is an action.
LEMMA NextGoesOn ==
  ASSUME NEW s, Stands(s), s.outcome.kind = "ongoing"
  PROVE  LegalActions(s) # {}
<1>1. PositionOf(s).pawns = s.pawns /\ PositionOf(s).walls = s.walls /\ PositionOf(s).turn = s.turn
  BY DEF PositionOf
<1>2. PICK to \in PawnDestinations(PositionOf(s)) : to \in Cells
  BY <1>1, MoverHasStep DEF Stands
<1> DEFINE a == [kind |-> "pawn", to |-> to]
<1>3. a \in Actions /\ IsTrustedActionLegal(PositionOf(s), a)
  BY <1>2 DEF Actions, PawnActions, IsTrustedActionLegal
<1>4. LegalActions(s) = {x \in Actions : IsTrustedActionLegal(PositionOf(s), x)}
  BY DEF LegalActions
<1> QED BY <1>3, <1>4

\* The field at a pawn that has a path.
StepsOf(ps, ws) == [p \in Players |-> GoalDistanceField(ws, GoalRow[p])[ps[p]]]

\* Where a pawn has a way, the evaluator and the generator find the field's number, and it is not infinite.
LEMMA StepsAreFew ==
  ASSUME NEW ps \in [Players -> Cells], NEW ws, BothHavePath(ps, ws), NEW p \in Players
  PROVE  /\ StepsOf(ps, ws)[p] \in 0 .. CellCount - 1
         /\ StepsOf(ps, ws)[p] # Infinite
         /\ ShortestWallOnlyDistance(ps[p], GoalRow[p], ws) = StepsOf(ps, ws)[p]
         /\ GoalDistance(BlockedEdges(ws), ps[p], GoalRow[p]) = StepsOf(ps, ws)[p]
<1> DEFINE f == GoalDistanceField(ws, GoalRow[p])
           c == ps[p]
           U == -1
<1>1. c \in Cells /\ HasPath(c, GoalRow[p], ws) /\ StepsOf(ps, ws)[p] = f[c]
  BY DEF BothHavePath, StepsOf
<1>2. f[c] # -1
  BY <1>1, FieldTellsPaths
<1>3. ShortestWallOnlyDistance(c, GoalRow[p], ws) = f[c]
  BY <1>1, <1>2, WallOnlyIsField
<1>4. GoalDistance(BlockedEdges(ws), c, GoalRow[p]) = f[c]
  BY <1>1, <1>2, GoalDistanceIs
<1>5. IsDistances(f, GoalCells(GoalRow[p]), ws, U)
  BY FieldIs
<1>6. f[c] \in 0 .. CellCount - 1
  <2>1. f[c] # U
    BY <1>2
  <2> HIDE DEF U, f, c
  <2> QED BY <1>1, <1>5, <2>1 DEF IsDistances
<1>7. f[c] # Infinite
  BY <1>6, CellsCounted DEF Infinite
<1> QED BY <1>1, <1>3, <1>4, <1>6, <1>7

\* The balance of an opening is the field at both pawns.
LEMMA BalanceIs ==
  ASSUME NEW s, s.pawns \in [Players -> Cells], BothHavePath(s.pawns, s.walls)
  PROVE  Balance(s) = StepsOf(s.pawns, s.walls)
<1> DEFINE ps == s.pawns
           ws == s.walls
<1>1. Balance(s) = [p \in Players |-> ShortestWallOnlyDistance(ps[p], GoalRow[p], ws)]
  BY TableIs DEF Balance
<1>2. ps \in [Players -> Cells] /\ BothHavePath(ps, ws)
  OBVIOUS
<1> HIDE DEF ps, ws
<1>3. \A p \in Players : ShortestWallOnlyDistance(ps[p], GoalRow[p], ws) = GoalDistanceField(ws, GoalRow[p])[ps[p]]
  BY <1>2, StepsAreFew DEF StepsOf
<1> QED BY <1>1, <1>3 DEF StepsOf, ps, ws

\* A cell that is off the row has a neighbour one step nearer.
LEMMA FieldGoesDown ==
  ASSUME NEW ws, NEW goalRow, NEW cell \in Cells, GoalDistanceField(ws, goalRow)[cell] > 0
  PROVE  \E near \in OpenNeighbours(cell, ws) :
           GoalDistanceField(ws, goalRow)[near] = GoalDistanceField(ws, goalRow)[cell] - 1
<1> DEFINE f == GoalDistanceField(ws, goalRow)
           U == -1
<1>1. IsDistances(f, GoalCells(goalRow), ws, U)
  BY FieldIs
<1>2. f[cell] # U /\ f[cell] # 0
  OBVIOUS
<1> HIDE DEF f, U
<1>3. \E near \in OpenNeighbours(cell, ws) : f[near] = f[cell] - 1
  BY <1>1, <1>2 DEF IsDistances
<1> QED BY <1>3 DEF f

\* The placeholder's value is the lead that the field shows.
LEMMA StubIs ==
  ASSUME TypeOK, BothHavePath(pawns, walls), outcome = Ongoing
  PROVE  StubValue(GameState)[1] = StepsOf(pawns, walls)[Other(turn)] - StepsOf(pawns, walls)[turn]
<1> DEFINE g(p) == GoalDistance(BlockedEdges(walls), pawns[p], GoalRow[p])
           st == StepsOf(pawns, walls)
<1>1. turn \in Players /\ Other(turn) \in Players /\ "A" \in Players /\ "B" \in Players /\ pawns \in [Players -> Cells]
  BY DEF TypeOK, Players, Other
<1>2. \A p \in Players : g(p) = st[p] /\ g(p) # Infinite
  BY <1>1, StepsAreFew
<1>3. GameState.walls = walls /\ GameState.pawns = pawns /\ GameState.turn = turn /\ GameState.outcome = Ongoing
  BY DEF GameState
<1>4. Ongoing.kind # "win" /\ Ongoing.kind = "ongoing"
  BY DEF Ongoing
<1>5. StubValue(GameState) =
        IF Infinite \in {g("A"), g("B")} THEN <<0, 1>>
        ELSE <<g(Other(turn)) - g(turn), 2 + Abs(g(Other(turn)) - g(turn))>>
  BY <1>3, <1>4 DEF StubValue
<1>6. Infinite \notin {g("A"), g("B")}
  BY <1>1, <1>2
<1> HIDE DEF g, st
<1>7. StubValue(GameState)[1] = g(Other(turn)) - g(turn)
  BY <1>5, <1>6
<1> QED BY <1>1, <1>2, <1>7 DEF st

\* An opening that was selected is even by the field, and the next mover has an action.
LEMMA OpeningIsEven ==
  ASSUME Inductive, ValidState, outcome = Ongoing, NEW a \in SelectBalancedAction(GameState)
  PROVE  LET next == Applied(GameState, a)
         IN /\ GoalDistanceField(next.walls, GoalRow["A"])[next.pawns["A"]]
               - GoalDistanceField(next.walls, GoalRow["B"])[next.pawns["B"]] \in -1 .. 1
            /\ LegalActions(next) # {}
<1> DEFINE next == Applied(GameState, a)
<1>1. a \in LegalActions(GameState) /\ next.outcome.kind = "ongoing" /\ Balance(next)["A"] - Balance(next)["B"] \in -1 .. 1
  BY DEF SelectBalancedAction
<1>2. Stands(next)
  BY <1>1, NextStands
<1> HIDE DEF next
<1>3. LegalActions(next) # {}
  BY <1>1, <1>2, NextGoesOn
<1>4. Balance(next) = StepsOf(next.pawns, next.walls)
  BY <1>2, BalanceIs DEF Stands
<1>5. "A" \in Players /\ "B" \in Players
  BY DEF Players
<1> QED BY <1>1, <1>3, <1>4, <1>5 DEF StepsOf, next

\* Four searches of the board agree, whatever its sides: the rules' for a path, the encoder's
\* for the distance planes, the evaluator's from a pawn and the opening generator's; so the
\* network never reads one lead and starts from another, and a selected opening is as even
\* as it says and has a mover with something to do.
THEOREM SearchesAgree == Spec => []DistancesAgree
<1>1. ASSUME Inductive, ValidState
      PROVE  DistancesAgree
  <2> DEFINE blocked == BlockedEdges(walls)
             field == Table([p \in Players |-> GoalDistanceField(walls, GoalRow[p])])
             steps == [p \in Players |-> field[p][pawns[p]]]
  <2>1. TypeOK /\ BothHavePath(pawns, walls) /\ pawns \in [Players -> Cells] /\ turn \in Players /\ Other(turn) \in Players
    <3>1. TypeOK /\ Normal(Position)
      BY <1>1 DEF Inductive, ValidState
    <3> QED BY <3>1, PositionTyped DEF Normal, TypeOK, Players, Other
  <2>2. field = [p \in Players |-> GoalDistanceField(walls, GoalRow[p])]
    BY TableIs
  <2>3. steps = StepsOf(pawns, walls)
    BY <2>2 DEF StepsOf
  <2>4. Balance(GameState) = StepsOf(pawns, walls)
    <3>1. GameState.pawns = pawns /\ GameState.walls = walls
      BY DEF GameState
    <3> DEFINE s == GameState
    <3>2. s.pawns \in [Players -> Cells] /\ BothHavePath(s.pawns, s.walls)
      BY <2>1, <3>1
    <3> HIDE DEF s
    <3>3. Balance(s) = StepsOf(s.pawns, s.walls)
      BY <3>2, BalanceIs
    <3> QED BY <3>1, <3>3 DEF s
  <2> HIDE DEF steps
  <2>5. ASSUME NEW p \in Players
        PROVE  /\ GoalDistance(blocked, pawns[p], GoalRow[p]) = steps[p]
               /\ \A cell \in Cells :
                    /\ (field[p][cell] = -1) <=> ~HasPath(cell, GoalRow[p], walls)
                    /\ field[p][cell] > 0 =>
                         \E near \in OpenNeighbours(cell, walls) : field[p][near] = field[p][cell] - 1
    <3>1. GoalDistance(blocked, pawns[p], GoalRow[p]) = steps[p]
      BY <2>1, <2>3, StepsAreFew
    <3>2. field[p] = GoalDistanceField(walls, GoalRow[p])
      BY <2>2
    <3> HIDE DEF field
    <3>3. ASSUME NEW cell \in Cells
          PROVE  (field[p][cell] = -1) <=> ~HasPath(cell, GoalRow[p], walls)
      BY <3>2, FieldTellsPaths
    <3>4. ASSUME NEW cell \in Cells, field[p][cell] > 0
          PROVE  \E near \in OpenNeighbours(cell, walls) : field[p][near] = field[p][cell] - 1
      BY <3>2, <3>4, FieldGoesDown
    <3> QED BY <3>1, <3>3, <3>4
  <2>6. outcome = Ongoing => StubValue(GameState)[1] = steps[Other(turn)] - steps[turn]
    BY <2>1, <2>3, StubIs
  <2>7. ASSUME outcome = Ongoing, NEW a \in SelectBalancedAction(GameState)
        PROVE  LET next == Applied(GameState, a)
                   lead == GoalDistanceField(next.walls, GoalRow["A"])[next.pawns["A"]]
                           - GoalDistanceField(next.walls, GoalRow["B"])[next.pawns["B"]]
               IN lead \in -1 .. 1 /\ LegalActions(next) # {}
    BY <1>1, <2>7, OpeningIsEven
  <2>8. Balance(GameState) = steps
    BY <2>3, <2>4
  <2> HIDE DEF field, blocked
  <2>9. /\ Balance(GameState) = steps
        /\ \A p \in Players :
             /\ GoalDistance(blocked, pawns[p], GoalRow[p]) = steps[p]
             /\ \A cell \in Cells :
                  /\ (field[p][cell] = -1) <=> ~HasPath(cell, GoalRow[p], walls)
                  /\ field[p][cell] > 0 =>
                       \E near \in OpenNeighbours(cell, walls) : field[p][near] = field[p][cell] - 1
    BY <2>5, <2>8
  <2>10. outcome = Ongoing => \A a \in SelectBalancedAction(GameState) :
                LET next == Applied(GameState, a)
                    lead == GoalDistanceField(next.walls, GoalRow["A"])[next.pawns["A"]]
                            - GoalDistanceField(next.walls, GoalRow["B"])[next.pawns["B"]]
                IN lead \in -1 .. 1 /\ LegalActions(next) # {}
    BY <2>7
  <2> QED BY <2>6, <2>9, <2>10 DEF DistancesAgree, field, blocked, steps
<1>2. Inductive /\ ValidState => DistancesAgree
  BY <1>1
<1> QED BY <1>2, RecordsValidate, RecordsAlwaysValidate, PTL

(* ---- Lines of a wall plane ----------------------------------------------------- *)

\* Of two numbers next to each other one is even.
LEMMA NextParity ==
  ASSUME NEW x \in Nat
  PROVE  (x + 1) % 2 = 0 <=> x % 2 # 0
OBVIOUS

\* A maximal run of set cells, from the first to one past the last.
IsRun(bits, n, a, b) ==
  /\ a \in 0 .. n - 1 /\ b \in 1 .. n /\ a < b
  /\ \A i \in a .. b - 1 : bits[i] = One
  /\ a = 0 \/ bits[a - 1] # One
  /\ b = n \/ bits[b] # One

\* The runs are those.
LEMMA RunsAre ==
  ASSUME NEW n \in Nat, n >= 1, NEW bits, DOMAIN bits = 0 .. n - 1
  PROVE  /\ \A run \in Runs(bits) : IsRun(bits, n, run[1], run[2])
         /\ \A a, b : IsRun(bits, n, a, b) => <<a, b>> \in Runs(bits)
<1>1. 0 \in Int /\ n - 1 \in Int /\ Cardinality(0 .. n - 1) = n
  <2>1. 0 \in Int /\ n - 1 \in Int /\ 0 <= n - 1
    OBVIOUS
  <2>2. Cardinality(0 .. n - 1) = n - 1 - 0 + 1
    BY <2>1, FS_Interval
  <2> QED BY <2>1, <2>2
<1>2. Runs(bits) = {run \in (0 .. n-1) \X (1 .. n) :
        /\ run[1] < run[2]
        /\ \A i \in run[1] .. run[2] - 1 : bits[i] = One
        /\ run[1] = 0 \/ bits[run[1] - 1] # One
        /\ run[2] = n \/ bits[run[2]] # One}
  BY <1>1 DEF Runs
<1> QED BY <1>2 DEF IsRun

\* A set cell is in a run.
LEMMA RunExists ==
  ASSUME NEW n \in Nat, NEW bits, NEW i \in 0 .. n - 1, bits[i] = One
  PROVE  \E a, b : IsRun(bits, n, a, b) /\ i \in a .. b - 1
<1> DEFINE A == {a \in 0 .. i : \A j \in a .. i : bits[j] = One}
           B == {b \in i + 1 .. n : b = n \/ bits[b] # One}
<1>1. i \in A /\ A \in SUBSET Nat
  OBVIOUS
<1>2. n \in B /\ B \in SUBSET Nat
  OBVIOUS
<1>3. PICK a \in A : \A d \in A : a <= d
  <2> HIDE DEF A
  <2> QED BY <1>1, LeastNumber
<1>4. PICK b \in B : \A d \in B : b <= d
  <2> HIDE DEF B
  <2> QED BY <1>2, LeastNumber
<1>5. a \in 0 .. i /\ b \in i + 1 .. n /\ (b = n \/ bits[b] # One) /\ \A j \in a .. i : bits[j] = One
  OBVIOUS
<1>6. a = 0 \/ bits[a - 1] # One
  <2> SUFFICES ASSUME a # 0, bits[a - 1] = One PROVE FALSE
    OBVIOUS
  <2>1. a - 1 \in 0 .. i
    BY <1>5
  <2>2. \A j \in a - 1 .. i : bits[j] = One
    <3> TAKE j \in a - 1 .. i
    <3>1. j = a - 1 \/ j \in a .. i
      BY <1>5
    <3> QED BY <1>5, <3>1
  <2>3. a - 1 \in A
    BY <2>1, <2>2
  <2>4. a <= a - 1
    BY <1>3, <2>3
  <2> QED BY <1>5, <2>4
<1>7. \A j \in a .. b - 1 : bits[j] = One
  <2> TAKE j \in a .. b - 1
  <2>1. CASE j <= i
    BY <1>5, <2>1
  <2>2. CASE ~(j <= i)
    <3>1. j \in i + 1 .. n /\ j < b
      BY <1>5, <2>2
    <3>2. j \notin B
      BY <1>4, <1>5, <3>1
    <3> QED BY <3>1, <3>2
  <2> QED BY <2>1, <2>2
<1>8. IsRun(bits, n, a, b) /\ i \in a .. b - 1
  <2> HIDE DEF A, B
  <2> QED BY <1>5, <1>6, <1>7 DEF IsRun
<1> QED BY <1>8

\* Walls of a line light two cells each and do not overlap: in a run the anchors are the
\* cells at even places, and the run is of even length.
LEMMA RunOfWalls ==
  ASSUME NEW n \in Nat, n >= 2, NEW anchors \in AnchorSets(n), NEW a, NEW b, IsRun(PlaneLine(n, anchors), n, a, b)
  PROVE  /\ \A i \in a .. b - 1 : i \in anchors <=> (i - a) % 2 = 0
         /\ (b - a) % 2 = 0
<1> DEFINE bits == PlaneLine(n, anchors)
           Bad == {i \in a .. b - 1 : ~(i \in anchors <=> (i - a) % 2 = 0)}
           D == {i - a : i \in Bad}
<1>1. \A i \in 0 .. n - 1 : bits[i] = One <=> (i \in anchors \/ i - 1 \in anchors)
  BY OnePositive DEF PlaneLine
<1>2. \A i \in anchors : i \in 0 .. n - 2 /\ i + 1 \notin anchors
  BY DEF AnchorSets
<1>3. /\ a \in 0 .. n - 1 /\ b \in 1 .. n /\ a < b
      /\ \A i \in a .. b - 1 : bits[i] = One
      /\ a = 0 \/ bits[a - 1] # One
      /\ b = n \/ bits[b] # One
  BY DEF IsRun
<1> HIDE DEF bits
<1>4. Bad = {}
  <2> SUFFICES ASSUME Bad # {} PROVE FALSE
    OBVIOUS
  <2>1. D \in SUBSET Nat /\ D # {}
    <3>1. \A i \in Bad : i - a \in Nat
      BY <1>3
    <3> HIDE DEF Bad
    <3> QED BY <3>1
  <2>2. PICK d \in D : \A e \in D : d <= e
    <3> HIDE DEF D
    <3> QED BY <2>1, LeastNumber
  <2>3. PICK i \in Bad : d = i - a
    <3> HIDE DEF Bad
    <3> QED OBVIOUS
  <2>4. i \in a .. b - 1 /\ i \in 0 .. n - 1 /\ bits[i] = One /\ ~(i \in anchors <=> (i - a) % 2 = 0)
    BY <1>3
  <2>5. i \in anchors \/ i - 1 \in anchors
    BY <1>1, <2>4
  <2>6. i # a
    <3> SUFFICES ASSUME i = a PROVE FALSE
      OBVIOUS
    <3>1. a - 1 \notin anchors
      <4>1. CASE a = 0
        BY <1>2, <4>1
      <4>2. CASE a # 0
        <5>1. a - 1 \in 0 .. n - 1 /\ bits[a - 1] # One
          BY <1>3, <4>2
        <5> QED BY <1>1, <5>1
      <4> QED BY <4>1, <4>2
    <3>2. (i - a) % 2 = 0
      BY <1>3
    <3> QED BY <2>4, <2>5, <3>1, <3>2
  <2> DEFINE x == i - 1 - a
  <2>7. i - 1 \in a .. b - 1 /\ x \in Nat /\ i - a = x + 1
    BY <1>3, <2>4, <2>6
  <2>8. i - 1 \notin Bad
    <3> SUFFICES ASSUME i - 1 \in Bad PROVE FALSE
      OBVIOUS
    <3>1. x \in D
      <4> HIDE DEF Bad
      <4> QED OBVIOUS
    <3> HIDE DEF D
    <3>2. d <= x
      BY <2>2, <3>1
    <3> QED BY <2>3, <2>7, <3>2
  <2>9. i - 1 \in anchors <=> x % 2 = 0
    BY <2>7, <2>8
  <2> HIDE DEF x
  <2>10. (x + 1) % 2 = 0 <=> x % 2 # 0
    BY <2>7, NextParity
  <2>11. i - 1 \in anchors => i \notin anchors
    <3>1. i - 1 \in anchors => (i - 1) + 1 \notin anchors
      BY <1>2
    <3>2. (i - 1) + 1 = i
      BY <2>4
    <3> QED BY <3>1, <3>2
  <2> QED BY <2>4, <2>5, <2>7, <2>9, <2>10, <2>11
<1>5. (b - a) % 2 = 0
  <2> DEFINE x == b - 1 - a
  <2>1. x \in Nat /\ b - a = x + 1 /\ b - 1 \in a .. b - 1
    BY <1>3
  <2> SUFFICES ASSUME (b - a) % 2 # 0 PROVE FALSE
    OBVIOUS
  <2>2. x % 2 = 0
    <3> HIDE DEF x
    <3> QED BY <2>1, NextParity
  <2>3. b - 1 \in anchors
    BY <1>4, <2>1, <2>2
  <2>4. b \in 0 .. n - 1 /\ b - 1 \in anchors
    BY <1>2, <1>3, <2>3
  <2>5. bits[b] = One
    BY <1>1, <2>4
  <2> QED BY <1>3, <2>4, <2>5
<1> QED BY <1>4, <1>5

\* So a line is read as the anchors that lit it, however long it is.
THEOREM LinesAlwaysInvert ==
  ASSUME NEW n \in Nat, n >= 2, NEW anchors \in AnchorSets(n)
  PROVE  WallAnchorsFromPlaneLine(PlaneLine(n, anchors)) = Return(anchors)
<1> DEFINE bits == PlaneLine(n, anchors)
<1>1. DOMAIN bits = 0 .. n - 1 /\ \A i \in 0 .. n - 1 : bits[i] \in {0, One} /\ (bits[i] = One <=> (i \in anchors \/ i - 1 \in anchors))
  BY OnePositive DEF PlaneLine
<1>2. n >= 1 /\ \A i \in anchors : i \in 0 .. n - 1
  BY DEF AnchorSets
<1> HIDE DEF bits
<1>3. \A run \in Runs(bits) : IsRun(bits, n, run[1], run[2])
  BY <1>1, <1>2, RunsAre
<1>4. \A run \in Runs(bits) : /\ \A i \in run[1] .. run[2] - 1 : i \in anchors <=> (i - run[1]) % 2 = 0
                              /\ (run[2] - run[1]) % 2 = 0
  BY <1>3, RunOfWalls DEF bits
<1>5. LineRefusal(bits) = "none"
  <2>1. {run \in Runs(bits) : (run[2] - run[1]) % 2 = 1} = {}
    BY <1>4
  <2>2. {i \in DOMAIN bits : bits[i] \notin {0, One}} = {}
    BY <1>1
  <2> QED BY <2>1, <2>2 DEF LineRefusal
<1>6. Anchored(bits) = anchors
  <2>1. ASSUME NEW i \in Anchored(bits)
        PROVE  i \in anchors
    <3>1. PICK run \in Runs(bits) : i \in run[1] .. run[2] - 1 /\ (i - run[1]) % 2 = 0
      BY DEF Anchored
    <3> QED BY <1>4, <3>1
  <2>2. ASSUME NEW i \in anchors
        PROVE  i \in Anchored(bits)
    <3>1. i \in DOMAIN bits /\ i \in 0 .. n - 1 /\ bits[i] = One
      BY <1>1, <1>2
    <3>2. PICK a, b : IsRun(bits, n, a, b) /\ i \in a .. b - 1
      BY <3>1, RunExists
    <3>3. <<a, b>> \in Runs(bits)
      BY <1>1, <1>2, <3>2, RunsAre
    <3>4. i \in <<a, b>>[1] .. <<a, b>>[2] - 1 /\ (i - <<a, b>>[1]) % 2 = 0
      BY <1>4, <3>2, <3>3
    <3> QED BY <3>1, <3>3, <3>4 DEF Anchored
  <2> QED BY <2>1, <2>2
<1> QED BY <1>5, <1>6 DEF WallAnchorsFromPlaneLine, bits

\* A plane with one cell set is read as that cell.
LEMMA OneHotRead ==
  ASSUME NEW c \in Cells
  PROVE  OneHotSquare(OneHot(c)) = Return(c)
<1> DEFINE plane == OneHot(c)
<1>1. \A cell \in Cells : plane[cell] = IF cell = c THEN One ELSE 0
  BY TableIs DEF OneHot
<1> HIDE DEF plane
<1>2. Hot(plane) = {c}
  BY <1>1, OnePositive DEF Hot
<1>3. Cardinality(Hot(plane)) = 1
  BY <1>2, FS_Singleton
<1>4. plane[c] = One
  BY <1>1
<1>5. (CHOOSE cell \in Cells : cell \in Hot(plane)) = c
  BY <1>2
<1>6. ~(Cardinality(Hot(plane)) > 1) /\ Hot(plane) # {}
  BY <1>2, <1>3
<1>7. ~\E cell \in Hot(plane) : plane[cell] # One
  BY <1>2, <1>4
<1> QED BY <1>5, <1>6, <1>7 DEF OneHotSquare, plane

\* The unit of the planes is a multiple of either stock.
LEMMA UnitDivides ==
  ASSUME NEW p \in Players, InitialStock[p] > 0
  PROVE  \E q \in Nat : One = q * InitialStock[p]
<1> DEFINE a == IF StockA = 0 THEN 1 ELSE StockA
           b == IF StockB = 0 THEN 1 ELSE StockB
           u == 2 * (Rows - 1) * (CellCount - 1)
<1>1. a \in Nat /\ b \in Nat
  BY ConfigAssumption
<1>2. u \in Nat
  <2> DEFINE r == Rows - 1
             k == CellCount - 1
  <2>1. r \in Nat /\ k \in Nat
    BY CellsCounted, ConfigAssumption
  <2> HIDE DEF r, k
  <2>2. \A x, y \in Nat : x * y \in Nat
    OBVIOUS
  <2>3. 2 * r * k \in Nat
    BY <2>1, <2>2
  <2> QED BY <2>3 DEF r, k
<1>3. One = u * a * b
  BY DEF One
<1> HIDE DEF a, b, u
<1>4. u * b \in Nat /\ u * a \in Nat
  BY <1>1, <1>2
<1>5. u * a * b = (u * b) * a
  BY <1>1, <1>2, SMT
<1>6. CASE p = "A"
  <2>1. InitialStock[p] = a
    BY <1>6, ConfigAssumption DEF InitialStock, a
  <2> QED BY <1>3, <1>4, <1>5, <2>1
<1>7. CASE p = "B"
  <2>1. InitialStock[p] = b
    BY <1>7, ConfigAssumption DEF InitialStock, b
  <2> QED BY <1>3, <1>4, <2>1
<1> QED BY <1>6, <1>7 DEF Players

\* A stock plane is read as the stock.
LEMMA StockRead ==
  ASSUME NEW p \in Players, NEW k \in 0 .. InitialStock[p]
  PROVE  StockOf(Everywhere(IF InitialStock[p] > 0 THEN (k * One) \div InitialStock[p] ELSE 0), p) = Return(k)
<1> DEFINE d == InitialStock[p]
           v == IF d > 0 THEN (k * One) \div d ELSE 0
           plane == Everywhere(v)
<1>1. d \in Nat /\ k \in Nat /\ k <= d
  BY ConfigAssumption DEF InitialStock, Players
<1>2. <<0, 0>> \in Cells
  BY ConfigAssumption DEF Cells
<1>3. \A cell \in Cells : plane[cell] = v
  BY TableIs DEF Everywhere
<1>4. Constant(plane) /\ plane[<<0, 0>>] = v
  BY <1>2, <1>3 DEF Constant
<1>5. StockOf(plane, p) =
        IF d = 0 THEN IF v # 0 THEN Refuse("stock_plane_not_zero") ELSE Return(0)
        ELSE IF (v * d) % One # 0 THEN Refuse("stock_not_integral")
        ELSE IF (v * d) \div One \notin 0 .. d THEN Refuse("stock_out_of_range")
        ELSE Return((v * d) \div One)
  <2> HIDE DEF v, plane
  <2> QED BY <1>4 DEF StockOf
<1>6. CASE d = 0
  BY <1>1, <1>5, <1>6
<1>7. CASE d # 0
  <2>1. PICK q \in Nat : One = q * d
    BY <1>1, <1>7, UnitDivides
  <2>2. k * One = (k * q) * d /\ k * q \in Nat
    BY <1>1, <2>1, SMT
  <2>3. v = (k * q * d + 0) \div d
    <3>1. v = (k * One) \div d
      BY <1>1, <1>7
    <3>2. k * q * d \in Nat /\ k * q * d + 0 = k * q * d
      BY <1>1, <2>2
    <3> QED BY <2>2, <3>1, <3>2
  <2> HIDE DEF v, d
  <2>4. v = k * q
    <3> DEFINE r == k * q
    <3>1. r \in Nat /\ 0 < d
      BY <1>1, <1>7, <2>2
    <3>2. v = (r * d + 0) \div d
      BY <2>3
    <3> HIDE DEF r
    <3>3. v = r
      BY <1>1, <3>1, <3>2, RowMajorDivides
    <3> QED BY <3>3 DEF r
  <2>5. v * d = k * One
    BY <2>2, <2>4
  <2>6. (k * One + 0) \div One = k /\ (k * One + 0) % One = 0
    <3>1. One \in Nat /\ 0 < One
      BY OnePositive
    <3> QED BY <1>1, <3>1, RowMajorDivides
  <2>7. k * One + 0 = k * One
    BY <1>1, OnePositive
  <2>8. (v * d) \div One = k /\ (v * d) % One = 0
    BY <2>5, <2>6, <2>7
  <2>9. k \in 0 .. d
    BY <1>1
  <2> QED BY <1>5, <1>7, <2>8, <2>9 DEF v, d, plane
<1> QED BY <1>6, <1>7

\* The lines of the two wall planes.
Lines == ({"H"} \X (0 .. Rows - 1)) \cup ({"V"} \X (0 .. Cols - 1))

LengthOf(line) == IF line[1] = "H" THEN Cols ELSE Rows

\* The walls of a line, and the anchors they have in it.
OnLine(ws, line) == {w \in ws : w[1] = line[1] /\ (IF line[1] = "H" THEN w[2] ELSE w[3]) = line[2]}
AnchorsOn(ws, line) == {i \in 0 .. LengthOf(line) - 2 : WallAt(line, i) \in ws}

\* Walls that a board may have.
Placed(ws) == ws \subseteq Walls /\ \A w \in ws : Conflicts(w) \cap ws = {}

\* Walls of one line leave room for one another.
LEMMA AnchorsApart ==
  ASSUME NEW ws, Placed(ws), NEW line \in Lines
  PROVE  AnchorsOn(ws, line) \in AnchorSets(LengthOf(line))
<1>1. ASSUME NEW i \in AnchorsOn(ws, line), i + 1 \in AnchorsOn(ws, line)
      PROVE  FALSE
  <2>1. WallAt(line, i) \in ws /\ WallAt(line, i + 1) \in ws /\ i \in Int
    BY <1>1 DEF AnchorsOn
  <2>2. Conflicts(WallAt(line, i)) \cap ws = {}
    BY <2>1 DEF Placed
  <2>3. WallAt(line, i + 1) \in Conflicts(WallAt(line, i))
    <3>1. CASE line[1] = "H"
      <4>1. WallAt(line, i) = <<"H", line[2], i>> /\ WallAt(line, i + 1) = <<"H", line[2], i + 1>>
        BY <3>1 DEF WallAt
      <4> QED BY <4>1 DEF Conflicts
    <3>2. CASE line[1] # "H"
      <4>1. WallAt(line, i) = <<"V", i, line[2]>> /\ WallAt(line, i + 1) = <<"V", i + 1, line[2]>>
        BY <3>2 DEF WallAt
      <4> QED BY <4>1 DEF Conflicts
    <3> QED BY <3>1, <3>2
  <2> QED BY <2>1, <2>2, <2>3
<1> QED BY <1>1 DEF AnchorSets, AnchorsOn

\* The walls of a line are those at its anchors.
LEMMA WallsOfLine ==
  ASSUME NEW ws, Placed(ws), NEW line \in Lines
  PROVE  {WallAt(line, i) : i \in AnchorsOn(ws, line)} = OnLine(ws, line)
<1>1. \A w \in ws : /\ w \in Walls /\ w = <<w[1], w[2], w[3]>> /\ w[1] \in {"H", "V"}
                    /\ w[2] \in 0 .. Rows - 2 /\ w[3] \in 0 .. Cols - 2
  <2> TAKE w \in ws
  <2>1. w \in Walls
    BY DEF Placed
  <2> QED BY <2>1 DEF Walls
<1>2. line[1] \in {"H", "V"}
  BY DEF Lines
<1>3. CASE line[1] = "H"
  <2>1. \A i : WallAt(line, i) = <<"H", line[2], i>>
    BY <1>3 DEF WallAt
  <2>2. AnchorsOn(ws, line) = {i \in 0 .. Cols - 2 : <<"H", line[2], i>> \in ws}
    BY <1>3, <2>1 DEF AnchorsOn, LengthOf
  <2>3. OnLine(ws, line) = {w \in ws : w[1] = "H" /\ w[2] = line[2]}
    BY <1>3 DEF OnLine
  <2>4. ASSUME NEW w \in OnLine(ws, line)
        PROVE  w \in {WallAt(line, i) : i \in AnchorsOn(ws, line)}
    <3>1. w \in ws /\ w = <<"H", line[2], w[3]>> /\ w[3] \in 0 .. Cols - 2
      BY <1>1, <2>3
    <3>2. w[3] \in AnchorsOn(ws, line) /\ w = WallAt(line, w[3])
      BY <2>1, <2>2, <3>1
    <3> QED BY <3>2
  <2>5. ASSUME NEW i \in AnchorsOn(ws, line)
        PROVE  WallAt(line, i) \in OnLine(ws, line)
    BY <2>1, <2>2, <2>3
  <2> QED BY <2>4, <2>5
<1>4. CASE line[1] = "V"
  <2>1. \A i : WallAt(line, i) = <<"V", i, line[2]>>
    BY <1>4 DEF WallAt
  <2>2. AnchorsOn(ws, line) = {i \in 0 .. Rows - 2 : <<"V", i, line[2]>> \in ws}
    BY <1>4, <2>1 DEF AnchorsOn, LengthOf
  <2>3. OnLine(ws, line) = {w \in ws : w[1] = "V" /\ w[3] = line[2]}
    BY <1>4 DEF OnLine
  <2>4. ASSUME NEW w \in OnLine(ws, line)
        PROVE  w \in {WallAt(line, i) : i \in AnchorsOn(ws, line)}
    <3>1. w \in ws /\ w = <<"V", w[2], line[2]>> /\ w[2] \in 0 .. Rows - 2
      BY <1>1, <2>3
    <3>2. w[2] \in AnchorsOn(ws, line) /\ w = WallAt(line, w[2])
      BY <2>1, <2>2, <3>1
    <3> QED BY <3>2
  <2>5. ASSUME NEW i \in AnchorsOn(ws, line)
        PROVE  WallAt(line, i) \in OnLine(ws, line)
    BY <2>1, <2>2, <2>3
  <2> QED BY <2>4, <2>5
<1> QED BY <1>2, <1>3, <1>4

\* A line of the planes that walls were written into is the line of their anchors.
LEMMA LineOfPlanes ==
  ASSUME NEW ws, Placed(ws), NEW line \in Lines, NEW f,
         f.wall_horizontal = WallPlane("H", ws), f.wall_vertical = WallPlane("V", ws)
  PROVE  Line(f, line[1], line[2]) = PlaneLine(LengthOf(line), AnchorsOn(ws, line))
<1> DEFINE k == line[2]
<1>0. Rows \in Nat /\ Cols \in Nat /\ Rows >= 3 /\ Cols >= 2
  BY ConfigAssumption
<1>1. \A w \in ws : w[2] \in 0 .. Rows - 2 /\ w[3] \in 0 .. Cols - 2
  <2> TAKE w \in ws
  <2>1. w \in Walls
    BY DEF Placed
  <2> QED BY <2>1 DEF Walls
<1>2. CASE line[1] = "H"
  <2>1. k \in 0 .. Rows - 1
    BY <1>2 DEF Lines
  <2> HIDE DEF k
  <2>2. \A c \in 0 .. Cols - 1 : WallPlane("H", ws)[<<k, c>>] =
           IF <<k + 1, c>> \in Cells /\ EdgeBlocked(<<k, c>>, <<k + 1, c>>, ws) THEN One ELSE 0
    <3> TAKE c \in 0 .. Cols - 1
    <3>1. <<k, c>> \in Cells
      BY <2>1 DEF Cells
    <3> QED BY <3>1, TableIs DEF WallPlane
  <2>3. ASSUME NEW c \in 0 .. Cols - 1
        PROVE  (<<k + 1, c>> \in Cells /\ EdgeBlocked(<<k, c>>, <<k + 1, c>>, ws))
               <=> (<<"H", k, c>> \in ws \/ <<"H", k, c - 1>> \in ws)
    <3>1. EdgeBlocked(<<k, c>>, <<k + 1, c>>, ws) <=> (<<"H", k, c>> \in ws \/ <<"H", k, c - 1>> \in ws)
      BY <2>1 DEF EdgeBlocked
    <3>2. <<k + 1, c>> \in Cells <=> k # Rows - 1
      BY <1>0, <2>1 DEF Cells
    <3>3. \A x : <<"H", k, x>> \in ws => k # Rows - 1
      <4> TAKE x
      <4> HAVE <<"H", k, x>> \in ws
      <4>1. <<"H", k, x>>[2] \in 0 .. Rows - 2
        BY <1>1
      <4> QED BY <1>0, <4>1
    <3> QED BY <3>1, <3>2, <3>3
  <2>4. \A c : c \in AnchorsOn(ws, line) <=> <<"H", k, c>> \in ws
    <3> TAKE c
    <3>1. WallAt(line, c) = <<"H", k, c>> /\ LengthOf(line) = Cols
      BY <1>2 DEF WallAt, LengthOf, k
    <3>2. <<"H", k, c>> \in ws => c \in 0 .. Cols - 2
      <4> HAVE <<"H", k, c>> \in ws
      <4>1. <<"H", k, c>>[3] \in 0 .. Cols - 2
        BY <1>1
      <4> QED BY <4>1
    <3> QED BY <3>1, <3>2 DEF AnchorsOn
  <2>5. Line(f, line[1], k) = [c \in 0 .. Cols - 1 |-> WallPlane("H", ws)[<<k, c>>]]
    BY <1>2 DEF Line
  <2>6. PlaneLine(LengthOf(line), AnchorsOn(ws, line)) =
          [c \in 0 .. Cols - 1 |-> IF c \in AnchorsOn(ws, line) \/ c - 1 \in AnchorsOn(ws, line) THEN One ELSE 0]
    BY <1>2 DEF PlaneLine, LengthOf
  <2>7. \A c \in 0 .. Cols - 1 : WallPlane("H", ws)[<<k, c>>] =
          IF c \in AnchorsOn(ws, line) \/ c - 1 \in AnchorsOn(ws, line) THEN One ELSE 0
    BY <2>2, <2>3, <2>4
  <2> QED BY <2>5, <2>6, <2>7 DEF k
<1>3. CASE line[1] = "V"
  <2>1. k \in 0 .. Cols - 1
    BY <1>3 DEF Lines
  <2> HIDE DEF k
  <2>2. \A r \in 0 .. Rows - 1 : WallPlane("V", ws)[<<r, k>>] =
           IF <<r, k + 1>> \in Cells /\ EdgeBlocked(<<r, k>>, <<r, k + 1>>, ws) THEN One ELSE 0
    <3> TAKE r \in 0 .. Rows - 1
    <3>1. <<r, k>> \in Cells
      BY <2>1 DEF Cells
    <3> QED BY <3>1, TableIs DEF WallPlane
  <2>3. ASSUME NEW r \in 0 .. Rows - 1
        PROVE  (<<r, k + 1>> \in Cells /\ EdgeBlocked(<<r, k>>, <<r, k + 1>>, ws))
               <=> (<<"V", r, k>> \in ws \/ <<"V", r - 1, k>> \in ws)
    <3>1. EdgeBlocked(<<r, k>>, <<r, k + 1>>, ws) <=> (<<"V", r, k>> \in ws \/ <<"V", r - 1, k>> \in ws)
      BY <2>1 DEF EdgeBlocked
    <3>2. <<r, k + 1>> \in Cells <=> k # Cols - 1
      BY <1>0, <2>1 DEF Cells
    <3>3. \A x : <<"V", x, k>> \in ws => k # Cols - 1
      <4> TAKE x
      <4> HAVE <<"V", x, k>> \in ws
      <4>1. <<"V", x, k>>[3] \in 0 .. Cols - 2
        BY <1>1
      <4> QED BY <1>0, <4>1
    <3> QED BY <3>1, <3>2, <3>3
  <2>4. \A r : r \in AnchorsOn(ws, line) <=> <<"V", r, k>> \in ws
    <3> TAKE r
    <3>1. WallAt(line, r) = <<"V", r, k>> /\ LengthOf(line) = Rows
      BY <1>3 DEF WallAt, LengthOf, k
    <3>2. <<"V", r, k>> \in ws => r \in 0 .. Rows - 2
      <4> HAVE <<"V", r, k>> \in ws
      <4>1. <<"V", r, k>>[2] \in 0 .. Rows - 2
        BY <1>1
      <4> QED BY <4>1
    <3> QED BY <3>1, <3>2 DEF AnchorsOn
  <2>5. Line(f, line[1], k) = [r \in 0 .. Rows - 1 |-> WallPlane("V", ws)[<<r, k>>]]
    BY <1>3 DEF Line
  <2>6. PlaneLine(LengthOf(line), AnchorsOn(ws, line)) =
          [r \in 0 .. Rows - 1 |-> IF r \in AnchorsOn(ws, line) \/ r - 1 \in AnchorsOn(ws, line) THEN One ELSE 0]
    BY <1>3 DEF PlaneLine, LengthOf
  <2>7. \A r \in 0 .. Rows - 1 : WallPlane("V", ws)[<<r, k>>] =
          IF r \in AnchorsOn(ws, line) \/ r - 1 \in AnchorsOn(ws, line) THEN One ELSE 0
    BY <2>2, <2>3, <2>4
  <2> QED BY <2>5, <2>6, <2>7 DEF k
<1> QED BY <1>2, <1>3 DEF Lines

\* So it is read as the walls it was written for.
LEMMA LineRead ==
  ASSUME NEW ws, Placed(ws), NEW line \in Lines, NEW f,
         f.wall_horizontal = WallPlane("H", ws), f.wall_vertical = WallPlane("V", ws)
  PROVE  ReadLine(f, line) = Return(OnLine(ws, line))
<1> DEFINE n == LengthOf(line)
           anchors == AnchorsOn(ws, line)
<1>1. n \in Nat /\ n >= 2
  BY ConfigAssumption DEF LengthOf
<1>2. anchors \in AnchorSets(n)
  BY AnchorsApart
<1>3. Line(f, line[1], line[2]) = PlaneLine(n, anchors)
  BY LineOfPlanes
<1>4. {WallAt(line, i) : i \in anchors} = OnLine(ws, line)
  BY WallsOfLine
<1>5. anchors # {} => line # <<"H", Rows - 1>> /\ line # <<"V", Cols - 1>>
  <2> HAVE anchors # {}
  <2>1. PICK w : w \in OnLine(ws, line)
    BY <1>4
  <2>2. w \in Walls /\ w[1] = line[1] /\ (IF line[1] = "H" THEN w[2] ELSE w[3]) = line[2]
    BY <2>1 DEF OnLine, Placed
  <2>3. w[2] \in 0 .. Rows - 2 /\ w[3] \in 0 .. Cols - 2
    BY <2>2 DEF Walls
  <2> QED BY <2>2, <2>3, ConfigAssumption
<1> HIDE DEF n, anchors
<1>6. WallAnchorsFromPlaneLine(PlaneLine(n, anchors)) = Return(anchors)
  BY <1>1, <1>2, LinesAlwaysInvert
<1>7. Succeeds(Return(anchors)) /\ Return(anchors).it = anchors
  BY DEF Succeeds, Return
<1> QED BY <1>3, <1>4, <1>5, <1>6, <1>7 DEF ReadLine, AndThen

\* What reading one more line makes of the walls read so far.
MoreWalls(sofar, read) ==
  IF sofar.reason = "none"
  THEN IF read.reason = "none" THEN Return(sofar.it \cup read.it) ELSE read
  ELSE sofar

\* The recursion by which the lines are folded.
IsReadFold(it, f) ==
  it = [s \in SUBSET DOMAIN LineOrder |->
          IF s = {} THEN Return({}) ELSE MoreWalls(it[s \ {Max(s)}], ReadLine(f, LineOrder[Max(s)]))]

\* readWalls is what it comes to.
LEMMA ReadWallsUnfolds ==
  ASSUME NEW f
  PROVE  ReadWalls(f) = (CHOOSE it : IsReadFold(it, f))[DOMAIN LineOrder]
BY DEF ReadWalls, FoldLeft, MapThenFoldSet, IsReadFold, MoreWalls, AndThen, Succeeds

\* The planes of the walls of a board are read as these walls.
LEMMA WallsRead ==
  ASSUME NEW ws, Placed(ws), NEW f, f.wall_horizontal = WallPlane("H", ws), f.wall_vertical = WallPlane("V", ws)
  PROVE  ReadWalls(f) = Return(ws)
<1> DEFINE N == Rows + Cols
           L(n) == OnLine(ws, LineOrder[n])
           X == {Return(W) : W \in SUBSET ws}
           F == [p \in X \X (1 .. N) |-> Return(p[1].it \cup L(p[2]))]
           base == Return({})
           it == CHOOSE h : IsReadFold(h, f)
<1>1. N \in Nat /\ DOMAIN LineOrder = 1 .. N /\ \A n \in 1 .. N : LineOrder[n] \in Lines
  <2>1. \A n \in 1 .. N : LineOrder[n] = IF n <= Rows THEN <<"H", n - 1>> ELSE <<"V", n - Rows - 1>>
    BY DEF LineOrder
  <2>2. \A n \in 1 .. N : n <= Rows => n - 1 \in 0 .. Rows - 1
    BY ConfigAssumption
  <2>3. \A n \in 1 .. N : ~(n <= Rows) => n - Rows - 1 \in 0 .. Cols - 1
    BY ConfigAssumption
  <2>4. \A n \in 1 .. N : LineOrder[n] \in Lines
    <3> HIDE DEF N
    <3> TAKE n \in 1 .. N
    <3>1. CASE n <= Rows
      <4>1. LineOrder[n] = <<"H", n - 1>> /\ n - 1 \in 0 .. Rows - 1
        BY <2>1, <2>2, <3>1
      <4> QED BY <4>1 DEF Lines
    <3>2. CASE ~(n <= Rows)
      <4>1. LineOrder[n] = <<"V", n - Rows - 1>> /\ n - Rows - 1 \in 0 .. Cols - 1
        BY <2>1, <2>3, <3>2
      <4> QED BY <4>1 DEF Lines
    <3> QED BY <3>1, <3>2
  <2> QED BY <2>4, ConfigAssumption DEF LineOrder
<1>2. \A n \in 1 .. N : ReadLine(f, LineOrder[n]) = Return(L(n)) /\ L(n) \subseteq ws
  <2> TAKE n \in 1 .. N
  <2> DEFINE line == LineOrder[n]
  <2>1. line \in Lines
    BY <1>1
  <2> HIDE DEF line
  <2>2. ReadLine(f, line) = Return(OnLine(ws, line)) /\ OnLine(ws, line) \subseteq ws
    BY <2>1, LineRead DEF OnLine
  <2> QED BY <2>2 DEF line
<1>3. \A W : Return(W).it = W /\ Return(W).reason = "none"
  BY DEF Return
<1> HIDE DEF N, L
<1>4. \A x \in X, n \in 1 .. N : MoreWalls(x, ReadLine(f, LineOrder[n])) = Return(x.it \cup L(n)) /\ Return(x.it \cup L(n)) \in X
  <2> TAKE x \in X, n \in 1 .. N
  <2>1. x.reason = "none" /\ x.it \in SUBSET ws
    BY <1>3
  <2>2. MoreWalls(x, ReadLine(f, LineOrder[n])) = Return(x.it \cup L(n))
    BY <1>2, <1>3, <2>1 DEF MoreWalls
  <2>3. x.it \cup L(n) \in SUBSET ws
    BY <1>2, <2>1
  <2> QED BY <2>2, <2>3
<1>5. base \in X /\ F \in [X \X (1 .. N) -> X] /\ \A x \in X, n \in 1 .. N : F[<<x, n>>] = Return(x.it \cup L(n))
  <2>1. base \in X
    OBVIOUS
  <2> HIDE DEF X
  <2>2. \A p \in X \X (1 .. N) : Return(p[1].it \cup L(p[2])) \in X
    BY <1>4
  <2>3. F \in [X \X (1 .. N) -> X]
    BY <2>2
  <2> QED BY <2>1, <2>3
<1> HIDE DEF X, F
<1>6. ASSUME NEW h, \A s \in SUBSET (1 .. N) : h[s] \in X
      PROVE  \A s \in SUBSET (1 .. N) : s # {} =>
               F[<<h[s \ {Max(s)}], Max(s)>>] = MoreWalls(h[s \ {Max(s)}], ReadLine(f, LineOrder[Max(s)]))
  <2> TAKE s \in SUBSET (1 .. N)
  <2> HAVE s # {}
  <2>1. Max(s) \in s
    BY <1>1, GreatestNumber
  <2>2. s \ {Max(s)} \in SUBSET (1 .. N) /\ Max(s) \in 1 .. N /\ h[s \ {Max(s)}] \in X
    BY <1>6, <2>1
  <2> QED BY <1>4, <1>5, <2>2
<1>7. \E h : IsReadFold(h, f)
  <2> HIDE DEF base
  <2>1. PICK h : IsFold(h, base, F, 1 .. N)
    BY <1>1, FoldDefined
  <2>2. \A s \in SUBSET (1 .. N) : h[s] \in X
    BY <1>1, <1>5, <2>1, FoldTyped
  <2>3. h = [s \in SUBSET (1 .. N) |-> IF s = {} THEN base ELSE F[<<h[s \ {Max(s)}], Max(s)>>]]
    BY <2>1 DEF IsFold
  <2>4. h = [s \in SUBSET (1 .. N) |-> IF s = {} THEN base
                                       ELSE MoreWalls(h[s \ {Max(s)}], ReadLine(f, LineOrder[Max(s)]))]
    BY <1>6, <2>2, <2>3
  <2>5. IsReadFold(h, f)
    BY <1>1, <2>4 DEF IsReadFold, base
  <2> QED BY <2>5
<1>8. IsReadFold(it, f)
  <2> HIDE DEF base
  <2> QED BY <1>7
<1>9. ReadWalls(f) = it[1 .. N]
  BY <1>1, ReadWallsUnfolds
<1> HIDE DEF it, base
<1>10. \A s \in SUBSET (1 .. N) : it[s] = IF s = {} THEN base ELSE MoreWalls(it[s \ {Max(s)}], ReadLine(f, LineOrder[Max(s)]))
  BY <1>1, <1>8 DEF IsReadFold, base
<1> DEFINE Good(n) == it[1 .. n] = Return(UNION {L(m) : m \in 1 .. n})
           B == {n \in 0 .. N : ~Good(n)}
<1>11. B = {}
  <2> SUFFICES ASSUME B # {} PROVE FALSE
    OBVIOUS
  <2>1. PICK n \in B : \A k \in B : n <= k
    <3>1. B \in SUBSET Nat
      OBVIOUS
    <3> HIDE DEF B
    <3> QED BY <3>1, LeastNumber
  <2>2. n # 0
    <3>1. 1 .. 0 = {} /\ UNION {L(m) : m \in {}} = {}
      OBVIOUS
    <3>2. Good(0)
      BY <1>10, <3>1 DEF base
    <3> HIDE DEF Good
    <3> QED BY <3>2
  <2>3. n \in 1 .. N /\ n - 1 \in 0 .. N /\ n - 1 \notin B /\ n \in Nat /\ n >= 1 /\ ~Good(n)
    <3> HIDE DEF Good
    <3> QED BY <1>1, <2>1, <2>2
  <2> DEFINE W == UNION {L(m) : m \in 1 .. n - 1}
  <2>4. it[1 .. n - 1] = Return(W)
    BY <2>3
  <2>5. 1 .. n \in SUBSET (1 .. N) /\ (1 .. n) # {} /\ Max(1 .. n) = n /\ (1 .. n) \ {Max(1 .. n)} = 1 .. n - 1
    <3>1. 1 .. n \in SUBSET (1 .. N)
      BY <1>1, <2>3
    <3> QED BY <2>3, <3>1, LastOfThem
  <2>6. it[1 .. n] = MoreWalls(Return(W), ReadLine(f, LineOrder[n]))
    <3> HIDE DEF W
    <3> QED BY <1>10, <2>4, <2>5
  <2>7. W \in SUBSET ws
    <3>1. \A m \in 1 .. n - 1 : m \in 1 .. N
      BY <1>1, <2>3
    <3> QED BY <1>2, <3>1
  <2>8. Return(W) \in X
    BY <2>7 DEF X
  <2>9. UNION {L(m) : m \in 1 .. n} = W \cup L(n)
    <3>1. 1 .. n = (1 .. n - 1) \cup {n}
      BY <2>3
    <3> QED BY <3>1
  <2> HIDE DEF W
  <2>10. it[1 .. n] = Return(W \cup L(n))
    BY <1>3, <1>4, <2>3, <2>6, <2>8
  <2> QED BY <2>3, <2>9, <2>10
<1>12. it[1 .. N] = Return(UNION {L(m) : m \in 1 .. N})
  <2>1. N \notin B /\ N \in 0 .. N
    <3> HIDE DEF B
    <3> QED BY <1>1, <1>11
  <2> HIDE DEF L
  <2> QED BY <2>1
<1>13. UNION {L(m) : m \in 1 .. N} = ws
  <2>1. \A m \in 1 .. N : L(m) \subseteq ws
    BY <1>2
  <2>2. ASSUME NEW w \in ws
        PROVE  \E m \in 1 .. N : w \in L(m)
    <3>1. w \in Walls
      BY DEF Placed
    <3>2. w[1] \in {"H", "V"} /\ w[2] \in 0 .. Rows - 2 /\ w[3] \in 0 .. Cols - 2
      BY <3>1 DEF Walls
    <3>3. CASE w[1] = "H"
      <4>1. w[2] + 1 \in 1 .. N /\ LineOrder[w[2] + 1] = <<"H", w[2]>>
        BY <3>2, ConfigAssumption DEF LineOrder, N
      <4>2. w \in L(w[2] + 1)
        BY <3>3, <4>1 DEF L, OnLine
      <4> QED BY <4>1, <4>2
    <3>4. CASE w[1] = "V"
      <4> DEFINE m == Rows + w[3] + 1
      <4>1. m \in 1 .. N /\ ~(m <= Rows) /\ m - Rows - 1 = w[3] /\ m \in 1 .. Rows + Cols
        BY <3>2, ConfigAssumption DEF N
      <4> HIDE DEF m
      <4>2. LineOrder[m] = <<"V", w[3]>>
        BY <4>1 DEF LineOrder
      <4>3. w \in L(m)
        BY <3>4, <4>2 DEF L, OnLine
      <4> QED BY <4>1, <4>3
    <3> QED BY <3>2, <3>3, <3>4
  <2> HIDE DEF L
  <2> QED BY <2>1, <2>2
<1> QED BY <1>9, <1>12, <1>13

\* The recursion by which the refusals are folded.
IsRefusalFold(it, results) ==
  it = [s \in SUBSET DOMAIN results |->
          IF s = {} THEN "none"
          ELSE IF it[s \ {Max(s)}] = "none" THEN results[Max(s)].reason ELSE it[s \ {Max(s)}]]

\* firstRefusal is what it comes to.
LEMMA RefusalUnfolds ==
  ASSUME NEW results
  PROVE  FirstRefusal(results) = (CHOOSE it : IsRefusalFold(it, results))[DOMAIN results]
BY DEF FirstRefusal, FoldLeft, MapThenFoldSet, IsRefusalFold

\* Where every part was read, nothing is refused.
LEMMA NothingRefused ==
  ASSUME NEW N \in Nat, NEW results, DOMAIN results = 1 .. N, \A n \in 1 .. N : results[n].reason = "none"
  PROVE  FirstRefusal(results) = "none"
<1> DEFINE X == {"none"}
           F == [p \in X \X (1 .. N) |-> "none"]
           it == CHOOSE h : IsRefusalFold(h, results)
<1>1. F \in [X \X (1 .. N) -> X] /\ "none" \in X /\ \A x \in X, n \in 1 .. N : F[<<x, n>>] = "none"
  OBVIOUS
<1>2. \A x : x \in X <=> x = "none"
  OBVIOUS
<1> HIDE DEF X, F
<1>3. \E h : IsRefusalFold(h, results)
  <2>1. PICK h : IsFold(h, "none", F, 1 .. N)
    BY FoldDefined
  <2>2. \A s \in SUBSET (1 .. N) : h[s] \in X
    BY <1>1, <2>1, FoldTyped
  <2>3. h = [s \in SUBSET (1 .. N) |-> IF s = {} THEN "none" ELSE F[<<h[s \ {Max(s)}], Max(s)>>]]
    BY <2>1 DEF IsFold
  <2>4. ASSUME NEW s \in SUBSET (1 .. N), s # {}
        PROVE  F[<<h[s \ {Max(s)}], Max(s)>>]
               = IF h[s \ {Max(s)}] = "none" THEN results[Max(s)].reason ELSE h[s \ {Max(s)}]
    <3>1. Max(s) \in s
      BY <2>4, GreatestNumber
    <3>2. s \ {Max(s)} \in SUBSET (1 .. N) /\ Max(s) \in 1 .. N
      BY <3>1
    <3>3. h[s \ {Max(s)}] \in X /\ h[s \ {Max(s)}] = "none"
      BY <1>2, <2>2, <3>2
    <3> QED BY <1>1, <3>2, <3>3
  <2>5. h = [s \in SUBSET (1 .. N) |-> IF s = {} THEN "none"
               ELSE IF h[s \ {Max(s)}] = "none" THEN results[Max(s)].reason ELSE h[s \ {Max(s)}]]
    BY <2>3, <2>4
  <2>6. IsRefusalFold(h, results)
    BY <2>5 DEF IsRefusalFold
  <2> QED BY <2>6
<1>4. IsRefusalFold(it, results)
  BY <1>3
<1>5. FirstRefusal(results) = it[1 .. N]
  BY RefusalUnfolds
<1> HIDE DEF it
<1>6. \A s \in SUBSET (1 .. N) : it[s] = IF s = {} THEN "none"
               ELSE IF it[s \ {Max(s)}] = "none" THEN results[Max(s)].reason ELSE it[s \ {Max(s)}]
  BY <1>4 DEF IsRefusalFold
<1> DEFINE B == {n \in 0 .. N : it[1 .. n] # "none"}
<1>7. B = {}
  <2> SUFFICES ASSUME B # {} PROVE FALSE
    OBVIOUS
  <2>1. PICK n \in B : \A k \in B : n <= k
    <3>1. B \in SUBSET Nat
      OBVIOUS
    <3> HIDE DEF B
    <3> QED BY <3>1, LeastNumber
  <2>2. n # 0
    <3>1. 1 .. 0 = {}
      OBVIOUS
    <3>2. it[1 .. 0] = "none"
      BY <1>6, <3>1
    <3> QED BY <3>2
  <2>3. n \in 1 .. N /\ n - 1 \in 0 .. N /\ n - 1 \notin B /\ n \in Nat /\ n >= 1
    BY <2>1, <2>2
  <2>4. it[1 .. n - 1] = "none" /\ it[1 .. n] # "none" /\ results[n].reason = "none"
    BY <2>3
  <2>5. 1 .. n \in SUBSET (1 .. N) /\ (1 .. n) # {} /\ Max(1 .. n) = n /\ (1 .. n) \ {Max(1 .. n)} = 1 .. n - 1
    <3>1. 1 .. n \in SUBSET (1 .. N)
      BY <2>3
    <3> QED BY <2>3, <3>1, LastOfThem
  <2> HIDE DEF B
  <2> QED BY <1>6, <2>4, <2>5
<1> QED BY <1>5, <1>7

\* The planes of a board are read as its position: what was written was not lost, and nothing
\* the reader checks across the planes fails.
LEMMA PlanesRead ==
  ASSUME Inductive, Normal(Position)
  PROVE  PositionFromFeatures(EncodeState(GameState)) = Return(Position)
<1> DEFINE f == EncodeState(GameState)
           r == Other(turn)
<1>1. /\ TypeOK /\ turn \in Players /\ r \in Players /\ turn # r /\ Players = {turn, r}
      /\ pawns \in [Players -> Cells] /\ stock \in [Players -> Nat]
      /\ \A p \in Players : stock[p] \in 0 .. InitialStock[p]
  <2>1. TypeOK /\ \A p \in Players : stock[p] <= InitialStock[p] /\ InitialStock[p] \in Nat
    BY ConfigAssumption DEF Inductive, InitialStock
  <2>2. turn \in Players /\ pawns \in [Players -> Cells] /\ stock \in [Players -> Nat]
    BY <2>1 DEF TypeOK
  <2> QED BY <2>1, <2>2 DEF Players, Other
<1>2. /\ f.mover_pawn = OneHot(pawns[turn]) /\ f.opponent_pawn = OneHot(pawns[r])
      /\ f.wall_horizontal = WallPlane("H", walls) /\ f.wall_vertical = WallPlane("V", walls)
      /\ f.mover_stock = Everywhere(IF InitialStock[turn] > 0 THEN (stock[turn] * One) \div InitialStock[turn] ELSE 0)
      /\ f.opponent_stock = Everywhere(IF InitialStock[r] > 0 THEN (stock[r] * One) \div InitialStock[r] ELSE 0)
      /\ f.goal_proximity = GoalProximity(turn)
      /\ f.side_to_move = Everywhere(IF turn = "A" THEN One ELSE 0)
  BY DEF EncodeState, GameState, StockScale
<1> HIDE DEF f
<1>3. OneHotSquare(f.mover_pawn) = Return(pawns[turn]) /\ OneHotSquare(f.opponent_pawn) = Return(pawns[r])
  BY <1>1, <1>2, OneHotRead
<1>4. StockOf(f.mover_stock, turn) = Return(stock[turn])
  BY <1>1, <1>2, StockRead
<1>5. StockOf(f.opponent_stock, r) = Return(stock[r])
  BY <1>1, <1>2, StockRead
<1>6. ReadWalls(f) = Return(walls)
  <2>1. Placed(walls)
    BY <1>1 DEF Placed, Inductive, TypeOK
  <2> QED BY <1>2, <2>1, WallsRead
<1>7. LET flag == f.side_to_move[<<0, 0>>]
      IN Constant(f.side_to_move) /\ flag \in {0, One} /\ (flag = One <=> turn = "A")
  <2>1. <<0, 0>> \in Cells
    BY ConfigAssumption DEF Cells
  <2>2. \A cell \in Cells : f.side_to_move[cell] = IF turn = "A" THEN One ELSE 0
    BY <1>2, TableIs DEF Everywhere
  <2> QED BY <2>1, <2>2, OnePositive DEF Constant
<1> DEFINE parts == <<Return(pawns[turn]), Return(pawns[r]), Return(stock[turn]), Return(stock[r]), Return(walls)>>
<1>8. FirstRefusal(parts) = "none"
  <2>1. DOMAIN parts = 1 .. 5 /\ \A n \in 1 .. 5 : parts[n].reason = "none"
    BY DEF Return
  <2>2. 5 \in Nat
    OBVIOUS
  <2> HIDE DEF parts
  <2> QED BY <2>1, <2>2, NothingRefused
<1>9. PositionOfParts(turn, parts) = Position
  <2>1. /\ parts[1].it = pawns[turn] /\ parts[2].it = pawns[r] /\ parts[3].it = stock[turn]
        /\ parts[4].it = stock[r] /\ parts[5].it = walls
    BY DEF Return
  <2> HIDE DEF parts
  <2>2. [p \in Players |-> IF p = turn THEN parts[1].it ELSE parts[2].it] = pawns
    BY <1>1, <2>1
  <2>3. [p \in Players |-> IF p = turn THEN parts[3].it ELSE parts[4].it] = stock
    BY <1>1, <2>1
  <2> QED BY <2>1, <2>2, <2>3 DEF PositionOfParts, Position
<1>10. CrossChecked(f, Position) = Return(Position)
  <2>1. Position.turn = turn /\ Position.stock = stock /\ Position.walls = walls
    BY DEF Position
  <2>2. StockA + StockB - stock["A"] - stock["B"] = Cardinality(walls)
    <3>1. InitialStock["A"] = StockA /\ InitialStock["B"] = StockB /\ stock["A"] \in Int /\ stock["B"] \in Int
      BY <1>1 DEF InitialStock, Players
    <3>2. (StockA - stock["A"]) + (StockB - stock["B"]) = Cardinality(walls)
      BY <3>1 DEF Inductive, StockIsOnTheBoard, Spent
    <3> QED BY <3>1, <3>2, ConfigAssumption
  <2> QED BY <1>2, <2>1, <2>2 DEF CrossChecked
<1> DEFINE flag == f.side_to_move[<<0, 0>>]
           mover == IF flag = One THEN "A" ELSE "B"
<1>11. mover = turn /\ Other(mover) = r /\ flag \in {0, One}
  BY <1>1, <1>7 DEF Players, Other
<1>12. <<OneHotSquare(f.mover_pawn), OneHotSquare(f.opponent_pawn), StockOf(f.mover_stock, mover),
         StockOf(f.opponent_stock, Other(mover)), ReadWalls(f)>> = parts
  <2> HIDE DEF mover, flag
  <2> QED BY <1>3, <1>4, <1>5, <1>6, <1>11
<1>13. PositionFromFeatures(f) =
         IF ~Constant(f.side_to_move) THEN Refuse("side_to_move_not_constant")
         ELSE IF flag \notin {0, One} THEN Refuse("side_to_move_not_binary")
         ELSE IF FirstRefusal(parts) # "none" THEN Refuse(FirstRefusal(parts))
         ELSE CrossChecked(f, PositionOfParts(mover, parts))
  <2> HIDE DEF parts
  <2> QED BY <1>12 DEF PositionFromFeatures
<1> HIDE DEF parts, mover, flag
<1> QED BY <1>7, <1>8, <1>9, <1>10, <1>11, <1>13 DEF f

\* positionFromFeatures undoes encodeState at every state of every game, on every board: no two
\* positions that a game can be in have the same planes.
THEOREM PlanesAlwaysRead == Spec => [](PositionFromFeatures(EncodeState(GameState)) = Return(Position))
<1>1. Inductive /\ ValidState => PositionFromFeatures(EncodeState(GameState)) = Return(Position)
  BY PlanesRead DEF ValidState
<1> QED BY <1>1, RecordsValidate, RecordsAlwaysValidate, PTL

(* ---- The history a record carries ------------------------------------------------ *)

\* The rules over a state that is a value have the same board,
LEMMA RebuiltBoard ==
  ASSUME NEW s
  PROVE  /\ Rebuilt(s)!Players = Players /\ Rebuilt(s)!Cells = Cells /\ Rebuilt(s)!Walls = Walls
         /\ Rebuilt(s)!Start = Start /\ Rebuilt(s)!GoalRow = GoalRow /\ Rebuilt(s)!InitialStock = InitialStock
         /\ Rebuilt(s)!Adjacent = Adjacent /\ Rebuilt(s)!InitialPosition = InitialPosition
         /\ Rebuilt(s)!Ongoing = Ongoing /\ Rebuilt(s)!Anchors = Anchors
BY DEF Rebuilt!Players, Players, Rebuilt!Cells, Cells, Rebuilt!Walls, Walls, Rebuilt!Start, Start, Rebuilt!GoalRow, GoalRow,
       Rebuilt!InitialStock, InitialStock, Rebuilt!Adjacent, Adjacent, Rebuilt!InitialPosition, InitialPosition,
       Rebuilt!Ongoing, Ongoing, Rebuilt!Anchors, Anchors

\* the same open edges,
LEMMA RebuiltNeighbours ==
  ASSUME NEW s
  PROVE  \A cell, ws : Rebuilt(s)!OpenNeighbours(cell, ws) = OpenNeighbours(cell, ws)
BY RebuiltBoard DEF Rebuilt!OpenNeighbours, OpenNeighbours, Rebuilt!EdgeBlocked, EdgeBlocked

\* the same paths,
LEMMA RebuiltPaths ==
  ASSUME NEW s
  PROVE  \A from, row, ws : Rebuilt(s)!HasPath(from, row, ws) = HasPath(from, row, ws)
BY DEF Rebuilt!HasPath, HasPath, Rebuilt!OpenNeighbours, OpenNeighbours, Rebuilt!EdgeBlocked, EdgeBlocked, Rebuilt!Adjacent, Adjacent,
   Rebuilt!Cells, Cells

\* and take the same positions for positions;
LEMMA RebuiltNormal ==
  ASSUME NEW s
  PROVE  \A pos : Rebuilt(s)!Normal(pos) <=> Normal(pos)
<1>1. \A w : Rebuilt(s)!Conflicts(w) = Conflicts(w)
  BY DEF Rebuilt!Conflicts, Conflicts
<1>2. \A ps, ws : Rebuilt(s)!BothHavePath(ps, ws) <=> BothHavePath(ps, ws)
  BY RebuiltBoard, RebuiltPaths DEF Rebuilt!BothHavePath, BothHavePath
<1> QED BY <1>1, <1>2, RebuiltBoard DEF Rebuilt!Normal, Normal

\* they count alike,
LEMMA RebuiltCounts ==
  ASSUME NEW s
  PROVE  \A S : Rebuilt(s)!Cardinality(S) = Cardinality(S)
BY DEF Rebuilt!Cardinality, Cardinality, Rebuilt!IsFiniteSet, IsFiniteSet

\* and number, key, move and adjudicate alike,
LEMMA RebuiltMoves ==
  ASSUME NEW s
  PROVE  /\ \A n : Rebuilt(s)!ExpectedTurn(n) = ExpectedTurn(n) /\ Rebuilt(s)!CompletedActions(n) = CompletedActions(n)
         /\ \A a, b : Rebuilt(s)!Distance(a, b) = Distance(a, b)
         /\ \A p : Rebuilt(s)!Other(p) = Other(p)
         /\ \A pos : /\ Rebuilt(s)!PawnDestinations(pos) = PawnDestinations(pos)
                     /\ Rebuilt(s)!PositionKey(pos) = PositionKey(pos)
         /\ \A pos, w : Rebuilt(s)!IsLegalWall(pos, w) <=> IsLegalWall(pos, w)
         /\ \A key : Rebuilt(s)!PositionFromKey(key) = PositionFromKey(key)
         /\ \A ps, p : Rebuilt(s)!AtGoal(ps, p) <=> AtGoal(ps, p)
         /\ \A w, n, q : Rebuilt(s)!Adjudicate(w, n, q) = Adjudicate(w, n, q)
<1>1. \A n : Rebuilt(s)!ExpectedTurn(n) = ExpectedTurn(n) /\ Rebuilt(s)!CompletedActions(n) = CompletedActions(n)
  BY DEF Rebuilt!ExpectedTurn, ExpectedTurn, Rebuilt!CompletedActions, CompletedActions, Rebuilt!Other, Other, Rebuilt!Players, Players
<1>2. \A a, b : Rebuilt(s)!Distance(a, b) = Distance(a, b)
  BY DEF Rebuilt!Distance, Distance, Rebuilt!Abs, Abs
<1>3. \A p : Rebuilt(s)!Other(p) = Other(p)
  BY DEF Rebuilt!Other, Other
<1>4. \A pos : Rebuilt(s)!PawnDestinations(pos) = PawnDestinations(pos)
  BY <1>3, RebuiltNeighbours DEF Rebuilt!PawnDestinations, PawnDestinations
<1>5. \A pos : Rebuilt(s)!PositionKey(pos) = PositionKey(pos)
  BY DEF Rebuilt!PositionKey, PositionKey, Rebuilt!Square, Square, Rebuilt!Banks, Banks, Rebuilt!AnchorIndex, AnchorIndex
<1>6. \A pos, w : Rebuilt(s)!IsLegalWall(pos, w) <=> IsLegalWall(pos, w)
  <2>1. \A w : Rebuilt(s)!Conflicts(w) = Conflicts(w)
    BY DEF Rebuilt!Conflicts, Conflicts
  <2>2. \A ps, ws : Rebuilt(s)!BothHavePath(ps, ws) <=> BothHavePath(ps, ws)
    BY RebuiltBoard, RebuiltPaths DEF Rebuilt!BothHavePath, BothHavePath
  <2> QED BY <2>1, <2>2 DEF Rebuilt!IsLegalWall, IsLegalWall
<1>7. \A key : Rebuilt(s)!PositionFromKey(key) = PositionFromKey(key)
  BY DEF Rebuilt!PositionFromKey, PositionFromKey, Rebuilt!CellOf, CellOf, Rebuilt!AnchorIndex, AnchorIndex,
         Rebuilt!Players, Players, Rebuilt!Walls, Walls
<1>8. \A ps, p : Rebuilt(s)!AtGoal(ps, p) <=> AtGoal(ps, p)
  BY DEF Rebuilt!AtGoal, AtGoal, Rebuilt!GoalRow, GoalRow, Rebuilt!Players, Players
<1>9. \A w, n, q : Rebuilt(s)!Adjudicate(w, n, q) = Adjudicate(w, n, q)
  BY DEF Rebuilt!Adjudicate, Adjudicate, Rebuilt!Win, Win, Rebuilt!Draw, Draw, Rebuilt!Ongoing, Ongoing, Rebuilt!Players, Players
<1> QED BY <1>1, <1>2, <1>3, <1>4, <1>5, <1>6, <1>7, <1>8, <1>9

\* so that validateState says of a record what it says of the state that the record was made of.
LEMMA RebuiltValid == Rebuilt(GameState)!ValidState <=> ValidState
<1> DEFINE s == GameState
<1>1. /\ s.pawns = pawns /\ s.walls = walls /\ s.stock = stock /\ s.turn = turn /\ s.ply = ply
      /\ s.historyStartPly = historyStartPly /\ s.counts = counts /\ s.outcome = outcome
  BY DEF GameState
<1> HIDE DEF s
<1>2. Rebuilt(s)!Position = Position
  BY <1>1 DEF Rebuilt!Position, Position
<1>3. Rebuilt(s)!HistoryLength = HistoryLength
  BY <1>1 DEF Rebuilt!HistoryLength, HistoryLength
<1>4. \A p : Rebuilt(s)!TurnCount(p) = TurnCount(p) /\ Rebuilt(s)!Spent(p) = Spent(p)
  BY <1>1, RebuiltBoard, RebuiltCounts DEF Rebuilt!TurnCount, TurnCount, Rebuilt!Occurring, Occurring, Rebuilt!Spent, Spent
<1>5. Rebuilt(s)!StockIsOnTheBoard <=> StockIsOnTheBoard
  BY <1>1, <1>4, RebuiltCounts DEF Rebuilt!StockIsOnTheBoard, StockIsOnTheBoard
<1>6. Rebuilt(s)!WindowStartsAtLastWall <=> WindowStartsAtLastWall
  BY <1>1, <1>4, RebuiltBoard, RebuiltMoves, RebuiltCounts DEF Rebuilt!WindowStartsAtLastWall, WindowStartsAtLastWall
<1>7. Rebuilt(s)!FirstPlyIsLegal <=> FirstPlyIsLegal
  BY <1>1, RebuiltBoard, RebuiltMoves, RebuiltCounts DEF Rebuilt!FirstPlyIsLegal, FirstPlyIsLegal
<1>8. Rebuilt(s)!PawnsWithinReach <=> PawnsWithinReach
  BY <1>1, RebuiltBoard, RebuiltMoves DEF Rebuilt!PawnsWithinReach, PawnsWithinReach
<1>9. Rebuilt(s)!WindowIsConsistent <=> WindowIsConsistent
  BY <1>1, <1>2, <1>3, <1>4, RebuiltBoard, RebuiltMoves, RebuiltNormal DEF Rebuilt!WindowIsConsistent, WindowIsConsistent
<1>10. Rebuilt(s)!OutcomeIsEarned <=> OutcomeIsEarned
  <2> DEFINE winner == {p \in Players : AtGoal(pawns, p)}
             first == IF winner = {} THEN "none" ELSE CHOOSE p \in winner : TRUE
  <2>1. {p \in Rebuilt(s)!Players : Rebuilt(s)!AtGoal(s.pawns, p)} = winner
    BY <1>1, RebuiltBoard, RebuiltMoves
  <2>2. \A k : Rebuilt(s)!PositionFromKey(k).pawns = PositionFromKey(k).pawns
    BY RebuiltMoves
  <2>3. \A k : (\E p \in Rebuilt(s)!Players : Rebuilt(s)!AtGoal(Rebuilt(s)!PositionFromKey(k).pawns, p))
               <=> (\E p \in Players : AtGoal(PositionFromKey(k).pawns, p))
    BY <2>2, RebuiltBoard, RebuiltMoves
  <2>4. /\ Rebuilt(s)!PositionKey(Rebuilt(s)!Position) = PositionKey(Position)
        /\ Rebuilt(s)!PositionKey(Rebuilt(s)!InitialPosition) = PositionKey(InitialPosition)
        /\ \A n : Rebuilt(s)!Adjudicate(first, n, s.ply) = Adjudicate(first, n, ply)
    BY <1>1, <1>2, RebuiltBoard, RebuiltMoves
  <2>5. Rebuilt(s)!OutcomeIsEarned <=>
          /\ Cardinality(winner) <= 1 /\ turn \notin winner
          /\ \A k \in DOMAIN counts :
               (\E p \in Players : AtGoal(PositionFromKey(k).pawns, p))
                 => k = PositionKey(Position) /\ counts[k] = 1
          /\ outcome = IF ply = 0 THEN Ongoing ELSE Adjudicate(first, counts[PositionKey(Position)], ply)
          /\ ply = 0 => PositionKey(Position) = PositionKey(InitialPosition)
          /\ ply <= PlyCap
          /\ counts[PositionKey(Position)] <= RepetitionThreshold
          /\ \A k \in DOMAIN counts \ {PositionKey(Position)} : counts[k] < RepetitionThreshold
    <3> HIDE DEF winner
    <3> QED BY <1>1, <2>1, <2>3, <2>4, RebuiltBoard, RebuiltCounts DEF Rebuilt!OutcomeIsEarned
  <2> QED BY <2>5 DEF OutcomeIsEarned
<1> QED BY <1>1, <1>2, <1>5, <1>6, <1>7, <1>8, <1>9, <1>10, RebuiltMoves, RebuiltNormal DEF Rebuilt!ValidState, ValidState, s

\* The recursion by which the counts of the entries S are summed, and what it comes to.
IsSumFold(it, S) ==
  it = [s \in SUBSET S |-> IF s = {} THEN 0
                           ELSE (CHOOSE x \in s : TRUE)[2] + it[s \ {CHOOSE x \in s : TRUE}]]
SumOf(S) == (CHOOSE it : IsSumFold(it, S))[S]

\* mapThenSumSet is what it comes to.
LEMMA SumUnfolds ==
  ASSUME NEW S
  PROVE  MapThenSumSet(LAMBDA e : e[2], S) = SumOf(S)
BY DEF MapThenSumSet, MapThenFoldSet, SumOf, IsSumFold

\* One thing for each time that an entry was counted.
Units(S) == UNION {{e} \X (1 .. e[2]) : e \in S}
CountedUpTo(S, N) == \A e \in S : e[2] \in 0 .. N

\* The counts sum up to how many they are.
LEMMA SumCounts ==
  ASSUME NEW S, IsFiniteSet(S), NEW N \in Nat, CountedUpTo(S, N)
  PROVE  SumOf(S) = Cardinality(Units(S))
<1> DEFINE h == [s \in SUBSET S |-> Cardinality(Units(s))]
           first(s) == CHOOSE x \in s : TRUE
<1>1. \A s \in SUBSET S : IsFiniteSet(Units(s))
  <2> TAKE s \in SUBSET S
  <2>1. IsFiniteSet(1 .. N)
    BY FS_Interval
  <2>2. IsFiniteSet(S \X (1 .. N))
    BY <2>1, FS_Product
  <2>3. Units(s) \in SUBSET (S \X (1 .. N))
    BY DEF Units, CountedUpTo
  <2> QED BY <2>2, <2>3, FS_Subset
<1>2. ASSUME NEW s \in SUBSET S, s # {}
      PROVE  h[s] = first(s)[2] + h[s \ {first(s)}]
  <2> DEFINE x == first(s)
             n == x[2]
             new == {x} \X (1 .. n)
             rest == s \ {x}
  <2>1. x \in s /\ n \in Nat
    BY <1>2 DEF CountedUpTo
  <2>2. rest \in SUBSET S
    OBVIOUS
  <2> HIDE DEF x
  <2>3. Units(s) = Units(rest) \cup new /\ Units(rest) \cap new = {}
    BY <2>1 DEF Units
  <2>4. IsFiniteSet(new) /\ Cardinality(new) = n
    <3>1. IsFiniteSet(1 .. n) /\ Cardinality(1 .. n) = n
      <4> HIDE DEF n
      <4>1. n \in Nat /\ n \in Int /\ 1 \in Int
        BY <2>1
      <4>2. IsFiniteSet(1 .. n) /\ Cardinality(1 .. n) = IF 1 > n THEN 0 ELSE n - 1 + 1
        BY <4>1, FS_Interval
      <4> QED BY <4>1, <4>2
    <3>2. IsFiniteSet({x}) /\ Cardinality({x}) = 1
      BY FS_Singleton
    <3> HIDE DEF n
    <3>3. IsFiniteSet(new) /\ Cardinality(new) = 1 * n
      BY <3>1, <3>2, FS_Product
    <3> QED BY <2>1, <3>3
  <2>5. Cardinality(Units(s)) = Cardinality(Units(rest)) + n
    <3>1. IsFiniteSet(Units(rest)) /\ Cardinality(Units(rest)) \in Nat
      BY <1>1, <2>2, FS_CardinalityType
    <3> HIDE DEF new, rest, n
    <3>2. Cardinality(Units(rest) \cup new) = Cardinality(Units(rest)) + Cardinality(new) - Cardinality({})
      BY <3>1, <2>3, <2>4, FS_Union
    <3> QED BY <2>1, <2>3, <2>4, <3>1, <3>2, FS_EmptySet
  <2>6. Cardinality(Units(rest)) \in Nat
    BY <1>1, <2>2, FS_CardinalityType
  <2> QED BY <2>1, <2>2, <2>5, <2>6 DEF x
<1>3. h[{}] = 0
  <2>1. Units({}) = {}
    BY DEF Units
  <2> QED BY <2>1, FS_EmptySet
<1>4. IsSumFold(h, S)
  <2>1. h = [s \in SUBSET S |-> h[s]]
    OBVIOUS
  <2>2. \A s \in SUBSET S : h[s] = IF s = {} THEN 0 ELSE first(s)[2] + h[s \ {first(s)}]
    <3> HIDE DEF h, first
    <3> QED BY <1>2, <1>3
  <2> HIDE DEF h
  <2> QED BY <2>1, <2>2 DEF IsSumFold
<1>5. ASSUME NEW it, IsSumFold(it, S)
      PROVE  it[S] = h[S]
  <2> DEFINE B == {s \in SUBSET S : it[s] # h[s]}
  <2> SUFFICES ASSUME B # {} PROVE FALSE
    OBVIOUS
  <2>1. PICK s \in B : \A x \in s : \A U \in SUBSET (s \ {x}) : U \notin B
    <3>1. B \in SUBSET (SUBSET S)
      OBVIOUS
    <3> HIDE DEF B
    <3> QED BY <3>1, SmallestSet
  <2>2. /\ it[s] = IF s = {} THEN 0 ELSE first(s)[2] + it[s \ {first(s)}]
        /\ h[s] = IF s = {} THEN 0 ELSE first(s)[2] + h[s \ {first(s)}]
    <3> HIDE DEF h
    <3> QED BY <1>4, <1>5 DEF IsSumFold
  <2>3. s # {}
    BY <2>2
  <2>4. first(s) \in s
    BY <2>3
  <2>5. it[s \ {first(s)}] = h[s \ {first(s)}]
    <3> HIDE DEF h, first
    <3> QED BY <2>1, <2>4
  <2> HIDE DEF h, first
  <2> QED BY <2>2, <2>3, <2>5
<1>6. SumOf(S) = h[S]
  <2> HIDE DEF h
  <2> QED BY <1>4, <1>5 DEF SumOf
<1> QED BY <1>6

\* The parts of a number of two bytes and a bit are read back.
LEMMA BytesRead ==
  ASSUME NEW x \in Nat, NEW y \in Nat, NEW z \in Nat, NEW n \in Nat,
         x < 256, y < 256, z < 2, n = x + 256 * y + 65536 * z
  PROVE  n <= 131071 /\ n % 256 = x /\ (n \div 256) % 256 = y /\ n \div 65536 = z
<1>1. n <= 131071
  OBVIOUS
<1>2. n % 256 = x /\ n \div 256 = y + 256 * z
  OBVIOUS
<1>3. (y + 256 * z) % 256 = y
  OBVIOUS
<1>4. n \div 65536 = z
  OBVIOUS
<1>5. (n \div 256) % 256 = y
  BY <1>2, <1>3
<1> QED BY ONLY <1>1, <1>2, <1>4, <1>5

\* A position of the window, and the key that a record keeps of it.
Standing(a, b, t) == [pawns |-> [p \in Players |-> IF p = "A" THEN a ELSE b], walls |-> walls, stock |-> stock, turn |-> t]

\* The compact key of two squares and a turn is read back as they are, on a board whose squares
\* fit a byte.
LEMMA KeyReads ==
  ASSUME CellCount <= 256, NEW a \in Cells, NEW b \in Cells, NEW t \in Players,
         NEW key, key.squareA = Square(a), key.squareB = Square(b), key.turn = t
  PROVE  /\ CompactKey(key) \in Nat /\ CompactKey(key) <= 131071
         /\ PawnsFromWindowKey(CompactKey(key))
              = Return([pawns |-> [p \in Players |-> IF p = "A" THEN a ELSE b], turn |-> t])
<1> DEFINE n == CompactKey(key)
           x == Square(a)
           y == Square(b)
           z == IF t = "B" THEN 1 ELSE 0
<1>1. \A cell \in Cells : /\ Square(cell) \in Nat /\ Square(cell) < CellCount /\ CellOf(Square(cell)) = cell
  <2> SUFFICES ASSUME NEW cell \in Cells
               PROVE  Square(cell) \in Nat /\ Square(cell) < CellCount /\ CellOf(Square(cell)) = cell
    OBVIOUS
  <2>1. /\ cell = <<cell[1], cell[2]>> /\ Cols \in Nat
        /\ cell[1] \in Nat /\ cell[2] \in Nat /\ cell[2] < Cols
    BY CellShape, ConfigAssumption
  <2>2. Square(cell) \div Cols = cell[1] /\ Square(cell) % Cols = cell[2]
    BY <2>1, RowMajorDivides DEF Square
  <2>3. Square(cell) \in Nat /\ Square(cell) < CellCount
    BY SquareRange DEF CellCount
  <2> QED BY <2>1, <2>2, <2>3 DEF CellOf
<1>2. /\ x \in Nat /\ x < CellCount /\ CellOf(x) = a
      /\ y \in Nat /\ y < CellCount /\ CellOf(y) = b
  BY <1>1
<1>3. CellCount \in Nat
  BY CellsCounted
<1>4. n = x + 256 * y + (IF t = "B" THEN 65536 ELSE 0)
  BY DEF CompactKey
<1> HIDE DEF n, x, y
<1>5. /\ x < 256 /\ y < 256 /\ z \in Nat /\ z < 2 /\ n \in Nat
      /\ n = x + 256 * y + 65536 * z
  <2>1. x < 256 /\ y < 256
    BY <1>2, <1>3
  <2>2. CASE t = "B"
    BY <1>2, <1>4, <2>1, <2>2
  <2>3. CASE t # "B"
    BY <1>2, <1>4, <2>1, <2>3
  <2> QED BY <2>1, <2>2, <2>3
<1> HIDE DEF z
<1>6. n <= 131071 /\ n % 256 = x /\ (n \div 256) % 256 = y /\ n \div 65536 = z
  BY <1>2, <1>5, BytesRead
<1>7. (IF n \div 65536 = 1 THEN "B" ELSE "A") = t
  BY <1>6 DEF z, Players
<1>8. ~(n < 0 \/ n > 131071) /\ ~(x >= CellCount \/ y >= CellCount)
  BY <1>2, <1>3, <1>5, <1>6
<1>9. [p \in Players |-> CellOf(IF p = "A" THEN x ELSE y)] = [p \in Players |-> IF p = "A" THEN a ELSE b]
  BY <1>2
<1>10. PawnsFromWindowKey(n) = Return([pawns |-> [p \in Players |-> CellOf(IF p = "A" THEN x ELSE y)],
                                       turn |-> IF n \div 65536 = 1 THEN "B" ELSE "A"])
  BY <1>6, <1>8 DEF PawnsFromWindowKey
<1>11. n \in Nat /\ n <= 131071
  BY <1>5, <1>6
<1> QED BY <1>7, <1>9, <1>10, <1>11 DEF n

\* What the window of a valid record has: positions of the board that stands, each read back from
\* its compact key, each seen at most as often as the window is long.
LEMMA EntryReads ==
  ASSUME CellCount <= 256, TypeOK, ValidState, NEW k \in DOMAIN counts
  PROVE  LET read == PawnsFromWindowKey(CompactKey(k))
         IN /\ Succeeds(read) /\ HistoricalPosition(Position, read) = PositionFromKey(k)
            /\ Normal(PositionFromKey(k)) /\ PositionKey(PositionFromKey(k)) = k /\ k.turn \in Players
            /\ counts[k] \in 1 .. HistoryLength /\ CompactKey(k) \in Nat /\ CompactKey(k) <= 131071
<1> DEFINE past == PositionFromKey(k)
           read == PawnsFromWindowKey(CompactKey(k))
           a == past.pawns["A"]
           b == past.pawns["B"]
<1>1. /\ Normal(past) /\ PositionKey(past) = k /\ past.walls = walls /\ past.stock = stock
      /\ counts[k] >= 1 /\ counts[k] <= 1 + (HistoryLength - 1) \div 4
  BY DEF ValidState, WindowIsConsistent
<1>2. past = [pawns |-> past.pawns, walls |-> past.walls, stock |-> past.stock, turn |-> past.turn]
      /\ past.turn = k.turn
  BY DEF PositionFromKey
<1> HIDE DEF past
<1>3. past.pawns \in [Players -> Cells] /\ past.turn \in Players /\ a \in Cells /\ b \in Cells
  BY <1>1 DEF Normal, Players
<1>4. k.squareA = Square(a) /\ k.squareB = Square(b) /\ k.turn = past.turn
  BY <1>1, <1>2 DEF PositionKey
<1>5. /\ CompactKey(k) \in Nat /\ CompactKey(k) <= 131071
      /\ read = Return([pawns |-> [p \in Players |-> IF p = "A" THEN a ELSE b], turn |-> past.turn])
  BY <1>3, <1>4, KeyReads
<1>6. [p \in Players |-> IF p = "A" THEN a ELSE b] = past.pawns
  BY <1>3 DEF Players
<1> HIDE DEF read, a, b
<1>7. Succeeds(read) /\ read.it.pawns = past.pawns /\ read.it.turn = past.turn
  BY <1>5, <1>6 DEF Return, Succeeds
<1>8. HistoricalPosition(Position, read) = past
  <2>1. HistoricalPosition(Position, read)
          = [pawns |-> read.it.pawns, walls |-> walls, stock |-> stock, turn |-> read.it.turn]
    <3>1. ASSUME NEW ps, NEW t
          PROVE  [Position EXCEPT !.pawns = ps, !.turn = t] = [pawns |-> ps, walls |-> walls, stock |-> stock, turn |-> t]
      <4> DEFINE q == [Position EXCEPT !.pawns = ps]
      <4>1. q = [pawns |-> ps, walls |-> walls, stock |-> stock, turn |-> turn]
        BY DEF Position
      <4>2. [q EXCEPT !.turn = t] = [Position EXCEPT !.pawns = ps, !.turn = t]
        OBVIOUS
      <4> HIDE DEF q
      <4>3. [q EXCEPT !.turn = t] = [pawns |-> ps, walls |-> walls, stock |-> stock, turn |-> t]
        BY <4>1
      <4> QED BY <4>2, <4>3, Zenon
    <3> QED BY <3>1 DEF HistoricalPosition
  <2>2. past = [pawns |-> read.it.pawns, walls |-> walls, stock |-> stock, turn |-> read.it.turn]
    BY <1>1, <1>2, <1>7, Zenon
  <2> QED BY <2>1, <2>2
<1>9. counts[k] \in 1 .. HistoryLength
  <2>1. HistoryLength \in Nat /\ HistoryLength >= 1
    BY DEF TypeOK, ValidState, WindowStartsAtLastWall, HistoryLength
  <2>2. counts[k] \in Nat
    BY DEF TypeOK
  <2> QED BY <1>1, <2>1, <2>2
<1> QED BY <1>1, <1>3, <1>4, <1>5, <1>7, <1>8, <1>9 DEF past, read

\* A key as the record keeps it, and the key that is read of an entry.
EntryOf(k) == <<CompactKey(k), counts[k]>>
KeyOf(e) == PositionKey(HistoricalPosition(Position, PawnsFromWindowKey(e[1])))
Entries == {EntryOf(k) : k \in DOMAIN counts}

\* No two positions of the window have one compact key, and each is read as itself.
LEMMA EntriesTell ==
  ASSUME CellCount <= 256, TypeOK, ValidState
  PROVE  /\ \A k \in DOMAIN counts : /\ KeyOf(EntryOf(k)) = k /\ EntryRefusal(Position, EntryOf(k)) = "none"
                                     /\ counts[k] \in 1 .. HistoryLength /\ k.turn \in Players
         /\ IsFiniteSet(DOMAIN counts)
         /\ IsFiniteSet(Entries) /\ Cardinality(Entries) = Cardinality(DOMAIN counts)
<1>1. ASSUME NEW k \in DOMAIN counts
      PROVE  /\ KeyOf(EntryOf(k)) = k /\ EntryRefusal(Position, EntryOf(k)) = "none"
             /\ counts[k] \in 1 .. HistoryLength /\ k.turn \in Players /\ CompactKey(k) \in Nat /\ CompactKey(k) <= 131071
  <2> DEFINE read == PawnsFromWindowKey(CompactKey(k))
  <2>1. /\ Succeeds(read) /\ HistoricalPosition(Position, read) = PositionFromKey(k)
        /\ Normal(PositionFromKey(k)) /\ PositionKey(PositionFromKey(k)) = k /\ k.turn \in Players
        /\ counts[k] \in 1 .. HistoryLength /\ CompactKey(k) \in Nat /\ CompactKey(k) <= 131071
    BY EntryReads
  <2>2. EntryOf(k)[1] = CompactKey(k) /\ EntryOf(k)[2] = counts[k]
    BY DEF EntryOf
  <2>3. ~(counts[k] < 1)
    BY <2>1
  <2> HIDE DEF read
  <2>4. KeyOf(EntryOf(k)) = k
    BY <2>1, <2>2 DEF KeyOf, read
  <2>5. EntryRefusal(Position, EntryOf(k)) = "none"
    BY <2>1, <2>2, <2>3 DEF EntryRefusal, read
  <2> QED BY <2>1, <2>4, <2>5
<1>2. IsFiniteSet(DOMAIN counts)
  <2> DEFINE f == [k \in DOMAIN counts |-> CompactKey(k)]
  <2>1. \A j, k \in DOMAIN counts : CompactKey(j) = CompactKey(k) => j = k
    <3>1. \A k \in DOMAIN counts : k = PositionKey(HistoricalPosition(Position, PawnsFromWindowKey(CompactKey(k))))
      <4>1. \A k : KeyOf(EntryOf(k)) = PositionKey(HistoricalPosition(Position, PawnsFromWindowKey(CompactKey(k))))
        BY DEF KeyOf, EntryOf
      <4> QED BY <1>1, <4>1
    <3> QED BY <3>1
  <2>2. ASSUME NEW N \in Nat, \A k \in DOMAIN counts : CompactKey(k) <= N
        PROVE  IsFiniteSet(DOMAIN counts)
    <3>1. f \in [DOMAIN counts -> 0 .. N]
      BY <1>1, <2>2
    <3>2. f \in Injection(DOMAIN counts, 0 .. N)
      BY <2>1, <3>1 DEF Injection, IsInjective
    <3>3. IsFiniteSet(0 .. N)
      BY FS_Interval
    <3> HIDE DEF f
    <3> QED BY <3>2, <3>3, FS_Injection
  <2> QED BY <1>1, <2>2
<1>3. IsFiniteSet(Entries) /\ Cardinality(Entries) = Cardinality(DOMAIN counts)
  <2> DEFINE f == [k \in DOMAIN counts |-> EntryOf(k)]
  <2>1. f \in Bijection(DOMAIN counts, Entries)
    <3>1. f \in [DOMAIN counts -> Entries]
      BY DEF Entries
    <3>2. \A j, k \in DOMAIN counts : f[j] = f[k] => j = k
      BY <1>1
    <3>3. \A e \in Entries : \E k \in DOMAIN counts : f[k] = e
      BY DEF Entries
    <3> HIDE DEF f
    <3> QED BY <3>1, <3>2, <3>3 DEF Bijection, Injection, Surjection, IsInjective
  <2> HIDE DEF f
  <2> QED BY <1>2, <2>1, FS_Bijection DEF ExistsBijection
<1> QED BY <1>1, <1>2, <1>3

\* The counts of the entries sum up to the length of the window.
LEMMA EntriesSum ==
  ASSUME CellCount <= 256, TypeOK, ValidState
  PROVE  SumOf(Entries) = HistoryLength
<1> DEFINE first == ExpectedTurn(historyStartPly)
           second == Other(first)
           all == Occurring(first) \cup Occurring(second)
<1>1. HistoryLength \in Nat
  BY DEF TypeOK, ValidState, WindowStartsAtLastWall, HistoryLength
<1>2. /\ first \in Players /\ second \in Players /\ first # second /\ Players = {first, second}
  BY ConfigAssumption DEF ExpectedTurn, Other, Players
<1>3. /\ \A k \in DOMAIN counts : /\ KeyOf(EntryOf(k)) = k /\ counts[k] \in 1 .. HistoryLength /\ k.turn \in Players
      /\ IsFiniteSet(DOMAIN counts) /\ IsFiniteSet(Entries)
  BY EntriesTell
<1>4. TurnCount(first) = (HistoryLength + 1) \div 2 /\ TurnCount(second) = HistoryLength \div 2
  BY DEF ValidState, WindowIsConsistent
<1> HIDE DEF first, second
<1>5. \A u : u \in all <=> /\ u = <<u[1], u[2]>> /\ u[1] \in DOMAIN counts /\ u[2] \in 1 .. counts[u[1]]
  BY <1>2, <1>3 DEF Occurring
<1>6. Occurring(first) \cap Occurring(second) = {}
  BY <1>2 DEF Occurring
<1>7. IsFiniteSet(all)
  <2> DEFINE L == HistoryLength
             K == DOMAIN counts
  <2>1. IsFiniteSet(1 .. L)
    <3> HIDE DEF L
    <3>1. 1 \in Int /\ L \in Int
      BY <1>1 DEF L
    <3> QED BY <3>1, FS_Interval
  <2>2. IsFiniteSet(K \X (1 .. L))
    <3>1. IsFiniteSet(K)
      BY <1>3
    <3> HIDE DEF K, L
    <3> QED BY <2>1, <3>1, FS_Product
  <2>3. all \in SUBSET (K \X (1 .. L))
    <3> SUFFICES ASSUME NEW u \in all PROVE u \in K \X (1 .. L)
      OBVIOUS
    <3>1. u = <<u[1], u[2]>> /\ u[1] \in K /\ u[2] \in 1 .. counts[u[1]] /\ counts[u[1]] \in 1 .. L
      BY <1>3, <1>5
    <3>2. u[2] \in 1 .. L
      BY <1>1, <3>1
    <3> QED BY <3>1, <3>2
  <2> HIDE DEF all, K, L
  <2> QED BY <2>2, <2>3, FS_Subset
<1>8. Cardinality(all) = HistoryLength
  <2>1. IsFiniteSet(Occurring(first)) /\ IsFiniteSet(Occurring(second))
    <3>1. Occurring(first) \in SUBSET all /\ Occurring(second) \in SUBSET all
      OBVIOUS
    <3> HIDE DEF all
    <3> QED BY <1>7, <3>1, FS_Subset
  <2>2. Cardinality(all) = TurnCount(first) + TurnCount(second) - Cardinality({})
    BY <1>6, <2>1, FS_Union DEF TurnCount
  <2>3. Cardinality(all) = (HistoryLength + 1) \div 2 + HistoryLength \div 2
    <3> HIDE DEF all
    <3> QED BY <1>1, <1>4, <2>2, FS_EmptySet
  <2> HIDE DEF all
  <2> QED BY <1>1, <2>3
<1> HIDE DEF all
<1>9. Cardinality(Units(Entries)) = Cardinality(all)
  <2> DEFINE g == [u \in all |-> <<EntryOf(u[1]), u[2]>>]
  <2>0. \A k : EntryOf(k)[2] = counts[k]
    BY DEF EntryOf
  <2>1. \A v : v \in Units(Entries) <=> \E k \in DOMAIN counts : \E i \in 1 .. counts[k] : v = <<EntryOf(k), i>>
    BY <2>0 DEF Units, Entries
  <2>2. g \in [all -> Units(Entries)]
    <3> SUFFICES ASSUME NEW u \in all PROVE <<EntryOf(u[1]), u[2]>> \in Units(Entries)
      OBVIOUS
    <3> QED BY <1>5, <2>1
  <2>3. \A u, v \in all : g[u] = g[v] => u = v
    <3> SUFFICES ASSUME NEW u \in all, NEW v \in all, g[u] = g[v] PROVE u = v
      OBVIOUS
    <3>1. EntryOf(u[1]) = EntryOf(v[1]) /\ u[2] = v[2]
      OBVIOUS
    <3>2. u[1] = v[1]
      BY <1>3, <1>5, <3>1
    <3> QED BY <1>5, <3>1, <3>2
  <2>4. \A v \in Units(Entries) : \E u \in all : g[u] = v
    <3> SUFFICES ASSUME NEW v \in Units(Entries) PROVE \E u \in all : g[u] = v
      OBVIOUS
    <3>0. PICK k \in DOMAIN counts : \E i \in 1 .. counts[k] : v = <<EntryOf(k), i>>
      BY <2>1
    <3>1. PICK i \in 1 .. counts[k] : v = <<EntryOf(k), i>>
      BY <3>0
    <3>2. <<k, i>> \in all
      BY <1>5
    <3> QED BY <3>1, <3>2
  <2> HIDE DEF g
  <2>5. g \in Bijection(all, Units(Entries))
    BY <2>2, <2>3, <2>4 DEF Bijection, Injection, Surjection, IsInjective
  <2> QED BY <1>7, <2>5, FS_Bijection DEF ExistsBijection
<1>10. SumOf(Entries) = Cardinality(Units(Entries))
  <2> DEFINE S == Entries
             N == HistoryLength
  <2>1. CountedUpTo(S, N)
    <3> SUFFICES ASSUME NEW k \in DOMAIN counts PROVE EntryOf(k)[2] \in 0 .. HistoryLength
      BY DEF CountedUpTo, Entries
    <3>1. EntryOf(k)[2] = counts[k] /\ counts[k] \in 1 .. HistoryLength
      BY <1>3 DEF EntryOf
    <3> QED BY <1>1, <3>1
  <2>2. IsFiniteSet(S) /\ N \in Nat
    BY <1>1, <1>3
  <2> HIDE DEF S, N
  <2>3. SumOf(S) = Cardinality(Units(S))
    BY <2>1, <2>2, SumCounts
  <2> QED BY <2>3 DEF S
<1> QED BY <1>8, <1>9, <1>10

\* The state that a builder assembles of a valid record is the record itself.
LEMMA AssembledIsState ==
  ASSUME TypeOK, ValidState
  PROVE  Assembled(Position, ply, historyStartPly, counts) = GameState
<1> DEFINE key == PositionKey(Position)
           winner == {p \in Players : AtGoal(pawns, p)}
           first == IF winner = {} THEN "none" ELSE CHOOSE p \in winner : TRUE
<1>1. turn \notin winner /\ turn \in Players /\ Cardinality(winner) <= 1
  BY DEF ValidState, OutcomeIsEarned, TypeOK
<1>2. GoalWinner(pawns) = first
  <2>1. CASE AtGoal(pawns, "A")
    <3>1. winner = {"A"}
      BY <1>1, <2>1 DEF Players
    <3> HIDE DEF winner
    <3>2. first = "A"
      BY <3>1
    <3> QED BY <2>1, <3>2 DEF GoalWinner
  <2>2. CASE ~AtGoal(pawns, "A") /\ AtGoal(pawns, "B")
    <3>1. winner = {"B"}
      BY <1>1, <2>2 DEF Players
    <3> HIDE DEF winner
    <3>2. first = "B"
      BY <3>1
    <3> QED BY <2>2, <3>2 DEF GoalWinner
  <2>3. CASE ~AtGoal(pawns, "A") /\ ~AtGoal(pawns, "B")
    <3>1. winner = {}
      BY <2>3 DEF Players
    <3> QED BY <2>3, <3>1 DEF GoalWinner
  <2> QED BY <2>1, <2>2, <2>3
<1>3. outcome = IF ply = 0 THEN Ongoing ELSE Adjudicate(first, counts[key], ply)
  BY DEF ValidState, OutcomeIsEarned
<1>4. Position.pawns = pawns /\ Position.walls = walls /\ Position.stock = stock /\ Position.turn = turn
  BY DEF Position
<1> HIDE DEF first, key
<1>5. Assembled(Position, ply, historyStartPly, counts)
        = [pawns |-> pawns, walls |-> walls, stock |-> stock, turn |-> turn, ply |-> ply,
           historyStartPly |-> historyStartPly, counts |-> counts,
           outcome |-> IF ply = 0 THEN Ongoing ELSE Adjudicate(first, counts[key], ply)]
  BY <1>2, <1>4 DEF Assembled, key
<1> QED BY <1>3, <1>5 DEF GameState

\* What stateFromCarried makes of the window of a valid record.
LEMMA WindowRebuilds ==
  ASSUME CellCount <= 256, TypeOK, ValidState
  PROVE  StateFromWindow(Position, Carried(GameState)) = Return(GameState)
<1> DEFINE c == Carried(GameState)
           refused == {e \in Entries : EntryRefusal(Position, e) # "none"}
           tally == [key \in {KeyOf(e) : e \in Entries} |-> (CHOOSE e \in Entries : KeyOf(e) = key)[2]]
<1>1. c.ply = ply /\ c.historyStartPly = historyStartPly /\ c.window = Entries
  BY DEF Carried, GameState, Entries, EntryOf
<1>2. StateFromWindow(Position, c) =
        IF c.ply < 0 THEN Refuse("carried_ply_invalid")
        ELSE IF c.historyStartPly \notin 0 .. c.ply THEN Refuse("carried_history_start_ply_invalid")
        ELSE IF c.window = {} THEN Refuse("carried_window_empty")
        ELSE IF {e \in c.window : EntryRefusal(Position, e) # "none"} # {}
             THEN Refuse(EntryRefusal(Position, CHOOSE e \in {e \in c.window : EntryRefusal(Position, e) # "none"} : TRUE))
        ELSE IF Cardinality(DOMAIN [key \in {KeyOf(e) : e \in c.window} |-> (CHOOSE e \in c.window : KeyOf(e) = key)[2]])
                  # Cardinality(c.window)
             THEN Refuse("carried_window_duplicate_key")
        ELSE IF SumOf(c.window) # c.ply - c.historyStartPly + 1 THEN Refuse("carried_window_sum_mismatch")
        ELSE IF PositionKey(Position) \notin
                  DOMAIN [key \in {KeyOf(e) : e \in c.window} |-> (CHOOSE e \in c.window : KeyOf(e) = key)[2]]
             THEN Refuse("carried_window_missing_root")
        ELSE Validate(Assembled(Position, c.ply, c.historyStartPly,
                                [key \in {KeyOf(e) : e \in c.window} |-> (CHOOSE e \in c.window : KeyOf(e) = key)[2]]))
  <2> HIDE DEF c
  <2> QED BY DEF StateFromWindow, KeyOf, MapThenSumSet, MapThenFoldSet, SumOf, IsSumFold
<1> HIDE DEF c
<1>3. /\ \A k \in DOMAIN counts : KeyOf(EntryOf(k)) = k /\ EntryRefusal(Position, EntryOf(k)) = "none"
      /\ Cardinality(Entries) = Cardinality(DOMAIN counts) /\ SumOf(Entries) = HistoryLength
  BY EntriesTell, EntriesSum
<1>4. PositionKey(Position) \in DOMAIN counts
  BY DEF ValidState, WindowIsConsistent
<1>5. Entries # {} /\ refused = {} /\ {KeyOf(e) : e \in Entries} = DOMAIN counts
  BY <1>3, <1>4 DEF Entries
<1>6. tally = counts
  <2>1. ASSUME NEW k \in DOMAIN counts
        PROVE  (CHOOSE e \in Entries : KeyOf(e) = k)[2] = counts[k]
    <3>1. \A e \in Entries : KeyOf(e) = k <=> e = EntryOf(k)
      BY <1>3 DEF Entries
    <3>2. EntryOf(k) \in Entries
      BY DEF Entries
    <3>3. (CHOOSE e \in Entries : KeyOf(e) = k) = EntryOf(k)
      BY <3>1, <3>2
    <3>4. EntryOf(k)[2] = counts[k]
      BY DEF EntryOf
    <3> QED BY <3>3, <3>4
  <2>2. tally = [k \in DOMAIN counts |-> (CHOOSE e \in Entries : KeyOf(e) = k)[2]]
    BY <1>5
  <2>3. counts = [k \in DOMAIN counts |-> counts[k]]
    BY DEF TypeOK
  <2> HIDE DEF tally
  <2> QED BY <2>1, <2>2, <2>3
<1>7. ply \in Nat /\ historyStartPly \in 0 .. ply /\ HistoryLength = ply - historyStartPly + 1
  BY DEF TypeOK, ValidState, WindowStartsAtLastWall, HistoryLength
<1>8. Validate(GameState) = Return(GameState)
  BY RebuiltValid DEF Validate
<1>9. StateFromWindow(Position, c) = Validate(Assembled(Position, ply, historyStartPly, counts))
  <2>1. StateFromWindow(Position, c) =
        IF ply < 0 THEN Refuse("carried_ply_invalid")
        ELSE IF historyStartPly \notin 0 .. ply THEN Refuse("carried_history_start_ply_invalid")
        ELSE IF Entries = {} THEN Refuse("carried_window_empty")
        ELSE IF refused # {} THEN Refuse(EntryRefusal(Position, CHOOSE e \in refused : TRUE))
        ELSE IF Cardinality(DOMAIN tally) # Cardinality(Entries) THEN Refuse("carried_window_duplicate_key")
        ELSE IF SumOf(Entries) # ply - historyStartPly + 1 THEN Refuse("carried_window_sum_mismatch")
        ELSE IF PositionKey(Position) \notin DOMAIN tally THEN Refuse("carried_window_missing_root")
        ELSE Validate(Assembled(Position, ply, historyStartPly, tally))
    BY <1>1, <1>2
  <2> HIDE DEF refused, tally
  <2>2. ~(ply < 0)
    BY <1>7
  <2> QED BY <1>3, <1>4, <1>5, <1>6, <1>7, <2>1, <2>2
<1> QED BY <1>8, <1>9, AssembledIsState DEF c

\* A record that carries the history of its game is rebuilt as the very state that it was written
\* at, and the audit accepts it: same ply, same window and counts, same outcome.  A square must
\* fit the byte that the compact key of a window has for it.
THEOREM CarriedAlwaysRebuild ==
  ASSUME CellCount <= 256
  PROVE  Spec => [](VerifyCarriedRecord(EncodeState(GameState), LegalMask(GameState), Carried(GameState))
                      = Return(GameState))
<1>1. ASSUME Inductive, ValidState
      PROVE  VerifyCarriedRecord(EncodeState(GameState), LegalMask(GameState), Carried(GameState)) = Return(GameState)
  <2> DEFINE f == EncodeState(GameState)
             mask == LegalMask(GameState)
             c == Carried(GameState)
  <2>1. PositionFromFeatures(f) = Return(Position)
    BY <1>1, PlanesRead DEF ValidState
  <2>2. StateFromWindow(Position, c) = Return(GameState)
    BY <1>1, WindowRebuilds DEF Inductive
  <2> HIDE DEF f, mask, c
  <2>3. StateFromCarried(f, c) = Return(GameState)
    BY <2>1, <2>2 DEF StateFromCarried, AndThen, Succeeds, Return
  <2>4. Succeeds(Return(GameState)) /\ Return(GameState).it = GameState
    BY DEF Succeeds, Return
  <2>5. VerifyCarriedRecord(f, mask, c) = AuditRecordAgainst(f, mask, Return(GameState))
    BY <2>3 DEF VerifyCarriedRecord
  <2>6. EncodeState(Return(GameState).it) = f /\ LegalMask(Return(GameState).it) = mask
    BY <2>4 DEF f, mask
  <2>7. AuditRecordAgainst(f, mask, Return(GameState)) = Return(GameState)
    BY <2>4, <2>6 DEF AuditRecordAgainst
  <2> QED BY <2>5, <2>7 DEF f, mask, c
<1>2. Inductive /\ ValidState =>
        VerifyCarriedRecord(EncodeState(GameState), LegalMask(GameState), Carried(GameState)) = Return(GameState)
  BY <1>1
<1> QED BY <1>2, RecordsValidate, RecordsAlwaysValidate, PTL

(* ---- The history that is invented for a record without one ------------------------- *)

\* The earliest attempt that made a state is one of the attempts.
LEMMA EarliestIs ==
  ASSUME NEW attempts, \A a \in attempts : a.at \in Nat, Succeeds(EarliestState(attempts))
  PROVE  \E a \in attempts : EarliestState(attempts) = a.made
<1> DEFINE works == {a \in attempts : Succeeds(a.made)}
           times == {a.at : a \in works}
<1>1. ~Succeeds(Refuse("state_synthesis_failed"))
  BY DEF Succeeds, Refuse
<1>2. works # {} /\ EarliestState(attempts) = (CHOOSE a \in works : \A b \in works : a.at <= b.at).made
  BY <1>1 DEF EarliestState
<1>3. \E n \in times : \A m \in times : n <= m
  <2>1. times \in SUBSET Nat /\ times # {}
    BY <1>2
  <2> HIDE DEF times
  <2> QED BY <2>1, LeastNumber
<1>4. (CHOOSE a \in works : \A b \in works : a.at <= b.at) \in works
  BY <1>3
<1> QED BY <1>2, <1>4

\* A state that is invented for a position is one that a builder assembled at a ply before the cap,
\* each position of its window once, and that validateState accepted.
LEMMA InventedIs ==
  ASSUME TypeOK, IsFiniteSet(walls), Succeeds(SynthesizeState(Position))
  PROVE  \E n \in 0 .. PlyCap - 1 : \E start, K :
           LET s == Assembled(Position, n, start, [key \in K |-> 1])
           IN SynthesizeState(Position) = Return(s) /\ Rebuilt(s)!ValidState
<1>0. \A why : ~Succeeds(Refuse(why)) \/ why = "none"
  BY DEF Succeeds, Refuse
<1>1. PICK n \in PliesTried(Position) : \E start : SynthesizeState(Position) = StateAtPly(Position, n, start)
  <2> DEFINE pos == Position
             wallCount == Cardinality(pos.walls)
             spent == SpentIn(pos)
             windows == IF wallCount = 0 THEN {0} ELSE IF spent[RivalOf(pos)] > 0 THEN {1, 2} ELSE {2}
             from(c) == IF c[2] = 0 THEN 0 ELSE c[1] - (c[2] - 1)
             tried == {c \in PliesTried(pos) \X windows :
                         /\ ExpectedTurn(c[1]) = pos.turn
                         /\ \A p \in Players :
                              /\ Distance(Start[p], pos.pawns[p]) <= 2 * CompletedActions(c[1])[p]
                              /\ spent[p] <= CompletedActions(from(c))[p]
                         /\ from(c) >= wallCount}
             attempts == {[at |-> 3 * c[1] + c[2], made |-> StateAtPly(pos, c[1], from(c))] : c \in tried}
  <2>1. SynthesizeState(pos) =
          IF ~Normal(pos) THEN Refuse("engine_rejected_position")
          ELSE IF spent["A"] + spent["B"] # wallCount THEN Refuse("stock_wall_count_disagree")
          ELSE IF AtGoal(pos.pawns, "A") /\ AtGoal(pos.pawns, "B") THEN Refuse("both_pawns_on_goal_rows")
          ELSE IF AtGoal(pos.pawns, pos.turn) THEN Refuse("mover_on_own_goal_row")
          ELSE EarliestState(attempts)
    <3> HIDE DEF pos
    <3> QED BY DEF SynthesizeState
  <2>2. \A a \in attempts : \E m \in PliesTried(pos), w \in windows : a.at = 3 * m + w /\ \E start : a.made = StateAtPly(pos, m, start)
    OBVIOUS
  <2>3. \A w \in windows : w \in Nat
    OBVIOUS
  <2>4. \A m \in PliesTried(pos) : m \in Nat
    <3>1. Cardinality(walls) \in Nat
      BY FS_CardinalityType
    <3> QED BY <3>1, ConfigAssumption DEF PliesTried, Position
  <2> HIDE DEF attempts, windows, spent, wallCount
  <2>5. SynthesizeState(pos) = EarliestState(attempts)
    BY <1>0, <2>1
  <2>6. \A a \in attempts : a.at \in Nat
    BY <2>2, <2>3, <2>4
  <2>7. PICK a \in attempts : EarliestState(attempts) = a.made
    BY <2>5, <2>6, EarliestIs
  <2> QED BY <2>2, <2>5, <2>7
<1>2. PICK start : SynthesizeState(Position) = StateAtPly(Position, n, start)
  BY <1>1
<1>3. n \in 0 .. PlyCap - 1
  <2>1. Cardinality(walls) \in Nat
    BY FS_CardinalityType
  <2> QED BY <2>1, ConfigAssumption DEF PliesTried, Position
<1>4. \E K : StateAtPly(Position, n, start) = Validate(Assembled(Position, n, start, [key \in K |-> 1]))
  <2>1. \E window : \/ StateAtPly(Position, n, start) = Refuse("history_window_unfilled")
                    \/ StateAtPly(Position, n, start)
                         = Validate(Assembled(Position, n, start, [key \in {PositionKey(w) : w \in window} |-> 1]))
    BY DEF StateAtPly
  <2> QED BY <1>0, <1>2, <2>1
<1>5. PICK K : StateAtPly(Position, n, start) = Validate(Assembled(Position, n, start, [key \in K |-> 1]))
  BY <1>4
<1> DEFINE s == Assembled(Position, n, start, [key \in K |-> 1])
<1> HIDE DEF s
<1>6. Validate(s) = Return(s) /\ Rebuilt(s)!ValidState
  <2>1. Succeeds(Validate(s))
    BY <1>2, <1>5 DEF s
  <2> QED BY <1>0, <2>1 DEF Validate
<1>7. SynthesizeState(Position) = Return(s) /\ Rebuilt(s)!ValidState
  BY <1>2, <1>5, <1>6 DEF s
<1> QED BY <1>3, <1>7 DEF s

\* A state that a builder assembled of the position that stands, each position of its window once
\* and before the cap, is a state of that position and labelled as the true one, unless that is a draw.
LEMMA LabelsAgree ==
  ASSUME TypeOK, ValidState, NEW n \in 0 .. PlyCap - 1, NEW start, NEW K, NEW s,
         s = Assembled(Position, n, start, [key \in K |-> 1]), Rebuilt(s)!ValidState
  PROVE  /\ PositionOf(s) = Position /\ s.outcome.kind # "draw"
         /\ outcome.kind # "draw" => s.outcome = outcome
<1> DEFINE winner == GoalWinner(pawns)
           key == PositionKey(Position)
<1>1. /\ s.pawns = pawns /\ s.walls = walls /\ s.stock = stock /\ s.turn = turn /\ s.ply = n
      /\ s.counts = [k \in K |-> 1]
      /\ s.outcome = IF n = 0 THEN Ongoing ELSE Adjudicate(winner, [k \in K |-> 1][key], n)
  BY DEF Assembled, Position
<1>2. PositionOf(s) = Position /\ Rebuilt(s)!Position = Position
  BY <1>1 DEF PositionOf, Position, Rebuilt!Position
<1>3. key \in K /\ (n = 0 => key = PositionKey(InitialPosition))
  <2>1. Rebuilt(s)!WindowIsConsistent /\ Rebuilt(s)!OutcomeIsEarned
    BY DEF Rebuilt!ValidState
  <2>2. Rebuilt(s)!PositionKey(Rebuilt(s)!Position) \in DOMAIN s.counts
    BY <2>1 DEF Rebuilt!WindowIsConsistent
  <2>3. s.ply = 0 => Rebuilt(s)!PositionKey(Rebuilt(s)!Position) = Rebuilt(s)!PositionKey(Rebuilt(s)!InitialPosition)
    BY <2>1 DEF Rebuilt!OutcomeIsEarned
  <2>4. Rebuilt(s)!PositionKey(Rebuilt(s)!Position) = key
        /\ Rebuilt(s)!PositionKey(Rebuilt(s)!InitialPosition) = PositionKey(InitialPosition)
    BY <1>2, RebuiltBoard, RebuiltMoves
  <2> QED BY <1>1, <2>2, <2>3, <2>4
<1>4. s.outcome = IF n = 0 THEN Ongoing ELSE Adjudicate(winner, 1, n)
  BY <1>1, <1>3
<1>5. winner \in {"A", "B", "none"}
  BY DEF GoalWinner
<1>6. n # 0 => s.outcome = IF winner \in Players THEN Win(winner) ELSE Ongoing
  <2>1. ~(1 >= RepetitionThreshold) /\ ~(n >= PlyCap)
    BY ConfigAssumption
  <2> QED BY <1>4, <2>1 DEF Adjudicate
<1>7. outcome = IF ply = 0 THEN Ongoing ELSE Adjudicate(winner, counts[key], ply)
  <2>1. Assembled(Position, ply, historyStartPly, counts).outcome = outcome
    BY AssembledIsState DEF GameState
  <2>2. Assembled(Position, ply, historyStartPly, counts).outcome
          = IF ply = 0 THEN Ongoing ELSE Adjudicate(winner, counts[key], ply)
    BY DEF Assembled, Position
  <2> QED BY <2>1, <2>2
<1>8. Position \in Positions /\ InitialPosition \in Positions
  <2>1. Position \in Positions
    BY DEF Positions, Position, TypeOK
  <2>2. InitialPosition \in Positions
    BY InitialIsNormal, ConfigAssumption DEF Positions, InitialPosition, Normal, InitialStock, Players
  <2> QED BY <2>1, <2>2
<1>9. n = 0 \/ ply = 0 => winner = "none"
  <2>1. ply = 0 => key = PositionKey(InitialPosition)
    BY DEF ValidState, OutcomeIsEarned
  <2>2. n = 0 \/ ply = 0 => pawns = Start
    <3>1. n = 0 \/ ply = 0 => Position = InitialPosition
      BY <1>3, <1>8, <2>1, KeyInjective
    <3> QED BY <3>1 DEF Position, InitialPosition
  <2>3. \A p \in Players : Start[p][1] # GoalRow[p]
    BY ConfigAssumption DEF Start, GoalRow, Players
  <2> QED BY <2>2, <2>3 DEF GoalWinner, AtGoal, Players
<1>10. "none" \notin Players
  BY DEF Players
<1>11. s.outcome = IF winner \in Players THEN Win(winner) ELSE Ongoing
  BY <1>4, <1>6, <1>9, <1>10
<1>12. outcome.kind # "draw" => outcome = IF winner \in Players THEN Win(winner) ELSE Ongoing
  BY <1>7, <1>9, <1>10 DEF Adjudicate, Draw
<1>13. s.outcome.kind # "draw"
  BY <1>11 DEF Win, Ongoing
<1> QED BY <1>2, <1>11, <1>12, <1>13

\* Whatever history is invented for a record that carries none, what is rebuilt is a state of its
\* own position, one that the engine accepts, labelled as the true state is unless that was drawn,
\* and never labelled a draw.
THEOREM InventionNeverRelabels ==
  Spec => [](LET built == StateFromFeatures(EncodeState(GameState))
             IN Succeeds(built) =>
                  /\ PositionOf(built.it) = Position /\ Rebuilt(built.it)!ValidState
                  /\ built.it.outcome.kind # "draw"
                  /\ outcome.kind # "draw" => built.it.outcome = outcome)
<1> DEFINE Kept == LET built == StateFromFeatures(EncodeState(GameState))
                   IN Succeeds(built) =>
                        /\ PositionOf(built.it) = Position /\ Rebuilt(built.it)!ValidState
                        /\ built.it.outcome.kind # "draw"
                        /\ outcome.kind # "draw" => built.it.outcome = outcome
<1>1. ASSUME Inductive, ValidState
      PROVE  Kept
  <2> DEFINE built == StateFromFeatures(EncodeState(GameState))
  <2>1. TypeOK /\ IsFiniteSet(walls) /\ PositionFromFeatures(EncodeState(GameState)) = Return(Position)
    BY <1>1, PlanesRead DEF Inductive, ValidState
  <2>2. built = SynthesizeState(Position)
    BY <2>1 DEF StateFromFeatures, AndThen, Succeeds, Return
  <2> SUFFICES ASSUME Succeeds(built)
               PROVE  /\ PositionOf(built.it) = Position /\ Rebuilt(built.it)!ValidState
                      /\ built.it.outcome.kind # "draw"
                      /\ outcome.kind # "draw" => built.it.outcome = outcome
    OBVIOUS
  <2> HIDE DEF built
  <2>7. PICK n \in 0 .. PlyCap - 1 : \E start, K :
          LET s == Assembled(Position, n, start, [key \in K |-> 1])
          IN SynthesizeState(Position) = Return(s) /\ Rebuilt(s)!ValidState
    BY <2>1, <2>2, InventedIs
  <2>3. PICK start, K :
          LET s == Assembled(Position, n, start, [key \in K |-> 1])
          IN SynthesizeState(Position) = Return(s) /\ Rebuilt(s)!ValidState
    BY <2>7
  <2> DEFINE s == Assembled(Position, n, start, [key \in K |-> 1])
  <2>4. SynthesizeState(Position) = Return(s) /\ Rebuilt(s)!ValidState
    BY <2>3
  <2> HIDE DEF s
  <2>5. built.it = s
    BY <2>2, <2>4 DEF Return
  <2>6. /\ PositionOf(s) = Position /\ s.outcome.kind # "draw"
        /\ outcome.kind # "draw" => s.outcome = outcome
    BY <1>1, <2>1, <2>4, LabelsAgree DEF s
  <2> QED BY <2>4, <2>5, <2>6
<1>2. Inductive /\ ValidState => Kept
  BY <1>1
<1> QED BY <1>2, RecordsValidate, RecordsAlwaysValidate, PTL

\* What a training record says is read back, on every board whose squares fit a byte: the planes give
\* the position and the carried history the very state, and an invented history changes no label.
THEOREM RecordsAlwaysInvert ==
  ASSUME CellCount <= 256
  PROVE  Spec => []RecordsInvert
<1> DEFINE f == EncodeState(GameState)
           built == StateFromFeatures(f)
           Read == PositionFromFeatures(f) = Return(Position)
           Carries == VerifyCarriedRecord(f, LegalMask(GameState), Carried(GameState)) = Return(GameState)
           Kept == Succeeds(built) => /\ PositionOf(built.it) = Position /\ Rebuilt(built.it)!ValidState
                                      /\ built.it.outcome.kind # "draw"
                                      /\ outcome.kind # "draw" => built.it.outcome = outcome
<1>1. LinesInvert
  <2> SUFFICES ASSUME NEW n \in 2 .. 9, NEW anchors \in AnchorSets(n)
               PROVE  WallAnchorsFromPlaneLine(PlaneLine(n, anchors)) = Return(anchors)
    BY DEF LinesInvert
  <2>1. n \in Nat /\ n >= 2
    OBVIOUS
  <2> QED BY <2>1, LinesAlwaysInvert
<1>2. Spec => []Read
  BY PlanesAlwaysRead
<1>3. Spec => []Carries
  BY CarriedAlwaysRebuild
<1>4. Spec => []Kept
  BY InventionNeverRelabels
<1>5. Read /\ Carries /\ Kept => RecordsInvert
  <2> SUFFICES ASSUME Read, Carries, Kept PROVE RecordsInvert
    OBVIOUS
  <2>1. Succeeds(built) => /\ PositionOf(built.it) = Position
                           /\ built.it.outcome.kind # "draw"
                           /\ outcome.kind # "draw" => built.it.outcome = outcome
    <3> HIDE DEF built
    <3> QED OBVIOUS
  <2>2. RecordsInvert <=>
          /\ ply = 0 => LinesInvert
          /\ Read
          /\ Carries
          /\ Succeeds(built) => /\ PositionOf(built.it) = Position
                                /\ built.it.outcome.kind # "draw"
                                /\ outcome.kind # "draw" => built.it.outcome = outcome
    BY DEF RecordsInvert
  <2> HIDE DEF Read, Carries, built
  <2> QED BY <1>1, <2>1, <2>2
<1> HIDE DEF Read, Carries, Kept
<1> QED BY <1>2, <1>3, <1>4, <1>5, PTL
=============================================================================
