--------------------------- MODULE FeatureInversion ---------------------------
(***************************************************************************)
(* What a self-play record keeps of a game and what can be rebuilt from    *)
(* it: the planes js/normal-duel-nn-encoding.mjs writes, the position that *)
(* scripts/feature-inversion.mjs reads back out of them, the history it    *)
(* invents for a record that carries none, and the one a record carries.   *)
(* The states the records are written at are those of a game under the     *)
(* rules; a state that was rebuilt is judged by the engine's own           *)
(* validateState, here the ValidState of an instance of the rules over it. *)
(* Plane values are integers, in units of 1/One.                           *)
(***************************************************************************)
EXTENDS NormalDuelRules, SequencesExt

CellCount == Rows * Cols
One == 2 * (Rows - 1) * (CellCount - 1) * (IF StockA = 0 THEN 1 ELSE StockA)
                                        * (IF StockB = 0 THEN 1 ELSE StockB)

GameState == [pawns |-> pawns, walls |-> walls, stock |-> stock, turn |-> turn, ply |-> ply,
              historyStartPly |-> historyStartPly, counts |-> counts, outcome |-> outcome]

Rebuilt(s) == INSTANCE NormalDuelRules WITH
  pawns <- s.pawns, walls <- s.walls, stock <- s.stock, turn <- s.turn, ply <- s.ply,
  historyStartPly <- s.historyStartPly, counts <- s.counts, outcome <- s.outcome

PositionOf(s) == [pawns |-> s.pawns, walls |-> s.walls, stock |-> s.stock, turn |-> s.turn]

(* ---- The encoder -------------------------------------------------------- *)

\* A function, tabulated: f itself, its values computed once.
Table(f) == CHOOSE g \in {f} : g = f

Everywhere(value) == Table([cell \in Cells |-> value])
OneHot(square) == Table([cell \in Cells |-> IF cell = square THEN One ELSE 0])

WallPlane(o, ws) ==
  Table([cell \in Cells |->
     LET next == IF o = "H" THEN <<cell[1] + 1, cell[2]>> ELSE <<cell[1], cell[2] + 1>>
     IN IF next \in Cells /\ EdgeBlocked(cell, next, ws) THEN One ELSE 0])

\* The distance of every cell to the goal row, -1 where walls seal it off: a search
\* started from the whole row, a round at a time.
GoalDistanceField(ws, goalRow) ==
  FoldLeft(LAMBDA field, n :
             Table([cell \in Cells |->
                IF field[cell] = -1 /\ \E near \in OpenNeighbours(cell, ws) : field[near] = n - 1
                THEN n ELSE field[cell]]),
           Table([cell \in Cells |-> IF cell[1] = goalRow THEN 0 ELSE -1]),
           [n \in 1 .. CellCount - 1 |-> n])

\* A side that started with no walls encodes as 0 whatever it holds.
StockScale(s, p) ==
  IF InitialStock[p] > 0 THEN (s.stock[p] * One) \div InitialStock[p] ELSE 0

GoalProximity(p) ==
  Table([cell \in Cells |-> ((Rows - 1 - Abs(cell[1] - GoalRow[p])) * One) \div (Rows - 1)])

PathPlane(s, p) ==
  LET distances == GoalDistanceField(s.walls, GoalRow[p])
  IN Table([cell \in Cells |-> IF distances[cell] < 0 THEN One
                               ELSE (distances[cell] * One) \div (CellCount - 1)])

EncodeState(s) ==
  LET mover == s.turn
      rival == Other(s.turn)
  IN [mover_pawn |-> OneHot(s.pawns[mover]), opponent_pawn |-> OneHot(s.pawns[rival]),
      wall_horizontal |-> WallPlane("H", s.walls), wall_vertical |-> WallPlane("V", s.walls),
      mover_stock |-> Everywhere(StockScale(s, mover)),
      opponent_stock |-> Everywhere(StockScale(s, rival)),
      goal_proximity |-> GoalProximity(mover),
      side_to_move |-> Everywhere(IF mover = "A" THEN One ELSE 0),
      mover_path_distance |-> PathPlane(s, mover),
      opponent_path_distance |-> PathPlane(s, rival)]

\* The codes set in the mask: none in a state that is over.
LegalMask(s) ==
  IF s.outcome.kind = "ongoing" THEN LegalPositionActionCodes(PositionOf(s)) ELSE {}

(* ---- The inversion ------------------------------------------------------ *)

Refuse(why) == [reason |-> why]
Return(it) == [reason |-> "none", it |-> it]
Succeeds(result) == result.reason = "none"
AndThen(result, Then(_)) == IF Succeeds(result) THEN Then(result.it) ELSE result

Constant(plane) == \A cell \in Cells : plane[cell] = plane[<<0, 0>>]
Hot(plane) == {cell \in Cells : plane[cell] # 0}

\* A line of a wall plane is a function of 0 .. n-1.  The maximal runs of set cells,
\* as <<first, one past the last>>.
Runs(bits) ==
  LET n == Cardinality(DOMAIN bits)
  IN {run \in (0 .. n-1) \X (1 .. n) :
        /\ run[1] < run[2]
        /\ \A i \in run[1] .. run[2] - 1 : bits[i] = One
        /\ run[1] = 0 \/ bits[run[1] - 1] # One
        /\ run[2] = n \/ bits[run[2]] # One}

\* The cells with an even number, whatever the run begins at.
AnchoredEvenly(bits) ==
  {i \in DOMAIN bits : \E run \in Runs(bits) : i \in run[1] .. run[2] - 1 /\ i % 2 = 0}

Anchored(bits) ==
  {i \in DOMAIN bits : \E run \in Runs(bits) : i \in run[1] .. run[2] - 1 /\ (i - run[1]) % 2 = 0}

LineRefusal(bits) ==
  LET bad == {i \in DOMAIN bits : bits[i] \notin {0, One}}
      odd == {run \in Runs(bits) : (run[2] - run[1]) % 2 = 1}
  IN IF \E run \in odd : \A i \in bad : run[2] < i THEN "odd_wall_run"
     ELSE IF bad # {} THEN "wall_plane_not_binary" ELSE "none"

WallAnchorsFromPlaneLine(bits) ==
  IF LineRefusal(bits) = "none" THEN Return(Anchored(bits)) ELSE Refuse(LineRefusal(bits))

Line(f, o, k) ==
  IF o = "H" THEN [c \in 0 .. Cols-1 |-> f.wall_horizontal[<<k, c>>]]
             ELSE [r \in 0 .. Rows-1 |-> f.wall_vertical[<<r, k>>]]

\* The lines in the order they are read: rows of the one plane, columns of the other.
LineOrder == [i \in 1 .. Rows + Cols |->
                IF i <= Rows THEN <<"H", i - 1>> ELSE <<"V", i - Rows - 1>>]

WallAt(line, i) == IF line[1] = "H" THEN <<"H", line[2], i>> ELSE <<"V", i, line[2]>>

ReadLine(f, line) ==
  AndThen(WallAnchorsFromPlaneLine(Line(f, line[1], line[2])), LAMBDA anchors :
     IF anchors # {} /\ line = <<"H", Rows-1>> THEN Refuse("wall_beyond_last_anchor_row")
     ELSE IF anchors # {} /\ line = <<"V", Cols-1>> THEN Refuse("wall_beyond_last_anchor_column")
     ELSE Return({WallAt(line, i) : i \in anchors}))

ReadWalls(f) ==
  FoldLeft(LAMBDA sofar, line :
             AndThen(sofar, LAMBDA walls0 :
               AndThen(ReadLine(f, line), LAMBDA more : Return(walls0 \cup more))),
           Return({}), LineOrder)

\* A cell that is neither 0 nor 1, met before a second hot one.
OneHotSquare(plane) ==
  LET before(cell) == Cardinality({hot \in Hot(plane) : Square(hot) < Square(cell)})
  IN IF \E cell \in Hot(plane) : plane[cell] # One /\ before(cell) <= 1
     THEN Refuse("pawn_plane_not_binary")
     ELSE IF Cardinality(Hot(plane)) > 1 THEN Refuse("pawn_plane_multi_hot")
     ELSE IF Hot(plane) = {} THEN Refuse("pawn_plane_empty")
     ELSE Return(CHOOSE cell \in Cells : cell \in Hot(plane))

\* The rounding the code tolerates is float32 slack, which these integers do not have.
StockOf(plane, p) ==
  LET value == plane[<<0, 0>>]
      scaled == value * InitialStock[p]
  IN IF ~Constant(plane) THEN Refuse("stock_plane_not_constant")
     ELSE IF InitialStock[p] = 0
          THEN IF value # 0 THEN Refuse("stock_plane_not_zero") ELSE Return(0)
     ELSE IF scaled % One # 0 THEN Refuse("stock_not_integral")
     ELSE IF scaled \div One \notin 0 .. InitialStock[p] THEN Refuse("stock_out_of_range")
     ELSE Return(scaled \div One)

FirstRefusal(results) ==
  FoldLeft(LAMBDA sofar, r : IF sofar = "none" THEN r.reason ELSE sofar, "none", results)

\* The five things read of the planes, from the mover's side; then the checks across them.
PositionOfParts(mover, parts) ==
  [pawns |-> [p \in Players |-> IF p = mover THEN parts[1].it ELSE parts[2].it],
   walls |-> parts[5].it,
   stock |-> [p \in Players |-> IF p = mover THEN parts[3].it ELSE parts[4].it],
   turn |-> mover]

CrossChecked(f, position) ==
  IF f.goal_proximity # GoalProximity(position.turn) THEN Refuse("goal_proximity_disagrees_with_turn")
  ELSE IF StockA + StockB - position.stock["A"] - position.stock["B"] # Cardinality(position.walls)
       THEN Refuse("stock_wall_count_disagree")
  ELSE IF ~Normal(position) THEN Refuse("engine_rejected_position")
  ELSE Return(position)

PositionFromFeatures(f) ==
  LET flag == f.side_to_move[<<0, 0>>]
      mover == IF flag = One THEN "A" ELSE "B"
      parts == <<OneHotSquare(f.mover_pawn), OneHotSquare(f.opponent_pawn),
                 StockOf(f.mover_stock, mover), StockOf(f.opponent_stock, Other(mover)), ReadWalls(f)>>
      refusal == FirstRefusal(parts)
  IN IF ~Constant(f.side_to_move) THEN Refuse("side_to_move_not_constant")
     ELSE IF flag \notin {0, One} THEN Refuse("side_to_move_not_binary")
     ELSE IF refusal # "none" THEN Refuse(refusal)
     ELSE CrossChecked(f, PositionOfParts(mover, parts))

(* ---- A history for a record that carries none --------------------------- *)

RivalOf(pos) == Other(pos.turn)
GoalFree(pos) == \A p \in Players : ~AtGoal(pos.pawns, p)
GoalWinner(ps) == IF AtGoal(ps, "A") THEN "A" ELSE IF AtGoal(ps, "B") THEN "B" ELSE "none"

\* How early a square is tried: nearest first, rows before columns.
Nearness(square, from) == Distance(square, from) * CellCount + Square(square)

\* Windows of two plies, whose other entry is one rival move away.
WalledWindowCandidates(pos) ==
  LET rival == RivalOf(pos)
      twin(square) == [pos EXCEPT !.pawns[rival] = square, !.turn = rival]
      near == {square \in Cells : Distance(square, pos.pawns[rival]) <= 2}
                \ {pos.pawns[pos.turn]}
  IN {[position |-> twin(square), rank |-> Nearness(square, pos.pawns[rival])] :
        square \in {sq \in near : GoalFree(twin(sq))}}

\* Windows that reach back to the start of the game, which must be in them.
WallFreeWindowCandidates(pos, bounds) ==
  LET near(p) == {square \in Cells : /\ Distance(square, pos.pawns[p]) <= bounds[p]
                                     /\ square[1] # GoalRow[p]}
      rank(a, b, t) == 1 + (IF t = "A" THEN 0 ELSE 1)
                         + 2 * (Nearness(a, pos.pawns["A"]) * CellCount * CellCount
                                + Nearness(b, pos.pawns["B"]))
      pair(a, b) == [p \in Players |-> IF p = "A" THEN a ELSE b]
  IN {[position |-> InitialPosition, rank |-> 0]} \cup
     {[position |-> [pos EXCEPT !.pawns = pair(c[1], c[2]), !.turn = c[3]],
       rank |-> rank(c[1], c[2], c[3])] :
        c \in {x \in near("A") \X near("B") \X Players : x[1] # x[2]}}

\* The window the candidates fill in their order, each turn as often as the plies ask;
\* a candidate the engine does not take for a position is passed over.
FilledWindow(pos, candidates, length, need) ==
  LET entries[n \in Nat] ==
        IF n <= 1 THEN {pos}
        ELSE LET kept == entries[n - 1]
                 fits == {c \in candidates :
                            /\ c.position \notin kept
                            /\ Cardinality({k \in kept : k.turn = c.position.turn})
                                 < need[c.position.turn]
                            /\ Normal(c.position)}
             IN IF fits = {} THEN kept
                ELSE kept \cup {(CHOOSE c \in fits :
                                   \A d \in fits : c.rank <= d.rank).position}
  IN entries[length]

WindowStartingWithRival(ply0, start) ==
  LET length == ply0 - start + 1
      first == ExpectedTurn(start)
  IN [p \in Players |-> IF p # first THEN (length + 1) \div 2 ELSE length \div 2]

\* The turns of a window alternate from the one its first ply has.
WindowStarting(ply0, start) ==
  LET length == ply0 - start + 1
      first == ExpectedTurn(start)
  IN [p \in Players |-> IF p = first THEN (length + 1) \div 2 ELSE length \div 2]

\* A state as the two builders assemble it: its outcome derived, never asserted.
Assembled(pos, ply0, start, tally) ==
  [pawns |-> pos.pawns, walls |-> pos.walls, stock |-> pos.stock, turn |-> pos.turn,
   ply |-> ply0, historyStartPly |-> start, counts |-> tally,
   outcome |-> IF ply0 = 0 THEN Ongoing
               ELSE Adjudicate(GoalWinner(pos.pawns), tally[PositionKey(pos)], ply0)]

\* What validateState returns for a state some builder assembled.
Validate(s) == IF Rebuilt(s)!ValidState THEN Return(s) ELSE Refuse("invalid_state")

StateAtPly(pos, ply0, start) ==
  LET travel == [p \in Players |-> 2 * (CompletedActions(ply0)[p] - CompletedActions(start)[p])]
      candidates == IF start = 0 THEN WallFreeWindowCandidates(pos, travel)
                                 ELSE WalledWindowCandidates(pos)
      length == ply0 - start + 1
      window == FilledWindow(pos, candidates, length, WindowStarting(ply0, start))
  IN IF Cardinality(window) # length THEN Refuse("history_window_unfilled")
     ELSE Validate(Assembled(pos, ply0, start, [key \in {PositionKey(w) : w \in window} |-> 1]))

SpentIn(pos) == [p \in Players |-> InitialStock[p] - pos.stock[p]]

\* The scan stops one short of the cap: at it, a position would be labelled a draw on
\* no evidence.
PliesTried(pos) == Cardinality(pos.walls) .. PlyCap - 1

\* The earliest attempt that made a state; of two at one ply, that of the shorter window.
EarliestState(attempts) ==
  LET works == {a \in attempts : Succeeds(a.made)}
  IN IF works = {} THEN Refuse("state_synthesis_failed")
     ELSE (CHOOSE a \in works : \A b \in works : a.at <= b.at).made

SynthesizeState(pos) ==
  LET wallCount == Cardinality(pos.walls)
      spent == SpentIn(pos)
      windows == IF wallCount = 0 THEN {0} ELSE IF spent[RivalOf(pos)] > 0 THEN {1, 2} ELSE {2}
      start(c) == IF c[2] = 0 THEN 0 ELSE c[1] - (c[2] - 1)
      tried == {c \in PliesTried(pos) \X windows :
                  /\ ExpectedTurn(c[1]) = pos.turn
                  /\ \A p \in Players :
                       /\ Distance(Start[p], pos.pawns[p]) <= 2 * CompletedActions(c[1])[p]
                       /\ spent[p] <= CompletedActions(start(c))[p]
                  /\ start(c) >= wallCount}
  IN IF ~Normal(pos) THEN Refuse("engine_rejected_position")
     ELSE IF spent["A"] + spent["B"] # wallCount THEN Refuse("stock_wall_count_disagree")
     ELSE IF AtGoal(pos.pawns, "A") /\ AtGoal(pos.pawns, "B") THEN Refuse("both_pawns_on_goal_rows")
     ELSE IF AtGoal(pos.pawns, pos.turn) THEN Refuse("mover_on_own_goal_row")
     ELSE EarliestState({[at |-> 3 * c[1] + c[2], made |-> StateAtPly(pos, c[1], start(c))] : c \in tried})

StateFromFeatures(f) == AndThen(PositionFromFeatures(f), SynthesizeState)

(* ---- The history a record carries --------------------------------------- *)

\* squareA | squareB << 8 | turnBit << 16.
CompactKey(key) == key.squareA + 256 * key.squareB + (IF key.turn = "B" THEN 65536 ELSE 0)

Carried(s) == [ply |-> s.ply, historyStartPly |-> s.historyStartPly,
               window |-> {<<CompactKey(key), s.counts[key]>> : key \in DOMAIN s.counts}]

PawnsFromWindowKey(key) ==
  LET squareA == key % 256
      squareB == (key \div 256) % 256
  IN IF key < 0 \/ key > 131071 THEN Refuse("window_key_out_of_range")
     ELSE IF squareA >= CellCount \/ squareB >= CellCount
          THEN Refuse("window_key_square_out_of_board")
     ELSE Return([pawns |-> [p \in Players |-> CellOf(IF p = "A" THEN squareA ELSE squareB)],
                  turn |-> IF key \div 65536 = 1 THEN "B" ELSE "A"])

\* Same walls and same stock is what a window means.
HistoricalPosition(pos, read) == [pos EXCEPT !.pawns = read.it.pawns, !.turn = read.it.turn]

EntryRefusal(pos, entry) ==
  LET read == PawnsFromWindowKey(entry[1])
  IN IF entry[2] < 1 THEN "carried_window_count_invalid"
     ELSE IF ~Succeeds(read) THEN read.reason
     ELSE IF ~Normal(HistoricalPosition(pos, read)) THEN "carried_window_entry_not_a_position"
     ELSE "none"

StateFromWindow(pos, carried) ==
  LET window == carried.window
      refused == {e \in window : EntryRefusal(pos, e) # "none"}
      keyOf(e) == PositionKey(HistoricalPosition(pos, PawnsFromWindowKey(e[1])))
      tally == [key \in {keyOf(e) : e \in window} |-> (CHOOSE e \in window : keyOf(e) = key)[2]]
  IN IF carried.ply < 0 THEN Refuse("carried_ply_invalid")
     ELSE IF carried.historyStartPly \notin 0 .. carried.ply
          THEN Refuse("carried_history_start_ply_invalid")
     ELSE IF window = {} THEN Refuse("carried_window_empty")
     ELSE IF refused # {} THEN Refuse(EntryRefusal(pos, CHOOSE e \in refused : TRUE))
     ELSE IF Cardinality(DOMAIN tally) # Cardinality(window) THEN Refuse("carried_window_duplicate_key")
     ELSE IF MapThenSumSet(LAMBDA e : e[2], window) # carried.ply - carried.historyStartPly + 1
          THEN Refuse("carried_window_sum_mismatch")
     ELSE IF PositionKey(pos) \notin DOMAIN tally THEN Refuse("carried_window_missing_root")
     ELSE Validate(Assembled(pos, carried.ply, carried.historyStartPly, tally))

StateFromCarried(f, carried) ==
  AndThen(PositionFromFeatures(f), LAMBDA pos : StateFromWindow(pos, carried))

(* ---- The audit ---------------------------------------------------------- *)

AuditFeaturesAlone(f, mask, built) ==
  IF Succeeds(built) /\ EncodeState(built.it) # f THEN Refuse("feature_mismatch") ELSE built

AuditRecordAgainst(f, mask, built) ==
  IF ~Succeeds(built) THEN built
  ELSE IF EncodeState(built.it) # f THEN Refuse("feature_mismatch")
  ELSE IF LegalMask(built.it) # mask THEN Refuse("legal_mask_mismatch")
  ELSE built

VerifyRecord(f, mask) == AuditRecordAgainst(f, mask, StateFromFeatures(f))
VerifyCarriedRecord(f, mask, carried) == AuditRecordAgainst(f, mask, StateFromCarried(f, carried))

(* ---- Records that were damaged ------------------------------------------ *)

\* The transition, on a state that is a value.
Applied(s, a) ==
  LET pos == [pawns |-> IF a.kind = "pawn" THEN [s.pawns EXCEPT ![s.turn] = a.to] ELSE s.pawns,
              walls |-> IF a.kind = "wall" THEN s.walls \cup {a.wall} ELSE s.walls,
              stock |-> IF a.kind = "wall" THEN [s.stock EXCEPT ![s.turn] = @ - 1] ELSE s.stock,
              turn |-> Other(s.turn)]
      tally == CountOnce(IF a.kind = "wall" THEN NoCounts ELSE s.counts, PositionKey(pos))
      goal == IF AtGoal(pos.pawns, s.turn) THEN s.turn ELSE "none"
  IN [pawns |-> pos.pawns, walls |-> pos.walls, stock |-> pos.stock, turn |-> pos.turn,
      ply |-> s.ply + 1,
      historyStartPly |-> IF a.kind = "wall" THEN s.ply + 1 ELSE s.historyStartPly,
      counts |-> tally,
      outcome |-> Adjudicate(goal, tally[PositionKey(pos)], s.ply + 1)]

LegalActions(s) ==
  IF s.outcome.kind # "ongoing" THEN {}
  ELSE {a \in Actions : IsTrustedActionLegal(PositionOf(s), a)}

OtherThan(v) == One - v

\* One plane overwritten, or one of its cells.
Filled(f, plane, value) == [f EXCEPT ![plane] = Everywhere(value)]
Struck(f, plane, cell, value) == [f EXCEPT ![plane] = Table([@ EXCEPT ![cell] = value])]

\* The planes of a state with one thing wrong, and what the inversion must say of it.
PlaneDamage(s) ==
  LET f == EncodeState(s)
      mover == s.turn
      Case(g, why) == [features |-> g, reasons |-> why]
      away == CHOOSE cell \in Cells : cell \notin {s.pawns["A"], s.pawns["B"]}
      stockOf(k) == (k * One) \div InitialStock[mover]
      clear(plane) == {cell \in Cells : f[plane][cell] = 0}
  IN {Case(Struck(f, "side_to_move", <<1, 1>>, OtherThan(f.side_to_move[<<1, 1>>])),
           {"side_to_move_not_constant"}),
      Case(Filled(f, "side_to_move", One \div 2), {"side_to_move_not_binary"}),
      Case(Filled(f, "mover_pawn", 0), {"pawn_plane_empty"}),
      Case(Struck(f, "mover_pawn", away, One), {"pawn_plane_multi_hot"}),
      Case(Struck(f, "opponent_pawn", away, One \div 2), {"pawn_plane_not_binary"}),
      Case(Struck(f, "wall_horizontal", <<0, 0>>, One \div 2), {"wall_plane_not_binary"}),
      Case(Struck(Struck(f, "wall_horizontal", <<Rows-1, 0>>, One), "wall_horizontal", <<Rows-1, 1>>, One),
           {"wall_beyond_last_anchor_row"}),
      Case(Struck(Struck(f, "wall_vertical", <<0, Cols-1>>, One), "wall_vertical", <<1, Cols-1>>, One),
           {"wall_beyond_last_anchor_column"}),
      Case(Filled(f, "side_to_move", OtherThan(f.side_to_move[<<0, 0>>])),
           {"goal_proximity_disagrees_with_turn", "stock_not_integral", "stock_plane_not_zero"}),
      Case([f EXCEPT !.opponent_pawn = f.mover_pawn], {"engine_rejected_position"})}
     \cup {Case(Struck(f, plane, cell, One), {"odd_wall_run"}) :
             plane \in {"wall_horizontal", "wall_vertical"},
             cell \in {CHOOSE c \in clear("wall_horizontal") \cap clear("wall_vertical") : TRUE}}
     \cup (IF InitialStock[mover] = 0 THEN {} ELSE
           {Case(Struck(f, "mover_stock", <<1, 1>>, f.mover_stock[<<1, 1>>] + One),
                 {"stock_plane_not_constant"}),
            Case(Filled(f, "mover_stock", stockOf(s.stock[mover]) + One \div (2 * InitialStock[mover])),
                 {"stock_not_integral"}),
            Case(Filled(f, "mover_stock", stockOf(InitialStock[mover] + 1)), {"stock_out_of_range"})}
           \cup {Case(Filled(f, "mover_stock", stockOf(k)), {"stock_wall_count_disagree"}) :
                   k \in (0 .. InitialStock[mover]) \ {s.stock[mover]}})

\* A sound record, and damage that leaves the position readable and only the audit can see.
RecordDamage(s) ==
  LET f == EncodeState(s)
      mask == LegalMask(s)
      wrong(plane, cell) == Struck(f, plane, cell, One \div 2 + 1)
      Case(g, codes, why) == [features |-> g, mask |-> codes, reason |-> why]
  IN {Case(f, mask, "none")}
     \cup {Case(wrong(plane, cell), mask, "feature_mismatch") :
        plane \in {"mover_path_distance", "opponent_path_distance"}, cell \in {<<1, 0>>}}
     \cup {Case(f, mask \cup {code}, "legal_mask_mismatch") :
             code \in {CHOOSE c \in 0 .. PolicySize : c \notin mask}}
     \cup {Case(f, mask \ {code}, "legal_mask_mismatch") :
             code \in {c \in mask : \A d \in mask : c <= d}}

\* A carried history with one field wrong.
CarriedDamage(s) ==
  LET c == Carried(s)
      entry == CHOOSE e \in c.window : TRUE
      root == CHOOSE e \in c.window : e[1] = CompactKey(PositionKey(PositionOf(s)))
      swap(old, new) == [c EXCEPT !.window = (c.window \ {old}) \cup {new}]
      Case(d, why) == [carried |-> d, reason |-> why]
  IN {Case([c EXCEPT !.ply = @ + 2], "carried_window_sum_mismatch"),
      Case([c EXCEPT !.historyStartPly = c.ply + 1], "carried_history_start_ply_invalid"),
      Case(swap(entry, <<entry[1], entry[2] + 1>>), "carried_window_sum_mismatch"),
      Case([c EXCEPT !.window = {}], "carried_window_empty"),
      Case(swap(entry, <<entry[1] + 2^20, entry[2]>>), "window_key_out_of_range"),
      Case(swap(entry, <<(entry[1] \div 256) * 256 + 254, entry[2]>>), "window_key_square_out_of_board")}
     \cup {Case([c EXCEPT !.window = (@ \ {root, e}) \cup {<<e[1], e[2] + root[2]>>}],
                "carried_window_missing_root") : e \in c.window \ {root}}
     \cup {Case(swap(e, <<root[1], root[2] + 1>>), "carried_window_duplicate_key") :
             e \in c.window \ {root}}

\* The anchors walls may have in a line of n cells, and the cells they light.
AnchorSets(n) == {anchors \in SUBSET (0 .. n-2) : \A i \in anchors : i + 1 \notin anchors}
PlaneLine(n, anchors) ==
  [i \in 0 .. n-1 |-> IF i \in anchors \/ i - 1 \in anchors THEN One ELSE 0]

\* One of each kind of smallest legal change: a step, a swap, the turn, a wall fewer or more.
Perturbations(pos) ==
  LET mover == pos.turn
      rival == RivalOf(pos)
      refunded == IF pos.stock["A"] < InitialStock["A"] THEN "A" ELSE "B"
      spender == IF pos.stock[mover] > 0 THEN mover ELSE rival
      addable == {c \in LegalPositionActionCodes(pos) : c >= CellCount}
      first == CHOOSE c \in addable : \A d \in addable : c <= d
  IN {[pos EXCEPT !.pawns = [p \in Players |-> pos.pawns[Other(p)]]], [pos EXCEPT !.turn = rival],
      [pos EXCEPT !.pawns[mover] = CHOOSE cell \in Adjacent[pos.pawns[mover]] : cell # pos.pawns[rival]]}
     \cup (IF pos.walls = {} THEN {}
           ELSE {[pos EXCEPT !.walls = @ \ {CHOOSE w \in pos.walls : TRUE}, !.stock[refunded] = @ + 1]})
     \cup (IF addable = {} THEN {}
           ELSE {[pos EXCEPT !.walls = @ \cup {DecodeAction(first).wall}, !.stock[spender] = @ - 1]})

(* ---- Properties --------------------------------------------------------- *)

\* Every anchor set the engine admits in a line of a wall plane, up to the nine cells of
\* the shipped board, is read back from the cells its walls light.
LinesInvert ==
  \A n \in 2 .. 9 : \A anchors \in AnchorSets(n) :
    WallAnchorsFromPlaneLine(PlaneLine(n, anchors)) = Return(anchors)

\* positionFromFeatures undoes encodeState at every state of a game, drawn and won ones
\* too, and a record that carries its history is rebuilt as the very state it was
\* written at: same ply, same window and counts, same outcome.  Whatever history is invented
\* for a record that carries none, what is rebuilt is a state of its own position, labelled as
\* the true state is unless that was drawn, and never labelled a draw.
RecordsInvert ==
  /\ ply = 0 => LinesInvert
  /\ \A f \in {EncodeState(GameState)} : \A built \in {StateFromFeatures(f)} :
       /\ PositionFromFeatures(f) = Return(Position)
       /\ VerifyCarriedRecord(f, LegalMask(GameState), Carried(GameState)) = Return(GameState)
       /\ Succeeds(built) =>
            /\ PositionOf(built.it) = Position
            /\ built.it.outcome.kind # "draw"
            /\ outcome.kind # "draw" => built.it.outcome = outcome

\* How records are judged.  One without a history becomes a state whenever the game it came from
\* was not a draw, at a ply no later than the true one, and a search can play on from there:
\* what is legal in it makes states that the engine accepts.  What the planes cannot say is
\* refused and never relabelled: the audit accepts a record whose state was not drawn, and no
\* drawn one; it refuses every damaged record and names what is damaged; and no small change
\* of the board leaves the planes as they were.
RecordsAreJudged ==
  /\ \A built \in {StateFromFeatures(EncodeState(GameState))} :
       /\ outcome.kind # "draw" /\ ply < PlyCap => Succeeds(built) /\ built.it.ply <= ply
       /\ Succeeds(built) => \A a \in LegalActions(built.it) : Validate(Applied(built.it, a)).reason = "none"
  /\ \A d \in {e \in RecordDamage(GameState) : outcome.kind # "draw" \/ e.reason = "none"} :
       \A verdict \in {VerifyRecord(d.features, d.mask)} :
         IF outcome.kind = "draw" THEN ~Succeeds(verdict)
         ELSE ply < PlyCap => verdict.reason = d.reason
  /\ \A d \in PlaneDamage(GameState) : PositionFromFeatures(d.features).reason \in d.reasons
  /\ \A f \in {EncodeState(GameState)} :
       /\ \A d \in CarriedDamage(GameState) : StateFromCarried(f, d.carried).reason = d.reason
       /\ \A changed \in Perturbations(Position) : EncodeState(changed) # f
=============================================================================
