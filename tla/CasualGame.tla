------------------------------ MODULE CasualGame ------------------------------
(***************************************************************************)
(* The built-in bots of a duel (js/ai.js) over the older client's own      *)
(* board code (js/game-logic.js).  A bot asks either rule book: that of    *)
(* normal-duel-v1 through the bridge, or the client's own, which special   *)
(* modes keep, and which decides where those modes drop a wall or an item. *)
(* Player B is the bot.  A bot's answer is a set of actions: what its      *)
(* dice, its ties and (for the hard one) its search may choose.            *)
(***************************************************************************)
EXTENDS PerftCounts

Bot == "B"
Human == "A"

(* ---- The older client's board ------------------------------------------- *)

CasualEdgeBlocked(from, to, ws) ==
  LET below(row) == {<<"H", row, from[2]>>, <<"H", row, from[2] - 1>>}
      right(column) == {<<"V", from[1], column>>, <<"V", from[1] - 1, column>>}
  IN \/ to[1] - from[1] = 1 /\ below(from[1]) \cap ws # {}
     \/ to[1] - from[1] = -1 /\ below(to[1]) \cap ws # {}
     \/ to[2] - from[2] = 1 /\ right(from[2]) \cap ws # {}
     \/ to[2] - from[2] = -1 /\ right(to[2]) \cap ws # {}

\* Up, down, left, right: the order every loop of the client looks around in.
Around(cell) == <<<<cell[1] - 1, cell[2]>>, <<cell[1] + 1, cell[2]>>,
                  <<cell[1], cell[2] - 1>>, <<cell[1], cell[2] + 1>>>>

OpenAround(cell, ws) ==
  SelectSeq(Around(cell), LAMBDA n : n \in Cells /\ ~CasualEdgeBlocked(cell, n, ws))

\* First in, first out, each cell reached once: the queue holds the paths themselves.
RECURSIVE Searched(_, _, _, _)
Searched(queue, seen, goals, ws) ==
  IF queue = <<>> THEN <<>>
  ELSE LET path  == Head(queue)
           cell  == path[Len(path)]
           fresh == SelectSeq(OpenAround(cell, ws), LAMBDA n : n \notin seen)
       IN IF cell \in goals THEN path
          ELSE Searched(Tail(queue) \o [i \in DOMAIN fresh |-> Append(path, fresh[i])],
                        seen \cup ToSet(fresh), goals, ws)

\* The path found, from the cell asked about to the first goal; <<>> for null.
BfsPath(from, goals, ws) == Searched(<<<<from>>>>, {from}, goals, ws)

GoalCells(p) == {cell \in Cells : cell[1] = GoalRow[p]}
PathOf(p, s, ws) == BfsPath(s.pawns[p], GoalCells(p), ws)

\* tryWall, without the hammers of another mode.
TryWall(s, w) ==
  /\ w \notin s.walls
  /\ Conflicts(w) \cap s.walls = {}
  /\ \A p \in Players : PathOf(p, s, s.walls \cup {w}) # <<>>

GetMovesFrom(pos, opp, ws) ==
  UNION {IF n = opp THEN ToSet(OpenAround(n, ws)) \ {pos} ELSE {n} : n \in ToSet(OpenAround(pos, ws))}

(* ---- The two rule books ------------------------------------------------- *)

Books == {"normal-duel-v1", "legacy"}

BotMoves(book, s) ==
  IF book = "legacy" THEN GetMovesFrom(s.pawns[Bot], s.pawns[Human], s.walls)
  ELSE PawnDestinations(Snapshot(s))

BotWall(book, s, w) ==
  IF book = "legacy" THEN TryWall(s, w) ELSE NormalDuelTryWall(s, w) # {}

\* The next step of the path whoever stands there.
StepOfPath(book, s, path) == {path[2]}

\* The next step of the path, or the first open exit past the rival: empty for null.
TowardGoal(book, s, path) ==
  LET step  == path[2]
      rival == s.pawns[Human]
      exits == Exits(s.pawns[Bot], rival)
      open  == {i \in 1 .. 3 : exits[i] \in ToSet(OpenAround(rival, s.walls))}
  IN IF book # "legacy" THEN NormalDuelMoveTowardGoal(s, step)
     ELSE IF step # rival THEN {step}
     ELSE IF open = {} THEN {} ELSE {exits[CHOOSE i \in open : \A j \in open : i <= j]}

(* ---- What every bot looks at -------------------------------------------- *)

\* The walls at the corners of the first cells of a player's path.
WallCandidates(path, depth) ==
  LET nodes == {path[i] : i \in 1 .. (IF Len(path) < depth THEN Len(path) ELSE depth)}
  IN {w \in Walls : \E node \in nodes : w[2] \in {node[1] - 1, node[1]} /\ w[3] \in {node[2] - 1, node[2]}}

\* The walls a bot may try, each with the steps it costs either side.
Tried(book, s, humPath, aiPath, depth) ==
  {[wall |-> w, humDelay |-> Len(PathOf(Human, s, s.walls \cup {w})) - Len(humPath),
                aiCost |-> Len(PathOf(Bot, s, s.walls \cup {w})) - Len(aiPath)] :
     w \in {x \in WallCandidates(humPath, depth) : BotWall(book, s, x)}}

\* An item worth the steps it takes; the fewer walls are left the more it is worth.
ShouldPickupItem(book, s, aiPath, item) ==
  LET toItem   == BfsPath(s.pawns[Bot], {item}, s.walls)
      fromItem == BfsPath(item, GoalCells(Bot), s.walls)
      left     == s.stock[Bot]
      most     == IF left <= 2 THEN 6 ELSE IF left <= 4 THEN 4 ELSE IF left <= 7 THEN 2 ELSE 1
  IN IF item \in BotMoves(book, s) THEN {item}
     ELSE IF /\ toItem # <<>> /\ fromItem # <<>>
             /\ Len(toItem) + Len(fromItem) - 1 - Len(aiPath) <= most
             /\ toItem[2] # s.pawns[Human]
          THEN {toItem[2]} ELSE {}

Pickups(book, s, aiPath, items) == UNION {ShouldPickupItem(book, s, aiPath, i) : i \in items}

Stepping(cells) == {[kind |-> "pawn", to |-> cell] : cell \in cells}
Walling(tried) == {[kind |-> "wall", wall |-> t.wall] : t \in tried}

Wins(book, s) == {m \in BotMoves(book, s) : m[1] = GoalRow[Bot]}

\* Along the path, or any legal step when that is barred.
Advance(book, s, aiPath) ==
  LET along == TowardGoal(book, s, aiPath)
  IN Stepping(IF along # {} THEN along ELSE BotMoves(book, s))

(* ---- The bots ----------------------------------------------------------- *)

\* Walls often, the first of a shuffled list that slows the human at all.
AiEasy(book, s, items) ==
  LET aiPath == PathOf(Bot, s, s.walls)
      humPath == PathOf(Human, s, s.walls)
      picks == Pickups(book, s, aiPath, items)
      considers == s.stock[Bot] > 0 /\ (Len(humPath) <= Len(aiPath) + 3 \/ Len(humPath) <= 7)
      proactive == s.stock[Bot] > 0 /\ Len(humPath) <= Len(aiPath) + 5
      slowing == {t \in Tried(book, s, humPath, aiPath, 5) : t.humDelay >= 1 /\ t.aiCost <= 2}
  IN IF aiPath = <<>> THEN {}
     ELSE IF Wins(book, s) # {} THEN Stepping(Wins(book, s))
     ELSE IF picks # {} THEN Stepping(picks)
     ELSE IF considers /\ slowing # {} THEN Walling(slowing)
     ELSE (IF proactive THEN Walling(slowing) ELSE {}) \cup Advance(book, s, aiPath)

\* The candidates of the best score; a tie goes to the first in the list.
DuelBestWall(book, s, humPath, aiPath) ==
  LET score(t) == 3 * t.humDelay - 2 * t.aiCost
      blocking == {t \in Tried(book, s, humPath, aiPath, 5) : t.humDelay > 0}
  IN {t \in blocking : \A other \in blocking : score(other) <= score(t)}

AiDuelNormal(book, s, items) ==
  LET aiPath == PathOf(Bot, s, s.walls)
      humPath == PathOf(Human, s, s.walls)
      direct == BotMoves(book, s) \cap items
      picks == Pickups(book, s, aiPath, items)
      block == IF s.stock[Bot] > 0 THEN DuelBestWall(book, s, humPath, aiPath) ELSE {}
      worth == {t \in block : \/ Len(humPath) <= Len(aiPath) /\ t.aiCost <= 1
                              \/ t.humDelay >= 2 /\ t.aiCost <= 0}
  IN IF Wins(book, s) # {} THEN Stepping(Wins(book, s))
     ELSE IF direct # {} THEN Stepping(direct)
     ELSE IF aiPath = <<>> THEN Stepping(BotMoves(book, s))
     ELSE IF picks # {} THEN Stepping(picks)
     ELSE Walling(worth) \cup Advance(book, s, aiPath)

\* The root's actions: every step, and the walls that gain more than they cost.
GenActions(book, s, humPath, aiPath) ==
  Stepping(BotMoves(book, s))
  \cup (IF s.stock[Bot] > 0
        THEN Walling({t \in Tried(book, s, humPath, aiPath, 6) : t.humDelay - t.aiCost > 0})
        ELSE {})

\* Its search orders the root's actions and is cut by the clock: it may choose any.
AiDuelHard(book, s, items) ==
  LET aiPath == PathOf(Bot, s, s.walls)
      humPath == PathOf(Human, s, s.walls)
      direct == BotMoves(book, s) \cap items
      sprint == IF \/ s.stock[Bot] <= 0 /\ items = {}
                   \/ Len(aiPath) <= 3 /\ Len(humPath) > Len(aiPath)
                THEN TowardGoal(book, s, aiPath) ELSE {}
  IN IF Wins(book, s) # {} THEN Stepping(Wins(book, s))
     ELSE IF direct # {} THEN Stepping(direct)
     ELSE IF sprint # {} THEN Stepping(sprint)
     ELSE GenActions(book, s, humPath, aiPath)

\* After three answers in a row that bring it no nearer a bot is made to walk its path.
AntiStall(book, s, answer, stall, items) ==
  LET path == PathOf(Bot, s, s.walls)
      nearer == answer.kind = "pawn" /\ Len(BfsPath(answer.to, GoalCells(Bot), s.walls)) < Len(path)
      counted == IF answer.kind = "wall" THEN stall
                 ELSE IF nearer \/ answer.to \in items THEN 0 ELSE stall + 1
      forced == IF answer.kind = "pawn" /\ counted >= 3 THEN TowardGoal(book, s, path) ELSE {}
  IN IF forced # {} THEN [answer |-> CHOOSE a \in Stepping(forced) : TRUE, stall |-> 0]
     ELSE [answer |-> answer, stall |-> counted]

(* ---- What the special modes put on the board ----------------------------- *)

\* pickFairDropWall: of the walls that do not cost the player who trails more than the one
\* who leads, one of the five that score best, in halves, with up to 1.5 of luck each.
PickFairDropWall(s) ==
  LET path == Table([p \in Players |-> PathOf(p, s, s.walls)])
      leader == IF Len(path["A"]) <= Len(path["B"]) THEN "A" ELSE "B"
      trailer == Other(leader)
      delay(p, w) == Len(PathOf(p, s, s.walls \cup {w})) - Len(path[p])
      tried == {[wall |-> w, leader |-> delay(leader, w), trailer |-> delay(trailer, w)] :
                  w \in {x \in WallCandidates(path[leader], 6) : TryWall(s, x)}}
      fair == {t \in tried : t.trailer <= t.leader}
      score(t) == 2 * t.leader - 5 * t.trailer
  IN {t.wall : t \in {f \in fair : Cardinality({g \in fair : score(g) >= score(f) + 3}) < 5}}

\* pickChaosPos: between the pawns and off the goal rows; when one player is well behind,
\* on that player's path, two to four steps ahead if it can be; else where it is near
\* both alike, the first such in reading order.
PickChaosPos(s) ==
  LET path == Table([p \in Players |-> PathOf(p, s, s.walls)])
      row == {s.pawns[p][1] : p \in Players}
      zone == {cell \in Cells : /\ cell[1] \in Min(row) .. Max(row) /\ cell[1] \in 1 .. Rows - 2
                                /\ \A p \in Players : cell # s.pawns[p]}
      weak == IF Len(path["A"]) > Len(path["B"]) THEN path["A"] ELSE path["B"]
      ahead == {k \in 2 .. Len(weak) : weak[k] \in zone}
      way(p, cell) == Len(BfsPath(s.pawns[p], {cell}, s.walls))
      reached == {cell \in zone : \A p \in Players : way(p, cell) > 0}
      score(cell) == way("A", cell) + way("B", cell) + 3 * Abs(way("A", cell) - way("B", cell))
      first(cells) == {CHOOSE c \in cells : \A d \in cells : c[1] * Cols + c[2] <= d[1] * Cols + d[2]}
      best == {c \in reached : \A d \in reached : score(c) <= score(d)}
  IN IF Abs(Len(path["A"]) - Len(path["B"])) > 1 /\ ahead # {}
     THEN {weak[Min(IF ahead \cap 3 .. 5 # {} THEN ahead \cap 3 .. 5 ELSE ahead)]}
     ELSE IF best = {} THEN {} ELSE first(best)

(* ---- The pinned baseline ------------------------------------------------ *)

\* The bot only knows how to play B: as A it is shown the board turned about.
Turned(cell) == <<Rows - 1 - cell[1], Cols - 1 - cell[2]>>

\* An anchor is the upper left of the four cells its wall lies between.
TurnedWall(w) == <<w[1], Rows - 2 - w[2], Cols - 2 - w[3]>>

OracleState(s) ==
  IF s.turn = Bot THEN s
  ELSE [s EXCEPT !.turn = Bot,
                 !.pawns = [p \in Players |-> Turned(s.pawns[Other(p)])],
                 !.stock = [p \in Players |-> s.stock[Other(p)]],
                 !.walls = {TurnedWall(w) : w \in s.walls}]

DecisionFromOracleFrame(s, a) ==
  IF s.turn = Bot THEN a
  ELSE IF a.kind = "pawn" THEN [a EXCEPT !.to = Turned(a.to)] ELSE [a EXCEPT !.wall = TurnedWall(a.wall)]

\* selectAction of a session of createPinnedHardBaseline: the answer and the stall it
\* keeps for the next one.
BaselineDecisions(s, stall) ==
  LET oracle == OracleState(s)
      settled == {AntiStall("legacy", oracle, raw, stall, {}) : raw \in AiDuelHard("legacy", oracle, {})}
  IN {[d EXCEPT !.answer = DecisionFromOracleFrame(s, @)] : d \in settled}

(* ---- Properties --------------------------------------------------------- *)

WinningSteps(s) == {a \in LegalActions(s) : a.kind = "pawn" /\ a.to[1] = GoalRow[s.turn]}

Sound(answers, s) ==
  /\ answers # {} /\ answers \subseteq LegalActions(s)
  /\ WinningSteps(s) # {} => answers \subseteq WinningSteps(s)

Stalls == {0, 2}

\* A bot always has an answer and the rules of normal-duel-v1 accept it, whichever rule
\* book it asked, wherever an item lies, whatever stands on its path and however long it
\* has stalled; and no bot lets a step to its goal go by.  Were it to answer null the page
\* would leave the turn unplayed, and the page applies an answer without asking the rules
\* again.  The pinned baseline of the strength match does as much on either side of the
\* board: an answer lost in turning the board would forfeit, and the candidate be credited
\* with a win.  Nor are the rules asked about what the special modes drop: a wall is one
\* they accept, and sets the player who trails no further back ("niemals den
\* Hinterherlaufenden staerker"), and an item lies on a free cell, off the goal rows, that
\* this player can reach ("garantiert erreichbar").
ClientPlaysByTheRules ==
  outcome = Ongoing =>
    LET s == GameState
        somewhere == {{i} : i \in Cells \ {pawns[Bot], pawns[Human]}}
        far(ws, p) == GoalDistance(BlockedEdges(ws), pawns[p], GoalRow[p])
        trailer == IF far(walls, "A") <= far(walls, "B") THEN "B" ELSE "A"
        lead(ws) == far(ws, trailer) - far(ws, Other(trailer))
    IN /\ \A w \in PickFairDropWall(s) :
            NormalDuelTryWall(s, w) # {} /\ lead(walls \cup {w}) <= lead(walls)
       /\ \A cell \in PickChaosPos(s) :
            /\ cell \in Cells \ {pawns["A"], pawns["B"]} /\ cell[1] \notin {0, Rows - 1}
            /\ BfsPath(pawns[trailer], {cell}, walls) # <<>>
       /\ \A stall \in Stalls :
            /\ Sound({d.answer : d \in BaselineDecisions(s, stall)}, s)
            /\ turn = Bot =>
                 \A book \in Books :
                   \A items \in {{}} \cup (IF book = "legacy" THEN somewhere ELSE {}) :
                     \A answers \in {AiEasy(book, s, items), AiDuelNormal(book, s, items),
                                     AiDuelHard(book, s, items)} :
                       Sound({AntiStall(book, s, a, stall, items).answer : a \in answers}, s)
=============================================================================
