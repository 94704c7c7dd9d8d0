-------------------------------- MODULE NetMatch --------------------------------
(***************************************************************************)
(* The match between two networks (scripts/distill-compare.mjs) and the    *)
(* ledger that gates it.  A student is anchored by a match against its     *)
(* declared parent, whose result the ledger keeps; two students are only   *)
(* compared once both have an anchor that is no sign of collapse.  The     *)
(* games of a match run in slots, a step of which sends every pending leaf *)
(* to the network whose move it is: one request per side.                  *)
(*                                                                         *)
(* The ledger is read when a program starts and written whole when it ends *)
(* (one program at a time: two that overlap lose each other's anchors).    *)
(***************************************************************************)
EXTENDS Integers, SequencesExt, FiniteSetsExt

CONSTANTS
  Nets,
  MatchGames, MatchSlots,  \* --games, --slots
  MaxPlies,                \* a bound: every game ends within so many plies
  Breakage,                \* BREAKAGE_ELO
  Elo(_, _),               \* of w wins in d decided games, 0 < w < d, rounded
  Ledgers,                 \* what the ledger may hold at the beginning
  MaxPrograms              \* a bound on the programs that are run

ASSUME MatchAssumption ==
  /\ {MatchGames, MatchSlots, MaxPlies, Breakage, MaxPrograms} \subseteq Nat \ {0}
  /\ MatchGames % 2 = 0     \* the program refuses an odd number
  /\ "none" \notin Nets
  /\ \A l \in Ledgers : DOMAIN l = {"file", "parents", "anchors"}

VARIABLES
  ledger,    \* the file: [file, parents, anchors], file "missing", "malformed" or "object"
  match,     \* the match that is played
  programs,
  \* What the games say, apart from what the program makes of them:
  tally,     \* colour of A in the current match -> games won by "a", by "b"
  measured   \* net -> the last anchor that a match measured for it

matchVars == <<ledger, match, programs, tally, measured>>

NoMatch == [kind |-> "none"]
NoAnchor == [base |-> "none"]
Saturated == <<>>        \* elo: null; a number is <<number>>
Empty(file) == [file |-> file, parents |-> {}, anchors |-> [n \in Nets |-> NoAnchor]]

(* ---- the gate ------------------------------------------------------------- *)

\* readLedger: a missing file is an empty ledger, a malformed one is refused.
ReadLedger == [ledger EXCEPT !.file = "object"]
Readable == ledger.file # "malformed"

\* A record without its fields has decided = 0: anchorProblem refuses it.
AnchorProblem(record, base) == record.base # base \/ record.decided = 0
NotBelow(record) == record.elo # Saturated /\ record.elo[1] >= -Breakage
Fit(record) == record.elo # Saturated /\ record.elo[1] \in -Breakage .. Breakage

ScreenAllowed(l, a, b, base) ==
  \A n \in {a, b} : l.anchors[n] # NoAnchor /\ ~AnchorProblem(l.anchors[n], base) /\ Fit(l.anchors[n])

Declare(base) ==
  /\ match = NoMatch /\ programs < MaxPrograms /\ Readable
  /\ ledger' = [ReadLedger EXCEPT !.parents = @ \cup {base}]
  /\ programs' = programs + 1
  /\ UNCHANGED <<match, tally, measured>>

ASide(g) == IF g % 2 = 1 THEN "A" ELSE "B"     \* games are counted from 1 here
Game(g) == [aSide |-> ASide(g), plies |-> 0, result |-> "none"]
NoSlot == [game |-> 0, side |-> "none", answers |-> <<>>, busy |-> FALSE]

\* anchored: the subject of an anchor run, "none" for a screen.
Begin(a, b, base) ==
  /\ match = NoMatch /\ programs < MaxPrograms /\ Readable
  /\ a # b /\ base \in ReadLedger.parents
  /\ base \in {a, b} \/ ScreenAllowed(ReadLedger, a, b, base)
  /\ programs' = programs + 1
  /\ tally' = [w \in {"a", "b"} |-> 0]
  /\ match' =
       [kind |-> "match", a |-> a, b |-> b, base |-> base, held |-> ReadLedger,
        anchored |-> IF a = base THEN b ELSE IF b = base THEN a ELSE "none",
        games |-> [g \in 1 .. MatchGames |-> Game(g)], next |-> 1,
        at |-> 1, slots |-> [i \in 1 .. MatchSlots |-> NoSlot], pending |-> <<>>, sides |-> <<>>]
  /\ UNCHANGED <<ledger, measured>>

(* ---- the games ------------------------------------------------------------ *)

Playing == match.kind = "match" /\ match.at <= MatchSlots /\ match.sides = <<>>
This == match.slots[match.at]
GameOver(g) == g = 0 \/ match.games[g].result # "none"

Turn(game) == IF game.plies % 2 = 0 THEN "A" ELSE "B"
MoverCheckpoint(game) == IF Turn(game) = game.aSide THEN "a" ELSE "b"

\* fill: the next game if this one is over, and a search of its position.
FillSlot ==
  /\ Playing /\ ~This.busy
  /\ LET g == IF GameOver(This.game) THEN match.next ELSE This.game
     IN match' = IF g > MatchGames
                 THEN [match EXCEPT !.at = @ + 1]
                 ELSE [match EXCEPT !.next = IF GameOver(This.game) THEN @ + 1 ELSE @,
                   !.slots[match.at] = [game |-> g, side |-> MoverCheckpoint(match.games[g]),
                                        answers |-> <<>>, busy |-> TRUE]]
  /\ UNCHANGED <<ledger, programs, tally, measured>>

\* A search asks for one leaf, named by its game and its ply.
LeafIn(slot) == <<slot.game, match.games[slot.game].plies>>

PendSlot ==
  /\ Playing /\ This.busy /\ This.answers = <<>>
  /\ match' = [match EXCEPT !.pending = Append(@, match.at), !.at = @ + 1,
                            !.sides = IF match.at = MatchSlots THEN <<"a", "b">> ELSE <<>>]
  /\ UNCHANGED <<ledger, programs, tally, measured>>

\* The scan ended on a slot with nothing to do.
EndScan ==
  /\ match.kind = "match" /\ match.at > MatchSlots /\ match.sides = <<>> /\ match.pending # <<>>
  /\ match' = [match EXCEPT !.sides = <<"a", "b">>]
  /\ UNCHANGED <<ledger, programs, tally, measured>>

\* A side's slots, by where they are in the batch; their rows are repacked in that order.
Group(side) == {k \in DOMAIN match.pending : match.slots[match.pending[k]].side = side}
Row(group, k) == Cardinality({j \in group : j <= k})
Repacked(group, row) == CHOOSE k \in group : Row(group, k) = row

SubBatchFromTheTop(group) ==
  [row \in 1 .. Cardinality(group) |-> LeafIn(match.slots[match.pending[row]])]
\* The features of a side's leaves, repacked from where they are in the batch.
SubBatch(group) ==
  [row \in 1 .. Cardinality(group) |-> LeafIn(match.slots[match.pending[Repacked(group, row)]])]

\* One request to the checkpoint of a side, and its rows in order.
InferSide ==
  /\ match.kind = "match" /\ match.sides # <<>>
  /\ LET side == Head(match.sides)
         group == Group(side)
         sub == SubBatch(group)
         last == Len(match.sides) = 1
     IN match' = [match EXCEPT !.sides = Tail(@),
          !.at = IF last THEN 1 ELSE @, !.pending = IF last THEN <<>> ELSE @,
          !.slots = [i \in 1 .. MatchSlots |->
             IF \E k \in group : match.pending[k] = i
             THEN LET at == CHOOSE k \in group : match.pending[k] = i
                  IN [match.slots[i] EXCEPT !.answers =
                        Append(@, [net |-> side, leaf |-> sub[Row(group, at)]])]
             ELSE match.slots[i]]]
  /\ UNCHANGED <<ledger, programs, tally, measured>>

Won(game, winner) == IF winner = "draw" THEN "draw" ELSE IF winner = game.aSide THEN "a" ELSE "b"

\* Who wins is free; nobody wins, and nothing is drawn, only while plies are left.
FinishSearch ==
  /\ Playing /\ This.busy /\ This.answers # <<>>
  /\ LET game == match.games[This.game]
         Ended(winner) ==
           /\ match' = [match EXCEPT !.slots[match.at].busy = FALSE,
                 !.games[This.game] = [game EXCEPT !.plies = @ + 1, !.result = Won(game, winner)]]
           /\ tally' = [w \in {"a", "b"} |->
                tally[w] + (IF winner = (IF w = "a" THEN ASide(This.game) ELSE ASide(This.game + 1)) THEN 1 ELSE 0)]
     IN \/ \E winner \in {Turn(game), "draw"} : Ended(winner)
        \/ /\ game.plies + 1 < MaxPlies
           /\ match' = [match EXCEPT !.slots[match.at].busy = FALSE, !.games[This.game].plies = @ + 1]
           /\ UNCHANGED tally
  /\ UNCHANGED <<ledger, programs, measured>>

(* ---- the verdict ---------------------------------------------------------- *)

Wins(result) == Quantify(1 .. MatchGames, LAMBDA g : match.games[g].result = result)
Decided == Wins("a") + Wins("b")

SubjectWins == IF match.a = match.anchored THEN Wins("a") ELSE Decided - Wins("a")

EloOf(wins, decided) == IF wins = 0 \/ wins = decided THEN Saturated ELSE <<Elo(wins, decided)>>
Anchor(base, wins, decided) ==
  [base |-> base, decided |-> decided, wins |-> wins, elo |-> EloOf(wins, decided)]

Verdict ==
  /\ match.kind = "match" /\ match.at > MatchSlots /\ match.sides = <<>> /\ match.pending = <<>>
  /\ IF match.anchored # "none" /\ Decided > 0
     THEN LET subject == match.anchored
              won == tally[IF subject = match.a THEN "a" ELSE "b"]
          IN /\ ledger' = [match.held EXCEPT !.anchors[subject] = Anchor(match.base, SubjectWins, Decided)]
             /\ measured' = [measured EXCEPT ![subject] = Anchor(match.base, won, tally["a"] + tally["b"])]
     ELSE UNCHANGED <<ledger, measured>>
  /\ match' = NoMatch
  /\ UNCHANGED <<programs, tally>>

\* A leaf that is refused or a program that is stopped: nothing is written.
Abandon ==
  /\ match.kind = "match" /\ match.sides # <<>>
  /\ match' = NoMatch
  /\ UNCHANGED <<ledger, programs, tally, measured>>

MatchInit ==
  /\ ledger \in Ledgers /\ match = NoMatch /\ programs = 0
  /\ tally = [w \in {"a", "b"} |-> 0]
  /\ measured = ledger.anchors

Operate == \E a, b, base \in Nets : Begin(a, b, base)

MatchNext ==
  \/ Operate \/ (\E base \in Nets : Declare(base))
  \/ FillSlot \/ PendSlot \/ EndScan \/ InferSide \/ FinishSearch \/ Verdict
  \/ Abandon

MatchSpec == MatchInit /\ [][MatchNext]_matchVars

(* ---- what the gate and the match are for ---------------------------------- *)

\* Every search is answered with its own leaf, by the network whose move it is, and over
\* a match either network plays either colour equally often: the rows of a side come back
\* into the slots they were repacked from (distill-compare.mjs:497-514).
EachNetPlaysItsOwnMoves ==
  match.kind = "match" =>
    /\ \A i \in 1 .. MatchSlots :
         LET slot == match.slots[i]
         IN slot.busy => /\ slot.side = MoverCheckpoint(match.games[slot.game])
                         /\ slot.answers \in {<<>>, <<[net |-> slot.side, leaf |-> LeafIn(slot)]>>}
                         /\ \A j \in 1 .. MatchSlots : i # j /\ match.slots[j].busy => match.slots[j].game # slot.game
    /\ Quantify(1 .. MatchGames, LAMBDA g : match.games[g].aSide = "A") * 2 = MatchGames

\* While a match runs it is an anchor run, or both arms were last measured, against this
\* base, as neither saturated nor further from it than the breakage threshold: whatever
\* was recorded, read and written back in between ("an anchor that shows collapse is not
\* permission to proceed").  The anchors on record are those that matches measured, each
\* from the point of view of its own net on whichever side it played.
ScreensOnlyHealthyArms ==
  /\ ledger.anchors = measured
  /\ (match.kind = "match" /\ match.anchored = "none") =>
       \A n \in {match.a, match.b} :
         /\ measured[n] # NoAnchor /\ measured[n].base = match.base
         /\ measured[n].elo # Saturated
         /\ measured[n].elo[1] <= Breakage /\ -measured[n].elo[1] <= Breakage

=============================================================================
