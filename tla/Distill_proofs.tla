--------------------------- MODULE Distill_proofs ---------------------------
(***************************************************************************)
(* Proofs about the distillation programs (scripts/distill-*.mjs).         *)
(*                                                                         *)
(* For any number of games and slots, any ledger and any rule for the      *)
(* ratings, in a match between two networks each is asked about its own    *)
(* positions and answers its own slots, and a screen runs only between     *)
(* arms whose last measurement was healthy.  A game is given to one slot,  *)
(* which keeps it until it is over (SlotsFollow); a pending slot waits for *)
(* the side it was filed under and has no answer until that side is served *)
(* (PendingFollow); and the results on record are those the games had      *)
(* (TallyFollows), so what is written back to the ledger is what the games *)
(* measured.                                                               *)
(*                                                                         *)
(* For any rules, any searches and any number of slots, collections and    *)
(* crashes, the files of the pipeline are what was searched for            *)
(* (CorpusInv).  runLockStep gives each pending slot the answer to its own *)
(* leaf (LockOk); a game's record is that of its own searches, in the slot *)
(* (GameFollows), on its way to the files (Closes) and in them (ToldBy);   *)
(* and every game that has begun is in one of those places (Placed), as    *)
(* every ply of the deep pass is done, at hand or in the queue (RelabelOk).*)
(* While nothing is made anew of which other files had been made, a set    *)
(* whose last file ends with the last ply that can be used has the records *)
(* of these plies (SetOk), since shards writes its files in order and the  *)
(* plies that can be used only become more (SetsInv).                      *)
(***************************************************************************)
EXTENDS Distill, NetMatch, FiniteSetTheorems, TLAPS

-----------------------------------------------------------------------------
(* Matches between two networks.                                           *)

Fields == {"kind", "a", "b", "base", "held", "anchored", "games", "next", "at", "slots",
           "pending", "sides"}
InMatch == match.kind = "match"

\* The games of a match m.
GameOk(m, g) ==
  /\ DOMAIN m.games[g] = {"aSide", "plies", "result"}
  /\ m.games[g].aSide = ASide(g)
  /\ m.games[g].plies \in Nat
  /\ m.games[g].result \in {"none", "a", "b", "draw"}
  /\ g >= m.next => m.games[g].result = "none"

GamesFollow(m) ==
  /\ DOMAIN m = Fields
  /\ m.next \in Nat \ {0} /\ m.at \in Nat \ {0}
  /\ DOMAIN m.games = 1 .. MatchGames
  /\ \A g \in 1 .. MatchGames : GameOk(m, g)

\* The game that is played in a slot, and what its search has been answered.
OwnAnswer(m, slot) == <<[net |-> slot.side, leaf |-> <<slot.game, m.games[slot.game].plies>>]>>

SlotOk(m, slot) ==
  /\ DOMAIN slot = {"game", "side", "answers", "busy"}
  /\ slot.game \in 0 .. MatchGames /\ slot.game < m.next
  /\ slot.busy \in BOOLEAN
  /\ slot.busy =>
       /\ slot.game # 0 /\ m.games[slot.game].result = "none"
       /\ slot.side = MoverCheckpoint(m.games[slot.game])
       /\ slot.answers \in {<<>>, OwnAnswer(m, slot)}

SlotsFollow(m) ==
  /\ DOMAIN m.slots = 1 .. MatchSlots
  /\ \A i \in 1 .. MatchSlots : SlotOk(m, m.slots[i])
  /\ \A i, j \in 1 .. MatchSlots :
       i # j /\ m.slots[i].game # 0 => m.slots[j].game # m.slots[i].game

\* The slots of the batch wait for the side they are filed under.
Awaits(m, slot) == slot.busy /\ (m.sides # <<"b">> \/ slot.side = "b" => slot.answers = <<>>)

PendingFollow(m) ==
  /\ m.sides \in {<<>>, <<"a", "b">>, <<"b">>}
  /\ m.pending \in Seq(1 .. MatchSlots)
  /\ \A k \in DOMAIN m.pending : Awaits(m, m.slots[m.pending[k]])

EndedAs(m, result) == {g \in 1 .. MatchGames : m.games[g].result = result}

TallyFollows(m, t) ==
  /\ DOMAIN t = {"a", "b"}
  /\ \A w \in {"a", "b"} : t[w] = Cardinality(EndedAs(m, w))

ArmsFollow ==
  /\ match.a # match.b
  /\ match.anchored \in {match.a, match.b, "none"}
  /\ match.a # "none" /\ match.b # "none"
  /\ DOMAIN match.held = {"file", "parents", "anchors"}
  /\ match.held.anchors = measured
  /\ match.anchored = "none" => ScreenAllowed(match.held, match.a, match.b, match.base)

LedgerFollows ==
  /\ DOMAIN ledger = {"file", "parents", "anchors"}
  /\ ledger.anchors = measured

MatchInv ==
  /\ LedgerFollows
  /\ match = NoMatch \/ (/\ InMatch /\ GamesFollow(match) /\ SlotsFollow(match)
                         /\ PendingFollow(match) /\ TallyFollows(match, tally) /\ ArmsFollow)

------------------------------------------------------------------------------

\* The sizes of a match, and that its games come in pairs.
LEMMA Sizes ==
  /\ MatchGames \in Nat \ {0} /\ MatchSlots \in Nat \ {0} /\ Breakage \in Nat /\ MaxPlies \in Nat
  /\ MatchGames % 2 = 0
  BY MatchAssumption

\* Two numbers for the two networks, whichever of the colours they play.
LEMMA MoverIsANet ==
  \A game : MoverCheckpoint(game) \in {"a", "b"}
  BY DEF MoverCheckpoint

\* The rows of a sub-batch are those of its slots, each its own.
LEMMA RowsRepacked ==
  ASSUME NEW group, IsFiniteSet(group), group \subseteq Nat
  PROVE  \A k \in group : Row(group, k) \in 1 .. Cardinality(group) /\ Repacked(group, Row(group, k)) = k
<1> DEFINE upTo(k) == {j \in group : j <= k}
<1>1. \A k \in group : IsFiniteSet(upTo(k)) /\ Cardinality(upTo(k)) \in Nat
                       /\ Cardinality(upTo(k)) <= Cardinality(group)
  <2> TAKE k \in group
  <2>1. upTo(k) \in SUBSET group
    OBVIOUS
  <2> HIDE DEF upTo
  <2> QED
    BY <2>1, FS_Subset, FS_CardinalityType
<1>2. \A k \in group : Cardinality(upTo(k)) # 0
  <2> TAKE k \in group
  <2>1. k \in upTo(k)
    OBVIOUS
  <2> HIDE DEF upTo
  <2> QED
    BY <2>1, <1>1, FS_EmptySet
<1>3. ASSUME NEW k \in group, NEW m \in group, k < m
      PROVE  Cardinality(upTo(k)) # Cardinality(upTo(m))
  <2>0. k \in Nat /\ m \in Nat /\ \A j \in group : j \in Nat
    OBVIOUS
  <2>1. upTo(k) \subseteq upTo(m) /\ m \in upTo(m) /\ m \notin upTo(k)
    <3>1. \A j \in group : j <= k => j <= m
      BY <2>0, <1>3
    <3>2. m <= m /\ ~(m <= k)
      BY <2>0, <1>3
    <3> QED
      BY <3>1, <3>2
  <2>2. IsFiniteSet(upTo(m))
    BY <1>1
  <2> HIDE DEF upTo
  <2>3. upTo(k) \in SUBSET upTo(m) /\ upTo(k) # upTo(m)
    BY <2>1
  <2> QED
    BY <2>2, <2>3, FS_Subset
<1>4. \A k \in group : Row(group, k) = Cardinality(upTo(k))
  BY DEF Row
<1>5. Cardinality(group) \in Nat
  BY FS_CardinalityType
<1> HIDE DEF upTo
<1>6. \A k, m \in group : Row(group, k) = Row(group, m) => k = m
  BY <1>3, <1>4
<1>7. \A k \in group : Row(group, k) \in 1 .. Cardinality(group)
  BY <1>1, <1>2, <1>4, <1>5
<1>8. \A k \in group : Repacked(group, Row(group, k)) = k
  BY <1>6 DEF Repacked
<1> QED
  BY <1>7, <1>8

\* The ledger that is found, with no match under way.
LEMMA MatchInitInv ==
  ASSUME MatchInit
  PROVE  MatchInv
  BY MatchAssumption DEF MatchInit, MatchInv, LedgerFollows

\* A parent that is declared joins the parents; no anchor changes.
LEMMA DeclareInv ==
  ASSUME MatchInv, NEW base \in Nets, Declare(base)
  PROVE  MatchInv'
<1>1. match = NoMatch /\ match' = match /\ measured' = measured
  BY DEF Declare
<1>2. ledger' = [ReadLedger EXCEPT !.parents = @ \cup {base}]
  BY DEF Declare
<1>3. LedgerFollows'
  BY <1>1, <1>2 DEF MatchInv, LedgerFollows, ReadLedger
<1> QED
  BY <1>1, <1>3 DEF MatchInv

\* A match begins with no game, every slot empty and no win.
LEMMA BeginInv ==
  ASSUME MatchInv, NEW a \in Nets, NEW b \in Nets, NEW base \in Nets, Begin(a, b, base)
  PROVE  MatchInv'
<1>1. /\ DOMAIN match' = Fields /\ match'.kind = "match"
      /\ match'.a = a /\ match'.b = b /\ match'.base = base /\ match'.held = ReadLedger
      /\ match'.anchored = IF a = base THEN b ELSE IF b = base THEN a ELSE "none"
      /\ match'.games = [g \in 1 .. MatchGames |-> Game(g)]
      /\ match'.next = 1 /\ match'.at = 1
      /\ match'.slots = [i \in 1 .. MatchSlots |-> NoSlot]
      /\ match'.pending = <<>> /\ match'.sides = <<>>
  BY DEF Begin, Fields
<1>2. /\ a # b /\ (base \in {a, b} \/ ScreenAllowed(ReadLedger, a, b, base))
      /\ tally' = [w \in {"a", "b"} |-> 0]
      /\ UNCHANGED <<ledger, measured>>
  BY DEF Begin
<1>3. \A g \in 1 .. MatchGames :
        /\ DOMAIN match'.games[g] = {"aSide", "plies", "result"}
        /\ match'.games[g].aSide = ASide(g) /\ match'.games[g].plies = 0
        /\ match'.games[g].result = "none"
  BY <1>1 DEF Game
<1>4. \A i \in 1 .. MatchSlots :
        /\ DOMAIN match'.slots[i] = {"game", "side", "answers", "busy"}
        /\ match'.slots[i].game = 0 /\ match'.slots[i].busy = FALSE
  BY <1>1 DEF NoSlot
<1>5. GamesFollow(match')
  BY <1>1, <1>3 DEF GamesFollow, GameOk
<1>6. SlotsFollow(match')
  <2>1. \A i \in 1 .. MatchSlots : SlotOk(match', match'.slots[i])
    <3> TAKE i \in 1 .. MatchSlots
    <3> DEFINE slot == match'.slots[i]
    <3>1. /\ DOMAIN slot = {"game", "side", "answers", "busy"} /\ slot.game = 0 /\ slot.busy = FALSE
      BY <1>4
    <3> HIDE DEF slot
    <3>2. slot.game \in 0 .. MatchGames /\ slot.game < match'.next /\ slot.busy \in BOOLEAN
      <4>1. match'.next = 1
        BY <1>1
      <4>2. slot.game < match'.next
        BY <3>1, <4>1
      <4>3. 0 \in 0 .. MatchGames
        BY Sizes
      <4>4. slot.busy \in BOOLEAN
        BY <3>1
      <4> QED
        BY <3>1, <4>2, <4>3, <4>4
    <3>3. SlotOk(match', slot)
      BY <3>1, <3>2 DEF SlotOk
    <3> QED
      BY <3>3 DEF slot
  <2> QED
    BY <1>1, <1>4, <2>1 DEF SlotsFollow
<1>7. PendingFollow(match')
  BY <1>1 DEF PendingFollow
<1>8. TallyFollows(match', tally')
  <2>1. \A w \in {"a", "b"} : EndedAs(match', w) = {}
    BY <1>3 DEF EndedAs
  <2>2. \A w \in {"a", "b"} : Cardinality(EndedAs(match', w)) = 0
    BY <2>1, FS_EmptySet
  <2> QED
    BY <2>2, <1>2 DEF TallyFollows
<1>9. ArmsFollow'
  <2>1. ReadLedger.anchors = measured /\ DOMAIN ReadLedger = {"file", "parents", "anchors"}
    BY DEF MatchInv, LedgerFollows, ReadLedger
  <2>2. match'.anchored = "none" => ScreenAllowed(match'.held, a, b, base)
    BY <1>1, <1>2, MatchAssumption
  <2>3. ScreenAllowed(match.held, match.a, match.b, match.base)'
          = ScreenAllowed(match'.held, a, b, base)
    BY <1>1 DEF ScreenAllowed, AnchorProblem, Fit
  <2> QED
    BY <1>1, <1>2, <2>1, <2>2, <2>3, MatchAssumption DEF ArmsFollow
<1>10. LedgerFollows'
  BY <1>2 DEF MatchInv, LedgerFollows
<1> QED
  BY <1>1, <1>5, <1>6, <1>7, <1>8, <1>9, <1>10 DEF MatchInv, InMatch

\* What a step of the match leaves alone stays as it was.
LEMMA ArmsKept ==
  ASSUME ArmsFollow, LedgerFollows, UNCHANGED <<ledger, measured>>,
         match'.a = match.a, match'.b = match.b, match'.base = match.base,
         match'.held = match.held, match'.anchored = match.anchored
  PROVE  ArmsFollow' /\ LedgerFollows'
  BY DEF ArmsFollow, LedgerFollows, ScreenAllowed, AnchorProblem, Fit

\* The records of the games are what the slots and the tally are about.
LEMMA SlotKept ==
  ASSUME NEW m, NEW n, NEW slot, SlotOk(m, slot), n.games = m.games,
         m.next \in Nat, n.next \in Nat, n.next >= m.next
  PROVE  SlotOk(n, slot)
  BY DEF SlotOk, OwnAnswer

\* A slot takes the next game, or goes on with the one it has.
LEMMA FillSlotInv ==
  ASSUME MatchInv, FillSlot
  PROVE  MatchInv'
<1> DEFINE i == match.at
           g == IF GameOver(This.game) THEN match.next ELSE This.game
           filled == [game |-> g, side |-> MoverCheckpoint(match.games[g]),
                      answers |-> <<>>, busy |-> TRUE]
<1>1. /\ InMatch /\ GamesFollow(match) /\ SlotsFollow(match) /\ PendingFollow(match)
      /\ TallyFollows(match, tally) /\ ArmsFollow /\ LedgerFollows
  BY DEF MatchInv, FillSlot, Playing, NoMatch
<1>2. /\ i \in 1 .. MatchSlots /\ match.sides = <<>>
      /\ UNCHANGED <<ledger, programs, tally, measured>>
  BY <1>1, MatchAssumption DEF FillSlot, Playing, GamesFollow
<1>3. match.slots[i].busy = FALSE /\ SlotOk(match, match.slots[i]) /\ This = match.slots[i]
  BY <1>1, <1>2 DEF FillSlot, This, SlotsFollow, SlotOk
<1>4. /\ g \in Nat \ {0} /\ g <= match.next /\ match.next \in Nat \ {0}
      /\ g = match.next \/ (g = match.slots[i].game /\ ~GameOver(This.game))
  BY <1>1, <1>2, <1>3, MatchAssumption DEF GameOver, GamesFollow, SlotOk
<1>5. g <= MatchGames => match.games[g].result = "none"
  <2>1. CASE GameOver(This.game)
    BY <2>1, <1>1, <1>4, MatchAssumption DEF GamesFollow, GameOk
  <2>2. CASE ~GameOver(This.game)
    BY <2>2 DEF GameOver
  <2> QED
    BY <2>1, <2>2
<1>6. CASE g > MatchGames
  <2>1. match' = [match EXCEPT !.at = @ + 1]
    BY <1>6 DEF FillSlot
  <2>2. /\ DOMAIN match' = Fields /\ match'.kind = match.kind
        /\ match'.a = match.a /\ match'.b = match.b /\ match'.base = match.base
        /\ match'.held = match.held /\ match'.anchored = match.anchored
        /\ match'.games = match.games /\ match'.next = match.next /\ match'.slots = match.slots
        /\ match'.pending = match.pending /\ match'.sides = match.sides /\ match'.at = match.at + 1
    BY <2>1, <1>1 DEF GamesFollow, Fields
  <2>3. GamesFollow(match')
    BY <2>2, <1>1 DEF GamesFollow, GameOk
  <2>4. SlotsFollow(match')
    BY <2>2, <1>1, <1>4, SlotKept DEF SlotsFollow
  <2>5. PendingFollow(match') /\ TallyFollows(match', tally')
    BY <2>2, <1>1, <1>2 DEF PendingFollow, Awaits, TallyFollows, EndedAs
  <2> QED
    BY <2>2, <2>3, <2>4, <2>5, <1>1, <1>2, ArmsKept DEF MatchInv, InMatch
<1>7. CASE ~(g > MatchGames)
  <2>1. match' = [match EXCEPT !.next = IF GameOver(This.game) THEN @ + 1 ELSE @,
                               !.slots[match.at] = filled]
    BY <1>7 DEF FillSlot
  <2>2. /\ DOMAIN match' = Fields /\ match'.kind = match.kind
        /\ match'.a = match.a /\ match'.b = match.b /\ match'.base = match.base
        /\ match'.held = match.held /\ match'.anchored = match.anchored
        /\ match'.games = match.games /\ match'.at = match.at
        /\ match'.next = (IF GameOver(This.game) THEN match.next + 1 ELSE match.next)
        /\ match'.slots = [match.slots EXCEPT ![i] = filled]
        /\ match'.pending = match.pending /\ match'.sides = match.sides
    BY <2>1, <1>1 DEF GamesFollow, Fields
  <2>3. /\ DOMAIN filled = {"game", "side", "answers", "busy"} /\ filled.game = g
        /\ filled.side = MoverCheckpoint(match.games[g]) /\ filled.answers = <<>>
        /\ filled.busy = TRUE
    OBVIOUS
  <2>4. /\ match'.next \in Nat \ {0} /\ match'.next >= match.next
        /\ g < match'.next
        /\ g = match.next \/ g = match.slots[i].game
    <3>1. CASE GameOver(This.game)
      BY <3>1, <2>2, <1>4
    <3>2. CASE ~GameOver(This.game)
      BY <3>2, <2>2, <1>3, <1>4 DEF SlotOk
    <3> QED
      BY <3>1, <3>2
  <2>5. /\ DOMAIN match'.slots = 1 .. MatchSlots
        /\ match'.slots[i] = filled
        /\ \A j \in 1 .. MatchSlots : j # i => match'.slots[j] = match.slots[j]
    BY <2>2, <1>1, <1>2 DEF SlotsFollow
  <2> HIDE DEF filled, g, i
  <2>6. GamesFollow(match')
    BY <2>2, <2>4, <1>1 DEF GamesFollow, GameOk
  <2>7. SlotsFollow(match')
    <3>1. SlotOk(match', filled)
      <4>1. g \in 0 .. MatchGames /\ g # 0 /\ match.games[g].result = "none"
        BY <1>4, <1>5, <1>7, Sizes
      <4>2. filled.answers \in {<<>>, OwnAnswer(match', filled)}
        BY <2>3
      <4> QED
        BY <4>1, <4>2, <2>2, <2>3, <2>4 DEF SlotOk
    <3>2. \A j \in 1 .. MatchSlots : j # i => SlotOk(match', match'.slots[j])
      BY <2>2, <2>4, <2>5, <1>1, <1>4, SlotKept DEF SlotsFollow
    <3>3. \A j \in 1 .. MatchSlots : j # i => match.slots[j].game # g
      <4>1. \A j \in 1 .. MatchSlots : match.slots[j].game < match.next /\ match.slots[j].game \in Nat
        BY <1>1, MatchAssumption DEF SlotsFollow, SlotOk
      <4> QED
        BY <4>1, <2>4, <1>1, <1>2, <1>4 DEF SlotsFollow
    <3>4. \A j, k \in 1 .. MatchSlots :
            j # k /\ match'.slots[j].game # 0 => match'.slots[k].game # match'.slots[j].game
      BY <3>3, <2>3, <2>5, <1>1, <1>2 DEF SlotsFollow
    <3> QED
      BY <3>1, <3>2, <3>4, <2>5 DEF SlotsFollow
  <2>8. PendingFollow(match')
    BY <2>2, <2>5, <1>1, <1>2, <1>3 DEF PendingFollow, Awaits
  <2>9. TallyFollows(match', tally')
    BY <2>2, <1>1, <1>2 DEF TallyFollows, EndedAs
  <2> QED
    BY <2>2, <2>6, <2>7, <2>8, <2>9, <1>1, <1>2, ArmsKept DEF MatchInv, InMatch
<1> QED
  BY <1>6, <1>7

\* A step that only moves the batch along.
LEMMA BatchMoves ==
  ASSUME MatchInv, InMatch, UNCHANGED <<ledger, tally, measured>>,
         DOMAIN match' = Fields, match'.kind = match.kind,
         match'.a = match.a, match'.b = match.b, match'.base = match.base,
         match'.held = match.held, match'.anchored = match.anchored,
         match'.games = match.games, match'.next = match.next,
         match'.at \in Nat \ {0}, SlotsFollow(match'), PendingFollow(match')
  PROVE  MatchInv'
<1>1. /\ GamesFollow(match) /\ TallyFollows(match, tally) /\ ArmsFollow /\ LedgerFollows
  BY DEF MatchInv, InMatch, NoMatch
<1>2. GamesFollow(match')
  BY <1>1 DEF GamesFollow, GameOk
<1>3. TallyFollows(match', tally')
  BY <1>1 DEF TallyFollows, EndedAs
<1>4. ArmsFollow' /\ LedgerFollows'
  BY <1>1, ArmsKept
<1> QED
  BY <1>2, <1>3, <1>4 DEF MatchInv, InMatch

\* A busy slot that has no answer yet joins the batch.
LEMMA PendSlotInv ==
  ASSUME MatchInv, PendSlot
  PROVE  MatchInv'
<1> DEFINE i == match.at
<1>1. /\ InMatch /\ GamesFollow(match) /\ SlotsFollow(match) /\ PendingFollow(match)
  BY DEF MatchInv, PendSlot, Playing, NoMatch
<1>2. /\ i \in 1 .. MatchSlots /\ match.sides = <<>>
      /\ match.slots[i].busy /\ match.slots[i].answers = <<>>
      /\ UNCHANGED <<ledger, tally, measured>>
  BY <1>1, Sizes DEF PendSlot, Playing, This, GamesFollow
<1>3. match' = [match EXCEPT !.pending = Append(@, match.at), !.at = @ + 1,
                             !.sides = IF match.at = MatchSlots THEN <<"a", "b">> ELSE <<>>]
  BY DEF PendSlot
<1>4. /\ DOMAIN match' = Fields /\ match'.kind = match.kind
      /\ match'.a = match.a /\ match'.b = match.b /\ match'.base = match.base
      /\ match'.held = match.held /\ match'.anchored = match.anchored
      /\ match'.games = match.games /\ match'.next = match.next /\ match'.slots = match.slots
      /\ match'.pending = Append(match.pending, i) /\ match'.at = match.at + 1
      /\ match'.sides = (IF match.at = MatchSlots THEN <<"a", "b">> ELSE <<>>)
  BY <1>3, <1>1 DEF GamesFollow, Fields
<1>5. SlotsFollow(match')
  BY <1>4, <1>1, SlotKept DEF SlotsFollow, GamesFollow
<1>6. PendingFollow(match')
  <2>1. match.pending \in Seq(1 .. MatchSlots) /\ Len(match.pending) \in Nat
    BY <1>1 DEF PendingFollow
  <2>2. /\ match'.pending \in Seq(1 .. MatchSlots)
        /\ DOMAIN match'.pending = 1 .. Len(match.pending) + 1
        /\ match'.pending[Len(match.pending) + 1] = i
        /\ \A k \in 1 .. Len(match.pending) : match'.pending[k] = match.pending[k]
    <3>1. match'.pending = Append(match.pending, i)
      BY <1>4
    <3> HIDE DEF i
    <3> QED
      BY <3>1, <2>1, <1>2
  <2>3. \A k \in 1 .. Len(match.pending) :
          match.slots[match.pending[k]].busy /\ match.slots[match.pending[k]].answers = <<>>
    BY <2>1, <1>1, <1>2 DEF PendingFollow, Awaits
  <2>4. \A k \in DOMAIN match'.pending :
          match.slots[match'.pending[k]].busy /\ match.slots[match'.pending[k]].answers = <<>>
    <3> TAKE k \in DOMAIN match'.pending
    <3>1. k \in 1 .. Len(match.pending) \/ k = Len(match.pending) + 1
      BY <2>1, <2>2
    <3> QED
      BY <3>1, <2>2, <2>3, <1>2
  <2>5. match'.sides \in {<<>>, <<"a", "b">>, <<"b">>}
    BY <1>4
  <2> QED
    BY <2>2, <2>4, <2>5, <1>4 DEF PendingFollow, Awaits
<1>7. match'.at \in Nat \ {0}
  BY <1>4, <1>1 DEF GamesFollow
<1> QED
  BY <1>1, <1>2, <1>4, <1>5, <1>6, <1>7, BatchMoves

\* All slots have been seen: both networks are to be asked.
LEMMA EndScanInv ==
  ASSUME MatchInv, EndScan
  PROVE  MatchInv'
<1>1. /\ InMatch /\ GamesFollow(match) /\ SlotsFollow(match) /\ PendingFollow(match)
  BY DEF MatchInv, EndScan, NoMatch
<1>2. /\ match.sides = <<>> /\ match' = [match EXCEPT !.sides = <<"a", "b">>]
      /\ UNCHANGED <<ledger, tally, measured>>
  BY DEF EndScan
<1>3. /\ DOMAIN match' = Fields /\ match'.kind = match.kind
      /\ match'.a = match.a /\ match'.b = match.b /\ match'.base = match.base
      /\ match'.held = match.held /\ match'.anchored = match.anchored
      /\ match'.games = match.games /\ match'.next = match.next /\ match'.slots = match.slots
      /\ match'.pending = match.pending /\ match'.at = match.at /\ match'.sides = <<"a", "b">>
  BY <1>2, <1>1 DEF GamesFollow, Fields
<1>4. SlotsFollow(match')
  BY <1>3, <1>1, SlotKept DEF SlotsFollow, GamesFollow
<1>5. PendingFollow(match')
  BY <1>1, <1>2, <1>3 DEF PendingFollow, Awaits
<1>6. match'.at \in Nat \ {0}
  BY <1>3, <1>1 DEF GamesFollow
<1> QED
  BY <1>1, <1>2, <1>3, <1>4, <1>5, <1>6, BatchMoves

\* The answer a slot is given is to its own leaf, from the side it was filed under.
LEMMA AnswersAreOwn ==
  ASSUME MatchInv, InferSide, NEW i \in 1 .. MatchSlots
  PROVE  LET side == Head(match.sides)
             n == match'.slots[i]
         IN IF \E k \in Group(side) : match.pending[k] = i
            THEN n = [match.slots[i] EXCEPT !.answers = OwnAnswer(match, match.slots[i])]
                 /\ match.slots[i].side = side /\ match.slots[i].busy
            ELSE n = match.slots[i]
<1> DEFINE side == Head(match.sides)
           group == Group(side)
           sub == SubBatch(group)
           at == CHOOSE k \in group : match.pending[k] = i
<1>1. /\ InMatch /\ GamesFollow(match) /\ SlotsFollow(match) /\ PendingFollow(match)
  BY DEF MatchInv, InferSide, NoMatch
<1>2. match'.slots[i] =
        IF \E k \in group : match.pending[k] = i
        THEN [match.slots[i] EXCEPT !.answers = Append(@, [net |-> side, leaf |-> sub[Row(group, at)]])]
        ELSE match.slots[i]
  <2>1. match'.slots = [j \in 1 .. MatchSlots |->
          IF \E k \in group : match.pending[k] = j
          THEN [match.slots[j] EXCEPT !.answers =
                  Append(@, [net |-> side,
                             leaf |-> sub[Row(group, CHOOSE k \in group : match.pending[k] = j)]])]
          ELSE match.slots[j]]
    BY <1>1 DEF InferSide, GamesFollow, Fields
  <2> HIDE DEF side, group, sub
  <2> QED
    BY <2>1
<1>3. CASE \E k \in group : match.pending[k] = i
  <2>1. at \in group /\ match.pending[at] = i
    BY <1>3
  <2>2. match.slots[i].side = side /\ match.slots[i].busy /\ match.slots[i].answers = <<>>
    <3>1. match.sides # <<>>
      BY DEF InferSide
    <3>2. match.sides # <<"b">> \/ side = "b"
      OBVIOUS
    <3>3. at \in DOMAIN match.pending /\ match.slots[match.pending[at]].side = side
      BY <2>1 DEF Group
    <3> HIDE DEF side, group, sub, at
    <3> QED
      BY <2>1, <3>2, <3>3, <1>1 DEF PendingFollow, Awaits
  <2>3. IsFiniteSet(group) /\ group \subseteq Nat
    <3>1. match.pending \in Seq(1 .. MatchSlots)
      BY <1>1 DEF PendingFollow
    <3>2. Len(match.pending) \in Nat /\ DOMAIN match.pending = 1 .. Len(match.pending)
      BY <3>1
    <3>3. group \in SUBSET (1 .. Len(match.pending))
      BY <3>2 DEF Group
    <3> DEFINE all == 1 .. Len(match.pending)
    <3>4. IsFiniteSet(all) /\ all \subseteq Nat
      BY <3>2, FS_Interval
    <3> HIDE DEF group, all
    <3>5. IsFiniteSet(group)
      BY <3>3, <3>4, FS_Subset DEF all
    <3> QED
      BY <3>3, <3>4, <3>5 DEF all
  <2>4. Row(group, at) \in 1 .. Cardinality(group) /\ Repacked(group, Row(group, at)) = at
    BY <2>1, <2>3, RowsRepacked
  <2>5. sub[Row(group, at)] = LeafIn(match.slots[i])
    BY <2>1, <2>4 DEF SubBatch
  <2>6. LeafIn(match.slots[i]) = <<match.slots[i].game, match.games[match.slots[i].game].plies>>
    BY DEF LeafIn
  <2> HIDE DEF side, group, sub, at
  <2>7. match'.slots[i] = [match.slots[i] EXCEPT !.answers =
                             Append(@, [net |-> side, leaf |-> sub[Row(group, at)]])]
    BY <1>2, <1>3
  <2>8. Append(match.slots[i].answers, [net |-> side, leaf |-> sub[Row(group, at)]])
          = OwnAnswer(match, match.slots[i])
    BY <2>2, <2>5, <2>6 DEF OwnAnswer
  <2>9. match'.slots[i] = [match.slots[i] EXCEPT !.answers = OwnAnswer(match, match.slots[i])]
    BY <2>7, <2>8
  <2> QED
    BY <1>3, <2>2, <2>9 DEF side, group
<1>4. CASE ~\E k \in group : match.pending[k] = i
  BY <1>2, <1>4
<1> QED
  BY <1>3, <1>4

\* One network's sub-batch comes back, and each slot is given its own row.
LEMMA InferSideInv ==
  ASSUME MatchInv, InferSide
  PROVE  MatchInv'
<1> DEFINE side == Head(match.sides)
           last == Len(match.sides) = 1
<1>1. /\ InMatch /\ GamesFollow(match) /\ SlotsFollow(match) /\ PendingFollow(match)
  BY DEF MatchInv, InferSide, NoMatch
<1>2. UNCHANGED <<ledger, tally, measured>>
  BY DEF InferSide
<1>3. \/ /\ match.sides = <<"a", "b">> /\ side = "a" /\ ~last /\ Tail(match.sides) = <<"b">>
      \/ /\ match.sides = <<"b">> /\ side = "b" /\ last /\ Tail(match.sides) = <<>>
  <2>1. match.sides = <<"a", "b">> \/ match.sides = <<"b">>
    BY <1>1 DEF InferSide, PendingFollow
  <2>2. /\ Head(<<"a", "b">>) = "a" /\ Len(<<"a", "b">>) = 2 /\ Tail(<<"a", "b">>) = <<"b">>
        /\ Head(<<"b">>) = "b" /\ Len(<<"b">>) = 1 /\ Tail(<<"b">>) = <<>>
    OBVIOUS
  <2>3. CASE match.sides = <<"a", "b">>
    BY <2>2, <2>3
  <2>4. CASE match.sides = <<"b">>
    BY <2>2, <2>4
  <2> QED
    BY <2>1, <2>3, <2>4
<1>4. /\ DOMAIN match' = Fields /\ match'.kind = match.kind
      /\ match'.a = match.a /\ match'.b = match.b /\ match'.base = match.base
      /\ match'.held = match.held /\ match'.anchored = match.anchored
      /\ match'.games = match.games /\ match'.next = match.next
      /\ match'.sides = Tail(match.sides)
      /\ match'.pending = (IF last THEN <<>> ELSE match.pending)
      /\ match'.at = (IF last THEN 1 ELSE match.at)
      /\ DOMAIN match'.slots = 1 .. MatchSlots
  BY <1>1 DEF InferSide, GamesFollow, Fields
<1>5. \A i \in 1 .. MatchSlots :
        /\ DOMAIN match'.slots[i] = DOMAIN match.slots[i]
        /\ match'.slots[i].game = match.slots[i].game
        /\ match'.slots[i].side = match.slots[i].side
        /\ match'.slots[i].busy = match.slots[i].busy
        /\ match'.slots[i].answers \in {match.slots[i].answers, OwnAnswer(match, match.slots[i])}
        /\ match.slots[i].side # side => match'.slots[i] = match.slots[i]
  <2> TAKE i \in 1 .. MatchSlots
  <2>1. DOMAIN match.slots[i] = {"game", "side", "answers", "busy"}
    BY <1>1 DEF SlotsFollow, SlotOk
  <2> DEFINE served == \E k \in Group(side) : match.pending[k] = i
  <2>2. CASE served
    <3>1. match'.slots[i] = [match.slots[i] EXCEPT !.answers = OwnAnswer(match, match.slots[i])]
          /\ match.slots[i].side = side
      BY <2>2, AnswersAreOwn
    <3> HIDE DEF served, side
    <3> QED
      BY <3>1, <2>1
  <2>3. CASE ~served
    <3>1. match'.slots[i] = match.slots[i]
      BY <2>3, AnswersAreOwn
    <3> HIDE DEF served, side
    <3> QED
      BY <3>1
  <2> QED
    BY <2>2, <2>3
<1>6. SlotsFollow(match')
  <2>1. ASSUME NEW i \in 1 .. MatchSlots
        PROVE  SlotOk(match', match'.slots[i])
    <3>1. SlotOk(match, match.slots[i])
      BY <1>1 DEF SlotsFollow
    <3>2. OwnAnswer(match', match'.slots[i]) = OwnAnswer(match, match.slots[i])
      BY <1>4, <1>5 DEF OwnAnswer
    <3>3. match.slots[i].busy => match'.slots[i].answers \in {<<>>, OwnAnswer(match', match'.slots[i])}
      BY <3>1, <3>2, <1>5 DEF SlotOk
    <3> QED
      BY <3>1, <3>3, <1>4, <1>5 DEF SlotOk
  <2>2. \A i, j \in 1 .. MatchSlots :
          i # j /\ match'.slots[i].game # 0 => match'.slots[j].game # match'.slots[i].game
    BY <1>1, <1>5 DEF SlotsFollow
  <2> QED
    BY <2>1, <2>2, <1>4 DEF SlotsFollow
<1>7. PendingFollow(match')
  <2>1. CASE last
    BY <2>1, <1>3, <1>4 DEF PendingFollow
  <2>2. CASE ~last
    <3>1. match.sides = <<"a", "b">> /\ side = "a" /\ match'.sides = <<"b">> /\ match'.pending = match.pending
      BY <2>2, <1>3, <1>4
    <3>2. ASSUME NEW k \in DOMAIN match.pending
          PROVE  Awaits(match', match'.slots[match.pending[k]])
      <4>1. match.pending[k] \in 1 .. MatchSlots
        <5>1. match.pending \in Seq(1 .. MatchSlots)
          BY <1>1 DEF PendingFollow
        <5>2. \A S : \A q \in Seq(S) : \A x \in DOMAIN q : q[x] \in S
          OBVIOUS
        <5> QED
          BY <5>1, <5>2
      <4>2. match.slots[match.pending[k]].busy /\ match.slots[match.pending[k]].answers = <<>>
        BY <1>1, <3>1 DEF PendingFollow, Awaits
      <4>3. match'.slots[match.pending[k]].busy
        BY <4>1, <4>2, <1>5
      <4>4. match'.slots[match.pending[k]].side = "b" => match'.slots[match.pending[k]].answers = <<>>
        BY <4>1, <4>2, <1>5, <3>1
      <4> QED
        BY <3>1, <4>3, <4>4 DEF Awaits
    <3> QED
      BY <3>1, <3>2, <1>1 DEF PendingFollow
  <2> QED
    BY <2>1, <2>2
<1>8. match'.at \in Nat \ {0}
  BY <1>1, <1>4 DEF GamesFollow
<1> QED
  BY <1>1, <1>2, <1>4, <1>6, <1>7, <1>8, BatchMoves

\* A game that ends is one more for the network that won it.
LEMMA OneMoreWin ==
  ASSUME NEW m, NEW n, NEW g \in 1 .. MatchGames, m.games[g].result = "none",
         \A h \in 1 .. MatchGames : h # g => n.games[h].result = m.games[h].result,
         NEW w \in {"a", "b"}
  PROVE  Cardinality(EndedAs(n, w))
           = Cardinality(EndedAs(m, w)) + IF n.games[g].result = w THEN 1 ELSE 0
<1> DEFINE before == EndedAs(m, w)
<1>1. g \notin before /\ before \in SUBSET (1 .. MatchGames)
  BY DEF EndedAs
<1>2. IsFiniteSet(before) /\ Cardinality(before) \in Nat
  <2>1. IsFiniteSet(1 .. MatchGames)
    <3>1. 1 \in Int /\ MatchGames \in Int
      BY Sizes
    <3> QED
      BY <3>1, FS_Interval
  <2> HIDE DEF before
  <2> QED
    BY <1>1, <2>1, FS_Subset, FS_CardinalityType
<1>3. EndedAs(n, w) = before \cup (IF n.games[g].result = w THEN {g} ELSE {})
  BY DEF EndedAs
<1> HIDE DEF before
<1>4. CASE n.games[g].result = w
  <2>1. Cardinality(before \cup {g}) = Cardinality(before) + 1
    BY <1>1, <1>2, FS_AddElement
  <2> QED
    BY <2>1, <1>3, <1>4 DEF before
<1>5. CASE n.games[g].result # w
  <2>1. EndedAs(n, w) = before
    BY <1>3, <1>5
  <2> QED
    BY <2>1, <1>2, <1>5 DEF before
<1> QED
  BY <1>4, <1>5

\* The winner of a game, by network and by colour.
LEMMA WinnersAgree ==
  ASSUME NEW g \in Nat, NEW game, game.aSide = ASide(g), NEW winner \in {Turn(game), "draw"}
  PROVE  /\ Won(game, winner) \in {"a", "b", "draw"}
         /\ \A w \in {"a", "b"} :
              Won(game, winner) = w <=> winner = (IF w = "a" THEN ASide(g) ELSE ASide(g + 1))
<1>1. /\ ASide(g) \in {"A", "B"} /\ ASide(g + 1) \in {"A", "B"} /\ ASide(g) # ASide(g + 1)
  BY DEF ASide
<1>2. winner \in {"A", "B", "draw"}
  BY DEF Turn
<1> QED
  BY <1>1, <1>2 DEF Won

\* A search ends: one game goes on by a ply, or is over and counted.
LEMMA FinishSearchInv ==
  ASSUME MatchInv, FinishSearch
  PROVE  MatchInv'
<1> DEFINE i == match.at
           g == match.slots[i].game
           game == match.games[g]
           moved(rec) ==
             /\ DOMAIN match' = Fields /\ match'.kind = match.kind
             /\ match'.a = match.a /\ match'.b = match.b /\ match'.base = match.base
             /\ match'.held = match.held /\ match'.anchored = match.anchored
             /\ match'.next = match.next /\ match'.sides = match.sides
             /\ match'.pending = match.pending /\ match'.at = match.at
             /\ match'.slots = [match.slots EXCEPT ![i] = [@ EXCEPT !.busy = FALSE]]
             /\ match'.games = [match.games EXCEPT ![g] = rec]
<1>1. /\ InMatch /\ GamesFollow(match) /\ SlotsFollow(match) /\ PendingFollow(match)
      /\ TallyFollows(match, tally) /\ ArmsFollow /\ LedgerFollows
  BY DEF MatchInv, FinishSearch, Playing, NoMatch
<1>2. /\ i \in 1 .. MatchSlots /\ match.sides = <<>> /\ This = match.slots[i]
      /\ match.slots[i].busy /\ match.slots[i].answers # <<>>
      /\ UNCHANGED <<ledger, measured>>
  BY <1>1, Sizes DEF FinishSearch, Playing, This, GamesFollow
<1>3. /\ g \in 1 .. MatchGames /\ game.result = "none" /\ g < match.next
      /\ DOMAIN match.slots[i] = {"game", "side", "answers", "busy"}
  <2>1. SlotOk(match, match.slots[i])
    BY <1>1, <1>2 DEF SlotsFollow
  <2> QED
    BY <2>1, <1>2, Sizes DEF SlotOk
<1>4. GameOk(match, g) /\ DOMAIN match.games = 1 .. MatchGames
      /\ DOMAIN match.slots = 1 .. MatchSlots /\ match.next \in Nat \ {0} /\ match.at \in Nat \ {0}
  BY <1>1, <1>3 DEF GamesFollow, SlotsFollow
<1>5. PICK rec :
        /\ moved(rec)
        /\ DOMAIN rec = {"aSide", "plies", "result"}
        /\ rec.aSide = game.aSide /\ rec.plies = game.plies + 1
        /\ rec.result \in {"none", "a", "b", "draw"}
        /\ DOMAIN tally' = {"a", "b"}
        /\ \A w \in {"a", "b"} : tally'[w] = tally[w] + (IF rec.result = w THEN 1 ELSE 0)
  <2>1. DOMAIN game = {"aSide", "plies", "result"} /\ game.aSide = ASide(g)
    BY <1>4 DEF GameOk
  <2>2. CASE \E winner \in {Turn(game), "draw"} :
               /\ match' = [match EXCEPT !.slots[match.at].busy = FALSE,
                     !.games[g] = [game EXCEPT !.plies = @ + 1, !.result = Won(game, winner)]]
               /\ tally' = [w \in {"a", "b"} |->
                    tally[w] + (IF winner = (IF w = "a" THEN ASide(g) ELSE ASide(g + 1)) THEN 1 ELSE 0)]
    <3>1. PICK winner \in {Turn(game), "draw"} :
               /\ match' = [match EXCEPT !.slots[match.at].busy = FALSE,
                     !.games[g] = [game EXCEPT !.plies = @ + 1, !.result = Won(game, winner)]]
               /\ tally' = [w \in {"a", "b"} |->
                    tally[w] + (IF winner = (IF w = "a" THEN ASide(g) ELSE ASide(g + 1)) THEN 1 ELSE 0)]
      BY <2>2
    <3>2. g \in Nat
      BY <1>3, Sizes
    <3>3. /\ Won(game, winner) \in {"a", "b", "draw"}
          /\ \A w \in {"a", "b"} :
               Won(game, winner) = w <=> winner = (IF w = "a" THEN ASide(g) ELSE ASide(g + 1))
      <4> HIDE DEF game, g
      <4> QED
        BY <3>2, <2>1, WinnersAgree
    <3> DEFINE rec == [game EXCEPT !.plies = @ + 1, !.result = Won(game, winner)]
    <3>4. /\ DOMAIN rec = {"aSide", "plies", "result"}
          /\ rec.aSide = game.aSide /\ rec.plies = game.plies + 1 /\ rec.result = Won(game, winner)
      <4> HIDE DEF game
      <4> QED
        BY <2>1
    <3>5. moved(rec)
      <4>1. DOMAIN match = Fields
        BY <1>1 DEF GamesFollow
      <4>2. match' = [match EXCEPT !.slots[match.at].busy = FALSE,
                     !.games[g] = [game EXCEPT !.plies = @ + 1, !.result = Won(game, winner)]]
        BY <3>1
      <4>3. match'.games = [match.games EXCEPT ![g] = rec]
        BY <4>1, <4>2 DEF Fields
      <4>4. match'.slots = [match.slots EXCEPT ![i] = [@ EXCEPT !.busy = FALSE]]
        BY <4>1, <4>2 DEF Fields
      <4>5. /\ DOMAIN match' = Fields /\ match'.kind = match.kind
            /\ match'.a = match.a /\ match'.b = match.b /\ match'.base = match.base
            /\ match'.held = match.held /\ match'.anchored = match.anchored
            /\ match'.next = match.next /\ match'.sides = match.sides
            /\ match'.pending = match.pending /\ match'.at = match.at
        BY <4>1, <4>2 DEF Fields
      <4> QED
        BY <4>3, <4>4, <4>5
    <3>6. /\ DOMAIN tally' = {"a", "b"}
          /\ \A w \in {"a", "b"} : tally'[w] = tally[w] + (IF rec.result = w THEN 1 ELSE 0)
      <4> HIDE DEF rec, game, g
      <4> QED
        BY <3>1, <3>3, <3>4
    <3> HIDE DEF rec
    <3> QED
      BY <3>3, <3>4, <3>5, <3>6
  <2>3. CASE /\ match' = [match EXCEPT !.slots[match.at].busy = FALSE, !.games[g].plies = @ + 1]
             /\ UNCHANGED tally
    <3> DEFINE rec == [game EXCEPT !.plies = @ + 1]
    <3>1. /\ DOMAIN rec = {"aSide", "plies", "result"}
          /\ rec.aSide = game.aSide /\ rec.plies = game.plies + 1 /\ rec.result = "none"
      <4>1. game.result = "none"
        BY <1>3
      <4> HIDE DEF game
      <4> QED
        BY <2>1, <4>1
    <3>2. moved(rec)
      BY <2>3, <1>1 DEF GamesFollow, Fields
    <3>3. \A w \in {"a", "b"} : tally[w] \in Nat
      <4>1. IsFiniteSet(1 .. MatchGames)
        <5>1. 1 \in Int /\ MatchGames \in Int
          BY Sizes
        <5> QED
          BY <5>1, FS_Interval
      <4>2. \A w \in {"a", "b"} : Cardinality(EndedAs(match, w)) \in Nat
        <5> TAKE w \in {"a", "b"}
        <5> DEFINE won == EndedAs(match, w)
        <5>1. won \in SUBSET (1 .. MatchGames)
          BY DEF EndedAs
        <5> HIDE DEF won
        <5>2. Cardinality(won) \in Nat
          BY <4>1, <5>1, FS_Subset, FS_CardinalityType
        <5> QED
          BY <5>2 DEF won
      <4> QED
        BY <4>2, <1>1 DEF TallyFollows
    <3>4. /\ DOMAIN tally' = {"a", "b"}
          /\ \A w \in {"a", "b"} : tally'[w] = tally[w] + (IF rec.result = w THEN 1 ELSE 0)
      <4>1. DOMAIN tally = {"a", "b"}
        BY <1>1 DEF TallyFollows
      <4>2. tally' = tally
        BY <2>3
      <4>3. ASSUME NEW w \in {"a", "b"}
            PROVE  rec.result # w
        <5> HIDE DEF rec
        <5> QED
          BY <3>1
      <4> HIDE DEF rec
      <4> QED
        BY <4>1, <4>2, <4>3, <3>3
    <3> HIDE DEF rec
    <3> QED
      BY <3>1, <3>2, <3>4
  <2>4. \/ \E winner \in {Turn(game), "draw"} :
               /\ match' = [match EXCEPT !.slots[match.at].busy = FALSE,
                     !.games[g] = [game EXCEPT !.plies = @ + 1, !.result = Won(game, winner)]]
               /\ tally' = [w \in {"a", "b"} |->
                    tally[w] + (IF winner = (IF w = "a" THEN ASide(g) ELSE ASide(g + 1)) THEN 1 ELSE 0)]
        \/ /\ match' = [match EXCEPT !.slots[match.at].busy = FALSE, !.games[g].plies = @ + 1]
           /\ UNCHANGED tally
    BY Zenon DEF FinishSearch, This
  <2> QED
    BY <2>2, <2>3, <2>4
<1>6. moved(rec)
  BY <1>5
<1> HIDE DEF i, g
<1>7. /\ DOMAIN match'.slots = 1 .. MatchSlots /\ DOMAIN match'.games = 1 .. MatchGames
      /\ \A j \in 1 .. MatchSlots : j # i => match'.slots[j] = match.slots[j]
      /\ \A h \in 1 .. MatchGames : h # g => match'.games[h] = match.games[h]
      /\ match'.slots[i].busy = FALSE /\ match'.slots[i].game = match.slots[i].game
      /\ DOMAIN match'.slots[i] = {"game", "side", "answers", "busy"}
      /\ match'.games[g] = rec
  <2>1. match'.slots = [match.slots EXCEPT ![i] = [@ EXCEPT !.busy = FALSE]]
        /\ match'.games = [match.games EXCEPT ![g] = rec]
    BY <1>6
  <2>2. /\ DOMAIN match'.slots = 1 .. MatchSlots
        /\ \A j \in 1 .. MatchSlots : j # i => match'.slots[j] = match.slots[j]
        /\ match'.slots[i] = [match.slots[i] EXCEPT !.busy = FALSE]
    BY <2>1, <1>2, <1>4
  <2>3. /\ DOMAIN match'.games = 1 .. MatchGames
        /\ \A h \in 1 .. MatchGames : h # g => match'.games[h] = match.games[h]
        /\ match'.games[g] = rec
    BY <2>1, <1>3, <1>4
  <2>4. /\ match'.slots[i].busy = FALSE /\ match'.slots[i].game = match.slots[i].game
        /\ DOMAIN match'.slots[i] = {"game", "side", "answers", "busy"}
    BY <2>2, <1>3
  <2> QED
    BY <2>2, <2>3, <2>4
<1>8. GamesFollow(match')
  <2>1. GameOk(match', g)
    BY <1>3, <1>4, <1>5, <1>6, <1>7 DEF GameOk
  <2>2. \A h \in 1 .. MatchGames : h # g => GameOk(match', h)
    BY <1>1, <1>6, <1>7 DEF GamesFollow, GameOk
  <2> QED
    BY <2>1, <2>2, <1>4, <1>6, <1>7 DEF GamesFollow
<1>9. SlotsFollow(match')
  <2>1. SlotOk(match', match'.slots[i])
    <3>1. SlotOk(match, match.slots[i])
      BY <1>1, <1>2 DEF SlotsFollow
    <3> QED
      BY <3>1, <1>6, <1>7 DEF SlotOk
  <2>2. ASSUME NEW j \in 1 .. MatchSlots, j # i
        PROVE  SlotOk(match', match'.slots[j])
    <3>1. SlotOk(match, match.slots[j]) /\ match.slots[j].game # g
      BY <2>2, <1>1, <1>2, <1>3 DEF SlotsFollow, g
    <3>2. match.slots[j].busy => match'.games[match.slots[j].game] = match.games[match.slots[j].game]
      BY <3>1, <1>7, Sizes DEF SlotOk
    <3> QED
      BY <2>2, <3>1, <3>2, <1>6, <1>7 DEF SlotOk, OwnAnswer
  <2>3. \A j \in 1 .. MatchSlots : match'.slots[j].game = match.slots[j].game
    BY <1>7
  <2>4. \A j, k \in 1 .. MatchSlots :
          j # k /\ match'.slots[j].game # 0 => match'.slots[k].game # match'.slots[j].game
    BY <2>3, <1>1 DEF SlotsFollow
  <2> QED
    BY <2>1, <2>2, <2>4, <1>7 DEF SlotsFollow
<1>10. PendingFollow(match')
  <2>1. ASSUME NEW k \in DOMAIN match.pending
        PROVE  Awaits(match', match'.slots[match.pending[k]])
    <3>1. match.pending[k] \in 1 .. MatchSlots
      <4>1. match.pending \in Seq(1 .. MatchSlots)
        BY <1>1 DEF PendingFollow
      <4>2. \A S : \A q \in Seq(S) : \A x \in DOMAIN q : q[x] \in S
        OBVIOUS
      <4> QED
        BY <4>1, <4>2
    <3>2. match.slots[match.pending[k]].busy /\ match.slots[match.pending[k]].answers = <<>>
      BY <1>1, <1>2 DEF PendingFollow, Awaits
    <3>3. match.pending[k] # i
      BY <3>2, <1>2
    <3> QED
      BY <3>1, <3>2, <3>3, <1>7 DEF Awaits
  <2> QED
    BY <2>1, <1>1, <1>6 DEF PendingFollow
<1>11. TallyFollows(match', tally')
  <2>1. \A w \in {"a", "b"} :
          Cardinality(EndedAs(match', w))
            = Cardinality(EndedAs(match, w)) + IF match'.games[g].result = w THEN 1 ELSE 0
    <3>1. /\ g \in 1 .. MatchGames /\ match.games[g].result = "none"
          /\ \A h \in 1 .. MatchGames : h # g => match'.games[h].result = match.games[h].result
      BY <1>3, <1>7
    <3> QED
      BY <3>1, OneMoreWin
  <2> QED
    BY <2>1, <1>1, <1>5, <1>7 DEF TallyFollows
<1> QED
  BY <1>1, <1>2, <1>6, <1>8, <1>9, <1>10, <1>11, ArmsKept DEF MatchInv, InMatch

\* The verdict writes what the games measured, from the point of view of the subject.
LEMMA VerdictInv ==
  ASSUME MatchInv, Verdict
  PROVE  MatchInv'
<1>1. /\ InMatch /\ TallyFollows(match, tally) /\ ArmsFollow /\ LedgerFollows /\ match' = NoMatch
  BY DEF MatchInv, Verdict, NoMatch
<1>2. CASE UNCHANGED <<ledger, measured>>
  BY <1>1, <1>2 DEF MatchInv, LedgerFollows
<1>3. CASE /\ match.anchored # "none"
           /\ ledger' = [match.held EXCEPT !.anchors[match.anchored] =
                           Anchor(match.base, SubjectWins, Decided)]
           /\ measured' = [measured EXCEPT ![match.anchored] =
                Anchor(match.base, tally[IF match.anchored = match.a THEN "a" ELSE "b"],
                       tally["a"] + tally["b"])]
  <2>1. Wins("a") = tally["a"] /\ Wins("b") = tally["b"]
    <3>1. \A w : Wins(w) = Cardinality(EndedAs(match, w))
      BY DEF Wins, EndedAs, Quantify
    <3> QED
      BY <3>1, <1>1 DEF TallyFollows
  <2>2. tally["a"] \in Nat /\ tally["b"] \in Nat
    <3>1. \A w \in {"a", "b"} : Cardinality(EndedAs(match, w)) \in Nat
      <4> TAKE w \in {"a", "b"}
      <4> DEFINE won == EndedAs(match, w)
                 all == 1 .. MatchGames
      <4>1. won \in SUBSET all /\ IsFiniteSet(all)
        BY Sizes, FS_Interval DEF EndedAs
      <4> HIDE DEF won, all
      <4>2. Cardinality(won) \in Nat
        BY <4>1, FS_Subset, FS_CardinalityType
      <4> QED
        BY <4>2 DEF won
    <3> QED
      BY <3>1, <1>1 DEF TallyFollows
  <2>3. Decided = tally["a"] + tally["b"]
    BY <2>1 DEF Decided
  <2>4. SubjectWins = tally[IF match.anchored = match.a THEN "a" ELSE "b"]
    BY <2>1, <2>2, <2>3 DEF SubjectWins
  <2> DEFINE record == Anchor(match.base, SubjectWins, Decided)
  <2>5. /\ ledger' = [match.held EXCEPT !.anchors[match.anchored] = record]
        /\ measured' = [measured EXCEPT ![match.anchored] = record]
    BY <1>3, <2>3, <2>4
  <2> HIDE DEF record
  <2>6. DOMAIN ledger' = {"file", "parents", "anchors"}
        /\ ledger'.anchors = [match.held.anchors EXCEPT ![match.anchored] = record]
    BY <2>5, <1>1 DEF ArmsFollow
  <2>7. LedgerFollows'
    BY <2>5, <2>6, <1>1 DEF LedgerFollows, ArmsFollow
  <2> QED
    BY <2>7, <1>1 DEF MatchInv
<1> QED
  BY <1>2, <1>3 DEF Verdict

\* A match that dies records nothing.
LEMMA AbandonInv ==
  ASSUME MatchInv, Abandon
  PROVE  MatchInv'
  BY DEF MatchInv, Abandon, LedgerFollows

\* Every step of the matches, and a stutter, keeps the invariant.
LEMMA MatchStepInv ==
  ASSUME MatchInv, [MatchNext]_matchVars
  PROVE  MatchInv'
<1>1. CASE Operate
  BY <1>1, BeginInv DEF Operate
<1>2. CASE \E base \in Nets : Declare(base)
  BY <1>2, DeclareInv
<1>3. CASE UNCHANGED matchVars
  BY <1>3 DEF matchVars, MatchInv, LedgerFollows, InMatch, ArmsFollow, ScreenAllowed, AnchorProblem, Fit
<1> QED
  BY <1>1, <1>2, <1>3, FillSlotInv, PendSlotInv, EndScanInv, InferSideInv, FinishSearchInv,
     VerdictInv, AbandonInv DEF MatchNext

\* Half of the games of a match give the first network the first move.
LEMMA HalfTheColours ==
  Cardinality({g \in 1 .. MatchGames : g % 2 = 1}) * 2 = MatchGames
<1> DEFINE n == MatchGames \div 2
           odd == {g \in 1 .. MatchGames : g % 2 = 1}
           half == 1 .. n
           f == [k \in half |-> 2 * k - 1]
<1>1. n \in Nat /\ 2 * n = MatchGames
  BY Sizes
<1>2. \A k \in half : 2 * k - 1 \in odd
  <2> TAKE k \in half
  <2>1. k \in Nat /\ k >= 1 /\ k <= n
    BY <1>1
  <2> HIDE DEF n
  <2>2. 2 * k - 1 \in 1 .. MatchGames /\ (2 * k - 1) % 2 = 1
    BY <2>1, <1>1
  <2> QED
    BY <2>2
<1>3. \A g \in odd : \E k \in half : 2 * k - 1 = g
  <2> TAKE g \in odd
  <2> DEFINE k == (g + 1) \div 2
  <2>1. g \in Nat /\ g >= 1 /\ g <= MatchGames /\ g % 2 = 1
    BY Sizes
  <2> HIDE DEF n
  <2>2. k \in Nat /\ 2 * k - 1 = g
    BY <2>1
  <2> HIDE DEF k
  <2>3. k \in 1 .. n
    BY <2>1, <2>2, <1>1
  <2> QED
    BY <2>2, <2>3
<1>4. f \in Bijection(half, odd)
  <2>1. \A j, k \in half : 2 * j - 1 = 2 * k - 1 => j = k
    BY <1>1
  <2> HIDE DEF half, odd
  <2>2. f \in [half -> odd] /\ \A g \in odd : \E k \in half : f[k] = g
    BY <1>2, <1>3
  <2>3. \A j, k \in half : f[j] = f[k] => j = k
    BY <2>1
  <2> HIDE DEF f
  <2> QED
    BY <2>2, <2>3 DEF Bijection, Injection, Surjection, IsInjective
<1>5. IsFiniteSet(half) /\ Cardinality(half) = n
  BY <1>1, FS_Interval
<1> HIDE DEF half, odd, f, n
<1>6. Cardinality(odd) = n
  BY <1>4, <1>5, FS_Bijection DEF ExistsBijection
<1> QED
  BY <1>1, <1>6 DEF odd

\* The invariant is what the two properties ask.
LEMMA MatchInvImplies ==
  ASSUME MatchInv
  PROVE  EachNetPlaysItsOwnMoves /\ ScreensOnlyHealthyArms
<1>1. EachNetPlaysItsOwnMoves
  <2> SUFFICES ASSUME InMatch
               PROVE
        /\ \A i \in 1 .. MatchSlots :
             LET slot == match.slots[i]
             IN slot.busy => /\ slot.side = MoverCheckpoint(match.games[slot.game])
                             /\ slot.answers \in {<<>>, <<[net |-> slot.side, leaf |-> LeafIn(slot)]>>}
                             /\ \A j \in 1 .. MatchSlots :
                                  i # j /\ match.slots[j].busy => match.slots[j].game # slot.game
        /\ Cardinality({g \in 1 .. MatchGames : match.games[g].aSide = "A"}) * 2 = MatchGames
    BY DEF EachNetPlaysItsOwnMoves, Quantify, InMatch
  <2>1. GamesFollow(match) /\ SlotsFollow(match)
    BY DEF MatchInv, InMatch, NoMatch
  <2>2. ASSUME NEW i \in 1 .. MatchSlots, match.slots[i].busy
        PROVE  /\ match.slots[i].side = MoverCheckpoint(match.games[match.slots[i].game])
               /\ match.slots[i].answers
                    \in {<<>>, <<[net |-> match.slots[i].side, leaf |-> LeafIn(match.slots[i])]>>}
               /\ \A j \in 1 .. MatchSlots :
                    i # j /\ match.slots[j].busy => match.slots[j].game # match.slots[i].game
    BY <2>1, <2>2 DEF SlotsFollow, SlotOk, OwnAnswer, LeafIn
  <2>3. {g \in 1 .. MatchGames : match.games[g].aSide = "A"} = {g \in 1 .. MatchGames : g % 2 = 1}
    BY <2>1 DEF GamesFollow, GameOk, ASide
  <2> QED
    BY <2>2, <2>3, HalfTheColours
<1>2. ScreensOnlyHealthyArms
  <2>1. ledger.anchors = measured
    BY DEF MatchInv, LedgerFollows
  <2>2. ASSUME InMatch, match.anchored = "none", NEW n \in {match.a, match.b}
        PROVE  /\ measured[n] # NoAnchor /\ measured[n].base = match.base
               /\ measured[n].elo # Saturated
               /\ measured[n].elo[1] <= Breakage /\ -measured[n].elo[1] <= Breakage
    <3>1. ArmsFollow
      BY <2>2 DEF MatchInv, InMatch, NoMatch
    <3>2. measured[n] # NoAnchor /\ measured[n].base = match.base /\ Fit(measured[n])
      BY <3>1, <2>2 DEF ArmsFollow, ScreenAllowed, AnchorProblem
    <3>3. measured[n].elo[1] \in -Breakage .. Breakage /\ measured[n].elo # Saturated
      BY <3>2 DEF Fit
    <3> QED
      BY <3>2, <3>3, Sizes
  <2> QED
    BY <2>1, <2>2 DEF ScreensOnlyHealthyArms, InMatch
<1> QED
  BY <1>1, <1>2

\* For any number of games and slots, whatever the ledger holds and whatever order the
\* programs are run in: a network is asked about its own moves only, and of a position is
\* told the answer to that position; and either network has either colour equally often.
THEOREM NetsPlayTheirOwn == MatchSpec => []EachNetPlaysItsOwnMoves
<1>1. MatchInit => MatchInv
  BY MatchInitInv
<1>2. MatchInv /\ [MatchNext]_matchVars => MatchInv'
  BY MatchStepInv
<1>3. MatchInv => EachNetPlaysItsOwnMoves
  BY MatchInvImplies
<1> QED
  BY <1>1, <1>2, <1>3, PTL DEF MatchSpec

\* And no screen runs but between arms that were each last measured against its base, as
\* healthy; what is on record is what the matches measured.
THEOREM ScreensAreOfHealthyArms == MatchSpec => []ScreensOnlyHealthyArms
<1>1. MatchInit => MatchInv
  BY MatchInitInv
<1>2. MatchInv /\ [MatchNext]_matchVars => MatchInv'
  BY MatchStepInv
<1>3. MatchInv => ScreensOnlyHealthyArms
  BY MatchInvImplies
<1> QED
  BY <1>1, <1>2, <1>3, PTL DEF MatchSpec

-----------------------------------------------------------------------------
(* The pipeline: lists, places and counting.                               *)

\* The place of the n-th element of S.
Ord(S) == [n \in 1 .. Cardinality(S) |-> CHOOSE i \in S : Cardinality({j \in S : j <= i}) = n]

\* A sequence, of whatever.
IsList(s) == s \in Seq(Range(s))

\* Of a line h, the positions that had something to decide are in recs, once each and in order.
Recorded(h, recs) ==
  /\ IsList(h) /\ IsList(recs)
  /\ \A i \in DOMAIN recs :
       /\ Len(recs[i].h) \in 0 .. Len(h) - 1
       /\ recs[i].h = Prefix(h, Len(recs[i].h))
       /\ ~Alone(recs[i].h)
  /\ \A i, j \in DOMAIN recs : i < j => Len(recs[i].h) < Len(recs[j].h)
  /\ \A n \in 0 .. Len(h) - 1 : ~Alone(Prefix(h, n)) => \E i \in DOMAIN recs : Len(recs[i].h) = n

\* The plies of the game g, as they are in the file.
Told(g, recs) ==
  /\ Recorded(g.h, recs) /\ g.firstIdx \in Nat
  /\ \A i \in DOMAIN recs :
       /\ recs[i].idx = g.firstIdx + i - 1 /\ recs[i].game = g.game
       /\ recs[i].z = Z(Outcome(g.h), recs[i].h)
       /\ recs[i].target = TargetOf(recs[i].h, "shallow", recs[i].seed)

\* The game g is told by c plies of a file, and no other ply is of that game.
ToldBy(g, c, file) ==
  /\ c \in Nat /\ g.firstIdx \in Nat /\ g.firstIdx + c <= Len(file)
  /\ {i \in DOMAIN file : file[i].game = g.game} = g.firstIdx + 1 .. g.firstIdx + c
  /\ Told(g, [i \in 1 .. c |-> file[g.firstIdx + i]])

PlyFollows(p, i) == p.idx = i - 1 /\ p.target = TargetOf(p.h, "shallow", p.seed)

\* The three files of a collection: features.f32 may be ahead of plies.jsonl, and a game is
\* in games.jsonl when its plies are all there.
FilesOk(fs, ps, gs) ==
  /\ IsList(fs) /\ IsList(ps) /\ IsList(gs) /\ Len(ps) <= Len(fs)
  /\ \A i \in DOMAIN ps : PlyFollows(ps[i], i) /\ fs[i] = ps[i].h
  /\ \A k \in DOMAIN gs : \E c \in Nat : ToldBy(gs[k], c, ps)
  /\ \A k, l \in DOMAIN gs : gs[k].game = gs[l].game => k = l

BudgetOf(session) == IF session.kind = "game" THEN "shallow" ELSE "deep"
Done(search) == Len(search.answers) = Leaves(search.h, search.budget)

\* The search of a slot is of its session's position, and its answers are those of its own leaves.
SearchFollows(session, search) ==
  search # None =>
    /\ session # None
    /\ DOMAIN search = {"kind", "h", "answers", "features", "budget", "seed"} /\ search.kind = "search"
    /\ search.h = session.h /\ search.budget = BudgetOf(session)
    /\ Len(search.answers) \in Nat /\ search.answers = [k \in 1 .. Len(search.answers) |-> <<session.h, k>>]
    /\ search.features \in {<<>>, <<session.h>>}
    /\ search.features = <<>> => Len(search.answers) = 0
    /\ search.features # <<>> => Leaves(session.h, BudgetOf(session)) # 0
    /\ session.kind = "relabel" => session.issued /\ search.seed = session.rec.seed

\* The locals of runLockStep.
ShapeOk(p) ==
  /\ DOMAIN p = {"kind", "prog", "todo", "at", "pending", "slots", "nextIdx", "flush"}
  /\ p.kind = "lockstep" /\ p.prog \in {"collect", "relabel"} /\ p.at \in 1 .. Slots + 1
  /\ IsList(p.todo) /\ p.pending \in Seq(1 .. Slots)
  /\ DOMAIN p.slots = 1 .. Slots /\ \A i \in 1 .. Slots : DOMAIN p.slots[i] = {"session", "search"}
  /\ p.flush # <<>> => p.at <= Slots

Waits(search) == search # None /\ ~Done(search) /\ search.features # <<>>
NothingToDo(p, i) == p.slots[i].session = None /\ p.todo = <<>>

\* A slot that was passed in this step waits for the batch, or there is nothing for it to do.
PendingOk(p) ==
  /\ \A m, n \in DOMAIN p.pending : p.pending[m] = p.pending[n] => m = n
  /\ \A n \in DOMAIN p.pending : p.pending[n] < p.at /\ Waits(p.slots[p.pending[n]].search)
  /\ \A i \in 1 .. Slots : i < p.at => NothingToDo(p, i) \/ \E n \in DOMAIN p.pending : p.pending[n] = i

SlotsOk(p) == \A i \in 1 .. Slots : SearchFollows(p.slots[i].session, p.slots[i].search)

LockOk(p) == ShapeOk(p) /\ PendingOk(p) /\ SlotsOk(p)

AtSlot(p) == p.at \in 1 .. Slots
Drained(before, after) == before = <<>> => after = <<>>

\* From p to q the current slot may be given another content.
Moved(p, q) ==
  /\ DOMAIN q = DOMAIN p /\ q.kind = p.kind /\ q.prog = p.prog /\ q.at = p.at /\ q.pending = p.pending
  /\ DOMAIN q.slots = 1 .. Slots /\ DOMAIN q.slots[p.at] = {"session", "search"}
  /\ \A i \in 1 .. Slots : i # p.at => q.slots[i] = p.slots[i]

\* From p to q the current slot is passed.
Passed(p, q) ==
  /\ DOMAIN q = DOMAIN p /\ q.kind = p.kind /\ q.prog = p.prog /\ q.at = p.at + 1
  /\ q.todo = p.todo /\ q.nextIdx = p.nextIdx /\ q.flush = p.flush /\ p.flush = <<>>
  /\ DOMAIN q.slots = 1 .. Slots
  /\ \A i \in 1 .. Slots : DOMAIN q.slots[i] = {"session", "search"} /\ q.slots[i].session = p.slots[i].session

\* There is a slot, a record in a file and a game.
LEMMA SlotsPositive == Slots \in Nat /\ Slots >= 1 /\ PerShard \in Nat /\ PerShard >= 1 /\ Games \in Nat /\ Games >= 1
BY DistillAssumption

\* A list with an element more.
LEMMA OneMore ==
  ASSUME NEW s, IsList(s), NEW x
  PROVE  /\ IsList(Append(s, x)) /\ Len(s) \in Nat /\ Len(Append(s, x)) = Len(s) + 1
         /\ DOMAIN s = 1 .. Len(s) /\ DOMAIN Append(s, x) = 1 .. Len(s) + 1
         /\ \A i \in 1 .. Len(s) : Append(s, x)[i] = s[i]
         /\ Append(s, x)[Len(s) + 1] = x
<1> DEFINE t == Append(s, x)
           R == Range(s) \cup {x}
<1>0. s \in Seq(Range(s))
  BY DEF IsList
<1>1. s \in Seq(R)
  BY <1>0, SMT
<1> HIDE DEF R
<1>2. x \in R
  BY DEF R
<1>3. /\ t \in Seq(R) /\ Len(t) = Len(s) + 1 /\ t[Len(s) + 1] = x /\ DOMAIN t = 1 .. Len(t)
      /\ DOMAIN s = 1 .. Len(s) /\ Len(s) \in Nat
      /\ \A i \in 1 .. Len(s) : t[i] = s[i]
  BY <1>1, <1>2
<1>4. \A i \in 1 .. Len(t) : t[i] \in Range(t)
  BY <1>3 DEF Range
<1> HIDE DEF t
<1>5. t = [i \in 1 .. Len(t) |-> t[i]] /\ Len(t) \in Nat
  BY <1>3
<1>6. t \in Seq(Range(t))
  BY <1>4, <1>5
<1> QED BY <1>3, <1>6 DEF t, IsList

\* A list without its first element.
LEMMA OneLess ==
  ASSUME NEW s, IsList(s), s # <<>>
  PROVE  /\ IsList(Tail(s)) /\ Len(s) \in Nat /\ Len(s) >= 1 /\ Len(Tail(s)) = Len(s) - 1
         /\ DOMAIN s = 1 .. Len(s) /\ DOMAIN Tail(s) = 1 .. Len(s) - 1 /\ Head(s) = s[1]
         /\ \A i \in 1 .. Len(s) - 1 : Tail(s)[i] = s[i + 1] /\ i + 1 \in 1 .. Len(s)
<1> DEFINE t == Tail(s)
           R == Range(s)
<1>1. s \in Seq(R)
  BY DEF IsList
<1> HIDE DEF R
<1>3. /\ t \in Seq(R) /\ Len(s) >= 1 /\ Len(t) = Len(s) - 1 /\ DOMAIN t = 1 .. Len(t)
      /\ DOMAIN s = 1 .. Len(s) /\ Len(s) \in Nat /\ Head(s) = s[1]
      /\ \A i \in 1 .. Len(t) : t[i] = s[i + 1] /\ i + 1 \in 1 .. Len(s)
  BY <1>1
<1>4. \A i \in 1 .. Len(t) : t[i] \in Range(t)
  BY <1>3 DEF Range
<1> HIDE DEF t
<1>5. t = [i \in 1 .. Len(t) |-> t[i]] /\ Len(t) \in Nat
  BY <1>3
<1>6. t \in Seq(Range(t))
  BY <1>4, <1>5
<1> QED BY <1>3, <1>6 DEF t, IsList

\* A function on an interval from 1 is a list.
LEMMA Listed ==
  ASSUME NEW n \in Nat, NEW s, DOMAIN s = 1 .. n, s = [i \in 1 .. n |-> s[i]]
  PROVE  IsList(s) /\ Len(s) = n
<1>1. \A i \in 1 .. n : s[i] \in Range(s)
  BY DEF Range
<1> DEFINE R == Range(s)
<1> HIDE DEF R
<1>2. \A i \in 1 .. n : s[i] \in R
  BY <1>1 DEF R
<1>3. s \in [1 .. n -> R]
  BY <1>2
<1>4. s \in Seq(R) /\ Len(s) = n
  BY <1>3
<1> QED BY <1>4 DEF IsList, R

\* The empty list.
LEMMA EmptyListed == IsList(<<>>) /\ Len(<<>>) = 0 /\ DOMAIN <<>> = {}
<1>1. <<>> \in Seq(Range(<<>>))
  OBVIOUS
<1> QED BY <1>1 DEF IsList

\* Of a finite set of numbers each has its rank, and each rank its number.
LEMMA Ranks ==
  ASSUME NEW N \in Nat, NEW S \in SUBSET (1 .. N)
  PROVE  /\ IsFiniteSet(S) /\ Cardinality(S) \in Nat
         /\ \A n \in 1 .. Cardinality(S) : Ord(S)[n] \in S
         /\ \A m, n \in 1 .. Cardinality(S) : m < n => Ord(S)[m] < Ord(S)[n]
         /\ \A i \in S : \E n \in 1 .. Cardinality(S) : Ord(S)[n] = i
         /\ DOMAIN Ord(S) = 1 .. Cardinality(S)
<1> DEFINE below(i) == {j \in S : j <= i}
           rank == [i \in S |-> Cardinality(below(i))]
           C == Cardinality(S)
<1>0. \A i \in S : i \in Nat
  OBVIOUS
<1>1. IsFiniteSet(S) /\ C \in Nat
  <2>1. 1 \in Int /\ N \in Int
    OBVIOUS
  <2>2. IsFiniteSet(1 .. N)
    BY <2>1, FS_Interval
  <2> QED
    BY <2>2, FS_Subset, FS_CardinalityType
<1>2. ASSUME NEW i \in S
      PROVE  /\ IsFiniteSet(below(i)) /\ Cardinality(below(i)) \in 1 .. C
  <2>1. below(i) \in SUBSET S
    OBVIOUS
  <2>2. i \in below(i)
    OBVIOUS
  <2> DEFINE B == below(i)
  <2> HIDE DEF B, C
  <2>3. IsFiniteSet(B) /\ Cardinality(B) <= C /\ Cardinality(B) \in Nat
    BY <2>1, <1>1, FS_Subset, FS_CardinalityType DEF B, C
  <2>4. Cardinality(B) # 0
    BY <2>2, <2>3, FS_EmptySet DEF B
  <2> QED
    BY <2>3, <2>4, <1>1 DEF B
<1>3. ASSUME NEW i \in S, NEW k \in S, i < k
      PROVE  Cardinality(below(i)) < Cardinality(below(k))
  <2>0. i \in Nat /\ k \in Nat
    BY <1>0
  <2>1. below(i) \in SUBSET below(k) /\ k \in below(k) /\ k \notin below(i)
    <3>1. \A j \in below(i) : j \in below(k)
      BY <1>0, <2>0, <1>3
    <3>2. k \in below(k) /\ k \notin below(i)
      BY <2>0, <1>3
    <3> QED
      BY <3>1, <3>2
  <2> DEFINE A == below(i)
             B == below(k)
  <2>2. IsFiniteSet(A) /\ IsFiniteSet(B) /\ Cardinality(A) \in Nat /\ Cardinality(B) \in Nat
    BY <1>2
  <2>3. A \in SUBSET B /\ A # B
    BY <2>1
  <2> HIDE DEF A, B
  <2>4. Cardinality(A) <= Cardinality(B) /\ Cardinality(A) # Cardinality(B)
    BY <2>2, <2>3, FS_Subset
  <2> QED
    BY <2>2, <2>4 DEF A, B
<1>4. rank \in [S -> 1 .. C]
  BY <1>2
<1>5. \A i, k \in S : rank[i] = rank[k] => i = k
  <2> SUFFICES ASSUME NEW i \in S, NEW k \in S, i # k
               PROVE  rank[i] # rank[k]
    OBVIOUS
  <2>1. i \in Nat /\ k \in Nat
    OBVIOUS
  <2>2. CASE i < k
    BY <2>2, <1>3, <1>2
  <2>3. CASE k < i
    BY <2>3, <1>3, <1>2
  <2> QED
    BY <2>1, <2>2, <2>3
<1>6. rank \in Injection(S, 1 .. C)
  BY <1>4, <1>5 DEF Injection, IsInjective
<1>7. IsFiniteSet(1 .. C) /\ Cardinality(1 .. C) = C
  <2>1. 1 \in Int /\ C \in Int
    BY <1>1
  <2> HIDE DEF C
  <2>2. IsFiniteSet(1 .. C) /\ Cardinality(1 .. C) = IF 1 > C THEN 0 ELSE C - 1 + 1
    BY <2>1, FS_Interval
  <2> QED
    BY <2>2, <1>1
<1>8. rank \in Surjection(S, 1 .. C)
  <2> HIDE DEF rank
  <2> QED
    BY <1>6, <1>7, FS_Injection
<1>9. \A n \in 1 .. C : \E i \in S : rank[i] = n
  <2> HIDE DEF rank
  <2> QED
  BY <1>8 DEF Surjection
<1>10. ASSUME NEW n \in 1 .. C
       PROVE  Ord(S)[n] \in S /\ rank[Ord(S)[n]] = n
  <2>1. \E i \in S : Cardinality({j \in S : j <= i}) = n
    BY <1>9
  <2>2. Ord(S)[n] = CHOOSE i \in S : Cardinality({j \in S : j <= i}) = n
    BY DEF Ord
  <2>3. Ord(S)[n] \in S /\ Cardinality({j \in S : j <= Ord(S)[n]}) = n
    BY <2>1, <2>2
  <2> QED
    BY <2>3
<1>11. \A m, n \in 1 .. C : m < n => Ord(S)[m] < Ord(S)[n]
  <2> SUFFICES ASSUME NEW m \in 1 .. C, NEW n \in 1 .. C, m < n, ~(Ord(S)[m] < Ord(S)[n])
               PROVE  FALSE
    OBVIOUS
  <2> DEFINE a == Ord(S)[m]
             b == Ord(S)[n]
  <2>1. a \in S /\ b \in S /\ rank[a] = m /\ rank[b] = n
    BY <1>10
  <2> HIDE DEF a, b
  <2>2. a \in Nat /\ b \in Nat /\ ~(a < b)
    BY <2>1, <1>0 DEF a, b
  <2>3. CASE a = b
    BY <2>3, <2>1
  <2>4. CASE b < a
    <3>1. Cardinality(below(b)) < Cardinality(below(a))
      BY <2>4, <2>1, <1>3
    <3> QED
      BY <3>1, <2>1
  <2> QED
    BY <2>2, <2>3, <2>4
<1>12. ASSUME NEW i \in S
       PROVE  \E n \in 1 .. C : Ord(S)[n] = i
  <2> DEFINE n == rank[i]
  <2>1. n \in 1 .. C
    BY <1>4
  <2>2. Ord(S)[n] \in S /\ rank[Ord(S)[n]] = rank[i]
    BY <2>1, <1>10
  <2>3. Ord(S)[n] = i
    BY <2>2, <1>5
  <2> QED
    BY <2>1, <2>3
<1> QED
  BY <1>1, <1>10, <1>11, <1>12 DEF Ord

\* The elements at the places in S, by their rank.
LEMMA OrdAtPlaces ==
  ASSUME NEW s, NEW S, Cardinality(S) \in Nat
  PROVE  /\ AtPlaces(s, S) = [n \in 1 .. Cardinality(S) |-> s[Ord(S)[n]]]
         /\ DOMAIN AtPlaces(s, S) = 1 .. Cardinality(S)
         /\ IsList(AtPlaces(s, S)) /\ Len(AtPlaces(s, S)) = Cardinality(S)
<1>1. AtPlaces(s, S) = [n \in 1 .. Cardinality(S) |-> s[Ord(S)[n]]]
  BY DEF AtPlaces, Ord
<1> DEFINE t == AtPlaces(s, S)
<1>2. DOMAIN t = 1 .. Cardinality(S) /\ t = [i \in 1 .. Cardinality(S) |-> t[i]]
  BY <1>1
<1> HIDE DEF t
<1> QED
  BY <1>1, <1>2, Listed DEF t

\* A set that a list enumerates once each has as many elements as the list.
LEMMA Counting ==
  ASSUME NEW n \in Nat, NEW S, NEW f, DOMAIN f = 1 .. n, f = [i \in 1 .. n |-> f[i]],
         \A i \in 1 .. n : f[i] \in S,
         \A i, j \in 1 .. n : f[i] = f[j] => i = j,
         \A x \in S : \E i \in 1 .. n : f[i] = x
  PROVE  IsFiniteSet(S) /\ Cardinality(S) = n
<1> DEFINE I == 1 .. n
<1>0. DOMAIN f = I /\ f = [i \in I |-> f[i]] /\ (\A i \in I : f[i] \in S) /\ (\A i, j \in I : f[i] = f[j] => i = j)
      /\ \A x \in S : \E i \in I : f[i] = x
  OBVIOUS
<1> HIDE DEF I
<1>1. f \in [I -> S]
  BY <1>0
<1>2. f \in Bijection(I, S)
  BY <1>0, <1>1, Zenon DEF Bijection, Injection, Surjection, IsInjective
<1>3. ExistsBijection(1 .. n, S)
  BY <1>2 DEF ExistsBijection, I
<1> QED
  BY <1>3, FS_CountingElements, FS_NatBijection

\* The places of an interval, in order.
LEMMA OrdInterval ==
  ASSUME NEW a \in Nat, NEW c \in Nat
  PROVE  /\ Cardinality(a + 1 .. a + c) = c
         /\ \A n \in 1 .. c : Ord(a + 1 .. a + c)[n] = a + n
         /\ DOMAIN Ord(a + 1 .. a + c) = 1 .. c
<1> DEFINE S == a + 1 .. a + c
<1>1. ASSUME NEW m \in Nat
      PROVE  Cardinality(a + 1 .. a + m) = m
  <2>1. a + 1 \in Int /\ a + m \in Int
    OBVIOUS
  <2>2. Cardinality(a + 1 .. a + m) = IF a + 1 > a + m THEN 0 ELSE (a + m) - (a + 1) + 1
    BY <2>1, FS_Interval
  <2> QED
    BY <2>2
<1>2. Cardinality(S) = c
  BY <1>1
<1>3. ASSUME NEW m \in 1 .. c
      PROVE  a + m \in S /\ Cardinality({j \in S : j <= a + m}) = m
  <2>1. {j \in S : j <= a + m} = a + 1 .. a + m
    OBVIOUS
  <2>2. m \in Nat /\ a + m \in S
    OBVIOUS
  <2>3. Cardinality(a + 1 .. a + m) = m
    BY <2>2, <1>1
  <2> HIDE DEF S
  <2> QED
    BY <2>1, <2>2, <2>3
<1>4. ASSUME NEW n \in 1 .. c
      PROVE  Ord(S)[n] = a + n
  <2> DEFINE card(i) == Cardinality({j \in S : j <= i})
             x == CHOOSE i \in S : card(i) = n
  <2>1. a + n \in S /\ card(a + n) = n
    BY <1>3
  <2>2. x \in S /\ card(x) = n
    BY <2>1
  <2> HIDE DEF x
  <2>3. x - a \in 1 .. c /\ a + (x - a) = x
    BY <2>2
  <2>4. card(a + (x - a)) = x - a
    BY <2>3, <1>3
  <2>5. x = a + n
    BY <2>2, <2>3, <2>4
  <2>6. Ord(S)[n] = x
    BY <1>2 DEF Ord, x
  <2> QED
    BY <2>5, <2>6
<1> QED
  BY <1>2, <1>4 DEF Ord

\* The prefixes of a line that grew by a move.
LEMMA PrefixOfLonger ==
  ASSUME NEW h, IsList(h), NEW move
  PROVE  /\ \A n \in 0 .. Len(h) : Prefix(Append(h, move), n) = Prefix(h, n)
         /\ Prefix(h, Len(h)) = h
         /\ Prefix(Append(h, move), Len(h)) = h
<1> DEFINE g == Append(h, move)
           L == Len(h)
<1>1. /\ L \in Nat /\ Len(g) = L + 1 /\ DOMAIN h = 1 .. L /\ DOMAIN g = 1 .. L + 1
      /\ \A i \in 1 .. L : g[i] = h[i]
  BY OneMore
<1>2. h = [i \in 1 .. L |-> h[i]]
  BY <1>1 DEF IsList
<1> HIDE DEF g, L
<1>3. ASSUME NEW n \in 0 .. L, NEW s
      PROVE  Prefix(s, n) = [i \in 1 .. n |-> s[i]]
  <2>1. n \in Nat
    BY <1>1
  <2> QED
    BY <2>1 DEF Prefix
<1>4. ASSUME NEW n \in 0 .. L
      PROVE  Prefix(g, n) = Prefix(h, n)
  <2>1. \A i \in 1 .. n : g[i] = h[i]
    BY <1>1
  <2> QED
    BY <2>1, <1>3
<1>5. L \in 0 .. L
  BY <1>1
<1>6. Prefix(h, L) = h
  BY <1>2, <1>3, <1>5
<1>7. Prefix(g, L) = h
  BY <1>4, <1>5, <1>6
<1> QED
  BY <1>4, <1>6, <1>7 DEF g, L

\* A list and another behind it.
LEMMA Concatenated ==
  ASSUME NEW s, IsList(s), NEW t, IsList(t)
  PROVE  /\ IsList(s \o t) /\ Len(s) \in Nat /\ Len(t) \in Nat /\ Len(s \o t) = Len(s) + Len(t)
         /\ DOMAIN s = 1 .. Len(s) /\ DOMAIN t = 1 .. Len(t) /\ DOMAIN (s \o t) = 1 .. Len(s) + Len(t)
         /\ \A i \in 1 .. Len(s) : (s \o t)[i] = s[i]
         /\ \A i \in 1 .. Len(t) : (s \o t)[Len(s) + i] = t[i]
<1> DEFINE R == Range(s) \cup Range(t)
           u == s \o t
<1>0. s \in Seq(Range(s)) /\ t \in Seq(Range(t))
  BY DEF IsList
<1>1. s \in Seq(R) /\ t \in Seq(R)
  BY <1>0, SMT
<1> HIDE DEF R
<1>2. /\ u \in Seq(R) /\ Len(u) = Len(s) + Len(t) /\ Len(s) \in Nat /\ Len(t) \in Nat
      /\ DOMAIN s = 1 .. Len(s) /\ DOMAIN t = 1 .. Len(t) /\ DOMAIN u = 1 .. Len(u)
      /\ \A i \in 1 .. Len(s) : u[i] = s[i]
      /\ \A i \in 1 .. Len(t) : u[Len(s) + i] = t[i]
  BY <1>1
<1> HIDE DEF u
<1>3. \A i \in 1 .. Len(u) : u[i] \in Range(u)
  BY <1>2 DEF Range
<1>4. u = [i \in 1 .. Len(u) |-> u[i]] /\ Len(u) \in Nat
  BY <1>2
<1>5. u \in Seq(Range(u))
  BY <1>3, <1>4
<1> QED
  BY <1>2, <1>5 DEF u, IsList

-----------------------------------------------------------------------------
(* The pipeline: runLockStep, its slots and its batches.                   *)

\* A slot that waits for the batch lies before the current one.
LEMMA PendingRange ==
  ASSUME NEW p, ShapeOk(p), PendingOk(p)
  PROVE  /\ DOMAIN p.pending = 1 .. Len(p.pending) /\ Len(p.pending) \in Nat
         /\ \A n \in DOMAIN p.pending : p.pending[n] \in 1 .. Slots /\ p.pending[n] < p.at
<1>1. p.pending \in Seq(1 .. Slots)
  BY DEF ShapeOk
<1>2. \A n \in DOMAIN p.pending : p.pending[n] < p.at
  BY DEF PendingOk
<1>3. DOMAIN p.pending = 1 .. Len(p.pending) /\ Len(p.pending) \in Nat /\ \A n \in DOMAIN p.pending : p.pending[n] \in 1 .. Slots
  <2> DEFINE s == p.pending
             R == 1 .. Slots
  <2>1. s \in Seq(R)
    BY <1>1
  <2> HIDE DEF s, R
  <2>2. DOMAIN s = 1 .. Len(s) /\ Len(s) \in Nat /\ \A n \in DOMAIN s : s[n] \in R
    BY <2>1
  <2> QED
    BY <2>2 DEF s, R
<1> QED
  BY <1>2, <1>3

\* The answers of a search are a list.
LEMMA AnswersListed ==
  ASSUME NEW session, NEW search, SearchFollows(session, search), search # None
  PROVE  /\ session # None /\ search.h = session.h /\ search.budget = BudgetOf(session)
         /\ search.answers = [k \in 1 .. Len(search.answers) |-> <<session.h, k>>]
         /\ Len(search.answers) \in Nat /\ DOMAIN search.answers = 1 .. Len(search.answers)
         /\ IsList(search.answers)
<1>1. /\ session # None /\ Len(search.answers) \in Nat /\ search.h = session.h /\ search.budget = BudgetOf(session)
      /\ search.answers = [k \in 1 .. Len(search.answers) |-> <<session.h, k>>]
  BY DEF SearchFollows
<1> DEFINE a == search.answers
           n == Len(search.answers)
<1>2. a = [k \in 1 .. n |-> <<session.h, k>>] /\ n \in Nat
  BY <1>1
<1> HIDE DEF a, n
<1>3. DOMAIN a = 1 .. n /\ a = [k \in 1 .. n |-> a[k]]
  BY <1>2
<1>4. IsList(a)
  BY <1>2, <1>3, Listed
<1> QED
  BY <1>1, <1>3, <1>4 DEF a, n

\* What holds of all the slots when the current one is given another content.
LEMMA LockMoved ==
  ASSUME NEW p, NEW q, LockOk(p), AtSlot(p), Moved(p, q), IsList(q.todo), Drained(p.todo, q.todo),
         SearchFollows(q.slots[p.at].session, q.slots[p.at].search)
  PROVE  LockOk(q)
<1>0. ShapeOk(p) /\ PendingOk(p) /\ SlotsOk(p)
  BY DEF LockOk
<1>1. /\ q.kind = p.kind /\ q.prog = p.prog /\ q.at = p.at /\ q.pending = p.pending
      /\ \A i \in 1 .. Slots : i # p.at => q.slots[i] = p.slots[i]
  BY DEF Moved
<1>2. p.at \in 1 .. Slots
  BY DEF AtSlot
<1>3. ShapeOk(q)
  <2>1. /\ DOMAIN p = {"kind", "prog", "todo", "at", "pending", "slots", "nextIdx", "flush"}
        /\ p.kind = "lockstep" /\ p.prog \in {"collect", "relabel"} /\ p.at \in 1 .. Slots + 1 /\ p.pending \in Seq(1 .. Slots)
        /\ \A i \in 1 .. Slots : DOMAIN p.slots[i] = {"session", "search"}
    BY <1>0 DEF ShapeOk
  <2>2. q.at <= Slots
    BY <1>1, <1>2, SlotsPositive
  <2>3. ASSUME NEW i \in 1 .. Slots
        PROVE  DOMAIN q.slots[i] = {"session", "search"}
    BY <2>1, <1>1 DEF Moved
  <2>4. q.kind = "lockstep" /\ q.prog \in {"collect", "relabel"} /\ q.at \in 1 .. Slots + 1 /\ q.pending \in Seq(1 .. Slots)
    BY <1>1, <2>1
  <2>5. DOMAIN q = DOMAIN p /\ DOMAIN q.slots = 1 .. Slots
    BY DEF Moved
  <2> QED
    BY <2>1, <2>2, <2>3, <2>4, <2>5 DEF ShapeOk
<1>4. PendingOk(q)
  <2>1. \A n \in DOMAIN p.pending : p.pending[n] \in 1 .. Slots /\ p.pending[n] < p.at
    BY <1>0, PendingRange
  <2>2. ASSUME NEW n \in DOMAIN p.pending
        PROVE  q.slots[p.pending[n]] = p.slots[p.pending[n]]
    <3>1. p.pending[n] \in 1 .. Slots /\ p.pending[n] # p.at
      BY <2>1, <1>2
    <3> QED
      BY <3>1, <1>1
  <2>3. ASSUME NEW i \in 1 .. Slots, i < p.at
        PROVE  q.slots[i] = p.slots[i]
    <3>1. i # p.at
      BY <2>3, <1>2
    <3> QED
      BY <3>1, <1>1
  <2>4. \A m, n \in DOMAIN q.pending : q.pending[m] = q.pending[n] => m = n
    BY <1>0, <1>1 DEF PendingOk
  <2>5. \A n \in DOMAIN q.pending : q.pending[n] < q.at /\ Waits(q.slots[q.pending[n]].search)
    <3>1. \A n \in DOMAIN p.pending : Waits(p.slots[p.pending[n]].search)
      BY <1>0 DEF PendingOk
    <3> QED
      BY <3>1, <2>1, <2>2, <1>1
  <2>6. \A i \in 1 .. Slots : i < q.at => NothingToDo(q, i) \/ \E n \in DOMAIN q.pending : q.pending[n] = i
    <3>1. \A i \in 1 .. Slots : i < p.at => NothingToDo(p, i) \/ \E n \in DOMAIN p.pending : p.pending[n] = i
      BY <1>0 DEF PendingOk
    <3>2. \A i \in 1 .. Slots : i < p.at /\ NothingToDo(p, i) => NothingToDo(q, i)
      BY <2>3 DEF NothingToDo, Drained
    <3> QED
      BY <3>1, <3>2, <1>1
  <2> QED
    BY <2>4, <2>5, <2>6 DEF PendingOk
<1>5. ASSUME NEW i \in 1 .. Slots
      PROVE  SearchFollows(q.slots[i].session, q.slots[i].search)
  <2>1. CASE i = p.at
    BY <2>1
  <2>2. CASE i # p.at
    BY <2>2, <1>0, <1>1 DEF SlotsOk
  <2> QED
    BY <2>1, <2>2
<1> QED
  BY <1>3, <1>4, <1>5 DEF LockOk, SlotsOk

\* The locals keep their shape when the current slot is passed.
LEMMA PassedShape ==
  ASSUME NEW p, NEW q, ShapeOk(p), AtSlot(p), Passed(p, q), q.pending \in Seq(1 .. Slots)
  PROVE  ShapeOk(q)
<1>1. p.at \in 1 .. Slots /\ p.at + 1 \in 1 .. Slots + 1
  BY SlotsPositive DEF AtSlot
<1>2. /\ DOMAIN p = {"kind", "prog", "todo", "at", "pending", "slots", "nextIdx", "flush"}
      /\ p.kind = "lockstep" /\ p.prog \in {"collect", "relabel"} /\ IsList(p.todo)
  BY DEF ShapeOk
<1>3. q.flush = <<>>
  BY DEF Passed
<1>4. /\ DOMAIN q = DOMAIN p /\ q.kind = p.kind /\ q.prog = p.prog /\ q.at = p.at + 1 /\ q.todo = p.todo
      /\ DOMAIN q.slots = 1 .. Slots /\ \A i \in 1 .. Slots : DOMAIN q.slots[i] = {"session", "search"}
  BY DEF Passed
<1>5. q.at \in 1 .. Slots + 1
  BY <1>1, <1>4
<1> QED
  BY <1>2, <1>3, <1>4, <1>5 DEF ShapeOk

\* The current slot is passed, with nothing to do.
LEMMA LockPassed ==
  ASSUME NEW p, NEW q, LockOk(p), AtSlot(p), Passed(p, q), q.pending = p.pending, q.slots = p.slots,
         NothingToDo(p, p.at)
  PROVE  LockOk(q)
<1>0. ShapeOk(p) /\ PendingOk(p) /\ SlotsOk(p)
  BY DEF LockOk
<1>1. p.at \in 1 .. Slots /\ q.at = p.at + 1 /\ q.todo = p.todo
  BY DEF AtSlot, Passed
<1>2. ShapeOk(q)
  <2>1. q.pending \in Seq(1 .. Slots)
    BY <1>0 DEF ShapeOk
  <2> QED
    BY <2>1, <1>0, PassedShape
<1>3. PendingOk(q)
  <2>1. \A n \in DOMAIN q.pending : q.pending[n] < q.at
    <3>1. \A n \in DOMAIN p.pending : p.pending[n] \in 1 .. Slots /\ p.pending[n] < p.at
      BY <1>0, PendingRange
    <3> QED
      BY <3>1, <1>1
  <2>2. \A m, n \in DOMAIN q.pending : q.pending[m] = q.pending[n] => m = n
    BY <1>0 DEF PendingOk
  <2>3. \A n \in DOMAIN q.pending : Waits(q.slots[q.pending[n]].search)
    BY <1>0 DEF PendingOk
  <2>4. ASSUME NEW i \in 1 .. Slots, i < q.at
        PROVE  NothingToDo(q, i) \/ \E n \in DOMAIN q.pending : q.pending[n] = i
    <3>1. i < p.at \/ i = p.at
      BY <2>4, <1>1
    <3>2. NothingToDo(p, i) \/ \E n \in DOMAIN p.pending : p.pending[n] = i
      BY <3>1, <1>0 DEF PendingOk
    <3> QED
      BY <3>2, <1>1 DEF NothingToDo
  <2> QED
    BY <2>1, <2>2, <2>3, <2>4 DEF PendingOk
<1>4. SlotsOk(q)
  BY <1>0 DEF SlotsOk
<1> QED
  BY <1>2, <1>3, <1>4 DEF LockOk

\* The first leaf of a search is its root, and is noted as such.
LEMMA RootNoted ==
  ASSUME NEW session, NEW search, SearchFollows(session, search), search # None, ~Done(search)
  PROVE  SearchFollows(session, WithRoot(search)) /\ WithRoot(search) # None /\ Waits(WithRoot(search))
<1>1. /\ session # None
      /\ DOMAIN search = {"kind", "h", "answers", "features", "budget", "seed"} /\ search.kind = "search"
      /\ search.h = session.h /\ search.budget = BudgetOf(session)
      /\ Len(search.answers) \in Nat /\ search.answers = [k \in 1 .. Len(search.answers) |-> <<session.h, k>>]
      /\ search.features \in {<<>>, <<session.h>>}
      /\ search.features = <<>> => Len(search.answers) = 0
      /\ search.features # <<>> => Leaves(session.h, BudgetOf(session)) # 0
      /\ session.kind = "relabel" => session.issued /\ search.seed = session.rec.seed
  BY DEF SearchFollows
<1>2. CASE search.answers # <<>>
  <2>1. WithRoot(search) = search
    BY <1>2 DEF WithRoot
  <2>2. search.features # <<>>
    <3> SUFFICES ASSUME search.features = <<>>
                 PROVE  FALSE
      OBVIOUS
    <3> DEFINE a == search.answers
    <3>1. Len(a) = 0 /\ a = [k \in 1 .. Len(a) |-> <<session.h, k>>]
      BY <1>1
    <3> HIDE DEF a
    <3>2. a = <<>>
      <4>1. a = [k \in 1 .. 0 |-> <<session.h, k>>]
        BY <3>1
      <4> QED
        BY <4>1
    <3> QED
      BY <3>2, <1>2 DEF a
  <2> QED
    BY <2>1, <2>2 DEF Waits
<1>3. CASE search.answers = <<>>
  <2> DEFINE r == [search EXCEPT !.features = <<search.h>>]
  <2>1. WithRoot(search) = r
    BY <1>3 DEF WithRoot
  <2>2. /\ DOMAIN r = DOMAIN search /\ r.kind = search.kind /\ r.h = search.h /\ r.answers = search.answers
        /\ r.budget = search.budget /\ r.seed = search.seed /\ r.features = <<search.h>>
    BY <1>1
  <2> HIDE DEF r
  <2>3. r.features # <<>> /\ r.features \in {<<>>, <<session.h>>}
    BY <2>2, <1>1
  <2>4. r # None
    <3>1. "answers" \in DOMAIN r /\ "answers" \notin DOMAIN None
      BY <2>2, <1>1 DEF None
    <3> QED
      BY <3>1
  <2>5. ~Done(r)
    BY <2>2 DEF Done
  <2>6. Leaves(session.h, BudgetOf(session)) # 0
    <3>1. Len(search.answers) = 0
      BY <1>3
    <3>2. Len(search.answers) # Leaves(session.h, BudgetOf(session))
      BY <1>1 DEF Done
    <3> QED
      BY <3>1, <3>2
  <2>7. SearchFollows(session, r)
    <3>1. Len(r.answers) \in Nat /\ r.answers = [k \in 1 .. Len(r.answers) |-> <<session.h, k>>]
      BY <2>2, <1>1
    <3>2. session.kind = "relabel" => session.issued /\ r.seed = session.rec.seed
      BY <2>2, <1>1
    <3>3. DOMAIN r = {"kind", "h", "answers", "features", "budget", "seed"} /\ r.kind = "search"
          /\ r.h = session.h /\ r.budget = BudgetOf(session)
      BY <2>2, <1>1
    <3> QED
      BY <3>1, <3>2, <3>3, <1>1, <2>3, <2>6 DEF SearchFollows
  <2> QED
    BY <2>1, <2>3, <2>4, <2>5, <2>7 DEF Waits
<1> QED
  BY <1>2, <1>3

\* The search of the current slot waits for the batch.
LEMMA LockPended ==
  ASSUME NEW p, NEW q, LockOk(p), AtSlot(p), Passed(p, q), q.pending = Append(p.pending, p.at),
         \A i \in 1 .. Slots : i # p.at => q.slots[i].search = p.slots[i].search,
         SearchFollows(q.slots[p.at].session, q.slots[p.at].search), Waits(q.slots[p.at].search)
  PROVE  LockOk(q)
<1>0. ShapeOk(p) /\ PendingOk(p) /\ SlotsOk(p)
  BY DEF LockOk
<1>1. p.at \in 1 .. Slots /\ q.at = p.at + 1 /\ q.todo = p.todo
  BY DEF AtSlot, Passed
<1>2. \A i \in 1 .. Slots : q.slots[i].session = p.slots[i].session
  BY DEF Passed
<1> DEFINE L == Len(p.pending)
<1>3. /\ q.pending \in Seq(1 .. Slots) /\ L \in Nat /\ DOMAIN p.pending = 1 .. L
      /\ DOMAIN q.pending = 1 .. L + 1
      /\ \A n \in 1 .. L : q.pending[n] = p.pending[n] /\ p.pending[n] \in 1 .. Slots /\ p.pending[n] < p.at
      /\ q.pending[L + 1] = p.at
  <2>1. p.pending \in Seq(1 .. Slots)
    BY <1>0 DEF ShapeOk
  <2>2. \A n \in DOMAIN p.pending : p.pending[n] \in 1 .. Slots /\ p.pending[n] < p.at
    BY <1>0, PendingRange
  <2> DEFINE old == p.pending
             c == p.at
             R == 1 .. Slots
  <2> HIDE DEF old, c, R
  <2>3. old \in Seq(R) /\ c \in R
    BY <2>1, <1>1 DEF old, c, R
  <2>4. /\ Append(old, c) \in Seq(R) /\ DOMAIN old = 1 .. Len(old) /\ Len(old) \in Nat
        /\ DOMAIN Append(old, c) = 1 .. Len(old) + 1
        /\ \A n \in 1 .. Len(old) : Append(old, c)[n] = old[n]
        /\ Append(old, c)[Len(old) + 1] = c
    BY <2>3
  <2>5. q.pending = Append(old, c)
    BY DEF old, c
  <2>6. \A n \in 1 .. Len(old) : old[n] \in 1 .. Slots /\ old[n] < c
    BY <2>2, <2>4 DEF old, c
  <2> QED
    BY <2>4, <2>5, <2>6 DEF old, c, R
<1> HIDE DEF L
<1>4. ShapeOk(q)
  BY <1>0, <1>3, PassedShape
<1>5. PendingOk(q)
  <2>1. \A m, n \in 1 .. L + 1 : q.pending[m] = q.pending[n] => m = n
    <3>1. \A m, n \in 1 .. L : p.pending[m] = p.pending[n] => m = n
      BY <1>0, <1>3 DEF PendingOk
    <3>2. \A n \in 1 .. L : q.pending[n] # p.at
      BY <1>1, <1>3
    <3>3. \A n \in 1 .. L + 1 : n \in 1 .. L \/ n = L + 1
      BY <1>3
    <3> QED
      BY <3>1, <3>2, <3>3, <1>3
  <2>2. ASSUME NEW n \in 1 .. L + 1
        PROVE  q.pending[n] < q.at /\ Waits(q.slots[q.pending[n]].search)
    <3>1. CASE n \in 1 .. L
      <4>1. q.pending[n] = p.pending[n] /\ p.pending[n] \in 1 .. Slots /\ p.pending[n] < p.at
        BY <3>1, <1>3
      <4>2. q.slots[q.pending[n]].search = p.slots[p.pending[n]].search
        <5>1. p.pending[n] # p.at
          BY <4>1, <1>1
        <5> QED
          BY <4>1, <5>1
      <4>3. Waits(p.slots[p.pending[n]].search)
        BY <3>1, <1>0, <1>3 DEF PendingOk
      <4>4. q.pending[n] < q.at
        BY <4>1, <1>1
      <4> QED
        BY <4>2, <4>3, <4>4
    <3>2. CASE n = L + 1
      <4>1. q.pending[n] = p.at
        BY <3>2, <1>3
      <4>2. p.at < q.at
        BY <1>1
      <4> QED
        BY <4>1, <4>2
    <3>3. n \in 1 .. L \/ n = L + 1
      BY <1>3
    <3> QED
      BY <3>1, <3>2, <3>3
  <2>3. ASSUME NEW i \in 1 .. Slots, i < q.at
        PROVE  NothingToDo(q, i) \/ \E n \in DOMAIN q.pending : q.pending[n] = i
    <3>1. CASE i < p.at
      <4>1. NothingToDo(p, i) \/ \E n \in DOMAIN p.pending : p.pending[n] = i
        BY <3>1, <1>0 DEF PendingOk
      <4>2. NothingToDo(p, i) => NothingToDo(q, i)
        BY <1>1, <1>2 DEF NothingToDo
      <4>3. \A n \in 1 .. L : n \in 1 .. L + 1
        BY <1>3
      <4> QED
        BY <4>1, <4>2, <4>3, <1>3
    <3>2. CASE i = p.at
      <4>1. L + 1 \in 1 .. L + 1
        BY <1>3
      <4> QED
        BY <3>2, <4>1, <1>3
    <3>3. i < p.at \/ i = p.at
      BY <2>3, <1>1
    <3> QED
      BY <3>1, <3>2, <3>3
  <2> QED
    BY <2>1, <2>2, <2>3, <1>3 DEF PendingOk
<1>6. ASSUME NEW i \in 1 .. Slots
      PROVE  SearchFollows(q.slots[i].session, q.slots[i].search)
  <2>1. CASE i = p.at
    BY <2>1
  <2>2. CASE i # p.at
    BY <2>2, <1>0, <1>2 DEF SlotsOk
  <2> QED
    BY <2>1, <2>2
<1> QED
  BY <1>4, <1>5, <1>6 DEF LockOk, SlotsOk

\* A search that waits gets the evaluation of its own next leaf.
LEMMA LeafAnswered ==
  ASSUME NEW session, NEW search, SearchFollows(session, search), Waits(search), NEW leaf,
         leaf = <<search.h, Len(search.answers) + 1>>
  PROVE  LET r == [search EXCEPT !.answers = Append(@, leaf)]
         IN SearchFollows(session, r) /\ r # None
<1> DEFINE r == [search EXCEPT !.answers = Append(@, leaf)]
           a == search.answers
           L == Len(search.answers)
<1>1. /\ search # None /\ session # None /\ search.features # <<>>
      /\ DOMAIN search = {"kind", "h", "answers", "features", "budget", "seed"} /\ search.kind = "search"
      /\ search.h = session.h /\ search.budget = BudgetOf(session)
      /\ search.features \in {<<>>, <<session.h>>}
      /\ search.features # <<>> => Leaves(session.h, BudgetOf(session)) # 0
      /\ session.kind = "relabel" => session.issued /\ search.seed = session.rec.seed
  BY DEF SearchFollows, Waits
<1>2. /\ DOMAIN r = DOMAIN search /\ r.kind = search.kind /\ r.h = search.h /\ r.features = search.features
      /\ r.budget = search.budget /\ r.seed = search.seed /\ r.answers = Append(a, leaf)
  BY <1>1
<1>3. IsList(a) /\ L \in Nat /\ a = [k \in 1 .. L |-> <<session.h, k>>] /\ leaf = <<session.h, L + 1>>
  <2>1. IsList(a) /\ L \in Nat /\ a = [k \in 1 .. L |-> <<session.h, k>>]
    <3>1. search # None
      BY <1>1
    <3>2. /\ search.answers = [k \in 1 .. Len(search.answers) |-> <<session.h, k>>]
          /\ Len(search.answers) \in Nat /\ IsList(search.answers)
      BY <3>1, AnswersListed
    <3> QED
      BY <3>2
  <2>2. leaf = <<session.h, L + 1>>
    BY <1>1
  <2> QED
    BY <2>1, <2>2
<1> HIDE DEF r, a, L
<1>4. /\ IsList(r.answers) /\ Len(r.answers) = L + 1 /\ DOMAIN r.answers = 1 .. L + 1
      /\ \A i \in 1 .. L : r.answers[i] = a[i]
      /\ r.answers[L + 1] = leaf
  <2>1. /\ IsList(Append(a, leaf)) /\ Len(a) \in Nat /\ Len(Append(a, leaf)) = Len(a) + 1
        /\ DOMAIN Append(a, leaf) = 1 .. Len(a) + 1
        /\ \A i \in 1 .. Len(a) : Append(a, leaf)[i] = a[i]
        /\ Append(a, leaf)[Len(a) + 1] = leaf
    BY <1>3, OneMore
  <2>2. Len(a) = L
    BY DEF a, L
  <2> QED
    BY <2>1, <2>2, <1>2
<1>5. r.answers = [k \in 1 .. L + 1 |-> <<session.h, k>>]
  <2> DEFINE b == r.answers
  <2>1. \A k \in 1 .. L + 1 : b[k] = <<session.h, k>>
    <3> SUFFICES ASSUME NEW k \in 1 .. L + 1
                 PROVE  b[k] = <<session.h, k>>
      OBVIOUS
    <3>1. CASE k \in 1 .. L
      BY <3>1, <1>3, <1>4
    <3>2. CASE k = L + 1
      BY <3>2, <1>3, <1>4
    <3> QED
      BY <3>1, <3>2, <1>3
  <2>2. IsList(b) /\ DOMAIN b = 1 .. L + 1
    BY <1>4
  <2> HIDE DEF b
  <2>3. b = [k \in 1 .. L + 1 |-> b[k]]
    BY <2>2 DEF IsList
  <2>4. b = [k \in 1 .. L + 1 |-> <<session.h, k>>]
    BY <2>1, <2>3
  <2> QED
    BY <2>4 DEF b
<1>6. r # None
  <2>1. "answers" \in DOMAIN r /\ "answers" \notin DOMAIN None
    BY <1>1, <1>2 DEF None
  <2> QED
    BY <2>1
<1>7. SearchFollows(session, r)
  <2>1. Len(r.answers) \in Nat /\ r.answers = [k \in 1 .. Len(r.answers) |-> <<session.h, k>>]
    BY <1>3, <1>4, <1>5
  <2>2. /\ DOMAIN r = {"kind", "h", "answers", "features", "budget", "seed"} /\ r.kind = "search"
        /\ r.h = session.h /\ r.budget = BudgetOf(session)
        /\ r.features # <<>> /\ r.features \in {<<>>, <<session.h>>}
        /\ Leaves(session.h, BudgetOf(session)) # 0
        /\ session.kind = "relabel" => session.issued /\ r.seed = session.rec.seed
    BY <1>1, <1>2
  <2> QED
    BY <2>1, <2>2, <1>1 DEF SearchFollows
<1> QED
  BY <1>6, <1>7 DEF r

\* From p to q a batch was answered, row by row.
Answered(p, q) ==
  /\ DOMAIN q = DOMAIN p /\ q.kind = p.kind /\ q.prog = p.prog /\ q.at = 1 /\ q.pending = <<>>
  /\ q.todo = p.todo /\ q.nextIdx = p.nextIdx /\ q.flush = p.flush
  /\ DOMAIN q.slots = 1 .. Slots
  /\ \A i \in 1 .. Slots :
       /\ DOMAIN q.slots[i] = {"session", "search"} /\ q.slots[i].session = p.slots[i].session
       /\ (\A n \in DOMAIN p.pending : p.pending[n] # i) => q.slots[i].search = p.slots[i].search
       /\ (\E n \in DOMAIN p.pending : p.pending[n] = i) =>
            q.slots[i].search = [p.slots[i].search EXCEPT !.answers = Append(@, LeafOf(p.slots[i]))]

\* A batch is answered: every slot that waited has an answer more, and the scan starts again.
LEMMA LockAnswered ==
  ASSUME NEW p, NEW q, LockOk(p), Answered(p, q)
  PROVE  /\ LockOk(q)
         /\ \A i \in 1 .. Slots : q.slots[i].search = None <=> p.slots[i].search = None
<1>0. ShapeOk(p) /\ PendingOk(p) /\ SlotsOk(p)
  BY DEF LockOk
<1>1. ASSUME NEW i \in 1 .. Slots
      PROVE  /\ SearchFollows(q.slots[i].session, q.slots[i].search)
             /\ q.slots[i].search = None <=> p.slots[i].search = None
  <2>0. SearchFollows(p.slots[i].session, p.slots[i].search) /\ q.slots[i].session = p.slots[i].session
    BY <1>0 DEF SlotsOk, Answered
  <2>1. CASE \A n \in DOMAIN p.pending : p.pending[n] # i
    <3>1. q.slots[i].search = p.slots[i].search
      BY <2>1 DEF Answered
    <3> QED
      BY <3>1, <2>0
  <2>2. CASE \E n \in DOMAIN p.pending : p.pending[n] = i
    <3>1. PICK n \in DOMAIN p.pending : p.pending[n] = i
      BY <2>2
    <3>2. Waits(p.slots[i].search)
      BY <3>1, <1>0 DEF PendingOk
    <3> DEFINE s == p.slots[i].search
               leaf == LeafOf(p.slots[i])
    <3>3. leaf = <<s.h, Len(s.answers) + 1>>
      BY DEF LeafOf
    <3>4. q.slots[i].search = [s EXCEPT !.answers = Append(@, leaf)]
      BY <2>2 DEF Answered
    <3> HIDE DEF s, leaf
    <3>5. SearchFollows(p.slots[i].session, s) /\ Waits(s)
      BY <2>0, <3>2 DEF s
    <3>6. SearchFollows(p.slots[i].session, [s EXCEPT !.answers = Append(@, leaf)]) /\ [s EXCEPT !.answers = Append(@, leaf)] # None
      BY <3>3, <3>5, LeafAnswered
    <3>7. s # None
      BY <3>5 DEF Waits
    <3> QED
      BY <2>0, <3>4, <3>6, <3>7 DEF s
  <2> QED
    BY <2>1, <2>2
<1>2. ShapeOk(q)
  <2>1. /\ DOMAIN p = {"kind", "prog", "todo", "at", "pending", "slots", "nextIdx", "flush"}
        /\ p.kind = "lockstep" /\ p.prog \in {"collect", "relabel"} /\ IsList(p.todo)
    BY <1>0 DEF ShapeOk
  <2>2. q.at \in 1 .. Slots + 1 /\ q.at <= Slots
    BY SlotsPositive DEF Answered
  <2>3. q.pending \in Seq(1 .. Slots)
    <3>1. q.pending = <<>>
      BY DEF Answered
    <3> DEFINE R == 1 .. Slots
    <3> HIDE DEF R
    <3>2. <<>> \in Seq(R)
      OBVIOUS
    <3> QED
      BY <3>1, <3>2 DEF R
  <2>4. /\ DOMAIN q = DOMAIN p /\ q.kind = p.kind /\ q.prog = p.prog /\ q.todo = p.todo
        /\ DOMAIN q.slots = 1 .. Slots /\ \A i \in 1 .. Slots : DOMAIN q.slots[i] = {"session", "search"}
    BY DEF Answered
  <2> QED
    BY <2>1, <2>2, <2>3, <2>4 DEF ShapeOk
<1>3. PendingOk(q)
  <2>1. DOMAIN q.pending = {}
    BY EmptyListed DEF Answered
  <2>2. \A i \in 1 .. Slots : ~(i < q.at)
    BY DEF Answered
  <2> QED
    BY <2>1, <2>2 DEF PendingOk
<1> QED
  BY <1>1, <1>2, <1>3 DEF LockOk, SlotsOk

\* runLockStep begins with empty slots.
LEMMA LockBegun ==
  ASSUME NEW prog \in {"collect", "relabel"}, NEW todo, IsList(todo)
  PROVE  /\ LockOk(LockStep(prog, todo))
         /\ LockStep(prog, todo).prog = prog /\ LockStep(prog, todo).todo = todo /\ LockStep(prog, todo).at = 1
         /\ LockStep(prog, todo).nextIdx = 0 /\ LockStep(prog, todo).flush = <<>>
         /\ \A i \in 1 .. Slots : LockStep(prog, todo).slots[i] = EmptySlot
         /\ LockStep(prog, todo).pending = <<>>
<1> DEFINE q == LockStep(prog, todo)
<1>1. /\ DOMAIN q = {"kind", "prog", "todo", "at", "pending", "slots", "nextIdx", "flush"}
      /\ q.kind = "lockstep" /\ q.prog = prog /\ q.todo = todo /\ q.at = 1 /\ q.pending = <<>>
      /\ q.nextIdx = 0 /\ q.flush = <<>>
      /\ q.slots = [i \in 1 .. Slots |-> EmptySlot]
  BY DEF LockStep
<1> HIDE DEF q
<1>2. DOMAIN EmptySlot = {"session", "search"} /\ EmptySlot.search = None
  BY DEF EmptySlot
<1>3. DOMAIN q.slots = 1 .. Slots /\ \A i \in 1 .. Slots : q.slots[i] = EmptySlot
  BY <1>1
<1>4. q.pending \in Seq(1 .. Slots)
  <2> DEFINE R == 1 .. Slots
  <2> HIDE DEF R
  <2>1. <<>> \in Seq(R)
    OBVIOUS
  <2> QED
    BY <1>1, <2>1 DEF R
<1>5. q.at \in 1 .. Slots + 1 /\ q.at <= Slots /\ \A i \in 1 .. Slots : ~(i < q.at)
  BY <1>1, SlotsPositive
<1>6. ShapeOk(q)
  <2>1. \A i \in 1 .. Slots : DOMAIN q.slots[i] = {"session", "search"}
    BY <1>2, <1>3
  <2> QED
    BY <1>1, <1>3, <1>4, <1>5, <2>1 DEF ShapeOk
<1>7. PendingOk(q)
  <2>1. DOMAIN q.pending = {}
    BY <1>1, EmptyListed
  <2> QED
    BY <1>5, <2>1 DEF PendingOk
<1>8. SlotsOk(q)
  BY <1>2, <1>3 DEF SlotsOk, SearchFollows
<1> QED
  BY <1>1, <1>3, <1>6, <1>7, <1>8 DEF LockOk, q

-----------------------------------------------------------------------------
(* The pipeline: a game, from its searches to its lines.                   *)

\* A game under way has recorded what its line has had to decide, each with its own target.
GameFollows(session) ==
  /\ DOMAIN session = {"kind", "game", "h", "plies"} /\ session.kind = "game"
  /\ Recorded(session.h, session.plies)
  /\ \A i \in DOMAIN session.plies :
       /\ session.plies[i].features = session.plies[i].h
       /\ session.plies[i].target = TargetOf(session.plies[i].h, "shallow", session.plies[i].target.seed)

\* A game begins with nothing recorded.
LEMMA GameBegins ==
  ASSUME NEW j
  PROVE  GameFollows(GameSession(j)) /\ GameSession(j).game = j /\ GameSession(j) # None /\ GameSession(j).kind = "game"
<1> DEFINE s == GameSession(j)
<1>1. DOMAIN s = {"kind", "game", "h", "plies"} /\ s.kind = "game" /\ s.h = <<>> /\ s.plies = <<>> /\ s.game = j
  BY DEF GameSession
<1>2. s # None
  <2>1. "h" \in DOMAIN s /\ "h" \notin DOMAIN None
    BY <1>1 DEF None
  <2> QED
    BY <2>1
<1> HIDE DEF s
<1>3. Recorded(s.h, s.plies)
  BY <1>1, EmptyListed DEF Recorded
<1>4. DOMAIN s.plies = {}
  BY <1>1, EmptyListed
<1> QED
  BY <1>1, <1>2, <1>3, <1>4 DEF s, GameFollows

\* A search that is done leaves nothing to record exactly when its position stands alone, and
\* its result is the target of that position.
LEMMA SearchResult ==
  ASSUME NEW session, session.kind = "game" \/ session.kind = "relabel", NEW search,
         SearchFollows(session, search), search # None, Done(search)
  PROVE  /\ search.h = session.h
         /\ session.kind = "game" => (Forced(search) <=> Alone(session.h))
         /\ ~Forced(search) => search.features[1] = session.h
         /\ Result(search) = TargetOf(session.h, BudgetOf(session), search.seed)
         /\ Result(search).seed = search.seed
<1>1. /\ search.h = session.h /\ search.budget = BudgetOf(session)
      /\ search.answers = [k \in 1 .. Len(search.answers) |-> <<session.h, k>>]
      /\ search.features \in {<<>>, <<session.h>>}
      /\ search.features = <<>> => Len(search.answers) = 0
      /\ search.features # <<>> => Leaves(session.h, BudgetOf(session)) # 0
  BY DEF SearchFollows
<1>2. Len(search.answers) = Leaves(session.h, BudgetOf(session))
  BY <1>1 DEF Done
<1>3. search.answers = [k \in 1 .. Leaves(session.h, BudgetOf(session)) |-> <<session.h, k>>]
  BY <1>1, <1>2
<1>4. Result(search) = TargetOf(session.h, BudgetOf(session), search.seed)
  BY <1>1, <1>3 DEF Result, TargetOf
<1>5. ASSUME session.kind = "game"
      PROVE  Forced(search) <=> Alone(session.h)
  <2>1. BudgetOf(session) = "shallow"
    BY <1>5 DEF BudgetOf
  <2>2. search.features = <<>> <=> Leaves(session.h, "shallow") = 0
    BY <1>1, <1>2, <2>1
  <2> QED
    BY <1>1, <2>2 DEF Forced, Alone
<1>6. ASSUME ~Forced(search)
      PROVE  search.features[1] = session.h
  BY <1>1, <1>6 DEF Forced
<1>7. Result(search).seed = search.seed
  BY DEF Result, Target
<1> QED
  BY <1>1, <1>4, <1>5, <1>6, <1>7

\* A line that grew by a move, and had nothing to decide before it or has recorded it.
LEMMA RecordedGrows ==
  ASSUME NEW h, NEW recs, Recorded(h, recs), NEW move
  PROVE  /\ Alone(h) => Recorded(Append(h, move), recs)
         /\ \A rec : ~Alone(h) /\ rec.h = h => Recorded(Append(h, move), Append(recs, rec))
<1> DEFINE g == Append(h, move)
           L == Len(h)
           N == Len(recs)
<1>1. IsList(h) /\ IsList(recs) /\ IsList(g) /\ L \in Nat /\ Len(g) = L + 1 /\ DOMAIN recs = 1 .. N /\ N \in Nat
  BY OneMore DEF Recorded
<1>2. (\A n \in 0 .. L : Prefix(g, n) = Prefix(h, n)) /\ Prefix(h, L) = h /\ Prefix(g, L) = h
  BY <1>1, PrefixOfLonger
<1>3. /\ \A i \in 1 .. N : /\ Len(recs[i].h) \in 0 .. L - 1
                           /\ recs[i].h = Prefix(h, Len(recs[i].h)) /\ ~Alone(recs[i].h)
      /\ \A i, j \in 1 .. N : i < j => Len(recs[i].h) < Len(recs[j].h)
      /\ \A n \in 0 .. L - 1 : ~Alone(Prefix(h, n)) => \E i \in 1 .. N : Len(recs[i].h) = n
  BY <1>1 DEF Recorded
<1> HIDE DEF g, L, N
<1>4. \A i \in 1 .. N : Len(recs[i].h) \in 0 .. L /\ recs[i].h = Prefix(g, Len(recs[i].h))
  <2> SUFFICES ASSUME NEW i \in 1 .. N
               PROVE  Len(recs[i].h) \in 0 .. L /\ recs[i].h = Prefix(g, Len(recs[i].h))
    OBVIOUS
  <2> DEFINE n == Len(recs[i].h)
  <2>1. n \in 0 .. L - 1 /\ recs[i].h = Prefix(h, n)
    BY <1>3
  <2> HIDE DEF n
  <2>2. n \in 0 .. L
    BY <2>1, <1>1
  <2> QED
    BY <2>1, <2>2, <1>2 DEF n
<1>5. \A n \in 0 .. L : n = L \/ (n \in 0 .. L - 1 /\ Prefix(g, n) = Prefix(h, n))
  BY <1>1, <1>2
<1>6. L + 1 - 1 = L
  BY <1>1
<1>7. ASSUME Alone(h)
      PROVE  Recorded(g, recs)
  <2>1. \A n \in 0 .. L : ~Alone(Prefix(g, n)) => \E i \in 1 .. N : Len(recs[i].h) = n
    BY <1>2, <1>3, <1>5, <1>7
  <2>2. \A i \in 1 .. N : Len(recs[i].h) \in 0 .. Len(g) - 1
    BY <1>1, <1>4, <1>6
  <2>3. \A n \in 0 .. Len(g) - 1 : n \in 0 .. L
    BY <1>1
  <2> QED
    BY <1>1, <1>3, <1>4, <2>1, <2>2, <2>3 DEF Recorded
<1>8. ASSUME NEW rec, ~Alone(h), rec.h = h
      PROVE  Recorded(g, Append(recs, rec))
  <2> DEFINE t == Append(recs, rec)
  <2>1. IsList(t) /\ DOMAIN t = 1 .. N + 1 /\ (\A i \in 1 .. N : t[i] = recs[i]) /\ t[N + 1] = rec
    BY <1>1, OneMore DEF N
  <2> HIDE DEF t
  <2>2. \A i \in 1 .. N + 1 : i \in 1 .. N \/ i = N + 1
    BY <1>1
  <2>3. Len(t[N + 1].h) = L /\ t[N + 1].h = Prefix(g, L) /\ ~Alone(t[N + 1].h)
    BY <2>1, <1>8, <1>2 DEF L
  <2>4. \A i \in 1 .. N + 1 : /\ Len(t[i].h) \in 0 .. L
                              /\ t[i].h = Prefix(g, Len(t[i].h)) /\ ~Alone(t[i].h)
    <3> SUFFICES ASSUME NEW i \in 1 .. N + 1
                 PROVE  /\ Len(t[i].h) \in 0 .. L
                        /\ t[i].h = Prefix(g, Len(t[i].h)) /\ ~Alone(t[i].h)
      OBVIOUS
    <3>1. CASE i \in 1 .. N
      BY <3>1, <2>1, <1>3, <1>4
    <3>2. CASE i = N + 1
      <4>1. L \in 0 .. L
        BY <1>1
      <4> QED
        BY <3>2, <4>1, <2>3
    <3> QED
      BY <3>1, <3>2, <2>2
  <2>5. \A i, j \in 1 .. N + 1 : i < j => Len(t[i].h) < Len(t[j].h)
    <3> SUFFICES ASSUME NEW i \in 1 .. N + 1, NEW j \in 1 .. N + 1, i < j
                 PROVE  Len(t[i].h) < Len(t[j].h)
      OBVIOUS
    <3>1. i \in 1 .. N
      BY <1>1
    <3>2. CASE j \in 1 .. N
      BY <3>1, <3>2, <2>1, <1>3
    <3>3. CASE j = N + 1
      <4> DEFINE n == Len(recs[i].h)
      <4>1. n \in 0 .. L - 1
        BY <3>1, <1>3
      <4>2. t[i] = recs[i]
        BY <3>1, <2>1
      <4> HIDE DEF n
      <4>3. n < L
        BY <4>1, <1>1
      <4> QED
        BY <3>3, <4>2, <4>3, <2>3 DEF n
    <3> QED
      BY <3>2, <3>3, <2>2
  <2>6. \A n \in 0 .. L : ~Alone(Prefix(g, n)) => \E i \in 1 .. N + 1 : Len(t[i].h) = n
    <3> SUFFICES ASSUME NEW n \in 0 .. L, ~Alone(Prefix(g, n))
                 PROVE  \E i \in 1 .. N + 1 : Len(t[i].h) = n
      OBVIOUS
    <3>1. CASE n = L
      <4>1. N + 1 \in 1 .. N + 1
        BY <1>1
      <4> QED
        BY <3>1, <4>1, <2>3
    <3>2. CASE n \in 0 .. L - 1 /\ Prefix(g, n) = Prefix(h, n)
      <4>1. PICK i \in 1 .. N : Len(recs[i].h) = n
        BY <3>2, <1>3
      <4>2. i \in 1 .. N + 1 /\ t[i] = recs[i]
        BY <2>1, <1>1
      <4> QED
        BY <4>1, <4>2
    <3> QED
      BY <3>1, <3>2, <1>5
  <2>7. Len(g) - 1 = L
    BY <1>1
  <2>8. \A i \in 1 .. N + 1 : Len(t[i].h) \in 0 .. Len(g) - 1
    BY <2>4, <2>7
  <2>9. \A n \in 0 .. Len(g) - 1 : ~Alone(Prefix(g, n)) => \E i \in 1 .. N + 1 : Len(t[i].h) = n
    BY <2>6, <2>7
  <2>10. IsList(g) /\ IsList(t) /\ DOMAIN t = 1 .. N + 1
    BY <1>1, <2>1
  <2>11. \A i \in 1 .. N + 1 : t[i].h = Prefix(g, Len(t[i].h)) /\ ~Alone(t[i].h)
    BY <2>4
  <2> QED
    BY <2>5, <2>8, <2>9, <2>10, <2>11 DEF Recorded, t
<1> QED
  BY <1>7, <1>8 DEF g

\* The record a game gets of a search.
PlyOf(search) == [h |-> search.h, target |-> Result(search), features |-> search.features[1]]

\* What is left of a session when its search is done and a move is played.
GrownBy(session, search, move, new) ==
  /\ DOMAIN new = DOMAIN session /\ new.kind = session.kind /\ new.game = session.game
  /\ new.h = Append(session.h, move)
  /\ new.plies = IF Forced(search) THEN session.plies ELSE Append(session.plies, PlyOf(search))

\* A move is played: the position is recorded if there was something to decide.
LEMMA GameGrows ==
  ASSUME NEW session, GameFollows(session), NEW search, SearchFollows(session, search), search # None, Done(search),
         NEW move, NEW new, GrownBy(session, search, move, new)
  PROVE  GameFollows(new)
<1>1. /\ DOMAIN session = {"kind", "game", "h", "plies"} /\ session.kind = "game"
      /\ Recorded(session.h, session.plies)
      /\ \A i \in DOMAIN session.plies :
           /\ session.plies[i].features = session.plies[i].h
           /\ session.plies[i].target = TargetOf(session.plies[i].h, "shallow", session.plies[i].target.seed)
  BY DEF GameFollows
<1>2. /\ search.h = session.h /\ (Forced(search) <=> Alone(session.h))
      /\ ~Forced(search) => search.features[1] = session.h
      /\ Result(search) = TargetOf(session.h, "shallow", search.seed) /\ Result(search).seed = search.seed
  <2>1. BudgetOf(session) = "shallow"
    BY <1>1 DEF BudgetOf
  <2> QED
    BY <1>1, <2>1, SearchResult
<1>0. DOMAIN new = DOMAIN session /\ new.kind = session.kind /\ new.h = Append(session.h, move)
  BY DEF GrownBy
<1>3. CASE Forced(search)
  <2>1. new.plies = session.plies
    BY <1>3 DEF GrownBy
  <2>2. Recorded(Append(session.h, move), session.plies)
    <3>1. Recorded(session.h, session.plies)
      BY <1>1
    <3>2. Alone(session.h)
      BY <1>2, <1>3
    <3> QED
      BY <3>1, <3>2, RecordedGrows
  <2> QED
    BY <1>0, <1>1, <2>1, <2>2 DEF GameFollows
<1>4. CASE ~Forced(search)
  <2> DEFINE rec == PlyOf(search)
             s == session.plies
  <2>1. rec.h = session.h /\ rec.features = session.h /\ rec.target = TargetOf(session.h, "shallow", search.seed)
        /\ rec.target.seed = search.seed
    <3>1. rec.h = search.h /\ rec.target = Result(search) /\ rec.features = search.features[1]
      BY DEF PlyOf
    <3>2. search.h = session.h /\ search.features[1] = session.h
      BY <1>2, <1>4
    <3>3. Result(search) = TargetOf(session.h, "shallow", search.seed)
      BY <1>2
    <3>4. Result(search).seed = search.seed
      BY <1>2
    <3> HIDE DEF rec
    <3>5. rec.h = session.h /\ rec.features = session.h
      BY <3>1, <3>2
    <3>6. rec.target = TargetOf(session.h, "shallow", search.seed)
      BY <3>1, <3>3
    <3>7. rec.target.seed = search.seed
      BY <3>1, <3>4
    <3> QED
      BY <3>5, <3>6, <3>7
  <2>2. new.plies = Append(s, rec)
    BY <1>4 DEF GrownBy
  <2>4. IsList(s)
    BY <1>1 DEF Recorded
  <2> HIDE DEF rec, s
  <2>3. Recorded(new.h, new.plies)
    <3>1. Recorded(session.h, s)
      BY <1>1 DEF s
    <3>2. Recorded(Append(session.h, move), Append(s, rec))
      BY <1>2, <1>4, <2>1, <3>1, RecordedGrows
    <3> QED
      BY <3>2, <2>2, <1>0
  <2>5. /\ DOMAIN new.plies = 1 .. Len(s) + 1 /\ DOMAIN s = 1 .. Len(s) /\ Len(s) \in Nat
        /\ \A i \in 1 .. Len(s) : new.plies[i] = s[i]
        /\ new.plies[Len(s) + 1] = rec
    <3>1. /\ Len(s) \in Nat /\ DOMAIN s = 1 .. Len(s) /\ DOMAIN Append(s, rec) = 1 .. Len(s) + 1
          /\ \A i \in 1 .. Len(s) : Append(s, rec)[i] = s[i]
          /\ Append(s, rec)[Len(s) + 1] = rec
      BY <2>4, OneMore
    <3> QED
      BY <2>2, <3>1
  <2>6. ASSUME NEW i \in DOMAIN new.plies
        PROVE  /\ new.plies[i].features = new.plies[i].h
               /\ new.plies[i].target = TargetOf(new.plies[i].h, "shallow", new.plies[i].target.seed)
    <3>1. CASE i \in 1 .. Len(s)
      <4>1. new.plies[i] = s[i] /\ i \in DOMAIN s
        BY <3>1, <2>5
      <4> QED
        BY <4>1, <1>1 DEF s
    <3>2. CASE i = Len(s) + 1
      BY <3>2, <2>1, <2>5
    <3>3. i \in 1 .. Len(s) \/ i = Len(s) + 1
      BY <2>5
    <3> QED
      BY <3>1, <3>2, <3>3
  <2> QED
    BY <1>0, <1>1, <2>3, <2>6 DEF GameFollows
<1> QED
  BY <1>3, <1>4

\* What finalize() writes of a game tells it.
LEMMA GameIsTold ==
  ASSUME NEW session, GameFollows(session), NEW from \in Nat, NEW g,
         g = [game |-> session.game, h |-> session.h, firstIdx |-> from]
  PROVE  /\ Told(g, PlyRecords(session, from))
         /\ DOMAIN PlyRecords(session, from) = DOMAIN session.plies /\ IsList(PlyRecords(session, from))
         /\ Len(PlyRecords(session, from)) = Len(session.plies) /\ Len(session.plies) \in Nat
         /\ DOMAIN session.plies = 1 .. Len(session.plies)
         /\ \A i \in DOMAIN session.plies : PlyRecords(session, from)[i].h = session.plies[i].features
<1> DEFINE s == session.plies
           h == session.h
           N == Len(s)
           t == PlyRecords(session, from)
<1>1. /\ Recorded(h, s)
      /\ \A i \in DOMAIN s : s[i].features = s[i].h /\ s[i].target = TargetOf(s[i].h, "shallow", s[i].target.seed)
  BY DEF GameFollows
<1>2. IsList(s) /\ IsList(h) /\ N \in Nat /\ DOMAIN s = 1 .. N
  BY <1>1 DEF Recorded, IsList
<1>3. t = [i \in DOMAIN s |-> [idx |-> from + i - 1, game |-> session.game, h |-> s[i].h,
                               z |-> Z(Outcome(h), s[i].h), target |-> s[i].target, seed |-> s[i].target.seed]]
  BY DEF PlyRecords
<1>4. g.h = h /\ g.game = session.game /\ g.firstIdx = from
  OBVIOUS
<1> HIDE DEF s, h, N, t
<1>5. /\ DOMAIN t = 1 .. N
      /\ \A i \in 1 .. N : /\ t[i].idx = from + i - 1 /\ t[i].game = session.game /\ t[i].h = s[i].h
                           /\ t[i].z = Z(Outcome(h), s[i].h) /\ t[i].target = s[i].target /\ t[i].seed = s[i].target.seed
  BY <1>2, <1>3
<1>6. t = [i \in 1 .. N |-> t[i]]
  BY <1>2, <1>3
<1>7. IsList(t) /\ Len(t) = N
  BY <1>2, <1>5, <1>6, Listed
<1>8. Recorded(h, t)
  <2>1. \A i \in DOMAIN t : /\ Len(t[i].h) \in 0 .. Len(h) - 1
                            /\ t[i].h = Prefix(h, Len(t[i].h)) /\ ~Alone(t[i].h)
    BY <1>1, <1>2, <1>5 DEF Recorded
  <2>2. \A i, j \in DOMAIN t : i < j => Len(t[i].h) < Len(t[j].h)
    BY <1>1, <1>2, <1>5 DEF Recorded
  <2>3. \A n \in 0 .. Len(h) - 1 : ~Alone(Prefix(h, n)) => \E i \in DOMAIN t : Len(t[i].h) = n
    BY <1>1, <1>2, <1>5 DEF Recorded
  <2> QED
    BY <1>2, <1>7, <2>1, <2>2, <2>3 DEF Recorded
<1>9. \A i \in DOMAIN t : /\ t[i].idx = g.firstIdx + i - 1 /\ t[i].game = g.game
                          /\ t[i].z = Z(Outcome(g.h), t[i].h)
                          /\ t[i].target = TargetOf(t[i].h, "shallow", t[i].seed)
  BY <1>1, <1>2, <1>4, <1>5
<1>10. Told(g, t)
  BY <1>4, <1>8, <1>9 DEF Told
<1> QED
  BY <1>1, <1>2, <1>5, <1>7, <1>10 DEF s, t, N

\* features.f32 may be ahead of plies.jsonl.
LEMMA FeaturesLonger ==
  ASSUME NEW fs, NEW ps, NEW gs, FilesOk(fs, ps, gs), NEW rows, IsList(rows)
  PROVE  FilesOk(fs \o rows, ps, gs)
<1> DEFINE t == fs \o rows
<1>1. IsList(fs) /\ IsList(ps) /\ Len(ps) <= Len(fs) /\ \A i \in DOMAIN ps : PlyFollows(ps[i], i) /\ fs[i] = ps[i].h
  BY DEF FilesOk
<1>2. /\ IsList(t) /\ Len(fs) \in Nat /\ Len(rows) \in Nat /\ Len(t) = Len(fs) + Len(rows)
      /\ \A i \in 1 .. Len(fs) : t[i] = fs[i]
  BY <1>1, Concatenated
<1> HIDE DEF t
<1>3. DOMAIN ps = 1 .. Len(ps) /\ Len(ps) \in Nat
  BY <1>1, OneMore
<1>4. \A i \in DOMAIN ps : t[i] = ps[i].h
  <2> SUFFICES ASSUME NEW i \in DOMAIN ps
               PROVE  t[i] = ps[i].h
    OBVIOUS
  <2>1. i \in 1 .. Len(fs)
    BY <1>1, <1>2, <1>3
  <2> QED
    BY <2>1, <1>1, <1>2
<1>5. Len(ps) <= Len(t)
  BY <1>1, <1>2, <1>3
<1> QED
  BY <1>1, <1>2, <1>4, <1>5 DEF FilesOk, t

\* What is appended says nothing of a game that is told.
LEMMA ToldByLonger ==
  ASSUME NEW g, NEW c, NEW ps, ToldBy(g, c, ps), IsList(ps), NEW rows, IsList(rows),
         \A i \in DOMAIN rows : rows[i].game # g.game
  PROVE  ToldBy(g, c, ps \o rows)
<1> DEFINE t == ps \o rows
           a == g.firstIdx
           own == {i \in DOMAIN ps : ps[i].game = g.game}
<1>1. c \in Nat /\ a \in Nat /\ a + c <= Len(ps) /\ own = a + 1 .. a + c /\ Told(g, [i \in 1 .. c |-> ps[a + i]])
  BY DEF ToldBy
<1>2. /\ IsList(t) /\ Len(ps) \in Nat /\ Len(rows) \in Nat /\ Len(t) = Len(ps) + Len(rows)
      /\ DOMAIN ps = 1 .. Len(ps) /\ DOMAIN rows = 1 .. Len(rows) /\ DOMAIN t = 1 .. Len(ps) + Len(rows)
      /\ \A i \in 1 .. Len(ps) : t[i] = ps[i]
      /\ \A i \in 1 .. Len(rows) : t[Len(ps) + i] = rows[i]
  BY Concatenated
<1> HIDE DEF t, a
<1>3. \A i \in DOMAIN t : t[i].game = g.game <=> i \in own
  <2> SUFFICES ASSUME NEW i \in DOMAIN t
               PROVE  t[i].game = g.game <=> i \in own
    OBVIOUS
  <2>1. CASE i \in 1 .. Len(ps)
    BY <2>1, <1>2
  <2>2. CASE i \notin 1 .. Len(ps)
    <3>1. i - Len(ps) \in 1 .. Len(rows) /\ Len(ps) + (i - Len(ps)) = i
      BY <2>2, <1>2
    <3>2. t[i] = rows[i - Len(ps)]
      BY <3>1, <1>2
    <3>3. t[i].game # g.game
      BY <3>1, <3>2, <1>2
    <3> QED
      BY <3>3, <2>2, <1>2
  <2> QED
    BY <2>1, <2>2
<1>4. own \subseteq DOMAIN t
  BY <1>2
<1>5. {i \in DOMAIN t : t[i].game = g.game} = a + 1 .. a + c
  <2>1. {i \in DOMAIN t : t[i].game = g.game} = own
    <3> HIDE DEF own
    <3> QED
      BY <1>3, <1>4
  <2> QED
    BY <2>1, <1>1
<1>6. [i \in 1 .. c |-> t[a + i]] = [i \in 1 .. c |-> ps[a + i]]
  <2>1. \A i \in 1 .. c : a + i \in 1 .. Len(ps)
    BY <1>1, <1>2
  <2> QED
    BY <2>1, <1>2
<1>7. a + c <= Len(t)
  BY <1>1, <1>2
<1> QED
  BY <1>1, <1>5, <1>6, <1>7 DEF ToldBy, t, a

\* The plies of a game are appended.
LEMMA PliesLonger ==
  ASSUME NEW fs, NEW ps, NEW gs, FilesOk(fs, ps, gs), NEW g, NEW rows, Told(g, rows),
         g.firstIdx = Len(ps), Len(fs) = Len(ps) + Len(rows), \A i \in DOMAIN rows : fs[Len(ps) + i] = rows[i].h,
         \A i \in DOMAIN ps : ps[i].game # g.game, \A k \in DOMAIN gs : gs[k].game # g.game
  PROVE  FilesOk(fs, ps \o rows, gs) /\ ToldBy(g, Len(rows), ps \o rows)
<1> DEFINE t == ps \o rows
           L == Len(ps)
           c == Len(rows)
<1>1. /\ IsList(fs) /\ IsList(ps) /\ IsList(gs) /\ \A i \in DOMAIN ps : PlyFollows(ps[i], i) /\ fs[i] = ps[i].h
      /\ \A k \in DOMAIN gs : \E n \in Nat : ToldBy(gs[k], n, ps)
      /\ \A k, l \in DOMAIN gs : gs[k].game = gs[l].game => k = l
  BY DEF FilesOk
<1>2. /\ IsList(rows)
      /\ \A i \in DOMAIN rows :
           /\ rows[i].idx = L + i - 1 /\ rows[i].game = g.game
           /\ rows[i].target = TargetOf(rows[i].h, "shallow", rows[i].seed)
  BY DEF Told, Recorded
<1>3. /\ IsList(t) /\ L \in Nat /\ c \in Nat /\ Len(t) = L + c
      /\ DOMAIN ps = 1 .. L /\ DOMAIN rows = 1 .. c /\ DOMAIN t = 1 .. L + c
      /\ \A i \in 1 .. L : t[i] = ps[i]
      /\ \A i \in 1 .. c : t[L + i] = rows[i]
  BY <1>1, <1>2, Concatenated
<1>4. Len(fs) = L + c /\ g.firstIdx = L
  OBVIOUS
<1> HIDE DEF t, L, c
<1>5. ASSUME NEW i \in 1 .. L + c, i \notin 1 .. L
      PROVE  i - L \in 1 .. c /\ L + (i - L) = i /\ t[i] = rows[i - L]
  <2>1. i - L \in 1 .. c /\ L + (i - L) = i
    BY <1>3, <1>5
  <2> QED
    BY <2>1, <1>3
<1>6. ASSUME NEW i \in 1 .. L + c
      PROVE  PlyFollows(t[i], i) /\ fs[i] = t[i].h
  <2>1. CASE i \in 1 .. L
    BY <2>1, <1>1, <1>3
  <2>2. CASE i \notin 1 .. L
    <3> DEFINE m == i - L
    <3>1. m \in 1 .. c /\ L + m = i /\ t[i] = rows[m]
      BY <2>2, <1>5
    <3> HIDE DEF m
    <3>2. rows[m].idx = L + m - 1 /\ rows[m].target = TargetOf(rows[m].h, "shallow", rows[m].seed)
      BY <3>1, <1>2, <1>3
    <3>3. rows[m].idx = i - 1
      <4>0. L \in Nat /\ m \in Nat /\ L + m = i
        BY <3>1, <1>3
      <4>1. L + m - 1 = i - 1
        BY <4>0
      <4> QED
        BY <3>2, <4>1
    <3>4. fs[L + m] = rows[m].h
      BY <3>1, <1>3 DEF L
    <3> QED
      BY <3>1, <3>2, <3>3, <3>4 DEF PlyFollows
  <2> QED
    BY <2>1, <2>2
<1>7. ASSUME NEW k \in DOMAIN gs
      PROVE  \E n \in Nat : ToldBy(gs[k], n, t)
  <2>1. PICK n \in Nat : ToldBy(gs[k], n, ps)
    BY <1>1
  <2>2. \A i \in DOMAIN rows : rows[i].game # gs[k].game
    BY <1>2
  <2>3. ToldBy(gs[k], n, t)
    BY <2>1, <2>2, <1>1, <1>2, ToldByLonger DEF t
  <2> QED
    BY <2>3
<1>8. FilesOk(fs, t, gs)
  BY <1>1, <1>3, <1>4, <1>6, <1>7 DEF FilesOk
<1>9. ToldBy(g, c, t)
  <2>1. {i \in DOMAIN t : t[i].game = g.game} = L + 1 .. L + c
    <3>1. \A i \in 1 .. L + c : t[i].game = g.game <=> i \in L + 1 .. L + c
      <4> SUFFICES ASSUME NEW i \in 1 .. L + c
                   PROVE  t[i].game = g.game <=> i \in L + 1 .. L + c
        OBVIOUS
      <4>1. CASE i \in 1 .. L
        <5>1. t[i].game # g.game
          BY <4>1, <1>3
        <5>2. i \notin L + 1 .. L + c
          BY <4>1, <1>3
        <5> QED
          BY <5>1, <5>2
      <4>2. CASE i \notin 1 .. L
        <5>1. i - L \in 1 .. c /\ t[i] = rows[i - L]
          BY <4>2, <1>5
        <5>2. t[i].game = g.game
          BY <5>1, <1>2, <1>3
        <5>3. i \in L + 1 .. L + c
          BY <4>2, <1>3
        <5> QED
          BY <5>2, <5>3
      <4> QED
        BY <4>1, <4>2
    <3>2. \A i \in L + 1 .. L + c : i \in 1 .. L + c
      BY <1>3
    <3> QED
      BY <3>1, <3>2, <1>3
  <2>2. [i \in 1 .. c |-> t[L + i]] = rows
    <3>1. rows = [i \in 1 .. c |-> rows[i]]
      BY <1>2, <1>3 DEF IsList
    <3> QED
      BY <3>1, <1>3
  <2>3. L + c <= Len(t) /\ g.firstIdx \in Nat
    BY <1>3, <1>4
  <2>4. Told(g, [i \in 1 .. c |-> t[L + i]])
    BY <2>2
  <2> QED
    BY <2>1, <2>3, <2>4, <1>3, <1>4 DEF ToldBy
<1> QED
  BY <1>8, <1>9 DEF t, c

\* A game is appended whose plies are all there.
LEMMA GamesLonger ==
  ASSUME NEW fs, NEW ps, NEW gs, FilesOk(fs, ps, gs), NEW g, NEW c \in Nat, ToldBy(g, c, ps),
         \A k \in DOMAIN gs : gs[k].game # g.game
  PROVE  /\ FilesOk(fs, ps, gs \o <<g>>)
         /\ \A j : (\E k \in DOMAIN (gs \o <<g>>) : (gs \o <<g>>)[k].game = j)
                     <=> (\E k \in DOMAIN gs : gs[k].game = j) \/ g.game = j
<1> DEFINE t == gs \o <<g>>
           L == Len(gs)
<1>1. /\ IsList(fs) /\ IsList(ps) /\ IsList(gs) /\ Len(ps) <= Len(fs)
      /\ \A i \in DOMAIN ps : PlyFollows(ps[i], i) /\ fs[i] = ps[i].h
      /\ \A k \in DOMAIN gs : \E n \in Nat : ToldBy(gs[k], n, ps)
      /\ \A k, l \in DOMAIN gs : gs[k].game = gs[l].game => k = l
  BY DEF FilesOk
<1>2. /\ IsList(t) /\ L \in Nat /\ DOMAIN gs = 1 .. L /\ DOMAIN t = 1 .. L + 1
      /\ (\A i \in 1 .. L : t[i] = gs[i]) /\ t[L + 1] = g
  <2> DEFINE one == <<g>>
  <2>1. one = [i \in 1 .. 1 |-> one[i]] /\ DOMAIN one = 1 .. 1 /\ one[1] = g /\ 1 \in Nat
    OBVIOUS
  <2> HIDE DEF one
  <2>2. IsList(one) /\ Len(one) = 1
    BY <2>1, Listed
  <2>3. /\ IsList(gs \o one) /\ Len(gs) \in Nat /\ DOMAIN gs = 1 .. Len(gs) /\ DOMAIN (gs \o one) = 1 .. Len(gs) + Len(one)
        /\ (\A i \in 1 .. Len(gs) : (gs \o one)[i] = gs[i]) /\ \A i \in 1 .. Len(one) : (gs \o one)[Len(gs) + i] = one[i]
    <3>1. IsList(gs) /\ IsList(one)
      BY <1>1, <2>2
    <3> QED
      BY <3>1, Concatenated
  <2>4. (gs \o one)[Len(gs) + 1] = g /\ DOMAIN (gs \o one) = 1 .. Len(gs) + 1
    BY <2>1, <2>2, <2>3
  <2> QED
    BY <2>3, <2>4 DEF one, L, t
<1> HIDE DEF t, L
<1>3. \A k \in 1 .. L + 1 : k \in 1 .. L \/ k = L + 1
  BY <1>2
<1>4. \A k \in DOMAIN t : \E n \in Nat : ToldBy(t[k], n, ps)
  BY <1>1, <1>2, <1>3
<1>5. \A k, l \in DOMAIN t : t[k].game = t[l].game => k = l
  BY <1>1, <1>2, <1>3
<1>6. FilesOk(fs, ps, t)
  BY <1>1, <1>2, <1>4, <1>5 DEF FilesOk
<1>7. ASSUME NEW j
      PROVE  (\E k \in DOMAIN t : t[k].game = j) <=> (\E k \in DOMAIN gs : gs[k].game = j) \/ g.game = j
  <2>1. L + 1 \in 1 .. L + 1 /\ \A k \in 1 .. L : k \in 1 .. L + 1
    BY <1>2
  <2> QED
    BY <1>2, <1>3, <2>1
<1> QED
  BY <1>6, <1>7 DEF t

-----------------------------------------------------------------------------
(* The pipeline: collect.                                                  *)

Begun(todo) == 1 .. Games - Len(todo)
Holds(session, j) == session # None /\ session.game = j
InSlot(slots, j) == \E i \in 1 .. Slots : Holds(slots[i].session, j)
InGames(gs, j) == \E k \in DOMAIN gs : gs[k].game = j
InPlies(ps, j) == \E i \in DOMAIN ps : ps[i].game = j

\* The games that have not begun are the last ones, in order.
TodoOk(todo) ==
  /\ IsList(todo) /\ Len(todo) <= Games
  /\ \A i \in DOMAIN todo : todo[i] = GameSession(Games - Len(todo) + i)

\* Each game under way is in one slot.
SessionsOk(slots) ==
  /\ \A i \in 1 .. Slots : slots[i].session # None => GameFollows(slots[i].session)
  /\ \A i, k \in 1 .. Slots : \A j : Holds(slots[i].session, j) /\ Holds(slots[k].session, j) => i = k

OfFeatures(rows) == [file |-> "features", rows |-> rows]
OfPlies(rows) == [file |-> "plies", rows |-> rows]
OfGame(g) == [file |-> "games", rows |-> <<g>>]

\* What is still to be written of a game that ended, three, two and one writes before the end.
ThreeLeft(f, g, next, fs, ps) ==
  \E rows, recs :
    /\ f = <<OfFeatures(rows), OfPlies(recs), OfGame(g)>> /\ Told(g, recs) /\ g.firstIdx = Len(ps)
    /\ next = Len(ps) + Len(recs) /\ Len(fs) = Len(ps)
    /\ IsList(rows) /\ Len(rows) = Len(recs) /\ \A i \in DOMAIN recs : rows[i] = recs[i].h
    /\ ~InPlies(ps, g.game)
TwoLeft(f, g, next, fs, ps) ==
  \E recs :
    /\ f = <<OfPlies(recs), OfGame(g)>> /\ Told(g, recs) /\ g.firstIdx = Len(ps)
    /\ next = Len(ps) + Len(recs) /\ Len(fs) = Len(ps) + Len(recs)
    /\ \A i \in DOMAIN recs : fs[Len(ps) + i] = recs[i].h
    /\ ~InPlies(ps, g.game)
OneLeft(f, g, next, fs, ps) ==
  /\ f = <<OfGame(g)>> /\ next = Len(ps) /\ Len(fs) = Len(ps) /\ \E c \in Nat : ToldBy(g, c, ps)

\* The game g is being written.
Closes(f, g, next, fs, ps) == ThreeLeft(f, g, next, fs, ps) \/ TwoLeft(f, g, next, fs, ps) \/ OneLeft(f, g, next, fs, ps)

\* Every game that has begun is in a slot, being written or in the file, and nowhere else, and
\* has no ply in the file before it ended.
Placed(slots, todo, closing, ps, gs) ==
  /\ \A j \in Begun(todo) : InSlot(slots, j) \/ j \in closing \/ InGames(gs, j)
  /\ \A j : InSlot(slots, j) => j \in Begun(todo) /\ j \notin closing /\ ~InGames(gs, j) /\ ~InPlies(ps, j)
  /\ \A j \in closing : j \in Begun(todo) /\ ~InGames(gs, j)
  /\ \A j : InGames(gs, j) \/ InPlies(ps, j) => j \in Begun(todo)

CollectOk(p, fs, ps, gs) ==
  /\ p.prog = "collect" /\ TodoOk(p.todo) /\ SessionsOk(p.slots)
  /\ \/ /\ p.flush = <<>> /\ Len(ps) = p.nextIdx /\ Len(fs) = Len(ps)
        /\ Placed(p.slots, p.todo, {}, ps, gs)
     \/ \E g : Closes(p.flush, g, p.nextIdx, fs, ps) /\ Placed(p.slots, p.todo, {g.game}, ps, gs)

\* A step that moves no game.
LEMMA CollectStays ==
  ASSUME NEW p, NEW q, NEW fs, NEW ps, NEW gs, CollectOk(p, fs, ps, gs),
         q.prog = p.prog, q.todo = p.todo, q.flush = p.flush, q.nextIdx = p.nextIdx,
         \A i \in 1 .. Slots : q.slots[i].session # None => GameFollows(q.slots[i].session),
         \A i \in 1 .. Slots : \A j : Holds(q.slots[i].session, j) <=> Holds(p.slots[i].session, j)
  PROVE  CollectOk(q, fs, ps, gs)
<1>1. \A j : InSlot(q.slots, j) <=> InSlot(p.slots, j)
  BY DEF InSlot
<1>2. SessionsOk(q.slots)
  BY DEF CollectOk, SessionsOk
<1>3. \A closing : Placed(p.slots, p.todo, closing, ps, gs) => Placed(q.slots, q.todo, closing, ps, gs)
  BY <1>1 DEF Placed
<1> QED
  BY <1>2, <1>3 DEF CollectOk

\* A game begins.
LEMMA CollectTakes ==
  ASSUME NEW p, NEW q, NEW fs, NEW ps, NEW gs, CollectOk(p, fs, ps, gs), p.todo # <<>>, NEW at \in 1 .. Slots,
         p.slots[at].session = None, p.flush = <<>>,
         q.prog = p.prog, q.todo = Tail(p.todo), q.flush = p.flush, q.nextIdx = p.nextIdx,
         q.slots[at].session = Head(p.todo), \A i \in 1 .. Slots : i # at => q.slots[i] = p.slots[i]
  PROVE  CollectOk(q, fs, ps, gs)
<1> DEFINE t == p.todo
           u == q.todo
           n == Games - Len(t) + 1
<1>1. TodoOk(t) /\ SessionsOk(p.slots)
  BY DEF CollectOk
<1>2. /\ IsList(u) /\ Len(t) \in Nat /\ Len(t) >= 1 /\ Len(u) = Len(t) - 1 /\ Head(t) = t[1]
      /\ DOMAIN t = 1 .. Len(t) /\ DOMAIN u = 1 .. Len(t) - 1
      /\ \A i \in 1 .. Len(t) - 1 : u[i] = t[i + 1] /\ i + 1 \in 1 .. Len(t)
  BY <1>1, OneLess DEF TodoOk
<1>3. Len(t) <= Games /\ \A i \in 1 .. Len(t) : t[i] = GameSession(Games - Len(t) + i)
  BY <1>1, <1>2 DEF TodoOk
<1>4. q.slots[at].session = Head(t)
  OBVIOUS
<1> HIDE DEF t, u
<1>5. Head(t) = GameSession(n)
  <2>1. 1 \in 1 .. Len(t)
    BY <1>2
  <2> QED
    BY <2>1, <1>2, <1>3
<1>6. TodoOk(u)
  <2>1. \A i \in 1 .. Len(t) - 1 : u[i] = GameSession(Games - Len(u) + i)
    <3> SUFFICES ASSUME NEW i \in 1 .. Len(t) - 1
                 PROVE  u[i] = GameSession(Games - Len(u) + i)
      OBVIOUS
    <3>1. u[i] = GameSession(Games - Len(t) + (i + 1))
      BY <1>2, <1>3
    <3>2. Games - Len(t) + (i + 1) = Games - Len(u) + i
      BY <1>2, SlotsPositive
    <3> QED
      BY <3>1, <3>2
  <2>2. Len(u) <= Games
    BY <1>2, <1>3, SlotsPositive
  <2> QED
    BY <1>2, <2>1, <2>2 DEF TodoOk
<1> HIDE DEF n
<1>7. GameFollows(GameSession(n)) /\ GameSession(n).game = n /\ GameSession(n) # None
  BY GameBegins
<1>8. \A j : Holds(q.slots[at].session, j) <=> j = n
  BY <1>4, <1>5, <1>7 DEF Holds
<1>9. \A i \in 1 .. Slots : i # at => \A j : Holds(q.slots[i].session, j) <=> Holds(p.slots[i].session, j)
  OBVIOUS
<1>10. \A j : ~Holds(p.slots[at].session, j)
  BY DEF Holds
<1>11. \A j : InSlot(q.slots, j) <=> InSlot(p.slots, j) \/ j = n
  BY <1>8, <1>9, <1>10 DEF InSlot
<1>12. n \in Int /\ n \notin Begun(t) /\ \A j : j \in Begun(u) <=> j \in Begun(t) \/ j = n
  BY <1>2, <1>3, SlotsPositive DEF Begun, n
<1>13. Placed(p.slots, t, {}, ps, gs)
  <2>1. \A g : ~Closes(<<>>, g, p.nextIdx, fs, ps)
    BY DEF Closes, ThreeLeft, TwoLeft, OneLeft
  <2> QED
    BY <2>1 DEF CollectOk, t
<1>14. Placed(q.slots, u, {}, ps, gs)
  BY <1>11, <1>12, <1>13 DEF Placed
<1>15. SessionsOk(q.slots)
  <2>1. \A i \in 1 .. Slots : q.slots[i].session # None => GameFollows(q.slots[i].session)
    BY <1>1, <1>4, <1>5, <1>7 DEF SessionsOk
  <2>2. \A i \in 1 .. Slots : ~Holds(p.slots[i].session, n)
    BY <1>12, <1>13 DEF Placed, InSlot
  <2>3. \A i, k \in 1 .. Slots : \A j : Holds(q.slots[i].session, j) /\ Holds(q.slots[k].session, j) => i = k
    BY <1>1, <1>8, <1>9, <2>2 DEF SessionsOk
  <2> QED
    BY <2>1, <2>3 DEF SessionsOk
<1>16. Len(ps) = p.nextIdx /\ Len(fs) = Len(ps)
  <2>1. \A g : ~Closes(<<>>, g, p.nextIdx, fs, ps)
    BY DEF Closes, ThreeLeft, TwoLeft, OneLeft
  <2> QED
    BY <2>1 DEF CollectOk
<1>17. q.prog = "collect" /\ q.flush = <<>> /\ q.nextIdx = p.nextIdx
  BY DEF CollectOk
<1> QED
  BY <1>6, <1>14, <1>15, <1>16, <1>17 DEF CollectOk, u

\* Nothing is written, or something is.
LEMMA NotClosing ==
  ASSUME NEW p, NEW fs, NEW ps, NEW gs, CollectOk(p, fs, ps, gs), p.flush = <<>>
  PROVE  Len(ps) = p.nextIdx /\ Len(fs) = Len(ps) /\ Placed(p.slots, p.todo, {}, ps, gs)
<1>1. \A g : ~Closes(<<>>, g, p.nextIdx, fs, ps)
  BY DEF Closes, ThreeLeft, TwoLeft, OneLeft
<1> QED
  BY <1>1 DEF CollectOk

RowsOf(session) == [i \in DOMAIN session.plies |-> session.plies[i].features]

ToBeWritten(session, from, g) == <<OfFeatures(RowsOf(session)), OfPlies(PlyRecords(session, from)), OfGame(g)>>

\* A game ends, and is to be written.
LEMMA CollectEnds ==
  ASSUME NEW p, NEW q, NEW fs, NEW ps, NEW gs, CollectOk(p, fs, ps, gs), FilesOk(fs, ps, gs), NEW at \in 1 .. Slots,
         p.slots[at].session # None, p.flush = <<>>,
         q.prog = p.prog, q.todo = p.todo, NEW session, session = p.slots[at].session,
         NEW g, g = [game |-> session.game, h |-> session.h, firstIdx |-> p.nextIdx],
         q.flush = ToBeWritten(session, p.nextIdx, g),
         q.nextIdx = p.nextIdx + Len(session.plies),
         q.slots[at].session = None, \A i \in 1 .. Slots : i # at => q.slots[i] = p.slots[i]
  PROVE  CollectOk(q, fs, ps, gs)
<1> DEFINE recs == PlyRecords(session, p.nextIdx)
           rows == RowsOf(session)
           j0 == session.game
<1>1. SessionsOk(p.slots) /\ TodoOk(p.todo) /\ p.prog = "collect"
  BY DEF CollectOk
<1>2. Len(ps) = p.nextIdx /\ Len(fs) = Len(ps) /\ Placed(p.slots, p.todo, {}, ps, gs)
  BY NotClosing
<1>3. GameFollows(session)
  BY <1>1 DEF SessionsOk
<1>4. p.nextIdx \in Nat
  <2>1. IsList(ps)
    BY DEF FilesOk
  <2>2. Len(ps) \in Nat
    BY <2>1, OneMore
  <2> QED
    BY <1>2, <2>2
<1>5. /\ Told(g, recs) /\ DOMAIN recs = DOMAIN session.plies /\ Len(recs) = Len(session.plies)
      /\ Len(session.plies) \in Nat /\ DOMAIN session.plies = 1 .. Len(session.plies)
      /\ \A i \in DOMAIN session.plies : recs[i].h = session.plies[i].features
  BY <1>3, <1>4, GameIsTold
<1>6. g.game = j0 /\ g.firstIdx = p.nextIdx
  OBVIOUS
<1>7. q.flush = <<OfFeatures(rows), OfPlies(recs), OfGame(g)>>
  BY DEF ToBeWritten
<1>8. IsList(rows) /\ Len(rows) = Len(recs) /\ \A i \in DOMAIN recs : rows[i] = recs[i].h
  <2> DEFINE s == session.plies
             n == Len(session.plies)
  <2>1. DOMAIN s = 1 .. n /\ n \in Nat /\ \A i \in DOMAIN s : recs[i].h = s[i].features
    BY <1>5
  <2>2. rows = [i \in DOMAIN s |-> s[i].features]
    BY DEF RowsOf
  <2>3. Len(recs) = n /\ DOMAIN recs = DOMAIN s
    BY <1>5
  <2> HIDE DEF rows, recs, s, n
  <2>4. DOMAIN rows = 1 .. n /\ rows = [i \in 1 .. n |-> rows[i]] /\ \A i \in 1 .. n : rows[i] = s[i].features
    BY <2>1, <2>2
  <2>5. IsList(rows) /\ Len(rows) = n
    BY <2>1, <2>4, Listed
  <2> QED
    BY <2>1, <2>3, <2>4, <2>5
<1>9. q.nextIdx = Len(ps) + Len(recs)
  BY <1>2, <1>5
<1> HIDE DEF recs, rows, j0
<1>10. Holds(p.slots[at].session, j0) /\ \A j : Holds(p.slots[at].session, j) => j = j0
  BY DEF Holds, j0
<1>11. \A j : InSlot(q.slots, j) <=> InSlot(p.slots, j) /\ j # j0
  <2>1. \A j : ~Holds(q.slots[at].session, j)
    BY DEF Holds
  <2>2. \A i \in 1 .. Slots : i # at => \A j : Holds(q.slots[i].session, j) <=> Holds(p.slots[i].session, j)
    OBVIOUS
  <2>3. \A i \in 1 .. Slots : i # at => ~Holds(p.slots[i].session, j0)
    BY <1>1, <1>10 DEF SessionsOk
  <2> QED
    BY <1>10, <2>1, <2>2, <2>3 DEF InSlot
<1>12. InSlot(p.slots, j0)
  BY <1>10 DEF InSlot
<1>13. Placed(q.slots, q.todo, {j0}, ps, gs)
  BY <1>2, <1>11, <1>12 DEF Placed
<1>14. SessionsOk(q.slots)
  <2>1. \A j : ~Holds(q.slots[at].session, j)
    BY DEF Holds
  <2> QED
    BY <1>1, <2>1 DEF SessionsOk
<1>15. ~InPlies(ps, j0)
  BY <1>2, <1>12 DEF Placed
<1>16. ThreeLeft(q.flush, g, q.nextIdx, fs, ps)
  BY <1>2, <1>5, <1>6, <1>7, <1>8, <1>9, <1>15 DEF ThreeLeft
<1> QED
  BY <1>1, <1>6, <1>13, <1>14, <1>16 DEF CollectOk, Closes

\* The program ends: every game is on file.
LEMMA CollectFinished ==
  ASSUME NEW p, NEW fs, NEW ps, NEW gs, CollectOk(p, fs, ps, gs), LockOk(p), ~AtSlot(p), p.pending = <<>>
  PROVE  \A j : InGames(gs, j) <=> j \in 1 .. Games
<1>1. ShapeOk(p) /\ PendingOk(p)
  BY DEF LockOk
<1>2. p.at \in Nat /\ ~(p.at <= Slots)
  BY <1>1, SlotsPositive DEF ShapeOk, AtSlot
<1>3. p.flush = <<>>
  BY <1>1, <1>2 DEF ShapeOk
<1>4. DOMAIN p.pending = {}
  BY EmptyListed
<1>5. \A i \in 1 .. Slots : NothingToDo(p, i)
  BY <1>1, <1>2, <1>4, SlotsPositive DEF PendingOk
<1>6. p.todo = <<>>
  <2>1. 1 \in 1 .. Slots
    BY SlotsPositive
  <2> QED
    BY <2>1, <1>5 DEF NothingToDo
<1>7. Placed(p.slots, p.todo, {}, ps, gs)
  BY <1>3, NotClosing
<1>8. Begun(p.todo) = 1 .. Games
  <2>1. Len(p.todo) = 0
    BY <1>6
  <2> QED
    BY <2>1, SlotsPositive DEF Begun
<1>9. \A j : ~InSlot(p.slots, j)
  BY <1>5 DEF NothingToDo, InSlot, Holds
<1> QED
  BY <1>7, <1>8, <1>9 DEF Placed

\* A write of finalize(): what is left is less, and what is on file follows.
Written(p, q, fs, ps, gs, fs1, ps1, gs1) ==
  LET w == Head(p.flush)
  IN  /\ q.prog = p.prog /\ q.todo = p.todo /\ q.slots = p.slots /\ q.nextIdx = p.nextIdx /\ q.flush = Tail(p.flush)
      /\ fs1 = IF w.file = "features" THEN fs \o w.rows ELSE fs
      /\ ps1 = IF w.file = "plies" THEN ps \o w.rows ELSE ps
      /\ gs1 = IF w.file = "games" THEN gs \o w.rows ELSE gs

\* One of the three writes of a game.
LEMMA CollectWrites ==
  ASSUME NEW p, NEW q, NEW fs, NEW ps, NEW gs, NEW fs1, NEW ps1, NEW gs1, CollectOk(p, fs, ps, gs), FilesOk(fs, ps, gs),
         p.flush # <<>>, Written(p, q, fs, ps, gs, fs1, ps1, gs1)
  PROVE  CollectOk(q, fs1, ps1, gs1) /\ FilesOk(fs1, ps1, gs1)
<1>1. PICK g : Closes(p.flush, g, p.nextIdx, fs, ps) /\ Placed(p.slots, p.todo, {g.game}, ps, gs)
  BY DEF CollectOk
<1>2. SessionsOk(p.slots) /\ TodoOk(p.todo) /\ p.prog = "collect"
  BY DEF CollectOk
<1>3. /\ q.prog = p.prog /\ q.todo = p.todo /\ q.slots = p.slots /\ q.nextIdx = p.nextIdx /\ q.flush = Tail(p.flush)
  BY DEF Written
<1>4. IsList(fs) /\ IsList(ps) /\ IsList(gs) /\ Len(ps) \in Nat /\ Len(fs) \in Nat
  <2>1. IsList(fs) /\ IsList(ps) /\ IsList(gs)
    BY DEF FilesOk
  <2> QED
    BY <2>1, OneMore
<1>5. CASE ThreeLeft(p.flush, g, p.nextIdx, fs, ps)
  <2>1. PICK rows, recs :
          /\ p.flush = <<OfFeatures(rows), OfPlies(recs), OfGame(g)>> /\ Told(g, recs) /\ g.firstIdx = Len(ps)
          /\ p.nextIdx = Len(ps) + Len(recs) /\ Len(fs) = Len(ps)
          /\ IsList(rows) /\ Len(rows) = Len(recs) /\ \A i \in DOMAIN recs : rows[i] = recs[i].h
          /\ ~InPlies(ps, g.game)
    BY <1>5 DEF ThreeLeft
  <2>2. Head(p.flush) = OfFeatures(rows) /\ Tail(p.flush) = <<OfPlies(recs), OfGame(g)>>
    BY <2>1
  <2>3. OfFeatures(rows).file = "features" /\ OfFeatures(rows).rows = rows
    BY DEF OfFeatures
  <2>4. fs1 = fs \o rows /\ ps1 = ps /\ gs1 = gs
    BY <2>2, <2>3 DEF Written
  <2>5. FilesOk(fs1, ps1, gs1)
    BY <2>1, <2>4, FeaturesLonger
  <2>6. /\ Len(fs1) = Len(fs) + Len(rows) /\ \A i \in 1 .. Len(rows) : fs1[Len(fs) + i] = rows[i]
    <3>1. IsList(fs) /\ IsList(rows)
      BY <1>4, <2>1
    <3>2. Len(fs \o rows) = Len(fs) + Len(rows) /\ \A i \in 1 .. Len(rows) : (fs \o rows)[Len(fs) + i] = rows[i]
      BY <3>1, Concatenated
    <3> QED
      BY <2>4, <3>2
  <2>7. DOMAIN recs = 1 .. Len(recs)
    <3>1. IsList(recs)
      BY <2>1 DEF Told, Recorded
    <3> QED
      BY <3>1, OneMore
  <2>8. \A i \in DOMAIN recs : fs1[Len(ps1) + i] = recs[i].h
    BY <2>1, <2>4, <2>6, <2>7
  <2>9. TwoLeft(q.flush, g, q.nextIdx, fs1, ps1)
    BY <1>3, <2>1, <2>2, <2>4, <2>6, <2>8 DEF TwoLeft
  <2> QED
    BY <1>1, <1>2, <1>3, <2>4, <2>5, <2>9 DEF CollectOk, Closes
<1>6. CASE TwoLeft(p.flush, g, p.nextIdx, fs, ps)
  <2>1. PICK recs :
          /\ p.flush = <<OfPlies(recs), OfGame(g)>> /\ Told(g, recs) /\ g.firstIdx = Len(ps)
          /\ p.nextIdx = Len(ps) + Len(recs) /\ Len(fs) = Len(ps) + Len(recs)
          /\ \A i \in DOMAIN recs : fs[Len(ps) + i] = recs[i].h
          /\ ~InPlies(ps, g.game)
    BY <1>6 DEF TwoLeft
  <2>2. Head(p.flush) = OfPlies(recs) /\ Tail(p.flush) = <<OfGame(g)>>
    BY <2>1
  <2>3. OfPlies(recs).file = "plies" /\ OfPlies(recs).rows = recs
    BY DEF OfPlies
  <2>4. fs1 = fs /\ ps1 = ps \o recs /\ gs1 = gs
    BY <2>2, <2>3 DEF Written
  <2>5. (\A i \in DOMAIN ps : ps[i].game # g.game) /\ \A k \in DOMAIN gs : gs[k].game # g.game
    BY <1>1, <2>1 DEF InPlies, Placed, InGames
  <2>6. FilesOk(fs1, ps1, gs1) /\ ToldBy(g, Len(recs), ps1)
    BY <2>1, <2>4, <2>5, PliesLonger
  <2>7. IsList(recs) /\ \A i \in DOMAIN recs : recs[i].game = g.game
    BY <2>1 DEF Told, Recorded
  <2>8. /\ Len(ps1) = Len(ps) + Len(recs) /\ Len(recs) \in Nat /\ DOMAIN ps = 1 .. Len(ps) /\ DOMAIN recs = 1 .. Len(recs)
        /\ DOMAIN ps1 = 1 .. Len(ps) + Len(recs)
        /\ (\A i \in 1 .. Len(ps) : ps1[i] = ps[i]) /\ \A i \in 1 .. Len(recs) : ps1[Len(ps) + i] = recs[i]
    BY <2>4, <2>7, <1>4, Concatenated
  <2>9. OneLeft(q.flush, g, q.nextIdx, fs1, ps1)
    <3>1. q.flush = <<OfGame(g)>>
      BY <1>3, <2>2
    <3>2. q.nextIdx = Len(ps1) /\ Len(fs1) = Len(ps1)
      BY <1>3, <2>1, <2>4, <2>8
    <3> QED
      BY <2>6, <2>8, <3>1, <3>2 DEF OneLeft
  <2>10. \A j : InPlies(ps1, j) => InPlies(ps, j) \/ j = g.game
    <3> SUFFICES ASSUME NEW i \in DOMAIN ps1
                 PROVE  InPlies(ps, ps1[i].game) \/ ps1[i].game = g.game
      BY DEF InPlies
    <3>1. CASE i \in 1 .. Len(ps)
      BY <3>1, <2>8 DEF InPlies
    <3>2. CASE i \notin 1 .. Len(ps)
      <4>1. i - Len(ps) \in 1 .. Len(recs) /\ Len(ps) + (i - Len(ps)) = i
        BY <3>2, <2>8, <1>4
      <4>2. ps1[i] = recs[i - Len(ps)]
        BY <4>1, <2>8
      <4> QED
        BY <4>1, <4>2, <2>7, <2>8
    <3> QED
      BY <3>1, <3>2
  <2>11. Placed(q.slots, q.todo, {g.game}, ps1, gs1)
    BY <1>1, <1>3, <2>4, <2>10 DEF Placed
  <2> QED
    BY <1>2, <1>3, <2>6, <2>9, <2>11 DEF CollectOk, Closes
<1>7. CASE OneLeft(p.flush, g, p.nextIdx, fs, ps)
  <2>1. PICK c \in Nat : /\ p.flush = <<OfGame(g)>> /\ p.nextIdx = Len(ps) /\ Len(fs) = Len(ps) /\ ToldBy(g, c, ps)
    BY <1>7 DEF OneLeft
  <2>2. Head(p.flush) = OfGame(g) /\ Tail(p.flush) = <<>>
    BY <2>1
  <2>3. OfGame(g).file = "games" /\ OfGame(g).rows = <<g>>
    BY DEF OfGame
  <2>4. fs1 = fs /\ ps1 = ps /\ gs1 = gs \o <<g>>
    BY <2>2, <2>3 DEF Written
  <2>5. \A k \in DOMAIN gs : gs[k].game # g.game
    BY <1>1 DEF Placed, InGames
  <2>6. FilesOk(fs, ps, gs \o <<g>>) /\ \A j : InGames(gs \o <<g>>, j) <=> InGames(gs, j) \/ g.game = j
    BY <2>1, <2>5, GamesLonger DEF InGames
  <2>7. Placed(p.slots, p.todo, {}, ps, gs1)
    <3> DEFINE gs2 == gs \o <<g>>
    <3> HIDE DEF gs2
    <3>1. \A j : InGames(gs2, j) <=> InGames(gs, j) \/ g.game = j
      BY <2>6 DEF gs2
    <3>2. Placed(p.slots, p.todo, {}, ps, gs2)
      BY <1>1, <3>1 DEF Placed
    <3> QED
      BY <2>4, <3>2 DEF gs2
  <2>8. q.flush = <<>>
    BY <1>3, <2>2
  <2> QED
    BY <1>2, <1>3, <2>1, <2>4, <2>6, <2>7, <2>8 DEF CollectOk
<1> QED
  BY <1>1, <1>5, <1>6, <1>7 DEF Closes

-----------------------------------------------------------------------------
(* The pipeline: relabel.                                                  *)

IdxOf(dp) == {dp[i].idx : i \in DOMAIN dp}

\* Each line of the deep targets is the only one of its idx; while nothing was made anew, it
\* is that of its own ply.
DeepOk(dp, ps, once) ==
  /\ IsList(dp)
  /\ \A i, j \in DOMAIN dp : dp[i].idx = dp[j].idx => i = j
  /\ \A i \in DOMAIN dp : dp[i] = Torn \/ dp[i].idx \in Nat
  /\ once => \A i \in DOMAIN dp : dp[i] # Torn =>
       \E n \in DOMAIN ps : dp[i].idx = ps[n].idx /\ dp[i].target = TargetOf(ps[n].h, "deep", ps[n].seed)

Unfinished(slot) == slot.session # None /\ (~slot.session.issued \/ slot.search # None)
AtHand(slot, idx) == Unfinished(slot) /\ slot.session.rec.idx = idx
InHand(slots, idx) == \E i \in 1 .. Slots : AtHand(slots[i], idx)
Queued(todo, idx) == \E i \in DOMAIN todo : todo[i].rec.idx = idx

RelabelFollows(session, ps) ==
  /\ DOMAIN session = {"kind", "rec", "h", "issued"} /\ session.kind = "relabel" /\ session.issued \in BOOLEAN
  /\ \E n \in DOMAIN ps : session.rec = ps[n] /\ session.h = ps[n].h

\* Each ply has its deep target, or is in one place only of what is to be done.
RelabelOk(p, ps, dp) ==
  /\ p.prog = "relabel" /\ p.flush = <<>> /\ IsList(p.todo) /\ \A i \in DOMAIN dp : dp[i] # Torn
  /\ \A i \in DOMAIN p.todo : RelabelFollows(p.todo[i], ps) /\ ~p.todo[i].issued
  /\ \A i \in 1 .. Slots : p.slots[i].session # None => RelabelFollows(p.slots[i].session, ps)
  /\ \A i, j \in DOMAIN p.todo : p.todo[i].rec.idx = p.todo[j].rec.idx => i = j
  /\ \A i, j \in 1 .. Slots : \A n : AtHand(p.slots[i], n) /\ AtHand(p.slots[j], n) => i = j
  /\ \A n : Queued(p.todo, n) => ~InHand(p.slots, n) /\ n \notin IdxOf(dp)
  /\ \A n : InHand(p.slots, n) => n \notin IdxOf(dp)
  /\ \A m \in DOMAIN ps : ps[m].idx \in IdxOf(dp) \/ Queued(p.todo, ps[m].idx) \/ InHand(p.slots, ps[m].idx)

\* A step that neither takes nor finishes a position.
LEMMA RelabelStays ==
  ASSUME NEW p, NEW q, NEW ps, NEW dp, RelabelOk(p, ps, dp),
         q.prog = p.prog, q.todo = p.todo, q.flush = p.flush,
         \A i \in 1 .. Slots : q.slots[i].session # None => RelabelFollows(q.slots[i].session, ps),
         \A i \in 1 .. Slots : \A n : AtHand(q.slots[i], n) <=> AtHand(p.slots[i], n)
  PROVE  RelabelOk(q, ps, dp)
<1>1. \A n : InHand(q.slots, n) <=> InHand(p.slots, n)
  BY DEF InHand
<1> QED
  BY <1>1 DEF RelabelOk

\* A slot takes the next position.
LEMMA RelabelTakes ==
  ASSUME NEW p, NEW q, NEW ps, NEW dp, RelabelOk(p, ps, dp), p.todo # <<>>, NEW at \in 1 .. Slots,
         p.slots[at].session = None,
         q.prog = p.prog, q.todo = Tail(p.todo), q.flush = p.flush,
         q.slots[at].session = Head(p.todo), \A i \in 1 .. Slots : i # at => q.slots[i] = p.slots[i]
  PROVE  RelabelOk(q, ps, dp)
<1> DEFINE t == p.todo
           u == q.todo
           x == Head(t).rec.idx
<1>1. /\ IsList(u) /\ Len(t) \in Nat /\ Len(t) >= 1 /\ Len(u) = Len(t) - 1 /\ Head(t) = t[1]
      /\ DOMAIN t = 1 .. Len(t) /\ DOMAIN u = 1 .. Len(t) - 1
      /\ \A i \in 1 .. Len(t) - 1 : u[i] = t[i + 1] /\ i + 1 \in 1 .. Len(t)
  BY OneLess DEF RelabelOk
<1>2. /\ \A i \in DOMAIN t : RelabelFollows(t[i], ps) /\ ~t[i].issued
      /\ \A i, j \in DOMAIN t : t[i].rec.idx = t[j].rec.idx => i = j
  BY DEF RelabelOk
<1>3. q.slots[at].session = Head(t)
  OBVIOUS
<1> HIDE DEF t, u
<1>4. 1 \in DOMAIN t
  BY <1>1
<1>5. RelabelFollows(Head(t), ps) /\ ~Head(t).issued /\ Head(t) # None
  <2>1. RelabelFollows(Head(t), ps) /\ ~Head(t).issued
    BY <1>1, <1>2, <1>4
  <2>2. DOMAIN None = {"kind"} /\ "rec" # "kind"
    BY DEF None
  <2>3. DOMAIN Head(t) = {"kind", "rec", "h", "issued"}
    BY <2>1 DEF RelabelFollows
  <2> QED
    BY <2>1, <2>2, <2>3
<1>6. \A n : AtHand(q.slots[at], n) <=> n = x
  BY <1>3, <1>5 DEF AtHand, Unfinished
<1>7. \A n : ~AtHand(p.slots[at], n)
  BY DEF AtHand, Unfinished
<1>8. \A i \in 1 .. Slots : i # at => \A n : AtHand(q.slots[i], n) <=> AtHand(p.slots[i], n)
  OBVIOUS
<1> HIDE DEF x
<1>9. \A n : InHand(q.slots, n) <=> InHand(p.slots, n) \/ n = x
  BY <1>6, <1>7, <1>8 DEF InHand
<1>10. \A n : Queued(t, n) <=> Queued(u, n) \/ n = x
  <2>1. \A i \in DOMAIN t : i = 1 \/ (i - 1 \in DOMAIN u /\ u[i - 1] = t[i])
    BY <1>1
  <2>2. \A i \in DOMAIN u : i + 1 \in DOMAIN t /\ u[i] = t[i + 1]
    BY <1>1
  <2>3. t[1].rec.idx = x
    BY <1>1 DEF x
  <2> QED
    BY <2>1, <2>2, <2>3, <1>4 DEF Queued
<1>11. ~Queued(u, x)
  <2> SUFFICES ASSUME NEW i \in DOMAIN u, u[i].rec.idx = x
               PROVE  FALSE
    BY DEF Queued
  <2>1. i + 1 \in DOMAIN t /\ t[i + 1].rec.idx = t[1].rec.idx
    BY <1>1 DEF x
  <2>2. i + 1 = 1
    BY <2>1, <1>2, <1>4
  <2> QED
    BY <2>2, <1>1
<1>12. \A i \in DOMAIN u : RelabelFollows(u[i], ps) /\ ~u[i].issued
  BY <1>1, <1>2
<1>13. \A i, j \in DOMAIN u : u[i].rec.idx = u[j].rec.idx => i = j
  <2> SUFFICES ASSUME NEW i \in DOMAIN u, NEW j \in DOMAIN u, u[i].rec.idx = u[j].rec.idx
               PROVE  i = j
    OBVIOUS
  <2>1. i + 1 \in DOMAIN t /\ j + 1 \in DOMAIN t /\ t[i + 1].rec.idx = t[j + 1].rec.idx
    BY <1>1
  <2>2. i + 1 = j + 1
    BY <2>1, <1>2
  <2> QED
    BY <2>2, <1>1
<1>14. /\ \A i, j \in 1 .. Slots : \A n : AtHand(p.slots[i], n) /\ AtHand(p.slots[j], n) => i = j
       /\ \A n : Queued(t, n) => ~InHand(p.slots, n) /\ n \notin IdxOf(dp)
       /\ \A n : InHand(p.slots, n) => n \notin IdxOf(dp)
       /\ \A m \in DOMAIN ps : ps[m].idx \in IdxOf(dp) \/ Queued(t, ps[m].idx) \/ InHand(p.slots, ps[m].idx)
       /\ \A i \in 1 .. Slots : p.slots[i].session # None => RelabelFollows(p.slots[i].session, ps)
       /\ p.prog = "relabel" /\ p.flush = <<>> /\ \A i \in DOMAIN dp : dp[i] # Torn
  BY DEF RelabelOk, t
<1>15. \A i, j \in 1 .. Slots : \A n : AtHand(q.slots[i], n) /\ AtHand(q.slots[j], n) => i = j
  <2>1. \A i \in 1 .. Slots : ~AtHand(p.slots[i], x)
    BY <1>10, <1>14 DEF InHand
  <2> SUFFICES ASSUME NEW i \in 1 .. Slots, NEW j \in 1 .. Slots, NEW n, AtHand(q.slots[i], n), AtHand(q.slots[j], n)
               PROVE  i = j
    OBVIOUS
  <2>2. CASE n = x
    <3>1. i = at
      BY <2>1, <2>2, <1>8
    <3>2. j = at
      BY <2>1, <2>2, <1>8
    <3> QED
      BY <3>1, <3>2
  <2>3. CASE n # x
    <3>1. i # at /\ j # at
      BY <2>3, <1>6
    <3>2. AtHand(p.slots[i], n) /\ AtHand(p.slots[j], n)
      BY <3>1, <1>8
    <3> QED
      BY <3>2, <1>14
  <2> QED
    BY <2>2, <2>3
<1>16. \A i \in 1 .. Slots : q.slots[i].session # None => RelabelFollows(q.slots[i].session, ps)
  BY <1>3, <1>5, <1>14
<1>17. \A n : Queued(u, n) => ~InHand(q.slots, n) /\ n \notin IdxOf(dp)
  BY <1>9, <1>10, <1>11, <1>14
<1>18. \A n : InHand(q.slots, n) => n \notin IdxOf(dp)
  BY <1>9, <1>10, <1>14
<1>19. \A m \in DOMAIN ps : ps[m].idx \in IdxOf(dp) \/ Queued(u, ps[m].idx) \/ InHand(q.slots, ps[m].idx)
  BY <1>9, <1>10, <1>14
<1>20. q.prog = "relabel" /\ q.flush = <<>> /\ \A i \in DOMAIN dp : dp[i] # Torn
  BY <1>14
<1> QED
  BY <1>1, <1>12, <1>13, <1>15, <1>16, <1>17, <1>18, <1>19, <1>20 DEF RelabelOk, u

\* A search of the deep pass is done, and its line is appended.
LEMMA RelabelFinds ==
  ASSUME NEW p, NEW q, NEW ps, NEW dp, NEW once \in BOOLEAN, RelabelOk(p, ps, dp), DeepOk(dp, ps, once),
         \A m \in DOMAIN ps : ps[m].idx \in Nat,
         NEW at \in 1 .. Slots, p.slots[at].session # None, p.slots[at].search # None,
         SearchFollows(p.slots[at].session, p.slots[at].search), Done(p.slots[at].search),
         q.prog = p.prog, q.todo = p.todo, q.flush = p.flush,
         q.slots[at].session = p.slots[at].session, q.slots[at].search = None,
         \A i \in 1 .. Slots : i # at => q.slots[i] = p.slots[i],
         NEW line, line = [idx |-> p.slots[at].session.rec.idx, target |-> Result(p.slots[at].search)]
  PROVE  RelabelOk(q, ps, Append(dp, line)) /\ DeepOk(Append(dp, line), ps, once)
<1> DEFINE session == p.slots[at].session
           search == p.slots[at].search
           d == Append(dp, line)
           x == session.rec.idx
<1>1. RelabelFollows(session, ps)
  BY DEF RelabelOk
<1>2. PICK n0 \in DOMAIN ps : session.rec = ps[n0] /\ session.h = ps[n0].h
  BY <1>1 DEF RelabelFollows
<1>3. session.kind = "relabel" /\ session.issued /\ search.seed = session.rec.seed
  BY <1>1 DEF RelabelFollows, SearchFollows
<1>4. Result(search) = TargetOf(session.h, BudgetOf(session), search.seed)
  BY <1>3, SearchResult
<1>5. line.idx = ps[n0].idx /\ line.target = TargetOf(ps[n0].h, "deep", ps[n0].seed) /\ line.idx = x
  BY <1>2, <1>3, <1>4 DEF BudgetOf
<1>6. line # Torn /\ line.idx \in Nat
  <2>1. line.idx \in Nat
    BY <1>5
  <2>2. Torn.idx = -1
    BY DEF Torn
  <2> QED
    BY <2>1, <2>2
<1>7. /\ IsList(d) /\ Len(dp) \in Nat /\ DOMAIN dp = 1 .. Len(dp) /\ DOMAIN d = 1 .. Len(dp) + 1
      /\ \A i \in 1 .. Len(dp) : d[i] = dp[i]
      /\ d[Len(dp) + 1] = line
  <2>1. IsList(dp)
    BY DEF DeepOk
  <2> QED
    BY <2>1, OneMore
<1>8. \A n : AtHand(p.slots[at], n) <=> n = x
  BY DEF AtHand, Unfinished
<1>9. \A n : ~AtHand(q.slots[at], n)
  BY <1>3 DEF AtHand, Unfinished
<1>10. \A i \in 1 .. Slots : i # at => \A n : AtHand(q.slots[i], n) <=> AtHand(p.slots[i], n)
  OBVIOUS
<1>11. \A i \in 1 .. Slots : q.slots[i].session # None => RelabelFollows(q.slots[i].session, ps)
  BY DEF RelabelOk
<1> HIDE DEF d, x
<1>12. \A n : n \in IdxOf(d) <=> n \in IdxOf(dp) \/ n = x
  BY <1>5, <1>7 DEF IdxOf
<1>13. /\ \A i, j \in 1 .. Slots : \A n : AtHand(p.slots[i], n) /\ AtHand(p.slots[j], n) => i = j
       /\ \A n : Queued(p.todo, n) => ~InHand(p.slots, n) /\ n \notin IdxOf(dp)
       /\ \A n : InHand(p.slots, n) => n \notin IdxOf(dp)
       /\ \A m \in DOMAIN ps : ps[m].idx \in IdxOf(dp) \/ Queued(p.todo, ps[m].idx) \/ InHand(p.slots, ps[m].idx)
       /\ \A i \in DOMAIN p.todo : RelabelFollows(p.todo[i], ps) /\ ~p.todo[i].issued
       /\ \A i, j \in DOMAIN p.todo : p.todo[i].rec.idx = p.todo[j].rec.idx => i = j
       /\ p.prog = "relabel" /\ p.flush = <<>> /\ IsList(p.todo) /\ \A i \in DOMAIN dp : dp[i] # Torn
  BY DEF RelabelOk
<1>14. \A n : InHand(p.slots, n) <=> InHand(q.slots, n) \/ n = x
  BY <1>8, <1>9, <1>10 DEF InHand
<1>15. ~InHand(q.slots, x)
  BY <1>8, <1>9, <1>10, <1>13 DEF InHand
<1>16. x \notin IdxOf(dp)
  BY <1>13, <1>14
<1>17. \A i \in DOMAIN d : d[i] # Torn
  BY <1>6, <1>7, <1>13
<1>18. \A i, j \in DOMAIN d : d[i].idx = d[j].idx => i = j
  <2>1. \A i, j \in DOMAIN dp : dp[i].idx = dp[j].idx => i = j
    BY DEF DeepOk
  <2>2. \A i \in DOMAIN dp : dp[i].idx # x
    BY <1>16 DEF IdxOf
  <2>3. \A i \in DOMAIN d : (i \in DOMAIN dp /\ d[i] = dp[i]) \/ (i = Len(dp) + 1 /\ d[i].idx = x)
    BY <1>5, <1>7
  <2> QED
    BY <2>1, <2>2, <2>3
<1>19. DeepOk(d, ps, once)
  <2>1. \A i \in DOMAIN d : (i \in DOMAIN dp /\ d[i] = dp[i]) \/ d[i] = line
    BY <1>7
  <2>2. /\ \A i \in DOMAIN dp : dp[i] = Torn \/ dp[i].idx \in Nat
        /\ once => \A i \in DOMAIN dp : dp[i] # Torn =>
             \E n \in DOMAIN ps : dp[i].idx = ps[n].idx /\ dp[i].target = TargetOf(ps[n].h, "deep", ps[n].seed)
    BY DEF DeepOk
  <2>3. \A i \in DOMAIN d : d[i] = Torn \/ d[i].idx \in Nat
    BY <2>1, <2>2, <1>6
  <2>4. once => \A i \in DOMAIN d : d[i] # Torn =>
             \E n \in DOMAIN ps : d[i].idx = ps[n].idx /\ d[i].target = TargetOf(ps[n].h, "deep", ps[n].seed)
    BY <2>1, <2>2, <1>5
  <2> QED
    BY <2>3, <2>4, <1>7, <1>18 DEF DeepOk
<1>20. \A i, j \in 1 .. Slots : \A n : AtHand(q.slots[i], n) /\ AtHand(q.slots[j], n) => i = j
  BY <1>9, <1>10, <1>13
<1>21. \A n : Queued(p.todo, n) => ~InHand(q.slots, n) /\ n \notin IdxOf(d)
  BY <1>12, <1>13, <1>14
<1>22. \A n : InHand(q.slots, n) => n \notin IdxOf(d)
  BY <1>12, <1>13, <1>14, <1>15
<1>23. \A m \in DOMAIN ps : ps[m].idx \in IdxOf(d) \/ Queued(p.todo, ps[m].idx) \/ InHand(q.slots, ps[m].idx)
  BY <1>12, <1>13, <1>14
<1>24. RelabelOk(q, ps, d)
  BY <1>11, <1>13, <1>17, <1>20, <1>21, <1>22, <1>23 DEF RelabelOk
<1> QED
  BY <1>19, <1>24 DEF d

\* The line that a crash cuts short has no idx of a ply.
LEMMA DeepTorn ==
  ASSUME NEW ps, NEW dp, NEW once \in BOOLEAN, DeepOk(dp, ps, once), \A i \in DOMAIN dp : dp[i] # Torn
  PROVE  DeepOk(Append(dp, Torn), ps, once)
<1> DEFINE d == Append(dp, Torn)
<1>1. /\ IsList(d) /\ Len(dp) \in Nat /\ DOMAIN dp = 1 .. Len(dp) /\ DOMAIN d = 1 .. Len(dp) + 1
      /\ \A i \in 1 .. Len(dp) : d[i] = dp[i]
      /\ d[Len(dp) + 1] = Torn
  <2>1. IsList(dp)
    BY DEF DeepOk
  <2> QED
    BY <2>1, OneMore
<1> HIDE DEF d
<1>2. \A i \in DOMAIN d : (i \in DOMAIN dp /\ d[i] = dp[i]) \/ (i = Len(dp) + 1 /\ d[i] = Torn)
  BY <1>1
<1>3. /\ \A i \in DOMAIN dp : dp[i].idx \in Nat
      /\ \A i, j \in DOMAIN dp : dp[i].idx = dp[j].idx => i = j
      /\ once => \A i \in DOMAIN dp : dp[i] # Torn =>
             \E n \in DOMAIN ps : dp[i].idx = ps[n].idx /\ dp[i].target = TargetOf(ps[n].h, "deep", ps[n].seed)
  BY DEF DeepOk
<1>4. Torn.idx \notin Nat
  BY DEF Torn
<1>5. \A i, j \in DOMAIN d : d[i].idx = d[j].idx => i = j
  BY <1>2, <1>3, <1>4
<1>6. \A i \in DOMAIN d : d[i] = Torn \/ d[i].idx \in Nat
  BY <1>2, <1>3
<1>7. once => \A i \in DOMAIN d : d[i] # Torn =>
             \E n \in DOMAIN ps : d[i].idx = ps[n].idx /\ d[i].target = TargetOf(ps[n].h, "deep", ps[n].seed)
  BY <1>2, <1>3
<1>8. DeepOk(d, ps, once)
  BY <1>1, <1>5, <1>6, <1>7 DEF DeepOk
<1> QED
  BY <1>8 DEF d

\* What the deep pass begins with: the plies that have no target.
LEMMA RelabelBegins ==
  ASSUME NEW ps, IsList(ps), NEW dp, \A i \in DOMAIN dp : dp[i] # Torn,
         \A i \in DOMAIN ps : PlyFollows(ps[i], i),
         NEW todo, todo = Todo(ps, IdxOf(dp)), NEW sessions, sessions = [i \in DOMAIN todo |-> RelabelSession(todo[i])]
  PROVE  /\ IsList(sessions) /\ RelabelOk(LockStep("relabel", sessions), ps, dp)
<1> DEFINE S == {i \in DOMAIN ps : ps[i].idx \notin IdxOf(dp)}
           c == Cardinality(S)
           o == Ord(S)
<1>1. Len(ps) \in Nat /\ DOMAIN ps = 1 .. Len(ps)
  BY OneMore
<1>2. \A i \in DOMAIN ps : ps[i].idx = i - 1
  BY DEF PlyFollows
<1>3. /\ c \in Nat /\ \A n \in 1 .. c : o[n] \in S
      /\ \A m, n \in 1 .. c : m < n => o[m] < o[n]
      /\ \A i \in S : \E n \in 1 .. c : o[n] = i
  <2>1. S \in SUBSET (1 .. Len(ps))
    BY <1>1
  <2> HIDE DEF S
  <2> QED
    BY <2>1, <1>1, Ranks
<1>4. todo = AtPlaces(ps, S)
  BY DEF Todo
<1>5. \A i : i \in S <=> i \in DOMAIN ps /\ ps[i].idx \notin IdxOf(dp)
  OBVIOUS
<1> HIDE DEF S
<1>6. DOMAIN todo = 1 .. c /\ \A n \in 1 .. c : todo[n] = ps[o[n]]
  <2>1. /\ AtPlaces(ps, S) = [n \in 1 .. c |-> ps[o[n]]]
        /\ DOMAIN AtPlaces(ps, S) = 1 .. c
    BY <1>3, OrdAtPlaces
  <2> QED
    BY <2>1, <1>4
<1> HIDE DEF c, o
<1>7. DOMAIN sessions = 1 .. c /\ \A n \in 1 .. c : sessions[n] = RelabelSession(ps[o[n]])
  BY <1>6
<1>8. IsList(sessions)
  <2>1. sessions = [n \in 1 .. c |-> sessions[n]]
    BY <1>6
  <2> QED
    BY <2>1, <1>7, <1>3, Listed
<1>9. \A n \in 1 .. c : o[n] \in DOMAIN ps /\ sessions[n].rec = ps[o[n]] /\ sessions[n].rec.idx = o[n] - 1
  BY <1>2, <1>3, <1>5, <1>7 DEF RelabelSession
<1>10. \A n \in 1 .. c : RelabelFollows(sessions[n], ps) /\ ~sessions[n].issued
  <2> SUFFICES ASSUME NEW n \in 1 .. c
               PROVE  RelabelFollows(sessions[n], ps) /\ ~sessions[n].issued
    OBVIOUS
  <2>1. sessions[n] = RelabelSession(ps[o[n]]) /\ o[n] \in DOMAIN ps
    BY <1>7, <1>9
  <2> DEFINE r == ps[o[n]]
             s == RelabelSession(r)
  <2>2. /\ DOMAIN s = {"kind", "rec", "h", "issued"} /\ s.kind = "relabel"
        /\ s.issued = FALSE /\ s.rec = r /\ s.h = r.h
    BY DEF RelabelSession
  <2>3. \E m \in DOMAIN ps : r = ps[m]
    BY <2>1
  <2> HIDE DEF s, r
  <2>4. RelabelFollows(s, ps) /\ ~s.issued
    BY <2>2, <2>3 DEF RelabelFollows
  <2> QED
    BY <2>1, <2>4 DEF s, r
<1>11. \A i, j \in 1 .. c : sessions[i].rec.idx = sessions[j].rec.idx => i = j
  <2> SUFFICES ASSUME NEW i \in 1 .. c, NEW j \in 1 .. c, sessions[i].rec.idx = sessions[j].rec.idx
               PROVE  i = j
    OBVIOUS
  <2>1. o[i] \in 1 .. Len(ps) /\ o[j] \in 1 .. Len(ps) /\ o[i] - 1 = o[j] - 1
    BY <1>1, <1>9
  <2>2. o[i] = o[j] /\ ~(o[i] < o[j]) /\ ~(o[j] < o[i])
    BY <2>1, <1>1
  <2>3. ~(i < j) /\ ~(j < i)
    BY <2>2, <1>3
  <2> QED
    BY <2>3, <1>3
<1>12. \A n : Queued(sessions, n) => n \notin IdxOf(dp)
  <2>1. \A i \in 1 .. c : sessions[i].rec.idx \notin IdxOf(dp)
    BY <1>3, <1>5, <1>9
  <2> QED
    BY <2>1, <1>7 DEF Queued
<1>13. \A m \in DOMAIN ps : ps[m].idx \in IdxOf(dp) \/ Queued(sessions, ps[m].idx)
  <2> SUFFICES ASSUME NEW m \in DOMAIN ps, ps[m].idx \notin IdxOf(dp)
               PROVE  Queued(sessions, ps[m].idx)
    OBVIOUS
  <2>1. PICK n \in 1 .. c : o[n] = m
    BY <1>3, <1>5
  <2>2. sessions[n].rec.idx = ps[m].idx
    BY <2>1, <1>9
  <2> QED
    BY <2>2, <1>7 DEF Queued
<1>14. /\ LockStep("relabel", sessions).prog = "relabel" /\ LockStep("relabel", sessions).todo = sessions
       /\ LockStep("relabel", sessions).flush = <<>>
       /\ \A i \in 1 .. Slots : LockStep("relabel", sessions).slots[i] = EmptySlot
  BY <1>8, LockBegun
<1> DEFINE q == LockStep("relabel", sessions)
<1>15. \A i \in 1 .. Slots : q.slots[i].session = None
  BY <1>14 DEF EmptySlot
<1> HIDE DEF q
<1>16. \A i \in 1 .. Slots : \A n : ~AtHand(q.slots[i], n)
  BY <1>15 DEF AtHand, Unfinished
<1>17. \A n : ~InHand(q.slots, n)
  BY <1>16 DEF InHand
<1>18. q.prog = "relabel" /\ q.todo = sessions /\ q.flush = <<>>
  BY <1>14 DEF q
<1>19. RelabelOk(q, ps, dp)
  BY <1>7, <1>8, <1>10, <1>11, <1>12, <1>13, <1>15, <1>16, <1>17, <1>18 DEF RelabelOk
<1> QED
  BY <1>8, <1>19 DEF q

\* A pass that ends has a target for every ply.
LEMMA RelabelFinished ==
  ASSUME NEW p, NEW ps, NEW dp, RelabelOk(p, ps, dp), LockOk(p), ~AtSlot(p), p.pending = <<>>
  PROVE  \A m \in DOMAIN ps : ps[m].idx \in IdxOf(dp)
<1>1. ShapeOk(p) /\ PendingOk(p)
  BY DEF LockOk
<1>2. p.at \in Nat /\ ~(p.at <= Slots)
  BY <1>1, SlotsPositive DEF ShapeOk, AtSlot
<1>3. DOMAIN p.pending = {}
  BY EmptyListed
<1>4. \A i \in 1 .. Slots : NothingToDo(p, i)
  BY <1>1, <1>2, <1>3, SlotsPositive DEF PendingOk
<1>5. p.todo = <<>>
  <2>1. 1 \in 1 .. Slots
    BY SlotsPositive
  <2> QED
    BY <2>1, <1>4 DEF NothingToDo
<1>6. \A n : ~InHand(p.slots, n)
  BY <1>4 DEF NothingToDo, InHand, AtHand, Unfinished
<1>7. \A n : ~Queued(p.todo, n)
  BY <1>5, EmptyListed DEF Queued
<1> QED
  BY <1>6, <1>7 DEF RelabelOk

-----------------------------------------------------------------------------
(* The pipeline: the steps of a program that runs its slots.               *)

CorpusOk(p, fs, ps, gs, dp, col, rem) ==
  /\ FilesOk(fs, ps, gs) /\ DeepOk(dp, ps, ~rem) /\ rem \in BOOLEAN /\ col \in BOOLEAN
  /\ p.kind \in {"idle", "lockstep", "shards", "value"} /\ (p.kind = "idle" => p = Idle)
  /\ p.kind = "shards" => DOMAIN p = {"kind", "writes", "records"}
  /\ p.kind = "value" => DOMAIN p = {"kind", "files", "cursor"}
  /\ p.kind = "lockstep" => LockOk(p)
  /\ p.kind = "lockstep" /\ p.prog = "collect" =>
       CollectOk(p, fs, ps, gs) /\ (col => rem) /\ (~rem => dp = <<>>)
  /\ p.kind = "lockstep" /\ p.prog = "relabel" => RelabelOk(p, ps, dp)
  /\ col /\ ~rem => \A j : InGames(gs, j) <=> j \in 1 .. Games

\* A program runs its slots.
Runs(p, fs, ps, gs, dp) ==
  /\ p.kind = "lockstep" /\ LockOk(p)
  /\ \/ p.prog = "collect" /\ CollectOk(p, fs, ps, gs)
     \/ p.prog = "relabel" /\ RelabelOk(p, ps, dp)

\* A program that runs its slots may do a step that leaves the files alone.
LEMMA CorpusRuns ==
  ASSUME NEW p, NEW fs, NEW ps, NEW gs, NEW dp, NEW col, NEW rem, CorpusOk(p, fs, ps, gs, dp, col, rem)
  PROVE  /\ p.kind = "lockstep" => Runs(p, fs, ps, gs, dp)
         /\ \A q : Runs(p, fs, ps, gs, dp) /\ q.prog = p.prog /\ Runs(q, fs, ps, gs, dp) => CorpusOk(q, fs, ps, gs, dp, col, rem)
<1>1. p.kind = "lockstep" => p.prog \in {"collect", "relabel"}
  BY DEF CorpusOk, LockOk, ShapeOk
<1>2. p.kind = "lockstep" => Runs(p, fs, ps, gs, dp)
  BY <1>1 DEF CorpusOk, Runs
<1>3. \A q : CollectOk(q, fs, ps, gs) => q.prog = "collect"
  BY DEF CollectOk
<1>4. \A q : RelabelOk(q, ps, dp) => q.prog = "relabel"
  BY DEF RelabelOk
<1>5. \A q : Runs(p, fs, ps, gs, dp) /\ q.prog = p.prog /\ Runs(q, fs, ps, gs, dp) => CorpusOk(q, fs, ps, gs, dp, col, rem)
  BY <1>3, <1>4 DEF CorpusOk, Runs
<1> QED
  BY <1>2, <1>5

\* The session of a slot is of its program.
LEMMA SessionOfProgram ==
  ASSUME NEW p, NEW fs, NEW ps, NEW gs, NEW dp, Runs(p, fs, ps, gs, dp), NEW i \in 1 .. Slots, p.slots[i].session # None
  PROVE  /\ p.prog = "collect" => GameFollows(p.slots[i].session) /\ p.slots[i].session.kind = "game"
         /\ p.prog = "relabel" => RelabelFollows(p.slots[i].session, ps) /\ p.slots[i].session.kind = "relabel"
         /\ p.prog \in {"collect", "relabel"}
<1>1. p.prog = "collect" => GameFollows(p.slots[i].session)
  BY DEF Runs, CollectOk, RelabelOk, SessionsOk
<1>2. p.prog = "relabel" => RelabelFollows(p.slots[i].session, ps)
  BY DEF Runs, CollectOk, RelabelOk
<1> QED
  BY <1>1, <1>2 DEF GameFollows, RelabelFollows, Runs

\* In a slot without a session nothing is searched, and no session is a search.
LEMMA SlotAt ==
  ASSUME NEW p, LockOk(p), p.at <= Slots
  PROVE  /\ AtSlot(p) /\ p.at \in Nat /\ p.at + 1 \in Nat
         /\ SearchFollows(p.slots[p.at].session, p.slots[p.at].search)
         /\ p.slots[p.at].session = None => p.slots[p.at].search = None
         /\ DOMAIN p = {"kind", "prog", "todo", "at", "pending", "slots", "nextIdx", "flush"}
         /\ DOMAIN p.slots = 1 .. Slots /\ \A i \in 1 .. Slots : DOMAIN p.slots[i] = {"session", "search"}
         /\ IsList(p.todo) /\ p.pending \in Seq(1 .. Slots)
<1>1. ShapeOk(p) /\ SlotsOk(p)
  BY DEF LockOk
<1>2. AtSlot(p) /\ p.at \in Nat /\ p.at + 1 \in Nat
  BY <1>1, SlotsPositive DEF ShapeOk, AtSlot
<1>3. SearchFollows(p.slots[p.at].session, p.slots[p.at].search)
  BY <1>1, <1>2 DEF SlotsOk, AtSlot
<1>4. p.slots[p.at].session = None => p.slots[p.at].search = None
  BY <1>3 DEF SearchFollows
<1> QED
  BY <1>1, <1>2, <1>3, <1>4 DEF ShapeOk

\* Take.
LEMMA RunsTake ==
  ASSUME NEW p, NEW q, NEW fs, NEW ps, NEW gs, NEW dp, Runs(p, fs, ps, gs, dp),
         p.at <= Slots, p.flush = <<>>, p.slots[p.at].session = None,
         q = IF p.todo = <<>> THEN [p EXCEPT !.at = @ + 1]
             ELSE [p EXCEPT !.slots[p.at].session = Head(p.todo), !.todo = Tail(@)]
  PROVE  Runs(q, fs, ps, gs, dp) /\ q.prog = p.prog
<1>1. LockOk(p) /\ p.kind = "lockstep"
  BY DEF Runs
<1>2. /\ AtSlot(p) /\ p.at \in 1 .. Slots /\ p.at \in Nat
      /\ p.slots[p.at].search = None
      /\ DOMAIN p = {"kind", "prog", "todo", "at", "pending", "slots", "nextIdx", "flush"}
      /\ DOMAIN p.slots = 1 .. Slots /\ \A i \in 1 .. Slots : DOMAIN p.slots[i] = {"session", "search"}
      /\ IsList(p.todo)
  BY <1>1, SlotAt DEF AtSlot
<1>3. CASE p.todo = <<>>
  <2>1. q = [p EXCEPT !.at = @ + 1]
    BY <1>3
  <2>2. /\ DOMAIN q = DOMAIN p /\ q.kind = p.kind /\ q.prog = p.prog /\ q.at = p.at + 1
        /\ q.todo = p.todo /\ q.nextIdx = p.nextIdx /\ q.flush = p.flush /\ q.pending = p.pending /\ q.slots = p.slots
    BY <2>1, <1>2
  <2>3. Passed(p, q)
    BY <2>2, <1>2 DEF Passed
  <2>4. LockOk(q)
    BY <2>2, <2>3, <1>1, <1>2, <1>3, LockPassed DEF NothingToDo
  <2>5. CASE p.prog = "collect"
    <3>1. CollectOk(p, fs, ps, gs)
      BY <2>5 DEF Runs
    <3>2. \A i \in 1 .. Slots : q.slots[i].session # None => GameFollows(q.slots[i].session)
      BY <2>2, <3>1 DEF CollectOk, SessionsOk
    <3>3. CollectOk(q, fs, ps, gs)
      BY <2>2, <3>1, <3>2, CollectStays
    <3> QED
      BY <3>3, <2>2, <2>4, <2>5, <1>1 DEF Runs
  <2>6. CASE p.prog = "relabel"
    <3>1. RelabelOk(p, ps, dp)
      BY <2>6 DEF Runs
    <3>2. \A i \in 1 .. Slots : q.slots[i].session # None => RelabelFollows(q.slots[i].session, ps)
      BY <2>2, <3>1 DEF RelabelOk
    <3>3. RelabelOk(q, ps, dp)
      BY <2>2, <3>1, <3>2, RelabelStays
    <3> QED
      BY <3>3, <2>2, <2>4, <2>6, <1>1 DEF Runs
  <2> QED
    BY <2>5, <2>6, <2>2 DEF Runs
<1>4. CASE p.todo # <<>>
  <2>1. q = [p EXCEPT !.slots[p.at].session = Head(p.todo), !.todo = Tail(@)]
    BY <1>4
  <2>2. /\ DOMAIN q = DOMAIN p /\ q.kind = p.kind /\ q.prog = p.prog /\ q.at = p.at
        /\ q.todo = Tail(p.todo) /\ q.nextIdx = p.nextIdx /\ q.flush = p.flush /\ q.pending = p.pending
        /\ q.slots = [p.slots EXCEPT ![p.at].session = Head(p.todo)]
    BY <2>1, <1>2
  <2>3. /\ DOMAIN q.slots = 1 .. Slots /\ \A i \in 1 .. Slots : i # p.at => q.slots[i] = p.slots[i]
        /\ q.slots[p.at] = [p.slots[p.at] EXCEPT !.session = Head(p.todo)]
    BY <2>2, <1>2
  <2>4. q.slots[p.at].session = Head(p.todo) /\ q.slots[p.at].search = None /\ DOMAIN q.slots[p.at] = {"session", "search"}
    BY <2>3, <1>2
  <2>5. Moved(p, q)
    BY <2>2, <2>3, <2>4 DEF Moved
  <2>6. IsList(q.todo) /\ Drained(p.todo, q.todo)
    BY <2>2, <1>2, <1>4, OneLess DEF Drained
  <2>7. SearchFollows(q.slots[p.at].session, q.slots[p.at].search)
    BY <2>4 DEF SearchFollows
  <2>8. LockOk(q)
    BY <2>5, <2>6, <2>7, <1>1, <1>2, LockMoved
  <2>11. PICK at \in 1 .. Slots : at = p.at
    BY <1>2
  <2>12. /\ p.todo # <<>> /\ p.slots[at].session = None /\ p.flush = <<>>
         /\ q.prog = p.prog /\ q.todo = Tail(p.todo) /\ q.flush = p.flush /\ q.nextIdx = p.nextIdx
         /\ q.slots[at].session = Head(p.todo) /\ \A i \in 1 .. Slots : i # at => q.slots[i] = p.slots[i]
    BY <2>2, <2>3, <2>4, <2>11, <1>4
  <2>9. CASE p.prog = "collect"
    <3>1. CollectOk(p, fs, ps, gs)
      BY <2>9 DEF Runs
    <3>2. CollectOk(q, fs, ps, gs)
      BY <3>1, <2>11, <2>12, CollectTakes
    <3> QED
      BY <3>2, <2>2, <2>8, <2>9, <1>1 DEF Runs
  <2>10. CASE p.prog = "relabel"
    <3>1. RelabelOk(p, ps, dp)
      BY <2>10 DEF Runs
    <3>2. RelabelOk(q, ps, dp)
      BY <3>1, <2>11, <2>12, RelabelTakes
    <3> QED
      BY <3>2, <2>2, <2>8, <2>10, <1>1 DEF Runs
  <2> QED
    BY <2>9, <2>10, <2>2 DEF Runs
<1> QED
  BY <1>3, <1>4

GameLine(session, from) == [game |-> session.game, h |-> session.h, firstIdx |-> from]

\* From p to q the session of the current slot ends.
Ended(p, q, session) ==
  /\ DOMAIN q = DOMAIN p /\ q.kind = p.kind /\ q.prog = p.prog /\ q.at = p.at
  /\ q.todo = p.todo /\ q.pending = p.pending
  /\ q.slots = [p.slots EXCEPT ![p.at].session = None]
  /\ q.flush = (IF session.kind = "game" THEN ToBeWritten(session, p.nextIdx, GameLine(session, p.nextIdx)) ELSE <<>>)
  /\ q.nextIdx = (IF session.kind = "game" THEN p.nextIdx + Len(session.plies) ELSE p.nextIdx)

\* EndSession.
LEMMA RunsEnd ==
  ASSUME NEW p, NEW q, NEW fs, NEW ps, NEW gs, NEW dp, Runs(p, fs, ps, gs, dp), FilesOk(fs, ps, gs),
         p.at <= Slots, p.flush = <<>>, NEW session, session = p.slots[p.at].session, session # None,
         p.slots[p.at].search = None, NoSpec(session), Ended(p, q, session)
  PROVE  Runs(q, fs, ps, gs, dp) /\ q.prog = p.prog
<1>1. LockOk(p) /\ p.kind = "lockstep"
  BY DEF Runs
<1>2. /\ AtSlot(p) /\ p.at \in 1 .. Slots
      /\ DOMAIN p.slots = 1 .. Slots /\ \A i \in 1 .. Slots : DOMAIN p.slots[i] = {"session", "search"}
      /\ IsList(p.todo)
  BY <1>1, SlotAt DEF AtSlot
<1>3. /\ DOMAIN q = DOMAIN p /\ q.kind = p.kind /\ q.prog = p.prog /\ q.at = p.at
      /\ q.todo = p.todo /\ q.pending = p.pending
      /\ q.slots = [p.slots EXCEPT ![p.at].session = None]
      /\ session.kind = "game" => q.flush = ToBeWritten(session, p.nextIdx, GameLine(session, p.nextIdx))
                                  /\ q.nextIdx = p.nextIdx + Len(session.plies)
      /\ session.kind # "game" => q.flush = <<>>
  BY DEF Ended
<1>4. /\ DOMAIN q.slots = 1 .. Slots /\ \A i \in 1 .. Slots : i # p.at => q.slots[i] = p.slots[i]
      /\ q.slots[p.at] = [p.slots[p.at] EXCEPT !.session = None]
  BY <1>2, <1>3
<1>5. q.slots[p.at].session = None /\ q.slots[p.at].search = None /\ DOMAIN q.slots[p.at] = {"session", "search"}
  <2>1. PICK slot : slot = p.slots[p.at]
    OBVIOUS
  <2>2. DOMAIN slot = {"session", "search"} /\ slot.search = None
    BY <2>1, <1>2
  <2>3. q.slots[p.at] = [slot EXCEPT !.session = None]
    BY <2>1, <1>4
  <2> QED
    BY <2>2, <2>3
<1>6. Moved(p, q)
  BY <1>3, <1>4, <1>5 DEF Moved
<1>7. SearchFollows(q.slots[p.at].session, q.slots[p.at].search)
  BY <1>5 DEF SearchFollows
<1>8. LockOk(q)
  BY <1>6, <1>7, <1>1, <1>2, <1>3, LockMoved DEF Drained
<1>9. PICK at \in 1 .. Slots : at = p.at
  BY <1>2
<1>10. /\ p.prog = "collect" => session.kind = "game"
       /\ p.prog = "relabel" => session.kind = "relabel"
       /\ p.prog \in {"collect", "relabel"}
  BY <1>2, SessionOfProgram
<1>11. CASE p.prog = "collect"
  <2>1. CollectOk(p, fs, ps, gs)
    BY <1>11 DEF Runs
  <2>2. PICK g : g = GameLine(session, p.nextIdx)
    OBVIOUS
  <2>3. /\ q.flush = ToBeWritten(session, p.nextIdx, g)
        /\ q.nextIdx = p.nextIdx + Len(session.plies)
    BY <1>3, <1>10, <1>11, <2>2
  <2>4. /\ p.slots[at].session # None /\ session = p.slots[at].session
        /\ q.slots[at].session = None /\ \A i \in 1 .. Slots : i # at => q.slots[i] = p.slots[i]
        /\ q.prog = p.prog /\ q.todo = p.todo
    BY <1>3, <1>4, <1>5, <1>9
  <2>5. CollectOk(q, fs, ps, gs)
    BY <2>1, <2>2, <2>3, <2>4, CollectEnds DEF GameLine
  <2> QED
    BY <2>5, <1>1, <1>3, <1>8, <1>11 DEF Runs
<1>12. CASE p.prog = "relabel"
  <2>1. RelabelOk(p, ps, dp)
    BY <1>12 DEF Runs
  <2>2. q.flush = p.flush
    BY <1>3, <1>10, <1>12
  <2>3. session.issued
    BY <1>10, <1>12 DEF NoSpec
  <2>4. \A n : ~AtHand(p.slots[p.at], n) /\ ~AtHand(q.slots[p.at], n)
    BY <2>3, <1>5 DEF AtHand, Unfinished
  <2>5. \A i \in 1 .. Slots : \A n : AtHand(q.slots[i], n) <=> AtHand(p.slots[i], n)
    BY <2>4, <1>4
  <2>6. \A i \in 1 .. Slots : q.slots[i].session # None => RelabelFollows(q.slots[i].session, ps)
    BY <2>1, <1>4, <1>5 DEF RelabelOk
  <2>7. RelabelOk(q, ps, dp)
    BY <2>1, <2>2, <2>5, <2>6, <1>3, RelabelStays
  <2> QED
    BY <2>7, <1>1, <1>3, <1>8, <1>12 DEF Runs
<1> QED
  BY <1>3, <1>10, <1>11, <1>12

\* StartSearch.
LEMMA RunsStart ==
  ASSUME NEW p, NEW q, NEW fs, NEW ps, NEW gs, NEW dp, Runs(p, fs, ps, gs, dp),
         p.at <= Slots, p.flush = <<>>, NEW session, session = p.slots[p.at].session, session # None,
         p.slots[p.at].search = None, ~NoSpec(session), NEW search,
         search = [kind |-> "search", h |-> session.h, answers |-> <<>>, features |-> <<>>,
                   budget |-> BudgetOf(session), seed |-> search.seed],
         session.kind = "relabel" => search.seed = session.rec.seed,
         q = [p EXCEPT !.slots[p.at] = [session |-> Issued(session), search |-> search]]
  PROVE  Runs(q, fs, ps, gs, dp) /\ q.prog = p.prog
<1> DEFINE new == Issued(session)
<1>1. LockOk(p) /\ p.kind = "lockstep"
  BY DEF Runs
<1>2. /\ AtSlot(p) /\ p.at \in 1 .. Slots
      /\ DOMAIN p = {"kind", "prog", "todo", "at", "pending", "slots", "nextIdx", "flush"}
      /\ DOMAIN p.slots = 1 .. Slots /\ \A i \in 1 .. Slots : DOMAIN p.slots[i] = {"session", "search"}
      /\ IsList(p.todo)
  BY <1>1, SlotAt DEF AtSlot
<1>3. /\ DOMAIN q = DOMAIN p /\ q.kind = p.kind /\ q.prog = p.prog /\ q.at = p.at
      /\ q.todo = p.todo /\ q.pending = p.pending /\ q.flush = p.flush /\ q.nextIdx = p.nextIdx
      /\ q.slots = [p.slots EXCEPT ![p.at] = [session |-> new, search |-> search]]
  BY <1>2
<1> HIDE DEF new
<1>4. /\ DOMAIN q.slots = 1 .. Slots /\ \A i \in 1 .. Slots : i # p.at => q.slots[i] = p.slots[i]
      /\ q.slots[p.at].session = new /\ q.slots[p.at].search = search /\ DOMAIN q.slots[p.at] = {"session", "search"}
  BY <1>2, <1>3
<1>5. Moved(p, q)
  BY <1>3, <1>4 DEF Moved
<1>6. /\ p.prog = "collect" => session.kind = "game" /\ GameFollows(session)
      /\ p.prog = "relabel" => session.kind = "relabel" /\ RelabelFollows(session, ps)
      /\ p.prog \in {"collect", "relabel"}
  BY <1>2, SessionOfProgram
<1>7. p.prog = "collect" => new = session
  BY <1>6 DEF new, Issued
<1>8. p.prog = "relabel" => DOMAIN new = {"kind", "rec", "h", "issued"} /\ new.kind = "relabel" /\ new.issued = TRUE
                             /\ new.rec = session.rec /\ new.h = session.h
  BY <1>6 DEF new, Issued, RelabelFollows
<1>9. new # None
  <2>1. p.prog = "relabel" => new # None
    <3>1. DOMAIN None = {"kind"} /\ "rec" # "kind"
      BY DEF None
    <3> QED
      BY <3>1, <1>8
  <2> QED
    BY <2>1, <1>6, <1>7
<1>10. BudgetOf(new) = BudgetOf(session) /\ new.h = session.h
       /\ (new.kind = "relabel" => new.issued /\ search.seed = new.rec.seed)
  BY <1>6, <1>7, <1>8 DEF BudgetOf
<1>11. /\ DOMAIN search = {"kind", "h", "answers", "features", "budget", "seed"} /\ search.kind = "search"
       /\ search.h = session.h /\ search.answers = <<>> /\ search.features = <<>> /\ search.budget = BudgetOf(session)
  <2>1. PICK r : r = search.seed
    OBVIOUS
  <2>2. search = [kind |-> "search", h |-> session.h, answers |-> <<>>, features |-> <<>>,
                  budget |-> BudgetOf(session), seed |-> r]
    BY <2>1
  <2> QED
    BY <2>2
<1>12. SearchFollows(new, search)
  <2>1. Len(search.answers) = 0 /\ Len(search.answers) \in Nat
    BY <1>11, EmptyListed
  <2>2. search.answers = [k \in 1 .. Len(search.answers) |-> <<new.h, k>>]
    BY <2>1, <1>11
  <2> QED
    BY <2>1, <2>2, <1>9, <1>10, <1>11 DEF SearchFollows
<1>13. LockOk(q)
  BY <1>5, <1>12, <1>1, <1>2, <1>3, <1>4, LockMoved DEF Drained
<1>14. CASE p.prog = "collect"
  <2>1. CollectOk(p, fs, ps, gs)
    BY <1>14 DEF Runs
  <2>2. \A i \in 1 .. Slots : q.slots[i].session = p.slots[i].session
    BY <1>4, <1>7, <1>14
  <2>3. /\ \A i \in 1 .. Slots : q.slots[i].session # None => GameFollows(q.slots[i].session)
        /\ \A i \in 1 .. Slots : \A j : Holds(q.slots[i].session, j) <=> Holds(p.slots[i].session, j)
    BY <2>1, <2>2 DEF CollectOk, SessionsOk
  <2>4. CollectOk(q, fs, ps, gs)
    BY <2>1, <2>3, <1>3, CollectStays
  <2> QED
    BY <2>4, <1>1, <1>3, <1>13, <1>14 DEF Runs
<1>15. CASE p.prog = "relabel"
  <2>1. RelabelOk(p, ps, dp)
    BY <1>15 DEF Runs
  <2>2. ~session.issued
    BY <1>6, <1>15 DEF NoSpec
  <2>3. search # None
    <3>1. DOMAIN None = {"kind"} /\ "h" # "kind"
      BY DEF None
    <3> QED
      BY <3>1, <1>11
  <2>4. \A n : AtHand(p.slots[p.at], n) <=> AtHand(q.slots[p.at], n)
    BY <2>2, <2>3, <1>4, <1>8, <1>9, <1>15 DEF AtHand, Unfinished
  <2>5. \A i \in 1 .. Slots : \A n : AtHand(q.slots[i], n) <=> AtHand(p.slots[i], n)
    BY <2>4, <1>4
  <2>6. RelabelFollows(new, ps)
    BY <1>6, <1>8, <1>15 DEF RelabelFollows
  <2>7. \A i \in 1 .. Slots : q.slots[i].session # None => RelabelFollows(q.slots[i].session, ps)
    BY <2>1, <2>6, <1>4 DEF RelabelOk
  <2>8. RelabelOk(q, ps, dp)
    BY <2>1, <2>5, <2>7, <1>3, RelabelStays
  <2> QED
    BY <2>8, <1>1, <1>3, <1>13, <1>15 DEF Runs
<1> QED
  BY <1>3, <1>6, <1>14, <1>15

\* Pend.
LEMMA RunsPend ==
  ASSUME NEW p, NEW q, NEW fs, NEW ps, NEW gs, NEW dp, Runs(p, fs, ps, gs, dp),
         p.at <= Slots, p.flush = <<>>, p.slots[p.at].search # None, ~Done(p.slots[p.at].search),
         q = [p EXCEPT !.slots[p.at].search = WithRoot(@), !.at = @ + 1, !.pending = Append(@, p.at)]
  PROVE  Runs(q, fs, ps, gs, dp) /\ q.prog = p.prog
<1> DEFINE search == p.slots[p.at].search
           new == WithRoot(search)
<1>1. LockOk(p) /\ p.kind = "lockstep"
  BY DEF Runs
<1>2. /\ AtSlot(p) /\ p.at \in 1 .. Slots /\ p.at \in Nat
      /\ SearchFollows(p.slots[p.at].session, search)
      /\ DOMAIN p = {"kind", "prog", "todo", "at", "pending", "slots", "nextIdx", "flush"}
      /\ DOMAIN p.slots = 1 .. Slots /\ \A i \in 1 .. Slots : DOMAIN p.slots[i] = {"session", "search"}
      /\ IsList(p.todo)
  BY <1>1, SlotAt DEF AtSlot
<1>3. /\ DOMAIN q = DOMAIN p /\ q.kind = p.kind /\ q.prog = p.prog /\ q.at = p.at + 1
      /\ q.todo = p.todo /\ q.pending = Append(p.pending, p.at) /\ q.flush = p.flush /\ q.nextIdx = p.nextIdx
      /\ q.slots = [p.slots EXCEPT ![p.at].search = new]
  BY <1>2
<1>4. SearchFollows(p.slots[p.at].session, new) /\ new # None /\ Waits(new)
  BY <1>2, RootNoted
<1> HIDE DEF new
<1>5. /\ DOMAIN q.slots = 1 .. Slots /\ \A i \in 1 .. Slots : i # p.at => q.slots[i] = p.slots[i]
      /\ q.slots[p.at] = [p.slots[p.at] EXCEPT !.search = new]
  BY <1>2, <1>3
<1>6. q.slots[p.at].session = p.slots[p.at].session /\ q.slots[p.at].search = new /\ DOMAIN q.slots[p.at] = {"session", "search"}
  BY <1>2, <1>5
<1>7. \A i \in 1 .. Slots : DOMAIN q.slots[i] = {"session", "search"} /\ q.slots[i].session = p.slots[i].session
  BY <1>2, <1>5, <1>6
<1>8. Passed(p, q)
  BY <1>3, <1>5, <1>7 DEF Passed
<1>9. LockOk(q)
  BY <1>1, <1>2, <1>3, <1>4, <1>5, <1>6, <1>8, LockPended
<1>10. CASE p.prog = "collect"
  <2>1. CollectOk(p, fs, ps, gs)
    BY <1>10 DEF Runs
  <2>2. /\ \A i \in 1 .. Slots : q.slots[i].session # None => GameFollows(q.slots[i].session)
        /\ \A i \in 1 .. Slots : \A j : Holds(q.slots[i].session, j) <=> Holds(p.slots[i].session, j)
    BY <2>1, <1>7 DEF CollectOk, SessionsOk
  <2>3. CollectOk(q, fs, ps, gs)
    BY <2>1, <2>2, <1>3, CollectStays
  <2> QED
    BY <2>3, <1>1, <1>3, <1>9, <1>10 DEF Runs
<1>11. CASE p.prog = "relabel"
  <2>1. RelabelOk(p, ps, dp)
    BY <1>11 DEF Runs
  <2>2. \A n : AtHand(p.slots[p.at], n) <=> AtHand(q.slots[p.at], n)
    BY <1>4, <1>6 DEF AtHand, Unfinished
  <2>3. \A i \in 1 .. Slots : \A n : AtHand(q.slots[i], n) <=> AtHand(p.slots[i], n)
    BY <2>2, <1>5
  <2>4. \A i \in 1 .. Slots : q.slots[i].session # None => RelabelFollows(q.slots[i].session, ps)
    BY <2>1, <1>7 DEF RelabelOk
  <2>5. RelabelOk(q, ps, dp)
    BY <2>1, <2>3, <2>4, <1>3, RelabelStays
  <2> QED
    BY <2>5, <1>1, <1>3, <1>9, <1>11 DEF Runs
<1> QED
  BY <1>3, <1>10, <1>11 DEF Runs

\* Infer.
LEMMA RunsInfer ==
  ASSUME NEW p, NEW q, NEW fs, NEW ps, NEW gs, NEW dp, Runs(p, fs, ps, gs, dp), Answered(p, q)
  PROVE  Runs(q, fs, ps, gs, dp) /\ q.prog = p.prog
<1>1. LockOk(p) /\ p.kind = "lockstep"
  BY DEF Runs
<1>2. /\ LockOk(q)
      /\ \A i \in 1 .. Slots : q.slots[i].search = None <=> p.slots[i].search = None
  BY <1>1, LockAnswered
<1>3. /\ q.kind = p.kind /\ q.prog = p.prog /\ q.todo = p.todo /\ q.nextIdx = p.nextIdx /\ q.flush = p.flush
      /\ \A i \in 1 .. Slots : q.slots[i].session = p.slots[i].session
  BY DEF Answered
<1>4. CASE p.prog = "collect"
  <2>1. CollectOk(p, fs, ps, gs)
    BY <1>4 DEF Runs
  <2>2. /\ \A i \in 1 .. Slots : q.slots[i].session # None => GameFollows(q.slots[i].session)
        /\ \A i \in 1 .. Slots : \A j : Holds(q.slots[i].session, j) <=> Holds(p.slots[i].session, j)
    BY <2>1, <1>3 DEF CollectOk, SessionsOk
  <2>3. CollectOk(q, fs, ps, gs)
    BY <2>1, <2>2, <1>3, CollectStays
  <2> QED
    BY <2>3, <1>1, <1>2, <1>3, <1>4 DEF Runs
<1>5. CASE p.prog = "relabel"
  <2>1. RelabelOk(p, ps, dp)
    BY <1>5 DEF Runs
  <2>2. \A i \in 1 .. Slots : \A n : AtHand(q.slots[i], n) <=> AtHand(p.slots[i], n)
    BY <1>2, <1>3 DEF AtHand, Unfinished
  <2>3. \A i \in 1 .. Slots : q.slots[i].session # None => RelabelFollows(q.slots[i].session, ps)
    BY <2>1, <1>3 DEF RelabelOk
  <2>4. RelabelOk(q, ps, dp)
    BY <2>1, <2>2, <2>3, <1>3, RelabelStays
  <2> QED
    BY <2>4, <1>1, <1>2, <1>3, <1>5 DEF Runs
<1> QED
  BY <1>3, <1>4, <1>5 DEF Runs

\* From p to q the current slot gets another session, and its search is over.
Searched(p, q, new) ==
  /\ DOMAIN q = DOMAIN p /\ q.kind = p.kind /\ q.prog = p.prog /\ q.at = p.at /\ q.todo = p.todo
  /\ q.pending = p.pending /\ q.flush = p.flush /\ q.nextIdx = p.nextIdx
  /\ DOMAIN q.slots = 1 .. Slots /\ DOMAIN q.slots[p.at] = {"session", "search"}
  /\ \A i \in 1 .. Slots : i # p.at => q.slots[i] = p.slots[i]
  /\ q.slots[p.at].search = None /\ q.slots[p.at].session = new

\* The search of the current slot is over.
LEMMA SearchedLock ==
  ASSUME NEW p, NEW q, NEW new, LockOk(p), p.at <= Slots, Searched(p, q, new)
  PROVE  LockOk(q)
<1>1. AtSlot(p) /\ IsList(p.todo)
  BY SlotAt
<1>2. Moved(p, q)
  BY DEF Moved, Searched
<1>3. SearchFollows(q.slots[p.at].session, q.slots[p.at].search)
  BY DEF SearchFollows, Searched
<1>4. IsList(q.todo) /\ Drained(p.todo, q.todo)
  BY <1>1 DEF Drained, Searched
<1> QED
  BY <1>1, <1>2, <1>3, <1>4, LockMoved

\* FinishShallow.
LEMMA RunsPlay ==
  ASSUME NEW p, NEW q, NEW fs, NEW ps, NEW gs, NEW dp, Runs(p, fs, ps, gs, dp),
         p.at <= Slots, p.flush = <<>>, NEW session, session = p.slots[p.at].session, NEW search, search = p.slots[p.at].search,
         search # None, Done(search), session.kind = "game",
         NEW move, NEW new, GrownBy(session, search, move, new), Searched(p, q, new)
  PROVE  Runs(q, fs, ps, gs, dp) /\ q.prog = p.prog
<1>1. LockOk(p) /\ p.kind = "lockstep"
  BY DEF Runs
<1>2. p.at \in 1 .. Slots /\ SearchFollows(session, search)
  BY <1>1, SlotAt DEF AtSlot
<1>3. session # None
  BY <1>2 DEF SearchFollows
<1>4. p.prog = "collect" /\ GameFollows(session)
  BY <1>2, <1>3, SessionOfProgram
<1>5. CollectOk(p, fs, ps, gs)
  BY <1>4 DEF Runs, RelabelOk
<1>6. GameFollows(new)
  BY <1>2, <1>4, GameGrows
<1>7. new.game = session.game /\ new # None
  <2>1. DOMAIN None = {"kind"} /\ "h" # "kind"
    BY DEF None
  <2>2. DOMAIN new = {"kind", "game", "h", "plies"}
    BY <1>6 DEF GameFollows
  <2>3. new # None
    BY <2>1, <2>2
  <2> QED
    BY <2>3 DEF GrownBy
<1>8. /\ \A i \in 1 .. Slots : i # p.at => q.slots[i] = p.slots[i]
      /\ q.slots[p.at].session = new
      /\ q.kind = p.kind /\ q.prog = p.prog /\ q.todo = p.todo /\ q.flush = p.flush /\ q.nextIdx = p.nextIdx
  BY DEF Searched
<1>9. \A j : Holds(q.slots[p.at].session, j) <=> Holds(p.slots[p.at].session, j)
  BY <1>3, <1>7, <1>8 DEF Holds
<1>10. \A i \in 1 .. Slots : \A j : Holds(q.slots[i].session, j) <=> Holds(p.slots[i].session, j)
  BY <1>8, <1>9
<1>11. \A i \in 1 .. Slots : q.slots[i].session # None => GameFollows(q.slots[i].session)
  BY <1>5, <1>6, <1>8 DEF CollectOk, SessionsOk
<1>12. CollectOk(q, fs, ps, gs)
  BY <1>5, <1>8, <1>10, <1>11, CollectStays
<1>13. LockOk(q)
  BY <1>1, SearchedLock
<1> QED
  BY <1>1, <1>4, <1>8, <1>12, <1>13 DEF Runs

\* FinishDeep.
LEMMA RunsFind ==
  ASSUME NEW p, NEW q, NEW fs, NEW ps, NEW gs, NEW dp, Runs(p, fs, ps, gs, dp),
         NEW once \in BOOLEAN, DeepOk(dp, ps, once), \A i \in DOMAIN ps : PlyFollows(ps[i], i), IsList(ps),
         p.at <= Slots, p.flush = <<>>, NEW session, session = p.slots[p.at].session, NEW search, search = p.slots[p.at].search,
         search # None, Done(search), session.kind = "relabel", Searched(p, q, session),
         NEW line, line = [idx |-> session.rec.idx, target |-> Result(search)]
  PROVE  Runs(q, fs, ps, gs, Append(dp, line)) /\ q.prog = "relabel" /\ p.prog = "relabel" /\ DeepOk(Append(dp, line), ps, once)
<1>1. LockOk(p) /\ p.kind = "lockstep"
  BY DEF Runs
<1>2. p.at \in 1 .. Slots /\ SearchFollows(session, search)
  BY <1>1, SlotAt DEF AtSlot
<1>3. session # None
  BY <1>2 DEF SearchFollows
<1>4. p.prog = "relabel" /\ RelabelFollows(session, ps)
  BY <1>2, <1>3, SessionOfProgram
<1>5. RelabelOk(p, ps, dp)
  BY <1>4 DEF Runs, CollectOk
<1>6. /\ \A i \in 1 .. Slots : i # p.at => q.slots[i] = p.slots[i]
      /\ q.slots[p.at].session = session /\ q.slots[p.at].search = None
      /\ q.kind = p.kind /\ q.prog = p.prog /\ q.todo = p.todo /\ q.flush = p.flush
  BY DEF Searched
<1>7. PICK at \in 1 .. Slots : at = p.at
  BY <1>2
<1>8. \A m \in DOMAIN ps : ps[m].idx \in Nat
  <2>1. Len(ps) \in Nat /\ DOMAIN ps = 1 .. Len(ps)
    BY OneMore
  <2> QED
    BY <2>1 DEF PlyFollows
<1>9. /\ p.slots[at].session # None /\ p.slots[at].search # None
      /\ SearchFollows(p.slots[at].session, p.slots[at].search) /\ Done(p.slots[at].search)
      /\ q.slots[at].session = p.slots[at].session /\ q.slots[at].search = None
      /\ \A i \in 1 .. Slots : i # at => q.slots[i] = p.slots[i]
      /\ line = [idx |-> p.slots[at].session.rec.idx, target |-> Result(p.slots[at].search)]
  BY <1>2, <1>3, <1>6, <1>7
<1>10. RelabelOk(q, ps, Append(dp, line)) /\ DeepOk(Append(dp, line), ps, once)
  BY <1>5, <1>6, <1>8, <1>9, RelabelFinds
<1>11. LockOk(q)
  BY <1>1, SearchedLock
<1> QED
  BY <1>1, <1>4, <1>6, <1>10, <1>11 DEF Runs

\* Write.
LEMMA RunsWrite ==
  ASSUME NEW p, NEW q, NEW fs, NEW ps, NEW gs, NEW dp, Runs(p, fs, ps, gs, dp), FilesOk(fs, ps, gs),
         p.flush # <<>>, NEW fs1, NEW ps1, NEW gs1, Written(p, q, fs, ps, gs, fs1, ps1, gs1),
         DOMAIN q = DOMAIN p, q.kind = p.kind, q.at = p.at, q.pending = p.pending
  PROVE  Runs(q, fs1, ps1, gs1, dp) /\ q.prog = "collect" /\ p.prog = "collect" /\ FilesOk(fs1, ps1, gs1)
<1>1. LockOk(p) /\ p.kind = "lockstep"
  BY DEF Runs
<1>2. p.prog = "collect" /\ CollectOk(p, fs, ps, gs)
  BY DEF Runs, RelabelOk
<1>3. CollectOk(q, fs1, ps1, gs1) /\ FilesOk(fs1, ps1, gs1)
  BY <1>2, CollectWrites
<1>4. q.prog = p.prog /\ q.todo = p.todo /\ q.slots = p.slots
  BY DEF Written
<1>5. LockOk(q)
  <2>1. ShapeOk(p) /\ PendingOk(p) /\ SlotsOk(p)
    BY <1>1 DEF LockOk
  <2>2. ShapeOk(q)
    BY <2>1, <1>4 DEF ShapeOk
  <2>3. PendingOk(q)
    BY <2>1, <1>4 DEF PendingOk, NothingToDo
  <2>4. SlotsOk(q)
    BY <2>1, <1>4 DEF SlotsOk
  <2> QED
    BY <2>2, <2>3, <2>4 DEF LockOk
<1> QED
  BY <1>1, <1>2, <1>3, <1>4, <1>5 DEF Runs

\* A collection begins with empty files.
LEMMA RunsCollect ==
  ASSUME NEW q, q = LockStep("collect", [i \in 1 .. Games |-> GameSession(i)]), NEW dp
  PROVE  Runs(q, <<>>, <<>>, <<>>, dp) /\ q.prog = "collect" /\ FilesOk(<<>>, <<>>, <<>>)
<1> DEFINE t == [i \in 1 .. Games |-> GameSession(i)]
<1>1. DOMAIN t = 1 .. Games /\ \A i \in 1 .. Games : t[i] = GameSession(i)
  OBVIOUS
<1>2. IsList(t) /\ Len(t) = Games
  BY <1>1, SlotsPositive, Listed
<1> HIDE DEF t
<1>3. q = LockStep("collect", t)
  BY DEF t
<1>4. LockOk(q) /\ q.prog = "collect" /\ q.todo = t /\ q.nextIdx = 0 /\ q.flush = <<>> /\ \A i \in 1 .. Slots : q.slots[i] = EmptySlot
  BY <1>2, <1>3, LockBegun
<1>5. q.kind = "lockstep"
  BY <1>4 DEF LockOk, ShapeOk
<1>6. \A i \in 1 .. Slots : q.slots[i].session = None
  BY <1>4 DEF EmptySlot
<1>7. TodoOk(t)
  <2>1. \A i \in 1 .. Games : Games - Len(t) + i = i
    BY <1>2, SlotsPositive
  <2>2. \A i \in DOMAIN t : t[i] = GameSession(Games - Len(t) + i)
    BY <2>1, <1>1
  <2> QED
    BY <2>2, <1>2, SlotsPositive DEF TodoOk
<1>8. Begun(t) = {}
  BY <1>2, SlotsPositive DEF Begun
<1>9. (\A j : ~InSlot(q.slots, j)) /\ \A j : ~InGames(<<>>, j) /\ ~InPlies(<<>>, j)
  BY <1>6, EmptyListed DEF InSlot, Holds, InGames, InPlies
<1>10. Placed(q.slots, q.todo, {}, <<>>, <<>>)
  BY <1>4, <1>8, <1>9 DEF Placed
<1>11. SessionsOk(q.slots)
  BY <1>6 DEF SessionsOk, Holds
<1>12. CollectOk(q, <<>>, <<>>, <<>>)
  BY <1>4, <1>7, <1>10, <1>11, EmptyListed DEF CollectOk
<1>13. FilesOk(<<>>, <<>>, <<>>)
  BY EmptyListed DEF FilesOk
<1> QED
  BY <1>4, <1>5, <1>12, <1>13 DEF Runs

-----------------------------------------------------------------------------
(* The pipeline: every step keeps the corpus.                              *)

CorpusInv == CorpusOk(proc, features, plies, games, deep, collected, remade)

\* The program that runs, and its current slot.
LEMMA ScanningFacts ==
  ASSUME CorpusInv, Scanning
  PROVE  /\ Runs(proc, features, plies, games, deep) /\ LockOk(proc)
         /\ proc.at <= Slots /\ proc.flush = <<>> /\ Slot = proc.slots[proc.at] /\ proc.at \in 1 .. Slots
         /\ DOMAIN proc = {"kind", "prog", "todo", "at", "pending", "slots", "nextIdx", "flush"}
         /\ DOMAIN proc.slots = 1 .. Slots /\ \A i \in 1 .. Slots : DOMAIN proc.slots[i] = {"session", "search"}
         /\ FilesOk(features, plies, games) /\ DeepOk(deep, plies, ~remade)
<1>1. Runs(proc, features, plies, games, deep)
  BY CorpusRuns DEF CorpusInv, Scanning
<1>2. LockOk(proc) /\ proc.at <= Slots /\ proc.flush = <<>> /\ Slot = proc.slots[proc.at]
  BY <1>1 DEF Runs, Scanning, Slot
<1>3. FilesOk(features, plies, games) /\ DeepOk(deep, plies, ~remade)
  BY DEF CorpusInv, CorpusOk
<1> QED
  BY <1>1, <1>2, <1>3, SlotAt DEF AtSlot

\* A step that leaves the files alone.
LEMMA CorpusStays ==
  ASSUME NEW p, NEW fs, NEW ps, NEW gs, NEW dp, NEW col, NEW rem, CorpusOk(p, fs, ps, gs, dp, col, rem),
         Runs(p, fs, ps, gs, dp), NEW q, Runs(q, fs, ps, gs, dp), q.prog = p.prog
  PROVE  CorpusOk(q, fs, ps, gs, dp, col, rem)
  BY CorpusRuns

\* A slot takes a session, or has nothing to do.
LEMMA InvTake == CorpusInv /\ Take => CorpusInv'
<1> SUFFICES ASSUME CorpusInv, Take PROVE CorpusInv'
  OBVIOUS
<1>1. PICK p : p = proc
  OBVIOUS
<1>2. PICK q : q = proc'
  OBVIOUS
<1>3. /\ Scanning /\ Slot.session = None
      /\ q = IF p.todo = <<>> THEN [p EXCEPT !.at = @ + 1]
             ELSE [p EXCEPT !.slots[p.at].session = Head(p.todo), !.todo = Tail(@)]
      /\ features' = features /\ plies' = plies /\ games' = games /\ deep' = deep /\ collected' = collected /\ remade' = remade
  BY <1>1, <1>2 DEF Take, disk
<1>4. /\ Runs(p, features, plies, games, deep) /\ p.at <= Slots /\ p.flush = <<>> /\ p.slots[p.at].session = None
  BY <1>1, <1>3, ScanningFacts
<1>5. Runs(q, features, plies, games, deep) /\ q.prog = p.prog
  BY <1>3, <1>4, RunsTake
<1>6. CorpusOk(q, features, plies, games, deep, collected, remade)
  BY <1>1, <1>4, <1>5, CorpusStays DEF CorpusInv
<1> QED
  BY <1>2, <1>3, <1>6 DEF CorpusInv

\* A session is over, and a game is to be written.
LEMMA InvEndSession == CorpusInv /\ EndSession => CorpusInv'
<1> SUFFICES ASSUME CorpusInv, EndSession PROVE CorpusInv'
  OBVIOUS
<1>1. PICK p : p = proc
  OBVIOUS
<1>2. PICK q : q = proc'
  OBVIOUS
<1>3. PICK session : session = p.slots[p.at].session
  OBVIOUS
<1>4. PICK f : f = Flush(session)
  OBVIOUS
<1>5. /\ Scanning /\ Slot = p.slots[p.at]
  BY <1>1 DEF EndSession, Slot
<1>6. /\ session # None /\ p.slots[p.at].search = None /\ NoSpec(session)
      /\ q = [p EXCEPT !.slots[p.at].session = None,
                !.flush = IF session.kind = "game" THEN f ELSE <<>>,
                !.nextIdx = IF session.kind = "game" THEN @ + Len(session.plies) ELSE @]
      /\ features' = features /\ plies' = plies /\ games' = games /\ deep' = deep /\ collected' = collected /\ remade' = remade
  BY <1>1, <1>2, <1>3, <1>4, <1>5 DEF EndSession, disk
<1>7. /\ Runs(p, features, plies, games, deep) /\ p.at <= Slots /\ p.flush = <<>> /\ FilesOk(features, plies, games)
      /\ DOMAIN p = {"kind", "prog", "todo", "at", "pending", "slots", "nextIdx", "flush"}
  BY <1>1, <1>5, ScanningFacts
<1>8. f = ToBeWritten(session, p.nextIdx, GameLine(session, p.nextIdx))
  BY <1>1, <1>4 DEF Flush, ToBeWritten, OfFeatures, OfPlies, OfGame, RowsOf, GameLine
<1>9. Ended(p, q, session)
  BY <1>6, <1>7, <1>8 DEF Ended
<1>10. Runs(q, features, plies, games, deep) /\ q.prog = p.prog
  BY <1>3, <1>6, <1>7, <1>9, RunsEnd
<1>11. CorpusOk(q, features, plies, games, deep, collected, remade)
  BY <1>1, <1>7, <1>10, CorpusStays DEF CorpusInv
<1> QED
  BY <1>2, <1>6, <1>11 DEF CorpusInv

\* A search begins.
LEMMA InvStartSearch == CorpusInv /\ StartSearch => CorpusInv'
<1> SUFFICES ASSUME CorpusInv, StartSearch PROVE CorpusInv'
  OBVIOUS
<1>1. PICK p : p = proc
  OBVIOUS
<1>2. PICK q : q = proc'
  OBVIOUS
<1>3. PICK session : session = p.slots[p.at].session
  OBVIOUS
<1>4. PICK search : search = SearchOf(session)
  OBVIOUS
<1>5. /\ Scanning /\ Slot = p.slots[p.at]
  BY <1>1 DEF StartSearch, Slot
<1>6. /\ session # None /\ p.slots[p.at].search = None /\ ~NoSpec(session)
      /\ q = [p EXCEPT !.slots[p.at] = [session |-> Issued(session), search |-> search]]
      /\ features' = features /\ plies' = plies /\ games' = games /\ deep' = deep /\ collected' = collected /\ remade' = remade
  BY <1>1, <1>2, <1>3, <1>4, <1>5 DEF StartSearch, disk
<1>7. /\ Runs(p, features, plies, games, deep) /\ p.at <= Slots /\ p.flush = <<>>
  BY <1>1, <1>5, ScanningFacts
<1>8. /\ search = [kind |-> "search", h |-> session.h, answers |-> <<>>, features |-> <<>>,
                   budget |-> BudgetOf(session), seed |-> search.seed]
      /\ session.kind = "relabel" => search.seed = session.rec.seed
  BY <1>4 DEF SearchOf, BudgetOf
<1>9. Runs(q, features, plies, games, deep) /\ q.prog = p.prog
  BY <1>3, <1>6, <1>7, <1>8, RunsStart
<1>10. CorpusOk(q, features, plies, games, deep, collected, remade)
  BY <1>1, <1>7, <1>9, CorpusStays DEF CorpusInv
<1> QED
  BY <1>2, <1>6, <1>10 DEF CorpusInv

\* A search waits for its next leaf.
LEMMA InvPend == CorpusInv /\ Pend => CorpusInv'
<1> SUFFICES ASSUME CorpusInv, Pend PROVE CorpusInv'
  OBVIOUS
<1>1. PICK p : p = proc
  OBVIOUS
<1>2. PICK q : q = proc'
  OBVIOUS
<1>3. /\ Scanning /\ Slot = p.slots[p.at]
  BY <1>1 DEF Pend, Slot
<1>4. /\ p.slots[p.at].search # None /\ ~Done(p.slots[p.at].search)
      /\ q = [p EXCEPT !.slots[p.at].search = WithRoot(@), !.at = @ + 1, !.pending = Append(@, p.at)]
      /\ features' = features /\ plies' = plies /\ games' = games /\ deep' = deep /\ collected' = collected /\ remade' = remade
  BY <1>1, <1>2, <1>3 DEF Pend, disk, SearchDone, Done
<1>5. /\ Runs(p, features, plies, games, deep) /\ p.at <= Slots /\ p.flush = <<>>
  BY <1>1, <1>3, ScanningFacts
<1>6. Runs(q, features, plies, games, deep) /\ q.prog = p.prog
  BY <1>4, <1>5, RunsPend
<1>7. CorpusOk(q, features, plies, games, deep, collected, remade)
  BY <1>1, <1>5, <1>6, CorpusStays DEF CorpusInv
<1> QED
  BY <1>2, <1>4, <1>7 DEF CorpusInv

\* The batch is answered, row by row.
LEMMA InvInfer == CorpusInv /\ Infer => CorpusInv'
<1> SUFFICES ASSUME CorpusInv, Infer PROVE CorpusInv'
  OBVIOUS
<1>1. PICK p : p = proc
  OBVIOUS
<1>2. PICK q : q = proc'
  OBVIOUS
<1>3. PICK batch : batch = Batch
  OBVIOUS
<1>4. /\ p.kind = "lockstep"
      /\ q = [p EXCEPT !.at = 1, !.pending = <<>>,
           !.slots = [i \in 1 .. Slots |->
              IF i \in Range(p.pending)
              THEN [p.slots[i] EXCEPT !.search.answers = Append(@, batch[RowOf(i)])]
              ELSE p.slots[i]]]
      /\ features' = features /\ plies' = plies /\ games' = games /\ deep' = deep /\ collected' = collected /\ remade' = remade
  BY <1>1, <1>2, <1>3 DEF Infer, disk
<1>5. Runs(p, features, plies, games, deep)
  BY <1>1, <1>4, CorpusRuns DEF CorpusInv
<1>6. LockOk(p) /\ ShapeOk(p) /\ PendingOk(p)
  BY <1>5 DEF Runs, LockOk
<1>7. DOMAIN p = {"kind", "prog", "todo", "at", "pending", "slots", "nextIdx", "flush"}
      /\ DOMAIN p.slots = 1 .. Slots /\ \A i \in 1 .. Slots : DOMAIN p.slots[i] = {"session", "search"}
  BY <1>6 DEF ShapeOk
<1>8. /\ DOMAIN q = DOMAIN p /\ q.kind = p.kind /\ q.prog = p.prog /\ q.at = 1 /\ q.pending = <<>>
      /\ q.todo = p.todo /\ q.nextIdx = p.nextIdx /\ q.flush = p.flush
  BY <1>4, <1>7
<1>9. q.slots = [i \in 1 .. Slots |->
              IF i \in Range(p.pending)
              THEN [p.slots[i] EXCEPT !.search.answers = Append(@, batch[RowOf(i)])]
              ELSE p.slots[i]]
  BY <1>4, <1>7
<1>10. ASSUME NEW i \in 1 .. Slots
       PROVE  /\ DOMAIN q.slots[i] = {"session", "search"} /\ q.slots[i].session = p.slots[i].session
              /\ (\A n \in DOMAIN p.pending : p.pending[n] # i) => q.slots[i].search = p.slots[i].search
              /\ (\E n \in DOMAIN p.pending : p.pending[n] = i) =>
                   q.slots[i].search = [p.slots[i].search EXCEPT !.answers = Append(@, LeafOf(p.slots[i]))]
  <2>1. i \in Range(p.pending) <=> \E n \in DOMAIN p.pending : p.pending[n] = i
    BY DEF Range
  <2>2. CASE \A n \in DOMAIN p.pending : p.pending[n] # i
    BY <2>1, <2>2, <1>7, <1>9
  <2>3. CASE \E n \in DOMAIN p.pending : p.pending[n] = i
    <3>1. PICK n \in DOMAIN p.pending : p.pending[n] = i
      BY <2>3
    <3>2. RowOf(i) = n
      <4>1. \A m \in DOMAIN p.pending : p.pending[m] = i => m = n
        BY <3>1, <1>6 DEF PendingOk
      <4> QED
        BY <4>1, <3>1, <1>1 DEF RowOf
    <3>3. batch[n] = LeafOf(p.slots[i])
      BY <3>1, <1>1, <1>3 DEF Batch
    <3>4. q.slots[i] = [p.slots[i] EXCEPT !.search.answers = Append(@, LeafOf(p.slots[i]))]
      BY <2>1, <2>3, <3>2, <3>3, <1>9
    <3>5. PICK slot : slot = p.slots[i]
      OBVIOUS
    <3>6. DOMAIN slot = {"session", "search"} /\ q.slots[i] = [slot EXCEPT !.search.answers = Append(@, LeafOf(slot))]
      BY <3>4, <3>5, <1>7
    <3>7. /\ DOMAIN q.slots[i] = {"session", "search"} /\ q.slots[i].session = slot.session
          /\ q.slots[i].search = [slot.search EXCEPT !.answers = Append(@, LeafOf(slot))]
      BY <3>6
    <3> QED
      BY <3>5, <3>7, <2>3
  <2> QED
    BY <2>2, <2>3
<1>11. DOMAIN q.slots = 1 .. Slots
  BY <1>9
<1>12. Answered(p, q)
  BY <1>8, <1>10, <1>11 DEF Answered
<1>13. Runs(q, features, plies, games, deep) /\ q.prog = p.prog
  BY <1>5, <1>12, RunsInfer
<1>14. CorpusOk(q, features, plies, games, deep, collected, remade)
  BY <1>1, <1>5, <1>13, CorpusStays DEF CorpusInv
<1> QED
  BY <1>2, <1>4, <1>14 DEF CorpusInv

\* A search of collect is over, and a move is played.
LEMMA InvFinishShallow == CorpusInv /\ FinishShallow => CorpusInv'
<1> SUFFICES ASSUME CorpusInv, FinishShallow PROVE CorpusInv'
  OBVIOUS
<1>1. PICK p : p = proc
  OBVIOUS
<1>2. PICK q : q = proc'
  OBVIOUS
<1>3. PICK session : session = p.slots[p.at].session
  OBVIOUS
<1>4. PICK search : search = p.slots[p.at].search
  OBVIOUS
<1>5. /\ Scanning /\ Slot = p.slots[p.at]
  BY <1>1 DEF FinishShallow, Slot
<1>6. /\ search # None /\ Done(search) /\ session.kind = "game"
      /\ \E move : q = [p EXCEPT !.slots[p.at] = [search |-> None,
               session |-> [session EXCEPT !.h = Append(@, move),
                 !.plies = IF Forced(search) THEN @
                           ELSE Append(@, [h |-> search.h, target |-> Result(search), features |-> search.features[1]])]]]
      /\ features' = features /\ plies' = plies /\ games' = games /\ deep' = deep /\ collected' = collected /\ remade' = remade
  BY <1>1, <1>2, <1>3, <1>4, <1>5 DEF FinishShallow, disk, SearchDone, Done
<1>7. PICK move : q = [p EXCEPT !.slots[p.at] = [search |-> None,
               session |-> [session EXCEPT !.h = Append(@, move),
                 !.plies = IF Forced(search) THEN @
                           ELSE Append(@, [h |-> search.h, target |-> Result(search), features |-> search.features[1]])]]]
  BY <1>6
<1>8. PICK new : new = [session EXCEPT !.h = Append(@, move),
                 !.plies = IF Forced(search) THEN @
                           ELSE Append(@, [h |-> search.h, target |-> Result(search), features |-> search.features[1]])]
  OBVIOUS
<1>9. /\ Runs(p, features, plies, games, deep) /\ p.at <= Slots /\ p.flush = <<>> /\ p.at \in 1 .. Slots /\ LockOk(p)
      /\ DOMAIN p = {"kind", "prog", "todo", "at", "pending", "slots", "nextIdx", "flush"}
      /\ DOMAIN p.slots = 1 .. Slots
  BY <1>1, <1>5, ScanningFacts
<1>10. GameFollows(session)
  <2>1. SearchFollows(session, search)
    BY <1>3, <1>4, <1>9, SlotAt
  <2>2. session # None
    BY <2>1, <1>6 DEF SearchFollows
  <2> QED
    BY <2>2, <1>3, <1>6, <1>9, SessionOfProgram
<1>11. GrownBy(session, search, move, new)
  <2>1. DOMAIN session = {"kind", "game", "h", "plies"}
    BY <1>10 DEF GameFollows
  <2> QED
    BY <2>1, <1>8 DEF GrownBy, PlyOf
<1>12. q = [p EXCEPT !.slots[p.at] = [search |-> None, session |-> new]]
  BY <1>7, <1>8
<1>13. Searched(p, q, new)
  <2>1. /\ DOMAIN q = DOMAIN p /\ q.kind = p.kind /\ q.prog = p.prog /\ q.at = p.at /\ q.todo = p.todo
        /\ q.pending = p.pending /\ q.flush = p.flush /\ q.nextIdx = p.nextIdx
        /\ q.slots = [p.slots EXCEPT ![p.at] = [search |-> None, session |-> new]]
    BY <1>9, <1>12
  <2>2. /\ DOMAIN q.slots = 1 .. Slots /\ \A i \in 1 .. Slots : i # p.at => q.slots[i] = p.slots[i]
        /\ q.slots[p.at] = [search |-> None, session |-> new]
    BY <2>1, <1>9
  <2>3. q.slots[p.at].search = None /\ q.slots[p.at].session = new /\ DOMAIN q.slots[p.at] = {"session", "search"}
    BY <2>2
  <2> QED
    BY <2>1, <2>2, <2>3 DEF Searched
<1>14. Runs(q, features, plies, games, deep) /\ q.prog = p.prog
  BY <1>3, <1>4, <1>6, <1>9, <1>11, <1>13, RunsPlay
<1>15. CorpusOk(q, features, plies, games, deep, collected, remade)
  BY <1>1, <1>9, <1>14, CorpusStays DEF CorpusInv
<1> QED
  BY <1>2, <1>6, <1>15 DEF CorpusInv

\* A search of relabel is over, and its target is appended.
LEMMA DeepFound ==
  ASSUME CorpusInv, DeepDone, NEW q, q = [proc EXCEPT !.slots[proc.at].search = None]
  PROVE  /\ CorpusOk(q, features, plies, games, Append(deep, DeepLine), collected, remade)
         /\ proc.prog = "relabel" /\ q.prog = "relabel" /\ q.kind = "lockstep"
<1>1. PICK p : p = proc
  OBVIOUS
<1>3. PICK session : session = p.slots[p.at].session
  OBVIOUS
<1>4. PICK search : search = p.slots[p.at].search
  OBVIOUS
<1>5. /\ Scanning /\ Slot = p.slots[p.at]
  BY <1>1 DEF DeepDone, Slot
<1>6. PICK line : line = [idx |-> session.rec.idx, target |-> Result(search)]
  OBVIOUS
<1>7. /\ search # None /\ Done(search) /\ session.kind = "relabel"
      /\ q = [p EXCEPT !.slots[p.at].search = None]
      /\ line = DeepLine
  BY <1>1, <1>3, <1>4, <1>5, <1>6 DEF DeepDone, DeepLine, SearchDone, Done
<1>8. /\ Runs(p, features, plies, games, deep) /\ p.at <= Slots /\ p.flush = <<>> /\ p.at \in 1 .. Slots
      /\ DOMAIN p = {"kind", "prog", "todo", "at", "pending", "slots", "nextIdx", "flush"}
      /\ DOMAIN p.slots = 1 .. Slots /\ \A i \in 1 .. Slots : DOMAIN p.slots[i] = {"session", "search"}
      /\ FilesOk(features, plies, games) /\ DeepOk(deep, plies, ~remade)
  BY <1>1, <1>5, ScanningFacts
<1>9. Searched(p, q, session)
  <2>1. /\ DOMAIN q = DOMAIN p /\ q.kind = p.kind /\ q.prog = p.prog /\ q.at = p.at /\ q.todo = p.todo
        /\ q.pending = p.pending /\ q.flush = p.flush /\ q.nextIdx = p.nextIdx
        /\ q.slots = [p.slots EXCEPT ![p.at].search = None]
    BY <1>7, <1>8
  <2>2. /\ DOMAIN q.slots = 1 .. Slots /\ \A i \in 1 .. Slots : i # p.at => q.slots[i] = p.slots[i]
        /\ q.slots[p.at] = [p.slots[p.at] EXCEPT !.search = None]
    BY <2>1, <1>8
  <2>3. PICK slot : slot = p.slots[p.at]
    OBVIOUS
  <2>4. DOMAIN slot = {"session", "search"} /\ slot.session = session
    BY <2>3, <1>3, <1>8
  <2>5. q.slots[p.at].search = None /\ q.slots[p.at].session = session /\ DOMAIN q.slots[p.at] = {"session", "search"}
    BY <2>2, <2>3, <2>4
  <2> QED
    BY <2>1, <2>2, <2>5 DEF Searched
<1>10. /\ \A i \in DOMAIN plies : PlyFollows(plies[i], i)
       /\ IsList(plies) /\ (~remade) \in BOOLEAN
  BY <1>8 DEF FilesOk
<1>14. PICK once \in BOOLEAN : once <=> ~remade
  OBVIOUS
<1>15. DeepOk(deep, plies, once)
  BY <1>8, <1>14 DEF DeepOk
<1>16. /\ Runs(q, features, plies, games, Append(deep, line)) /\ q.prog = "relabel" /\ p.prog = "relabel"
       /\ DeepOk(Append(deep, line), plies, once)
  BY <1>3, <1>4, <1>6, <1>7, <1>8, <1>9, <1>10, <1>15, RunsFind
<1>11. /\ Runs(q, features, plies, games, Append(deep, line)) /\ q.prog = "relabel" /\ p.prog = "relabel"
       /\ DeepOk(Append(deep, line), plies, ~remade)
  BY <1>14, <1>16 DEF DeepOk
<1>12. RelabelOk(q, plies, Append(deep, line)) /\ q.kind = "lockstep" /\ LockOk(q)
  BY <1>11 DEF Runs, CollectOk
<1>13. CorpusOk(q, features, plies, games, Append(deep, line), collected, remade)
  BY <1>1, <1>8, <1>11, <1>12 DEF CorpusInv, CorpusOk
<1> QED
  BY <1>1, <1>7, <1>11, <1>12, <1>13

\* A target is appended, whole.
LEMMA InvFinishDeep == CorpusInv /\ FinishDeep => CorpusInv'
<1> SUFFICES ASSUME CorpusInv, FinishDeep PROVE CorpusInv'
  OBVIOUS
<1>1. PICK q : q = proc'
  OBVIOUS
<1>2. DeepDone /\ q = [proc EXCEPT !.slots[proc.at].search = None] /\ deep' = Append(deep, DeepLine)
  BY <1>1 DEF FinishDeep, Appends
<1>3. features' = features /\ plies' = plies /\ games' = games /\ collected' = collected /\ remade' = remade
  BY DEF FinishDeep
<1>4. CorpusOk(q, features, plies, games, Append(deep, DeepLine), collected, remade)
  BY <1>2, DeepFound
<1> QED
  BY <1>1, <1>2, <1>3, <1>4 DEF CorpusInv

\* Something of a game is written.
LEMMA InvWrite == CorpusInv /\ Write => CorpusInv'
<1> SUFFICES ASSUME CorpusInv, Write PROVE CorpusInv'
  OBVIOUS
<1>1. PICK p : p = proc
  OBVIOUS
<1>2. PICK q : q = proc'
  OBVIOUS
<1>3. PICK fs, ps, gs : fs = features' /\ ps = plies' /\ gs = games'
  OBVIOUS
<1>4. /\ p.kind = "lockstep" /\ p.flush # <<>>
      /\ q = [p EXCEPT !.flush = Tail(@)]
      /\ deep' = deep /\ collected' = collected /\ remade' = remade
  BY <1>1, <1>2 DEF Write
<1>5. LET w == Head(p.flush)
      IN  /\ fs = IF w.file = "features" THEN features \o w.rows ELSE features
          /\ ps = IF w.file = "plies" THEN plies \o w.rows ELSE plies
          /\ gs = IF w.file = "games" THEN games \o w.rows ELSE games
  BY <1>1, <1>3 DEF Write
<1>6. Runs(p, features, plies, games, deep) /\ FilesOk(features, plies, games)
  BY <1>1, <1>4, CorpusRuns DEF CorpusInv, CorpusOk
<1>7. DOMAIN p = {"kind", "prog", "todo", "at", "pending", "slots", "nextIdx", "flush"}
  BY <1>6 DEF Runs, LockOk, ShapeOk
<1>8. /\ DOMAIN q = DOMAIN p /\ q.kind = p.kind /\ q.at = p.at /\ q.pending = p.pending
      /\ q.prog = p.prog /\ q.todo = p.todo /\ q.slots = p.slots /\ q.nextIdx = p.nextIdx /\ q.flush = Tail(p.flush)
  BY <1>4, <1>7
<1>9. Written(p, q, features, plies, games, fs, ps, gs)
  BY <1>5, <1>8 DEF Written
<1>10. Runs(q, fs, ps, gs, deep) /\ q.prog = "collect" /\ p.prog = "collect" /\ FilesOk(fs, ps, gs)
  BY <1>4, <1>6, <1>8, <1>9, RunsWrite
<1>11. (collected => remade) /\ (~remade => deep = <<>>) /\ remade \in BOOLEAN /\ collected \in BOOLEAN
  BY <1>1, <1>4, <1>10 DEF CorpusInv, CorpusOk
<1>12. DeepOk(deep, ps, ~remade)
  <2>1. DeepOk(deep, plies, ~remade)
    BY DEF CorpusInv, CorpusOk
  <2>2. ~remade => DOMAIN deep = {}
    BY <1>11, EmptyListed
  <2> QED
    BY <2>1, <2>2 DEF DeepOk
<1>13. LockOk(q) /\ q.kind = "lockstep" /\ CollectOk(q, fs, ps, gs)
  BY <1>10 DEF Runs, RelabelOk
<1>14. CorpusOk(q, fs, ps, gs, deep, collected, remade)
  BY <1>10, <1>11, <1>12, <1>13 DEF CorpusOk
<1> QED
  BY <1>2, <1>3, <1>4, <1>14 DEF CorpusInv

\* The program ends.
LEMMA InvFinished == CorpusInv /\ Finished => CorpusInv'
<1> SUFFICES ASSUME CorpusInv, Finished PROVE CorpusInv'
  OBVIOUS
<1>1. PICK p : p = proc
  OBVIOUS
<1>2. /\ p.kind = "lockstep" /\ ~(p.at <= Slots) /\ p.pending = <<>>
      /\ collected' = (collected \/ p.prog = "collect") /\ proc' = Idle
      /\ features' = features /\ plies' = plies /\ games' = games /\ deep' = deep /\ remade' = remade
  <2>1. /\ p.kind = "lockstep" /\ p.at > Slots /\ p.pending = <<>>
        /\ collected' = (collected \/ p.prog = "collect") /\ proc' = Idle
        /\ features' = features /\ plies' = plies /\ games' = games /\ deep' = deep /\ remade' = remade
    BY <1>1 DEF Finished
  <2>2. Runs(p, features, plies, games, deep)
    BY <1>1, <2>1, CorpusRuns DEF CorpusInv
  <2>3. p.at \in Nat
    BY <2>2, SlotsPositive DEF Runs, LockOk, ShapeOk
  <2>4. ~(p.at <= Slots)
    BY <2>1, <2>3, SlotsPositive
  <2> QED
    BY <2>1, <2>4
<1>3. Runs(p, features, plies, games, deep)
  BY <1>1, <1>2, CorpusRuns DEF CorpusInv
<1>4. p.prog = "collect" => \A j : InGames(games, j) <=> j \in 1 .. Games
  <2> SUFFICES ASSUME p.prog = "collect"
               PROVE  \A j : InGames(games, j) <=> j \in 1 .. Games
    OBVIOUS
  <2>1. CollectOk(p, features, plies, games) /\ LockOk(p)
    BY <1>3 DEF Runs, RelabelOk
  <2>2. ~AtSlot(p)
    <3>1. p.at \in Nat
      BY <2>1, SlotsPositive DEF LockOk, ShapeOk
    <3> QED
      BY <3>1, <1>2, SlotsPositive DEF AtSlot
  <2> QED
    BY <2>1, <2>2, <1>2, CollectFinished
<1>5. Idle.kind = "idle"
  BY DEF Idle
<1>6. /\ FilesOk(features, plies, games) /\ DeepOk(deep, plies, ~remade) /\ remade \in BOOLEAN /\ collected \in BOOLEAN
      /\ collected /\ ~remade => \A j : InGames(games, j) <=> j \in 1 .. Games
  BY DEF CorpusInv, CorpusOk
<1>7. PICK col : col = (collected \/ p.prog = "collect")
  OBVIOUS
<1>8. col \in BOOLEAN /\ (col /\ ~remade => \A j : InGames(games, j) <=> j \in 1 .. Games)
  BY <1>4, <1>6, <1>7
<1>9. CorpusOk(Idle, features, plies, games, deep, col, remade)
  BY <1>5, <1>6, <1>8 DEF CorpusOk
<1> QED
  BY <1>2, <1>7, <1>9 DEF CorpusInv

\* A collection begins, over whatever was there.
LEMMA InvCollect == CorpusInv /\ Collect => CorpusInv'
<1> SUFFICES ASSUME CorpusInv, Collect PROVE CorpusInv'
  OBVIOUS
<1>1. PICK q : q = proc'
  OBVIOUS
<1>2. PICK rem : rem = (remade \/ collected \/ deep # <<>>)
  OBVIOUS
<1>3. /\ features' = <<>> /\ plies' = <<>> /\ games' = <<>> /\ deep' = deep /\ collected' = collected /\ remade' = rem
      /\ q = LockStep("collect", [i \in 1 .. Games |-> GameSession(i)])
  BY <1>1, <1>2 DEF Collect
<1>4. Runs(q, <<>>, <<>>, <<>>, deep) /\ q.prog = "collect" /\ FilesOk(<<>>, <<>>, <<>>)
  BY <1>3, RunsCollect
<1>5. DeepOk(deep, plies, ~remade) /\ collected \in BOOLEAN /\ rem \in BOOLEAN
  BY <1>2 DEF CorpusInv, CorpusOk
<1>6. (collected => rem) /\ (~rem => deep = <<>>)
  BY <1>2
<1>7. DeepOk(deep, <<>>, ~rem)
  <2>1. ~rem => DOMAIN deep = {}
    BY <1>6, EmptyListed
  <2> QED
    BY <2>1, <1>5 DEF DeepOk
<1>8. LockOk(q) /\ q.kind = "lockstep" /\ CollectOk(q, <<>>, <<>>, <<>>)
  BY <1>4 DEF Runs, RelabelOk
<1>9. CorpusOk(q, <<>>, <<>>, <<>>, deep, collected, rem)
  BY <1>4, <1>5, <1>6, <1>7, <1>8 DEF CorpusOk
<1> QED
  BY <1>1, <1>3, <1>9 DEF CorpusInv

\* A deep pass begins, or is resumed.
LEMMA InvRelabel == CorpusInv /\ Relabel => CorpusInv'
<1> SUFFICES ASSUME CorpusInv, Relabel PROVE CorpusInv'
  OBVIOUS
<1>1. PICK q : q = proc'
  OBVIOUS
<1>2. PICK fresh \in Freshness :
       /\ fresh \/ Parses
       /\ deep' = (IF fresh THEN <<>> ELSE deep)
       /\ LET todo == Todo(plies, IF fresh THEN {} ELSE DeepIdx)
          IN q = LockStep("relabel", [i \in DOMAIN todo |-> RelabelSession(todo[i])])
       /\ remade' = (remade \/ (fresh /\ DOMAIN shards["shallow"] # {}))
  BY <1>1 DEF Relabel
<1>3. PICK dp : dp = IF fresh THEN <<>> ELSE deep
  OBVIOUS
<1>4. PICK rem : rem = (remade \/ (fresh /\ DOMAIN shards["shallow"] # {}))
  OBVIOUS
<1>5. PICK todo : todo = Todo(plies, IdxOf(dp))
  OBVIOUS
<1>6. IdxOf(dp) = IF fresh THEN {} ELSE DeepIdx
  <2>1. IdxOf(<<>>) = {}
    BY EmptyListed DEF IdxOf
  <2>2. IdxOf(deep) = DeepIdx
    BY DEF IdxOf, DeepIdx
  <2> QED
    BY <2>1, <2>2, <1>3
<1>7. PICK sessions : sessions = [i \in DOMAIN todo |-> RelabelSession(todo[i])]
  OBVIOUS
<1>8. q = LockStep("relabel", sessions)
  BY <1>2, <1>5, <1>6, <1>7
<1>9. /\ features' = features /\ plies' = plies /\ games' = games /\ collected' = collected
      /\ deep' = dp /\ remade' = rem
  BY <1>2, <1>3, <1>4 DEF Relabel
<1>10. /\ FilesOk(features, plies, games) /\ DeepOk(deep, plies, ~remade) /\ remade \in BOOLEAN /\ collected \in BOOLEAN
       /\ collected /\ ~remade => \A j : InGames(games, j) <=> j \in 1 .. Games
  BY DEF CorpusInv, CorpusOk
<1>11. rem \in BOOLEAN /\ (~rem => ~remade)
  BY <1>4
<1>12. DeepOk(dp, plies, ~rem)
  <2>1. DeepOk(deep, plies, ~rem)
    BY <1>10, <1>11 DEF DeepOk
  <2>2. DeepOk(<<>>, plies, ~rem)
    BY EmptyListed DEF DeepOk
  <2> QED
    BY <2>1, <2>2, <1>3
<1>13. \A i \in DOMAIN dp : dp[i] # Torn
  <2>1. fresh => DOMAIN dp = {}
    BY <1>3, EmptyListed
  <2>2. ~fresh => dp = deep /\ Parses
    BY <1>2, <1>3
  <2> QED
    BY <2>1, <2>2 DEF Parses, NoneTorn
<1>14. IsList(plies) /\ \A i \in DOMAIN plies : PlyFollows(plies[i], i)
  BY <1>10 DEF FilesOk
<1>15. IsList(sessions) /\ RelabelOk(q, plies, dp)
  BY <1>5, <1>7, <1>8, <1>13, <1>14, RelabelBegins
<1>16. LockOk(q) /\ q.prog = "relabel"
  BY <1>8, <1>15, LockBegun
<1>17. q.kind = "lockstep"
  BY <1>16 DEF LockOk, ShapeOk
<1>18. CorpusOk(q, features, plies, games, dp, collected, rem)
  BY <1>10, <1>11, <1>12, <1>15, <1>16, <1>17 DEF CorpusOk
<1> QED
  BY <1>1, <1>9, <1>18 DEF CorpusInv

\* Another program takes over, or the program that runs is over: the corpus is what it was.
LEMMA OtherProgram ==
  ASSUME NEW p, NEW fs, NEW ps, NEW gs, NEW dp, NEW col, NEW rem, CorpusOk(p, fs, ps, gs, dp, col, rem), NEW q,
         \/ q = Idle
         \/ q.kind = "shards" /\ DOMAIN q = {"kind", "writes", "records"}
         \/ q.kind = "value" /\ DOMAIN q = {"kind", "files", "cursor"}
  PROVE  CorpusOk(q, fs, ps, gs, dp, col, rem)
<1>1. Idle.kind = "idle"
  BY DEF Idle
<1> QED
  BY <1>1 DEF CorpusOk

\* The programs that only read the corpus.
LEMMA InvSets ==
  CorpusInv /\ (Shards \/ WriteShard \/ WriteManifest \/ ValueShards \/ SwapValues \/ ValuesWritten) => CorpusInv'
<1> SUFFICES ASSUME CorpusInv, Shards \/ WriteShard \/ WriteManifest \/ ValueShards \/ SwapValues \/ ValuesWritten
             PROVE  CorpusInv'
  OBVIOUS
<1>1. PICK p : p = proc
  OBVIOUS
<1>2. PICK q : q = proc'
  OBVIOUS
<1>3. features' = features /\ plies' = plies /\ games' = games /\ deep' = deep /\ collected' = collected /\ remade' = remade
  BY DEF Shards, WriteShard, WriteManifest, ValueShards, SwapValues, ValuesWritten, disk
<1>4. /\ p.kind = "shards" => DOMAIN p = {"kind", "writes", "records"}
      /\ p.kind = "value" => DOMAIN p = {"kind", "files", "cursor"}
  BY <1>1 DEF CorpusInv, CorpusOk
<1>5. \/ q = Idle
      \/ q.kind = "shards" /\ DOMAIN q = {"kind", "writes", "records"}
      \/ q.kind = "value" /\ DOMAIN q = {"kind", "files", "cursor"}
  <2>1. CASE Shards
    <3>1. q = [kind |-> "shards", writes |-> ShardWrites, records |-> Len(Usable)]
      BY <2>1, <1>2 DEF Shards
    <3> QED
      BY <3>1
  <2>2. CASE WriteShard
    <3>1. p.kind = "shards" /\ q = [p EXCEPT !.writes = Tail(@)]
      BY <2>2, <1>1, <1>2 DEF WriteShard
    <3> QED
      BY <3>1, <1>4
  <2>3. CASE WriteManifest
    BY <2>3, <1>2 DEF WriteManifest
  <2>4. CASE ValueShards
    <3>1. q = [kind |-> "value", files |-> SourceFiles, cursor |-> 0]
      BY <2>4, <1>2 DEF ValueShards
    <3> QED
      BY <3>1
  <2>5. CASE SwapValues
    <3>1. PICK rows : rows = Head(p.files)
      OBVIOUS
    <3>2. p.kind = "value" /\ (q = [p EXCEPT !.files = Tail(@), !.cursor = @ + Len(rows)] \/ q = Idle)
      BY <2>5, <3>1, <1>1, <1>2 DEF SwapValues
    <3> QED
      BY <3>2, <1>4
  <2>6. CASE ValuesWritten
    BY <2>6, <1>2 DEF ValuesWritten
  <2> QED
    BY <2>1, <2>2, <2>3, <2>4, <2>5, <2>6
<1>6. CorpusOk(q, features, plies, games, deep, collected, remade)
  BY <1>1, <1>5, OtherProgram DEF CorpusInv
<1> QED
  BY <1>2, <1>3, <1>6 DEF CorpusInv

\* Whatever runs dies, perhaps in the middle of a line.
LEMMA InvCrash == CorpusInv /\ Crash => CorpusInv'
<1> SUFFICES ASSUME CorpusInv, Crash PROVE CorpusInv'
  OBVIOUS
<1>1. /\ proc' = Idle
      /\ features' = features /\ plies' = plies /\ games' = games /\ collected' = collected /\ remade' = remade
      /\ deep' = deep \/ (NoneTorn /\ deep' = Append(deep, Torn)) \/ (DeepDone /\ deep' = Append(deep, DeepLine))
  BY DEF Crash, Appends
<1>2. CorpusOk(Idle, features, plies, games, deep, collected, remade)
  BY OtherProgram DEF CorpusInv
<1>3. DeepOk(deep, plies, ~remade) /\ remade \in BOOLEAN
  BY <1>2 DEF CorpusOk
<1>4. NoneTorn => DeepOk(Append(deep, Torn), plies, ~remade)
  <2> SUFFICES ASSUME NoneTorn
               PROVE  DeepOk(Append(deep, Torn), plies, ~remade)
    OBVIOUS
  <2>1. PICK once \in BOOLEAN : once <=> ~remade
    OBVIOUS
  <2>2. DeepOk(deep, plies, once) /\ \A i \in DOMAIN deep : deep[i] # Torn
    BY <1>3, <2>1 DEF DeepOk, NoneTorn
  <2>3. DeepOk(Append(deep, Torn), plies, once)
    BY <2>2, DeepTorn
  <2> QED
    BY <2>1, <2>3 DEF DeepOk
<1>5. Idle.kind = "idle"
  BY DEF Idle
<1>6. NoneTorn => CorpusOk(Idle, features, plies, games, Append(deep, Torn), collected, remade)
  BY <1>2, <1>4, <1>5 DEF CorpusOk
<1>7. CASE deep' = deep
  BY <1>1, <1>2, <1>7 DEF CorpusInv
<1>8. CASE NoneTorn /\ deep' = Append(deep, Torn)
  BY <1>1, <1>6, <1>8 DEF CorpusInv
<1>9. CASE DeepDone /\ deep' = Append(deep, DeepLine)
  <2>1. PICK q : q = [proc EXCEPT !.slots[proc.at].search = None]
    OBVIOUS
  <2>2. CorpusOk(q, features, plies, games, Append(deep, DeepLine), collected, remade)
    BY <1>9, <2>1, DeepFound
  <2>3. CorpusOk(Idle, features, plies, games, Append(deep, DeepLine), collected, remade)
    BY <2>2, OtherProgram
  <2> QED
    BY <1>1, <1>9, <2>3 DEF CorpusInv
<1> QED
  BY <1>1, <1>7, <1>8, <1>9

\* There is nothing yet.
LEMMA InvInit == Init => CorpusInv
<1> SUFFICES ASSUME Init PROVE CorpusInv
  OBVIOUS
<1>1. /\ features = <<>> /\ plies = <<>> /\ games = <<>> /\ deep = <<>> /\ collected = FALSE /\ remade = FALSE /\ proc = Idle
  BY DEF Init
<1>2. FilesOk(<<>>, <<>>, <<>>) /\ \A once : DeepOk(<<>>, <<>>, once)
  BY EmptyListed DEF FilesOk, DeepOk
<1>3. Idle.kind = "idle"
  BY DEF Idle
<1> QED
  BY <1>1, <1>2, <1>3 DEF CorpusInv, CorpusOk

\* No step breaks it.
LEMMA InvNext == CorpusInv /\ [Next]_vars => CorpusInv'
<1> SUFFICES ASSUME CorpusInv, [Next]_vars PROVE CorpusInv'
  OBVIOUS
<1>1. CASE UNCHANGED vars
  BY <1>1 DEF vars, disk, CorpusInv
<1>2. CASE Next
  BY <1>2, InvTake, InvEndSession, InvStartSearch, InvPend, InvInfer, InvFinishShallow, InvFinishDeep, InvWrite,
     InvFinished, InvCollect, InvRelabel, InvSets, InvCrash DEF Next, LockStepStep
<1> QED
  BY <1>1, <1>2

\* All the while, what is in the files of a collection and of the deep pass follows from what was searched.
THEOREM CorpusFollows == Spec => []CorpusInv
<1> QED
  BY InvInit, InvNext, PTL DEF Spec

\* A pass that ends has a target for every ply.
LEMMA PassEnds ==
  ASSUME CorpusInv, Next, proc.kind = "lockstep", proc' = Idle, crashes' = crashes, proc.prog = "relabel",
         crashes \in Nat
  PROVE  {plies[i].idx : i \in DOMAIN plies} \subseteq DeepIdx
<1>1. PICK p : p = proc
  OBVIOUS
<1>2. Runs(p, features, plies, games, deep) /\ p.prog = "relabel"
  BY <1>1, CorpusRuns DEF CorpusInv
<1>3. LockOk(p) /\ RelabelOk(p, plies, deep) /\ p.kind = "lockstep"
  BY <1>2 DEF Runs, CollectOk
<1>4. /\ DOMAIN p = {"kind", "prog", "todo", "at", "pending", "slots", "nextIdx", "flush"}
      /\ p.at \in Nat
  BY <1>3, SlotsPositive DEF LockOk, ShapeOk
<1>5. Idle.kind = "idle"
  BY DEF Idle
<1>6. ~Crash
  <2>1. Crash => crashes' = crashes + 1
    BY DEF Crash
  <2>2. crashes' # crashes + 1
    OBVIOUS
  <2> QED
    BY <2>1, <2>2
<1>7. ~LockStepStep \/ Finished
  <2>1. ASSUME proc'.kind = "lockstep" PROVE FALSE
    BY <2>1, <1>5
  <2>2. Take => proc'.kind = "lockstep"
    BY <1>1, <1>3, <1>4 DEF Take
  <2>3. EndSession => proc'.kind = "lockstep"
    <3> SUFFICES ASSUME EndSession PROVE proc'.kind = "lockstep"
      OBVIOUS
    <3>1. PICK f, next : proc' = [p EXCEPT !.slots[p.at].session = None, !.flush = f, !.nextIdx = next]
      BY <1>1 DEF EndSession
    <3> QED
      BY <3>1, <1>3, <1>4
  <2>4. Write => proc'.kind = "lockstep"
    BY <1>1, <1>3, <1>4 DEF Write
  <2>5. StartSearch => proc'.kind = "lockstep"
    BY <1>1, <1>3, <1>4 DEF StartSearch
  <2>6. Pend => proc'.kind = "lockstep"
    BY <1>1, <1>3, <1>4 DEF Pend
  <2>7. Infer => proc'.kind = "lockstep"
    <3> SUFFICES ASSUME Infer PROVE proc'.kind = "lockstep"
      OBVIOUS
    <3>1. PICK slots : proc' = [p EXCEPT !.at = 1, !.pending = <<>>, !.slots = slots]
      BY <1>1 DEF Infer
    <3> QED
      BY <3>1, <1>3, <1>4
  <2>8. FinishShallow => proc'.kind = "lockstep"
    <3> SUFFICES ASSUME FinishShallow PROVE proc'.kind = "lockstep"
      OBVIOUS
    <3>1. PICK slot : proc' = [p EXCEPT !.slots[p.at] = slot]
      BY <1>1 DEF FinishShallow
    <3> QED
      BY <3>1, <1>3, <1>4
  <2>9. FinishDeep => proc'.kind = "lockstep"
    BY <1>1, <1>3, <1>4 DEF FinishDeep
  <2> QED
    BY <2>1, <2>2, <2>3, <2>4, <2>5, <2>6, <2>7, <2>8, <2>9 DEF LockStepStep
<1>8. ~Collect /\ ~Relabel /\ ~Shards /\ ~ValueShards
  BY <1>5 DEF Collect, Relabel, Shards, ValueShards
<1>9. ~WriteShard /\ ~WriteManifest /\ ~SwapValues /\ ~ValuesWritten
  BY DEF WriteShard, WriteManifest, SwapValues, ValuesWritten
<1>10. Finished
  BY <1>6, <1>7, <1>8, <1>9 DEF Next
<1>11. p.pending = <<>> /\ ~AtSlot(p)
  BY <1>1, <1>4, <1>10, SlotsPositive DEF Finished, AtSlot
<1>12. \A m \in DOMAIN plies : plies[m].idx \in IdxOf(deep)
  BY <1>3, <1>11, RelabelFinished
<1> QED
  BY <1>12 DEF IdxOf, DeepIdx

CrashesCount == crashes \in Nat

\* A crash is counted, so a program that ends is not one that died.
LEMMA CrashesCounted == Spec => []CrashesCount
<1>1. Init => CrashesCount
  BY DEF Init, CrashesCount
<1>2. CrashesCount /\ [Next]_vars => CrashesCount'
  <2> SUFFICES ASSUME CrashesCount, [Next]_vars PROVE CrashesCount'
    OBVIOUS
  <2>1. Crash => crashes' = crashes + 1
    BY DEF Crash
  <2>2. Take \/ EndSession \/ Write \/ StartSearch \/ Pend => crashes' = crashes
    BY DEF Take, EndSession, Write, StartSearch, Pend
  <2>3. Infer \/ FinishShallow \/ FinishDeep \/ Finished => crashes' = crashes
    BY DEF Infer, FinishShallow, FinishDeep, Finished
  <2>4. Collect \/ Relabel \/ Shards \/ WriteShard \/ WriteManifest => crashes' = crashes
    BY DEF Collect, Relabel, Shards, WriteShard, WriteManifest
  <2>5. ValueShards \/ SwapValues \/ ValuesWritten => crashes' = crashes
    BY DEF ValueShards, SwapValues, ValuesWritten
  <2>6. UNCHANGED vars => crashes' = crashes
    BY DEF vars
  <2>7. crashes' = crashes \/ crashes' = crashes + 1
    BY <2>1, <2>2, <2>3, <2>4, <2>5, <2>6 DEF Next, LockStepStep
  <2> QED
    BY <2>7 DEF CrashesCount
<1> QED
  BY <1>1, <1>2, PTL DEF Spec

InPass == proc.kind = "lockstep" /\ proc.prog = "relabel"

\* A scan stays in its program.
LEMMA ScansOn ==
  ASSUME CorpusInv, Take \/ EndSession \/ Write \/ StartSearch \/ Pend \/ Infer \/ FinishShallow \/ FinishDeep
  PROVE  proc'.kind = proc.kind /\ proc'.prog = proc.prog
<1>1. PICK p : p = proc
  OBVIOUS
<1>2. p.kind = "lockstep"
  BY <1>1 DEF Take, EndSession, Write, StartSearch, Pend, Infer, FinishShallow, FinishDeep, DeepDone, Scanning
<1>3. LockOk(p)
  BY <1>1, <1>2, CorpusRuns DEF CorpusInv, Runs
<1>4. DOMAIN p = {"kind", "prog", "todo", "at", "pending", "slots", "nextIdx", "flush"}
  BY <1>3 DEF LockOk, ShapeOk
<1>5. CASE Take \/ Write \/ StartSearch \/ Pend
  BY <1>1, <1>4, <1>5 DEF Take, Write, StartSearch, Pend
<1>6. CASE EndSession
  <2>1. PICK f, next : proc' = [p EXCEPT !.slots[p.at].session = None, !.flush = f, !.nextIdx = next]
    BY <1>1, <1>6 DEF EndSession
  <2> QED
    BY <2>1, <1>1, <1>4
<1>7. CASE Infer
  <2>1. PICK slots : proc' = [p EXCEPT !.at = 1, !.pending = <<>>, !.slots = slots]
    BY <1>1, <1>7 DEF Infer
  <2> QED
    BY <2>1, <1>1, <1>4
<1>8. CASE FinishShallow
  <2>1. PICK slot : proc' = [p EXCEPT !.slots[p.at] = slot]
    BY <1>1, <1>8 DEF FinishShallow
  <2> QED
    BY <2>1, <1>1, <1>4
<1>9. CASE FinishDeep
  BY <1>1, <1>4, <1>9 DEF FinishDeep
<1> QED
  BY <1>5, <1>6, <1>7, <1>8, <1>9

\* What is known of the file before a line is appended to it.
LEMMA PassFacts ==
  ASSUME CorpusInv, InPass
  PROVE  NoneTorn
<1>1. Runs(proc, features, plies, games, deep)
  BY CorpusRuns DEF CorpusInv, InPass
<1> QED
  BY <1>1 DEF Runs, CollectOk, RelabelOk, NoneTorn, InPass

\* Two records share a line at most, since a pass begins only on a file that parses; and while
\* one runs, a file of whose last line the newline is lost has lost nothing else.
LinesOk ==
  /\ glued = {} \/ (cut /\ \E i \in DOMAIN deep : glued = {i, i + 1})
  /\ unended => Len(deep) >= 1 /\ (NoneTorn => cut)
  /\ InPass /\ unended => glued = {}

\* What an append does to the lines.
LEMMA LinesAppended ==
  ASSUME CorpusInv, LinesOk, InPass, NEW line, NEW newline \in BOOLEAN, Appends(line, newline)
  PROVE  /\ glued' = {} \/ (cut /\ \E i \in DOMAIN deep' : glued' = {i, i + 1})
         /\ Len(deep') >= 1 /\ unended' = ~newline
<1>1. NoneTorn
  BY PassFacts
<1>2. IsList(deep)
  BY DEF CorpusInv, CorpusOk, DeepOk
<1>3. Len(deep) \in Nat /\ DOMAIN deep = 1 .. Len(deep)
  BY <1>2, OneMore
<1>4. DOMAIN deep' = 1 .. Len(deep) + 1 /\ Len(deep') = Len(deep) + 1
  BY <1>2, OneMore DEF Appends
<1>5. Len(deep') >= 1
  BY <1>3, <1>4
<1>6. CASE unended
  <2>1. cut /\ glued = {} /\ Len(deep) >= 1
    BY <1>1, <1>6 DEF LinesOk
  <2>2. glued' = {Len(deep), Len(deep) + 1}
    BY <2>1, <1>6 DEF Appends
  <2>3. glued' = {Len(deep), Len(deep) + 1} /\ Len(deep) \in DOMAIN deep'
    BY <2>1, <2>2, <1>3, <1>4
  <2> QED
    BY <2>1, <2>3, <1>5 DEF Appends
<1>7. CASE ~unended
  <2>1. glued' = glued
    BY <1>7 DEF Appends
  <2>2. \A i \in DOMAIN deep : i \in DOMAIN deep'
    BY <1>3, <1>4
  <2> QED
    BY <2>1, <2>2, <1>5 DEF Appends, LinesOk
<1> QED
  BY <1>6, <1>7

\* A step that leaves the file, and begins no pass.
LEMMA LinesStay ==
  ASSUME LinesOk, deep' = deep, glued' = glued, unended' = unended, cut' = cut, InPass' => InPass
  PROVE  LinesOk'
BY DEF LinesOk, NoneTorn

\* Nor does any step of the pipeline.
LEMMA LinesNext == CorpusInv /\ LinesOk /\ [Next]_vars => LinesOk'
<1> SUFFICES ASSUME CorpusInv, LinesOk, [Next]_vars PROVE LinesOk'
  OBVIOUS
<1>1. Idle.kind = "idle"
  BY DEF Idle
<1>2. CASE Take \/ EndSession \/ Write \/ StartSearch \/ Pend \/ Infer \/ FinishShallow
  <2>1. proc'.kind = proc.kind /\ proc'.prog = proc.prog
    BY <1>2, ScansOn
  <2>2. deep' = deep /\ glued' = glued /\ unended' = unended /\ cut' = cut
    BY <1>2 DEF Take, EndSession, Write, StartSearch, Pend, Infer, FinishShallow, disk
  <2> QED
    BY <2>1, <2>2, LinesStay DEF InPass
<1>3. CASE FinishDeep
  <2>1. DeepDone /\ Appends(DeepLine, TRUE) /\ cut' = cut
    BY <1>3 DEF FinishDeep
  <2>2. InPass
    <3>1. PICK q : q = [proc EXCEPT !.slots[proc.at].search = None]
      OBVIOUS
    <3> QED
      BY <2>1, <3>1, DeepFound DEF InPass, DeepDone, Scanning
  <2>3. /\ glued' = {} \/ (cut /\ \E i \in DOMAIN deep' : glued' = {i, i + 1})
        /\ Len(deep') >= 1 /\ unended' = FALSE
    BY <2>1, <2>2, LinesAppended
  <2> QED
    BY <2>1, <2>3 DEF LinesOk
<1>4. CASE Finished \/ Shards \/ WriteShard \/ WriteManifest \/ ValueShards \/ SwapValues \/ ValuesWritten
  <2>1. deep' = deep /\ glued' = glued /\ unended' = unended /\ cut' = cut
    BY <1>4 DEF Finished, Shards, WriteShard, WriteManifest, ValueShards, SwapValues, ValuesWritten, disk
  <2>2. CASE Finished \/ Shards \/ WriteManifest \/ ValueShards \/ ValuesWritten
    <3>1. proc'.kind # "lockstep"
      BY <2>2, <1>1 DEF Finished, Shards, WriteManifest, ValueShards, ValuesWritten
    <3> QED
      BY <2>1, <3>1, LinesStay DEF InPass
  <2>3. CASE WriteShard
    <3>1. proc.kind = "shards" /\ DOMAIN proc = {"kind", "writes", "records"} /\ proc' = [proc EXCEPT !.writes = Tail(@)]
      BY <2>3 DEF WriteShard, CorpusInv, CorpusOk
    <3>2. proc'.kind = "shards"
      BY <3>1
    <3> QED
      BY <2>1, <3>2, LinesStay DEF InPass
  <2>4. CASE SwapValues
    <3>1. proc.kind = "value" /\ DOMAIN proc = {"kind", "files", "cursor"}
      BY <2>4 DEF SwapValues, CorpusInv, CorpusOk
    <3>2. PICK n : proc' = [proc EXCEPT !.files = Tail(@), !.cursor = n] \/ proc' = Idle
      BY <2>4 DEF SwapValues
    <3>3. proc'.kind # "lockstep"
      BY <1>1, <3>1, <3>2
    <3> QED
      BY <2>1, <3>3, LinesStay DEF InPass
  <2> QED
    BY <1>4, <2>2, <2>3, <2>4
<1>5. CASE Collect
  <2>1. deep' = deep /\ glued' = glued /\ unended' = unended /\ cut' = cut /\ proc'.prog = "collect"
    BY <1>5 DEF Collect, LockStep
  <2> QED
    BY <2>1, LinesStay DEF InPass
<1>6. CASE Relabel
  <2>1. PICK fresh \in Freshness :
          /\ fresh \/ Parses
          /\ deep' = (IF fresh THEN <<>> ELSE deep) /\ glued' = (IF fresh THEN {} ELSE glued)
          /\ unended' = (~fresh /\ unended) /\ cut' = (~fresh /\ cut)
    BY <1>6 DEF Relabel
  <2>2. CASE fresh
    <3>1. glued' = {} /\ unended' = FALSE
      BY <2>1, <2>2
    <3> QED
      BY <3>1 DEF LinesOk
  <2>3. CASE ~fresh
    <3>1. deep' = deep /\ glued = {} /\ glued' = {} /\ unended' = unended /\ cut' = cut
      <4>1. Parses /\ deep' = deep /\ glued' = glued
        BY <2>1, <2>3
      <4>2. glued = {}
        BY <4>1 DEF Parses
      <4>3. unended' <=> unended
        BY <2>1, <2>3
      <4>4. cut' <=> cut
        BY <2>1, <2>3
      <4> QED
        BY <4>1, <4>2, <4>3, <4>4
    <3> QED
      BY <3>1 DEF LinesOk, NoneTorn
  <2> QED
    BY <2>2, <2>3
<1>7. CASE Crash
  <2>1. proc' = Idle /\ ~InPass'
    BY <1>1, <1>7 DEF Crash, InPass
  <2>2. CASE UNCHANGED <<deep, glued, unended, cut>>
    BY <2>1, <2>2, LinesStay
  <2>3. CASE InPass /\ Appends(Torn, FALSE) /\ cut' = cut
    <3>1. /\ glued' = {} \/ (cut /\ \E i \in DOMAIN deep' : glued' = {i, i + 1})
          /\ Len(deep') >= 1
      BY <2>3, LinesAppended
    <3>2. ~NoneTorn'
      <4>1. IsList(deep)
        BY DEF CorpusInv, CorpusOk, DeepOk
      <4>2. Len(deep) \in Nat /\ DOMAIN deep' = 1 .. Len(deep) + 1 /\ deep'[Len(deep) + 1] = Torn
        BY <4>1, <2>3, OneMore DEF Appends
      <4> QED
        BY <4>2 DEF NoneTorn
    <3> QED
      BY <2>1, <2>3, <3>1, <3>2 DEF LinesOk
  <2>4. CASE DeepDone /\ Appends(DeepLine, FALSE) /\ cut' = TRUE
    <3>1. InPass
      <4>1. PICK q : q = [proc EXCEPT !.slots[proc.at].search = None]
        OBVIOUS
      <4> QED
        BY <2>4, <4>1, DeepFound DEF InPass, DeepDone, Scanning
    <3>2. /\ glued' = {} \/ (cut /\ \E i \in DOMAIN deep' : glued' = {i, i + 1})
          /\ Len(deep') >= 1
      BY <2>4, <3>1, LinesAppended
    <3> QED
      BY <2>1, <2>4, <3>2 DEF LinesOk
  <2> QED
    BY <1>7, <2>2, <2>3, <2>4 DEF Crash, InPass
<1>8. CASE UNCHANGED vars
  BY <1>8, LinesStay DEF vars, disk, InPass
<1> QED
  BY <1>2, <1>3, <1>4, <1>5, <1>6, <1>7, <1>8 DEF Next, LockStepStep

\* However often the deep pass is killed and resumed, no position gets two targets, and a pass
\* that ends has a line that parses for each, but for the two at the most that share a line since a
\* kill took no more than a newline (distill-relabel.mjs).
THEOREM Resumed == Spec => ResumeIsExact
<1>1. CorpusInv => \A i, j \in DOMAIN deep : i # j => deep[i].idx # deep[j].idx
  BY DEF CorpusInv, CorpusOk, DeepOk
<1>2. LinesOk => glued = {} \/ (cut /\ \E i \in DOMAIN deep : glued = {i, i + 1})
  BY DEF LinesOk
<1>3. CorpusInv /\ LinesOk /\ CrashesCount /\ [Next]_vars =>
        [proc.kind = "lockstep" /\ proc' = Idle /\ crashes' = crashes /\ proc.prog = "relabel"
          => \A n \in DOMAIN plies :
               \E i \in DOMAIN deep : deep[i].idx = plies[n].idx /\ (i \in glued => cut)]_vars
  <2>1. ASSUME CorpusInv, LinesOk, CrashesCount, Next, proc.kind = "lockstep", proc' = Idle, crashes' = crashes,
               proc.prog = "relabel", NEW n \in DOMAIN plies
        PROVE  \E i \in DOMAIN deep : deep[i].idx = plies[n].idx /\ (i \in glued => cut)
    <3>1. plies[n].idx \in DeepIdx
      BY <2>1, PassEnds DEF CrashesCount
    <3>2. PICK i \in DOMAIN deep : deep[i].idx = plies[n].idx
      BY <3>1 DEF DeepIdx
    <3> QED
      BY <2>1, <3>2 DEF LinesOk
  <2> QED
    BY <2>1
<1>4. Init => LinesOk
  BY DEF Init, LinesOk, InPass
<1>5. Spec => []LinesOk
  BY <1>4, LinesNext, CorpusFollows, PTL DEF Spec
<1> QED
  BY <1>1, <1>2, <1>3, <1>5, CorpusFollows, CrashesCounted, PTL DEF Spec, ResumeIsExact

-----------------------------------------------------------------------------
(* The pipeline: what the corpus tells.                                    *)

OwnPlies(ps, g) == AtPlaces(ps, {i \in DOMAIN ps : ps[i].game = g.game})
Deciding(g) == {n \in 0 .. Len(g.h) - 1 : ~Alone(Prefix(g.h, n))}

\* The plies own of the game g are those of the positions at, each as it was played.
Tells(g, own, at) ==
  /\ {Len(own[i].h) : i \in DOMAIN own} = at /\ Len(own) = Cardinality(at)
  /\ \A i \in DOMAIN own :
       /\ own[i].idx = g.firstIdx + i - 1
       /\ own[i].h = Prefix(g.h, Len(own[i].h))
       /\ own[i].z = Z(Outcome(g.h), own[i].h)
       /\ own[i].target = TargetOf(own[i].h, "shallow", own[i].seed)

\* What the file says of a game that is told by c of its plies.
LEMMA GameOnFile ==
  ASSUME NEW ps, IsList(ps), NEW g, NEW c, ToldBy(g, c, ps), NEW own, own = OwnPlies(ps, g), NEW at, at = Deciding(g)
  PROVE  Tells(g, own, at)
<1> DEFINE a == g.firstIdx
           S == a + 1 .. a + c
           recs == [i \in 1 .. c |-> ps[a + i]]
           h == g.h
<1>1. c \in Nat /\ a \in Nat /\ {i \in DOMAIN ps : ps[i].game = g.game} = S /\ Told(g, recs)
  BY DEF ToldBy
<1> HIDE DEF a
<1>2. Cardinality(S) = c /\ \A n \in 1 .. c : Ord(S)[n] = a + n
  BY <1>1, OrdInterval
<1>3. own = AtPlaces(ps, S)
  BY <1>1 DEF OwnPlies
<1> HIDE DEF S
<1>4. DOMAIN own = 1 .. c /\ Len(own) = c /\ \A i \in 1 .. c : own[i] = ps[a + i]
  <2>1. Cardinality(S) \in Nat
    BY <1>1, <1>2
  <2>2. /\ own = [n \in 1 .. Cardinality(S) |-> ps[Ord(S)[n]]]
        /\ DOMAIN own = 1 .. Cardinality(S) /\ Len(own) = Cardinality(S)
    BY <2>1, <1>3, OrdAtPlaces
  <2> QED
    BY <2>2, <1>2
<1>5. DOMAIN recs = 1 .. c /\ \A i \in 1 .. c : recs[i] = own[i]
  BY <1>4
<1> HIDE DEF recs
<1>6. Recorded(h, recs) /\ \A i \in 1 .. c :
         /\ recs[i].idx = a + i - 1 /\ recs[i].z = Z(Outcome(h), recs[i].h)
         /\ recs[i].target = TargetOf(recs[i].h, "shallow", recs[i].seed)
  BY <1>1, <1>5 DEF Told, a
<1> HIDE DEF h
<1>7. /\ \A i \in 1 .. c : Len(recs[i].h) \in 0 .. Len(h) - 1 /\ recs[i].h = Prefix(h, Len(recs[i].h)) /\ ~Alone(recs[i].h)
      /\ \A i, j \in 1 .. c : i < j => Len(recs[i].h) < Len(recs[j].h)
      /\ \A n \in 0 .. Len(h) - 1 : ~Alone(Prefix(h, n)) => \E i \in 1 .. c : Len(recs[i].h) = n
  BY <1>5, <1>6 DEF Recorded
<1>8. \A n : n \in at <=> n \in 0 .. Len(h) - 1 /\ ~Alone(Prefix(h, n))
  BY DEF h, Deciding
<1>9. \A i \in 1 .. c : Len(recs[i].h) \in at
  <2> SUFFICES ASSUME NEW i \in 1 .. c PROVE Len(recs[i].h) \in at
    OBVIOUS
  <2>1. PICK n : n = Len(recs[i].h)
    OBVIOUS
  <2>2. n \in 0 .. Len(h) - 1 /\ recs[i].h = Prefix(h, n) /\ ~Alone(recs[i].h)
    BY <2>1, <1>7
  <2>3. ~Alone(Prefix(h, n))
    BY <2>2
  <2> QED
    BY <2>1, <2>2, <2>3, <1>8
<1>10. \A n \in at : \E i \in 1 .. c : Len(recs[i].h) = n
  BY <1>7, <1>8
<1> DEFINE f == [i \in 1 .. c |-> Len(recs[i].h)]
<1>11. DOMAIN f = 1 .. c /\ f = [i \in 1 .. c |-> f[i]] /\ \A i \in 1 .. c : f[i] = Len(recs[i].h)
  OBVIOUS
<1> HIDE DEF f
<1>12. \A i, j \in 1 .. c : f[i] = f[j] => i = j
  <2> SUFFICES ASSUME NEW i \in 1 .. c, NEW j \in 1 .. c, f[i] = f[j]
               PROVE  i = j
    OBVIOUS
  <2>1. Len(recs[i].h) = Len(recs[j].h)
    BY <1>11
  <2>2. Len(recs[i].h) \in Int
    <3>1. Len(recs[i].h) \in 0 .. Len(h) - 1
      BY <1>7
    <3> QED
      BY <3>1
  <2>3. ~(i < j) /\ ~(j < i)
    BY <2>1, <2>2, <1>7
  <2> QED
    BY <2>3, <1>1
<1>13. \A i \in 1 .. c : f[i] \in at
  BY <1>9, <1>11
<1>14. \A n \in at : \E i \in 1 .. c : f[i] = n
  BY <1>10, <1>11
<1>15. Cardinality(at) = c
  BY <1>1, <1>11, <1>12, <1>13, <1>14, Counting
<1>16. {Len(own[i].h) : i \in DOMAIN own} = at
  <2>1. \A i \in 1 .. c : Len(own[i].h) \in at
    BY <1>5, <1>9
  <2>2. \A n \in at : \E i \in 1 .. c : Len(own[i].h) = n
    BY <1>5, <1>10
  <2>3. \A n : n \in {Len(own[i].h) : i \in DOMAIN own} <=> \E i \in 1 .. c : Len(own[i].h) = n
    BY <1>4
  <2>4. \A n : n \in {Len(own[i].h) : i \in DOMAIN own} <=> n \in at
    BY <2>1, <2>2, <2>3
  <2> QED
    BY <2>4, Zenon
<1>17. \A i \in 1 .. c : /\ own[i].idx = a + i - 1
              /\ own[i].h = Prefix(h, Len(own[i].h))
              /\ own[i].z = Z(Outcome(h), own[i].h)
              /\ own[i].target = TargetOf(own[i].h, "shallow", own[i].seed)
  BY <1>5, <1>6, <1>7
<1> QED
  BY <1>4, <1>15, <1>16, <1>17 DEF a, h, Tells

\* A file that has each of 1 .. n once has n lines.
LEMMA EachGameOnce ==
  ASSUME NEW gs, IsList(gs), NEW n \in Nat, \A j : InGames(gs, j) <=> j \in 1 .. n,
         \A k, l \in DOMAIN gs : gs[k].game = gs[l].game => k = l
  PROVE  Len(gs) = n /\ {g.game : g \in Range(gs)} = 1 .. n
<1>1. Len(gs) \in Nat /\ DOMAIN gs = 1 .. Len(gs)
  BY OneMore
<1> DEFINE m == Len(gs)
           f == [k \in 1 .. m |-> gs[k].game]
           S == 0 + 1 .. 0 + n
<1>2. DOMAIN f = 1 .. m /\ f = [k \in 1 .. m |-> f[k]] /\ \A k \in 1 .. m : f[k] = gs[k].game
  OBVIOUS
<1>3. S = 1 .. n
  OBVIOUS
<1>4. \A j : j \in S <=> \E k \in 1 .. m : gs[k].game = j
  BY <1>1, <1>3 DEF InGames
<1>5. Cardinality(S) = n
  BY OrdInterval
<1> HIDE DEF f, S
<1>6. \A k, l \in 1 .. m : f[k] = f[l] => k = l
  BY <1>1, <1>2
<1>7. (\A k \in 1 .. m : f[k] \in S) /\ \A j \in S : \E k \in 1 .. m : f[k] = j
  BY <1>2, <1>4
<1>8. Cardinality(S) = m
  BY <1>1, <1>2, <1>6, <1>7, Counting
<1>9. {g.game : g \in Range(gs)} = S
  <2>1. \A g : g \in Range(gs) <=> \E k \in 1 .. m : g = gs[k]
    BY <1>1 DEF Range
  <2> QED
    BY <2>1, <1>4
<1> QED
  BY <1>3, <1>5, <1>8, <1>9

\* What is on disk of a collection tells the games that were played, whatever was killed between two
\* writes (distill-collect.mjs: GameSession.finalize under runLockStep).
THEOREM CorpusTells == Spec => []CorpusTellsTheGames
<1>1. ASSUME CorpusInv PROVE CorpusTellsTheGames
  <2>1. /\ FilesOk(features, plies, games)
        /\ collected /\ ~remade => \A j : InGames(games, j) <=> j \in 1 .. Games
    BY <1>1 DEF CorpusInv, CorpusOk
  <2>2. /\ IsList(plies) /\ IsList(games) /\ \A i \in DOMAIN plies : PlyFollows(plies[i], i) /\ features[i] = plies[i].h
        /\ \A k \in DOMAIN games : \E c \in Nat : ToldBy(games[k], c, plies)
        /\ \A k, l \in DOMAIN games : games[k].game = games[l].game => k = l
    BY <2>1 DEF FilesOk
  <2>3. ASSUME NEW g \in Range(games)
        PROVE LET own == AtPlaces(plies, {i \in DOMAIN plies : plies[i].game = g.game})
                  at == {n \in 0 .. Len(g.h) - 1 : ~Alone(Prefix(g.h, n))}
              IN /\ {Len(own[i].h) : i \in DOMAIN own} = at /\ Len(own) = Cardinality(at)
                 /\ \A i \in DOMAIN own :
                      /\ own[i].idx = g.firstIdx + i - 1
                      /\ own[i].h = Prefix(g.h, Len(own[i].h))
                      /\ own[i].z = Z(Outcome(g.h), own[i].h)
                      /\ own[i].target = TargetOf(own[i].h, "shallow", own[i].seed)
    <3>1. PICK k \in DOMAIN games : g = games[k]
      BY DEF Range
    <3>2. PICK c : ToldBy(g, c, plies)
      BY <3>1, <2>2
    <3>3. Tells(g, OwnPlies(plies, g), Deciding(g))
      BY <2>2, <3>2, GameOnFile
    <3> QED
      BY <3>3 DEF Tells, OwnPlies, Deciding
  <2>4. \A i \in DOMAIN plies : plies[i].idx = i - 1 /\ features[i] = plies[i].h
    BY <2>2 DEF PlyFollows
  <2>5. collected /\ ~remade => {g.game : g \in Range(games)} = 1 .. Games /\ Len(games) = Games
    BY <2>1, <2>2, EachGameOnce, SlotsPositive
  <2> QED
    BY <2>3, <2>4, <2>5 DEF CorpusTellsTheGames
<1> QED
  BY <1>1, CorpusFollows, PTL

-----------------------------------------------------------------------------
(* The sets: files, their places and their records.                        *)

\* Division by a positive number.
LEMMA Division ==
  ASSUME NEW P \in Nat, P >= 1, NEW r \in Nat
  PROVE  r \div P \in Nat /\ r % P \in 0 .. P - 1 /\ (r \div P) * P + (r % P) = r
<1>1. r % P \in 0 .. P - 1
  OBVIOUS
<1>2. r \div P \in Int
  OBVIOUS
<1>3. (r \div P) * P + (r % P) = r
  OBVIOUS
<1>4. r \div P \in Nat
  <2>1. PICK q \in Int : q = r \div P
    BY <1>2
  <2>2. q * P \in Int /\ q * P >= r - (P - 1)
    BY <1>1, <1>3, <2>1
  <2>3. q < 0 => q * P <= -P
    BY <2>1
  <2> QED
    BY <2>1, <2>2, <2>3
<1> QED
  BY <1>1, <1>3, <1>4

\* Multiples of a positive number.
LEMMA Multiples ==
  ASSUME NEW P \in Nat, P >= 1, NEW a \in Int, NEW b \in Int
  PROVE  /\ a * P \in Int /\ (a < b => a * P + P <= b * P) /\ (a <= b => a * P <= b * P)
         /\ (a + 1) * P = a * P + P /\ (a \in Nat => a * P \in Nat)
  OBVIOUS

\* Where the records before the k-th file end.
Before(k) == (k - 1) * PerShard

\* The files of n records are those that begin before the last of them.
LEMMA FilesCounted ==
  ASSUME NEW n \in Nat
  PROVE  FileCount(n) \in Nat /\ \A k \in Nat \ {0} : k <= FileCount(n) <=> Before(k) < n
<1> DEFINE P == PerShard
<1>1. P \in Nat /\ P >= 1
  BY SlotsPositive
<1>2. FileCount(n) = (n + P - 1) \div P
  BY DEF FileCount
<1> HIDE DEF P
<1>3. n + P - 1 \in Nat
  BY <1>1
<1>4. FileCount(n) \in Nat
  BY <1>1, <1>2, <1>3, Division
<1>5. ASSUME NEW k \in Nat \ {0} PROVE k <= (n + P - 1) \div P <=> (k - 1) * P < n
  BY <1>1
<1> QED
  BY <1>2, <1>4, <1>5 DEF Before, P

\* Each number of a record is that of a place in a file.
FileAt(r) == 1 + ((r - 1) \div PerShard)
RowAt(r) == 1 + ((r - 1) % PerShard)
\* The file and the row of a record.
LEMMA PlaceOf ==
  ASSUME NEW r \in Nat, r >= 1
  PROVE  FileAt(r) \in Nat /\ FileAt(r) >= 1 /\ RowAt(r) \in 1 .. PerShard /\ r = Before(FileAt(r)) + RowAt(r)
         /\ Before(FileAt(r)) \in Nat
<1>1. PerShard \in Nat /\ PerShard >= 1 /\ r - 1 \in Nat
  BY SlotsPositive
<1>2. PICK q \in Nat : q = (r - 1) \div PerShard
  BY <1>1, Division
<1>3. PICK m \in 0 .. PerShard - 1 : m = (r - 1) % PerShard
  BY <1>1, Division
<1>4. q * PerShard + m = r - 1
  BY <1>1, <1>2, <1>3, Division
<1>5. FileAt(r) = q + 1 /\ RowAt(r) = m + 1
  BY <1>2, <1>3 DEF FileAt, RowAt
<1>6. Before(q + 1) = q * PerShard
  BY <1>2 DEF Before
<1>7. q * PerShard \in Nat
  BY <1>1, <1>2, Multiples
<1> QED
  BY <1>1, <1>2, <1>3, <1>4, <1>5, <1>6, <1>7

\* A file ends before the next one begins.
LEMMA BeforeNext ==
  ASSUME NEW j \in Nat, NEW k \in Nat
  PROVE  /\ Before(j) \in Int /\ (j >= 1 => Before(j) \in Nat) /\ Before(j + 1) = Before(j) + PerShard
         /\ j < k => Before(j) + PerShard <= Before(k)
         /\ Before(1) = 0
<1>1. PerShard \in Nat /\ PerShard >= 1 /\ j - 1 \in Int /\ k - 1 \in Int
  BY SlotsPositive
<1>2. Before(j) = (j - 1) * PerShard /\ Before(k) = (k - 1) * PerShard /\ Before(j + 1) = ((j - 1) + 1) * PerShard
  BY DEF Before
<1>3. Before(j) \in Int /\ Before(j + 1) = Before(j) + PerShard
  BY <1>1, <1>2, Multiples
<1>4. j >= 1 => Before(j) \in Nat
  <2>1. j >= 1 => j - 1 \in Nat
    OBVIOUS
  <2> QED
    BY <2>1, <1>1, <1>2, Multiples
<1>5. j < k => Before(j) + PerShard <= Before(k)
  <2>1. j < k => j - 1 < k - 1
    OBVIOUS
  <2> QED
    BY <2>1, <1>1, <1>2, Multiples
<1>6. Before(1) = 0
  BY <1>1 DEF Before
<1> QED
  BY <1>3, <1>4, <1>5, <1>6

\* What is before a file is counted.
LEMMA BeforeNat ==
  ASSUME NEW j \in Nat, j >= 1
  PROVE  Before(j) \in Nat
  BY BeforeNext

Places(files) == UNION {{(k - 1) * PerShard + i : i \in DOMAIN files[k]} : k \in DOMAIN files}

\* Files, none of which is empty, holds too many records or one after the L-th.
FitIn(files, n, L) ==
  /\ n \in Nat /\ DOMAIN files = 1 .. n
  /\ \A k \in 1 .. n : IsList(files[k]) /\ files[k] # <<>> /\ Len(files[k]) <= PerShard /\ Before(k) + Len(files[k]) <= L

\* The places of files that fit.
LEMMA PlacesFit ==
  ASSUME NEW L \in Nat, NEW files, NEW n, FitIn(files, n, L)
  PROVE  /\ \A r : r \in Places(files) <=> \E k \in 1 .. n : \E i \in 1 .. Len(files[k]) : r = Before(k) + i
         /\ Places(files) \subseteq 1 .. L
<1>1. n \in Nat /\ DOMAIN files = 1 .. n /\ \A k \in 1 .. n : DOMAIN files[k] = 1 .. Len(files[k]) /\ Len(files[k]) \in Nat
  BY OneMore DEF FitIn
<1>2. \A r : r \in Places(files) <=> \E k \in 1 .. n : \E i \in 1 .. Len(files[k]) : r = Before(k) + i
  <2>1. \A r : r \in Places(files) <=> \E k \in DOMAIN files : \E i \in DOMAIN files[k] : r = (k - 1) * PerShard + i
    BY DEF Places
  <2> QED
    BY <2>1, <1>1 DEF Before
<1>3. ASSUME NEW k \in 1 .. n, NEW i \in 1 .. Len(files[k]) PROVE Before(k) + i \in 1 .. L
  <2>1. Before(k) \in Nat
    BY <1>1, BeforeNext
  <2>2. Before(k) + Len(files[k]) <= L /\ Len(files[k]) \in Nat
    BY <1>1 DEF FitIn
  <2> QED
    BY <2>1, <2>2
<1> QED
  BY <1>2, <1>3

\* Files whose places are 1 .. L hold L records.
LEMMA JoinedAt ==
  ASSUME NEW L \in Nat, NEW files, Places(files) = 1 .. L
  PROVE  /\ DOMAIN Joined(files) = 1 .. L /\ Len(Joined(files)) = L
         /\ \A r \in 1 .. L : Joined(files)[r] = files[FileAt(r)][RowAt(r)]
<1> DEFINE S == 0 + 1 .. 0 + L
           F == [p \in S |-> files[1 + ((p - 1) \div PerShard)][1 + ((p - 1) % PerShard)]]
<1>1. Places(files) = S
  OBVIOUS
<1>2. Joined(files) = AtPlaces(F, S)
  BY <1>1 DEF Joined, Places
<1>3. \A r \in S : F[r] = files[FileAt(r)][RowAt(r)]
  BY DEF FileAt, RowAt
<1>4. \A r : r \in S <=> r \in 1 .. L
  OBVIOUS
<1>5. Cardinality(S) = L /\ \A r \in 1 .. L : Ord(S)[r] = 0 + r
  BY OrdInterval
<1> HIDE DEF S, F
<1>6. Joined(files) = [r \in 1 .. Cardinality(S) |-> F[Ord(S)[r]]] /\ Len(Joined(files)) = Cardinality(S)
  <2>1. Cardinality(S) \in Nat
    BY <1>5
  <2> QED
    BY <2>1, <1>2, OrdAtPlaces
<1>7. ASSUME NEW r \in 1 .. L PROVE Joined(files)[r] = files[FileAt(r)][RowAt(r)]
  <2>1. Ord(S)[r] = r
    BY <1>5
  <2>2. Joined(files)[r] = F[r]
    BY <2>1, <1>5, <1>6
  <2> QED
    BY <2>2, <1>3, <1>4
<1> QED
  BY <1>5, <1>6, <1>7

\* Files that fit and hold L records have one that ends with the L-th.
LEMMA JoinedFull ==
  ASSUME NEW L \in Nat, L >= 1, NEW files, NEW n, FitIn(files, n, L), Len(Joined(files)) = L
  PROVE  /\ \E k \in 1 .. n : Before(k) + Len(files[k]) = L
         /\ \A r \in 1 .. L : Joined(files)[r] = files[FileAt(r)][RowAt(r)]
<1> DEFINE S == Places(files)
<1>1. S \subseteq 1 .. L
  BY PlacesFit
<1>2. IsFiniteSet(S) /\ Cardinality(S) \in Nat
  <2>1. S \in SUBSET (1 .. L)
    BY <1>1
  <2> HIDE DEF S
  <2> QED
    BY <2>1, Ranks
<1>3. Len(Joined(files)) = Cardinality(S)
  <2> DEFINE F == [p \in S |-> files[1 + ((p - 1) \div PerShard)][1 + ((p - 1) % PerShard)]]
  <2>1. Joined(files) = AtPlaces(F, S)
    BY DEF Joined, Places
  <2> HIDE DEF S, F
  <2> QED
    BY <2>1, <1>2, OrdAtPlaces
<1>4. IsFiniteSet(1 .. L) /\ Cardinality(1 .. L) = L
  <2>1. IsFiniteSet(1 .. L)
    <3>1. 1 \in Int /\ L \in Int
      OBVIOUS
    <3> QED
      BY <3>1, FS_Interval
  <2>2. Cardinality(0 + 1 .. 0 + L) = L
    BY OrdInterval
  <2>3. 0 + 1 .. 0 + L = 1 .. L
    OBVIOUS
  <2> QED
    BY <2>1, <2>2, <2>3
<1>5. S = 1 .. L
  <2> HIDE DEF S
  <2>1. Cardinality(S) = Cardinality(1 .. L)
    BY <1>3, <1>4
  <2> QED
    BY <2>1, <1>1, <1>4, FS_Subset
<1>6. PICK k \in 1 .. n : \E i \in 1 .. Len(files[k]) : L = Before(k) + i
  BY <1>5, PlacesFit
<1>7. PICK i \in 1 .. Len(files[k]) : L = Before(k) + i
  BY <1>6
<1>8. Before(k) + Len(files[k]) = L
  <2>1. IsList(files[k]) /\ Before(k) + Len(files[k]) <= L
    BY DEF FitIn
  <2>2. Len(files[k]) \in Nat
    BY <2>1, OneMore
  <2>3. Before(k) \in Int
    BY BeforeNext DEF FitIn
  <2> QED
    BY <2>1, <2>2, <2>3, <1>7
<1>9. \A r \in 1 .. L : Joined(files)[r] = files[FileAt(r)][RowAt(r)]
  BY <1>5, JoinedAt
<1> QED
  BY <1>8, <1>9

Least(a, b) == IF a < b THEN a ELSE b

\* The record of the ply p in a set.
TrueRecord(set, p) == [h |-> p.h, z |-> p.z, target |-> TargetOf(p.h, set, p.seed)]
\* How many of L records the k-th file holds, and which.
RowsIn(k, L) == Least(PerShard, L - Before(k))
TrueRows(set, k, us) == [i \in 1 .. RowsIn(k, Len(us)) |-> TrueRecord(set, us[Before(k) + i])]

\* The k-th file of a set of the plies us.
LEMMA TrueRowsAre ==
  ASSUME NEW us, IsList(us), NEW k \in Nat, k >= 1, Before(k) < Len(us), NEW set
  PROVE  /\ IsList(TrueRows(set, k, us)) /\ Len(TrueRows(set, k, us)) = RowsIn(k, Len(us))
         /\ DOMAIN TrueRows(set, k, us) = 1 .. RowsIn(k, Len(us))
         /\ RowsIn(k, Len(us)) \in 1 .. PerShard /\ Before(k) + RowsIn(k, Len(us)) <= Len(us)
         /\ Before(k) \in Nat /\ Len(us) \in Nat
         /\ RowsIn(k, Len(us)) = PerShard \/ Before(k) + RowsIn(k, Len(us)) = Len(us)
         /\ \A i \in 1 .. RowsIn(k, Len(us)) : TrueRows(set, k, us)[i] = TrueRecord(set, us[Before(k) + i])
<1>1. Len(us) \in Nat /\ Before(k) \in Nat /\ PerShard \in Nat /\ PerShard >= 1
  BY OneMore, BeforeNext, SlotsPositive
<1> DEFINE n == RowsIn(k, Len(us))
           t == TrueRows(set, k, us)
<1>2. n \in 1 .. PerShard /\ Before(k) + n <= Len(us) /\ n \in Nat /\ (n = PerShard \/ Before(k) + n = Len(us))
  BY <1>1 DEF RowsIn, Least
<1>3. DOMAIN t = 1 .. n /\ t = [i \in 1 .. n |-> t[i]] /\ \A i \in 1 .. n : t[i] = TrueRecord(set, us[Before(k) + i])
  BY DEF TrueRows
<1> HIDE DEF n, t
<1>4. IsList(t) /\ Len(t) = n
  BY <1>2, <1>3, Listed
<1> QED
  BY <1>1, <1>2, <1>3, <1>4 DEF n, t

\* A set whose last file ends with the last of the plies us is the set of these plies.
SetOk(set, files, us) ==
  \E n \in Nat :
    /\ FitIn(files, n, Len(us))
    /\ \A k \in 1 .. n : Before(k) + Len(files[k]) = Len(us) => \A j \in 1 .. k : files[j] = TrueRows(set, j, us)

\* The file of the r-th of L records is none after one that ends with the L-th.
LEMMA NotAfter ==
  ASSUME NEW L \in Nat, NEW k \in Nat, k >= 1, Before(k) < L, L <= Before(k) + PerShard, NEW r \in 1 .. L
  PROVE  FileAt(r) \in 1 .. k /\ RowAt(r) \in 1 .. RowsIn(FileAt(r), L) /\ r = Before(FileAt(r)) + RowAt(r)
         /\ Before(FileAt(r)) < L
<1>1. /\ FileAt(r) \in Nat /\ FileAt(r) >= 1 /\ RowAt(r) \in 1 .. PerShard /\ r = Before(FileAt(r)) + RowAt(r)
      /\ Before(FileAt(r)) \in Nat
  BY PlaceOf
<1>2. PerShard \in Nat /\ Before(k) \in Nat
  BY SlotsPositive, BeforeNext
<1>3. k < FileAt(r) => Before(k) + PerShard <= Before(FileAt(r))
  BY <1>1, BeforeNext
<1>4. ~(k < FileAt(r))
  BY <1>1, <1>2, <1>3
<1>5. RowAt(r) \in 1 .. RowsIn(FileAt(r), L)
  BY <1>1, <1>2 DEF RowsIn, Least
<1> QED
  BY <1>1, <1>2, <1>4, <1>5

\* A set that holds as many records as there are plies holds theirs.
LEMMA SetRead ==
  ASSUME NEW set, NEW files, NEW us, IsList(us), Len(us) >= 1, SetOk(set, files, us), Len(Joined(files)) = Len(us)
  PROVE  \A r \in 1 .. Len(us) : Joined(files)[r] = TrueRecord(set, us[r])
<1>1. PICK n \in Nat :
        /\ FitIn(files, n, Len(us))
        /\ \A k \in 1 .. n : Before(k) + Len(files[k]) = Len(us) => \A j \in 1 .. k : files[j] = TrueRows(set, j, us)
  BY DEF SetOk
<1>2. PICK L \in Nat : L = Len(us)
  BY OneMore
<1>3. /\ \E k \in 1 .. n : Before(k) + Len(files[k]) = L
      /\ \A r \in 1 .. L : Joined(files)[r] = files[FileAt(r)][RowAt(r)]
  BY <1>1, <1>2, JoinedFull
<1>4. PICK k \in 1 .. n : Before(k) + Len(files[k]) = L
  BY <1>3
<1>5. \A j \in 1 .. k : files[j] = TrueRows(set, j, us)
  BY <1>1, <1>2, <1>4
<1>6. Before(k) \in Nat /\ k \in Nat /\ k >= 1 /\ PerShard \in Nat /\ n \in Nat
  <2>1. k \in Nat /\ k >= 1
    OBVIOUS
  <2> QED
    BY <2>1, BeforeNat, SlotsPositive
<1>7. Len(files[k]) \in Nat /\ Len(files[k]) <= PerShard /\ Len(files[k]) >= 1
  <2>1. IsList(files[k]) /\ Len(files[k]) <= PerShard /\ files[k] # <<>>
    BY <1>1 DEF FitIn
  <2> QED
    BY <2>1, OneLess
<1>8. L <= Before(k) + PerShard /\ Before(k) < L
  BY <1>4, <1>6, <1>7
<1>9. ASSUME NEW r \in 1 .. L PROVE Joined(files)[r] = TrueRecord(set, us[r])
  <2>1. PICK f \in Nat : f = FileAt(r) /\ f \in 1 .. k
    BY <1>2, <1>6, <1>8, NotAfter
  <2>2. PICK i \in Nat : i = RowAt(r) /\ i \in 1 .. RowsIn(f, L)
    BY <1>2, <1>6, <1>8, <2>1, NotAfter
  <2>3. r = Before(f) + i /\ Before(f) < L
    BY <1>2, <1>6, <1>8, <2>1, <2>2, NotAfter
  <2>4. Joined(files)[r] = TrueRows(set, f, us)[i]
    BY <1>3, <1>5, <2>1, <2>2
  <2>5. TrueRows(set, f, us)[i] = TrueRecord(set, us[Before(f) + i])
    <3>1. f >= 1 /\ Before(f) < Len(us) /\ i \in 1 .. RowsIn(f, Len(us))
      BY <2>1, <2>2, <2>3, <1>2
    <3> QED
      BY <3>1, TrueRowsAre
  <2> QED
    BY <2>3, <2>4, <2>5
<1> QED
  BY <1>2, <1>9

\* While the plies that can be used get more, no file ends with the last of them.
LEMMA SetGrows ==
  ASSUME NEW set, NEW files, NEW us, IsList(us), SetOk(set, files, us), NEW us1, IsList(us1), Len(us) < Len(us1)
  PROVE  SetOk(set, files, us1)
<1>1. PICK n \in Nat : FitIn(files, n, Len(us))
  BY DEF SetOk
<1>2. Len(us) \in Nat /\ Len(us1) \in Nat
  BY OneMore
<1>3. ASSUME NEW k \in 1 .. n
      PROVE  /\ IsList(files[k]) /\ files[k] # <<>> /\ Len(files[k]) <= PerShard
             /\ Before(k) + Len(files[k]) <= Len(us1) /\ Before(k) + Len(files[k]) # Len(us1)
  <2>1. IsList(files[k]) /\ files[k] # <<>> /\ Len(files[k]) <= PerShard /\ Before(k) + Len(files[k]) <= Len(us)
    BY <1>1 DEF FitIn
  <2>2. Len(files[k]) \in Nat
    BY <2>1, OneMore
  <2>3. Before(k) \in Nat
    <3>1. k \in Nat /\ k >= 1
      OBVIOUS
    <3> QED
      BY <3>1, BeforeNat
  <2> QED
    BY <2>1, <2>2, <2>3, <1>2
<1>4. FitIn(files, n, Len(us1))
  BY <1>1, <1>3 DEF FitIn
<1> QED
  BY <1>3, <1>4 DEF SetOk

\* No file is there.
LEMMA SetEmpty ==
  ASSUME NEW set, NEW files, DOMAIN files = {}, NEW us
  PROVE  SetOk(set, files, us)
<1>1. 1 .. 0 = {} /\ 0 \in Nat
  OBVIOUS
<1>2. FitIn(files, 0, Len(us))
  BY <1>1 DEF FitIn
<1> QED
  BY <1>1, <1>2 DEF SetOk

With(files, k, rows) == [m \in DOMAIN files \cup {k} |-> IF m = k THEN rows ELSE files[m]]

\* The files before the k-th are there.
Earlier(set, files, k, us) == \A j \in 1 .. k - 1 : j \in DOMAIN files /\ files[j] = TrueRows(set, j, us)

\* The files of a run are written in their order.
LEMMA SetWritten ==
  ASSUME NEW set, NEW files, NEW us, IsList(us), SetOk(set, files, us), NEW k \in Nat, k >= 1, Before(k) < Len(us),
         Earlier(set, files, k, us), NEW new, new = With(files, k, TrueRows(set, k, us))
  PROVE  SetOk(set, new, us)
<1> DEFINE t == TrueRows(set, k, us)
           L == Len(us)
<1>0. \A j \in 1 .. k - 1 : j \in DOMAIN files /\ files[j] = TrueRows(set, j, us)
  BY DEF Earlier
<1>1. PICK n \in Nat :
        /\ FitIn(files, n, L)
        /\ \A m \in 1 .. n : Before(m) + Len(files[m]) = L => \A j \in 1 .. m : files[j] = TrueRows(set, j, us)
  BY DEF SetOk
<1>2. /\ IsList(t) /\ Len(t) = RowsIn(k, L) /\ RowsIn(k, L) \in 1 .. PerShard /\ Before(k) + RowsIn(k, L) <= L
      /\ PerShard \in Nat /\ t # <<>>
  <2>1. /\ IsList(t) /\ Len(t) = RowsIn(k, L) /\ RowsIn(k, L) \in 1 .. PerShard /\ Before(k) + RowsIn(k, L) <= L
    BY TrueRowsAre
  <2> QED
    BY <2>1, SlotsPositive, EmptyListed
<1> HIDE DEF t
<1>3. DOMAIN new = DOMAIN files \cup {k} /\ new[k] = t /\ \A m \in DOMAIN files : m # k => new[m] = files[m]
  <2>1. new = With(files, k, t)
    BY DEF t
  <2> HIDE DEF t
  <2> QED
    BY <2>1 DEF With
<1> HIDE DEF L
<1>4. DOMAIN files = 1 .. n
  BY <1>1 DEF FitIn
<1>5. k - 1 <= n
  <2>1. CASE k = 1
    BY <2>1
  <2>2. CASE k # 1
    <3>1. k - 1 \in 1 .. k - 1
      BY <2>2
    <3>2. k - 1 \in 1 .. n
      BY <3>1, <1>0, <1>4
    <3> QED
      BY <3>2
  <2> QED
    BY <2>1, <2>2
<1>6. PICK m \in Nat : m = (IF k <= n THEN n ELSE k)
  OBVIOUS
<1>7. DOMAIN new = 1 .. m
  <2>1. (1 .. n) \cup {k} = 1 .. m
    BY <1>5, <1>6
  <2> QED
    BY <2>1, <1>3, <1>4
<1>8. \A j \in 1 .. m : j = k \/ (j \in 1 .. n /\ new[j] = files[j])
  BY <1>3, <1>4, <1>5, <1>6
<1>9. FitIn(new, m, L)
  <2>1. \A j \in 1 .. m : IsList(new[j]) /\ new[j] # <<>> /\ Len(new[j]) <= PerShard /\ Before(j) + Len(new[j]) <= L
    BY <1>1, <1>2, <1>3, <1>8 DEF FitIn
  <2> QED
    BY <2>1, <1>7 DEF FitIn
<1>10. ASSUME NEW j \in 1 .. m, Before(j) + Len(new[j]) = L, NEW i \in 1 .. j
       PROVE  new[i] = TrueRows(set, i, us)
  <2>1. CASE i = k
    BY <2>1, <1>3 DEF t
  <2>2. CASE i # k /\ j = k
    <3>1. i \in 1 .. k - 1
      BY <2>2
    <3> QED
      BY <3>1, <1>0, <1>3, <2>2
  <2>3. CASE i # k /\ j # k
    <3>1. j \in 1 .. n /\ new[j] = files[j]
      BY <2>3, <1>8
    <3>2. files[i] = TrueRows(set, i, us)
      BY <3>1, <1>1, <1>10
    <3>3. i \in 1 .. n
      BY <3>1
    <3> QED
      BY <3>2, <3>3, <2>3, <1>3, <1>4
  <2> QED
    BY <2>1, <2>2, <2>3
<1>11. SetOk(set, new, us)
  BY <1>9, <1>10 DEF SetOk, L
<1> QED
  BY <1>11

ReachedOf(ps, dp) == {i \in DOMAIN ps : ps[i].idx \in IdxOf(dp)}
UsableOf(ps, dp) == AtPlaces(ps, ReachedOf(ps, dp))

\* The plies that have a deep target, in order.
LEMMA UsableAre ==
  ASSUME NEW ps, IsList(ps), NEW dp
  PROVE  LET us == UsableOf(ps, dp) IN
         /\ IsList(us) /\ Len(us) = Cardinality(ReachedOf(ps, dp)) /\ Len(us) \in Nat /\ Len(us) <= Len(ps)
         /\ DOMAIN us = 1 .. Len(us)
         /\ \A r \in 1 .. Len(us) : \E n \in ReachedOf(ps, dp) : us[r] = ps[n]
         /\ Len(us) = Len(ps) => ReachedOf(ps, dp) = DOMAIN ps
         /\ ReachedOf(ps, dp) = DOMAIN ps => Len(us) = Len(ps) /\ \A r \in 1 .. Len(ps) : us[r] = ps[r]
<1> DEFINE S == ReachedOf(ps, dp)
           us == UsableOf(ps, dp)
           c == Cardinality(S)
<1>1. Len(ps) \in Nat /\ DOMAIN ps = 1 .. Len(ps) /\ S \subseteq DOMAIN ps
  BY OneMore DEF ReachedOf
<1>2. us = AtPlaces(ps, S)
  BY DEF UsableOf
<1> HIDE DEF S, us
<1>3. IsFiniteSet(S) /\ c \in Nat /\ \A n \in 1 .. c : Ord(S)[n] \in S
  BY <1>1, Ranks
<1>4. us = [n \in 1 .. c |-> ps[Ord(S)[n]]] /\ DOMAIN us = 1 .. c /\ IsList(us) /\ Len(us) = c
  BY <1>2, <1>3, OrdAtPlaces
<1>5. \A r \in 1 .. c : us[r] = ps[Ord(S)[r]]
  BY <1>4
<1> HIDE DEF c
<1>6. \A r \in 1 .. c : \E n \in S : us[r] = ps[n]
  BY <1>3, <1>5
<1>7. /\ IsFiniteSet(1 .. Len(ps)) /\ Cardinality(1 .. Len(ps)) = Len(ps)
      /\ \A n \in 1 .. Len(ps) : Ord(1 .. Len(ps))[n] = n
  <2>1. IsFiniteSet(1 .. Len(ps))
    <3>1. 1 \in Int /\ Len(ps) \in Int
      BY <1>1
    <3> QED
      BY <3>1, FS_Interval
  <2>2. Cardinality(0 + 1 .. 0 + Len(ps)) = Len(ps) /\ \A n \in 1 .. Len(ps) : Ord(0 + 1 .. 0 + Len(ps))[n] = 0 + n
    BY <1>1, OrdInterval
  <2>3. 0 + 1 .. 0 + Len(ps) = 1 .. Len(ps)
    BY <1>1
  <2> QED
    BY <2>1, <2>2, <2>3
<1>8. c <= Len(ps) /\ (c = Len(ps) => S = DOMAIN ps)
  <2>1. S \subseteq 1 .. Len(ps)
    BY <1>1
  <2>2. Cardinality(S) <= Cardinality(1 .. Len(ps)) /\ (Cardinality(S) = Cardinality(1 .. Len(ps)) => S = 1 .. Len(ps))
    BY <2>1, <1>7, FS_Subset
  <2> QED
    BY <2>2, <1>1, <1>7 DEF c
<1>9. S = DOMAIN ps => c = Len(ps) /\ \A r \in 1 .. Len(ps) : us[r] = ps[r]
  <2> SUFFICES ASSUME S = DOMAIN ps PROVE c = Len(ps) /\ \A r \in 1 .. Len(ps) : us[r] = ps[r]
    OBVIOUS
  <2>1. S = 1 .. Len(ps)
    BY <1>1
  <2>2. c = Len(ps)
    BY <2>1, <1>7 DEF c
  <2>3. \A n \in 1 .. Len(ps) : Ord(S)[n] = n
    BY <2>1, <1>7
  <2> QED
    BY <2>2, <2>3, <1>5
<1> QED
  BY <1>3, <1>4, <1>6, <1>8, <1>9 DEF S, us, c

\* A deep target more makes a ply more that can be used.
LEMMA UsableGrows ==
  ASSUME NEW ps, IsList(ps), NEW dp, IsList(dp), NEW line, NEW n \in DOMAIN ps, line.idx = ps[n].idx, ps[n].idx \notin IdxOf(dp)
  PROVE  Len(UsableOf(ps, dp)) < Len(UsableOf(ps, Append(dp, line)))
<1> DEFINE S == ReachedOf(ps, dp)
           T == ReachedOf(ps, Append(dp, line))
<1>1. \A x : x \in IdxOf(Append(dp, line)) <=> x \in IdxOf(dp) \/ x = line.idx
  <2>1. /\ Len(dp) \in Nat /\ DOMAIN dp = 1 .. Len(dp) /\ DOMAIN Append(dp, line) = 1 .. Len(dp) + 1
        /\ \A i \in 1 .. Len(dp) : Append(dp, line)[i] = dp[i]
        /\ Append(dp, line)[Len(dp) + 1] = line
    BY OneMore
  <2> QED
    BY <2>1 DEF IdxOf
<1>2. S \subseteq T /\ n \in T /\ n \notin S /\ T \subseteq DOMAIN ps
  BY <1>1 DEF ReachedOf
<1>3. Len(ps) \in Nat /\ DOMAIN ps = 1 .. Len(ps)
  BY OneMore
<1>4. /\ Len(UsableOf(ps, dp)) = Cardinality(S) /\ Len(UsableOf(ps, Append(dp, line))) = Cardinality(T)
  BY UsableAre
<1> HIDE DEF S, T
<1>5. IsFiniteSet(T) /\ Cardinality(T) \in Nat
  BY <1>2, <1>3, Ranks
<1>6. IsFiniteSet(S) /\ Cardinality(S) \in Nat
  <2>1. S \in SUBSET (1 .. Len(ps))
    BY <1>2, <1>3
  <2> QED
    BY <2>1, <1>3, Ranks
<1>7. Cardinality(S) <= Cardinality(T) /\ Cardinality(S) # Cardinality(T)
  BY <1>2, <1>5, FS_Subset
<1> QED
  BY <1>4, <1>5, <1>6, <1>7

\* A line that a crash cuts short does not.
LEMMA UsableTorn ==
  ASSUME NEW ps, IsList(ps), \A i \in DOMAIN ps : ps[i].idx \in Nat, NEW dp, IsList(dp)
  PROVE  ReachedOf(ps, Append(dp, Torn)) = ReachedOf(ps, dp) /\ UsableOf(ps, Append(dp, Torn)) = UsableOf(ps, dp)
<1>1. \A x : x \in IdxOf(Append(dp, Torn)) <=> x \in IdxOf(dp) \/ x = Torn.idx
  <2>1. /\ Len(dp) \in Nat /\ DOMAIN dp = 1 .. Len(dp) /\ DOMAIN Append(dp, Torn) = 1 .. Len(dp) + 1
        /\ \A i \in 1 .. Len(dp) : Append(dp, Torn)[i] = dp[i]
        /\ Append(dp, Torn)[Len(dp) + 1] = Torn
    BY OneMore
  <2> QED
    BY <2>1 DEF IdxOf
<1>2. Torn.idx \notin Nat
  BY DEF Torn
<1>3. \A i \in DOMAIN ps : ps[i].idx \in IdxOf(Append(dp, Torn)) <=> ps[i].idx \in IdxOf(dp)
  BY <1>1, <1>2
<1>4. ReachedOf(ps, Append(dp, Torn)) = ReachedOf(ps, dp)
  BY <1>3 DEF ReachedOf
<1> QED
  BY <1>4 DEF UsableOf

\* What the programs that read the corpus use.
LEMMA UsableIs == Usable = UsableOf(plies, deep)
<1>1. DeepIdx = IdxOf(deep)
  BY DEF DeepIdx, IdxOf
<1> QED
  BY <1>1 DEF Usable, UsableOf, ReachedOf

\* The line that the later steps find of a ply is the one of its own search.
LEMMA DeepTargetIsTrue ==
  ASSUME FilesOk(features, plies, games), DeepOk(deep, plies, TRUE), NEW n \in ReachedOf(plies, deep)
  PROVE  /\ DeepOf(plies[n].idx).target = TargetOf(plies[n].h, "deep", plies[n].seed)
         /\ n \in DOMAIN plies /\ plies[n].idx = n - 1
<1>1. n \in DOMAIN plies /\ plies[n].idx \in IdxOf(deep)
  BY DEF ReachedOf
<1>2. Len(plies) \in Nat /\ DOMAIN plies = 1 .. Len(plies) /\ \A i \in DOMAIN plies : plies[i].idx = i - 1
  BY OneMore DEF FilesOk, PlyFollows
<1>3. /\ \A i, j \in DOMAIN deep : deep[i].idx = deep[j].idx => i = j
      /\ \A i \in DOMAIN deep : deep[i] # Torn =>
           \E m \in DOMAIN plies : deep[i].idx = plies[m].idx /\ deep[i].target = TargetOf(plies[m].h, "deep", plies[m].seed)
      /\ IsList(deep)
  BY DEF DeepOk
<1>4. PICK i \in DOMAIN deep : deep[i].idx = plies[n].idx
  BY <1>1 DEF IdxOf
<1>5. i \in Nat
  <2>1. DOMAIN deep = 1 .. Len(deep)
    BY <1>3, OneMore
  <2> QED
    BY <2>1
<1>6. \A j \in DOMAIN deep : deep[j].idx = plies[n].idx => j = i
  BY <1>3, <1>4
<1>7. DeepOf(plies[n].idx) = deep[i]
  <2>1. \A k \in DOMAIN deep : (deep[k].idx = plies[n].idx /\ \A j \in DOMAIN deep : deep[j].idx = plies[n].idx => j <= k) <=> k = i
    BY <1>4, <1>5, <1>6
  <2>2. (CHOOSE k \in DOMAIN deep : deep[k].idx = plies[n].idx /\ \A j \in DOMAIN deep : deep[j].idx = plies[n].idx => j <= k) = i
    BY <2>1
  <2> QED
    BY <2>2 DEF DeepOf
<1>8. deep[i] # Torn
  <2>1. Torn.idx = -1
    BY DEF Torn
  <2> QED
    BY <2>1, <1>1, <1>2, <1>4
<1>9. PICK m \in DOMAIN plies : deep[i].idx = plies[m].idx /\ deep[i].target = TargetOf(plies[m].h, "deep", plies[m].seed)
  BY <1>3, <1>8
<1>10. m = n
  <2>1. m \in Int /\ n \in Int
    BY <1>1, <1>2, <1>9
  <2>2. m - 1 = n - 1
    BY <1>1, <1>2, <1>4, <1>9
  <2> QED
    BY <2>1, <2>2
<1> QED
  BY <1>1, <1>2, <1>7, <1>9, <1>10

\* So is the record of a ply in either set.
LEMMA RecordIsTrue ==
  ASSUME FilesOk(features, plies, games), DeepOk(deep, plies, TRUE), NEW r \in 1 .. Len(Usable), NEW set \in Budgets
  PROVE  RecordOf(Usable[r], set) = TrueRecord(set, Usable[r])
<1>1. IsList(plies) /\ \A i \in DOMAIN plies : PlyFollows(plies[i], i) /\ features[i] = plies[i].h
  BY DEF FilesOk
<1>2. PICK n \in ReachedOf(plies, deep) : Usable[r] = plies[n]
  BY <1>1, UsableAre, UsableIs
<1>3. PICK p : p = plies[n]
  OBVIOUS
<1>4. /\ DeepOf(p.idx).target = TargetOf(p.h, "deep", p.seed)
      /\ n \in DOMAIN plies /\ p.idx = n - 1
  BY <1>3, DeepTargetIsTrue
<1>5. p.target = TargetOf(p.h, "shallow", p.seed) /\ features[n] = p.h
  BY <1>1, <1>3, <1>4 DEF PlyFollows
<1>6. features[p.idx + 1] = p.h
  <2>1. n \in Int
    <3>1. DOMAIN plies = 1 .. Len(plies)
      BY <1>1, OneMore
    <3> QED
      BY <3>1, <1>4
  <2>2. p.idx + 1 = n
    BY <2>1, <1>4
  <2> QED
    BY <2>2, <1>5
<1>7. (IF set = "deep" THEN DeepOf(p.idx).target ELSE p.target) = TargetOf(p.h, set, p.seed)
  BY <1>4, <1>5 DEF Budgets
<1>8. RecordOf(p, set) = TrueRecord(set, p)
  BY <1>6, <1>7 DEF RecordOf, TrueRecord
<1> QED
  BY <1>2, <1>3, <1>8

\* What a slice of a sequence holds.
LEMMA CutOut ==
  ASSUME NEW S, NEW s \in Seq(S), NEW b \in Nat, NEW n \in Nat, b + n <= Len(s)
  PROVE  DOMAIN SubSeq(s, b + 1, b + n) = 1 .. n /\ \A i \in 1 .. n : SubSeq(s, b + 1, b + n)[i] = s[b + i]
<1>1. \A i \in b + 1 .. b + n : s[i] \in S
  OBVIOUS
<1>2. SubSeq(s, b + 1, b + n) = [i \in 1 .. n |-> s[b + i]]
  BY <1>1
<1> QED
  BY <1>2

\* The rows of a file that shards writes.
LEMMA FileIsTrue ==
  ASSUME FilesOk(features, plies, games), DeepOk(deep, plies, TRUE), NEW set \in Budgets,
         NEW k \in Nat, k >= 1, Before(k) < Len(Usable)
  PROVE  FileOf(set, k) = [set |-> set, file |-> k, rows |-> TrueRows(set, k, Usable)]
<1> DEFINE us == Usable
           L == Len(us)
           hi == IF k * PerShard < L THEN k * PerShard ELSE L
           part == SubSeq(us, (k - 1) * PerShard + 1, hi)
           n == RowsIn(k, L)
<1>1. IsList(us) /\ DOMAIN us = 1 .. L /\ L \in Nat
  <2>1. IsList(plies)
    BY DEF FilesOk
  <2> QED
    BY <2>1, UsableAre, UsableIs
<1>2. \A r \in 1 .. L : RecordOf(us[r], set) = TrueRecord(set, us[r])
  BY RecordIsTrue
<1>3. FileOf(set, k) = [set |-> set, file |-> k, rows |-> [i \in DOMAIN part |-> RecordOf(part[i], set)]]
  BY DEF FileOf
<1> HIDE DEF us, L
<1>4. k * PerShard = Before(k) + PerShard /\ Before(k) \in Nat /\ PerShard \in Nat /\ PerShard >= 1 /\ (k - 1) * PerShard = Before(k)
  <2>1. Before(k + 1) = Before(k) + PerShard
    BY BeforeNext
  <2>2. Before(k + 1) = k * PerShard
    <3>1. (k + 1) - 1 = k
      OBVIOUS
    <3> QED
      BY <3>1 DEF Before
  <2> QED
    BY <2>1, <2>2, BeforeNat, SlotsPositive DEF Before
<1>5. Before(k) < L
  BY DEF L, us
<1>6. hi = Before(k) + n /\ n \in 1 .. PerShard /\ hi \in Nat /\ hi <= L /\ n \in Nat
  BY <1>1, <1>4, <1>5 DEF RowsIn, Least
<1> HIDE DEF hi, n
<1>7. us \in Seq(Range(us))
  BY <1>1 DEF IsList
<1>8. DOMAIN part = 1 .. n /\ \A i \in 1 .. n : part[i] = us[Before(k) + i]
  <2>1. part = SubSeq(us, Before(k) + 1, Before(k) + n)
    BY <1>4, <1>6
  <2>2. PICK b \in Nat : b = Before(k)
    BY <1>4
  <2> HIDE DEF part
  <2>3. b + n \in Nat /\ b + n <= L
    BY <1>1, <1>4, <1>6, <2>2
  <2>4. DOMAIN SubSeq(us, b + 1, b + n) = 1 .. n /\ \A i \in 1 .. n : SubSeq(us, b + 1, b + n)[i] = us[b + i]
    BY <1>1, <1>6, <1>7, <2>3, CutOut
  <2> QED
    BY <2>1, <2>2, <2>4
<1> HIDE DEF part
<1>9. [i \in DOMAIN part |-> RecordOf(part[i], set)] = [i \in 1 .. n |-> TrueRecord(set, us[Before(k) + i])]
  <2>1. \A i \in 1 .. n : Before(k) + i \in 1 .. L
    BY <1>1, <1>4, <1>6
  <2>2. \A i \in 1 .. n : RecordOf(part[i], set) = TrueRecord(set, us[Before(k) + i])
    BY <2>1, <1>2, <1>8
  <2> QED
    BY <2>2, <1>8
<1> QED
  BY <1>3, <1>9 DEF TrueRows, us, L, n

-----------------------------------------------------------------------------
(* The sets: what is true of them while the programs run.                  *)

\* The n-th write of a run of shards: the two sets in turn, file by file.
SetOf(n) == IF n % 2 = 1 THEN "shallow" ELSE "deep"
NumberOf(n) == (n + 1) \div 2
WriteAt(n, us) == [set |-> SetOf(n), file |-> NumberOf(n), rows |-> TrueRows(SetOf(n), NumberOf(n), us)]
TurnAt(set, k) == IF set = "shallow" THEN 2 * k - 1 ELSE 2 * k

\* The writes and the files.
LEMMA Turns ==
  ASSUME NEW n \in Nat, n >= 1
  PROVE  /\ NumberOf(n) \in Nat /\ NumberOf(n) >= 1 /\ SetOf(n) \in Budgets /\ n = TurnAt(SetOf(n), NumberOf(n))
         /\ \A c \in Nat : NumberOf(n) <= c <=> n <= 2 * c
<1>1. PICK k \in Int : k = (n + 1) \div 2
  OBVIOUS
<1>2. k >= 1 /\ (n % 2 = 1 => n = 2 * k - 1) /\ (n % 2 # 1 => n = 2 * k)
  BY <1>1
<1>3. \A c \in Nat : k <= c <=> n <= 2 * c
  BY <1>2
<1> QED
  BY <1>1, <1>2, <1>3 DEF NumberOf, SetOf, TurnAt, Budgets

\* A file of a set comes at its turn.
LEMMA TurnOf ==
  ASSUME NEW set \in Budgets, NEW k \in Nat, k >= 1
  PROVE  TurnAt(set, k) \in Nat /\ TurnAt(set, k) >= 1 /\ SetOf(TurnAt(set, k)) = set /\ NumberOf(TurnAt(set, k)) = k
<1>1. (2 * k) % 2 = 0 /\ (2 * k - 1) % 2 = 1 /\ (2 * k + 1) \div 2 = k /\ (2 * k) \div 2 = k /\ 2 * k - 1 + 1 = 2 * k
  OBVIOUS
<1>2. CASE set = "shallow"
  BY <1>1, <1>2 DEF TurnAt, SetOf, NumberOf
<1>3. CASE set = "deep"
  BY <1>1, <1>3 DEF TurnAt, SetOf, NumberOf
<1> QED
  BY <1>2, <1>3 DEF Budgets

\* The root values of the k-th file of the value set, where all plies have one.
TrueValue(p) == [h |-> p.h, root |-> TargetOf(p.h, "deep", p.seed)]
TrueValues(k, ps) == [i \in 1 .. RowsIn(k, Len(ps)) |-> TrueValue(ps[Before(k) + i])]

IsThere(sh, w) == w.file \in DOMAIN sh[w.set] /\ sh[w.set][w.file] = w.rows

\* The program shards has done the first d of its writes.
WritesOk(p, sh, us) ==
  /\ Len(us) >= 1
  /\ \E d \in Nat :
       /\ d <= 2 * FileCount(Len(us))
       /\ IsList(p.writes) /\ Len(p.writes) = 2 * FileCount(Len(us)) - d
       /\ \A i \in 1 .. Len(p.writes) : p.writes[i] = WriteAt(d + i, us)
       /\ \A n \in 1 .. d : IsThere(sh, WriteAt(n, us))

\* Where the k-th of files ends.
EndOf(files, k) == IF k = 0 THEN 0 ELSE Before(k) + Len(files[k])

\* The program value-shards has done the first m of n files.  If the files are those of all
\* plies, the values it wrote are theirs.
ValueAt(n, m, p, files, val, ps, dp) ==
  /\ n \in Nat /\ m \in Nat /\ n >= 1 /\ m <= n /\ DOMAIN files = 1 .. n
  /\ IsList(p.files) /\ Len(p.files) = n - m /\ \A i \in 1 .. n - m : p.files[i] = files[m + i]
  /\ \A k \in 1 .. m : k \in DOMAIN val
  /\ p.cursor \in Nat /\ p.cursor <= EndOf(files, m)
  /\ \A c \in 1 .. p.cursor : c \in ReachedOf(ps, dp)
  /\ EndOf(files, n) = Len(ps) /\ ReachedOf(ps, dp) = DOMAIN ps =>
       /\ p.cursor = Least(Before(m + 1), Len(ps))
       /\ \A k \in 1 .. m : val[k] = TrueValues(k, ps)
ValueOk(p, files, val, ps, dp) == \E n, m \in Nat : ValueAt(n, m, p, files, val, ps, dp)

\* The files of the value set, which are never more than those of the shallow one.
ValuesOk(val, vd, files, ps) ==
  \E v \in Nat :
    /\ DOMAIN val = 1 .. v /\ 1 .. v \subseteq DOMAIN files
    /\ vd => /\ v >= 1 /\ Before(v) < Len(ps) /\ Len(ps) <= Before(v) + PerShard
             /\ \A k \in 1 .. v : val[k] = TrueValues(k, ps)

SetsOk(p, sh, val, vd, ps, dp) ==
  /\ DOMAIN sh = Budgets /\ DOMAIN sh["deep"] \subseteq DOMAIN sh["shallow"]
  /\ \A set \in Budgets : SetOk(set, sh[set], UsableOf(ps, dp))
  /\ ValuesOk(val, vd, sh["shallow"], ps)
  /\ dp = <<>> => DOMAIN sh["shallow"] = {}
  /\ p.kind = "lockstep" /\ p.prog = "collect" => dp = <<>>
  /\ p.kind = "shards" => WritesOk(p, sh, UsableOf(ps, dp))
  /\ p.kind = "value" => ValueOk(p, sh["shallow"], val, ps, dp) /\ ~vd

SetsInv == ~remade => SetsOk(proc, shards, value, valued, plies, deep)

-----------------------------------------------------------------------------
(* The sets: shards.                                                       *)

\* A list with an element more is not empty.
LEMMA AppendIsSome ==
  ASSUME NEW s, IsList(s), NEW x
  PROVE  Append(s, x) # <<>>
<1>1. Len(s) \in Nat /\ DOMAIN Append(s, x) = 1 .. Len(s) + 1
  BY OneMore
<1>2. PICK t : t = Append(s, x)
  OBVIOUS
<1>3. Len(s) + 1 \in DOMAIN t
  BY <1>1, <1>2
<1>4. t # <<>>
  BY <1>3, EmptyListed
<1> QED
  BY <1>2, <1>4

\* A step that leaves the sets, and what they were made of.
LEMMA SetsStay ==
  ASSUME NEW p, NEW sh, NEW val, NEW vd, NEW ps, NEW dp, SetsOk(p, sh, val, vd, ps, dp), NEW q,
         q.kind \in {"idle", "lockstep"}, q.kind = "lockstep" /\ q.prog = "collect" => dp = <<>>
  PROVE  SetsOk(q, sh, val, vd, ps, dp)
  BY DEF SetsOk

\* While there is no shard, the corpus may change in any way.
LEMMA NoSets ==
  ASSUME NEW p, NEW sh, NEW val, NEW vd, NEW ps, NEW dp, SetsOk(p, sh, val, vd, ps, dp), DOMAIN sh["shallow"] = {}, NEW q,
         q.kind \in {"idle", "lockstep"}, NEW ps1, NEW dp1, q.kind = "lockstep" /\ q.prog = "collect" => dp1 = <<>>
  PROVE  SetsOk(q, sh, val, vd, ps1, dp1)
<1>1. DOMAIN sh = Budgets /\ DOMAIN sh["deep"] = {} /\ ValuesOk(val, vd, sh["shallow"], ps)
  BY DEF SetsOk
<1>2. \A set \in Budgets : DOMAIN sh[set] = {}
  BY <1>1 DEF Budgets
<1>3. \A set \in Budgets : SetOk(set, sh[set], UsableOf(ps1, dp1))
  BY <1>2, SetEmpty
<1>4. ValuesOk(val, vd, sh["shallow"], ps1)
  <2>1. PICK v \in Nat : DOMAIN val = 1 .. v /\ 1 .. v \subseteq DOMAIN sh["shallow"] /\ (vd => v >= 1)
    BY <1>1 DEF ValuesOk
  <2>2. ~(v >= 1)
    <3>1. v >= 1 => 1 \in 1 .. v
      OBVIOUS
    <3> QED
      BY <3>1, <2>1
  <2> QED
    BY <2>1, <2>2 DEF ValuesOk
<1> QED
  BY <1>1, <1>3, <1>4 DEF SetsOk

\* A deep target more.
LEMMA SetsGrow ==
  ASSUME NEW p, NEW sh, NEW val, NEW vd, NEW ps, NEW dp, SetsOk(p, sh, val, vd, ps, dp), IsList(ps), IsList(dp), NEW q,
         q.kind = "lockstep", q.prog # "collect", NEW line, NEW n \in DOMAIN ps, line.idx = ps[n].idx, ps[n].idx \notin IdxOf(dp)
  PROVE  SetsOk(q, sh, val, vd, ps, Append(dp, line))
<1>1. Append(dp, line) # <<>>
  BY AppendIsSome
<1>2. PICK us : us = UsableOf(ps, dp)
  OBVIOUS
<1>3. PICK us1 : us1 = UsableOf(ps, Append(dp, line))
  OBVIOUS
<1>4. IsList(us) /\ IsList(us1)
  BY <1>2, <1>3, UsableAre
<1>5. Len(us) < Len(us1)
  BY <1>2, <1>3, UsableGrows
<1>6. \A set \in Budgets : SetOk(set, sh[set], us)
  BY <1>2 DEF SetsOk
<1>7. \A set \in Budgets : SetOk(set, sh[set], us1)
  BY <1>4, <1>5, <1>6, SetGrows
<1> QED
  BY <1>1, <1>3, <1>7 DEF SetsOk

\* A line that is cut short.
LEMMA SetsTorn ==
  ASSUME NEW p, NEW sh, NEW val, NEW vd, NEW ps, NEW dp, SetsOk(p, sh, val, vd, ps, dp), IsList(ps), IsList(dp), NEW q,
         q.kind = "idle", \A i \in DOMAIN ps : ps[i].idx \in Nat
  PROVE  SetsOk(q, sh, val, vd, ps, Append(dp, Torn))
<1>1. Append(dp, Torn) # <<>>
  BY AppendIsSome
<1>2. UsableOf(ps, Append(dp, Torn)) = UsableOf(ps, dp)
  BY UsableTorn
<1> QED
  BY <1>1, <1>2 DEF SetsOk

\* The writes of shards.
LEMMA ShardWritesAre ==
  ASSUME FilesOk(features, plies, games), DeepOk(deep, plies, TRUE)
  PROVE  /\ IsList(ShardWrites) /\ Len(ShardWrites) = 2 * FileCount(Len(Usable)) /\ FileCount(Len(Usable)) \in Nat
         /\ \A i \in 1 .. 2 * FileCount(Len(Usable)) : ShardWrites[i] = WriteAt(i, Usable)
<1>1. Len(Usable) \in Nat
  BY UsableAre, UsableIs DEF FilesOk
<1>2. PICK c \in Nat : c = FileCount(Len(Usable))
  BY <1>1, FilesCounted
<1>3. \A k \in Nat \ {0} : k <= c <=> Before(k) < Len(Usable)
  BY <1>1, <1>2, FilesCounted
<1>4. PICK ws : ws = ShardWrites
  OBVIOUS
<1>5. ws = [i \in 1 .. 2 * c |-> FileOf(SetOf(i), NumberOf(i))]
  BY <1>2, <1>4 DEF ShardWrites, SetOf, NumberOf
<1>6. DOMAIN ws = 1 .. 2 * c /\ ws = [i \in 1 .. 2 * c |-> ws[i]]
  BY <1>5
<1>7. 2 * c \in Nat
  OBVIOUS
<1>8. IsList(ws) /\ Len(ws) = 2 * c
  BY <1>6, <1>7, Listed
<1>9. ASSUME NEW i \in 1 .. 2 * c PROVE ws[i] = WriteAt(i, Usable)
  <2>1. i \in Nat /\ i >= 1 /\ i <= 2 * c
    OBVIOUS
  <2>2. NumberOf(i) \in Nat /\ NumberOf(i) >= 1 /\ SetOf(i) \in Budgets /\ NumberOf(i) <= c
    BY <2>1, Turns
  <2>3. Before(NumberOf(i)) < Len(Usable)
    BY <2>2, <1>3
  <2>4. FileOf(SetOf(i), NumberOf(i)) = [set |-> SetOf(i), file |-> NumberOf(i), rows |-> TrueRows(SetOf(i), NumberOf(i), Usable)]
    BY <2>2, <2>3, FileIsTrue
  <2> QED
    BY <2>4, <1>5 DEF WriteAt
<1> QED
  BY <1>2, <1>4, <1>8, <1>9

\* shards begins.
LEMMA ShardsBegin ==
  ASSUME FilesOk(features, plies, games), DeepOk(deep, plies, TRUE), Usable # <<>>,
         NEW p, SetsOk(p, shards, value, valued, plies, deep), NEW q, q.kind = "shards", q.writes = ShardWrites
  PROVE  SetsOk(q, shards, value, valued, plies, deep)
<1>1. PICK us : us = Usable
  OBVIOUS
<1>2. us = UsableOf(plies, deep)
  BY <1>1, UsableIs
<1>3. Len(us) \in Nat /\ Len(us) >= 1
  <2>1. IsList(us)
    BY <1>2, UsableAre DEF FilesOk
  <2> QED
    BY <2>1, <1>1, OneLess
<1>4. WritesOk(q, shards, us)
  <2>1. PICK c \in Nat : c = FileCount(Len(us))
    BY <1>1, ShardWritesAre
  <2>2. /\ IsList(q.writes) /\ Len(q.writes) = 2 * c - 0
        /\ \A i \in 1 .. Len(q.writes) : q.writes[i] = WriteAt(0 + i, us)
    BY <1>1, <2>1, ShardWritesAre
  <2>3. 0 \in Nat /\ 0 <= 2 * c /\ 1 .. 0 = {}
    OBVIOUS
  <2> QED
    BY <1>3, <2>1, <2>2, <2>3 DEF WritesOk
<1> QED
  BY <1>2, <1>4 DEF SetsOk

\* A file of a set is written.
LEMMA ShardWritten ==
  ASSUME NEW p, NEW sh, NEW val, NEW vd, NEW ps, IsList(ps), NEW dp, SetsOk(p, sh, val, vd, ps, dp),
         p.kind = "shards", p.writes # <<>>, NEW w, w = Head(p.writes),
         NEW q, q.kind = "shards", q.writes = Tail(p.writes),
         NEW sh1, sh1 = [sh EXCEPT ![w.set] = With(@, w.file, w.rows)]
  PROVE  SetsOk(q, sh1, val, vd, ps, dp)
<1>1. PICK us : us = UsableOf(ps, dp)
  OBVIOUS
<1>2. IsList(us) /\ Len(us) \in Nat /\ WritesOk(p, sh, us)
  BY <1>1, UsableAre DEF SetsOk
<1>3. PICK c \in Nat : c = FileCount(Len(us)) /\ \A k \in Nat \ {0} : k <= c <=> Before(k) < Len(us)
  BY <1>2, FilesCounted
<1>4. PICK d \in Nat :
       /\ d <= 2 * c /\ IsList(p.writes) /\ Len(p.writes) = 2 * c - d
       /\ \A i \in 1 .. Len(p.writes) : p.writes[i] = WriteAt(d + i, us)
       /\ \A n \in 1 .. d : IsThere(sh, WriteAt(n, us))
  BY <1>2, <1>3 DEF WritesOk
<1>5. /\ IsList(q.writes) /\ Len(p.writes) >= 1 /\ Len(q.writes) = Len(p.writes) - 1 /\ w = p.writes[1]
      /\ \A i \in 1 .. Len(p.writes) - 1 : q.writes[i] = p.writes[i + 1] /\ i + 1 \in 1 .. Len(p.writes)
  BY <1>4, OneLess
<1>6. PICK e \in Nat : e = d + 1
  OBVIOUS
<1>7. e >= 1 /\ e <= 2 * c /\ w = WriteAt(e, us) /\ Len(q.writes) = 2 * c - e
  BY <1>4, <1>5, <1>6
<1>8. PICK set \in Budgets : set = SetOf(e)
  BY <1>7, Turns
<1>9. PICK k \in Nat : k = NumberOf(e) /\ k >= 1 /\ k <= c
  BY <1>7, Turns
<1>10. w.set = set /\ w.file = k /\ w.rows = TrueRows(set, k, us) /\ e = TurnAt(set, k)
  BY <1>7, <1>8, <1>9, Turns DEF WriteAt
<1>11. Before(k) < Len(us)
  BY <1>3, <1>9
<1>12. ASSUME NEW b \in Budgets, NEW j \in 1 .. c, TurnAt(b, j) < e
       PROVE  j \in DOMAIN sh[b] /\ sh[b][j] = TrueRows(b, j, us)
  <2>1. TurnAt(b, j) \in Nat /\ TurnAt(b, j) >= 1 /\ SetOf(TurnAt(b, j)) = b /\ NumberOf(TurnAt(b, j)) = j
    BY TurnOf
  <2>2. IsThere(sh, WriteAt(TurnAt(b, j), us))
    BY <2>1, <1>4, <1>6, <1>12
  <2> QED
    BY <2>1, <2>2 DEF IsThere, WriteAt
<1>13. \A j \in 1 .. k - 1 : j \in DOMAIN sh[set] /\ sh[set][j] = TrueRows(set, j, us)
  <2>1. \A j \in 1 .. k - 1 : j \in 1 .. c /\ TurnAt(set, j) < e
    BY <1>9, <1>10 DEF TurnAt
  <2> QED
    BY <2>1, <1>12
<1>14. set = "deep" => k \in DOMAIN sh["shallow"]
  <2>1. set = "deep" => TurnAt("shallow", k) < e
    BY <1>10 DEF TurnAt
  <2>2. k \in 1 .. c /\ "shallow" \in Budgets
    BY <1>9 DEF Budgets
  <2> QED
    BY <2>1, <2>2, <1>12
<1>15. DOMAIN sh = Budgets /\ DOMAIN sh["deep"] \subseteq DOMAIN sh["shallow"] /\ \A b \in Budgets : SetOk(b, sh[b], us)
  BY <1>1 DEF SetsOk
<1>16. PICK new : new = With(sh[set], k, TrueRows(set, k, us))
  OBVIOUS
<1>17. /\ SetOk(set, new, us) /\ DOMAIN new = DOMAIN sh[set] \cup {k} /\ new[k] = TrueRows(set, k, us)
       /\ \A m \in DOMAIN sh[set] : m # k => new[m] = sh[set][m]
  <2>1. PICK files : files = sh[set]
    OBVIOUS
  <2>2. SetOk(set, files, us) /\ Earlier(set, files, k, us)
    BY <2>1, <1>13, <1>15 DEF Earlier
  <2>3. IsList(us) /\ k \in Nat /\ k >= 1 /\ Before(k) < Len(us)
    BY <1>2, <1>9, <1>11
  <2>4. new = With(files, k, TrueRows(set, k, us))
    BY <2>1, <1>16
  <2>5. SetOk(set, new, us)
    BY <2>2, <2>3, <2>4, SetWritten
  <2>6. /\ DOMAIN new = DOMAIN files \cup {k} /\ new[k] = TrueRows(set, k, us)
        /\ \A m \in DOMAIN files : m # k => new[m] = files[m]
    <3>1. PICK t : t = TrueRows(set, k, us)
      OBVIOUS
    <3>2. new = With(files, k, t)
      BY <2>4, <3>1
    <3>3. DOMAIN new = DOMAIN files \cup {k} /\ new[k] = t /\ \A m \in DOMAIN files : m # k => new[m] = files[m]
      BY <3>2 DEF With
    <3> QED
      BY <3>1, <3>3
  <2> QED
    BY <2>1, <2>5, <2>6
<1>18. DOMAIN sh1 = Budgets /\ sh1[set] = new /\ \A b \in Budgets : b # set => sh1[b] = sh[b]
  BY <1>10, <1>15, <1>16
<1>19. DOMAIN sh1["deep"] \subseteq DOMAIN sh1["shallow"] /\ DOMAIN sh["shallow"] \subseteq DOMAIN sh1["shallow"]
  BY <1>14, <1>15, <1>17, <1>18 DEF Budgets
<1>20. \A b \in Budgets : SetOk(b, sh1[b], us)
  BY <1>15, <1>17, <1>18
<1>21. ValuesOk(val, vd, sh1["shallow"], ps)
  <2>1. ValuesOk(val, vd, sh["shallow"], ps)
    BY DEF SetsOk
  <2> QED
    BY <2>1, <1>19 DEF ValuesOk
<1>22. dp # <<>>
  <2>1. 1 \in 1 .. Len(us)
    BY <1>2 DEF WritesOk
  <2>2. PICK n \in ReachedOf(ps, dp) : us[1] = ps[n]
    BY <2>1, <1>1, UsableAre
  <2>3. DOMAIN dp # {}
    BY <2>2 DEF ReachedOf, IdxOf
  <2> QED
    BY <2>3, EmptyListed
<1>23. WritesOk(q, sh1, us)
  <2>1. \A i \in 1 .. Len(q.writes) : q.writes[i] = WriteAt(e + i, us)
    <3> TAKE i \in 1 .. Len(q.writes)
    <3>1. i \in 1 .. Len(p.writes) - 1
      BY <1>4, <1>5
    <3>2. q.writes[i] = WriteAt(d + (i + 1), us)
      BY <3>1, <1>4, <1>5
    <3>3. d + (i + 1) = e + i
      BY <1>6
    <3> QED
      BY <3>2, <3>3
  <2>2. ASSUME NEW n \in 1 .. e PROVE IsThere(sh1, WriteAt(n, us))
    <3>1. n \in Nat /\ n >= 1
      OBVIOUS
    <3>2. PICK b \in Budgets : b = SetOf(n)
      BY <3>1, Turns
    <3>3. PICK j \in Nat : j = NumberOf(n)
      BY <3>1, Turns
    <3>4. n = TurnAt(b, j)
      BY <3>1, <3>2, <3>3, Turns
    <3>5. CASE b = set /\ j = k
      <4>1. k \in DOMAIN new /\ new[k] = TrueRows(set, k, us)
        BY <1>17
      <4> QED
        BY <4>1, <3>2, <3>3, <3>5, <1>18 DEF IsThere, WriteAt
    <3>6. CASE ~(b = set /\ j = k)
      <4>1. n # e
        BY <3>2, <3>3, <3>6, <1>8, <1>9
      <4>2. n \in 1 .. d
        BY <4>1, <1>6
      <4>3. j \in DOMAIN sh[b] /\ sh[b][j] = TrueRows(b, j, us)
        BY <4>2, <3>2, <3>3, <1>4 DEF IsThere, WriteAt
      <4>4. j \in DOMAIN sh1[b] /\ sh1[b][j] = sh[b][j]
        BY <4>3, <3>6, <1>17, <1>18
      <4> QED
        BY <4>3, <4>4, <3>2, <3>3 DEF IsThere, WriteAt
    <3> QED
      BY <3>5, <3>6
  <2>3. Len(us) >= 1
    BY <1>2 DEF WritesOk
  <2> QED
    BY <2>1, <2>2, <2>3, <1>3, <1>5, <1>7 DEF WritesOk
<1>24. q.kind # "lockstep" /\ q.kind # "value"
  OBVIOUS
<1> QED
  BY <1>1, <1>18, <1>19, <1>20, <1>21, <1>22, <1>23, <1>24 DEF SetsOk

-----------------------------------------------------------------------------
(* The sets: value-shards.                                                 *)

\* Intervals from 1.
LEMMA SameLast ==
  ASSUME NEW a \in Nat, NEW b \in Nat, 1 .. a = 1 .. b
  PROVE  a = b
<1>1. a >= 1 => a \in 1 .. b
  OBVIOUS
<1>2. b >= 1 => b \in 1 .. a
  OBVIOUS
<1> QED
  BY <1>1, <1>2

\* An interval from 1 has as many numbers as its last.
LEMMA HowMany ==
  ASSUME NEW n \in Nat
  PROVE  Cardinality(1 .. n) = n
<1>1. 0 + 1 .. 0 + n = 1 .. n
  OBVIOUS
<1> QED
  BY <1>1, OrdInterval

\* The files of a set, by their number.
LEMMA FilesThere ==
  ASSUME NEW set, NEW files, NEW us, SetOk(set, files, us), NEW n \in Nat, DOMAIN files = 1 .. n
  PROVE  /\ FitIn(files, n, Len(us))
         /\ \A k \in 1 .. n : Before(k) + Len(files[k]) = Len(us) => \A j \in 1 .. k : files[j] = TrueRows(set, j, us)
<1>1. PICK m \in Nat :
        /\ FitIn(files, m, Len(us))
        /\ \A k \in 1 .. m : Before(k) + Len(files[k]) = Len(us) => \A j \in 1 .. k : files[j] = TrueRows(set, j, us)
  BY DEF SetOk
<1>2. m = n
  BY <1>1, SameLast DEF FitIn
<1> QED
  BY <1>1, <1>2

\* A file of a set.
LEMMA FileThere ==
  ASSUME NEW files, NEW n \in Nat, NEW L \in Nat, FitIn(files, n, L), NEW k \in 1 .. n
  PROVE  /\ IsList(files[k]) /\ Len(files[k]) \in 1 .. PerShard /\ DOMAIN files[k] = 1 .. Len(files[k])
         /\ Before(k) \in Nat /\ Before(k) + Len(files[k]) <= L /\ Before(k) < L /\ L \in Nat
         /\ EndOf(files, k) = Before(k) + Len(files[k])
<1>1. IsList(files[k]) /\ files[k] # <<>> /\ Len(files[k]) <= PerShard /\ Before(k) + Len(files[k]) <= L
  BY DEF FitIn
<1>2. k \in Nat /\ k >= 1
  OBVIOUS
<1>3. Before(k) \in Nat /\ PerShard \in Nat
  BY <1>2, BeforeNat, SlotsPositive
<1>4. Len(files[k]) \in Nat /\ Len(files[k]) >= 1 /\ DOMAIN files[k] = 1 .. Len(files[k])
  BY <1>1, OneLess
<1>5. EndOf(files, k) = Before(k) + Len(files[k])
  BY <1>2 DEF EndOf
<1> QED
  BY <1>1, <1>3, <1>4, <1>5

\* value-shards begins.
LEMMA ValueBegins ==
  ASSUME NEW p, NEW vd, SetsOk(p, shards, value, vd, plies, deep), IsList(plies), DOMAIN shards["shallow"] # {}, NEW q,
         q.kind = "value", q.files = SourceFiles, q.cursor = 0
  PROVE  SetsOk(q, shards, value, FALSE, plies, deep)
<1>1. PICK f : f = shards["shallow"]
  OBVIOUS
<1>2. SetOk("shallow", f, Usable)
  BY <1>1, UsableIs DEF SetsOk, Budgets
<1>3. PICK n \in Nat : FitIn(f, n, Len(Usable)) /\ DOMAIN f = 1 .. n
  BY <1>2 DEF SetOk, FitIn
<1>4. n >= 1
  <2>1. 1 .. n # {}
    BY <1>1, <1>3
  <2> QED
    BY <2>1
<1>5. PICK fs : fs = SourceFiles
  OBVIOUS
<1>6. fs = [k \in 1 .. n |-> f[k]]
  BY <1>1, <1>3, <1>5, HowMany DEF SourceFiles
<1>7. IsList(fs) /\ Len(fs) = n /\ \A i \in 1 .. n : fs[i] = f[i]
  <2>1. DOMAIN fs = 1 .. n /\ fs = [i \in 1 .. n |-> fs[i]]
    BY <1>6
  <2> QED
    BY <2>1, <1>6, Listed
<1>8. Least(Before(0 + 1), Len(plies)) = 0 /\ EndOf(f, 0) = 0
  <2>1. Before(1) = 0
    <3>1. 0 \in Nat
      OBVIOUS
    <3> QED
      BY <3>1, BeforeNext
  <2>2. Len(plies) \in Nat
    BY OneMore
  <2> QED
    BY <2>1, <2>2 DEF Least, EndOf
<1>9. ValueAt(n, 0, q, f, value, plies, deep)
  <2>1. \A i \in 1 .. n - 0 : q.files[i] = f[0 + i]
    BY <1>5, <1>7
  <2>2. IsList(q.files) /\ Len(q.files) = n - 0
    BY <1>5, <1>7
  <2>3. 1 .. 0 = {} /\ 0 \in Nat /\ 0 <= n /\ 0 <= EndOf(f, 0) /\ q.cursor = 0
    BY <1>8
  <2> QED
    BY <2>1, <2>2, <2>3, <1>3, <1>4, <1>8 DEF ValueAt
<1>10. ValueOk(q, f, value, plies, deep)
  BY <1>9 DEF ValueOk, ValueAt
<1>11. ValuesOk(value, FALSE, f, plies)
  BY <1>1 DEF SetsOk, ValuesOk
<1> QED
  BY <1>1, <1>10, <1>11 DEF SetsOk

\* value-shards has read all files.
LEMMA ValueEnds ==
  ASSUME NEW p, NEW sh, NEW val, NEW vd, NEW ps, IsList(ps), NEW dp, SetsOk(p, sh, val, vd, ps, dp),
         p.kind = "value", p.files = <<>>, NEW q, q.kind = "idle", NEW vd1 \in BOOLEAN, vd1 <=> p.cursor = Len(ps)
  PROVE  SetsOk(q, sh, val, vd1, ps, dp)
<1>1. PICK f : f = sh["shallow"]
  OBVIOUS
<1>2. PICK us : us = UsableOf(ps, dp)
  OBVIOUS
<1>3. ValueOk(p, f, val, ps, dp) /\ SetOk("shallow", f, us) /\ ValuesOk(val, vd, f, ps)
  BY <1>1, <1>2 DEF SetsOk, Budgets
<1>4. PICK n, m \in Nat : ValueAt(n, m, p, f, val, ps, dp)
  BY <1>3 DEF ValueOk
<1>5. m = n /\ n \in Nat /\ n >= 1 /\ DOMAIN f = 1 .. n
  <2>1. Len(p.files) = 0 /\ Len(p.files) = n - m
    BY <1>4, EmptyListed DEF ValueAt
  <2> QED
    BY <2>1, <1>4 DEF ValueAt
<1>6. PICK L \in Nat : L = Len(ps) /\ DOMAIN ps = 1 .. L
  BY OneMore
<1>7. PICK M \in Nat : M = Len(us) /\ M <= L
  BY <1>2, <1>6, UsableAre
<1>8. FitIn(f, n, M)
  BY <1>3, <1>5, <1>7, FilesThere
<1>9. /\ Len(f[n]) \in 1 .. PerShard /\ Before(n) \in Nat /\ Before(n) + Len(f[n]) <= M
      /\ EndOf(f, n) = Before(n) + Len(f[n])
  <2>1. n \in 1 .. n
    BY <1>5
  <2> QED
    BY <2>1, <1>5, <1>7, <1>8, FileThere
<1>10. PICK v \in Nat : DOMAIN val = 1 .. v /\ 1 .. v \subseteq 1 .. n
  BY <1>3, <1>5 DEF ValuesOk
<1>11. v = n
  <2>1. \A k \in 1 .. n : k \in 1 .. v
    BY <1>4, <1>5, <1>10 DEF ValueAt
  <2>2. 1 .. v = 1 .. n
    BY <2>1, <1>10
  <2> QED
    BY <2>2, <1>5, <1>10, SameLast
<1>12. ASSUME vd1
       PROVE  Before(n) < L /\ L <= Before(n) + PerShard /\ \A k \in 1 .. n : val[k] = TrueValues(k, ps)
  <2>1. p.cursor = L /\ p.cursor <= EndOf(f, n) /\ \A c \in 1 .. p.cursor : c \in ReachedOf(ps, dp)
    BY <1>4, <1>5, <1>6, <1>12 DEF ValueAt
  <2>2. EndOf(f, n) = L
    BY <2>1, <1>6, <1>7, <1>9
  <2>3. ReachedOf(ps, dp) = DOMAIN ps
    BY <2>1, <1>6 DEF ReachedOf
  <2>4. \A k \in 1 .. n : val[k] = TrueValues(k, ps)
    BY <2>2, <2>3, <1>4, <1>5, <1>6 DEF ValueAt
  <2>5. PerShard \in Nat
    BY SlotsPositive
  <2> QED
    BY <2>2, <2>4, <2>5, <1>9
<1>13. ValuesOk(val, vd1, f, ps)
  BY <1>5, <1>6, <1>10, <1>11, <1>12 DEF ValuesOk
<1> QED
  BY <1>1, <1>13 DEF SetsOk

\* Reading a file moves the cursor no further than its end.
LEMMA CursorMoves ==
  ASSUME NEW files, NEW n \in Nat, NEW L \in Nat, FitIn(files, n, L), NEW m \in Nat, m < n, NEW c \in Nat, c <= EndOf(files, m)
  PROVE  c + Len(files[m + 1]) \in Nat /\ c + Len(files[m + 1]) <= EndOf(files, m + 1)
<1>1. m + 1 \in 1 .. n
  OBVIOUS
<1>2. /\ Len(files[m + 1]) \in 1 .. PerShard /\ Before(m + 1) \in Nat
      /\ EndOf(files, m + 1) = Before(m + 1) + Len(files[m + 1])
  BY <1>1, FileThere
<1>3. EndOf(files, m) <= Before(m + 1) /\ EndOf(files, m) \in Nat
  <2>1. CASE m = 0
    BY <2>1, <1>2 DEF EndOf
  <2>2. CASE m # 0
    <3>1. m \in 1 .. n
      BY <2>2
    <3>2. Len(files[m]) \in 1 .. PerShard /\ Before(m) \in Nat /\ EndOf(files, m) = Before(m) + Len(files[m])
      BY <3>1, FileThere
    <3>3. Before(m + 1) = Before(m) + PerShard /\ PerShard \in Nat
      BY BeforeNext, SlotsPositive
    <3> QED
      BY <3>2, <3>3
  <2> QED
    BY <2>1, <2>2
<1> QED
  BY <1>2, <1>3

\* The values of a file of the set of all plies, read at its place.
LEMMA RevaluedTrue ==
  ASSUME FilesOk(features, plies, games), DeepOk(deep, plies, TRUE), ReachedOf(plies, deep) = DOMAIN plies,
         NEW k \in Nat, k >= 1, Before(k) < Len(plies), NEW rows, rows = TrueRows("shallow", k, plies)
  PROVE  Revalued(rows, Before(k)) = TrueValues(k, plies)
<1>1. IsList(plies) /\ Len(plies) \in Nat /\ DOMAIN plies = 1 .. Len(plies)
  BY OneMore DEF FilesOk
<1>2. PICK b \in Nat : b = Before(k)
  BY BeforeNat
<1>3. PICK n : n = RowsIn(k, Len(plies))
  OBVIOUS
<1>4. /\ DOMAIN rows = 1 .. n /\ n \in 1 .. PerShard /\ b + n <= Len(plies)
      /\ \A i \in 1 .. n : rows[i] = TrueRecord("shallow", plies[b + i])
  BY <1>1, <1>2, <1>3, TrueRowsAre
<1>5. PerShard \in Nat
  BY SlotsPositive
<1>6. ASSUME NEW i \in 1 .. n
      PROVE  [h |-> rows[i].h, root |-> DeepOf(plies[b + i].idx).target] = TrueValue(plies[b + i])
  <2>1. b + i \in ReachedOf(plies, deep)
    BY <1>1, <1>2, <1>4, <1>5
  <2>2. DeepOf(plies[b + i].idx).target = TargetOf(plies[b + i].h, "deep", plies[b + i].seed)
    BY <2>1, DeepTargetIsTrue
  <2>3. rows[i].h = plies[b + i].h
    <3>1. PICK r : r = plies[b + i]
      OBVIOUS
    <3>2. rows[i] = TrueRecord("shallow", r)
      BY <3>1, <1>4
    <3>3. rows[i].h = r.h
      BY <3>2 DEF TrueRecord
    <3> QED
      BY <3>1, <3>3
  <2> QED
    BY <2>2, <2>3 DEF TrueValue
<1>7. Revalued(rows, b) = [i \in 1 .. n |-> [h |-> rows[i].h, root |-> DeepOf(plies[b + i].idx).target]]
  BY <1>4 DEF Revalued
<1>8. TrueValues(k, plies) = [i \in 1 .. n |-> TrueValue(plies[b + i])]
  BY <1>2, <1>3 DEF TrueValues
<1> QED
  BY <1>2, <1>6, <1>7, <1>8

\* Where all plies are in the files, the next file is read at its place.
LEMMA WholeMoves ==
  ASSUME FilesOk(features, plies, games), DeepOk(deep, plies, TRUE), ReachedOf(plies, deep) = DOMAIN plies,
         NEW f, SetOk("shallow", f, Usable), NEW n \in Nat, n >= 1, DOMAIN f = 1 .. n, EndOf(f, n) = Len(plies),
         NEW m \in Nat, m < n, NEW c, c = Least(Before(m + 1), Len(plies))
  PROVE  /\ Revalued(f[m + 1], c) = TrueValues(m + 1, plies)
         /\ c + Len(f[m + 1]) = Least(Before(m + 2), Len(plies))
<1>1. IsList(plies)
  BY DEF FilesOk
<1>2. PICK L \in Nat : L = Len(plies) /\ DOMAIN plies = 1 .. L
  BY <1>1, OneMore
<1>3. PICK us : us = Usable
  OBVIOUS
<1>4. IsList(us) /\ Len(us) = L /\ \A r \in 1 .. L : us[r] = plies[r]
  BY <1>1, <1>2, <1>3, UsableAre, UsableIs
<1>5. /\ FitIn(f, n, L)
      /\ \A k \in 1 .. n : Before(k) + Len(f[k]) = L => \A j \in 1 .. k : f[j] = TrueRows("shallow", j, us)
  <2>1. SetOk("shallow", f, us)
    BY <1>3
  <2>2. FitIn(f, n, Len(us))
    BY <2>1, FilesThere
  <2>3. \A k \in 1 .. n : Before(k) + Len(f[k]) = Len(us) => \A j \in 1 .. k : f[j] = TrueRows("shallow", j, us)
    BY <2>1, FilesThere
  <2> QED
    BY <2>2, <2>3, <1>4
<1>6. Before(n) + Len(f[n]) = L
  <2>1. n \in 1 .. n
    OBVIOUS
  <2> QED
    BY <2>1, <1>2, <1>5, FileThere
<1>7. PICK k \in Nat : k = m + 1 /\ k >= 1 /\ k \in 1 .. n
  OBVIOUS
<1>8. f[k] = TrueRows("shallow", k, us)
  <2>1. n \in 1 .. n /\ k \in 1 .. n
    BY <1>7
  <2> QED
    BY <2>1, <1>5, <1>6
<1>9. Before(k) \in Nat /\ Before(k) < L
  BY <1>5, <1>7, FileThere
<1>10. TrueRows("shallow", k, us) = TrueRows("shallow", k, plies)
  <2>1. PICK w : w = RowsIn(k, L)
    OBVIOUS
  <2>2. w \in 1 .. PerShard /\ Before(k) + w <= L /\ PerShard \in Nat
    BY <2>1, <1>1, <1>2, <1>7, <1>9, TrueRowsAre, SlotsPositive
  <2>3. \A i \in 1 .. w : Before(k) + i \in 1 .. L
    BY <2>2, <1>9
  <2>4. \A i \in 1 .. w : TrueRecord("shallow", us[Before(k) + i]) = TrueRecord("shallow", plies[Before(k) + i])
    BY <2>3, <1>4
  <2> QED
    BY <2>1, <2>4, <1>2, <1>4 DEF TrueRows
<1>11. c = Before(k)
  BY <1>2, <1>7, <1>9 DEF Least
<1>12. Revalued(f[k], Before(k)) = TrueValues(k, plies)
  BY <1>2, <1>7, <1>8, <1>9, <1>10, RevaluedTrue
<1>13. c + Len(f[k]) = Least(Before(k + 1), L)
  <2>1. Len(f[k]) = RowsIn(k, L)
    BY <1>1, <1>2, <1>7, <1>8, <1>9, <1>10, TrueRowsAre
  <2>2. Before(k + 1) = Before(k) + PerShard /\ PerShard \in Nat
    BY <1>7, BeforeNext, SlotsPositive
  <2> QED
    BY <2>1, <2>2, <1>9, <1>11 DEF RowsIn, Least
<1> QED
  <2>1. k + 1 = m + 2
    BY <1>7
  <2> QED
    BY <2>1, <1>2, <1>7, <1>11, <1>12, <1>13

\* A file of values is written, or the program has thrown.
LEMMA ValueSwapped ==
  ASSUME FilesOk(features, plies, games), DeepOk(deep, plies, TRUE),
         NEW p, SetsOk(p, shards, value, valued, plies, deep), p.kind = "value", p.files # <<>>,
         NEW file, file = 1 + Cardinality(DOMAIN shards["shallow"]) - Len(p.files),
         NEW rows, rows = Head(p.files), OrderProven(rows, p.cursor),
         NEW val, val = With(value, file, Revalued(rows, p.cursor)),
         NEW q, q.kind = "value", q.files = Tail(p.files), q.cursor = p.cursor + Len(rows)
  PROVE  SetsOk(q, shards, val, valued, plies, deep)
<1>1. PICK f : f = shards["shallow"]
  OBVIOUS
<1>2. ValueOk(p, f, value, plies, deep) /\ SetOk("shallow", f, Usable) /\ ValuesOk(value, valued, f, plies) /\ ~valued
  BY <1>1, UsableIs DEF SetsOk, Budgets
<1>3. PICK n, m \in Nat : ValueAt(n, m, p, f, value, plies, deep)
  BY <1>2 DEF ValueOk
<1>4. /\ n \in Nat /\ m \in Nat /\ n >= 1 /\ m <= n /\ DOMAIN f = 1 .. n /\ IsList(p.files) /\ Len(p.files) = n - m
      /\ \A i \in 1 .. n - m : p.files[i] = f[m + i]
  BY <1>3 DEF ValueAt
<1>5. /\ IsList(q.files) /\ Len(p.files) >= 1 /\ Len(q.files) = Len(p.files) - 1 /\ rows = p.files[1]
      /\ \A i \in 1 .. Len(p.files) - 1 : q.files[i] = p.files[i + 1]
  BY <1>4, OneLess
<1>6. m < n /\ rows = f[m + 1] /\ file = m + 1
  <2>1. m < n /\ rows = f[m + 1]
    BY <1>4, <1>5
  <2>2. Cardinality(DOMAIN f) = n
    BY <1>4, HowMany
  <2>3. file = 1 + n - (n - m)
    BY <2>2, <1>1, <1>4
  <2> QED
    BY <2>1, <2>3, <1>4
<1>7. PICK L \in Nat : L = Len(plies) /\ IsList(plies) /\ DOMAIN plies = 1 .. L
  BY OneMore DEF FilesOk
<1>8. PICK M \in Nat : M = Len(Usable)
  BY <1>7, UsableAre, UsableIs
<1>9. FitIn(f, n, M)
  BY <1>2, <1>4, <1>8, FilesThere
<1>10. PICK c \in Nat : c = p.cursor /\ c <= EndOf(f, m) /\ \A j \in 1 .. c : j \in ReachedOf(plies, deep)
  BY <1>3 DEF ValueAt
<1>11. Len(rows) \in Nat /\ DOMAIN rows = 1 .. Len(rows)
  <2>1. m + 1 \in 1 .. n
    BY <1>4, <1>6
  <2> QED
    BY <2>1, <1>4, <1>6, <1>8, <1>9, FileThere
<1>12. q.cursor \in Nat /\ q.cursor <= EndOf(f, m + 1)
  <2>1. q.cursor = c + Len(f[m + 1])
    BY <1>6, <1>10
  <2>2. c + Len(f[m + 1]) \in Nat /\ c + Len(f[m + 1]) <= EndOf(f, m + 1)
    BY <1>4, <1>6, <1>8, <1>9, <1>10, CursorMoves
  <2> QED
    BY <2>1, <2>2
<1>13. ASSUME NEW j \in 1 .. q.cursor PROVE j \in ReachedOf(plies, deep)
  <2>1. CASE j <= c
    BY <2>1, <1>10
  <2>2. CASE ~(j <= c)
    <3>1. PICK i \in 1 .. Len(rows) : j = c + i
      <4>1. j - c \in 1 .. Len(rows) /\ j = c + (j - c)
        BY <2>2, <1>10, <1>11, <1>12
      <4> QED
        BY <4>1
    <3>2. c + i <= Len(plies) /\ plies[c + i].idx \in DeepIdx
      BY <3>1, <1>10, <1>11 DEF OrderProven
    <3>3. c + i \in DOMAIN plies
      BY <3>1, <3>2, <1>7
    <3> QED
      BY <3>1, <3>2, <3>3 DEF ReachedOf, DeepIdx, IdxOf
  <2> QED
    BY <2>1, <2>2
<1>14. PICK t : t = Revalued(rows, c)
  OBVIOUS
<1>15. DOMAIN val = DOMAIN value \cup {m + 1} /\ val[m + 1] = t /\ \A k \in DOMAIN value : k # m + 1 => val[k] = value[k]
  <2>1. PICK e \in Nat : e = m + 1
    BY <1>4
  <2>2. val = With(value, e, t)
    BY <2>1, <1>6, <1>10, <1>14
  <2>3. DOMAIN val = DOMAIN value \cup {e} /\ val[e] = t /\ \A k \in DOMAIN value : k # e => val[k] = value[k]
    BY <2>2 DEF With
  <2> QED
    BY <2>1, <2>3
<1>16. \A k \in 1 .. m : k \in DOMAIN value /\ k # m + 1
  BY <1>3, <1>4 DEF ValueAt
<1>17. \A k \in 1 .. m + 1 : k \in DOMAIN val
  <2>1. \A k \in 1 .. m + 1 : k \in 1 .. m \/ k = m + 1
    BY <1>4
  <2> QED
    BY <2>1, <1>15, <1>16
<1>18. ASSUME EndOf(f, n) = Len(plies), ReachedOf(plies, deep) = DOMAIN plies
       PROVE  q.cursor = Least(Before(m + 2), Len(plies)) /\ \A k \in 1 .. m + 1 : val[k] = TrueValues(k, plies)
  <2>1. c = Least(Before(m + 1), Len(plies)) /\ \A k \in 1 .. m : value[k] = TrueValues(k, plies)
    BY <1>3, <1>10, <1>18 DEF ValueAt
  <2>2. t = TrueValues(m + 1, plies) /\ c + Len(rows) = Least(Before(m + 2), Len(plies))
    BY <2>1, <1>2, <1>4, <1>6, <1>14, <1>18, WholeMoves
  <2>3. \A k \in 1 .. m + 1 : k \in 1 .. m \/ k = m + 1
    BY <1>4
  <2> QED
    BY <2>1, <2>2, <2>3, <1>10, <1>15, <1>16
<1>19. ValueAt(n, m + 1, q, f, val, plies, deep)
  <2>1. PICK e \in Nat : e = m + 1 /\ e <= n /\ e + 1 = m + 2
    BY <1>4, <1>6
  <2>2. Len(q.files) = n - e /\ \A i \in 1 .. n - e : q.files[i] = f[e + i]
    <3>1. Len(q.files) = n - e
      BY <2>1, <1>4, <1>5
    <3>2. ASSUME NEW i \in 1 .. n - e PROVE q.files[i] = f[e + i]
      <4>0. n \in Int /\ m \in Int /\ e = m + 1 /\ i \in Int /\ 1 <= i /\ i <= n - e
        BY <2>1, <1>4
      <4>1. i \in 1 .. n - m - 1 /\ i + 1 \in 1 .. n - m /\ m + (i + 1) = e + i
        BY <4>0
      <4> QED
        BY <4>1, <1>4, <1>5
    <3> QED
      BY <3>1, <3>2
  <2>3. EndOf(f, n) = Len(plies) /\ ReachedOf(plies, deep) = DOMAIN plies =>
         q.cursor = Least(Before(e + 1), Len(plies)) /\ \A k \in 1 .. e : val[k] = TrueValues(k, plies)
    BY <2>1, <1>18
  <2>4. (\A k \in 1 .. e : k \in DOMAIN val) /\ q.cursor \in Nat /\ q.cursor <= EndOf(f, e)
    BY <2>1, <1>12, <1>17
  <2>5. \A j \in 1 .. q.cursor : j \in ReachedOf(plies, deep)
    BY <1>13
  <2>6. ValueAt(n, e, q, f, val, plies, deep)
    BY <2>1, <2>2, <2>3, <2>4, <2>5, <1>4, <1>5 DEF ValueAt
  <2> QED
    BY <2>1, <2>6
<1>20. ValueOk(q, f, val, plies, deep)
  <2>1. m + 1 \in Nat
    BY <1>4
  <2> QED
    BY <2>1, <1>4, <1>19 DEF ValueOk
<1>21. ValuesOk(val, valued, f, plies)
  <2>1. PICK v \in Nat : DOMAIN value = 1 .. v /\ 1 .. v \subseteq 1 .. n
    BY <1>2, <1>4 DEF ValuesOk
  <2>2. m <= v
    <3>1. CASE m = 0
      BY <3>1, <2>1
    <3>2. CASE m # 0
      <4>1. m \in 1 .. m
        BY <3>2, <1>4
      <4>2. m \in 1 .. v
        BY <4>1, <2>1, <1>16
      <4> QED
        BY <4>2
    <3> QED
      BY <3>1, <3>2
  <2>3. PICK w \in Nat : w = (IF v >= m + 1 THEN v ELSE m + 1)
    BY <1>4
  <2>4. (1 .. v) \cup {m + 1} = 1 .. w /\ 1 .. w \subseteq 1 .. n
    <3>1. v >= m /\ v \in Int /\ m \in Int /\ w \in Int /\ n \in Int /\ m >= 0
      BY <2>1, <2>2, <2>3, <1>4
    <3>2. \A x : x \in (1 .. v) \cup {m + 1} <=> x \in 1 .. w
      BY <3>1, <2>3
    <3>3. v <= n
      <4>1. v >= 1 => v \in 1 .. n
        BY <2>1
      <4> QED
        BY <4>1, <3>1, <1>4
    <3> QED
      BY <3>1, <3>2, <3>3, <2>3, <1>6
  <2> QED
    BY <2>1, <2>4, <1>2, <1>4, <1>15 DEF ValuesOk
<1> QED
  BY <1>1, <1>2, <1>20, <1>21 DEF SetsOk

-----------------------------------------------------------------------------
(* The sets: every step keeps them.                                        *)

\* What the corpus is, for the sets.
LEMMA CorpusThere ==
  ASSUME CorpusInv
  PROVE  /\ FilesOk(features, plies, games) /\ DeepOk(deep, plies, ~remade) /\ remade \in BOOLEAN
         /\ IsList(plies) /\ IsList(deep) /\ \A i \in DOMAIN plies : plies[i].idx \in Nat /\ plies[i].idx = i - 1
         /\ ~remade => DeepOk(deep, plies, TRUE)
<1>1. FilesOk(features, plies, games) /\ DeepOk(deep, plies, ~remade) /\ remade \in BOOLEAN
  BY DEF CorpusInv, CorpusOk
<1>2. IsList(plies) /\ IsList(deep) /\ \A i \in DOMAIN plies : plies[i].idx = i - 1
  BY <1>1 DEF FilesOk, DeepOk, PlyFollows
<1>3. DOMAIN plies = 1 .. Len(plies) /\ Len(plies) \in Nat
  BY <1>2, OneMore
<1>4. ~remade => DeepOk(deep, plies, TRUE)
  <2>1. PICK once \in BOOLEAN : once <=> ~remade
    BY <1>1
  <2>2. DeepOk(deep, plies, once)
    BY <2>1, <1>1 DEF DeepOk
  <2>3. ~remade => once = TRUE
    BY <2>1
  <2> QED
    BY <2>2, <2>3
<1>5. \A i \in DOMAIN plies : plies[i].idx \in Nat
  <2>1. \A i \in 1 .. Len(plies) : i - 1 \in Nat
    BY <1>3
  <2> QED
    BY <2>1, <1>2, <1>3
<1> QED
  BY <1>1, <1>2, <1>4, <1>5

\* The steps of a program that runs its slots, but those that write.
LEMMA SetsScanned ==
  ASSUME CorpusInv, SetsInv, Take \/ EndSession \/ StartSearch \/ Pend \/ Infer \/ FinishShallow
  PROVE  SetsInv'
<1>1. PICK p : p = proc
  OBVIOUS
<1>2. PICK q : q = proc'
  OBVIOUS
<1>3. p.kind = "lockstep" /\ "kind" \in DOMAIN p /\ "prog" \in DOMAIN p
  <2>1. proc.kind = "lockstep"
    BY DEF Take, EndSession, StartSearch, Pend, Infer, FinishShallow, Scanning
  <2>2. Runs(p, features, plies, games, deep)
    BY <1>1, <2>1, CorpusRuns DEF CorpusInv
  <2> QED
    BY <2>1, <2>2, <1>1 DEF Runs, LockOk, ShapeOk
<1>4. q.kind = p.kind /\ q.prog = p.prog
  <2>1. CASE Take
    BY <2>1, <1>1, <1>2, <1>3 DEF Take
  <2>2. CASE EndSession
    BY <2>2, <1>1, <1>2, <1>3 DEF EndSession
  <2>3. CASE StartSearch
    BY <2>3, <1>1, <1>2, <1>3 DEF StartSearch
  <2>4. CASE Pend
    BY <2>4, <1>1, <1>2, <1>3 DEF Pend
  <2>5. CASE Infer
    BY <2>5, <1>1, <1>2, <1>3 DEF Infer
  <2>6. CASE FinishShallow
    BY <2>6, <1>1, <1>2, <1>3 DEF FinishShallow
  <2> QED
    BY <2>1, <2>2, <2>3, <2>4, <2>5, <2>6
<1>5. /\ shards' = shards /\ value' = value /\ valued' = valued /\ plies' = plies /\ deep' = deep /\ remade' = remade
  BY DEF Take, EndSession, StartSearch, Pend, Infer, FinishShallow, disk
<1>6. SetsOk(p, shards, value, valued, plies, deep) => SetsOk(q, shards, value, valued, plies, deep)
  <2>1. SetsOk(p, shards, value, valued, plies, deep) => (q.kind = "lockstep" /\ q.prog = "collect" => deep = <<>>)
    BY <1>3, <1>4 DEF SetsOk
  <2>2. q.kind \in {"idle", "lockstep"}
    BY <1>3, <1>4
  <2> QED
    BY <2>1, <2>2, SetsStay
<1> QED
  BY <1>1, <1>2, <1>5, <1>6 DEF SetsInv

\* While a collection writes there is no shard, unless something was made anew.
LEMMA SetsWrite ==
  ASSUME CorpusInv, SetsInv, Write
  PROVE  SetsInv'
<1>1. PICK p : p = proc
  OBVIOUS
<1>2. PICK q : q = proc'
  OBVIOUS
<1>3. /\ p.kind = "lockstep" /\ p.flush # <<>> /\ q = [p EXCEPT !.flush = Tail(@)]
      /\ shards' = shards /\ value' = value /\ valued' = valued /\ deep' = deep /\ remade' = remade
  BY <1>1, <1>2 DEF Write
<1>4. Runs(p, features, plies, games, deep)
  BY <1>1, <1>3, CorpusRuns DEF CorpusInv
<1>5. p.prog = "collect"
  BY <1>3, <1>4 DEF Runs, RelabelOk, CollectOk
<1>6. q.kind = "lockstep"
  BY <1>3, <1>4 DEF Runs, LockOk, ShapeOk
<1>7. PICK ps1 : ps1 = plies'
  OBVIOUS
<1>8. SetsOk(p, shards, value, valued, plies, deep) => SetsOk(q, shards, value, valued, ps1, deep)
  <2>1. SetsOk(p, shards, value, valued, plies, deep) => deep = <<>> /\ DOMAIN shards["shallow"] = {}
    BY <1>3, <1>5 DEF SetsOk
  <2>2. q.kind \in {"idle", "lockstep"}
    BY <1>6
  <2> QED
    BY <2>1, <2>2, NoSets
<1> QED
  BY <1>1, <1>2, <1>3, <1>7, <1>8 DEF SetsInv

\* A deep target is appended.
LEMMA SetsFound ==
  ASSUME CorpusInv, DeepDone, SetsOk(proc, shards, value, valued, plies, deep), ~remade,
         NEW q, q = [proc EXCEPT !.slots[proc.at].search = None]
  PROVE  SetsOk(q, shards, value, valued, plies, Append(deep, DeepLine)) /\ q.kind = "lockstep" /\ q.prog # "collect"
<1>1. PICK p : p = proc
  OBVIOUS
<1>3. PICK session : session = p.slots[p.at].session
  OBVIOUS
<1>4. PICK line : line = [idx |-> session.rec.idx, target |-> Result(Slot.search)]
  OBVIOUS
<1>5. /\ Scanning /\ Slot.search # None /\ Slot.session.kind = "relabel" /\ line = DeepLine
      /\ q = [p EXCEPT !.slots[p.at].search = None]
  BY <1>1, <1>3, <1>4 DEF DeepDone, DeepLine, Slot
<1>6. /\ Runs(p, features, plies, games, deep) /\ Slot = p.slots[p.at] /\ p.at \in 1 .. Slots /\ LockOk(p)
      /\ "kind" \in DOMAIN p /\ "prog" \in DOMAIN p /\ p.at <= Slots
  <2>1. /\ Runs(proc, features, plies, games, deep) /\ Slot = proc.slots[proc.at] /\ proc.at \in 1 .. Slots /\ LockOk(proc)
        /\ "kind" \in DOMAIN proc /\ "prog" \in DOMAIN proc /\ proc.at <= Slots
    BY <1>5, ScanningFacts
  <2> QED
    BY <2>1, <1>1
<1>7. q.kind = "lockstep" /\ q.prog = p.prog
  BY <1>5, <1>6 DEF Runs
<1>8. session # None /\ session.kind = "relabel" /\ p.slots[p.at].search # None
  <2>1. p.slots[p.at].search # None /\ session.kind = "relabel"
    BY <1>3, <1>5, <1>6
  <2>2. p.slots[p.at].session = None => p.slots[p.at].search = None
    BY <1>6, SlotAt
  <2> QED
    BY <2>1, <2>2, <1>3
<1>9. p.prog = "relabel" /\ RelabelOk(p, plies, deep)
  <2>1. p.prog = "collect" => session.kind = "game"
    BY <1>3, <1>6, <1>8, SessionOfProgram
  <2> QED
    BY <2>1, <1>6, <1>8 DEF Runs
<1>10. RelabelFollows(session, plies)
  BY <1>3, <1>6, <1>8, <1>9 DEF RelabelOk
<1>11. PICK n \in DOMAIN plies : session.rec = plies[n]
  BY <1>10 DEF RelabelFollows
<1>12. plies[n].idx \notin IdxOf(deep)
  <2>1. AtHand(p.slots[p.at], plies[n].idx)
    BY <1>3, <1>8, <1>11 DEF AtHand, Unfinished
  <2>2. InHand(p.slots, plies[n].idx)
    BY <2>1, <1>6 DEF InHand
  <2> QED
    BY <2>2, <1>9 DEF RelabelOk
<1>13. line.idx = plies[n].idx
  BY <1>4, <1>11
<1>14. SetsOk(p, shards, value, valued, plies, deep) => SetsOk(q, shards, value, valued, plies, Append(deep, line))
  <2>1. q.prog # "collect"
    BY <1>7, <1>9
  <2> QED
    BY <2>1, <1>7, <1>11, <1>12, <1>13, CorpusThere, SetsGrow
<1> QED
  BY <1>1, <1>5, <1>7, <1>9, <1>14

\* The line is appended, whole.
LEMMA SetsFind ==
  ASSUME CorpusInv, SetsInv, FinishDeep
  PROVE  SetsInv'
<1>1. PICK q : q = proc'
  OBVIOUS
<1>2. DeepDone /\ q = [proc EXCEPT !.slots[proc.at].search = None] /\ deep' = Append(deep, DeepLine)
  BY <1>1 DEF FinishDeep, Appends
<1>3. shards' = shards /\ value' = value /\ valued' = valued /\ plies' = plies /\ remade' = remade
  BY DEF FinishDeep
<1>4. ~remade => SetsOk(proc, shards, value, valued, plies, deep)
  BY DEF SetsInv
<1>5. ~remade => SetsOk(q, shards, value, valued, plies, Append(deep, DeepLine))
  BY <1>2, <1>4, SetsFound
<1> QED
  BY <1>1, <1>2, <1>3, <1>5 DEF SetsInv

\* A program of the corpus begins or ends.
LEMMA SetsProgram ==
  ASSUME CorpusInv, SetsInv, Finished \/ Collect \/ Relabel
  PROVE  SetsInv'
<1>1. PICK p : p = proc
  OBVIOUS
<1>2. PICK q : q = proc'
  OBVIOUS
<1>3. SetsInv <=> (~remade => SetsOk(p, shards, value, valued, plies, deep))
  BY <1>1 DEF SetsInv
<1>4. shards' = shards /\ value' = value /\ valued' = valued
  BY DEF Finished, Collect, Relabel
<1>5. Idle.kind = "idle"
  BY DEF Idle
<1>6. CASE Finished
  <2>1. q = Idle /\ plies' = plies /\ deep' = deep /\ remade' = remade
    BY <1>2, <1>6 DEF Finished
  <2>2. q.kind \in {"idle", "lockstep"} /\ q.kind # "lockstep"
    BY <2>1, <1>5
  <2>3. SetsOk(p, shards, value, valued, plies, deep) => SetsOk(q, shards, value, valued, plies, deep)
    BY <2>2, SetsStay
  <2> QED
    BY <2>1, <2>3, <1>2, <1>3, <1>4 DEF SetsInv
<1>7. CASE Collect
  <2>1. /\ q.kind = "lockstep" /\ plies' = <<>> /\ deep' = deep
        /\ remade' = (remade \/ collected \/ deep # <<>>)
    BY <1>2, <1>7 DEF Collect, LockStep
  <2>2. SetsOk(p, shards, value, valued, plies, deep) /\ deep = <<>> => SetsOk(q, shards, value, valued, <<>>, deep)
    <3>1. SetsOk(p, shards, value, valued, plies, deep) /\ deep = <<>> => DOMAIN shards["shallow"] = {}
      BY DEF SetsOk
    <3>2. q.kind \in {"idle", "lockstep"}
      BY <2>1
    <3> QED
      BY <3>1, <3>2, NoSets
  <2> QED
    BY <2>1, <2>2, <1>2, <1>3, <1>4 DEF SetsInv
<1>8. CASE Relabel
  <2>1. PICK fresh \in Freshness :
          /\ q.kind = "lockstep" /\ q.prog = "relabel" /\ deep' = (IF fresh THEN <<>> ELSE deep) /\ plies' = plies
          /\ remade' = (remade \/ (fresh /\ DOMAIN shards["shallow"] # {}))
    BY <1>2, <1>8 DEF Relabel, LockStep
  <2>2. q.kind \in {"idle", "lockstep"} /\ q.prog # "collect"
    BY <2>1
  <2>3. CASE fresh
    <3>1. SetsOk(p, shards, value, valued, plies, deep) /\ DOMAIN shards["shallow"] = {} => SetsOk(q, shards, value, valued, plies, <<>>)
      BY <2>2, NoSets
    <3> QED
      BY <3>1, <2>1, <2>3, <1>2, <1>3, <1>4 DEF SetsInv
  <2>4. CASE ~fresh
    <3>1. SetsOk(p, shards, value, valued, plies, deep) => SetsOk(q, shards, value, valued, plies, deep)
      BY <2>2, SetsStay
    <3> QED
      BY <3>1, <2>1, <2>4, <1>2, <1>3, <1>4 DEF SetsInv
  <2> QED
    BY <2>3, <2>4
<1> QED
  BY <1>6, <1>7, <1>8

\* shards begins, writes a file of a set, or its manifest.
LEMMA SetsCut ==
  ASSUME CorpusInv, SetsInv, Shards \/ WriteShard \/ WriteManifest
  PROVE  SetsInv'
<1>1. PICK p : p = proc
  OBVIOUS
<1>2. PICK q : q = proc'
  OBVIOUS
<1>3. SetsInv <=> (~remade => SetsOk(p, shards, value, valued, plies, deep))
  BY <1>1 DEF SetsInv
<1>4. /\ value' = value /\ valued' = valued /\ plies' = plies /\ deep' = deep /\ remade' = remade
  BY DEF Shards, WriteShard, WriteManifest, disk
<1>5. Idle.kind = "idle"
  BY DEF Idle
<1>6. CASE Shards
  <2>1. q.kind = "shards" /\ q.writes = ShardWrites /\ shards' = shards /\ Usable # <<>>
    BY <1>2, <1>6 DEF Shards, disk
  <2>2. ~remade /\ SetsOk(p, shards, value, valued, plies, deep) => SetsOk(q, shards, value, valued, plies, deep)
    BY <2>1, CorpusThere, ShardsBegin
  <2> QED
    BY <2>1, <2>2, <1>2, <1>3, <1>4 DEF SetsInv
<1>7. CASE WriteShard
  <2>1. PICK w : w = Head(p.writes)
    OBVIOUS
  <2>2. PICK sh1 : sh1 = [shards EXCEPT ![w.set] = With(@, w.file, w.rows)]
    OBVIOUS
  <2>3. p.kind = "shards" /\ p.writes # <<>> /\ shards' = sh1 /\ q = [p EXCEPT !.writes = Tail(@)]
    BY <2>1, <2>2, <1>1, <1>2, <1>7 DEF WriteShard, With
  <2>4. DOMAIN p = {"kind", "writes", "records"}
    BY <2>3, <1>1 DEF CorpusInv, CorpusOk
  <2>5. q.kind = "shards" /\ q.writes = Tail(p.writes)
    BY <2>3, <2>4
  <2>6. SetsOk(p, shards, value, valued, plies, deep) => SetsOk(q, sh1, value, valued, plies, deep)
    BY <2>1, <2>2, <2>3, <2>5, CorpusThere, ShardWritten
  <2> QED
    BY <2>3, <2>6, <1>2, <1>3, <1>4 DEF SetsInv
<1>8. CASE WriteManifest
  <2>1. q = Idle /\ shards' = shards
    BY <1>2, <1>8 DEF WriteManifest
  <2>2. q.kind \in {"idle", "lockstep"} /\ q.kind # "lockstep"
    BY <2>1, <1>5
  <2>3. SetsOk(p, shards, value, valued, plies, deep) => SetsOk(q, shards, value, valued, plies, deep)
    BY <2>2, SetsStay
  <2> QED
    BY <2>1, <2>3, <1>2, <1>3, <1>4 DEF SetsInv
<1> QED
  BY <1>6, <1>7, <1>8

\* value-shards begins, writes a file of values, or ends.
LEMMA SetsValue ==
  ASSUME CorpusInv, SetsInv, ValueShards \/ SwapValues \/ ValuesWritten
  PROVE  SetsInv'
<1>1. PICK p : p = proc
  OBVIOUS
<1>2. PICK q : q = proc'
  OBVIOUS
<1>3. SetsInv <=> (~remade => SetsOk(p, shards, value, valued, plies, deep))
  BY <1>1 DEF SetsInv
<1>4. /\ shards' = shards /\ plies' = plies /\ deep' = deep /\ remade' = remade
  BY DEF ValueShards, SwapValues, ValuesWritten
<1>5. Idle.kind = "idle"
  BY DEF Idle
<1>6. CASE ValueShards
  <2>1. /\ q.kind = "value" /\ q.files = SourceFiles /\ q.cursor = 0 /\ value' = value /\ valued' = FALSE
        /\ DOMAIN shards["shallow"] # {}
    BY <1>2, <1>6 DEF ValueShards
  <2>2. SetsOk(p, shards, value, valued, plies, deep) => SetsOk(q, shards, value, FALSE, plies, deep)
    BY <2>1, CorpusThere, ValueBegins
  <2> QED
    BY <2>1, <2>2, <1>2, <1>3, <1>4 DEF SetsInv
<1>7. CASE SwapValues
  <2>1. PICK rows : rows = Head(p.files)
    OBVIOUS
  <2>2. PICK file : file = 1 + Cardinality(DOMAIN shards["shallow"]) - Len(p.files)
    OBVIOUS
  <2>3. PICK val : val = With(value, file, Revalued(rows, p.cursor))
    OBVIOUS
  <2>4. /\ p.kind = "value" /\ p.files # <<>> /\ valued' = valued
        /\ \/ OrderProven(rows, p.cursor) /\ value' = val /\ q = [p EXCEPT !.files = Tail(@), !.cursor = @ + Len(rows)]
           \/ q = Idle /\ value' = value
    BY <2>1, <2>2, <2>3, <1>1, <1>2, <1>7 DEF SwapValues, With
  <2>5. DOMAIN p = {"kind", "files", "cursor"}
    BY <2>4, <1>1 DEF CorpusInv, CorpusOk
  <2>6. CASE OrderProven(rows, p.cursor) /\ value' = val /\ q = [p EXCEPT !.files = Tail(@), !.cursor = @ + Len(rows)]
    <3>1. q.kind = "value" /\ q.files = Tail(p.files) /\ q.cursor = p.cursor + Len(rows)
      BY <2>4, <2>5, <2>6
    <3>2. ~remade /\ SetsOk(p, shards, value, valued, plies, deep) => SetsOk(q, shards, val, valued, plies, deep)
      BY <3>1, <2>1, <2>2, <2>3, <2>4, <2>6, CorpusThere, ValueSwapped
    <3> QED
      BY <3>2, <2>4, <2>6, <1>2, <1>3, <1>4 DEF SetsInv
  <2>7. CASE q = Idle /\ value' = value
    <3>1. q.kind \in {"idle", "lockstep"} /\ q.kind # "lockstep"
      BY <2>7, <1>5
    <3>2. SetsOk(p, shards, value, valued, plies, deep) => SetsOk(q, shards, value, valued, plies, deep)
      BY <3>1, SetsStay
    <3> QED
      BY <3>2, <2>4, <2>7, <1>2, <1>3, <1>4 DEF SetsInv
  <2> QED
    BY <2>4, <2>6, <2>7
<1>8. CASE ValuesWritten
  <2>1. PICK vd1 \in BOOLEAN : vd1 = (p.cursor = Len(plies))
    OBVIOUS
  <2>2. p.kind = "value" /\ p.files = <<>> /\ q = Idle /\ value' = value /\ valued' = vd1
    BY <2>1, <1>1, <1>2, <1>8 DEF ValuesWritten, EveryPlyWritten
  <2>3. q.kind = "idle"
    BY <2>2, <1>5
  <2>4. SetsOk(p, shards, value, valued, plies, deep) => SetsOk(q, shards, value, vd1, plies, deep)
    BY <2>1, <2>2, <2>3, CorpusThere, ValueEnds
  <2> QED
    BY <2>2, <2>4, <1>2, <1>3, <1>4 DEF SetsInv
<1> QED
  BY <1>6, <1>7, <1>8

\* Whatever runs dies.
LEMMA SetsCrash ==
  ASSUME CorpusInv, SetsInv, Crash
  PROVE  SetsInv'
<1>1. PICK p : p = proc
  OBVIOUS
<1>2. SetsInv <=> (~remade => SetsOk(p, shards, value, valued, plies, deep))
  BY <1>1 DEF SetsInv
<1>3. /\ shards' = shards /\ value' = value /\ valued' = valued /\ plies' = plies /\ remade' = remade /\ proc' = Idle
      /\ deep' = deep \/ deep' = Append(deep, Torn) \/ (DeepDone /\ deep' = Append(deep, DeepLine))
  BY DEF Crash, Appends
<1>4. Idle.kind = "idle"
  BY DEF Idle
<1>5. SetsOk(p, shards, value, valued, plies, deep) => SetsOk(Idle, shards, value, valued, plies, deep)
  <2>1. Idle.kind \in {"idle", "lockstep"} /\ Idle.kind # "lockstep"
    BY <1>4
  <2> QED
    BY <2>1, SetsStay
<1>6. SetsOk(p, shards, value, valued, plies, deep) => SetsOk(Idle, shards, value, valued, plies, Append(deep, Torn))
  BY <1>4, CorpusThere, SetsTorn
<1>7. ASSUME DeepDone, ~remade, SetsOk(proc, shards, value, valued, plies, deep)
      PROVE  SetsOk(Idle, shards, value, valued, plies, Append(deep, DeepLine))
  <2>1. PICK q : q = [proc EXCEPT !.slots[proc.at].search = None]
    OBVIOUS
  <2>2. SetsOk(q, shards, value, valued, plies, Append(deep, DeepLine))
    BY <1>7, <2>1, SetsFound
  <2>3. Idle.kind \in {"idle", "lockstep"} /\ Idle.kind # "lockstep"
    BY <1>4
  <2> QED
    BY <2>2, <2>3, SetsStay
<1> QED
  BY <1>1, <1>2, <1>3, <1>5, <1>6, <1>7 DEF SetsInv

\* There is no set yet.
LEMMA SetsInit == Init => SetsInv
<1> SUFFICES ASSUME Init PROVE SetsInv
  OBVIOUS
<1>1. /\ plies = <<>> /\ deep = <<>> /\ value = <<>> /\ valued = FALSE /\ proc = Idle
      /\ shards = [set \in Budgets |-> <<>>]
  BY DEF Init
<1>2. DOMAIN shards = Budgets /\ \A set \in Budgets : DOMAIN shards[set] = {}
  BY <1>1, EmptyListed
<1>3. DOMAIN shards["deep"] = {} /\ DOMAIN shards["shallow"] = {}
  BY <1>2 DEF Budgets
<1>4. \A set \in Budgets : SetOk(set, shards[set], UsableOf(plies, deep))
  BY <1>2, SetEmpty
<1>5. ValuesOk(value, valued, shards["shallow"], plies)
  <2>1. 0 \in Nat /\ 1 .. 0 = {}
    OBVIOUS
  <2> QED
    BY <2>1, <1>1, EmptyListed DEF ValuesOk
<1>6. proc.kind = "idle"
  BY <1>1 DEF Idle
<1> QED
  BY <1>1, <1>2, <1>3, <1>4, <1>5, <1>6 DEF SetsInv, SetsOk

\* No step breaks it.
LEMMA SetsNext == CorpusInv /\ SetsInv /\ [Next]_vars => SetsInv'
<1> SUFFICES ASSUME CorpusInv, SetsInv, [Next]_vars PROVE SetsInv'
  OBVIOUS
<1>1. CASE UNCHANGED vars
  BY <1>1 DEF vars, disk, SetsInv
<1>2. CASE Next
  BY <1>2, SetsScanned, SetsWrite, SetsFind, SetsProgram, SetsCut, SetsValue, SetsCrash DEF Next, LockStepStep
<1> QED
  BY <1>1, <1>2

\* Sets that verify accepts.
LEMMA SetsPair ==
  ASSUME CorpusInv, SetsInv, ~remade, Verifies
  PROVE  \A r \in 1 .. manifest : Loaded("shallow")[r] = TrueRecord("shallow", Usable[r]) /\ Loaded("deep")[r] = TrueRecord("deep", Usable[r])
<1>1. PICK us : us = Usable
  OBVIOUS
<1>2. IsList(us) /\ Len(us) \in Nat
  BY <1>1, UsableAre, UsableIs, CorpusThere
<1>3. \A set \in Budgets : SetOk(set, shards[set], us)
  BY <1>1, UsableIs DEF SetsInv, SetsOk
<1>4. /\ manifest > 0 /\ Len(Joined(shards["shallow"])) = manifest /\ Len(Joined(shards["deep"])) = manifest
      /\ Len(us) = manifest
  BY <1>1 DEF Verifies, Loaded
<1>5. Len(us) >= 1
  BY <1>2, <1>4
<1>6. ASSUME NEW set \in Budgets
      PROVE  \A r \in 1 .. Len(us) : Joined(shards[set])[r] = TrueRecord(set, us[r])
  <2>1. Len(Joined(shards[set])) = Len(us)
    BY <1>4 DEF Budgets
  <2>2. SetOk(set, shards[set], us)
    BY <1>3
  <2> QED
    BY <2>1, <2>2, <1>2, <1>5, SetRead
<1>7. "shallow" \in Budgets /\ "deep" \in Budgets
  BY DEF Budgets
<1> QED
  BY <1>1, <1>4, <1>6, <1>7 DEF Loaded

\* Values that are reported proved.
LEMMA ValuesOwn ==
  ASSUME NEW ps, IsList(ps), NEW val, NEW files, ValuesOk(val, TRUE, files, ps)
  PROVE  /\ Len(Joined(val)) = Len(ps) /\ DOMAIN Joined(val) = 1 .. Len(ps)
         /\ \A r \in 1 .. Len(ps) : Joined(val)[r] = TrueValue(ps[r])
<1>1. PICK L \in Nat : L = Len(ps)
  BY OneMore
<1>2. PICK v \in Nat : /\ DOMAIN val = 1 .. v /\ v >= 1 /\ Before(v) < L /\ L <= Before(v) + PerShard
                       /\ \A k \in 1 .. v : val[k] = TrueValues(k, ps)
  BY <1>1 DEF ValuesOk
<1>3. Before(v) \in Nat /\ PerShard \in Nat
  BY <1>2, BeforeNat, SlotsPositive
<1>4. ASSUME NEW k \in 1 .. v
      PROVE  /\ DOMAIN val[k] = 1 .. RowsIn(k, L) /\ Before(k) \in Nat /\ RowsIn(k, L) \in Nat /\ Before(k) + RowsIn(k, L) <= L
             /\ \A i \in 1 .. RowsIn(k, L) : val[k][i] = TrueValue(ps[Before(k) + i])
  <2>1. k \in Nat /\ k >= 1 /\ k <= v
    BY <1>2
  <2>2. Before(k) \in Nat
    BY <2>1, BeforeNat
  <2>3. Before(k) < L
    <3>1. k < v => Before(k) + PerShard <= Before(v)
      BY <2>1, <1>2, BeforeNext
    <3> QED
      BY <2>1, <2>2, <3>1, <1>2, <1>3
  <2>4. RowsIn(k, L) \in Nat /\ Before(k) + RowsIn(k, L) <= L
    BY <2>2, <2>3, <1>1, <1>3 DEF RowsIn, Least
  <2>5. val[k] = [i \in 1 .. RowsIn(k, L) |-> TrueValue(ps[Before(k) + i])]
    BY <1>1, <1>2 DEF TrueValues
  <2> QED
    BY <2>2, <2>4, <2>5
<1>5. \A r : r \in Places(val) <=> r \in 1 .. L
  <2>1. \A r : r \in Places(val) <=> \E k \in 1 .. v : \E i \in 1 .. RowsIn(k, L) : r = Before(k) + i
    <3>1. \A r : r \in Places(val) <=> \E k \in DOMAIN val : \E i \in DOMAIN val[k] : r = (k - 1) * PerShard + i
      BY DEF Places
    <3> QED
      BY <3>1, <1>2, <1>4 DEF Before
  <2>2. ASSUME NEW k \in 1 .. v, NEW i \in 1 .. RowsIn(k, L) PROVE Before(k) + i \in 1 .. L
    BY <1>4
  <2>3. ASSUME NEW r \in 1 .. L PROVE \E k \in 1 .. v : \E i \in 1 .. RowsIn(k, L) : r = Before(k) + i
    <3>1. FileAt(r) \in 1 .. v /\ RowAt(r) \in 1 .. RowsIn(FileAt(r), L) /\ r = Before(FileAt(r)) + RowAt(r)
      BY <1>2, NotAfter
    <3> QED
      BY <3>1
  <2> QED
    BY <2>1, <2>2, <2>3
<1>6. Places(val) = 1 .. L
  BY <1>5
<1>7. DOMAIN Joined(val) = 1 .. L /\ Len(Joined(val)) = L /\ \A r \in 1 .. L : Joined(val)[r] = val[FileAt(r)][RowAt(r)]
  BY <1>6, JoinedAt
<1>8. ASSUME NEW r \in 1 .. L PROVE Joined(val)[r] = TrueValue(ps[r])
  <2>1. PICK k, i : k = FileAt(r) /\ i = RowAt(r)
    OBVIOUS
  <2>2. k \in 1 .. v /\ i \in 1 .. RowsIn(k, L) /\ r = Before(k) + i
    BY <2>1, <1>2, NotAfter
  <2>3. val[k][i] = TrueValue(ps[Before(k) + i])
    BY <2>2, <1>4
  <2> QED
    BY <2>1, <2>2, <2>3, <1>7
<1> QED
  BY <1>1, <1>7, <1>8

\* The sets and the values follow the corpus, so long as nothing was made anew of which they had
\* been made.
THEOREM SetsFollow == Spec => []SetsInv
<1> QED
  BY SetsInit, SetsNext, CorpusFollows, PTL DEF Spec

\* Whatever was killed and resumed, sets that verify accepts pair each position with the targets of its
\* own two searches, and values that are reported proved are those of their own positions, so long as nothing
\* was made anew of which other files had been made (distill-verify.mjs, distill-value-shards.mjs).
THEOREM SetsTell == Spec => []SetsOfOneMaking
<1>1. CorpusInv /\ SetsInv => SetsOfOneMaking
  <2> SUFFICES ASSUME CorpusInv, SetsInv, ~remade PROVE VerifiedSetsPair /\ ValuesAreTheirOwn
    BY DEF SetsOfOneMaking
  <2>1. VerifiedSetsPair
    BY SetsPair DEF VerifiedSetsPair, TrueRecord
  <2>2. ValuesAreTheirOwn
    <3> SUFFICES ASSUME valued PROVE ValuesAreTheirOwn
      BY DEF ValuesAreTheirOwn
    <3>1. ValuesOk(value, TRUE, shards["shallow"], plies)
      BY DEF SetsInv, SetsOk, ValuesOk
    <3>2. /\ Len(Joined(value)) = Len(plies) /\ DOMAIN Joined(value) = 1 .. Len(plies)
          /\ \A r \in 1 .. Len(plies) : Joined(value)[r] = TrueValue(plies[r])
      BY <3>1, CorpusThere, ValuesOwn
    <3> QED
      BY <3>2 DEF ValuesAreTheirOwn, TrueValue
  <2> QED
    BY <2>1, <2>2
<1> QED
  BY <1>1, CorpusFollows, SetsFollow, PTL
=============================================================================
