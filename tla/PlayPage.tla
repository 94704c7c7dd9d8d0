-------------------------------- MODULE PlayPage --------------------------------
(***************************************************************************)
(* play.html: a game in the browser, the loop that asks the server for the *)
(* network's move and asks again, the ways back into a turn that nothing   *)
(* drives, the copy in localStorage that a reload starts from, the choice  *)
(* of an opponent, and the report of the result.                           *)
(*                                                                         *)
(* A position is a game and its ply; a history is the moves pushed, each   *)
(* with who chose it and for which position.  The roster of opponents has  *)
(* arrived.  No answer of the server has a 4xx status: its only one is for *)
(* a board that this page never asks about.  The guard refuses a position  *)
(* with a 500, and again at every retry: the seed depends on the ply only, *)
(* so that the same tree is rebuilt.                                       *)
(***************************************************************************)
EXTENDS Naturals, Sequences, SequencesExt

CONSTANTS
  Opponents,
  ATTEMPTS,        \* requests of one askNetwork
  SwitchWhileBusy, \* whether an opponent is chosen while a request is out
  Refused,         \* positions whose search the server's guard refuses, on a healthy network too
  MaxPlies,        \* bound: the ply by which every game has ended
  MaxStarted,      \* bound: games started
  MaxReloads       \* bound: reloads of the page

ASSUME PageAssumption ==
  {ATTEMPTS, MaxPlies, MaxStarted} \subseteq Nat \ {0} /\ MaxReloads \in Nat /\ SwitchWhileBusy \in BOOLEAN
  /\ Refused \subseteq Nat \X Nat

VARIABLES
  opponentId,
  page,      \* the game on the board: state, history and the flags beside them
  asking,    \* the askNetwork under way; busy is that there is one
  stored,    \* qz_game in localStorage
  me,        \* /api/me has named the player
  sent,      \* results posted and not answered
  standings, \* rows /api/result has recorded
  reachable, \* the server and its networks answer from now on
  reloads,
  bound      \* history: the opponent each game started against

pageVars == <<opponentId, page, asking, stored, me, sent, standings, reachable, reloads, bound>>

Sides == {"A", "B"}

NewBoard(id, side) ==
  [id |-> id, human |-> side, moves |-> <<>>, ply |-> 0, outcome |-> "ongoing",
   forfeited |-> FALSE, armed |-> FALSE, recorded |-> FALSE, stalled |-> FALSE]

ToMove(g) == IF g.ply % 2 = 0 THEN "A" ELSE "B"
Over(g) == g.forfeited \/ g.outcome # "ongoing"
NetworkToMove(g) == ~Over(g) /\ ToMove(g) # g.human
Place(g) == <<g.id, g.ply>>

\* Every entry of the history was applied, so that it replays.
Replays(g) == Len(g.moves) = g.ply

-----------------------------------------------------------------------------
(* record and draw.                                                        *)

\* record: the entry is pushed before the rules are asked.  They accept what was chosen
\* for this position, and may accept or refuse what was chosen for another.
Accepted(g, move) ==
  {[g EXCEPT !.moves = Append(@, move), !.ply = @ + 1, !.outcome = o] :
     o \in {"draw", ToMove(g)} \union IF g.ply + 1 < MaxPlies THEN {"ongoing"} ELSE {}}
Rejected(g, move) ==
  IF move.at = Place(g) THEN {} ELSE {[g EXCEPT !.moves = Append(@, move)]}

ResultOf(g) ==
  CASE g.forfeited -> "forfeit"
    [] g.outcome = "draw" -> "draw"
    [] g.outcome = g.human -> "win"
    [] OTHER -> "loss"

Report(g) == [game |-> g.id, result |-> ResultOf(g), against |-> opponentId]

\* saveGame: of a game that is over nothing is ever restored.
Saved(g) == IF Over(g) THEN <<>> ELSE <<g>>

\* draw reports a game that is over, once, and saves.
Draw(g) ==
  LET reporting == Over(g) /\ ~g.recorded /\ me
  IN /\ page' = [g EXCEPT !.recorded = @ \/ reporting, !.armed = @ /\ ~Over(g)]
     /\ sent' = IF reporting THEN sent \union {Report(g)} ELSE sent
     /\ stored' = Saved(g)

-----------------------------------------------------------------------------
(* askNetwork.                                                             *)

Resting == [stage |-> "resting"]

\* requestMove: the position, the history and the opponent as they are at this moment.
Request(g, opponent, i) ==
  [stage |-> "out", attempt |-> i, at |-> Place(g), of |-> opponent, replays |-> Replays(g)]

AskNetwork(g) ==
  /\ asking' = Request(g, opponentId, 1)
  /\ Draw([g EXCEPT !.stalled = FALSE])

\* The last attempt failed: the turn is the network's and nothing drives it.
GiveUpSilently(g) ==
  /\ asking' = Resting
  /\ Draw(g)

GiveUp(g) ==
  /\ asking' = Resting
  /\ Draw([g EXCEPT !.stalled = TRUE])

Retry(g) ==
  IF asking.attempt = ATTEMPTS
  THEN GiveUp(g)
  ELSE /\ asking' = [stage |-> "backoff", attempt |-> asking.attempt]
       /\ page' = g
       /\ UNCHANGED <<sent, stored>>

\* The move that comes back is played in whatever game is on the board; one that the
\* rules refuse there throws like a request that failed.
AnswerArrives ==
  /\ asking.stage = "out" /\ asking.replays /\ asking.at \notin Refused
  /\ LET move == [by |-> asking.of, at |-> asking.at]
     IN \E g \in Accepted(page, move) \union Rejected(page, move) :
          IF Replays(g) THEN asking' = Resting /\ Draw(g) ELSE Retry(g)
  /\ UNCHANGED <<opponentId, me, standings, reachable, reloads, bound>>

\* No connection, a 5xx, the timer's abort; or a 500 for a history that does not replay or
\* a position that the guard refuses.
RequestFails ==
  /\ asking.stage = "out"
  /\ ~reachable \/ ~asking.replays \/ asking.at \in Refused
  /\ Retry(page)
  /\ UNCHANGED <<opponentId, me, standings, reachable, reloads, bound>>

BackoffEnds ==
  /\ asking.stage = "backoff"
  /\ asking' = Request(page, opponentId, asking.attempt + 1)
  /\ UNCHANGED <<opponentId, page, stored, me, sent, standings, reachable, reloads, bound>>

\* The resume button, or the tab coming into view.
Resume ==
  /\ asking = Resting /\ page.stalled /\ ~Over(page)
  /\ AskNetwork(page)
  /\ UNCHANGED <<opponentId, me, standings, reachable, reloads, bound>>

-----------------------------------------------------------------------------
(* The player.                                                             *)

\* newGame: askNetwork returns at once when an earlier one is under way.
Begin(busy) ==
  /\ page.id < MaxStarted
  /\ bound' = Append(bound, opponentId')
  /\ \E side \in Sides :
       LET g == NewBoard(page.id + 1, side)
       IN /\ asking' = IF NetworkToMove(g) /\ busy = Resting THEN Request(g, opponentId', 1) ELSE busy
          /\ page' = g /\ stored' = Saved(g)

NewGame == Begin(asking) /\ UNCHANGED <<me, sent, standings, reachable, reloads>>

Play ==
  /\ asking = Resting /\ ~Over(page) /\ ToMove(page) = page.human
  /\ \E g \in Accepted([page EXCEPT !.armed = FALSE], [by |-> "player", at |-> Place(page)]) :
       IF Over(g) THEN Draw(g) /\ UNCHANGED asking ELSE AskNetwork(g)
  /\ UNCHANGED <<opponentId, me, standings, reachable, reloads, bound>>

\* The one button: forfeit at the second click, or another game.
Forfeit ==
  /\ ~Over(page) /\ asking = Resting
  /\ Draw(IF page.armed THEN [page EXCEPT !.forfeited = TRUE] ELSE [page EXCEPT !.armed = TRUE])
  /\ UNCHANGED <<opponentId, asking, me, standings, reachable, reloads, bound>>

AnotherGame ==
  /\ Over(page)
  /\ UNCHANGED opponentId
  /\ NewGame

SwitchMidGame(opponent) ==
  /\ opponent # opponentId
  /\ SwitchWhileBusy \/ asking = Resting
  /\ opponentId' = opponent
  /\ UNCHANGED <<page, asking, stored, me, sent, standings, reachable, reloads, bound>>

\* Another opponent is another game.
Switch(opponent) ==
  /\ opponent # opponentId
  /\ SwitchWhileBusy \/ asking = Resting
  /\ opponentId' = opponent
  /\ NewGame

\* restoreGame, and newGame when there is nothing to restore or it does not replay.  Of
\* the results that were posted some may have been recorded.
Reload ==
  /\ reloads < MaxReloads
  /\ reloads' = reloads + 1
  /\ me' = FALSE /\ sent' = {} /\ UNCHANGED <<opponentId, reachable>>
  /\ \E landed \in SUBSET sent : standings' = standings \o SetToSeq(landed)
  /\ IF \E i \in DOMAIN stored : Replays(stored[i])
     THEN LET g == [stored[1] EXCEPT !.armed = FALSE, !.recorded = FALSE, !.stalled = FALSE]
          IN /\ asking' = IF NetworkToMove(g) THEN Request(g, opponentId, 1) ELSE Resting
             /\ page' = g /\ UNCHANGED <<stored, bound>>
     ELSE Begin(Resting)

-----------------------------------------------------------------------------
(* The server.                                                             *)

MeArrives ==
  /\ ~me
  /\ me' = TRUE
  /\ UNCHANGED <<opponentId, page, asking, stored, sent, standings, reachable, reloads, bound>>

\* reportResult goes on: what was not answered with a 200 is not recorded as far as the
\* page knows, whichever game it shows by now.
ReportAnswered(row) ==
  /\ sent' = sent \ {row}
  /\ \/ standings' = Append(standings, row) /\ UNCHANGED page
     \/ /\ standings' \in {standings, Append(standings, row)}
        /\ page' = [page EXCEPT !.recorded = FALSE]
  /\ UNCHANGED <<opponentId, asking, stored, me, reachable, reloads, bound>>

Recover ==
  /\ ~reachable
  /\ reachable' = TRUE
  /\ UNCHANGED <<opponentId, page, asking, stored, me, sent, standings, reloads, bound>>

PageInit ==
  /\ opponentId \in Opponents
  /\ \E side \in Sides : page = NewBoard(1, side)
  /\ asking = IF NetworkToMove(page) THEN Request(page, opponentId, 1) ELSE Resting
  /\ stored = Saved(page)
  /\ me = FALSE /\ sent = {} /\ standings = <<>>
  /\ reachable \in BOOLEAN
  /\ reloads = 0
  /\ bound = <<opponentId>>

RequestSettles == AnswerArrives \/ RequestFails

PageNext ==
  \/ RequestSettles \/ BackoffEnds \/ Resume
  \/ Play \/ Forfeit \/ AnotherGame \/ (\E o \in Opponents : Switch(o)) \/ Reload
  \/ MeArrives \/ (\E row \in sent : ReportAnswered(row)) \/ Recover

\* Requests are answered, fail or are aborted by their timer; backoffs are timers; what
\* is down comes back; and a player who is shown the resume button presses it.
PageFairness ==
  /\ WF_pageVars(RequestSettles) /\ WF_pageVars(BackoffEnds)
  /\ WF_pageVars(Recover) /\ WF_pageVars(Resume)

PageSpec == PageInit /\ [][PageNext]_pageVars /\ PageFairness

-----------------------------------------------------------------------------
(* Properties.                                                             *)

\* Each side's moves were chosen by the player or by the opponent the game started
\* against, for the position they were played in.
MovesAreTheSides ==
  \A i \in DOMAIN page.moves :
    LET side == IF i % 2 = 1 THEN "A" ELSE "B"
    IN page.moves[i] = [by |-> IF side = page.human THEN "player" ELSE bound[page.id],
                        at |-> <<page.id, i - 1>>]

\* A result is what became of its game, recorded once and against that opponent.
ResultsAreTrue ==
  /\ \A row \in sent \union {standings[i] : i \in DOMAIN standings} :
       /\ row.against = bound[row.game]
       /\ row.game = page.id => Over(page) /\ row.result = ResultOf(page)
  /\ \A i, j \in DOMAIN standings : standings[i].game = standings[j].game => i = j

\* "A game is bound to the opponent it started against" (the comment in the handler of
\* the opponent control), its moves and its result: "Report once per game", and "a result
\* recorded against the wrong checkpoint is worse than one not recorded at all".
GameIsOneMatch == MovesAreTheSides /\ ResultsAreTrue

AwaitsNetwork == NetworkToMove(page) /\ Place(page) \notin Refused

\* However requests fail, are retried and given up, and whenever the page is reloaded, a
\* turn of the network ends: it is answered, or the game is over or left ("Without this a
\* single dropped request froze the game permanently", the comment on stalled).  A turn in
\* a position that the guard refuses need not end; but the player is given the board back,
\* with the resume button and the forfeit.
EveryTurnIsAnswered ==
  /\ AwaitsNetwork ~> ~AwaitsNetwork
  /\ NetworkToMove(page) ~> ~NetworkToMove(page) \/ (asking = Resting /\ page.stalled)
=============================================================================
