-------------------------------- MODULE DevGames --------------------------------
(***************************************************************************)
(* The games play-server.mjs keeps for the /dev board: /api/new and        *)
(* /api/move, each of which waits for the search in the middle of a turn.  *)
(* A position is abstracted to its ply, which no two positions of one game *)
(* share.                                                                  *)
(***************************************************************************)
EXTENDS SequencesExt, Naturals

CONSTANTS
  Requests,  \* requests that may be in progress at once
  MAX_GAMES, \* games the server keeps
  LastId,    \* bound: games created in all
  LastPly    \* bound: the ply by which every game has ended

ASSUME BoundsAssumption == MAX_GAMES \in Nat \ {0} /\ LastId \in Nat \ {0} /\ LastPly \in Nat \ {0}

Ids == 1 .. LastId
Players == {"A", "B"}

VARIABLES
  nextId,
  kept,    \* the ids in the Map games, oldest first
  games,   \* every game ever created, which a request in progress still holds
  pending  \* per request: the game and the ply aiMove was called for, or Nothing

vars == <<nextId, kept, games, pending>>

Nothing == [id |-> 0, ply |-> 0]

Turn(ply) == IF ply % 2 = 0 THEN "A" ELSE "B"
MachineToMove(g) == ~g.over /\ Turn(g.ply) # g.humanSide

Init ==
  /\ nextId = 1
  /\ kept = <<>>
  /\ games = [id \in Ids |-> [humanSide |-> "A", ply |-> 0, over |-> FALSE]]
  /\ pending = [r \in Requests |-> Nothing]

\* applyAction on the state the game object holds now.
Played(id, over) ==
  games' = [games EXCEPT ![id] =
    [humanSide |-> games[id].humanSide, ply |-> games[id].ply + 1, over |-> over]]

Outcomes(id) == IF games[id].ply + 1 >= LastPly THEN {TRUE} ELSE BOOLEAN

AwaitMachine(r, id, ply) == pending' = [pending EXCEPT ![r] = [id |-> id, ply |-> ply]]

Trimmed(ids) == IF Len(ids) > MAX_GAMES THEN Tail(ids) ELSE ids

\* /api/new; the machine opens when the human plays B.
New(r, side) ==
  /\ pending[r] = Nothing
  /\ nextId <= LastId
  /\ nextId' = nextId + 1
  /\ kept' = Trimmed(Append(kept, nextId))
  /\ games' = [games EXCEPT ![nextId] = [humanSide |-> side, ply |-> 0, over |-> FALSE]]
  /\ IF side = "B" THEN AwaitMachine(r, nextId, 0) ELSE UNCHANGED pending

\* /api/move; an unknown, finished or waiting game refuses it and nothing changes.
MoveOutOfTurn(r, id, over) ==
  /\ pending[r] = Nothing
  /\ Contains(kept, id)
  /\ ~games[id].over
  /\ Played(id, over)
  /\ IF over THEN UNCHANGED pending ELSE AwaitMachine(r, id, games[id].ply + 1)
  /\ UNCHANGED <<nextId, kept>>
Move(r, id, over) ==
  /\ pending[r] = Nothing
  /\ Contains(kept, id)
  /\ ~games[id].over
  /\ Turn(games[id].ply) = games[id].humanSide
  /\ Played(id, over)
  /\ IF over THEN UNCHANGED pending ELSE AwaitMachine(r, id, games[id].ply + 1)
  /\ UNCHANGED <<nextId, kept>>

\* aiMove answers: its action is applied to the state the game holds by then.
MachineMoves(r, over) ==
  /\ pending[r] # Nothing
  /\ Played(pending[r].id, over)
  /\ pending' = [pending EXCEPT ![r] = Nothing]
  /\ UNCHANGED <<nextId, kept>>

\* aiMove throws: the request ends with a 500, and the game is left as it is.
MachineFails(r) ==
  /\ pending[r] # Nothing
  /\ pending' = [pending EXCEPT ![r] = Nothing]
  /\ UNCHANGED <<nextId, kept, games>>

Answers(r) ==
  /\ pending[r] # Nothing
  /\ \E over \in Outcomes(pending[r].id) : MachineMoves(r, over)

Moves(r) == \E id \in Ids : \E over \in Outcomes(id) : Move(r, id, over)

Next ==
  \E r \in Requests : Moves(r) \/ Answers(r) \/ MachineFails(r) \/ \E side \in Players : New(r, side)

Spec == Init /\ [][Next]_vars

-----------------------------------------------------------------------------
(* Properties.                                                             *)

\* The shape of the server's games: ids are handed out in order and the newest
\* MAX_GAMES are kept (freshGame).
TypeOK ==
  /\ nextId \in 1 .. LastId + 1
  /\ games \in [Ids -> [humanSide : Players, ply : Nat, over : BOOLEAN]]
  /\ pending \in [Requests -> [id : Ids, ply : Nat] \union {Nothing}]
  /\ kept \in Seq(Ids)
  /\ \A i \in 1 .. Len(kept) : kept[i] < nextId
  /\ \A r \in Requests : pending[r].id < nextId

\* A move chosen for one position is never played in another: while aiMove is out,
\* its game stays where it was, with the machine to move, and no other request has
\* asked for the same game (g.state is read before the await and written after it).
AnswersApplyToTheirPosition ==
  \A r \in Requests : pending[r] # Nothing =>
    /\ games[pending[r].id].ply = pending[r].ply
    /\ MachineToMove(games[pending[r].id])
    /\ \A s \in Requests : pending[s].id = pending[r].id => s = r
=============================================================================
