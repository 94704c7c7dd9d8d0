----------------------------- MODULE MCNormalDuel -----------------------------
(* The rules with the whole game remembered beside them, to compare the        *)
(* repetition window with what it stands for.                                  *)
EXTENDS NormalDuelRules, Sequences

VARIABLE game   \* every position of the game so far

gameVars == <<vars, game>>

GameInit == Init /\ game = <<InitialPosition>>
GameNext == Next /\ game' = Append(game, Position')
GameSpec == GameInit /\ [][GameNext]_gameVars

Occurrences(pos) == Cardinality({i \in DOMAIN game : game[i] = pos})

\* The outcome is the one the contract gives the whole game: a goal reached by the
\* last mover, else a third occurrence of the position, else the cap.
OutcomeOfWholeGame ==
  /\ outcome.kind = "win" <=> \E p \in Players : AtGoal(pawns, p)
  /\ outcome.reason = "threefold_repetition" <=>
       /\ Occurrences(Position) >= RepetitionThreshold
       /\ \A p \in Players : ~AtGoal(pawns, p)
  /\ \A i \in 1 .. Len(game) - 1 : Occurrences(game[i]) < RepetitionThreshold \/ game[i] = Position
=============================================================================
