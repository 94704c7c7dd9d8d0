----------------------------- MODULE MCPlayServer -----------------------------
(***************************************************************************)
(* The play server and its page: served moves, the games of the /dev board *)
(* and the store of results share a process and no state, and the page     *)
(* sees of them whether they answer, so that one behaviour is a behaviour  *)
(* of one of the four while the others rest.                               *)
(***************************************************************************)
EXTENDS BestMove, DevGames, PlayStore, PlayPage

CONSTANTS Parts, open, fenced

MCKeys == {open, fenced}
MCWalls == [key \in MCKeys |-> IF key = open THEN 0 ELSE 1]
MCLegal == [key \in MCKeys |-> 3]
MCLevel == {fenced}
MCRefused == {<<1, 1>>, <<2, 2>>}

VARIABLE part

ServerInit ==
  /\ part \in Parts /\ MoveInit /\ Init /\ StoreInit /\ PageInit
  /\ part # "moves" => healthy /\ batched
  /\ part # "page" => reachable /\ opponentId = (CHOOSE o \in Opponents : TRUE) /\ page.human = "A"

MovesRest == UNCHANGED moveVars
GamesRest == UNCHANGED vars
StoreRests == UNCHANGED storeVars
PageRests == UNCHANGED pageVars

ServerNext ==
  /\ UNCHANGED part
  /\ \/ part = "moves" /\ MoveNext /\ GamesRest /\ StoreRests /\ PageRests
     \/ part = "games" /\ Next /\ MovesRest /\ StoreRests /\ PageRests
     \/ part = "store" /\ StoreNext /\ MovesRest /\ GamesRest /\ PageRests
     \/ part = "page" /\ PageNext /\ MovesRest /\ GamesRest /\ StoreRests

\* PageFairness, of the behaviours in which the page moves.
ServerFairness ==
  /\ WF_pageVars(part = "page" /\ RequestSettles) /\ WF_pageVars(part = "page" /\ BackoffEnds)
  /\ WF_pageVars(part = "page" /\ Recover) /\ WF_pageVars(part = "page" /\ Resume)

ServerSpec ==
  ServerInit /\ [][ServerNext]_<<part, moveVars, vars, storeVars, pageVars>> /\ ServerFairness
=============================================================================
