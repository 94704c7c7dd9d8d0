--------------------------- MODULE StrengthEvaluation ---------------------------
(***************************************************************************)
(* runEvaluation in normal-duel-strength.mjs: the checks before an         *)
(* enforced evaluation, its paired games one after the other, and the      *)
(* gate, which callers may ask again with whatever they hold.              *)
(***************************************************************************)
EXTENDS EvaluationSummary, Functions

CONSTANTS
  Requests,     \* the arguments of runEvaluation
  MinimumPairs, \* MINIMUM_STRENGTH_OPENING_PAIRS
  GameEndings   \* how a game may end for the contender

ASSUME MinimumPairsAssumption == MinimumPairs \in Nat \ {0}
ASSUME RequestsAssumption ==
  \A r \in Requests : r.minimum \in Nat /\ r.book \in Seq(Range(r.book))

VARIABLES
  request,
  stage,       \* "asked", "playing", "played", "rejected" or "broken"
  enforcement, \* the token in hand: "token" or "none"
  games,       \* the results so far
  bound,       \* whether the results are filed under the token
  report       \* the summary last made: <<>> or the one

strengthVars == <<request, stage, enforcement, games, bound, report>>

(* ---- The opening book ---------------------------------------------------- *)

\* replayOpening: the actions are legal, only the last could end the game and it does
\* not, and the position reached is the one the book names.
Replays(opening) == opening.replay = "ongoing"

ValidOpening(opening) ==
  /\ opening.plies \in 4 .. 6
  /\ opening.delta \in -1 .. 1
  /\ Replays(opening)

ValidateOpeningBook(book) ==
  /\ book # <<>>
  /\ \A i \in DOMAIN book : ValidOpening(book[i])
  /\ \A i, j \in DOMAIN book :
       i # j => book[i].id # book[j].id /\ book[i].position # book[j].position

(* ---- Enforcement ---------------------------------------------------------- *)

\* What an enforced evaluation asks besides its numbers: strength mode, the canonical
\* deadline, seed and real clock, an authenticated candidate behind a supported process
\* boundary, the pinned baseline, the verified corpus of the canonical configuration.
Requirements == {"mode", "deadline", "seed", "clock", "candidate", "boundary", "baseline",
                 "corpus", "configuration"}

\* validateEnforcedStrengthOptions, and runEvaluation's refusal of another clock.
Enforceable(r) ==
  /\ r.missing = {}
  /\ r.minimum >= MinimumPairs
  /\ Len(r.book) >= r.minimum
  /\ Len(r.book) = r.generated

Acceptable(r) ==
  /\ r.ids[1] # r.ids[2]
  /\ ValidateOpeningBook(r.book)
  /\ r.enforce => Enforceable(r)

StrengthInit ==
  /\ request \in Requests
  /\ stage = "asked" /\ enforcement = "none" /\ games = <<>> /\ bound = FALSE /\ report = <<>>

Reject ==
  /\ stage = "asked" /\ ~Acceptable(request)
  /\ stage' = "rejected"
  /\ UNCHANGED <<request, enforcement, games, bound, report>>

Accept ==
  /\ stage = "asked" /\ Acceptable(request)
  /\ stage' = "playing"
  /\ enforcement' = IF request.enforce THEN "token" ELSE "none"
  /\ UNCHANGED <<request, games, bound, report>>

(* ---- The games ------------------------------------------------------------ *)

Contender == request.ids[1]
Baseline == request.ids[2]

\* Opening by opening, the contender as A and then as B.
Scheduled(n) == [opening |-> request.book[(n + 1) \div 2], side |-> IF n % 2 = 1 THEN "A" ELSE "B"]

GameReturns ==
  /\ stage = "playing" /\ Len(games) < 2 * Len(request.book)
  /\ \E ending \in GameEndings :
       LET at == Scheduled(Len(games) + 1)
       IN games' = Append(games, Result(at.opening.id, at.side, Contender, Baseline, ending))
  /\ UNCHANGED <<request, stage, enforcement, bound, report>>

\* A game that throws ends the evaluation: nothing is bound and nothing reported.
GameFails ==
  /\ stage = "playing" /\ Len(games) < 2 * Len(request.book)
  /\ stage' = "broken"
  /\ UNCHANGED <<request, enforcement, games, bound, report>>

(* ---- The gate -------------------------------------------------------------- *)

\* The results are the frozen array itself; an equal copy is another array.
EligibleWithToken(own, token) == token = "token"

\* ENFORCEMENT_TOKENS has the token and ENFORCEMENT_RESULT_SETS files this array under it.
Eligible(own, token) == token = "token" /\ own /\ bound

Report ==
  /\ stage = "playing" /\ Len(games) = 2 * Len(request.book)
  /\ stage' = "played"
  /\ bound' = (enforcement = "token")
  /\ report' = IF ~ProperlyPaired(games) THEN <<>>
               ELSE <<SummarizeEvaluation(games, Contender, Baseline, request.minimum,
                                          enforcement = "token" /\ bound')>>
  /\ UNCHANGED <<request, enforcement, games>>

\* The results with every game the contender did not win turned into a win.
Improved(results) ==
  [i \in DOMAIN results |->
     [results[i] EXCEPT !.winner = results[i].contenderSide, !.failed = "none"]]

\* summarizeEvaluation is exported: a caller may ask it about the results or a copy of
\* them that it has changed, with the token it was given or without, for another minimum,
\* and with the roles of the engines swapped.
SummarizeAgain ==
  /\ stage = "played"
  /\ \E own, swapped \in BOOLEAN, token \in {"none", enforcement}, minimum \in {1, request.minimum} :
       LET results == IF own THEN games ELSE Improved(games)
           ids == IF swapped THEN <<Baseline, Contender>> ELSE <<Contender, Baseline>>
       IN report' = <<SummarizeEvaluation(results, ids[1], ids[2], minimum, Eligible(own, token))>>
  /\ UNCHANGED <<request, stage, enforcement, games, bound>>

StrengthNext == Reject \/ Accept \/ GameReturns \/ GameFails \/ Report \/ SummarizeAgain

StrengthSpec == StrengthInit /\ [][StrengthNext]_strengthVars

(* ---- Properties ------------------------------------------------------------ *)

\* A gate that passes says so of games that were played: all of an evaluation that met
\* every requirement of an enforced one, over at least the required pairs whatever minimum
\* the summary was asked for, two thirds of them won by the engine it names and more won
\* than lost.  No copy of the results, and no other evaluation's token, passes.
PassMeansPlayed ==
  \A r \in Range(report) :
    r.passed =>
      LET rival == IF r.contender = Contender THEN Baseline ELSE Contender
          won(id) == Cardinality({i \in DOMAIN games : WonBy(games[i], id)})
      IN /\ stage = "played" /\ request.enforce /\ request.missing = {}
         /\ Len(games) = 2 * Len(request.book)
         /\ Len(request.book) >= MinimumPairs /\ Len(request.book) = request.generated
         /\ 100 * won(r.contender) >= 66 * Len(games)
         /\ won(r.contender) > won(rival)

=============================================================================
