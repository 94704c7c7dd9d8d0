---------------------------- MODULE CheckpointGames ----------------------------
(***************************************************************************)
(* playGames in normal-duel-checkpoints.mjs: workers take the games of an  *)
(* evaluation from a shared counter, several in flight at once.            *)
(*                                                                         *)
(* A worker runs from the settlement of one game to the start of its next  *)
(* without awaiting, so settling a game and taking the next is one step.   *)
(***************************************************************************)
EXTENDS Naturals

CONSTANTS
  Games,       \* the length of the job list
  Values,      \* what runMatch may return
  Concurrency  \* the number of workers, at least one and no more than the games

ASSUME GamesAssumption == Games \in Nat \ {0}
ASSUME ConcurrencyAssumption == Concurrency \in 1 .. Games
ASSUME ValuesAssumption == "throws" \notin Values /\ "none" \notin Values

Jobs == 1 .. Games
Workers == 1 .. Concurrency
Done == 0

VARIABLES
  fate,     \* how each job's game ends (SequentialGames)
  next,     \* the next job to take
  playing,  \* per worker: the job in flight, or Done
  results,  \* per job: the value that came back, or "none"
  failures, \* the jobs whose runMatch threw
  verdict

queueVars == <<fate, next, playing, results, failures, verdict>>

Sequential == INSTANCE SequentialGames
              WITH Games <- Games, Values <- Values, fate <- fate, verdict <- verdict

\* Array.from starts the workers in turn; each takes a job before the next starts.
QueueInit ==
  /\ fate \in Sequential!Fates
  /\ next = Concurrency + 1
  /\ playing = [w \in Workers |-> w]
  /\ results = [j \in Jobs |-> "none"]
  /\ failures = {}
  /\ verdict = Sequential!Pending

TakeNext(w) ==
  /\ next' = next + 1
  /\ playing' = [playing EXCEPT ![w] = IF next <= Games THEN next ELSE Done]

\* The lowest index that holds no result yet.
CompletionSlot ==
  CHOOSE j \in Jobs : results[j] = "none" /\ \A i \in Jobs : i < j => results[i] # "none"

GameEndsInCompletionOrder(w) ==
  /\ playing[w] # Done
  /\ fate[playing[w]] # "throws"
  /\ results' = [results EXCEPT ![CompletionSlot] = fate[playing[w]]]
  /\ TakeNext(w)
  /\ UNCHANGED <<fate, failures, verdict>>

\* A game returns: its result goes to the job's own index.
GameEnds(w) ==
  /\ playing[w] # Done
  /\ fate[playing[w]] # "throws"
  /\ results' = [results EXCEPT ![playing[w]] = fate[playing[w]]]
  /\ TakeNext(w)
  /\ UNCHANGED <<fate, failures, verdict>>

\* A game throws: the worker records it and stops taking jobs.
GameThrows(w) ==
  /\ playing[w] # Done
  /\ fate[playing[w]] = "throws"
  /\ failures' = failures \cup {playing[w]}
  /\ playing' = [playing EXCEPT ![w] = Done]
  /\ UNCHANGED <<fate, next, results, verdict>>

AllSettled == \A w \in Workers : playing[w] = Done

\* Promise.all has seen every worker settle: the lowest failed index is thrown, else the
\* results are returned in job order.
Conclude ==
  /\ verdict = Sequential!Pending
  /\ AllSettled
  /\ verdict' =
       IF failures # {}
       THEN Sequential!Threw(CHOOSE j \in Jobs :
              j \in failures /\ \A i \in Jobs : i < j => i \notin failures)
       ELSE Sequential!Returned(results)
  /\ UNCHANGED <<fate, next, playing, results, failures>>

QueueNext == Conclude \/ \E w \in Workers : GameEnds(w) \/ GameThrows(w)

\* Every game comes to an end: settleDecision's wall timer bounds each decision.
QueueSpec == QueueInit /\ [][QueueNext]_queueVars /\ WF_queueVars(QueueNext)

(* ---- Properties ---------------------------------------------------------- *)

\* Type correctness.
QueueTypeOK ==
  /\ fate \in Sequential!Fates
  /\ next \in Nat
  /\ playing \in [Workers -> Jobs \cup {Done}]
  /\ results \in [Jobs -> Values \cup {"none"}]
  /\ failures \subseteq Jobs

\* Concurrency changes the order games execute in and nothing else (401-408): the
\* evaluation ends with the sequential loop's results in job order, or with the error
\* the sequential loop would have thrown, although a later game may have failed first
\* and a failed worker leaves its share of the games to the others.
ConcurrencyIsInvisible == Sequential!Spec
=============================================================================
