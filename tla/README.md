# Verification of WrongWay

WrongWay is a wall-building race game in two forms: a casual web application, and
`normal-duel-v1`, a frozen ruleset with an engine, searches, neural networks, a harness
that measures the strength of engines, a pipeline that trains and compares networks, and a
site on which people play them. This directory holds TLA+ models of the parts of it in
which order, failure, interleaving or long sequences of legal calls decide what is right,
the TLC configurations that check them on small instances, and proofs, checked by TLAPS,
of what holds for every instance.

`PROJECT.json` maps every definition to the lines it models, names the mutation of the
code that each property catches, and lists the hazards and the findings at their lines.

    tlc -workers 2 -config MCSubprocessHost.cfg SubprocessHost.tla
    tlapm SubprocessHost_proofs.tla

## Inventory

### The evaluation harness (`scripts/evaluation/`, `js/normal-duel-checkpoints.mjs`)

*Engine subprocess host* - `startSubprocess` in `worker-engine-proxy.mjs`. It keeps a map of
pending requests, a ready promise, an exit record, a disconnect timer and one terminate
promise. Its operations are `rpc`, `ready` and `terminate`; its callbacks are the message,
error, disconnect and exit events of the child, the callback of a send, and its timers. The
child is untrusted code in another process: it may hang, die, exceed its memory or send
anything. What makes it correct: every call settles, with the answer to that very call or
an error; whatever is wrong stops the child; nothing is left waiting when the child is gone.

*Engine subprocess child* - `worker-engine-runtime.mjs`. It checks the release it was told to
run against its manifest, imports the entry, normalises the descriptor, makes one session
and answers requests one at a time. Of what the engine returns only small exact records may
leave the process. Correct means: the bytes that were admitted run or none do, and an answer
is the engine's action and nothing else of the engine's.

*Candidate artifacts and admission* - `candidate-artifact-manifest.mjs` and
`createWorkerEngineAdapter`. An adapter is a frozen object that anyone may copy; what makes it
genuine is what module-private WeakMaps hold of it. Files may change between its making, the
start of a session and the import. Correct means: no copy and no other release is admitted.

*Recycled sessions* - `recycledNormalDuelWasmSession`, in the proxy. A session starts a new
subprocess for every decision and reaps it before the answer counts. It keeps `closed`,
`activeOperation` and `nextSelection`; all sessions of an adapter share one recorder of
audit records. Callers may close a session, or ask for a second decision, at any await.
Correct means: nothing is accepted from a child that may be alive, children do not
overlap, the audit trail is true, `close()` returns, and returns only in quiet.

*Strength match* - `runMatch` in `normal-duel-strength.mjs` plays one game between two
sessions: create both, then decide, validate, apply and show the move to both until the
game ends or somebody fails, then close both. Its state is the game, the telemetry of each
side, and, in each session, setup and observation time that is charged to that session's
next move. Correct means: no time is lost or charged twice, no move is bought with time
its player did not have, both sessions saw the same game, and the offender alone loses.

*Strength evaluation and its gate* - `runEvaluation` and `summarizeEvaluation`, same file: the
preflight of an enforced evaluation, every opening once with either colour, a summary, and a
gate that only the very results of an enforced evaluation may pass. Tokens and result arrays
are kept in WeakMaps; the summary is exported and may be asked for again with anything.

*Checkpoint evaluation and promotion* - `normal-duel-checkpoints.mjs`: a node budget for both
engines, a list of games on several workers (`playGames`), a summary, and the promotion of a
checkpoint by its own summary or by one another process reports. Correct means that
concurrency cannot be seen in what it returns or throws, and that a promotion was earned.

*Pinned Hard baseline* - `hard-baseline-46a871c7.mjs`: the casual game's hard bot as an engine;
it knows only one side, so the board is turned for the other and its answer turned back.

### The rules and their callers (`js/normal-duel-*.mjs`, `js/ai.js`, `js/game-logic.js`)

*Rules* (`normal-duel-engine.mjs`) - pure functions over a record of the game:
`createInitialState`, `legalActions`, `applyAction`, `applyLegalAction`, action codes, position
keys, `validateState`. The record carries a window of repetition counts that restarts at each
wall. The engine keeps nothing between calls and validates the record at each of them.
Correct means: every record it produces passes its own validation, its two entry points
agree, the window is worth the whole game, a player is never stuck or walled in, and every
game ends as the rules say.

*Encoding and its inverse* (`normal-duel-nn-encoding.mjs`, `scripts/feature-inversion.mjs` and
the audits beside it) - planes of a state; the position read back out of them; a history
invented for a record that has none, and the one a newer record carries. Correct means: what
planes and mask say is exactly inverted, and what they cannot say is refused by name.

*Callers* - the leaf counter (`normal-duel-perft.mjs`), the distance evaluator of the self-play
loop (`normal-duel-gumbel-search.mjs`), the bridge of the older client
(`normal-duel-consumer.mjs`), which asks about a board without a state, and the generator of
balanced openings (`generate-normal-duel-balanced-openings.mjs`), with a search of its own.
Correct means: four searches for the same distance agree, and counts are exact or refused.

*Casual game and its bots* (`js/game-logic.js`, `js/ai.js`) - the older client's own board code,
three bots of a duel and their anti-stall rule, and the walls and items that special modes
drop. The page applies an answer, and a drop, without asking the rules. Correct means: they are
what the rules would accept.

*Tree search and self-play games* (`normal-duel-puct-search.mjs`, `normal-duel-gumbel-search.mjs`)
- a tree, root candidates that are halved until one is left, a budget of simulations, and the
training records of the games so played. Correct means: visits and values in the tree are
those of the simulations run, the budget is spent to the last, and records tell the game.

### Training and comparing networks (`scripts/distill-*.mjs`)

*Distillation* - `collect` plays games and writes positions to three files, `relabel` searches
them again at a deep budget and can be resumed, `shards` and `value-shards` write training
sets, `verify` reads them back; searches of many slots share batches. Correct means: each
target, value and result stands beside its own position, whatever died and was run again.

*Matches between networks and their ledger* (`distill-compare.mjs`) - games in lock-step slots,
one request per network and step, and a ledger of anchors that gates which two networks may be
compared. Correct means: no network's answers steer the other's search, and no comparison is
run on an arm that collapsed.

### The play site (`scripts/play-server.mjs`, `play-store.mjs`, `net-guard.mjs`, `play.html`)

*Served moves* - every `/api/bestmove` search asks a cache before it asks the inference server,
in batches, with an await in the middle; a guard judges what the network contributed. The
state is a map of generations to maps of features to records. Correct means: what a search is
fed is what its network says of that position, and every served move is the network's.

*Games of the /dev board* - `/api/new` and `/api/move` keep games on the server, read a
game before the search and write it afterwards, and drop the oldest above a limit. Correct
means: an answer is played in the position it was asked about.

*Persistence and identity* - two append-only files and an index in memory that is rebuilt at
boot; names first come, three ways to sign in, tokens. Correct means: what was acknowledged
stays.

*Play page* - a game in the browser, a loop that asks for the network's move up to four times,
ways back into a turn that nothing drives, a copy in localStorage, a choice of opponents and
one report of the result. Correct means: a game is one match, and no turn freezes.

### The engine in Rust, and what surrounds it

*Native tree search and self-play* (`puct.rs`, `selfplay.rs`, `normal-duel-wasm`) - the same
search behind a leaf protocol, one at a time or in batches. *Classical search* (`search/`) -
alpha-beta with a transposition table. *Endgame solver* (`endgame.rs`). *Rules in Rust*
(`lib.rs`). *Application* (`index.html`, `sw.js`) - the casual game in React, with a WebSocket
client to a server that is not in the repository. *Networks* (`normal-duel-nn-*.mjs`),
*benchmarks and fixtures*, *texts and sounds*.

### How they interact

`runEvaluation` and `playGames` run games; a game calls two sessions; a session is a
subprocess kept for the game, a recycled session that starts one for each decision, or an
engine of the same process. Host and child speak over one channel: requests with ids one
way, `ready`, `fatal` and responses the other. All engines, bots and pages play the rules of
`normal-duel-engine.mjs`. Collect, relabel and compare put the leaves of many searches into
one batch and hand the rows back by number. The play server runs a tree search for each
request, shares the cache among requests, and keeps identities and results in the store; the
page replays the same rules and sees of the server whether it answers.

### What is hard

Node's event loop makes each callback atomic and each `await` a place where anything may
happen: a child's exit between an answer and its teardown, a second request between the
question and the answer of a search, a new game on the board while the old one's answer is
out, a timer that races the event it guards. Children die and hang, writes fail half-way,
programs and servers restart, the network is unwell and recovers. Rows are matched by
position with what asked for them while slots finish and refill. The rules are sequential;
there the difficulty is that long sequences of legal calls must keep producing records their
own validator accepts, and that half a dozen modules answer the same question about a board
by different means. `PROJECT.json` lists each hazard.

## Modules

| module | models | state | actions |
|---|---|---|---|
| `SubprocessHost` | `startSubprocess` and the child's protocol | the child process, both pipes, the pending map, promises, timers, the calls | one per callback of the host (`OnMessage`, `OnExit`, `RpcTimesOut`...), one per continuation (`CallRpc`, `SendRpc`), and the child's own steps |
| `EngineRuntime` | the child of `worker-engine-runtime.mjs` | the directory on disk, how far the child has come, what it imported, the two ends of its channel | `VerifyAndLockDown`, `LoadDescriptor`, `CreateSession`, `TakeRequest`, `AnswerRequest`, `Dies` |
| `EngineAdmission` | manifests, `createWorkerEngineAdapter`, the recycled wrapper's admission | the adapters with their private bindings, the child's purpose, changes of the disk | `CreateWorkerEngineAdapter`, `CreateEngineSession`, `CreateRecycledAdapter`, `CopyAdapter`, `CallEngine`, `Reaped`, `ChangeFile`, `ChangeManifest`... |
| `RecycledSession` | the recycled wrapper and its audit recorder | per session the flags of the wrapper; per decision how far `decide` has come and whether its child lives; the trail | `SelectAction`, the awaits of `decide`, `Close`, `ChildDies` |
| `StrengthMatch` | `runMatch` and the sessions' accounts of time | the phase of the loop, debts, telemetry, the result | one per await and outcome: `SessionReady`, `DecisionLate`, `LegalAction`, `ObserveFails`... |
| `StrengthEvaluation` | `runEvaluation` and the gate | the request, the stage, the token, the results, the summary last made | `Reject`, `Accept`, `GameReturns`, `GameFails`, `Report`, `SummarizeAgain` |
| `EvaluationSummary` | `summarizeEvaluation` as operators | | |
| `SequentialGames` | the loop over games that an evaluation promises | the fates of the games, the verdict | `Decide` |
| `CheckpointGames` | `playGames` with its workers | the next job, the job of each worker, results, failures | `GameEnds`, `GameThrows`, `Conclude` |
| `CheckpointEvaluation` | the budget, the summary and the promotion around it | the plan, the summary, the promotion | `PlayGames`, `Summarize`, `PromoteOwn`, `PromoteReported`, `PromoteNothing` |
| `NormalDuelRules` | the rules engine | the record of a game, field by field | `ApplyAction`, `ApplyLegalAction` |
| `FeatureInversion` | encoder, inverse, histories and audits, as operators over a state of the rules | | |
| `RulesCallers` | evaluator, openings and bridge, likewise | | |
| `PerftCounts` | the leaf counter and its budget, likewise | | |
| `CasualGame` | the older client's board, its bots and drops, and the pinned baseline, likewise | | |
| `TreeSearch` | `puctSearch`, `gumbelRootSearch` and self-play games | the tree, the root's scores, the candidates and survivors, the visits left of the round, the records | `Search`, `Visit`, `Descend`, `ReachLeaf`, `ReachTerminal`, `Backup`, `VisitChild`, `Halve`, `Play` and the ways to throw |
| `Distill` | `distill-lib`, `-collect`, `-relabel`, `-shards`, `-value-shards`, `-verify` | the files, and the program that runs with its locals | `LockStepStep`, `Collect`, `Relabel`, `Shards`, `WriteShard`, `WriteManifest`, `ValueShards`, `SwapValues`, `ValuesWritten`, `Crash` |
| `NetMatch` | `distill-compare` | the ledger, the match with its slots, what the games really said | `Operate`, `Declare`, `FillSlot`, `PendSlot`, `EndScan`, `InferSide`, `FinishSearch`, `Verdict`, `Abandon` |
| `NetGuard` | `createNetGuard` as operators | | |
| `BestMove` | `/api/bestmove` and the cache | `buckets`, `generation`, a request per browser | `Ask`, `CollectLeaves`, `Answered`, `InferenceFails`, `Serve`, `Heal` |
| `DevGames` | `/api/new` and `/api/move` | games, the ids kept, the search each request waits for | `New`, `Move`, `MachineMoves`, `MachineFails` |
| `PlayStore` | `createStore` | the index, both files, what was acknowledged | `signInGuest`, `signInGoogle`, `identify`, `recordGame`, `Restart` |
| `PlayPage` | the script of `play.html` | the game, the `askNetwork` under way, localStorage, reports out, the standings | `Play`, `AnswerArrives`, `RequestFails`, `BackoffEnds`, `Resume`, `Forfeit`, `AnotherGame`, `Switch`, `Reload`, `ReportAnswered`... |

`MC...` modules hold values for the constants and compose what one run checks together
(`MCNormalDuel` also remembers the whole game); `..._proofs` modules hold the theorems.
A definition next to a modelled one that is named for a mistake (`SelectActionWithoutBarrier`,
`AdmittedByPublicFields`...) is a mutation that `PROJECT.json` pairs with the property that
catches it; the specifications never use it.

The modules that are proved about reach no `RECURSIVE` operator; those that TLC alone
evaluates (`CasualGame`, `PerftCounts`) use it where the code recurses.

### What stands for what

- *SubprocessHost.* A frame is its type, the request it answers and whether it is a success.
  A timer that is armed may fire at any time, so every race of a timer is there and no clock
  is. What a dead child wrote may still be delivered. The forged frames of a child are
  bounded by `MaxForged`; each call is made once. A child may close its channel and live on
  (`ChildDisconnects`, the process is `detached`), may never have been told to initialize
  (`InitializeFails`), or may never have been started (`SpawnFails`).
- *EngineRuntime, EngineAdmission.* A JavaScript value is a record of its kind, its own
  properties, which of them are accessors and whether its prototype is foreign; what the
  engine's own code does is a choice among such values. A file is its bytes, or a link, or
  absent. `Host == INSTANCE SubprocessHost WITH ...` reads the child through what the host's
  model knows of one, and `ChildIsTheHostsChild` holds every step of the child to a step that
  model lets a child take: the two models meet at the channel. A session opens when the child
  tells the four `IdentityFields` the probe was told; capabilities may differ. `copied` is
  the history of an adapter that somebody spread from another.
- *RecycledSession.* A decision ends with a branded decision, a value without the brand, or
  an error with or without a classification. The subprocess below it is seen from outside:
  it is unborn, alive or dead, and its teardown may fail with the child in either state; or its
  fork failed (`unspawned`), and then `inner.close()` never returns.
- *StrengthMatch.* Time is in units of a quarter of the deadline. A call takes any time up to
  a bound, a timer fires up to `Slip` late, the harness notices up to `MaxLag` later. The
  position is whether the game goes on. The histories `spent` and `erred` are what really
  happened, against which telemetry and result are held.
- *Evaluations.* A game is how it ended for the contender. Points are counted in halves and
  rates are left as fractions, so that comparisons are exact. A token is that the evaluation
  holds one; whether results are the very array, or a copy changed by the caller, is a flag.
- *NormalDuelRules.* Walls are sets of anchors, positions are records, and a position key is
  the number the code packs. Board, stocks, threshold and cap are parameters.
- *FeatureInversion, RulesCallers, PerftCounts, CasualGame.* Plane values are integers in a unit that every
  division of the encoder divides. Errors are the reasons the code names. A rebuilt state is
  judged by `Rebuilt(s) == INSTANCE NormalDuelRules WITH ...`. A bot's answer is the set of
  actions its dice, its ties and, for the hard one, its search may choose.
- *TreeSearch.* A position is the line of moves to it, and what engine and network say depends
  on its kind, so that lines meet and kinds recur. Values and scores are integers of a unit.
- *Distill.* A position is its history, and stands for its features, mask and hash; a target is
  the list of leaves whose evaluations made it, with its budget and seed, so that one foreign
  row shows. A crash may come between any two writes and may tear the last line of the relabel file:
  into something that does not parse, or of its newline only, and then the next record is written on
  the same line (`unended`, and `glued` for the records that so became unreadable; `cut` is the
  history that it happened). `Verifies` is the verifier's checks A to E; for check C a
  target has mass on `Support`, the legal moves its searches visit at the position that they began
  at, which may be illegal in another. The history
  `remade` is set by what findings 4 and 5 need: a collection over an earlier one or over deep
  targets, or a `relabel --fresh` where shards have been written.
- *NetMatch.* A search is the rows it was given; Elo is a table. `tally` and `measured` are what
  the games said, apart from what the program makes of them.
- *BestMove.* A position stands for its feature bytes, which determine it and not the network.
  A record is a policy and a value, each tagged with the network and the position it speaks
  of, so that a policy paired with another leaf's value shows. The tree asks for any leaves
  that can still be reached from its root.
- *DevGames.* A position is its ply; no two positions of a game share one.
- *PlayStore.* A file is the lines that parse and what follows the last newline: nothing, a
  fragment, or a whole record without its newline. An append fails without a trace or, where
  `TornWrites`, with the beginning of a line.
- *PlayPage.* A position is a game and its ply; a history is the moves pushed, each with who
  chose it and for which position. A request fails or is answered at any moment; the server
  may be down until it recovers. `Refused` are positions that the server's guard refuses on a
  healthy network (`net-guard.mjs:161-181` has seen one), and at every retry, since the seed depends
  on the ply only and the same tree is built again.

## Runs

A run is a question; where parts of the system share no state (the routes of the play
server, the programs of the training pipeline, a match and the gate) one run asks several, and
a behaviour is one of one part while the others rest.

| run | instance | distinct states | what it shows |
|---|---|---|---|
| `subprocess_host` | two calls, one forged frame, a spawn or an initialize that may fail | 48,595 | no lost, foreign or second answer; failures stop the child; every call and every termination completes |
| `strength_match` | three plies, deadline 4, two pairings of engines; evaluations of up to three openings; three adapters, one change of the disk, two requests | 1,650,278 | the ledger is exact, both saw the game, the offender alone loses; a gate passes only what was played; sessions run the admitted bytes, no copy is wrapped, answers are exact, and the child is the host's child |
| `checkpoint_evaluation` | four games, three workers, five plans; two decisions, of one recycled session or of two | 125,217 | the queue implements the sequential loop; a promotion was earned; nothing from a live child; a true audit, so that children do not overlap unseen; every decision settles and every close returns, but for a decision whose fork failed |
| `duel_rules` | 3x3, three walls, five plies | 3,973 | records validate, entry points agree, games end; training records invert, histories are invented for those without one, damage is named; distances, openings, perft, bots, drops and baseline agree with the rules |
| `duel_whole_game` | 3x3, one wall, nine plies, with the game remembered | 91,601 | the outcome is that of the whole game |
| `play_server` | two browsers on one network; three `/dev` requests; four users and two games in the store; a page with two games, two reloads and two refused positions | 866,174 | a search is fed what its network says and a served move is the network's; answers are played where they belong; what was acknowledged is kept; a game is one match and every turn of the network ends, or is given back to the player where the guard refuses the position |
| `distill` | two games in two slots, shards of two, two collections and two crashes, three of these in all; matches of four games from seven ledgers; self-play over 438 small game graphs | 1,340,396 | the corpus tells its games, resuming is exact but for a newline lost, sets of one making pair and their values are their own; each network plays its own moves and only healthy arms are compared; searches account for their visits and spend their budget, records tell the game |
| `roster_cache` | one browser, two networks | violated | the cache answers for the wrong network |
| `store_torn` | the store of `play_server`, with torn lines | violated | an acknowledged record is lost behind a torn one |
| `opponent_switch` | the page of `play_server`, an opponent switched while a request is out | violated | the old opponent's answer is played in the new game |
| `stale_targets` | the corpus of `distill`, collected twice | violated | deep targets of one collection are paired with positions of another, and verified |
| `mixed_shards` | the corpus of `distill`, shards of one, one crash | violated | files of two runs of `shards` pass for one set, and a position gets another's value |

### Why the bounds are enough

*Processes.* Two calls are the least that can exchange answers, meet a timeout with another
call in flight, and come after the child's death; a third repeats what the second does, since
calls interact only through the pending map. Two decisions suffice to overlap and to
interleave audit records, and they cover both the sequence in one session and the meeting of
two. For admission, one change of the disk suffices to fall before, between or after the
check of the adapter, that of the child and the import; changes while a child that has
imported its files lives on are left out, since nothing reads the disk before it is gone. Three
adapters are an original, a copy or wrapper of it, and what is made of that.

*Measurements.* Three plies give each side a decision with debt from setup, one with debt from
observations, and a terminal move to observe; a unit of time less than the deadline and one
more are both reachable in every sum. Every single requirement of an enforced evaluation is
missing once. Four games and three workers let a worker take a second job while an earlier job
fails after a later one.

*Rules.* On 3x3 a pawn meets the other, jumps straight and sideways, and is fenced in by two
walls; nine plies let the third occurrence come at the cap and before it, and a wall break a
repetition. (Whether a bigger board differs is what the theorems answer; a path test on 3x3
meets every way a wall can close a gap; lines of wall planes are checked apart up to the nine
cells of the shipped board.) Perft is compared near the start and near the cap.

*Search and training.* The game graphs have ties, terminal and repeated kinds, refused values
and refused priors; the budgets run out in the middle of a pass and below the number of
candidates. Two games in two slots are refilled, finish in the same step and share batches;
two crashes are one program that dies and its resumption that dies again, and either of them
may be replaced by a second collection. Shards of two make a set of a full file and a partial
one, shards of one (`mixed_shards`) a set of several full files. Four games in two
slots swap colours and end out of order; the ledgers are missing, malformed, and one for each
way an anchor can be unfit.

*Site.* Two positions, one with a wall more, give the cache its two generations; two browsers
its interleavings. Three requests and an eviction let a request hold a game that the server
has forgotten. Two games let a torn line swallow the next one; two guests compete for a name,
and each way to sign in has its user. The page makes its true four attempts; two games are the
least that can be confused, two reloads the least in which a restored game is stored again; a refused
position in either game is met by either side's network.

Where a run says `CHECK_DEADLOCK FALSE` the system stops by itself: the game is over, the
session is closed, the evaluation has its verdict, or a bound is reached. No run declares a
symmetry.

### Fairness

`SubprocessHost`: the event loop delivers what is queued and fires its timers, the operating
system delivers SIGKILL and reports the exit. Nothing is assumed of the child, which may spin
for ever. A process that was never started has no exit, and `TerminationCompletes` exempts it.
`RecycledSession`: `Decide` is weakly fair for each decision, which `SubprocessHost`
justifies: an await of `decide` is a call, or the termination of a process, and it shows both to
complete. The exception is the same: of a fork that failed the teardown awaits an exit that never
comes, so no step of `Decide` is enabled there and nothing is assumed; `EveryWaitEnds` says
that such a decision, and the `close()` of its session, are the only ones that may wait for ever. No
caller is made to call. `NormalDuelRules`: somebody moves as long as the game goes on; the
cap ends it. `SequentialGames` and `CheckpointGames`: a game that is played ends or throws,
for the cap bounds its plies. `PlayPage`: a request is answered, fails or is aborted by
its timer, backoffs are timers, a server that is down is back for good at some time, and a
player who is shown the resume button presses it; nobody is made to play. Nothing makes a
request succeed in a position that the guard refuses: there the property promises the resume button,
with the forfeit beside it, and not an end of the turn. No other specification states fairness, and no liveness is claimed of it.

## Findings

1. `play-server.mjs:188` (`roster_cache`) - the cache is keyed by features, on the ground that
   "the network is FIXED for the life of this process" (line 164). With a roster each request
   picks a network, and a position one opponent has evaluated is served to a search for another.
2. `play-store.mjs:96` (`store_torn`) - a line torn by a failed append is not ended before the
   next append, so the next record, acknowledged, merges with it and is dropped at the next boot;
   the head of the file promises that only the last record can be lost.
3. `play.html:796` (`opponent_switch`) - choosing another opponent starts a new game without
   waiting for or cancelling the request that is out. The old opponent's answer is recorded in
   the new game, as the human's own move if the human has drawn A; the new game's own question
   is not asked, because the page is busy. With `SwitchWhileBusy` also `EveryTurnIsAnswered`
   fails: after such a move it is the network's turn, nothing is under way and nothing is
   shown as stalled. The passing run has opponents chosen only while no request is out.
4. `distill-relabel.mjs:61` (`stale_targets`) - relabel skips each index its file holds, whatever
   position had that index when the line was written. A second collection into a directory, whose
   games went otherwise, leaves deep targets beside positions of which they say nothing. What verify holds of a
   target against its position is that it has no mass on an illegal move: it refuses a stale target
   with such a move, and accepts one whose moves are all legal at the new position, as in the run.
5. `distill-value-shards.mjs:113` (`mixed_shards`) - the outcome `z` is the only thing by which
   value-shards recognises a position. `shards`, run again over what an interrupted
   `relabel --fresh` has written so far, overwrites the first files of a complete set and leaves
   the others; once the relabel is complete the record count can be right, and among games
   without a winner every `z` is 0. The ordering is then reported proved and a position has
   another's root value, where lines 22-25 promise that a wrong ordering fails.

Noted without a run:

- *Harness.* `worker-engine-proxy.mjs:518-525`: `terminate()` awaits the exit of its child, and a
  fork that failed has none. `close()` of such a session, and of the recycled session that tears
  it down, waits for ever, and so does the decision it was for, although line 1260 says that closing
  cannot hang. `worker-engine-proxy.mjs:612`: a memory-limit kill between two requests is told to
  the next caller as a generic failure, where `docs/normal-duel-strength-evaluation.md:202` has
  limit kills reported as `memory_limit`; conversely (594) any SIGKILL under the canonical profile
  reads as a limit kill. `normal-duel-strength.mjs:678`: a late move is charged its elapsed time;
  the session's debt has been spent by then and is not in the telemetry, although the document
  (line 286) has telemetry include all setup and observation time; `LedgerExact` exempts deadlines
  that the harness declares by its own clock for this reason and bounds what may be missing.
  `normal-duel-strength.mjs:288`: the gate's token names neither engine, so the summary of an
  enforced evaluation may be asked for with the roles swapped. `normal-duel-checkpoints.mjs:533`:
  totals are compared with games and pairs, but the win rate and the side splits with nothing,
  although line 569 says that a self-inconsistent summary is not promoted.
  `worker-engine-runtime.mjs:725` requires a `close` of every session and never calls it; at 891 a
  frame above the size limit ends the child without a word, an error's own frame included.
- *Play server.* `play-server.mjs:773`: when the search fails in `/api/move`, the human's move is
  kept and the turn stays the machine's; every retry is refused as out of turn and nothing
  resumes the search. The comment at line 155 relies on the client's retry.
  `play-server.mjs:309`: a record is cached before the guard has judged it, so a refused answer to
  a root is met again by every retry, though the page calls such failures transient
  (`play.html:640`). A guard's refusal on a healthy network repeats without the cache too (`net-guard.mjs:161-181`;
  `play.html:652` takes the seed from the ply): a player in such a position can only give up the game. Lines 200 and 206 file and drop entries by the wall count last served, which
  may be another game's. Line 531 compares a replayed position and not its repetition counts.
  `net-guard.mjs:48` counts leaves and not positions, so one flat position met three times
  refuses a move. `play-store.mjs:227`: a result counts before it is written, so one whose request
  fails counts until the restart and twice when it is sent again; a guest whose sign-in could not be written keeps the name
  taken until the next restart.
- *Play page.* `play.html:676` abandons a request it aborts, and the server goes on searching.
  Line 643 says that a history that does not replay gets a 4xx; `stateFromHistory` throws and the
  answer is a 500, which is retried. Line 472 lets "a later attempt" report a result that failed,
  but nothing redraws a game that is over. Line 464 reports against the default label when the
  roster could not be fetched, while the moves were asked of the opponent stored before. A storage that is
  full keeps its old copy, and two tabs share one: a game may be restored and reported again.
- *Search and training.* `normal-duel-puct-search.mjs:313` says that a search with one candidate
  spends no simulations; it spends them all. `distill-relabel.mjs:61`: a torn last line makes every
  resumption stop at the parser, where line 18 promises that it is resumable; a last line that lost its newline alone is
  read, its idx is skipped, and line 155 writes the next record behind it, so that the pass ends with a line that does not
  parse and two positions without a target (`ResumeIsExact` has this as its only exception). `distill-shards.mjs:115` leaves the higher-numbered files of an
  earlier, longer set. `distill-value-shards.mjs` writes before its final count is checked.
  `distill-compare.mjs:593`: two runs at once lose each other's anchors.

## Proofs

TLAPS checks the theorems of the eight `..._proofs` modules for every value of the constants
that satisfies the named assumptions of the modules (`ConfigAssumption`, `UsersAssumption`...:
sizes are positive, names of special values are not names of ordinary ones, thresholds are
valid). Where a theorem needs more than the modules assume it says so in its statement; there
are three such hypotheses that are each the negation of a finding above; one, `KindsCover`, that a
constant operator of `TreeSearch` is total; and one, `CellCount <= 256`, that a square fits the byte
it is packed into. `PROJECT.json` lists the theorems; here are the
arguments.

**SubprocessHost.** `Safety`: the invariant `IInv` holds for any set of calls and any number of
forged frames; with it `NothingIsLeft`, `AnswersAreOwn`, `HostFailsClosed`, `TerminateIsReap`.
None of these is inductive alone. That an answer is the call's own needs `Bookkeeping` - every
success in the pipe was computed by the child, and ids lie below the counter, so that an id is
never given out twice - and `PendingMatchesCalls`, which ties the map to the calls. That
nothing is left after the exit needs the guard `rpc` evaluates after its await.

**EngineAdmission**, for any files, exports, returned values, adapters and changes of the disk.
`OfficialWrapped`: what an adapter says in public agrees with what is held of it in private, if
anything is (`Genuine`); a wrapper is made only of what the private map says, and a copy has none
of it, so nobody's copy is wrapped. `ReleaseRuns`: the policy of a child is its adapter's release, what it has checked
is on the disk unless changed since, and what it imported is what it checked (`ReleaseInv`).
`AnswersExact`: every frame was built from a value that passed the exact-record checks, hence is
one (`AnswersInv`, over the shape of the channel, `ChannelInv`). `ChildIsModelled`: every step of
this child is a step that `SubprocessHost` lets its child take, under the mapping of `Host`; the
proof goes by the child's stages, and uses that it serves a request exactly while it is busy.

**RecycledSession.** `Safety`, then `NoMoveFromLiveChild`, `ChildrenDoNotOverlap`,
`TrailIsTrue`, `ClosedMeansQuiet` and the action property `NothingAfterClose`, for any
sessions and any number of selections. The invariant has a part for the life of a decision
(only the active selection is in flight, what is beyond `nextSelection` has not begun, a
child not yet reaped belongs to a decision in flight or reported as failed) and one for the
audit (generations gained and records emitted correspond), since the recorder is shared and
a session alone says nothing about the order of the trail.

**StrengthMatch.** `LedgerIsExact`, `SessionsSeeTheGame` and `OffendersForfeit`, for any budget,
grace, latency and pairing. What a session has seen follows from the phase and from whose
turn it is (`SessionsFollow`); what an engine has spent and the ledger lacks is the debt in its
session (`Owed`); only a subprocess has debts, and none when there is a result
(`DebtsFollow`); a decision in time costs no more than the budget, its debt included
(`Afforded`). **StrengthEvaluation.** `PassesArePlayed`: a token exists only for a request that
satisfies every requirement, results are filed under it only when all games are in
(`GateInv`), and a summary with two thirds of the games leaves the other engine less; the
counting of wins is proved about sets of games and so for books of any length.

**CheckpointGames** (in `StrengthMatch_proofs`, with what is around it). `QueueSafety`, `SameVerdictAtAnyConcurrency` and the refinement
`ImplementsSequentialLoop`, for any games, workers and failures. Jobs are taken in order, so
those taken are a prefix of the list, each in flight, settled or failed; a worker stops before the end
only after a failure; so the least failure is the loop's. **CheckpointEvaluation.** `PromotedIsEarned`: a
promotion was decided on a summary that is of the games played or was reported in its shape
(`SummaryIsTrue`, `DecisionIsTheRule`), and what its numbers say of pairs and sides follows
from the fates of the games (`PairedAssumption`: an even number of them).

**NormalDuelRules**, for every board, stock, threshold and cap. `RecordsValidate` - the record of
every reachable state satisfies what `validateState` asks of turn, stock, walls, window
start, distances and outcome - and from it `TypeCorrect`, `ResultsAreDecided`,
`WindowsStartAtLastWall`. `EntryPointsAlwaysAgree` rests on `CodeInjective`: codes are
row-major numbers in three disjoint banks. `LegalWallsAlwaysApply`: a wall the
predicate accepts leaves a position that can be normalised. `PathIsReachability`: `hasPathSet`,
a recursive function in the model, finds a path exactly when one exists.

`RecordsAlwaysValidate` is the whole of `ValidState`, the window of repetition counts included,
and `WindowForgetsNothing` says that an outcome reached through that window is the outcome of
the whole game. A record does not hold its game, so the invariant speaks of some game `g` that
leads to it (`Whole`, and for the second theorem the remembered one): `Trail` reads each field of
the record off the plies of `g` since the last wall, and says that no position before the last
was decisive. What the validator derives from counts alone then follows: positions with one key
are at least four plies apart, so a count is at most a quarter of the window; the moves of either side are
what the turns alternate; a position before a wall has more walls to come and cannot recur
after it, which is why nothing outside the window is missed.

`SearchesAgree` is about the searches that the rules' callers make of their own: the encoder's from a
goal row, the evaluator's from a pawn over the wall planes, the opening generator's over wall anchors. Each
is a fold over rounds. A fold is shown to satisfy its recursion (`FoldDefined`), and a round keeps
`Layers`: the numbers given so far go down by open steps to the cells the search began with, and no neighbour
of one is more than one ahead. With a round fewer than there are cells nothing is left over
(`NothingBeyond`: otherwise each number would have a cell of its own, and there would be a cell too many), so
that the last round has the distances (`IsDistances`). `Triangle` and `WayDown` then bring the search
from the pawn and the search from the row together, and `BallGrows` the one that stops when
it arrives. That a mover always has an action (`MoverHasStep`): hemmed in by the rival alone, the two
pawns would fill a closed set of two squares side by side, which cannot touch both goal rows.

**FeatureInversion** (with the rules, whose records these are). `RecordsAlwaysInvert` has four parts. A line
of a wall plane (`LinesAlwaysInvert`, of any length): walls light two cells each and none are next to
each other, so within a run of lit cells the anchors are those an even number of cells from its
first (`RunOfWalls`, by the least cell at which this fails), whose last cell no anchor can be. The planes
(`PlanesAlwaysRead`): the unit divides by each side's stock (`UnitDivides`), no line beyond the last
anchors is lit, and the folds over lines and over refusals collect every wall and no refusal
(`WallsRead`, `NothingRefused`). The carried history (`CarriedAlwaysRebuild`) rests on
`RecordsAlwaysValidate`: the window has positions of the board that stands, and a compact key tells their pawns and
turn (`KeyReads`), **provided** a square fits a byte (`CellCount <= 256`; the shipped boards have 81 and
49), so its entries are as many as its keys and their counts sum up to its length
(`EntriesSum`: `MapThenSumSet` is shown to count one thing per occurrence, and the occurrences of the
two turns are what `validateState` counted). Whoever assembles a state derives its outcome, and that of the record was earned,
so they are equal (`AssembledIsState`), and `validateState` says of the rebuilt record what it says of
the state (`RebuiltValid`). An invented history (`InventionNeverRelabels`) has each position once and a ply
before the cap, which leaves a goal as the only way to end. That one can *always* be invented for a game that
was not drawn is not proved.

**The play server** (`PlayServer_proofs`). `ServedMovesAreShaped`: a guard that lets a move out has
counted exactly what the search was fed, whatever the interleaving of requests and the state of
the cache (`Witnessed`); it is the guard alone, with no hypothesis on the cache, that does this.
`FedByItsNetwork`: every record of the cache is what the network says of the position under
which it is filed (`FedInv`), **provided** the process serves one network when it batches (`OneNet`, the
finding `roster_cache`; leaves asked for one at a time bypass the cache and need no hypothesis).
`MovesFitTheirPosition` (`DevGames`): an id waited for was handed out before, so that a new
game has no request; while a request is out it is the machine's turn, so no other request
can move in that game. `AcknowledgedKept` (`PlayStore`), **provided** a failed append leaves no
part of its line (`~TornWrites`, the finding `store_torn`): every line is ended, what was answered is
on file, and what is on file is in memory (`StoreInv`). `GamesAreMatches` (`PlayPage`),
**provided** nobody switches opponents while a request is out (`~SwitchWhileBusy`, the finding
`opponent_switch`): nothing but its answer changes the board while a request is out (`MInv`).
`ResultsHold` needs no hypothesis: even when opponents are switched under a request, a game's
result is recorded once, truly and against the opponent that it began with.

**NetMatch** (in `Distill_proofs`). `NetsPlayTheirOwn`: a game
belongs to one slot until it is over; a pending slot waits for the side it is filed under and
has no answer until that side is served. `ScreensAreOfHealthyArms`: the results on record are
those the games had (`TallyFollows`), so what the ledger holds of an arm is what its games
measured. Both for any number of games and slots, any ledger and any rating.

**Distill**, for any rules, any leaves that a search asks for, any number of games, slots and crashes. The
corpus comes first (`CorpusFollows`): each pending slot of the lock step has a leaf of its own and
gets the row of that leaf, the views of a finished slot included (`LockOk`); a game's records are those
of its own searches while it is in its slot (`GameFollows`), while its three files are
written one after the other (`Closes`) and once it is on file (`ToldBy`); and every game begun is in exactly one of
those places (`Placed`), as every ply of the deep pass is done, at hand or queued
(`RelabelOk`). A crash only empties the slots, which is why no clause may speak of a slot and of a file
at once. `CorpusTells` and `Resumed` follow; the latter needs in addition that the deep file is only appended
to while its writer runs, and that a record is written behind an unended line only once (`LinesOk`): whoever
resumes after that meets a line that does not parse, and stops. The sets come second (`SetsInv`), and rest on the corpus: a set is judged
by where its last file ends, and if that is the last usable ply then *all* its files are the rows of the usable plies
(`SetOk`). This survives a rerun in mid-way, which overwrites the first files
and leaves the others, because usable plies are only added at places of their own, and a list that has
grown makes the old end fall short; it is what fails once something is made anew, and so the
invariant is conditional on `~remade`, as the property and findings 4 and 5 are. `SetsTell`
then is `VerifiedSetsPair` and `ValuesAreTheirOwn`: that `verify` joined two sets of the right length means
that their last files end at the last ply. The concatenation of files (`FlattenSeq`) and the selection of plies are
folds, of which the lemmas give the length and the element at each place.

**TreeSearch.** `EverySearchIsAccountedFor`, `EveryBudgetIsSpent` and `RecordsAlwaysTellTheGame`, for
any set of codes, any settings of either driver and any engine and evaluator that say something
of every line (`KindsCover`: `KindOf` is a total function, which TLC cannot enumerate). The first
property is of the moments between two root visits and says nothing of a simulation under way;
the invariant does (`Books`): the nodes above the one that a value stands at are owed that value, once
and with the sign of their distance (`NodeAccount`), and only the edge to that node lags behind its child
(`EdgeAccount`). A descent adds a node that has sent nothing, an arrival makes all above it
owe, and a back-up pays one node and passes the debt on with its sign changed. The budget
(`SharesOk`): the visits an action has had, has under way and has before it are the same for all
survivors unless the budget cut the last round short, after which there is no other; a
candidate that was dropped has at most one visit more. `TargetFits` then gives the encoder's
side: shares of `Unit` rounded down miss it by less than one each, and the action played keeps a
share since the budget is at most `Unit`. The records (`RecordsOk`) are typed, in step with the game, and
settled by its end; that players alternate turns `z` into the parity of the remaining plies.

Induction over data is done by minimal counterexample: the library's well-founded order on
`Nat` gives a least index, ply or distance at which a claim fails, and the claim at the one
before refutes it (`FirstIndex`, `LeastNumber`); over finite sets, a smallest subset
(`SmallestSet`). A recursive function is shown to satisfy its equation by exhibiting the function
(`SumDefined`, `SquareRootDefined`).

### Model-checked only

- Liveness under fairness and `ENABLED` (`EveryTurnIsAnswered`, `EveryCallSettles` and their
  like): beyond the prover.
- `RecordsAreJudged`: that the search through candidates finds a history for every record that was not
  drawn, no later than the true ply and one to play on from, was not shown to hold on every board; and
  the damage to records is a list of cases, which a run goes through and a proof would only repeat.
- `PerftCounts` and `CasualGame`: they use `RECURSIVE` operators where the code recurses.

## Not modelled

`PROJECT.json` gives a reason for each component. In short:

- The rules, searches and solver in Rust: the rules repeat the JavaScript engine's, and
  fixtures compare the two; alpha-beta and retrograde analysis are numeric searches beyond
  TLC's reach. The native tree search is that of `TreeSearch`; what callers do with the leaves it
  hands out is in `BestMove`, `Distill` and `NetMatch`, how it suspends in between is not.
- The network runtime: floating-point forward passes that golden files test bit for bit.
- The application shell, whose server is not in the repository; presentation; benchmarks
  and fixtures, which are sequential scripts around what is modelled.
- Of modelled parts: the hardening of the child's globals, its sandbox profile, and hash checks
  of the pinned snapshot; latency statistics, the confidence interval's square root and
  report files; the numbers of the hard bot's alpha-beta, the neural bot, and the special
  modes' own rules (hammers, mazes); the replay of the history that a request carries, and the
  routes that serve files; signatures, which are taken to hold; a page without a roster, a
  second tab, and a storage that is full; the statistics printed by the training scripts.

## Plan

Done: the processes under the harness and what they run (`SubprocessHost`, `RecycledSession`,
`EngineRuntime`, `EngineAdmission`), the rules and what stands on them (`NormalDuelRules`,
`FeatureInversion`, `RulesCallers`, `PerftCounts`, `CasualGame`), measurements (`StrengthMatch`,
`StrengthEvaluation`, `CheckpointGames`, `CheckpointEvaluation`), the site (`BestMove`, `DevGames`,
`PlayStore`, `PlayPage`), search and training (`TreeSearch`, `Distill`, `NetMatch`); the proofs
above. Left, in order:

1. The leaf protocol of `puct.rs` - `next_leaf`/`submit` and `collect_leaves`/`submit_batch` -
   with the one-at-a-time search as its abstract specification.
2. `TranspositionTable` with its two lanes and its wrapping generation; `SearchBudget`.
3. The client of the WebSocket protocol: reconnect, resume token, takeover.
