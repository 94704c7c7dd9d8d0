-------------------------------- MODULE Distill --------------------------------
(***************************************************************************)
(* The deep-target pipeline (scripts/distill-*.mjs), run by an operator    *)
(* one program at a time, each of which may die between two writes:        *)
(*   collect  plays games at a shallow budget and writes every position    *)
(*   relabel  searches each position again at a deep budget, resumably     *)
(*   shards   writes the two sets, the same positions with either target   *)
(*   value    writes a copy of a set with the deep root values             *)
(* and verify reads the two sets back.  collect and relabel drive their    *)
(* searches through runLockStep, which sends the pending leaves of all     *)
(* slots to the network as one batch and hands the rows back by number.    *)
(*                                                                         *)
(* A position is the history that leads to it, and stands for its features,*)
(* its mask and their hash.  A target, with its root value, is the list of *)
(* leaves whose evaluations made it, the budget and the seed.              *)
(***************************************************************************)
EXTENDS Integers, FiniteSets, Sequences, Functions

CONSTANTS
  Games, Slots, PlyCap, SampledPlies, PerShard,   \* --games, --slots, --plycap, --tmoves, --perShard
  Legal(_),     \* the moves of a position
  Outcome(_),   \* "ongoing", "A", "B" or "draw"
  Leaves(_, _), \* the leaves a search asks for at a position under a budget
  Best(_),      \* the move its searches settle on
  Support(_, _), \* the legal moves that a search of a position visits under a budget
  NarrowFlat,   \* positions of which every leaf has flat logits
  Freshness,    \* the values of --fresh, a subset of BOOLEAN
  MaxCollections, MaxCrashes

ASSUME DistillAssumption ==
  /\ {Games, Slots, PlyCap, PerShard} \subseteq Nat \ {0}
  /\ {SampledPlies, MaxCollections, MaxCrashes} \subseteq Nat
  /\ Freshness \subseteq BOOLEAN

VARIABLES
  features, plies, games,  \* features.f32, plies.jsonl, games.jsonl
  collected,               \* collect.json is there
  deep,                    \* relabel-<tag>.jsonl: the records appended to it, in their order
  glued,                   \* the numbers of its records that share a line, which does not parse
  unended,                 \* its last line has no newline
  shards,                  \* set -> (file number -> its records)
  manifest,                \* shards.json: the number of records, 0 for none
  value, valued,           \* the value set's files; "PASSED" was printed over them
  proc,                    \* the program that runs, with its locals
  collections, crashes,
  remade,                  \* history: something was made anew of which other files had been made
  cut                      \* history: a kill took no more than a record's newline, and no --fresh since

disk == <<features, plies, games, collected, deep, glued, unended, shards, manifest, value, valued>>
vars == <<disk, proc, collections, crashes, remade, cut>>

Budgets == {"shallow", "deep"}
None == [kind |-> "none"]
Idle == [kind |-> "idle"]
Torn == [idx |-> -1]     \* a last line that does not parse

Mover(h) == IF Len(h) % 2 = 0 THEN "A" ELSE "B"
Z(outcome, h) == IF outcome \notin {"A", "B"} THEN 0 ELSE IF outcome = Mover(h) THEN 1 ELSE -1
Prefix(h, n) == SubSeq(h, 1, n)

\* The elements of s at the places in S, in order.
AtPlaces(s, S) == [n \in 1 .. Cardinality(S) |-> s[CHOOSE i \in S : Cardinality({j \in S : j <= i}) = n]]

Target(answers, budget, seed) == [answers |-> answers, budget |-> budget, seed |-> seed]
\* The target a search of h yields when each of its leaves gets its own evaluation.
TargetOf(h, budget, seed) == Target([k \in 1 .. Leaves(h, budget) |-> <<h, k>>], budget, seed)

(* ---- runLockStep ---------------------------------------------------------- *)

Over(h) == Outcome(h) # "ongoing" \/ Len(h) >= PlyCap

EmptySlot == [session |-> None, search |-> None]
LockStep(prog, todo) ==
  [kind |-> "lockstep", prog |-> prog, todo |-> todo, at |-> 1, pending |-> <<>>,
   slots |-> [i \in 1 .. Slots |-> EmptySlot], nextIdx |-> 0, flush |-> <<>>]

Scanning == proc.kind = "lockstep" /\ proc.at <= Slots /\ proc.flush = <<>>
Slot == proc.slots[proc.at]

NoSpec(session) == IF session.kind = "game" THEN Over(session.h) ELSE session.issued

\* nextSpec: the seed is a function of the run, the game and the ply, and the deep
\* pass reuses it.
SearchOf(session) ==
  [kind |-> "search", h |-> session.h, answers |-> <<>>, features |-> <<>>,
   budget |-> IF session.kind = "game" THEN "shallow" ELSE "deep",
   seed |-> IF session.kind = "game" THEN <<collections, session.game, Len(session.h)>> ELSE session.rec.seed]

Issued(session) == IF session.kind = "game" THEN session ELSE [session EXCEPT !.issued = TRUE]

Take ==
  /\ Scanning /\ Slot.session = None
  /\ proc' = IF proc.todo = <<>> THEN [proc EXCEPT !.at = @ + 1]
             ELSE [proc EXCEPT !.slots[proc.at].session = Head(proc.todo), !.todo = Tail(@)]
  /\ UNCHANGED <<disk, collections, crashes, remade, cut>>

PlyRecordsFromZero(session, from) ==
  [i \in DOMAIN session.plies |->
     [idx |-> i - 1, game |-> session.game, h |-> session.plies[i].h,
      z |-> Z(Outcome(session.h), session.plies[i].h),
      target |-> session.plies[i].target, seed |-> session.plies[i].target.seed]]

\* What finalize() writes of a game, in its three writes.
PlyRecords(session, from) ==
  [i \in DOMAIN session.plies |->
     [idx |-> from + i - 1, game |-> session.game, h |-> session.plies[i].h,
      z |-> Z(Outcome(session.h), session.plies[i].h),
      target |-> session.plies[i].target, seed |-> session.plies[i].target.seed]]

Flush(session) ==
  << [file |-> "features", rows |-> [i \in DOMAIN session.plies |-> session.plies[i].features]],
     [file |-> "plies", rows |-> PlyRecords(session, proc.nextIdx)],
     [file |-> "games", rows |-> <<[game |-> session.game, h |-> session.h, firstIdx |-> proc.nextIdx]>>] >>

EndSession ==
  /\ Scanning /\ Slot.session # None /\ Slot.search = None /\ NoSpec(Slot.session)
  /\ proc' = [proc EXCEPT !.slots[proc.at].session = None,
                !.flush = IF Slot.session.kind = "game" THEN Flush(Slot.session) ELSE <<>>,
                !.nextIdx = IF Slot.session.kind = "game" THEN @ + Len(Slot.session.plies) ELSE @]
  /\ UNCHANGED <<disk, collections, crashes, remade, cut>>

Write ==
  /\ proc.kind = "lockstep" /\ proc.flush # <<>>
  /\ LET w == Head(proc.flush)
     IN  /\ features' = IF w.file = "features" THEN features \o w.rows ELSE features
         /\ plies' = IF w.file = "plies" THEN plies \o w.rows ELSE plies
         /\ games' = IF w.file = "games" THEN games \o w.rows ELSE games
  /\ proc' = [proc EXCEPT !.flush = Tail(@)]
  /\ UNCHANGED <<collected, deep, glued, unended, shards, manifest, value, valued, collections, crashes, remade, cut>>

StartSearch ==
  /\ Scanning /\ Slot.session # None /\ Slot.search = None /\ ~NoSpec(Slot.session)
  /\ proc' = [proc EXCEPT !.slots[proc.at] =
                [session |-> Issued(Slot.session), search |-> SearchOf(Slot.session)]]
  /\ UNCHANGED <<disk, collections, crashes, remade, cut>>

SearchDone == Len(Slot.search.answers) = Leaves(Slot.search.h, Slot.search.budget)

\* The first leaf of a search is its root, whose features the record keeps.
WithRoot(search) ==
  IF search.answers = <<>> THEN [search EXCEPT !.features = <<search.h>>] ELSE search

Pend ==
  /\ Scanning /\ Slot.search # None /\ ~SearchDone
  /\ proc' = [proc EXCEPT !.slots[proc.at].search = WithRoot(@), !.at = @ + 1,
                !.pending = Append(@, proc.at)]
  /\ UNCHANGED <<disk, collections, crashes, remade, cut>>

LeafOf(slot) == <<slot.search.h, Len(slot.search.answers) + 1>>

\* The batch holds the pending leaves in their order, and row i answers leaf i.
Batch == [i \in DOMAIN proc.pending |-> LeafOf(proc.slots[proc.pending[i]])]
RowOf(slot) == CHOOSE i \in DOMAIN proc.pending : proc.pending[i] = slot

Infer ==
  /\ proc.kind = "lockstep" /\ proc.at > Slots /\ proc.pending # <<>>
  /\ LET batch == Batch
     IN proc' = [proc EXCEPT !.at = 1, !.pending = <<>>,
           !.slots = [i \in 1 .. Slots |->
              IF i \in Range(proc.pending)
              THEN [proc.slots[i] EXCEPT !.search.answers = Append(@, batch[RowOf(i)])]
              ELSE proc.slots[i]]]
  /\ UNCHANGED <<disk, collections, crashes, remade, cut>>

(* ---- collect -------------------------------------------------------------- *)

\* One legal move, or a network that every leaf leaves flat: played and not recorded.
Forced(search) == search.features = <<>> \/ search.h \in NarrowFlat

Result(search) == Target(search.answers, search.budget, search.seed)

MovesPlayed(search) ==
  IF ~Forced(search) /\ Len(search.h) < SampledPlies THEN Legal(search.h) ELSE {Best(search.h)}

FinishShallow ==
  /\ Scanning /\ Slot.search # None /\ SearchDone /\ Slot.session.kind = "game"
  /\ LET search == Slot.search
     IN /\ search.features \in {<<>>, <<Slot.session.h>>}    \* crossCheckRoot
        /\ \E move \in MovesPlayed(search) :
             proc' = [proc EXCEPT !.slots[proc.at] = [search |-> None,
               session |-> [Slot.session EXCEPT !.h = Append(@, move),
                 !.plies = IF Forced(search) THEN @
                           ELSE Append(@, [h |-> search.h, target |-> Result(search), features |-> search.features[1]])]]]
  /\ UNCHANGED <<disk, collections, crashes, remade, cut>>

GameSession(i) == [kind |-> "game", game |-> i, h |-> <<>>, plies |-> <<>>]

Collect ==
  /\ proc = Idle /\ collections < MaxCollections
  /\ features' = <<>> /\ plies' = <<>> /\ games' = <<>>
  /\ proc' = LockStep("collect", [i \in 1 .. Games |-> GameSession(i)])
  /\ collections' = collections + 1
  /\ remade' = (remade \/ collected \/ deep # <<>>)
  /\ UNCHANGED <<collected, deep, glued, unended, shards, manifest, value, valued, crashes, cut>>

(* ---- relabel -------------------------------------------------------------- *)

NoneTorn == \A i \in DOMAIN deep : deep[i] # Torn
Parses == NoneTorn /\ glued = {}
DeepIdx == {deep[i].idx : i \in DOMAIN deep}
\* The map that the later steps build of the file: the last line of an idx holds.
DeepOf(idx) == deep[CHOOSE i \in DOMAIN deep : deep[i].idx = idx /\ \A j \in DOMAIN deep : deep[j].idx = idx => j <= i]

RelabelSession(record) == [kind |-> "relabel", rec |-> record, h |-> record.h, issued |-> FALSE]

SkipNothing(records, kept) == records
Todo(records, kept) == AtPlaces(records, {i \in DOMAIN records : records[i].idx \notin kept})

Relabel ==
  /\ proc = Idle /\ collections > 0
  /\ \E fresh \in Freshness :
       /\ fresh \/ Parses
       /\ deep' = (IF fresh THEN <<>> ELSE deep) /\ glued' = (IF fresh THEN {} ELSE glued)
       /\ unended' = (~fresh /\ unended) /\ cut' = (~fresh /\ cut)
       /\ LET todo == Todo(plies, IF fresh THEN {} ELSE DeepIdx)
          IN proc' = LockStep("relabel", [i \in DOMAIN todo |-> RelabelSession(todo[i])])
       /\ remade' = (remade \/ (fresh /\ DOMAIN shards["shallow"] # {}))
  /\ UNCHANGED <<features, plies, games, collected, shards, manifest, value, valued, collections, crashes>>

\* onResult: the position is checked against the hash of the first pass.
DeepDone ==
  /\ Scanning /\ Slot.search # None /\ SearchDone /\ Slot.session.kind = "relabel"
  /\ Slot.search.features = <<Slot.session.rec.h>>

DeepLine == [idx |-> Slot.session.rec.idx, target |-> Result(Slot.search)]

\* appendFileSync: what follows a line without a newline is more of that line.
Appends(line, newline) ==
  /\ deep' = Append(deep, line)
  /\ glued' = IF unended THEN glued \cup {Len(deep), Len(deep) + 1} ELSE glued
  /\ unended' = ~newline

FinishDeep ==
  /\ DeepDone /\ Appends(DeepLine, TRUE)
  /\ proc' = [proc EXCEPT !.slots[proc.at].search = None]
  /\ UNCHANGED <<features, plies, games, collected, shards, manifest, value, valued, collections, crashes, remade, cut>>

\* No slot found anything to do: the program writes its summary and ends.
Finished ==
  /\ proc.kind = "lockstep" /\ proc.at > Slots /\ proc.pending = <<>>
  /\ collected' = (collected \/ proc.prog = "collect")
  /\ proc' = Idle
  /\ UNCHANGED <<features, plies, games, deep, glued, unended, shards, manifest, value, valued, collections, crashes, remade, cut>>

(* ---- shards --------------------------------------------------------------- *)

Usable == AtPlaces(plies, {i \in DOMAIN plies : plies[i].idx \in DeepIdx})

\* The record of a ply in a set: features and mask cut from the sidecar by idx.
RecordOf(p, set) ==
  [h |-> features[p.idx + 1], z |-> p.z, target |-> IF set = "deep" THEN DeepOf(p.idx).target ELSE p.target]

FileCount(n) == (n + PerShard - 1) \div PerShard
FileOf(set, k) ==
  LET part == SubSeq(Usable, (k - 1) * PerShard + 1, (IF k * PerShard < Len(Usable) THEN k * PerShard ELSE Len(Usable)))
  IN  [set |-> set, file |-> k, rows |-> [i \in DOMAIN part |-> RecordOf(part[i], set)]]

\* Both sets are filled together, ply by ply, and each file is written when it is full.
ShardWrites ==
  [i \in 1 .. 2 * FileCount(Len(Usable)) |->
     FileOf(IF i % 2 = 1 THEN "shallow" ELSE "deep", (i + 1) \div 2)]

SidecarFits == Len(features) = Len(plies)

Shards ==
  /\ proc = Idle /\ Parses /\ SidecarFits /\ Usable # <<>>
  /\ proc' = [kind |-> "shards", writes |-> ShardWrites, records |-> Len(Usable)]
  /\ UNCHANGED <<disk, collections, crashes, remade, cut>>

\* Files of an earlier run with a higher number stay.
WriteShard ==
  /\ proc.kind = "shards" /\ proc.writes # <<>>
  /\ LET w == Head(proc.writes)
     IN shards' = [shards EXCEPT ![w.set] =
          [k \in DOMAIN @ \cup {w.file} |-> IF k = w.file THEN w.rows ELSE @[k]]]
  /\ proc' = [proc EXCEPT !.writes = Tail(@)]
  /\ UNCHANGED <<features, plies, games, collected, deep, glued, unended, manifest, value, valued, collections, crashes, remade, cut>>

WriteManifest ==
  /\ proc.kind = "shards" /\ proc.writes = <<>>
  /\ manifest' = proc.records /\ proc' = Idle
  /\ UNCHANGED <<features, plies, games, collected, deep, glued, unended, shards, value, valued, collections, crashes, remade, cut>>

(* ---- value-shards --------------------------------------------------------- *)

\* The set that --from names, file after file.
SourceFiles == [k \in 1 .. Cardinality(DOMAIN shards["shallow"]) |-> shards["shallow"][k]]

ValueShards ==
  /\ proc = Idle /\ Parses /\ DOMAIN shards["shallow"] # {}
  /\ proc' = [kind |-> "value", files |-> SourceFiles, cursor |-> 0]
  /\ valued' = FALSE
  /\ UNCHANGED <<features, plies, games, collected, deep, glued, unended, shards, manifest, value, collections, crashes, remade, cut>>

\* The plies by idx, all of them, against the records in the order they are read.
OrderProven(rows, cursor) ==
  \A i \in DOMAIN rows :
    /\ cursor + i <= Len(plies)
    /\ rows[i].z = plies[cursor + i].z
    /\ plies[cursor + i].idx \in DeepIdx

Revalued(rows, cursor) ==
  [i \in DOMAIN rows |-> [h |-> rows[i].h, root |-> DeepOf(plies[cursor + i].idx).target]]

SwapValues ==
  /\ proc.kind = "value" /\ proc.files # <<>>
  /\ LET rows == Head(proc.files)
         file == 1 + Cardinality(DOMAIN shards["shallow"]) - Len(proc.files)
     IN IF OrderProven(rows, proc.cursor)
        THEN /\ value' = [k \in DOMAIN value \cup {file} |->
                            IF k = file THEN Revalued(rows, proc.cursor) ELSE value[k]]
             /\ proc' = [proc EXCEPT !.files = Tail(@), !.cursor = @ + Len(rows)]
        ELSE proc' = Idle /\ UNCHANGED value     \* throws
  /\ UNCHANGED <<features, plies, games, collected, deep, glued, unended, shards, manifest, valued, collections, crashes, remade, cut>>

EveryPlyAssumed(cursor) == TRUE
EveryPlyWritten(cursor) == cursor = Len(plies)

ValuesWritten ==
  /\ proc.kind = "value" /\ proc.files = <<>>
  /\ valued' = EveryPlyWritten(proc.cursor)
  /\ proc' = Idle
  /\ UNCHANGED <<features, plies, games, collected, deep, glued, unended, shards, manifest, value, collections, crashes, remade, cut>>

(* ---- verify --------------------------------------------------------------- *)

\* The records of files, one file after the other, none of which holds more than PerShard.
Joined(files) ==
  LET place(k, i) == (k - 1) * PerShard + i
      places == UNION {{place(k, i) : i \in DOMAIN files[k]} : k \in DOMAIN files}
  IN  AtPlaces([p \in places |-> files[1 + ((p - 1) \div PerShard)][1 + ((p - 1) % PerShard)]], places)

\* loadSet: whatever files are there, in the order of their names.
Loaded(set) == Joined(shards[set])

\* The moves that a target gives mass to: those that its searches visited.
MassOf(target) == UNION {Support(leaf[1], target.budget) : leaf \in Range(target.answers)}

\* Check C: there is mass, and none of it is off the legal mask.
OnMask(record) == MassOf(record.target) # {} /\ MassOf(record.target) \subseteq Legal(record.h)

\* The checks A to E, each of which fails the program.  (E asks for a majority of
\* records that differ and for a mean distance between the targets; a deep target is
\* never a shallow one here, and as far from it as asked.)
Verifies ==
  LET a == Loaded("shallow")
      b == Loaded("deep")
      order == Usable
  IN  /\ manifest > 0 /\ Parses
      /\ Len(a) = manifest /\ Len(b) = manifest /\ Len(order) = manifest
      /\ \A r \in 1 .. manifest :
           /\ a[r].h = order[r].h /\ b[r].h = order[r].h
           /\ OnMask(a[r]) /\ OnMask(b[r])
           /\ a[r].z = order[r].z /\ b[r].z = order[r].z
      /\ Cardinality({r \in 1 .. manifest : a[r].target # b[r].target}) * 2 > manifest

(* ---- the operator, and what goes wrong ------------------------------------ *)

\* A refused request, a tripped guard, a kill or a closed lid: what was written stays,
\* and a line that was being appended may be cut short, of its newline only too.
Crash ==
  /\ proc # Idle /\ crashes < MaxCrashes
  /\ crashes' = crashes + 1 /\ proc' = Idle
  /\ \/ UNCHANGED <<deep, glued, unended, cut>>
     \/ /\ proc.kind = "lockstep" /\ NoneTorn
        /\ proc.prog = "relabel" /\ \E i \in 1 .. Slots : proc.slots[i].search # None
        /\ Appends(Torn, FALSE) /\ UNCHANGED cut
     \/ DeepDone /\ Appends(DeepLine, FALSE) /\ cut' = TRUE
  /\ UNCHANGED <<features, plies, games, collected, shards, manifest, value, valued, collections, remade>>

Init ==
  /\ features = <<>> /\ plies = <<>> /\ games = <<>> /\ collected = FALSE
  /\ deep = <<>> /\ glued = {} /\ unended = FALSE /\ cut = FALSE
  /\ shards = [set \in Budgets |-> <<>>] /\ manifest = 0 /\ value = <<>> /\ valued = FALSE
  /\ proc = Idle /\ collections = 0 /\ crashes = 0 /\ remade = FALSE

LockStepStep == Take \/ EndSession \/ Write \/ StartSearch \/ Pend \/ Infer \/ FinishShallow \/ FinishDeep \/ Finished

Next ==
  \/ LockStepStep \/ Collect \/ Relabel
  \/ Shards \/ WriteShard \/ WriteManifest
  \/ ValueShards \/ SwapValues \/ ValuesWritten
  \/ Crash

Spec == Init /\ [][Next]_vars

(* ---- what the pipeline is for --------------------------------------------- *)

Alone(h) == Leaves(h, "shallow") = 0 \/ h \in NarrowFlat

\* Of every game on disk, the positions that had something to decide are recorded once
\* each and in order, by an unbroken idx, with the outcome of that game for their mover
\* and the target of their own search; where the step that follows accepts the corpus,
\* each row of features.f32 is that of its ply, and a collection that ended holds every
\* game, until another begins (GameSession.finalize under runLockStep, of which a crash can
\* keep any prefix).
CorpusTellsTheGames ==
  /\ \A g \in Range(games) :
       LET own == AtPlaces(plies, {i \in DOMAIN plies : plies[i].game = g.game})
           at == {n \in 0 .. Len(g.h) - 1 : ~Alone(Prefix(g.h, n))}
       IN /\ {Len(own[i].h) : i \in DOMAIN own} = at /\ Len(own) = Cardinality(at)
          /\ \A i \in DOMAIN own :
               /\ own[i].idx = g.firstIdx + i - 1
               /\ own[i].h = Prefix(g.h, Len(own[i].h))
               /\ own[i].z = Z(Outcome(g.h), own[i].h)
               /\ own[i].target = TargetOf(own[i].h, "shallow", own[i].seed)
  /\ proc = Idle /\ SidecarFits =>
       \A i \in DOMAIN plies : plies[i].idx = i - 1 /\ features[i] = plies[i].h
  /\ collected /\ ~remade => {g.game : g \in Range(games)} = 1 .. Games /\ Len(games) = Games

\* However often the deep pass is killed and resumed, no position is searched for twice
\* into the file, and a pass that ends has a line that parses for every position, but for
\* two at the most (distill-relabel.mjs, "Resumable": an idx already present is skipped).
\* The two are a record of which a kill took no more than the newline, which is skipped as
\* present, and the first record written after it, on the same line.
ResumeIsExact ==
  /\ [](\A i, j \in DOMAIN deep : i # j => deep[i].idx # deep[j].idx)
  /\ [][proc.kind = "lockstep" /\ proc' = Idle /\ crashes' = crashes /\ proc.prog = "relabel"
          => \A n \in DOMAIN plies :
               \E i \in DOMAIN deep : deep[i].idx = plies[n].idx /\ (i \in glued => cut)]_vars
  /\ [](glued = {} \/ (cut /\ \E i \in DOMAIN deep : glued = {i, i + 1}))

\* Two sets that verify accepts hold the same positions, in the same order, with the same
\* outcome, and each target of either is the one that its own position was searched for
\* (distill-verify.mjs: the sets "are what the experiment claims").
VerifiedSetsPair ==
  proc = Idle /\ Verifies =>
    \A r \in 1 .. manifest :
      LET p == Usable[r]
      IN /\ Loaded("shallow")[r] = [h |-> p.h, z |-> p.z, target |-> TargetOf(p.h, "shallow", p.seed)]
         /\ Loaded("deep")[r] = [h |-> p.h, z |-> p.z, target |-> TargetOf(p.h, "deep", p.seed)]

\* Less than that: each deep target of a set that verify accepts was searched for at its
\* record's position, whatever its seed (distill-relabel.mjs: "THE POSITION IDENTITY IS
\* CHECKED, NOT ASSUMED").
DeepTargetsOfTheirPosition ==
  proc = Idle /\ Verifies =>
    \A r \in 1 .. manifest :
      LET record == Loaded("deep")[r]
      IN \A leaf \in Range(record.target.answers) : leaf[1] = record.h

\* Where value-shards reports its ordering proved, every record has the root value of its
\* own position (distill-value-shards.mjs: a wrong pairing must not give a plausible set).
ValuesAreTheirOwn ==
  valued =>
    LET written == Joined(value)
    IN /\ Len(written) = Len(plies)
       /\ \A r \in DOMAIN written :
            written[r] = [h |-> plies[r].h, root |-> TargetOf(plies[r].h, "deep", plies[r].seed)]

\* Whatever was killed and resumed, sets that verify accepts pair, and values that are
\* reported proved are their own, so long as nothing was made anew of which other files
\* had been made: shards of the same plies and targets can only grow.
SetsOfOneMaking == ~remade => VerifiedSetsPair /\ ValuesAreTheirOwn
=============================================================================
