-------------------------------- MODULE BestMove --------------------------------
(***************************************************************************)
(* /api/bestmove of play-server.mjs: the search every move is served from, *)
(* the inference servers it asks about its leaves, the evaluation cache    *)
(* that requests share with --batch above 1, and the guard that refuses a  *)
(* move the network did not shape.                                         *)
(*                                                                         *)
(* A request runs without interruption from one answer of the inference    *)
(* server to the next question put to it, and requests of several players  *)
(* interleave at those points.  A cache key is the position itself: the    *)
(* feature bytes determine it and nothing else.                            *)
(***************************************************************************)
EXTENDS NetGuard, SequencesExt

CONSTANTS
  Browsers,   \* browsers with a game against the server
  Nets,      \* the inference servers of the roster, or the only one
  Keys,      \* the positions searched, by their feature bytes
  Walls,     \* the walls on the board of each position
  Legal,     \* its legal moves, counted
  Level,     \* the positions whose legal logits coincide
  BatchSize, \* leaves per round trip
  MaxLeaves, \* bound on the leaves of a search
  Constant,  \* the policy of a network that ignores its input
  NoRecord

ASSUME WallsAssumption == Walls \in [Keys -> Nat] /\ Legal \in [Keys -> Nat] /\ Level \subseteq Keys
ASSUME BatchAssumption == {BatchSize, MaxLeaves} \subseteq Nat \ {0}
ASSUME NetsAssumption == Nets # {}
ASSUME DistinctAssumption == {Garbage, Blind, Constant} \intersect (Nets \X Keys) = {}

VARIABLES
  healthy,    \* the inference servers answer, and answer sensibly, from now on
  batched,    \* --batch is above 1, so that the cache is used
  buckets,    \* evalCache.buckets, in the order the Map holds them
  generation, \* evalCache.generation
  request,    \* per player: what was asked, and how far its search has come
  owed,       \* the players whose last request failed
  fed         \* history: per player, every [key, answer] the search under way was fed

moveVars == <<healthy, batched, buckets, generation, request, owed, fed>>

\* What a network says of a position: the policy and the value of that position.
Says(net, key) == [policy |-> <<net, key>>, value |-> <<net, key>>]

\* A network that is unwell may say the same of every position, or what no search can use.
Wrong(net, key) ==
  {[Says(net, key) EXCEPT !.value = Garbage], [Says(net, key) EXCEPT !.policy = Blind],
   [policy |-> Constant, value |-> Constant]}

Reachable(root) == {key \in Keys : Walls[key] >= Walls[root]}

\* The first collectLeaves of a search hands out its root, the later ones the leaves the
\* tree has come to, one without --batch; the same position may arrive more than once.
LeavesOf(r) ==
  IF r.stage = "asked" THEN {<<r.root>>}
  ELSE BoundedSeq(Reachable(r.root), Min({IF batched THEN BatchSize ELSE 1, MaxLeaves - r.guard.leaves}))
       \ {<<>>}

Idle == [stage |-> "idle"]
Asked(net, root) == [stage |-> "asked", net |-> net, root |-> root, guard |-> Fresh]

MoveInit ==
  /\ healthy \in BOOLEAN
  /\ batched \in BOOLEAN
  /\ buckets = <<>>
  /\ generation = 0
  /\ request = [p \in Browsers |-> Idle]
  /\ owed = [p \in Browsers |-> Idle]
  /\ fed = [p \in Browsers |-> {}]

-----------------------------------------------------------------------------
(* The roster.                                                             *)

\* pick: an opponent that is not on the roster is the default one.
Pick(asked, default) == IF asked \in Nets THEN asked ELSE default

-----------------------------------------------------------------------------
(* Some elements of an array, kept in their order.                         *)

\* The slot of i among the indices, and the index at a slot.
Slot(indices, i) == Cardinality({j \in indices : j <= i})
Nth(indices, slot) == CHOOSE i \in indices : Slot(indices, i) = slot

-----------------------------------------------------------------------------
(* The cache.                                                              *)

cacheLookup(key) ==
  LET holding == {b \in DOMAIN buckets : key \in DOMAIN buckets[b].held}
  IN  IF holding = {} \/ ~batched THEN NoRecord ELSE buckets[Min(holding)].held[key]

\* Storing several records in turn; found maps each key to the last one stored.
cacheStore(found) ==
  LET current == {b \in DOMAIN buckets : buckets[b].gen = generation}
  IN  IF ~batched THEN buckets
      ELSE IF current = {}
      THEN Append(buckets, [gen |-> generation, held |-> found])
      ELSE [b \in DOMAIN buckets |->
              IF b \in current
              THEN [buckets[b] EXCEPT !.held =
                      [k \in DOMAIN @ \union DOMAIN found |-> IF k \in DOMAIN found THEN found[k] ELSE @[k]]]
              ELSE buckets[b]]

cacheEvict(wallCount) ==
  LET kept == {b \in DOMAIN buckets : buckets[b].gen >= wallCount}
  IN  /\ generation' = wallCount
      /\ buckets' = [slot \in 1 .. Cardinality(kept) |-> buckets[Nth(kept, slot)]]

-----------------------------------------------------------------------------
(* One request.                                                            *)

Missing(leaves, known) == {i \in DOMAIN leaves : known[i] = NoRecord}

\* The answer to a batch of the missing leaves: every policy, then every value.
Replies(net, leaves, missing) ==
  LET n == Cardinality(missing)
      says(key) == {Says(net, key)} \union IF healthy THEN {} ELSE Wrong(net, key)
      all == UNION {says(leaves[i]) : i \in missing}
  IN  {[x \in 1 .. 2 * n |-> IF x <= n THEN given[Nth(missing, x)].policy ELSE given[Nth(missing, x - n)].value] :
         given \in {g \in [missing -> all] : \A i \in missing : g[i] \in says(leaves[i])}}

RecordInterleaved(out, n, slot) == [policy |-> out[2 * slot - 1], value |-> out[2 * slot]]
Record(out, n, slot) == [policy |-> out[slot], value |-> out[n + slot]]

\* classify on the leaves seen, then submitBatch; an unusable value throws, and a guard
\* that has seen enough stops the search.
Judged(r, leaves, known, seen) ==
  LET guard == Classified(r.guard, [i \in seen |-> known[i]],
                          [i \in seen |-> Contribution(known[i], Legal[leaves[i]], leaves[i] \in Level)])
  IN IF \E i \in DOMAIN leaves : known[i].value = Garbage
     THEN Idle
     ELSE [stage |-> IF Doomed(guard) \/ guard.leaves >= MaxLeaves THEN "searched" ELSE "searching",
           net |-> r.net, root |-> r.root, guard |-> guard]

SubmittedFromMisses(r, leaves, known) ==
  Judged(r, leaves, known, {i \in DOMAIN leaves : cacheLookup(leaves[i]) = NoRecord})
Submitted(r, leaves, known) == Judged(r, leaves, known, DOMAIN leaves)

Fed(p, leaves, known) ==
  fed' = [fed EXCEPT ![p] = @ \union {[key |-> leaves[i], answer |-> known[i]] : i \in DOMAIN leaves}]

\* The page asks for a move, or asks again after a 500; the seed is left out.
Ask(p, asked, root) ==
  LET net == Pick(asked, CHOOSE first \in Nets : TRUE)
  IN /\ request[p] = Idle
     /\ owed[p] \in {Idle, Asked(net, root)}
     /\ request' = [request EXCEPT ![p] = Asked(net, root)]
     /\ owed' = [owed EXCEPT ![p] = Asked(net, root)]
     /\ fed' = [fed EXCEPT ![p] = {}]
     /\ UNCHANGED <<healthy, batched, buckets, generation>>

\* Leaves the cache knows are answered from it; the rest go to the network.
CollectLeaves(p, leaves) ==
  LET r == request[p]
      known == [i \in DOMAIN leaves |-> cacheLookup(leaves[i])]
  IN  /\ IF Missing(leaves, known) = {}
         THEN /\ request' = [request EXCEPT ![p] = Submitted(r, leaves, known)]
              /\ Fed(p, leaves, known)
         ELSE /\ request' = [request EXCEPT ![p] =
                   [stage |-> "waiting", net |-> r.net, root |-> r.root, guard |-> r.guard,
                    leaves |-> leaves, known |-> known]]
              /\ UNCHANGED fed
      /\ UNCHANGED <<healthy, batched, buckets, generation, owed>>

\* The records are stored before the guard has looked at any of them.
Answered(p, out) ==
  LET r == request[p]
      missing == Missing(r.leaves, r.known)
      known == [i \in DOMAIN r.leaves |->
                  IF i \notin missing THEN r.known[i]
                  ELSE Record(out, Cardinality(missing), Slot(missing, i))]
      fresh == {r.leaves[i] : i \in missing}
      last(key) == Max({i \in missing : r.leaves[i] = key})
  IN  /\ buckets' = cacheStore([key \in fresh |-> known[last(key)]])
      /\ request' = [request EXCEPT ![p] = Submitted(r, r.leaves, known)]
      /\ Fed(p, r.leaves, known)
      /\ UNCHANGED <<healthy, batched, generation, owed>>

\* A refused connection, a 60 s timeout, a non-200 or a body of the wrong length.
InferenceFails(p) ==
  /\ ~healthy
  /\ request[p].stage = "waiting"
  /\ request' = [request EXCEPT ![p] = Idle]
  /\ UNCHANGED <<healthy, batched, buckets, generation, owed, fed>>

\* The simulations are spent, or the guard is doomed: finish throws, or the cache is
\* trimmed and the move served.
Serve(p) ==
  /\ request[p].stage \in {"searching", "searched"}
  /\ request' = [request EXCEPT ![p] = Idle]
  /\ IF Finishes(request[p].guard)
     THEN /\ cacheEvict(Walls[request[p].root])
          /\ owed' = [owed EXCEPT ![p] = Idle]
     ELSE UNCHANGED <<buckets, generation, owed>>
  /\ UNCHANGED <<healthy, batched, fed>>

Heal ==
  /\ ~healthy
  /\ healthy' = TRUE
  /\ UNCHANGED <<batched, buckets, generation, request, owed, fed>>

Collects(p) ==
  /\ request[p].stage \in {"asked", "searching"}
  /\ \E leaves \in LeavesOf(request[p]) : CollectLeaves(p, leaves)

Receives(p) ==
  /\ request[p].stage = "waiting"
  /\ \E out \in Replies(request[p].net, request[p].leaves, Missing(request[p].leaves, request[p].known)) :
       Answered(p, out)

Asks(p) == \E net \in Nets \union {"unknown"}, root \in Keys : Ask(p, net, root)

MoveNext ==
  \/ Heal
  \/ \E p \in Browsers : Asks(p) \/ Collects(p) \/ Receives(p) \/ InferenceFails(p) \/ Serve(p)

MoveSpec == MoveInit /\ [][MoveNext]_moveVars

-----------------------------------------------------------------------------
(* Properties.                                                             *)

\* Whatever is interleaved, repeated, cached or spoilt, what a search is fed for a leaf
\* is one whole answer of its own network to a question about that very position (the
\* comment above evalCache: serving a repeat from memory is bit-identical to asking
\* again), and while no network has been unwell it is what the network says of it.
FedWhatItsNetworkSays ==
  \A p \in Browsers : request[p] # Idle =>
    \A leaf \in fed[p] :
      leaf.answer \in {Says(request[p].net, leaf.key)} \union Wrong(request[p].net, leaf.key)

\* "EVERY served move comes from the network, or no move is served at all" (the comment
\* above aiMove), a cached answer being no exception: of all that a served search was
\* fed, no leaf lacked priors, some leaf was told its moves apart, and two leaves that
\* are different positions were not all answered alike.
ServedMovesAreTheNetworks ==
  [][\A p \in Browsers :
       owed[p] # Idle /\ owed'[p] = Idle =>
         /\ \A leaf \in fed[p] : leaf.answer.policy # Blind /\ leaf.answer.value # Garbage
         /\ \E leaf \in fed[p] : leaf.key \notin Level
         /\ Cardinality({leaf.key : leaf \in fed[p]}) > 1 => Cardinality({leaf.answer : leaf \in fed[p]}) > 1
    ]_moveVars

================================================================================
