--------------------------- MODULE PlayServer_proofs ---------------------------
(***************************************************************************)
(* Proofs about the parts of the play server and its page, one after       *)
(* another: the moves it serves, the games of the /dev board, the store of *)
(* finished games, and the page.                                           *)
(***************************************************************************)
EXTENDS BestMove, DevGames, PlayStore, PlayPage, FiniteSetTheorems, WellFoundedInduction, TLAPS

-----------------------------------------------------------------------------
(* Indices.                                                                *)

\* A nonempty set of indices has a first one.
LEMMA FirstIndex ==
  ASSUME NEW n \in Nat, NEW I \in SUBSET (1 .. n), I # {}
  PROVE  Min(I) \in I
<1> DEFINE R == OpToRel(<, Nat)
<1>1. I \subseteq Nat
  OBVIOUS
<1>2. PICK i \in I : \A j \in I : ~(<<j, i>> \in R)
  <2> HIDE DEF R
  <2>1. IsWellFoundedOn(R, Nat)
    BY NatLessThanWellFounded DEF R
  <2> QED BY <1>1, <2>1, WFMin
<1>3. \A j \in I : ~(j < i)
  BY <1>1, <1>2 DEF OpToRel
<1>4. \A j \in I : i =< j
  BY <1>1, <1>3
<1> QED BY <1>4 DEF Min

\* A nonempty set of indices has a last one.
LEMMA LastIndex ==
  ASSUME NEW n \in Nat, NEW I \in SUBSET (1 .. n), I # {}
  PROVE  Max(I) \in I
<1> DEFINE D == {n - i : i \in I}
           R == OpToRel(<, Nat)
<1>1. D \subseteq Nat /\ D # {}
  <2>1. \A i \in I : i \in Int /\ 1 <= i /\ i <= n
    OBVIOUS
  <2>2. \A i \in I : n - i \in Nat
    BY <2>1
  <2> QED BY <2>2
<1>2. PICK d \in D : \A e \in D : ~(<<e, d>> \in R)
  <2> HIDE DEF D, R
  <2>1. IsWellFoundedOn(R, Nat)
    BY NatLessThanWellFounded DEF R
  <2> QED BY <1>1, <2>1, WFMin
<1>3. \A e \in D : ~(e < d)
  BY <1>1, <1>2 DEF OpToRel
<1>4. PICK i \in I : d = n - i
  OBVIOUS
<1>5. \A j \in I : i >= j
  <2> SUFFICES ASSUME NEW j \in I PROVE i >= j
    OBVIOUS
  <2>1. n - j \in D
    OBVIOUS
  <2>2. ~(n - j < n - i)
    BY <1>3, <1>4, <2>1
  <2>3. i \in Nat /\ j \in Nat
    OBVIOUS
  <2> HIDE DEF D, R
  <2> QED BY ONLY <2>2, <2>3, n \in Nat
<1> QED BY <1>5 DEF Max

\* The slots of some indices are numbered in turn.
LEMMA Slots ==
  ASSUME NEW n \in Nat, NEW I \in SUBSET (1 .. n)
  PROVE  /\ IsFiniteSet(I) /\ Cardinality(I) \in Nat
         /\ \A i \in I : Slot(I, i) \in 1 .. Cardinality(I) /\ Nth(I, Slot(I, i)) = i
         /\ \A x \in 1 .. Cardinality(I) : Nth(I, x) \in I
<1> DEFINE upTo(i) == {j \in I : j <= i}
           slots == [i \in I |-> Slot(I, i)]
<1>1. IsFiniteSet(I) /\ Cardinality(I) \in Nat
  <2>1. IsFiniteSet(1 .. n)
    BY FS_Interval
  <2> QED BY <2>1, FS_Subset, FS_CardinalityType
<1>2. ASSUME NEW i \in I
      PROVE  Slot(I, i) \in 1 .. Cardinality(I)
  <2>1. upTo(i) \in SUBSET I /\ i \in upTo(i)
    OBVIOUS
  <2> HIDE DEF upTo
  <2>2. IsFiniteSet(upTo(i)) /\ Cardinality(upTo(i)) <= Cardinality(I) /\ Cardinality(upTo(i)) \in Nat
    BY <1>1, <2>1, FS_Subset, FS_CardinalityType
  <2>3. Cardinality(upTo(i)) # 0
    BY <2>1, <2>2, FS_EmptySet
  <2> QED BY <1>1, <2>2, <2>3 DEF Slot, upTo
<1>3. ASSUME NEW i \in I, NEW j \in I, i < j
      PROVE  Slot(I, i) # Slot(I, j)
  <2>1. upTo(i) \in SUBSET upTo(j) /\ j \in upTo(j) /\ j \notin upTo(i) /\ upTo(j) \in SUBSET I
    <3>1. i \in Int /\ j \in Int
      OBVIOUS
    <3>2. \A k \in I : k \in Int /\ (k <= i => k <= j)
      BY <1>3, <3>1
    <3>3. upTo(i) \in SUBSET upTo(j)
      BY <3>2
    <3>4. j \in upTo(j) /\ j \notin upTo(i)
      BY <1>3, <3>1
    <3> QED BY <3>3, <3>4
  <2> HIDE DEF upTo
  <2>2. IsFiniteSet(upTo(j)) /\ upTo(i) # upTo(j)
    BY <1>1, <2>1, FS_Subset
  <2>3. Cardinality(upTo(j)) # Cardinality(upTo(i))
    BY <2>1, <2>2, FS_Subset
  <2> QED BY <2>3 DEF Slot, upTo
<1>4. \A i, j \in I : Slot(I, i) = Slot(I, j) => i = j
  <2>1. I \subseteq Int
    OBVIOUS
  <2> QED BY <1>3, <2>1
<1>5. \A i \in I : Nth(I, Slot(I, i)) = i
  BY <1>4 DEF Nth
<1>6. \A x \in 1 .. Cardinality(I) : \E i \in I : Slot(I, i) = x
  <2>1. slots \in Injection(I, 1 .. Cardinality(I))
    BY <1>2, <1>4 DEF Injection, IsInjective
  <2> HIDE DEF slots
  <2>2. IsFiniteSet(1 .. Cardinality(I)) /\ Cardinality(1 .. Cardinality(I)) = Cardinality(I)
    BY <1>1, FS_Interval
  <2>3. slots \in Surjection(I, 1 .. Cardinality(I))
    BY <2>1, <2>2, FS_Injection
  <2> QED BY <2>3 DEF Surjection, slots
<1>7. \A x \in 1 .. Cardinality(I) : Nth(I, x) \in I
  BY <1>6 DEF Nth
<1> QED BY <1>1, <1>2, <1>5, <1>7

-----------------------------------------------------------------------------
(* Served moves, for any browsers, networks, positions, batches and bounds. *)
(* What a search was fed and what its guard has counted agree (Witnessed)  *)
(* however requests interleave and whatever the cache answers, so that a   *)
(* guard that lets a move out has seen what it stands for.  Where the      *)
(* cache belongs to one network, what it holds is what that network says.  *)

\* The guard of a search and what the search was fed.
Witnessed(g, F) ==
  /\ g.leaves \in Nat /\ g.informed \in Nat /\ g.blind \in Nat /\ g.maskEmpty \in Nat
  /\ \A leaf \in F : leaf.answer.value # Garbage
  /\ g.blind = 0 /\ g.maskEmpty = 0 => \A leaf \in F : leaf.answer.policy # Blind
  /\ g.informed > 0 => \E leaf \in F : leaf.key \notin Level
  /\ g.first = <<>> => F = {}
  /\ g.first # <<>> => \E leaf \in F : g.first = <<leaf.answer>>
  /\ g.allIdentical \/ \E l, m \in F : l.answer # m.answer
  /\ g.leaves = 0 => F = {}
  /\ g.leaves <= 1 => \A l, m \in F : l = m

FedLeaves(leaves, known) == {[key |-> leaves[i], answer |-> known[i]] : i \in DOMAIN leaves}

GuardAfter(g, leaves, known) ==
  Classified(g, [i \in DOMAIN leaves |-> known[i]],
             [i \in DOMAIN leaves |-> Contribution(known[i], Legal[leaves[i]], leaves[i] \in Level)])

\* A leaf without priors, and one that counts as informed.
LEMMA Contributes ==
  ASSUME NEW answer, NEW legal \in Nat, NEW levelled \in BOOLEAN
  PROVE  /\ answer.policy = Blind => Contribution(answer, legal, levelled) \in {"maskEmpty", "blind"}
         /\ Contribution(answer, legal, levelled) = "informed" => ~levelled
<1>1. CASE legal = 0
  BY <1>1 DEF Contribution
<1>2. CASE legal # 0 /\ answer.policy = Blind
  BY <1>2 DEF Contribution
<1>3. CASE legal # 0 /\ answer.policy # Blind /\ levelled = TRUE
  <2>1. CASE legal >= 3
    BY <1>3, <2>1 DEF Contribution
  <2>2. CASE ~(legal >= 3)
    BY <1>3, <2>2 DEF Contribution
  <2> QED BY <2>1, <2>2
<1>4. CASE legal # 0 /\ answer.policy # Blind /\ levelled = FALSE
  BY <1>4 DEF Contribution
<1> QED BY <1>1, <1>2, <1>3, <1>4

\* A batch of answers with usable values.
LEMMA WitnessedGrows ==
  ASSUME NEW g, NEW F, Witnessed(g, F), NEW leaves \in Seq(Keys), leaves # <<>>, NEW known,
         \A i \in DOMAIN leaves : known[i].value # Garbage
  PROVE  Witnessed(GuardAfter(g, leaves, known), F \union FedLeaves(leaves, known))
<1> DEFINE h == GuardAfter(g, leaves, known)
           seen == DOMAIN leaves
           counter(i) == Contribution(known[i], Legal[leaves[i]], leaves[i] \in Level)
           in(c) == {i \in seen : counter(i) = c}
           fedNow(i) == [key |-> leaves[i], answer |-> known[i]]
           G == F \union FedLeaves(leaves, known)
<1>1. seen = 1 .. Len(leaves) /\ Len(leaves) \in Nat /\ Len(leaves) >= 1
  OBVIOUS
<1>2. /\ IsFiniteSet(seen) /\ Cardinality(seen) = Len(leaves)
      /\ Min(seen) \in seen
  <2>1. IsFiniteSet(1 .. Len(leaves)) /\ Cardinality(1 .. Len(leaves)) = Len(leaves)
    BY <1>1, FS_Interval
  <2>2. Min(1 .. Len(leaves)) \in 1 .. Len(leaves)
    <3>1. 1 .. Len(leaves) # {} /\ 1 .. Len(leaves) \in SUBSET (1 .. Len(leaves))
      BY <1>1
    <3> QED BY <1>1, <3>1, FirstIndex
  <2> QED BY <1>1, <2>1, <2>2
<1>3. \A c : IsFiniteSet(in(c)) /\ Cardinality(in(c)) \in Nat /\ (Cardinality(in(c)) = 0 => in(c) = {})
            /\ (in(c) = {} => Cardinality(in(c)) = 0)
  <2> SUFFICES ASSUME NEW c
               PROVE  /\ IsFiniteSet(in(c)) /\ Cardinality(in(c)) \in Nat /\ (Cardinality(in(c)) = 0 => in(c) = {})
                      /\ (in(c) = {} => Cardinality(in(c)) = 0)
    OBVIOUS
  <2>1. in(c) \in SUBSET seen
    OBVIOUS
  <2> HIDE DEF in, seen
  <2> QED BY <1>2, <2>1, FS_Subset, FS_CardinalityType, FS_EmptySet
<1>4. /\ h.leaves = g.leaves + Cardinality(seen)
      /\ h.informed = g.informed + Cardinality(in("informed"))
      /\ h.blind = g.blind + Cardinality(in("blind"))
      /\ h.maskEmpty = g.maskEmpty + Cardinality(in("maskEmpty"))
      /\ h.first = IF g.first # <<>> THEN g.first ELSE <<known[Min(seen)]>>
      /\ h.allIdentical = (g.allIdentical /\ \A i \in seen : h.first = <<known[i]>>)
  <2> DEFINE answers == [i \in seen |-> known[i]]
             counters == [i \in seen |-> counter(i)]
  <2>1. DOMAIN answers = seen /\ \A i \in seen : answers[i] = known[i] /\ counters[i] = counter(i)
    OBVIOUS
  <2>2. \A c : {i \in seen : counters[i] = c} = in(c)
    BY <2>1
  <2>3. h = Classified(g, answers, counters)
    BY DEF GuardAfter
  <2>4. seen # {}
    BY <1>2
  <2> HIDE DEF answers, counters, seen, in, h, counter
  <2>5. answers[Min(seen)] = known[Min(seen)]
    BY <1>2, <2>1
  <2> QED BY <2>1, <2>2, <2>3, <2>4, <2>5 DEF Classified
<1>5. G = F \union {fedNow(i) : i \in seen} /\ \A i \in seen : fedNow(i) \in G
  BY DEF FedLeaves
<1>6. \A i \in seen : fedNow(i).key = leaves[i] /\ fedNow(i).answer = known[i]
  OBVIOUS
<1>7. \A i \in seen : /\ known[i].policy = Blind => counter(i) \in {"maskEmpty", "blind"}
                      /\ counter(i) = "informed" => leaves[i] \notin Level
  <2> SUFFICES ASSUME NEW i \in seen
               PROVE  /\ known[i].policy = Blind => counter(i) \in {"maskEmpty", "blind"}
                      /\ counter(i) = "informed" => leaves[i] \notin Level
    OBVIOUS
  <2>1. Legal[leaves[i]] \in Nat /\ (leaves[i] \in Level) \in BOOLEAN
    BY WallsAssumption
  <2> QED BY <2>1, Contributes
<1>8. /\ g.leaves \in Nat /\ g.informed \in Nat /\ g.blind \in Nat /\ g.maskEmpty \in Nat
      /\ Cardinality(in("informed")) \in Nat /\ Cardinality(in("blind")) \in Nat
      /\ Cardinality(in("maskEmpty")) \in Nat
  BY <1>3 DEF Witnessed
<1>20. \A i \in in("informed") : i \in seen /\ counter(i) = "informed"
  OBVIOUS
<1>21. \A i \in seen : i \in in(counter(i))
  OBVIOUS
<1>22. G = F \union {fedNow(i) : i \in seen}
  BY <1>5
<1> HIDE DEF h, seen, counter, in, fedNow, G
<1>9. h.leaves \in Nat /\ h.informed \in Nat /\ h.blind \in Nat /\ h.maskEmpty \in Nat
  <2>1. Cardinality(seen) \in Nat
    BY <1>1, <1>2
  <2>2. h.leaves \in Nat
    BY <1>4, <1>8, <2>1
  <2>3. h.informed \in Nat
    BY <1>4, <1>8
  <2>4. h.blind \in Nat
    BY <1>4, <1>8
  <2>5. h.maskEmpty \in Nat
    BY <1>4, <1>8
  <2> QED BY <2>2, <2>3, <2>4, <2>5
<1>10. \A leaf \in G : leaf.answer.value # Garbage
  BY <1>5, <1>6 DEF Witnessed, seen
<1>11. h.blind = 0 /\ h.maskEmpty = 0 => \A leaf \in G : leaf.answer.policy # Blind
  <2> SUFFICES ASSUME h.blind = 0, h.maskEmpty = 0 PROVE \A leaf \in G : leaf.answer.policy # Blind
    OBVIOUS
  <2>1. g.blind = 0 /\ g.maskEmpty = 0 /\ Cardinality(in("blind")) = 0 /\ Cardinality(in("maskEmpty")) = 0
    BY <1>4, <1>8
  <2>2. in("blind") = {} /\ in("maskEmpty") = {}
    BY <1>3, <2>1
  <2>3. \A i \in seen : known[i].policy # Blind
    BY <1>7, <1>21, <2>2
  <2> QED BY <1>5, <1>6, <2>1, <2>3 DEF Witnessed
<1>12. h.informed > 0 => \E leaf \in G : leaf.key \notin Level
  <2> SUFFICES ASSUME h.informed > 0 PROVE \E leaf \in G : leaf.key \notin Level
    OBVIOUS
  <2>1. CASE g.informed > 0
    BY <2>1, <1>5 DEF Witnessed
  <2>2. CASE in("informed") # {}
    BY <2>2, <1>5, <1>6, <1>7, <1>20
  <2>3. g.informed > 0 \/ Cardinality(in("informed")) # 0
    BY <1>4, <1>8
  <2> QED BY <1>3, <2>1, <2>2, <2>3
<1>13. \E leaf \in G : h.first = <<leaf.answer>>
  <2>1. CASE g.first # <<>>
    BY <2>1, <1>4, <1>5 DEF Witnessed
  <2>2. CASE g.first = <<>>
    BY <2>2, <1>2, <1>4, <1>5, <1>6
  <2> QED BY <2>1, <2>2
<1>14. h.first # <<>>
  BY <1>13
<1>15. h.allIdentical \/ \E l, m \in G : l.answer # m.answer
  <2>1. CASE ~g.allIdentical
    BY <2>1, <1>5 DEF Witnessed
  <2>2. CASE \E i \in seen : h.first # <<known[i]>>
    <3>1. PICK i \in seen : h.first # <<known[i]>>
      BY <2>2
    <3>2. PICK leaf \in G : h.first = <<leaf.answer>>
      BY <1>13
    <3> QED BY <1>5, <1>6, <3>1, <3>2
  <2> QED BY <1>4, <2>1, <2>2
<1>16. h.leaves # 0
  BY <1>1, <1>2, <1>4, <1>8
<1>17. h.leaves <= 1 => \A l, m \in G : l = m
  <2> SUFFICES ASSUME h.leaves <= 1 PROVE \A l, m \in G : l = m
    OBVIOUS
  <2>1. g.leaves = 0 /\ Len(leaves) = 1
    BY <1>1, <1>2, <1>4, <1>8
  <2>2. F = {} /\ seen = 1 .. 1
    BY <1>1, <2>1 DEF Witnessed
  <2> QED BY <1>5, <2>2
<1>18. Witnessed(h, G)
  BY <1>9, <1>10, <1>11, <1>12, <1>13, <1>14, <1>15, <1>16, <1>17 DEF Witnessed
<1> QED BY <1>18 DEF h, G

\* A search has been fed what its guard has counted, and knows what it waits for.
SearchOf(r, F) ==
  /\ r.stage \in {"asked", "searching", "searched", "waiting"}
  /\ r.net \in Nets /\ r.root \in Keys
  /\ Witnessed(r.guard, F) /\ IsFiniteSet(F)
  /\ r.stage = "waiting" => r.leaves \in Seq(Keys) \ {<<>>}

Searched(p) == request[p] # Idle => SearchOf(request[p], fed[p])

SearchInv ==
  /\ request = [p \in Browsers |-> request[p]] /\ fed = [p \in Browsers |-> fed[p]]
  /\ owed = [p \in Browsers |-> owed[p]]
  /\ \A p \in Browsers : Searched(p)

\* The requests of the other browsers are none of a request's business.
LEMMA OthersSearch ==
  ASSUME SearchInv, NEW p \in Browsers, NEW r, NEW F,
         request' = [request EXCEPT ![p] = r], fed' = [fed EXCEPT ![p] = F],
         owed' = [q \in Browsers |-> owed'[q]],
         r # Idle => SearchOf(r, F)
  PROVE  SearchInv'
<1>1. /\ request' = [q \in Browsers |-> request'[q]] /\ fed' = [q \in Browsers |-> fed'[q]]
      /\ owed' = [q \in Browsers |-> owed'[q]]
  BY DEF SearchInv
<1>2. request'[p] = r /\ fed'[p] = F
  BY DEF SearchInv
<1>3. \A q \in Browsers \ {p} : request'[q] = request[q] /\ fed'[q] = fed[q]
  BY DEF SearchInv
<1>4. Searched(p)'
  BY <1>2 DEF Searched
<1>5. ASSUME NEW q \in Browsers, q # p PROVE Searched(q)'
  BY <1>3, <1>5 DEF SearchInv, Searched
<1> QED BY <1>1, <1>4, <1>5 DEF SearchInv

\* A leaf of the batch, and the batches a search may hand out.
LEMMA LeavesTyped ==
  ASSUME NEW r, r.root \in Keys, r.guard.leaves \in Nat, NEW leaves \in LeavesOf(r)
  PROVE  leaves \in Seq(Keys) \ {<<>>}
<1>1. CASE r.stage = "asked"
  <2>1. leaves = <<r.root>>
    BY <1>1 DEF LeavesOf
  <2> QED BY <2>1
<1>2. CASE r.stage # "asked"
  <2> DEFINE size == IF batched THEN BatchSize ELSE 1
             n == Min({size, MaxLeaves - r.guard.leaves})
  <2>1. size \in Int /\ MaxLeaves - r.guard.leaves \in Int
    BY BatchAssumption
  <2>2. n \in {size, MaxLeaves - r.guard.leaves}
    <3>1. CASE size =< MaxLeaves - r.guard.leaves
      <4>1. size \in {size, MaxLeaves - r.guard.leaves} /\ \A y \in {size, MaxLeaves - r.guard.leaves} : size =< y
        BY <2>1, <3>1
      <4> QED BY <4>1 DEF Min
    <3>2. CASE MaxLeaves - r.guard.leaves =< size
      <4>1. /\ MaxLeaves - r.guard.leaves \in {size, MaxLeaves - r.guard.leaves}
            /\ \A y \in {size, MaxLeaves - r.guard.leaves} : MaxLeaves - r.guard.leaves =< y
        BY <2>1, <3>2
      <4> QED BY <4>1 DEF Min
    <3> QED BY <2>1, <3>1, <3>2
  <2>3. n \in Int
    BY <2>1, <2>2
  <2>4. leaves \in BoundedSeq(Reachable(r.root), n) \ {<<>>}
    BY <1>2 DEF LeavesOf
  <2> HIDE DEF n, size
  <2>5. PICK m \in 0 .. n : leaves \in [1 .. m -> Reachable(r.root)]
    BY <2>4 DEF BoundedSeq, SeqOf
  <2>6. m \in Nat /\ Reachable(r.root) \subseteq Keys
    BY <2>3 DEF Reachable
  <2> QED BY <2>4, <2>5, <2>6
<1> QED BY <1>1, <1>2

\* Answers to a batch, submitted.
LEMMA SubmittedSearch ==
  ASSUME NEW r, NEW F, SearchOf(r, F), NEW leaves \in Seq(Keys) \ {<<>>}, NEW known,
         Submitted(r, leaves, known) # Idle
  PROVE  SearchOf(Submitted(r, leaves, known), F \union FedLeaves(leaves, known))
<1> DEFINE g == GuardAfter(r.guard, leaves, known)
           s == Submitted(r, leaves, known)
<1>1. /\ \A i \in DOMAIN leaves : known[i].value # Garbage
      /\ s = [stage |-> IF Doomed(g) \/ g.leaves >= MaxLeaves THEN "searched" ELSE "searching",
              net |-> r.net, root |-> r.root, guard |-> g]
  BY DEF Submitted, Judged, GuardAfter
<1> HIDE DEF g, s
<1>2. s.stage \in {"searching", "searched"} /\ s.net = r.net /\ s.root = r.root /\ s.guard = g
  BY <1>1
<1>3. Witnessed(g, F \union FedLeaves(leaves, known))
  BY <1>1, WitnessedGrows DEF g, SearchOf
<1>4. IsFiniteSet(F \union FedLeaves(leaves, known))
  <2> DEFINE f == [i \in DOMAIN leaves |-> [key |-> leaves[i], answer |-> known[i]]]
  <2>1. IsFiniteSet(DOMAIN leaves)
    BY FS_Interval
  <2>2. f \in Surjection(DOMAIN leaves, FedLeaves(leaves, known))
    BY DEF Surjection, FedLeaves
  <2> HIDE DEF f
  <2>3. IsFiniteSet(FedLeaves(leaves, known))
    BY <2>1, <2>2, FS_Surjection
  <2> QED BY <2>3, FS_Union DEF SearchOf
<1> QED BY <1>2, <1>3, <1>4 DEF SearchOf, s

\* A guard that has seen nothing.
LEMMA FreshWitnessed == Witnessed(Fresh, {})
BY DEF Witnessed, Fresh

\* Every step of every request keeps what the guards have counted.
LEMMA StepSearchInv ==
  ASSUME SearchInv, [MoveNext]_moveVars
  PROVE  SearchInv'
<1>1. CASE UNCHANGED moveVars \/ Heal
  BY <1>1 DEF SearchInv, Searched, Heal, moveVars
<1>2. ASSUME NEW p \in Browsers, Asks(p) PROVE SearchInv'
  <2>1. PICK asked \in Nets \union {"unknown"}, root \in Keys : Ask(p, asked, root)
    BY <1>2 DEF Asks
  <2> DEFINE net == Pick(asked, CHOOSE first \in Nets : TRUE)
  <2>2. net \in Nets
    BY NetsAssumption DEF Pick
  <2>3. /\ request' = [request EXCEPT ![p] = Asked(net, root)]
        /\ owed' = [owed EXCEPT ![p] = Asked(net, root)] /\ fed' = [fed EXCEPT ![p] = {}]
    BY <2>1 DEF Ask
  <2> HIDE DEF net
  <2>4. SearchOf(Asked(net, root), {})
    BY <2>2, FreshWitnessed, FS_EmptySet DEF Asked, SearchOf
  <2>5. owed' = [q \in Browsers |-> owed'[q]]
    BY <2>3 DEF SearchInv
  <2> QED BY <2>3, <2>4, <2>5, OthersSearch
<1>3. ASSUME NEW p \in Browsers, Collects(p) PROVE SearchInv'
  <2>1. PICK leaves \in LeavesOf(request[p]) : CollectLeaves(p, leaves)
    BY <1>3 DEF Collects
  <2> DEFINE r == request[p]
             known == [i \in DOMAIN leaves |-> cacheLookup(leaves[i])]
             w == [stage |-> "waiting", net |-> r.net, root |-> r.root, guard |-> r.guard,
                   leaves |-> leaves, known |-> known]
             s == Submitted(r, leaves, known)
  <2>2. SearchOf(r, fed[p])
    BY <1>3 DEF Collects, Idle, SearchInv, Searched
  <2>3. leaves \in Seq(Keys) \ {<<>>}
    BY <2>2, LeavesTyped DEF SearchOf, Witnessed
  <2>4. owed' = [q \in Browsers |-> owed'[q]]
    BY <2>1 DEF CollectLeaves, SearchInv
  <2>5. CASE request' = [request EXCEPT ![p] = s] /\ Fed(p, leaves, known)
    <3>1. fed' = [fed EXCEPT ![p] = fed[p] \union FedLeaves(leaves, known)]
      BY <2>5 DEF Fed, FedLeaves, SearchInv
    <3>2. s # Idle => SearchOf(s, fed[p] \union FedLeaves(leaves, known))
      BY <2>2, <2>3, SubmittedSearch
    <3> HIDE DEF s, known
    <3> QED BY <2>4, <2>5, <3>1, <3>2, OthersSearch
  <2>6. CASE request' = [request EXCEPT ![p] = w] /\ UNCHANGED fed
    <3>1. SearchOf(w, fed[p])
      BY <2>2, <2>3 DEF SearchOf
    <3>2. fed' = [fed EXCEPT ![p] = fed[p]]
      BY <2>6 DEF SearchInv
    <3> HIDE DEF w
    <3> QED BY <2>4, <2>6, <3>1, <3>2, OthersSearch
  <2> QED BY <2>1, <2>5, <2>6 DEF CollectLeaves
<1>4. ASSUME NEW p \in Browsers, Receives(p) PROVE SearchInv'
  <2>1. PICK out : Answered(p, out)
    BY <1>4 DEF Receives
  <2> DEFINE r == request[p]
  <2>2. SearchOf(r, fed[p]) /\ r.leaves \in Seq(Keys) \ {<<>>}
    BY <1>4 DEF Receives, Idle, SearchInv, Searched, SearchOf
  <2>3. PICK known : /\ request' = [request EXCEPT ![p] = Submitted(r, r.leaves, known)]
                     /\ Fed(p, r.leaves, known)
                     /\ owed' = [q \in Browsers |-> owed'[q]]
    BY <2>1 DEF Answered, SearchInv
  <2> DEFINE s == Submitted(r, r.leaves, known)
  <2>4. fed' = [fed EXCEPT ![p] = fed[p] \union FedLeaves(r.leaves, known)]
    BY <2>3 DEF Fed, FedLeaves, SearchInv
  <2>5. s # Idle => SearchOf(s, fed[p] \union FedLeaves(r.leaves, known))
    BY <2>2, SubmittedSearch
  <2> HIDE DEF s
  <2>6. request' = [request EXCEPT ![p] = s]
    BY <2>3 DEF s
  <2> QED BY <2>3, <2>4, <2>5, <2>6, OthersSearch
<1>5. ASSUME NEW p \in Browsers, InferenceFails(p) \/ Serve(p) PROVE SearchInv'
  <2>1. /\ request' = [request EXCEPT ![p] = Idle] /\ UNCHANGED fed
        /\ owed' = [q \in Browsers |-> owed'[q]]
    BY <1>5 DEF InferenceFails, Serve, SearchInv
  <2>2. fed' = [fed EXCEPT ![p] = fed[p]]
    BY <2>1 DEF SearchInv
  <2> QED BY <2>1, <2>2, OthersSearch
<1> QED BY <1>1, <1>2, <1>3, <1>4, <1>5 DEF MoveNext

\* Two answers, or two positions, among what a search was fed.
LEMMA Several ==
  ASSUME NEW F, IsFiniteSet(F)
  PROVE  /\ Cardinality({leaf.key : leaf \in F}) > 1 => \E l, m \in F : l # m
         /\ (\E l, m \in F : l.answer # m.answer) => Cardinality({leaf.answer : leaf \in F}) > 1
<1>1. IsFiniteSet({leaf.key : leaf \in F}) /\ Cardinality({leaf.key : leaf \in F}) \in Nat
  <2> DEFINE f == [leaf \in F |-> leaf.key]
  <2>1. f \in Surjection(F, {leaf.key : leaf \in F})
    BY DEF Surjection
  <2> HIDE DEF f
  <2> QED BY <2>1, FS_Surjection, FS_CardinalityType
<1>2. IsFiniteSet({leaf.answer : leaf \in F}) /\ Cardinality({leaf.answer : leaf \in F}) \in Nat
  <2> DEFINE f == [leaf \in F |-> leaf.answer]
  <2>1. f \in Surjection(F, {leaf.answer : leaf \in F})
    BY DEF Surjection
  <2> HIDE DEF f
  <2> QED BY <2>1, FS_Surjection, FS_CardinalityType
<1>3. ASSUME \A l, m \in F : l = m PROVE ~(Cardinality({leaf.key : leaf \in F}) > 1)
  <2>1. CASE F = {}
    <3>1. {leaf.key : leaf \in F} = {}
      BY <2>1
    <3>2. Cardinality({leaf.key : leaf \in F}) = 0
      BY <3>1, FS_EmptySet
    <3> QED BY <3>2
  <2>2. CASE F # {}
    <3>1. PICK l \in F : TRUE
      BY <2>2
    <3>2. {leaf.key : leaf \in F} = {l.key}
      BY <1>3, <3>1
    <3>3. Cardinality({leaf.key : leaf \in F}) = 1
      BY <3>2, FS_Singleton
    <3> QED BY <3>3
  <2> QED BY <2>1, <2>2
<1>4. ASSUME NEW l \in F, NEW m \in F, l.answer # m.answer PROVE Cardinality({leaf.answer : leaf \in F}) > 1
  <2> DEFINE A == {leaf.answer : leaf \in F}
  <2>1. l.answer \in A /\ m.answer \in A
    OBVIOUS
  <2> HIDE DEF A
  <2>2. Cardinality(A) # 0 /\ Cardinality(A) # 1
    BY <1>2, <1>4, <2>1, FS_EmptySet, FS_Singleton DEF A
  <2> QED BY <1>2, <2>2 DEF A
<1> QED BY <1>3, <1>4

\* ServedMovesAreTheNetworks of BestMove: whichever networks are unwell, whatever is
\* cached or repeated and however requests interleave, a move that is served was shaped by
\* the answers its own search was fed.
THEOREM ServedMovesAreShaped == MoveSpec => ServedMovesAreTheNetworks
<1>1. MoveInit => SearchInv
  BY DEF MoveInit, SearchInv, Searched
<1>2. SearchInv /\ [MoveNext]_moveVars => SearchInv'
  BY StepSearchInv
<1>3. SearchInv /\ [MoveNext]_moveVars =>
        [\A p \in Browsers :
           owed[p] # Idle /\ owed'[p] = Idle =>
             /\ \A leaf \in fed[p] : leaf.answer.policy # Blind /\ leaf.answer.value # Garbage
             /\ \E leaf \in fed[p] : leaf.key \notin Level
             /\ Cardinality({leaf.key : leaf \in fed[p]}) > 1 => Cardinality({leaf.answer : leaf \in fed[p]}) > 1
        ]_moveVars
  <2> SUFFICES ASSUME SearchInv, MoveNext, NEW p \in Browsers, owed[p] # Idle, owed'[p] = Idle
               PROVE  /\ \A leaf \in fed[p] : leaf.answer.policy # Blind /\ leaf.answer.value # Garbage
                      /\ \E leaf \in fed[p] : leaf.key \notin Level
                      /\ Cardinality({leaf.key : leaf \in fed[p]}) > 1
                           => Cardinality({leaf.answer : leaf \in fed[p]}) > 1
    OBVIOUS
  <2>1. Serve(p) /\ Finishes(request[p].guard)
    <3>1. CASE Heal
      BY <3>1 DEF Heal
    <3>2. ASSUME NEW q \in Browsers, Asks(q) PROVE FALSE
      <4>1. PICK o : o # Idle /\ owed' = [owed EXCEPT ![q] = o]
        BY <3>2 DEF Asks, Ask, Asked, Idle
      <4> QED BY <4>1 DEF SearchInv
    <3>3. ASSUME NEW q \in Browsers, Collects(q) \/ Receives(q) \/ InferenceFails(q) PROVE FALSE
      BY <3>3 DEF Collects, CollectLeaves, Receives, Answered, InferenceFails
    <3>4. ASSUME NEW q \in Browsers, Serve(q) PROVE Serve(p) /\ Finishes(request[p].guard)
      <4>1. owed' # owed
        OBVIOUS
      <4>2. Finishes(request[q].guard) /\ owed' = [owed EXCEPT ![q] = Idle]
        BY <3>4, <4>1 DEF Serve
      <4>3. p = q
        BY <4>2 DEF SearchInv
      <4> QED BY <3>4, <4>2, <4>3
    <3> QED BY <3>1, <3>2, <3>3, <3>4 DEF MoveNext
  <2>2. request[p] # Idle
    BY <2>1 DEF Serve, Idle
  <2> DEFINE g == request[p].guard
             F == fed[p]
  <2>3. Witnessed(g, F) /\ IsFiniteSet(F)
    BY <2>2 DEF SearchInv, Searched, SearchOf
  <2>4. g.maskEmpty = 0 /\ g.blind = 0 /\ g.informed > 0 /\ ~(g.leaves >= 2 /\ g.allIdentical)
    BY <2>1 DEF Finishes
  <2> HIDE DEF g, F
  <2>5. /\ \A leaf \in F : leaf.answer.policy # Blind /\ leaf.answer.value # Garbage
        /\ \E leaf \in F : leaf.key \notin Level
    BY <2>3, <2>4 DEF Witnessed
  <2>6. ASSUME Cardinality({leaf.key : leaf \in F}) > 1 PROVE Cardinality({leaf.answer : leaf \in F}) > 1
    <3>1. \E l, m \in F : l # m
      BY <2>3, <2>6, Several
    <3>2. g.leaves \in Nat /\ ~(g.leaves <= 1)
      BY <2>3, <3>1 DEF Witnessed
    <3>3. ~g.allIdentical
      BY <2>4, <3>2
    <3> QED BY <2>3, <3>3, Several DEF Witnessed
  <2> QED BY <2>5, <2>6 DEF F
<1> QED BY <1>1, <1>2, <1>3, PTL DEF MoveSpec, ServedMovesAreTheNetworks

\* What a network may say of a position, well or unwell.
Good(net, key) == {Says(net, key)} \union Wrong(net, key)

OneNet == \A a, b \in Nets : a = b

\* A bucket whose records are answers of every network of the roster.
Bucket ==
  [gen : Nat,
   held : {h \in UNION {[D -> UNION {Good(net, key) : net \in Nets, key \in Keys}] : D \in SUBSET Keys} :
             \A key \in DOMAIN h, net \in Nets : h[key] \in Good(net, key)}]

\* What a request knows and was fed is its own network's.
FedOf(r, F) ==
  /\ \A leaf \in F : leaf.answer \in Good(r.net, leaf.key)
  /\ r.stage = "waiting" =>
       \A i \in DOMAIN r.leaves : r.known[i] = NoRecord \/ r.known[i] \in Good(r.net, r.leaves[i])

FedInv ==
  /\ SearchInv
  /\ batched => OneNet
  /\ generation \in Nat
  /\ buckets \in Seq(Bucket)
  /\ \A p \in Browsers : request[p] # Idle => FedOf(request[p], fed[p])

\* An answer is its policy and its value.
LEMMA GoodAnswers ==
  ASSUME NEW net, NEW key, NEW answer \in Good(net, key)
  PROVE  [policy |-> answer.policy, value |-> answer.value] = answer
BY DEF Good, Says, Wrong

\* A record of the cache is what every network of the roster says.
LEMMA LookupGood ==
  ASSUME buckets \in Seq(Bucket), NEW key, cacheLookup(key) # NoRecord, NEW net \in Nets
  PROVE  cacheLookup(key) \in Good(net, key)
<1> DEFINE holding == {b \in DOMAIN buckets : key \in DOMAIN buckets[b].held}
<1>1. holding # {} /\ holding \in SUBSET (1 .. Len(buckets)) /\ Len(buckets) \in Nat
  BY DEF cacheLookup
<1>2. cacheLookup(key) = buckets[Min(holding)].held[key]
  BY DEF cacheLookup
<1>3. Min(holding) \in holding
  BY <1>1, FirstIndex
<1>4. Min(holding) \in DOMAIN buckets /\ key \in DOMAIN buckets[Min(holding)].held
  BY <1>3
<1>5. buckets[Min(holding)] \in Bucket
  BY <1>4
<1> HIDE DEF holding
<1> QED BY <1>2, <1>4, <1>5 DEF Bucket

\* Answers of the one network, stored.
LEMMA StoredGood ==
  ASSUME buckets \in Seq(Bucket), generation \in Nat, batched => OneNet,
         NEW net \in Nets, NEW D \in SUBSET Keys, NEW found, found = [key \in D |-> found[key]],
         \A key \in D : found[key] \in Good(net, key)
  PROVE  cacheStore(found) \in Seq(Bucket)
<1> DEFINE Held == {h \in UNION {[E -> UNION {Good(n, key) : n \in Nets, key \in Keys}] : E \in SUBSET Keys} :
                      \A key \in DOMAIN h, n \in Nets : h[key] \in Good(n, key)}
           current == {b \in DOMAIN buckets : buckets[b].gen = generation}
           with(b) == [k \in DOMAIN buckets[b].held \union DOMAIN found |->
                        IF k \in DOMAIN found THEN found[k] ELSE buckets[b].held[k]]
<1>1. CASE ~batched
  BY <1>1 DEF cacheStore
<1>2. ASSUME batched, NEW h, NEW E \in SUBSET Keys, h = [key \in E |-> h[key]],
             \A key \in E : h[key] \in Good(net, key)
      PROVE  h \in Held
  <2>1. \A n \in Nets : n = net
    BY <1>2 DEF OneNet
  <2>2. h \in [E -> UNION {Good(n, key) : n \in Nets, key \in Keys}]
    BY <1>2
  <2> QED BY <1>2, <2>1, <2>2
<1>3. Bucket = [gen : Nat, held : Held]
  BY DEF Bucket
<1>6. \A b \in DOMAIN buckets : buckets[b] \in Bucket
  OBVIOUS
<1> HIDE DEF Held
<1>4. CASE batched /\ current = {}
  <2>1. found \in Held
    BY <1>2, <1>4
  <2>2. cacheStore(found) = Append(buckets, [gen |-> generation, held |-> found])
    BY <1>4 DEF cacheStore
  <2>3. [gen |-> generation, held |-> found] \in Bucket
    BY <1>3, <2>1
  <2> QED BY <2>2, <2>3
<1>5. CASE batched /\ current # {}
  <2>1. ASSUME NEW b \in DOMAIN buckets PROVE with(b) \in Held
    <3>1. buckets[b] \in Bucket
      OBVIOUS
    <3>2. /\ buckets[b].held = [k \in DOMAIN buckets[b].held |-> buckets[b].held[k]]
          /\ DOMAIN buckets[b].held \in SUBSET Keys
          /\ \A key \in DOMAIN buckets[b].held : buckets[b].held[key] \in Good(net, key)
      BY <3>1 DEF Bucket
    <3> DEFINE E == DOMAIN buckets[b].held \union D
    <3>3. E \in SUBSET Keys /\ with(b) = [k \in E |-> with(b)[k]]
      BY <3>2
    <3>4. \A k \in E : with(b)[k] \in Good(net, k)
      BY <3>2
    <3> HIDE DEF E, with
    <3> QED BY <1>2, <1>5, <3>3, <3>4
  <2>2. cacheStore(found) = [b \in DOMAIN buckets |->
                               IF b \in current THEN [buckets[b] EXCEPT !.held = with(b)] ELSE buckets[b]]
    BY <1>5 DEF cacheStore
  <2>3. \A b \in DOMAIN buckets : [buckets[b] EXCEPT !.held = with(b)] \in Bucket
    <3> SUFFICES ASSUME NEW b \in DOMAIN buckets PROVE [buckets[b] EXCEPT !.held = with(b)] \in Bucket
      OBVIOUS
    <3>1. with(b) \in Held
      BY <2>1
    <3> HIDE DEF with
    <3>2. buckets[b] \in [gen : Nat, held : Held]
      BY <1>3, <1>6
    <3> QED BY <1>3, <3>1, <3>2
  <2> HIDE DEF with, current
  <2>4. \A b \in DOMAIN buckets : cacheStore(found)[b] \in Bucket
    <3> SUFFICES ASSUME NEW b \in DOMAIN buckets PROVE cacheStore(found)[b] \in Bucket
      OBVIOUS
    <3>1. cacheStore(found)[b] = IF b \in current THEN [buckets[b] EXCEPT !.held = with(b)] ELSE buckets[b]
      BY <2>2
    <3> QED BY <1>6, <2>3, <3>1
  <2>5. DOMAIN buckets = 1 .. Len(buckets) /\ Len(buckets) \in Nat
    OBVIOUS
  <2>6. cacheStore(found) \in [1 .. Len(buckets) -> Bucket]
    BY <2>2, <2>4, <2>5
  <2> QED BY <2>5, <2>6
<1> QED BY <1>1, <1>4, <1>5

\* The buckets that are left.
LEMMA EvictedGood ==
  ASSUME buckets \in Seq(Bucket), NEW walls \in Nat, cacheEvict(walls)
  PROVE  buckets' \in Seq(Bucket) /\ generation' \in Nat
<1> DEFINE staying == {b \in DOMAIN buckets : buckets[b].gen >= walls}
<1>1. staying \in SUBSET (1 .. Len(buckets)) /\ Len(buckets) \in Nat /\ staying \subseteq DOMAIN buckets
  OBVIOUS
<1>2. buckets' = [slot \in 1 .. Cardinality(staying) |-> buckets[Nth(staying, slot)]] /\ generation' = walls
  BY DEF cacheEvict
<1> HIDE DEF staying
<1>3. Cardinality(staying) \in Nat /\ \A slot \in 1 .. Cardinality(staying) : Nth(staying, slot) \in DOMAIN buckets
  BY <1>1, Slots
<1>4. \A slot \in 1 .. Cardinality(staying) : buckets[Nth(staying, slot)] \in Bucket
  BY <1>3
<1> QED BY <1>2, <1>3, <1>4

\* Answers of its own network, submitted.
LEMMA SubmittedFed ==
  ASSUME NEW r, NEW F, FedOf(r, F), NEW leaves, NEW known, Submitted(r, leaves, known) # Idle,
         \A i \in DOMAIN leaves : known[i] \in Good(r.net, leaves[i])
  PROVE  FedOf(Submitted(r, leaves, known), F \union FedLeaves(leaves, known))
<1> DEFINE s == Submitted(r, leaves, known)
<1>1. s.stage # "waiting" /\ s.net = r.net
  BY DEF Submitted, Judged
<1> HIDE DEF s
<1>2. \A leaf \in FedLeaves(leaves, known) : leaf.answer \in Good(r.net, leaf.key)
  BY DEF FedLeaves
<1> QED BY <1>1, <1>2 DEF FedOf, s

\* The missing answers of a reply are its network's, each for its own leaf.
LEMMA RepliedGood ==
  ASSUME NEW net, NEW leaves \in Seq(Keys), NEW missing \in SUBSET (DOMAIN leaves),
         NEW out \in Replies(net, leaves, missing), NEW i \in missing
  PROVE  Record(out, Cardinality(missing), Slot(missing, i)) \in Good(net, leaves[i])
<1> DEFINE n == Cardinality(missing)
           s == Slot(missing, i)
<1>1. n \in Nat /\ s \in 1 .. n /\ Nth(missing, s) = i
  <2>1. missing \in SUBSET (1 .. Len(leaves)) /\ Len(leaves) \in Nat
    OBVIOUS
  <2> QED BY <2>1, Slots
<1>2. PICK given : /\ \A j \in missing : given[j] \in Good(net, leaves[j])
                   /\ out = [x \in 1 .. 2 * n |-> IF x <= n THEN given[Nth(missing, x)].policy
                                                  ELSE given[Nth(missing, x - n)].value]
  BY DEF Replies, Good
<1> HIDE DEF n, s
<1>3. s \in 1 .. 2 * n /\ n + s \in 1 .. 2 * n /\ s <= n /\ ~(n + s <= n) /\ (n + s) - n = s
  BY <1>1
<1>4. out[s] = given[i].policy /\ out[n + s] = given[i].value
  BY <1>1, <1>2, <1>3
<1>5. Record(out, n, s) = [policy |-> given[i].policy, value |-> given[i].value]
  BY <1>4 DEF Record
<1> QED BY <1>2, <1>5, GoodAnswers DEF n, s

\* One request of one browser, whose cache stays sound.
LEMMA OthersFed ==
  ASSUME FedInv, SearchInv', NEW p \in Browsers, NEW r, NEW F,
         request' = [request EXCEPT ![p] = r], fed' = [fed EXCEPT ![p] = F],
         batched' = batched, generation' \in Nat, buckets' \in Seq(Bucket),
         r # Idle => FedOf(r, F)
  PROVE  FedInv'
<1>1. request'[p] = r /\ fed'[p] = F /\ \A q \in Browsers \ {p} : request'[q] = request[q] /\ fed'[q] = fed[q]
  BY DEF FedInv, SearchInv
<1>2. \A q \in Browsers : request'[q] # Idle => FedOf(request'[q], fed'[q])
  BY <1>1 DEF FedInv
<1> QED BY <1>2 DEF FedInv

\* Every step of every request feeds it its own network's answers.
LEMMA StepFedInv ==
  ASSUME FedInv, [MoveNext]_moveVars
  PROVE  FedInv'
<1>0. SearchInv /\ SearchInv'
  BY StepSearchInv DEF FedInv
<1>1. CASE UNCHANGED moveVars \/ Heal
  BY <1>0, <1>1 DEF FedInv, Heal, moveVars
<1>2. ASSUME NEW p \in Browsers, Asks(p) PROVE FedInv'
  <2>1. PICK asked \in Nets \union {"unknown"}, root \in Keys : Ask(p, asked, root)
    BY <1>2 DEF Asks
  <2> DEFINE r == Asked(Pick(asked, CHOOSE first \in Nets : TRUE), root)
  <2>2. FedOf(r, {})
    BY DEF FedOf, Asked
  <2>3. request' = [request EXCEPT ![p] = r] /\ fed' = [fed EXCEPT ![p] = {}]
    BY <2>1 DEF Ask
  <2>4. batched' = batched /\ generation' \in Nat /\ buckets' \in Seq(Bucket)
    BY <2>1 DEF Ask, FedInv
  <2> HIDE DEF r
  <2> QED BY <1>0, <2>2, <2>3, <2>4, OthersFed
<1>3. ASSUME NEW p \in Browsers, Collects(p) PROVE FedInv'
  <2>1. PICK leaves \in LeavesOf(request[p]) : CollectLeaves(p, leaves)
    BY <1>3 DEF Collects
  <2> DEFINE r == request[p]
             known == [i \in DOMAIN leaves |-> cacheLookup(leaves[i])]
             w == [stage |-> "waiting", net |-> r.net, root |-> r.root, guard |-> r.guard,
                   leaves |-> leaves, known |-> known]
             s == Submitted(r, leaves, known)
  <2>2. FedOf(r, fed[p]) /\ r.net \in Nets
    BY <1>0, <1>3 DEF Collects, Idle, FedInv, SearchInv, Searched, SearchOf
  <2>3. batched' = batched /\ generation' \in Nat /\ buckets' \in Seq(Bucket)
    BY <2>1 DEF CollectLeaves, FedInv
  <2>4. \A i \in DOMAIN leaves : known[i] = NoRecord \/ known[i] \in Good(r.net, leaves[i])
    BY <2>2, LookupGood DEF FedInv
  <2>5. CASE Missing(leaves, known) = {} /\ request' = [request EXCEPT ![p] = s] /\ Fed(p, leaves, known)
    <3>1. fed' = [fed EXCEPT ![p] = fed[p] \union FedLeaves(leaves, known)]
      BY <1>0, <2>5 DEF Fed, FedLeaves, SearchInv
    <3>2. \A i \in DOMAIN leaves : known[i] \in Good(r.net, leaves[i])
      BY <2>4, <2>5 DEF Missing
    <3>3. s # Idle => FedOf(s, fed[p] \union FedLeaves(leaves, known))
      BY <2>2, <3>2, SubmittedFed
    <3> HIDE DEF s, known
    <3> QED BY <1>0, <2>3, <2>5, <3>1, <3>3, OthersFed
  <2>6. CASE request' = [request EXCEPT ![p] = w] /\ UNCHANGED fed
    <3>1. FedOf(w, fed[p])
      BY <2>2, <2>4 DEF FedOf
    <3>2. fed' = [fed EXCEPT ![p] = fed[p]]
      BY <1>0, <2>6 DEF SearchInv
    <3> HIDE DEF w
    <3> QED BY <1>0, <2>3, <2>6, <3>1, <3>2, OthersFed
  <2> QED BY <2>1, <2>5, <2>6 DEF CollectLeaves
<1>4. ASSUME NEW p \in Browsers, Receives(p) PROVE FedInv'
  <2> DEFINE r == request[p]
             missing == Missing(r.leaves, r.known)
  <2>1. PICK out \in Replies(r.net, r.leaves, missing) : Answered(p, out)
    BY <1>4 DEF Receives
  <2> DEFINE known == [i \in DOMAIN r.leaves |->
                         IF i \notin missing THEN r.known[i]
                         ELSE Record(out, Cardinality(missing), Slot(missing, i))]
             fresh == {r.leaves[i] : i \in missing}
             last(key) == Max({i \in missing : r.leaves[i] = key})
             found == [key \in fresh |-> known[last(key)]]
             s == Submitted(r, r.leaves, known)
  <2>2. FedOf(r, fed[p]) /\ r.net \in Nets /\ r.stage = "waiting" /\ r.leaves \in Seq(Keys)
    BY <1>0, <1>4 DEF Receives, Idle, FedInv, SearchInv, Searched, SearchOf
  <2>3. missing \in SUBSET (DOMAIN r.leaves) /\ \A i \in DOMAIN r.leaves \ missing : r.known[i] # NoRecord
    BY DEF Missing
  <2>4. \A i \in missing : Record(out, Cardinality(missing), Slot(missing, i)) \in Good(r.net, r.leaves[i])
    <3> HIDE DEF missing
    <3> QED BY <2>1, <2>2, <2>3, RepliedGood
  <2>5. /\ buckets' = cacheStore(found) /\ request' = [request EXCEPT ![p] = s]
        /\ Fed(p, r.leaves, known) /\ UNCHANGED <<batched, generation>>
    BY <2>1 DEF Answered
  <2> HIDE DEF missing, r
  <2>6. \A i \in DOMAIN r.leaves : known[i] \in Good(r.net, r.leaves[i])
    BY <2>2, <2>3, <2>4 DEF FedOf
  <2>7. \A key \in fresh : found[key] \in Good(r.net, key)
    <3> SUFFICES ASSUME NEW key \in fresh PROVE found[key] \in Good(r.net, key)
      OBVIOUS
    <3> DEFINE I == {i \in missing : r.leaves[i] = key}
    <3>1. I # {} /\ I \in SUBSET (1 .. Len(r.leaves)) /\ Len(r.leaves) \in Nat
      BY <2>2, <2>3
    <3>2. Max(I) \in I
      <4> HIDE DEF I
      <4> QED BY <3>1, LastIndex
    <3>3. last(key) \in DOMAIN r.leaves /\ r.leaves[last(key)] = key
      BY <2>3, <3>2
    <3> HIDE DEF last, known
    <3>4. found[key] = known[last(key)]
      OBVIOUS
    <3> QED BY <2>6, <3>3, <3>4
  <2>8. fresh \in SUBSET Keys /\ found = [key \in fresh |-> found[key]]
    BY <2>2, <2>3
  <2> HIDE DEF found, fresh, known
  <2>9. buckets' \in Seq(Bucket) /\ batched' = batched /\ generation' \in Nat
    BY <2>2, <2>5, <2>7, <2>8, StoredGood DEF FedInv
  <2>10. fed' = [fed EXCEPT ![p] = fed[p] \union FedLeaves(r.leaves, known)]
    BY <1>0, <2>5 DEF Fed, FedLeaves, SearchInv
  <2>11. s # Idle => FedOf(s, fed[p] \union FedLeaves(r.leaves, known))
    BY <2>2, <2>6, SubmittedFed
  <2> HIDE DEF s
  <2> QED BY <1>0, <2>5, <2>9, <2>10, <2>11, OthersFed
<1>5. ASSUME NEW p \in Browsers, InferenceFails(p) \/ Serve(p) PROVE FedInv'
  <2>1. request' = [request EXCEPT ![p] = Idle] /\ UNCHANGED <<fed, batched>>
    BY <1>5 DEF InferenceFails, Serve
  <2>2. fed' = [fed EXCEPT ![p] = fed[p]]
    BY <1>0, <2>1 DEF SearchInv
  <2>3. buckets' \in Seq(Bucket) /\ generation' \in Nat
    <3>1. CASE UNCHANGED <<buckets, generation>>
      BY <3>1 DEF FedInv
    <3>2. CASE Serve(p) /\ cacheEvict(Walls[request[p].root])
      <4>1. Walls[request[p].root] \in Nat
        BY <1>0, <3>2, WallsAssumption DEF Serve, Idle, SearchInv, Searched, SearchOf
      <4> QED BY <3>2, <4>1, EvictedGood DEF FedInv
    <3> QED BY <1>5, <3>1, <3>2 DEF InferenceFails, Serve
  <2> QED BY <1>0, <2>1, <2>2, <2>3, OthersFed
<1> QED BY <1>1, <1>2, <1>3, <1>4, <1>5 DEF MoveNext

\* FedWhatItsNetworkSays of BestMove, where a cache that is used belongs to one network, as
\* the comment above evalCache has it, or every request is its own: however requests
\* interleave and whichever answers are repeated, late or spoilt, what a search is fed for
\* a leaf is one whole answer of its network about that leaf.
THEOREM FedByItsNetwork == MoveSpec /\ (batched => OneNet) => []FedWhatItsNetworkSays
<1>1. MoveInit /\ (batched => OneNet) => FedInv
  BY DEF MoveInit, FedInv, SearchInv, Searched
<1>2. FedInv /\ [MoveNext]_moveVars => FedInv'
  BY StepFedInv
<1>3. FedInv => FedWhatItsNetworkSays
  BY DEF FedInv, FedOf, Good, FedWhatItsNetworkSays
<1> QED BY <1>1, <1>2, <1>3, PTL DEF MoveSpec

-----------------------------------------------------------------------------
(* The games of the /dev board, for any number of requests, games and       *)
(* plies.  The property is inductive together with the shape of the state: *)
(* a game with a request out has the machine to move, so that no other     *)
(* request can move in it until the answer arrives.                        *)

GamesInv == TypeOK /\ AnswersApplyToTheirPosition

\* The board as it starts.
LEMMA InitGamesInv == Init => GamesInv
BY BoundsAssumption DEF Init, GamesInv, TypeOK, AnswersApplyToTheirPosition, Ids, Players, Nothing

\* After a human or a machine ply it is the other side's turn.
LEMMA TurnsAlternate ==
  ASSUME NEW ply \in Nat
  PROVE  Turn(ply + 1) # Turn(ply) /\ Turn(ply) \in Players
BY DEF Turn, Players

\* A call is not the lack of one.
LEMMA NothingIsNoCall == Nothing \notin [id : Ids, ply : Nat] /\ Nothing.id = 0 /\ 0 \notin Ids
BY DEF Nothing, Ids

\* What the property says of one request.
Fits(r) ==
  pending[r] # Nothing =>
    /\ games[pending[r].id].ply = pending[r].ply
    /\ MachineToMove(games[pending[r].id])
    /\ \A s \in Requests : pending[s].id = pending[r].id => s = r

\* A call made by r for game id, in which no other request has one, leaves the others alone.
LEMMA OneGameMoves ==
  ASSUME GamesInv, NEW r \in Requests, NEW id \in Ids, NEW g \in [humanSide : Players, ply : Nat, over : BOOLEAN],
         \A s \in Requests \ {r} : pending[s].id # id,
         games' = [games EXCEPT ![id] = g],
         NEW call \in [id : Ids, ply : Nat] \union {Nothing},
         pending' = [pending EXCEPT ![r] = call],
         call # Nothing => call.id = id /\ call.ply = g.ply /\ MachineToMove(g)
  PROVE  AnswersApplyToTheirPosition'
<1> USE DEF GamesInv, TypeOK
<1> SUFFICES ASSUME NEW q \in Requests PROVE Fits(q)'
  BY DEF AnswersApplyToTheirPosition, Fits
<1>1. pending'[r] = call /\ games'[id] = g /\ \A s \in Requests \ {r} : pending'[s] = pending[s]
  OBVIOUS
<1>2. CASE q = r
  <2> SUFFICES ASSUME call # Nothing PROVE Fits(r)'
    BY <1>1, <1>2 DEF Fits
  <2>1. \A s \in Requests : pending'[s].id = id => s = r
    BY <1>1
  <2> QED BY <1>1, <2>1 DEF Fits, MachineToMove
<1>3. CASE q # r
  <2> SUFFICES ASSUME pending[q] # Nothing PROVE Fits(q)'
    BY <1>1, <1>3 DEF Fits
  <2>1. pending[q].id \in Ids /\ pending[q].id # id /\ Fits(q)
    BY <1>3 DEF AnswersApplyToTheirPosition, Fits
  <2>2. games'[pending[q].id] = games[pending[q].id]
    BY <2>1
  <2>3. ASSUME NEW s \in Requests, pending'[s].id = pending[q].id PROVE s = q
    <3>1. CASE s = r
      BY <1>1, <2>1, <2>3, <3>1, NothingIsNoCall
    <3>2. CASE s # r
      BY <1>1, <2>1, <2>3, <3>2 DEF Fits
    <3> QED BY <3>1, <3>2
  <2> QED BY <1>1, <1>3, <2>1, <2>2, <2>3 DEF Fits, MachineToMove
<1> QED BY <1>2, <1>3

\* A new game, which the machine may open.
LEMMA NewKeeps == ASSUME GamesInv, NEW r \in Requests, NEW side \in Players, New(r, side) PROVE GamesInv'
<1> USE DEF GamesInv
<1>1. nextId \in Ids /\ nextId' = nextId + 1 /\ nextId' \in 1 .. LastId + 1
  BY BoundsAssumption DEF New, TypeOK, Ids
<1>2. /\ kept' \in Seq(Ids)
      /\ \A i \in 1 .. Len(kept') : kept'[i] < nextId'
  <2> DEFINE longer == Append(kept, nextId)
  <2>1. /\ longer \in Seq(Ids) /\ Len(longer) = Len(kept) + 1
        /\ \A i \in 1 .. Len(longer) : longer[i] < nextId + 1
    BY <1>1, BoundsAssumption DEF TypeOK, Ids
  <2>2. Tail(longer) \in Seq(Ids) /\ \A i \in 1 .. Len(Tail(longer)) : Tail(longer)[i] < nextId + 1
    <3> HIDE DEF longer
    <3> QED BY <2>1
  <2>3. kept' \in {longer, Tail(longer)}
    BY DEF New, Trimmed
  <2> HIDE DEF longer
  <2> QED BY <1>1, <2>1, <2>2, <2>3
<1> DEFINE g == [humanSide |-> side, ply |-> 0, over |-> FALSE]
           call == IF side = "B" THEN [id |-> nextId, ply |-> 0] ELSE Nothing
<1>3. g \in [humanSide : Players, ply : Nat, over : BOOLEAN] /\ games' = [games EXCEPT ![nextId] = g]
  BY DEF New
<1>4. /\ call \in [id : Ids, ply : Nat] \union {Nothing}
      /\ call # Nothing => call.id = nextId /\ call.ply = g.ply /\ MachineToMove(g)
  BY <1>1 DEF MachineToMove, Turn
<1>5. pending' = [pending EXCEPT ![r] = call]
  BY DEF New, AwaitMachine, TypeOK
<1>6. call.id < nextId'
  BY <1>1, NothingIsNoCall DEF Ids
<1> HIDE DEF g, call
<1>7. \A s \in Requests : pending[s].id # nextId
  BY <1>1 DEF TypeOK, Ids
<1>8. AnswersApplyToTheirPosition'
  BY <1>1, <1>3, <1>4, <1>5, <1>7, OneGameMoves
<1>9. \A s \in Requests : pending'[s].id < nextId'
  <2> SUFFICES ASSUME NEW s \in Requests PROVE pending'[s].id < nextId'
    OBVIOUS
  <2>1. CASE s = r
    BY <1>5, <1>6, <2>1 DEF TypeOK
  <2>2. CASE s # r
    <3>1. pending[s].id < nextId /\ pending[s].id \in Nat
      BY NothingIsNoCall DEF TypeOK, Ids
    <3> QED BY <1>1, <1>5, <2>2, <3>1 DEF TypeOK, Ids
  <2> QED BY <2>1, <2>2
<1>10. TypeOK'
  BY <1>1, <1>2, <1>3, <1>4, <1>5, <1>9 DEF TypeOK
<1> QED BY <1>8, <1>10

\* A person's move, which the machine may answer.
LEMMA MoveKeeps ==
  ASSUME GamesInv, NEW r \in Requests, NEW id \in Ids, NEW over \in BOOLEAN, Move(r, id, over) PROVE GamesInv'
<1> USE DEF GamesInv
<1> DEFINE g == [humanSide |-> games[id].humanSide, ply |-> games[id].ply + 1, over |-> over]
           call == IF over THEN Nothing ELSE [id |-> id, ply |-> games[id].ply + 1]
<1>1. games[id] \in [humanSide : Players, ply : Nat, over : BOOLEAN] /\ id < nextId
  BY DEF Move, Contains, TypeOK
<1>2. g \in [humanSide : Players, ply : Nat, over : BOOLEAN] /\ games' = [games EXCEPT ![id] = g]
  BY <1>1 DEF Move, Played
<1>3. Turn(games[id].ply + 1) # games[id].humanSide
  BY <1>1, TurnsAlternate DEF Move
<1>4. /\ call \in [id : Ids, ply : Nat] \union {Nothing}
      /\ call # Nothing => call.id = id /\ call.ply = g.ply /\ MachineToMove(g)
  BY <1>1, <1>3 DEF MachineToMove
<1>5. pending' = [pending EXCEPT ![r] = call]
  BY DEF Move, AwaitMachine, TypeOK
<1>6. call.id < nextId
  BY <1>1, NothingIsNoCall DEF TypeOK
<1> HIDE DEF g, call
<1>7. ASSUME NEW s \in Requests PROVE pending[s].id # id
  <2> SUFFICES ASSUME pending[s].id = id PROVE FALSE
    OBVIOUS
  <2>1. pending[s] # Nothing
    BY NothingIsNoCall
  <2>2. MachineToMove(games[id])
    BY <2>1 DEF AnswersApplyToTheirPosition
  <2> QED BY <2>2 DEF Move, MachineToMove
<1>8. AnswersApplyToTheirPosition'
  BY <1>2, <1>4, <1>5, <1>7, OneGameMoves
<1>9. nextId' = nextId /\ kept' = kept
  BY DEF Move
<1>10. TypeOK'
  BY <1>2, <1>4, <1>5, <1>6, <1>9 DEF TypeOK
<1> QED BY <1>8, <1>10

\* The machine's move.
LEMMA AnswerKeeps ==
  ASSUME GamesInv, NEW r \in Requests, NEW over \in BOOLEAN, MachineMoves(r, over) PROVE GamesInv'
<1> USE DEF GamesInv
<1> DEFINE id == pending[r].id
           g == [humanSide |-> games[id].humanSide, ply |-> games[id].ply + 1, over |-> over]
<1>1. pending[r] # Nothing /\ id \in Ids
  BY DEF MachineMoves, TypeOK
<1>2. g \in [humanSide : Players, ply : Nat, over : BOOLEAN]
  BY <1>1 DEF TypeOK
<1>3. games' = [games EXCEPT ![id] = g] /\ pending' = [pending EXCEPT ![r] = Nothing]
  BY DEF MachineMoves, Played
<1>4. \A s \in Requests \ {r} : pending[s].id # id
  BY <1>1 DEF AnswersApplyToTheirPosition
<1> HIDE DEF g, id
<1>5. AnswersApplyToTheirPosition'
  BY <1>1, <1>2, <1>3, <1>4, OneGameMoves
<1>6. nextId' = nextId /\ kept' = kept
  BY DEF MachineMoves
<1>7. 0 < nextId
  BY DEF TypeOK
<1>8. TypeOK'
  BY <1>2, <1>3, <1>6, <1>7, NothingIsNoCall DEF TypeOK
<1> QED BY <1>5, <1>8

\* A search that fails.
LEMMA FailKeeps == ASSUME GamesInv, NEW r \in Requests, MachineFails(r) PROVE GamesInv'
<1> USE DEF GamesInv
<1>1. games' = games /\ nextId' = nextId /\ kept' = kept /\ pending' = [pending EXCEPT ![r] = Nothing]
  BY DEF MachineFails
<1>2. TypeOK'
  BY <1>1, NothingIsNoCall DEF TypeOK
<1>3. ASSUME NEW q \in Requests PROVE Fits(q)'
  <2> SUFFICES ASSUME pending'[q] # Nothing PROVE Fits(q)'
    BY DEF Fits
  <2>1. pending'[q] = pending[q] /\ pending[q].id \in Ids /\ Fits(q)
    BY <1>1 DEF TypeOK, AnswersApplyToTheirPosition, Fits
  <2>2. ASSUME NEW s \in Requests, pending'[s].id = pending[q].id PROVE s = q
    BY <1>1, <2>1, <2>2, NothingIsNoCall DEF TypeOK, Fits
  <2> QED BY <1>1, <2>1, <2>2 DEF Fits, MachineToMove
<1> QED BY <1>2, <1>3 DEF AnswersApplyToTheirPosition, Fits

\* Every request and every answer.
LEMMA StepGamesInv == GamesInv /\ [Next]_vars => GamesInv'
<1> SUFFICES ASSUME GamesInv, [Next]_vars PROVE GamesInv'
  OBVIOUS
<1>2. CASE UNCHANGED vars
  BY <1>2 DEF vars, GamesInv, TypeOK, AnswersApplyToTheirPosition, MachineToMove
<1>3. \A id \in Ids \union {0} : Outcomes(id) \subseteq BOOLEAN
  BY DEF Outcomes
<1>4. \A r \in Requests : pending[r].id \in Ids \union {0}
  BY NothingIsNoCall DEF GamesInv, TypeOK
<1>5. ASSUME NEW r \in Requests, Moves(r) PROVE GamesInv'
  BY <1>3, <1>5, MoveKeeps DEF Moves
<1>6. ASSUME NEW r \in Requests, Answers(r) PROVE GamesInv'
  BY <1>3, <1>4, <1>6, AnswerKeeps DEF Answers
<1> QED
  BY <1>2, <1>5, <1>6, FailKeeps, NewKeeps DEF Next

\* Every reachable state satisfies the inductive invariant.
THEOREM GamesSafety == Spec => []GamesInv
BY InitGamesInv, StepGamesInv, PTL DEF Spec

\* A move chosen for one position of a /dev game is never played in another, for
\* any number of requests in progress, games and plies.
THEOREM MovesFitTheirPosition == Spec => []AnswersApplyToTheirPosition
BY GamesSafety, PTL DEF GamesInv

-----------------------------------------------------------------------------
(* The store, for any users, games and bounds, where a failed append leaves *)
(* nothing of its line: what is acknowledged is on a file whose lines are  *)
(* terminated, and what is on the file is in memory, at once or after the  *)
(* restart that reads it.                                                  *)

Users == Guests \union Accounts \union Logins
UserRecord == [id : Users, name : Names]
ResultRow == [user : Users, name : Names, game : Games, result : Results]

StoreTyped ==
  /\ Known \subseteq Users /\ users \in [Known -> Names]
  /\ rows \in Seq(ResultRow)
  /\ usersFile.lines \in Seq(UserRecord) /\ gamesFile.lines \in Seq(ResultRow)
  /\ welcomed \in SUBSET UserRecord
  /\ recorded \in SUBSET ResultRow /\ IsFiniteSet(recorded)

\* Appends that leave nothing behind leave every line terminated.
FilesEnded ==
  /\ usersFile = [lines |-> usersFile.lines, rest |-> Ended]
  /\ gamesFile = [lines |-> gamesFile.lines, rest |-> Ended]

\* What was answered is on the file, and what is on the file is in memory.
RowsKept ==
  /\ recorded \subseteq Range(gamesFile.lines)
  /\ Range(gamesFile.lines) \subseteq Range(rows)

\* A token's user is in memory and on the file; and a guest's lines are that user.
TokensKept ==
  /\ \A v \in welcomed : v.id \in Known /\ v \in Range(usersFile.lines)
  /\ \A v \in welcomed : v.id \in Guests => users[v.id] = v.name
  /\ \A line \in Range(usersFile.lines) : line.id \in Guests => line \in welcomed

GuestNames == \A u, v \in Known \intersect Guests : users[u] = users[v] => u = v

StoreInv == StoreTyped /\ FilesEnded /\ RowsKept /\ TokensKept /\ GuestNames

\* The store as it starts.
LEMMA InitStoreInv == StoreInit => StoreInv
<1> SUFFICES ASSUME StoreInit PROVE StoreInv
  OBVIOUS
<1>1. /\ users = [u \in {} |-> u] /\ rows = <<>> /\ welcomed = {} /\ recorded = {}
      /\ usersFile = [lines |-> <<>>, rest |-> Ended] /\ gamesFile = [lines |-> <<>>, rest |-> Ended]
  BY DEF StoreInit, Empty
<1>2. Known = {}
  BY <1>1 DEF Known
<1>3. StoreTyped
  BY <1>1, <1>2, FS_EmptySet DEF StoreTyped
<1> QED BY <1>1, <1>2, <1>3 DEF StoreInv, FilesEnded, RowsKept, TokensKept, GuestNames, Range

\* The elements of a sequence that grows by one.
LEMMA RangeGrows ==
  ASSUME NEW S, NEW s \in Seq(S), NEW e \in S
  PROVE  /\ Append(s, e) \in Seq(S) /\ Range(Append(s, e)) = Range(s) \union {e}
<1>1. /\ Append(s, e) \in Seq(S) /\ DOMAIN Append(s, e) = 1 .. Len(s) + 1 /\ DOMAIN s = 1 .. Len(s)
      /\ Len(s) \in Nat /\ Append(s, e)[Len(s) + 1] = e
      /\ \A i \in 1 .. Len(s) : Append(s, e)[i] = s[i]
  OBVIOUS
<1>2. Range(Append(s, e)) \subseteq Range(s) \union {e}
  BY <1>1 DEF Range
<1>3. Range(s) \subseteq Range(Append(s, e))
  BY <1>1 DEF Range
<1>4. e \in Range(Append(s, e))
  BY <1>1 DEF Range
<1> QED BY <1>1, <1>2, <1>3, <1>4

\* An append to a file whose lines are terminated, and one that fails and leaves nothing.
LEMMA AppendTyped ==
  ASSUME NEW S, NEW lines \in Seq(S), NEW rec \in S, NEW file, file = [lines |-> lines, rest |-> Ended]
  PROVE  /\ Appended(file, rec) = [lines |-> Append(lines, rec), rest |-> Ended]
         /\ ~TornWrites => AppendFailed(file, rec) = {file}
BY DEF Appended, AppendFailed

\* Terminated lines are all read.
LEMMA ReadsAll ==
  ASSUME NEW file, NEW lines, file = [lines |-> lines, rest |-> Ended]
  PROVE  readLines(file) = lines
BY DEF readLines, Ended

\* The last line of a user, when the user has one.
LEMMA LastLine ==
  ASSUME NEW lines \in Seq(UserRecord), NEW u, \E i \in DOMAIN lines : lines[i].id = u
  PROVE  LET last == SelectLastInSeq(lines, LAMBDA l : l.id = u)
         IN last \in DOMAIN lines /\ lines[last].id = u
<1> DEFINE I == {i \in 1 .. Len(lines) : lines[i].id = u}
<1>1. I # {} /\ I \in SUBSET (1 .. Len(lines)) /\ Len(lines) \in Nat
  OBVIOUS
<1>2. Max(I) \in I
  BY <1>1, LastIndex
<1>3. SelectLastInSeq(lines, LAMBDA l : l.id = u) = Max(I)
  BY <1>1 DEF SelectLastInSeq
<1> QED BY <1>2, <1>3

-----------------------------------------------------------------------------
(* Requests.                                                               *)

\* What an upsert that keeps the names of others does to the names.
LEMMA Named ==
  ASSUME StoreTyped, NEW u \in Users, NEW name \in Names, InMemory(u, name)
  PROVE  /\ Known' = Known \union {u} /\ Known' \subseteq Users
         /\ users' \in [Known' -> Names]
         /\ users'[u] = name /\ \A v \in Known \ {u} : users'[v] = users[v]
BY DEF InMemory, Known, StoreTyped

\* A user record is its fields.
LEMMA UserRecords ==
  /\ \A u \in Users, name \in Names : User(u, name) \in UserRecord
  /\ \A u, name : User(u, name).id = u /\ User(u, name).name = name
  /\ \A v \in UserRecord : v = User(v.id, v.name) /\ v.id \in Users /\ v.name \in Names
BY DEF User, UserRecord

\* The file of users after an upsert.
LEMMA UserOnFile ==
  ASSUME StoreInv, NEW u \in Users, NEW name \in Names, Upserted(u, name)
  PROVE  /\ usersFile' = [lines |-> usersFile'.lines, rest |-> Ended]
         /\ usersFile'.lines \in Seq(UserRecord)
         /\ Range(usersFile'.lines) = Range(usersFile.lines) \union {User(u, name)}
<1>1. User(u, name) \in UserRecord
  BY UserRecords
<1>2. usersFile.lines \in Seq(UserRecord) /\ usersFile = [lines |-> usersFile.lines, rest |-> Ended]
  BY DEF StoreInv, StoreTyped, FilesEnded
<1>3. usersFile' = [lines |-> Append(usersFile.lines, User(u, name)), rest |-> Ended]
  BY <1>1, <1>2, AppendTyped DEF Upserted
<1> QED BY <1>1, <1>2, <1>3, RangeGrows

\* And after one that failed.
LEMMA UserNotOnFile ==
  ASSUME StoreInv, ~TornWrites, NEW u \in Users, NEW name \in Names, UpsertFailed(u, name)
  PROVE  usersFile' = usersFile
BY UserRecords, AppendTyped DEF StoreInv, StoreTyped, FilesEnded, UpsertFailed

\* A sign-in or an identification of someone who is not a guest.
LEMMA MemberStored ==
  ASSUME StoreInv, ~TornWrites, NEW u \in Accounts \union Logins, NEW name \in Names,
         InMemory(u, name),
         \/ Upserted(u, name) /\ welcomed' \in {welcomed, welcomed \union {User(u, name)}}
         \/ UpsertFailed(u, name) /\ UNCHANGED welcomed,
         UNCHANGED <<rows, gamesFile, recorded>>
  PROVE  StoreInv'
<1> USE DEF StoreInv
<1>1. u \in Users /\ u \notin Guests
  BY UsersAssumption DEF Users
<1>2. /\ Known' = Known \union {u} /\ Known' \subseteq Users /\ users' \in [Known' -> Names]
      /\ users'[u] = name /\ \A v \in Known \ {u} : users'[v] = users[v]
  BY <1>1, Named
<1>3. User(u, name) \in UserRecord /\ User(u, name).id = u
  BY <1>1, UserRecords
<1>4. /\ usersFile' = [lines |-> usersFile'.lines, rest |-> Ended]
      /\ usersFile'.lines \in Seq(UserRecord)
      /\ Range(usersFile.lines) \subseteq Range(usersFile'.lines)
      /\ Range(usersFile'.lines) \subseteq Range(usersFile.lines) \union {User(u, name)}
      /\ welcomed' # welcomed => User(u, name) \in Range(usersFile'.lines)
  <2>1. CASE Upserted(u, name)
    BY <1>1, <2>1, UserOnFile
  <2>2. CASE UpsertFailed(u, name) /\ UNCHANGED welcomed
    BY <1>1, <2>2, UserNotOnFile DEF StoreTyped, FilesEnded
  <2> QED BY <2>1, <2>2
<1>5. welcomed \subseteq welcomed' /\ welcomed' \subseteq welcomed \union {User(u, name)}
  OBVIOUS
<1>6. StoreTyped'
  BY <1>2, <1>3, <1>4, <1>5 DEF StoreTyped
<1>7. FilesEnded' /\ RowsKept'
  BY <1>4 DEF FilesEnded, RowsKept
<1>8. TokensKept'
  <2>1. \A v \in welcomed' : v.id \in Known' /\ v \in Range(usersFile'.lines)
    BY <1>2, <1>3, <1>4, <1>5 DEF TokensKept
  <2>2. \A v \in welcomed' : v.id \in Guests => users'[v.id] = v.name
    BY <1>1, <1>2, <1>3, <1>5 DEF TokensKept
  <2>3. \A line \in Range(usersFile'.lines) : line.id \in Guests => line \in welcomed'
    BY <1>1, <1>3, <1>4, <1>5 DEF TokensKept
  <2> QED BY <2>1, <2>2, <2>3 DEF TokensKept
<1>9. GuestNames'
  BY <1>1, <1>2 DEF GuestNames
<1> QED BY <1>6, <1>7, <1>8, <1>9

\* A guest's first and only sign-in.
LEMMA GuestStored ==
  ASSUME StoreInv, ~TornWrites, NEW u \in Guests, NEW name \in Names, signInGuest(u, name)
  PROVE  StoreInv'
<1> USE DEF StoreInv
<1>1. /\ u \in Users /\ u \notin Known /\ \A v \in welcomed : v.id # u
      /\ InMemory(u, name) /\ UNCHANGED <<rows, gamesFile, recorded>>
      /\ \A v \in Known : users[v] # name
      /\ \/ Upserted(u, name) /\ welcomed' = welcomed \union {User(u, name)}
         \/ UpsertFailed(u, name) /\ UNCHANGED welcomed
  BY DEF signInGuest, SignIn, nameTaken, Users
<1>2. /\ Known' = Known \union {u} /\ Known' \subseteq Users /\ users' \in [Known' -> Names]
      /\ users'[u] = name /\ \A v \in Known : users'[v] = users[v]
  BY <1>1, Named
<1>3. User(u, name) \in UserRecord /\ User(u, name).id = u /\ User(u, name).name = name
  BY <1>1, UserRecords
<1>4. CASE Upserted(u, name) /\ welcomed' = welcomed \union {User(u, name)}
  <2>1. /\ usersFile' = [lines |-> usersFile'.lines, rest |-> Ended]
        /\ usersFile'.lines \in Seq(UserRecord)
        /\ Range(usersFile'.lines) = Range(usersFile.lines) \union {User(u, name)}
    BY <1>1, <1>4, UserOnFile
  <2>2. StoreTyped'
    BY <1>1, <1>2, <1>3, <1>4, <2>1 DEF StoreTyped
  <2>3. FilesEnded' /\ RowsKept'
    BY <1>1, <2>1 DEF FilesEnded, RowsKept
  <2>4. TokensKept'
    <3>1. \A v \in welcomed' : v.id \in Known' /\ v \in Range(usersFile'.lines)
      BY <1>2, <1>3, <1>4, <2>1 DEF TokensKept
    <3>2. \A v \in welcomed' : v.id \in Guests => users'[v.id] = v.name
      BY <1>1, <1>2, <1>3, <1>4 DEF TokensKept
    <3>3. \A line \in Range(usersFile'.lines) : line.id \in Guests => line \in welcomed'
      BY <1>4, <2>1 DEF TokensKept
    <3> QED BY <3>1, <3>2, <3>3 DEF TokensKept
  <2>5. GuestNames'
    BY <1>1, <1>2 DEF GuestNames
  <2> QED BY <2>2, <2>3, <2>4, <2>5
<1>5. CASE UpsertFailed(u, name) /\ UNCHANGED welcomed
  <2>1. usersFile' = usersFile
    BY <1>1, <1>5, UserNotOnFile
  <2>2. StoreTyped' /\ FilesEnded' /\ RowsKept'
    BY <1>1, <1>2, <1>5, <2>1 DEF StoreTyped, FilesEnded, RowsKept
  <2>3. TokensKept'
    BY <1>1, <1>2, <1>5, <2>1 DEF TokensKept
  <2>4. GuestNames'
    BY <1>1, <1>2 DEF GuestNames
  <2> QED BY <2>2, <2>3, <2>4
<1> QED BY <1>1, <1>4, <1>5

\* A sign-in by a provider, and a login of the tailnet.
LEMMA MembersStored ==
  ASSUME StoreInv, ~TornWrites, NEW name \in Names
  PROVE  /\ \A u \in Accounts : signInGoogle(u, name) => StoreInv'
         /\ \A u \in Logins : identify(u, name) => StoreInv'
<1>1. ASSUME NEW u \in Accounts, signInGoogle(u, name) PROVE StoreInv'
  BY <1>1, MemberStored DEF signInGoogle, SignIn
<1>2. ASSUME NEW u \in Logins, identify(u, name) PROVE StoreInv'
  BY <1>2, MemberStored DEF identify
<1> QED BY <1>1, <1>2

\* A reported game, whichever of its steps fails.
LEMMA GameStored ==
  ASSUME StoreInv, ~TornWrites, NEW u \in Known, NEW g \in Games, NEW result \in Results,
         recordGame(u, g, result)
  PROVE  StoreInv'
<1> USE DEF StoreInv
<1> DEFINE row == Row(u, g, result)
<1>1. u \in Users /\ users[u] \in Names /\ row \in ResultRow
  BY DEF StoreTyped, Row, ResultRow
<1>2. u \in Guests => User(u, users[u]) \in welcomed
  <2> SUFFICES ASSUME u \in Guests PROVE User(u, users[u]) \in welcomed
    OBVIOUS
  <2>1. PICK v \in welcomed : v.id = u
    BY UsersAssumption DEF recordGame, Callers
  <2>2. v = User(v.id, v.name) /\ users[v.id] = v.name
    BY <2>1, UserRecords DEF StoreTyped, TokensKept
  <2> QED BY <2>1, <2>2
<1>3. rows' = Append(rows, row) /\ UNCHANGED <<users, welcomed>>
  BY DEF recordGame
<1>4. \/ gamesFile' = Appended(gamesFile, row) /\ Upserted(u, users[u]) /\ recorded' = recorded \union {row}
      \/ gamesFile' = Appended(gamesFile, row) /\ UpsertFailed(u, users[u]) /\ UNCHANGED recorded
      \/ gamesFile' \in AppendFailed(gamesFile, row) /\ UNCHANGED <<usersFile, recorded>>
  BY DEF recordGame
<1> HIDE DEF row
<1>5. rows' \in Seq(ResultRow) /\ Range(rows') = Range(rows) \union {row}
  BY <1>1, <1>3, RangeGrows DEF StoreTyped
<1>6. Known' = Known /\ users' = users /\ welcomed' = welcomed
  BY <1>3 DEF Known
<1>7. /\ usersFile' = [lines |-> usersFile'.lines, rest |-> Ended]
      /\ usersFile'.lines \in Seq(UserRecord)
      /\ Range(usersFile.lines) \subseteq Range(usersFile'.lines)
      /\ Range(usersFile'.lines) \subseteq Range(usersFile.lines) \union {User(u, users[u])}
  <2>1. CASE Upserted(u, users[u])
    BY <1>1, <2>1, UserOnFile
  <2>2. CASE UpsertFailed(u, users[u]) \/ UNCHANGED usersFile
    BY <1>1, <2>2, UserNotOnFile DEF StoreTyped, FilesEnded
  <2> QED BY <1>4, <2>1, <2>2
<1>8. /\ gamesFile' = [lines |-> gamesFile'.lines, rest |-> Ended]
      /\ gamesFile'.lines \in Seq(ResultRow)
      /\ Range(gamesFile.lines) \subseteq Range(gamesFile'.lines)
      /\ Range(gamesFile'.lines) \subseteq Range(gamesFile.lines) \union {row}
      /\ recorded' \subseteq Range(gamesFile'.lines)
      /\ recorded' \in SUBSET ResultRow /\ IsFiniteSet(recorded')
  <2>1. gamesFile.lines \in Seq(ResultRow) /\ gamesFile = [lines |-> gamesFile.lines, rest |-> Ended]
    BY DEF StoreTyped, FilesEnded
  <2>2. CASE gamesFile' = Appended(gamesFile, row) /\ recorded' \in {recorded, recorded \union {row}}
    <3>1. gamesFile' = [lines |-> Append(gamesFile.lines, row), rest |-> Ended]
      BY <1>1, <2>1, <2>2, AppendTyped
    <3>2. gamesFile'.lines \in Seq(ResultRow) /\ Range(gamesFile'.lines) = Range(gamesFile.lines) \union {row}
      BY <1>1, <2>1, <3>1, RangeGrows
    <3>3. IsFiniteSet(recorded') /\ recorded' \in SUBSET ResultRow
      BY <1>1, <2>2, FS_AddElement DEF StoreTyped
    <3>4. recorded' \subseteq Range(gamesFile'.lines)
      BY <2>2, <3>2 DEF RowsKept
    <3> QED BY <3>1, <3>2, <3>3, <3>4
  <2>3. CASE gamesFile' \in AppendFailed(gamesFile, row) /\ UNCHANGED recorded
    <3>1. gamesFile' = gamesFile
      BY <1>1, <2>1, <2>3, AppendTyped
    <3> QED BY <2>1, <2>3, <3>1 DEF StoreTyped, RowsKept
  <2> QED BY <1>4, <2>2, <2>3
<1>9. StoreTyped'
  BY <1>5, <1>6, <1>7, <1>8 DEF StoreTyped
<1>10. FilesEnded' /\ RowsKept'
  BY <1>5, <1>7, <1>8 DEF FilesEnded, RowsKept
<1>11. TokensKept'
  BY <1>2, <1>6, <1>7, UserRecords DEF TokensKept
<1>12. GuestNames'
  BY <1>6 DEF GuestNames
<1> QED BY <1>9, <1>10, <1>11, <1>12

\* The next process reads the files back.
LEMMA RestartStored ==
  ASSUME StoreInv, Restart
  PROVE  StoreInv'
<1> USE DEF StoreInv
<1> DEFINE lines == usersFile.lines
           last(u) == SelectLastInSeq(lines, LAMBDA l : l.id = u)
<1>1. readLines(usersFile) = lines /\ readLines(gamesFile) = gamesFile.lines
  BY ReadsAll DEF FilesEnded
<1>2. lines \in Seq(UserRecord) /\ gamesFile.lines \in Seq(ResultRow)
  BY DEF StoreTyped
<1>3. /\ users' = [u \in {lines[i].id : i \in DOMAIN lines} |-> lines[last(u)].name]
      /\ rows' = gamesFile.lines /\ UNCHANGED <<usersFile, gamesFile, welcomed, recorded>>
  BY <1>1 DEF Restart
<1>4. Known' = {lines[i].id : i \in DOMAIN lines}
  BY <1>3 DEF Known
<1>5. ASSUME NEW u \in Known'
      PROVE  /\ User(u, users'[u]) \in Range(lines) /\ u \in Users /\ users'[u] \in Names
  <2>1. last(u) \in DOMAIN lines /\ lines[last(u)].id = u
    BY <1>2, <1>4, LastLine
  <2>2. lines[last(u)] \in UserRecord
    BY <1>2, <2>1
  <2>3. users'[u] = lines[last(u)].name
    BY <1>3, <1>4
  <2>4. lines[last(u)] = User(u, users'[u])
    BY <2>1, <2>2, <2>3, UserRecords
  <2> QED BY <2>1, <2>2, <2>4, UserRecords DEF Range
<1>6. StoreTyped'
  <2>1. users' \in [Known' -> Names] /\ Known' \subseteq Users
    BY <1>3, <1>4, <1>5
  <2> QED BY <1>2, <1>3, <2>1 DEF StoreTyped
<1>7. FilesEnded' /\ RowsKept'
  BY <1>3 DEF FilesEnded, RowsKept
<1>8. \A u \in Known' \intersect Guests : User(u, users'[u]) \in welcomed /\ u \in Known /\ users[u] = users'[u]
  BY <1>5, UserRecords DEF TokensKept
<1>9. TokensKept'
  <2>1. \A v \in welcomed : v.id \in Known'
    BY <1>4 DEF TokensKept, Range
  <2>2. \A v \in welcomed : v.id \in Guests => users'[v.id] = v.name
    BY <1>8, <2>1 DEF TokensKept
  <2> QED BY <1>3, <2>1, <2>2 DEF TokensKept
<1>10. GuestNames'
  BY <1>8 DEF GuestNames
<1> QED BY <1>6, <1>7, <1>9, <1>10

\* Every request, failed or not, and every restart keep the invariant.
LEMMA StepStoreInv ==
  ASSUME StoreInv, ~TornWrites, [StoreNext]_storeVars
  PROVE  StoreInv'
<1>1. CASE UNCHANGED storeVars
  BY <1>1 DEF storeVars, StoreInv, StoreTyped, FilesEnded, RowsKept, TokensKept, GuestNames, Known
<1>2. ASSUME NEW name \in Names, NEW u \in Guests, signInGuest(u, name) PROVE StoreInv'
  BY <1>2, GuestStored
<1>3. ASSUME NEW name \in Names, NEW u \in Accounts, signInGoogle(u, name) PROVE StoreInv'
  BY <1>3, MembersStored
<1>4. ASSUME NEW name \in Names, NEW u \in Logins, identify(u, name) PROVE StoreInv'
  BY <1>4, MembersStored
<1>5. ASSUME NEW u \in Known, NEW g \in Games, NEW result \in Results, recordGame(u, g, result)
      PROVE  StoreInv'
  BY <1>5, GameStored
<1> QED BY <1>1, <1>2, <1>3, <1>4, <1>5, RestartStored DEF StoreNext

-----------------------------------------------------------------------------
(* The standings.                                                          *)

\* The results of a player that were answered are no more than the rows of the player
\* that have such a result.
LEMMA Counted ==
  ASSUME StoreInv, NEW u, NEW results,
         NEW T, T = {r \in recorded : r.user = u /\ r.result \in results}
  PROVE  Cardinality(T) <= Count(u, results) /\ Count(u, results) \in Nat /\ Cardinality(T) \in Nat
<1> DEFINE I == {i \in RowsOf(u) : rows[i].result \in results}
           at == [r \in T |-> CHOOSE i \in DOMAIN rows : rows[i] = r]
<1>1. rows \in Seq(ResultRow) /\ Len(rows) \in Nat /\ DOMAIN rows = 1 .. Len(rows)
  BY DEF StoreInv, StoreTyped
<1>2. \A r \in T : at[r] \in DOMAIN rows /\ rows[at[r]] = r
  BY DEF StoreInv, RowsKept, Range
<1>3. at \in Injection(T, I)
  <2>1. \A r \in T : at[r] \in I
    BY <1>2 DEF RowsOf
  <2>2. \A r, q \in T : at[r] = at[q] => r = q
    BY <1>2
  <2> QED BY <2>1, <2>2 DEF Injection, IsInjective
<1>4. IsFiniteSet(I) /\ Cardinality(I) \in Nat
  <2>1. I \in SUBSET (1 .. Len(rows))
    BY <1>1 DEF RowsOf
  <2> HIDE DEF I, at
  <2>2. IsFiniteSet(1 .. Len(rows))
    BY <1>1, FS_Interval
  <2> QED BY <2>1, <2>2, FS_Subset, FS_CardinalityType
<1> HIDE DEF at, I
<1>5. Cardinality(T) <= Cardinality(I) /\ Cardinality(T) \in Nat
  BY <1>3, <1>4, FS_Injection, FS_CardinalityType
<1> QED BY <1>4, <1>5 DEF I, Count

\* Two disjoint sets of results divide the rows that have either.
LEMMA CountsAdd ==
  ASSUME StoreInv, NEW u, NEW S, NEW T, S \intersect T = {}
  PROVE  Count(u, S \union T) = Count(u, S) + Count(u, T)
<1> DEFINE I(R) == {i \in RowsOf(u) : rows[i].result \in R}
<1>1. \A R : IsFiniteSet(I(R)) /\ Cardinality(I(R)) \in Nat
  <2> SUFFICES ASSUME NEW R PROVE IsFiniteSet(I(R)) /\ Cardinality(I(R)) \in Nat
    OBVIOUS
  <2>1. rows \in Seq(ResultRow) /\ Len(rows) \in Nat /\ DOMAIN rows = 1 .. Len(rows)
    BY DEF StoreInv, StoreTyped
  <2>2. I(R) \in SUBSET (1 .. Len(rows))
    BY <2>1 DEF RowsOf
  <2> HIDE DEF I
  <2>3. IsFiniteSet(1 .. Len(rows))
    BY <2>1, FS_Interval
  <2> QED BY <2>2, <2>3, FS_Subset, FS_CardinalityType
<1>2. I(S \union T) = I(S) \union I(T) /\ I(S) \intersect I(T) = {}
  OBVIOUS
<1> HIDE DEF I
<1>3. Cardinality(I(S) \union I(T)) = Cardinality(I(S)) + Cardinality(I(T)) - Cardinality(I(S) \intersect I(T))
  BY <1>1, FS_Union
<1>4. Cardinality(I(S) \union I(T)) = Cardinality(I(S)) + Cardinality(I(T))
  BY <1>1, <1>2, <1>3, FS_EmptySet
<1> QED BY <1>2, <1>4 DEF Count, I

\* StoreInv and what was answered, as the standings show it.
LEMMA StandingsKept ==
  ASSUME StoreInv, NEW row \in recorded
  PROVE  /\ row.user \in DOMAIN leaderboard
         /\ LET own == {r \in recorded : r.user = row.user}
                player == leaderboard[row.user]
            IN /\ player.w >= Cardinality({r \in own : r.result = "win"})
               /\ player.l + player.d >= Cardinality({r \in own : r.result # "win"})
               /\ player.games = player.w + player.l + player.d
<1> DEFINE u == row.user
           wins == {r \in recorded : r.user = u /\ r.result \in {"win"}}
           others == {r \in recorded : r.user = u /\ r.result \in {"loss", "forfeit", "draw"}}
           player == leaderboard[u]
           own == {r \in recorded : r.user = u}
<1>1. rows \in Seq(ResultRow) /\ recorded \subseteq ResultRow
  BY DEF StoreInv, StoreTyped
<1>2. \A r \in ResultRow : r.result \in {"win", "loss", "forfeit", "draw"}
  BY ResultsAssumption DEF ResultRow
<1>3. u \in {rows[i].user : i \in DOMAIN rows}
  BY DEF StoreInv, RowsKept, Range
<1>4. /\ u \in DOMAIN leaderboard
      /\ player.w = Count(u, {"win"}) /\ player.l = Count(u, {"loss", "forfeit"})
      /\ player.d = Count(u, {"draw"}) /\ player.games = Cardinality(RowsOf(u))
  BY <1>3 DEF leaderboard
<1>5. {r \in own : r.result = "win"} = wins /\ {r \in own : r.result # "win"} = others
  BY <1>1, <1>2
<1>11. /\ own = {r \in recorded : r.user = row.user} /\ player = leaderboard[row.user] /\ u = row.user
  OBVIOUS
<1> HIDE DEF u, wins, others, player, own
<1>6. Cardinality(wins) <= Count(u, {"win"}) /\ Count(u, {"win"}) \in Nat /\ Cardinality(wins) \in Nat
  BY Counted DEF wins
<1>7. /\ Cardinality(others) <= Count(u, {"loss", "forfeit", "draw"})
      /\ Count(u, {"loss", "forfeit", "draw"}) \in Nat /\ Cardinality(others) \in Nat
  BY Counted DEF others
<1>8. /\ Count(u, {"loss", "forfeit", "draw"}) = Count(u, {"loss", "forfeit"}) + Count(u, {"draw"})
  <2>1. {"loss", "forfeit", "draw"} = {"loss", "forfeit"} \union {"draw"}
    OBVIOUS
  <2>2. {"loss", "forfeit"} \intersect {"draw"} = {}
    OBVIOUS
  <2> QED BY <2>1, <2>2, CountsAdd
<1>9. /\ Cardinality(RowsOf(u)) = Count(u, {"win"}) + Count(u, {"loss", "forfeit", "draw"})
  <2>1. {"win"} \intersect {"loss", "forfeit", "draw"} = {}
    OBVIOUS
  <2>2. RowsOf(u) = {i \in RowsOf(u) : rows[i].result \in {"win"} \union {"loss", "forfeit", "draw"}}
    BY <1>1, <1>2 DEF RowsOf
  <2>3. Count(u, {"win"} \union {"loss", "forfeit", "draw"}) = Cardinality(RowsOf(u))
    BY <2>2 DEF Count
  <2> QED BY <2>1, <2>3, CountsAdd
<1>10. Count(u, {"loss", "forfeit"}) \in Nat /\ Count(u, {"draw"}) \in Nat
  BY Counted
<1>12. /\ player.w >= Cardinality({r \in own : r.result = "win"})
       /\ player.l + player.d >= Cardinality({r \in own : r.result # "win"})
       /\ player.games = player.w + player.l + player.d
  <2>1. player.w >= Cardinality({r \in own : r.result = "win"})
    BY <1>4, <1>5, <1>6
  <2>2. player.l + player.d >= Cardinality({r \in own : r.result # "win"})
    BY <1>4, <1>5, <1>7, <1>8, <1>10
  <2>3. player.games = player.w + player.l + player.d
    BY <1>4, <1>6, <1>8, <1>9, <1>10
  <2> QED BY <2>1, <2>2, <2>3
<1> QED BY <1>4, <1>11, <1>12

\* AcknowledgedIsKept of PlayStore, where a failed append leaves nothing of its line: for
\* any users, games and requests, and however often the server restarts between them, a
\* result that was answered is on its file and in its player's standings, a token has its
\* user, and guests' names are their own.
THEOREM AcknowledgedKept ==
  ASSUME ~TornWrites
  PROVE  StoreSpec => []AcknowledgedIsKept
<1>1. StoreInit => StoreInv
  BY InitStoreInv
<1>2. StoreInv /\ [StoreNext]_storeVars => StoreInv'
  BY StepStoreInv
<1>3. StoreInv => AcknowledgedIsKept
  <2> SUFFICES ASSUME StoreInv PROVE AcknowledgedIsKept
    OBVIOUS
  <2>1. readLines(usersFile) = usersFile.lines /\ readLines(gamesFile) = gamesFile.lines
    BY ReadsAll DEF StoreInv, FilesEnded
  <2>2. recorded \subseteq Range(readLines(gamesFile))
    BY <2>1 DEF StoreInv, RowsKept
  <2>3. \A v \in welcomed : v.id \in Known /\ v \in Range(readLines(usersFile))
    BY <2>1 DEF StoreInv, TokensKept
  <2>4. \A u, v \in Known \intersect Guests : users[u] = users[v] => u = v
    BY DEF StoreInv, GuestNames
  <2> QED BY <2>2, <2>3, <2>4, StandingsKept DEF AcknowledgedIsKept
<1> QED BY <1>1, <1>2, <1>3, PTL DEF StoreSpec

-----------------------------------------------------------------------------
(* The page, for any opponents, number of attempts and bounds on a session. *)
(* Whatever the player does, a game's result is recorded once, truly, and  *)
(* against the opponent that it started with; and unless another opponent  *)
(* is chosen while a request is out, every move of it is the player's or   *)
(* that opponent's, for its own position.                                  *)
(*                                                                         *)
(* The argument: a game that is over rests (asking) and is never restored  *)
(* (stored), so that it is drawn over once and reported by that drawing;   *)
(* and while a request is out, nothing but its answer changes the place on *)
(* the board, so that the answer is played where it was asked.             *)

PageMove == [by : Opponents \union {"player"}, at : Nat \X Nat]
PageOutcomes == {"ongoing", "draw"} \union Sides
Board == [id : Nat, human : Sides, moves : Seq(PageMove), ply : Nat, outcome : PageOutcomes,
          forfeited : BOOLEAN, armed : BOOLEAN, recorded : BOOLEAN, stalled : BOOLEAN]
Reported == [game : Nat, result : {"forfeit", "draw", "win", "loss"}, against : Opponents]
Asking ==
  {Resting}
  \union [stage : {"out"}, attempt : 1 .. ATTEMPTS, at : Nat \X Nat, of : Opponents, replays : BOOLEAN]
  \union {[stage |-> "backoff", attempt |-> i] : i \in {n \in 1 .. ATTEMPTS : n < ATTEMPTS}}

PageTyped ==
  /\ opponentId \in Opponents
  /\ page \in Board
  /\ asking \in Asking
  /\ stored \in {<<>>} \union {<<g>> : g \in Board}
  /\ sent \in SUBSET Reported /\ IsFiniteSet(sent)
  /\ standings \in Seq(Reported)
  /\ bound \in Seq(Opponents)

\* The game on the board is the last one begun, against the opponent that is chosen.
Bound == Len(bound) = page.id /\ page.id > 0 /\ bound[page.id] = opponentId

\* A game that is over asks nothing and has no copy to be restored from.
OverRests ==
  /\ Over(page) => asking = Resting /\ stored = <<>>
  /\ ~Over(page) => /\ stored # <<>>
                    /\ stored[1].id = page.id /\ stored[1].human = page.human
                    /\ ~Over(stored[1])

\* A history that replayed when a request was made replays until it is answered.
AskedReplays == asking.stage = "out" /\ asking.replays => Replays(page)

PageRows == sent \union {standings[i] : i \in DOMAIN standings}

ReportedTrue ==
  \A row \in PageRows :
    /\ row.game \in 1 .. page.id
    /\ row.against = bound[row.game]
    /\ row.game = page.id => Over(page) /\ row.result = ResultOf(page)

\* Of one game there is one result, posted or recorded.
ReportedOnce ==
  /\ \A r, s \in sent : r.game = s.game => r = s
  /\ \A r \in sent, i \in DOMAIN standings : r.game # standings[i].game
  /\ \A i, j \in DOMAIN standings : standings[i].game = standings[j].game => i = j

PInv == PageTyped /\ Bound /\ OverRests /\ AskedReplays /\ ReportedTrue /\ ReportedOnce

-----------------------------------------------------------------------------
(* The operators.                                                          *)

\* Two boards that differ in their flags alone.
Alike(g, h) ==
  /\ g.id = h.id /\ g.human = h.human /\ g.moves = h.moves /\ g.ply = h.ply
  /\ g.outcome = h.outcome /\ g.forfeited = h.forfeited

\* What is said of a game does not depend on the flags.
LEMMA AlikeSame ==
  ASSUME NEW g \in Board, NEW h \in Board, Alike(g, h)
  PROVE  /\ Over(g) <=> Over(h)
         /\ ResultOf(g) = ResultOf(h) /\ Place(g) = Place(h) /\ ToMove(g) = ToMove(h)
         /\ NetworkToMove(g) <=> NetworkToMove(h)
         /\ Replays(g) <=> Replays(h)
BY DEF Alike, Over, ResultOf, Place, ToMove, NetworkToMove, Replays

\* A new board is the next game, at its beginning.
LEMMA NewBoardTyped ==
  ASSUME NEW id \in Nat, NEW side \in Sides
  PROVE  /\ NewBoard(id, side) \in Board /\ ~Over(NewBoard(id, side))
         /\ NewBoard(id, side).id = id /\ NewBoard(id, side).human = side
         /\ ~NewBoard(id, side).stalled /\ NewBoard(id, side).moves = <<>> /\ NewBoard(id, side).ply = 0
BY DEF NewBoard, Board, Over, PageOutcomes

\* The rules that accept a move append it and go on to the next ply.
LEMMA AcceptedTyped ==
  ASSUME NEW g \in Board, NEW move \in PageMove, NEW h \in Accepted(g, move)
  PROVE  /\ h \in Board
         /\ h.id = g.id /\ h.human = g.human /\ h.forfeited = g.forfeited /\ h.stalled = g.stalled
         /\ h.moves = Append(g.moves, move) /\ h.ply = g.ply + 1
         /\ h.outcome \in {"ongoing", "draw"} \union {ToMove(g)}
<1>1. PICK o \in {"draw", ToMove(g), "ongoing"} :
        h = [g EXCEPT !.moves = Append(@, move), !.ply = @ + 1, !.outcome = o]
  BY DEF Accepted
<1>2. o \in PageOutcomes
  BY DEF ToMove, PageOutcomes, Sides
<1>3. Append(g.moves, move) \in Seq(PageMove)
  BY DEF Board
<1>4. h = [g EXCEPT !.moves = Append(g.moves, move), !.ply = g.ply + 1, !.outcome = o]
  BY <1>1
<1>5. g.ply + 1 \in Nat
  BY DEF Board
<1>6. h \in Board
  BY <1>2, <1>3, <1>4, <1>5 DEF Board
<1>7. /\ h.id = g.id /\ h.human = g.human /\ h.forfeited = g.forfeited /\ h.stalled = g.stalled
      /\ h.moves = Append(g.moves, move) /\ h.ply = g.ply + 1 /\ h.outcome = o
  BY <1>4 DEF Board
<1> QED BY <1>6, <1>7

\* A move that is refused is in the history all the same, and nothing else has changed.
LEMMA RejectedTyped ==
  ASSUME NEW g \in Board, NEW move \in PageMove, NEW h \in Rejected(g, move)
  PROVE  /\ h \in Board /\ h.moves = Append(g.moves, move)
         /\ h.id = g.id /\ h.human = g.human /\ h.forfeited = g.forfeited
         /\ h.ply = g.ply /\ h.outcome = g.outcome
         /\ move.at # Place(g)
<1>1. h = [g EXCEPT !.moves = Append(@, move)] /\ move.at # Place(g)
  BY DEF Rejected
<1>2. Append(g.moves, move) \in Seq(PageMove)
  BY DEF Board
<1> QED BY <1>1, <1>2 DEF Board

\* A drawing keeps the game, saves it, and reports it when it is over.
LEMMA DrawTyped ==
  ASSUME NEW g \in Board, Draw(g)
  PROVE  /\ page' \in Board /\ Alike(page', g)
         /\ page'.stalled = g.stalled /\ stored' = Saved(g)
         /\ sent' = sent \/ (Over(g) /\ sent' = sent \union {Report(g)})
<1> DEFINE reporting == Over(g) /\ ~g.recorded /\ me
<1>1. page' = [g EXCEPT !.recorded = @ \/ reporting, !.armed = @ /\ ~Over(g)]
  BY DEF Draw
<1>2. (g.recorded \/ reporting) \in BOOLEAN /\ (g.armed /\ ~Over(g)) \in BOOLEAN
  OBVIOUS
<1> QED BY <1>1, <1>2 DEF Draw, Board, Alike

\* A request is for the place on the board, of the opponent that is chosen.
LEMMA RequestTyped ==
  ASSUME NEW g \in Board, NEW o \in Opponents, NEW i \in 1 .. ATTEMPTS
  PROVE  /\ Request(g, o, i) \in Asking /\ Request(g, o, i) # Resting
         /\ Request(g, o, i).stage = "out" /\ Request(g, o, i).at = Place(g)
         /\ Request(g, o, i).of = o /\ Request(g, o, i).replays = Replays(g)
<1>1. Place(g) \in Nat \X Nat /\ Replays(g) \in BOOLEAN
  BY DEF Board, Place, Replays
<1>2. /\ Request(g, o, i).stage = "out" /\ Request(g, o, i).at = Place(g)
      /\ Request(g, o, i).of = o /\ Request(g, o, i).replays = Replays(g)
  BY DEF Request
<1>3. Request(g, o, i) \in [stage : {"out"}, attempt : 1 .. ATTEMPTS, at : Nat \X Nat,
                            of : Opponents, replays : BOOLEAN]
  BY <1>1 DEF Request
<1>4. Request(g, o, i) # Resting
  BY <1>2 DEF Resting
<1> QED BY <1>2, <1>3, <1>4 DEF Asking

\* Saved keeps the game of a board that is not over, and nothing of one that is.
LEMMA SavedTyped ==
  ASSUME NEW g \in Board
  PROVE  /\ Saved(g) \in {<<>>} \union {<<h>> : h \in Board}
         /\ Over(g) => Saved(g) = <<>>
         /\ ~Over(g) => Saved(g) # <<>> /\ Saved(g)[1] = g
BY DEF Saved

\* A report is true of its game.
LEMMA ReportTyped ==
  ASSUME NEW g \in Board, opponentId \in Opponents
  PROVE  /\ Report(g) \in Reported /\ Report(g).game = g.id
         /\ Report(g).result = ResultOf(g) /\ Report(g).against = opponentId
BY DEF Report, Reported, Board, ResultOf

-----------------------------------------------------------------------------
(* Results.                                                                *)

\* The page as it starts.
LEMMA InitPInv == PageInit => PInv
<1> SUFFICES ASSUME PageInit PROVE PInv
  OBVIOUS
<1>1. PICK side \in Sides : page = NewBoard(1, side)
  BY DEF PageInit
<1>2. page \in Board /\ ~Over(page) /\ page.id = 1
  BY <1>1, NewBoardTyped
<1>3. stored \in {<<>>} \union {<<h>> : h \in Board} /\ stored # <<>> /\ stored[1] = page
  BY <1>2, SavedTyped DEF PageInit
<1>4. opponentId \in Opponents /\ asking \in Asking
  <2>1. 1 \in 1 .. ATTEMPTS
    BY PageAssumption
  <2>2. Resting \in Asking
    BY DEF Asking
  <2> QED BY <1>2, <2>1, <2>2, RequestTyped DEF PageInit
<1>5. sent = {} /\ standings = <<>> /\ bound = <<opponentId>>
  BY DEF PageInit
<1>6. PageTyped
  BY <1>2, <1>3, <1>4, <1>5, FS_EmptySet DEF PageTyped
<1>7. Bound /\ OverRests
  BY <1>2, <1>3, <1>4, <1>5 DEF Bound, OverRests
<1>8. ReportedTrue /\ ReportedOnce
  BY <1>5 DEF ReportedTrue, ReportedOnce, PageRows
<1>9. AskedReplays
  BY <1>1, NewBoardTyped DEF AskedReplays, Replays
<1> QED BY <1>6, <1>7, <1>8, <1>9 DEF PInv

\* A drawing of the game on the board, which may end it, unless it was over.
LEMMA DrawKeeps ==
  ASSUME PInv, ~Over(page), NEW g \in Board, g.id = page.id, g.human = page.human, Draw(g),
         UNCHANGED <<opponentId, standings, bound>>,
         asking' \in Asking, Over(g) => asking' = Resting,
         asking'.stage = "out" /\ asking'.replays => Replays(g)
  PROVE  PInv'
<1>1. /\ page' \in Board /\ Alike(page', g) /\ stored' = Saved(g)
      /\ sent' = sent \/ (Over(g) /\ sent' = sent \union {Report(g)})
  BY DrawTyped
<1>2. /\ Over(page') <=> Over(g)
      /\ ResultOf(page') = ResultOf(g) /\ page'.id = page.id /\ page'.human = page.human
  BY <1>1, AlikeSame DEF Alike
<1>3. /\ Report(g) \in Reported /\ Report(g).game = page.id
      /\ Report(g).result = ResultOf(g) /\ Report(g).against = opponentId
  BY ReportTyped DEF PInv, PageTyped
<1>4. PageTyped'
  <2>1. sent' \in SUBSET Reported /\ IsFiniteSet(sent')
    BY <1>1, <1>3, FS_AddElement DEF PInv, PageTyped
  <2> QED BY <1>1, <2>1, SavedTyped DEF PInv, PageTyped
<1>5. Bound'
  BY <1>2 DEF PInv, Bound
<1>6. OverRests'
  BY <1>1, <1>2, SavedTyped DEF OverRests, Alike
<1>7. \A row \in PageRows : row.game \in 1 .. page.id /\ row.against = bound[row.game] /\ row.game # page.id
  BY DEF PInv, ReportedTrue
<1>8. ReportedTrue'
  <2> SUFFICES ASSUME NEW row \in PageRows'
               PROVE  /\ row.game \in 1 .. page.id
                      /\ row.against = bound[row.game]
                      /\ row.game = page.id => Over(page') /\ row.result = ResultOf(page')
    BY <1>2 DEF ReportedTrue
  <2>1. CASE row \in PageRows
    BY <2>1, <1>7
  <2>2. CASE row \notin PageRows
    <3>1. Over(g) /\ row = Report(g)
      BY <2>2, <1>1 DEF PageRows
    <3> QED BY <3>1, <1>2, <1>3 DEF PInv, Bound, PageTyped, Board
  <2> QED BY <2>1, <2>2
<1>9. ReportedOnce'
  <2>1. CASE sent' = sent
    BY <2>1 DEF PInv, ReportedOnce
  <2>2. CASE sent' = sent \union {Report(g)}
    <3>1. \A r \in sent : r.game # Report(g).game
      BY <1>3, <1>7 DEF PageRows
    <3>2. \A i \in DOMAIN standings : standings[i].game # Report(g).game
      BY <1>3, <1>7 DEF PageRows
    <3> QED BY <2>2, <3>1, <3>2 DEF PInv, ReportedOnce
  <2> QED BY <1>1, <2>1, <2>2
<1>10. AskedReplays'
  BY <1>1, AlikeSame DEF AskedReplays
<1> QED BY <1>4, <1>5, <1>6, <1>8, <1>9, <1>10 DEF PInv

\* Another game, whatever is still being asked; the results are among those there were.
LEMMA BeginKeeps ==
  ASSUME PInv, NEW busy \in Asking, Begin(busy), opponentId' \in Opponents,
         sent' \in SUBSET sent, standings' \in Seq(Reported), PageRows' \subseteq PageRows, ReportedOnce'
  PROVE  PInv'
<1>1. PICK side \in Sides :
        LET g == NewBoard(page.id + 1, side)
        IN /\ asking' = IF NetworkToMove(g) /\ busy = Resting THEN Request(g, opponentId', 1) ELSE busy
           /\ page' = g /\ stored' = Saved(g)
  BY DEF Begin
<1>2. page.id \in Nat /\ page \in Board
  BY DEF PInv, PageTyped, Board
<1>3. page' \in Board /\ ~Over(page') /\ page'.id = page.id + 1
  <2>1. page' = NewBoard(page.id + 1, side) /\ page.id + 1 \in Nat
    BY <1>1, <1>2
  <2> QED BY <2>1, NewBoardTyped
<1>4. bound' = Append(bound, opponentId')
  BY DEF Begin
<1>5. stored' \in {<<>>} \union {<<h>> : h \in Board} /\ stored' # <<>> /\ stored'[1] = page'
  BY <1>1, <1>3, SavedTyped
<1>6. asking' \in Asking
  <2>1. 1 \in 1 .. ATTEMPTS
    BY PageAssumption
  <2> QED BY <1>1, <1>3, <2>1, RequestTyped
<1>7. bound \in Seq(Opponents) /\ Len(bound) = page.id
  BY DEF PInv, PageTyped, Bound
<1>8. /\ bound' \in Seq(Opponents) /\ Len(bound') = page.id + 1
      /\ bound'[page.id + 1] = opponentId' /\ \A i \in 1 .. page.id : bound'[i] = bound[i]
  BY <1>2, <1>4, <1>7
<1>9. PageTyped'
  <2>1. IsFiniteSet(sent') /\ sent' \in SUBSET Reported
    BY FS_Subset DEF PInv, PageTyped
  <2> QED BY <1>3, <1>5, <1>6, <1>8, <2>1 DEF PageTyped
<1>10. Bound'
  BY <1>2, <1>3, <1>8 DEF Bound
<1>11. OverRests'
  BY <1>3, <1>5 DEF OverRests
<1>12. ReportedTrue'
  BY <1>2, <1>3, <1>8 DEF PInv, ReportedTrue
<1>13. AskedReplays'
  BY <1>1, <1>2, NewBoardTyped DEF AskedReplays, Replays
<1> QED BY <1>9, <1>10, <1>11, <1>12, <1>13 DEF PInv

\* What is asked, while it is asked, and that the game is on.
LEMMA AskingTyped ==
  ASSUME PInv
  PROVE  /\ asking.stage # "resting" => ~Over(page) /\ asking.attempt \in 1 .. ATTEMPTS
         /\ asking.stage = "backoff" => asking.attempt < ATTEMPTS
         /\ asking.stage = "out" => asking.at \in Nat \X Nat /\ asking.of \in Opponents
         /\ asking = Resting \/ asking.stage \in {"out", "backoff"}
<1>1. asking \in Asking /\ (Over(page) => asking = Resting)
  BY DEF PInv, PageTyped, OverRests
<1>2. CASE asking = Resting
  BY <1>2 DEF Resting
<1>3. CASE asking \in [stage : {"out"}, attempt : 1 .. ATTEMPTS, at : Nat \X Nat,
                       of : Opponents, replays : BOOLEAN]
  BY <1>1, <1>3 DEF Resting
<1>4. CASE asking \in {[stage |-> "backoff", attempt |-> i] : i \in {n \in 1 .. ATTEMPTS : n < ATTEMPTS}}
  BY <1>1, <1>4 DEF Resting
<1> QED BY <1>1, <1>2, <1>3, <1>4 DEF Asking

\* A flag of a board says nothing of its game.
LEMMA FlagTyped ==
  ASSUME NEW g \in Board, NEW b \in BOOLEAN
  PROVE  /\ [g EXCEPT !.stalled = b] \in Board /\ Alike([g EXCEPT !.stalled = b], g)
         /\ [g EXCEPT !.armed = b] \in Board /\ Alike([g EXCEPT !.armed = b], g)
BY DEF Board, Alike

\* A request that failed, with the board it leaves, is asked again or given up.
LEMMA RetryKeeps ==
  ASSUME PInv, asking.stage = "out", NEW g \in Board, g.id = page.id, g.human = page.human,
         g.outcome = page.outcome, g.forfeited = page.forfeited, Retry(g),
         UNCHANGED <<opponentId, standings, bound>>
  PROVE  PInv'
<1>1. ~Over(page) /\ asking.attempt \in 1 .. ATTEMPTS
  BY AskingTyped
<1>2. Over(g) <=> Over(page)
  BY DEF Over
<1>3. CASE asking.attempt = ATTEMPTS
  <2> DEFINE h == [g EXCEPT !.stalled = TRUE]
  <2>1. asking' = Resting /\ Draw(h)
    BY <1>3 DEF Retry, GiveUp
  <2>2. h \in Board /\ Alike(h, g)
    BY FlagTyped
  <2>3. h.id = page.id /\ h.human = page.human
    BY <2>2 DEF Alike
  <2>4. Resting \in Asking /\ Resting.stage = "resting"
    BY DEF Asking, Resting
  <2> HIDE DEF h
  <2> QED BY <1>1, <2>1, <2>2, <2>3, <2>4, DrawKeeps
<1>4. CASE asking.attempt # ATTEMPTS
  <2>1. /\ asking' = [stage |-> "backoff", attempt |-> asking.attempt]
        /\ page' = g /\ UNCHANGED <<sent, stored>>
    BY <1>4 DEF Retry
  <2>2. asking' \in Asking
    BY <1>1, <1>4, <2>1, PageAssumption DEF Asking
  <2>3. PageTyped'
    BY <2>1, <2>2 DEF PInv, PageTyped
  <2>4. Bound' /\ ReportedOnce' /\ AskedReplays'
    BY <2>1 DEF PInv, Bound, ReportedOnce, AskedReplays
  <2>5. OverRests'
    BY <1>1, <1>2, <2>1 DEF PInv, OverRests
  <2>6. ReportedTrue'
    BY <1>1, <1>2, <2>1 DEF PInv, ReportedTrue, PageRows
  <2> QED BY <2>3, <2>4, <2>5, <2>6 DEF PInv
<1> QED BY <1>3, <1>4

\* The answer to a request, played or refused.
LEMMA AnswerArrivesPInv == ASSUME PInv, AnswerArrives PROVE PInv'
<1> DEFINE move == [by |-> asking.of, at |-> asking.at]
<1>1. /\ asking.stage = "out" /\ UNCHANGED <<opponentId, me, standings, reachable, reloads, bound>>
      /\ page \in Board
  BY DEF AnswerArrives, PInv, PageTyped
<1>2. PICK g \in Accepted(page, move) \union Rejected(page, move) :
        IF Replays(g) THEN asking' = Resting /\ Draw(g) ELSE Retry(g)
  BY DEF AnswerArrives
<1>3. ~Over(page) /\ move \in PageMove
  BY <1>1, AskingTyped DEF PageMove
<1>0. Resting \in Asking /\ Resting.stage = "resting"
  BY DEF Asking, Resting
<1>4. CASE g \in Accepted(page, move) /\ Replays(g)
  BY <1>0, <1>1, <1>2, <1>3, <1>4, AcceptedTyped, DrawKeeps
<1>5. CASE g \in Rejected(page, move) /\ Replays(g)
  BY <1>0, <1>1, <1>2, <1>3, <1>5, RejectedTyped, DrawKeeps
<1>6. CASE g \in Rejected(page, move) /\ ~Replays(g)
  BY <1>1, <1>2, <1>3, <1>6, RejectedTyped, RetryKeeps
<1>7. CASE g \in Accepted(page, move) /\ ~Replays(g)
  <2>1. Replays(page) /\ Len(Append(page.moves, move)) = Len(page.moves) + 1
    BY <1>1, <1>3 DEF AnswerArrives, PInv, AskedReplays, Board
  <2> QED BY <1>1, <1>3, <1>7, <2>1, AcceptedTyped DEF Replays
<1> QED BY <1>2, <1>4, <1>5, <1>6, <1>7

\* A request that fails, retried or given up.
LEMMA RequestFailsPInv == ASSUME PInv, RequestFails PROVE PInv'
BY RetryKeeps DEF RequestFails, PInv, PageTyped

\* A pause that ends in another request.
LEMMA BackoffEndsPInv == ASSUME PInv, BackoffEnds PROVE PInv'
<1>1. /\ asking' = Request(page, opponentId, asking.attempt + 1) /\ asking.stage = "backoff"
      /\ UNCHANGED <<opponentId, page, stored, me, sent, standings, reachable, reloads, bound>>
  BY DEF BackoffEnds
<1>2. ~Over(page) /\ asking.attempt + 1 \in 1 .. ATTEMPTS /\ page \in Board /\ opponentId \in Opponents
  BY <1>1, AskingTyped, PageAssumption DEF PInv, PageTyped
<1>3. asking' \in Asking /\ asking'.replays = Replays(page)
  BY <1>1, <1>2, RequestTyped
<1>4. PageTyped'
  BY <1>1, <1>3 DEF PInv, PageTyped
<1> QED BY <1>1, <1>2, <1>3, <1>4 DEF PInv, Bound, OverRests, AskedReplays, ReportedTrue, ReportedOnce, PageRows

\* The network is asked for the game that goes on.
LEMMA AskKeeps ==
  ASSUME PInv, ~Over(page), NEW g \in Board, ~Over(g), g.id = page.id, g.human = page.human,
         AskNetwork(g), UNCHANGED <<opponentId, standings, bound>>
  PROVE  PInv'
<1> DEFINE h == [g EXCEPT !.stalled = FALSE]
<1>1. asking' = Request(g, opponentId, 1) /\ Draw(h)
  BY DEF AskNetwork
<1>2. h \in Board /\ Alike(h, g)
  BY FlagTyped
<1>3. h.id = page.id /\ h.human = page.human /\ ~Over(h) /\ (Replays(h) <=> Replays(g))
  BY <1>2, AlikeSame DEF Alike
<1>4. 1 \in 1 .. ATTEMPTS /\ opponentId \in Opponents
  BY PageAssumption DEF PInv, PageTyped
<1>5. asking' \in Asking /\ asking'.replays = Replays(g)
  BY <1>1, <1>4, RequestTyped
<1> HIDE DEF h
<1> QED BY <1>1, <1>2, <1>3, <1>5, DrawKeeps

\* A stalled game that is asked about again.
LEMMA ResumePInv == ASSUME PInv, Resume PROVE PInv'
BY AskKeeps DEF Resume, PInv, PageTyped

\* The player's move.
LEMMA PlayPInv == ASSUME PInv, Play PROVE PInv'
<1> DEFINE board == [page EXCEPT !.armed = FALSE]
           move == [by |-> "player", at |-> Place(page)]
<1>1. /\ asking = Resting /\ ~Over(page) /\ page \in Board
      /\ UNCHANGED <<opponentId, me, standings, reachable, reloads, bound>>
  BY DEF Play, PInv, PageTyped
<1>2. PICK g \in Accepted(board, move) : IF Over(g) THEN Draw(g) /\ UNCHANGED asking ELSE AskNetwork(g)
  BY DEF Play
<1>3. board \in Board /\ board.id = page.id /\ board.human = page.human
  BY <1>1, FlagTyped DEF Alike
<1>4. move \in PageMove
  BY <1>1 DEF PageMove, Place, Board
<1>5. g \in Board /\ g.id = page.id /\ g.human = page.human
  BY <1>2, <1>3, <1>4, AcceptedTyped
<1>6. CASE Over(g)
  <2>1. asking' = Resting /\ Resting \in Asking /\ Resting.stage = "resting" /\ Draw(g)
    BY <1>1, <1>2, <1>6 DEF Asking, Resting
  <2> QED BY <1>1, <1>5, <2>1, DrawKeeps
<1>7. CASE ~Over(g)
  BY <1>1, <1>2, <1>5, <1>7, AskKeeps
<1> QED BY <1>6, <1>7

\* A game given up.
LEMMA ForfeitPInv == ASSUME PInv, Forfeit PROVE PInv'
<1>1. /\ ~Over(page) /\ asking = Resting /\ asking' = asking /\ page \in Board
      /\ Draw(IF page.armed THEN [page EXCEPT !.forfeited = TRUE] ELSE [page EXCEPT !.armed = TRUE])
      /\ UNCHANGED <<opponentId, asking, me, standings, reachable, reloads, bound>>
  BY DEF Forfeit, PInv, PageTyped
<1>2. Resting \in Asking /\ Resting.stage = "resting"
  BY DEF Asking, Resting
<1>3. /\ [page EXCEPT !.forfeited = TRUE] \in Board
      /\ [page EXCEPT !.forfeited = TRUE].id = page.id
      /\ [page EXCEPT !.forfeited = TRUE].human = page.human
  BY <1>1 DEF Board
<1>4. /\ [page EXCEPT !.armed = TRUE] \in Board
      /\ [page EXCEPT !.armed = TRUE].id = page.id
      /\ [page EXCEPT !.armed = TRUE].human = page.human
  BY <1>1 DEF Board
<1> QED BY <1>1, <1>2, <1>3, <1>4, DrawKeeps

\* A new game, from the button, after a game that is over, or against another opponent.
LEMMA NewGamePInv == ASSUME PInv, NewGame, opponentId' \in Opponents PROVE PInv'
<1>1. Begin(asking) /\ UNCHANGED <<me, sent, standings, reachable, reloads>>
  BY DEF NewGame
<1>2. ReportedOnce' /\ PageRows' \subseteq PageRows
  BY <1>1 DEF PInv, ReportedOnce, PageRows
<1> QED BY <1>1, <1>2, BeginKeeps DEF PInv, PageTyped

\* The sequence of a finite set has each of its elements, once.
LEMMA SetToSeqIsInjective ==
  ASSUME NEW S, IsFiniteSet(S)
  PROVE  /\ SetToSeq(S) \in [1 .. Cardinality(S) -> S] /\ Cardinality(S) \in Nat
         /\ \A i, j \in 1 .. Cardinality(S) : SetToSeq(S)[i] = SetToSeq(S)[j] => i = j
<1>1. Cardinality(S) \in Nat /\ ExistsBijection(1 .. Cardinality(S), S)
  BY FS_CardinalityType
<1>2. \E f \in [1 .. Cardinality(S) -> S] : IsInjective(f)
  BY <1>1 DEF ExistsBijection, Bijection, Injection
<1>3. SetToSeq(S) \in [1 .. Cardinality(S) -> S] /\ IsInjective(SetToSeq(S))
  BY <1>2 DEF SetToSeq
<1> QED BY <1>1, <1>3 DEF IsInjective

\* Of the results that were posted, those that were recorded before a reload are recorded
\* after the ones that were answered.
LEMMA LandedOnce ==
  ASSUME PageTyped, ReportedOnce, NEW landed \in SUBSET sent
  PROVE  LET all == standings \o SetToSeq(landed)
         IN /\ all \in Seq(Reported)
            /\ {all[i] : i \in DOMAIN all} \subseteq PageRows
            /\ \A i, j \in DOMAIN all : all[i].game = all[j].game => i = j
<1> DEFINE n == Len(standings)
           k == Cardinality(landed)
           new == SetToSeq(landed)
           all == standings \o new
<1>1. IsFiniteSet(landed) /\ landed \subseteq Reported /\ standings \in Seq(Reported)
  BY FS_Subset DEF PageTyped
<1>2. /\ new \in [1 .. k -> landed] /\ k \in Nat
      /\ \A i, j \in 1 .. k : new[i] = new[j] => i = j
  BY <1>1, SetToSeqIsInjective
<1>3. new \in Seq(Reported) /\ Len(new) = k
  BY <1>1, <1>2
<1> HIDE DEF new, k
<1>4. /\ all \in Seq(Reported) /\ Len(all) = n + k /\ n \in Nat
      /\ DOMAIN all = 1 .. n + k
      /\ \A i \in 1 .. n + k : all[i] = IF i <= n THEN standings[i] ELSE new[i - n]
  BY <1>1, <1>2, <1>3
<1>5. DOMAIN standings = 1 .. n
  BY <1>1
<1> HIDE DEF all, n
<1>6. ASSUME NEW i \in DOMAIN all
      PROVE  /\ i <= n => i \in DOMAIN standings /\ all[i] = standings[i]
             /\ i > n => i - n \in 1 .. k /\ all[i] = new[i - n] /\ all[i] \in sent
  BY <1>2, <1>4, <1>5
<1>7. {all[i] : i \in DOMAIN all} \subseteq PageRows
  BY <1>4, <1>6 DEF PageRows
<1>8. ASSUME NEW i \in DOMAIN all, NEW j \in DOMAIN all, all[i].game = all[j].game
      PROVE  i = j
  <2>1. CASE i <= n /\ j <= n
    BY <2>1, <1>6, <1>8 DEF ReportedOnce
  <2>2. CASE i > n /\ j > n
    <3>1. new[i - n] = new[j - n]
      BY <2>2, <1>6, <1>8 DEF ReportedOnce
    <3>2. i - n = j - n
      BY <2>2, <3>1, <1>2, <1>6
    <3> QED BY <3>2, <1>4
  <2>3. CASE i <= n /\ j > n
    BY <2>3, <1>6, <1>8 DEF ReportedOnce
  <2>4. CASE i > n /\ j <= n
    BY <2>4, <1>6, <1>8 DEF ReportedOnce
  <2> QED BY <2>1, <2>2, <2>3, <2>4, <1>4
<1> QED BY <1>4, <1>7, <1>8 DEF all, new

\* A page that is loaded again, from its stored game or without one.
LEMMA ReloadPInv == ASSUME PInv, Reload PROVE PInv'
<1>1. /\ sent' = {} /\ opponentId' = opponentId /\ page \in Board /\ opponentId \in Opponents
      /\ stored \in {<<>>} \union {<<g>> : g \in Board}
  BY DEF Reload, PInv, PageTyped
<1>2. PICK landed \in SUBSET sent : standings' = standings \o SetToSeq(landed)
  BY DEF Reload
<1>3. /\ standings' \in Seq(Reported)
      /\ {standings'[i] : i \in DOMAIN standings'} \subseteq PageRows
      /\ \A i, j \in DOMAIN standings' : standings'[i].game = standings'[j].game => i = j
  BY <1>2, LandedOnce DEF PInv
<1>4. ReportedOnce' /\ PageRows' \subseteq PageRows /\ sent' \in SUBSET sent
  BY <1>1, <1>3 DEF ReportedOnce, PageRows
<1>5. CASE \E i \in DOMAIN stored : Replays(stored[i])
  <2> DEFINE s == stored[1]
             g == [s EXCEPT !.armed = FALSE, !.recorded = FALSE, !.stalled = FALSE]
  <2>1. /\ asking' = IF NetworkToMove(g) THEN Request(g, opponentId, 1) ELSE Resting
        /\ page' = g /\ UNCHANGED <<stored, bound>>
    BY <1>5 DEF Reload
  <2>2. stored # <<>> /\ s \in Board /\ DOMAIN stored = {1} /\ Replays(s)
    BY <1>1, <1>5
  <2>3. /\ ~Over(page) /\ ~Over(s) /\ s.id = page.id /\ s.human = page.human
    BY <2>2 DEF PInv, OverRests
  <2> HIDE DEF s
  <2>4. g \in Board /\ Alike(g, s)
    BY <2>2 DEF Board, Alike
  <2>5. ~Over(g) /\ Replays(g) /\ g.id = page.id /\ g.human = page.human
    BY <2>2, <2>3, <2>4, AlikeSame DEF Alike
  <2> HIDE DEF g
  <2>6. asking' \in Asking
    <3>1. 1 \in 1 .. ATTEMPTS /\ Resting \in Asking
      BY PageAssumption DEF Asking
    <3> QED BY <1>1, <2>1, <2>4, <3>1, RequestTyped
  <2>7. PageTyped'
    BY <1>1, <1>3, <2>1, <2>4, <2>6, FS_EmptySet DEF PInv, PageTyped
  <2>8. Bound' /\ OverRests' /\ AskedReplays'
    BY <1>1, <2>1, <2>2, <2>3, <2>5 DEF PInv, Bound, OverRests, AskedReplays, s
  <2>9. ReportedTrue'
    BY <1>4, <2>1, <2>3, <2>5 DEF PInv, ReportedTrue
  <2> QED BY <1>4, <2>7, <2>8, <2>9 DEF PInv
<1>6. CASE ~\E i \in DOMAIN stored : Replays(stored[i])
  <2>1. Begin(Resting) /\ Resting \in Asking
    BY <1>6 DEF Reload, Asking
  <2> QED BY <1>1, <1>3, <1>4, <2>1, BeginKeeps
<1> QED BY <1>5, <1>6

\* A report of a result that is answered, or fails.
LEMMA ReportAnsweredPInv == ASSUME PInv, NEW row \in sent, ReportAnswered(row) PROVE PInv'
<1>1. /\ sent' = sent \ {row} /\ row \in Reported
      /\ UNCHANGED <<opponentId, asking, stored, me, reachable, reloads, bound>>
      /\ page \in Board /\ standings \in Seq(Reported)
      /\ standings' \in {standings, Append(standings, row)}
      /\ page' \in {page, [page EXCEPT !.recorded = FALSE]}
  BY DEF ReportAnswered, PInv, PageTyped
<1>2. page' \in Board /\ Alike(page', page)
  BY <1>1 DEF Board, Alike
<1>3. /\ Over(page') <=> Over(page)
      /\ ResultOf(page') = ResultOf(page) /\ page'.id = page.id /\ page'.human = page.human
      /\ Replays(page') <=> Replays(page)
  BY <1>1, <1>2, AlikeSame DEF Alike
<1>4. standings' \in Seq(Reported) /\ IsFiniteSet(sent')
  BY <1>1, FS_RemoveElement DEF PInv, PageTyped
<1>5. PageTyped'
  BY <1>1, <1>2, <1>4 DEF PInv, PageTyped
<1>6. Bound' /\ OverRests' /\ AskedReplays'
  BY <1>1, <1>3 DEF PInv, Bound, OverRests, AskedReplays
<1>7. CASE standings' = standings
  <2>1. PageRows' \subseteq PageRows /\ ReportedOnce'
    BY <1>1, <1>7 DEF PageRows, PInv, ReportedOnce
  <2> QED BY <1>1, <1>3, <1>5, <1>6, <2>1 DEF PInv, ReportedTrue
<1>8. CASE standings' = Append(standings, row)
  <2>1. /\ DOMAIN standings' = 1 .. Len(standings) + 1 /\ standings'[Len(standings) + 1] = row
        /\ \A i \in DOMAIN standings : standings'[i] = standings[i]
        /\ DOMAIN standings = 1 .. Len(standings) /\ Len(standings) \in Nat
    BY <1>1, <1>8
  <2>2. PageRows' \subseteq PageRows
    BY <1>1, <2>1 DEF PageRows
  <2>3. ReportedOnce'
    <3>1. \A i \in DOMAIN standings' : i \in DOMAIN standings \/ i = Len(standings) + 1
      BY <2>1
    <3> QED BY <1>1, <2>1, <3>1 DEF PInv, ReportedOnce
  <2> QED BY <1>1, <1>3, <1>5, <1>6, <2>2, <2>3 DEF PInv, ReportedTrue
<1> QED BY <1>1, <1>7, <1>8

\* Every step of the page.
LEMMA StepPInv == PInv /\ [PageNext]_pageVars => PInv'
<1> SUFFICES ASSUME PInv, [PageNext]_pageVars PROVE PInv'
  OBVIOUS
<1>1. ASSUME NEW o \in Opponents, Switch(o) PROVE PInv'
  BY <1>1, NewGamePInv DEF Switch
<1>2. CASE AnotherGame
  BY <1>2, NewGamePInv DEF AnotherGame, PInv, PageTyped
<1>3. CASE MeArrives \/ Recover \/ UNCHANGED pageVars
  BY <1>3 DEF MeArrives, Recover, pageVars, PInv, PageTyped, Bound, OverRests, AskedReplays, ReportedTrue, ReportedOnce, PageRows
<1> QED BY <1>1, <1>2, <1>3, AnswerArrivesPInv, RequestFailsPInv, BackoffEndsPInv, ResumePInv, PlayPInv,
           ForfeitPInv, ReloadPInv, ReportAnsweredPInv DEF PageNext, RequestSettles

\* Whenever an opponent is chosen and whatever is asked, answered, failed or reloaded: a
\* result is what became of its game, recorded once, against the opponent it began with.
THEOREM ResultsHold == PageSpec => []ResultsAreTrue
<1>1. PInv => ResultsAreTrue
  BY DEF PInv, ReportedTrue, ReportedOnce, PageRows, ResultsAreTrue
<1> QED BY <1>1, InitPInv, StepPInv, PTL DEF PageSpec

-----------------------------------------------------------------------------
(* Moves, when no opponent is chosen while a request is out.               *)

Chooser(g, side, opponent) == IF side = g.human THEN "player" ELSE opponent

MovesFollow(g, opponent) ==
  /\ Replays(g)
  /\ \A i \in DOMAIN g.moves :
       g.moves[i] = [by |-> Chooser(g, IF i % 2 = 1 THEN "A" ELSE "B", opponent), at |-> <<g.id, i - 1>>]

\* What is asked is the move of the game on the board, in its place, of its opponent; and
\* the copy in storage is that game.
MInv ==
  /\ MovesFollow(page, opponentId)
  /\ asking # Resting => NetworkToMove(page)
  /\ asking.stage = "out" => asking.at = Place(page) /\ asking.of = opponentId /\ asking.replays
  /\ ~Over(page) => Alike(stored[1], page)
  /\ page.stalled => asking = Resting /\ (Over(page) \/ NetworkToMove(page))

\* The two sides move in turn.
LEMMA Parity == \A n \in Nat : n % 2 = 0 <=> (n + 1) % 2 = 1
OBVIOUS

\* A move chosen by the side to move, for this place, keeps the history true.
LEMMA MovesGrow ==
  ASSUME NEW g \in Board, NEW o \in Opponents, MovesFollow(g, o), NEW move \in PageMove,
         move = [by |-> Chooser(g, ToMove(g), o), at |-> Place(g)], NEW h \in Accepted(g, move)
  PROVE  MovesFollow(h, o)
<1>1. /\ h.moves = Append(g.moves, move) /\ h.ply = g.ply + 1 /\ h.id = g.id /\ h.human = g.human
      /\ g.moves \in Seq(PageMove) /\ g.ply \in Nat /\ Len(g.moves) = g.ply
  BY AcceptedTyped DEF Board, MovesFollow, Replays
<1>2. /\ DOMAIN h.moves = 1 .. g.ply + 1 /\ DOMAIN g.moves = 1 .. g.ply
      /\ Len(h.moves) = g.ply + 1 /\ h.moves[g.ply + 1] = move
      /\ \A i \in 1 .. g.ply : h.moves[i] = g.moves[i]
  BY <1>1
<1>3. Replays(h)
  BY <1>1, <1>2 DEF Replays
<1>4. ToMove(g) = IF (g.ply + 1) % 2 = 1 THEN "A" ELSE "B"
  BY <1>1, Parity DEF ToMove
<1>5. \A side : Chooser(h, side, o) = Chooser(g, side, o)
  BY <1>1 DEF Chooser
<1> SUFFICES ASSUME NEW i \in 1 .. g.ply + 1
             PROVE  h.moves[i] = [by |-> Chooser(g, IF i % 2 = 1 THEN "A" ELSE "B", o), at |-> <<g.id, i - 1>>]
  BY <1>1, <1>2, <1>3, <1>5 DEF MovesFollow
<1>6. CASE i = g.ply + 1
  <2>1. Place(g) = <<g.id, i - 1>>
    BY <1>1, <1>6 DEF Place
  <2> QED BY <1>2, <1>4, <1>6, <2>1
<1>7. CASE i # g.ply + 1
  <2>1. i \in 1 .. g.ply
    BY <1>1, <1>7
  <2> QED BY <2>1, <1>2 DEF MovesFollow
<1> QED BY <1>6, <1>7

\* The flags of a board say nothing of its moves, and a new board has none.
LEMMA MovesAlike ==
  ASSUME NEW g \in Board, NEW h \in Board, NEW o, Alike(h, g), MovesFollow(g, o)
  PROVE  MovesFollow(h, o)
BY DEF MovesFollow, Alike, Replays, Chooser

\* The page as it starts.
LEMMA InitMInv == PageInit => MInv
<1> SUFFICES ASSUME PageInit PROVE MInv
  OBVIOUS
<1>1. PICK side \in Sides : page = NewBoard(1, side)
  BY DEF PageInit
<1>2. page \in Board /\ ~Over(page) /\ page.moves = <<>> /\ page.ply = 0 /\ stored[1] = page /\ ~page.stalled
  BY <1>1, NewBoardTyped, SavedTyped DEF PageInit
<1>3. asking = IF NetworkToMove(page) THEN Request(page, opponentId, 1) ELSE Resting
  BY DEF PageInit
<1>4. 1 \in 1 .. ATTEMPTS /\ opponentId \in Opponents
  BY PageAssumption DEF PageInit
<1>5. Replays(page)
  BY <1>2 DEF Replays
<1>6. Resting.stage = "resting"
  BY DEF Resting
<1> QED BY <1>2, <1>3, <1>4, <1>5, <1>6, RequestTyped DEF MInv, MovesFollow, Alike

\* A drawing of a game with a true history, and a request that is made for it.
LEMMA DrawMoves ==
  ASSUME NEW g \in Board, MovesFollow(g, opponentId), Draw(g), opponentId' = opponentId,
         asking' = Resting \/ (NetworkToMove(g) /\ asking' = Request(g, opponentId, 1)),
         g.stalled => asking' = Resting /\ (Over(g) \/ NetworkToMove(g)),
         opponentId \in Opponents
  PROVE  MInv'
<1>1. page' \in Board /\ Alike(page', g) /\ stored' = Saved(g)
  BY DrawTyped
<1>2. MovesFollow(page', opponentId')
  BY <1>1, MovesAlike
<1>3. /\ Over(page') <=> Over(g)
      /\ NetworkToMove(page') <=> NetworkToMove(g)
      /\ Place(page') = Place(g)
  BY <1>1, AlikeSame
<1>4. ~Over(page') => Alike(stored'[1], page')
  BY <1>1, <1>3, SavedTyped DEF Alike
<1>5. asking'.stage = "out" => NetworkToMove(g) /\ asking' = Request(g, opponentId, 1)
  BY DEF Resting
<1>6. asking'.stage = "out" => asking'.at = Place(g) /\ asking'.of = opponentId /\ asking'.replays
  BY <1>5, RequestTyped, PageAssumption DEF MovesFollow
<1>7. page'.stalled = g.stalled
  BY DrawTyped
<1> QED BY <1>2, <1>3, <1>4, <1>6, <1>7 DEF MInv

\* Asking the network moves nothing.
LEMMA AskMoves ==
  ASSUME NEW g \in Board, MovesFollow(g, opponentId), NetworkToMove(g), AskNetwork(g),
         opponentId' = opponentId, opponentId \in Opponents
  PROVE  MInv'
<1> DEFINE h == [g EXCEPT !.stalled = FALSE]
<1>1. asking' = Request(g, opponentId, 1) /\ Draw(h)
  BY DEF AskNetwork
<1>2. h \in Board /\ Alike(h, g)
  BY FlagTyped
<1>3. MovesFollow(h, opponentId) /\ NetworkToMove(h) /\ Request(h, opponentId, 1) = Request(g, opponentId, 1)
  <2>1. Place(h) = Place(g) /\ (Replays(h) <=> Replays(g)) /\ (NetworkToMove(h) <=> NetworkToMove(g))
    BY <1>2, AlikeSame
  <2>2. Replays(h) = Replays(g)
    BY <2>1 DEF Replays
  <2> QED BY <1>2, <2>1, <2>2, MovesAlike DEF Request
<1>4. 1 \in 1 .. ATTEMPTS
  BY PageAssumption
<1>5. ~h.stalled
  BY DEF Board
<1> HIDE DEF h
<1> QED BY <1>1, <1>2, <1>3, <1>4, <1>5, DrawMoves

\* A game that begins has no moves.
LEMMA BeginMoves ==
  ASSUME PInv, Begin(Resting), opponentId' \in Opponents
  PROVE  MInv'
<1>1. PICK side \in Sides :
        LET g == NewBoard(page.id + 1, side)
        IN /\ asking' = IF NetworkToMove(g) THEN Request(g, opponentId', 1) ELSE Resting
           /\ page' = g /\ stored' = Saved(g)
  BY DEF Begin
<1>2. page.id + 1 \in Nat
  BY DEF PInv, PageTyped, Board
<1>3. page' \in Board /\ ~Over(page') /\ page'.moves = <<>> /\ page'.ply = 0 /\ stored'[1] = page' /\ ~page'.stalled
  BY <1>1, <1>2, NewBoardTyped, SavedTyped
<1>4. asking' = IF NetworkToMove(page') THEN Request(page', opponentId', 1) ELSE Resting
  BY <1>1
<1>5. 1 \in 1 .. ATTEMPTS
  BY PageAssumption
<1>6. Replays(page') /\ MovesFollow(page', opponentId')
  BY <1>3 DEF Replays, MovesFollow
<1>7. Resting.stage = "resting"
  BY DEF Resting
<1> QED BY <1>3, <1>4, <1>5, <1>6, <1>7, RequestTyped DEF MInv, Alike

\* The answer is played where it was asked: the rules cannot refuse it.
LEMMA AnswerArrivesMInv == ASSUME PInv, MInv, AnswerArrives PROVE MInv'
<1> DEFINE move == [by |-> asking.of, at |-> asking.at]
<1>1. /\ asking.stage = "out" /\ opponentId' = opponentId /\ page \in Board /\ opponentId \in Opponents
      /\ Replays(page) /\ move \in PageMove
  BY AskingTyped DEF AnswerArrives, PInv, PageTyped, MInv, MovesFollow, PageMove
<1>2. PICK g \in Accepted(page, move) \union Rejected(page, move) :
        IF Replays(g) THEN asking' = Resting /\ Draw(g) ELSE Retry(g)
  BY DEF AnswerArrives
<1>3. move.at = Place(page) /\ NetworkToMove(page) /\ move.by = opponentId
  BY <1>1 DEF MInv, Resting
<1>4. g \in Accepted(page, move)
  BY <1>1, <1>2, <1>3, RejectedTyped
<1>5. move = [by |-> Chooser(page, ToMove(page), opponentId), at |-> Place(page)]
  BY <1>3 DEF Chooser, NetworkToMove
<1> HIDE DEF move
<1>6. g \in Board /\ MovesFollow(g, opponentId)
  BY <1>1, <1>4, <1>5, AcceptedTyped, MovesGrow DEF MInv
<1>7. ~g.stalled
  BY <1>1, <1>4, AcceptedTyped DEF MInv, Resting
<1> QED BY <1>1, <1>2, <1>6, <1>7, DrawMoves DEF MovesFollow

\* A request that fails, retried or given up.
LEMMA RequestFailsMInv == ASSUME PInv, MInv, RequestFails PROVE MInv'
<1>1. /\ asking.stage = "out" /\ Retry(page) /\ opponentId' = opponentId
      /\ page \in Board /\ opponentId \in Opponents
  BY DEF RequestFails, PInv, PageTyped
<1>0. NetworkToMove(page) /\ ~page.stalled
  BY <1>1 DEF MInv, Resting
<1>2. CASE asking.attempt = ATTEMPTS
  <2> DEFINE h == [page EXCEPT !.stalled = TRUE]
  <2>1. asking' = Resting /\ Draw(h)
    BY <1>1, <1>2 DEF Retry, GiveUp
  <2>2. h \in Board /\ Alike(h, page)
    BY <1>1, FlagTyped
  <2>3. MovesFollow(h, opponentId) /\ NetworkToMove(h)
    BY <1>0, <1>1, <2>2, MovesAlike, AlikeSame DEF MInv
  <2> HIDE DEF h
  <2> QED BY <1>1, <2>1, <2>2, <2>3, DrawMoves
<1>3. CASE asking.attempt # ATTEMPTS
  <2>1. asking'.stage = "backoff" /\ page' = page /\ UNCHANGED <<sent, stored>>
    BY <1>1, <1>3 DEF Retry
  <2> QED BY <1>0, <1>1, <2>1 DEF MInv
<1> QED BY <1>2, <1>3

\* A pause that ends in another request.
LEMMA BackoffEndsMInv == ASSUME PInv, MInv, BackoffEnds PROVE MInv'
<1>1. /\ asking' = Request(page, opponentId, asking.attempt + 1) /\ asking.stage = "backoff"
      /\ UNCHANGED <<opponentId, page, stored>>
  BY DEF BackoffEnds
<1>2. asking.attempt + 1 \in 1 .. ATTEMPTS /\ page \in Board /\ opponentId \in Opponents
  BY <1>1, AskingTyped, PageAssumption DEF PInv, PageTyped
<1>3. asking'.at = Place(page) /\ asking'.of = opponentId /\ asking'.replays = Replays(page)
  BY <1>1, <1>2, RequestTyped
<1>4. asking # Resting
  BY <1>1 DEF Resting
<1> QED BY <1>1, <1>3, <1>4 DEF MInv, MovesFollow

\* A stalled game that is asked about again.
LEMMA ResumeMInv == ASSUME PInv, MInv, Resume PROVE MInv'
BY AskMoves DEF Resume, PInv, PageTyped, MInv

\* The player's move.
LEMMA PlayMInv == ASSUME PInv, MInv, Play PROVE MInv'
<1> DEFINE board == [page EXCEPT !.armed = FALSE]
           move == [by |-> "player", at |-> Place(page)]
<1>1. /\ asking = Resting /\ ~Over(page) /\ page \in Board
      /\ opponentId' = opponentId /\ opponentId \in Opponents /\ ToMove(page) = page.human
  BY DEF Play, PInv, PageTyped
<1>2. PICK g \in Accepted(board, move) : IF Over(g) THEN Draw(g) /\ UNCHANGED asking ELSE AskNetwork(g)
  BY DEF Play
<1>3. board \in Board /\ Alike(board, page)
  BY <1>1, FlagTyped
<1>4. move \in PageMove
  BY <1>1 DEF PageMove, Place, Board
<1>5. ~page.stalled /\ board.stalled = page.stalled
  BY <1>1 DEF MInv, NetworkToMove, Board
<1> HIDE DEF board
<1>6. MovesFollow(board, opponentId) /\ Place(board) = Place(page) /\ ToMove(board) = board.human
  BY <1>1, <1>3, MovesAlike, AlikeSame DEF MInv, Alike
<1>7. move = [by |-> Chooser(board, ToMove(board), opponentId), at |-> Place(board)]
  BY <1>6 DEF Chooser
<1> HIDE DEF move
<1>8. g \in Board /\ MovesFollow(g, opponentId) /\ ~g.stalled
  BY <1>1, <1>2, <1>3, <1>4, <1>5, <1>6, <1>7, AcceptedTyped, MovesGrow
<1>9. CASE Over(g)
  BY <1>1, <1>2, <1>8, <1>9, DrawMoves
<1>10. CASE ~Over(g)
  <2>1. NetworkToMove(g)
    <3>1. g.ply = board.ply + 1 /\ g.human = board.human /\ board.ply \in Nat /\ board.human \in Sides
      BY <1>2, <1>3, <1>4, AcceptedTyped DEF Board
    <3>2. ToMove(g) # ToMove(board)
      BY <3>1, Parity DEF ToMove
    <3> QED BY <1>6, <1>10, <3>1, <3>2 DEF NetworkToMove
  <2> QED BY <1>1, <1>2, <1>8, <1>10, <2>1, AskMoves
<1> QED BY <1>9, <1>10

\* A game given up.
LEMMA ForfeitMInv == ASSUME PInv, MInv, Forfeit PROVE MInv'
<1>1. /\ ~Over(page) /\ asking = Resting /\ asking' = asking /\ page \in Board
      /\ opponentId' = opponentId /\ opponentId \in Opponents
  BY DEF Forfeit, PInv, PageTyped
<1>2. CASE page.armed
  <2> DEFINE g == [page EXCEPT !.forfeited = TRUE]
  <2>1. g \in Board /\ Over(g) /\ g.moves = page.moves /\ g.ply = page.ply /\ g.id = page.id /\ g.human = page.human
    BY <1>1 DEF Board, Over
  <2>2. Draw(g)
    BY <1>2 DEF Forfeit
  <2> HIDE DEF g
  <2>3. MovesFollow(g, opponentId)
    BY <2>1 DEF MInv, MovesFollow, Replays, Chooser
  <2> QED BY <1>1, <2>1, <2>2, <2>3, DrawMoves
<1>3. CASE ~page.armed
  <2> DEFINE g == [page EXCEPT !.armed = TRUE]
  <2>1. g \in Board /\ Alike(g, page) /\ g.stalled = page.stalled
    BY <1>1, FlagTyped DEF Board
  <2>2. Draw(g)
    BY <1>3 DEF Forfeit
  <2> HIDE DEF g
  <2>3. MovesFollow(g, opponentId) /\ (g.stalled => NetworkToMove(g))
    BY <1>1, <2>1, MovesAlike, AlikeSame DEF MInv
  <2> QED BY <1>1, <2>1, <2>2, <2>3, DrawMoves
<1> QED BY <1>2, <1>3

\* A page that is loaded again, from its stored game or without one.
LEMMA ReloadMInv == ASSUME PInv, MInv, Reload PROVE MInv'
<1>1. /\ opponentId' = opponentId /\ opponentId \in Opponents
      /\ stored \in {<<>>} \union {<<g>> : g \in Board} /\ page \in Board
  BY DEF Reload, PInv, PageTyped
<1>2. CASE \E i \in DOMAIN stored : Replays(stored[i])
  <2> DEFINE s == stored[1]
             g == [s EXCEPT !.armed = FALSE, !.recorded = FALSE, !.stalled = FALSE]
  <2>1. /\ asking' = IF NetworkToMove(g) THEN Request(g, opponentId, 1) ELSE Resting
        /\ page' = g /\ UNCHANGED <<stored, bound>>
    BY <1>2 DEF Reload
  <2>2. stored # <<>> /\ s \in Board
    BY <1>1, <1>2
  <2>3. ~Over(page) /\ Alike(s, page) /\ MovesFollow(page, opponentId)
    BY <2>2 DEF PInv, OverRests, MInv
  <2>4. stored'[1] = s
    BY <2>1
  <2> HIDE DEF s
  <2>5. g \in Board /\ Alike(g, s) /\ Alike(s, g) /\ ~g.stalled
    BY <2>2 DEF Board, Alike
  <2> HIDE DEF g
  <2>6. MovesFollow(g, opponentId)
    BY <1>1, <2>2, <2>3, <2>5, MovesAlike
  <2>7. 1 \in 1 .. ATTEMPTS
    BY PageAssumption
  <2>8. asking' # Resting => NetworkToMove(g)
    BY <2>1
  <2>9. asking'.stage = "out" => asking'.at = Place(g) /\ asking'.of = opponentId /\ asking'.replays
    BY <1>1, <2>1, <2>5, <2>6, <2>7, RequestTyped DEF Resting, MovesFollow
  <2> QED BY <1>1, <2>1, <2>4, <2>5, <2>6, <2>8, <2>9 DEF MInv
<1>3. CASE ~\E i \in DOMAIN stored : Replays(stored[i])
  BY <1>1, <1>3, BeginMoves DEF Reload
<1> QED BY <1>2, <1>3

\* The answer to a report changes a flag, which no move depends on.
LEMMA ReportAnsweredMInv == ASSUME PInv, MInv, NEW row \in sent, ReportAnswered(row) PROVE MInv'
<1>1. /\ UNCHANGED <<opponentId, asking, stored>> /\ page \in Board
      /\ page' \in {page, [page EXCEPT !.recorded = FALSE]}
  BY DEF ReportAnswered, PInv, PageTyped
<1>2. page' \in Board /\ Alike(page', page) /\ page'.stalled = page.stalled
  BY <1>1 DEF Board, Alike
<1>3. /\ Over(page') <=> Over(page)
      /\ NetworkToMove(page') <=> NetworkToMove(page)
      /\ Place(page') = Place(page)
  BY <1>1, <1>2, AlikeSame
<1>4. MovesFollow(page', opponentId)
  BY <1>1, <1>2, MovesAlike DEF MInv
<1>5. ~Over(page') => Alike(stored[1], page')
  BY <1>2, <1>3 DEF MInv, Alike
<1> QED BY <1>1, <1>2, <1>3, <1>4, <1>5 DEF MInv

\* Every step of the page but a switch while a request is out.
LEMMA StepMInv == ~SwitchWhileBusy /\ PInv /\ MInv /\ [PageNext]_pageVars => MInv'
<1> SUFFICES ASSUME ~SwitchWhileBusy, PInv, MInv, [PageNext]_pageVars PROVE MInv'
  OBVIOUS
<1>1. ASSUME NEW o \in Opponents, Switch(o) PROVE MInv'
  BY <1>1, BeginMoves DEF Switch, NewGame
<1>2. CASE AnotherGame
  BY <1>2, BeginMoves DEF AnotherGame, NewGame, PInv, PageTyped, OverRests
<1>3. CASE MeArrives \/ Recover \/ UNCHANGED pageVars
  BY <1>3 DEF MeArrives, Recover, pageVars, MInv
<1> QED BY <1>1, <1>2, <1>3, AnswerArrivesMInv, RequestFailsMInv, BackoffEndsMInv, ResumeMInv, PlayMInv,
           ForfeitMInv, ReloadMInv, ReportAnsweredMInv DEF PageNext, RequestSettles

\* Unless another opponent is chosen while a request is out, a game is one match: every
\* move is the player's or that of the opponent the game began with, chosen for the
\* position it was played in, and its result is recorded once and truly.
THEOREM GamesAreMatches ==
  ASSUME ~SwitchWhileBusy
  PROVE  PageSpec => []GameIsOneMatch
<1>1. PInv /\ MInv => GameIsOneMatch
  <2>1. PInv => ResultsAreTrue
    BY DEF PInv, ReportedTrue, ReportedOnce, PageRows, ResultsAreTrue
  <2>2. PInv /\ MInv => MovesAreTheSides
    BY DEF PInv, MInv, Bound, MovesFollow, Chooser, MovesAreTheSides
  <2> QED BY <2>1, <2>2 DEF GameIsOneMatch
<1>2. PageInit => PInv /\ MInv
  BY InitPInv, InitMInv
<1>3. PInv /\ MInv /\ [PageNext]_pageVars => (PInv /\ MInv)'
  BY StepPInv, StepMInv
<1> QED BY <1>1, <1>2, <1>3, PTL DEF PageSpec
================================================================================
