--------------------------- MODULE TreeSearch_proofs ---------------------------
(***************************************************************************)
(* Proofs about self-play, for any evaluator and engine that say something *)
(* of every position, any set of codes and any settings of either driver.  *)
(*                                                                         *)
(* The books: a node's visits and value sum are those of the nodes below   *)
(* it, each having sent what it was reached with, except along the line of *)
(* a simulation that is being backed up, whose nodes above it are owed the *)
(* value it carries (NodeAccount); an edge has its child's numbers, but    *)
(* for the child that the back-up stands at (EdgeAccount).                 *)
(*                                                                         *)
(* The budget: the visits an action has had, has under way and has before  *)
(* it in the round are the same for every survivor, unless a round was cut *)
(* short by the budget, after which there is none (SharesOk).              *)
(*                                                                         *)
(* The records: one per action played, settled when the game is over       *)
(* (RecordsOk); the target is what a budget in order comes to (TargetFits).*)
(*                                                                         *)
(* Sums over finite sets and the integer square root are defined by        *)
(* recursion.  That each has the values its recursion says is proved here  *)
(* by a smallest counterexample.                                           *)
(***************************************************************************)
EXTENDS TreeSearch, FiniteSetTheorems, WellFoundedInduction, TLAPS

\* Every line of play leads to a position of some kind.
KindsCover == \A l \in Seq(Codes) : KindOf(l) \in Kinds

Searching == phase \in {"visit", "descend", "backup"}

NodeFields == {"terminal", "expanded", "edges", "visits", "valueSum", "value", "visitedPrior"}

EdgeOk(e) == DOMAIN e = {"prior", "visits", "valueSum"} /\ e.prior \in Nat /\ e.visits \in Nat /\ e.valueSum \in Int

\* A node is what the engine says of its line, and has the edges of its legal actions
\* once it has been expanded.
NodeIs(n, legal, ongoing) ==
  /\ DOMAIN n = NodeFields
  /\ n.terminal = ~ongoing /\ n.expanded \in BOOLEAN
  /\ n.expanded => ~n.terminal
  /\ DOMAIN n.edges = IF n.expanded THEN legal ELSE {}
  /\ \A c \in DOMAIN n.edges : EdgeOk(n.edges[c])
  /\ n.visits \in Nat /\ n.valueSum \in Int /\ n.value \in Int /\ n.visitedPrior \in Nat

NodeOk(n, l) == NodeIs(n, LegalAfter(l), Ongoing(game \o l))

\* The tree is closed under taking moves back, and every node but the root hangs on an edge.
TreeOk ==
  /\ DOMAIN tree \in SUBSET Seq(Codes) /\ IsFiniteSet(DOMAIN tree)
  /\ <<>> \in DOMAIN tree /\ tree[<<>>].expanded
  /\ \A l \in DOMAIN tree : NodeOk(tree[l], l)
  /\ \A l \in DOMAIN tree \ {<<>>} : Front(l) \in DOMAIN tree /\ Last(l) \in DOMAIN tree[Front(l)].edges

LineOk ==
  /\ carried \in Int
  /\ phase = "visit" => line = <<>>
  /\ phase \in {"descend", "backup"} => line \in DOMAIN tree \ {<<>>}

GameOk ==
  /\ KindsCover
  /\ world \in Worlds /\ setting \in Settings
  /\ phase \in {"search", "visit", "descend", "backup", "over", "thrown"}
  /\ game \in Seq(Codes)
  /\ phase \notin {"over", "thrown"} => Ongoing(game)

SearchOk == Searching => TreeOk /\ LineOk

-----------------------------------------------------------------------------
(* The books of a tree search.                                            *)

\* What a node has sent to those above it: an expanded one the value it was evaluated at,
\* a terminal one the verdict as often as it was reached, one still to be reached nothing.
Sent(n, m) == IF n.terminal THEN n.visits ELSE IF n.expanded /\ m # <<>> THEN 1 ELSE 0
Given(n, m, won) == IF n.terminal THEN IF won THEN -Unit * n.visits ELSE 0
                    ELSE IF n.expanded /\ m # <<>> THEN n.value ELSE 0
Signed(n, v) == IF n % 2 = 0 THEN v ELSE 0 - v

Won == [m \in Seq(Codes) |-> world.result[At(m)] = "win"]
BelowIn(t, l) == {m \in DOMAIN t : IsPrefix(l, m)}
AllSent(t) == [m \in DOMAIN t |-> Sent(t[m], m)]
AllGiven(t, w, l) == [m \in DOMAIN t |-> Signed(Len(m) - Len(l), Given(t[m], m, w[m]))]
Balanced(t, w, l, late, owed) ==
  /\ t[l].visits + late = SumFunctionOnSet(AllSent(t), BelowIn(t, l))
  /\ t[l].valueSum + owed = SumFunctionOnSet(AllGiven(t, w, l), BelowIn(t, l))

Pending(l) == phase = "backup" /\ IsPrefix(l, line) /\ l # line
Late(l) == IF Pending(l) THEN 1 ELSE 0
Owed(l) == IF Pending(l) THEN Signed(Len(line) - Len(l), carried) ELSE 0
NodeAccount(l) == Balanced(tree, Won, l, Late(l), Owed(l))

Children(l) == {c \in DOMAIN tree[l].edges : Append(l, c) \in DOMAIN tree}
PriorsOf(n) == [c \in DOMAIN n.edges |-> n.edges[c].prior]
PriorAccount(l) ==
  tree[l].visitedPrior = SumFunctionOnSet(PriorsOf(tree[l]), Children(l))

Lag(l) == phase = "backup" /\ l = line
EdgeAccount(l) ==
  \A c \in DOMAIN tree[l].edges :
    LET edge == tree[l].edges[c]
        child == Append(l, c)
    IN IF child \in DOMAIN tree
       THEN /\ edge.visits + (IF Lag(child) THEN 1 ELSE 0) = tree[child].visits
            /\ edge.valueSum - (IF Lag(child) THEN carried ELSE 0) = -tree[child].valueSum
       ELSE edge.visits = 0 /\ edge.valueSum = 0

\* All but the node where a descent stands have been reached.
NoneFresh ==
  \A l \in DOMAIN tree \ {<<>>} :
    IF tree[l].visits = 0 THEN phase = "descend" /\ l = line /\ ~tree[l].expanded
    ELSE tree[l].terminal \/ tree[l].expanded

Books == NoneFresh /\ \A l \in DOMAIN tree : NodeAccount(l) /\ PriorAccount(l) /\ EdgeAccount(l)

Accounts == Searching /\ setting.driver = "puct" => Books

-----------------------------------------------------------------------------
(* The budget of a search.                                                 *)

Times(p, c) == Cardinality({i \in DOMAIN p : p[i] = c})
InFlight(c) == phase \in {"descend", "backup"} /\ line[1] = c
\* The visits an action has had, has under way and has before it in this round.
Due(c) == RootEdge(c).visits + (IF InFlight(c) THEN 1 ELSE 0) + Times(plan, c)
Committed == used + (IF phase = "visit" THEN 0 ELSE 1) + Len(plan)

PlanOk ==
  /\ survivors \in SUBSET considered /\ considered \in SUBSET LegalAfter(<<>>) /\ survivors # {}
  /\ Cardinality(considered) <= setting.maxConsidered
  /\ \A c \in LegalAfter(<<>>) : score[c] \in Int
  /\ plan \in Seq(survivors)
  /\ phase # "visit" => line[1] \in survivors /\ setting.driver = "puct"
  /\ used \in Nat /\ evaluations \in Nat
  /\ evaluations <= used + (IF phase = "backup" THEN 1 ELSE 0)

\* A round gives every survivor as many visits, up to the one that the budget cuts short.
SharesOk ==
  /\ Committed <= setting.simulations
  /\ \A c, s \in survivors : Due(c) = Due(s) \/ Committed = setting.simulations
  /\ \A c \in considered, s \in survivors : Due(c) <= Due(s) + 1
  /\ Cardinality(survivors) = 1 /\ setting.driver = "puct" => Committed = setting.simulations
  /\ setting.simulations >= Cardinality(considered) /\ (Cardinality(considered) > 1 \/ setting.driver = "puct")
       => \A c \in considered : Due(c) > 0

BudgetOk == Searching => PlanOk /\ SharesOk /\ used = SumFunctionOnSet(VisitCounts, considered)

-----------------------------------------------------------------------------
(* The records of a game.                                                  *)

RecordSet == [turn : {"A", "B"}, actionCode : Codes, z : {-1, 0, 1}, target : [Codes -> Int],
              legal : SUBSET Codes]

RecordOk(i) ==
  LET r == records[i]
  IN /\ r.actionCode = game[i] /\ r.turn = Player(i - 1) 
     /\ \A c \in Codes : r.target[c] # 0 => c \in r.legal
     /\ SumFunction(r.target) \in Unit - Cardinality(Codes) .. Unit
     /\ setting.simulations >= setting.maxConsidered => r.target[r.actionCode] > 0
RecordsOk ==
  /\ records \in Seq(RecordSet) /\ Len(records) = Len(game)
  /\ phase \notin {"over", "thrown"} => Len(game) < setting.plyCap
  /\ phase = "over" /\ Ongoing(game) => Len(game) = setting.plyCap
  /\ \A i \in 1 .. Len(records) : RecordOk(i)
  /\ phase = "over" => \A i \in 1 .. Len(records) : records[i].z = ResultFor(records[i].turn, Winner(game))

SelfPlayInvariant == GameOk /\ SearchOk /\ Accounts /\ BudgetOk /\ RecordsOk

\* A nonempty set of numbers has a least one.
LEMMA LeastNumber ==
  ASSUME NEW D \in SUBSET Nat, D # {}
  PROVE  \E d \in D : \A e \in D : d <= e
<1> DEFINE R == OpToRel(<, Nat)
<1>1. PICK d \in D : \A e \in D : ~(<<e, d>> \in R)
  <2> HIDE DEF R
  <2>1. IsWellFoundedOn(R, Nat)
    BY NatLessThanWellFounded DEF R
  <2>2. QED
    BY <2>1, WFMin
<1>2. \A e \in D : ~(e < d)
  BY <1>1 DEF OpToRel
<1>3. QED
  BY <1>2

\* Among subsets of a finite set there is one of which no proper subset is among them.
LEMMA SmallestSet ==
  ASSUME NEW S, IsFiniteSet(S), NEW B \in SUBSET (SUBSET S), B # {}
  PROVE  \E T \in B : IsFiniteSet(T) /\ \A x \in T : \A U \in SUBSET (T \ {x}) : U \notin B
<1> DEFINE D == {Cardinality(T) : T \in B}
<1>1. \A T \in SUBSET S : IsFiniteSet(T) /\ Cardinality(T) \in Nat
  BY FS_Subset, FS_CardinalityType
<1>2. D \in SUBSET Nat /\ D # {}
  BY <1>1
<1>3. PICK d \in D : \A e \in D : d <= e
  <2> HIDE DEF D
  <2> QED BY <1>2, LeastNumber
<1>4. PICK T \in B : Cardinality(T) = d
  OBVIOUS
<1>5. ASSUME NEW x \in T, NEW U \in SUBSET (T \ {x}), U \in B
      PROVE  FALSE
  <2>1. U \in SUBSET T /\ U # T
    OBVIOUS
  <2>2. Cardinality(U) < Cardinality(T)
    BY <1>1, <2>1, FS_Subset
  <2>3. d <= Cardinality(U)
    BY <1>3, <1>5
  <2>4. Cardinality(U) \in Nat /\ Cardinality(T) \in Nat
    BY <1>1, <1>5
  <2> QED BY <1>4, <2>2, <2>3, <2>4
<1> QED BY <1>1, <1>5

-----------------------------------------------------------------------------
(* Sums over finite sets.                                                  *)

Picked(s) == CHOOSE x \in s : TRUE

\* The recursion that a sum is defined by.
IsSum(f, g, S) == f = [s \in SUBSET S |-> IF s = {} THEN 0 ELSE g[Picked(s)] + f[s \ {Picked(s)}]]

\* It determines the sum.
LEMMA SumUnique ==
  ASSUME NEW S, IsFiniteSet(S), NEW T \in SUBSET S, NEW g, NEW f, NEW h,
         IsSum(f, g, S), IsSum(h, g, T)
  PROVE  f[T] = h[T]
<1> DEFINE B == {s \in SUBSET T : f[s] # h[s]}
<1> SUFFICES ASSUME B # {} PROVE FALSE
  OBVIOUS
<1>1. B \in SUBSET (SUBSET T) /\ IsFiniteSet(T)
  BY FS_Subset
<1>2. PICK s \in B : \A x \in s : \A U \in SUBSET (s \ {x}) : U \notin B
  <2> HIDE DEF B
  <2> QED BY <1>1, SmallestSet
<1>3. \A u \in SUBSET T : /\ f[u] = IF u = {} THEN 0 ELSE g[Picked(u)] + f[u \ {Picked(u)}]
                          /\ h[u] = IF u = {} THEN 0 ELSE g[Picked(u)] + h[u \ {Picked(u)}]
  <2> TAKE u \in SUBSET T
  <2>1. u \in SUBSET S
    OBVIOUS
  <2>2. f[u] = IF u = {} THEN 0 ELSE g[Picked(u)] + f[u \ {Picked(u)}]
    BY <2>1 DEF IsSum
  <2>3. h[u] = IF u = {} THEN 0 ELSE g[Picked(u)] + h[u \ {Picked(u)}]
    BY DEF IsSum
  <2> QED BY <2>2, <2>3
<1>4. s # {}
  BY <1>3
<1>5. Picked(s) \in s
  BY <1>4 DEF Picked
<1>6. f[s \ {Picked(s)}] = h[s \ {Picked(s)}]
  BY <1>2, <1>5
<1> QED BY <1>3, <1>4, <1>6

\* It has a solution.
LEMMA SumDefined ==
  ASSUME NEW S, IsFiniteSet(S), NEW g
  PROVE  \E f : IsSum(f, g, S)
<1> DEFINE B == {T \in SUBSET S : ~\E f : IsSum(f, g, T)}
           F(s) == (CHOOSE f : IsSum(f, g, s))[s]
<1> SUFFICES ASSUME B # {} PROVE FALSE
  OBVIOUS
<1>1. B \in SUBSET (SUBSET S)
  OBVIOUS
<1>2. PICK T \in B : \A x \in T : \A U \in SUBSET (T \ {x}) : U \notin B
  <2> HIDE DEF B
  <2> QED BY <1>1, SmallestSet
<1>3. \A s \in SUBSET T : IsFiniteSet(s)
  BY FS_Subset
<1>4. ASSUME NEW u \in SUBSET T, u # T
      PROVE  F(u) = IF u = {} THEN 0 ELSE g[Picked(u)] + F(u \ {Picked(u)})
  <2>1. \A s \in SUBSET u : \E f : IsSum(f, g, s)
    <3> SUFFICES ASSUME NEW s \in SUBSET u PROVE s \notin B
      OBVIOUS
    <3>1. PICK x \in T : x \notin s
      BY <1>4
    <3> QED BY <1>2, <3>1
  <2> DEFINE h(s) == CHOOSE f : IsSum(f, g, s)
  <2>2. \A s \in SUBSET u : IsSum(h(s), g, s)
    BY <2>1
  <2>3. F(u) = h(u)[u] /\ F(u \ {Picked(u)}) = h(u \ {Picked(u)})[u \ {Picked(u)}]
    OBVIOUS
  <2> HIDE DEF h, F, B
  <2>4. h(u)[u \ {Picked(u)}] = h(u \ {Picked(u)})[u \ {Picked(u)}]
    <3>1. u \ {Picked(u)} \in SUBSET u /\ IsFiniteSet(u)
      BY <1>3
    <3> QED BY <2>2, <3>1, SumUnique
  <2>5. h(u)[u] = IF u = {} THEN 0 ELSE g[Picked(u)] + h(u)[u \ {Picked(u)}]
    BY <2>2 DEF IsSum
  <2> QED BY <2>3, <2>4, <2>5
<1> DEFINE f == [s \in SUBSET T |-> IF s = {} THEN 0 ELSE g[Picked(s)] + F(s \ {Picked(s)})]
<1>5. ASSUME NEW s \in SUBSET T, s # {}
      PROVE  f[s \ {Picked(s)}] = F(s \ {Picked(s)})
  <2>1. Picked(s) \in s
    BY <1>5 DEF Picked
  <2>2. s \ {Picked(s)} \in SUBSET T /\ s \ {Picked(s)} # T
    BY <2>1
  <2> QED BY <1>4, <2>2
<1>6. \A s \in SUBSET T : f[s] = IF s = {} THEN 0 ELSE g[Picked(s)] + F(s \ {Picked(s)})
  OBVIOUS
<1>8. f = [s \in SUBSET T |-> f[s]]
  OBVIOUS
<1>7. IsSum(f, g, T)
  <2> HIDE DEF f, F, B
  <2>1. \A s \in SUBSET T : f[s] = IF s = {} THEN 0 ELSE g[Picked(s)] + f[s \ {Picked(s)}]
    BY <1>5, <1>6
  <2> QED BY <2>1, <1>8 DEF IsSum
<1> QED BY <1>7

\* What SumFunctionOnSet computes solves it.
LEMMA SumIs ==
  ASSUME NEW S, IsFiniteSet(S), NEW g
  PROVE  \E f : IsSum(f, g, S) /\ SumFunctionOnSet(g, S) = f[S]
<1> DEFINE f == CHOOSE h : IsSum(h, g, S)
<1>1. IsSum(f, g, S)
  BY SumDefined
<1>2. SumFunctionOnSet(g, S) = f[S]
  BY DEF SumFunctionOnSet, FoldFunctionOnSet, MapThenFoldSet, IsSum, Picked
<1> QED BY <1>1, <1>2

\* The sum over the empty set, and over a set that is not, of any function.
LEMMA SumSteps ==
  ASSUME NEW S, IsFiniteSet(S), NEW g
  PROVE  /\ SumFunctionOnSet(g, {}) = 0
         /\ S # {} => SumFunctionOnSet(g, S) = g[Picked(S)] + SumFunctionOnSet(g, S \ {Picked(S)})
<1>1. ASSUME NEW T \in SUBSET S, NEW f, IsSum(f, g, S)
      PROVE  SumFunctionOnSet(g, T) = f[T]
  <2>1. IsFiniteSet(T)
    BY FS_Subset
  <2>2. PICK h : IsSum(h, g, T) /\ SumFunctionOnSet(g, T) = h[T]
    BY <2>1, SumIs
  <2> QED BY <1>1, <2>2, SumUnique
<1>2. PICK f : IsSum(f, g, S)
  BY SumIs
<1>3. \A T \in SUBSET S : SumFunctionOnSet(g, T) = f[T]
  BY <1>1, <1>2
<1>4. f[{}] = 0 /\ (S # {} => f[S] = g[Picked(S)] + f[S \ {Picked(S)}])
  BY <1>2 DEF IsSum
<1>5. {} \in SUBSET S /\ S \in SUBSET S /\ S \ {Picked(S)} \in SUBSET S
  OBVIOUS
<1> QED BY <1>3, <1>4, <1>5

\* The sum of integers is one, and its terms may be taken in any order.
LEMMA SumInt ==
  ASSUME NEW S, IsFiniteSet(S), NEW g, \A x \in S : g[x] \in Int
  PROVE  SumFunctionOnSet(g, S) \in Int
<1> DEFINE B == {T \in SUBSET S : SumFunctionOnSet(g, T) \notin Int}
<1> SUFFICES ASSUME B # {} PROVE FALSE
  OBVIOUS
<1>1. PICK T \in B : IsFiniteSet(T) /\ \A x \in T : \A U \in SUBSET (T \ {x}) : U \notin B
  <2>1. B \in SUBSET (SUBSET S)
    OBVIOUS
  <2> HIDE DEF B
  <2> QED BY <2>1, SmallestSet
<1>5. SumFunctionOnSet(g, T) \notin Int /\ \A x \in T : g[x] \in Int
  OBVIOUS
<1>6. /\ SumFunctionOnSet(g, {}) = 0
      /\ T # {} => SumFunctionOnSet(g, T) = g[Picked(T)] + SumFunctionOnSet(g, T \ {Picked(T)})
  BY <1>1, SumSteps
<1>2. T # {}
  <2>1. T = {} => SumFunctionOnSet(g, T) = SumFunctionOnSet(g, {})
    BY Zenon
  <2> HIDE DEF B
  <2> QED BY <1>5, <1>6, <2>1
<1>3. Picked(T) \in T
  BY <1>2 DEF Picked
<1>4. SumFunctionOnSet(g, T \ {Picked(T)}) \in Int /\ g[Picked(T)] \in Int
  <2>1. T \ {Picked(T)} \in SUBSET (T \ {Picked(T)}) /\ T \ {Picked(T)} \in SUBSET S
    OBVIOUS
  <2> QED BY <1>1, <1>3, <1>5, <2>1
<1> HIDE DEF B
<1> QED BY <1>2, <1>4, <1>5, <1>6

\* Any term can be taken out of a sum.
LEMMA SumTake ==
  ASSUME NEW S, IsFiniteSet(S), NEW g, \A x \in S : g[x] \in Int, NEW x \in S
  PROVE  SumFunctionOnSet(g, S) = g[x] + SumFunctionOnSet(g, S \ {x})
<1> DEFINE B == {T \in SUBSET S : \E y \in T : SumFunctionOnSet(g, T) # g[y] + SumFunctionOnSet(g, T \ {y})}
<1> SUFFICES ASSUME B # {} PROVE FALSE
  OBVIOUS
<1>1. PICK T \in B : IsFiniteSet(T) /\ \A z \in T : \A U \in SUBSET (T \ {z}) : U \notin B
  <2>1. B \in SUBSET (SUBSET S)
    OBVIOUS
  <2> HIDE DEF B
  <2> QED BY <2>1, SmallestSet
<1>2. PICK y \in T : SumFunctionOnSet(g, T) # g[y] + SumFunctionOnSet(g, T \ {y})
  OBVIOUS
<1> DEFINE a == Picked(T)
<1>3. a \in T
  BY <1>2 DEF Picked
<1>4. SumFunctionOnSet(g, T) = g[a] + SumFunctionOnSet(g, T \ {a})
  BY <1>1, <1>2, SumSteps
<1>5. a # y
  BY <1>2, <1>4
<1> HIDE DEF a
<1>6. y \in T \ {a} /\ a \in T \ {y}
  BY <1>2, <1>3, <1>5
<1>7. SumFunctionOnSet(g, T \ {a}) = g[y] + SumFunctionOnSet(g, (T \ {a}) \ {y})
  BY <1>1, <1>3, <1>6
<1>8. SumFunctionOnSet(g, T \ {y}) = g[a] + SumFunctionOnSet(g, (T \ {y}) \ {a})
  BY <1>1, <1>2, <1>6
<1>9. (T \ {a}) \ {y} = (T \ {y}) \ {a}
  OBVIOUS
<1>10. SumFunctionOnSet(g, (T \ {a}) \ {y}) \in Int
  <2>1. IsFiniteSet((T \ {a}) \ {y})
    BY <1>1, FS_Subset
  <2>2. \A z \in (T \ {a}) \ {y} : g[z] \in Int
    OBVIOUS
  <2> QED BY <2>1, <2>2, SumInt
<1>11. g[a] \in Int /\ g[y] \in Int
  BY <1>3
<1> DEFINE r == SumFunctionOnSet(g, (T \ {a}) \ {y})
<1>12. SumFunctionOnSet(g, T) = g[a] + (g[y] + r)
  BY <1>4, <1>7
<1>13. SumFunctionOnSet(g, T \ {y}) = g[a] + r
  BY <1>8, <1>9
<1>14. r \in Int
  BY <1>10
<1> HIDE DEF B, r
<1> QED BY <1>2, <1>11, <1>12, <1>13, <1>14

\* Only the terms matter.
LEMMA SumSame ==
  ASSUME NEW S, IsFiniteSet(S), NEW g, NEW h, \A x \in S : g[x] = h[x]
  PROVE  SumFunctionOnSet(g, S) = SumFunctionOnSet(h, S)
<1> DEFINE B == {T \in SUBSET S : SumFunctionOnSet(g, T) # SumFunctionOnSet(h, T)}
<1> SUFFICES ASSUME B # {} PROVE FALSE
  OBVIOUS
<1>1. PICK T \in B : IsFiniteSet(T) /\ \A x \in T : \A U \in SUBSET (T \ {x}) : U \notin B
  <2>1. B \in SUBSET (SUBSET S)
    OBVIOUS
  <2> HIDE DEF B
  <2> QED BY <2>1, SmallestSet
<1>2. T # {}
  BY <1>1, SumSteps
<1>3. Picked(T) \in T
  BY <1>2 DEF Picked
<1>4. SumFunctionOnSet(g, T \ {Picked(T)}) = SumFunctionOnSet(h, T \ {Picked(T)}) /\ g[Picked(T)] = h[Picked(T)]
  BY <1>1, <1>3
<1>5. SumFunctionOnSet(g, T) = SumFunctionOnSet(h, T)
  BY <1>1, <1>2, <1>4, SumSteps
<1> QED BY <1>5

\* One term more, and one term changed.
LEMMA SumAdd ==
  ASSUME NEW S, IsFiniteSet(S), NEW x, x \notin S, NEW g, \A y \in S \cup {x} : g[y] \in Int
  PROVE  SumFunctionOnSet(g, S \cup {x}) = SumFunctionOnSet(g, S) + g[x]
<1>1. IsFiniteSet(S \cup {x}) /\ (S \cup {x}) \ {x} = S
  BY FS_AddElement
<1>2. SumFunctionOnSet(g, S) \in Int
  BY SumInt
<1>3. SumFunctionOnSet(g, S \cup {x}) = g[x] + SumFunctionOnSet(g, (S \cup {x}) \ {x})
  <2> DEFINE T == S \cup {x}
  <2>1. x \in T /\ \A y \in T : g[y] \in Int
    OBVIOUS
  <2> HIDE DEF T
  <2>2. IsFiniteSet(T)
    BY <1>1 DEF T
  <2>3. SumFunctionOnSet(g, T) = g[x] + SumFunctionOnSet(g, T \ {x})
    BY <2>1, <2>2, SumTake
  <2> QED BY <2>3 DEF T
<1>4. SumFunctionOnSet(g, S \cup {x}) = g[x] + SumFunctionOnSet(g, S)
  BY <1>1, <1>3
<1>5. g[x] \in Int
  OBVIOUS
<1> QED BY <1>2, <1>4, <1>5

\* A sum changes by as much as the one term that changes.
LEMMA SumChange ==
  ASSUME NEW S, IsFiniteSet(S), NEW x \in S, NEW g, NEW h,
         \A y \in S : g[y] \in Int /\ h[y] \in Int, \A y \in S \ {x} : g[y] = h[y]
  PROVE  SumFunctionOnSet(h, S) = SumFunctionOnSet(g, S) + (h[x] - g[x])
<1>1. IsFiniteSet(S \ {x})
  BY FS_Subset
<1>2. SumFunctionOnSet(g, S \ {x}) = SumFunctionOnSet(h, S \ {x}) /\ SumFunctionOnSet(g, S \ {x}) \in Int
  BY <1>1, SumSame, SumInt
<1>3. SumFunctionOnSet(g, S) = g[x] + SumFunctionOnSet(g, S \ {x})
  BY SumTake
<1>4. SumFunctionOnSet(h, S) = h[x] + SumFunctionOnSet(h, S \ {x})
  BY SumTake
<1> QED BY <1>2, <1>3, <1>4

\* A sum of numbers is one, positive if a term is, and zero if all are.
LEMMA SumNat ==
  ASSUME NEW S, IsFiniteSet(S), NEW g, \A x \in S : g[x] \in Nat
  PROVE  /\ SumFunctionOnSet(g, S) \in Nat
         /\ \A x \in S : g[x] <= SumFunctionOnSet(g, S)
         /\ (\A x \in S : g[x] = 0) => SumFunctionOnSet(g, S) = 0
<1> DEFINE B == {T \in SUBSET S : \/ SumFunctionOnSet(g, T) \notin Nat
                                 \/ /\ \A x \in T : g[x] = 0
                                    /\ SumFunctionOnSet(g, T) # 0}
<1>1. ASSUME B # {} PROVE FALSE
  <2>1. PICK T \in B : IsFiniteSet(T) /\ \A x \in T : \A U \in SUBSET (T \ {x}) : U \notin B
    <3>1. B \in SUBSET (SUBSET S)
      OBVIOUS
    <3> HIDE DEF B
    <3> QED BY <1>1, <3>1, SmallestSet
  <2>6. SumFunctionOnSet(g, T) \notin Nat \/ SumFunctionOnSet(g, T) # 0
    OBVIOUS
  <2>2. T # {}
    <3>1. T = {} => SumFunctionOnSet(g, T) = SumFunctionOnSet(g, {})
      BY Zenon
    <3>2. SumFunctionOnSet(g, {}) = 0
      BY <2>1, SumSteps
    <3> HIDE DEF B
    <3> QED BY <2>6, <3>1, <3>2
  <2>3. Picked(T) \in T
    BY <2>2 DEF Picked
  <2>4. SumFunctionOnSet(g, T) = g[Picked(T)] + SumFunctionOnSet(g, T \ {Picked(T)})
    BY <2>1, <2>2, SumSteps
  <2>5. T \ {Picked(T)} \notin B /\ g[Picked(T)] \in Nat
    BY <2>1, <2>3
  <2> QED BY <2>3, <2>4, <2>5
<1>2. \A T \in SUBSET S : SumFunctionOnSet(g, T) \in Nat /\ ((\A x \in T : g[x] = 0) => SumFunctionOnSet(g, T) = 0)
  BY <1>1
<1>3. ASSUME NEW x \in S
      PROVE  g[x] <= SumFunctionOnSet(g, S)
  <2>1. S \ {x} \in SUBSET S
    OBVIOUS
  <2>2. SumFunctionOnSet(g, S \ {x}) \in Nat
    BY <1>2, <2>1
  <2>3. SumFunctionOnSet(g, S) = g[x] + SumFunctionOnSet(g, S \ {x})
    <3>1. \A y \in S : g[y] \in Int
      OBVIOUS
    <3> QED BY <3>1, SumTake
  <2>4. g[x] \in Nat
    OBVIOUS
  <2> HIDE DEF B
  <2> QED BY <2>2, <2>3, <2>4
<1>4. S \in SUBSET S
  OBVIOUS
<1> HIDE DEF B
<1> QED BY <1>2, <1>3, <1>4

\* Terms that are zero need not be summed.
LEMMA SumZeros ==
  ASSUME NEW S, IsFiniteSet(S), NEW T \in SUBSET S, NEW g, \A x \in S : g[x] \in Int,
         \A x \in S \ T : g[x] = 0
  PROVE  SumFunctionOnSet(g, S) = SumFunctionOnSet(g, T)
<1> DEFINE B == {U \in SUBSET S : T \subseteq U /\ SumFunctionOnSet(g, U) # SumFunctionOnSet(g, T)}
<1> SUFFICES ASSUME B # {} PROVE FALSE
  OBVIOUS
<1>1. PICK U \in B : IsFiniteSet(U) /\ \A x \in U : \A V \in SUBSET (U \ {x}) : V \notin B
  <2>1. B \in SUBSET (SUBSET S)
    OBVIOUS
  <2> HIDE DEF B
  <2> QED BY <2>1, SmallestSet
<1>2. PICK x \in U : x \notin T
  OBVIOUS
<1>3. SumFunctionOnSet(g, U) = g[x] + SumFunctionOnSet(g, U \ {x})
  BY <1>1, <1>2, SumTake
<1>4. SumFunctionOnSet(g, U \ {x}) = SumFunctionOnSet(g, T)
  BY <1>1, <1>2
<1>5. IsFiniteSet(T)
  BY FS_Subset
<1>6. SumFunctionOnSet(g, T) \in Int /\ g[x] = 0
  BY <1>2, <1>5, SumInt
<1> QED BY <1>3, <1>4, <1>6

\* Of finitely many codes one scores best, the lowest among equals.
LEMMA BestExists ==
  ASSUME NEW S \in SUBSET Nat, IsFiniteSet(S), S # {}, NEW w, \A c \in S : w[c] \in Int
  PROVE  \E c \in S : \A d \in S \ {c} : w[c] > w[d] \/ (w[c] = w[d] /\ c < d)
<1> DEFINE Best(T, c) == \A d \in T \ {c} : w[c] > w[d] \/ (w[c] = w[d] /\ c < d)
           B == {T \in SUBSET S : T # {} /\ ~\E c \in T : Best(T, c)}
<1> SUFFICES ASSUME B # {} PROVE FALSE
  OBVIOUS
<1>1. PICK T \in B : \A x \in T : \A U \in SUBSET (T \ {x}) : U \notin B
  <2>1. B \in SUBSET (SUBSET S)
    OBVIOUS
  <2> HIDE DEF B
  <2> QED BY <2>1, SmallestSet
<1>2. PICK x \in T : TRUE
  OBVIOUS
<1>3. T \ {x} # {}
  <2> SUFFICES ASSUME T \ {x} = {} PROVE FALSE
    OBVIOUS
  <2>1. Best(T, x)
    OBVIOUS
  <2> QED BY <1>2, <2>1
<1>4. T \ {x} \notin B
  <2>1. T \ {x} \in SUBSET (T \ {x})
    OBVIOUS
  <2> HIDE DEF B
  <2> QED BY <1>1, <1>2, <2>1
<1>5. PICK c \in T \ {x} : Best(T \ {x}, c)
  BY <1>3, <1>4
<1>6. \A d \in T : d \in Nat /\ w[d] \in Int
  OBVIOUS
<1>7. CASE w[c] > w[x] \/ (w[c] = w[x] /\ c < x)
  <2>1. Best(T, c)
    BY <1>5, <1>7
  <2> QED BY <1>5, <2>1
<1>8. CASE ~(w[c] > w[x] \/ (w[c] = w[x] /\ c < x))
  <2>1. w[x] > w[c] \/ (w[x] = w[c] /\ x < c)
    <3>1. x # c /\ x \in Nat /\ c \in Nat /\ w[x] \in Int /\ w[c] \in Int
      BY <1>2, <1>5, <1>6
    <3> HIDE DEF B, Best
    <3> QED BY <1>8, <3>1
  <2>2. Best(T, x)
    <3> SUFFICES ASSUME NEW d \in T \ {x} PROVE w[x] > w[d] \/ (w[x] = w[d] /\ x < d)
      OBVIOUS
    <3>1. d = c \/ w[c] > w[d] \/ (w[c] = w[d] /\ c < d)
      BY <1>5
    <3>2. d \in Nat /\ x \in Nat /\ c \in Nat /\ w[x] \in Int /\ w[c] \in Int /\ w[d] \in Int
      BY <1>6
    <3> HIDE DEF B, Best
    <3> QED BY <2>1, <3>1, <3>2
  <2> QED BY <1>2, <2>2
<1> QED BY <1>7, <1>8

\* So that the best k of them are some.
LEMMA TopExists ==
  ASSUME NEW S \in SUBSET Nat, IsFiniteSet(S), S # {}, NEW w, \A c \in S : w[c] \in Int,
         NEW k \in Nat \ {0}
  PROVE  \E c \in S : Cardinality({d \in S : w[d] > w[c] \/ (w[d] = w[c] /\ d < c)}) < k
<1>1. PICK c \in S : \A d \in S \ {c} : w[c] > w[d] \/ (w[c] = w[d] /\ c < d)
  BY BestExists
<1>2. ASSUME NEW d \in S
      PROVE  ~(w[d] > w[c] \/ (w[d] = w[c] /\ d < c))
  <2>1. d \in Nat /\ c \in Nat /\ w[c] \in Int /\ w[d] \in Int
    OBVIOUS
  <2> QED BY <1>1, <2>1
<1> DEFINE better == {d \in S : w[d] > w[c] \/ (w[d] = w[c] /\ d < c)}
<1>3. better = {}
  BY <1>2
<1> HIDE DEF better
<1>4. Cardinality(better) < k
  <2>1. Cardinality(better) = 0
    BY <1>3, FS_EmptySet
  <2> QED BY <2>1
<1> QED BY <1>4 DEF better

-----------------------------------------------------------------------------
(* The integer square root.                                                *)

IsRootOf(r, n) == r * r <= n /\ n < (r + 1) * (r + 1)

\* Every number has an integer root.
LEMMA RootOf == \A n \in Nat : \E r \in Nat : IsRootOf(r, n)
<1> DEFINE D == {n \in Nat : ~\E r \in Nat : IsRootOf(r, n)}
<1> SUFFICES ASSUME D # {} PROVE FALSE
  OBVIOUS
<1>1. PICK n \in D : \A m \in D : n <= m
  <2>1. D \in SUBSET Nat
    OBVIOUS
  <2> HIDE DEF D
  <2> QED BY <2>1, LeastNumber
<1>2. IsRootOf(0, 0)
  BY DEF IsRootOf
<1>3. n # 0
  BY <1>2
<1>4. n - 1 \in Nat /\ n - 1 \notin D
  BY <1>1, <1>3
<1>5. PICK r \in Nat : IsRootOf(r, n - 1)
  BY <1>4
<1>6. r * r \in Nat /\ (r + 1) * (r + 1) \in Nat /\ (r + 2) * (r + 2) = (r + 1) * (r + 1) + 2 * r + 3
  BY SMT
<1>7. IsRootOf(r, n) \/ IsRootOf(r + 1, n)
  <2>1. r * r <= n - 1 /\ n - 1 < (r + 1) * (r + 1)
    BY <1>5 DEF IsRootOf
  <2>2. (r + 1) + 1 = r + 2
    OBVIOUS
  <2> QED BY <1>6, <2>1, <2>2 DEF IsRootOf
<1> QED BY <1>7

\* The recursion that computes it, and its solution.
IsSquareRoot(f) ==
  f = [n \in Nat |-> IF n = 0 THEN 0
                     ELSE LET low == 2 * f[n \div 4] IN IF (low + 1) * (low + 1) <= n THEN low + 1 ELSE low]

\* The recursion of SquareRoot has a solution.
LEMMA SquareRootDefined == \E f : IsSquareRoot(f)
<1> DEFINE f == [n \in Nat |-> CHOOSE r \in Nat : IsRootOf(r, n)]
<1>1. \A n \in Nat : f[n] \in Nat /\ IsRootOf(f[n], n)
  BY RootOf
<1>2. f = [n \in Nat |-> f[n]]
  OBVIOUS
<1> HIDE DEF f
<1>3. ASSUME NEW n \in Nat
      PROVE  f[n] = IF n = 0 THEN 0
                    ELSE LET low == 2 * f[n \div 4] IN IF (low + 1) * (low + 1) <= n THEN low + 1 ELSE low
  <2> DEFINE q == n \div 4
             r == f[n]
             h == f[q]
  <2>1. q \in Nat /\ 4 * q <= n /\ n < 4 * q + 4
    BY SMT
  <2>2. /\ r \in Nat /\ r * r <= n /\ n < (r + 1) * (r + 1)
        /\ h \in Nat /\ h * h <= q /\ q < (h + 1) * (h + 1)
    BY <1>1, <2>1 DEF IsRootOf
  <2> HIDE DEF q, r, h
  <2>3. /\ (2 * h) * (2 * h) = 4 * (h * h) /\ (2 * h + 2) * (2 * h + 2) = 4 * ((h + 1) * (h + 1))
    BY <2>2, SMT
  <2>4. (2 * h) * (2 * h) <= n /\ n < (2 * h + 2) * (2 * h + 2)
    <3>1. h * h \in Nat /\ (h + 1) * (h + 1) \in Nat
      BY <2>2, SMT
    <3> QED BY <2>1, <2>2, <2>3, <3>1
  <2>5. \A a, b \in Nat : a * a < (b + 1) * (b + 1) => a <= b
    <3> SUFFICES ASSUME NEW a \in Nat, NEW b \in Nat, a > b
                 PROVE  a * a >= (b + 1) * (b + 1)
      BY SMT
    <3>1. PICK e \in Nat : a = b + 1 + e
      <4>1. a - (b + 1) \in Nat /\ a = b + 1 + (a - (b + 1))
        OBVIOUS
      <4> QED BY <4>1
    <3> QED BY <3>1, SMT
  <2>6. 2 * h <= r
    <3>1. (2 * h) * (2 * h) < (r + 1) * (r + 1) /\ 2 * h \in Nat
      BY <2>2, <2>4, SMT
    <3> QED BY <2>2, <2>5, <3>1
  <2>7. r <= 2 * h + 1
    <3>1. r * r < ((2 * h + 1) + 1) * ((2 * h + 1) + 1) /\ 2 * h + 1 \in Nat
      BY <2>2, <2>4, SMT
    <3> QED BY <2>2, <2>5, <3>1
  <2>8. r = IF (2 * h + 1) * (2 * h + 1) <= n THEN 2 * h + 1 ELSE 2 * h
    <3>1. r = 2 * h \/ r = 2 * h + 1
      BY <2>2, <2>6, <2>7
    <3> QED BY <2>2, <3>1
  <2>9. n = 0 => r = 0
    <3>1. n = 0 => h = 0
      BY <2>1, <2>2, SMT
    <3> QED BY <2>8, <3>1
  <2> QED BY <2>8, <2>9 DEF q, r, h
<1> QED BY <1>2, <1>3 DEF IsSquareRoot

\* SquareRoot yields a number, so that the scores of edges are integers.
LEMMA SquareRootNat == \A n \in Nat : SquareRoot[n] \in Nat
<1>1. IsSquareRoot(SquareRoot)
  <2>1. SquareRoot = CHOOSE f : IsSquareRoot(f)
    BY DEF SquareRoot, IsSquareRoot
  <2> QED BY <2>1, SquareRootDefined
<1> DEFINE D == {n \in Nat : SquareRoot[n] \notin Nat}
<1> SUFFICES ASSUME D # {} PROVE FALSE
  OBVIOUS
<1>2. PICK n \in D : \A m \in D : n <= m
  <2>1. D \in SUBSET Nat
    OBVIOUS
  <2> HIDE DEF D
  <2> QED BY <2>1, LeastNumber
<1>3. SquareRoot[n] = IF n = 0 THEN 0
          ELSE LET low == 2 * SquareRoot[n \div 4] IN IF (low + 1) * (low + 1) <= n THEN low + 1 ELSE low
  BY <1>1 DEF IsSquareRoot
<1>4. n # 0
  BY <1>3
<1>5. n \div 4 \in Nat /\ n \div 4 < n
  BY <1>4, SMT
<1>6. n \div 4 \notin D
  BY <1>2, <1>5
<1> DEFINE low == 2 * SquareRoot[n \div 4]
<1>7. low \in Nat
  BY <1>5, <1>6
<1>8. SquareRoot[n] = low + 1 \/ SquareRoot[n] = low
  BY <1>3, <1>4
<1>9. SquareRoot[n] \notin Nat
  OBVIOUS
<1> HIDE DEF low, D
<1> QED BY <1>7, <1>8, <1>9

\* How many of the codes come before one of them.
Rank(S, c) == Cardinality({d \in S : d < c})

\* A member of a finite set of codes has fewer below it than the set has, and more than
\* any lesser member.
LEMMA RankLess ==
  ASSUME NEW S \in SUBSET Nat, IsFiniteSet(S), NEW c \in S
  PROVE  /\ Rank(S, c) \in 0 .. Cardinality(S) - 1
         /\ \A d \in S : d < c => Rank(S, d) < Rank(S, c)
<1>1. ASSUME NEW d \in S, NEW U \in SUBSET S, d \in U, \A e \in S : e < d => e \in U
      PROVE  Rank(S, d) < Cardinality(U)
  <2> DEFINE lower == {e \in S : e < d}
  <2>1. lower \in SUBSET U
    BY <1>1
  <2>5. d \notin lower
    <3>1. d \in Nat
      OBVIOUS
    <3> QED BY <3>1
  <2>2. IsFiniteSet(U)
    BY FS_Subset
  <2> HIDE DEF lower
  <2>3. Cardinality(lower) <= Cardinality(U) /\ Cardinality(lower) # Cardinality(U)
    BY <1>1, <2>1, <2>2, <2>5, FS_Subset
  <2>4. Cardinality(lower) \in Nat /\ Cardinality(U) \in Nat
    BY <2>1, <2>2, FS_Subset, FS_CardinalityType
  <2> QED BY <2>3, <2>4 DEF lower, Rank
<1>2. Rank(S, c) < Cardinality(S)
  BY <1>1
<1>3. Rank(S, c) \in Nat /\ Cardinality(S) \in Nat
  <2> DEFINE lower == {e \in S : e < c}
  <2>1. lower \in SUBSET S
    OBVIOUS
  <2> HIDE DEF lower
  <2>2. Cardinality(lower) \in Nat /\ Cardinality(S) \in Nat
    BY <2>1, FS_Subset, FS_CardinalityType
  <2> QED BY <2>2 DEF lower, Rank
<1>4. ASSUME NEW d \in S, d < c
      PROVE  Rank(S, d) < Rank(S, c)
  <2> DEFINE lower == {e \in S : e < c}
  <2>1. lower \in SUBSET S /\ d \in lower
    BY <1>4
  <2>2. \A e \in S : e < d => e \in lower
    <3> TAKE e \in S
    <3> QED BY <1>4
  <2> HIDE DEF lower
  <2>3. Rank(S, d) < Cardinality(lower)
    BY <1>1, <2>1, <2>2
  <2> QED BY <2>3 DEF lower, Rank
<1> QED BY <1>2, <1>3, <1>4

\* The ascending sequence holds each code once, at its rank.
LEMMA AscendingHolds ==
  ASSUME NEW S \in SUBSET Nat, IsFiniteSet(S), NEW i \in 1 .. Cardinality(S)
  PROVE  /\ Ascending(S)[i] \in S
         /\ \A c \in S : Ascending(S)[i] = c <=> Rank(S, c) = i - 1
<1> DEFINE k == Cardinality(S)
           f == [c \in S |-> Rank(S, c)]
<1>1. k \in Nat
  BY FS_CardinalityType
<1>2. \A c, d \in S : Rank(S, c) = Rank(S, d) => c = d
  <2> SUFFICES ASSUME NEW c \in S, NEW d \in S, c # d PROVE Rank(S, c) # Rank(S, d)
    OBVIOUS
  <2>1. c < d \/ d < c
    OBVIOUS
  <2>2. Rank(S, c) \in Int /\ Rank(S, d) \in Int
    BY RankLess
  <2> QED BY <2>1, <2>2, RankLess
<1>3. f \in Injection(S, 0 .. k - 1)
  <2>1. f \in [S -> 0 .. k - 1]
    BY RankLess
  <2>2. IsInjective(f)
    BY <1>2 DEF IsInjective
  <2> QED BY <2>1, <2>2 DEF Injection
<1>4. IsFiniteSet(0 .. k - 1) /\ Cardinality(0 .. k - 1) = k
  <2>1. k - 1 \in Int
    BY <1>1
  <2> HIDE DEF k
  <2> QED BY <1>1, <2>1, FS_Interval
<1>5. f \in Surjection(S, 0 .. k - 1)
  <2> HIDE DEF f
  <2> QED BY <1>3, <1>4, FS_Injection
<1>6. i - 1 \in 0 .. k - 1
  BY <1>1
<1>7. \E c \in S : Rank(S, c) = i - 1
  BY <1>5, <1>6 DEF Surjection
<1>8. Ascending(S)[i] = CHOOSE c \in S : Rank(S, c) = i - 1
  BY DEF Ascending, Rank
<1> QED BY <1>2, <1>7, <1>8

-----------------------------------------------------------------------------
(* Division.                                                               *)

\* Quotient and remainder are the only ones.
LEMMA DivisionIsUnique ==
  ASSUME NEW k \in Nat \ {0}, NEW q \in Nat, NEW m \in 0 .. k - 1, NEW a \in Nat, a = k * q + m
  PROVE  a \div k = q /\ a % k = m
<1> DEFINE p == a \div k
           n == a % k
<1>1. p \in Nat /\ n \in 0 .. k - 1 /\ a = k * p + n
  BY SMT
<1> HIDE DEF p, n
<1>2. ~(p < q)
  <2> SUFFICES ASSUME p < q PROVE FALSE
    OBVIOUS
  <2>1. PICK e \in Nat : q = p + 1 + e
    <3>1. q - (p + 1) \in Nat /\ q = p + 1 + (q - (p + 1))
      BY <1>1
    <3> QED BY <3>1
  <2>2. k * q = k * p + k + k * e /\ k * e \in Nat /\ k * p \in Nat
    BY <1>1, <2>1, SMT
  <2> QED BY <1>1, <2>2
<1>3. ~(q < p)
  <2> SUFFICES ASSUME q < p PROVE FALSE
    OBVIOUS
  <2>1. PICK e \in Nat : p = q + 1 + e
    <3>1. p - (q + 1) \in Nat /\ p = q + 1 + (p - (q + 1))
      BY <1>1
    <3> QED BY <3>1
  <2>2. k * p = k * q + k + k * e /\ k * e \in Nat /\ k * q \in Nat
    BY <1>1, <2>1, SMT
  <2> QED BY <1>1, <2>2
<1>4. p = q
  BY <1>1, <1>2, <1>3
<1>5. n = m
  <2>1. k * q \in Nat
    BY SMT
  <2> QED BY <1>1, <1>4, <2>1
<1> QED BY <1>4, <1>5 DEF p, n

\* Counting on by one.
LEMMA DivisionSteps ==
  ASSUME NEW k \in Nat \ {0}, NEW n \in Nat
  PROVE  /\ n \div k \in Nat /\ n % k \in 0 .. k - 1
         /\ (n + 1) \div k = IF n % k = k - 1 THEN (n \div k) + 1 ELSE n \div k
         /\ (n + 1) % k = IF n % k = k - 1 THEN 0 ELSE (n % k) + 1
<1> DEFINE q == n \div k
           m == n % k
<1>1. q \in Nat /\ m \in 0 .. k - 1 /\ n = k * q + m
  BY SMT
<1> HIDE DEF q, m
<1>2. CASE m = k - 1
  <2>1. k * q \in Nat /\ k * (q + 1) = k * q + k
    BY <1>1, SMT
  <2>2. n + 1 = k * (q + 1) + 0 /\ q + 1 \in Nat /\ 0 \in 0 .. k - 1
    BY <1>1, <1>2, <2>1
  <2>3. (n + 1) \div k = q + 1 /\ (n + 1) % k = 0
    <3>1. n + 1 \in Nat
      OBVIOUS
    <3> DEFINE a == n + 1
               p == q + 1
               z == 0
    <3>2. a = k * p + z /\ a \in Nat /\ p \in Nat /\ z \in 0 .. k - 1
      BY <2>2, <3>1
    <3> HIDE DEF a, p, z
    <3>3. a \div k = p /\ a % k = z
      BY <3>2, DivisionIsUnique
    <3> QED BY <3>3 DEF a, p, z
  <2> QED BY <1>1, <1>2, <2>3 DEF q, m
<1>3. CASE m # k - 1
  <2>1. k * q \in Nat
    BY <1>1, SMT
  <2>2. n + 1 = k * q + (m + 1) /\ m + 1 \in 0 .. k - 1
    BY <1>1, <1>3, <2>1
  <2>3. (n + 1) \div k = q /\ (n + 1) % k = m + 1
    BY <1>1, <2>2, DivisionIsUnique
  <2> QED BY <1>1, <1>3, <2>3 DEF q, m
<1> QED BY <1>2, <1>3

\* Of the first n visits of passes over k codes, the one of rank r has its share.
LEMMA Shares ==
  ASSUME NEW k \in Nat \ {0}, NEW r \in 0 .. k - 1, NEW n \in Nat
  PROVE  Cardinality({i \in 1 .. n : (i - 1) % k = r}) = (n \div k) + (IF r < n % k THEN 1 ELSE 0)
<1> DEFINE Hits(m) == {i \in 1 .. m : (i - 1) % k = r}
           Share(m) == (m \div k) + (IF r < m % k THEN 1 ELSE 0)
           D == {m \in Nat : Cardinality(Hits(m)) # Share(m)}
<1> SUFFICES ASSUME D # {} PROVE FALSE
  OBVIOUS
<1>1. PICK m \in D : \A l \in D : m <= l
  <2>1. D \in SUBSET Nat
    OBVIOUS
  <2> HIDE DEF D
  <2> QED BY <2>1, LeastNumber
<1>2. m # 0
  <2> SUFFICES ASSUME m = 0 PROVE FALSE
    OBVIOUS
  <2>1. Hits(0) = {}
    OBVIOUS
  <2>2. 0 = k * 0 + 0 /\ 0 \in 0 .. k - 1
    OBVIOUS
  <2>3. 0 \div k = 0 /\ 0 % k = 0
    BY <2>2, DivisionIsUnique
  <2>4. Cardinality(Hits(0)) = 0
    BY <2>1, FS_EmptySet
  <2>5. Share(0) = 0
    BY <2>3
  <2> QED BY <2>4, <2>5
<1> DEFINE l == m - 1
<1>3. l \in Nat /\ l \notin D /\ m = l + 1
  <2>1. m \in Nat
    OBVIOUS
  <2> HIDE DEF D
  <2> QED BY <1>1, <1>2, <2>1
<1>4. Cardinality(Hits(l)) = Share(l)
  BY <1>3
<1>5. Hits(m) = IF l % k = r THEN Hits(l) \cup {m} ELSE Hits(l)
  <2>1. \A i \in 1 .. m : i \in 1 .. l \/ i = m
    BY <1>3
  <2>2. m \in 1 .. m /\ 1 .. l \subseteq 1 .. m /\ m - 1 = l
    BY <1>3
  <2> QED BY <2>1, <2>2
<1>6. IsFiniteSet(Hits(l)) /\ m \notin Hits(l)
  <2>1. IsFiniteSet(1 .. l)
    BY <1>3, FS_Interval
  <2>2. Hits(l) \in SUBSET (1 .. l)
    OBVIOUS
  <2>3. m \notin 1 .. l
    BY <1>3
  <2> HIDE DEF l
  <2> QED BY <2>1, <2>2, <2>3, FS_Subset
<1>7. Cardinality(Hits(m)) = Cardinality(Hits(l)) + (IF l % k = r THEN 1 ELSE 0)
  <2> DEFINE H == Hits(l)
  <2>1. Cardinality(H) \in Nat
    BY <1>6, FS_CardinalityType
  <2>2. Cardinality(H \cup {m}) = Cardinality(H) + 1
    <3> HIDE DEF H
    <3>1. IsFiniteSet(H) /\ m \notin H
      BY <1>6 DEF H
    <3> QED BY <3>1, FS_AddElement
  <2>3. Hits(m) = IF l % k = r THEN H \cup {m} ELSE H
    BY <1>5
  <2> HIDE DEF H, Hits, l
  <2>4. Cardinality(Hits(m)) = Cardinality(H) + (IF l % k = r THEN 1 ELSE 0)
    BY <2>1, <2>2, <2>3
  <2> QED BY <2>4 DEF H
<1>8. Share(m) = Share(l) + (IF l % k = r THEN 1 ELSE 0)
  <2>1. /\ l \div k \in Nat /\ l % k \in 0 .. k - 1
        /\ m \div k = IF l % k = k - 1 THEN (l \div k) + 1 ELSE l \div k
        /\ m % k = IF l % k = k - 1 THEN 0 ELSE (l % k) + 1
    <3> HIDE DEF l
    <3> QED BY <1>3, DivisionSteps
  <2> DEFINE q == l \div k
             x == l % k
             q1 == m \div k
             x1 == m % k
  <2>2. /\ q \in Nat /\ x \in 0 .. k - 1
        /\ q1 = IF x = k - 1 THEN q + 1 ELSE q
        /\ x1 = IF x = k - 1 THEN 0 ELSE x + 1
    BY <2>1
  <2> HIDE DEF q, x, q1, x1
  <2>3. q1 + (IF r < x1 THEN 1 ELSE 0) = (q + (IF r < x THEN 1 ELSE 0)) + (IF x = r THEN 1 ELSE 0)
    BY <2>2
  <2> QED BY <2>3 DEF q, x, q1, x1
<1>9. Cardinality(Hits(m)) # Share(m)
  OBVIOUS
<1> HIDE DEF Hits, Share, l, D
<1> QED BY <1>4, <1>7, <1>8, <1>9

-----------------------------------------------------------------------------
(* What the engine and the network say.                                    *)

\* At every line the engine and the network say something of the right kind, and whoever
\* is to move in an undecided game has a move.
LEMMA WorldSays ==
  ASSUME GameOk, NEW l \in Seq(Codes)
  PROVE  /\ game \o l \in Seq(Codes) /\ At(l) \in Kinds
         /\ LegalAfter(l) \in SUBSET Codes /\ IsFiniteSet(LegalAfter(l))
         /\ world.value[At(l)] \in Int /\ world.policy[At(l)] \in [Codes -> Int]
         /\ world.result[At(l)] \in {"ongoing", "win", "draw"}
         /\ Ongoing(game \o l) \in BOOLEAN /\ (Ongoing(game \o l) => LegalAfter(l) # {})
         /\ TerminalValue(l) \in Int
<1>1. game \o l \in Seq(Codes)
  BY DEF GameOk
<1>2. At(l) \in Kinds
  BY <1>1 DEF GameOk, KindsCover, At
<1>3. /\ world.legal \in [Kinds -> SUBSET Codes]
      /\ world.result \in [Kinds -> {"ongoing", "win", "draw"}]
      /\ world.value \in [Kinds -> Int] /\ world.policy \in [Kinds -> [Codes -> Int]]
      /\ \A k \in Kinds : world.result[k] = "ongoing" => world.legal[k] # {}
  BY WorldsAssumption DEF GameOk
<1>4. LegalAfter(l) \in SUBSET Codes
  BY <1>2, <1>3 DEF LegalAfter
<1>5. IsFiniteSet(LegalAfter(l))
  BY <1>4, SearchAssumption, FS_Subset
<1>6. /\ world.value[At(l)] \in Int /\ world.policy[At(l)] \in [Codes -> Int]
      /\ world.result[At(l)] \in {"ongoing", "win", "draw"}
  BY <1>2, <1>3
<1>7. Ongoing(game \o l) \in BOOLEAN /\ (Ongoing(game \o l) => LegalAfter(l) # {})
  BY <1>2, <1>3 DEF Ongoing, LegalAfter, At
<1>8. TerminalValue(l) \in Int
  BY SearchAssumption DEF TerminalValue
<1> QED BY <1>1, <1>2, <1>4, <1>5, <1>6, <1>7, <1>8

\* The prior of an action is a share of the mass on legal ones, a number.
LEMMA PriorNat ==
  ASSUME GameOk, NEW l \in Seq(Codes), ValidEvaluation(l), NEW c \in LegalAfter(l)
  PROVE  Prior(l, c) \in Nat
<1> DEFINE policy == world.policy[At(l)]
           mass == SumFunctionOnSet(policy, LegalAfter(l))
           k == Cardinality(LegalAfter(l))
<1>1. LegalAfter(l) \in SUBSET Codes /\ IsFiniteSet(LegalAfter(l)) /\ policy \in [Codes -> Int]
  BY WorldSays
<1>2. \A d \in Codes : policy[d] \in Nat
  BY <1>1 DEF ValidEvaluation
<1>3. mass \in Nat
  <2>1. \A d \in LegalAfter(l) : policy[d] \in Nat
    BY <1>1, <1>2
  <2> HIDE DEF policy
  <2> QED BY <1>1, <2>1, SumNat
<1>4. k \in Nat \ {0}
  BY <1>1, FS_CardinalityType, FS_EmptySet
<1>5. policy[c] * Unit \in Nat /\ Unit \in Nat
  <2>1. policy[c] \in Nat /\ Unit \in Nat
    BY <1>1, <1>2, SearchAssumption
  <2> HIDE DEF policy
  <2> QED BY <2>1, SMT
<1>6. Prior(l, c) = IF mass > 0 THEN (policy[c] * Unit) \div mass ELSE Unit \div k
  BY DEF Prior
<1> DEFINE a == policy[c] * Unit
<1> HIDE DEF policy, mass, k
<1>7. mass > 0 => a \div mass \in Nat
  <2>1. a \in Nat
    BY <1>5
  <2> HIDE DEF a
  <2> QED BY <1>3, <2>1, SMT
<1>8. Unit \div k \in Nat
  BY <1>4, <1>5, SMT
<1> QED BY <1>6, <1>7, <1>8

-----------------------------------------------------------------------------
(* The edge that a descent takes.                                          *)

\* The score that a descent ranks an edge by is an integer.
LEMMA ScoreInt ==
  ASSUME NEW l, NEW n, NodeOk(n, l), NEW c \in DOMAIN n.edges
  PROVE  EdgeScore(n, c) \in Int
<1>1. /\ n.visits \in Nat /\ n.valueSum \in Int /\ n.value \in Int /\ n.visitedPrior \in Nat
      /\ n.edges[c].prior \in Nat /\ n.edges[c].visits \in Nat /\ n.edges[c].valueSum \in Int
      /\ Unit \in Nat \ {0}
  BY SearchAssumption DEF NodeOk, NodeIs, EdgeOk
<1> DEFINE e == n.edges[c]
<1>2. NodeValue(n) \in Int
  BY <1>1, SMT DEF NodeValue
<1>3. SquareRoot[n.visitedPrior * Unit] \in Nat
  <2>1. n.visitedPrior * Unit \in Nat
    BY <1>1, SMT
  <2> QED BY <2>1, SquareRootNat
<1>4. SquareRoot[n.visits * Unit * Unit] \in Nat
  <2>1. n.visits * Unit \in Nat
    BY <1>1, SMT
  <2>2. n.visits * Unit * Unit \in Nat
    BY <1>1, <2>1, SMT
  <2> QED BY <2>2, SquareRootNat
<1>5. EdgeQ(n, c) \in Int
  <2>1. NodeValue(n) - SquareRoot[n.visitedPrior * Unit] \div 4 \in Int
    BY <1>2, <1>3, SMT
  <2>2. Clamp(NodeValue(n) - SquareRoot[n.visitedPrior * Unit] \div 4) \in Int
    BY <1>1, <2>1 DEF Clamp
  <2>3. e.visits > 0 => e.valueSum \div e.visits \in Int
    BY <1>1, SMT
  <2> QED BY <2>2, <2>3 DEF EdgeQ
<1>6. (5 * e.prior * SquareRoot[n.visits * Unit * Unit]) \div (4 * Unit * (1 + e.visits)) \in Int
  <2> DEFINE s == SquareRoot[n.visits * Unit * Unit]
             num == 5 * e.prior * s
             den == 4 * Unit * (1 + e.visits)
  <2>1. s \in Nat
    BY <1>4
  <2> HIDE DEF s
  <2>2. num \in Nat
    BY <1>1, <2>1, SMT
  <2>3. den \in Nat \ {0}
    <3> DEFINE u == 4 * Unit
               v == 1 + e.visits
    <3>1. u \in Nat \ {0} /\ v \in Nat \ {0}
      BY <1>1
    <3>2. den = u * v
      OBVIOUS
    <3> HIDE DEF u, v, den
    <3> QED BY <3>1, <3>2, SMT
  <2> HIDE DEF num, den
  <2>4. num \div den \in Int
    BY <2>2, <2>3, SMT
  <2> QED BY <2>4 DEF num, den, s
<1> QED BY <1>5, <1>6 DEF EdgeScore

\* At an expanded node the descent selects one of its edges.
LEMMA EdgeSelected ==
  ASSUME GameOk, NEW l \in Seq(Codes), NEW n, NodeOk(n, l), n.expanded
  PROVE  SelectEdge(n) \in DOMAIN n.edges
<1> DEFINE w == [c \in DOMAIN n.edges |-> EdgeScore(n, c)]
           S == DOMAIN n.edges
<1>1. S = LegalAfter(l) /\ Ongoing(game \o l)
  BY WorldSays DEF NodeOk, NodeIs
<1>2. S \in SUBSET Nat /\ IsFiniteSet(S) /\ S # {}
  BY <1>1, WorldSays, SearchAssumption
<1>3. \A c \in S : w[c] \in Int /\ w[c] = EdgeScore(n, c)
  BY ScoreInt
<1>4. \E c \in S : \A d \in S \ {c} : w[c] > w[d] \/ (w[c] = w[d] /\ c < d)
  <2> HIDE DEF w, S
  <2> QED BY <1>2, <1>3, BestExists
<1>5. \E c \in S : \A d \in S \ {c} : \/ EdgeScore(n, c) > EdgeScore(n, d)
                                      \/ EdgeScore(n, c) = EdgeScore(n, d) /\ c < d
  <2> HIDE DEF w
  <2> QED BY <1>3, <1>4
<1> QED BY <1>5 DEF SelectEdge

-----------------------------------------------------------------------------
(* Lines and nodes.                                                        *)

\* A line that is extended by a code ends in it and is that line before.
LEMMA LineEnds ==
  ASSUME NEW l \in Seq(Codes)
  PROVE  /\ l # <<>> => /\ Front(l) \in Seq(Codes) /\ Last(l) \in Codes
                        /\ l = Append(Front(l), Last(l)) /\ Len(Front(l)) = Len(l) - 1
         /\ \A c \in Codes : /\ Append(l, c) \in Seq(Codes) /\ Append(l, c) # <<>>
                             /\ Front(Append(l, c)) = l /\ Last(Append(l, c)) = c
<1>1. ASSUME l # <<>>
      PROVE  /\ Front(l) \in Seq(Codes) /\ Last(l) \in Codes
             /\ l = Append(Front(l), Last(l)) /\ Len(Front(l)) = Len(l) - 1
  <2>1. Len(l) \in Nat \ {0}
    BY <1>1
  <2>2. Front(l) \in Seq(Codes) /\ Len(Front(l)) = Len(l) - 1 /\ \A i \in 1 .. Len(l) - 1 : Front(l)[i] = l[i]
    <3> DEFINE n == Len(l) - 1
    <3>1. n \in Nat /\ n <= Len(l)
      BY <2>1
    <3>2. Front(l) = SubSeq(l, 1, n)
      BY DEF Front
    <3>3. \A i \in 1 .. n : l[i] \in Codes
      BY <2>1
    <3> HIDE DEF n
    <3>4. SubSeq(l, 1, n) \in Seq(Codes) /\ Len(SubSeq(l, 1, n)) = n /\ \A i \in 1 .. n : SubSeq(l, 1, n)[i] = l[i]
      BY <3>1, <3>3
    <3> QED BY <3>2, <3>4 DEF n
  <2>3. Last(l) \in Codes /\ Last(l) = l[Len(l)]
    BY <2>1 DEF Last
  <2>4. l = Append(Front(l), Last(l))
    BY <2>1, <2>2, <2>3
  <2> QED BY <2>2, <2>3, <2>4
<1>2. ASSUME NEW c \in Codes
      PROVE  /\ Append(l, c) \in Seq(Codes) /\ Append(l, c) # <<>>
             /\ Front(Append(l, c)) = l /\ Last(Append(l, c)) = c
  <2>1. /\ Append(l, c) \in Seq(Codes) /\ Len(Append(l, c)) = Len(l) + 1 /\ Append(l, c) # <<>>
        /\ \A i \in 1 .. Len(l) : Append(l, c)[i] = l[i]
        /\ Append(l, c)[Len(l) + 1] = c
    OBVIOUS
  <2>2. Last(Append(l, c)) = c
    BY <2>1 DEF Last
  <2>3. Front(Append(l, c)) = l
    BY <2>1 DEF Front
  <2> QED BY <2>1, <2>2, <2>3
<1> QED BY <1>1, <1>2

\* A node is created fit for its line, with nothing in it.
LEMMA NewNode ==
  ASSUME GameOk, NEW l \in Seq(Codes)
  PROVE  /\ NodeOk(CreateNode(l), l)
         /\ CreateNode(l).visits = 0 /\ CreateNode(l).valueSum = 0 /\ ~CreateNode(l).expanded
         /\ CreateNode(l).visitedPrior = 0
<1>1. Ongoing(game \o l) \in BOOLEAN
  BY WorldSays
<1> QED BY <1>1 DEF CreateNode, NodeOk, NodeIs, NodeFields

\* expand leaves a node fit for its line, with an unvisited edge per legal action.
LEMMA ExpandedNode ==
  ASSUME GameOk, NEW l \in Seq(Codes), NEW n, NodeOk(n, l), ~n.terminal, ValidEvaluation(l)
  PROVE  LET m == Expand(n, l)
         IN /\ NodeOk(m, l) /\ m.expanded /\ ~m.terminal
            /\ m.visits = n.visits /\ m.valueSum = n.valueSum
            /\ m.value = world.value[At(l)] /\ m.visitedPrior = 0
            /\ \A c \in DOMAIN m.edges : m.edges[c].visits = 0 /\ m.edges[c].valueSum = 0
<1> DEFINE m == Expand(n, l)
<1>1. /\ DOMAIN m = NodeFields /\ m.expanded = TRUE /\ m.value = world.value[At(l)] /\ m.visitedPrior = 0
      /\ m.edges = [c \in LegalAfter(l) |-> NewEdge(l, c)]
      /\ m.visits = n.visits /\ m.valueSum = n.valueSum /\ m.terminal = n.terminal
  BY DEF Expand, NodeOk, NodeIs, NodeFields
<1>2. \A c \in LegalAfter(l) : EdgeOk(NewEdge(l, c)) /\ NewEdge(l, c).visits = 0 /\ NewEdge(l, c).valueSum = 0
  BY PriorNat DEF NewEdge, EdgeOk
<1>3. world.value[At(l)] \in Int
  BY WorldSays
<1> HIDE DEF m
<1>4. DOMAIN m.edges = LegalAfter(l) /\ \A c \in LegalAfter(l) : m.edges[c] = NewEdge(l, c)
  BY <1>1
<1>5. NodeOk(m, l)
  <2>1. \A c \in DOMAIN m.edges : EdgeOk(m.edges[c])
    BY <1>2, <1>4
  <2>2. n.terminal = ~Ongoing(game \o l) /\ n.visits \in Nat /\ n.valueSum \in Int
    BY DEF NodeOk, NodeIs
  <2>3. m.visitedPrior \in Nat /\ m.value \in Int
    BY <1>1, <1>3
  <2>4. DOMAIN m.edges = IF m.expanded THEN LegalAfter(l) ELSE {}
    BY <1>1, <1>4
  <2> QED BY <1>1, <2>1, <2>2, <2>3, <2>4 DEF NodeOk, NodeIs
<1>6. m.expanded /\ ~m.terminal
  BY <1>1
<1> QED BY <1>1, <1>2, <1>4, <1>5, <1>6 DEF m

\* A node stays fit when a value is counted at it, and nothing else of it changes.
LEMMA CountedNode ==
  ASSUME NEW l, NEW n, NodeOk(n, l), NEW v \in Int
  PROVE  LET m == Counted(n, v)
         IN /\ NodeOk(m, l) /\ m.expanded = n.expanded /\ m.terminal = n.terminal
            /\ m.visits = n.visits + 1 /\ m.valueSum = n.valueSum + v
            /\ m.value = n.value /\ m.visitedPrior = n.visitedPrior /\ m.edges = n.edges
<1> DEFINE m == Counted(n, v)
<1>1. /\ DOMAIN m = NodeFields /\ m.expanded = n.expanded /\ m.terminal = n.terminal
      /\ m.visits = n.visits + 1 /\ m.valueSum = n.valueSum + v
      /\ m.value = n.value /\ m.visitedPrior = n.visitedPrior /\ m.edges = n.edges
  BY DEF Counted, NodeOk, NodeIs, NodeFields
<1> HIDE DEF m
<1>2. NodeOk(m, l)
  BY <1>1 DEF NodeOk, NodeIs
<1> QED BY <1>1, <1>2 DEF m

\* A node that gets a value through one of its edges.
LEMMA BackedUpNode ==
  ASSUME NEW l, NEW n, NodeOk(n, l), NEW v \in Int, NEW c \in DOMAIN n.edges
  PROVE  LET m == Credited(n, c, v)
         IN /\ NodeOk(m, l) /\ m.expanded = n.expanded /\ m.terminal = n.terminal
            /\ m.visits = n.visits + 1 /\ m.valueSum = n.valueSum + v
            /\ m.value = n.value /\ m.visitedPrior = n.visitedPrior
            /\ DOMAIN m.edges = DOMAIN n.edges
            /\ \A d \in DOMAIN n.edges : d # c => m.edges[d] = n.edges[d]
            /\ m.edges[c].visits = n.edges[c].visits + 1 /\ m.edges[c].valueSum = n.edges[c].valueSum + v
            /\ m.edges[c].prior = n.edges[c].prior
<1> DEFINE o == Counted(n, v)
           m == Credited(n, c, v)
           e == n.edges[c]
<1>1. /\ NodeOk(o, l) /\ o.expanded = n.expanded /\ o.terminal = n.terminal
      /\ o.visits = n.visits + 1 /\ o.valueSum = n.valueSum + v
      /\ o.value = n.value /\ o.visitedPrior = n.visitedPrior /\ o.edges = n.edges
  BY CountedNode
<1>0. m = [o EXCEPT !.edges[c] = Counted(@, v)]
  BY DEF Credited
<1> HIDE DEF o, m
<1>2. /\ DOMAIN m = NodeFields /\ m.expanded = o.expanded /\ m.terminal = o.terminal
      /\ m.visits = o.visits /\ m.valueSum = o.valueSum
      /\ m.value = o.value /\ m.visitedPrior = o.visitedPrior
      /\ m.edges = [o.edges EXCEPT ![c] = Counted(o.edges[c], v)]
  BY <1>0, <1>1 DEF NodeOk, NodeIs, NodeFields
<1>3. EdgeOk(e)
  BY DEF NodeOk, NodeIs
<1>4. /\ EdgeOk(Counted(e, v)) /\ Counted(e, v).visits = e.visits + 1
      /\ Counted(e, v).valueSum = e.valueSum + v /\ Counted(e, v).prior = e.prior
  BY <1>3 DEF EdgeOk, Counted
<1>5. /\ DOMAIN m.edges = DOMAIN n.edges
      /\ \A d \in DOMAIN n.edges : d # c => m.edges[d] = n.edges[d]
      /\ m.edges[c] = Counted(e, v)
  BY <1>1, <1>2
<1> HIDE DEF e
<1>6. \A d \in DOMAIN m.edges : EdgeOk(m.edges[d])
  BY <1>4, <1>5 DEF NodeOk, NodeIs
<1>7. NodeOk(m, l)
  BY <1>1, <1>2, <1>5, <1>6 DEF NodeOk, NodeIs
<1> QED BY <1>1, <1>2, <1>4, <1>5, <1>7 DEF m, o, e

\* The first visit of an edge makes its child.
LEMMA EdgeTaken ==
  ASSUME GameOk, TreeOk, NEW at \in DOMAIN tree, tree[at].expanded, NEW c \in DOMAIN tree[at].edges
  PROVE  LET child == Append(at, c)
             after == TakeEdge(tree, at, c)
             m     == after[at]
             n     == tree[at]
         IN /\ child \in Seq(Codes) /\ child # <<>> /\ Front(child) = at /\ Last(child) = c
            /\ DOMAIN after = DOMAIN tree \cup {child}
            /\ \A l \in DOMAIN tree : l # at => after[l] = tree[l]
            /\ child \notin DOMAIN tree => after[child] = CreateNode(child)
            /\ NodeOk(m, at) /\ m.expanded /\ ~m.terminal /\ m.edges = n.edges
            /\ m.visits = n.visits /\ m.valueSum = n.valueSum /\ m.value = n.value
            /\ m.visitedPrior = n.visitedPrior + (IF n.edges[c].visits = 0 THEN n.edges[c].prior ELSE 0)
<1> DEFINE child == Append(at, c)
           n == tree[at]
           more == [tree EXCEPT ![at].visitedPrior =
                      IF tree[at].edges[c].visits = 0 THEN @ + tree[at].edges[c].prior ELSE @]
           after == AddNode(more, child)
           m == [n EXCEPT !.visitedPrior = IF n.edges[c].visits = 0 THEN @ + n.edges[c].prior ELSE @]
<1>1. at \in Seq(Codes) /\ NodeOk(n, at) /\ n.expanded
  BY DEF TreeOk
<1>2. c \in Codes
  BY <1>1, WorldSays DEF NodeOk, NodeIs
<1>3. child \in Seq(Codes) /\ child # <<>> /\ Front(child) = at /\ Last(child) = c
  BY <1>1, <1>2, LineEnds
<1>4. child # at
  BY <1>1, <1>2
<1>5. DOMAIN more = DOMAIN tree /\ more[at] = m /\ \A l \in DOMAIN tree : l # at => more[l] = tree[l]
  OBVIOUS
<1>6. /\ DOMAIN m = NodeFields /\ m.expanded = n.expanded /\ m.terminal = n.terminal /\ m.edges = n.edges
      /\ m.visits = n.visits /\ m.valueSum = n.valueSum /\ m.value = n.value
      /\ m.visitedPrior = IF n.edges[c].visits = 0 THEN n.visitedPrior + n.edges[c].prior ELSE n.visitedPrior
  BY <1>1 DEF NodeOk, NodeIs, NodeFields
<1>7. n.visitedPrior \in Nat /\ EdgeOk(n.edges[c]) /\ ~n.terminal
  BY <1>1 DEF NodeOk, NodeIs
<1>8. after = TakeEdge(tree, at, c)
  BY DEF TakeEdge
<1> HIDE DEF more, m, child
<1>9. /\ DOMAIN after = DOMAIN tree \cup {child}
      /\ \A l \in DOMAIN tree : after[l] = more[l]
      /\ child \notin DOMAIN tree => after[child] = CreateNode(child)
  BY <1>5 DEF AddNode
<1> HIDE DEF after, n
<1>10. m.visitedPrior \in Nat
       /\ m.visitedPrior = n.visitedPrior + (IF n.edges[c].visits = 0 THEN n.edges[c].prior ELSE 0)
  BY <1>6, <1>7 DEF EdgeOk
<1>11. NodeOk(m, at)
  BY <1>1, <1>6, <1>10 DEF NodeOk, NodeIs
<1>12. after[at] = m /\ m.expanded /\ ~m.terminal
  BY <1>1, <1>5, <1>6, <1>7, <1>9
<1>13. \A l \in DOMAIN tree : l # at => after[l] = tree[l]
  BY <1>5, <1>9
<1> QED BY <1>3, <1>6, <1>8, <1>9, <1>10, <1>11, <1>12, <1>13 DEF child, n

-----------------------------------------------------------------------------
(* The tree under the steps of a search.                                   *)

\* A tree keeps its shape over steps that leave the tree and the game.
LEMMA TreeKept ==
  ASSUME UNCHANGED <<world, game>>,
         DOMAIN tree' \in SUBSET Seq(Codes), IsFiniteSet(DOMAIN tree'),
         <<>> \in DOMAIN tree', tree'[<<>>].expanded,
         \A l \in DOMAIN tree' : NodeOk(tree'[l], l),
         \A l \in DOMAIN tree' \ {<<>>} :
            Front(l) \in DOMAIN tree' /\ Last(l) \in DOMAIN tree'[Front(l)].edges
  PROVE  TreeOk'
BY DEF TreeOk, NodeOk, LegalAfter, At, Ongoing

\* A tree keeps its shape when one node is replaced by another that fits the line and has
\* the same edges.
LEMMA NodeReplaced ==
  ASSUME GameOk, TreeOk, UNCHANGED <<world, game>>,
         NEW at \in DOMAIN tree, NEW m, NodeOk(m, at), tree[at].expanded => m.expanded,
         tree' = [tree EXCEPT ![at] = m]
  PROVE  TreeOk'
<1>1. DOMAIN tree' = DOMAIN tree /\ tree'[at] = m /\ \A l \in DOMAIN tree : l # at => tree'[l] = tree[l]
  OBVIOUS
<1>2. \A l \in DOMAIN tree : l \in Seq(Codes) /\ NodeOk(tree[l], l)
  BY DEF TreeOk
<1>3. \A l \in DOMAIN tree' : NodeOk(tree'[l], l)
  BY <1>1, <1>2
<1>4. DOMAIN tree[at].edges \in SUBSET DOMAIN m.edges
  BY <1>2 DEF NodeOk, NodeIs
<1>5. ASSUME NEW l \in DOMAIN tree' \ {<<>>}
      PROVE  Front(l) \in DOMAIN tree' /\ Last(l) \in DOMAIN tree'[Front(l)].edges
  <2>1. Front(l) \in DOMAIN tree /\ Last(l) \in DOMAIN tree[Front(l)].edges
    BY <1>1, <1>5 DEF TreeOk
  <2>2. CASE Front(l) = at
    BY <1>1, <1>4, <2>1, <2>2
  <2>3. CASE Front(l) # at
    BY <1>1, <2>1, <2>3
  <2> QED BY <2>2, <2>3
<1>6. <<>> \in DOMAIN tree' /\ tree'[<<>>].expanded
  <2>1. <<>> \in DOMAIN tree /\ tree[<<>>].expanded
    BY DEF TreeOk
  <2> QED BY <1>1, <2>1
<1>7. DOMAIN tree' \in SUBSET Seq(Codes) /\ IsFiniteSet(DOMAIN tree')
  BY <1>1 DEF TreeOk
<1> QED BY <1>3, <1>5, <1>6, <1>7, TreeKept

\* ... and when the replaced node is above others, whose edges it keeps.
LEMMA EdgeKept ==
  ASSUME GameOk, TreeOk, UNCHANGED <<world, game>>,
         NEW at \in DOMAIN tree, tree[at].expanded, NEW c \in DOMAIN tree[at].edges,
         tree' = TakeEdge(tree, at, c)
  PROVE  TreeOk' /\ Append(at, c) \in DOMAIN tree' \ {<<>>}
<1> DEFINE child == Append(at, c)
<1>1. /\ child \in Seq(Codes) /\ child # <<>> /\ Front(child) = at /\ Last(child) = c
      /\ DOMAIN tree' = DOMAIN tree \cup {child}
      /\ \A l \in DOMAIN tree : l # at => tree'[l] = tree[l]
      /\ child \notin DOMAIN tree => tree'[child] = CreateNode(child)
      /\ NodeOk(tree'[at], at) /\ tree'[at].expanded /\ tree'[at].edges = tree[at].edges
  BY EdgeTaken
<1>2. /\ DOMAIN tree \in SUBSET Seq(Codes) /\ IsFiniteSet(DOMAIN tree)
      /\ <<>> \in DOMAIN tree /\ tree[<<>>].expanded
      /\ \A l \in DOMAIN tree : NodeOk(tree[l], l)
      /\ \A l \in DOMAIN tree \ {<<>>} : Front(l) \in DOMAIN tree /\ Last(l) \in DOMAIN tree[Front(l)].edges
  BY DEF TreeOk
<1>3. NodeOk(CreateNode(child), child)
  BY <1>1, NewNode
<1> HIDE DEF child
<1>4. DOMAIN tree' \in SUBSET Seq(Codes) /\ IsFiniteSet(DOMAIN tree')
  <2>1. IsFiniteSet(DOMAIN tree \cup {child})
    BY <1>2, FS_AddElement
  <2> QED BY <1>1, <1>2, <2>1
<1>5. <<>> \in DOMAIN tree' /\ tree'[<<>>].expanded
  BY <1>1, <1>2
<1>6. \A l \in DOMAIN tree' : NodeOk(tree'[l], l)
  BY <1>1, <1>2, <1>3
<1>7. \A l \in DOMAIN tree : DOMAIN tree'[l].edges = DOMAIN tree[l].edges
  BY <1>1
<1>8. \A l \in DOMAIN tree' \ {<<>>} : Front(l) \in DOMAIN tree' /\ Last(l) \in DOMAIN tree'[Front(l)].edges
  BY <1>1, <1>2, <1>7
<1>9. TreeOk'
  BY <1>4, <1>5, <1>6, <1>8, TreeKept
<1> QED BY <1>1, <1>9 DEF child

-----------------------------------------------------------------------------
(* The game and the shape of the search.                                   *)

\* The next visit of a round goes to an edge of the root.
LEMMA PlanIsLegal ==
  ASSUME GameOk, SearchOk, BudgetOk, Searching, plan # <<>>
  PROVE  /\ Head(plan) \in survivors /\ Head(plan) \in LegalAfter(<<>>) /\ Head(plan) \in Codes
         /\ Tail(plan) \in Seq(survivors) /\ Head(plan) \in DOMAIN tree[<<>>].edges
         /\ DOMAIN tree[<<>>].edges = LegalAfter(<<>>)
<1>1. plan \in Seq(survivors) /\ survivors \in SUBSET LegalAfter(<<>>)
  BY DEF BudgetOk, PlanOk
<1>2. Head(plan) \in survivors /\ Tail(plan) \in Seq(survivors)
  BY <1>1
<1>3. DOMAIN tree[<<>>].edges = LegalAfter(<<>>)
  BY DEF SearchOk, TreeOk, NodeOk, NodeIs
<1>4. <<>> \in Seq(Codes)
  OBVIOUS
<1>5. LegalAfter(<<>>) \in SUBSET Codes
  BY <1>4, WorldSays
<1> QED BY <1>1, <1>2, <1>3, <1>5

\* Self-play begins with an undecided game.
LEMMA GameInit == ASSUME KindsCover, SelfPlayInit PROVE GameOk
<1>1. Ongoing(game)
  BY WorldsAssumption DEF SelfPlayInit, Ongoing
<1> QED BY <1>1 DEF SelfPlayInit, GameOk

\* No step of self-play leaves the game with an illegal action or a search of a decided game.
LEMMA GameNext == ASSUME GameOk, BudgetOk, SelfPlayNext PROVE GameOk'
<1>1. CASE Play
  <2>1. PICK played \in survivors :
          /\ game' = Append(game, played)
          /\ phase' = IF Ongoing(Append(game, played)) /\ Len(Append(game, played)) < setting.plyCap
                      THEN "search" ELSE "over"
          /\ UNCHANGED <<world, setting>> /\ phase = "visit"
    BY <1>1 DEF Play
  <2>2. played \in LegalAfter(<<>>)
    BY <2>1 DEF BudgetOk, PlanOk, Searching
  <2>3. <<>> \in Seq(Codes)
    OBVIOUS
  <2>4. played \in Codes
    BY <2>2, <2>3, WorldSays
  <2>5. game' \in Seq(Codes)
    BY <2>1, <2>4 DEF GameOk
  <2>6. phase' \in {"search", "over"} /\ (phase' = "search" => Ongoing(game'))
    BY <2>1
  <2>7. phase' \notin {"over", "thrown"} => Ongoing(game)'
    BY <2>1, <2>6 DEF Ongoing
  <2> QED BY <2>1, <2>5, <2>6, <2>7 DEF GameOk
<1>2. ASSUME UNCHANGED <<world, setting, game>>,
             phase' \in {"search", "visit", "descend", "backup", "thrown"}, phase # "over", phase # "thrown"
      PROVE  GameOk'
  BY <1>2 DEF GameOk, Ongoing
<1>4. CASE Search \/ RootThrows
  BY <1>2, <1>4 DEF Search, RootThrows
<1>5. CASE Visit \/ Descend \/ VisitChild \/ ChildThrows \/ Halve
  BY <1>2, <1>5 DEF Visit, Descend, VisitChild, ChildThrows, Halve, GameOk
<1>6. CASE ReachTerminal \/ ReachLeaf \/ LeafThrows \/ Backup
  BY <1>2, <1>6 DEF ReachTerminal, ReachLeaf, LeafThrows, Backup
<1> QED BY <1>1, <1>4, <1>5, <1>6 DEF SelfPlayNext

\* The root is a line.
LEMMA RootLine == <<>> \in Seq(Codes)
OBVIOUS

\* A search starts at an expanded root whose edges nobody has taken.
LEMMA SearchStarts ==
  ASSUME GameOk, Search
  PROVE  LET n == tree'[<<>>]
         IN /\ DOMAIN tree' = {<<>>} /\ NodeOk(n, <<>>) /\ n.expanded /\ ~n.terminal
            /\ n.visits = 0 /\ n.valueSum = 0 /\ n.visitedPrior = 0
            /\ DOMAIN n.edges = LegalAfter(<<>>)
            /\ \A c \in DOMAIN n.edges : n.edges[c].visits = 0 /\ n.edges[c].valueSum = 0
            /\ UNCHANGED <<world, setting, game>> /\ TreeOk'
            /\ IsFiniteSet(LegalAfter(<<>>)) /\ LegalAfter(<<>>) \in SUBSET Codes /\ LegalAfter(<<>>) # {}
<1> DEFINE o == CreateNode(<<>>)
           n == Expand(o, <<>>)
<1>1. /\ tree' = [l \in {<<>>} |-> n] /\ ValidEvaluation(<<>>) /\ phase = "search"
      /\ UNCHANGED <<world, setting, game>>
  BY DEF Search
<1>2. Ongoing(game) /\ game \in Seq(Codes)
  BY <1>1 DEF GameOk
<1>3. game \o <<>> = game
  BY <1>2
<1>4. NodeOk(o, <<>>) /\ ~o.terminal /\ o.visits = 0 /\ o.valueSum = 0
  <2>1. o.terminal = ~Ongoing(game)
    BY <1>3 DEF CreateNode
  <2> QED BY <2>1, <1>2, RootLine, NewNode
<1>5. /\ NodeOk(n, <<>>) /\ n.expanded /\ ~n.terminal
      /\ n.visits = 0 /\ n.valueSum = 0 /\ n.visitedPrior = 0
      /\ \A c \in DOMAIN n.edges : n.edges[c].visits = 0 /\ n.edges[c].valueSum = 0
  <2> HIDE DEF o
  <2> QED BY <1>1, <1>4, RootLine, ExpandedNode
<1>6. DOMAIN n.edges = LegalAfter(<<>>)
  BY <1>5 DEF NodeOk, NodeIs
<1>7. IsFiniteSet(LegalAfter(<<>>)) /\ LegalAfter(<<>>) \in SUBSET Codes /\ LegalAfter(<<>>) # {}
  BY <1>2, <1>3, RootLine, WorldSays
<1> HIDE DEF n
<1>8. DOMAIN tree' = {<<>>} /\ tree'[<<>>] = n
  BY <1>1
<1>9. TreeOk'
  <2>1. IsFiniteSet(DOMAIN tree') /\ DOMAIN tree' \in SUBSET Seq(Codes)
    BY <1>8, FS_Singleton, RootLine
  <2>2. \A l \in DOMAIN tree' : l = <<>> /\ NodeOk(tree'[l], l)
    BY <1>5, <1>8
  <2> QED BY <1>1, <1>5, <1>8, <2>1, <2>2, TreeKept
<1> QED BY <1>1, <1>5, <1>6, <1>7, <1>8, <1>9

\* Where a backup stands.
LEMMA AboveLine ==
  ASSUME GameOk, SearchOk, phase = "backup"
  PROVE  LET at == Front(line)
             c  == Last(line)
         IN /\ TreeOk /\ line \in DOMAIN tree /\ line # <<>> /\ line \in Seq(Codes)
            /\ at \in DOMAIN tree /\ at \in Seq(Codes) /\ c \in Codes /\ line = Append(at, c)
            /\ c \in DOMAIN tree[at].edges /\ NodeOk(tree[at], at) /\ carried \in Int
            /\ tree[at].expanded
<1>1. TreeOk /\ line \in DOMAIN tree /\ line # <<>> /\ carried \in Int
  BY DEF SearchOk, Searching, LineOk
<1>2. line \in Seq(Codes)
  BY <1>1 DEF TreeOk
<1>3. Front(line) \in DOMAIN tree /\ Last(line) \in DOMAIN tree[Front(line)].edges
  BY <1>1 DEF TreeOk
<1>4. NodeOk(tree[Front(line)], Front(line))
  BY <1>1, <1>3 DEF TreeOk
<1>5. Front(line) \in Seq(Codes) /\ Last(line) \in Codes /\ line = Append(Front(line), Last(line))
  BY <1>1, <1>2, LineEnds
<1>6. tree[Front(line)].expanded
  BY <1>3, <1>4 DEF NodeOk, NodeIs
<1> QED BY <1>1, <1>2, <1>3, <1>4, <1>5, <1>6

\* Every step of a search keeps the shape of the tree and of the line it descends along.
LEMMA SearchNext ==
  ASSUME GameOk, SearchOk, BudgetOk, SelfPlayNext
  PROVE  SearchOk'
<1> USE DEF Searching
<1>1. CASE Search
  <2>1. TreeOk'
    BY <1>1, SearchStarts
  <2>2. LineOk'
    BY <1>1 DEF Search, LineOk
  <2> QED BY <2>1, <2>2 DEF SearchOk
<1>2. CASE Visit
  <2> DEFINE c == Head(plan)
  <2>1. c \in DOMAIN tree[<<>>].edges
    BY <1>2, PlanIsLegal DEF Visit
  <2>2. TreeOk /\ <<>> \in DOMAIN tree /\ tree[<<>>].expanded /\ carried \in Int
    BY <1>2 DEF Visit, SearchOk, TreeOk, LineOk
  <2>3. /\ tree' = TakeEdge(tree, <<>>, c) /\ line' = <<c>> /\ phase' = "descend"
        /\ UNCHANGED <<world, game, carried>>
    BY <1>2 DEF Visit
  <2> HIDE DEF c
  <2>4. TreeOk' /\ Append(<<>>, c) \in DOMAIN tree' \ {<<>>}
    BY <2>1, <2>2, <2>3, EdgeKept
  <2>5. Append(<<>>, c) = <<c>>
    OBVIOUS
  <2>6. LineOk'
    BY <2>2, <2>3, <2>4, <2>5 DEF LineOk
  <2> QED BY <2>4, <2>6 DEF SearchOk
<1>3. CASE Descend
  <2> DEFINE c == SelectEdge(tree[line])
  <2>1. TreeOk /\ line \in DOMAIN tree /\ carried \in Int
    BY <1>3 DEF Descend, SearchOk, LineOk
  <2>2. NodeOk(tree[line], line) /\ line \in Seq(Codes) /\ tree[line].expanded
    BY <1>3, <2>1 DEF Descend, TreeOk
  <2>3. c \in DOMAIN tree[line].edges
    BY <2>2, EdgeSelected
  <2>4. /\ tree' = TakeEdge(tree, line, c) /\ line' = Append(line, c) /\ phase' = "descend"
        /\ UNCHANGED <<world, game, carried>>
    BY <1>3 DEF Descend
  <2> HIDE DEF c
  <2>5. TreeOk' /\ Append(line, c) \in DOMAIN tree' \ {<<>>}
    BY <2>1, <2>2, <2>3, <2>4, EdgeKept
  <2>6. LineOk'
    BY <2>1, <2>4, <2>5 DEF LineOk
  <2> QED BY <2>5, <2>6 DEF SearchOk
<1>4. CASE ReachTerminal
  <2> DEFINE v == TerminalValue(line)
             m == Counted(tree[line], v)
  <2>1. TreeOk /\ line \in DOMAIN tree \ {<<>>}
    BY <1>4 DEF ReachTerminal, SearchOk, LineOk
  <2>2. NodeOk(tree[line], line) /\ line \in Seq(Codes)
    BY <2>1 DEF TreeOk
  <2>3. v \in Int
    BY <2>2, WorldSays
  <2>4. NodeOk(m, line) /\ m.expanded = tree[line].expanded
    <3> HIDE DEF v
    <3> QED BY <2>2, <2>3, CountedNode
  <2>5. /\ tree' = [tree EXCEPT ![line] = m] /\ carried' = v /\ phase' = "backup"
        /\ UNCHANGED <<world, game, line>>
    BY <1>4 DEF ReachTerminal
  <2> HIDE DEF m, v
  <2>6. TreeOk'
    BY <2>1, <2>4, <2>5, NodeReplaced
  <2>7. LineOk'
    BY <2>1, <2>3, <2>5 DEF LineOk
  <2> QED BY <2>6, <2>7 DEF SearchOk
<1>5. CASE ReachLeaf
  <2> DEFINE v == world.value[At(line)]
             o == Expand(tree[line], line)
             m == Counted(o, v)
  <2>1. TreeOk /\ line \in DOMAIN tree \ {<<>>}
    BY <1>5 DEF ReachLeaf, SearchOk, LineOk
  <2>2. NodeOk(tree[line], line) /\ line \in Seq(Codes) /\ ~tree[line].terminal /\ ValidEvaluation(line)
    BY <1>5, <2>1 DEF TreeOk, ReachLeaf
  <2>3. v \in Int
    BY <2>2, WorldSays
  <2>4. NodeOk(o, line) /\ o.expanded
    BY <2>2, ExpandedNode
  <2>5. NodeOk(m, line) /\ m.expanded
    <3> HIDE DEF v, o
    <3> QED BY <2>3, <2>4, CountedNode
  <2>6. /\ tree' = [tree EXCEPT ![line] = m] /\ carried' = v /\ phase' = "backup"
        /\ UNCHANGED <<world, game, line>>
    BY <1>5 DEF ReachLeaf
  <2> HIDE DEF m, v, o
  <2>7. TreeOk'
    BY <2>1, <2>5, <2>6, NodeReplaced
  <2>8. LineOk'
    BY <2>1, <2>3, <2>6 DEF LineOk
  <2> QED BY <2>7, <2>8 DEF SearchOk
<1>6. CASE Backup
  <2> DEFINE at == Front(line)
             c == Last(line)
             v == -carried
             m == Credited(tree[at], c, v)
  <2>1. /\ TreeOk /\ at \in DOMAIN tree /\ c \in DOMAIN tree[at].edges
        /\ NodeOk(tree[at], at) /\ carried \in Int
    BY <1>6, AboveLine DEF Backup
  <2>2. v \in Int
    BY <2>1
  <2>3. /\ tree' = [tree EXCEPT ![at] = m] /\ carried' = (IF at = <<>> THEN 0 ELSE v)
        /\ line' = at /\ phase' = (IF at = <<>> THEN "visit" ELSE "backup")
        /\ UNCHANGED <<world, game>>
    BY <1>6 DEF Backup, BackedUp
  <2>4. NodeOk(m, at) /\ m.expanded = tree[at].expanded
    <3> HIDE DEF v, at, c
    <3> QED BY <2>1, <2>2, BackedUpNode
  <2> HIDE DEF m, v, c, at
  <2>5. TreeOk'
    BY <2>1, <2>3, <2>4, NodeReplaced
  <2>6. carried' \in Int
    BY <2>2, <2>3
  <2>7. DOMAIN tree' = DOMAIN tree
    BY <2>3
  <2>8. LineOk'
    BY <2>1, <2>3, <2>6, <2>7 DEF LineOk
  <2> QED BY <2>5, <2>8 DEF SearchOk
<1>7. CASE VisitChild
  <2> DEFINE c == Head(plan)
             n == tree[<<>>]
             e == CountedEdge(n.edges[c], c)
             m == [n EXCEPT !.edges[c] = e]
  <2>1. c \in DOMAIN n.edges /\ c \in Codes
    BY <1>7, PlanIsLegal DEF VisitChild
  <2>2. TreeOk /\ <<>> \in DOMAIN tree /\ NodeOk(n, <<>>) /\ carried \in Int /\ line = <<>>
    BY <1>7 DEF VisitChild, SearchOk, TreeOk, LineOk
  <2>3. ChildValue(c) \in Int
    <3>1. <<c>> \in Seq(Codes)
      BY <2>1
    <3>2. world.value[At(<<c>>)] \in Int /\ TerminalValue(<<c>>) \in Int
      BY <3>1, WorldSays
    <3>3. -world.value[At(<<c>>)] \in Int /\ -TerminalValue(<<c>>) \in Int
      BY <3>2, SMT
    <3> QED BY <3>3 DEF ChildValue
  <2>4. EdgeOk(n.edges[c])
    BY <2>1, <2>2 DEF NodeOk, NodeIs
  <2>5. EdgeOk(e)
    <3> DEFINE f == n.edges[c]
    <3>1. EdgeOk(f)
      BY <2>4
    <3> HIDE DEF f, c
    <3>2. EdgeOk(CountedEdge(f, c))
      BY <2>3, <3>1 DEF EdgeOk, CountedEdge
    <3> QED BY <3>2 DEF f
  <2>6. /\ tree' = [tree EXCEPT ![<<>>] = m] /\ UNCHANGED <<world, game, line, carried, phase>>
        /\ phase = "visit"
    BY <1>7 DEF VisitChild
  <2> HIDE DEF e, c
  <2>7. /\ DOMAIN m = NodeFields /\ m.terminal = n.terminal /\ m.expanded = n.expanded
        /\ m.visits = n.visits /\ m.valueSum = n.valueSum /\ m.value = n.value
        /\ m.visitedPrior = n.visitedPrior /\ m.edges = [n.edges EXCEPT ![c] = e]
    BY <2>2 DEF NodeOk, NodeIs, NodeFields
  <2> HIDE DEF m, n
  <2>8. NodeOk(m, <<>>) /\ m.expanded = n.expanded
    <3>1. DOMAIN m.edges = DOMAIN n.edges /\ \A d \in DOMAIN m.edges : m.edges[d] = IF d = c THEN e ELSE n.edges[d]
      BY <2>1, <2>7
    <3>2. \A d \in DOMAIN m.edges : EdgeOk(m.edges[d])
      BY <2>2, <2>5, <3>1 DEF NodeOk, NodeIs
    <3> QED BY <2>2, <2>7, <3>1, <3>2 DEF NodeOk, NodeIs
  <2>9. TreeOk'
    BY <2>2, <2>6, <2>8, NodeReplaced DEF n
  <2>10. LineOk'
    BY <2>2, <2>6 DEF LineOk
  <2> QED BY <2>9, <2>10 DEF SearchOk
<1>8. CASE Halve
  <2>1. UNCHANGED <<world, game, tree, line, carried, phase>> /\ phase = "visit"
    BY <1>8 DEF Halve
  <2>2. TreeOk /\ LineOk
    BY <2>1 DEF SearchOk
  <2>3. TreeOk'
    BY <2>1, <2>2, TreeKept DEF TreeOk
  <2>4. LineOk'
    BY <2>1, <2>2 DEF LineOk
  <2> QED BY <2>3, <2>4 DEF SearchOk
<1>9. CASE RootThrows \/ LeafThrows \/ ChildThrows \/ Play
  <2>1. phase' \notin {"visit", "descend", "backup"}
    BY <1>9 DEF RootThrows, LeafThrows, ChildThrows, Play
  <2> QED BY <2>1 DEF SearchOk
<1> QED BY <1>1, <1>2, <1>3, <1>4, <1>5, <1>6, <1>7, <1>8, <1>9 DEF SelfPlayNext

-----------------------------------------------------------------------------
(* Prefixes of a line.                                                     *)

\* What it is for a line to be above another.
LEMMA PrefixIs ==
  ASSUME NEW l \in Seq(Codes), NEW m \in Seq(Codes)
  PROVE  IsPrefix(l, m) <=> Len(l) <= Len(m) /\ \A i \in 1 .. Len(l) : l[i] = m[i]
<1>1. Len(l) \in Nat /\ Len(m) \in Nat
  OBVIOUS
<1>2. SubSeq(l, 1, Len(l)) = l
  BY <1>1
<1>3. ASSUME Len(l) <= Len(m) PROVE SubSeq(m, 1, Len(l)) = l <=> \A i \in 1 .. Len(l) : l[i] = m[i]
  <2> DEFINE s == SubSeq(m, 1, Len(l))
  <2>1. \A i \in 1 .. Len(l) : m[i] \in Codes
    BY <1>1, <1>3
  <2>2. s \in Seq(Codes) /\ Len(s) = Len(l) /\ \A i \in 1 .. Len(l) : s[i] = m[i]
    BY <1>1, <1>3, <2>1
  <2> HIDE DEF s
  <2>3. s = l <=> \A i \in 1 .. Len(l) : l[i] = m[i]
    BY <1>1, <2>2
  <2> QED BY <2>3 DEF s
<1> QED BY <1>2, <1>3 DEF IsPrefix

\* A line is above itself.
LEMMA PrefixSelf == ASSUME NEW l \in Seq(Codes) PROVE IsPrefix(l, l)
BY PrefixIs

\* Above an extended line are that line and those above the line it extends.
LEMMA PrefixOfAppend ==
  ASSUME NEW l \in Seq(Codes), NEW m \in Seq(Codes), NEW c \in Codes
  PROVE  /\ IsPrefix(l, Append(m, c)) <=> IsPrefix(l, m) \/ l = Append(m, c)
         /\ IsPrefix(l, l)
         /\ IsPrefix(l, m) => Len(l) <= Len(m)
         /\ IsPrefix(l, <<>>) <=> l = <<>>
         /\ IsPrefix(l, m) /\ l # m => Len(l) < Len(m)
<1> DEFINE a == Append(m, c)
<1>1. /\ a \in Seq(Codes) /\ Len(a) = Len(m) + 1 /\ a[Len(m) + 1] = c
      /\ \A i \in 1 .. Len(m) : a[i] = m[i]
  OBVIOUS
<1> HIDE DEF a
<1>2. Len(l) \in Nat /\ Len(m) \in Nat
  OBVIOUS
<1>3. IsPrefix(l, a) <=> Len(l) <= Len(a) /\ \A i \in 1 .. Len(l) : l[i] = a[i]
  BY <1>1, PrefixIs
<1>4. IsPrefix(l, m) <=> Len(l) <= Len(m) /\ \A i \in 1 .. Len(l) : l[i] = m[i]
  BY PrefixIs
<1>5. ASSUME Len(l) <= Len(m) PROVE IsPrefix(l, a) <=> IsPrefix(l, m) \/ l = a
  <2>1. \A i \in 1 .. Len(l) : i \in 1 .. Len(m)
    BY <1>2, <1>5
  <2>2. l # a
    BY <1>1, <1>2, <1>5
  <2> QED BY <1>1, <1>2, <1>3, <1>4, <1>5, <2>1, <2>2
<1>6. ASSUME Len(l) = Len(m) + 1 PROVE IsPrefix(l, a) <=> IsPrefix(l, m) \/ l = a
  <2>1. (\A i \in 1 .. Len(l) : l[i] = a[i]) => l = a
    BY <1>1, <1>6
  <2>2. l = a => \A i \in 1 .. Len(l) : l[i] = a[i]
    OBVIOUS
  <2> QED BY <1>1, <1>2, <1>3, <1>4, <1>6, <2>1, <2>2
<1>7. ASSUME Len(l) > Len(m) + 1 PROVE IsPrefix(l, a) <=> IsPrefix(l, m) \/ l = a
  <2>1. l # a
    BY <1>1, <1>2, <1>7
  <2> QED BY <1>1, <1>2, <1>3, <1>4, <1>7, <2>1
<1>8. IsPrefix(l, Append(m, c)) <=> IsPrefix(l, m) \/ l = Append(m, c)
  BY <1>1, <1>2, <1>5, <1>6, <1>7 DEF a
<1>9. IsPrefix(l, l)
  BY <1>2, PrefixIs
<1>10. IsPrefix(l, <<>>) <=> l = <<>>
  <2>1. IsPrefix(l, <<>>) <=> Len(l) <= 0 /\ \A i \in 1 .. Len(l) : l[i] = <<>>[i]
    BY PrefixIs, RootLine
  <2>2. Len(l) <= 0 <=> l = <<>>
    BY <1>2
  <2>3. l = <<>> => \A i \in 1 .. Len(l) : l[i] = <<>>[i]
    OBVIOUS
  <2> QED BY <2>1, <2>2, <2>3
<1>11. IsPrefix(l, m) /\ l # m => Len(l) < Len(m)
  <2> SUFFICES ASSUME IsPrefix(l, m), Len(l) >= Len(m) PROVE l = m
    BY <1>2
  <2>1. Len(l) = Len(m) /\ \A i \in 1 .. Len(l) : l[i] = m[i]
    BY <1>2, <1>4
  <2> QED BY <2>1
<1> QED BY <1>4, <1>8, <1>9, <1>10, <1>11

\* A tree that is closed under taking moves back has every line to a line of its own.
LEMMA NothingBelowNew ==
  ASSUME GameOk, TreeOk, NEW l \in Seq(Codes), l \notin DOMAIN tree, NEW m \in DOMAIN tree
  PROVE  ~IsPrefix(l, m)
<1> DEFINE D == {n \in Nat : \E k \in DOMAIN tree : Len(k) = n /\ IsPrefix(l, k)}
<1> SUFFICES ASSUME IsPrefix(l, m) PROVE FALSE
  OBVIOUS
<1>1. DOMAIN tree \in SUBSET Seq(Codes)
  BY DEF TreeOk
<1>2. D \in SUBSET Nat /\ Len(m) \in D
  BY <1>1
<1>3. PICK d \in D : \A e \in D : d <= e
  <2> HIDE DEF D
  <2> QED BY <1>2, LeastNumber
<1>4. PICK k \in DOMAIN tree : Len(k) = d /\ IsPrefix(l, k)
  BY <1>3
<1>5. k \in Seq(Codes) /\ k # l
  BY <1>1, <1>4
<1>6. k # <<>>
  <2>1. ASSUME k = <<>> PROVE FALSE
    <3>1. IsPrefix(l, <<>>)
      BY <1>4, <2>1
    <3>2. Len(l) <= Len(<<>>)
      BY <3>1 DEF IsPrefix
    <3>3. l = <<>>
      BY <3>2
    <3> QED BY <3>3, <1>5, <2>1
  <2> QED BY <2>1
<1>7. /\ Front(k) \in DOMAIN tree /\ Front(k) \in Seq(Codes) /\ Last(k) \in Codes
      /\ k = Append(Front(k), Last(k)) /\ Len(Front(k)) = Len(k) - 1
  <2>1. Front(k) \in DOMAIN tree
    BY <1>4, <1>6 DEF TreeOk
  <2> QED BY <2>1, <1>5, <1>6, LineEnds
<1>8. IsPrefix(l, Front(k))
  <2> DEFINE f == Front(k)
             c == Last(k)
  <2>1. f \in Seq(Codes) /\ c \in Codes /\ IsPrefix(l, Append(f, c)) /\ l # Append(f, c)
    BY <1>4, <1>5, <1>7
  <2> HIDE DEF f, c
  <2>2. IsPrefix(l, f)
    BY <2>1, PrefixOfAppend
  <2> QED BY <2>2 DEF f
<1>9. Len(Front(k)) \in D
  BY <1>7, <1>8
<1>10. d <= Len(k) - 1
  BY <1>3, <1>7, <1>9
<1> QED BY <1>4, <1>5, <1>10

-----------------------------------------------------------------------------
(* Values in the frame of a node some plies above.                         *)

\* A value changes its sign once per ply.
LEMMA Signs ==
  ASSUME NEW n \in Nat, NEW v \in Int, NEW w \in Int
  PROVE  /\ Signed(n, v) \in Int /\ Signed(0, v) = v /\ Signed(n, 0) = 0
         /\ Signed(n + 1, -v) = Signed(n, v) /\ Signed(1, v) = -v
         /\ Signed(n, v + w) = Signed(n, v) + Signed(n, w)
<1>1. n % 2 \in {0, 1} /\ 0 % 2 = 0 /\ 1 % 2 = 1
  BY SMT
<1>2. (n + 1) % 2 = IF n % 2 = 0 THEN 1 ELSE 0
  BY SMT
<1>3. -v = 0 - v /\ -v \in Int /\ 0 - v \in Int /\ v + w \in Int
  OBVIOUS
<1>4. Signed(n, v) \in Int
  BY <1>3 DEF Signed
<1>5. Signed(n, 0) = 0
  BY DEF Signed
<1>6. Signed(0, v) = v /\ Signed(1, v) = -v
  BY <1>1, <1>3 DEF Signed
<1>7. Signed(n + 1, -v) = Signed(n, v)
  BY <1>2, <1>3 DEF Signed
<1>8. Signed(n, v + w) = Signed(n, v) + Signed(n, w)
  BY <1>3 DEF Signed
<1> QED BY <1>4, <1>5, <1>6, <1>7, <1>8

-----------------------------------------------------------------------------
(* The balance of a node, as the tree changes.                             *)

Nodes(t) ==
  /\ DOMAIN t \in SUBSET Seq(Codes) /\ IsFiniteSet(DOMAIN t)
  /\ \A m \in DOMAIN t : NodeOk(t[m], m)

\* What the nodes of a tree have sent and given are numbers.
LEMMA BalanceTyped ==
  ASSUME NEW t, Nodes(t), NEW w, NEW l \in Seq(Codes)
  PROVE  /\ BelowIn(t, l) \in SUBSET DOMAIN t /\ IsFiniteSet(BelowIn(t, l))
         /\ \A m \in DOMAIN t : /\ Sent(t[m], m) \in Int /\ Given(t[m], m, w[m]) \in Int
                                /\ AllSent(t)[m] = Sent(t[m], m)
         /\ \A m \in BelowIn(t, l) :
              /\ AllSent(t)[m] \in Int /\ AllGiven(t, w, l)[m] \in Int
              /\ Len(m) - Len(l) \in Nat
              /\ AllGiven(t, w, l)[m] = Signed(Len(m) - Len(l), Given(t[m], m, w[m]))
<1>1. BelowIn(t, l) \in SUBSET DOMAIN t /\ IsFiniteSet(BelowIn(t, l))
  <2>1. BelowIn(t, l) \in SUBSET DOMAIN t
    BY DEF BelowIn
  <2> QED BY <2>1, FS_Subset DEF Nodes
<1>2. ASSUME NEW m \in DOMAIN t
      PROVE  Sent(t[m], m) \in Int /\ Given(t[m], m, w[m]) \in Int /\ AllSent(t)[m] = Sent(t[m], m)
  <2>1. t[m].visits \in Nat /\ t[m].value \in Int /\ Unit \in Nat
    BY SearchAssumption DEF Nodes, NodeOk, NodeIs
  <2>2. -Unit * t[m].visits \in Int
    BY <2>1
  <2>3. Given(t[m], m, w[m]) \in Int
    BY <2>1, <2>2 DEF Given
  <2> QED BY <2>1, <2>3 DEF Sent, AllSent
<1>3. ASSUME NEW m \in BelowIn(t, l)
      PROVE  /\ AllSent(t)[m] \in Int /\ AllGiven(t, w, l)[m] \in Int
             /\ Len(m) - Len(l) \in Nat
             /\ AllGiven(t, w, l)[m] = Signed(Len(m) - Len(l), Given(t[m], m, w[m]))
  <2>1. m \in DOMAIN t /\ m \in Seq(Codes) /\ IsPrefix(l, m)
    BY DEF BelowIn, Nodes
  <2>2. Len(m) - Len(l) \in Nat
    <3>1. Len(l) <= Len(m)
      BY <2>1 DEF IsPrefix
    <3> QED BY <2>1, <3>1
  <2>3. AllGiven(t, w, l)[m] = Signed(Len(m) - Len(l), Given(t[m], m, w[m]))
    BY <2>1 DEF AllGiven
  <2>4. Signed(Len(m) - Len(l), Given(t[m], m, w[m])) \in Int
    <3> DEFINE v == Given(t[m], m, w[m])
               n == Len(m) - Len(l)
    <3>1. v \in Int /\ n \in Nat
      BY <1>2, <2>1, <2>2
    <3> HIDE DEF v, n
    <3>2. Signed(n, v) \in Int
      BY <3>1, Signs
    <3> QED BY <3>2 DEF v, n
  <2> QED BY <1>2, <2>1, <2>2, <2>3, <2>4
<1> QED BY <1>1, <1>2, <1>3

\* Nothing is sent, and what a node has and is still owed stays what it was.
LEMMA BalanceKept ==
  ASSUME NEW t, Nodes(t), NEW t2, Nodes(t2), NEW w, NEW l \in Seq(Codes),
         DOMAIN t2 = DOMAIN t,
         \A m \in DOMAIN t : Sent(t2[m], m) = Sent(t[m], m) /\ Given(t2[m], m, w[m]) = Given(t[m], m, w[m]),
         NEW late, NEW owed, NEW late2, NEW owed2,
         t2[l].visits + late2 = t[l].visits + late, t2[l].valueSum + owed2 = t[l].valueSum + owed,
         Balanced(t, w, l, late, owed)
  PROVE  Balanced(t2, w, l, late2, owed2)
<1> DEFINE S == BelowIn(t, l)
<1>1. BelowIn(t2, l) = S
  BY DEF BelowIn
<1> HIDE DEF S
<1>a. /\ S \in SUBSET DOMAIN t /\ IsFiniteSet(S)
      /\ \A m \in S : AllGiven(t, w, l)[m] = Signed(Len(m) - Len(l), Given(t[m], m, w[m]))
  BY BalanceTyped DEF S
<1>b. \A m \in S : AllGiven(t2, w, l)[m] = Signed(Len(m) - Len(l), Given(t2[m], m, w[m]))
  BY <1>1, BalanceTyped
<1>c. \A m \in DOMAIN t : AllSent(t2)[m] = AllSent(t)[m]
  BY DEF AllSent
<1>2. \A m \in S : AllSent(t2)[m] = AllSent(t)[m] /\ AllGiven(t2, w, l)[m] = AllGiven(t, w, l)[m]
  BY <1>a, <1>b, <1>c
<1>3. SumFunctionOnSet(AllSent(t), S) = SumFunctionOnSet(AllSent(t2), S)
  BY <1>a, <1>2, SumSame
<1>4. SumFunctionOnSet(AllGiven(t, w, l), S) = SumFunctionOnSet(AllGiven(t2, w, l), S)
  BY <1>a, <1>2, SumSame
<1> QED BY <1>1, <1>3, <1>4 DEF Balanced, S

\* A node that has sent nothing yet is added.
LEMMA BalanceGrows ==
  ASSUME NEW t, Nodes(t), NEW t2, Nodes(t2), NEW w, NEW l \in DOMAIN t,
         NEW new, new \notin DOMAIN t, DOMAIN t2 = DOMAIN t \cup {new},
         \A m \in DOMAIN t : Sent(t2[m], m) = Sent(t[m], m) /\ Given(t2[m], m, w[m]) = Given(t[m], m, w[m]),
         Sent(t2[new], new) = 0, Given(t2[new], new, w[new]) = 0,
         t2[l].visits = t[l].visits, t2[l].valueSum = t[l].valueSum,
         NEW late, NEW owed, Balanced(t, w, l, late, owed)
  PROVE  Balanced(t2, w, l, late, owed)
<1> DEFINE S == BelowIn(t, l)
           S2 == BelowIn(t2, l)
           f == AllSent(t)
           f2 == AllSent(t2)
           g == AllGiven(t, w, l)
           g2 == AllGiven(t2, w, l)
<1>1. S2 = S \/ S2 = S \cup {new}
  BY DEF BelowIn
<1>2. l \in Seq(Codes)
  BY DEF Nodes
<1>3. IsFiniteSet(S) /\ IsFiniteSet(S2) /\ S \in SUBSET S2 /\ new \notin S
  <2>1. IsFiniteSet(S) /\ S \in SUBSET DOMAIN t
    BY <1>2, BalanceTyped
  <2>2. IsFiniteSet(S2)
    BY <1>2, BalanceTyped
  <2> QED BY <1>1, <2>1, <2>2
<1>4. \A m \in S : f2[m] = f[m] /\ g2[m] = g[m]
  <2>1. S \in SUBSET S2
    BY <1>3
  <2>2. \A m \in S : f[m] = Sent(t[m], m) /\ g[m] = Signed(Len(m) - Len(l), Given(t[m], m, w[m])) /\ m \in DOMAIN t
    <3>1. S \in SUBSET DOMAIN t
      BY <1>2, BalanceTyped
    <3>2. \A m \in DOMAIN t : f[m] = Sent(t[m], m)
      BY <1>2, BalanceTyped
    <3>3. \A m \in S : g[m] = Signed(Len(m) - Len(l), Given(t[m], m, w[m]))
      BY <1>2, BalanceTyped
    <3> HIDE DEF S, f, g
    <3> QED BY <3>1, <3>2, <3>3
  <2>3. \A m \in S2 : f2[m] = Sent(t2[m], m) /\ g2[m] = Signed(Len(m) - Len(l), Given(t2[m], m, w[m]))
    <3>1. S2 \in SUBSET DOMAIN t2
      BY <1>2, BalanceTyped
    <3>2. \A m \in DOMAIN t2 : f2[m] = Sent(t2[m], m)
      BY <1>2, BalanceTyped
    <3>3. \A m \in S2 : g2[m] = Signed(Len(m) - Len(l), Given(t2[m], m, w[m]))
      BY <1>2, BalanceTyped
    <3> HIDE DEF S2, f2, g2
    <3> QED BY <3>1, <3>2, <3>3
  <2> HIDE DEF S, S2, f, f2, g, g2
  <2> QED BY <2>1, <2>2, <2>3
<1>5. \A m \in S2 : f2[m] \in Int /\ g2[m] \in Int
  BY <1>2, BalanceTyped
<1>6. new \in S2 => f2[new] = 0 /\ g2[new] = 0
  <2> SUFFICES ASSUME new \in S2 PROVE f2[new] = 0 /\ g2[new] = 0
    OBVIOUS
  <2>1. /\ f2[new] = Sent(t2[new], new) /\ Len(new) - Len(l) \in Nat
        /\ g2[new] = Signed(Len(new) - Len(l), Given(t2[new], new, w[new]))
    BY <1>2, BalanceTyped
  <2>2. Signed(Len(new) - Len(l), 0) = 0
    BY <2>1, Signs
  <2> QED BY <2>1, <2>2
<1> HIDE DEF S, S2, f, f2, g, g2
<1>7. SumFunctionOnSet(f, S) = SumFunctionOnSet(f2, S2)
  <2>1. SumFunctionOnSet(f, S) = SumFunctionOnSet(f2, S)
    BY <1>3, <1>4, SumSame
  <2>2. SumFunctionOnSet(f2, S2) = SumFunctionOnSet(f2, S)
    <3>1. \A m \in S2 \ S : f2[m] = 0
      BY <1>1, <1>6
    <3>2. \A m \in S2 : f2[m] \in Int
      BY <1>5
    <3> QED BY <1>3, <3>1, <3>2, SumZeros
  <2> QED BY <2>1, <2>2
<1>8. SumFunctionOnSet(g, S) = SumFunctionOnSet(g2, S2)
  <2>1. SumFunctionOnSet(g, S) = SumFunctionOnSet(g2, S)
    BY <1>3, <1>4, SumSame
  <2>2. SumFunctionOnSet(g2, S2) = SumFunctionOnSet(g2, S)
    <3>1. \A m \in S2 \ S : g2[m] = 0
      BY <1>1, <1>6
    <3>2. \A m \in S2 : g2[m] \in Int
      BY <1>5
    <3> QED BY <1>3, <3>1, <3>2, SumZeros
  <2> QED BY <2>1, <2>2
<1> QED BY <1>7, <1>8 DEF Balanced, S, S2, f, f2, g, g2

\* One node sends a value: everyone above it has it or is owed it.
LEMMA BalanceArrives ==
  ASSUME NEW t, Nodes(t), NEW t2, Nodes(t2), NEW w, NEW l \in DOMAIN t,
         NEW at \in DOMAIN t, DOMAIN t2 = DOMAIN t, NEW v \in Int,
         \A m \in DOMAIN t : m # at => t2[m] = t[m],
         Sent(t2[at], at) = Sent(t[at], at) + 1, Given(t2[at], at, w[at]) = Given(t[at], at, w[at]) + v,
         NEW late, NEW owed, NEW late2, NEW owed2,
         t2[l].visits + late2 = t[l].visits + late + (IF IsPrefix(l, at) THEN 1 ELSE 0),
         t2[l].valueSum + owed2 = t[l].valueSum + owed
                                  + (IF IsPrefix(l, at) THEN Signed(Len(at) - Len(l), v) ELSE 0),
         t[l].visits + late \in Int, t[l].valueSum + owed \in Int,
         Balanced(t, w, l, late, owed)
  PROVE  Balanced(t2, w, l, late2, owed2)
<1> DEFINE S == BelowIn(t, l)
           f == AllSent(t)
           f2 == AllSent(t2)
           g == AllGiven(t, w, l)
           g2 == AllGiven(t2, w, l)
<1>1. BelowIn(t2, l) = S
  BY DEF BelowIn
<1>2. l \in Seq(Codes) /\ at \in Seq(Codes)
  BY DEF Nodes
<1>3. /\ IsFiniteSet(S) /\ (at \in S <=> IsPrefix(l, at))
      /\ \A m \in S : f[m] \in Int /\ f2[m] \in Int /\ g[m] \in Int /\ g2[m] \in Int
      /\ \A m \in S \ {at} : f2[m] = f[m] /\ g2[m] = g[m]
  <2>1. IsFiniteSet(S) /\ (at \in S <=> IsPrefix(l, at))
    BY <1>2, BalanceTyped DEF BelowIn
  <2>2. \A m \in S : /\ f[m] \in Int /\ g[m] \in Int /\ m \in DOMAIN t
                     /\ f[m] = Sent(t[m], m) /\ g[m] = Signed(Len(m) - Len(l), Given(t[m], m, w[m]))
    BY <1>2, BalanceTyped
  <2>3. \A m \in S : /\ f2[m] \in Int /\ g2[m] \in Int
                     /\ f2[m] = Sent(t2[m], m) /\ g2[m] = Signed(Len(m) - Len(l), Given(t2[m], m, w[m]))
    BY <1>1, <1>2, BalanceTyped
  <2> HIDE DEF S, f, f2, g, g2
  <2>4. \A m \in S \ {at} : f2[m] = f[m] /\ g2[m] = g[m]
    BY <2>2, <2>3
  <2> QED BY <2>1, <2>2, <2>3, <2>4
<1>4. at \in S => /\ f2[at] = f[at] + 1
                  /\ g2[at] = g[at] + Signed(Len(at) - Len(l), v) /\ Signed(Len(at) - Len(l), v) \in Int
  <2> SUFFICES ASSUME at \in S PROVE /\ f2[at] = f[at] + 1
                  /\ g2[at] = g[at] + Signed(Len(at) - Len(l), v) /\ Signed(Len(at) - Len(l), v) \in Int
    OBVIOUS
  <2> DEFINE n == Len(at) - Len(l)
             x == Given(t[at], at, w[at])
  <2>1. f[at] = Sent(t[at], at) /\ g[at] = Signed(n, x) /\ n \in Nat /\ x \in Int
    <3>1. f[at] = Sent(t[at], at) /\ x \in Int
      BY <1>2, BalanceTyped
    <3>2. g[at] = Signed(n, x) /\ n \in Nat
      BY <1>2, BalanceTyped
    <3> QED BY <3>1, <3>2
  <2>2. f2[at] = Sent(t2[at], at) /\ g2[at] = Signed(n, Given(t2[at], at, w[at]))
    BY <1>1, <1>2, BalanceTyped
  <2>3. Given(t2[at], at, w[at]) = x + v
    OBVIOUS
  <2> HIDE DEF n, x, f, f2, g, g2, S
  <2>4. Signed(n, x + v) = Signed(n, x) + Signed(n, v) /\ Signed(n, v) \in Int
    BY <2>1, Signs
  <2> QED BY <2>1, <2>2, <2>3, <2>4 DEF n
<1> HIDE DEF S, f, f2, g, g2
<1>5. SumFunctionOnSet(f2, S) = SumFunctionOnSet(f, S) + (IF at \in S THEN 1 ELSE 0)
  <2>1. CASE at \in S
    <3>1. SumFunctionOnSet(f2, S) = SumFunctionOnSet(f, S) + (f2[at] - f[at])
      <4>1. /\ IsFiniteSet(S) /\ at \in S
            /\ \A m \in S : f[m] \in Int /\ f2[m] \in Int
            /\ \A m \in S \ {at} : f[m] = f2[m]
        BY <1>3, <2>1
      <4> QED BY ONLY <4>1, SumChange
    <3>2. f2[at] - f[at] = 1
      BY <1>3, <1>4, <2>1
    <3> QED BY <2>1, <3>1, <3>2
  <2>2. CASE at \notin S
    <3>1. SumFunctionOnSet(f2, S) = SumFunctionOnSet(f, S)
      BY <1>3, <2>2, SumSame
    <3>2. SumFunctionOnSet(f, S) \in Int
      BY <1>3, SumInt
    <3> QED BY <2>2, <3>1, <3>2
  <2> QED BY <2>1, <2>2
<1>6. SumFunctionOnSet(g2, S) = SumFunctionOnSet(g, S) + (IF at \in S THEN Signed(Len(at) - Len(l), v) ELSE 0)
  <2>1. CASE at \in S
    <3>1. SumFunctionOnSet(g2, S) = SumFunctionOnSet(g, S) + (g2[at] - g[at])
      <4>1. /\ IsFiniteSet(S) /\ at \in S
            /\ \A m \in S : g[m] \in Int /\ g2[m] \in Int
            /\ \A m \in S \ {at} : g[m] = g2[m]
        BY <1>3, <2>1
      <4> QED BY ONLY <4>1, SumChange
    <3>2. g2[at] - g[at] = Signed(Len(at) - Len(l), v)
      BY <1>3, <1>4, <2>1
    <3> QED BY <2>1, <3>1, <3>2
  <2>2. CASE at \notin S
    <3>1. SumFunctionOnSet(g2, S) = SumFunctionOnSet(g, S)
      BY <1>3, <2>2, SumSame
    <3>2. SumFunctionOnSet(g, S) \in Int
      BY <1>3, SumInt
    <3> QED BY <2>2, <3>1, <3>2
  <2> QED BY <2>1, <2>2
<1>7. /\ t[l].visits + late = SumFunctionOnSet(f, S)
      /\ t[l].valueSum + owed = SumFunctionOnSet(g, S)
  BY DEF Balanced, S, f, g
<1>8. /\ t2[l].visits + late2 = SumFunctionOnSet(f2, S)
      /\ t2[l].valueSum + owed2 = SumFunctionOnSet(g2, S)
  BY <1>3, <1>5, <1>6, <1>7
<1> QED BY <1>1, <1>8 DEF Balanced, f2, g2

\* The nodes of the tree that a search keeps are fit for summing over.
LEMMA NodesOfTree ==
  ASSUME GameOk, TreeOk
  PROVE  Nodes(tree) /\ (UNCHANGED <<world, game>> /\ TreeOk' => Nodes(tree')) /\ Won \in [Seq(Codes) -> BOOLEAN]
<1>1. Nodes(tree)
  BY DEF TreeOk, Nodes
<1>2. UNCHANGED <<world, game>> /\ TreeOk' => Nodes(tree')
  BY DEF TreeOk, Nodes, NodeOk, LegalAfter, At, Ongoing
<1>3. Won \in [Seq(Codes) -> BOOLEAN]
  BY DEF Won
<1> QED BY <1>1, <1>2, <1>3

\* Which lines are won is fixed while the game is.
LEMMA WonKept == ASSUME UNCHANGED <<world, game>> PROVE Won' = Won
BY DEF Won, At

\* The books of a search that starts.
LEMMA BooksOpen == ASSUME GameOk, Search PROVE Books'
<1> DEFINE n == tree'[<<>>]
           w == Won'
<1>1. /\ DOMAIN tree' = {<<>>} /\ n.expanded /\ ~n.terminal
      /\ n.visits = 0 /\ n.valueSum = 0 /\ n.visitedPrior = 0
      /\ \A c \in DOMAIN n.edges : n.edges[c].visits = 0 /\ n.edges[c].valueSum = 0
      /\ UNCHANGED <<world, setting, game>> /\ TreeOk' /\ NodeOk(n, <<>>)
  BY SearchStarts
<1>2. phase' = "visit" /\ line' = <<>>
  BY DEF Search
<1>3. NoneFresh'
  BY <1>1 DEF NoneFresh
<1>4. NodeAccount(<<>>)'
  <2>1. BelowIn(tree', <<>>) = {<<>>}
    <3>1. IsPrefix(<<>>, <<>>)
      BY RootLine, PrefixSelf
    <3> QED BY <1>1, <3>1 DEF BelowIn
  <2>2. AllSent(tree')[<<>>] = 0
    BY <1>1 DEF AllSent, Sent
  <2>3. AllGiven(tree', w, <<>>)[<<>>] = 0
    <3>1. Given(n, <<>>, w[<<>>]) = 0
      BY <1>1 DEF Given
    <3>2. AllGiven(tree', w, <<>>)[<<>>] = Signed(Len(<<>>) - Len(<<>>), Given(n, <<>>, w[<<>>]))
      BY <1>1 DEF AllGiven
    <3>3. Len(<<>>) - Len(<<>>) = 0
      OBVIOUS
    <3>4. Signed(0, 0) = 0
      BY Signs
    <3> QED BY <3>1, <3>2, <3>3, <3>4
  <2>4. IsFiniteSet({<<>>})
    BY FS_Singleton
  <2>5. SumFunctionOnSet(AllSent(tree'), {<<>>}) = 0 /\ SumFunctionOnSet(AllGiven(tree', w, <<>>), {<<>>}) = 0
    <3> DEFINE f == AllSent(tree')
               g == AllGiven(tree', w, <<>>)
    <3>1. \A m \in {<<>>} : f[m] \in Nat /\ f[m] = 0 /\ g[m] \in Nat /\ g[m] = 0
      BY <2>2, <2>3
    <3> HIDE DEF f, g
    <3>2. SumFunctionOnSet(f, {<<>>}) = 0
      BY <2>4, <3>1, SumNat
    <3>3. SumFunctionOnSet(g, {<<>>}) = 0
      BY <2>4, <3>1, SumNat
    <3> QED BY <3>2, <3>3 DEF f, g
  <2>6. Balanced(tree', w, <<>>, 0, 0)
    <3>1. tree'[<<>>].visits = 0 /\ tree'[<<>>].valueSum = 0
      BY <1>1
    <3> DEFINE f == AllSent(tree')
               g == AllGiven(tree', w, <<>>)
    <3>2. Balanced(tree', w, <<>>, 0, 0) <=> /\ tree'[<<>>].visits + 0 = SumFunctionOnSet(f, {<<>>})
                                             /\ tree'[<<>>].valueSum + 0 = SumFunctionOnSet(g, {<<>>})
      BY <2>1 DEF Balanced
    <3>3. SumFunctionOnSet(f, {<<>>}) = 0 /\ SumFunctionOnSet(g, {<<>>}) = 0
      BY <2>5
    <3> HIDE DEF f, g, w
    <3> QED BY <3>1, <3>2, <3>3
  <2>7. Late(<<>>)' = 0 /\ Owed(<<>>)' = 0
    BY <1>2 DEF Late, Owed, Pending
  <2> QED BY <2>6, <2>7 DEF NodeAccount
<1>5. \A c \in DOMAIN n.edges : Append(<<>>, c) \notin DOMAIN tree'
  <2>1. ASSUME NEW c PROVE Append(<<>>, c) # <<>>
    OBVIOUS
  <2> QED BY <1>1, <2>1
<1>6. PriorAccount(<<>>)'
  <2>1. Children(<<>>)' = {}
    BY <1>5 DEF Children
  <2>2. SumFunctionOnSet(PriorsOf(n), {}) = 0
    BY FS_EmptySet, SumSteps
  <2> QED BY <1>1, <2>1, <2>2 DEF PriorAccount
<1>7. EdgeAccount(<<>>)'
  BY <1>1, <1>5 DEF EdgeAccount
<1> HIDE DEF n, w
<1>8. \A l \in DOMAIN tree' : l = <<>>
  BY <1>1
<1> QED BY <1>3, <1>4, <1>6, <1>7, <1>8 DEF Books

\* Taking an edge sends nothing; the first time, it makes a child with empty books.
LEMMA BooksTaken ==
  ASSUME GameOk, TreeOk, Books, UNCHANGED <<world, game>>,
         NEW at \in DOMAIN tree, tree[at].expanded, NEW c \in DOMAIN tree[at].edges,
         phase \in {"visit", "descend"}, phase = "descend" => at = line,
         tree' = TakeEdge(tree, at, c), line' = Append(at, c), phase' = "descend"
  PROVE  Books'
<1> DEFINE child == Append(at, c)
           new == child \notin DOMAIN tree
           n == tree[at]
<1>1. /\ child \in Seq(Codes) /\ child # <<>> /\ Front(child) = at /\ Last(child) = c
      /\ DOMAIN tree' = DOMAIN tree \cup {child}
      /\ \A l \in DOMAIN tree : l # at => tree'[l] = tree[l]
      /\ new => tree'[child] = CreateNode(child)
      /\ NodeOk(tree'[at], at) /\ tree'[at].expanded /\ ~tree'[at].terminal /\ tree'[at].edges = n.edges
      /\ tree'[at].visits = n.visits /\ tree'[at].valueSum = n.valueSum /\ tree'[at].value = n.value
      /\ tree'[at].visitedPrior = n.visitedPrior + (IF n.edges[c].visits = 0 THEN n.edges[c].prior ELSE 0)
  BY EdgeTaken
<1>2. at \in Seq(Codes) /\ NodeOk(n, at) /\ n.expanded /\ ~n.terminal /\ EdgeOk(n.edges[c]) /\ n.visitedPrior \in Nat
  <2>1. at \in Seq(Codes) /\ NodeOk(n, at)
    BY DEF TreeOk
  <2> QED BY <2>1 DEF NodeOk, NodeIs
<1>3. c \in Codes
  BY <1>2, WorldSays DEF NodeOk, NodeIs
<1>4. TreeOk'
  BY EdgeKept
<1>5. Nodes(tree) /\ Nodes(tree') /\ Won' = Won
  BY <1>4, NodesOfTree, WonKept
<1>6. \A l \in DOMAIN tree : NodeAccount(l) /\ PriorAccount(l) /\ EdgeAccount(l)
  BY DEF Books
<1>7. \A l \in DOMAIN tree \ {<<>>} : tree[l].visits = 0 => phase = "descend" /\ l = line /\ ~tree[l].expanded
  BY DEF Books, NoneFresh
<1>8. \A l \in DOMAIN tree \ {<<>>} : tree[l].visits # 0 /\ (tree[l].terminal \/ tree[l].expanded)
  <2> SUFFICES ASSUME NEW l \in DOMAIN tree \ {<<>>} PROVE tree[l].visits # 0
    BY DEF Books, NoneFresh
  <2> QED BY <1>2, <1>7
<1>9. IF new THEN n.edges[c].visits = 0 /\ n.edges[c].valueSum = 0
      ELSE n.edges[c].visits = tree[child].visits /\ n.edges[c].visits # 0
  <2>1. ~Lag(child)
    BY DEF Lag
  <2>2. IF new THEN n.edges[c].visits = 0 /\ n.edges[c].valueSum = 0
        ELSE n.edges[c].visits + 0 = tree[child].visits
    BY <1>6, <2>1 DEF EdgeAccount
  <2>3. ~new => tree[child].visits # 0
    BY <1>1, <1>8
  <2> QED BY <1>2, <2>2, <2>3 DEF EdgeOk
<1>10. \A l \in DOMAIN tree : /\ tree'[l].visits = tree[l].visits /\ tree'[l].valueSum = tree[l].valueSum
                              /\ (tree'[l].terminal <=> tree[l].terminal) /\ (tree'[l].expanded <=> tree[l].expanded)
                              /\ tree'[l].value = tree[l].value /\ tree'[l].edges = tree[l].edges
                              /\ l # at => tree'[l].visitedPrior = tree[l].visitedPrior
  <2> HIDE DEF child, new
  <2> TAKE l \in DOMAIN tree
  <2>1. CASE l = at
    BY <1>1, <1>2, <2>1
  <2>2. CASE l # at
    BY <1>1, <2>2
  <2> QED BY <2>1, <2>2
<1>11. new => /\ tree'[child].visits = 0 /\ tree'[child].valueSum = 0 /\ ~tree'[child].expanded
              /\ tree'[child].visitedPrior = 0 /\ DOMAIN tree'[child].edges = {}
              /\ Sent(tree'[child], child) = 0 /\ Given(tree'[child], child, Won[child]) = 0
  <2> SUFFICES ASSUME new
               PROVE  /\ tree'[child].visits = 0 /\ tree'[child].valueSum = 0 /\ ~tree'[child].expanded
                      /\ tree'[child].visitedPrior = 0 /\ DOMAIN tree'[child].edges = {}
                      /\ Sent(tree'[child], child) = 0 /\ Given(tree'[child], child, Won[child]) = 0
    OBVIOUS
  <2> DEFINE o == CreateNode(child)
  <2>1. tree'[child] = o
    BY <1>1
  <2>2. NodeOk(o, child) /\ o.visits = 0 /\ o.valueSum = 0 /\ ~o.expanded /\ o.visitedPrior = 0
    BY <1>1, NewNode
  <2> HIDE DEF o
  <2>3. DOMAIN o.edges = {}
    BY <2>2 DEF NodeOk, NodeIs
  <2>4. Unit \in Nat /\ -Unit \in Int
    BY SearchAssumption
  <2>5. -Unit * 0 = 0
    BY <2>4
  <2> HIDE DEF child, new
  <2>6. Sent(o, child) = 0 /\ Given(o, child, Won[child]) = 0
    BY <2>2, <2>5 DEF Sent, Given
  <2> QED BY <2>1, <2>2, <2>3, <2>6
<1> HIDE DEF child, new
<1>12. NoneFresh'
  <2> SUFFICES ASSUME NEW l \in DOMAIN tree' \ {<<>>}
               PROVE IF tree'[l].visits = 0 THEN phase' = "descend" /\ l = line' /\ ~tree'[l].expanded
                     ELSE tree'[l].terminal \/ tree'[l].expanded
    BY DEF NoneFresh
  <2>1. CASE l \in DOMAIN tree
    BY <1>8, <1>10, <2>1
  <2>2. CASE l \notin DOMAIN tree
    <3>1. l = child /\ new
      BY <1>1, <2>2 DEF new
    <3> QED BY <1>11, <3>1 DEF child
  <2> QED BY <2>1, <2>2
<1>13. \A l : Late(l) = 0 /\ Owed(l) = 0
  BY DEF Late, Owed, Pending
<1>14. ASSUME NEW l PROVE Late(l)' = 0 /\ Owed(l)' = 0
  BY DEF Late, Owed, Pending
<1>15. ASSUME NEW l \in DOMAIN tree' PROVE NodeAccount(l)'
  <2>1. \A m \in DOMAIN tree : /\ Sent(tree'[m], m) = Sent(tree[m], m)
                               /\ Given(tree'[m], m, Won[m]) = Given(tree[m], m, Won[m])
    BY <1>10 DEF Sent, Given
  <2>2. ASSUME l \in DOMAIN tree PROVE Balanced(tree', Won, l, 0, 0)
    <3>1. Balanced(tree, Won, l, 0, 0)
      BY <1>6, <1>13, <2>2 DEF NodeAccount
    <3>2. l \in Seq(Codes)
      BY <1>5, <2>2 DEF Nodes
    <3>3. tree'[l].visits = tree[l].visits /\ tree'[l].valueSum = tree[l].valueSum
      BY <1>10, <2>2
    <3>4. CASE new
      <4>1. child \notin DOMAIN tree /\ DOMAIN tree' = DOMAIN tree \cup {child}
        BY <1>1, <3>4 DEF new
      <4>2. Sent(tree'[child], child) = 0 /\ Given(tree'[child], child, Won[child]) = 0
        BY <1>11, <3>4
      <4> QED BY <1>5, <2>1, <2>2, <3>1, <3>3, <4>1, <4>2, BalanceGrows
    <3>5. CASE ~new
      <4>1. DOMAIN tree' = DOMAIN tree
        BY <1>1, <3>5 DEF new
      <4>2. tree'[l].visits + 0 = tree[l].visits + 0 /\ tree'[l].valueSum + 0 = tree[l].valueSum + 0
        BY <3>3
      <4> QED BY <1>5, <2>1, <3>1, <3>2, <4>1, <4>2, BalanceKept
    <3> QED BY <3>4, <3>5
  <2>3. ASSUME l \notin DOMAIN tree PROVE Balanced(tree', Won, l, 0, 0)
    <3>1. l = child /\ new
      BY <1>1, <2>3 DEF new
    <3>2. BelowIn(tree', l) = {l}
      <4>1. \A m \in DOMAIN tree : ~IsPrefix(l, m)
        BY <1>1, <2>3, <3>1, NothingBelowNew
      <4>2. IsPrefix(l, l)
        BY <1>1, <3>1, PrefixSelf
      <4> QED BY <1>1, <3>1, <4>1, <4>2 DEF BelowIn
    <3>3. AllSent(tree')[l] = 0
      BY <1>11, <3>1 DEF AllSent
    <3>4. AllGiven(tree', Won, l)[l] = 0
      <4>1. AllGiven(tree', Won, l)[l] = Signed(Len(l) - Len(l), Given(tree'[l], l, Won[l]))
        BY DEF AllGiven
      <4>2. Len(l) - Len(l) = 0
        BY <1>1, <3>1
      <4>3. Signed(0, 0) = 0
        BY Signs
      <4> QED BY <1>11, <3>1, <4>1, <4>2, <4>3
    <3> DEFINE f == AllSent(tree')
               g == AllGiven(tree', Won, l)
               L == {l}
    <3>5. IsFiniteSet(L) /\ \A m \in L : f[m] \in Nat /\ f[m] = 0 /\ g[m] \in Nat /\ g[m] = 0
      <4>1. IsFiniteSet(L)
        BY FS_Singleton
      <4>2. f[l] = 0 /\ g[l] = 0
        BY <3>3, <3>4
      <4> HIDE DEF f, g
      <4> QED BY <4>1, <4>2
    <3>6. tree'[l].visits = 0 /\ tree'[l].valueSum = 0
      BY <1>11, <3>1
    <3>7. Balanced(tree', Won, l, 0, 0) <=> /\ tree'[l].visits + 0 = SumFunctionOnSet(f, L)
                                            /\ tree'[l].valueSum + 0 = SumFunctionOnSet(g, L)
      BY <3>2 DEF Balanced
    <3> HIDE DEF f, g, L
    <3>8. SumFunctionOnSet(f, L) = 0
      BY <3>5, SumNat
    <3>9. SumFunctionOnSet(g, L) = 0
      BY <3>5, SumNat
    <3> QED BY <3>6, <3>7, <3>8, <3>9
  <2> QED BY <1>5, <1>14, <2>2, <2>3 DEF NodeAccount
<1>16. ASSUME NEW l \in DOMAIN tree' PROVE PriorAccount(l)'
  <2>1. CASE l \in DOMAIN tree /\ l # at
    <3>1. l \in Seq(Codes)
      BY <1>5, <2>1 DEF Nodes
    <3>2. \A d \in DOMAIN tree[l].edges : d \in Codes
      <4>1. NodeOk(tree[l], l)
        BY <2>1 DEF TreeOk
      <4> QED BY <3>1, <4>1, WorldSays DEF NodeOk, NodeIs
    <3>3. \A d \in DOMAIN tree[l].edges : Append(l, d) # child
      <4> TAKE d \in DOMAIN tree[l].edges
      <4>1. Front(Append(l, d)) = l
        BY <3>1, <3>2, LineEnds
      <4> QED BY <1>1, <2>1, <4>1
    <3>4. Children(l)' = Children(l) /\ tree'[l] = tree[l]
      <4>1. tree'[l] = tree[l]
        BY <1>1, <2>1
      <4>2. \A d \in DOMAIN tree[l].edges : Append(l, d) \in DOMAIN tree' <=> Append(l, d) \in DOMAIN tree
        BY <1>1, <3>3
      <4> QED BY <4>1, <4>2 DEF Children
    <3> QED BY <1>6, <2>1, <3>4 DEF PriorAccount
  <2>2. CASE l \notin DOMAIN tree
    <3>1. l = child /\ new
      BY <1>1, <2>2 DEF new
    <3>2. Children(l)' = {} /\ tree'[l].visitedPrior = 0
      BY <1>11, <3>1 DEF Children
    <3>3. SumFunctionOnSet(PriorsOf(tree'[l]), {}) = 0
      BY FS_EmptySet, SumSteps
    <3> QED BY <3>2, <3>3 DEF PriorAccount
  <2>3. CASE l = at
    <3> DEFINE p == PriorsOf(n)
               C == Children(at)
    <3>1. PriorsOf(tree'[at]) = p
      BY <1>1 DEF PriorsOf
    <3>2. Children(at)' = C \cup {c}
      <4>1. \A d \in DOMAIN n.edges : Append(at, d) = child <=> d = c
        <5>1. \A d \in DOMAIN n.edges : d \in Codes
          BY <1>2, WorldSays DEF NodeOk, NodeIs
        <5> QED BY <1>1, <1>2, <5>1, LineEnds DEF child
      <4>2. DOMAIN tree'[at].edges = DOMAIN n.edges /\ DOMAIN tree' = DOMAIN tree \cup {child}
        BY <1>1
      <4>3. \A d \in DOMAIN n.edges : Append(at, d) \in DOMAIN tree' <=> (Append(at, d) \in DOMAIN tree \/ d = c)
        BY <4>1, <4>2
      <4> QED BY <4>2, <4>3 DEF Children
    <3>3. c \in C <=> ~new
      BY DEF Children, new, child
    <3>4. n.visitedPrior = SumFunctionOnSet(p, C)
      BY <1>6 DEF PriorAccount
    <3>5. tree'[at].visitedPrior = n.visitedPrior + (IF new THEN n.edges[c].prior ELSE 0)
      BY <1>1, <1>9
    <3>6. IsFiniteSet(C) /\ C \in SUBSET DOMAIN n.edges
      <4>1. IsFiniteSet(DOMAIN n.edges)
        BY <1>2, WorldSays DEF NodeOk, NodeIs
      <4>2. C \in SUBSET DOMAIN n.edges
        BY DEF Children
      <4> HIDE DEF C
      <4> QED BY <4>1, <4>2, FS_Subset
    <3>7. \A d \in DOMAIN n.edges : p[d] = n.edges[d].prior /\ p[d] \in Int
      BY <1>2 DEF PriorsOf, NodeOk, NodeIs, EdgeOk
    <3>8. tree'[at].visitedPrior = SumFunctionOnSet(p, C \cup {c})
      <4> HIDE DEF p, C, n
      <4>1. CASE new
        <5>1. \A d \in C \cup {c} : p[d] \in Int
          BY <3>6, <3>7 DEF n
        <5>2. SumFunctionOnSet(p, C \cup {c}) = SumFunctionOnSet(p, C) + p[c]
          BY <3>3, <3>6, <4>1, <5>1, SumAdd
        <5>3. p[c] = n.edges[c].prior
          BY <3>7 DEF n
        <5> QED BY <3>4, <3>5, <4>1, <5>2, <5>3
      <4>2. CASE ~new
        <5>1. C \cup {c} = C
          BY <3>3, <4>2
        <5>2. tree'[at].visitedPrior = n.visitedPrior
          BY <1>2, <3>5, <4>2
        <5> QED BY <3>4, <5>1, <5>2
      <4> QED BY <4>1, <4>2
    <3> QED BY <2>3, <3>1, <3>2, <3>8 DEF PriorAccount
  <2> QED BY <2>1, <2>2, <2>3
<1>17. ASSUME NEW l \in DOMAIN tree' PROVE EdgeAccount(l)'
  <2>1. CASE l \notin DOMAIN tree
    <3>1. DOMAIN tree'[l].edges = {}
      BY <1>1, <1>11, <2>1 DEF new
    <3> QED BY <3>1 DEF EdgeAccount
  <2>2. CASE l \in DOMAIN tree
    <3> SUFFICES ASSUME NEW d \in DOMAIN tree'[l].edges
                 PROVE  LET edge == tree'[l].edges[d]
                            kid == Append(l, d)
                        IN IF kid \in DOMAIN tree'
                           THEN /\ edge.visits + 0 = tree'[kid].visits
                                /\ edge.valueSum - 0 = -tree'[kid].valueSum
                           ELSE edge.visits = 0 /\ edge.valueSum = 0
      BY DEF EdgeAccount, Lag
    <3> DEFINE edge == tree[l].edges[d]
               kid == Append(l, d)
    <3>1. d \in DOMAIN tree[l].edges /\ tree'[l].edges[d] = edge
      BY <1>10, <2>2
    <3>2. IF kid \in DOMAIN tree
          THEN edge.visits + 0 = tree[kid].visits /\ edge.valueSum - 0 = -tree[kid].valueSum
          ELSE edge.visits = 0 /\ edge.valueSum = 0
      BY <1>6, <2>2, <3>1 DEF EdgeAccount, Lag
    <3>3. kid \in DOMAIN tree => tree'[kid].visits = tree[kid].visits /\ tree'[kid].valueSum = tree[kid].valueSum
      BY <1>10
    <3>4. kid \in DOMAIN tree' /\ kid \notin DOMAIN tree
            => kid = child /\ new /\ tree'[kid].visits = 0 /\ tree'[kid].valueSum = 0
      BY <1>1, <1>11 DEF new
    <3>5. 0 + 0 = 0 /\ \A x \in Int : x = 0 => x - 0 = 0 - x
      OBVIOUS
    <3> HIDE DEF edge, kid
    <3>7. CASE kid \in DOMAIN tree
      <4>1. kid \in DOMAIN tree'
        BY <1>1, <3>7
      <4> QED BY <3>1, <3>2, <3>3, <3>7, <4>1 DEF kid, edge
    <3>8. CASE kid \in DOMAIN tree' /\ kid \notin DOMAIN tree
      BY <3>1, <3>2, <3>4, <3>5, <3>8 DEF kid
    <3>9. CASE kid \notin DOMAIN tree'
      BY <1>1, <3>1, <3>2, <3>9 DEF kid
    <3> QED BY <3>7, <3>8, <3>9
  <2> QED BY <2>1, <2>2
<1> QED BY <1>12, <1>15, <1>16, <1>17 DEF Books

\* A simulation reaches its last node: the node has the value, and everyone above it on
\* the line is owed it.
LEMMA BooksArrive ==
  ASSUME GameOk, TreeOk, TreeOk', Books, UNCHANGED <<world, game, line>>,
         phase = "descend", phase' = "backup", line \in DOMAIN tree \ {<<>>},
         NEW m, NEW v \in Int, tree' = [tree EXCEPT ![line] = m], carried' = v,
         m.visits = tree[line].visits + 1, m.valueSum = tree[line].valueSum + v,
         Sent(m, line) = Sent(tree[line], line) + 1,
         Given(m, line, Won[line]) = Given(tree[line], line, Won[line]) + v,
         m.terminal \/ m.expanded,
         \/ m.edges = tree[line].edges /\ m.visitedPrior = tree[line].visitedPrior
         \/ /\ DOMAIN tree[line].edges = {} /\ m.visitedPrior = 0
            /\ \A c \in DOMAIN m.edges : m.edges[c].visits = 0 /\ m.edges[c].valueSum = 0
  PROVE  Books'
<1> DEFINE n == tree[line]
<1>1. /\ DOMAIN tree' = DOMAIN tree /\ tree'[line] = m
      /\ \A l \in DOMAIN tree : l # line => tree'[l] = tree[l]
  OBVIOUS
<1>2. Nodes(tree) /\ Nodes(tree') /\ Won' = Won /\ line \in Seq(Codes)
  BY NodesOfTree, WonKept DEF TreeOk
<1>3. \A l \in DOMAIN tree : NodeAccount(l) /\ PriorAccount(l) /\ EdgeAccount(l)
  BY DEF Books
<1>4. \A l \in DOMAIN tree : /\ l \in Seq(Codes) /\ tree[l].visits \in Nat /\ tree[l].valueSum \in Int
  BY <1>2 DEF Nodes, NodeOk, NodeIs
<1>5. NoneFresh'
  <2>1. \A l \in DOMAIN tree \ {<<>>, line} : tree[l].visits # 0 /\ (tree[l].terminal \/ tree[l].expanded)
    BY DEF Books, NoneFresh
  <2>2. m.visits # 0
    BY <1>4
  <2> QED BY <1>1, <2>1, <2>2 DEF NoneFresh
<1>6. ASSUME NEW l \in DOMAIN tree' PROVE NodeAccount(l)'
  <2>1. l \in DOMAIN tree /\ l \in Seq(Codes) /\ tree[l].visits \in Nat /\ tree[l].valueSum \in Int
    BY <1>1, <1>4
  <2>2. Balanced(tree, Won, l, 0, 0)
    <3>1. Late(l) = 0 /\ Owed(l) = 0
      BY DEF Late, Owed, Pending
    <3> QED BY <1>3, <2>1, <3>1 DEF NodeAccount
  <2> DEFINE late2 == Late(l)'
             owed2 == Owed(l)'
  <2>3. /\ late2 = IF IsPrefix(l, line) /\ l # line THEN 1 ELSE 0
        /\ owed2 = IF IsPrefix(l, line) /\ l # line THEN Signed(Len(line) - Len(l), v) ELSE 0
    BY DEF Late, Owed, Pending
  <2> HIDE DEF late2, owed2
  <2>4. l = line => IsPrefix(l, line) /\ Signed(Len(line) - Len(l), v) = v
    <3> SUFFICES ASSUME l = line PROVE IsPrefix(l, line) /\ Signed(Len(line) - Len(l), v) = v
      OBVIOUS
    <3>1. IsPrefix(l, line)
      BY <1>2, PrefixSelf
    <3>2. Len(line) - Len(l) = 0
      BY <1>2
    <3>3. Signed(0, v) = v
      BY Signs
    <3> QED BY <3>1, <3>2, <3>3
  <2>5. IsPrefix(l, line) => Signed(Len(line) - Len(l), v) \in Int
    <3> SUFFICES ASSUME IsPrefix(l, line) PROVE Signed(Len(line) - Len(l), v) \in Int
      OBVIOUS
    <3>1. Len(line) - Len(l) \in Nat
      <4>1. Len(l) <= Len(line)
        BY DEF IsPrefix
      <4> QED BY <1>2, <2>1, <4>1
    <3> QED BY <3>1, Signs
  <2>6. tree'[l].visits + late2 = tree[l].visits + 0 + (IF IsPrefix(l, line) THEN 1 ELSE 0)
    <3>1. CASE l = line
      BY <1>1, <2>1, <2>3, <2>4, <3>1
    <3>2. CASE l # line
      <4>1. tree'[l] = tree[l]
        BY <1>1, <2>1, <3>2
      <4> QED BY <2>1, <2>3, <3>2, <4>1
    <3> QED BY <3>1, <3>2
  <2>7. tree'[l].valueSum + owed2 = tree[l].valueSum + 0
                                    + (IF IsPrefix(l, line) THEN Signed(Len(line) - Len(l), v) ELSE 0)
    <3>1. CASE l = line
      <4>1. tree'[l].valueSum = tree[l].valueSum + v /\ owed2 = 0
        BY <1>1, <2>3, <3>1
      <4> QED BY <2>1, <2>4, <3>1, <4>1
    <3>2. CASE l # line
      <4>1. tree'[l] = tree[l]
        BY <1>1, <2>1, <3>2
      <4>2. owed2 = IF IsPrefix(l, line) THEN Signed(Len(line) - Len(l), v) ELSE 0
        BY <2>3, <3>2
      <4> QED BY <2>1, <2>5, <4>1, <4>2
    <3> QED BY <3>1, <3>2
  <2>8. tree[l].visits + 0 \in Int /\ tree[l].valueSum + 0 \in Int
    BY <2>1
  <2>9. Balanced(tree', Won, l, late2, owed2)
    <3>1. Sent(tree'[line], line) = Sent(tree[line], line) + 1
      BY <1>1
    <3>2. Given(tree'[line], line, Won[line]) = Given(tree[line], line, Won[line]) + v
      BY <1>1
    <3> QED BY <1>1, <1>2, <2>1, <2>2, <2>6, <2>7, <2>8, <3>1, <3>2, BalanceArrives
  <2> QED BY <1>2, <2>9 DEF NodeAccount, late2, owed2
<1>8. DOMAIN n.edges = {} => \A d \in DOMAIN m.edges : Append(line, d) \notin DOMAIN tree
  <2> SUFFICES ASSUME DOMAIN n.edges = {}, NEW d \in DOMAIN m.edges, Append(line, d) \in DOMAIN tree PROVE FALSE
    OBVIOUS
  <2>1. d \in Codes
    <3>1. NodeOk(m, line)
      BY <1>1, <1>2 DEF Nodes
    <3> QED BY <1>2, <3>1, WorldSays DEF NodeOk, NodeIs
  <2>2. Append(line, d) # <<>> /\ Front(Append(line, d)) = line /\ Last(Append(line, d)) = d
    BY <1>2, <2>1, LineEnds
  <2> QED BY <2>2 DEF TreeOk
<1>9. ASSUME NEW l \in DOMAIN tree' PROVE PriorAccount(l)'
  <2>1. CASE l # line \/ (m.edges = n.edges /\ m.visitedPrior = n.visitedPrior)
    <3>1. tree'[l].edges = tree[l].edges /\ tree'[l].visitedPrior = tree[l].visitedPrior /\ l \in DOMAIN tree
      BY <1>1, <2>1
    <3>2. Children(l)' = Children(l)
      BY <1>1, <3>1 DEF Children
    <3>3. PriorsOf(tree'[l]) = PriorsOf(tree[l])
      BY <3>1 DEF PriorsOf
    <3> QED BY <1>3, <3>1, <3>2, <3>3 DEF PriorAccount
  <2>2. CASE l = line /\ DOMAIN n.edges = {} /\ m.visitedPrior = 0
    <3>1. Children(l)' = {}
      BY <1>1, <1>8, <2>2 DEF Children
    <3>2. SumFunctionOnSet(PriorsOf(tree'[l]), {}) = 0
      BY FS_EmptySet, SumSteps
    <3> QED BY <1>1, <2>2, <3>1, <3>2 DEF PriorAccount
  <2> QED BY <2>1, <2>2
<1>10. ASSUME NEW l \in DOMAIN tree' PROVE EdgeAccount(l)'
  <2> SUFFICES ASSUME NEW d \in DOMAIN tree'[l].edges
               PROVE  LET edge == tree'[l].edges[d]
                          kid == Append(l, d)
                      IN IF kid \in DOMAIN tree'
                         THEN /\ edge.visits + (IF kid = line THEN 1 ELSE 0) = tree'[kid].visits
                              /\ edge.valueSum - (IF kid = line THEN v ELSE 0) = -tree'[kid].valueSum
                         ELSE edge.visits = 0 /\ edge.valueSum = 0
    BY DEF EdgeAccount, Lag
  <2> DEFINE edge == tree'[l].edges[d]
             kid == Append(l, d)
  <2>1. CASE l # line \/ m.edges = n.edges
    <3>1. tree'[l].edges = tree[l].edges /\ l \in DOMAIN tree
      BY <1>1, <2>1
    <3>2. edge = tree[l].edges[d] /\ d \in DOMAIN tree[l].edges
      BY <3>1
    <3>3. EdgeOk(edge)
      BY <1>2, <3>1, <3>2 DEF Nodes, NodeOk, NodeIs
    <3>4. IF kid \in DOMAIN tree
          THEN edge.visits + 0 = tree[kid].visits /\ edge.valueSum - 0 = -tree[kid].valueSum
          ELSE edge.visits = 0 /\ edge.valueSum = 0
      BY <1>3, <3>1, <3>2 DEF EdgeAccount, Lag
    <3> HIDE DEF edge, kid
    <3>5. CASE kid = line
      <4>1. edge.visits + 0 = n.visits /\ edge.valueSum - 0 = -n.valueSum /\ kid \in DOMAIN tree'
        BY <1>1, <3>4, <3>5
      <4>2. tree'[kid].visits = n.visits + 1 /\ tree'[kid].valueSum = n.valueSum + v
        BY <1>1, <3>5
      <4>3. n.visits \in Nat /\ n.valueSum \in Int
        BY <1>4
      <4> HIDE DEF n
      <4>4. edge.visits + 1 = tree'[kid].visits /\ edge.valueSum - v = -tree'[kid].valueSum
        BY <3>3, <4>1, <4>2, <4>3 DEF EdgeOk
      <4> QED BY <3>5, <4>1, <4>4 DEF edge, kid
    <3>6. CASE kid # line
      <4>1. kid \in DOMAIN tree => tree'[kid] = tree[kid]
        BY <1>1, <3>6
      <4> QED BY <1>1, <3>4, <3>6, <4>1 DEF edge, kid
    <3> QED BY <3>5, <3>6
  <2>2. CASE l = line /\ DOMAIN n.edges = {} /\ \A c \in DOMAIN m.edges : m.edges[c].visits = 0 /\ m.edges[c].valueSum = 0
    BY <1>1, <1>8, <2>2
  <2> QED BY <2>1, <2>2
<1> QED BY <1>5, <1>6, <1>9, <1>10 DEF Books

\* A value crosses one ply: the node above has it, and is no longer owed it.
LEMMA BooksBackedUp ==
  ASSUME GameOk, SearchOk, TreeOk', Books, Backup
  PROVE  Books'
<1> DEFINE at == Front(line)
           c == Last(line)
           v == -carried
           n == tree[at]
           m == Credited(n, c, v)
<1>1. /\ TreeOk /\ line \in DOMAIN tree /\ line # <<>> /\ line \in Seq(Codes) /\ phase = "backup"
      /\ at \in DOMAIN tree /\ at \in Seq(Codes) /\ c \in Codes /\ line = Append(at, c)
      /\ c \in DOMAIN n.edges /\ NodeOk(n, at) /\ carried \in Int /\ n.expanded
  BY AboveLine DEF Backup
<1>2. v \in Int /\ carried \in Int
  BY <1>1
<1>3. /\ m.expanded = n.expanded /\ m.terminal = n.terminal
      /\ m.visits = n.visits + 1 /\ m.valueSum = n.valueSum + v
      /\ m.value = n.value /\ m.visitedPrior = n.visitedPrior
      /\ DOMAIN m.edges = DOMAIN n.edges
      /\ \A d \in DOMAIN n.edges : d # c => m.edges[d] = n.edges[d]
      /\ m.edges[c].visits = n.edges[c].visits + 1 /\ m.edges[c].valueSum = n.edges[c].valueSum + v
      /\ m.edges[c].prior = n.edges[c].prior
  <2> HIDE DEF v, at, c, n
  <2>1. NodeOk(n, at) /\ v \in Int /\ c \in DOMAIN n.edges
    BY <1>1, <1>2
  <2>2. /\ m.expanded = n.expanded /\ m.terminal = n.terminal
        /\ m.visits = n.visits + 1 /\ m.valueSum = n.valueSum + v
        /\ m.value = n.value /\ m.visitedPrior = n.visitedPrior
    BY <2>1, BackedUpNode
  <2>3. /\ DOMAIN m.edges = DOMAIN n.edges
        /\ \A d \in DOMAIN n.edges : d # c => m.edges[d] = n.edges[d]
        /\ m.edges[c].visits = n.edges[c].visits + 1 /\ m.edges[c].valueSum = n.edges[c].valueSum + v
        /\ m.edges[c].prior = n.edges[c].prior
    BY <2>1, BackedUpNode
  <2> QED BY <2>2, <2>3
<1>4. /\ tree' = [tree EXCEPT ![at] = m] /\ line' = at /\ UNCHANGED <<world, game>>
      /\ at = <<>> => phase' = "visit"
      /\ at # <<>> => phase' = "backup" /\ carried' = v
  BY DEF Backup, BackedUp
<1>5. at # line /\ Len(line) = Len(at) + 1
  BY <1>1
<1> HIDE DEF m, v, c, at
<1>6. DOMAIN tree' = DOMAIN tree /\ tree'[at] = m /\ \A l \in DOMAIN tree : l # at => tree'[l] = tree[l]
  BY <1>1, <1>4
<1>7. Nodes(tree) /\ Nodes(tree') /\ Won' = Won
  BY <1>1, <1>4, NodesOfTree, WonKept
<1>8. \A l \in DOMAIN tree : NodeAccount(l) /\ PriorAccount(l) /\ EdgeAccount(l)
  BY DEF Books
<1>9. \A l \in DOMAIN tree : l \in Seq(Codes) /\ tree[l].visits \in Nat /\ tree[l].valueSum \in Int
  BY <1>7 DEF Nodes, NodeOk, NodeIs
<1>10. n.expanded /\ ~n.terminal /\ m.expanded /\ ~m.terminal
  BY <1>1, <1>3 DEF NodeOk, NodeIs
<1>11. NoneFresh'
  <2>1. \A l \in DOMAIN tree \ {<<>>} : tree[l].visits # 0 /\ (tree[l].terminal \/ tree[l].expanded)
    BY <1>1 DEF Books, NoneFresh
  <2>2. m.visits # 0
    BY <1>1, <1>3, <1>9
  <2> QED BY <1>6, <1>10, <2>1, <2>2 DEF NoneFresh
<1>12. ASSUME NEW l \in DOMAIN tree' PROVE NodeAccount(l)'
  <2>1. l \in DOMAIN tree /\ l \in Seq(Codes) /\ tree[l].visits \in Nat /\ tree[l].valueSum \in Int
    BY <1>6, <1>9
  <2> DEFINE late == Late(l)
             owed == Owed(l)
             late2 == Late(l)'
             owed2 == Owed(l)'
             k == Len(line) - Len(l)
  <2>2. Balanced(tree, Won, l, late, owed)
    BY <1>8, <2>1 DEF NodeAccount
  <2>3. /\ late = IF IsPrefix(l, line) /\ l # line THEN 1 ELSE 0
        /\ owed = IF IsPrefix(l, line) /\ l # line THEN Signed(k, carried) ELSE 0
    BY <1>1 DEF Late, Owed, Pending
  <2>4. IsPrefix(l, line) /\ l # line <=> IsPrefix(l, at)
    <3>1. IsPrefix(l, Append(at, c)) <=> IsPrefix(l, at) \/ l = Append(at, c)
      BY <1>1, <2>1, PrefixOfAppend
    <3>2. IsPrefix(l, at) => l # line
      <4>1. IsPrefix(l, at) => Len(l) <= Len(at)
        BY DEF IsPrefix
      <4> QED BY <1>1, <1>5, <2>1, <4>1
    <3> QED BY <1>1, <3>1, <3>2
  <2>5. /\ late2 = IF phase' = "backup" /\ IsPrefix(l, at) /\ l # at THEN 1 ELSE 0
        /\ owed2 = IF phase' = "backup" /\ IsPrefix(l, at) /\ l # at THEN Signed(Len(at) - Len(l), carried') ELSE 0
    BY <1>4 DEF Late, Owed, Pending
  <2>6. IsPrefix(l, at) => Len(at) - Len(l) \in Nat
    <3>1. IsPrefix(l, at) => Len(l) <= Len(at)
      BY DEF IsPrefix
    <3> QED BY <1>1, <2>1, <3>1
  <2> HIDE DEF late, owed, late2, owed2
  <2>7. tree'[l].visits + late2 = tree[l].visits + late /\ tree'[l].valueSum + owed2 = tree[l].valueSum + owed
    <3>1. CASE l = at
      <4>1. IsPrefix(l, at)
        BY <2>1, <3>1, PrefixSelf
      <4>2. late = 1 /\ owed = Signed(k, carried) /\ late2 = 0 /\ owed2 = 0
        BY <2>3, <2>4, <2>5, <3>1, <4>1
      <4>3. k = 1
        BY <1>1, <1>5, <3>1
      <4>4. Signed(1, carried) = v
        BY <1>2, Signs DEF v
      <4>5. tree'[l].visits = tree[l].visits + 1 /\ tree'[l].valueSum = tree[l].valueSum + v
        BY <1>3, <1>6, <3>1
      <4> HIDE DEF k
      <4> QED BY <1>2, <2>1, <4>2, <4>3, <4>4, <4>5
    <3>2. CASE l # at
      <4>1. tree'[l] = tree[l]
        BY <1>6, <2>1, <3>2
      <4>2. CASE at = <<>>
        <5>1. ~IsPrefix(l, at)
          BY <1>1, <2>1, <3>2, <4>2, PrefixOfAppend
        <5>2. late = 0 /\ owed = 0 /\ late2 = 0 /\ owed2 = 0
          BY <2>3, <2>4, <2>5, <5>1
        <5> QED BY <4>1, <5>2
      <4>3. CASE at # <<>> /\ ~IsPrefix(l, at)
        <5>2. late = 0 /\ owed = 0 /\ late2 = 0 /\ owed2 = 0
          BY <2>3, <2>4, <2>5, <4>3
        <5> QED BY <4>1, <5>2
      <4>4. CASE at # <<>> /\ IsPrefix(l, at)
        <5> DEFINE j == Len(at) - Len(l)
        <5>1. late = 1 /\ late2 = 1 /\ owed = Signed(k, carried) /\ owed2 = Signed(j, v)
          BY <1>4, <2>3, <2>4, <2>5, <3>2, <4>4
        <5>2. j \in Nat /\ k = j + 1
          BY <1>1, <1>5, <2>1, <2>6, <4>4
        <5> HIDE DEF j, k
        <5>3. Signed(j + 1, -v) = Signed(j, v)
          BY <1>2, <5>2, Signs
        <5>4. -v = carried
          BY <1>2 DEF v
        <5> QED BY <4>1, <5>1, <5>2, <5>3, <5>4
      <4> QED BY <4>2, <4>3, <4>4
    <3> QED BY <3>1, <3>2
  <2>8. \A o \in DOMAIN tree : /\ Sent(tree'[o], o) = Sent(tree[o], o)
                               /\ Given(tree'[o], o, Won[o]) = Given(tree[o], o, Won[o])
    <3> TAKE o \in DOMAIN tree
    <3>1. CASE o = at
      <4>1. tree'[o] = m /\ tree[o] = n
        BY <1>6, <3>1
      <4> HIDE DEF n
      <4> QED BY <1>3, <1>10, <4>1 DEF Sent, Given
    <3>2. CASE o # at
      BY <1>6, <3>2
    <3> QED BY <3>1, <3>2
  <2>9. Balanced(tree', Won, l, late2, owed2)
    BY <1>6, <1>7, <2>1, <2>2, <2>7, <2>8, BalanceKept
  <2> QED BY <1>7, <2>9 DEF NodeAccount, late2, owed2
<1>13. ASSUME NEW l \in DOMAIN tree' PROVE PriorAccount(l)'
  <2>1. l \in DOMAIN tree
    BY <1>6
  <2>2. DOMAIN tree'[l].edges = DOMAIN tree[l].edges /\ tree'[l].visitedPrior = tree[l].visitedPrior
    BY <1>3, <1>6, <2>1
  <2>3. PriorsOf(tree'[l]) = PriorsOf(tree[l])
    <3>1. \A d \in DOMAIN tree[l].edges : tree'[l].edges[d].prior = tree[l].edges[d].prior
      <4> TAKE d \in DOMAIN tree[l].edges
      <4>1. CASE l # at
        BY <1>6, <2>1, <4>1
      <4>2. CASE l = at /\ d # c
        BY <1>3, <1>6, <4>2
      <4>3. CASE l = at /\ d = c
        BY <1>3, <1>6, <4>3
      <4> QED BY <4>1, <4>2, <4>3
    <3> QED BY <2>2, <3>1 DEF PriorsOf
  <2>4. Children(l)' = Children(l)
    BY <1>6, <2>2 DEF Children
  <2> QED BY <1>8, <2>1, <2>2, <2>3, <2>4 DEF PriorAccount
<1>14. ASSUME NEW l \in DOMAIN tree' PROVE EdgeAccount(l)'
  <2>1. l \in DOMAIN tree /\ l \in Seq(Codes) /\ DOMAIN tree'[l].edges = DOMAIN tree[l].edges
    BY <1>3, <1>6, <1>9
  <2> SUFFICES ASSUME NEW d \in DOMAIN tree[l].edges
               PROVE  LET edge == tree'[l].edges[d]
                          kid == Append(l, d)
                      IN IF kid \in DOMAIN tree'
                         THEN /\ edge.visits + (IF Lag(kid)' THEN 1 ELSE 0) = tree'[kid].visits
                              /\ edge.valueSum - (IF Lag(kid)' THEN carried' ELSE 0) = -tree'[kid].valueSum
                         ELSE edge.visits = 0 /\ edge.valueSum = 0
    BY <2>1 DEF EdgeAccount
  <2> DEFINE edge == tree'[l].edges[d]
             old == tree[l].edges[d]
             kid == Append(l, d)
  <2>2. EdgeOk(old) /\ d \in Codes
    <3>1. NodeOk(tree[l], l)
      BY <1>7, <2>1 DEF Nodes
    <3>2. EdgeOk(old)
      BY <3>1 DEF NodeOk, NodeIs
    <3> QED BY <2>1, <3>1, <3>2, WorldSays DEF NodeOk, NodeIs
  <2>3. IF kid \in DOMAIN tree
        THEN /\ old.visits + (IF Lag(kid) THEN 1 ELSE 0) = tree[kid].visits
             /\ old.valueSum - (IF Lag(kid) THEN carried ELSE 0) = -tree[kid].valueSum
        ELSE old.visits = 0 /\ old.valueSum = 0
    BY <1>8, <2>1 DEF EdgeAccount
  <2>4. kid = line <=> l = at /\ d = c
    <3>1. Front(kid) = l /\ Last(kid) = d
      BY <2>1, <2>2, LineEnds
    <3> QED BY <1>1, <3>1 DEF at, c
  <2>5. kid # <<>>
    BY <2>1, <2>2, LineEnds
  <2>6. Lag(kid) <=> kid = line
    BY <1>1 DEF Lag
  <2>7. Lag(kid)' <=> kid = at
    <3>1. Lag(kid)' <=> phase' = "backup" /\ kid = at
      BY <1>4 DEF Lag
    <3> QED BY <1>4, <2>5, <3>1
  <2>8. kid # line => edge = old
    <3> HIDE DEF kid
    <3>1. CASE l = at
      BY <1>3, <1>6, <2>4, <3>1
    <3>2. CASE l # at
      BY <1>6, <2>1, <3>2
    <3> QED BY <3>1, <3>2
  <2>9. kid = line => edge.visits = old.visits + 1 /\ edge.valueSum = old.valueSum + v
    <3> SUFFICES ASSUME kid = line PROVE edge.visits = old.visits + 1 /\ edge.valueSum = old.valueSum + v
      OBVIOUS
    <3>1. l = at /\ d = c
      BY <2>4
    <3> QED BY <1>3, <1>6, <3>1
  <2>10. kid \in DOMAIN tree => tree[kid].visits \in Nat /\ tree[kid].valueSum \in Int
    BY <1>9
  <2>11. CASE kid = line
    <3>1. kid \in DOMAIN tree /\ kid # at /\ tree'[kid] = tree[kid]
      BY <1>1, <1>5, <1>6, <2>11
    <3>2. old.visits + 1 = tree[kid].visits /\ old.valueSum - carried = -tree[kid].valueSum
      BY <2>3, <2>6, <2>11, <3>1
    <3> HIDE DEF edge, old, kid
    <3>3. edge.visits + 0 = tree[kid].visits /\ edge.valueSum - 0 = -tree[kid].valueSum
      <4>1. v = 0 - carried
        BY <1>2 DEF v
      <4> QED BY <1>2, <2>2, <2>9, <2>10, <2>11, <3>1, <3>2, <4>1 DEF EdgeOk
    <3> QED BY <1>6, <2>7, <3>1, <3>3 DEF edge, kid
  <2>12. CASE kid = at
    <3>1. kid # line /\ kid \in DOMAIN tree /\ at # <<>> /\ carried' = v
      BY <1>1, <1>4, <1>5, <2>5, <2>12
    <3>2. old.visits + 0 = tree[kid].visits /\ old.valueSum - 0 = -tree[kid].valueSum
      BY <2>3, <2>6, <3>1
    <3>3. tree'[kid].visits = tree[kid].visits + 1 /\ tree'[kid].valueSum = tree[kid].valueSum + v
      BY <1>3, <1>6, <2>12
    <3> HIDE DEF edge, old, kid
    <3>4. edge.visits + 1 = tree'[kid].visits /\ edge.valueSum - v = -tree'[kid].valueSum
      BY <1>2, <2>2, <2>8, <2>10, <3>1, <3>2, <3>3 DEF EdgeOk
    <3> QED BY <1>6, <2>7, <2>12, <3>1, <3>4 DEF edge, kid
  <2>13. CASE kid # line /\ kid # at
    <3>1. kid \in DOMAIN tree => tree'[kid] = tree[kid]
      BY <1>6, <2>13
    <3> HIDE DEF edge, old, kid
    <3> QED BY <1>6, <2>3, <2>6, <2>7, <2>8, <2>13, <3>1 DEF edge, kid
  <2> QED BY <2>11, <2>12, <2>13
<1> QED BY <1>11, <1>12, <1>13, <1>14 DEF Books

\* The engine lets only the player who has just moved win.
LEMMA Verdict ==
  ASSUME GameOk, NEW l \in Seq(Codes), l # <<>>
  PROVE  TerminalValue(l) = IF Won[l] THEN -Unit ELSE 0
<1> DEFINE k == Len(game) + Len(l)
<1>1. game \in Seq(Codes) /\ Len(game \o l) = k /\ k \in Nat \ {0}
  BY DEF GameOk
<1>2. Player(k - 1) # Player(k)
  <2> HIDE DEF k
  <2>1. (k - 1) % 2 = 0 <=> k % 2 # 0
    BY <1>1, SMT
  <2> QED BY <2>1 DEF Player
<1>3. Won[l] <=> world.result[At(l)] = "win"
  BY DEF Won
<1>4. world.result[At(l)] = "win" => Winner(game \o l) = Player(k - 1)
  BY <1>1 DEF Winner, At
<1> HIDE DEF k
<1> QED BY <1>2, <1>3, <1>4 DEF TerminalValue, k

\* Every step keeps the books of the tree search in order: its beginning opens them,
\* taking an edge changes a prior, an arrival adds a contribution that those above are owed,
\* and backing up pays it one ply further.
LEMMA AccountsNext ==
  ASSUME GameOk, SearchOk, BudgetOk, Accounts, SelfPlayNext
  PROVE  Accounts'
<1>1. SearchOk'
  BY SearchNext
<1>2. ASSUME UNCHANGED setting, phase \in {"visit", "descend", "backup"}, setting.driver = "puct"
      PROVE  TreeOk /\ Books
  BY <1>2 DEF SearchOk, Accounts, Searching
<1>3. CASE Search
  BY <1>3, BooksOpen DEF Accounts
<1>4. CASE Visit
  <2> DEFINE c == Head(plan)
  <2>1. TreeOk /\ Books /\ phase = "visit"
    BY <1>2, <1>4 DEF Visit
  <2>2. /\ tree' = TakeEdge(tree, <<>>, c) /\ line' = <<c>> /\ phase' = "descend"
        /\ UNCHANGED <<world, game>>
    BY <1>4 DEF Visit
  <2>3. c \in DOMAIN tree[<<>>].edges
    BY <1>4, PlanIsLegal DEF Visit, Searching
  <2>4. <<>> \in DOMAIN tree /\ tree[<<>>].expanded
    BY <2>1 DEF TreeOk
  <2> HIDE DEF c
  <2>5. line' = Append(<<>>, c)
    BY <2>2
  <2>6. Books'
    BY <2>1, <2>2, <2>3, <2>4, <2>5, BooksTaken
  <2> QED BY <2>6 DEF Accounts
<1>5. CASE Descend
  <2> SUFFICES ASSUME setting.driver = "puct" PROVE Books'
    BY <1>5 DEF Accounts, Descend
  <2> DEFINE c == SelectEdge(tree[line])
  <2>1. TreeOk /\ Books /\ phase = "descend" /\ line \in DOMAIN tree
    BY <1>2, <1>5 DEF Descend, SearchOk, Searching, LineOk
  <2>2. /\ tree' = TakeEdge(tree, line, c) /\ line' = Append(line, c) /\ phase' = "descend"
        /\ UNCHANGED <<world, game>> /\ tree[line].expanded
    BY <1>5 DEF Descend
  <2>3. c \in DOMAIN tree[line].edges
    <3>1. NodeOk(tree[line], line) /\ line \in Seq(Codes)
      BY <2>1 DEF TreeOk
    <3> QED BY <2>2, <3>1, EdgeSelected
  <2> HIDE DEF c
  <2> QED BY <2>1, <2>2, <2>3, BooksTaken
<1>6. CASE ReachTerminal
  <2> SUFFICES ASSUME setting.driver = "puct" PROVE Books'
    BY <1>6 DEF Accounts, ReachTerminal
  <2> DEFINE v == TerminalValue(line)
             n == tree[line]
             m == Counted(n, v)
  <2>1. TreeOk /\ Books /\ line \in DOMAIN tree \ {<<>>} /\ phase = "descend" /\ n.terminal
    BY <1>2, <1>6 DEF ReachTerminal, SearchOk, Searching, LineOk
  <2>2. NodeOk(n, line) /\ line \in Seq(Codes)
    BY <2>1 DEF TreeOk
  <2>3. v \in Int /\ v = IF Won[line] THEN -Unit ELSE 0
    BY <2>1, <2>2, WorldSays, Verdict
  <2>4. /\ tree' = [tree EXCEPT ![line] = m] /\ carried' = v /\ phase' = "backup"
        /\ UNCHANGED <<world, game, line>>
    BY <1>6 DEF ReachTerminal
  <2> HIDE DEF v, n
  <2>5. /\ m.terminal = n.terminal /\ m.visits = n.visits + 1 /\ m.valueSum = n.valueSum + v
        /\ m.visitedPrior = n.visitedPrior /\ m.edges = n.edges
    BY <2>2, <2>3, CountedNode
  <2>6. m.terminal
    BY <2>1, <2>5
  <2> HIDE DEF m
  <2>7. Sent(m, line) = Sent(n, line) + 1
    BY <2>1, <2>5, <2>6 DEF Sent
  <2>8. Given(m, line, Won[line]) = Given(n, line, Won[line]) + v
    <3>1. n.visits \in Nat /\ Unit \in Nat
      BY <2>2, SearchAssumption DEF NodeOk, NodeIs
    <3> DEFINE a == n.visits
               u == Unit
    <3>2. -(u * (a + 1)) = -(u * a) + -u
      <4>1. u \in Nat /\ a \in Nat
        BY <3>1
      <4> HIDE DEF u, a
      <4> QED BY <4>1, SMT
    <3>3. CASE Won[line]
      <4>1. Given(m, line, Won[line]) = -(u * m.visits) /\ Given(n, line, Won[line]) = -(u * a)
        BY <2>1, <2>6, <3>3 DEF Given
      <4>2. m.visits = a + 1 /\ v = -u
        BY <2>3, <2>5, <3>3
      <4> HIDE DEF u, a
      <4> QED BY <3>2, <4>1, <4>2
    <3>4. CASE ~Won[line]
      BY <2>1, <2>3, <2>6, <3>4 DEF Given
    <3> QED BY <3>3, <3>4
  <2>9. TreeOk'
    BY <1>1, <2>4 DEF SearchOk, Searching
  <2> QED BY <2>1, <2>3, <2>4, <2>5, <2>6, <2>7, <2>8, <2>9, BooksArrive DEF n
<1>7. CASE ReachLeaf
  <2> SUFFICES ASSUME setting.driver = "puct" PROVE Books'
    BY <1>7 DEF Accounts, ReachLeaf
  <2> DEFINE v == world.value[At(line)]
             n == tree[line]
             o == Expand(n, line)
             m == Counted(o, v)
  <2>1. /\ TreeOk /\ Books /\ line \in DOMAIN tree \ {<<>>} /\ phase = "descend"
        /\ ~n.terminal /\ ~n.expanded /\ ValidEvaluation(line)
    BY <1>2, <1>7 DEF ReachLeaf, SearchOk, Searching, LineOk
  <2>2. NodeOk(n, line) /\ line \in Seq(Codes)
    BY <2>1 DEF TreeOk
  <2>3. v \in Int
    BY <2>2, WorldSays
  <2>4. /\ NodeOk(o, line) /\ o.expanded /\ ~o.terminal /\ o.visits = n.visits /\ o.valueSum = n.valueSum
        /\ o.value = v /\ o.visitedPrior = 0
        /\ \A c \in DOMAIN o.edges : o.edges[c].visits = 0 /\ o.edges[c].valueSum = 0
    BY <2>1, <2>2, ExpandedNode
  <2>5. /\ tree' = [tree EXCEPT ![line] = m] /\ carried' = v /\ phase' = "backup"
        /\ UNCHANGED <<world, game, line>>
    BY <1>7 DEF ReachLeaf
  <2> HIDE DEF v, n, o
  <2>6. /\ m.terminal = o.terminal /\ m.expanded = o.expanded
        /\ m.visits = o.visits + 1 /\ m.valueSum = o.valueSum + v /\ m.value = o.value
        /\ m.visitedPrior = o.visitedPrior /\ m.edges = o.edges
    <3>1. NodeOk(o, line)
      BY <2>4
    <3>2. m.terminal = o.terminal /\ m.expanded = o.expanded /\ m.value = o.value
      BY <2>3, <3>1, CountedNode
    <3>3. /\ m.visits = o.visits + 1 /\ m.valueSum = o.valueSum + v
          /\ m.visitedPrior = o.visitedPrior /\ m.edges = o.edges
      BY <2>3, <3>1, CountedNode
    <3> QED BY <3>2, <3>3
  <2>7. m.expanded /\ ~m.terminal
    BY <2>4, <2>6
  <2> HIDE DEF m
  <2>8. Sent(m, line) = 1 /\ Sent(n, line) = 0 /\ Given(m, line, Won[line]) = v /\ Given(n, line, Won[line]) = 0
    BY <2>1, <2>4, <2>6, <2>7 DEF Sent, Given
  <2>9. TreeOk'
    BY <1>1, <2>5 DEF SearchOk, Searching
  <2>10. DOMAIN n.edges = {}
    BY <2>1, <2>2 DEF NodeOk, NodeIs
  <2>11. /\ m.visits = n.visits + 1 /\ m.valueSum = n.valueSum + v /\ m.visitedPrior = 0
         /\ \A c \in DOMAIN m.edges : m.edges[c].visits = 0 /\ m.edges[c].valueSum = 0
    BY <2>4, <2>6
  <2>12. Sent(m, line) = Sent(n, line) + 1 /\ Given(m, line, Won[line]) = Given(n, line, Won[line]) + v
    BY <2>3, <2>8
  <2> QED BY <2>1, <2>3, <2>5, <2>7, <2>9, <2>10, <2>11, <2>12, BooksArrive DEF n
<1>8. CASE Backup
  <2> SUFFICES ASSUME setting.driver = "puct" PROVE Books'
    BY <1>8 DEF Accounts, Backup
  <2>1. Books
    BY <1>2, <1>8 DEF Backup
  <2>2. TreeOk'
    <3>1. phase' \in {"visit", "backup"}
      BY <1>8 DEF Backup
    <3> QED BY <1>1, <3>1 DEF SearchOk, Searching
  <2> QED BY <1>8, <2>1, <2>2, BooksBackedUp
<1>9. CASE Halve
  <2> SUFFICES ASSUME setting.driver = "puct" PROVE Books'
    BY <1>9 DEF Accounts, Halve
  <2>1. Books /\ UNCHANGED <<world, game, tree, phase, line, carried>>
    BY <1>2, <1>9 DEF Halve
  <2>2. Won' = Won
    BY <2>1, WonKept
  <2>3. NoneFresh'
    BY <2>1 DEF Books, NoneFresh
  <2>4. ASSUME NEW l \in DOMAIN tree' PROVE NodeAccount(l)' /\ PriorAccount(l)' /\ EdgeAccount(l)'
    <3>1. NodeAccount(l) /\ PriorAccount(l) /\ EdgeAccount(l)
      BY <2>1 DEF Books
    <3>2. Late(l)' = Late(l) /\ Owed(l)' = Owed(l)
      BY <2>1 DEF Late, Owed, Pending
    <3>3. NodeAccount(l)'
      BY <2>1, <2>2, <3>1, <3>2 DEF NodeAccount
    <3>4. PriorAccount(l)'
      BY <2>1, <3>1 DEF PriorAccount, Children
    <3>5. EdgeAccount(l)'
      BY <2>1, <3>1 DEF EdgeAccount, Lag
    <3> QED BY <3>3, <3>4, <3>5
  <2> QED BY <2>3, <2>4 DEF Books
<1>10. CASE VisitChild
  BY <1>10 DEF VisitChild, Accounts
<1>11. CASE RootThrows \/ LeafThrows \/ ChildThrows \/ Play
  <2>1. phase' \notin {"visit", "descend", "backup"}
    BY <1>11 DEF RootThrows, LeafThrows, ChildThrows, Play
  <2> QED BY <2>1 DEF Accounts, Searching
<1> QED BY <1>3, <1>4, <1>5, <1>6, <1>7, <1>8, <1>9, <1>10, <1>11 DEF SelfPlayNext

\* Between two root visits nothing is owed, and the books say what SearchIsAccountedFor does.
LEMMA BooksAreTheAccount ==
  ASSUME GameOk, SearchOk, Accounts
  PROVE  SearchIsAccountedFor
<1> SUFFICES ASSUME phase = "visit", setting.driver = "puct", NEW l \in DOMAIN tree
             PROVE  LET node == tree[l]
                        taken == {c \in DOMAIN node.edges : node.edges[c].visits > 0}
                    IN /\ node.visits = SumFunction([m \in Below(l) |-> Arrivals(m)])
                       /\ node.valueSum = SumFunction([m \in Below(l) |-> Contribution(m, l)])
                       /\ node.visitedPrior = SumFunction([c \in taken |-> node.edges[c].prior])
                       /\ \A c \in DOMAIN node.edges :
                            /\ c \in taken <=> Append(l, c) \in DOMAIN tree
                            /\ c \in taken => /\ node.edges[c].visits = tree[Append(l, c)].visits
                                              /\ node.edges[c].valueSum = -tree[Append(l, c)].valueSum
  BY DEF SearchIsAccountedFor, Between
<1> DEFINE node == tree[l]
           taken == {c \in DOMAIN node.edges : node.edges[c].visits > 0}
<1>1. TreeOk /\ Books
  BY DEF SearchOk, Accounts, Searching
<1>2. Nodes(tree) /\ Won \in [Seq(Codes) -> BOOLEAN] /\ l \in Seq(Codes) /\ NodeOk(node, l)
  BY <1>1, NodesOfTree DEF TreeOk
<1>3. NodeAccount(l) /\ PriorAccount(l) /\ EdgeAccount(l)
  BY <1>1 DEF Books
<1>4. \A m \in DOMAIN tree \ {<<>>} : tree[m].visits # 0 /\ (tree[m].terminal \/ tree[m].expanded)
  BY <1>1 DEF Books, NoneFresh
<1>5. Balanced(tree, Won, l, 0, 0)
  <2>1. Late(l) = 0 /\ Owed(l) = 0
    BY DEF Late, Owed, Pending
  <2> QED BY <1>3, <2>1 DEF NodeAccount
<1>6. \A m \in DOMAIN tree : /\ m \in Seq(Codes) /\ tree[m].visits \in Nat /\ tree[m].valueSum \in Int /\ tree[m].value \in Int
                             /\ (tree[m].expanded => ~tree[m].terminal)
  BY <1>2 DEF Nodes, NodeOk, NodeIs
<1>7. tree[<<>>].expanded /\ ~tree[<<>>].terminal
  BY <1>1, <1>6 DEF TreeOk
<1> DEFINE S == BelowIn(tree, l)
           f == [m \in Below(l) |-> Arrivals(m)]
           g == [m \in Below(l) |-> Contribution(m, l)]
<1>8. Below(l) = S /\ IsFiniteSet(S) /\ S \in SUBSET DOMAIN tree
  BY <1>2, BalanceTyped DEF Below, BelowIn
<1>9. \A m \in S : f[m] = AllSent(tree)[m]
  <2> TAKE m \in S
  <2>1. m \in DOMAIN tree /\ f[m] = Arrivals(m)
    BY <1>8
  <2> HIDE DEF S, f
  <2>2. AllSent(tree)[m] = Sent(tree[m], m)
    BY <2>1 DEF AllSent
  <2>3. Arrivals(m) = Sent(tree[m], m)
    BY <1>4, <1>7, <2>1 DEF Arrivals, Sent
  <2> QED BY <2>1, <2>2, <2>3
<1>10. \A m \in S : g[m] = AllGiven(tree, Won, l)[m]
  <2> TAKE m \in S
  <2> DEFINE own == Given(tree[m], m, Won[m])
             k == Len(m) - Len(l)
  <2>1. m \in DOMAIN tree /\ g[m] = Contribution(m, l)
    BY <1>8
  <2>2. AllGiven(tree, Won, l)[m] = Signed(k, own)
    BY <1>2, BalanceTyped
  <2> HIDE DEF S, g
  <2>3. Won[m] <=> world.result[At(m)] = "win"
    BY <1>6, <2>1 DEF Won
  <2>4. own \in Int
    BY <1>2, <2>1, BalanceTyped
  <2>5. own = IF tree[m].terminal
              THEN IF world.result[At(m)] = "win" THEN -Unit * tree[m].visits ELSE 0
              ELSE IF m = <<>> THEN 0 ELSE tree[m].value
    BY <1>4, <1>7, <2>1, <2>3 DEF Given
  <2>6. Contribution(m, l) = IF k % 2 = 0 THEN own ELSE -own
    BY <2>5 DEF Contribution
  <2> HIDE DEF own, k
  <2>7. -own = 0 - own
    BY <2>4
  <2> QED BY <2>1, <2>2, <2>6, <2>7 DEF Signed
<1>11. node.visits = SumFunction(f) /\ node.valueSum = SumFunction(g)
  <2>1. DOMAIN f = S /\ DOMAIN g = S
    BY <1>8
  <2>2. /\ node.visits + 0 = SumFunctionOnSet(AllSent(tree), S)
        /\ node.valueSum + 0 = SumFunctionOnSet(AllGiven(tree, Won, l), S)
    BY <1>5 DEF Balanced
  <2> HIDE DEF f, g, S
  <2>3. SumFunctionOnSet(f, S) = SumFunctionOnSet(AllSent(tree), S)
    BY <1>8, <1>9, SumSame
  <2>4. SumFunctionOnSet(g, S) = SumFunctionOnSet(AllGiven(tree, Won, l), S)
    BY <1>8, <1>10, SumSame
  <2>5. node.visits = node.visits + 0 /\ node.valueSum = node.valueSum + 0
    BY <1>6
  <2> QED BY <2>1, <2>2, <2>3, <2>4, <2>5 DEF SumFunction
<1>12. \A c \in DOMAIN node.edges :
         /\ c \in taken <=> Append(l, c) \in DOMAIN tree
         /\ c \in taken => /\ node.edges[c].visits = tree[Append(l, c)].visits
                           /\ node.edges[c].valueSum = -tree[Append(l, c)].valueSum
  <2> TAKE c \in DOMAIN node.edges
  <2> DEFINE edge == node.edges[c]
             kid == Append(l, c)
  <2>1. IF kid \in DOMAIN tree
        THEN edge.visits + 0 = tree[kid].visits /\ edge.valueSum - 0 = -tree[kid].valueSum
        ELSE edge.visits = 0 /\ edge.valueSum = 0
    BY <1>3 DEF EdgeAccount, Lag
  <2>2. edge.visits \in Nat /\ edge.valueSum \in Int /\ c \in Codes
    <3>1. EdgeOk(edge)
      BY <1>2 DEF NodeOk, NodeIs
    <3>2. c \in Codes
      BY <1>2, WorldSays DEF NodeOk, NodeIs
    <3> QED BY <3>1, <3>2 DEF EdgeOk
  <2>3. kid # <<>>
    BY <1>2, <2>2, LineEnds
  <2>4. c \in taken <=> edge.visits > 0
    OBVIOUS
  <2>5. kid \in DOMAIN tree => tree[kid].visits \in Nat \ {0}
    BY <1>4, <1>6, <2>3
  <2> HIDE DEF edge, kid, taken
  <2>6. c \in taken <=> kid \in DOMAIN tree
    BY <2>1, <2>2, <2>4, <2>5
  <2>7. kid \in DOMAIN tree => edge.visits = tree[kid].visits /\ edge.valueSum = -tree[kid].valueSum
    BY <2>1, <2>2
  <2> QED BY <2>6, <2>7 DEF edge, kid
<1>13. node.visitedPrior = SumFunction([c \in taken |-> node.edges[c].prior])
  <2> DEFINE p == [c \in taken |-> node.edges[c].prior]
  <2>1. taken = Children(l)
    BY <1>12 DEF Children
  <2>2. IsFiniteSet(taken) /\ taken \in SUBSET DOMAIN node.edges
    <3>1. IsFiniteSet(DOMAIN node.edges)
      BY <1>2, WorldSays, FS_EmptySet DEF NodeOk, NodeIs
    <3>2. taken \in SUBSET DOMAIN node.edges
      OBVIOUS
    <3> HIDE DEF taken
    <3> QED BY <3>1, <3>2, FS_Subset
  <2>3. \A c \in taken : p[c] = PriorsOf(node)[c]
    BY <2>2 DEF PriorsOf
  <2>4. DOMAIN p = taken
    OBVIOUS
  <2>5. node.visitedPrior = SumFunctionOnSet(PriorsOf(node), taken)
    BY <1>3, <2>1 DEF PriorAccount
  <2> HIDE DEF p, taken
  <2>6. SumFunctionOnSet(p, taken) = SumFunctionOnSet(PriorsOf(node), taken)
    BY <2>2, <2>3, SumSame
  <2>7. SumFunction(p) = SumFunctionOnSet(p, taken)
    BY <2>4 DEF SumFunction
  <2>8. node.visitedPrior = SumFunction(p)
    BY <2>5, <2>6, <2>7
  <2> QED BY <2>8 DEF p
<1> QED BY <1>11, <1>12, <1>13

-----------------------------------------------------------------------------
(* The best few.                                                           *)

BestFew(S, w, k) == {c \in S : Cardinality({d \in S : w[d] > w[c] \/ (w[d] = w[c] /\ d < c)}) < k}

\* Of any candidates whose worths are numbers, at most k are among the k best, and one is.
LEMMA TopBounded ==
  ASSUME NEW S \in SUBSET Nat, IsFiniteSet(S), NEW w, \A c \in S : w[c] \in Int, NEW k \in Nat \ {0}
  PROVE  LET T == BestFew(S, w, k)
         IN T \in SUBSET S /\ IsFiniteSet(T) /\ Cardinality(T) <= k /\ (S # {} => T # {})
<1> DEFINE Better(c) == {d \in S : w[d] > w[c] \/ (w[d] = w[c] /\ d < c)}
           T == {c \in S : Cardinality(Better(c)) < k}
           f == [c \in T |-> Cardinality(Better(c))]
<1>1. T \in SUBSET S /\ IsFiniteSet(T)
  <2>1. T \in SUBSET S
    OBVIOUS
  <2> QED BY <2>1, FS_Subset
<1>2. \A c \in S : IsFiniteSet(Better(c)) /\ Cardinality(Better(c)) \in Nat
  <2> TAKE c \in S
  <2>1. Better(c) \in SUBSET S
    OBVIOUS
  <2> HIDE DEF Better
  <2> QED BY <2>1, FS_Subset, FS_CardinalityType
<1>3. ASSUME NEW c \in S, NEW d \in S, w[d] > w[c] \/ (w[d] = w[c] /\ d < c)
      PROVE  Cardinality(Better(d)) < Cardinality(Better(c))
  <2>1. \A x \in S : w[x] \in Int /\ x \in Nat
    OBVIOUS
  <2>2. Better(d) \in SUBSET Better(c)
    <3> SUFFICES ASSUME NEW e \in S, w[e] > w[d] \/ (w[e] = w[d] /\ e < d)
                 PROVE  w[e] > w[c] \/ (w[e] = w[c] /\ e < c)
      OBVIOUS
    <3> QED BY <1>3, <2>1
  <2>3. d \in Better(c) /\ d \notin Better(d)
    BY <1>3, <2>1
  <2> HIDE DEF Better
  <2>4. Better(d) # Better(c)
    BY <2>3
  <2> QED BY <1>2, <2>2, <2>4, FS_Subset
<1>4. f \in Injection(T, 0 .. k - 1)
  <2>1. f \in [T -> 0 .. k - 1]
    <3>1. \A c \in T : c \in S /\ Cardinality(Better(c)) < k
      OBVIOUS
    <3> HIDE DEF T, Better
    <3>2. \A c \in T : Cardinality(Better(c)) \in 0 .. k - 1
      <4> TAKE c \in T
      <4> DEFINE n == Cardinality(Better(c))
      <4>1. n \in Nat /\ n < k
        BY <1>2, <3>1
      <4> HIDE DEF n
      <4>2. n \in 0 .. k - 1
        BY <4>1
      <4> QED BY <4>2 DEF n
    <3> QED BY <3>2
  <2>2. ASSUME NEW c \in T, NEW d \in T, f[c] = f[d] PROVE c = d
    <3>1. w[c] \in Int /\ w[d] \in Int /\ c \in Nat /\ d \in Nat
      OBVIOUS
    <3>2. /\ c = d \/ w[d] > w[c] \/ (w[d] = w[c] /\ d < c) \/ w[c] > w[d] \/ (w[c] = w[d] /\ c < d)
      BY <3>1
    <3>3. f[c] = Cardinality(Better(c)) /\ f[d] = Cardinality(Better(d)) /\ c \in S /\ d \in S
      OBVIOUS
    <3> HIDE DEF Better, f, T
    <3>4. f[c] \in Nat /\ f[d] \in Nat
      BY <1>2, <3>3
    <3>5. ~(f[c] < f[d]) /\ ~(f[d] < f[c])
      BY <2>2, <3>4
    <3> QED BY <1>3, <3>2, <3>3, <3>5
  <2> HIDE DEF f, T, Better
  <2> QED BY <2>1, <2>2 DEF Injection, IsInjective
<1>5. Cardinality(T) <= k
  <2>1. IsFiniteSet(0 .. k - 1) /\ Cardinality(0 .. k - 1) = k
    <3>1. k - 1 \in Int /\ 0 <= k - 1 /\ (k - 1) - 0 + 1 = k
      OBVIOUS
    <3> QED BY <3>1, FS_Interval
  <2> HIDE DEF f, T
  <2> QED BY <1>4, <2>1, FS_Injection
<1>6. S # {} => T # {}
  <2> SUFFICES ASSUME S # {} PROVE T # {}
    OBVIOUS
  <2> HIDE DEF T, Better, f
  <2>1. \E c \in S : Cardinality({d \in S : w[d] > w[c] \/ (w[d] = w[c] /\ d < c)}) < k
    BY TopExists
  <2> QED BY <2>1 DEF T, Better
<1>7. T = BestFew(S, w, k)
  BY DEF BestFew
<1> HIDE DEF T
<1> QED BY <1>1, <1>5, <1>6, <1>7

-----------------------------------------------------------------------------
(* The visits of a round.                                                  *)

\* Of two numbers Max and Min are the larger and the smaller.
LEMMA LargerSmaller ==
  ASSUME NEW a \in Int, NEW b \in Int
  PROVE  /\ Max({a, b}) = IF a >= b THEN a ELSE b
         /\ Min({a, b}) = IF a <= b THEN a ELSE b
<1>1. Max({a, b}) = CHOOSE x \in {a, b} : \A y \in {a, b} : x >= y
  BY DEF Max
<1>2. Min({a, b}) = CHOOSE x \in {a, b} : \A y \in {a, b} : x <= y
  BY DEF Min
<1>3. \E x \in {a, b} : \A y \in {a, b} : x >= y
  OBVIOUS
<1>4. \E x \in {a, b} : \A y \in {a, b} : x <= y
  OBVIOUS
<1>5. Max({a, b}) \in {a, b} /\ \A y \in {a, b} : Max({a, b}) >= y
  BY <1>1, <1>3
<1>6. Min({a, b}) \in {a, b} /\ \A y \in {a, b} : Min({a, b}) <= y
  BY <1>2, <1>4
<1> QED BY <1>5, <1>6

\* A halving takes some number of rounds, never none.
LEMMA RoundsNat == ASSUME NEW k \in Nat PROVE Rounds(k) \in Nat \ {0}
<1> DEFINE R == {r \in 0 .. k : 2^r < k}
           n == Cardinality(R)
<1>1. n \in Nat
  <2>1. IsFiniteSet(0 .. k)
    BY FS_Interval
  <2>2. R \in SUBSET (0 .. k)
    OBVIOUS
  <2> HIDE DEF R
  <2>3. IsFiniteSet(R)
    BY <2>1, <2>2, FS_Subset
  <2> QED BY <2>3, FS_CardinalityType
<1>2. Rounds(k) = Max({1, n})
  BY DEF Rounds
<1> HIDE DEF n
<1> QED BY <1>1, <1>2, LargerSmaller

\* The visits of passes are shared out evenly: each code gets the same number, and those
\* that the last pass reaches one more.
LEMMA InPassesTimes ==
  ASSUME NEW codes \in SUBSET Nat, IsFiniteSet(codes), codes # {}, NEW n \in Nat
  PROVE  LET p == InPasses(codes, n)
             k == Cardinality(codes)
         IN /\ k \in Nat \ {0} /\ p \in Seq(codes) /\ Len(p) = n
            /\ \A c \in codes : /\ Rank(codes, c) \in 0 .. k - 1
                                /\ Times(p, c) = (n \div k) + (IF Rank(codes, c) < n % k THEN 1 ELSE 0)
<1> DEFINE k == Cardinality(codes)
           At1(i) == (i - 1) % k
           p == [i \in 1 .. n |-> Ascending(codes)[At1(i) + 1]]
<1>1. k \in Nat \ {0}
  BY FS_CardinalityType, FS_EmptySet
<1>2. ASSUME NEW i \in 1 .. n PROVE At1(i) + 1 \in 1 .. k /\ At1(i) \in Nat
  <2>1. i - 1 \in Nat
    OBVIOUS
  <2>2. (i - 1) % k \in 0 .. k - 1
    <3> DEFINE j == i - 1
    <3>1. j \in Nat
      BY <2>1
    <3> HIDE DEF j, k
    <3>2. j % k \in 0 .. k - 1
      BY <1>1, <3>1, DivisionSteps
    <3> QED BY <3>2 DEF j
  <2> DEFINE a == (i - 1) % k
  <2>3. a \in 0 .. k - 1
    BY <2>2
  <2> HIDE DEF a, k
  <2>4. a + 1 \in 1 .. k /\ a \in Nat
    BY <1>1, <2>3
  <2> QED BY <2>4 DEF a
<1>3. p = InPasses(codes, n)
  BY DEF InPasses
<1> HIDE DEF At1
<1>4. ASSUME NEW i \in 1 .. n
      PROVE  p[i] \in codes /\ \A c \in codes : p[i] = c <=> Rank(codes, c) = At1(i)
  <2> DEFINE j == At1(i) + 1
  <2>1. p[i] = Ascending(codes)[j]
    OBVIOUS
  <2>2. j \in 1 .. k /\ At1(i) \in Nat /\ j - 1 = At1(i)
    BY <1>2
  <2> HIDE DEF j, p, k
  <2>3. Ascending(codes)[j] \in codes /\ \A c \in codes : Ascending(codes)[j] = c <=> Rank(codes, c) = j - 1
    BY <2>2, AscendingHolds DEF k
  <2> QED BY <2>1, <2>2, <2>3
<1>5. p \in Seq(codes) /\ Len(p) = n /\ DOMAIN p = 1 .. n
  <2>1. p \in [1 .. n -> codes]
    BY <1>4
  <2> HIDE DEF p
  <2> QED BY <2>1
<1>6. ASSUME NEW c \in codes
      PROVE  /\ Rank(codes, c) \in 0 .. k - 1
             /\ Times(p, c) = (n \div k) + (IF Rank(codes, c) < n % k THEN 1 ELSE 0)
  <2> DEFINE r == Rank(codes, c)
  <2>1. r \in 0 .. k - 1
    BY RankLess
  <2>2. {i \in DOMAIN p : p[i] = c} = {i \in 1 .. n : (i - 1) % k = r}
    <3>1. \A i \in 1 .. n : p[i] = c <=> (i - 1) % k = r
      BY <1>4 DEF At1
    <3> HIDE DEF p, r, k
    <3> QED BY <1>5, <3>1
  <2>3. Times(p, c) = Cardinality({i \in 1 .. n : (i - 1) % k = r})
    BY <2>2 DEF Times
  <2> HIDE DEF p, r, k
  <2>4. Cardinality({i \in 1 .. n : (i - 1) % k = r}) = (n \div k) + (IF r < n % k THEN 1 ELSE 0)
    BY <1>1, <2>1, Shares
  <2> QED BY <2>1, <2>3, <2>4 DEF r
<1> HIDE DEF p
<1> QED BY <1>1, <1>3, <1>5, <1>6

\* What a plan gives each of the chosen: the same to all of them unless the budget cuts it
\* short, and then one more to some; something to each if they are all considered and the
\* budget is enough for that.
LEMMA PassesShare ==
  ASSUME GameOk, NEW chosen \in SUBSET Nat, IsFiniteSet(chosen), chosen # {},
         NEW m \in Nat, NEW spent \in 0 .. setting.simulations
  PROVE  LET p == Passes(chosen, m, spent)
             k == Cardinality(chosen)
             left == setting.simulations - spent
         IN /\ p \in Seq(chosen) /\ Len(p) \in 0 .. left
            /\ \A c \in chosen : Times(p, c) \in Nat
            /\ \A c, s \in chosen : Times(p, c) = Times(p, s) \/ Len(p) = left
            /\ \A c, s \in chosen : Times(p, c) <= Times(p, s) + 1
            /\ k = 1 /\ setting.driver = "puct" => Len(p) = left
            /\ left >= k /\ (k > 1 \/ setting.driver = "puct") => \A c \in chosen : Times(p, c) > 0
<1> DEFINE sims == setting.simulations
           k == Cardinality(chosen)
           left == sims - spent
           passes == Max({1, sims \div (Rounds(m) * k)})
           n == Min({left, passes * k})
           p == Passes(chosen, m, spent)
<1>1. sims \in Nat \ {0} /\ setting.driver \in {"puct", "gumbel"}
  BY SearchAssumption DEF GameOk
<1>2. left \in Nat
  BY <1>1
<1>3. k \in Nat \ {0}
  BY FS_CardinalityType, FS_EmptySet
<1>4. passes \in Nat \ {0}
  <2> DEFINE d == Rounds(m) * k
  <2>1. d \in Nat \ {0}
    <3> DEFINE r == Rounds(m)
    <3>1. r \in Nat \ {0}
      BY RoundsNat
    <3> HIDE DEF r, k
    <3>2. r * k \in Nat \ {0}
      BY <1>3, <3>1, SMT
    <3> QED BY <3>2 DEF r
  <2> HIDE DEF d, sims
  <2>2. sims \div d \in Nat
    BY <1>1, <2>1, SMT
  <2> DEFINE q == sims \div d
  <2>3. Max({1, q}) = IF 1 >= q THEN 1 ELSE q
    BY <2>2, LargerSmaller
  <2>4. passes = Max({1, q})
    BY DEF d
  <2> HIDE DEF q, passes
  <2>5. q \in Nat
    BY <2>2 DEF q
  <2> QED BY <2>3, <2>4, <2>5
<1>5. p = IF k > 1 THEN InPasses(chosen, n) ELSE IF setting.driver = "puct" THEN InPasses(chosen, left) ELSE <<>>
  BY DEF Passes
<1> HIDE DEF sims, k, left, passes, p
<1> HIDE DEF n
<1>6. n \in Nat /\ n <= left /\ (n = left \/ n = passes * k)
  <2> DEFINE a == passes * k
  <2>1. a \in Nat
    BY <1>3, <1>4, SMT
  <2>3. n = Min({left, a})
    BY DEF n
  <2> HIDE DEF a
  <2>4. left \in Int /\ a \in Int
    BY <1>2, <2>1
  <2>2. Min({left, a}) = IF left <= a THEN left ELSE a
    BY <2>4, LargerSmaller, Zenon
  <2> QED BY <1>2, <2>1, <2>2, <2>3 DEF a
<1>7. ASSUME NEW x \in Nat, x = left \/ (x = passes * k /\ x <= left)
      PROVE  LET q == InPasses(chosen, x)
             IN /\ q \in Seq(chosen) /\ Len(q) \in 0 .. left /\ (x = left => Len(q) = left)
                /\ \A c \in chosen : Times(q, c) \in Nat
                /\ \A c, s \in chosen : Times(q, c) = Times(q, s) \/ Len(q) = left
                /\ \A c, s \in chosen : Times(q, c) <= Times(q, s) + 1
                /\ left >= k => \A c \in chosen : Times(q, c) > 0
  <2> DEFINE q == InPasses(chosen, x)
             quo == x \div k
             rem == x % k
  <2>1. /\ q \in Seq(chosen) /\ Len(q) = x
        /\ \A c \in chosen : /\ Rank(chosen, c) \in 0 .. k - 1
                             /\ Times(q, c) = quo + (IF Rank(chosen, c) < rem THEN 1 ELSE 0)
    BY InPassesTimes DEF k
  <2>2. quo \in Nat /\ rem \in 0 .. k - 1
    BY <1>3, DivisionSteps
  <2>3. x = passes * k => rem = 0
    <3> SUFFICES ASSUME x = passes * k PROVE rem = 0
      OBVIOUS
    <3>1. x = k * passes + 0 /\ 0 \in 0 .. k - 1
      BY <1>3, <1>4, SMT
    <3> QED BY <1>3, <1>4, <3>1, DivisionIsUnique
  <2>4. x >= k => quo > 0
    <3> SUFFICES ASSUME x >= k, quo = 0 PROVE FALSE
      BY <2>2
    <3>2. x = k * quo + rem
      BY <1>3, SMT
    <3> HIDE DEF quo, rem
    <3>3. k * 0 = 0
      BY <1>3
    <3> QED BY <1>3, <2>2, <3>2, <3>3
  <2>5. left >= k => x >= k
    <3>1. passes * k >= k
      BY <1>3, <1>4, SMT
    <3> QED BY <1>2, <1>3, <1>7, <3>1
  <2> HIDE DEF q, quo, rem
  <2>6. \A c \in chosen : Times(q, c) \in Nat /\ quo <= Times(q, c) /\ Times(q, c) <= quo + 1
    BY <2>1, <2>2
  <2>7. \A c, s \in chosen : Times(q, c) <= Times(q, s) + 1
    BY <2>2, <2>6
  <2>8. \A c, s \in chosen : Times(q, c) = Times(q, s) \/ Len(q) = left
    <3>1. CASE x = left
      BY <2>1, <3>1
    <3>2. CASE x = passes * k
      <4>1. \A c \in chosen : Times(q, c) = quo
        <5> TAKE c \in chosen
        <5>1. ~(Rank(chosen, c) < rem)
          BY <1>3, <2>1, <2>3, <3>2
        <5> QED BY <2>1, <2>2, <5>1
      <4> QED BY <4>1
    <3> QED BY <1>7, <3>1, <3>2
  <2>9. left >= k => \A c \in chosen : Times(q, c) > 0
    BY <2>2, <2>4, <2>5, <2>6
  <2>10. Len(q) \in 0 .. left /\ (x = left => Len(q) = left)
    BY <1>2, <1>7, <2>1
  <2> QED BY <2>1, <2>6, <2>7, <2>8, <2>9, <2>10 DEF q
<1>8. CASE k > 1
  <2>1. p = InPasses(chosen, n)
    BY <1>5, <1>8
  <2>2. n = left \/ (n = passes * k /\ n <= left)
    BY <1>6
  <2>3. k # 1
    BY <1>8
  <2> QED BY <1>6, <1>7, <2>1, <2>2, <2>3, <1>8 DEF p, k, left, sims
<1>9. CASE k <= 1 /\ setting.driver = "puct"
  <2>1. p = InPasses(chosen, left)
    BY <1>3, <1>5, <1>9
  <2> QED BY <1>2, <1>7, <2>1 DEF p, k, left, sims
<1>10. CASE k <= 1 /\ setting.driver # "puct"
  <2>1. p = <<>>
    BY <1>3, <1>5, <1>10
  <2>2. p \in Seq(chosen) /\ Len(p) = 0
    BY <2>1
  <2>3. \A c : Times(p, c) = 0
    <3> TAKE c
    <3>1. {i \in DOMAIN p : p[i] = c} = {}
      BY <2>1
    <3> QED BY <3>1, FS_EmptySet DEF Times
  <2>4. Len(p) \in 0 .. left
    BY <1>2, <2>2
  <2>5. ~(k > 1)
    BY <1>3, <1>10
  <2> QED BY <1>10, <2>2, <2>3, <2>4, <2>5 DEF p, k, left, sims
<1> QED BY <1>3, <1>8, <1>9, <1>10

\* A visit that is taken off the plan is one fewer for its action and for no other.
LEMMA TimesTail ==
  ASSUME NEW S, NEW p \in Seq(S), NEW c
  PROVE  /\ Times(p, c) \in Nat
         /\ p # <<>> => /\ Times(Tail(p), c) \in Nat
                        /\ Times(p, c) = Times(Tail(p), c) + (IF Head(p) = c THEN 1 ELSE 0)
<1> DEFINE H(q) == {i \in DOMAIN q : q[i] = c}
<1>1. \A q \in Seq(S) : IsFiniteSet(H(q)) /\ Cardinality(H(q)) \in Nat
  <2> TAKE q \in Seq(S)
  <2>1. DOMAIN q = 1 .. Len(q) /\ Len(q) \in Nat
    OBVIOUS
  <2>2. IsFiniteSet(1 .. Len(q))
    BY <2>1, FS_Interval
  <2>3. H(q) \in SUBSET (1 .. Len(q))
    BY <2>1
  <2> HIDE DEF H
  <2> QED BY <2>2, <2>3, FS_Subset, FS_CardinalityType
<1>2. ASSUME p # <<>>
      PROVE  /\ Times(Tail(p), c) \in Nat
             /\ Times(p, c) = Times(Tail(p), c) + (IF Head(p) = c THEN 1 ELSE 0)
  <2> DEFINE t == Tail(p)
             L == H(p) \ {1}
             f == [i \in H(t) |-> i + 1]
  <2>1. /\ t \in Seq(S) /\ Len(t) = Len(p) - 1 /\ Len(p) \in Nat \ {0} /\ Head(p) = p[1]
        /\ \A i \in 1 .. Len(t) : t[i] = p[i + 1]
    BY <1>2
  <2> HIDE DEF t
  <2>2. \A i : i \in H(t) <=> i \in 1 .. Len(t) /\ t[i] = c
    BY <2>1
  <2>3. \A i : i \in L <=> i \in 2 .. Len(p) /\ p[i] = c
    BY <2>1
  <2>4. f \in Bijection(H(t), L)
    <3>1. \A i \in H(t) : f[i] = i + 1 /\ i \in Nat /\ i + 1 \in L
      BY <2>1, <2>2, <2>3
    <3>2. \A j \in L : j - 1 \in H(t) /\ f[j - 1] = j
      BY <2>1, <2>2, <2>3
    <3> HIDE DEF L, H
    <3>3. f \in [H(t) -> L]
      BY <3>1
    <3> HIDE DEF f
    <3>4. \A i, k \in H(t) : f[i] = f[k] => i = k
      BY <3>1
    <3>5. \A j \in L : \E i \in H(t) : f[i] = j
      BY <3>2
    <3> QED BY <3>3, <3>4, <3>5 DEF Bijection, Injection, IsInjective, Surjection
  <2> HIDE DEF f, L
  <2>5. Cardinality(L) = Cardinality(H(t))
    BY <1>1, <2>1, <2>4, FS_Bijection DEF ExistsBijection
  <2>6. 1 \in H(p) <=> Head(p) = c
    BY <2>1
  <2>10. Times(p, c) = Cardinality(H(p)) /\ Times(t, c) = Cardinality(H(t))
    BY DEF Times
  <2> HIDE DEF H
  <2>7. IsFiniteSet(H(p)) /\ Cardinality(H(p)) \in Nat /\ Cardinality(H(t)) \in Nat
    BY <1>1, <2>1
  <2>8. CASE Head(p) = c
    <3>1. Cardinality(L) = Cardinality(H(p)) - 1
      BY <2>6, <2>7, <2>8, FS_RemoveElement DEF L
    <3> QED BY <2>10, <2>5, <2>7, <2>8, <3>1 DEF t
  <2>9. CASE Head(p) # c
    <3>1. L = H(p)
      BY <2>6, <2>9 DEF L
    <3> QED BY <2>10, <2>5, <2>7, <2>9, <3>1 DEF t
  <2> QED BY <2>8, <2>9
<1>3. Times(p, c) \in Nat
  BY <1>1 DEF Times
<1> QED BY <1>2, <1>3

\* An action that the root has an edge for is due a number of visits.
LEMMA DueNat ==
  ASSUME GameOk, SearchOk, Searching, plan \in Seq(survivors), NEW c \in LegalAfter(<<>>)
  PROVE  RootEdge(c).visits \in Nat /\ Due(c) \in Nat /\ Times(plan, c) \in Nat /\ RootEdge(c).valueSum \in Int
<1>1. TreeOk
  BY DEF SearchOk
<1>2. NodeOk(Root, <<>>) /\ Root.expanded
  BY <1>1 DEF TreeOk, Root
<1>3. EdgeOk(RootEdge(c))
  BY <1>2 DEF NodeOk, NodeIs, RootEdge
<1>4. Times(plan, c) \in Nat
  BY TimesTail
<1>5. RootEdge(c).visits \in Nat /\ RootEdge(c).valueSum \in Int
  BY <1>3 DEF EdgeOk
<1> QED BY <1>4, <1>5 DEF Due

\* The shares of a round are fixed by what the actions are due and what is committed.
LEMMA SharesKept ==
  ASSUME SharesOk, survivors \in SUBSET considered, UNCHANGED <<considered, survivors, setting>>,
         Committed' = Committed, \A c \in considered : Due(c)' = Due(c)
  PROVE  SharesOk'
BY DEF SharesOk

\* The legal actions of the root are fixed while the game is.
LEMMA LegalKept == ASSUME UNCHANGED <<world, game>> PROVE LegalAfter(<<>>)' = LegalAfter(<<>>)
BY DEF LegalAfter, At

\* A search begins with a round over the considered, out of the whole budget.
LEMMA BudgetOpens == ASSUME GameOk, Search PROVE BudgetOk'
<1>1. /\ NodeOk(tree'[<<>>], <<>>) /\ DOMAIN tree'[<<>>].edges = LegalAfter(<<>>)
      /\ \A c \in LegalAfter(<<>>) : tree'[<<>>].edges[c].visits = 0
      /\ UNCHANGED <<world, setting, game>>
      /\ IsFiniteSet(LegalAfter(<<>>)) /\ LegalAfter(<<>>) \in SUBSET Codes /\ LegalAfter(<<>>) # {}
  BY SearchStarts
<1>2. PICK drawn \in world.scores :
        LET scores == [c \in LegalAfter(<<>>) |-> drawn[c]]
            top    == Considered(scores)
        IN score' = scores /\ considered' = top /\ survivors' = top /\ plan' = Passes(top, Cardinality(top), 0)
  BY DEF Search
<1>3. phase' = "visit" /\ used' = 0 /\ evaluations' = 0 /\ line' = <<>>
  BY DEF Search
<1> DEFINE L == LegalAfter(<<>>)
           scores == [c \in L |-> drawn[c]]
           top == Considered(scores)
           k == setting.maxConsidered
           sims == setting.simulations
<1>4. drawn \in [Codes -> Int]
  BY WorldsAssumption DEF GameOk
<1>5. \A c \in L : scores[c] \in Int
  BY <1>1, <1>4
<1>6. k \in Nat \ {0} /\ sims \in Nat \ {0}
  BY SearchAssumption DEF GameOk
<1>7. /\ top \in SUBSET L /\ IsFiniteSet(top) /\ Cardinality(top) <= k /\ top # {}
  <2>1. DOMAIN scores = L
    OBVIOUS
  <2> DEFINE w == scores
  <2>2. top = BestFew(L, w, k)
    BY DEF Considered, TopScored, BestFew
  <2>3. L \in SUBSET Nat /\ IsFiniteSet(L) /\ L # {} /\ \A c \in L : w[c] \in Int
    BY <1>1, <1>5, SearchAssumption
  <2> HIDE DEF L, w, k, top
  <2> QED BY <1>6, <2>2, <2>3, TopBounded
<1>8. Cardinality(top) \in Nat \ {0} /\ top \in SUBSET Nat
  BY <1>1, <1>7, SearchAssumption, FS_CardinalityType, FS_EmptySet
<1> DEFINE p == Passes(top, Cardinality(top), 0)
<1>9. score' = scores /\ considered' = top /\ survivors' = top /\ plan' = p
  BY <1>2
<1> HIDE DEF L, scores, top
<1>10. /\ p \in Seq(top) /\ Len(p) \in 0 .. sims - 0
       /\ \A c \in top : Times(p, c) \in Nat
       /\ \A c, s \in top : Times(p, c) = Times(p, s) \/ Len(p) = sims - 0
       /\ \A c, s \in top : Times(p, c) <= Times(p, s) + 1
       /\ Cardinality(top) = 1 /\ setting.driver = "puct" => Len(p) = sims - 0
       /\ sims - 0 >= Cardinality(top) /\ (Cardinality(top) > 1 \/ setting.driver = "puct")
            => \A c \in top : Times(p, c) > 0
  <2>1. 0 \in 0 .. sims
    BY <1>6
  <2> HIDE DEF p
  <2> QED BY <1>7, <1>8, <2>1, PassesShare DEF p
<1> HIDE DEF p, k, sims
<1>11. sims - 0 = sims
  BY <1>6
<1>12. \A c \in top : RootEdge(c)'.visits = 0
  BY <1>1, <1>7 DEF RootEdge, Root, L
<1>13. \A c \in top : Due(c)' = Times(p, c)
  <2> TAKE c \in top
  <2>1. Due(c)' = RootEdge(c)'.visits + (IF InFlight(c)' THEN 1 ELSE 0) + Times(plan', c)
    BY DEF Due
  <2>2. ~InFlight(c)'
    BY <1>3 DEF InFlight
  <2>3. Times(p, c) \in Nat
    BY <1>10
  <2> QED BY <1>9, <1>12, <2>1, <2>2, <2>3
<1>14. Committed' = Len(p)
  <2>1. Committed' = used' + 0 + Len(plan')
    BY <1>3 DEF Committed
  <2> QED BY <1>3, <1>9, <1>10, <2>1
<1>15. L' = L
  BY <1>1, LegalKept DEF L
<1>16. PlanOk'
  <2>1. \A c \in L' : score'[c] \in Int
    BY <1>5, <1>9, <1>15
  <2>2. setting' = setting
    BY <1>1
  <2> QED BY <1>3, <1>7, <1>9, <1>10, <1>15, <2>1, <2>2 DEF PlanOk, L, k
<1>17. SharesOk'
  <2>1. setting' = setting
    BY <1>1
  <2> QED BY <1>6, <1>9, <1>10, <1>11, <1>13, <1>14, <2>1 DEF SharesOk, sims
<1>18. used' = SumFunctionOnSet(VisitCounts', considered')
  <2> DEFINE f == VisitCounts'
  <2>1. \A c \in top : f[c] \in Nat /\ f[c] = 0
    BY <1>9, <1>12 DEF VisitCounts
  <2> HIDE DEF f
  <2>2. SumFunctionOnSet(f, top) = 0
    BY <1>7, <2>1, SumNat
  <2> QED BY <1>3, <1>9, <2>2 DEF f
<1> QED BY <1>16, <1>17, <1>18 DEF BudgetOk

\* The largest of a finite nonempty family of numbers is a number.
LEMMA LargestOf ==
  ASSUME NEW S \in SUBSET Nat, IsFiniteSet(S), S # {}, NEW f, \A c \in S : f[c] \in Nat
  PROVE  Max({f[c] : c \in S}) \in Nat
<1>1. \E c \in S : \A d \in S \ {c} : f[c] > f[d] \/ (f[c] = f[d] /\ c < d)
  BY BestExists
<1>2. PICK c \in S : \A d \in S \ {c} : f[c] > f[d] \/ (f[c] = f[d] /\ c < d)
  BY <1>1
<1> DEFINE V == {f[d] : d \in S}
<1>3. \A d \in S : f[c] >= f[d]
  BY <1>2
<1>4. \E y \in V : \A z \in V : y >= z
  BY <1>3
<1>5. Max(V) \in V
  <2> HIDE DEF V
  <2> QED BY <1>4 DEF Max
<1> QED BY <1>5

\* A step that moves a visit from the plan to the line, or from the line to its edge, keeps
\* the budget.
LEMMA BudgetSteps ==
  ASSUME BudgetOk, Searching,
         UNCHANGED <<world, game, setting, score, considered, survivors>>,
         plan' \in Seq(survivors), phase' # "visit" => line'[1] \in survivors /\ setting.driver = "puct",
         used' \in Nat, evaluations' \in Nat,
         evaluations' <= used' + (IF phase' = "backup" THEN 1 ELSE 0),
         Committed' = Committed, \A c \in considered : Due(c)' = Due(c),
         used' = SumFunctionOnSet(VisitCounts', considered)
  PROVE  BudgetOk'
<1>1. PlanOk /\ SharesOk
  BY DEF BudgetOk
<1>2. LegalAfter(<<>>)' = LegalAfter(<<>>)
  BY LegalKept
<1>3. SharesOk'
  BY <1>1, SharesKept DEF PlanOk
<1>4. PlanOk'
  BY <1>1, <1>2 DEF PlanOk
<1> QED BY <1>3, <1>4 DEF BudgetOk

\* Steps that leave the edges of the root as they are.
LEMMA CountsKept ==
  ASSUME UNCHANGED considered, tree'[<<>>].edges = tree[<<>>].edges
  PROVE  (\A c : RootEdge(c)' = RootEdge(c)) /\ VisitCounts' = VisitCounts
<1>1. ASSUME NEW c PROVE RootEdge(c)' = RootEdge(c)
  BY DEF RootEdge, Root
<1>2. VisitCounts' = VisitCounts
  BY DEF VisitCounts, RootEdge, Root
<1> QED BY <1>1, <1>2

\* A root visit that ends is counted at its edge.
LEMMA VisitCounted ==
  ASSUME GameOk, SearchOk, BudgetOk, Searching, NEW c \in survivors, UNCHANGED considered,
         RootEdge(c)'.visits = RootEdge(c).visits + 1,
         \A d \in considered : d # c => RootEdge(d)'.visits = RootEdge(d).visits,
         used' = used + 1
  PROVE  used' = SumFunctionOnSet(VisitCounts', considered)
<1> DEFINE f == VisitCounts
           g == VisitCounts'
<1>1. /\ c \in considered /\ considered \in SUBSET LegalAfter(<<>>) /\ plan \in Seq(survivors)
      /\ used \in Nat /\ used = SumFunctionOnSet(f, considered)
  BY DEF BudgetOk, PlanOk
<1>2. IsFiniteSet(considered)
  <2>1. IsFiniteSet(LegalAfter(<<>>))
    BY RootLine, WorldSays
  <2> QED BY <1>1, <2>1, FS_Subset
<1>3. \A d \in considered : RootEdge(d).visits \in Nat
  BY <1>1, DueNat
<1>4. \A d \in considered : /\ f[d] = RootEdge(d).visits /\ g[d] = RootEdge(d)'.visits
  BY DEF VisitCounts
<1> HIDE DEF f, g
<1>5. \A d \in considered : f[d] \in Int /\ g[d] \in Int
  BY <1>3, <1>4
<1>6. \A d \in considered \ {c} : f[d] = g[d]
  BY <1>4
<1>7. SumFunctionOnSet(g, considered) = SumFunctionOnSet(f, considered) + (g[c] - f[c])
  BY <1>1, <1>2, <1>5, <1>6, SumChange
<1>8. g[c] - f[c] = 1
  BY <1>1, <1>3, <1>4
<1> QED BY <1>1, <1>7, <1>8 DEF g

\* Every step keeps the budget: a round over the survivors of a halving gives each as many
\* visits again, out of what is left.
LEMMA BudgetNext ==
  ASSUME GameOk, SearchOk, BudgetOk, SelfPlayNext
  PROVE  BudgetOk'
<1>1. CASE Search
  BY <1>1, BudgetOpens
<1>2. ASSUME phase \in {"visit", "descend", "backup"}
      PROVE  /\ Searching /\ PlanOk /\ SharesOk /\ TreeOk /\ used = SumFunctionOnSet(VisitCounts, considered)
             /\ plan \in Seq(survivors) /\ Len(plan) \in Nat /\ used \in Nat /\ evaluations \in Nat
             /\ evaluations <= used + (IF phase = "backup" THEN 1 ELSE 0)
             /\ \A c \in considered : RootEdge(c).visits \in Nat /\ Times(plan, c) \in Nat /\ c \in LegalAfter(<<>>)
             /\ survivors \in SUBSET considered /\ Committed \in Int
  <2>1. Searching
    BY <1>2 DEF Searching
  <2>2. PlanOk /\ SharesOk /\ TreeOk /\ used = SumFunctionOnSet(VisitCounts, considered)
    BY <2>1 DEF BudgetOk, SearchOk
  <2>3. /\ plan \in Seq(survivors) /\ Len(plan) \in Nat /\ used \in Nat /\ evaluations \in Nat
        /\ evaluations <= used + (IF phase = "backup" THEN 1 ELSE 0) /\ survivors \in SUBSET considered
        /\ considered \in SUBSET LegalAfter(<<>>)
    BY <2>2 DEF PlanOk
  <2>4. \A c \in considered : RootEdge(c).visits \in Nat /\ Times(plan, c) \in Nat /\ c \in LegalAfter(<<>>)
    BY <2>1, <2>3, DueNat
  <2>5. Committed \in Int
    BY <2>3 DEF Committed
  <2> QED BY <2>1, <2>2, <2>3, <2>4, <2>5
<1>3. CASE Visit
  <2> DEFINE c == Head(plan)
  <2>1. /\ phase = "visit" /\ setting.driver = "puct" /\ plan # <<>> /\ tree' = TakeEdge(tree, <<>>, c)
        /\ line' = <<c>> /\ plan' = Tail(plan) /\ phase' = "descend"
        /\ UNCHANGED <<world, setting, game, score, considered, survivors, used, evaluations>>
    BY <1>3 DEF Visit
  <2>2. c \in survivors /\ c \in DOMAIN tree[<<>>].edges /\ Tail(plan) \in Seq(survivors)
    BY <1>2, <2>1, PlanIsLegal
  <2>3. tree'[<<>>].edges = tree[<<>>].edges
    <3>1. TreeOk /\ <<>> \in DOMAIN tree /\ tree[<<>>].expanded
      BY <1>2, <2>1 DEF TreeOk
    <3> HIDE DEF c
    <3> QED BY <2>1, <2>2, <3>1, EdgeTaken
  <2>4. (\A d : RootEdge(d)' = RootEdge(d)) /\ VisitCounts' = VisitCounts
    BY <2>1, <2>3, CountsKept
  <2>5. Len(plan') = Len(plan) - 1 /\ line'[1] = c
    BY <1>2, <2>1
  <2>6. \A d \in considered : Due(d)' = Due(d)
    <3> TAKE d \in considered
    <3>1. Times(plan, d) = Times(plan', d) + (IF c = d THEN 1 ELSE 0) /\ Times(plan', d) \in Nat
      BY <1>2, <2>1, TimesTail
    <3>2. Due(d)' = RootEdge(d).visits + (IF c = d THEN 1 ELSE 0) + Times(plan', d)
      BY <2>1, <2>4, <2>5 DEF Due, InFlight
    <3>3. Due(d) = RootEdge(d).visits + 0 + Times(plan, d)
      BY <2>1 DEF Due, InFlight
    <3>4. RootEdge(d).visits \in Nat
      BY <1>2, <2>1
    <3> HIDE DEF c
    <3> QED BY <3>1, <3>2, <3>3, <3>4
  <2>7. Committed' = Committed
    BY <1>2, <2>1, <2>5 DEF Committed
  <2> HIDE DEF c
  <2> QED BY <1>2, <2>1, <2>2, <2>4, <2>5, <2>6, <2>7, BudgetSteps
<1>4. ASSUME phase \in {"descend", "backup"}, phase' \in {"descend", "backup"},
             UNCHANGED <<world, game, setting, score, considered, survivors, plan, used>>,
             tree'[<<>>].edges = tree[<<>>].edges, line'[1] = line[1],
             evaluations' \in Nat, evaluations' <= used + (IF phase' = "backup" THEN 1 ELSE 0)
      PROVE  BudgetOk'
  <2>1. (\A d : RootEdge(d)' = RootEdge(d)) /\ VisitCounts' = VisitCounts
    BY <1>4, CountsKept
  <2>2. \A d \in considered : Due(d)' = Due(d)
    BY <1>4, <2>1 DEF Due, InFlight
  <2>3. Committed' = Committed
    BY <1>4 DEF Committed
  <2>4. phase' # "visit" => line'[1] \in survivors /\ setting.driver = "puct"
    BY <1>2, <1>4 DEF PlanOk
  <2> QED BY <1>2, <1>4, <2>1, <2>2, <2>3, <2>4, BudgetSteps
<1>5. ASSUME phase \in {"descend", "backup"}
      PROVE  line \in DOMAIN tree /\ line # <<>> /\ line \in Seq(Codes) /\ TreeOk /\ <<>> \in DOMAIN tree
  BY <1>5 DEF SearchOk, Searching, LineOk, TreeOk
<1>6. CASE Descend
  <2> DEFINE c == SelectEdge(tree[line])
  <2>1. /\ phase = "descend" /\ tree[line].expanded /\ tree' = TakeEdge(tree, line, c) /\ line' = Append(line, c)
        /\ UNCHANGED <<world, setting, phase, game, score, considered, survivors, plan, used, evaluations>>
    BY <1>6 DEF Descend
  <2>2. c \in DOMAIN tree[line].edges
    <3>1. NodeOk(tree[line], line) /\ line \in Seq(Codes)
      BY <1>5, <2>1 DEF TreeOk
    <3> QED BY <2>1, <3>1, EdgeSelected
  <2> HIDE DEF c
  <2>3. tree'[<<>>] = tree[<<>>]
    BY <1>5, <2>1, <2>2, EdgeTaken
  <2>4. line'[1] = line[1]
    <3>1. 1 \in 1 .. Len(line)
      BY <1>5, <2>1
    <3> QED BY <1>5, <2>1, <3>1
  <2>5. evaluations <= used
    BY <1>2, <2>1
  <2> QED BY <1>2, <1>4, <2>1, <2>3, <2>4, <2>5
<1>7. CASE ReachTerminal
  <2>1. /\ phase = "descend" /\ phase' = "backup" /\ tree' = [tree EXCEPT ![line] = Counted(@, TerminalValue(line))]
        /\ UNCHANGED <<world, setting, game, score, considered, survivors, plan, used, evaluations, line>>
    BY <1>7 DEF ReachTerminal
  <2>2. tree'[<<>>] = tree[<<>>]
    BY <1>5, <2>1
  <2>3. evaluations <= used + 1
    BY <1>2, <2>1
  <2> QED BY <1>2, <1>4, <2>1, <2>2, <2>3
<1>8. CASE ReachLeaf
  <2>1. /\ phase = "descend" /\ phase' = "backup" /\ evaluations' = evaluations + 1
        /\ tree' = [tree EXCEPT ![line] = Counted(Expand(@, line), world.value[At(line)])]
        /\ UNCHANGED <<world, setting, game, score, considered, survivors, plan, used, line>>
    BY <1>8 DEF ReachLeaf
  <2>2. tree'[<<>>] = tree[<<>>]
    BY <1>5, <2>1
  <2>3. evaluations' \in Nat /\ evaluations' <= used + 1
    BY <1>2, <2>1
  <2> QED BY <1>4, <2>1, <2>2, <2>3
<1>9. CASE Backup
  <2> DEFINE at == Front(line)
             c == Last(line)
             v == -carried
             m == Credited(tree[at], c, v)
  <2>1. /\ at \in DOMAIN tree /\ at \in Seq(Codes) /\ c \in Codes /\ line = Append(at, c) /\ line \in Seq(Codes)
        /\ c \in DOMAIN tree[at].edges /\ NodeOk(tree[at], at) /\ carried \in Int
    BY <1>9, AboveLine DEF Backup
  <2>2. /\ phase = "backup" /\ tree' = [tree EXCEPT ![at] = m] /\ line' = at
        /\ phase' = (IF at = <<>> THEN "visit" ELSE "backup")
        /\ used' = (IF at = <<>> THEN used + 1 ELSE used)
        /\ UNCHANGED <<world, setting, game, score, considered, survivors, plan, evaluations>>
    BY <1>9 DEF Backup, BackedUp
  <2>3. v \in Int
    BY <2>1
  <2>4. /\ m.edges[c].visits = tree[at].edges[c].visits + 1
        /\ \A d \in DOMAIN tree[at].edges : d # c => m.edges[d] = tree[at].edges[d]
    <3> HIDE DEF v, at, c
    <3> QED BY <2>1, <2>3, BackedUpNode
  <2> HIDE DEF m, v, at, c
  <2>5. CASE at # <<>>
    <3>1. tree'[<<>>] = tree[<<>>]
      BY <1>5, <2>2, <2>5
    <3>2. line'[1] = line[1]
      <4>1. Len(at) \in Nat /\ Len(at) # 0
        BY <2>1, <2>5
      <4>2. 1 \in 1 .. Len(at)
        BY <4>1
      <4> QED BY <2>1, <2>2, <4>2
    <3>3. evaluations <= used + 1
      BY <1>2, <2>2
    <3> QED BY <1>2, <1>4, <2>2, <2>5, <3>1, <3>2, <3>3
  <2>6. CASE at = <<>>
    <3>1. line[1] = Last(line)
      BY <2>1, <2>6 DEF c
    <3>2. Last(line) \in survivors
      BY <1>2, <2>2, <3>1 DEF PlanOk
    <3> PICK k \in survivors : k = c
      BY <3>2 DEF c
    <3>3. tree'[<<>>] = m
      BY <1>5, <2>1, <2>2, <2>6
    <3>4. RootEdge(k)'.visits = RootEdge(k).visits + 1
      BY <2>4, <2>6, <3>3 DEF RootEdge, Root
    <3>5. \A d \in considered : d # k => RootEdge(d)' = RootEdge(d)
      <4> TAKE d \in considered
      <4>1. d \in DOMAIN tree[<<>>].edges
        <5>1. DOMAIN tree[<<>>].edges = LegalAfter(<<>>)
          BY <1>5, <2>2 DEF TreeOk, NodeOk, NodeIs
        <5> QED BY <1>2, <2>2, <5>1
      <4> QED BY <2>4, <2>6, <3>3, <4>1 DEF RootEdge, Root
    <3>6. used' = SumFunctionOnSet(VisitCounts', considered)
      BY <1>2, <2>2, <2>6, <3>4, <3>5, VisitCounted
    <3>7. \A d \in considered : Due(d)' = Due(d)
      <4> TAKE d \in considered
      <4>1. Due(d) = RootEdge(d).visits + (IF k = d THEN 1 ELSE 0) + Times(plan, d)
        BY <2>2, <3>1 DEF Due, InFlight, c
      <4>2. Due(d)' = RootEdge(d)'.visits + 0 + Times(plan, d)
        BY <2>2, <2>6 DEF Due, InFlight
      <4>3. RootEdge(d).visits \in Nat /\ Times(plan, d) \in Nat
        BY <1>2, <2>2
      <4>4. RootEdge(d)'.visits = RootEdge(d).visits + (IF k = d THEN 1 ELSE 0)
        BY <3>4, <3>5, <4>3
      <4> QED BY <4>1, <4>2, <4>3, <4>4
    <3>8. Committed' = Committed
      BY <1>2, <2>2, <2>6 DEF Committed
    <3>9. used' \in Nat /\ evaluations' \in Nat /\ evaluations' <= used' + 0 /\ phase' = "visit"
      BY <1>2, <2>2, <2>6
    <3> QED BY <1>2, <2>2, <3>6, <3>7, <3>8, <3>9, BudgetSteps
  <2> QED BY <2>5, <2>6
<1>10. CASE VisitChild
  <2> DEFINE c == Head(plan)
             fresh == RootEdge(c).visits = 0 /\ Ongoing(game \o <<c>>)
  <2>1. /\ phase = "visit" /\ phase' = "visit" /\ plan # <<>> /\ plan' = Tail(plan) /\ used' = used + 1
        /\ tree' = [tree EXCEPT ![<<>>].edges[c] = CountedEdge(@, c)]
        /\ evaluations' = evaluations + (IF fresh THEN 1 ELSE 0)
        /\ UNCHANGED <<world, setting, game, score, considered, survivors>>
    BY <1>10 DEF VisitChild
  <2>2. c \in survivors /\ c \in DOMAIN tree[<<>>].edges /\ Tail(plan) \in Seq(survivors)
        /\ DOMAIN tree[<<>>].edges = LegalAfter(<<>>)
    BY <1>2, <2>1, PlanIsLegal
  <2>3. <<>> \in DOMAIN tree /\ NodeOk(tree[<<>>], <<>>)
    BY <1>2, <2>1 DEF TreeOk
  <2> HIDE DEF c, fresh
  <2>4. \A d \in DOMAIN tree[<<>>].edges :
          tree'[<<>>].edges[d] = IF d = c THEN CountedEdge(tree[<<>>].edges[c], c) ELSE tree[<<>>].edges[d]
    <3> DEFINE n == tree[<<>>]
               e == CountedEdge(tree[<<>>].edges[c], c)
    <3>1. tree'[<<>>] = [n EXCEPT !.edges = [n.edges EXCEPT ![c] = e]]
      BY <2>1, <2>3
    <3>2. "edges" \in DOMAIN n
      BY <2>3 DEF NodeOk, NodeIs, NodeFields
    <3>3. tree'[<<>>].edges = [n.edges EXCEPT ![c] = e]
      BY <3>1, <3>2
    <3> QED BY <3>3
  <2> PICK k \in survivors : k = c
    BY <2>2
  <2>5. RootEdge(k)'.visits = RootEdge(k).visits + 1
    <3> DEFINE e == tree[<<>>].edges[k]
    <3>1. EdgeOk(e)
      BY <2>2, <2>3 DEF NodeOk, NodeIs
    <3>2. RootEdge(k)' = CountedEdge(e, k) /\ RootEdge(k) = e
      BY <2>2, <2>4 DEF RootEdge, Root
    <3> HIDE DEF e
    <3> QED BY <3>1, <3>2 DEF CountedEdge, EdgeOk
  <2>6. \A d \in considered : d # k => RootEdge(d)' = RootEdge(d)
    <3> TAKE d \in considered
    <3>1. d \in DOMAIN tree[<<>>].edges
      BY <1>2, <2>1, <2>2
    <3> QED BY <2>4, <3>1 DEF RootEdge, Root
  <2>7. used' = SumFunctionOnSet(VisitCounts', considered)
    BY <1>2, <2>1, <2>5, <2>6, VisitCounted
  <2>8. Len(plan') = Len(plan) - 1
    BY <1>2, <2>1
  <2>9. \A d \in considered : Due(d)' = Due(d)
    <3> TAKE d \in considered
    <3>1. Times(plan, d) = Times(plan', d) + (IF k = d THEN 1 ELSE 0) /\ Times(plan', d) \in Nat
      BY <1>2, <2>1, TimesTail DEF c
    <3>2. Due(d)' = RootEdge(d)'.visits + 0 + Times(plan', d)
      BY <2>1 DEF Due, InFlight
    <3>3. Due(d) = RootEdge(d).visits + 0 + Times(plan, d)
      BY <2>1 DEF Due, InFlight
    <3>4. RootEdge(d).visits \in Nat
      BY <1>2, <2>1
    <3>5. RootEdge(d)'.visits = RootEdge(d).visits + (IF k = d THEN 1 ELSE 0)
      BY <2>5, <2>6, <3>4
    <3> QED BY <3>1, <3>2, <3>3, <3>4, <3>5
  <2>10. Committed' = Committed
    BY <1>2, <2>1, <2>8 DEF Committed
  <2>11. used' \in Nat /\ evaluations' \in Nat /\ evaluations' <= used' + 0
    BY <1>2, <2>1
  <2> QED BY <1>2, <2>1, <2>2, <2>7, <2>9, <2>10, <2>11, BudgetSteps
<1>11. CASE Halve
  <2>1. /\ phase = "visit" /\ plan = <<>> /\ survivors' = Halved
        /\ plan' = Passes(Halved, Cardinality(considered), used)
        /\ UNCHANGED <<world, setting, phase, game, tree, score, considered, used, evaluations, line>>
    BY <1>11 DEF Halve
  <2> DEFINE S == survivors
             H == Halved
             L == LegalAfter(<<>>)
             sims == setting.simulations
             k == (Cardinality(S) + 1) \div 2
             most == Max({RootEdge(c).visits : c \in S})
             w == [c \in S |-> score[c] + Sigma(QHat(c), most)]
             p == plan'
  <2>2. PlanOk /\ SharesOk /\ used \in Nat
    BY <1>2, <2>1
  <2>3. /\ L \in SUBSET Codes /\ IsFiniteSet(L) /\ considered \in SUBSET L /\ S \in SUBSET considered /\ S # {}
    <3>1. L \in SUBSET Codes /\ IsFiniteSet(L)
      BY RootLine, WorldSays
    <3> QED BY <2>2, <3>1 DEF PlanOk
  <2>4. IsFiniteSet(S) /\ S \in SUBSET Nat /\ IsFiniteSet(considered) /\ Cardinality(considered) \in Nat
    <3>1. IsFiniteSet(considered) /\ Cardinality(considered) \in Nat
      BY <2>3, FS_Subset, FS_CardinalityType
    <3>2. IsFiniteSet(S)
      BY <2>3, <3>1, FS_Subset
    <3>3. S \in SUBSET Nat
      BY <2>3, SearchAssumption
    <3> QED BY <3>1, <3>2, <3>3
  <2>5. k \in Nat \ {0}
    <3> DEFINE n == Cardinality(S)
    <3>1. n \in Nat \ {0}
      BY <2>3, <2>4, FS_CardinalityType, FS_EmptySet
    <3> HIDE DEF n
    <3>2. (n + 1) \div 2 \in Nat \ {0}
      BY <3>1, SMT
    <3> QED BY <3>2 DEF n
  <2>6. \A c \in S : RootEdge(c).visits \in Nat /\ RootEdge(c).valueSum \in Int /\ score[c] \in Int
    <3>1. plan \in Seq(survivors) /\ Searching
      BY <1>2, <2>1
    <3>2. \A c \in S : c \in LegalAfter(<<>>)
      BY <2>3
    <3>3. \A c \in S : RootEdge(c).visits \in Nat /\ RootEdge(c).valueSum \in Int
      BY <3>1, <3>2, DueNat
    <3> QED BY <2>2, <3>2, <3>3 DEF PlanOk
  <2>7. most \in Nat
    <3> DEFINE f == [c \in S |-> RootEdge(c).visits]
    <3>1. \A c \in S : f[c] = RootEdge(c).visits /\ f[c] \in Nat
      BY <2>6
    <3>2. {RootEdge(c).visits : c \in S} = {f[c] : c \in S}
      BY <3>1
    <3> HIDE DEF f
    <3>3. Max({f[c] : c \in S}) \in Nat
      BY <2>3, <2>4, <3>1, LargestOf
    <3> QED BY <3>2, <3>3
  <2>8. \A c \in S : w[c] \in Int
    <3> TAKE c \in S
    <3>1. QHat(c) \in Int
      <4> DEFINE e == RootEdge(c)
      <4>1. e.visits \in Nat /\ e.valueSum \in Int
        BY <2>6
      <4>2. Root.value \in Int
        BY <1>2, <2>1 DEF TreeOk, NodeOk, NodeIs, Root
      <4>3. QHat(c) = IF e.visits > 0 THEN e.valueSum \div e.visits ELSE Root.value
        BY DEF QHat
      <4> HIDE DEF e
      <4>4. e.visits > 0 => e.valueSum \div e.visits \in Int
        BY <4>1, SMT
      <4> QED BY <4>2, <4>3, <4>4
    <3> DEFINE q == QHat(c)
    <3>2. score[c] \in Int
      BY <2>6
    <3> HIDE DEF q, most
    <3>3. Sigma(q, most) \in Int
      <4>1. q \in Int
        BY <3>1 DEF q
      <4>2. 50 + most \in Int
        BY <2>7
      <4> QED BY <4>1, <4>2, SMT DEF Sigma
    <3>4. score[c] + Sigma(q, most) \in Int
      BY <3>2, <3>3
    <3> QED BY <3>4 DEF q
  <2>9. H = BestFew(S, w, k)
    <3>1. H = TopScored(S, k, LAMBDA c : score[c] + Sigma(QHat(c), most))
      BY DEF Halved
    <3> HIDE DEF most, k
    <3> QED BY <3>1 DEF TopScored, BestFew
  <2> HIDE DEF w, most, k, H, L
  <2>10. H \in SUBSET S /\ IsFiniteSet(H) /\ H # {}
    BY <2>3, <2>4, <2>5, <2>8, <2>9, TopBounded
  <2>11. Committed = used /\ sims \in Nat \ {0} /\ used <= sims
    <3>1. Committed = used
      BY <2>1, <2>2 DEF Committed
    <3>2. Committed <= sims
      BY <2>2 DEF SharesOk
    <3>3. sims \in Nat \ {0}
      BY SearchAssumption DEF GameOk
    <3> QED BY <3>1, <3>2, <3>3
  <2>12. /\ p \in Seq(H) /\ Len(p) \in 0 .. sims - used
         /\ \A c \in H : Times(p, c) \in Nat
         /\ \A c, s \in H : Times(p, c) = Times(p, s) \/ Len(p) = sims - used
         /\ \A c, s \in H : Times(p, c) <= Times(p, s) + 1
         /\ Cardinality(H) = 1 /\ setting.driver = "puct" => Len(p) = sims - used
    <3>1. H \in SUBSET Nat /\ used \in 0 .. sims
      BY <2>2, <2>4, <2>10, <2>11
    <3>2. p = Passes(H, Cardinality(considered), used)
      BY <2>1 DEF H
    <3> HIDE DEF p
    <3> QED BY <2>4, <2>10, <3>1, <3>2, PassesShare
  <2>13. survivors' = H
    BY <2>1 DEF H
  <2> DEFINE V(c) == RootEdge(c).visits
  <2>14. \A c \in considered : /\ Due(c) = V(c) /\ Due(c)' = V(c) + Times(p, c)
                               /\ V(c) \in Nat /\ Times(p, c) \in Nat /\ (c \notin H => Times(p, c) = 0)
    <3> TAKE c \in considered
    <3>1. V(c) \in Nat
      BY <1>2, <2>1
    <3>2. Times(p, c) \in Nat
      BY <2>12, TimesTail
    <3>3. Times(plan, c) = 0
      <4>1. {i \in DOMAIN plan : plan[i] = c} = {}
        BY <2>1
      <4> QED BY <4>1, FS_EmptySet DEF Times
    <3>4. c \notin H => Times(p, c) = 0
      <4> SUFFICES ASSUME c \notin H PROVE Times(p, c) = 0
        OBVIOUS
      <4>1. {i \in DOMAIN p : p[i] = c} = {}
        <5>1. \A i \in DOMAIN p : p[i] \in H
          BY <2>12
        <5> HIDE DEF p
        <5> QED BY <5>1
      <4> QED BY <4>1, FS_EmptySet DEF Times
    <3>5. Due(c) = V(c) + 0 + Times(plan, c)
      BY <2>1 DEF Due, InFlight
    <3>6. Due(c)' = V(c) + 0 + Times(p, c)
      BY <2>1 DEF Due, InFlight, RootEdge, Root
    <3> HIDE DEF V, p
    <3> QED BY <3>1, <3>2, <3>3, <3>4, <3>5, <3>6
  <2>15. Committed' = used + Len(p)
    <3>1. Committed' = used' + 0 + Len(p)
      BY <2>1 DEF Committed
    <3> HIDE DEF p
    <3> QED BY <2>1, <2>2, <2>12, <3>1
  <2> HIDE DEF p, V, S, sims
  <2>16. Committed' <= sims /\ (Len(p) = sims - used => Committed' = sims)
    BY <2>2, <2>11, <2>12, <2>15
  <2>17. (\A c, s \in S : V(c) = V(s) \/ used = sims) /\ (\A c \in considered, s \in S : V(c) <= V(s) + 1)
    <3>1. /\ \A c, s \in S : Due(c) = Due(s) \/ Committed = sims
          /\ \A c \in considered, s \in S : Due(c) <= Due(s) + 1
      BY <2>2 DEF SharesOk, S, sims
    <3> QED BY <2>3, <2>11, <2>14, <3>1
  <2>18. used = sims => Len(p) = 0 /\ Len(p) = sims - used
    BY <2>2, <2>11, <2>12
  <2>19. Len(p) = 0 => \A c \in considered : Times(p, c) = 0
    <3> SUFFICES ASSUME Len(p) = 0, NEW c \in considered PROVE Times(p, c) = 0
      OBVIOUS
    <3>1. p = <<>>
      BY <2>12
    <3>2. {i \in DOMAIN p : p[i] = c} = {}
      BY <3>1
    <3> QED BY <3>2, FS_EmptySet DEF Times
  <2>20. \A c, s \in H : Due(c)' = Due(s)' \/ Committed' = sims
    <3> TAKE c, s \in H
    <3>1. c \in S /\ s \in S /\ c \in considered /\ s \in considered
      BY <2>3, <2>10
    <3>2. CASE used = sims
      BY <2>16, <2>18, <3>2
    <3>3. CASE used # sims /\ Len(p) = sims - used
      BY <2>16, <3>3
    <3>4. CASE used # sims /\ Len(p) # sims - used
      BY <2>12, <2>14, <2>17, <3>1, <3>4
    <3> QED BY <3>2, <3>3, <3>4
  <2>21. \A c \in considered, s \in H : Due(c)' <= Due(s)' + 1
    <3> TAKE c \in considered, s \in H
    <3>1. s \in S /\ s \in considered
      BY <2>3, <2>10
    <3>2. V(c) <= V(s) + 1
      BY <2>17, <3>1
    <3>3. CASE c \notin H
      BY <2>14, <3>1, <3>2, <3>3
    <3>4. CASE used = sims
      BY <2>14, <2>18, <2>19, <3>1, <3>2, <3>4
    <3>5. CASE c \in H /\ used # sims
      <4>1. V(c) = V(s)
        BY <2>10, <2>17, <3>1, <3>5
      <4>2. Times(p, c) <= Times(p, s) + 1
        BY <2>12, <3>5
      <4> QED BY <2>14, <3>1, <4>1, <4>2
    <3> QED BY <3>3, <3>4, <3>5
  <2>22. sims >= Cardinality(considered) /\ (Cardinality(considered) > 1 \/ setting.driver = "puct")
           => \A c \in considered : Due(c)' > 0
    <3> SUFFICES ASSUME sims >= Cardinality(considered), Cardinality(considered) > 1 \/ setting.driver = "puct",
                        NEW c \in considered
                 PROVE  Due(c)' > 0
      OBVIOUS
    <3>1. Due(c) > 0
      BY <2>2 DEF SharesOk, sims
    <3> QED BY <2>14, <3>1
  <2>23. SharesOk'
    <3>1. setting' = setting /\ considered' = considered
      BY <2>1
    <3> QED BY <2>11, <2>12, <2>13, <2>15, <2>16, <2>20, <2>21, <2>22, <3>1 DEF SharesOk, sims
  <2>24. PlanOk'
    <3>1. LegalAfter(<<>>)' = LegalAfter(<<>>)
      BY <2>1, LegalKept
    <3>2. H \in SUBSET considered
      BY <2>3, <2>10
    <3>3. plan' \in Seq(H)
      BY <2>12 DEF p
    <3> QED BY <2>1, <2>2, <2>10, <2>13, <3>1, <3>2, <3>3 DEF PlanOk
  <2>25. used' = SumFunctionOnSet(VisitCounts', considered')
    <3>1. VisitCounts' = VisitCounts
      BY <2>1, CountsKept
    <3> QED BY <1>2, <2>1, <3>1
  <2> QED BY <2>23, <2>24, <2>25 DEF BudgetOk
<1>12. CASE RootThrows \/ LeafThrows \/ ChildThrows \/ Play
  <2>1. phase' \notin {"visit", "descend", "backup"}
    BY <1>12 DEF RootThrows, LeafThrows, ChildThrows, Play
  <2> QED BY <2>1 DEF BudgetOk, Searching
<1> QED BY <1>1, <1>3, <1>6, <1>7, <1>8, <1>9, <1>10, <1>11, <1>12 DEF SelfPlayNext

-----------------------------------------------------------------------------
(* The target of a record.                                                 *)

\* A share rounded down is at most one below it.
LEMMA FloorOfShare ==
  ASSUME NEW n \in Nat, NEW t \in Nat \ {0}
  PROVE  /\ n \div t \in Nat /\ t * (n \div t) <= n /\ n <= t * (n \div t) + t
         /\ n >= t => n \div t > 0
<1>1. /\ n \div t \in Int /\ n % t \in 0 .. t - 1 /\ n = t * (n \div t) + (n % t)
  BY SMT
<1>2. n \div t \in Nat
  BY SMT
<1>3. n >= t => n \div t > 0
  BY SMT
<1> DEFINE q == n \div t
           a == t * q
           m == n % t
<1>4. a \in Int /\ m \in 0 .. t - 1 /\ n = a + m
  <2> HIDE DEF q
  <2>1. q \in Int
    BY <1>1 DEF q
  <2>2. t * q \in Int
    BY <2>1, SMT
  <2> QED BY <1>1, <2>2 DEF q
<1> HIDE DEF a, m
<1>5. a <= n /\ n <= a + t
  BY <1>4
<1> QED BY <1>2, <1>3, <1>5 DEF a, m

\* Multiplication distributes over addition.
LEMMA Distributes ==
  ASSUME NEW t \in Int, NEW a \in Int, NEW b \in Int
  PROVE  t * (a + b) = t * a + t * b
BY SMT

\* The sum of shares rounded down, against the sum shared out.
LEMMA FloorsOver ==
  ASSUME NEW S, IsFiniteSet(S), NEW f, \A x \in S : f[x] \in Nat,
         NEW U \in Nat, NEW t \in Nat \ {0}, NEW g, \A x \in S : g[x] = (f[x] * U) \div t
  PROVE  /\ SumFunctionOnSet(g, S) \in Nat /\ SumFunctionOnSet(f, S) \in Nat
         /\ t * SumFunctionOnSet(g, S) <= U * SumFunctionOnSet(f, S)
         /\ U * SumFunctionOnSet(f, S) <= t * SumFunctionOnSet(g, S) + t * Cardinality(S)
<1> DEFINE F(T) == SumFunctionOnSet(f, T)
           G(T) == SumFunctionOnSet(g, T)
           Fine(T) == t * G(T) <= U * F(T) /\ U * F(T) <= t * G(T) + t * Cardinality(T)
           B == {T \in SUBSET S : ~Fine(T)}
<1>1. \A x \in S : g[x] \in Nat /\ t * g[x] <= U * f[x] /\ U * f[x] <= t * g[x] + t
  <2> TAKE x \in S
  <2> DEFINE n == f[x] * U
  <2>1. f[x] \in Nat
    OBVIOUS
  <2>2. n \in Nat /\ n = U * f[x]
    BY <2>1, SMT
  <2>3. g[x] = n \div t
    OBVIOUS
  <2> HIDE DEF n
  <2> QED BY <2>2, <2>3, FloorOfShare
<1>2. \A T \in SUBSET S : IsFiniteSet(T) /\ F(T) \in Nat /\ G(T) \in Nat
  <2> TAKE T \in SUBSET S
  <2>1. IsFiniteSet(T)
    BY FS_Subset
  <2> QED BY <1>1, <2>1, SumNat
<1>3. B = {}
  <2> SUFFICES ASSUME B # {} PROVE FALSE
    OBVIOUS
  <2>1. B \in SUBSET (SUBSET S)
    OBVIOUS
  <2>2. PICK T \in B : IsFiniteSet(T) /\ \A x \in T : \A V \in SUBSET (T \ {x}) : V \notin B
    <3> HIDE DEF B
    <3> QED BY <2>1, SmallestSet
  <2>3. T # {}
    <3> SUFFICES ASSUME T = {} PROVE FALSE
      OBVIOUS
    <3>1. F({}) = 0 /\ G({}) = 0
      BY <1>2, SumSteps
    <3>2. Cardinality({}) = 0
      BY FS_EmptySet
    <3>3. Fine({})
      BY <3>1, <3>2
    <3> HIDE DEF Fine
    <3> QED BY <2>2, <3>3
  <2>4. PICK x \in T : TRUE
    BY <2>3
  <2> DEFINE R == T \ {x}
             a == F(R)
             b == G(R)
             k == Cardinality(R)
  <2>5. R \in SUBSET S /\ T \in SUBSET S /\ x \in S /\ IsFiniteSet(R)
    BY <1>2
  <2>6. Fine(R)
    <3>1. R \notin B
      BY <2>2
    <3> HIDE DEF Fine
    <3> QED BY <2>5, <3>1
  <2>7. F(T) = f[x] + a /\ G(T) = g[x] + b
    <3>1. F(T) = f[x] + a
      BY <2>2, SumTake
    <3>2. G(T) = g[x] + b
      BY <1>1, <2>2, SumTake
    <3> QED BY <3>1, <3>2
  <2>8. Cardinality(T) = k + 1 /\ k \in Nat
    <3>1. k = Cardinality(T) - 1 /\ Cardinality(T) \in Nat
      BY <2>2, FS_RemoveElement, FS_CardinalityType
    <3>2. k \in Nat
      BY <2>5, FS_CardinalityType
    <3> HIDE DEF k, R
    <3> QED BY <3>1, <3>2
  <2>9. a \in Nat /\ b \in Nat
    BY <1>2, <2>5
  <2>10. t * b <= U * a /\ U * a <= t * b + t * k
    BY <2>6
  <2> HIDE DEF a, b, k, R, F, G
  <2>11. t * G(T) <= U * F(T)
    <3>1. t * (g[x] + b) = t * g[x] + t * b /\ U * (f[x] + a) = U * f[x] + U * a
      BY <1>1, <2>5, <2>9, SMT
    <3>2. t * g[x] \in Int /\ t * b \in Int /\ U * f[x] \in Int /\ U * a \in Int
      BY <1>1, <2>5, <2>9, SMT
    <3> QED BY <1>1, <2>5, <2>7, <2>10, <3>1, <3>2
  <2>12. U * F(T) <= t * G(T) + t * Cardinality(T)
    <3>1. /\ t * (g[x] + b) = t * g[x] + t * b /\ U * (f[x] + a) = U * f[x] + U * a
          /\ t * (k + 1) = t * k + t * 1
      <4>1. g[x] \in Int /\ f[x] \in Int /\ t \in Int /\ U \in Int /\ a \in Int /\ b \in Int /\ k \in Int
        BY <1>1, <2>5, <2>8, <2>9
      <4> QED BY <4>1, Distributes
    <3>2. /\ t * g[x] \in Int /\ t * b \in Int /\ U * f[x] \in Int /\ U * a \in Int /\ t * k \in Int
      BY <1>1, <2>5, <2>8, <2>9, SMT
    <3> QED BY <1>1, <2>5, <2>7, <2>8, <2>10, <3>1, <3>2
  <2>13. Fine(T)
    BY <2>11, <2>12
  <2> HIDE DEF Fine
  <2> QED BY <2>2, <2>13
<1>4. Fine(S)
  <2> HIDE DEF Fine
  <2> QED BY <1>3
<1> QED BY <1>2, <1>4

\* Shares of Unit rounded down miss it by less than one each.
LEMMA FloorsSum ==
  ASSUME NEW S, IsFiniteSet(S), NEW f, \A x \in S : f[x] \in Nat, SumFunctionOnSet(f, S) > 0,
         NEW U \in Nat, NEW g, \A x \in S : g[x] = (f[x] * U) \div SumFunctionOnSet(f, S)
  PROVE  SumFunctionOnSet(g, S) \in U - Cardinality(S) .. U
<1> DEFINE t == SumFunctionOnSet(f, S)
           G == SumFunctionOnSet(g, S)
           k == Cardinality(S)
<1>1. t \in Nat \ {0}
  BY SumNat
<1>2. k \in Nat
  BY FS_CardinalityType
<1>3. G \in Nat /\ t * G <= U * t /\ U * t <= t * G + t * k
  <2>1. \A x \in S : g[x] = (f[x] * U) \div t
    OBVIOUS
  <2> HIDE DEF t
  <2>2. G \in Nat /\ t * G <= U * SumFunctionOnSet(f, S) /\ U * SumFunctionOnSet(f, S) <= t * G + t * k
    BY <1>1, <2>1, FloorsOver
  <2> QED BY <2>2 DEF t
<1> HIDE DEF t, G, k
<1>4. G <= U
  BY <1>1, <1>3, SMT
<1>5. U <= G + k
  <2>1. U * t <= t * (G + k)
    BY <1>1, <1>2, <1>3, SMT
  <2> DEFINE h == G + k
  <2>2. h \in Nat /\ U * t <= t * h
    BY <1>2, <1>3, <2>1
  <2> HIDE DEF h
  <2>3. U <= h
    BY <1>1, <2>2, SMT
  <2> QED BY <2>3 DEF h
<1>6. G \in U - k .. U
  BY <1>2, <1>3, <1>4, <1>5
<1> QED BY <1>6 DEF G, k

\* What a search has come to when its rounds are over.
LEMMA Decided ==
  ASSUME GameOk, SearchOk, BudgetOk, phase = "visit", plan = <<>>
  PROVE  /\ survivors \in SUBSET considered /\ considered \in SUBSET LegalAfter(<<>>)
         /\ LegalAfter(<<>>) \in SUBSET Codes /\ IsFiniteSet(considered)
         /\ DOMAIN VisitCounts = considered
         /\ \A c \in considered : VisitCounts[c] \in Nat
         /\ used = SumFunctionOnSet(VisitCounts, considered) /\ used \in Nat
         /\ setting.simulations \in Nat \ {0} /\ used <= setting.simulations
         /\ setting.simulations <= Unit /\ evaluations <= used
         /\ Cardinality(considered) \in Nat /\ Cardinality(considered) <= setting.maxConsidered
         /\ setting.maxConsidered \in Nat
         /\ Cardinality(survivors) = 1 /\ setting.driver = "puct" => used = setting.simulations
         /\ \A c \in considered, s \in survivors : VisitCounts[c] <= VisitCounts[s] + 1
         /\ /\ setting.simulations >= Cardinality(considered)
            /\ Cardinality(considered) > 1 \/ setting.driver = "puct"
            => \A c \in considered : VisitCounts[c] > 0
<1>1. Searching /\ PlanOk /\ SharesOk /\ used = SumFunctionOnSet(VisitCounts, considered)
  BY DEF BudgetOk, Searching
<1>2. /\ survivors \in SUBSET considered /\ considered \in SUBSET LegalAfter(<<>>)
      /\ Cardinality(considered) <= setting.maxConsidered /\ used \in Nat /\ evaluations \in Nat
      /\ plan \in Seq(survivors) /\ evaluations <= used + 0
  BY <1>1 DEF PlanOk
<1>3. LegalAfter(<<>>) \in SUBSET Codes /\ IsFiniteSet(considered) /\ Cardinality(considered) \in Nat
  <2>1. LegalAfter(<<>>) \in SUBSET Codes /\ IsFiniteSet(LegalAfter(<<>>))
    BY RootLine, WorldSays
  <2>2. IsFiniteSet(considered)
    BY <1>2, <2>1, FS_Subset
  <2> QED BY <2>1, <2>2, FS_CardinalityType
<1>4. setting.simulations \in Nat \ {0} /\ setting.simulations <= Unit /\ setting.maxConsidered \in Nat
  BY SearchAssumption DEF GameOk
<1>5. \A c \in considered : VisitCounts[c] \in Nat /\ Due(c) = VisitCounts[c]
  <2> TAKE c \in considered
  <2>1. RootEdge(c).visits \in Nat
    BY <1>1, <1>2, DueNat
  <2>2. VisitCounts[c] = RootEdge(c).visits
    BY DEF VisitCounts
  <2>3. Times(plan, c) = 0
    <3>1. {i \in DOMAIN plan : plan[i] = c} = {}
      OBVIOUS
    <3> QED BY <3>1, FS_EmptySet DEF Times
  <2>4. Due(c) = RootEdge(c).visits + 0 + Times(plan, c)
    BY DEF Due, InFlight
  <2> QED BY <2>1, <2>2, <2>3, <2>4
<1>6. Committed = used
  BY <1>2 DEF Committed
<1>7. DOMAIN VisitCounts = considered
  BY DEF VisitCounts
<1>8. used <= setting.simulations /\ (Cardinality(survivors) = 1 /\ setting.driver = "puct" => used = setting.simulations)
  BY <1>1, <1>6 DEF SharesOk
<1>9. \A c \in considered, s \in survivors : VisitCounts[c] <= VisitCounts[s] + 1
  <2>1. \A c \in considered, s \in survivors : Due(c) <= Due(s) + 1
    BY <1>1 DEF SharesOk
  <2> QED BY <1>2, <1>5, <2>1
<1>10. /\ setting.simulations >= Cardinality(considered)
       /\ Cardinality(considered) > 1 \/ setting.driver = "puct"
       => \A c \in considered : VisitCounts[c] > 0
  BY <1>1, <1>5 DEF SharesOk
<1> QED BY <1>1, <1>2, <1>3, <1>4, <1>5, <1>7, <1>8, <1>9, <1>10

\* The counts that are encoded as the target of the action played.
LEMMA CountsToEncode ==
  ASSUME GameOk, SearchOk, BudgetOk, phase = "visit", plan = <<>>, NEW played \in survivors
  PROVE  LET counts == EffectiveVisitCounts(VisitCounts, played)
         IN /\ DOMAIN counts \in SUBSET LegalAfter(<<>>) /\ IsFiniteSet(DOMAIN counts)
            /\ \A c \in DOMAIN counts : counts[c] \in Nat
            /\ SumFunction(counts) \in 1 .. setting.simulations
            /\ SumFunction(counts) = SumFunctionOnSet(counts, DOMAIN counts)
            /\ played \in LegalAfter(<<>>)
            /\ setting.simulations >= setting.maxConsidered
                 => played \in DOMAIN counts /\ counts[played] > 0
<1> DEFINE f == VisitCounts
           counts == EffectiveVisitCounts(f, played)
           sims == setting.simulations
<1>1. /\ survivors \in SUBSET considered /\ considered \in SUBSET LegalAfter(<<>>)
      /\ IsFiniteSet(considered) /\ DOMAIN f = considered
      /\ \A c \in considered : f[c] \in Nat
      /\ used = SumFunctionOnSet(f, considered) /\ used \in Nat
      /\ sims \in Nat \ {0} /\ used <= sims
      /\ Cardinality(considered) \in Nat /\ Cardinality(considered) <= setting.maxConsidered
      /\ setting.maxConsidered \in Nat
      /\ sims >= Cardinality(considered) /\ (Cardinality(considered) > 1 \/ setting.driver = "puct")
           => \A c \in considered : f[c] > 0
  BY Decided
<1> HIDE DEF f, sims
<1>2. CASE \E c \in considered : f[c] > 0
  <2>1. counts = f
    BY <1>1, <1>2 DEF EffectiveVisitCounts
  <2>2. PICK c \in considered : f[c] > 0
    BY <1>2
  <2>3. f[c] <= SumFunctionOnSet(f, considered)
    BY <1>1, SumNat
  <2>4. SumFunction(f) = SumFunctionOnSet(f, DOMAIN f)
    BY DEF SumFunction
  <2>5. SumFunction(f) \in 1 .. sims
    BY <1>1, <2>2, <2>3, <2>4
  <2>6. sims >= setting.maxConsidered => f[played] > 0
    <3>1. CASE Cardinality(considered) > 1
      BY <1>1, <3>1
    <3>2. CASE Cardinality(considered) <= 1
      <4>1. Cardinality({c, played}) <= Cardinality(considered)
        BY <1>1, FS_Subset
      <4>2. c # played => Cardinality({c, played}) = 2
        <5> SUFFICES ASSUME c # played PROVE Cardinality({c, played}) = 2
          OBVIOUS
        <5>1. IsFiniteSet({c}) /\ Cardinality({c}) = 1
          BY FS_Singleton
        <5>2. Cardinality({c} \cup {played}) = Cardinality({c}) + 1
          BY <5>1, FS_AddElement
        <5>3. Cardinality({c} \cup {played}) = 2
          <6> DEFINE m == Cardinality({c} \cup {played})
                     n == Cardinality({c})
          <6>1. m = n + 1 /\ n = 1
            BY <5>1, <5>2
          <6> HIDE DEF m, n
          <6>2. m = 2
            BY <6>1
          <6> QED BY <6>2 DEF m
        <5>4. {c} \cup {played} = {c, played}
          OBVIOUS
        <5> QED BY <5>3, <5>4, Zenon
      <4>3. c = played
        BY <1>1, <3>2, <4>1, <4>2
      <4> QED BY <2>2, <4>3
    <3> QED BY <1>1, <3>1, <3>2
  <2> QED BY <1>1, <2>1, <2>4, <2>5, <2>6 DEF f, sims
<1>3. CASE ~\E c \in considered : f[c] > 0
  <2> DEFINE g == [c \in {played} |-> 1]
  <2>1. counts = g
    BY <1>1, <1>3 DEF EffectiveVisitCounts
  <2>2. DOMAIN g = {played} /\ g[played] = 1 /\ IsFiniteSet({played})
    BY FS_Singleton
  <2> HIDE DEF g
  <2>3. SumFunction(g) = SumFunctionOnSet(g, {played})
    BY <2>2 DEF SumFunction
  <2>4. SumFunctionOnSet(g, {played}) = g[played] + SumFunctionOnSet(g, {played} \ {played})
    BY <2>2, SumTake
  <2>5. SumFunctionOnSet(g, {}) = 0
    BY FS_EmptySet, SumSteps
  <2>6. SumFunction(g) = 1
    <3>1. {played} \ {played} = {}
      OBVIOUS
    <3>2. SumFunctionOnSet(g, {played} \ {played}) = 0
      BY <2>5, <3>1, Zenon
    <3> QED BY <2>2, <2>3, <2>4, <3>2
  <2> QED BY <1>1, <2>1, <2>2, <2>3, <2>6 DEF f, sims
<1> QED BY <1>2, <1>3 DEF f, sims

Encoded(counts) ==
  [c \in Codes |-> IF c \in DOMAIN counts THEN (counts[c] * Unit) \div Max({1, SumFunction(counts)}) ELSE 0]

\* The encoder accepts them, and its target is a distribution on legal actions that the
\* action played has part of.
LEMMA TargetFits ==
  ASSUME GameOk, SearchOk, BudgetOk, phase = "visit", plan = <<>>, NEW played \in survivors
  PROVE  LET counts == EffectiveVisitCounts(VisitCounts, played)
             t == Encoded(counts)
         IN /\ EncodeLegalPolicyTarget(counts, LegalAfter(<<>>)) = {t}
            /\ t \in [Codes -> Int]
            /\ \A c \in Codes : t[c] # 0 => c \in LegalAfter(<<>>)
            /\ SumFunction(t) \in Unit - Cardinality(Codes) .. Unit
            /\ setting.simulations >= setting.maxConsidered => t[played] > 0
<1> DEFINE counts == EffectiveVisitCounts(VisitCounts, played)
           L == LegalAfter(<<>>)
           D == DOMAIN counts
           total == SumFunction(counts)
           sims == setting.simulations
           t == Encoded(counts)
<1>1. /\ D \in SUBSET L /\ IsFiniteSet(D) /\ (\A c \in D : counts[c] \in Nat) /\ total \in 1 .. sims
      /\ total = SumFunctionOnSet(counts, D) /\ played \in L
      /\ sims >= setting.maxConsidered => played \in D /\ counts[played] > 0
  BY CountsToEncode
<1>2. L \in SUBSET Codes /\ sims \in Nat \ {0} /\ sims <= Unit /\ Unit \in Nat \ {0} /\ IsFiniteSet(Codes)
  BY Decided, SearchAssumption
<1> HIDE DEF counts, L, sims
<1>3. Max({1, total}) = total /\ total \in Nat \ {0}
  <2> DEFINE k == total
  <2>1. k \in Nat \ {0}
    BY <1>1, <1>2
  <2> HIDE DEF k
  <2>2. Max({1, k}) = k
    <3>1. Max({1, k}) = IF 1 >= k THEN 1 ELSE k
      BY <2>1, LargerSmaller
    <3> QED BY <2>1, <3>1
  <2> QED BY <2>1, <2>2 DEF k
<1>4. \A c \in D : t[c] = (counts[c] * Unit) \div total
  BY <1>1, <1>2, <1>3 DEF Encoded
<1>5. \A c \in Codes \ D : t[c] = 0
  BY DEF Encoded
<1>6. DOMAIN t = Codes
  BY DEF Encoded
<1>7. EncodeLegalPolicyTarget(counts, L) = {x \in {t} : total > 0 /\ \A c \in Codes : x[c] # 0 => c \in L}
  BY DEF EncodeLegalPolicyTarget, Encoded
<1> HIDE DEF t
<1>8. \A c \in Codes : t[c] # 0 => c \in L
  BY <1>1, <1>5
<1>9. EncodeLegalPolicyTarget(counts, L) = {t}
  BY <1>3, <1>7, <1>8
<1>10. SumFunctionOnSet(t, D) \in Unit - Cardinality(D) .. Unit
  <2>1. SumFunctionOnSet(counts, D) > 0
    BY <1>1, <1>3
  <2>2. \A c \in D : t[c] = (counts[c] * Unit) \div SumFunctionOnSet(counts, D)
    BY <1>1, <1>4
  <2>3. Unit \in Nat
    BY <1>2
  <2> HIDE DEF D
  <2> QED BY <1>1, <2>1, <2>2, <2>3, FloorsSum
<1>14. \A c \in Codes : t[c] \in Int
  <2> TAKE c \in Codes
  <2>1. CASE c \in D
    <3> DEFINE n == counts[c] * Unit
    <3>1. n \in Nat
      <4>1. counts[c] \in Nat /\ Unit \in Nat
        BY <1>1, <1>2, <2>1
      <4> QED BY <4>1, SMT
    <3>2. t[c] = n \div total
      BY <1>4, <2>1
    <3> HIDE DEF n, total
    <3>3. n \div total \in Nat
      BY <1>3, <3>1, FloorOfShare
    <3> QED BY <3>2, <3>3
  <2>2. CASE c \notin D
    BY <1>5, <2>2
  <2> QED BY <2>1, <2>2
<1>11. SumFunctionOnSet(t, Codes) = SumFunctionOnSet(t, D)
  <2>1. D \in SUBSET Codes
    BY <1>1, <1>2
  <2> HIDE DEF D
  <2> QED BY <1>2, <1>5, <1>14, <2>1, SumZeros
<1>12. SumFunction(t) \in Unit - Cardinality(Codes) .. Unit
  <2>1. SumFunction(t) = SumFunctionOnSet(t, Codes)
    BY <1>6 DEF SumFunction
  <2>2. Cardinality(D) <= Cardinality(Codes) /\ Cardinality(D) \in Nat /\ Cardinality(Codes) \in Nat
    BY <1>1, <1>2, FS_Subset, FS_CardinalityType
  <2> QED BY <1>2, <1>10, <1>11, <2>1, <2>2
<1>13. sims >= setting.maxConsidered => t[played] > 0
  <2> SUFFICES ASSUME sims >= setting.maxConsidered PROVE t[played] > 0
    OBVIOUS
  <2> DEFINE n == counts[played] * Unit
             k == counts[played]
  <2>1. k \in Nat \ {0}
    BY <1>1
  <2>2. n \in Nat /\ n >= Unit
    <3> HIDE DEF k
    <3>1. k * Unit \in Nat /\ k * Unit >= Unit
      BY <1>2, <2>1, SMT
    <3> QED BY <3>1 DEF k
  <2>3. n >= total
    BY <1>1, <1>2, <1>3, <2>2
  <2>4. t[played] = n \div total
    BY <1>1, <1>4
  <2> HIDE DEF n, total
  <2> QED BY <1>3, <2>2, <2>3, <2>4, FloorOfShare
<1>15. t \in [Codes -> Int]
  BY <1>14 DEF t, Encoded
<1> QED BY <1>8, <1>9, <1>12, <1>13, <1>15 DEF counts, L, sims, t

\* The state the search is in says what BudgetIsSpent does.
LEMMA BudgetIsTheSpending ==
  ASSUME GameOk, SearchOk, BudgetOk
  PROVE  BudgetIsSpent
<1> SUFFICES ASSUME SearchDecided PROVE BudgetIsSpent
  BY DEF BudgetIsSpent
<1>1. phase = "visit" /\ plan = <<>> /\ Cardinality(survivors) = 1
  BY DEF SearchDecided, Between
<1> DEFINE played == CHOOSE c \in survivors : TRUE
<1>2. played \in survivors
  <2>1. survivors # {}
    BY <1>1, FS_EmptySet
  <2> QED BY <2>1
<1> HIDE DEF played
<1>3. SumFunction(VisitCounts) = SumFunctionOnSet(VisitCounts, considered)
  BY <1>1, Decided DEF SumFunction
<1>4. EncodeLegalPolicyTarget(EffectiveVisitCounts(VisitCounts, played), LegalAfter(<<>>)) # {}
  BY <1>1, <1>2, TargetFits
<1>5. /\ used = SumFunction(VisitCounts) /\ used <= setting.simulations /\ evaluations <= used
      /\ setting.driver = "puct" => used = setting.simulations
  BY <1>1, <1>3, Decided
<1>6. \A c \in considered :
        /\ VisitCounts[c] <= VisitCounts[played] + 1
        /\ /\ setting.simulations >= Cardinality(considered)
           /\ Cardinality(considered) > 1 \/ setting.driver = "puct"
           => VisitCounts[c] > 0
  BY <1>1, <1>2, Decided
<1> QED BY <1>4, <1>5, <1>6 DEF BudgetIsSpent, played

\* Steps that play no action leave the records.
LEMMA RecordsKept ==
  ASSUME RecordsOk, UNCHANGED <<records, game, setting, world>>, phase \notin {"over", "thrown"}, phase' # "over"
  PROVE  RecordsOk'
<1>1. ASSUME NEW i PROVE RecordOk(i)' = RecordOk(i)
  BY DEF RecordOk
<1> QED BY <1>1 DEF RecordsOk

\* Playing an action records it.
LEMMA RecordsGrow ==
  ASSUME GameOk, SearchOk, BudgetOk, RecordsOk, Play
  PROVE  RecordsOk'
<1>1. PICK played \in survivors :
      \E target \in EncodeLegalPolicyTarget(EffectiveVisitCounts(VisitCounts, played), LegalAfter(<<>>)) :
       LET moves   == Append(game, played)
           all     == Append(records, SearchRecord(played, target))
           goesOn  == Ongoing(moves) /\ Len(moves) < setting.plyCap
       IN /\ game' = moves
          /\ phase' = IF goesOn THEN "search" ELSE "over"
          /\ records' = IF goesOn THEN all
                        ELSE [i \in DOMAIN all |->
                                [all[i] EXCEPT !.z = ResultFor(all[i].turn, Winner(moves))]]
  BY DEF Play
<1>2. phase = "visit" /\ plan = <<>> /\ UNCHANGED <<world, setting>>
  BY DEF Play
<1> DEFINE t == Encoded(EffectiveVisitCounts(VisitCounts, played))
           L == LegalAfter(<<>>)
           moves == Append(game, played)
           R == SearchRecord(played, t)
           all == Append(records, R)
           goesOn == Ongoing(moves) /\ Len(moves) < setting.plyCap
           settled == [i \in DOMAIN all |-> [all[i] EXCEPT !.z = ResultFor(all[i].turn, Winner(moves))]]
           n == Len(game)
<1>3. /\ EncodeLegalPolicyTarget(EffectiveVisitCounts(VisitCounts, played), L) = {t}
      /\ t \in [Codes -> Int]
      /\ \A c \in Codes : t[c] # 0 => c \in L
      /\ SumFunction(t) \in Unit - Cardinality(Codes) .. Unit
      /\ setting.simulations >= setting.maxConsidered => t[played] > 0
  BY <1>2, TargetFits
<1>4. /\ game' = moves /\ phase' = (IF goesOn THEN "search" ELSE "over")
      /\ records' = (IF goesOn THEN all ELSE settled)
  BY <1>1, <1>3
<1>5. played \in L /\ L \in SUBSET Codes
  BY <1>2, Decided
<1>6. /\ R = [turn |-> Player(n), actionCode |-> played, z |-> 0, target |-> t, legal |-> L]
      /\ Player(n) \in {"A", "B"}
  BY DEF SearchRecord, Player
<1> HIDE DEF t, L
<1>7. R \in RecordSet
  BY <1>3, <1>5, <1>6 DEF RecordSet
<1>8. R.actionCode = played /\ R.turn = Player(n) /\ R.target = t /\ R.legal = L
  BY <1>6
<1> HIDE DEF R
<1>9. /\ game \in Seq(Codes) /\ n \in Nat /\ records \in Seq(RecordSet) /\ Len(records) = n
      /\ n < setting.plyCap /\ setting.plyCap \in Nat
      /\ \A i \in 1 .. n : RecordOk(i)
  <2>1. setting.plyCap \in Nat
    BY SearchAssumption DEF GameOk
  <2> QED BY <1>2, <2>1 DEF GameOk, RecordsOk
<1>10. /\ moves \in Seq(Codes) /\ Len(moves) = n + 1 /\ moves[n + 1] = played
       /\ \A i \in 1 .. n : moves[i] = game[i]
  BY <1>5, <1>9
<1>11. /\ all \in Seq(RecordSet) /\ Len(all) = n + 1 /\ all[n + 1] = R /\ DOMAIN all = 1 .. n + 1
       /\ \A i \in 1 .. n : all[i] = records[i]
  BY <1>7, <1>9
<1> HIDE DEF all, moves
<1>12. \A w : ResultFor("A", w) \in {-1, 0, 1} /\ ResultFor("B", w) \in {-1, 0, 1}
  BY DEF ResultFor
<1>13. \A i \in 1 .. n + 1 :
         /\ settled[i] \in RecordSet /\ settled[i].z = ResultFor(all[i].turn, Winner(moves))
         /\ settled[i].turn = all[i].turn /\ settled[i].actionCode = all[i].actionCode
         /\ settled[i].target = all[i].target /\ settled[i].legal = all[i].legal
  <2> TAKE i \in 1 .. n + 1
  <2> DEFINE z == ResultFor(all[i].turn, Winner(moves))
             r == all[i]
  <2>1. r \in RecordSet
    BY <1>11
  <2>2. r.turn \in {"A", "B"}
    BY <2>1 DEF RecordSet
  <2>3. z \in {-1, 0, 1}
    BY <1>12, <2>2
  <2>4. settled[i] = [r EXCEPT !.z = z]
    BY <1>11
  <2> HIDE DEF r, z, settled
  <2>5. [r EXCEPT !.z = z] \in RecordSet
    BY <2>1, <2>3 DEF RecordSet
  <2>6. /\ [r EXCEPT !.z = z].z = z /\ [r EXCEPT !.z = z].turn = r.turn
        /\ [r EXCEPT !.z = z].actionCode = r.actionCode /\ [r EXCEPT !.z = z].target = r.target
        /\ [r EXCEPT !.z = z].legal = r.legal
    BY <2>1 DEF RecordSet
  <2> QED BY <2>4, <2>5, <2>6 DEF r, z
<1>14. settled \in Seq(RecordSet) /\ Len(settled) = n + 1
  <2>1. settled \in [1 .. n + 1 -> RecordSet]
    BY <1>11, <1>13
  <2>2. n + 1 \in Nat
    BY <1>9
  <2> HIDE DEF settled
  <2> QED BY <2>1, <2>2
<1> HIDE DEF settled
<1>15. records' \in Seq(RecordSet) /\ Len(records') = n + 1 /\ Len(game') = n + 1
  BY <1>4, <1>10, <1>11, <1>14
<1>16. \A i \in 1 .. n + 1 : /\ records'[i].turn = all[i].turn /\ records'[i].actionCode = all[i].actionCode
                             /\ records'[i].target = all[i].target /\ records'[i].legal = all[i].legal
  BY <1>4, <1>13
<1>17. ASSUME NEW i \in 1 .. n + 1 PROVE RecordOk(i)'
  <2>1. CASE i \in 1 .. n
    <3>1. RecordOk(i) /\ all[i] = records[i] /\ game'[i] = game[i]
      BY <1>4, <1>9, <1>10, <1>11, <2>1
    <3> QED BY <1>2, <1>16, <3>1 DEF RecordOk
  <2>2. CASE i = n + 1
    <3>1. all[i] = R /\ game'[i] = played
      BY <1>4, <1>10, <1>11, <2>2
    <3>2. i - 1 = n
      BY <1>9, <2>2
    <3>3. /\ records'[i].turn = Player(i - 1) /\ records'[i].actionCode = game'[i]
          /\ records'[i].target = t /\ records'[i].legal = L /\ records'[i].actionCode = played
      BY <1>8, <1>16, <3>1, <3>2
    <3> QED BY <1>2, <1>3, <3>3 DEF RecordOk
  <2> QED BY <1>9, <2>1, <2>2
<1>18. phase' = "over" => \A i \in 1 .. n + 1 : records'[i].z = ResultFor(records'[i].turn, Winner(game'))
  BY <1>4, <1>13
<1>19. /\ phase' \notin {"over", "thrown"} => Len(game') < setting'.plyCap
       /\ phase' = "over" /\ Ongoing(game') => Len(game') = setting'.plyCap
  BY <1>2, <1>4, <1>9, <1>10
<1>20. /\ Ongoing(game)' = Ongoing(game') /\ Winner(game)' = Winner(game')
  BY <1>2 DEF Ongoing, Winner
<1> QED BY <1>15, <1>17, <1>18, <1>19, <1>20 DEF RecordsOk

\* Every step keeps the records: only playing an action changes them.
LEMMA RecordsNext ==
  ASSUME GameOk, SearchOk, BudgetOk, RecordsOk, SelfPlayNext
  PROVE  RecordsOk'
<1>1. CASE Play
  BY <1>1, RecordsGrow
<1>2. CASE ~Play
  <2>1. /\ UNCHANGED <<records, game, setting, world>> /\ phase \notin {"over", "thrown"} /\ phase' # "over"
    BY <1>2 DEF SelfPlayNext, Search, RootThrows, Visit, Descend, ReachTerminal, ReachLeaf, LeafThrows,
                Backup, VisitChild, ChildThrows, Halve
  <2> QED BY <2>1, RecordsKept
<1> QED BY <1>1, <1>2

\* The players take turns.
LEMMA Parity ==
  ASSUME NEW n \in Nat, NEW i \in 1 .. n
  PROVE  (n - i) % 2 = 0 <=> Player(i - 1) = Player(n - 1)
<1>1. n % 2 \in 0 .. 1 /\ i % 2 \in 0 .. 1
  BY SMT
<1>2. (i - 1) % 2 = 1 - (i % 2) /\ (n - 1) % 2 = 1 - (n % 2)
  BY SMT
<1>3. (n - i) % 2 = 0 <=> i % 2 = n % 2
  BY SMT
<1> QED BY <1>1, <1>2, <1>3 DEF Player

\* At the end of a game the records say what RecordsTellTheGame does.
LEMMA RecordsAreTheGame ==
  ASSUME GameOk, RecordsOk
  PROVE  RecordsTellTheGame
<1> SUFFICES ASSUME phase = "over" PROVE RecordsTellTheGame
  BY DEF RecordsTellTheGame
<1>1. /\ records \in Seq(RecordSet) /\ Len(records) = Len(game) /\ Len(game) \in Nat
      /\ Ongoing(game) => Len(game) = setting.plyCap
      /\ \A i \in 1 .. Len(game) : RecordOk(i) /\ records[i].z = ResultFor(records[i].turn, Winner(game))
  BY DEF RecordsOk, GameOk
<1>2. DOMAIN records = 1 .. Len(game)
  BY <1>1
<1>3. ASSUME NEW i \in 1 .. Len(game)
      PROVE  records[i].z = IF Winner(game) = "none" THEN 0 ELSE IF (Len(game) - i) % 2 = 0 THEN 1 ELSE -1
  <2>1. records[i].turn = Player(i - 1) /\ records[i].z = ResultFor(records[i].turn, Winner(game))
    BY <1>1 DEF RecordOk
  <2>2. (Len(game) - i) % 2 = 0 <=> Player(i - 1) = Player(Len(game) - 1)
    BY <1>1, Parity
  <2>3. Winner(game) = "none" \/ Winner(game) = Player(Len(game) - 1)
    BY DEF Winner
  <2> QED BY <2>1, <2>2, <2>3 DEF ResultFor
<1> QED BY <1>1, <1>2, <1>3 DEF RecordsTellTheGame, RecordOk

-----------------------------------------------------------------------------
(* The invariant.                                                          *)

\* The invariant holds before the first search.
LEMMA SelfPlayBegins == ASSUME KindsCover, SelfPlayInit PROVE SelfPlayInvariant
<1>1. GameOk
  BY GameInit
<1>2. SearchOk /\ Accounts /\ BudgetOk
  BY DEF SelfPlayInit, SearchOk, Accounts, BudgetOk, Searching
<1>3. RecordsOk
  <2>1. Len(game) = 0 /\ Len(records) = 0 /\ records \in Seq(RecordSet) /\ phase = "search"
    BY DEF SelfPlayInit
  <2>2. setting.plyCap \in Nat \ {0}
    BY SearchAssumption DEF SelfPlayInit
  <2> QED BY <2>1, <2>2 DEF RecordsOk
<1> QED BY <1>1, <1>2, <1>3 DEF SelfPlayInvariant

\* The invariant is of the state of self-play alone.
LEMMA SelfPlayStutters ==
  ASSUME SelfPlayInvariant, UNCHANGED selfPlayVars
  PROVE  SelfPlayInvariant'
<1> USE DEF selfPlayVars
<1>1. ASSUME NEW l PROVE At(l)' = At(l) /\ LegalAfter(l)' = LegalAfter(l) /\ Ongoing(l)' = Ongoing(l)
  BY DEF At, LegalAfter, Ongoing
<1>2. GameOk'
  BY <1>1 DEF SelfPlayInvariant, GameOk
<1>3. TreeOk' = TreeOk /\ LineOk' = LineOk
  <2>1. ASSUME NEW n, NEW l PROVE NodeOk(n, l)' = NodeOk(n, l)
    BY <1>1 DEF NodeOk, Ongoing
  <2> QED BY <2>1 DEF TreeOk, LineOk
<1>4. SearchOk'
  BY <1>3 DEF SelfPlayInvariant, SearchOk, Searching
<1>5. ASSUME NEW l PROVE NodeAccount(l)' = NodeAccount(l) /\ PriorAccount(l)' = PriorAccount(l) /\ EdgeAccount(l)' = EdgeAccount(l)
  <2>1. Won' = Won
    BY <1>1 DEF Won, At
  <2>2. Late(l)' = Late(l) /\ Owed(l)' = Owed(l)
    BY DEF Late, Owed, Pending
  <2>3. NodeAccount(l)' = NodeAccount(l)
    BY <2>1, <2>2 DEF NodeAccount
  <2>4. PriorAccount(l)' = PriorAccount(l)
    BY DEF PriorAccount, Children
  <2>5. EdgeAccount(l)' = EdgeAccount(l)
    BY DEF EdgeAccount, Lag
  <2> QED BY <2>3, <2>4, <2>5
<1>6. Accounts'
  <2>1. NoneFresh' = NoneFresh
    BY DEF NoneFresh
  <2> QED BY <1>5, <2>1 DEF SelfPlayInvariant, Accounts, Searching, Books
<1>7. BudgetOk'
  <2>1. ASSUME NEW c PROVE Due(c)' = Due(c)
    BY DEF Due, InFlight, RootEdge, Root
  <2>2. Committed' = Committed /\ VisitCounts' = VisitCounts
    BY DEF Committed, VisitCounts, RootEdge, Root
  <2>3. SharesOk' = SharesOk
    BY <2>1, <2>2 DEF SharesOk
  <2>4. PlanOk' = PlanOk
    BY <1>1 DEF PlanOk
  <2> QED BY <2>2, <2>3, <2>4 DEF SelfPlayInvariant, BudgetOk, Searching
<1>8. RecordsOk'
  <2>1. ASSUME NEW i PROVE RecordOk(i)' = RecordOk(i)
    BY DEF RecordOk
  <2>2. Winner(game)' = Winner(game) /\ Ongoing(game)' = Ongoing(game)
    BY DEF Winner, Ongoing
  <2> QED BY <2>1, <2>2 DEF SelfPlayInvariant, RecordsOk
<1> QED BY <1>2, <1>4, <1>6, <1>7, <1>8 DEF SelfPlayInvariant

\* Every step of self-play preserves the invariant.
LEMMA SelfPlayGoesOn ==
  ASSUME SelfPlayInvariant, SelfPlayNext
  PROVE  SelfPlayInvariant'
BY GameNext, SearchNext, AccountsNext, BudgetNext, RecordsNext DEF SelfPlayInvariant

\* Whatever the engine and the network say, whichever driver searches and whatever its
\* settings: the books of a search, its budget and the records of the game are in order
\* throughout self-play.
THEOREM SelfPlayIsAccountable == ASSUME KindsCover PROVE SelfPlaySpec => []SelfPlayInvariant
<1>1. SelfPlayInit => SelfPlayInvariant
  BY SelfPlayBegins
<1>2. SelfPlayInvariant /\ [SelfPlayNext]_selfPlayVars => SelfPlayInvariant'
  BY SelfPlayGoesOn, SelfPlayStutters
<1> QED BY <1>1, <1>2, PTL DEF SelfPlaySpec

\* Between two root visits of puctSearch every count and value sum of the tree is that of
\* the leaves reached below it, each in the frame of the player to move: simulate negates
\* exactly once per ply, at any depth and whatever it met on the way.
THEOREM EverySearchIsAccountedFor == ASSUME KindsCover PROVE SelfPlaySpec => []SearchIsAccountedFor
<1>1. SelfPlayInvariant => SearchIsAccountedFor
  BY BooksAreTheAccount DEF SelfPlayInvariant
<1> QED BY <1>1, SelfPlayIsAccountable, PTL

\* When sequential halving has left one action the visits made are within the budget, in
\* the tree search all of it; nobody was visited more often than the action played but for
\* a cut pass, and the encoder accepts the counts.
THEOREM EveryBudgetIsSpent == ASSUME KindsCover PROVE SelfPlaySpec => []BudgetIsSpent
<1>1. SelfPlayInvariant => BudgetIsSpent
  BY BudgetIsTheSpending DEF SelfPlayInvariant
<1> QED BY <1>1, SelfPlayIsAccountable, PTL

\* A finished game has one record per ply in the order played, its target a distribution on
\* legal actions that the one played has part of, its z the result for the player to move.
THEOREM RecordsAlwaysTellTheGame == ASSUME KindsCover PROVE SelfPlaySpec => []RecordsTellTheGame
<1>1. SelfPlayInvariant => RecordsTellTheGame
  BY RecordsAreTheGame DEF SelfPlayInvariant
<1> QED BY <1>1, SelfPlayIsAccountable, PTL

=============================================================================
