------------------------------ MODULE TreeSearch ------------------------------
(***************************************************************************)
(* The two searches of the self-play generator and the games they play:    *)
(* puctSearch (js/normal-duel-puct-search.mjs), whose root visits each run *)
(* a simulation down a tree, and gumbelRootSearch                          *)
(* (js/normal-duel-gumbel-search.mjs), whose visits re-read a child's      *)
(* cached value.  Both draw a score per legal root action, consider the    *)
(* best few and halve them until one is left, which is played and recorded *)
(* with its visit counts as a training target.                             *)
(*                                                                         *)
(* A position is the line of action codes that leads to it.  What the      *)
(* engine and the network say of it depends on its kind alone and is fixed *)
(* for a behaviour, so the evaluator is pure, as the searches require.     *)
(* Probabilities, values and scores are integers, Unit standing for 1: the *)
(* arithmetic rounds down where the code's rounds to a double.             *)
(***************************************************************************)
EXTENDS Integers, Sequences, SequencesExt, FiniteSetsExt

CONSTANTS
  Codes,      \* the action codes that occur, integers
  Unit,
  Kinds,
  Worlds,     \* what the engine and the network say of each kind
  KindOf(_),  \* the kind of the position that a line of play leads to
  Settings    \* [driver, simulations, maxConsidered, plyCap] of a game

ASSUME SearchAssumption ==
  /\ Codes \subseteq Nat /\ IsFiniteSet(Codes)
  /\ Unit \in Nat \ {0}
  /\ \A s \in Settings : /\ s.driver \in {"puct", "gumbel"}
                         /\ {s.simulations, s.maxConsidered, s.plyCap} \subseteq Nat \ {0}
                         /\ s.simulations <= Unit    \* a visit is not rounded away

\* The drawn scores are Gumbel noise and the logits.  A game begins undecided, and whoever
\* is to move in an undecided game has a move.
ASSUME WorldsAssumption ==
  \A w \in Worlds :
    /\ w.legal \in [Kinds -> SUBSET Codes]
    /\ w.result \in [Kinds -> {"ongoing", "win", "draw"}]
    /\ w.value \in [Kinds -> Int] /\ w.policy \in [Kinds -> [Codes -> Int]]
    /\ w.scores \subseteq [Codes -> Int]
    /\ w.result[KindOf(<<>>)] = "ongoing"
    /\ \A k \in Kinds : w.result[k] = "ongoing" => w.legal[k] # {}

VARIABLES
  world,      \* [legal, result, policy, value], each a function of the kind
  setting,
  phase,      \* "search", "visit", "descend", "backup", "over" or "thrown"
  game,       \* the line played so far
  tree,       \* line below the root -> node
  score,      \* legal root action -> g + logit
  considered, survivors,
  plan,       \* the root visits that are left of this round
  used,       \* simulations; budget is what they leave
  evaluations,\* leaves evaluated, the root's left out
  line,       \* where the simulation under way stands
  carried,    \* the value it is backing up, in the frame of that node
  records     \* the records of the game

selfPlayVars == <<world, setting, phase, game, tree, score, considered, survivors, plan,
                  used, evaluations, line, carried, records>>

Player(ply) == IF ply % 2 = 0 THEN "A" ELSE "B"

(* ---- The engine and the evaluator, at a position ------------------------ *)

At(below) == KindOf(game \o below)
LegalAfter(below) == world.legal[At(below)]

\* The engine lets only the player who has just moved win, so that a won position
\* is lost for the side to move.
Winner(moves) == IF world.result[KindOf(moves)] = "win" THEN Player(Len(moves) - 1) ELSE "none"
Ongoing(moves) == world.result[KindOf(moves)] = "ongoing"

TerminalValue(below) ==
  IF world.result[At(below)] = "win"
  THEN IF Winner(game \o below) = Player(Len(game) + Len(below)) THEN Unit ELSE -Unit
  ELSE 0

\* readEvaluation.
ValidEvaluation(below) ==
  /\ world.value[At(below)] \in -Unit .. Unit
  /\ \A c \in Codes : world.policy[At(below)][c] >= 0

Prior(below, c) ==
  LET policy == world.policy[At(below)]
      mass   == SumFunctionOnSet(policy, LegalAfter(below))
  IN IF mass > 0 THEN (policy[c] * Unit) \div mass ELSE Unit \div Cardinality(LegalAfter(below))

(* ---- The tree ----------------------------------------------------------- *)

NewEdge(below, c) == [prior |-> Prior(below, c), visits |-> 0, valueSum |-> 0]

CreateNode(below) ==
  [terminal |-> ~Ongoing(game \o below), expanded |-> FALSE, edges |-> [c \in {} |-> 0],
   visits |-> 0, valueSum |-> 0, value |-> 0, visitedPrior |-> 0]

\* expand, once the evaluation has been read.
Expand(node, below) ==
  [node EXCEPT !.expanded = TRUE, !.value = world.value[At(below)], !.visitedPrior = 0,
               !.edges = [c \in LegalAfter(below) |-> NewEdge(below, c)]]

AddNode(nodes, below) ==
  [l \in DOMAIN nodes \cup {below} |-> IF l \in DOMAIN nodes THEN nodes[l] ELSE CreateNode(below)]

\* The integer square root.
SquareRoot[n \in Nat] ==
  IF n = 0 THEN 0
  ELSE LET low == 2 * SquareRoot[n \div 4] IN IF (low + 1) * (low + 1) <= n THEN low + 1 ELSE low

NodeValue(node) == IF node.visits > 0 THEN node.valueSum \div node.visits ELSE node.value

Clamp(v) == IF v > Unit THEN Unit ELSE IF v < -Unit THEN -Unit ELSE v

EdgeQ(node, c) ==
  LET edge == node.edges[c]
  IN IF edge.visits > 0 THEN edge.valueSum \div edge.visits
     ELSE Clamp(NodeValue(node) - SquareRoot[node.visitedPrior * Unit] \div 4)

\* cPuct at its default of 1.25.
EdgeScore(node, c) ==
  LET edge == node.edges[c]
  IN EdgeQ(node, c)
     + (5 * edge.prior * SquareRoot[node.visits * Unit * Unit]) \div (4 * Unit * (1 + edge.visits))

\* The lowest code of the best score.
SelectEdge(node) ==
  CHOOSE c \in DOMAIN node.edges :
    \A d \in DOMAIN node.edges \ {c} :
      \/ EdgeScore(node, c) > EdgeScore(node, d)
      \/ EdgeScore(node, c) = EdgeScore(node, d) /\ c < d

(* ---- The root ----------------------------------------------------------- *)

Root == tree[<<>>]
RootEdge(c) == Root.edges[c]

\* The k best of a set of candidates, lower codes first among equals.
TopScored(candidates, k, Worth(_)) ==
  {c \in candidates :
     Cardinality({d \in candidates : \/ Worth(d) > Worth(c)
                                     \/ Worth(d) = Worth(c) /\ d < c}) < k}

Considered(drawn) ==
  TopScored(DOMAIN drawn, setting.maxConsidered, LAMBDA c : drawn[c])

QHat(c) == IF RootEdge(c).visits > 0 THEN RootEdge(c).valueSum \div RootEdge(c).visits
                                     ELSE Root.value

Sigma(q, maxVisits) == (50 + maxVisits) * q

Halved ==
  LET most == Max({RootEdge(c).visits : c \in survivors})
  IN TopScored(survivors, (Cardinality(survivors) + 1) \div 2,
          LAMBDA c : score[c] + Sigma(QHat(c), most))

\* The logarithm of k, rounded up: the powers of two that are less.
Rounds(k) == Max({1, Cardinality({r \in 0 .. k : 2^r < k})})

\* The codes in ascending order: each has as many below it as come before it.
Ascending(codes) ==
  [i \in 1 .. Cardinality(codes) |->
     CHOOSE c \in codes : Cardinality({d \in codes : d < c}) = i - 1]

\* The first n visits of passes over the codes.
InPasses(codes, n) ==
  [i \in 1 .. n |-> Ascending(codes)[((i - 1) % Cardinality(codes)) + 1]]

PassesWithoutCap(chosen, m, spent) ==
  LET k      == Cardinality(chosen)
      passes == Max({1, setting.simulations \div (Rounds(m) * k)})
  IN IF k > 1 THEN InPasses(chosen, passes * k)
     ELSE IF setting.driver = "puct" THEN InPasses(chosen, setting.simulations - spent)
     ELSE <<>>

\* The visits of a round over the chosen, in passes by ascending code, as far as the
\* budget goes; the last one standing gets what is left of it, in the tree search.
Passes(chosen, m, spent) ==
  LET k      == Cardinality(chosen)
      passes == Max({1, setting.simulations \div (Rounds(m) * k)})
      left   == setting.simulations - spent
  IN IF k > 1 THEN InPasses(chosen, Min({left, passes * k}))
     ELSE IF setting.driver = "puct" THEN InPasses(chosen, left)
     ELSE <<>>

Search ==
  /\ phase = "search"
  /\ ValidEvaluation(<<>>)
  /\ \E drawn \in world.scores :
       LET scores == [c \in LegalAfter(<<>>) |-> drawn[c]]
           top    == Considered(scores)
       IN /\ score' = scores
          /\ considered' = top
          /\ survivors' = top
          /\ plan' = Passes(top, Cardinality(top), 0)
  /\ tree' = [l \in {<<>>} |-> Expand(CreateNode(<<>>), <<>>)]
  /\ used' = 0
  /\ evaluations' = 0
  /\ line' = <<>>
  /\ carried' = 0
  /\ phase' = "visit"
  /\ UNCHANGED <<world, setting, game, records>>

\* An evaluation that readEvaluation refuses: the search throws, and so does the game.
RootThrows ==
  /\ phase = "search"
  /\ ~ValidEvaluation(<<>>)
  /\ phase' = "thrown"
  /\ UNCHANGED <<world, setting, game, tree, score, considered, survivors, plan, used,
                 evaluations, line, carried, records>>

\* The first visit of an edge creates the child and takes its prior off what first-play
\* urgency leaves to the others.
TakeEdge(nodes, at, c) ==
  LET child == Append(at, c)
  IN AddNode([nodes EXCEPT ![at].visitedPrior =
                IF nodes[at].edges[c].visits = 0 THEN @ + nodes[at].edges[c].prior ELSE @], child)

Visit ==
  /\ phase = "visit" /\ setting.driver = "puct"
  /\ plan # <<>>
  /\ tree' = TakeEdge(tree, <<>>, Head(plan))
  /\ line' = <<Head(plan)>>
  /\ plan' = Tail(plan)
  /\ phase' = "descend"
  /\ UNCHANGED <<world, setting, game, score, considered, survivors, used, evaluations,
                 carried, records>>

Descend ==
  /\ phase = "descend"
  /\ tree[line].expanded
  /\ LET c == SelectEdge(tree[line])
     IN /\ tree' = TakeEdge(tree, line, c)
        /\ line' = Append(line, c)
  /\ UNCHANGED <<world, setting, phase, game, score, considered, survivors, plan, used,
                 evaluations, carried, records>>

Counted(node, value) == [node EXCEPT !.visits = @ + 1, !.valueSum = @ + value]

\* A simulation ends at a terminal node, which the engine scores and nobody evaluates,
\* or at one that it expands.
ReachTerminal ==
  /\ phase = "descend"
  /\ tree[line].terminal
  /\ tree' = [tree EXCEPT ![line] = Counted(@, TerminalValue(line))]
  /\ carried' = TerminalValue(line)
  /\ phase' = "backup"
  /\ UNCHANGED <<world, setting, game, score, considered, survivors, plan, used,
                 evaluations, line, records>>

ReachLeaf ==
  /\ phase = "descend"
  /\ ~tree[line].terminal /\ ~tree[line].expanded
  /\ ValidEvaluation(line)
  /\ tree' = [tree EXCEPT ![line] = Counted(Expand(@, line), world.value[At(line)])]
  /\ carried' = world.value[At(line)]
  /\ evaluations' = evaluations + 1
  /\ phase' = "backup"
  /\ UNCHANGED <<world, setting, game, score, considered, survivors, plan, used, line, records>>

LeafThrows ==
  /\ phase = "descend"
  /\ ~tree[line].terminal /\ ~tree[line].expanded
  /\ ~ValidEvaluation(line)
  /\ phase' = "thrown"
  /\ UNCHANGED <<world, setting, game, tree, score, considered, survivors, plan, used,
                 evaluations, line, carried, records>>

\* The value crosses one ply, negated, into the edge and the node above it.
Credited(node, c, value) == [Counted(node, value) EXCEPT !.edges[c] = Counted(@, value)]

BackedUpUnnegated(c, at, value) == [tree EXCEPT ![at] = Credited(@, c, value)]

BackedUp(c, at, value) == [tree EXCEPT ![at] = Credited(@, c, -value)]

Backup ==
  /\ phase = "backup"
  /\ LET above == Front(line)
     IN /\ tree' = BackedUp(Last(line), above, carried)
        /\ line' = above
        /\ carried' = IF above = <<>> THEN 0 ELSE -carried
        /\ phase' = IF above = <<>> THEN "visit" ELSE "backup"
        /\ used' = IF above = <<>> THEN used + 1 ELSE used
  /\ UNCHANGED <<world, setting, game, score, considered, survivors, plan, evaluations, records>>

\* gumbelRootSearch's visit: the child is adjudicated or evaluated the first time, and
\* its value, in the root's frame, is read again afterwards.
ChildValue(c) ==
  IF Ongoing(game \o <<c>>) THEN -world.value[At(<<c>>)] ELSE -TerminalValue(<<c>>)

CountedEdge(edge, c) == [edge EXCEPT !.visits = @ + 1, !.valueSum = @ + ChildValue(c)]

VisitChild ==
  /\ phase = "visit" /\ setting.driver = "gumbel"
  /\ plan # <<>>
  /\ LET c == Head(plan)
         fresh == RootEdge(c).visits = 0 /\ Ongoing(game \o <<c>>)
     IN /\ fresh => ValidEvaluation(<<c>>)
        /\ tree' = [tree EXCEPT ![<<>>].edges[c] = CountedEdge(@, c)]
        /\ evaluations' = evaluations + (IF fresh THEN 1 ELSE 0)
  /\ plan' = Tail(plan)
  /\ used' = used + 1
  /\ UNCHANGED <<world, setting, phase, game, score, considered, survivors, line, carried, records>>

ChildThrows ==
  /\ phase = "visit" /\ setting.driver = "gumbel"
  /\ plan # <<>>
  /\ LET c == Head(plan)
     IN RootEdge(c).visits = 0 /\ Ongoing(game \o <<c>>) /\ ~ValidEvaluation(<<c>>)
  /\ phase' = "thrown"
  /\ UNCHANGED <<world, setting, game, tree, score, considered, survivors, plan, used,
                 evaluations, line, carried, records>>

Halve ==
  /\ phase = "visit" /\ plan = <<>>
  /\ Cardinality(survivors) > 1
  /\ survivors' = Halved
  /\ plan' = Passes(Halved, Cardinality(considered), used)
  /\ UNCHANGED <<world, setting, phase, game, tree, score, considered, used, evaluations,
                 line, carried, records>>

(* ---- Self-play ---------------------------------------------------------- *)

VisitCounts == [c \in considered |-> RootEdge(c).visits]

\* effectiveVisitCounts: with no visit at all the played action is the whole target.
EffectiveVisitCounts(counts, played) ==
  IF \E c \in DOMAIN counts : counts[c] > 0 THEN counts ELSE [c \in {played} |-> 1]

\* encodeLegalPolicyTarget: the counts over their total, zero at every other code, none
\* when it would throw on an empty or an illegal target.
EncodeLegalPolicyTarget(counts, legal) ==
  LET total == SumFunction(counts)
  IN {target \in {[c \in Codes |-> IF c \in DOMAIN counts THEN (counts[c] * Unit) \div Max({1, total})
                                                        ELSE 0]} :
        total > 0 /\ \A c \in Codes : target[c] # 0 => c \in legal}

SearchRecord(played, target) ==
  [turn |-> Player(Len(game)), actionCode |-> played, z |-> 0, target |-> target,
   legal |-> LegalAfter(<<>>)]

ResultForA(turn, winner) == IF winner = "none" THEN 0 ELSE IF winner = "A" THEN 1 ELSE -1

ResultFor(turn, winner) == IF winner = "none" THEN 0 ELSE IF turn = winner THEN 1 ELSE -1

\* The action is played and recorded; the last one settles the records of the game.
Play ==
  /\ phase = "visit" /\ plan = <<>>
  /\ \E played \in survivors :
     \E target \in EncodeLegalPolicyTarget(EffectiveVisitCounts(VisitCounts, played), LegalAfter(<<>>)) :
       LET moves   == Append(game, played)
           all     == Append(records, SearchRecord(played, target))
           goesOn  == Ongoing(moves) /\ Len(moves) < setting.plyCap
       IN /\ survivors = {played}
          /\ game' = moves
          /\ phase' = IF goesOn THEN "search" ELSE "over"
          /\ records' = IF goesOn THEN all
                        ELSE [i \in DOMAIN all |->
                                [all[i] EXCEPT !.z = ResultFor(all[i].turn, Winner(moves))]]
  /\ UNCHANGED <<world, setting, tree, score, considered, survivors, plan, used,
                 evaluations, line, carried>>

SelfPlayInit ==
  /\ world \in Worlds
  /\ setting \in Settings
  /\ phase = "search"
  /\ game = <<>>
  /\ tree = [l \in {} |-> 0]
  /\ score = [c \in {} |-> 0]
  /\ considered = {} /\ survivors = {}
  /\ plan = <<>>
  /\ used = 0 /\ evaluations = 0
  /\ line = <<>> /\ carried = 0
  /\ records = <<>>

SelfPlayNext ==
  \/ Search \/ RootThrows
  \/ Visit \/ Descend \/ ReachTerminal \/ ReachLeaf \/ LeafThrows \/ Backup
  \/ VisitChild \/ ChildThrows
  \/ Halve \/ Play

SelfPlaySpec == SelfPlayInit /\ [][SelfPlayNext]_selfPlayVars

(* ---- Properties --------------------------------------------------------- *)

Between == phase = "visit"

Below(l) == {m \in DOMAIN tree : IsPrefix(l, m)}

\* What one node contributes to those above it: the value it was evaluated at when it
\* was expanded, or the engine's verdict each time it was reached.
Contribution(m, l) ==
  LET own == IF tree[m].terminal
             THEN IF world.result[At(m)] = "win" THEN -Unit * tree[m].visits ELSE 0
             ELSE IF m = <<>> THEN 0 ELSE tree[m].value
  IN IF (Len(m) - Len(l)) % 2 = 0 THEN own ELSE -own

Arrivals(m) == IF tree[m].terminal THEN tree[m].visits ELSE IF m = <<>> THEN 0 ELSE 1

\* Between two root visits of puctSearch every node's visits and value sum are those of
\* the leaves reached below it, each value in the frame of the player to move there, and
\* every edge holds its child's numbers in the frame of the parent: simulate() negates
\* exactly once per ply, whatever mix of terminal and repeated leaves it met.
SearchIsAccountedFor ==
  Between /\ setting.driver = "puct" =>
    \A l \in DOMAIN tree :
      LET node == tree[l]
          taken == {c \in DOMAIN node.edges : node.edges[c].visits > 0}
      IN /\ node.visits = SumFunction([m \in Below(l) |-> Arrivals(m)])
         /\ node.valueSum = SumFunction([m \in Below(l) |-> Contribution(m, l)])
         /\ node.visitedPrior = SumFunction([c \in taken |-> node.edges[c].prior])
         /\ \A c \in DOMAIN node.edges :
              /\ c \in taken <=> Append(l, c) \in DOMAIN tree
              /\ c \in taken => /\ node.edges[c].visits = tree[Append(l, c)].visits
                               /\ node.edges[c].valueSum = -tree[Append(l, c)].valueSum

SearchDecided == Between /\ plan = <<>> /\ Cardinality(survivors) = 1

\* When sequential halving has left one candidate: no simulation was made beyond the
\* budget, puctSearch has made all of them, each with at most one evaluation, every
\* candidate has had a visit if the budget allows one each, nobody was visited more
\* often than the one that is played but for a pass the budget cut short, and the
\* encoder accepts the counts as a target.
BudgetIsSpent ==
  SearchDecided =>
    LET played == CHOOSE c \in survivors : TRUE
        visits == SumFunction(VisitCounts)
    IN /\ used = visits /\ used <= setting.simulations /\ evaluations <= used
       /\ setting.driver = "puct" => used = setting.simulations
       /\ EncodeLegalPolicyTarget(EffectiveVisitCounts(VisitCounts, played), LegalAfter(<<>>)) # {}
       /\ \A c \in considered :
            /\ VisitCounts[c] <= VisitCounts[played] + 1
            /\ /\ setting.simulations >= Cardinality(considered)
               /\ Cardinality(considered) > 1 \/ setting.driver = "puct"
               => VisitCounts[c] > 0

\* The records of a finished self-play game: one per ply in the order played, each with a
\* target on legal actions that the action played is part of, and with z from the
\* point of view of the player who was to move: 1 to the winner's plies, -1 to the
\* loser's, 0 to all of a game that was drawn or cut off at the cap.
RecordsTellTheGame ==
  phase = "over" =>
    /\ Len(records) = Len(game)
    /\ Ongoing(game) => Len(game) = setting.plyCap
    /\ \A i \in DOMAIN records :
         LET r == records[i]
         IN /\ r.actionCode = game[i] /\ r.turn = Player(i - 1)
            /\ \A c \in Codes : r.target[c] # 0 => c \in r.legal
            /\ SumFunction(r.target) \in Unit - Cardinality(Codes) .. Unit
            /\ setting.simulations >= setting.maxConsidered => r.target[r.actionCode] > 0
            /\ r.z = IF Winner(game) = "none" THEN 0
                     ELSE IF (Len(game) - i) % 2 = 0 THEN 1 ELSE -1
=============================================================================
