----------------------------- MODULE MCTreeSearch -----------------------------
(* Self-play games over small game graphs: a position is one of four kinds, so *)
(* that lines of play meet again and a kind recurs at several depths.          *)
EXTENDS TreeSearch

MCCodes == {2, 5, 7}

Sum(l) == FoldLeft(LAMBDA x, y : x + y, 0, l)

\* Kind 0 is the initial position and no other.
MCKindOf(l) == IF l = <<>> THEN 0 ELSE 1 + ((Sum(l) + Len(l)) % 3)

MCKinds == 0 .. 3

LegalOf == [k \in 0 .. 3 |-> IF k = 0 THEN {2, 5, 7} ELSE {2, 5, 7} \ {<<2, 5, 7>>[k]}]

Results == {[k \in 0 .. 3 |-> IF k = 0 THEN "ongoing" ELSE r[k]] :
              r \in [1 .. 3 -> {"ongoing", "win", "draw"}]}

Values == {[k \in 0 .. 3 |-> v[1 + (k % 3)]] : v \in [1 .. 3 -> {-60, 45}]}

\* A network with an opinion, and one with no mass on any legal action.
Policies == {[k \in 0 .. 3 |-> [c \in MCCodes |-> p[((c + k) % 3) + 1]]] : p \in {<<70, 20, 10>>, <<0, 0, 0>>}}

Scores == {[c \in MCCodes |-> s[(c % 3) + 1]] : s \in {<<0, 0, 0>>, <<2500, 0, -900>>}}

MCWorlds ==
  {[legal |-> LegalOf, result |-> r, value |-> v, policy |-> p, scores |-> Scores] :
     r \in Results, v \in Values, p \in Policies}
  \cup \* a network that answers with a value or a probability out of range
  {[legal |-> LegalOf, result |-> [k \in 0 .. 3 |-> "ongoing"],
    value |-> [k \in 0 .. 3 |-> IF k = bad THEN 101 ELSE 0],
    policy |-> [k \in 0 .. 3 |-> [c \in MCCodes |-> IF k = worse THEN -1 ELSE 10]],
    scores |-> Scores] : bad \in {0, 2, 4}, worse \in {1, 4}}

Setting(d, s, m, cap) == [driver |-> d, simulations |-> s, maxConsidered |-> m, plyCap |-> cap]

MCSettings == {Setting("puct", 7, 3, 2), Setting("puct", 2, 3, 2), Setting("puct", 4, 1, 2),
               Setting("gumbel", 7, 3, 3), Setting("gumbel", 4, 1, 2)}
=============================================================================
