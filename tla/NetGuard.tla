-------------------------------- MODULE NetGuard --------------------------------
(***************************************************************************)
(* createNetGuard in net-guard.mjs: what a search counts of the answers    *)
(* its network gave, and when it refuses to return a move.                 *)
(*                                                                         *)
(* An answer is [policy, value].  A policy is Blind when its legal logits  *)
(* cannot be normalised; a value is Garbage when it is not finite or lies  *)
(* outside [-1, 1]; a whole answer stands for its signature.               *)
(***************************************************************************)
EXTENDS Naturals, Sequences, FiniteSets, FiniteSetsExt

CONSTANTS
  Blind,
  Garbage,
  FlatLimit, \* flat leaves that refuse a move (3 in the code)
  SameLimit  \* leaves after which identical answers stop the search (8 in the code)

ASSUME LimitAssumption == FlatLimit \in Nat \ {0} /\ SameLimit \in Nat \ {0, 1}

Fresh == [leaves |-> 0, informed |-> 0, blind |-> 0, flat |-> 0, narrowFlat |-> 0,
          maskEmpty |-> 0, first |-> <<>>, allIdentical |-> TRUE]

\* Which of the guard's counters a leaf belongs to, by its legal moves.
Contribution(answer, legal, levelled) ==
  IF legal = 0 THEN "maskEmpty"
  ELSE IF answer.policy = Blind THEN "blind"
  ELSE IF levelled THEN IF legal >= 3 THEN "flat" ELSE "narrowFlat"
  ELSE "informed"

\* The answers to several leaves, each with the counter it belongs to, in turn.
Classified(guard, answers, counters) ==
  LET seen == DOMAIN answers
      among(counter) == Cardinality({i \in seen : counters[i] = counter})
      first == IF guard.first # <<>> \/ seen = {} THEN guard.first ELSE <<answers[Min(seen)]>>
  IN [leaves |-> guard.leaves + Cardinality(seen), informed |-> guard.informed + among("informed"),
      blind |-> guard.blind + among("blind"), flat |-> guard.flat + among("flat"),
      narrowFlat |-> guard.narrowFlat + among("narrowFlat"),
      maskEmpty |-> guard.maskEmpty + among("maskEmpty"), first |-> first,
      allIdentical |-> guard.allIdentical /\ \A i \in seen : first = <<answers[i]>>]

Doomed(guard) ==
  \/ guard.maskEmpty > 0 \/ guard.blind > 0 \/ guard.flat >= FlatLimit
  \/ guard.leaves >= SameLimit /\ guard.allIdentical

\* finish returns.
Finishes(guard) ==
  /\ guard.maskEmpty = 0 /\ guard.blind = 0
  /\ guard.flat < FlatLimit
  /\ guard.informed > 0
  /\ ~(guard.leaves >= 2 /\ guard.allIdentical)
=================================================================================
