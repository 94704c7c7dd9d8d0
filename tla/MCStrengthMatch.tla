---------------------------- MODULE MCStrengthMatch ----------------------------
(***************************************************************************)
(* Two pairings: the enforced gate, the pinned baseline in a subprocess of *)
(* its own against a recycled candidate; and a subprocess candidate        *)
(* against an engine of this process, as the tests pair them.              *)
(***************************************************************************)
EXTENDS StrengthMatch, StrengthEvaluation, MCEngine

VARIABLE half     \* a game, an evaluation and the making of an engine share nothing: a behaviour runs one of them

SubprocessVsRecycled == [x \in Sides |-> IF x = "A" THEN "subprocess" ELSE "recycled"]
SubprocessVsInProcess == [x \in Sides |-> IF x = "A" THEN "subprocess" ELSE "in_process"]
MCPairings == {SubprocessVsRecycled, SubprocessVsInProcess}

Opening(n) == [id |-> n, position |-> n, plies |-> 4, delta |-> 0, replay |-> "ongoing"]
Book(n) == [i \in 1 .. n |-> Opening(i)]

Request(book) ==
  [book |-> book, generated |-> Len(book), ids |-> <<"contender", "hard">>, enforce |-> TRUE,
   minimum |-> 2, missing |-> {}]

\* An enforced evaluation, the same without enforcement, and every one way to be refused.
MCRequests ==
  {Request(Book(2)), Request(Book(3)), [Request(Book(2)) EXCEPT !.enforce = FALSE, !.missing = {"mode"}]}
  \cup {[Request(Book(2)) EXCEPT !.missing = {what}] : what \in Requirements}
  \cup {[Request(Book(2)) EXCEPT !.minimum = 3], [Request(Book(2)) EXCEPT !.minimum = 1],
        [Request(Book(1)) EXCEPT !.enforce = FALSE, !.minimum = 1], Request(Book(1)),
        [Request(Book(2)) EXCEPT !.generated = 3], [Request(Book(2)) EXCEPT !.ids = <<"hard", "hard">>],
        Request(<<>>), Request(<<Opening(1), Opening(1)>>)}
  \cup {[Request(Book(2)) EXCEPT !.enforce = FALSE, !.book = <<Opening(1), bad>>] :
          bad \in {[Opening(2) EXCEPT !.position = 1], [Opening(2) EXCEPT !.plies = 7],
                   [Opening(2) EXCEPT !.delta = 2], [Opening(2) EXCEPT !.replay = "terminal"]}}

HalvesInit ==
  /\ Init /\ StrengthInit /\ EngineInit /\ half \in {"game", "evaluation", "engine"}
  /\ half # "evaluation" => request = Request(Book(2))
  /\ half # "game" => kind = SubprocessVsRecycled /\ turn = "A"
  /\ half # "engine" => disk = Release("official", "official")
HalvesNext ==
  /\ UNCHANGED half
  /\ \/ half = "game" /\ Next /\ UNCHANGED <<strengthVars, engineVars>>
     \/ half = "evaluation" /\ StrengthNext /\ UNCHANGED <<vars, engineVars>>
     \/ half = "engine" /\ EngineNext /\ UNCHANGED <<vars, strengthVars>>
HalvesSpec == HalvesInit /\ [][HalvesNext]_<<vars, strengthVars, engineVars, half>>
=============================================================================
