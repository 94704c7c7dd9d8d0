------------------------------- MODULE MCDistill -------------------------------
(* Two games in two slots.  After "w" there is one move; "p", "p" is narrow and *)
(* flat; the line that starts with "w" is won by A, the other is cut at the cap.*)
EXTENDS Distill, NetMatch, MCTreeSearch

CONSTANTS
  Parts,
  MaxTrouble   \* the collections and the crashes of one directory

VARIABLE part     \* the three share nothing: a behaviour runs one of them

MCLegal(h) == IF h = <<"w">> THEN {"p"} ELSE IF h = <<"w", "p">> THEN {"p", "v"} ELSE {"p", "w"}
MCOutcome(h) == IF h = <<"w", "p", "p">> THEN "A" ELSE "ongoing"
MCLeaves(h, budget) ==
  IF h = <<"w">> THEN 0
  ELSE IF budget = "shallow" THEN (IF h = <<>> THEN 2 ELSE 1)
  ELSE (IF h = <<>> THEN 3 ELSE 1)
MCBest(h) == "p"
MCSupport(h, budget) == IF budget = "deep" /\ h = <<"w", "p">> THEN {"p"} ELSE MCLegal(h)
MCNarrowFlat == {<<"p", "p">>}

MCElo(w, d) == IF 2 * w = d THEN 0 ELSE IF 3 * w = d THEN -120 ELSE IF 4 * w = d THEN -191
               ELSE IF 3 * w = 2 * d THEN 120 ELSE 191

Of(s1, s2) == [file |-> "object", parents |-> {"P"}, anchors |-> [n \in Nets |-> IF n = "s1" THEN s1 ELSE IF n = "s2" THEN s2 ELSE NoAnchor]]
Kept(elo) == [base |-> "P", decided |-> 9, wins |-> 4, elo |-> <<elo>>]

MCLedgers ==
  {Empty("missing"), Empty("malformed")}
  \cup {Of(Kept(8), [base |-> "old", decided |-> 9, wins |-> 4, elo |-> <<8>>]),
        Of(Kept(8), [base |-> "P", decided |-> 0, wins |-> 0, elo |-> <<0>>]),
        Of(Kept(530), Kept(8)), Of(Kept(-530), Kept(8)), Of(Kept(-120), Kept(8))}

PartsInit ==
  /\ Init /\ MatchInit /\ SelfPlayInit /\ part \in Parts
  /\ part # "ledger" => ledger = Empty("missing")
  /\ part # "self-play" => world \in {CHOOSE w \in Worlds : TRUE} /\ setting \in {CHOOSE s \in Settings : TRUE}
PartsNext ==
  /\ UNCHANGED part
  /\ \/ part = "corpus" /\ Next /\ collections' + crashes' <= MaxTrouble /\ UNCHANGED <<matchVars, selfPlayVars>>
     \/ part = "ledger" /\ MatchNext /\ UNCHANGED <<vars, selfPlayVars>>
     \/ part = "self-play" /\ SelfPlayNext /\ UNCHANGED <<vars, matchVars>>
PartsSpec == PartsInit /\ [][PartsNext]_<<vars, matchVars, selfPlayVars, part>>
=============================================================================
