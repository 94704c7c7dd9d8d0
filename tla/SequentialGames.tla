---------------------------- MODULE SequentialGames ----------------------------
(***************************************************************************)
(* What playGames in normal-duel-checkpoints.mjs promises: the verdict of  *)
(* a loop that plays the jobs one after the other and stops at the first   *)
(* game that throws.                                                       *)
(***************************************************************************)
EXTENDS Naturals

CONSTANTS
  Games,   \* the length of the job list
  Values   \* what runMatch may return

Jobs == 1 .. Games

\* How a job's runMatch ends: it owns its opening, seed and sessions, so this is the
\* job's alone.
Fates == [Jobs -> Values \cup {"throws"}]

VARIABLES
  fate,
  verdict \* of the evaluation: "pending", the results, or the job whose error is thrown

Pending == [kind |-> "pending"]
Threw(job) == [kind |-> "threw", job |-> job]
Returned(results) == [kind |-> "returned", results |-> results]

SequentialVerdict(f) ==
  IF \E j \in Jobs : f[j] = "throws"
  THEN Threw(CHOOSE j \in Jobs : f[j] = "throws" /\ \A i \in Jobs : i < j => f[i] # "throws")
  ELSE Returned(f)

Init == fate \in Fates /\ verdict = Pending

Decide ==
  /\ verdict = Pending
  /\ verdict' = SequentialVerdict(fate)
  /\ UNCHANGED fate

Spec == Init /\ [][Decide]_<<fate, verdict>> /\ WF_<<fate, verdict>>(Decide)
=============================================================================
