---------------------------- MODULE StrengthMatch ----------------------------
(***************************************************************************)
(* runMatch in normal-duel-strength.mjs: one game between two engines,     *)
(* strength mode, and the active-time accounts of their sessions in        *)
(* worker-engine-proxy.mjs.                                                *)
(*                                                                         *)
(* Every await of runMatch is a step.  A decision is a settlement: what    *)
(* the session hands back or fails with, its trusted timing, and the time  *)
(* that the harness's own clock saw pass.  The game itself is abstract: a  *)
(* legal action may end it (NormalDuelRules has the rules).                *)
(***************************************************************************)
EXTENDS Integers, FiniteSets

CONSTANTS
  Pairings,    \* what the engines of the two sides may be
  Budget,      \* perMoveDeadlineMs, also the initialization and observer caps
  Grace,       \* wallTimeoutGraceMs
  MaxSetup,    \* bounds on the time one operation takes...
  MaxObserve,
  MaxTeardown,
  Slip,        \* ...on how late the rpc timer fires
  MaxLag,      \* ...and on the harness's delay in noticing a settlement
  MaxPly       \* bound on the plies of a game

Sides == {"A", "B"}
Other(side) == IF side = "A" THEN "B" ELSE "A"

ASSUME PairingsAssumption == Pairings \subseteq [Sides -> {"subprocess", "recycled", "in_process"}]
ASSUME TimeAssumption ==
  {Budget, Grace, MaxSetup, MaxObserve, MaxTeardown, Slip, MaxLag, MaxPly} \subseteq Nat

VARIABLES
  kind,     \* per side: its engine's, of one of the Pairings
  phase,    \* "create", "decide", "observe", "close" or "returned"
  cursor,   \* the side the create, observe and close loops have reached
  turn,
  ply,
  outcome,  \* of the state play has reached: "ongoing", "draw" or the winning side
  session,  \* per side: whether it is open, and its unharvested debts
  seen,     \* per side: the transitions its session has observed
  ledger,   \* per side: the active time in its telemetry
  result,

  spent,    \* history: per side, the active time its engine really used
  erred     \* history: the sides whose engine failed or was late

vars == <<kind, phase, cursor, turn, ply, outcome, session, seen, ledger, result, spent, erred>>

NoSession == [open |-> FALSE, setup |-> 0, observer |-> 0]
Fresh(setup) == [open |-> TRUE, setup |-> setup, observer |-> 0]
Debt(s) == s.setup + s.observer

Trusted(side) == kind[side] # "in_process"

\* Accounts keep the setup and observer charges apart from the selection's.
NoTime == [debt |-> 0, select |-> 0]
Time(debt, select) == [debt |-> debt, select |-> select]
Plus(t, u) == [debt |-> t.debt + u.debt, select |-> t.select + u.select]
Total(t) == t.debt + t.select

NoResult == [kind |-> "none", winner |-> "none", failed |-> "none", by |-> "none"]

Init ==
  /\ kind \in Pairings
  /\ phase = "create" /\ cursor = "A"
  /\ turn \in Sides /\ ply = 0 /\ outcome = "ongoing"
  /\ session = [x \in Sides |-> NoSession]
  /\ seen = [x \in Sides |-> 0]
  /\ ledger = [x \in Sides |-> NoTime]
  /\ result = NoResult
  /\ spent = [x \in Sides |-> NoTime]
  /\ erred = {}

(* ---- Results --------------------------------------------------------------- *)

\* frozenTelemetry takes the pending debts of both sessions.
Harvest(accounts, sessions) ==
  /\ ledger' = [x \in Sides |-> Plus(accounts[x], Time(Debt(sessions[x]), 0))]
  /\ session' = [x \in Sides |-> [open |-> sessions[x].open, setup |-> 0, observer |-> 0]]

ForfeitByMover(side, by, accounts, sessions) ==
  /\ result' = [kind |-> "forfeit", winner |-> Other(turn), failed |-> turn, by |-> by]
  /\ Harvest(accounts, sessions)
  /\ phase' = "close" /\ cursor' = "A"

\* failureResult: an immediate loss for the offender, declared by the engine's own
\* failure or by the harness.
Forfeit(side, by, accounts, sessions) ==
  /\ result' = [kind |-> "forfeit", winner |-> Other(side), failed |-> side, by |-> by]
  /\ Harvest(accounts, sessions)
  /\ phase' = "close" /\ cursor' = "A"

Charge(side, time) == [ledger EXCEPT ![side] = Plus(@, time)]
Spend(side, time) ==
  /\ spent' = [spent EXCEPT ![side] = Plus(@, time)]
  /\ UNCHANGED erred
Err(side, time) ==
  /\ spent' = [spent EXCEPT ![side] = Plus(@, time)]
  /\ erred' = erred \cup {side}

(* ---- Creating the sessions -------------------------------------------------- *)

\* createSession and ready(): a subprocess session's start becomes setup debt.
SetupTimes(side) == IF kind[side] = "subprocess" THEN 0 .. MaxSetup ELSE {0}

SessionReady ==
  /\ phase = "create"
  /\ \E t \in SetupTimes(cursor) :
       /\ session' = [session EXCEPT ![cursor] = Fresh(t)]
       /\ Spend(cursor, Time(t, 0))
  /\ IF cursor = "A" THEN cursor' = "B" /\ phase' = "create"
                     ELSE cursor' = "A" /\ phase' = "decide"
  /\ UNCHANGED <<turn, ply, outcome, seen, ledger, result>>

\* createSession or ready() throws; the failure carries its trusted setup time and may
\* leave a session behind.  A recycled session starts nothing yet.
SessionFails ==
  /\ phase = "create" /\ kind[cursor] # "recycled"
  /\ \E t \in SetupTimes(cursor), left \in {NoSession, Fresh(0)} :
       /\ Err(cursor, Time(t, 0))
       /\ Forfeit(cursor, "engine", Charge(cursor, Time(t, 0)),
                  [session EXCEPT ![cursor] = left])
  /\ UNCHANGED <<turn, ply, outcome, seen>>

(* ---- Settlements ------------------------------------------------------------ *)

\* What settleDecision returns: a value, the engine's error or the wall timeout; the
\* active time it stands for; and the time between the harness's two clock readings.
Settlement(how, time, elapsed) == [how |-> how, time |-> time, elapsed |-> elapsed]

\* A subprocess session's selection with this much of the budget remaining.  Its rpc
\* timer comes before the wall timeout; a value counts only within what remains.
Selection(debt, remaining) ==
  {Settlement("value", Time(debt, t), t + lag) : t \in 0 .. remaining, lag \in 0 .. MaxLag}
  \cup
  {Settlement("error", Time(debt, t), t + lag) :
     t \in 0 .. remaining + Slip, lag \in 0 .. MaxLag}

\* selectAction of a subprocess session: both debts come off the budget and are reset,
\* whatever happens next.
SubprocessSettlements(s) ==
  IF Debt(s) >= Budget
  THEN {Settlement("error", Time(Debt(s), 0), lag) : lag \in 0 .. MaxLag}
  ELSE Selection(Debt(s), Budget - Debt(s))

\* One decision of a recycled session: the child's setup, its selection, which a value
\* must end within the budget, and its teardown, charged as selection.  The harness
\* waits for the whole of it no longer than the wall timeout.
RecycledDecisions ==
  {d \in [how : {"value", "error"}, setup : 0 .. MaxSetup, select : 0 .. Budget + Slip,
          teardown : 0 .. MaxTeardown, lag : 0 .. MaxLag] :
     /\ d.setup + d.select <= Budget + Slip
     /\ d.how = "value" => d.setup < Budget /\ d.setup + d.select <= Budget}

RecycledSettlements ==
  {LET total == d.setup + d.select + d.teardown
   IN Settlement(IF total >= Budget + Grace THEN "wall_timeout" ELSE d.how,
                 Time(d.setup, d.select + d.teardown),
                 (IF total >= Budget + Grace THEN Budget + Grace ELSE total) + d.lag) :
     d \in RecycledDecisions}

\* An engine in this process has no trusted clock; the harness charges what it saw pass.
InProcessSettlements ==
  {Settlement(how, Time(0, t), t) : how \in {"value", "error"}, t \in 0 .. Budget + Grace - 1}
  \cup {Settlement("wall_timeout", Time(0, Budget + Grace), Budget + Grace)}

Settlements(side) ==
  CASE kind[side] = "subprocess" -> SubprocessSettlements(session[side])
    [] kind[side] = "recycled"   -> RecycledSettlements
    [] kind[side] = "in_process" -> InProcessSettlements

\* The mover's session once selectAction has charged its debts.
Charged == [session EXCEPT ![turn] = [open |-> @.open, setup |-> 0, observer |-> 0]]

\* The debts among a settlement's time were spent before the decision.
Used(d) == Time(d.time.debt - Debt(session[turn]), d.time.select)

(* ---- Decisions -------------------------------------------------------------- *)

\* The engine's error is adjudicated with the timing it carries.
DecisionFails ==
  /\ phase = "decide" /\ outcome = "ongoing"
  /\ \E d \in {x \in Settlements(turn) : x.how = "error"} :
       /\ Err(turn, Used(d))
       /\ Forfeit(turn, "engine", Charge(turn, d.time), Charged)
  /\ UNCHANGED <<turn, ply, outcome, seen>>

\* The wall timeout, and a value that the harness's clock saw come too late.
Late(d) == d.how = "wall_timeout" \/ (d.how = "value" /\ d.elapsed > Budget)

\* The harness declares a deadline of its own and charges the elapsed time alone.
DecisionLate ==
  /\ phase = "decide" /\ outcome = "ongoing"
  /\ \E d \in {x \in Settlements(turn) : Late(x)} :
       /\ Err(turn, Used(d))
       /\ Forfeit(turn, "harness", Charge(turn, Time(0, d.elapsed)), Charged)
  /\ UNCHANGED <<turn, ply, outcome, seen>>

InTime(side) == {d \in Settlements(side) : d.how = "value" /\ ~Late(d)}

\* A value that is unreadable, null or an illegal action.
BadValue ==
  /\ phase = "decide" /\ outcome = "ongoing"
  /\ \E d \in InTime(turn) :
       /\ Err(turn, Used(d))
       /\ Forfeit(turn, "engine", Charge(turn, d.time), Charged)
  /\ UNCHANGED <<turn, ply, outcome, seen>>

\* A legal action is applied and the transition goes to both sessions.
LegalAction ==
  /\ phase = "decide" /\ outcome = "ongoing" /\ ply < MaxPly
  /\ \E d \in InTime(turn) :
       /\ Spend(turn, Used(d))
       /\ ledger' = Charge(turn, d.time)
  /\ session' = Charged
  /\ outcome' \in IF ply + 1 = MaxPly THEN {turn, "draw"} ELSE {"ongoing", turn, "draw"}
  /\ ply' = ply + 1
  /\ phase' = "observe" /\ cursor' = "A"
  /\ UNCHANGED <<turn, seen, result>>

(* ---- Observers -------------------------------------------------------------- *)

ObserveTimes(side) == IF kind[side] = "subprocess" THEN 0 .. MaxObserve ELSE {0}

AfterObserve ==
  IF cursor = "A"
  THEN cursor' = "B" /\ phase' = "observe" /\ turn' = turn
  ELSE cursor' = "A" /\ phase' = "decide" /\ turn' = Other(turn)

ObserveOpponentOnly ==
  /\ phase = "observe"
  /\ \E t \in ObserveTimes(cursor) :
       /\ session' = [session EXCEPT ![cursor] =
            [open |-> @.open, setup |-> @.setup, observer |-> @.observer + t]]
       /\ Spend(cursor, Time(t, 0))
  /\ seen' = IF cursor = turn THEN seen ELSE [seen EXCEPT ![cursor] = @ + 1]
  /\ AfterObserve
  /\ UNCHANGED <<ply, outcome, ledger, result>>

\* observe() of one session returns; its time becomes observer debt.
Observe ==
  /\ phase = "observe"
  /\ \E t \in ObserveTimes(cursor) :
       /\ session' = [session EXCEPT ![cursor] =
            [open |-> @.open, setup |-> @.setup, observer |-> @.observer + t]]
       /\ Spend(cursor, Time(t, 0))
  /\ seen' = [seen EXCEPT ![cursor] = @ + 1]
  /\ AfterObserve
  /\ UNCHANGED <<ply, outcome, ledger, result>>

Cleared == [session EXCEPT ![cursor] = [open |-> @.open, setup |-> 0, observer |-> 0]]

ObserveFailsKeepingDebt ==
  /\ phase = "observe" /\ kind[cursor] # "recycled"
  /\ \E t \in ObserveTimes(cursor) :
       /\ Err(cursor, Time(t, 0))
       /\ Forfeit(cursor, "engine", Charge(cursor, Time(Debt(session[cursor]) + t, 0)), session)
  /\ UNCHANGED <<turn, ply, outcome, seen>>

\* A failed observation carries the session's whole debt, which it resets; a recycled
\* session's observe() cannot fail.  The game it follows may be over already.
ObserveFails ==
  /\ phase = "observe" /\ kind[cursor] # "recycled"
  /\ \E t \in ObserveTimes(cursor) :
       /\ Err(cursor, Time(t, 0))
       /\ Forfeit(cursor, "engine", Charge(cursor, Time(Debt(session[cursor]) + t, 0)), Cleared)
  /\ UNCHANGED <<turn, ply, outcome, seen>>

(* ---- The end ---------------------------------------------------------------- *)

\* The loop ends with the game.
PlayedOut ==
  /\ phase = "decide" /\ outcome # "ongoing"
  /\ result' = IF outcome = "draw"
               THEN [kind |-> "draw", winner |-> "none", failed |-> "none", by |-> "none"]
               ELSE [kind |-> "win", winner |-> outcome, failed |-> "none", by |-> "none"]
  /\ Harvest(ledger, session)
  /\ phase' = "close" /\ cursor' = "A"
  /\ UNCHANGED <<turn, ply, outcome, seen, spent, erred>>

\* The finally block closes every session there is; a close that throws changes nothing.
CloseSession ==
  /\ phase = "close"
  /\ session' = [session EXCEPT ![cursor] = NoSession]
  /\ IF cursor = "A" THEN cursor' = "B" /\ phase' = "close"
                     ELSE cursor' = "A" /\ phase' = "returned"
  /\ UNCHANGED <<turn, ply, outcome, seen, ledger, result, spent, erred>>

Next ==
  /\ \/ SessionReady \/ SessionFails
     \/ DecisionFails \/ DecisionLate \/ BadValue \/ LegalAction
     \/ Observe \/ ObserveFails
     \/ PlayedOut \/ CloseSession
  /\ UNCHANGED kind

Spec == Init /\ [][Next]_vars

(* ---- Properties ---------------------------------------------------------- *)

\* Type correctness; between two of its own decisions a session runs up the debt of its
\* setup and of two observations at most.
TypeOK ==
  /\ kind \in Pairings
  /\ phase \in {"create", "decide", "observe", "close", "returned"}
  /\ cursor \in Sides /\ turn \in Sides
  /\ ply \in 0 .. MaxPly
  /\ outcome \in {"ongoing", "draw"} \cup Sides
  /\ session \in [Sides -> [open : BOOLEAN, setup : 0 .. MaxSetup,
                            observer : 0 .. 2 * MaxObserve]]
  /\ seen \in [Sides -> 0 .. MaxPly]
  /\ ledger \in [Sides -> [debt : Nat, select : Nat]]
  /\ spent \in [Sides -> [debt : Nat, select : Nat]]
  /\ result \in [kind : {"none", "forfeit", "win", "draw"}, winner : Sides \cup {"none"},
                 failed : Sides \cup {"none"}, by : {"none", "engine", "harness"}]
  /\ erred \subseteq Sides

\* The harness has adjudicated against this side by its own clock.
Overridden(side) == result.failed = side /\ result.by = "harness"

\* A trusted engine's time is in its telemetry once and under its own heading, or still
\* pending in its session; only a deadline the harness declares itself is exempt, and
\* even there a subprocess is charged for at least the time it used.  No move was accepted
\* that used more than its budget, the setup and the observations since the engine's last
\* decision included (845-851, 677-683).
LedgerExact ==
  /\ \A x \in Sides :
       /\ Trusted(x) /\ ~Overridden(x) =>
            /\ ledger[x].debt + Debt(session[x]) = spent[x].debt
            /\ ledger[x].select = spent[x].select
       /\ kind[x] = "subprocess" /\ result.kind # "none" => Total(ledger[x]) >= Total(spent[x])
  /\ phase = "decide" => Total(ledger["A"]) + Total(ledger["B"]) <= Budget * ply

\* Whenever a side is asked to move, both sessions are open and have observed every
\* transition since the opening.
BothSawTheGame ==
  phase = "decide" => \A x \in Sides : session[x].open /\ seen[x] = ply

\* Only an engine that failed or was late forfeits, to an opponent that was not; a game
\* that was played out had no failure at all.
OnlyOffendersForfeit ==
  /\ result.kind = "forfeit" => result.failed \in erred /\ result.winner \notin erred
  /\ result.kind \in {"win", "draw"} => erred = {}

=============================================================================
