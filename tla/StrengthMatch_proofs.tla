------------------------- MODULE StrengthMatch_proofs -------------------------
(***************************************************************************)
(* Proofs about the games of an evaluation.                                *)
(*                                                                         *)
(* A game of a strength match, for every budget, grace, bound on time and  *)
(* pairing of engines: the ledger of active time is exact, both sessions   *)
(* see the whole game, and only an offender forfeits.  While no result     *)
(* stands, neither engine has failed, and what a session has seen follows  *)
(* from the phase (SessionsFollow); what the engine has spent and the      *)
(* ledger lacks is the debt in its session (Owed), which only a subprocess *)
(* runs up and which is nothing once there is a result (DebtsFollow); and  *)
(* a decision in time costs no more than the budget, its debts included,   *)
(* since they came off it (Afforded).                                      *)
(*                                                                         *)
(* The queue of a checkpoint's evaluation, for any number of games, any    *)
(* concurrency and any set of failing games: playGames implements the      *)
(* sequential loop.  Jobs are taken in order, so the games taken are a     *)
(* prefix of the list (TakenPrefix).  While games remain, a worker stops   *)
(* only after a failure (StoppedForAReason).  Hence once all have settled  *)
(* either every game was played, or some game threw; and the first game    *)
(* that throws comes no later than that one, so it was taken too.          *)
(***************************************************************************)
EXTENDS StrengthMatch, StrengthEvaluation, CheckpointEvaluation, FiniteSetTheorems, TLAPS

Live == phase \in {"create", "decide", "observe"}

\* What the sessions have seen, and which of them there are.
SessionsFollow ==
  /\ phase = "create" =>
       /\ ply = 0 /\ outcome = "ongoing" /\ \A x \in Sides : seen[x] = 0
       /\ session["B"] = NoSession
       /\ session["A"].open <=> cursor = "B"
       /\ cursor = "A" => session["A"] = NoSession
  /\ phase \in {"decide", "observe"} => \A x \in Sides : session[x].open
  /\ phase = "decide" => \A x \in Sides : seen[x] = ply
  /\ phase = "observe" =>
       \A x \in Sides : seen[x] = IF x = "A" /\ cursor = "B" THEN ply ELSE ply - 1

ResultsFollow ==
  IF Live THEN result = NoResult /\ erred = {}
  ELSE result.kind \in {"forfeit", "win", "draw"}

\* Observations since a side's own last decision, its own move's the first of them.
Observed(x) ==
  IF phase = "decide" THEN IF x = turn THEN 2 ELSE 1
  ELSE IF phase = "observe"
  THEN (IF x = turn THEN 0 ELSE 1) + (IF x = "A" /\ cursor = "B" THEN 1 ELSE 0)
  ELSE 0

DebtsFollow ==
  \A x \in Sides :
    /\ kind[x] # "subprocess" => Debt(session[x]) = 0
    /\ session[x].observer <= Observed(x) * MaxObserve
    /\ ~Live => Debt(session[x]) = 0

\* The ledger and the debts account for what a trusted engine has spent.
Owed ==
  \A x \in Sides :
    /\ Trusted(x) /\ ~Overridden(x) =>
         /\ ledger[x].debt + Debt(session[x]) = spent[x].debt
         /\ ledger[x].select = spent[x].select
    /\ kind[x] = "subprocess" /\ ~Live => Total(ledger[x]) >= Total(spent[x])

\* The ledger of a game that goes on holds decisions in time only.
Afforded ==
  /\ phase = "create" => \A x \in Sides : Total(ledger[x]) = 0
  /\ phase \in {"decide", "observe"} => Total(ledger["A"]) + Total(ledger["B"]) <= Budget * ply

IInv ==
  /\ TypeOK
  /\ SessionsFollow /\ ResultsFollow /\ DebtsFollow
  /\ Owed /\ Afforded
  /\ OnlyOffendersForfeit

Accounts == [debt : Nat, select : Nat]
Spans == [open : BOOLEAN, setup : 0 .. MaxSetup, observer : 0 .. 2 * MaxObserve]

\* The assumption on the constants, one by one.
LEMMA Bounds ==
  /\ Budget \in Nat /\ Grace \in Nat /\ MaxSetup \in Nat /\ MaxObserve \in Nat
  /\ MaxTeardown \in Nat /\ Slip \in Nat /\ MaxLag \in Nat /\ MaxPly \in Nat
BY TimeAssumption

\* Two accounts of time add up to an account.
LEMMA PlusTyped ==
  ASSUME NEW t \in Accounts, NEW u \in Accounts
  PROVE  /\ Plus(t, u) \in Accounts
         /\ Plus(t, u).debt = t.debt + u.debt /\ Plus(t, u).select = t.select + u.select
BY DEF Plus, Accounts

\* An account made of two times is one, with those times in it.
LEMMA TimeTyped ==
  ASSUME NEW d \in Nat, NEW s \in Nat
  PROVE  Time(d, s) \in Accounts /\ Time(d, s).debt = d /\ Time(d, s).select = s
BY DEF Time, Accounts

\* An engine is one of the three kinds.
LEMMA KindsTyped ==
  ASSUME TypeOK, NEW x \in Sides
  PROVE  kind[x] \in {"subprocess", "recycled", "in_process"}
BY PairingsAssumption DEF TypeOK

\* A session's debt is a time: its setup's and its observations'.
LEMMA DebtTyped ==
  ASSUME NEW s \in Spans
  PROVE  Debt(s) \in Nat /\ Debt(s) = s.setup + s.observer /\ s.setup \in Nat /\ s.observer \in Nat
BY Bounds DEF Spans, Debt

\* What a settlement may stand for: a subprocess session takes its whole debt off the
\* budget first, a recycled one has none; and no value is in time that used more than
\* the budget, whoever keeps the clock.
LEMMA SettlementTimes ==
  ASSUME TypeOK, DebtsFollow, NEW d \in Settlements(turn)
  PROVE  /\ d.how \in {"value", "error", "wall_timeout"}
         /\ d.time \in Accounts /\ d.elapsed \in Nat
         /\ d.time.debt >= Debt(session[turn])
         /\ kind[turn] = "subprocess" =>
              /\ d.time.debt = Debt(session[turn]) /\ d.how # "wall_timeout"
              /\ d.how = "value" => Total(d.time) <= Budget
         /\ d.how = "value" /\ d.elapsed <= Budget => Total(d.time) <= Budget
<1> DEFINE owed == Debt(session[turn])
<1>1. turn \in Sides /\ session[turn] \in Spans
  BY DEF TypeOK, Spans
<1>2. owed \in Nat
  BY <1>1, DebtTyped
<1>3. kind[turn] # "subprocess" => owed = 0
  BY <1>1 DEF DebtsFollow
<1>4. CASE kind[turn] = "subprocess"
  <2>1. d \in SubprocessSettlements(session[turn])
    BY <1>4 DEF Settlements
  <2>2. CASE owed >= Budget
    <3>1. PICK lag \in 0 .. MaxLag : d = Settlement("error", Time(owed, 0), lag)
      BY <2>1, <2>2 DEF SubprocessSettlements
    <3> QED BY <3>1, <1>2, <1>4, Bounds DEF Settlement, Time, Accounts
  <2>3. CASE owed < Budget
    <3>1. d \in Selection(owed, Budget - owed)
      BY <2>1, <2>3, <1>2, Bounds DEF SubprocessSettlements
    <3>2. CASE \E t \in 0 .. Budget - owed, lag \in 0 .. MaxLag : d = Settlement("value", Time(owed, t), t + lag)
      BY <3>2, <1>2, <1>4, Bounds DEF Settlement, Time, Total, Accounts
    <3>3. CASE \E t \in 0 .. Budget - owed + Slip, lag \in 0 .. MaxLag : d = Settlement("error", Time(owed, t), t + lag)
      BY <3>3, <1>2, <1>4, Bounds DEF Settlement, Time, Total, Accounts
    <3> QED BY <3>1, <3>2, <3>3 DEF Selection
  <2> QED BY <2>2, <2>3, <1>2, Bounds
<1>5. CASE kind[turn] = "recycled"
  <2>1. PICK e \in RecycledDecisions :
          LET total == e.setup + e.select + e.teardown
          IN d = Settlement(IF total >= Budget + Grace THEN "wall_timeout" ELSE e.how,
                            Time(e.setup, e.select + e.teardown),
                            (IF total >= Budget + Grace THEN Budget + Grace ELSE total) + e.lag)
    BY <1>5 DEF Settlements, RecycledSettlements
  <2>2. /\ e.how \in {"value", "error"} /\ e.setup \in Nat /\ e.select \in Nat
        /\ e.teardown \in Nat /\ e.lag \in Nat
    BY Bounds DEF RecycledDecisions
  <2> QED BY <2>1, <2>2, <1>3, <1>5, Bounds DEF Settlement, Time, Total, Accounts
<1>6. CASE kind[turn] = "in_process"
  <2>1. d \in InProcessSettlements
    BY <1>6 DEF Settlements
  <2>2. CASE \E how \in {"value", "error"}, t \in 0 .. Budget + Grace - 1 : d = Settlement(how, Time(0, t), t)
    BY <2>2, <1>3, <1>6, Bounds DEF Settlement, Time, Total, Accounts
  <2>3. CASE d = Settlement("wall_timeout", Time(0, Budget + Grace), Budget + Grace)
    BY <2>3, <1>3, <1>6, Bounds DEF Settlement, Time, Total, Accounts
  <2> QED BY <2>1, <2>2, <2>3 DEF InProcessSettlements
<1> QED BY <1>1, <1>4, <1>5, <1>6, KindsTyped

\* A match that starts has no session, no time and no result.
LEMMA InitIInv == Init => IInv
<1> SUFFICES ASSUME Init PROVE IInv
  OBVIOUS
<1>1. TypeOK
  BY Bounds DEF Init, TypeOK, Sides, NoSession, NoTime, NoResult
<1>2. SessionsFollow /\ ResultsFollow /\ DebtsFollow
  BY Bounds DEF Init, SessionsFollow, ResultsFollow, DebtsFollow, Debt, NoSession, Observed, Live, Sides
<1>3. Owed /\ Afforded /\ OnlyOffendersForfeit
  BY DEF Init, Owed, Afforded, OnlyOffendersForfeit, NoTime, NoSession, NoResult, Debt, Total, Live, Sides
<1> QED BY <1>1, <1>2, <1>3 DEF IInv

\* failureResult, whoever declares the failure: the accounts it is given and the debts
\* that it harvests are what the engines have spent.
LEMMA ForfeitInductive ==
  ASSUME IInv, Live, NEW side \in Sides, NEW by \in {"engine", "harness"},
         NEW accounts \in [Sides -> Accounts], NEW sessions \in [Sides -> Spans],
         Forfeit(side, by, accounts, sessions),
         spent' \in [Sides -> Accounts], erred' = erred \cup {side},
         UNCHANGED <<kind, turn, ply, outcome, seen>>,
         \A x \in Sides : Trusted(x) /\ ~(x = side /\ by = "harness") =>
           /\ accounts[x].debt + Debt(sessions[x]) = spent'[x].debt
           /\ accounts[x].select = spent'[x].select,
         \A x \in Sides : kind[x] = "subprocess" =>
           Total(accounts[x]) + Debt(sessions[x]) >= Total(spent'[x])
  PROVE  IInv'
<1>1. /\ result' = [kind |-> "forfeit", winner |-> Other(side), failed |-> side, by |-> by]
      /\ phase' = "close" /\ cursor' = "A"
      /\ ~Live'
  BY DEF Forfeit, Live
<1>2. /\ session' \in [Sides -> Spans] /\ ledger' \in [Sides -> Accounts]
      /\ \A x \in Sides : /\ session'[x].setup = 0 /\ session'[x].observer = 0
                          /\ ledger'[x].debt = accounts[x].debt + Debt(sessions[x])
                          /\ ledger'[x].select = accounts[x].select
  <2>1. /\ ledger' = [x \in Sides |-> Plus(accounts[x], Time(Debt(sessions[x]), 0))]
        /\ session' = [x \in Sides |-> [open |-> sessions[x].open, setup |-> 0, observer |-> 0]]
    BY DEF Forfeit, Harvest
  <2>2. ASSUME NEW x \in Sides
        PROVE  /\ ledger'[x] \in Accounts
               /\ ledger'[x].debt = accounts[x].debt + Debt(sessions[x])
               /\ ledger'[x].select = accounts[x].select
    <3>1. Debt(sessions[x]) \in Nat /\ accounts[x] \in Accounts
      BY DebtTyped
    <3> QED BY <2>1, <3>1, TimeTyped, PlusTyped DEF Accounts
  <2>3. ASSUME NEW x \in Sides
        PROVE  /\ session'[x] \in Spans /\ session'[x].setup = 0 /\ session'[x].observer = 0
    BY <2>1, Bounds DEF Spans
  <2> QED BY <2>1, <2>2, <2>3
<1>3. \A x \in Sides : Debt(session'[x]) = 0
  BY <1>2 DEF Debt
<1>4. TypeOK'
  BY <1>1, <1>2 DEF IInv, TypeOK, Spans, Accounts, Other, Sides
<1>5. SessionsFollow' /\ ResultsFollow' /\ DebtsFollow'
  BY <1>1, <1>2, <1>3, Bounds DEF SessionsFollow, ResultsFollow, DebtsFollow, Live, Observed
<1>6. Owed'
  <2> SUFFICES ASSUME NEW x \in Sides
               PROVE  /\ Trusted(x)' /\ ~Overridden(x)' =>
                           /\ ledger'[x].debt + Debt(session'[x]) = spent'[x].debt
                           /\ ledger'[x].select = spent'[x].select
                      /\ kind'[x] = "subprocess" => Total(ledger'[x]) >= Total(spent'[x])
    BY DEF Owed
  <2>1. Debt(sessions[x]) \in Nat /\ accounts[x] \in Accounts /\ spent'[x] \in Accounts
    BY DebtTyped
  <2>2. Overridden(x)' <=> x = side /\ by = "harness"
    BY <1>1 DEF Overridden
  <2> QED BY <1>2, <1>3, <2>1, <2>2 DEF Trusted, Total, Accounts
<1>7. Afforded'
  BY <1>1 DEF Afforded
<1>8. OnlyOffendersForfeit'
  BY <1>1 DEF IInv, ResultsFollow, OnlyOffendersForfeit, Other, Sides
<1> QED BY <1>4, <1>5, <1>6, <1>7, <1>8 DEF IInv

\* What IInv says of the state a game is in while it goes on.
LEMMA LiveState ==
  ASSUME IInv, Live
  PROVE  /\ result = NoResult /\ erred = {} /\ \A x \in Sides : ~Overridden(x)
         /\ session \in [Sides -> Spans] /\ ledger \in [Sides -> Accounts] /\ spent \in [Sides -> Accounts]
         /\ \A x \in Sides : Debt(session[x]) \in Nat
<1>1. result = NoResult /\ erred = {}
  BY DEF IInv, ResultsFollow
<1>2. session \in [Sides -> Spans] /\ ledger \in [Sides -> Accounts] /\ spent \in [Sides -> Accounts]
  BY DEF IInv, TypeOK, Spans, Accounts
<1> QED BY <1>1, <1>2, DebtTyped DEF Overridden, NoResult, Sides

\* What a charge and an expense do to the accounts of their side.
LEMMA Charged1 ==
  ASSUME NEW side \in Sides, NEW time \in Accounts, ledger \in [Sides -> Accounts]
  PROVE  /\ Charge(side, time) \in [Sides -> Accounts]
         /\ Charge(side, time)[side].debt = ledger[side].debt + time.debt
         /\ Charge(side, time)[side].select = ledger[side].select + time.select
         /\ \A x \in Sides \ {side} : Charge(side, time)[x] = ledger[x]
BY PlusTyped DEF Charge

\* An expense of one side leaves the other's alone.
LEMMA Spent1 ==
  ASSUME NEW side \in Sides, NEW time \in Accounts, spent \in [Sides -> Accounts],
         spent' = [spent EXCEPT ![side] = Plus(@, time)]
  PROVE  /\ spent' \in [Sides -> Accounts]
         /\ spent'[side].debt = spent[side].debt + time.debt
         /\ spent'[side].select = spent[side].select + time.select
         /\ \A x \in Sides \ {side} : spent'[x] = spent[x]
BY PlusTyped

\* Only a subprocess takes time to set up, and no more than its bound.
LEMMA SetupBound ==
  ASSUME NEW x \in Sides, NEW t \in SetupTimes(x)
  PROVE  t \in 0 .. MaxSetup /\ (kind[x] # "subprocess" => t = 0)
BY Bounds DEF SetupTimes

\* Only a subprocess takes time to observe, and no more than its bound.
LEMMA ObserveBound ==
  ASSUME NEW x \in Sides, NEW t \in ObserveTimes(x)
  PROVE  t \in 0 .. MaxObserve /\ (kind[x] # "subprocess" => t = 0)
BY Bounds DEF ObserveTimes

\* A failure that charges one side and may change its session: in its own accounts the
\* charge and the debt left must come to the debt there was and what was spent.
LEMMA FailureInductive ==
  ASSUME IInv, Live, NEW side \in Sides, NEW by \in {"engine", "harness"},
         NEW charge \in Accounts, NEW cost \in Accounts, NEW left \in Spans,
         Forfeit(side, by, Charge(side, charge), [session EXCEPT ![side] = left]),
         Err(side, cost),
         UNCHANGED <<kind, turn, ply, outcome, seen>>,
         Trusted(side) /\ by = "engine" =>
           /\ charge.debt + Debt(left) = Debt(session[side]) + cost.debt
           /\ charge.select = cost.select,
         kind[side] = "subprocess" =>
           Total(charge) + Debt(left) >= Debt(session[side]) + Total(cost)
  PROVE  IInv'
<1> DEFINE sessions == [session EXCEPT ![side] = left]
           accounts == Charge(side, charge)
<1>1. /\ session \in [Sides -> Spans] /\ ledger \in [Sides -> Accounts] /\ spent \in [Sides -> Accounts]
      /\ \A x \in Sides : ~Overridden(x) /\ Debt(session[x]) \in Nat
  BY LiveState
<1>2. sessions \in [Sides -> Spans] /\ sessions[side] = left
      /\ \A x \in Sides \ {side} : sessions[x] = session[x]
  BY <1>1
<1>3. spent' = [spent EXCEPT ![side] = Plus(@, cost)] /\ erred' = erred \cup {side}
  BY DEF Err
<1>4. /\ spent' \in [Sides -> Accounts]
      /\ spent'[side].debt = spent[side].debt + cost.debt
      /\ spent'[side].select = spent[side].select + cost.select
      /\ \A x \in Sides \ {side} : spent'[x] = spent[x]
  BY <1>1, <1>3, Spent1
<1>5. /\ accounts \in [Sides -> Accounts]
      /\ accounts[side].debt = ledger[side].debt + charge.debt
      /\ accounts[side].select = ledger[side].select + charge.select
      /\ \A x \in Sides \ {side} : accounts[x] = ledger[x]
  BY <1>1, Charged1
<1>6. Forfeit(side, by, accounts, sessions)
  OBVIOUS
<1> HIDE DEF accounts, sessions
<1>7. ASSUME NEW x \in Sides
      PROVE  /\ Trusted(x) =>
                  ledger[x].debt + Debt(session[x]) = spent[x].debt /\ ledger[x].select = spent[x].select
             /\ ledger[x].debt \in Nat /\ ledger[x].select \in Nat
             /\ spent[x].debt \in Nat /\ spent[x].select \in Nat /\ Debt(session[x]) \in Nat
  BY <1>1 DEF IInv, Owed, Accounts
<1>8. Debt(left) \in Nat /\ charge.debt \in Nat /\ charge.select \in Nat /\ cost.debt \in Nat /\ cost.select \in Nat
  BY DebtTyped DEF Accounts
<1>9. ASSUME NEW x \in Sides, Trusted(x), ~(x = side /\ by = "harness")
      PROVE  /\ accounts[x].debt + Debt(sessions[x]) = spent'[x].debt
             /\ accounts[x].select = spent'[x].select
  <2>1. CASE x = side
    <3>1. Trusted(side) /\ by = "engine"
      BY <2>1, <1>9 DEF Trusted
    <3>2. charge.debt + Debt(left) = Debt(session[side]) + cost.debt /\ charge.select = cost.select
      BY <3>1
    <3>3. /\ ledger[side].debt + Debt(session[side]) = spent[side].debt
          /\ ledger[side].select = spent[side].select
          /\ ledger[side].debt \in Nat /\ Debt(session[side]) \in Nat /\ spent[side].debt \in Nat
      BY <3>1, <1>7
    <3>4. ledger[side].debt + charge.debt + Debt(left) = spent[side].debt + cost.debt
      BY <3>2, <3>3, <1>8
    <3> QED BY <2>1, <3>2, <3>3, <3>4, <1>2, <1>4, <1>5
  <2>2. CASE x # side
    BY <2>2, <1>2, <1>4, <1>5, <1>7, <1>9
  <2> QED BY <2>1, <2>2
<1>10. ASSUME NEW x \in Sides, kind[x] = "subprocess"
       PROVE  Total(accounts[x]) + Debt(sessions[x]) >= Total(spent'[x])
  <2>1. Trusted(x)
    BY <1>10 DEF Trusted
  <2>2. CASE x = side
    BY <2>1, <2>2, <1>2, <1>4, <1>5, <1>7, <1>8, <1>10 DEF Total
  <2>3. CASE x # side
    BY <2>1, <2>3, <1>2, <1>4, <1>5, <1>7, <1>10 DEF Total
  <2> QED BY <2>2, <2>3
<1>11. \A x \in Sides : Trusted(x) /\ ~(x = side /\ by = "harness") =>
         /\ accounts[x].debt + Debt(sessions[x]) = spent'[x].debt
         /\ accounts[x].select = spent'[x].select
  BY <1>9
<1>12. \A x \in Sides : kind[x] = "subprocess" =>
         Total(accounts[x]) + Debt(sessions[x]) >= Total(spent'[x])
  BY <1>10
<1> QED BY <1>2, <1>3, <1>4, <1>5, <1>6, <1>11, <1>12, ForfeitInductive, SMTT(30)

\* A session that cannot be created is charged for the setup it tried.
LEMMA SessionFailsInductive ==
  ASSUME IInv, SessionFails, UNCHANGED kind
  PROVE  IInv'
<1>1. Live /\ cursor \in Sides /\ phase = "create"
  BY DEF SessionFails, Live, IInv, TypeOK
<1>2. PICK t \in SetupTimes(cursor), left \in {NoSession, Fresh(0)} :
        /\ Err(cursor, Time(t, 0))
        /\ Forfeit(cursor, "engine", Charge(cursor, Time(t, 0)), [session EXCEPT ![cursor] = left])
  BY DEF SessionFails
<1>3. Time(t, 0) \in Accounts /\ Time(t, 0).debt = t /\ Time(t, 0).select = 0 /\ t \in Nat
  BY <1>1, SetupBound, TimeTyped, Bounds
<1>4. left \in Spans /\ Debt(left) = 0
  <2>1. CASE left = NoSession
    BY <2>1, Bounds DEF NoSession, Spans, Debt
  <2>2. CASE left = Fresh(0)
    BY <2>2, Bounds DEF Fresh, Spans, Debt
  <2> QED BY <2>1, <2>2
<1>5. Debt(session[cursor]) = 0
  BY <1>1 DEF IInv, SessionsFollow, NoSession, Debt, Sides
<1>6. UNCHANGED <<turn, ply, outcome, seen>>
  BY DEF SessionFails
<1> QED BY <1>1, <1>2, <1>3, <1>4, <1>5, <1>6, FailureInductive DEF Total

\* The mover's failure in a decision: what it used, its debts left out, is its charge.
LEMMA MoverFailsInductive ==
  ASSUME IInv, phase = "decide", NEW by \in {"engine", "harness"}, NEW charge \in Accounts,
         NEW d \in Settlements(turn),
         Forfeit(turn, by, Charge(turn, charge), Charged), Err(turn, Used(d)),
         UNCHANGED <<kind, turn, ply, outcome, seen>>,
         by = "engine" => charge = d.time,
         kind[turn] = "subprocess" => Total(charge) >= Total(d.time)
  PROVE  IInv'
<1>1. Live /\ turn \in Sides /\ TypeOK /\ DebtsFollow
  BY DEF Live, IInv, TypeOK
<1> DEFINE left == [open |-> session[turn].open, setup |-> 0, observer |-> 0]
<1>2. /\ d.time \in Accounts /\ d.time.debt >= Debt(session[turn])
  BY <1>1, SettlementTimes
<1>3. Debt(session[turn]) \in Nat /\ session \in [Sides -> Spans]
  BY <1>1, LiveState
<1>4. /\ Used(d) \in Accounts /\ Used(d).select = d.time.select
      /\ Used(d).debt = d.time.debt - Debt(session[turn])
  BY <1>2, <1>3 DEF Used, Time, Accounts
<1>5. left \in Spans /\ Debt(left) = 0
  BY <1>1, <1>3, Bounds DEF Spans, Debt
<1>6. Charged = [session EXCEPT ![turn] = left]
  BY <1>1, <1>3 DEF Charged
<1> HIDE DEF left
<1>7. Trusted(turn) /\ by = "engine" =>
        /\ charge.debt + Debt(left) = Debt(session[turn]) + Used(d).debt
        /\ charge.select = Used(d).select
  BY <1>2, <1>3, <1>4, <1>5 DEF Accounts
<1>8. kind[turn] = "subprocess" => Total(charge) + Debt(left) >= Debt(session[turn]) + Total(Used(d))
  BY <1>2, <1>3, <1>4, <1>5 DEF Accounts, Total
<1> QED BY <1>1, <1>4, <1>5, <1>6, <1>7, <1>8, FailureInductive

\* The engine's own error in a decision is charged what it says it used.
LEMMA DecisionFailsInductive ==
  ASSUME IInv, DecisionFails, UNCHANGED kind
  PROVE  IInv'
<1>1. PICK d \in Settlements(turn) :
        Err(turn, Used(d)) /\ Forfeit(turn, "engine", Charge(turn, d.time), Charged)
  BY DEF DecisionFails
<1>2. d.time \in Accounts /\ Total(d.time) \in Nat
  BY SettlementTimes DEF IInv, Accounts, Total
<1> QED BY <1>1, <1>2, MoverFailsInductive DEF DecisionFails

\* So is an action that cannot be played.
LEMMA BadValueInductive ==
  ASSUME IInv, BadValue, UNCHANGED kind
  PROVE  IInv'
<1>1. PICK d \in Settlements(turn) :
        Err(turn, Used(d)) /\ Forfeit(turn, "engine", Charge(turn, d.time), Charged)
  BY DEF BadValue, InTime
<1>2. d.time \in Accounts /\ Total(d.time) \in Nat
  BY SettlementTimes DEF IInv, Accounts, Total
<1> QED BY <1>1, <1>2, MoverFailsInductive DEF BadValue

\* A deadline that the harness declares comes after more than the budget by its clock,
\* and a subprocess session's value used no more than that.
LEMMA DecisionLateInductive ==
  ASSUME IInv, DecisionLate, UNCHANGED kind
  PROVE  IInv'
<1>1. PICK d \in Settlements(turn) :
        /\ Late(d)
        /\ Err(turn, Used(d)) /\ Forfeit(turn, "harness", Charge(turn, Time(0, d.elapsed)), Charged)
  BY DEF DecisionLate
<1>2. /\ d.time \in Accounts /\ Total(d.time) \in Nat /\ d.elapsed \in Nat
      /\ kind[turn] = "subprocess" =>
           d.how # "wall_timeout" /\ (d.how = "value" => Total(d.time) <= Budget)
  BY SettlementTimes DEF IInv, Accounts, Total
<1>3. Time(0, d.elapsed) \in Accounts /\ Total(Time(0, d.elapsed)) = d.elapsed
  BY <1>2 DEF Time, Accounts, Total
<1>4. kind[turn] = "subprocess" => Total(Time(0, d.elapsed)) >= Total(d.time)
  BY <1>1, <1>2, <1>3, Bounds DEF Late
<1> QED BY <1>1, <1>2, <1>3, <1>4, MoverFailsInductive DEF DecisionLate

\* A failed observation is charged with the debt that its session gives up.
LEMMA ObserveFailsInductive ==
  ASSUME IInv, ObserveFails, UNCHANGED kind
  PROVE  IInv'
<1>1. Live /\ cursor \in Sides
  BY DEF ObserveFails, Live, IInv, TypeOK
<1>2. PICK t \in ObserveTimes(cursor) :
        /\ Err(cursor, Time(t, 0))
        /\ Forfeit(cursor, "engine", Charge(cursor, Time(Debt(session[cursor]) + t, 0)), Cleared)
  BY DEF ObserveFails
<1> DEFINE left == [open |-> session[cursor].open, setup |-> 0, observer |-> 0]
           charge == Time(Debt(session[cursor]) + t, 0)
<1>3. t \in Nat /\ Debt(session[cursor]) \in Nat /\ session \in [Sides -> Spans]
  BY <1>1, LiveState, ObserveBound, Bounds
<1>4. /\ Time(t, 0) \in Accounts /\ Time(t, 0).debt = t /\ Time(t, 0).select = 0
      /\ charge \in Accounts /\ charge.debt = Debt(session[cursor]) + t /\ charge.select = 0
  BY <1>3, TimeTyped
<1>5. left \in Spans /\ Debt(left) = 0
  BY <1>1, <1>3, Bounds DEF Spans, Debt
<1>6. Cleared = [session EXCEPT ![cursor] = left]
  BY <1>1, <1>3 DEF Cleared
<1>7. Forfeit(cursor, "engine", Charge(cursor, charge), [session EXCEPT ![cursor] = left])
  BY <1>2, <1>6
<1>8. UNCHANGED <<turn, ply, outcome, seen>>
  BY DEF ObserveFails
<1> HIDE DEF left, charge
<1>9. /\ charge.debt + Debt(left) = Debt(session[cursor]) + Time(t, 0).debt
      /\ charge.select = Time(t, 0).select
      /\ Total(charge) + Debt(left) >= Debt(session[cursor]) + Total(Time(t, 0))
  BY <1>3, <1>4, <1>5 DEF Total
<1>10. Err(cursor, Time(t, 0))
  BY <1>2
<1> QED BY <1>1, <1>4, <1>5, <1>7, <1>8, <1>9, <1>10, FailureInductive

\* A step that spends a trusted time on one side, moves it into the ledger or the debt of
\* that side's session, and leaves the result open.
LEMMA OwedKept ==
  ASSUME IInv, Live, Live', UNCHANGED <<kind, result>>, NEW side \in Sides,
         NEW charge \in Accounts, NEW cost \in Accounts, NEW left \in Spans,
         session' = [session EXCEPT ![side] = left],
         ledger' = Charge(side, charge), Spend(side, cost),
         Trusted(side) =>
           /\ charge.debt + Debt(left) = Debt(session[side]) + cost.debt
           /\ charge.select = cost.select
  PROVE  /\ Owed'
         /\ ledger' \in [Sides -> Accounts] /\ spent' \in [Sides -> Accounts]
         /\ erred' = erred
<1>1. /\ session \in [Sides -> Spans] /\ ledger \in [Sides -> Accounts] /\ spent \in [Sides -> Accounts]
      /\ \A x \in Sides : ~Overridden(x) /\ Debt(session[x]) \in Nat
  BY LiveState
<1>2. session' \in [Sides -> Spans] /\ session'[side] = left
      /\ \A x \in Sides \ {side} : session'[x] = session[x]
  BY <1>1
<1>3. spent' = [spent EXCEPT ![side] = Plus(@, cost)] /\ erred' = erred
  BY DEF Spend
<1>4. /\ spent' \in [Sides -> Accounts]
      /\ spent'[side].debt = spent[side].debt + cost.debt
      /\ spent'[side].select = spent[side].select + cost.select
      /\ \A x \in Sides \ {side} : spent'[x] = spent[x]
  BY <1>1, <1>3, Spent1
<1>5. /\ ledger' \in [Sides -> Accounts]
      /\ ledger'[side].debt = ledger[side].debt + charge.debt
      /\ ledger'[side].select = ledger[side].select + charge.select
      /\ \A x \in Sides \ {side} : ledger'[x] = ledger[x]
  BY <1>1, Charged1
<1>6. ASSUME NEW x \in Sides, Trusted(x)
      PROVE  /\ ledger[x].debt + Debt(session[x]) = spent[x].debt /\ ledger[x].select = spent[x].select
             /\ ledger[x].debt \in Nat /\ ledger[x].select \in Nat
             /\ spent[x].debt \in Nat /\ spent[x].select \in Nat /\ Debt(session[x]) \in Nat
  BY <1>1, <1>6 DEF IInv, Owed, Accounts
<1>7. Debt(left) \in Nat /\ charge.debt \in Nat /\ charge.select \in Nat /\ cost.debt \in Nat /\ cost.select \in Nat
  BY DebtTyped DEF Accounts
<1>8. ASSUME NEW x \in Sides, Trusted(x)
      PROVE  /\ ledger'[x].debt + Debt(session'[x]) = spent'[x].debt
             /\ ledger'[x].select = spent'[x].select
  <2>1. CASE x = side
    <3>1. charge.debt + Debt(left) = Debt(session[side]) + cost.debt /\ charge.select = cost.select
      BY <2>1, <1>8 DEF Trusted
    <3>2. /\ ledger[side].debt + Debt(session[side]) = spent[side].debt
          /\ ledger[side].select = spent[side].select
          /\ ledger[side].debt \in Nat /\ Debt(session[side]) \in Nat /\ spent[side].debt \in Nat
      BY <2>1, <1>6, <1>8
    <3>3. ledger[side].debt + charge.debt + Debt(left) = spent[side].debt + cost.debt
      BY <3>1, <3>2, <1>7
    <3> QED BY <2>1, <3>1, <3>2, <3>3, <1>2, <1>4, <1>5
  <2>2. CASE x # side
    BY <2>2, <1>2, <1>4, <1>5, <1>6, <1>8
  <2> QED BY <2>1, <2>2
<1>9. Owed'
  BY <1>8 DEF Owed, Trusted
<1> QED BY <1>3, <1>4, <1>5, <1>9

\* A session that is ready has its setup for a debt.
LEMMA SessionReadyInductive ==
  ASSUME IInv, SessionReady, UNCHANGED kind
  PROVE  IInv'
<1>1. /\ Live /\ Live' /\ cursor \in Sides /\ phase = "create" /\ TypeOK /\ SessionsFollow
      /\ UNCHANGED <<turn, ply, outcome, seen, ledger, result>>
  BY DEF SessionReady, Live, IInv, TypeOK
<1>2. PICK t \in SetupTimes(cursor) :
        /\ session' = [session EXCEPT ![cursor] = Fresh(t)]
        /\ Spend(cursor, Time(t, 0))
  BY DEF SessionReady
<1>3. /\ t \in 0 .. MaxSetup /\ t \in Nat /\ (kind[cursor] # "subprocess" => t = 0)
      /\ Time(t, 0) \in Accounts /\ Time(t, 0).debt = t /\ Time(t, 0).select = 0
  BY <1>1, SetupBound, TimeTyped, Bounds
<1>4. /\ Fresh(t) \in Spans /\ Debt(Fresh(t)) = t /\ Fresh(t).open /\ Fresh(t).observer = 0
  BY <1>3, Bounds DEF Fresh, Spans, Debt
<1>5. Debt(session[cursor]) = 0
  BY <1>1 DEF SessionsFollow, NoSession, Debt, Sides
<1>6. /\ session \in [Sides -> Spans] /\ ledger \in [Sides -> Accounts]
      /\ session'[cursor] = Fresh(t) /\ \A x \in Sides \ {cursor} : session'[x] = session[x]
      /\ session' \in [Sides -> Spans]
  BY <1>1, <1>2, <1>4, LiveState
<1>7. NoTime \in Accounts /\ NoTime.debt = 0 /\ NoTime.select = 0
  BY DEF NoTime, Accounts
<1>8. ledger' = Charge(cursor, NoTime)
  <2>1. Plus(ledger[cursor], NoTime) = ledger[cursor]
    <3>1. ledger[cursor] \in Accounts
      BY <1>1, <1>6
    <3> QED BY <3>1 DEF Plus, NoTime, Accounts
  <2> QED BY <2>1, <1>1, <1>6 DEF Charge
<1>9. Owed' /\ ledger' \in [Sides -> Accounts] /\ spent' \in [Sides -> Accounts] /\ erred' = erred
  BY <1>1, <1>2, <1>3, <1>4, <1>5, <1>7, <1>8, OwedKept
<1>10. IF cursor = "A" THEN cursor' = "B" /\ phase' = "create" ELSE cursor' = "A" /\ phase' = "decide"
  BY DEF SessionReady
<1>11. TypeOK'
  BY <1>1, <1>6, <1>9, <1>10 DEF TypeOK, Spans, Accounts, Sides, IInv
<1>12. SessionsFollow'
  BY <1>1, <1>4, <1>6, <1>10, Bounds DEF SessionsFollow, TypeOK, Sides, NoSession
<1>13. DebtsFollow'
  <2> SUFFICES ASSUME NEW x \in Sides
               PROVE  /\ kind[x] # "subprocess" => Debt(session'[x]) = 0
                      /\ session'[x].observer <= Observed(x)' * MaxObserve
    BY <1>1 DEF DebtsFollow
  <2>1. CASE x = cursor
    <3>1. Observed(x)' * MaxObserve >= 0
      BY Bounds DEF Observed
    <3> QED BY <2>1, <3>1, <1>3, <1>4, <1>6
  <2>2. CASE x # cursor
    <3>1. /\ kind[x] # "subprocess" => Debt(session[x]) = 0
          /\ session[x].observer <= 0 /\ session[x].observer \in Nat
      BY <1>1, <1>6, Bounds DEF IInv, DebtsFollow, Observed, Spans
    <3>2. Observed(x)' * MaxObserve >= 0
      BY Bounds DEF Observed
    <3> QED BY <2>2, <3>1, <3>2, <1>6, Bounds
  <2> QED BY <2>1, <2>2
<1>14. ResultsFollow' /\ OnlyOffendersForfeit'
  BY <1>1, <1>9, LiveState DEF ResultsFollow, OnlyOffendersForfeit, NoResult
<1>15. Afforded'
  BY <1>1, <1>6, <1>10, Bounds DEF IInv, Afforded, SessionsFollow, Sides, Total, Accounts
<1> QED BY <1>9, <1>11, <1>12, <1>13, <1>14, <1>15 DEF IInv

\* A decision in time pays the mover's debts and costs no more than a budget.
LEMMA LegalActionInductive ==
  ASSUME IInv, LegalAction, UNCHANGED kind
  PROVE  IInv'
<1>1. /\ Live /\ Live' /\ turn \in Sides /\ phase = "decide" /\ phase' = "observe" /\ cursor' = "A"
      /\ TypeOK /\ SessionsFollow /\ DebtsFollow /\ Afforded
      /\ ply < MaxPly /\ ply' = ply + 1 /\ ply \in Nat
      /\ UNCHANGED <<turn, seen, result>>
  BY Bounds DEF LegalAction, Live, IInv, TypeOK
<1>2. PICK d \in InTime(turn) : Spend(turn, Used(d)) /\ ledger' = Charge(turn, d.time)
  BY DEF LegalAction
<1>3. /\ d.time \in Accounts /\ d.time.debt >= Debt(session[turn]) /\ Total(d.time) <= Budget
      /\ Total(d.time) = d.time.debt + d.time.select
  <2>1. d \in Settlements(turn) /\ d.how = "value" /\ ~(d.elapsed > Budget)
    BY DEF InTime, Late
  <2>2. d.elapsed \in Nat
    BY <1>1, <2>1, SettlementTimes
  <2>3. d.elapsed <= Budget
    BY <2>1, <2>2, Bounds
  <2> QED BY <1>1, <2>1, <2>3, SettlementTimes DEF Total
<1> DEFINE left == [open |-> session[turn].open, setup |-> 0, observer |-> 0]
<1>4. /\ session \in [Sides -> Spans] /\ ledger \in [Sides -> Accounts]
      /\ Debt(session[turn]) \in Nat
  BY <1>1, LiveState
<1>5. /\ Used(d) \in Accounts /\ Used(d).select = d.time.select
      /\ Used(d).debt = d.time.debt - Debt(session[turn])
  BY <1>3, <1>4 DEF Used, Time, Accounts
<1>6. left \in Spans /\ Debt(left) = 0 /\ left.open = session[turn].open /\ left.observer = 0
  BY <1>1, <1>4, Bounds DEF Spans, Debt
<1>7. session' = [session EXCEPT ![turn] = left]
  BY <1>1, <1>4 DEF LegalAction, Charged
<1> HIDE DEF left
<1>8. /\ session'[turn] = left /\ \A x \in Sides \ {turn} : session'[x] = session[x]
      /\ session' \in [Sides -> Spans]
  BY <1>1, <1>4, <1>6, <1>7
<1>9. d.time.debt + Debt(left) = Debt(session[turn]) + Used(d).debt /\ d.time.select = Used(d).select
  BY <1>3, <1>4, <1>5, <1>6 DEF Accounts
<1>10. Owed' /\ ledger' \in [Sides -> Accounts] /\ spent' \in [Sides -> Accounts] /\ erred' = erred
  BY <1>1, <1>2, <1>3, <1>5, <1>6, <1>7, <1>9, OwedKept
<1>11. outcome' \in {"ongoing", "draw"} \cup Sides
  BY <1>1 DEF LegalAction
<1>12. TypeOK'
  BY <1>1, <1>8, <1>10, <1>11, Bounds DEF TypeOK, Spans, Accounts, Sides
<1>13. SessionsFollow'
  BY <1>1, <1>6, <1>8, Bounds DEF SessionsFollow, Sides
<1>14. DebtsFollow'
  <2> SUFFICES ASSUME NEW x \in Sides
               PROVE  /\ kind[x] # "subprocess" => Debt(session'[x]) = 0
                      /\ session'[x].observer <= Observed(x)' * MaxObserve
    BY <1>1 DEF DebtsFollow
  <2>1. CASE x = turn
    <3>1. Observed(x)' * MaxObserve = 0
      BY <1>1, <2>1, Bounds DEF Observed
    <3> QED BY <2>1, <3>1, <1>6, <1>8
  <2>2. CASE x # turn
    <3>1. Observed(x)' = 1 /\ Observed(x) = 1
      BY <1>1, <2>2 DEF Observed
    <3> QED BY <2>2, <3>1, <1>1, <1>8 DEF DebtsFollow
  <2> QED BY <2>1, <2>2
<1>15. ResultsFollow' /\ OnlyOffendersForfeit'
  BY <1>1, <1>10, LiveState DEF ResultsFollow, OnlyOffendersForfeit, NoResult
<1>16. Afforded'
  <2>1. /\ ledger'[turn].debt = ledger[turn].debt + d.time.debt
        /\ ledger'[turn].select = ledger[turn].select + d.time.select
        /\ \A x \in Sides \ {turn} : ledger'[x] = ledger[x]
    BY <1>1, <1>2, <1>3, <1>4, Charged1
  <2>2. /\ ledger["A"] \in Accounts /\ ledger["B"] \in Accounts
    BY <1>4 DEF Sides
  <2>3. Total(ledger'["A"]) + Total(ledger'["B"])
          = Total(ledger["A"]) + Total(ledger["B"]) + Total(d.time)
    BY <1>1, <1>3, <2>1, <2>2 DEF Total, Accounts, Sides
  <2>4. Total(ledger["A"]) + Total(ledger["B"]) <= Budget * ply
    BY <1>1 DEF Afforded
  <2>5. Budget * (ply + 1) = Budget * ply + Budget /\ Budget * ply \in Nat
    BY <1>1, Bounds, Z3
  <2>6. Total(ledger["A"]) \in Nat /\ Total(ledger["B"]) \in Nat /\ Total(d.time) \in Nat
    BY <1>3, <2>2 DEF Total, Accounts
  <2>7. Total(ledger'["A"]) + Total(ledger'["B"]) <= Budget * ply'
    BY <1>1, <1>3, <2>3, <2>4, <2>5, <2>6, Bounds
  <2> QED BY <1>1, <2>7 DEF Afforded
<1> QED BY <1>10, <1>12, <1>13, <1>14, <1>15, <1>16 DEF IInv

\* An observation adds its time to the debt, at most two between two decisions.
LEMMA ObserveInductive ==
  ASSUME IInv, Observe, UNCHANGED kind
  PROVE  IInv'
<1>1. /\ Live /\ Live' /\ cursor \in Sides /\ turn \in Sides /\ phase = "observe"
      /\ TypeOK /\ SessionsFollow /\ DebtsFollow /\ Afforded
      /\ UNCHANGED <<ply, outcome, ledger, result>>
      /\ seen' = [seen EXCEPT ![cursor] = @ + 1]
  BY DEF Observe, AfterObserve, Live, IInv, TypeOK
<1>2. PICK t \in ObserveTimes(cursor) :
        /\ session' = [session EXCEPT ![cursor] =
             [open |-> @.open, setup |-> @.setup, observer |-> @.observer + t]]
        /\ Spend(cursor, Time(t, 0))
  BY DEF Observe
<1>3. /\ t \in 0 .. MaxObserve /\ t \in Nat /\ (kind[cursor] # "subprocess" => t = 0)
      /\ Time(t, 0) \in Accounts /\ Time(t, 0).debt = t /\ Time(t, 0).select = 0
  BY <1>1, ObserveBound, TimeTyped, Bounds
<1> DEFINE s == session[cursor]
           left == [open |-> s.open, setup |-> s.setup, observer |-> s.observer + t]
<1>4. /\ session \in [Sides -> Spans] /\ ledger \in [Sides -> Accounts] /\ Debt(s) \in Nat
  BY <1>1, LiveState
<1>5. IF cursor = "A" THEN cursor' = "B" /\ phase' = "observe" /\ turn' = turn
      ELSE cursor' = "A" /\ phase' = "decide" /\ turn' = Other(turn)
  BY DEF Observe, AfterObserve
<1>6. /\ Observed(cursor) \in {0, 1}
      /\ \A x \in Sides : Observed(x)' = Observed(x) + IF x = cursor THEN 1 ELSE 0
  BY <1>1, <1>5 DEF Observed, Sides, Other
<1>7. /\ s.open \in BOOLEAN /\ s.setup \in 0 .. MaxSetup /\ s.observer \in Nat
      /\ s.observer <= Observed(cursor) * MaxObserve
      /\ kind[cursor] # "subprocess" => Debt(s) = 0
  BY <1>1, <1>4, Bounds DEF Spans, DebtsFollow
<1>8. s.observer + t <= (Observed(cursor) + 1) * MaxObserve /\ s.observer + t \in 0 .. 2 * MaxObserve
  BY <1>3, <1>6, <1>7, Bounds
<1>9. /\ left \in Spans /\ left.open = s.open /\ left.observer = s.observer + t
      /\ Debt(left) = Debt(s) + t
  BY <1>3, <1>7, <1>8, Bounds DEF Spans, Debt
<1>10. session' = [session EXCEPT ![cursor] = left]
  BY <1>1, <1>2, <1>4
<1> HIDE DEF left, s
<1>11. /\ session'[cursor] = left /\ \A x \in Sides \ {cursor} : session'[x] = session[x]
       /\ session' \in [Sides -> Spans]
  BY <1>1, <1>4, <1>9, <1>10
<1>12. Owed' /\ ledger' \in [Sides -> Accounts] /\ spent' \in [Sides -> Accounts] /\ erred' = erred
  <2>1. NoTime \in Accounts /\ NoTime.debt = 0 /\ NoTime.select = 0
    BY DEF NoTime, Accounts
  <2>2. Plus(ledger[cursor], NoTime) = ledger[cursor]
    <3>1. ledger[cursor] \in Accounts
      BY <1>1, <1>4
    <3> QED BY <3>1 DEF Plus, NoTime, Accounts
  <2>3. ledger' = Charge(cursor, NoTime)
    BY <2>2, <1>1, <1>4 DEF Charge
  <2>4. NoTime.debt + Debt(left) = Debt(session[cursor]) + Time(t, 0).debt /\ NoTime.select = Time(t, 0).select
    BY <1>3, <1>4, <1>9, <2>1 DEF s
  <2> QED BY <1>1, <1>2, <1>3, <1>9, <1>10, <2>1, <2>3, <2>4, OwedKept
<1>13. SessionsFollow'
  BY <1>1, <1>5, <1>9, <1>11, Bounds DEF SessionsFollow, TypeOK, Sides, s
<1>14. TypeOK'
  <2>1. seen' \in [Sides -> 0 .. MaxPly]
    BY <1>1, <1>5, Bounds DEF SessionsFollow, TypeOK, Sides
  <2> QED BY <1>1, <1>5, <1>11, <1>12, <2>1 DEF TypeOK, Spans, Accounts, Sides, Other
<1>15. DebtsFollow'
  <2> SUFFICES ASSUME NEW x \in Sides
               PROVE  /\ kind[x] # "subprocess" => Debt(session'[x]) = 0
                      /\ session'[x].observer <= Observed(x)' * MaxObserve
    BY <1>1 DEF DebtsFollow
  <2>1. CASE x = cursor
    <3>1. Observed(x)' = Observed(cursor) + 1 /\ session'[x] = left
      BY <2>1, <1>6, <1>11
    <3> QED BY <2>1, <3>1, <1>3, <1>7, <1>8, <1>9
  <2>2. CASE x # cursor
    <3>1. Observed(x) \in Nat
      BY DEF Observed
    <3>2. Observed(x)' = Observed(x) /\ session'[x] = session[x]
      BY <2>2, <3>1, <1>6, <1>11
    <3> QED BY <3>2, <1>1 DEF DebtsFollow
  <2> QED BY <2>1, <2>2
<1>16. ResultsFollow' /\ OnlyOffendersForfeit'
  BY <1>1, <1>12, LiveState DEF ResultsFollow, OnlyOffendersForfeit, NoResult
<1>17. Afforded'
  BY <1>1, <1>5 DEF Afforded
<1> QED BY <1>12, <1>13, <1>14, <1>15, <1>16, <1>17 DEF IInv

\* The end of the game harvests the debts of both sessions.
LEMMA PlayedOutInductive ==
  ASSUME IInv, PlayedOut, UNCHANGED kind
  PROVE  IInv'
<1>1. /\ Live /\ ~Live' /\ phase = "decide" /\ phase' = "close" /\ cursor' = "A" /\ TypeOK
      /\ UNCHANGED <<turn, ply, outcome, seen, spent, erred>> /\ outcome \in {"draw"} \cup Sides
      /\ result.failed = "none" /\ result'.failed = "none"
      /\ result'.kind \in {"win", "draw"} /\ result'.by = "none" /\ erred = {}
      /\ result'.winner \in Sides \cup {"none"}
      /\ result' \in [kind : {"none", "forfeit", "win", "draw"}, winner : Sides \cup {"none"},
                      failed : Sides \cup {"none"}, by : {"none", "engine", "harness"}]
  BY LiveState DEF PlayedOut, Live, IInv, TypeOK, NoResult
<1>2. /\ session \in [Sides -> Spans] /\ ledger \in [Sides -> Accounts] /\ spent \in [Sides -> Accounts]
      /\ \A x \in Sides : ~Overridden(x) /\ Debt(session[x]) \in Nat
  BY <1>1, LiveState
<1>3. /\ ledger' = [x \in Sides |-> Plus(ledger[x], Time(Debt(session[x]), 0))]
      /\ session' = [x \in Sides |-> [open |-> session[x].open, setup |-> 0, observer |-> 0]]
  BY DEF PlayedOut, Harvest
<1>4. ASSUME NEW x \in Sides
      PROVE  /\ ledger'[x] \in Accounts
             /\ ledger'[x].debt = ledger[x].debt + Debt(session[x])
             /\ ledger'[x].select = ledger[x].select
             /\ session'[x] \in Spans /\ Debt(session'[x]) = 0
             /\ session'[x].setup = 0 /\ session'[x].observer = 0
  <2>1. ledger[x] \in Accounts /\ session[x] \in Spans /\ Debt(session[x]) \in Nat
    BY <1>2
  <2>2. /\ ledger'[x] \in Accounts
        /\ ledger'[x].debt = ledger[x].debt + Debt(session[x])
        /\ ledger'[x].select = ledger[x].select
    BY <1>3, <2>1, TimeTyped, PlusTyped DEF Accounts
  <2> QED BY <1>3, <2>1, <2>2, Bounds DEF Spans, Debt
<1>5. session' \in [Sides -> Spans] /\ ledger' \in [Sides -> Accounts]
  BY <1>3, <1>4
<1>6. TypeOK'
  BY <1>1, <1>5 DEF TypeOK, Spans, Accounts, Sides
<1>7. SessionsFollow' /\ ResultsFollow' /\ Afforded'
  BY <1>1 DEF SessionsFollow, ResultsFollow, Afforded
<1>8. DebtsFollow'
  BY <1>1, <1>4, Bounds DEF DebtsFollow, Observed
<1>9. Owed'
  <2> SUFFICES ASSUME NEW x \in Sides
               PROVE  /\ Trusted(x) =>
                           /\ ledger'[x].debt + Debt(session'[x]) = spent'[x].debt
                           /\ ledger'[x].select = spent'[x].select
                      /\ kind[x] = "subprocess" => Total(ledger'[x]) >= Total(spent'[x])
    BY DEF Owed, Trusted
  <2>1. Trusted(x) => ledger[x].debt + Debt(session[x]) = spent[x].debt /\ ledger[x].select = spent[x].select
    BY <1>2 DEF IInv, Owed
  <2>2. /\ ledger[x].debt \in Nat /\ ledger[x].select \in Nat /\ spent[x].debt \in Nat
        /\ spent[x].select \in Nat /\ Debt(session[x]) \in Nat
    BY <1>2 DEF Accounts
  <2>3. Trusted(x) => /\ ledger'[x].debt + Debt(session'[x]) = spent'[x].debt
                      /\ ledger'[x].select = spent'[x].select
    BY <1>1, <1>4, <2>1, <2>2
  <2> QED BY <1>1, <1>4, <2>2, <2>3 DEF Trusted, Total
<1>10. OnlyOffendersForfeit'
  BY <1>1 DEF OnlyOffendersForfeit
<1> QED BY <1>6, <1>7, <1>8, <1>9, <1>10 DEF IInv

\* Closing a session loses no time: a result stands and no debt is left.
LEMMA CloseSessionInductive ==
  ASSUME IInv, CloseSession, UNCHANGED kind
  PROVE  IInv'
<1>1. /\ ~Live /\ ~Live' /\ phase = "close" /\ phase' \in {"close", "returned"} /\ cursor' \in Sides
      /\ TypeOK /\ cursor \in Sides
      /\ UNCHANGED <<turn, ply, outcome, seen, ledger, result, spent, erred>>
      /\ session' = [session EXCEPT ![cursor] = NoSession]
  BY DEF CloseSession, Live, IInv, TypeOK, Sides
<1>2. NoSession \in Spans /\ Debt(NoSession) = 0 /\ NoSession.observer = 0
  BY Bounds DEF NoSession, Spans, Debt
<1>3. session \in [Sides -> Spans] /\ session' \in [Sides -> Spans]
  BY <1>1, <1>2 DEF TypeOK, Spans
<1>4. \A x \in Sides : Debt(session[x]) = 0 /\ Debt(session'[x]) = 0
  BY <1>1, <1>2, <1>3 DEF IInv, DebtsFollow
<1>5. \A x \in Sides : session'[x].observer = 0
  <2> SUFFICES ASSUME NEW x \in Sides PROVE session'[x].observer = 0
    OBVIOUS
  <2>1. session'[x] \in Spans
    BY <1>3
  <2> QED BY <2>1, <1>4, DebtTyped
<1>6. TypeOK'
  BY <1>1, <1>3 DEF TypeOK, Spans
<1>7. SessionsFollow' /\ ResultsFollow' /\ Afforded' /\ OnlyOffendersForfeit'
  BY <1>1 DEF IInv, SessionsFollow, ResultsFollow, Afforded, OnlyOffendersForfeit
<1>8. DebtsFollow'
  BY <1>1, <1>4, <1>5, Bounds DEF DebtsFollow, Observed
<1>9. Owed'
  BY <1>1, <1>4 DEF IInv, Owed, Trusted, Overridden
<1> QED BY <1>6, <1>7, <1>8, <1>9 DEF IInv

\* Every step of a match keeps the invariant.
LEMMA StepInductive == IInv /\ [Next]_vars => IInv'
<1> SUFFICES ASSUME IInv, [Next]_vars PROVE IInv'
  OBVIOUS
<1>1. CASE Next
  BY <1>1, SessionReadyInductive, SessionFailsInductive, DecisionFailsInductive, DecisionLateInductive,
     BadValueInductive, LegalActionInductive, ObserveInductive, ObserveFailsInductive,
     PlayedOutInductive, CloseSessionInductive DEF Next
<1>2. CASE UNCHANGED vars
  BY <1>2 DEF vars, IInv, TypeOK, SessionsFollow, ResultsFollow, DebtsFollow, Owed, Afforded,
              OnlyOffendersForfeit, Live, Observed, Trusted, Overridden
<1> QED BY <1>1, <1>2

\* The invariant holds in every match.
THEOREM Safety == Spec => []IInv
<1> QED BY InitIInv, StepInductive, PTL DEF Spec

\* Type correctness of every match, with the bound on a session's debt.
THEOREM TypeCorrect == Spec => []TypeOK
<1>1. IInv => TypeOK
  BY DEF IInv
<1> QED BY <1>1, Safety, PTL

\* Whatever the budgets, the bounds on time and the engines: the telemetry and the
\* pending debts of a trusted engine come to what it used, unless the harness has
\* overridden it; a subprocess is never charged for less than it used; and the moves of a
\* game cost no more than a budget each.
THEOREM LedgerIsExact == Spec => []LedgerExact
<1>1. IInv => LedgerExact
  BY DEF IInv, Owed, Afforded, ResultsFollow, LedgerExact, Live, NoResult
<1> QED BY <1>1, Safety, PTL

\* Whenever a side is asked to move, both sessions are open and have seen every ply.
THEOREM SessionsSeeTheGame == Spec => []BothSawTheGame
<1>1. IInv => BothSawTheGame
  BY DEF IInv, SessionsFollow, BothSawTheGame
<1> QED BY <1>1, Safety, PTL

\* A forfeit is always the offender's, its opponent has done nothing wrong, and a game
\* that was played out had no failure.
THEOREM OffendersForfeit == Spec => []OnlyOffendersForfeit
<1>1. IInv => OnlyOffendersForfeit
  BY DEF IInv
<1> QED BY <1>1, Safety, PTL

(***************************************************************************)
(* The evaluation such games are played for, and its gate.                 *)
(*                                                                         *)
(* The argument: a token is issued only for a request that met every       *)
(* requirement, and the results are filed under it only when all of the    *)
(* games are in (GateInv); a summary passes only for those results, so     *)
(* what it counts is counted of them, and two thirds of all the games are  *)
(* more than the other engine can have won.                                *)
(***************************************************************************)

\* What may be recorded of a game of the request's.
Recordable ==
  {Result(request.book[i].id, side, Contender, Baseline, ending) :
     i \in DOMAIN request.book, side \in Colours, ending \in GameEndings}

GateInv ==
  /\ request \in Requests
  /\ games \in Seq(Recordable)
  /\ enforcement = "token" => request.enforce
  /\ stage \in {"playing", "played"} => Acceptable(request)
  /\ stage = "asked" => enforcement = "none"
  /\ bound => stage = "played" /\ enforcement = "token"
  /\ stage = "played" => Len(games) = 2 * Len(request.book)
  /\ report # <<>> => stage = "played"
  /\ bound \in BOOLEAN

\* The opening of the next game is one of the book's.
LEMMA ScheduledFromTheBook ==
  ASSUME request \in Requests, NEW n \in Nat, n < 2 * Len(request.book)
  PROVE  /\ (n + 2) \div 2 \in DOMAIN request.book
         /\ Scheduled(n + 1).opening = request.book[(n + 2) \div 2]
         /\ Scheduled(n + 1).side \in Colours
<1>1. request.book \in Seq(Range(request.book))
  BY RequestsAssumption
<1>2. Len(request.book) \in Nat /\ DOMAIN request.book = 1 .. Len(request.book)
  BY <1>1
<1>3. (n + 2) \div 2 \in 1 .. Len(request.book)
  BY <1>2
<1>4. n + 1 + 1 = n + 2
  OBVIOUS
<1> QED
  BY <1>2, <1>3, <1>4 DEF Scheduled, Colours

\* The gate's invariant is kept by every step.
LEMMA GateStep ==
  ASSUME GateInv, [StrengthNext]_strengthVars
  PROVE  GateInv'
<1>1. request' = request /\ Recordable' = Recordable
  BY DEF StrengthNext, Reject, Accept, GameReturns, GameFails, Report, SummarizeAgain, strengthVars,
         Recordable, Contender, Baseline
<1>2. CASE GameReturns
  <2>1. /\ stage = "playing" /\ Len(games) < 2 * Len(request.book)
        /\ UNCHANGED <<request, stage, enforcement, bound, report>>
    BY <1>2 DEF GameReturns
  <2>2. PICK ending \in GameEndings :
          games' = Append(games, Result(Scheduled(Len(games) + 1).opening.id,
                                        Scheduled(Len(games) + 1).side, Contender, Baseline, ending))
    BY <1>2 DEF GameReturns
  <2> DEFINE n == Len(games)
             r == Result(Scheduled(n + 1).opening.id, Scheduled(n + 1).side, Contender, Baseline, ending)
  <2>3. n \in Nat
    BY DEF GateInv
  <2>4. r \in Recordable
    <3>1. /\ (n + 2) \div 2 \in DOMAIN request.book
          /\ Scheduled(n + 1).opening = request.book[(n + 2) \div 2]
          /\ Scheduled(n + 1).side \in Colours
      BY <2>1, <2>3, ScheduledFromTheBook DEF GateInv
    <3> QED
      BY <3>1 DEF Recordable
  <2>5. games' = Append(games, r)
    BY <2>2
  <2> HIDE DEF r, n
  <2>6. games' \in Seq(Recordable)
    BY <2>4, <2>5 DEF GateInv
  <2> QED
    BY <2>1, <2>6, <1>1 DEF GateInv
<1>3. CASE Reject
  BY <1>1, <1>3 DEF GateInv, Reject
<1>4. CASE Accept
  BY <1>1, <1>4 DEF GateInv, Accept
<1>5. CASE GameFails
  BY <1>1, <1>5 DEF GateInv, GameFails
<1>6. CASE Report
  <2>1. /\ stage = "playing" /\ Len(games) = 2 * Len(request.book) /\ stage' = "played"
        /\ bound' = (enforcement = "token")
        /\ UNCHANGED <<request, enforcement, games>>
    BY <1>6 DEF Report
  <2> QED
    BY <2>1, <1>1 DEF GateInv
<1>7. CASE SummarizeAgain
  <2>1. stage = "played" /\ UNCHANGED <<request, stage, enforcement, games, bound>>
    BY <1>7 DEF SummarizeAgain
  <2> QED
    BY <2>1, <1>1 DEF GateInv
<1>8. CASE UNCHANGED strengthVars
  BY <1>1, <1>8 DEF GateInv, strengthVars
<1> QED
  BY <1>2, <1>3, <1>4, <1>5, <1>6, <1>7, <1>8 DEF StrengthNext

\* No game is won by both engines.
LEMMA WonOnce ==
  ASSUME games \in Seq(Recordable), NEW a, NEW b, a # b
  PROVE  LET won(id) == Cardinality({i \in DOMAIN games : WonBy(games[i], id)})
         IN won(a) \in Nat /\ won(b) \in Nat /\ won(a) + won(b) <= Len(games)
<1> DEFINE winners(id) == {i \in DOMAIN games : WonBy(games[i], id)}
           all == DOMAIN games
<1>1. Len(games) \in Nat /\ all = 1 .. Len(games)
  OBVIOUS
<1>2. IsFiniteSet(all) /\ Cardinality(all) = Len(games)
  <2>1. \A n \in Nat : IsFiniteSet(1 .. n) /\ Cardinality(1 .. n) = n
    BY FS_Interval
  <2> QED
    BY <1>1, <2>1
<1>3. /\ winners(a) \in SUBSET all /\ winners(b) \in SUBSET all
      /\ winners(a) \cup winners(b) \in SUBSET all
      /\ winners(a) \cap winners(b) = {}
  BY DEF WonBy
<1> HIDE DEF winners, all
<1>4. IsFiniteSet(winners(a)) /\ IsFiniteSet(winners(b))
      /\ Cardinality(winners(a)) \in Nat /\ Cardinality(winners(b)) \in Nat
      /\ Cardinality(winners(a) \cup winners(b)) <= Cardinality(all)
  BY <1>2, <1>3, FS_Subset, FS_CardinalityType
<1>5. Cardinality(winners(a) \cup winners(b))
        = Cardinality(winners(a)) + Cardinality(winners(b)) - Cardinality(winners(a) \cap winners(b))
  BY <1>4, FS_Union
<1>6. Cardinality(winners(a) \cap winners(b)) = 0
  BY <1>3, FS_EmptySet
<1>7. Cardinality(winners(a)) + Cardinality(winners(b)) <= Len(games)
  BY <1>2, <1>4, <1>5, <1>6
<1> QED
  BY <1>4, <1>7 DEF winners

\* What the criterion on the win rate counts.
LEMMA RateCounts ==
  ASSUME GateInv, NEW a, NEW b, WinRateMet(Tally(games, DOMAIN games, a, b))
  PROVE  100 * Cardinality({i \in DOMAIN games : WonBy(games[i], a)}) >= 66 * Len(games)
<1>1. Len(games) \in Nat /\ DOMAIN games = 1 .. Len(games)
  BY DEF GateInv
<1>2. Cardinality(DOMAIN games) = Len(games)
  <2>1. \A n \in Nat : IsFiniteSet(1 .. n) /\ Cardinality(1 .. n) = n
    BY FS_Interval
  <2> QED
    BY <1>1, <2>1
<1>3. /\ Tally(games, DOMAIN games, a, b).games = Cardinality(DOMAIN games)
      /\ Tally(games, DOMAIN games, a, b).wins = Cardinality({i \in DOMAIN games : WonBy(games[i], a)})
  BY DEF Tally
<1> QED
  BY <1>2, <1>3 DEF WinRateMet

\* Two thirds of the games of an evaluation under its token are more than the rival's.
LEMMA PassIsPlayed ==
  ASSUME GateInv, enforcement = "token", stage = "playing" \/ stage = "played",
         Len(games) = 2 * Len(request.book),
         NEW a, a = Contender \/ a = Baseline,
         100 * Cardinality({i \in DOMAIN games : WonBy(games[i], a)}) >= 66 * Len(games)
  PROVE  LET rival == IF a = Contender THEN Baseline ELSE Contender
             won(id) == Cardinality({i \in DOMAIN games : WonBy(games[i], id)})
         IN /\ request.enforce /\ request.missing = {}
            /\ Len(request.book) >= MinimumPairs /\ Len(request.book) = request.generated
            /\ won(a) > won(rival)
<1> DEFINE rival == IF a = Contender THEN Baseline ELSE Contender
           won(id) == Cardinality({i \in DOMAIN games : WonBy(games[i], id)})
<1>1. request.enforce /\ Acceptable(request) /\ Contender # Baseline
  BY DEF GateInv, Acceptable, Contender, Baseline
<1>2. /\ request.missing = {} /\ request.minimum >= MinimumPairs
      /\ Len(request.book) >= request.minimum /\ Len(request.book) = request.generated
  BY <1>1 DEF Acceptable, Enforceable
<1>3. request.minimum \in Nat /\ Len(request.book) \in Nat
  <2>1. request.book \in Seq(Range(request.book)) /\ request.minimum \in Nat
    BY RequestsAssumption DEF GateInv
  <2> QED
    BY <2>1
<1>4. Len(request.book) >= MinimumPairs /\ Len(request.book) > 0
  BY <1>2, <1>3, MinimumPairsAssumption
<1>5. a # rival
  BY <1>1
<1>6. won(a) \in Nat /\ won(rival) \in Nat /\ won(a) + won(rival) <= Len(games)
  BY <1>5, WonOnce DEF GateInv
<1>7. 100 * won(a) >= 66 * Len(games)
  OBVIOUS
<1> HIDE DEF won, rival
<1>8. Len(games) \in Nat /\ Len(games) > 0
  BY <1>3, <1>4
<1>9. won(a) > won(rival)
  BY <1>6, <1>7, <1>8
<1> QED
  BY <1>1, <1>2, <1>4, <1>9 DEF won, rival

\* A passing summary, with the state it was made in told apart from the one it is read in.
PassOf(r) ==
  LET rival == IF r.contender = Contender THEN Baseline ELSE Contender
      won(id) == Cardinality({i \in DOMAIN games : WonBy(games[i], id)})
  IN /\ request.enforce /\ request.missing = {}
     /\ Len(games) = 2 * Len(request.book)
     /\ Len(request.book) >= MinimumPairs /\ Len(request.book) = request.generated
     /\ 100 * won(r.contender) >= 66 * Len(games)
     /\ won(r.contender) > won(rival)

\* The property, one summary at a time.
LEMMA PassOne ==
  PassMeansPlayed <=> \A r \in Range(report) : r.passed => stage = "played" /\ PassOf(r)
  BY Zenon DEF PassMeansPlayed, PassOf

\* A summary made of the gate's own games is true of them.
LEMMA ReportStep ==
  ASSUME GateInv, PassMeansPlayed, [StrengthNext]_strengthVars
  PROVE  PassMeansPlayed'
<1>0. SUFFICES ASSUME NEW r \in Range(report'), r.passed
               PROVE  stage' = "played" /\ PassOf(r)'
  <2>1. PassMeansPlayed' <=> \A s \in Range(report') : s.passed => stage' = "played" /\ PassOf(s)'
    BY Zenon DEF PassMeansPlayed, PassOf
  <2> QED
    BY <2>1, Zenon
<1>1. request' = request
  BY DEF StrengthNext, Reject, Accept, GameReturns, GameFails, Report, SummarizeAgain, strengthVars
<1>2. games' = games => PassOf(r)' = PassOf(r)
  <2>1. Contender' = Contender /\ Baseline' = Baseline
    BY <1>1 DEF Contender, Baseline
  <2> QED
    BY <1>1, <2>1 DEF PassOf
<1>3. CASE UNCHANGED <<stage, games, report>>
  <2>1. r \in Range(report)
    BY <1>3, <1>0
  <2>2. stage = "played" /\ PassOf(r)
    BY <2>1, <1>0, PassOne
  <2> QED
    BY <2>2, <1>2, <1>3
<1>4. ASSUME report = <<>>, report' = report
      PROVE  FALSE
  BY <1>0, <1>4 DEF Range
<1>5. ASSUME NEW given, NEW a, NEW b, NEW minimum, NEW eligible,
             eligible => given = games /\ enforcement = "token",
             a = Contender \/ a = Baseline,
             stage = "playing" \/ stage = "played", stage' = "played",
             Len(games) = 2 * Len(request.book),
             games' = games,
             report' = <<SummarizeEvaluation(given, a, b, minimum, eligible)>>
      PROVE  stage' = "played" /\ PassOf(r)'
  <2>1. r = SummarizeEvaluation(given, a, b, minimum, eligible)
    BY <1>0, <1>5 DEF Range
  <2>2. r.contender = a
    BY <2>1 DEF SummarizeEvaluation
  <2>3. /\ eligible
        /\ 100 * Cardinality({i \in DOMAIN games : WonBy(games[i], a)}) >= 66 * Len(games)
    <3>1. eligible /\ WinRateMet(Tally(given, DOMAIN given, a, b))
      BY <2>1, <1>0 DEF SummarizeEvaluation
    <3>2. given = games
      BY <3>1, <1>5
    <3> QED
      BY <3>1, <3>2, RateCounts
  <2>4. enforcement = "token"
    BY <2>3, <1>5
  <2>5. PassOf(r)
    BY <2>2, <2>3, <2>4, <1>5, PassIsPlayed DEF PassOf
  <2> QED
    BY <2>5, <1>2, <1>5
<1>6. CASE Reject \/ Accept \/ GameFails \/ GameReturns
  <2>1. stage # "played" /\ report' = report
    BY <1>6 DEF Reject, Accept, GameFails, GameReturns
  <2> QED
    BY <2>1, <1>4 DEF GateInv
<1>7. CASE Report
  <2>1. /\ stage = "playing" /\ Len(games) = 2 * Len(request.book)
        /\ stage' = "played" /\ games' = games
    BY <1>7 DEF Report
  <2>2. report' # <<>>
    BY <1>0 DEF Range
  <2>3. report' = <<SummarizeEvaluation(games, Contender, Baseline, request.minimum,
                                        enforcement = "token" /\ bound')>>
    BY <1>7, <2>2 DEF Report
  <2> QED
    BY <2>1, <2>3, <1>5
<1>8. CASE SummarizeAgain
  <2>1. /\ stage = "played" /\ stage' = stage /\ games' = games
    BY <1>8 DEF SummarizeAgain
  <2>2. PICK own \in BOOLEAN, swapped \in BOOLEAN, token \in {"none", enforcement},
             minimum \in {1, request.minimum} :
          report' = <<SummarizeEvaluation(
                        IF own THEN games ELSE Improved(games),
                        (IF swapped THEN <<Baseline, Contender>> ELSE <<Contender, Baseline>>)[1],
                        (IF swapped THEN <<Baseline, Contender>> ELSE <<Contender, Baseline>>)[2],
                        minimum, Eligible(own, token))>>
    BY <1>8 DEF SummarizeAgain
  <2> DEFINE given == IF own THEN games ELSE Improved(games)
             a == (IF swapped THEN <<Baseline, Contender>> ELSE <<Contender, Baseline>>)[1]
             b == (IF swapped THEN <<Baseline, Contender>> ELSE <<Contender, Baseline>>)[2]
             eligible == Eligible(own, token)
  <2>3. eligible => given = games /\ enforcement = "token"
    BY DEF Eligible, GateInv
  <2>4. a = Contender \/ a = Baseline
    OBVIOUS
  <2>5. report' = <<SummarizeEvaluation(given, a, b, minimum, eligible)>>
    BY <2>2
  <2>6. Len(games) = 2 * Len(request.book)
    BY <2>1 DEF GateInv
  <2> HIDE DEF given, a, b, eligible
  <2> QED
    BY <2>1, <2>3, <2>4, <2>5, <2>6, <1>5
<1>9. CASE UNCHANGED strengthVars
  BY <1>9, <1>3 DEF strengthVars
<1> QED
  BY <1>6, <1>7, <1>8, <1>9 DEF StrengthNext

\* Whatever is asked of the gate, with whatever results, token, roles and minimum: what
\* passes was an enforced evaluation, played to its end and won.
THEOREM PassesArePlayed == StrengthSpec => []PassMeansPlayed
<1>1. StrengthInit => GateInv /\ PassMeansPlayed
  <2> SUFFICES ASSUME StrengthInit PROVE GateInv /\ PassMeansPlayed
    OBVIOUS
  <2> DEFINE R == Recordable
  <2>0. games = <<>>
    BY DEF StrengthInit
  <2> HIDE DEF R
  <2>a. games \in Seq(R)
    BY <2>0
  <2>1. GateInv
    BY <2>a DEF StrengthInit, GateInv, R
  <2>2. Range(report) = {}
    BY DEF StrengthInit, Range
  <2> QED
    BY <2>1, <2>2, PassOne
<1>2. GateInv /\ PassMeansPlayed /\ [StrengthNext]_strengthVars => GateInv' /\ PassMeansPlayed'
  BY GateStep, ReportStep
<1> QED
  BY <1>1, <1>2, PTL DEF StrengthSpec

-----------------------------------------------------------------------------
(* The queue of a checkpoint's evaluation.                                 *)

\* What has come back is what the games' fates say.
Recorded ==
  /\ \A j \in Jobs : results[j] # "none" => results[j] = fate[j] /\ fate[j] # "throws"
  /\ \A j \in failures : fate[j] = "throws"

\* Every job taken is in flight or settled.
TakenPrefix ==
  \A j \in Jobs : j < next =>
    \/ \E w \in Workers : playing[w] = j
    \/ results[j] # "none"
    \/ j \in failures

Taken ==
  /\ \A w \in Workers : playing[w] < next
  /\ \A j \in failures : j < next

StoppedForAReason ==
  \A w \in Workers : playing[w] = Done /\ failures = {} => next > Games

\* No two workers play the same job.
Distinct ==
  \A v, w \in Workers : playing[v] = playing[w] /\ playing[v] # Done => v = w

VerdictIsSequential ==
  verdict \in {Sequential!Pending, Sequential!SequentialVerdict(fate)}

Inductive ==
  QueueTypeOK /\ Recorded /\ TakenPrefix /\ Taken /\ StoppedForAReason /\ Distinct /\ VerdictIsSequential

\* Before the workers start no game is in flight and none has ended.
LEMMA InitInductive ==
  ASSUME QueueInit
  PROVE  Inductive
<1>1. QueueTypeOK
  BY GamesAssumption, ConcurrencyAssumption DEF QueueInit, QueueTypeOK, Workers, Jobs
<1>2. Recorded /\ TakenPrefix /\ Taken /\ StoppedForAReason /\ Distinct
  BY GamesAssumption, ConcurrencyAssumption
  DEF QueueInit, Recorded, TakenPrefix, Taken, StoppedForAReason, Distinct, Workers, Jobs, Done
<1>3. VerdictIsSequential
  BY DEF QueueInit, VerdictIsSequential
<1> QED
  BY <1>1, <1>2, <1>3 DEF Inductive

\* A game that ends leaves its own slot of results and takes the next job.
LEMMA GameEndsInductive ==
  ASSUME Inductive, NEW w \in Workers, GameEnds(w)
  PROVE  Inductive'
<1> USE DEF Inductive
<1> DEFINE k == playing[w]
<1>1. /\ k \in Jobs /\ k < next /\ next \in Nat
      /\ fate[k] \in Values /\ fate[k] # "throws" /\ fate[k] # "none"
  BY ValuesAssumption DEF GameEnds, QueueTypeOK, Taken, Done, Sequential!Fates, Sequential!Jobs, Jobs
<1>2. /\ results' = [results EXCEPT ![k] = fate[k]]
      /\ next' = next + 1
      /\ playing' = [playing EXCEPT ![w] = IF next <= Games THEN next ELSE Done]
      /\ UNCHANGED <<fate, failures, verdict>>
  BY DEF GameEnds, TakeNext
<1> HIDE DEF k
<1>3. QueueTypeOK'
  BY <1>1, <1>2, GamesAssumption DEF QueueTypeOK, Jobs
<1>4. Recorded'
  BY <1>1, <1>2 DEF Recorded, QueueTypeOK
<1>5. TakenPrefix'
  <2> SUFFICES ASSUME NEW j \in Jobs, j < next'
               PROVE  \/ \E v \in Workers : playing'[v] = j
                      \/ results'[j] # "none"
                      \/ j \in failures'
    BY DEF TakenPrefix
  <2>1. CASE j = next
    BY <2>1, <1>2, GamesAssumption DEF QueueTypeOK, Jobs
  <2>2. CASE j = k
    BY <2>2, <1>1, <1>2 DEF QueueTypeOK
  <2>3. CASE j < next /\ j # k
    <3>1. ASSUME NEW v \in Workers, playing[v] = j
          PROVE  playing'[v] = j
      BY <2>3, <3>1, <1>2 DEF QueueTypeOK, k
    <3>2. results[j] # "none" => results'[j] # "none"
      BY <2>3, <1>2 DEF QueueTypeOK
    <3> QED
      BY <2>3, <3>1, <3>2, <1>2 DEF TakenPrefix
  <2> QED
    BY <2>1, <2>2, <2>3, <1>1, <1>2 DEF Jobs
<1>6. Taken'
  BY <1>1, <1>2, GamesAssumption DEF Taken, QueueTypeOK, Jobs, Done
<1>7. StoppedForAReason'
  BY <1>1, <1>2, GamesAssumption DEF StoppedForAReason, QueueTypeOK, Done, Jobs
<1>8. Distinct'
  BY <1>1, <1>2, GamesAssumption DEF Distinct, Taken, QueueTypeOK, Jobs, Done
<1>9. VerdictIsSequential'
  BY <1>2 DEF VerdictIsSequential, Sequential!Pending, Sequential!SequentialVerdict,
              Sequential!Jobs, Sequential!Threw, Sequential!Returned
<1> QED
  BY <1>3, <1>4, <1>5, <1>6, <1>7, <1>8, <1>9

\* A game that throws records its failure, and its worker stops taking jobs.
LEMMA GameThrowsInductive ==
  ASSUME Inductive, NEW w \in Workers, GameThrows(w)
  PROVE  Inductive'
<1> USE DEF Inductive
<1> DEFINE k == playing[w]
<1>1. k \in Jobs /\ k < next /\ next \in Nat /\ fate[k] = "throws"
  BY DEF GameThrows, QueueTypeOK, Taken, Done
<1>2. /\ failures' = failures \cup {k}
      /\ playing' = [playing EXCEPT ![w] = Done]
      /\ UNCHANGED <<fate, next, results, verdict>>
  BY DEF GameThrows
<1> HIDE DEF k
<1>3. QueueTypeOK'
  BY <1>1, <1>2 DEF QueueTypeOK
<1>4. Recorded'
  BY <1>1, <1>2 DEF Recorded
<1>5. TakenPrefix'
  <2> SUFFICES ASSUME NEW j \in Jobs, j < next
               PROVE  \/ \E v \in Workers : playing'[v] = j
                      \/ results[j] # "none"
                      \/ j \in failures'
    BY <1>2 DEF TakenPrefix
  <2>1. CASE j # k
    BY <2>1, <1>2 DEF TakenPrefix, QueueTypeOK, k
  <2> QED
    BY <2>1, <1>2
<1>6. Taken'
  BY <1>1, <1>2 DEF Taken, QueueTypeOK, Jobs, Done
<1>7. StoppedForAReason' /\ Distinct'
  BY <1>1, <1>2 DEF StoppedForAReason, Distinct, QueueTypeOK
<1>8. VerdictIsSequential'
  BY <1>2 DEF VerdictIsSequential, Sequential!Pending, Sequential!SequentialVerdict,
              Sequential!Jobs, Sequential!Threw, Sequential!Returned
<1> QED
  BY <1>3, <1>4, <1>5, <1>6, <1>7, <1>8

\* Once every worker has settled, the first recorded failure is the first job that throws.
LEMMA ConcludeIsSequential ==
  ASSUME Inductive, Conclude
  PROVE  verdict' = Sequential!SequentialVerdict(fate)
<1> USE DEF Inductive
<1>1. \A j \in Jobs : j < next => results[j] # "none" \/ j \in failures
  BY DEF Conclude, AllSettled, TakenPrefix, Done, Jobs
<1>2. \A j \in Jobs : j < next => (j \in failures <=> fate[j] = "throws")
  BY <1>1 DEF Recorded
<1>3. CASE failures # {}
  <2>1. PICK f \in failures : TRUE
    BY <1>3
  <2>2. f \in Jobs /\ f < next /\ fate[f] = "throws" /\ next \in Nat
    BY DEF QueueTypeOK, Taken, Recorded
  <2>3. ASSUME NEW j \in Jobs
        PROVE  (j \in failures /\ \A i \in Jobs : i < j => i \notin failures)
               <=> (fate[j] = "throws" /\ \A i \in Jobs : i < j => fate[i] # "throws")
    <3>1. ASSUME j \in failures, \A i \in Jobs : i < j => i \notin failures
          PROVE  fate[j] = "throws" /\ \A i \in Jobs : i < j => fate[i] # "throws"
      <4>1. j < next
        BY <3>1 DEF Taken
      <4> QED
        BY <3>1, <4>1, <2>2, <1>2 DEF Jobs
    <3>2. ASSUME fate[j] = "throws", \A i \in Jobs : i < j => fate[i] # "throws"
          PROVE  j \in failures /\ \A i \in Jobs : i < j => i \notin failures
      <4>1. j < next
        BY <3>2, <2>2 DEF Jobs
      <4> QED
        BY <3>2, <4>1, <2>2, <1>2 DEF Jobs
    <3> QED
      BY <3>1, <3>2
  <2> DEFINE recorded == CHOOSE j \in Jobs :
                j \in failures /\ \A i \in Jobs : i < j => i \notin failures
             first == CHOOSE j \in Jobs :
                fate[j] = "throws" /\ \A i \in Jobs : i < j => fate[i] # "throws"
  <2>4. recorded = first
    BY <2>3
  <2>5. verdict' = Sequential!Threw(recorded)
    BY <1>3 DEF Conclude
  <2>6. Jobs = Sequential!Jobs
    BY DEF Jobs, Sequential!Jobs
  <2>7. Sequential!SequentialVerdict(fate) = Sequential!Threw(first)
    BY <2>2, <2>6, Zenon DEF Sequential!SequentialVerdict
  <2> QED
    BY <2>4, <2>5, <2>7
<1>4. CASE failures = {}
  <2>1. next > Games /\ next \in Nat
    <3>1. 1 \in Workers
      BY ConcurrencyAssumption, GamesAssumption DEF Workers
    <3> QED
      BY <1>4, <3>1 DEF StoppedForAReason, Conclude, AllSettled, QueueTypeOK
  <2>2. \A j \in Jobs : results[j] = fate[j] /\ fate[j] # "throws"
    BY <1>1, <1>4, <2>1, GamesAssumption DEF Recorded, Jobs
  <2>3. results = fate
    <3>1. results = [j \in Jobs |-> results[j]] /\ fate = [j \in Jobs |-> fate[j]]
      BY DEF QueueTypeOK, Sequential!Fates, Sequential!Jobs, Jobs
    <3> QED
      BY <2>2, <3>1
  <2> QED
    BY <1>4, <2>2, <2>3
    DEF Conclude, Sequential!SequentialVerdict, Sequential!Returned, Sequential!Jobs, Jobs
<1> QED
  BY <1>3, <1>4

\* Every step of the workers, and a stutter, keeps the invariant.
LEMMA QueueStep ==
  ASSUME Inductive, [QueueNext]_queueVars
  PROVE  Inductive'
<1>1. CASE UNCHANGED queueVars
  BY <1>1 DEF queueVars, Inductive, QueueTypeOK, Recorded, TakenPrefix, Taken, StoppedForAReason, Distinct,
              VerdictIsSequential, Sequential!Pending, Sequential!SequentialVerdict,
              Sequential!Jobs, Sequential!Threw, Sequential!Returned
<1>2. CASE Conclude
  <2>1. UNCHANGED <<fate, next, playing, results, failures>>
    BY <1>2 DEF Conclude
  <2>2. QueueTypeOK' /\ Recorded' /\ TakenPrefix' /\ Taken' /\ StoppedForAReason' /\ Distinct'
    BY <2>1 DEF Inductive, QueueTypeOK, Recorded, TakenPrefix, Taken, StoppedForAReason, Distinct
  <2>3. verdict' = Sequential!SequentialVerdict(fate)
    BY <1>2, ConcludeIsSequential
  <2>4. VerdictIsSequential'
    BY <2>1, <2>3 DEF VerdictIsSequential, Sequential!Pending, Sequential!SequentialVerdict,
              Sequential!Jobs, Sequential!Threw, Sequential!Returned
  <2> QED
    BY <2>2, <2>4 DEF Inductive
<1>3. CASE \E w \in Workers : GameEnds(w) \/ GameThrows(w)
  BY <1>3, GameEndsInductive, GameThrowsInductive
<1> QED
  BY <1>1, <1>2, <1>3 DEF QueueNext

\* The inductive invariant holds in every reachable state.
THEOREM QueueSafety == QueueSpec => []Inductive
BY InitInductive, QueueStep, PTL DEF QueueSpec

\* The results are those of the games, and whatever is concluded at any concurrency is
\* what the sequential loop would have concluded.
THEOREM SameVerdictAtAnyConcurrency == QueueSpec => [](QueueTypeOK /\ VerdictIsSequential)
<1>1. Inductive => QueueTypeOK /\ VerdictIsSequential
  BY DEF Inductive
<1> QED
  BY <1>1, QueueSafety, PTL

\* playGames implements the sequential loop: its initial states are initial states of the
\* loop and each of its steps is the loop's verdict or a stutter.
THEOREM ImplementsSequentialLoop ==
  QueueSpec => Sequential!Init /\ [][Sequential!Decide]_<<fate, verdict>>
<1>1. QueueInit => Sequential!Init
  BY DEF QueueInit, Sequential!Init
<1>2. Inductive /\ [QueueNext]_queueVars => [Sequential!Decide]_<<fate, verdict>>
  <2> SUFFICES ASSUME Inductive, [QueueNext]_queueVars
               PROVE  Sequential!Decide \/ UNCHANGED <<fate, verdict>>
    OBVIOUS
  <2>1. CASE Conclude
    <3>1. verdict' = Sequential!SequentialVerdict(fate)
      BY <2>1, ConcludeIsSequential
    <3> QED
      BY <2>1, <3>1 DEF Conclude, Sequential!Decide
  <2>2. CASE \E w \in Workers : GameEnds(w) \/ GameThrows(w)
    BY <2>2 DEF GameEnds, GameThrows
  <2>3. CASE UNCHANGED queueVars
    BY <2>3 DEF queueVars
  <2> QED
    BY <2>1, <2>2, <2>3 DEF QueueNext
<1> QED
  BY <1>1, <1>2, QueueSafety, PTL DEF QueueSpec
(***************************************************************************)
(* The evaluation around the queue.  Its summary is that of the games      *)
(* themselves, and the decision is promoteCheckpoint of whatever summary   *)
(* it was given; so what the summary counts, it counts of the games.       *)
(***************************************************************************)

\* How the games may end is fixed by the plan before the first is played.
PlanHolds == plan \in Plans /\ \A j \in Jobs : fate[j] \in Endings(plan)

\* summarizeEvaluation of what the games were.
TrueSummary(endings) ==
  LET played == HarnessResults(endings)
      harness == SummarizeEvaluation(played, "candidate", "baseline", OpeningOf(Games), FALSE)
  IN [games |-> harness.tally.games, openingPairs |-> harness.openingPairs,
      wins |-> harness.tally.wins, losses |-> harness.tally.losses,
      draws |-> harness.tally.draws,
      winRate |-> <<harness.tally.wins, harness.tally.games>>,
      sideSplits |-> harness.sideSplits,
      opponentFailures |-> OpponentFailures(played)]

SummaryIsTrue ==
  summary = None \/ (/\ summary = <<TrueSummary(fate)>>
                     /\ \A j \in Jobs : fate[j] # "throws")

DecisionIsTheRule ==
  promotion = None \/
  \E s : promotion = <<[of |-> s, promoted |-> s # None /\ Met(s[1], plan)]>>

EvaluationInv == Inductive /\ PlanHolds /\ SummaryIsTrue /\ DecisionIsTheRule

\* A summary is taken only of games none of which threw.
LEMMA ReturnedNoThrow ==
  ASSUME VerdictIsSequential, verdict.kind = "returned"
  PROVE  verdict.results = fate /\ \A j \in Jobs : fate[j] # "throws"
  BY DEF VerdictIsSequential, Sequential!Pending, Sequential!SequentialVerdict,
         Sequential!Jobs, Jobs, Sequential!Threw, Sequential!Returned

\* The evaluation starts with the workers, with no summary and no promotion.
LEMMA EvaluationInit0 ==
  ASSUME EvaluationInit
  PROVE  EvaluationInv
  BY InitInductive DEF EvaluationInit, EvaluationInv, PlanHolds, SummaryIsTrue, DecisionIsTheRule

\* A step of the evaluation is a step of the workers or leaves them alone.
LEMMA EvaluationStep ==
  ASSUME EvaluationInv, [EvaluationNext]_evaluationVars
  PROVE  EvaluationInv'
<1> USE DEF EvaluationInv
<1>0. fate' = fate /\ plan' = plan
  BY DEF EvaluationNext, PlayGames, QueueNext, GameEnds, GameThrows, Conclude, Summarize,
         PromoteOwn, PromoteReported, PromoteNothing, PromoteCheckpoint, evaluationVars, queueVars
<1>1. Inductive'
  <2>1. [QueueNext]_queueVars
    BY DEF EvaluationNext, PlayGames, Summarize,
           PromoteOwn, PromoteReported, PromoteNothing, PromoteCheckpoint, evaluationVars
  <2> QED
    BY <2>1, QueueStep
<1>2. PlanHolds'
  BY <1>0 DEF PlanHolds
<1>3. SummaryIsTrue'
  <2>1. CASE summary' = summary
    BY <2>1, <1>0 DEF SummaryIsTrue
  <2>2. CASE Summarize
    <3>1. verdict.results = fate /\ \A j \in Jobs : fate[j] # "throws"
      BY <2>2, ReturnedNoThrow DEF Summarize, Inductive
    <3>2. summary' = <<TrueSummary(verdict.results)>>
      BY <2>2 DEF Summarize, TrueSummary
    <3>3. summary' = <<TrueSummary(fate)>>
      BY <3>1, <3>2
    <3> QED
      BY <3>1, <3>3, <1>0 DEF SummaryIsTrue
  <2> QED
    BY <2>1, <2>2 DEF EvaluationNext, PlayGames,
           PromoteOwn, PromoteReported, PromoteNothing, PromoteCheckpoint, evaluationVars
<1>4. DecisionIsTheRule'
  <2>1. CASE promotion' = promotion
    BY <2>1, <1>0 DEF DecisionIsTheRule
  <2>2. ASSUME NEW s, PromoteCheckpoint(s)
        PROVE  DecisionIsTheRule'
    BY <2>2, <1>0 DEF PromoteCheckpoint, DecisionIsTheRule
  <2>3. CASE PromoteOwn
    BY <2>3, <2>2 DEF PromoteOwn
  <2>4. CASE PromoteReported
    BY <2>4, <2>2 DEF PromoteReported
  <2>5. CASE PromoteNothing
    BY <2>5, <2>2 DEF PromoteNothing
  <2> QED
    BY <2>1, <2>3, <2>4, <2>5 DEF EvaluationNext, PlayGames, Summarize, evaluationVars
<1> QED
  BY <1>1, <1>2, <1>3, <1>4

\* How a game ended, read off its record.
LEMMA Endgame ==
  ASSUME NEW pair, NEW side \in Colours, NEW e
  PROVE  LET r == Result(pair, side, "candidate", "baseline", e)
         IN /\ WonBy(r, "candidate") <=> e \in {"wins", "baseline_forfeits"}
            /\ (r.failed # "none" /\ r.engines[r.failed] # "candidate") <=> e = "baseline_forfeits"
            /\ r.contenderSide = side /\ r.pair = pair
<1> DEFINE r == Result(pair, side, "candidate", "baseline", e)
<1>1. /\ r.contenderSide = side /\ r.pair = pair
      /\ r.engines = [x \in Colours |-> IF x = side THEN "candidate" ELSE "baseline"]
      /\ r.winner = CASE e \in {"wins", "baseline_forfeits"} -> side
                      [] e \in {"loses", "candidate_forfeits"} -> Against(side)
                      [] OTHER -> "none"
      /\ r.failed = CASE e = "candidate_forfeits" -> side
                      [] e = "baseline_forfeits" -> Against(side)
                      [] OTHER -> "none"
  BY DEF Result
<1> HIDE DEF r
<1>2. Against(side) \in Colours /\ Against(side) # side /\ side # "none" /\ Against(side) # "none"
  BY DEF Against, Colours
<1>3. r.engines[side] = "candidate" /\ r.engines[Against(side)] = "baseline"
  BY <1>1, <1>2
<1>4. r.winner # "none" /\ r.engines[r.winner] = "candidate" <=> e \in {"wins", "baseline_forfeits"}
  <2>1. CASE e \in {"wins", "baseline_forfeits"}
    <3>1. r.winner = side
      BY <1>1, <2>1
    <3> QED
      BY <3>1, <2>1, <1>2, <1>3
  <2>2. CASE e \in {"loses", "candidate_forfeits"}
    <3>1. r.winner = Against(side)
      BY <1>1, <2>2
    <3> QED
      BY <3>1, <2>2, <1>2, <1>3
  <2>3. CASE e \notin {"wins", "baseline_forfeits", "loses", "candidate_forfeits"}
    <3>1. r.winner = "none"
      BY <1>1, <2>3
    <3> QED
      BY <3>1, <2>3
  <2> QED
    BY <2>1, <2>2, <2>3
<1>5. r.failed # "none" /\ r.engines[r.failed] # "candidate" <=> e = "baseline_forfeits"
  <2>1. CASE e = "candidate_forfeits"
    <3>1. r.failed = side
      BY <1>1, <2>1
    <3> QED
      BY <3>1, <2>1, <1>3
  <2>2. CASE e = "baseline_forfeits"
    <3>1. r.failed = Against(side)
      BY <1>1, <2>2
    <3> QED
      BY <3>1, <2>2, <1>2, <1>3
  <2>3. CASE e \notin {"baseline_forfeits", "candidate_forfeits"}
    <3>1. r.failed = "none"
      BY <1>1, <2>3
    <3> QED
      BY <3>1, <2>3
  <2> QED
    BY <2>1, <2>2, <2>3
<1> QED
  BY <1>1, <1>4, <1>5 DEF WonBy, r

\* What the evaluation records of every game.
LEMMA RecordsOfGames ==
  ASSUME NEW endings
  PROVE  LET played == HarnessResults(endings)
         IN /\ DOMAIN played = Jobs
            /\ \A j \in Jobs :
                 /\ played[j].pair = OpeningOf(j) /\ played[j].contenderSide = SideOf(j)
                 /\ WonBy(played[j], "candidate") <=> endings[j] \in {"wins", "baseline_forfeits"}
                 /\ (played[j].failed # "none" /\ played[j].engines[played[j].failed] # "candidate")
                      <=> endings[j] = "baseline_forfeits"
<1> DEFINE played == HarnessResults(endings)
<1>1. DOMAIN played = Jobs
  BY DEF HarnessResults
<1>2. ASSUME NEW j \in Jobs
      PROVE  /\ played[j].pair = OpeningOf(j) /\ played[j].contenderSide = SideOf(j)
             /\ WonBy(played[j], "candidate") <=> endings[j] \in {"wins", "baseline_forfeits"}
             /\ (played[j].failed # "none" /\ played[j].engines[played[j].failed] # "candidate")
                  <=> endings[j] = "baseline_forfeits"
  <2>1. played[j] = Result(OpeningOf(j), SideOf(j), "candidate", "baseline", endings[j])
    BY DEF HarnessResults
  <2>2. SideOf(j) \in Colours
    BY DEF SideOf, Colours
  <2> QED
    BY <2>1, <2>2, Endgame
<1> QED
  BY <1>1, <1>2

\* The games the candidate won itself with the given colour, and those it was credited.
WonAs(side) == {j \in Jobs : SideOf(j) = side /\ fate[j] = "wins"}
Credited == {j \in Jobs : fate[j] \in {"wins", "baseline_forfeits"}}
Handed == {j \in Jobs : fate[j] = "baseline_forfeits"}

\* A finite set has a member exactly when it counts some.
LEMMA Counted ==
  ASSUME NEW S \in SUBSET Jobs
  PROVE  /\ IsFiniteSet(S) /\ Cardinality(S) \in Nat
         /\ Cardinality(S) = 0 <=> S = {}
         /\ Cardinality(S) <= Games
<1>1. IsFiniteSet(Jobs) /\ Cardinality(Jobs) = Games
  BY FS_Interval, GamesAssumption DEF Jobs
<1> QED
  BY <1>1, FS_Subset, FS_CardinalityType, FS_EmptySet

\* Two games are played of every opening.
LEMMA PairsOfGames ==
  /\ OpeningOf(Games) \in Nat /\ 2 * OpeningOf(Games) = Games
  /\ {OpeningOf(j) : j \in Jobs} = 1 .. OpeningOf(Games)
<1>1. \A j \in Jobs : /\ OpeningOf(j) \in Nat
                      /\ 2 * OpeningOf(j) = j \/ 2 * OpeningOf(j) = j + 1
  BY GamesAssumption DEF OpeningOf, Jobs
<1>2. Games \in Jobs /\ 2 * OpeningOf(Games) = Games
  BY GamesAssumption, PairedAssumption DEF OpeningOf, Jobs
<1>3. \A j \in Jobs : OpeningOf(j) \in 1 .. OpeningOf(Games)
  BY <1>1, <1>2, GamesAssumption DEF Jobs
<1>4. ASSUME NEW o \in 1 .. OpeningOf(Games)
      PROVE  2 * o \in Jobs /\ OpeningOf(2 * o) = o
  <2>1. 2 * o \in Jobs
    BY <1>1, <1>2, GamesAssumption DEF Jobs
  <2> QED
    BY <2>1, <1>1, <1>2
<1> QED
  BY <1>1, <1>2, <1>3, <1>4

\* What the summary of the games counts, game by game.
LEMMA SummaryCounts ==
  LET s == TrueSummary(fate)
  IN /\ s.games = Games /\ 2 * s.openingPairs = Games /\ s.openingPairs \in Nat
     /\ s.wins = Cardinality(Credited) /\ s.losses \in Nat
     /\ s.draws = s.games - s.wins - s.losses
     /\ s.winRate = <<Cardinality(Credited), Games>>
     /\ s.opponentFailures = Cardinality(Handed)
     /\ \A side \in Colours :
          s.sideSplits[side].wins
            = Cardinality({j \in Jobs : SideOf(j) = side /\ fate[j] \in {"wins", "baseline_forfeits"}})
<1> DEFINE played == HarnessResults(fate)
           s == TrueSummary(fate)
           lost(at) == {i \in at : WonBy(played[i], "baseline")}
<1>1. /\ DOMAIN played = Jobs
      /\ \A j \in Jobs :
           /\ played[j].pair = OpeningOf(j) /\ played[j].contenderSide = SideOf(j)
           /\ WonBy(played[j], "candidate") <=> fate[j] \in {"wins", "baseline_forfeits"}
           /\ (played[j].failed # "none" /\ played[j].engines[played[j].failed] # "candidate")
                <=> fate[j] = "baseline_forfeits"
  BY RecordsOfGames
<1>2. /\ s.games = Cardinality(DOMAIN played)
      /\ s.openingPairs = Cardinality(PairIds(played))
      /\ s.wins = Cardinality({i \in DOMAIN played : WonBy(played[i], "candidate")})
      /\ s.losses = Cardinality({i \in DOMAIN played : WonBy(played[i], "baseline")})
      /\ s.draws = s.games - s.wins - s.losses
      /\ s.winRate = <<s.wins, s.games>>
      /\ s.opponentFailures = OpponentFailures(played)
      /\ \A side \in Colours : s.sideSplits[side].wins
           = Cardinality({i \in On(played, side) : WonBy(played[i], "candidate")})
  BY DEF TrueSummary, SummarizeEvaluation, Tally
<1> HIDE DEF played, s
<1>3. PairIds(played) = {OpeningOf(j) : j \in Jobs}
  BY <1>1 DEF PairIds
<1>4. /\ {i \in DOMAIN played : WonBy(played[i], "candidate")} = Credited
      /\ OpponentFailures(played) = Cardinality(Handed)
      /\ \A side \in Colours : {i \in On(played, side) : WonBy(played[i], "candidate")}
           = {j \in Jobs : SideOf(j) = side /\ fate[j] \in {"wins", "baseline_forfeits"}}
  <2>1. {i \in DOMAIN played : WonBy(played[i], "candidate")} = Credited
    BY <1>1 DEF Credited
  <2>2. {i \in DOMAIN played :
          played[i].failed # "none" /\ played[i].engines[played[i].failed] # "candidate"} = Handed
    BY <1>1 DEF Handed
  <2>3. ASSUME NEW side \in Colours
        PROVE  {i \in On(played, side) : WonBy(played[i], "candidate")}
           = {j \in Jobs : SideOf(j) = side /\ fate[j] \in {"wins", "baseline_forfeits"}}
    BY <1>1 DEF On
  <2> QED
    BY <2>1, <2>2, <2>3 DEF OpponentFailures
<1>5. Cardinality(PairIds(played)) = OpeningOf(Games)
  <2>1. OpeningOf(Games) \in Nat /\ OpeningOf(Games) >= 1 /\ PairIds(played) = 1 .. OpeningOf(Games)
    BY <1>3, PairsOfGames, GamesAssumption
  <2>2. \A n \in Nat : n >= 1 => Cardinality(1 .. n) = n
    BY FS_Interval
  <2> QED
    BY <2>1, <2>2
<1>6. s.losses \in Nat /\ Cardinality(Jobs) = Games
  <2>1. lost(Jobs) \in SUBSET Jobs /\ s.losses = Cardinality(lost(Jobs))
    BY <1>1, <1>2
  <2>2. s.losses \in Nat
    BY <2>1, Counted
  <2>3. \A n \in Nat : n >= 1 => Cardinality(1 .. n) = n
    BY FS_Interval
  <2> QED
    BY <2>2, <2>3, GamesAssumption DEF Jobs
<1> QED
  BY <1>1, <1>2, <1>4, <1>5, <1>6, PairsOfGames DEF s

\* When the baseline handed over no game, the wins are those of either colour.
LEMMA WinsBySide ==
  ASSUME Handed = {}
  PROVE  /\ Cardinality(Credited) = Cardinality(WonAs("A")) + Cardinality(WonAs("B"))
         /\ \A side \in Colours :
              {j \in Jobs : SideOf(j) = side /\ fate[j] \in {"wins", "baseline_forfeits"}} = WonAs(side)
<1>1. \A j \in Jobs : fate[j] # "baseline_forfeits"
  BY DEF Handed
<1>2. Credited = WonAs("A") \cup WonAs("B") /\ WonAs("A") \cap WonAs("B") = {}
  BY <1>1 DEF Credited, WonAs, SideOf
<1>3. \A side \in Colours :
        {j \in Jobs : SideOf(j) = side /\ fate[j] \in {"wins", "baseline_forfeits"}} = WonAs(side)
  BY <1>1 DEF WonAs
<1>4. IsFiniteSet(WonAs("A")) /\ IsFiniteSet(WonAs("B"))
      /\ Cardinality(WonAs("A")) \in Nat /\ Cardinality(WonAs("B")) \in Nat
  <2>1. WonAs("A") \in SUBSET Jobs /\ WonAs("B") \in SUBSET Jobs
    BY DEF WonAs
  <2> QED
    BY <2>1, Counted
<1>5. Cardinality({}) = 0
  BY FS_EmptySet
<1>6. Cardinality(WonAs("A") \cup WonAs("B"))
        = Cardinality(WonAs("A")) + Cardinality(WonAs("B")) - Cardinality(WonAs("A") \cap WonAs("B"))
  BY <1>4, FS_Union
<1>7. Cardinality(WonAs("A") \cap WonAs("B")) = 0
  BY <1>2, <1>5
<1>8. Cardinality(WonAs("A") \cup WonAs("B")) = Cardinality(WonAs("A")) + Cardinality(WonAs("B"))
  BY <1>4, <1>6, <1>7
<1>9. Cardinality(Credited) = Cardinality(WonAs("A") \cup WonAs("B"))
  BY <1>2
<1> QED
  BY <1>3, <1>8, <1>9

\* The rule, of the summary of games that were all played to an end, asks for just what
\* earns a promotion.
LEMMA RuleOfTrueSummary ==
  ASSUME PlanHolds, \A j \in Jobs : fate[j] # "throws"
  PROVE  LET rate == <<Cardinality(WonAs("A")) + Cardinality(WonAs("B")), Games>>
         IN Met(TrueSummary(fate), plan) <=>
              /\ \A j \in Jobs : fate[j] \notin {"throws", "baseline_forfeits"}
              /\ Cardinality(WonAs("A")) > 0 /\ Cardinality(WonAs("B")) > 0
              /\ AtLeast(rate, plan.minimumRate) /\ Games >= 2 * plan.minimumPairs
              /\ \A incumbent \in Range(plan.incumbent) :
                   SummaryIsWellFormed(incumbent) /\ AtLeast(rate, incumbent.winRate)
<1> DEFINE s == TrueSummary(fate)
           rate == <<Cardinality(WonAs("A")) + Cardinality(WonAs("B")), Games>>
<1>1. /\ s.games = Games /\ 2 * s.openingPairs = Games /\ s.openingPairs \in Nat
      /\ s.wins = Cardinality(Credited) /\ s.losses \in Nat
      /\ s.draws = s.games - s.wins - s.losses
      /\ s.winRate = <<Cardinality(Credited), Games>>
      /\ s.opponentFailures = Cardinality(Handed)
      /\ \A side \in Colours :
           s.sideSplits[side].wins
             = Cardinality({j \in Jobs : SideOf(j) = side /\ fate[j] \in {"wins", "baseline_forfeits"}})
  BY SummaryCounts
<1> HIDE DEF s
<1>2. /\ Cardinality(Handed) \in Nat /\ Cardinality(Handed) <= Games
      /\ Cardinality(Handed) = 0 <=> Handed = {}
      /\ Cardinality(Credited) \in Nat
  <2>1. Handed \in SUBSET Jobs /\ Credited \in SUBSET Jobs
    BY DEF Handed, Credited
  <2> QED
    BY <2>1, Counted
<1>3. Handed = {} <=> \A j \in Jobs : fate[j] \notin {"throws", "baseline_forfeits"}
  BY DEF Handed
<1>4. SummaryIsWellFormed(s)
  BY <1>1, <1>2, GamesAssumption DEF SummaryIsWellFormed
<1>5. /\ plan.minimumPairs \in Nat
      /\ plan.incumbent = <<>> \/ plan.incumbent = <<plan.incumbent[1]>>
  BY PlansAssumption DEF PlanHolds
<1>6. ASSUME Handed = {}
      PROVE  /\ s.winRate = rate
             /\ s.sideSplits["A"].wins = Cardinality(WonAs("A"))
             /\ s.sideSplits["B"].wins = Cardinality(WonAs("B"))
  BY <1>1, <1>6, WinsBySide DEF Colours
<1>7. Cardinality(WonAs("A")) \in Nat /\ Cardinality(WonAs("B")) \in Nat
  <2>1. WonAs("A") \in SUBSET Jobs /\ WonAs("B") \in SUBSET Jobs
    BY DEF WonAs
  <2> QED
    BY <2>1, Counted
<1>8. s.openingPairs >= plan.minimumPairs <=> Games >= 2 * plan.minimumPairs
  BY <1>1, <1>5, GamesAssumption
<1>9. \/ plan.incumbent = <<>> /\ Range(plan.incumbent) = {}
      \/ plan.incumbent # <<>> /\ Range(plan.incumbent) = {plan.incumbent[1]}
  BY <1>5 DEF Range
<1>10. CASE Handed # {}
  <2>1. ~Met(s, plan)
    BY <1>10, <1>1, <1>2 DEF Met
  <2> QED
    BY <2>1, <1>3, <1>10 DEF s
<1>11. CASE Handed = {}
  <2>1. s.winRate = rate /\ s.opponentFailures = 0
    BY <1>1, <1>2, <1>6, <1>11
  <2>2. Met(s, plan) <=>
          /\ plan.incumbent # <<>> => SummaryIsWellFormed(plan.incumbent[1])
          /\ Games >= 2 * plan.minimumPairs
          /\ AtLeast(rate, plan.minimumRate)
          /\ Cardinality(WonAs("A")) >= 1 /\ Cardinality(WonAs("B")) >= 1
          /\ plan.incumbent # <<>> => AtLeast(rate, plan.incumbent[1].winRate)
    BY <2>1, <1>4, <1>6, <1>8, <1>11 DEF Met
  <2>3. /\ Cardinality(WonAs("A")) >= 1 <=> Cardinality(WonAs("A")) > 0
        /\ Cardinality(WonAs("B")) >= 1 <=> Cardinality(WonAs("B")) > 0
    BY <1>7
  <2>4. (\A incumbent \in Range(plan.incumbent) :
           SummaryIsWellFormed(incumbent) /\ AtLeast(rate, incumbent.winRate))
        <=> /\ plan.incumbent # <<>> => SummaryIsWellFormed(plan.incumbent[1])
            /\ plan.incumbent # <<>> => AtLeast(rate, plan.incumbent[1].winRate)
    <3> HIDE DEF rate
    <3> QED
      BY <1>9, Zenon
  <2> HIDE DEF rate
  <2> QED
    BY <2>2, <2>3, <2>4, <1>3, <1>11 DEF s, rate
<1> QED
  BY <1>10, <1>11

\* An engine that overspends forfeits every game, so the candidate can win none.
LEMMA OverspendersWinNothing ==
  ASSUME PlanHolds, WonAs("A") # {}
  PROVE  Overspenders(plan) = {}
  BY DEF PlanHolds, WonAs, Endings

\* A decision taken on the invariant's terms was earned.
LEMMA DecisionEarned ==
  ASSUME EvaluationInv
  PROVE  PromotionIsEarned
<1> SUFFICES ASSUME NEW decision \in Range(promotion)
             PROVE
    IF decision.of = None THEN ~decision.promoted
    ELSE IF decision.of = summary
    THEN LET won(side) == Cardinality({j \in Jobs : SideOf(j) = side /\ fate[j] = "wins"})
             rate == <<won("A") + won("B"), Games>>
         IN /\ decision.promoted => Overspenders(plan) = {}
            /\ decision.promoted <=>
                 /\ \A j \in Jobs : fate[j] \notin {"throws", "baseline_forfeits"}
                 /\ won("A") > 0 /\ won("B") > 0
                 /\ AtLeast(rate, plan.minimumRate) /\ Games >= 2 * plan.minimumPairs
                 /\ \A incumbent \in Range(plan.incumbent) :
                      SummaryIsWellFormed(incumbent) /\ AtLeast(rate, incumbent.winRate)
    ELSE decision.promoted =>
           /\ decision.of[1].wins + decision.of[1].losses + decision.of[1].draws = decision.of[1].games
           /\ decision.of[1].games = 2 * decision.of[1].openingPairs
  BY Zenon DEF PromotionIsEarned
<1>1. PICK s : decision = [of |-> s, promoted |-> s # None /\ Met(s[1], plan)]
  <2>1. PICK s : promotion = <<[of |-> s, promoted |-> s # None /\ Met(s[1], plan)]>>
    BY DEF EvaluationInv, DecisionIsTheRule, Range, None
  <2> QED
    BY <2>1 DEF Range
<1>2. decision.of = s /\ (decision.promoted <=> s # None /\ Met(s[1], plan))
  BY <1>1
<1>3. CASE s = None
  BY <1>2, <1>3
<1>4. CASE s # None /\ s = summary
  <2>1. s[1] = TrueSummary(fate) /\ \A j \in Jobs : fate[j] # "throws"
    BY <1>4 DEF EvaluationInv, SummaryIsTrue
  <2>2. decision.promoted <=> Met(TrueSummary(fate), plan)
    BY <2>1, <1>2, <1>4
  <2>3. decision.promoted <=>
              /\ \A j \in Jobs : fate[j] \notin {"throws", "baseline_forfeits"}
              /\ Cardinality(WonAs("A")) > 0 /\ Cardinality(WonAs("B")) > 0
              /\ AtLeast(<<Cardinality(WonAs("A")) + Cardinality(WonAs("B")), Games>>, plan.minimumRate)
              /\ Games >= 2 * plan.minimumPairs
              /\ \A incumbent \in Range(plan.incumbent) :
                   /\ SummaryIsWellFormed(incumbent)
                   /\ AtLeast(<<Cardinality(WonAs("A")) + Cardinality(WonAs("B")), Games>>, incumbent.winRate)
    BY <2>1, <2>2, RuleOfTrueSummary, Zenon DEF EvaluationInv
  <2>4. Cardinality(WonAs("A")) > 0 => WonAs("A") # {}
    BY FS_EmptySet
  <2>5. decision.promoted => Overspenders(plan) = {}
    BY <2>3, <2>4, OverspendersWinNothing DEF EvaluationInv
  <2> QED
    BY <2>3, <2>5, <1>2, <1>4, Zenon DEF WonAs
<1>5. CASE s # None /\ s # summary
  <2>1. decision.promoted => SummaryIsWellFormed(s[1])
    BY <1>2 DEF Met
  <2> QED
    BY <2>1, <1>2, <1>5 DEF SummaryIsWellFormed
<1> QED
  BY <1>3, <1>4, <1>5

\* Whatever the plan, however many games and however they end: a checkpoint is promoted on
\* its own evaluation exactly when it won it, with either colour and by no forfeit of the
\* baseline's, and no engine that overspent its budget is promoted.
THEOREM PromotedIsEarned == EvaluationSpec => []PromotionIsEarned
<1>1. EvaluationInit => EvaluationInv
  BY EvaluationInit0
<1>2. EvaluationInv /\ [EvaluationNext]_evaluationVars => EvaluationInv'
  BY EvaluationStep
<1>3. EvaluationInv => PromotionIsEarned
  BY DecisionEarned
<1> QED
  BY <1>1, <1>2, <1>3, PTL DEF EvaluationSpec

=============================================================================
