------------------------ MODULE SubprocessHost_proofs ------------------------
(***************************************************************************)
(* Proofs about the engine subprocess host: the inductive invariant IInv   *)
(* of SubprocessHost, and with it that every set of calls, any number of   *)
(* forged frames and any interleaving keep the safety properties.          *)
(***************************************************************************)
EXTENDS SubprocessHost, TLAPS

USE MaxForgedAssumption, SpawnAssumption

\* What a handler that fails closed leaves behind.
FailedClosed ==
  /\ ready' \in {"resolved", "rejected"}
  /\ readyWhy' \in Reasons
  /\ pending' = {}
  /\ call' \in [Calls -> CallRecord]
  /\ \A c \in Calls : /\ call'[c].id = call[c].id
                      /\ call'[c].status # "pending"
                      /\ call'[c].status = "resolved" => call[c].status = "resolved"
  /\ term' \in {"waiting", "done"}
  /\ term' = "done" => term = "done" \/ exited

\* failClosed leaves no call pending and none awaiting readiness.
LEMMA FailClosedSettles ==
  ASSUME TypeOK, NEW why \in Reasons, FailClosed(why)
  PROVE  FailedClosed
<1> USE DEF TypeOK, FailClosed, RejectAll
<1>1. call' \in [Calls -> CallRecord]
  BY DEF CallRecord, Rejected
<1>2. ASSUME NEW c \in Calls
      PROVE  /\ call'[c].id = call[c].id
             /\ call'[c].status # "pending"
             /\ call'[c].status = "resolved" => call[c].status = "resolved"
  BY DEF CallRecord, Rejected
<1>3. term' \in {"waiting", "done"} /\ (term' = "done" => term = "done" \/ exited)
  BY DEF Terminate
<1>4. ready' \in {"resolved", "rejected"} /\ readyWhy' \in Reasons
  OBVIOUS
<1> QED
  BY <1>1, <1>2, <1>3, <1>4 DEF FailedClosed

\* A host that has just forked its child satisfies the invariant.
LEMMA InitIInv == Init => IInv
<1> SUFFICES ASSUME Init PROVE IInv
  OBVIOUS
<1> USE DEF Init
<1>1. TypeOK
  <2>1. call \in [Calls -> CallRecord]
    BY DEF CallRecord, Reasons
  <2>2. toChild \in Seq(Ids) /\ toParent \in Seq(Frames)
    OBVIOUS
  <2>3. nextId \in Ids /\ pending \subseteq Ids /\ unsent \subseteq Nat
    BY DEF Ids
  <2>4. forged \in 0 .. MaxForged /\ readyWhy \in Reasons
    BY DEF Reasons
  <2> QED
    BY <2>1, <2>2, <2>3, <2>4 DEF TypeOK
<1>2. PendingMatchesCalls /\ Bookkeeping
  BY DEF PendingMatchesCalls, Bookkeeping, Ids
<1>3. NothingLeftAfterExit /\ AnswerIsOwn /\ FailsClosed /\ TerminateReaps
  BY DEF NothingLeftAfterExit, AnswerIsOwn, FailsClosed, TerminateReaps
<1> QED
  BY <1>1, <1>2, <1>3 DEF IInv

(***************************************************************************)
(* Steps of the child leave the host's variables alone.                    *)
(***************************************************************************)
LEMMA ChildStep ==
  ASSUME IInv, Child \/ SigkillLands
  PROVE  IInv'
<1>0. UNCHANGED <<connected, grace, exited, ready, readyWhy, pending, unsent, nextId, call,
                  term, closed>>
  BY DEF Child, SigkillLands, ChildReady, ChildFatal, SpawnFails, ChildTakes, ChildForges,
         ChildDisconnects, ChildResponds, ChildDies, hostVars, events, promises
<1>1. answered \subseteq answered' /\ (proc = "dead" => proc' = "dead")
  BY DEF Child, SigkillLands, ChildReady, ChildFatal, SpawnFails, ChildTakes, ChildForges,
         ChildDisconnects, ChildResponds, ChildDies, Alive, HasChannel
<1>2. TypeOK'
  <2> USE DEF IInv, TypeOK, Frame, Frames
  <2>1. CASE ChildReady \/ ChildFatal \/ ChildForges
    <3>1. \A type \in {"ready", "fatal", "foreign"} : Frame(type) \in Frames
      OBVIOUS
    <3>2. \A type \in {"ready", "fatal", "foreign"} :
            Append(toParent, Frame(type)) \in Seq(Frames)
      BY <3>1
    <3>3. toParent' \in Seq(Frames)
      BY <2>1, <3>2, Zenon DEF ChildReady, ChildFatal, ChildForges, Emit
    <3>4. /\ proc' \in {"loading", "idle", "busy", "broken", "detached", "dead", "unborn"}
          /\ forged' \in 0 .. MaxForged
          /\ UNCHANGED <<serving, cause, toChild, answered>>
      BY <2>1 DEF ChildReady, ChildFatal, ChildForges
    <3> QED
      BY <1>0, <3>3, <3>4
  <2>2. CASE ChildTakes
    <3>1. serving' \in Nat /\ toChild' \in Seq(Ids)
      <4>1. toChild \in Seq(Ids) /\ toChild # <<>>
        BY <2>2 DEF ChildTakes
      <4>2. Head(toChild) \in Ids /\ Tail(toChild) \in Seq(Ids)
        BY <4>1
      <4> QED
        BY <2>2, <4>2 DEF ChildTakes, Ids
    <3> QED
      BY <1>0, <2>2, <3>1 DEF ChildTakes
  <2>3. CASE SpawnFails
    BY <1>0, <2>3 DEF SpawnFails
  <2>7. CASE ChildDisconnects
    BY <1>0, <2>7 DEF ChildDisconnects, hostVars, events
  <2>6. CASE SigkillLands
    BY <1>0, <2>6 DEF SigkillLands
  <2>4. ASSUME NEW ok \in BOOLEAN, ChildResponds(ok) PROVE TypeOK'
    BY <1>0, <2>4 DEF ChildResponds, Emit
  <2>5. ASSUME NEW why \in {"limit", "crash", "quit"}, ChildDies(why) PROVE TypeOK'
    BY <1>0, <2>5 DEF ChildDies
  <2> QED
    BY <2>1, <2>2, <2>3, <2>4, <2>5, <2>6, <2>7 DEF Child
<1>3. Bookkeeping'
  <2> USE DEF IInv, TypeOK, Bookkeeping
  <2>1. CASE UNCHANGED <<toParent, answered>>
    BY <1>0, <1>1, <2>1
  <2>2. CASE ChildReady \/ ChildFatal \/ ChildForges
    <3>1. PICK type \in {"ready", "fatal", "foreign"} :
                 toParent' = Append(toParent, Frame(type))
      BY <2>2, Zenon DEF ChildReady, ChildFatal, ChildForges, Emit
    <3>2. ASSUME NEW i \in 1 .. Len(toParent'), toParent'[i].type = "response"
          PROVE  i \in 1 .. Len(toParent) /\ toParent'[i] = toParent[i]
      BY <3>1, <3>2 DEF Frame, Frames
    <3> QED
      BY <1>0, <1>1, <3>2
  <2>3. ASSUME NEW ok \in BOOLEAN, ChildResponds(ok) PROVE Bookkeeping'
    BY <1>0, <1>1, <2>3 DEF ChildResponds, Emit
  <2> QED
    BY <2>1, <2>2, <2>3 DEF Child, ChildTakes, ChildDisconnects, SpawnFails, SigkillLands, ChildDies
<1>4. PendingMatchesCalls' /\ NothingLeftAfterExit' /\ AnswerIsOwn' /\ FailsClosed'
  BY <1>0, <1>1 DEF IInv, PendingMatchesCalls, NothingLeftAfterExit, AnswerIsOwn, FailsClosed
<1>5. TerminateReaps'
  BY <1>0, <1>1 DEF IInv, TerminateReaps
<1> QED
  BY <1>2, <1>3, <1>4, <1>5 DEF IInv

(***************************************************************************)
(* Steps of the host.                                                      *)
(***************************************************************************)

\* The pipe to the parent after one frame has been taken off it.
LEMMA TailOfPipe ==
  ASSUME IInv, toParent # <<>>, toParent' = Tail(toParent), UNCHANGED answered
  PROVE  /\ toParent' \in Seq(Frames)
         /\ \A i \in 1 .. Len(toParent') :
              toParent'[i].type = "response" /\ toParent'[i].ok => toParent'[i].id \in answered'
         /\ Head(toParent) \in Frames
         /\ Head(toParent).type = "response" /\ Head(toParent).ok =>
              Head(toParent).id \in answered
<1>1. toParent \in Seq(Frames)
  BY DEF IInv, TypeOK
<1>2. Tail(toParent) \in Seq(Frames) /\ Head(toParent) \in Frames
  BY <1>1
<1>3. ASSUME NEW i \in 1 .. Len(Tail(toParent))
      PROVE  i + 1 \in 1 .. Len(toParent) /\ Tail(toParent)[i] = toParent[i + 1]
  BY <1>1, <1>3
<1>4. \A i \in 1 .. Len(toParent) :
        toParent[i].type = "response" /\ toParent[i].ok => toParent[i].id \in answered
  BY DEF IInv, Bookkeeping
<1>5. 1 \in 1 .. Len(toParent) /\ Head(toParent) = toParent[1]
  BY <1>1
<1> QED
  BY <1>2, <1>3, <1>4, <1>5

\* Every handler that fails closed keeps the invariant.
LEMMA FailClosedStep ==
  ASSUME IInv, NEW why \in Reasons, FailClosed(why),
         UNCHANGED <<proc, serving, cause, toChild, answered, forged, exited, unsent, nextId,
                     closed>>,
         connected' \in BOOLEAN, grace' \in BOOLEAN,
         toParent' = toParent \/ (toParent # <<>> /\ toParent' = Tail(toParent))
  PROVE  IInv'
<1>1. FailedClosed
  BY FailClosedSettles DEF IInv
<1>2. /\ toParent' \in Seq(Frames)
      /\ \A i \in 1 .. Len(toParent') :
           toParent'[i].type = "response" /\ toParent'[i].ok => toParent'[i].id \in answered'
  BY TailOfPipe DEF IInv, TypeOK, Bookkeeping
<1>3. TypeOK'
  BY <1>1, <1>2 DEF IInv, TypeOK, FailedClosed
<1>4. Bookkeeping'
  BY <1>1, <1>2 DEF IInv, Bookkeeping, FailedClosed
<1>5. PendingMatchesCalls'
  BY <1>1 DEF IInv, PendingMatchesCalls, FailedClosed
<1>6. NothingLeftAfterExit' /\ FailsClosed' /\ TerminateReaps'
  BY <1>1 DEF IInv, NothingLeftAfterExit, FailsClosed, TerminateReaps, FailedClosed, Bookkeeping
<1>7. AnswerIsOwn'
  BY <1>1 DEF IInv, AnswerIsOwn, FailedClosed
<1> QED
  BY <1>3, <1>4, <1>5, <1>6, <1>7 DEF IInv

\* A single request leaves the map and its promise is rejected; the host terminates.
LEMMA RejectOneStep ==
  ASSUME IInv, NEW c \in Calls, NEW why \in Reasons, call[c].status = "pending",
         pending' = pending \ {call[c].id}, call' = Settle(c, "rejected", why), Terminate,
         UNCHANGED <<childVars, toParent, events, promises, unsent, nextId, closed>>
  PROVE  IInv'
<1>0. UNCHANGED <<proc, serving, cause, toChild, answered, forged, connected, grace, exited,
                  ready, readyWhy>>
  BY DEF childVars, events, promises
<1>1. /\ call' \in [Calls -> CallRecord]
      /\ \A d \in Calls : call'[d].id = call[d].id
      /\ \A d \in Calls : d # c => call'[d] = call[d]
      /\ call'[c].status = "rejected"
  BY DEF IInv, TypeOK, CallRecord, Settle
<1>2. /\ term' \in {"waiting", "done"}
      /\ term' = "done" => term = "done" \/ exited
  BY DEF Terminate, IInv, TypeOK
<1>3. TypeOK'
  BY <1>0, <1>1, <1>2 DEF IInv, TypeOK
<1>4. Bookkeeping'
  BY <1>0, <1>1 DEF IInv, Bookkeeping
<1>5. PendingMatchesCalls'
  BY <1>0, <1>1 DEF IInv, PendingMatchesCalls, Bookkeeping
<1>6. NothingLeftAfterExit'
  BY <1>0 DEF IInv, NothingLeftAfterExit
<1>7. FailsClosed' /\ TerminateReaps'
  BY <1>0, <1>2 DEF IInv, FailsClosed, TerminateReaps, Bookkeeping
<1>8. AnswerIsOwn'
  BY <1>0, <1>1 DEF IInv, AnswerIsOwn
<1> QED
  BY <1>3, <1>4, <1>5, <1>6, <1>7, <1>8 DEF IInv

\* A call is made, and may have to wait until the child is ready.
LEMMA CallRpcStep ==
  ASSUME IInv, NEW c \in Calls, CallRpc(c)
  PROVE  IInv'
<1>0. UNCHANGED <<proc, serving, cause, toChild, answered, forged, toParent, connected, grace,
                  exited, ready, readyWhy, pending, unsent, nextId, term, closed>>
  BY DEF CallRpc, childVars, events, promises
<1>1. /\ call' \in [Calls -> CallRecord]
      /\ \A d \in Calls : call'[d].id = call[d].id
      /\ \A d \in Calls : d # c => call'[d] = call[d]
      /\ call[c].status = "new"
      /\ \/ call'[c].status = "waiting"
         \/ call'[c].status = "rejected" /\ ready = "rejected"
  BY DEF IInv, TypeOK, CallRecord, CallRpc, Settle, Reasons
<1>2. TypeOK' /\ Bookkeeping'
  BY <1>0, <1>1 DEF IInv, TypeOK, Bookkeeping
<1>3. PendingMatchesCalls' /\ AnswerIsOwn'
  BY <1>0, <1>1 DEF IInv, PendingMatchesCalls, AnswerIsOwn
<1>4. NothingLeftAfterExit' /\ TerminateReaps'
  BY <1>0 DEF IInv, NothingLeftAfterExit, TerminateReaps
<1>5. FailsClosed'
  BY <1>0, <1>1 DEF IInv, FailsClosed
<1> QED
  BY <1>2, <1>3, <1>4, <1>5 DEF IInv

\* A call whose child is ready takes an id and sends its request.
LEMMA SendRpcStep ==
  ASSUME IInv, NEW c \in Calls, SendRpc(c)
  PROVE  IInv'
<1>0. UNCHANGED <<proc, serving, cause, answered, forged, toParent, connected, grace, exited,
                  ready, readyWhy, term, closed>>
  BY DEF SendRpc, events, promises
<1>1. CASE exited
  <2>1. UNCHANGED <<toChild, pending, unsent, nextId>>
    BY <1>1 DEF SendRpc
  <2>0. call' = Settle(c, "rejected", "crash") /\ call[c].status = "waiting"
    BY <1>1 DEF SendRpc
  <2>2. /\ call' \in [Calls -> CallRecord]
        /\ \A d \in Calls : call'[d].id = call[d].id
        /\ \A d \in Calls : d # c => call'[d] = call[d]
        /\ call'[c].status = "rejected"
    BY <2>0 DEF IInv, TypeOK, CallRecord, Settle, Reasons
  <2>3. TypeOK' /\ Bookkeeping'
    BY <1>0, <2>1, <2>2 DEF IInv, TypeOK, Bookkeeping
  <2>4. PendingMatchesCalls' /\ AnswerIsOwn'
    BY <1>0, <2>0, <2>1, <2>2 DEF IInv, PendingMatchesCalls, AnswerIsOwn
  <2>5. NothingLeftAfterExit' /\ TerminateReaps' /\ FailsClosed'
    BY <1>0, <1>1, <2>1 DEF IInv, NothingLeftAfterExit, TerminateReaps, FailsClosed
  <2> QED
    BY <2>3, <2>4, <2>5 DEF IInv
<1>2. CASE ~exited
  <2>0. nextId \in Nat \ {0}
    BY DEF IInv, TypeOK, Ids
  <2>1. pending' = pending \cup {nextId} /\ nextId' = nextId + 1
    BY <1>2 DEF SendRpc
  <2>2. toChild' \in Seq(Ids) /\ unsent' \subseteq Nat
    <3>1. \/ toChild' = Append(toChild, nextId) /\ unsent' = unsent
          \/ toChild' = toChild /\ unsent' = unsent \cup {nextId}
      BY <1>2 DEF SendRpc
    <3>2. toChild \in Seq(Ids) /\ unsent \subseteq Nat /\ nextId \in Ids /\ nextId \in Nat
      BY DEF IInv, TypeOK, Ids
    <3>3. Append(toChild, nextId) \in Seq(Ids)
      BY <3>2
    <3> QED
      BY <3>1, <3>2, <3>3
  <2>9. /\ call[c].status = "waiting"
        /\ call' = [call EXCEPT ![c] = [status |-> "pending", id |-> nextId, why |-> "none"]]
    BY <1>2 DEF SendRpc
  <2>3. /\ call' \in [Calls -> CallRecord]
        /\ \A d \in Calls : d # c => call'[d] = call[d]
        /\ call[c].status = "waiting"
        /\ call'[c].status = "pending" /\ call'[c].id = nextId
    BY <2>0, <2>9 DEF IInv, TypeOK, CallRecord, Reasons
  <2>4. TypeOK'
    BY <1>0, <2>0, <2>1, <2>2, <2>3 DEF IInv, TypeOK, Ids
  <2>5. \A d \in Calls : call[d].id \in Nat /\ call[d].id < nextId
    BY DEF IInv, TypeOK, CallRecord, Bookkeeping
  <2>6. Bookkeeping'
    BY <1>0, <2>0, <2>1, <2>3, <2>5 DEF IInv, Bookkeeping
  <2>7. PendingMatchesCalls'
    BY <2>0, <2>1, <2>3, <2>5 DEF IInv, PendingMatchesCalls
  <2>8. NothingLeftAfterExit' /\ TerminateReaps' /\ FailsClosed' /\ AnswerIsOwn'
    BY <1>0, <1>2, <2>1, <2>3
    DEF IInv, NothingLeftAfterExit, TerminateReaps, FailsClosed, AnswerIsOwn
  <2> QED
    BY <2>4, <2>6, <2>7, <2>8 DEF IInv
<1> QED
  BY <1>1, <1>2

\* The ready promise settles: late or timed out, with every call that awaits it ...
LEMMA RejectReadyStep ==
  ASSUME IInv, ready = "open", RejectReady("timeout"), Terminate,
         UNCHANGED <<childVars, events, pending, unsent, nextId, closed>>,
         toParent' = toParent \/ (toParent # <<>> /\ toParent' = Tail(toParent))
  PROVE  IInv'
<1>0. UNCHANGED <<proc, serving, cause, toChild, answered, forged, connected, grace, exited>>
  BY DEF childVars, events
<1>1. /\ toParent' \in Seq(Frames)
      /\ \A i \in 1 .. Len(toParent') :
           toParent'[i].type = "response" /\ toParent'[i].ok => toParent'[i].id \in answered'
  BY <1>0, TailOfPipe DEF IInv, TypeOK, Bookkeeping
<1>2. /\ call' \in [Calls -> CallRecord]
      /\ \A d \in Calls : call'[d].id = call[d].id
      /\ \A d \in Calls : call[d].status # "waiting" => call'[d] = call[d]
      /\ \A d \in Calls : call[d].status = "waiting" => call'[d].status = "rejected"
  BY DEF IInv, TypeOK, CallRecord, RejectReady, Rejected, Reasons
<1>3. /\ ready' = "rejected" /\ readyWhy' \in Reasons
      /\ term' \in {"waiting", "done"}
      /\ term' = "done" => term = "done" \/ exited
  BY DEF RejectReady, Terminate, IInv, TypeOK, Reasons
<1>4. TypeOK' /\ Bookkeeping'
  BY <1>0, <1>1, <1>2, <1>3 DEF IInv, TypeOK, Bookkeeping
<1>5. PendingMatchesCalls'
  BY <1>2 DEF IInv, PendingMatchesCalls
<1>6. AnswerIsOwn'
  BY <1>0, <1>2 DEF IInv, AnswerIsOwn
<1>7. NothingLeftAfterExit' /\ TerminateReaps' /\ FailsClosed'
  BY <1>0, <1>3 DEF IInv, NothingLeftAfterExit, TerminateReaps, FailsClosed, Bookkeeping
<1> QED
  BY <1>4, <1>5, <1>6, <1>7 DEF IInv

\* A response to a pending request settles that request and no other.
LEMMA AnswerStep ==
  ASSUME IInv, toParent # <<>>, toParent' = Tail(toParent),
         Head(toParent).type = "response", Head(toParent).id \in pending,
         OnResponse,
         UNCHANGED <<childVars, events, unsent, nextId, closed>>
  PROVE  IInv'
<1> DEFINE frame == Head(toParent)
<1>0. UNCHANGED <<proc, serving, cause, toChild, answered, forged, connected, grace, exited>>
  BY DEF childVars, events
<1>1. /\ toParent' \in Seq(Frames)
      /\ \A i \in 1 .. Len(toParent') :
           toParent'[i].type = "response" /\ toParent'[i].ok => toParent'[i].id \in answered'
      /\ frame \in Frames
      /\ frame.ok => frame.id \in answered
  BY <1>0, TailOfPipe
<1>2. /\ pending' = pending \ {frame.id}
      /\ call' = [c \in Calls |->
                    IF call[c].status = "pending" /\ call[c].id = frame.id
                    THEN IF frame.ok
                         THEN [status |-> "resolved", id |-> frame.id, why |-> "none"]
                         ELSE Rejected(call[c], "engine")
                    ELSE call[c]]
      /\ UNCHANGED <<ready, readyWhy, term>>
  BY DEF OnResponse, promises
<1> HIDE DEF frame
<1>3. /\ call' \in [Calls -> CallRecord]
      /\ \A c \in Calls : call'[c].id = call[c].id
      /\ \A c \in Calls : ~(call[c].status = "pending" /\ call[c].id = frame.id) =>
           call'[c] = call[c]
      /\ \A c \in Calls : call[c].status = "pending" /\ call[c].id = frame.id =>
           \/ call'[c].status = "resolved" /\ frame.ok
           \/ call'[c].status = "rejected" /\ call'[c].why = "engine"
  BY <1>1, <1>2 DEF IInv, TypeOK, CallRecord, Rejected, Reasons, Frames
<1>4. TypeOK'
  BY <1>0, <1>1, <1>2, <1>3 DEF IInv, TypeOK
<1>5. Bookkeeping'
  BY <1>0, <1>1, <1>2, <1>3 DEF IInv, Bookkeeping
<1>6. PendingMatchesCalls'
  <2>1. \A c \in Calls : call'[c].status = "pending" => call'[c].id \in pending'
    BY <1>2, <1>3 DEF IInv, PendingMatchesCalls
  <2>2. ASSUME NEW id \in pending'
        PROVE  \E c \in Calls : call'[c].status = "pending" /\ call'[c].id = id
    <3>1. PICK c \in Calls : call[c].status = "pending" /\ call[c].id = id
      BY <1>2 DEF IInv, PendingMatchesCalls
    <3> QED
      BY <1>2, <1>3, <3>1
  <2> QED
    BY <1>3, <2>1, <2>2 DEF IInv, PendingMatchesCalls
<1>7. AnswerIsOwn'
  BY <1>0, <1>1, <1>3 DEF IInv, AnswerIsOwn
<1>8. NothingLeftAfterExit' /\ TerminateReaps'
  BY <1>0, <1>2 DEF IInv, NothingLeftAfterExit, TerminateReaps
<1>9. FailsClosed'
  BY <1>0, <1>2, <1>3 DEF IInv, FailsClosed
<1> QED
  BY <1>4, <1>5, <1>6, <1>7, <1>8, <1>9 DEF IInv

\* A frame arrives from the child: ready, fatal, a response, or foreign.
LEMMA OnMessageStep ==
  ASSUME IInv, OnMessage
  PROVE  IInv'
<1>0. /\ toParent # <<>> /\ toParent' = Tail(toParent)
      /\ UNCHANGED <<childVars, events, unsent, nextId, closed>>
      /\ UNCHANGED <<proc, serving, cause, toChild, answered, forged, connected, grace, exited>>
  BY DEF OnMessage, childVars, events
<1>1. connected' \in BOOLEAN /\ grace' \in BOOLEAN
  BY <1>0 DEF IInv, TypeOK
<1>2. ASSUME NEW why \in Reasons, FailClosed(why) PROVE IInv'
  BY <1>0, <1>1, <1>2, FailClosedStep
<1>3. "protocol" \in Reasons /\ "engine" \in Reasons
  BY DEF Reasons
<1>4. CASE OnFatal \/ OnForeign
  BY <1>2, <1>3, <1>4 DEF OnFatal, OnForeign
<1>5. CASE OnResponse
  BY <1>0, <1>2, <1>3, <1>5, AnswerStep DEF OnResponse
<1>6. CASE OnReady
  <2>1. CASE FailClosed("protocol")
    BY <1>2, <1>3, <2>1
  <2>2. CASE ready = "open" /\ RejectReady("timeout") /\ Terminate /\ UNCHANGED pending
    BY <1>0, <2>2, RejectReadyStep
  <2>3. CASE ready = "open" /\ ready' = "resolved" /\ UNCHANGED <<readyWhy, call, pending, term>>
    <3>1. TypeOK' /\ Bookkeeping'
      BY <1>0, <2>3, TailOfPipe DEF IInv, TypeOK, Bookkeeping
    <3>2. PendingMatchesCalls' /\ AnswerIsOwn' /\ NothingLeftAfterExit'
      BY <1>0, <2>3 DEF IInv, PendingMatchesCalls, AnswerIsOwn, NothingLeftAfterExit
    <3>3. FailsClosed' /\ TerminateReaps'
      BY <1>0, <2>3 DEF IInv, FailsClosed, TerminateReaps
    <3> QED
      BY <3>1, <3>2, <3>3 DEF IInv
  <2> QED
    BY <1>6, <2>1, <2>2, <2>3 DEF OnReady
<1> QED
  BY <1>4, <1>5, <1>6 DEF OnMessage

\* The child's exit settles whatever is left.
LEMMA OnExitStep ==
  ASSUME IInv, OnExit
  PROVE  IInv'
<1>0. /\ proc = "dead" /\ ~exited /\ exited' = TRUE /\ grace' = FALSE
      /\ term' = IF term = "waiting" THEN "done" ELSE term
      /\ UNCHANGED <<proc, serving, cause, toChild, answered, forged, toParent, connected,
                     unsent, nextId, closed>>
  BY DEF OnExit, childVars
<1>1. CASE RejectAll(Verdict)
  <2>0. Verdict \in Reasons
    BY DEF Verdict, Reasons
  <2>1. /\ call' \in [Calls -> CallRecord]
        /\ \A c \in Calls : /\ call'[c].id = call[c].id
                            /\ call'[c].status # "pending"
                            /\ call'[c].status = "resolved" => call[c].status = "resolved"
    BY <1>1, <2>0 DEF IInv, TypeOK, RejectAll, CallRecord, Rejected
  <2>2. /\ ready' \in {"resolved", "rejected"} /\ readyWhy' \in Reasons /\ pending' = {}
    BY <1>1, <2>0 DEF IInv, TypeOK, RejectAll
  <2>3. TypeOK' /\ Bookkeeping'
    BY <1>0, <2>1, <2>2 DEF IInv, TypeOK, Bookkeeping
  <2>4. PendingMatchesCalls' /\ AnswerIsOwn'
    BY <1>0, <2>1, <2>2 DEF IInv, PendingMatchesCalls, AnswerIsOwn
  <2>5. NothingLeftAfterExit' /\ TerminateReaps' /\ FailsClosed'
    BY <1>0, <2>2 DEF NothingLeftAfterExit, TerminateReaps, FailsClosed
  <2> QED
    BY <2>3, <2>4, <2>5 DEF IInv
<1>2. CASE pending = {} /\ ready # "open" /\ UNCHANGED <<ready, readyWhy, call, pending>>
  <2>1. TypeOK' /\ Bookkeeping'
    BY <1>0, <1>2 DEF IInv, TypeOK, Bookkeeping
  <2>2. PendingMatchesCalls' /\ AnswerIsOwn'
    BY <1>0, <1>2 DEF IInv, PendingMatchesCalls, AnswerIsOwn
  <2>3. NothingLeftAfterExit' /\ TerminateReaps' /\ FailsClosed'
    BY <1>0, <1>2 DEF NothingLeftAfterExit, TerminateReaps, FailsClosed
  <2> QED
    BY <2>1, <2>2, <2>3 DEF IInv
<1> QED
  BY <1>1, <1>2 DEF OnExit, promises

\* A disconnect, the end of its grace period, an error, a lost "initialize" or a close
\* keeps the invariant.
LEMMA EventStep ==
  ASSUME IInv, OnDisconnect \/ GraceExpires \/ OnError \/ InitializeFails \/ Close
  PROVE  IInv'
<1> USE DEF childVars, events, promises
<1>1. CASE OnDisconnect
  <2>1. TypeOK' /\ Bookkeeping'
    BY <1>1 DEF IInv, TypeOK, Bookkeeping, OnDisconnect
  <2>2. PendingMatchesCalls' /\ AnswerIsOwn' /\ NothingLeftAfterExit'
    BY <1>1 DEF IInv, PendingMatchesCalls, AnswerIsOwn, NothingLeftAfterExit, OnDisconnect
  <2>3. FailsClosed' /\ TerminateReaps'
    BY <1>1 DEF IInv, FailsClosed, TerminateReaps, OnDisconnect
  <2> QED
    BY <2>1, <2>2, <2>3 DEF IInv
<1>2. CASE GraceExpires \/ OnError \/ InitializeFails
  <2>1. /\ FailClosed("crash") /\ "crash" \in Reasons
        /\ connected' \in BOOLEAN /\ grace' \in BOOLEAN
        /\ UNCHANGED <<proc, serving, cause, toChild, answered, forged, toParent, exited,
                       unsent, nextId, closed>>
    BY <1>2 DEF GraceExpires, OnError, InitializeFails, Reasons, IInv, TypeOK
  <2> QED
    BY <2>1, FailClosedStep
<1>3. CASE Close
  <2>1. /\ term' \in {"waiting", "done"}
        /\ term' = "done" => term = "done" \/ exited
    BY <1>3 DEF Close, Terminate, IInv, TypeOK
  <2>2. TypeOK' /\ Bookkeeping'
    BY <1>3, <2>1 DEF IInv, TypeOK, Bookkeeping, Close
  <2>3. PendingMatchesCalls' /\ AnswerIsOwn' /\ NothingLeftAfterExit'
    BY <1>3 DEF IInv, PendingMatchesCalls, AnswerIsOwn, NothingLeftAfterExit, Close
  <2>4. FailsClosed' /\ TerminateReaps'
    BY <1>3, <2>1 DEF IInv, FailsClosed, TerminateReaps, Bookkeeping, Close
  <2> QED
    BY <2>2, <2>3, <2>4 DEF IInv
<1> QED
  BY <1>1, <1>2, <1>3

\* A step that changes nothing keeps the invariant.
LEMMA StutterStep ==
  ASSUME IInv, UNCHANGED vars
  PROVE  IInv'
<1> USE DEF vars, childVars, hostVars, events, promises
<1>1. TypeOK' /\ Bookkeeping'
  BY DEF IInv, TypeOK, Bookkeeping
<1>2. PendingMatchesCalls' /\ AnswerIsOwn' /\ NothingLeftAfterExit'
  BY DEF IInv, PendingMatchesCalls, AnswerIsOwn, NothingLeftAfterExit
<1>3. FailsClosed' /\ TerminateReaps'
  BY DEF IInv, FailsClosed, TerminateReaps
<1> QED
  BY <1>1, <1>2, <1>3 DEF IInv

\* Every step of the host and of its child keeps the invariant.
LEMMA NextIInv == IInv /\ [Next]_vars => IInv'
<1> SUFFICES ASSUME IInv, [Next]_vars PROVE IInv'
  OBVIOUS
<1>1. CASE Child \/ SigkillLands
  BY <1>1, ChildStep
<1>2. ASSUME NEW c \in Calls, CallRpc(c) \/ SendRpc(c) \/ SendFails(c) \/ RpcTimesOut(c)
      PROVE  IInv'
  <2>1. "crash" \in Reasons /\ "timeout" \in Reasons
    BY DEF Reasons
  <2>2. CASE SendFails(c)
    BY <2>1, <2>2, RejectOneStep DEF SendFails
  <2>3. CASE RpcTimesOut(c)
    BY <2>1, <2>3, RejectOneStep DEF RpcTimesOut
  <2> QED
    BY <1>2, <2>2, <2>3, CallRpcStep, SendRpcStep
<1>3. CASE ReadyTimesOut
  BY <1>3, RejectReadyStep DEF ReadyTimesOut
<1>4. CASE OnMessage
  BY <1>4, OnMessageStep
<1>5. CASE OnExit
  BY <1>5, OnExitStep
<1>6. CASE OnDisconnect \/ GraceExpires \/ OnError \/ InitializeFails \/ Close
  BY <1>6, EventStep
<1>7. CASE UNCHANGED vars
  BY <1>7, StutterStep
<1> QED
  BY <1>1, <1>2, <1>3, <1>4, <1>5, <1>6, <1>7 DEF Next, Host

\* The inductive invariant holds in every reachable state.
THEOREM Safety == Spec => []IInv
  BY InitIInv, NextIInv, PTL DEF Spec

\* Type correctness of the host and the child.
THEOREM TypeCorrect == Spec => []TypeOK
  BY Safety, PTL DEF IInv

\* After the child's exit no promise of the host is left unsettled.
THEOREM NothingIsLeft == Spec => []NothingLeftAfterExit
  BY Safety, PTL DEF IInv

\* A resolved call carries the answer the child gave to that very call.
THEOREM AnswersAreOwn == Spec => []AnswerIsOwn
  BY Safety, PTL DEF IInv

\* The host fails closed: no host-level failure leaves the engine running unkilled.
THEOREM HostFailsClosed == Spec => []FailsClosed
  BY Safety, PTL DEF IInv

\* terminate() resolves only for a process that is gone.
THEOREM TerminateIsReap == Spec => []TerminateReaps
  BY Safety, PTL DEF IInv

=============================================================================
