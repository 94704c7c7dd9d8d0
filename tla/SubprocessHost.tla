--------------------------- MODULE SubprocessHost ---------------------------
(***************************************************************************)
(* One engine subprocess as its parent sees it: startSubprocess in         *)
(* scripts/evaluation/worker-engine-proxy.mjs, with the child runtime of   *)
(* worker-engine-runtime.mjs on the other end of the IPC channel.          *)
(*                                                                         *)
(* The parent is a Node event loop: every action of the parent below is    *)
(* one turn of it (a message, a timer, the 'disconnect' and 'exit' events, *)
(* a send callback, the continuation of an awaited promise).  The child is *)
(* another process: it may take arbitrarily long, answer, fail, exceed its *)
(* memory ceiling or die at any moment, and what it wrote before it died   *)
(* may still be delivered.  Timers carry no clock here: a timer that is    *)
(* armed may fire at any time, before or after any other event.            *)
(***************************************************************************)
EXTENDS Naturals, Sequences

CONSTANTS
  Calls,       \* the rpc() calls the session makes, each at most once
  MaxForged,   \* bound on the frames of a foreign channel the child may emit
  SpawnMayFail \* whether the operating system may refuse to start the process

ASSUME MaxForgedAssumption == MaxForged \in Nat
ASSUME SpawnAssumption == SpawnMayFail \in BOOLEAN

VARIABLES
  proc,        \* the child: "loading", "idle", "busy", "broken", "detached", "dead", "unborn"
  serving,     \* id of the request the child is working on, 0 for none
  cause,       \* what really ended the child: "none", "limit", "host", "crash", "quit"
  toChild,     \* request ids in the IPC pipe to the child
  toParent,    \* frames in the IPC pipe to the parent
  answered,    \* history: ids the child computed a value for
  forged,      \* number of foreign frames emitted so far
  connected,   \* FALSE once the parent has had the 'disconnect' event
  grace,       \* the 50 ms disconnectTimer is armed
  exited,      \* the parent has had the 'exit' event
  ready,       \* the ready promise: "open", "resolved", "rejected"
  readyWhy,    \* the reason it was rejected with
  pending,     \* ids in the parent's map of pending requests
  unsent,      \* ids whose send() will report an error to its callback, 0 for "initialize"
  nextId,      \* nextRequestId
  call,        \* per rpc() call: its status, its request id and why it failed
  term,        \* terminatePromise: "no", "waiting" (for exit), "done"
  closed       \* the owning session was closed; its methods refuse from then on

childVars == <<proc, serving, cause, toChild, answered, forged>>
events    == <<connected, grace, exited>>
promises  == <<ready, readyWhy>>
hostVars  == <<events, promises, pending, unsent, nextId, call, term, closed>>
vars == <<childVars, toParent, hostVars>>

Reasons == {"none", "timeout", "memory_limit", "crash", "protocol", "engine"}
Ids == Nat \ {0}

CallRecord ==
  [status : {"new", "waiting", "pending", "resolved", "rejected"}, id : Nat, why : Reasons]

Frames ==
  [type : {"ready", "fatal", "foreign", "response"}, id : Nat, ok : BOOLEAN]

Frame(type) == [type |-> type, id |-> 0, ok |-> TRUE]

TypeOK ==
  /\ proc \in {"loading", "idle", "busy", "broken", "detached", "dead", "unborn"}
  /\ serving \in Nat
  /\ cause \in {"none", "limit", "host", "crash", "quit"}
  /\ toChild \in Seq(Ids)
  /\ toParent \in Seq(Frames)
  /\ answered \subseteq Nat
  /\ forged \in 0 .. MaxForged
  /\ connected \in BOOLEAN /\ grace \in BOOLEAN /\ exited \in BOOLEAN
  /\ ready \in {"open", "resolved", "rejected"}
  /\ readyWhy \in Reasons
  /\ pending \subseteq Ids
  /\ unsent \subseteq Nat
  /\ nextId \in Ids
  /\ call \in [Calls -> CallRecord]
  /\ term \in {"no", "waiting", "done"}
  /\ closed \in BOOLEAN

(***************************************************************************)
(* startSubprocess forks the child, arms readyTimer and sends initialize,  *)
(* which may fail to be sent.                                              *)
(***************************************************************************)
Init ==
  /\ proc = "loading" /\ serving = 0 /\ cause = "none"
  /\ toChild = <<>> /\ toParent = <<>>
  /\ answered = {} /\ forged = 0
  /\ connected = TRUE /\ grace = FALSE /\ exited = FALSE
  /\ ready = "open" /\ readyWhy = "none" /\ pending = {} /\ nextId = 1
  /\ unsent \in {{}, {0}}
  /\ call = [c \in Calls |-> [status |-> "new", id |-> 0, why |-> "none"]]
  /\ term = "no" /\ closed = FALSE

-----------------------------------------------------------------------------
(* The pieces the handlers are made of.                                    *)

\* Mutant of Terminate: the promise resolves at once and nothing is killed.
TerminateWithoutKill == term' = IF term # "no" THEN term ELSE "done"

\* terminate(): memoized; SIGKILL unless the exit is already known.
Terminate ==
  term' = IF term # "no" THEN term ELSE IF exited THEN "done" ELSE "waiting"

Rejected(rec, why) == [status |-> "rejected", id |-> rec.id, why |-> why]

Settle(c, status, why) ==
  [call EXCEPT ![c] = [status |-> status, id |-> call[c].id, why |-> why]]

\* The ready promise is rejected, and with it every call that awaits it.
RejectReady(why) ==
  /\ ready' = "rejected" /\ readyWhy' = why
  /\ call' = [c \in Calls |->
                IF call[c].status = "waiting"
                THEN Rejected(call[c], why)
                ELSE call[c]]

\* Mutant of RejectAll: marks ready as settled but forgets to reject its waiters.
RejectAllButReadyWaiters(why) ==
  /\ ready' = IF ready = "open" THEN "rejected" ELSE ready
  /\ readyWhy' = IF ready = "open" THEN why ELSE readyWhy
  /\ call' = [c \in Calls |-> IF call[c].status = "pending"
                              THEN Rejected(call[c], why)
                              ELSE call[c]]
  /\ pending' = {}

\* rejectAll(error): the ready promise if still open, then every pending request.
\* Calls that still await the ready promise are rejected with it.
RejectAll(why) ==
  /\ ready' = IF ready = "open" THEN "rejected" ELSE ready
  /\ readyWhy' = IF ready = "open" THEN why ELSE readyWhy
  /\ call' = [c \in Calls |->
                IF \/ call[c].status = "pending"
                   \/ ready = "open" /\ call[c].status = "waiting"
                THEN Rejected(call[c], why)
                ELSE call[c]]
  /\ pending' = {}

FailClosed(why) == RejectAll(why) /\ Terminate

-----------------------------------------------------------------------------
(* The child.                                                              *)

Alive == proc \notin {"dead", "unborn"}
HasChannel == Alive /\ proc # "detached"
Initialized == 0 \notin unsent
Emit(frame) == toParent' = Append(toParent, frame)

\* initialize() succeeded: the engine module is loaded and its session exists.
ChildReady ==
  /\ proc = "loading" /\ Initialized
  /\ proc' = "idle"
  /\ Emit(Frame("ready"))
  /\ UNCHANGED <<serving, cause, toChild, answered, forged, hostVars>>

\* initialize() threw: the runtime reports "fatal" and never gets a session.
ChildFatal ==
  /\ proc = "loading" /\ Initialized
  /\ proc' = "broken"
  /\ Emit(Frame("fatal"))
  /\ UNCHANGED <<serving, cause, toChild, answered, forged, hostVars>>

\* operationQueue: one request at a time, in arrival order.
ChildTakes ==
  /\ proc = "idle" /\ toChild # <<>>
  /\ proc' = "busy"
  /\ serving' = Head(toChild)
  /\ toChild' = Tail(toChild)
  /\ UNCHANGED <<cause, answered, forged, toParent, hostVars>>

\* The engine returned (ok) or threw (not ok); either way a response goes back.
ChildResponds(ok) ==
  /\ proc = "busy"
  /\ proc' = "idle" /\ serving' = 0
  /\ answered' = IF ok THEN answered \cup {serving} ELSE answered
  /\ Emit([type |-> "response", id |-> serving, ok |-> ok])
  /\ UNCHANGED <<cause, toChild, forged, hostVars>>

\* Engine code that reaches the channel without knowing the channel id.
ChildForges ==
  /\ HasChannel /\ forged < MaxForged
  /\ forged' = forged + 1
  /\ Emit(Frame("foreign"))
  /\ UNCHANGED <<proc, serving, cause, toChild, answered, hostVars>>

\* The child closes its end of the channel and lives on; what it wrote before may still
\* be delivered, what it is sent from now on is not.
ChildDisconnects ==
  /\ HasChannel
  /\ proc' = "detached" /\ serving' = 0
  /\ UNCHANGED <<cause, toChild, answered, forged, toParent, hostVars>>

\* fork() fails: there never is a process, and no 'exit' event for one.
SpawnFails ==
  /\ SpawnMayFail /\ proc = "loading" /\ ready = "open" /\ term = "no"
  /\ toParent = <<>> /\ forged = 0
  /\ proc' = "unborn"
  /\ UNCHANGED <<serving, cause, toChild, answered, forged, toParent, hostVars>>

\* The process ends by itself: the memory ceiling's SIGKILL, a crash (any
\* non-zero exit, sendFrame's runtimeExit(1) included) or process.exit(0).
ChildDies(why) ==
  /\ Alive
  /\ proc' = "dead" /\ cause' = why /\ serving' = 0
  /\ UNCHANGED <<toChild, answered, forged, toParent, hostVars>>

\* The host's SIGKILL takes effect.
SigkillLands ==
  /\ Alive /\ term = "waiting"
  /\ proc' = "dead" /\ cause' = "host" /\ serving' = 0
  /\ UNCHANGED <<toChild, answered, forged, toParent, hostVars>>

-----------------------------------------------------------------------------
(* The parent.                                                             *)

\* rpc(): the session calls; the body first awaits the ready promise.
CallRpc(c) ==
  /\ call[c].status = "new" /\ ~closed
  /\ call' = IF ready = "rejected"
             THEN Settle(c, "rejected", readyWhy)
             ELSE Settle(c, "waiting", "none")
  /\ UNCHANGED <<childVars, toParent, events, promises, pending, unsent, nextId, term,
                 closed>>

\* rpc() after the await: the exited check, then id, timer, pending entry, send.
\* A send to a channel that is gone reports its error to the callback later.
SendRpc(c) ==
  /\ call[c].status = "waiting" /\ ready = "resolved"
  /\ IF exited
     THEN /\ call' = Settle(c, "rejected", "crash")
          /\ UNCHANGED <<toChild, pending, unsent, nextId>>
     ELSE /\ call' = [call EXCEPT ![c] = [status |-> "pending", id |-> nextId, why |-> "none"]]
          /\ pending' = pending \cup {nextId}
          /\ nextId' = nextId + 1
          /\ IF HasChannel
             THEN toChild' = Append(toChild, nextId) /\ unsent' = unsent
             ELSE unsent' = unsent \cup {nextId} /\ toChild' = toChild
  /\ UNCHANGED <<proc, serving, cause, answered, forged, toParent, events, promises,
                 term, closed>>

\* The send of "initialize" throws or its callback brings an error: the child never
\* gets it.
InitializeFails ==
  /\ ~Initialized
  /\ FailClosed("crash")
  /\ UNCHANGED <<childVars, toParent, events, unsent, nextId, closed>>

\* The send callback brings an error for a request that is still pending.
SendFails(c) ==
  /\ call[c].status = "pending" /\ call[c].id \in unsent
  /\ pending' = pending \ {call[c].id}
  /\ call' = Settle(c, "rejected", "crash")
  /\ Terminate
  /\ UNCHANGED <<childVars, toParent, events, promises, unsent, nextId, closed>>

RpcTimesOutLeavesChild(c) ==
  /\ call[c].status = "pending"
  /\ pending' = pending \ {call[c].id}
  /\ call' = Settle(c, "rejected", "timeout")
  /\ UNCHANGED <<childVars, toParent, events, promises, unsent, nextId, term, closed>>

\* The request's own timer.
RpcTimesOut(c) ==
  /\ call[c].status = "pending"
  /\ pending' = pending \ {call[c].id}
  /\ call' = Settle(c, "rejected", "timeout")
  /\ Terminate
  /\ UNCHANGED <<childVars, toParent, events, promises, unsent, nextId, closed>>

\* readyTimer: initialization exceeded its cap.
ReadyTimesOut ==
  /\ ready = "open"
  /\ RejectReady("timeout")
  /\ Terminate
  /\ UNCHANGED <<childVars, toParent, events, pending, unsent, nextId, closed>>

\* A "ready" frame: a duplicate fails closed, a late one is a timeout.
OnReady ==
  /\ Head(toParent).type = "ready"
  /\ \/ ready # "open" /\ FailClosed("protocol")
     \/ /\ ready = "open"
        /\ ready' = "resolved"
        /\ UNCHANGED <<readyWhy, call, pending, term>>
     \/ /\ ready = "open"              \* elapsedMs > initializationCapMs
        /\ RejectReady("timeout")
        /\ Terminate /\ UNCHANGED pending

OnFatal == Head(toParent).type = "fatal" /\ FailClosed("engine")

OnForeign == Head(toParent).type = "foreign" /\ FailClosed("protocol")

\* Mutant of OnResponse: the error field of a response is ignored.
OnResponseIgnoringError ==
  LET frame == Head(toParent) IN
  /\ frame.type = "response"
  /\ \/ frame.id \notin pending /\ FailClosed("protocol")
     \/ /\ frame.id \in pending
        /\ pending' = pending \ {frame.id}
        /\ call' = [c \in Calls |->
                      IF call[c].status = "pending" /\ call[c].id = frame.id
                      THEN [call[c] EXCEPT !.status = "resolved"]
                      ELSE call[c]]
        /\ UNCHANGED <<promises, term>>

\* A response: unknown or late ids fail closed, known ones settle their request.
OnResponse ==
  LET frame == Head(toParent) IN
  /\ frame.type = "response"
  /\ \/ frame.id \notin pending /\ FailClosed("protocol")
     \/ /\ frame.id \in pending
        /\ pending' = pending \ {frame.id}
        /\ call' = [c \in Calls |->
                      IF call[c].status = "pending" /\ call[c].id = frame.id
                      THEN IF frame.ok
                           THEN [status |-> "resolved", id |-> frame.id, why |-> "none"]
                           ELSE Rejected(call[c], "engine")
                      ELSE call[c]]
        /\ UNCHANGED <<promises, term>>

OnMessage ==
  /\ toParent # <<>>
  /\ toParent' = Tail(toParent)
  /\ OnReady \/ OnFatal \/ OnForeign \/ OnResponse
  /\ UNCHANGED <<childVars, events, unsent, nextId, closed>>

\* The channel closed: give the authoritative exit status 50 ms to arrive.
OnDisconnect ==
  /\ proc \in {"dead", "detached"} /\ connected /\ toParent = <<>>
  /\ connected' = FALSE
  /\ grace' = ~exited
  /\ UNCHANGED <<childVars, toParent, exited, promises, pending, unsent, nextId, call,
                 term, closed>>

GraceExpires ==
  /\ grace /\ ~exited
  /\ grace' = FALSE
  /\ FailClosed("crash")
  /\ UNCHANGED <<childVars, toParent, connected, exited, unsent, nextId, closed>>

\* The 'error' event of a process that could not be spawned.
OnError ==
  /\ proc = "unborn" /\ ready = "open"
  /\ FailClosed("crash")
  /\ UNCHANGED <<childVars, toParent, events, unsent, nextId, closed>>

\* How the exit status reads: any SIGKILL under the memory profile is a limit kill.
Verdict == IF cause \in {"limit", "host"} THEN "memory_limit" ELSE "crash"

\* 'exit', and the continuations of exitPromise.
OnExit ==
  /\ proc = "dead" /\ ~exited
  /\ exited' = TRUE /\ grace' = FALSE
  /\ term' = IF term = "waiting" THEN "done" ELSE term
  /\ IF pending # {} \/ ready = "open" \/ cause # "quit"
     THEN RejectAll(Verdict)
     ELSE UNCHANGED <<promises, call, pending>>
  /\ UNCHANGED <<childVars, toParent, connected, unsent, nextId, closed>>

\* The session is closed by its owner (adapter close(), probe()'s finally).
Close ==
  /\ ~closed /\ closed' = TRUE
  /\ Terminate
  /\ UNCHANGED <<childVars, toParent, events, promises, pending, unsent, nextId,
                 call>>

-----------------------------------------------------------------------------
Child ==
  \/ ChildReady \/ ChildFatal \/ SpawnFails \/ ChildTakes \/ ChildForges \/ ChildDisconnects
  \/ \E ok \in BOOLEAN : ChildResponds(ok)
  \/ \E why \in {"limit", "crash", "quit"} : ChildDies(why)

Host ==
  \/ \E c \in Calls : CallRpc(c) \/ SendRpc(c) \/ SendFails(c) \/ RpcTimesOut(c)
  \/ InitializeFails \/ ReadyTimesOut \/ OnMessage \/ OnDisconnect \/ GraceExpires \/ OnError \/ OnExit \/ Close

Next == Child \/ SigkillLands \/ Host

Spec == Init /\ [][Next]_vars

(***************************************************************************)
(* The event loop keeps turning and armed timers fire; the operating       *)
(* system delivers a SIGKILL and reports an exit.  Nothing is assumed of   *)
(* the child: it may hang for ever in synchronous code.                    *)
(***************************************************************************)
Fairness ==
  /\ WF_vars(OnMessage) /\ WF_vars(OnDisconnect) /\ WF_vars(OnError) /\ WF_vars(OnExit)
  /\ WF_vars(ReadyTimesOut) /\ WF_vars(SigkillLands)
  /\ \A c \in Calls : WF_vars(SendRpc(c)) /\ WF_vars(RpcTimesOut(c))

FairSpec == Spec /\ Fairness

-----------------------------------------------------------------------------
(* Properties.                                                             *)

\* The map of pending requests and the promises handed out agree: an id is in
\* the map exactly while one call waits for its answer, and no id is shared.
PendingMatchesCalls ==
  /\ \A c \in Calls : call[c].status = "pending" => call[c].id \in pending
  /\ \A id \in pending : \E c \in Calls : call[c].status = "pending" /\ call[c].id = id
  /\ \A c, d \in Calls : c # d /\ call[c].id # 0 => call[c].id # call[d].id

\* Once the parent has had the child's exit, nothing is left to wait for: the
\* ready promise is settled and no request is pending, although rpc() may be
\* called, and its continuation may run, before and after the exit.
NothingLeftAfterExit ==
  exited => ready # "open" /\ pending = {}

\* A call that resolved got the value the child computed for that very call:
\* a timeout, a late answer or a forged frame never lends its answer to another.
AnswerIsOwn ==
  \A c \in Calls : call[c].status = "resolved" => call[c].id \in answered

\* Every failure that is not the engine's own (error) answer stops the engine:
\* the child has exited or its SIGKILL is on the way.
FailsClosed ==
  /\ ready = "rejected" => term # "no" \/ exited
  /\ \A c \in Calls :
       call[c].status = "rejected" /\ call[c].why # "engine" => term # "no" \/ exited

\* terminate() resolves only when the process is gone.
TerminateReaps == term = "done" => exited /\ proc = "dead"

\* What the safety properties rest on: the ids handed out lie below the counter,
\* a success on its way to the parent was computed by the child, and the parent
\* learns of an exit only when the child is gone.
Bookkeeping ==
  /\ \A c \in Calls : call[c].id < nextId
  /\ \A c \in Calls : call[c].status = "pending" => call[c].id # 0
  /\ \A i \in 1 .. Len(toParent) :
       toParent[i].type = "response" /\ toParent[i].ok => toParent[i].id \in answered
  /\ exited => proc = "dead"

IInv ==
  /\ TypeOK
  /\ Bookkeeping
  /\ PendingMatchesCalls
  /\ NothingLeftAfterExit
  /\ AnswerIsOwn
  /\ FailsClosed
  /\ TerminateReaps

\* Every rpc() settles, whatever the child does.
EveryCallSettles ==
  \A c \in Calls :
    call[c].status \in {"waiting", "pending"} ~> call[c].status \in {"resolved", "rejected"}

\* A termination, once begun, ends with the child reaped, if there was a child.
TerminationCompletes == term # "no" ~> exited \/ proc = "unborn"

=============================================================================
