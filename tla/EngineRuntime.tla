------------------------------ MODULE EngineRuntime ------------------------------
(***************************************************************************)
(* The child side of an engine subprocess, worker-engine-runtime.mjs: it   *)
(* verifies the release it was told to run, imports it, makes a session    *)
(* and answers one request at a time, letting nothing of the engine's      *)
(* across the channel but small exact records.                             *)
(*                                                                         *)
(* A JavaScript value is a record: [is |-> "null"], [is |-> "text",        *)
(* v |-> ...], or [is |-> "object"] with its own properties, the names of  *)
(* those that are accessors, and whether its prototype is Object's or      *)
(* none.  What the engine's own code does is a choice among such values.   *)
(***************************************************************************)
EXTENDS Naturals, Sequences, Functions

CONSTANTS
  Files, Entry, \* the files of a release and the one that is imported
  Bytes,        \* what a file may hold
  Exports,      \* what the module with those bytes exports
  Sessions,     \* what createSession may come to
  Returned,     \* what selectAction may come to
  MaxId         \* bound on the requests of a child

ASSUME ReleaseAssumption == Entry \in Files /\ Exports \in [Bytes -> Range(Exports)]
ASSUME IdAssumption == MaxId \in Nat

VARIABLES
  disk,      \* the engine's directory: [manifest, files], the manifest naming bytes for some files
  childStage, \* "none", "loading", "checked", "imported", "idle", "busy", "broken" or "dead"
  mode,      \* "probe" or "session"
  policy,    \* <<>>, or <<the verified manifest>>
  imported,  \* the bytes the child imported
  late,      \* history: files that changed between the child's check and its import
  identity,  \* the normalised descriptor
  serving,   \* the request under way, [id, method] or <<>>
  pipe,      \* requests sent and not yet taken
  frames,    \* what the child has sent and the parent has not had
  answered,  \* history: ids it computed a value for
  ended      \* what ended it

runtimeVars == <<disk, childStage, mode, policy, imported, late, identity, serving, pipe, frames, answered, ended>>

(* ---- Values ------------------------------------------------------------- *)

Null == [is |-> "null"]
Undefined == [is |-> "undefined"]
Failure == [is |-> "failure"]         \* a TypeError of the runtime, or of the engine
Method == [is |-> "function"]
Text(v) == [is |-> "text", v |-> v]
Number(v) == [is |-> "number", v |-> v] \* v among "integer", "fraction", "negative", "infinite"
Flag == [is |-> "boolean"]
Object(own) == [is |-> "object", own |-> own, accessors |-> {}, plain |-> TRUE]

\* A value, and an object's properties to the depth that the runtime looks at.
IsValue(value) ==
  value.is = "object" =>
    /\ value = Object(value.own) \/ ~value.plain \/ value.accessors # {}
    /\ value.own = [key \in DOMAIN value.own |-> value.own[key]]
Properties(value) == IF value.is = "object" THEN Range(value.own) ELSE {}
Parts(value) ==
  LET second == UNION {Properties(part) : part \in Properties(value)}
  IN {value} \cup Properties(value) \cup second \cup UNION {Properties(part) : part \in second}

ASSUME ReturnedAssumption == \A value \in Returned : \A part \in Parts(value) : IsValue(part)

Nullish(value) == value \in {Null, Undefined}
FieldOf(value, key) == IF key \in DOMAIN value.own THEN value.own[key] ELSE Undefined

\* The object itself, if it is plain data with no other keys than those allowed.
OwnDataRecord(value, allowed, required) ==
  IF /\ value.is = "object"
     /\ value.plain /\ value.accessors = {}
     /\ DOMAIN value.own \subseteq allowed
     /\ required \subseteq DOMAIN value.own
  THEN value ELSE Failure

\* The selected keys of a plain object, whatever else it has.
SelectedOwnDataRecord(value, selected, required) ==
  IF /\ value.is = "object"
     /\ value.plain /\ value.accessors \cap selected = {}
     /\ required \subseteq DOMAIN value.own
  THEN Object(Restrict(value.own, DOMAIN value.own \cap selected)) ELSE Failure

BoundedDescriptorString(value) == IF value.is = "text" /\ value.v \notin {"", "control", "long"} THEN value ELSE Failure
Optional(value) == IF Nullish(value) THEN Null ELSE BoundedDescriptorString(value)

(* ---- Descriptors and sessions ------------------------------------------- *)

TrustKeys == {"baselineId", "manifestSha256"}  \* two of the eight keys

NormalizeTrustRoot(value) ==
  LET raw == OwnDataRecord(value, TrustKeys, TrustKeys)
  IN IF Nullish(value) THEN Null
     ELSE IF raw # Failure /\ \A key \in TrustKeys : BoundedDescriptorString(raw.own[key]) # Failure
     THEN raw ELSE Failure

NormalizeCapabilities(value) ==
  LET raw == SelectedOwnDataRecord(value, {"nodeBudget", "deadline", "deterministicClock"}, {})
  IN IF Nullish(value) THEN Object([none \in {} |-> Null])
     ELSE IF raw # Failure /\ \A key \in DOMAIN raw.own : raw.own[key] = Flag THEN raw ELSE Failure

\* What crosses the channel of a descriptor: never its functions.
NormalizeDescriptor(value) ==
  LET raw == SelectedOwnDataRecord(value,
               {"id", "version", "sourceCommit", "baselineTrustRoot", "capabilities", "createSession"},
               {"id", "version", "createSession"})
      fields == [id |-> BoundedDescriptorString(raw.own["id"]),
                 version |-> BoundedDescriptorString(raw.own["version"]),
                 sourceCommit |-> Optional(FieldOf(raw, "sourceCommit")),
                 baselineTrustRoot |-> NormalizeTrustRoot(FieldOf(raw, "baselineTrustRoot")),
                 capabilities |-> NormalizeCapabilities(FieldOf(raw, "capabilities"))]
  IN IF raw = Failure THEN Failure
     ELSE IF raw.own["createSession"] # Method \/ Failure \in Range(fields) THEN Failure
     ELSE fields

NormalizeSession(value) ==
  IF /\ value.is = "object" /\ value.plain
     /\ \A name \in {"selectAction", "observe", "close"} :
          name \notin value.accessors /\ FieldOf(value, name) = Method
  THEN value ELSE Failure

(* ---- Decisions ---------------------------------------------------------- *)

NormalizeCoordinate(value) ==
  LET raw == OwnDataRecord(value, {"r", "c"}, {"r", "c"})
  IN IF raw # Failure /\ raw.own["r"] = Number("integer") /\ raw.own["c"] = Number("integer") THEN raw ELSE Failure

NormalizeActionByKind(value) ==
  LET initial == OwnDataRecord(value, {"kind", "to", "wall"}, {})
      kind == IF initial = Failure THEN Undefined ELSE FieldOf(initial, "kind")
  IN IF value = Null THEN Null
     ELSE IF kind = Text("pawn") /\ NormalizeCoordinate(FieldOf(value, "to")) # Failure THEN value
     ELSE IF kind = Text("wall") /\ FieldOf(value, "wall") = Text("H-1-2") THEN value
     ELSE Failure

\* null, a pawn move with its coordinate, or a wall with its canonical name; nothing beside.
NormalizeAction(value) ==
  LET initial == OwnDataRecord(value, {"kind", "to", "wall"}, {})
      kind == IF initial = Failure THEN Undefined ELSE FieldOf(initial, "kind")
  IN IF value = Null THEN Null
     ELSE IF /\ kind = Text("pawn")
             /\ OwnDataRecord(value, {"kind", "to"}, {"kind", "to"}) # Failure
             /\ NormalizeCoordinate(value.own["to"]) # Failure
     THEN value
     ELSE IF /\ kind = Text("wall")
             /\ OwnDataRecord(value, {"kind", "wall"}, {"kind", "wall"}) # Failure
             /\ value.own["wall"] = Text("H-1-2")
     THEN value
     ELSE Failure

\* Four fields of the engine's own statistics; null ones are dropped.
NormalizeStats(value) ==
  LET raw == SelectedOwnDataRecord(value, {"elapsedMs", "nodes", "depth", "antiStallReplaced"}, {})
      given == {key \in DOMAIN raw.own : ~Nullish(raw.own[key])}
      fits(key) == IF key = "antiStallReplaced" THEN raw.own[key] = Flag
                   ELSE raw.own[key] \in {Number("integer")} \cup IF key = "nodes" THEN {} ELSE {Number("fraction")}
  IN IF Nullish(value) THEN Object([none \in {} |-> Null])
     ELSE IF raw # Failure /\ \A key \in given : fits(key)
     THEN Object(Restrict(raw.own, given)) ELSE Failure

NormalizeDecision(value) ==
  LET inspected == OwnDataRecord(value, {"action", "stats", "kind", "to", "wall"}, {})
      envelope == OwnDataRecord(value, {"action", "stats"}, {"action"})
      action == NormalizeAction(envelope.own["action"])
      stats == NormalizeStats(FieldOf(envelope, "stats"))
  IN IF value = Null THEN Null
     ELSE IF inspected = Failure THEN Failure
     ELSE IF "action" \notin DOMAIN inspected.own THEN NormalizeAction(value)
     ELSE IF envelope = Failure THEN Failure
     ELSE IF Failure \in {action, stats} THEN Failure
     ELSE Object([action |-> action, stats |-> stats])

(* ---- The process -------------------------------------------------------- *)

Absent == [bytes |-> "none", link |-> FALSE]
NoChild == childStage \in {"none", "dead"}

RuntimeInit ==
  /\ childStage = "none" /\ mode = "probe" /\ policy = <<>>
  /\ imported = [f \in Files |-> "none"] /\ late = {} /\ identity = Failure
  /\ serving = <<>> /\ pipe = <<>> /\ frames = <<>> /\ answered = {} /\ ended = "none"

\* A process and a channel of its own.
NewChild(next, m, verified) ==
  /\ childStage' = next /\ mode' = m /\ policy' = verified
  /\ imported' = [f \in Files |-> "none"] /\ late' = {} /\ identity' = Failure
  /\ serving' = <<>> /\ pipe' = <<>> /\ frames' = <<>> /\ answered' = {} /\ ended' = "none"
  /\ UNCHANGED disk

\* fork, and the one initialize message.
StartChild(m, verified) == NoChild /\ NewChild("loading", m, verified)

RuntimeFrame(type, id, ok, value, raw) == [type |-> type, id |-> id, ok |-> ok, value |-> value, raw |-> raw]

Send(frame, next) ==
  /\ frames' = Append(frames, frame)
  /\ childStage' = next
  /\ UNCHANGED ended

\* sendFailure: an error whose text does not fit a frame ends the process instead.
Overflows == childStage' = "dead" /\ ended' = "crash" /\ UNCHANGED frames
SendFatal == Send(RuntimeFrame("fatal", 0, FALSE, Null, Null), "broken") \/ Overflows

RuntimePolicyHoldsForManifest(verified) == disk.manifest = verified

\* verifyRuntimeArtifactPolicy; it reads through links.
RuntimePolicyHolds(verified) ==
  /\ disk.manifest = verified
  /\ \A f \in DOMAIN verified : disk.files[f].bytes = verified[f]

VerifyAndLockDown ==
  /\ childStage = "loading"
  /\ IF \A verified \in Range(policy) : RuntimePolicyHolds(verified)
     THEN childStage' = "checked" /\ UNCHANGED <<frames, ended>>
     ELSE SendFatal
  /\ UNCHANGED <<disk, mode, policy, imported, late, identity, serving, pipe, answered>>

\* The resolve hook: under a policy, only files of the manifest may be imported.
ListedForImport(f) == \A verified \in Range(policy) : f \in DOMAIN verified

\* Whether everything the engine's code did while it was loaded was allowed: it may
\* reach for other files, for write access, for the network, or simply throw.
Grants == BOOLEAN

\* loadDescriptor: the entry imports the other files.  The import may fail, ask for
\* what the lockdown denies, or, under a policy, for a file the manifest does not list.
LoadDescriptor(granted) ==
  LET descriptor == NormalizeDescriptor(Exports[disk.files[Entry].bytes])
  IN /\ childStage = "checked"
     /\ IF /\ granted /\ descriptor # Failure
           /\ \A f \in Files : disk.files[f] # Absent /\ ListedForImport(f)
        THEN /\ imported' = [f \in Files |-> disk.files[f].bytes]
             /\ identity' = descriptor
             /\ IF mode = "probe"
                THEN Send(RuntimeFrame("ready", 0, TRUE, descriptor, Null), "idle")
                ELSE childStage' = "imported" /\ UNCHANGED <<frames, ended>>
        ELSE SendFatal /\ UNCHANGED <<imported, identity>>
     /\ UNCHANGED <<disk, mode, policy, late, serving, pipe, answered>>

CreateSession(made) ==
  /\ childStage = "imported"
  /\ IF NormalizeSession(made) # Failure
     THEN Send(RuntimeFrame("ready", 0, TRUE, identity, Null), "idle")
     ELSE SendFatal
  /\ UNCHANGED <<disk, mode, policy, imported, late, identity, serving, pipe, answered>>

\* Mutant: a request is taken up as soon as it arrives.
TakeRequestAtOnce ==
  /\ childStage \in {"idle", "busy"} /\ pipe # <<>>
  /\ childStage' = "busy"
  /\ serving' = Head(pipe) /\ pipe' = Tail(pipe)
  /\ UNCHANGED <<disk, mode, policy, imported, late, identity, frames, answered, ended>>

\* operationQueue: the next message once the one before is dealt with.
TakeRequest ==
  /\ childStage = "idle" /\ pipe # <<>>
  /\ childStage' = "busy"
  /\ serving' = Head(pipe) /\ pipe' = Tail(pipe)
  /\ UNCHANGED <<disk, mode, policy, imported, late, identity, frames, answered, ended>>

\* What an observer returns is dropped.
RpcResult(method, value) ==
  IF value = Failure THEN Failure
  ELSE IF method = "observe" THEN Null
  ELSE NormalizeDecision(value)

AnswerRequest(value) ==
  LET id == serving.id
      result == RpcResult(serving.method, value)
  IN /\ childStage = "busy"
     /\ serving' = <<>>
     /\ IF result # Failure
        THEN Send(RuntimeFrame("response", id, TRUE, result, value), "idle") /\ answered' = answered \cup {id}
        ELSE /\ Send(RuntimeFrame("response", id, FALSE, Null, value), "idle") \/ Overflows
             /\ UNCHANGED answered
     /\ UNCHANGED <<disk, mode, policy, imported, late, identity, pipe>>

Ends(why) ==
  /\ ~NoChild
  /\ childStage' = "dead" /\ ended' = why /\ serving' = <<>>
  /\ UNCHANGED <<disk, mode, policy, imported, late, identity, pipe, frames, answered>>

\* The engine exhausts its memory or crashes; or the parent is gone ('disconnect').
Dies == Ends("crash") \/ Ends("quit")

ChildNext ==
  \/ VerifyAndLockDown
  \/ \E granted \in Grants : LoadDescriptor(granted)
  \/ \E made \in Sessions : CreateSession(made)
  \/ TakeRequest
  \/ \E value \in Returned : AnswerRequest(value)
  \/ Dies
==================================================================================
