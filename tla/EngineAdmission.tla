---------------------------- MODULE EngineAdmission ----------------------------
(***************************************************************************)
(* Which code an engine session runs: createWorkerEngineAdapter and the    *)
(* recycled wrapper's admission in worker-engine-proxy.mjs, over the       *)
(* manifests of candidate-artifact-manifest.mjs and the child of           *)
(* EngineRuntime, while the files on the disk may change at any moment.    *)
(*                                                                         *)
(* An adapter is a frozen object anyone may copy field by field; what      *)
(* makes it genuine is the module's private WeakMaps.  Here an adapter is  *)
(* its public fields, the release its createSession closed over, and what  *)
(* the WeakMaps hold for it, which a copy does not get.  One session's     *)
(* calls and their failures are SubprocessHost's subject.                  *)
(***************************************************************************)
EXTENDS EngineRuntime, FiniteSets

CONSTANTS
  CandidateId,   \* NORMAL_DUEL_WASM_CANDIDATE_ID
  Template,      \* the bytes of the checked-in candidate adapter
  PinnedIdentity,\* the descriptor the pinned Hard baseline must have
  Disks,         \* the directories a run may start from
  Changes,       \* what one change may leave behind: a file [bytes, link]
  MaxChanges, MaxAdapters

ASSUME AdmissionAssumption == MaxChanges \in Nat /\ MaxAdapters \in Nat

\* A directory has a manifest, which names bytes for some of the files, and the files.
IsDirectory(d) ==
  /\ DOMAIN d = {"manifest", "files"}
  /\ DOMAIN d.manifest \subseteq Files /\ DOMAIN d.files = Files

ASSUME DisksAssumption == \A d \in Disks : IsDirectory(d)

VARIABLES
  adapters,  \* the adapters made so far
  current,   \* <<>>, or <<the child's purpose>>: [adapter, state, got]
  killing,   \* terminate() was called and the SIGKILL has not landed
  nextCall,  \* nextRequestId
  changed    \* number of changes of the disk

admissionVars == <<adapters, current, killing, nextCall, changed>>
engineVars == <<runtimeVars, admissionVars>>

(* ---- candidate-artifact-manifest.mjs ------------------------------------ *)

\* Each listed file is a regular file with the listed bytes, and nothing else is there.
FilesMatch(manifest) ==
  /\ \A f \in DOMAIN manifest : ~disk.files[f].link /\ disk.files[f].bytes = manifest[f]
  /\ \A f \in Files \ DOMAIN manifest : disk.files[f] = Absent

VerifyCandidateArtifactManifest(binding) == disk.manifest = binding /\ FilesMatch(binding)

LoadCandidateArtifactManifest == Entry \in DOMAIN disk.manifest /\ FilesMatch(disk.manifest)

(* ---- createWorkerEngineAdapter ------------------------------------------ *)

Purpose(adapter) == <<[adapter |-> adapter, state |-> "waiting", got |-> Failure]>>

PerGame == "per_game"
PerDecision == "per_decision"

\* `kind` says which of the three ways of making an adapter this is.
NewAdapter(kind) ==
  LET bound == IF kind = "manifest" THEN <<disk.manifest>> ELSE <<>>
  IN [id |-> Null, identity |-> Failure, runs |-> bound, label |-> PerGame, wraps |-> 0, copied |-> FALSE,
      private |-> <<[authenticated |-> bound, lifecycle |-> PerGame]>>, pinned |-> kind = "pinned"]

\* The manifest is loaded and verified, and a child is started to probe the engine.
CreateWorkerEngineAdapter(kind) ==
  /\ current = <<>> /\ Cardinality(adapters) < MaxAdapters
  /\ kind = "manifest" => LoadCandidateArtifactManifest
  /\ StartChild("probe", NewAdapter(kind).runs)
  /\ current' = Purpose(NewAdapter(kind))
  /\ killing' = FALSE /\ nextCall' = 1
  /\ UNCHANGED <<adapters, changed>>

\* createSession: the release is verified again, then a child is started.
CreateEngineSession(a) ==
  /\ current = <<>>
  /\ \A manifest \in Range(a.runs) : VerifyCandidateArtifactManifest(manifest)
  /\ StartChild("session", a.runs)
  /\ current' = Purpose(a)
  /\ killing' = FALSE /\ nextCall' = 1
  /\ UNCHANGED <<adapters, changed>>

HasReady == current # <<>> /\ frames # <<>> /\ current[1].state = "waiting" /\ frames[1].type = "ready"

Becomes(state, got, kill) ==
  /\ current' = <<[current[1] EXCEPT !.state = state, !.got = got]>>
  /\ killing' = (killing \/ kill)

\* The probe has its descriptor and its child is terminated.
ProbeAnswers ==
  /\ HasReady /\ mode = "probe"
  /\ Becomes("probed", frames[1].value, TRUE)
  /\ frames' = Tail(frames)
  /\ UNCHANGED <<disk, childStage, mode, policy, imported, late, identity, serving, pipe, answered, ended>>
  /\ UNCHANGED <<adapters, nextCall, changed>>

\* What makes two descriptors those of one engine; its capabilities are not among it.
IdentityFields == {"id", "version", "sourceCommit", "baselineTrustRoot"}
SameIdentity(actual, expected) == \A field \in IdentityFields : actual[field] = expected[field]

\* sessionReady: the child must tell the identity the probe was told.
SessionOpens ==
  /\ HasReady /\ mode = "session"
  /\ IF SameIdentity(frames[1].value, current[1].adapter.identity)
     THEN Becomes("open", frames[1].value, FALSE)
     ELSE Becomes("failed", Failure, TRUE)
  /\ frames' = Tail(frames)
  /\ UNCHANGED <<disk, childStage, mode, policy, imported, late, identity, serving, pipe, answered, ended>>
  /\ UNCHANGED <<adapters, nextCall, changed>>

\* rpc(): a request to the child of an open session.
CallEngine(method) ==
  /\ current # <<>> /\ current[1].state = "open" /\ ~NoChild /\ nextCall <= MaxId
  /\ pipe' = Append(pipe, [id |-> nextCall, method |-> method])
  /\ nextCall' = nextCall + 1
  /\ UNCHANGED <<disk, childStage, mode, policy, imported, late, identity, serving, frames, answered, ended>>
  /\ UNCHANGED <<adapters, current, killing, changed>>

ReceiveResponse ==
  /\ current # <<>> /\ frames # <<>> /\ current[1].state = "open"
  /\ frames' = Tail(frames)
  /\ UNCHANGED <<disk, childStage, mode, policy, imported, late, identity, serving, pipe, answered, ended>>
  /\ UNCHANGED admissionVars

\* A timer, a "fatal" frame or close(): the child is killed.
Terminates ==
  /\ current # <<>> /\ ~killing /\ current[1].state # "probed"
  /\ Becomes("failed", Failure, TRUE)
  /\ UNCHANGED <<runtimeVars, adapters, nextCall, changed>>

SigkillLands ==
  /\ killing /\ ~NoChild
  /\ childStage' = "dead" /\ ended' = "host" /\ serving' = <<>>
  /\ UNCHANGED <<disk, mode, policy, imported, late, identity, pipe, frames, answered, admissionVars>>

\* The child is reaped and its channel is gone.  A probe that answered makes the adapter, unless it had to
\* be the pinned baseline and is not.
Reaped ==
  /\ current # <<>> /\ NoChild
  /\ current[1].state = "waiting" => ended # "none"
  /\ current' = <<>> /\ killing' = FALSE /\ nextCall' = 1
  /\ LET got == current[1].got
         made == [current[1].adapter EXCEPT !.id = got.id, !.identity = got]
     IN adapters' = IF /\ current[1].state = "probed"
                       /\ made.pinned => SameIdentity(got, PinnedIdentity)
                    THEN adapters \cup {made} ELSE adapters
  /\ NewChild("none", "probe", <<>>) /\ UNCHANGED changed

(* ---- createRecycledNormalDuelWasmCandidateAdapter ----------------------- *)

\* Mutant: admission believes the provenance a public copy carries along.
AdmittedByPublicFields(base) ==
  /\ base.label = PerGame
  /\ base.id = Text(CandidateId)
  /\ Entry \in DOMAIN disk.manifest /\ disk.manifest[Entry] = Template
  /\ VerifyCandidateArtifactManifest(disk.manifest)

\* admittedNormalDuelWasmCandidate: the private bindings decide.
AdmittedNormalDuelWasmCandidate(base) ==
  /\ \E own \in Range(base.private) :
       /\ own.lifecycle = PerGame
       /\ \E manifest \in Range(own.authenticated) :
            VerifyCandidateArtifactManifest(manifest) /\ manifest[Entry] = Template
  /\ base.label = PerGame
  /\ base.id = Text(CandidateId)
  /\ {"nodeBudget", "deadline"} \subseteq DOMAIN base.identity.capabilities.own

CreateRecycledAdapter(base) ==
  /\ current = <<>> /\ Cardinality(adapters) < MaxAdapters
  /\ AdmittedNormalDuelWasmCandidate(base)
  /\ adapters' = adapters \cup
       {[base EXCEPT !.label = PerDecision, !.wraps = base.wraps + 1, !.pinned = FALSE,
                     !.private = [i \in DOMAIN base.private |-> [base.private[i] EXCEPT !.lifecycle = PerDecision]]]}
  /\ UNCHANGED <<runtimeVars, current, killing, nextCall, changed>>

\* Someone spreads an adapter, { ...a, id, capabilities }: all that is public, nothing private.
\* The copy calls itself what admission asks for.
CopyAdapter(a) ==
  /\ current = <<>> /\ Cardinality(adapters) < MaxAdapters
  /\ adapters' = adapters \cup
       {[a EXCEPT !.id = Text(CandidateId), !.label = PerGame, !.private = <<>>, !.pinned = FALSE, !.copied = TRUE]}
  /\ UNCHANGED <<runtimeVars, current, killing, nextCall, changed>>

\* A file of the directory is replaced, removed or turned into a link, or a manifest rewritten.
\* A change while a child that has imported its files lives on is as good as one after it.
MayChange == changed < MaxChanges /\ childStage \in {"none", "loading", "checked"}

ChangeFile(f, file) ==
  /\ MayChange
  /\ disk.files[f] # file
  /\ disk' = [disk EXCEPT !.files[f] = file]
  /\ changed' = changed + 1
  /\ late' = IF childStage = "checked" THEN late \cup {f} ELSE late
  /\ UNCHANGED <<childStage, mode, policy, imported, identity, serving, pipe, frames, answered, ended>>
  /\ UNCHANGED <<adapters, current, killing, nextCall>>

ChangeManifest(manifest) ==
  /\ MayChange
  /\ disk.manifest # manifest
  /\ disk' = [disk EXCEPT !.manifest = manifest]
  /\ changed' = changed + 1
  /\ UNCHANGED <<childStage, mode, policy, imported, late, identity, serving, pipe, frames, answered, ended>>
  /\ UNCHANGED <<adapters, current, killing, nextCall>>

(* ---- Specification ------------------------------------------------------ *)

EngineInit ==
  /\ RuntimeInit /\ disk \in Disks
  /\ adapters = {} /\ current = <<>> /\ killing = FALSE /\ nextCall = 1 /\ changed = 0

EngineNext ==
  \/ ChildNext /\ UNCHANGED admissionVars
  \/ \E kind \in {"module", "manifest", "pinned"} : CreateWorkerEngineAdapter(kind)
  \/ \E a \in adapters : CreateEngineSession(a) \/ CreateRecycledAdapter(a) \/ CopyAdapter(a)
  \/ \E method \in {"selectAction", "observe"} : CallEngine(method)
  \/ ProbeAnswers \/ SessionOpens \/ ReceiveResponse \/ Terminates \/ SigkillLands \/ Reaped
  \/ \E f \in Files, file \in Changes : ChangeFile(f, file)
  \/ \E start \in Disks : ChangeManifest(start.manifest)

EngineSpec == EngineInit /\ [][EngineNext]_engineVars

(* ---- Properties --------------------------------------------------------- *)

SessionOpen == current # <<>> /\ current[1].state = "open"

\* Whatever happens to the files between the making of an adapter, the start of a
\* session and its child's import, an open session has the id, version, source commit
\* and trust root its adapter was given (not its capabilities), and runs the very bytes the adapter's release lists; only a file replaced
\* between the child's own check and its import escapes.
SessionsRunTheRelease ==
  SessionOpen =>
    LET a == current[1].adapter
    IN /\ SameIdentity(current[1].got, a.identity)
       /\ \A manifest \in Range(a.runs) :
            \A f \in Files \ late : f \in DOMAIN manifest /\ imported[f] = manifest[f]

\* A recycled adapter starts sessions of a release whose entry is the checked-in
\* adapter, wraps nothing that wraps already, and no copy of an adapter, whatever it
\* calls itself, is ever wrapped.
OnlyTheOfficialIsWrapped ==
  \A a \in adapters :
    a.label = PerDecision =>
      /\ a.wraps = 1 /\ ~a.copied
      /\ \E manifest \in Range(a.runs) : manifest[Entry] = Template

ExactPawn(v) == DOMAIN v.own = {"kind", "to"} /\ v.own["kind"] = Text("pawn")
                /\ v.own["to"] = Object([r |-> Number("integer"), c |-> Number("integer")])
ExactWall(v) == v.own = [kind |-> Text("wall"), wall |-> Text("H-1-2")]
ExactAction(v) == v = Null \/ (v.is = "object" /\ (ExactPawn(v) \/ ExactWall(v)))

\* Nothing of an engine's answer crosses the channel but the action it returned, if
\* that has exactly the fields of its kind, bare or in an envelope with four of the
\* engine's statistics.
AnswersAreExact ==
  \A i \in 1 .. Len(frames) :
    LET v == frames[i].value
        raw == frames[i].raw
    IN frames[i].type = "response" /\ frames[i].ok =>
         \/ ExactAction(v) /\ v \in {Null, raw}
         \/ /\ DOMAIN v.own = {"action", "stats"}
            /\ ExactAction(v.own["action"]) /\ v.own["action"] = raw.own["action"]
            /\ DOMAIN v.own["stats"].own \subseteq {"elapsedMs", "nodes", "depth", "antiStallReplaced"}

\* The child as its parent's model describes it.
Stages == [none |-> "dead", dead |-> "dead", loading |-> "loading", checked |-> "loading",
           imported |-> "loading", idle |-> "idle", busy |-> "busy", broken |-> "broken"]
AsFrame(frame) == [type |-> frame.type, id |-> frame.id, ok |-> frame.type = "response" => frame.ok]

Host == INSTANCE SubprocessHost WITH
  Calls <- {}, MaxForged <- 0, SpawnMayFail <- FALSE,
  proc <- Stages[childStage], serving <- IF serving = <<>> THEN 0 ELSE serving.id, cause <- ended,
  toChild <- [i \in 1 .. Len(pipe) |-> pipe[i].id],
  toParent <- [i \in 1 .. Len(frames) |-> AsFrame(frames[i])],
  forged <- 0, connected <- TRUE, grace <- FALSE, exited <- FALSE, ready <- "open", readyWhy <- "none",
  pending <- {}, unsent <- {}, nextId <- 1, call <- [c \in {} |-> 0],
  term <- IF killing THEN "waiting" ELSE "no", closed <- FALSE

\* What the parent does to the two ends of the channel.
Forks == NoChild /\ Host!Init'
Discards == NoChild /\ NoChild'
Sends == Len(pipe') = Len(pipe) + 1 /\ UNCHANGED <<childStage, serving, ended, frames, answered>>
Takes == frames # <<>> /\ frames' = Tail(frames) /\ UNCHANGED <<childStage, serving, ended, pipe, answered>>

\* Every step of the child is one the parent's model lets a child take: one "ready" or
\* "fatal", then one response per request, in order, one request at a time.
ChildIsTheHostsChild ==
  [][Host!Child \/ Host!SigkillLands \/ Forks \/ Discards \/ Sends \/ Takes]_<<Stages[childStage], serving, pipe, frames, answered, ended>>
=================================================================================
