------------------------- MODULE EngineAdmission_proofs -------------------------
(***************************************************************************)
(* Proofs about the admission of engines and the child that runs them, for *)
(* any files, releases, exports, answers and bounds: no adapter but the    *)
(* official one is ever wrapped, an open session runs the bytes its        *)
(* adapter's release lists, nothing but exact answers crosses the channel, *)
(* and every step of the child is one that the model of its parent,        *)
(* SubprocessHost, lets a child take.                                      *)
(***************************************************************************)
EXTENDS EngineAdmission, TLAPS

-----------------------------------------------------------------------------
(* Adapters.                                                               *)

\* What an adapter claims in public agrees with what is held of it in private, if
\* anything is: a genuine adapter that is not wrapped wraps nothing, and only a wrapped
\* one calls itself one.
Genuine(a) ==
  /\ DOMAIN a = {"id", "identity", "runs", "label", "wraps", "copied", "private", "pinned"}
  /\ a.label \in {PerGame, PerDecision}
  /\ a.private = <<>> \/ a.private = <<[authenticated |-> a.runs, lifecycle |-> a.label]>>
  /\ a.label = PerGame /\ a.private # <<>> => a.wraps = 0
  /\ a.copied => a.private = <<>>
  /\ a.label = PerDecision => a.wraps = 1 /\ ~a.copied /\ \E manifest \in Range(a.runs) : manifest[Entry] = Template

\* A child's purpose is one record, or there is none.
PurposeOK ==
  current # <<>> => current = <<current[1]>> /\ DOMAIN current[1] = {"adapter", "state", "got"}

AdaptersInv ==
  /\ \A a \in adapters : Genuine(a)
  /\ PurposeOK
  /\ current # <<>> => Genuine(current[1].adapter)

\* A sequence of one is not empty.
LEMMA OnePurpose ==
  ASSUME NEW x
  PROVE  <<x>> # <<>> /\ <<x>>[1] = x
OBVIOUS

\* Only the state and what was got of a purpose ever change.
LEMMA BecomesKeeps ==
  ASSUME PurposeOK, current # <<>>, NEW state, NEW got, NEW kill, Becomes(state, got, kill)
  PROVE  /\ current' # <<>> /\ PurposeOK'
         /\ current'[1].adapter = current[1].adapter /\ current'[1].state = state /\ current'[1].got = got
<1> DEFINE new == [current[1] EXCEPT !.state = state, !.got = got]
<1>1. DOMAIN current[1] = {"adapter", "state", "got"}
  BY DEF PurposeOK
<1>2. DOMAIN new = {"adapter", "state", "got"} /\ new.adapter = current[1].adapter /\ new.state = state /\ new.got = got
  BY <1>1
<1>3. current' = <<new>>
  BY DEF Becomes
<1> HIDE DEF new
<1> QED BY <1>2, <1>3, OnePurpose DEF PurposeOK

\* A new adapter is genuine, by the manifest it was loaded with.
LEMMA NewIsGenuine ==
  ASSUME NEW type
  PROVE  Genuine(NewAdapter(type))
BY DEF NewAdapter, Genuine, PerGame, PerDecision

\* An adapter that is made of its probe's answer stays genuine.
LEMMA MadeIsGenuine ==
  ASSUME NEW a, Genuine(a), NEW id, NEW got
  PROVE  Genuine([a EXCEPT !.id = id, !.identity = got])
<1> DEFINE made == [a EXCEPT !.id = id, !.identity = got]
<1>1. /\ DOMAIN made = DOMAIN a /\ made.runs = a.runs /\ made.label = a.label
      /\ made.wraps = a.wraps /\ made.private = a.private /\ made.copied = a.copied
  BY DEF Genuine
<1> HIDE DEF made
<1> QED BY <1>1 DEF Genuine

\* A copy takes nothing along that is private.
LEMMA CopyIsGenuine ==
  ASSUME NEW a, Genuine(a)
  PROVE  Genuine([a EXCEPT !.id = Text(CandidateId), !.label = PerGame, !.private = <<>>, !.pinned = FALSE, !.copied = TRUE])
<1> DEFINE copy == [a EXCEPT !.id = Text(CandidateId), !.label = PerGame, !.private = <<>>, !.pinned = FALSE, !.copied = TRUE]
<1>1. DOMAIN copy = DOMAIN a /\ copy.label = PerGame /\ copy.private = <<>>
  BY DEF Genuine
<1> HIDE DEF copy
<1> QED BY <1>1 DEF Genuine, PerGame, PerDecision

\* What is wrapped is genuine, was not wrapped before, and runs the official entry.
LEMMA WrappedIsGenuine ==
  ASSUME NEW a, Genuine(a), AdmittedNormalDuelWasmCandidate(a)
  PROVE  Genuine([a EXCEPT !.label = PerDecision, !.wraps = a.wraps + 1, !.pinned = FALSE,
                    !.private = [i \in DOMAIN a.private |-> [a.private[i] EXCEPT !.lifecycle = PerDecision]]])
<1> DEFINE held == [authenticated |-> a.runs, lifecycle |-> PerGame]
           own == [held EXCEPT !.lifecycle = PerDecision]
           kept == [i \in DOMAIN a.private |-> [a.private[i] EXCEPT !.lifecycle = PerDecision]]
           wrapped == [a EXCEPT !.label = PerDecision, !.wraps = a.wraps + 1, !.pinned = FALSE, !.private = kept]
<1>1. PICK private \in Range(a.private) :
        \E manifest \in Range(private.authenticated) : manifest[Entry] = Template
  BY DEF AdmittedNormalDuelWasmCandidate
<1>2. a.private # <<>>
  BY <1>1 DEF Range
<1>3. a.label = PerGame
  BY DEF AdmittedNormalDuelWasmCandidate
<1>4. a.private = <<held>> /\ a.wraps = 0
  BY <1>2, <1>3 DEF Genuine
<1>5. private = held
  BY <1>1, <1>4 DEF Range
<1>6. \E manifest \in Range(a.runs) : manifest[Entry] = Template
  BY <1>1, <1>5
<1>7. own = [authenticated |-> a.runs, lifecycle |-> PerDecision]
  OBVIOUS
<1>8. kept = <<own>>
  <2> HIDE DEF held
  <2> QED BY <1>4
<1>9. /\ DOMAIN wrapped = DOMAIN a /\ wrapped.runs = a.runs /\ wrapped.label = PerDecision
      /\ wrapped.wraps = 1 /\ wrapped.private = kept /\ ~wrapped.copied
  BY <1>2, <1>4 DEF Genuine
<1>10. Genuine(wrapped)
  <2> HIDE DEF wrapped, kept, own
  <2> QED BY <1>6, <1>7, <1>8, <1>9 DEF Genuine, PerGame, PerDecision
<1> QED BY <1>10

\* A child that is started has the purpose it is started for.
LEMMA PurposeStarts ==
  ASSUME NEW a, Genuine(a), current' = Purpose(a)
  PROVE  PurposeOK' /\ current' # <<>> /\ current'[1].adapter = a /\ current'[1].state = "waiting"
<1> DEFINE new == [adapter |-> a, state |-> "waiting", got |-> Failure]
<1>1. current' = <<new>>
  BY DEF Purpose
<1>2. DOMAIN new = {"adapter", "state", "got"} /\ new.adapter = a /\ new.state = "waiting"
  OBVIOUS
<1> HIDE DEF new
<1> QED BY <1>1, <1>2, OnePurpose DEF PurposeOK

\* No step makes an adapter that is not genuine.
LEMMA AdaptersInductive == AdaptersInv /\ [EngineNext]_engineVars => AdaptersInv'
<1> SUFFICES ASSUME AdaptersInv, [EngineNext]_engineVars
             PROVE  AdaptersInv'
  OBVIOUS
<1> USE DEF AdaptersInv
<1>1. CASE UNCHANGED <<adapters, current>>
  BY <1>1 DEF PurposeOK
<1>2. CASE \E state, got, kill : current # <<>> /\ Becomes(state, got, kill) /\ UNCHANGED adapters
  BY <1>2, BecomesKeeps
<1>3. CASE UNCHANGED engineVars
  BY <1>1, <1>3 DEF engineVars, admissionVars
<1>4. CASE ChildNext /\ UNCHANGED admissionVars
  BY <1>1, <1>4 DEF admissionVars
<1>5. ASSUME NEW type, CreateWorkerEngineAdapter(type)
      PROVE  AdaptersInv'
  BY <1>5, NewIsGenuine, PurposeStarts DEF CreateWorkerEngineAdapter
<1>6. ASSUME NEW a \in adapters, CreateEngineSession(a)
      PROVE  AdaptersInv'
  BY <1>6, PurposeStarts DEF CreateEngineSession
<1>7. ASSUME NEW a \in adapters, CreateRecycledAdapter(a)
      PROVE  AdaptersInv'
  <2> DEFINE new == [a EXCEPT !.label = PerDecision, !.wraps = a.wraps + 1, !.pinned = FALSE,
                       !.private = [i \in DOMAIN a.private |-> [a.private[i] EXCEPT !.lifecycle = PerDecision]]]
  <2>1. Genuine(new)
    BY <1>7, WrappedIsGenuine DEF CreateRecycledAdapter
  <2>2. adapters' = adapters \cup {new} /\ UNCHANGED current
    BY <1>7 DEF CreateRecycledAdapter
  <2> HIDE DEF new
  <2> QED BY <2>1, <2>2 DEF PurposeOK
<1>8. ASSUME NEW a \in adapters, CopyAdapter(a)
      PROVE  AdaptersInv'
  <2> DEFINE new == [a EXCEPT !.id = Text(CandidateId), !.label = PerGame, !.private = <<>>, !.pinned = FALSE, !.copied = TRUE]
  <2>1. Genuine(new)
    BY CopyIsGenuine
  <2>2. adapters' = adapters \cup {new} /\ UNCHANGED current
    BY <1>8 DEF CopyAdapter
  <2> HIDE DEF new
  <2> QED BY <2>1, <2>2 DEF PurposeOK
<1>9. ASSUME NEW method, CallEngine(method)
      PROVE  AdaptersInv'
  BY <1>1, <1>9 DEF CallEngine
<1>10. CASE ProbeAnswers
  BY <1>2, <1>10 DEF ProbeAnswers, HasReady
<1>11. CASE SessionOpens
  BY <1>2, <1>11 DEF SessionOpens, HasReady
<1>12. CASE ReceiveResponse
  BY <1>1, <1>12 DEF ReceiveResponse, admissionVars
<1>13. CASE Terminates
  BY <1>2, <1>13 DEF Terminates
<1>14. CASE SigkillLands
  BY <1>1, <1>14 DEF SigkillLands, admissionVars
<1>15. CASE Reaped
  <2> DEFINE made == [current[1].adapter EXCEPT !.id = current[1].got.id, !.identity = current[1].got]
  <2>1. Genuine(made)
    BY <1>15, MadeIsGenuine DEF Reaped
  <2>2. adapters' \subseteq adapters \cup {made} /\ current' = <<>>
    BY <1>15 DEF Reaped
  <2> HIDE DEF made
  <2> QED BY <2>1, <2>2 DEF PurposeOK
<1>16. ASSUME NEW f, NEW file, ChangeFile(f, file)
       PROVE  AdaptersInv'
  BY <1>1, <1>16 DEF ChangeFile
<1>17. ASSUME NEW manifest, ChangeManifest(manifest)
       PROVE  AdaptersInv'
  BY <1>1, <1>17 DEF ChangeManifest
<1> QED BY <1>3, <1>4, <1>5, <1>6, <1>7, <1>8, <1>9, <1>10, <1>11, <1>12, <1>13, <1>14, <1>15, <1>16, <1>17 DEF EngineNext

\* A recycled adapter wraps nothing that wraps already and starts sessions of the
\* official release (createRecycledNormalDuelWasmCandidateAdapter), whatever is copied.
THEOREM OfficialWrapped == EngineSpec => []OnlyTheOfficialIsWrapped
<1>1. EngineInit => AdaptersInv
  BY DEF EngineInit, AdaptersInv, PurposeOK
<1>2. AdaptersInv => OnlyTheOfficialIsWrapped
  BY DEF AdaptersInv, Genuine, OnlyTheOfficialIsWrapped
<1> QED BY <1>1, <1>2, AdaptersInductive, PTL DEF EngineSpec

-----------------------------------------------------------------------------
(* The channel.                                                            *)

RpcRequests == [id : Nat \ {0}, method : {"selectAction", "observe"}]

\* The child has said nothing before it is ready, and it serves a request exactly while it is busy.
ChannelInv ==
  /\ childStage \in {"none", "loading", "checked", "imported", "idle", "busy", "broken", "dead"}
  /\ frames \in Seq(Range(frames))
  /\ childStage \in {"none", "loading", "checked", "imported"} => frames = <<>>
  /\ pipe \in Seq(RpcRequests) /\ nextCall \in Nat \ {0}
  /\ IF childStage = "busy" THEN serving \in RpcRequests ELSE serving = <<>>

\* A frame sent comes after those that were there.
LEMMA FrameSent ==
  ASSUME NEW s, s \in Seq(Range(s)), NEW x
  PROVE  /\ Append(s, x) \in Seq(Range(Append(s, x))) /\ Len(Append(s, x)) = Len(s) + 1
         /\ \A i \in 1 .. Len(s) : Append(s, x)[i] = s[i]
         /\ Append(s, x)[Len(s) + 1] = x
<1> DEFINE t == Append(s, x)
           R == Range(s) \cup {x}
<1>1. s \in Seq(R)
  BY SMT
<1> HIDE DEF R
<1>2. x \in R
  BY DEF R
<1>3. /\ t \in Seq(R) /\ Len(t) = Len(s) + 1 /\ t[Len(s) + 1] = x /\ DOMAIN t = 1 .. Len(t)
      /\ \A i \in 1 .. Len(s) : t[i] = s[i]
  BY <1>1, <1>2
<1>4. \A i \in 1 .. Len(t) : t[i] \in Range(t)
  BY <1>3 DEF Range
<1> HIDE DEF t
<1>5. t = [i \in 1 .. Len(t) |-> t[i]] /\ Len(t) \in Nat
  BY <1>3
<1>6. t \in Seq(Range(t))
  BY <1>4, <1>5
<1> QED BY <1>3, <1>6 DEF t

\* A frame received leaves those behind it.
LEMMA FrameReceived ==
  ASSUME NEW s, s \in Seq(Range(s)), s # <<>>
  PROVE  /\ Tail(s) \in Seq(Range(Tail(s))) /\ Len(s) >= 1 /\ Len(Tail(s)) = Len(s) - 1
         /\ \A i \in 1 .. Len(Tail(s)) : Tail(s)[i] = s[i + 1] /\ i + 1 \in 1 .. Len(s)
<1> DEFINE t == Tail(s)
           R == Range(s)
<1>1. s \in Seq(R)
  OBVIOUS
<1> HIDE DEF R
<1>3. /\ t \in Seq(R) /\ Len(s) >= 1 /\ Len(t) = Len(s) - 1 /\ DOMAIN t = 1 .. Len(t)
      /\ \A i \in 1 .. Len(t) : t[i] = s[i + 1] /\ i + 1 \in 1 .. Len(s)
  BY <1>1
<1>4. \A i \in 1 .. Len(t) : t[i] \in Range(t)
  BY <1>3 DEF Range
<1> HIDE DEF t
<1>5. t = [i \in 1 .. Len(t) |-> t[i]] /\ Len(t) \in Nat
  BY <1>3
<1>6. t \in Seq(Range(t))
  BY <1>4, <1>5
<1> QED BY <1>3, <1>6 DEF t

\* A new child has a channel with nothing in it.
LEMMA ChannelOpens ==
  ASSUME NEW m, NEW verified, NEW next, NewChild(next, m, verified), next \in {"none", "loading"}, nextCall' = 1
  PROVE  ChannelInv'
BY DEF NewChild, ChannelInv, RpcRequests

\* No step of either side loses the shape of the channel.
LEMMA ChannelInductive == ChannelInv /\ [EngineNext]_engineVars => ChannelInv'
<1> SUFFICES ASSUME ChannelInv, [EngineNext]_engineVars
             PROVE  ChannelInv'
  OBVIOUS
<1> USE DEF ChannelInv
<1>1. CASE UNCHANGED <<childStage, serving, frames, pipe, nextCall>>
  BY <1>1
<1>2. CASE UNCHANGED engineVars
  BY <1>1, <1>2 DEF engineVars, runtimeVars, admissionVars
<1>3. ASSUME NEW frame, NEW next \in {"idle", "broken"}, Send(frame, next),
             childStage \in {"loading", "checked", "imported", "busy"}, serving' = <<>>, UNCHANGED <<pipe, nextCall>>
      PROVE  ChannelInv'
  BY <1>3, FrameSent DEF Send
<1>4. ASSUME Overflows, serving' = <<>>, UNCHANGED <<pipe, nextCall>>
      PROVE  ChannelInv'
  BY <1>4 DEF Overflows
<1>5. ASSUME SendFatal, childStage \in {"loading", "checked", "imported"}, UNCHANGED <<serving, pipe, nextCall>>
      PROVE  ChannelInv'
  BY <1>3, <1>4, <1>5 DEF SendFatal
<1>6. CASE ChildNext /\ UNCHANGED admissionVars
  <2>1. nextCall' = nextCall
    BY <1>6 DEF admissionVars
  <2>2. CASE VerifyAndLockDown
    BY <1>5, <2>1, <2>2 DEF VerifyAndLockDown
  <2>3. ASSUME NEW granted, LoadDescriptor(granted)
        PROVE  ChannelInv'
    BY <1>3, <1>5, <2>1, <2>3 DEF LoadDescriptor
  <2>4. ASSUME NEW made, CreateSession(made)
        PROVE  ChannelInv'
    BY <1>3, <1>5, <2>1, <2>4 DEF CreateSession
  <2>5. CASE TakeRequest
    BY <2>1, <2>5 DEF TakeRequest
  <2>6. ASSUME NEW value, AnswerRequest(value)
        PROVE  ChannelInv'
    BY <1>3, <1>4, <2>1, <2>6 DEF AnswerRequest
  <2>7. CASE Dies
    BY <2>1, <2>7 DEF Dies, Ends
  <2> QED BY <1>6, <2>2, <2>3, <2>4, <2>5, <2>6, <2>7 DEF ChildNext
<1>7. ASSUME frames # <<>>, frames' = Tail(frames), childStage \notin {"none", "loading", "checked", "imported"},
             UNCHANGED <<childStage, serving, pipe, nextCall>>
      PROVE  ChannelInv'
  BY <1>7, FrameReceived
<1>8. ASSUME NEW type, CreateWorkerEngineAdapter(type)
      PROVE  ChannelInv'
  BY <1>8, ChannelOpens DEF CreateWorkerEngineAdapter, StartChild
<1>9. ASSUME NEW a, CreateEngineSession(a) \/ CreateRecycledAdapter(a) \/ CopyAdapter(a)
      PROVE  ChannelInv'
  BY <1>1, <1>9, ChannelOpens DEF CreateEngineSession, StartChild, CreateRecycledAdapter, CopyAdapter, runtimeVars
<1>10. ASSUME NEW method \in {"selectAction", "observe"}, CallEngine(method)
       PROVE  ChannelInv'
  <2>1. [id |-> nextCall, method |-> method] \in RpcRequests
    BY DEF RpcRequests
  <2> QED BY <1>10, <2>1 DEF CallEngine
<1>11. CASE ProbeAnswers \/ SessionOpens \/ ReceiveResponse
  BY <1>7, <1>11 DEF ProbeAnswers, SessionOpens, ReceiveResponse, HasReady, admissionVars
<1>12. CASE Terminates
  BY <1>1, <1>12 DEF Terminates, runtimeVars
<1>13. CASE SigkillLands
  BY <1>13 DEF SigkillLands, admissionVars
<1>14. CASE Reaped
  BY <1>14, ChannelOpens DEF Reaped
<1>15. ASSUME NEW f, NEW file, ChangeFile(f, file)
       PROVE  ChannelInv'
  BY <1>1, <1>15 DEF ChangeFile
<1>16. ASSUME NEW manifest, ChangeManifest(manifest)
       PROVE  ChannelInv'
  BY <1>1, <1>16 DEF ChangeManifest
<1> QED BY <1>2, <1>6, <1>8, <1>9, <1>10, <1>11, <1>12, <1>13, <1>14, <1>15, <1>16 DEF EngineNext

\* The channel has this shape from the start.
LEMMA ChannelInit == EngineInit => ChannelInv
BY DEF EngineInit, RuntimeInit, ChannelInv, RpcRequests, Range

-----------------------------------------------------------------------------
(* The release.                                                            *)

\* A child with code of its engine in it, or that told its parent so.
Running ==
  \/ childStage \in {"imported", "idle", "busy"}
  \/ \E i \in 1 .. Len(frames) : frames[i].type = "ready"
  \/ SessionOpen

RunsItsPolicy ==
  \A verified \in Range(policy) : \A f \in Files \ late : f \in DOMAIN verified /\ imported[f] = verified[f]

\* A child's policy is the release of the adapter it was started for; what it checked is
\* still on the disk unless it changed since, and what it runs is what it checked.
ReleaseInv ==
  /\ AdaptersInv /\ ChannelInv
  /\ IsDirectory(disk)
  /\ current # <<>> => policy = current[1].adapter.runs
  /\ SessionOpen => SameIdentity(current[1].got, current[1].adapter.identity)
  /\ childStage \in {"none", "loading", "checked", "imported"} => ~SessionOpen
  /\ childStage = "checked" =>
       \A verified \in Range(policy) : \A f \in (Files \cap DOMAIN verified) \ late : disk.files[f].bytes = verified[f]
  /\ Running => RunsItsPolicy

\* A file that changes leaves a directory, and the other files as they were.
LEMMA FileChanges ==
  ASSUME IsDirectory(disk), NEW f, NEW file, disk' = [disk EXCEPT !.files[f] = file]
  PROVE  IsDirectory(disk') /\ \A g \in Files \ {f} : disk'.files[g] = disk.files[g]
<1> DEFINE after == [disk.files EXCEPT ![f] = file]
<1>1. DOMAIN disk' = DOMAIN disk /\ disk'.manifest = disk.manifest /\ disk'.files = after
  BY DEF IsDirectory
<1>2. DOMAIN after = Files /\ \A g \in Files \ {f} : after[g] = disk.files[g]
  BY DEF IsDirectory
<1> HIDE DEF after
<1> QED BY <1>1, <1>2 DEF IsDirectory

\* A manifest that is rewritten leaves a directory with the same files.
LEMMA ManifestChanges ==
  ASSUME IsDirectory(disk), NEW m, DOMAIN m \subseteq Files, disk' = [disk EXCEPT !.manifest = m]
  PROVE  IsDirectory(disk') /\ disk'.files = disk.files
<1>1. DOMAIN disk' = DOMAIN disk /\ disk'.manifest = m /\ disk'.files = disk.files
  BY DEF IsDirectory
<1> QED BY <1>1 DEF IsDirectory

\* A new child runs nothing yet.
LEMMA ReleaseStarts ==
  ASSUME ReleaseInv, AdaptersInv', ChannelInv', NEW m, NEW verified, NEW next \in {"none", "loading"},
         NewChild(next, m, verified), current' # <<>> => current'[1].adapter.runs = verified /\ current'[1].state = "waiting"
  PROVE  ReleaseInv'
BY DEF NewChild, ReleaseInv, Running, SessionOpen

\* Whatever is sent, received or killed, what is running was there before.
LEMMA ReleaseKept ==
  ASSUME ReleaseInv, AdaptersInv', ChannelInv', UNCHANGED <<disk, policy, imported, late>>,
         current' # <<>> => current # <<>> /\ current'[1].adapter = current[1].adapter,
         SessionOpen' => SameIdentity(current'[1].got, current'[1].adapter.identity),
         childStage' \in {"none", "loading", "checked", "imported"} => ~SessionOpen',
         childStage' = "checked" => childStage = "checked",
         Running' => Running
  PROVE  ReleaseInv'
BY DEF ReleaseInv, RunsItsPolicy

\* A frame that is not "ready" tells nothing new, and neither does a receipt.
LEMMA ReadyKept ==
  ASSUME frames \in Seq(Range(frames))
  PROVE  /\ frames # <<>> /\ frames' = Tail(frames) /\ (\E i \in 1 .. Len(frames') : frames'[i].type = "ready") =>
              \E i \in 1 .. Len(frames) : frames[i].type = "ready"
         /\ \A frame : frames' = Append(frames, frame) /\ frame.type # "ready"
                       /\ (\E i \in 1 .. Len(frames') : frames'[i].type = "ready") =>
              \E i \in 1 .. Len(frames) : frames[i].type = "ready"
<1>1. ASSUME frames # <<>>, frames' = Tail(frames), \E i \in 1 .. Len(frames') : frames'[i].type = "ready"
      PROVE  \E i \in 1 .. Len(frames) : frames[i].type = "ready"
  BY <1>1, FrameReceived
<1>2. ASSUME NEW frame, frames' = Append(frames, frame), frame.type # "ready",
             NEW i \in 1 .. Len(frames'), frames'[i].type = "ready"
      PROVE  \E j \in 1 .. Len(frames) : frames[j].type = "ready"
  <2>1. i \in 1 .. Len(frames) \/ i = Len(frames) + 1
    BY <1>2, FrameSent
  <2> QED BY <1>2, <2>1, FrameSent
<1> QED BY <1>1, <1>2

\* The child's steps: it runs what it imported, imports what it checked, and tells its
\* parent that it is ready only then.
LEMMA ChildKeepsRelease ==
  ReleaseInv /\ AdaptersInv' /\ ChannelInv' /\ ChildNext /\ UNCHANGED admissionVars => ReleaseInv'
<1> SUFFICES ASSUME ReleaseInv, AdaptersInv', ChannelInv', ChildNext, UNCHANGED admissionVars
             PROVE  ReleaseInv'
  OBVIOUS
<1>1. UNCHANGED current /\ (SessionOpen' <=> SessionOpen)
  BY DEF admissionVars, SessionOpen
<1>2. frames \in Seq(Range(frames))
  BY DEF ReleaseInv, ChannelInv
<1>3. SessionOpen => childStage \notin {"none", "loading", "checked", "imported"} /\ SameIdentity(current[1].got, current[1].adapter.identity)
  BY DEF ReleaseInv
<1>4. ASSUME childStage' \in {"idle", "busy", "broken", "dead"}, UNCHANGED <<disk, policy, imported, late>>, Running' => Running
      PROVE  ReleaseInv'
  BY <1>1, <1>3, <1>4, ReleaseKept
<1>5. ASSUME NEW type, type # "ready", NEW id, NEW ok, NEW value, NEW raw, NEW next \in {"idle", "broken"},
             Send(RuntimeFrame(type, id, ok, value, raw), next), next = "idle" => childStage = "busy",
             UNCHANGED <<disk, policy, imported, late>>
      PROVE  ReleaseInv'
  <2> DEFINE frame == RuntimeFrame(type, id, ok, value, raw)
  <2>1. frame.type # "ready" /\ frames' = Append(frames, frame) /\ childStage' = next
    BY <1>5 DEF RuntimeFrame, Send
  <2> HIDE DEF frame
  <2>2. Running' => Running
    BY <1>1, <1>2, <1>5, <2>1, ReadyKept DEF Running
  <2> QED BY <1>4, <1>5, <2>1, <2>2
<1>6. ASSUME Overflows, UNCHANGED <<disk, policy, imported, late>>
      PROVE  ReleaseInv'
  <2>1. Running' => Running
    BY <1>1, <1>6 DEF Overflows, Running
  <2> QED BY <1>4, <1>6, <2>1 DEF Overflows
<1>7. ASSUME SendFatal, UNCHANGED <<disk, policy, imported, late>>
      PROVE  ReleaseInv'
  BY <1>5, <1>6, <1>7 DEF SendFatal
<1>8. CASE VerifyAndLockDown
  <2>1. CASE childStage' = "checked" /\ UNCHANGED <<frames, ended>> /\ \A verified \in Range(policy) : RuntimePolicyHolds(verified)
    <3>1. UNCHANGED <<disk, policy, imported, late>> /\ childStage = "loading"
      BY <1>8 DEF VerifyAndLockDown
    <3>2. ~Running /\ ~Running'
      BY <1>1, <1>3, <2>1, <3>1 DEF Running, ReleaseInv, ChannelInv
    <3>3. \A verified \in Range(policy) : \A f \in (Files \cap DOMAIN verified) \ late : disk.files[f].bytes = verified[f]
      BY <2>1 DEF RuntimePolicyHolds
    <3> QED BY <1>1, <1>3, <2>1, <3>1, <3>2, <3>3 DEF ReleaseInv
  <2> QED BY <1>7, <1>8, <2>1 DEF VerifyAndLockDown
<1>9. ASSUME NEW granted, LoadDescriptor(granted)
      PROVE  ReleaseInv'
  <2>1. childStage = "checked" /\ UNCHANGED <<disk, policy, late>>
    BY <1>9 DEF LoadDescriptor
  <2>2. CASE /\ \A f \in Files : disk.files[f] # Absent /\ ListedForImport(f)
             /\ imported' = [f \in Files |-> disk.files[f].bytes]
             /\ childStage' \in {"imported", "idle"}
    <3>1. RunsItsPolicy'
      BY <2>1, <2>2 DEF RunsItsPolicy, ReleaseInv, ListedForImport
    <3> QED BY <1>1, <1>3, <2>1, <2>2, <3>1 DEF ReleaseInv
  <2>3. CASE SendFatal /\ UNCHANGED imported
    BY <1>7, <2>1, <2>3
  <2> QED BY <1>9, <2>2, <2>3 DEF LoadDescriptor, Send
<1>10. ASSUME NEW made, CreateSession(made)
       PROVE  ReleaseInv'
  <2>1. childStage = "imported" /\ UNCHANGED <<disk, policy, imported, late>> /\ Running
    BY <1>10 DEF CreateSession, Running
  <2>2. CASE childStage' = "idle"
    BY <1>4, <2>1, <2>2
  <2> QED BY <1>7, <1>10, <2>1, <2>2 DEF CreateSession, Send
<1>11. CASE TakeRequest
  <2>1. Running
    BY <1>11 DEF TakeRequest, Running
  <2> QED BY <1>4, <1>11, <2>1 DEF TakeRequest
<1>12. ASSUME NEW value, AnswerRequest(value)
       PROVE  ReleaseInv'
  BY <1>5, <1>6, <1>12 DEF AnswerRequest
<1>13. CASE Dies
  <2>1. Running' => Running
    BY <1>1, <1>13 DEF Dies, Ends, Running
  <2> QED BY <1>4, <1>13, <2>1 DEF Dies, Ends
<1> QED BY <1>8, <1>9, <1>10, <1>11, <1>12, <1>13 DEF ChildNext

\* No step makes a session of another release, whatever happens to the files.
LEMMA ReleaseInductive == ReleaseInv /\ [EngineNext]_engineVars => ReleaseInv'
<1> SUFFICES ASSUME ReleaseInv, [EngineNext]_engineVars
             PROVE  ReleaseInv'
  OBVIOUS
<1>1. AdaptersInv' /\ ChannelInv' /\ AdaptersInv /\ ChannelInv /\ PurposeOK
  BY AdaptersInductive, ChannelInductive DEF ReleaseInv, AdaptersInv
<1>2. CASE UNCHANGED <<runtimeVars, current>>
  BY <1>1, <1>2 DEF ReleaseInv, Running, RunsItsPolicy, SessionOpen, runtimeVars
<1>3. CASE UNCHANGED engineVars
  BY <1>2, <1>3 DEF engineVars, admissionVars
<1>4. CASE ChildNext /\ UNCHANGED admissionVars
  BY <1>1, <1>4, ChildKeepsRelease
<1>5. ASSUME NEW type, CreateWorkerEngineAdapter(type)
      PROVE  ReleaseInv'
  BY <1>1, <1>5, NewIsGenuine, PurposeStarts, ReleaseStarts DEF CreateWorkerEngineAdapter, StartChild
<1>6. ASSUME NEW a \in adapters, CreateEngineSession(a)
      PROVE  ReleaseInv'
  BY <1>1, <1>6, PurposeStarts, ReleaseStarts DEF CreateEngineSession, StartChild, AdaptersInv
<1>7. ASSUME NEW a \in adapters, CreateRecycledAdapter(a) \/ CopyAdapter(a)
      PROVE  ReleaseInv'
  BY <1>2, <1>7 DEF CreateRecycledAdapter, CopyAdapter
<1>8. ASSUME UNCHANGED <<disk, childStage, policy, imported, late>>, current # <<>>,
             frames' = frames \/ (frames # <<>> /\ frames' = Tail(frames)),
             NEW state, NEW got, NEW kill, Becomes(state, got, kill),
             state = "open" => SameIdentity(got, current[1].adapter.identity) /\ frames # <<>> /\ frames[1].type = "ready"
      PROVE  ReleaseInv'
  <2>1. /\ current' # <<>> /\ current'[1].adapter = current[1].adapter
        /\ current'[1].state = state /\ current'[1].got = got
    BY <1>1, <1>8, BecomesKeeps
  <2>2. (\E i \in 1 .. Len(frames') : frames'[i].type = "ready") => \E i \in 1 .. Len(frames) : frames[i].type = "ready"
    BY <1>1, <1>8, ReadyKept DEF ChannelInv
  <2>3. frames # <<>> => 1 \in 1 .. Len(frames)
    BY <1>1, FrameReceived DEF ChannelInv
  <2>4. Running' => Running
    BY <1>8, <2>1, <2>2, <2>3 DEF Running, SessionOpen
  <2>5. childStage' \in {"none", "loading", "checked", "imported"} => ~SessionOpen'
    BY <1>1, <1>8, <2>1 DEF ChannelInv, SessionOpen
  <2> QED BY <1>1, <1>8, <2>1, <2>4, <2>5, ReleaseKept DEF SessionOpen
<1>9. ASSUME NEW method, CallEngine(method)
      PROVE  ReleaseInv'
  BY <1>1, <1>9 DEF CallEngine, ReleaseInv, Running, RunsItsPolicy, SessionOpen
<1>10. CASE ProbeAnswers
  BY <1>8, <1>10 DEF ProbeAnswers, HasReady
<1>11. CASE SessionOpens
  BY <1>8, <1>11 DEF SessionOpens, HasReady
<1>12. CASE ReceiveResponse
  <2>1. Running' => Running
    BY <1>1, <1>12, ReadyKept DEF ReceiveResponse, Running, SessionOpen, admissionVars, ChannelInv
  <2> QED BY <1>1, <1>12, <2>1, ReleaseKept DEF ReceiveResponse, admissionVars, ReleaseInv, SessionOpen
<1>13. CASE Terminates
  <2>1. UNCHANGED <<disk, childStage, policy, imported, late, frames>> /\ current # <<>>
    BY <1>13 DEF Terminates, runtimeVars
  <2>2. current' # <<>> /\ current'[1].adapter = current[1].adapter /\ current'[1].state = "failed"
    BY <1>1, <1>13, BecomesKeeps DEF Terminates
  <2>3. ~SessionOpen' /\ (Running' => Running)
    BY <2>1, <2>2 DEF Running, SessionOpen
  <2> QED BY <1>1, <2>1, <2>2, <2>3, ReleaseKept
<1>14. CASE SigkillLands
  <2>1. Running' => Running
    BY <1>14 DEF SigkillLands, admissionVars, Running, SessionOpen
  <2> QED BY <1>1, <1>14, <2>1, ReleaseKept DEF SigkillLands, admissionVars, ReleaseInv, SessionOpen
<1>15. CASE Reaped
  BY <1>1, <1>15, ReleaseStarts DEF Reaped
<1>16. ASSUME NEW f \in Files, NEW file, ChangeFile(f, file)
       PROVE  ReleaseInv'
  <2>1. IsDirectory(disk') /\ \A g \in Files \ {f} : disk'.files[g] = disk.files[g]
    BY <1>16, FileChanges DEF ChangeFile, ReleaseInv
  <2>2. /\ UNCHANGED <<current, policy, childStage, imported, frames>>
        /\ childStage \in {"none", "loading", "checked"}
        /\ late' = IF childStage = "checked" THEN late \cup {f} ELSE late
    BY <1>16 DEF ChangeFile, MayChange
  <2>3. ~Running'
    BY <1>1, <2>2 DEF Running, ReleaseInv, ChannelInv, SessionOpen
  <2>4. ~SessionOpen'
    BY <2>3 DEF Running
  <2> QED BY <1>1, <2>1, <2>2, <2>3, <2>4 DEF ReleaseInv
<1>17. ASSUME NEW d \in Disks, ChangeManifest(d.manifest)
       PROVE  ReleaseInv'
  <2>1. DOMAIN d.manifest \subseteq Files
    BY DisksAssumption DEF IsDirectory
  <2>2. IsDirectory(disk') /\ disk'.files = disk.files
    BY <1>17, <2>1, ManifestChanges DEF ChangeManifest, ReleaseInv
  <2> QED BY <1>1, <1>17, <2>2 DEF ChangeManifest, ReleaseInv, Running, RunsItsPolicy, SessionOpen
<1> QED BY <1>3, <1>4, <1>5, <1>6, <1>7, <1>9, <1>10, <1>11, <1>12, <1>13, <1>14, <1>15, <1>16, <1>17 DEF EngineNext

\* An open session has the id, version, source commit and trust root its adapter was
\* given and runs the bytes that
\* its adapter's release lists (verifyRuntimeArtifactPolicy, createSession), whatever
\* happens to the files but between the child's own check and its import.
THEOREM ReleaseRuns == EngineSpec => []SessionsRunTheRelease
<1>1. EngineInit => ReleaseInv
  <2> SUFFICES ASSUME EngineInit
               PROVE  ReleaseInv
    OBVIOUS
  <2>1. AdaptersInv
    BY DEF EngineInit, AdaptersInv, PurposeOK
  <2>2. ChannelInv
    BY ChannelInit
  <2> QED BY <2>1, <2>2, DisksAssumption DEF EngineInit, RuntimeInit, ReleaseInv, Running, SessionOpen
<1>2. ReleaseInv => SessionsRunTheRelease
  BY DEF ReleaseInv, SessionsRunTheRelease, Running, RunsItsPolicy, SessionOpen
<1> QED BY <1>1, <1>2, ReleaseInductive, PTL DEF EngineSpec

-----------------------------------------------------------------------------
(* Answers.                                                                *)

\* What passes as plain data is the object itself.
LEMMA OwnData ==
  ASSUME NEW value, NEW allowed, NEW required, OwnDataRecord(value, allowed, required) # Failure
  PROVE  /\ OwnDataRecord(value, allowed, required) = value
         /\ value.is = "object" /\ value.plain /\ value.accessors = {}
         /\ DOMAIN value.own \subseteq allowed /\ required \subseteq DOMAIN value.own
BY DEF OwnDataRecord

\* What passes as a coordinate has two integers and nothing else.
LEMMA CoordinateExact ==
  ASSUME NEW value, IsValue(value), NormalizeCoordinate(value) # Failure
  PROVE  value = Object([r |-> Number("integer"), c |-> Number("integer")])
<1>1. OwnDataRecord(value, {"r", "c"}, {"r", "c"}) # Failure
  BY DEF NormalizeCoordinate
<1>2. value.is = "object" /\ value.plain /\ value.accessors = {} /\ DOMAIN value.own = {"r", "c"}
  BY <1>1, OwnData
<1>3. value.own["r"] = Number("integer") /\ value.own["c"] = Number("integer")
  BY <1>1, OwnData DEF NormalizeCoordinate
<1>4. value = Object(value.own) /\ value.own = [key \in {"r", "c"} |-> value.own[key]]
  BY <1>2 DEF IsValue
<1>5. value.own = [r |-> Number("integer"), c |-> Number("integer")]
  BY <1>3, <1>4
<1> QED BY <1>4, <1>5

\* What passes as an action is the value itself, with exactly the fields of its kind.
LEMMA ActionExact ==
  ASSUME NEW value, IsValue(value), \A part \in Properties(value) : IsValue(part), NormalizeAction(value) # Failure
  PROVE  NormalizeAction(value) = value /\ ExactAction(value)
<1> DEFINE initial == OwnDataRecord(value, {"kind", "to", "wall"}, {})
           kind == IF initial = Failure THEN Undefined ELSE FieldOf(initial, "kind")
           pawn == /\ kind = Text("pawn")
                   /\ OwnDataRecord(value, {"kind", "to"}, {"kind", "to"}) # Failure
                   /\ NormalizeCoordinate(value.own["to"]) # Failure
           wall == /\ kind = Text("wall")
                   /\ OwnDataRecord(value, {"kind", "wall"}, {"kind", "wall"}) # Failure
                   /\ value.own["wall"] = Text("H-1-2")
<1>1. NormalizeAction(value) = IF value = Null THEN Null ELSE IF pawn THEN value ELSE IF wall THEN value ELSE Failure
  BY DEF NormalizeAction
<1>2. CASE value = Null
  BY <1>1, <1>2 DEF ExactAction
<1>3. CASE value # Null /\ pawn
  <2>1. value.is = "object" /\ DOMAIN value.own = {"kind", "to"}
    BY <1>3, OwnData
  <2>2. initial = value
    BY <1>3, OwnData DEF Undefined, Text
  <2>3. value.own["kind"] = Text("pawn")
    BY <1>3, <2>1, <2>2 DEF FieldOf, Undefined, Text
  <2>4. value.own["to"] \in Properties(value)
    BY <2>1 DEF Properties, Range
  <2>5. value.own["to"] = Object([r |-> Number("integer"), c |-> Number("integer")])
    BY <1>3, <2>4, CoordinateExact
  <2>6. NormalizeAction(value) = value
    BY <1>1, <1>3
  <2> HIDE DEF initial, kind, pawn, wall
  <2> QED BY <2>1, <2>3, <2>5, <2>6 DEF ExactAction, ExactPawn
<1>4. CASE value # Null /\ ~pawn /\ wall
  <2>1. value.is = "object" /\ DOMAIN value.own = {"kind", "wall"}
    BY <1>4, OwnData
  <2>2. initial = value
    BY <1>4, OwnData DEF Undefined, Text
  <2>3. value.own["kind"] = Text("wall") /\ value.own["wall"] = Text("H-1-2")
    BY <1>4, <2>1, <2>2 DEF FieldOf, Undefined, Text
  <2>4. value.own = [key \in {"kind", "wall"} |-> value.own[key]]
    BY <2>1 DEF IsValue
  <2>5. value.own = [kind |-> Text("wall"), wall |-> Text("H-1-2")]
    BY <2>3, <2>4
  <2>6. NormalizeAction(value) = value
    BY <1>1, <1>4
  <2> HIDE DEF initial, kind, pawn, wall
  <2> QED BY <2>1, <2>5, <2>6 DEF ExactAction, ExactWall
<1> HIDE DEF initial, kind, pawn, wall
<1> QED BY <1>1, <1>2, <1>3, <1>4

\* What passes of an engine's statistics is four fields at most.
LEMMA StatsExact ==
  ASSUME NEW value, NormalizeStats(value) # Failure
  PROVE  DOMAIN NormalizeStats(value).own \subseteq {"elapsedMs", "nodes", "depth", "antiStallReplaced"}
<1> DEFINE selected == {"elapsedMs", "nodes", "depth", "antiStallReplaced"}
           raw == SelectedOwnDataRecord(value, selected, {})
           given == {key \in DOMAIN raw.own : ~Nullish(raw.own[key])}
<1>1. \/ NormalizeStats(value) = Object([none \in {} |-> Null])
      \/ raw # Failure /\ NormalizeStats(value) = Object(Restrict(raw.own, given))
  BY DEF NormalizeStats
<1>2. raw # Failure => DOMAIN raw.own \subseteq selected
  BY DEF SelectedOwnDataRecord, Object, Restrict
<1>3. raw # Failure => DOMAIN Object(Restrict(raw.own, given)).own \subseteq selected
  <2> HIDE DEF raw
  <2> QED BY <1>2 DEF Object, Restrict
<1>4. DOMAIN Object([none \in {} |-> Null]).own \subseteq selected
  BY DEF Object
<1> HIDE DEF raw, given
<1> QED BY <1>1, <1>3, <1>4

\* What a frame may say of an engine's answer.
ExactAnswer(v, raw) ==
  \/ ExactAction(v) /\ v \in {Null, raw}
  \/ /\ DOMAIN v.own = {"action", "stats"}
     /\ ExactAction(v.own["action"]) /\ v.own["action"] = raw.own["action"]
     /\ DOMAIN v.own["stats"].own \subseteq {"elapsedMs", "nodes", "depth", "antiStallReplaced"}

\* What passes of what selectAction returned is its action, bare or in an envelope.
LEMMA DecisionExact ==
  ASSUME NEW value \in Returned, NormalizeDecision(value) # Failure
  PROVE  ExactAnswer(NormalizeDecision(value), value)
<1> DEFINE inspected == OwnDataRecord(value, {"action", "stats", "kind", "to", "wall"}, {})
           envelope == OwnDataRecord(value, {"action", "stats"}, {"action"})
           action == NormalizeAction(envelope.own["action"])
           stats == NormalizeStats(FieldOf(envelope, "stats"))
           answer == [action |-> action, stats |-> stats]
<1>1. \/ value = Null /\ NormalizeDecision(value) = Null
      \/ NormalizeDecision(value) = NormalizeAction(value)
      \/ envelope # Failure /\ Failure \notin {action, stats} /\ NormalizeDecision(value) = Object(answer)
  BY DEF NormalizeDecision
<1>2. \A part \in Parts(value) : IsValue(part)
  BY ReturnedAssumption
<1>3. value \in Parts(value) /\ Properties(value) \subseteq Parts(value)
      /\ \A part \in Properties(value) : Properties(part) \subseteq Parts(value)
  BY DEF Parts
<1>4. CASE value = Null /\ NormalizeDecision(value) = Null
  BY <1>4 DEF ExactAnswer, ExactAction
<1>5. CASE NormalizeDecision(value) = NormalizeAction(value)
  BY <1>2, <1>3, <1>5, ActionExact DEF ExactAnswer
<1>6. CASE envelope # Failure /\ Failure \notin {action, stats} /\ NormalizeDecision(value) = Object(answer)
  <2>1. envelope = value /\ value.is = "object" /\ "action" \in DOMAIN value.own
    BY <1>6, OwnData
  <2>2. value.own["action"] \in Properties(value)
    BY <2>1 DEF Properties, Range
  <2>3. action = value.own["action"] /\ ExactAction(value.own["action"])
    BY <1>2, <1>3, <1>6, <2>1, <2>2, ActionExact
  <2>4. DOMAIN stats.own \subseteq {"elapsedMs", "nodes", "depth", "antiStallReplaced"}
    BY <1>6, StatsExact
  <2>5. /\ Object(answer).own = answer /\ DOMAIN answer = {"action", "stats"}
        /\ answer["action"] = action /\ answer["stats"] = stats
    BY DEF Object
  <2> HIDE DEF answer, action, stats, envelope, inspected
  <2> QED BY <1>6, <2>3, <2>4, <2>5 DEF ExactAnswer
<1> HIDE DEF answer, action, stats, envelope, inspected
<1> QED BY <1>1, <1>4, <1>5, <1>6

FrameExact(frame) == frame.type = "response" /\ frame.ok => ExactAnswer(frame.value, frame.raw)
FramesExact == \A i \in 1 .. Len(frames) : FrameExact(frames[i])

AnswersInv == ChannelInv /\ FramesExact

\* A frame that is exact joins frames that are.
LEMMA ExactSent ==
  ASSUME AnswersInv, NEW frame, FrameExact(frame), NEW next, Send(frame, next)
  PROVE  FramesExact'
<1>1. frames \in Seq(Range(frames)) /\ frames' = Append(frames, frame)
  BY DEF AnswersInv, ChannelInv, Send
<1>2. /\ Len(frames') = Len(frames) + 1 /\ frames'[Len(frames) + 1] = frame /\ Len(frames) \in Nat
      /\ \A i \in 1 .. Len(frames) : frames'[i] = frames[i]
  BY <1>1, FrameSent
<1>3. ASSUME NEW i \in 1 .. Len(frames')
      PROVE  FrameExact(frames'[i])
  <2>1. i \in 1 .. Len(frames) \/ i = Len(frames) + 1
    BY <1>2
  <2> QED BY <1>2, <2>1 DEF AnswersInv, FramesExact
<1> QED BY <1>3 DEF FramesExact

\* The child's steps: only a request's answer is a successful response, and it is exact.
LEMMA ChildAnswersExactly ==
  AnswersInv /\ ChildNext => FramesExact'
<1> SUFFICES ASSUME AnswersInv, ChildNext
             PROVE  FramesExact'
  OBVIOUS
<1>1. CASE UNCHANGED frames
  BY <1>1 DEF AnswersInv, FramesExact
<1>2. ASSUME NEW type, NEW id, NEW ok, NEW value, NEW raw, NEW next, type # "response" \/ ok = FALSE,
             Send(RuntimeFrame(type, id, ok, value, raw), next)
      PROVE  FramesExact'
  <2>1. FrameExact(RuntimeFrame(type, id, ok, value, raw))
    BY <1>2 DEF FrameExact, RuntimeFrame
  <2> QED BY <1>2, <2>1, ExactSent
<1>3. CASE SendFatal
  BY <1>1, <1>2, <1>3 DEF SendFatal, Overflows
<1>4. CASE VerifyAndLockDown
  BY <1>1, <1>3, <1>4 DEF VerifyAndLockDown
<1>5. ASSUME NEW granted, LoadDescriptor(granted)
      PROVE  FramesExact'
  BY <1>1, <1>2, <1>3, <1>5 DEF LoadDescriptor
<1>6. ASSUME NEW made, CreateSession(made)
      PROVE  FramesExact'
  BY <1>2, <1>3, <1>6 DEF CreateSession
<1>7. CASE TakeRequest
  BY <1>1, <1>7 DEF TakeRequest
<1>8. ASSUME NEW value \in Returned, AnswerRequest(value)
      PROVE  FramesExact'
  <2> DEFINE result == RpcResult(serving.method, value)
  <2>1. CASE result # Failure /\ Send(RuntimeFrame("response", serving.id, TRUE, result, value), "idle")
    <3>1. ExactAnswer(result, value)
      <4>1. result = Null \/ (NormalizeDecision(value) # Failure /\ result = NormalizeDecision(value))
        BY <2>1 DEF RpcResult
      <4>2. ExactAnswer(Null, value)
        BY DEF ExactAnswer, ExactAction
      <4> QED BY <4>1, <4>2, DecisionExact
    <3>2. FrameExact(RuntimeFrame("response", serving.id, TRUE, result, value))
      <4> HIDE DEF result
      <4> QED BY <3>1 DEF FrameExact, RuntimeFrame
    <3> QED BY <2>1, <3>2, ExactSent
  <2>2. CASE Send(RuntimeFrame("response", serving.id, FALSE, Null, value), "idle") \/ Overflows
    BY <1>1, <1>2, <2>2 DEF Overflows
  <2> QED BY <1>8, <2>1, <2>2 DEF AnswerRequest
<1>9. CASE Dies
  BY <1>1, <1>9 DEF Dies, Ends
<1> QED BY <1>4, <1>5, <1>6, <1>7, <1>8, <1>9 DEF ChildNext

\* The parent only takes frames from the channel, or opens another.
LEMMA AnswersInductive == AnswersInv /\ [EngineNext]_engineVars => AnswersInv'
<1> SUFFICES ASSUME AnswersInv, [EngineNext]_engineVars
             PROVE  FramesExact'
  BY ChannelInductive DEF AnswersInv
<1>1. CASE frames' = frames \/ frames' = <<>>
  BY <1>1 DEF AnswersInv, FramesExact
<1>2. CASE frames # <<>> /\ frames' = Tail(frames)
  BY <1>2, FrameReceived DEF AnswersInv, ChannelInv, FramesExact
<1>3. CASE UNCHANGED engineVars
  BY <1>1, <1>3 DEF engineVars, runtimeVars
<1>4. CASE ChildNext
  BY <1>4, ChildAnswersExactly
<1>5. ASSUME NEW type, CreateWorkerEngineAdapter(type)
      PROVE  FramesExact'
  BY <1>1, <1>5 DEF CreateWorkerEngineAdapter, StartChild, NewChild
<1>6. ASSUME NEW a, CreateEngineSession(a) \/ CreateRecycledAdapter(a) \/ CopyAdapter(a)
      PROVE  FramesExact'
  BY <1>1, <1>6 DEF CreateEngineSession, StartChild, NewChild, CreateRecycledAdapter, CopyAdapter, runtimeVars
<1>7. ASSUME NEW method, CallEngine(method)
      PROVE  FramesExact'
  BY <1>1, <1>7 DEF CallEngine
<1>8. CASE ProbeAnswers \/ SessionOpens \/ ReceiveResponse
  BY <1>2, <1>8 DEF ProbeAnswers, SessionOpens, ReceiveResponse, HasReady
<1>9. CASE Terminates \/ SigkillLands
  BY <1>1, <1>9 DEF Terminates, SigkillLands, runtimeVars
<1>10. CASE Reaped
  BY <1>1, <1>10 DEF Reaped, NewChild
<1>11. ASSUME NEW f, NEW file, ChangeFile(f, file)
       PROVE  FramesExact'
  BY <1>1, <1>11 DEF ChangeFile
<1>12. ASSUME NEW manifest, ChangeManifest(manifest)
       PROVE  FramesExact'
  BY <1>1, <1>12 DEF ChangeManifest
<1> QED BY <1>3, <1>4, <1>5, <1>6, <1>7, <1>8, <1>9, <1>10, <1>11, <1>12 DEF EngineNext

\* Nothing of an engine's answer crosses the channel but its action, with exactly the
\* fields of its kind, and four statistics (normalizeDecision), whatever it returned.
THEOREM AnswersExact == EngineSpec => []AnswersAreExact
<1>1. EngineInit => AnswersInv
  <2> SUFFICES ASSUME EngineInit
               PROVE  FramesExact
    BY ChannelInit DEF AnswersInv
  <2> QED BY DEF EngineInit, RuntimeInit, FramesExact
<1>2. AnswersInv => AnswersAreExact
  BY DEF AnswersInv, FramesExact, FrameExact, ExactAnswer, AnswersAreExact
<1> QED BY <1>1, <1>2, AnswersInductive, PTL DEF EngineSpec

-----------------------------------------------------------------------------
(* The child as its parent's model describes it.                           *)

\* The stages, one by one.
LEMMA StagesSeen ==
  /\ Stages["none"] = "dead" /\ Stages["dead"] = "dead" /\ Stages["broken"] = "broken"
  /\ Stages["loading"] = "loading" /\ Stages["checked"] = "loading" /\ Stages["imported"] = "loading"
  /\ Stages["idle"] = "idle" /\ Stages["busy"] = "busy"
BY DEF Stages

\* A request is not the lack of one.
LEMMA RequestSeen ==
  ASSUME NEW r \in RpcRequests
  PROVE  r # <<>> /\ r.id \in Nat
<1>1. DOMAIN r = {"id", "method"} /\ r.id \in Nat
  BY DEF RpcRequests
<1>2. DOMAIN <<>> = {}
  OBVIOUS
<1> QED BY <1>1, <1>2

\* The parent sees a frame that is sent behind those it has not had yet.
LEMMA SentSeen ==
  ASSUME frames \in Seq(Range(frames)), NEW frame, frames' = Append(frames, frame)
  PROVE  [i \in 1 .. Len(frames') |-> AsFrame(frames'[i])] = Append([i \in 1 .. Len(frames) |-> AsFrame(frames[i])], AsFrame(frame))
<1> DEFINE seen == [i \in 1 .. Len(frames) |-> AsFrame(frames[i])]
           S == {AsFrame(frames[i]) : i \in 1 .. Len(frames)} \cup {AsFrame(frame)}
<1>1. /\ Len(frames') = Len(frames) + 1 /\ frames'[Len(frames) + 1] = frame /\ Len(frames) \in Nat
      /\ \A i \in 1 .. Len(frames) : frames'[i] = frames[i]
  BY FrameSent
<1>2. seen \in [1 .. Len(frames) -> S] /\ AsFrame(frame) \in S
  OBVIOUS
<1>3. \A i \in 1 .. Len(frames) : seen[i] = AsFrame(frames[i])
  OBVIOUS
<1> HIDE DEF seen, S
<1>4. seen \in Seq(S) /\ Len(seen) = Len(frames)
  BY <1>1, <1>2
<1> DEFINE t == Append(seen, AsFrame(frame))
<1>5. /\ t \in Seq(S) /\ Len(t) = Len(frames) + 1 /\ t[Len(frames) + 1] = AsFrame(frame)
      /\ \A i \in 1 .. Len(frames) : t[i] = seen[i]
  BY <1>1, <1>2, <1>4
<1> HIDE DEF t
<1>6. \A i \in 1 .. Len(frames') : AsFrame(frames'[i]) = t[i]
  <2> SUFFICES ASSUME NEW i \in 1 .. Len(frames')
               PROVE  AsFrame(frames'[i]) = t[i]
    OBVIOUS
  <2>1. CASE i \in 1 .. Len(frames)
    BY <1>1, <1>3, <1>5, <2>1
  <2>2. CASE i = Len(frames) + 1
    BY <1>1, <1>5, <2>2
  <2>3. i \in 1 .. Len(frames) \/ i = Len(frames) + 1
    BY <1>1
  <2> QED BY <2>1, <2>2, <2>3
<1>7. t = [i \in 1 .. Len(t) |-> t[i]]
  BY <1>5
<1>8. [i \in 1 .. Len(frames') |-> AsFrame(frames'[i])] = t
  BY <1>1, <1>5, <1>6, <1>7
<1> QED BY <1>8 DEF t, seen

\* The requests that are left after one is taken are those behind it.
LEMMA TakenSeen ==
  ASSUME pipe \in Seq(RpcRequests), pipe # <<>>, pipe' = Tail(pipe)
  PROVE  /\ [i \in 1 .. Len(pipe) |-> pipe[i].id] # <<>> /\ Head(pipe) \in RpcRequests
         /\ Head([i \in 1 .. Len(pipe) |-> pipe[i].id]) = Head(pipe).id
         /\ [i \in 1 .. Len(pipe') |-> pipe'[i].id] = Tail([i \in 1 .. Len(pipe) |-> pipe[i].id])
<1> DEFINE ids == [i \in 1 .. Len(pipe) |-> pipe[i].id]
<1>0. Len(pipe) \in Nat /\ Len(pipe) >= 1 /\ \A i \in 1 .. Len(pipe) : pipe[i] \in RpcRequests
  OBVIOUS
<1>1. Len(pipe) \in Nat /\ Len(pipe) >= 1 /\ \A i \in 1 .. Len(pipe) : pipe[i].id \in Nat
  BY <1>0 DEF RpcRequests
<1>2. Len(pipe') = Len(pipe) - 1 /\ (\A i \in 1 .. Len(pipe') : pipe'[i] = pipe[i + 1]) /\ Head(pipe) = pipe[1]
  OBVIOUS
<1>3. ids \in [1 .. Len(pipe) -> Nat] /\ \A i \in 1 .. Len(pipe) : ids[i] = pipe[i].id
  BY <1>1
<1> HIDE DEF ids
<1>4. ids \in Seq(Nat) /\ Len(ids) = Len(pipe)
  BY <1>1, <1>3
<1> DEFINE t == Tail(ids)
<1>5. /\ ids # <<>> /\ Head(ids) = pipe[1].id /\ t \in Seq(Nat) /\ Len(t) = Len(pipe) - 1
      /\ \A i \in 1 .. Len(pipe) - 1 : t[i] = pipe[i + 1].id
  BY <1>1, <1>3, <1>4
<1> HIDE DEF t
<1>6. [i \in 1 .. Len(pipe') |-> pipe'[i].id] = t
  <2>1. t = [i \in 1 .. Len(t) |-> t[i]]
    BY <1>5
  <2> QED BY <1>2, <1>5, <2>1
<1>7. Head(pipe) \in RpcRequests
  BY <1>0, <1>2
<1> QED BY <1>2, <1>5, <1>6, <1>7 DEF ids, t

ChildStep == Host!Child \/ Host!SigkillLands \/ Forks \/ Discards \/ Sends \/ Takes
childSeen == <<Stages[childStage], serving, pipe, frames, answered, ended>>

\* A child's step leaves what its parent keeps of it alone.
LEMMA ParentUnchanged ==
  ASSUME UNCHANGED admissionVars
  PROVE  UNCHANGED Host!hostVars
BY DEF admissionVars, Host!hostVars, Host!events, Host!promises

\* A child that reports ready or fatal, as the parent's model sees it.
LEMMA ReportSeen ==
  ASSUME ChannelInv, UNCHANGED admissionVars, UNCHANGED <<serving, pipe, answered>>,
         childStage \in {"loading", "checked", "imported"},
         NEW type \in {"ready", "fatal"}, NEW ok, NEW value, NEW raw,
         Send(RuntimeFrame(type, 0, ok, value, raw), IF type = "ready" THEN "idle" ELSE "broken")
  PROVE  Host!Child
<1> DEFINE frame == RuntimeFrame(type, 0, ok, value, raw)
<1>1. frames' = Append(frames, frame) /\ frames \in Seq(Range(frames)) /\ UNCHANGED ended
      /\ childStage' = IF type = "ready" THEN "idle" ELSE "broken"
  BY DEF Send, ChannelInv
<1>2. AsFrame(frame) = [type |-> type, id |-> 0, ok |-> TRUE]
  BY DEF AsFrame, RuntimeFrame
<1> HIDE DEF frame
<1>3. [i \in 1 .. Len(frames') |-> AsFrame(frames'[i])] = Append([i \in 1 .. Len(frames) |-> AsFrame(frames[i])], AsFrame(frame))
  BY <1>1, SentSeen
<1>4. Stages[childStage] = "loading" /\ Stages[childStage'] = IF type = "ready" THEN "idle" ELSE "broken"
  BY <1>1, StagesSeen
<1>5. UNCHANGED Host!hostVars
  BY ParentUnchanged
<1>6. CASE type = "ready"
  <2>1. Host!ChildReady
    BY <1>1, <1>2, <1>3, <1>4, <1>5, <1>6 DEF Host!ChildReady, Host!Initialized, Host!Emit, Host!Frame
  <2> QED BY <2>1 DEF Host!Child
<1>7. CASE type = "fatal"
  <2>1. Host!ChildFatal
    BY <1>1, <1>2, <1>3, <1>4, <1>5, <1>7 DEF Host!ChildFatal, Host!Initialized, Host!Emit, Host!Frame
  <2> QED BY <2>1 DEF Host!Child
<1> QED BY <1>6, <1>7

\* A child that ends by itself, as the parent's model sees it.
LEMMA EndSeen ==
  ASSUME ChannelInv, UNCHANGED admissionVars, UNCHANGED <<pipe, frames, answered>>, ~NoChild,
         childStage' = "dead", serving' = <<>>, NEW why \in {"crash", "quit"}, ended' = why
  PROVE  Host!Child
<1>1. Stages[childStage] \notin {"dead", "unborn"} /\ Stages[childStage'] = "dead"
  BY StagesSeen DEF ChannelInv, NoChild
<1>2. UNCHANGED Host!hostVars
  BY ParentUnchanged
<1>3. Host!ChildDies(why)
  BY <1>1, <1>2 DEF Host!ChildDies, Host!Alive
<1> QED BY <1>3 DEF Host!Child

\* A response, as the parent's model sees it.
LEMMA ResponseSeen ==
  ASSUME ChannelInv, UNCHANGED admissionVars, UNCHANGED pipe, childStage = "busy", serving' = <<>>,
         NEW ok \in BOOLEAN, NEW value, NEW raw, Send(RuntimeFrame("response", serving.id, ok, value, raw), "idle"),
         answered' = IF ok THEN answered \cup {serving.id} ELSE answered
  PROVE  Host!Child
<1> DEFINE frame == RuntimeFrame("response", serving.id, ok, value, raw)
<1>1. frames' = Append(frames, frame) /\ frames \in Seq(Range(frames)) /\ UNCHANGED ended /\ childStage' = "idle"
  BY DEF Send, ChannelInv
<1>2. AsFrame(frame) = [type |-> "response", id |-> serving.id, ok |-> ok]
  BY DEF AsFrame, RuntimeFrame
<1> HIDE DEF frame
<1>3. [i \in 1 .. Len(frames') |-> AsFrame(frames'[i])] = Append([i \in 1 .. Len(frames) |-> AsFrame(frames[i])], AsFrame(frame))
  BY <1>1, SentSeen
<1>4. Stages[childStage] = "busy" /\ Stages[childStage'] = "idle"
  BY <1>1, StagesSeen
<1>5. UNCHANGED Host!hostVars
  BY ParentUnchanged
<1>6. serving # <<>>
  BY RequestSeen DEF ChannelInv
<1>7. Host!ChildResponds(ok)
  BY <1>1, <1>2, <1>3, <1>4, <1>5, <1>6 DEF Host!ChildResponds, Host!Emit
<1> QED BY <1>7 DEF Host!Child

\* Each step of the child is one that the parent's model lets a child take, or none to it.
LEMMA ChildSeen ==
  ASSUME ChannelInv, ChildNext, UNCHANGED admissionVars
  PROVE  Host!Child \/ UNCHANGED childSeen
<1>1. CASE UNCHANGED <<serving, pipe, frames, answered, ended>> /\ {childStage, childStage'} \subseteq {"loading", "checked", "imported"}
  BY <1>1, StagesSeen DEF childSeen
<1>2. ASSUME SendFatal, UNCHANGED <<serving, pipe, answered>>, childStage \in {"loading", "checked", "imported"}
      PROVE  Host!Child
  <2>1. CASE Send(RuntimeFrame("fatal", 0, FALSE, Null, Null), "broken")
    BY <1>2, <2>1, ReportSeen
  <2>2. CASE Overflows
    BY <1>2, <2>2, EndSeen DEF Overflows, NoChild, ChannelInv
  <2> QED BY <1>2, <2>1, <2>2 DEF SendFatal
<1>3. ASSUME NEW value, NEW raw, Send(RuntimeFrame("ready", 0, TRUE, value, raw), "idle"),
             UNCHANGED <<serving, pipe, answered>>, childStage \in {"loading", "checked", "imported"}
      PROVE  Host!Child
  BY <1>3, ReportSeen
<1>4. CASE VerifyAndLockDown
  BY <1>1, <1>2, <1>4 DEF VerifyAndLockDown
<1>5. ASSUME NEW granted, LoadDescriptor(granted)
      PROVE  Host!Child \/ UNCHANGED childSeen
  BY <1>1, <1>2, <1>3, <1>5 DEF LoadDescriptor
<1>6. ASSUME NEW made, CreateSession(made)
      PROVE  Host!Child
  BY <1>2, <1>3, <1>6 DEF CreateSession
<1>7. CASE TakeRequest
  <2>1. UNCHANGED Host!hostVars
    BY ParentUnchanged
  <2>2. Stages[childStage] = "idle" /\ Stages[childStage'] = "busy"
    BY <1>7, StagesSeen DEF TakeRequest
  <2>3. /\ [i \in 1 .. Len(pipe) |-> pipe[i].id] # <<>> /\ serving' \in RpcRequests
        /\ Head([i \in 1 .. Len(pipe) |-> pipe[i].id]) = serving'.id
        /\ [i \in 1 .. Len(pipe') |-> pipe'[i].id] = Tail([i \in 1 .. Len(pipe) |-> pipe[i].id])
    BY <1>7, TakenSeen DEF TakeRequest, ChannelInv
  <2>4. serving' # <<>>
    BY <2>3, RequestSeen
  <2>5. UNCHANGED <<ended, answered, frames>>
    BY <1>7 DEF TakeRequest
  <2>6. Host!ChildTakes
    BY <2>1, <2>2, <2>3, <2>4, <2>5 DEF Host!ChildTakes
  <2> QED BY <2>6 DEF Host!Child
<1>8. ASSUME NEW value, AnswerRequest(value)
      PROVE  Host!Child
  <2> DEFINE result == RpcResult(serving.method, value)
  <2>1. childStage = "busy" /\ serving' = <<>> /\ UNCHANGED pipe
    BY <1>8 DEF AnswerRequest
  <2>2. CASE Send(RuntimeFrame("response", serving.id, TRUE, result, value), "idle") /\ answered' = answered \cup {serving.id}
    BY <2>1, <2>2, ResponseSeen
  <2>3. CASE Send(RuntimeFrame("response", serving.id, FALSE, Null, value), "idle") /\ UNCHANGED answered
    BY <2>1, <2>3, ResponseSeen
  <2>4. CASE Overflows /\ UNCHANGED answered
    BY <2>1, <2>4, EndSeen DEF Overflows, NoChild
  <2> QED BY <1>8, <2>2, <2>3, <2>4 DEF AnswerRequest
<1>9. CASE Dies
  BY <1>9, EndSeen DEF Dies, Ends
<1> QED BY <1>4, <1>5, <1>6, <1>7, <1>8, <1>9 DEF ChildNext

\* A new child is the one that the parent's model starts with.
LEMMA ForkSeen ==
  ASSUME NEW m, NEW verified, StartChild(m, verified), killing' = FALSE
  PROVE  Forks
<1>1. /\ NoChild /\ childStage' = "loading" /\ serving' = <<>> /\ pipe' = <<>> /\ frames' = <<>>
      /\ answered' = {} /\ ended' = "none" /\ killing' = FALSE
  BY DEF StartChild, NewChild
<1>2. [i \in 1 .. Len(pipe') |-> pipe'[i].id] = <<>> /\ [i \in 1 .. Len(frames') |-> AsFrame(frames'[i])] = <<>>
  BY <1>1
<1>3. Stages[childStage'] = "loading"
  BY <1>1, StagesSeen
<1>4. Host!Init'
  BY <1>1, <1>2, <1>3 DEF Host!Init
<1> QED BY <1>1, <1>4 DEF Forks

\* Each step of either side is one that the parent's model allows at the channel.
LEMMA StepSeen == ChannelInv /\ [EngineNext]_engineVars => [ChildStep]_childSeen
<1> SUFFICES ASSUME ChannelInv, [EngineNext]_engineVars
             PROVE  ChildStep \/ UNCHANGED childSeen
  OBVIOUS
<1>1. CASE UNCHANGED runtimeVars
  BY <1>1 DEF runtimeVars, childSeen
<1>2. CASE UNCHANGED engineVars
  BY <1>1, <1>2 DEF engineVars
<1>3. CASE ChildNext /\ UNCHANGED admissionVars
  BY <1>3, ChildSeen DEF ChildStep
<1>4. ASSUME NEW type, CreateWorkerEngineAdapter(type)
      PROVE  ChildStep
  BY <1>4, ForkSeen DEF CreateWorkerEngineAdapter, ChildStep
<1>5. ASSUME NEW a, CreateEngineSession(a)
      PROVE  ChildStep
  BY <1>5, ForkSeen DEF CreateEngineSession, ChildStep
<1>6. ASSUME NEW a, CreateRecycledAdapter(a) \/ CopyAdapter(a)
      PROVE  UNCHANGED childSeen
  BY <1>6 DEF CreateRecycledAdapter, CopyAdapter, runtimeVars, childSeen
<1>7. ASSUME NEW method \in {"selectAction", "observe"}, CallEngine(method)
      PROVE  ChildStep
  <2>1. pipe' = Append(pipe, [id |-> nextCall, method |-> method]) /\ pipe \in Seq(RpcRequests)
    BY <1>7 DEF CallEngine, ChannelInv
  <2>2. [id |-> nextCall, method |-> method] \in RpcRequests
    BY DEF ChannelInv, RpcRequests
  <2>3. Len(pipe') = Len(pipe) + 1
    BY <2>1, <2>2
  <2> QED BY <1>7, <2>3 DEF CallEngine, Sends, ChildStep
<1>8. CASE ProbeAnswers \/ SessionOpens \/ ReceiveResponse
  BY <1>8 DEF ProbeAnswers, SessionOpens, ReceiveResponse, HasReady, Takes, ChildStep
<1>9. CASE Terminates
  BY <1>1, <1>9 DEF Terminates, runtimeVars
<1>10. CASE SigkillLands
  <2>1. Stages[childStage] \notin {"dead", "unborn"} /\ Stages[childStage'] = "dead"
    BY <1>10, StagesSeen DEF ChannelInv, NoChild, SigkillLands
  <2>2. UNCHANGED Host!hostVars
    BY <1>10, ParentUnchanged DEF SigkillLands
  <2>3. Host!SigkillLands
    BY <1>10, <2>1, <2>2 DEF Host!SigkillLands, Host!Alive, SigkillLands
  <2> QED BY <2>3 DEF ChildStep
<1>11. CASE Reaped
  BY <1>11 DEF Reaped, NewChild, Discards, NoChild, ChildStep
<1>12. ASSUME NEW f, NEW file, ChangeFile(f, file)
       PROVE  UNCHANGED childSeen
  BY <1>12 DEF ChangeFile, childSeen
<1>13. ASSUME NEW manifest, ChangeManifest(manifest)
       PROVE  UNCHANGED childSeen
  BY <1>13 DEF ChangeManifest, childSeen
<1> QED BY <1>2, <1>3, <1>4, <1>5, <1>6, <1>7, <1>8, <1>9, <1>10, <1>11, <1>12, <1>13 DEF EngineNext

\* Every step of the child (worker-engine-runtime.mjs) is one its parent's model lets a
\* child take: one "ready" or "fatal", then a response per request, in order, one at a time.
THEOREM ChildIsModelled == EngineSpec => ChildIsTheHostsChild
<1>1. EngineSpec => []ChannelInv
  BY ChannelInit, ChannelInductive, PTL DEF EngineSpec
<1>2. ChannelInv /\ [EngineNext]_engineVars =>
        [Host!Child \/ Host!SigkillLands \/ Forks \/ Discards \/ Sends \/ Takes]_<<Stages[childStage], serving, pipe, frames, answered, ended>>
  BY StepSeen DEF ChildStep, childSeen
<1> QED BY <1>1, <1>2, PTL DEF EngineSpec, ChildIsTheHostsChild

=================================================================================
