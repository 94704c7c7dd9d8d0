-------------------------------- MODULE MCEngine --------------------------------
(***************************************************************************)
(* A release of two files, the entry and a library, and the answers an     *)
(* engine may give: each kind of well-formed one, and each way to spoil it.*)
(***************************************************************************)
EXTENDS EngineAdmission

Descriptor(name) ==
  Object([id |-> Text(name), version |-> Text("1"), createSession |-> Method,
          capabilities |-> Object([nodeBudget |-> Flag, deadline |-> Flag])])
\* The lookalike tells the official identity and one capability more; the later
\* version tells another identity.
MCExports ==
  [official |-> Descriptor("wasm"),
   lookalike |-> [Descriptor("wasm") EXCEPT !.own["capabilities"] =
                    Object([nodeBudget |-> Flag, deadline |-> Flag, deterministicClock |-> Flag])],
   later |-> [Descriptor("wasm") EXCEPT !.own["version"] = Text("2")],
   hard |-> Object([id |-> Text("hard"), version |-> Text("1"), createSession |-> Method,
                    sourceCommit |-> Text("46a871c7"),
                    baselineTrustRoot |-> Object([baselineId |-> Text("hard"), manifestSha256 |-> Text("m")])]),
   spoilt |-> [Descriptor("wasm") EXCEPT !.accessors = {"version"}],
   none |-> Undefined]
MCBytes == DOMAIN MCExports
MCPinned == NormalizeDescriptor(MCExports["hard"])

File(bytes) == [bytes |-> bytes, link |-> FALSE]
Release(entry, lib) ==
  [manifest |-> [f \in {"entry", "lib"} |-> IF f = "entry" THEN entry ELSE lib],
   files |-> [f \in {"entry", "lib"} |-> IF f = "entry" THEN File(entry) ELSE File(lib)]]
MCDisks ==
  {Release("official", "official"), Release("lookalike", "official"), Release("hard", "hard"),
   [Release("official", "official") EXCEPT !.manifest = [f \in {"lib"} |-> "official"]],
   [Release("official", "official") EXCEPT !.manifest = [f \in {"entry"} |-> "official"]]}
MCChanges == {File("lookalike"), File("later"), File("spoilt"), [bytes |-> "official", link |-> TRUE], Absent}

Cell == Object([r |-> Number("integer"), c |-> Number("integer")])
Pawn == Object([kind |-> Text("pawn"), to |-> Cell])
Wall == Object([kind |-> Text("wall"), wall |-> Text("H-1-2")])
Stats == Object([elapsedMs |-> Number("fraction"), nodes |-> Number("integer"), depth |-> Null, extra |-> Flag])
MCReturned ==
  {Failure, Pawn,
   Object([action |-> Wall, stats |-> Object([nodes |-> Number("fraction")])]),
   Object([action |-> Wall, stats |-> Stats]),
   Object([kind |-> Text("pawn"), to |-> Cell, wall |-> Text("H-1-2")])}

Handlers == Object([selectAction |-> Method, observe |-> Method, close |-> Method])
MCSessions == {Handlers, Object([selectAction |-> Method, observe |-> Method]), Failure}
=================================================================================
