---------------------------- MODULE StreamEvents ----------------------------
(***************************************************************************)
(* The events of a model stream (protocol StreamEvent), which the decoders *)
(* of the wires emit and the assembly consumes.                            *)
(*                                                                         *)
(* The text of tool arguments is a sequence of the characters {, x, y, },  *)
(* null and _, a blank.  A visible text is the number of its pieces.       *)
(* Events that leave the projection alone (search results, usage, raw      *)
(* provider frames) are all Observation; connector text is not modelled.   *)
(***************************************************************************)
EXTENDS Naturals, Sequences

CONSTANT None

IsSequence(s) == s \in Seq({s[i] : i \in DOMAIN s})

EmptyObject == <<"{", "}">>
Null == <<"null">>

\* The JSON value a text of arguments denotes, and whether it denotes one.
Value(text) == SelectSeq(text, LAMBDA c : c # "_")
IsObject(text) == Value(text) \in {EmptyObject, <<"{", "x", "}">>, <<"{", "y", "}">>}
Parses(text) == IsObject(text) \/ Value(text) = Null

Start(id) == [event |-> "start", id |-> id]
WholeText(block, pieces) == [event |-> "text", block |-> block, pieces |-> pieces]
TextDelta(block) == WholeText(block, 1)
ReasoningDelta(block) == [event |-> "reasoning", block |-> block]
Signature(block) == [event |-> "signature", block |-> block]
ToolCallDelta(block, id, name, fragment) ==
    [event |-> "tool", block |-> block, id |-> id, name |-> name, fragment |-> fragment]
\* A typed computer call, and opaque provider content.
Native(block, call) == [event |-> "native", block |-> block, call |-> call]
ProviderContent(block) == [event |-> "content", block |-> block]
\* Provider content that restates a text, or the phase of a message.
TextContent(block, pieces) == [event |-> "restated", block |-> block, pieces |-> pieces]
Phase(block) == [event |-> "phase", block |-> block]
RedactedThinking(block) == [event |-> "content", block |-> block]
BlockEnd(block) == [event |-> "blockend", block |-> block]
End(stop) == [event |-> "end", stop |-> stop]
Observation == [event |-> "observation"]
Failure(error) == [event |-> "error", error |-> error]

Terminal(e) == e.event \in {"end", "error"}
=============================================================================
