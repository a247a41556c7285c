---------------------------- MODULE MCModelStream ----------------------------
(***************************************************************************)
(* Scenarios for ModelStream.  "framing" writes byte by byte, in any order *)
(* and with every cut into chunks, for next and next_batch; "messages"     *)
(* writes whole and broken event-stream messages and cuts them likewise;   *)
(* the other scenarios write whole frames of one codec, each at most once, *)
(* in the order of their stages, any number of them left out.              *)
(***************************************************************************)
EXTENDS ModelStream

CONSTANTS
    resp, call1, call2, call3, item1, fn,
    MaxBytes,           \* bytes written in the framing scenario
    MaxUnread,          \* of which so many may wait to be read
    MaxMessageBytes     \* bytes written in the event-stream scenario

\* A stage: so many of these frames, in any order.
UpTo(n, frames) == [limit |-> n, frames |-> frames]

X == <<"{", "x", "}">>
BlankX == <<"{", "_", "x", "}">>
Y == <<"{", "y", "}">>

-----------------------------------------------------------------------------
(* Chat chunks.                                                            *)

Part(index, id, name, fragment) == [index |-> index, id |-> id, name |-> name, fragment |-> fragment]

Open == [Chat!Chunk EXCEPT !.id = resp, !.content = TRUE]

ChatStages ==
    <<UpTo(2, {Open, [Chat!Chunk EXCEPT !.reasoning = TRUE], [Chat!Chunk EXCEPT !.details = TRUE, !.audio = TRUE]}),
      UpTo(1, {[Chat!Chunk EXCEPT !.calls = <<Part(0, call1, None, <<>>), Part(1, call2, fn, <<"{">>)>>],
               [Chat!Chunk EXCEPT !.calls = <<Part(1, call2, fn, <<>>)>>]}),
      UpTo(2, {[Chat!Chunk EXCEPT !.calls = <<Part(0, call1, fn, <<"{">>)>>],
               [Chat!Chunk EXCEPT !.calls = <<Part(1, None, None, <<"}">>), Part(0, None, None, <<"x", "}">>)>>],
               [Chat!Chunk EXCEPT !.refusal = TRUE, !.content = TRUE]}),
      UpTo(1, {[Chat!Chunk EXCEPT !.finish = x] : x \in {"stop", "tool_calls", "length", "content_filter"}}),
      UpTo(1, {[Chat!Chunk EXCEPT !.choice = FALSE], [type |-> "blank"]}),
      UpTo(1, {[type |-> "done"], [type |-> "error"], [type |-> "garbled"]})>>

-----------------------------------------------------------------------------
(* Responses events.                                                       *)

Message(refusal) == [type |-> "message", phase |-> TRUE, refusal |-> refusal]
Call(call, args) == [type |-> "function_call", call |-> call, name |-> fn, args |-> args]
Click(call, status) ==
    [type |-> "computer_call", id |-> item1, call |-> call, status |-> status, actions |-> 1]
Approval == [type |-> "approval"]
Response(status, reason, store, output) ==
    [id |-> resp, status |-> status, reason |-> reason, store |-> store, output |-> output]
Completed(store, output) == [type |-> "completed", response |-> Response("completed", None, store, output)]
Incomplete(reason, output) == [type |-> "incomplete", response |-> Response("incomplete", reason, None, output)]
Added(index, item) == [type |-> "added", index |-> index, item |-> item]
Done(index, item) == [type |-> "item.done", index |-> index, item |-> item]
Fragment(index, text) == [type |-> "arguments.delta", index |-> index, text |-> text]
Snapshot(index, text) == [type |-> "arguments.done", index |-> index, text |-> text]

\* Function calls beside a text.
ResponsesStages ==
    <<UpTo(1, {[type |-> "created", id |-> resp]}),
      UpTo(2, {Added(0, Call(call1, <<>>)), [type |-> "text", index |-> 1]}),
      UpTo(2, {Fragment(0, <<"{">>), [type |-> "refusal"]}),
      UpTo(1, {Fragment(0, <<"x", "}">>)}),
      UpTo(1, {Snapshot(0, X), Snapshot(0, BlankX)}),
      UpTo(1, {Done(0, Call(call1, BlankX)), Done(0, Call(call2, X)), Done(1, Message(TRUE))}),
      UpTo(1, {Completed(None, <<Call(call1, X), Message(FALSE)>>), Completed(FALSE, None),
               Completed(None, <<Call(call1, Y)>>), Completed(None, <<Call(call1, X), Message(FALSE), Approval>>),
               Incomplete("max_output_tokens", <<Call(call1, <<"{">>)>>), Incomplete("max_output_tokens", None),
               Incomplete("content_filter", None), Incomplete(None, None),
               [type |-> "done"], [type |-> "failed"], [type |-> "garbled"]})>>

\* Computer calls beside a function call.
ComputerStages ==
    <<UpTo(1, {[type |-> "created", id |-> resp], [type |-> "blank"]}),
      UpTo(2, {Added(0, Click(call1, "in_progress")), Added(1, Call(call2, <<>>)), [type |-> "reasoning", index |-> 2]}),
      UpTo(1, {Fragment(1, X)}),
      UpTo(2, {Done(0, Click(call1, "completed")), Done(0, Click(call3, "completed")), Done(1, Call(call2, X))}),
      UpTo(1, {Completed(None, <<Click(call1, "completed"), Call(call2, X)>>),
               Completed(None, <<Click(call1, "completed")>>), Completed(None, <<Click(call3, "completed"), Call(call2, X)>>),
               Completed(None, <<Click(call1, "in_progress"), Call(call2, X)>>), Completed(None, <<Call(call2, X)>>),
               Completed(None, None), Incomplete("max_output_tokens", <<Click(call1, "in_progress"), Call(call2, X)>>),
               [type |-> "done"]})>>

-----------------------------------------------------------------------------
(* Anthropic events.                                                       *)

Text(filled, citations, opaque) ==
    [type |-> "text", filled |-> filled, citations |-> citations, opaque |-> opaque]
Begin(index, block) == [type |-> "block_start", index |-> index, block |-> block]
Piece(index, delta) == [type |-> "block_delta", index |-> index, delta |-> [type |-> delta]]
Args(index, text) == [type |-> "block_delta", index |-> index, delta |-> [type |-> "input", text |-> text]]
Stop(index) == [type |-> "block_stop", index |-> index]

\* Two text blocks, open at the same time.
TextStages ==
    <<UpTo(2, {Begin(0, Text(FALSE, FALSE, FALSE)), Begin(1, Text(TRUE, TRUE, FALSE)), Begin(1, Text(FALSE, FALSE, TRUE))}),
      UpTo(3, {Piece(0, "text"), Piece(1, "text"), Piece(1, "unknown")}),
      UpTo(3, {Piece(0, "citation"), Piece(0, "unknown"), Stop(1)}),
      UpTo(1, {Stop(0)}),
      UpTo(1, {[type |-> "message_delta", stop |-> "end_turn"]}),
      UpTo(1, {[type |-> "message_stop"]})>>

\* A call beside a native block.
ToolStages ==
    <<UpTo(2, {Begin(0, [type |-> "tool_use", id |-> call1, name |-> fn]), Begin(1, [type |-> "server_tool_use"])}),
      UpTo(2, {Args(0, <<"{">>), Args(1, <<"{">>), Args(1, <<>>)}),
      UpTo(2, {Args(0, <<"x", "}">>), Args(1, <<"}">>), Piece(0, "unknown")}),
      UpTo(2, {Stop(0), Stop(1)}),
      UpTo(1, {[type |-> "message_delta", stop |-> "tool_use"], [type |-> "message_delta", stop |-> "max_tokens"]}),
      UpTo(1, {[type |-> "message_stop"], [type |-> "error"]})>>

\* Thinking, a fallback and events of no block.
ThinkingStages ==
    <<UpTo(2, {[type |-> "message_start", id |-> resp], [type |-> "fallback", index |-> 3]}),
      UpTo(1, {Begin(2, [type |-> "thinking"]), Begin(2, [type |-> "redacted_thinking"])}),
      UpTo(2, {Piece(2, "thinking"), Piece(2, "signature"), Piece(3, "text")}),
      UpTo(1, {Stop(2), Stop(3), [type |-> "ping"], [type |-> "future"], [type |-> "blank"]}),
      UpTo(1, {[type |-> "message_delta", stop |-> "end_turn"]}),
      UpTo(1, {[type |-> "message_stop"], [type |-> "garbled"]})>>

-----------------------------------------------------------------------------
(* Gemini frames.                                                          *)

Said(part, signed) == [part |-> part, signed |-> signed]
FunctionCall(id, name, args) == [part |-> "call", signed |-> FALSE, id |-> id, name |-> name, args |-> args]
Parts(parts) == [Gemini!Generate EXCEPT !.parts = parts]

GeminiStages ==
    <<UpTo(2, {Parts(<<Said("text", FALSE)>>), Parts(<<Said("thought", FALSE), Said("text", FALSE)>>),
               Parts(<<Said("thought", TRUE), Said("thought", FALSE)>>)}),
      UpTo(1, {Parts(<<Said("other", FALSE), Said("text", FALSE), Said("text", TRUE)>>), Parts(<<Said("native", FALSE), Said("text", FALSE)>>),
               [Gemini!Generate EXCEPT !.blocked = TRUE, !.candidate = FALSE]}),
      UpTo(1, {Parts(<<FunctionCall(call1, fn, X), FunctionCall(None, fn, Y)>>), Parts(<<FunctionCall(call1, fn, None)>>),
               Parts(<<Said("text", FALSE), FunctionCall(call1, None, X)>>)}),
      UpTo(2, {[Parts(<<Said("text", FALSE), Said("text", FALSE)>>) EXCEPT !.finish = finish] : finish \in {"STOP", "MAX_TOKENS", "SAFETY"}}),
      UpTo(1, {[type |-> "error"], [type |-> "garbled"], [type |-> "blank"]})>>

-----------------------------------------------------------------------------
(* Interactions events.                                                    *)

StepFrame(index, type) == [type |-> type, index |-> index]
Starts(index, step) == [type |-> "step.start", index |-> index, step |-> step]
Grows(index, delta) == [type |-> "step.delta", index |-> index, delta |-> delta]
CallStep(id, args) == [Interactions!Step("function_call") EXCEPT !.id = id, !.name = fn, !.args = args]
OutputStep(parts) == [Interactions!Step("model_output") EXCEPT !.parts = parts]
ArgsDelta(text) == [Interactions!StepDelta("arguments_delta") EXCEPT !.text = text]
Whole(id, args) == [Interactions!StepDelta("function_call") EXCEPT !.id = id, !.args = args]
Ends(id, status, store, output) ==
    [type |-> "completed", response |-> [Response(status, None, store, output) EXCEPT !.id = id]]

InteractionsStages ==
    <<UpTo(1, {[type |-> "created", id |-> resp]}),
      UpTo(1, {Starts(0, CallStep(call1, EmptyObject))}),
      UpTo(1, {Starts(1, OutputStep(<<>>)), Starts(1, CallStep(call2, None))}),
      UpTo(1, {Grows(0, ArgsDelta(<<"{">>)), Grows(0, Whole(call2, None)), [type |-> "created", id |-> call1]}),
      UpTo(1, {Grows(0, Whole(call1, Y))}),
      UpTo(1, {Grows(0, ArgsDelta(<<"x", "}">>)), Grows(0, ArgsDelta(X)), [type |-> "future"]}),
      UpTo(1, {Grows(1, Whole(None, Y)), Grows(0, Interactions!StepDelta("thought_signature")),
               Grows(1, Interactions!StepDelta("text")), Grows(1, Interactions!StepDelta("image"))}),
      UpTo(1, {StepFrame(0, "step.stop")}), UpTo(1, {StepFrame(1, "step.stop")}),
      UpTo(1, {Ends(resp, "completed", None, None), Ends(resp, "requires_action", FALSE, None), Ends(call1, "completed", None, None),
               Ends(resp, "cancelled", None, None), Ends(resp, "completed", None, <<CallStep(call1, Y), OutputStep(<<2>>)>>),
               Ends(resp, "completed", None, <<CallStep(call2, Y), CallStep(call1, BlankX)>>),
               Ends(resp, "completed", None, <<CallStep(call1, Y), CallStep(call1, Y)>>),
               Ends(resp, "completed", None, <<OutputStep(<<1>>)>>), [type |-> "done"]})>>

-----------------------------------------------------------------------------
(* Event-stream messages.                                                  *)

Sealed(bytes) == Append(bytes, EventStream!Checksum(bytes))
Prelude(total, headers) == Sealed(<<EventStream!Lengths(total, headers)>>)
Wrapped(kind, payload) == Sealed(Prelude(5, 1) \o <<EventStream!Headers(kind), EventStream!Body(payload)>>)
LastDelta == [type |-> "message_delta", stop |-> "end_turn"]

Messages ==
    {Wrapped("event", LastDelta), Wrapped("event", [type |-> "message_stop"]), Wrapped("event", [type |-> "malformed"]),
     Wrapped("exception", LastDelta), Wrapped("malformed", LastDelta),
     Sealed(Prelude(4, 0) \o <<EventStream!Body(LastDelta)>>),
     SubSeq(Wrapped("event", LastDelta), 1, 3),
     Append(Prelude(4, 1) \o <<EventStream!Headers("event")>>, EventStream!Checksum(<<>>)),
     <<EventStream!Lengths(5, 1), EventStream!Checksum(<<>>)>>,
     Prelude(2, 0), Prelude(7, 0), Prelude(5, 3)}

-----------------------------------------------------------------------------

Wire(scenario, codec, official, plan) ==
    [scenario |-> scenario, codec |-> codec, bedrock |-> scenario = "messages", official |-> official, plan |-> plan,
     continues |-> codec \in {"responses", "interactions"} /\ ~plan]

MCWires ==
    {Wire("framing", "chat", FALSE, FALSE), Wire("chat", "chat", FALSE, FALSE),
     Wire("calls", "responses", TRUE, FALSE), Wire("calls", "responses", FALSE, FALSE),
     Wire("computer", "responses", TRUE, FALSE), Wire("computer", "responses", TRUE, TRUE), Wire("computer", "responses", FALSE, FALSE),
     Wire("text", "anthropic", FALSE, FALSE), Wire("tools", "anthropic", FALSE, FALSE),
     Wire("thinking", "anthropic", FALSE, FALSE), Wire("messages", "anthropic", FALSE, FALSE),
     Wire("parts", "gemini", FALSE, FALSE), Wire("steps", "interactions", FALSE, FALSE)}

Stages(scenario) ==
    CASE scenario = "chat" -> ChatStages
      [] scenario = "calls" -> ResponsesStages
      [] scenario = "computer" -> ComputerStages
      [] scenario = "text" -> TextStages
      [] scenario = "tools" -> ToolStages
      [] scenario = "thinking" -> ThinkingStages
      [] scenario = "parts" -> GeminiStages
      [] scenario = "steps" -> InteractionsStages

Frame(payload) == <<Sse!Data(payload), Sse!LF, Sse!LF>>

MCPieces(w) ==
    CASE w.scenario = "framing" ->
            {<<b>> : b \in {Sse!Data(Open), Sse!Data([type |-> "done"]), Sse!Comment, Sse!LF, Sse!CR}}
      [] w.scenario = "messages" -> Messages
      [] OTHER -> {Frame(p) : p \in UNION {stage.frames : stage \in ToSet(Stages(w.scenario))}}

Written == {sent[i].payload : i \in {j \in DOMAIN sent : sent[j].byte = "data"}}

\* The frames that may come next.
Upcoming ==
    LET stages == Stages(wire.scenario)
        Used(i) == stages[i].frames \cap Written
    IN  UNION {stages[i].frames \ Written :
                  i \in {i \in DOMAIN stages : /\ Cardinality(Used(i)) < stages[i].limit
                                               /\ \A j \in i + 1 .. Len(stages) : Used(j) = {}}}

ByteWise ==
    /\ wire.scenario = "framing"
    /\ Next
    /\ sent' # sent \/ over' # over => Reads
    /\ Len(sent') <= MaxBytes /\ Len(sent') - at' <= MaxUnread

MessageWise ==
    /\ wire.scenario = "messages"
    /\ \/ \E bytes \in Messages : Len(sent) + Len(bytes) <= MaxMessageBytes /\ Reads /\ Send(bytes)
       \/ Reads /\ Hang("closed")
       \/ \E n \in 1 .. Len(sent) - at : ReadChunk("batch", n)
       \/ ReadEnd("batch")

FrameWise ==
    /\ wire.scenario \notin {"framing", "messages"}
    /\ \/ Reads /\ at = Len(sent) /\ \E p \in Upcoming : Send(Frame(p))
       \/ Reads /\ at = Len(sent) /\ Hang("closed")
       \/ at < Len(sent) /\ ReadChunk("batch", Len(sent) - at)
       \/ ReadEnd("batch")

MCInit == Init /\ (first = <<>> <=> wire.scenario # "framing")
MCSpec == MCInit /\ [][ByteWise \/ MessageWise \/ FrameWise]_vars
=============================================================================
