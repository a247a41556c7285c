-------------------------- MODULE AnthropicDecoder --------------------------
(***************************************************************************)
(* AnthropicStreamDecoder (codecs/anthropic/stream.rs): Messages events to *)
(* stream events.  Text blocks and native blocks are held until their      *)
(* content_block_stop, so that an unknown delta can still make them        *)
(* incomplete; what is held is limited in bytes over all blocks.           *)
(*                                                                         *)
(* The source of a frame, of a content block, of a piece of text and of a  *)
(* citation are one byte each, an argument fragment one per character.     *)
(* A content block is [type, filled, citations, opaque] for a text (filled *)
(* when it starts with a piece, citations present or not, opaque with      *)
(* fields the decoder does not know), [type, id, name] for a tool use, and *)
(* [type] otherwise.  Usage, inference, search observations, container     *)
(* metadata and connector text are left out.                               *)
(***************************************************************************)
EXTENDS StreamEvents

CONSTANT MaxPendingBytes    \* MAX_PENDING_NATIVE_BYTES

NewDecoder ==
    [tools |-> <<>>, native |-> <<>>, cited |-> <<>>, bytes |-> 0, broken |-> {},
     fallback |-> {}, stop |-> None, done |-> FALSE]

IsFrame(f) ==
    /\ f.type \in {"blank", "ping", "garbled", "error", "future", "fallback", "message_start", "block_start",
                   "block_delta", "block_stop", "message_delta", "message_stop"}
    /\ f.type = "block_start" =>
          f.block.type \in {"text", "server_tool_use", "web_search_tool_result", "thinking", "redacted_thinking", "tool_use"}
    /\ f.type = "block_delta" /\ f.delta.type = "input" => IsSequence(f.delta.text)

Ok(d, out) == [decoder |-> d, out |-> out, error |-> None]
Err(s, error) == [decoder |-> s.decoder, out |-> <<>>, error |-> error]
Then(s, Rest(_)) == IF s.error # None THEN s ELSE Rest(s)
Emit(s, events) == [s EXCEPT !.out = @ \o events]
Without(f, index) == [i \in DOMAIN f \ {index} |-> f[i]]
With(f, index, value) == [i \in DOMAIN f \cup {index} |-> IF i = index THEN value ELSE f[i]]

\* reserve_native_bytes
Reserve(s, bytes) ==
    IF s.decoder.bytes + bytes > MaxPendingBytes THEN Err(s, "interrupted")
    ELSE [s EXCEPT !.decoder.bytes = @ + bytes]

Release(s, bytes) == [s EXCEPT !.decoder.bytes = IF @ < bytes THEN 0 ELSE @ - bytes]

-----------------------------------------------------------------------------
(* Text blocks.  Until a citation, an unknown field or an unknown delta    *)
(* shows up, their frames are buffered; from then on they are observed.    *)

\* start_cited_text_block
StartText(s, index, block) ==
    LET observing == block.citations \/ block.opaque
        pieces == IF block.filled THEN 1 ELSE 0
        retained == 1 + pieces + (IF block.citations THEN 1 ELSE 0) + (IF observing THEN 0 ELSE 1)
        pending == [pieces |-> pieces, citations |-> block.citations, opaque |-> block.opaque,
                    incomplete |-> FALSE, observing |-> observing,
                    buffered |-> IF observing THEN 0 ELSE 1, retained |-> retained]
    IN  IF index \in DOMAIN s.decoder.cited THEN Err(s, "interrupted")
        ELSE Then(Reserve(s, retained), LAMBDA r :
                 Emit([r EXCEPT !.decoder.cited = With(@, index, pending)],
                      (IF observing THEN <<Observation>> ELSE <<>>)
                      \o (IF block.filled THEN <<TextDelta(index)>> ELSE <<>>)))

\* retain_cited_text_frame
RetainFrame(s, index) ==
    IF s.decoder.cited[index].observing THEN Emit(s, <<Observation>>)
    ELSE Then(Reserve(s, 1), LAMBDA r :
             [r EXCEPT !.decoder.cited[index].retained = @ + 1,
                       !.decoder.cited[index].buffered = @ + 1])

\* Mutant: the buffered frames are let go of twice, here and at the stop.
ObserveFramesOnly(s, index) ==
    LET buffered == s.decoder.cited[index].buffered
    IN  IF s.decoder.cited[index].observing THEN s
        ELSE Emit(Release([s EXCEPT !.decoder.cited[index].observing = TRUE,
                                    !.decoder.cited[index].buffered = 0], buffered),
                  [i \in 1 .. buffered |-> Observation])

\* observe_cited_text_frames, unless the block was observed already.
ObserveFrames(s, index) ==
    LET buffered == s.decoder.cited[index].buffered
    IN  IF s.decoder.cited[index].observing THEN s
        ELSE Emit(Release([s EXCEPT !.decoder.cited[index].observing = TRUE,
                                    !.decoder.cited[index].retained = @ - buffered,
                                    !.decoder.cited[index].buffered = 0], buffered),
                  [i \in 1 .. buffered |-> Observation])

\* cited_text_delta, mark_cited_text_incomplete
TextBlockDelta(s, index, delta) ==
    CASE delta.type = "text" ->
            Then(Reserve(s, 1), LAMBDA r :
                Then(RetainFrame([r EXCEPT !.decoder.cited[index].retained = @ + 1,
                                           !.decoder.cited[index].pieces = @ + 1], index),
                     LAMBDA q : Emit(q, <<TextDelta(index)>>)))
      [] delta.type = "citation" ->
            Then(Reserve(s, 1), LAMBDA r :
                Then(RetainFrame([r EXCEPT !.decoder.cited[index].retained = @ + 1,
                                           !.decoder.cited[index].citations = TRUE], index),
                     LAMBDA q : ObserveFrames(q, index)))
      [] OTHER ->
            Then(RetainFrame([s EXCEPT !.decoder.cited[index].incomplete = TRUE], index),
                 LAMBDA r : ObserveFrames(r, index))

\* finish_cited_text_block
FinishText(s, index) ==
    LET pending == s.decoder.cited[index]
        content == IF pending.incomplete \/ ~(pending.citations \/ pending.opaque) THEN <<>>
                   ELSE IF pending.opaque THEN <<ProviderContent(index)>>
                   ELSE <<TextContent(index, pending.pieces)>>
    IN  Emit(Release([s EXCEPT !.decoder.cited = Without(@, index)], pending.retained),
             (IF pending.observing THEN <<Observation>> ELSE <<>>) \o content)

-----------------------------------------------------------------------------
(* Native blocks.  seen is input_json_seen: an input came, maybe an empty  *)
(* one, and replaces the input the block started with.                     *)

StartNative(s, index, block) ==
    LET pending == [assembles |-> block.type = "server_tool_use", input |-> <<>>,
                    seen |-> FALSE, incomplete |-> FALSE, retained |-> 1]
    IN  IF index \in DOMAIN s.decoder.native THEN Err(s, "interrupted")
        ELSE Then(Reserve(s, 1), LAMBDA r :
                 Emit([r EXCEPT !.decoder.native = With(@, index, pending)], <<Observation>>))

NativeBlockDelta(s, index, delta) ==
    LET seen == Emit(s, <<Observation>>)
    IN  IF s.decoder.native[index].assembles /\ delta.type = "input"
          THEN Then(Reserve(seen, Len(delta.text)), LAMBDA r :
                   [r EXCEPT !.decoder.native[index].retained = @ + Len(delta.text),
                             !.decoder.native[index].input = @ \o delta.text,
                             !.decoder.native[index].seen = TRUE])
          ELSE [seen EXCEPT !.decoder.native[index].incomplete = TRUE]

\* finish_native_block: an incomplete block leaves no content, nor does one whose
\* input is no object.
FinishNative(s, index) ==
    LET pending == s.decoder.native[index]
        complete == ~pending.incomplete /\ (pending.seen => IsObject(pending.input))
    IN  Emit(Release([s EXCEPT !.decoder.native = Without(@, index)], pending.retained),
             <<Observation>> \o (IF complete THEN <<ProviderContent(index)>> ELSE <<>>))

-----------------------------------------------------------------------------
(* Frames.                                                                 *)

\* block_start
BlockStart(s, index, block) ==
    CASE block.type = "text" -> StartText(s, index, block)
      [] block.type \in {"server_tool_use", "web_search_tool_result"} -> StartNative(s, index, block)
      [] block.type = "thinking" -> s
      [] block.type = "redacted_thinking" -> Emit(s, <<RedactedThinking(index)>>)
      [] block.type = "tool_use" ->
            Emit([s EXCEPT !.decoder.tools = Append(@, [index |-> index, id |-> block.id, name |-> block.name])],
                 <<ToolCallDelta(index, block.id, block.name, <<>>)>>)

\* The tool call opened first at this index.
ToolAt(d, index) ==
    LET at == {i \in DOMAIN d.tools : d.tools[i].index = index}
    IN  d.tools[CHOOSE i \in at : \A j \in at : i <= j]

\* block_delta of a block that is not held.
PlainDelta(s, index, delta) ==
    LET tool == \E i \in DOMAIN s.decoder.tools : s.decoder.tools[i].index = index
    IN  CASE delta.type = "text" -> Emit(s, <<TextDelta(index)>>)
          [] delta.type = "thinking" -> Emit(s, <<ReasoningDelta(index)>>)
          [] delta.type = "signature" -> Emit(s, <<Signature(index)>>)
          [] delta.type = "input" /\ tool ->
                LET call == ToolAt(s.decoder, index)
                IN  Emit(s, <<ToolCallDelta(index, call.id, call.name, delta.text)>>)
          [] delta.type = "unknown" ->
                Emit([s EXCEPT !.decoder.broken = IF tool THEN @ \cup {index} ELSE @], <<Observation>>)
          [] OTHER -> Emit(s, <<Observation>>)

\* block_delta
BlockDelta(s, index, delta) ==
    LET noted == IF delta.type = "citation" THEN Emit(s, <<Observation>>) ELSE s
    IN  IF index \in DOMAIN s.decoder.cited THEN TextBlockDelta(noted, index, delta)
        ELSE IF index \in DOMAIN s.decoder.native THEN NativeBlockDelta(noted, index, delta)
        ELSE PlainDelta(noted, index, delta)

\* block_stop and the BlockEnd after it
BlockStop(s, index) ==
    LET closed == IF index \in DOMAIN s.decoder.native THEN FinishNative(s, index)
                  ELSE IF index \in DOMAIN s.decoder.cited THEN FinishText(s, index) ELSE s
    IN  Emit(closed, <<BlockEnd(index)>>)

FinishInto(s) ==
    IF s.decoder.done THEN s
    ELSE Emit([s EXCEPT !.decoder.done = TRUE],
              <<End(IF s.decoder.stop = None THEN "end_turn" ELSE s.decoder.stop)>>)

\* message_stop and the end of the bytes: no block is held and no call is broken.
NothingHeld(d) == DOMAIN d.native = {} /\ DOMAIN d.cited = {} /\ d.broken = {}

\* decode_frame.  A fallback control stays an observation, with the deltas and
\* the stop of its index.
DecodeFrame(d, f) ==
    LET s == Ok(d, <<>>)
    IN  CASE f.type \in {"blank", "ping"} -> s
          [] f.type = "garbled" -> Err(s, "invalid")
          [] f.type = "error" -> Err(s, "provider")
          [] f.type = "future" -> Emit(s, <<Observation>>)
          [] f.type = "fallback" ->
                Emit([s EXCEPT !.decoder.fallback = @ \cup {f.index}], <<Observation, Observation>>)
          [] f.type = "message_start" -> Emit(s, <<Start(f.id)>>)
          [] f.type = "block_start" -> BlockStart(s, f.index, f.block)
          [] f.type = "block_delta" -> IF f.index \in d.fallback THEN s ELSE BlockDelta(s, f.index, f.delta)
          [] f.type = "block_stop" -> IF f.index \in d.fallback THEN s ELSE BlockStop(s, f.index)
          [] f.type = "message_delta" -> Emit([s EXCEPT !.decoder.stop = f.stop],
                     <<Observation>> \o (IF d.fallback = {} THEN <<>> ELSE <<Observation>>))
          [] f.type = "message_stop" -> IF NothingHeld(d) THEN FinishInto(s) ELSE Err(s, "interrupted")

\* finish
Finish(d) ==
    IF ~NothingHeld(d) \/ (~d.done /\ d.stop = None) THEN Err(Ok(d, <<>>), "interrupted")
    ELSE FinishInto(Ok(d, <<>>))

=============================================================================
