----------------------------- MODULE ChatDecoder -----------------------------
(***************************************************************************)
(* OpenAiStreamDecoder (codecs/openai/chat/stream.rs): Chat Completions    *)
(* chunks to stream events.  Blocks get numbers in the order in which they *)
(* first show up; a call is known by its index on the wire.                *)
(*                                                                         *)
(* A frame is [type |-> "done"], the sentinel, "blank", "error", "garbled" *)
(* (not JSON), or a "chunk" with what its first choice's delta carries.    *)
(* Usage, inference and search observations are left out.                  *)
(***************************************************************************)
EXTENDS StreamEvents

NewDecoder ==
    [started |-> FALSE, next |-> 0, text |-> None, reasoning |-> None, audio |-> None,
     details |-> FALSE, tools |-> <<>>, stop |-> None, refusal |-> FALSE, done |-> FALSE]

\* A chunk whose choice carries nothing yet.
Chunk == [type |-> "chunk", id |-> None, choice |-> TRUE, reasoning |-> FALSE, details |-> FALSE,
          content |-> FALSE, refusal |-> FALSE, audio |-> FALSE, calls |-> <<>>, finish |-> None]

IsFrame(f) ==
    /\ f.type \in {"done", "blank", "garbled", "error", "chunk"}
    /\ f.type = "chunk" => IsSequence(f.calls)

Ok(d, out) == [decoder |-> d, out |-> out, error |-> None]
Err(d, error) == [decoder |-> d, out |-> <<>>, error |-> error]

\* What a delta of one kind of block emits.
Emitted(kind, block) ==
    CASE kind = "reasoning" -> ReasoningDelta(block)
      [] kind = "text" -> TextDelta(block)
      [] kind = "audio" -> ProviderContent(block)

\* The block of a kind is allocated by its first delta.
Allocated(d, kind) ==
    IF d[kind] = None THEN [d EXCEPT ![kind] = d.next, !.next = @ + 1] ELSE d

\* A delta of one kind of block; reasoning details alone emit nothing (~loud).
Delta(s, here, kind, loud) ==
    LET d == Allocated(s.decoder, kind)
    IN  IF ~here THEN s ELSE Ok(d, IF loud THEN Append(s.out, Emitted(kind, d[kind])) ELSE s.out)

\* The place of the call with this wire index, or a new place.
Slot(tools, index) ==
    IF \E i \in DOMAIN tools : tools[i].index = index
      THEN CHOOSE i \in DOMAIN tools : tools[i].index = index ELSE Len(tools) + 1

\* tool_fragment
ToolFragment(s, call) ==
    LET d == s.decoder
        i == Slot(d.tools, call.index)
        known == i \in DOMAIN d.tools
        old == IF known THEN d.tools[i] ELSE [index |-> call.index, block |-> d.next, id |-> None, name |-> None]
        slot == [old EXCEPT !.id = IF @ = None THEN call.id ELSE @,
                            !.name = IF @ = None THEN call.name ELSE @]
    IN  Ok([d EXCEPT !.tools = IF known THEN [@ EXCEPT ![i] = slot] ELSE Append(@, slot),
                     !.next = IF known THEN @ ELSE @ + 1],
           Append(s.out, ToolCallDelta(slot.block, slot.id, slot.name, call.fragment)))

StopReason(finish) ==
    CASE finish = "stop" -> "end_turn"
      [] finish = "tool_calls" -> "tool_use"
      [] finish = "length" -> "max_tokens"
      [] finish = "content_filter" -> "refusal"

\* A refusal replaces an ordinary end only.
WithRefusal(stop, refusal) == IF stop = "end_turn" /\ refusal THEN "refusal" ELSE stop

\* finish_into: [DONE] and the end of the stream emit one End.
FinishInto(d, out) ==
    LET stop == IF d.stop = None THEN "end_turn" ELSE d.stop
        native == IF d.details THEN <<ProviderContent(d.reasoning)>> ELSE <<>>
    IN  IF d.done THEN Ok(d, out)
        ELSE Ok([d EXCEPT !.done = TRUE], out \o native \o <<End(WithRefusal(stop, d.refusal))>>)

ToolFragments(s, calls) ==
    LET taken[i \in 0 .. Len(calls)] == IF i = 0 THEN s ELSE ToolFragment(taken[i - 1], calls[i])
    IN  taken[Len(calls)]

DecodeChunk(d, f) ==
    LET started == Ok([d EXCEPT !.started = TRUE], IF d.started THEN <<>> ELSE <<Start(f.id)>>)
        seen == [started EXCEPT !.decoder.details = @ \/ f.details,
                                !.decoder.refusal = @ \/ f.refusal]
        thought == Delta(seen, f.reasoning \/ f.details, "reasoning", f.reasoning)
        said == Delta(thought, f.content, "text", TRUE)
        refused == Delta(said, f.refusal, "text", TRUE)
        heard == Delta(refused, f.audio, "audio", TRUE)
        called == ToolFragments(heard, f.calls)
    IN  IF ~f.choice THEN started
        ELSE [called EXCEPT !.decoder.stop = IF f.finish = None THEN @ ELSE StopReason(f.finish)]

\* decode_frame
DecodeFrame(d, f) ==
    CASE f.type = "done" -> FinishInto(d, <<>>)
      [] f.type = "blank" -> Ok(d, <<>>)
      [] f.type = "garbled" -> Err(d, "invalid")
      [] f.type = "error" -> Err(d, "provider")
      [] f.type = "chunk" -> DecodeChunk(d, f)

\* finish
Finish(d) ==
    IF ~d.done /\ d.stop = None THEN Err(d, "interrupted") ELSE FinishInto(d, <<>>)
=============================================================================
