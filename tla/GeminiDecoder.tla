---------------------------- MODULE GeminiDecoder ----------------------------
(***************************************************************************)
(* GeminiStreamDecoder (codecs/gemini/stream.rs): streamGenerateContent    *)
(* frames to stream events.  Every frame is a whole response, its parts    *)
(* continue those of the frame before or not, and nothing but the end of   *)
(* the bytes says that the stream is over.                                 *)
(*                                                                         *)
(* A frame is "blank", "garbled" (not JSON), "error" or a "generate" with  *)
(* the parts of its candidate, if there is one.  A part is [part, signed], *)
(* a part with a functionCall also has [id, name, args], where args is     *)
(* None if they are left out.  Usage, inference, search and grounding      *)
(* observations are left out.                                              *)
(***************************************************************************)
EXTENDS StreamEvents

NewDecoder ==
    [started |-> FALSE, next |-> 0, text |-> None, reasoning |-> None,
     stop |-> None, tool |-> FALSE, blocked |-> FALSE, done |-> FALSE]

\* A frame whose candidate carries nothing.
Generate == [type |-> "generate", blocked |-> FALSE, candidate |-> TRUE, parts |-> <<>>, finish |-> None]

IsFrame(f) ==
    /\ f.type \in {"blank", "garbled", "error", "generate"}
    /\ f.type = "generate" /\ f.candidate =>
          /\ IsSequence(f.parts)
          /\ \A i \in DOMAIN f.parts : f.parts[i].part \in {"native", "call", "thought", "text", "other"}

Ok(d, out) == [decoder |-> d, out |-> out, error |-> None]
Err(d, error) == [decoder |-> d, out |-> <<>>, error |-> error]

\* The id the client makes up for a call that has none: a counter of the process,
\* here the number of the call's block.
LocalId(block) == <<"local", block>>

\* A part of its own block, after which texts and thoughts start anew.
Alone(s, tool, events) ==
    LET d == s.decoder
    IN  [s EXCEPT !.decoder = [d EXCEPT !.text = None, !.reasoning = None, !.next = @ + 1, !.tool = @ \/ tool],
                  !.out = @ \o events]

CallEvents(part, block) ==
    <<ToolCallDelta(block, IF part.id = None THEN LocalId(block) ELSE part.id, part.name,
                    IF part.args = None THEN Null ELSE part.args)>>
    \o (IF part.signed THEN <<Signature(block)>> ELSE <<>>)
    \o <<BlockEnd(block)>>

\* A text or a thought: it goes on in the block of the frame before unless this
\* frame had one already, a signature closes it, and the other kind starts anew.
Running(s, kind, other, part) ==
    LET d == s.decoder
        open == IF s.seen[kind] THEN None ELSE d[kind]
        block == IF open = None THEN d.next ELSE open
    IN  [s EXCEPT !.decoder = [d EXCEPT ![other] = None,
                                        ![kind] = IF part.signed THEN None ELSE block,
                                        !.next = IF open = None THEN @ + 1 ELSE @],
                  !.seen[kind] = TRUE,
                  !.out = @ \o <<IF kind = "text" THEN TextDelta(block) ELSE ReasoningDelta(block)>>
                         \o (IF part.signed THEN <<Signature(block)>> ELSE <<>>)]

TakePart(s, part) ==
    CASE part.part = "native" -> Alone(s, FALSE, <<ProviderContent(s.decoder.next)>>)
      [] part.part = "call" -> Alone(s, TRUE, CallEvents(part, s.decoder.next))
      [] part.part = "thought" -> Running(s, "reasoning", "text", part)
      [] part.part = "text" -> Running(s, "text", "reasoning", part)
      [] part.part = "other" -> s

TakeParts(s, parts) ==
    LET taken[i \in 0 .. Len(parts)] == IF i = 0 THEN s ELSE TakePart(taken[i - 1], parts[i])
    IN  taken[Len(parts)]

StopReason(finish) ==
    CASE finish = "STOP" -> "end_turn"
      [] finish = "MAX_TOKENS" -> "max_tokens"
      [] finish = "SAFETY" -> "refusal"

\* with_tool_stop_reason: only an ordinary end is refined.
WithTool(stop, tool) == IF stop = "end_turn" /\ tool THEN "tool_use" ELSE stop

\* A blocked prompt stays a refusal whatever the candidates say.
DecodeGenerate(d, f) ==
    LET opened == [d EXCEPT !.started = TRUE,
                            !.blocked = @ \/ f.blocked,
                            !.stop = IF f.blocked THEN "refusal" ELSE @]
        s == [decoder |-> opened, out |-> IF d.started THEN <<>> ELSE <<Start(None)>>, error |-> None,
              seen |-> [text |-> FALSE, reasoning |-> FALSE]]
        taken == TakeParts(s, f.parts)
        r == IF f.candidate THEN taken ELSE s
    IN  Ok([r.decoder EXCEPT !.stop = IF f.candidate /\ f.finish # None /\ ~opened.blocked
                                        THEN StopReason(f.finish) ELSE @], r.out)

\* decode_frame
DecodeFrame(d, f) ==
    CASE f.type = "blank" -> Ok(d, <<>>)
      [] f.type = "garbled" -> Err(d, "invalid")
      [] f.type = "error" -> Err(d, "provider")
      [] f.type = "generate" -> DecodeGenerate(d, f)

\* finish
Finish(d) ==
    IF d.done THEN Ok(d, <<>>)
    ELSE IF d.stop = None THEN Err(d, "interrupted")
    ELSE Ok([d EXCEPT !.done = TRUE], <<End(WithTool(d.stop, d.tool))>>)
=============================================================================
