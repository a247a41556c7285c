------------------------- MODULE InteractionsDecoder -------------------------
(***************************************************************************)
(* InteractionsDecoder (codecs/gemini_interactions/stream.rs): the steps   *)
(* of an interaction are collected, and nothing but a Start is emitted     *)
(* before interaction.completed has confirmed them; then everything is.    *)
(*                                                                         *)
(* A step is [type, id, name, args, parts, extra]: parts are those of a    *)
(* model_output, the number of pieces of a text and 0 for an image, and    *)
(* extra are the fields beside these.  A delta is [type, text, id, name,   *)
(* args]; what it does not carry is None.  "created" and "completed" are   *)
(* interaction.created and interaction.completed; the latter carries the   *)
(* response [id, status, reason, store, output], where output are its      *)
(* steps or None.  A frame counts as one byte.  The desktop functions of   *)
(* a computer tool are left out.                                           *)
(***************************************************************************)
EXTENDS StreamEvents, FiniteSets

CONSTANT MaxInteractionBytes    \* the 16 MiB of decode_frame

Step(type) == [type |-> type, id |-> None, name |-> None, args |-> None, parts |-> <<>>, extra |-> {}]
StepDelta(type) == [type |-> type, text |-> <<>>, id |-> None, name |-> None, args |-> None]

\* A step under way: fragments are the pieces of its arguments.
Begun(step) == [step |-> step, fragments |-> <<>>, stopped |-> FALSE]

NewDecoder == [steps |-> <<>>, id |-> None, started |-> FALSE, ended |-> FALSE, buffered |-> 0, response |-> None]

IsStep(step) == DOMAIN step = {"type", "id", "name", "args", "parts", "extra"} /\ IsSequence(step.parts)

IsFrame(f) ==
    /\ f.type \in {"done", "blank", "garbled", "created", "step.start", "step.delta", "step.stop",
                   "completed", "error", "future"}
    /\ f.type = "step.start" => f.index \in Nat /\ IsStep(f.step)
    /\ f.type = "completed" /\ f.response.output # None =>
          /\ IsSequence(f.response.output)
          /\ \A k \in DOMAIN f.response.output : IsStep(f.response.output[k])

Ok(d, out) == [decoder |-> d, out |-> out, error |-> None]
Err(d, error) == [decoder |-> d, out |-> <<>>, error |-> error]
Interrupted(d) == Err(d, "interrupted")

Open(d, index) == index \in DOMAIN d.steps /\ ~d.steps[index].stopped

\* append_text_delta
AppendText(parts) ==
    IF parts # <<>> /\ parts[Len(parts)] # 0 THEN [parts EXCEPT ![Len(parts)] = @ + 1] ELSE Append(parts, 1)

\* A delta of no special kind for its step: its fields are merged; a snapshot of
\* the arguments supersedes the fragments before it.
Merge(begun, delta) ==
    LET Take(old, new) == IF new = None THEN old ELSE new
        s == begun.step
    IN  IF s.type = "function_call"
          THEN [begun EXCEPT !.step.id = Take(@, delta.id), !.step.name = Take(@, delta.name),
                             !.step.args = Take(@, delta.args),
                             !.step.extra = @ \cup ({delta.type} \cap {"text", "image"}),
                             !.fragments = IF delta.args = None THEN @ ELSE <<>>]
          ELSE [begun EXCEPT !.step.extra = @ \cup {delta.type}]

KeepsIdentity(s, delta) ==
    /\ s.id # None /\ delta.id # None => s.id = delta.id
    /\ s.name # None /\ delta.name # None => s.name = delta.name

\* step.delta of an open step
Grow(begun, delta) ==
    CASE delta.type = "arguments_delta" /\ begun.step.type = "function_call" ->
            [begun EXCEPT !.fragments = @ \o delta.text]
      [] delta.type = "text" /\ begun.step.type = "model_output" ->
            [begun EXCEPT !.step.parts = AppendText(@)]
      [] delta.type = "image" /\ begun.step.type = "model_output" ->
            [begun EXCEPT !.step.parts = Append(@, 0)]
      [] delta.type \in {"thought_signature", "thought_summary"} ->
            [begun EXCEPT !.step.extra = @ \cup {delta.type}]
      [] OTHER -> Merge(begun, delta)

StepDeltaFrame(d, f) ==
    LET begun == d.steps[f.index]
        merges == begun.step.type = "function_call"
                  /\ f.delta.type \notin {"arguments_delta", "thought_signature", "thought_summary"}
    IN  IF ~Open(d, f.index) THEN Interrupted(d)
        ELSE IF merges /\ ~KeepsIdentity(begun.step, f.delta) THEN Interrupted(d)
        ELSE Ok([d EXCEPT !.steps[f.index] = Grow(begun, f.delta)], <<>>)

\* step.start
StepStart(d, f) ==
    IF ~d.started \/ f.index \in DOMAIN d.steps THEN Interrupted(d)
    ELSE Ok([d EXCEPT !.steps = [i \in DOMAIN @ \cup {f.index} |->
                                    IF i = f.index THEN Begun(f.step) ELSE @[i]]], <<>>)

\* step.stop
StepStop(d, f) ==
    LET begun == d.steps[f.index]
        joined == begun.step.type = "function_call" /\ begun.fragments # <<>>
        stopped == [begun EXCEPT !.stopped = TRUE,
                                 !.fragments = IF joined THEN <<>> ELSE @,
                                 !.step.args = IF joined THEN begun.fragments ELSE @]
    IN  IF ~Open(d, f.index) \/ (joined /\ ~Parses(begun.fragments)) THEN Interrupted(d)
        ELSE Ok([d EXCEPT !.steps[f.index] = stopped], <<>>)

-----------------------------------------------------------------------------
(* interaction.completed.                                                  *)

IsCall(step) == step.type = "function_call"

\* The indices of the steps are below this.
Indices(d) ==
    IF DOMAIN d.steps = {} THEN 0
    ELSE (CHOOSE k \in DOMAIN d.steps : \A j \in DOMAIN d.steps : k >= j) + 1

\* The steps in the order of their indices.
Streamed(d) ==
    LET below[i \in 0 .. Indices(d)] ==
            IF i = 0 THEN <<>>
            ELSE IF i - 1 \in DOMAIN d.steps THEN Append(below[i - 1], d.steps[i - 1].step) ELSE below[i - 1]
    IN  below[Indices(d)]

\* Arguments that are left out count as null.
SameValue(a, b) == Value(IF a = None THEN Null ELSE a) = Value(IF b = None THEN Null ELSE b)
SameStep(a, b) == [a EXCEPT !.args = None] = [b EXCEPT !.args = None] /\ SameValue(a.args, b.args)

\* Whether the terminal steps are those that were streamed: every call is found by
\* its id, with the same fields, of other steps only the type is compared.
Confirms(final, streamed) ==
    LET calls == {k \in DOMAIN final : IsCall(final[k])}
        begun == {k \in DOMAIN streamed : IsCall(streamed[k])}
        ById(id) == {k \in begun : streamed[k].id = id}
    IN  /\ Len(final) = Len(streamed)
        /\ \A k \in DOMAIN final \ calls : final[k].type = streamed[k].type
        /\ \A j, k \in calls : final[j].id = final[k].id => j = k
        /\ \A k \in calls :
              /\ final[k].id # None
              /\ Cardinality(ById(final[k].id)) = 1
              /\ \A i \in ById(final[k].id) : SameStep(final[k], streamed[i])
        /\ Cardinality(calls) = Cardinality(begun)

\* decode::response: whether the steps make a response.
Executable(status, steps) ==
    LET calls == {k \in DOMAIN steps : IsCall(steps[k])}
    IN  /\ status \in {"completed", "requires_action"}
        /\ \A k \in calls : steps[k].id # None /\ steps[k].name # None
                            /\ steps[k].args # None /\ IsObject(steps[k].args)
        /\ \A j, k \in calls : steps[j].id = steps[k].id => j = k
        /\ status = "requires_action" => calls # {}

Plain(step) == step.extra = {} /\ \A k \in DOMAIN step.parts : step.parts[k] # 0

TextBlocks(block, parts) ==
    [k \in 1 .. 2 * Len(parts) |->
        LET b == block + (k - 1) \div 2
        IN  IF k % 2 = 1 THEN WholeText(b, parts[(k + 1) \div 2]) ELSE BlockEnd(b)]

\* step_blocks: the events of a step, the first of whose blocks is given: the whole
\* content of each block, then its end.
StepEvents(block, step) ==
    IF IsCall(step) THEN <<ToolCallDelta(block, step.id, step.name, step.args), BlockEnd(block)>>
    ELSE IF step.type = "model_output" /\ Plain(step) THEN TextBlocks(block, step.parts)
    ELSE <<ProviderContent(block), BlockEnd(block)>>

\* Two events for each of the blocks before.
EventsOf(steps) ==
    LET emitted[i \in 0 .. Len(steps)] ==
            IF i = 0 THEN <<>>
            ELSE emitted[i - 1] \o StepEvents(Len(emitted[i - 1]) \div 2, steps[i])
    IN  emitted[Len(steps)]

Complete(d, f) ==
    LET streamed == Streamed(d)
        final == f.response.output
        steps == IF final = None THEN streamed ELSE final
        stop == IF \E k \in DOMAIN steps : IsCall(steps[k]) THEN "tool_use" ELSE "end_turn"
    IN  IF \/ ~d.started
           \/ \E i \in DOMAIN d.steps : ~d.steps[i].stopped
           \/ f.response.id # d.id
           \/ final # None /\ ~Confirms(final, streamed)
          THEN Interrupted(d)
        ELSE IF ~Executable(f.response.status, steps) THEN Err(d, "invalid")
        ELSE Ok([d EXCEPT !.ended = TRUE, !.response = [store |-> f.response.store]], EventsOf(steps) \o <<End(stop)>>)

-----------------------------------------------------------------------------

\* The frames that have an event_type.
DecodeEvent(d, f) ==
    CASE f.type = "created" ->
            IF d.started THEN Interrupted(d)
            ELSE Ok([d EXCEPT !.started = TRUE, !.id = f.id], <<Start(f.id)>>)
      [] f.type = "step.start" -> StepStart(d, f)
      [] f.type = "step.delta" -> StepDeltaFrame(d, f)
      [] f.type = "step.stop" -> StepStop(d, f)
      [] f.type = "completed" -> Complete(d, f)
      [] f.type = "error" -> Err(d, "provider")
      [] f.type = "future" -> Ok(d, <<Observation>>)

\* decode_frame
DecodeFrame(d, f) ==
    LET counted == [d EXCEPT !.buffered = @ + 1]
    IN  IF d.ended THEN Ok(d, <<>>)
        ELSE IF f.type \in {"done", "blank", "garbled"} THEN Interrupted(d)
        ELSE IF counted.buffered > MaxInteractionBytes THEN Interrupted(counted)
        ELSE DecodeEvent(counted, f)

\* finish
Finish(d) == IF d.ended THEN Ok(d, <<>>) ELSE Interrupted(d)
=============================================================================
