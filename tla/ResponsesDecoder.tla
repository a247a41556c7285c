-------------------------- MODULE ResponsesDecoder --------------------------
(***************************************************************************)
(* ResponsesStreamDecoder (codecs/openai/responses/stream.rs): Responses   *)
(* events to stream events.  The wire numbers the output items.            *)
(*                                                                         *)
(* An item is a "message" [phase, refusal], a "function_call" [call, name, *)
(* args], a "computer_call" [id, call, status, actions] or an "approval"   *)
(* (an mcp_approval_request, or a tool search the client executes).  The   *)
(* arguments of an item that was only added are provisional.  A terminal   *)
(* frame carries the response: [id, status, reason, store, output], where  *)
(* output is a sequence of items or None.  The decoder is configured for   *)
(* the official profile or not, and for a ChatGPT plan or not.  Usage,     *)
(* inference and search observations are left out.                         *)
(***************************************************************************)
EXTENDS StreamEvents

NewDecoder(official, plan) ==
    [official |-> official, plan |-> plan, started |-> FALSE, id |-> None, native |-> {},
     calls |-> <<>>, added |-> <<>>, completed |-> <<>>, computer |-> FALSE, stop |-> None,
     tool |-> FALSE, refusal |-> FALSE, action |-> FALSE, response |-> None, done |-> FALSE]

IsItem(item) == item.type \in {"message", "function_call", "computer_call", "approval"}

IsFrame(f) ==
    /\ f.type \in {"done", "blank", "garbled", "failed", "created", "added", "text", "reasoning", "refusal",
                   "arguments.delta", "arguments.done", "item.done", "completed", "incomplete"}
    /\ f.type = "item.done" => IsItem(f.item)
    /\ f.type \in {"completed", "incomplete"} /\ f.response.output # None =>
          /\ IsSequence(f.response.output)
          /\ \A k \in DOMAIN f.response.output : IsItem(f.response.output[k])

Ok(d, out) == [decoder |-> d, out |-> out, error |-> None]
Err(s, error) == [decoder |-> s.decoder, out |-> <<>>, error |-> error]

\* The rest of a handler, unless it has returned an error.
Then(s, Rest(_)) == IF s.error # None THEN s ELSE Rest(s)
Require(s, holds, error) == IF holds THEN s ELSE Err(s, error)
Emit(s, events) == [s EXCEPT !.out = @ \o events]

At(items, index) == IF index + 1 \in DOMAIN items THEN items[index + 1] ELSE [type |-> "missing"]
With(f, index, value) == [i \in DOMAIN f \cup {index} |-> IF i = index THEN value ELSE f[i]]

\* The first streamed call with this output index, if any.
Slot(calls, index) ==
    IF \E i \in DOMAIN calls : calls[i].index = index
      THEN CHOOSE i \in DOMAIN calls :
               /\ calls[i].index = index
               /\ \A j \in 1 .. i - 1 : calls[j].index # index
      ELSE 0

SameCall(item, call) == item.type = "function_call" /\ item.call = call.id /\ item.name = call.name

\* Mutant: every snapshot is one more delta.
FinalizeByAppending(s, i, text) ==
    LET call == s.decoder.calls[i]
    IN  Emit([s EXCEPT !.decoder.calls[i].args = text],
             <<ToolCallDelta(call.index, call.id, call.name, text)>>)

\* finalize_function_arguments: a snapshot either continues what was streamed or
\* has its value.
FinalizeArguments(s, i, text) ==
    LET call == s.decoder.calls[i]
        rest == SubSeq(text, Len(call.args) + 1, Len(text))
        delta == IF rest = <<>> THEN <<>> ELSE <<ToolCallDelta(call.index, call.id, call.name, rest)>>
        final == [s EXCEPT !.decoder.calls[i].args = text]
    IN  IF ~Parses(text) THEN Err(s, "invalid")
        ELSE IF call.args \o rest = text THEN Emit(final, delta)
        ELSE Require(final, Parses(call.args) /\ Value(call.args) = Value(text), "invalid")

\* emit_native_payload, emit_native: everything but messages and calls is kept
\* once as provider content; the phase of a message goes beside its text.
EmitNative(s, index, item) ==
    LET new == index \notin s.decoder.native
        kept == [s EXCEPT !.decoder.native = @ \cup {index}]
    IN  CASE item.type = "message" -> IF item.phase /\ new THEN Emit(kept, <<Phase(index)>>) ELSE s
          [] item.type = "approval" ->
                LET asked == [s EXCEPT !.decoder.action = @ \/ s.decoder.official]
                IN  IF new THEN Emit([asked EXCEPT !.decoder.native = @ \cup {index}], <<ProviderContent(index)>>)
                    ELSE asked
          [] item.type \in {"function_call", "computer_call"} -> s

HasRefusal(item) == item.type = "message" /\ item.refusal

-----------------------------------------------------------------------------
(* Frames about one item.                                                  *)

\* response.output_item.added
ItemAdded(s, f) ==
    LET item == f.item
        seen == [s EXCEPT !.decoder.refusal = @ \/ HasRefusal(item)]
    IN  CASE item.type = "computer_call" ->
                Require([seen EXCEPT !.decoder.computer = TRUE,
                                     !.decoder.added = With(@, f.index, [id |-> item.id, call |-> item.call])],
                        f.index \notin DOMAIN s.decoder.added, "invalid")
          [] item.type = "function_call" ->
                Emit([seen EXCEPT !.decoder.tool = TRUE,
                                  !.decoder.calls = Append(@, [index |-> f.index, id |-> item.call,
                                                               name |-> item.name, args |-> <<>>])],
                     <<ToolCallDelta(f.index, item.call, item.name, <<>>)>>)
          [] OTHER -> seen

\* response.function_call_arguments.delta
ArgumentsDelta(s, f) ==
    LET i == Slot(s.decoder.calls, f.index)
        call == s.decoder.calls[i]
    IN  IF i = 0 THEN Err(s, "invalid")
        ELSE Emit([s EXCEPT !.decoder.calls[i].args = @ \o f.text],
                  <<ToolCallDelta(f.index, call.id, call.name, f.text)>>)

\* response.function_call_arguments.done
ArgumentsDone(s, f) ==
    LET i == Slot(s.decoder.calls, f.index)
    IN  IF i = 0 THEN Err(s, "invalid") ELSE FinalizeArguments(s, i, f.text)

\* response.output_item.done
ItemDone(s, f) ==
    LET item == f.item
        i == Slot(s.decoder.calls, f.index)
        FinalCall(r) ==
            IF item.type # "function_call" THEN r
            ELSE IF i = 0 THEN Err(r, "invalid")
            ELSE Then(Require(r, SameCall(item, r.decoder.calls[i]), "invalid"),
                      LAMBDA q : FinalizeArguments(q, i, item.args))
        SameComputer(r) ==
            Require(r, f.index \in DOMAIN r.decoder.added =>
                           /\ item.type = "computer_call"
                           /\ [id |-> item.id, call |-> item.call] = r.decoder.added[f.index], "invalid")
        NoteComputer(r) ==
            IF item.type # "computer_call" THEN r
            ELSE Require([r EXCEPT !.decoder.computer = TRUE,
                                   !.decoder.completed = With(@, f.index, item)],
                         f.index \notin DOMAIN r.decoder.completed, "invalid")
        Close(r) == EmitNative(Emit([r EXCEPT !.decoder.refusal = @ \/ HasRefusal(item)],
                                    <<BlockEnd(f.index)>>), f.index, item)
    IN  Then(Then(Then(FinalCall(s), SameComputer), NoteComputer), Close)

-----------------------------------------------------------------------------
(* The terminal frame.                                                     *)

\* validate_streamed_function_calls, of the calls beside a computer call.
CallsAgree(d, items) ==
    /\ \A i, j \in DOMAIN d.calls : d.calls[i].index = d.calls[j].index => i = j
    /\ \A i \in DOMAIN d.calls :
          LET item == At(items, d.calls[i].index)
              args == IF d.calls[i].args = <<>> THEN EmptyObject ELSE d.calls[i].args
          IN  /\ SameCall(item, d.calls[i])
              /\ Parses(args) /\ Parses(item.args) /\ Value(args) = Value(item.args)
    /\ \A k \in DOMAIN items : items[k].type = "function_call" => Slot(d.calls, k - 1) # 0

\* decode_terminal_computer_calls: whether the terminal items are accepted.
ComputerCallsValid(d, items, completed) ==
    LET computer == {k \in DOMAIN items : items[k].type = "computer_call"}
        called == {k \in DOMAIN items : items[k].type \in {"computer_call", "function_call"}}
    IN  /\ computer # {} => d.official
        /\ \A j, k \in called : items[j].call = items[k].call => j = k
        /\ completed =>
              /\ \A k \in called \ computer : Parses(items[k].args)
              /\ \A k \in computer : items[k].status = "completed" /\ items[k].actions # 0
              /\ \A index \in DOMAIN d.added :
                    LET item == At(items, index)
                    IN  item.type = "computer_call" /\ [id |-> item.id, call |-> item.call] = d.added[index]
              /\ \A index \in DOMAIN d.completed : At(items, index) = d.completed[index]
              /\ computer # {} => CallsAgree(d, items)

\* stop_reason_with_approval_support
StopOf(d, response) ==
    IF d.official /\ response.output # None /\ \E k \in DOMAIN response.output : response.output[k].type = "approval"
      THEN "requires_action"
    ELSE IF response.status = "incomplete"
      THEN CASE response.reason = "max_output_tokens" -> "max_tokens"
             [] response.reason = "content_filter" -> "refusal"
             [] response.reason = None -> "incomplete"
    ELSE IF response.status = "completed" THEN "end_turn" ELSE response.status

\* finish_into
FinishInto(s) ==
    LET d == s.decoder
        stop == IF d.stop \notin {None, "end_turn"} THEN d.stop
                ELSE IF d.action THEN "requires_action"
                ELSE IF d.tool THEN "tool_use"
                ELSE IF d.refusal THEN "refusal" ELSE "end_turn"
    IN  IF d.done THEN s ELSE Emit([s EXCEPT !.decoder.done = TRUE], <<End(stop)>>)

\* The snapshot of a call in the terminal output, if there is one.
FinalizeCall(s, i, items) ==
    LET call == s.decoder.calls[i]
    IN  IF s.error = None /\ SameCall(At(items, call.index), call)
          THEN FinalizeArguments(s, i, At(items, call.index).args) ELSE s

FinalizeCalls(s, items) ==
    LET final[i \in 0 .. Len(s.decoder.calls)] == IF i = 0 THEN s ELSE FinalizeCall(final[i - 1], i, items)
    IN  final[Len(s.decoder.calls)]

\* A computer call is published by a completed response only.
EmitItem(s, index, item, completed) ==
    IF item.type # "computer_call" THEN EmitNative(s, index, item)
    ELSE IF completed THEN Emit([s EXCEPT !.decoder.tool = TRUE], <<Native(index, item)>>)
    ELSE Emit(s, <<ProviderContent(index)>>)

EmitItems(s, items, completed) ==
    LET emitted[k \in 0 .. Len(items)] ==
            IF k = 0 THEN s ELSE EmitItem(emitted[k - 1], k - 1, items[k], completed)
    IN  emitted[Len(items)]

\* The output array of a terminal frame.
TakeOutput(s, f) ==
    LET items == f.response.output
        computer == \/ \E k \in DOMAIN items : items[k].type = "computer_call"
                    \/ f.type = "completed" /\ s.decoder.computer
        completed == f.type = "completed" /\ f.response.status = "completed"
        SameResponse(r) ==
            Require(r, computer => /\ f.response.id # None /\ r.decoder.id = f.response.id
                                   /\ f.response.status = f.type, "invalid")
        Checked(r) == Require(r, ComputerCallsValid(r.decoder, items, completed), "invalid")
    IN  Then(Then(Then(FinalizeCalls(s, items), SameResponse), Checked),
             LAMBDA r : EmitItems(r, items, completed))

\* response.completed, response.incomplete
TerminalFrame(s, f) ==
    LET response == f.response
        d == s.decoder
        Close(r) ==
            FinishInto([r EXCEPT !.decoder.response = [store |-> response.store],
                                 !.decoder.refusal = @ \/ /\ response.output # None
                                                          /\ \E k \in DOMAIN response.output : HasRefusal(response.output[k]),
                                 !.decoder.stop = StopOf(r.decoder, response)])
    IN  IF d.plan /\ (f.type = "incomplete" \/ response.status # "completed") THEN Err(s, "provider")
        ELSE IF response.output = None
          THEN IF f.type = "completed" /\ d.computer THEN Err(s, "invalid") ELSE Close(s)
        ELSE Then(TakeOutput(s, f), Close)

\* [DONE], which a gateway may append.
Sentinel(s) ==
    IF s.decoder.plan \/ s.decoder.computer THEN Err(s, "interrupted") ELSE FinishInto(s)

\* decode_frame
DecodeFrame(d, f) ==
    LET s == Ok(d, <<>>)
    IN  CASE d.done -> s
          [] ~d.done /\ f.type = "done" -> Sentinel(s)
          [] ~d.done /\ f.type = "blank" -> s
          [] ~d.done /\ f.type = "garbled" -> Err(s, "invalid")
          [] ~d.done /\ f.type = "failed" -> Err(s, "provider")
          [] ~d.done /\ f.type = "created" ->
                IF d.started THEN s
                ELSE Emit([s EXCEPT !.decoder.started = TRUE, !.decoder.id = f.id], <<Start(f.id)>>)
          [] ~d.done /\ f.type = "added" -> ItemAdded(s, f)
          [] ~d.done /\ f.type = "text" -> Emit(s, <<TextDelta(f.index)>>)
          [] ~d.done /\ f.type = "reasoning" -> Emit(s, <<ReasoningDelta(f.index)>>)
          [] ~d.done /\ f.type = "refusal" -> [s EXCEPT !.decoder.refusal = TRUE]
          [] ~d.done /\ f.type = "arguments.delta" -> ArgumentsDelta(s, f)
          [] ~d.done /\ f.type = "arguments.done" -> ArgumentsDone(s, f)
          [] ~d.done /\ f.type = "item.done" -> ItemDone(s, f)
          [] ~d.done /\ f.type \in {"completed", "incomplete"} -> TerminalFrame(s, f)

\* finish
Finish(d) == IF ~d.done THEN Err(Ok(d, <<>>), "interrupted") ELSE FinishInto(Ok(d, <<>>))
=============================================================================
