----------------------------- MODULE ModelStream -----------------------------
(***************************************************************************)
(* ModelStream (client/stream.rs) over SseDecoder (codecs/stream.rs): the  *)
(* bytes of one streamed response, framed and decoded while they arrive,   *)
(* and handed to a caller who mixes next and next_batch as it likes.  What *)
(* collect_response makes of the events (stream_assembly.rs) is a function *)
(* of the events delivered.                                                *)
(*                                                                         *)
(* The provider and the transport are external: bytes are written, then    *)
(* the body is closed or the connection breaks; a read returns any         *)
(* nonempty part of what was written and not read.  wire is the codec the  *)
(* request selected: [codec, bedrock, official, plan, continues], where    *)
(* bedrock says that the body is an AWS event stream and continues that    *)
(* the executor made a continuation template.                              *)
(***************************************************************************)
EXTENDS StreamAssembly, FiniteSets

CONSTANTS
    Wires,
    Pieces(_),          \* the byte strings a provider of this wire writes
    MaxEventBytes,      \* MAX_EVENT_BYTES
    MaxFrameBytes,      \* MAX_FRAME_BYTES
    MaxPendingBytes,    \* MAX_PENDING_NATIVE_BYTES
    MaxInteractionBytes \* the limit of an interaction

VARIABLES
    wire,
    sent,               \* the bytes of the body written so far
    over,               \* "open", "closed" or "broken"
    at,                 \* how many of them were read
    heard,              \* over, once the stream has read it, else None
    stream,             \* ModelStream
    first,              \* the event ready before anything was read
    delivered           \* the events its caller got

vars == <<wire, sent, over, at, heard, stream, first, delivered>>

Sse == INSTANCE SseFraming
EventStream == INSTANCE EventStreamFraming
Chat == INSTANCE ChatDecoder
Responses == INSTANCE ResponsesDecoder
Anthropic == INSTANCE AnthropicDecoder
Gemini == INSTANCE GeminiDecoder
Interactions == INSTANCE InteractionsDecoder

-----------------------------------------------------------------------------
(* What a provider may write: any bytes whose payloads are events of the   *)
(* codec's wire, or nothing it can read.                                   *)

IsPayload(w, p) ==
    CASE w.codec = "chat" -> Chat!IsFrame(p)
      [] w.codec = "responses" -> Responses!IsFrame(p)
      [] w.codec = "anthropic" -> Anthropic!IsFrame(p)
      [] w.codec = "gemini" -> Gemini!IsFrame(p)
      [] w.codec = "interactions" -> Interactions!IsFrame(p)

IsMessageByte(w, b) ==
    /\ b.byte = "lengths" => b.total \in Nat /\ b.headers \in Nat
    /\ b.byte = "payload" => b.payload.type = "malformed" \/ IsPayload(w, b.payload)

IsByte(w, b) == IF w.bedrock THEN IsMessageByte(w, b) ELSE b.byte = "data" => IsPayload(w, b.payload)

ASSUME WiresAssumption ==
    \A w \in Wires :
        /\ w.codec \in {"chat", "responses", "anthropic", "gemini", "interactions"}
        /\ w.bedrock \in BOOLEAN
        /\ \A bytes \in Pieces(w) : IsSequence(bytes) /\ \A i \in DOMAIN bytes : IsByte(w, bytes[i])

ASSUME NoneAssumption == None \notin {"interrupted", "invalid", "provider", "transport", "closed", "broken"}

ASSUME LimitsAssumption ==
    /\ MaxEventBytes \in Nat /\ MaxPendingBytes \in Nat
    /\ MaxFrameBytes \in Nat /\ MaxFrameBytes >= EventStream!PreludeBytes

-----------------------------------------------------------------------------
(* SseDecoder, and BedrockStreamDecoder, which frames otherwise.           *)

NewInner(w) ==
    CASE w.codec = "chat" -> Chat!NewDecoder
      [] w.codec = "responses" -> Responses!NewDecoder(w.official, w.plan)
      [] w.codec = "anthropic" -> Anthropic!NewDecoder
      [] w.codec = "gemini" -> Gemini!NewDecoder
      [] w.codec = "interactions" -> Interactions!NewDecoder

NewFraming(w) == IF w.bedrock THEN EventStream!NewSplitter ELSE Sse!NewSplitter

NewStreamDecoder(w) == [inner |-> NewInner(w), framing |-> NewFraming(w), ended |-> FALSE]

InnerFrame(w, inner, f) ==
    CASE w.codec = "chat" -> Chat!DecodeFrame(inner, f)
      [] w.codec = "responses" -> Responses!DecodeFrame(inner, f)
      [] w.codec = "anthropic" -> Anthropic!DecodeFrame(inner, f)
      [] w.codec = "gemini" -> Gemini!DecodeFrame(inner, f)
      [] w.codec = "interactions" -> Interactions!DecodeFrame(inner, f)

InnerFinish(w, inner) ==
    CASE w.codec = "chat" -> Chat!Finish(inner)
      [] w.codec = "responses" -> Responses!Finish(inner)
      [] w.codec = "anthropic" -> Anthropic!Finish(inner)
      [] w.codec = "gemini" -> Gemini!Finish(inner)
      [] w.codec = "interactions" -> Interactions!Finish(inner)

\* A payload is one line of the wire; joined lines are not JSON.
Payload(frame) ==
    IF Len(frame) = 1 /\ Len(frame[1]) = 1 THEN frame[1][1].payload ELSE [type |-> "garbled"]

\* append: a result of the inner decoder.  Nothing follows an End or an error.
AppendResult(s, r) ==
    LET ends == {i \in DOMAIN r.out : r.out[i].event = "end"}
        kept == IF ends = {} THEN r.out ELSE SubSeq(r.out, 1, CHOOSE i \in ends : \A j \in ends : i <= j)
    IN  [decoder |-> [s.decoder EXCEPT !.inner = r.decoder, !.ended = ends # {} \/ r.error # None],
         out |-> s.out \o (IF r.error = None THEN kept ELSE <<Failure(r.error)>>)]

Refuse(inner, error) == [decoder |-> inner, out |-> <<>>, error |-> error]

\* decode_message, and what a server-sent event is to the inner decoder.
DecodeMessage(w, inner, message) ==
    CASE w.bedrock /\ message.type = "ignored" -> Refuse(inner, None)
      [] w.bedrock /\ message.type \in {"malformed", "exception"} -> Refuse(inner, "interrupted")
      [] OTHER -> InnerFrame(w, inner, message)

\* A frame, unless the decoder has ended.
TakeFrame(w, s, frame) ==
    IF s.decoder.ended THEN s
    ELSE AppendResult(s, DecodeMessage(w, s.decoder.inner, IF w.bedrock THEN frame ELSE Payload(frame)))

Split(w, framing, bytes) ==
    IF w.bedrock THEN EventStream!FeedBatch(framing, bytes) ELSE Sse!PushBatch(framing, bytes)

\* What the framing keeps of a split.
Kept(w, split) ==
    IF w.bedrock THEN [buffer |-> split.buffer] ELSE [buffer |-> split.buffer, skip |-> split.skip]

TakeEach(w, s, frames) ==
    LET taken[i \in 0 .. Len(frames)] == IF i = 0 THEN s ELSE TakeFrame(w, taken[i - 1], frames[i])
    IN  taken[Len(frames)]

\* The frames of one call, after which the framing is as given.
TakeFrames(w, decoder, framing, frames) ==
    TakeEach(w, [decoder |-> [decoder EXCEPT !.framing = framing], out |-> <<>>], frames)

\* The error of the framing comes after its frames.
ThenRefuse(s, error) ==
    IF error = None \/ s.decoder.ended THEN s ELSE AppendResult(s, Refuse(s.decoder.inner, error))

PushSplit(w, decoder, split) ==
    ThenRefuse(TakeFrames(w, decoder, Kept(w, split), split.frames), split.error)

\* push_bytes
PushBytes(w, decoder, bytes) ==
    IF decoder.ended THEN [decoder |-> decoder, out |-> <<>>]
    ELSE PushSplit(w, decoder, Split(w, decoder.framing, bytes))

\* The last call of the inner decoder, or the error of an event stream cut short.
ThenFinish(w, s) ==
    IF s.decoder.ended THEN s
    ELSE AppendResult(s, IF w.bedrock /\ ~EventStream!Finished(s.decoder.framing)
                           THEN Refuse(s.decoder.inner, "interrupted") ELSE InnerFinish(w, s.decoder.inner))

\* finish: server-sent events may leave a last frame, an event stream no bytes.
FinishBytes(w, decoder) ==
    IF decoder.ended THEN [decoder |-> decoder, out |-> <<>>]
    ELSE [ThenFinish(w, TakeFrames(w, decoder, IF w.bedrock THEN decoder.framing ELSE Sse!NewSplitter,
                                   IF w.bedrock THEN <<>> ELSE Sse!FinishFrames(decoder.framing)))
              EXCEPT !.decoder.ended = TRUE]

-----------------------------------------------------------------------------
(* ModelStream.                                                            *)

NewStream(w, ready) ==
    [decoder |-> NewStreamDecoder(w), ready |-> ready, finished |-> FALSE, id |-> None, completed |-> FALSE]

\* Mutant: what the response says of its storage is not asked.
CompletesUnlessCut(w, decoder, stop) == stop \notin {"max_tokens", "refusal"}

\* Whether an End leaves a response to continue from.
Completes(w, decoder, stop) ==
    /\ stop \notin {"max_tokens", "refusal"}
    /\ w.codec \in {"responses", "interactions"} /\ decoder.inner.response # None =>
          decoder.inner.response.store # FALSE

\* observe_event
ObserveEvent(w, s, e) ==
    [s EXCEPT !.id = IF e.event = "start" /\ e.id # None THEN e.id ELSE @,
              !.completed = IF e.event = "end" THEN Completes(w, s.decoder, e.stop)
                            ELSE @ /\ e.event # "error",
              !.finished = @ \/ Terminal(e)]

ObserveEach(w, s, events) ==
    LET seen[i \in 0 .. Len(events)] == IF i = 0 THEN s ELSE ObserveEvent(w, seen[i - 1], events[i])
    IN  seen[Len(events)]

\* continuation: the response id a later request may continue from.
Continuation(w, s) == IF w.continues /\ s.completed THEN s.id ELSE None

Init ==
    /\ wire \in Wires
    /\ first \in {<<>>, <<Observation>>}
    /\ stream = NewStream(wire, first)
    /\ sent = <<>> /\ over = "open" /\ at = 0 /\ heard = None /\ delivered = <<>>

\* The provider and the transport.
Send(bytes) ==
    /\ over = "open"
    /\ sent' = sent \o bytes
    /\ UNCHANGED <<wire, over, at, heard, stream, first, delivered>>

Hang(how) ==
    /\ over = "open"
    /\ over' = how
    /\ UNCHANGED <<wire, sent, at, heard, stream, first, delivered>>

\* next takes the first event, next_batch all of them.
Hand(take, s, events) ==
    LET n == IF take = "batch" THEN Len(events) ELSE IF events = <<>> THEN 0 ELSE 1
        handed == SubSeq(events, 1, n)
    IN  /\ delivered' = delivered \o handed
        /\ stream' = [ObserveEach(wire, s, handed) EXCEPT !.ready = SubSeq(events, n + 1, Len(events))]
        /\ UNCHANGED <<wire, sent, over, first>>

\* Events are ready: neither next nor next_batch reads.
TakeReady(take) ==
    /\ stream.ready # <<>>
    /\ Hand(take, stream, stream.ready)
    /\ UNCHANGED <<at, heard>>

Reads == stream.ready = <<>> /\ ~stream.finished

\* What was decoded is handed over.  next lets go of the transport as soon as a
\* terminal event is decoded, next_batch when it is observed.
HandDecoded(take, r, last) ==
    LET ends == \E i \in DOMAIN r.out : Terminal(r.out[i])
    IN  Hand(take, [stream EXCEPT !.decoder = r.decoder, !.finished = last \/ (take = "next" /\ ends)], r.out)

\* The body yields a chunk.
ReadChunk(take, n) ==
    /\ Reads
    /\ at' = at + n
    /\ HandDecoded(take, PushBytes(wire, stream.decoder, SubSeq(sent, at + 1, at + n)), FALSE)
    /\ UNCHANGED heard

\* The body ends.
ReadEnd(take) ==
    /\ Reads
    /\ at = Len(sent) /\ over = "closed"
    /\ heard' = over
    /\ HandDecoded(take, FinishBytes(wire, stream.decoder), TRUE)
    /\ UNCHANGED at

\* The transport fails.
ReadError(take) ==
    /\ Reads
    /\ at = Len(sent) /\ over = "broken"
    /\ heard' = over
    /\ Hand(take, [stream EXCEPT !.finished = take = "batch"], <<Failure("transport")>>)
    /\ UNCHANGED at

Next ==
    \/ \E bytes \in Pieces(wire) : Send(bytes)
    \/ \E how \in {"closed", "broken"} : Hang(how)
    \/ \E take \in {"next", "batch"} :
          \/ TakeReady(take)
          \/ \E n \in 1 .. Len(sent) - at : ReadChunk(take, n)
          \/ ReadEnd(take)
          \/ ReadError(take)

Spec == Init /\ [][Next]_vars

-----------------------------------------------------------------------------
(* Chunks and calls.                                                       *)

ThenEnd(read) ==
    read.out \o (CASE heard = None -> <<>>
                   [] heard = "closed" -> FinishBytes(wire, read.decoder).out
                   [] heard = "broken" -> <<Failure("transport")>>)

\* What one read of all the bytes would have decoded.
AtOnce == ThenEnd(PushBytes(wire, NewStreamDecoder(wire), SubSeq(sent, 1, at)))

\* However the transport cuts the bytes into chunks (inside a line, between the
\* two halves of a line end, after a terminal frame) and however the caller mixes
\* next and next_batch, the events are those of the bytes read at once; none is
\* lost, doubled or late, and none follows an End or an error.
ChunkingIrrelevant ==
    /\ delivered \o stream.ready = first \o AtOnce
    /\ \A i \in 1 .. Len(delivered) - 1 : ~Terminal(delivered[i])

-----------------------------------------------------------------------------
(* What the provider said, read off the frames without a decoder.          *)

\* The frames of a body, its rest included.  A broken event stream ends in a
\* payload that is none.
WithRest(split) ==
    split.frames \o
    (CASE wire.bedrock ->
            IF split.error # None \/ (heard = "closed" /\ split.buffer # <<>>)
              THEN <<[type |-> "garbled"]>> ELSE <<>>
       [] ~wire.bedrock -> IF heard = "closed" THEN Sse!FinishFrames(split) ELSE <<>>)

Payloads(frames) == [i \in DOMAIN frames |-> IF wire.bedrock THEN frames[i] ELSE Payload(frames[i])]

UpToTerminal(all) ==
    LET last == {i \in DOMAIN all : all[i].type \in {"done", "completed", "incomplete", "message_stop"}}
    IN  IF last = {} THEN all ELSE SubSeq(all, 1, CHOOSE i \in last : \A j \in last : i <= j)

\* The payloads that count: those of the bytes read, up to the terminal frame.
Frames == UpToTerminal(Payloads(WithRest(Split(wire, NewFraming(wire), SubSeq(sent, 1, at)))))

Of(frames, types) == SelectSeq(frames, LAMBDA f : f.type \in types)
About(frames, type, index) == SelectSeq(frames, LAMBDA f : f.type = type /\ f.index = index)
Joined(texts) == FoldLeft(LAMBDA a, b : a \o b, <<>>, texts)
FirstKnown(values) == FoldLeft(LAMBDA a, b : IF a = None THEN b ELSE a, None, values)

\* A call as the provider described it: where, what it streamed of the arguments,
\* and the texts they must all amount to in the end.
Described(place, id, name, streamed, final) ==
    [place |-> place, id |-> id, name |-> name, streamed |-> streamed, final |-> IF final = {} THEN {streamed} ELSE final]

Inputs(call) == {Value(IF t = <<>> THEN EmptyObject ELSE t) : t \in call.final}

\* Chat: the fragments of a wire index, over all chunks.
ChatCalls(frames) ==
    LET chunks == Of(frames, {"chunk"})
        parts == Joined([i \in DOMAIN chunks |-> IF chunks[i].choice THEN chunks[i].calls ELSE <<>>])
        Part(k) == SelectSeq(parts, LAMBDA p : p.index = k)
    IN  {Described(k, FirstKnown([i \in DOMAIN Part(k) |-> Part(k)[i].id]),
                   FirstKnown([i \in DOMAIN Part(k) |-> Part(k)[i].name]),
                   Joined([i \in DOMAIN Part(k) |-> Part(k)[i].fragment]), {})
           : k \in {parts[i].index : i \in DOMAIN parts}}

Outputs(frames) ==
    {f.response.output : f \in ToSet(Of(frames, {"completed", "incomplete"}))} \ {None}

\* Responses: the deltas of an added call and its snapshots.
ResponsesCalls(frames) ==
    LET added == {f \in ToSet(Of(frames, {"added"})) : f.item.type = "function_call"}
        Snapshots(a) ==
            {f.item : f \in ToSet(About(frames, "item.done", a.index))}
            \cup {o[a.index + 1] : o \in {p \in Outputs(frames) : a.index + 1 \in DOMAIN p}}
        Final(a) == {f.text : f \in ToSet(About(frames, "arguments.done", a.index))}
                    \cup {item.args : item \in {s \in Snapshots(a) : Responses!SameCall(s, [id |-> a.item.call, name |-> a.item.name])}}
        Deltas(a) == About(frames, "arguments.delta", a.index)
    IN  {Described(a.index, a.item.call, a.item.name,
                   Joined([i \in DOMAIN Deltas(a) |-> Deltas(a)[i].text]), Final(a)) : a \in added}

\* Anthropic: the input fragments of a tool_use block.
AnthropicCalls(frames) ==
    LET tools == {f \in ToSet(Of(frames, {"block_start"})) : f.block.type = "tool_use"}
        Deltas(t) == SelectSeq(About(frames, "block_delta", t.index), LAMBDA f : f.delta.type = "input")
    IN  {Described(t.index, t.block.id, t.block.name,
                   Joined([i \in DOMAIN Deltas(t) |-> Deltas(t)[i].delta.text]), {}) : t \in tools}

\* Gemini: the parts that carry something, in order, with the number of their frame.
GeminiParts(frames) ==
    LET Parts(i) == IF frames[i].type = "generate" /\ frames[i].candidate THEN frames[i].parts ELSE <<>>
        all == Joined([i \in DOMAIN frames |-> [k \in DOMAIN Parts(i) |-> [frame |-> i, part |-> Parts(i)[k]]]])
    IN  SelectSeq(all, LAMBDA p : p.part.part # "other")

GeminiCalls(frames) ==
    LET parts == GeminiParts(frames)
    IN  {Described(i, parts[i].part.id, parts[i].part.name,
                   IF parts[i].part.args = None THEN Null ELSE parts[i].part.args, {})
           : i \in {i \in DOMAIN parts : parts[i].part.part = "call"}}

\* A text goes on with the first part of the next frame, unless it was signed.
GeminiTexts(frames) ==
    LET parts == GeminiParts(frames)
        GoesOn(i) == /\ parts[i].part.part = "text" /\ i > 1
                     /\ parts[i - 1].part = [part |-> "text", signed |-> FALSE]
                     /\ parts[i - 1].frame # parts[i].frame
        starts == {i \in DOMAIN parts : parts[i].part.part = "text" /\ ~GoesOn(i)}
    IN  {Cardinality({j \in i .. Len(parts) : \A k \in i + 1 .. j : GoesOn(k)}) : i \in starts}

\* Interactions: the last snapshot of the arguments, or the fragments after it, and
\* what the completed interaction says of them.
InteractionsCalls(frames) ==
    LET begun == {f \in ToSet(Of(frames, {"step.start"})) : f.step.type = "function_call"}
        Deltas(b) == LET d == About(frames, "step.delta", b.index) IN [i \in DOMAIN d |-> d[i].delta]
        Snapshots(b) == {i \in DOMAIN Deltas(b) : Deltas(b)[i].args # None}
        Since(b) == IF Snapshots(b) = {} THEN 0 ELSE CHOOSE i \in Snapshots(b) : \A j \in Snapshots(b) : j <= i
        Fragments(b) == Joined([i \in DOMAIN Deltas(b) |-> IF i > Since(b) THEN Deltas(b)[i].text ELSE <<>>])
        Whole(b) == IF Since(b) = 0 THEN b.step.args ELSE Deltas(b)[Since(b)].args
        Text(args) == IF args = None THEN <<"missing">> ELSE args
        Streamed(b) == IF Fragments(b) = <<>> THEN Text(Whole(b)) ELSE Fragments(b)
        Id(b) == FirstKnown(<<b.step.id>> \o [i \in DOMAIN Deltas(b) |-> Deltas(b)[i].id])
        Name(b) == FirstKnown(<<b.step.name>> \o [i \in DOMAIN Deltas(b) |-> Deltas(b)[i].name])
        Final(b) == UNION {{Text(o[k].args) : k \in {k \in DOMAIN o : o[k].id = Id(b)}} : o \in Outputs(frames)}
    IN  {Described(b.index, Id(b), Name(b), Streamed(b), {Streamed(b)} \cup Final(b)) : b \in begun}

\* The steps of the completed interaction, or those that were streamed.
InteractionsTexts(frames) ==
    LET Deltas(b) == About(frames, "step.delta", b.index)
        Plain(b) == b.step.extra = {} /\ \A i \in DOMAIN Deltas(b) : Deltas(b)[i].delta.type = "text"
        outputs == {f \in ToSet(Of(frames, {"step.start"})) : f.step.type = "model_output"}
        Said(step) == IF step.type = "model_output" /\ step.extra = {} /\ 0 \notin ToSet(step.parts)
                        THEN ToSet(step.parts) ELSE {}
    IN  IF Outputs(frames) # {} THEN UNION {UNION {Said(o[k]) : k \in DOMAIN o} : o \in Outputs(frames)}
        ELSE {FoldLeft(LAMBDA n, m : n + m, Len(Deltas(b)), b.step.parts) : b \in {b \in outputs : Plain(b)}}

CallsStated(frames) ==
    CASE wire.codec = "chat" -> ChatCalls(frames)
      [] wire.codec = "responses" -> ResponsesCalls(frames)
      [] wire.codec = "anthropic" -> AnthropicCalls(frames)
      [] wire.codec = "gemini" -> GeminiCalls(frames)
      [] wire.codec = "interactions" -> InteractionsCalls(frames)

\* The computer calls of a completed response.
ComputerStated(frames) ==
    UNION {{[block |-> k - 1, call |-> o[k]] : k \in {k \in DOMAIN o : o[k].type = "computer_call"}}
             : o \in Outputs(Of(frames, {"completed"}))}

\* Whether they are the calls that were announced, at their places.
ComputerConfirmed(frames) ==
    \A f \in ToSet(Of(frames, {"added", "item.done"})) : f.item.type = "computer_call" =>
        \E c \in ComputerStated(frames) :
            /\ c.block = f.index /\ c.call.id = f.item.id /\ c.call.call = f.item.call
            /\ f.type = "item.done" => c.call = f.item

HasUnknown(frames, index) == \E f \in ToSet(About(frames, "block_delta", index)) : f.delta.type = "unknown"

\* The lengths of the visible texts.
TextsStated(frames) ==
    CASE wire.codec = "chat" ->
            {Len(SelectSeq(Of(frames, {"chunk"}), LAMBDA f : f.choice /\ f.content))
             + Len(SelectSeq(Of(frames, {"chunk"}), LAMBDA f : f.choice /\ f.refusal))}
      [] wire.codec = "responses" ->
            {Len(About(frames, "text", f.index)) : f \in ToSet(Of(frames, {"text"}))}
      [] wire.codec = "gemini" -> GeminiTexts(frames)
      [] wire.codec = "interactions" -> InteractionsTexts(frames)
      [] wire.codec = "anthropic" ->
            LET texts == {f \in ToSet(Of(frames, {"block_start"})) : f.block.type = "text"}
                pieces == SelectSeq(Of(frames, {"block_delta"}), LAMBDA f : f.delta.type = "text")
                Hidden(k) == \/ About(frames, "fallback", k) # <<>>
                             \/ ~HasUnknown(frames, k) /\ \E f \in texts : f.index = k /\ f.block.opaque
            IN  {Cardinality({f \in texts : f.index = k /\ f.block.filled}) + Len(About(pieces, "block_delta", k))
                   : k \in {k \in {f.index : f \in texts \cup ToSet(pieces)} : ~Hidden(k)}}

\* A response that nothing is wrong with: complete, of known frames, with calls
\* whose arguments are what they were streamed as.  Computer calls and held
\* blocks beyond the limit are left out.
ReadableCall(call, cut) ==
    /\ (call.id # None \/ wire.codec = "gemini") /\ call.name # None
    /\ cut \/ \A t \in call.final :
          /\ Parses(t) \/ (t = <<>> /\ call.streamed = <<>>)
          /\ IsPrefix(call.streamed, t) \/ (Parses(call.streamed) /\ Value(call.streamed) = Value(t))
    /\ cut \/ Cardinality(Inputs(call)) = 1

\* The provider said that the response is over.
EndStated(frames) ==
    LET last == IF frames = <<>> THEN "none" ELSE Last(frames).type
    IN  CASE wire.codec = "chat" ->
                \/ last = "done"
                \/ heard = "closed" /\ \E f \in ToSet(Of(frames, {"chunk"})) : f.choice /\ f.finish # None
          [] wire.codec = "responses" ->
                last = "completed" \/ (last \in {"incomplete", "done"} /\ ~wire.plan)
          [] wire.codec = "anthropic" ->
                \/ last = "message_stop"
                \/ heard = "closed" /\ last # "garbled" /\ Of(frames, {"message_delta"}) # <<>>
          [] wire.codec = "gemini" ->
                heard = "closed" /\ \E f \in ToSet(Of(frames, {"generate"})) :
                                       f.blocked \/ (f.candidate /\ f.finish # None)
          [] wire.codec = "interactions" -> last = "completed"

WellFormedResponses(frames) ==
    /\ \A f \in ToSet(Of(frames, {"added", "item.done"})) : f.item.type # "computer_call"
    /\ \A o \in Outputs(frames) : \A k \in DOMAIN o : o[k].type # "computer_call"
    /\ \A i \in DOMAIN frames :
          (\/ frames[i].type \in {"arguments.delta", "arguments.done"}
           \/ frames[i].type = "item.done" /\ frames[i].item.type = "function_call")
          => \E j \in 1 .. i - 1 :
                /\ frames[j].type = "added" /\ frames[j].index = frames[i].index
                /\ frames[i].type = "item.done" =>
                      /\ frames[j].item.type = "function_call"
                      /\ frames[j].item.call = frames[i].item.call /\ frames[j].item.name = frames[i].item.name

HeldBytes(f) ==
    IF f.type = "block_start" THEN 3
    ELSE IF f.type # "block_delta" THEN 0
    ELSE IF f.delta.type = "input" THEN Len(f.delta.text) ELSE 2

WellFormedAnthropic(frames) ==
    /\ \A i \in DOMAIN frames : frames[i].type = "block_start" =>
          /\ \E j \in i + 1 .. Len(frames) : frames[j].type = "block_stop" /\ frames[j].index = frames[i].index
          /\ frames[i].block.type = "tool_use" => ~HasUnknown(frames, frames[i].index)
    /\ FoldLeft(LAMBDA n, f : n + HeldBytes(f), 0, frames) <= MaxPendingBytes

\* Created first, every step started, grown and stopped, and the whole confirmed.
WellFormedInteractions(frames) ==
    LET mine(k) == SelectSeq(frames, LAMBDA f : f.type \in {"step.start", "step.delta", "step.stop"} /\ f.index = k)
        steps == {f.index : f \in ToSet(Of(frames, {"step.start", "step.delta", "step.stop"}))}
        Is(k, type) == Head(mine(k)).step.type = type
        calls == CallsStated(frames)
        response == Last(frames).response
        extra(k) == {mine(k)[i].delta.type : i \in 2 .. Len(mine(k)) - 1} \cap {"thought_signature"}
    IN  /\ Len(frames) <= MaxInteractionBytes
        /\ Of(frames, {"done", "blank"}) = <<>>
        /\ \A i \in DOMAIN frames : frames[i].type = "created" <=> i = 1
        /\ \A k \in steps :
              /\ Head(mine(k)).type = "step.start" /\ Last(mine(k)).type = "step.stop" /\ Len(mine(k)) > 1
              /\ \A i \in 2 .. Len(mine(k)) - 1 :
                    /\ mine(k)[i].type = "step.delta"
                    /\ mine(k)[i].delta.id \in {None, Head(mine(k)).step.id}
                    /\ mine(k)[i].delta.name \in {None, Head(mine(k)).step.name}
        /\ \A c \in calls : \A t \in c.final : IsObject(t)
        /\ \A c, d \in calls : c.id = d.id => c = d
        /\ response.id = Head(frames).id
        /\ response.status \in {"completed", "requires_action"}
        /\ response.status = "requires_action" => calls # {}
        /\ response.output # None =>
              /\ steps = 0 .. Len(response.output) - 1
              /\ \A k \in steps :
                    LET final == response.output[k + 1]
                    IN  /\ Is(k, final.type)
                        /\ Is(k, "function_call") =>
                              \E c \in calls : /\ c.place = k /\ c.id = final.id /\ c.name = final.name
                                              /\ extra(k) = final.extra

WellFormed(frames, stop) ==
    /\ EndStated(frames)
    /\ Of(frames, {"garbled", "error", "failed", "malformed", "exception"}) = <<>>
    /\ \A call \in CallsStated(frames) : ReadableCall(call, stop = "max_tokens")
    /\ wire.codec = "responses" => WellFormedResponses(frames)
    /\ wire.codec = "anthropic" => WellFormedAnthropic(frames)
    /\ wire.codec = "interactions" => WellFormedInteractions(frames)

\* The assembled calls are the stated ones, each with its arguments.
CallsAsStated(calls, stated, cut) ==
    LET SameId(call, described) ==
            \/ call.id = described.id
            \/ wire.codec = "gemini" /\ described.id = None /\ call.id = Gemini!LocalId(call.block)
        Same(call, described) == SameId(call, described) /\ call.name = described.name
    IN  /\ \A c \in calls : \E d \in stated : Same(c, d) /\ Inputs(d) = {c.input}
        /\ ~cut => /\ \A d \in stated : \E c \in calls : Same(c, d)
                   /\ Cardinality(calls) = Cardinality(stated)

AsStated(frames, faultless, acc) ==
    IF ~faultless \/ ~Finished(acc) THEN ~WellFormed(frames, acc.stop)
    ELSE /\ EndStated(frames)
         /\ CallsAsStated(Calls(acc), CallsStated(frames), acc.stop = "max_tokens")
         /\ ComputerCalls(acc) = ComputerStated(frames)
         /\ Last(frames).type = "incomplete" \/ ComputerConfirmed(frames)
         /\ {t.pieces : t \in Texts(acc)} \ {0} = TextsStated(frames) \ {0}
         /\ wire.codec = "anthropic" =>
               \A f \in ToSet(Of(frames, {"block_start"})) :
                   f.block.type = "tool_use" => ~HasUnknown(frames, f.index)

\* What collect_response makes of a stream: a well-formed response is never an
\* error, and what is no error was ended by the provider and has exactly the calls
\* it stated, with the arguments of every one of its statements, the computer calls
\* of a completed response, which confirms all that were announced, no call with a
\* delta the client does not know, and all of the text.  A length stop may lack
\* calls.
ContentAsStated ==
    stream.finished /\ stream.ready = <<>> =>
        LET events == SelectSeq(delivered, LAMBDA e : e.event # "error")
        IN  AsStated(Frames, events = delivered, FoldLeft(Observe, NewAccumulator, events))

MayContinue(id, frames) ==
    LET f == Last(frames)
        created == Of(frames, {"created"})
    IN  /\ created # <<>> /\ id = Head(created).id
        /\ wire.codec = "interactions" => f.type = "completed" /\ f.response.id = Head(created).id
        /\ f.type \in {"completed", "incomplete", "done"}
        /\ f.type # "done" =>
              f.response.store # FALSE /\ f.response.reason \notin {"max_output_tokens", "content_filter"}
        /\ Of(frames, {"refusal"}) # <<>> =>
              \/ f.type = "incomplete"
              \/ CallsStated(frames) # {}
              \/ \E o \in Outputs(frames) : \E k \in DOMAIN o : o[k].type \in {"computer_call", "approval"}

\* A continuation is of the response that was created on this stream, delivered
\* to its end without an error, which the provider did not cut short, decline to
\* store or, unless it asks the client for something, refuse.
ContinuationOfCompleteResponse ==
    Continuation(wire, stream) # None =>
        /\ \A i \in DOMAIN delivered : delivered[i].event # "error"
        /\ MayContinue(Continuation(wire, stream), Frames)

\* The bytes that the open blocks of an Anthropic decoder really retain, each a
\* place in its block.
HeldBy(kind, blocks) == UNION {{<<kind, i>>} \X (1 .. blocks[i].retained) : i \in DOMAIN blocks}

Retained(d) == Cardinality(HeldBy("cited", d.cited) \cup HeldBy("native", d.native))

\* The counter of held bytes is what the open blocks of an Anthropic stream hold,
\* and within its limit, however their frames interleave; and no framing buffers
\* more than one event of the greatest size, whatever length a message claims.
PendingBytesExact ==
    /\ Len(stream.decoder.framing.buffer) <= IF wire.bedrock THEN MaxFrameBytes ELSE MaxEventBytes
    /\ wire.codec = "anthropic" =>
          /\ stream.decoder.inner.bytes = Retained(stream.decoder.inner)
          /\ stream.decoder.inner.bytes <= MaxPendingBytes
=============================================================================
