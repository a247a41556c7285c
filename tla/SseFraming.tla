----------------------------- MODULE SseFraming -----------------------------
(***************************************************************************)
(* SseFrameSplitter (framing/sse.rs): the events of a byte stream that     *)
(* arrives in chunks.                                                      *)
(*                                                                         *)
(* A byte is a line feed, a carriage return, the start of a comment or of  *)
(* another field, or a data field: the text "data:" with the payload of    *)
(* the line.  The framing looks at nothing but line ends and the start of  *)
(* a line, so a field counts as one byte of the limit.  A frame is the     *)
(* sequence of the data lines of an event.                                 *)
(***************************************************************************)
EXTENDS Naturals, Sequences

CONSTANTS
    MaxEventBytes,      \* MAX_EVENT_BYTES
    None

LF == [byte |-> "lf"]
CR == [byte |-> "cr"]
Comment == [byte |-> "comment"]
Data(payload) == [byte |-> "data", payload |-> payload]

NewSplitter == [buffer |-> <<>>, skip |-> FALSE]

\* A line end opens a line, any other byte goes on with the last one.
LineByte(lines, b) ==
    IF b.byte = "lf" THEN Append(lines, <<>>) ELSE [lines EXCEPT ![Len(lines)] = Append(@, b)]

SplitLines(bytes) ==
    LET lines[i \in 0 .. Len(bytes)] == IF i = 0 THEN <<<<>>>> ELSE LineByte(lines[i - 1], bytes[i])
    IN  lines[Len(bytes)]

DataLine(line) == line # <<>> /\ Head(line).byte = "data"

DataLines(lines) ==
    LET kept[i \in 0 .. Len(lines)] ==
            IF i = 0 THEN <<>> ELSE IF DataLine(lines[i]) THEN Append(kept[i - 1], lines[i]) ELSE kept[i - 1]
    IN  kept[Len(lines)]

\* parse_event: no frame, or the frame of the event's data lines.
ParseEvent(event) ==
    LET lines == DataLines(SplitLines(event)) IN IF lines = <<>> THEN <<>> ELSE <<lines>>

EndsEvent(buffer) ==
    Len(buffer) >= 2 /\ buffer[Len(buffer)] = LF /\ buffer[Len(buffer) - 1] = LF

\* One turn of the loop of push_batch.  A carriage return ends its line at once;
\* the line feed of a pair is skipped when it comes.
PushByte(s, b) ==
    LET buffer == Append(s.buffer, IF b.byte = "cr" THEN LF ELSE b)
        event == SubSeq(buffer, 1, Len(buffer) - 1)
        large == ~EndsEvent(buffer) /\ Len(buffer) > MaxEventBytes
    IN  IF s.error # None THEN s
        ELSE IF s.skip /\ b.byte = "lf" THEN [s EXCEPT !.skip = FALSE]
        ELSE [buffer |-> IF EndsEvent(buffer) \/ large THEN <<>> ELSE buffer,
              skip |-> b.byte = "cr",
              frames |-> IF EndsEvent(buffer) THEN s.frames \o ParseEvent(event) ELSE s.frames,
              error |-> IF large THEN "interrupted" ELSE None]

\* All turns of the loop.
PushEach(s, bytes) ==
    LET turn[i \in 0 .. Len(bytes)] == IF i = 0 THEN s ELSE PushByte(turn[i - 1], bytes[i])
    IN  turn[Len(bytes)]

\* Mutant: the half of a pair is forgotten between two chunks.
PushBatchFresh(s, bytes) ==
    PushEach([buffer |-> s.buffer, skip |-> FALSE, frames |-> <<>>, error |-> None], bytes)

\* push_batch
PushBatch(s, bytes) ==
    PushEach([buffer |-> s.buffer, skip |-> s.skip, frames |-> <<>>, error |-> None], bytes)

\* finish: the trailing event that no blank line ended.
FinishFrames(s) == ParseEvent(s.buffer)
=============================================================================
