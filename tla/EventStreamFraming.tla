-------------------------- MODULE EventStreamFraming --------------------------
(***************************************************************************)
(* EventStreamSplitter (framing/eventstream.rs) and what                   *)
(* BedrockStreamDecoder::decode_message takes from a message               *)
(* (hosting/mod.rs).                                                       *)
(*                                                                         *)
(* A message is the lengths, their checksum, the headers, the payload and  *)
(* the checksum of all that.  Each is one byte here, so that the prelude   *)
(* has two bytes and the overhead is three; a checksum is the very bytes   *)
(* it was computed from, so that it has no collisions.  The headers are    *)
(* their :message-type, or "malformed"; a payload is "malformed" unless it *)
(* holds base64 of an event.                                               *)
(***************************************************************************)
EXTENDS Naturals, Sequences

CONSTANTS
    MaxFrameBytes,      \* MAX_FRAME_BYTES
    None

PreludeBytes == 2
FrameOverhead == 3

Lengths(total, headers) == [byte |-> "lengths", total |-> total, headers |-> headers]
Checksum(bytes) == [byte |-> "checksum", of |-> bytes]
Headers(kind) == [byte |-> "headers", kind |-> kind]
Body(payload) == [byte |-> "payload", payload |-> payload]

NewSplitter == [buffer |-> <<>>]

\* What a message means: a payload for the inner decoder, "ignored" or an error.
Meaning(headers, payload) ==
    LET kind == IF headers = <<>> \/ Head(headers).byte # "headers" THEN None ELSE Head(headers).kind
    IN  CASE kind = "event" ->
                IF payload = <<>> \/ Head(payload).byte # "payload" THEN [type |-> "malformed"]
                ELSE Head(payload).payload
          [] kind = "exception" -> [type |-> "exception"]
          [] OTHER -> [type |-> "ignored"]

\* decode_headers: what is no header fails.
HeadersReadable(headers) ==
    \A i \in DOMAIN headers : headers[i].byte = "headers" /\ headers[i].kind # "malformed"

PreludeValid(buffer) ==
    LET total == buffer[1].total
    IN  /\ buffer[2] = Checksum(<<buffer[1]>>)
        /\ FrameOverhead <= total /\ total <= MaxFrameBytes
        /\ buffer[1].headers <= total - FrameOverhead

Fill(s, size) ==
    LET have == Len(s.buffer)
        n == IF have >= size THEN 0 ELSE IF Len(s.unread) < size - have THEN Len(s.unread) ELSE size - have
    IN  [buffer |-> s.buffer \o SubSeq(s.unread, 1, n), unread |-> SubSeq(s.unread, n + 1, Len(s.unread)),
         frames |-> s.frames, error |-> s.error, over |-> s.over]

\* The message is whole, as far as it was fed.
TakeWhole(s, total) ==
    LET start == PreludeBytes + s.buffer[1].headers
        headers == SubSeq(s.buffer, PreludeBytes + 1, start)
    IN  IF Len(s.buffer) < total THEN [s EXCEPT !.over = TRUE]
        ELSE IF s.buffer[total] # Checksum(SubSeq(s.buffer, 1, total - 1)) \/ ~HeadersReadable(headers)
          THEN [s EXCEPT !.error = "interrupted"]
        ELSE [buffer |-> <<>>, unread |-> s.unread,
              frames |-> Append(s.frames, Meaning(headers, SubSeq(s.buffer, start + 1, total - 1))),
              error |-> s.error, over |-> s.unread = <<>>]

\* The prelude is, as far as it was fed.
TakePrelude(s) ==
    IF Len(s.buffer) < PreludeBytes THEN [s EXCEPT !.over = TRUE]
    ELSE IF s.buffer[1].byte # "lengths" \/ ~PreludeValid(s.buffer) THEN [s EXCEPT !.error = "interrupted"]
    ELSE TakeWhole(Fill(s, s.buffer[1].total), s.buffer[1].total)

\* One turn of the loop of feed_into.
Turn(s) == IF s.error # None \/ s.over THEN s ELSE TakePrelude(Fill(s, PreludeBytes))

\* feed_batch: every turn but the last takes a byte.
FeedBatch(s, bytes) ==
    LET turn[i \in 0 .. Len(bytes) + 1] ==
            IF i = 0 THEN [buffer |-> s.buffer, unread |-> bytes, frames |-> <<>>, error |-> None, over |-> FALSE]
            ELSE Turn(turn[i - 1])
    IN  turn[Len(bytes) + 1]

\* finish: nothing is left.
Finished(s) == s.buffer = <<>>
=============================================================================
