---------------------------- MODULE StreamProofs ----------------------------
(***************************************************************************)
(* What a model stream guarantees for any wires, any bodies and any way    *)
(* the bytes are cut into chunks: the events delivered are those of the    *)
(* same bytes read at once (ChunkingIrrelevant), and the pending bytes are *)
(* counted exactly (PendingBytesExact).                                    *)
(*                                                                         *)
(* The argument: either framing yields of two chunks what it yields of the *)
(* two joined, so push_bytes does (PushJoined), but for a decoder that has *)
(* ended, which is done whatever it still holds (Same).  The invariant     *)
(* compares the decoder of the stream with one that was pushed all bytes   *)
(* read so far at once, and the events delivered and ready with its.       *)
(***************************************************************************)
EXTENDS DecoderProofs

-----------------------------------------------------------------------------
(* Server-sent events in two chunks.                                       *)

\* The same splitters, of which one also has the frames before.
SseAfter(before, s, u) ==
    /\ {"buffer", "skip", "frames", "error"} \subseteq DOMAIN s
    /\ s.frames = before \o u.frames
    /\ s.buffer = u.buffer /\ s.skip = u.skip /\ s.error = u.error

\* The course of the bytes of a chunk.
LEMMA SseCourse ==
    ASSUME NEW s, NEW bytes, IsSequence(bytes)
    PROVE  \E t : /\ t[0] = s /\ \A i \in 1 .. Len(bytes) : t[i] = Sse!PushByte(t[i - 1], bytes[i])
                  /\ Sse!PushEach(s, bytes) = t[Len(bytes)]
<1> DEFINE n == Len(bytes)
<1>1. n \in Nat
  BY SequenceFacts
<1>2. \E t : t = [i \in 0 .. n |-> IF i = 0 THEN s ELSE Sse!PushByte(t[i - 1], bytes[i])]
  <2> HIDE DEF n
  <2>1. PICK t : Runs(t, "PushEach", bytes, s, n)
    BY ONLY <1>1, Loop
  <2> QED
    BY <2>1 DEF Runs, Body
<1>3. PICK t : /\ t = [i \in 0 .. n |-> IF i = 0 THEN s ELSE Sse!PushByte(t[i - 1], bytes[i])]
               /\ Sse!PushEach(s, bytes) = t[n]
  BY <1>2 DEF Sse!PushEach
<1> HIDE DEF n
<1>4. t[0] = s
  BY ONLY <1>1, <1>3
<1>5. ASSUME NEW i \in 1 .. n PROVE t[i] = Sse!PushByte(t[i - 1], bytes[i])
  BY ONLY <1>1, <1>3, i \in 1 .. n
<1> QED
  BY <1>3, <1>4, <1>5 DEF n

\* Bytes may come in two lots.
LEMMA SsePushJoined ==
    ASSUME NEW s, NEW f, NEW g, IsSequence(f), IsSequence(g)
    PROVE  Sse!PushEach(s, f \o g) = Sse!PushEach(Sse!PushEach(s, f), g)
<1> DEFINE m == Len(f)
           n == Len(g)
           half == Sse!PushEach(s, f)
<1>0. PICK all : all = f \o g
  OBVIOUS
<1>1. m \in Nat /\ n \in Nat
  BY SequenceFacts
<1>2. /\ IsSequence(all) /\ Len(all) = m + n
      /\ \A i \in 1 .. m + n : all[i] = IF i <= m THEN f[i] ELSE g[i - m]
  BY <1>0, SequencesJoined
<1>3. PICK a : /\ a[0] = s /\ \A i \in 1 .. m : a[i] = Sse!PushByte(a[i - 1], f[i])
               /\ half = a[m]
  BY SseCourse
<1> HIDE DEF half
<1>4. PICK b : /\ b[0] = half /\ \A i \in 1 .. n : b[i] = Sse!PushByte(b[i - 1], g[i])
               /\ Sse!PushEach(half, g) = b[n]
  BY SseCourse
<1>5. PICK t : /\ t[0] = s /\ \A i \in 1 .. Len(all) : t[i] = Sse!PushByte(t[i - 1], all[i])
               /\ Sse!PushEach(s, all) = t[Len(all)]
  BY <1>2, SseCourse
<1> HIDE DEF m, n
<1>6. \A i \in 1 .. m + n : t[i] = Sse!PushByte(t[i - 1], all[i])
  BY <1>2, <1>5
<1> DEFINE I == {i \in 0 .. m : t[i] = a[i]}
<1>7. \A i \in 0 .. m : i \in I
  <2>1. 0 \in I
    BY <1>1, <1>3, <1>5
  <2>2. ASSUME NEW i \in 1 .. m, i - 1 \in I PROVE i \in I
    <3>1. i \in 1 .. m + n /\ i <= m /\ t[i - 1] = a[i - 1]
      BY <1>1, <2>2
    <3>2. all[i] = f[i]
      BY <1>2, <3>1
    <3> QED
      BY <1>3, <1>6, <3>1, <3>2
  <2> HIDE DEF I
  <2> QED
    BY <1>1, <2>1, <2>2, UpTo
<1>8. t[m] = half
  BY <1>1, <1>3, <1>7
<1> DEFINE J == {i \in 0 .. n : t[m + i] = b[i]}
<1>9. \A i \in 0 .. n : i \in J
  <2>1. 0 \in J
    BY <1>1, <1>4, <1>8
  <2>2. ASSUME NEW i \in 1 .. n, i - 1 \in J PROVE i \in J
    <3>1. m + i \in 1 .. m + n /\ ~(m + i <= m) /\ t[m + (i - 1)] = b[i - 1] /\ (m + i) - m = i /\ (m + i) - 1 = m + (i - 1)
      BY <1>1, <2>2
    <3>2. all[m + i] = g[i]
      BY <1>2, <3>1
    <3>3. t[m + i] = Sse!PushByte(t[m + (i - 1)], g[i])
      BY <1>6, <3>1, <3>2
    <3> QED
      BY <1>4, <3>1, <3>3
  <2> HIDE DEF J
  <2> QED
    BY <1>1, <2>1, <2>2, UpTo
<1>10. t[m + n] = b[n]
  BY <1>1, <1>9
<1> QED
  BY <1>0, <1>2, <1>4, <1>5, <1>10 DEF half

\* Nothing is read after an error.
LEMMA SseOver ==
    ASSUME NEW s, s.error # None, NEW bytes, IsSequence(bytes)
    PROVE  Sse!PushEach(s, bytes) = s
<1> DEFINE n == Len(bytes)
<1>1. n \in Nat /\ IsSequence(bytes)
  BY SequenceFacts
<1>2. PICK t : /\ t[0] = s /\ \A i \in 1 .. n : t[i] = Sse!PushByte(t[i - 1], bytes[i])
               /\ Sse!PushEach(s, bytes) = t[n]
  BY ONLY ZenonT(60), <1>1, SseCourse
<1> HIDE DEF n
<1> DEFINE I == {i \in 0 .. n : t[i] = s}
<1>4. 0 \in I
  BY <1>1, <1>2
<1>5. ASSUME NEW i \in 1 .. n, i - 1 \in I
      PROVE  i \in I
  <2>1. Sse!PushByte(s, bytes[i]) = s
    BY DEF Sse!PushByte
  <2> QED
    BY <1>2, <1>5, <2>1
<1>6. \A i \in 0 .. n : i \in I
  <2> HIDE DEF I
  <2> QED
    BY <1>1, <1>4, <1>5, UpTo
<1> QED
  BY <1>1, <1>2, <1>6

\* The frames before make no difference.
LEMMA SseByteAfter ==
    ASSUME NEW o, IsSequence(o), NEW B, NEW s, NEW u, SseAfter(o, s, u), SplitOf(B, u), NEW b \in B, Sse!LF \in B
    PROVE  SseAfter(o, Sse!PushByte(s, b), Sse!PushByte(u, b))
<1> DEFINE buffer == Append(u.buffer, IF b.byte = "cr" THEN Sse!LF ELSE b)
           ends == Sse!EndsEvent(buffer)
           large == ~ends /\ Len(buffer) > MaxEventBytes
           event == Sse!ParseEvent(SubSeq(buffer, 1, Len(buffer) - 1))
           Pushed(frames) ==
               [buffer |-> IF ends \/ large THEN <<>> ELSE buffer, skip |-> b.byte = "cr",
                frames |-> IF ends THEN frames \o event ELSE frames,
                error |-> IF large THEN "interrupted" ELSE None]
<1>1. Sse!PushByte(u, b) = IF u.error # None THEN u ELSE IF u.skip /\ b.byte = "lf" THEN [u EXCEPT !.skip = FALSE]
                           ELSE Pushed(u.frames)
  BY DEF Sse!PushByte
<1>2. Sse!PushByte(s, b) = IF u.error # None THEN s ELSE IF u.skip /\ b.byte = "lf" THEN [s EXCEPT !.skip = FALSE]
                           ELSE Pushed(s.frames)
  BY DEF Sse!PushByte, SseAfter
<1>3. SseAfter(o, [s EXCEPT !.skip = FALSE], [u EXCEPT !.skip = FALSE])
  <2>1. LET t == [s EXCEPT !.skip = FALSE] IN
        /\ {"buffer", "skip", "frames", "error"} \subseteq DOMAIN t
        /\ t.buffer = s.buffer /\ t.skip = FALSE /\ t.frames = s.frames /\ t.error = s.error
    BY DEF SseAfter
  <2>2. LET v == [u EXCEPT !.skip = FALSE] IN
        v.buffer = u.buffer /\ v.skip = FALSE /\ v.frames = u.frames /\ v.error = u.error
    BY DEF SplitOf
  <2> QED
    BY <2>1, <2>2 DEF SseAfter
<1>4. SseAfter(o, Pushed(s.frames), Pushed(u.frames))
  <2>1. IsSequence(u.frames) /\ (ends => IsSequence(event))
    <3>1. buffer \in Seq(B) /\ Len(buffer) = Len(u.buffer) + 1 /\ Len(u.buffer) \in Nat
      BY AppendProperties, LenProperties DEF SplitOf
    <3>2. SubSeq(buffer, 1, Len(buffer) - 1) \in Seq(B)
      <4>1. \A i \in 1 .. Len(buffer) - 1 : buffer[i] \in B
        BY <3>1, ElementOfSeq
      <4>2. Len(buffer) - 1 \in Nat
        BY <3>1
      <4> HIDE DEF buffer
      <4> QED
        BY <3>1, <4>1, <4>2, SubSeqProperties
    <3> HIDE DEF buffer
    <3>3. event \in Seq(Seq(Fields(B)))
      BY <3>2, SseParseEvent
    <3> QED
      BY <3>3, SequenceOfAny DEF SplitOf
  <2> HIDE DEF ends, large, event, buffer
  <2>2. s.frames = o \o u.frames
    BY DEF SseAfter
  <2> DEFINE x == u.frames
  <2> HIDE DEF x
  <2>3. ends => (o \o x) \o event = o \o (x \o event)
    <3>1. IsSequence(x)
      BY <2>1 DEF x
    <3> QED
      BY <2>1, <3>1, JoiningAssociates
  <2> QED
    BY <2>2, <2>3 DEF SseAfter, x
<1>5. SseAfter(o, s, u)
  OBVIOUS
<1> HIDE DEF Pushed, ends, large, event, buffer
<1> QED
  BY <1>1, <1>2, <1>3, <1>4, <1>5

\* The frames before make no difference to all bytes of a chunk.
LEMMA SseBytesAfter ==
    ASSUME NEW o, IsSequence(o), NEW B, NEW s, NEW u, SseAfter(o, s, u), SplitOf(B, u),
           NEW bytes \in Seq(B), Sse!LF \in B
    PROVE  SseAfter(o, Sse!PushEach(s, bytes), Sse!PushEach(u, bytes))
<1> DEFINE n == Len(bytes)
<1>1. n \in Nat /\ IsSequence(bytes)
  BY SequenceOfAny, SequenceFacts
<1>2. PICK t : /\ t[0] = s /\ \A i \in 1 .. n : t[i] = Sse!PushByte(t[i - 1], bytes[i])
               /\ Sse!PushEach(s, bytes) = t[n]
  BY ONLY <1>1, SseCourse
<1>3. PICK v : /\ v[0] = u /\ \A i \in 1 .. n : v[i] = Sse!PushByte(v[i - 1], bytes[i])
               /\ Sse!PushEach(u, bytes) = v[n]
  BY ONLY <1>1, SseCourse
<1>4. \A i \in 1 .. n : bytes[i] \in B
  BY ElementOfSeq
<1> HIDE DEF n
<1> DEFINE I == {i \in 0 .. n : SseAfter(o, t[i], v[i]) /\ SplitOf(B, v[i])}
<1>5. 0 \in I
  BY <1>1, <1>2, <1>3
<1>6. ASSUME NEW i \in 1 .. n, i - 1 \in I
      PROVE  i \in I
  <2>1. SseAfter(o, t[i - 1], v[i - 1]) /\ SplitOf(B, v[i - 1])
    BY <1>6
  <2>2. SseAfter(o, t[i], v[i])
    BY <1>2, <1>3, <1>4, <2>1, SseByteAfter
  <2>3. SplitOf(B, v[i])
    BY <1>3, <1>4, <2>1, SsePushByte
  <2> QED
    BY <1>1, <2>2, <2>3
<1>7. \A i \in 0 .. n : i \in I
  <2> HIDE DEF I
  <2> QED
    BY <1>1, <1>5, <1>6, UpTo
<1>8. n \in I
  BY <1>1, <1>7
<1> QED
  BY <1>2, <1>3, <1>8

-----------------------------------------------------------------------------
(* Event streams in two chunks.                                            *)

\* A cut within the first of two sequences.
LEMMA CutWithin ==
    ASSUME NEW u, NEW c, IsSequence(u), IsSequence(c), NEW n \in Nat, n <= Len(u)
    PROVE  /\ SubSeq(u \o c, 1, n) = SubSeq(u, 1, n)
           /\ SubSeq(u \o c, n + 1, Len(u \o c)) = SubSeq(u, n + 1, Len(u)) \o c
<1>1. PICK all : all = u \o c
  OBVIOUS
<1>2. Len(u) \in Nat /\ Len(c) \in Nat
  BY SequenceFacts
<1>3. /\ IsSequence(all) /\ Len(all) = Len(u) + Len(c)
      /\ \A i \in 1 .. Len(u) + Len(c) : all[i] = IF i <= Len(u) THEN u[i] ELSE c[i - Len(u)]
  BY <1>1, SequencesJoined
<1>4. SubSeq(all, 1, n) = SubSeq(u, 1, n)
  <2> DEFINE s == SubSeq(all, 1, n)
             t == SubSeq(u, 1, n)
  <2>1. IsSequence(s) /\ Len(s) = n /\ \A i \in 1 .. n : s[i] = all[i]
    <3>1. n <= Len(all)
      BY <1>2, <1>3
    <3> QED
      BY <1>3, <3>1, SequenceCut
  <2>2. IsSequence(t) /\ Len(t) = n /\ \A i \in 1 .. n : t[i] = u[i]
    BY SequenceCut
  <2> HIDE DEF s, t
  <2>3. \A i \in 1 .. n : s[i] = t[i]
    BY <1>2, <1>3, <2>1, <2>2
  <2> QED
    BY <2>1, <2>2, <2>3, SameSequence DEF s, t
<1>5. SubSeq(all, n + 1, Len(all)) = SubSeq(u, n + 1, Len(u)) \o c
  <2> DEFINE s == SubSeq(all, n + 1, Len(all))
             t == SubSeq(u, n + 1, Len(u))
             j == t \o c
             k == Len(u) - n
  <2>1. k \in Nat /\ n + 1 \in Nat \ {0} /\ Len(all) \in Nat
    BY <1>2, <1>3
  <2>2. IsSequence(s) /\ Len(s) = k + Len(c) /\ \A i \in 1 .. k + Len(c) : s[i] = all[n + i]
    <3>1. /\ IsSequence(s) /\ Len(s) = (IF n + 1 <= Len(all) THEN Len(all) - (n + 1) + 1 ELSE 0)
          /\ \A i \in 1 .. Len(all) - (n + 1) + 1 : s[i] = all[(n + 1) + i - 1]
      BY <1>3, <2>1, SequenceCut
    <3> QED
      BY <1>2, <1>3, <3>1
  <2>3. IsSequence(t) /\ Len(t) = k /\ \A i \in 1 .. k : t[i] = u[n + i]
    <3>1. /\ IsSequence(t) /\ Len(t) = (IF n + 1 <= Len(u) THEN Len(u) - (n + 1) + 1 ELSE 0)
          /\ \A i \in 1 .. Len(u) - (n + 1) + 1 : t[i] = u[(n + 1) + i - 1]
      BY <1>2, <2>1, SequenceCut
    <3> QED
      BY <1>2, <3>1
  <2> HIDE DEF s, t, k
  <2>4. /\ IsSequence(j) /\ Len(j) = k + Len(c)
        /\ \A i \in 1 .. k + Len(c) : j[i] = IF i <= k THEN t[i] ELSE c[i - k]
    BY <2>3, SequencesJoined
  <2> HIDE DEF j
  <2>5. ASSUME NEW i \in 1 .. k + Len(c) PROVE s[i] = j[i]
    <3>1. n + i \in 1 .. Len(u) + Len(c) /\ (n + i <= Len(u) <=> i <= k) /\ (n + i) - Len(u) = i - k
      BY <1>2, <2>1 DEF k
    <3>2. all[n + i] = IF i <= k THEN u[n + i] ELSE c[i - k]
      BY <1>3, <3>1
    <3>3. i <= k => i \in 1 .. k
      BY <2>1
    <3> QED
      BY <2>2, <2>3, <2>4, <3>2, <3>3
  <2> QED
    BY <2>2, <2>4, <2>5, SameSequence DEF s, t, j
<1> QED
  BY <1>1, <1>4, <1>5

\* A cut within the second.
LEMMA CutBeyond ==
    ASSUME NEW u, NEW c, IsSequence(u), IsSequence(c), NEW n \in Nat, n <= Len(c)
    PROVE  /\ SubSeq(u \o c, 1, Len(u) + n) = u \o SubSeq(c, 1, n)
           /\ SubSeq(u \o c, Len(u) + n + 1, Len(u \o c)) = SubSeq(c, n + 1, Len(c))
<1>1. PICK all : all = u \o c
  OBVIOUS
<1>2. Len(u) \in Nat /\ Len(c) \in Nat
  BY SequenceFacts
<1>3. /\ IsSequence(all) /\ Len(all) = Len(u) + Len(c)
      /\ \A i \in 1 .. Len(u) + Len(c) : all[i] = IF i <= Len(u) THEN u[i] ELSE c[i - Len(u)]
  BY <1>1, SequencesJoined
<1>4. SubSeq(all, 1, Len(u) + n) = u \o SubSeq(c, 1, n)
  <2> DEFINE s == SubSeq(all, 1, Len(u) + n)
             t == SubSeq(c, 1, n)
             j == u \o t
  <2>1. IsSequence(s) /\ Len(s) = Len(u) + n /\ \A i \in 1 .. Len(u) + n : s[i] = all[i]
    <3>1. Len(u) + n \in Nat /\ Len(u) + n <= Len(all)
      BY <1>2, <1>3
    <3>2. /\ IsSequence(s) /\ Len(s) = (IF 1 <= Len(u) + n THEN Len(u) + n - 1 + 1 ELSE 0)
          /\ \A i \in 1 .. Len(u) + n - 1 + 1 : s[i] = all[1 + i - 1]
      BY <1>3, <3>1, SequenceCut
    <3> QED
      BY <3>1, <3>2
  <2>2. IsSequence(t) /\ Len(t) = n /\ \A i \in 1 .. n : t[i] = c[i]
    BY SequenceCut
  <2> HIDE DEF s, t
  <2>3. /\ IsSequence(j) /\ Len(j) = Len(u) + n
        /\ \A i \in 1 .. Len(u) + n : j[i] = IF i <= Len(u) THEN u[i] ELSE t[i - Len(u)]
    BY <2>2, SequencesJoined
  <2> HIDE DEF j
  <2>4. ASSUME NEW i \in 1 .. Len(u) + n PROVE s[i] = j[i]
    <3>1. i \in 1 .. Len(u) + Len(c) /\ (~(i <= Len(u)) => i - Len(u) \in 1 .. n)
      BY <1>2
    <3> QED
      BY <1>3, <2>1, <2>2, <2>3, <3>1
  <2> QED
    BY <2>1, <2>3, <2>4, SameSequence DEF s, t, j
<1>5. SubSeq(all, Len(u) + n + 1, Len(all)) = SubSeq(c, n + 1, Len(c))
  <2> DEFINE s == SubSeq(all, Len(u) + n + 1, Len(all))
             t == SubSeq(c, n + 1, Len(c))
             k == Len(c) - n
  <2>1. k \in Nat /\ n + 1 \in Nat \ {0} /\ Len(u) + n + 1 \in Nat \ {0} /\ Len(all) \in Nat
    BY <1>2, <1>3
  <2>2. IsSequence(s) /\ Len(s) = k /\ \A i \in 1 .. k : s[i] = all[Len(u) + n + i]
    <3>1. /\ IsSequence(s) /\ Len(s) = (IF Len(u) + n + 1 <= Len(all) THEN Len(all) - (Len(u) + n + 1) + 1 ELSE 0)
          /\ \A i \in 1 .. Len(all) - (Len(u) + n + 1) + 1 : s[i] = all[(Len(u) + n + 1) + i - 1]
      BY <1>3, <2>1, SequenceCut
    <3> QED
      BY <1>2, <1>3, <3>1
  <2>3. IsSequence(t) /\ Len(t) = k /\ \A i \in 1 .. k : t[i] = c[n + i]
    <3>1. /\ IsSequence(t) /\ Len(t) = (IF n + 1 <= Len(c) THEN Len(c) - (n + 1) + 1 ELSE 0)
          /\ \A i \in 1 .. Len(c) - (n + 1) + 1 : t[i] = c[(n + 1) + i - 1]
      BY <1>2, <2>1, SequenceCut
    <3> QED
      BY <1>2, <3>1
  <2> HIDE DEF s, t
  <2>4. ASSUME NEW i \in 1 .. k PROVE s[i] = t[i]
    <3>1. Len(u) + n + i \in 1 .. Len(u) + Len(c) /\ ~(Len(u) + n + i <= Len(u)) /\ (Len(u) + n + i) - Len(u) = n + i
      BY <1>2, <2>1
    <3>2. all[Len(u) + n + i] = c[n + i]
      BY <1>3, <3>1
    <3> QED
      BY <2>2, <2>3, <3>2
  <2> HIDE DEF k
  <2> QED
    BY <2>2, <2>3, <2>4, SameSequence DEF s, t
<1> QED
  BY <1>1, <1>4, <1>5

\* The splitter that goes on with a chunk from where another stopped.
GoesOn(g, c) == [buffer |-> g.buffer, unread |-> c, frames |-> g.frames, error |-> None, over |-> FALSE]

\* Two splitters that differ in what is left to read.
Ahead(x, y, c) ==
    /\ x = [buffer |-> y.buffer, unread |-> y.unread \o c, frames |-> y.frames, error |-> None, over |-> FALSE]
    /\ y.error = None /\ y.over = FALSE

\* What two fills, to f and h, make of them.
Fills(y, c, size, f, h) ==
    /\ Len(f.buffer) >= size => Ahead(h, f, c)
    /\ Len(f.buffer) < size => f.unread = <<>> /\ h = EventStream!Fill(GoesOn(f, c), size)
    /\ \A i \in 1 .. Len(y.buffer) : f.buffer[i] = y.buffer[i]
    /\ Len(f.buffer) \in Nat /\ Len(f.buffer) >= Len(y.buffer)
    /\ f.error = None /\ f.over = FALSE /\ f.frames = y.frames

\* A fill takes the same of both, or all that one has left.
LEMMA FillAhead ==
    ASSUME NEW B, NEW M, NEW x, NEW y, NEW c \in Seq(B), TurnOf(B, M, y), Ahead(x, y, c), NEW size \in Nat,
           NEW f, f = EventStream!Fill(y, size), NEW h, h = EventStream!Fill(x, size)
    PROVE  Fills(y, c, size, f, h)
<1>1. PICK b, u, fr : b = y.buffer /\ u = y.unread /\ fr = y.frames
  OBVIOUS
<1>2. IsSequence(b) /\ IsSequence(u) /\ IsSequence(c) /\ y.error = None /\ y.over = FALSE
  BY <1>1, SequenceOfAny DEF TurnOf, Ahead
<1>3. Len(b) \in Nat /\ Len(u) \in Nat /\ Len(c) \in Nat
  BY <1>2, SequenceFacts
<1>4. PICK all : all = u \o c
  OBVIOUS
<1>5. x = [buffer |-> b, unread |-> all, frames |-> fr, error |-> None, over |-> FALSE]
  BY <1>1, <1>4 DEF Ahead
<1>6. IsSequence(all) /\ Len(all) = Len(u) + Len(c)
  BY <1>2, <1>4, SequencesJoined
<1> DEFINE Taken(len) == IF Len(b) >= size THEN 0 ELSE IF len < size - Len(b) THEN len ELSE size - Len(b)
           n == Taken(Len(u))
           m == Taken(Len(u) + Len(c))
           taken == SubSeq(u, 1, n)
           left == SubSeq(u, n + 1, Len(u))
<1>7. f = [buffer |-> b \o taken, unread |-> left, frames |-> fr, error |-> None, over |-> FALSE]
  BY <1>1, <1>2 DEF EventStream!Fill
<1>8. h = [buffer |-> b \o SubSeq(all, 1, m), unread |-> SubSeq(all, m + 1, Len(all)), frames |-> fr,
           error |-> None, over |-> FALSE]
  <2>1. x.buffer = b /\ x.unread = all /\ x.frames = fr /\ x.error = None /\ x.over = FALSE
    BY <1>5
  <2> QED
    BY <1>6, <2>1 DEF EventStream!Fill
<1>9. n \in Nat /\ n <= Len(u) /\ m \in Nat /\ m <= Len(all)
  BY <1>3, <1>6
<1>10. IsSequence(taken) /\ Len(taken) = n
  <2> HIDE DEF n
  <2> QED
    BY <1>2, <1>9, SequenceCut
<1> DEFINE buffer == b \o taken
<1> HIDE DEF taken
<1>11. /\ IsSequence(buffer) /\ Len(buffer) = Len(b) + n /\ \A i \in 1 .. Len(b) : buffer[i] = b[i]
  <2> HIDE DEF n
  <2>1. /\ IsSequence(buffer) /\ Len(buffer) = Len(b) + n
        /\ \A i \in 1 .. Len(b) + n : buffer[i] = IF i <= Len(b) THEN b[i] ELSE taken[i - Len(b)]
    BY <1>2, <1>10, SequencesJoined
  <2> QED
    BY <1>3, <1>9, <2>1
<1>12. f.buffer = buffer /\ f.frames = fr /\ f.error = None /\ f.over = FALSE /\ f.unread = left
  <2> HIDE DEF n, left
  <2> QED
    BY <1>7
<1>13. ASSUME Len(buffer) >= size
       PROVE  Ahead(h, f, c)
  <2>1. m = n
    BY <1>3, <1>11, <1>13
  <2> HIDE DEF n, m
  <2>2. SubSeq(all, 1, n) = SubSeq(u, 1, n) /\ SubSeq(all, n + 1, Len(all)) = SubSeq(u, n + 1, Len(u)) \o c
    BY <1>2, <1>4, <1>9, CutWithin
  <2>3. h = [buffer |-> f.buffer, unread |-> f.unread \o c, frames |-> f.frames, error |-> None, over |-> FALSE]
    BY <1>8, <1>12, <2>1, <2>2 DEF taken
  <2> QED
    BY <1>12, <2>3 DEF Ahead
<1>14. ASSUME Len(buffer) < size
       PROVE  f.unread = <<>> /\ h = EventStream!Fill(GoesOn(f, c), size)
  <2> DEFINE k == IF Len(c) < size - (Len(b) + Len(u)) THEN Len(c) ELSE size - (Len(b) + Len(u))
  <2>1. n = Len(u) /\ k \in Nat /\ k <= Len(c) /\ m = Len(u) + k /\ Len(b) + Len(u) < size
    BY <1>3, <1>11, <1>14
  <2>2. taken = u /\ f.unread = <<>>
    <3>1. SubSeq(u, 1, Len(u)) = u
      <4>1. /\ IsSequence(SubSeq(u, 1, Len(u))) /\ Len(SubSeq(u, 1, Len(u))) = Len(u)
            /\ \A i \in 1 .. Len(u) : SubSeq(u, 1, Len(u))[i] = u[i]
        BY <1>2, <1>3, SequenceCut
      <4> QED
        BY <1>2, <4>1, SameSequence
    <3>2. SubSeq(u, Len(u) + 1, Len(u)) = <<>>
      <4>1. Len(u) + 1 \in Nat \ {0} /\ ~(Len(u) + 1 <= Len(u))
        BY <1>3
      <4>2. IsSequence(SubSeq(u, Len(u) + 1, Len(u))) /\ Len(SubSeq(u, Len(u) + 1, Len(u))) = 0
        BY <1>2, <1>3, <4>1, SequenceCut
      <4> QED
        BY <4>2, EmptySeq DEF IsSequence
    <3> QED
      BY <1>12, <2>1, <3>1, <3>2 DEF taken
  <2> DEFINE z == GoesOn(f, c)
             q == SubSeq(c, 1, k)
             rest == SubSeq(c, k + 1, Len(c))
  <2>3. z.buffer = b \o u /\ z.unread = c /\ z.frames = fr /\ z.error = None /\ z.over = FALSE
    BY <1>12, <2>2 DEF GoesOn
  <2>4. Len(b \o u) = Len(b) + Len(u)
    BY <1>2, SequencesJoined
  <2> HIDE DEF z
  <2>5. EventStream!Fill(z, size) = [buffer |-> (b \o u) \o q, unread |-> rest, frames |-> fr, error |-> None, over |-> FALSE]
    <3>1. k = IF Len(z.buffer) >= size THEN 0
              ELSE IF Len(z.unread) < size - Len(z.buffer) THEN Len(z.unread) ELSE size - Len(z.buffer)
      BY <1>3, <2>1, <2>3, <2>4
    <3> HIDE DEF k
    <3> QED
      BY <2>3, <3>1 DEF EventStream!Fill
  <2> HIDE DEF k
  <2>6. SubSeq(all, 1, Len(u) + k) = u \o q /\ SubSeq(all, Len(u) + k + 1, Len(all)) = rest
    <3>1. k \in Nat /\ k <= Len(c) /\ IsSequence(u) /\ IsSequence(c)
      BY <1>2, <2>1
    <3>2. /\ SubSeq(u \o c, 1, Len(u) + k) = u \o SubSeq(c, 1, k)
          /\ SubSeq(u \o c, Len(u) + k + 1, Len(u \o c)) = SubSeq(c, k + 1, Len(c))
      BY ONLY <3>1, CutBeyond
    <3> QED
      BY <1>4, <3>2
  <2>7. IsSequence(q)
    BY <1>2, <2>1, SequenceCut
  <2> HIDE DEF q, rest
  <2>8. (b \o u) \o q = b \o (u \o q)
    BY SMTT(30), <1>2, <2>7, JoiningAssociates
  <2> HIDE DEF n, m
  <2>9. h = [buffer |-> b \o (u \o q), unread |-> rest, frames |-> fr, error |-> None, over |-> FALSE]
    BY <1>8, <2>1, <2>6
  <2> QED
    BY <2>2, <2>5, <2>8, <2>9 DEF z
<1> HIDE DEF buffer, n
<1>15. f.buffer = buffer /\ f.frames = fr /\ f.error = None /\ f.over = FALSE
  BY <1>12
<1>16. Len(buffer) \in Nat /\ Len(buffer) >= Len(b)
  BY <1>3, <1>9, <1>11
<1> QED
  BY <1>1, <1>11, <1>12, <1>13, <1>14, <1>15, <1>16 DEF Fills

\* A fill moves bytes and loses none.
LEMMA FillMoves ==
    ASSUME NEW B, NEW M, NEW y, TurnOf(B, M, y), NEW size \in Nat, NEW f, f = EventStream!Fill(y, size)
    PROVE  /\ Len(f.unread) + Len(f.buffer) = Len(y.unread) + Len(y.buffer)
           /\ Len(f.unread) \in Nat /\ Len(f.unread) <= Len(y.unread)
           /\ Len(y.buffer) >= size => f.buffer = y.buffer /\ f.unread = y.unread
<1>1. PICK b, u : b = y.buffer /\ u = y.unread
  OBVIOUS
<1>2. IsSequence(b) /\ IsSequence(u)
  BY <1>1, SequenceOfAny DEF TurnOf
<1>3. Len(b) \in Nat /\ Len(u) \in Nat
  BY <1>2, SequenceFacts
<1> DEFINE n == IF Len(b) >= size THEN 0 ELSE IF Len(u) < size - Len(b) THEN Len(u) ELSE size - Len(b)
<1> DEFINE taken == SubSeq(u, 1, n)
           rest == SubSeq(u, n + 1, Len(u))
<1>4. f = [buffer |-> b \o taken, unread |-> rest, frames |-> y.frames, error |-> y.error, over |-> y.over]
  BY <1>1 DEF EventStream!Fill
<1>5. n \in Nat /\ n <= Len(u) /\ (Len(b) >= size => n = 0)
  BY <1>3
<1> HIDE DEF n
<1>6. f.buffer = b \o taken /\ f.unread = rest
  <2> HIDE DEF taken, rest
  <2> QED
    BY <1>4
<1>7. IsSequence(taken) /\ Len(taken) = n
  BY <1>2, <1>5, SequenceCut
<1>8. IsSequence(rest) /\ Len(rest) = Len(u) - n /\ (\A i \in 1 .. Len(u) - n : rest[i] = u[n + i])
  <2>1. n + 1 \in Nat \ {0}
    BY <1>5
  <2>2. /\ IsSequence(rest) /\ Len(rest) = (IF n + 1 <= Len(u) THEN Len(u) - (n + 1) + 1 ELSE 0)
        /\ \A i \in 1 .. Len(u) - (n + 1) + 1 : rest[i] = u[(n + 1) + i - 1]
    BY <1>2, <1>3, <2>1, SequenceCut
  <2>3. \A i \in 1 .. Len(u) - n : (n + 1) + i - 1 = n + i /\ i \in 1 .. Len(u) - (n + 1) + 1
    BY <1>3, <1>5
  <2> HIDE DEF rest
  <2> QED
    BY <1>3, <1>5, <2>2, <2>3
<1> HIDE DEF taken, rest
<1>9. Len(b \o taken) = Len(b) + n
  BY <1>2, <1>7, SequencesJoined
<1>10. n = 0 => b \o taken = b /\ rest = u
  <2>1. ASSUME n = 0 PROVE taken = <<>>
    BY <1>7, <2>1, EmptySeq DEF IsSequence
  <2>2. n = 0 => rest = u
    BY <1>2, <1>3, <1>8, SameSequence
  <2> QED
    BY <1>2, <2>1, <2>2, SequencesJoined
<1>11. Len(f.unread) = Len(u) - n /\ Len(f.buffer) = Len(b) + n
  BY <1>6, <1>8, <1>9
<1>12. Len(b) >= size => f.buffer = b /\ f.unread = u
  BY <1>5, <1>6, <1>10
<1>13. Len(u) - n + (Len(b) + n) = Len(u) + Len(b) /\ Len(u) - n \in Nat /\ Len(u) - n <= Len(u)
  BY <1>3, <1>5
<1> QED
  BY ONLY <1>1, <1>11, <1>12, <1>13

\* Where a turn of one leads, the turn of the other leads too; or it stops for want
\* of bytes, where the other goes on with the next chunk.
LEMMA TurnAhead ==
    ASSUME NEW B, NEW M, Speaks(B, M), NEW x, NEW y, TurnOf(B, M, y), NEW c \in Seq(B), c # <<>>, Ahead(x, y, c)
    PROVE  LET x2 == EventStream!Turn(x)
               y2 == EventStream!Turn(y)
           IN  \/ Ahead(x2, y2, c)
               \/ y2.error # None /\ x2.error = y2.error /\ x2.frames = y2.frames
               \/ /\ y2.error = None /\ y2.over
                  /\ x2 = GoesOn(y2, c) \/ x2 = EventStream!Turn(GoesOn(y2, c))
<1> DEFINE x2 == EventStream!Turn(x)
           y2 == EventStream!Turn(y)
<1>0. PICK f, h : f = EventStream!Fill(y, EventStream!PreludeBytes) /\ h = EventStream!Fill(x, EventStream!PreludeBytes)
  OBVIOUS
<1>1. x.error = None /\ x.over = FALSE /\ y.error = None /\ y.over = FALSE
  BY DEF Ahead
<1>2. x2 = EventStream!TakePrelude(h) /\ y2 = EventStream!TakePrelude(f)
  BY <1>0, <1>1 DEF EventStream!Turn
<1>3. EventStream!PreludeBytes \in Nat /\ EventStream!PreludeBytes <= MaxFrameBytes /\ EventStream!PreludeBytes = 2
  BY LimitsAssumption DEF EventStream!PreludeBytes
<1>4. TurnOf(B, M, f)
  BY <1>0, <1>3, EventStreamFill
<1>5. /\ Len(f.buffer) >= EventStream!PreludeBytes => Ahead(h, f, c)
      /\ Len(f.buffer) < EventStream!PreludeBytes => f.unread = <<>> /\ h = EventStream!Fill(GoesOn(f, c), EventStream!PreludeBytes)
      /\ Len(f.buffer) \in Nat /\ f.error = None /\ f.over = FALSE
  <2>1. TurnOf(B, M, y) /\ Ahead(x, y, c) /\ c \in Seq(B)
    OBVIOUS
  <2>2. Fills(y, c, EventStream!PreludeBytes, f, h)
    BY ONLY <1>0, <1>3, <2>1, FillAhead
  <2> QED
    BY <2>2 DEF Fills
<1> HIDE DEF x2, y2
<1>6. CASE Len(f.buffer) < EventStream!PreludeBytes
  <2>1. y2 = [f EXCEPT !.over = TRUE]
    BY <1>2, <1>6 DEF EventStream!TakePrelude
  <2>2. y2.buffer = f.buffer /\ y2.frames = f.frames /\ y2.error = None /\ y2.over
    BY <1>4, <1>5, <2>1 DEF TurnOf
  <2>3. GoesOn(y2, c) = GoesOn(f, c)
    BY <2>2 DEF GoesOn
  <2>4. EventStream!Turn(GoesOn(f, c)) = EventStream!TakePrelude(EventStream!Fill(GoesOn(f, c), EventStream!PreludeBytes))
    BY DEF EventStream!Turn, GoesOn
  <2> QED
    BY <1>2, <1>5, <1>6, <2>2, <2>3, <2>4 DEF x2, y2
<1>7. CASE ~(Len(f.buffer) < EventStream!PreludeBytes)
  <2>1. Ahead(h, f, c) /\ h.buffer = f.buffer /\ h.frames = f.frames /\ h.error = None /\ h.over = FALSE /\ h.unread = f.unread \o c
    BY <1>3, <1>5, <1>7 DEF Ahead
  <2> DEFINE invalid == f.buffer[1].byte # "lengths" \/ ~EventStream!PreludeValid(f.buffer)
  <2>2. CASE invalid
    <3>1. y2 = [f EXCEPT !.error = "interrupted"] /\ x2 = [h EXCEPT !.error = "interrupted"]
      BY <1>2, <1>7, <2>1, <2>2 DEF EventStream!TakePrelude
    <3>2. {"error", "frames"} \subseteq DOMAIN f /\ {"error", "frames"} \subseteq DOMAIN h
      BY <1>4, <2>1 DEF TurnOf, Ahead
    <3>3. y2.error = "interrupted" /\ x2.error = "interrupted" /\ y2.frames = f.frames /\ x2.frames = f.frames
      BY <2>1, <3>1, <3>2
    <3> QED
      BY <3>3, NoneAssumption DEF x2, y2
  <2>3. CASE ~invalid
    <3> DEFINE total == f.buffer[1].total
    <3>0. PICK g, k : g = EventStream!Fill(f, total) /\ k = EventStream!Fill(h, total)
      OBVIOUS
    <3>1. y2 = EventStream!TakeWhole(g, total) /\ x2 = EventStream!TakeWhole(k, total)
      BY <1>2, <1>7, <2>1, <2>3, <3>0 DEF EventStream!TakePrelude
    <3>2. total \in Nat /\ total <= MaxFrameBytes
      <4>1. f.buffer[1] \in B
        BY <1>3, <1>4, <1>5, <1>7, ElementOfSeq DEF TurnOf
      <4> QED
        BY <2>3, <4>1 DEF Speaks, EventStream!PreludeValid
    <3>3. TurnOf(B, M, g)
      BY <1>4, <3>0, <3>2, EventStreamFill
    <3>4. /\ Len(g.buffer) >= total => Ahead(k, g, c)
          /\ Len(g.buffer) < total => g.unread = <<>> /\ k = EventStream!Fill(GoesOn(g, c), total)
          /\ \A i \in 1 .. Len(f.buffer) : g.buffer[i] = f.buffer[i]
          /\ Len(g.buffer) \in Nat /\ Len(g.buffer) >= Len(f.buffer)
          /\ g.error = None /\ g.over = FALSE
      <4>1. TurnOf(B, M, f) /\ Ahead(h, f, c) /\ c \in Seq(B)
        BY <1>4, <2>1
      <4> HIDE DEF total
      <4>2. Fills(f, c, total, g, k)
        BY ONLY <3>0, <3>2, <4>1, FillAhead
      <4> QED
        BY <4>2 DEF Fills
    <3>5. f.buffer[1] = g.buffer[1] /\ f.buffer[2] = g.buffer[2]
      BY <1>3, <1>5, <1>7, <3>4
    <3>6. CASE Len(g.buffer) < total
      <4>1. y2 = [g EXCEPT !.over = TRUE]
        BY <3>1, <3>6 DEF EventStream!TakeWhole
      <4>2. y2.buffer = g.buffer /\ y2.frames = g.frames /\ y2.error = None /\ y2.over
        BY <3>3, <3>4, <4>1 DEF TurnOf
      <4> DEFINE z == GoesOn(g, c)
      <4>3. GoesOn(y2, c) = z
        BY <4>2 DEF GoesOn
      <4>4. z.buffer = g.buffer /\ z.unread = c /\ z.frames = g.frames /\ z.error = None /\ z.over = FALSE
        BY DEF GoesOn
      <4>5. EventStream!Fill(z, EventStream!PreludeBytes) = z
        <5>1. DOMAIN z = {"buffer", "unread", "frames", "error", "over"}
          BY DEF GoesOn
        <5> HIDE DEF z
        <5>2. TurnOf(B, M, z)
          BY <3>3, <4>4, <5>1 DEF TurnOf
        <5>0. PICK filled : filled = EventStream!Fill(z, EventStream!PreludeBytes)
          OBVIOUS
        <5>3. filled.buffer = z.buffer /\ filled.unread = z.unread
          <6>1. Len(z.buffer) >= EventStream!PreludeBytes
            BY <1>3, <1>5, <1>7, <3>4, <4>4
          <6> QED
            BY ZenonT(40), <1>3, <5>0, <5>2, <6>1, FillMoves
        <5>4. filled = [buffer |-> filled.buffer, unread |-> filled.unread, frames |-> z.frames, error |-> z.error, over |-> z.over]
          BY <5>0 DEF EventStream!Fill
        <5>5. filled = [buffer |-> g.buffer, unread |-> c, frames |-> g.frames, error |-> None, over |-> FALSE]
          BY <4>4, <5>3, <5>4
        <5> QED
          BY <5>0, <5>5 DEF z, GoesOn
      <4>6. EventStream!Turn(z) = EventStream!TakePrelude(z)
        BY <4>4, <4>5 DEF EventStream!Turn
      <4>7. EventStream!TakePrelude(z) = EventStream!TakeWhole(EventStream!Fill(z, total), total)
        <5>1. z.buffer[1] = f.buffer[1] /\ z.buffer[2] = f.buffer[2] /\ ~(Len(z.buffer) < EventStream!PreludeBytes)
          BY <1>3, <1>5, <1>7, <3>4, <3>5, <4>4
        <5> HIDE DEF z
        <5>2. ~(z.buffer[1].byte # "lengths" \/ ~EventStream!PreludeValid(z.buffer)) /\ z.buffer[1].total = total
          BY <2>3, <5>1 DEF EventStream!PreludeValid
        <5> HIDE DEF total, invalid
        <5> QED
          BY <5>1, <5>2 DEF EventStream!TakePrelude
      <4> HIDE DEF z
      <4>8. x2 = EventStream!Turn(z)
        BY <3>1, <3>4, <3>6, <4>6, <4>7 DEF z
      <4> QED
        BY <4>2, <4>3, <4>8 DEF x2, y2
    <3>7. CASE ~(Len(g.buffer) < total)
      <4>1. Ahead(k, g, c) /\ k.buffer = g.buffer /\ k.frames = g.frames /\ k.error = None /\ k.unread = g.unread \o c
        BY <3>2, <3>4, <3>7 DEF Ahead
      <4> DEFINE start == EventStream!PreludeBytes + g.buffer[1].headers
                 headers == SubSeq(g.buffer, EventStream!PreludeBytes + 1, start)
                 message == EventStream!Meaning(headers, SubSeq(g.buffer, start + 1, total - 1))
                 damaged == g.buffer[total] # EventStream!Checksum(SubSeq(g.buffer, 1, total - 1))
                            \/ ~EventStream!HeadersReadable(headers)
                 Taken(s) == [buffer |-> <<>>, unread |-> s.unread, frames |-> Append(s.frames, message),
                              error |-> s.error, over |-> s.unread = <<>>]
      <4>2. y2 = IF damaged THEN [g EXCEPT !.error = "interrupted"] ELSE Taken(g)
        <5> HIDE DEF total
        <5> QED
          BY <3>1, <3>7 DEF EventStream!TakeWhole
      <4>3. x2 = IF damaged THEN [k EXCEPT !.error = "interrupted"] ELSE Taken(k)
        <5> HIDE DEF total
        <5> QED
          BY <3>1, <3>7, <4>1 DEF EventStream!TakeWhole
      <4> HIDE DEF damaged, message
      <4>4. CASE damaged
        <5>1. {"error", "frames"} \subseteq DOMAIN g /\ {"error", "frames"} \subseteq DOMAIN k
          BY <3>3, <4>1 DEF TurnOf, Ahead
        <5>2. y2.error = "interrupted" /\ x2.error = "interrupted" /\ y2.frames = g.frames /\ x2.frames = g.frames
          BY <4>1, <4>2, <4>3, <4>4, <5>1
        <5> QED
          BY <5>2, NoneAssumption DEF x2, y2
      <4>5. CASE ~damaged
        <5>1. PICK u, fr : u = g.unread /\ fr = Append(g.frames, message)
          OBVIOUS
        <5>2. u \o c # <<>> /\ (u = <<>> => u \o c = c)
          <6>1. IsSequence(u) /\ IsSequence(c) /\ Len(u) \in Nat /\ Len(c) \in Nat /\ Len(c) # 0
            BY <3>3, <5>1, SequenceOfAny, SequenceFacts, EmptySeq DEF TurnOf
          <6>2. Len(u \o c) = Len(u) + Len(c) /\ <<>> \o c = c
            BY <6>1, SequencesJoined
          <6> QED
            BY <6>1, <6>2, EmptySequence
        <5>3. x2 = [buffer |-> <<>>, unread |-> u \o c, frames |-> fr, error |-> None, over |-> FALSE]
          <6>1. x2 = [buffer |-> <<>>, unread |-> u \o c, frames |-> fr, error |-> None, over |-> u \o c = <<>>]
            BY <4>1, <4>3, <4>5, <5>1
          <6>2. (u \o c = <<>>) = FALSE
            BY <5>2
          <6> QED
            BY <6>1, <6>2
        <5>4. y2 = [buffer |-> <<>>, unread |-> u, frames |-> fr, error |-> None, over |-> u = <<>>]
          BY <3>4, <4>2, <4>5, <5>1
        <5>5. y2.buffer = <<>> /\ y2.unread = u /\ y2.frames = fr /\ y2.error = None /\ y2.over = (u = <<>>)
          BY <5>4
        <5>6. CASE u = <<>>
          <6>1. x2 = GoesOn(y2, c)
            BY <5>2, <5>3, <5>5, <5>6 DEF GoesOn
          <6> QED
            BY <5>5, <5>6, <6>1 DEF x2, y2
        <5>7. CASE u # <<>>
          <6>1. y2.over = FALSE
            BY <5>5, <5>7
          <6>2. Ahead(x2, y2, c)
            BY <5>3, <5>5, <6>1 DEF Ahead
          <6> QED
            BY <6>2 DEF x2, y2
        <5> QED
          BY <5>6, <5>7
      <4> QED
        BY <4>4, <4>5
    <3> QED
      BY <3>6, <3>7
  <2> QED
    BY <2>2, <2>3
<1> QED
  BY <1>6, <1>7

\* The loop is over.
Halted(s) == s.error # None \/ s.over

\* A halted event stream does nothing more.
LEMMA HaltedStays ==
    ASSUME NEW s, Halted(s)
    PROVE  EventStream!Turn(s) = s
BY DEF Halted, EventStream!Turn

\* A turn that does not end the loop takes a byte, unless it had a buffer.
LEMMA TurnProgress ==
    ASSUME NEW B, NEW M, Speaks(B, M), NEW y, TurnOf(B, M, y), ~Halted(y), NEW z, z = EventStream!Turn(y)
    PROVE  \/ Halted(z)
           \/ /\ z.buffer = <<>> /\ z.unread # <<>> /\ Len(z.unread) \in Nat /\ Len(z.unread) <= Len(y.unread)
              /\ y.buffer = <<>> => Len(z.unread) < Len(y.unread)
<1>1. PICK f : f = EventStream!Fill(y, EventStream!PreludeBytes)
  OBVIOUS
<1>2. z = EventStream!TakePrelude(f)
  BY <1>1 DEF EventStream!Turn, Halted
<1>3. EventStream!PreludeBytes = 2 /\ EventStream!PreludeBytes \in Nat /\ EventStream!PreludeBytes <= MaxFrameBytes
  BY LimitsAssumption DEF EventStream!PreludeBytes
<1>4. TurnOf(B, M, f)
  BY <1>1, <1>3, EventStreamFill
<1>5. /\ Len(f.unread) + Len(f.buffer) = Len(y.unread) + Len(y.buffer)
      /\ Len(f.unread) \in Nat /\ Len(f.unread) <= Len(y.unread)
  BY <1>1, <1>3, FillMoves
<1>6. Len(f.buffer) \in Nat /\ Len(y.buffer) \in Nat /\ Len(y.unread) \in Nat
  BY <1>4, LenProperties DEF TurnOf
<1>7. CASE Len(f.buffer) < EventStream!PreludeBytes
  <2>1. z = [f EXCEPT !.over = TRUE]
    BY <1>2, <1>7 DEF EventStream!TakePrelude
  <2>2. z.over
    BY <1>4, <2>1 DEF TurnOf
  <2> QED
    BY <2>2 DEF Halted
<1>8. CASE ~(Len(f.buffer) < EventStream!PreludeBytes)
  <2> DEFINE invalid == f.buffer[1].byte # "lengths" \/ ~EventStream!PreludeValid(f.buffer)
  <2>1. CASE invalid
    <3>1. z = [f EXCEPT !.error = "interrupted"]
      BY <1>2, <1>8, <2>1 DEF EventStream!TakePrelude
    <3>2. z.error = "interrupted"
      BY <1>4, <3>1 DEF TurnOf
    <3> QED
      BY <3>2, NoneAssumption DEF Halted
  <2>2. CASE ~invalid
    <3> DEFINE total == f.buffer[1].total
    <3>1. PICK g : g = EventStream!Fill(f, total)
      OBVIOUS
    <3>2. z = EventStream!TakeWhole(g, total)
      BY <1>2, <1>8, <2>2, <3>1 DEF EventStream!TakePrelude
    <3>3. total \in Nat /\ total <= MaxFrameBytes
      <4>1. f.buffer[1] \in B
        BY <1>3, <1>4, <1>6, <1>8, ElementOfSeq DEF TurnOf
      <4> QED
        BY <2>2, <4>1 DEF Speaks, EventStream!PreludeValid
    <3> HIDE DEF total
    <3>4. TurnOf(B, M, g)
      BY <1>4, <3>1, <3>3, EventStreamFill
    <3>5. Len(g.unread) \in Nat /\ Len(g.unread) <= Len(f.unread)
      BY <1>4, <3>1, <3>3, FillMoves
    <3>6. CASE Len(g.buffer) < total
      <4>1. z = [g EXCEPT !.over = TRUE]
        BY <3>2, <3>6 DEF EventStream!TakeWhole
      <4>2. z.over
        BY <3>4, <4>1 DEF TurnOf
      <4> QED
        BY <4>2 DEF Halted
    <3>7. CASE ~(Len(g.buffer) < total)
      <4>1. \/ z = [g EXCEPT !.error = "interrupted"]
            \/ \E fr : z = [buffer |-> <<>>, unread |-> g.unread, frames |-> fr, error |-> g.error, over |-> g.unread = <<>>]
        BY <3>2, <3>7 DEF EventStream!TakeWhole
      <4>2. CASE z = [g EXCEPT !.error = "interrupted"]
        <5>1. z.error = "interrupted"
          BY <3>4, <4>2 DEF TurnOf
        <5> QED
          BY <5>1, NoneAssumption DEF Halted
      <4>3. CASE \E fr : z = [buffer |-> <<>>, unread |-> g.unread, frames |-> fr, error |-> g.error, over |-> g.unread = <<>>]
        <5>1. z.buffer = <<>> /\ z.unread = g.unread /\ z.over = (g.unread = <<>>)
          BY <4>3
        <5>2. z.unread # <<>> \/ Halted(z)
          BY <5>1 DEF Halted
        <5>3. y.buffer = <<>> => Len(y.buffer) = 0
          BY EmptySequence
        <5>4. y.buffer = <<>> => Len(f.unread) < Len(y.unread)
          <6>1. SUFFICES ASSUME Len(y.buffer) = 0 PROVE Len(f.unread) < Len(y.unread)
            BY <5>3
          <6>2. PICK a, b, c : a = Len(f.unread) /\ b = Len(f.buffer) /\ c = Len(y.unread)
            OBVIOUS
          <6>3. a \in Nat /\ b \in Nat /\ c \in Nat /\ a + b = c + 0 /\ ~(b < 2)
            BY <1>3, <1>5, <1>6, <1>8, <6>1, <6>2
          <6>4. a < c
            BY ONLY <6>3
          <6> QED
            BY <6>2, <6>4
        <5> QED
          BY <1>5, <1>6, <3>5, <5>1, <5>2, <5>4
      <4> QED
        BY <4>1, <4>2, <4>3
    <3> QED
      BY <3>6, <3>7
  <2> QED
    BY <2>1, <2>2
<1> QED
  BY <1>7, <1>8

\* The turns of a loop.
Turns(t, s, n) == t[0] = s /\ \A i \in 1 .. n : t[i] = EventStream!Turn(t[i - 1])

\* There is a run of any number of turns.
LEMMA TurnsExist ==
    ASSUME NEW s, NEW n \in Nat
    PROVE  \E t : Turns(t, s, n)
<1>1. PICK t : Runs(t, "FeedBatch", <<>>, s, n)
  BY Loop
<1>2. t = [i \in 0 .. n |-> IF i = 0 THEN s ELSE EventStream!Turn(t[i - 1])]
  BY <1>1 DEF Runs, Body
<1>3. t[0] = s
  BY ONLY <1>2, n \in Nat
<1>4. ASSUME NEW i \in 1 .. n PROVE t[i] = EventStream!Turn(t[i - 1])
  BY ONLY <1>2, n \in Nat, i \in 1 .. n
<1> QED
  BY <1>3, <1>4 DEF Turns

\* Where a call of feed_batch begins.
Begins(g, bytes) == [buffer |-> g.buffer, unread |-> bytes, frames |-> <<>>, error |-> None, over |-> FALSE]

\* feed_batch is a run of one turn more than there are bytes.
LEMMA FeedTurns ==
    ASSUME NEW g, NEW bytes, IsSequence(bytes)
    PROVE  \E t : Turns(t, Begins(g, bytes), Len(bytes) + 1) /\ EventStream!FeedBatch(g, bytes) = t[Len(bytes) + 1]
<1> DEFINE n == Len(bytes) + 1
           s == Begins(g, bytes)
<1>1. n \in Nat
  BY SequenceFacts
<1>2. \E t : t = [i \in 0 .. n |-> IF i = 0 THEN s ELSE EventStream!Turn(t[i - 1])]
  <2> HIDE DEF n, s
  <2>1. PICK t : Runs(t, "FeedBatch", <<>>, s, n)
    BY ONLY <1>1, Loop
  <2> QED
    BY <2>1 DEF Runs, Body
<1>3. PICK t : /\ t = [i \in 0 .. n |-> IF i = 0 THEN s ELSE EventStream!Turn(t[i - 1])]
               /\ EventStream!FeedBatch(g, bytes) = t[n]
  BY <1>2 DEF EventStream!FeedBatch, Begins
<1> HIDE DEF n, s
<1>4. t[0] = s
  BY ONLY <1>1, <1>3
<1>5. ASSUME NEW i \in 1 .. n PROVE t[i] = EventStream!Turn(t[i - 1])
  BY ONLY <1>1, <1>3, i \in 1 .. n
<1>6. Turns(t, s, n)
  BY <1>4, <1>5 DEF Turns
<1> QED
  BY <1>3, <1>6 DEF n, s

\* What is left after i of n turns.
Left(z, n, i) ==
    \/ Halted(z)
    \/ z.buffer = <<>> /\ z.unread # <<>> /\ Len(z.unread) \in Nat /\ Len(z.unread) + i <= n

\* They are enough.
LEMMA TurnsHalt ==
    ASSUME NEW B, NEW M, Speaks(B, M), NEW s, TurnOf(B, M, s), NEW n, n = Len(s.unread) + 1, NEW t, Turns(t, s, n)
    PROVE  Halted(t[n]) /\ \A i \in 0 .. n : TurnOf(B, M, t[i])
<1> DEFINE k == Len(s.unread)
<1>1. k \in Nat /\ n = k + 1
  BY LenProperties DEF TurnOf
<1> HIDE DEF k
<1>2. t[0] = s /\ \A i \in 1 .. n : t[i] = EventStream!Turn(t[i - 1])
  BY DEF Turns
<1> DEFINE I == {i \in 0 .. n : TurnOf(B, M, t[i]) /\ (i = 0 \/ Left(t[i], n, i))}
<1>3. 0 \in I
  BY <1>1, <1>2
<1>4. ASSUME NEW i \in 1 .. n, i - 1 \in I
      PROVE  i \in I
  <2>1. PICK y, z : y = t[i - 1] /\ z = t[i] /\ z = EventStream!Turn(y)
    BY <1>2
  <2>2. TurnOf(B, M, y) /\ TurnOf(B, M, z)
    BY <1>4, <2>1, EventStreamTurn
  <2>3. i \in Nat /\ n \in Nat /\ i >= 1 /\ i <= n
    BY <1>1
  <2>4. ASSUME ~Halted(z) PROVE Left(z, n, i)
    <3>1. ~Halted(y)
      BY <2>1, <2>4, HaltedStays
    <3>2. /\ z.buffer = <<>> /\ z.unread # <<>> /\ Len(z.unread) \in Nat /\ Len(z.unread) <= Len(y.unread)
          /\ y.buffer = <<>> => Len(z.unread) < Len(y.unread)
      BY <2>1, <2>2, <2>4, <3>1, TurnProgress
    <3>3. Len(y.unread) \in Nat
      BY <2>2, LenProperties DEF TurnOf
    <3>4. Len(z.unread) + i <= n
      <4>1. CASE i = 1
        <5>1. Len(y.unread) = k
          BY <1>2, <2>1, <4>1 DEF k
        <5> QED
          BY <1>1, <3>2, <4>1, <5>1
      <4>2. CASE i # 1
        <5>1. Left(y, n, i - 1)
          BY <1>4, <2>1, <2>3, <4>2
        <5>2. y.buffer = <<>> /\ Len(y.unread) + (i - 1) <= n
          BY <3>1, <5>1 DEF Left
        <5>3. Len(z.unread) < Len(y.unread)
          BY <3>2, <5>2
        <5> QED
          BY ONLY <2>3, <3>2, <3>3, <5>2, <5>3
      <4> QED
        BY <4>1, <4>2
    <3> QED
      BY <3>2, <3>4 DEF Left
  <2>5. Left(z, n, i)
    BY <2>4 DEF Left
  <2>6. i \in 0 .. n /\ TurnOf(B, M, t[i]) /\ Left(t[i], n, i)
    BY <2>1, <2>2, <2>3, <2>5
  <2> QED
    BY <2>6
<1>5. \A i \in 0 .. n : i \in I
  <2>1. n \in Nat
    BY <1>1
  <2> HIDE DEF I
  <2> QED
    BY <2>1, <1>3, <1>4, UpTo
<1>6. n \in I /\ n # 0 /\ n \in Nat
  BY <1>1, <1>5
<1>7. Halted(t[n])
  <2>1. SUFFICES ASSUME ~Halted(t[n]) PROVE FALSE
    OBVIOUS
  <2>2. t[n].unread # <<>> /\ Len(t[n].unread) \in Nat /\ Len(t[n].unread) + n <= n /\ TurnOf(B, M, t[n])
    BY <1>6, <2>1 DEF Left
  <2>3. Len(t[n].unread) = 0
    <3>1. PICK m : m = Len(t[n].unread)
      OBVIOUS
    <3> QED
      BY ONLY <1>6, <2>2, <3>1
  <2>4. t[n].unread = <<>>
    BY <2>2, <2>3, EmptySeq DEF TurnOf
  <2> QED
    BY <2>2, <2>4
<1> QED
  BY <1>5, <1>7

\* The turns from s lead to h, where the loop ends.
Leads(s, h) == Halted(h) /\ \E k \in Nat : \E t : Turns(t, s, k) /\ t[k] = h

\* A halted stream leads to itself.
LEMMA LeadsNowhere ==
    ASSUME NEW s, NEW h, Leads(s, h), Halted(s)
    PROVE  h = s
<1>0. PICK k \in Nat : \E t : Turns(t, s, k) /\ t[k] = h
  BY DEF Leads
<1>1. PICK t : Turns(t, s, k) /\ t[k] = h
  BY <1>0
<1> DEFINE I == {i \in 0 .. k : t[i] = s}
<1>2. 0 \in I
  BY <1>1 DEF Turns
<1>3. ASSUME NEW i \in 1 .. k, i - 1 \in I PROVE i \in I
  <2>1. t[i] = EventStream!Turn(s)
    BY <1>1, <1>3 DEF Turns
  <2> QED
    BY <2>1, HaltedStays
<1>4. \A i \in 0 .. k : i \in I
  <2> HIDE DEF I
  <2> QED
    BY <1>2, <1>3, UpTo
<1> QED
  BY <1>1, <1>4

\* What a stream leads to, its next turn leads to.
LEMMA LeadsOn ==
    ASSUME NEW s, NEW h, Leads(s, h)
    PROVE  Leads(EventStream!Turn(s), h)
<1>0. PICK k \in Nat : \E t : Turns(t, s, k) /\ t[k] = h
  BY DEF Leads
<1>1. PICK t : Turns(t, s, k) /\ t[k] = h
  BY <1>0
<1>2. Halted(h)
  BY DEF Leads
<1>3. CASE k = 0
  <2>1. h = s
    BY <1>1, <1>3 DEF Turns
  <2>2. EventStream!Turn(s) = s
    BY <1>2, <2>1, HaltedStays
  <2> QED
    BY <2>2
<1>4. CASE k # 0
  <2> DEFINE u == [i \in 0 .. k - 1 |-> t[i + 1]]
  <2>1. k - 1 \in Nat
    BY <1>4
  <2>2. u[0] = EventStream!Turn(s) /\ u[k - 1] = h
    <3>1. u[0] = t[1] /\ u[k - 1] = t[k]
      BY <2>1
    <3>2. t[1] = EventStream!Turn(t[0]) /\ t[0] = s
      BY <1>1, <1>4 DEF Turns
    <3> QED
      BY <1>1, <3>1, <3>2
  <2>3. ASSUME NEW i \in 1 .. k - 1 PROVE u[i] = EventStream!Turn(u[i - 1])
    <3>1. u[i] = t[i + 1] /\ u[i - 1] = t[i] /\ i + 1 \in 1 .. k /\ (i + 1) - 1 = i
      BY <2>1
    <3>2. t[i + 1] = EventStream!Turn(t[(i + 1) - 1])
      BY <1>1, <3>1 DEF Turns
    <3> QED
      BY <3>1, <3>2
  <2> HIDE DEF u
  <2>4. Turns(u, EventStream!Turn(s), k - 1)
    BY <2>2, <2>3 DEF Turns
  <2> QED
    BY <1>2, <2>1, <2>2, <2>4 DEF Leads
<1> QED
  BY <1>3, <1>4

\* And the other way about.
LEMMA LeadsBack ==
    ASSUME NEW s, NEW h, Leads(EventStream!Turn(s), h)
    PROVE  Leads(s, h)
<1>0. PICK k \in Nat : \E t : Turns(t, EventStream!Turn(s), k) /\ t[k] = h
  BY DEF Leads
<1>1. PICK t : Turns(t, EventStream!Turn(s), k) /\ t[k] = h
  BY <1>0
<1> DEFINE u == [i \in 0 .. k + 1 |-> IF i = 0 THEN s ELSE t[i - 1]]
<1>2. u[0] = s /\ u[k + 1] = h
  BY <1>1
<1>3. ASSUME NEW i \in 1 .. k + 1 PROVE u[i] = EventStream!Turn(u[i - 1])
  <2>1. u[i] = t[i - 1] /\ u[i - 1] = IF i = 1 THEN s ELSE t[i - 2]
    OBVIOUS
  <2>2. CASE i = 1
    BY <1>1, <2>1, <2>2 DEF Turns
  <2>3. CASE i # 1
    <3>1. i - 1 \in 1 .. k /\ (i - 1) - 1 = i - 2
      BY <2>3
    <3>2. t[i - 1] = EventStream!Turn(t[(i - 1) - 1])
      BY <1>1, <3>1 DEF Turns
    <3> QED
      BY <2>1, <2>3, <3>1, <3>2
  <2> QED
    BY <2>2, <2>3
<1> HIDE DEF u
<1>4. Turns(u, s, k + 1) /\ k + 1 \in Nat
  BY <1>2, <1>3 DEF Turns
<1> QED
  BY <1>2, <1>4 DEF Leads

\* A stream leads to one end only.
LEMMA LeadsOnce ==
    ASSUME NEW s, NEW g, NEW h, Leads(s, g), Leads(s, h)
    PROVE  g = h
<1>0. PICK k \in Nat : \E t : Turns(t, s, k) /\ t[k] = g
  BY DEF Leads
<1>1. PICK t : Turns(t, s, k) /\ t[k] = g
  BY <1>0
<1> DEFINE I == {i \in 0 .. k : Leads(t[i], h)}
<1>2. 0 \in I
  BY <1>1 DEF Turns
<1>3. ASSUME NEW i \in 1 .. k, i - 1 \in I PROVE i \in I
  <2>1. t[i] = EventStream!Turn(t[i - 1]) /\ Leads(t[i - 1], h)
    BY <1>1, <1>3 DEF Turns
  <2> QED
    BY <2>1, LeadsOn
<1>4. \A i \in 0 .. k : i \in I
  <2> HIDE DEF I
  <2> QED
    BY <1>2, <1>3, UpTo
<1>5. Leads(g, h) /\ Halted(g)
  BY <1>1, <1>4 DEF Leads
<1> QED
  BY <1>5, LeadsNowhere

\* The same splitters, of which one also has the frames before.
TurnAfter(before, s, u) ==
    /\ {"buffer", "unread", "frames", "error", "over"} \subseteq DOMAIN s
    /\ s.frames = before \o u.frames
    /\ s.buffer = u.buffer /\ s.unread = u.unread /\ s.error = u.error /\ s.over = u.over

\* The frames before make no difference to filling the buffer.
LEMMA FillAfter ==
    ASSUME NEW o, NEW s, NEW u, TurnAfter(o, s, u), NEW size
    PROVE  TurnAfter(o, EventStream!Fill(s, size), EventStream!Fill(u, size))
<1>1. PICK b, r : EventStream!Fill(u, size) = [buffer |-> b, unread |-> r, frames |-> u.frames, error |-> u.error, over |-> u.over]
                  /\ EventStream!Fill(s, size) = [buffer |-> b, unread |-> r, frames |-> s.frames, error |-> s.error, over |-> s.over]
  BY DEF EventStream!Fill, TurnAfter
<1> QED
  BY <1>1 DEF TurnAfter

\* They make no difference to a turn.
LEMMA TurnsAfter ==
    ASSUME NEW o, IsSequence(o), NEW B, NEW M, Speaks(B, M), NEW s, NEW u, TurnAfter(o, s, u), TurnOf(B, M, u)
    PROVE  TurnAfter(o, EventStream!Turn(s), EventStream!Turn(u))
<1>1. CASE Halted(u)
  <2>1. Halted(s)
    BY <1>1 DEF Halted, TurnAfter
  <2> QED
    BY <1>1, <2>1, HaltedStays
<1>2. CASE ~Halted(u)
  <2>1. PICK f, h : f = EventStream!Fill(u, EventStream!PreludeBytes) /\ h = EventStream!Fill(s, EventStream!PreludeBytes)
    OBVIOUS
  <2>2. EventStream!Turn(u) = EventStream!TakePrelude(f) /\ EventStream!Turn(s) = EventStream!TakePrelude(h)
    BY <1>2, <2>1 DEF EventStream!Turn, Halted, TurnAfter
  <2>3. TurnAfter(o, h, f)
    BY <2>1, FillAfter
  <2>4. TurnOf(B, M, f)
    <3>1. EventStream!PreludeBytes \in Nat /\ EventStream!PreludeBytes <= MaxFrameBytes
      BY LimitsAssumption DEF EventStream!PreludeBytes
    <3> QED
      BY <2>1, <3>1, EventStreamFill
  <2>5. h.buffer = f.buffer
    BY <2>3 DEF TurnAfter
  <2>6. TurnAfter(o, [h EXCEPT !.over = TRUE], [f EXCEPT !.over = TRUE])
    BY <2>3, <2>4 DEF TurnAfter, TurnOf
  <2>7. TurnAfter(o, [h EXCEPT !.error = "interrupted"], [f EXCEPT !.error = "interrupted"])
    BY <2>3, <2>4 DEF TurnAfter, TurnOf
  <2>8. CASE Len(f.buffer) < EventStream!PreludeBytes
    BY <2>2, <2>5, <2>6, <2>8 DEF EventStream!TakePrelude
  <2>9. CASE ~(Len(f.buffer) < EventStream!PreludeBytes)
    <3> DEFINE invalid == f.buffer[1].byte # "lengths" \/ ~EventStream!PreludeValid(f.buffer)
    <3>1. CASE invalid
      BY <2>2, <2>5, <2>7, <2>9, <3>1 DEF EventStream!TakePrelude
    <3>2. CASE ~invalid
      <4> DEFINE total == f.buffer[1].total
      <4>1. PICK g, k : g = EventStream!Fill(f, total) /\ k = EventStream!Fill(h, total)
        OBVIOUS
      <4>2. /\ EventStream!TakePrelude(f) = EventStream!TakeWhole(g, total)
            /\ EventStream!TakePrelude(h) = EventStream!TakeWhole(k, total)
        BY <2>5, <2>9, <3>2, <4>1 DEF EventStream!TakePrelude
      <4>3. total \in Nat /\ total <= MaxFrameBytes
        <5>1. Len(f.buffer) \in Nat /\ 1 <= Len(f.buffer)
          BY <2>4, <2>9, LenProperties DEF TurnOf, EventStream!PreludeBytes
        <5>2. f.buffer[1] \in B
          BY <2>4, <5>1, ElementOfSeq DEF TurnOf
        <5> QED
          BY <3>2, <5>2 DEF Speaks, EventStream!PreludeValid
      <4> HIDE DEF total
      <4>4. TurnAfter(o, k, g)
        BY <2>3, <4>1, FillAfter
      <4>5. TurnOf(B, M, g)
        BY <2>4, <4>1, <4>3, EventStreamFill
      <4>6. k.buffer = g.buffer /\ k.unread = g.unread /\ k.error = g.error /\ k.frames = o \o g.frames
        BY <4>4 DEF TurnAfter
      <4> DEFINE start == EventStream!PreludeBytes + g.buffer[1].headers
                 headers == SubSeq(g.buffer, EventStream!PreludeBytes + 1, start)
                 message == EventStream!Meaning(headers, SubSeq(g.buffer, start + 1, total - 1))
                 damaged == g.buffer[total] # EventStream!Checksum(SubSeq(g.buffer, 1, total - 1))
                            \/ ~EventStream!HeadersReadable(headers)
                 Taken(x) == [buffer |-> <<>>, unread |-> x.unread, frames |-> Append(x.frames, message),
                              error |-> x.error, over |-> x.unread = <<>>]
                 After(x) == IF Len(g.buffer) < total THEN [x EXCEPT !.over = TRUE]
                             ELSE IF damaged THEN [x EXCEPT !.error = "interrupted"] ELSE Taken(x)
      <4>7. EventStream!TakeWhole(g, total) = After(g)
        BY DEF EventStream!TakeWhole
      <4>8. EventStream!TakeWhole(k, total) = After(k)
        BY <4>6 DEF EventStream!TakeWhole
      <4> HIDE DEF message, damaged
      <4>9. TurnAfter(o, [k EXCEPT !.over = TRUE], [g EXCEPT !.over = TRUE])
        BY <4>4, <4>5 DEF TurnAfter, TurnOf
      <4>10. TurnAfter(o, [k EXCEPT !.error = "interrupted"], [g EXCEPT !.error = "interrupted"])
        BY <4>4, <4>5 DEF TurnAfter, TurnOf
      <4>11. TurnAfter(o, Taken(k), Taken(g))
        <5>1. PICK fr : fr = g.frames
          OBVIOUS
        <5>2. IsSequence(fr)
          BY <4>5, <5>1, SequenceOfAny DEF TurnOf
        <5>3. IsSequence(o \o fr) /\ IsSequence(<<message>>)
          BY <5>2, SequencesJoined, OneElement
        <5>4. Append(o \o fr, message) = (o \o fr) \o <<message>> /\ Append(fr, message) = fr \o <<message>>
          BY <5>2, <5>3, SequenceExtended
        <5>5. (o \o fr) \o <<message>> = o \o (fr \o <<message>>)
          BY SMTT(30), <5>2, <5>3, JoiningAssociates
        <5>6. Append(k.frames, message) = o \o Append(g.frames, message)
          BY <4>6, <5>1, <5>4, <5>5
        <5> QED
          BY <4>6, <5>6 DEF TurnAfter
      <4> HIDE DEF Taken
      <4>12. TurnAfter(o, After(k), After(g))
        BY <4>9, <4>10, <4>11
      <4> HIDE DEF After
      <4> QED
        BY <2>2, <4>2, <4>7, <4>8, <4>12
    <3> QED
      BY <3>1, <3>2
  <2> QED
    BY <2>8, <2>9
<1> QED
  BY <1>1, <1>2

\* What one makes of a first chunk, two of the second, and all of both at once.
Continued(one, two, all) ==
    /\ one.error # None => all.frames = one.frames /\ all.error = one.error
    /\ one.error = None => /\ all.frames = one.frames \o two.frames
                           /\ all.error = two.error /\ all.buffer = two.buffer

\* A body in two chunks: the second goes on where the first stopped.
LEMMA FeedJoined ==
    ASSUME NEW B, NEW M, Speaks(B, M), NEW g, g.buffer \in Seq(B), Len(g.buffer) <= MaxFrameBytes,
           NEW p \in Seq(B), NEW c \in Seq(B), c # <<>>,
           NEW one, one = EventStream!FeedBatch(g, p),
           NEW rest, rest.buffer = one.buffer,
           NEW two, two = EventStream!FeedBatch(rest, c),
           NEW all, all = EventStream!FeedBatch(g, p \o c)
    PROVE  Continued(one, two, all)
<1> DEFINE m == Len(p) + 1
           n == Len(c) + 1
           N == Len(p \o c) + 1
<1>1. /\ IsSequence(p) /\ IsSequence(c) /\ Len(p) \in Nat /\ Len(c) \in Nat
      /\ IsSequence(p \o c) /\ Len(p \o c) = Len(p) + Len(c) /\ p \o c \in Seq(B)
  BY SequenceOfAny, SequenceFacts, SequencesJoined, ConcatProperties
<1>2. m \in Nat /\ n \in Nat /\ N \in Nat /\ m <= N
  BY <1>1
<1>3. PICK y : Turns(y, Begins(g, p), m) /\ one = y[m]
  BY <1>1, FeedTurns
<1>4. PICK v : Turns(v, Begins(rest, c), n) /\ two = v[n]
  BY <1>1, FeedTurns
<1>5. PICK x : Turns(x, Begins(g, p \o c), N) /\ all = x[N]
  BY <1>1, FeedTurns
<1>6. \A bytes \in Seq(B) : TurnOf(B, M, Begins(g, bytes)) /\ Begins(g, bytes).unread = bytes
  BY DEF Begins, TurnOf
<1>7. Halted(one) /\ \A i \in 0 .. m : TurnOf(B, M, y[i])
  BY <1>3, <1>6, TurnsHalt
<1>8. Halted(all)
  <2>1. PICK s : s = Begins(g, p \o c)
    OBVIOUS
  <2>2. TurnOf(B, M, s) /\ N = Len(s.unread) + 1 /\ Turns(x, s, N)
    BY <1>1, <1>5, <1>6, <2>1
  <2> HIDE DEF N
  <2> QED
    BY <1>5, <2>2, TurnsHalt
<1>9. TurnOf(B, M, Begins(rest, c)) /\ Begins(rest, c).unread = c
  <2>1. one.buffer \in Seq(B) /\ Len(one.buffer) <= MaxFrameBytes
    BY <1>2, <1>3, <1>7 DEF TurnOf
  <2> QED
    BY <2>1 DEF Begins, TurnOf
<1>10. Halted(two) /\ \A i \in 0 .. n : TurnOf(B, M, v[i])
  BY <1>4, <1>9, TurnsHalt
<1>11. Leads(x[0], all) /\ x[0] = Begins(g, p \o c) /\ y[0] = Begins(g, p)
  BY <1>2, <1>3, <1>5, <1>8 DEF Leads, Turns
<1> HIDE DEF m, n, N
<1>12. Ahead(x[0], y[0], c)
  BY <1>11 DEF Ahead, Begins
<1> DEFINE Stopped(a, b) ==
               \/ b.error # None /\ a.error = b.error /\ a.frames = b.frames
               \/ b.error = None /\ b.over /\ Leads(GoesOn(b, c), all)
           I == {i \in 0 .. m : Leads(x[i], all) /\ (Ahead(x[i], y[i], c) \/ Stopped(x[i], y[i]))}
<1>13. 0 \in I
  BY <1>2, <1>11, <1>12
<1>14. ASSUME NEW i \in 1 .. m, i - 1 \in I PROVE i \in I
  <2>1. PICK a, b, a2, b2 : a = x[i - 1] /\ b = y[i - 1] /\ a2 = x[i] /\ b2 = y[i]
    OBVIOUS
  <2>2. a2 = EventStream!Turn(a) /\ b2 = EventStream!Turn(b)
    <3>1. i \in 1 .. N
      BY <1>2
    <3> QED
      BY <1>3, <1>5, <2>1, <3>1 DEF Turns
  <2>3. Leads(a, all) /\ (Ahead(a, b, c) \/ Stopped(a, b)) /\ TurnOf(B, M, b)
    BY <1>2, <1>7, <1>14, <2>1
  <2>4. Leads(a2, all)
    BY <2>2, <2>3, LeadsOn
  <2>5. CASE Ahead(a, b, c)
    <3>1. \/ Ahead(a2, b2, c)
          \/ b2.error # None /\ a2.error = b2.error /\ a2.frames = b2.frames
          \/ /\ b2.error = None /\ b2.over
             /\ a2 = GoesOn(b2, c) \/ a2 = EventStream!Turn(GoesOn(b2, c))
      BY <2>2, <2>3, <2>5, TurnAhead
    <3>2. a2 = EventStream!Turn(GoesOn(b2, c)) => Leads(GoesOn(b2, c), all)
      BY <2>4, LeadsBack
    <3>3. Ahead(a2, b2, c) \/ Stopped(a2, b2)
      BY <2>4, <3>1, <3>2
    <3> HIDE DEF Stopped
    <3> QED
      BY <1>2, <2>1, <2>4, <3>3
  <2>6. CASE Stopped(a, b)
    <3>1. Halted(b) /\ (b.error # None => Halted(a))
      BY <2>6 DEF Halted
    <3>2. b2 = b /\ (b.error # None => a2 = a)
      BY <2>2, <3>1, HaltedStays
    <3>3. Stopped(a2, b2)
      BY <2>6, <3>2
    <3> HIDE DEF Stopped
    <3> QED
      BY <1>2, <2>1, <2>4, <3>3
  <2> QED
    BY <2>3, <2>5, <2>6
<1>15. \A i \in 0 .. m : i \in I
  <2> HIDE DEF I
  <2> QED
    BY <1>2, <1>13, <1>14, UpTo
<1>16. Leads(x[m], all) /\ (Ahead(x[m], one, c) \/ Stopped(x[m], one))
  BY <1>2, <1>3, <1>15
<1>17. Stopped(x[m], one)
  BY <1>7, <1>16 DEF Ahead, Halted
<1>18. ASSUME one.error # None
       PROVE  all.frames = one.frames /\ all.error = one.error
  <2>1. Halted(x[m]) /\ x[m].error = one.error /\ x[m].frames = one.frames
    BY <1>17, <1>18 DEF Halted
  <2>2. all = x[m]
    BY <1>16, <2>1, LeadsNowhere
  <2> QED
    BY <2>1, <2>2
<1>19. ASSUME one.error = None
       PROVE  all.frames = one.frames \o two.frames /\ all.error = two.error /\ all.buffer = two.buffer
  <2>1. Leads(GoesOn(one, c), all)
    BY <1>17, <1>19
  <2>2. PICK r : Turns(r, GoesOn(one, c), n)
    BY <1>2, TurnsExist
  <2>3. IsSequence(one.frames)
    BY <1>2, <1>3, <1>7, SequenceOfAny DEF TurnOf
  <2> DEFINE J == {i \in 0 .. n : TurnAfter(one.frames, r[i], v[i])}
  <2>4. 0 \in J
    <3>1. r[0] = GoesOn(one, c) /\ v[0] = Begins(rest, c)
      BY <1>4, <2>2 DEF Turns
    <3>2. one.frames \o <<>> = one.frames
      BY <2>3, EmptySequence, SequencesJoined
    <3>3. TurnAfter(one.frames, GoesOn(one, c), Begins(rest, c))
      BY <3>2 DEF TurnAfter, GoesOn, Begins
    <3> QED
      BY <1>2, <3>1, <3>3
  <2>5. ASSUME NEW i \in 1 .. n, i - 1 \in J PROVE i \in J
    <3>1. r[i] = EventStream!Turn(r[i - 1]) /\ v[i] = EventStream!Turn(v[i - 1])
      BY <1>4, <2>2 DEF Turns
    <3>2. TurnAfter(one.frames, r[i - 1], v[i - 1]) /\ TurnOf(B, M, v[i - 1])
      BY <1>2, <1>10, <2>5
    <3>3. TurnAfter(one.frames, r[i], v[i])
      BY <2>3, <3>1, <3>2, TurnsAfter
    <3> QED
      BY <1>2, <3>3
  <2>6. \A i \in 0 .. n : i \in J
    <3> HIDE DEF J
    <3> QED
      BY <1>2, <2>4, <2>5, UpTo
  <2>7. TurnAfter(one.frames, r[n], two)
    BY <1>2, <1>4, <2>6
  <2>8. Halted(r[n])
    BY <1>10, <2>7 DEF TurnAfter, Halted
  <2>9. Leads(GoesOn(one, c), r[n])
    BY <1>2, <2>2, <2>8 DEF Leads
  <2>10. all = r[n]
    BY <2>1, <2>9, LeadsOnce
  <2> QED
    BY <2>7, <2>10 DEF TurnAfter
<1> QED
  BY <1>18, <1>19 DEF Continued

-----------------------------------------------------------------------------
(* Either framing in two chunks.                                           *)

\* What one makes of the first chunk, two of the second, and all of both at once.
Joins(w, one, two, all) ==
    /\ one.error # None => all.frames = one.frames /\ all.error = one.error
    /\ one.error = None => /\ all.frames = one.frames \o two.frames
                           /\ all.error = two.error /\ Kept(w, all) = Kept(w, two)

\* Server-sent events in two chunks, p then c, yield what they yield in one.
LEMMA SseJoined ==
    ASSUME NEW w, ~w.bedrock, NEW g, Framing(w, g), NEW p, NEW c, Bytes(w, p), Bytes(w, c),
           NEW one, one = Split(w, g, p), NEW two, two = Split(w, Kept(w, one), c),
           NEW all, all = Split(w, g, p \o c)
    PROVE  Joins(w, one, two, all)
<1> DEFINE B == ToSet(g.buffer) \cup ToSet(p) \cup ToSet(c) \cup {Sse!LF}
           Blank(buffer, skip) == [buffer |-> buffer, skip |-> skip, frames |-> <<>>, error |-> None]
           s == Blank(g.buffer, g.skip)
           u == Blank(one.buffer, one.skip)
<1>1. IsSequence(p) /\ IsSequence(c)
  BY DEF Bytes
<1>2. one = Sse!PushEach(s, p) /\ all = Sse!PushEach(s, p \o c) /\ two = Sse!PushEach(u, c)
  BY DEF Split, Sse!PushBatch, Kept
<1>3. all = Sse!PushEach(one, c)
  <2> HIDE DEF s, u
  <2> QED
    BY <1>1, <1>2, SsePushJoined
<1>4. g.buffer \in Seq(B) /\ p \in Seq(B) /\ c \in Seq(B) /\ Sse!LF \in B
  BY BytesIn, SeqMonotonic DEF Framing
<1> HIDE DEF B
<1>5. \A buffer, skip : buffer \in Seq(B) /\ Len(buffer) <= MaxEventBytes => SplitOf(B, Blank(buffer, skip))
  <2>1. \A buffer, skip : /\ DOMAIN Blank(buffer, skip) = {"buffer", "skip", "frames", "error"}
                          /\ Blank(buffer, skip).buffer = buffer /\ Blank(buffer, skip).frames = <<>>
    OBVIOUS
  <2>2. <<>> \in Seq(Seq(Fields(B)))
    OBVIOUS
  <2> HIDE DEF Blank
  <2> QED
    BY <2>1, <2>2 DEF SplitOf
<1>6. SplitOf(B, s)
  BY <1>4, <1>5 DEF Framing
<1> HIDE DEF s
<1>7. SplitOf(B, one)
  BY <1>2, <1>4, <1>6, SsePushEach
<1>8. SplitOf(B, u)
  BY <1>5, <1>7 DEF SplitOf
<1>9. ASSUME one.error # None PROVE all = one
  BY <1>1, <1>3, <1>9, SseOver
<1>10. ASSUME one.error = None
       PROVE  all.frames = one.frames \o two.frames /\ all.error = two.error /\ Kept(w, all) = Kept(w, two)
  <2>1. IsSequence(one.frames) /\ {"buffer", "skip", "frames", "error"} \subseteq DOMAIN one
    BY <1>7, SequenceOfAny DEF SplitOf
  <2>2. one.frames \o <<>> = one.frames
    BY <2>1, EmptySequence, SequencesJoined
  <2>3. u.buffer = one.buffer /\ u.skip = one.skip /\ u.frames = <<>> /\ u.error = None
    OBVIOUS
  <2> HIDE DEF u
  <2>4. SseAfter(one.frames, one, u)
    BY <1>10, <2>1, <2>2, <2>3 DEF SseAfter
  <2>5. SseAfter(one.frames, all, two)
    BY <1>2, <1>3, <1>4, <1>8, <2>1, <2>4, SseBytesAfter
  <2>6. Kept(w, all) = Kept(w, two)
    BY <2>5 DEF SseAfter, Kept
  <2> QED
    BY <2>5, <2>6 DEF SseAfter
<1> QED
  BY <1>9, <1>10 DEF Joins

\* The bytes of two chunks are bytes.
LEMMA BytesJoined ==
    ASSUME NEW w, NEW p, NEW c, Bytes(w, p), Bytes(w, c), NEW both, both = p \o c
    PROVE  IsSequence(p) /\ IsSequence(c) /\ Bytes(w, both)
<1>1. IsSequence(p) /\ IsSequence(c) /\ Len(p) \in Nat /\ Len(c) \in Nat
  BY SequenceFacts DEF Bytes
<1>2. /\ IsSequence(both) /\ Len(both) = Len(p) + Len(c)
      /\ \A i \in 1 .. Len(p) + Len(c) : both[i] = IF i <= Len(p) THEN p[i] ELSE c[i - Len(p)]
  BY <1>1, SequencesJoined
<1>3. ASSUME NEW i \in 1 .. Len(p) + Len(c) PROVE IsByte(w, both[i])
  <2>1. (i <= Len(p) => i \in 1 .. Len(p)) /\ (~(i <= Len(p)) => i - Len(p) \in 1 .. Len(c))
    BY <1>1
  <2> QED
    BY <1>2, <2>1 DEF Bytes
<1> QED
  BY <1>1, <1>2, <1>3 DEF Bytes

\* Event streams in two chunks yield what they yield in one.
LEMMA EventStreamJoined ==
    ASSUME NEW w, w.bedrock, NEW g, Framing(w, g), NEW p, NEW c, Bytes(w, p), Bytes(w, c), c # <<>>,
           NEW one, one = Split(w, g, p), NEW two, two = Split(w, Kept(w, one), c),
           NEW all, all = Split(w, g, p \o c)
    PROVE  Joins(w, one, two, all)
<1>1. PICK both : both = p \o c
  OBVIOUS
<1>2. IsSequence(p) /\ IsSequence(c) /\ Bytes(w, both)
  BY <1>1, BytesJoined
<1>3. PICK B, M : Speaks(B, M) /\ g.buffer \in Seq(B) /\ both \in Seq(B)
  BY <1>2, EventStreamSplit
<1>4. p \in Seq(B) /\ c \in Seq(B)
  <2>1. Len(p) \in Nat /\ Len(c) \in Nat
    BY <1>2, SequenceFacts
  <2>2. /\ Len(both) = Len(p) + Len(c)
        /\ \A i \in 1 .. Len(p) + Len(c) : both[i] = IF i <= Len(p) THEN p[i] ELSE c[i - Len(p)]
    BY <1>1, <1>2, SequencesJoined
  <2>3. \A i \in 1 .. Len(both) : both[i] \in B
    BY <1>3, ElementOfSeq
  <2>4. ASSUME NEW i \in 1 .. Len(p) PROVE p[i] \in B
    <3>1. i \in 1 .. Len(p) + Len(c) /\ i <= Len(p)
      BY <2>1
    <3> QED
      BY <2>2, <2>3, <3>1
  <2>5. ASSUME NEW i \in 1 .. Len(c) PROVE c[i] \in B
    <3>1. Len(p) + i \in 1 .. Len(p) + Len(c) /\ ~(Len(p) + i <= Len(p)) /\ (Len(p) + i) - Len(p) = i
      BY <2>1
    <3> QED
      BY <2>2, <2>3, <3>1
  <2>6. p = [i \in 1 .. Len(p) |-> p[i]] /\ c = [i \in 1 .. Len(c) |-> c[i]]
    BY <1>2, SequenceFacts
  <2>7. [i \in 1 .. Len(p) |-> p[i]] \in Seq(B) /\ [i \in 1 .. Len(c) |-> c[i]] \in Seq(B)
    BY <2>1, <2>4, <2>5
  <2> QED
    BY <2>6, <2>7
<1>5. PICK rest : rest = Kept(w, one)
  OBVIOUS
<1>6. rest.buffer = one.buffer
  BY <1>5 DEF Kept
<1>7. one = EventStream!FeedBatch(g, p) /\ two = EventStream!FeedBatch(rest, c) /\ all = EventStream!FeedBatch(g, p \o c)
  BY <1>5 DEF Split
<1>8. Len(g.buffer) <= MaxFrameBytes
  BY DEF Framing
<1>9. Continued(one, two, all)
  BY ONLY <1>3, <1>4, <1>6, <1>7, <1>8, c # <<>>, FeedJoined
<1>10. all.buffer = two.buffer => Kept(w, all) = Kept(w, two)
  BY DEF Kept
<1> QED
  BY <1>9, <1>10 DEF Joins, Continued

\* Either framing in two chunks yields what it yields in one.
THEOREM SplitJoined ==
    ASSUME NEW w, NEW g, Framing(w, g), NEW p, NEW c, Bytes(w, p), Bytes(w, c), c # <<>>
    PROVE  Joins(w, Split(w, g, p), Split(w, Kept(w, Split(w, g, p)), c), Split(w, g, p \o c))
<1>1. PICK one, two, all : one = Split(w, g, p) /\ two = Split(w, Kept(w, one), c) /\ all = Split(w, g, p \o c)
  OBVIOUS
<1>2. CASE w.bedrock
  BY <1>1, <1>2, EventStreamJoined
<1>3. CASE ~w.bedrock
  BY <1>1, <1>3, SseJoined
<1> QED
  BY <1>2, <1>3

-----------------------------------------------------------------------------
(* One call of the stream decoder, and two calls made one.                 *)

\* The error of the framing keeps a decoder in order.
LEMMA ThenRefuseReads ==
    ASSUME NEW w, NEW s, Read(w, s), NEW error
    PROVE  Read(w, ThenRefuse(s, error)) /\ ThenRefuse(s, error).decoder.framing = s.decoder.framing
<1>1. CASE error = None \/ s.decoder.ended
  BY <1>1 DEF ThenRefuse
<1>2. CASE ~(error = None \/ s.decoder.ended)
  <2>1. PICK r : r = Refuse(s.decoder.inner, error)
    OBVIOUS
  <2>2. Decoded(w, r)
    BY <2>1, InnerRefused DEF Read, Decoder
  <2>3. ThenRefuse(s, error) = AppendResult(s, r)
    BY <1>2, <2>1 DEF ThenRefuse
  <2> QED
    BY <1>2, <2>2, <2>3, AppendResultReads
<1> QED
  BY <1>1, <1>2

\* It ends the decoder.
LEMMA ThenRefuseEnds ==
    ASSUME NEW w, NEW s, Read(w, s), NEW error, error # None
    PROVE  ThenRefuse(s, error).decoder.ended
<1>1. CASE s.decoder.ended
  BY <1>1 DEF ThenRefuse
<1>2. CASE ~s.decoder.ended
  <2>1. PICK r : r = Refuse(s.decoder.inner, error)
    OBVIOUS
  <2>2. PICK a : a = AppendResult(s, r)
    OBVIOUS
  <2>3. a.decoder = [inner |-> r.decoder, framing |-> s.decoder.framing, ended |-> Ends(r) # {} \/ r.error # None]
    BY <2>2, AppendResultAdds DEF Read
  <2>4. r.error # None
    BY <2>1 DEF Refuse
  <2>5. ThenRefuse(s, error) = a
    BY <1>2, <2>1, <2>2 DEF ThenRefuse
  <2>6. PICK ended : ended = (Ends(r) # {} \/ r.error # None)
    OBVIOUS
  <2>7. ended
    BY <2>4, <2>6
  <2>8. a.decoder.ended = ended
    BY <2>3, <2>6
  <2> QED
    BY <2>5, <2>7, <2>8
<1> QED
  BY <1>1, <1>2

\* It does the same to decoders that are alike.
LEMMA ThenRefuseLike ==
    ASSUME NEW w, NEW s, NEW u, Read(w, s), Read(w, u), NEW o, IsSequence(o), Like(o, s, u), NEW error
    PROVE  Like(o, ThenRefuse(s, error), ThenRefuse(u, error))
<1>1. s.decoder.inner = u.decoder.inner /\ s.decoder.ended = u.decoder.ended
  BY DEF Like
<1>2. CASE error = None \/ s.decoder.ended
  BY <1>1, <1>2 DEF ThenRefuse
<1>3. CASE ~(error = None \/ s.decoder.ended)
  <2>1. PICK r : r = Refuse(s.decoder.inner, error)
    OBVIOUS
  <2>2. Decoded(w, r)
    BY <2>1, InnerRefused DEF Read, Decoder
  <2>3. ThenRefuse(s, error) = AppendResult(s, r) /\ ThenRefuse(u, error) = AppendResult(u, r)
    BY <1>1, <1>3, <2>1 DEF ThenRefuse
  <2> QED
    BY <2>2, <2>3, AppendResultLike
<1> QED
  BY <1>2, <1>3

-----------------------------------------------------------------------------

\* How the frames of a call are taken: with nothing emitted yet.
Starts(d, g) == [decoder |-> [d EXCEPT !.framing = g], out |-> <<>>]

\* A call starts with a decoder in order and no events.
LEMMA StartsRead ==
    ASSUME NEW w, NEW d, Decoder(w, d), ~d.ended, NEW g, Framing(w, g)
    PROVE  /\ Read(w, Starts(d, g)) /\ Starts(d, g).out = <<>>
           /\ Starts(d, g).decoder.inner = d.inner /\ Starts(d, g).decoder.framing = g
           /\ ~Starts(d, g).decoder.ended
<1> DEFINE e == [d EXCEPT !.framing = g]
<1>1. d = [inner |-> d.inner, framing |-> d.framing, ended |-> d.ended]
  BY DEF Decoder
<1>2. DOMAIN e = {"inner", "framing", "ended"} /\ e.inner = d.inner /\ e.framing = g /\ e.ended = d.ended
  <2>1. DOMAIN d = {"inner", "framing", "ended"}
    BY <1>1
  <2> QED
    BY <2>1
<1>3. e = [inner |-> e.inner, framing |-> e.framing, ended |-> e.ended]
  <2>1. e = [k \in {"inner", "framing", "ended"} |-> e[k]]
    BY <1>2
  <2> HIDE DEF e
  <2> QED
    BY <2>1
<1>4. Starts(d, g).decoder = e /\ Starts(d, g).out = <<>> /\ Starts(d, g) = [decoder |-> e, out |-> <<>>]
  BY DEF Starts
<1>5. d.ended = FALSE /\ Inner(w, d.inner)
  BY DEF Decoder
<1> HIDE DEF e
<1>6. Decoder(w, e)
  BY <1>2, <1>3, <1>5 DEF Decoder
<1>7. Ordered(<<>>) /\ Over(<<>>) = FALSE
  BY EmptySequence DEF Ordered, Over
<1>8. Starts(d, g) = [decoder |-> Starts(d, g).decoder, out |-> Starts(d, g).out]
  BY <1>4
<1> QED
  BY <1>2, <1>4, <1>5, <1>6, <1>7, <1>8 DEF Read

-----------------------------------------------------------------------------
(* push_bytes                                                              *)

\* A decoder that has ended emits nothing and stays as it is.
LEMMA PushOver ==
    ASSUME NEW w, NEW d, d.ended, NEW bytes
    PROVE  PushBytes(w, d, bytes).decoder = d /\ PushBytes(w, d, bytes).out = <<>>
BY DEF PushBytes

\* What a call of any other does, in its parts.
LEMMA PushParts ==
    ASSUME NEW w, Known(w), NEW d, Decoder(w, d), ~d.ended, NEW bytes, Bytes(w, bytes),
           NEW split, split = Split(w, d.framing, bytes), NEW g, g = Kept(w, split),
           NEW taken, taken = TakeEach(w, Starts(d, g), split.frames)
    PROVE  /\ PushBytes(w, d, bytes) = ThenRefuse(taken, split.error)
           /\ Framing(w, g) /\ Framed(w, split.frames)
           /\ Read(w, Starts(d, g)) /\ Read(w, taken) /\ taken.decoder.framing = g
<1>1. Framing(w, d.framing)
  BY DEF Decoder
<1>2. Framing(w, g) /\ Framed(w, split.frames)
  BY <1>1, SplitFramed
<1>3. PICK s : s = Starts(d, g) /\ Read(w, s) /\ s.decoder.framing = g
  BY <1>2, StartsRead
<1>4. PICK frames : frames = split.frames
  OBVIOUS
<1>5. Read(w, taken) /\ taken.decoder.framing = g
  <2>1. taken = TakeEach(w, s, frames) /\ Framed(w, frames)
    BY <1>2, <1>3, <1>4
  <2> QED
    BY <1>3, <2>1, TakeEachReads
<1>6. PushBytes(w, d, bytes) = ThenRefuse(taken, split.error)
  BY DEF PushBytes, PushSplit, TakeFrames, Starts
<1> QED
  BY <1>2, <1>3, <1>5, <1>6

\* push_bytes leaves a decoder in order, ended when it emitted the last event.
LEMMA PushReads ==
    ASSUME NEW w, Known(w), NEW d, Decoder(w, d), NEW bytes, Bytes(w, bytes)
    PROVE  /\ Decoder(w, PushBytes(w, d, bytes).decoder) /\ Ordered(PushBytes(w, d, bytes).out)
           /\ PushBytes(w, d, bytes).decoder.ended = (d.ended \/ Over(PushBytes(w, d, bytes).out))
<1>1. CASE d.ended
  <2>1. Ordered(<<>>)
    BY EmptySequence DEF Ordered
  <2>2. PushBytes(w, d, bytes).decoder = d /\ PushBytes(w, d, bytes).out = <<>>
    BY <1>1, PushOver
  <2>3. d.ended = TRUE /\ Over(<<>>) = FALSE
    BY <1>1 DEF Decoder, Over
  <2> QED
    BY <2>1, <2>2, <2>3
<1>2. CASE ~d.ended
  <2>1. PICK split, g, taken : /\ split = Split(w, d.framing, bytes) /\ g = Kept(w, split)
                               /\ taken = TakeEach(w, Starts(d, g), split.frames)
    OBVIOUS
  <2>2. PushBytes(w, d, bytes) = ThenRefuse(taken, split.error) /\ Read(w, taken)
    BY <1>2, <2>1, PushParts
  <2>3. PICK r : r = PushBytes(w, d, bytes)
    OBVIOUS
  <2>4. Read(w, r)
    BY <2>2, <2>3, ThenRefuseReads
  <2>5. Decoder(w, r.decoder) /\ Ordered(r.out) /\ r.decoder.ended = (d.ended \/ Over(r.out))
    BY <1>2, <2>4 DEF Read, Over
  <2> QED
    BY <2>3, <2>5
<1> QED
  BY <1>1, <1>2

\* What no call can tell apart.
Same(d, e) == (d.ended /\ e.ended) \/ d = e

\* What one call makes of the bytes of two.
InTurn(one, two, all) == all.out = one.out \o two.out /\ Same(all.decoder, two.decoder)

\* Bytes pushed in two calls are bytes pushed in one.
THEOREM PushJoined ==
    ASSUME NEW w, Known(w), NEW d, Decoder(w, d), NEW p, NEW c, Bytes(w, p), Bytes(w, c), c # <<>>,
           NEW one, one = PushBytes(w, d, p), NEW two, two = PushBytes(w, one.decoder, c),
           NEW all, all = PushBytes(w, d, p \o c)
    PROVE  InTurn(one, two, all)
<1>0. <<>> \o <<>> = <<>>
  BY EmptySequence, SequencesJoined
<1>1. CASE d.ended
  <2>1. one.decoder = d /\ one.out = <<>> /\ all.decoder = d /\ all.out = <<>>
    BY <1>1, PushOver
  <2>2. two.decoder = d /\ two.out = <<>>
    BY <1>1, <2>1, PushOver
  <2> QED
    BY <1>0, <2>1, <2>2 DEF InTurn, Same
<1>2. CASE ~d.ended
  <2>1. PICK both : both = p \o c
    OBVIOUS
  <2>2. IsSequence(p) /\ IsSequence(c) /\ Bytes(w, both)
    BY <2>1, BytesJoined
  <2>3. PICK split, g, taken : /\ split = Split(w, d.framing, p) /\ g = Kept(w, split)
                               /\ taken = TakeEach(w, Starts(d, g), split.frames)
    OBVIOUS
  <2>4. PICK whole, h, full : /\ whole = Split(w, d.framing, both) /\ h = Kept(w, whole)
                              /\ full = TakeEach(w, Starts(d, h), whole.frames)
    OBVIOUS
  <2>5. /\ one = ThenRefuse(taken, split.error)
        /\ Framing(w, g) /\ Framed(w, split.frames)
        /\ Read(w, Starts(d, g)) /\ Read(w, taken) /\ taken.decoder.framing = g
    BY <1>2, <2>3, PushParts
  <2>6. /\ all = ThenRefuse(full, whole.error)
        /\ Framing(w, h) /\ Framed(w, whole.frames)
        /\ Read(w, Starts(d, h)) /\ Read(w, full) /\ full.decoder.framing = h
    <3>1. all = PushBytes(w, d, both)
      BY <2>1
    <3> QED
      BY <1>2, <2>2, <2>4, <3>1, PushParts
  <2>7. PICK rest, i : rest = Split(w, g, c) /\ i = Kept(w, rest)
    OBVIOUS
  <2>8. Joins(w, split, rest, whole)
    <3>1. Framing(w, d.framing)
      BY DEF Decoder
    <3> QED
      BY <2>1, <2>3, <2>4, <2>7, <3>1, SplitJoined
  <2>9. Framing(w, i) /\ Framed(w, rest.frames)
    BY <2>5, <2>7, SplitFramed
  <2>10. PICK s, u : s = Starts(d, g) /\ u = Starts(d, h)
    OBVIOUS
  <2>11. Read(w, s) /\ Read(w, u) /\ Like(<<>>, u, s)
    <3>1. s.out = <<>> /\ u.out = <<>> /\ s.decoder.inner = d.inner /\ u.decoder.inner = d.inner
          /\ ~s.decoder.ended /\ ~u.decoder.ended
      BY <1>2, <2>5, <2>6, <2>10, StartsRead
    <3>2. s.decoder.ended = u.decoder.ended
      <4>1. Read(w, s) /\ Read(w, u)
        BY <2>5, <2>6, <2>10
      <4>2. s.decoder.ended = FALSE /\ u.decoder.ended = FALSE
        BY <3>1, <4>1 DEF Read, Decoder
      <4> QED
        BY <4>2
    <3> QED
      BY <1>0, <2>5, <2>6, <2>10, <3>1, <3>2 DEF Like
  <2>12. PICK f, e : f = split.frames /\ e = rest.frames
    OBVIOUS
  <2>13. Framed(w, f) /\ Framed(w, e) /\ IsSequence(f) /\ IsSequence(e) /\ IsSequence(<<>>)
    BY <2>5, <2>9, <2>12, EmptySequence DEF Framed
  <2>14. taken = TakeEach(w, s, f)
    BY <2>3, <2>10, <2>12
  <2>15. CASE split.error # None
    <3>1. whole.frames = f /\ whole.error = split.error
      BY <2>8, <2>12, <2>15 DEF Joins
    <3>2. full = TakeEach(w, u, f)
      BY <2>4, <2>10, <3>1
    <3>3. Like(<<>>, full, taken)
      BY <2>11, <2>13, <2>14, <3>2, TakeEachLike
    <3>4. Like(<<>>, all, one)
      BY <2>5, <2>6, <2>13, <3>1, <3>3, ThenRefuseLike
    <3>5. one.decoder.ended /\ all.decoder.ended
      BY <2>5, <2>6, <2>15, <3>1, ThenRefuseEnds
    <3>6. two.decoder = one.decoder /\ two.out = <<>>
      BY <3>5, PushOver
    <3>7. IsSequence(one.out)
      <4>1. PICK error : error = split.error
        OBVIOUS
      <4>2. Read(w, one)
        BY <2>5, <4>1, ThenRefuseReads
      <4> QED
        BY <4>2 DEF Read, Ordered
    <3>8. one.out \o <<>> = one.out /\ <<>> \o one.out = one.out
      BY <3>7, EmptySequence, SequencesJoined
    <3> QED
      BY <3>4, <3>5, <3>6, <3>8 DEF InTurn, Like, Same
  <2>16. CASE split.error = None
    <3>1. whole.frames = f \o e /\ whole.error = rest.error /\ h = i
      BY <2>4, <2>7, <2>8, <2>12, <2>16 DEF Joins
    <3>2. one = taken
      BY <2>5, <2>16 DEF ThenRefuse
    <3>3. PICK v : v = TakeEach(w, u, f)
      OBVIOUS
    <3>4. Read(w, v) /\ Like(<<>>, v, one) /\ Read(w, one) /\ one.decoder.framing = g
      BY <2>5, <2>11, <2>13, <2>14, <3>2, <3>3, TakeEachLike, TakeEachReads
    <3>5. full = TakeEach(w, v, e)
      <4>1. TakeEach(w, u, f \o e) = TakeEach(w, TakeEach(w, u, f), e)
        BY ONLY <2>13, TakeEachJoined
      <4> QED
        BY <2>4, <2>10, <3>1, <3>3, <4>1
    <3>6. IsSequence(one.out)
      BY <3>4 DEF Read, Ordered
    <3>7. one.out \o <<>> = one.out /\ <<>> \o one.out = one.out
      BY <3>6, EmptySequence, SequencesJoined
    <3>8. CASE one.decoder.ended
      <4>1. two.decoder = one.decoder /\ two.out = <<>>
        BY <3>8, PushOver
      <4>2. v.decoder.ended
        BY <3>4, <3>8 DEF Like
      <4>3. full = v
        BY <2>13, <3>5, <4>2, TakeEachOver
      <4>4. all = v
        BY <2>6, <4>2, <4>3 DEF ThenRefuse
      <4>5. v.out = one.out
        BY <3>4, <3>7 DEF Like
      <4> QED
        BY <3>7, <3>8, <4>1, <4>2, <4>4, <4>5 DEF InTurn, Same
    <3>9. CASE ~one.decoder.ended
      <4>1. PICK x, y : x = Starts(one.decoder, i) /\ y = TakeEach(w, x, e)
        OBVIOUS
      <4>2. Decoder(w, one.decoder)
        BY <3>4 DEF Read
      <4>3. two = ThenRefuse(y, rest.error) /\ Read(w, x) /\ Read(w, y) /\ y.decoder.framing = i
        <5>1. PICK b : b = one.decoder
          OBVIOUS
        <5>2. Decoder(w, b) /\ ~b.ended /\ b.framing = g /\ two = PushBytes(w, b, c)
          BY <3>4, <3>9, <4>2, <5>1
        <5>3. rest = Split(w, b.framing, c) /\ i = Kept(w, rest) /\ y = TakeEach(w, Starts(b, i), rest.frames)
          BY <2>7, <2>12, <4>1, <5>1, <5>2
        <5>4. /\ PushBytes(w, b, c) = ThenRefuse(y, rest.error)
              /\ Read(w, Starts(b, i)) /\ Read(w, y) /\ y.decoder.framing = i
          BY ONLY Known(w), Bytes(w, c), <5>2, <5>3, PushParts
        <5> QED
          BY <4>1, <5>1, <5>2, <5>4
      <4>4. x.out = <<>> /\ x.decoder.inner = one.decoder.inner /\ ~x.decoder.ended
        <5>1. PICK b : b = one.decoder
          OBVIOUS
        <5>2. Starts(b, i).out = <<>> /\ Starts(b, i).decoder.inner = b.inner /\ ~Starts(b, i).decoder.ended
          BY <2>9, <3>9, <4>2, <5>1, StartsRead
        <5> QED
          BY <4>1, <5>1, <5>2
      <4>5. Like(one.out, v, x)
        <5>1. v.out = one.out /\ v.decoder.inner = one.decoder.inner /\ v.decoder.ended = one.decoder.ended
          BY <3>4, <3>7 DEF Like
        <5>2. v.decoder.ended = FALSE /\ x.decoder.ended = FALSE
          BY <3>4, <3>9, <4>3, <4>4, <5>1 DEF Read, Decoder
        <5> QED
          BY <3>7, <4>4, <5>1, <5>2 DEF Like
      <4>6. Like(one.out, full, y)
        <5>1. PICK o : o = one.out
          OBVIOUS
        <5>2. IsSequence(o) /\ Like(o, v, x)
          BY <3>6, <4>5, <5>1
        <5>3. Like(o, full, y)
          BY <2>13, <3>4, <3>5, <4>1, <4>3, <5>2, TakeEachLike
        <5> QED
          BY <5>1, <5>3
      <4>7. Like(one.out, all, two)
        <5>1. PICK o, error : o = one.out /\ error = rest.error
          OBVIOUS
        <5>2. IsSequence(o) /\ Like(o, full, y)
          BY <3>6, <4>6, <5>1
        <5>3. all = ThenRefuse(full, error) /\ two = ThenRefuse(y, error)
          BY <2>6, <3>1, <4>3, <5>1
        <5>4. Like(o, all, two)
          BY <2>6, <4>3, <5>2, <5>3, ThenRefuseLike
        <5> QED
          BY <5>1, <5>4
      <4>8. Read(w, all) /\ Read(w, two) /\ all.decoder.framing = i /\ two.decoder.framing = i
        BY <2>6, <3>1, <4>3, ThenRefuseReads
      <4>9. all.decoder = two.decoder
        <5>1. PICK a, b : a = all.decoder /\ b = two.decoder
          OBVIOUS
        <5>2. a.inner = b.inner /\ a.framing = b.framing /\ a.ended = b.ended
          BY <4>7, <4>8, <5>1 DEF Like
        <5>3. /\ a = [inner |-> a.inner, framing |-> a.framing, ended |-> a.ended]
              /\ b = [inner |-> b.inner, framing |-> b.framing, ended |-> b.ended]
          BY <4>8, <5>1 DEF Read, Decoder
        <5> QED
          BY <5>1, <5>2, <5>3
      <4> QED
        BY <4>7, <4>9 DEF InTurn, Like, Same
    <3> QED
      BY <3>8, <3>9
  <2> QED
    BY <2>15, <2>16
<1> QED
  BY <1>1, <1>2

-----------------------------------------------------------------------------
(* The first call and the last.                                            *)

\* A new stream decoder.
LEMMA DecoderStarts ==
    ASSUME NEW w, Known(w)
    PROVE  Decoder(w, NewStreamDecoder(w)) /\ NewStreamDecoder(w).ended = FALSE
                                           /\ NewStreamDecoder(w).framing = NewFraming(w)
<1>1. Inner(w, NewInner(w)) /\ Framing(w, NewFraming(w))
  BY InnerStarts, FramingStarts
<1> QED
  BY <1>1 DEF Decoder, NewStreamDecoder

\* No bytes are no frames.
LEMMA NothingSplit ==
    ASSUME NEW w
    PROVE  /\ Kept(w, Split(w, NewFraming(w), <<>>)) = NewFraming(w)
           /\ Split(w, NewFraming(w), <<>>).frames = <<>> /\ Split(w, NewFraming(w), <<>>).error = None
<1>1. IsSequence(<<>>) /\ Len(<<>>) = 0
  BY EmptySequence
<1>2. CASE ~w.bedrock
  <2>1. PICK s : s = [buffer |-> <<>>, skip |-> FALSE, frames |-> <<>>, error |-> None]
    OBVIOUS
  <2>2. Sse!PushEach(s, <<>>) = s
    BY <1>1, SseCourse
  <2>3. Split(w, NewFraming(w), <<>>) = s
    BY <1>2, <2>1, <2>2 DEF Split, NewFraming, Sse!NewSplitter, Sse!PushBatch
  <2>4. s.buffer = <<>> /\ s.skip = FALSE /\ s.frames = <<>> /\ s.error = None
    BY <2>1
  <2>5. Kept(w, s) = [buffer |-> <<>>, skip |-> FALSE]
    BY <1>2, <2>4 DEF Kept
  <2>6. NewFraming(w) = [buffer |-> <<>>, skip |-> FALSE]
    BY <1>2 DEF NewFraming, Sse!NewSplitter
  <2> QED
    BY <2>3, <2>4, <2>5, <2>6
<1>3. CASE w.bedrock
  <2>1. PICK g : g = EventStream!NewSplitter
    OBVIOUS
  <2>2. PICK t : Turns(t, Begins(g, <<>>), 1) /\ EventStream!FeedBatch(g, <<>>) = t[1]
    <3>1. \E t : Turns(t, Begins(g, <<>>), Len(<<>>) + 1) /\ EventStream!FeedBatch(g, <<>>) = t[Len(<<>>) + 1]
      BY ONLY <1>1, FeedTurns
    <3> QED
      BY <1>1, <3>1
  <2>3. PICK s : s = Begins(g, <<>>)
    OBVIOUS
  <2>4. s.buffer = <<>> /\ s.unread = <<>> /\ s.frames = <<>> /\ s.error = None /\ s.over = FALSE
    BY <2>1, <2>3 DEF Begins, EventStream!NewSplitter
  <2>5. EventStream!FeedBatch(g, <<>>) = EventStream!Turn(s)
    <3>1. t[0] = s /\ t[1] = EventStream!Turn(t[0])
      BY <2>2, <2>3 DEF Turns
    <3> QED
      BY <2>2, <3>1
  <2>6. PICK f : f = EventStream!Fill(s, EventStream!PreludeBytes)
    OBVIOUS
  <2>7. f.buffer = <<>> /\ f.frames = <<>> /\ f.error = None /\ Len(f.buffer) = 0
        /\ {"buffer", "unread", "frames", "error", "over"} \subseteq DOMAIN f
    <3>1. SubSeq(<<>>, 1, 0) = <<>> /\ <<>> \o <<>> = <<>>
      BY <1>1, SequenceCut, EmptySeq, SequencesJoined DEF IsSequence
    <3>2. f.buffer = s.buffer \o SubSeq(s.unread, 1, 0)
      BY <1>1, <2>4, <2>6 DEF EventStream!Fill, EventStream!PreludeBytes
    <3> QED
      BY <1>1, <2>4, <2>6, <3>1, <3>2 DEF EventStream!Fill
  <2>8. EventStream!Turn(s) = [f EXCEPT !.over = TRUE]
    BY <2>4, <2>6, <2>7 DEF EventStream!Turn, EventStream!TakePrelude, EventStream!PreludeBytes
  <2>9. PICK x : x = EventStream!Turn(s)
    OBVIOUS
  <2>10. x.buffer = <<>> /\ x.frames = <<>> /\ x.error = None
    BY <2>7, <2>8, <2>9
  <2>11. Split(w, NewFraming(w), <<>>) = x
    BY <1>3, <2>1, <2>5, <2>9 DEF Split, NewFraming
  <2> QED
    BY <1>3, <2>10, <2>11 DEF Kept, NewFraming, EventStream!NewSplitter
<1> QED
  BY <1>2, <1>3

\* No bytes, no events and no change.
LEMMA NothingPushed ==
    ASSUME NEW w, Known(w)
    PROVE  PushBytes(w, NewStreamDecoder(w), <<>>).out = <<>> /\ PushBytes(w, NewStreamDecoder(w), <<>>).decoder = NewStreamDecoder(w)
<1>1. PICK d, g : d = NewStreamDecoder(w) /\ g = NewFraming(w)
  OBVIOUS
<1>2. Decoder(w, d) /\ d.ended = FALSE /\ d.framing = g
  BY <1>1, DecoderStarts
<1>3. PICK split : split = Split(w, g, <<>>)
  OBVIOUS
<1>4. Kept(w, split) = g /\ split.frames = <<>> /\ split.error = None
  BY <1>1, <1>3, NothingSplit
<1>5. PICK s : s = Starts(d, g)
  OBVIOUS
<1>6. s.out = <<>> /\ s.decoder = d
  <2>1. s.decoder = [d EXCEPT !.framing = g] /\ s.out = <<>>
    BY <1>5 DEF Starts
  <2>2. [d EXCEPT !.framing = g] = d
    <3>1. d = [inner |-> d.inner, framing |-> d.framing, ended |-> d.ended]
      BY <1>2 DEF Decoder
    <3>2. DOMAIN d = {"inner", "framing", "ended"} /\ d = [k \in DOMAIN d |-> d[k]]
      BY <3>1
    <3> QED
      BY <1>2, <3>2
  <2> QED
    BY <2>1, <2>2
<1>7. TakeEach(w, s, <<>>) = s
  BY EmptySequence, TakeCourse
<1>8. PushBytes(w, d, <<>>) = s
  BY <1>2, <1>3, <1>4, <1>5, <1>7 DEF PushBytes, PushSplit, TakeFrames, ThenRefuse, Starts
<1> QED
  BY <1>1, <1>6, <1>8

\* The last call of the inner decoder.
LEMMA ThenFinishReads ==
    ASSUME NEW w, Known(w), NEW s, Read(w, s)
    PROVE  Read(w, ThenFinish(w, s))
<1>1. CASE s.decoder.ended
  BY <1>1 DEF ThenFinish
<1>2. CASE ~s.decoder.ended
  <2>1. PICK r : r = IF w.bedrock /\ ~EventStream!Finished(s.decoder.framing)
                       THEN Refuse(s.decoder.inner, "interrupted") ELSE InnerFinish(w, s.decoder.inner)
    OBVIOUS
  <2>2. Inner(w, s.decoder.inner)
    BY DEF Read, Decoder
  <2>3. Decoded(w, r)
    BY <2>1, <2>2, InnerRefused, InnerEnds
  <2>4. ThenFinish(w, s) = AppendResult(s, r)
    BY <1>2, <2>1 DEF ThenFinish
  <2> QED
    BY <1>2, <2>3, <2>4, AppendResultReads
<1> QED
  BY <1>1, <1>2

\* finish_bytes leaves a decoder in order.
LEMMA FinishReads ==
    ASSUME NEW w, Known(w), NEW d, Decoder(w, d)
    PROVE  Decoder(w, FinishBytes(w, d).decoder) /\ Ordered(FinishBytes(w, d).out)
<1>1. CASE d.ended
  <2>1. Ordered(<<>>)
    BY EmptySequence DEF Ordered
  <2>2. FinishBytes(w, d).decoder = d /\ FinishBytes(w, d).out = <<>>
    BY <1>1 DEF FinishBytes
  <2> QED
    BY <2>1, <2>2
<1>2. CASE ~d.ended
  <2>1. PICK g, frames : /\ g = IF w.bedrock THEN d.framing ELSE Sse!NewSplitter
                         /\ frames = IF w.bedrock THEN <<>> ELSE Sse!FinishFrames(d.framing)
    OBVIOUS
  <2>2. Framing(w, g) /\ Framed(w, frames)
    <3>1. Framing(w, d.framing) /\ Framed(w, <<>>)
      BY EmptySequence DEF Decoder, Framed
    <3> QED
      BY <2>1, <3>1, LastFrames, FramingStarts
  <2>3. PICK s, t, u : s = Starts(d, g) /\ t = TakeEach(w, s, frames) /\ u = ThenFinish(w, t)
    OBVIOUS
  <2>4. Read(w, s)
    BY <1>2, <2>2, <2>3, StartsRead
  <2>5. Read(w, t)
    BY <2>2, <2>3, <2>4, TakeEachReads
  <2>6. Read(w, u)
    BY <2>3, <2>5, ThenFinishReads
  <2>7. FinishBytes(w, d) = [u EXCEPT !.decoder.ended = TRUE]
    BY <1>2, <2>1, <2>3 DEF FinishBytes, TakeFrames, Starts
  <2>8. PICK v, e : v = [u EXCEPT !.decoder.ended = TRUE] /\ e = [u.decoder EXCEPT !.ended = TRUE]
    OBVIOUS
  <2>9. v.decoder = e /\ v.out = u.out
    <3>1. DOMAIN u = {"decoder", "out"}
      <4>1. u = [decoder |-> u.decoder, out |-> u.out]
        BY <2>6 DEF Read
      <4> QED
        BY <4>1
    <3> QED
      BY <2>8, <3>1
  <2>10. Decoder(w, e)
    <3>1. PICK b : b = u.decoder
      OBVIOUS
    <3>2. Decoder(w, b) /\ e = [b EXCEPT !.ended = TRUE]
      BY <2>6, <2>8, <3>1 DEF Read
    <3>3. b = [inner |-> b.inner, framing |-> b.framing, ended |-> b.ended]
      BY <3>2 DEF Decoder
    <3>4. DOMAIN b = {"inner", "framing", "ended"}
      BY <3>3
    <3>5. DOMAIN e = {"inner", "framing", "ended"} /\ e = [k \in DOMAIN e |-> e[k]]
          /\ e.inner = b.inner /\ e.framing = b.framing /\ e.ended = TRUE
      BY <3>2, <3>4
    <3>6. e = [inner |-> e.inner, framing |-> e.framing, ended |-> e.ended]
      BY <3>5
    <3> QED
      BY <3>2, <3>5, <3>6 DEF Decoder
  <2>11. Ordered(u.out)
    BY <2>6 DEF Read
  <2> QED
    BY <2>7, <2>8, <2>9, <2>10, <2>11
<1> QED
  BY <1>1, <1>2

-----------------------------------------------------------------------------
(* Decoders no call can tell apart.                                        *)

\* Decoders no call can tell apart are pushed alike.
LEMMA PushSame ==
    ASSUME NEW w, NEW d, NEW e, Same(d, e), NEW bytes
    PROVE  /\ PushBytes(w, d, bytes).out = PushBytes(w, e, bytes).out
           /\ Same(PushBytes(w, d, bytes).decoder, PushBytes(w, e, bytes).decoder)
<1>1. CASE d = e
  BY <1>1 DEF Same
<1>2. CASE d.ended /\ e.ended
  <2>1. PushBytes(w, d, bytes).decoder = d /\ PushBytes(w, e, bytes).decoder = e
        /\ PushBytes(w, d, bytes).out = <<>> /\ PushBytes(w, e, bytes).out = <<>>
    BY <1>2, PushOver
  <2> QED
    BY <1>2, <2>1 DEF Same
<1> QED
  BY <1>1, <1>2 DEF Same

\* And finished alike.
LEMMA FinishSame ==
    ASSUME NEW w, NEW d, NEW e, Same(d, e)
    PROVE  FinishBytes(w, d).out = FinishBytes(w, e).out
<1>1. CASE d = e
  BY <1>1
<1>2. CASE d.ended /\ e.ended
  BY <1>2 DEF FinishBytes
<1> QED
  BY <1>1, <1>2 DEF Same

\* Two decoders that are like a third are alike.
LEMMA SameAsBoth ==
    ASSUME NEW d, NEW e, NEW x, Same(d, x), Same(e, x)
    PROVE  Same(d, e)
BY DEF Same

-----------------------------------------------------------------------------
(* What a stream hands to its caller.                                      *)

\* A stream between two calls.
StreamShape(s) ==
    /\ {"decoder", "ready", "finished", "id", "completed"} \subseteq DOMAIN s
    /\ s.finished \in BOOLEAN

Ended(events) == \E i \in 1 .. Len(events) : Terminal(events[i])

\* The turns of observing a run of events.
LEMMA ObserveCourse ==
    ASSUME NEW w, NEW s, NEW events, IsSequence(events)
    PROVE  \E t : /\ t[0] = s /\ \A i \in 1 .. Len(events) : t[i] = ObserveEvent(w, t[i - 1], events[i])
                  /\ ObserveEach(w, s, events) = t[Len(events)]
<1>1. Len(events) \in Nat
  BY SequenceFacts
<1> DEFINE x == [wire |-> w, events |-> events]
<1>2. x.wire = w /\ x.events = events
  OBVIOUS
<1> HIDE DEF x
<1>3. PICK t : Runs(t, "ObserveEach", x, s, Len(events))
  BY ONLY <1>1, Loop
<1>4. t = [i \in 0 .. Len(events) |-> IF i = 0 THEN s ELSE ObserveEvent(w, t[i - 1], events[i])]
  BY <1>2, <1>3 DEF Runs, Body
<1>5. PICK u : /\ u = [i \in 0 .. Len(events) |-> IF i = 0 THEN s ELSE ObserveEvent(w, u[i - 1], events[i])]
               /\ ObserveEach(w, s, events) = u[Len(events)]
  BY <1>4 DEF ObserveEach
<1> DEFINE n == Len(events)
<1>6. n \in Nat /\ u = [i \in 0 .. n |-> IF i = 0 THEN s ELSE ObserveEvent(w, u[i - 1], events[i])]
  BY <1>1, <1>5
<1> HIDE DEF n
<1>7. u[0] = s
  BY ONLY <1>6
<1>8. ASSUME NEW i \in 1 .. n PROVE u[i] = ObserveEvent(w, u[i - 1], events[i])
  BY ONLY <1>6, i \in 1 .. n
<1> QED
  BY <1>5, <1>7, <1>8 DEF n

\* Observing an event keeps the decoder; the last event finishes the stream.
LEMMA Observed ==
    ASSUME NEW w, NEW s, StreamShape(s), NEW e
    PROVE  /\ StreamShape(ObserveEvent(w, s, e))
           /\ ObserveEvent(w, s, e).decoder = s.decoder
           /\ ObserveEvent(w, s, e).finished = (s.finished \/ Terminal(e))
<1>1. PICK id, completed : /\ id = IF e.event = "start" /\ e.id # None THEN e.id ELSE s.id
                           /\ completed = IF e.event = "end" THEN Completes(w, s.decoder, e.stop)
                                          ELSE s.completed /\ e.event # "error"
  OBVIOUS
<1>2. PICK finished : finished = (s.finished \/ Terminal(e))
  OBVIOUS
<1>3. finished \in BOOLEAN
  BY <1>2
<1>4. PICK x : x = ObserveEvent(w, s, e)
  OBVIOUS
<1>5. x = [s EXCEPT !.id = id, !.completed = completed, !.finished = finished]
  BY Zenon, <1>1, <1>2, <1>4 DEF ObserveEvent
<1>6. DOMAIN x = DOMAIN s /\ x.decoder = s.decoder /\ x.finished = finished
  <2>1. {"decoder", "ready", "finished", "id", "completed"} \subseteq DOMAIN s
    BY DEF StreamShape
  <2> QED
    BY ONLY <1>5, <2>1
<1> QED
  BY <1>2, <1>3, <1>4, <1>6 DEF StreamShape

\* Observing events changes no decoder, and finishes the stream with the first terminal one.
LEMMA ObservedEach ==
    ASSUME NEW w, NEW s, StreamShape(s), NEW events, IsSequence(events), NEW o, o = ObserveEach(w, s, events)
    PROVE  /\ StreamShape(o) /\ o.decoder = s.decoder
           /\ s.finished \/ Ended(events) => o.finished
<1> DEFINE n == Len(events)
<1>1. n \in Nat
  BY SequenceFacts
<1>2. PICK t : /\ t[0] = s /\ \A i \in 1 .. n : t[i] = ObserveEvent(w, t[i - 1], events[i])
               /\ o = t[n]
  BY ObserveCourse
<1> HIDE DEF n
<1> DEFINE Seen(i) == /\ StreamShape(t[i]) /\ t[i].decoder = s.decoder
                      /\ s.finished => t[i].finished
                      /\ \A k \in 1 .. i : Terminal(events[k]) => t[i].finished
           I == {i \in 0 .. n : Seen(i)}
<1>3. 0 \in I
  BY <1>1, <1>2
<1>4. ASSUME NEW i \in 1 .. n, i - 1 \in I PROVE i \in I
  <2>1. PICK a, b, e : a = t[i - 1] /\ b = t[i] /\ e = events[i]
    OBVIOUS
  <2>2. b = ObserveEvent(w, a, e) /\ StreamShape(a)
    BY <1>2, <1>4, <2>1
  <2>3. StreamShape(b) /\ b.decoder = a.decoder /\ b.finished = (a.finished \/ Terminal(e))
    BY <2>2, Observed
  <2>4. \A k \in 1 .. i : k \in 1 .. i - 1 \/ k = i
    BY <1>1
  <2>5. \A k \in 1 .. i : Terminal(events[k]) => b.finished
    BY <1>4, <2>1, <2>3, <2>4
  <2>6. i \in 0 .. n
    BY <1>1
  <2>7. a.decoder = s.decoder /\ (s.finished => a.finished)
    BY <1>4, <2>1
  <2>8. s.finished => b.finished
    BY <2>3, <2>7
  <2>9. Seen(i)
    BY <2>1, <2>3, <2>5, <2>7, <2>8
  <2> HIDE DEF Seen
  <2> QED
    BY <2>6, <2>9
<1>5. \A i \in 0 .. n : i \in I
  <2> HIDE DEF I
  <2> QED
    BY <1>1, <1>3, <1>4, UpTo
<1>6. Seen(n)
  BY <1>1, <1>5
<1> QED
  BY <1>2, <1>6 DEF Ended, n

\* Events cut in two.
Cuts(events, n, h, r) == h = SubSeq(events, 1, n) /\ r = SubSeq(events, n + 1, Len(events))

\* A run of events cut in two is whole when joined.
LEMMA CutInTwo ==
    ASSUME NEW events, IsSequence(events), NEW n \in 0 .. Len(events), NEW h, NEW r, Cuts(events, n, h, r)
    PROVE  /\ IsSequence(h) /\ Len(h) = n /\ IsSequence(r) /\ Len(r) = Len(events) - n
           /\ h \o r = events /\ \A i \in 1 .. n : h[i] = events[i]
<1>1. Len(events) \in Nat /\ n \in Nat /\ n <= Len(events)
  BY SequenceFacts
<1>2. PICK m, k : m = n + 1 /\ k = Len(events)
  OBVIOUS
<1>3. m \in Nat \ {0} /\ k \in Nat /\ k - m + 1 = k - n /\ r = SubSeq(events, m, k) /\ 1 \in Nat \ {0}
      /\ k <= Len(events) /\ (m <= k => n < k) /\ (~(m <= k) => k - n = 0) /\ h = SubSeq(events, 1, n)
  BY <1>1, <1>2 DEF Cuts
<1>4. IsSequence(h) /\ Len(h) = (IF 1 <= n THEN n - 1 + 1 ELSE 0)
      /\ \A i \in 1 .. n - 1 + 1 : h[i] = events[1 + i - 1]
  BY ONLY <1>1, <1>3, IsSequence(events), SequenceCut
<1>5. IsSequence(r) /\ Len(r) = (IF m <= k THEN k - m + 1 ELSE 0)
      /\ \A i \in 1 .. k - m + 1 : r[i] = events[m + i - 1]
  <2>1. m \in Nat \ {0} /\ k \in Nat /\ k <= Len(events) /\ r = SubSeq(events, m, k)
    BY ONLY <1>3
  <2>2. IsSequence(SubSeq(events, m, k)) /\ Len(SubSeq(events, m, k)) = (IF m <= k THEN k - m + 1 ELSE 0)
        /\ \A i \in 1 .. k - m + 1 : SubSeq(events, m, k)[i] = events[m + i - 1]
    BY ONLY <2>1, IsSequence(events), SequenceCut
  <2> QED
    BY ONLY <2>1, <2>2
<1>6. Len(h) = n /\ \A i \in 1 .. n : h[i] = events[i]
  BY ONLY <1>1, <1>4
<1>7. Len(r) = k - n /\ \A i \in 1 .. k - n : r[i] = events[n + i]
  <2>1. \A i \in 1 .. k - n : m + i - 1 = n + i
    BY ONLY <1>1, <1>2, <1>3
  <2> QED
    BY ONLY <1>3, <1>5, <2>1
<1>8. IsSequence(h \o r) /\ Len(h \o r) = Len(h) + Len(r)
      /\ \A i \in 1 .. Len(h) + Len(r) : (h \o r)[i] = IF i <= Len(h) THEN h[i] ELSE r[i - Len(h)]
  BY ONLY <1>4, <1>5, SequencesJoined
<1>9. PICK q : q = h \o r
  OBVIOUS
<1>10. Len(h) + Len(r) = k
  BY ONLY <1>1, <1>2, <1>6, <1>7
<1>11. ASSUME NEW i \in 1 .. k PROVE q[i] = events[i]
  <2>1. (i <= n => i \in 1 .. n) /\ (~(i <= n) => i - n \in 1 .. k - n /\ n + (i - n) = i)
    BY <1>1, <1>3
  <2>2. q[i] = IF i <= n THEN h[i] ELSE r[i - n]
    BY <1>6, <1>8, <1>9, <1>10
  <2> QED
    BY <1>6, <1>7, <2>1, <2>2
<1>12. IsSequence(q) /\ Len(q) = k
  BY <1>8, <1>9, <1>10
<1>13. q = events
  BY <1>2, <1>11, <1>12, SameSequence
<1> QED
  BY <1>2, <1>4, <1>5, <1>6, <1>7, <1>9, <1>13

\* A terminal event of two runs of events is in one of them.
LEMMA EndedJoined ==
    ASSUME NEW d, NEW h, IsSequence(d), IsSequence(h), NEW d2, d2 = d \o h
    PROVE  IsSequence(d2) /\ (Ended(d2) => Ended(d) \/ Ended(h))
<1>1. Len(d) \in Nat /\ Len(h) \in Nat
  BY SequenceFacts
<1>2. IsSequence(d2) /\ Len(d2) = Len(d) + Len(h)
      /\ \A i \in 1 .. Len(d) + Len(h) : d2[i] = IF i <= Len(d) THEN d[i] ELSE h[i - Len(d)]
  BY SequencesJoined
<1>3. \A i \in 1 .. Len(d) + Len(h) :
          (i <= Len(d) => i \in 1 .. Len(d)) /\ (~(i <= Len(d)) => i - Len(d) \in 1 .. Len(h))
  BY <1>1
<1> QED
  BY <1>2, <1>3 DEF Ended

\* What a call makes of the events it has: handed over to what was delivered, or ready.
Passed(events, s, d, s2, d2) ==
    /\ IsSequence(d2) /\ IsSequence(s2.ready) /\ d2 \o s2.ready = d \o events
    /\ StreamShape(s2) /\ s2.decoder = s.decoder
    /\ s.finished => s2.finished
    /\ (Ended(d) => s.finished) => (Ended(d2) => s2.finished)
    /\ events # <<>> /\ Terminal(events[1]) => s2.finished

\* The events h are handed over, r is left.
HandsOver(w, s, d, h, r, s2, d2) == s2 = [ObserveEach(w, s, h) EXCEPT !.ready = r] /\ d2 = d \o h

\* How many of the events a call hands over.
Taken(take, events) == IF take = "batch" THEN Len(events) ELSE IF events = <<>> THEN 0 ELSE 1

\* Every event is handed over or ready, in its order.
LEMMA HandPasses ==
    ASSUME NEW w, NEW take, NEW events, IsSequence(events), NEW s, StreamShape(s), NEW d, IsSequence(d),
           NEW n, n = Taken(take, events),
           NEW h, NEW r, Cuts(events, n, h, r),
           NEW s2, NEW d2, HandsOver(w, s, d, h, r, s2, d2)
    PROVE  Passed(events, s, d, s2, d2)
<1>0. s2 = [ObserveEach(w, s, h) EXCEPT !.ready = r] /\ d2 = d \o h
  BY DEF HandsOver
<1>1. Len(events) \in Nat /\ (events # <<>> => Len(events) # 0)
  BY SequenceFacts, EmptySeq DEF IsSequence
<1>2. n \in 0 .. Len(events) /\ (events # <<>> => n # 0)
  BY ONLY <1>1, EmptySequence, n = Taken(take, events) DEF Taken
<1>3. IsSequence(h) /\ Len(h) = n /\ IsSequence(r) /\ h \o r = events /\ \A i \in 1 .. n : h[i] = events[i]
  BY ONLY <1>2, IsSequence(events), Cuts(events, n, h, r), CutInTwo
<1>4. IsSequence(d2) /\ (Ended(d2) => Ended(d) \/ Ended(h))
  BY ONLY <1>0, <1>3, IsSequence(d), EndedJoined
<1>5. d2 \o r = d \o events
  <2>1. IsSequence(d) /\ IsSequence(h) /\ IsSequence(r)
    BY <1>3
  <2>2. (d \o h) \o r = d \o (h \o r)
    BY ONLY <2>1, JoiningAssociates
  <2> QED
    BY ONLY <1>0, <1>3, <2>2
<1>6. PICK o : o = ObserveEach(w, s, h)
  OBVIOUS
<1>7. StreamShape(o) /\ o.decoder = s.decoder /\ (s.finished \/ Ended(h) => o.finished)
  BY ONLY <1>3, <1>6, StreamShape(s), ObservedEach
<1>8. StreamShape(s2) /\ s2.decoder = o.decoder /\ s2.finished = o.finished /\ s2.ready = r
  <2>1. s2 = [o EXCEPT !.ready = r]
    BY <1>0, <1>6
  <2>2. {"decoder", "ready", "finished", "id", "completed"} \subseteq DOMAIN o /\ o.finished \in BOOLEAN
    BY <1>7 DEF StreamShape
  <2>3. DOMAIN s2 = DOMAIN o /\ s2.decoder = o.decoder /\ s2.finished = o.finished /\ s2.ready = r
    BY ONLY <2>1, <2>2
  <2> QED
    BY <2>2, <2>3 DEF StreamShape
<1>9. (s.finished => s2.finished) /\ (Ended(h) => s2.finished)
  BY ONLY <1>7, <1>8
<1>10. (Ended(d) => s.finished) => (Ended(d2) => s2.finished)
  BY ONLY <1>4, <1>9
<1>11. events # <<>> /\ Terminal(events[1]) => s2.finished
  <2>1. events # <<>> => 1 \in 1 .. n
    BY ONLY <1>1, <1>2
  <2>2. events # <<>> /\ Terminal(events[1]) => Ended(h)
    BY ONLY <1>3, <2>1 DEF Ended
  <2> QED
    BY ONLY <1>9, <2>2
<1>12. IsSequence(s2.ready) /\ d2 \o s2.ready = d \o events /\ s2.decoder = s.decoder
  BY ONLY <1>3, <1>5, <1>7, <1>8
<1> QED
  BY ONLY <1>4, <1>8, <1>9, <1>10, <1>11, <1>12 DEF Passed

-----------------------------------------------------------------------------
(* The bytes of a body, as they are written and read.                      *)

Writing(old, more, n, new, p, q) == new = old \o more /\ p = SubSeq(old, 1, n) /\ q = SubSeq(new, 1, n)

\* What was read stays what it is when more is written.
LEMMA MoreSent ==
    ASSUME NEW w, NEW old, NEW more, Bytes(w, old), Bytes(w, more), NEW n \in 0 .. Len(old),
           NEW new, NEW p, NEW q, Writing(old, more, n, new, p, q)
    PROVE  Bytes(w, new) /\ n \in 0 .. Len(new) /\ q = p
<1>0. new = old \o more /\ p = SubSeq(old, 1, n) /\ q = SubSeq(new, 1, n)
  BY DEF Writing
<1>1. IsSequence(old) /\ IsSequence(more) /\ Bytes(w, new)
  BY ONLY Bytes(w, old), Bytes(w, more), <1>0, BytesJoined
<1>2. Len(old) \in Nat /\ Len(more) \in Nat /\ IsSequence(new) /\ Len(new) = Len(old) + Len(more)
      /\ \A i \in 1 .. Len(old) + Len(more) : new[i] = IF i <= Len(old) THEN old[i] ELSE more[i - Len(old)]
  BY <1>0, <1>1, SequenceFacts, SequencesJoined
<1>3. n \in 0 .. Len(new)
  BY <1>2
<1>4. PICK r, s : r = SubSeq(old, n + 1, Len(old)) /\ s = SubSeq(new, n + 1, Len(new))
  OBVIOUS
<1>5. Cuts(old, n, p, r) /\ Cuts(new, n, q, s)
  BY <1>0, <1>4 DEF Cuts
<1>6. IsSequence(p) /\ Len(p) = n /\ \A i \in 1 .. n : p[i] = old[i]
  BY ONLY <1>1, <1>5, n \in 0 .. Len(old), CutInTwo
<1>7. IsSequence(q) /\ Len(q) = n /\ \A i \in 1 .. n : q[i] = new[i]
  BY ONLY <1>2, <1>3, <1>5, CutInTwo
<1>8. \A i \in 1 .. n : i \in 1 .. Len(old) + Len(more) /\ i <= Len(old)
  BY <1>2
<1>9. \A i \in 1 .. Len(q) : q[i] = p[i]
  BY <1>2, <1>6, <1>7, <1>8
<1> QED
  BY <1>1, <1>3, <1>6, <1>7, <1>9, SameSequence

\* What was read, a chunk, and what is read with it.
Reading(bytes, n, k, p, c, q) ==
    p = SubSeq(bytes, 1, n) /\ c = SubSeq(bytes, n + 1, n + k) /\ q = SubSeq(bytes, 1, n + k)

\* A chunk read after a part of the body goes on with it.
LEMMA ChunkOfBytes ==
    ASSUME NEW w, NEW bytes, Bytes(w, bytes), NEW n \in 0 .. Len(bytes), NEW k \in 1 .. Len(bytes) - n,
           NEW p, NEW c, NEW q, Reading(bytes, n, k, p, c, q)
    PROVE  /\ Bytes(w, p) /\ Bytes(w, c) /\ c # <<>> /\ q = p \o c
           /\ n + k \in 0 .. Len(bytes)
<1>1. IsSequence(bytes) /\ Len(bytes) \in Nat /\ \A i \in 1 .. Len(bytes) : IsByte(w, bytes[i])
  BY SequenceFacts DEF Bytes
<1>2. PICK m, l : m = n + 1 /\ l = n + k
  OBVIOUS
<1>3. /\ n \in Nat /\ k \in Nat \ {0} /\ l \in 0 .. Len(bytes) /\ m \in Nat \ {0} /\ l \in Nat
      /\ n <= Len(bytes) /\ l <= Len(bytes) /\ m <= l /\ l - m + 1 = k /\ 1 \in Nat \ {0}
      /\ 1 <= l /\ l - 1 + 1 = l /\ n - 1 + 1 = n /\ (1 <= n \/ n = 0)
  BY <1>1, <1>2
<1>4. p = SubSeq(bytes, 1, n) /\ c = SubSeq(bytes, m, l) /\ q = SubSeq(bytes, 1, l)
  BY <1>2 DEF Reading
<1>5. IsSequence(p) /\ Len(p) = n /\ \A i \in 1 .. n : p[i] = bytes[i]
  <2>1. IsSequence(SubSeq(bytes, 1, n)) /\ Len(SubSeq(bytes, 1, n)) = (IF 1 <= n THEN n - 1 + 1 ELSE 0)
        /\ \A i \in 1 .. n - 1 + 1 : SubSeq(bytes, 1, n)[i] = bytes[1 + i - 1]
    BY ONLY <1>1, <1>3, SequenceCut
  <2> QED
    BY ONLY <1>3, <1>4, <2>1
<1>6. IsSequence(q) /\ Len(q) = l /\ \A i \in 1 .. l : q[i] = bytes[i]
  <2>1. IsSequence(SubSeq(bytes, 1, l)) /\ Len(SubSeq(bytes, 1, l)) = (IF 1 <= l THEN l - 1 + 1 ELSE 0)
        /\ \A i \in 1 .. l - 1 + 1 : SubSeq(bytes, 1, l)[i] = bytes[1 + i - 1]
    BY ONLY <1>1, <1>3, SequenceCut
  <2> QED
    BY ONLY <1>3, <1>4, <2>1
<1>7. IsSequence(c) /\ Len(c) = k /\ \A i \in 1 .. k : c[i] = bytes[n + i]
  <2>1. IsSequence(SubSeq(bytes, m, l)) /\ Len(SubSeq(bytes, m, l)) = (IF m <= l THEN l - m + 1 ELSE 0)
        /\ \A i \in 1 .. l - m + 1 : SubSeq(bytes, m, l)[i] = bytes[m + i - 1]
    BY ONLY <1>1, <1>3, SequenceCut
  <2>2. \A i \in 1 .. k : m + i - 1 = n + i
    BY <1>2, <1>3
  <2> QED
    BY ONLY <1>3, <1>4, <2>1, <2>2
<1>8. Bytes(w, p)
  <2>1. \A i \in 1 .. n : i \in 1 .. Len(bytes)
    BY <1>1, <1>3
  <2> QED
    BY <1>1, <1>5, <2>1 DEF Bytes
<1>9. Bytes(w, c)
  <2>1. \A i \in 1 .. k : n + i \in 1 .. Len(bytes)
    BY <1>1, <1>2, <1>3
  <2> QED
    BY <1>1, <1>7, <2>1 DEF Bytes
<1>10. c # <<>>
  BY <1>3, <1>7, EmptySequence
<1>11. q = p \o c
  <2>1. PICK j : j = p \o c
    OBVIOUS
  <2>2. IsSequence(j) /\ Len(j) = n + k /\ \A i \in 1 .. n + k : j[i] = IF i <= n THEN p[i] ELSE c[i - n]
    <3>1. IsSequence(p) /\ IsSequence(c)
      BY <1>5, <1>7
    <3>2. IsSequence(p \o c) /\ Len(p \o c) = Len(p) + Len(c)
          /\ \A i \in 1 .. Len(p) + Len(c) : (p \o c)[i] = IF i <= Len(p) THEN p[i] ELSE c[i - Len(p)]
      BY ONLY <3>1, SequencesJoined
    <3> QED
      BY ONLY <1>5, <1>7, <2>1, <3>2
  <2>3. ASSUME NEW i \in 1 .. l PROVE j[i] = q[i]
    <3>1. i \in 1 .. n + k /\ (i <= n => i \in 1 .. n) /\ (~(i <= n) => i - n \in 1 .. k /\ n + (i - n) = i)
      BY <1>2, <1>3
    <3> QED
      BY <1>5, <1>6, <1>7, <2>2, <3>1
  <2>4. Len(j) = l
    BY <1>2, <2>2
  <2> QED
    BY <1>6, <2>1, <2>2, <2>3, <2>4, SameSequence
<1> QED
  BY <1>2, <1>3, <1>8, <1>9, <1>10, <1>11

\* A chunk leaves the decoder it would leave with all that came before it.
Chunk(w, whole, r, next) ==
    /\ next.out = whole.out \o r.out /\ Same(r.decoder, next.decoder)
    /\ Decoder(w, r.decoder) /\ Ordered(r.out) /\ Ordered(whole.out)

\* A chunk decoded by what earlier chunks left, and with them at once.
LEMMA ChunkDecoded ==
    ASSUME NEW w, Known(w), NEW d, Decoder(w, d), NEW p, NEW c, Bytes(w, p), Bytes(w, c), c # <<>>,
           NEW whole, whole = PushBytes(w, NewStreamDecoder(w), p), Same(d, whole.decoder),
           NEW r, r = PushBytes(w, d, c), NEW next, next = PushBytes(w, NewStreamDecoder(w), p \o c)
    PROVE  Chunk(w, whole, r, next)
<1>1. PICK new : new = NewStreamDecoder(w)
  OBVIOUS
<1>2. Decoder(w, new)
  BY <1>1, DecoderStarts
<1>3. Ordered(whole.out)
  BY <1>1, <1>2, PushReads
<1>4. Decoder(w, r.decoder) /\ Ordered(r.out)
  BY PushReads
<1>5. PICK two : two = PushBytes(w, whole.decoder, c)
  OBVIOUS
<1>6. InTurn(whole, two, next)
  <2>1. whole = PushBytes(w, new, p) /\ next = PushBytes(w, new, p \o c)
    BY <1>1
  <2> QED
    BY ONLY <1>2, <1>5, <2>1, Known(w), Bytes(w, p), Bytes(w, c), c # <<>>, PushJoined
<1>7. r.out = two.out /\ Same(r.decoder, two.decoder)
  <2>1. PICK e : e = whole.decoder
    OBVIOUS
  <2>2. Same(d, e) /\ two = PushBytes(w, e, c)
    BY <1>5, <2>1
  <2> QED
    BY <2>2, PushSame
<1>8. Same(r.decoder, next.decoder)
  BY <1>6, <1>7, SameAsBoth DEF InTurn
<1> QED
  BY <1>3, <1>4, <1>6, <1>7, <1>8 DEF Chunk, InTurn

\* More events after events of which none was the last.
LEMMA GoneOn ==
    ASSUME NEW d, Ordered(d), ~Ended(d), NEW out, Ordered(out)
    PROVE  Ordered(d \o out)
<1>1. ~Over(d)
  <2>1. IsSequence(d) /\ Len(d) \in Nat /\ (d # <<>> => Len(d) # 0)
    BY SequenceFacts, EmptySeq DEF Ordered, IsSequence
  <2>2. d # <<>> => Len(d) \in 1 .. Len(d)
    BY <2>1
  <2> QED
    BY <2>2 DEF Over, Ended
<1> QED
  BY <1>1, OrderedJoined

-----------------------------------------------------------------------------
(* The inductive invariant.                                                *)

\* What one call reads of all the bytes read so far.
Whole == PushBytes(wire, NewStreamDecoder(wire), SubSeq(sent, 1, at))

\* The body and how far it was read.
BodyInv ==
    /\ wire \in Wires /\ first \in {<<>>, <<Observation>>}
    /\ Bytes(wire, sent) /\ at \in 0 .. Len(sent)
    /\ over \in {"open", "closed", "broken"} /\ heard \in {None, over}
    /\ heard # None => over # "open" /\ stream.finished

\* The decoder is in order, and no call tells it from one that got all bytes at once.
DecoderInv ==
    /\ StreamShape(stream) /\ Decoder(wire, stream.decoder)
    /\ heard = None => Same(stream.decoder, Whole.decoder)

\* The events, delivered or ready: nothing follows the last, and whoever got it has
\* a stream that reads no more.
EventsInv ==
    /\ IsSequence(delivered) /\ IsSequence(stream.ready)
    /\ delivered \o stream.ready = first \o AtOnce
    /\ Ordered(delivered \o stream.ready)
    /\ Ended(delivered) => stream.finished

StreamInv == BodyInv /\ DecoderInv /\ EventsInv

\* The wires are known.
LEMMA WireKnown == BodyInv => Known(wire)
BY WiresAssumption DEF BodyInv, Known

\* What is read of the bytes so far, before and after the end was heard.
LEMMA AtOnceHeard ==
    ASSUME BodyInv, heard = None
    PROVE  AtOnce = Whole.out /\ Ordered(Whole.out)
<1>1. PICK r : r = Whole
  OBVIOUS
<1>2. Ordered(r.out)
  <2>1. PICK w, d, p : w = wire /\ d = NewStreamDecoder(w) /\ p = SubSeq(sent, 1, at)
    OBVIOUS
  <2>2. Known(w) /\ Decoder(w, d)
    BY <2>1, WireKnown, DecoderStarts
  <2>3. Bytes(w, p)
    <3>1. PICK b, n : b = sent /\ n = at
      OBVIOUS
    <3>2. Bytes(w, b) /\ n \in 0 .. Len(b) /\ p = SubSeq(b, 1, n)
      BY <2>1, <3>1 DEF BodyInv
    <3>3. PICK x, q : x = b \o <<>> /\ q = SubSeq(x, 1, n)
      OBVIOUS
    <3>4. IsSequence(b)
      BY <3>2 DEF Bytes
    <3>5. PICK r2 : r2 = SubSeq(b, n + 1, Len(b))
      OBVIOUS
    <3>6. Cuts(b, n, p, r2)
      BY <3>2, <3>5 DEF Cuts
    <3>7. IsSequence(p) /\ Len(p) = n /\ \A i \in 1 .. n : p[i] = b[i]
      BY ONLY <3>2, <3>4, <3>6, CutInTwo
    <3>8. Len(b) \in Nat /\ \A i \in 1 .. n : i \in 1 .. Len(b)
      BY <3>2, <3>4, SequenceFacts
    <3> QED
      BY <3>2, <3>7, <3>8 DEF Bytes
  <2>4. r = PushBytes(w, d, p)
    BY <1>1, <2>1 DEF Whole
  <2> QED
    BY <2>2, <2>3, <2>4, PushReads
<1>3. AtOnce = r.out \o <<>>
  BY <1>1, NoneAssumption DEF AtOnce, ThenEnd, Whole
<1>4. r.out \o <<>> = r.out
  BY <1>2, EmptySequence, SequencesJoined DEF Ordered
<1> QED
  BY <1>1, <1>2, <1>3, <1>4

\* The invariant holds when the stream is opened.
LEMMA StreamInit == Init => StreamInv
<1> SUFFICES ASSUME Init PROVE StreamInv
  OBVIOUS
<1>1. PICK w, f, s : w = wire /\ f = first /\ s = stream
  OBVIOUS
<1>2. /\ w \in Wires /\ f \in {<<>>, <<Observation>>} /\ s = NewStream(w, f)
      /\ sent = <<>> /\ over = "open" /\ at = 0 /\ heard = None /\ delivered = <<>>
  BY <1>1 DEF Init
<1>3. Bytes(w, <<>>) /\ Len(<<>>) = 0 /\ IsSequence(<<>>)
  BY EmptySequence DEF Bytes
<1>4. BodyInv
  BY <1>1, <1>2, <1>3 DEF BodyInv
<1>5. Known(w) /\ Decoder(w, NewStreamDecoder(w))
  BY <1>1, <1>4, WireKnown, DecoderStarts
<1>6. s.decoder = NewStreamDecoder(w) /\ s.ready = f /\ s.finished = FALSE
      /\ {"decoder", "ready", "finished", "id", "completed"} \subseteq DOMAIN s
  BY <1>2 DEF NewStream
<1>7. PICK r : r = PushBytes(w, NewStreamDecoder(w), <<>>)
  OBVIOUS
<1>8. r.out = <<>> /\ r.decoder = NewStreamDecoder(w)
  BY <1>5, <1>7, NothingPushed
<1>9. Whole = r
  <2>1. SubSeq(<<>>, 1, 0) = <<>>
    BY <1>3, SequenceCut, EmptySeq DEF IsSequence
  <2> QED
    BY <1>1, <1>2, <1>7, <2>1 DEF Whole
<1>10. DecoderInv
  BY <1>1, <1>5, <1>6, <1>8, <1>9 DEF DecoderInv, StreamShape, Same
<1>11. IsSequence(f) /\ Ordered(f)
  <2>1. Len(<<Observation>>) = 1 /\ IsSequence(<<Observation>>)
    BY OneElement
  <2>2. IsSequence(f) /\ Len(f) \in {0, 1}
    BY <1>2, <1>3, <2>1
  <2>3. PICK n : n = Len(f)
    OBVIOUS
  <2>4. \A i \in 1 .. n - 1 : FALSE
    BY <2>2, <2>3
  <2> QED
    BY <2>2, <2>3, <2>4 DEF Ordered
<1>12. AtOnce = <<>>
  BY <1>2, <1>4, <1>8, <1>9, AtOnceHeard
<1>13. <<>> \o f = f /\ f \o <<>> = f
  BY <1>3, <1>11, SequencesJoined
<1>14. ~Ended(<<>>)
  BY <1>3 DEF Ended
<1>15. EventsInv
  BY <1>1, <1>2, <1>3, <1>6, <1>11, <1>12, <1>13, <1>14 DEF EventsInv
<1> QED
  BY <1>4, <1>10, <1>15 DEF StreamInv

-----------------------------------------------------------------------------
(* The steps.                                                              *)

\* More is written: nothing that was read changes.
LEMMA SendKeeps ==
    ASSUME StreamInv, NEW bytes \in Pieces(wire), Send(bytes)
    PROVE  StreamInv'
<1>1. over = "open" /\ sent' = sent \o bytes /\ UNCHANGED <<wire, over, at, heard, stream, first, delivered>>
  BY DEF Send
<1>2. heard = None
  BY <1>1 DEF StreamInv, BodyInv
<1>3. PICK w, old, new, n : w = wire /\ old = sent /\ new = sent' /\ n = at
  OBVIOUS
<1>4. Bytes(w, bytes)
  <2>1. IsSequence(bytes) /\ \A i \in DOMAIN bytes : IsByte(w, bytes[i])
    BY <1>3, WiresAssumption DEF StreamInv, BodyInv
  <2> QED
    BY <2>1, SequenceFacts DEF Bytes
<1>5. Bytes(w, new) /\ n \in 0 .. Len(new) /\ SubSeq(new, 1, n) = SubSeq(old, 1, n)
  <2>1. Bytes(w, old) /\ n \in 0 .. Len(old) /\ new = old \o bytes
    BY <1>1, <1>3 DEF StreamInv, BodyInv
  <2>2. PICK p, q : p = SubSeq(old, 1, n) /\ q = SubSeq(new, 1, n) /\ Writing(old, bytes, n, new, p, q)
    BY <2>1 DEF Writing
  <2>3. Bytes(w, new) /\ n \in 0 .. Len(new) /\ q = p
    BY ONLY <1>4, <2>1, <2>2, MoreSent
  <2> QED
    BY <2>2, <2>3
<1>6. BodyInv'
  BY <1>1, <1>3, <1>5 DEF StreamInv, BodyInv
<1>7. Whole' = Whole /\ AtOnce' = AtOnce
  <2>1. SubSeq(sent', 1, at') = SubSeq(sent, 1, at)
    BY <1>1, <1>3, <1>5
  <2> QED
    BY <1>1, <2>1 DEF Whole, AtOnce, ThenEnd
<1> QED
  BY <1>1, <1>6, <1>7 DEF StreamInv, DecoderInv, EventsInv

\* The body ends, or breaks: nobody has heard of it.
LEMMA HangKeeps ==
    ASSUME StreamInv, NEW how \in {"closed", "broken"}, Hang(how)
    PROVE  StreamInv'
<1>1. over = "open" /\ over' = how /\ UNCHANGED <<wire, sent, at, heard, stream, first, delivered>>
  BY DEF Hang
<1>2. heard = None
  BY <1>1 DEF StreamInv, BodyInv
<1>3. BodyInv'
  BY <1>1, <1>2 DEF StreamInv, BodyInv
<1>4. Whole' = Whole /\ AtOnce' = AtOnce
  BY <1>1 DEF Whole, AtOnce, ThenEnd
<1> QED
  BY <1>1, <1>3, <1>4 DEF StreamInv, DecoderInv, EventsInv

\* What a call hands over, and what it leaves ready.
LEMMA Handed ==
    ASSUME NEW take, NEW s, NEW events, Hand(take, s, events),
           IsSequence(events), StreamShape(s), IsSequence(delivered)
    PROVE  /\ Passed(events, s, delivered, stream', delivered')
           /\ UNCHANGED <<wire, sent, over, first>>
<1>1. PICK w, d, n, s2, d2 : w = wire /\ d = delivered /\ n = Taken(take, events) /\ s2 = stream' /\ d2 = delivered'
  OBVIOUS
<1>2. PICK h, r : h = SubSeq(events, 1, n) /\ r = SubSeq(events, n + 1, Len(events))
  OBVIOUS
<1>3. HandsOver(w, s, d, h, r, s2, d2) /\ UNCHANGED <<wire, sent, over, first>>
  BY <1>1, <1>2 DEF Hand, Taken, HandsOver
<1>4. Cuts(events, n, h, r) /\ IsSequence(d) /\ n = Taken(take, events)
  BY <1>1, <1>2 DEF Cuts
<1>5. Passed(events, s, d, s2, d2)
  BY ONLY <1>3, <1>4, IsSequence(events), StreamShape(s), HandPasses
<1> QED
  BY <1>1, <1>3, <1>5

-----------------------------------------------------------------------------

\* Ready events are handed over without a read.
LEMMA TakeReadyKeeps ==
    ASSUME StreamInv, NEW take, TakeReady(take)
    PROVE  StreamInv'
<1>1. PICK s, e : s = stream /\ e = stream.ready
  OBVIOUS
<1>2. Hand(take, s, e) /\ UNCHANGED <<at, heard>>
  BY <1>1 DEF TakeReady
<1>3. IsSequence(e) /\ StreamShape(s) /\ IsSequence(delivered)
  BY <1>1 DEF StreamInv, DecoderInv, EventsInv
<1>4. PICK d, s2, d2 : d = delivered /\ s2 = stream' /\ d2 = delivered'
  OBVIOUS
<1>5. Passed(e, s, d, s2, d2) /\ UNCHANGED <<wire, sent, over, first>>
  BY <1>2, <1>3, <1>4, Handed
<1>6. /\ IsSequence(d2) /\ IsSequence(s2.ready) /\ d2 \o s2.ready = d \o e
      /\ StreamShape(s2) /\ s2.decoder = s.decoder /\ (s.finished => s2.finished)
      /\ (Ended(d) => s.finished) => (Ended(d2) => s2.finished)
  BY <1>5 DEF Passed
<1>7. BodyInv'
  BY <1>1, <1>2, <1>4, <1>5, <1>6 DEF StreamInv, BodyInv
<1>8. Whole' = Whole /\ AtOnce' = AtOnce
  BY <1>2, <1>5 DEF Whole, AtOnce, ThenEnd
<1>9. DecoderInv'
  BY <1>1, <1>2, <1>4, <1>5, <1>6, <1>8 DEF StreamInv, DecoderInv
<1>10. EventsInv'
  <2>1. delivered' \o stream'.ready = delivered \o stream.ready
    BY <1>1, <1>4, <1>6
  <2>2. Ended(delivered') => stream'.finished
    BY <1>1, <1>4, <1>6 DEF StreamInv, EventsInv
  <2> QED
    BY <1>4, <1>5, <1>6, <1>8, <2>1, <2>2 DEF StreamInv, EventsInv
<1> QED
  BY <1>7, <1>9, <1>10 DEF StreamInv

\* A stream that may still read has handed over all there was.
LEMMA Unfinished ==
    ASSUME StreamInv, Reads
    PROVE  /\ heard = None /\ ~Ended(delivered)
           /\ Ordered(delivered) /\ delivered = first \o Whole.out
           /\ IsSequence(first) /\ Known(wire)
<1>1. heard = None /\ ~Ended(delivered)
  BY DEF StreamInv, BodyInv, EventsInv, Reads
<1>2. delivered \o <<>> = delivered
  BY SequencesJoined DEF StreamInv, EventsInv
<1>3. AtOnce = Whole.out
  BY <1>1, AtOnceHeard DEF StreamInv
<1>4. Ordered(delivered) /\ delivered = first \o Whole.out
  BY <1>2, <1>3 DEF StreamInv, EventsInv, Reads
<1>5. IsSequence(first)
  <2>1. IsSequence(<<Observation>>) /\ IsSequence(<<>>)
    BY OneElement, EmptySequence
  <2> QED
    BY <2>1 DEF StreamInv, BodyInv
<1> QED
  BY <1>1, <1>4, <1>5, WireKnown DEF StreamInv

\* What HandDecoded hands over.
LEMMA DecodedHanded ==
    ASSUME StreamInv, Reads, NEW take, NEW r, NEW last \in BOOLEAN, HandDecoded(take, r, last),
           Decoder(wire, r.decoder), Ordered(r.out)
    PROVE  /\ UNCHANGED <<wire, sent, over, first>>
           /\ StreamShape(stream') /\ stream'.decoder = r.decoder /\ (last => stream'.finished)
           /\ IsSequence(delivered') /\ IsSequence(stream'.ready)
           /\ delivered' \o stream'.ready = delivered \o r.out
           /\ Ordered(delivered' \o stream'.ready)
           /\ Ended(delivered') => stream'.finished
<1>1. PICK finished : finished = (last \/ (take = "next" /\ \E i \in DOMAIN r.out : Terminal(r.out[i])))
  OBVIOUS
<1>2. finished \in BOOLEAN /\ (last => finished)
  BY <1>1
<1>3. PICK old, decoder, e : old = stream /\ decoder = r.decoder /\ e = r.out
  OBVIOUS
<1>4. PICK s : s = [old EXCEPT !.decoder = decoder, !.finished = finished]
  OBVIOUS
<1>5. Hand(take, s, e)
  BY <1>1, <1>3, <1>4, Zenon DEF HandDecoded
<1>6. StreamShape(s) /\ s.decoder = decoder /\ s.finished = finished
  <2>1. StreamShape(old)
    BY <1>3 DEF StreamInv, DecoderInv
  <2>2. {"decoder", "ready", "finished", "id", "completed"} \subseteq DOMAIN old
    BY <2>1 DEF StreamShape
  <2>3. DOMAIN s = DOMAIN old /\ s.decoder = decoder /\ s.finished = finished
    BY ONLY <1>4, <2>2
  <2> QED
    BY <1>2, <2>2, <2>3 DEF StreamShape
<1>7. IsSequence(e) /\ IsSequence(delivered) /\ Ordered(e)
  BY <1>3, Unfinished DEF Ordered
<1>8. PICK d, s2, d2 : d = delivered /\ s2 = stream' /\ d2 = delivered'
  OBVIOUS
<1>9. Passed(e, s, d, s2, d2) /\ UNCHANGED <<wire, sent, over, first>>
  BY <1>5, <1>6, <1>7, <1>8, Handed
<1>10. /\ IsSequence(d2) /\ IsSequence(s2.ready) /\ d2 \o s2.ready = d \o e
       /\ StreamShape(s2) /\ s2.decoder = s.decoder /\ (s.finished => s2.finished)
       /\ (Ended(d) => s.finished) => (Ended(d2) => s2.finished)
  BY <1>9 DEF Passed
<1>11. Ordered(d) /\ ~Ended(d)
  BY <1>8, Unfinished
<1>12. Ordered(d \o e)
  BY <1>7, <1>11, GoneOn
<1>13. (last => s2.finished) /\ (Ended(d2) => s2.finished) /\ s2.decoder = decoder
  BY <1>2, <1>6, <1>10, <1>11
<1> QED
  BY <1>3, <1>8, <1>9, <1>10, <1>12, <1>13

\* A chunk.
LEMMA ReadChunkKeeps ==
    ASSUME StreamInv, NEW take, NEW n \in 1 .. Len(sent) - at, ReadChunk(take, n)
    PROVE  StreamInv'
<1>1. /\ Reads /\ at' = at + n /\ UNCHANGED heard
      /\ HandDecoded(take, PushBytes(wire, stream.decoder, SubSeq(sent, at + 1, at + n)), FALSE)
  BY DEF ReadChunk
<1>2. PICK w, b, m, d : w = wire /\ b = sent /\ m = at /\ d = stream.decoder
  OBVIOUS
<1>3. PICK p, c, q : p = SubSeq(b, 1, m) /\ c = SubSeq(b, m + 1, m + n) /\ q = SubSeq(b, 1, m + n)
  OBVIOUS
<1>4. Bytes(w, b) /\ m \in 0 .. Len(b) /\ n \in 1 .. Len(b) - m
  BY <1>2 DEF StreamInv, BodyInv
<1>5. /\ Bytes(w, p) /\ Bytes(w, c) /\ c # <<>> /\ q = p \o c
      /\ m + n \in 0 .. Len(b)
  <2>1. Reading(b, m, n, p, c, q)
    BY <1>3 DEF Reading
  <2> QED
    BY ONLY <1>4, <2>1, ChunkOfBytes
<1>6. PICK whole, r, next : /\ whole = PushBytes(w, NewStreamDecoder(w), p)
                            /\ r = PushBytes(w, d, c)
                            /\ next = PushBytes(w, NewStreamDecoder(w), q)
  OBVIOUS
<1>7. Whole = whole
  BY <1>2, <1>3, <1>6 DEF Whole
<1>8. Known(w) /\ Decoder(w, d) /\ Same(d, whole.decoder)
  <2>1. heard = None /\ Known(wire)
    BY <1>1, Unfinished
  <2> QED
    BY <1>2, <1>7, <2>1 DEF StreamInv, DecoderInv
<1>9. /\ next.out = whole.out \o r.out /\ Same(r.decoder, next.decoder)
      /\ Decoder(w, r.decoder) /\ Ordered(r.out) /\ Ordered(whole.out)
  <2>1. next = PushBytes(w, NewStreamDecoder(w), p \o c)
    BY <1>5, <1>6
  <2>2. Chunk(w, whole, r, next)
    BY ONLY <1>5, <1>6, <1>8, <2>1, ChunkDecoded
  <2> QED
    BY <2>2 DEF Chunk
<1>10. HandDecoded(take, r, FALSE)
  BY <1>1, <1>2, <1>3, <1>6
<1>11. /\ UNCHANGED <<wire, sent, over, first>>
       /\ StreamShape(stream') /\ stream'.decoder = r.decoder
       /\ IsSequence(delivered') /\ IsSequence(stream'.ready)
       /\ delivered' \o stream'.ready = delivered \o r.out
       /\ Ordered(delivered' \o stream'.ready)
       /\ Ended(delivered') => stream'.finished
  BY <1>1, <1>2, <1>9, <1>10, DecodedHanded
<1>12. heard = None /\ heard' = None /\ delivered = first \o whole.out /\ IsSequence(first)
  BY <1>1, <1>7, Unfinished
<1>13. BodyInv'
  BY <1>1, <1>2, <1>5, <1>11, <1>12 DEF StreamInv, BodyInv
<1>14. Whole' = next
  BY <1>1, <1>2, <1>3, <1>6, <1>11 DEF Whole
<1>15. DecoderInv'
  BY <1>2, <1>9, <1>11, <1>14 DEF DecoderInv
<1>16. AtOnce' = next.out
  <2>1. AtOnce' = Whole'.out
    <3>1. (BodyInv /\ heard = None => AtOnce = Whole.out)'
      BY AtOnceHeard, PTL
    <3> QED
      BY <1>12, <1>13, <3>1
  <2> QED
    BY <1>14, <2>1
<1>17. delivered' \o stream'.ready = first' \o AtOnce'
  <2>1. PICK f, x, y : f = first /\ x = whole.out /\ y = r.out
    OBVIOUS
  <2>2. IsSequence(f) /\ IsSequence(x) /\ IsSequence(y)
    BY <1>9, <1>12, <2>1 DEF Ordered
  <2>3. (f \o x) \o y = f \o (x \o y)
    BY ONLY <2>2, JoiningAssociates
  <2> QED
    BY <1>9, <1>11, <1>12, <1>16, <2>1, <2>3
<1>18. EventsInv'
  BY <1>11, <1>17 DEF EventsInv
<1> QED
  BY <1>13, <1>15, <1>18 DEF StreamInv

\* The end of the body.
LEMMA ReadEndKeeps ==
    ASSUME StreamInv, NEW take, ReadEnd(take)
    PROVE  StreamInv'
<1>1. /\ Reads /\ over = "closed" /\ heard' = over /\ UNCHANGED at
      /\ HandDecoded(take, FinishBytes(wire, stream.decoder), TRUE)
  BY DEF ReadEnd
<1>2. PICK w, d, whole, r : /\ w = wire /\ d = stream.decoder /\ whole = Whole /\ r = FinishBytes(w, d)
  OBVIOUS
<1>3. /\ heard = None /\ Known(w) /\ IsSequence(first)
      /\ delivered = first \o whole.out
  BY <1>1, <1>2, Unfinished
<1>4. Decoder(w, d) /\ Same(d, whole.decoder)
  BY <1>2, <1>3 DEF StreamInv, DecoderInv
<1>5. Decoder(w, r.decoder) /\ Ordered(r.out)
  BY <1>2, <1>3, <1>4, FinishReads
<1>6. r.out = FinishBytes(w, whole.decoder).out
  <2>1. PICK e : e = whole.decoder
    OBVIOUS
  <2> QED
    BY <1>2, <1>4, <2>1, FinishSame
<1>7. HandDecoded(take, r, TRUE)
  BY <1>1, <1>2
<1>8. /\ UNCHANGED <<wire, sent, over, first>>
      /\ StreamShape(stream') /\ stream'.decoder = r.decoder /\ stream'.finished
      /\ IsSequence(delivered') /\ IsSequence(stream'.ready)
      /\ delivered' \o stream'.ready = delivered \o r.out
      /\ Ordered(delivered' \o stream'.ready)
  BY <1>1, <1>2, <1>5, <1>7, DecodedHanded
<1>9. heard' = "closed" /\ "closed" # None
  BY <1>1, NoneAssumption
<1>10. BodyInv'
  BY <1>1, <1>8, <1>9 DEF StreamInv, BodyInv
<1>11. DecoderInv'
  BY <1>2, <1>5, <1>8, <1>9 DEF DecoderInv
<1>12. AtOnce' = whole.out \o r.out
  <2>1. Whole' = whole
    BY <1>1, <1>2, <1>8 DEF Whole
  <2>2. AtOnce' = Whole'.out \o FinishBytes(wire', Whole'.decoder).out
    BY <1>9 DEF AtOnce, ThenEnd, Whole
  <2> QED
    BY <1>2, <1>6, <1>8, <2>1, <2>2
<1>13. delivered' \o stream'.ready = first' \o AtOnce'
  <2>1. PICK f, x, y : f = first /\ x = whole.out /\ y = r.out
    OBVIOUS
  <2>2. IsSequence(f) /\ IsSequence(x) /\ IsSequence(y)
    <3>1. Ordered(whole.out)
      BY <1>2, <1>3, AtOnceHeard DEF StreamInv
    <3> QED
      BY <1>3, <1>5, <2>1, <3>1 DEF Ordered
  <2>3. (f \o x) \o y = f \o (x \o y)
    BY ONLY SMTT(30), <2>2, JoiningAssociates
  <2> QED
    BY <1>3, <1>8, <1>12, <2>1, <2>3
<1>14. EventsInv'
  BY <1>8, <1>13 DEF EventsInv
<1> QED
  BY <1>10, <1>11, <1>14 DEF StreamInv

\* The transport fails: an error event of its own, and the decoder is not asked.
LEMMA ReadErrorKeeps ==
    ASSUME StreamInv, NEW take, ReadError(take)
    PROVE  StreamInv'
<1>1. PICK old, finished : old = stream /\ finished = (take = "batch")
  OBVIOUS
<1>2. PICK s, e : s = [old EXCEPT !.finished = finished] /\ e = <<Failure("transport")>>
  OBVIOUS
<1>3. /\ Reads /\ over = "broken" /\ heard' = over /\ UNCHANGED at
      /\ Hand(take, s, e)
  BY <1>1, <1>2 DEF ReadError
<1>4. StreamShape(s) /\ s.decoder = old.decoder
  <2>1. StreamShape(old) /\ finished \in BOOLEAN
    BY <1>1 DEF StreamInv, DecoderInv
  <2>2. {"decoder", "ready", "finished", "id", "completed"} \subseteq DOMAIN old
    BY <2>1 DEF StreamShape
  <2>3. DOMAIN s = DOMAIN old /\ s.decoder = old.decoder /\ s.finished = finished
    BY ONLY <1>2, <2>2
  <2> QED
    BY <2>1, <2>2, <2>3 DEF StreamShape
<1>5. IsSequence(e) /\ Len(e) = 1 /\ Terminal(e[1]) /\ e # <<>>
  <2>1. Failure("transport").event = "error"
    BY DEF Failure
  <2> QED
    BY <1>2, <2>1, OneElement, EmptySequence DEF Terminal
<1>6. /\ heard = None /\ ~Ended(delivered) /\ Ordered(delivered) /\ IsSequence(first)
      /\ delivered = first \o Whole.out
  BY <1>3, Unfinished
<1>7. PICK d, s2, d2, whole : d = delivered /\ s2 = stream' /\ d2 = delivered' /\ whole = Whole
  OBVIOUS
<1>8. Passed(e, s, d, s2, d2) /\ UNCHANGED <<wire, sent, over, first>>
  <2>1. IsSequence(delivered)
    BY <1>6 DEF Ordered
  <2> QED
    BY <1>3, <1>4, <1>5, <1>7, <2>1, Handed
<1>9. /\ IsSequence(d2) /\ IsSequence(s2.ready) /\ d2 \o s2.ready = d \o e
      /\ StreamShape(s2) /\ s2.decoder = s.decoder /\ s2.finished
  BY <1>5, <1>8 DEF Passed
<1>10. heard' = "broken" /\ "broken" # None /\ "broken" # "closed"
  BY <1>3, NoneAssumption
<1>11. BodyInv'
  BY <1>3, <1>7, <1>8, <1>9, <1>10 DEF StreamInv, BodyInv
<1>12. DecoderInv'
  BY <1>1, <1>4, <1>7, <1>8, <1>9, <1>10 DEF StreamInv, DecoderInv
<1>13. AtOnce' = whole.out \o e
  <2>1. Whole' = whole
    BY <1>3, <1>7, <1>8 DEF Whole
  <2>2. AtOnce' = Whole'.out \o <<Failure("transport")>>
    BY <1>10 DEF AtOnce, ThenEnd, Whole
  <2> QED
    BY <1>2, <2>1, <2>2
<1>14. d \o e = first \o (whole.out \o e)
  <2>1. PICK f, x : f = first /\ x = whole.out
    OBVIOUS
  <2>2. IsSequence(f) /\ IsSequence(x) /\ d = f \o x
    <3>1. Ordered(whole.out)
      BY <1>6, <1>7, AtOnceHeard DEF StreamInv
    <3> QED
      BY <1>6, <1>7, <2>1, <3>1 DEF Ordered
  <2>3. (f \o x) \o e = f \o (x \o e)
    BY ONLY <1>5, <2>2, JoiningAssociates
  <2> QED
    BY <2>1, <2>2, <2>3
<1>15. Ordered(d \o e)
  <2>1. Ordered(e)
    <3>1. PICK n : n = Len(e) /\ n = 1
      BY <1>5
    <3>2. \A i \in 1 .. n - 1 : FALSE
      BY <3>1
    <3> QED
      BY <1>5, <3>1, <3>2 DEF Ordered
  <2> QED
    BY <1>6, <1>7, <2>1, GoneOn
<1>16. EventsInv'
  <2>1. delivered' \o stream'.ready = first' \o AtOnce' /\ Ordered(delivered' \o stream'.ready)
    BY <1>7, <1>8, <1>9, <1>13, <1>14, <1>15
  <2> QED
    BY <1>7, <1>9, <2>1 DEF EventsInv
<1> QED
  BY <1>11, <1>12, <1>16 DEF StreamInv

-----------------------------------------------------------------------------

\* The invariant is inductive.
THEOREM StreamInvariant == Spec => []StreamInv
<1>1. Init => StreamInv
  BY StreamInit
<1>2. StreamInv /\ [Next]_vars => StreamInv'
  <2> SUFFICES ASSUME StreamInv, [Next]_vars PROVE StreamInv'
    OBVIOUS
  <2>1. CASE \E bytes \in Pieces(wire) : Send(bytes)
    BY <2>1, SendKeeps
  <2>2. CASE \E how \in {"closed", "broken"} : Hang(how)
    BY <2>2, HangKeeps
  <2>3. ASSUME NEW take \in {"next", "batch"},
               \/ TakeReady(take)
               \/ \E n \in 1 .. Len(sent) - at : ReadChunk(take, n)
               \/ ReadEnd(take)
               \/ ReadError(take)
        PROVE  StreamInv'
    <3>1. CASE TakeReady(take)
      BY <3>1, TakeReadyKeeps
    <3>2. CASE \E n \in 1 .. Len(sent) - at : ReadChunk(take, n)
      BY <3>2, ReadChunkKeeps
    <3>3. CASE ReadEnd(take)
      BY <3>3, ReadEndKeeps
    <3>4. CASE ReadError(take)
      BY <3>4, ReadErrorKeeps
    <3> QED
      BY <2>3, <3>1, <3>2, <3>3, <3>4
  <2>4. CASE UNCHANGED vars
    <3>1. UNCHANGED <<wire, sent, over, at, heard, stream, first, delivered>>
      BY <2>4 DEF vars
    <3>2. Whole' = Whole /\ AtOnce' = AtOnce
      BY <3>1 DEF Whole, AtOnce, ThenEnd
    <3> QED
      BY <3>1, <3>2 DEF StreamInv, BodyInv, DecoderInv, EventsInv
  <2> QED
    BY <2>1, <2>2, <2>3, <2>4 DEF Next
<1> QED
  BY <1>1, <1>2, PTL DEF Spec

\* However the transport cuts a body into chunks and the caller mixes next and
\* next_batch, the events are those of the bytes read at once, and nothing follows
\* an End or an error.
THEOREM ChunkingIrrelevantAlways == Spec => []ChunkingIrrelevant
<1>1. StreamInv => ChunkingIrrelevant
  <2> SUFFICES ASSUME StreamInv PROVE ChunkingIrrelevant
    OBVIOUS
  <2>1. PICK d, r : d = delivered /\ r = stream.ready
    OBVIOUS
  <2>2. IsSequence(d) /\ IsSequence(r) /\ Ordered(d \o r)
    BY <2>1 DEF StreamInv, EventsInv
  <2>3. Len(d) \in Nat /\ Len(r) \in Nat
    BY <2>2, SequenceFacts
  <2>4. Len(d \o r) = Len(d) + Len(r)
        /\ \A i \in 1 .. Len(d) + Len(r) : (d \o r)[i] = IF i <= Len(d) THEN d[i] ELSE r[i - Len(d)]
    BY ONLY <2>2, SequencesJoined
  <2>5. ASSUME NEW i \in 1 .. Len(d) - 1 PROVE ~Terminal(d[i])
    <3>1. i \in 1 .. Len(d) + Len(r) /\ i <= Len(d) /\ i \in 1 .. Len(d) + Len(r) - 1
      BY <2>3
    <3>2. (d \o r)[i] = d[i] /\ i \in 1 .. Len(d \o r) - 1
      BY <2>4, <3>1
    <3> QED
      BY <2>2, <3>2 DEF Ordered
  <2> QED
    BY <2>1, <2>5 DEF ChunkingIrrelevant, StreamInv, EventsInv
<1> QED
  BY <1>1, StreamInvariant, PTL

\* The counter of held bytes is what the open blocks hold, and no buffer grows
\* beyond its limit.
THEOREM PendingBytesExactAlways == Spec => []PendingBytesExact
<1>1. StreamInv => PendingBytesExact
  <2> SUFFICES ASSUME StreamInv PROVE PendingBytesExact
    OBVIOUS
  <2>1. PICK w, d : w = wire /\ d = stream.decoder
    OBVIOUS
  <2>2. Framing(w, d.framing) /\ Inner(w, d.inner)
    BY <2>1 DEF StreamInv, DecoderInv, Decoder
  <2>3. w.codec = "anthropic" => d.inner.bytes = Retained(d.inner) /\ d.inner.bytes <= MaxPendingBytes
    BY <2>2 DEF Inner, Held
  <2> QED
    BY <2>1, <2>2, <2>3 DEF PendingBytesExact, Framing
<1> QED
  BY <1>1, StreamInvariant, PTL
=============================================================================
