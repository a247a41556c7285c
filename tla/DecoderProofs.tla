---------------------------- MODULE DecoderProofs ----------------------------
(***************************************************************************)
(* What the framings and the decoders of a model stream leave, whatever    *)
(* bytes and frames a provider writes: no decoder emits an error event of  *)
(* its own (push_bytes adds it last, once), the framings keep no more than *)
(* their limit, Anthropic's counter of pending bytes is the number of the  *)
(* bytes it retains, and what a frame does to a decoder does not depend on *)
(* the events emitted before it.                                           *)
(*                                                                         *)
(* Each recursive function of the model is a loop over a sequence: a turn  *)
(* keeps what the lemma says of it, and UpTo carries it to the last turn.  *)
(***************************************************************************)
EXTENDS ModelStream, SequenceTheorems, FiniteSetTheorems, WellFoundedInduction, TLAPS

\* A set of numbers that has a member has a least one.
LEMMA Least ==
    ASSUME NEW S \in SUBSET Nat, S # {}
    PROVE  \E n \in S : \A m \in S : n <= m
<1>1. PICK n \in S : \A m \in S : ~(<<m, n>> \in OpToRel(<, Nat))
  BY NatLessThanWellFounded, WFMin
<1>2. \A m \in S : ~(m < n)
  BY <1>1 DEF OpToRel
<1> QED
  BY <1>2

\* Induction over the numbers, for a set in place of a predicate.
LEMMA Induction ==
    ASSUME NEW S, 0 \in S, \A n \in Nat : n \in S => n + 1 \in S
    PROVE  \A n \in Nat : n \in S
<1>1. SUFFICES ASSUME Nat \ S # {} PROVE FALSE
  OBVIOUS
<1>2. PICK n \in Nat \ S : \A m \in Nat \ S : n <= m
  BY <1>1, Least
<1>3. n # 0 /\ n - 1 \in Nat
  BY <1>2
<1>4. n - 1 \in S
  BY <1>2, <1>3
<1> QED
  BY <1>2, <1>3, <1>4

\* Of what a sequence is made does not matter.
LEMMA SequenceOfAny ==
    ASSUME NEW S, NEW s \in Seq(S)
    PROVE  IsSequence(s)
<1>1. DOMAIN s = 1 .. Len(s) /\ Len(s) \in Nat /\ s = [i \in 1 .. Len(s) |-> s[i]]
  BY LenProperties
<1>2. \A i \in 1 .. Len(s) : s[i] \in ToSet(s)
  BY <1>1 DEF ToSet
<1>3. [i \in 1 .. Len(s) |-> s[i]] \in Seq(ToSet(s))
  BY <1>1, <1>2
<1> QED
  BY <1>1, <1>3 DEF IsSequence, ToSet

\* The length, domain and elements of a sequence.
LEMMA SequenceFacts ==
    ASSUME NEW s, IsSequence(s)
    PROVE  /\ Len(s) \in Nat /\ DOMAIN s = 1 .. Len(s)
           /\ s \in Seq(ToSet(s))
           /\ s = [i \in 1 .. Len(s) |-> s[i]]
BY LenProperties DEF IsSequence, ToSet

\* A function on 1 .. n is a sequence of n elements.
LEMMA SequenceBuilt ==
    ASSUME NEW n \in Nat, NEW s, s = [i \in 1 .. n |-> s[i]]
    PROVE  IsSequence(s) /\ Len(s) = n
<1>1. \A i \in 1 .. n : s[i] \in ToSet(s)
  BY DEF ToSet
<1>2. [i \in 1 .. n |-> s[i]] \in Seq(ToSet(s))
  BY <1>1
<1>3. s \in Seq(ToSet(s))
  BY <1>2
<1> QED
  BY <1>3, LenProperties DEF IsSequence, ToSet

\* Joining two sequences: the length, the elements, the empty one.
LEMMA SequencesJoined ==
    ASSUME NEW s, NEW t, IsSequence(s), IsSequence(t)
    PROVE  /\ IsSequence(s \o t) /\ Len(s \o t) = Len(s) + Len(t)
           /\ \A i \in 1 .. Len(s) + Len(t) : (s \o t)[i] = IF i <= Len(s) THEN s[i] ELSE t[i - Len(s)]
           /\ s \o <<>> = s /\ <<>> \o s = s
<1> DEFINE S == ToSet(s) \cup ToSet(t)
<1>1. s \in Seq(S) /\ t \in Seq(S)
  BY SeqMonotonic DEF IsSequence, ToSet
<1> HIDE DEF S
<1> QED
  BY ZenonT(60), <1>1, ConcatProperties, ConcatEmptySeq, SequenceOfAny

\* Joining associates: chunks may be joined in any grouping.
LEMMA JoiningAssociates ==
    ASSUME NEW s, NEW t, NEW u, IsSequence(s), IsSequence(t), IsSequence(u)
    PROVE  (s \o t) \o u = s \o (t \o u)
<1> DEFINE S == ToSet(s) \cup ToSet(t) \cup ToSet(u)
<1>1. s \in Seq(S) /\ t \in Seq(S) /\ u \in Seq(S)
  BY SeqMonotonic DEF IsSequence, ToSet
<1> HIDE DEF S
<1> QED
  BY <1>1, ConcatAssociative

\* Appending one element, and that it is joining a sequence of one.
LEMMA SequenceExtended ==
    ASSUME NEW s, NEW e, IsSequence(s)
    PROVE  /\ IsSequence(Append(s, e)) /\ Len(Append(s, e)) = Len(s) + 1
           /\ \A i \in 1 .. Len(s) : Append(s, e)[i] = s[i]
           /\ Append(s, e)[Len(s) + 1] = e
           /\ Append(s, e) = s \o <<e>>
<1> DEFINE S == ToSet(s) \cup {e}
<1>1. s \in Seq(S) /\ e \in S
  BY SeqMonotonic DEF IsSequence, ToSet
<1> HIDE DEF S
<1>2. Append(s, e) \in Seq(S) /\ Append(s, e) = s \o <<e>>
  BY <1>1, AppendProperties, AppendIsConcat
<1>3. /\ Len(Append(s, e)) = Len(s) + 1
      /\ \A i \in 1 .. Len(s) : Append(s, e)[i] = s[i]
      /\ Append(s, e)[Len(s) + 1] = e
  BY <1>1, AppendProperties
<1> QED
  BY <1>2, <1>3, SequenceOfAny

\* A piece of a sequence: its length and elements.
LEMMA SequenceCut ==
    ASSUME NEW s, NEW m \in Nat \ {0}, NEW n \in Nat, IsSequence(s), n <= Len(s)
    PROVE  /\ IsSequence(SubSeq(s, m, n))
           /\ Len(SubSeq(s, m, n)) = IF m <= n THEN n - m + 1 ELSE 0
           /\ \A i \in 1 .. n - m + 1 : SubSeq(s, m, n)[i] = s[m + i - 1]
<1>1. \A i \in m .. n : s[i] \in ToSet(s)
  BY SequenceFacts, ElementOfSeq
<1>2. SubSeq(s, m, n) \in Seq(ToSet(s))
  BY <1>1, SubSeqProperties
<1>3. /\ Len(SubSeq(s, m, n)) = IF m <= n THEN n - m + 1 ELSE 0
      /\ \A i \in 1 .. n - m + 1 : SubSeq(s, m, n)[i] = s[m + i - 1]
  BY <1>1, SubSeqProperties
<1> QED
  BY <1>2, <1>3, SequenceOfAny

\* The empty sequence is one.
LEMMA EmptySequence == IsSequence(<<>>) /\ Len(<<>>) = 0
BY EmptySeq, SequenceOfAny

\* So is a sequence of one element.
LEMMA OneElement == ASSUME NEW e PROVE IsSequence(<<e>>) /\ Len(<<e>>) = 1 /\ <<e>>[1] = e
<1>1. <<e>> \in Seq({e})
  OBVIOUS
<1> QED
  BY <1>1, SequenceOfAny

\* Sequences of the same length and elements are the same.
LEMMA SameSequence ==
    ASSUME NEW s, NEW t, IsSequence(s), IsSequence(t), Len(s) = Len(t),
           \A i \in 1 .. Len(s) : s[i] = t[i]
    PROVE  s = t
BY SequenceFacts

\* Induction along a loop: what holds before the first turn and survives each turn holds after all.
LEMMA UpTo ==
    ASSUME NEW n \in Nat, NEW I, 0 \in I, \A i \in 1 .. n : i - 1 \in I => i \in I
    PROVE  \A i \in 0 .. n : i \in I
<1> DEFINE S == {i \in Nat : i <= n => i \in I}
<1>1. 0 \in S
  OBVIOUS
<1>2. \A i \in Nat : i \in S => i + 1 \in S
  OBVIOUS
<1>3. \A i \in Nat : i \in S
  <2> HIDE DEF S
  <2> QED
    BY <1>1, <1>2, Induction
<1> QED
  BY <1>3

-----------------------------------------------------------------------------
(* Loops.  Each recursive function of the model runs one of these bodies.  *)

Body(loop, x, r, i) ==
    CASE loop = "PushEach" -> Sse!PushByte(r, x[i])
      [] loop = "SplitLines" -> Sse!LineByte(r, x[i])
      [] loop = "DataLines" -> IF Sse!DataLine(x[i]) THEN Append(r, x[i]) ELSE r
      [] loop = "FeedBatch" -> EventStream!Turn(r)
      [] loop = "TakeEach" -> TakeFrame(x.wire, r, x.frames[i])
      [] loop = "ObserveEach" -> ObserveEvent(x.wire, r, x.events[i])
      [] loop = "ToolFragments" -> Chat!ToolFragment(r, x[i])
      [] loop = "TakeParts" -> Gemini!TakePart(r, x[i])
      [] loop = "FinalizeCalls" -> Responses!FinalizeCall(r, i, x)
      [] loop = "EmitItems" -> Responses!EmitItem(r, i - 1, x.items[i], x.completed)
      [] loop = "Streamed" -> IF i - 1 \in DOMAIN x THEN Append(r, x[i - 1].step) ELSE r
      [] loop = "EventsOf" -> r \o Interactions!StepEvents(Len(r) \div 2, x[i])

Runs(t, loop, x, s, n) == t = [i \in 0 .. n |-> IF i = 0 THEN s ELSE Body(loop, x, t[i - 1], i)]

\* A loop has a course, whatever its body does.
LEMMA Loop ==
    ASSUME NEW loop, NEW x, NEW s, NEW n \in Nat
    PROVE  \E t : Runs(t, loop, x, s, n)
<1> DEFINE S == {m \in Nat : \E t : Runs(t, loop, x, s, m)}
<1>1. 0 \in S
  <2>1. Runs([i \in 0 .. 0 |-> s], loop, x, s, 0)
    BY DEF Runs
  <2> QED
    BY <2>1
<1>2. ASSUME NEW m \in Nat, m \in S
      PROVE  m + 1 \in S
  <2>1. PICK t : Runs(t, loop, x, s, m)
    BY <1>2
  <2> DEFINE u == [i \in 0 .. m + 1 |-> IF i <= m THEN t[i] ELSE Body(loop, x, t[m], m + 1)]
  <2>2. \A i \in 0 .. m + 1 : u[i] = IF i = 0 THEN s ELSE Body(loop, x, u[i - 1], i)
    <3>1. ASSUME NEW i \in 0 .. m PROVE u[i] = IF i = 0 THEN s ELSE Body(loop, x, u[i - 1], i)
      BY <2>1 DEF Runs
    <3>2. u[m + 1] = Body(loop, x, u[m], m + 1)
      OBVIOUS
    <3> QED
      BY SMTT(30), <3>1, <3>2
  <2>3. Runs(u, loop, x, s, m + 1)
    BY <2>2 DEF Runs
  <2> QED
    BY <2>3
<1>3. \A m \in Nat : m \in S
  <2> HIDE DEF S
  <2> QED
    BY <1>1, <1>2, Induction
<1> QED
  BY <1>3

\* What a course is.
LEMMA Course ==
    ASSUME NEW t, NEW loop, NEW x, NEW s, NEW n \in Nat, Runs(t, loop, x, s, n)
    PROVE  /\ DOMAIN t = 0 .. n /\ t[0] = s
           /\ \A i \in 1 .. n : t[i] = Body(loop, x, t[i - 1], i)
BY DEF Runs

-----------------------------------------------------------------------------
(* Events without an error.                                                *)

Faultless(out) == IsSequence(out) /\ \A i \in 1 .. Len(out) : out[i].event # "error"

\* What a decoder has made of a frame so far.
Result(s) == {"decoder", "out", "error"} \subseteq DOMAIN s

Clean(s) == Result(s) /\ Faultless(s.out)

\* No events, no error.
LEMMA FaultlessEmpty == Faultless(<<>>)
BY EmptySequence DEF Faultless

\* One event that is no error.
LEMMA FaultlessOne == ASSUME NEW e, e.event # "error" PROVE Faultless(<<e>>)
BY OneElement DEF Faultless

\* Events without an error stay so when joined.
LEMMA FaultlessJoined ==
    ASSUME NEW s, NEW t, Faultless(s), Faultless(t)
    PROVE  Faultless(s \o t)
BY SequencesJoined, SequenceFacts DEF Faultless

\* And when one more is appended.
LEMMA FaultlessExtended ==
    ASSUME NEW s, NEW e, Faultless(s), e.event # "error"
    PROVE  Faultless(Append(s, e))
<1>1. Len(s) \in Nat /\ IsSequence(s)
  BY SequenceFacts DEF Faultless
<1>2. ASSUME NEW i \in 1 .. Len(s) + 1 PROVE Append(s, e)[i].event # "error"
  <2>1. CASE i = Len(s) + 1
    BY <1>1, <2>1, SequenceExtended
  <2>2. CASE i \in 1 .. Len(s)
    <3>1. Append(s, e)[i] = s[i]
      BY <1>1, <2>2, SequenceExtended
    <3> QED
      BY <2>2, <3>1 DEF Faultless
  <2> QED
    BY <1>1, <2>1, <2>2
<1> QED
  BY <1>1, <1>2, SequenceExtended DEF Faultless

-----------------------------------------------------------------------------
(* Chat Completions.                                                       *)

\* A text, reasoning or audio delta of a choice emits no error.
LEMMA ChatDelta ==
    ASSUME NEW s, NEW here, NEW kind \in {"reasoning", "text", "audio"}, NEW loud,
           Faultless(s.out)
    PROVE  Faultless(Chat!Delta(s, here, kind, loud).out)
<1>1. \A block : Chat!Emitted(kind, block).event # "error"
  BY DEF Chat!Emitted, Chat!ReasoningDelta, Chat!TextDelta, Chat!WholeText, Chat!ProviderContent
<1>2. \A d, out : Chat!Ok(d, out).out = out
  BY DEF Chat!Ok
<1> QED
  BY <1>1, <1>2, FaultlessExtended DEF Chat!Delta

\* A fragment of a tool call emits one delta of the call.
LEMMA ChatFragment ==
    ASSUME NEW s, NEW call
    PROVE  \E block, id, name :
              Chat!ToolFragment(s, call).out = Append(s.out, Chat!ToolCallDelta(block, id, name, call.fragment))
<1> DEFINE d == s.decoder
           i == Chat!Slot(d.tools, call.index)
           known == i \in DOMAIN d.tools
           old == IF known THEN d.tools[i] ELSE [index |-> call.index, block |-> d.next, id |-> None, name |-> None]
           slot == [old EXCEPT !.id = IF @ = None THEN call.id ELSE @,
                               !.name = IF @ = None THEN call.name ELSE @]
           after == [d EXCEPT !.tools = IF known THEN [@ EXCEPT ![i] = slot] ELSE Append(@, slot),
                              !.next = IF known THEN @ ELSE @ + 1]
           out == Append(s.out, Chat!ToolCallDelta(slot.block, slot.id, slot.name, call.fragment))
<1>1. Chat!ToolFragment(s, call) = Chat!Ok(after, out)
  BY DEF Chat!ToolFragment
<1>2. Chat!Ok(after, out).out = out
  <2> HIDE DEF after, out
  <2> QED
    BY DEF Chat!Ok
<1> QED
  <2> HIDE DEF after, slot
  <2> QED
    BY <1>1, <1>2

\* Nor do all fragments of a chunk emit an error.
LEMMA ChatFragments ==
    ASSUME NEW s, NEW calls, Chat!IsSequence(calls), Faultless(s.out)
    PROVE  Faultless(Chat!ToolFragments(s, calls).out)
<1>1. Len(calls) \in Nat
  BY LenProperties DEF Chat!IsSequence
<1>2. \E t : t = [i \in 0 .. Len(calls) |-> IF i = 0 THEN s ELSE Chat!ToolFragment(t[i - 1], calls[i])]
  <2>1. PICK t : Runs(t, "ToolFragments", calls, s, Len(calls))
    BY <1>1, Loop
  <2> QED
    BY <2>1 DEF Runs, Body
<1>3. PICK t : /\ t = [i \in 0 .. Len(calls) |-> IF i = 0 THEN s ELSE Chat!ToolFragment(t[i - 1], calls[i])]
               /\ Chat!ToolFragments(s, calls) = t[Len(calls)]
  BY <1>2 DEF Chat!ToolFragments
<1> DEFINE I == {i \in 0 .. Len(calls) : Faultless(t[i].out)}
<1>4. 0 \in I
  BY <1>1, <1>3
<1>5. ASSUME NEW i \in 1 .. Len(calls), i - 1 \in I
      PROVE  i \in I
  <2>1. t[i] = Chat!ToolFragment(t[i - 1], calls[i])
    BY <1>1, <1>3
  <2>3. PICK block, id, name : t[i].out = Append(t[i - 1].out, Chat!ToolCallDelta(block, id, name, calls[i].fragment))
    BY <2>1, ChatFragment
  <2>4. Chat!ToolCallDelta(block, id, name, calls[i].fragment).event # "error"
    BY DEF Chat!ToolCallDelta
  <2>5. i \in 0 .. Len(calls) /\ Faultless(t[i - 1].out)
    BY <1>1, <1>5
  <2> QED
    BY <2>3, <2>4, <2>5, FaultlessExtended
<1>6. \A i \in 0 .. Len(calls) : i \in I
  <2> HIDE DEF I
  <2> QED
    BY <1>1, <1>4, <1>5, UpTo
<1> QED
  BY <1>1, <1>3, <1>6

\* The end of a Chat stream emits no error.
LEMMA ChatFinishInto ==
    ASSUME NEW d, NEW out, Faultless(out)
    PROVE  Faultless(Chat!FinishInto(d, out).out)
<1>1. /\ \A stop : Faultless(<<Chat!End(stop)>>)
      /\ \A block : Faultless(<<Chat!ProviderContent(block)>>)
  BY FaultlessOne DEF Chat!End, Chat!ProviderContent
<1> QED
  BY <1>1, FaultlessEmpty, FaultlessJoined DEF Chat!FinishInto, Chat!Ok

\* A chunk of Chat Completions is decoded without an error event.
LEMMA ChatChunk ==
    ASSUME NEW d, NEW f, Chat!IsSequence(f.calls)
    PROVE  Faultless(Chat!DecodeChunk(d, f).out)
<1> DEFINE started == Chat!Ok([d EXCEPT !.started = TRUE], IF d.started THEN <<>> ELSE <<Chat!Start(f.id)>>)
           seen == [started EXCEPT !.decoder.details = @ \/ f.details, !.decoder.refusal = @ \/ f.refusal]
           thought == Chat!Delta(seen, f.reasoning \/ f.details, "reasoning", f.reasoning)
           said == Chat!Delta(thought, f.content, "text", TRUE)
           refused == Chat!Delta(said, f.refusal, "text", TRUE)
           listened == Chat!Delta(refused, f.audio, "audio", TRUE)
           called == Chat!ToolFragments(listened, f.calls)
<1>1. Faultless(started.out)
  BY FaultlessEmpty, FaultlessOne DEF Chat!Ok, Chat!Start
<1>2. Faultless(seen.out)
  BY <1>1 DEF Chat!Ok
<1>3. Faultless(thought.out)
  BY <1>2, ChatDelta
<1>4. Faultless(said.out)
  BY <1>3, ChatDelta
<1>5. Faultless(refused.out)
  BY <1>4, ChatDelta
<1>6. Faultless(listened.out)
  BY <1>5, ChatDelta
<1>7. Faultless(called.out)
  BY <1>6, ChatFragments
<1> DEFINE stopped == [called EXCEPT !.decoder.stop = IF f.finish = None THEN @ ELSE Chat!StopReason(f.finish)]
<1>8. stopped.out = called.out
  <2> HIDE DEF called
  <2> QED
    OBVIOUS
<1>9. Chat!DecodeChunk(d, f) = IF ~f.choice THEN started ELSE stopped
  BY DEF Chat!DecodeChunk
<1> QED
  <2> HIDE DEF started, called, stopped
  <2> QED
    BY <1>1, <1>7, <1>8, <1>9

\* OpenAiStreamDecoder: what a frame emits is a sequence of events without an error.
LEMMA ChatFaultless ==
    ASSUME NEW d
    PROVE  /\ \A f : Chat!IsFrame(f) => Faultless(Chat!DecodeFrame(d, f).out)
           /\ Faultless(Chat!Finish(d).out)
<1>1. ASSUME NEW f, Chat!IsFrame(f) PROVE Faultless(Chat!DecodeFrame(d, f).out)
  BY <1>1, FaultlessEmpty, ChatFinishInto, ChatChunk DEF Chat!IsFrame, Chat!DecodeFrame, Chat!Ok, Chat!Err
<1>2. Faultless(Chat!Finish(d).out)
  BY FaultlessEmpty, ChatFinishInto DEF Chat!Finish, Chat!Err
<1> QED
  BY <1>1, <1>2

-----------------------------------------------------------------------------
(* generateContent.                                                        *)

\* A part that ends the running text emits what it stands for.
LEMMA GeminiAlone ==
    ASSUME NEW s, NEW tool, NEW events, Clean(s), Faultless(events)
    PROVE  Clean(Gemini!Alone(s, tool, events))
<1> DEFINE d == [s.decoder EXCEPT !.text = None, !.reasoning = None, !.next = @ + 1, !.tool = @ \/ tool]
<1>1. Gemini!Alone(s, tool, events) = [s EXCEPT !.decoder = d, !.out = @ \o events]
  BY DEF Gemini!Alone
<1>2. Faultless(s.out \o events)
  BY FaultlessJoined DEF Clean, Result
<1> HIDE DEF d
<1>3. LET r == [s EXCEPT !.decoder = d, !.out = @ \o events]
      IN  Result(r) /\ r.out = s.out \o events
  BY DEF Clean, Result
<1> QED
  BY <1>1, <1>2, <1>3 DEF Clean

\* A part that goes on with the running text, or opens one.
LEMMA GeminiRunning ==
    ASSUME NEW s, NEW kind, NEW other, NEW part, Clean(s)
    PROVE  Clean(Gemini!Running(s, kind, other, part))
<1> DEFINE open == IF s.seen[kind] THEN None ELSE s.decoder[kind]
           block == IF open = None THEN s.decoder.next ELSE open
           d == [s.decoder EXCEPT ![other] = None,
                                  ![kind] = IF part.signed THEN None ELSE block,
                                  !.next = IF open = None THEN @ + 1 ELSE @]
           said == <<IF kind = "text" THEN Gemini!TextDelta(block) ELSE Gemini!ReasoningDelta(block)>>
           signed == IF part.signed THEN <<Gemini!Signature(block)>> ELSE <<>>
<1>1. Gemini!Running(s, kind, other, part)
      = [s EXCEPT !.decoder = d, !.seen[kind] = TRUE, !.out = @ \o said \o signed]
  BY Zenon DEF Gemini!Running
<1>2. Faultless(said) /\ Faultless(signed)
  BY FaultlessOne, FaultlessEmpty DEF Gemini!TextDelta, Gemini!WholeText, Gemini!ReasoningDelta, Gemini!Signature
<1> HIDE DEF d, said, signed
<1>3. Faultless((s.out \o said) \o signed)
  BY <1>2, FaultlessJoined DEF Clean, Result
<1>4. LET r == [s EXCEPT !.decoder = d, !.seen[kind] = TRUE, !.out = @ \o said \o signed]
      IN  Result(r) /\ r.out = (s.out \o said) \o signed
  BY DEF Clean, Result
<1> QED
  BY <1>1, <1>3, <1>4 DEF Clean

\* Each kind of part of a candidate keeps the events free of errors.
LEMMA GeminiPart ==
    ASSUME NEW s, NEW part, Clean(s), part.part \in {"native", "call", "thought", "text", "other"}
    PROVE  Clean(Gemini!TakePart(s, part))
<1>1. \A block : Faultless(<<Gemini!ProviderContent(block)>>)
  BY FaultlessOne DEF Gemini!ProviderContent
<1>2. \A block : Faultless(Gemini!CallEvents(part, block))
  <2> TAKE block
  <2>1. \A id, args : Faultless(<<Gemini!ToolCallDelta(block, id, part.name, args)>>)
    BY FaultlessOne DEF Gemini!ToolCallDelta
  <2>2. Faultless(<<Gemini!Signature(block)>>) /\ Faultless(<<Gemini!BlockEnd(block)>>)
    BY FaultlessOne DEF Gemini!Signature, Gemini!BlockEnd
  <2> QED
    BY <2>1, <2>2, FaultlessEmpty, FaultlessJoined DEF Gemini!CallEvents
<1> QED
  BY <1>1, <1>2, GeminiAlone, GeminiRunning DEF Gemini!TakePart

\* So do all parts of a candidate, in their order.
LEMMA GeminiEachPart ==
    ASSUME NEW s, NEW parts, Gemini!IsSequence(parts), Clean(s),
           \A i \in DOMAIN parts : parts[i].part \in {"native", "call", "thought", "text", "other"}
    PROVE  Clean(Gemini!TakeParts(s, parts))
<1>1. Len(parts) \in Nat /\ DOMAIN parts = 1 .. Len(parts)
  BY LenProperties DEF Gemini!IsSequence
<1>2. \E t : t = [i \in 0 .. Len(parts) |-> IF i = 0 THEN s ELSE Gemini!TakePart(t[i - 1], parts[i])]
  <2>1. PICK t : Runs(t, "TakeParts", parts, s, Len(parts))
    BY <1>1, Loop
  <2> QED
    BY <2>1 DEF Runs, Body
<1>3. PICK t : /\ t = [i \in 0 .. Len(parts) |-> IF i = 0 THEN s ELSE Gemini!TakePart(t[i - 1], parts[i])]
               /\ Gemini!TakeParts(s, parts) = t[Len(parts)]
  BY <1>2 DEF Gemini!TakeParts
<1> DEFINE I == {i \in 0 .. Len(parts) : Clean(t[i])}
<1>4. 0 \in I
  BY <1>1, <1>3
<1>5. ASSUME NEW i \in 1 .. Len(parts), i - 1 \in I
      PROVE  i \in I
  <2>1. t[i] = Gemini!TakePart(t[i - 1], parts[i])
    BY <1>1, <1>3
  <2> QED
    BY <1>1, <1>5, <2>1, GeminiPart
<1>6. \A i \in 0 .. Len(parts) : i \in I
  <2> HIDE DEF I
  <2> QED
    BY <1>1, <1>4, <1>5, UpTo
<1> QED
  BY <1>1, <1>3, <1>6

\* A generateContent response is decoded without an error event.
LEMMA GeminiGenerate ==
    ASSUME NEW d, NEW f, Gemini!IsFrame(f), f.type = "generate"
    PROVE  Faultless(Gemini!DecodeGenerate(d, f).out)
<1> DEFINE opened == [d EXCEPT !.started = TRUE,
                               !.blocked = @ \/ f.blocked,
                               !.stop = IF f.blocked THEN "refusal" ELSE @]
           s == [decoder |-> opened, out |-> IF d.started THEN <<>> ELSE <<Gemini!Start(None)>>, error |-> None,
                 seen |-> [text |-> FALSE, reasoning |-> FALSE]]
           taken == Gemini!TakeParts(s, f.parts)
           r == IF f.candidate THEN taken ELSE s
           after == [r.decoder EXCEPT !.stop = IF f.candidate /\ f.finish # None /\ ~opened.blocked
                                                 THEN Gemini!StopReason(f.finish) ELSE @]
<1>1. Gemini!DecodeGenerate(d, f) = Gemini!Ok(after, r.out)
  BY DEF Gemini!DecodeGenerate
<1>2. Clean(s)
  <2>1. Faultless(<<>>) /\ Faultless(<<Gemini!Start(None)>>)
    BY FaultlessEmpty, FaultlessOne DEF Gemini!Start
  <2> HIDE DEF opened
  <2> QED
    BY <2>1 DEF Clean, Result
<1> HIDE DEF s
<1>3. f.candidate => Clean(taken)
  BY <1>2, GeminiEachPart DEF Gemini!IsFrame
<1>4. Faultless(r.out)
  <2> HIDE DEF taken
  <2> QED
    BY <1>2, <1>3 DEF Clean, Result
<1> HIDE DEF after, r
<1> QED
  BY <1>1, <1>4 DEF Gemini!Ok

\* GeminiStreamDecoder: what a frame emits is a sequence of events without an error.
LEMMA GeminiFaultless ==
    ASSUME NEW d
    PROVE  /\ \A f : Gemini!IsFrame(f) => Faultless(Gemini!DecodeFrame(d, f).out)
           /\ Faultless(Gemini!Finish(d).out)
<1>1. ASSUME NEW f, Gemini!IsFrame(f) PROVE Faultless(Gemini!DecodeFrame(d, f).out)
  <2>1. CASE f.type = "generate"
    <3>1. Gemini!DecodeFrame(d, f) = Gemini!DecodeGenerate(d, f)
      BY <2>1 DEF Gemini!DecodeFrame
    <3> QED
      BY <1>1, <2>1, <3>1, GeminiGenerate
  <2>2. CASE f.type # "generate"
    BY <1>1, <2>2, FaultlessEmpty DEF Gemini!IsFrame, Gemini!DecodeFrame, Gemini!Ok, Gemini!Err
  <2> QED
    BY <2>1, <2>2
<1>2. Faultless(Gemini!Finish(d).out)
  <2>1. \A stop : Faultless(<<Gemini!End(stop)>>)
    BY FaultlessOne DEF Gemini!End
  <2> QED
    BY <2>1, FaultlessEmpty DEF Gemini!Finish, Gemini!Ok, Gemini!Err
<1> QED
  BY <1>1, <1>2

-----------------------------------------------------------------------------
(* Responses.                                                              *)

\* The streamed calls stay a sequence.
Streams(d) == "calls" \in DOMAIN d /\ IsSequence(d.calls)

Answer(s) == Clean(s) /\ Streams(s.decoder)

\* Changing an element leaves a sequence of the same length.
LEMMA SequenceChanged ==
    ASSUME NEW s, NEW i, NEW e, IsSequence(s)
    PROVE  IsSequence([s EXCEPT ![i] = e]) /\ Len([s EXCEPT ![i] = e]) = Len(s)
<1> DEFINE t == [s EXCEPT ![i] = e]
<1>1. Len(s) \in Nat /\ DOMAIN s = 1 .. Len(s)
  BY SequenceFacts
<1>2. t = [j \in 1 .. Len(s) |-> t[j]]
  BY <1>1
<1> QED
  BY <1>1, <1>2, SequenceBuilt

\* Emitting events keeps the decoder and the error.
LEMMA ResponsesEmit ==
    ASSUME NEW s, NEW events, Answer(s), Faultless(events)
    PROVE  /\ Answer(Responses!Emit(s, events))
           /\ Responses!Emit(s, events).decoder = s.decoder /\ Responses!Emit(s, events).error = s.error
<1>1. LET r == [s EXCEPT !.out = @ \o events]
      IN  Result(r) /\ r.out = s.out \o events /\ r.decoder = s.decoder /\ r.error = s.error
  BY DEF Answer, Clean, Result
<1> QED
  BY <1>1, FaultlessJoined DEF Answer, Clean, Responses!Emit

\* A failed step emits nothing.
LEMMA ResponsesErr ==
    ASSUME NEW s, NEW error, Answer(s)
    PROVE  Answer(Responses!Err(s, error))
BY FaultlessEmpty DEF Answer, Clean, Result, Responses!Err

\* Nor does a check that fails.
LEMMA ResponsesRequire ==
    ASSUME NEW s, NEW holds, NEW error, Answer(s)
    PROVE  Answer(Responses!Require(s, holds, error))
BY ResponsesErr DEF Responses!Require

\* The events a Responses decoder emits.
LEMMA ResponsesEvents ==
    /\ \A id : Faultless(<<Responses!Start(id)>>)
    /\ \A index : /\ Faultless(<<Responses!TextDelta(index)>>) /\ Faultless(<<Responses!ReasoningDelta(index)>>)
                  /\ Faultless(<<Responses!Phase(index)>>) /\ Faultless(<<Responses!ProviderContent(index)>>)
                  /\ Faultless(<<Responses!BlockEnd(index)>>)
    /\ \A index, id, name, text : Faultless(<<Responses!ToolCallDelta(index, id, name, text)>>)
    /\ \A index, call : Faultless(<<Responses!Native(index, call)>>)
    /\ \A stop : Faultless(<<Responses!End(stop)>>)
    /\ Faultless(<<>>)
BY FaultlessOne, FaultlessEmpty
   DEF Responses!Start, Responses!TextDelta, Responses!WholeText, Responses!ReasoningDelta, Responses!Phase,
       Responses!ProviderContent, Responses!BlockEnd, Responses!ToolCallDelta, Responses!Native, Responses!End

\* A change of the decoder that leaves the calls alone, and one that does not.
LEMMA ResponsesNoted ==
    ASSUME NEW s, NEW r, Answer(s), Result(r), r.out = s.out,
           "calls" \in DOMAIN r.decoder, r.decoder.calls = s.decoder.calls
    PROVE  Answer(r)
BY DEF Answer, Clean, Streams

\* A step that changes only the calls.
LEMMA ResponsesCalled ==
    ASSUME NEW s, NEW r, NEW calls, Answer(s), Result(r), r.out = s.out,
           "calls" \in DOMAIN r.decoder, r.decoder.calls = calls, IsSequence(calls)
    PROVE  Answer(r)
BY DEF Answer, Clean, Streams

\* A snapshot of the arguments adds the rest of them or fails.
LEMMA ResponsesFinalizeArguments ==
    ASSUME NEW s, NEW i, NEW text, Answer(s)
    PROVE  Answer(Responses!FinalizeArguments(s, i, text))
<1> DEFINE call == s.decoder.calls[i]
           rest == SubSeq(text, Len(call.args) + 1, Len(text))
           delta == IF rest = <<>> THEN <<>> ELSE <<Responses!ToolCallDelta(call.index, call.id, call.name, rest)>>
           final == [s EXCEPT !.decoder.calls[i].args = text]
           agree == Responses!Parses(call.args) /\ Responses!Value(call.args) = Responses!Value(text)
<1>1. Responses!FinalizeArguments(s, i, text) =
        IF ~Responses!Parses(text) THEN Responses!Err(s, "invalid")
        ELSE IF call.args \o rest = text THEN Responses!Emit(final, delta)
        ELSE Responses!Require(final, agree, "invalid")
  BY DEF Responses!FinalizeArguments
<1>2. Faultless(delta)
  BY ResponsesEvents
<1>3. Answer(final)
  <2>1. /\ Result(final) /\ final.out = s.out /\ "calls" \in DOMAIN final.decoder
        /\ final.decoder.calls = [s.decoder.calls EXCEPT ![i] = [s.decoder.calls[i] EXCEPT !.args = text]]
    BY DEF Answer, Clean, Result, Streams
  <2>2. \A e : IsSequence([s.decoder.calls EXCEPT ![i] = e])
    BY SequenceChanged DEF Answer, Streams
  <2> HIDE DEF final
  <2> QED
    BY <2>1, <2>2, ResponsesCalled
<1> HIDE DEF final, delta, agree
<1> QED
  BY <1>1, <1>2, <1>3, ResponsesErr, ResponsesEmit, ResponsesRequire

\* A native item is emitted once, as provider content.
LEMMA ResponsesEmitNative ==
    ASSUME NEW s, NEW index, NEW item, Answer(s), Responses!IsItem(item)
    PROVE  Answer(Responses!EmitNative(s, index, item))
<1> DEFINE new == index \notin s.decoder.native
           kept == [s EXCEPT !.decoder.native = @ \cup {index}]
           asked == [s EXCEPT !.decoder.action = @ \/ s.decoder.official]
           both == [asked EXCEPT !.decoder.native = @ \cup {index}]
<1>1. Answer(kept) /\ Answer(asked)
  <2>1. /\ Result(kept) /\ kept.out = s.out /\ "calls" \in DOMAIN kept.decoder
        /\ kept.decoder.calls = s.decoder.calls
    BY DEF Answer, Clean, Result, Streams
  <2>2. /\ Result(asked) /\ asked.out = s.out /\ "calls" \in DOMAIN asked.decoder
        /\ asked.decoder.calls = s.decoder.calls
    BY DEF Answer, Clean, Result, Streams
  <2> HIDE DEF kept, asked
  <2> QED
    BY <2>1, <2>2, ResponsesNoted
<1>2. Answer(both)
  <2> HIDE DEF asked
  <2>1. /\ Result(both) /\ both.out = asked.out /\ "calls" \in DOMAIN both.decoder
        /\ both.decoder.calls = asked.decoder.calls
    BY <1>1 DEF Answer, Clean, Result, Streams
  <2> HIDE DEF both
  <2> QED
    BY <1>1, <2>1, ResponsesNoted
<1>3. Responses!EmitNative(s, index, item) =
        CASE item.type = "message" -> IF item.phase /\ new THEN Responses!Emit(kept, <<Responses!Phase(index)>>) ELSE s
          [] item.type = "approval" ->
                IF new THEN Responses!Emit(both, <<Responses!ProviderContent(index)>>) ELSE asked
          [] item.type \in {"function_call", "computer_call"} -> s
  BY DEF Responses!EmitNative
<1> HIDE DEF kept, asked, both
<1>4. /\ Answer(Responses!Emit(kept, <<Responses!Phase(index)>>))
      /\ Answer(Responses!Emit(both, <<Responses!ProviderContent(index)>>))
  BY <1>1, <1>2, ResponsesEmit, ResponsesEvents
<1> QED
  BY <1>1, <1>3, <1>4 DEF Responses!IsItem

\* An item that is announced.
LEMMA ResponsesItemAdded ==
    ASSUME NEW s, NEW f, Answer(s)
    PROVE  Answer(Responses!ItemAdded(s, f))
<1> DEFINE item == f.item
           seen == [s EXCEPT !.decoder.refusal = @ \/ Responses!HasRefusal(item)]
           entry == [index |-> f.index, id |-> item.call, name |-> item.name, args |-> <<>>]
           computer == [seen EXCEPT !.decoder.computer = TRUE,
                                    !.decoder.added = Responses!With(@, f.index, [id |-> item.id, call |-> item.call])]
           called == [seen EXCEPT !.decoder.tool = TRUE, !.decoder.calls = Append(@, entry)]
<1>1. Answer(seen)
  <2>1. /\ Result(seen) /\ seen.out = s.out /\ "calls" \in DOMAIN seen.decoder
        /\ seen.decoder.calls = s.decoder.calls
    BY DEF Answer, Clean, Result, Streams
  <2> HIDE DEF seen
  <2> QED
    BY <2>1, ResponsesNoted
<1>2. Responses!ItemAdded(s, f) =
        CASE item.type = "computer_call" ->
                Responses!Require(computer, f.index \notin DOMAIN s.decoder.added, "invalid")
          [] item.type = "function_call" ->
                Responses!Emit(called, <<Responses!ToolCallDelta(f.index, item.call, item.name, <<>>)>>)
          [] OTHER -> seen
  BY DEF Responses!ItemAdded
<1> HIDE DEF seen
<1>3. Answer(computer)
  <2>1. /\ Result(computer) /\ computer.out = seen.out /\ "calls" \in DOMAIN computer.decoder
        /\ computer.decoder.calls = seen.decoder.calls
    BY <1>1 DEF Answer, Clean, Result, Streams
  <2> HIDE DEF computer
  <2> QED
    BY <1>1, <2>1, ResponsesNoted
<1>4. Answer(called)
  <2> HIDE DEF entry
  <2>1. /\ Result(called) /\ called.out = seen.out /\ "calls" \in DOMAIN called.decoder
        /\ called.decoder.calls = Append(seen.decoder.calls, entry)
    BY <1>1 DEF Answer, Clean, Result, Streams
  <2>2. IsSequence(Append(seen.decoder.calls, entry))
    BY <1>1, SequenceExtended DEF Answer, Streams
  <2> HIDE DEF called
  <2> QED
    BY <1>1, <2>1, <2>2, ResponsesCalled
<1> HIDE DEF computer, called
<1> QED
  BY <1>1, <1>2, <1>3, <1>4, ResponsesRequire, ResponsesEmit, ResponsesEvents

\* A fragment of the arguments of a call.
LEMMA ResponsesArgumentsDelta ==
    ASSUME NEW s, NEW f, Answer(s)
    PROVE  Answer(Responses!ArgumentsDelta(s, f))
<1> DEFINE i == Responses!Slot(s.decoder.calls, f.index)
           call == s.decoder.calls[i]
           changed == [call EXCEPT !.args = @ \o f.text]
           grown == [s EXCEPT !.decoder.calls[i].args = @ \o f.text]
<1>1. Responses!ArgumentsDelta(s, f) =
        IF i = 0 THEN Responses!Err(s, "invalid")
        ELSE Responses!Emit(grown, <<Responses!ToolCallDelta(f.index, call.id, call.name, f.text)>>)
  BY DEF Responses!ArgumentsDelta
<1> HIDE DEF i
<1>2. Answer(grown)
  <2>1. /\ Result(grown) /\ grown.out = s.out /\ "calls" \in DOMAIN grown.decoder
        /\ grown.decoder.calls = [s.decoder.calls EXCEPT ![i] = changed]
    BY DEF Answer, Clean, Result, Streams
  <2>2. IsSequence([s.decoder.calls EXCEPT ![i] = changed])
    BY SequenceChanged DEF Answer, Streams
  <2> HIDE DEF grown, changed
  <2> QED
    BY <2>1, <2>2, ResponsesCalled
<1> HIDE DEF grown
<1> QED
  BY <1>1, <1>2, ResponsesErr, ResponsesEmit, ResponsesEvents

\* The full arguments of a call.
LEMMA ResponsesArgumentsDone ==
    ASSUME NEW s, NEW f, Answer(s)
    PROVE  Answer(Responses!ArgumentsDone(s, f))
BY ResponsesErr, ResponsesFinalizeArguments DEF Responses!ArgumentsDone

\* An item that is complete.
LEMMA ResponsesItemDone ==
    ASSUME NEW s, NEW f, Answer(s), Responses!IsItem(f.item)
    PROVE  Answer(Responses!ItemDone(s, f))
<1> DEFINE item == f.item
           i == Responses!Slot(s.decoder.calls, f.index)
           Same(r) == Responses!Require(r, Responses!SameCall(item, r.decoder.calls[i]), "invalid")
           FinalCall(r) ==
               IF item.type # "function_call" THEN r
               ELSE IF i = 0 THEN Responses!Err(r, "invalid")
               ELSE IF Same(r).error # None THEN Same(r)
               ELSE Responses!FinalizeArguments(Same(r), i, item.args)
           SameComputer(r) ==
               Responses!Require(r, f.index \in DOMAIN r.decoder.added =>
                              /\ item.type = "computer_call"
                              /\ [id |-> item.id, call |-> item.call] = r.decoder.added[f.index], "invalid")
           noted(r) == [r EXCEPT !.decoder.computer = TRUE,
                                 !.decoder.completed = Responses!With(@, f.index, item)]
           NoteComputer(r) ==
               IF item.type # "computer_call" THEN r
               ELSE Responses!Require(noted(r), f.index \notin DOMAIN r.decoder.completed, "invalid")
           refused(r) == [r EXCEPT !.decoder.refusal = @ \/ Responses!HasRefusal(item)]
           Close(r) == Responses!EmitNative(Responses!Emit(refused(r), <<Responses!BlockEnd(f.index)>>), f.index, item)
           a == FinalCall(s)
           b == IF a.error # None THEN a ELSE SameComputer(a)
           c == IF b.error # None THEN b ELSE NoteComputer(b)
<1>1. Responses!ItemDone(s, f) = IF c.error # None THEN c ELSE Close(c)
  BY DEF Responses!ItemDone, Responses!Then
<1>2. ASSUME NEW r, Answer(r) PROVE Answer(FinalCall(r))
  <2>1. Answer(Same(r))
    BY <1>2, ResponsesRequire
  <2> HIDE DEF Same
  <2> QED
    BY <1>2, <2>1, ResponsesErr, ResponsesFinalizeArguments
<1>3. ASSUME NEW r, Answer(r) PROVE Answer(SameComputer(r))
  BY <1>3, ResponsesRequire
<1>4. ASSUME NEW r, Answer(r) PROVE Answer(NoteComputer(r))
  <2>1. /\ Result(noted(r)) /\ noted(r).out = r.out /\ "calls" \in DOMAIN noted(r).decoder
        /\ noted(r).decoder.calls = r.decoder.calls
    BY <1>4 DEF Answer, Clean, Result, Streams
  <2> HIDE DEF noted
  <2>2. Answer(noted(r))
    BY <1>4, <2>1, ResponsesNoted
  <2> QED
    BY <1>4, <2>2, ResponsesRequire
<1>5. ASSUME NEW r, Answer(r) PROVE Answer(Close(r))
  <2>1. /\ Result(refused(r)) /\ refused(r).out = r.out /\ "calls" \in DOMAIN refused(r).decoder
        /\ refused(r).decoder.calls = r.decoder.calls
    BY <1>5 DEF Answer, Clean, Result, Streams
  <2> HIDE DEF refused
  <2>2. Answer(refused(r))
    BY <1>5, <2>1, ResponsesNoted
  <2>3. Answer(Responses!Emit(refused(r), <<Responses!BlockEnd(f.index)>>))
    BY <2>2, ResponsesEmit, ResponsesEvents
  <2> QED
    BY <2>3, ResponsesEmitNative
<1> HIDE DEF FinalCall, SameComputer, NoteComputer, Close
<1>6. Answer(a)
  BY <1>2
<1> HIDE DEF a
<1>7. Answer(b)
  BY <1>3, <1>6
<1> HIDE DEF b
<1>8. Answer(c)
  BY <1>4, <1>7
<1> HIDE DEF c
<1> QED
  BY <1>1, <1>5, <1>8

\* The calls of the final response, matched with those that were streamed.
LEMMA ResponsesFinalizeCalls ==
    ASSUME NEW s, NEW items, Answer(s)
    PROVE  Answer(Responses!FinalizeCalls(s, items))
<1> DEFINE n == Len(s.decoder.calls)
<1>1. n \in Nat
  BY SequenceFacts DEF Answer, Streams
<1> HIDE DEF n
<1>2. \E t : t = [i \in 0 .. n |-> IF i = 0 THEN s ELSE Responses!FinalizeCall(t[i - 1], i, items)]
  <2>1. PICK t : Runs(t, "FinalizeCalls", items, s, n)
    BY <1>1, Loop
  <2> QED
    BY <2>1 DEF Runs, Body
<1>3. PICK t : /\ t = [i \in 0 .. n |-> IF i = 0 THEN s ELSE Responses!FinalizeCall(t[i - 1], i, items)]
               /\ Responses!FinalizeCalls(s, items) = t[n]
  BY <1>2 DEF Responses!FinalizeCalls, n
<1> DEFINE I == {i \in 0 .. n : Answer(t[i])}
<1>4. 0 \in I
  BY <1>1, <1>3
<1>5. ASSUME NEW i \in 1 .. n, i - 1 \in I
      PROVE  i \in I
  <2>1. t[i] = Responses!FinalizeCall(t[i - 1], i, items)
    BY <1>1, <1>3
  <2> QED
    BY <1>1, <1>5, <2>1, ResponsesFinalizeArguments DEF Responses!FinalizeCall
<1>6. \A i \in 0 .. n : i \in I
  <2> HIDE DEF I
  <2> QED
    BY <1>1, <1>4, <1>5, UpTo
<1> QED
  BY <1>1, <1>3, <1>6

\* An item of the final response is emitted or was before.
LEMMA ResponsesEmitItem ==
    ASSUME NEW s, NEW index, NEW item, NEW completed, Answer(s), Responses!IsItem(item)
    PROVE  Answer(Responses!EmitItem(s, index, item, completed))
<1> DEFINE tool == [s EXCEPT !.decoder.tool = TRUE]
<1>1. /\ Result(tool) /\ tool.out = s.out /\ "calls" \in DOMAIN tool.decoder
      /\ tool.decoder.calls = s.decoder.calls
  BY DEF Answer, Clean, Result, Streams
<1>2. Responses!EmitItem(s, index, item, completed) =
        IF item.type # "computer_call" THEN Responses!EmitNative(s, index, item)
        ELSE IF completed THEN Responses!Emit(tool, <<Responses!Native(index, item)>>)
        ELSE Responses!Emit(s, <<Responses!ProviderContent(index)>>)
  BY DEF Responses!EmitItem
<1> HIDE DEF tool
<1>3. Answer(tool)
  BY <1>1, ResponsesNoted
<1>4. Answer(Responses!Emit(tool, <<Responses!Native(index, item)>>))
  BY <1>3, ResponsesEmit, ResponsesEvents
<1>5. Answer(Responses!Emit(s, <<Responses!ProviderContent(index)>>))
  BY ResponsesEmit, ResponsesEvents
<1> QED
  BY <1>2, <1>4, <1>5, ResponsesEmitNative

\* All items of the final response, in their order.
LEMMA ResponsesEmitItems ==
    ASSUME NEW s, NEW items, NEW completed, Answer(s), Responses!IsSequence(items),
           \A k \in DOMAIN items : Responses!IsItem(items[k])
    PROVE  Answer(Responses!EmitItems(s, items, completed))
<1>1. Len(items) \in Nat /\ DOMAIN items = 1 .. Len(items)
  BY LenProperties DEF Responses!IsSequence
<1>2. \E t : t = [k \in 0 .. Len(items) |->
                     IF k = 0 THEN s ELSE Responses!EmitItem(t[k - 1], k - 1, items[k], completed)]
  <2>1. PICK t : Runs(t, "EmitItems", [items |-> items, completed |-> completed], s, Len(items))
    BY <1>1, Loop
  <2> QED
    BY <2>1 DEF Runs, Body
<1>3. PICK t : /\ t = [k \in 0 .. Len(items) |->
                          IF k = 0 THEN s ELSE Responses!EmitItem(t[k - 1], k - 1, items[k], completed)]
               /\ Responses!EmitItems(s, items, completed) = t[Len(items)]
  BY <1>2 DEF Responses!EmitItems
<1> DEFINE I == {i \in 0 .. Len(items) : Answer(t[i])}
<1>4. 0 \in I
  BY <1>1, <1>3
<1>5. ASSUME NEW i \in 1 .. Len(items), i - 1 \in I
      PROVE  i \in I
  <2>1. t[i] = Responses!EmitItem(t[i - 1], i - 1, items[i], completed)
    BY <1>1, <1>3
  <2> QED
    BY <1>1, <1>5, <2>1, ResponsesEmitItem
<1>6. \A i \in 0 .. Len(items) : i \in I
  <2> HIDE DEF I
  <2> QED
    BY <1>1, <1>4, <1>5, UpTo
<1> QED
  BY <1>1, <1>3, <1>6

\* The output of the final response.
LEMMA ResponsesTakeOutput ==
    ASSUME NEW s, NEW f, Answer(s), Responses!IsSequence(f.response.output),
           \A k \in DOMAIN f.response.output : Responses!IsItem(f.response.output[k])
    PROVE  Answer(Responses!TakeOutput(s, f))
<1> DEFINE items == f.response.output
           computer == \/ \E k \in DOMAIN items : items[k].type = "computer_call"
                       \/ f.type = "completed" /\ s.decoder.computer
           completed == f.type = "completed" /\ f.response.status = "completed"
           same(r) == computer => /\ f.response.id # None /\ r.decoder.id = f.response.id
                                  /\ f.response.status = f.type
           a == Responses!FinalizeCalls(s, items)
           b == IF a.error # None THEN a ELSE Responses!Require(a, same(a), "invalid")
           c == IF b.error # None THEN b
                ELSE Responses!Require(b, Responses!ComputerCallsValid(b.decoder, items, completed), "invalid")
<1>1. Responses!TakeOutput(s, f) = IF c.error # None THEN c ELSE Responses!EmitItems(c, items, completed)
  BY DEF Responses!TakeOutput, Responses!Then
<1>2. Answer(a)
  BY ResponsesFinalizeCalls
<1> HIDE DEF a, same, completed
<1>3. Answer(b)
  BY <1>2, ResponsesRequire
<1> HIDE DEF b
<1>4. Answer(c)
  BY <1>3, ResponsesRequire
<1> HIDE DEF c
<1> QED
  BY <1>1, <1>4, ResponsesEmitItems

\* The end of a Responses stream emits no error event.
LEMMA ResponsesFinishInto ==
    ASSUME NEW s, Answer(s)
    PROVE  Answer(Responses!FinishInto(s))
<1> DEFINE done == [s EXCEPT !.decoder.done = TRUE]
<1>1. /\ Result(done) /\ done.out = s.out /\ "calls" \in DOMAIN done.decoder
      /\ done.decoder.calls = s.decoder.calls
  BY DEF Answer, Clean, Result, Streams
<1>2. PICK stop : Responses!FinishInto(s) = IF s.decoder.done THEN s ELSE Responses!Emit(done, <<Responses!End(stop)>>)
  BY DEF Responses!FinishInto
<1> HIDE DEF done
<1>3. Answer(done)
  BY <1>1, ResponsesNoted
<1>4. Answer(Responses!Emit(done, <<Responses!End(stop)>>))
  BY <1>3, ResponsesEmit, ResponsesEvents
<1> QED
  BY <1>2, <1>4

\* The terminal frame of a response.
LEMMA ResponsesTerminal ==
    ASSUME NEW s, NEW f, Answer(s),
           f.response.output # None =>
               /\ Responses!IsSequence(f.response.output)
               /\ \A k \in DOMAIN f.response.output : Responses!IsItem(f.response.output[k])
    PROVE  Answer(Responses!TerminalFrame(s, f))
<1> DEFINE response == f.response
           d == s.decoder
           refuses == /\ response.output # None
                      /\ \E k \in DOMAIN response.output : Responses!HasRefusal(response.output[k])
           closed(r) == [r EXCEPT !.decoder.response = [store |-> response.store],
                                  !.decoder.refusal = @ \/ refuses,
                                  !.decoder.stop = Responses!StopOf(r.decoder, response)]
           Close(r) == Responses!FinishInto(closed(r))
           taken == Responses!TakeOutput(s, f)
<1>1. Responses!TerminalFrame(s, f) =
        IF d.plan /\ (f.type = "incomplete" \/ response.status # "completed") THEN Responses!Err(s, "provider")
        ELSE IF response.output = None
          THEN IF f.type = "completed" /\ d.computer THEN Responses!Err(s, "invalid") ELSE Close(s)
        ELSE IF taken.error # None THEN taken ELSE Close(taken)
  BY DEF Responses!TerminalFrame, Responses!Then
<1>2. ASSUME NEW r, Answer(r) PROVE Answer(Close(r))
  <2> HIDE DEF refuses
  <2>1. /\ Result(closed(r)) /\ closed(r).out = r.out /\ "calls" \in DOMAIN closed(r).decoder
        /\ closed(r).decoder.calls = r.decoder.calls
    BY <1>2 DEF Answer, Clean, Result, Streams
  <2> HIDE DEF closed
  <2>2. Answer(closed(r))
    BY <1>2, <2>1, ResponsesNoted
  <2> QED
    BY <2>2, ResponsesFinishInto
<1> HIDE DEF Close
<1>3. response.output # None => Answer(taken)
  BY ResponsesTakeOutput
<1> HIDE DEF taken
<1> QED
  BY <1>1, <1>2, <1>3, ResponsesErr

\* ResponsesStreamDecoder: the calls of a stream stay a sequence, and what a frame
\* emits is a sequence of events without an error.
LEMMA ResponsesFaultless ==
    ASSUME NEW d, Streams(d)
    PROVE  /\ \A f : Responses!IsFrame(f) => Answer(Responses!DecodeFrame(d, f))
           /\ Answer(Responses!Finish(d))
<1> DEFINE s == Responses!Ok(d, <<>>)
<1>1. Answer(s)
  BY FaultlessEmpty DEF Answer, Clean, Result, Responses!Ok
<1>2. ASSUME NEW f, Responses!IsFrame(f)
      PROVE  Answer(Responses!DecodeFrame(d, f))
  <2> DEFINE created == [s EXCEPT !.decoder.started = TRUE, !.decoder.id = f.id]
             refused == [s EXCEPT !.decoder.refusal = TRUE]
  <2> HIDE DEF s
  <2>1. Answer(created)
    <3>1. /\ Result(created) /\ created.out = s.out /\ "calls" \in DOMAIN created.decoder
          /\ created.decoder.calls = s.decoder.calls
      BY <1>1 DEF Answer, Clean, Result, Streams
    <3> HIDE DEF created
    <3> QED
      BY <1>1, <3>1, ResponsesNoted
  <2>2. Answer(refused)
    <3>1. /\ Result(refused) /\ refused.out = s.out /\ "calls" \in DOMAIN refused.decoder
          /\ refused.decoder.calls = s.decoder.calls
      BY <1>1 DEF Answer, Clean, Result, Streams
    <3> HIDE DEF refused
    <3> QED
      BY <1>1, <3>1, ResponsesNoted
  <2>3. /\ Answer(Responses!Emit(created, <<Responses!Start(f.id)>>))
        /\ Answer(Responses!Emit(s, <<Responses!TextDelta(f.index)>>))
        /\ Answer(Responses!Emit(s, <<Responses!ReasoningDelta(f.index)>>))
    BY <1>1, <2>1, ResponsesEmit, ResponsesEvents
  <2>4. CASE f.type \in {"completed", "incomplete"}
    <3>1. Responses!DecodeFrame(d, f) = IF d.done THEN s ELSE Responses!TerminalFrame(s, f)
      BY <2>4 DEF Responses!DecodeFrame, s
    <3> QED
      BY <1>1, <1>2, <2>4, <3>1, ResponsesTerminal DEF Responses!IsFrame
  <2>5. CASE f.type \in {"added", "arguments.delta", "arguments.done", "item.done"}
    <3>1. Responses!DecodeFrame(d, f) =
            IF d.done THEN s
            ELSE IF f.type = "added" THEN Responses!ItemAdded(s, f)
            ELSE IF f.type = "arguments.delta" THEN Responses!ArgumentsDelta(s, f)
            ELSE IF f.type = "arguments.done" THEN Responses!ArgumentsDone(s, f)
            ELSE Responses!ItemDone(s, f)
      BY <2>5 DEF Responses!DecodeFrame, s
    <3> QED
      BY <1>1, <1>2, <2>5, <3>1, ResponsesItemAdded, ResponsesArgumentsDelta, ResponsesArgumentsDone, ResponsesItemDone
         DEF Responses!IsFrame
  <2>6. CASE f.type \in {"done", "blank", "garbled", "failed", "created", "text", "reasoning", "refusal"}
    <3>1. Responses!DecodeFrame(d, f) =
            IF d.done \/ f.type = "blank" THEN s
            ELSE IF f.type = "done" THEN Responses!Sentinel(s)
            ELSE IF f.type = "garbled" THEN Responses!Err(s, "invalid")
            ELSE IF f.type = "failed" THEN Responses!Err(s, "provider")
            ELSE IF f.type = "created" THEN IF d.started THEN s ELSE Responses!Emit(created, <<Responses!Start(f.id)>>)
            ELSE IF f.type = "text" THEN Responses!Emit(s, <<Responses!TextDelta(f.index)>>)
            ELSE IF f.type = "reasoning" THEN Responses!Emit(s, <<Responses!ReasoningDelta(f.index)>>)
            ELSE refused
      BY <2>6 DEF Responses!DecodeFrame, s
    <3>2. Answer(Responses!Sentinel(s))
      BY <1>1, ResponsesErr, ResponsesFinishInto DEF Responses!Sentinel
    <3> HIDE DEF created, refused
    <3> QED
      BY <1>1, <2>2, <2>3, <3>1, <3>2, ResponsesErr
  <2> QED
    BY <1>2, <2>4, <2>5, <2>6 DEF Responses!IsFrame
<1>3. Answer(Responses!Finish(d))
  BY <1>1, ResponsesErr, ResponsesFinishInto DEF Responses!Finish
<1> QED
  BY <1>2, <1>3

-----------------------------------------------------------------------------
(* Interactions.                                                           *)

Started(begun) == DOMAIN begun = {"step", "fragments", "stopped"} /\ Interactions!IsStep(begun.step)

\* The steps are those of finitely many indices, and their parts stay sequences.
Collects(d) ==
    /\ "steps" \in DOMAIN d
    /\ \E m \in Nat : \A i \in DOMAIN d.steps : i \in 0 .. m
    /\ \A i \in DOMAIN d.steps : Started(d.steps[i])

Gathered(r) == Collects(r.decoder) /\ Faultless(r.out)

\* A sequence is one for the decoder and for the proof.
LEMMA InteractionsSequence ==
    ASSUME NEW s
    PROVE  Interactions!IsSequence(s) <=> IsSequence(s)
BY DEF Interactions!IsSequence, IsSequence

\* A step that leaves the decoder alone or refuses a frame.
LEMMA InteractionsResult ==
    ASSUME NEW d, NEW error, Collects(d)
    PROVE  Gathered(Interactions!Ok(d, <<>>)) /\ Gathered(Interactions!Err(d, error)) /\ Gathered(Interactions!Interrupted(d))
BY FaultlessEmpty DEF Gathered, Interactions!Ok, Interactions!Err, Interactions!Interrupted

\* A text delta goes on with the last text of a step or opens one.
LEMMA InteractionsAppendText ==
    ASSUME NEW parts, IsSequence(parts)
    PROVE  IsSequence(Interactions!AppendText(parts))
<1>1. parts # <<>> => Len(parts) - 1 \in Nat /\ Len(parts) \in Nat
  <2>1. parts \in Seq(ToSet(parts))
    BY SequenceFacts
  <2> QED
    BY <2>1, EmptySeq
<1>2. parts # <<>> => IsSequence([parts EXCEPT ![Len(parts)] = @ + 1])
  <2> HAVE parts # <<>>
  <2> DEFINE last == parts[Len(parts)] + 1
             S == ToSet(parts) \cup {last}
  <2>1. parts \in Seq(S) /\ last \in S
    BY SequenceFacts
  <2>2. Len(parts) \in 1 .. Len(parts)
    BY <1>1, <2>1, EmptySeq
  <2> HIDE DEF last, S
  <2>3. [parts EXCEPT ![Len(parts)] = last] \in Seq(S)
    BY <2>1, <2>2, ExceptSeq
  <2> QED
    BY <2>3, SequenceOfAny DEF last
<1> QED
  BY <1>2, SequenceExtended DEF Interactions!AppendText

\* What changes a step leaves it one.
LEMMA InteractionsMerge ==
    ASSUME NEW begun, NEW delta, Started(begun)
    PROVE  Started(Interactions!Merge(begun, delta))
<1> DEFINE Take(old, new) == IF new = None THEN old ELSE new
           s == begun.step
           called == [begun EXCEPT !.step.id = Take(@, delta.id), !.step.name = Take(@, delta.name),
                                   !.step.args = Take(@, delta.args),
                                   !.step.extra = @ \cup ({delta.type} \cap {"text", "image"}),
                                   !.fragments = IF delta.args = None THEN @ ELSE <<>>]
           other == [begun EXCEPT !.step.extra = @ \cup {delta.type}]
<1>1. Interactions!Merge(begun, delta) = IF s.type = "function_call" THEN called ELSE other
  BY DEF Interactions!Merge
<1>2. DOMAIN called = DOMAIN begun /\ DOMAIN called.step = DOMAIN begun.step /\ called.step.parts = begun.step.parts
  BY DEF Started, Interactions!IsStep
<1>3. DOMAIN other = DOMAIN begun /\ DOMAIN other.step = DOMAIN begun.step /\ other.step.parts = begun.step.parts
  BY DEF Started, Interactions!IsStep
<1> HIDE DEF called, other
<1> QED
  BY <1>1, <1>2, <1>3 DEF Started, Interactions!IsStep

\* A delta of a step leaves it a step.
LEMMA InteractionsGrow ==
    ASSUME NEW begun, NEW delta, Started(begun)
    PROVE  Started(Interactions!Grow(begun, delta))
<1> DEFINE fragments == [begun EXCEPT !.fragments = @ \o delta.text]
           text == [begun EXCEPT !.step.parts = Interactions!AppendText(@)]
           image == [begun EXCEPT !.step.parts = Append(@, 0)]
           thought == [begun EXCEPT !.step.extra = @ \cup {delta.type}]
<1>1. \/ Interactions!Grow(begun, delta) \in {fragments, text, image, thought}
      \/ Interactions!Grow(begun, delta) = Interactions!Merge(begun, delta)
  BY DEF Interactions!Grow
<1>2. DOMAIN fragments = DOMAIN begun /\ fragments.step = begun.step
  BY DEF Started
<1>3. DOMAIN thought = DOMAIN begun /\ DOMAIN thought.step = DOMAIN begun.step /\ thought.step.parts = begun.step.parts
  BY DEF Started, Interactions!IsStep
<1>4. /\ DOMAIN text = DOMAIN begun /\ DOMAIN text.step = DOMAIN begun.step
      /\ text.step.parts = Interactions!AppendText(begun.step.parts)
  BY DEF Started, Interactions!IsStep
<1>5. /\ DOMAIN image = DOMAIN begun /\ DOMAIN image.step = DOMAIN begun.step
      /\ image.step.parts = Append(begun.step.parts, 0)
  BY DEF Started, Interactions!IsStep
<1>6. IsSequence(Append(begun.step.parts, 0)) /\ IsSequence(Interactions!AppendText(begun.step.parts))
  BY SequenceExtended, InteractionsAppendText, InteractionsSequence DEF Started, Interactions!IsStep
<1> HIDE DEF fragments, text, image, thought
<1>7. Started(fragments) /\ Started(thought) /\ Started(text) /\ Started(image)
  BY <1>2, <1>3, <1>4, <1>5, <1>6, InteractionsSequence DEF Started, Interactions!IsStep
<1> QED
  BY <1>1, <1>7, InteractionsMerge

\* A step that is replaced by one.
LEMMA InteractionsReplaced ==
    ASSUME NEW d, NEW index, NEW begun, Collects(d), index \in DOMAIN d.steps, Started(begun)
    PROVE  Collects([d EXCEPT !.steps[index] = begun])
<1> DEFINE e == [d EXCEPT !.steps[index] = begun]
<1>1. /\ DOMAIN e = DOMAIN d /\ DOMAIN e.steps = DOMAIN d.steps
      /\ \A i \in DOMAIN d.steps : e.steps[i] = IF i = index THEN begun ELSE d.steps[i]
  BY DEF Collects
<1> HIDE DEF e
<1> QED
  BY <1>1 DEF Collects

\* The delta of an open step changes that step alone.
LEMMA InteractionsStepDelta ==
    ASSUME NEW d, NEW f, Collects(d)
    PROVE  Gathered(Interactions!StepDeltaFrame(d, f))
<1> DEFINE begun == d.steps[f.index]
           merges == begun.step.type = "function_call"
                     /\ f.delta.type \notin {"arguments_delta", "thought_signature", "thought_summary"}
           e == [d EXCEPT !.steps[f.index] = Interactions!Grow(begun, f.delta)]
<1>1. Interactions!StepDeltaFrame(d, f) =
        IF ~Interactions!Open(d, f.index) THEN Interactions!Interrupted(d)
        ELSE IF merges /\ ~Interactions!KeepsIdentity(begun.step, f.delta) THEN Interactions!Interrupted(d)
        ELSE Interactions!Ok(e, <<>>)
  BY DEF Interactions!StepDeltaFrame
<1>2. Interactions!Open(d, f.index) => f.index \in DOMAIN d.steps /\ Started(begun)
  BY DEF Interactions!Open, Collects
<1>3. Interactions!Open(d, f.index) => Collects(e)
  BY <1>2, InteractionsGrow, InteractionsReplaced
<1> HIDE DEF e, merges
<1> QED
  BY <1>1, <1>3, InteractionsResult

\* A step is opened at its index.
LEMMA InteractionsStepStart ==
    ASSUME NEW d, NEW f, Collects(d), f.index \in Nat, Interactions!IsStep(f.step)
    PROVE  Gathered(Interactions!StepStart(d, f))
<1> DEFINE steps == [i \in DOMAIN d.steps \cup {f.index} |->
                        IF i = f.index THEN Interactions!Begun(f.step) ELSE d.steps[i]]
           e == [d EXCEPT !.steps = steps]
<1>1. Interactions!StepStart(d, f) =
        IF ~d.started \/ f.index \in DOMAIN d.steps THEN Interactions!Interrupted(d) ELSE Interactions!Ok(e, <<>>)
  BY DEF Interactions!StepStart
<1>2. Started(Interactions!Begun(f.step))
  BY DEF Started, Interactions!Begun
<1>3. DOMAIN e = DOMAIN d /\ e.steps = steps
  BY DEF Collects
<1>4. \E m \in Nat : \A i \in DOMAIN steps : i \in 0 .. m
  <2>1. PICK m \in Nat : \A i \in DOMAIN d.steps : i \in 0 .. m
    BY DEF Collects
  <2>2. \A i \in DOMAIN steps : i \in 0 .. (m + f.index)
    BY <2>1
  <2>3. m + f.index \in Nat
    BY <2>1
  <2> QED
    BY <2>2, <2>3
<1>5. \A i \in DOMAIN steps : Started(steps[i])
  BY <1>2 DEF Collects
<1> HIDE DEF e, steps
<1>6. Collects(e)
  BY <1>3, <1>4, <1>5 DEF Collects
<1> QED
  BY <1>1, <1>6, InteractionsResult

\* A step ends, with its arguments joined.
LEMMA InteractionsStepStop ==
    ASSUME NEW d, NEW f, Collects(d)
    PROVE  Gathered(Interactions!StepStop(d, f))
<1> DEFINE begun == d.steps[f.index]
           joined == begun.step.type = "function_call" /\ begun.fragments # <<>>
           stopped == [begun EXCEPT !.stopped = TRUE,
                                    !.fragments = IF joined THEN <<>> ELSE @,
                                    !.step.args = IF joined THEN begun.fragments ELSE @]
           e == [d EXCEPT !.steps[f.index] = stopped]
<1>1. Interactions!StepStop(d, f) =
        IF ~Interactions!Open(d, f.index) \/ (joined /\ ~Interactions!Parses(begun.fragments)) THEN Interactions!Interrupted(d)
        ELSE Interactions!Ok(e, <<>>)
  BY DEF Interactions!StepStop
<1>2. Interactions!Open(d, f.index) => f.index \in DOMAIN d.steps /\ Started(begun)
  BY DEF Interactions!Open, Collects
<1>3. Started(begun) => Started(stopped)
  <2> HAVE Started(begun)
  <2>1. DOMAIN stopped = DOMAIN begun /\ DOMAIN stopped.step = DOMAIN begun.step /\ stopped.step.parts = begun.step.parts
    BY DEF Started, Interactions!IsStep
  <2> HIDE DEF stopped
  <2> QED
    BY <2>1 DEF Started, Interactions!IsStep
<1>4. Interactions!Open(d, f.index) => Collects(e)
  <2> HIDE DEF stopped
  <2> QED
    BY <1>2, <1>3, InteractionsReplaced
<1> HIDE DEF e, joined
<1> QED
  BY <1>1, <1>4, InteractionsResult

\* A set of numbers below a bound has a greatest one, if it has any.
LEMMA Greatest ==
    ASSUME NEW S, NEW m \in Nat, \A i \in S : i \in 0 .. m, S # {}
    PROVE  \E n \in S : \A i \in S : n >= i
<1> DEFINE B == {n \in Nat : \A i \in S : n >= i}
<1>1. m \in B /\ B \in SUBSET Nat
  OBVIOUS
<1>2. PICK n \in B : \A k \in B : n <= k
  <2> HIDE DEF B
  <2> QED
    BY <1>1, Least
<1>3. CASE n \in S
  BY <1>2, <1>3
<1>4. CASE n \notin S
  <2>1. \A i \in S : n >= i /\ n # i /\ i \in Nat
    BY <1>2, <1>4
  <2>2. PICK i \in S : TRUE
    OBVIOUS
  <2>3. n - 1 \in B
    BY <1>2, <2>1, <2>2
  <2> QED
    BY <1>2, <2>3
<1> QED
  BY <1>3, <1>4

\* The bound of the steps' indices is a number.
LEMMA InteractionsIndices ==
    ASSUME NEW d, Collects(d)
    PROVE  Interactions!Indices(d) \in Nat
<1>1. PICK m \in Nat : \A i \in DOMAIN d.steps : i \in 0 .. m
  BY DEF Collects
<1>2. DOMAIN d.steps # {} => (CHOOSE k \in DOMAIN d.steps : \A j \in DOMAIN d.steps : k >= j) \in DOMAIN d.steps
  <2> HAVE DOMAIN d.steps # {}
  <2> QED
    BY <1>1, Greatest
<1> QED
  BY <1>1, <1>2 DEF Interactions!Indices

\* The steps of a response are steps.
IsSteps(steps) == IsSequence(steps) /\ \A k \in 1 .. Len(steps) : Interactions!IsStep(steps[k])

\* The buffered steps in the order of their indices.
LEMMA InteractionsStreamed ==
    ASSUME NEW d, Collects(d)
    PROVE  IsSteps(Interactions!Streamed(d))
<1> DEFINE n == Interactions!Indices(d)
           Add(r, i) == IF i - 1 \in DOMAIN d.steps THEN Append(r, d.steps[i - 1].step) ELSE r
<1>1. n \in Nat
  BY InteractionsIndices
<1>2. \E t : t = [i \in 0 .. n |-> IF i = 0 THEN <<>> ELSE Add(t[i - 1], i)]
  <2> HIDE DEF n
  <2>1. PICK t : Runs(t, "Streamed", d.steps, <<>>, n)
    BY <1>1, Loop
  <2> QED
    BY <2>1 DEF Runs, Body
<1>3. PICK t : /\ t = [i \in 0 .. n |-> IF i = 0 THEN <<>> ELSE Add(t[i - 1], i)]
               /\ Interactions!Streamed(d) = t[n]
  BY <1>2 DEF Interactions!Streamed
<1> HIDE DEF n
<1> DEFINE I == {i \in 0 .. n : IsSteps(t[i])}
<1>4. 0 \in I
  BY <1>1, <1>3, EmptySequence DEF IsSteps
<1>5. ASSUME NEW i \in 1 .. n, i - 1 \in I
      PROVE  i \in I
  <2>1. t[i] = IF i - 1 \in DOMAIN d.steps THEN Append(t[i - 1], d.steps[i - 1].step) ELSE t[i - 1]
    <3>1. t[i] = Add(t[i - 1], i)
      <4> HIDE DEF Add
      <4> QED
        BY ONLY <1>1, <1>3, i \in 1 .. n
    <3> QED
      BY <3>1
  <2>2. i \in 0 .. n /\ IsSteps(t[i - 1])
    BY <1>1, <1>5
  <2>3. i - 1 \in DOMAIN d.steps => Interactions!IsStep(d.steps[i - 1].step)
    BY DEF Collects, Started
  <2>4. ASSUME NEW step, Interactions!IsStep(step)
        PROVE  IsSteps(Append(t[i - 1], step))
    <3> DEFINE u == t[i - 1]
    <3>1. IsSequence(u) /\ Len(u) \in Nat /\ \A k \in 1 .. Len(u) : Interactions!IsStep(u[k])
      BY <2>2, SequenceFacts DEF IsSteps
    <3> HIDE DEF u
    <3>2. /\ IsSequence(Append(u, step)) /\ Len(Append(u, step)) = Len(u) + 1
          /\ \A k \in 1 .. Len(u) : Append(u, step)[k] = u[k]
          /\ Append(u, step)[Len(u) + 1] = step
      BY ZenonT(40), <3>1, SequenceExtended
    <3>3. \A k \in 1 .. Len(u) + 1 : k \in 1 .. Len(u) \/ k = Len(u) + 1
      BY <3>1
    <3>4. \A k \in 1 .. Len(u) + 1 : Interactions!IsStep(Append(u, step)[k])
      BY <2>4, <3>1, <3>2, <3>3
    <3>5. IsSteps(Append(u, step))
      BY <3>2, <3>4 DEF IsSteps
    <3> QED
      BY <3>5 DEF u
  <2> QED
    BY <2>1, <2>2, <2>3, <2>4
<1>6. \A i \in 0 .. n : i \in I
  <2> HIDE DEF I
  <2> QED
    BY <1>1, <1>4, <1>5, UpTo
<1> QED
  BY <1>1, <1>3, <1>6

\* Of a step, no event is an error.
LEMMA InteractionsStepEvents ==
    ASSUME NEW block, NEW step, Interactions!IsStep(step)
    PROVE  Faultless(Interactions!StepEvents(block, step))
<1>1. Faultless(Interactions!TextBlocks(block, step.parts))
  <2> DEFINE n == 2 * Len(step.parts)
             b(k) == block + (k - 1) \div 2
             event(k) == IF k % 2 = 1 THEN Interactions!WholeText(b(k), step.parts[(k + 1) \div 2])
                         ELSE Interactions!BlockEnd(b(k))
             s == [k \in 1 .. n |-> event(k)]
  <2>1. n \in Nat
    BY SequenceFacts, InteractionsSequence DEF Interactions!IsStep
  <2>2. \A k : event(k).event # "error"
    BY DEF Interactions!WholeText, Interactions!BlockEnd
  <2>3. Interactions!TextBlocks(block, step.parts) = s
    BY DEF Interactions!TextBlocks
  <2> HIDE DEF event, n
  <2>4. IsSequence(s) /\ Len(s) = n
    BY <2>1, SequenceBuilt
  <2> QED
    BY <2>2, <2>3, <2>4 DEF Faultless
<1>2. ASSUME NEW e, e.event # "error"
      PROVE  Faultless(<<e, Interactions!BlockEnd(block)>>)
  <2> DEFINE end == Interactions!BlockEnd(block)
  <2>1. end.event # "error"
    BY DEF Interactions!BlockEnd
  <2> HIDE DEF end
  <2>2. IsSequence(<<e, end>>) /\ Len(<<e, end>>) = 2
    <3>1. <<e, end>> \in Seq({e, end})
      OBVIOUS
    <3> QED
      BY <3>1, SequenceOfAny
  <2>3. <<e, end>>[1] = e /\ <<e, end>>[2] = end
    OBVIOUS
  <2>4. Faultless(<<e, end>>)
    BY <1>2, <2>1, <2>2, <2>3 DEF Faultless
  <2> QED
    BY <2>4 DEF end
<1>3. /\ \A id, name, args : Interactions!ToolCallDelta(block, id, name, args).event # "error"
      /\ Interactions!ProviderContent(block).event # "error"
  BY DEF Interactions!ToolCallDelta, Interactions!ProviderContent
<1> QED
  BY <1>1, <1>2, <1>3 DEF Interactions!StepEvents

\* The events of the steps contain no error.
LEMMA InteractionsEvents ==
    ASSUME NEW steps, IsSteps(steps)
    PROVE  Faultless(Interactions!EventsOf(steps))
<1>1. Len(steps) \in Nat
  BY SequenceFacts DEF IsSteps
<1>2. \E t : t = [i \in 0 .. Len(steps) |-> IF i = 0 THEN <<>>
                     ELSE t[i - 1] \o Interactions!StepEvents(Len(t[i - 1]) \div 2, steps[i])]
  <2>1. PICK t : Runs(t, "EventsOf", steps, <<>>, Len(steps))
    BY <1>1, Loop
  <2> QED
    BY <2>1 DEF Runs, Body
<1>3. PICK t : /\ t = [i \in 0 .. Len(steps) |-> IF i = 0 THEN <<>>
                          ELSE t[i - 1] \o Interactions!StepEvents(Len(t[i - 1]) \div 2, steps[i])]
               /\ Interactions!EventsOf(steps) = t[Len(steps)]
  BY <1>2 DEF Interactions!EventsOf
<1> DEFINE I == {i \in 0 .. Len(steps) : Faultless(t[i])}
<1>4. 0 \in I
  BY <1>1, <1>3, FaultlessEmpty
<1>5. ASSUME NEW i \in 1 .. Len(steps), i - 1 \in I
      PROVE  i \in I
  <2>1. t[i] = t[i - 1] \o Interactions!StepEvents(Len(t[i - 1]) \div 2, steps[i])
    BY <1>1, <1>3
  <2>2. Interactions!IsStep(steps[i])
    BY DEF IsSteps
  <2>3. i \in 0 .. Len(steps) /\ Faultless(t[i - 1])
    BY <1>1, <1>5
  <2>4. Faultless(Interactions!StepEvents(Len(t[i - 1]) \div 2, steps[i]))
    BY <2>2, InteractionsStepEvents
  <2> QED
    BY <2>1, <2>3, <2>4, FaultlessJoined
<1>6. \A i \in 0 .. Len(steps) : i \in I
  <2> HIDE DEF I
  <2> QED
    BY <1>1, <1>4, <1>5, UpTo
<1>7. Len(steps) \in I
  BY <1>1, <1>6
<1> QED
  BY <1>3, <1>7

\* The completed interaction, checked against the buffered steps.
LEMMA InteractionsComplete ==
    ASSUME NEW d, NEW f, Collects(d), f.type = "completed", Interactions!IsFrame(f)
    PROVE  Gathered(Interactions!Complete(d, f))
<1> DEFINE streamed == Interactions!Streamed(d)
           final == f.response.output
           steps == IF final = None THEN streamed ELSE final
           stop == IF \E k \in DOMAIN steps : Interactions!IsCall(steps[k]) THEN "tool_use" ELSE "end_turn"
           out == Interactions!EventsOf(steps) \o <<Interactions!End(stop)>>
           e == [d EXCEPT !.ended = TRUE, !.response = [store |-> f.response.store]]
           open == \/ ~d.started
                   \/ \E i \in DOMAIN d.steps : ~d.steps[i].stopped
                   \/ f.response.id # d.id
                   \/ final # None /\ ~Interactions!Confirms(final, streamed)
<1>1. Interactions!Complete(d, f) =
        IF open THEN Interactions!Interrupted(d)
        ELSE IF ~Interactions!Executable(f.response.status, steps) THEN Interactions!Err(d, "invalid")
        ELSE Interactions!Ok(e, out)
  BY DEF Interactions!Complete
<1>2. IsSteps(steps)
  <2>1. IsSteps(streamed)
    BY InteractionsStreamed
  <2>2. final # None => IsSequence(final) /\ \A k \in DOMAIN final : Interactions!IsStep(final[k])
    BY InteractionsSequence DEF Interactions!IsFrame
  <2>3. final # None => IsSteps(final)
    BY <2>2, SequenceFacts DEF IsSteps
  <2> QED
    BY <2>1, <2>3
<1>3. Faultless(out)
  <2>1. Interactions!End(stop).event # "error"
    BY DEF Interactions!End
  <2> HIDE DEF steps, stop
  <2> QED
    BY <1>2, <2>1, InteractionsEvents, FaultlessOne, FaultlessJoined
<1>4. Collects(e)
  BY DEF Collects
<1> HIDE DEF open, steps, out, e
<1>5. Gathered(Interactions!Ok(e, out))
  BY <1>3, <1>4 DEF Gathered, Interactions!Ok
<1> QED
  BY <1>1, <1>5, InteractionsResult

\* Each event of an interaction.
LEMMA InteractionsEvent ==
    ASSUME NEW d, NEW f, Collects(d), Interactions!IsFrame(f), f.type \notin {"done", "blank", "garbled"}
    PROVE  Gathered(Interactions!DecodeEvent(d, f))
<1>1. CASE f.type = "created"
  <2> DEFINE e == [d EXCEPT !.started = TRUE, !.id = f.id]
  <2>1. Interactions!DecodeEvent(d, f) =
          IF d.started THEN Interactions!Interrupted(d) ELSE Interactions!Ok(e, <<Interactions!Start(f.id)>>)
    BY <1>1 DEF Interactions!DecodeEvent
  <2>2. Collects(e)
    BY DEF Collects
  <2>3. Faultless(<<Interactions!Start(f.id)>>)
    BY FaultlessOne DEF Interactions!Start
  <2> HIDE DEF e
  <2>4. Gathered(Interactions!Ok(e, <<Interactions!Start(f.id)>>))
    BY <2>2, <2>3 DEF Gathered, Interactions!Ok
  <2> QED
    BY <2>1, <2>4, InteractionsResult
<1>2. CASE f.type = "step.start"
  <2>1. Interactions!DecodeEvent(d, f) = Interactions!StepStart(d, f)
    BY <1>2 DEF Interactions!DecodeEvent
  <2> QED
    BY <1>2, <2>1, InteractionsStepStart DEF Interactions!IsFrame
<1>3. CASE f.type = "step.delta"
  <2>1. Interactions!DecodeEvent(d, f) = Interactions!StepDeltaFrame(d, f)
    BY <1>3 DEF Interactions!DecodeEvent
  <2> QED
    BY <2>1, InteractionsStepDelta
<1>4. CASE f.type = "step.stop"
  <2>1. Interactions!DecodeEvent(d, f) = Interactions!StepStop(d, f)
    BY <1>4 DEF Interactions!DecodeEvent
  <2> QED
    BY <2>1, InteractionsStepStop
<1>5. CASE f.type = "completed"
  <2>1. Interactions!DecodeEvent(d, f) = Interactions!Complete(d, f)
    BY <1>5 DEF Interactions!DecodeEvent
  <2> QED
    BY <1>5, <2>1, InteractionsComplete
<1>6. CASE f.type = "error"
  <2>1. Interactions!DecodeEvent(d, f) = Interactions!Err(d, "provider")
    BY <1>6 DEF Interactions!DecodeEvent
  <2> QED
    BY <2>1, InteractionsResult
<1>7. CASE f.type = "future"
  <2>1. Interactions!DecodeEvent(d, f) = Interactions!Ok(d, <<Interactions!Observation>>)
    BY <1>7 DEF Interactions!DecodeEvent
  <2>2. Faultless(<<Interactions!Observation>>)
    BY FaultlessOne DEF Interactions!Observation
  <2> QED
    BY <2>1, <2>2 DEF Gathered, Interactions!Ok
<1> QED
  BY <1>1, <1>2, <1>3, <1>4, <1>5, <1>6, <1>7 DEF Interactions!IsFrame

\* An Interactions stream emits no error event from its first frame to its end.
LEMMA InteractionsFaultless ==
    /\ Collects(Interactions!NewDecoder)
    /\ \A d : Collects(d) =>
         /\ \A f : Interactions!IsFrame(f) => Gathered(Interactions!DecodeFrame(d, f))
         /\ Gathered(Interactions!Finish(d))
<1>1. Collects(Interactions!NewDecoder)
  <2> DEFINE d == Interactions!NewDecoder
  <2>1. "steps" \in DOMAIN d /\ d.steps = <<>>
    BY DEF Interactions!NewDecoder
  <2>2. DOMAIN d.steps = {}
    BY <2>1, EmptySequence, SequenceFacts
  <2> HIDE DEF d
  <2>3. Collects(d)
    BY <2>1, <2>2 DEF Collects
  <2> QED
    BY <2>3 DEF d
<1>2. ASSUME NEW d, Collects(d)
      PROVE  /\ \A f : Interactions!IsFrame(f) => Gathered(Interactions!DecodeFrame(d, f))
             /\ Gathered(Interactions!Finish(d))
  <2>1. ASSUME NEW f, Interactions!IsFrame(f)
        PROVE  Gathered(Interactions!DecodeFrame(d, f))
    <3> DEFINE counted == [d EXCEPT !.buffered = @ + 1]
    <3>1. Collects(counted)
      BY <1>2 DEF Collects
    <3>2. Interactions!DecodeFrame(d, f) =
            IF d.ended THEN Interactions!Ok(d, <<>>)
            ELSE IF f.type \in {"done", "blank", "garbled"} THEN Interactions!Interrupted(d)
            ELSE IF counted.buffered > MaxInteractionBytes THEN Interactions!Interrupted(counted)
            ELSE Interactions!DecodeEvent(counted, f)
      BY DEF Interactions!DecodeFrame
    <3> HIDE DEF counted
    <3> QED
      BY <1>2, <2>1, <3>1, <3>2, InteractionsResult, InteractionsEvent
  <2>2. Gathered(Interactions!Finish(d))
    BY <1>2, InteractionsResult DEF Interactions!Finish
  <2> QED
    BY <2>1, <2>2
<1> QED
  BY <1>1, <1>2

-----------------------------------------------------------------------------
(* Anthropic: the bytes that are held.                                     *)

\* A block of so many bytes has so many places.
LEMMA BlockPlaces ==
    ASSUME NEW b, NEW k \in Nat
    PROVE  IsFiniteSet({b} \X (1 .. k)) /\ Cardinality({b} \X (1 .. k)) = k
<1>1. IsFiniteSet({b}) /\ Cardinality({b}) = 1
  BY FS_Singleton
<1>2. IsFiniteSet(1 .. k) /\ Cardinality(1 .. k) = k
  BY FS_Interval
<1>3. Cardinality({b} \X (1 .. k)) = Cardinality({b}) * Cardinality(1 .. k) /\ IsFiniteSet({b} \X (1 .. k))
  BY ONLY <1>1, <1>2, FS_Product
<1>4. 1 * k = k
  OBVIOUS
<1> QED
  BY <1>1, <1>2, <1>3, <1>4

\* Two disjoint sets have their places together.
LEMMA PlacesAdd ==
    ASSUME NEW R, NEW S, IsFiniteSet(R), IsFiniteSet(S), R \cap S = {}
    PROVE  /\ IsFiniteSet(R \cup S)
           /\ Cardinality(R) \in Nat /\ Cardinality(S) \in Nat
           /\ Cardinality(R \cup S) = Cardinality(R) + Cardinality(S)
<1>1. Cardinality(R) \in Nat /\ Cardinality(S) \in Nat
  BY FS_CardinalityType
<1>2. IsFiniteSet(R \cup S) /\ Cardinality(R \cup S) = Cardinality(R) + Cardinality(S) - Cardinality(R \cap S)
  BY ONLY IsFiniteSet(R), IsFiniteSet(S), FS_Union
<1>3. Cardinality({}) = 0
  BY FS_EmptySet
<1>4. Cardinality(R \cup S) = Cardinality(R) + Cardinality(S) - 0
  BY ONLY <1>2, <1>3, R \cap S = {}, Zenon
<1> QED
  BY <1>1, <1>2, <1>4

Places(d) == HeldBy("cited", d.cited) \cup HeldBy("native", d.native)

Weight(blocks, i) == IF i \in DOMAIN blocks THEN blocks[i].retained ELSE 0

\* An open text block never counts more buffered frames than it retains bytes.
Holds(blocks) == \A i \in DOMAIN blocks : "retained" \in DOMAIN blocks[i] /\ blocks[i].retained \in Nat

Buffers(blocks) ==
    \A i \in DOMAIN blocks :
        /\ {"buffered", "observing"} \subseteq DOMAIN blocks[i]
        /\ blocks[i].buffered \in Nat /\ blocks[i].buffered <= blocks[i].retained

Opens(d) ==
    /\ {"bytes", "cited", "native"} \subseteq DOMAIN d
    /\ Holds(d.cited) /\ Buffers(d.cited) /\ Holds(d.native)

\* The counter is exact, and within its limit.
Held(d) ==
    /\ Opens(d)
    /\ IsFiniteSet(Places(d))
    /\ d.bytes = Retained(d) /\ d.bytes <= MaxPendingBytes

\* What the retained bytes of a family of blocks are counted by.
LEMMA PlacesOf ==
    ASSUME NEW kind, NEW blocks
    PROVE  /\ \A x : x \in HeldBy(kind, blocks) <=>
                       \E i \in DOMAIN blocks : x \in {<<kind, i>>} \X (1 .. blocks[i].retained)
           /\ \A x, i, m : x \in {<<kind, i>>} \X (1 .. m) <=> \E k \in 1 .. m : x = <<<<kind, i>>, k>>
<1>1. \A x : x \in HeldBy(kind, blocks) <=>
                       \E i \in DOMAIN blocks : x \in {<<kind, i>>} \X (1 .. blocks[i].retained)
  BY Zenon DEF HeldBy
<1>2. \A x, i, m : x \in {<<kind, i>>} \X (1 .. m) <=> \E k \in 1 .. m : x = <<<<kind, i>>, k>>
  OBVIOUS
<1> QED
  BY <1>1, <1>2

\* Blocks that differ in one at most differ in its places.
LEMMA HeldByChanged ==
    ASSUME NEW kind, NEW blocks, NEW after, NEW index, Holds(blocks), Holds(after),
           \A j : j # index => /\ j \in DOMAIN after <=> j \in DOMAIN blocks
                               /\ j \in DOMAIN blocks => after[j].retained = blocks[j].retained
    PROVE  LET Old == {<<kind, index>>} \X (1 .. Weight(blocks, index))
               New == {<<kind, index>>} \X (1 .. Weight(after, index))
           IN  /\ Weight(blocks, index) \in Nat /\ Weight(after, index) \in Nat
               /\ Old \subseteq HeldBy(kind, blocks)
               /\ HeldBy(kind, after) = (HeldBy(kind, blocks) \ Old) \cup New
               /\ (HeldBy(kind, blocks) \ Old) \cap New = {}
<1> DEFINE Old == {<<kind, index>>} \X (1 .. Weight(blocks, index))
           New == {<<kind, index>>} \X (1 .. Weight(after, index))
           At(x, b, j) == x \in {<<kind, j>>} \X (1 .. Weight(b, j))
<1>1. /\ \A j : Weight(blocks, j) \in Nat /\ Weight(after, j) \in Nat
      /\ \A j : j # index => Weight(after, j) = Weight(blocks, j)
  BY DEF Weight, Holds
<1>2. /\ \A x : x \in HeldBy(kind, blocks) <=> \E j : At(x, blocks, j)
      /\ \A x : x \in HeldBy(kind, after) <=> \E j : At(x, after, j)
  <2>1. ASSUME NEW b, NEW x PROVE x \in HeldBy(kind, b) <=> \E j : At(x, b, j)
    <3>1. ASSUME NEW j, At(x, b, j) PROVE x \in HeldBy(kind, b)
      <4>1. j \in DOMAIN b
        BY <3>1 DEF Weight
      <4> QED
        BY <3>1, <4>1, PlacesOf DEF Weight
    <3>2. ASSUME x \in HeldBy(kind, b) PROVE \E j : At(x, b, j)
      <4>1. PICK j \in DOMAIN b : x \in {<<kind, j>>} \X (1 .. b[j].retained)
        BY <3>2, PlacesOf
      <4>2. At(x, b, j)
        BY <4>1 DEF Weight
      <4> QED
        BY <4>2
    <3> QED
      BY <3>1, <3>2
  <2> QED
    BY <2>1
<1>3. \A x, b, i, j : At(x, b, i) /\ At(x, blocks, j) => i = j
  OBVIOUS
<1>4. \A x, i, j : At(x, after, i) /\ At(x, blocks, j) => i = j
  OBVIOUS
<1>5. \A x, j : j # index => (At(x, after, j) <=> At(x, blocks, j))
  BY <1>1
<1>6. \A x : (x \in Old <=> At(x, blocks, index)) /\ (x \in New <=> At(x, after, index))
  OBVIOUS
<1> HIDE DEF Old, New, At
<1>7. Old \subseteq HeldBy(kind, blocks)
  BY <1>2, <1>6
<1>8. (HeldBy(kind, blocks) \ Old) \cap New = {}
  BY <1>2, <1>4, <1>6
<1>9. HeldBy(kind, after) = (HeldBy(kind, blocks) \ Old) \cup New
  <2>1. ASSUME NEW x PROVE x \in HeldBy(kind, after) <=> x \in (HeldBy(kind, blocks) \ Old) \cup New
    <3>1. ASSUME x \in HeldBy(kind, after) PROVE x \in (HeldBy(kind, blocks) \ Old) \cup New
      <4>1. PICK j : At(x, after, j)
        BY <1>2, <3>1
      <4>2. CASE j = index
        BY <1>6, <4>1, <4>2
      <4>3. CASE j # index
        BY <1>2, <1>3, <1>5, <1>6, <4>1, <4>3
      <4> QED
        BY <4>2, <4>3
    <3>2. ASSUME x \in HeldBy(kind, blocks), x \notin Old PROVE x \in HeldBy(kind, after)
      <4>1. PICK j : At(x, blocks, j)
        BY <1>2, <3>2
      <4>2. j # index
        BY <1>6, <3>2, <4>1
      <4> QED
        BY <1>2, <1>5, <4>1, <4>2
    <3>3. ASSUME x \in New PROVE x \in HeldBy(kind, after)
      BY <1>2, <1>6, <3>3
    <3> QED
      BY <3>1, <3>2, <3>3
  <2> QED
    BY <2>1
<1> QED
  BY <1>1, <1>7, <1>8, <1>9 DEF Old, New

\* A decoder of which one text block was changed, with the counter.
LEMMA CitedChanged ==
    ASSUME NEW d, NEW e, NEW index, Held(d), Opens(e), e.native = d.native,
           \A j : j # index => /\ j \in DOMAIN e.cited <=> j \in DOMAIN d.cited
                               /\ j \in DOMAIN d.cited => e.cited[j].retained = d.cited[j].retained
    PROVE  /\ IsFiniteSet(Places(e)) /\ Weight(d.cited, index) <= Retained(d)
           /\ Weight(d.cited, index) \in Nat /\ Weight(e.cited, index) \in Nat /\ Retained(d) \in Nat
           /\ Retained(e) = Retained(d) - Weight(d.cited, index) + Weight(e.cited, index)
<1> DEFINE b == <<"cited", index>>
           m == Weight(d.cited, index)
           n == Weight(e.cited, index)
           P == HeldBy("cited", d.cited)
           Q == HeldBy("cited", e.cited)
           R == HeldBy("native", d.native)
<1>1. /\ m \in Nat /\ n \in Nat
      /\ {b} \X (1 .. m) \subseteq P
      /\ Q = (P \ ({b} \X (1 .. m))) \cup ({b} \X (1 .. n))
      /\ (P \ ({b} \X (1 .. m))) \cap ({b} \X (1 .. n)) = {}
  BY HeldByChanged DEF Held, Opens
<1>2. /\ R \cap ({b} \X (1 .. m)) = {} /\ R \cap ({b} \X (1 .. n)) = {}
  <2>1. ASSUME NEW x \in R, NEW k \in Nat, x \in {b} \X (1 .. k) PROVE FALSE
    <3>1. PICK i : x \in {<<"native", i>>} \X (1 .. d.native[i].retained)
      BY PlacesOf
    <3> QED
      BY <2>1, <3>1
  <2> QED
    BY <1>1, <2>1
<1>3. Places(d) = P \cup R /\ Places(e) = Q \cup R
  BY DEF Places
<1> HIDE DEF b, m, n, P, Q, R
<1>4. /\ {b} \X (1 .. m) \subseteq Places(d)
      /\ Places(e) = (Places(d) \ ({b} \X (1 .. m))) \cup ({b} \X (1 .. n))
      /\ (Places(d) \ ({b} \X (1 .. m))) \cap ({b} \X (1 .. n)) = {}
  BY <1>1, <1>2, <1>3
<1>5. IsFiniteSet(Places(d))
  BY DEF Held
<1>6. /\ IsFiniteSet(Places(e)) /\ m <= Cardinality(Places(d))
      /\ Cardinality(Places(e)) = Cardinality(Places(d)) - m + n
  <2>1. m \in Nat /\ n \in Nat
    BY <1>1
  <2> DEFINE A == Places(d)
             B == Places(e)
             Old == {b} \X (1 .. m)
             New == {b} \X (1 .. n)
             Rest == A \ Old
  <2>2. IsFiniteSet(A) /\ A = Rest \cup Old /\ B = Rest \cup New /\ Rest \cap Old = {} /\ Rest \cap New = {}
    BY <1>4, <1>5
  <2>3. IsFiniteSet(Old) /\ Cardinality(Old) = m /\ IsFiniteSet(New) /\ Cardinality(New) = n
    BY <2>1, BlockPlaces
  <2> HIDE DEF A, B, Old, New, Rest
  <2>4. IsFiniteSet(Rest)
    <3>1. Rest \subseteq A
      BY <2>2
    <3> QED
      BY ONLY <2>2, <3>1, FS_Subset
  <2>5. Cardinality(Rest) \in Nat /\ Cardinality(A) = Cardinality(Rest) + m
    BY ONLY <2>2, <2>3, <2>4, PlacesAdd
  <2>6. IsFiniteSet(B) /\ Cardinality(B) = Cardinality(Rest) + n
    BY ONLY <2>2, <2>3, <2>4, PlacesAdd
  <2>7. IsFiniteSet(B) /\ m <= Cardinality(A) /\ Cardinality(B) = Cardinality(A) - m + n
    BY ONLY <2>1, <2>5, <2>6
  <2> QED
    BY <2>7 DEF A, B
<1>7. Retained(d) = Cardinality(Places(d)) /\ Retained(e) = Cardinality(Places(e))
  BY DEF Retained, Places
<1> QED
  BY <1>1, <1>5, <1>6, <1>7, FS_CardinalityType DEF m, n

\* Only the native block at one index changed: by how much the retained bytes changed.
LEMMA NativeChanged ==
    ASSUME NEW d, NEW e, NEW index, Held(d), Opens(e), e.cited = d.cited,
           \A j : j # index => /\ j \in DOMAIN e.native <=> j \in DOMAIN d.native
                               /\ j \in DOMAIN d.native => e.native[j].retained = d.native[j].retained
    PROVE  /\ IsFiniteSet(Places(e)) /\ Weight(d.native, index) <= Retained(d)
           /\ Weight(d.native, index) \in Nat /\ Weight(e.native, index) \in Nat /\ Retained(d) \in Nat
           /\ Retained(e) = Retained(d) - Weight(d.native, index) + Weight(e.native, index)
<1> DEFINE b == <<"native", index>>
           m == Weight(d.native, index)
           n == Weight(e.native, index)
           P == HeldBy("native", d.native)
           Q == HeldBy("native", e.native)
           R == HeldBy("cited", d.cited)
<1>1. /\ m \in Nat /\ n \in Nat
      /\ {b} \X (1 .. m) \subseteq P
      /\ Q = (P \ ({b} \X (1 .. m))) \cup ({b} \X (1 .. n))
      /\ (P \ ({b} \X (1 .. m))) \cap ({b} \X (1 .. n)) = {}
  BY HeldByChanged DEF Held, Opens
<1>2. /\ R \cap ({b} \X (1 .. m)) = {} /\ R \cap ({b} \X (1 .. n)) = {}
  <2>1. ASSUME NEW x \in R, NEW k \in Nat, x \in {b} \X (1 .. k) PROVE FALSE
    <3>1. PICK i : x \in {<<"cited", i>>} \X (1 .. d.cited[i].retained)
      BY PlacesOf
    <3> QED
      BY <2>1, <3>1
  <2> QED
    BY <1>1, <2>1
<1>3. Places(d) = P \cup R /\ Places(e) = Q \cup R
  BY DEF Places
<1> HIDE DEF b, m, n, P, Q, R
<1>4. /\ {b} \X (1 .. m) \subseteq Places(d)
      /\ Places(e) = (Places(d) \ ({b} \X (1 .. m))) \cup ({b} \X (1 .. n))
      /\ (Places(d) \ ({b} \X (1 .. m))) \cap ({b} \X (1 .. n)) = {}
  BY <1>1, <1>2, <1>3
<1>5. IsFiniteSet(Places(d))
  BY DEF Held
<1>6. /\ IsFiniteSet(Places(e)) /\ m <= Cardinality(Places(d))
      /\ Cardinality(Places(e)) = Cardinality(Places(d)) - m + n
  <2>1. m \in Nat /\ n \in Nat
    BY <1>1
  <2> DEFINE A == Places(d)
             B == Places(e)
             Old == {b} \X (1 .. m)
             New == {b} \X (1 .. n)
             Rest == A \ Old
  <2>2. IsFiniteSet(A) /\ A = Rest \cup Old /\ B = Rest \cup New /\ Rest \cap Old = {} /\ Rest \cap New = {}
    BY <1>4, <1>5
  <2>3. IsFiniteSet(Old) /\ Cardinality(Old) = m /\ IsFiniteSet(New) /\ Cardinality(New) = n
    BY <2>1, BlockPlaces
  <2> HIDE DEF A, B, Old, New, Rest
  <2>4. IsFiniteSet(Rest)
    <3>1. Rest \subseteq A
      BY <2>2
    <3> QED
      BY ONLY <2>2, <3>1, FS_Subset
  <2>5. Cardinality(Rest) \in Nat /\ Cardinality(A) = Cardinality(Rest) + m
    BY ONLY <2>2, <2>3, <2>4, PlacesAdd
  <2>6. IsFiniteSet(B) /\ Cardinality(B) = Cardinality(Rest) + n
    BY ONLY <2>2, <2>3, <2>4, PlacesAdd
  <2>7. IsFiniteSet(B) /\ m <= Cardinality(A) /\ Cardinality(B) = Cardinality(A) - m + n
    BY ONLY <2>1, <2>5, <2>6
  <2> QED
    BY <2>7 DEF A, B
<1>7. Retained(d) = Cardinality(Places(d)) /\ Retained(e) = Cardinality(Places(e))
  BY DEF Retained, Places
<1> QED
  BY <1>1, <1>5, <1>6, <1>7, FS_CardinalityType DEF m, n

\* What the steps of the decoder leave: an exact counter and no error among the events.
Exact(s) == Result(s) /\ Held(s.decoder) /\ Faultless(s.out)

\* A failed step leaves the counter exact and emits nothing.
LEMMA AnthropicErr ==
    ASSUME NEW s, NEW error, Held(s.decoder)
    PROVE  Exact(Anthropic!Err(s, error)) /\ Anthropic!Err(s, error).error = error
BY FaultlessEmpty DEF Exact, Result, Anthropic!Err

\* Emitting events leaves the decoder alone.
LEMMA AnthropicEmit ==
    ASSUME NEW s, NEW events, Exact(s), Faultless(events)
    PROVE  /\ Exact(Anthropic!Emit(s, events))
           /\ Anthropic!Emit(s, events).decoder = s.decoder
           /\ Anthropic!Emit(s, events).error = s.error
<1> DEFINE e == Anthropic!Emit(s, events)
<1>1. DOMAIN e = DOMAIN s /\ e.decoder = s.decoder /\ e.error = s.error /\ e.out = s.out \o events
  BY DEF Anthropic!Emit, Exact, Result
<1>2. Faultless(s.out \o events)
  BY FaultlessJoined DEF Exact
<1> HIDE DEF e
<1>3. Exact(e)
  BY <1>1, <1>2 DEF Exact, Result
<1> QED
  BY <1>1, <1>3 DEF e

\* Bytes are reserved, or the stream is interrupted before anything else changes.
LEMMA AnthropicReserve ==
    ASSUME NEW s, NEW bytes \in Nat, Exact(s), s.error = None
    PROVE  LET r == Anthropic!Reserve(s, bytes)
           IN  \/ r.error # None /\ Exact(r)
               \/ /\ r.error = None /\ Result(r) /\ r.out = s.out
                  /\ r.decoder = [s.decoder EXCEPT !.bytes = @ + bytes]
                  /\ s.decoder.bytes + bytes <= MaxPendingBytes
<1> DEFINE r == Anthropic!Reserve(s, bytes)
           more == [s EXCEPT !.decoder.bytes = @ + bytes]
<1>1. r = IF s.decoder.bytes + bytes > MaxPendingBytes THEN Anthropic!Err(s, "interrupted") ELSE more
  BY DEF Anthropic!Reserve
<1>2. s.decoder.bytes \in Nat
  BY FS_CardinalityType DEF Exact, Held, Retained, Places
<1>3. /\ DOMAIN more = DOMAIN s /\ more.error = s.error /\ more.out = s.out
      /\ more.decoder = [s.decoder EXCEPT !.bytes = @ + bytes]
  BY DEF Exact, Result
<1>4. None # "interrupted"
  BY NoneAssumption
<1>5. Exact(Anthropic!Err(s, "interrupted")) /\ Anthropic!Err(s, "interrupted").error = "interrupted"
  BY AnthropicErr DEF Exact
<1>6. CASE s.decoder.bytes + bytes > MaxPendingBytes
  BY <1>1, <1>4, <1>5, <1>6
<1>7. CASE ~(s.decoder.bytes + bytes > MaxPendingBytes)
  <2>1. r = more /\ s.decoder.bytes + bytes <= MaxPendingBytes
    BY <1>1, <1>2, <1>7, LimitsAssumption
  <2> HIDE DEF r, more
  <2>2. r.error = None /\ Result(r) /\ r.out = s.out /\ r.decoder = [s.decoder EXCEPT !.bytes = @ + bytes]
    BY <1>3, <2>1 DEF Exact, Result
  <2> QED
    BY <2>1, <2>2 DEF r
<1> QED
  BY <1>6, <1>7

\* The counter of a decoder in order is its retained bytes, within the limit.
LEMMA BytesHeld ==
    ASSUME NEW d, Held(d)
    PROVE  d.bytes \in Nat /\ d.bytes = Retained(d) /\ d.bytes <= MaxPendingBytes
BY FS_CardinalityType DEF Held, Retained, Places

\* One text block was changed, and the counter with it.
LEMMA CitedKept ==
    ASSUME NEW d, NEW e, NEW index, Held(d), index \in DOMAIN d.cited,
           {"bytes", "cited", "native"} \subseteq DOMAIN e, e.native = d.native,
           DOMAIN e.cited = DOMAIN d.cited,
           \A j \in DOMAIN d.cited : j # index => e.cited[j] = d.cited[j],
           {"retained", "buffered", "observing"} \subseteq DOMAIN e.cited[index],
           e.cited[index].retained \in Nat, e.cited[index].buffered \in Nat,
           e.cited[index].buffered <= e.cited[index].retained,
           e.bytes = d.bytes - d.cited[index].retained + e.cited[index].retained,
           e.bytes <= MaxPendingBytes
    PROVE  Held(e)
<1>1. Opens(e)
  BY DEF Held, Opens, Holds, Buffers
<1>2. \A j : j # index => /\ j \in DOMAIN e.cited <=> j \in DOMAIN d.cited
                          /\ j \in DOMAIN d.cited => e.cited[j].retained = d.cited[j].retained
  OBVIOUS
<1>3. IsFiniteSet(Places(e)) /\ Retained(e) = Retained(d) - Weight(d.cited, index) + Weight(e.cited, index)
  BY ONLY <1>1, <1>2, Held(d), e.native = d.native, CitedChanged
<1>4. Weight(d.cited, index) = d.cited[index].retained /\ Weight(e.cited, index) = e.cited[index].retained
  BY DEF Weight
<1>5. e.bytes = Retained(e)
  BY <1>3, <1>4, BytesHeld
<1> QED
  BY <1>1, <1>3, <1>5 DEF Held

\* A block that is open is counted.
LEMMA OpenCounted ==
    ASSUME NEW d, NEW index, Held(d)
    PROVE  /\ index \in DOMAIN d.cited =>
                /\ {"retained", "buffered", "observing"} \subseteq DOMAIN d.cited[index]
                /\ d.cited[index].retained \in Nat /\ d.cited[index].buffered \in Nat
                /\ d.cited[index].buffered <= d.cited[index].retained
                /\ d.cited[index].retained <= d.bytes
           /\ index \in DOMAIN d.native =>
                /\ "retained" \in DOMAIN d.native[index] /\ d.native[index].retained \in Nat
                /\ d.native[index].retained <= d.bytes
<1>1. Opens(d)
  BY DEF Held
<1>2. Weight(d.cited, index) <= Retained(d)
  BY <1>1, CitedChanged
<1>3. Weight(d.native, index) <= Retained(d)
  BY <1>1, NativeChanged
<1> QED
  BY <1>1, <1>2, <1>3, BytesHeld DEF Opens, Holds, Buffers, Weight

\* Observations, any number of them, are no errors.
LEMMA AnthropicObservation ==
    /\ Faultless(<<Anthropic!Observation>>)
    /\ \A n \in Nat : Faultless([i \in 1 .. n |-> Anthropic!Observation])
<1>1. Anthropic!Observation.event # "error"
  BY DEF Anthropic!Observation
<1>2. ASSUME NEW n \in Nat
      PROVE  Faultless([i \in 1 .. n |-> Anthropic!Observation])
  <2> DEFINE s == [i \in 1 .. n |-> Anthropic!Observation]
  <2>1. s = [i \in 1 .. n |-> s[i]]
    OBVIOUS
  <2>2. IsSequence(s) /\ Len(s) = n
    BY <2>1, SequenceBuilt
  <2> QED
    BY <1>1, <2>2 DEF Faultless
<1> QED
  BY <1>1, <1>2, FaultlessOne

\* retain_cited_text_frame
LEMMA AnthropicRetainFrame ==
    ASSUME NEW s, NEW index, Exact(s), s.error = None, index \in DOMAIN s.decoder.cited
    PROVE  LET r == Anthropic!RetainFrame(s, index)
           IN  Exact(r) /\ (r.error = None => index \in DOMAIN r.decoder.cited)
<1>1. CASE s.decoder.cited[index].observing
  <2>1. Anthropic!RetainFrame(s, index) = Anthropic!Emit(s, <<Anthropic!Observation>>)
    BY <1>1 DEF Anthropic!RetainFrame
  <2> QED
    BY <2>1, AnthropicEmit, AnthropicObservation
<1>2. CASE ~s.decoder.cited[index].observing
  <2> DEFINE r == Anthropic!Reserve(s, 1)
             q == [r EXCEPT !.decoder.cited[index].retained = @ + 1,
                            !.decoder.cited[index].buffered = @ + 1]
  <2>1. Anthropic!RetainFrame(s, index) = IF r.error # None THEN r ELSE q
    BY <1>2 DEF Anthropic!RetainFrame, Anthropic!Then
  <2>2. r.error # None => Exact(r)
    BY AnthropicReserve
  <2>3. ASSUME r.error = None PROVE Exact(q) /\ index \in DOMAIN q.decoder.cited
    <3> DEFINE d == s.decoder
    <3>1. /\ Result(r) /\ r.out = s.out /\ r.decoder = [d EXCEPT !.bytes = @ + 1]
          /\ d.bytes + 1 <= MaxPendingBytes
      BY <2>3, AnthropicReserve
    <3>2. /\ {"bytes", "cited", "native"} \subseteq DOMAIN d /\ d.bytes \in Nat
          /\ {"retained", "buffered", "observing"} \subseteq DOMAIN d.cited[index]
          /\ d.cited[index].retained \in Nat /\ d.cited[index].buffered \in Nat
          /\ d.cited[index].buffered <= d.cited[index].retained
      BY OpenCounted, BytesHeld DEF Exact, Held, Opens
    <3> HIDE DEF r
    <3>3. /\ Result(q) /\ q.out = r.out /\ {"bytes", "cited", "native"} \subseteq DOMAIN q.decoder
          /\ q.decoder.native = d.native /\ q.decoder.bytes = d.bytes + 1
          /\ DOMAIN q.decoder.cited = DOMAIN d.cited
          /\ \A j \in DOMAIN d.cited : j # index => q.decoder.cited[j] = d.cited[j]
      BY <3>1, <3>2 DEF Result
    <3>4. /\ DOMAIN q.decoder.cited[index] = DOMAIN d.cited[index]
          /\ q.decoder.cited[index].retained = d.cited[index].retained + 1
          /\ q.decoder.cited[index].buffered = d.cited[index].buffered + 1
      BY <3>1, <3>2 DEF Result
    <3> HIDE DEF q, d
    <3>5. Held(q.decoder)
      <4> DEFINE e == q.decoder
      <4>1. Held(d) /\ index \in DOMAIN d.cited
        BY DEF Exact, d
      <4> HIDE DEF e
      <4> QED
        BY <3>1, <3>2, <3>3, <3>4, <4>1, CitedKept DEF e
    <3> QED
      BY <3>1, <3>3, <3>5 DEF Exact, d
  <2> HIDE DEF r, q
  <2> QED
    BY <2>1, <2>2, <2>3
<1> QED
  BY <1>1, <1>2

\* A decoder whose counter went back with its blocks.
LEMMA AnthropicRelease ==
    ASSUME NEW s, NEW bytes \in Nat, Result(s), s.decoder.bytes \in Nat, bytes <= s.decoder.bytes
    PROVE  LET r == Anthropic!Release(s, bytes)
           IN  /\ DOMAIN r = DOMAIN s /\ r.out = s.out /\ r.error = s.error
               /\ r.decoder = [s.decoder EXCEPT !.bytes = @ - bytes]
<1> DEFINE r == Anthropic!Release(s, bytes)
           less == [s EXCEPT !.decoder.bytes = IF @ < bytes THEN 0 ELSE @ - bytes]
<1>1. r = less
  BY DEF Anthropic!Release
<1>2. ~(s.decoder.bytes < bytes)
  OBVIOUS
<1>3. /\ DOMAIN less = DOMAIN s /\ less.out = s.out /\ less.error = s.error
      /\ less.decoder = [s.decoder EXCEPT !.bytes = @ - bytes]
  BY <1>2 DEF Result
<1> QED
  BY <1>1, <1>3

\* observe_cited_text_frames
LEMMA AnthropicObserveFrames ==
    ASSUME NEW s, NEW index, Exact(s), index \in DOMAIN s.decoder.cited
    PROVE  LET r == Anthropic!ObserveFrames(s, index) IN Exact(r) /\ r.error = s.error
<1>1. CASE s.decoder.cited[index].observing
  BY <1>1 DEF Anthropic!ObserveFrames
<1>2. CASE ~s.decoder.cited[index].observing
  <2> DEFINE d == s.decoder
             buffered == d.cited[index].buffered
             o == [s EXCEPT !.decoder.cited[index].observing = TRUE,
                            !.decoder.cited[index].retained = @ - buffered,
                            !.decoder.cited[index].buffered = 0]
             q == Anthropic!Release(o, buffered)
             seen == [i \in 1 .. buffered |-> Anthropic!Observation]
  <2>1. Anthropic!ObserveFrames(s, index) = Anthropic!Emit(q, seen)
    BY <1>2 DEF Anthropic!ObserveFrames
  <2>2. /\ {"bytes", "cited", "native"} \subseteq DOMAIN d /\ d.bytes \in Nat
        /\ {"retained", "buffered", "observing"} \subseteq DOMAIN d.cited[index]
        /\ d.cited[index].retained \in Nat /\ buffered \in Nat
        /\ buffered <= d.cited[index].retained
        /\ d.cited[index].retained <= d.bytes /\ d.bytes <= MaxPendingBytes
    BY OpenCounted, BytesHeld DEF Exact, Held, Opens
  <2>3. /\ Result(o) /\ o.out = s.out /\ o.error = s.error /\ DOMAIN o.decoder = DOMAIN d
        /\ o.decoder.native = d.native /\ o.decoder.bytes = d.bytes
        /\ DOMAIN o.decoder.cited = DOMAIN d.cited
        /\ \A j \in DOMAIN d.cited : j # index => o.decoder.cited[j] = d.cited[j]
    BY ZenonT(40), <2>2 DEF Exact, Result
  <2>4. /\ DOMAIN o.decoder.cited[index] = DOMAIN d.cited[index]
        /\ o.decoder.cited[index].retained = d.cited[index].retained - buffered
        /\ o.decoder.cited[index].buffered = 0
    BY <2>2 DEF Exact, Result
  <2> HIDE DEF o, d, buffered
  <2>5. /\ DOMAIN q = DOMAIN o /\ q.out = s.out /\ q.error = s.error
        /\ q.decoder = [o.decoder EXCEPT !.bytes = @ - buffered]
    <3>1. Result(o) /\ o.decoder.bytes \in Nat /\ buffered \in Nat /\ buffered <= o.decoder.bytes
      BY <2>2, <2>3
    <3>2. /\ DOMAIN q = DOMAIN o /\ q.out = o.out /\ q.error = o.error
          /\ q.decoder = [o.decoder EXCEPT !.bytes = @ - buffered]
      BY ONLY <3>1, AnthropicRelease
    <3> QED
      BY <2>3, <3>2
  <2> HIDE DEF q
  <2> DEFINE e == q.decoder
  <2>6. /\ {"bytes", "cited", "native"} \subseteq DOMAIN e
        /\ e.native = d.native /\ e.bytes = d.bytes - buffered /\ e.cited = o.decoder.cited
    BY <2>2, <2>3, <2>5
  <2> HIDE DEF e
  <2>7. Held(e)
    <3>1. Held(d) /\ index \in DOMAIN d.cited
      BY DEF Exact, d
    <3>2. /\ e.cited[index].retained \in Nat /\ e.cited[index].buffered \in Nat
          /\ e.cited[index].buffered <= e.cited[index].retained
          /\ e.bytes = d.bytes - d.cited[index].retained + e.cited[index].retained
          /\ e.bytes <= MaxPendingBytes
      BY <2>2, <2>4, <2>6, LimitsAssumption
    <3>3. /\ DOMAIN e.cited = DOMAIN d.cited
          /\ \A j \in DOMAIN d.cited : j # index => e.cited[j] = d.cited[j]
          /\ {"retained", "buffered", "observing"} \subseteq DOMAIN e.cited[index]
      BY <2>2, <2>3, <2>4, <2>6
    <3> QED
      BY ONLY <2>6, <3>1, <3>2, <3>3, CitedKept
  <2>8. Exact(q)
    BY <2>3, <2>5, <2>7 DEF e, Exact, Result
  <2>9. Faultless(seen)
    BY <2>2, AnthropicObservation
  <2> HIDE DEF seen
  <2> QED
    BY <2>1, <2>5, <2>8, <2>9, AnthropicEmit
<1> QED
  BY <1>1, <1>2

\* A piece of a text block: one byte of its own.
LEMMA AnthropicPiece ==
    ASSUME NEW s, NEW index, Exact(s), s.error = None, index \in DOMAIN s.decoder.cited,
           NEW r, r = Anthropic!Reserve(s, 1), r.error = None,
           NEW p, DOMAIN p = DOMAIN r, p.out = r.out, p.error = r.error,
           DOMAIN p.decoder = DOMAIN r.decoder,
           p.decoder.native = r.decoder.native, p.decoder.bytes = r.decoder.bytes,
           DOMAIN p.decoder.cited = DOMAIN r.decoder.cited,
           \A j \in DOMAIN r.decoder.cited : j # index => p.decoder.cited[j] = r.decoder.cited[j],
           {"retained", "buffered", "observing"} \subseteq DOMAIN p.decoder.cited[index],
           p.decoder.cited[index].retained = r.decoder.cited[index].retained + 1,
           p.decoder.cited[index].buffered = r.decoder.cited[index].buffered
    PROVE  Exact(p) /\ p.error = None /\ index \in DOMAIN p.decoder.cited
<1> DEFINE d == s.decoder
           e == p.decoder
<1>1. /\ Result(r) /\ r.out = s.out /\ r.error = None /\ r.decoder = [d EXCEPT !.bytes = @ + 1]
      /\ d.bytes + 1 <= MaxPendingBytes
  BY AnthropicReserve
<1>2. /\ {"bytes", "cited", "native"} \subseteq DOMAIN d /\ d.bytes \in Nat
      /\ {"retained", "buffered", "observing"} \subseteq DOMAIN d.cited[index]
      /\ d.cited[index].retained \in Nat /\ d.cited[index].buffered \in Nat
      /\ d.cited[index].buffered <= d.cited[index].retained
  BY OpenCounted, BytesHeld DEF Exact, Held, Opens
<1>3. /\ DOMAIN r.decoder = DOMAIN d /\ r.decoder.native = d.native /\ r.decoder.bytes = d.bytes + 1
      /\ r.decoder.cited = d.cited
  BY <1>1, <1>2
<1>4. /\ {"bytes", "cited", "native"} \subseteq DOMAIN e /\ e.native = d.native /\ e.bytes = d.bytes + 1
      /\ DOMAIN e.cited = DOMAIN d.cited
      /\ \A j \in DOMAIN d.cited : j # index => e.cited[j] = d.cited[j]
      /\ {"retained", "buffered", "observing"} \subseteq DOMAIN e.cited[index]
      /\ e.cited[index].retained = d.cited[index].retained + 1
      /\ e.cited[index].buffered = d.cited[index].buffered
  BY <1>2, <1>3
<1>5. Held(d) /\ index \in DOMAIN d.cited
  BY DEF Exact
<1> HIDE DEF d, e
<1>6. Held(e)
  BY ONLY <1>1, <1>2, <1>4, <1>5, CitedKept
<1> QED
  BY <1>1, <1>4, <1>5, <1>6 DEF Exact, Result, d, e

\* cited_text_delta, mark_cited_text_incomplete
LEMMA AnthropicTextBlockDelta ==
    ASSUME NEW s, NEW index, NEW delta, Exact(s), s.error = None, index \in DOMAIN s.decoder.cited
    PROVE  Exact(Anthropic!TextBlockDelta(s, index, delta))
<1> DEFINE r == Anthropic!Reserve(s, 1)
<1>1. r.error # None => Exact(r)
  BY AnthropicReserve
<1>2. r.error = None =>
        /\ {"decoder", "out", "error"} \subseteq DOMAIN r
        /\ {"bytes", "cited", "native"} \subseteq DOMAIN r.decoder /\ index \in DOMAIN r.decoder.cited
        /\ {"retained", "buffered", "observing"} \subseteq DOMAIN r.decoder.cited[index]
  <2> HAVE r.error = None
  <2>1. Result(r) /\ r.decoder = [s.decoder EXCEPT !.bytes = @ + 1]
    BY AnthropicReserve
  <2>2. /\ {"bytes", "cited", "native"} \subseteq DOMAIN s.decoder
        /\ {"retained", "buffered", "observing"} \subseteq DOMAIN s.decoder.cited[index]
    BY OpenCounted DEF Exact, Held, Opens
  <2> HIDE DEF r
  <2> QED
    BY <2>1, <2>2 DEF Result
<1>3. CASE delta.type = "text"
  <2> DEFINE p == [r EXCEPT !.decoder.cited[index].retained = @ + 1, !.decoder.cited[index].pieces = @ + 1]
             q == Anthropic!RetainFrame(p, index)
             t == Anthropic!Emit(q, <<Anthropic!TextDelta(index)>>)
  <2>1. Anthropic!TextBlockDelta(s, index, delta) =
          IF r.error # None THEN r ELSE IF q.error # None THEN q ELSE t
    BY <1>3 DEF Anthropic!TextBlockDelta, Anthropic!Then
  <2>2. r.error = None => Exact(p) /\ p.error = None /\ index \in DOMAIN p.decoder.cited
    <3> HAVE r.error = None
    <3> DEFINE u == r
    <3>1. u = Anthropic!Reserve(s, 1) /\ u.error = None
      OBVIOUS
    <3> HIDE DEF r
    <3>2. /\ DOMAIN p = DOMAIN r /\ p.out = r.out /\ p.error = r.error
          /\ DOMAIN p.decoder = DOMAIN r.decoder
          /\ p.decoder.native = r.decoder.native /\ p.decoder.bytes = r.decoder.bytes
          /\ DOMAIN p.decoder.cited = DOMAIN r.decoder.cited
          /\ \A j \in DOMAIN r.decoder.cited : j # index => p.decoder.cited[j] = r.decoder.cited[j]
      BY <1>2
    <3>3. /\ {"retained", "buffered", "observing"} \subseteq DOMAIN p.decoder.cited[index]
          /\ p.decoder.cited[index].retained = r.decoder.cited[index].retained + 1
          /\ p.decoder.cited[index].buffered = r.decoder.cited[index].buffered
      BY <1>2
    <3> HIDE DEF p
    <3> QED
      BY <3>1, <3>2, <3>3, AnthropicPiece
  <2>3. r.error = None => Exact(q)
    <3> HIDE DEF p, r
    <3> QED
      BY <2>2, AnthropicRetainFrame
  <2>4. Faultless(<<Anthropic!TextDelta(index)>>)
    BY FaultlessOne DEF Anthropic!TextDelta, Anthropic!WholeText
  <2> HIDE DEF q, r
  <2>5. r.error = None => Exact(t)
    BY <2>3, <2>4, AnthropicEmit
  <2> HIDE DEF t
  <2> QED
    BY <1>1, <2>1, <2>3, <2>5
<1>4. CASE delta.type = "citation"
  <2> DEFINE p == [r EXCEPT !.decoder.cited[index].retained = @ + 1, !.decoder.cited[index].citations = TRUE]
             q == Anthropic!RetainFrame(p, index)
             t == Anthropic!ObserveFrames(q, index)
  <2>1. Anthropic!TextBlockDelta(s, index, delta) =
          IF r.error # None THEN r ELSE IF q.error # None THEN q ELSE t
    BY <1>4 DEF Anthropic!TextBlockDelta, Anthropic!Then
  <2>2. r.error = None => Exact(p) /\ p.error = None /\ index \in DOMAIN p.decoder.cited
    <3> HAVE r.error = None
    <3> DEFINE u == r
    <3>1. u = Anthropic!Reserve(s, 1) /\ u.error = None
      OBVIOUS
    <3> HIDE DEF r
    <3>2. /\ DOMAIN p = DOMAIN r /\ p.out = r.out /\ p.error = r.error
          /\ DOMAIN p.decoder = DOMAIN r.decoder
          /\ p.decoder.native = r.decoder.native /\ p.decoder.bytes = r.decoder.bytes
          /\ DOMAIN p.decoder.cited = DOMAIN r.decoder.cited
          /\ \A j \in DOMAIN r.decoder.cited : j # index => p.decoder.cited[j] = r.decoder.cited[j]
      BY <1>2
    <3>3. /\ {"retained", "buffered", "observing"} \subseteq DOMAIN p.decoder.cited[index]
          /\ p.decoder.cited[index].retained = r.decoder.cited[index].retained + 1
          /\ p.decoder.cited[index].buffered = r.decoder.cited[index].buffered
      BY <1>2
    <3> HIDE DEF p
    <3> QED
      BY <3>1, <3>2, <3>3, AnthropicPiece
  <2>3. r.error = None => Exact(q) /\ (q.error = None => index \in DOMAIN q.decoder.cited)
    <3> HIDE DEF p, r
    <3> QED
      BY <2>2, AnthropicRetainFrame
  <2> HIDE DEF q, r
  <2>4. r.error = None /\ q.error = None => Exact(t)
    BY <2>3, AnthropicObserveFrames
  <2> HIDE DEF t
  <2> QED
    BY <1>1, <2>1, <2>3, <2>4
<1>5. CASE delta.type \notin {"text", "citation"}
  <2> DEFINE p == [s EXCEPT !.decoder.cited[index].incomplete = TRUE]
             q == Anthropic!RetainFrame(p, index)
             t == Anthropic!ObserveFrames(q, index)
  <2>1. Anthropic!TextBlockDelta(s, index, delta) = IF q.error # None THEN q ELSE t
    BY <1>5 DEF Anthropic!TextBlockDelta, Anthropic!Then
  <2>2. Exact(p) /\ p.error = None /\ index \in DOMAIN p.decoder.cited
    <3> DEFINE d == s.decoder
               e == p.decoder
    <3>1. /\ {"bytes", "cited", "native"} \subseteq DOMAIN d /\ Held(d)
          /\ {"retained", "buffered", "observing"} \subseteq DOMAIN d.cited[index]
          /\ d.cited[index].retained \in Nat /\ d.cited[index].buffered \in Nat
          /\ d.cited[index].buffered <= d.cited[index].retained
          /\ d.bytes \in Nat /\ d.bytes <= MaxPendingBytes /\ index \in DOMAIN d.cited
      BY OpenCounted, BytesHeld DEF Exact, Held, Opens
    <3>2. /\ DOMAIN p = DOMAIN s /\ p.out = s.out /\ p.error = s.error
          /\ DOMAIN e = DOMAIN d /\ e.native = d.native /\ e.bytes = d.bytes
          /\ DOMAIN e.cited = DOMAIN d.cited
          /\ \A j \in DOMAIN d.cited : j # index => e.cited[j] = d.cited[j]
      BY <3>1 DEF Exact, Result
    <3>3. /\ {"retained", "buffered", "observing"} \subseteq DOMAIN e.cited[index]
          /\ e.cited[index].retained = d.cited[index].retained
          /\ e.cited[index].buffered = d.cited[index].buffered
      BY <3>1 DEF Exact, Result
    <3> HIDE DEF p, d, e
    <3>4. e.bytes = d.bytes - d.cited[index].retained + e.cited[index].retained
      BY <3>1, <3>2, <3>3
    <3>5. Held(e)
      BY ONLY <3>1, <3>2, <3>3, <3>4, CitedKept
    <3> QED
      BY <3>1, <3>2, <3>5 DEF Exact, Result, e
  <2> HIDE DEF p
  <2>3. Exact(q) /\ (q.error = None => index \in DOMAIN q.decoder.cited)
    BY <2>2, AnthropicRetainFrame
  <2> HIDE DEF q
  <2>4. q.error = None => Exact(t)
    BY <2>3, AnthropicObserveFrames
  <2> HIDE DEF t
  <2> QED
    BY <2>1, <2>3, <2>4
<1> QED
  BY <1>3, <1>4, <1>5

\* A text block was opened or closed, and the counter changed with it.
LEMMA CitedSet ==
    ASSUME NEW d, NEW e, NEW index, Held(d),
           {"bytes", "cited", "native"} \subseteq DOMAIN e, e.native = d.native,
           \A j : j # index => /\ j \in DOMAIN e.cited <=> j \in DOMAIN d.cited
                               /\ j \in DOMAIN d.cited => e.cited[j] = d.cited[j],
           index \in DOMAIN e.cited =>
              /\ {"retained", "buffered", "observing"} \subseteq DOMAIN e.cited[index]
              /\ e.cited[index].retained \in Nat /\ e.cited[index].buffered \in Nat
              /\ e.cited[index].buffered <= e.cited[index].retained,
           e.bytes = d.bytes - Weight(d.cited, index) + Weight(e.cited, index),
           e.bytes <= MaxPendingBytes
    PROVE  Held(e)
<1>1. Opens(e)
  BY DEF Held, Opens, Holds, Buffers
<1>2. \A j : j # index => /\ j \in DOMAIN e.cited <=> j \in DOMAIN d.cited
                          /\ j \in DOMAIN d.cited => e.cited[j].retained = d.cited[j].retained
  OBVIOUS
<1>3. IsFiniteSet(Places(e)) /\ Retained(e) = Retained(d) - Weight(d.cited, index) + Weight(e.cited, index)
  BY ONLY <1>1, <1>2, Held(d), e.native = d.native, CitedChanged
<1>4. e.bytes = Retained(e)
  BY <1>3, BytesHeld
<1> QED
  BY <1>1, <1>3, <1>4 DEF Held

\* A native block is replaced and the counter follows: it is exact again.
LEMMA NativeSet ==
    ASSUME NEW d, NEW e, NEW index, Held(d),
           {"bytes", "cited", "native"} \subseteq DOMAIN e, e.cited = d.cited,
           \A j : j # index => /\ j \in DOMAIN e.native <=> j \in DOMAIN d.native
                               /\ j \in DOMAIN d.native => e.native[j] = d.native[j],
           index \in DOMAIN e.native =>
              "retained" \in DOMAIN e.native[index] /\ e.native[index].retained \in Nat,
           e.bytes = d.bytes - Weight(d.native, index) + Weight(e.native, index),
           e.bytes <= MaxPendingBytes
    PROVE  Held(e)
<1>1. Opens(e)
  BY DEF Held, Opens, Holds, Buffers
<1>2. \A j : j # index => /\ j \in DOMAIN e.native <=> j \in DOMAIN d.native
                          /\ j \in DOMAIN d.native => e.native[j].retained = d.native[j].retained
  OBVIOUS
<1>3. IsFiniteSet(Places(e)) /\ Retained(e) = Retained(d) - Weight(d.native, index) + Weight(e.native, index)
  BY ONLY <1>1, <1>2, Held(d), e.cited = d.cited, NativeChanged
<1>4. e.bytes = Retained(e)
  BY <1>3, BytesHeld
<1> QED
  BY <1>1, <1>3, <1>4 DEF Held

\* What does not touch the blocks keeps the counter exact.
LEMMA BlocksKept ==
    ASSUME NEW d, NEW e, Held(d), {"bytes", "cited", "native"} \subseteq DOMAIN e,
           e.cited = d.cited, e.native = d.native, e.bytes = d.bytes
    PROVE  Held(e)
BY DEF Held, Opens, Places, Retained

\* A text block ends: its held citations are released.
LEMMA AnthropicFinishText ==
    ASSUME NEW s, NEW index, Exact(s), index \in DOMAIN s.decoder.cited
    PROVE  Exact(Anthropic!FinishText(s, index))
<1> DEFINE d == s.decoder
           pending == d.cited[index]
           content == IF pending.incomplete \/ ~(pending.citations \/ pending.opaque) THEN <<>>
                      ELSE IF pending.opaque THEN <<Anthropic!ProviderContent(index)>>
                      ELSE <<Anthropic!TextContent(index, pending.pieces)>>
           events == (IF pending.observing THEN <<Anthropic!Observation>> ELSE <<>>) \o content
           left == Anthropic!Without(d.cited, index)
           o == [s EXCEPT !.decoder.cited = Anthropic!Without(@, index)]
           q == Anthropic!Release(o, pending.retained)
<1>1. Anthropic!FinishText(s, index) = Anthropic!Emit(q, events)
  BY DEF Anthropic!FinishText
<1>2. Faultless(events)
  <2>1. Faultless(content)
    BY FaultlessEmpty, FaultlessOne DEF Anthropic!ProviderContent, Anthropic!TextContent
  <2> HIDE DEF content
  <2> QED
    BY <2>1, FaultlessEmpty, AnthropicObservation, FaultlessJoined
<1> HIDE DEF events
<1>3. /\ {"bytes", "cited", "native"} \subseteq DOMAIN d /\ Held(d)
      /\ pending.retained \in Nat /\ pending.retained <= d.bytes
      /\ d.bytes \in Nat /\ d.bytes <= MaxPendingBytes
  BY OpenCounted, BytesHeld DEF Exact, Held, Opens
<1>4. /\ Result(o) /\ o.out = s.out /\ DOMAIN o.decoder = DOMAIN d
      /\ o.decoder.native = d.native /\ o.decoder.bytes = d.bytes /\ o.decoder.cited = left
  BY <1>3 DEF Exact, Result
<1>5. /\ index \notin DOMAIN left
      /\ \A j : j # index => /\ j \in DOMAIN left <=> j \in DOMAIN d.cited
                             /\ j \in DOMAIN d.cited => left[j] = d.cited[j]
  BY DEF Anthropic!Without
<1>6. Weight(d.cited, index) = pending.retained /\ Weight(left, index) = 0
  BY <1>5 DEF Weight
<1> HIDE DEF o, left, d, pending
<1>7. /\ DOMAIN q = DOMAIN o /\ q.out = s.out
      /\ q.decoder = [o.decoder EXCEPT !.bytes = @ - pending.retained]
  <2>1. Result(o) /\ o.decoder.bytes \in Nat /\ pending.retained <= o.decoder.bytes /\ pending.retained \in Nat
    BY <1>3, <1>4
  <2> QED
    BY <1>4, <2>1, AnthropicRelease
<1> HIDE DEF q
<1> DEFINE e == q.decoder
<1>8. /\ {"bytes", "cited", "native"} \subseteq DOMAIN e
      /\ e.native = d.native /\ e.cited = left /\ e.bytes = d.bytes - pending.retained
  BY <1>3, <1>4, <1>7
<1>9. e.bytes = d.bytes - Weight(d.cited, index) + Weight(e.cited, index) /\ e.bytes <= MaxPendingBytes
  BY <1>3, <1>6, <1>8, LimitsAssumption
<1> HIDE DEF e
<1>10. Held(e)
  BY ONLY <1>3, <1>5, <1>8, <1>9, CitedSet
<1>11. Exact(q)
  BY <1>4, <1>7, <1>10 DEF Exact, Result, e
<1> QED
  BY <1>1, <1>2, <1>11, AnthropicEmit

\* A text block opens: its bytes are reserved.
LEMMA AnthropicStartText ==
    ASSUME NEW s, NEW index, NEW block, Exact(s), s.error = None
    PROVE  Exact(Anthropic!StartText(s, index, block))
<1> DEFINE d == s.decoder
           observing == block.citations \/ block.opaque
           pieces == IF block.filled THEN 1 ELSE 0
           retained == 1 + pieces + (IF block.citations THEN 1 ELSE 0) + (IF observing THEN 0 ELSE 1)
           buffered == IF observing THEN 0 ELSE 1
           pending == [pieces |-> pieces, citations |-> block.citations, opaque |-> block.opaque,
                       incomplete |-> FALSE, observing |-> observing,
                       buffered |-> buffered, retained |-> retained]
           r == Anthropic!Reserve(s, retained)
           p == [r EXCEPT !.decoder.cited = Anthropic!With(@, index, pending)]
           events == (IF observing THEN <<Anthropic!Observation>> ELSE <<>>)
                     \o (IF block.filled THEN <<Anthropic!TextDelta(index)>> ELSE <<>>)
<1>1. Anthropic!StartText(s, index, block) =
        IF index \in DOMAIN d.cited THEN Anthropic!Err(s, "interrupted")
        ELSE IF r.error # None THEN r ELSE Anthropic!Emit(p, events)
  BY DEF Anthropic!StartText, Anthropic!Then
<1>2. Faultless(events)
  <2>1. Faultless(<<Anthropic!TextDelta(index)>>)
    BY FaultlessOne DEF Anthropic!TextDelta, Anthropic!WholeText
  <2> QED
    BY <2>1, FaultlessEmpty, AnthropicObservation, FaultlessJoined
<1>3. retained \in Nat /\ buffered \in Nat /\ buffered <= retained
  OBVIOUS
<1>4. /\ {"retained", "buffered", "observing"} \subseteq DOMAIN pending
      /\ pending.retained = retained /\ pending.buffered = buffered
  OBVIOUS
<1> HIDE DEF events, pending, retained, buffered
<1>5. r.error # None => Exact(r)
  BY <1>3, AnthropicReserve
<1>6. Exact(Anthropic!Err(s, "interrupted"))
  BY AnthropicErr DEF Exact
<1>7. ASSUME index \notin DOMAIN d.cited, r.error = None
      PROVE  Exact(p)
  <2> DEFINE more == Anthropic!With(d.cited, index, pending)
             e == p.decoder
  <2>1. /\ Result(r) /\ r.out = s.out /\ r.decoder = [d EXCEPT !.bytes = @ + retained]
        /\ d.bytes + retained <= MaxPendingBytes
    BY <1>3, <1>7, AnthropicReserve
  <2>2. {"bytes", "cited", "native"} \subseteq DOMAIN d /\ Held(d) /\ d.bytes \in Nat
    BY BytesHeld DEF Exact, Held, Opens
  <2> HIDE DEF r
  <2>3. r.decoder.cited = d.cited
    BY <2>1, <2>2
  <2>4. /\ Result(p) /\ p.out = s.out /\ {"bytes", "cited", "native"} \subseteq DOMAIN e
        /\ e.native = d.native /\ e.bytes = d.bytes + retained /\ e.cited = more
    BY <2>1, <2>2, <2>3 DEF Result
  <2>5. /\ index \in DOMAIN more /\ more[index] = pending
        /\ \A j : j # index => /\ j \in DOMAIN more <=> j \in DOMAIN d.cited
                               /\ j \in DOMAIN d.cited => more[j] = d.cited[j]
    BY DEF Anthropic!With
  <2> HIDE DEF p, e, more
  <2>6. Weight(d.cited, index) = 0 /\ Weight(more, index) = retained
    BY <1>4, <1>7, <2>5 DEF Weight
  <2>7. e.bytes = d.bytes - Weight(d.cited, index) + Weight(e.cited, index) /\ e.bytes <= MaxPendingBytes
    BY <1>3, <2>1, <2>2, <2>4, <2>6
  <2> HIDE DEF d
  <2>8. Held(e)
    BY ONLY <1>3, <1>4, <2>2, <2>4, <2>5, <2>7, CitedSet
  <2> QED
    BY <2>4, <2>8 DEF Exact, e
<1> HIDE DEF r, p
<1>8. index \notin DOMAIN d.cited /\ r.error = None => Exact(Anthropic!Emit(p, events))
  BY <1>2, <1>7, AnthropicEmit
<1> QED
  BY <1>1, <1>5, <1>6, <1>8

\* A native block opens: its bytes are reserved.
LEMMA AnthropicStartNative ==
    ASSUME NEW s, NEW index, NEW block, Exact(s), s.error = None
    PROVE  Exact(Anthropic!StartNative(s, index, block))
<1> DEFINE d == s.decoder
           pending == [assembles |-> block.type = "server_tool_use", input |-> <<>>,
                       seen |-> FALSE, incomplete |-> FALSE, retained |-> 1]
           r == Anthropic!Reserve(s, 1)
           p == [r EXCEPT !.decoder.native = Anthropic!With(@, index, pending)]
<1>1. Anthropic!StartNative(s, index, block) =
        IF index \in DOMAIN d.native THEN Anthropic!Err(s, "interrupted")
        ELSE IF r.error # None THEN r ELSE Anthropic!Emit(p, <<Anthropic!Observation>>)
  BY DEF Anthropic!StartNative, Anthropic!Then
<1>4. "retained" \in DOMAIN pending /\ pending.retained = 1
  OBVIOUS
<1> HIDE DEF pending
<1>5. r.error # None => Exact(r)
  BY AnthropicReserve
<1>6. Exact(Anthropic!Err(s, "interrupted"))
  BY AnthropicErr DEF Exact
<1>7. ASSUME index \notin DOMAIN d.native, r.error = None
      PROVE  Exact(p)
  <2> DEFINE more == Anthropic!With(d.native, index, pending)
             e == p.decoder
  <2>1. /\ Result(r) /\ r.out = s.out /\ r.decoder = [d EXCEPT !.bytes = @ + 1]
        /\ d.bytes + 1 <= MaxPendingBytes
    BY <1>7, AnthropicReserve
  <2>2. {"bytes", "cited", "native"} \subseteq DOMAIN d /\ Held(d) /\ d.bytes \in Nat
    BY BytesHeld DEF Exact, Held, Opens
  <2> HIDE DEF r
  <2>3. r.decoder.native = d.native
    BY <2>1, <2>2
  <2>4. /\ Result(p) /\ p.out = s.out /\ {"bytes", "cited", "native"} \subseteq DOMAIN e
        /\ e.cited = d.cited /\ e.bytes = d.bytes + 1 /\ e.native = more
    BY <2>1, <2>2, <2>3 DEF Result
  <2>5. /\ index \in DOMAIN more /\ more[index] = pending
        /\ \A j : j # index => /\ j \in DOMAIN more <=> j \in DOMAIN d.native
                               /\ j \in DOMAIN d.native => more[j] = d.native[j]
    BY DEF Anthropic!With
  <2> HIDE DEF p, e, more
  <2>6. Weight(d.native, index) = 0 /\ Weight(more, index) = 1
    BY <1>4, <1>7, <2>5 DEF Weight
  <2>7. e.bytes = d.bytes - Weight(d.native, index) + Weight(e.native, index) /\ e.bytes <= MaxPendingBytes
    BY <2>1, <2>2, <2>4, <2>6
  <2> HIDE DEF d
  <2>8. 1 \in Nat
    OBVIOUS
  <2>9. Held(e)
    BY ONLY <1>4, <2>2, <2>4, <2>5, <2>7, <2>8, NativeSet
  <2> QED
    BY <2>4, <2>9 DEF Exact, e
<1> HIDE DEF r, p
<1>8. index \notin DOMAIN d.native /\ r.error = None => Exact(Anthropic!Emit(p, <<Anthropic!Observation>>))
  BY <1>7, AnthropicEmit, AnthropicObservation
<1> QED
  BY <1>1, <1>5, <1>6, <1>8

\* The input of a native block grows by the bytes reserved for it.
LEMMA AnthropicNativeBlockDelta ==
    ASSUME NEW s, NEW index, NEW delta, Exact(s), s.error = None, index \in DOMAIN s.decoder.native,
           delta.type = "input" => Len(delta.text) \in Nat
    PROVE  Exact(Anthropic!NativeBlockDelta(s, index, delta))
<1> DEFINE d == s.decoder
           seen == Anthropic!Emit(s, <<Anthropic!Observation>>)
           n == Len(delta.text)
           r == Anthropic!Reserve(seen, n)
           p == [r EXCEPT !.decoder.native[index].retained = @ + n,
                          !.decoder.native[index].input = @ \o delta.text,
                          !.decoder.native[index].seen = TRUE]
           q == [seen EXCEPT !.decoder.native[index].incomplete = TRUE]
           grows == d.native[index].assembles /\ delta.type = "input"
<1>1. Anthropic!NativeBlockDelta(s, index, delta) =
        IF grows THEN IF r.error # None THEN r ELSE p ELSE q
  BY DEF Anthropic!NativeBlockDelta, Anthropic!Then
<1>2. Exact(seen) /\ seen.decoder = d /\ seen.error = None
  BY AnthropicEmit, AnthropicObservation
<1>3. /\ {"bytes", "cited", "native"} \subseteq DOMAIN d /\ Held(d) /\ index \in DOMAIN d.native
      /\ "retained" \in DOMAIN d.native[index] /\ d.native[index].retained \in Nat
      /\ d.bytes \in Nat /\ d.bytes <= MaxPendingBytes
  BY OpenCounted, BytesHeld DEF Exact, Held, Opens
<1>4. grows => n \in Nat
  OBVIOUS
<1> HIDE DEF n, seen
<1>5. n \in Nat /\ r.error # None => Exact(r)
  BY <1>2, AnthropicReserve
<1>6. ASSUME n \in Nat, r.error = None
      PROVE  Exact(p)
  <2> DEFINE e == p.decoder
  <2>1. /\ Result(r) /\ r.out = seen.out /\ r.decoder = [d EXCEPT !.bytes = @ + n]
        /\ d.bytes + n <= MaxPendingBytes
    BY <1>2, <1>6, AnthropicReserve
  <2> HIDE DEF r
  <2>2. /\ Result(p) /\ p.out = r.out /\ {"bytes", "cited", "native"} \subseteq DOMAIN e
        /\ e.cited = d.cited /\ e.bytes = d.bytes + n
        /\ DOMAIN e.native = DOMAIN d.native
        /\ \A j \in DOMAIN d.native : j # index => e.native[j] = d.native[j]
    BY <1>3, <2>1 DEF Result
  <2>3. "retained" \in DOMAIN e.native[index] /\ e.native[index].retained = d.native[index].retained + n
    BY <1>3, <2>1 DEF Result
  <2> HIDE DEF p, e
  <2>4. /\ \A j : j # index => /\ j \in DOMAIN e.native <=> j \in DOMAIN d.native
                               /\ j \in DOMAIN d.native => e.native[j] = d.native[j]
        /\ e.native[index].retained \in Nat
        /\ e.bytes = d.bytes - Weight(d.native, index) + Weight(e.native, index) /\ e.bytes <= MaxPendingBytes
    BY <1>3, <1>6, <2>1, <2>2, <2>3 DEF Weight
  <2> HIDE DEF d
  <2>5. Held(e)
    BY ONLY <1>3, <2>2, <2>3, <2>4, NativeSet
  <2> QED
    BY <1>2, <2>1, <2>2, <2>5 DEF Exact, e
<1>7. Exact(q)
  <2> DEFINE e == q.decoder
  <2>1. /\ DOMAIN q = DOMAIN seen /\ q.out = seen.out /\ {"bytes", "cited", "native"} \subseteq DOMAIN e
        /\ e.cited = d.cited /\ e.bytes = d.bytes
        /\ DOMAIN e.native = DOMAIN d.native
        /\ \A j \in DOMAIN d.native : j # index => e.native[j] = d.native[j]
    BY <1>2, <1>3 DEF Exact, Result
  <2>2. "retained" \in DOMAIN e.native[index] /\ e.native[index].retained = d.native[index].retained
    BY <1>2, <1>3 DEF Exact, Result
  <2> HIDE DEF q, e
  <2>3. /\ \A j : j # index => /\ j \in DOMAIN e.native <=> j \in DOMAIN d.native
                               /\ j \in DOMAIN d.native => e.native[j] = d.native[j]
        /\ e.native[index].retained \in Nat
        /\ e.bytes = d.bytes - Weight(d.native, index) + Weight(e.native, index) /\ e.bytes <= MaxPendingBytes
    BY <1>3, <2>1, <2>2 DEF Weight
  <2> HIDE DEF d
  <2>4. Held(e)
    BY ONLY <1>3, <2>1, <2>2, <2>3, NativeSet
  <2> QED
    BY <1>2, <2>1, <2>4 DEF Exact, Result, e
<1> HIDE DEF r, p, q, grows
<1> QED
  BY <1>1, <1>4, <1>5, <1>6, <1>7

\* A native block ends: all its bytes are released.
LEMMA AnthropicFinishNative ==
    ASSUME NEW s, NEW index, Exact(s), index \in DOMAIN s.decoder.native
    PROVE  Exact(Anthropic!FinishNative(s, index))
<1> DEFINE d == s.decoder
           pending == d.native[index]
           complete == ~pending.incomplete /\ (pending.seen => Anthropic!IsObject(pending.input))
           events == <<Anthropic!Observation>> \o (IF complete THEN <<Anthropic!ProviderContent(index)>> ELSE <<>>)
           left == Anthropic!Without(d.native, index)
           o == [s EXCEPT !.decoder.native = Anthropic!Without(@, index)]
           q == Anthropic!Release(o, pending.retained)
<1>1. Anthropic!FinishNative(s, index) = Anthropic!Emit(q, events)
  BY DEF Anthropic!FinishNative
<1>2. Faultless(events)
  <2>1. Faultless(<<Anthropic!ProviderContent(index)>>)
    BY FaultlessOne DEF Anthropic!ProviderContent
  <2> HIDE DEF complete
  <2> QED
    BY <2>1, FaultlessEmpty, AnthropicObservation, FaultlessJoined
<1> HIDE DEF events
<1>3. /\ {"bytes", "cited", "native"} \subseteq DOMAIN d /\ Held(d)
      /\ pending.retained \in Nat /\ pending.retained <= d.bytes
      /\ d.bytes \in Nat /\ d.bytes <= MaxPendingBytes
  BY OpenCounted, BytesHeld DEF Exact, Held, Opens
<1>4. /\ Result(o) /\ o.out = s.out /\ DOMAIN o.decoder = DOMAIN d
      /\ o.decoder.cited = d.cited /\ o.decoder.bytes = d.bytes /\ o.decoder.native = left
  BY <1>3 DEF Exact, Result
<1>5. /\ index \notin DOMAIN left
      /\ \A j : j # index => /\ j \in DOMAIN left <=> j \in DOMAIN d.native
                             /\ j \in DOMAIN d.native => left[j] = d.native[j]
  BY DEF Anthropic!Without
<1>6. Weight(d.native, index) = pending.retained /\ Weight(left, index) = 0
  BY <1>5 DEF Weight
<1> HIDE DEF o, left, d, pending
<1>7. /\ DOMAIN q = DOMAIN o /\ q.out = s.out
      /\ q.decoder = [o.decoder EXCEPT !.bytes = @ - pending.retained]
  <2>1. Result(o) /\ o.decoder.bytes \in Nat /\ pending.retained <= o.decoder.bytes /\ pending.retained \in Nat
    BY <1>3, <1>4
  <2> QED
    BY <1>4, <2>1, AnthropicRelease
<1> HIDE DEF q
<1> DEFINE e == q.decoder
<1>8. /\ {"bytes", "cited", "native"} \subseteq DOMAIN e
      /\ e.cited = d.cited /\ e.native = left /\ e.bytes = d.bytes - pending.retained
  BY <1>3, <1>4, <1>7
<1>9. e.bytes = d.bytes - Weight(d.native, index) + Weight(e.native, index) /\ e.bytes <= MaxPendingBytes
  BY <1>3, <1>6, <1>8, LimitsAssumption
<1> HIDE DEF e
<1>10. Held(e)
  BY ONLY <1>3, <1>5, <1>8, <1>9, NativeSet
<1>11. Exact(q)
  BY <1>4, <1>7, <1>10 DEF Exact, Result, e
<1> QED
  BY <1>1, <1>2, <1>11, AnthropicEmit

\* The fields a step leaves.
LEMMA AnthropicFields ==
    ASSUME NEW s, Exact(s)
    PROVE  Result(s) /\ {"bytes", "cited", "native"} \subseteq DOMAIN s.decoder
BY DEF Exact, Held, Opens

\* A step that leaves the blocks alone.
LEMMA AnthropicBeside ==
    ASSUME NEW s, NEW p, NEW events, Exact(s), DOMAIN p = DOMAIN s, p.out = s.out,
           DOMAIN p.decoder = DOMAIN s.decoder, p.decoder.cited = s.decoder.cited,
           p.decoder.native = s.decoder.native, p.decoder.bytes = s.decoder.bytes,
           Faultless(events)
    PROVE  Exact(Anthropic!Emit(p, events))
<1>1. Held(s.decoder) /\ {"bytes", "cited", "native"} \subseteq DOMAIN p.decoder
  BY DEF Exact, Held, Opens
<1>2. Held(p.decoder)
  BY <1>1, BlocksKept
<1>3. Exact(p)
  BY <1>2 DEF Exact, Result
<1> QED
  BY <1>3, AnthropicEmit

\* The events of Messages that are no errors.
LEMMA AnthropicEvents ==
    \A index, id, name, fragment, stop :
        /\ Faultless(<<Anthropic!TextDelta(index)>>)
        /\ Faultless(<<Anthropic!ReasoningDelta(index)>>)
        /\ Faultless(<<Anthropic!Signature(index)>>)
        /\ Faultless(<<Anthropic!RedactedThinking(index)>>)
        /\ Faultless(<<Anthropic!BlockEnd(index)>>)
        /\ Faultless(<<Anthropic!Start(id)>>)
        /\ Faultless(<<Anthropic!End(stop)>>)
        /\ Faultless(<<Anthropic!ToolCallDelta(index, id, name, fragment)>>)
BY FaultlessOne DEF Anthropic!TextDelta, Anthropic!WholeText, Anthropic!ReasoningDelta, Anthropic!Signature,
   Anthropic!RedactedThinking, Anthropic!BlockEnd, Anthropic!Start, Anthropic!End, Anthropic!ToolCallDelta

\* Each kind of block opens with the counter exact.
LEMMA AnthropicBlockStart ==
    ASSUME NEW s, NEW index, NEW block, Exact(s), s.error = None,
           block.type \in {"text", "server_tool_use", "web_search_tool_result", "thinking", "redacted_thinking", "tool_use"}
    PROVE  Exact(Anthropic!BlockStart(s, index, block))
<1>1. CASE block.type = "text"
  BY <1>1, AnthropicStartText DEF Anthropic!BlockStart
<1>2. CASE block.type \in {"server_tool_use", "web_search_tool_result"}
  BY <1>2, AnthropicStartNative DEF Anthropic!BlockStart
<1>3. CASE block.type = "thinking"
  BY <1>3 DEF Anthropic!BlockStart
<1>4. CASE block.type = "redacted_thinking"
  BY <1>4, AnthropicEmit, AnthropicEvents DEF Anthropic!BlockStart
<1>5. CASE block.type = "tool_use"
  <2> DEFINE p == [s EXCEPT !.decoder.tools = Append(@, [index |-> index, id |-> block.id, name |-> block.name])]
             events == <<Anthropic!ToolCallDelta(index, block.id, block.name, <<>>)>>
  <2>1. Anthropic!BlockStart(s, index, block) = Anthropic!Emit(p, events)
    BY <1>5 DEF Anthropic!BlockStart
  <2>2. /\ DOMAIN p = DOMAIN s /\ p.out = s.out
        /\ DOMAIN p.decoder = DOMAIN s.decoder /\ p.decoder.cited = s.decoder.cited
        /\ p.decoder.native = s.decoder.native /\ p.decoder.bytes = s.decoder.bytes
    BY AnthropicFields DEF Result
  <2>3. Faultless(events)
    BY AnthropicEvents
  <2> HIDE DEF p, events
  <2> QED
    BY <2>1, <2>2, <2>3, AnthropicBeside
<1> QED
  BY <1>1, <1>2, <1>3, <1>4, <1>5

\* A delta of a block that is not held retains nothing.
LEMMA AnthropicPlainDelta ==
    ASSUME NEW s, NEW index, NEW delta, Exact(s)
    PROVE  Exact(Anthropic!PlainDelta(s, index, delta))
<1> DEFINE tool == \E i \in DOMAIN s.decoder.tools : s.decoder.tools[i].index = index
           call == Anthropic!ToolAt(s.decoder, index)
           p == [s EXCEPT !.decoder.broken = IF tool THEN @ \cup {index} ELSE @]
<1>1. \/ \E events : Faultless(events) /\ Anthropic!PlainDelta(s, index, delta) = Anthropic!Emit(s, events)
      \/ Anthropic!PlainDelta(s, index, delta) = Anthropic!Emit(p, <<Anthropic!Observation>>)
  <2>1. CASE delta.type = "text"
    BY <2>1, AnthropicEvents DEF Anthropic!PlainDelta
  <2>2. CASE delta.type = "thinking"
    BY <2>2, AnthropicEvents DEF Anthropic!PlainDelta
  <2>3. CASE delta.type = "signature"
    BY <2>3, AnthropicEvents DEF Anthropic!PlainDelta
  <2>4. CASE delta.type = "input" /\ tool
    <3>1. Anthropic!PlainDelta(s, index, delta) =
            Anthropic!Emit(s, <<Anthropic!ToolCallDelta(index, call.id, call.name, delta.text)>>)
      BY <2>4 DEF Anthropic!PlainDelta
    <3> QED
      BY <3>1, AnthropicEvents
  <2>5. CASE delta.type = "unknown"
    BY <2>5 DEF Anthropic!PlainDelta
  <2>6. CASE delta.type \notin {"text", "thinking", "signature", "unknown"} /\ ~(delta.type = "input" /\ tool)
    <3>1. Anthropic!PlainDelta(s, index, delta) = Anthropic!Emit(s, <<Anthropic!Observation>>)
      BY <2>6 DEF Anthropic!PlainDelta
    <3> QED
      BY <3>1, AnthropicObservation
  <2> QED
    BY <2>1, <2>2, <2>3, <2>4, <2>5, <2>6
<1>2. /\ DOMAIN p = DOMAIN s /\ p.out = s.out
      /\ DOMAIN p.decoder = DOMAIN s.decoder /\ p.decoder.cited = s.decoder.cited
      /\ p.decoder.native = s.decoder.native /\ p.decoder.bytes = s.decoder.bytes
  BY AnthropicFields DEF Result
<1> HIDE DEF p
<1>3. Exact(Anthropic!Emit(p, <<Anthropic!Observation>>))
  BY <1>2, AnthropicBeside, AnthropicObservation
<1> QED
  BY <1>1, <1>3, AnthropicEmit

\* A delta of any block leaves the counter exact.
LEMMA AnthropicBlockDelta ==
    ASSUME NEW s, NEW index, NEW delta, Exact(s), s.error = None,
           delta.type = "input" => Len(delta.text) \in Nat
    PROVE  Exact(Anthropic!BlockDelta(s, index, delta))
<1> DEFINE noted == IF delta.type = "citation" THEN Anthropic!Emit(s, <<Anthropic!Observation>>) ELSE s
<1>1. Anthropic!BlockDelta(s, index, delta) =
        IF index \in DOMAIN s.decoder.cited THEN Anthropic!TextBlockDelta(noted, index, delta)
        ELSE IF index \in DOMAIN s.decoder.native THEN Anthropic!NativeBlockDelta(noted, index, delta)
        ELSE Anthropic!PlainDelta(noted, index, delta)
  BY DEF Anthropic!BlockDelta
<1>2. Exact(noted) /\ noted.decoder = s.decoder /\ noted.error = None
  BY AnthropicEmit, AnthropicObservation
<1> HIDE DEF noted
<1> QED
  BY <1>1, <1>2, AnthropicTextBlockDelta, AnthropicNativeBlockDelta, AnthropicPlainDelta

\* So does the stop of any block.
LEMMA AnthropicBlockStop ==
    ASSUME NEW s, NEW index, Exact(s)
    PROVE  Exact(Anthropic!BlockStop(s, index))
<1> DEFINE closed == IF index \in DOMAIN s.decoder.native THEN Anthropic!FinishNative(s, index)
                     ELSE IF index \in DOMAIN s.decoder.cited THEN Anthropic!FinishText(s, index) ELSE s
<1>1. Anthropic!BlockStop(s, index) = Anthropic!Emit(closed, <<Anthropic!BlockEnd(index)>>)
  BY DEF Anthropic!BlockStop
<1>2. Exact(closed)
  BY AnthropicFinishNative, AnthropicFinishText
<1> HIDE DEF closed
<1> QED
  BY <1>1, <1>2, AnthropicEmit, AnthropicEvents

\* The end of a Messages stream leaves the counter exact.
LEMMA AnthropicFinishInto ==
    ASSUME NEW s, Exact(s)
    PROVE  Exact(Anthropic!FinishInto(s))
<1> DEFINE p == [s EXCEPT !.decoder.done = TRUE]
           events == <<Anthropic!End(IF s.decoder.stop = None THEN "end_turn" ELSE s.decoder.stop)>>
<1>1. Anthropic!FinishInto(s) = IF s.decoder.done THEN s ELSE Anthropic!Emit(p, events)
  BY DEF Anthropic!FinishInto
<1>2. /\ DOMAIN p = DOMAIN s /\ p.out = s.out
      /\ DOMAIN p.decoder = DOMAIN s.decoder /\ p.decoder.cited = s.decoder.cited
      /\ p.decoder.native = s.decoder.native /\ p.decoder.bytes = s.decoder.bytes
  BY AnthropicFields DEF Result
<1>3. Faultless(events)
  BY AnthropicEvents
<1> HIDE DEF p, events
<1> QED
  BY <1>1, <1>2, <1>3, AnthropicBeside

\* decode_frame and finish keep the counter exact and emit no error of their own.
LEMMA AnthropicFaultless ==
    /\ Held(Anthropic!NewDecoder)
    /\ \A d : Held(d) =>
         /\ \A f : Anthropic!IsFrame(f) => Exact(Anthropic!DecodeFrame(d, f))
         /\ Exact(Anthropic!Finish(d))
<1>1. Held(Anthropic!NewDecoder)
  <2> DEFINE d == Anthropic!NewDecoder
  <2>1. /\ {"bytes", "cited", "native"} \subseteq DOMAIN d /\ d.bytes = 0
        /\ d.cited = <<>> /\ d.native = <<>>
    BY DEF Anthropic!NewDecoder
  <2>2. DOMAIN d.cited = {} /\ DOMAIN d.native = {}
    BY <2>1, EmptySequence, SequenceFacts
  <2> HIDE DEF d
  <2>3. Places(d) = {}
    <3>1. \A x : x \notin HeldBy("cited", d.cited) /\ x \notin HeldBy("native", d.native)
      BY <2>2, PlacesOf
    <3> QED
      BY <3>1 DEF Places
  <2>4. IsFiniteSet(Places(d)) /\ Cardinality(Places(d)) = 0
    BY <2>3, FS_EmptySet
  <2>5. Retained(d) = 0
    BY <2>4 DEF Retained, Places
  <2>6. Held(d)
    BY <2>1, <2>2, <2>4, <2>5, LimitsAssumption DEF Held, Opens, Holds, Buffers
  <2> QED
    BY <2>6 DEF d
<1>2. ASSUME NEW d, Held(d)
      PROVE  /\ \A f : Anthropic!IsFrame(f) => Exact(Anthropic!DecodeFrame(d, f))
             /\ Exact(Anthropic!Finish(d))
  <2> DEFINE s == Anthropic!Ok(d, <<>>)
  <2>1. Exact(s) /\ s.error = None /\ s.decoder = d /\ DOMAIN s = {"decoder", "out", "error"}
    BY <1>2, FaultlessEmpty DEF Exact, Result, Anthropic!Ok
  <2>2. \A error : Exact(Anthropic!Err(s, error))
    BY <1>2, <2>1, AnthropicErr
  <2>3. {"bytes", "cited", "native"} \subseteq DOMAIN d
    BY <1>2 DEF Held, Opens
  <2>4. ASSUME NEW f, Anthropic!IsFrame(f)
        PROVE  Exact(Anthropic!DecodeFrame(d, f))
    <3> DEFINE r == Anthropic!DecodeFrame(d, f)
    <3>1. CASE f.type \in {"blank", "ping"}
      <4>1. r = s
        BY <3>1 DEF Anthropic!DecodeFrame
      <4> QED
        BY <2>1, <4>1
    <3>2. CASE f.type \in {"garbled", "error"}
      <4>1. r = Anthropic!Err(s, "invalid") \/ r = Anthropic!Err(s, "provider")
        BY <3>2 DEF Anthropic!DecodeFrame
      <4> QED
        BY <2>2, <4>1
    <3>3. CASE f.type = "future"
      <4>1. r = Anthropic!Emit(s, <<Anthropic!Observation>>)
        BY <3>3 DEF Anthropic!DecodeFrame
      <4> HIDE DEF s
      <4> QED
        BY <2>1, <4>1, AnthropicEmit, AnthropicObservation
    <3>4. CASE f.type = "fallback"
      <4> DEFINE p == [s EXCEPT !.decoder.fallback = @ \cup {f.index}]
                 events == <<Anthropic!Observation, Anthropic!Observation>>
      <4>1. r = Anthropic!Emit(p, events)
        BY <3>4 DEF Anthropic!DecodeFrame
      <4>2. /\ DOMAIN p = DOMAIN s /\ p.out = s.out
            /\ DOMAIN p.decoder = DOMAIN s.decoder /\ p.decoder.cited = s.decoder.cited
            /\ p.decoder.native = s.decoder.native /\ p.decoder.bytes = s.decoder.bytes
        <5> HIDE DEF s
        <5> QED
          BY <2>1, <2>3
      <4>3. Faultless(events)
        <5> DEFINE o == Anthropic!Observation
        <5>1. o.event # "error"
          BY DEF Anthropic!Observation
        <5> HIDE DEF o
        <5>2. <<o, o>> \in Seq({o}) /\ Len(<<o, o>>) = 2 /\ \A i \in 1 .. 2 : <<o, o>>[i] = o
          OBVIOUS
        <5>3. Faultless(<<o, o>>)
          BY <5>1, <5>2, SequenceOfAny DEF Faultless
        <5> QED
          BY <5>3 DEF o
      <4> HIDE DEF p, events, r, s
      <4> QED
        BY <2>1, <4>1, <4>2, <4>3, AnthropicBeside DEF r
    <3>5. CASE f.type = "message_start"
      <4>1. r = Anthropic!Emit(s, <<Anthropic!Start(f.id)>>)
        BY <3>5 DEF Anthropic!DecodeFrame
      <4> HIDE DEF s
      <4> QED
        BY <2>1, <4>1, AnthropicEmit, AnthropicEvents
    <3>6. CASE f.type = "block_start"
      <4>1. r = Anthropic!BlockStart(s, f.index, f.block)
        BY <3>6 DEF Anthropic!DecodeFrame
      <4> HIDE DEF s
      <4> QED
        BY <2>1, <2>4, <3>6, <4>1, AnthropicBlockStart DEF Anthropic!IsFrame
    <3>7. CASE f.type = "block_delta"
      <4>1. r = IF f.index \in d.fallback THEN s ELSE Anthropic!BlockDelta(s, f.index, f.delta)
        BY <3>7 DEF Anthropic!DecodeFrame
      <4>2. f.delta.type = "input" => Len(f.delta.text) \in Nat
        BY <2>4, <3>7, LenProperties DEF Anthropic!IsFrame, Anthropic!IsSequence
      <4> HIDE DEF s
      <4> QED
        BY <2>1, <4>1, <4>2, AnthropicBlockDelta
    <3>8. CASE f.type = "block_stop"
      <4>1. r = IF f.index \in d.fallback THEN s ELSE Anthropic!BlockStop(s, f.index)
        BY <3>8 DEF Anthropic!DecodeFrame
      <4> HIDE DEF s
      <4> QED
        BY <2>1, <4>1, AnthropicBlockStop
    <3>9. CASE f.type = "message_delta"
      <4> DEFINE p == [s EXCEPT !.decoder.stop = f.stop]
                 events == <<Anthropic!Observation>> \o (IF d.fallback = {} THEN <<>> ELSE <<Anthropic!Observation>>)
      <4>1. r = Anthropic!Emit(p, events)
        BY <3>9 DEF Anthropic!DecodeFrame
      <4>2. /\ DOMAIN p = DOMAIN s /\ p.out = s.out
            /\ DOMAIN p.decoder = DOMAIN s.decoder /\ p.decoder.cited = s.decoder.cited
            /\ p.decoder.native = s.decoder.native /\ p.decoder.bytes = s.decoder.bytes
        <5> HIDE DEF s
        <5> QED
          BY <2>1, <2>3
      <4>3. Faultless(events)
        BY FaultlessEmpty, AnthropicObservation, FaultlessJoined
      <4> HIDE DEF p, events, r, s
      <4> QED
        BY <2>1, <4>1, <4>2, <4>3, AnthropicBeside DEF r
    <3>10. CASE f.type = "message_stop"
      <4>1. r = IF Anthropic!NothingHeld(d) THEN Anthropic!FinishInto(s) ELSE Anthropic!Err(s, "interrupted")
        BY <3>10 DEF Anthropic!DecodeFrame
      <4> HIDE DEF s
      <4> QED
        BY <2>1, <2>2, <4>1, AnthropicFinishInto
    <3> QED
      BY <2>4, <3>1, <3>2, <3>3, <3>4, <3>5, <3>6, <3>7, <3>8, <3>9, <3>10 DEF Anthropic!IsFrame
  <2>5. Exact(Anthropic!Finish(d))
    <3>1. \/ Anthropic!Finish(d) = Anthropic!Err(s, "interrupted")
          \/ Anthropic!Finish(d) = Anthropic!FinishInto(s)
      BY DEF Anthropic!Finish
    <3> HIDE DEF s
    <3> QED
      BY <2>1, <2>2, <3>1, AnthropicFinishInto
  <2> QED
    BY <2>4, <2>5
<1> QED
  BY <1>1, <1>2

-----------------------------------------------------------------------------
(* Server-sent events.                                                     *)

\* A byte ends a line or goes on with the last one; there always is a last one.
LEMMA SseLineByte ==
    ASSUME NEW B, NEW lines \in Seq(Seq(B)), lines # <<>>, NEW b \in B
    PROVE  Sse!LineByte(lines, b) \in Seq(Seq(B)) /\ Sse!LineByte(lines, b) # <<>>
<1>1. <<>> \in Seq(B)
  OBVIOUS
<1>2. Append(lines, <<>>) \in Seq(Seq(B)) /\ Append(lines, <<>>) # <<>>
  BY <1>1, AppendProperties
<1>3. Len(lines) \in Nat \ {0}
  BY EmptySeq, LenProperties
<1>4. lines[Len(lines)] \in Seq(B)
  BY <1>3, ElementOfSeq
<1>5. Append(lines[Len(lines)], b) \in Seq(B)
  BY <1>4, AppendProperties
<1>6. [lines EXCEPT ![Len(lines)] = Append(@, b)] \in Seq(Seq(B))
      /\ [lines EXCEPT ![Len(lines)] = Append(@, b)] # <<>>
  <2> DEFINE last == Append(lines[Len(lines)], b)
  <2>1. last \in Seq(B) /\ Len(lines) \in 1 .. Len(lines)
    BY <1>3, <1>5
  <2> HIDE DEF last
  <2>2. [lines EXCEPT ![Len(lines)] = last] \in Seq(Seq(B)) /\ Len([lines EXCEPT ![Len(lines)] = last]) = Len(lines)
    BY <2>1, ExceptSeq
  <2>3. [lines EXCEPT ![Len(lines)] = last] # <<>>
    BY <1>3, <2>2
  <2> QED
    BY <2>2, <2>3 DEF last
<1> QED
  BY <1>2, <1>6 DEF Sse!LineByte

\* An event is split into lines of its bytes.
LEMMA SseSplitLines ==
    ASSUME NEW B, NEW bytes \in Seq(B)
    PROVE  Sse!SplitLines(bytes) \in Seq(Seq(B))
<1>1. Len(bytes) \in Nat
  BY LenProperties
<1>2. \E t : t = [i \in 0 .. Len(bytes) |-> IF i = 0 THEN <<<<>>>> ELSE Sse!LineByte(t[i - 1], bytes[i])]
  <2>1. PICK t : Runs(t, "SplitLines", bytes, <<<<>>>>, Len(bytes))
    BY <1>1, Loop
  <2> QED
    BY <2>1 DEF Runs, Body
<1>3. PICK t : /\ t = [i \in 0 .. Len(bytes) |-> IF i = 0 THEN <<<<>>>> ELSE Sse!LineByte(t[i - 1], bytes[i])]
               /\ Sse!SplitLines(bytes) = t[Len(bytes)]
  BY <1>2 DEF Sse!SplitLines
<1> DEFINE I == {i \in 0 .. Len(bytes) : t[i] \in Seq(Seq(B)) /\ t[i] # <<>>}
<1>4. 0 \in I
  <2>1. t[0] = <<<<>>>>
    BY <1>1, <1>3
  <2>2. <<>> \in Seq(B)
    OBVIOUS
  <2>3. <<<<>>>> \in Seq(Seq(B)) /\ <<<<>>>> # <<>>
    BY <2>2
  <2>4. 0 \in 0 .. Len(bytes) /\ t[0] \in Seq(Seq(B)) /\ t[0] # <<>>
    BY ONLY <1>1, <2>1, <2>3
  <2> QED
    BY <2>4
<1>5. ASSUME NEW i \in 1 .. Len(bytes), i - 1 \in I
      PROVE  i \in I
  <2>1. t[i] = Sse!LineByte(t[i - 1], bytes[i])
    <3>1. i \in 0 .. Len(bytes) /\ i # 0
      BY <1>1
    <3> QED
      BY ONLY <1>3, <3>1
  <2>2. i \in 0 .. Len(bytes) /\ t[i - 1] \in Seq(Seq(B)) /\ t[i - 1] # <<>>
    BY <1>1, <1>5
  <2>3. bytes[i] \in B
    BY ElementOfSeq
  <2> QED
    BY <2>1, <2>2, <2>3, SseLineByte
<1>6. \A i \in 0 .. Len(bytes) : i \in I
  <2> HIDE DEF I
  <2> QED
    BY <1>1, <1>4, <1>5, UpTo
<1>7. Len(bytes) \in I
  BY <1>1, <1>6
<1> QED
  BY <1>3, <1>7

\* The lines of these bytes that carry data.
Fields(B) == {line \in Seq(B) : Sse!DataLine(line)}

\* Of the lines only the data lines are kept.
LEMMA SseDataLines ==
    ASSUME NEW B, NEW lines \in Seq(Seq(B))
    PROVE  Sse!DataLines(lines) \in Seq(Fields(B))
<1> DEFINE Add(r, i) == IF Sse!DataLine(lines[i]) THEN Append(r, lines[i]) ELSE r
<1>1. Len(lines) \in Nat
  BY LenProperties
<1>2. \E t : t = [i \in 0 .. Len(lines) |-> IF i = 0 THEN <<>> ELSE Add(t[i - 1], i)]
  <2>1. PICK t : Runs(t, "DataLines", lines, <<>>, Len(lines))
    BY <1>1, Loop
  <2> QED
    BY <2>1 DEF Runs, Body
<1>3. PICK t : /\ t = [i \in 0 .. Len(lines) |-> IF i = 0 THEN <<>> ELSE Add(t[i - 1], i)]
               /\ Sse!DataLines(lines) = t[Len(lines)]
  BY <1>2 DEF Sse!DataLines
<1> DEFINE I == {i \in 0 .. Len(lines) : t[i] \in Seq(Fields(B))}
<1>4. 0 \in I
  BY <1>1, <1>3
<1>5. ASSUME NEW i \in 1 .. Len(lines), i - 1 \in I
      PROVE  i \in I
  <2>1. t[i] = Add(t[i - 1], i)
    <3> DEFINE n == Len(lines)
    <3>1. n \in Nat /\ i \in 1 .. n /\ t = [j \in 0 .. n |-> IF j = 0 THEN <<>> ELSE Add(t[j - 1], j)]
      BY <1>1, <1>3
    <3> HIDE DEF n, Add
    <3> QED
      BY ONLY <3>1
  <2>2. i \in 0 .. Len(lines) /\ t[i - 1] \in Seq(Fields(B))
    BY <1>1, <1>5
  <2>3. lines[i] \in Seq(B)
    BY ElementOfSeq
  <2>4. Sse!DataLine(lines[i]) => lines[i] \in Fields(B)
    BY <2>3 DEF Fields
  <2>5. Sse!DataLine(lines[i]) => Append(t[i - 1], lines[i]) \in Seq(Fields(B))
    BY <2>2, <2>4, AppendProperties
  <2> QED
    BY <2>1, <2>2, <2>5
<1>6. \A i \in 0 .. Len(lines) : i \in I
  <2> HIDE DEF I
  <2> QED
    BY <1>1, <1>4, <1>5, UpTo
<1>7. Len(lines) \in I
  BY <1>1, <1>6
<1> QED
  BY <1>3, <1>7

\* An event yields at most one frame, of its data lines.
LEMMA SseParseEvent ==
    ASSUME NEW B, NEW event \in Seq(B)
    PROVE  Sse!ParseEvent(event) \in Seq(Seq(Fields(B)))
<1>1. Sse!DataLines(Sse!SplitLines(event)) \in Seq(Fields(B))
  BY SseSplitLines, SseDataLines
<1> QED
  BY <1>1 DEF Sse!ParseEvent

\* What the framing has made of bytes of B.
SplitOf(B, s) ==
    /\ {"buffer", "skip", "frames", "error"} \subseteq DOMAIN s
    /\ s.buffer \in Seq(B) /\ Len(s.buffer) <= MaxEventBytes
    /\ s.frames \in Seq(Seq(Fields(B)))

\* One turn of push_batch keeps the buffer within its limit.
LEMMA SsePushByte ==
    ASSUME NEW B, NEW s, SplitOf(B, s), NEW b \in B, Sse!LF \in B
    PROVE  SplitOf(B, Sse!PushByte(s, b))
<1> DEFINE buffer == Append(s.buffer, IF b.byte = "cr" THEN Sse!LF ELSE b)
           ends == Sse!EndsEvent(buffer)
           large == ~ends /\ Len(buffer) > MaxEventBytes
           kept == [s EXCEPT !.skip = FALSE]
           pushed == [buffer |-> IF ends \/ large THEN <<>> ELSE buffer,
                      skip |-> b.byte = "cr",
                      frames |-> IF ends THEN s.frames \o Sse!ParseEvent(SubSeq(buffer, 1, Len(buffer) - 1)) ELSE s.frames,
                      error |-> IF large THEN "interrupted" ELSE None]
<1>1. Sse!PushByte(s, b) = IF s.error # None THEN s ELSE IF s.skip /\ b.byte = "lf" THEN kept ELSE pushed
  BY DEF Sse!PushByte
<1>2. buffer \in Seq(B) /\ Len(buffer) = Len(s.buffer) + 1 /\ Len(s.buffer) \in Nat
  BY AppendProperties, LenProperties DEF SplitOf
<1>3. SubSeq(buffer, 1, Len(buffer) - 1) \in Seq(B)
  <2>1. \A i \in 1 .. Len(buffer) - 1 : buffer[i] \in B
    BY <1>2, ElementOfSeq
  <2>2. Len(buffer) - 1 \in Nat
    BY <1>2
  <2> HIDE DEF buffer
  <2> QED
    BY <1>2, <2>1, <2>2, SubSeqProperties
<1>4. s.frames \o Sse!ParseEvent(SubSeq(buffer, 1, Len(buffer) - 1)) \in Seq(Seq(Fields(B)))
  BY <1>3, SseParseEvent, ConcatProperties DEF SplitOf
<1>5. SplitOf(B, kept)
  BY DEF SplitOf
<1>6. SplitOf(B, pushed)
  <2>1. /\ DOMAIN pushed = {"buffer", "skip", "frames", "error"}
        /\ pushed.buffer = IF ends \/ large THEN <<>> ELSE buffer
        /\ pushed.frames = IF ends THEN s.frames \o Sse!ParseEvent(SubSeq(buffer, 1, Len(buffer) - 1)) ELSE s.frames
    OBVIOUS
  <2> HIDE DEF pushed
  <2>2. <<>> \in Seq(B) /\ Len(<<>>) = 0
    OBVIOUS
  <2>3. ~ends /\ ~large => Len(buffer) <= MaxEventBytes
    BY <1>2, LimitsAssumption
  <2> HIDE DEF buffer, ends, large
  <2>4. pushed.buffer \in Seq(B) /\ Len(pushed.buffer) <= MaxEventBytes
    BY <1>2, <2>1, <2>2, <2>3, LimitsAssumption
  <2> QED
    BY <1>4, <2>1, <2>4 DEF SplitOf
<1> HIDE DEF kept, pushed
<1> QED
  BY <1>1, <1>5, <1>6

\* So do all turns.
LEMMA SsePushEach ==
    ASSUME NEW B, NEW s, SplitOf(B, s), NEW bytes \in Seq(B), Sse!LF \in B
    PROVE  SplitOf(B, Sse!PushEach(s, bytes))
<1>1. Len(bytes) \in Nat
  BY LenProperties
<1>2. \E t : t = [i \in 0 .. Len(bytes) |-> IF i = 0 THEN s ELSE Sse!PushByte(t[i - 1], bytes[i])]
  <2>1. PICK t : Runs(t, "PushEach", bytes, s, Len(bytes))
    BY <1>1, Loop
  <2> QED
    BY <2>1 DEF Runs, Body
<1>3. PICK t : /\ t = [i \in 0 .. Len(bytes) |-> IF i = 0 THEN s ELSE Sse!PushByte(t[i - 1], bytes[i])]
               /\ Sse!PushEach(s, bytes) = t[Len(bytes)]
  BY <1>2 DEF Sse!PushEach
<1> DEFINE I == {i \in 0 .. Len(bytes) : SplitOf(B, t[i])}
<1>4. 0 \in I
  BY <1>1, <1>3
<1>5. ASSUME NEW i \in 1 .. Len(bytes), i - 1 \in I
      PROVE  i \in I
  <2>1. t[i] = Sse!PushByte(t[i - 1], bytes[i])
    BY <1>1, <1>3
  <2>2. i \in 0 .. Len(bytes) /\ SplitOf(B, t[i - 1])
    BY <1>1, <1>5
  <2>3. bytes[i] \in B
    BY ElementOfSeq
  <2> QED
    BY <2>1, <2>2, <2>3, SsePushByte
<1>6. \A i \in 0 .. Len(bytes) : i \in I
  <2> HIDE DEF I
  <2> QED
    BY <1>1, <1>4, <1>5, UpTo
<1>7. Len(bytes) \in I
  BY <1>1, <1>6
<1> QED
  BY <1>3, <1>7

-----------------------------------------------------------------------------
(* Event streams.                                                          *)

\* The messages that bytes of B can make are in M.
Speaks(B, M) ==
    /\ \A b \in B : b.byte = "lengths" => b.total \in Nat /\ b.headers \in Nat
    /\ \A b \in B : b.byte = "payload" => b.payload \in M
    /\ {[type |-> "ignored"], [type |-> "malformed"], [type |-> "exception"]} \subseteq M

TurnOf(B, M, s) ==
    /\ {"buffer", "unread", "frames", "error", "over"} \subseteq DOMAIN s
    /\ s.buffer \in Seq(B) /\ Len(s.buffer) <= MaxFrameBytes
    /\ s.unread \in Seq(B)
    /\ s.frames \in Seq(M)
    /\ s.over \in BOOLEAN

\* A piece of a sequence of B is one.
LEMMA Cut ==
    ASSUME NEW B, NEW s \in Seq(B), NEW m \in Nat \ {0}, NEW n \in Nat, n <= Len(s)
    PROVE  SubSeq(s, m, n) \in Seq(B) /\ Len(SubSeq(s, m, n)) = IF m <= n THEN n - m + 1 ELSE 0
<1>1. \A i \in m .. n : s[i] \in B
  BY ElementOfSeq, LenProperties
<1> QED
  BY <1>1, SubSeqProperties

\* Filling the buffer up to a size takes no more than was unread.
LEMMA EventStreamFill ==
    ASSUME NEW B, NEW M, NEW s, TurnOf(B, M, s), NEW size \in Nat, size <= MaxFrameBytes
    PROVE  TurnOf(B, M, EventStream!Fill(s, size))
<1> DEFINE have == Len(s.buffer)
           n == IF have >= size THEN 0 ELSE IF Len(s.unread) < size - have THEN Len(s.unread) ELSE size - have
           more == SubSeq(s.unread, 1, n)
           rest == SubSeq(s.unread, n + 1, Len(s.unread))
           filled == [buffer |-> s.buffer \o more, unread |-> rest, frames |-> s.frames, error |-> s.error, over |-> s.over]
<1>1. EventStream!Fill(s, size) = filled
  BY DEF EventStream!Fill
<1>2. have \in Nat /\ Len(s.unread) \in Nat
  BY LenProperties DEF TurnOf
<1>3. n \in Nat /\ n <= Len(s.unread) /\ have + n <= MaxFrameBytes
  BY <1>2, LimitsAssumption DEF TurnOf
<1> HIDE DEF n, have
<1>4. more \in Seq(B) /\ Len(more) = n /\ rest \in Seq(B)
  <2>1. s.unread \in Seq(B) /\ n + 1 \in Nat \ {0}
    BY <1>3 DEF TurnOf
  <2> QED
    BY <1>2, <1>3, <2>1, Cut
<1> HIDE DEF more, rest
<1>5. s.buffer \o more \in Seq(B) /\ Len(s.buffer \o more) = have + n
  BY <1>4, ConcatProperties DEF TurnOf, have
<1>6. /\ DOMAIN filled = {"buffer", "unread", "frames", "error", "over"}
      /\ filled.buffer = s.buffer \o more /\ filled.unread = rest /\ filled.frames = s.frames
      /\ filled.over = s.over
  OBVIOUS
<1> HIDE DEF filled
<1>7. TurnOf(B, M, filled)
  BY <1>3, <1>4, <1>5, <1>6 DEF TurnOf
<1> QED
  BY <1>1, <1>7

\* What a whole frame means is a message of the stream.
LEMMA EventStreamMeaning ==
    ASSUME NEW B, NEW M, Speaks(B, M), NEW headers, NEW payload \in Seq(B)
    PROVE  EventStream!Meaning(headers, payload) \in M
<1> DEFINE kind == IF headers = <<>> \/ Head(headers).byte # "headers" THEN None ELSE Head(headers).kind
           event == IF payload = <<>> \/ Head(payload).byte # "payload" THEN [type |-> "malformed"]
                    ELSE Head(payload).payload
<1>1. EventStream!Meaning(headers, payload) =
        CASE kind = "event" -> event
          [] kind = "exception" -> [type |-> "exception"]
          [] OTHER -> [type |-> "ignored"]
  BY DEF EventStream!Meaning
<1>2. payload # <<>> => Head(payload) \in B
  BY HeadTailProperties
<1>3. event \in M /\ [type |-> "ignored"] \in M /\ [type |-> "exception"] \in M
  BY <1>2 DEF Speaks
<1> HIDE DEF kind, event
<1> QED
  BY <1>1, <1>3

\* A whole frame is taken, or the stream fails.
LEMMA EventStreamTakeWhole ==
    ASSUME NEW B, NEW M, Speaks(B, M), NEW s, TurnOf(B, M, s), NEW total \in Nat,
           s.buffer[1].headers \in Nat, EventStream!FrameOverhead <= total,
           s.buffer[1].headers <= total - EventStream!FrameOverhead
    PROVE  TurnOf(B, M, EventStream!TakeWhole(s, total))
<1> DEFINE start == EventStream!PreludeBytes + s.buffer[1].headers
           headers == SubSeq(s.buffer, EventStream!PreludeBytes + 1, start)
           payload == SubSeq(s.buffer, start + 1, total - 1)
           message == EventStream!Meaning(headers, payload)
           waits == [s EXCEPT !.over = TRUE]
           broken == [s EXCEPT !.error = "interrupted"]
           taken == [buffer |-> <<>>, unread |-> s.unread, frames |-> Append(s.frames, message),
                     error |-> s.error, over |-> s.unread = <<>>]
           damaged == s.buffer[total] # EventStream!Checksum(SubSeq(s.buffer, 1, total - 1))
                      \/ ~EventStream!HeadersReadable(headers)
<1>1. EventStream!TakeWhole(s, total) = IF Len(s.buffer) < total THEN waits ELSE IF damaged THEN broken ELSE taken
  BY DEF EventStream!TakeWhole
<1>2. TurnOf(B, M, waits) /\ TurnOf(B, M, broken)
  BY DEF TurnOf
<1>3. ASSUME ~(Len(s.buffer) < total) PROVE TurnOf(B, M, taken)
  <2>1. Len(s.buffer) \in Nat /\ start + 1 \in Nat \ {0} /\ total - 1 \in Nat /\ total - 1 <= Len(s.buffer)
    BY <1>3, LenProperties DEF TurnOf, EventStream!PreludeBytes, EventStream!FrameOverhead
  <2> HIDE DEF start, headers
  <2>2. payload \in Seq(B)
    BY <2>1, Cut DEF TurnOf
  <2> HIDE DEF payload
  <2>3. message \in M
    BY <2>2, EventStreamMeaning
  <2> HIDE DEF message
  <2>4. Append(s.frames, message) \in Seq(M)
    BY <2>3, AppendProperties DEF TurnOf
  <2>5. /\ DOMAIN taken = {"buffer", "unread", "frames", "error", "over"} /\ taken.buffer = <<>>
        /\ taken.unread = s.unread /\ taken.frames = Append(s.frames, message) /\ taken.over \in BOOLEAN
    OBVIOUS
  <2> HIDE DEF taken
  <2>6. <<>> \in Seq(B) /\ Len(<<>>) = 0
    OBVIOUS
  <2> QED
    BY <2>4, <2>5, <2>6, LimitsAssumption DEF TurnOf
<1> HIDE DEF waits, broken, taken, damaged
<1> QED
  BY <1>1, <1>2, <1>3

\* One turn of feed_batch keeps the buffer within a frame.
LEMMA EventStreamTurn ==
    ASSUME NEW B, NEW M, Speaks(B, M), NEW s, TurnOf(B, M, s)
    PROVE  TurnOf(B, M, EventStream!Turn(s))
<1> DEFINE f == EventStream!Fill(s, EventStream!PreludeBytes)
<1>1. EventStream!PreludeBytes \in Nat /\ EventStream!PreludeBytes <= MaxFrameBytes
  BY LimitsAssumption DEF EventStream!PreludeBytes
<1>2. TurnOf(B, M, f)
  BY <1>1, EventStreamFill
<1> HIDE DEF f
<1> DEFINE total == f.buffer[1].total
           g == EventStream!Fill(f, total)
           waits == [f EXCEPT !.over = TRUE]
           broken == [f EXCEPT !.error = "interrupted"]
<1>3. EventStream!TakePrelude(f) =
        IF Len(f.buffer) < EventStream!PreludeBytes THEN waits
        ELSE IF f.buffer[1].byte # "lengths" \/ ~EventStream!PreludeValid(f.buffer) THEN broken
        ELSE EventStream!TakeWhole(g, total)
  BY DEF EventStream!TakePrelude
<1>4. TurnOf(B, M, waits) /\ TurnOf(B, M, broken)
  BY <1>2 DEF TurnOf
<1>5. ASSUME ~(Len(f.buffer) < EventStream!PreludeBytes), f.buffer[1].byte = "lengths", EventStream!PreludeValid(f.buffer)
      PROVE  TurnOf(B, M, EventStream!TakeWhole(g, total))
  <2>1. Len(f.buffer) \in Nat /\ 1 <= Len(f.buffer)
    BY <1>2, <1>5, LenProperties DEF TurnOf, EventStream!PreludeBytes
  <2>2. f.buffer[1] \in B
    BY <1>2, <2>1, ElementOfSeq DEF TurnOf
  <2>3. total \in Nat /\ f.buffer[1].headers \in Nat
    BY <1>5, <2>2 DEF Speaks
  <2>4. /\ EventStream!FrameOverhead <= total /\ total <= MaxFrameBytes
        /\ f.buffer[1].headers <= total - EventStream!FrameOverhead
    BY <1>5 DEF EventStream!PreludeValid
  <2>5. TurnOf(B, M, g)
    BY <1>2, <2>3, <2>4, EventStreamFill
  <2>6. g.buffer[1] = f.buffer[1]
    <3> DEFINE have == Len(f.buffer)
               n == IF have >= total THEN 0 ELSE IF Len(f.unread) < total - have THEN Len(f.unread) ELSE total - have
               more == SubSeq(f.unread, 1, n)
    <3>1. g.buffer = f.buffer \o more
      BY <1>2 DEF EventStream!Fill, TurnOf
    <3>2. Len(f.unread) \in Nat /\ n \in Nat /\ n <= Len(f.unread)
      BY <1>2, <2>1, <2>3, LenProperties DEF TurnOf
    <3> HIDE DEF n
    <3>3. more \in Seq(B)
      BY <1>2, <3>2, Cut DEF TurnOf
    <3> HIDE DEF more
    <3>4. (f.buffer \o more)[1] = f.buffer[1]
      BY <1>2, <2>1, <3>3, ConcatProperties DEF TurnOf
    <3> QED
      BY <3>1, <3>4
  <2> HIDE DEF g, total
  <2> QED
    BY <2>3, <2>4, <2>5, <2>6, EventStreamTakeWhole
<1> HIDE DEF g, total, waits, broken
<1>6. TurnOf(B, M, EventStream!TakePrelude(f))
  BY <1>3, <1>4, <1>5
<1> QED
  BY <1>6 DEF EventStream!Turn, f

\* So do all turns.
LEMMA EventStreamFeedBatch ==
    ASSUME NEW B, NEW M, Speaks(B, M), NEW s, s.buffer \in Seq(B), Len(s.buffer) <= MaxFrameBytes,
           NEW bytes \in Seq(B)
    PROVE  TurnOf(B, M, EventStream!FeedBatch(s, bytes))
<1> DEFINE fed == [buffer |-> s.buffer, unread |-> bytes, frames |-> <<>>, error |-> None, over |-> FALSE]
<1>1. Len(bytes) \in Nat
  BY LenProperties
<1>2. \E t : t = [i \in 0 .. Len(bytes) + 1 |-> IF i = 0 THEN fed ELSE EventStream!Turn(t[i - 1])]
  <2> HIDE DEF fed
  <2>1. PICK t : Runs(t, "FeedBatch", bytes, fed, Len(bytes) + 1)
    <3>1. Len(bytes) + 1 \in Nat
      BY <1>1
    <3> QED
      BY ONLY <3>1, Loop
  <2> QED
    BY <2>1 DEF Runs, Body
<1>3. PICK t : /\ t = [i \in 0 .. Len(bytes) + 1 |-> IF i = 0 THEN fed ELSE EventStream!Turn(t[i - 1])]
               /\ EventStream!FeedBatch(s, bytes) = t[Len(bytes) + 1]
  BY <1>2 DEF EventStream!FeedBatch
<1>4. TurnOf(B, M, fed)
  BY DEF TurnOf
<1> HIDE DEF fed
<1> DEFINE n == Len(bytes) + 1
           I == {i \in 0 .. n : TurnOf(B, M, t[i])}
<1>5. n \in Nat /\ t = [i \in 0 .. n |-> IF i = 0 THEN fed ELSE EventStream!Turn(t[i - 1])]
  BY <1>1, <1>3
<1> HIDE DEF n
<1>6. 0 \in I
  BY <1>4, <1>5
<1>7. ASSUME NEW i \in 1 .. n, i - 1 \in I
      PROVE  i \in I
  <2>1. t[i] = EventStream!Turn(t[i - 1])
    BY ONLY <1>5, i \in 1 .. n
  <2>2. i \in 0 .. n /\ TurnOf(B, M, t[i - 1])
    BY <1>5, <1>7
  <2> QED
    BY <2>1, <2>2, EventStreamTurn
<1>8. \A i \in 0 .. n : i \in I
  <2> HIDE DEF I
  <2> QED
    BY <1>5, <1>6, <1>7, UpTo
<1>9. n \in I
  BY <1>5, <1>8
<1> QED
  BY <1>3, <1>9 DEF n

-----------------------------------------------------------------------------
(* The decoder of a stream, whatever the codec.                            *)

\* A wire of a codec the model knows.
Known(w) ==
    /\ w.codec \in {"chat", "responses", "anthropic", "gemini", "interactions"}
    /\ w.bedrock \in BOOLEAN

\* What the inner decoders keep of themselves.
Inner(w, inner) ==
    /\ w.codec = "responses" => Streams(inner)
    /\ w.codec = "anthropic" => Held(inner)
    /\ w.codec = "interactions" => Collects(inner)

\* What any call of an inner decoder leaves and emits.
Decoded(w, r) == Inner(w, r.decoder) /\ Faultless(r.out)

\* A new decoder is in order.
LEMMA InnerStarts ==
    ASSUME NEW w, Known(w)
    PROVE  Inner(w, NewInner(w))
<1>1. \A official, plan : Streams(Responses!NewDecoder(official, plan))
  BY EmptySequence DEF Streams, Responses!NewDecoder
<1>2. Held(Anthropic!NewDecoder) /\ Collects(Interactions!NewDecoder)
  BY AnthropicFaultless, InteractionsFaultless
<1>3. w.codec = "responses" => NewInner(w) = Responses!NewDecoder(w.official, w.plan)
  BY DEF NewInner
<1>4. w.codec = "anthropic" => NewInner(w) = Anthropic!NewDecoder
  BY DEF NewInner
<1>5. w.codec = "interactions" => NewInner(w) = Interactions!NewDecoder
  BY DEF NewInner
<1> QED
  BY <1>1, <1>2, <1>3, <1>4, <1>5 DEF Inner

\* A payload keeps it so, and is answered by no error event of its own.
THEOREM InnerGoesOn ==
    ASSUME NEW w, Known(w), NEW inner, Inner(w, inner), NEW p, IsPayload(w, p)
    PROVE  Decoded(w, InnerFrame(w, inner, p))
<1>1. CASE w.codec = "chat"
  <2>1. Chat!IsFrame(p) /\ InnerFrame(w, inner, p) = Chat!DecodeFrame(inner, p)
    BY <1>1 DEF IsPayload, InnerFrame
  <2> QED
    BY <1>1, <2>1, ChatFaultless DEF Decoded, Inner
<1>2. CASE w.codec = "gemini"
  <2>1. Gemini!IsFrame(p) /\ InnerFrame(w, inner, p) = Gemini!DecodeFrame(inner, p)
    BY <1>2 DEF IsPayload, InnerFrame
  <2> QED
    BY <1>2, <2>1, GeminiFaultless DEF Decoded, Inner
<1>3. CASE w.codec = "responses"
  <2>1. Responses!IsFrame(p) /\ InnerFrame(w, inner, p) = Responses!DecodeFrame(inner, p)
    BY <1>3 DEF IsPayload, InnerFrame
  <2>2. Streams(inner)
    BY <1>3 DEF Inner
  <2> QED
    BY <1>3, <2>1, <2>2, ResponsesFaultless DEF Decoded, Inner, Answer, Clean
<1>4. CASE w.codec = "anthropic"
  <2>1. Anthropic!IsFrame(p) /\ InnerFrame(w, inner, p) = Anthropic!DecodeFrame(inner, p)
    BY <1>4 DEF IsPayload, InnerFrame
  <2>2. Held(inner)
    BY <1>4 DEF Inner
  <2> QED
    BY <1>4, <2>1, <2>2, AnthropicFaultless DEF Decoded, Inner, Exact
<1>5. CASE w.codec = "interactions"
  <2>1. Interactions!IsFrame(p) /\ InnerFrame(w, inner, p) = Interactions!DecodeFrame(inner, p)
    BY <1>5 DEF IsPayload, InnerFrame
  <2>2. Collects(inner)
    BY <1>5 DEF Inner
  <2> QED
    BY <1>5, <2>1, <2>2, InteractionsFaultless DEF Decoded, Inner, Gathered
<1> QED
  BY <1>1, <1>2, <1>3, <1>4, <1>5 DEF Known

\* And so does the last call.
LEMMA InnerEnds ==
    ASSUME NEW w, Known(w), NEW inner, Inner(w, inner)
    PROVE  Decoded(w, InnerFinish(w, inner))
<1>1. CASE w.codec = "chat"
  <2>1. InnerFinish(w, inner) = Chat!Finish(inner)
    BY <1>1 DEF InnerFinish
  <2> QED
    BY <1>1, <2>1, ChatFaultless DEF Decoded, Inner
<1>2. CASE w.codec = "gemini"
  <2>1. InnerFinish(w, inner) = Gemini!Finish(inner)
    BY <1>2 DEF InnerFinish
  <2> QED
    BY <1>2, <2>1, GeminiFaultless DEF Decoded, Inner
<1>3. CASE w.codec = "responses"
  <2>1. InnerFinish(w, inner) = Responses!Finish(inner) /\ Streams(inner)
    BY <1>3 DEF InnerFinish, Inner
  <2> QED
    BY <1>3, <2>1, ResponsesFaultless DEF Decoded, Inner, Answer, Clean
<1>4. CASE w.codec = "anthropic"
  <2>1. InnerFinish(w, inner) = Anthropic!Finish(inner) /\ Held(inner)
    BY <1>4 DEF InnerFinish, Inner
  <2> QED
    BY <1>4, <2>1, AnthropicFaultless DEF Decoded, Inner, Exact
<1>5. CASE w.codec = "interactions"
  <2>1. InnerFinish(w, inner) = Interactions!Finish(inner) /\ Collects(inner)
    BY <1>5 DEF InnerFinish, Inner
  <2> QED
    BY <1>5, <2>1, InteractionsFaultless DEF Decoded, Inner, Gathered
<1> QED
  BY <1>1, <1>2, <1>3, <1>4, <1>5 DEF Known

\* No answer, or an error, changes nothing inside.
LEMMA InnerRefused ==
    ASSUME NEW w, NEW inner, Inner(w, inner), NEW error
    PROVE  Decoded(w, Refuse(inner, error))
BY FaultlessEmpty DEF Decoded, Refuse

-----------------------------------------------------------------------------
(* Frames and messages of what a provider may write.                       *)

\* Bytes of a wire.
Bytes(w, s) == IsSequence(s) /\ \A i \in 1 .. Len(s) : IsByte(w, s[i])

\* A frame of server-sent events: data lines of such bytes.
IsEvent(w, frame) ==
    /\ IsSequence(frame)
    /\ \A i \in 1 .. Len(frame) :
          /\ IsSequence(frame[i]) /\ frame[i] # <<>> /\ frame[i][1].byte = "data"
          /\ IsPayload(w, frame[i][1].payload)

IsMessage(w, m) == m.type \in {"ignored", "malformed", "exception"} \/ IsPayload(w, m)

\* Frames, as the framing of the wire makes them.
Frame(w, f) == IF w.bedrock THEN IsMessage(w, f) ELSE IsEvent(w, f)

\* A frame is answered, whatever it is.
LEMMA FrameDecoded ==
    ASSUME NEW w, Known(w), NEW inner, Inner(w, inner), NEW f, Frame(w, f)
    PROVE  Decoded(w, DecodeMessage(w, inner, IF w.bedrock THEN f ELSE Payload(f)))
<1> DEFINE m == IF w.bedrock THEN f ELSE Payload(f)
<1>1. CASE w.bedrock /\ m.type = "ignored"
  <2>1. DecodeMessage(w, inner, m) = Refuse(inner, None)
    BY <1>1 DEF DecodeMessage
  <2> QED
    BY <2>1, InnerRefused
<1>2. CASE w.bedrock /\ m.type \in {"malformed", "exception"}
  <2>1. DecodeMessage(w, inner, m) = Refuse(inner, "interrupted")
    BY <1>2 DEF DecodeMessage
  <2> QED
    BY <2>1, InnerRefused
<1>3. CASE ~(w.bedrock /\ m.type \in {"ignored", "malformed", "exception"})
  <2>1. IsPayload(w, m)
    <3>1. CASE w.bedrock
      BY <1>3, <3>1 DEF Frame, IsMessage
    <3>2. CASE ~w.bedrock
      <4>1. IsPayload(w, [type |-> "garbled"])
        BY DEF Known, IsPayload, Chat!IsFrame, Responses!IsFrame, Anthropic!IsFrame, Gemini!IsFrame, Interactions!IsFrame
      <4>2. Len(f) = 1 => IsPayload(w, f[1][1].payload)
        BY <3>2 DEF Frame, IsEvent
      <4> QED
        BY <3>2, <4>1, <4>2 DEF Payload
    <3> QED
      BY <3>1, <3>2
  <2>2. DecodeMessage(w, inner, m) = InnerFrame(w, inner, m)
    BY <1>3 DEF DecodeMessage
  <2> QED
    BY <2>1, <2>2, InnerGoesOn
<1> QED
  BY <1>1, <1>2, <1>3

\* A framing between two calls.
Framing(w, g) ==
    /\ g = IF w.bedrock THEN [buffer |-> g.buffer] ELSE [buffer |-> g.buffer, skip |-> g.skip]
    /\ Bytes(w, g.buffer)
    /\ Len(g.buffer) <= IF w.bedrock THEN MaxFrameBytes ELSE MaxEventBytes

\* Frames of a wire.
Framed(w, frames) == IsSequence(frames) /\ \A i \in 1 .. Len(frames) : Frame(w, frames[i])

\* Bytes of a set are bytes of the wire, if those of the set are.
LEMMA BytesOf ==
    ASSUME NEW w, NEW B, \A b \in B : IsByte(w, b), NEW s \in Seq(B)
    PROVE  Bytes(w, s)
BY SequenceOfAny, ElementOfSeq DEF Bytes

\* And the other way about.
LEMMA BytesIn ==
    ASSUME NEW w, NEW s, Bytes(w, s)
    PROVE  s \in Seq(ToSet(s)) /\ \A b \in ToSet(s) : IsByte(w, b)
<1>1. s \in Seq(ToSet(s)) /\ DOMAIN s = 1 .. Len(s)
  BY SequenceFacts DEF Bytes
<1>2. \A b \in ToSet(s) : \E i \in 1 .. Len(s) : b = s[i]
  BY <1>1 DEF ToSet
<1> QED
  BY <1>1, <1>2 DEF Bytes

\* The data lines of an event are a frame of the wire.
LEMMA FieldsFramed ==
    ASSUME NEW w, ~w.bedrock, NEW B, \A b \in B : IsByte(w, b), NEW frames \in Seq(Seq(Fields(B)))
    PROVE  Framed(w, frames)
<1>1. ASSUME NEW i \in 1 .. Len(frames) PROVE IsEvent(w, frames[i])
  <2>1. frames[i] \in Seq(Fields(B))
    BY ElementOfSeq
  <2>2. IsSequence(frames[i])
    BY <2>1, SequenceOfAny
  <2>3. ASSUME NEW k \in 1 .. Len(frames[i])
        PROVE  /\ IsSequence(frames[i][k]) /\ frames[i][k] # <<>> /\ frames[i][k][1].byte = "data"
               /\ IsPayload(w, frames[i][k][1].payload)
    <3> DEFINE line == frames[i][k]
    <3>1. line \in Fields(B)
      BY <2>1, ElementOfSeq
    <3> HIDE DEF line
    <3>2. line \in Seq(B) /\ line # <<>> /\ Head(line).byte = "data"
      BY <3>1 DEF Fields, Sse!DataLine
    <3>3. IsSequence(line) /\ line[1] = Head(line) /\ Head(line) \in B
      BY <3>2, SequenceOfAny, HeadTailProperties
    <3>4. IsPayload(w, Head(line).payload)
      BY <3>2, <3>3 DEF IsByte
    <3> QED
      BY <3>2, <3>3, <3>4 DEF line
  <2> QED
    BY <2>2, <2>3 DEF IsEvent
<1> QED
  BY <1>1, SequenceOfAny DEF Framed, Frame

\* What the framing keeps, and hands on.
LEMMA SseSplit ==
    ASSUME NEW w, ~w.bedrock, NEW g, Framing(w, g), NEW bytes, Bytes(w, bytes)
    PROVE  /\ Framing(w, Kept(w, Split(w, g, bytes)))
           /\ Framed(w, Split(w, g, bytes).frames)
<1> DEFINE B == ToSet(g.buffer) \cup ToSet(bytes) \cup {Sse!LF}
           s == [buffer |-> g.buffer, skip |-> g.skip, frames |-> <<>>, error |-> None]
           split == Sse!PushEach(s, bytes)
<1>1. Split(w, g, bytes) = split
  BY DEF Split, Sse!PushBatch
<1>2. \A b \in B : IsByte(w, b)
  <2>1. IsByte(w, Sse!LF)
    BY DEF IsByte, Sse!LF
  <2> QED
    BY <2>1, BytesIn DEF Framing
<1>3. g.buffer \in Seq(B) /\ bytes \in Seq(B) /\ Sse!LF \in B
  BY BytesIn, SeqMonotonic DEF Framing
<1> HIDE DEF B
<1>4. SplitOf(B, s)
  <2>1. <<>> \in Seq(Seq(Fields(B)))
    OBVIOUS
  <2>2. /\ DOMAIN s = {"buffer", "skip", "frames", "error"}
        /\ s.buffer = g.buffer /\ s.frames = <<>>
    OBVIOUS
  <2> HIDE DEF s
  <2> QED
    BY <1>3, <2>1, <2>2 DEF SplitOf, Framing
<1> HIDE DEF s
<1>5. SplitOf(B, split)
  BY <1>3, <1>4, SsePushEach
<1> HIDE DEF split
<1>6. Framed(w, split.frames)
  BY <1>2, <1>5, FieldsFramed DEF SplitOf
<1>7. Bytes(w, split.buffer) /\ Len(split.buffer) <= MaxEventBytes
  BY <1>2, <1>5, BytesOf DEF SplitOf
<1>8. Framing(w, [buffer |-> split.buffer, skip |-> split.skip])
  BY <1>7 DEF Framing
<1> QED
  BY <1>1, <1>6, <1>8 DEF Kept

\* What an event stream splits off are frames of the wire, and it keeps no more than a frame.
LEMMA EventStreamSplit ==
    ASSUME NEW w, w.bedrock, NEW g, Framing(w, g), NEW bytes, Bytes(w, bytes)
    PROVE  /\ Framing(w, Kept(w, Split(w, g, bytes)))
           /\ Framed(w, Split(w, g, bytes).frames)
           /\ \E B, M : Speaks(B, M) /\ g.buffer \in Seq(B) /\ bytes \in Seq(B)
<1> DEFINE B == ToSet(g.buffer) \cup ToSet(bytes)
           M == {b.payload : b \in {c \in B : c.byte = "payload"}}
                \cup {[type |-> "ignored"], [type |-> "malformed"], [type |-> "exception"]}
           split == EventStream!FeedBatch(g, bytes)
<1>1. Split(w, g, bytes) = split
  BY DEF Split
<1>2. \A b \in B : IsByte(w, b)
  BY BytesIn DEF Framing
<1>3. g.buffer \in Seq(B) /\ bytes \in Seq(B)
  BY BytesIn, SeqMonotonic DEF Framing
<1>4. \A m \in M : IsMessage(w, m)
  BY <1>2 DEF IsByte, IsMessageByte, IsMessage
<1>5. Speaks(B, M)
  BY <1>2 DEF Speaks, IsByte, IsMessageByte
<1> HIDE DEF B, M
<1>6. TurnOf(B, M, split)
  BY <1>3, <1>5, EventStreamFeedBatch DEF Framing
<1> HIDE DEF split
<1>7. Framed(w, split.frames)
  BY <1>4, <1>6, SequenceOfAny, ElementOfSeq DEF Framed, Frame, TurnOf
<1>8. Bytes(w, split.buffer) /\ Len(split.buffer) <= MaxFrameBytes
  BY <1>2, <1>6, BytesOf DEF TurnOf
<1>9. Framing(w, [buffer |-> split.buffer])
  BY <1>8 DEF Framing
<1> QED
  BY <1>1, <1>3, <1>5, <1>7, <1>9 DEF Kept

\* Either framing splits chunks into frames of the wire and keeps the rest.
LEMMA SplitFramed ==
    ASSUME NEW w, NEW g, Framing(w, g), NEW bytes, Bytes(w, bytes)
    PROVE  /\ Framing(w, Kept(w, Split(w, g, bytes)))
           /\ Framed(w, Split(w, g, bytes).frames)
BY SseSplit, EventStreamSplit

\* The frames of the end of the body.
LEMMA LastFrames ==
    ASSUME NEW w, ~w.bedrock, NEW g, Framing(w, g)
    PROVE  Framed(w, Sse!FinishFrames(g))
<1>1. g.buffer \in Seq(ToSet(g.buffer)) /\ \A b \in ToSet(g.buffer) : IsByte(w, b)
  BY BytesIn DEF Framing
<1>2. Sse!ParseEvent(g.buffer) \in Seq(Seq(Fields(ToSet(g.buffer))))
  BY <1>1, SseParseEvent
<1> QED
  BY <1>1, <1>2, FieldsFramed DEF Sse!FinishFrames

\* A new framing.
LEMMA FramingStarts ==
    ASSUME NEW w
    PROVE  Framing(w, NewFraming(w)) /\ (~w.bedrock => Framing(w, Sse!NewSplitter))
<1>1. Bytes(w, <<>>) /\ Len(<<>>) = 0
  BY EmptySequence DEF Bytes
<1> QED
  BY <1>1, LimitsAssumption DEF Framing, NewFraming, Sse!NewSplitter, EventStream!NewSplitter

-----------------------------------------------------------------------------
(* What a call reads: a decoder and the events it emits.                   *)

\* No event follows an End or an error.
Ordered(out) == IsSequence(out) /\ \A i \in 1 .. Len(out) - 1 : ~Terminal(out[i])

Over(out) == out # <<>> /\ Terminal(out[Len(out)])

Decoder(w, d) ==
    /\ d = [inner |-> d.inner, framing |-> d.framing, ended |-> d.ended]
    /\ Inner(w, d.inner) /\ Framing(w, d.framing)
    /\ d.ended \in BOOLEAN

Read(w, s) ==
    /\ s = [decoder |-> s.decoder, out |-> s.out]
    /\ Decoder(w, s.decoder)
    /\ Ordered(s.out) /\ s.decoder.ended = Over(s.out)

\* The same of two decoders, of which one also emitted what is before.
Like(before, s, u) ==
    /\ s.out = before \o u.out
    /\ s.decoder.inner = u.decoder.inner /\ s.decoder.ended = u.decoder.ended

\* What a result adds to the events, and whether it ends the decoder.
Ends(r) == {i \in DOMAIN r.out : r.out[i].event = "end"}
Added(r) ==
    IF r.error = None
      THEN IF Ends(r) = {} THEN r.out ELSE SubSeq(r.out, 1, CHOOSE i \in Ends(r) : \A j \in Ends(r) : i <= j)
      ELSE <<Failure(r.error)>>

\* append_result adds the events up to the end, and nothing after it.
LEMMA AppendResultAdds ==
    ASSUME NEW w, NEW s, Decoder(w, s.decoder), NEW r
    PROVE  LET a == AppendResult(s, r) IN
           /\ a = [decoder |-> a.decoder, out |-> a.out]
           /\ a.out = s.out \o Added(r)
           /\ a.decoder = [inner |-> r.decoder, framing |-> s.decoder.framing, ended |-> Ends(r) # {} \/ r.error # None]
<1> DEFINE d == s.decoder
           ended == Ends(r) # {} \/ r.error # None
           e == [d EXCEPT !.inner = r.decoder, !.ended = ended]
<1>1. AppendResult(s, r) = [decoder |-> e, out |-> s.out \o Added(r)]
  BY Zenon DEF AppendResult, Ends, Added
<1>2. e = [inner |-> r.decoder, framing |-> d.framing, ended |-> ended]
  <2>1. d = [inner |-> d.inner, framing |-> d.framing, ended |-> d.ended]
    BY DEF Decoder
  <2>2. DOMAIN e = {"inner", "framing", "ended"} /\ e = [k \in {"inner", "framing", "ended"} |-> e[k]]
    <3>1. DOMAIN d = {"inner", "framing", "ended"}
      BY <2>1
    <3> HIDE DEF d
    <3> QED
      BY <3>1
  <2>3. e.inner = r.decoder /\ e.framing = d.framing /\ e.ended = ended
    <3>1. DOMAIN d = {"inner", "framing", "ended"}
      BY <2>1
    <3> HIDE DEF d, ended
    <3> QED
      BY <3>1
  <2> HIDE DEF e
  <2> QED
    BY <2>2, <2>3
<1> HIDE DEF e
<1> QED
  BY <1>1, <1>2

\* They are at most one terminal event, the last.
LEMMA AddedOrdered ==
    ASSUME NEW r, Faultless(r.out)
    PROVE  /\ Ordered(Added(r))
           /\ Over(Added(r)) = (Ends(r) # {} \/ r.error # None)
<1> DEFINE out == r.out
           ends == Ends(r)
<1>1. IsSequence(out) /\ Len(out) \in Nat /\ DOMAIN out = 1 .. Len(out) /\ \A i \in 1 .. Len(out) : out[i].event # "error"
  BY SequenceFacts DEF Faultless
<1>2. ends = {i \in 1 .. Len(out) : out[i].event = "end"}
  BY <1>1 DEF Ends
<1>3. \A i \in 1 .. Len(out) : Terminal(out[i]) <=> i \in ends
  BY <1>1, <1>2 DEF Terminal
<1>4. CASE r.error # None
  <2>1. Added(r) = <<Failure(r.error)>> /\ Terminal(Failure(r.error))
    BY <1>4 DEF Added, Terminal, Failure
  <2> HIDE DEF ends
  <2> QED
    BY <1>4, <2>1, OneElement, EmptySequence DEF Ordered, Over
<1>5. CASE r.error = None /\ ends = {}
  <2>1. Added(r) = out
    BY <1>5 DEF Added
  <2>2. out # <<>> => Len(out) \in 1 .. Len(out)
    BY <1>1
  <2>3. \A i \in 1 .. Len(out) : ~Terminal(out[i])
    BY <1>3, <1>5
  <2> HIDE DEF out
  <2> QED
    BY <1>1, <1>5, <2>1, <2>2, <2>3 DEF Ordered, Over
<1>6. CASE r.error = None /\ ends # {}
  <2> DEFINE m == CHOOSE i \in ends : \A j \in ends : i <= j
  <2>1. ends \in SUBSET Nat
    BY <1>1, <1>2
  <2>2. m \in ends /\ \A j \in ends : m <= j
    <3> HIDE DEF ends
    <3> QED
      BY <1>6, <2>1, Least
  <2>3. Added(r) = SubSeq(out, 1, m)
    BY <1>6 DEF Added
  <2> HIDE DEF m
  <2>4. m \in Nat /\ 1 <= m /\ m <= Len(out)
    BY <1>1, <1>2, <2>2
  <2>5. /\ IsSequence(SubSeq(out, 1, m)) /\ Len(SubSeq(out, 1, m)) = m
        /\ \A i \in 1 .. m : SubSeq(out, 1, m)[i] = out[i]
    BY <1>1, <2>4, SequenceCut
  <2> DEFINE kept == SubSeq(out, 1, m)
  <2> HIDE DEF kept
  <2>6. \A i \in 1 .. m : Terminal(kept[i]) <=> i = m
    <3>1. \A i \in 1 .. m : kept[i] = out[i] /\ i \in 1 .. Len(out)
      BY <1>1, <2>4, <2>5 DEF kept
    <3>2. \A i \in 1 .. m : i \in ends <=> i = m
      BY <2>2, <2>4
    <3> HIDE DEF ends, out
    <3> QED
      BY <1>3, <3>1, <3>2
  <2>7. IsSequence(kept) /\ Len(kept) = m /\ kept # <<>> /\ Added(r) = kept
    BY <2>3, <2>4, <2>5, EmptySequence DEF kept
  <2>8. Ordered(kept) /\ Over(kept)
    BY <2>4, <2>6, <2>7 DEF Ordered, Over
  <2> QED
    BY <1>6, <2>7, <2>8
<1> QED
  BY <1>4, <1>5, <1>6

\* Two runs of events joined: nothing follows the last event of the first when there is none.
LEMMA OrderedJoined ==
    ASSUME NEW s, NEW t, Ordered(s), ~Over(s), Ordered(t)
    PROVE  Ordered(s \o t) /\ Over(s \o t) = Over(t)
<1>1. Len(s) \in Nat /\ Len(t) \in Nat /\ IsSequence(s) /\ IsSequence(t)
  BY SequenceFacts DEF Ordered
<1>2. /\ IsSequence(s \o t) /\ Len(s \o t) = Len(s) + Len(t)
      /\ \A i \in 1 .. Len(s) + Len(t) : (s \o t)[i] = IF i <= Len(s) THEN s[i] ELSE t[i - Len(s)]
      /\ s \o <<>> = s
  BY <1>1, SequencesJoined
<1>3. \A i \in 1 .. Len(s) : ~Terminal(s[i])
  <2>1. s = <<>> => Len(s) = 0
    BY EmptySequence
  <2> QED
    BY <1>1, <2>1 DEF Ordered, Over
<1>4. ASSUME NEW i \in 1 .. Len(s) + Len(t) - 1 PROVE ~Terminal((s \o t)[i])
  <2>1. CASE i <= Len(s)
    <3>1. (s \o t)[i] = s[i] /\ i \in 1 .. Len(s)
      BY <1>1, <1>2, <2>1
    <3> QED
      BY <1>3, <3>1
  <2>2. CASE ~(i <= Len(s))
    <3>1. (s \o t)[i] = t[i - Len(s)] /\ i - Len(s) \in 1 .. Len(t) - 1
      BY <1>1, <1>2, <2>2
    <3> QED
      BY <3>1 DEF Ordered
  <2> QED
    BY <2>1, <2>2
<1>5. CASE t = <<>>
  <2>1. s \o t = s /\ Over(s) = FALSE /\ Over(t) = FALSE
    BY <1>2, <1>5 DEF Over
  <2> QED
    BY <2>1
<1>6. CASE t # <<>>
  <2>1. Len(t) # 0
    BY <1>1, <1>6, EmptySeq DEF IsSequence
  <2>2. (s \o t)[Len(s) + Len(t)] = t[Len(t)]
    BY <1>1, <1>2, <2>1
  <2>3. s \o t # <<>>
    BY <1>1, <1>2, <2>1, EmptySequence
  <2>4. Over(s \o t) = Over(t)
    BY <1>2, <1>6, <2>2, <2>3 DEF Over
  <2> QED
    BY <1>1, <1>2, <1>4, <2>4 DEF Ordered
<1> QED
  BY <1>1, <1>2, <1>4, <1>5, <1>6 DEF Ordered

\* A result keeps a decoder in order.
LEMMA AppendResultReads ==
    ASSUME NEW w, NEW s, Read(w, s), ~s.decoder.ended, NEW r, Decoded(w, r)
    PROVE  Read(w, AppendResult(s, r)) /\ AppendResult(s, r).decoder.framing = s.decoder.framing
<1> DEFINE a == AppendResult(s, r)
           d == [inner |-> r.decoder, framing |-> s.decoder.framing, ended |-> Ends(r) # {} \/ r.error # None]
<1>1. a = [decoder |-> a.decoder, out |-> a.out] /\ a.out = s.out \o Added(r) /\ a.decoder = d
  BY AppendResultAdds DEF Read
<1> HIDE DEF a
<1>2. d.inner = r.decoder /\ d.framing = s.decoder.framing /\ d.ended = (Ends(r) # {} \/ r.error # None)
  OBVIOUS
<1>3. d = [inner |-> d.inner, framing |-> d.framing, ended |-> d.ended] /\ d.ended \in BOOLEAN
  OBVIOUS
<1> HIDE DEF d
<1>4. Decoder(w, d)
  BY <1>2, <1>3 DEF Read, Decoder, Decoded
<1>5. Ordered(a.out) /\ Over(a.out) = (Ends(r) # {} \/ r.error # None)
  <2>1. Ordered(s.out) /\ ~Over(s.out)
    BY DEF Read
  <2>2. Ordered(Added(r)) /\ Over(Added(r)) = (Ends(r) # {} \/ r.error # None)
    BY AddedOrdered DEF Decoded
  <2> QED
    BY <1>1, <2>1, <2>2, OrderedJoined
<1>6. Read(w, a) /\ a.decoder.framing = s.decoder.framing
  BY <1>1, <1>2, <1>4, <1>5 DEF Read
<1> QED
  BY <1>6 DEF a

\* And two decoders alike.
LEMMA AppendResultLike ==
    ASSUME NEW w, NEW s, NEW u, Read(w, s), Read(w, u), NEW o, IsSequence(o), Like(o, s, u),
           NEW r, Decoded(w, r)
    PROVE  Like(o, AppendResult(s, r), AppendResult(u, r))
<1> DEFINE ended == Ends(r) # {} \/ r.error # None
           a == AppendResult(s, r)
           b == AppendResult(u, r)
<1> HIDE DEF ended
<1>1. a.out = s.out \o Added(r) /\ a.decoder = [inner |-> r.decoder, framing |-> s.decoder.framing, ended |-> ended]
  BY AppendResultAdds DEF Read, ended
<1>2. b.out = u.out \o Added(r) /\ b.decoder = [inner |-> r.decoder, framing |-> u.decoder.framing, ended |-> ended]
  BY AppendResultAdds DEF Read, ended
<1> HIDE DEF a, b
<1>3. (o \o u.out) \o Added(r) = o \o (u.out \o Added(r))
  <2>1. IsSequence(u.out) /\ IsSequence(Added(r))
    BY AddedOrdered DEF Read, Ordered, Decoded
  <2> DEFINE x == u.out
             y == Added(r)
  <2>2. IsSequence(o) /\ IsSequence(x) /\ IsSequence(y)
    BY <2>1
  <2> HIDE DEF x, y
  <2>3. (o \o x) \o y = o \o (x \o y)
    BY SMTT(30), <2>2, JoiningAssociates
  <2> QED
    BY <2>3 DEF x, y
<1>4. Like(o, a, b)
  BY <1>1, <1>2, <1>3 DEF Like
<1> QED
  BY <1>4 DEF a, b

\* One frame leaves a decoder in order and keeps what the framing holds.
LEMMA TakeFrameReads ==
    ASSUME NEW w, Known(w), NEW s, Read(w, s), NEW f, Frame(w, f)
    PROVE  Read(w, TakeFrame(w, s, f)) /\ TakeFrame(w, s, f).decoder.framing = s.decoder.framing
<1> DEFINE r == DecodeMessage(w, s.decoder.inner, IF w.bedrock THEN f ELSE Payload(f))
<1>1. Decoded(w, r)
  BY FrameDecoded DEF Read, Decoder
<1>2. TakeFrame(w, s, f) = IF s.decoder.ended THEN s ELSE AppendResult(s, r)
  BY DEF TakeFrame
<1> HIDE DEF r
<1> QED
  BY <1>1, <1>2, AppendResultReads

\* Two decoders alike but for the events before stay so on one frame.
LEMMA TakeFrameLike ==
    ASSUME NEW w, Known(w), NEW s, NEW u, Read(w, s), Read(w, u), NEW o, IsSequence(o), Like(o, s, u),
           NEW f, Frame(w, f)
    PROVE  Like(o, TakeFrame(w, s, f), TakeFrame(w, u, f))
<1> DEFINE r == DecodeMessage(w, u.decoder.inner, IF w.bedrock THEN f ELSE Payload(f))
<1>1. Decoded(w, r)
  BY FrameDecoded DEF Read, Decoder
<1>2. TakeFrame(w, u, f) = IF u.decoder.ended THEN u ELSE AppendResult(u, r)
  BY DEF TakeFrame
<1>3. TakeFrame(w, s, f) = IF u.decoder.ended THEN s ELSE AppendResult(s, r)
  BY DEF TakeFrame, Like
<1> HIDE DEF r
<1> QED
  BY <1>1, <1>2, <1>3, AppendResultLike

\* The course of the frames of a call.
LEMMA TakeCourse ==
    ASSUME NEW w, NEW s, NEW frames, IsSequence(frames)
    PROVE  \E t : /\ t[0] = s /\ \A i \in 1 .. Len(frames) : t[i] = TakeFrame(w, t[i - 1], frames[i])
                  /\ TakeEach(w, s, frames) = t[Len(frames)]
<1>1. Len(frames) \in Nat
  BY SequenceFacts
<1> DEFINE x == [wire |-> w, frames |-> frames]
<1>2. x.wire = w /\ x.frames = frames
  OBVIOUS
<1> HIDE DEF x
<1>3. PICK t : Runs(t, "TakeEach", x, s, Len(frames))
  BY ONLY <1>1, Loop
<1>4. t = [i \in 0 .. Len(frames) |-> IF i = 0 THEN s ELSE TakeFrame(w, t[i - 1], frames[i])]
  BY <1>2, <1>3 DEF Runs, Body
<1>5. PICK u : /\ u = [i \in 0 .. Len(frames) |-> IF i = 0 THEN s ELSE TakeFrame(w, u[i - 1], frames[i])]
               /\ TakeEach(w, s, frames) = u[Len(frames)]
  BY <1>4 DEF TakeEach
<1> DEFINE n == Len(frames)
<1>6. n \in Nat /\ u = [i \in 0 .. n |-> IF i = 0 THEN s ELSE TakeFrame(w, u[i - 1], frames[i])]
  BY <1>1, <1>5
<1> HIDE DEF n
<1>7. u[0] = s
  BY ONLY <1>6
<1>8. ASSUME NEW i \in 1 .. n PROVE u[i] = TakeFrame(w, u[i - 1], frames[i])
  BY ONLY <1>6, i \in 1 .. n
<1> QED
  BY <1>5, <1>7, <1>8 DEF n

\* All frames of a chunk leave a decoder in order.
LEMMA TakeEachReads ==
    ASSUME NEW w, Known(w), NEW s, Read(w, s), NEW frames, Framed(w, frames)
    PROVE  /\ Read(w, TakeEach(w, s, frames))
           /\ TakeEach(w, s, frames).decoder.framing = s.decoder.framing
<1> DEFINE n == Len(frames)
<1>1. n \in Nat /\ IsSequence(frames)
  BY SequenceFacts DEF Framed
<1>2. PICK t : /\ t[0] = s /\ \A i \in 1 .. n : t[i] = TakeFrame(w, t[i - 1], frames[i])
               /\ TakeEach(w, s, frames) = t[n]
  BY ONLY <1>1, TakeCourse
<1> HIDE DEF n
<1>3. t[0] = s /\ \A i \in 1 .. n : t[i] = TakeFrame(w, t[i - 1], frames[i])
  BY <1>2
<1> DEFINE I == {i \in 0 .. n : Read(w, t[i]) /\ t[i].decoder.framing = s.decoder.framing}
<1>4. 0 \in I
  BY <1>1, <1>3
<1>5. ASSUME NEW i \in 1 .. n, i - 1 \in I
      PROVE  i \in I
  <2>1. Read(w, t[i - 1]) /\ t[i - 1].decoder.framing = s.decoder.framing
    BY <1>5
  <2>2. Frame(w, frames[i])
    BY DEF Framed, n
  <2> QED
    BY <1>1, <1>3, <2>1, <2>2, TakeFrameReads
<1>6. \A i \in 0 .. n : i \in I
  <2> HIDE DEF I
  <2> QED
    BY <1>1, <1>4, <1>5, UpTo
<1>7. n \in I
  BY <1>1, <1>6
<1> QED
  BY <1>2, <1>7

\* Two decoders alike but for the events before stay so on all frames of a chunk.
LEMMA TakeEachLike ==
    ASSUME NEW w, Known(w), NEW s, NEW u, Read(w, s), Read(w, u), NEW o, IsSequence(o), Like(o, s, u),
           NEW frames, Framed(w, frames)
    PROVE  Like(o, TakeEach(w, s, frames), TakeEach(w, u, frames))
<1> DEFINE n == Len(frames)
<1>1. n \in Nat /\ IsSequence(frames)
  BY SequenceFacts DEF Framed
<1>2. PICK t : /\ t[0] = s /\ \A i \in 1 .. n : t[i] = TakeFrame(w, t[i - 1], frames[i])
               /\ TakeEach(w, s, frames) = t[n]
  BY ONLY <1>1, TakeCourse
<1>3. PICK v : /\ v[0] = u /\ \A i \in 1 .. n : v[i] = TakeFrame(w, v[i - 1], frames[i])
               /\ TakeEach(w, u, frames) = v[n]
  BY ONLY <1>1, TakeCourse
<1> HIDE DEF n
<1>4. t[0] = s /\ \A i \in 1 .. n : t[i] = TakeFrame(w, t[i - 1], frames[i])
  BY <1>2
<1>5. v[0] = u /\ \A i \in 1 .. n : v[i] = TakeFrame(w, v[i - 1], frames[i])
  BY <1>3
<1> DEFINE I == {i \in 0 .. n : Read(w, t[i]) /\ Read(w, v[i]) /\ Like(o, t[i], v[i])}
<1>6. 0 \in I
  BY <1>1, <1>4, <1>5
<1>7. ASSUME NEW i \in 1 .. n, i - 1 \in I
      PROVE  i \in I
  <2>1. Read(w, t[i - 1]) /\ Read(w, v[i - 1]) /\ Like(o, t[i - 1], v[i - 1])
    BY <1>7
  <2>2. Frame(w, frames[i])
    BY DEF Framed, n
  <2>3. Read(w, t[i]) /\ Read(w, v[i])
    BY <1>4, <1>5, <2>1, <2>2, TakeFrameReads
  <2>4. Like(o, t[i], v[i])
    BY <1>4, <1>5, <2>1, <2>2, TakeFrameLike
  <2> QED
    BY <1>1, <2>3, <2>4
<1>8. \A i \in 0 .. n : i \in I
  <2> HIDE DEF I
  <2> QED
    BY <1>1, <1>6, <1>7, UpTo
<1>9. n \in I
  BY <1>1, <1>8
<1> QED
  BY <1>2, <1>3, <1>9

\* Nothing is taken after the end.
LEMMA TakeEachOver ==
    ASSUME NEW w, NEW s, s.decoder.ended, NEW frames, IsSequence(frames)
    PROVE  TakeEach(w, s, frames) = s
<1> DEFINE n == Len(frames)
<1>1. n \in Nat /\ IsSequence(frames)
  BY SequenceFacts
<1>2. PICK t : /\ t[0] = s /\ \A i \in 1 .. n : t[i] = TakeFrame(w, t[i - 1], frames[i])
               /\ TakeEach(w, s, frames) = t[n]
  BY ONLY <1>1, TakeCourse
<1> HIDE DEF n
<1>3. t[0] = s /\ \A i \in 1 .. n : t[i] = TakeFrame(w, t[i - 1], frames[i])
  BY <1>2
<1> DEFINE I == {i \in 0 .. n : t[i] = s}
<1>4. 0 \in I
  BY <1>1, <1>3
<1>5. ASSUME NEW i \in 1 .. n, i - 1 \in I
      PROVE  i \in I
  <2>1. TakeFrame(w, s, frames[i]) = s
    BY DEF TakeFrame
  <2> QED
    BY <1>3, <1>5, <2>1
<1>6. \A i \in 0 .. n : i \in I
  <2> HIDE DEF I
  <2> QED
    BY <1>1, <1>4, <1>5, UpTo
<1> QED
  BY <1>1, <1>2, <1>6

\* Frames may come in two lots.
LEMMA TakeEachJoined ==
    ASSUME NEW w, NEW s, NEW f, NEW g, IsSequence(f), IsSequence(g)
    PROVE  TakeEach(w, s, f \o g) = TakeEach(w, TakeEach(w, s, f), g)
<1> DEFINE m == Len(f)
           n == Len(g)
           half == TakeEach(w, s, f)
<1>0. PICK all : all = f \o g
  OBVIOUS
<1>1. m \in Nat /\ n \in Nat
  BY SequenceFacts
<1>2. /\ IsSequence(all) /\ Len(all) = m + n
      /\ \A i \in 1 .. m + n : all[i] = IF i <= m THEN f[i] ELSE g[i - m]
  BY <1>0, SequencesJoined
<1>3. PICK a : /\ a[0] = s /\ \A i \in 1 .. m : a[i] = TakeFrame(w, a[i - 1], f[i])
               /\ half = a[m]
  BY TakeCourse
<1> HIDE DEF half
<1>4. PICK b : /\ b[0] = half /\ \A i \in 1 .. n : b[i] = TakeFrame(w, b[i - 1], g[i])
               /\ TakeEach(w, half, g) = b[n]
  BY TakeCourse
<1>5. PICK t : /\ t[0] = s /\ \A i \in 1 .. Len(all) : t[i] = TakeFrame(w, t[i - 1], all[i])
               /\ TakeEach(w, s, all) = t[Len(all)]
  BY <1>2, TakeCourse
<1> HIDE DEF m, n
<1>6. a[0] = s /\ \A i \in 1 .. m : a[i] = TakeFrame(w, a[i - 1], f[i])
  BY <1>3
<1>7. b[0] = half /\ \A i \in 1 .. n : b[i] = TakeFrame(w, b[i - 1], g[i])
  BY <1>4
<1>8. t[0] = s /\ \A i \in 1 .. m + n : t[i] = TakeFrame(w, t[i - 1], all[i])
  BY <1>2, <1>5
<1> DEFINE I == {i \in 0 .. m : t[i] = a[i]}
<1>9. \A i \in 0 .. m : i \in I
  <2>1. 0 \in I
    BY <1>1, <1>6, <1>8
  <2>2. ASSUME NEW i \in 1 .. m, i - 1 \in I PROVE i \in I
    <3>1. i \in 1 .. m + n /\ i <= m /\ t[i - 1] = a[i - 1]
      BY <1>1, <2>2
    <3>2. all[i] = f[i]
      BY <1>2, <3>1
    <3> QED
      BY <1>6, <1>8, <3>1, <3>2
  <2> HIDE DEF I
  <2> QED
    BY <1>1, <2>1, <2>2, UpTo
<1>10. t[m] = half
  BY <1>1, <1>3, <1>9
<1> DEFINE J == {i \in 0 .. n : t[m + i] = b[i]}
<1>11. \A i \in 0 .. n : i \in J
  <2>1. 0 \in J
    BY <1>1, <1>7, <1>10
  <2>2. ASSUME NEW i \in 1 .. n, i - 1 \in J PROVE i \in J
    <3>1. m + i \in 1 .. m + n /\ ~(m + i <= m) /\ t[m + (i - 1)] = b[i - 1] /\ (m + i) - m = i /\ (m + i) - 1 = m + (i - 1)
      BY <1>1, <2>2
    <3>2. all[m + i] = g[i]
      BY <1>2, <3>1
    <3>3. t[m + i] = TakeFrame(w, t[m + (i - 1)], g[i])
      BY <1>8, <3>1, <3>2
    <3> QED
      BY <1>7, <3>1, <3>3
  <2> HIDE DEF J
  <2> QED
    BY <1>1, <2>1, <2>2, UpTo
<1>12. t[m + n] = b[n]
  BY <1>1, <1>11
<1> QED
  BY <1>0, <1>2, <1>4, <1>5, <1>12 DEF half
=============================================================================
