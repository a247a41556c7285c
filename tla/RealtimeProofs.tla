---------------------------- MODULE RealtimeProofs ----------------------------
(***************************************************************************)
(* What a realtime session guarantees for any number of callers, inputs    *)
(* and frames: fences order the events, and a close that succeeds was      *)
(* preceded by everything accepted before it.                              *)
(*                                                                         *)
(* The driver works off one command at a time.  The invariant relates the  *)
(* commands it took (accepted but no longer queued) to the socket, the     *)
(* event log and what is left of its script.  It says nothing more once    *)
(* the script is to stop: from then on the driver sends nothing and only   *)
(* reports its end.                                                        *)
(***************************************************************************)
EXTENDS RealtimeDriver, TLAPS, FiniteSetTheorems, SequenceTheorems

USE RealtimeAssumption

-----------------------------------------------------------------------------
(* The inductive invariant.                                                *)

\* The commands that the driver took so far.
Done == Len(accepted) - Len(outbound)

IsInput(cmd) == cmd.kind \in {"frames", "fenced"}
Last == Cardinality(Inputs(accepted))

\* How many frames of an input went out.
Count(sent, id) == Cardinality({w \in DOMAIN sent : sent[w] = id})
OnWire(id) == \E w \in DOMAIN wire : wire[w] = id

\* What the host was told or will be.
Logged(n) == \E j \in DOMAIN log : log[j].kind = "frame" /\ log[j].n = n
Marked(id) == \E i \in DOMAIN log : log[i].kind = "marker" /\ log[i].id = id

IsFrame(step) == step.do = "emit" /\ step.event.kind = "frame"
IsMarker(step) == step.do = "emit" /\ step.event.kind = "marker"

Has(do) == \E j \in DOMAIN script : script[j].do = do

\* The driver will go on to its next select.
Lasting == running /\ ~Has("stop")

\* Callers: who sent a close waits for it, who is remembered is parked, and who
\* aborts sent no close.
CallInv ==
    /\ \A k \in DOMAIN accepted : accepted[k].kind = "close" =>
          /\ call[accepted[k].by] \in {"waiting", "ok", "failed"}
          /\ accepted[k].by # abortSlot
    /\ \A k, l \in DOMAIN accepted :
          (accepted[k].kind = "close" /\ accepted[l].kind = "close" /\ accepted[k].by = accepted[l].by)
              => k = l
    /\ waker # None => call[waker] = "parked"
    /\ abortSlot \in Callers => call[abortSlot] \in {"stopping", "ok", "failed"}

\* Inputs are numbered in the order they are accepted; only accepted inputs are
\* on the wire or answered by a frame.
IdsInv ==
    /\ \A k \in DOMAIN accepted : IsInput(accepted[k]) => accepted[k].id \in 1 .. Last
    /\ \A k, l \in DOMAIN accepted :
          IsInput(accepted[k]) /\ IsInput(accepted[l]) /\ accepted[k].id = accepted[l].id => k = l
    /\ \A w \in DOMAIN wire : wire[w] \in 1 .. Last
    /\ \A i \in DOMAIN inbound : \A id \in inbound[i].seen : OnWire(id)
    /\ \A j \in DOMAIN log : log[j].kind = "frame" => \A id \in log[j].seen : OnWire(id)
    /\ \A j \in DOMAIN script : IsFrame(script[j]) => \A id \in script[j].event.seen : OnWire(id)

\* Commands leave the queue in the order they were accepted, and none is sent before.
QueueInv ==
    running =>
        /\ Len(outbound) <= Len(accepted)
        /\ \A i \in DOMAIN outbound : outbound[i] = accepted[Done + i]
        /\ \A k \in DOMAIN accepted :
              IsInput(accepted[k]) /\ OnWire(accepted[k].id) => k <= Done

\* What a script may look like.
ScriptInv ==
    /\ ~running => script = <<>>
    /\ \A j \in DOMAIN script : script[j].do = "stop" =>
          \A h \in DOMAIN script : h < j => script[h].do = "emit"
    /\ \A j \in DOMAIN script : script[j].do = "close" =>
          /\ Len(script) = 1
          /\ script[j].by # None => Done > 0 /\ accepted[Done] = Close(script[j].by)
    /\ \A j \in DOMAIN script : script[j].do = "send" =>
          Done > 0 /\ IsInput(accepted[Done]) /\ script[j].id = accepted[Done].id
    /\ \A j \in DOMAIN script : IsMarker(script[j]) =>
          Done > 0 /\ accepted[Done] = Fenced(script[j].event.id)
    /\ \A h, j \in DOMAIN script : script[h].do = "drain" /\ script[j].do = "drain" => h = j
    /\ \A j \in DOMAIN script : script[j].do = "drain" =>
          /\ Done > 0 /\ IsInput(accepted[Done])
          /\ Lasting => ~OnWire(accepted[Done].id)
          /\ \A h \in DOMAIN script : script[h].do = "send" => j < h

\* The frames still to be sent are the steps a + 1 to a + m.
Sends(a, m) == \A j \in DOMAIN script : script[j].do = "send" <=> a < j /\ j <= a + m

\* Every input taken was sent in full, but for the m frames that the script still
\* sends of the last.
SentBut(a, m) ==
    /\ Sends(a, m)
    /\ a + m <= Len(script)
    /\ \A k \in DOMAIN accepted : IsInput(accepted[k]) /\ k < Done =>
          Count(wire, accepted[k].id) = FrameCount
    /\ Done > 0 /\ IsInput(accepted[Done]) => Count(wire, accepted[Done].id) = FrameCount - m

SentInv == Lasting => \E a \in 0 .. Len(script), m \in 0 .. FrameCount : SentBut(a, m)

\* An acknowledged close is followed by nothing.
CloseInv ==
    \A k \in DOMAIN accepted :
        accepted[k].kind = "close" /\ call[accepted[k].by] = "ok" /\ running =>
        Has("stop") /\ \A j \in DOMAIN script : script[j].do \in {"emit", "stop"}

\* Frames are numbered as they arrive, and reach the log in this order.
ArrivalInv ==
    /\ Len(inbound) <= arrived
    /\ \A i \in DOMAIN inbound : inbound[i].n = arrived - Len(inbound) + i
    /\ Lasting => \A n \in 1 .. arrived - Len(inbound) :
          Logged(n) \/ (script # <<>> /\ IsFrame(script[1]) /\ script[1].event.n = n)

\* A marker waits until the driver has drained what was ready.
ReadyInv ==
    \A j \in DOMAIN script : IsMarker(script[j]) =>
        /\ script[j].event.ready <= arrived
        /\ \/ \E h \in DOMAIN script : h < j /\ script[h].do = "drain"
           \/ \A n \in 1 .. script[j].event.ready : Logged(n)

\* A fenced input the driver took is marked in the log, or will be before it takes
\* another command; a frame that answers one is reported after its mark.
MarkInv ==
    /\ Lasting => \A k \in DOMAIN accepted : accepted[k].kind = "fenced" /\ k <= Done =>
          \/ Marked(accepted[k].id)
          \/ /\ k = Done
             /\ \E j \in DOMAIN script : IsMarker(script[j]) /\ script[j].event.id = accepted[k].id
    /\ \A j \in DOMAIN script : IsFrame(script[j]) =>
          \A k \in DOMAIN accepted :
              accepted[k].kind = "fenced" /\ accepted[k].id \in script[j].event.seen =>
                  Marked(accepted[k].id)

\* What the driver and its queues keep to.
DataInv ==
    /\ IdsInv
    /\ QueueInv
    /\ ScriptInv
    /\ SentInv
    /\ CloseInv
    /\ ArrivalInv
    /\ ReadyInv
    /\ MarkInv
    /\ FenceOrder
    /\ CloseSendsTheQueue

RealtimeInv == TypeOK /\ CallInv /\ DataInv

-----------------------------------------------------------------------------
(* Types.                                                                  *)

\* What a command, an event and a step of the script have.
LEMMA CommandType ==
  ASSUME NEW cmd \in Command
  PROVE  /\ cmd.kind \in {"frames", "fenced", "close"}
         /\ IsInput(cmd) => cmd.id \in Nat /\ cmd = [kind |-> cmd.kind, id |-> cmd.id]
         /\ cmd.kind = "close" => cmd.by \in Callers /\ cmd = Close(cmd.by)
         /\ cmd.kind = "fenced" => cmd = Fenced(cmd.id)
BY DEF Command, IsInput, Close, Fenced

\* Who closed is a caller.
LEMMA CloseCallers ==
  ASSUME TypeOK
  PROVE  \A k \in DOMAIN accepted : accepted[k].kind = "close" => accepted[k].by \in Callers
<1>1. accepted \in Seq(Command)
  BY DEF TypeOK
<1>2. \A k \in DOMAIN accepted : accepted[k] \in Command
  BY ONLY <1>1
<1> QED
  BY <1>2, CommandType

\* Events by their kind.
LEMMA EventType ==
  ASSUME NEW event \in Event
  PROVE  /\ event.kind \in {"frame", "marker", "closed", "error"}
         /\ event.kind = "frame" => event.n \in Nat /\ event.seen \in SUBSET Nat
         /\ event.kind = "marker" => event.id \in Nat /\ event.ready \in Nat
BY DEF Event

\* Steps by what they do.
LEMMA StepType ==
  ASSUME NEW step \in Step
  PROVE  /\ step.do \in {"drain", "stop", "send", "emit", "close"}
         /\ step.do = "send" => step.id \in Nat
         /\ step.do = "emit" => step.event \in Event
         /\ step.do = "close" => step.by \in Callers \cup {None}
BY DEF Step

\* A sequence of one element.
LEMMA OneType ==
  ASSUME NEW S, NEW x \in S
  PROVE  <<x>> \in Seq(S)
OBVIOUS

\* Sequences stay sequences.
LEMMA SeqType ==
  ASSUME NEW S, NEW s \in Seq(S)
  PROVE  /\ \A x \in S : Append(s, x) \in Seq(S)
         /\ \A t \in Seq(S) : s \o t \in Seq(S)
         /\ s # <<>> => Head(s) \in S /\ Tail(s) \in Seq(S)
OBVIOUS

\* The pieces scripts are built of.
LEMMA PieceType ==
  /\ DrainReady \in Seq(Step) /\ Stop \in Seq(Step) /\ Fatal \in Seq(Step)
  /\ \A id \in Nat : SendFrames(id) \in Seq(Step)
  /\ \A event \in Event : Emit(event) \in Seq(Step)
  /\ \A c \in Callers \cup {None} : CloseFor(c) \in Seq(Step)
  /\ Closed \in Event /\ Interrupted \in Event
  /\ Emit(Closed) \o Stop \in Seq(Step)
<1>1. Closed \in Event /\ Interrupted \in Event
  BY DEF Closed, Interrupted, Event
<1>2. \A event \in Event : [do |-> "emit", event |-> event] \in Step
  BY DEF Step
<1>3. \A event \in Event : Emit(event) \in Seq(Step)
  BY <1>2, OneType DEF Emit
<1>4. [do |-> "drain"] \in Step /\ [do |-> "stop"] \in Step
  BY DEF Step
<1>5. DrainReady \in Seq(Step) /\ Stop \in Seq(Step)
  BY <1>4 DEF DrainReady, Stop
<1>6. Fatal \in Seq(Step) /\ Emit(Closed) \o Stop \in Seq(Step)
  BY <1>1, <1>3, <1>5 DEF Fatal
<1>7. \A id \in Nat : [do |-> "send", id |-> id] \in Step
  BY DEF Step
<1>8. \A id \in Nat : SendFrames(id) \in Seq(Step)
  <2> TAKE id \in Nat
  <2> QED
    BY <1>7, IsASeq, RealtimeAssumption DEF SendFrames
<1>9. \A c \in Callers \cup {None} : [do |-> "close", by |-> c] \in Step
  BY DEF Step
<1>10. \A c \in Callers \cup {None} : CloseFor(c) \in Seq(Step)
  BY <1>9, OneType DEF CloseFor
<1> QED
  BY <1>1, <1>3, <1>5, <1>6, <1>8, <1>10

\* The script of a command.
LEMMA ScriptType ==
  ASSUME NEW cmd \in Command, arrived \in Nat
  PROVE  Script(cmd) \in Seq(Step)
<1>1. CASE cmd.kind = "frames"
  <2>1. cmd.id \in Nat
    BY <1>1, CommandType DEF IsInput
  <2> QED
    BY <1>1, <2>1, PieceType DEF Script
<1>2. CASE cmd.kind = "fenced"
  <2>1. cmd.id \in Nat
    BY <1>2, CommandType DEF IsInput
  <2>2. InputSent(cmd.id) \in Event
    BY <2>1 DEF InputSent, Event
  <2>3. Script(cmd) = DrainReady \o SendFrames(cmd.id) \o Emit(InputSent(cmd.id))
    BY <1>2 DEF Script, FencedScript
  <2>4. DrainReady \in Seq(Step) /\ SendFrames(cmd.id) \in Seq(Step)
        /\ Emit(InputSent(cmd.id)) \in Seq(Step)
    BY <2>1, <2>2, PieceType
  <2> HIDE DEF InputSent
  <2> QED
    BY <2>3, <2>4
<1>3. CASE cmd.kind = "close"
  <2>1. cmd.by \in Callers
    BY <1>3, CommandType
  <2> QED
    BY <1>3, <2>1, PieceType DEF Script
<1> QED
  BY <1>1, <1>2, <1>3, CommandType

\* What the driver does about a provider frame.
LEMMA ProcessedType ==
  ASSUME NEW frame \in Frame
  PROVE  /\ Processed(frame) \in Seq(Step)
         /\ Provided(frame) \in Event
<1>1. Provided(frame) \in Event
  BY DEF Provided, Event, Frame
<1> QED
  BY <1>1, PieceType DEF Processed

\* An input is numbered within the bound.
LEMMA InputsFinite ==
  ASSUME NEW cmds \in Seq(Command)
  PROVE  IsFiniteSet(Inputs(cmds)) /\ Cardinality(Inputs(cmds)) \in Nat
<1>1. Inputs(cmds) \subseteq 1 .. Len(cmds)
  BY DEF Inputs
<1>2. IsFiniteSet(1 .. Len(cmds))
  BY FS_Interval
<1> QED
  BY <1>1, <1>2, FS_Subset, FS_CardinalityType

\* Every step of the driver leaves it with a script it understands.
LEMMA ExecuteType ==
  ASSUME TypeOK, Execute
  PROVE  TypeOK'
<1> DEFINE step == Head(script)
<1>1. /\ script # <<>> /\ step \in Step /\ Tail(script) \in Seq(Step)
      /\ UNCHANGED <<open, outbound, waker, abortSlot, running, arrived, hostVars,
                     accepted, disturbed, stalled>>
  BY DEF Execute, TypeOK
<1>2. /\ script' \in Seq(Step) /\ inbound' \in Seq(Frame) /\ drained' \in Nat
      /\ log' \in Seq(Event) /\ wire' \in Seq(Nat) /\ call' \in [Callers -> {"idle", "polling", "parked", "waiting", "aborting", "stopping", "ok", "failed"}]
  <2> HIDE DEF step
  <2>1. CASE step.do = "drain" /\ Drain
    <3>1. CASE inbound = <<>>
      BY <1>1, <2>1, <3>1 DEF Drain, TypeOK
    <3>2. CASE inbound # <<>>
      <4>1. Head(inbound) \in Frame /\ Tail(inbound) \in Seq(Frame)
        BY <3>2 DEF TypeOK
      <4>2. Processed(Head(inbound)) \in Seq(Step) /\ Fatal \in Seq(Step)
        BY <4>1, ProcessedType, PieceType
      <4>3. drained' \in Nat
        BY <2>1, <3>2 DEF Drain, TypeOK
      <4>4. script' = Fatal \/ script' = Processed(Head(inbound)) \o script
        BY <2>1, <3>2 DEF Drain
      <4>5. script' \in Seq(Step)
        <5>1. script \in Seq(Step)
          BY DEF TypeOK
        <5>2. Processed(Head(inbound)) \o script \in Seq(Step)
          BY <4>2, <5>1, SeqType
        <5> QED
          BY <4>2, <4>4, <5>2
      <4> QED
        BY <2>1, <3>2, <4>1, <4>3, <4>5 DEF Drain, TypeOK
    <3> QED
      BY <3>1, <3>2
  <2>2. CASE step.do = "emit" /\ EmitEvent(step.event)
    <3>1. step.event \in Event /\ Stop \in Seq(Step)
      BY <1>1, <2>2, StepType, PieceType
    <3>2. log' \in Seq(Event) /\ script' \in Seq(Step)
      <4>1. Append(log, step.event) \in Seq(Event)
        BY <3>1, SeqType DEF TypeOK
      <4> QED
        BY <1>1, <2>2, <3>1, <4>1 DEF EmitEvent, TypeOK
    <3> QED
      BY <2>2, <3>2 DEF EmitEvent, TypeOK
  <2>3. CASE step.do = "send" /\ SendFrame(step.id)
    <3>1. step.id \in Nat /\ Fatal \in Seq(Step)
      BY <1>1, <2>3, StepType, PieceType
    <3>2. wire' \in Seq(Nat) /\ script' \in Seq(Step)
      <4>1. Append(wire, step.id) \in Seq(Nat)
        BY <3>1, SeqType DEF TypeOK
      <4> QED
        BY <1>1, <2>3, <3>1, <4>1 DEF SendFrame, TypeOK
    <3> QED
      BY <2>3, <3>2 DEF SendFrame, TypeOK
  <2>4. CASE step.do = "close" /\ CloseSocket(step.by)
    <3>1. step.by \in Callers \cup {None}
      BY <1>1, <2>4, StepType
    <3>2. script' \in Seq(Step)
      BY <2>4, PieceType DEF CloseSocket
    <3> QED
      BY <2>4, <3>1, <3>2 DEF CloseSocket, TypeOK
  <2> QED
    BY <2>1, <2>2, <2>3, <2>4 DEF Execute, step
<1> QED
  BY <1>1, <1>2 DEF TypeOK, hostVars

\* Every variable keeps its type.
LEMMA TypeStep ==
  ASSUME TypeOK, Next
  PROVE  TypeOK'
<1>1. ASSUME NEW c \in Callers, NEW fenced \in BOOLEAN, Send(c, fenced)
      PROVE  TypeOK'
  <2> DEFINE id == Cardinality(Inputs(accepted)) + 1
             cmd == IF fenced THEN Fenced(id) ELSE Frames(id)
  <2>1. id \in Nat
    BY InputsFinite DEF TypeOK
  <2> HIDE DEF id
  <2>2. cmd \in Command
    BY <2>1 DEF Fenced, Frames, Command
  <2> HIDE DEF cmd
  <2>3. \/ UNCHANGED <<outbound, accepted>>
        \/ outbound' = Append(outbound, cmd) /\ accepted' = Append(accepted, cmd)
    BY <1>1 DEF Send, Enqueue, cmd, id
  <2>4. outbound' \in Seq(Command) /\ accepted' \in Seq(Command)
    <3>1. Append(outbound, cmd) \in Seq(Command) /\ Append(accepted, cmd) \in Seq(Command)
      BY <2>2, SeqType DEF TypeOK
    <3> QED
      BY <2>3, <3>1 DEF TypeOK
  <2>5. waker' \in Callers \cup {None} /\ disturbed' \subseteq Callers
    BY <1>1 DEF Send, Polled, TypeOK
  <2> QED
    BY <1>1, <2>4, <2>5 DEF Send, TypeOK, hostVars
<1>2. ASSUME NEW c \in Callers, BeginClose(c)
      PROVE  TypeOK'
  BY <1>2 DEF BeginClose, TypeOK, hostVars
<1>3. ASSUME NEW c \in Callers, PollClose(c)
      PROVE  TypeOK'
  <2>1. Close(c) \in Command
    BY DEF Close, Command
  <2>2. outbound' \in Seq(Command) /\ accepted' \in Seq(Command)
    <3>1. Append(outbound, Close(c)) \in Seq(Command) /\ Append(accepted, Close(c)) \in Seq(Command)
      BY <2>1, SeqType DEF TypeOK
    <3> QED
      BY <1>3, <3>1 DEF PollClose, Enqueue, TypeOK
  <2>3. waker' \in Callers \cup {None} /\ disturbed' \subseteq Callers
    BY <1>3 DEF PollClose, Polled, TypeOK
  <2> QED
    BY <1>3, <2>2, <2>3 DEF PollClose, TypeOK, hostVars
<1>4. ASSUME NEW c \in Callers, BeginAbort(c)
      PROVE  TypeOK'
  BY <1>4 DEF BeginAbort, TypeOK, hostVars
<1>5. ASSUME NEW c \in Callers, SignalAbort(c)
      PROVE  TypeOK'
  BY <1>5 DEF SignalAbort, TypeOK, hostVars
<1>6. ASSUME DropControls
      PROVE  TypeOK'
  BY <1>6 DEF DropControls, TypeOK, hostVars
<1>7. ASSUME TakeCommand
      PROVE  TypeOK'
  <2>1. script' \in Seq(Step) /\ outbound' \in Seq(Command)
    <3>1. CASE outbound # <<>> /\ script' = Script(Head(outbound)) /\ outbound' = Tail(outbound)
      BY <3>1, ScriptType DEF TypeOK
    <3>2. CASE script' = CloseFor(None) /\ outbound' = outbound
      BY <3>2, PieceType DEF TypeOK
    <3> QED
      BY <1>7, <3>1, <3>2 DEF TakeCommand
  <2>2. call' \in [Callers -> {"idle", "polling", "parked", "waiting", "aborting", "stopping", "ok", "failed"}]
    BY <1>7 DEF TakeCommand, Woken, TypeOK
  <2> QED
    BY <1>7, <2>1, <2>2 DEF TakeCommand, TypeOK, hostVars
<1>8. ASSUME TakeInbound
      PROVE  TypeOK'
  <2>1. script' \in Seq(Step) /\ inbound' \in Seq(Frame)
    BY <1>8, ProcessedType DEF TakeInbound, TypeOK
  <2> QED
    BY <1>8, <2>1 DEF TakeInbound, TypeOK, hostVars, callerVars
<1>9. ASSUME NEW a, Ended(a), log' \in Seq(Event)
      PROVE  TypeOK'
  <2>1. call' \in [Callers -> {"idle", "polling", "parked", "waiting", "aborting", "stopping", "ok", "failed"}]
    BY <1>9 DEF Ended, Dropped, TypeOK
  <2>2. script' \in Seq(Step) /\ outbound' \in Seq(Command)
    BY <1>9 DEF Ended
  <2> QED
    BY <1>9, <2>1, <2>2 DEF Ended, TypeOK, hostVars
<1>10. ASSUME Return
       PROVE  TypeOK'
  BY <1>9, <1>10 DEF Return, TypeOK
<1>11. ASSUME ObserveAbort
       PROVE  TypeOK'
  <2>1. log' \in Seq(Event)
    BY <1>11, PieceType DEF ObserveAbort, TypeOK
  <2> QED
    BY <1>9, <1>11, <2>1 DEF ObserveAbort
<1>12. ASSUME Receive \/ RefuseMarkers \/ DropReceiver
       PROVE  TypeOK'
  <2>1. CASE Receive
    BY <2>1 DEF Receive, TypeOK, callerVars
  <2>2. CASE RefuseMarkers
    BY <2>2 DEF RefuseMarkers, TypeOK, callerVars
  <2>3. CASE DropReceiver
    BY <2>3 DEF DropReceiver, TypeOK, callerVars
  <2> QED
    BY <1>12, <2>1, <2>2, <2>3
<1>13. ASSUME NEW ok \in BOOLEAN, NEW end \in BOOLEAN, Arrive(ok, end)
       PROVE  TypeOK'
  <2> DEFINE frame == [n |-> arrived + 1, ok |-> ok, end |-> end,
                       seen |-> {wire[k] : k \in DOMAIN wire}]
  <2>1. {wire[k] : k \in DOMAIN wire} \in SUBSET Nat
    BY DEF TypeOK
  <2>2. frame \in Frame
    BY <2>1 DEF Frame, TypeOK
  <2> HIDE DEF frame
  <2>3. inbound' = Append(inbound, frame)
    BY <1>13 DEF Arrive, frame
  <2>4. inbound' \in Seq(Frame)
    BY <2>2, <2>3 DEF TypeOK
  <2> QED
    BY <1>13, <2>4 DEF Arrive, TypeOK, hostVars, callerVars
<1>14. ASSUME NEW who \in {"events", "transport"}, Stall(who)
       PROVE  TypeOK'
  BY <1>14 DEF Stall, TypeOK, hostVars, callerVars
<1> QED
  BY <1>1, <1>2, <1>3, <1>4, <1>5, <1>6, <1>7, <1>8, <1>10, <1>11, <1>12, <1>13, <1>14, ExecuteType
     DEF Next, Driver

-----------------------------------------------------------------------------
(* Callers.                                                                *)

\* Appending keeps what was there.
LEMMA AppendFacts ==
  ASSUME NEW S, NEW s \in Seq(S), NEW x \in S
  PROVE  /\ Len(s) \in Nat /\ DOMAIN s = 1 .. Len(s)
         /\ Append(s, x) \in Seq(S)
         /\ Len(Append(s, x)) = Len(s) + 1 /\ DOMAIN Append(s, x) = 1 .. Len(s) + 1
         /\ \A k \in 1 .. Len(s) : Append(s, x)[k] = s[k]
         /\ Append(s, x)[Len(s) + 1] = x
OBVIOUS

\* The command the script works off is one that was accepted.
LEMMA DoneBound ==
  ASSUME TypeOK, QueueInv, running
  PROVE  /\ Done \in Nat /\ Done <= Len(accepted)
         /\ Done > 0 => Done \in DOMAIN accepted
BY DEF TypeOK, QueueInv, Done

\* Who the driver is about to answer has sent a close.
LEMMA ClosingCaller ==
  ASSUME TypeOK, QueueInv, CallInv, ScriptInv, running, script # <<>>,
         Head(script).do = "close", Head(script).by # None
  PROVE  /\ Head(script).by \in Callers
         /\ Done \in DOMAIN accepted /\ accepted[Done] = Close(Head(script).by)
         /\ call[Head(script).by] \in {"waiting", "ok", "failed"}
<1>1. Head(script) = script[1] /\ 1 \in DOMAIN script /\ Head(script) \in Step
  BY DEF TypeOK
<1>2. Done > 0 /\ accepted[Done] = Close(script[1].by)
  BY <1>1 DEF ScriptInv
<1>3. Done \in DOMAIN accepted /\ script[1].by \in Callers
  BY <1>1, <1>2, DoneBound, StepType
<1>4. accepted[Done].kind = "close" /\ accepted[Done].by = script[1].by
  BY <1>2 DEF Close
<1> QED
  BY <1>1, <1>2, <1>3, <1>4 DEF CallInv

\* A caller in close or abort is where its command is.
LEMMA CallStep ==
  ASSUME TypeOK, QueueInv, CallInv, ScriptInv, Next
  PROVE  CallInv'
<1> DEFINE Closer(c) == \E k \in DOMAIN accepted : accepted[k].kind = "close" /\ accepted[k].by = c
<1>a. \A k \in DOMAIN accepted : accepted[k] \in Command
  BY DEF TypeOK
<1>b. \A k \in DOMAIN accepted : accepted[k].kind = "close" => accepted[k].by \in Callers
  BY <1>a, CommandType
<1>1. ASSUME NEW cmd \in Command, accepted' = Append(accepted, cmd), cmd.kind # "close",
             UNCHANGED <<call, waker, abortSlot>>
      PROVE  CallInv'
  <2>1. /\ DOMAIN accepted' = 1 .. Len(accepted) + 1 /\ DOMAIN accepted = 1 .. Len(accepted)
        /\ \A k \in DOMAIN accepted : accepted'[k] = accepted[k]
        /\ accepted'[Len(accepted) + 1] = cmd
        /\ Len(accepted) \in Nat
    BY <1>1, AppendFacts DEF TypeOK
  <2>2. \A k \in DOMAIN accepted' : accepted'[k].kind = "close" =>
           k \in DOMAIN accepted /\ accepted'[k] = accepted[k]
    BY <1>1, <2>1
  <2> QED
    BY <1>1, <2>2 DEF CallInv
<1>2. ASSUME UNCHANGED accepted,
             \A c \in Callers : call'[c] = call[c]
                                  \/ call[c] \notin {"parked", "waiting", "stopping", "ok", "failed"}
                                  \/ (call'[c] \in {"ok", "failed"} /\ c # waker'),
             waker' # None => (waker' = waker \/ call'[waker'] = "parked"),
             abortSlot' = abortSlot \/ abortSlot' \notin Callers
      PROVE  CallInv'
  <2>1. \A k \in DOMAIN accepted : accepted[k].kind = "close" =>
          /\ call'[accepted[k].by] \in {"waiting", "ok", "failed"}
          /\ accepted[k].by # abortSlot'
    BY <1>b, <1>2 DEF CallInv
  <2>2. waker' # None => call'[waker'] = "parked"
    BY <1>2 DEF CallInv, TypeOK
  <2>3. abortSlot' \in Callers => call'[abortSlot'] \in {"stopping", "ok", "failed"}
    BY <1>2 DEF CallInv
  <2>4. \A k, l \in DOMAIN accepted :
          (accepted[k].kind = "close" /\ accepted[l].kind = "close" /\ accepted[k].by = accepted[l].by)
              => k = l
    BY DEF CallInv
  <2> QED
    BY <1>2, <2>1, <2>2, <2>3, <2>4 DEF CallInv
<1>3. ASSUME NEW c \in Callers, NEW fenced \in BOOLEAN, Send(c, fenced)
      PROVE  CallInv'
  <2> DEFINE id == Cardinality(Inputs(accepted)) + 1
             cmd == IF fenced THEN Fenced(id) ELSE Frames(id)
  <2>1. id \in Nat
    BY InputsFinite DEF TypeOK
  <2> HIDE DEF id
  <2>2. cmd \in Command /\ cmd.kind # "close"
    BY <2>1 DEF Fenced, Frames, Command
  <2> HIDE DEF cmd
  <2>3. CASE accepted' = accepted
    BY <1>2, <1>3, <2>3 DEF Send, Polled, hostVars
  <2>4. CASE accepted' = Append(accepted, cmd) /\ UNCHANGED waker
    BY <1>1, <1>3, <2>2, <2>4 DEF Send
  <2> QED
    BY <1>3, <2>3, <2>4 DEF Send, Enqueue, cmd, id
<1>4. ASSUME NEW c \in Callers, BeginClose(c)
      PROVE  CallInv'
  BY <1>2, <1>4 DEF BeginClose, TypeOK, hostVars
<1>5. ASSUME NEW c \in Callers, PollClose(c)
      PROVE  CallInv'
  <2>1. CASE accepted' = accepted
    <3>1. call[c] = "polling" /\ \A d \in Callers : d # c => call'[d] = call[d]
      BY <1>5 DEF PollClose, TypeOK
    <3>2. (waker' = waker \/ call'[waker'] = "parked") /\ UNCHANGED abortSlot
      BY <1>5, <2>1 DEF PollClose, Polled, Enqueue, TypeOK
    <3> QED
      BY <1>2, <2>1, <3>1, <3>2
  <2>2. CASE /\ accepted' = Append(accepted, Close(c)) /\ UNCHANGED waker
             /\ call' = [call EXCEPT ![c] = "waiting"]
    <3>1. Close(c) \in Command /\ Close(c).kind = "close" /\ Close(c).by = c
      BY DEF Close, Command
    <3> HIDE DEF Close
    <3>2. /\ DOMAIN accepted' = 1 .. Len(accepted) + 1 /\ DOMAIN accepted = 1 .. Len(accepted)
          /\ \A k \in DOMAIN accepted : accepted'[k] = accepted[k]
          /\ accepted'[Len(accepted) + 1] = Close(c)
          /\ Len(accepted) \in Nat
      BY <2>2, <3>1, AppendFacts DEF TypeOK
    <3>3. call[c] = "polling" /\ UNCHANGED abortSlot
          /\ call'[c] = "waiting" /\ \A d \in Callers : d # c => call'[d] = call[d]
      BY <1>5, <2>2 DEF PollClose, TypeOK
    <3>4. \A k \in DOMAIN accepted : accepted[k].kind = "close" => accepted[k].by # c
      BY <3>3 DEF CallInv
    <3>5. c # abortSlot /\ c # waker
      BY <3>3 DEF CallInv, TypeOK
    <3>6. \A k \in DOMAIN accepted' : k \in DOMAIN accepted \/ k = Len(accepted) + 1
      BY <3>2
    <3>7. \A k \in DOMAIN accepted' : accepted'[k].kind = "close" =>
            /\ call'[accepted'[k].by] \in {"waiting", "ok", "failed"}
            /\ accepted'[k].by # abortSlot'
      BY <1>b, <3>1, <3>2, <3>3, <3>4, <3>5, <3>6 DEF CallInv
    <3>8. \A k, l \in DOMAIN accepted' :
            (accepted'[k].kind = "close" /\ accepted'[l].kind = "close"
                 /\ accepted'[k].by = accepted'[l].by) => k = l
      BY <3>1, <3>2, <3>4, <3>6 DEF CallInv
    <3>9. waker' # None => call'[waker'] = "parked"
      BY <2>2, <3>3, <3>5 DEF CallInv, TypeOK
    <3>10. abortSlot' \in Callers => call'[abortSlot'] \in {"stopping", "ok", "failed"}
      BY <3>3, <3>5 DEF CallInv
    <3> QED
      BY <3>7, <3>8, <3>9, <3>10 DEF CallInv
  <2> QED
    BY <1>5, <2>1, <2>2 DEF PollClose, Enqueue
<1>6. ASSUME NEW c \in Callers, BeginAbort(c)
      PROVE  CallInv'
  <2>1. call[c] = "idle" /\ \A d \in Callers : d # c => call'[d] = call[d]
    BY <1>6 DEF BeginAbort, TypeOK
  <2>2. abortSlot' = abortSlot \/ abortSlot' = "taken"
    BY <1>6 DEF BeginAbort
  <2> QED
    BY <1>2, <1>6, <2>1, <2>2, RealtimeAssumption DEF BeginAbort
<1>7. ASSUME NEW c \in Callers, SignalAbort(c)
      PROVE  CallInv'
  <2>1. call[c] = "aborting" /\ \A d \in Callers : d # c => call'[d] = call[d]
    BY <1>7 DEF SignalAbort, TypeOK
  <2>2. UNCHANGED <<accepted, waker>>
    BY <1>7 DEF SignalAbort
  <2>3. CASE abortSlot' = abortSlot
    BY <1>2, <2>1, <2>2, <2>3
  <2>4. CASE abortSlot' = c /\ call'[c] = "stopping"
    <3>1. \A k \in DOMAIN accepted : accepted[k].kind = "close" => accepted[k].by # c
      BY <2>1 DEF CallInv
    <3>2. waker # c
      BY <2>1 DEF CallInv, TypeOK
    <3>3. \A k \in DOMAIN accepted : accepted[k].kind = "close" =>
            /\ call'[accepted[k].by] \in {"waiting", "ok", "failed"}
            /\ accepted[k].by # abortSlot'
      BY <1>b, <2>1, <2>4, <3>1 DEF CallInv
    <3>4. waker # None => call'[waker] = "parked"
      BY <2>1, <3>2 DEF CallInv, TypeOK
    <3>5. \A k, l \in DOMAIN accepted :
          (accepted[k].kind = "close" /\ accepted[l].kind = "close" /\ accepted[k].by = accepted[l].by)
              => k = l
      BY DEF CallInv
    <3> QED
      BY <2>2, <2>4, <3>3, <3>4, <3>5 DEF CallInv
  <2> QED
    BY <1>7, <2>3, <2>4 DEF SignalAbort, TypeOK
<1>8. ASSUME DropControls
      PROVE  CallInv'
  <2>1. \A c \in Callers : call'[c] = call[c] \/ call[c] = "idle"
    BY <1>8 DEF DropControls
  <2> QED
    BY <1>2, <1>8, <2>1 DEF DropControls, hostVars
<1>9. ASSUME UNCHANGED <<accepted, abortSlot>>, waker' = None,
             \A c \in Callers : \/ call'[c] = call[c]
                                \/ call'[c] = "polling" /\ c = waker
                                \/ call'[c] = "failed" /\ call[c] \in {"waiting", "stopping"}
                                \/ call'[c] = "ok" /\ c = abortSlot
      PROVE  CallInv'
  <2>1. \A k \in DOMAIN accepted : accepted[k].kind = "close" => accepted[k].by # waker
    BY <1>b, RealtimeAssumption DEF CallInv, TypeOK
  <2>2. \A k \in DOMAIN accepted : accepted[k].kind = "close" =>
          /\ call'[accepted[k].by] \in {"waiting", "ok", "failed"}
          /\ accepted[k].by # abortSlot'
    BY <1>b, <1>9, <2>1 DEF CallInv
  <2>3. abortSlot \in Callers => call'[abortSlot] \in {"stopping", "ok", "failed"}
    BY <1>9 DEF CallInv
  <2>4. \A k, l \in DOMAIN accepted :
          (accepted[k].kind = "close" /\ accepted[l].kind = "close" /\ accepted[k].by = accepted[l].by)
              => k = l
    BY DEF CallInv
  <2> QED
    BY <1>9, <2>2, <2>3, <2>4 DEF CallInv
<1>10. ASSUME TakeCommand
       PROVE  CallInv'
  <2>1. CASE UNCHANGED <<call, waker>>
    BY <1>2, <1>10, <2>1 DEF TakeCommand
  <2>2. CASE call' = Woken /\ waker' = None
    BY <1>9, <1>10, <2>2 DEF TakeCommand, Woken, TypeOK
  <2> QED
    BY <1>10, <2>1, <2>2 DEF TakeCommand
<1>11. ASSUME TakeInbound
       PROVE  CallInv'
  BY <1>2, <1>11 DEF TakeInbound, callerVars
<1>12. ASSUME Execute
       PROVE  CallInv'
  <2> DEFINE step == Head(script)
  <2>1. UNCHANGED <<accepted, waker, abortSlot>> /\ running /\ script # <<>>
    BY <1>12 DEF Execute, Unparked
  <2>2. CASE UNCHANGED call
    BY <1>2, <2>1, <2>2
  <2>3. CASE step.do = "close" /\ CloseSocket(step.by) /\ step.by # None
    <3>1. step.by \in Callers /\ step.by # waker
      BY <2>1, <2>3, ClosingCaller DEF CallInv
    <3>2. /\ call'[step.by] \in {"ok", "failed"}
          /\ \A c \in Callers : c # step.by => call'[c] = call[c]
      BY <2>3, <3>1 DEF CloseSocket, TypeOK
    <3> HIDE DEF step
    <3> QED
      BY <1>2, <2>1, <3>1, <3>2
  <2> QED
    BY <1>12, <2>2, <2>3 DEF Execute, Drain, EmitEvent, SendFrame, CloseSocket
<1>13. ASSUME NEW a, Ended(a), a = None \/ a = abortSlot
       PROVE  CallInv'
  <2>1. \A c \in Callers : \/ call'[c] = call[c]
                           \/ call'[c] = "polling" /\ c = waker
                           \/ call'[c] = "failed" /\ call[c] \in {"waiting", "stopping"}
                           \/ call'[c] = "ok" /\ c = abortSlot
    BY <1>13, RealtimeAssumption DEF Ended, Dropped
  <2> QED
    BY <1>9, <1>13, <2>1 DEF Ended
<1>14. ASSUME Return \/ ObserveAbort
       PROVE  CallInv'
  BY <1>13, <1>14 DEF Return, ObserveAbort
<1>15. ASSUME RefuseMarkers
       PROVE  CallInv'
  BY <1>2, <1>15, RealtimeAssumption DEF RefuseMarkers, callerVars
<1>16. ASSUME UNCHANGED <<callerVars, abortSlot, accepted>>
       PROVE  CallInv'
  BY <1>2, <1>16 DEF callerVars
<1> QED
  BY <1>3, <1>4, <1>5, <1>6, <1>7, <1>8, <1>10, <1>11, <1>12, <1>14, <1>15, <1>16
     DEF Next, Driver, Receive, DropReceiver, Arrive, Stall

-----------------------------------------------------------------------------
(* The socket and the log.                                                 *)

\* A frame that goes out is one more of its input.
LEMMA CountAppend ==
  ASSUME NEW sent \in Seq(Nat), NEW x \in Nat, NEW id \in Nat
  PROVE  /\ Count(sent, id) \in Nat
         /\ Count(Append(sent, x), x) = Count(sent, x) + 1
         /\ id # x => Count(Append(sent, x), id) = Count(sent, id)
<1> DEFINE At(s, i) == {w \in DOMAIN s : s[w] = i}
<1>1. /\ Len(sent) \in Nat /\ DOMAIN sent = 1 .. Len(sent)
      /\ DOMAIN Append(sent, x) = 1 .. Len(sent) + 1
      /\ \A k \in 1 .. Len(sent) : Append(sent, x)[k] = sent[k]
      /\ Append(sent, x)[Len(sent) + 1] = x
  BY AppendFacts
<1>2. \A i \in Nat : IsFiniteSet(At(sent, i)) /\ Cardinality(At(sent, i)) \in Nat
  <2> TAKE i \in Nat
  <2>1. At(sent, i) \subseteq 1 .. Len(sent)
    BY <1>1
  <2> QED
    <3>1. IsFiniteSet(1 .. Len(sent))
      BY FS_Interval
    <3> HIDE DEF At
    <3> QED
      BY <2>1, <3>1, FS_Subset, FS_CardinalityType
<1>3. At(Append(sent, x), x) = At(sent, x) \cup {Len(sent) + 1}
  BY <1>1
<1>4. Len(sent) + 1 \notin At(sent, x)
  BY <1>1
<1>5. Cardinality(At(sent, x) \cup {Len(sent) + 1}) = Cardinality(At(sent, x)) + 1
  <2> HIDE DEF At
  <2> QED
    BY <1>2, <1>4, FS_AddElement
<1>6. id # x => At(Append(sent, x), id) = At(sent, id)
  BY <1>1
<1> HIDE DEF At
<1>7. \A s, i : Count(s, i) = Cardinality(At(s, i))
  BY DEF Count, At
<1> QED
  BY <1>2, <1>3, <1>5, <1>6, <1>7

\* What never went out was sent no times.
LEMMA CountNone ==
  ASSUME NEW id, ~OnWire(id)
  PROVE  Count(wire, id) = 0
<1>1. {w \in DOMAIN wire : wire[w] = id} = {}
  BY DEF OnWire
<1> QED
  BY <1>1, FS_EmptySet DEF Count

\* Fences stay in order when the event that is put on the channel respects them.
LEMMA FenceAppend ==
  ASSUME TypeOK, FenceOrder, UNCHANGED accepted, NEW event \in Event, log' = Append(log, event),
         event.kind = "marker" => \A n \in 1 .. event.ready : Logged(n),
         event.kind = "frame" =>
            \A k \in DOMAIN accepted :
               accepted[k].kind = "fenced" /\ accepted[k].id \in event.seen => Marked(accepted[k].id)
  PROVE  FenceOrder'
<1>1. /\ Len(log) \in Nat /\ DOMAIN log = 1 .. Len(log) /\ DOMAIN log' = 1 .. Len(log) + 1
      /\ \A k \in 1 .. Len(log) : log'[k] = log[k]
      /\ log'[Len(log) + 1] = event
  BY AppendFacts DEF TypeOK
<1>2. ASSUME NEW i \in DOMAIN log', log'[i].kind = "marker", NEW n \in 1 .. log'[i].ready
      PROVE  \E j \in 1 .. i - 1 : log'[j].kind = "frame" /\ log'[j].n = n
  <2>1. CASE i \in DOMAIN log
    <3>1. PICK j \in 1 .. i - 1 : log[j].kind = "frame" /\ log[j].n = n
      BY <1>1, <1>2, <2>1 DEF FenceOrder
    <3> QED
      BY <1>1, <2>1, <3>1
  <2>2. CASE i = Len(log) + 1
    <3>1. PICK j \in DOMAIN log : log[j].kind = "frame" /\ log[j].n = n
      BY <1>1, <1>2, <2>2 DEF Logged
    <3> QED
      BY <1>1, <2>2, <3>1
  <2> QED
    BY <1>1, <2>1, <2>2
<1>3. ASSUME NEW j \in DOMAIN log', log'[j].kind = "frame", NEW k \in DOMAIN accepted,
             accepted[k].kind = "fenced", accepted[k].id \in log'[j].seen
      PROVE  \E i \in 1 .. j - 1 : log'[i].kind = "marker" /\ log'[i].id = accepted[k].id
  <2>1. CASE j \in DOMAIN log
    <3>1. PICK i \in 1 .. j - 1 : log[i].kind = "marker" /\ log[i].id = accepted[k].id
      BY <1>1, <1>3, <2>1 DEF FenceOrder
    <3> QED
      BY <1>1, <2>1, <3>1
  <2>2. CASE j = Len(log) + 1
    <3>1. PICK i \in DOMAIN log : log[i].kind = "marker" /\ log[i].id = accepted[k].id
      BY <1>1, <1>3, <2>2 DEF Marked
    <3> QED
      BY <1>1, <2>2, <3>1
  <2> QED
    BY <1>1, <2>1, <2>2
<1> QED
  BY <1>2, <1>3 DEF FenceOrder

\* What is on the log stays there.
LEMMA LogKeeps ==
  ASSUME TypeOK, log' = log \/ \E event \in Event : log' = Append(log, event)
  PROVE  /\ \A n : Logged(n) => Logged(n)'
         /\ \A id : Marked(id) => Marked(id)'
<1>1. CASE log' = log
  BY <1>1 DEF Logged, Marked
<1>2. ASSUME NEW event \in Event, log' = Append(log, event)
      PROVE  /\ \A n : Logged(n) => Logged(n)'
             /\ \A id : Marked(id) => Marked(id)'
  <2>1. DOMAIN log \subseteq DOMAIN log' /\ \A j \in DOMAIN log : log'[j] = log[j]
    BY <1>2, AppendFacts DEF TypeOK
  <2> QED
    BY <2>1 DEF Logged, Marked
<1> QED
  BY <1>1, <1>2

\* A step that touches neither queues, script nor log.
LEMMA QuietStep ==
  ASSUME TypeOK, CallInv, DataInv,
         UNCHANGED <<outbound, script, running, inbound, arrived, log, wire, accepted>>,
         \A c \in Callers : call'[c] = "ok" => call[c] = "ok"
  PROVE  DataInv'
<1>1. IdsInv'
  BY DEF DataInv, IdsInv, Last, OnWire
<1>2. Lasting' = Lasting /\ Done' = Done
  BY DEF Lasting, Has, Done
<1>3. QueueInv'
  BY <1>2 DEF DataInv, QueueInv, OnWire
<1>4. ScriptInv'
  BY <1>2 DEF DataInv, ScriptInv, OnWire
<1>5. SentInv'
  BY <1>2 DEF DataInv, SentInv, SentBut, Sends
<1>6. ArrivalInv'
  BY <1>2 DEF DataInv, ArrivalInv, Logged
<1>7. ReadyInv'
  BY DEF DataInv, ReadyInv, Logged
<1>8. MarkInv'
  BY <1>2 DEF DataInv, MarkInv, Marked
<1>9. FenceOrder'
  BY DEF DataInv, FenceOrder
<1>10. \A k \in DOMAIN accepted : accepted[k].kind = "close" => accepted[k].by \in Callers
  BY CommandType DEF TypeOK
<1>11. CloseInv'
  BY <1>10 DEF DataInv, CloseInv, Has
<1>12. CloseSendsTheQueue'
  BY <1>10 DEF DataInv, CloseSendsTheQueue
<1> QED
  BY <1>1, <1>3, <1>4, <1>5, <1>6, <1>7, <1>8, <1>9, <1>11, <1>12 DEF DataInv

\* Accepting an input numbers it.
LEMMA InputsAppend ==
  ASSUME NEW cmds \in Seq(Command), NEW cmd \in Command
  PROVE  Cardinality(Inputs(Append(cmds, cmd)))
            = Cardinality(Inputs(cmds)) + (IF IsInput(cmd) THEN 1 ELSE 0)
<1>1. /\ Len(cmds) \in Nat /\ DOMAIN cmds = 1 .. Len(cmds)
      /\ DOMAIN Append(cmds, cmd) = 1 .. Len(cmds) + 1
      /\ \A k \in 1 .. Len(cmds) : Append(cmds, cmd)[k] = cmds[k]
      /\ Append(cmds, cmd)[Len(cmds) + 1] = cmd
  BY AppendFacts
<1>2. IsFiniteSet(Inputs(cmds)) /\ Cardinality(Inputs(cmds)) \in Nat
  BY InputsFinite
<1>3. CASE IsInput(cmd)
  <2>1. Inputs(Append(cmds, cmd)) = Inputs(cmds) \cup {Len(cmds) + 1} /\ Len(cmds) + 1 \notin Inputs(cmds)
    BY <1>1, <1>3 DEF Inputs, IsInput
  <2> QED
    BY <1>2, <1>3, <2>1, FS_AddElement
<1>4. CASE ~IsInput(cmd)
  <2>1. Inputs(Append(cmds, cmd)) = Inputs(cmds)
    BY <1>1, <1>4 DEF Inputs, IsInput
  <2> QED
    BY <1>2, <1>4, <2>1
<1> QED
  BY <1>3, <1>4

\* A command is accepted.
LEMMA EnqueueStep ==
  ASSUME TypeOK, CallInv, DataInv, NEW cmd \in Command, Enqueue(cmd), IsInput(cmd) => cmd.id = Last + 1,
         UNCHANGED <<script, running, inbound, arrived, log, wire>>,
         \A c \in Callers : call'[c] = "ok" => call[c] = "ok",
         cmd.kind = "close" => call'[cmd.by] # "ok"
  PROVE  DataInv'
<1>1. /\ Len(accepted) \in Nat /\ DOMAIN accepted = 1 .. Len(accepted)
      /\ DOMAIN accepted' = 1 .. Len(accepted) + 1 /\ Len(accepted') = Len(accepted) + 1
      /\ \A k \in 1 .. Len(accepted) : accepted'[k] = accepted[k]
      /\ accepted'[Len(accepted) + 1] = cmd
  BY AppendFacts DEF TypeOK, Enqueue
<1>2. /\ Len(outbound) \in Nat /\ DOMAIN outbound = 1 .. Len(outbound)
      /\ DOMAIN outbound' = 1 .. Len(outbound) + 1 /\ Len(outbound') = Len(outbound) + 1
      /\ \A k \in 1 .. Len(outbound) : outbound'[k] = outbound[k]
      /\ outbound'[Len(outbound) + 1] = cmd
  BY AppendFacts DEF TypeOK, Enqueue
<1>3. Last \in Nat /\ Last' = Last + (IF IsInput(cmd) THEN 1 ELSE 0)
  BY InputsAppend, InputsFinite DEF TypeOK, Enqueue, Last
<1>4. Done' = Done /\ Lasting' = Lasting
  BY <1>1, <1>2 DEF Done, Lasting, Has
<1>5. \A id : OnWire(id) => id \in 1 .. Last
  BY DEF DataInv, IdsInv, OnWire
<1>6. /\ \A id : OnWire(id)' = OnWire(id)
      /\ \A n : Logged(n)' = Logged(n)
      /\ \A id : Marked(id)' = Marked(id)
  BY DEF OnWire, Logged, Marked
<1>7. script # <<>> => running
  BY DEF DataInv, ScriptInv
<1>8. running => /\ Done \in Nat /\ Done <= Len(accepted)
                 /\ Done > 0 => Done \in DOMAIN accepted /\ accepted'[Done] = accepted[Done]
  BY <1>1, DoneBound DEF DataInv
<1>9. \A k \in DOMAIN accepted' : (k \in DOMAIN accepted /\ accepted'[k] = accepted[k])
                                    \/ (k = Len(accepted) + 1 /\ accepted'[k] = cmd)
  BY <1>1
<1>10. \A k \in DOMAIN accepted : accepted[k].kind = "close" => accepted[k].by \in Callers
  BY CommandType DEF TypeOK
<1>11. IdsInv'
  <2>1. \A k \in DOMAIN accepted' : IsInput(accepted'[k]) => accepted'[k].id \in 1 .. Last'
    BY <1>3, <1>9 DEF DataInv, IdsInv
  <2>2. \A k, l \in DOMAIN accepted' :
          IsInput(accepted'[k]) /\ IsInput(accepted'[l]) /\ accepted'[k].id = accepted'[l].id => k = l
    BY <1>3, <1>9 DEF DataInv, IdsInv
  <2>3. \A w \in DOMAIN wire' : wire'[w] \in 1 .. Last'
    BY <1>3 DEF DataInv, IdsInv
  <2>4. /\ \A i \in DOMAIN inbound' : \A id \in inbound'[i].seen : OnWire(id)'
        /\ \A j \in DOMAIN log' : log'[j].kind = "frame" => \A id \in log'[j].seen : OnWire(id)'
        /\ \A j \in DOMAIN script' : IsFrame(script'[j]) => \A id \in script'[j].event.seen : OnWire(id)'
    BY <1>6 DEF DataInv, IdsInv
  <2> QED
    BY <2>1, <2>2, <2>3, <2>4 DEF IdsInv, OnWire
<1>12. QueueInv'
  <2> SUFFICES ASSUME running
               PROVE  /\ Len(outbound') <= Len(accepted')
                      /\ \A i \in DOMAIN outbound' : outbound'[i] = accepted'[Done + i]
                      /\ \A k \in DOMAIN accepted' :
                            IsInput(accepted'[k]) /\ OnWire(accepted'[k].id) => k <= Done
    BY <1>4, <1>6 DEF QueueInv, OnWire
  <2>1. Len(outbound) <= Len(accepted) /\ Done = Len(accepted) - Len(outbound)
    BY DEF DataInv, QueueInv, Done
  <2>2. ASSUME NEW i \in DOMAIN outbound'
        PROVE  outbound'[i] = accepted'[Done + i]
    <3>1. CASE i \in DOMAIN outbound
      <4>1. outbound[i] = accepted[Done + i] /\ Done + i \in 1 .. Len(accepted)
        BY <1>1, <1>2, <2>1, <3>1 DEF DataInv, QueueInv
      <4> QED
        BY <1>1, <1>2, <3>1, <4>1
    <3>2. CASE i = Len(outbound) + 1
      BY <1>1, <1>2, <2>1, <3>2
    <3> QED
      BY <1>2, <3>1, <3>2
  <2>3. ASSUME NEW k \in DOMAIN accepted', IsInput(accepted'[k]), OnWire(accepted'[k].id)
        PROVE  k <= Done
    <3>1. accepted'[k].id \in 1 .. Last
      BY <1>5, <2>3
    <3>2. k \in DOMAIN accepted /\ accepted'[k] = accepted[k]
      BY <1>3, <1>9, <2>3, <3>1
    <3> QED
      BY <2>3, <3>2 DEF DataInv, QueueInv
  <2> QED
    BY <1>1, <1>2, <2>1, <2>2, <2>3
<1>13. ScriptInv'
  <2>1. CASE script = <<>>
    BY <2>1 DEF ScriptInv
  <2>2. CASE script # <<>>
    <3>1. running /\ (Done > 0 => accepted'[Done] = accepted[Done])
      BY <1>7, <1>8, <2>2
    <3> QED
      BY <1>4, <1>6, <3>1 DEF DataInv, ScriptInv, OnWire
  <2> QED
    BY <2>1, <2>2
<1>14. SentInv'
  <2> SUFFICES ASSUME Lasting
               PROVE  SentInv'
    BY <1>4 DEF SentInv
  <2>1. running
    BY DEF Lasting
  <2>2. PICK a \in 0 .. Len(script), m \in 0 .. FrameCount : SentBut(a, m)
    BY DEF DataInv, SentInv
  <2>4. Sends(a, m)'
    BY <2>2 DEF SentBut, Sends
  <2>5. \A k \in DOMAIN accepted' : k < Done => k \in DOMAIN accepted /\ accepted'[k] = accepted[k]
    BY <1>1, <1>8, <2>1
  <2>6. \A k \in DOMAIN accepted' : IsInput(accepted'[k]) /\ k < Done' =>
                  Count(wire', accepted'[k].id) = FrameCount
    BY <1>4, <2>2, <2>5 DEF SentBut
  <2>7. Done' > 0 /\ IsInput(accepted'[Done']) => Count(wire', accepted'[Done'].id) = FrameCount - m
    BY <1>4, <1>8, <2>1, <2>2 DEF SentBut
  <2>8. a + m <= Len(script') /\ a \in 0 .. Len(script')
    BY <2>2 DEF SentBut
  <2> QED
    BY <2>4, <2>6, <2>7, <2>8 DEF SentInv, SentBut
<1>15. CloseInv'
  BY <1>9, <1>10 DEF DataInv, CloseInv, Has
<1>16. ArrivalInv'
  BY <1>4 DEF DataInv, ArrivalInv, Logged
<1>17. ReadyInv'
  BY DEF DataInv, ReadyInv, Logged
<1>18. MarkInv'
  <2>1. ASSUME Lasting, NEW k \in DOMAIN accepted', accepted'[k].kind = "fenced", k <= Done
        PROVE  \/ Marked(accepted'[k].id)
               \/ /\ k = Done
                  /\ \E j \in DOMAIN script : IsMarker(script[j]) /\ script[j].event.id = accepted'[k].id
    <3>1. k \in DOMAIN accepted /\ accepted'[k] = accepted[k]
      BY <1>1, <1>8, <2>1 DEF Lasting
    <3> QED
      BY <2>1, <3>1 DEF DataInv, MarkInv
  <2>2. ASSUME NEW j \in DOMAIN script, IsFrame(script[j]), NEW k \in DOMAIN accepted',
               accepted'[k].kind = "fenced", accepted'[k].id \in script[j].event.seen
        PROVE  Marked(accepted'[k].id)
    <3>1. accepted'[k].id \in 1 .. Last
      BY <1>5, <2>2 DEF DataInv, IdsInv
    <3>2. k \in DOMAIN accepted /\ accepted'[k] = accepted[k]
      BY <1>3, <1>9, <2>2, <3>1 DEF IsInput
    <3> QED
      BY <2>2, <3>2 DEF DataInv, MarkInv
  <2> QED
    BY <1>4, <1>6, <2>1, <2>2 DEF MarkInv, Marked
<1>19. FenceOrder'
  <2>1. ASSUME NEW j \in DOMAIN log, log[j].kind = "frame", NEW k \in DOMAIN accepted',
               accepted'[k].kind = "fenced", accepted'[k].id \in log[j].seen
        PROVE  \E i \in 1 .. j - 1 : log[i].kind = "marker" /\ log[i].id = accepted'[k].id
    <3>1. accepted'[k].id \in 1 .. Last
      BY <1>5, <2>1 DEF DataInv, IdsInv
    <3>2. k \in DOMAIN accepted /\ accepted'[k] = accepted[k]
      BY <1>3, <1>9, <2>1, <3>1 DEF IsInput
    <3> QED
      BY <2>1, <3>2 DEF DataInv, FenceOrder
  <2> QED
    BY <2>1 DEF DataInv, FenceOrder
<1>20. CloseSendsTheQueue'
  <2> SUFFICES ASSUME NEW k \in DOMAIN accepted', accepted'[k].kind = "close",
                      call'[accepted'[k].by] = "ok", NEW i \in Inputs(accepted'), i < k
               PROVE  Cardinality({w \in DOMAIN wire' : wire'[w] = accepted'[i].id}) = FrameCount
    BY DEF CloseSendsTheQueue
  <2>1. k \in DOMAIN accepted /\ accepted'[k] = accepted[k]
    BY <1>9
  <2>2. i \in Inputs(accepted) /\ accepted'[i] = accepted[i]
    BY <1>1, <2>1 DEF Inputs
  <2> QED
    BY <1>10, <2>1, <2>2 DEF DataInv, CloseSendsTheQueue
<1> QED
  BY <1>11, <1>12, <1>13, <1>14, <1>15, <1>16, <1>17, <1>18, <1>19, <1>20 DEF DataInv

\* What the driver still does once it has failed or closed.
LEMMA LastScripts ==
  ASSUME TypeOK, script' \in {Fatal, Stop, Emit(Closed) \o Stop, <<>>}, (script' = <<>>) <=> ~running'
  PROVE  /\ Lasting' = FALSE
         /\ running' => Has("stop")'
         /\ \A j \in DOMAIN script' :
               /\ script'[j].do \in {"emit", "stop"}
               /\ script'[j].do = "stop" => \A h \in DOMAIN script' : h < j => script'[h].do = "emit"
               /\ ~IsFrame(script'[j]) /\ ~IsMarker(script'[j])
<1>1. CASE script' = Stop
  <2>1. Len(script') = 1 /\ DOMAIN script' = {1} /\ script'[1] = [do |-> "stop"]
    BY <1>1 DEF Stop
  <2> QED
    BY <2>1 DEF Lasting, Has, IsFrame, IsMarker
<1>2. ASSUME NEW event \in {Closed, Interrupted}, script' = Emit(event) \o Stop
      PROVE  /\ DOMAIN script' = {1, 2}
             /\ script'[1] = [do |-> "emit", event |-> event] /\ script'[2] = [do |-> "stop"]
             /\ event.kind \in {"closed", "error"}
  BY <1>2 DEF Emit, Stop, Closed, Interrupted
<1>3. CASE script' \in {Fatal, Emit(Closed) \o Stop}
  <2>1. PICK event \in {Closed, Interrupted} : script' = Emit(event) \o Stop
    BY <1>3 DEF Fatal
  <2> QED
    <3>1. /\ DOMAIN script' = {1, 2}
          /\ script'[1].do = "emit" /\ script'[1].event.kind \in {"closed", "error"}
          /\ script'[2].do = "stop"
      <4>1. /\ DOMAIN script' = {1, 2}
            /\ script'[1] = [do |-> "emit", event |-> event] /\ script'[2] = [do |-> "stop"]
            /\ event.kind \in {"closed", "error"}
        BY <2>1, <1>2
      <4> QED
        BY <4>1
    <3>2. Lasting' = FALSE /\ (running' => Has("stop")')
      BY <3>1 DEF Lasting, Has
    <3>3. \A j \in DOMAIN script' :
            /\ script'[j].do \in {"emit", "stop"}
            /\ script'[j].do = "stop" => \A h \in DOMAIN script' : h < j => script'[h].do = "emit"
      BY <3>1
    <3>4. \A j \in DOMAIN script' : ~IsFrame(script'[j]) /\ ~IsMarker(script'[j])
      BY <3>1 DEF IsFrame, IsMarker
    <3> QED
      BY <3>2, <3>3, <3>4
<1>4. CASE script' = <<>>
  BY <1>4 DEF Lasting
<1> QED
  BY <1>1, <1>3, <1>4

\* The driver fails, closes or ends: it sends nothing any more.
LEMMA StopStep ==
  ASSUME TypeOK, CallInv, DataInv,
         script' \in {Fatal, Stop, Emit(Closed) \o Stop, <<>>}, (script' = <<>>) <=> ~running',
         UNCHANGED <<wire, accepted, arrived>>,
         running' => running /\ UNCHANGED outbound,
         log' \in {log, Append(log, Closed)},
         inbound' = inbound \/ (inbound # <<>> /\ inbound' = Tail(inbound)),
         \A k \in DOMAIN accepted : accepted[k].kind = "close" /\ call'[accepted[k].by] = "ok" =>
            \/ call[accepted[k].by] = "ok"
            \/ \A i \in Inputs(accepted) : i < k => Count(wire, accepted[i].id) = FrameCount
  PROVE  DataInv'
<1>1. /\ Lasting' = FALSE
      /\ running' => Has("stop")'
      /\ \A j \in DOMAIN script' :
            /\ script'[j].do \in {"emit", "stop"}
            /\ script'[j].do = "stop" => \A h \in DOMAIN script' : h < j => script'[h].do = "emit"
            /\ ~IsFrame(script'[j]) /\ ~IsMarker(script'[j])
  BY LastScripts
<1>2. Closed \in Event /\ Closed.kind = "closed"
  BY PieceType DEF Closed
<1>3. /\ Len(inbound) <= arrived
      /\ \A i \in DOMAIN inbound : inbound[i].n = arrived - Len(inbound) + i
  BY DEF DataInv, ArrivalInv
<1>4. \A i \in DOMAIN inbound' : \E h \in DOMAIN inbound : inbound'[i] = inbound[h]
  <2>1. CASE inbound' = inbound
    BY <2>1
  <2>2. CASE inbound # <<>> /\ inbound' = Tail(inbound)
    <3>1. /\ Len(inbound) \in Nat /\ DOMAIN inbound = 1 .. Len(inbound)
          /\ DOMAIN inbound' = 1 .. Len(inbound) - 1
          /\ \A i \in 1 .. Len(inbound) - 1 : inbound'[i] = inbound[i + 1]
      BY <2>2 DEF TypeOK
    <3> QED
      BY <3>1
  <2> QED
    BY <2>1, <2>2
<1>5. IdsInv'
  <2>1. \A j \in DOMAIN log' : log'[j].kind = "frame" => \A id \in log'[j].seen : OnWire(id)
    <3>1. CASE log' = log
      BY <3>1 DEF DataInv, IdsInv
    <3>2. CASE log' = Append(log, Closed)
      <4>1. \A j \in DOMAIN log' : (j \in DOMAIN log /\ log'[j] = log[j]) \/ log'[j] = Closed
        BY <1>2, <3>2, AppendFacts DEF TypeOK
      <4> QED
        BY <1>2, <4>1 DEF DataInv, IdsInv
    <3> QED
      BY <3>1, <3>2
  <2>2. \A i \in DOMAIN inbound' : \A id \in inbound'[i].seen : OnWire(id)
    BY <1>4 DEF DataInv, IdsInv
  <2> QED
    <3>1. \A id : OnWire(id)' = OnWire(id)
      BY DEF OnWire
    <3>2. \A j \in DOMAIN script' : ~IsFrame(script'[j])
      BY <1>1
    <3>3. Last' = Last
      BY DEF Last
    <3> QED
      BY <2>1, <2>2, <3>1, <3>2, <3>3 DEF DataInv, IdsInv
<1>6. QueueInv'
  <2>1. running' => Done' = Done
    BY DEF Done
  <2>2. \A id : OnWire(id)' = OnWire(id)
    BY DEF OnWire
  <2> QED
    BY <2>1, <2>2 DEF DataInv, QueueInv
<1>7. ScriptInv'
  <2>1. (~running => script = <<>>)'
    OBVIOUS
  <2>2. \A j \in DOMAIN script' : script'[j].do \notin {"close", "send", "drain"} /\ ~IsMarker(script'[j])
    BY <1>1
  <2> QED
    BY <1>1, <2>1, <2>2 DEF ScriptInv
<1>8. SentInv' /\ MarkInv'
  BY <1>1 DEF SentInv, MarkInv
<1>9. CloseInv'
  BY <1>1 DEF CloseInv
<1>10. ArrivalInv'
  <2>1. CASE inbound' = inbound
    BY <1>1, <1>3, <2>1 DEF ArrivalInv
  <2>2. CASE inbound # <<>> /\ inbound' = Tail(inbound)
    <3>1. /\ Len(inbound) \in Nat /\ DOMAIN inbound = 1 .. Len(inbound)
          /\ DOMAIN inbound' = 1 .. Len(inbound) - 1 /\ Len(inbound') = Len(inbound) - 1
          /\ \A i \in 1 .. Len(inbound) - 1 : inbound'[i] = inbound[i + 1]
      BY <2>2 DEF TypeOK
    <3>2. arrived \in Nat
      BY DEF TypeOK
    <3>3. \A i \in DOMAIN inbound' : inbound'[i].n = arrived - Len(inbound') + i
      <4> TAKE i \in DOMAIN inbound'
      <4>1. i + 1 \in DOMAIN inbound /\ inbound'[i] = inbound[i + 1]
        BY <3>1
      <4>2. inbound[i + 1].n = arrived - Len(inbound) + (i + 1)
        BY <1>3, <4>1
      <4> QED
        BY <3>1, <3>2, <4>1, <4>2
    <3>4. Len(inbound') <= arrived'
      BY <1>3, <3>1, <3>2
    <3> QED
      BY <1>1, <3>3, <3>4 DEF ArrivalInv
  <2> QED
    BY <2>1, <2>2
<1>11. ReadyInv'
  BY <1>1 DEF ReadyInv
<1>12. FenceOrder'
  <2>1. CASE log' = log
    BY <2>1 DEF DataInv, FenceOrder
  <2>2. CASE log' = Append(log, Closed)
    BY <1>2, <2>2, FenceAppend DEF DataInv
  <2> QED
    BY <2>1, <2>2
<1>13. CloseSendsTheQueue'
  BY DEF DataInv, CloseSendsTheQueue, Count
<1> QED
  BY <1>5, <1>6, <1>7, <1>8, <1>9, <1>10, <1>11, <1>12, <1>13 DEF DataInv

\* One sequence after another.
LEMMA ConcatFacts ==
  ASSUME NEW S, NEW s \in Seq(S), NEW t \in Seq(S)
  PROVE  /\ s \o t \in Seq(S) /\ Len(s \o t) = Len(s) + Len(t)
         /\ DOMAIN (s \o t) = 1 .. Len(s) + Len(t)
         /\ \A j \in 1 .. Len(s) : (s \o t)[j] = s[j]
         /\ \A j \in Len(s) + 1 .. Len(s) + Len(t) : (s \o t)[j] = t[j - Len(s)]
OBVIOUS

\* The script of an input without a fence.
LEMMA FramesShape ==
  ASSUME NEW cmd \in Command, cmd.kind = "frames"
  PROVE  /\ Script(cmd) \in Seq(Step) /\ Len(Script(cmd)) = FrameCount
         /\ DOMAIN Script(cmd) = 1 .. FrameCount
         /\ \A j \in 1 .. FrameCount : Script(cmd)[j] = [do |-> "send", id |-> cmd.id]
<1>1. cmd.id \in Nat
  BY CommandType DEF IsInput
<1>2. Script(cmd) = SendFrames(cmd.id)
  BY DEF Script
<1>3. SendFrames(cmd.id) \in Seq(Step)
  BY <1>1, PieceType
<1> QED
  BY <1>2, <1>3, RealtimeAssumption DEF SendFrames

\* The script of a fenced input: drain, send, mark.
LEMMA FencedShape ==
  ASSUME NEW cmd \in Command, cmd.kind = "fenced", arrived \in Nat
  PROVE  /\ DOMAIN Script(cmd) = 1 .. FrameCount + 2 /\ Len(Script(cmd)) = FrameCount + 2
         /\ Script(cmd)[1] = [do |-> "drain"]
         /\ \A j \in 2 .. FrameCount + 1 : Script(cmd)[j] = [do |-> "send", id |-> cmd.id]
         /\ Script(cmd)[FrameCount + 2] = [do |-> "emit", event |-> InputSent(cmd.id)]
<1> DEFINE a == DrainReady
           b == SendFrames(cmd.id)
           c == Emit(InputSent(cmd.id))
<1>1. cmd.id \in Nat
  BY CommandType DEF IsInput
<1>2. InputSent(cmd.id) \in Event
  BY <1>1 DEF InputSent, Event
<1>3. Script(cmd) = a \o b \o c
  BY DEF Script, FencedScript
<1>4. a \in Seq(Step) /\ b \in Seq(Step) /\ c \in Seq(Step)
  BY <1>1, <1>2, PieceType
<1>5. Len(a) = 1 /\ a[1] = [do |-> "drain"] /\ Len(c) = 1 /\ c[1] = [do |-> "emit", event |-> InputSent(cmd.id)]
  BY DEF DrainReady, Emit
<1>6. Len(b) = FrameCount /\ \A j \in 1 .. FrameCount : b[j] = [do |-> "send", id |-> cmd.id]
  BY <1>4, RealtimeAssumption DEF SendFrames
<1> HIDE DEF a, b, c
<1>7. /\ a \o b \in Seq(Step) /\ Len(a \o b) = FrameCount + 1 /\ (a \o b)[1] = [do |-> "drain"]
      /\ \A j \in 2 .. FrameCount + 1 : (a \o b)[j] = b[j - 1]
  <2>1. /\ a \o b \in Seq(Step) /\ Len(a \o b) = Len(a) + Len(b)
        /\ \A j \in 1 .. Len(a) : (a \o b)[j] = a[j]
        /\ \A j \in Len(a) + 1 .. Len(a) + Len(b) : (a \o b)[j] = b[j - Len(a)]
    BY <1>4, ConcatFacts
  <2>2. (a \o b)[1] = a[1] /\ \A j \in 2 .. FrameCount + 1 : j \in Len(a) + 1 .. Len(a) + Len(b) /\ j - Len(a) = j - 1
    BY <1>5, <1>6, <2>1, RealtimeAssumption
  <2>3. Len(a) + Len(b) = FrameCount + 1
    BY <1>5, <1>6, RealtimeAssumption
  <2>4. \A j \in 2 .. FrameCount + 1 : (a \o b)[j] = b[j - 1]
    BY <2>1, <2>2
  <2> QED
    BY <1>5, <2>1, <2>2, <2>3, <2>4
<1>8. /\ (a \o b) \o c \in Seq(Step) /\ Len((a \o b) \o c) = FrameCount + 2
      /\ \A j \in 1 .. FrameCount + 1 : ((a \o b) \o c)[j] = (a \o b)[j]
      /\ ((a \o b) \o c)[FrameCount + 2] = c[1]
  <2> DEFINE d == a \o b
  <2> HIDE DEF d
  <2>1. d \in Seq(Step) /\ Len(d) = FrameCount + 1
    BY <1>7 DEF d
  <2>2. /\ d \o c \in Seq(Step) /\ Len(d \o c) = Len(d) + Len(c)
        /\ \A j \in 1 .. Len(d) : (d \o c)[j] = d[j]
        /\ \A j \in Len(d) + 1 .. Len(d) + Len(c) : (d \o c)[j] = c[j - Len(d)]
    <3>1. c \in Seq(Step)
      BY <1>4
    <3> QED
      BY ONLY <2>1, <3>1, ConcatFacts
  <2>3. FrameCount + 2 \in Len(d) + 1 .. Len(d) + Len(c) /\ FrameCount + 2 - Len(d) = 1
    BY <1>5, <2>1, RealtimeAssumption
  <2>4. /\ d \o c \in Seq(Step) /\ Len(d \o c) = FrameCount + 2
        /\ \A j \in 1 .. FrameCount + 1 : (d \o c)[j] = d[j]
        /\ (d \o c)[FrameCount + 2] = c[1]
    BY <1>5, <2>1, <2>2, <2>3
  <2> QED
    BY <2>4 DEF d
<1>9. DOMAIN Script(cmd) = 1 .. FrameCount + 2 /\ Len(Script(cmd)) = FrameCount + 2
  BY <1>3, <1>8
<1>10. Script(cmd)[1] = [do |-> "drain"] /\ Script(cmd)[FrameCount + 2] = c[1]
  <2>1. 1 \in 1 .. FrameCount + 1
    BY ONLY RealtimeAssumption
  <2>2. ((a \o b) \o c)[1] = (a \o b)[1]
    BY ONLY <2>1, <1>8
  <2> QED
    BY ONLY <2>2, <1>3, <1>7, <1>8
<1>11. ASSUME NEW j \in 2 .. FrameCount + 1
       PROVE  Script(cmd)[j] = [do |-> "send", id |-> cmd.id]
  <2>1. Script(cmd)[j] = b[j - 1] /\ j - 1 \in 1 .. FrameCount
    BY <1>3, <1>7, <1>8, RealtimeAssumption
  <2> QED
    BY <1>6, <2>1
<1> QED
  BY <1>5, <1>9, <1>10, <1>11

\* Between two commands everything taken is sent, marked and reported.
LEMMA BetweenTwo ==
  ASSUME TypeOK, DataInv, running, script = <<>>
  PROVE  /\ \A k \in DOMAIN accepted : IsInput(accepted[k]) /\ k <= Done =>
               Count(wire, accepted[k].id) = FrameCount
         /\ \A n \in 1 .. arrived - Len(inbound) : Logged(n)
         /\ \A k \in DOMAIN accepted : accepted[k].kind = "fenced" /\ k <= Done => Marked(accepted[k].id)
         /\ \A k \in DOMAIN accepted : accepted[k].kind = "close" => call[accepted[k].by] # "ok"
<1>1. Lasting /\ ~Has("stop")
  BY DEF Lasting, Has
<1>2. PICK a \in 0 .. Len(script), m \in 0 .. FrameCount : SentBut(a, m)
  BY <1>1 DEF DataInv, SentInv
<1>3. m = 0
  BY <1>2, RealtimeAssumption DEF SentBut
<1>4. \A k \in DOMAIN accepted : IsInput(accepted[k]) /\ k <= Done =>
               Count(wire, accepted[k].id) = FrameCount
  <2> TAKE k \in DOMAIN accepted
  <2>1. k \in Nat \ {0} /\ Done \in Nat
    BY DoneBound DEF TypeOK, DataInv
  <2>2. CASE k < Done
    BY <1>2, <2>2 DEF SentBut
  <2>3. CASE k = Done
    BY <1>2, <1>3, <2>1, <2>3, RealtimeAssumption DEF SentBut
  <2> QED
    BY <2>1, <2>2, <2>3
<1>5. \A n \in 1 .. arrived - Len(inbound) : Logged(n)
  BY <1>1 DEF DataInv, ArrivalInv
<1>6. \A k \in DOMAIN accepted : accepted[k].kind = "fenced" /\ k <= Done => Marked(accepted[k].id)
  BY <1>1 DEF DataInv, MarkInv
<1>7. \A k \in DOMAIN accepted : accepted[k].kind = "close" => call[accepted[k].by] # "ok"
  BY <1>1 DEF DataInv, CloseInv
<1> QED
  BY <1>4, <1>5, <1>6, <1>7

\* The driver takes a command: between two commands all it took is dealt with,
\* and the script is all there is to the new one.
LEMMA TakeCommandStep ==
  ASSUME TypeOK, CallInv, DataInv, TakeCommand
  PROVE  DataInv'
<1>1. /\ running /\ running' = running /\ script = <<>>
      /\ UNCHANGED <<inbound, arrived, log, wire, accepted>>
  BY DEF TakeCommand, Unparked
<1>2. /\ \A k \in DOMAIN accepted : IsInput(accepted[k]) /\ k <= Done =>
            Count(wire, accepted[k].id) = FrameCount
      /\ \A n \in 1 .. arrived - Len(inbound) : Logged(n)
      /\ \A k \in DOMAIN accepted : accepted[k].kind = "fenced" /\ k <= Done => Marked(accepted[k].id)
      /\ \A k \in DOMAIN accepted : accepted[k].kind = "close" => call[accepted[k].by] # "ok"
  BY <1>1, BetweenTwo
<1>3. /\ \A id : OnWire(id)' = OnWire(id)
      /\ \A n : Logged(n)' = Logged(n)
      /\ \A id : Marked(id)' = Marked(id)
      /\ Last' = Last
  BY <1>1 DEF OnWire, Logged, Marked, Last
<1>4. Done \in Nat /\ Done <= Len(accepted) /\ Len(accepted) \in Nat /\ DOMAIN accepted = 1 .. Len(accepted)
  BY <1>1, DoneBound DEF DataInv, TypeOK
<1>5. \A k \in DOMAIN accepted : accepted[k].kind = "close" => call'[accepted[k].by] # "ok"
  <2>1. \A c \in Callers : call'[c] = call[c] \/ call'[c] = "polling"
    BY DEF TakeCommand, Woken, TypeOK
  <2>2. \A k \in DOMAIN accepted : accepted[k].kind = "close" => accepted[k].by \in Callers
    BY CloseCallers
  <2> QED
    BY <1>2, <2>1, <2>2
<1>6. CloseInv' /\ CloseSendsTheQueue'
  BY <1>1, <1>5 DEF CloseInv, CloseSendsTheQueue
<1>7. FenceOrder'
  BY <1>1 DEF DataInv, FenceOrder
<1>8. ArrivalInv'
  BY <1>1, <1>2, <1>3 DEF DataInv, ArrivalInv
<1>9. ASSUME \A j \in DOMAIN script' : ~IsFrame(script'[j])
      PROVE  IdsInv'
  BY <1>1, <1>3, <1>9 DEF DataInv, IdsInv
<1>10. ASSUME NEW cmd \in Command, outbound # <<>>, cmd = Head(outbound), outbound' = Tail(outbound)
       PROVE  /\ Done' = Done + 1 /\ Done' \in DOMAIN accepted /\ accepted[Done'] = cmd
              /\ QueueInv'
              /\ IsInput(cmd) => ~OnWire(cmd.id)
  <2>1. /\ Len(outbound) \in Nat \ {0} /\ DOMAIN outbound = 1 .. Len(outbound)
        /\ Len(outbound') = Len(outbound) - 1 /\ DOMAIN outbound' = 1 .. Len(outbound) - 1
        /\ \A i \in 1 .. Len(outbound) - 1 : outbound'[i] = outbound[i + 1]
        /\ cmd = outbound[1]
    BY <1>10 DEF TypeOK
  <2>2. Done' = Done + 1 /\ Done + 1 <= Len(accepted) /\ Done = Len(accepted) - Len(outbound)
    BY <1>1, <1>4, <2>1 DEF Done, DataInv, QueueInv
  <2>3. Done + 1 \in DOMAIN accepted /\ accepted[Done + 1] = cmd
    BY <1>1, <1>4, <2>1, <2>2, SMTT(20) DEF DataInv, QueueInv
  <2>4. IsInput(cmd) => ~OnWire(cmd.id)
    BY <1>1, <1>4, <2>3 DEF DataInv, QueueInv
  <2>5. \A i \in DOMAIN outbound' : outbound'[i] = accepted[(Done + 1) + i]
    <3> TAKE i \in DOMAIN outbound'
    <3>1. i + 1 \in DOMAIN outbound /\ outbound'[i] = outbound[i + 1]
      BY <2>1
    <3>2. outbound[i + 1] = accepted[Done + (i + 1)]
      BY <1>1, <3>1 DEF DataInv, QueueInv
    <3>3. Done + (i + 1) = (Done + 1) + i
      BY <1>4, <2>1
    <3> QED
      BY <3>1, <3>2, <3>3
  <2>6. \A k \in DOMAIN accepted : IsInput(accepted[k]) /\ OnWire(accepted[k].id) => k <= Done + 1
    BY <1>1, <1>4 DEF DataInv, QueueInv
  <2>7. Len(outbound') <= Len(accepted)
    BY <1>4, <2>1, <2>2
  <2>8. QueueInv'
    BY <1>1, <1>3, <2>2, <2>5, <2>6, <2>7 DEF QueueInv
  <2> QED
    BY <2>2, <2>3, <2>4, <2>8
<1>11. \A k \in DOMAIN accepted : IsInput(accepted[k]) /\ k < Done + 1 =>
          Count(wire, accepted[k].id) = FrameCount
  BY <1>2, <1>4
<1>12. ASSUME NEW cmd \in Command, outbound # <<>>, cmd = Head(outbound), outbound' = Tail(outbound),
              cmd.kind = "frames", script' = Script(cmd)
       PROVE  DataInv'
  <2>1. /\ Done' = Done + 1 /\ Done' \in DOMAIN accepted /\ accepted[Done'] = cmd
        /\ QueueInv'
        /\ ~OnWire(cmd.id) /\ IsInput(cmd)
    BY <1>10, <1>12 DEF IsInput
  <2>2. /\ Len(script') = FrameCount /\ DOMAIN script' = 1 .. FrameCount
        /\ \A j \in DOMAIN script' : script'[j] = [do |-> "send", id |-> cmd.id]
    BY <1>12, FramesShape
  <2>3. \A j \in DOMAIN script' : ~IsFrame(script'[j]) /\ ~IsMarker(script'[j]) /\ script'[j].do = "send"
    BY <2>2 DEF IsFrame, IsMarker
  <2>4. ScriptInv'
    BY <1>1, <1>4, <2>1, <2>2, <2>3 DEF ScriptInv
  <2>5. SentInv'
    <3>1. Sends(0, FrameCount)'
      BY <2>2, RealtimeAssumption DEF Sends
    <3>2. Count(wire, cmd.id) = 0
      BY <2>1, CountNone
    <3>3. SentBut(0, FrameCount)'
      BY <1>1, <1>11, <2>1, <2>2, <3>1, <3>2, RealtimeAssumption DEF SentBut
    <3> QED
      BY <2>2, <3>3, RealtimeAssumption DEF SentInv
  <2>6. ReadyInv'
    BY <2>3 DEF ReadyInv
  <2>7. MarkInv'
    <3>1. \A k \in DOMAIN accepted : accepted[k].kind = "fenced" /\ k <= Done' => k <= Done
      BY <1>4, <1>12, <2>1
    <3> QED
      BY <1>1, <1>2, <1>3, <2>3, <3>1 DEF MarkInv
  <2> QED
    BY <1>6, <1>7, <1>8, <1>9, <2>1, <2>3, <2>4, <2>5, <2>6, <2>7 DEF DataInv
<1>13. ASSUME NEW cmd \in Command, outbound # <<>>, cmd = Head(outbound), outbound' = Tail(outbound),
              cmd.kind = "fenced", script' = Script(cmd)
       PROVE  DataInv'
  <2>1. /\ Done' = Done + 1 /\ Done' \in DOMAIN accepted /\ accepted[Done'] = cmd
        /\ QueueInv'
        /\ ~OnWire(cmd.id) /\ IsInput(cmd)
    BY <1>10, <1>13 DEF IsInput
  <2>2. /\ Len(script') = FrameCount + 2 /\ DOMAIN script' = 1 .. FrameCount + 2
        /\ script'[1] = [do |-> "drain"]
        /\ \A j \in 2 .. FrameCount + 1 : script'[j] = [do |-> "send", id |-> cmd.id]
        /\ script'[FrameCount + 2] = [do |-> "emit", event |-> InputSent(cmd.id)]
    BY <1>13, FencedShape DEF TypeOK
  <2>3. \A j \in DOMAIN script' : j = 1 \/ j \in 2 .. FrameCount + 1 \/ j = FrameCount + 2
    BY <2>2, RealtimeAssumption
  <2>4. \A j \in DOMAIN script' :
          /\ script'[j].do = "drain" => j = 1
          /\ script'[j].do = "send" => j \in 2 .. FrameCount + 1 /\ script'[j].id = cmd.id
          /\ script'[j].do \in {"drain", "send", "emit"}
    BY <2>2, <2>3
  <2>5. \A j \in DOMAIN script' : ~IsFrame(script'[j])
    BY <2>2, <2>3 DEF IsFrame, InputSent
  <2>6. \A j \in DOMAIN script' : IsMarker(script'[j]) =>
           j = FrameCount + 2 /\ script'[j].event.id = cmd.id /\ script'[j].event.ready = arrived
    BY <2>2, <2>3 DEF IsMarker, InputSent
  <2>7. IsMarker(script'[FrameCount + 2]) /\ script'[FrameCount + 2].event.id = cmd.id
        /\ FrameCount + 2 \in DOMAIN script'
    BY <2>2, RealtimeAssumption DEF IsMarker, InputSent
  <2>8. cmd = Fenced(cmd.id)
    BY <1>13, CommandType
  <2>9. ScriptInv'
    <3>1. \A j \in DOMAIN script' : script'[j].do = "drain" =>
            /\ Done' > 0 /\ IsInput(accepted'[Done'])
            /\ Lasting' => ~OnWire(accepted[Done'].id)
            /\ \A h \in DOMAIN script' : script'[h].do = "send" => j < h
      BY <1>1, <1>4, <2>1, <2>4
    <3>2. \A j \in DOMAIN script' : IsMarker(script'[j]) =>
            Done' > 0 /\ accepted'[Done'] = Fenced(script'[j].event.id)
      BY <1>1, <1>4, <2>1, <2>6, <2>8
    <3> QED
      BY <1>1, <1>3, <1>4, <2>1, <2>4, <3>1, <3>2 DEF ScriptInv
  <2>10. SentInv'
    <3>1. Sends(1, FrameCount)'
      BY <2>2, <2>4, RealtimeAssumption DEF Sends
    <3>2. Count(wire, cmd.id) = 0
      BY <2>1, CountNone
    <3>3. SentBut(1, FrameCount)'
      BY <1>1, <1>11, <2>1, <2>2, <3>1, <3>2, RealtimeAssumption DEF SentBut
    <3> QED
      BY <2>2, <3>3, RealtimeAssumption DEF SentInv
  <2>11. ReadyInv'
    <3>1. arrived \in Nat /\ 1 \in DOMAIN script' /\ script'[1].do = "drain"
      BY <2>2, RealtimeAssumption DEF TypeOK
    <3> QED
      BY <1>1, <2>6, <3>1, RealtimeAssumption DEF ReadyInv
  <2>12. MarkInv'
    <3>1. \A k \in DOMAIN accepted : k <= Done + 1 => k <= Done \/ k = Done'
      BY <1>4, <2>1
    <3>2. \A k \in DOMAIN accepted : accepted[k].kind = "fenced" /\ k <= Done' =>
            \/ Marked(accepted[k].id)
            \/ /\ k = Done'
               /\ \E j \in DOMAIN script' : IsMarker(script'[j]) /\ script'[j].event.id = accepted[k].id
      BY <1>2, <2>1, <2>7, <3>1
    <3> QED
      BY <1>1, <1>3, <2>5, <3>2 DEF MarkInv
  <2> QED
    BY <1>6, <1>7, <1>8, <1>9, <2>1, <2>5, <2>9, <2>10, <2>11, <2>12 DEF DataInv
<1>14. ASSUME NEW c \in Callers \cup {None}, script' = CloseFor(c), QueueInv',
              Done' \in {Done, Done + 1}, c = None => Done' = Done,
              c # None => Done' = Done + 1 /\ Done' \in DOMAIN accepted /\ accepted[Done'] = Close(c)
       PROVE  DataInv'
  <2>1. Len(script') = 1 /\ DOMAIN script' = {1} /\ script'[1] = [do |-> "close", by |-> c]
    BY <1>14 DEF CloseFor
  <2>2. \A j \in DOMAIN script' : ~IsFrame(script'[j]) /\ ~IsMarker(script'[j])
                                   /\ script'[j].do = "close" /\ script'[j].by = c
    BY <2>1 DEF IsFrame, IsMarker
  <2>3. Done' > Done => accepted[Done'] = Close(c) /\ ~IsInput(accepted[Done'])
                          /\ accepted[Done'].kind # "fenced"
    BY <1>4, <1>14 DEF IsInput, Close
  <2>4. ScriptInv'
    BY <1>1, <1>4, <1>14, <2>1, <2>2 DEF ScriptInv
  <2>5. SentInv'
    <3>1. Sends(0, 0)'
      BY <2>1 DEF Sends
    <3>2. \A k \in DOMAIN accepted : IsInput(accepted[k]) /\ k < Done' =>
            Count(wire, accepted[k].id) = FrameCount
      BY <1>4, <1>11, <1>14
    <3>3. Done' > 0 /\ IsInput(accepted[Done']) => Count(wire, accepted[Done'].id) = FrameCount - 0
      <4>1. Done' > 0 /\ IsInput(accepted[Done']) => Done' = Done /\ Done \in DOMAIN accepted
        BY <1>4, <1>14, <2>3
      <4> QED
        BY <1>2, <1>4, <4>1, RealtimeAssumption
    <3>4. SentBut(0, 0)'
      BY <1>1, <2>1, <3>1, <3>2, <3>3 DEF SentBut
    <3> QED
      BY <2>1, <3>4, RealtimeAssumption DEF SentInv
  <2>6. ReadyInv'
    BY <2>2 DEF ReadyInv
  <2>7. MarkInv'
    <3>1. \A k \in DOMAIN accepted : accepted[k].kind = "fenced" /\ k <= Done' => k <= Done
      BY <1>4, <1>14, <2>3
    <3> QED
      BY <1>1, <1>2, <1>3, <2>2, <3>1 DEF MarkInv
  <2> QED
    BY <1>6, <1>7, <1>8, <1>9, <1>14, <2>2, <2>4, <2>5, <2>6, <2>7 DEF DataInv
<1>15. CASE outbound # <<>> /\ outbound' = Tail(outbound) /\ script' = Script(Head(outbound))
  <2> DEFINE cmd == Head(outbound)
  <2>1. cmd \in Command
    BY <1>15 DEF TypeOK
  <2>2. CASE cmd.kind = "close"
    <3>1. cmd.by \in Callers /\ cmd = Close(cmd.by) /\ script' = CloseFor(cmd.by) /\ ~IsInput(cmd)
      BY <1>15, <2>1, <2>2, CommandType DEF Script, IsInput
    <3>2. Done' = Done + 1 /\ Done' \in DOMAIN accepted /\ accepted[Done'] = cmd /\ QueueInv'
      BY <1>10, <1>15, <2>1
    <3> HIDE DEF cmd
    <3> QED
      BY <1>14, <3>1, <3>2, RealtimeAssumption
  <2> QED
    BY <1>12, <1>13, <1>15, <2>1, <2>2, CommandType
<1>16. CASE outbound = <<>> /\ outbound' = outbound /\ script' = CloseFor(None)
  <2>1. Done' = Done
    BY <1>1, <1>16 DEF Done
  <2>2. QueueInv'
    BY <1>1, <1>3, <1>16, <2>1 DEF DataInv, QueueInv
  <2> QED
    BY <1>14, <1>16, <2>1, <2>2
<1> QED
  BY <1>15, <1>16 DEF TakeCommand

\* What remains of a script after its first step.
LEMMA TailFacts ==
  ASSUME NEW S, NEW s \in Seq(S), s # <<>>
  PROVE  /\ Len(s) \in Nat \ {0} /\ DOMAIN s = 1 .. Len(s)
         /\ Head(s) = s[1] /\ Head(s) \in S
         /\ Tail(s) \in Seq(S) /\ Len(Tail(s)) = Len(s) - 1 /\ DOMAIN Tail(s) = 1 .. Len(s) - 1
         /\ \A j \in 1 .. Len(s) - 1 : Tail(s)[j] = s[j + 1]
OBVIOUS

\* The step that is done leaves the rest of the script in its order.
LEMMA ScriptTail ==
  ASSUME TypeOK, DataInv, script # <<>>, Head(script).do \in {"drain", "send", "emit"},
         script' = Tail(script), UNCHANGED <<running, accepted, outbound, call>>,
         wire' = wire \/ (Head(script).do = "send" /\ wire' = Append(wire, Head(script).id))
  PROVE  /\ Lasting' = Lasting /\ running /\ Done' = Done
         /\ Head(script).do # "emit" => Lasting
         /\ ScriptInv' /\ CloseInv'
         /\ \A j \in DOMAIN script' : j + 1 \in DOMAIN script /\ script'[j] = script[j + 1]
         /\ \A j \in DOMAIN script : j = 1 \/ (j - 1 \in DOMAIN script' /\ script[j] = script'[j - 1])
<1>1. /\ Len(script) \in Nat \ {0} /\ DOMAIN script = 1 .. Len(script) /\ Head(script) = script[1]
      /\ Len(script') = Len(script) - 1 /\ DOMAIN script' = 1 .. Len(script) - 1
      /\ \A j \in 1 .. Len(script) - 1 : script'[j] = script[j + 1]
  BY TailFacts DEF TypeOK
<1>2. /\ \A j \in DOMAIN script' : j + 1 \in DOMAIN script /\ script'[j] = script[j + 1]
      /\ \A j \in DOMAIN script : j = 1 \/ (j - 1 \in DOMAIN script' /\ script[j] = script'[j - 1])
  BY <1>1
<1>3. running /\ Done' = Done
  BY DEF DataInv, ScriptInv, Done
<1>4. Has("stop")' <=> Has("stop")
  BY <1>1, <1>2 DEF Has
<1>5. Lasting' = Lasting
  BY <1>4 DEF Lasting
<1>6. Head(script).do # "emit" => Lasting
  <2>1. ASSUME Head(script).do # "emit", NEW j \in DOMAIN script, script[j].do = "stop"
        PROVE  FALSE
    <3>1. 1 \in DOMAIN script /\ 1 < j
      BY <1>1, <2>1
    <3> QED
      BY <1>1, <2>1, <3>1 DEF DataInv, ScriptInv
  <2> QED
    BY <1>3, <2>1 DEF Lasting, Has
<1>7. ScriptInv'
  <2>1. \A j \in DOMAIN script' : script'[j].do = "stop" =>
          \A h \in DOMAIN script' : h < j => script'[h].do = "emit"
    <3> SUFFICES ASSUME NEW j \in DOMAIN script', script'[j].do = "stop",
                        NEW h \in DOMAIN script', h < j
                 PROVE  script'[h].do = "emit"
      OBVIOUS
    <3>1. j + 1 \in DOMAIN script /\ h + 1 \in DOMAIN script /\ h + 1 < j + 1
          /\ script'[j] = script[j + 1] /\ script'[h] = script[h + 1]
      BY <1>1, <1>2
    <3> QED
      BY <3>1 DEF DataInv, ScriptInv
  <2>2. \A j \in DOMAIN script' : script'[j].do # "close"
    <3> SUFFICES ASSUME NEW j \in DOMAIN script', script'[j].do = "close"
                 PROVE  FALSE
      OBVIOUS
    <3>1. j + 1 \in DOMAIN script /\ script[j + 1].do = "close"
      BY <1>2
    <3>2. Len(script) = 1
      BY <3>1 DEF DataInv, ScriptInv
    <3> QED
      BY <1>1, <3>2
  <2>3. \A j \in DOMAIN script' : script'[j].do = "send" =>
          Done > 0 /\ IsInput(accepted[Done]) /\ script'[j].id = accepted[Done].id
    BY <1>2 DEF DataInv, ScriptInv
  <2>4. \A j \in DOMAIN script' : IsMarker(script'[j]) =>
          Done > 0 /\ accepted[Done] = Fenced(script'[j].event.id)
    BY <1>2 DEF DataInv, ScriptInv
  <2>5. \A h, j \in DOMAIN script' : script'[h].do = "drain" /\ script'[j].do = "drain" => h = j
    <3> SUFFICES ASSUME NEW h \in DOMAIN script', NEW j \in DOMAIN script',
                        script'[h].do = "drain", script'[j].do = "drain"
                 PROVE  h = j
      OBVIOUS
    <3>1. j + 1 \in DOMAIN script /\ h + 1 \in DOMAIN script
          /\ script[j + 1].do = "drain" /\ script[h + 1].do = "drain"
      BY <1>2
    <3>2. h + 1 = j + 1
      BY <3>1 DEF DataInv, ScriptInv
    <3> QED
      BY <1>1, <3>2
  <2>6. ASSUME NEW j \in DOMAIN script', script'[j].do = "drain"
        PROVE  /\ Done > 0 /\ IsInput(accepted[Done])
               /\ Lasting => ~OnWire(accepted[Done].id)'
               /\ \A h \in DOMAIN script' : script'[h].do = "send" => j < h
    <3>1. /\ j + 1 \in DOMAIN script /\ script[j + 1].do = "drain"
          /\ 1 \in DOMAIN script
      BY <1>1, <1>2, <2>6
    <3>2. /\ Done > 0 /\ IsInput(accepted[Done])
          /\ Lasting => ~OnWire(accepted[Done].id)
          /\ \A h \in DOMAIN script : script[h].do = "send" => j + 1 < h
      BY <3>1 DEF DataInv, ScriptInv
    <3>3. script[1].do # "send"
      BY <1>1, <2>6, <3>1, <3>2
    <3>4. wire' = wire
      BY <1>1, <3>3
    <3>5. \A h \in DOMAIN script' : script'[h].do = "send" => j < h
      <4> SUFFICES ASSUME NEW h \in DOMAIN script', script'[h].do = "send"
                   PROVE  j < h
        OBVIOUS
      <4>1. j + 1 < h + 1
        BY <1>2, <3>2
      <4> QED
        BY <1>1, <4>1
    <3>6. Lasting => ~OnWire(accepted[Done].id)'
      BY <1>3, <3>2, <3>4 DEF OnWire
    <3> QED
      BY <3>2, <3>5, <3>6
  <2>7. (~running => script = <<>>)'
    BY <1>3
  <2> QED
    BY <1>3, <1>5, <2>1, <2>2, <2>3, <2>4, <2>5, <2>6, <2>7 DEF ScriptInv, OnWire
<1>8. CloseInv'
  <2> SUFFICES ASSUME NEW k \in DOMAIN accepted, accepted[k].kind = "close", call[accepted[k].by] = "ok"
               PROVE  Has("stop")' /\ \A j \in DOMAIN script' : script'[j].do \in {"emit", "stop"}
    BY DEF CloseInv
  <2>1. Has("stop") /\ \A j \in DOMAIN script : script[j].do \in {"emit", "stop"}
    BY <1>3 DEF DataInv, CloseInv
  <2> QED
    BY <1>2, <1>4, <2>1
<1> QED
  BY <1>2, <1>3, <1>5, <1>6, <1>7, <1>8

\* A step that sends nothing leaves the frames still to be sent as they are.
LEMMA SentTail ==
  ASSUME TypeOK, DataInv, script # <<>>, Head(script).do \in {"drain", "emit"},
         script' = Tail(script), UNCHANGED <<running, accepted, outbound, call, wire>>
  PROVE  SentInv'
<1>1. /\ Len(script) \in Nat \ {0} /\ DOMAIN script = 1 .. Len(script) /\ Head(script) = script[1]
      /\ Len(script') = Len(script) - 1 /\ DOMAIN script' = 1 .. Len(script) - 1
      /\ \A j \in 1 .. Len(script) - 1 : script'[j] = script[j + 1]
  BY TailFacts DEF TypeOK
<1>2. Lasting' = Lasting /\ Done' = Done
  BY ScriptTail
<1> SUFFICES ASSUME Lasting
             PROVE  \E a \in 0 .. Len(script'), m \in 0 .. FrameCount : SentBut(a, m)'
  BY <1>2 DEF SentInv
<1>3. PICK a \in 0 .. Len(script), m \in 0 .. FrameCount : SentBut(a, m)
  BY DEF DataInv, SentInv
<1>4. a = 0 => m = 0
  BY <1>1, <1>3, RealtimeAssumption DEF SentBut, Sends
<1> DEFINE b == IF a = 0 THEN 0 ELSE a - 1
<1>5. b \in 0 .. Len(script') /\ b + m <= Len(script')
  BY <1>1, <1>3, <1>4, RealtimeAssumption DEF SentBut
<1>6. Sends(b, m)'
  <2> SUFFICES ASSUME NEW j \in DOMAIN script'
               PROVE  script'[j].do = "send" <=> b < j /\ j <= b + m
    BY DEF Sends
  <2>1. j + 1 \in DOMAIN script /\ script'[j] = script[j + 1] /\ j \in Nat \ {0}
    BY <1>1
  <2>2. script[j + 1].do = "send" <=> a < j + 1 /\ j + 1 <= a + m
    BY <1>3, <2>1 DEF SentBut, Sends
  <2> QED
    BY <1>4, <2>1, <2>2, RealtimeAssumption
<1> HIDE DEF b
<1>7. SentBut(b, m)'
  BY <1>2, <1>3, <1>5, <1>6 DEF SentBut
<1> QED
  BY <1>5, <1>7

\* The driver reports an event.
LEMMA EmitStep ==
  ASSUME TypeOK, CallInv, DataInv, script # <<>>, Head(script).do = "emit",
         log' = Append(log, Head(script).event), script' = Tail(script),
         UNCHANGED <<running, accepted, outbound, call, wire, inbound, arrived>>
  PROVE  DataInv'
<1> DEFINE event == Head(script).event
<1>1. /\ Lasting' = Lasting /\ running /\ Done' = Done
      /\ ScriptInv' /\ CloseInv'
      /\ \A j \in DOMAIN script' : j + 1 \in DOMAIN script /\ script'[j] = script[j + 1]
      /\ \A j \in DOMAIN script : j = 1 \/ (j - 1 \in DOMAIN script' /\ script[j] = script'[j - 1])
  BY ScriptTail
<1>2. SentInv'
  BY SentTail
<1>3. 1 \in DOMAIN script /\ Head(script) = script[1] /\ event \in Event
      /\ \A j \in DOMAIN script : j \in Nat \ {0}
  BY StepType, TailFacts DEF TypeOK
<1>4. /\ \A n : Logged(n) => Logged(n)'
      /\ \A id : Marked(id) => Marked(id)'
      /\ \A id : OnWire(id)' = OnWire(id)
      /\ Last' = Last
  BY <1>3, LogKeeps DEF OnWire, Last
<1>5. /\ Len(log) + 1 \in DOMAIN log' /\ log'[Len(log) + 1] = event
      /\ \A j \in DOMAIN log' : (j \in DOMAIN log /\ log'[j] = log[j]) \/ log'[j] = event
  BY <1>3, AppendFacts DEF TypeOK
<1>6. IdsInv'
  <2>1. event.kind = "frame" => \A id \in event.seen : OnWire(id)
    BY <1>3 DEF DataInv, IdsInv, IsFrame
  <2>2. \A j \in DOMAIN log' : log'[j].kind = "frame" => \A id \in log'[j].seen : OnWire(id)
    BY <1>5, <2>1 DEF DataInv, IdsInv
  <2>3. \A j \in DOMAIN script' : IsFrame(script'[j]) => \A id \in script'[j].event.seen : OnWire(id)
    BY <1>1 DEF DataInv, IdsInv
  <2> QED
    BY <1>4, <2>2, <2>3 DEF DataInv, IdsInv
<1>7. QueueInv'
  BY <1>1, <1>4 DEF DataInv, QueueInv
<1>8. ArrivalInv'
  <2>1. ASSUME Lasting, NEW n \in 1 .. arrived - Len(inbound)
        PROVE  Logged(n)'
    <3>1. CASE Logged(n)
      BY <1>4, <3>1
    <3>2. CASE IsFrame(script[1]) /\ script[1].event.n = n
      BY <1>3, <1>5, <3>2 DEF IsFrame, Logged
    <3> QED
      BY <2>1, <3>1, <3>2 DEF DataInv, ArrivalInv
  <2> QED
    BY <1>1, <2>1 DEF DataInv, ArrivalInv
<1>9. ReadyInv'
  <2> SUFFICES ASSUME NEW j \in DOMAIN script', IsMarker(script'[j])
               PROVE  /\ script'[j].event.ready <= arrived
                      /\ \/ \E h \in DOMAIN script' : h < j /\ script'[h].do = "drain"
                         \/ \A n \in 1 .. script'[j].event.ready : Logged(n)'
    BY DEF ReadyInv
  <2>1. /\ script'[j].event.ready <= arrived
        /\ \/ \E h \in DOMAIN script : h < j + 1 /\ script[h].do = "drain"
           \/ \A n \in 1 .. script'[j].event.ready : Logged(n)
    BY <1>1 DEF DataInv, ReadyInv
  <2>2. ASSUME NEW h \in DOMAIN script, h < j + 1, script[h].do = "drain"
        PROVE  h - 1 \in DOMAIN script' /\ h - 1 < j /\ script'[h - 1].do = "drain"
    <3>1. h # 1
      BY <1>3, <2>2
    <3>2. j + 1 \in DOMAIN script /\ h \in Nat /\ j \in Nat
      BY <1>1, <1>3 DEF TypeOK
    <3> QED
      BY <1>1, <2>2, <3>1, <3>2
  <2> QED
    BY <1>4, <2>1, <2>2
<1>10. MarkInv'
  <2>1. ASSUME Lasting, NEW k \in DOMAIN accepted, accepted[k].kind = "fenced", k <= Done
        PROVE  \/ Marked(accepted[k].id)'
               \/ /\ k = Done
                  /\ \E j \in DOMAIN script' : IsMarker(script'[j]) /\ script'[j].event.id = accepted[k].id
    <3>1. CASE Marked(accepted[k].id)
      <4>1. \A id : Marked(id) => Marked(id)'
        BY <1>4
      <4> QED
        BY <3>1, <4>1 DEF Marked
    <3>2. ASSUME NEW j \in DOMAIN script, IsMarker(script[j]), script[j].event.id = accepted[k].id, k = Done
          PROVE  \/ Marked(accepted[k].id)'
                 \/ \E h \in DOMAIN script' : IsMarker(script'[h]) /\ script'[h].event.id = accepted[k].id
      <4>1. CASE j = 1
        BY <1>3, <1>5, <3>2, <4>1 DEF IsMarker, Marked
      <4>2. CASE j # 1
        <5>1. j - 1 \in DOMAIN script' /\ script[j] = script'[j - 1]
          BY ONLY <1>1, <3>2, <4>2
        <5> QED
          BY ONLY <3>2, <5>1
      <4> QED
        BY ONLY <4>1, <4>2
    <3> QED
      BY <2>1, <3>1, <3>2 DEF DataInv, MarkInv
  <2>2. ASSUME NEW j \in DOMAIN script', IsFrame(script'[j]), NEW k \in DOMAIN accepted,
               accepted[k].kind = "fenced", accepted[k].id \in script'[j].event.seen
        PROVE  Marked(accepted[k].id)'
    <3>1. Marked(accepted[k].id)
      BY <1>1, <2>2 DEF DataInv, MarkInv
    <3>2. \A id : Marked(id) => Marked(id)'
      BY <1>4
    <3> QED
      BY <3>1, <3>2 DEF Marked
  <2> QED
    BY <1>1, <2>1, <2>2 DEF MarkInv
<1>11. FenceOrder'
  <2>1. event.kind = "marker" => \A n \in 1 .. event.ready : Logged(n)
    <3> SUFFICES ASSUME event.kind = "marker"
                 PROVE  \A n \in 1 .. event.ready : Logged(n)
      OBVIOUS
    <3>1. IsMarker(script[1])
      BY <1>3 DEF IsMarker
    <3>2. \A h \in DOMAIN script : ~(h < 1)
      BY <1>3
    <3> QED
      BY <1>3, <3>1, <3>2 DEF DataInv, ReadyInv
  <2>2. event.kind = "frame" =>
            \A k \in DOMAIN accepted :
               accepted[k].kind = "fenced" /\ accepted[k].id \in event.seen => Marked(accepted[k].id)
    BY <1>3 DEF DataInv, MarkInv, IsFrame
  <2> QED
    BY <1>3, <2>1, <2>2, FenceAppend DEF DataInv
<1>12. CloseSendsTheQueue'
  BY DEF DataInv, CloseSendsTheQueue
<1> QED
  BY <1>1, <1>2, <1>6, <1>7, <1>8, <1>9, <1>10, <1>11, <1>12 DEF DataInv

\* The driver sends a frame.
LEMMA SendStep ==
  ASSUME TypeOK, CallInv, DataInv, script # <<>>, Head(script).do = "send",
         wire' = Append(wire, Head(script).id), script' = Tail(script),
         UNCHANGED <<running, accepted, outbound, call, log, inbound, arrived>>
  PROVE  DataInv'
<1> DEFINE x == Head(script).id
<1>1. /\ Lasting' = Lasting /\ running /\ Done' = Done /\ Lasting
      /\ ScriptInv' /\ CloseInv'
      /\ \A j \in DOMAIN script' : j + 1 \in DOMAIN script /\ script'[j] = script[j + 1]
      /\ \A j \in DOMAIN script : j = 1 \/ (j - 1 \in DOMAIN script' /\ script[j] = script'[j - 1])
  BY ScriptTail
<1>2. /\ Len(script) \in Nat \ {0} /\ DOMAIN script = 1 .. Len(script) /\ Head(script) = script[1]
      /\ Len(script') = Len(script) - 1 /\ DOMAIN script' = 1 .. Len(script) - 1
      /\ \A j \in 1 .. Len(script) - 1 : script'[j] = script[j + 1]
      /\ 1 \in DOMAIN script
  BY TailFacts DEF TypeOK
<1>3. /\ Done > 0 /\ Done \in DOMAIN accepted /\ IsInput(accepted[Done]) /\ x = accepted[Done].id
      /\ x \in Nat /\ Done \in Nat
  <2>1. Done > 0 /\ IsInput(accepted[Done]) /\ script[1].id = accepted[Done].id
    BY <1>2 DEF DataInv, ScriptInv
  <2>2. Done \in Nat /\ Done \in DOMAIN accepted
    BY <1>1, <2>1, DoneBound DEF DataInv
  <2>3. accepted[Done] \in Command
    BY <2>2 DEF TypeOK
  <2> QED
    BY <1>2, <2>1, <2>2, <2>3, CommandType
<1>4. x \in 1 .. Last
  BY <1>3 DEF DataInv, IdsInv
<1>5. ~IsFrame(script[1]) /\ ~IsMarker(script[1])
  BY <1>2 DEF IsFrame, IsMarker
<1>6. /\ DOMAIN wire = 1 .. Len(wire) /\ DOMAIN wire' = 1 .. Len(wire) + 1 /\ Len(wire) \in Nat
      /\ \A k \in DOMAIN wire : wire'[k] = wire[k]
      /\ wire'[Len(wire) + 1] = x
  BY <1>3, AppendFacts, SMTT(20) DEF TypeOK
<1>7. /\ \A w \in DOMAIN wire' : (w \in DOMAIN wire /\ wire'[w] = wire[w]) \/ wire'[w] = x
      /\ \A w \in DOMAIN wire : w \in DOMAIN wire' /\ wire'[w] = wire[w]
  BY <1>6
<1>8. /\ \A id : OnWire(id) => OnWire(id)'
      /\ \A id : OnWire(id)' => OnWire(id) \/ id = x
      /\ \A n : Logged(n)' = Logged(n)
      /\ \A id : Marked(id)' = Marked(id)
      /\ Last' = Last
  BY <1>7 DEF OnWire, Last, Logged, Marked
<1>9. \A k \in DOMAIN accepted : IsInput(accepted[k]) /\ accepted[k].id = x => k = Done
  BY <1>3 DEF DataInv, IdsInv
<1> HIDE DEF x
<1>10. IdsInv'
  <2>1. \A w \in DOMAIN wire' : wire'[w] \in 1 .. Last
    BY <1>4, <1>7 DEF DataInv, IdsInv
  <2>2. \A j \in DOMAIN script' : IsFrame(script'[j]) => \A id \in script'[j].event.seen : OnWire(id)
    BY <1>1 DEF DataInv, IdsInv
  <2>3. /\ \A i \in DOMAIN inbound : \A id \in inbound[i].seen : OnWire(id)'
        /\ \A j \in DOMAIN log : log[j].kind = "frame" => \A id \in log[j].seen : OnWire(id)'
        /\ \A j \in DOMAIN script' : IsFrame(script'[j]) => \A id \in script'[j].event.seen : OnWire(id)'
    BY <1>8, <2>2 DEF DataInv, IdsInv
  <2>4. /\ \A k \in DOMAIN accepted : IsInput(accepted[k]) => accepted[k].id \in 1 .. Last
        /\ \A k, l \in DOMAIN accepted :
             IsInput(accepted[k]) /\ IsInput(accepted[l]) /\ accepted[k].id = accepted[l].id => k = l
    BY DEF DataInv, IdsInv
  <2> QED
    BY <1>8, <2>1, <2>3, <2>4 DEF IdsInv
<1>11. QueueInv'
  <2>1. \A k \in DOMAIN accepted : IsInput(accepted[k]) /\ OnWire(accepted[k].id)' => k <= Done
    <3> SUFFICES ASSUME NEW k \in DOMAIN accepted, IsInput(accepted[k]), OnWire(accepted[k].id)'
                 PROVE  k <= Done
      OBVIOUS
    <3>1. OnWire(accepted[k].id) \/ accepted[k].id = x
      <4>1. \A id : OnWire(id)' => OnWire(id) \/ id = x
        BY <1>8
      <4> QED
        BY <4>1 DEF OnWire
    <3> QED
      BY <1>1, <1>3, <1>9, <3>1 DEF DataInv, QueueInv
  <2> QED
    BY <1>1, <2>1 DEF DataInv, QueueInv
<1>12. SentInv'
  <2>1. PICK a \in 0 .. Len(script), m \in 0 .. FrameCount : SentBut(a, m)
    BY <1>1 DEF DataInv, SentInv
  <2>2. a = 0 /\ m > 0
    BY <1>2, <2>1, RealtimeAssumption DEF SentBut, Sends
  <2>3. Sends(0, m - 1)'
    <3> SUFFICES ASSUME NEW j \in DOMAIN script'
                 PROVE  script'[j].do = "send" <=> 0 < j /\ j <= 0 + (m - 1)
      BY DEF Sends
    <3>1. j + 1 \in DOMAIN script /\ script'[j] = script[j + 1] /\ j \in Nat \ {0}
      BY <1>2
    <3>2. script[j + 1].do = "send" <=> 0 < j + 1 /\ j + 1 <= 0 + m
      BY <2>1, <2>2, <3>1 DEF SentBut, Sends
    <3> QED
      BY <2>2, <3>1, <3>2, RealtimeAssumption
  <2>0. wire \in Seq(Nat) /\ x \in Nat /\ wire' = Append(wire, x)
    BY <1>3 DEF TypeOK, x
  <2>4. \A id \in Nat : Count(wire, id) \in Nat /\ (id # x => Count(wire', id) = Count(wire, id))
    BY ONLY <2>0, CountAppend
  <2>5. Count(wire, x) \in Nat /\ Count(wire', x) = Count(wire, x) + 1
    BY ONLY <2>0, CountAppend
  <2>6. \A k \in DOMAIN accepted : IsInput(accepted[k]) => accepted[k].id \in Nat
    <3>1. \A k \in DOMAIN accepted : accepted[k] \in Command
      BY DEF TypeOK
    <3> QED
      BY <3>1, CommandType
  <2>7. \A k \in DOMAIN accepted : IsInput(accepted[k]) /\ k < Done =>
          Count(wire', accepted[k].id) = FrameCount
    <3> SUFFICES ASSUME NEW k \in DOMAIN accepted, IsInput(accepted[k]), k < Done
                 PROVE  Count(wire', accepted[k].id) = FrameCount
      OBVIOUS
    <3>1. accepted[k].id # x
      BY <1>3, <1>9, SMTT(20)
    <3>2. Count(wire, accepted[k].id) = FrameCount
      BY <2>1 DEF SentBut
    <3> QED
      BY <2>4, <2>6, <3>1, <3>2
  <2>8. Count(wire', accepted[Done].id) = FrameCount - (m - 1)
    <3>1. Count(wire, x) = FrameCount - m
      BY <1>3, <2>1 DEF SentBut
    <3> QED
      BY <1>3, <2>2, <2>5, <3>1, RealtimeAssumption
  <2>9. SentBut(0, m - 1)'
    <3>1. 0 + (m - 1) <= Len(script')
      BY <1>2, <2>1, <2>2, RealtimeAssumption DEF SentBut
    <3> QED
      BY <1>1, <2>3, <2>7, <2>8, <3>1 DEF SentBut
  <2>10. 0 \in 0 .. Len(script') /\ m - 1 \in 0 .. FrameCount
    BY <1>2, <2>2, RealtimeAssumption
  <2> QED
    BY <2>9, <2>10 DEF SentInv
<1>13. ArrivalInv'
  BY <1>1, <1>5, <1>8 DEF DataInv, ArrivalInv
<1>14. ReadyInv'
  <2> SUFFICES ASSUME NEW j \in DOMAIN script', IsMarker(script'[j])
               PROVE  /\ script'[j].event.ready <= arrived
                      /\ \/ \E h \in DOMAIN script' : h < j /\ script'[h].do = "drain"
                         \/ \A n \in 1 .. script'[j].event.ready : Logged(n)
    BY <1>8 DEF ReadyInv
  <2>1. /\ script'[j].event.ready <= arrived
        /\ \/ \E h \in DOMAIN script : h < j + 1 /\ script[h].do = "drain"
           \/ \A n \in 1 .. script'[j].event.ready : Logged(n)
    BY <1>1 DEF DataInv, ReadyInv
  <2>2. ASSUME NEW h \in DOMAIN script, h < j + 1, script[h].do = "drain"
        PROVE  h - 1 \in DOMAIN script' /\ h - 1 < j /\ script'[h - 1].do = "drain"
    <3>1. h # 1
      BY <1>2, <2>2
    <3> QED
      BY <1>1, <1>2, <2>2, <3>1
  <2> QED
    BY <2>1, <2>2
<1>15. MarkInv'
  <2>1. ASSUME NEW k \in DOMAIN accepted, accepted[k].kind = "fenced", k <= Done
        PROVE  \/ Marked(accepted[k].id)
               \/ /\ k = Done
                  /\ \E j \in DOMAIN script' : IsMarker(script'[j]) /\ script'[j].event.id = accepted[k].id
    <3>1. ASSUME NEW j \in DOMAIN script, IsMarker(script[j]), script[j].event.id = accepted[k].id
          PROVE  \E h \in DOMAIN script' : IsMarker(script'[h]) /\ script'[h].event.id = accepted[k].id
      <4>1. j # 1
        BY <1>5, <3>1
      <4>2. j # 1 => j - 1 \in DOMAIN script' /\ script[j] = script'[j - 1]
        BY ONLY <1>1, <3>1
      <4> QED
        BY ONLY <3>1, <4>1, <4>2
    <3> QED
      BY <1>1, <2>1, <3>1 DEF DataInv, MarkInv
  <2>2. ASSUME NEW j \in DOMAIN script', IsFrame(script'[j]), NEW k \in DOMAIN accepted,
               accepted[k].kind = "fenced", accepted[k].id \in script'[j].event.seen
        PROVE  Marked(accepted[k].id)
    BY <1>1, <2>2 DEF DataInv, MarkInv
  <2> QED
    BY <1>1, <1>8, <2>1, <2>2 DEF MarkInv
<1>16. FenceOrder'
  BY DEF DataInv, FenceOrder
<1>17. CloseSendsTheQueue'
  <2>1. \A k \in DOMAIN accepted : ~(accepted[k].kind = "close" /\ call[accepted[k].by] = "ok")
    <3> SUFFICES ASSUME NEW k \in DOMAIN accepted, accepted[k].kind = "close", call[accepted[k].by] = "ok"
                 PROVE  FALSE
      OBVIOUS
    <3>1. script[1].do \in {"emit", "stop"}
      BY <1>1, <1>2 DEF DataInv, CloseInv
    <3> QED
      BY <1>2, <3>1
  <2> QED
    BY <2>1 DEF CloseSendsTheQueue
<1> QED
  BY <1>1, <1>10, <1>11, <1>12, <1>13, <1>14, <1>15, <1>16, <1>17 DEF DataInv

\* Nothing is left to drain.
LEMMA DrainedStep ==
  ASSUME TypeOK, CallInv, DataInv, script # <<>>, Head(script).do = "drain", inbound = <<>>,
         script' = Tail(script),
         UNCHANGED <<running, accepted, outbound, call, log, wire, inbound, arrived>>
  PROVE  DataInv'
<1>1. /\ Lasting' = Lasting /\ running /\ Done' = Done /\ Lasting
      /\ ScriptInv' /\ CloseInv'
      /\ \A j \in DOMAIN script' : j + 1 \in DOMAIN script /\ script'[j] = script[j + 1]
      /\ \A j \in DOMAIN script : j = 1 \/ (j - 1 \in DOMAIN script' /\ script[j] = script'[j - 1])
  BY ScriptTail
<1>2. SentInv'
  BY SentTail
<1>3. Head(script) = script[1] /\ ~IsFrame(script[1]) /\ ~IsMarker(script[1])
  BY TailFacts DEF TypeOK, IsFrame, IsMarker
<1>4. /\ \A id : OnWire(id)' = OnWire(id)
      /\ \A n : Logged(n)' = Logged(n)
      /\ \A id : Marked(id)' = Marked(id)
      /\ Last' = Last
  BY DEF OnWire, Last, Logged, Marked
<1>5. \A n \in 1 .. arrived : Logged(n)
  <2>1. arrived - Len(inbound) = arrived
    BY DEF TypeOK
  <2> QED
    BY <1>1, <1>3, <2>1 DEF DataInv, ArrivalInv
<1>6. IdsInv'
  <2>1. \A j \in DOMAIN script' : IsFrame(script'[j]) => \A id \in script'[j].event.seen : OnWire(id)
    BY <1>1 DEF DataInv, IdsInv
  <2> QED
    BY <1>4, <2>1 DEF DataInv, IdsInv
<1>7. QueueInv'
  BY <1>1, <1>4 DEF DataInv, QueueInv
<1>8. ArrivalInv'
  BY <1>1, <1>3, <1>4 DEF DataInv, ArrivalInv
<1>9. ReadyInv'
  <2> SUFFICES ASSUME NEW j \in DOMAIN script', IsMarker(script'[j])
               PROVE  /\ script'[j].event.ready <= arrived
                      /\ \A n \in 1 .. script'[j].event.ready : Logged(n)
    BY <1>4 DEF ReadyInv
  <2>1. script'[j].event.ready <= arrived
    BY <1>1 DEF DataInv, ReadyInv
  <2>2. script'[j].event.ready \in Nat /\ arrived \in Nat
    BY <1>1, StepType, EventType DEF TypeOK, IsMarker
  <2> QED
    BY <1>5, <2>1, <2>2
<1>10. MarkInv'
  <2>1. ASSUME NEW k \in DOMAIN accepted, accepted[k].kind = "fenced", k <= Done
        PROVE  \/ Marked(accepted[k].id)
               \/ /\ k = Done
                  /\ \E j \in DOMAIN script' : IsMarker(script'[j]) /\ script'[j].event.id = accepted[k].id
    <3>1. ASSUME NEW j \in DOMAIN script, IsMarker(script[j]), script[j].event.id = accepted[k].id
          PROVE  \E h \in DOMAIN script' : IsMarker(script'[h]) /\ script'[h].event.id = accepted[k].id
      <4>1. j # 1
        BY <1>3, <3>1
      <4>2. j # 1 => j - 1 \in DOMAIN script' /\ script[j] = script'[j - 1]
        BY ONLY <1>1, <3>1
      <4> QED
        BY ONLY <3>1, <4>1, <4>2
    <3> QED
      BY <1>1, <2>1, <3>1 DEF DataInv, MarkInv
  <2>2. ASSUME NEW j \in DOMAIN script', IsFrame(script'[j]), NEW k \in DOMAIN accepted,
               accepted[k].kind = "fenced", accepted[k].id \in script'[j].event.seen
        PROVE  Marked(accepted[k].id)
    BY <1>1, <2>2 DEF DataInv, MarkInv
  <2> QED
    BY <1>1, <1>4, <2>1, <2>2 DEF MarkInv
<1>11. FenceOrder' /\ CloseSendsTheQueue'
  BY DEF DataInv, FenceOrder, CloseSendsTheQueue
<1> QED
  BY <1>1, <1>2, <1>6, <1>7, <1>8, <1>9, <1>10, <1>11 DEF DataInv

\* A provider frame becomes readable.
LEMMA ArriveStep ==
  ASSUME TypeOK, CallInv, DataInv, NEW frame \in Frame,
         frame.n = arrived + 1, \A id \in frame.seen : OnWire(id),
         inbound' = Append(inbound, frame), arrived' = arrived + 1,
         UNCHANGED <<running, accepted, outbound, script, call, log, wire>>
  PROVE  DataInv'
<1>1. Lasting' = Lasting /\ Done' = Done
  BY DEF Lasting, Has, Done
<1>2. /\ \A id : OnWire(id)' = OnWire(id)
      /\ \A n : Logged(n)' = Logged(n)
      /\ \A id : Marked(id)' = Marked(id)
      /\ Last' = Last
  BY DEF OnWire, Last, Logged, Marked
<1>3. /\ Len(inbound) \in Nat /\ arrived \in Nat
      /\ Len(inbound') = Len(inbound) + 1 /\ DOMAIN inbound = 1 .. Len(inbound)
      /\ \A i \in DOMAIN inbound' : (i \in DOMAIN inbound /\ inbound'[i] = inbound[i])
                                      \/ (i = Len(inbound) + 1 /\ inbound'[i] = frame)
  BY AppendFacts DEF TypeOK
<1>4. IdsInv'
  BY <1>2, <1>3 DEF DataInv, IdsInv
<1>5. QueueInv'
  BY <1>1, <1>2 DEF DataInv, QueueInv
<1>6. ScriptInv'
  BY <1>1, <1>2 DEF DataInv, ScriptInv
<1>7. SentInv'
  BY <1>1 DEF DataInv, SentInv, SentBut, Sends
<1>8. CloseInv'
  BY DEF DataInv, CloseInv, Has
<1>9. ArrivalInv'
  <2>1. arrived' - Len(inbound') = arrived - Len(inbound) /\ Len(inbound') <= arrived'
    BY <1>3 DEF DataInv, ArrivalInv
  <2>2. \A i \in DOMAIN inbound' : inbound'[i].n = arrived' - Len(inbound') + i
    BY <1>3, <2>1 DEF DataInv, ArrivalInv
  <2> QED
    BY <1>1, <1>2, <2>1, <2>2 DEF DataInv, ArrivalInv
<1>10. ReadyInv'
  <2>1. \A j \in DOMAIN script : IsMarker(script[j]) => script[j].event.ready <= arrived + 1
    <3> SUFFICES ASSUME NEW j \in DOMAIN script, IsMarker(script[j])
                 PROVE  script[j].event.ready <= arrived + 1
      OBVIOUS
    <3>1. script[j].event.ready \in Nat /\ script[j].event.ready <= arrived
      BY StepType, EventType DEF DataInv, ReadyInv, TypeOK, IsMarker
    <3> QED
      BY <1>3, <3>1
  <2> QED
    BY <1>2, <2>1 DEF DataInv, ReadyInv
<1>11. MarkInv'
  BY <1>1, <1>2 DEF DataInv, MarkInv
<1>12. FenceOrder' /\ CloseSendsTheQueue'
  BY DEF DataInv, FenceOrder, CloseSendsTheQueue
<1> QED
  BY <1>4, <1>5, <1>6, <1>7, <1>8, <1>9, <1>10, <1>11, <1>12 DEF DataInv

\* A frame is reported, or it is the last thing the driver reports.
LEMMA ProcessedShape ==
  ASSUME NEW frame \in Frame
  PROVE  /\ Processed(frame) \in Seq(Step)
         /\ Len(Processed(frame)) = (IF frame.ok THEN 1 ELSE 2)
         /\ DOMAIN Processed(frame) = 1 .. Len(Processed(frame))
         /\ Processed(frame)[1].do = "emit" /\ ~IsMarker(Processed(frame)[1])
         /\ IsFrame(Processed(frame)[1]) <=> frame.ok
         /\ frame.ok => /\ Processed(frame)[1].event.n = frame.n
                        /\ Processed(frame)[1].event.seen = frame.seen
         /\ ~frame.ok => Processed(frame)[2].do = "stop"
<1>1. Processed(frame) \in Seq(Step)
  BY ProcessedType
<1>2. CASE frame.ok
  <2>1. Processed(frame) = <<[do |-> "emit", event |-> [kind |-> "frame", n |-> frame.n, seen |-> frame.seen]]>>
    BY <1>2 DEF Processed, Emit, Provided
  <2>2. /\ Len(Processed(frame)) = 1
        /\ Processed(frame)[1] = [do |-> "emit", event |-> [kind |-> "frame", n |-> frame.n, seen |-> frame.seen]]
    BY <2>1
  <2> QED
    BY <1>1, <1>2, <2>2 DEF IsMarker, IsFrame
<1>3. CASE ~frame.ok
  <2>1. Processed(frame) = Emit(Interrupted) \o Stop
    BY <1>3 DEF Processed, Fatal
  <2>2. /\ Len(Processed(frame)) = 2
        /\ Processed(frame)[1] = [do |-> "emit", event |-> [kind |-> "error"]]
        /\ Processed(frame)[2] = [do |-> "stop"]
    BY <2>1 DEF Emit, Stop, Interrupted
  <2> QED
    BY <1>1, <1>3, <2>2 DEF IsMarker, IsFrame
<1> QED
  BY <1>2, <1>3

\* The driver reads a frame, between two commands or while it drains: then all
\* frames before it are reported, and what it answers was marked.
LEMMA InboundStep ==
  ASSUME TypeOK, CallInv, DataInv, running, inbound # <<>>,
         script = <<>> \/ Head(script).do = "drain",
         script' = Processed(Head(inbound)) \o script, inbound' = Tail(inbound),
         UNCHANGED <<running, accepted, outbound, call, log, wire, arrived>>
  PROVE  DataInv'
<1> DEFINE frame == Head(inbound)
           p == Processed(frame)
           n == Len(p)
<1>1. /\ Len(inbound) \in Nat \ {0} /\ frame = inbound[1] /\ frame \in Frame /\ 1 \in DOMAIN inbound
      /\ Len(inbound') = Len(inbound) - 1 /\ DOMAIN inbound = 1 .. Len(inbound)
      /\ DOMAIN inbound' = 1 .. Len(inbound) - 1
      /\ \A i \in 1 .. Len(inbound) - 1 : inbound'[i] = inbound[i + 1]
      /\ arrived \in Nat
  BY TailFacts DEF TypeOK
<1>2. /\ p \in Seq(Step) /\ n = (IF frame.ok THEN 1 ELSE 2) /\ DOMAIN p = 1 .. n
      /\ p[1].do = "emit" /\ ~IsMarker(p[1])
      /\ IsFrame(p[1]) <=> frame.ok
      /\ frame.ok => p[1].event.n = frame.n /\ p[1].event.seen = frame.seen
      /\ ~frame.ok => p[2].do = "stop"
  BY <1>1, ProcessedShape
<1>3. script' = p \o script
  OBVIOUS
<1>4. frame.n = arrived - Len(inbound) + 1 /\ \A id \in frame.seen : OnWire(id)
  BY <1>1 DEF DataInv, ArrivalInv, IdsInv
<1> HIDE DEF p, frame
<1>5. /\ Len(script) \in Nat /\ DOMAIN script = 1 .. Len(script)
      /\ Len(script') = n + Len(script) /\ DOMAIN script' = 1 .. n + Len(script)
      /\ \A j \in 1 .. n : script'[j] = p[j]
      /\ \A j \in n + 1 .. n + Len(script) : script'[j] = script[j - n]
  <2>1. script \in Seq(Step)
    BY DEF TypeOK
  <2>2. p \in Seq(Step)
    BY <1>2
  <2> QED
    BY ONLY <1>3, <2>1, <2>2, ConcatFacts
<1>6. n \in Nat /\ n \in {1, 2}
  BY <1>2
<1> HIDE DEF n
<1>7. \A j \in DOMAIN script' : \/ j \in 1 .. n /\ script'[j] = p[j]
                                \/ j - n \in DOMAIN script /\ script'[j] = script[j - n]
  BY <1>5, <1>6
<1>8. \A j \in DOMAIN script : j + n \in DOMAIN script' /\ script'[j + n] = script[j]
  <2> TAKE j \in DOMAIN script
  <2>1. j + n \in n + 1 .. n + Len(script) /\ (j + n) - n = j
    <3>1. j \in Nat /\ 1 <= j /\ j <= Len(script)
      BY <1>5
    <3> QED
      BY <1>5, <1>6, <3>1
  <2> QED
    BY <1>5, <1>6, <2>1
<1>9. \A j \in 1 .. n : (j = 1 /\ p[j].do = "emit" /\ (IsFrame(p[j]) => frame.ok)) \/ (j = 2 /\ p[j].do = "stop")
  BY <1>2, <1>6
<1>10. /\ 1 \in DOMAIN script' /\ script'[1] = p[1]
  BY <1>5, <1>6
<1>11. script # <<>> => 1 \in DOMAIN script /\ script[1].do = "drain"
  BY <1>5
<1>12. \A j \in DOMAIN script : script[j].do \notin {"stop", "close"}
  <2> SUFFICES ASSUME NEW j \in DOMAIN script, script[j].do \in {"stop", "close"}
               PROVE  FALSE
    OBVIOUS
  <2>1. 1 \in DOMAIN script /\ script[1].do = "drain" /\ j # 1 /\ 1 < j
    BY <1>5, <1>11
  <2>2. CASE script[j].do = "stop"
    BY <2>1, <2>2 DEF DataInv, ScriptInv
  <2>3. CASE script[j].do = "close"
    <3>1. Len(script) = 1
      BY <2>3 DEF DataInv, ScriptInv
    <3> QED
      BY <1>5, <2>1, <3>1
  <2> QED
    BY <2>2, <2>3
<1>13. Lasting /\ Done' = Done /\ running'
  BY <1>12 DEF Lasting, Has, Done
<1>14. Lasting' => frame.ok /\ n = 1
  <2>1. ~frame.ok => 2 \in 1 .. n /\ 2 \in DOMAIN script' /\ script'[2].do = "stop"
    BY <1>2, <1>5, <1>6 DEF n
  <2> QED
    BY <1>2, <2>1 DEF Lasting, Has, n
<1>15. /\ \A id : OnWire(id)' = OnWire(id)
       /\ \A i : Logged(i)' = Logged(i)
       /\ \A id : Marked(id)' = Marked(id)
       /\ Last' = Last
  BY DEF OnWire, Last, Logged, Marked
<1>16. \A i \in 1 .. arrived - Len(inbound) : Logged(i)
  <2>1. ~(script # <<>> /\ IsFrame(script[1]))
    BY <1>11 DEF IsFrame
  <2> QED
    BY <1>13, <2>1 DEF DataInv, ArrivalInv
<1>17. \A k \in DOMAIN accepted : accepted[k].kind = "fenced" /\ accepted[k].id \in frame.seen =>
          Marked(accepted[k].id)
  <2> SUFFICES ASSUME NEW k \in DOMAIN accepted, accepted[k].kind = "fenced", OnWire(accepted[k].id)
               PROVE  Marked(accepted[k].id)
    BY <1>4
  <2>1. k <= Done
    BY DEF DataInv, QueueInv, IsInput
  <2>2. CASE script = <<>>
    BY <1>13, <2>1, <2>2 DEF DataInv, MarkInv
  <2>3. CASE script # <<>>
    <3>1. ~OnWire(accepted[Done].id)
      BY <1>11, <1>13, <2>3 DEF DataInv, ScriptInv
    <3>2. k # Done
      BY <3>1
    <3> QED
      BY <1>13, <2>1, <3>2 DEF DataInv, MarkInv
  <2> QED
    BY <2>2, <2>3
<1>18. IdsInv'
  <2>1. \A j \in DOMAIN script' : IsFrame(script'[j]) => \A id \in script'[j].event.seen : OnWire(id)
    <3> SUFFICES ASSUME NEW j \in DOMAIN script', IsFrame(script'[j])
                 PROVE  \A id \in script'[j].event.seen : OnWire(id)
      OBVIOUS
    <3>1. CASE j - n \in DOMAIN script /\ script'[j] = script[j - n]
      BY <3>1 DEF DataInv, IdsInv
    <3>2. CASE j \in 1 .. n /\ script'[j] = p[j]
      <4>1. j = 1 /\ frame.ok
        BY <1>9, <3>2 DEF IsFrame
      <4> QED
        BY <1>2, <1>4, <3>2, <4>1
    <3> QED
      BY <1>7, <3>1, <3>2
  <2>2. \A i \in DOMAIN inbound' : \A id \in inbound'[i].seen : OnWire(id)
    <3> TAKE i \in DOMAIN inbound'
    <3>1. i + 1 \in DOMAIN inbound /\ inbound'[i] = inbound[i + 1]
      BY <1>1
    <3> QED
      BY <3>1 DEF DataInv, IdsInv
  <2> QED
    BY <1>15, <2>1, <2>2 DEF DataInv, IdsInv
<1>19. QueueInv'
  BY <1>13, <1>15 DEF DataInv, QueueInv
<1>20. ScriptInv'
  <2>1. \A j \in DOMAIN script' : script'[j].do = "stop" => j = 2 /\ n = 2
    BY <1>6, <1>7, <1>9, <1>12
  <2>2. \A j \in DOMAIN script' : script'[j].do = "stop" =>
          \A h \in DOMAIN script' : h < j => script'[h].do = "emit"
    BY <1>2, <1>5, <1>10, <2>1
  <2>3. \A j \in DOMAIN script' : script'[j].do # "close"
    BY <1>7, <1>9, <1>12
  <2>4. \A j \in DOMAIN script' : script'[j].do = "send" \/ script'[j].do = "drain" \/ IsMarker(script'[j]) =>
          j - n \in DOMAIN script /\ script'[j] = script[j - n]
    <3>1. \A j \in 1 .. n : ~IsMarker(p[j])
      BY <1>2, <1>9 DEF IsMarker
    <3> QED
      BY <1>7, <1>9, <3>1
  <2>5. \A j \in DOMAIN script' : script'[j].do = "send" =>
          Done > 0 /\ IsInput(accepted[Done]) /\ script'[j].id = accepted[Done].id
    BY <2>4 DEF DataInv, ScriptInv
  <2>6. \A j \in DOMAIN script' : IsMarker(script'[j]) =>
          Done > 0 /\ accepted[Done] = Fenced(script'[j].event.id)
    BY <2>4 DEF DataInv, ScriptInv
  <2>7. \A h, j \in DOMAIN script' : script'[h].do = "drain" /\ script'[j].do = "drain" => h = j
    <3> SUFFICES ASSUME NEW h \in DOMAIN script', NEW j \in DOMAIN script',
                        script'[h].do = "drain", script'[j].do = "drain"
                 PROVE  h = j
      OBVIOUS
    <3>1. h - n = j - n
      BY <2>4 DEF DataInv, ScriptInv
    <3> QED
      BY <1>5, <1>6, <3>1
  <2>8. ASSUME NEW j \in DOMAIN script', script'[j].do = "drain"
        PROVE  /\ Done > 0 /\ IsInput(accepted[Done])
               /\ ~OnWire(accepted[Done].id)
               /\ \A h \in DOMAIN script' : script'[h].do = "send" => j < h
    <3>1. j - n \in DOMAIN script /\ script[j - n].do = "drain"
      BY <2>4, <2>8
    <3>2. /\ Done > 0 /\ IsInput(accepted[Done])
          /\ ~OnWire(accepted[Done].id)
          /\ \A h \in DOMAIN script : script[h].do = "send" => j - n < h
      BY <1>13, <3>1 DEF DataInv, ScriptInv
    <3>3. ASSUME NEW h \in DOMAIN script', script'[h].do = "send"
          PROVE  j < h
      <4>1. j - n < h - n
        BY <2>4, <3>2, <3>3
      <4> QED
        BY <1>5, <1>6, <4>1
    <3> QED
      BY <3>2, <3>3
  <2> QED
    BY <1>13, <1>15, <2>2, <2>3, <2>5, <2>6, <2>7, <2>8 DEF ScriptInv
<1>21. SentInv'
  <2> SUFFICES ASSUME Lasting'
               PROVE  \E a \in 0 .. Len(script'), m \in 0 .. FrameCount : SentBut(a, m)'
    BY DEF SentInv
  <2>1. PICK a \in 0 .. Len(script), m \in 0 .. FrameCount : SentBut(a, m)
    BY <1>13 DEF DataInv, SentInv
  <2>2. Sends(a + 1, m)'
    <3> SUFFICES ASSUME NEW j \in DOMAIN script'
                 PROVE  script'[j].do = "send" <=> a + 1 < j /\ j <= (a + 1) + m
      BY DEF Sends
    <3>1. CASE j = 1
      BY <1>2, <1>10, <3>1
    <3>2. CASE j - 1 \in DOMAIN script /\ script'[j] = script[j - 1]
      <4>1. script[j - 1].do = "send" <=> a < j - 1 /\ j - 1 <= a + m
        BY <2>1, <3>2 DEF SentBut, Sends
      <4> QED
        <5>1. j \in Nat /\ a \in Nat /\ m \in Nat
          BY <1>5, <1>6, RealtimeAssumption
        <5>2. (a < j - 1 <=> a + 1 < j) /\ (j - 1 <= a + m <=> j <= (a + 1) + m)
          BY <5>1
        <5>3. script'[j].do = script[j - 1].do
          BY <3>2
        <5> QED
          BY ONLY <4>1, <5>2, <5>3
    <3>3. j = 1 \/ (j - 1 \in DOMAIN script /\ script'[j] = script[j - 1])
      <4>1. n = 1
        BY <1>14
      <4>2. j \in 1 .. n \/ (j - n \in DOMAIN script /\ script'[j] = script[j - n])
        BY <1>7
      <4> QED
        BY <4>1, <4>2
    <3> QED
      BY <3>1, <3>2, <3>3
  <2>3. a + 1 \in 0 .. Len(script') /\ (a + 1) + m <= Len(script')
    BY <1>5, <1>14, <2>1, RealtimeAssumption DEF SentBut
  <2>4. SentBut(a + 1, m)'
    BY <1>13, <2>1, <2>2, <2>3 DEF SentBut
  <2> QED
    BY <2>3, <2>4
<1>22. \A k \in DOMAIN accepted : ~(accepted[k].kind = "close" /\ call[accepted[k].by] = "ok")
  BY <1>13 DEF DataInv, CloseInv, Lasting
<1>23. CloseInv' /\ CloseSendsTheQueue'
  BY <1>22 DEF CloseInv, CloseSendsTheQueue
<1>24. ArrivalInv'
  <2>1. \A i \in DOMAIN inbound' : inbound'[i].n = arrived - Len(inbound') + i
    <3> TAKE i \in DOMAIN inbound'
    <3>1. i + 1 \in DOMAIN inbound /\ inbound'[i] = inbound[i + 1]
      BY <1>1
    <3>2. inbound[i + 1].n = arrived - Len(inbound) + (i + 1)
      BY <3>1 DEF DataInv, ArrivalInv
    <3> QED
      BY <1>1, <3>1, <3>2
  <2>2. Len(inbound') <= arrived
    BY <1>1 DEF DataInv, ArrivalInv
  <2>3. ASSUME Lasting', NEW i \in 1 .. arrived - Len(inbound')
        PROVE  Logged(i) \/ (script' # <<>> /\ IsFrame(script'[1]) /\ script'[1].event.n = i)
    <3>1. CASE i \in 1 .. arrived - Len(inbound)
      BY <1>16, <3>1
    <3>2. CASE i = arrived - Len(inbound) + 1
      BY <1>2, <1>4, <1>5, <1>10, <1>14, <2>3, <3>2
    <3> QED
      BY <1>1, <3>1, <3>2
  <2> QED
    BY <1>15, <2>1, <2>2, <2>3 DEF ArrivalInv
<1>25. ReadyInv'
  <2> SUFFICES ASSUME NEW j \in DOMAIN script', IsMarker(script'[j])
               PROVE  /\ script'[j].event.ready <= arrived
                      /\ \/ \E h \in DOMAIN script' : h < j /\ script'[h].do = "drain"
                         \/ \A i \in 1 .. script'[j].event.ready : Logged(i)
    BY <1>15 DEF ReadyInv
  <2>1. j - n \in DOMAIN script /\ script'[j] = script[j - n]
    <3>1. \A i \in 1 .. n : ~IsMarker(p[i])
      BY <1>2, <1>9 DEF IsMarker
    <3> QED
      BY <1>7, <3>1
  <2>2. /\ script'[j].event.ready <= arrived
        /\ \/ \E h \in DOMAIN script : h < j - n /\ script[h].do = "drain"
           \/ \A i \in 1 .. script'[j].event.ready : Logged(i)
    BY <2>1 DEF DataInv, ReadyInv
  <2>3. ASSUME NEW h \in DOMAIN script, h < j - n, script[h].do = "drain"
        PROVE  h + n \in DOMAIN script' /\ h + n < j /\ script'[h + n].do = "drain"
    <3>1. h + n \in DOMAIN script' /\ script'[h + n] = script[h]
      BY <1>8
    <3>2. h \in Nat /\ j \in Nat
      BY <1>5, <1>6
    <3> QED
      BY <1>6, <2>3, <3>1, <3>2, SMTT(20)
  <2> QED
    BY <2>2, <2>3
<1>26. MarkInv'
  <2>1. ASSUME Lasting', NEW k \in DOMAIN accepted, accepted[k].kind = "fenced", k <= Done
        PROVE  \/ Marked(accepted[k].id)
               \/ /\ k = Done
                  /\ \E j \in DOMAIN script' : IsMarker(script'[j]) /\ script'[j].event.id = accepted[k].id
    <3>1. ASSUME NEW j \in DOMAIN script, IsMarker(script[j]), script[j].event.id = accepted[k].id
          PROVE  \E h \in DOMAIN script' : IsMarker(script'[h]) /\ script'[h].event.id = accepted[k].id
      <4>1. j + n \in DOMAIN script' /\ script'[j + n] = script[j]
        BY <1>8
      <4> QED
        BY <3>1, <4>1
    <3> QED
      BY <1>13, <2>1, <3>1 DEF DataInv, MarkInv
  <2>2. ASSUME NEW j \in DOMAIN script', IsFrame(script'[j]), NEW k \in DOMAIN accepted,
               accepted[k].kind = "fenced", accepted[k].id \in script'[j].event.seen
        PROVE  Marked(accepted[k].id)
    <3>1. CASE j - n \in DOMAIN script /\ script'[j] = script[j - n]
      BY <2>2, <3>1 DEF DataInv, MarkInv
    <3>2. CASE j \in 1 .. n /\ script'[j] = p[j]
      <4>1. j = 1 /\ frame.ok
        BY <1>9, <2>2, <3>2 DEF IsFrame
      <4> QED
        BY <1>2, <1>17, <2>2, <3>2, <4>1
    <3> QED
      BY <1>7, <3>1, <3>2
  <2> QED
    BY <1>13, <1>15, <2>1, <2>2 DEF MarkInv
<1>27. FenceOrder'
  BY DEF DataInv, FenceOrder
<1> QED
  BY <1>18, <1>19, <1>20, <1>21, <1>23, <1>24, <1>25, <1>26, <1>27 DEF DataInv

-----------------------------------------------------------------------------
(* The steps of a session.                                                 *)

\* Initially nothing is accepted, sent or reported.
LEMMA InitInv ==
  ASSUME Init
  PROVE  RealtimeInv
<1>1. TypeOK
  BY RealtimeAssumption DEF Init, TypeOK
<1>2. CallInv
  BY RealtimeAssumption DEF Init, CallInv
<1>3. Done = 0 /\ ~Has("stop")
  BY DEF Init, Done, Has
<1>4. IdsInv /\ QueueInv /\ ScriptInv /\ CloseInv
  BY DEF Init, IdsInv, QueueInv, ScriptInv, CloseInv
<1>5. SentInv
  <2>1. SentBut(0, 0)
    BY <1>3 DEF Init, SentBut, Sends
  <2> QED
    BY <2>1, RealtimeAssumption DEF Init, SentInv
<1>6. ArrivalInv /\ ReadyInv /\ MarkInv
  BY DEF Init, ArrivalInv, ReadyInv, MarkInv
<1>7. FenceOrder /\ CloseSendsTheQueue
  BY DEF Init, FenceOrder, CloseSendsTheQueue
<1> QED
  BY <1>1, <1>2, <1>4, <1>5, <1>6, <1>7 DEF RealtimeInv, DataInv

\* The driver carries out the next step of its script.
LEMMA ExecuteStep ==
  ASSUME TypeOK, CallInv, DataInv, Execute
  PROVE  DataInv'
<1> DEFINE step == Head(script)
<1>1. /\ running /\ script # <<>> /\ step \in Step /\ step = script[1] /\ 1 \in DOMAIN script
      /\ UNCHANGED <<open, outbound, waker, abortSlot, running, arrived, hostVars,
                     accepted, disturbed, stalled>>
  BY TailFacts DEF Execute, Unparked, TypeOK
<1>2. ASSUME step.do = "drain", Drain
      PROVE  DataInv'
  <2>1. CASE inbound = <<>>
    BY <1>1, <1>2, <2>1, DrainedStep DEF Drain
  <2>2. CASE inbound # <<>> /\ script' = Fatal
    <3>1. script' # <<>>
      BY <2>2 DEF Fatal, Emit, Stop
    <3> QED
      BY <1>1, <1>2, <2>2, <3>1, StopStep DEF Drain
  <2>3. CASE inbound # <<>> /\ script' = Processed(Head(inbound)) \o script
    BY <1>1, <1>2, <2>3, InboundStep DEF Drain
  <2> QED
    BY <1>2, <2>1, <2>2, <2>3 DEF Drain
<1>3. ASSUME step.do = "emit", EmitEvent(step.event)
      PROVE  DataInv'
  <2>1. CASE log' = Append(log, step.event) /\ script' = Tail(script)
    BY <1>1, <1>3, <2>1, EmitStep DEF EmitEvent
  <2>2. CASE script' = Stop /\ log' = log
    <3>1. script' # <<>>
      BY <2>2 DEF Stop
    <3> QED
      BY <1>1, <1>3, <2>2, <3>1, StopStep DEF EmitEvent
  <2> QED
    BY <1>3, <2>1, <2>2 DEF EmitEvent
<1>4. ASSUME step.do = "send", SendFrame(step.id)
      PROVE  DataInv'
  <2>1. CASE wire' = Append(wire, step.id) /\ script' = Tail(script)
    BY <1>1, <1>4, <2>1, SendStep DEF SendFrame
  <2>2. CASE script' = Fatal /\ wire' = wire
    <3>1. script' # <<>>
      BY <2>2 DEF Fatal, Emit, Stop
    <3> QED
      BY <1>1, <1>4, <2>2, <3>1, StopStep DEF SendFrame
  <2> QED
    BY <1>4, <2>1, <2>2 DEF SendFrame
<1>5. ASSUME step.do = "close", CloseSocket(step.by)
      PROVE  DataInv'
  <2>1. script' \in {Stop, Emit(Closed) \o Stop} /\ script' # <<>>
    BY <1>5 DEF CloseSocket, Emit, Stop
  <2>2. UNCHANGED <<wire, log, inbound>>
    BY <1>5 DEF CloseSocket
  <2>3. Lasting
    <3>1. Len(script) = 1
      BY <1>1, <1>5 DEF DataInv, ScriptInv
    <3>2. DOMAIN script = {1}
      BY <3>1 DEF TypeOK
    <3> QED
      BY <1>1, <1>5, <3>2 DEF Lasting, Has
  <2>4. ASSUME NEW k \in DOMAIN accepted, accepted[k].kind = "close", call'[accepted[k].by] = "ok"
        PROVE  \/ call[accepted[k].by] = "ok"
               \/ \A i \in Inputs(accepted) : i < k => Count(wire, accepted[i].id) = FrameCount
    <3>1. CASE call'[accepted[k].by] = call[accepted[k].by]
      BY <2>4, <3>1
    <3>2. CASE step.by # None /\ accepted[k].by = step.by
      <4>1. Done \in DOMAIN accepted /\ accepted[Done] = Close(step.by)
        BY <1>1, <1>5, <3>2, ClosingCaller DEF DataInv
      <4>2. k = Done
        BY <2>4, <3>2, <4>1 DEF CallInv, Close
      <4>3. PICK a \in 0 .. Len(script), m \in 0 .. FrameCount : SentBut(a, m)
        BY <2>3 DEF DataInv, SentInv
      <4> QED
        BY <4>2, <4>3 DEF SentBut, Inputs, IsInput
    <3>3. accepted[k].by \in Callers
      BY <2>4, CloseCallers
    <3>4. CASE step.by = None \/ accepted[k].by # step.by
      <4>1. call'[accepted[k].by] = call[accepted[k].by]
        BY <1>5, <3>3, <3>4 DEF CloseSocket, TypeOK
      <4> QED
        BY <3>1, <4>1
    <3> QED
      BY <3>2, <3>4
  <2> HIDE DEF step
  <2> QED
    BY <1>1, <2>1, <2>2, <2>4, StopStep
<1> QED
  BY <1>2, <1>3, <1>4, <1>5 DEF Execute

\* Every step keeps the queue, the socket and the log in order.
LEMMA DataStep ==
  ASSUME TypeOK, CallInv, DataInv, Next
  PROVE  DataInv'
<1>1. ASSUME NEW c \in Callers, NEW fenced \in BOOLEAN, Send(c, fenced)
      PROVE  DataInv'
  <2> DEFINE cmd == IF fenced THEN Fenced(Last + 1) ELSE Frames(Last + 1)
  <2>1. Last + 1 \in Nat
    BY InputsFinite DEF TypeOK, Last
  <2>2. cmd \in Command /\ cmd.kind # "close" /\ cmd.id = Last + 1
    BY <2>1 DEF Fenced, Frames, Command
  <2> HIDE DEF cmd
  <2>3. UNCHANGED <<call, script, running, inbound, arrived, log, wire>>
    BY <1>1 DEF Send
  <2>4. CASE UNCHANGED <<outbound, accepted>>
    BY <2>3, <2>4, QuietStep
  <2>5. CASE Enqueue(cmd)
    BY <2>2, <2>3, <2>5, EnqueueStep
  <2> QED
    BY <1>1, <2>4, <2>5 DEF Send, cmd, Last
<1>2. ASSUME NEW c \in Callers, BeginClose(c)
      PROVE  DataInv'
  <2>1. \A d \in Callers : call'[d] = "ok" => call[d] = "ok"
    BY <1>2 DEF BeginClose, TypeOK
  <2> QED
    BY <1>2, <2>1, QuietStep DEF BeginClose
<1>3. ASSUME NEW c \in Callers, PollClose(c)
      PROVE  DataInv'
  <2>1. \A d \in Callers : call'[d] = "ok" => call[d] = "ok"
    BY <1>3 DEF PollClose, TypeOK
  <2>2. UNCHANGED <<script, running, inbound, arrived, log, wire>>
    BY <1>3 DEF PollClose
  <2>3. CASE UNCHANGED <<outbound, accepted>>
    BY <2>1, <2>2, <2>3, QuietStep
  <2>4. CASE Enqueue(Close(c)) /\ call' = [call EXCEPT ![c] = "waiting"]
    <3>1. Close(c) \in Command /\ ~IsInput(Close(c)) /\ Close(c).by = c
      BY DEF Close, Command, IsInput
    <3>2. call'[c] # "ok"
      BY <2>4 DEF TypeOK
    <3> QED
      BY <2>1, <2>2, <2>4, <3>1, <3>2, EnqueueStep
  <2> QED
    BY <1>3, <2>3, <2>4 DEF PollClose
<1>4. ASSUME NEW c \in Callers, BeginAbort(c)
      PROVE  DataInv'
  <2>1. \A d \in Callers : call'[d] = "ok" => call[d] = "ok"
    BY <1>4 DEF BeginAbort, TypeOK
  <2> QED
    BY <1>4, <2>1, QuietStep DEF BeginAbort
<1>5. ASSUME NEW c \in Callers, SignalAbort(c)
      PROVE  DataInv'
  <2>1. \A d \in Callers : call'[d] = "ok" => call[d] = "ok"
    BY <1>5 DEF SignalAbort, TypeOK
  <2> QED
    BY <1>5, <2>1, QuietStep DEF SignalAbort
<1>6. ASSUME DropControls
      PROVE  DataInv'
  <2>1. \A d \in Callers : call'[d] = "ok" => call[d] = "ok"
    BY <1>6 DEF DropControls
  <2> QED
    BY <1>6, <2>1, QuietStep DEF DropControls
<1>7. ASSUME TakeInbound
      PROVE  DataInv'
  <2>1. Processed(Head(inbound)) \in Seq(Step)
    BY <1>7, ProcessedType DEF TakeInbound, TypeOK
  <2>2. script' = Processed(Head(inbound)) \o script
    BY <1>7, <2>1 DEF TakeInbound
  <2> QED
    BY <1>7, <2>2, InboundStep DEF TakeInbound, Unparked, callerVars
<1>8. ASSUME Return
      PROVE  DataInv'
  <2>1. \A d \in Callers : call'[d] = "ok" => call[d] = "ok"
    BY <1>8, RealtimeAssumption DEF Return, Ended, Dropped
  <2>2. \A k \in DOMAIN accepted : accepted[k].kind = "close" => accepted[k].by \in Callers
    BY CloseCallers
  <2> QED
    BY <1>8, <2>1, <2>2, StopStep DEF Return, Ended
<1>9. ASSUME ObserveAbort
      PROVE  DataInv'
  <2>1. \A k \in DOMAIN accepted : accepted[k].kind = "close" => accepted[k].by \in Callers
    BY CloseCallers
  <2>2. \A k \in DOMAIN accepted : accepted[k].kind = "close" /\ call'[accepted[k].by] = "ok" =>
          call[accepted[k].by] = "ok"
    BY <1>9, <2>1, RealtimeAssumption DEF ObserveAbort, Ended, Dropped, CallInv
  <2>3. /\ script' = <<>> /\ ~running' /\ UNCHANGED <<wire, accepted, arrived, inbound>>
        /\ log' \in {log, Append(log, Closed)}
    BY <1>9 DEF ObserveAbort, Ended
  <2> QED
    BY <2>2, <2>3, StopStep
<1>10. ASSUME NEW ok \in BOOLEAN, NEW end \in BOOLEAN, Arrive(ok, end)
       PROVE  DataInv'
  <2> DEFINE frame == [n |-> arrived + 1, ok |-> ok, end |-> end,
                       seen |-> {wire[k] : k \in DOMAIN wire}]
  <2>1. {wire[k] : k \in DOMAIN wire} \in SUBSET Nat
    BY DEF TypeOK
  <2>2. frame \in Frame /\ frame.n = arrived + 1 /\ \A id \in frame.seen : OnWire(id)
    BY <2>1 DEF Frame, TypeOK, OnWire
  <2>3. inbound' = Append(inbound, frame)
    BY <1>10 DEF Arrive
  <2> HIDE DEF frame
  <2> QED
    BY <1>10, <2>2, <2>3, ArriveStep DEF Arrive, callerVars
<1>11. ASSUME Receive \/ RefuseMarkers \/ DropReceiver \/ \E who \in {"events", "transport"} : Stall(who)
       PROVE  DataInv'
  <2>1. UNCHANGED <<outbound, script, running, inbound, arrived, log, wire, accepted, call>>
    BY <1>11 DEF Receive, RefuseMarkers, DropReceiver, Stall, callerVars
  <2> QED
    BY <2>1, QuietStep
<1> QED
  BY <1>1, <1>2, <1>3, <1>4, <1>5, <1>6, <1>7, <1>8, <1>9, <1>10, <1>11, TakeCommandStep, ExecuteStep
     DEF Next, Driver

-----------------------------------------------------------------------------
(* The results.                                                            *)

\* A session keeps its invariant.
THEOREM RealtimeInvariant == Spec => []RealtimeInv
<1>1. ASSUME RealtimeInv, Next
      PROVE  RealtimeInv'
  BY <1>1, TypeStep, CallStep, DataStep DEF RealtimeInv, DataInv
<1>2. ASSUME RealtimeInv, UNCHANGED vars
      PROVE  RealtimeInv'
  <2>1. UNCHANGED <<outbound, script, running, inbound, arrived, log, wire, accepted, call>>
    BY <1>2 DEF vars
  <2>2. DataInv'
    BY <1>2, <2>1, QuietStep DEF RealtimeInv
  <2>3. TypeOK'
    BY <1>2 DEF RealtimeInv, TypeOK, vars
  <2>4. CallInv'
    BY <1>2 DEF RealtimeInv, CallInv, vars
  <2> QED
    BY <2>2, <2>3, <2>4 DEF RealtimeInv
<1> QED
  BY <1>1, <1>2, InitInv, PTL DEF Spec

\* Callers, channels, driver and host keep their types.
THEOREM RealtimeTypeOK == Spec => []TypeOK
<1>1. RealtimeInv => TypeOK
  BY DEF RealtimeInv
<1> QED
  BY <1>1, RealtimeInvariant, PTL

\* A fence's marker divides the events: what was ready comes before it, what the
\* provider answers to the input after it.
THEOREM RealtimeFences == Spec => []FenceOrder
<1>1. RealtimeInv => FenceOrder
  BY DEF RealtimeInv, DataInv
<1> QED
  BY <1>1, RealtimeInvariant, PTL

\* A close that succeeds was preceded on the socket by all accepted before it.
THEOREM RealtimeCloses == Spec => []CloseSendsTheQueue
<1>1. RealtimeInv => CloseSendsTheQueue
  BY DEF RealtimeInv, DataInv
<1> QED
  BY <1>1, RealtimeInvariant, PTL
=============================================================================
