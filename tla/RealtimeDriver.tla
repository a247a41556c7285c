--------------------------- MODULE RealtimeDriver ---------------------------
(***************************************************************************)
(* One realtime session (realtime/mod.rs): callers that share a cloneable  *)
(* RealtimeControl, the driver that pumps commands to the provider's       *)
(* socket and provider frames to the host, and the host that receives the  *)
(* events.  Two bounded channels and an abort signal connect them.         *)
(*                                                                         *)
(* Both channels are futures::channel::mpsc with a single Sender (external *)
(* code).  A sender is parked once its message fills the channel and it    *)
(* remembers at most one waker; poll_ready stores the poller's waker,      *)
(* try_send on a parked sender clears it, a receive unparks the sender and *)
(* wakes the stored waker only.  send().await also flushes: it returns     *)
(* when the sender is not parked.                                          *)
(***************************************************************************)
EXTENDS Naturals, Sequences, FiniteSets

CONSTANTS
    Callers,            \* tasks that hold a clone of the control
    None,
    OutboundCapacity,   \* RealtimeLimits.outbound_capacity
    EventCapacity,      \* RealtimeLimits.event_capacity
    FenceLimit,         \* MAX_REALTIME_INPUT_FENCE_FRAMES
    FrameCount,         \* frames one input encodes to
    Modes,              \* how the host receives: plain, ordered
    MaxInputs,          \* bound: inputs accepted
    MaxFrames           \* bound: frames the provider sends

VARIABLES
    open,       \* the outbound channel accepts commands
    outbound,   \* commands queued
    waker,      \* the caller the shared sender will wake
    call,       \* what each caller is doing in close or abort
    abortSlot,  \* the abort sender: armed, taken, or the caller whose request was sent
    script,     \* what the driver still does before its next select
    running,    \* the driver future exists
    drained,    \* frames drained for the current fence
    inbound,    \* provider frames ready to be read
    arrived,    \* number of frames the provider has sent
    host,       \* the event receiver: plain, ordered, wrong, gone
    log,        \* every event ever put on the event channel
    taken,      \* number of those the host has received
    wire,       \* the inputs whose frames went out on the socket, one entry per frame
    accepted,   \* every command ever accepted, in order
    disturbed,  \* callers of close whose waker somebody else erased
    stalled     \* who has stopped: the host's event loop, the transport

ASSUME RealtimeAssumption ==
    /\ None \notin Callers
    /\ {"armed", "taken", "host"} \cap Callers = {}
    /\ OutboundCapacity \in Nat
    /\ EventCapacity \in Nat
    /\ FenceLimit \in Nat
    /\ FrameCount \in Nat
    /\ Modes \subseteq {"plain", "ordered"}
    /\ MaxInputs \in Nat
    /\ MaxFrames \in Nat

callerVars == <<call, waker, disturbed>>
hostVars == <<host, taken>>
vars == <<open, outbound, waker, call, abortSlot, script, running, drained, inbound,
          arrived, host, log, taken, wire, accepted, disturbed, stalled>>

-----------------------------------------------------------------------------
(* Commands, instructions and events.                                      *)

Frames(id) == [kind |-> "frames", id |-> id]
Fenced(id) == [kind |-> "fenced", id |-> id]
Close(c) == [kind |-> "close", by |-> c]
Inputs(cmds) == {k \in DOMAIN cmds : cmds[k].kind \in {"frames", "fenced"}}

Provided(frame) == [kind |-> "frame", n |-> frame.n, seen |-> frame.seen]
InputSent(id) == [kind |-> "marker", id |-> id, ready |-> arrived]
Closed == [kind |-> "closed"]
Interrupted == [kind |-> "error"]

\* Commands, events, what the driver does next, and provider frames.
Command == [kind : {"frames", "fenced"}, id : Nat] \cup [kind : {"close"}, by : Callers]
Event == [kind : {"frame"}, n : Nat, seen : SUBSET Nat] \cup [kind : {"marker"}, id : Nat, ready : Nat]
         \cup [kind : {"closed", "error"}]
Step == [do : {"drain", "stop"}] \cup [do : {"send"}, id : Nat] \cup [do : {"emit"}, event : Event]
        \cup [do : {"close"}, by : Callers \cup {None}]
Frame == [n : Nat, ok : BOOLEAN, end : BOOLEAN, seen : SUBSET Nat]

DrainReady == <<[do |-> "drain"]>>
SendFrames(id) == [i \in 1 .. FrameCount |-> [do |-> "send", id |-> id]]
Emit(event) == <<[do |-> "emit", event |-> event]>>
CloseFor(c) == <<[do |-> "close", by |-> c]>>
Stop == <<[do |-> "stop"]>>
Fatal == Emit(Interrupted) \o Stop

EventsOpen == host \in {"plain", "ordered"}
EventsFull == Len(log) - taken = EventCapacity
OutboundFull == Len(outbound) = OutboundCapacity

\* Somebody holds the mutex around the shared sender.
Locked == \E c \in Callers : call[c] = "aborting"

Init ==
    /\ open = TRUE /\ outbound = <<>> /\ waker = None
    /\ call = [c \in Callers |-> "idle"]
    /\ abortSlot = "armed"
    /\ script = <<>> /\ running = TRUE /\ drained = 0
    /\ inbound = <<>> /\ arrived = 0
    /\ host \in Modes
    /\ log = <<>> /\ taken = 0 /\ wire = <<>> /\ accepted = <<>>
    /\ disturbed = {} /\ stalled = {}

-----------------------------------------------------------------------------
(* The control.                                                            *)

Enqueue(cmd) == outbound' = Append(outbound, cmd) /\ accepted' = Append(accepted, cmd)

\* Mutant: nobody is remembered, as after try_send.
Unregistered(w) == waker' = None /\ UNCHANGED disturbed

\* The shared sender is polled while it is parked; `w` is the new waker.
Polled(w) ==
    /\ waker' = w
    /\ disturbed' = disturbed \cup ({waker} \ {None, w})

\* send, send_with_fence, send_provider_frame: never wait.
Send(c, fenced) ==
    LET id == Cardinality(Inputs(accepted)) + 1
    IN  /\ call[c] = "idle" /\ ~Locked /\ open
        /\ \/ /\ OutboundFull
              /\ Polled(None)
              /\ UNCHANGED <<outbound, accepted>>
           \/ /\ ~OutboundFull /\ id <= MaxInputs
              /\ Enqueue(IF fenced THEN Fenced(id) ELSE Frames(id))
              /\ UNCHANGED <<waker, disturbed>>
        /\ UNCHANGED <<open, call, abortSlot, script, running, drained, inbound, arrived,
                       hostVars, log, wire, stalled>>

BeginClose(c) ==
    /\ call[c] = "idle"
    /\ call' = [call EXCEPT ![c] = "polling"]
    /\ UNCHANGED <<open, outbound, waker, abortSlot, script, running, drained, inbound, arrived,
                   hostVars, log, wire, accepted, disturbed, stalled>>

\* One poll of close's future, on its first run or after a wake.
PollClose(c) ==
    /\ call[c] = "polling" /\ ~Locked
    /\ \/ /\ ~open
          /\ call' = [call EXCEPT ![c] = "failed"]
          /\ UNCHANGED <<outbound, accepted, waker, disturbed>>
       \/ /\ open /\ OutboundFull
          /\ call' = [call EXCEPT ![c] = "parked"]
          /\ Polled(c)
          /\ UNCHANGED <<outbound, accepted>>
       \/ /\ open /\ ~OutboundFull
          /\ call' = [call EXCEPT ![c] = "waiting"]
          /\ Enqueue(Close(c))
          /\ UNCHANGED <<waker, disturbed>>
    /\ UNCHANGED <<open, abortSlot, script, running, drained, inbound, arrived,
                   hostVars, log, wire, stalled>>

\* abort: take the signal and close the channel, under the lock ...
BeginAbort(c) ==
    /\ call[c] = "idle" /\ ~Locked
    /\ IF abortSlot = "armed"
         THEN /\ abortSlot' = "taken" /\ open' = FALSE
              /\ call' = [call EXCEPT ![c] = "aborting"]
         ELSE /\ call' = [call EXCEPT ![c] = "failed"]
              /\ UNCHANGED <<abortSlot, open>>
    /\ UNCHANGED <<outbound, waker, script, running, drained, inbound, arrived,
                   hostVars, log, wire, accepted, disturbed, stalled>>

\* ... then signal the driver, which has been running all along.
SignalAbort(c) ==
    /\ call[c] = "aborting"
    /\ IF running
         THEN abortSlot' = c /\ call' = [call EXCEPT ![c] = "stopping"]
         ELSE call' = [call EXCEPT ![c] = "failed"] /\ UNCHANGED abortSlot
    /\ UNCHANGED <<open, outbound, waker, script, running, drained, inbound, arrived,
                   hostVars, log, wire, accepted, disturbed, stalled>>

\* The last clone of the control is dropped.
DropControls ==
    /\ open /\ \A c \in Callers : call[c] \in {"idle", "ok", "failed"}
    /\ open' = FALSE
    /\ call' = [c \in Callers |-> IF call[c] = "idle" THEN "failed" ELSE call[c]]
    /\ UNCHANGED <<outbound, waker, abortSlot, script, running, drained, inbound, arrived,
                   hostVars, log, wire, accepted, disturbed, stalled>>

-----------------------------------------------------------------------------
(* The driver.                                                             *)

\* Mutants: a fence that drains too late, or forgets its marker.
DrainedLate(cmd) == SendFrames(cmd.id) \o DrainReady \o Emit(InputSent(cmd.id))
Unmarked(cmd) == DrainReady \o SendFrames(cmd.id)

FencedScript(cmd) == DrainReady \o SendFrames(cmd.id) \o Emit(InputSent(cmd.id))

Script(cmd) ==
    CASE cmd.kind = "frames" -> SendFrames(cmd.id)
      [] cmd.kind = "fenced" -> FencedScript(cmd)
      [] cmd.kind = "close" -> CloseFor(cmd.by)

\* process_inbound: a frame that is too large, cannot be decoded or is the end
\* of the stream ends the driver after one last event.
Processed(frame) == IF frame.ok THEN Emit(Provided(frame)) ELSE Fatal

\* The driver is not parked on the event channel.
Unparked == running /\ (EventsFull => ~EventsOpen)

\* Receiving a command unparks the sender.
Woken == IF waker = None THEN call ELSE [call EXCEPT ![waker] = "polling"]

TakeCommand ==
    /\ Unparked /\ script = <<>>
    /\ \/ /\ outbound # <<>>
          /\ outbound' = Tail(outbound)
          /\ script' = Script(Head(outbound))
          /\ call' = Woken /\ waker' = None
       \/ /\ outbound = <<>> /\ ~open
          /\ script' = CloseFor(None)
          /\ UNCHANGED <<outbound, call, waker>>
    /\ drained' = 0
    /\ UNCHANGED <<open, abortSlot, running, inbound, arrived, hostVars, log, wire,
                   accepted, disturbed, stalled>>

TakeInbound ==
    /\ Unparked /\ script = <<>> /\ inbound # <<>>
    /\ inbound' = Tail(inbound)
    /\ script' = Processed(Head(inbound))
    /\ UNCHANGED <<open, outbound, callerVars, abortSlot, running, drained, arrived,
                   hostVars, log, wire, accepted, stalled>>

\* drain_ready_inbound: the frames ready now, at most FenceLimit of them.
Drain ==
    /\ IF inbound = <<>>
         THEN script' = Tail(script) /\ UNCHANGED <<inbound, drained>>
         ELSE /\ inbound' = Tail(inbound)
              /\ drained' = IF Head(inbound).end THEN drained ELSE drained + 1
              /\ script' = IF drained' > FenceLimit THEN Fatal
                                                    ELSE Processed(Head(inbound)) \o script
    /\ UNCHANGED <<log, wire, call>>

EmitEvent(event) ==
    /\ IF EventsOpen
         THEN log' = Append(log, event) /\ script' = Tail(script)
         ELSE script' = Stop /\ UNCHANGED log
    /\ UNCHANGED <<inbound, drained, wire, call>>

\* Mutant: a failed send is reported and the session goes on.
SendFrameRegardless(id) ==
    /\ "transport" \notin stalled
    /\ \/ wire' = Append(wire, id) /\ script' = Tail(script)
       \/ script' = Emit(Interrupted) \o Tail(script) /\ UNCHANGED wire
    /\ UNCHANGED <<inbound, drained, log, call>>

SendFrame(id) ==
    /\ "transport" \notin stalled
    /\ \/ wire' = Append(wire, id) /\ script' = Tail(script)
       \/ script' = Fatal /\ UNCHANGED wire
    /\ UNCHANGED <<inbound, drained, log, call>>

\* Close the socket and answer the caller of close, if there is one.
CloseSocket(c) ==
    LET answered(r) == IF c = None THEN call ELSE [call EXCEPT ![c] = r]
    IN  /\ "transport" \notin stalled
        /\ \/ call' = answered("ok") /\ script' = Emit(Closed) \o Stop
           \/ call' = answered("failed") /\ script' = Stop
        /\ UNCHANGED <<inbound, drained, log, wire>>

Execute ==
    LET step == Head(script)
    IN  /\ Unparked /\ script # <<>>
        /\ \/ step.do = "drain" /\ Drain
           \/ step.do = "emit" /\ EmitEvent(step.event)
           \/ step.do = "send" /\ SendFrame(step.id)
           \/ step.do = "close" /\ CloseSocket(step.by)
        /\ UNCHANGED <<open, outbound, waker, abortSlot, running, arrived, hostVars,
                       accepted, disturbed, stalled>>

\* The driver's end drops the command receiver: queued commands and their
\* answers go with it, and a parked sender is woken.
Dropped(answered) ==
    [c \in Callers |->
        IF c = answered THEN "ok"
        ELSE IF call[c] \in {"waiting", "stopping"} THEN "failed"
        ELSE IF c = waker THEN "polling" ELSE call[c]]

Ended(answered) ==
    /\ running' = FALSE /\ script' = <<>>
    /\ open' = FALSE /\ outbound' = <<>> /\ waker' = None
    /\ call' = Dropped(answered)
    /\ UNCHANGED <<abortSlot, drained, inbound, arrived, hostVars, wire, accepted, disturbed,
                   stalled>>

Return ==
    /\ Unparked /\ script # <<>> /\ Head(script).do = "stop"
    /\ Ended(None)
    /\ UNCHANGED log

\* Mutant: the signal is only looked at between two commands.
BetweenCommands == abortSlot \in Callers \cup {"host"} /\ script = <<>>

\* The abort signal has been sent.
Signalled == abortSlot \in Callers \cup {"host"}

\* select_biased in run: the pump is dropped wherever it waits.
ObserveAbort ==
    /\ running /\ Signalled
    /\ Ended(IF abortSlot \in Callers THEN abortSlot ELSE None)
    /\ log' = IF EventsOpen /\ ~EventsFull THEN Append(log, Closed) ELSE log

Driver == TakeCommand \/ TakeInbound \/ Execute \/ Return \/ ObserveAbort

-----------------------------------------------------------------------------
(* The host and the provider.                                              *)

\* RealtimeEvents::next, RealtimeOrderedEvents::next.
Receive ==
    /\ EventsOpen /\ taken < Len(log) /\ "events" \notin stalled
    /\ taken' = taken + 1
    /\ host' = IF host = "plain" /\ log[taken + 1].kind = "marker" THEN "wrong" ELSE host
    /\ UNCHANGED <<open, outbound, callerVars, abortSlot, script, running, drained, inbound,
                   arrived, log, wire, accepted, stalled>>

\* Mutant: only the receiver is closed.
RefuseQuietly ==
    /\ host = "wrong" /\ ~Locked
    /\ host' = "gone"
    /\ UNCHANGED <<open, abortSlot, outbound, callerVars, script, running, drained, inbound,
                   arrived, taken, log, wire, accepted, stalled>>

\* The rest of next on a marker: close the channel and signal the driver.
RefuseMarkers ==
    /\ host = "wrong" /\ ~Locked
    /\ host' = "gone" /\ open' = FALSE
    /\ abortSlot' = IF abortSlot # "armed" THEN abortSlot
                    ELSE IF running THEN "host" ELSE "taken"
    /\ UNCHANGED <<outbound, callerVars, script, running, drained, inbound, arrived, taken, log,
                   wire, accepted, stalled>>

DropReceiver ==
    /\ EventsOpen /\ host' = "gone"
    /\ UNCHANGED <<open, outbound, callerVars, abortSlot, script, running, drained, inbound,
                   arrived, taken, log, wire, accepted, stalled>>

\* A provider frame becomes readable; `seen` are the inputs it answers.
Arrive(ok, end) ==
    /\ running /\ arrived < MaxFrames
    /\ end => ~ok
    /\ inbound # <<>> => ~inbound[Len(inbound)].end
    /\ arrived' = arrived + 1
    /\ inbound' = Append(inbound, [n |-> arrived + 1, ok |-> ok, end |-> end,
                                   seen |-> {wire[k] : k \in DOMAIN wire}])
    /\ UNCHANGED <<open, outbound, callerVars, abortSlot, script, running, drained, hostVars,
                   log, wire, accepted, stalled>>

Stall(who) ==
    /\ who \notin stalled /\ stalled' = stalled \cup {who}
    /\ UNCHANGED <<open, outbound, callerVars, abortSlot, script, running, drained, inbound,
                   arrived, hostVars, log, wire, accepted>>

-----------------------------------------------------------------------------
Next ==
    \/ \E c \in Callers : \/ \E fenced \in BOOLEAN : Send(c, fenced)
                          \/ BeginClose(c) \/ PollClose(c) \/ BeginAbort(c) \/ SignalAbort(c)
    \/ DropControls
    \/ Driver
    \/ Receive \/ RefuseMarkers \/ DropReceiver
    \/ \E ok, end \in BOOLEAN : Arrive(ok, end)
    \/ \E who \in {"events", "transport"} : Stall(who)

\* The executor runs every task that was woken: the driver, a caller inside a
\* call, the host's event loop while it goes on.  Nothing makes callers call,
\* the provider answer, or a loop that has stopped resume.
Fairness ==
    /\ WF_vars(TakeCommand \/ TakeInbound \/ Execute \/ Return)
    /\ WF_vars(ObserveAbort)
    /\ \A c \in Callers : WF_vars(PollClose(c)) /\ WF_vars(SignalAbort(c))
    /\ WF_vars(Receive) /\ WF_vars(RefuseMarkers)

Spec == Init /\ [][Next]_vars /\ Fairness

-----------------------------------------------------------------------------
(* Properties.                                                             *)

\* Every variable has its type.
TypeOK ==
    /\ open \in BOOLEAN
    /\ outbound \in Seq(Command)
    /\ waker \in Callers \cup {None}
    /\ call \in [Callers -> {"idle", "polling", "parked", "waiting", "aborting", "stopping", "ok",
                             "failed"}]
    /\ abortSlot \in {"armed", "taken", "host"} \cup Callers
    /\ script \in Seq(Step)
    /\ running \in BOOLEAN
    /\ drained \in Nat
    /\ inbound \in Seq(Frame)
    /\ arrived \in Nat
    /\ host \in {"plain", "ordered", "wrong", "gone"}
    /\ log \in Seq(Event)
    /\ taken \in Nat
    /\ wire \in Seq(Nat)
    /\ accepted \in Seq(Command)
    /\ disturbed \subseteq Callers
    /\ stalled \subseteq {"events", "transport"}

\* send_with_fence: a marker comes after every event of a frame that was ready
\* when the driver took the input, and before every event the provider could
\* have sent because it saw the input.
FenceOrder ==
    /\ \A i \in DOMAIN log : log[i].kind = "marker" =>
          \A n \in 1 .. log[i].ready : \E j \in 1 .. i - 1 : log[j].kind = "frame" /\ log[j].n = n
    /\ \A j \in DOMAIN log : log[j].kind = "frame" =>
          \A k \in DOMAIN accepted :
             accepted[k].kind = "fenced" /\ accepted[k].id \in log[j].seen =>
                \E i \in 1 .. j - 1 : log[i].kind = "marker" /\ log[i].id = accepted[k].id

\* A successful close means that everything accepted before it was sent in full
\* ("Close the remote connection after already queued messages are sent"),
\* whoever aborted or fenced meanwhile.
CloseSendsTheQueue ==
    \A k \in DOMAIN accepted :
       accepted[k].kind = "close" /\ call[accepted[k].by] = "ok" =>
          \A i \in Inputs(accepted) : i < k =>
             Cardinality({w \in DOMAIN wire : wire[w] = accepted[i].id}) = FrameCount

\* abort returns although the host reads no events and the transport takes no
\* frames: "The driver polls this independently of provider/event backpressure".
AbortReturns == \A c \in Callers : call[c] = "aborting" ~> call[c] \in {"ok", "failed"}

Answered(id) == \E i \in DOMAIN log : log[i].kind = "marker" /\ log[i].id = id

\* While the host reads its events, every accepted fence is answered or the
\* driver ends: draining never makes driver and host wait for each other.
FencesAnswered ==
    \A id \in 1 .. MaxInputs :
       (\E k \in DOMAIN accepted : accepted[k] = Fenced(id))
          ~> (Answered(id) \/ ~running \/ stalled # {})

\* A host that receives a marker on the plain receiver gets no session that
\* goes on without it: the driver ends.
WrongReceiverEndsSession == host = "wrong" ~> ~running

Closing(c) == call[c] \in {"polling", "parked", "waiting"}

\* close returns, unless another user of the control polls the shared sender
\* while it waits for room.
UndisturbedCloseReturns ==
    \A c \in Callers : Closing(c) ~> (~Closing(c) \/ c \in disturbed \/ stalled # {})

\* close: "This waits for the driver to perform and acknowledge the close."
CloseReturns == \A c \in Callers : Closing(c) ~> (~Closing(c) \/ stalled # {})
=============================================================================
