-------------------------- MODULE MCRealtimeDriver --------------------------
(***************************************************************************)
(* Small instances of RealtimeDriver for TLC.  A behaviour plays one       *)
(* scenario:                                                               *)
(*   fences   callers send inputs while the    provider answers them and  *)
(*            hangs up; the host reads on or drops its receiver;           *)
(*   closing  two callers send, close and abort, anybody may stall, and    *)
(*            the provider sends at most one frame.                        *)
(***************************************************************************)
EXTENDS RealtimeDriver

CONSTANTS c1, c2, Scenarios

VARIABLE scenario

FrameBound == [fences |-> MaxFrames, closing |-> 1]
InputBound == [fences |-> MaxInputs, closing |-> 1]

Bounds ==
    /\ arrived' <= FrameBound[scenario]
    /\ Cardinality(Inputs(accepted')) <= InputBound[scenario]
    /\ scenario = "fences" =>
          /\ stalled' = {}
          /\ \A c \in Callers : call'[c] \in {"idle", "failed"}
    /\ scenario = "closing" => host' # "gone" \/ host = "wrong"

MCInit == Init /\ scenario \in Scenarios

MCNext == Next /\ Bounds /\ UNCHANGED scenario

MCSpec == MCInit /\ [][MCNext]_<<vars, scenario>> /\ Fairness
=============================================================================
