----------------------------- MODULE MCFileCache -----------------------------
(***************************************************************************)
(* Small instances of FileCache for TLC.  A behaviour plays one scenario:  *)
(*   repair   three requests race over one file the provider loses; r3 has *)
(*            no stable account scope;                                     *)
(*   aging    r1, with a deadline, and r2; files and entries expire;       *)
(*   locks    r4 and r5 upload the same two attachments;                   *)
(*   contents two readers of the content cache beside the file cache.      *)
(***************************************************************************)
EXTENDS ContentCache

CONSTANTS
    r1, r2, r3, r4, r5, a1, a2, k1, k2, Scenarios

VARIABLE scenario

\* Two contents that fit together, one that fits alone and one that does not.
MCSize == <<1, 1, 3, 4>>

Players == [repair |-> {r1, r2, r3}, aging |-> {r1, r2}, locks |-> {r4, r5}, contents |-> {}]
UploadBound == [repair |-> 4, aging |-> 2, locks |-> 2, contents |-> 0]
LossBound == [repair |-> 2, aging |-> 1, locks |-> 2, contents |-> 0]
TimeBound == [repair |-> 0, aging |-> MaxTime, locks |-> 0, contents |-> 0]

MCUses == [r \in Requests |-> IF r \in {r4, r5} THEN Attachments ELSE {a1}]

MCKeyOf ==
    [r \in Requests |-> [a \in Attachments |->
        IF r = r3 THEN None ELSE IF a = a1 THEN k1 ELSE k2]]

MCTimeout == [r \in Requests |-> IF r = r1 THEN 1 ELSE None]

Bounds ==
    /\ uploads' <= UploadBound[scenario]
    /\ now' <= TimeBound[scenario]
    /\ Cardinality(1 .. uploads' \ alive') <= LossBound[scenario]
    /\ \A r \in Requests \ Players[scenario] : phase'[r] = "idle"
    /\ scenario # "aging" =>
          /\ \A f \in FileIds : expiry'[f] = None
          /\ \A k \in Keys : cache'[k] # None => cache'[k].expires = None

MCInit == Init /\ ContentInit /\ scenario \in Scenarios

MCNext ==
    /\ \/ Next /\ Bounds /\ UNCHANGED contentVars
       \/ scenario = "contents" /\ ContentNext /\ UNCHANGED vars
    /\ UNCHANGED scenario

MCSpec == MCInit /\ [][MCNext]_<<vars, contentVars, scenario>> /\ Fairness
=============================================================================
