----------------------------- MODULE AtomicConfig -----------------------------
(***************************************************************************)
(* What the configuration transactions of ClientConfigManager promise,     *)
(* seen through the connection of every account of every directory: each   *)
(* request takes effect at one instant, on the value the directory has at  *)
(* that instant, or it has no effect at all.                               *)
(***************************************************************************)
CONSTANTS Tasks, Dirs, Names, Conns, None, Requests,
          DefaultConn   \* DefaultConn[n]: the connection of n's definition, or None

VARIABLES conns,    \* conns[d][n]: the connection of account n in d, or None
          pending   \* pending[t]: the request of t that has not taken effect

vars == <<conns, pending>>

\* What a request does to the accounts of one directory.
Effect(r, accounts) ==
    [n \in Names |->
        IF n # r.name THEN accounts[n]
        ELSE CASE r.kind \in {"add", "protocol"} -> r.conn
               [] r.kind = "remove"              -> None
               [] r.kind = "restore"             -> DefaultConn[n]
               [] OTHER                          -> accounts[n]]

Init ==
    /\ conns = [d \in Dirs |-> DefaultConn]
    /\ pending = [t \in Tasks |-> None]

Submit(t, r) ==
    /\ pending[t] = None
    /\ pending' = [pending EXCEPT ![t] = r]
    /\ UNCHANGED conns

TakeEffect(t, d) ==
    /\ pending[t] # None
    /\ conns' = [conns EXCEPT ![d] = Effect(pending[t], conns[d])]
    /\ pending' = [pending EXCEPT ![t] = None]

\* Errors, cancellations and crashes.
GiveUp(S) ==
    /\ pending' = [t \in Tasks |-> IF t \in S THEN None ELSE pending[t]]
    /\ UNCHANGED conns

Next ==
    \/ \E t \in Tasks, r \in Requests : Submit(t, r)
    \/ \E t \in Tasks, d \in Dirs : TakeEffect(t, d)
    \/ \E S \in SUBSET Tasks : GiveUp(S)

Spec == Init /\ [][Next]_vars
=============================================================================
