-------------------------- MODULE MCRequestExecutor --------------------------
(* A small instance of RequestExecutor for TLC.                            *)
EXTENDS RequestExecutor

CONSTANTS c1, c2, c3, g1, g2, p1, l1, l2

Routes == {<<>>, <<c1>>, <<c1, c2, c3>>, <<g1, g2>>, <<p1>>}

\* Every class and route, with no trigger, one, or all of them.
ReplayRequests ==
    {q \in [route : Routes, class : Classes, triggers : {{}, {"network"}, Triggers},
            stream : BOOLEAN, attachments : {0, 1}, keys : {{}, {c2}, {g2}}, timeout : {1}] :
        q.route = <<c1, c2, c3>> \/ g2 \notin q.keys}

\* Two files in each attempt, on one connection or two.
LeaseRequests ==
    {q \in [route : {<<l1>>, <<l1, l2>>}, class : {"plain"}, triggers : {Triggers}, stream : BOOLEAN,
            attachments : {2}, keys : {{l2}}, timeout : {1, None}] :
        q.stream \/ q.timeout # None}

\* Timeouts that failover follows, on a route whose head keeps files for one response.
SilentRequests ==
    [route : {<<l1, c2, c3>>, <<g1, g2>>}, class : {"plain", "stateful"}, triggers : {{"network"}},
     stream : BOOLEAN, attachments : {1}, keys : {{c2}}, timeout : {1}]

AllRequests == ReplayRequests \cup LeaseRequests \cup SilentRequests
=============================================================================
