----------------------------- MODULE MCPeerLink -----------------------------
(* A pair of servers: values for the constants that are functions.            *)
EXTENDS PeerLink

CONSTANTS a, b

Pair == [n \in Server |-> IF n = a THEN b ELSE a]

Staggered == [n \in Server |-> IF n = a THEN 0 ELSE 1]   \* rounds 5 s apart
Together  == [n \in Server |-> 0]                        \* rounds at the same time

TurnsOrOneClash == {[rest |-> Staggered, faults |-> 1, dials |-> Unlimited],
                    [rest |-> Together,  faults |-> 0, dials |-> 3]}
Clashing == {[rest |-> Together, faults |-> 0, dials |-> Unlimited]}
=============================================================================
