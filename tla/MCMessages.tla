----------------------------- MODULE MCMessages -----------------------------
(* Messages on two servers: values for the constants that are functions.      *)
EXTENDS Messages

CONSTANTS n1, n2, c1, c2, c3

TwoAndOne == [c \in Client |-> IF c = c3 THEN n2 ELSE n1]

TwoEach == [c \in Client |-> 2]
TwoAndOneAsk == [c \in Client |-> IF c = c3 THEN 1 ELSE 2]

SpeakerAndGuest ==
    [c \in Client |-> IF c = c1 THEN {"join", "say", "shout"} ELSE {"join", "leave"}]
TalkerAndOthers ==
    [c \in Client |-> CASE c = c1 -> {"join", "say", "tell"}
                        [] c = c2 -> {"hang up"}
                        [] c = c3 -> {"join"}]
Guests == [c \in Client |-> {"join", "leave"}]
=============================================================================
