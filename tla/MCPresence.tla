----------------------------- MODULE MCPresence -----------------------------
(* Presence on small clusters: values for the constants that are functions.   *)
EXTENDS Presence, TLC

CONSTANTS n1, n2, s1, u1, u2, bad

HomesApart    == [s \in Session |-> IF s = s1 THEN n1 ELSE n2]
HomesTogether == [s \in Session |-> n1]

OwnNames == [s \in Session |-> IF s = s1 THEN {u1, bad} ELSE {u2}]
OneShared == [s \in Session |-> IF s = s1 THEN {u1, u2} ELSE {u2, bad}]

AnyWorker == Permutations(Worker)
=============================================================================
