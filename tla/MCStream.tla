------------------------------ MODULE MCStream ------------------------------
(* Two writers of one connection: values for the constants that are functions. *)
EXTENDS Stream

CONSTANTS v, w, p1, p2, p3, p4

\* p3 is the longest payload that is read, p4 has MAX_PAYLOAD_SIZE.
Sizes == [p \in Packet |-> CASE p = p1 -> 1 [] p = p2 -> 1 [] p = p3 -> MaxLen - 1 [] p = p4 -> MaxLen]

TwoAndOne == {[x \in Writer |-> IF x = v THEN <<p1, p3>> ELSE <<p2>>],
              [x \in Writer |-> IF x = v THEN <<p4>> ELSE <<p2>>]}
=============================================================================
