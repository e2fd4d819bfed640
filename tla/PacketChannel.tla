--------------------------- MODULE PacketChannel ---------------------------
(* What a connection promises to those who send packets over it and to the   *)
(* one who reads: whole packets, once each, in the order in which their       *)
(* sending began; a packet over the limit ends the connection.  Writers that  *)
(* exclude each other can rely on that.  Others may tear the stream, and then *)
(* nothing is promised any more until there is a new connection.              *)
EXTENDS Naturals, Sequences

CONSTANTS Packet, Oversize, Garbage

VARIABLES exclusive,  \* the writers exclude each other
          sent,       \* packets whose sending began on this connection
          got,        \* what was read from it
          open,       \* it was not given up by the reader
          torn        \* frames were mixed up

vars == <<exclusive, sent, got, open, torn>>

Init == /\ exclusive \in BOOLEAN
        /\ sent = <<>> /\ got = <<>>
        /\ open = TRUE /\ torn = FALSE

MayTear == torn' = torn \/ (~exclusive /\ torn' = TRUE)

Submit(p) == /\ sent' = Append(sent, p)
             /\ MayTear
             /\ UNCHANGED <<exclusive, got, open>>

Tear == ~exclusive /\ torn' = TRUE /\ UNCHANGED <<exclusive, sent, got, open>>

Pending == open /\ ~torn /\ Len(got) < Len(sent)
NextUp == sent[Len(got) + 1]

Deliver == /\ Pending /\ NextUp \notin Oversize
           /\ got' = Append(got, NextUp)
           /\ UNCHANGED <<exclusive, sent, open, torn>>

Refuse == /\ Pending /\ NextUp \in Oversize
          /\ open' = FALSE
          /\ UNCHANGED <<exclusive, sent, got, torn>>

Misread == /\ torn /\ open
           /\ \/ open' = FALSE /\ UNCHANGED got
              \/ \E g \in Packet \cup {Garbage} : got' = Append(got, g) /\ UNCHANGED open
           /\ UNCHANGED <<exclusive, sent, torn>>

\* The link of two servers is set up again, perhaps in the middle of a frame.
Renew == /\ ~exclusive
         /\ sent' = <<>> /\ got' = <<>> /\ open' = TRUE
         /\ torn' \in BOOLEAN
         /\ UNCHANGED exclusive

Next == (\E p \in Packet : Submit(p)) \/ Tear \/ Deliver \/ Refuse \/ Misread \/ Renew

Safety == Init /\ [][Next]_vars
Spec == Safety /\ WF_vars(Deliver \/ Refuse)
=============================================================================
