------------------------------- MODULE MCFlow -------------------------------
(***************************************************************************)
(* Flow for TLC's safety run, in three scenarios with the same constants.  *)
(* The constraint is their union: a state outside all three is checked but *)
(* not explored.  One scenario may turn into another.                      *)
(***************************************************************************)
EXTENDS Flow

CONSTANTS
    MaxAcks,    \* bound: packets that B spends on acknowledging a burst
    Burst,      \* A transmits this many packets before the first arrives
    MaxBoth     \* bound: data packets of A when both ends send

FromA == Cardinality(DataSent(A))

(* The most in flight at once.  B's retransmission timer is left out, as B *)
(* has no data in flight.                                                  *)
InBurst ==
    /\ DataSent(B) = {} /\ active[B] /\ txseq[B] <= MaxAcks + 1
    /\ linkstat[B] = "LinkUp"
    /\ FromA <= Burst /\ (rxseq[B] > 0 => txseq[A] > Burst)

(* A packet and its acknowledgment in turn, and old ones again at any time *)
(* until the numbers on the wire have come round.                          *)
InTurn ==
    /\ DataSent(B) = {} /\ active[B] /\ missed[A] = {}
    /\ \A p \in net[B] : p.ackseq = (p.seq - 1) % SeqMod
    /\ \A p \in net[A] : p.ackseq = p.seq % SeqMod

(* Data and acknowledgments in both directions; B may stop. *)
BothWays == FromA <= MaxBoth

(* A link that has gone down does nothing in Flow that a stalled one does  *)
(* not: only the layers above read linkstat.                               *)
Scenarios ==
    /\ \A e \in Endpoint : active[e] => linkstat[e] # "LinkDown"
    /\ InBurst \/ InTurn \/ BothWays
=============================================================================
