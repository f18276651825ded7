-------------------------------- MODULE MCKey --------------------------------
(***************************************************************************)
(* KeyExchange for TLC: a Diffie-Hellman exchange and a checksum exchange  *)
(* from the first host to the second.                                      *)
(***************************************************************************)
EXTENDS KeyExchange

CONSTANTS a, b, p, q

MCHome == [i \in Attempt |-> a]
MCAt == [i \in Attempt |-> b]
MCIdr == [i \in Attempt |-> b]
MCMaxChan == [h \in Host |-> IF h = a THEN 2 ELSE 1]
MCMethod == [i \in Attempt |-> IF i = p THEN "AES" ELSE "CHK"]
=============================================================================
