------------------------------ MODULE MCStream ------------------------------
(***************************************************************************)
(* Instances of Stream for TLC.  All bounds are constants of StreamTx and  *)
(* StreamRx, so the instances are the .cfg files.                          *)
(***************************************************************************)
EXTENDS Stream

=============================================================================
