--------------------------- MODULE MCDataChannel ---------------------------
(* Instances of DataChannel for TLC are given by the configurations. *)
EXTENDS DataChannel
=============================================================================
