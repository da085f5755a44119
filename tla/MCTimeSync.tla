------------------------------ MODULE MCTimeSync ------------------------------
(***************************************************************************)
(* A second of 2 ms, with the limits and the widths scaled with it.         *)
(***************************************************************************)
EXTENDS TimeSync
=============================================================================
