------------------------------- MODULE MCKernel -------------------------------
(***************************************************************************)
(* Two interchangeable timers and a queue of one event, so that one of them *)
(* finds it full.                                                           *)
(***************************************************************************)
EXTENDS Kernel

CONSTANTS t1, t2
=============================================================================
