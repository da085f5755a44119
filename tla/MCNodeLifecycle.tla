--------------------------- MODULE MCNodeLifecycle ---------------------------
(***************************************************************************)
(* One node, of either class.                                              *)
(***************************************************************************)
EXTENDS NodeLifecycle
=============================================================================
