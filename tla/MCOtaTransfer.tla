---------------------------- MODULE MCOtaTransfer ----------------------------
(***************************************************************************)
(* Two nodes, updated one after the other.                                  *)
(***************************************************************************)
EXTENDS OtaTransfer

CONSTANTS n1, n2

\* Both nodes in turn, with answers in time; one node that is reset, or a
\* router that is started again with a shorter image; the same with late
\* answers and a second image that is not the node's.
Image(chunks, own) == [chunks |-> chunks, own |-> own]

MCSetting ==
  {[order |-> <<n1, n2>>, late |-> FALSE, faults |-> 0, images |-> <<Image(3, TRUE)>>],
   [order |-> <<n1>>, late |-> FALSE, faults |-> 1,
    images |-> <<Image(3, TRUE), Image(2, TRUE)>>],
   [order |-> <<n1>>, late |-> TRUE, faults |-> 1,
    images |-> <<Image(2, TRUE), Image(1, FALSE)>>]}
=============================================================================
