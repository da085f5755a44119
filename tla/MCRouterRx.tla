------------------------------ MODULE MCRouterRx ------------------------------
(***************************************************************************)
(* Two devices; a window of eleven tokens, so that the shortest message fits *)
(* in it four times with room to spare, as it does in the code's 95.        *)
(***************************************************************************)
EXTENDS RouterRx

CONSTANTS d1, d2

MCPacket == {[type |-> "STATUS", from |-> d1, ota |-> TRUE],
             [type |-> "STATUS", from |-> d2, ota |-> TRUE],
             [type |-> "STATUS", from |-> d2, ota |-> FALSE],
             [type |-> "MOTION"], [type |-> "SUCCESS"]}
=============================================================================
