------------------------------ MODULE MCOtaBoot ------------------------------
(***************************************************************************)
(* A small node: images of three pages, the slots laid out as in the code   *)
(* (golden image right below slot 1, the last golden page and the first     *)
(* slot pages in one chip sector).                                          *)
(***************************************************************************)
EXTENDS OtaBoot

CONSTANTS A, B, C

MCUuid == [i \in Image |-> IF i = C THEN 2 ELSE 1]
=============================================================================
