------------------------------ MODULE MCRootUart ------------------------------
(***************************************************************************)
(* Packets of every type, cut down: the body is the type, then what follows *)
(* it.  The fourth byte of a body is the one tested for DATA_TYPE_UART; both *)
(* commands end as the magic sequence begins.                               *)
(***************************************************************************)
EXTENDS RootUart

MCMixed == {<<5, 2, 1>>, <<5, 1, 22>>, <<12, 255, 255, 13>>, <<14, 1, 3>>,
            <<15, 0, 9>>, <<15, 1, 9>>, <<15, 2, 7>>}
=============================================================================
