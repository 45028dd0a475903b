---------------------------- MODULE MCDecoupling ----------------------------
(***************************************************************************)
(* Delays below, at, between and at multiples of the time step, up to a    *)
(* ring buffer of four entries, over more than two rounds of the longest.  *)
(***************************************************************************)
EXTENDS Decoupling

MCDelays == {0, 2, 3, 4, 6, 7, 9, 12}
=============================================================================
