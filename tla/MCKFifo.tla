------------------------------ MODULE MCKFifo ------------------------------
(* A ring of four bytes with counters of three bits. *)
EXTENDS KFifo
=============================================================================
