------------------------------- MODULE MCLlq -------------------------------
(* A small instance of Llq: the Rx thread adds, two application threads    *)
(* receive.                                                                *)
EXTENDS Llq
=============================================================================
