--------------------------- MODULE MCConnections ---------------------------
(* Small instances of Connections. *)
EXTENDS Connections

(* What follows a lost race or a stale hang-up is not explored where       *)
(* overlapping accesses are; nearly every property is stated up to it.     *)
OnCourse == ~Astray
=============================================================================
