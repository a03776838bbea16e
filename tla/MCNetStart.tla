----------------------------- MODULE MCNetStart -----------------------------
(* Small instances of NetStart. *)
EXTENDS NetStart
=============================================================================
