---------------------------- MODULE MCRegistry ----------------------------
(* Small instances of Registry. *)
EXTENDS Registry
=============================================================================
