----------------------------- MODULE MCReports -----------------------------
(* Small instances of Reports: eight numbers, a day of three minutes. *)
EXTENDS Reports, TLC
MCArmings == {[model |-> "ARMTIME", start |-> 2, end |-> 0]}
MCStarts == {-2, 2}
MCSymmetry == Permutations(Threads)
=============================================================================
