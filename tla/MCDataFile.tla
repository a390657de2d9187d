----------------------------- MODULE MCDataFile -----------------------------
(* Small instances of DataFile, without symmetry for the refinement.        *)
EXTENDS DataFile
=============================================================================
