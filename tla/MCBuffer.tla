------------------------------ MODULE MCBuffer ------------------------------
(* Small instances of Buffer for TLC: the configurations differ in the       *)
(* policy, the capacity and the number of fibers.                            *)
EXTENDS Buffer
=============================================================================
