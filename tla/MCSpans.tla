------------------------------ MODULE MCSpans -------------------------------
(* Three spans whose boundaries race, seen from the start or from mid-run.   *)
EXTENDS Spans
=============================================================================
