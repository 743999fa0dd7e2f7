------------------------------ MODULE MCRecent ------------------------------
(* A window of four slots that turns over more than twice.                   *)
EXTENDS Recent
=============================================================================
