------------------------------ MODULE MCFibers ------------------------------
(* Three fibers, forked by any fiber running at the time.                    *)
EXTENDS Fibers
=============================================================================
