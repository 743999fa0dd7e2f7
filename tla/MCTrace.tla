------------------------------ MODULE MCTrace -------------------------------
(* Short concurrent programs seen through windows that forget, or hold it all. *)
EXTENDS Trace

Scale(r, s, e, t) == [room |-> r, spans |-> s, said |-> e, ticks |-> t]
MCScales == {Scale(3, 3, 1, 1), Scale(4, 3, 1, 1), Scale(4, 2, 2, 1), Scale(6, 3, 0, 2)}
MCOutcomes == <<"failure", "none", "interrupted">>
=============================================================================
