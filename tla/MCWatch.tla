------------------------------ MODULE MCWatch ------------------------------
(* Two fibers and the goroutine that closes the runtime.  One fiber opens a  *)
(* span and ends it; the other does the same, or lives and dies.              *)
EXTENDS Watch

CONSTANTS f1, f2, main

Event(kind, id) == [Kind |-> kind, SpanID |-> id, ParentID |-> 0,
                    Timestamp |-> 0, Duration |-> 0, Status |-> "success", Number |-> 0]
Span(id) == <<Event("started", id), Event("ended", id)>>
Life == <<Event("fiber_started", 0), Event("fiber_completed", 0)>>

MCScripts == {f1 :> Span(1) @@ f2 :> other @@ main :> <<Event("closed", 0)>> :
                 other \in {Span(2), Life}}
=============================================================================
