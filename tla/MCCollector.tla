---------------------------- MODULE MCCollector -----------------------------
(* A collector over one declared name, with bounds given out of order and    *)
(* twice, and measurements at, between and past them.  Either few events of  *)
(* every sort arrive, or many of one label: 0.28 and 0.56 of 25 measurements *)
(* are the first shares of two decimals whose float64 product is past the    *)
(* whole number it stands for.                                               *)
EXTENDS Collector

Carrying(kind, status, operation, duration, delay) ==
    [Kind |-> kind, Status |-> status, Operation |-> operation,
     Duration |-> duration, Delay |-> delay]

MCDeclared == {"load", "other", ""}
MCBounds == <<5, 2, 5>>
MCDefault == <<1, 2, 5>>
MCShares == {<<0, 1>>, <<1, 100>>, <<28, 100>>, <<1, 2>>, <<56, 100>>, <<2, 3>>, <<3, 4>>,
             <<9, 10>>, <<99, 100>>, <<1, 1>>, <<2, 1>>}

\* Names of every sort an event can carry, in one kind and one status.
MCNames == {Carrying("span_ended", "success", name, 0, 0) :
              name \in {"load", "save", "send", "drop", ""}}
Loading(values) == {Carrying("span_ended", "success", "load", d, 0) : d \in values}
\* One label measured, the names, and another kind with a delay.
Sundry == Loading({1, 2, 3, 5, 7}) \cup MCNames
            \cup {Carrying("retry", "failure", "load", 0, 3)}
MCLoads == {[events |-> Sundry, most |-> 5], [events |-> Loading({1, 2, 4, 7}), most |-> 25]}
=============================================================================
