------------------------------ MODULE MCCosts -------------------------------
(* Two runners with runs of a declared and of an undeclared name open at     *)
(* once, and a ring that keeps two runs of each.                             *)
EXTENDS Costs

\* Runners are told apart by nothing but what they do.
Symmetry == Permutations(Runners)

MCAlphabet == <<"other", "score", "send">>
\* Size classes of two and of four, and what is larger; objects of each, that of four
\* as large as the band's edge.  Edges are one past the classes; 9 is +Inf.
MCBoundaries == <<1, 3, 5, 9>>
MCBands == <<4>>
MCProgram == <<[objects |-> <<2, 7>>, GCCycles |-> 0, used |-> 1, gc |-> 0],
               [objects |-> <<4>>, GCCycles |-> 1, used |-> 1, gc |-> 1]>>
Tracked == [keepsSizes |-> TRUE, measured |-> FALSE,
            under |-> {"score", "send"}, runs |-> 4]
Measured == [keepsSizes |-> FALSE, measured |-> TRUE,
             under |-> {"score"}, runs |-> 3]
MCModes == {Tracked, Measured}
MCMeasured == {Measured}
=============================================================================
