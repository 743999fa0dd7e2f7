------------------------------ MODULE MCFanout ------------------------------
(* A Fanout over a plain observer, a nil one, a buffer behind a filter, a    *)
(* filter over nothing, and a buffer that takes everything.                  *)
EXTENDS Fanout

CONSTANTS failure, success, nil

MCKinds == {failure, success}

MCGiven == << Observer(FALSE, MCKinds),
              nil,
              Filter(Observer(TRUE, MCKinds), {failure}),
              Filter(nil, {failure}),
              Observer(TRUE, MCKinds) >>
=============================================================================
