---------------------------- MODULE MCFabricQueue ----------------------------
\* Two workers of one process share its admission slots.
EXTENDS FabricQueue, TLC

CONSTANTS i1, i2, w1, w2, p1

OneItem == {i1}
TwoItems == {i1, i2}
OneWorker == {w1}
TwoWorkers == {w1, w2}
AloneInProcess == (w1 :> p1)
OneProcess == {p1}
SameProcess == (w1 :> p1) @@ (w2 :> p1)
=============================================================================
