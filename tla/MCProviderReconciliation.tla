---------------------- MODULE MCProviderReconciliation ----------------------
\* One payment, sent twice to a process that may restart in between, the second
\* time perhaps with another payload.
EXTENDS ProviderReconciliation

CONSTANTS c1, c2, w1, b1

OneKey == {"k1"}
TwoDigests == {"d1", "d2"}
OneProcess == {"p1"}
EitherPayload == {[process |-> "p1", key |-> "k1", digest |-> d] : d \in TwoDigests}
OnePayload == {[process |-> "p1", key |-> "k1", digest |-> "d1"]}
TwoCalls == {c1, c2}
OneCall == {c1}
OneWorker == {w1}
OneBatch == {b1}
NoBatch == {}
=============================================================================
