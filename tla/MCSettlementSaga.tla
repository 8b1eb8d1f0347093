--------------------------- MODULE MCSettlementSaga ---------------------------
(***************************************************************************)
(* Instances of SettlementSaga for TLC.                                    *)
(***************************************************************************)
EXTENDS SettlementSaga

\* One idempotency key, submitted as an on-ramp and, with a changed payload, as an
\* off-ramp.
OneKey == {"k1"}
BothDirections ==
  {[key |-> "k1", intent |-> "i1", digest |-> "d1", direction |-> "onramp"],
   [key |-> "k1", intent |-> "i1", digest |-> "d2", direction |-> "offramp"]}

OneTenant == [k \in Keys |-> "t1"]
AnyUpdate == SUBSET References
=============================================================================
