----------------------------- MODULE MCSagaStore -----------------------------
(***************************************************************************)
(* Instances of SagaStore, under any caller that obeys its contract.       *)
(***************************************************************************)
EXTENDS SagaStore

\* Two settlements of one tenant, one of them submitted in either direction.
TwoKeys == {"k1", "k2"}
TwoSettlements ==
  {[key |-> "k1", intent |-> "i1", digest |-> "d1", direction |-> d] : d \in Directions}
    \cup {[key |-> "k2", intent |-> "i2", digest |-> "d2", direction |-> "onramp"]}
OneTenant == [k \in Keys |-> "t1"]

\* The references a guard or a constraint looks at.
LookedAt == {{}, {"custody"}, {"pending"}, {"transfer"}}
=============================================================================
