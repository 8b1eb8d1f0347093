-------------------------- MODULE MCUnknownReconciler --------------------------
(***************************************************************************)
(* Instances of UnknownReconciler for TLC.                                 *)
(***************************************************************************)
EXTENDS UnknownReconciler

OneKey == {"k1"}
BothDirections ==
  {[key |-> "k1", intent |-> "i1", digest |-> "d1", direction |-> d] : d \in Directions}
OneTenant == [k \in Keys |-> "t1"]
NoCorridor == [k \in Keys |-> ""]
TwoWorkers == {"w1", "w2"}
OneWorker == {"w1"}
AnyUpdate == SUBSET References
=============================================================================
