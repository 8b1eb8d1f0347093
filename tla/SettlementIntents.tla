-------------------------- MODULE SettlementIntents --------------------------
(***************************************************************************)
(* The settlement intents callers may submit.                              *)
(***************************************************************************)
CONSTANTS Keys,      \* idempotency keys, each owned by one tenant
          TenantOf,  \* [Keys -> tenants]
          Requests   \* intents that pass validateIntent: key, intent, digest, direction

Directions == {"onramp", "offramp"}

ASSUME RequestsAssumption ==
  \A r \in Requests : r.key \in Keys /\ r.direction \in Directions
=============================================================================
