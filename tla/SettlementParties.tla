-------------------------- MODULE SettlementParties --------------------------
(***************************************************************************)
(* The authorities a settlement talks to, as the coordinator's interfaces  *)
(* use them: the TigerBeetle ledger, the fiat rail, the custody provider   *)
(* with its chain, and the consortium attestor.                            *)
(*                                                                         *)
(* A command whose caller stops waiting stays on the wire and may take     *)
(* effect at any later time, or never.  A provider that answers "failed,   *)
(* retryable without effect" has promised that the command has no effect   *)
(* and never will: its state is "rejected".                                *)
(***************************************************************************)
EXTENDS Naturals, SettlementIntents

VARIABLES ledger,       \* [Keys -> {"none", "pending", "posted", "voided"}]
          fiat,         \* [Keys -> {"none", "settled", "rejected"}]
          custody,      \* [Keys -> {"none", "submitted", "final", "rejected"}]
          attested,     \* [Keys -> BOOLEAN]
          wire,         \* commands abandoned by their caller, not yet applied
          issued        \* how often each money-moving command was sent

partyVars == <<ledger, fiat, custody, attested, wire, issued>>

LedgerCommands == {"prepare", "commit", "void"}
MoneyCommands  == {"fiat", "custody"}
Commands       == LedgerCommands \cup MoneyCommands \cup {"attest"}

PartiesTypeOK ==
  /\ ledger \in [Keys -> {"none", "pending", "posted", "voided"}]
  /\ fiat \in [Keys -> {"none", "settled", "rejected"}]
  /\ custody \in [Keys -> {"none", "submitted", "final", "rejected"}]
  /\ attested \in [Keys -> BOOLEAN]
  /\ wire \subseteq Keys \X Commands
  /\ issued \in [Keys -> [MoneyCommands -> Nat]]

PartiesInit ==
  /\ ledger = [k \in Keys |-> "none"]
  /\ fiat = [k \in Keys |-> "none"]
  /\ custody = [k \in Keys |-> "none"]
  /\ attested = [k \in Keys |-> FALSE]
  /\ wire = {}
  /\ issued = [k \in Keys |-> [e \in MoneyCommands |-> 0]]

-----------------------------------------------------------------------------
(* The ledger. Operation IDs are deterministic, so a repeated command finds *)
(* its transfer and succeeds without a second one.                          *)

LedgerAfter(state, command) ==
  CASE command = "prepare" /\ state = "none"    -> "pending"
    [] command = "commit"  /\ state = "pending" -> "posted"
    [] command = "void"    /\ state = "pending" -> "voided"
    [] OTHER                                    -> state

LedgerAccepts(state, command) ==
  CASE command = "prepare" -> TRUE
    [] command = "commit"  -> state \in {"pending", "posted"}
    [] command = "void"    -> state \in {"pending", "voided"}

ApplyLedger(k, command) ==
  /\ ledger' = [ledger EXCEPT ![k] = LedgerAfter(@, command)]
  /\ UNCHANGED <<fiat, custody, attested>>

ApplyFiat(k, answer) ==
  /\ fiat' = [fiat EXCEPT ![k] = IF @ = "none" THEN answer ELSE @]
  /\ UNCHANGED <<ledger, custody, attested>>

ApplyCustody(k, answer) ==
  /\ custody' = [custody EXCEPT ![k] = IF @ = "none" THEN answer ELSE @]
  /\ UNCHANGED <<ledger, fiat, attested>>

ApplyAttest(k) ==
  /\ attested' = [attested EXCEPT ![k] = TRUE]
  /\ UNCHANGED <<ledger, fiat, custody>>

Count(k, command) ==
  issued' = IF command \in MoneyCommands THEN [issued EXCEPT ![k][command] = @ + 1]
                                         ELSE issued

\* The caller gives up on a command; the authority may still receive it.
Abandon(k, command) ==
  /\ wire' = wire \cup {<<k, command>>}
  /\ Count(k, command)
  /\ UNCHANGED <<ledger, fiat, custody, attested>>

\* An abandoned command reaches its authority.
Land(k, command) ==
  /\ <<k, command>> \in wire
  /\ wire' = wire \ {<<k, command>>}
  /\ \/ command \in LedgerCommands /\ ApplyLedger(k, command)
     \/ command = "fiat" /\ \E answer \in {"settled", "rejected"} : ApplyFiat(k, answer)
     \/ command = "custody" /\ \E answer \in {"submitted", "rejected"} : ApplyCustody(k, answer)
     \/ command = "attest" /\ ApplyAttest(k)
  /\ UNCHANGED issued

\* The chain finalises a submitted custody transfer.
Finalise(k) ==
  /\ custody[k] = "submitted"
  /\ custody' = [custody EXCEPT ![k] = "final"]
  /\ UNCHANGED <<ledger, fiat, attested, wire, issued>>

PartiesNext == \E k \in Keys : Finalise(k) \/ \E command \in Commands : Land(k, command)
=============================================================================
