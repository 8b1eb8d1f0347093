---------------------------- MODULE Integrations ----------------------------
\* Provider integrations: registering a connection, pointing it at a deployment
\* secret and an endpoint, probing the endpoint, activating and suspending it.
\* The activation handler reads the connection, probes the provider with no
\* transaction open, and decides in a transaction of its own on the probe's
\* outcome; two administrators may do so at once.
EXTENDS Naturals, Sequences

CONSTANTS Connections, Tabs,     \* connections; console tabs that can activate
          References, Endpoints, \* what an operator may type in the two fields
          SecretNames,           \* references shaped like a deployment secret name
          PresentSecrets,        \* secrets this deployment holds
          ApprovedEndpoints,     \* https endpoints on an allow-listed DNS host
          NoValue, MaxTrail

ASSUME IntegrationAssumption ==
  /\ SecretNames \subseteq References /\ ApprovedEndpoints \subseteq Endpoints
  /\ MaxTrail \in Nat /\ NoValue \notin SecretNames \cup ApprovedEndpoints \cup Nat

VARIABLES conn,    \* connection |-> [state, secret, endpoint, health]
          probe,   \* tab |-> NoValue or [conn, secret, endpoint, outcome]
          trail    \* connection |-> activity events, oldest first

integrationVars == <<conn, probe, trail>>

IntegrationState == {"none", "unconfigured", "credential_pending", "active", "failed", "suspended"}

\* What a probe reports: whether the provider answered and with which status.
Unreachable == [reachable |-> FALSE, status |-> NoValue]
Answered(s) == [reachable |-> TRUE, status |-> s]
Outcomes == {Unreachable} \cup {Answered(s) : s \in {200, 302, 401, 500}}

HealthCheckPassed(o) == o.reachable /\ o.status # NoValue /\ o.status >= 200 /\ o.status < 300

IntegrationInit ==
  /\ conn = [i \in Connections |-> [state |-> "none", secret |-> NoValue, endpoint |-> NoValue, health |-> NoValue]]
  /\ probe = [t \in Tabs |-> NoValue]
  /\ trail = [i \in Connections |-> <<>>]

\* recordActivity: the event is written by the transaction that makes the change.
Record(i, e) == /\ Len(trail[i]) < MaxTrail
                /\ trail' = [trail EXCEPT ![i] = Append(@, e)]

CreateIntegrationConnection(i) ==
  /\ conn[i].state = "none"
  /\ conn' = [conn EXCEPT ![i].state = "unconfigured"]
  /\ Record(i, [action |-> "created", state |-> "unconfigured", secret |-> NoValue, previous |-> NoValue])
  /\ UNCHANGED probe

IsSecretReference(r) == r \in SecretNames
NormaliseProviderEndpoint(e) == IF e \in ApprovedEndpoints THEN e ELSE NoValue

\* The audit entry names only the new reference.
ConfigureNoPrevious(i, r, e) ==
  /\ IsSecretReference(r) /\ NormaliseProviderEndpoint(e) # NoValue
  /\ conn[i].state \notin {"none", "active"}
  /\ conn' = [conn EXCEPT ![i] = [state |-> "credential_pending", secret |-> r,
                                  endpoint |-> NormaliseProviderEndpoint(e), health |-> NoValue]]
  /\ Record(i, [action |-> "configured", state |-> "credential_pending", secret |-> r, previous |-> NoValue])
  /\ UNCHANGED probe

ConfigureIntegrationCredential(i, r, e) ==
  /\ IsSecretReference(r) /\ NormaliseProviderEndpoint(e) # NoValue
  /\ conn[i].state \notin {"none", "active"}
  /\ conn' = [conn EXCEPT ![i] = [state |-> "credential_pending", secret |-> r,
                                  endpoint |-> NormaliseProviderEndpoint(e), health |-> NoValue]]
  /\ Record(i, [action |-> "configured", state |-> "credential_pending", secret |-> r, previous |-> conn[i].secret])
  /\ UNCHANGED probe

ResolveCredential(r) == IF r \in PresentSecrets THEN r ELSE NoValue

\* What probing an endpoint can report; a reference that names no secret of the
\* deployment is reported without contacting the provider.
ProbeProviderEndpoint(r) == IF ResolveCredential(r) = NoValue THEN {Unreachable} ELSE Outcomes

\* The handler reads the credential status and waits for the probe.
ActivateBegin(t, i) ==
  /\ probe[t] = NoValue
  /\ conn[i].secret # NoValue
  /\ \E o \in ProbeProviderEndpoint(conn[i].secret) :
       probe' = [probe EXCEPT ![t] = [conn |-> i, secret |-> conn[i].secret, endpoint |-> conn[i].endpoint, outcome |-> o]]
  /\ UNCHANGED <<conn, trail>>

ActivateDecide(t) ==
  /\ probe[t] # NoValue
  /\ LET i    == probe[t].conn
         next == IF HealthCheckPassed(probe[t].outcome) THEN "active" ELSE "failed" IN
       /\ conn[i].secret # NoValue
       /\ conn' = [conn EXCEPT ![i].state = next, ![i].health = probe[t]]
       /\ Record(i, [action |-> IF next = "active" THEN "activated" ELSE "activation_refused",
                     state |-> next, secret |-> NoValue, previous |-> NoValue])
  /\ probe' = [probe EXCEPT ![t] = NoValue]

\* The request dies between the probe and the decision.
ActivateLost(t) ==
  /\ probe[t] # NoValue
  /\ probe' = [probe EXCEPT ![t] = NoValue]
  /\ UNCHANGED <<conn, trail>>

Suspendable(s) == s \in {"active", "failed", "verification_pending"}

SuspendIntegrationConnection(i) ==
  /\ Suspendable(conn[i].state)
  /\ conn' = [conn EXCEPT ![i].state = "suspended"]
  /\ Record(i, [action |-> "suspended", state |-> "suspended", secret |-> NoValue, previous |-> NoValue])
  /\ UNCHANGED probe

IntegrationNext ==
  \/ \E i \in Connections : CreateIntegrationConnection(i) \/ SuspendIntegrationConnection(i)
  \/ \E i \in Connections, r \in References, e \in Endpoints : ConfigureIntegrationCredential(i, r, e)
  \/ \E t \in Tabs : \/ ActivateDecide(t) \/ ActivateLost(t)
                     \/ \E i \in Connections : ActivateBegin(t, i)

IntegrationSpec == IntegrationInit /\ [][IntegrationNext]_integrationVars

----------------------------------------------------------------------------
\* The administrator's console: the requests each component offers for the rows
\* listPostgresIntegrationCredentialStatus returns.
CredentialStatus == {i \in Connections : conn[i].state # "none"}
CanConfigureCredentials(role) == role = "admin"

IntegrationCredentialForm == {i \in CredentialStatus : conn[i].state # "active"}

IntegrationCredentialTable(role) ==
  {[request |-> IF conn[i].state = "active" THEN "suspend" ELSE "activate", id |-> i] :
     i \in {j \in CredentialStatus : /\ CanConfigureCredentials(role)
                                     /\ conn[j].state = "active" \/ conn[j].secret # NoValue}}

\* Newest first, at most MaxTrail entries.
CredentialAuditTrail(i) == [k \in 1..Len(trail[i]) |-> trail[i][Len(trail[i]) - k + 1]]

\* What an entry says happened: the reference it changed from and to.
DescribeEntry(e) ==
  IF e.action = "configured"
  THEN IF e.previous # NoValue THEN <<"changed", e.previous, e.secret>> ELSE <<"set", e.secret>>
  ELSE <<e.action>>

----------------------------------------------------------------------------
\* The connection row, the probes and the audit trail have their types.
IntegrationTypeOK ==
  /\ \A i \in Connections :
       /\ conn[i].state \in IntegrationState
       /\ conn[i].secret \in SecretNames \cup {NoValue}
       /\ conn[i].endpoint \in ApprovedEndpoints \cup {NoValue}
       /\ Len(trail[i]) <= MaxTrail
  /\ \A t \in Tabs : probe[t] # NoValue => probe[t].outcome \in Outcomes

\* An active connection carries the probe that activated it: the provider
\* answered 2xx to a secret this deployment holds, on an approved endpoint; a
\* failed one carries a probe that did not (activatePostgresIntegrationConnection).
ActiveRestsOnProbe ==
  \A i \in Connections :
    /\ conn[i].state = "active" =>
         /\ conn[i].health # NoValue
         /\ conn[i].health.outcome = Answered(200)
         /\ conn[i].health.secret \in PresentSecrets
         /\ conn[i].health.endpoint \in ApprovedEndpoints
    /\ conn[i].state = "failed" => conn[i].health.outcome # Answered(200)

\* The audit trail cannot drift from the row: its newest entry has the row's state,
\* the newest change of reference ends in the row's, and every change, read as the
\* console words it, starts in the reference that the change before it ended in.
TrailExplainsRow ==
  \A i \in Connections : trail[i] # <<>> =>
    LET audit   == CredentialAuditTrail(i)
        changes == {k \in DOMAIN audit : audit[k].action = "configured"}
        newestOf(k, S) == k \in S /\ \A j \in S : k <= j
        older(k) == {j \in changes : k < j}
    IN  /\ audit[1].state = conn[i].state
        /\ changes = {} => conn[i].secret = NoValue
        /\ \A k \in changes :
             /\ newestOf(k, changes) => audit[k].secret = conn[i].secret
             /\ older(k) = {} => DescribeEntry(audit[k]) = <<"set", audit[k].secret>>
             /\ \A j \in older(k) : newestOf(j, older(k)) =>
                  DescribeEntry(audit[k]) = <<"changed", audit[j].secret, audit[k].secret>>

\* Every request the console offers on current rows is one the server accepts:
\* a live connection is not offered for re-pointing, suspension is offered on
\* suspendable rows, a health check on rows with a reference.
CredentialOffersAccepted ==
  /\ \A i \in IntegrationCredentialForm : conn[i].state \notin {"none", "active"}
  /\ \A q \in IntegrationCredentialTable("admin") :
       IF q.request = "suspend" THEN Suspendable(conn[q.id].state) ELSE conn[q.id].secret # NoValue

\* Row, probe and audit trail of a connection agree, however two tabs configure,
\* activate and suspend it (postgres.ts, providerHealthCheck.ts).
IntegrationSafety ==
  /\ IntegrationTypeOK
  /\ ActiveRestsOnProbe
  /\ TrailExplainsRow
=============================================================================
