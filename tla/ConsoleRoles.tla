---------------------------- MODULE ConsoleRoles ----------------------------
\* The roles of an operator and the roles each kind of procedure admits.  A
\* procedure reads the role of the request's context, resolved for that request.

AdminProcedure == {"admin"}
ComplianceProcedure == {"admin", "compliance_officer"}
ComplianceOnlyProcedure == {"compliance_officer"}
TreasuryProcedure == {"admin", "treasury_operator"}
ComplianceOrTreasuryProcedure == {"admin", "compliance_officer", "treasury_operator"}
AuditorProcedure == {"admin", "compliance_officer", "treasury_operator", "auditor"}

AssuranceVerifierProcedure == {"admin", "auditor"}
ProviderContactProcedure == {"provider_contact"}
CbnLiaisonProcedure == {"cbn_liaison"}

OperatorRole == AuditorProcedure \cup ProviderContactProcedure \cup CbnLiaisonProcedure
=============================================================================
