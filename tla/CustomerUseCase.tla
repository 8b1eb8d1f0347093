--------------------------- MODULE CustomerUseCase ---------------------------
(***************************************************************************)
(* One enterprise customer: its record, its profile and use-case           *)
(* narrative, its declared destination counterparties, gate G1 decided on  *)
(* them (customerUseCase.ts), and the workspace that displays them.  The   *)
(* workspace is composed from several queries that run one after another   *)
(* outside any transaction, and its profile form keeps the values it was   *)
(* opened with.                                                            *)
(***************************************************************************)
EXTENDS ConsoleRoles, Naturals, FiniteSets

CONSTANTS
  Editors,           \* consoles open on the customer
  Narratives,        \* texts long enough to be sent
  NoNarrative,       \* no narrative on record, or none typed
  PackDocuments,     \* document types the evidence pack names
  MaxDestinations    \* bound: destination counterparties ever declared

ASSUME CustomerAssumption == NoNarrative \notin Narratives /\ MaxDestinations \in Nat \ {0}

VARIABLES
  customer,       \* the customers row exists
  narrative,      \* use_case_narrative
  destinations,   \* destination rows declared, and whether one has an invoice
  packDocuments,  \* document types with a kyc_documents row
  gateOne,        \* the newest G1 decision
  workspace,      \* console -> the composed read it displays or is composing
  typed           \* console -> the narrative in its profile form

customerVars == <<customer, narrative, destinations, packDocuments, gateOne, workspace, typed>>
customerRow == <<customer, narrative, destinations, packDocuments, gateOne>>

EmptyWorkspace ==
  [ read |-> "nothing", narrative |-> NoNarrative, destinations |-> [count |-> 0, invoiced |-> FALSE],
    documents |-> {}, gate |-> "none" ]

CustomerInit ==
  /\ customer = FALSE
  /\ narrative = NoNarrative
  /\ destinations = [count |-> 0, invoiced |-> FALSE]
  /\ packDocuments = {}
  /\ gateOne = "none"
  /\ workspace = [e \in Editors |-> EmptyWorkspace]
  /\ typed = [e \in Editors |-> NoNarrative]

-----------------------------------------------------------------------------
(* Server.                                                                 *)

CreatePostgresCustomer ==
  /\ ~customer
  /\ customer' = TRUE
  /\ UNCHANGED <<narrative, destinations, packDocuments, gateOne, workspace, typed>>

(* Plausible bug: a field the form leaves out is written as NULL.          *)
UpdateProfileOverwrite(e) ==
  /\ customer /\ workspace[e].read = "all"
  /\ narrative' = typed[e]
  /\ UNCHANGED <<customer, destinations, packDocuments, gateOne, workspace, typed>>

(* updatePostgresCustomerProfile: COALESCE keeps what the form left out.   *)
UpdatePostgresCustomerProfile(e) ==
  /\ customer /\ workspace[e].read = "all"
  /\ narrative' = IF typed[e] = NoNarrative THEN narrative ELSE typed[e]
  /\ UNCHANGED <<customer, destinations, packDocuments, gateOne, workspace, typed>>

RecordCustomerDestinationCounterparty(invoiced) ==
  /\ customer /\ destinations.count < MaxDestinations
  /\ destinations' = [count |-> destinations.count + 1,
                      invoiced |-> destinations.invoiced \/ invoiced]
  /\ UNCHANGED <<customer, narrative, packDocuments, gateOne, workspace, typed>>

(* A document of the pack is finalised for the customer (DocumentEvidence). *)
PackDocumentRecorded(type) ==
  /\ customer /\ type \notin packDocuments
  /\ packDocuments' = packDocuments \cup {type}
  /\ UNCHANGED <<customer, narrative, destinations, gateOne, workspace, typed>>

DecideCustomerUseCaseGate(decision) ==
  /\ customer
  /\ decision = "approved" => narrative # NoNarrative /\ destinations.count > 0
  /\ gateOne' = decision
  /\ UNCHANGED <<customer, narrative, destinations, packDocuments, workspace, typed>>

(* getCustomerWorkspace: the customer row first ...                        *)
ReadCustomerRow(e) ==
  /\ customer /\ workspace[e].read # "customer"
  /\ workspace' = [workspace EXCEPT ![e].read = "customer", ![e].narrative = narrative]
  /\ UNCHANGED <<customerRow, typed>>

(* ... then what hangs on it; the form opens with the narrative read.      *)
GetCustomerWorkspace(e) ==
  /\ workspace[e].read = "customer"
  /\ workspace' = [workspace EXCEPT ![e] =
       [ read |-> "all", narrative |-> workspace[e].narrative, destinations |-> destinations,
         documents |-> packDocuments, gate |-> gateOne ]]
  /\ typed' = [typed EXCEPT ![e] = workspace[e].narrative]
  /\ UNCHANGED customerRow

(* The operator rewrites the narrative or clears it; a short text is sent  *)
(* as no narrative at all.                                                 *)
EditNarrative(e, text) ==
  /\ workspace[e].read = "all" /\ typed[e] # text
  /\ typed' = [typed EXCEPT ![e] = text]
  /\ UNCHANGED <<customerRow, workspace>>

CustomerNext ==
  \/ CreatePostgresCustomer
  \/ \E e \in Editors : UpdatePostgresCustomerProfile(e) \/ ReadCustomerRow(e) \/ GetCustomerWorkspace(e)
  \/ \E e \in Editors, text \in Narratives \cup {NoNarrative} : EditNarrative(e, text)
  \/ \E invoiced \in BOOLEAN : RecordCustomerDestinationCounterparty(invoiced)
  \/ \E type \in PackDocuments : PackDocumentRecorded(type)
  \/ \E decision \in {"approved", "blocked"} : DecideCustomerUseCaseGate(decision)

CustomerSpec == CustomerInit /\ [][CustomerNext]_customerVars

-----------------------------------------------------------------------------
(* Console.                                                                *)

(* The items of the pack a view counts as present.                         *)
OverviewTab(view) ==
  view.documents
  \cup (IF view.narrative # NoNarrative /\ view.destinations.count > 0 THEN {"narrative"} ELSE {})
  \cup (IF view.destinations.invoiced THEN {"invoice"} ELSE {})

(* What the tabs of a customer let the operator submit.                    *)
CustomerInformationTab(canEdit) ==
  IF canEdit THEN {"updateCustomerProfile", "recordCustomerDestinationCounterparty"} ELSE {}

EvidenceTab(canEdit) ==
  IF canEdit THEN {"createKycDocumentUploadIntent", "finalizeKycDocumentUpload"} ELSE {}

ReviewTab(canReview) ==
  IF canReview THEN {"decideCustomerUseCaseGate", "updateKycDocumentReview"} ELSE {}

CustomerWorkspacePanel(canEdit) ==
  CustomerInformationTab(canEdit) \cup EvidenceTab(canEdit) \cup ReviewTab(canEdit)

EnterpriseCustomersWorkspace(role) ==
  LET canEdit == role \in {"compliance_officer", "admin"}
  IN  IF role \notin AuditorProcedure THEN {}
      ELSE (IF canEdit THEN {"createCustomer"} ELSE {})
           \cup (IF customer THEN CustomerWorkspacePanel(canEdit) ELSE {})

(* Every procedure of the workspace is a complianceProcedure.              *)
CustomerProcedures(role) ==
  IF role \notin ComplianceProcedure THEN {}
  ELSE {"createCustomer", "updateCustomerProfile", "recordCustomerDestinationCounterparty",
        "createKycDocumentUploadIntent", "finalizeKycDocumentUpload",
        "decideCustomerUseCaseGate", "updateKycDocumentReview"}

-----------------------------------------------------------------------------
(* Types of the customer's rows and of the consoles.                       *)
CustomerTypeOK ==
  /\ customer \in BOOLEAN
  /\ narrative \in Narratives \cup {NoNarrative}
  /\ destinations \in [count : 0..MaxDestinations, invoiced : BOOLEAN]
  /\ packDocuments \subseteq PackDocuments
  /\ gateOne \in {"none", "approved", "blocked"}
  /\ typed \in [Editors -> Narratives \cup {NoNarrative}]
  /\ \A e \in Editors : workspace[e].read \in {"nothing", "customer", "all"}

(* A standing G1 approval has its evidentiary basis on record: a narrative *)
(* and a destination, whatever later profile edits from stale forms do     *)
(* (decideCustomerUseCaseGate, updatePostgresCustomerProfile).             *)
ApprovalKeepsBasis ==
  gateOne = "approved" => narrative # NoNarrative /\ destinations.count > 0

(* An evidence item a console counts as present has its record, however    *)
(* old the view and whatever happened between the queries that composed    *)
(* it (getCustomerWorkspace, OverviewTab).                                 *)
OverviewNeverOverstates ==
  \A e \in Editors : workspace[e].read = "all" =>
    OverviewTab(workspace[e]) \subseteq
      OverviewTab([narrative |-> narrative, destinations |-> destinations,
                   documents |-> packDocuments])

(* The customers workspace offers a role exactly the procedures that admit *)
(* it, once the customer exists.                                           *)
CustomerFormsMatchServer ==
  customer => \A role \in OperatorRole :
    EnterpriseCustomersWorkspace(role) = CustomerProcedures(role)

\* An approval keeps what it rests on, and the composed read never shows more than
\* was true (customerUseCase.ts, EnterpriseCustomersWorkspace.tsx).
CustomerSafety ==
  /\ CustomerTypeOK
  /\ ApprovalKeepsBasis
  /\ OverviewNeverOverstates
=============================================================================
