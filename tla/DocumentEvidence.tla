-------------------------- MODULE DocumentEvidence --------------------------
(***************************************************************************)
(* KYC documents and their analysis: the secure upload (an intent, a PUT   *)
(* to object storage, a finalisation that re-reads the stored bytes), the  *)
(* manual review of a recorded document, verification consents, the        *)
(* analysis job created under one, its evidence and the reviewer's         *)
(* decision; and the console forms that drive them.                        *)
(***************************************************************************)
EXTENDS ConsoleRoles, Naturals

CONSTANTS
  Officers,      \* compliance operators
  NoOfficer,     \* no operator: an intent that does not exist
  Contents,      \* file contents, told apart by their digests
  Nothing,       \* an empty storage key
  MaxIntents     \* bound: upload intents ever created

ASSUME EvidenceAssumption ==
  MaxIntents \in Nat /\ NoOfficer \notin Officers /\ Nothing \notin Contents

VARIABLES
  intent,     \* upload intent -> status, originator, declared digest, expiry
  stored,     \* storage key of the intent -> the bytes in object storage
  document,   \* kyc_documents row of the intent -> review status, verified bytes
  listed,     \* operator -> the review status its table shows, per document
  upload,     \* operator -> the upload form: its step and its intent
  consent,    \* the verification consent: status and scope
  job,        \* the analysis job: status, and the scope its caller asked for
  analysis,   \* dispositions of the evidence rows persisted for the job
  decision    \* the reviewer decision on the job

evidenceVars == <<intent, stored, document, listed, upload, consent, job, analysis, decision>>
uploadVars == <<intent, stored, upload>>
analysisVars == <<consent, job, analysis, decision>>

Intents == 1..MaxIntents
Scopes == {"kyc", "kyb"}
ReviewStatus == {"submitted", "under_review", "approved", "rejected", "expired"}
Dispositions == {"review_required", "insufficient_evidence", "unavailable"}
Decisions == {"approved", "rejected", "needs_information", "escalated"}

EvidenceInit ==
  /\ intent = [i \in Intents |->
       [status |-> "none", by |-> NoOfficer, declared |-> Nothing, expired |-> FALSE]]
  /\ stored = [i \in Intents |-> Nothing]
  /\ document = [i \in Intents |-> [status |-> "absent", verified |-> Nothing]]
  /\ listed = [o \in Officers |-> [i \in Intents |-> "absent"]]
  /\ upload = [o \in Officers |-> [step |-> "idle", intent |-> 0]]
  /\ consent \in {[status |-> "absent", scope |-> s] : s \in Scopes}
  /\ job = [status |-> "absent", kind |-> "kyc"]
  /\ analysis = {}
  /\ decision = "none"

-----------------------------------------------------------------------------
(* Upload.                                                                 *)

(* storageCreateUploadUrl: a key nobody used before and a URL to PUT to.   *)
StorageCreateUploadUrl == {i \in Intents : intent[i].status = "none" /\ \A j \in 1..(i - 1) : intent[j].status # "none"}

CreatePostgresKycDocumentUploadIntent(o, content) ==
  \E i \in StorageCreateUploadUrl :
    /\ upload[o].step = "idle"
    /\ intent' = [intent EXCEPT ![i] =
         [status |-> "open", by |-> o, declared |-> content, expired |-> FALSE]]
    /\ upload' = [upload EXCEPT ![o] = [step |-> "intent", intent |-> i]]
    /\ UNCHANGED <<stored, document, listed, analysisVars>>

(* The browser's PUT: the file arrives, or something else does.            *)
PutObject(o, content) ==
  /\ upload[o].step = "intent"
  /\ stored' = [stored EXCEPT ![upload[o].intent] = content]
  /\ upload' = [upload EXCEPT ![o].step = "stored"]
  /\ UNCHANGED <<intent, document, listed, analysisVars>>

IntentExpires(i) ==
  /\ intent[i].status = "open" /\ ~intent[i].expired
  /\ intent' = [intent EXCEPT ![i].expired = TRUE]
  /\ UNCHANGED <<stored, upload, document, listed, analysisVars>>

Finalizable(o, i) ==
  /\ intent[i].by = o
  /\ intent[i].status = "open"
  /\ ~intent[i].expired

(* finalizePostgresKycDocumentUpload: under the intent's row lock, the     *)
(* stored object is fetched and must be what the intent declared.          *)
FinalizePostgresKycDocumentUpload(o) ==
  LET i == upload[o].intent IN
  /\ upload[o].step = "stored"
  /\ Finalizable(o, i) /\ stored[i] = intent[i].declared
  /\ document' = [document EXCEPT ![i] = [status |-> "submitted", verified |-> intent[i].declared]]
  /\ intent' = [intent EXCEPT ![i].status = "finalized"]
  /\ upload' = [upload EXCEPT ![o] = [step |-> "idle", intent |-> 0]]
  /\ UNCHANGED <<stored, listed, analysisVars>>

(* KycDocumentUploadForm: any step that fails, refused or unanswered, ends *)
(* the sequence; submitting again starts from a new intent.                *)
KycDocumentUploadForm(o) ==
  /\ upload[o].step # "idle"
  /\ upload' = [upload EXCEPT ![o] = [step |-> "idle", intent |-> 0]]
  /\ UNCHANGED <<intent, stored, document, listed, analysisVars>>

-----------------------------------------------------------------------------
(* Review of a recorded document.                                          *)

AllowedReview ==
  [ submitted    |-> {"under_review", "expired"},
    under_review |-> {"approved", "rejected", "expired"},
    approved     |-> {"expired"},
    rejected     |-> {},
    expired      |-> {} ]

(* The transitions the console's table offers for a displayed row.         *)
KycDocumentReviewTable(status) ==
  CASE status = "submitted" -> {"under_review", "expired"}
    [] status = "under_review" -> {"approved", "rejected", "expired"}
    [] status = "approved" -> {"expired"}
    [] OTHER -> {}

(* Plausible bug: the transition is checked against the status displayed   *)
(* to the operator, not against the row.                                   *)
ReviewDisplayed(o, i, to) ==
  /\ document[i].status # "absent" /\ listed[o][i] # "absent"
  /\ to \in AllowedReview[listed[o][i]]
  /\ document' = [document EXCEPT ![i].status = to]
  /\ UNCHANGED <<uploadVars, listed, analysisVars>>

UpdatePostgresKycDocumentReview(o, i, to) ==
  /\ to \in KycDocumentReviewTable(listed[o][i])
  /\ to \in AllowedReview[document[i].status]
  /\ document' = [document EXCEPT ![i].status = to]
  /\ UNCHANGED <<uploadVars, listed, analysisVars>>

RefetchDocuments(o) ==
  /\ listed' = [listed EXCEPT ![o] = [i \in Intents |-> document[i].status]]
  /\ listed' # listed
  /\ UNCHANGED <<uploadVars, document, analysisVars>>

-----------------------------------------------------------------------------
(* Consent, analysis and the reviewer's decision.                          *)

CreatePostgresVerificationConsent ==
  /\ consent.status = "absent"
  /\ consent' = [consent EXCEPT !.status = "active"]
  /\ UNCHANGED <<uploadVars, document, listed, job, analysis, decision>>

(* Time, or a withdrawal recorded in the register.                         *)
ConsentLapses ==
  /\ consent.status = "active"
  /\ consent' = [consent EXCEPT !.status = "lapsed"]
  /\ UNCHANGED <<uploadVars, document, listed, job, analysis, decision>>

(* createDocumentAnalysisJob's input schema: the source is an absolute URL. *)
SourceUriAccepted(uri) == uri = "absolute"

(* What finalisation stores as storage_url: a path on this server.         *)
StorageUrl == "relative"

(* The router first asks the selector which model serves the document ...  *)
RequestAnalysis(kind, uri) ==
  /\ job.status = "absent" /\ SourceUriAccepted(uri)
  /\ job' = [status |-> "resolving", kind |-> kind]
  /\ UNCHANGED <<uploadVars, document, listed, consent, analysis, decision>>

ExpectedRoleForTag == [qwen |-> "visual_primary", deepseek |-> "text_fallback"]

(* The selector's answers the router accepts: a known tag with its role.   *)
ParseResolverOutput ==
  {answer \in {"qwen", "deepseek"} \X {"visual_primary", "text_fallback"} :
     answer[2] = ExpectedRoleForTag[answer[1]]}

ConsentCovers(kind) == consent.status = "active" /\ consent.scope = kind

(* ... and then inserts the job, with the consent row locked and checked.  *)
CreatePostgresDocumentAnalysisJob ==
  /\ job.status = "resolving" /\ ConsentCovers(job.kind)
  /\ \E answer \in ParseResolverOutput : answer[2] = ExpectedRoleForTag[answer[1]]
  /\ job' = [job EXCEPT !.status = "queued"]
  /\ UNCHANGED <<uploadVars, document, listed, consent, analysis, decision>>

(* No usable model, or no consent: nothing is stored.                      *)
AnalysisRefused ==
  /\ job.status = "resolving"
  /\ job' = [job EXCEPT !.status = "absent"]
  /\ UNCHANGED <<uploadVars, document, listed, consent, analysis, decision>>

Persisted == job.status \in {"queued", "review_required", "unavailable"}

PersistPostgresDocumentAnalysisEvidence(disposition) ==
  /\ Persisted
  /\ analysis' = analysis \cup {disposition}
  /\ job' = [job EXCEPT !.status =
       IF disposition = "unavailable" THEN "unavailable" ELSE "review_required"]
  /\ UNCHANGED <<uploadVars, document, listed, consent, decision>>

(* One decision per job: the UNIQUE key on analysis_job_id.                *)
CreatePostgresReviewerDecision(d) ==
  /\ Persisted /\ decision = "none"
  /\ decision' = d
  /\ UNCHANGED <<uploadVars, document, listed, consent, job, analysis>>

-----------------------------------------------------------------------------
(* The evidence workspace.                                                 *)

(* listPostgresActiveVerificationConsents: neither revoked nor expired.    *)
ListPostgresActiveVerificationConsents == {s \in Scopes : ConsentCovers(s)}

(* listPostgresAnalysisReadyDocuments: rows joined to a finalised intent.  *)
ListPostgresAnalysisReadyDocuments ==
  {i \in Intents : document[i].status # "absent" /\ intent[i].status = "finalized"}

(* The submissions the form emits: a consent's scope, a document and its   *)
(* stored location.                                                        *)
AnalysisJobSubmissionForm(role) ==
  IF role # "compliance_officer" THEN {}
  ELSE ListPostgresActiveVerificationConsents \X ListPostgresAnalysisReadyDocuments \X {StorageUrl}

ReviewerDecisionForm == IF Persisted THEN Decisions ELSE {}

(* Whether the ledger opens with the banner "analysis unavailable".        *)
KycEvidenceLedger == "unavailable" \in analysis

CanReadKycEvidence(role) == role \in AuditorProcedure

CanRecordReviewerDecision(role) == role \in ComplianceProcedure

KycEvidenceWorkspace(role) ==
  [ decisions |-> IF CanReadKycEvidence(role) /\ CanRecordReviewerDecision(role)
                  THEN ReviewerDecisionForm ELSE {},
    blocked   |-> CanReadKycEvidence(role) /\ KycEvidenceLedger ]

EvidenceNext ==
  \/ \E o \in Officers :
       \/ \E c \in Contents : CreatePostgresKycDocumentUploadIntent(o, c) \/ PutObject(o, c)
       \/ FinalizePostgresKycDocumentUpload(o)
       \/ KycDocumentUploadForm(o)
       \/ RefetchDocuments(o)
       \/ \E i \in Intents, to \in ReviewStatus :
            document[i].status # "absent" /\ UpdatePostgresKycDocumentReview(o, i, to)
  \/ \E i \in Intents : IntentExpires(i)
  \/ CreatePostgresVerificationConsent \/ ConsentLapses
  \/ \E s \in Scopes, uri \in {"absolute", "relative"} : RequestAnalysis(s, uri)
  \/ CreatePostgresDocumentAnalysisJob \/ AnalysisRefused
  \/ \E d \in Dispositions : PersistPostgresDocumentAnalysisEvidence(d)
  \/ \E d \in Decisions : CreatePostgresReviewerDecision(d)

EvidenceSpec == EvidenceInit /\ [][EvidenceNext]_evidenceVars

-----------------------------------------------------------------------------
(* Types of the upload, review and analysis rows.                          *)
EvidenceTypeOK ==
  /\ intent \in [Intents -> [status : {"none", "open", "finalized"}, by : Officers \cup {NoOfficer},
                             declared : Contents \cup {Nothing}, expired : BOOLEAN]]
  /\ stored \in [Intents -> Contents \cup {Nothing}]
  /\ document \in [Intents -> [status : ReviewStatus \cup {"absent"},
                               verified : Contents \cup {Nothing}]]
  /\ listed \in [Officers -> [Intents -> ReviewStatus \cup {"absent"}]]
  /\ upload \in [Officers -> [step : {"idle", "intent", "stored"}, intent : 0..MaxIntents]]
  /\ consent \in [status : {"absent", "active", "lapsed"}, scope : Scopes]
  /\ job \in [status : {"absent", "resolving", "queued", "review_required", "unavailable"},
              kind : Scopes]
  /\ analysis \subseteq Dispositions
  /\ decision \in Decisions \cup {"none"}

(* The digest a document row carries is that of the bytes in storage, and  *)
(* a row exists exactly for a finalised intent: abandoned, mismatched and  *)
(* expired uploads leave none (finalizePostgresKycDocumentUpload).  So the *)
(* analysis form cannot submit a digest that was never verified.           *)
DocumentsMatchStorage ==
  /\ \A i \in Intents :
       /\ document[i].status # "absent" <=> intent[i].status = "finalized"
       /\ document[i].status # "absent" => document[i].verified = stored[i]
  /\ \A role \in OperatorRole : \A offer \in AnalysisJobSubmissionForm(role) :
       /\ role \in ComplianceOnlyProcedure
       /\ stored[offer[2]] \in Contents /\ document[offer[2]].verified = stored[offer[2]]

(* A judgement is never overturned by an operator working from a stale     *)
(* table: a rejected or expired document keeps its status, an approval     *)
(* only expires, and a reviewer decision stays as recorded even when more  *)
(* evidence arrives for its job.                                           *)
JudgementsStand ==
  /\ \A i \in Intents :
       /\ document[i].status \in {"rejected", "expired"} =>
            document'[i].status = document[i].status
       /\ document[i].status = "approved" =>
            document'[i].status \in {"approved", "expired"}
  /\ decision # "none" => decision' = decision

(* An analysis job enters the queue only while a consent of its scope is   *)
(* active, even if the consent lapses while the model is being resolved.   *)
QueuedUnderActiveConsent ==
  job.status = "resolving" /\ job'.status = "queued" =>
    ConsentCovers(job.kind)

(* Evidence that the engine was unavailable is always called out above the *)
(* ledger, although a later result moves the job back to review_required.  *)
UnavailableIsCalledOut ==
  \A role \in AuditorProcedure :
    job.status = "unavailable" \/ "unavailable" \in analysis =>
      KycEvidenceWorkspace(role).blocked

(* The table offers for each displayed status exactly the transitions      *)
(* updatePostgresKycDocumentReview accepts from it.                        *)
ReviewTableMatchesServer ==
  \A i \in Intents : document[i].status # "absent" =>
    KycDocumentReviewTable(document[i].status) = AllowedReview[document[i].status]

\* Every step keeps documents as stored and judged, calls unavailable evidence out, and
\* queues jobs only under a consent (postgres.ts, analysisSubmission.ts).
DocumentSafety ==
  [][/\ EvidenceTypeOK' /\ DocumentsMatchStorage' /\ UnavailableIsCalledOut'
     /\ JudgementsStand /\ QueuedUnderActiveConsent]_evidenceVars
=============================================================================
