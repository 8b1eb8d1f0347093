-------------------------- MODULE ConsoleSubmission --------------------------
\* A console form and the server it submits to, over a network that can lose a
\* request or an answer: the shared submission feedback (idle, submitting, error
\* with or without a retry) and the retry that resends the captured payload.
\* Some procedures refuse a second record of the same thing (legal entities,
\* counterparty onboarding), others insert a row for each request they receive
\* (rate locks, customers, SAR/STR drafts).
EXTENDS Naturals, FiniteSets

CONSTANTS FormPayloads,  \* what the operator may type into the form
          Refused,       \* payloads the server's policy declines
          Keyed,         \* TRUE for a procedure that refuses duplicates
          MaxRequests    \* bound on the requests one form sends

ASSUME SubmissionAssumption == Refused \subseteq FormPayloads /\ Keyed \subseteq BOOLEAN /\ MaxRequests \in Nat

VARIABLES keyed,     \* which kind of procedure this form calls
          draft,     \* the form's fields now
          last,      \* useRetryableSubmit's captured payload, {} before the first
          form,      \* the feedback state: [kind, slow, retryable]
          inFlight,  \* requests under way: [n, payload, at], at "up", "refused" or "accepted"
          rows,      \* the server's records: [n, payload]
          reviewed,  \* history: payloads the operator pressed submit on
          requests   \* requests sent so far

submitVars == <<keyed, draft, last, form, inFlight, rows, reviewed, requests>>

\* Failure messages by the tokens classifyFailure looks for.  Sent by the server
\* after it evaluated the request: worded as a refusal, or in
\* words the lists do not know.
RefusalMessages == {[unambiguous |-> FALSE, refusal |-> TRUE, transport |-> b] : b \in BOOLEAN}
                   \cup {[unambiguous |-> FALSE, refusal |-> FALSE, transport |-> FALSE]}
\* Raised by the network stack or a gateway; ECONNREFUSED also reads as refused.
TransportMessages == {[unambiguous |-> TRUE, refusal |-> b, transport |-> FALSE] : b \in BOOLEAN}
                     \cup {[unambiguous |-> FALSE, refusal |-> FALSE, transport |-> TRUE]}

\* Is a retry offered for a failure message?
ClassifyFailure(m) == m.unambiguous \/ (~m.refusal /\ m.transport)

Idle == [kind |-> "idle", slow |-> FALSE, retryable |-> FALSE]
Submitting == [kind |-> "submitting", slow |-> FALSE, retryable |-> FALSE]

\* useSubmitFeedback: pending, then the error of the failed mutation, then idle.
UseSubmitFeedback(m) == [kind |-> "error", slow |-> FALSE, retryable |-> ClassifyFailure(m)]

SubmitInit ==
  /\ keyed \in Keyed
  /\ draft \in FormPayloads
  /\ last = {} /\ form = Idle /\ inFlight = {} /\ rows = {} /\ reviewed = {} /\ requests = 0

Edit(p) ==
  /\ p # draft
  /\ draft' = p
  /\ UNCHANGED <<keyed, last, form, inFlight, rows, reviewed, requests>>

SendRequest(p) ==
  /\ requests < MaxRequests
  /\ requests' = requests + 1
  /\ inFlight' = inFlight \cup {[n |-> requests + 1, payload |-> p, at |-> "up"]}
  /\ form' = Submitting
  /\ UNCHANGED <<keyed, draft, rows>>

\* The submit button is disabled while a request is pending.
Run ==
  /\ form.kind # "submitting"
  /\ last' = {draft}
  /\ reviewed' = reviewed \cup {draft}
  /\ SendRequest(draft)

\* The retry re-reads the form.
RetryDraft ==
  /\ form.kind = "error" /\ form.retryable
  /\ last # {}
  /\ SendRequest(draft)
  /\ UNCHANGED <<last, reviewed>>

Retry ==
  /\ form.kind = "error" /\ form.retryable
  /\ \E p \in last : SendRequest(p)
  /\ UNCHANGED <<last, reviewed>>

\* Past the threshold the operator is told the request is still under way.
SlowThreshold ==
  /\ form.kind = "submitting" /\ ~form.slow
  /\ form' = [form EXCEPT !.slow = TRUE]
  /\ UNCHANGED <<keyed, draft, last, inFlight, rows, reviewed, requests>>

\* The server evaluates a request: it refuses, or inserts.
Duplicate(q) == keyed /\ \E r \in rows : r.payload = q.payload

ServerHandles(q) ==
  /\ q.at = "up"
  /\ \/ /\ q.payload \in Refused \/ Duplicate(q)
        /\ inFlight' = (inFlight \ {q}) \cup {[q EXCEPT !.at = "refused"]}
        /\ UNCHANGED rows
     \/ /\ q.payload \notin Refused /\ ~Duplicate(q)
        /\ inFlight' = (inFlight \ {q}) \cup {[q EXCEPT !.at = "accepted"]}
        /\ rows' = rows \cup {[n |-> q.n, payload |-> q.payload]}
  /\ UNCHANGED <<keyed, draft, last, form, reviewed, requests>>

\* The answer to the newest request settles the mutation; older ones are ignored.
Current(q) == q.n = requests /\ form.kind = "submitting"

AnswerArrives(q) ==
  /\ q.at \in {"refused", "accepted"}
  /\ inFlight' = inFlight \ {q}
  /\ IF ~Current(q) THEN UNCHANGED form
     ELSE IF q.at = "accepted" THEN form' = Idle
     ELSE \E m \in RefusalMessages : form' = UseSubmitFeedback(m)
  /\ UNCHANGED <<keyed, draft, last, rows, reviewed, requests>>

\* A request or an answer is lost, or the browser gives up before the server
\* does: the form reports a transport failure while the request may live on.
RequestFails(q, lost) ==
  /\ Current(q)
  /\ inFlight' = IF lost THEN inFlight \ {q} ELSE inFlight
  /\ \E m \in TransportMessages : form' = UseSubmitFeedback(m)
  /\ UNCHANGED <<keyed, draft, last, rows, reviewed, requests>>

SubmitNext ==
  \/ \E p \in FormPayloads : Edit(p)
  \/ Run \/ Retry \/ SlowThreshold
  \/ \E q \in inFlight : \/ ServerHandles(q) \/ AnswerArrives(q)
                         \/ \E lost \in BOOLEAN : RequestFails(q, lost)

SubmitSpec == SubmitInit /\ [][SubmitNext]_submitVars

-----------------------------------------------------------------------------
\* The feedback state, the captured payload and the requests have their types.
SubmitTypeOK ==
  /\ keyed \in BOOLEAN /\ draft \in FormPayloads /\ last \subseteq FormPayloads
  /\ form \in [kind : {"idle", "submitting", "error"}, slow : BOOLEAN, retryable : BOOLEAN]
  /\ \A q \in inFlight : q.payload \in FormPayloads /\ q.n \in 1..MaxRequests
  /\ requests \in 0..MaxRequests

\* Nothing is recorded that the operator did not press submit on, although the
\* form may be edited between a failure and its retry (useRetryableSubmit).
OnlyReviewedRecorded == \A r \in rows : r.payload \in reviewed

\* A request the server evaluated and declined is never offered for retry,
\* whatever its wording (classifyFailure): no second request follows a refusal
\* unless the operator presses submit.
RefusalsAreFinal ==
  \A q \in inFlight : q.at = "refused" /\ Current(q) /\ AnswerArrives(q) => ~form'.retryable

\* No step records what was not submitted, or offers to repeat what was refused
\* (SubmitFeedback.tsx).
SubmissionSafety ==
  [][/\ SubmitTypeOK' /\ OnlyReviewedRecorded'
     /\ RefusalsAreFinal]_submitVars
=============================================================================
