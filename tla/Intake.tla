------------------------------- MODULE Intake -------------------------------
(* How documents of a matter come in and are read: registration and upload *)
(* links (document_service.py, api/v1/upload.py), and the Celery jobs that *)
(* ask a language model for a document's type and its data (ai_tasks.py,   *)
(* ai_classification_service.py, ai_extraction_service.py).  A job is put  *)
(* on the queue before the transaction that inserts its document commits,  *)
(* runs for a long time between what it reads and what it writes, and is   *)
(* retried when it fails.  The broker may refuse a job: the registration   *)
(* then fails as a whole, the upload through a link goes on without it.    *)
EXTENDS Naturals, FiniteSets

CONSTANTS Docs,         \* documents that may be inserted
          Links,        \* document requests, each with its upload link
          Types,        \* document types; "other" is one of them
          Extractable,  \* EXTRACTABLE_TYPES
          MaxRetries,   \* max_retries
          Expiry,       \* bound: days; a link is good up to day 0 here
          NoLink

\* What the marks in the columns are not: a document type, a link.
IntakeAssumption ==
  /\ {"none", "absent", "lost"} \cap Types = {}
  /\ NoLink \notin Links
  /\ MaxRetries \in Nat /\ Expiry \in Nat

VARIABLES doc,      \* [Docs -> a documents row, or NoDoc]
          link,     \* [Links -> document_requests row]
          open,     \* transactions that insert a document and have not committed
          jobs,     \* jobs on the queue or with a worker
          gaveUp,   \* documents whose job ran out of retries
          unasked,  \* documents whose upload caught the broker's refusal of their job
          day,
          shared    \* links used by two overlapping uploads

vars == <<doc, link, open, jobs, gaveUp, unasked, day, shared>>

NoDoc == [type |-> "absent", data |-> FALSE]
NewDoc == [NoDoc EXCEPT !.type = "none"]
\* "absent" before the insert commits, "lost" when it was rolled back; data:
\* ai_extracted_data is set (to fields, or to a mark of failure).
Row == [type: Types \cup {"none", "absent", "lost"}, data: BOOLEAN]
Link == [status: {"none", "pending", "uploaded"}, docs: SUBSET Docs]
\* A worker holds the type it read (seen) while the model answers.
Job == [kind: {"classify", "extract"}, doc: Docs, tries: 0..MaxRetries,
        step: {"queued", "asking"}, seen: Types \cup {"none"}]
NewJob(kind, d) == [kind |-> kind, doc |-> d, tries |-> 0, step |-> "queued", seen |-> "none"]

Init == /\ doc = [d \in Docs |-> NoDoc]
        /\ link = [l \in Links |-> [status |-> "none", docs |-> {}]]
        /\ open = {} /\ jobs = {} /\ gaveUp = {} /\ unasked = {} /\ day = 0 /\ shared = {}

Committed(d) == doc[d].type \notin {"absent", "lost"}
Fresh(d) == doc[d].type = "absent" /\ \A t \in open : t.doc # d

\* StakeholderRole, and _require_doc_read, _require_doc_upload, _require_doc_admin.
Roles == {"matter_admin", "professional", "executor_trustee", "beneficiary", "read_only"}
AdminRoles == {"matter_admin", "professional"}
UploadRoles == AdminRoles \cup {"executor_trustee"}
ReadRoles == UploadRoles \cup {"beneficiary"}

------------------------------------------------------------------------------
(* Requests *)

\* request_document: a link that expires.
RequestDocument(l) ==
  /\ link[l].status = "none"
  /\ link' = [link EXCEPT ![l].status = "pending"]
  /\ UNCHANGED <<doc, open, jobs, gaveUp, unasked, day, shared>>

\* get_request_by_token: pending and not expired.  (The mark it makes on an
\* expired link is rolled back by the error it then raises.)
Usable(l) == link[l].status = "pending" /\ day < Expiry

\* The row and its first version are flushed by a transaction that holds the link
\* it came through, if any.
Insert(d, l) ==
  /\ Fresh(d)
  /\ open' = open \cup {[doc |-> d, link |-> l]}
  /\ shared' = IF l # NoLink /\ \E t \in open : t.link = l THEN shared \cup {l} ELSE shared
  /\ UNCHANGED <<doc, link, gaveUp, day>>
Enqueue(d) == jobs' = jobs \cup {NewJob("classify", d)} /\ UNCHANGED unasked
Swallow(d) == unasked' = unasked \cup {d} /\ UNCHANGED jobs

\* Slip: the registration catches the broker's refusal too.
RegisterSwallowing(d) == Insert(d, NoLink) /\ (Enqueue(d) \/ Swallow(d))
\* register_document: a job the broker refuses fails the request, which leaves nothing.
RegisterDocument(d) == Insert(d, NoLink) /\ Enqueue(d)
\* complete_token_upload, with a link found usable: a refused job is logged and
\* the document goes in without one.
CompleteTokenUpload(d, l) == Usable(l) /\ Insert(d, l) /\ (Enqueue(d) \/ Swallow(d))

\* Slip: the link stays open.
CommitLinkOpen(t) ==
  /\ open' = open \ {t}
  /\ doc' = [doc EXCEPT ![t.doc] = NewDoc]
  /\ link' = IF t.link = NoLink THEN link
             ELSE [link EXCEPT ![t.link].docs = @ \cup {t.doc}]
  /\ UNCHANGED <<jobs, gaveUp, unasked, day, shared>>
\* The transaction commits: the row is there and the link is spent.
Commit(t) ==
  /\ open' = open \ {t}
  /\ doc' = [doc EXCEPT ![t.doc] = NewDoc]
  /\ link' = IF t.link = NoLink THEN link
             ELSE [link EXCEPT ![t.link] = [status |-> "uploaded", docs |-> @.docs \cup {t.doc}]]
  /\ UNCHANGED <<jobs, gaveUp, unasked, day, shared>>
\* Or it does not: the job stays on the queue without a document.
Rollback(t) ==
  /\ open' = open \ {t}
  /\ doc' = [doc EXCEPT ![t.doc].type = "lost"]
  /\ UNCHANGED <<link, jobs, gaveUp, unasked, day, shared>>

\* confirm_doc_type: the user's type, over whatever is there.  No job reads the
\* mark doc_type_confirmed it sets, so the mark is left out.
ConfirmDocType(d, type) ==
  /\ Committed(d)
  /\ doc' = [doc EXCEPT ![d].type = type]
  /\ UNCHANGED <<link, open, jobs, gaveUp, unasked, day, shared>>

\* The endpoints, which check the role of the stakeholder who asks.
PostDocument(role, d) == role \in UploadRoles /\ RegisterDocument(d)
PostRequest(role, l) == role \in AdminRoles /\ RequestDocument(l)
PostDocType(role, d, type) == role \in AdminRoles /\ ConfirmDocType(d, type)
Documents == {d \in Docs : Committed(d)}
GetDocuments(role) == IF role \in ReadRoles THEN Documents ELSE {}

------------------------------------------------------------------------------
(* Jobs *)

\* Slip: the retries are not counted.
RetryForever(j) ==
  /\ jobs' = (jobs \ {j}) \cup {[NewJob(j.kind, j.doc) EXCEPT !.tries = j.tries + 1]}
  /\ UNCHANGED gaveUp
\* self.retry: back on the queue, until the retries are used up.
Retry(j) ==
  IF j.tries < MaxRetries
  THEN /\ jobs' = (jobs \ {j}) \cup {[NewJob(j.kind, j.doc) EXCEPT !.tries = j.tries + 1]}
       /\ UNCHANGED gaveUp
  ELSE /\ jobs' = jobs \ {j}
       /\ gaveUp' = gaveUp \cup {j.doc}

\* A worker takes a job and reads the row.  A row that is not there (yet), or
\* for an extraction a type that has no schema, is an error.
Start(j) ==
  /\ j.step = "queued"
  /\ IF Committed(j.doc) /\ (j.kind = "extract" => doc[j.doc].type \in Extractable)
     THEN /\ jobs' = (jobs \ {j}) \cup
                       {[j EXCEPT !.step = "asking",
                                 !.seen = IF j.kind = "classify" THEN doc[j.doc].type ELSE @]}
          /\ UNCHANGED gaveUp
     ELSE Retry(j)
  /\ UNCHANGED <<doc, link, open, unasked, day, shared>>

\* classify_document succeeds: the guess is written unless it is the type that
\* was read; the confirmation a user gave meanwhile is not looked at.  A
\* confident guess of an extractable type starts the extraction.
Classify(j, guess, confident) ==
  /\ j.kind = "classify" /\ j.step = "asking"
  /\ doc' = IF guess = j.seen THEN doc ELSE [doc EXCEPT ![j.doc].type = guess]
  /\ jobs' = (jobs \ {j}) \cup
       (IF confident /\ guess \in Extractable THEN {NewJob("extract", j.doc)} ELSE {})
  /\ UNCHANGED <<link, open, gaveUp, unasked, day, shared>>

\* extract_document_data succeeds, or finds no text in the file.
Extract(j) ==
  /\ j.kind = "extract" /\ j.step = "asking"
  /\ doc' = [doc EXCEPT ![j.doc].data = TRUE]
  /\ jobs' = jobs \ {j}
  /\ UNCHANGED <<link, open, gaveUp, unasked, day, shared>>

\* The model, the rate limit or the worker fails: rolled back, a document that
\* has no data yet is marked (_mark_classification_failed edits existing data
\* in place, which is not saved), and the job is retried.
Fail(j) ==
  /\ j.step = "asking"
  /\ doc' = IF j.kind = "classify" /\ ~doc[j.doc].data
            THEN [doc EXCEPT ![j.doc].data = TRUE] ELSE doc
  /\ Retry(j)
  /\ UNCHANGED <<link, open, unasked, day, shared>>

NextDay == /\ day < Expiry /\ day' = day + 1
           /\ UNCHANGED <<doc, link, open, jobs, gaveUp, unasked, shared>>

Next == \/ \E role \in Roles, l \in Links : PostRequest(role, l)
        \/ \E role \in Roles, d \in Docs : \/ PostDocument(role, d)
                                          \/ \E type \in Types : PostDocType(role, d, type)
        \/ \E d \in Docs, l \in Links : CompleteTokenUpload(d, l)
        \/ \E t \in open : Commit(t) \/ Rollback(t)
        \/ \E j \in jobs : \/ Start(j) \/ Extract(j) \/ Fail(j)
                           \/ \E guess \in Types, b \in BOOLEAN : Classify(j, guess, b)
        \/ NextDay

Spec == Init /\ [][Next]_vars

------------------------------------------------------------------------------
TypeOK ==
  /\ doc \in [Docs -> Row] /\ link \in [Links -> Link]
  /\ open \subseteq [doc: Docs, link: Links \cup {NoLink}]
  /\ jobs \subseteq Job /\ gaveUp \subseteq Docs /\ unasked \subseteq Docs
  /\ day \in 0..Expiry /\ shared \subseteq Links

\* No document is left unread: every document that is listed has a type, or a
\* job that will look at it, or a job that used up its retries - however the
\* commit, the worker and the failures interleave.  Only an upload through a
\* link can leave one for which nobody was ever asked: when the broker refused.
NoDocumentForgotten ==
  \A role \in Roles : \A d \in GetDocuments(role) :
    \/ doc[d].type # "none" \/ d \in gaveUp
    \/ \E j \in jobs : j.doc = d /\ j.kind = "classify"
    \/ d \in unasked /\ \E l \in Links : d \in link[l].docs

\* A link serves one upload, unless two uploads through it overlapped: it is
\* single-use by a status that is read without a lock.
LinkUsedOnce ==
  \A l \in Links \ shared :
    /\ Cardinality(link[l].docs) <= 1
    /\ link[l].docs # {} <=> link[l].status = "uploaded"

\* No document is left unread and no link lets two in: the promise of the intake.
IntakeComplete == NoDocumentForgotten /\ LinkUsedOnce
=============================================================================
