----------------------------- MODULE Signatures -----------------------------
(***************************************************************************)
(* E-signatures on one document: signature_requests rows, the DocuSign     *)
(* envelopes they stand for, and the versions of the document, which       *)
(* people upload and signed envelopes add                                  *)
(* (backend/app/services/docusign_service.py, document_service.py).        *)
(*                                                                         *)
(* A call is a handler with a PostgreSQL transaction at READ COMMITTED.    *)
(* It reads a row, talks to DocuSign with the transaction open, and writes *)
(* at the end; SQLAlchemy writes only the columns that differ from what    *)
(* was read.  Where nothing can happen in between, the flush and the       *)
(* commit are one step.  DocuSign posts a notice per event, in any order   *)
(* and more than once; what a notice says was once true.                   *)
(*                                                                         *)
(* Left out: who signs, voided_at, the events rows, and the OAuth          *)
(* connection (without one a DocuSign call fails, which Abandon and        *)
(* Download cover).                                                        *)
(***************************************************************************)
EXTENDS Naturals, Sequences

CONSTANTS
  Envelope,        \* the envelope ids DocuSign may hand out
  Handler,         \* the calls that may be in flight at once
  Noticed,         \* the events DocuSign Connect is configured to post
  MaxVersion       \* bounds the versions of the document

ASSUME MaxVersionAssumption == MaxVersion \in Nat \ {0}
ASSUME NoticedAssumption ==
  Noticed \subseteq {"sent", "delivered", "completed", "declined", "voided"}

VARIABLES
  envelope,        \* DocuSign: the state of each envelope
  notices,         \* DocuSign: the notices it may still post
  request,         \* the signature_requests row of each envelope
  current, file,   \* documents: current_version, and the version whose
                   \* upload documents.storage_key points at
  versions,        \* document_versions: the rows in the order inserted
  call             \* per handler: the call being served and how far it got

docusign == <<envelope, notices>>
document == <<current, file, versions>>
vars == <<envelope, notices, request, current, file, versions, call>>

EndStates == {"completed", "declined", "voided"}
Out == {"sent", "delivered"}
Status == Out \union EndStates

Other == "other"        \* a state of DocuSign's the application does not know
Upload == "upload"      \* the key of a version somebody uploaded

\* The storage key of a signed copy is no key of an upload's.
ASSUME KeyAssumption == Upload \notin Envelope

NoRequest == [status |-> "none", completedAt |-> FALSE, signed |-> FALSE]
Idle == [pc |-> "idle"]

\* register_document: the document starts with its first version.
Init ==
  /\ envelope = [e \in Envelope |-> "none"]
  /\ notices = {}
  /\ request = [e \in Envelope |-> NoRequest]
  /\ current = 1 /\ file = 1
  /\ versions = <<[number |-> 1, key |-> Upload]>>
  /\ call = [h \in Handler |-> Idle]

------------------------------------------------------------------------------
(***************************************************************************)
(* DocuSign: an envelope that is out is delivered, signed, declined or     *)
(* voided, and then keeps its state.                                       *)
(***************************************************************************)
Reach(e, s) ==
  /\ envelope' = [envelope EXCEPT ![e] = s]
  /\ notices' = notices \union {n \in [env: {e}, status: {s}] : s \in Noticed}

Recipient(e) ==
  /\ envelope[e] \in Out
  /\ \E s \in (Status \ {"sent", "voided"}) \ {envelope[e]} : Reach(e, s)
  /\ UNCHANGED <<request, document, call>>

------------------------------------------------------------------------------
(***************************************************************************)
(* The calls.                                                              *)
(***************************************************************************)
Return(h) == call' = [call EXCEPT ![h] = Idle]

\* send_for_signature asks DocuSign first and inserts the row afterwards.
SendForSignature(h, e) ==
  /\ call[h].pc = "idle"
  /\ envelope[e] = "none"
  /\ Reach(e, "sent")
  /\ call' = [call EXCEPT ![h] = [pc |-> "inserting", env |-> e]]
  /\ UNCHANGED <<request, document>>

InsertRequest(h) ==
  /\ call[h].pc = "inserting"
  /\ request' = [request EXCEPT ![call[h].env] = [NoRequest EXCEPT !.status = "sent"]]
  /\ Return(h)
  /\ UNCHANGED <<docusign, document>>

\* The call has read its row; answer is what DocuSign will turn out to say.
Loaded(h, pc, e, answer, locked) ==
  call' = [call EXCEPT ![h] = [pc |-> pc, env |-> e, read |-> request[e].status,
                               answer |-> answer, locked |-> locked, base |-> 0]]

\* The row of e is free of another transaction's lock.
RowFree(h, e) ==
  \A o \in Handler \ {h} :
    call[o].pc \in {"downloading", "reading", "registering", "completing"} =>
      ~(call[o].env = e /\ call[o].locked)

\* refresh_envelope_status: read the row, then ask DocuSign, then write.
\* DocuSign has passing states the application does not know.
Refresh(h, e) ==
  /\ call[h].pc = "idle" /\ request[e].status # "none"
  /\ Loaded(h, "asking", e, "none", FALSE)
  /\ UNCHANGED <<docusign, request, document>>

Ask(h) ==
  /\ call[h].pc = "asking"
  /\ \E answer \in {envelope[call[h].env], Other} :
       call' = [call EXCEPT ![h].pc = "saving", ![h].answer = answer]
  /\ UNCHANGED <<docusign, request, document>>

\* void_envelope: DocuSign refuses to void an envelope that has ended, and
\* then nothing is written.
Void(h, e) ==
  /\ call[h].pc = "idle"
  /\ request[e].status \notin {"none", "completed", "voided"}
  /\ Loaded(h, "voiding", e, "voided", FALSE)
  /\ UNCHANGED <<docusign, request, document>>

\* A variant: DocuSign's refusal is logged, and the row marked all the same.
VoidRegardless(h) ==
  /\ call[h].pc = "voiding"
  /\ IF envelope[call[h].env] \in Out THEN Reach(call[h].env, "voided") ELSE UNCHANGED docusign
  /\ call' = [call EXCEPT ![h].pc = "saving"]
  /\ UNCHANGED <<request, document>>

VoidAtDocusign(h) ==
  /\ call[h].pc = "voiding"
  /\ \/ /\ envelope[call[h].env] \in Out
        /\ Reach(call[h].env, "voided")
        /\ call' = [call EXCEPT ![h].pc = "saving"]
     \/ /\ envelope[call[h].env] \notin Out
        /\ Return(h)
        /\ UNCHANGED docusign
  /\ UNCHANGED <<request, document>>

\* The row after the status column is written: when the answer is a status
\* the application knows, and differs from what the call had read.
WrittenUnmapped(h) ==
  LET c == call[h]  r == request[c.env] IN
  [r EXCEPT !.status = IF c.answer = c.read THEN @ ELSE c.answer,
            !.completedAt = @ \/ c.answer = "completed"]

Written(h) ==
  LET c == call[h]  r == request[c.env] IN
  [r EXCEPT !.status = IF c.answer \in {c.read, Other} THEN @ ELSE c.answer,
            !.completedAt = @ \/ c.answer = "completed"]

Save(h) ==
  /\ call[h].pc = "saving" /\ RowFree(h, call[h].env)
  /\ request' = [request EXCEPT ![call[h].env] = Written(h)]
  /\ Return(h)
  /\ UNCHANGED <<docusign, document>>

------------------------------------------------------------------------------
(***************************************************************************)
(* handle_docusign_webhook.                                                *)
(***************************************************************************)
\* DocuSign posts a notice again until it is answered, and it may post it
\* again even so.
Answer(n) == notices' \in {notices, notices \ {n}}

\* An envelope without a row is answered and forgotten.
IgnoreNotice(n) ==
  /\ request[n.env].status = "none"
  /\ Answer(n)
  /\ UNCHANGED <<envelope, request, document, call>>

\* An event other than a completion is saved like DocuSign's answer to a call.
ReceiveNotice(h, n) ==
  /\ call[h].pc = "idle" /\ request[n.env].status # "none"
  /\ Loaded(h, IF n.status = "completed" THEN "locking" ELSE "saving", n.env, n.status, FALSE)
  /\ Answer(n)
  /\ UNCHANGED <<envelope, request, document>>

\* The query that follows flushes the new status and so locks the row; with
\* nothing new in the event there is nothing to flush.
LockRequest(h) ==
  LET c == call[h] IN
  /\ c.pc = "locking"
  /\ \E locked \in (IF c.read = "completed" THEN BOOLEAN ELSE {TRUE}) :
       /\ locked => RowFree(h, c.env)
       /\ call' = [call EXCEPT ![h].pc = "downloading", ![h].locked = locked]
  /\ UNCHANGED <<docusign, request, document>>

\* The signed file is fetched and stored under the envelope's key; without
\* it the request is marked completed all the same.
Download(h) ==
  /\ call[h].pc = "downloading"
  /\ \E pc \in {"reading", "completing"} : call' = [call EXCEPT ![h].pc = pc]
  /\ UNCHANGED <<docusign, request, document>>

ReadDocument(h) ==
  /\ call[h].pc = "reading"
  /\ call' = [call EXCEPT ![h].pc = "registering", ![h].base = current]
  /\ UNCHANGED <<docusign, request, document>>

\* The unique constraint on (document_id, version_number).
NumberNeverTaken(k) == FALSE

NumberTaken(k) == \E i \in DOMAIN versions : versions[i].number = k

AddVersion(base, key) ==
  /\ versions' = Append(versions, [number |-> base + 1, key |-> key])
  /\ current' = base + 1

\* The version is registered and the transaction committed; or the constraint
\* fails the flush, the session refuses what follows, and all is rolled back.
\* The variant catches the failed insert and commits the rest.
RegisterOrCarryOn(h) ==
  /\ call[h].pc = "registering" /\ RowFree(h, call[h].env)
  /\ request' = [request EXCEPT ![call[h].env] = [Written(h) EXCEPT !.signed = TRUE]]
  /\ IF NumberTaken(call[h].base + 1)
     THEN UNCHANGED document
     ELSE AddVersion(call[h].base, call[h].env) /\ UNCHANGED file
  /\ Return(h)
  /\ UNCHANGED docusign

RegisterSigned(h) ==
  /\ call[h].pc = "registering" /\ RowFree(h, call[h].env)
  /\ IF NumberTaken(call[h].base + 1)
     THEN UNCHANGED <<request, document>>
     ELSE /\ AddVersion(call[h].base, call[h].env)
          /\ request' = [request EXCEPT ![call[h].env] = [Written(h) EXCEPT !.signed = TRUE]]
          /\ UNCHANGED file
  /\ Return(h)
  /\ UNCHANGED docusign

CompleteUnsigned(h) ==
  /\ call[h].pc = "completing" /\ RowFree(h, call[h].env)
  /\ request' = [request EXCEPT ![call[h].env] = Written(h)]
  /\ Return(h)
  /\ UNCHANGED <<docusign, document>>

------------------------------------------------------------------------------
\* register_version: somebody has uploaded a new version.
LoadDocument(h) ==
  /\ call[h].pc = "idle"
  /\ call' = [call EXCEPT ![h] = [pc |-> "versioning", base |-> current]]
  /\ UNCHANGED <<docusign, request, document>>

\* The variant keeps the documents row when the insert fails.
RegisterPartly(h) ==
  LET b == call[h].base IN
  /\ call[h].pc = "versioning"
  /\ current' = b + 1 /\ file' = b + 1
  /\ versions' = IF NumberTaken(b + 1) THEN versions
                 ELSE Append(versions, [number |-> b + 1, key |-> Upload])
  /\ Return(h)
  /\ UNCHANGED <<docusign, request>>

RegisterVersion(h) ==
  /\ call[h].pc = "versioning"
  /\ IF NumberTaken(call[h].base + 1)
     THEN UNCHANGED document
     ELSE AddVersion(call[h].base, Upload) /\ file' = call[h].base + 1
  /\ Return(h)
  /\ UNCHANGED <<docusign, request>>

\* DocuSign does not answer, or the connection or the process dies.
Abandon(h) ==
  /\ call[h].pc # "idle"
  /\ Return(h)
  /\ UNCHANGED <<docusign, request, document>>

------------------------------------------------------------------------------
Bounded == Len(versions) < MaxVersion

Next ==
  \/ \E e \in Envelope : Recipient(e)
  \/ \E h \in Handler, e \in Envelope : SendForSignature(h, e)
  \/ \E h \in Handler : InsertRequest(h)
  \/ \E h \in Handler, e \in Envelope : Refresh(h, e)
  \/ \E h \in Handler : Ask(h)
  \/ \E h \in Handler, e \in Envelope : Void(h, e)
  \/ \E h \in Handler : VoidAtDocusign(h)
  \/ \E h \in Handler : Save(h)
  \/ \E n \in notices : IgnoreNotice(n)
  \/ \E h \in Handler, n \in notices : ReceiveNotice(h, n)
  \/ \E h \in Handler : LockRequest(h)
  \/ \E h \in Handler : Download(h)
  \/ \E h \in Handler : ReadDocument(h)
  \/ \E h \in Handler : Bounded /\ RegisterSigned(h)
  \/ \E h \in Handler : CompleteUnsigned(h)
  \/ \E h \in Handler : LoadDocument(h)
  \/ \E h \in Handler : Bounded /\ RegisterVersion(h)
  \/ \E h \in Handler : Abandon(h)

Spec == Init /\ [][Next]_vars

------------------------------------------------------------------------------
Rows == [status: Status \union {"none"}, completedAt: BOOLEAN, signed: BOOLEAN]

Calls ==
  {Idle}
    \union [pc: {"inserting"}, env: Envelope]
    \union [pc: {"versioning"}, base: 1..MaxVersion]
    \union [pc: {"asking", "voiding", "saving", "locking", "downloading", "reading",
                 "registering", "completing"},
            env: Envelope, read: Status, answer: Status \union {"none", Other},
            locked: BOOLEAN, base: 0..MaxVersion]

TypeOK ==
  /\ envelope \in [Envelope -> Status \union {"none"}]
  /\ notices \subseteq [env: Envelope, status: Status]
  /\ request \in [Envelope -> Rows]
  /\ current \in 1..MaxVersion /\ file \in 1..MaxVersion
  /\ versions \in Seq([number: 1..MaxVersion, key: Envelope \union {Upload}])
  /\ call \in [Handler -> Calls]

\* A request shows an end only if the envelope came to that end, whatever
\* calls and late notices cross: voiding a completed envelope fails at
\* DocuSign, and an end at DocuSign is for good.
OutcomeIsGenuine ==
  \A e \in Envelope : request[e].status \in EndStates => envelope[e] = request[e].status

\* The versions of the document are numbered 1, 2, ... in the order they were
\* registered, and current_version is the last: two calls that read the same
\* current_version do not both succeed.
VersionsAreNumbered ==
  /\ current = Len(versions)
  /\ \A i \in DOMAIN versions : versions[i].number = i

\* signed_document_id, the signed version and the date of completion stand or
\* fall together: no request claims a signed copy the document does not have,
\* and no signed copy belongs to a request that was never completed.
SignedCopyOnFile ==
  \A e \in Envelope :
    /\ request[e].signed <=> \E i \in DOMAIN versions : versions[i].key = e
    /\ request[e].signed \/ request[e].status = "completed" => request[e].completedAt

\* documents.storage_key is the last file somebody uploaded, never that of an
\* upload whose version was refused.
FileIsLastUpload ==
  /\ file \in DOMAIN versions /\ versions[file].key = Upload
  /\ \A i \in DOMAIN versions : versions[i].key = Upload => i <= file

=============================================================================
