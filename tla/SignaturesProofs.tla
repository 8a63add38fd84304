-------------------------- MODULE SignaturesProofs --------------------------
(***************************************************************************)
(* Proofs about Signatures, for every set of envelopes and of calls in     *)
(* flight, every configuration of notices and every bound.                 *)
(*                                                                         *)
(* The type invariant needs the numbering of the versions, because only    *)
(* that keeps a version number within the bound; both are proved together  *)
(* with the fact that a current_version once read is not ahead of the      *)
(* document (VersionInv).  The other invariants are proved on top of it,   *)
(* each with what it needs: OutcomeIsGenuine with the truth of what calls  *)
(* have been told (OutcomeInv), SignedCopyOnFile with what calls know of   *)
(* the rows they will write (RequestsKnown), FileIsLastUpload with         *)
(* nothing more.                                                           *)
(***************************************************************************)
EXTENDS Signatures, SequenceTheorems, TLAPS

LoadedPc == {"asking", "voiding", "saving", "locking", "downloading", "reading",
             "registering", "completing"}

LoadedCall == [pc: LoadedPc, env: Envelope, read: Status,
               answer: Status \union {"none", Other}, locked: BOOLEAN, base: 0..MaxVersion]

\* The record of a call, by how far it got.
LEMMA CallShape ==
  ASSUME TypeOK, NEW h \in Handler
  PROVE  /\ call[h].pc \in LoadedPc => call[h] \in LoadedCall
         /\ call[h].pc = "inserting" => call[h].env \in Envelope
         /\ call[h].pc = "versioning" => call[h].base \in 1..MaxVersion
         /\ call[h].pc \in LoadedPc \union {"idle", "inserting", "versioning"}
<1>1. call[h] \in Calls
  BY DEF TypeOK
<1>2. CASE call[h] = Idle
  BY <1>2 DEF Idle, LoadedPc
<1>3. CASE call[h] \in [pc: {"inserting"}, env: Envelope]
  BY <1>3 DEF LoadedPc
<1>4. CASE call[h] \in [pc: {"versioning"}, base: 1..MaxVersion]
  BY <1>4 DEF LoadedPc
<1>5. CASE call[h] \in LoadedCall
  BY <1>5 DEF LoadedCall, LoadedPc
<1>6. QED
  BY <1>1, <1>2, <1>3, <1>4, <1>5 DEF Calls, LoadedCall, LoadedPc

\* Writing a call's answer to its row gives a row.
LEMMA WrittenType ==
  ASSUME TypeOK, NEW h \in Handler, call[h] \in LoadedCall
  PROVE  /\ Written(h) \in Rows
         /\ [Written(h) EXCEPT !.signed = TRUE] \in Rows
<1>1. request[call[h].env] \in Rows /\ call[h].answer \in Status \union {"none", Other}
  BY DEF TypeOK, LoadedCall
<1>2. Written(h) \in Rows
  BY <1>1 DEF Written, Rows
<1>3. QED
  BY <1>2 DEF Rows

-----------------------------------------------------------------------------
\* No call has read a current_version ahead of the document.
BasesKnown ==
  \A h \in Handler : call[h].pc \in {"versioning", "registering"} => call[h].base <= current

VersionInv == TypeOK /\ VersionsAreNumbered /\ BasesKnown

\* A number that is not taken follows the last one.
LEMMA NextNumber ==
  ASSUME VersionInv, NEW b \in Nat, b <= current, ~NumberTaken(b + 1)
  PROVE  b = current
<1>1. Len(versions) \in Nat /\ DOMAIN versions = 1..Len(versions) /\ current = Len(versions)
  BY DEF VersionInv, TypeOK, VersionsAreNumbered
<1>2. ASSUME b < current
      PROVE  FALSE
  <2>1. b + 1 \in DOMAIN versions
    BY <1>1, <1>2
  <2>2. versions[b + 1].number = b + 1
    BY <2>1 DEF VersionInv, VersionsAreNumbered
  <2>3. QED
    BY <2>1, <2>2 DEF NumberTaken
<1>3. current \in Nat /\ ~(b < current)
  BY <1>1, <1>2
<1>4. QED
  BY <1>3

\* Adding the next version keeps the numbering and its types.
LEMMA VersionAdded ==
  ASSUME VersionInv, Bounded, NEW key \in Envelope \union {Upload},
         AddVersion(current, key)
  PROVE  /\ versions' \in Seq([number: 1..MaxVersion, key: Envelope \union {Upload}])
         /\ current' = current + 1 /\ current' \in 1..MaxVersion
         /\ VersionsAreNumbered'
         /\ Len(versions') = current' /\ versions'[current'].key = key
         /\ \A i \in 1..current : versions'[i] = versions[i]
<1>1. /\ versions \in Seq([number: 1..MaxVersion, key: Envelope \union {Upload}])
      /\ current = Len(versions) /\ current \in 1..MaxVersion /\ current < MaxVersion
  BY DEF VersionInv, TypeOK, VersionsAreNumbered, Bounded
<1>2. current' = current + 1 /\ current' \in 1..MaxVersion
  BY <1>1, MaxVersionAssumption DEF AddVersion
<1>3. [number |-> current + 1, key |-> key] \in [number: 1..MaxVersion, key: Envelope \union {Upload}]
  BY <1>1, <1>2
<1>4. /\ versions' \in Seq([number: 1..MaxVersion, key: Envelope \union {Upload}])
      /\ Len(versions') = Len(versions) + 1
      /\ versions'[Len(versions) + 1] = [number |-> current + 1, key |-> key]
      /\ \A i \in 1..Len(versions) : versions'[i] = versions[i]
  BY <1>1, <1>3, AppendProperties DEF AddVersion
<1>5. VersionsAreNumbered'
  <2>1. \A i \in DOMAIN versions' : versions'[i].number = i
    BY <1>1, <1>4 DEF VersionInv, VersionsAreNumbered
  <2>2. QED
    BY <2>1, <1>1, <1>2, <1>4 DEF VersionsAreNumbered
<1>6. QED
  BY <1>1, <1>2, <1>4, <1>5

DocusignType ==
  /\ envelope \in [Envelope -> Status \union {"none"}]
  /\ notices \subseteq [env: Envelope, status: Status]

\* A loaded call is a call; so is the idle one.
LEMMA LoadedCallIsCall == LoadedCall \subseteq Calls /\ Idle \in Calls
  BY DEF LoadedCall, LoadedPc, Calls

\* A step that changes one call, and DocuSign at most, but no row.
LEMMA CallStep ==
  ASSUME VersionInv, NEW h \in Handler, NEW c \in Calls,
         call' = [call EXCEPT ![h] = c],
         c.pc \in {"versioning", "registering"} => c.base <= current,
         DocusignType', UNCHANGED <<request, current, file, versions>>
  PROVE  VersionInv'
<1>1. TypeOK'
  BY DEF VersionInv, TypeOK, DocusignType
<1>2. BasesKnown'
  BY DEF VersionInv, TypeOK, BasesKnown
<1>3. QED
  BY <1>1, <1>2 DEF VersionInv, VersionsAreNumbered

\* A call that returns having written requests at most.
LEMMA ReturnStep ==
  ASSUME VersionInv, NEW h \in Handler, Return(h),
         DocusignType', request' \in [Envelope -> Rows],
         UNCHANGED <<current, file, versions>>
  PROVE  VersionInv'
<1>1. TypeOK'
  BY LoadedCallIsCall DEF VersionInv, TypeOK, DocusignType, Return
<1>2. BasesKnown'
  BY DEF VersionInv, TypeOK, BasesKnown, Return, Idle
<1>3. QED
  BY <1>1, <1>2 DEF VersionInv, VersionsAreNumbered

\* A call that returns having added the next version.
LEMMA VersionStep ==
  ASSUME VersionInv, Bounded, NEW h \in Handler, Return(h),
         NEW key \in Envelope \union {Upload}, AddVersion(current, key),
         file' \in {file, current + 1}, request' \in [Envelope -> Rows],
         UNCHANGED <<envelope, notices>>
  PROVE  VersionInv'
<1>1. /\ versions' \in Seq([number: 1..MaxVersion, key: Envelope \union {Upload}])
      /\ current' = current + 1 /\ current' \in 1..MaxVersion
      /\ VersionsAreNumbered'
  BY VersionAdded
<1>2. TypeOK'
  BY <1>1, LoadedCallIsCall DEF VersionInv, TypeOK, Return
<1>3. BasesKnown'
  <2>1. current \in Nat
    BY DEF VersionInv, TypeOK
  <2>2. ASSUME NEW o \in Handler, call'[o].pc \in {"versioning", "registering"}
        PROVE  call'[o].base <= current'
    <3>1. o # h /\ call'[o] = call[o]
      BY <2>2 DEF Return, Idle, VersionInv, TypeOK
    <3>2. call[o].base <= current /\ call[o].base \in Nat
      BY <2>2, <3>1, CallShape DEF VersionInv, BasesKnown, LoadedPc, LoadedCall
    <3>3. QED
      BY <1>1, <2>1, <3>1, <3>2
  <2>3. QED
    BY <2>2 DEF BasesKnown
<1>4. QED
  BY <1>1, <1>2, <1>3 DEF VersionInv

\* What DocuSign does to an envelope is well typed.
LEMMA ReachType ==
  ASSUME TypeOK, NEW e \in Envelope, NEW s \in Status, Reach(e, s)
  PROVE  DocusignType'
  BY DEF TypeOK, Reach, DocusignType

LEMMA DocusignUnchanged ==
  ASSUME VersionInv, UNCHANGED <<envelope, notices>>
  PROVE  DocusignType'
  BY DEF VersionInv, TypeOK, DocusignType

\* The type invariant and the numbering of the versions, step by step.
LEMMA VersionInvStep ==
  ASSUME VersionInv, [Next]_vars
  PROVE  VersionInv'
<1>1. ASSUME NEW e \in Envelope, Recipient(e)
      PROVE  VersionInv'
  <2>1. PICK s \in Status : Reach(e, s)
    BY <1>1 DEF Recipient
  <2>2. UNCHANGED <<request, current, file, versions, call>>
    BY <1>1 DEF Recipient, document
  <2>3. TypeOK'
    BY <2>1, <2>2, ReachType DEF VersionInv, TypeOK, DocusignType
  <2>4. QED
    BY <2>2, <2>3 DEF VersionInv, VersionsAreNumbered, BasesKnown
<1>2. ASSUME NEW h \in Handler, NEW e \in Envelope, SendForSignature(h, e)
      PROVE  VersionInv'
  <2>1. DocusignType'
    <3>1. "sent" \in Status
      BY DEF Status, Out
    <3>2. QED
      BY <1>2, <3>1, ReachType DEF SendForSignature, VersionInv
  <2>2. [pc |-> "inserting", env |-> e] \in Calls
    BY DEF Calls
  <2>3. QED
    BY <1>2, <2>1, <2>2, CallStep DEF SendForSignature, document
<1>3. ASSUME NEW h \in Handler, InsertRequest(h)
      PROVE  VersionInv'
  <2>1. [NoRequest EXCEPT !.status = "sent"] \in Rows
    BY DEF NoRequest, Rows, Status, Out
  <2>2. request' \in [Envelope -> Rows]
    BY <1>3, <2>1 DEF InsertRequest, VersionInv, TypeOK
  <2>3. QED
    BY <1>3, <2>2, ReturnStep, DocusignUnchanged DEF InsertRequest, docusign, document
<1>4. ASSUME NEW h \in Handler, NEW e \in Envelope, Refresh(h, e) \/ Void(h, e)
      PROVE  VersionInv'
  <2>1. request[e].status \in Status
    BY <1>4 DEF Refresh, Void, VersionInv, TypeOK, Rows
  <2>2. PICK pc \in {"asking", "voiding"}, a \in {"none", "voided"} : Loaded(h, pc, e, a, FALSE)
    BY <1>4 DEF Refresh, Void
  <2>3. [pc |-> pc, env |-> e, read |-> request[e].status, answer |-> a,
         locked |-> FALSE, base |-> 0] \in LoadedCall
    BY <2>1, MaxVersionAssumption DEF LoadedCall, LoadedPc, Status, EndStates
  <2>4. QED
    BY <1>4, <2>2, <2>3, CallStep, LoadedCallIsCall, DocusignUnchanged
       DEF Refresh, Void, Loaded, docusign, document
<1>5. ASSUME NEW h \in Handler, Ask(h)
      PROVE  VersionInv'
  <2>1. call[h] \in LoadedCall
    BY <1>5, CallShape DEF Ask, VersionInv, LoadedPc
  <2>2. PICK a \in {envelope[call[h].env], Other} :
          call' = [call EXCEPT ![h] = [call[h] EXCEPT !.pc = "saving", !.answer = a]]
    BY <1>5 DEF Ask, VersionInv, TypeOK
  <2>3. a \in Status \union {"none", Other}
    BY <2>1, <2>2 DEF VersionInv, TypeOK, LoadedCall
  <2>4. /\ [call[h] EXCEPT !.pc = "saving", !.answer = a] \in LoadedCall
        /\ [call[h] EXCEPT !.pc = "saving", !.answer = a].pc = "saving"
    BY <2>1, <2>3 DEF LoadedCall, LoadedPc
  <2>5. QED
    BY <1>5, <2>2, <2>4, CallStep, LoadedCallIsCall, DocusignUnchanged DEF Ask, docusign, document
<1>6. ASSUME NEW h \in Handler, VoidAtDocusign(h)
      PROVE  VersionInv'
  <2>1. call[h] \in LoadedCall /\ call[h].env \in Envelope
    BY <1>6, CallShape DEF VoidAtDocusign, VersionInv, LoadedPc, LoadedCall
  <2>2. UNCHANGED <<request, current, file, versions>>
    BY <1>6 DEF VoidAtDocusign, document
  <2>3. CASE Reach(call[h].env, "voided") /\ call' = [call EXCEPT ![h].pc = "saving"]
    <3>1. DocusignType'
      BY <2>1, <2>3, ReachType DEF VersionInv, Status, EndStates
    <3>2. /\ [call[h] EXCEPT !.pc = "saving"] \in LoadedCall
          /\ [call[h] EXCEPT !.pc = "saving"].pc = "saving"
      BY <2>1 DEF LoadedCall, LoadedPc
    <3>3. call' = [call EXCEPT ![h] = [call[h] EXCEPT !.pc = "saving"]]
      BY <2>3 DEF VersionInv, TypeOK
    <3>4. QED
      BY <2>2, <3>1, <3>2, <3>3, CallStep, LoadedCallIsCall
  <2>4. CASE Return(h) /\ UNCHANGED docusign
    BY <2>2, <2>4, ReturnStep, DocusignUnchanged DEF docusign, VersionInv, TypeOK
  <2>5. QED
    BY <1>6, <2>3, <2>4 DEF VoidAtDocusign
<1>7. ASSUME NEW h \in Handler, Save(h) \/ CompleteUnsigned(h)
      PROVE  VersionInv'
  <2>1. call[h] \in LoadedCall /\ call[h].env \in Envelope
    BY <1>7, CallShape DEF Save, CompleteUnsigned, VersionInv, LoadedPc, LoadedCall
  <2>2. Written(h) \in Rows
    BY <2>1, WrittenType DEF VersionInv
  <2>3. request' \in [Envelope -> Rows]
    BY <1>7, <2>1, <2>2 DEF Save, CompleteUnsigned, VersionInv, TypeOK
  <2>4. QED
    BY <1>7, <2>3, ReturnStep, DocusignUnchanged DEF Save, CompleteUnsigned, docusign, document
<1>8. ASSUME NEW n \in notices, IgnoreNotice(n)
      PROVE  VersionInv'
  <2>1. TypeOK'
    BY <1>8 DEF IgnoreNotice, Answer, document, VersionInv, TypeOK
  <2>2. QED
    BY <1>8, <2>1 DEF IgnoreNotice, document, VersionInv, VersionsAreNumbered, BasesKnown
<1>9. ASSUME NEW h \in Handler, NEW n \in notices, ReceiveNotice(h, n)
      PROVE  VersionInv'
  <2>1. n.env \in Envelope /\ n.status \in Status
    BY DEF VersionInv, TypeOK
  <2>2. request[n.env].status \in Status
    BY <1>9, <2>1 DEF ReceiveNotice, VersionInv, TypeOK, Rows
  <2>3. PICK pc \in {"locking", "saving"} : Loaded(h, pc, n.env, n.status, FALSE)
    BY <1>9 DEF ReceiveNotice
  <2>4. [pc |-> pc, env |-> n.env, read |-> request[n.env].status, answer |-> n.status,
         locked |-> FALSE, base |-> 0] \in LoadedCall
    BY <2>1, <2>2, MaxVersionAssumption DEF LoadedCall, LoadedPc
  <2>5. DocusignType'
    BY <1>9 DEF ReceiveNotice, Answer, VersionInv, TypeOK, DocusignType
  <2>6. QED
    BY <1>9, <2>3, <2>4, <2>5, CallStep, LoadedCallIsCall DEF ReceiveNotice, Loaded, document
<1>10. ASSUME NEW h \in Handler, LockRequest(h) \/ Download(h)
       PROVE  VersionInv'
  <2>1. call[h] \in LoadedCall
    BY <1>10, CallShape DEF LockRequest, Download, VersionInv, LoadedPc
  <2>2. PICK pc \in {"downloading", "reading", "completing"}, l \in BOOLEAN :
          call' = [call EXCEPT ![h] = [call[h] EXCEPT !.pc = pc, !.locked = l]]
    <3>1. CASE LockRequest(h)
      BY <3>1 DEF LockRequest, VersionInv, TypeOK
    <3>2. CASE Download(h)
      <4>1. PICK pc \in {"reading", "completing"} : call' = [call EXCEPT ![h].pc = pc]
        BY <3>2 DEF Download
      <4>2. call[h].locked \in BOOLEAN
        BY <2>1 DEF LoadedCall
      <4>3. [call[h] EXCEPT !.pc = pc] = [call[h] EXCEPT !.pc = pc, !.locked = call[h].locked]
        BY <2>1 DEF LoadedCall
      <4>4. call' = [call EXCEPT ![h] = [call[h] EXCEPT !.pc = pc]]
        BY <4>1 DEF VersionInv, TypeOK
      <4>5. QED
        BY <4>2, <4>3, <4>4
    <3>3. QED
      BY <1>10, <3>1, <3>2
  <2>3. /\ [call[h] EXCEPT !.pc = pc, !.locked = l] \in LoadedCall
        /\ [call[h] EXCEPT !.pc = pc, !.locked = l].pc = pc
    BY <2>1 DEF LoadedCall, LoadedPc
  <2>4. QED
    BY <1>10, <2>2, <2>3, CallStep, LoadedCallIsCall, DocusignUnchanged
       DEF LockRequest, Download, docusign, document
<1>11. ASSUME NEW h \in Handler, ReadDocument(h)
       PROVE  VersionInv'
  <2>1. call[h] \in LoadedCall
    BY <1>11, CallShape DEF ReadDocument, VersionInv, LoadedPc
  <2>2. call' = [call EXCEPT ![h] = [call[h] EXCEPT !.pc = "registering", !.base = current]]
    BY <1>11 DEF ReadDocument, VersionInv, TypeOK
  <2>3. current \in 0..MaxVersion /\ current <= current
    BY DEF VersionInv, TypeOK
  <2>4. /\ [call[h] EXCEPT !.pc = "registering", !.base = current] \in LoadedCall
        /\ [call[h] EXCEPT !.pc = "registering", !.base = current].base = current
    BY <2>1, <2>3 DEF LoadedCall, LoadedPc
  <2>5. QED
    BY <1>11, <2>2, <2>3, <2>4, CallStep, LoadedCallIsCall, DocusignUnchanged
       DEF ReadDocument, docusign, document
<1>12. ASSUME NEW h \in Handler, Bounded, RegisterSigned(h)
       PROVE  VersionInv'
  <2>1. call[h] \in LoadedCall /\ call[h].env \in Envelope /\ call[h].base \in Nat
    BY <1>12, CallShape DEF RegisterSigned, VersionInv, LoadedPc, LoadedCall
  <2>2. CASE UNCHANGED <<request, document>>
    BY <1>12, <2>2, ReturnStep, DocusignUnchanged
       DEF RegisterSigned, docusign, document, VersionInv, TypeOK
  <2>3. CASE ~NumberTaken(call[h].base + 1)
    <3>1. call[h].base = current
      BY <1>12, <2>1, <2>3, NextNumber DEF RegisterSigned, VersionInv, BasesKnown
    <3>2. request' \in [Envelope -> Rows]
      BY <1>12, <2>1, <2>3, WrittenType DEF RegisterSigned, VersionInv, TypeOK
    <3>3. QED
      BY <1>12, <2>1, <2>3, <3>1, <3>2, VersionStep DEF RegisterSigned, docusign
  <2>4. QED
    BY <1>12, <2>2, <2>3 DEF RegisterSigned
<1>13. ASSUME NEW h \in Handler, LoadDocument(h)
       PROVE  VersionInv'
  <2>1. [pc |-> "versioning", base |-> current] \in Calls /\ current <= current
    BY DEF Calls, VersionInv, TypeOK
  <2>2. QED
    BY <1>13, <2>1, CallStep, DocusignUnchanged DEF LoadDocument, docusign, document
<1>14. ASSUME NEW h \in Handler, Bounded, RegisterVersion(h)
       PROVE  VersionInv'
  <2>1. call[h].base \in Nat
    BY <1>14, CallShape DEF RegisterVersion, VersionInv
  <2>2. CASE UNCHANGED document
    BY <1>14, <2>2, ReturnStep, DocusignUnchanged
       DEF RegisterVersion, docusign, document, VersionInv, TypeOK
  <2>3. CASE ~NumberTaken(call[h].base + 1)
    <3>1. call[h].base = current
      BY <1>14, <2>1, <2>3, NextNumber DEF RegisterVersion, VersionInv, BasesKnown
    <3>2. QED
      BY <1>14, <2>3, <3>1, VersionStep DEF RegisterVersion, docusign, VersionInv, TypeOK
  <2>4. QED
    BY <1>14, <2>2, <2>3 DEF RegisterVersion
<1>15. ASSUME NEW h \in Handler, Abandon(h)
       PROVE  VersionInv'
  BY <1>15, ReturnStep, DocusignUnchanged DEF Abandon, docusign, document, VersionInv, TypeOK
<1>16. CASE UNCHANGED vars
  BY <1>16 DEF vars, VersionInv, TypeOK, VersionsAreNumbered, BasesKnown
<1>17. QED
  BY <1>1, <1>2, <1>3, <1>4, <1>5, <1>6, <1>7, <1>8, <1>9, <1>10, <1>11, <1>12, <1>13,
     <1>14, <1>15, <1>16 DEF Next

\* The invariant holds of every behaviour.
LEMMA VersionInvariance == Spec => []VersionInv
<1>1. Init => VersionInv
  <2> SUFFICES ASSUME Init
               PROVE  VersionInv
    OBVIOUS
  <2> DEFINE first == [number |-> 1, key |-> Upload]
  <2>1. first \in [number: 1..MaxVersion, key: Envelope \union {Upload}]
    BY MaxVersionAssumption
  <2>2. versions = <<first>> /\ Len(versions) = 1 /\ versions[1] = first
    BY DEF Init
  <2>3. TypeOK
    <3>1. NoRequest \in Rows
      BY DEF NoRequest, Rows
    <3>2. versions \in Seq([number: 1..MaxVersion, key: Envelope \union {Upload}])
      BY <2>1, <2>2
    <3>3. QED
      BY <3>1, <3>2, LoadedCallIsCall, MaxVersionAssumption DEF Init, TypeOK
  <2>4. VersionsAreNumbered
    BY <2>2 DEF Init, VersionsAreNumbered
  <2>5. BasesKnown
    BY DEF Init, BasesKnown, Idle
  <2>6. QED
    BY <2>3, <2>4, <2>5 DEF VersionInv
<1>2. VersionInv /\ [Next]_vars => VersionInv'
  BY VersionInvStep
<1>3. QED
  BY <1>1, <1>2, PTL DEF Spec

\* Every step leaves each variable in its type.
THEOREM TypeCorrect == Spec => []TypeOK
<1>1. VersionInv => TypeOK
  BY DEF VersionInv
<1>2. QED
  BY <1>1, VersionInvariance, PTL

\* However many calls register versions at once, the versions are numbered
\* without a gap and current_version is the last of them.
THEOREM VersionsStayNumbered == Spec => []VersionsAreNumbered
<1>1. VersionInv => VersionsAreNumbered
  BY DEF VersionInv
<1>2. QED
  BY <1>1, VersionInvariance, PTL

-----------------------------------------------------------------------------
(***************************************************************************)
(* OutcomeIsGenuine is not inductive: a call carries what it was told for  *)
(* a while before it writes.  OutcomeInv says that notices and answers     *)
(* that name an end are true as well, which they stay because an end at    *)
(* DocuSign is for good.                                                   *)
(***************************************************************************)
\* What a call was told of an end is so; a call that voids will say voided.
Truthful(c, env) ==
  /\ c.pc = "voiding" => c.answer = "voided"
  /\ (c.pc \in LoadedPc \ {"asking", "voiding"} /\ c.answer \in EndStates)
        => env[c.env] = c.answer

OutcomeInv ==
  /\ \A n \in notices : n.status \in EndStates => envelope[n.env] = n.status
  /\ \A h \in Handler : Truthful(call[h], envelope)
  /\ OutcomeIsGenuine

\* A step keeps the invariant when ends stay, and whatever it says is true.
LEMMA OutcomeKept ==
  ASSUME VersionInv, OutcomeInv,
         \A e \in Envelope : envelope[e] \in EndStates => envelope'[e] = envelope[e],
         \A n \in notices' : n \in notices \/ envelope'[n.env] = n.status,
         \A h \in Handler : call'[h] = call[h] \/ Truthful(call'[h], envelope'),
         \A e \in Envelope : \/ request'[e].status = request[e].status
                             \/ request'[e].status \notin EndStates
                             \/ envelope'[e] = request'[e].status
  PROVE  OutcomeInv'
<1>1. ASSUME NEW n \in notices', n.status \in EndStates
      PROVE  envelope'[n.env] = n.status
  <2>1. CASE n \in notices
    <3>1. n.env \in Envelope /\ envelope[n.env] = n.status
      BY <1>1, <2>1 DEF VersionInv, TypeOK, OutcomeInv
    <3>2. QED
      BY <1>1, <3>1
  <2>2. QED
    BY <2>1
<1>2. ASSUME NEW h \in Handler
      PROVE  Truthful(call'[h], envelope')
  <2>1. CASE call'[h] = call[h]
    <3>1. Truthful(call[h], envelope)
      BY DEF OutcomeInv
    <3>2. call[h].pc \in LoadedPc => call[h].env \in Envelope
      BY CallShape DEF VersionInv, LoadedCall
    <3>3. QED
      BY <2>1, <3>1, <3>2 DEF Truthful
  <2>2. QED
    BY <2>1
<1>3. OutcomeIsGenuine'
  BY DEF OutcomeInv, OutcomeIsGenuine
<1>4. QED
  BY <1>1, <1>2, <1>3 DEF OutcomeInv

\* DocuSign moves an envelope that is out, or sends one, and says so.
LEMMA ReachOutcome ==
  ASSUME VersionInv, NEW e \in Envelope, NEW s \in Status,
         envelope[e] \notin EndStates, Reach(e, s)
  PROVE  /\ \A f \in Envelope : envelope[f] \in EndStates => envelope'[f] = envelope[f]
         /\ \A n \in notices' : n \in notices \/ envelope'[n.env] = n.status
         /\ envelope'[e] = s
  BY DEF Reach, VersionInv, TypeOK

\* A completion under way goes on about its envelope, with its answer.
LEMMA CallAdvances ==
  ASSUME VersionInv, NEW h \in Handler, LockRequest(h) \/ Download(h) \/ ReadDocument(h)
  PROVE  /\ call[h] \in LoadedCall /\ call[h].pc \in {"locking", "downloading", "reading"}
         /\ call'[h].pc \in {"downloading", "reading", "registering", "completing"}
         /\ call'[h].env = call[h].env /\ call'[h].answer = call[h].answer
         /\ \A o \in Handler : call'[o] = call[o] \/ o = h
<1>1. call[h] \in LoadedCall /\ call[h].pc \in {"locking", "downloading", "reading"}
  BY CallShape DEF LockRequest, Download, ReadDocument, VersionInv, LoadedPc
<1>2. CASE LockRequest(h)
  <2>1. PICK l \in BOOLEAN :
          call' = [call EXCEPT ![h] = [call[h] EXCEPT !.pc = "downloading", !.locked = l]]
    BY <1>2 DEF LockRequest, VersionInv, TypeOK
  <2>2. QED
    BY <1>1, <2>1 DEF LoadedCall, VersionInv, TypeOK
<1>3. CASE Download(h)
  <2>1. PICK pc \in {"reading", "completing"} :
          call' = [call EXCEPT ![h] = [call[h] EXCEPT !.pc = pc]]
    BY <1>3 DEF Download, VersionInv, TypeOK
  <2>2. QED
    BY <1>1, <2>1 DEF LoadedCall, VersionInv, TypeOK
<1>4. CASE ReadDocument(h)
  <2>1. call' = [call EXCEPT ![h] = [call[h] EXCEPT !.pc = "registering", !.base = current]]
    BY <1>4 DEF ReadDocument, VersionInv, TypeOK
  <2>2. QED
    BY <1>1, <2>1 DEF LoadedCall, VersionInv, TypeOK
<1>5. QED
  BY <1>1, <1>2, <1>3, <1>4

\* Every step keeps what is said of ends true.
LEMMA OutcomeInvStep ==
  ASSUME VersionInv, OutcomeInv, [Next]_vars
  PROVE  OutcomeInv'
<1> USE DEF docusign, document
<1>1. ASSUME NEW e \in Envelope, Recipient(e)
      PROVE  OutcomeInv'
  <2>1. PICK s \in Status : Reach(e, s)
    BY <1>1 DEF Recipient
  <2>2. envelope[e] \notin EndStates
    BY <1>1 DEF Recipient, Out, EndStates
  <2>3. UNCHANGED <<request, call>>
    BY <1>1 DEF Recipient
  <2>4. QED
    BY <2>1, <2>2, <2>3, ReachOutcome, OutcomeKept
<1>2. ASSUME NEW h \in Handler, NEW e \in Envelope, SendForSignature(h, e)
      PROVE  OutcomeInv'
  <2>1. Reach(e, "sent") /\ "sent" \in Status /\ envelope[e] \notin EndStates
    BY <1>2 DEF SendForSignature, Status, Out, EndStates
  <2>2. Truthful([pc |-> "inserting", env |-> e], envelope')
    BY DEF Truthful, LoadedPc
  <2>3. \A o \in Handler : call'[o] = call[o] \/ Truthful(call'[o], envelope')
    BY <1>2, <2>2 DEF SendForSignature, VersionInv, TypeOK
  <2>4. UNCHANGED request
    BY <1>2 DEF SendForSignature
  <2>5. QED
    BY <2>1, <2>3, <2>4, ReachOutcome, OutcomeKept
<1>3. ASSUME NEW h \in Handler, Return(h)
      PROVE  \A o \in Handler : call'[o] = call[o] \/ Truthful(call'[o], envelope')
  <2>1. Truthful(Idle, envelope')
    BY DEF Truthful, Idle, LoadedPc
  <2>2. QED
    BY <1>3, <2>1 DEF Return, VersionInv, TypeOK
<1>4. ASSUME NEW h \in Handler, InsertRequest(h)
      PROVE  OutcomeInv'
  <2>1. call[h].env \in Envelope
    BY <1>4, CallShape DEF InsertRequest, VersionInv
  <2>2. \A e \in Envelope : request'[e].status = request[e].status \/ request'[e].status \notin EndStates
    BY <1>4, <2>1 DEF InsertRequest, NoRequest, EndStates, VersionInv, TypeOK
  <2>3. QED
    BY <1>3, <1>4, <2>2, OutcomeKept DEF InsertRequest
<1>5. ASSUME NEW h \in Handler, NEW e \in Envelope, Refresh(h, e) \/ Void(h, e)
      PROVE  OutcomeInv'
  <2>1. Truthful(call'[h], envelope')
    BY <1>5 DEF Refresh, Void, Loaded, Truthful, VersionInv, TypeOK
  <2>2. \A o \in Handler : call'[o] = call[o] \/ o = h
    BY <1>5 DEF Refresh, Void, Loaded, VersionInv, TypeOK
  <2>3. QED
    BY <1>5, <2>1, <2>2, OutcomeKept DEF Refresh, Void
<1>6. ASSUME NEW h \in Handler, Ask(h)
      PROVE  OutcomeInv'
  <2>1. call[h] \in LoadedCall
    BY <1>6, CallShape DEF Ask, VersionInv, LoadedPc
  <2>2. /\ call'[h].pc = "saving" /\ call'[h].env = call[h].env
        /\ call'[h].answer \in {envelope[call[h].env], Other}
        /\ \A o \in Handler : call'[o] = call[o] \/ o = h
    BY <1>6, <2>1 DEF Ask, VersionInv, TypeOK, LoadedCall
  <2>3. Truthful(call'[h], envelope)
    BY <2>2 DEF Truthful, Other, EndStates
  <2>4. QED
    BY <1>6, <2>2, <2>3, OutcomeKept DEF Ask
<1>7. ASSUME NEW h \in Handler, VoidAtDocusign(h)
      PROVE  OutcomeInv'
  <2>1. /\ call[h] \in LoadedCall /\ call[h].env \in Envelope
        /\ call[h].answer = "voided" /\ UNCHANGED request
    BY <1>7, CallShape DEF VoidAtDocusign, VersionInv, LoadedPc, LoadedCall, OutcomeInv, Truthful
  <2>2. CASE /\ envelope[call[h].env] \in Out /\ Reach(call[h].env, "voided")
             /\ call' = [call EXCEPT ![h].pc = "saving"]
    <3>1. envelope[call[h].env] \notin EndStates /\ "voided" \in Status
      BY <2>2 DEF Out, EndStates, Status
    <3>2. call'[h].answer = "voided" /\ call'[h].env = call[h].env /\ call'[h].pc = "saving"
      BY <2>1, <2>2 DEF LoadedCall, VersionInv, TypeOK
    <3>3. envelope'[call[h].env] = "voided"
      BY <2>1, <2>2, <3>1, ReachOutcome
    <3>4. Truthful(call'[h], envelope')
      BY <3>2, <3>3 DEF Truthful
    <3>5. \A o \in Handler : call'[o] = call[o] \/ o = h
      BY <2>2 DEF VersionInv, TypeOK
    <3>6. QED
      BY <2>1, <2>2, <3>1, <3>4, <3>5, ReachOutcome, OutcomeKept
  <2>3. CASE Return(h) /\ UNCHANGED docusign
    BY <1>3, <2>1, <2>3, OutcomeKept
  <2>4. QED
    BY <1>7, <2>2, <2>3 DEF VoidAtDocusign
<1>8. ASSUME NEW h \in Handler, call[h].pc \in LoadedPc \ {"asking", "voiding"}
      PROVE  /\ call[h].env \in Envelope /\ call[h] \in LoadedCall
             /\ \/ Written(h).status = request[call[h].env].status
                \/ Written(h).status \notin EndStates
                \/ envelope[call[h].env] = Written(h).status
             /\ [Written(h) EXCEPT !.signed = TRUE].status = Written(h).status
  <2>1. call[h] \in LoadedCall /\ call[h].env \in Envelope
    BY <1>8, CallShape DEF VersionInv, LoadedCall
  <2>2. Truthful(call[h], envelope)
    BY DEF OutcomeInv
  <2>3. Written(h) \in Rows /\ request[call[h].env] \in Rows
    BY <2>1, WrittenType DEF VersionInv, TypeOK
  <2>4. Written(h).status \in {request[call[h].env].status, call[h].answer}
    BY <2>3 DEF Written, Rows
  <2>5. QED
    BY <1>8, <2>1, <2>2, <2>3, <2>4 DEF Truthful, Rows
<1>9. ASSUME NEW h \in Handler, Save(h) \/ CompleteUnsigned(h)
      PROVE  OutcomeInv'
  <2>1. call[h].pc \in LoadedPc \ {"asking", "voiding"}
    BY <1>9 DEF Save, CompleteUnsigned, LoadedPc
  <2>2. \A e \in Envelope : \/ request'[e].status = request[e].status
                            \/ request'[e].status \notin EndStates
                            \/ envelope[e] = request'[e].status
    BY <1>8, <1>9, <2>1 DEF Save, CompleteUnsigned, VersionInv, TypeOK
  <2>3. QED
    BY <1>3, <1>9, <2>2, OutcomeKept DEF Save, CompleteUnsigned
<1>10. ASSUME NEW n \in notices, IgnoreNotice(n)
       PROVE  OutcomeInv'
  BY <1>10, OutcomeKept DEF IgnoreNotice, Answer
<1>11. ASSUME NEW h \in Handler, NEW n \in notices, ReceiveNotice(h, n)
       PROVE  OutcomeInv'
  <2>1. n.status \in EndStates => envelope[n.env] = n.status
    BY DEF OutcomeInv
  <2>2. /\ call'[h].pc \in {"locking", "saving"} /\ call'[h].env = n.env
        /\ call'[h].answer = n.status /\ \A o \in Handler : call'[o] = call[o] \/ o = h
    BY <1>11 DEF ReceiveNotice, Loaded, VersionInv, TypeOK
  <2>3. Truthful(call'[h], envelope)
    BY <2>1, <2>2 DEF Truthful
  <2>4. QED
    BY <1>11, <2>2, <2>3, OutcomeKept DEF ReceiveNotice, Answer
<1>12. ASSUME NEW h \in Handler, LockRequest(h) \/ Download(h) \/ ReadDocument(h)
       PROVE  OutcomeInv'
  <2>1. call[h] \in LoadedCall /\ call[h].pc \in {"locking", "downloading", "reading"}
    BY <1>12, CallAdvances
  <2>2. /\ call'[h].pc \in {"downloading", "reading", "registering", "completing"}
        /\ call'[h].env = call[h].env /\ call'[h].answer = call[h].answer
        /\ \A o \in Handler : call'[o] = call[o] \/ o = h
    BY <1>12, CallAdvances
  <2>3. Truthful(call[h], envelope)
    BY DEF OutcomeInv
  <2>4. Truthful(call'[h], envelope)
    BY <2>1, <2>2, <2>3 DEF Truthful, LoadedPc
  <2>5. QED
    BY <1>12, <2>2, <2>4, OutcomeKept DEF LockRequest, Download, ReadDocument
<1>13. ASSUME NEW h \in Handler, RegisterSigned(h)
       PROVE  OutcomeInv'
  <2>1. call[h].pc \in LoadedPc \ {"asking", "voiding"}
    BY <1>13 DEF RegisterSigned, LoadedPc
  <2>2. \A e \in Envelope : \/ request'[e].status = request[e].status
                            \/ request'[e].status \notin EndStates
                            \/ envelope[e] = request'[e].status
    BY <1>8, <1>13, <2>1 DEF RegisterSigned, VersionInv, TypeOK
  <2>3. QED
    BY <1>3, <1>13, <2>2, OutcomeKept DEF RegisterSigned
<1>14. ASSUME NEW h \in Handler, LoadDocument(h)
       PROVE  OutcomeInv'
  <2>1. Truthful([pc |-> "versioning", base |-> current], envelope)
    BY DEF Truthful, LoadedPc
  <2>2. \A o \in Handler : call'[o] = call[o] \/ Truthful(call'[o], envelope)
    BY <1>14, <2>1 DEF LoadDocument, VersionInv, TypeOK
  <2>3. QED
    BY <1>14, <2>2, OutcomeKept DEF LoadDocument
<1>15. ASSUME NEW h \in Handler, RegisterVersion(h) \/ Abandon(h)
       PROVE  OutcomeInv'
  BY <1>3, <1>15, OutcomeKept DEF RegisterVersion, Abandon
<1>16. CASE UNCHANGED vars
  BY <1>16, OutcomeKept DEF vars
<1>17. QED
  BY <1>1, <1>2, <1>4, <1>5, <1>6, <1>7, <1>9, <1>10, <1>11, <1>12, <1>13, <1>14,
     <1>15, <1>16 DEF Next

\* A request never shows an end that its envelope did not come to, whatever
\* calls and notices cross and however many.
THEOREM OutcomesAreGenuine == Spec => []OutcomeIsGenuine
<1>1. Init => OutcomeInv
  BY DEF Init, OutcomeInv, OutcomeIsGenuine, Truthful, Idle, NoRequest, EndStates, LoadedPc
<1>2. VersionInv /\ OutcomeInv /\ [Next]_vars => OutcomeInv'
  BY OutcomeInvStep
<1>3. OutcomeInv => OutcomeIsGenuine
  BY DEF OutcomeInv
<1>4. QED
  BY <1>1, <1>2, <1>3, VersionInvariance, PTL DEF Spec

-----------------------------------------------------------------------------
(***************************************************************************)
(* The file of the document, and the signed copies.                        *)
(***************************************************************************)
\* What a step may do to the document: nothing, or add the next version, an
\* upload with its file or a signed copy without.
LEMMA DocumentStep ==
  ASSUME VersionInv, [Next]_vars
  PROVE  \/ UNCHANGED document
         \/ Bounded /\ AddVersion(current, Upload) /\ file' = current + 1
         \/ \E e \in Envelope : Bounded /\ AddVersion(current, e) /\ file' = file
<1>1. ASSUME NEW h \in Handler, Bounded, RegisterSigned(h)
      PROVE  \/ UNCHANGED document
             \/ \E e \in Envelope : Bounded /\ AddVersion(current, e) /\ file' = file
  <2>1. call[h].env \in Envelope /\ call[h].base \in Nat
    BY <1>1, CallShape DEF RegisterSigned, VersionInv, LoadedPc, LoadedCall
  <2>2. CASE ~NumberTaken(call[h].base + 1)
    <3>1. call[h].base = current
      BY <1>1, <2>1, <2>2, NextNumber DEF RegisterSigned, VersionInv, BasesKnown
    <3>2. QED
      BY <1>1, <2>1, <2>2, <3>1 DEF RegisterSigned
  <2>3. QED
    BY <1>1, <2>2 DEF RegisterSigned
<1>2. ASSUME NEW h \in Handler, Bounded, RegisterVersion(h)
      PROVE  \/ UNCHANGED document
             \/ Bounded /\ AddVersion(current, Upload) /\ file' = current + 1
  <2>1. call[h].base \in Nat
    BY <1>2, CallShape DEF RegisterVersion, VersionInv
  <2>2. CASE ~NumberTaken(call[h].base + 1)
    <3>1. call[h].base = current
      BY <1>2, <2>1, <2>2, NextNumber DEF RegisterVersion, VersionInv, BasesKnown
    <3>2. QED
      BY <1>2, <2>2, <3>1 DEF RegisterVersion
  <2>3. QED
    BY <1>2, <2>2 DEF RegisterVersion
<1>3. QED
  BY <1>1, <1>2 DEF Next, vars, document, Recipient, SendForSignature, InsertRequest, Refresh,
     Ask, Void, VoidAtDocusign, Save, IgnoreNotice, ReceiveNotice, LockRequest, Download,
     ReadDocument, CompleteUnsigned, LoadDocument, Abandon

\* documents.storage_key stays that of the last upload.
THEOREM FileStaysLastUpload == Spec => []FileIsLastUpload
<1>1. Init => FileIsLastUpload
  BY DEF Init, FileIsLastUpload
<1>2. VersionInv /\ FileIsLastUpload /\ [Next]_vars => FileIsLastUpload'
  <2> SUFFICES ASSUME VersionInv, FileIsLastUpload, [Next]_vars
               PROVE  FileIsLastUpload'
    OBVIOUS
  <2>1. current = Len(versions) /\ current \in Nat /\ DOMAIN versions = 1..current
    BY DEF VersionInv, VersionsAreNumbered, TypeOK
  <2>2. CASE UNCHANGED document
    BY <2>2 DEF document, FileIsLastUpload
  <2>3. ASSUME NEW key \in Envelope \union {Upload}, Bounded, AddVersion(current, key)
        PROVE  /\ DOMAIN versions' = 1..(current + 1)
               /\ versions'[current + 1].key = key
               /\ \A i \in 1..current : versions'[i] = versions[i]
    BY <2>1, <2>3, VersionAdded
  <2>4. CASE Bounded /\ AddVersion(current, Upload) /\ file' = current + 1
    <3>1. file' \in DOMAIN versions' /\ versions'[file'].key = Upload
      BY <2>1, <2>3, <2>4
    <3>2. \A i \in DOMAIN versions' : i <= file'
      BY <2>1, <2>3, <2>4
    <3>3. QED
      BY <3>1, <3>2 DEF FileIsLastUpload
  <2>5. CASE \E e \in Envelope : Bounded /\ AddVersion(current, e) /\ file' = file
    <3>1. PICK e \in Envelope : Bounded /\ AddVersion(current, e) /\ file' = file
      BY <2>5
    <3>2. /\ DOMAIN versions' = 1..(current + 1)
          /\ versions'[current + 1].key = e
          /\ \A i \in 1..current : versions'[i] = versions[i]
      BY <2>3, <3>1
    <3>3. file \in 1..current /\ versions[file].key = Upload
      BY <2>1 DEF FileIsLastUpload
    <3>4. file' \in DOMAIN versions' /\ versions'[file'].key = Upload
      BY <2>1, <3>1, <3>2, <3>3
    <3>5. ASSUME NEW i \in DOMAIN versions', versions'[i].key = Upload
          PROVE  i <= file'
      <4>1. i \in 1..current
        BY <2>1, <3>2, <3>5, KeyAssumption
      <4>2. QED
        BY <2>1, <3>1, <3>2, <3>5, <4>1 DEF FileIsLastUpload
    <3>6. QED
      BY <3>4, <3>5 DEF FileIsLastUpload
  <2>6. QED
    BY <2>2, <2>4, <2>5, DocumentStep
<1>3. QED
  BY <1>1, <1>2, VersionInvariance, PTL DEF Spec

\* What a call knows: it inserts the row of an envelope that has none, it
\* loads only rows that exist, and it registers only what is completed.
Informed(c, env, req) ==
  /\ c.pc = "inserting" => req[c.env].status = "none" /\ env[c.env] # "none"
  /\ c.pc \in LoadedPc => req[c.env].status # "none"
  /\ c.pc \in LoadedPc \ {"asking"} => c.answer # "none"
  /\ c.pc \in {"locking", "downloading", "reading", "registering"} => c.answer = "completed"

\* Rows that do not exist yet are blank, and no two calls insert the same.
RequestsKnown ==
  /\ \A e \in Envelope : /\ request[e].status = "none" => request[e] = NoRequest
                         /\ request[e].status # "none" => envelope[e] # "none"
  /\ \A h \in Handler : Informed(call[h], envelope, request)
  /\ \A h, o \in Handler :
       (call[h].pc = "inserting" /\ call[o].pc = "inserting" /\ call[h].env = call[o].env) => h = o

\* Envelopes that have been sent stay sent, and rows that exist stay.
LEMMA RequestsKnownKept ==
  ASSUME VersionInv, RequestsKnown,
         \A e \in Envelope : envelope[e] # "none" => envelope'[e] # "none",
         \A e \in Envelope : /\ request[e].status # "none" => request'[e].status # "none"
                             /\ request[e].status = "none" => request'[e] = request[e],
         \A h \in Handler : \/ call'[h] = call[h]
                            \/ /\ Informed(call'[h], envelope', request')
                               /\ call'[h].pc # "inserting"
  PROVE  RequestsKnown'
<1>1. ASSUME NEW e \in Envelope
      PROVE  /\ request'[e].status = "none" => request'[e] = NoRequest
             /\ request'[e].status # "none" => envelope'[e] # "none"
  BY DEF RequestsKnown
<1>2. ASSUME NEW h \in Handler
      PROVE  Informed(call'[h], envelope', request')
  <2>1. CASE call'[h] = call[h]
    <3>1. Informed(call[h], envelope, request)
      BY DEF RequestsKnown
    <3>2. call[h].pc \in LoadedPc \union {"inserting"} => call[h].env \in Envelope
      BY CallShape DEF VersionInv, LoadedCall
    <3>3. QED
      BY <2>1, <3>1, <3>2 DEF Informed
  <2>2. QED
    BY <2>1
<1>3. \A h, o \in Handler :
        (call'[h].pc = "inserting" /\ call'[o].pc = "inserting" /\ call'[h].env = call'[o].env) => h = o
  BY DEF RequestsKnown
<1>4. QED
  BY <1>1, <1>2, <1>3 DEF RequestsKnown

\* The row a call writes: its status is the answer or the old one, a
\* completed one has its date, and the copy is the caller's business.
LEMMA WrittenRow ==
  ASSUME VersionInv, RequestsKnown, NEW h \in Handler,
         call[h].pc \in LoadedPc \ {"asking"}
  PROVE  /\ call[h].env \in Envelope /\ Written(h) \in Rows
         /\ request[call[h].env].status # "none" /\ Written(h).status # "none"
         /\ Written(h).signed = request[call[h].env].signed
         /\ request[call[h].env].completedAt => Written(h).completedAt
         /\ call[h].answer = "completed" => Written(h).completedAt
         /\ Written(h).status = "completed" =>
              Written(h).completedAt \/ request[call[h].env].status = "completed"
<1>1. call[h] \in LoadedCall /\ call[h].env \in Envelope
  BY CallShape DEF VersionInv, LoadedCall
<1>2. request[call[h].env] \in Rows /\ Written(h) \in Rows
  BY <1>1, WrittenType DEF VersionInv, TypeOK
<1>3. request[call[h].env].status # "none" /\ call[h].answer # "none"
  BY DEF RequestsKnown, Informed
<1>4. /\ Written(h).status \in {request[call[h].env].status, call[h].answer}
      /\ Written(h).signed = request[call[h].env].signed
      /\ Written(h).completedAt = (request[call[h].env].completedAt \/ call[h].answer = "completed")
      /\ Written(h).status # request[call[h].env].status => Written(h).status = call[h].answer
  BY <1>2 DEF Written, Rows
<1>5. QED
  BY <1>1, <1>2, <1>3, <1>4

\* A call that returns is informed of nothing.
LEMMA ReturnInformed ==
  ASSUME VersionInv, NEW h \in Handler, Return(h)
  PROVE  \A o \in Handler : \/ call'[o] = call[o]
                            \/ /\ Informed(call'[o], envelope', request')
                               /\ call'[o].pc # "inserting"
<1>1. Informed(Idle, envelope', request') /\ Idle.pc # "inserting"
  BY DEF Informed, Idle, LoadedPc
<1>2. QED
  BY <1>1 DEF Return, VersionInv, TypeOK

\* Every step keeps the rows and the calls informed of them.
LEMMA RequestsKnownStep ==
  ASSUME VersionInv, RequestsKnown, [Next]_vars
  PROVE  RequestsKnown'
<1> USE DEF docusign, document
<1>1. ASSUME NEW e \in Envelope, NEW s \in Status, Reach(e, s)
      PROVE  \A f \in Envelope : envelope[f] # "none" => envelope'[f] # "none"
  BY <1>1 DEF Reach, VersionInv, TypeOK, Status, Out, EndStates
<1>2. ASSUME NEW e \in Envelope, Recipient(e)
      PROVE  RequestsKnown'
  <2>1. \A f \in Envelope : envelope[f] # "none" => envelope'[f] # "none"
    BY <1>1, <1>2 DEF Recipient
  <2>2. QED
    BY <1>2, <2>1, RequestsKnownKept DEF Recipient
<1>3. ASSUME NEW h \in Handler, NEW e \in Envelope, SendForSignature(h, e)
      PROVE  RequestsKnown'
  <2>1. /\ envelope[e] = "none" /\ request[e].status = "none" /\ UNCHANGED request
    BY <1>3 DEF SendForSignature, RequestsKnown
  <2>2. /\ envelope' = [envelope EXCEPT ![e] = "sent"]
        /\ \A f \in Envelope : envelope[f] # "none" => envelope'[f] # "none"
        /\ envelope'[e] # "none"
    BY <1>3 DEF SendForSignature, Reach, VersionInv, TypeOK
  <2>3. /\ call'[h] = [pc |-> "inserting", env |-> e]
        /\ \A o \in Handler : o # h => call'[o] = call[o]
    BY <1>3 DEF SendForSignature, VersionInv, TypeOK
  <2>4. Informed([pc |-> "inserting", env |-> e], envelope', request')
    BY <2>1, <2>2 DEF Informed, LoadedPc
  <2>5. ASSUME NEW o \in Handler
        PROVE  Informed(call'[o], envelope', request')
    <3>1. CASE o # h
      <4>1. Informed(call[o], envelope, request)
        BY DEF RequestsKnown
      <4>2. call[o].pc \in LoadedPc \union {"inserting"} => call[o].env \in Envelope
        BY CallShape DEF VersionInv, LoadedCall
      <4>3. QED
        BY <2>1, <2>2, <2>3, <3>1, <4>1, <4>2 DEF Informed
    <3>2. QED
      BY <2>3, <2>4, <3>1
  <2>6. \A o \in Handler : call[o].pc = "inserting" => call[o].env # e
    BY <2>1 DEF RequestsKnown, Informed
  <2>7. \A f \in Envelope : /\ request'[f].status = "none" => request'[f] = NoRequest
                            /\ request'[f].status # "none" => envelope'[f] # "none"
    BY <2>1, <2>2 DEF RequestsKnown
  <2>8. \A o, p \in Handler :
          (call'[o].pc = "inserting" /\ call'[p].pc = "inserting" /\ call'[o].env = call'[p].env) => o = p
    BY <2>3, <2>6 DEF RequestsKnown
  <2>9. QED
    BY <2>5, <2>7, <2>8 DEF RequestsKnown
<1>4. ASSUME NEW h \in Handler, InsertRequest(h)
      PROVE  RequestsKnown'
  <2>1. call[h].pc = "inserting" /\ call[h].env \in Envelope
    BY <1>4, CallShape DEF InsertRequest, VersionInv
  <2>2. envelope[call[h].env] # "none" /\ UNCHANGED envelope
    BY <1>4, <2>1 DEF InsertRequest, RequestsKnown, Informed
  <2>3. /\ request'[call[h].env].status = "sent"
        /\ \A e \in Envelope : e # call[h].env => request'[e] = request[e]
    BY <1>4, <2>1 DEF InsertRequest, NoRequest, VersionInv, TypeOK
  <2>4. call'[h] = Idle /\ \A o \in Handler : o # h => call'[o] = call[o]
    BY <1>4 DEF InsertRequest, Return, VersionInv, TypeOK
  <2>5. ASSUME NEW o \in Handler
        PROVE  Informed(call'[o], envelope', request')
    <3>1. CASE o # h
      <4>1. Informed(call[o], envelope, request)
        BY DEF RequestsKnown
      <4>2. call[o].pc \in LoadedPc \union {"inserting"} => call[o].env \in Envelope
        BY CallShape DEF VersionInv, LoadedCall
      <4>3. call[o].pc = "inserting" => call[o].env # call[h].env
        BY <2>1, <3>1 DEF RequestsKnown
      <4>4. QED
        BY <2>2, <2>3, <2>4, <3>1, <4>1, <4>2, <4>3 DEF Informed
    <3>2. CASE o = h
      BY <2>4, <3>2 DEF Informed, Idle, LoadedPc
    <3>3. QED
      BY <3>1, <3>2
  <2>6. \A e \in Envelope : /\ request'[e].status = "none" => request'[e] = NoRequest
                            /\ request'[e].status # "none" => envelope'[e] # "none"
    BY <2>2, <2>3 DEF RequestsKnown
  <2>7. \A o, p \in Handler :
          (call'[o].pc = "inserting" /\ call'[p].pc = "inserting" /\ call'[o].env = call'[p].env) => o = p
    BY <2>4 DEF RequestsKnown, Idle
  <2>8. QED
    BY <2>5, <2>6, <2>7 DEF RequestsKnown
<1>5. ASSUME NEW h \in Handler, NEW e \in Envelope, Refresh(h, e) \/ Void(h, e)
      PROVE  RequestsKnown'
  <2>1. PICK pc \in {"asking", "voiding"}, a \in {"none", "voided"} :
          Loaded(h, pc, e, a, FALSE) /\ (pc = "voiding" => a = "voided")
    BY <1>5 DEF Refresh, Void
  <2>2. request[e].status # "none"
    BY <1>5 DEF Refresh, Void
  <2>3. /\ call'[h].pc = pc /\ call'[h].env = e /\ call'[h].answer = a
        /\ \A o \in Handler : o = h \/ call'[o] = call[o]
    BY <2>1 DEF Loaded, VersionInv, TypeOK
  <2>4. Informed(call'[h], envelope, request)
    BY <2>1, <2>2, <2>3 DEF Informed
  <2>5. QED
    BY <1>5, <2>3, <2>4, RequestsKnownKept DEF Refresh, Void
<1>6. ASSUME NEW h \in Handler, Ask(h)
      PROVE  RequestsKnown'
  <2>1. call[h] \in LoadedCall /\ call[h].env \in Envelope
    BY <1>6, CallShape DEF Ask, VersionInv, LoadedPc, LoadedCall
  <2>2. request[call[h].env].status # "none" /\ envelope[call[h].env] # "none"
    BY <1>6, <2>1 DEF Ask, RequestsKnown, Informed, LoadedPc
  <2>3. /\ call'[h].pc = "saving" /\ call'[h].env = call[h].env
        /\ call'[h].answer \in {envelope[call[h].env], Other}
        /\ \A o \in Handler : o = h \/ call'[o] = call[o]
    BY <1>6, <2>1 DEF Ask, VersionInv, TypeOK, LoadedCall
  <2>4. Informed(call'[h], envelope, request)
    BY <2>2, <2>3 DEF Informed, Other
  <2>5. QED
    BY <1>6, <2>3, <2>4, RequestsKnownKept DEF Ask
<1>7. ASSUME NEW h \in Handler, VoidAtDocusign(h)
      PROVE  RequestsKnown'
  <2>1. call[h] \in LoadedCall /\ call[h].env \in Envelope /\ UNCHANGED request
    BY <1>7, CallShape DEF VoidAtDocusign, VersionInv, LoadedPc, LoadedCall
  <2>2. CASE Reach(call[h].env, "voided") /\ call' = [call EXCEPT ![h].pc = "saving"]
    <3>1. \A f \in Envelope : envelope[f] # "none" => envelope'[f] # "none"
      BY <1>1, <2>1, <2>2 DEF Status, EndStates
    <3>2. /\ call'[h].pc = "saving" /\ call'[h].env = call[h].env
          /\ call'[h].answer = call[h].answer /\ \A o \in Handler : o = h \/ call'[o] = call[o]
      BY <2>1, <2>2 DEF VersionInv, TypeOK, LoadedCall
    <3>3. call[h].pc = "voiding" /\ Informed(call[h], envelope, request)
      BY <1>7 DEF VoidAtDocusign, RequestsKnown
    <3>4. Informed(call'[h], envelope', request')
      BY <2>1, <3>2, <3>3 DEF Informed, LoadedPc
    <3>5. QED
      BY <2>1, <3>1, <3>2, <3>4, RequestsKnownKept
  <2>3. CASE Return(h) /\ UNCHANGED docusign
    BY <2>1, <2>3, ReturnInformed, RequestsKnownKept
  <2>4. QED
    BY <1>7, <2>2, <2>3 DEF VoidAtDocusign
<1>8. ASSUME NEW h \in Handler, Save(h) \/ CompleteUnsigned(h) \/ RegisterSigned(h)
      PROVE  RequestsKnown'
  <2>1. call[h].pc \in LoadedPc \ {"asking"}
    BY <1>8 DEF Save, CompleteUnsigned, RegisterSigned, LoadedPc
  <2>2. /\ call[h].env \in Envelope /\ Written(h) \in Rows
        /\ request[call[h].env].status # "none" /\ Written(h).status # "none"
    BY <2>1, WrittenRow
  <2>3. [Written(h) EXCEPT !.signed = TRUE].status = Written(h).status
    BY <2>2 DEF Rows
  <2>4. \A e \in Envelope : /\ request[e].status # "none" => request'[e].status # "none"
                            /\ request[e].status = "none" => request'[e] = request[e]
    BY <1>8, <2>2, <2>3 DEF Save, CompleteUnsigned, RegisterSigned, VersionInv, TypeOK
  <2>5. Return(h) /\ UNCHANGED envelope
    BY <1>8 DEF Save, CompleteUnsigned, RegisterSigned
  <2>6. QED
    BY <2>4, <2>5, ReturnInformed, RequestsKnownKept
<1>9. ASSUME NEW n \in notices, IgnoreNotice(n)
      PROVE  RequestsKnown'
  BY <1>9, RequestsKnownKept DEF IgnoreNotice
<1>10. ASSUME NEW h \in Handler, NEW n \in notices, ReceiveNotice(h, n)
       PROVE  RequestsKnown'
  <2>1. request[n.env].status # "none" /\ n.status \in Status
    BY <1>10 DEF ReceiveNotice, VersionInv, TypeOK
  <2>2. /\ call'[h].pc = IF n.status = "completed" THEN "locking" ELSE "saving"
        /\ call'[h].env = n.env /\ call'[h].answer = n.status
        /\ \A o \in Handler : o = h \/ call'[o] = call[o]
    BY <1>10 DEF ReceiveNotice, Loaded, VersionInv, TypeOK
  <2>3. Informed(call'[h], envelope, request)
    BY <2>1, <2>2 DEF Informed, Status, Out, EndStates
  <2>4. QED
    BY <1>10, <2>2, <2>3, RequestsKnownKept DEF ReceiveNotice
<1>11. ASSUME NEW h \in Handler, LockRequest(h) \/ Download(h) \/ ReadDocument(h)
       PROVE  RequestsKnown'
  <2>1. /\ call[h].pc \in {"locking", "downloading", "reading"}
        /\ call'[h].pc \in {"downloading", "reading", "registering", "completing"}
        /\ call'[h].env = call[h].env /\ call'[h].answer = call[h].answer
        /\ \A o \in Handler : call'[o] = call[o] \/ o = h
    BY <1>11, CallAdvances
  <2>2. Informed(call[h], envelope, request)
    BY DEF RequestsKnown
  <2>3. Informed(call'[h], envelope, request)
    BY <2>1, <2>2 DEF Informed, LoadedPc
  <2>4. QED
    BY <1>11, <2>1, <2>3, RequestsKnownKept DEF LockRequest, Download, ReadDocument
<1>12. ASSUME NEW h \in Handler, LoadDocument(h)
       PROVE  RequestsKnown'
  <2>1. Informed([pc |-> "versioning", base |-> current], envelope, request)
    BY DEF Informed, LoadedPc
  <2>2. \A o \in Handler : \/ call'[o] = call[o]
                           \/ /\ Informed(call'[o], envelope, request)
                              /\ call'[o].pc # "inserting"
    BY <1>12, <2>1 DEF LoadDocument, VersionInv, TypeOK
  <2>3. QED
    BY <1>12, <2>2, RequestsKnownKept DEF LoadDocument
<1>13. ASSUME NEW h \in Handler, RegisterVersion(h) \/ Abandon(h)
       PROVE  RequestsKnown'
  BY <1>13, ReturnInformed, RequestsKnownKept DEF RegisterVersion, Abandon
<1>14. CASE UNCHANGED vars
  BY <1>14, RequestsKnownKept DEF vars
<1>15. QED
  BY <1>2, <1>3, <1>4, <1>5, <1>6, <1>7, <1>8, <1>9, <1>10, <1>11, <1>12, <1>13, <1>14 DEF Next

\* A signed copy of e is among the versions.
Copied(e) == \E i \in DOMAIN versions : versions[i].key = e

\* Adding a version adds a copy of what it is a copy of.
LEMMA CopyAdded ==
  ASSUME VersionInv, Bounded, NEW key \in Envelope \union {Upload}, AddVersion(current, key)
  PROVE  \A e \in Envelope : Copied(e)' <=> (Copied(e) \/ key = e)
<1>1. current = Len(versions) /\ current \in Nat /\ DOMAIN versions = 1..current
  BY DEF VersionInv, VersionsAreNumbered, TypeOK
<1>2. /\ DOMAIN versions' = 1..(current + 1)
      /\ versions'[current + 1].key = key
      /\ \A i \in 1..current : versions'[i] = versions[i]
  BY <1>1, VersionAdded
<1>3. ASSUME NEW e \in Envelope
      PROVE  Copied(e)' <=> (Copied(e) \/ key = e)
  <2>1. ASSUME NEW i \in DOMAIN versions', versions'[i].key = e
        PROVE  Copied(e) \/ key = e
    <3>1. CASE i = current + 1
      BY <1>2, <2>1, <3>1
    <3>2. CASE i \in 1..current
      BY <1>1, <1>2, <2>1, <3>2 DEF Copied
    <3>3. QED
      BY <1>1, <1>2, <2>1, <3>1, <3>2
  <2>2. ASSUME Copied(e)
        PROVE  Copied(e)'
    <3>1. PICK i \in DOMAIN versions : versions[i].key = e
      BY <2>2 DEF Copied
    <3>2. i \in DOMAIN versions' /\ versions'[i].key = e
      BY <1>1, <1>2, <3>1
    <3>3. QED
      BY <3>2 DEF Copied
  <2>3. ASSUME key = e
        PROVE  Copied(e)'
    <3>1. current + 1 \in DOMAIN versions' /\ versions'[current + 1].key = e
      BY <1>1, <1>2, <2>3
    <3>2. QED
      BY <3>1 DEF Copied
  <2>4. Copied(e)' => (Copied(e) \/ key = e)
    BY <2>1 DEF Copied
  <2>5. QED
    BY <2>2, <2>3, <2>4
<1>4. QED
  BY <1>3

\* What a row says of its signed copy.
CopyRecorded(r, copied) ==
  /\ r.signed <=> copied
  /\ r.signed \/ r.status = "completed" => r.completedAt

\* Every step records the signed copies it adds, and no others.
LEMMA SignedCopyStep ==
  ASSUME VersionInv, RequestsKnown, SignedCopyOnFile, [Next]_vars
  PROVE  SignedCopyOnFile'
<1> USE DEF docusign, document
<1>1. \A e \in Envelope : CopyRecorded(request[e], Copied(e))
  BY DEF SignedCopyOnFile, CopyRecorded, Copied
<1>2. SUFFICES \A e \in Envelope : CopyRecorded(request'[e], Copied(e)')
  BY DEF SignedCopyOnFile, CopyRecorded, Copied
<1>3. ASSUME UNCHANGED <<request, versions>>
      PROVE  \A e \in Envelope : CopyRecorded(request'[e], Copied(e)')
  BY <1>1, <1>3 DEF Copied
<1>4. ASSUME NEW h \in Handler, InsertRequest(h)
      PROVE  \A e \in Envelope : CopyRecorded(request'[e], Copied(e)')
  <2>1. call[h].env \in Envelope /\ request[call[h].env] = NoRequest
    BY <1>4, CallShape DEF InsertRequest, VersionInv, RequestsKnown, Informed
  <2>2. /\ request'[call[h].env] = [NoRequest EXCEPT !.status = "sent"]
        /\ \A e \in Envelope : e # call[h].env => request'[e] = request[e]
        /\ UNCHANGED versions
    BY <1>4, <2>1 DEF InsertRequest, VersionInv, TypeOK
  <2>3. ~Copied(call[h].env)
    BY <1>1, <2>1 DEF CopyRecorded, NoRequest
  <2>4. CopyRecorded([NoRequest EXCEPT !.status = "sent"], FALSE)
    BY DEF CopyRecorded, NoRequest
  <2>5. \A e \in Envelope : Copied(e)' <=> Copied(e)
    BY <2>2 DEF Copied
  <2>6. QED
    BY <1>1, <2>1, <2>2, <2>3, <2>4, <2>5 DEF CopyRecorded
<1>5. ASSUME NEW h \in Handler, call[h].pc \in LoadedPc \ {"asking"}
      PROVE  CopyRecorded(Written(h), Copied(call[h].env))
  BY <1>1, <1>5, WrittenRow DEF CopyRecorded
<1>6. ASSUME NEW h \in Handler, Save(h) \/ CompleteUnsigned(h)
      PROVE  \A e \in Envelope : CopyRecorded(request'[e], Copied(e)')
  <2>1. call[h].pc \in LoadedPc \ {"asking"}
    BY <1>6 DEF Save, CompleteUnsigned, LoadedPc
  <2>2. /\ call[h].env \in Envelope
        /\ CopyRecorded(Written(h), Copied(call[h].env))
    BY <1>5, <2>1, WrittenRow
  <2>3. /\ \A e \in Envelope : request'[e] = IF e = call[h].env THEN Written(h) ELSE request[e]
        /\ UNCHANGED versions
    BY <1>6, <2>2 DEF Save, CompleteUnsigned, VersionInv, TypeOK
  <2>4. \A e \in Envelope : Copied(e)' <=> Copied(e)
    BY <2>3 DEF Copied
  <2>5. QED
    BY <1>1, <2>2, <2>3, <2>4 DEF CopyRecorded
<1>7. ASSUME NEW h \in Handler, Bounded, RegisterSigned(h)
      PROVE  \A e \in Envelope : CopyRecorded(request'[e], Copied(e)')
  <2>1. /\ call[h].pc \in LoadedPc \ {"asking"} /\ call[h].pc = "registering"
        /\ call[h].env \in Envelope /\ call[h].base \in Nat
    BY <1>7, CallShape DEF RegisterSigned, LoadedPc, VersionInv, LoadedCall
  <2>2. CASE ~NumberTaken(call[h].base + 1)
    <3>1. call[h].base = current
      BY <2>1, <2>2, NextNumber DEF VersionInv, BasesKnown
    <3>2. AddVersion(current, call[h].env)
      BY <1>7, <2>2, <3>1 DEF RegisterSigned
    <3>3. \A e \in Envelope : Copied(e)' <=> (Copied(e) \/ call[h].env = e)
      BY <1>7, <2>1, <3>2, CopyAdded
    <3>4. Written(h) \in Rows /\ Written(h).completedAt
      BY <2>1, WrittenRow DEF RequestsKnown, Informed
    <3>5. CopyRecorded([Written(h) EXCEPT !.signed = TRUE], TRUE)
      BY <3>4 DEF CopyRecorded, Rows
    <3>6. \A e \in Envelope :
            request'[e] = IF e = call[h].env THEN [Written(h) EXCEPT !.signed = TRUE] ELSE request[e]
      BY <1>7, <2>2 DEF RegisterSigned, VersionInv, TypeOK
    <3>7. QED
      BY <1>1, <3>3, <3>5, <3>6 DEF CopyRecorded
  <2>3. QED
    BY <1>3, <1>7, <2>2 DEF RegisterSigned
<1>8. ASSUME NEW h \in Handler, Bounded, RegisterVersion(h)
      PROVE  \A e \in Envelope : CopyRecorded(request'[e], Copied(e)')
  <2>1. call[h].base \in Nat
    BY <1>8, CallShape DEF RegisterVersion, VersionInv
  <2>2. CASE ~NumberTaken(call[h].base + 1)
    <3>1. call[h].base = current
      BY <1>8, <2>1, <2>2, NextNumber DEF RegisterVersion, VersionInv, BasesKnown
    <3>2. AddVersion(current, Upload) /\ UNCHANGED request
      BY <1>8, <2>2, <3>1 DEF RegisterVersion
    <3>3. \A e \in Envelope : Copied(e)' <=> Copied(e)
      BY <1>8, <3>2, CopyAdded, KeyAssumption
    <3>4. QED
      BY <1>1, <3>2, <3>3 DEF CopyRecorded
  <2>3. QED
    BY <1>3, <1>8, <2>2 DEF RegisterVersion
<1>9. QED
  BY <1>3, <1>4, <1>6, <1>7, <1>8 DEF Next, vars, Recipient, SendForSignature, Refresh, Ask,
     Void, VoidAtDocusign, IgnoreNotice, ReceiveNotice, LockRequest, Download, ReadDocument,
     LoadDocument, Abandon

\* A request claims a signed copy exactly when the document has one, and is
\* completed with a date, however many envelopes and uploads share it.
THEOREM SignedCopiesAreOnFile == Spec => []SignedCopyOnFile
<1>1. Init => RequestsKnown /\ SignedCopyOnFile
  <2> SUFFICES ASSUME Init
               PROVE  RequestsKnown /\ SignedCopyOnFile
    OBVIOUS
  <2>1. RequestsKnown
    BY DEF Init, RequestsKnown, Informed, Idle, NoRequest, LoadedPc
  <2>2. \A i \in DOMAIN versions : versions[i].key = Upload
    BY DEF Init
  <2>3. SignedCopyOnFile
    BY <2>2, KeyAssumption DEF Init, SignedCopyOnFile, NoRequest
  <2>4. QED
    BY <2>1, <2>3
<1>2. VersionInv /\ RequestsKnown /\ SignedCopyOnFile /\ [Next]_vars
        => RequestsKnown' /\ SignedCopyOnFile'
  BY RequestsKnownStep, SignedCopyStep
<1>3. QED
  BY <1>1, <1>2, VersionInvariance, PTL DEF Spec

=============================================================================
