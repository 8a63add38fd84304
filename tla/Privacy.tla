------------------------------- MODULE Privacy -------------------------------
(* Privacy requests of a firm's people (privacy_service.py, api/v1/privacy, *)
(* workers/privacy_tasks.py): a request to export or to delete one's data,  *)
(* its review, and the Celery job that anonymizes an account and the        *)
(* stakeholder rows linked to it.  Checks are made on rows read without a   *)
(* lock, a decision commits before its job is dispatched, and the job may   *)
(* be lost, fail, be retried or be delivered twice.                         *)
EXTENDS Naturals, Sequences, FiniteSets

CONSTANTS Users,        \* accounts, members of the firm
          Seats,        \* stakeholders rows
          MaxRequests,  \* bound: privacy_requests rows
          MaxPending,   \* bound: user requests in flight
          MaxRetries,   \* max_retries
          NoUser

\* Accounts and seats are rows of two tables, and no account stands for no link.
PrivacyAssumption == /\ MaxRequests \in Nat /\ MaxRetries \in Nat
                     /\ Users \cap Seats = {} /\ NoUser \notin Users

VARIABLES request,   \* privacy_requests, in the order of their insertion
          named,     \* accounts and seats that carry personal data
          linked,    \* [Seats -> user_id, or NoUser]; a seat with neither a link
                     \* nor personal data has not been inserted
          pending,   \* user requests that have read and not yet written
          jobs,      \* process_deletion_request jobs, queued or running
          approvals, \* requests somebody approved
          excused    \* requests reviewed twice at once, and users who got a seat
                     \* while a deletion was reading or had read their seats

vars == <<request, named, linked, pending, jobs, approvals, excused>>

PrivacyRequestType == {"data_export", "data_deletion"}
PrivacyRequestStatus == {"pending", "approved", "processing", "completed", "rejected"}
OpenStatus == {"pending", "approved", "processing"}
PrivacyRequest == [user: Users, type: PrivacyRequestType, status: PrivacyRequestStatus]
Job == [id: 1..MaxRequests, tries: 0..MaxRetries, running: BOOLEAN, seats: SUBSET Seats]

Init == /\ request = <<>> /\ named = Users
        /\ linked = [s \in Seats |-> NoUser]
        /\ pending = {} /\ jobs = {} /\ approvals = {} /\ excused = {}

OpenRequests(u, t) ==
  {i \in DOMAIN request : request[i].user = u /\ request[i].type = t
                          /\ request[i].status \in OpenStatus}

Begin(r) == /\ r \notin pending /\ Cardinality(pending) < MaxPending
            /\ pending' = pending \cup {r}

------------------------------------------------------------------------------
(* Requests and reviews *)

\* POST /request: refused while one of the type is open ...
BeginCreate(u, t) ==
  /\ u \in named /\ OpenRequests(u, t) = {}
  /\ Begin([op |-> "create", user |-> u, type |-> t])
  /\ UNCHANGED <<request, named, linked, jobs, approvals, excused>>
\* ... then inserted; an export approves itself, and no job is dispatched for it.
CreateRequest(r) ==
  /\ r.op = "create" /\ Len(request) < MaxRequests
  /\ request' = Append(request, [user |-> r.user, type |-> r.type,
                  status |-> IF r.type = "data_export" THEN "approved" ELSE "pending"])
  /\ pending' = pending \ {r}
  /\ UNCHANGED <<named, linked, jobs, approvals, excused>>

\* POST /admin/{id}/review by an owner or admin: a pending request ...
BeginReview(i, action) ==
  /\ i \in DOMAIN request /\ request[i].status = "pending"
  /\ Begin([op |-> "review", id |-> i, action |-> action])
  /\ excused' = IF \E r \in pending : r.op = "review" /\ r.id = i THEN excused \cup {i} ELSE excused
  /\ UNCHANGED <<request, named, linked, jobs, approvals>>
\* ... is decided by its id, whatever has become of it.
ReviewRequest(r) ==
  request' = [request EXCEPT ![r.id].status =
                IF r.action = "approve" THEN "approved" ELSE "rejected"]
\* The job follows the commit, if the broker takes it.
ReviewPrivacyRequest(r) ==
  /\ r.op = "review" /\ ReviewRequest(r)
  /\ IF r.action = "approve" /\ request[r.id].type = "data_deletion"
     THEN /\ approvals' = approvals \cup {r.id}
          /\ \/ jobs' = jobs \cup {[id |-> r.id, tries |-> 0, running |-> FALSE, seats |-> {}]}
             \/ UNCHANGED jobs
     ELSE UNCHANGED <<approvals, jobs>>
  /\ pending' = pending \ {r}
  /\ UNCHANGED <<named, linked, excused>>

\* invite_stakeholder looks the address up among the accounts: a seat with an
\* account is inserted accepted and linked, one without waits for its answer.
\* create_matter gives its creator such a seat.
BeginSeat(s, u) ==
  /\ linked[s] = NoUser /\ s \notin named
  /\ \A r \in pending : r.op = "insert" => r.seat # s
  /\ Begin([op |-> "insert", seat |-> s, user |-> u])
  /\ UNCHANGED <<request, named, linked, jobs, approvals, excused>>
BeginInvite(s, u) == u \in (named \cap Users) \cup {NoUser} /\ BeginSeat(s, u)
BeginCreateMatter(s, u) == u \in named \cap Users /\ BeginSeat(s, u)

\* accept_invite links a seat nobody has accepted to the account that was looked
\* up when the request came in, and writes its address to it; the later of two wins.
BeginAccept(s, u) ==
  /\ u \in named /\ linked[s] = NoUser /\ s \in named
  /\ Begin([op |-> "accept", seat |-> s, user |-> u])
  /\ UNCHANGED <<request, named, linked, jobs, approvals, excused>>
\* The seat is committed, inserted or accepted.
CommitSeat(r) ==
  /\ r.op \in {"insert", "accept"}
  /\ linked' = [linked EXCEPT ![r.seat] = r.user]
  /\ named' = named \cup {r.seat}
  /\ excused' = IF \/ r.user \notin named
                   \/ \E j \in jobs : j.running /\ (request[j.id].user = r.user \/ r.seat \in j.seats)
                THEN excused \cup ({r.user} \ {NoUser}) ELSE excused
  /\ pending' = pending \ {r}
  /\ UNCHANGED <<request, jobs, approvals>>

------------------------------------------------------------------------------
(* The job *)

\* Another delivery of the job holds the request's row.
Held(i) == \E j \in jobs : j.id = i /\ j.running

\* process_deletion takes an approved request and reads the seats linked to
\* its user.
StartDeletion(j) ==
  /\ ~j.running /\ ~Held(j.id)
  /\ request[j.id].status = "approved"
  /\ LET u == request[j.id].user
     IN jobs' = (jobs \ {j}) \cup
                  {[j EXCEPT !.running = TRUE, !.seats = {s \in Seats : linked[s] = u}]}
  /\ UNCHANGED <<request, named, linked, pending, approvals, excused>>

\* Slip: only the account.
FinishDeletionAccountOnly(j) ==
  /\ j.running
  /\ request' = [request EXCEPT ![j.id].status = "completed"]
  /\ named' = named \ {request[j.id].user}
  /\ \/ jobs' = jobs \ {j}
     \/ jobs' = (jobs \ {j}) \cup {[j EXCEPT !.running = FALSE, !.seats = {}]}
  /\ UNCHANGED <<linked, pending, approvals, excused>>
\* It anonymizes them and the account and completes the request, in one
\* transaction; the message may be delivered once more.
FinishDeletion(j) ==
  /\ j.running
  /\ request' = [request EXCEPT ![j.id].status = "completed"]
  /\ named' = named \ (j.seats \cup {request[j.id].user})
  /\ \/ jobs' = jobs \ {j}
     \/ jobs' = (jobs \ {j}) \cup {[j EXCEPT !.running = FALSE, !.seats = {}]}
  /\ UNCHANGED <<linked, pending, approvals, excused>>

\* Slip: the retries are not counted.
FailDeletionForever(j) ==
  /\ j.running \/ request[j.id].status # "approved"
  /\ jobs' = (jobs \ {j}) \cup {[j EXCEPT !.running = FALSE, !.tries = @ + 1, !.seats = {}]}
  /\ UNCHANGED <<request, named, linked, pending, approvals, excused>>
\* It fails (the request is not approved, or anything else) and is retried,
\* three times at most.
FailDeletion(j) ==
  /\ j.running \/ request[j.id].status # "approved"
  /\ jobs' = (jobs \ {j}) \cup
       (IF j.tries = MaxRetries THEN {}
        ELSE {[j EXCEPT !.running = FALSE, !.tries = @ + 1, !.seats = {}]})
  /\ UNCHANGED <<request, named, linked, pending, approvals, excused>>

Next == \/ \E u \in Users : \/ \E t \in PrivacyRequestType : BeginCreate(u, t)
                            \/ \E s \in Seats : \/ BeginAccept(s, u)
                                               \/ BeginCreateMatter(s, u)
        \/ \E s \in Seats, u \in Users \cup {NoUser} : BeginInvite(s, u)
        \/ \E i \in 1..MaxRequests, action \in {"approve", "reject"} : BeginReview(i, action)
        \/ \E r \in pending : CreateRequest(r) \/ ReviewPrivacyRequest(r) \/ CommitSeat(r)
        \/ \E j \in jobs : StartDeletion(j) \/ FinishDeletion(j) \/ FailDeletion(j)

Spec == Init /\ [][Next]_vars

------------------------------------------------------------------------------
(* What the firm's people get to see *)

\* build_data_export: the rows of a user that carry personal data.
BuildDataExport(u) == {s \in Seats : linked[s] = u} \cup {u}
\* GET /my-requests
ListMyRequests(u) == {i \in DOMAIN request : request[i].user = u}
\* GET /admin/queue
ListRequests(statuses) == {i \in DOMAIN request : request[i].status \in statuses}

TypeOK ==
  /\ Len(request) <= MaxRequests /\ \A i \in DOMAIN request : request[i] \in PrivacyRequest
  /\ named \subseteq Users \cup Seats /\ linked \in [Seats -> Users \cup {NoUser}]
  /\ \A r \in pending : r.op \in {"create", "review", "insert", "accept"}
  /\ jobs \subseteq Job /\ approvals \subseteq DOMAIN request
  /\ excused \subseteq Users \cup DOMAIN request

\* Deletions are whole and approved: once a deletion is completed an export of
\* the user holds nothing that still carries personal data, and an account or
\* seat has lost its data only if a deletion of its user was approved and, but
\* for two reviews at once, is completed.  Whatever happens to the jobs.
DeletionIsWhole ==
  /\ \A i \in ListRequests({"completed"}) \ excused :
       request[i].user \notin excused => BuildDataExport(request[i].user) \cap named = {}
  /\ \A u \in Users \ excused : BuildDataExport(u) \ named # {} =>
       \E i \in ListMyRequests(u) \cap approvals :
         request[i].status = "completed" \/ i \in excused
=============================================================================
