---------------------------- MODULE Notifications ----------------------------
(* E-mail: the notification tasks (notification_tasks.py) look up whom to   *)
(* tell and queue one send_templated_email per recipient; that task sends   *)
(* and logs (email_service.py).  Each task is run at least once, is retried *)
(* from its start when it raises, and can be lost with its worker and       *)
(* delivered again.  What a task looks up is an input: the rows are other   *)
(* components', read in a session of the task's own.                        *)
EXTENDS Naturals, Sequences, FiniteSets

CONSTANTS Notices,      \* messages for the notification tasks
          People,       \* e-mail addresses
          Nobody,
          MaxRetries,   \* max_retries
          MaxMails,     \* bound: e-mails queued
          MaxCrashes    \* bound: workers lost

NoticesAssumption == {MaxRetries, MaxMails, MaxCrashes} \subseteq Nat

VARIABLES notice,   \* [Notices -> the message and how far it is]
          mails,    \* e-mails queued, in order: send_templated_email or send_email
          inbox,    \* deliveries: [Notices -> [People -> Nat]]
          logged,   \* email_logs: for each e-mail, the rows that say sent
          crashes,
          excused   \* notices that met a failure after part of their work was done

vars == <<notice, mails, inbox, logged, crashes, excused>>

Lookups == {"invitation", "assignment", "reminder", "missed", "milestone", "uploaded"}
Addressed == {"overdue", "distribution", "request"}   \* the message names the recipient
Plain == "zip"   \* generate_bulk_download queues a send_email of its own
Blank == [task |-> Plain, at |-> "none", to |-> Nobody, told |-> {}, left |-> {}, tries |-> 0]

Init == /\ notice = [n \in Notices |-> Blank]
        /\ mails = <<>> /\ logged = <<>>
        /\ inbox = [n \in Notices |-> [p \in People |-> 0]]
        /\ crashes = 0 /\ excused = {}

Set(n, new) == notice' = [notice EXCEPT ![n] = new]
Mail(n, p, plain) ==
  /\ Len(mails) < MaxMails
  /\ mails' = Append(mails, [notice |-> n, to |-> p, plain |-> plain, at |-> "queued", tries |-> 0])
  /\ logged' = Append(logged, 0)

------------------------------------------------------------------------------
(* Dispatch: .delay() of a task, from a request or from another task *)

Dispatch(n, task, p) ==
  /\ notice[n].at = "none" /\ task \in Lookups \cup Addressed
  /\ p \in (IF task \in Addressed THEN People ELSE {Nobody})
  /\ Set(n, [Blank EXCEPT !.task = task, !.to = p, !.at = "queued"])
  /\ UNCHANGED <<mails, inbox, logged, crashes, excused>>

\* check_overdue_tasks, for one task: its assignee, and the matter admins with
\* another address, a message each.
OverdueRecipients(assignee, admins) == (admins \cup {assignee}) \ {Nobody}
CheckOverdueTask(to) ==   \* to: [OverdueRecipients -> Notices], one message each
  /\ \A p, q \in DOMAIN to : to[p] = to[q] => p = q
  /\ \A p \in DOMAIN to : notice[to[p]].at = "none"
  /\ notice' = [n \in Notices |->
       IF \E p \in DOMAIN to : to[p] = n
       THEN [Blank EXCEPT !.task = "overdue", !.at = "queued",
                          !.to = CHOOSE p \in DOMAIN to : to[p] = n]
       ELSE notice[n]]
  /\ UNCHANGED <<mails, inbox, logged, crashes, excused>>

\* generate_bulk_download: the ZIP is ready.
SendZipLink(n, p) ==
  /\ notice[n].at = "none"
  /\ Set(n, [Blank EXCEPT !.at = "done", !.to = p, !.told = {p}])
  /\ Mail(n, p, TRUE)
  /\ UNCHANGED <<inbox, crashes, excused>>

------------------------------------------------------------------------------
(* The notification tasks *)

Running(n, task) == notice[n].at = "queued" /\ notice[n].task = task
Start(n, recipients) ==
  /\ Set(n, [notice[n] EXCEPT !.at = "started", !.left = recipients, !.told = recipients])
  /\ UNCHANGED <<mails, inbox, logged, crashes, excused>>
Skip(n) == /\ Set(n, [notice[n] EXCEPT !.at = "skipped"])
           /\ UNCHANGED <<mails, inbox, logged, crashes, excused>>
OneOrSkip(n, p) == IF p = Nobody THEN Skip(n) ELSE Start(n, {p})

SendStakeholderInvitation(n, stakeholder) ==
  Running(n, "invitation") /\ OneOrSkip(n, stakeholder)
\* Both the task and the assignee must be found.
SendTaskAssignment(n, found, assignee) ==
  Running(n, "assignment") /\ OneOrSkip(n, IF found THEN assignee ELSE Nobody)
SendTaskOverdue(n) == Running(n, "overdue") /\ Start(n, {notice[n].to})
SendDeadlineReminder(n, found, assignee) ==
  Running(n, "reminder") /\ OneOrSkip(n, IF found THEN assignee ELSE Nobody)
\* The assignee, if any, and every matter admin with another address.
SendDeadlineMissed(n, found, assignee, admins) ==
  /\ Running(n, "missed")
  /\ IF found THEN Start(n, (admins \cup {assignee}) \ {Nobody}) ELSE Skip(n)
\* Those of the stakeholders named that are still there; none is no error.
SendMilestone(n, stakeholders) == Running(n, "milestone") /\ Start(n, stakeholders)
SendDistributionNotice(n) == Running(n, "distribution") /\ Start(n, {notice[n].to})
SendDocumentRequest(n) == Running(n, "request") /\ Start(n, {notice[n].to})
SendUploadComplete(n, found, requester) ==
  Running(n, "uploaded") /\ OneOrSkip(n, IF found THEN requester ELSE Nobody)

\* The loop over the recipients: send_templated_email.delay.
Queue(n, p) ==
  /\ notice[n].at = "started" /\ p \in notice[n].left
  /\ Set(n, [notice[n] EXCEPT !.left = @ \ {p}])
  /\ Mail(n, p, FALSE) /\ UNCHANGED <<inbox, crashes, excused>>
Return(n) ==
  /\ notice[n].at = "started" /\ notice[n].left = {}
  /\ Set(n, [notice[n] EXCEPT !.at = "done"])
  /\ UNCHANGED <<mails, inbox, logged, crashes, excused>>

\* self.retry: the task from its start, until there have been MaxRetries.
Again(tries) == IF tries < MaxRetries THEN "queued" ELSE "gave up"
\* Slip: a retry goes on where the one before it ended.
RaiseDone(n) ==
  /\ notice[n].at \in {"queued", "started"}
  /\ Set(n, [notice[n] EXCEPT !.at = IF @ = "started" THEN "done" ELSE Again(notice[n].tries),
                              !.tries = @ + 1])
  /\ UNCHANGED <<mails, inbox, logged, crashes, excused>>
\* A lookup or a .delay raises.
Raise(n) ==
  /\ notice[n].at \in {"queued", "started"} /\ notice[n].tries <= MaxRetries
  /\ Set(n, [notice[n] EXCEPT !.at = Again(notice[n].tries), !.tries = @ + 1, !.left = {}])
  /\ excused' = IF notice[n].left # notice[n].told THEN excused \cup {n} ELSE excused
  /\ UNCHANGED <<mails, inbox, logged, crashes>>

------------------------------------------------------------------------------
(* send_templated_email and send_email *)

Upto(i, at) == mails' = [mails EXCEPT ![i].at = at]
Retry(i) == mails' = [mails EXCEPT ![i].at = Again(mails[i].tries), ![i].tries = @ + 1]

\* email_service.send_email: Resend, or Mailpit, accepts the message.
Deliver(i) ==
  /\ mails[i].at = "queued"
  /\ inbox' = [inbox EXCEPT ![mails[i].notice][mails[i].to] = @ + 1]
  /\ Upto(i, "delivered")
  /\ UNCHANGED <<notice, logged, crashes, excused>>
\* log_email_sync, with a connection of its own.
LogSent(i) ==
  /\ mails[i].at = "delivered" /\ Upto(i, "done")
  /\ logged' = [logged EXCEPT ![i] = @ + 1]
  /\ UNCHANGED <<notice, inbox, crashes, excused>>
\* The provider or log_email_sync raises.  The failure is logged (a row no
\* property reads) and the task retried; send_templated_email is retried also
\* when that row cannot be written, where send_email is not.
Fail(i, logging) ==
  /\ mails[i].at \in {"queued", "delivered"}
  /\ IF mails[i].plain /\ ~logging THEN Upto(i, "lost") ELSE Retry(i)
  /\ excused' = IF mails[i].at = "delivered" THEN excused \cup {mails[i].notice} ELSE excused
  /\ UNCHANGED <<notice, inbox, logged, crashes>>

\* task_acks_late, task_reject_on_worker_lost: the message is delivered again.
LoseWorker(n, i) ==
  /\ crashes < MaxCrashes /\ crashes' = crashes + 1
  /\ \/ /\ n \in Notices /\ notice[n].at = "started"
        /\ Set(n, [notice[n] EXCEPT !.at = "queued", !.left = {}])
        /\ excused' = IF notice[n].left # notice[n].told THEN excused \cup {n} ELSE excused
        /\ UNCHANGED mails
     \/ /\ i \in DOMAIN mails /\ mails[i].at = "delivered" /\ Upto(i, "queued")
        /\ excused' = excused \cup {mails[i].notice} /\ UNCHANGED notice
  /\ UNCHANGED <<inbox, logged>>

Task(n) ==
  \/ SendTaskOverdue(n) \/ SendDistributionNotice(n) \/ SendDocumentRequest(n)
  \/ Return(n) \/ Raise(n)
  \/ \E p \in People : Queue(n, p)
  \/ \E found \in BOOLEAN, p \in People \cup {Nobody} :
       \/ SendStakeholderInvitation(n, p)
       \/ SendTaskAssignment(n, found, p)
       \/ SendDeadlineReminder(n, found, p)
       \/ SendUploadComplete(n, found, p)
       \/ \E admins \in SUBSET People : SendDeadlineMissed(n, found, p, admins)
  \/ \E stakeholders \in SUBSET People : SendMilestone(n, stakeholders)

Next ==
  \/ \E n \in Notices :
       \/ \E task \in Lookups \cup Addressed, p \in People \cup {Nobody} : Dispatch(n, task, p)
       \/ \E p \in People : SendZipLink(n, p)
       \/ Task(n)
  \/ \E p \in People \cup {Nobody}, admins \in SUBSET People :
       \E to \in [OverdueRecipients(p, admins) -> Notices] : CheckOverdueTask(to)
  \/ \E i \in DOMAIN mails : Deliver(i) \/ LogSent(i) \/ Fail(i, TRUE) \/ Fail(i, FALSE)
  \/ \E n \in Notices, i \in 1..MaxMails : LoseWorker(n, i)

Spec == Init /\ [][Next]_vars

------------------------------------------------------------------------------
TypeOK ==
  /\ notice \in [Notices -> [task: Lookups \cup Addressed \cup {Plain},
                             at: {"none", "queued", "started", "done", "skipped", "gave up"},
                             to: People \cup {Nobody}, told: SUBSET People,
                             left: SUBSET People, tries: 0..(MaxRetries + 1)]]
  /\ DOMAIN logged = DOMAIN mails /\ Len(mails) <= MaxMails
  /\ \A i \in DOMAIN mails :
       /\ mails[i] \in [notice: Notices, to: People, plain: BOOLEAN, tries: 0..(MaxRetries + 1),
                        at: {"queued", "delivered", "done", "gave up", "lost"}]
       /\ logged[i] \in Nat
  /\ inbox \in [Notices -> [People -> Nat]]
  /\ crashes \in 0..MaxCrashes /\ excused \subseteq Notices

\* Whoever a notice that is done was for has it, or will, or was tried
\* MaxRetries + 1 times; nobody has it twice, unless a failure left part of the
\* work to be repeated; and no e-mail is logged as sent more often than it was.
EveryoneToldOnce ==
  \A n \in Notices :
    LET For(p) == {i \in DOMAIN mails : mails[i].notice = n /\ mails[i].to = p} IN
    /\ notice[n].at = "done" => \A p \in notice[n].told :
         \/ inbox[n][p] > 0
         \/ \E i \in For(p) : \/ mails[i].at = "queued" \/ mails[i].tries > MaxRetries
                              \/ mails[i].plain /\ mails[i].at = "lost"
    /\ n \notin excused => \A p \in People : inbox[n][p] <= 1
    /\ \A p \in People : \A i \in For(p) : logged[i] <= inbox[n][p]
=============================================================================
