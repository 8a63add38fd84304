--------------------------- MODULE DeadlineMonitor ---------------------------
(***************************************************************************)
(* The deadlines of one matter: the hourly check_deadlines job             *)
(* (backend/app/workers/deadline_tasks.py, services/deadline_service.py)   *)
(* racing the PATCHes of users and the calendar.                           *)
(*                                                                         *)
(* Celery beat queues a run every hour; a backlog is taken by several      *)
(* workers at once.  Messages are acknowledged late: a worker that dies,   *)
(* even after its commit, has its message delivered again.  A run is one   *)
(* READ COMMITTED transaction that selects rows and then updates them one  *)
(* by one, in an order nothing fixes.  An UPDATE writes only the columns   *)
(* the session changed, and locks the row until the transaction ends.      *)
(*                                                                         *)
(* Days are numbers; 0 stands for "no reminder sent yet".                  *)
(***************************************************************************)
EXTENDS Integers, Sequences, FiniteSets, SequencesExt, Functions

CONSTANTS
  Worker, User,    \* worker processes, user requests in flight
  Deadline,
  LastDay,         \* bound: the calendar stops here
  NewDeadline,     \* the rows create_deadline may insert
  Patch,           \* the updates users send: partial rows
  Null,            \* an explicit null in an update
  MaxQueued,       \* bound: messages waiting in the broker
  MaxRetries,      \* deliveries of a failing message after the first
  MaxCrashes       \* bound: worker deaths

Day == 1..LastDay
Status == {"upcoming", "completed", "extended", "missed"}
Absent == [status |-> "absent"]

Columns == {"status", "due", "config", "reminded"}
Column(f) == [status |-> Status, due |-> Day, config |-> SUBSET Int, reminded |-> 0..LastDay][f]

ASSUME BoundAssumption ==
  /\ LastDay \in Nat \ {0} /\ MaxQueued \in Nat \ {0}
  /\ MaxRetries \in Nat /\ MaxCrashes \in Nat
  /\ Worker \intersect User = {}

\* Requests are validated by their schemas (DeadlineCreate, DeadlineUpdate): a
\* patch has no field for the day of the last reminder.
ASSUME InputAssumption ==
  /\ IsFiniteSet(Deadline)
  /\ \A n \in NewDeadline : n.id \in Deadline /\ n.due \in Day /\ n.config \in SUBSET Int
  /\ \A p \in Patch : /\ DOMAIN p \subseteq Columns \ {"reminded"}
                     /\ \A f \in DOMAIN p : p[f] = Null \/ p[f] \in Column(f)

Session == Worker \union User

VARIABLES
  today,
  active,     \* whether the matter's status is active
  row,        \* committed deadlines rows
  sent,       \* committed reminder_sent events, counted per deadline and day
  queue,      \* messages waiting, by the number of times they failed
  session,    \* per worker or user: its run or request
  pending,    \* per session and deadline: the columns written and not committed
  crashes

vars == <<today, active, row, sent, queue, session, pending, crashes>>
tables == <<row, sent>>
calendar == <<today, active>>

Idle == [pc |-> "idle"]
NoColumns == [f \in {} |-> 0]

Init ==
  /\ today = 1
  /\ active = TRUE
  /\ row = [d \in Deadline |-> Absent]
  /\ sent = [d \in Deadline |-> [e \in Day |-> 0]]
  /\ queue = [n \in 0..MaxRetries |-> 0]
  /\ session = [s \in Session |-> Idle]
  /\ pending = [s \in Session |-> [d \in Deadline |-> NoColumns]]
  /\ crashes = 0

Override(columns, r) ==
  [f \in DOMAIN r |-> IF f \in DOMAIN columns THEN columns[f] ELSE r[f]]

View(s, d) == Override(pending[s][d], row[d])

RowFree(s, d) == \A o \in Session \ {s} : pending[o][d] = NoColumns

Merge(columns, more) ==
  [f \in DOMAIN columns \union DOMAIN more |->
     IF f \in DOMAIN more THEN more[f] ELSE columns[f]]

Discard(s) == pending' = [pending EXCEPT ![s] = [d \in Deadline |-> NoColumns]]

\* A reminder_sent event goes with every last_reminder_sent written.
Reminded(s, d) == "reminded" \in DOMAIN pending[s][d]

Publish(s) ==
  /\ row' = [d \in Deadline |-> View(s, d)]
  /\ sent' = [d \in Deadline |->
       IF Reminded(s, d) THEN [sent[d] EXCEPT ![pending[s][d].reminded] = @ + 1] ELSE sent[d]]
  /\ Discard(s)

------------------------------------------------------------------------------
(***************************************************************************)
(* check_deadlines.                                                        *)
(***************************************************************************)
Queued == FoldFunction(+, 0, queue)

\* Celery beat.
Beat ==
  /\ Queued < MaxQueued
  /\ queue' = [queue EXCEPT ![0] = @ + 1]
  /\ UNCHANGED <<calendar, tables, session, pending, crashes>>

\* A worker takes a message; the run reads the date and the active matters.
StartRun(w) ==
  /\ session[w].pc = "idle"
  /\ \E n \in 0..MaxRetries :
       /\ queue[n] > 0
       /\ queue' = [queue EXCEPT ![n] = @ - 1]
       /\ session' = [session EXCEPT ![w] =
            [pc |-> IF active THEN "selecting" ELSE "returning",
             day |-> today, failed |-> n, todo |-> <<>>]]
  /\ UNCHANGED <<calendar, tables, pending, crashes>>

\* The rows of a query, in the order the database returns them.
Loop(w, pc, rows) ==
  \E order \in SetToSeqs(rows) :
    session' = [session EXCEPT ![w].pc = pc, ![w].todo = order]

Upcoming(w) == {d \in Deadline : View(w, d).status = "upcoming"}

\* A variant of Overdue: only the deadlines that fell due yesterday.
DueYesterday(w) == {d \in Upcoming(w) : row[d].due = session[w].day - 1}

Overdue(w) == {d \in Upcoming(w) : row[d].due < session[w].day}

SelectOverdue(w) ==
  /\ session[w].pc = "selecting"
  /\ Loop(w, "missing", Overdue(w))
  /\ UNCHANGED <<calendar, tables, queue, pending, crashes>>

\* The row a run has reached, and the column it writes there.
Reached(w) == Head(session[w].todo)

Updated(w) ==
  Merge(pending[w][Reached(w)],
        IF session[w].pc = "missing" THEN [status |-> "missed"]
                                     ELSE [reminded |-> session[w].day])

UpdateNext(w) ==
  /\ session[w].todo # <<>>
  /\ RowFree(w, Reached(w))
  /\ pending' = [pending EXCEPT ![w][Reached(w)] = Updated(w)]
  /\ session' = [session EXCEPT ![w].todo = Tail(@)]
  /\ UNCHANGED <<calendar, tables, queue, crashes>>

MarkMissed(w) == session[w].pc = "missing" /\ UpdateNext(w)

\* Variants of RemindedOn: no check; and the design document's query, which
\* asks for a whole day since the last reminder.
NeverRemindedOn(d, day) == FALSE
RemindedSinceYesterday(d, day) == row[d].reminded # 0 /\ row[d].reminded >= day - 1

\* last_reminder_sent >= today_start
RemindedOn(d, day) == row[d].reminded >= day

ReminderDue(w) ==
  {d \in Upcoming(w) :
     /\ row[d].due >= session[w].day
     /\ row[d].due - session[w].day \in row[d].config
     /\ ~RemindedOn(d, session[w].day)}

SelectReminders(w) ==
  /\ session[w].pc = "missing" /\ session[w].todo = <<>>
  /\ Loop(w, "reminding", ReminderDue(w))
  /\ UNCHANGED <<calendar, tables, queue, pending, crashes>>

SendReminder(w) == session[w].pc = "reminding" /\ UpdateNext(w)

CommitRun(w) ==
  /\ \/ session[w].pc = "reminding" /\ session[w].todo = <<>>
     \/ session[w].pc = "returning"
  /\ Publish(w)
  /\ session' = [session EXCEPT ![w].pc = "acking"]
  /\ UNCHANGED <<calendar, queue, crashes>>

Ack(w) ==
  /\ session[w].pc = "acking"
  /\ session' = [session EXCEPT ![w] = Idle]
  /\ UNCHANGED <<calendar, tables, queue, pending, crashes>>

\* task_reject_on_worker_lost: the message of a dead worker goes back.
Crash(w) ==
  /\ session[w].pc # "idle"
  /\ crashes < MaxCrashes
  /\ crashes' = crashes + 1
  /\ queue' = [queue EXCEPT ![session[w].failed] = @ + 1]
  /\ session' = [session EXCEPT ![w] = Idle]
  /\ Discard(w)
  /\ UNCHANGED <<calendar, tables>>

\* Two runs that update the same rows in different orders deadlock.  One is
\* aborted, rolls back and is retried, or given up after MaxRetries; the other
\* is first in line for the row.
WaitsFor(w, o) ==
  /\ w # o
  /\ session[w].pc \in {"missing", "reminding"}
  /\ session[w].todo # <<>>
  /\ pending[o][Reached(w)] # NoColumns

BreakDeadlock(w, o) ==
  /\ WaitsFor(w, o) /\ WaitsFor(o, w)
  /\ queue' = IF session[w].failed < MaxRetries
              THEN [queue EXCEPT ![session[w].failed + 1] = @ + 1] ELSE queue
  /\ session' = [session EXCEPT ![w] = Idle, ![o].todo = Tail(@)]
  /\ pending' = [pending EXCEPT ![w] = [d \in Deadline |-> NoColumns],
                                ![o][Reached(o)] = Updated(o)]
  /\ UNCHANGED <<calendar, tables, crashes>>

------------------------------------------------------------------------------
(***************************************************************************)
(* create_deadline, update_deadline and the world around them.             *)
(***************************************************************************)
CreateDeadline(n) ==
  /\ row[n.id] = Absent
  /\ row' = [row EXCEPT ![n.id] =
       [status |-> "upcoming", due |-> n.due, config |-> n.config, reminded |-> 0]]
  /\ UNCHANGED <<calendar, sent, queue, session, pending, crashes>>

Given(p, f) == f \in DOMAIN p /\ p[f] # Null

\* Moving the date back is an extension unless the PATCH names a status, be it
\* null.
Extends(r, p) ==
  /\ Given(p, "due") /\ p.due > r.due
  /\ "status" \notin DOMAIN p
  /\ r.status \in {"upcoming", "missed"}

\* The columns whose values change.
Differing(r, new) == Restrict(new, {f \in DOMAIN new : new[f] # r[f]})

\* Variants of Changes: nulls are written; an extension starts the reminders
\* afresh.
ChangesWithNull(r, p) == Differing(r, Merge(r, p))

ChangesResetting(r, p) ==
  Differing(r, [r EXCEPT !.due = IF Given(p, "due") THEN p.due ELSE @,
                         !.reminded = IF Extends(r, p) THEN 0 ELSE @])

Changes(r, p) ==
  Differing(r, [r EXCEPT !.due = IF Given(p, "due") THEN p.due ELSE @,
                         !.config = IF Given(p, "config") THEN p.config ELSE @,
                         !.status = IF Given(p, "status") THEN p.status
                                    ELSE IF Extends(r, p) THEN "extended" ELSE @])

LoadDeadline(u, d, p) ==
  /\ session[u].pc = "idle"
  /\ row[d] # Absent
  /\ Changes(row[d], p) # NoColumns
  /\ session' = [session EXCEPT ![u] =
       [pc |-> "loaded", deadline |-> d, columns |-> Changes(row[d], p)]]
  /\ UNCHANGED <<calendar, tables, queue, pending, crashes>>

FlushUpdate(u) ==
  /\ session[u].pc = "loaded"
  /\ RowFree(u, session[u].deadline)
  /\ pending' = [pending EXCEPT ![u][session[u].deadline] = session[u].columns]
  /\ session' = [session EXCEPT ![u].pc = "flushed"]
  /\ UNCHANGED <<calendar, tables, queue, crashes>>

CommitUpdate(u) ==
  /\ session[u].pc = "flushed"
  /\ Publish(u)
  /\ session' = [session EXCEPT ![u] = Idle]
  /\ UNCHANGED <<calendar, queue, crashes>>

\* The endpoints let matter admins and professionals of the matter write.
Roles == {"matter_admin", "professional", "executor_trustee", "beneficiary", "read_only"}
WriteRoles == {"matter_admin", "professional"}
PostDeadline(role, n) == role \in WriteRoles /\ CreateDeadline(n)
PatchDeadline(role, u, d, p) == role \in WriteRoles /\ LoadDeadline(u, d, p)

\* The matter is put on hold, closed, or active again.
SetActive(b) ==
  /\ active # b
  /\ active' = b
  /\ UNCHANGED <<today, tables, queue, session, pending, crashes>>

Midnight ==
  /\ today < LastDay
  /\ today' = today + 1
  /\ UNCHANGED <<active, tables, queue, session, pending, crashes>>

------------------------------------------------------------------------------
Run(w) ==
  \/ StartRun(w) \/ SelectOverdue(w) \/ MarkMissed(w)
  \/ SelectReminders(w) \/ SendReminder(w) \/ CommitRun(w) \/ Ack(w)

Next ==
  \/ Beat
  \/ \E w \in Worker : Run(w)
  \/ \E w \in Worker : Crash(w)
  \/ \E w, o \in Worker : BreakDeadlock(w, o)
  \/ \E role \in Roles : \/ \E n \in NewDeadline : PostDeadline(role, n)
                         \/ \E u \in User, d \in Deadline, p \in Patch :
                              PatchDeadline(role, u, d, p)
  \/ \E u \in User : FlushUpdate(u)
  \/ \E u \in User : CommitUpdate(u)
  \/ \E b \in BOOLEAN : SetActive(b)
  \/ Midnight

Spec == Init /\ [][Next]_vars

\* Beat and the workers keep running, row locks are granted in turn, requests
\* end and deadlocks are broken.  The calendar and the users owe nothing.
Fairness ==
  /\ WF_vars(Beat)
  /\ \A w \in Worker : WF_vars(Run(w)) /\ SF_vars(MarkMissed(w)) /\ SF_vars(SendReminder(w))
  /\ \A u \in User : WF_vars(CommitUpdate(u)) /\ SF_vars(FlushUpdate(u))
  /\ WF_vars(\E w, o \in Worker : BreakDeadlock(w, o))

FairSpec == Spec /\ Fairness

------------------------------------------------------------------------------
IsRow(r) == DOMAIN r = Columns /\ \A f \in Columns : r[f] \in Column(f)
IsPart(r) == DOMAIN r \subseteq Columns /\ \A f \in DOMAIN r : r[f] \in Column(f)

TypeOK ==
  /\ today \in Day /\ active \in BOOLEAN /\ crashes \in 0..MaxCrashes
  /\ \A d \in Deadline : row[d] = Absent \/ IsRow(row[d])
  /\ sent \in [Deadline -> [Day -> Nat]]
  /\ queue \in [0..MaxRetries -> Nat]
  /\ \A s \in Session, d \in Deadline : IsPart(pending[s][d])
  /\ \A s \in Session : session[s].pc \in {"idle", "selecting", "missing", "reminding",
                                           "returning", "acking", "loaded", "flushed"}

Exists(d) == row[d] # Absent

\* check_deadlines is idempotent within a day when runs do not overlap: late
\* acknowledgement, crashes and a backlog of messages notwithstanding, nobody
\* is reminded twice of a deadline on one day.
OneReminderPerDay == \A d \in Deadline, e \in Day : sent[d][e] <= 1

\* last_reminder_sent is the day of the last reminder the audit trail has.
LastReminderRecorded ==
  \A d \in Deadline : Exists(d) =>
     /\ row[d].reminded # 0 => sent[d][row[d].reminded] > 0
     /\ \A e \in Day : e > row[d].reminded => sent[d][e] = 0

\* A deadline that nobody settles does not stay upcoming past its due date,
\* even when nobody looked at it on the day it passed.
OverdueIsNoticed ==
  \A d \in Deadline :
    (active /\ Exists(d) /\ row[d].status = "upcoming" /\ row[d].due < today)
      ~> (~active \/ row[d].status # "upcoming" \/ row[d].due >= today)

NeedsReminder(d) ==
  /\ active /\ Exists(d)
  /\ row[d].status = "upcoming" /\ row[d].due >= today
  /\ row[d].due - today \in row[d].config
  /\ sent[d][today] = 0

\* On every day reminder_config names, the reminder goes out, if the day lasts.
ReminderGoesOut == \A d \in Deadline : NeedsReminder(d) ~> ~NeedsReminder(d)

=============================================================================
