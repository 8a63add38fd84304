-------------------------- MODULE TaskTransactions --------------------------
(***************************************************************************)
(* The task handlers as they run: concurrent requests, each a PostgreSQL   *)
(* transaction at READ COMMITTED that reads, checks, writes and cascades   *)
(* one statement at a time (backend/app/services/task_service.py), and     *)
(* that core/dependencies.py commits after the handler or rolls back.      *)
(*                                                                         *)
(* A statement sees what is committed when it starts, and the writes of    *)
(* its own transaction.  The first write to a row locks the row until the  *)
(* transaction ends.  No handler reads FOR UPDATE, so a status may change  *)
(* between the statement that reads it and the one that overwrites it.     *)
(*                                                                         *)
(* create_task and create_communication read nothing that a concurrent     *)
(* request could change (tasks and milestone rows are never deleted), so   *)
(* each is one step here.  The document check and PATCHes of other fields  *)
(* are left to TaskLifecycle: links are never removed, so the check stays  *)
(* true.  Requests about unrelated tasks implement TaskLifecycle.          *)
(***************************************************************************)
EXTENDS FiniteSets

CONSTANTS
  Client,          \* requests that may be in flight at once
  Task,
  Phase,
  MilestonePhase,
  Template,        \* the rows CreateTask may insert
  Request          \* the requests clients may send: bounds the inputs

Clean == "clean"   \* a row the transaction has not written

VARIABLES
  status, deps, phase, completedAt, announced, trail,    \* committed rows
  client,     \* per client: the request being served and how far it got
  pending,    \* per client: the statuses it has written and not committed
  entries     \* per client: the events rows it has written and not committed

database == <<status, deps, phase, completedAt, announced, trail>>
session == <<client, pending, entries>>
vars == <<status, deps, phase, completedAt, announced, trail, client, pending, entries>>

TL == INSTANCE TaskLifecycle WITH
        Document <- {},
        needsDoc <- [t \in Task |-> FALSE],
        linked   <- [t \in Task |-> {}]

Kind == {"patch", "complete", "waive"}

ASSUME RequestAssumption ==
  Request \subseteq {r \in [kind: Kind, task: Task, target: TL!Status] :
                       /\ r.kind = "complete" => r.target = "complete"
                       /\ r.kind = "waive" => r.target = "waived"}

ASSUME PhaseAssumption == Phase # {} /\ MilestonePhase \subseteq Phase

ASSUME TemplateAssumption == Template \subseteq {r \in TL!NewTask : ~r.needsDoc}

Idle == [pc |-> "idle"]
NoEntry == [action |-> "none", old |-> "absent", new |-> "absent"]

View(c) == [t \in Task |-> IF pending[c][t] = Clean THEN status[t] ELSE pending[c][t]]

\* PostgreSQL's row lock: taken by the first write, held until the end.
RowFree(c, t) == \A o \in Client \ {c} : pending[o][t] = Clean

Init ==
  /\ TL!Init
  /\ client = [c \in Client |-> Idle]
  /\ pending = [c \in Client |-> [t \in Task |-> Clean]]
  /\ entries = [c \in Client |-> [t \in Task |-> NoEntry]]

------------------------------------------------------------------------------
\* The handler has returned; core/dependencies.py commits next.
ReadyToCommit(c) ==
  \/ client[c].pc = "committing"
  \/ client[c].pc = "cascading" /\ client[c].todo = {} /\ client[c].req.kind = "waive"

Accept(c, r) ==
  /\ client' = [client EXCEPT ![c] =
       [pc     |-> IF r.kind = "complete" THEN "checking" ELSE "writing",
        req    |-> r,
        loaded |-> status[r.task],
        todo   |-> {},
        row    |-> r.task]]
  /\ UNCHANGED <<database, pending, entries>>

\* Variants of Begin: the status is not looked at; and a batch of requests
\* that shares one transaction.
BeginUnchecked(c, r) == client[c].pc = "idle" /\ r.task \in TL!Created /\ Accept(c, r)

BeginInBatch(c, r) ==
  /\ client[c].pc = "idle" \/ ReadyToCommit(c)
  /\ r.task \in TL!Created
  /\ r.target \in TL!ValidTransitions[View(c)[r.task]]
  /\ Accept(c, r)

\* _get_task_or_404 and _validate_transition, on the status just read.
Begin(c, r) ==
  /\ client[c].pc = "idle"
  /\ r.task \in TL!Created
  /\ r.target \in TL!ValidTransitions[status[r.task]]
  /\ Accept(c, r)

Goto(c, pc) == client' = [client EXCEPT ![c].pc = pc]

Rollback(c) ==
  /\ client' = [client EXCEPT ![c] = Idle]
  /\ pending' = [pending EXCEPT ![c] = [t \in Task |-> Clean]]
  /\ entries' = [entries EXCEPT ![c] = [t \in Task |-> NoEntry]]
  /\ UNCHANGED database

\* complete_task: the query for dependencies that are not terminal.
CheckDependencies(c) ==
  /\ client[c].pc = "checking"
  /\ IF TL!AllTerminal(View(c), deps[client[c].req.task])
     THEN Goto(c, "writing") /\ UNCHANGED <<database, pending, entries>>
     ELSE Rollback(c)

EventName(kind) ==
  CASE kind = "patch" -> "updated" [] kind = "complete" -> "completed" [] kind = "waive" -> "waived"

\* The flush of the handler's own row, its events row, and the query for the
\* dependents (their set does not change: dependencies come with the task).
WriteRow(c, t, s, entry) ==
  /\ RowFree(c, t)
  /\ pending' = [pending EXCEPT ![c][t] = s]
  /\ entries' = [entries EXCEPT ![c][t] = entry]

WriteTask(c) ==
  LET r == client[c].req IN
  /\ client[c].pc = "writing"
  /\ WriteRow(c, r.task, r.target,
              [action |-> EventName(r.kind), old |-> client[c].loaded, new |-> r.target])
  /\ client' = [client EXCEPT
       ![c].pc = IF r.kind = "patch" THEN "committing" ELSE "cascading",
       ![c].todo = IF r.kind = "patch" THEN {} ELSE TL!Dependents(r.task)]
  /\ UNCHANGED database

\* A variant of FetchDependent: dependents that stay blocked are tried again.
FetchAgain(c) ==
  /\ client[c].pc = "cascading"
  /\ \E d \in client[c].todo :
       client' = [client EXCEPT
         ![c].pc = IF View(c)[d] = "blocked" THEN "counting" ELSE "cascading",
         ![c].todo = IF View(c)[d] = "blocked" THEN @ ELSE @ \ {d},
         ![c].row = d]
  /\ UNCHANGED <<database, pending, entries>>

\* _unblock_dependents: fetch the next dependent, skip it unless blocked ...
FetchDependent(c) ==
  /\ client[c].pc = "cascading"
  /\ \E d \in client[c].todo :
       client' = [client EXCEPT
         ![c].pc = IF View(c)[d] = "blocked" THEN "counting" ELSE "cascading",
         ![c].todo = @ \ {d},
         ![c].row = d]
  /\ UNCHANGED <<database, pending, entries>>

\* ... count its dependencies that are not terminal (the variant reads what is
\* committed and misses the handler's own flush) ...
NoneOpenCommitted(c, d) == TL!AllTerminal(status, deps[d])

NoneOpen(c, d) == TL!AllTerminal(View(c), deps[d])

CountOpenDependencies(c) ==
  /\ client[c].pc = "counting"
  /\ Goto(c, IF NoneOpen(c, client[c].row) THEN "unblocking" ELSE "cascading")
  /\ UNCHANGED <<database, pending, entries>>

\* ... and overwrite its status when there is none.
UnblockDependent(c) ==
  /\ client[c].pc = "unblocking"
  /\ WriteRow(c, client[c].row, "not_started",
              [action |-> "unblocked", old |-> "blocked", new |-> "not_started"])
  /\ Goto(c, "cascading")
  /\ UNCHANGED database

\* detect_milestones_after_completion: achieving one breaks the session.
DetectMilestone(c) ==
  /\ client[c].pc = "cascading" /\ client[c].todo = {} /\ client[c].req.kind = "complete"
  /\ IF TL!MilestoneAchieved(View(c), phase[client[c].req.task])
     THEN Rollback(c)
     ELSE Goto(c, "committing") /\ UNCHANGED <<database, pending, entries>>

Publish(c) ==
  /\ status' = View(c)
  /\ completedAt' = [completedAt EXCEPT ![client[c].req.task] =
                       @ \/ client[c].req.kind = "complete"]
  /\ client' = [client EXCEPT ![c] = Idle]
  /\ pending' = [pending EXCEPT ![c] = [t \in Task |-> Clean]]
  /\ entries' = [entries EXCEPT ![c] = [t \in Task |-> NoEntry]]
  /\ UNCHANGED <<deps, phase, announced>>

\* A variant of Commit: the events rows are left to a later job.
CommitRowsOnly(c) == ReadyToCommit(c) /\ Publish(c) /\ UNCHANGED trail

Commit(c) ==
  /\ ReadyToCommit(c)
  /\ trail' = [t \in Task |-> IF entries[c][t] = NoEntry THEN trail[t] ELSE entries[c][t]]
  /\ Publish(c)

\* The connection or the server process dies with the transaction open, or
\* PostgreSQL aborts it.
Crash(c) ==
  /\ client[c].pc # "idle"
  /\ Rollback(c)

------------------------------------------------------------------------------
\* The row a client is about to write, and who holds it.
WaitsFor(c, o) ==
  /\ c # o
  /\ client[c].pc \in {"writing", "unblocking"}
  /\ pending[o][client[c].row] # Clean

WaitCycle(S) ==
  S # {} /\ \A c \in S : (\E o \in S : WaitsFor(c, o)) /\ (\E o \in S : WaitsFor(o, c))

CreateTask(r) == TL!CreateTask(r) /\ UNCHANGED session

AnnounceMilestone(p) == TL!AnnounceMilestone(p) /\ UNCHANGED session

Handle(c) ==
  \/ CheckDependencies(c)
  \/ WriteTask(c)
  \/ FetchDependent(c)
  \/ CountOpenDependencies(c)
  \/ UnblockDependent(c)
  \/ DetectMilestone(c)
  \/ Commit(c)

Next ==
  \/ \E r \in Template : CreateTask(r)
  \/ \E p \in MilestonePhase : AnnounceMilestone(p)
  \/ \E c \in Client, r \in Request : Begin(c, r)
  \/ \E c \in Client : Handle(c)
  \/ \E c \in Client : Crash(c)

Spec == Init /\ [][Next]_vars

\* The event loop resumes every handler whose statement has been answered,
\* and PostgreSQL queues the waiters of a row lock: a handler whose next step
\* is again and again possible takes it.
Fairness == \A c \in Client : SF_vars(Handle(c))

FairSpec == Spec /\ Fairness

------------------------------------------------------------------------------
Entries == TL!Entry

Busy ==
  [pc: {"checking", "writing", "cascading", "counting", "unblocking", "committing"},
   req: Request, loaded: TL!Open, todo: SUBSET Task, row: Task]

TypeOK ==
  /\ status \in [Task -> TL!Status \union {"absent"}]
  /\ trail \in [Task -> Entries]
  /\ client \in [Client -> Busy \union {Idle}]
  /\ pending \in [Client -> [Task -> TL!Status \union {Clean}]]
  /\ entries \in [Client -> [Task -> Entries]]

\* The last committed events row of a task names the status the row has.  It
\* needs a row and its event to be written by the same transaction, and to be
\* committed together.
LastEventMatchesRow == \A t \in Task : trail[t].new = status[t]

\* Every events row is a legal transition of the state machine, even when the
\* status it overwrote was not the one it names: the audit trail alone does
\* not show a lost update.
EventsAreLegal ==
  \A t \in Task : trail[t].action \notin {"none", "created"} =>
     trail[t].new \in TL!ValidTransitions[trail[t].old]

\* Two requests never deadlock, though each locks its own task and then the
\* dependents: for two cascades to hold a row each, each would have to find
\* the other's task already ended.  (Three can: PostgreSQL then aborts one,
\* which is a Crash.)
NoDeadlock == \A S \in SUBSET Client : ~WaitCycle(S)

\* Every request is answered.
EveryRequestEnds == \A c \in Client : (client[c].pc # "idle") ~> (client[c].pc = "idle")

\* One request at a time, the handlers do what TaskLifecycle says.
ImplementsTaskLifecycle == TL!Spec

------------------------------------------------------------------------------
(***************************************************************************)
(* What the documentation says and concurrent requests do not keep.        *)
(***************************************************************************)
\* _unblock_dependents: a dependent is unblocked when all of its dependencies
\* are in a terminal state.
CascadeLeavesNoneBehind == TL!CascadeLeavesNoneBehind

=============================================================================
