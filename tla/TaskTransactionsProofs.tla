----------------------- MODULE TaskTransactionsProofs -----------------------
(***************************************************************************)
(* Proofs about TaskTransactions, for every set of clients, of tasks and   *)
(* of requests.                                                            *)
(*                                                                         *)
(* However many handlers overlap, the committed audit trail matches the    *)
(* rows and names legal transitions only.  What a Commit publishes was     *)
(* written by earlier steps, so TrailInv adds what an open transaction     *)
(* carries: each row it wrote comes with a legal event that names the      *)
(* row's status (Consistent), and what it is about to write is legal for   *)
(* the status it loaded (TargetsLegal).                                    *)
(*                                                                         *)
(* Requests about unrelated tasks implement TaskLifecycle however many are *)
(* open, and two about any tasks never deadlock.  Both rest on SessionInv, *)
(* the order in which a session writes and what its rows are; the first on *)
(* Serial, what it has read is still committed; the second on FreshInv,    *)
(* which says it of one of two.                                            *)
(***************************************************************************)
EXTENDS TaskTransactions, TLAPS

Legal(e) ==
  e.action \notin {"none", "created"} => e.new \in TL!ValidTransitions[e.old]

\* A row of an open transaction and the event that goes with it.
Consistent(row, e) ==
  \/ row = Clean /\ e = NoEntry
  \/ row \in TL!Status /\ e.new = row /\ Legal(e)

WritesConsistent == \A c \in Client, t \in Task : Consistent(pending[c][t], entries[c][t])

TargetsLegal ==
  \A c \in Client : client[c].pc # "idle" =>
     client[c].req.target \in TL!ValidTransitions[client[c].loaded]

TrailInv ==
  /\ TypeOK
  /\ WritesConsistent
  /\ TargetsLegal
  /\ LastEventMatchesRow
  /\ EventsAreLegal

\* The statuses the state machine reaches, and the one it starts with.
LEMMA Statuses ==
  /\ \A s \in TL!Status : TL!ValidTransitions[s] \subseteq TL!Status
  /\ \A s \in TL!Status : TL!ValidTransitions[s] # {} => s \in TL!Open
  /\ TL!Open \subseteq TL!Status
  /\ "not_started" \in TL!ValidTransitions["blocked"]
  /\ Clean \notin TL!Status /\ "absent" \notin TL!Status
  /\ "not_started" \in TL!Status /\ "blocked" \in TL!Status
  BY DEF TL!Status, TL!Open, TL!TerminalStates, TL!ValidTransitions, Clean

LEMMA NoEntryType == NoEntry \in Entries /\ Legal(NoEntry)
  BY DEF NoEntry, Entries, TL!Entry, TL!Action, Legal

\* What a client that is not idle carries.
LEMMA BusyClient ==
  ASSUME TypeOK, NEW c \in Client, client[c].pc # "idle"
  PROVE  client[c] \in Busy
  BY DEF TypeOK, Idle

\* A request names a kind, a task and a status.
LEMMA RequestFields ==
  ASSUME NEW r \in Request
  PROVE  r.kind \in Kind /\ r.task \in Task /\ r.target \in TL!Status
  BY RequestAssumption

-----------------------------------------------------------------------------
(***************************************************************************)
(* A step touches the session of one client at most, and the committed     *)
(* rows only when it commits or creates a task.                            *)
(***************************************************************************)
\* The client's record moves on, and nothing is written.
LEMMA MoveKeeps ==
  ASSUME TrailInv, NEW c \in Client, NEW k \in Busy,
         client' = [client EXCEPT ![c] = k],
         k.req.target \in TL!ValidTransitions[k.loaded],
         UNCHANGED <<database, pending, entries>>
  PROVE  TrailInv'
<1>1. TypeOK'
  BY DEF TrailInv, TypeOK, database
<1>2. TargetsLegal'
  BY DEF TrailInv, TargetsLegal, TypeOK
<1>3. QED
  BY <1>1, <1>2 DEF TrailInv, WritesConsistent, LastEventMatchesRow, EventsAreLegal, database

\* The client's record moves on, and a row is written with its event.
LEMMA WriteKeeps ==
  ASSUME TrailInv, NEW c \in Client, NEW k \in Busy, NEW t \in Task,
         NEW s \in TL!Status, NEW e \in Entries, e.new = s, Legal(e),
         client' = [client EXCEPT ![c] = k],
         k.req.target \in TL!ValidTransitions[k.loaded],
         WriteRow(c, t, s, e),
         UNCHANGED database
  PROVE  TrailInv'
<1>1. /\ pending' = [pending EXCEPT ![c] = [pending[c] EXCEPT ![t] = s]]
      /\ entries' = [entries EXCEPT ![c] = [entries[c] EXCEPT ![t] = e]]
  BY DEF WriteRow
<1>2. /\ pending[c] \in [Task -> TL!Status \union {Clean}]
      /\ entries[c] \in [Task -> Entries]
  BY DEF TrailInv, TypeOK
<1>3. TypeOK'
  BY <1>1, <1>2 DEF TrailInv, TypeOK, database
<1>4. WritesConsistent'
  BY <1>1, <1>2 DEF TrailInv, TypeOK, WritesConsistent, Consistent
<1>5. TargetsLegal'
  BY DEF TrailInv, TargetsLegal, TypeOK
<1>6. QED
  BY <1>3, <1>4, <1>5 DEF TrailInv, LastEventMatchesRow, EventsAreLegal, database

\* The client is idle again and its transaction gone; what it may have
\* published is consistent.
LEMMA EndKeeps ==
  ASSUME TrailInv, NEW c \in Client,
         client' = [client EXCEPT ![c] = Idle],
         pending' = [pending EXCEPT ![c] = [t \in Task |-> Clean]],
         entries' = [entries EXCEPT ![c] = [t \in Task |-> NoEntry]],
         status' \in [Task -> TL!Status \union {"absent"}],
         trail' \in [Task -> Entries],
         \A t \in Task : trail'[t].new = status'[t] /\ Legal(trail'[t])
  PROVE  TrailInv'
<1>1. TypeOK'
  BY NoEntryType DEF TrailInv, TypeOK
<1>2. WritesConsistent'
  BY DEF TrailInv, TypeOK, WritesConsistent, Consistent
<1>3. TargetsLegal'
  BY DEF TrailInv, TypeOK, TargetsLegal, Idle
<1>4. QED
  BY <1>1, <1>2, <1>3 DEF TrailInv, LastEventMatchesRow, EventsAreLegal, Legal

LEMMA RollbackKeeps ==
  ASSUME TrailInv, NEW c \in Client, Rollback(c)
  PROVE  TrailInv'
<1>1. \A t \in Task : trail'[t].new = status'[t] /\ Legal(trail'[t])
  BY DEF Rollback, database, TrailInv, LastEventMatchesRow, EventsAreLegal, Legal
<1>2. status' \in [Task -> TL!Status \union {"absent"}] /\ trail' \in [Task -> Entries]
  BY DEF Rollback, database, TrailInv, TypeOK
<1>3. QED
  BY <1>1, <1>2, EndKeeps DEF Rollback

-----------------------------------------------------------------------------
(***************************************************************************)
(* The actions.                                                            *)
(***************************************************************************)
LEMMA BeginKeeps ==
  ASSUME TrailInv, NEW c \in Client, NEW r \in Request, Begin(c, r)
  PROVE  TrailInv'
<1> DEFINE k == [pc     |-> IF r.kind = "complete" THEN "checking" ELSE "writing",
                 req    |-> r,
                 loaded |-> status[r.task],
                 todo   |-> {},
                 row    |-> r.task]
<1>1. r.task \in Task
  BY RequestFields
<1>2. status[r.task] \in TL!Status
  BY <1>1 DEF Begin, TL!Created, TrailInv, TypeOK
<1>3. r.target \in TL!ValidTransitions[status[r.task]]
  BY DEF Begin
<1>4. status[r.task] \in TL!Open
  BY <1>2, <1>3, Statuses
<1>5. k \in Busy
  BY <1>1, <1>4 DEF Busy
<1>6. /\ client' = [client EXCEPT ![c] = k]
      /\ UNCHANGED <<database, pending, entries>>
  BY DEF Begin, Accept
<1>7. k.req.target \in TL!ValidTransitions[k.loaded]
  BY <1>3
<1> HIDE DEF k
<1>8. QED
  BY <1>5, <1>6, <1>7, MoveKeeps

\* A client that is not idle moves on: its request and the status it loaded stay.
LEMMA StepKeeps ==
  ASSUME TrailInv, NEW c \in Client, client[c].pc # "idle",
         NEW pc \in {"checking", "writing", "cascading", "counting", "unblocking", "committing"},
         NEW todo \in SUBSET Task, NEW row \in Task,
         NEW k, k = [client[c] EXCEPT !.pc = pc, !.todo = todo, !.row = row]
  PROVE  k \in Busy /\ k.req.target \in TL!ValidTransitions[k.loaded]
<1>1. client[c] \in Busy
  BY BusyClient DEF TrailInv
<1>2. k.req = client[c].req /\ k.loaded = client[c].loaded
  BY <1>1 DEF Busy
<1>3. k \in Busy
  BY <1>1 DEF Busy
<1>4. QED
  BY <1>2, <1>3 DEF TrailInv, TargetsLegal

LEMMA GotoKeeps ==
  ASSUME TrailInv, NEW c \in Client, client[c].pc # "idle",
         NEW pc \in {"checking", "writing", "cascading", "counting", "unblocking", "committing"},
         Goto(c, pc), UNCHANGED <<database, pending, entries>>
  PROVE  TrailInv'
<1> DEFINE k == [client[c] EXCEPT !.pc = pc, !.todo = client[c].todo, !.row = client[c].row]
<1>1. client[c] \in Busy
  BY BusyClient DEF TrailInv
<1>2. k = [client[c] EXCEPT !.pc = pc]
  BY <1>1 DEF Busy
<1>3. client' = [client EXCEPT ![c] = k]
  BY <1>2 DEF Goto
<1>4. client[c].todo \in SUBSET Task /\ client[c].row \in Task
  BY <1>1 DEF Busy
<1>5. k \in Busy /\ k.req.target \in TL!ValidTransitions[k.loaded]
  BY <1>4, StepKeeps
<1> HIDE DEF k
<1>6. QED
  BY <1>3, <1>5, MoveKeeps

LEMMA WriteTaskKeeps ==
  ASSUME TrailInv, NEW c \in Client, WriteTask(c)
  PROVE  TrailInv'
<1> DEFINE r == client[c].req
           pc == IF r.kind = "patch" THEN "committing" ELSE "cascading"
           todo == IF r.kind = "patch" THEN {} ELSE TL!Dependents(r.task)
           k == [client[c] EXCEPT !.pc = pc, !.todo = todo, !.row = client[c].row]
           e == [action |-> EventName(r.kind), old |-> client[c].loaded, new |-> r.target]
<1>1. client[c].pc # "idle"
  BY DEF WriteTask
<1>2. client[c] \in Busy
  BY <1>1, BusyClient DEF TrailInv
<1>3. r \in Request /\ client[c].loaded \in TL!Open /\ client[c].row \in Task
  BY <1>2 DEF Busy
<1>4. r.kind \in Kind /\ r.task \in Task /\ r.target \in TL!Status
  BY <1>3, RequestFields
<1>5. /\ todo \in SUBSET Task
      /\ pc \in {"checking", "writing", "cascading", "counting", "unblocking", "committing"}
  BY DEF TL!Dependents
<1>6. k \in Busy /\ k.req.target \in TL!ValidTransitions[k.loaded]
  BY <1>1, <1>3, <1>5, StepKeeps
<1>7. EventName(r.kind) \in TL!Action
  BY <1>4 DEF EventName, Kind, TL!Action
<1>8. e \in Entries
  BY <1>3, <1>4, <1>7, Statuses DEF Entries, TL!Entry
<1>9. e.new = r.target /\ Legal(e)
  BY <1>1 DEF Legal, TrailInv, TargetsLegal
<1>10. k = [client[c] EXCEPT !.pc = pc, !.todo = todo]
  BY <1>2 DEF Busy
<1>11. client' = [client EXCEPT ![c] = k]
  <2>1. client' = [client EXCEPT ![c].pc = pc, ![c].todo = todo]
    BY DEF WriteTask
  <2>2. client[c] \in Busy /\ client \in [Client -> Busy \union {Idle}]
    BY <1>2 DEF TrailInv, TypeOK
  <2>3. QED
    BY <2>1, <2>2, <1>10
<1>12. WriteRow(c, r.task, r.target, e) /\ UNCHANGED database
  BY DEF WriteTask
<1> HIDE DEF k, e, pc, todo
<1>13. QED
  BY <1>4, <1>6, <1>8, <1>9, <1>11, <1>12, WriteKeeps

LEMMA FetchDependentKeeps ==
  ASSUME TrailInv, NEW c \in Client, FetchDependent(c)
  PROVE  TrailInv'
<1>1. client[c].pc # "idle"
  BY DEF FetchDependent
<1>2. client[c] \in Busy /\ client \in [Client -> Busy \union {Idle}]
  BY <1>1, BusyClient DEF TrailInv, TypeOK
<1>3. PICK d \in client[c].todo :
        client' = [client EXCEPT
          ![c].pc = IF View(c)[d] = "blocked" THEN "counting" ELSE "cascading",
          ![c].todo = client[c].todo \ {d},
          ![c].row = d]
  BY <1>2 DEF FetchDependent
<1> DEFINE pc == IF View(c)[d] = "blocked" THEN "counting" ELSE "cascading"
           todo == client[c].todo \ {d}
           k == [client[c] EXCEPT !.pc = pc, !.todo = todo, !.row = d]
<1>4. d \in Task /\ todo \in SUBSET Task
      /\ pc \in {"checking", "writing", "cascading", "counting", "unblocking", "committing"}
  BY <1>2 DEF Busy
<1>5. k \in Busy /\ k.req.target \in TL!ValidTransitions[k.loaded]
  BY <1>1, <1>4, StepKeeps
<1>6. client' = [client EXCEPT ![c] = k]
  BY <1>2, <1>3
<1>7. UNCHANGED <<database, pending, entries>>
  BY DEF FetchDependent
<1> HIDE DEF k
<1>8. QED
  BY <1>5, <1>6, <1>7, MoveKeeps

LEMMA UnblockDependentKeeps ==
  ASSUME TrailInv, NEW c \in Client, UnblockDependent(c)
  PROVE  TrailInv'
<1> DEFINE k == [client[c] EXCEPT !.pc = "cascading", !.todo = client[c].todo, !.row = client[c].row]
           e == [action |-> "unblocked", old |-> "blocked", new |-> "not_started"]
<1>1. client[c].pc # "idle"
  BY DEF UnblockDependent
<1>2. client[c] \in Busy
  BY <1>1, BusyClient DEF TrailInv
<1>3. client[c].todo \in SUBSET Task /\ client[c].row \in Task
  BY <1>2 DEF Busy
<1>4. k \in Busy /\ k.req.target \in TL!ValidTransitions[k.loaded]
  BY <1>1, <1>3, StepKeeps
<1>5. k = [client[c] EXCEPT !.pc = "cascading"]
  BY <1>2 DEF Busy
<1>6. client' = [client EXCEPT ![c] = k]
  BY <1>5 DEF UnblockDependent, Goto
<1>7. e \in Entries /\ e.new = "not_started" /\ Legal(e) /\ "not_started" \in TL!Status
  BY Statuses DEF Entries, TL!Entry, TL!Action, Legal
<1>8. WriteRow(c, client[c].row, "not_started", e) /\ UNCHANGED database
  BY DEF UnblockDependent
<1> HIDE DEF k, e
<1>9. QED
  BY <1>3, <1>4, <1>6, <1>7, <1>8, WriteKeeps

LEMMA CommitKeeps ==
  ASSUME TrailInv, NEW c \in Client, Commit(c)
  PROVE  TrailInv'
<1>1. status' = [t \in Task |-> IF pending[c][t] = Clean THEN status[t] ELSE pending[c][t]]
  BY DEF Commit, Publish, View
<1>2. trail' = [t \in Task |-> IF entries[c][t] = NoEntry THEN trail[t] ELSE entries[c][t]]
  BY DEF Commit
<1>3. ASSUME NEW t \in Task
      PROVE  /\ trail'[t].new = status'[t] /\ Legal(trail'[t])
             /\ status'[t] \in TL!Status \union {"absent"} /\ trail'[t] \in Entries
  <2>1. /\ trail[t].new = status[t] /\ Legal(trail[t]) /\ Consistent(pending[c][t], entries[c][t])
        /\ status[t] \in TL!Status \union {"absent"} /\ trail[t] \in Entries
        /\ entries[c][t] \in Entries
    BY DEF TrailInv, LastEventMatchesRow, EventsAreLegal, WritesConsistent, Legal, TypeOK
  <2>2. CASE pending[c][t] = Clean /\ entries[c][t] = NoEntry
    BY <1>1, <1>2, <2>1, <2>2
  <2>3. CASE /\ pending[c][t] \in TL!Status /\ entries[c][t].new = pending[c][t]
             /\ Legal(entries[c][t])
    <3>1. pending[c][t] # Clean /\ entries[c][t] # NoEntry
      BY <2>3, Statuses DEF NoEntry
    <3>2. QED
      BY <1>1, <1>2, <2>1, <2>3, <3>1
  <2>4. QED
    BY <2>1, <2>2, <2>3 DEF Consistent
<1>4. /\ status' \in [Task -> TL!Status \union {"absent"}]
      /\ trail' \in [Task -> Entries]
  BY <1>1, <1>2, <1>3
<1>5. QED
  BY <1>3, <1>4, EndKeeps DEF Commit, Publish

\* A new task has one event, about its creation.
LEMMA CreateTaskKeeps ==
  ASSUME TrailInv, NEW r \in Template, CreateTask(r)
  PROVE  TrailInv'
<1> DEFINE e == [action |-> "created", old |-> "absent", new |-> "not_started"]
<1>1. /\ status' = [status EXCEPT ![r.id] = "not_started"]
      /\ trail' = [trail EXCEPT ![r.id] = e]
      /\ UNCHANGED session
  BY DEF CreateTask, TL!CreateTask
<1>2. e \in Entries /\ Legal(e) /\ "not_started" \in TL!Status
  BY Statuses DEF Entries, TL!Entry, TL!Action, Legal
<1>3. TypeOK'
  BY <1>1, <1>2 DEF TrailInv, TypeOK, session
<1>4. LastEventMatchesRow' /\ EventsAreLegal'
  BY <1>1 DEF TrailInv, TypeOK, LastEventMatchesRow, EventsAreLegal
<1>5. QED
  BY <1>1, <1>3, <1>4 DEF TrailInv, WritesConsistent, TargetsLegal, session

-----------------------------------------------------------------------------
LEMMA TrailInvInit == Init => TrailInv
<1> SUFFICES ASSUME Init PROVE TrailInv
  OBVIOUS
<1>1. /\ status = [t \in Task |-> "absent"]
      /\ trail = [t \in Task |-> NoEntry]
      /\ client = [c \in Client |-> Idle]
      /\ pending = [c \in Client |-> [t \in Task |-> Clean]]
      /\ entries = [c \in Client |-> [t \in Task |-> NoEntry]]
  BY DEF Init, TL!Init, NoEntry
<1>2. TypeOK
  BY <1>1, NoEntryType DEF TypeOK
<1>3. WritesConsistent /\ TargetsLegal
  BY <1>1 DEF WritesConsistent, Consistent, TargetsLegal, Idle
<1>4. LastEventMatchesRow /\ EventsAreLegal
  BY <1>1 DEF LastEventMatchesRow, EventsAreLegal, NoEntry
<1>5. QED
  BY <1>2, <1>3, <1>4 DEF TrailInv

LEMMA TrailInvStep == TrailInv /\ [Next]_vars => TrailInv'
<1> SUFFICES ASSUME TrailInv, [Next]_vars PROVE TrailInv'
  OBVIOUS
<1>1. CASE UNCHANGED vars
  BY <1>1 DEF vars, TrailInv, TypeOK, WritesConsistent, TargetsLegal, LastEventMatchesRow, EventsAreLegal
<1>2. ASSUME NEW r \in Template, CreateTask(r) PROVE TrailInv'
  BY <1>2, CreateTaskKeeps
<1>3. ASSUME NEW p \in MilestonePhase, AnnounceMilestone(p) PROVE TrailInv'
  BY <1>3 DEF AnnounceMilestone, TL!AnnounceMilestone, session, TrailInv, TypeOK,
              WritesConsistent, TargetsLegal, LastEventMatchesRow, EventsAreLegal
<1>4. ASSUME NEW c \in Client, NEW r \in Request, Begin(c, r) PROVE TrailInv'
  BY <1>4, BeginKeeps
<1>5. ASSUME NEW c \in Client, Handle(c) PROVE TrailInv'
  <2>1. CASE CheckDependencies(c)
    BY <2>1, GotoKeeps, RollbackKeeps DEF CheckDependencies
  <2>2. CASE WriteTask(c)
    BY <2>2, WriteTaskKeeps
  <2>3. CASE FetchDependent(c)
    BY <2>3, FetchDependentKeeps
  <2>4. CASE CountOpenDependencies(c)
    BY <2>4, GotoKeeps DEF CountOpenDependencies
  <2>5. CASE UnblockDependent(c)
    BY <2>5, UnblockDependentKeeps
  <2>6. CASE DetectMilestone(c)
    BY <2>6, GotoKeeps, RollbackKeeps DEF DetectMilestone
  <2>7. CASE Commit(c)
    BY <2>7, CommitKeeps
  <2>8. QED
    BY <1>5, <2>1, <2>2, <2>3, <2>4, <2>5, <2>6, <2>7 DEF Handle
<1>6. ASSUME NEW c \in Client, Crash(c) PROVE TrailInv'
  BY <1>6, RollbackKeeps DEF Crash
<1>7. QED
  BY <1>1, <1>2, <1>3, <1>4, <1>5, <1>6 DEF Next

LEMMA TrailInvariance == Spec => []TrailInv
<1>1. QED
  BY TrailInvInit, TrailInvStep, PTL DEF Spec

\* Every variable keeps its type, committed or not.
THEOREM TypeCorrect == Spec => []TypeOK
<1>1. TrailInv => TypeOK
  BY DEF TrailInv
<1>2. QED
  BY <1>1, TrailInvariance, PTL

\* However many requests overlap, die or roll back, the last committed event
\* of a task names the status its row has.
THEOREM TrailMatchesRows == Spec => []LastEventMatchesRow
<1>1. TrailInv => LastEventMatchesRow
  BY DEF TrailInv
<1>2. QED
  BY <1>1, TrailInvariance, PTL

\* And every event is a legal transition, even where the status it names as old
\* was written over by another request meanwhile.
THEOREM TrailIsLegal == Spec => []EventsAreLegal
<1>1. TrailInv => EventsAreLegal
  BY DEF TrailInv
<1>2. QED
  BY <1>1, TrailInvariance, PTL

-----------------------------------------------------------------------------
(***************************************************************************)
(* What an open transaction has read and written so far, whoever else is   *)
(* in flight.                                                              *)
(***************************************************************************)
\* The task a client's request is about, and where the request stands.
Own(c) == client[c].req.task
InFlight(c) == client[c].pc # "idle"
Wrote(c) == client[c].pc \in {"cascading", "counting", "unblocking", "committing"}
Ends(c) == client[c].req.kind # "patch"
CascadedTo(c, d) == d # Own(c) /\ pending[c][d] # Clean
Examines(c, d) == client[c].pc \in {"counting", "unblocking"} /\ client[c].row = d
Vouches(c, d) == CascadedTo(c, d) \/ (client[c].pc = "unblocking" /\ client[c].row = d)

OwnEntry(c) ==
  [action |-> EventName(client[c].req.kind), old |-> client[c].loaded, new |-> client[c].req.target]
Unblocked == [action |-> "unblocked", old |-> "blocked", new |-> "not_started"]

\* Before the flush of its own row a client has written nothing.  After it the
\* row holds the target, and every other row it wrote is a dependent that it
\* unblocked.
Orderly(c) ==
  /\ ~Wrote(c) => \A t \in Task : pending[c][t] = Clean
  /\ client[c].pc \in {"checking", "writing"} => client[c].row = Own(c)
  /\ client[c].pc \in {"checking", "cascading", "counting", "unblocking"} => Ends(c)
  /\ client[c].pc = "committing" => client[c].todo = {}
  /\ InFlight(c) => /\ Own(c) \in TL!Created
                    /\ client[c].todo \subseteq TL!Dependents(Own(c))
  /\ Wrote(c) => /\ pending[c][Own(c)] = client[c].req.target
                 /\ entries[c][Own(c)] = OwnEntry(c)
                 /\ \A d \in Task : CascadedTo(c, d) =>
                      /\ Ends(c)
                      /\ d \in TL!Dependents(Own(c))
                      /\ pending[c][d] = "not_started" /\ entries[c][d] = Unblocked
  /\ \A d \in Task : Examines(c, d) => d \in TL!Dependents(Own(c)) /\ d # Own(c)

\* The committed columns that TypeOK leaves to TaskLifecycle.
RowsTyped ==
  /\ deps \in [Task -> SUBSET Task]
  /\ phase \in [Task -> Phase]
  /\ completedAt \in [Task -> BOOLEAN]

\* Dependencies come with the task and are looked up before it is inserted: two
\* tasks never depend on each other.
DependenciesOlder ==
  /\ \A t \in Task : deps[t] \subseteq TL!Created
  /\ \A t \in Task \ TL!Created : deps[t] = {}
  /\ \A t, u \in Task : ~(t \in deps[u] /\ u \in deps[t])

\* No row is written by two open transactions.
Locks == \A c \in Client, t \in Task : pending[c][t] # Clean => RowFree(c, t)

SessionInv == RowsTyped /\ DependenciesOlder /\ Locks /\ \A c \in Client : Orderly(c)

\* A client that a step leaves alone stays in order; new tasks do not matter.
LEMMA OthersStayOrderly ==
  ASSUME TrailInv, SessionInv, NEW o \in Client,
         client'[o] = client[o], pending'[o] = pending[o], entries'[o] = entries[o],
         \A t \in Task : status[t] # "absent" => status'[t] # "absent",
         \A t \in TL!Created : deps'[t] = deps[t]
  PROVE  Orderly(o)'
<1>1. TL!Created \subseteq TL!Created'
  BY DEF TL!Created
<1>2. \A t, d \in Task : t \in deps[d] => t \in deps'[d]
  <2> SUFFICES ASSUME NEW t \in Task, NEW d \in Task, t \in deps[d]
               PROVE  t \in deps'[d]
    OBVIOUS
  <2>1. d \in TL!Created
    BY DEF SessionInv, DependenciesOlder
  <2>2. QED
    BY <2>1
<1>3. InFlight(o) => client[o] \in Busy
  BY BusyClient DEF TrailInv, InFlight
<1>4. InFlight(o) => Own(o) \in Task /\ client[o].todo \subseteq Task
  BY <1>3, RequestFields DEF Busy, Own
<1>5. Orderly(o)
  BY DEF SessionInv
<1>6. /\ Wrote(o) => InFlight(o)
      /\ \A d \in Task : Examines(o, d) => InFlight(o)
  BY DEF Wrote, Examines, InFlight
<1>7. (InFlight(o) => /\ Own(o) \in TL!Created
                     /\ client[o].todo \subseteq TL!Dependents(Own(o)))'
  BY <1>1, <1>2, <1>4, <1>5 DEF Orderly, InFlight, Own, TL!Dependents
<1>8. (Wrote(o) => /\ pending[o][Own(o)] = client[o].req.target
                  /\ entries[o][Own(o)] = OwnEntry(o)
                  /\ \A d \in Task : CascadedTo(o, d) =>
                       /\ Ends(o)
                       /\ d \in TL!Dependents(Own(o))
                       /\ pending[o][d] = "not_started" /\ entries[o][d] = Unblocked)'
  BY <1>2, <1>4, <1>5, <1>6 DEF Orderly, Wrote, Own, OwnEntry, CascadedTo, Ends, Unblocked, TL!Dependents
<1>9. (\A d \in Task : Examines(o, d) => d \in TL!Dependents(Own(o)) /\ d # Own(o))'
  BY <1>2, <1>4, <1>5, <1>6 DEF Orderly, Examines, Own, TL!Dependents
<1>10. QED
  BY <1>5, <1>7, <1>8, <1>9 DEF Orderly, Wrote, Own, Ends

\* The client's record moves on, and nothing is written.
LEMMA MoveKeepsOrder ==
  ASSUME TrailInv, SessionInv, NEW c \in Client, NEW k \in Busy,
         client' = [client EXCEPT ![c] = k],
         UNCHANGED <<database, pending, entries>>,
         Orderly(c)'
  PROVE  SessionInv'
<1>1. \A o \in Client \ {c} : Orderly(o)'
  BY OthersStayOrderly DEF TrailInv, TypeOK, database
<1>2. RowsTyped' /\ DependenciesOlder' /\ Locks'
  BY DEF SessionInv, RowsTyped, DependenciesOlder, Locks, RowFree, database, TL!Created
<1>3. QED
  BY <1>1, <1>2 DEF SessionInv

\* The client's record moves on, and a row is written with its event.
LEMMA WriteKeepsOrder ==
  ASSUME TrailInv, SessionInv, NEW c \in Client, NEW k \in Busy, NEW t \in Task, NEW s, NEW e,
         client' = [client EXCEPT ![c] = k],
         WriteRow(c, t, s, e),
         UNCHANGED database,
         Orderly(c)'
  PROVE  SessionInv'
<1>1. \A o \in Client \ {c} : pending'[o] = pending[o] /\ entries'[o] = entries[o]
  BY DEF WriteRow, TrailInv, TypeOK
<1>2. \A o \in Client \ {c} : Orderly(o)'
  BY <1>1, OthersStayOrderly DEF TrailInv, TypeOK, database
<1>3. RowsTyped' /\ DependenciesOlder'
  BY DEF SessionInv, RowsTyped, DependenciesOlder, database, TL!Created
<1>4. Locks'
  <2> SUFFICES ASSUME NEW d \in Client, NEW u \in Task, pending'[d][u] # Clean,
                      NEW o \in Client \ {d}
               PROVE  pending'[o][u] = Clean
    BY DEF Locks, RowFree
  <2>1. \A u2 \in Task : u2 # t => pending'[c][u2] = pending[c][u2]
    BY DEF WriteRow, TrailInv, TypeOK
  <2>2. \A o2 \in Client \ {c} : pending[o2][t] = Clean
    BY DEF WriteRow, RowFree
  <2>3. CASE u = t
    BY <1>1, <2>2, <2>3
  <2>4. CASE u # t
    <3>1. \A o2 \in Client : pending'[o2][u] = pending[o2][u]
      BY <1>1, <2>1, <2>4
    <3>2. QED
      BY <3>1 DEF SessionInv, Locks, RowFree
  <2>5. QED
    BY <2>3, <2>4
<1>5. QED
  BY <1>2, <1>3, <1>4 DEF SessionInv

\* The client is idle again; tasks neither disappear nor change dependencies.
LEMMA EndKeepsOrder ==
  ASSUME TrailInv, SessionInv, NEW c \in Client,
         client' = [client EXCEPT ![c] = Idle],
         pending' = [pending EXCEPT ![c] = [t \in Task |-> Clean]],
         entries' = [entries EXCEPT ![c] = [t \in Task |-> NoEntry]],
         \A t \in Task : status'[t] = "absent" <=> status[t] = "absent",
         UNCHANGED <<deps, phase>>,
         completedAt' \in [Task -> BOOLEAN]
  PROVE  SessionInv'
<1>1. \A o \in Client \ {c} : /\ client'[o] = client[o] /\ pending'[o] = pending[o]
                             /\ entries'[o] = entries[o]
  BY DEF TrailInv, TypeOK
<1>2. \A o \in Client \ {c} : Orderly(o)'
  BY <1>1, OthersStayOrderly
<1>3. client'[c] = Idle /\ \A t \in Task : pending'[c][t] = Clean
  BY DEF TrailInv, TypeOK
<1>4. Orderly(c)'
  BY <1>3 DEF Orderly, Idle, Wrote, InFlight, Examines
<1>5. RowsTyped' /\ DependenciesOlder'
  BY DEF SessionInv, RowsTyped, DependenciesOlder, TL!Created
<1>6. Locks'
  BY <1>1, <1>3 DEF SessionInv, Locks, RowFree
<1>7. QED
  BY <1>2, <1>4, <1>5, <1>6 DEF SessionInv

LEMMA RollbackKeepsOrder ==
  ASSUME TrailInv, SessionInv, NEW c \in Client, Rollback(c)
  PROVE  SessionInv'
  BY EndKeepsOrder DEF Rollback, database, SessionInv, RowsTyped

LEMMA CommitKeepsOrder ==
  ASSUME TrailInv, SessionInv, NEW c \in Client, Commit(c)
  PROVE  SessionInv'
<1>1. \A t \in Task : status'[t] = IF pending[c][t] = Clean THEN status[t] ELSE pending[c][t]
  BY DEF Commit, Publish, View
<1>2. \A t \in Task : status'[t] = "absent" => status[t] = "absent"
  BY <1>1, Statuses DEF TrailInv, TypeOK
<1>3. \A t \in Task : pending[c][t] # Clean => status[t] # "absent"
  <2> SUFFICES ASSUME NEW t \in Task, pending[c][t] # Clean PROVE t \in TL!Created
    BY DEF TL!Created
  <2>1. Orderly(c) /\ Wrote(c) /\ InFlight(c)
    BY DEF SessionInv, Orderly, Wrote, InFlight
  <2>2. CASE t = Own(c)
    BY <2>1, <2>2 DEF Orderly
  <2>3. CASE t # Own(c)
    <3>1. t \in TL!Dependents(Own(c))
      BY <2>1, <2>3 DEF Orderly, CascadedTo
    <3>2. QED
      BY <3>1 DEF TL!Dependents, SessionInv, DependenciesOlder
  <2>4. QED
    BY <2>2, <2>3
<1>4. \A t \in Task : status'[t] = "absent" <=> status[t] = "absent"
  BY <1>1, <1>2, <1>3
<1>5. client[c] \in Busy
  BY BusyClient DEF Commit, ReadyToCommit, TrailInv
<1>6. completedAt' \in [Task -> BOOLEAN]
  BY DEF Commit, Publish, SessionInv, RowsTyped
<1>7. QED
  BY <1>4, <1>6, EndKeepsOrder DEF Commit, Publish

LEMMA CreateTaskKeepsOrder ==
  ASSUME TrailInv, SessionInv, NEW r \in Template, CreateTask(r)
  PROVE  SessionInv'
<1>1. r.id \in Task /\ r.deps \subseteq Task /\ r.phase \in Phase
  BY TemplateAssumption DEF TL!NewTask
<1>2. /\ r.id \notin TL!Created /\ r.deps \subseteq TL!Created
      /\ status' = [status EXCEPT ![r.id] = "not_started"]
      /\ deps' = [deps EXCEPT ![r.id] = r.deps]
      /\ phase' = [phase EXCEPT ![r.id] = r.phase]
      /\ UNCHANGED <<completedAt, client, pending, entries>>
  BY DEF CreateTask, TL!CreateTask, TL!DependenciesExist, session
<1>3. RowsTyped'
  BY <1>1, <1>2 DEF SessionInv, RowsTyped
<1>4. /\ \A t \in Task : status[t] # "absent" => status'[t] # "absent"
      /\ \A t \in TL!Created : deps'[t] = deps[t]
      /\ TL!Created' = TL!Created \union {r.id}
  BY <1>1, <1>2 DEF TrailInv, TypeOK, SessionInv, RowsTyped, TL!Created
<1>5. DependenciesOlder'
  <2>1. \A t \in Task : deps'[t] = IF t = r.id THEN r.deps ELSE deps[t]
    BY <1>1, <1>2 DEF SessionInv, RowsTyped
  <2>2. \A t \in Task : deps[t] \subseteq TL!Created
    BY DEF SessionInv, DependenciesOlder
  <2>3. \A t, u \in Task : ~(t \in deps'[u] /\ u \in deps'[t])
    BY <1>2, <2>1, <2>2 DEF SessionInv, DependenciesOlder
  <2>4. QED
    BY <1>2, <1>4, <2>1, <2>2, <2>3 DEF SessionInv, DependenciesOlder
<1>6. Locks' /\ \A o \in Client : Orderly(o)'
  BY <1>2, <1>4, OthersStayOrderly DEF SessionInv, Locks, RowFree
<1>7. QED
  BY <1>3, <1>5, <1>6 DEF SessionInv

-----------------------------------------------------------------------------
\* How the record of a client moves on: its request and the status it loaded
\* stay.
MovesOn(c, pc, todo, row) ==
  \E k \in Busy :
    /\ client' = [client EXCEPT ![c] = k]
    /\ client'[c] = k
    /\ k.pc = pc /\ k.todo = todo /\ k.row = row
    /\ k.req = client[c].req /\ k.loaded = client[c].loaded

LEMMA GotoMoves ==
  ASSUME TypeOK, NEW c \in Client, client[c].pc # "idle",
         NEW pc \in {"checking", "writing", "cascading", "counting", "unblocking", "committing"},
         Goto(c, pc)
  PROVE  MovesOn(c, pc, client[c].todo, client[c].row)
<1> DEFINE k == [client[c] EXCEPT !.pc = pc]
<1>1. client[c] \in Busy
  BY BusyClient
<1>2. client' = [client EXCEPT ![c] = k] /\ client'[c] = k
  BY DEF Goto, TypeOK
<1>3. k \in Busy
  BY <1>1 DEF Busy
<1>4. /\ k.pc = pc /\ k.todo = client[c].todo /\ k.row = client[c].row
      /\ k.req = client[c].req /\ k.loaded = client[c].loaded
  BY <1>1 DEF Busy
<1> HIDE DEF k
<1>5. QED
  BY <1>2, <1>3, <1>4 DEF MovesOn

LEMMA WriteTaskMoves ==
  ASSUME TypeOK, NEW c \in Client, WriteTask(c)
  PROVE  MovesOn(c, IF Ends(c) THEN "cascading" ELSE "committing",
                 IF Ends(c) THEN TL!Dependents(Own(c)) ELSE {}, client[c].row)
<1> DEFINE pc == IF Ends(c) THEN "cascading" ELSE "committing"
           todo == IF Ends(c) THEN TL!Dependents(Own(c)) ELSE {}
           k == [client[c] EXCEPT !.pc = pc, !.todo = todo]
<1>1. client[c] \in Busy
  BY BusyClient DEF WriteTask
<1>2. client' = [client EXCEPT ![c] = k] /\ client'[c] = k
  BY <1>1 DEF WriteTask, TypeOK, Ends, Own
<1>3. pc \in {"cascading", "committing"} /\ todo \in SUBSET Task
  BY DEF TL!Dependents
<1> HIDE DEF pc, todo
<1>4. k \in Busy
  BY <1>1, <1>3 DEF Busy
<1>5. /\ k.pc = pc /\ k.todo = todo /\ k.row = client[c].row
      /\ k.req = client[c].req /\ k.loaded = client[c].loaded
  BY <1>1 DEF Busy
<1> HIDE DEF k
<1>6. MovesOn(c, pc, todo, client[c].row)
  BY <1>2, <1>4, <1>5 DEF MovesOn
<1>7. QED
  BY <1>6 DEF pc, todo

LEMMA FetchDependentMoves ==
  ASSUME TypeOK, NEW c \in Client, FetchDependent(c)
  PROVE  \E d \in client[c].todo :
           MovesOn(c, IF View(c)[d] = "blocked" THEN "counting" ELSE "cascading",
                   client[c].todo \ {d}, d)
<1>1. client[c] \in Busy /\ client \in [Client -> Busy \union {Idle}]
  BY BusyClient DEF FetchDependent, TypeOK
<1>2. PICK d \in client[c].todo :
        client' = [client EXCEPT
          ![c].pc = IF View(c)[d] = "blocked" THEN "counting" ELSE "cascading",
          ![c].todo = client[c].todo \ {d},
          ![c].row = d]
  BY <1>1 DEF FetchDependent
<1> DEFINE pc == IF View(c)[d] = "blocked" THEN "counting" ELSE "cascading"
           k == [client[c] EXCEPT !.pc = pc, !.todo = client[c].todo \ {d}, !.row = d]
<1>3. client' = [client EXCEPT ![c] = k] /\ client'[c] = k
  BY <1>1, <1>2
<1>4. pc \in {"counting", "cascading"} /\ d \in Task /\ client[c].todo \ {d} \in SUBSET Task
  BY <1>1 DEF Busy
<1> HIDE DEF pc
<1>5. k \in Busy
  BY <1>1, <1>4 DEF Busy
<1>6. /\ k.pc = pc /\ k.todo = client[c].todo \ {d} /\ k.row = d
      /\ k.req = client[c].req /\ k.loaded = client[c].loaded
  BY <1>1 DEF Busy
<1> HIDE DEF k
<1>7. MovesOn(c, pc, client[c].todo \ {d}, d)
  BY <1>3, <1>5, <1>6 DEF MovesOn
<1>8. QED
  BY <1>7 DEF pc

\* Unless it is at its end, a client's own row is not one it unblocks.
LEMMA OwnRow ==
  ASSUME TrailInv, SessionInv, NEW c \in Client, InFlight(c)
  PROVE  /\ Own(c) \in Task /\ client[c] \in Busy /\ client[c].req \in Request
         /\ Own(c) \notin TL!Dependents(Own(c))
         /\ client[c].req.target \in TL!Status
         /\ client[c].loaded \in TL!Open
         /\ Ends(c) => client[c].req.target \in TL!TerminalStates
<1>1. client[c] \in Busy
  BY BusyClient DEF TrailInv, InFlight
<1>2. client[c].req \in Request /\ client[c].loaded \in TL!Open
  BY <1>1 DEF Busy
<1>3. Own(c) \in Task /\ client[c].req.kind \in Kind /\ client[c].req.target \in TL!Status
  BY <1>2, RequestFields DEF Own
<1>4. Own(c) \notin TL!Dependents(Own(c))
  BY <1>3 DEF TL!Dependents, SessionInv, DependenciesOlder
<1>5. Ends(c) => client[c].req.target \in TL!TerminalStates
  <2>1. /\ client[c].req.kind = "complete" => client[c].req.target = "complete"
        /\ client[c].req.kind = "waive" => client[c].req.target = "waived"
    BY <1>2, RequestAssumption
  <2>2. QED
    BY <1>3, <2>1 DEF Ends, Kind, TL!TerminalStates
<1>6. QED
  BY <1>1, <1>2, <1>3, <1>4, <1>5

LEMMA BeginKeepsOrder ==
  ASSUME TrailInv, SessionInv, NEW c \in Client, NEW r \in Request, Begin(c, r)
  PROVE  SessionInv'
<1> DEFINE k == [pc     |-> IF r.kind = "complete" THEN "checking" ELSE "writing",
                 req    |-> r,
                 loaded |-> status[r.task],
                 todo   |-> {},
                 row    |-> r.task]
<1>1. client' = [client EXCEPT ![c] = k] /\ client'[c] = k
  BY DEF Begin, Accept, TrailInv, TypeOK
<1>2. UNCHANGED <<database, pending, entries>>
  BY DEF Begin, Accept
<1>3. r.task \in TL!Created
  BY DEF Begin
<1>4. \A t \in Task : pending[c][t] = Clean
  BY DEF Begin, SessionInv, Orderly, Wrote
<1>5. k \in Busy
  <2>1. r.task \in Task /\ status[r.task] \in TL!Status
    BY <1>3 DEF TL!Created, TrailInv, TypeOK
  <2>2. status[r.task] \in TL!Open
    BY <2>1, Statuses DEF Begin
  <2>3. QED
    BY <2>1, <2>2 DEF Busy
<1>6. Orderly(c)'
  BY <1>1, <1>2, <1>3, <1>4 DEF Orderly, Wrote, Own, Ends, InFlight, Examines, TL!Created, database
<1>7. QED
  BY <1>1, <1>2, <1>5, <1>6, MoveKeepsOrder

LEMMA CheckDependenciesKeepsOrder ==
  ASSUME TrailInv, SessionInv, NEW c \in Client, CheckDependencies(c)
  PROVE  SessionInv'
<1>1. CASE Rollback(c)
  BY <1>1, RollbackKeepsOrder
<1>2. CASE Goto(c, "writing") /\ UNCHANGED <<database, pending, entries>>
  <2>1. client[c].pc = "checking"
    BY DEF CheckDependencies
  <2>2. PICK k \in Busy :
          /\ client' = [client EXCEPT ![c] = k] /\ client'[c] = k
          /\ k.pc = "writing" /\ k.todo = client[c].todo /\ k.row = client[c].row
          /\ k.req = client[c].req /\ k.loaded = client[c].loaded
    BY <1>2, <2>1, GotoMoves DEF TrailInv, MovesOn
  <2>3. Orderly(c)'
    BY <1>2, <2>1, <2>2 DEF SessionInv, Orderly, Wrote, Own, Ends, InFlight, Examines,
                            TL!Created, TL!Dependents, database
  <2>4. QED
    BY <1>2, <2>2, <2>3, MoveKeepsOrder
<1>3. QED
  BY <1>1, <1>2 DEF CheckDependencies

LEMMA WriteTaskKeepsOrder ==
  ASSUME TrailInv, SessionInv, NEW c \in Client, WriteTask(c)
  PROVE  SessionInv'
<1>1. client[c].pc = "writing" /\ InFlight(c)
  BY DEF WriteTask, InFlight
<1>2. PICK k \in Busy :
        /\ client' = [client EXCEPT ![c] = k] /\ client'[c] = k
        /\ k.pc = IF Ends(c) THEN "cascading" ELSE "committing"
        /\ k.todo = IF Ends(c) THEN TL!Dependents(Own(c)) ELSE {}
        /\ k.req = client[c].req /\ k.loaded = client[c].loaded
  BY WriteTaskMoves DEF TrailInv, MovesOn
<1>3. /\ UNCHANGED <<status, deps>> /\ UNCHANGED database
      /\ WriteRow(c, Own(c), client[c].req.target, OwnEntry(c))
  BY DEF WriteTask, database, Own, OwnEntry
<1>4. /\ pending'[c][Own(c)] = client[c].req.target /\ entries'[c][Own(c)] = OwnEntry(c)
      /\ \A d \in Task : d # Own(c) => pending'[c][d] = Clean
  BY <1>1, <1>3, OwnRow DEF WriteRow, TrailInv, TypeOK, SessionInv, Orderly, Wrote
<1>5. Own(c)' = Own(c) /\ OwnEntry(c)' = OwnEntry(c) /\ (Ends(c)' <=> Ends(c))
  BY <1>2 DEF Own, OwnEntry, Ends
<1>6. Orderly(c)'
  <2>1. Own(c) \in TL!Created
    BY <1>1 DEF SessionInv, Orderly
  <2>2. (Own(c) \in TL!Created)' /\ (client[c].todo \subseteq TL!Dependents(Own(c)))'
    BY <1>2, <1>3, <1>5, <2>1 DEF Own, TL!Created, TL!Dependents
  <2>3. /\ (\A d \in Task : ~CascadedTo(c, d))' /\ (\A d \in Task : ~Examines(c, d))'
        /\ Wrote(c)'
    BY <1>2, <1>4, <1>5 DEF CascadedTo, Examines, Wrote
  <2>4. (pending[c][Own(c)] = client[c].req.target /\ entries[c][Own(c)] = OwnEntry(c))'
    BY <1>2, <1>4, <1>5
  <2>5. QED
    BY <1>2, <1>5, <2>2, <2>3, <2>4 DEF Orderly
<1>7. QED
  BY <1>2, <1>3, <1>6, OwnRow, <1>1, WriteKeepsOrder

LEMMA FetchDependentKeepsOrder ==
  ASSUME TrailInv, SessionInv, NEW c \in Client, FetchDependent(c)
  PROVE  SessionInv'
<1>1. client[c].pc = "cascading" /\ InFlight(c) /\ UNCHANGED <<database, pending, entries>>
  BY DEF FetchDependent, InFlight
<1>2. PICK d \in client[c].todo, k \in Busy :
        /\ client' = [client EXCEPT ![c] = k] /\ client'[c] = k
        /\ k.pc = IF View(c)[d] = "blocked" THEN "counting" ELSE "cascading"
        /\ k.todo = client[c].todo \ {d} /\ k.row = d
        /\ k.req = client[c].req /\ k.loaded = client[c].loaded
  BY FetchDependentMoves DEF TrailInv, MovesOn
<1>3. client[c].todo \subseteq TL!Dependents(Own(c)) /\ d # Own(c)
  BY <1>1, OwnRow DEF SessionInv, Orderly
<1>4. Orderly(c)'
  BY <1>1, <1>2, <1>3 DEF SessionInv, Orderly, Wrote, Own, Ends, OwnEntry, InFlight, CascadedTo,
                          Examines, TL!Created, TL!Dependents, database
<1>5. QED
  BY <1>1, <1>2, <1>4, MoveKeepsOrder

LEMMA CountOpenDependenciesKeepsOrder ==
  ASSUME TrailInv, SessionInv, NEW c \in Client, CountOpenDependencies(c)
  PROVE  SessionInv'
<1>1. client[c].pc = "counting" /\ InFlight(c) /\ UNCHANGED <<database, pending, entries>>
  BY DEF CountOpenDependencies, InFlight
<1>2. PICK k \in Busy :
        /\ client' = [client EXCEPT ![c] = k] /\ client'[c] = k
        /\ k.pc \in {"unblocking", "cascading"} /\ k.todo = client[c].todo /\ k.row = client[c].row
        /\ k.req = client[c].req /\ k.loaded = client[c].loaded
  BY <1>1, GotoMoves DEF CountOpenDependencies, TrailInv, MovesOn
<1>3. Orderly(c)'
  BY <1>1, <1>2 DEF SessionInv, Orderly, Wrote, Own, Ends, OwnEntry, InFlight, CascadedTo,
                    Examines, TL!Created, TL!Dependents, database
<1>4. QED
  BY <1>1, <1>2, <1>3, MoveKeepsOrder

LEMMA UnblockDependentKeepsOrder ==
  ASSUME TrailInv, SessionInv, NEW c \in Client, UnblockDependent(c)
  PROVE  SessionInv'
<1> DEFINE d == client[c].row
<1>1. client[c].pc = "unblocking" /\ InFlight(c) /\ Wrote(c) /\ UNCHANGED <<status, deps, database>>
  BY DEF UnblockDependent, InFlight, Wrote, database
<1>2. PICK k \in Busy :
        /\ client' = [client EXCEPT ![c] = k] /\ client'[c] = k
        /\ k.pc = "cascading" /\ k.todo = client[c].todo
        /\ k.req = client[c].req /\ k.loaded = client[c].loaded
  BY <1>1, GotoMoves DEF UnblockDependent, TrailInv, MovesOn
<1>3. WriteRow(c, d, "not_started", Unblocked)
  BY DEF UnblockDependent, Unblocked
<1>4. d \in Task /\ d \in TL!Dependents(Own(c)) /\ d # Own(c)
  BY <1>1 DEF SessionInv, Orderly, Examines, TL!Dependents, TrailInv, TypeOK, Busy, Idle
<1>5. /\ pending'[c][d] = "not_started" /\ entries'[c][d] = Unblocked
      /\ \A t \in Task : t # d => pending'[c][t] = pending[c][t] /\ entries'[c][t] = entries[c][t]
  BY <1>3, <1>4 DEF WriteRow, TrailInv, TypeOK
<1>6. Own(c)' = Own(c) /\ OwnEntry(c)' = OwnEntry(c) /\ (Ends(c)' <=> Ends(c))
  BY <1>2 DEF Own, OwnEntry, Ends
<1>7. Orderly(c)'
  <2>1. (Own(c) \in TL!Created)' /\ (client[c].todo \subseteq TL!Dependents(Own(c)))'
    BY <1>1, <1>2, <1>6 DEF SessionInv, Orderly, Own, TL!Created, TL!Dependents
  <2>2. (pending[c][Own(c)] = client[c].req.target /\ entries[c][Own(c)] = OwnEntry(c))'
    BY <1>1, <1>2, <1>4, <1>5, <1>6, OwnRow DEF SessionInv, Orderly
  <2>3. (\A t \in Task : CascadedTo(c, t) =>
           Ends(c) /\ t \in TL!Dependents(Own(c)) /\ pending[c][t] = "not_started"
           /\ entries[c][t] = Unblocked)'
    BY <1>1, <1>4, <1>5, <1>6 DEF SessionInv, Orderly, CascadedTo, Own, Ends, Unblocked, TL!Dependents
  <2>4. /\ (\A t \in Task : ~Examines(c, t))' /\ Wrote(c)'
    BY <1>2 DEF Examines, Wrote
  <2>5. Ends(c)
    BY <1>1 DEF SessionInv, Orderly
  <2>6. QED
    BY <1>2, <1>6, <2>1, <2>2, <2>3, <2>4, <2>5 DEF Orderly
<1>8. QED
  BY <1>1, <1>2, <1>3, <1>4, <1>7, WriteKeepsOrder

LEMMA DetectMilestoneKeepsOrder ==
  ASSUME TrailInv, SessionInv, NEW c \in Client, DetectMilestone(c)
  PROVE  SessionInv'
<1>1. CASE Rollback(c)
  BY <1>1, RollbackKeepsOrder
<1>2. CASE Goto(c, "committing") /\ UNCHANGED <<database, pending, entries>>
  <2>1. client[c].pc = "cascading" /\ client[c].todo = {}
    BY DEF DetectMilestone
  <2>2. PICK k \in Busy :
          /\ client' = [client EXCEPT ![c] = k] /\ client'[c] = k
          /\ k.pc = "committing" /\ k.todo = client[c].todo
          /\ k.req = client[c].req /\ k.loaded = client[c].loaded
    BY <1>2, <2>1, GotoMoves DEF TrailInv, MovesOn
  <2>3. Orderly(c)'
    BY <1>2, <2>1, <2>2 DEF SessionInv, Orderly, Wrote, Own, Ends, OwnEntry, InFlight, CascadedTo,
                            Examines, TL!Created, TL!Dependents, database
  <2>4. QED
    BY <1>2, <2>2, <2>3, MoveKeepsOrder
<1>3. QED
  BY <1>1, <1>2 DEF DetectMilestone

LEMMA SessionInvInit == Init => SessionInv
<1> SUFFICES ASSUME Init PROVE SessionInv
  OBVIOUS
<1>1. /\ client = [c \in Client |-> Idle]
      /\ pending = [c \in Client |-> [t \in Task |-> Clean]]
  BY DEF Init
<1>2. /\ deps = [t \in Task |-> {}]
      /\ phase = [t \in Task |-> CHOOSE p \in Phase : TRUE]
      /\ completedAt = [t \in Task |-> FALSE]
  BY DEF Init, TL!Init
<1>3. (CHOOSE p \in Phase : TRUE) \in Phase
  BY PhaseAssumption
<1>4. RowsTyped /\ DependenciesOlder
  BY <1>2, <1>3 DEF RowsTyped, DependenciesOlder
<1>5. Locks
  BY <1>1 DEF Locks
<1>6. ASSUME NEW c \in Client PROVE Orderly(c)
  BY <1>1 DEF Orderly, Idle, Wrote, InFlight, Examines
<1>7. QED
  BY <1>4, <1>5, <1>6 DEF SessionInv

LEMMA SessionInvStep == TrailInv /\ SessionInv /\ [Next]_vars => SessionInv'
<1> SUFFICES ASSUME TrailInv, SessionInv, [Next]_vars PROVE SessionInv'
  OBVIOUS
<1>1. CASE UNCHANGED <<status, deps, phase, completedAt, client, pending, entries>>
  <2>1. \A o \in Client : Orderly(o)'
    BY <1>1, OthersStayOrderly
  <2>2. QED
    BY <1>1, <2>1 DEF SessionInv, RowsTyped, DependenciesOlder, Locks, RowFree, TL!Created
<1>2. ASSUME NEW r \in Template, CreateTask(r) PROVE SessionInv'
  BY <1>2, CreateTaskKeepsOrder
<1>3. ASSUME NEW p \in MilestonePhase, AnnounceMilestone(p) PROVE SessionInv'
  BY <1>1, <1>3 DEF AnnounceMilestone, TL!AnnounceMilestone, session
<1>4. ASSUME NEW c \in Client, NEW r \in Request, Begin(c, r) PROVE SessionInv'
  BY <1>4, BeginKeepsOrder
<1>5. ASSUME NEW c \in Client, Handle(c) PROVE SessionInv'
  BY <1>5, CheckDependenciesKeepsOrder, WriteTaskKeepsOrder, FetchDependentKeepsOrder,
     CountOpenDependenciesKeepsOrder, UnblockDependentKeepsOrder, DetectMilestoneKeepsOrder,
     CommitKeepsOrder DEF Handle
<1>6. ASSUME NEW c \in Client, Crash(c) PROVE SessionInv'
  BY <1>6, RollbackKeepsOrder DEF Crash
<1>7. QED
  BY <1>1, <1>2, <1>3, <1>4, <1>5, <1>6 DEF Next, vars

LEMMA SessionInvariance == Spec => [](TrailInv /\ SessionInv)
<1>1. QED
  BY TrailInvInit, TrailInvStep, SessionInvInit, SessionInvStep, PTL DEF Spec

-----------------------------------------------------------------------------
(***************************************************************************)
(* Requests that are apart, none writing what another reads, implement     *)
(* TaskLifecycle: the Commit of a request is the step of TaskLifecycle,    *)
(* every other step of it a stutter.  What the transaction read must then  *)
(* still be so when it commits (Serial).                                   *)
(***************************************************************************)
\* The rows whose status a request may write: its task's and, when it ends the
\* task, those of the dependents.
Writes(c) == {Own(c)} \union (IF Ends(c) THEN TL!Dependents(Own(c)) ELSE {})

\* The rows whose status it goes by: those, what they depend on, and the tasks
\* of its phase when its completion may achieve the phase's milestone.
Reads(c) ==
  Writes(c)
    \union (IF Ends(c) THEN deps[Own(c)] \union UNION {deps[d] : d \in TL!Dependents(Own(c))}
            ELSE {})
    \union (IF client[c].req.kind = "complete" /\ phase[Own(c)] \in MilestonePhase
            THEN {t \in Task : phase[t] = phase[Own(c)]} ELSE {})

\* Requests that are open at the same time are about unrelated tasks.
RequestsApart ==
  \A c, o \in Client : c # o /\ InFlight(c) /\ InFlight(o) => Writes(c) \intersect Reads(o) = {}

\* As they are when only one is open at a time, or there is only one client.
OneClient == \A c, d \in Client : c = d

\* What the client read of the rows it has written, or is about to, is still
\* what is committed.
Fresh(c) ==
  /\ status[Own(c)] = client[c].loaded
  /\ \A d \in Task : CascadedTo(c, d) \/ Examines(c, d) => status[d] = "blocked"

\* The statuses once the flush of the client's own row is committed.
Ending(c) == TL!Finished(Own(c), client[c].req.target)

\* Every dependent that the flush made ready is unblocked, being examined or
\* still to come, and only those are.
Serial(c) ==
  InFlight(c) =>
    /\ Fresh(c)
    /\ client[c].req.kind = "complete" /\ client[c].pc # "checking" =>
         TL!AllTerminal(status, deps[Own(c)])
    /\ \A d \in Task : Vouches(c, d) => TL!AllTerminal(Ending(c), deps[d])
    /\ Wrote(c) /\ Ends(c) => \A d \in TL!ReadyDependents(Ending(c), Own(c)) :
         CascadedTo(c, d) \/ Examines(c, d) \/ d \in client[c].todo
    /\ client[c].pc = "committing" /\ client[c].req.kind = "complete" =>
         ~TL!MilestoneAchieved(View(c), phase[Own(c)])
SerialInv == \A c \in Client : Serial(c)

\* What a client sees after its flush and what it will leave differ only in
\* rows that are open in both.
LEMMA SeesEndings ==
  ASSUME TrailInv, SessionInv, NEW c \in Client, InFlight(c), Wrote(c), Fresh(c),
         NEW S \in SUBSET Task
  PROVE  TL!AllTerminal(View(c), S) <=> TL!AllTerminal(Ending(c), S)
<1>1. /\ Own(c) \in Task /\ status \in [Task -> TL!Status \union {"absent"}]
      /\ client[c].req.target \in TL!Status
  BY OwnRow DEF TrailInv, TypeOK
<1>2. \A t \in Task : Ending(c)[t] = IF t = Own(c) THEN client[c].req.target ELSE status[t]
  BY <1>1 DEF Ending, TL!Finished
<1>3. ASSUME NEW t \in Task
      PROVE  View(c)[t] \in TL!TerminalStates <=> Ending(c)[t] \in TL!TerminalStates
  <2>1. CASE t = Own(c)
    BY <1>1, <1>2, <2>1, Statuses DEF SessionInv, Orderly, View
  <2>2. CASE CascadedTo(c, t)
    <3>1. pending[c][t] = "not_started" /\ status[t] = "blocked" /\ t # Own(c)
      BY <2>2 DEF SessionInv, Orderly, Fresh, CascadedTo
    <3>2. View(c)[t] = "not_started" /\ Ending(c)[t] = "blocked"
      BY <1>2, <3>1 DEF View, Clean
    <3>3. QED
      BY <3>2 DEF TL!TerminalStates
  <2>3. CASE t # Own(c) /\ ~CascadedTo(c, t)
    BY <1>2, <2>3 DEF View, CascadedTo
  <2>4. QED
    BY <2>1, <2>2, <2>3 DEF CascadedTo
<1>4. QED
  BY <1>3 DEF TL!AllTerminal, TL!Terminal

\* A dependent is ready when it is blocked and its dependencies end with the
\* client's task.
LEMMA ReadyMeans ==
  ASSUME TrailInv, SessionInv, NEW c \in Client, InFlight(c), NEW d \in Task
  PROVE  d \in TL!ReadyDependents(Ending(c), Own(c)) <=>
           /\ d \in TL!Dependents(Own(c))
           /\ status[d] = "blocked"
           /\ TL!AllTerminal(Ending(c), deps[d])
<1>1. Own(c) \in Task /\ Own(c) \notin TL!Dependents(Own(c))
  BY OwnRow
<1>2. d \in TL!Dependents(Own(c)) => Ending(c)[d] = status[d]
  BY <1>1 DEF Ending, TL!Finished, TrailInv, TypeOK
<1>3. QED
  BY <1>2 DEF TL!ReadyDependents

LEMMA SerialBegin ==
  ASSUME TrailInv, SessionInv, NEW c \in Client, NEW r \in Request, Begin(c, r)
  PROVE  Serial(c)'
<1> DEFINE k == [pc     |-> IF r.kind = "complete" THEN "checking" ELSE "writing",
                 req    |-> r,
                 loaded |-> status[r.task],
                 todo   |-> {},
                 row    |-> r.task]
<1>1. client'[c] = k /\ UNCHANGED <<status, pending>>
  BY DEF Begin, Accept, TrailInv, TypeOK, database
<1>2. \A t \in Task : pending[c][t] = Clean
  BY DEF Begin, SessionInv, Orderly, Wrote
<1>3. QED
  BY <1>1, <1>2 DEF Serial, Fresh, Wrote, Own, InFlight, CascadedTo, Examines, Vouches

LEMMA SerialCheckDependencies ==
  ASSUME TrailInv, SessionInv, SerialInv, NEW c \in Client, CheckDependencies(c),
         Goto(c, "writing"), UNCHANGED <<database, pending, entries>>
  PROVE  Serial(c)'
<1>1. client[c].pc = "checking" /\ InFlight(c) /\ TL!AllTerminal(View(c), deps[Own(c)])
  <2>1. client[c].pc = "checking" /\ client \in [Client -> Busy \union {Idle}]
    BY DEF CheckDependencies, TrailInv, TypeOK
  <2>2. ~Rollback(c)
    BY <2>1 DEF Rollback, Goto, Idle
  <2>3. QED
    BY <2>1, <2>2 DEF CheckDependencies, InFlight, Own
<1>2. PICK k \in Busy :
        /\ client'[c] = k
        /\ k.pc = "writing" /\ k.req = client[c].req /\ k.loaded = client[c].loaded
  BY <1>1, GotoMoves DEF TrailInv, MovesOn
<1>3. \A t \in Task : pending[c][t] = Clean /\ View(c)[t] = status[t]
  BY <1>1 DEF SessionInv, Orderly, Wrote, View
<1>4. Own(c) \in Task /\ deps[Own(c)] \subseteq Task
  BY <1>1, OwnRow DEF SessionInv, RowsTyped
<1>5. TL!AllTerminal(status, deps[Own(c)])
  BY <1>1, <1>3, <1>4 DEF TL!AllTerminal, TL!Terminal
<1>6. QED
  BY <1>1, <1>2, <1>3, <1>5 DEF SerialInv, Serial, Fresh, Wrote, Own, InFlight, CascadedTo,
     Examines, Vouches, TL!AllTerminal, TL!Terminal, database

LEMMA SerialWriteTask ==
  ASSUME TrailInv, SessionInv, SerialInv, NEW c \in Client, WriteTask(c)
  PROVE  Serial(c)'
<1>1. client[c].pc = "writing" /\ InFlight(c) /\ UNCHANGED <<status, deps, database>>
  BY DEF WriteTask, InFlight, database
<1>2. PICK k \in Busy :
        /\ client'[c] = k
        /\ k.pc = IF Ends(c) THEN "cascading" ELSE "committing"
        /\ k.todo = IF Ends(c) THEN TL!Dependents(Own(c)) ELSE {}
        /\ k.req = client[c].req /\ k.loaded = client[c].loaded
  BY WriteTaskMoves DEF TrailInv, MovesOn
<1>3. \A d \in Task : d # Own(c) => pending'[c][d] = Clean
  BY <1>1 DEF WriteTask, Own, WriteRow, TrailInv, TypeOK, SessionInv, Orderly, Wrote
<1>4. Own(c)' = Own(c) /\ (Ends(c)' <=> Ends(c))
  BY <1>2 DEF Own, Ends
<1>5. (Fresh(c) /\ \A d \in Task : ~Vouches(c, d))'
  BY <1>1, <1>2, <1>3, <1>4 DEF SerialInv, Serial, Fresh, CascadedTo, Examines, Vouches
<1>6. (Wrote(c) /\ Ends(c) => \A d \in TL!ReadyDependents(Ending(c), Own(c)) : d \in client[c].todo)'
  BY <1>1, <1>2, <1>4 DEF TL!ReadyDependents, TL!Dependents
<1>7. (client[c].req.kind = "complete" => TL!AllTerminal(status, deps[Own(c)]))'
  BY <1>1, <1>2, <1>4 DEF SerialInv, Serial, TL!AllTerminal, TL!Terminal
<1>8. (~(client[c].pc = "committing" /\ client[c].req.kind = "complete"))'
  BY <1>2 DEF Ends
<1>9. QED
  BY <1>5, <1>6, <1>7, <1>8 DEF Serial

LEMMA SerialFetchDependent ==
  ASSUME TrailInv, SessionInv, SerialInv, NEW c \in Client, FetchDependent(c)
  PROVE  Serial(c)'
<1>1. /\ client[c].pc = "cascading" /\ InFlight(c) /\ Wrote(c)
      /\ UNCHANGED <<status, deps, pending, entries>>
  BY DEF FetchDependent, InFlight, Wrote, database
<1>2. PICK d \in client[c].todo, k \in Busy :
        /\ client'[c] = k
        /\ k.pc = IF View(c)[d] = "blocked" THEN "counting" ELSE "cascading"
        /\ k.todo = client[c].todo \ {d} /\ k.row = d
        /\ k.req = client[c].req /\ k.loaded = client[c].loaded
  BY FetchDependentMoves DEF TrailInv, MovesOn
<1>3. d \in Task /\ d \in TL!Dependents(Own(c)) /\ d # Own(c)
  BY <1>1, OwnRow DEF SessionInv, Orderly, TL!Dependents
<1>4. /\ Own(c)' = Own(c) /\ (Ends(c)' <=> Ends(c)) /\ Ending(c)' = Ending(c)
      /\ \A e \in Task : CascadedTo(c, e)' <=> CascadedTo(c, e)
  BY <1>1, <1>2 DEF Own, Ends, Ending, TL!Finished, CascadedTo
<1>5. Serial(c) /\ Fresh(c)
  BY <1>1 DEF SerialInv, Serial
<1>6. View(c)[d] = "blocked" => ~CascadedTo(c, d) /\ status[d] = "blocked"
  BY <1>1, <1>3 DEF View, CascadedTo, SessionInv, Orderly
<1>7. Fresh(c)'
  BY <1>1, <1>2, <1>4, <1>5, <1>6 DEF Fresh, Examines
<1>8. (\A e \in Task : Vouches(c, e) => TL!AllTerminal(Ending(c), deps[e]))'
  <2>1. \A e \in Task : Vouches(c, e)' => Vouches(c, e)
    BY <1>2, <1>4 DEF Vouches
  <2>2. QED
    BY <1>1, <1>4, <1>5, <2>1 DEF Serial, TL!AllTerminal, TL!Terminal
<1>9. (Wrote(c) /\ Ends(c) => \A e \in TL!ReadyDependents(Ending(c), Own(c)) :
         CascadedTo(c, e) \/ Examines(c, e) \/ e \in client[c].todo)'
  <2>1. TL!ReadyDependents(Ending(c), Own(c))' = TL!ReadyDependents(Ending(c), Own(c))
    BY <1>1, <1>4 DEF TL!ReadyDependents, TL!Dependents, TL!AllTerminal, TL!Terminal
  <2>2. \A e \in Task : ~Examines(c, e)
    BY <1>1 DEF Examines
  <2>3. SUFFICES ASSUME NEW e \in TL!ReadyDependents(Ending(c), Own(c)), Ends(c)
                 PROVE  CascadedTo(c, e) \/ Examines(c, e)' \/ e \in client'[c].todo
    BY <1>4, <2>1 DEF TL!ReadyDependents, TL!Dependents
  <2>4. e \in Task /\ (CascadedTo(c, e) \/ e \in client[c].todo)
    BY <1>1, <1>5, <2>2, <2>3 DEF Serial, TL!ReadyDependents, TL!Dependents
  <2>5. CASE e # d
    BY <1>2, <2>4, <2>5
  <2>6. CASE e = d /\ ~CascadedTo(c, d)
    <3>1. status[d] = "blocked"
      BY <1>1, <1>3, <2>3, <2>6, ReadyMeans
    <3>2. View(c)[d] = "blocked"
      BY <1>3, <2>6, <3>1 DEF View, CascadedTo
    <3>3. QED
      BY <1>2, <2>6, <3>2 DEF Examines
  <2>7. QED
    BY <2>5, <2>6
<1>10. (client[c].req.kind = "complete" => TL!AllTerminal(status, deps[Own(c)]))'
  BY <1>1, <1>2, <1>4, <1>5 DEF Serial, TL!AllTerminal, TL!Terminal
<1>11. QED
  BY <1>2, <1>7, <1>8, <1>9, <1>10 DEF Serial

LEMMA SerialCountOpenDependencies ==
  ASSUME TrailInv, SessionInv, SerialInv, NEW c \in Client, CountOpenDependencies(c)
  PROVE  Serial(c)'
<1> DEFINE d == client[c].row
<1>1. /\ client[c].pc = "counting" /\ InFlight(c) /\ Wrote(c)
      /\ UNCHANGED <<status, deps, pending, entries>>
  BY DEF CountOpenDependencies, InFlight, Wrote, database
<1>2. PICK k \in Busy :
        /\ client'[c] = k
        /\ k.pc = IF NoneOpen(c, d) THEN "unblocking" ELSE "cascading"
        /\ k.todo = client[c].todo /\ k.row = d
        /\ k.req = client[c].req /\ k.loaded = client[c].loaded
  BY <1>1, GotoMoves DEF CountOpenDependencies, TrailInv, MovesOn
<1>3. Serial(c) /\ Fresh(c)
  BY <1>1 DEF SerialInv, Serial
<1>4. d \in Task /\ deps[d] \subseteq Task
  BY <1>1, OwnRow DEF Busy, SessionInv, RowsTyped
<1>5. NoneOpen(c, d) <=> TL!AllTerminal(Ending(c), deps[d])
  BY <1>1, <1>3, <1>4, SeesEndings DEF NoneOpen
<1>6. /\ Own(c)' = Own(c) /\ (Ends(c)' <=> Ends(c)) /\ Ending(c)' = Ending(c)
      /\ \A e \in Task : CascadedTo(c, e)' <=> CascadedTo(c, e)
  BY <1>1, <1>2 DEF Own, Ends, Ending, TL!Finished, CascadedTo
<1>7. Fresh(c)'
  BY <1>1, <1>2, <1>3, <1>6 DEF Fresh, Examines
<1>8. (\A e \in Task : Vouches(c, e) => TL!AllTerminal(Ending(c), deps[e]))'
  <2>1. \A e \in Task : Vouches(c, e)' => Vouches(c, e) \/ (e = d /\ NoneOpen(c, d))
    BY <1>2, <1>6 DEF Vouches
  <2>2. QED
    BY <1>1, <1>3, <1>5, <1>6, <2>1 DEF Serial, TL!AllTerminal, TL!Terminal
<1>9. (Wrote(c) /\ Ends(c) => \A e \in TL!ReadyDependents(Ending(c), Own(c)) :
         CascadedTo(c, e) \/ Examines(c, e) \/ e \in client[c].todo)'
  <2>1. TL!ReadyDependents(Ending(c), Own(c))' = TL!ReadyDependents(Ending(c), Own(c))
    BY <1>1, <1>6 DEF TL!ReadyDependents, TL!Dependents, TL!AllTerminal, TL!Terminal
  <2>2. SUFFICES ASSUME NEW e \in TL!ReadyDependents(Ending(c), Own(c)), Ends(c)
                 PROVE  CascadedTo(c, e) \/ Examines(c, e)' \/ e \in client'[c].todo
    BY <1>6, <2>1 DEF TL!ReadyDependents, TL!Dependents
  <2>3. e \in Task /\ (CascadedTo(c, e) \/ Examines(c, e) \/ e \in client[c].todo)
    BY <1>1, <1>3, <2>2 DEF Serial, TL!ReadyDependents, TL!Dependents
  <2>4. CASE Examines(c, e)
    <3>1. e = d
      BY <2>4 DEF Examines
    <3>2. NoneOpen(c, d)
      BY <1>1, <1>5, <2>2, <2>3, <3>1, ReadyMeans
    <3>3. QED
      BY <1>2, <3>1, <3>2 DEF Examines
  <2>5. QED
    BY <1>2, <2>3, <2>4
<1>10. (client[c].req.kind = "complete" => TL!AllTerminal(status, deps[Own(c)]))'
  BY <1>1, <1>2, <1>3, <1>6 DEF Serial, TL!AllTerminal, TL!Terminal
<1>11. QED
  BY <1>2, <1>7, <1>8, <1>9, <1>10 DEF Serial

LEMMA SerialUnblockDependent ==
  ASSUME TrailInv, SessionInv, SerialInv, NEW c \in Client, UnblockDependent(c)
  PROVE  Serial(c)'
<1> DEFINE d == client[c].row
<1>1. /\ client[c].pc = "unblocking" /\ InFlight(c) /\ Wrote(c)
      /\ UNCHANGED <<status, deps>>
  BY DEF UnblockDependent, InFlight, Wrote, database
<1>2. PICK k \in Busy :
        /\ client'[c] = k
        /\ k.pc = "cascading" /\ k.todo = client[c].todo
        /\ k.req = client[c].req /\ k.loaded = client[c].loaded
  BY <1>1, GotoMoves DEF UnblockDependent, TrailInv, MovesOn
<1>3. Serial(c) /\ Fresh(c)
  BY <1>1 DEF SerialInv, Serial
<1>4. /\ d \in Task /\ d # Own(c) /\ Examines(c, d) /\ Vouches(c, d)
      /\ \A e \in Task : Examines(c, e) => e = d
  BY <1>1, OwnRow DEF Busy, SessionInv, Orderly, Examines, Vouches
<1>5. /\ pending'[c][d] = "not_started"
      /\ \A t \in Task : t # d => pending'[c][t] = pending[c][t]
  BY <1>4 DEF UnblockDependent, WriteRow, TrailInv, TypeOK
<1>6. /\ Own(c)' = Own(c) /\ (Ends(c)' <=> Ends(c)) /\ Ending(c)' = Ending(c)
  BY <1>1, <1>2 DEF Own, Ends, Ending, TL!Finished
<1>7. \A e \in Task : CascadedTo(c, e)' <=> CascadedTo(c, e) \/ e = d
  BY <1>4, <1>5, <1>6 DEF CascadedTo, Clean
<1>8. \A e \in Task : ~Examines(c, e)' /\ (Vouches(c, e)' => Vouches(c, e))
  BY <1>2, <1>4, <1>7 DEF Examines, Vouches
<1>9. Fresh(c)'
  BY <1>1, <1>2, <1>3, <1>4, <1>6, <1>7, <1>8 DEF Fresh
<1>10. (\A e \in Task : Vouches(c, e) => TL!AllTerminal(Ending(c), deps[e]))'
  BY <1>1, <1>3, <1>6, <1>8 DEF Serial, TL!AllTerminal, TL!Terminal
<1>11. (Wrote(c) /\ Ends(c) => \A e \in TL!ReadyDependents(Ending(c), Own(c)) :
         CascadedTo(c, e) \/ Examines(c, e) \/ e \in client[c].todo)'
  <2>1. TL!ReadyDependents(Ending(c), Own(c))' = TL!ReadyDependents(Ending(c), Own(c))
    BY <1>1, <1>6 DEF TL!ReadyDependents, TL!Dependents, TL!AllTerminal, TL!Terminal
  <2>2. \A e \in TL!ReadyDependents(Ending(c), Own(c)) : e \in Task
    BY DEF TL!ReadyDependents, TL!Dependents
  <2>3. QED
    BY <1>1, <1>2, <1>3, <1>4, <1>6, <1>7, <2>1, <2>2 DEF Serial
<1>12. (client[c].req.kind = "complete" => TL!AllTerminal(status, deps[Own(c)]))'
  BY <1>1, <1>2, <1>3, <1>6 DEF Serial, TL!AllTerminal, TL!Terminal
<1>13. QED
  BY <1>2, <1>9, <1>10, <1>11, <1>12 DEF Serial

LEMMA SerialDetectMilestone ==
  ASSUME TrailInv, SessionInv, SerialInv, NEW c \in Client, DetectMilestone(c),
         Goto(c, "committing"), UNCHANGED <<database, pending, entries>>
  PROVE  Serial(c)'
<1>1. /\ client[c].pc = "cascading" /\ InFlight(c) /\ Wrote(c) /\ client[c].todo = {}
      /\ client[c].req.kind = "complete"
      /\ UNCHANGED <<status, deps, phase, announced, pending, entries>>
  BY DEF DetectMilestone, InFlight, Wrote, database
<1>2. PICK k \in Busy :
        /\ client'[c] = k
        /\ k.pc = "committing" /\ k.todo = client[c].todo
        /\ k.req = client[c].req /\ k.loaded = client[c].loaded
  BY <1>1, GotoMoves DEF TrailInv, MovesOn
<1>3. Serial(c) /\ Fresh(c)
  BY <1>1 DEF SerialInv, Serial
<1>4. /\ Own(c)' = Own(c) /\ (Ends(c)' <=> Ends(c)) /\ Ending(c)' = Ending(c)
      /\ View(c)' = View(c)
      /\ \A e \in Task : CascadedTo(c, e)' <=> CascadedTo(c, e)
      /\ \A e \in Task : ~Examines(c, e) /\ ~Examines(c, e)' /\ (Vouches(c, e)' => Vouches(c, e))
  BY <1>1, <1>2 DEF Own, Ends, Ending, TL!Finished, CascadedTo, View, Examines, Vouches
<1>5. Fresh(c)'
  BY <1>1, <1>2, <1>3, <1>4 DEF Fresh
<1>6. (\A e \in Task : Vouches(c, e) => TL!AllTerminal(Ending(c), deps[e]))'
  BY <1>1, <1>3, <1>4 DEF Serial, TL!AllTerminal, TL!Terminal
<1>7. (Wrote(c) /\ Ends(c) => \A e \in TL!ReadyDependents(Ending(c), Own(c)) :
         CascadedTo(c, e) \/ Examines(c, e) \/ e \in client[c].todo)'
  <2>1. TL!ReadyDependents(Ending(c), Own(c))' = TL!ReadyDependents(Ending(c), Own(c))
    BY <1>1, <1>4 DEF TL!ReadyDependents, TL!Dependents, TL!AllTerminal, TL!Terminal
  <2>2. \A e \in TL!ReadyDependents(Ending(c), Own(c)) : e \in Task
    BY DEF TL!ReadyDependents, TL!Dependents
  <2>3. QED
    BY <1>1, <1>2, <1>3, <1>4, <2>1, <2>2 DEF Serial
<1>8. (client[c].req.kind = "complete" => TL!AllTerminal(status, deps[Own(c)]))'
  BY <1>1, <1>2, <1>3, <1>4 DEF Serial, TL!AllTerminal, TL!Terminal
<1>9. (~TL!MilestoneAchieved(View(c), phase[Own(c)]))'
  <2>1. ~TL!MilestoneAchieved(View(c), phase[Own(c)])
    <3>1. client[c].pc # "idle" /\ client \in [Client -> Busy \union {Idle}]
      BY <1>1 DEF TrailInv, TypeOK
    <3>2. ~Rollback(c)
      BY <3>1 DEF Rollback, Goto, Idle
    <3>3. QED
      BY <3>2 DEF DetectMilestone, Own
  <2>2. QED
    BY <1>1, <1>4, <2>1 DEF TL!MilestoneAchieved, TL!Terminal, TL!Created
<1>10. QED
  BY <1>5, <1>6, <1>7, <1>8, <1>9 DEF Serial

\* Whatever is committed, a transaction that no one touches has written and
\* examined the same rows.
LEMMA SessionUnmoved ==
  ASSUME NEW c \in Client, client'[c] = client[c], pending'[c] = pending[c]
  PROVE  /\ Own(c)' = Own(c) /\ (Ends(c)' <=> Ends(c)) /\ (Wrote(c)' <=> Wrote(c))
         /\ (InFlight(c)' <=> InFlight(c))
         /\ \A e \in Task : CascadedTo(c, e)' <=> CascadedTo(c, e)
         /\ \A e \in Task : Examines(c, e)' <=> Examines(c, e)
         /\ \A e \in Task : Vouches(c, e)' <=> Vouches(c, e)
<1>1. /\ Own(c)' = Own(c) /\ (Ends(c)' <=> Ends(c)) /\ (Wrote(c)' <=> Wrote(c))
      /\ (InFlight(c)' <=> InFlight(c))
  BY DEF Own, Ends, Wrote, InFlight
<1>2. \A e \in Task : CascadedTo(c, e)' <=> CascadedTo(c, e)
  BY <1>1 DEF CascadedTo
<1>3. \A e \in Task : Examines(c, e)' <=> Examines(c, e)
  BY DEF Examines
<1>4. \A e \in Task : Vouches(c, e)' <=> Vouches(c, e)
  BY <1>2 DEF Vouches
<1>5. QED
  BY <1>1, <1>2, <1>3, <1>4

LEMMA SerialCreateTask ==
  ASSUME TrailInv, SessionInv, SerialInv, NEW r \in Template, CreateTask(r), NEW c \in Client
  PROVE  Serial(c)'
<1> SUFFICES ASSUME InFlight(c) PROVE Serial(c)'
  BY DEF Serial, InFlight, CreateTask, session
<1>1. r.id \in Task /\ r.deps \subseteq Task /\ r.phase \in Phase
  BY TemplateAssumption DEF TL!NewTask
<1>2. /\ r.id \notin TL!Created /\ r.deps \subseteq TL!Created
      /\ status' = [status EXCEPT ![r.id] = "not_started"]
      /\ deps' = [deps EXCEPT ![r.id] = r.deps]
      /\ phase' = [phase EXCEPT ![r.id] = r.phase]
      /\ UNCHANGED <<announced, client, pending, entries>>
  BY DEF CreateTask, TL!CreateTask, TL!DependenciesExist, session
<1>3. \A t \in TL!Created : status'[t] = status[t] /\ deps'[t] = deps[t] /\ phase'[t] = phase[t]
  BY <1>1, <1>2 DEF TrailInv, TypeOK, SessionInv, RowsTyped, TL!Created
<1>4. /\ TL!Created \subseteq TL!Created' /\ TL!Created \subseteq Task
      /\ status[r.id] = "absent" /\ status'[r.id] = "not_started"
  BY <1>1, <1>2 DEF TrailInv, TypeOK, TL!Created
<1>5. \A t \in Task : t # r.id => status'[t] = status[t] /\ deps'[t] = deps[t]
  BY <1>1, <1>2 DEF TrailInv, TypeOK, SessionInv, RowsTyped
<1>6. /\ Own(c)' = Own(c) /\ (Ends(c)' <=> Ends(c)) /\ (Wrote(c)' <=> Wrote(c)) /\ InFlight(c)'
      /\ \A e \in Task : CascadedTo(c, e)' <=> CascadedTo(c, e)
      /\ \A e \in Task : Examines(c, e)' <=> Examines(c, e)
      /\ \A e \in Task : Vouches(c, e)' <=> Vouches(c, e)
  BY <1>2, SessionUnmoved
<1>7. /\ Own(c) \in TL!Created /\ Own(c) # r.id /\ Own(c) \in Task
      /\ \A t \in Task : deps[t] \subseteq TL!Created
      /\ \A t \in Task : t \in TL!Dependents(Own(c)) => t \in TL!Created
  BY <1>2, OwnRow DEF SessionInv, Orderly, DependenciesOlder, TL!Dependents
<1>8. /\ \A t \in TL!Created : Ending(c)'[t] = Ending(c)[t]
      /\ Ending(c)'[r.id] = "not_started"
  BY <1>1, <1>2, <1>3, <1>4, <1>6, <1>7 DEF Ending, TL!Finished, TrailInv, TypeOK
<1>9. Serial(c) /\ Fresh(c)
  BY DEF SerialInv, Serial
<1>10. \A e \in Task : Vouches(c, e) \/ CascadedTo(c, e) \/ Examines(c, e) =>
          e \in TL!Dependents(Own(c)) /\ e \in TL!Created
  <2>1. \A e \in Task : CascadedTo(c, e) => Wrote(c)
    BY DEF CascadedTo, SessionInv, Orderly
  <2>2. QED
    BY <1>7, <2>1 DEF SessionInv, Orderly, Vouches, Examines
<1>11. Fresh(c)'
  <2>1. status'[Own(c)'] = status[Own(c)]
    BY <1>3, <1>6, <1>7
  <2>2. \A e \in Task : CascadedTo(c, e) \/ Examines(c, e) => status'[e] = "blocked"
    BY <1>3, <1>9, <1>10 DEF Fresh
  <2>3. QED
    BY <1>2, <1>6, <1>9, <2>1, <2>2 DEF Fresh
<1>12. (client[c].req.kind = "complete" /\ client[c].pc # "checking" =>
          TL!AllTerminal(status, deps[Own(c)]))'
  BY <1>2, <1>3, <1>6, <1>7, <1>9 DEF Serial, TL!AllTerminal, TL!Terminal
<1>13. (\A e \in Task : Vouches(c, e) => TL!AllTerminal(Ending(c), deps[e]))'
  <2>1. \A e \in Task : Vouches(c, e) => \A t \in deps'[e] : Ending(c)'[t] \in TL!TerminalStates
    <3> SUFFICES ASSUME NEW e \in Task, Vouches(c, e), NEW t \in deps'[e]
                 PROVE  Ending(c)'[t] \in TL!TerminalStates
      OBVIOUS
    <3>1. t \in deps[e] /\ t \in TL!Created
      BY <1>3, <1>7, <1>10
    <3>2. Ending(c)[t] \in TL!TerminalStates
      BY <1>9, <3>1 DEF Serial, TL!AllTerminal, TL!Terminal
    <3>3. QED
      BY <1>8, <3>1, <3>2
  <2>2. QED
    BY <1>6, <2>1 DEF TL!AllTerminal, TL!Terminal
<1>14. (Wrote(c) /\ Ends(c) => \A e \in TL!ReadyDependents(Ending(c), Own(c)) :
          CascadedTo(c, e) \/ Examines(c, e) \/ e \in client[c].todo)'
  <2>1. SUFFICES ASSUME NEW e \in Task, e \in TL!ReadyDependents(Ending(c), Own(c))'
                 PROVE  e \in TL!ReadyDependents(Ending(c), Own(c))
    <3>1. \A e \in TL!ReadyDependents(Ending(c), Own(c))' : e \in Task
      BY DEF TL!ReadyDependents, TL!Dependents
    <3>2. Wrote(c) /\ Ends(c) => \A e \in TL!ReadyDependents(Ending(c), Own(c)) :
            e \in Task /\ (CascadedTo(c, e) \/ Examines(c, e) \/ e \in client[c].todo)
      BY <1>9 DEF Serial, TL!ReadyDependents, TL!Dependents
    <3>3. QED
      BY <1>2, <1>6, <3>1, <3>2
  <2>2. /\ Ending(c)'[e] = "blocked" /\ Own(c) \in deps'[e]
        /\ \A t \in deps'[e] : Ending(c)'[t] \in TL!TerminalStates
    BY <1>6, <2>1 DEF TL!ReadyDependents, TL!Dependents, TL!AllTerminal, TL!Terminal
  <2>3. e # r.id /\ deps'[e] = deps[e]
    BY <1>5, <1>8, <2>2
  <2>4. e \in TL!Created
    BY <1>7, <2>2, <2>3 DEF TL!Dependents
  <2>5. QED
    BY <1>7, <1>8, <2>2, <2>3, <2>4 DEF TL!ReadyDependents, TL!Dependents, TL!AllTerminal, TL!Terminal
<1>15. (client[c].pc = "committing" /\ client[c].req.kind = "complete" =>
          ~TL!MilestoneAchieved(View(c), phase[Own(c)]))'
  <2>1. \A t \in TL!Created : View(c)'[t] = View(c)[t]
    BY <1>2, <1>3, <1>4 DEF View
  <2>2. SUFFICES ASSUME ~TL!MilestoneAchieved(View(c), phase[Own(c)])
                 PROVE  (~TL!MilestoneAchieved(View(c), phase[Own(c)]))'
    BY <1>2, <1>9 DEF Serial
  <2>3. phase'[Own(c)'] = phase[Own(c)]
    BY <1>3, <1>6, <1>7
  <2>4. QED
    BY <1>2, <1>3, <1>4, <1>6, <2>1, <2>2, <2>3 DEF TL!MilestoneAchieved, TL!Terminal
<1>16. QED
  BY <1>11, <1>12, <1>13, <1>14, <1>15 DEF Serial

\* A milestone that is announced meanwhile is not achieved any more.
LEMMA SerialAnnounceMilestone ==
  ASSUME TrailInv, SessionInv, SerialInv, NEW p \in MilestonePhase, AnnounceMilestone(p),
         NEW c \in Client
  PROVE  Serial(c)'
<1>1. /\ UNCHANGED <<status, deps, phase, client, pending, entries>>
      /\ announced' = announced \union {p}
  BY DEF AnnounceMilestone, TL!AnnounceMilestone, session
<1>2. Serial(c)
  BY DEF SerialInv
<1>3. /\ Own(c)' = Own(c) /\ (Ends(c)' <=> Ends(c)) /\ (Wrote(c)' <=> Wrote(c))
      /\ (InFlight(c)' <=> InFlight(c))
      /\ \A e \in Task : CascadedTo(c, e)' <=> CascadedTo(c, e)
      /\ \A e \in Task : Examines(c, e)' <=> Examines(c, e)
      /\ \A e \in Task : Vouches(c, e)' <=> Vouches(c, e)
  BY <1>1, SessionUnmoved
<1>4. Ending(c)' = Ending(c) /\ View(c)' = View(c)
  BY <1>1, <1>3 DEF Ending, View, TL!Finished
<1>5. Fresh(c)' <=> Fresh(c)
  BY <1>1, <1>3 DEF Fresh
<1>6. TL!ReadyDependents(Ending(c), Own(c))' = TL!ReadyDependents(Ending(c), Own(c))
  BY <1>1, <1>3, <1>4 DEF TL!ReadyDependents, TL!Dependents, TL!AllTerminal, TL!Terminal
<1>7. TL!MilestoneAchieved(View(c), phase[Own(c)])' => TL!MilestoneAchieved(View(c), phase[Own(c)])
  BY <1>1, <1>3, <1>4 DEF TL!MilestoneAchieved, TL!Terminal, TL!Created
<1>8. (client[c].req.kind = "complete" /\ client[c].pc # "checking" =>
          TL!AllTerminal(status, deps[Own(c)]))'
      \/ ~InFlight(c)
  BY <1>1, <1>2, <1>3 DEF Serial, TL!AllTerminal, TL!Terminal
<1>9. (\A e \in Task : Vouches(c, e) => TL!AllTerminal(Ending(c), deps[e]))' \/ ~InFlight(c)
  BY <1>1, <1>2, <1>3, <1>4 DEF Serial, TL!AllTerminal, TL!Terminal
<1>10. \A e \in TL!ReadyDependents(Ending(c), Own(c)) : e \in Task
  BY DEF TL!ReadyDependents, TL!Dependents
<1>11. (Wrote(c) /\ Ends(c) => \A e \in TL!ReadyDependents(Ending(c), Own(c)) :
          CascadedTo(c, e) \/ Examines(c, e) \/ e \in client[c].todo)' \/ ~InFlight(c)
  BY <1>1, <1>2, <1>3, <1>6, <1>10 DEF Serial
<1>12. QED
  BY <1>1, <1>2, <1>3, <1>5, <1>7, <1>8, <1>9, <1>11 DEF Serial

\* A dependent that a client vouches for waits for the client's own task.
LEMMA VouchedRows ==
  ASSUME TrailInv, SessionInv, NEW c \in Client, InFlight(c), NEW d \in Task, Vouches(c, d)
  PROVE  /\ Wrote(c) /\ d \in TL!Dependents(Own(c)) /\ d # Own(c) /\ d \in TL!Created
         /\ deps[d] \subseteq Task
<1>1. Wrote(c)
  BY DEF Vouches, CascadedTo, Wrote, SessionInv, Orderly
<1>2. d \in TL!Dependents(Own(c)) /\ d # Own(c)
  BY <1>1, OwnRow DEF Vouches, CascadedTo, Examines, SessionInv, Orderly
<1>3. QED
  BY <1>1, <1>2 DEF TL!Dependents, SessionInv, DependenciesOlder, RowsTyped

\* A transaction that a step leaves alone, and whose rows it leaves alone, may
\* go on relying on what it read.
LEMMA SerialUnmoved ==
  ASSUME TrailInv, SessionInv, SerialInv, NEW c \in Client,
         client'[c] = client[c], pending'[c] = pending[c], UNCHANGED <<deps, phase, announced>>,
         InFlight(c) => \A t \in Reads(c) : status'[t] = status[t],
         TL!Created \subseteq TL!Created',
         status' \in [Task -> TL!Status \union {"absent"}]
  PROVE  Serial(c)'
<1> SUFFICES ASSUME InFlight(c) PROVE Serial(c)'
  BY DEF Serial, InFlight
<1>1. Serial(c) /\ Own(c) \in Task
  BY OwnRow DEF SerialInv
<1>2. /\ Own(c)' = Own(c) /\ (Ends(c)' <=> Ends(c)) /\ (Wrote(c)' <=> Wrote(c))
      /\ (InFlight(c)' <=> InFlight(c))
      /\ \A e \in Task : CascadedTo(c, e)' <=> CascadedTo(c, e)
      /\ \A e \in Task : Examines(c, e)' <=> Examines(c, e)
      /\ \A e \in Task : Vouches(c, e)' <=> Vouches(c, e)
  BY SessionUnmoved
<1>3. /\ status'[Own(c)] = status[Own(c)]
      /\ Ends(c) => /\ \A t \in deps[Own(c)] : status'[t] = status[t]
                    /\ \A d \in TL!Dependents(Own(c)) :
                         status'[d] = status[d] /\ \A t \in deps[d] : status'[t] = status[t]
  BY DEF Reads, Writes
<1>4. \A d \in Task : CascadedTo(c, d) \/ Examines(c, d) \/ Vouches(c, d) =>
         Ends(c) /\ d \in TL!Dependents(Own(c))
  BY VouchedRows, OwnRow
     DEF SessionInv, Orderly, CascadedTo, Examines, Vouches, InFlight, Wrote
<1>5. Fresh(c)'
  BY <1>1, <1>2, <1>3, <1>4 DEF Serial, Fresh
<1>6. \A t \in Task : status'[t] = status[t] => Ending(c)'[t] = Ending(c)[t]
  BY <1>1, <1>2 DEF Ending, TL!Finished, TrailInv, TypeOK
<1>7. /\ \A S \in SUBSET Task : (\A t \in S : status'[t] = status[t]) =>
            /\ TL!AllTerminal(status, S)' <=> TL!AllTerminal(status, S)
            /\ TL!AllTerminal(Ending(c), S)' <=> TL!AllTerminal(Ending(c), S)
      /\ \A t \in Task : deps[t] \in SUBSET Task
  BY <1>6 DEF TL!AllTerminal, TL!Terminal, SessionInv, RowsTyped
<1>8. (client[c].req.kind = "complete" /\ client[c].pc # "checking" =>
          TL!AllTerminal(status, deps[Own(c)]))'
  BY <1>1, <1>2, <1>3, <1>7 DEF Serial, Ends
<1>9. (\A d \in Task : Vouches(c, d) => TL!AllTerminal(Ending(c), deps[d]))'
  BY <1>1, <1>2, <1>3, <1>4, <1>7 DEF Serial
<1>10. (Wrote(c) /\ Ends(c) => \A d \in TL!ReadyDependents(Ending(c), Own(c)) :
          CascadedTo(c, d) \/ Examines(c, d) \/ d \in client[c].todo)'
  <2> SUFFICES ASSUME Wrote(c), Ends(c), NEW d \in TL!ReadyDependents(Ending(c), Own(c))'
               PROVE  (CascadedTo(c, d) \/ Examines(c, d) \/ d \in client[c].todo)'
    BY <1>2
  <2>1. d \in Task /\ d \in TL!Dependents(Own(c))
    BY <1>2 DEF TL!ReadyDependents, TL!Dependents
  <2>2. Ending(c)'[d] = Ending(c)[d] /\ Ending(c)'[d] = "blocked"
        /\ TL!AllTerminal(Ending(c), deps[d])'
    BY <1>2, <1>3, <1>6, <2>1 DEF TL!ReadyDependents
  <2>3. d \in TL!ReadyDependents(Ending(c), Own(c))
    BY <1>3, <1>7, <2>1, <2>2 DEF TL!ReadyDependents
  <2>4. QED
    BY <1>1, <1>2, <2>1, <2>3 DEF Serial
<1>11. (client[c].pc = "committing" /\ client[c].req.kind = "complete" =>
          ~TL!MilestoneAchieved(View(c), phase[Own(c)]))'
  <2> SUFFICES ASSUME client[c].pc = "committing", client[c].req.kind = "complete",
                      TL!MilestoneAchieved(View(c), phase[Own(c)])'
               PROVE  FALSE
    OBVIOUS
  <2>1. ~TL!MilestoneAchieved(View(c), phase[Own(c)])
    BY <1>1 DEF Serial
  <2>2. phase[Own(c)] \in MilestonePhase \ announced
    BY <1>2 DEF TL!MilestoneAchieved
  <2>3. \A t \in Task : phase[t] = phase[Own(c)] => View(c)'[t] = View(c)[t]
    BY <2>2 DEF Reads, View
  <2>4. \A t \in TL!Created : phase[t] = phase[Own(c)] => TL!Terminal(View(c), t)
    BY <1>2, <2>3 DEF TL!MilestoneAchieved, TL!Terminal, TL!Created
  <2>5. QED
    BY <2>1, <2>2, <2>4 DEF TL!MilestoneAchieved
<1>12. QED
  BY <1>5, <1>8, <1>9, <1>10, <1>11 DEF Serial

\* What other requests do, their commits included, a transaction does not
\* notice when they are about unrelated tasks.
LEMMA ApartUnmoved ==
  ASSUME RequestsApart, TrailInv, SessionInv, SerialInv,
         NEW o \in Client, NEW c \in Client \ {o},
         Handle(o) \/ Crash(o) \/ \E r \in Request : Begin(o, r)
  PROVE  Serial(c)'
<1>1. client'[c] = client[c] /\ pending'[c] = pending[c] /\ UNCHANGED <<deps, phase, announced>>
  BY DEF Handle, Crash, Rollback, Begin, Accept, CheckDependencies, WriteTask, FetchDependent,
     CountOpenDependencies, UnblockDependent, DetectMilestone, Commit, Publish, WriteRow, Goto,
     database, TrailInv, TypeOK
<1>2. CASE Commit(o)
  <2>1. InFlight(o) /\ Own(o) \in Task
    BY <1>2, OwnRow DEF Commit, ReadyToCommit, InFlight
  <2>2. status' = View(o)
    BY <1>2 DEF Commit, Publish
  <2>3. \A t \in Task : pending[o][t] # Clean => t \in Writes(o)
    BY <2>1 DEF SessionInv, Orderly, CascadedTo, Writes
  <2>4. \A t \in Task : status'[t] # status[t] => t \in Writes(o)
    BY <2>2, <2>3 DEF View
  <2>5. InFlight(c) => \A t \in Reads(c) : status'[t] = status[t]
    <3>1. InFlight(c) => Writes(o) \intersect Reads(c) = {} /\ Reads(c) \subseteq Task
      BY <2>1, OwnRow DEF RequestsApart, Reads, Writes, TL!Dependents, SessionInv, RowsTyped
    <3>2. QED
      BY <2>4, <3>1
  <2>6. /\ status' \in [Task -> TL!Status \union {"absent"}]
        /\ \A t \in Task : status'[t] # status[t] => status'[t] \in TL!Status
    BY <2>2 DEF View, TrailInv, TypeOK
  <2>7. TL!Created \subseteq TL!Created'
    BY <2>6, Statuses DEF TL!Created
  <2>8. QED
    BY <1>1, <2>5, <2>6, <2>7, SerialUnmoved
<1>3. CASE ~Commit(o)
  <2>1. status' = status
    BY <1>3 DEF Handle, Crash, Rollback, Begin, Accept, CheckDependencies, WriteTask, FetchDependent,
       CountOpenDependencies, UnblockDependent, DetectMilestone, database
  <2>2. QED
    BY <1>1, <2>1, SerialUnmoved DEF TL!Created, TrailInv, TypeOK
<1>4. QED
  BY <1>2, <1>3

LEMMA SerialInvStep ==
  ASSUME RequestsApart, TrailInv, SessionInv, SerialInv, [Next]_vars
  PROVE  SerialInv'
<1> SUFFICES ASSUME NEW c \in Client PROVE Serial(c)'
  BY DEF SerialInv
<1>1. ASSUME Rollback(c) PROVE Serial(c)'
  BY <1>1 DEF Rollback, Serial, InFlight, Idle, TrailInv, TypeOK
<1>2. CASE UNCHANGED vars
  <2>1. Serial(c)
    BY DEF SerialInv
  <2>2. QED
    BY <1>2, <2>1 DEF vars, Serial, Own, Ends, Wrote, InFlight, Fresh, Ending, View, CascadedTo,
       Examines, Vouches, TL!Finished, TL!ReadyDependents, TL!Dependents, TL!AllTerminal,
       TL!Terminal, TL!MilestoneAchieved, TL!Created
<1>3. ASSUME NEW r \in Template, CreateTask(r) PROVE Serial(c)'
  BY <1>3, SerialCreateTask
<1>4. ASSUME NEW p \in MilestonePhase, AnnounceMilestone(p) PROVE Serial(c)'
  BY <1>4, SerialAnnounceMilestone
<1>5. ASSUME NEW o \in Client, NEW r \in Request, Begin(o, r) PROVE Serial(c)'
  <2>1. CASE o = c
    BY <1>5, <2>1, SerialBegin
  <2>2. CASE o # c
    BY <1>5, <2>2, ApartUnmoved
  <2>3. QED
    BY <2>1, <2>2
<1>6. ASSUME NEW o \in Client, Handle(o) PROVE Serial(c)'
  <2>1. CASE o # c
    BY <1>6, <2>1, ApartUnmoved
  <2>2. CASE CheckDependencies(c)
    BY <1>1, <2>2, SerialCheckDependencies DEF CheckDependencies
  <2>3. CASE DetectMilestone(c)
    BY <1>1, <2>3, SerialDetectMilestone DEF DetectMilestone
  <2>4. CASE Commit(c)
    BY <2>4 DEF Commit, Publish, Serial, InFlight, Idle, TrailInv, TypeOK
  <2>5. QED
    BY <1>6, <2>1, <2>2, <2>3, <2>4, SerialWriteTask, SerialFetchDependent,
       SerialCountOpenDependencies, SerialUnblockDependent DEF Handle
<1>7. ASSUME NEW o \in Client, Crash(o) PROVE Serial(c)'
  <2>1. CASE o = c
    BY <1>1, <1>7, <2>1 DEF Crash
  <2>2. CASE o # c
    BY <1>7, <2>2, ApartUnmoved
  <2>3. QED
    BY <2>1, <2>2
<1>8. QED
  BY <1>2, <1>3, <1>4, <1>5, <1>6, <1>7 DEF Next

-----------------------------------------------------------------------------
\* What a Commit publishes: the target in the client's own row, and the
\* dependents that became ready, unblocked.
LEMMA CommitPublishes ==
  ASSUME TrailInv, SessionInv, SerialInv, NEW c \in Client, Commit(c)
  PROVE  LET t == Own(c)
             s == client[c].req.target
             ready == IF Ends(c) THEN TL!ReadyDependents(TL!Finished(t, s), t) ELSE {}
         IN  /\ t \in TL!Created /\ s \in TL!ValidTransitions[status[t]]
             /\ status' = TL!Cascaded(TL!Finished(t, s), ready)
             /\ trail' = TL!Logged(t, EventName(client[c].req.kind), status', ready)
<1> DEFINE t == Own(c)
           s == client[c].req.target
           ready == IF Ends(c) THEN TL!ReadyDependents(TL!Finished(t, s), t) ELSE {}
<1>1. InFlight(c) /\ Wrote(c) /\ client[c].todo = {} /\ \A d \in Task : ~Examines(c, d)
  BY DEF Commit, ReadyToCommit, InFlight, Wrote, Examines, SessionInv, Orderly
<1>2. Serial(c) /\ Fresh(c)
  BY <1>1 DEF SerialInv, Serial
<1>3. t \in Task /\ t \notin TL!Dependents(t) /\ s \in TL!Status /\ t \in TL!Created
  BY <1>1, OwnRow DEF SessionInv, Orderly
<1>4. s \in TL!ValidTransitions[status[t]] /\ client[c].loaded = status[t]
  BY <1>1, <1>2 DEF Fresh, TrailInv, TargetsLegal, InFlight
<1>5. \A d \in Task : d \in ready <=> CascadedTo(c, d)
  <2> SUFFICES ASSUME NEW d \in Task PROVE d \in ready <=> CascadedTo(c, d)
    OBVIOUS
  <2>1. CASE CascadedTo(c, d)
    <3>1. /\ Ends(c) /\ d \in TL!Dependents(t) /\ status[d] = "blocked"
          /\ TL!AllTerminal(Ending(c), deps[d])
      BY <1>1, <1>2, <2>1 DEF SessionInv, Orderly, Fresh, Serial, Vouches
    <3>2. d \in TL!ReadyDependents(Ending(c), Own(c))
      BY <1>1, <3>1, ReadyMeans
    <3>3. QED
      BY <2>1, <3>1, <3>2 DEF Ending
  <2>2. CASE d \in ready
    <3>1. Ends(c) /\ d \in TL!ReadyDependents(Ending(c), Own(c))
      BY <2>2 DEF Ending
    <3>2. CascadedTo(c, d) \/ Examines(c, d) \/ d \in client[c].todo
      <4>1. Wrote(c) /\ Ends(c) => \A e \in TL!ReadyDependents(Ending(c), Own(c)) :
              CascadedTo(c, e) \/ Examines(c, e) \/ e \in client[c].todo
        BY <1>1, <1>2 DEF Serial
      <4>2. QED
        BY <1>1, <3>1, <4>1, Zenon
    <3>3. QED
      BY <1>1, <2>2, <3>2
  <2>3. QED
    BY <2>1, <2>2
<1>6. /\ pending[c][t] = s /\ entries[c][t] = OwnEntry(c) /\ t \notin ready
      /\ \A d \in Task : d \in ready =>
           d # t /\ pending[c][d] = "not_started" /\ entries[c][d] = Unblocked
      /\ \A d \in Task : d # t /\ d \notin ready => pending[c][d] = Clean /\ entries[c][d] = NoEntry
  <2>1. \A d \in Task : pending[c][d] = Clean => entries[c][d] = NoEntry
    BY Statuses DEF TrailInv, WritesConsistent, Consistent
  <2>2. \A d \in Task : CascadedTo(c, d) => pending[c][d] = "not_started" /\ entries[c][d] = Unblocked
    BY <1>1 DEF SessionInv, Orderly
  <2>3. pending[c][t] = s /\ entries[c][t] = OwnEntry(c)
    BY <1>1 DEF SessionInv, Orderly
  <2> HIDE DEF ready
  <2>4. QED
    BY <1>3, <1>5, <2>1, <2>2, <2>3 DEF CascadedTo
<1> HIDE DEF ready
<1>7. status' = TL!Cascaded(TL!Finished(t, s), ready)
  <2>1. status' = [d \in Task |-> IF pending[c][d] = Clean THEN status[d] ELSE pending[c][d]]
    BY DEF Commit, Publish, View
  <2>2. \A d \in Task : TL!Finished(t, s)[d] = IF d = t THEN s ELSE status[d]
    BY DEF TL!Finished, TrailInv, TypeOK
  <2>3. s # Clean /\ "not_started" # Clean
    BY <1>3, Statuses
  <2>4. \A d \in Task : status'[d] = IF d \in ready THEN "not_started" ELSE TL!Finished(t, s)[d]
    BY <1>6, <2>1, <2>2, <2>3
  <2>5. QED
    BY <2>1, <2>4 DEF TL!Cascaded
<1>8. trail' = TL!Logged(t, EventName(client[c].req.kind), status', ready)
  <2>1. trail' = [d \in Task |-> IF entries[c][d] = NoEntry THEN trail[d] ELSE entries[c][d]]
    BY DEF Commit
  <2>2. OwnEntry(c) # NoEntry /\ Unblocked # NoEntry
    <3>1. OwnEntry(c).new = s /\ s # "absent"
      BY <1>3, Statuses DEF OwnEntry
    <3>2. NoEntry.new = "absent" /\ Unblocked.new = "not_started"
      BY DEF NoEntry, Unblocked
    <3>3. QED
      BY <3>1, <3>2
  <2>3. status'[t] = s
    BY <1>3, <1>6, Statuses DEF Commit, Publish, View
  <2>4. OwnEntry(c) = [action |-> EventName(client[c].req.kind), old |-> status[t], new |-> status'[t]]
    BY <1>4, <2>3 DEF OwnEntry
  <2>5. \A d \in Task :
          trail'[d] = IF d = t THEN OwnEntry(c) ELSE IF d \in ready THEN Unblocked ELSE trail[d]
    BY <1>6, <2>1, <2>2
  <2>6. trail' = [d \in Task |-> IF d = t THEN OwnEntry(c)
                                  ELSE IF d \in ready THEN Unblocked ELSE trail[d]]
    BY <2>1, <2>5
  <2>7. QED
    BY <2>4, <2>6 DEF TL!Logged, Unblocked
<1>9. QED
  BY <1>3, <1>4, <1>7, <1>8 DEF ready

LEMMA CommitImplements ==
  ASSUME TrailInv, SessionInv, SerialInv, NEW c \in Client, Commit(c)
  PROVE  TL!Next
<1> DEFINE t == Own(c)
           s == client[c].req.target
<1>1. InFlight(c) /\ Wrote(c) /\ t \in Task /\ s \in TL!Status /\ client[c].req \in Request
  BY OwnRow DEF Commit, ReadyToCommit, InFlight, Wrote
<1>2. t \in TL!Created /\ s \in TL!ValidTransitions[status[t]] /\ Serial(c)
  BY <1>1, CommitPublishes DEF SerialInv
<1>3. /\ UNCHANGED <<deps, phase, announced>>
      /\ completedAt' = [completedAt EXCEPT ![t] = completedAt[t] \/ client[c].req.kind = "complete"]
      /\ completedAt \in [Task -> BOOLEAN]
  BY DEF Commit, Publish, Own, SessionInv, RowsTyped
<1>4. client[c].req.kind \in Kind
  BY <1>1, RequestFields
<1>5. CASE client[c].req.kind = "patch"
  <2>1. ~Ends(c) /\ EventName(client[c].req.kind) = "updated"
    BY <1>5 DEF Ends, EventName
  <2>2. /\ status' = TL!Cascaded(TL!Finished(t, s), {})
        /\ trail' = TL!Logged(t, "updated", status', {})
    BY <2>1, CommitPublishes
  <2>3. TL!Cascaded(TL!Finished(t, s), {}) = TL!Finished(t, s)
    BY DEF TL!Cascaded, TL!Finished, TrailInv, TypeOK
  <2>4. completedAt' = completedAt
    BY <1>1, <1>3, <1>5
  <2>5. TL!UpdateTask(t, s, TL!Unset)
    BY <1>2, <1>3, <2>2, <2>3, <2>4 DEF TL!UpdateTask, TL!PatchStatus, TL!PatchPhase
  <2>6. QED
    BY <1>1, <2>5 DEF TL!Next
<1>6. CASE client[c].req.kind = "complete"
  <2>1. /\ Ends(c) /\ EventName(client[c].req.kind) = "completed" /\ s = "complete"
        /\ client[c].pc = "committing"
    BY <1>1, <1>6, RequestAssumption DEF Ends, EventName, Commit, ReadyToCommit
  <2>2. LET ready == TL!ReadyDependents(TL!Finished(t, "complete"), t)
        IN  /\ status' = TL!Cascaded(TL!Finished(t, "complete"), ready)
            /\ trail' = TL!Logged(t, "completed", status', ready)
    BY <2>1, CommitPublishes
  <2>3. completedAt' = [completedAt EXCEPT ![t] = TRUE]
    BY <1>1, <1>3, <1>6
  <2>4. TL!DocumentRequirementMet(t)
    BY <1>1 DEF TL!DocumentRequirementMet
  <2>5. TL!DependenciesMet(t)
    BY <1>1, <1>2, <1>6, <2>1 DEF Serial, TL!DependenciesMet
  <2>6. ~TL!MilestoneAchieved(status', phase[t])
    BY <1>1, <1>2, <1>6, <2>1 DEF Serial, Commit, Publish
  <2>7. TL!CompleteTask(t)
    BY <1>2, <1>3, <2>1, <2>2, <2>3, <2>4, <2>5, <2>6 DEF TL!CompleteTask
  <2>8. QED
    BY <1>1, <2>7 DEF TL!Next
<1>7. CASE client[c].req.kind = "waive"
  <2>1. Ends(c) /\ EventName(client[c].req.kind) = "waived" /\ s = "waived"
    BY <1>1, <1>7, RequestAssumption DEF Ends, EventName
  <2>2. LET ready == TL!ReadyDependents(TL!Finished(t, "waived"), t)
        IN  /\ status' = TL!Cascaded(TL!Finished(t, "waived"), ready)
            /\ trail' = TL!Logged(t, "waived", status', ready)
    BY <2>1, CommitPublishes
  <2>3. completedAt' = completedAt
    BY <1>1, <1>3, <1>7
  <2>4. TL!WaiveTask(t)
    BY <1>2, <1>3, <2>1, <2>2, <2>3 DEF TL!WaiveTask
  <2>5. QED
    BY <1>1, <2>4 DEF TL!Next
<1>8. QED
  BY <1>4, <1>5, <1>6, <1>7 DEF Kind

LEMMA StepImplements ==
  ASSUME TrailInv, SessionInv, SerialInv, [Next]_vars
  PROVE  [TL!Next]_TL!vars
<1>1. CASE UNCHANGED <<status, deps, phase, completedAt, announced, trail>>
  BY <1>1 DEF TL!vars
<1>2. ASSUME NEW r \in Template, CreateTask(r) PROVE TL!Next
  BY <1>2 DEF CreateTask, TL!Next
<1>3. ASSUME NEW p \in MilestonePhase, AnnounceMilestone(p) PROVE TL!Next
  BY <1>3 DEF AnnounceMilestone, TL!Next
<1>4. ASSUME NEW c \in Client, NEW r \in Request, Begin(c, r)
      PROVE  UNCHANGED <<status, deps, phase, completedAt, announced, trail>>
  BY <1>4 DEF Begin, Accept, database
<1>5. ASSUME NEW c \in Client, Handle(c)
      PROVE  TL!Next \/ UNCHANGED <<status, deps, phase, completedAt, announced, trail>>
  <2>1. CASE Commit(c)
    BY <2>1, CommitImplements
  <2>2. CASE CheckDependencies(c) \/ WriteTask(c) \/ FetchDependent(c)
    BY <2>2 DEF CheckDependencies, WriteTask, FetchDependent, Rollback, database
  <2>3. CASE CountOpenDependencies(c) \/ UnblockDependent(c) \/ DetectMilestone(c)
    BY <2>3 DEF CountOpenDependencies, UnblockDependent, DetectMilestone, Rollback, database
  <2>4. QED
    BY <1>5, <2>1, <2>2, <2>3 DEF Handle
<1>6. ASSUME NEW c \in Client, Crash(c)
      PROVE  UNCHANGED <<status, deps, phase, completedAt, announced, trail>>
  BY <1>6 DEF Crash, Rollback, database
<1>7. CASE UNCHANGED vars
  BY <1>1, <1>7 DEF vars
<1>8. QED
  BY <1>1, <1>2, <1>3, <1>4, <1>5, <1>6, <1>7 DEF Next

LEMMA SerialInvInit == Init => SerialInv
  BY DEF Init, SerialInv, Serial, InFlight, Idle

\* However many requests are open, as long as none writes what another goes by,
\* the handlers, with their reads, flushes, rollbacks and crashes in between, do
\* exactly what TaskLifecycle says.
THEOREM UnrelatedRequestsImplementTaskLifecycle ==
  Spec /\ []RequestsApart => ImplementsTaskLifecycle
<1>1. Init => TL!Init
  BY DEF Init
<1>2. RequestsApart /\ SerialInv /\ TrailInv /\ SessionInv /\ [Next]_vars =>
        SerialInv' /\ [TL!Next]_TL!vars
  BY SerialInvStep, StepImplements
<1>3. QED
  BY <1>1, <1>2, SerialInvInit, SessionInvariance, PTL DEF Spec, ImplementsTaskLifecycle, TL!Spec

\* One request at a time, they do so whatever the requests are about.
THEOREM SerialHandlersImplementTaskLifecycle ==
  ASSUME OneClient
  PROVE  Spec => ImplementsTaskLifecycle
<1>1. RequestsApart
  BY DEF OneClient, RequestsApart
<1>2. Spec => []RequestsApart
  BY <1>1, PTL
<1>3. QED
  BY <1>2, UnrelatedRequestsImplementTaskLifecycle

-----------------------------------------------------------------------------
(***************************************************************************)
(* Two open requests never deadlock.                                       *)
(*                                                                         *)
(* Two cascades that wait for each other would each unblock a dependent of *)
(* the other one's task, so each must have seen the other's task ended:    *)
(* then each has overwritten a row that ended after it was read.  But of   *)
(* two requests one began after the last commit, and is Fresh.             *)
(***************************************************************************)
AtMostTwoOpen ==
  \A c, d, e \in Client : InFlight(c) /\ InFlight(d) /\ InFlight(e) => c = d \/ d = e \/ c = e

\* Of two open transactions one has seen the last commit.
OneIsFresh ==
  \A c, o \in Client : c # o /\ InFlight(c) /\ InFlight(o) => Fresh(c) \/ Fresh(o)

\* A dependent is unblocked, or about to be, once its dependencies have ended;
\* only a client whose own row is as it loaded it may see that change.
VouchesHold ==
  \A c \in Client, d \in Task : InFlight(c) /\ Vouches(c, d) =>
     \/ status[Own(c)] = client[c].loaded
     \/ TL!AllTerminal(status, deps[d] \ {Own(c)})

\* Two cascades never unblock the same dependent.
NoneVouchedTwice ==
  \A c, o \in Client, d \in Task :
     c # o /\ InFlight(c) /\ InFlight(o) => ~(Vouches(c, d) /\ Vouches(o, d))

FreshInv == OneIsFresh /\ VouchesHold /\ NoneVouchedTwice

\* The rows a fresh client has written were open.
LEMMA FreshWritesOpenRows ==
  ASSUME TrailInv, SessionInv, NEW c \in Client, InFlight(c), Fresh(c),
         NEW t \in Task, pending[c][t] # Clean
  PROVE  status[t] \notin TL!TerminalStates
<1>1. CASE t = Own(c)
  BY <1>1, OwnRow DEF Fresh, TL!Open, TL!TerminalStates
<1>2. CASE t # Own(c)
  <2>1. status[t] = "blocked"
    BY <1>2 DEF Fresh, CascadedTo
  <2>2. QED
    BY <2>1 DEF TL!TerminalStates
<1>3. QED
  BY <1>1, <1>2

\* Nothing is committed, and client c stays as fresh as it was and vouches for
\* what it vouched for, or for what holds and nobody else vouches for.
LEMMA MoveKeepsFresh ==
  ASSUME TrailInv, SessionInv, FreshInv, NEW c \in Client,
         \A o \in Client \ {c} : client'[o] = client[o] /\ pending'[o] = pending[o],
         UNCHANGED <<status, deps>>,
         InFlight(c)' => InFlight(c) /\ Own(c)' = Own(c) /\ client'[c].loaded = client[c].loaded,
         InFlight(c)' /\ Fresh(c) => Fresh(c)',
         \A d \in Task : InFlight(c)' /\ Vouches(c, d)' =>
            \/ Vouches(c, d)
            \/ /\ TL!AllTerminal(status, deps[d] \ {Own(c)})
               /\ \A o \in Client \ {c} : InFlight(o) => ~Vouches(o, d)
  PROVE  FreshInv'
<1>1. \A o \in Client \ {c} :
        /\ Own(o)' = Own(o) /\ (InFlight(o)' <=> InFlight(o)) /\ (Fresh(o)' <=> Fresh(o))
        /\ \A d \in Task : Vouches(o, d)' <=> Vouches(o, d)
  <2> SUFFICES ASSUME NEW o \in Client \ {c}
               PROVE  /\ Own(o)' = Own(o) /\ (InFlight(o)' <=> InFlight(o)) /\ (Fresh(o)' <=> Fresh(o))
                      /\ \A d \in Task : Vouches(o, d)' <=> Vouches(o, d)
    OBVIOUS
  <2>1. /\ Own(o)' = Own(o) /\ (InFlight(o)' <=> InFlight(o))
        /\ \A d \in Task : CascadedTo(o, d)' <=> CascadedTo(o, d)
        /\ \A d \in Task : Examines(o, d)' <=> Examines(o, d)
        /\ \A d \in Task : Vouches(o, d)' <=> Vouches(o, d)
    BY SessionUnmoved
  <2>2. Fresh(o)' <=> Fresh(o)
    BY <2>1 DEF Fresh
  <2>3. QED
    BY <2>1, <2>2
<1>2. OneIsFresh'
  <2> SUFFICES ASSUME NEW a \in Client, NEW o \in Client, a # o, InFlight(a)', InFlight(o)'
               PROVE  Fresh(a)' \/ Fresh(o)'
    BY DEF OneIsFresh
  <2>1. InFlight(a) /\ InFlight(o)
    BY <1>1
  <2>2. Fresh(a) \/ Fresh(o)
    BY <2>1 DEF FreshInv, OneIsFresh
  <2>3. QED
    BY <1>1, <2>2
<1>3. VouchesHold'
  <2> SUFFICES ASSUME NEW a \in Client, NEW d \in Task, InFlight(a)', Vouches(a, d)'
               PROVE  (\/ status[Own(a)] = client[a].loaded
                       \/ TL!AllTerminal(status, deps[d] \ {Own(a)}))'
    BY DEF VouchesHold
  <2>1. InFlight(a) /\ Own(a)' = Own(a) /\ client'[a].loaded = client[a].loaded
    BY <1>1
  <2>2. \/ status[Own(a)] = client[a].loaded
        \/ TL!AllTerminal(status, deps[d] \ {Own(a)})
    BY <1>1, <2>1 DEF FreshInv, VouchesHold
  <2>3. QED
    BY <2>1, <2>2 DEF TL!AllTerminal, TL!Terminal
<1>4. NoneVouchedTwice'
  <2> SUFFICES ASSUME NEW a \in Client, NEW o \in Client, NEW d \in Task, a # o,
                      InFlight(a)', InFlight(o)', Vouches(a, d)', Vouches(o, d)'
               PROVE  FALSE
    BY DEF NoneVouchedTwice
  <2>1. InFlight(a) /\ InFlight(o)
    BY <1>1
  <2>2. ~(Vouches(a, d) /\ Vouches(o, d))
    BY <2>1 DEF FreshInv, NoneVouchedTwice
  <2>3. QED
    BY <1>1, <2>1, <2>2
<1>5. QED
  BY <1>2, <1>3, <1>4 DEF FreshInv

LEMMA FreshBegin ==
  ASSUME TrailInv, SessionInv, FreshInv, NEW c \in Client, NEW r \in Request, Begin(c, r)
  PROVE  FreshInv'
<1>1. /\ client'[c].pc \in {"checking", "writing"} /\ client'[c].req.task = r.task
      /\ client'[c].loaded = status[r.task]
      /\ \A o \in Client \ {c} : client'[o] = client[o] /\ pending'[o] = pending[o]
      /\ UNCHANGED <<status, deps, pending>>
  BY DEF Begin, Accept, TrailInv, TypeOK, database
<1>2. \A t \in Task : pending[c][t] = Clean
  BY DEF Begin, SessionInv, Orderly, Wrote
<1>3. Fresh(c)' /\ \A d \in Task : ~Vouches(c, d)'
  BY <1>1, <1>2 DEF Fresh, Own, CascadedTo, Examines, Vouches
<1>4. \A o \in Client \ {c} :
        /\ Own(o)' = Own(o) /\ (InFlight(o)' <=> InFlight(o)) /\ (Fresh(o)' <=> Fresh(o))
        /\ \A d \in Task : Vouches(o, d)' <=> Vouches(o, d)
  <2> SUFFICES ASSUME NEW o \in Client \ {c}
               PROVE  /\ Own(o)' = Own(o) /\ (InFlight(o)' <=> InFlight(o)) /\ (Fresh(o)' <=> Fresh(o))
                      /\ \A d \in Task : Vouches(o, d)' <=> Vouches(o, d)
    OBVIOUS
  <2>1. /\ Own(o)' = Own(o) /\ (InFlight(o)' <=> InFlight(o))
        /\ \A d \in Task : CascadedTo(o, d)' <=> CascadedTo(o, d)
        /\ \A d \in Task : Examines(o, d)' <=> Examines(o, d)
        /\ \A d \in Task : Vouches(o, d)' <=> Vouches(o, d)
    BY <1>1, SessionUnmoved
  <2>2. Fresh(o)' <=> Fresh(o)
    BY <1>1, <2>1 DEF Fresh
  <2>3. QED
    BY <2>1, <2>2
<1>5. OneIsFresh'
  BY <1>3, <1>4 DEF FreshInv, OneIsFresh
<1>6. VouchesHold'
  <2> SUFFICES ASSUME NEW a \in Client, NEW d \in Task, InFlight(a)', Vouches(a, d)'
               PROVE  (\/ status[Own(a)] = client[a].loaded
                       \/ TL!AllTerminal(status, deps[d] \ {Own(a)}))'
    BY DEF VouchesHold
  <2>1. a # c /\ InFlight(a) /\ Own(a)' = Own(a) /\ client'[a] = client[a] /\ Vouches(a, d)
    BY <1>1, <1>3, <1>4
  <2>2. \/ status[Own(a)] = client[a].loaded
        \/ TL!AllTerminal(status, deps[d] \ {Own(a)})
    BY <2>1 DEF FreshInv, VouchesHold
  <2>3. QED
    BY <1>1, <2>1, <2>2 DEF TL!AllTerminal, TL!Terminal
<1>7. NoneVouchedTwice'
  BY <1>3, <1>4 DEF FreshInv, NoneVouchedTwice
<1>8. QED
  BY <1>5, <1>6, <1>7 DEF FreshInv

LEMMA FreshRollback ==
  ASSUME TrailInv, SessionInv, FreshInv, NEW c \in Client, Rollback(c)
  PROVE  FreshInv'
<1>1. /\ client'[c] = Idle
      /\ \A o \in Client \ {c} : client'[o] = client[o] /\ pending'[o] = pending[o]
      /\ UNCHANGED <<status, deps>>
  BY DEF Rollback, TrailInv, TypeOK, database
<1>2. ~InFlight(c)'
  BY <1>1 DEF InFlight, Idle
<1>3. QED
  BY <1>1, <1>2, MoveKeepsFresh

LEMMA FreshGoto ==
  ASSUME TrailInv, SessionInv, FreshInv, NEW c \in Client, InFlight(c),
         NEW pc \in {"writing", "cascading", "committing"},
         client[c].pc = "counting" \/ ~Examines(c, client[c].row),
         Goto(c, pc), UNCHANGED <<database, pending, entries>>
  PROVE  FreshInv'
<1>1. PICK k \in Busy :
        /\ client' = [client EXCEPT ![c] = k] /\ client'[c] = k
        /\ k.pc = pc /\ k.req = client[c].req /\ k.loaded = client[c].loaded
  BY GotoMoves DEF TrailInv, MovesOn, InFlight
<1>2. /\ \A o \in Client \ {c} : client'[o] = client[o] /\ pending'[o] = pending[o]
      /\ UNCHANGED <<status, deps, pending>>
  BY <1>1 DEF TrailInv, TypeOK, database
<1>3. Own(c)' = Own(c) /\ client'[c].loaded = client[c].loaded
  BY <1>1 DEF Own
<1>4. /\ \A d \in Task : CascadedTo(c, d)' <=> CascadedTo(c, d)
      /\ \A d \in Task : ~Examines(c, d)'
  BY <1>1, <1>2, <1>3 DEF CascadedTo, Examines
<1>5. Fresh(c) => Fresh(c)'
  BY <1>2, <1>3, <1>4 DEF Fresh
<1>6. \A d \in Task : Vouches(c, d)' => Vouches(c, d)
  BY <1>1, <1>4 DEF Vouches
<1>7. QED
  BY <1>2, <1>3, <1>5, <1>6, MoveKeepsFresh

LEMMA FreshWriteTask ==
  ASSUME TrailInv, SessionInv, FreshInv, NEW c \in Client, WriteTask(c)
  PROVE  FreshInv'
<1>1. client[c].pc = "writing" /\ InFlight(c) /\ UNCHANGED <<status, deps>>
  BY DEF WriteTask, InFlight, database
<1>2. PICK k \in Busy :
        /\ client' = [client EXCEPT ![c] = k] /\ client'[c] = k
        /\ k.pc \in {"cascading", "committing"}
        /\ k.req = client[c].req /\ k.loaded = client[c].loaded
  BY WriteTaskMoves DEF TrailInv, MovesOn
<1>3. /\ \A o \in Client \ {c} : client'[o] = client[o] /\ pending'[o] = pending[o]
      /\ \A d \in Task : d # Own(c) => pending'[c][d] = Clean
  BY <1>1, <1>2 DEF WriteTask, Own, WriteRow, TrailInv, TypeOK, SessionInv, Orderly, Wrote
<1>4. Own(c)' = Own(c) /\ client'[c].loaded = client[c].loaded
  BY <1>2 DEF Own
<1>5. \A d \in Task : ~CascadedTo(c, d)' /\ ~Examines(c, d)' /\ ~Vouches(c, d)'
  BY <1>2, <1>3, <1>4 DEF CascadedTo, Examines, Vouches
<1>6. Fresh(c) => Fresh(c)'
  BY <1>1, <1>4, <1>5 DEF Fresh
<1>7. QED
  BY <1>1, <1>3, <1>4, <1>5, <1>6, MoveKeepsFresh

LEMMA FreshFetchDependent ==
  ASSUME TrailInv, SessionInv, FreshInv, NEW c \in Client, FetchDependent(c)
  PROVE  FreshInv'
<1>1. client[c].pc = "cascading" /\ InFlight(c) /\ Wrote(c) /\ UNCHANGED <<status, deps, pending>>
  BY DEF FetchDependent, InFlight, Wrote, database
<1>2. PICK d \in client[c].todo, k \in Busy :
        /\ client' = [client EXCEPT ![c] = k] /\ client'[c] = k
        /\ k.pc = IF View(c)[d] = "blocked" THEN "counting" ELSE "cascading"
        /\ k.row = d
        /\ k.req = client[c].req /\ k.loaded = client[c].loaded
  BY FetchDependentMoves DEF TrailInv, MovesOn
<1>3. d \in Task /\ d # Own(c)
  BY <1>1, OwnRow DEF SessionInv, Orderly, TL!Dependents
<1>4. \A o \in Client \ {c} : client'[o] = client[o] /\ pending'[o] = pending[o]
  BY <1>1, <1>2 DEF TrailInv, TypeOK
<1>5. Own(c)' = Own(c) /\ client'[c].loaded = client[c].loaded
  BY <1>2 DEF Own
<1>6. \A e \in Task : CascadedTo(c, e)' <=> CascadedTo(c, e)
  BY <1>1, <1>5 DEF CascadedTo
<1>7. \A e \in Task : Vouches(c, e)' => Vouches(c, e)
  BY <1>2, <1>6 DEF Vouches
<1>8. View(c)[d] = "blocked" => status[d] = "blocked"
  BY <1>1, <1>3 DEF View, CascadedTo, SessionInv, Orderly
<1>9. Fresh(c) => Fresh(c)'
  BY <1>1, <1>2, <1>5, <1>6, <1>8 DEF Fresh, Examines
<1>10. QED
  BY <1>1, <1>4, <1>5, <1>7, <1>9, MoveKeepsFresh

\* A client that finds no open dependency sees rows that are committed, but for
\* its own; and then nobody else unblocks the same dependent.
LEMMA NewVouchHolds ==
  ASSUME TrailInv, SessionInv, FreshInv, NEW c \in Client, client[c].pc = "counting",
         NEW d \in Task, d = client[c].row, NoneOpen(c, d)
  PROVE  /\ TL!AllTerminal(status, deps[d] \ {Own(c)})
         /\ \A o \in Client \ {c} : InFlight(o) => ~Vouches(o, d)
<1>1. InFlight(c) /\ Wrote(c) /\ Examines(c, d)
  BY DEF InFlight, Wrote, Examines
<1>2. Own(c) \in deps[d] /\ deps[d] \subseteq Task
  BY <1>1 DEF SessionInv, Orderly, RowsTyped, TL!Dependents
<1>3. \A t \in deps[d] : View(c)[t] \in TL!TerminalStates
  BY DEF NoneOpen, TL!AllTerminal, TL!Terminal
<1>4. ASSUME NEW t \in deps[d], t # Own(c)
      PROVE  status[t] \in TL!TerminalStates /\ pending[c][t] = Clean
  <2>1. CASE pending[c][t] = Clean
    BY <1>2, <1>3, <2>1 DEF View
  <2>2. CASE pending[c][t] # Clean
    <3>1. pending[c][t] = "not_started"
      BY <1>1, <1>2, <1>4, <2>2 DEF SessionInv, Orderly, CascadedTo
    <3>2. View(c)[t] = "not_started"
      BY <1>2, <2>2, <3>1 DEF View
    <3>3. QED
      BY <1>3, <3>2 DEF TL!TerminalStates
  <2>3. QED
    BY <2>1, <2>2
<1>5. ASSUME NEW o \in Client \ {c}, InFlight(o), Vouches(o, d)
      PROVE  FALSE
  <2>1. Wrote(o) /\ Own(o) \in deps[d] /\ Own(o) \in Task
    BY <1>5, VouchedRows, OwnRow DEF TL!Dependents
  <2>2. pending[o][Own(o)] # Clean /\ pending[c][Own(c)] # Clean
    BY <1>1, <1>5, <2>1, OwnRow, Statuses DEF SessionInv, Orderly
  <2>3. Own(o) # Own(c)
    BY <2>1, <2>2 DEF SessionInv, Locks, RowFree
  <2>4. status[Own(o)] \in TL!TerminalStates
    BY <1>4, <2>1, <2>3
  <2>5. status[Own(o)] # client[o].loaded
    BY <1>5, <2>4, OwnRow DEF TL!Open, TL!TerminalStates
  <2>6. TL!AllTerminal(status, deps[d] \ {Own(o)})
    BY <1>5, <2>5 DEF FreshInv, VouchesHold
  <2>7. status[Own(c)] \in TL!TerminalStates
    BY <1>2, <2>3, <2>6 DEF TL!AllTerminal, TL!Terminal
  <2>8. status[Own(c)] # client[c].loaded
    BY <1>1, <2>7, OwnRow DEF TL!Open, TL!TerminalStates
  <2>9. QED
    BY <1>1, <1>5, <2>5, <2>8 DEF FreshInv, OneIsFresh, Fresh
<1>6. QED
  BY <1>4, <1>5 DEF TL!AllTerminal, TL!Terminal

LEMMA FreshCountOpenDependencies ==
  ASSUME TrailInv, SessionInv, FreshInv, NEW c \in Client, CountOpenDependencies(c)
  PROVE  FreshInv'
<1> DEFINE d == client[c].row
<1>1. client[c].pc = "counting" /\ InFlight(c) /\ UNCHANGED <<status, deps, pending>>
  BY DEF CountOpenDependencies, InFlight, database
<1>2. PICK k \in Busy :
        /\ client' = [client EXCEPT ![c] = k] /\ client'[c] = k
        /\ k.pc = IF NoneOpen(c, d) THEN "unblocking" ELSE "cascading"
        /\ k.row = d
        /\ k.req = client[c].req /\ k.loaded = client[c].loaded
  BY <1>1, GotoMoves DEF CountOpenDependencies, TrailInv, MovesOn
<1>3. \A o \in Client \ {c} : client'[o] = client[o] /\ pending'[o] = pending[o]
  BY <1>1, <1>2 DEF TrailInv, TypeOK
<1>4. Own(c)' = Own(c) /\ client'[c].loaded = client[c].loaded
  BY <1>2 DEF Own
<1>5. /\ \A e \in Task : CascadedTo(c, e)' <=> CascadedTo(c, e)
      /\ \A e \in Task : Examines(c, e)' => Examines(c, e)
  BY <1>1, <1>2, <1>4 DEF CascadedTo, Examines
<1>6. Fresh(c) => Fresh(c)'
  BY <1>1, <1>4, <1>5 DEF Fresh
<1>7. \A e \in Task : Vouches(c, e)' => Vouches(c, e) \/ (e = d /\ NoneOpen(c, d))
  BY <1>2, <1>5 DEF Vouches
<1>8. \A e \in Task : Vouches(c, e)' =>
        \/ Vouches(c, e)
        \/ /\ TL!AllTerminal(status, deps[e] \ {Own(c)})
           /\ \A o \in Client \ {c} : InFlight(o) => ~Vouches(o, e)
  BY <1>1, <1>7, NewVouchHolds
<1>9. QED
  BY <1>1, <1>3, <1>4, <1>6, <1>8, MoveKeepsFresh

LEMMA FreshUnblockDependent ==
  ASSUME TrailInv, SessionInv, FreshInv, NEW c \in Client, UnblockDependent(c)
  PROVE  FreshInv'
<1> DEFINE d == client[c].row
<1>1. client[c].pc = "unblocking" /\ InFlight(c) /\ UNCHANGED <<status, deps>>
  BY DEF UnblockDependent, InFlight, database
<1>2. PICK k \in Busy :
        /\ client' = [client EXCEPT ![c] = k] /\ client'[c] = k
        /\ k.pc = "cascading"
        /\ k.req = client[c].req /\ k.loaded = client[c].loaded
  BY <1>1, GotoMoves DEF UnblockDependent, TrailInv, MovesOn
<1>3. d \in Task /\ Examines(c, d) /\ Vouches(c, d)
  BY <1>1, OwnRow DEF Busy, Examines, Vouches
<1>4. /\ \A o \in Client \ {c} : client'[o] = client[o] /\ pending'[o] = pending[o]
      /\ \A t \in Task : t # d => pending'[c][t] = pending[c][t]
  BY <1>2, <1>3 DEF UnblockDependent, WriteRow, TrailInv, TypeOK
<1>5. Own(c)' = Own(c) /\ client'[c].loaded = client[c].loaded
  BY <1>2 DEF Own
<1>6. /\ \A e \in Task : CascadedTo(c, e)' => CascadedTo(c, e) \/ e = d
      /\ \A e \in Task : ~Examines(c, e)'
  BY <1>2, <1>4, <1>5 DEF CascadedTo, Examines
<1>7. Fresh(c) => Fresh(c)'
  BY <1>1, <1>3, <1>5, <1>6 DEF Fresh
<1>8. \A e \in Task : Vouches(c, e)' => Vouches(c, e)
  BY <1>2, <1>3, <1>6 DEF Vouches
<1>9. QED
  BY <1>1, <1>4, <1>5, <1>7, <1>8, MoveKeepsFresh

\* A commit may end what another client's open transaction has read, but what
\* that one vouches for holds as long as the committing client was fresh; and
\* when it was not, the other one is.
LEMMA FreshCommit ==
  ASSUME AtMostTwoOpen, TrailInv, SessionInv, FreshInv, NEW c \in Client, Commit(c)
  PROVE  FreshInv'
<1>1. /\ client'[c] = Idle /\ InFlight(c) /\ UNCHANGED deps
      /\ \A o \in Client \ {c} : client'[o] = client[o] /\ pending'[o] = pending[o]
      /\ \A t \in Task : status'[t] = IF pending[c][t] = Clean THEN status[t] ELSE pending[c][t]
  BY DEF Commit, Publish, ReadyToCommit, InFlight, View, TrailInv, TypeOK
<1>2. ~InFlight(c)'
  BY <1>1 DEF InFlight, Idle
<1>3. \A a, o \in Client : InFlight(a)' /\ InFlight(o)' => a = o
  BY <1>1, <1>2 DEF AtMostTwoOpen, InFlight
<1>4. OneIsFresh' /\ NoneVouchedTwice'
  BY <1>3 DEF OneIsFresh, NoneVouchedTwice
<1>5. VouchesHold'
  <2> SUFFICES ASSUME NEW o \in Client, NEW d \in Task, InFlight(o)', Vouches(o, d)'
               PROVE  (\/ status[Own(o)] = client[o].loaded
                       \/ TL!AllTerminal(status, deps[d] \ {Own(o)}))'
    BY DEF VouchesHold
  <2>1. o # c /\ client'[o] = client[o] /\ pending'[o] = pending[o]
    BY <1>1, <1>2
  <2>2. Own(o)' = Own(o) /\ InFlight(o) /\ Vouches(o, d)
    BY <2>1, SessionUnmoved
  <2>3. Wrote(o) /\ Own(o) \in Task /\ deps[d] \subseteq Task
    BY <2>2, VouchedRows, OwnRow
  <2>4. pending[o][Own(o)] # Clean
    BY <2>2, <2>3, OwnRow, Statuses DEF SessionInv, Orderly
  <2>5. status'[Own(o)] = status[Own(o)]
    BY <1>1, <2>1, <2>3, <2>4 DEF SessionInv, Locks, RowFree
  <2>6. CASE status[Own(o)] = client[o].loaded
    BY <2>1, <2>2, <2>5, <2>6
  <2>7. CASE status[Own(o)] # client[o].loaded
    <3>1. TL!AllTerminal(status, deps[d] \ {Own(o)})
      BY <2>2, <2>7 DEF FreshInv, VouchesHold
    <3>2. Fresh(c)
      BY <1>1, <2>1, <2>2, <2>7 DEF FreshInv, OneIsFresh, Fresh
    <3>3. \A t \in Task : status[t] \in TL!TerminalStates => status'[t] = status[t]
      BY <1>1, <3>2, FreshWritesOpenRows
    <3>4. QED
      BY <1>1, <2>2, <2>3, <3>1, <3>3 DEF TL!AllTerminal, TL!Terminal
  <2>8. QED
    BY <2>6, <2>7
<1>6. QED
  BY <1>4, <1>5 DEF FreshInv

LEMMA FreshCreateTask ==
  ASSUME TrailInv, SessionInv, FreshInv, NEW r \in Template, CreateTask(r)
  PROVE  FreshInv'
<1>1. r.id \in Task
  BY TemplateAssumption DEF TL!NewTask
<1>2. /\ r.id \notin TL!Created
      /\ status' = [status EXCEPT ![r.id] = "not_started"]
      /\ deps' = [deps EXCEPT ![r.id] = r.deps]
      /\ client' = client /\ pending' = pending
  BY DEF CreateTask, TL!CreateTask, session
<1>3. /\ \A t \in TL!Created : status'[t] = status[t] /\ deps'[t] = deps[t]
      /\ status[r.id] = "absent"
      /\ \A t \in Task : t # r.id => status'[t] = status[t]
  BY <1>1, <1>2 DEF TrailInv, TypeOK, SessionInv, RowsTyped, TL!Created
<1>4. \A o \in Client :
        /\ Own(o)' = Own(o) /\ (InFlight(o)' <=> InFlight(o))
        /\ \A d \in Task : CascadedTo(o, d)' <=> CascadedTo(o, d)
        /\ \A d \in Task : Examines(o, d)' <=> Examines(o, d)
        /\ \A d \in Task : Vouches(o, d)' <=> Vouches(o, d)
  BY <1>2, SessionUnmoved
<1>5. ASSUME NEW o \in Client, InFlight(o)
      PROVE  Own(o) \in TL!Created /\ (Fresh(o) => Fresh(o)')
  <2>1. Own(o) \in TL!Created
    BY <1>5 DEF SessionInv, Orderly
  <2>2. \A d \in Task : status[d] = "blocked" => status'[d] = "blocked"
    BY <1>3
  <2>3. status'[Own(o)'] = status[Own(o)]
    BY <1>3, <1>4, <2>1
  <2>4. Fresh(o) => Fresh(o)'
    BY <1>2, <1>4, <2>2, <2>3 DEF Fresh
  <2>5. QED
    BY <2>1, <2>4
<1>6. OneIsFresh'
  <2> SUFFICES ASSUME NEW c \in Client, NEW o \in Client, c # o, InFlight(c)', InFlight(o)'
               PROVE  Fresh(c)' \/ Fresh(o)'
    BY DEF OneIsFresh
  <2>1. InFlight(c) /\ InFlight(o)
    BY <1>4
  <2>2. Fresh(c) \/ Fresh(o)
    BY <2>1 DEF FreshInv, OneIsFresh
  <2>3. QED
    BY <1>5, <2>1, <2>2
<1>7. VouchesHold'
  <2> SUFFICES ASSUME NEW o \in Client, NEW d \in Task, InFlight(o)', Vouches(o, d)'
               PROVE  (\/ status[Own(o)] = client[o].loaded
                       \/ TL!AllTerminal(status, deps[d] \ {Own(o)}))'
    BY DEF VouchesHold
  <2>1. InFlight(o) /\ Vouches(o, d) /\ Own(o)' = Own(o) /\ client'[o] = client[o]
    BY <1>2, <1>4
  <2>2. deps'[d] = deps[d] /\ deps[d] \subseteq Task
    BY <1>3, <2>1, VouchedRows
  <2>3. status'[Own(o)] = status[Own(o)]
    BY <1>3, <1>5, <2>1
  <2>4. \A t \in Task : status[t] \in TL!TerminalStates => status'[t] = status[t]
    BY <1>3 DEF TL!TerminalStates
  <2>5. \/ status[Own(o)] = client[o].loaded
        \/ TL!AllTerminal(status, deps[d] \ {Own(o)})
    BY <2>1 DEF FreshInv, VouchesHold
  <2>6. QED
    BY <2>1, <2>2, <2>3, <2>4, <2>5 DEF TL!AllTerminal, TL!Terminal
<1>8. NoneVouchedTwice'
  BY <1>4 DEF FreshInv, NoneVouchedTwice
<1>9. QED
  BY <1>6, <1>7, <1>8 DEF FreshInv

LEMMA FreshUnchanged ==
  ASSUME TrailInv, SessionInv, FreshInv, UNCHANGED <<status, deps, client, pending>>
  PROVE  FreshInv'
<1>1. \A o \in Client :
        /\ Own(o)' = Own(o) /\ (InFlight(o)' <=> InFlight(o))
        /\ \A d \in Task : CascadedTo(o, d)' <=> CascadedTo(o, d)
        /\ \A d \in Task : Examines(o, d)' <=> Examines(o, d)
        /\ \A d \in Task : Vouches(o, d)' <=> Vouches(o, d)
  BY SessionUnmoved
<1>2. \A o \in Client : Fresh(o)' <=> Fresh(o)
  BY <1>1 DEF Fresh
<1>3. OneIsFresh' /\ NoneVouchedTwice'
  BY <1>1, <1>2 DEF FreshInv, OneIsFresh, NoneVouchedTwice
<1>4. VouchesHold'
  BY <1>1 DEF FreshInv, VouchesHold, TL!AllTerminal, TL!Terminal
<1>5. QED
  BY <1>3, <1>4 DEF FreshInv

LEMMA FreshInvInit == Init => FreshInv
  BY DEF Init, FreshInv, OneIsFresh, VouchesHold, NoneVouchedTwice, InFlight, Idle

LEMMA FreshInvStep ==
  ASSUME AtMostTwoOpen, TrailInv, SessionInv, FreshInv, [Next]_vars
  PROVE  FreshInv'
<1>1. CASE UNCHANGED vars
  BY <1>1, FreshUnchanged DEF vars
<1>2. ASSUME NEW r \in Template, CreateTask(r) PROVE FreshInv'
  BY <1>2, FreshCreateTask
<1>3. ASSUME NEW p \in MilestonePhase, AnnounceMilestone(p) PROVE FreshInv'
  BY <1>3, FreshUnchanged DEF AnnounceMilestone, TL!AnnounceMilestone, session
<1>4. ASSUME NEW c \in Client, NEW r \in Request, Begin(c, r) PROVE FreshInv'
  BY <1>4, FreshBegin
<1>5. ASSUME NEW c \in Client, Handle(c) PROVE FreshInv'
  <2>1. CASE CheckDependencies(c)
    <3>1. CASE Rollback(c)
      BY <3>1, FreshRollback
    <3>2. CASE Goto(c, "writing") /\ UNCHANGED <<database, pending, entries>>
      BY <2>1, <3>2, FreshGoto DEF CheckDependencies, InFlight, Examines
    <3>3. QED
      BY <2>1, <3>1, <3>2 DEF CheckDependencies
  <2>2. CASE DetectMilestone(c)
    <3>1. CASE Rollback(c)
      BY <3>1, FreshRollback
    <3>2. CASE Goto(c, "committing") /\ UNCHANGED <<database, pending, entries>>
      BY <2>2, <3>2, FreshGoto DEF DetectMilestone, InFlight, Examines
    <3>3. QED
      BY <2>2, <3>1, <3>2 DEF DetectMilestone
  <2>3. QED
    BY <1>5, <2>1, <2>2, FreshWriteTask, FreshFetchDependent, FreshCountOpenDependencies,
       FreshUnblockDependent, FreshCommit DEF Handle
<1>6. ASSUME NEW c \in Client, Crash(c) PROVE FreshInv'
  BY <1>6, FreshRollback DEF Crash
<1>7. QED
  BY <1>1, <1>2, <1>3, <1>4, <1>5, <1>6 DEF Next

\* A client that waits holds rows only once its own is written, and then waits
\* for a dependent that it vouches for.
LEMMA NoTwoWait ==
  ASSUME TrailInv, SessionInv, FreshInv, NEW c \in Client, NEW o \in Client,
         WaitsFor(c, o), WaitsFor(o, c)
  PROVE  FALSE
<1> DEFINE d == client[c].row
           e == client[o].row
<1>1. /\ c # o /\ InFlight(c) /\ InFlight(o)
      /\ client[c].pc \in {"writing", "unblocking"} /\ client[o].pc \in {"writing", "unblocking"}
      /\ pending[o][d] # Clean /\ pending[c][e] # Clean
  BY DEF WaitsFor, InFlight
<1>2. d \in Task /\ e \in Task
  BY <1>1, OwnRow DEF Busy
<1>3. client[c].pc = "unblocking" /\ client[o].pc = "unblocking"
  BY <1>1, <1>2 DEF SessionInv, Orderly, Wrote
<1>4. Vouches(c, d) /\ Vouches(o, e) /\ d \in TL!Dependents(Own(c)) /\ e \in TL!Dependents(Own(o))
  BY <1>1, <1>2, <1>3, VouchedRows DEF Vouches
<1>5. CASE d # Own(o)
  <2>1. Vouches(o, d)
    BY <1>1, <1>5 DEF Vouches, CascadedTo
  <2>2. QED
    BY <1>1, <1>2, <1>4, <2>1 DEF FreshInv, NoneVouchedTwice
<1>6. CASE e # Own(c)
  <2>1. Vouches(c, e)
    BY <1>1, <1>6 DEF Vouches, CascadedTo
  <2>2. QED
    BY <1>1, <1>2, <1>4, <2>1 DEF FreshInv, NoneVouchedTwice
<1>7. CASE d = Own(o) /\ e = Own(c)
  <2>1. Own(c) \in deps[Own(o)] /\ Own(o) \in deps[Own(c)]
    BY <1>4, <1>7 DEF TL!Dependents
  <2>2. QED
    BY <1>2, <1>7, <2>1 DEF SessionInv, DependenciesOlder
<1>8. QED
  BY <1>5, <1>6, <1>7

LEMMA NoWaitCycle ==
  ASSUME AtMostTwoOpen, TrailInv, SessionInv, FreshInv
  PROVE  NoDeadlock
<1> SUFFICES ASSUME NEW S \in SUBSET Client, WaitCycle(S) PROVE FALSE
  BY DEF NoDeadlock
<1>1. PICK c \in S : TRUE
  BY DEF WaitCycle
<1>2. PICK o \in S : WaitsFor(c, o)
  BY DEF WaitCycle
<1>3. PICK e \in S : WaitsFor(o, e)
  BY DEF WaitCycle
<1>4. c # o /\ o # e /\ InFlight(c) /\ InFlight(o) /\ InFlight(e)
  BY <1>2, <1>3 DEF WaitsFor, WaitCycle, InFlight
<1>5. e = c
  BY <1>4 DEF AtMostTwoOpen
<1>6. QED
  BY <1>2, <1>3, <1>5, NoTwoWait

\* However two requests overlap, and whatever tasks depend on each other, they
\* never wait for each other's rows: any number of clients, two of them served
\* at a time.
THEOREM TwoRequestsNeverDeadlock ==
  Spec /\ []AtMostTwoOpen => []NoDeadlock
<1>1. AtMostTwoOpen /\ FreshInv /\ TrailInv /\ SessionInv /\ [Next]_vars => FreshInv'
  BY FreshInvStep
<1>2. AtMostTwoOpen /\ FreshInv /\ TrailInv /\ SessionInv => NoDeadlock
  BY NoWaitCycle
<1>3. QED
  BY <1>1, <1>2, FreshInvInit, SessionInvariance, PTL DEF Spec

=============================================================================
