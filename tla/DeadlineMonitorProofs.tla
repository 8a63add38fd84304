----------------------- MODULE DeadlineMonitorProofs -----------------------
(***************************************************************************)
(* Proofs about DeadlineMonitor, for every set of deadlines, users,        *)
(* workers and patches, any calendar and any number of retries and         *)
(* crashes.  Types hold whatever overlaps.  That nobody is reminded twice  *)
(* a day, and that the row and the audit trail agree on the last reminder, *)
(* holds as long as no two runs are at the same time between selecting     *)
(* their reminders and committing them (RunsApart); two that are do remind *)
(* twice.                                                                  *)
(*                                                                         *)
(* TypeOK says little of what a session carries, and a type is kept only   *)
(* because of that: rows that were selected still exist, and a user's      *)
(* transaction holds columns that fit (TypeInv).  A reminder is committed  *)
(* steps after the check that allowed it; ReminderInv says that what the   *)
(* check found, no reminder on the run's day or later, is still so.        *)
(***************************************************************************)
EXTENDS DeadlineMonitor, FiniteSetTheorems, TLAPS

USE BoundAssumption

Working == [pc: {"selecting", "missing", "reminding", "returning", "acking"},
            day: Day, failed: 0..MaxRetries, todo: Seq(Deadline)]

WorkerOK(w) ==
  session[w] = Idle \/ (/\ session[w] \in Working
                        /\ \A i \in DOMAIN session[w].todo : Exists(session[w].todo[i]))

\* Columns that a patch may change.
IsChange(c) == IsPart(c) /\ "reminded" \notin DOMAIN c

UserOK(u) ==
  \/ session[u] = Idle
  \/ session[u].pc = "flushed"
  \/ /\ session[u].pc = "loaded" /\ DOMAIN session[u] = {"pc", "deadline", "columns"}
     /\ session[u].deadline \in Deadline /\ Exists(session[u].deadline)
     /\ IsChange(session[u].columns)

BoundsOK == /\ today \in Day /\ active \in BOOLEAN /\ crashes \in 0..MaxCrashes
            /\ queue \in [0..MaxRetries -> Nat]

RowsOK == /\ row = [d \in Deadline |-> row[d]]
          /\ \A d \in Deadline : row[d] = Absent \/ IsRow(row[d])
          /\ sent \in [Deadline -> [Day -> Nat]]

SessionsOK == /\ session = [s \in Session |-> session[s]]
              /\ \A w \in Worker : WorkerOK(w)
              /\ \A u \in User : UserOK(u)

PendingOK == /\ pending = [s \in Session |-> pending[s]]
             /\ \A s \in Session : pending[s] = [d \in Deadline |-> pending[s][d]]
             /\ \A s \in Session, d \in Deadline :
                  /\ IsPart(pending[s][d])
                  /\ DOMAIN pending[s][d] # {} => Exists(d)
             /\ \A u \in User, d \in Deadline : ~Reminded(u, d)

TypeInv == BoundsOK /\ RowsOK /\ SessionsOK /\ PendingOK

------------------------------------------------------------------------------
(***************************************************************************)
(* Rows, columns and sequences.                                            *)
(***************************************************************************)
LEMMA ColumnTypes ==
  /\ Column("status") = Status /\ Column("due") = Day
  /\ Column("config") = SUBSET Int /\ Column("reminded") = 0..LastDay
  BY DEF Column

LEMMA AbsentIsNoRow == ASSUME NEW r, IsRow(r) PROVE r # Absent
  BY DEF IsRow, Columns, Absent

LEMMA NoColumnsType == DOMAIN NoColumns = {} /\ IsChange(NoColumns)
  BY DEF NoColumns, IsChange, IsPart

\* Writing columns to a row gives a row.
LEMMA OverrideRow ==
  ASSUME NEW r, IsRow(r), NEW c, IsPart(c)
  PROVE  /\ IsRow(Override(c, r))
         /\ Override(c, r).reminded = IF "reminded" \in DOMAIN c THEN c.reminded ELSE r.reminded
  BY DEF IsRow, IsPart, Override, Columns

\* Nothing is written to a row that does not exist.
LEMMA OverrideNothing ==
  ASSUME NEW c, DOMAIN c = {} PROVE Override(c, Absent) = Absent
  BY DEF Override, Absent

LEMMA MergeParts ==
  ASSUME NEW c, IsPart(c), NEW m, IsPart(m)
  PROVE  /\ IsPart(Merge(c, m))
         /\ DOMAIN Merge(c, m) = DOMAIN c \union DOMAIN m
         /\ \A f \in DOMAIN c \union DOMAIN m :
              Merge(c, m)[f] = IF f \in DOMAIN m THEN m[f] ELSE c[f]
  BY DEF IsPart, Merge

\* What an update changes are columns of the row, never the last reminder.
LEMMA ChangesTyped ==
  ASSUME NEW r, IsRow(r), NEW p \in Patch
  PROVE  IsChange(Changes(r, p))
<1> DEFINE due == IF Given(p, "due") THEN p.due ELSE r.due
           config == IF Given(p, "config") THEN p.config ELSE r.config
           status == IF Given(p, "status") THEN p.status
                     ELSE IF Extends(r, p) THEN "extended" ELSE r.status
           new == [r EXCEPT !.due = due, !.config = config, !.status = status]
<1>1. due \in Day /\ config \in SUBSET Int /\ status \in Status
  BY ColumnTypes, InputAssumption DEF Given, IsRow, Columns, Status
<1>2. Changes(r, p) = Differing(r, new)
  BY DEF Changes
<1> HIDE DEF due, config, status
<1>3. DOMAIN new = Columns /\ \A f \in Columns : new[f] \in Column(f)
  BY <1>1, ColumnTypes DEF IsRow, Columns
<1>4. new["reminded"] = r["reminded"]
  BY DEF IsRow, Columns
<1> HIDE DEF new
<1>5. /\ DOMAIN Differing(r, new) = {f \in Columns : new[f] # r[f]}
      /\ \A f \in DOMAIN Differing(r, new) : Differing(r, new)[f] = new[f]
  BY <1>3 DEF Differing, Restrict
<1> QED
  BY <1>2, <1>3, <1>4, <1>5 DEF IsChange, IsPart

LEMMA HeadAndTail ==
  ASSUME NEW S, NEW s \in Seq(S), s # <<>>
  PROVE  /\ 1 \in DOMAIN s /\ Head(s) = s[1] /\ Head(s) \in S
         /\ Tail(s) \in Seq(S)
         /\ \A i \in DOMAIN Tail(s) : i + 1 \in DOMAIN s /\ Tail(s)[i] = s[i + 1]
  OBVIOUS

\* A query's rows, in whatever order, are a sequence of them.
LEMMA OrderOfRows ==
  ASSUME NEW S \in SUBSET Deadline, NEW order \in SetToSeqs(S)
  PROVE  order \in Seq(Deadline) /\ \A i \in DOMAIN order : order[i] \in S
<1>1. Cardinality(S) \in Nat
  BY InputAssumption, FS_Subset, FS_CardinalityType
<1>2. order \in [1..Cardinality(S) -> S]
  BY DEF SetToSeqs
<1>3. order \in Seq(S)
  BY <1>1, <1>2
<1> QED BY <1>2, <1>3

------------------------------------------------------------------------------
(***************************************************************************)
(* Types.                                                                  *)
(***************************************************************************)
LEMMA TypeInvImplies == TypeInv => TypeOK
<1> SUFFICES ASSUME TypeInv PROVE TypeOK OBVIOUS
<1>1. \A s \in Session : session[s].pc \in {"idle", "selecting", "missing", "reminding",
                                           "returning", "acking", "loaded", "flushed"}
  BY DEF TypeInv, SessionsOK, WorkerOK, UserOK, Working, Idle, Session
<1> QED BY <1>1 DEF TypeInv, BoundsOK, RowsOK, PendingOK, TypeOK

\* What a session sees of a row.
LEMMA ViewTyped ==
  ASSUME TypeInv, NEW s \in Session, NEW d \in Deadline
  PROVE  /\ Exists(d) => /\ IsRow(row[d]) /\ IsRow(View(s, d))
                         /\ View(s, d).reminded = IF Reminded(s, d) THEN pending[s][d].reminded
                                                                    ELSE row[d].reminded
         /\ ~Exists(d) => View(s, d) = Absent /\ ~Reminded(s, d)
<1>1. CASE Exists(d)
  BY <1>1, OverrideRow DEF TypeInv, RowsOK, PendingOK, Exists, View, Reminded
<1>2. CASE ~Exists(d)
  BY <1>2, OverrideNothing DEF TypeInv, PendingOK, Exists, View, Reminded
<1> QED BY <1>1, <1>2

\* Publishing keeps the rows, with the columns written; each reminder is counted.
LEMMA PublishRows ==
  ASSUME TypeInv, NEW s \in Session, Publish(s)
  PROVE  /\ RowsOK'
         /\ \A d \in Deadline : /\ row'[d] = View(s, d) /\ (Exists(d) <=> Exists(d)')
                                /\ Reminded(s, d) => pending[s][d].reminded \in 0..LastDay
<1>1. \A d \in Deadline : row'[d] = View(s, d) BY DEF Publish
<1>2. row' = [d \in Deadline |-> row'[d]] BY <1>1 DEF Publish
<1>3. \A d \in Deadline : /\ Exists(d) <=> Exists(d)'
                          /\ row'[d] = Absent \/ IsRow(row'[d])
  BY <1>1, ViewTyped, AbsentIsNoRow DEF Exists
<1>4. \A d \in Deadline : Reminded(s, d) => pending[s][d].reminded \in 0..LastDay
  BY ColumnTypes DEF TypeInv, PendingOK, IsPart, Reminded
<1>5. sent' \in [Deadline -> [Day -> Nat]]
  <2>1. \A d \in Deadline :
          (IF Reminded(s, d) THEN [sent[d] EXCEPT ![pending[s][d].reminded] = @ + 1] ELSE sent[d])
            \in [Day -> Nat]
    <3> SUFFICES ASSUME NEW d \in Deadline, NEW x
                 PROVE  [sent[d] EXCEPT ![x] = @ + 1] \in [Day -> Nat] /\ sent[d] \in [Day -> Nat]
      OBVIOUS
    <3>1. sent[d] \in [Day -> Nat] BY DEF TypeInv, RowsOK
    <3>2. x \in Day => sent[d][x] + 1 \in Nat BY <3>1
    <3> QED BY <3>1, <3>2
  <2> QED BY <2>1 DEF Publish
<1> QED BY <1>1, <1>2, <1>3, <1>4, <1>5 DEF RowsOK

\* Discarding a transaction.
LEMMA DiscardKeeps ==
  ASSUME TypeInv, NEW s \in Session, Discard(s), \A d \in Deadline : Exists(d) => Exists(d)'
  PROVE  PendingOK'
<1>1. \A o \in Session : pending'[o] = IF o = s THEN [d \in Deadline |-> NoColumns] ELSE pending[o]
  BY DEF Discard, TypeInv, PendingOK
<1>2. pending' = [o \in Session |-> pending'[o]]
  BY DEF Discard, TypeInv, PendingOK
<1>3. \A o \in Session : pending'[o] = [d \in Deadline |-> pending'[o][d]]
  BY <1>1 DEF TypeInv, PendingOK
<1>4. \A o \in Session, d \in Deadline :
        pending'[o][d] = NoColumns \/ pending'[o][d] = pending[o][d]
  BY <1>1
<1>5. \A o \in Session, d \in Deadline : IsPart(pending'[o][d])
                                         /\ (DOMAIN pending'[o][d] # {} => Exists(d)')
  BY <1>4, NoColumnsType DEF TypeInv, PendingOK, IsChange
<1>6. \A u \in User, d \in Deadline : ~Reminded(u, d)'
  BY <1>4, NoColumnsType DEF TypeInv, PendingOK, Reminded, Session
<1> QED BY <1>2, <1>3, <1>5, <1>6 DEF PendingOK

\* Writing columns to the row d in the transaction of s.
LEMMA WriteKeeps ==
  ASSUME TypeInv, NEW s \in Session, NEW d \in Deadline, Exists(d), UNCHANGED row,
         pending' = [o \in Session |-> [e \in Deadline |-> pending'[o][e]]],
         \A o \in Session, e \in Deadline : (o = s /\ e = d) \/ pending'[o][e] = pending[o][e],
         IsPart(pending'[s][d]), s \in User => "reminded" \notin DOMAIN pending'[s][d]
  PROVE  PendingOK'
<1>1. /\ pending' = [o \in Session |-> pending'[o]]
      /\ \A o \in Session : pending'[o] = [e \in Deadline |-> pending'[o][e]]
  <2> DEFINE f(o) == [e \in Deadline |-> pending'[o][e]]
  <2>1. pending' = [o \in Session |-> f(o)] OBVIOUS
  <2> HIDE DEF f
  <2>2. \A o \in Session : pending'[o] = f(o) BY <2>1
  <2>3. pending' = [o \in Session |-> pending'[o]] BY <2>1, <2>2
  <2> QED BY <2>2, <2>3 DEF f
<1>2. \A o \in Session, e \in Deadline : /\ IsPart(pending'[o][e])
                                         /\ DOMAIN pending'[o][e] # {} => Exists(e)'
  BY DEF TypeInv, PendingOK, Exists
<1>3. \A u \in User, e \in Deadline : ~Reminded(u, e)'
  BY DEF TypeInv, PendingOK, Reminded, Session
<1> QED BY <1>1, <1>2, <1>3 DEF PendingOK

\* Sessions other than those that move stay as they are while rows persist.
LEMMA SessionKept ==
  ASSUME TypeInv, \A d \in Deadline : Exists(d) => Exists(d)'
  PROVE  /\ \A w \in Worker : session'[w] = session[w] => WorkerOK(w)'
         /\ \A u \in User : session'[u] = session[u] => UserOK(u)'
<1>1. \A w \in Worker : session'[w] = session[w] => WorkerOK(w)'
  <2> SUFFICES ASSUME NEW w \in Worker, session'[w] = session[w] PROVE WorkerOK(w)' OBVIOUS
  <2>1. CASE session[w] = Idle BY <2>1 DEF WorkerOK
  <2>2. CASE session[w] \in Working /\ \A i \in DOMAIN session[w].todo : Exists(session[w].todo[i])
    <3>1. \A i \in DOMAIN session[w].todo : session[w].todo[i] \in Deadline
      BY <2>2 DEF Working
    <3> QED BY <2>2, <3>1 DEF WorkerOK
  <2> QED BY <2>1, <2>2 DEF TypeInv, SessionsOK, WorkerOK
<1>2. \A u \in User : session'[u] = session[u] => UserOK(u)'
  BY DEF TypeInv, SessionsOK, UserOK
<1> QED BY <1>1, <1>2

\* One session moves to k.
LEMMA MoveKeeps ==
  ASSUME TypeInv, \A d \in Deadline : Exists(d) => Exists(d)',
         NEW s \in Session, NEW k, session' = [session EXCEPT ![s] = k],
         s \in Worker => WorkerOK(s)', s \in User => UserOK(s)'
  PROVE  SessionsOK' /\ session'[s] = k /\ \A o \in Session \ {s} : session'[o] = session[o]
<1>1. /\ session' = [o \in Session |-> session'[o]] /\ session'[s] = k
      /\ \A o \in Session \ {s} : session'[o] = session[o]
  BY DEF TypeInv, SessionsOK
<1> QED BY <1>1, SessionKept DEF SessionsOK, Session

\* Nothing moves.
LEMMA StayKeeps ==
  ASSUME TypeInv, \A d \in Deadline : Exists(d) => Exists(d)', UNCHANGED session
  PROVE  SessionsOK'
<1>1. session' = [o \in Session |-> session'[o]] BY DEF TypeInv, SessionsOK
<1> QED BY <1>1, SessionKept DEF SessionsOK

\* Worker and user states told apart.
LEMMA WorkerFields ==
  ASSUME TypeInv, NEW w \in Worker, session[w].pc # "idle"
  PROVE  /\ session[w] \in Working /\ session[w].day \in Day
         /\ session[w].failed \in 0..MaxRetries /\ session[w].todo \in Seq(Deadline)
         /\ \A i \in DOMAIN session[w].todo : /\ session[w].todo[i] \in Deadline
                                              /\ Exists(session[w].todo[i])
<1>1. session[w] # Idle BY DEF Idle
<1>2. /\ session[w] \in Working
      /\ \A i \in DOMAIN session[w].todo : Exists(session[w].todo[i])
  BY <1>1 DEF TypeInv, SessionsOK, WorkerOK
<1>3. session[w].day \in Day /\ session[w].failed \in 0..MaxRetries /\ session[w].todo \in Seq(Deadline)
  BY <1>2 DEF Working
<1>4. \A i \in DOMAIN session[w].todo : session[w].todo[i] \in Deadline
  BY <1>3
<1> QED BY <1>2, <1>3, <1>4

LEMMA UserFields ==
  ASSUME TypeInv, NEW u \in User
  PROVE  session[u].pc = "loaded" =>
           /\ DOMAIN session[u] = {"pc", "deadline", "columns"}
           /\ session[u].deadline \in Deadline /\ Exists(session[u].deadline)
           /\ IsChange(session[u].columns)
  BY DEF TypeInv, SessionsOK, UserOK, Idle

\* A worker moves on within its run: its fields fit, its rows exist.
LEMMA RunMoves ==
  ASSUME TypeInv, NEW w \in Worker, NEW k \in Working,
         \A d \in Deadline : Exists(d) => Exists(d)',
         \A i \in DOMAIN k.todo : Exists(k.todo[i]),
         session' = [session EXCEPT ![w] = k]
  PROVE  SessionsOK' /\ session'[w] = k
<1>1. session'[w] = k BY DEF TypeInv, SessionsOK, Session
<1>2. \A i \in DOMAIN k.todo : k.todo[i] \in Deadline BY DEF Working
<1>3. WorkerOK(w)' BY <1>1, <1>2 DEF WorkerOK
<1>4. w \in Session /\ w \notin User BY DEF Session
<1> HIDE DEF SessionsOK
<1> QED BY <1>1, <1>3, <1>4, MoveKeeps

\* A session becomes idle.
LEMMA IdleKeeps ==
  ASSUME TypeInv, NEW s \in Session, \A d \in Deadline : Exists(d) => Exists(d)',
         session' = [session EXCEPT ![s] = Idle]
  PROVE  SessionsOK'
<1>1. session'[s] = Idle BY DEF TypeInv, SessionsOK
<1> QED BY <1>1, MoveKeeps DEF WorkerOK, UserOK

LEMMA UnchangedRows ==
  ASSUME TypeInv, UNCHANGED tables
  PROVE  RowsOK' /\ \A d \in Deadline : Exists(d) <=> Exists(d)'
  BY DEF TypeInv, RowsOK, tables, Exists

LEMMA UnchangedPending ==
  ASSUME TypeInv, UNCHANGED pending, \A d \in Deadline : Exists(d) => Exists(d)'
  PROVE  PendingOK'
<1>1. pending' = pending OBVIOUS
<1> QED BY <1>1 DEF TypeInv, PendingOK, Reminded

------------------------------------------------------------------------------
(***************************************************************************)
(* The job.                                                                *)
(***************************************************************************)
LEMMA StartRunTyped ==
  ASSUME TypeInv, NEW w \in Worker, StartRun(w)
  PROVE  TypeInv' /\ session'[w].pc \in {"selecting", "returning"} /\ UNCHANGED <<row, sent, pending>>
<1>1. PICK n \in 0..MaxRetries :
        /\ queue[n] > 0 /\ queue' = [queue EXCEPT ![n] = @ - 1]
        /\ session' = [session EXCEPT ![w] =
              [pc |-> IF active THEN "selecting" ELSE "returning",
               day |-> today, failed |-> n, todo |-> <<>>]]
  BY DEF StartRun
<1> DEFINE k == [pc |-> IF active THEN "selecting" ELSE "returning",
                 day |-> today, failed |-> n, todo |-> <<>>]
<1>2. UNCHANGED <<today, active, row, sent, pending, crashes>> BY DEF StartRun, calendar, tables
<1>3. k \in Working /\ k.todo = <<>> /\ k.pc \in {"selecting", "returning"}
  BY DEF Working, TypeInv, BoundsOK
<1>4. BoundsOK' BY <1>1, <1>2 DEF TypeInv, BoundsOK
<1>5. RowsOK' /\ \A d \in Deadline : Exists(d) <=> Exists(d)' BY <1>2, UnchangedRows DEF tables
<1>6. PendingOK' BY <1>2, <1>5, UnchangedPending
<1>7. session' = [session EXCEPT ![w] = k] BY <1>1
<1> HIDE DEF k
<1>a. \A i \in DOMAIN k.todo : Exists(k.todo[i]) BY <1>3
<1>b. k \in Working /\ \A d \in Deadline : Exists(d) => Exists(d)' BY <1>3, <1>5
<1>8. SessionsOK' /\ session'[w] = k BY <1>7, <1>a, <1>b, RunMoves
<1> QED BY <1>2, <1>3, <1>4, <1>5, <1>6, <1>8 DEF TypeInv

\* A run is about to go through the rows of a query.
LEMMA LoopTyped ==
  ASSUME TypeInv, NEW w \in Worker, session[w].pc # "idle", NEW pc \in {"missing", "reminding"},
         NEW rows \in SUBSET Deadline, \A d \in rows : Exists(d), Loop(w, pc, rows),
         UNCHANGED <<calendar, tables, queue, pending, crashes>>
  PROVE  /\ TypeInv'
         /\ session'[w].pc = pc /\ session'[w].day = session[w].day
         /\ \A i \in DOMAIN session'[w].todo : session'[w].todo[i] \in rows
<1>1. PICK order \in SetToSeqs(rows) : session' = [session EXCEPT ![w].pc = pc, ![w].todo = order]
  BY DEF Loop
<1> DEFINE k == [session[w] EXCEPT !.pc = pc, !.todo = order]
<1>2. session' = [session EXCEPT ![w] = k] BY <1>1 DEF TypeInv, SessionsOK, Session
<1>3. session[w] \in Working BY WorkerFields
<1>4. order \in Seq(Deadline) /\ \A i \in DOMAIN order : order[i] \in rows BY OrderOfRows
<1>5. k \in Working /\ k.pc = pc /\ k.todo = order /\ k.day = session[w].day
  BY <1>3, <1>4 DEF Working
<1> HIDE DEF k
<1>6. RowsOK' /\ \A d \in Deadline : Exists(d) <=> Exists(d)' BY UnchangedRows
<1>7. SessionsOK' /\ session'[w] = k BY <1>2, <1>4, <1>5, <1>6, RunMoves
<1>8. PendingOK' BY <1>6, UnchangedPending
<1>9. BoundsOK' BY DEF TypeInv, BoundsOK, calendar
<1> QED BY <1>4, <1>5, <1>6, <1>7, <1>8, <1>9 DEF TypeInv

\* The queries return rows that exist.
LEMMA UpcomingExist ==
  ASSUME TypeInv, NEW w \in Worker
  PROVE  \A d \in Upcoming(w) : Exists(d)
<1>1. \A d \in Deadline : ~Exists(d) => View(w, d) = Absent BY ViewTyped DEF Session
<1>2. Absent.status # "upcoming" BY DEF Absent
<1> QED BY <1>1, <1>2 DEF Upcoming

LEMMA SelectOverdueTyped ==
  ASSUME TypeInv, NEW w \in Worker, SelectOverdue(w)
  PROVE  TypeInv' /\ session'[w].pc = "missing"
<1>1. Overdue(w) \in SUBSET Deadline /\ \A d \in Overdue(w) : Exists(d)
  BY UpcomingExist DEF Overdue, Upcoming
<1> QED BY <1>1, LoopTyped DEF SelectOverdue

LEMMA SelectRemindersTyped ==
  ASSUME TypeInv, NEW w \in Worker, SelectReminders(w)
  PROVE  /\ TypeInv' /\ session'[w].pc = "reminding" /\ session'[w].day = session[w].day
         /\ \A i \in DOMAIN session'[w].todo : session'[w].todo[i] \in ReminderDue(w)
<1>1. ReminderDue(w) \in SUBSET Deadline /\ \A d \in ReminderDue(w) : Exists(d)
  BY UpcomingExist DEF ReminderDue, Upcoming
<1> QED BY <1>1, LoopTyped DEF SelectReminders

\* The columns written to the row a run has reached.
LEMMA UpdatedTyped ==
  ASSUME TypeInv, NEW w \in Worker, session[w].pc \in {"missing", "reminding"},
         session[w].todo # <<>>
  PROVE  /\ Reached(w) = session[w].todo[1] /\ 1 \in DOMAIN session[w].todo
         /\ Reached(w) \in Deadline /\ Exists(Reached(w)) /\ IsPart(Updated(w))
         /\ session[w].pc = "missing" =>
              ("reminded" \in DOMAIN Updated(w) <=> Reminded(w, Reached(w)))
         /\ session[w].pc = "reminding" => Updated(w).reminded = session[w].day
<1>1. session[w].todo \in Seq(Deadline) /\ session[w].day \in Day BY WorkerFields
<1>2. Reached(w) = session[w].todo[1] /\ 1 \in DOMAIN session[w].todo /\ Reached(w) \in Deadline
  BY <1>1, HeadAndTail DEF Reached
<1>3. Exists(Reached(w)) BY <1>2, WorkerFields
<1> DEFINE c == pending[w][Reached(w)]
<1>4. IsPart(c) BY <1>2 DEF TypeInv, PendingOK, Session
<1>5. CASE session[w].pc = "missing"
  <2> DEFINE n == [status |-> "missed"]
  <2>1. DOMAIN n = {"status"} /\ n["status"] = "missed" OBVIOUS
  <2>2. Updated(w) = Merge(c, n) BY <1>5 DEF Updated
  <2> HIDE DEF n
  <2>3. IsPart(n) BY <2>1, ColumnTypes DEF IsPart, Columns, Status
  <2> HIDE DEF c
  <2>4. IsPart(Merge(c, n)) /\ DOMAIN Merge(c, n) = DOMAIN c \union DOMAIN n
    BY <1>4, <2>3, MergeParts
  <2>5. IsPart(Updated(w)) /\ DOMAIN Updated(w) = DOMAIN c \union {"status"}
    BY <2>1, <2>2, <2>4
  <2> QED BY <1>2, <1>3, <1>5, <2>4, <2>5 DEF Reminded, c
<1>6. CASE session[w].pc = "reminding"
  <2> DEFINE n == [reminded |-> session[w].day]
  <2>1. DOMAIN n = {"reminded"} /\ n["reminded"] = session[w].day OBVIOUS
  <2>2. Updated(w) = Merge(c, n) BY <1>6 DEF Updated
  <2> HIDE DEF n
  <2>3. IsPart(n) BY <1>1, <2>1, ColumnTypes DEF IsPart, Columns, Day
  <2> HIDE DEF c
  <2>4. IsPart(Merge(c, n)) /\ \A f \in DOMAIN n : Merge(c, n)[f] = n[f]
    BY <1>4, <2>3, MergeParts
  <2>5. IsPart(Updated(w)) /\ Updated(w)["reminded"] = session[w].day
    BY <2>1, <2>2, <2>4
  <2> QED BY <1>2, <1>3, <1>6, <2>5
<1> QED BY <1>5, <1>6

LEMMA UpdateNextTyped ==
  ASSUME TypeInv, NEW w \in Worker, session[w].pc \in {"missing", "reminding"}, UpdateNext(w)
  PROVE  /\ TypeInv'
         /\ session'[w].pc = session[w].pc /\ session'[w].day = session[w].day
         /\ \A i \in DOMAIN session'[w].todo : \E j \in DOMAIN session[w].todo :
              session'[w].todo[i] = session[w].todo[j]
         /\ \A o \in Session, e \in Deadline :
              pending'[o][e] = IF o = w /\ e = Reached(w) THEN Updated(w) ELSE pending[o][e]
<1> DEFINE old == session[w].todo
           k == [session[w] EXCEPT !.todo = Tail(old)]
<1>1. /\ old # <<>> /\ UNCHANGED <<calendar, tables, queue, crashes>>
      /\ pending' = [pending EXCEPT ![w] = [pending[w] EXCEPT ![Reached(w)] = Updated(w)]]
      /\ session' = [session EXCEPT ![w] = k]
  BY DEF UpdateNext, TypeInv, SessionsOK, Session
<1>2. session[w] \in Working /\ old \in Seq(Deadline) /\ \A i \in DOMAIN old : Exists(old[i])
  BY WorkerFields
<1>3. /\ Tail(old) \in Seq(Deadline)
      /\ \A i \in DOMAIN Tail(old) : i + 1 \in DOMAIN old /\ Tail(old)[i] = old[i + 1]
  BY <1>1, <1>2, HeadAndTail
<1>4. k \in Working /\ k.todo = Tail(old) /\ k.pc = session[w].pc /\ k.day = session[w].day
  BY <1>2, <1>3 DEF Working
<1>5. RowsOK' /\ \A d \in Deadline : Exists(d) <=> Exists(d)' BY <1>1, UnchangedRows
<1>6. Reached(w) \in Deadline /\ Exists(Reached(w)) /\ IsPart(Updated(w))
  BY <1>1, UpdatedTyped
<1> HIDE DEF k
<1>7. \A i \in DOMAIN k.todo : Exists(k.todo[i]) BY <1>2, <1>3, <1>4
<1>8. SessionsOK' /\ session'[w] = k BY <1>1, <1>4, <1>5, <1>7, RunMoves
<1>9. w \in Session /\ w \notin User /\ row' = row BY <1>1 DEF Session, tables
<1>10. PendingOK' /\ \A o \in Session, e \in Deadline :
         pending'[o][e] = IF o = w /\ e = Reached(w) THEN Updated(w) ELSE pending[o][e]
  <2> DEFINE r == Reached(w)
             c == Updated(w)
  <2>1. pending' = [pending EXCEPT ![w] = [pending[w] EXCEPT ![r] = c]] BY <1>1
  <2>2. r \in Deadline /\ Exists(r) /\ IsPart(c) BY <1>6
  <2>3. /\ pending = [o \in Session |-> pending[o]]
        /\ \A o \in Session : pending[o] = [e \in Deadline |-> pending[o][e]]
    BY DEF TypeInv, PendingOK
  <2> HIDE DEF r, c
  <2>4. \A o \in Session, e \in Deadline :
          pending'[o][e] = IF o = w /\ e = r THEN c ELSE pending[o][e]
    BY <1>9, <2>1, <2>2, <2>3
  <2>5. pending' = [o \in Session |-> [e \in Deadline |-> pending'[o][e]]]
    BY <1>9, <2>1, <2>2, <2>3
  <2>6. PendingOK' BY <1>9, <2>2, <2>4, <2>5, WriteKeeps
  <2> QED BY <2>4, <2>6 DEF r, c
<1>11. BoundsOK' BY <1>1 DEF TypeInv, BoundsOK, calendar
<1>12. TypeInv' BY <1>5, <1>8, <1>10, <1>11 DEF TypeInv
<1>13. \A i \in DOMAIN session'[w].todo : \E j \in DOMAIN session[w].todo :
              session'[w].todo[i] = session[w].todo[j]
  BY <1>3, <1>4, <1>8
<1> QED BY <1>4, <1>8, <1>10, <1>12, <1>13

LEMMA CommitRunTyped ==
  ASSUME TypeInv, NEW w \in Worker, CommitRun(w)
  PROVE  TypeInv' /\ session'[w].pc = "acking"
<1> DEFINE k == [session[w] EXCEPT !.pc = "acking"]
<1>1. w \in Session /\ Publish(w) /\ Discard(w) /\ session[w].pc # "idle"
  BY DEF CommitRun, Publish, Session
<1>2. session[w] \in Working /\ \A i \in DOMAIN session[w].todo : Exists(session[w].todo[i])
  BY <1>1, WorkerFields
<1>3. session' = [session EXCEPT ![w] = k] BY DEF CommitRun, TypeInv, SessionsOK, Session
<1>4. k \in Working /\ k.todo = session[w].todo /\ k.pc = "acking" BY <1>2 DEF Working
<1> HIDE DEF k
<1>5. RowsOK' /\ \A d \in Deadline : Exists(d) <=> Exists(d)' BY <1>1, PublishRows
<1>6. SessionsOK' /\ session'[w] = k BY <1>2, <1>3, <1>4, <1>5, RunMoves
<1>7. PendingOK' BY <1>1, <1>5, DiscardKeeps
<1>8. BoundsOK' BY DEF CommitRun, TypeInv, BoundsOK, calendar
<1> QED BY <1>4, <1>5, <1>6, <1>7, <1>8 DEF TypeInv

LEMMA AckTyped ==
  ASSUME TypeInv, NEW w \in Worker, Ack(w) PROVE TypeInv'
<1>1. RowsOK' /\ \A d \in Deadline : Exists(d) <=> Exists(d)' BY UnchangedRows DEF Ack
<1>2. SessionsOK' BY <1>1, IdleKeeps DEF Ack, Session
<1>3. PendingOK' BY <1>1, UnchangedPending DEF Ack
<1>4. BoundsOK' BY DEF Ack, TypeInv, BoundsOK, calendar
<1> QED BY <1>1, <1>2, <1>3, <1>4 DEF TypeInv

LEMMA CrashTyped ==
  ASSUME TypeInv, NEW w \in Worker, Crash(w) PROVE TypeInv'
<1>1. RowsOK' /\ \A d \in Deadline : Exists(d) <=> Exists(d)' BY UnchangedRows DEF Crash
<1>2. SessionsOK' BY <1>1, IdleKeeps DEF Crash, Session
<1>3. PendingOK' BY <1>1, DiscardKeeps DEF Crash, Session
<1>4. session[w].failed \in 0..MaxRetries BY WorkerFields DEF Crash
<1>5. BoundsOK' BY <1>4 DEF Crash, TypeInv, BoundsOK, calendar
<1> QED BY <1>1, <1>2, <1>3, <1>5 DEF TypeInv

\* The run that is aborted is idle, the other has its row.
LEMMA BreakDeadlockTyped ==
  ASSUME TypeInv, NEW w \in Worker, NEW o \in Worker, BreakDeadlock(w, o)
  PROVE  /\ TypeInv' /\ w # o /\ session[o].pc \in {"missing", "reminding"} /\ session[o].todo # <<>>
         /\ session'[w] = Idle /\ \A d \in Deadline : pending'[w][d] = NoColumns
         /\ session'[o].pc = session[o].pc /\ session'[o].day = session[o].day
         /\ \A i \in DOMAIN session'[o].todo : \E j \in DOMAIN session[o].todo :
              session'[o].todo[i] = session[o].todo[j]
         /\ \A d \in Deadline : pending'[o][d] = IF d = Reached(o) THEN Updated(o) ELSE pending[o][d]
         /\ \A s \in Session \ {w, o} : session'[s] = session[s] /\ pending'[s] = pending[s]
<1> DEFINE old == session[o].todo
           k == [session[o] EXCEPT !.todo = Tail(old)]
           none == [d \in Deadline |-> NoColumns]
           mine == [pending[o] EXCEPT ![Reached(o)] = Updated(o)]
<1>1. /\ w # o /\ w \in Session /\ o \in Session
      /\ session[w].pc \in {"missing", "reminding"} /\ session[o].pc \in {"missing", "reminding"}
      /\ old # <<>> /\ UNCHANGED <<calendar, tables, crashes>>
  BY DEF BreakDeadlock, WaitsFor, Session
<1>2. session[w].failed \in 0..MaxRetries BY <1>1, WorkerFields
<1>3. /\ session[o] \in Working /\ old \in Seq(Deadline)
      /\ \A i \in DOMAIN old : old[i] \in Deadline /\ Exists(old[i])
  BY <1>1, WorkerFields
<1>4. /\ Tail(old) \in Seq(Deadline)
      /\ \A i \in DOMAIN Tail(old) : /\ Tail(old)[i] \in Deadline /\ Exists(Tail(old)[i])
                                     /\ \E j \in DOMAIN old : Tail(old)[i] = old[j]
  BY <1>1, <1>3, HeadAndTail
<1>5. k \in Working /\ k.todo = Tail(old) /\ k.pc = session[o].pc /\ k.day = session[o].day
  BY <1>3, <1>4 DEF Working
<1>6. Reached(o) \in Deadline /\ Exists(Reached(o)) /\ IsPart(Updated(o))
  BY <1>1, UpdatedTyped
<1>7. session' = [s \in Session |-> IF s = o THEN k ELSE IF s = w THEN Idle ELSE session[s]]
  BY <1>1 DEF BreakDeadlock, TypeInv, SessionsOK
<1>8. pending' = [s \in Session |-> IF s = o THEN mine ELSE IF s = w THEN none ELSE pending[s]]
  BY <1>1 DEF BreakDeadlock, TypeInv, PendingOK
<1>9. RowsOK' /\ \A d \in Deadline : Exists(d) <=> Exists(d)' BY <1>1, UnchangedRows
<1>10. mine = [d \in Deadline |-> IF d = Reached(o) THEN Updated(o) ELSE pending[o][d]]
  BY <1>1 DEF TypeInv, PendingOK
<1> HIDE DEF k, old, none, mine
<1>11. SessionsOK'
  <2>1. WorkerOK(o)' BY <1>1, <1>4, <1>5, <1>7, <1>9 DEF WorkerOK
  <2>2. WorkerOK(w)' BY <1>1, <1>7 DEF WorkerOK
  <2>3. \A s \in Session \ {w, o} : session'[s] = session[s] BY <1>7
  <2>4. session' = [s \in Session |-> session'[s]] BY <1>7
  <2>5. w \notin User /\ o \notin User OBVIOUS
  <2> QED BY <1>9, <2>1, <2>2, <2>3, <2>4, <2>5, SessionKept DEF SessionsOK, Session
<1>12. PendingOK'
  <2>1. \A s \in Session, d \in Deadline :
          \/ pending'[s][d] = pending[s][d] \/ pending'[s][d] = NoColumns
          \/ s = o /\ d = Reached(o) /\ pending'[s][d] = Updated(o)
    BY <1>8, <1>10 DEF none
  <2>2. \A s \in Session : pending'[s] = [d \in Deadline |-> pending'[s][d]]
    BY <1>8, <1>10 DEF none, TypeInv, PendingOK
  <2>3. pending' = [s \in Session |-> pending'[s]] BY <1>8
  <2>4. \A s \in Session, d \in Deadline : IsPart(pending'[s][d])
                                          /\ (DOMAIN pending'[s][d] # {} => Exists(d)')
    BY <2>1, <1>6, <1>9, NoColumnsType DEF TypeInv, PendingOK, IsChange
  <2>5. \A u \in User, d \in Deadline : ~Reminded(u, d)'
    BY <2>1, NoColumnsType DEF TypeInv, PendingOK, Reminded, Session, IsChange
  <2> QED BY <2>2, <2>3, <2>4, <2>5 DEF PendingOK
<1>13. BoundsOK'
  <2> DEFINE n == session[w].failed
  <2>1. queue \in [0..MaxRetries -> Nat] BY DEF TypeInv, BoundsOK
  <2>2. n < MaxRetries => n + 1 \in 0..MaxRetries BY <1>2
  <2>3. queue' = IF n < MaxRetries THEN [queue EXCEPT ![n + 1] = @ + 1] ELSE queue
    BY DEF BreakDeadlock
  <2> HIDE DEF n
  <2>4. queue' \in [0..MaxRetries -> Nat] BY <2>1, <2>2, <2>3
  <2> QED BY <2>4, <1>1 DEF TypeInv, BoundsOK, calendar
<1>14. /\ session'[w] = Idle /\ session'[o] = k /\ pending'[w] = none /\ pending'[o] = mine
       /\ \A s \in Session \ {w, o} : session'[s] = session[s] /\ pending'[s] = pending[s]
  BY <1>1, <1>7, <1>8
<1>15. TypeInv' BY <1>9, <1>11, <1>12, <1>13 DEF TypeInv
<1>16. \A i \in DOMAIN session'[o].todo : \E j \in DOMAIN session[o].todo :
         session'[o].todo[i] = session[o].todo[j]
  BY <1>4, <1>5, <1>14 DEF old
<1>17. session'[o].pc = session[o].pc /\ session'[o].day = session[o].day BY <1>5, <1>14
<1>18. \A d \in Deadline : /\ pending'[w][d] = NoColumns
                           /\ pending'[o][d] = IF d = Reached(o) THEN Updated(o) ELSE pending[o][d]
  BY <1>10, <1>14 DEF none
<1> QED BY <1>1, <1>14, <1>15, <1>16, <1>17, <1>18 DEF old

------------------------------------------------------------------------------
(***************************************************************************)
(* Users and the world.                                                    *)
(***************************************************************************)
LEMMA CreateDeadlineTyped ==
  ASSUME TypeInv, NEW n \in NewDeadline, CreateDeadline(n)
  PROVE  /\ TypeInv' /\ UNCHANGED <<sent, session, pending>>
         /\ row[n.id] = Absent /\ row'[n.id].reminded = 0
         /\ \A d \in Deadline \ {n.id} : row'[d] = row[d]
<1> DEFINE new == [status |-> "upcoming", due |-> n.due, config |-> n.config, reminded |-> 0]
<1>1. /\ row[n.id] = Absent /\ row' = [row EXCEPT ![n.id] = new]
      /\ UNCHANGED <<calendar, sent, queue, session, pending, crashes>>
  BY DEF CreateDeadline
<1>2. n.id \in Deadline /\ n.due \in Day /\ n.config \in SUBSET Int BY InputAssumption
<1>3. new.reminded = 0 OBVIOUS
<1>4. IsRow(new)
  <2>1. DOMAIN new = Columns BY DEF Columns
  <2>2. new["status"] \in Status BY DEF Status
  <2>3. new["due"] \in Day /\ new["config"] \in SUBSET Int BY <1>2
  <2>4. new["reminded"] \in 0..LastDay OBVIOUS
  <2> QED BY <2>1, <2>2, <2>3, <2>4, ColumnTypes DEF IsRow, Columns
<1> HIDE DEF new
<1>5. \A d \in Deadline : row'[d] = IF d = n.id THEN new ELSE row[d]
  BY <1>1 DEF TypeInv, RowsOK
<1>6. row' = [d \in Deadline |-> row'[d]] BY <1>1 DEF TypeInv, RowsOK
<1>7. RowsOK' BY <1>1, <1>4, <1>5, <1>6 DEF TypeInv, RowsOK
<1>8. \A d \in Deadline : Exists(d) => Exists(d)' BY <1>4, <1>5, AbsentIsNoRow DEF Exists
<1>9. SessionsOK' /\ PendingOK' BY <1>1, <1>8, StayKeeps, UnchangedPending
<1>10. BoundsOK' BY <1>1 DEF TypeInv, BoundsOK, calendar
<1> QED BY <1>1, <1>2, <1>3, <1>5, <1>7, <1>9, <1>10 DEF TypeInv

LEMMA LoadDeadlineTyped ==
  ASSUME TypeInv, NEW u \in User, NEW d \in Deadline, NEW p \in Patch, LoadDeadline(u, d, p)
  PROVE  TypeInv'
<1> DEFINE k == [pc |-> "loaded", deadline |-> d, columns |-> Changes(row[d], p)]
<1>1. /\ session' = [session EXCEPT ![u] = k] /\ Exists(d) /\ u \in Session
      /\ UNCHANGED <<calendar, tables, queue, pending, crashes>>
  BY DEF LoadDeadline, Exists, Session
<1>2. IsChange(Changes(row[d], p)) BY <1>1, ChangesTyped DEF TypeInv, RowsOK, Exists
<1>3. /\ k.pc = "loaded" /\ DOMAIN k = {"pc", "deadline", "columns"} /\ k.deadline = d
      /\ k.columns = Changes(row[d], p)
  OBVIOUS
<1> HIDE DEF k
<1>4. RowsOK' /\ \A e \in Deadline : Exists(e) <=> Exists(e)' BY <1>1, UnchangedRows
<1>5. session'[u] = k BY <1>1 DEF TypeInv, SessionsOK
<1>6. UserOK(u)' BY <1>1, <1>2, <1>3, <1>4, <1>5 DEF UserOK
<1>7. u \notin Worker OBVIOUS
<1>8. SessionsOK' BY <1>1, <1>4, <1>6, <1>7, MoveKeeps
<1>9. PendingOK' BY <1>1, <1>4, UnchangedPending
<1>10. BoundsOK' BY <1>1 DEF TypeInv, BoundsOK, calendar
<1> QED BY <1>4, <1>8, <1>9, <1>10 DEF TypeInv

LEMMA FlushUpdateTyped ==
  ASSUME TypeInv, NEW u \in User, FlushUpdate(u)
  PROVE  /\ TypeInv' /\ \A w \in Worker : pending'[w] = pending[w] /\ session'[w] = session[w]
<1> DEFINE d == session[u].deadline
           c == session[u].columns
           k == [session[u] EXCEPT !.pc = "flushed"]
<1>1. /\ u \in Session /\ u \notin Worker /\ session[u].pc = "loaded"
      /\ pending' = [pending EXCEPT ![u] = [pending[u] EXCEPT ![d] = c]]
      /\ session' = [session EXCEPT ![u] = k]
      /\ UNCHANGED <<calendar, tables, queue, crashes>>
  BY DEF FlushUpdate, Session, TypeInv, SessionsOK, PendingOK
<1>2. DOMAIN session[u] = {"pc", "deadline", "columns"} /\ d \in Deadline /\ Exists(d) /\ IsChange(c)
  BY <1>1, UserFields
<1>3. k.pc = "flushed" BY <1>2
<1>4. /\ pending = [o \in Session |-> pending[o]]
      /\ \A o \in Session : pending[o] = [e \in Deadline |-> pending[o][e]]
  BY DEF TypeInv, PendingOK
<1> HIDE DEF k, d, c
<1>5. RowsOK' /\ \A e \in Deadline : Exists(e) <=> Exists(e)' BY <1>1, UnchangedRows
<1>6. session'[u] = k /\ \A w \in Worker : session'[w] = session[w]
  BY <1>1 DEF TypeInv, SessionsOK, Session
<1>7. UserOK(u)' BY <1>3, <1>6 DEF UserOK
<1>8. SessionsOK' BY <1>1, <1>5, <1>7, MoveKeeps
<1>9. \A o \in Session, e \in Deadline :
        pending'[o][e] = IF o = u /\ e = d THEN c ELSE pending[o][e]
  BY <1>1, <1>2, <1>4
<1>10. pending' = [o \in Session |-> [e \in Deadline |-> pending'[o][e]]]
  BY <1>1, <1>2, <1>4
<1>11. IsPart(pending'[u][d]) /\ "reminded" \notin DOMAIN pending'[u][d]
  <2>1. pending'[u][d] = c BY <1>1, <1>2, <1>9
  <2> QED BY <1>2, <2>1 DEF IsChange
<1>12. UNCHANGED row BY <1>1 DEF tables
<1>13. PendingOK'
  <2>1. \A o \in Session, e \in Deadline : (o = u /\ e = d) \/ pending'[o][e] = pending[o][e]
    BY <1>9
  <2>2. u \in Session /\ d \in Deadline /\ Exists(d) BY <1>1, <1>2
  <2> QED BY <1>10, <1>11, <1>12, <2>1, <2>2, WriteKeeps
<1>14. \A w \in Worker : pending'[w] = pending[w] BY <1>1, <1>4 DEF Session
<1>15. BoundsOK' BY <1>1 DEF TypeInv, BoundsOK, calendar
<1> QED BY <1>5, <1>6, <1>8, <1>13, <1>14, <1>15 DEF TypeInv

LEMMA CommitUpdateTyped ==
  ASSUME TypeInv, NEW u \in User, CommitUpdate(u)
  PROVE  TypeInv'
<1>1. u \in Session /\ Publish(u) /\ Discard(u) BY DEF CommitUpdate, Publish, Session
<1>2. RowsOK' /\ \A d \in Deadline : Exists(d) <=> Exists(d)' BY <1>1, PublishRows
<1>3. SessionsOK' BY <1>1, <1>2, IdleKeeps DEF CommitUpdate
<1>4. PendingOK' BY <1>1, <1>2, DiscardKeeps
<1>5. BoundsOK' BY DEF CommitUpdate, TypeInv, BoundsOK, calendar
<1> QED BY <1>2, <1>3, <1>4, <1>5 DEF TypeInv

\* Steps that touch neither rows nor sessions.
LEMMA WorldTyped ==
  ASSUME TypeInv, UNCHANGED <<tables, session, pending>>, BoundsOK'
  PROVE  TypeInv'
<1>1. RowsOK' /\ \A d \in Deadline : Exists(d) <=> Exists(d)' BY UnchangedRows
<1>2. SessionsOK' /\ PendingOK' BY <1>1, StayKeeps, UnchangedPending
<1> QED BY <1>1, <1>2 DEF TypeInv

------------------------------------------------------------------------------
LEMMA TypeInvInit == Init => TypeInv
<1> SUFFICES ASSUME Init PROVE TypeInv OBVIOUS
<1> USE DEF Init
<1>1. BoundsOK BY DEF BoundsOK, Day
<1>2. RowsOK BY DEF RowsOK
<1>3. SessionsOK BY DEF SessionsOK, WorkerOK, UserOK, Session
<1>4. PendingOK
  <2>1. \A s \in Session, d \in Deadline : pending[s][d] = NoColumns OBVIOUS
  <2>2. \A s \in Session : pending[s] = [d \in Deadline |-> pending[s][d]] OBVIOUS
  <2>3. pending = [s \in Session |-> pending[s]] OBVIOUS
  <2> QED BY <2>1, <2>2, <2>3, NoColumnsType DEF PendingOK, Reminded, IsChange, Session
<1> QED BY <1>1, <1>2, <1>3, <1>4 DEF TypeInv

LEMMA TypeInvNext == TypeInv /\ [Next]_vars => TypeInv'
<1> SUFFICES ASSUME TypeInv, [Next]_vars PROVE TypeInv' OBVIOUS
<1>1. CASE Beat
  <2>1. queue' \in [0..MaxRetries -> Nat] BY <1>1 DEF Beat, TypeInv, BoundsOK
  <2>2. BoundsOK' BY <1>1, <2>1 DEF Beat, TypeInv, BoundsOK, calendar
  <2> QED BY <1>1, <2>2, WorldTyped DEF Beat
<1>2. CASE \E w \in Worker : Run(w)
  <2>1. PICK w \in Worker : Run(w) BY <1>2
  <2>2. CASE StartRun(w) BY <2>2, StartRunTyped
  <2>3. CASE SelectOverdue(w) BY <2>3, SelectOverdueTyped
  <2>4. CASE MarkMissed(w) BY <2>4, UpdateNextTyped DEF MarkMissed
  <2>5. CASE SelectReminders(w) BY <2>5, SelectRemindersTyped
  <2>6. CASE SendReminder(w) BY <2>6, UpdateNextTyped DEF SendReminder
  <2>7. CASE CommitRun(w) BY <2>7, CommitRunTyped
  <2>8. CASE Ack(w) BY <2>8, AckTyped
  <2> QED BY <2>1, <2>2, <2>3, <2>4, <2>5, <2>6, <2>7, <2>8 DEF Run
<1>3. CASE \E w \in Worker : Crash(w) BY <1>3, CrashTyped
<1>4. CASE \E w, o \in Worker : BreakDeadlock(w, o) BY <1>4, BreakDeadlockTyped
<1>5. CASE \E role \in Roles, n \in NewDeadline : PostDeadline(role, n)
  BY <1>5, CreateDeadlineTyped DEF PostDeadline
<1>6. CASE \E role \in Roles, u \in User, d \in Deadline, p \in Patch : PatchDeadline(role, u, d, p)
  BY <1>6, LoadDeadlineTyped DEF PatchDeadline
<1>7. CASE \E u \in User : FlushUpdate(u) BY <1>7, FlushUpdateTyped
<1>8. CASE \E u \in User : CommitUpdate(u) BY <1>8, CommitUpdateTyped
<1>9. CASE \E b \in BOOLEAN : SetActive(b)
  <2>1. BoundsOK' BY <1>9 DEF SetActive, TypeInv, BoundsOK
  <2> QED BY <1>9, <2>1, WorldTyped DEF SetActive
<1>10. CASE Midnight
  <2>1. BoundsOK' BY <1>10 DEF Midnight, TypeInv, BoundsOK, Day
  <2> QED BY <1>10, <2>1, WorldTyped DEF Midnight
<1>11. CASE UNCHANGED vars
  <2>1. BoundsOK' BY <1>11 DEF vars, TypeInv, BoundsOK
  <2> QED BY <1>11, <2>1, WorldTyped DEF vars, tables
<1> QED BY <1>1, <1>2, <1>3, <1>4, <1>5, <1>6, <1>7, <1>8, <1>9, <1>10, <1>11 DEF Next

\* Rows, sessions and the queue keep their form (the deadlines table, the
\* Celery messages), with any number of runs and requests at once.
THEOREM TypeCorrect == Spec => []TypeOK
<1>1. TypeInv => TypeOK BY TypeInvImplies
<1> QED BY <1>1, TypeInvInit, TypeInvNext, PTL DEF Spec

------------------------------------------------------------------------------
(***************************************************************************)
(* Reminders, as long as no two runs send theirs at the same time.         *)
(***************************************************************************)
Reminding(w) == session[w].pc = "reminding"

\* No two runs are between the selection of their reminders and the commit.
RunsApart == \A v, w \in Worker : Reminding(v) /\ Reminding(w) => v = w

\* What is sent and not committed was not sent that day before, or later.
Unrepeated(w) == \A d \in Deadline : Reminded(w, d) =>
  /\ Reminding(w) /\ pending[w][d].reminded = session[w].day
  /\ row[d].reminded < session[w].day

\* Nor were the deadlines the run still has to remind of.
StillToSend(w) == Reminding(w) =>
  \A i \in DOMAIN session[w].todo : row[session[w].todo[i]].reminded < session[w].day

PendingReminders == \A w \in Worker : Unrepeated(w)
TodoReminders == \A w \in Worker : StillToSend(w)
NothingSentOfAbsent == \A d \in Deadline : ~Exists(d) => \A e \in Day : sent[d][e] = 0

ReminderInv == /\ TypeInv /\ PendingReminders /\ TodoReminders
               /\ NothingSentOfAbsent /\ LastReminderRecorded /\ OneReminderPerDay

\* A step that commits nothing keeps the books; the rest depends on the run.
LEMMA BooksKept ==
  ASSUME ReminderInv, UNCHANGED tables
  PROVE  (NothingSentOfAbsent /\ LastReminderRecorded /\ OneReminderPerDay)'
  BY DEF ReminderInv, tables, NothingSentOfAbsent, LastReminderRecorded, OneReminderPerDay, Exists

\* A worker that is neither sending nor has sent anything owes nothing.
LEMMA OutsideReminding ==
  ASSUME ReminderInv, NEW w \in Worker, ~Reminding(w)
  PROVE  \A d \in Deadline : ~Reminded(w, d)
  BY DEF ReminderInv, PendingReminders, Unrepeated

\* A run that a step leaves alone is as it was, if the rows say the same of
\* their last reminders.
LEMMA LeftAlone ==
  ASSUME ReminderInv, NEW w \in Worker, session'[w] = session[w], pending'[w] = pending[w],
         \A d \in Deadline : Exists(d) => row'[d].reminded = row[d].reminded
  PROVE  Unrepeated(w)' /\ StillToSend(w)'
<1>1. Unrepeated(w)'
  <2>1. \A d \in Deadline : Reminded(w, d) => Exists(d)
    BY ViewTyped DEF ReminderInv, Session
  <2> QED BY <2>1 DEF ReminderInv, PendingReminders, Unrepeated, Reminded, Reminding
<1>2. StillToSend(w)'
  <2> SUFFICES ASSUME Reminding(w), NEW i \in DOMAIN session[w].todo
               PROVE  row'[session[w].todo[i]].reminded < session[w].day
    BY DEF StillToSend, Reminding
  <2>1. session[w].todo[i] \in Deadline /\ Exists(session[w].todo[i])
    BY WorkerFields DEF ReminderInv, Reminding
  <2> QED BY <2>1 DEF ReminderInv, TodoReminders, StillToSend
<1> QED BY <1>1, <1>2

\* A step of one run.
LEMMA OthersLeftAlone ==
  ASSUME ReminderInv, NEW w \in Worker, UNCHANGED row,
         \A o \in Worker \ {w} : session'[o] = session[o] /\ pending'[o] = pending[o],
         Unrepeated(w)', StillToSend(w)'
  PROVE  PendingReminders' /\ TodoReminders'
  BY LeftAlone DEF PendingReminders, TodoReminders

LEMMA RunAlone ==
  ASSUME TypeInv, NEW w \in Worker, Run(w) \/ Crash(w)
  PROVE  \A o \in Session \ {w} : session'[o] = session[o] /\ pending'[o] = pending[o]
<1>1. \A o \in Session \ {w} : session'[o] = session[o]
  BY DEF Run, StartRun, SelectOverdue, MarkMissed, UpdateNext, SelectReminders, SendReminder, CommitRun,
         Ack, Loop, Crash, TypeInv, SessionsOK
<1>2. \A o \in Session \ {w} : pending'[o] = pending[o]
  BY DEF Run, StartRun, SelectOverdue, MarkMissed, UpdateNext, SelectReminders, SendReminder, CommitRun,
         Ack, Publish, Discard, Crash, TypeInv, PendingOK
<1> QED BY <1>1, <1>2

\* Committing the reminders of a run.
LEMMA CommitRunKeeps ==
  ASSUME RunsApart, ReminderInv, NEW w \in Worker, CommitRun(w)
  PROVE  ReminderInv'
<1>1. TypeInv' /\ session'[w].pc = "acking" BY CommitRunTyped DEF ReminderInv
<1>2. w \in Session /\ Publish(w) /\ Discard(w) /\ session[w].pc # "idle"
  BY DEF CommitRun, Publish, Session
<1> DEFINE day == session[w].day
<1>3. day \in Day BY <1>2, WorkerFields DEF ReminderInv
<1>4. \A d \in Deadline : row'[d] = View(w, d) /\ (Exists(d) <=> Exists(d)')
  BY <1>2, PublishRows DEF ReminderInv
<1>5. \A d \in Deadline : sent'[d] = IF Reminded(w, d) THEN [sent[d] EXCEPT ![day] = @ + 1] ELSE sent[d]
  BY <1>2 DEF Publish, ReminderInv, PendingReminders, Unrepeated
<1>6. \A d \in Deadline : Exists(d) =>
        row'[d].reminded = IF Reminded(w, d) THEN day ELSE row[d].reminded
  BY <1>2, <1>4, ViewTyped DEF ReminderInv, PendingReminders, Unrepeated
<1>7. \A d \in Deadline : Exists(d) => row[d].reminded \in 0..LastDay
  BY ColumnTypes DEF ReminderInv, TypeInv, RowsOK, IsRow, Columns, Exists
<1>8. \A d \in Deadline : Reminded(w, d) => /\ Exists(d) /\ row[d].reminded < day
                                            /\ \A e \in Day : e >= day => sent[d][e] = 0
  <2> SUFFICES ASSUME NEW d \in Deadline, Reminded(w, d)
               PROVE  Exists(d) /\ row[d].reminded < day /\ \A e \in Day : e >= day => sent[d][e] = 0
    OBVIOUS
  <2>1. Exists(d) BY <1>2, ViewTyped DEF ReminderInv
  <2>2. row[d].reminded < day BY DEF ReminderInv, PendingReminders, Unrepeated
  <2>3. \A e \in Day : e >= day => e > row[d].reminded BY <1>3, <1>7, <2>1, <2>2 DEF Day
  <2>4. \A e \in Day : e >= day => sent[d][e] = 0
    BY <2>1, <2>3 DEF ReminderInv, LastReminderRecorded
  <2> QED BY <2>1, <2>2, <2>4
<1>9. \A d \in Deadline : sent[d] \in [Day -> Nat] BY DEF ReminderInv, TypeInv, RowsOK
<1>10. \A d \in Deadline, e \in Day :
         sent'[d][e] = IF Reminded(w, d) /\ e = day THEN 1 ELSE sent[d][e]
  <2> SUFFICES ASSUME NEW d \in Deadline, NEW e \in Day
               PROVE  sent'[d][e] = IF Reminded(w, d) /\ e = day THEN 1 ELSE sent[d][e]
    OBVIOUS
  <2>1. CASE ~Reminded(w, d) BY <1>5, <2>1
  <2>2. CASE Reminded(w, d)
    <3>1. sent'[d] = [sent[d] EXCEPT ![day] = sent[d][day] + 1] BY <1>5, <2>2
    <3>2. sent[d][day] = 0 BY <1>3, <1>8, <2>2 DEF Day
    <3>3. sent'[d][e] = IF e = day THEN sent[d][day] + 1 ELSE sent[d][e] BY <1>3, <1>9, <3>1
    <3> QED BY <2>2, <3>2, <3>3
  <2> QED BY <2>1, <2>2
<1> HIDE DEF day
<1>11. OneReminderPerDay'
  BY <1>10 DEF ReminderInv, OneReminderPerDay
<1>12. NothingSentOfAbsent'
  BY <1>4, <1>8, <1>10 DEF ReminderInv, NothingSentOfAbsent
<1>13. LastReminderRecorded'
  <2> SUFFICES ASSUME NEW d \in Deadline, Exists(d)'
               PROVE  /\ row'[d].reminded # 0 => sent'[d][row'[d].reminded] > 0
                      /\ \A e \in Day : e > row'[d].reminded => sent'[d][e] = 0
    BY DEF LastReminderRecorded
  <2>1. Exists(d) BY <1>4
  <2>2. CASE Reminded(w, d)
    <3>1. row'[d].reminded = day /\ sent'[d][day] = 1 BY <1>3, <1>6, <1>10, <2>1, <2>2
    <3>2. \A e \in Day : e > day => sent'[d][e] = 0 BY <1>3, <1>8, <1>10, <2>2 DEF Day
    <3> QED BY <3>1, <3>2
  <2>3. CASE ~Reminded(w, d)
    <3>1. row'[d].reminded = row[d].reminded /\ \A e \in Day : sent'[d][e] = sent[d][e]
      BY <1>6, <1>10, <2>1, <2>3
    <3>2. row[d].reminded # 0 => row[d].reminded \in Day BY <1>7, <2>1 DEF Day
    <3> QED BY <2>1, <3>1, <3>2 DEF ReminderInv, LastReminderRecorded
  <2> QED BY <2>2, <2>3
<1>14. Unrepeated(w)' /\ StillToSend(w)'
  <2>1. \A d \in Deadline : pending'[w][d] = NoColumns
    BY <1>2 DEF Discard, ReminderInv, TypeInv, PendingOK
  <2> QED BY <1>1, <2>1, NoColumnsType DEF Unrepeated, StillToSend, Reminded, Reminding
<1>15. ASSUME NEW v \in Worker, v # w PROVE Unrepeated(v)' /\ StillToSend(v)'
  <2>1. session'[v] = session[v] /\ pending'[v] = pending[v]
    BY <1>15, RunAlone DEF ReminderInv, Run, Session
  <2>2. CASE Reminding(v)
    <3>1. ~Reminding(w) BY <1>15, <2>2 DEF RunsApart
    <3>2. \A d \in Deadline : Exists(d) => row'[d].reminded = row[d].reminded
      BY <1>6, <3>1, OutsideReminding
    <3> QED BY <2>1, <3>2, LeftAlone
  <2>3. CASE ~Reminding(v)
    <3>1. \A d \in Deadline : ~Reminded(v, d) BY <2>3, OutsideReminding
    <3> QED BY <2>1, <2>3, <3>1 DEF Unrepeated, StillToSend, Reminded, Reminding
  <2> QED BY <2>2, <2>3
<1>16. PendingReminders' /\ TodoReminders' BY <1>14, <1>15 DEF PendingReminders, TodoReminders
<1> QED BY <1>1, <1>11, <1>12, <1>13, <1>16 DEF ReminderInv

\* Committing a user's update: last_reminder_sent is not among its columns.
LEMMA CommitUpdateKeeps ==
  ASSUME ReminderInv, NEW u \in User, CommitUpdate(u)
  PROVE  ReminderInv'
<1>1. TypeInv' BY CommitUpdateTyped DEF ReminderInv
<1>2. u \in Session /\ u \notin Worker /\ Publish(u) /\ Discard(u) BY DEF CommitUpdate, Publish, Session
<1>3. \A d \in Deadline : ~Reminded(u, d) BY DEF ReminderInv, TypeInv, PendingOK
<1>4. \A d \in Deadline : row'[d] = View(u, d) /\ (Exists(d) <=> Exists(d)')
  BY <1>2, PublishRows DEF ReminderInv
<1>5. \A d \in Deadline : Exists(d) => row'[d].reminded = row[d].reminded
  BY <1>2, <1>3, <1>4, ViewTyped DEF ReminderInv
<1>6. \A d \in Deadline : sent'[d] = sent[d] BY <1>2, <1>3 DEF Publish
<1>7. \A w \in Worker : session'[w] = session[w] /\ pending'[w] = pending[w]
  BY <1>2 DEF CommitUpdate, Discard, ReminderInv, TypeInv, SessionsOK, PendingOK, Session
<1>8. (NothingSentOfAbsent /\ LastReminderRecorded /\ OneReminderPerDay)'
  BY <1>4, <1>5, <1>6 DEF ReminderInv, NothingSentOfAbsent, LastReminderRecorded, OneReminderPerDay
<1>9. PendingReminders' /\ TodoReminders'
  BY <1>5, <1>7, LeftAlone DEF PendingReminders, TodoReminders
<1> QED BY <1>1, <1>8, <1>9 DEF ReminderInv

\* The steps of a run that commit nothing.
LEMMA RunKeeps ==
  ASSUME ReminderInv, NEW w \in Worker, Run(w), ~CommitRun(w)
  PROVE  ReminderInv'
<1>1. TypeInv' /\ TypeInv BY TypeInvNext DEF ReminderInv, Next
<1>2. w \in Session BY DEF Session
<1>3. UNCHANGED tables
  BY DEF Run, StartRun, SelectOverdue, MarkMissed, UpdateNext, SelectReminders, SendReminder, Ack
<1>4. (NothingSentOfAbsent /\ LastReminderRecorded /\ OneReminderPerDay)' BY <1>3, BooksKept
<1>5. row' = row /\ \A o \in Worker \ {w} : session'[o] = session[o] /\ pending'[o] = pending[o]
  BY <1>1, <1>3, RunAlone DEF tables, Session
<1>6. CASE SelectReminders(w)
  <2>1. /\ session'[w].pc = "reminding" /\ session'[w].day = session[w].day
        /\ \A i \in DOMAIN session'[w].todo : session'[w].todo[i] \in ReminderDue(w)
        /\ session[w].pc = "missing" /\ pending' = pending
    BY <1>1, <1>6, SelectRemindersTyped DEF SelectReminders
  <2>2. session[w].day \in Day BY <1>1, <2>1, WorkerFields
  <2>3. \A d \in ReminderDue(w) : d \in Deadline /\ Exists(d) /\ ~(row[d].reminded >= session[w].day)
    BY <1>1, UpcomingExist DEF ReminderDue, Upcoming, RemindedOn
  <2>4. \A d \in Deadline : Exists(d) => row[d].reminded \in 0..LastDay
    BY <1>1, ColumnTypes DEF TypeInv, RowsOK, IsRow, Columns, Exists
  <2>5. \A d \in ReminderDue(w) : row[d].reminded < session[w].day BY <2>2, <2>3, <2>4 DEF Day
  <2>6. StillToSend(w)' BY <1>5, <2>1, <2>3, <2>5 DEF StillToSend
  <2>7. Unrepeated(w)' BY <2>1, OutsideReminding DEF Unrepeated, Reminded, Reminding
  <2>8. PendingReminders' /\ TodoReminders' BY <1>5, <2>6, <2>7, OthersLeftAlone
  <2> QED BY <1>1, <1>4, <2>8 DEF ReminderInv
<1>7. CASE SendReminder(w)
  <2> DEFINE r == Reached(w)
  <2>1. session[w].pc = "reminding" /\ UpdateNext(w) /\ session[w].todo # <<>>
    BY <1>7 DEF SendReminder, UpdateNext
  <2>2. r = session[w].todo[1] /\ 1 \in DOMAIN session[w].todo /\ r \in Deadline
        /\ Updated(w).reminded = session[w].day
    BY <1>1, <2>1, UpdatedTyped
  <2>3. /\ session'[w].pc = session[w].pc /\ session'[w].day = session[w].day
        /\ \A i \in DOMAIN session'[w].todo : \E j \in DOMAIN session[w].todo :
             session'[w].todo[i] = session[w].todo[j]
        /\ \A e \in Deadline : pending'[w][e] = IF e = r THEN Updated(w) ELSE pending[w][e]
    BY <1>1, <1>2, <2>1, UpdateNextTyped
  <2>4. row[r].reminded < session[w].day
    BY <2>1, <2>2 DEF ReminderInv, TodoReminders, StillToSend, Reminding
  <2>5. \A i \in DOMAIN session[w].todo : session[w].todo[i] \in Deadline BY <1>1, <2>1, WorkerFields
  <2> HIDE DEF r
  <2>6. StillToSend(w)'
    BY <1>5, <2>1, <2>3, <2>5 DEF ReminderInv, TodoReminders, StillToSend, Reminding
  <2>7. Unrepeated(w)'
    BY <1>5, <2>1, <2>2, <2>3, <2>4 DEF ReminderInv, PendingReminders, Unrepeated, Reminded, Reminding
  <2>8. PendingReminders' /\ TodoReminders' BY <1>5, <2>6, <2>7, OthersLeftAlone
  <2> QED BY <1>1, <1>4, <2>8 DEF ReminderInv
<1>8. CASE MarkMissed(w)
  <2> DEFINE r == Reached(w)
  <2>1. session[w].pc = "missing" /\ UpdateNext(w) /\ session[w].todo # <<>>
    BY <1>8 DEF MarkMissed, UpdateNext
  <2>2. r \in Deadline /\ ("reminded" \in DOMAIN Updated(w) <=> Reminded(w, r))
    BY <1>1, <2>1, UpdatedTyped
  <2>3. /\ session'[w].pc = session[w].pc
        /\ \A e \in Deadline : pending'[w][e] = IF e = r THEN Updated(w) ELSE pending[w][e]
    BY <1>1, <1>2, <2>1, UpdateNextTyped
  <2> HIDE DEF r
  <2>4. \A d \in Deadline : ~Reminded(w, d) BY <2>1, OutsideReminding DEF Reminding
  <2>5. Unrepeated(w)' BY <2>2, <2>3, <2>4 DEF Unrepeated, Reminded
  <2>6. StillToSend(w)' BY <2>1, <2>3 DEF StillToSend, Reminding
  <2>7. PendingReminders' /\ TodoReminders' BY <1>5, <2>5, <2>6, OthersLeftAlone
  <2> QED BY <1>1, <1>4, <2>7 DEF ReminderInv
<1>9. CASE StartRun(w) \/ SelectOverdue(w) \/ Ack(w)
  <2>1. session[w].pc \in {"idle", "selecting", "acking"} /\ pending' = pending
    BY <1>9 DEF StartRun, SelectOverdue, Ack
  <2>2. session'[w].pc # "reminding"
    <3>1. CASE StartRun(w) BY <1>1, <3>1, StartRunTyped
    <3>2. CASE SelectOverdue(w) BY <1>1, <3>2, SelectOverdueTyped
    <3>3. CASE Ack(w) BY <1>1, <1>2, <3>3 DEF Ack, Idle, TypeInv, SessionsOK
    <3> QED BY <1>9, <3>1, <3>2, <3>3
  <2>3. \A d \in Deadline : ~Reminded(w, d) BY <2>1, OutsideReminding DEF Reminding
  <2>4. Unrepeated(w)' BY <2>1, <2>3 DEF Unrepeated, Reminded
  <2>5. StillToSend(w)' BY <2>2 DEF StillToSend, Reminding
  <2>6. PendingReminders' /\ TodoReminders' BY <1>5, <2>4, <2>5, OthersLeftAlone
  <2> QED BY <1>1, <1>4, <2>6 DEF ReminderInv
<1> QED BY <1>6, <1>7, <1>8, <1>9 DEF Run

\* A worker that dies forgets its reminders with its transaction.
LEMMA CrashKeeps ==
  ASSUME ReminderInv, NEW w \in Worker, Crash(w)
  PROVE  ReminderInv'
<1>1. TypeInv' /\ TypeInv /\ w \in Session /\ row' = row
  BY CrashTyped DEF ReminderInv, Session, Crash, tables
<1>2. session'[w] = Idle /\ \A d \in Deadline : pending'[w][d] = NoColumns
  BY <1>1 DEF Crash, Discard, TypeInv, SessionsOK, PendingOK
<1>3. Unrepeated(w)' /\ StillToSend(w)'
  BY <1>2, NoColumnsType DEF Unrepeated, StillToSend, Reminded, Reminding, Idle
<1>4. PendingReminders' /\ TodoReminders'
  BY <1>1, <1>3, RunAlone, OthersLeftAlone DEF Session
<1>5. (NothingSentOfAbsent /\ LastReminderRecorded /\ OneReminderPerDay)' BY BooksKept DEF Crash
<1> QED BY <1>1, <1>4, <1>5 DEF ReminderInv

\* So does a run that is aborted; the one that waited for it goes on.
LEMMA BreakDeadlockKeeps ==
  ASSUME ReminderInv, NEW w \in Worker, NEW o \in Worker, BreakDeadlock(w, o)
  PROVE  ReminderInv'
<1>1. /\ TypeInv' /\ TypeInv /\ w # o
      /\ session[o].pc \in {"missing", "reminding"} /\ session[o].todo # <<>>
  BY BreakDeadlockTyped DEF ReminderInv
<1>2. /\ session'[w] = Idle /\ \A d \in Deadline : pending'[w][d] = NoColumns
      /\ session'[o].pc = session[o].pc /\ session'[o].day = session[o].day
      /\ \A i \in DOMAIN session'[o].todo : \E j \in DOMAIN session[o].todo :
           session'[o].todo[i] = session[o].todo[j]
      /\ \A d \in Deadline : pending'[o][d] = IF d = Reached(o) THEN Updated(o) ELSE pending[o][d]
      /\ \A s \in Session \ {w, o} : session'[s] = session[s] /\ pending'[s] = pending[s]
  BY BreakDeadlockTyped DEF ReminderInv
<1>3. UNCHANGED tables /\ row' = row BY DEF BreakDeadlock, tables
<1>4. (NothingSentOfAbsent /\ LastReminderRecorded /\ OneReminderPerDay)' BY <1>3, BooksKept
<1>5. Unrepeated(w)' /\ StillToSend(w)'
  BY <1>2, NoColumnsType DEF Unrepeated, StillToSend, Reminded, Reminding, Idle
<1>6. Unrepeated(o)' /\ StillToSend(o)'
  <2> DEFINE r == Reached(o)
  <2>1. /\ r = session[o].todo[1] /\ 1 \in DOMAIN session[o].todo /\ r \in Deadline
        /\ session[o].pc = "missing" => ("reminded" \in DOMAIN Updated(o) <=> Reminded(o, r))
        /\ session[o].pc = "reminding" => Updated(o).reminded = session[o].day
    BY <1>1, UpdatedTyped
  <2>2. \A i \in DOMAIN session[o].todo : session[o].todo[i] \in Deadline BY <1>1, WorkerFields
  <2> HIDE DEF r
  <2>3. CASE session[o].pc = "missing"
    <3>1. \A d \in Deadline : ~Reminded(o, d) BY <2>3, OutsideReminding DEF Reminding
    <3> QED BY <1>2, <2>1, <2>3, <3>1 DEF Unrepeated, StillToSend, Reminded, Reminding, r
  <2>4. CASE session[o].pc = "reminding"
    <3>1. row[r].reminded < session[o].day
      BY <2>1, <2>4 DEF ReminderInv, TodoReminders, StillToSend, Reminding
    <3>2. StillToSend(o)'
      BY <1>2, <1>3, <2>2, <2>4 DEF ReminderInv, TodoReminders, StillToSend, Reminding
    <3>3. Unrepeated(o)'
      BY <1>2, <1>3, <2>1, <2>4, <3>1
         DEF ReminderInv, PendingReminders, Unrepeated, Reminded, Reminding, r
    <3> QED BY <3>2, <3>3
  <2> QED BY <1>1, <2>3, <2>4
<1>7. ASSUME NEW v \in Worker, v # w, v # o PROVE Unrepeated(v)' /\ StillToSend(v)'
  BY <1>2, <1>3, <1>7, LeftAlone DEF Session
<1>8. PendingReminders' /\ TodoReminders' BY <1>5, <1>6, <1>7 DEF PendingReminders, TodoReminders
<1> QED BY <1>1, <1>4, <1>8 DEF ReminderInv

\* A new deadline: nobody was reminded of it.
LEMMA CreateDeadlineKeeps ==
  ASSUME ReminderInv, NEW n \in NewDeadline, CreateDeadline(n)
  PROVE  ReminderInv'
<1>1. TypeInv' /\ TypeInv /\ n.id \in Deadline BY CreateDeadlineTyped, InputAssumption DEF ReminderInv
<1>2. /\ UNCHANGED <<sent, session, pending>> /\ ~Exists(n.id) /\ row'[n.id].reminded = 0
      /\ \A d \in Deadline \ {n.id} : row'[d] = row[d]
  BY <1>1, CreateDeadlineTyped DEF Exists
<1>3. (NothingSentOfAbsent /\ LastReminderRecorded /\ OneReminderPerDay)'
  <2>1. OneReminderPerDay' BY <1>2 DEF ReminderInv, OneReminderPerDay
  <2>2. NothingSentOfAbsent' BY <1>2 DEF ReminderInv, NothingSentOfAbsent, Exists
  <2>3. LastReminderRecorded'
    BY <1>2 DEF ReminderInv, NothingSentOfAbsent, LastReminderRecorded, Exists
  <2> QED BY <2>1, <2>2, <2>3
<1>4. \A d \in Deadline : Exists(d) => row'[d].reminded = row[d].reminded BY <1>2
<1>5. PendingReminders' /\ TodoReminders' BY <1>2, <1>4, LeftAlone DEF PendingReminders, TodoReminders
<1> QED BY <1>1, <1>3, <1>5 DEF ReminderInv

\* Steps that touch neither the rows nor the worker.
LEMMA ElsewhereKeeps ==
  ASSUME ReminderInv, TypeInv', UNCHANGED tables,
         \A w \in Worker : session'[w] = session[w] /\ pending'[w] = pending[w]
  PROVE  ReminderInv'
<1>1. row' = row BY DEF tables
<1>2. (NothingSentOfAbsent /\ LastReminderRecorded /\ OneReminderPerDay)' BY BooksKept
<1>3. (PendingReminders /\ TodoReminders)'
  BY <1>1, LeftAlone DEF PendingReminders, TodoReminders
<1> QED BY <1>2, <1>3 DEF ReminderInv

------------------------------------------------------------------------------
LEMMA ReminderInit == Init => ReminderInv
<1> SUFFICES ASSUME Init PROVE ReminderInv OBVIOUS
<1>1. TypeInv BY TypeInvInit
<1>2. \A d \in Deadline : row[d] = Absent /\ \A e \in Day : sent[d][e] = 0 BY DEF Init
<1>3. NothingSentOfAbsent /\ LastReminderRecorded /\ OneReminderPerDay
  BY <1>2 DEF NothingSentOfAbsent, LastReminderRecorded, OneReminderPerDay, Exists
<1>4. PendingReminders /\ TodoReminders
  BY NoColumnsType DEF Init, PendingReminders, TodoReminders, Unrepeated, StillToSend, Reminded, Reminding,
                       Session, Idle
<1> QED BY <1>1, <1>3, <1>4 DEF ReminderInv

LEMMA ReminderNext == RunsApart /\ ReminderInv /\ [Next]_vars => ReminderInv'
<1> SUFFICES ASSUME RunsApart, ReminderInv, [Next]_vars PROVE ReminderInv' OBVIOUS
<1>1. TypeInv' /\ TypeInv BY TypeInvNext DEF ReminderInv
<1>2. CASE \E w \in Worker : Run(w) BY <1>2, RunKeeps, CommitRunKeeps
<1>3. CASE \E w \in Worker : Crash(w) BY <1>3, CrashKeeps
<1>4. CASE \E w, o \in Worker : BreakDeadlock(w, o) BY <1>4, BreakDeadlockKeeps
<1>5. CASE \E role \in Roles, n \in NewDeadline : PostDeadline(role, n)
  BY <1>5, CreateDeadlineKeeps DEF PostDeadline
<1>6. CASE \E role \in Roles, u \in User, d \in Deadline, p \in Patch : PatchDeadline(role, u, d, p)
  <2>1. PICK u \in User, d \in Deadline, p \in Patch : LoadDeadline(u, d, p)
    BY <1>6 DEF PatchDeadline
  <2>2. UNCHANGED <<tables, pending>> /\ \A w \in Worker : session'[w] = session[w]
    BY <1>1, <2>1 DEF LoadDeadline, TypeInv, SessionsOK, Session
  <2> QED BY <1>1, <2>2, ElsewhereKeeps
<1>7. CASE \E u \in User : FlushUpdate(u)
  <2>1. UNCHANGED tables BY <1>7 DEF FlushUpdate
  <2> QED BY <1>1, <1>7, <2>1, FlushUpdateTyped, ElsewhereKeeps
<1>8. CASE \E u \in User : CommitUpdate(u) BY <1>8, CommitUpdateKeeps
<1>9. CASE Beat \/ Midnight \/ (\E b \in BOOLEAN : SetActive(b)) \/ UNCHANGED vars
  <2>1. UNCHANGED <<tables, session, pending>>
    BY <1>9 DEF Beat, Midnight, SetActive, vars, tables
  <2> QED BY <1>1, <2>1, ElsewhereKeeps
<1> QED BY <1>2, <1>3, <1>4, <1>5, <1>6, <1>7, <1>8, <1>9 DEF Next

\* Whatever is retried, lost, delivered again or patched, and however many
\* workers there are: a deadline is reminded of at most once a day, and its row
\* names the day of its last reminder, as long as no two runs of check_deadlines
\* are at the same time between selecting their reminders and committing.
THEOREM OnlyOverlapRepeats == Spec /\ []RunsApart => [](OneReminderPerDay /\ LastReminderRecorded)
<1>1. ReminderInv => OneReminderPerDay /\ LastReminderRecorded BY DEF ReminderInv
<1> QED BY <1>1, ReminderInit, ReminderNext, PTL DEF Spec

OneWorker == \A v, w \in Worker : v = w

\* check_deadlines reminds at most once of a deadline on one day, as long as one
\* worker runs it: however often its message is delivered again, whatever users
\* patch meanwhile and wherever it dies.
THEOREM RemindsOncePerDay == ASSUME OneWorker PROVE Spec => []OneReminderPerDay
<1>1. RunsApart BY DEF OneWorker, RunsApart
<1> QED BY <1>1, OnlyOverlapRepeats, PTL

\* And last_reminder_sent is the day of the last reminder_sent event, so that a
\* run that comes later decides by what really went out.
THEOREM RowsRecordReminders == ASSUME OneWorker PROVE Spec => []LastReminderRecorded
<1>1. RunsApart BY DEF OneWorker, RunsApart
<1> QED BY <1>1, OnlyOverlapRepeats, PTL
=============================================================================
