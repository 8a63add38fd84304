------------------------------- MODULE Matters -------------------------------
(* One matter: created, patched and closed (matter_service.py), the tasks   *)
(* and deadlines generated for it from templates (template_registry,        *)
(* task_generation_service), and what users do to its tasks as far as       *)
(* closing looks at it (task_service).  Regeneration adds what is missing   *)
(* by keys it read before, and closing counts open tasks before it writes;  *)
(* neither holds a lock, so each is two steps.                              *)
EXTENDS Integers, Sequences, FiniteSets

CONSTANTS Candidates,  \* templates in merge order: base, estate type, states
          States,      \* jurisdictions
          Flags,       \* flags a template may require
          DeadlineOf,  \* [States -> set of keys of the state's deadline rules]
          MaxCopies,   \* bound: tasks (deadlines) with one key
          MaxTasks,    \* bound: tasks
          MaxPending   \* bound: requests in flight

Keys == {Candidates[i].key : i \in DOMAIN Candidates}
DeadlineKeys == UNION {DeadlineOf[s] : s \in States}
Custom == "custom"   \* in the place of a key: a task no template made
Candidate == [key: Keys, states: SUBSET States, flags: SUBSET Flags, deps: SUBSET Keys,
              critical: BOOLEAN]

\* The templates and rules are what the registry holds; the plan has bounds.
MatterAssumption == /\ Candidates \in Seq(Candidate) /\ Custom \notin Keys
                    /\ MaxCopies \in Nat \ {0}

VARIABLES matter,     \* the row: status, jurisdiction_state, settings.flags
          tasks,      \* its tasks so far
          links,      \* task_dependencies
          deadlines,  \* [keys -> number of standalone deadlines]
          pending,    \* requests that have read and not yet written
          late,       \* tasks that came to be critical and open after the count that
                      \* let a close go ahead
          excused     \* "copies" once a plain generation repeated everything or two
                      \* regenerations overlapped; "patched" while it is a PATCH that
                      \* closed the matter

vars == <<matter, tasks, links, deadlines, pending, late, excused>>

Matter == [status: {"none", "active", "closed"}, state: States,
           flags: SUBSET Flags]
Task == [key: Keys \cup {Custom}, copy: 1..MaxCopies, critical: BOOLEAN, done: BOOLEAN]
Id(t) == <<t.key, t.copy>>

Init == /\ matter \in [status: {"none"}, state: States, flags: {{}}]
        /\ tasks = {} /\ links = {} /\ deadlines = [k \in DeadlineKeys |-> 0]
        /\ pending = {} /\ late = {} /\ excused = {}

------------------------------------------------------------------------------
(* Templates *)

\* _matches_conditions: no states means any; all flags are required.
Matches(c, m) == /\ c.states = {} \/ m.state \in c.states
                 /\ c.flags \subseteq m.flags

\* get_templates: those that match, the last one of each key.
GetTemplates(m) ==
  {i \in DOMAIN Candidates :
     /\ Matches(Candidates[i], m)
     /\ \A j \in DOMAIN Candidates :
          j > i /\ Candidates[j].key = Candidates[i].key => ~Matches(Candidates[j], m)}

MonthLength(y, m) == CASE m \in {4, 6, 9, 11} -> 30
                       [] m = 2 -> IF y % 4 = 0 /\ (y % 100 # 0 \/ y % 400 = 0) THEN 29 ELSE 28
                       [] OTHER -> 31
\* Slip: the day of the month is kept.
AddMonthsUnclamped(d, n) ==
  LET total == d[2] + n - 1 IN <<d[1] + total \div 12, (total % 12) + 1, d[3]>>
\* _add_months on <<year, month, day>>.
AddMonths(d, n) ==
  LET total == d[2] + n - 1
      y == d[1] + total \div 12
      m == (total % 12) + 1
      last == MonthLength(y, m)
  IN <<y, m, IF d[3] < last THEN d[3] ELSE last>>

------------------------------------------------------------------------------
(* Generation *)

CopiesOf(k) == Cardinality({t \in tasks : t.key = k})

\* The Task rows of the templates chosen.
NewTasks(chosen) ==
  {[key |-> Candidates[i].key, copy |-> CopiesOf(Candidates[i].key) + 1,
    critical |-> Candidates[i].critical, done |-> FALSE] : i \in chosen}

\* Slip: existing tasks are not known.
CreateTasksBatchOnly(chosen, known) ==
  LET new == NewTasks(chosen)
  IN /\ \A t \in new : t.copy <= MaxCopies
     /\ Cardinality(tasks \cup new) <= MaxTasks
     /\ tasks' = tasks \cup new
     /\ links' = links \cup
          {l \in new \X new :
             \E i \in chosen : Candidates[i].key = l[1].key /\ l[2].key \in Candidates[i].deps}
\* _create_tasks_from_templates: one task for each template; a dependency is on
\* the task of this batch with that key, or else on an existing one (known).
CreateTasks(chosen, known) ==
  LET new == NewTasks(chosen)
      byKey == new \cup {t \in known : \A n \in new : n.key # t.key}
  IN /\ \A t \in new : t.copy <= MaxCopies
     /\ Cardinality(tasks \cup new) <= MaxTasks
     /\ tasks' = tasks \cup new
     /\ links' = links \cup
          {l \in new \X byKey :
             \E i \in chosen : Candidates[i].key = l[1].key /\ l[2].key \in Candidates[i].deps}

\* Slip: those already there are added again.
CreateDeadlinesAgain(m, skip) ==
  /\ \A k \in DeadlineOf[m.state] : deadlines[k] < MaxCopies
  /\ deadlines' = [k \in DeadlineKeys |->
                     IF k \in DeadlineOf[m.state] THEN deadlines[k] + 1 ELSE deadlines[k]]
\* _create_state_deadlines: the state's rules, but for those already there.
CreateDeadlines(m, skip) ==
  /\ \A k \in DeadlineOf[m.state] \ skip : deadlines[k] < MaxCopies
  /\ deadlines' = [k \in DeadlineKeys |->
                     IF k \in DeadlineOf[m.state] \ skip THEN deadlines[k] + 1 ELSE deadlines[k]]

\* generate_tasks: everything, whatever is there.
Generate(m) == CreateTasks(GetTemplates(m), {}) /\ CreateDeadlines(m, {})

\* create_matter generates in the same transaction.
CreateMatter ==
  /\ matter.status = "none"
  /\ matter' = [matter EXCEPT !.status = "active"]
  /\ Generate(matter)
  /\ UNCHANGED <<pending, late, excused>>

Closing == \E r \in pending : r.op = "close"
\* Of the tasks a step writes, those that it makes critical and open while a
\* matter is closed, or counted and about to be.
NoteLate ==
  late' = IF matter.status = "closed" \/ Closing
          THEN late \cup {Id(t) : t \in {n \in tasks' \ tasks : n.critical /\ ~n.done}}
          ELSE late

\* POST .../tasks/generate without regenerate: a second set of everything.
GenerateAgain ==
  /\ matter.status # "none"
  /\ Generate(matter)
  /\ NoteLate
  /\ excused' = excused \cup {"copies"}
  /\ UNCHANGED <<matter, pending>>

\* regenerate_tasks reads the keys that exist (for each key one of its tasks) ...
BeginRegenerate ==
  /\ matter.status # "none" /\ Cardinality(pending) < MaxPending
  /\ \E known \in SUBSET {t \in tasks : t.key # Custom} :
       /\ \A k \in Keys : Cardinality({t \in known : t.key = k}) =
                           (IF CopiesOf(k) = 0 THEN 0 ELSE 1)
       /\ pending' = pending \cup
            {[op |-> "regenerate", known |-> known,
              at |-> [state |-> matter.state, flags |-> matter.flags]]}
  /\ excused' = IF \E r \in pending : r.op = "regenerate" THEN excused \cup {"copies"} ELSE excused
  /\ UNCHANGED <<matter, tasks, links, deadlines, late>>

\* ... and adds the templates of the matter it read whose key is not among them.
\* With none to add it returns before it looks at the state's deadlines.
Regenerate(r) ==
  LET missing == {i \in GetTemplates(r.at) :
                    \A t \in r.known : t.key # Candidates[i].key}
  IN /\ r.op = "regenerate"
     /\ pending' = pending \ {r}
     /\ IF missing = {}
        THEN UNCHANGED <<tasks, links, deadlines, late>>
        ELSE /\ CreateTasks(missing, r.known)
             /\ CreateDeadlines(r.at, {k \in DeadlineKeys : deadlines[k] > 0})
             /\ NoteLate
     /\ UNCHANGED <<matter, excused>>

------------------------------------------------------------------------------
(* The matter *)

\* update_matter: status, jurisdiction and settings as sent, unchecked.
UpdateMatter(status, state, flags) ==
  /\ matter.status # "none"
  /\ matter' = [matter EXCEPT !.status = status, !.state = state, !.flags = flags]
  /\ matter' # matter
  /\ excused' = IF status # "closed" THEN excused \ {"patched"}
                ELSE IF matter.status # "closed" THEN excused \cup {"patched"} ELSE excused
  /\ late' = IF status # "closed" /\ ~Closing THEN {} ELSE late
  /\ UNCHANGED <<tasks, links, deadlines, pending>>

\* create_task: a custom task, critical or not, whatever the matter's status.  Its
\* dependencies are TaskLifecycle's; nothing here reads them.
CreateTask(critical) ==
  LET new == [key |-> Custom, copy |-> CopiesOf(Custom) + 1, critical |-> critical, done |-> FALSE]
  IN /\ matter.status # "none"
     /\ new.copy <= MaxCopies /\ Cardinality(tasks) < MaxTasks
     /\ tasks' = tasks \cup {new}
     /\ NoteLate
     /\ UNCHANGED <<matter, links, deadlines, pending, excused>>

\* update_task, complete_task, waive_task: a task changes its priority or is
\* finished.  (It is open again after that only when a PATCH that read it open is
\* committed over its end: see TaskTransactions.)
SetTask(t, critical, done) ==
  LET new == [t EXCEPT !.critical = critical, !.done = done]
      With(u) == IF u = t THEN new ELSE u
  IN /\ new # t
     /\ tasks' = (tasks \ {t}) \cup {new}
     /\ links' = {<<With(l[1]), With(l[2])>> : l \in links}
     /\ pending' = {IF r.op = "regenerate" THEN [r EXCEPT !.known = {With(u) : u \in @}]
                    ELSE r : r \in pending}
     /\ NoteLate
     /\ UNCHANGED <<matter, deadlines, excused>>

\* Slip: the count is not looked at.
BeginCloseAnyway ==
  /\ matter.status \notin {"none", "closed"} /\ Cardinality(pending) < MaxPending
  /\ pending' = pending \cup {[op |-> "close"]}
  /\ late' = {}
  /\ UNCHANGED <<matter, tasks, links, deadlines, excused>>
\* close_matter counts the critical tasks that are not done ...
BeginClose ==
  /\ matter.status \notin {"none", "closed"} /\ Cardinality(pending) < MaxPending
  /\ \A t \in tasks : t.critical => t.done
  /\ pending' = pending \cup {[op |-> "close"]}
  /\ late' = {}
  /\ UNCHANGED <<matter, tasks, links, deadlines, excused>>
\* ... and closes the matter.
Close(r) ==
  /\ r.op = "close"
  /\ pending' = pending \ {r}
  /\ matter' = [matter EXCEPT !.status = "closed"]
  /\ excused' = excused \ {"patched"}
  /\ UNCHANGED <<tasks, links, deadlines, late>>

\* The endpoints, which check the role the one who asks has on the matter.
WriteRoles == {"matter_admin", "professional"}
PostMatter == CreateMatter   \* by any member of the firm; the plan's limit is PlanLimits'
PostGenerate(role, regenerate) ==
  /\ role \in WriteRoles
  /\ \/ regenerate /\ BeginRegenerate
     \/ ~regenerate /\ GenerateAgain
PatchMatter(role, status, state, flags) == role \in WriteRoles /\ UpdateMatter(status, state, flags)
PostClose(role) == role = "matter_admin" /\ BeginClose

Next == \/ PostMatter
        \/ \E role \in {"matter_admin", "professional", "beneficiary"} :
             \/ \E b \in BOOLEAN : PostGenerate(role, b)
             \/ PostClose(role)
             \/ \E status \in {"active", "closed"}, state \in States, flags \in SUBSET Flags :
                  PatchMatter(role, status, state, flags)
        \/ \E r \in pending : Regenerate(r) \/ Close(r)
        \/ \E critical \in BOOLEAN :
             \/ CreateTask(critical)
             \/ \E t \in tasks, done \in BOOLEAN : SetTask(t, critical, done)

Spec == Init /\ [][Next]_vars

------------------------------------------------------------------------------
TypeOK ==
  /\ \A i \in DOMAIN Candidates : Candidates[i] \in Candidate
  /\ matter \in Matter /\ tasks \subseteq Task /\ links \subseteq tasks \X tasks
  /\ deadlines \in [DeadlineKeys -> 0..MaxCopies]
  /\ \A r \in pending : r.op = "regenerate" => r.known \subseteq tasks
  /\ late \subseteq (Keys \cup {Custom}) \X (1..MaxCopies)
  /\ excused \subseteq {"copies", "patched"}

\* Regenerating as often as one likes, after the jurisdiction or the flags
\* changed any number of times, never makes a second task or deadline of one
\* key - unless generation was asked for plainly or two regenerations overlapped.
NoDuplicates ==
  "copies" \notin excused => /\ \A k \in Keys : CopiesOf(k) <= 1
                             /\ \A k \in DeadlineKeys : deadlines[k] <= 1

\* A task added later still waits for the tasks its template names that were
\* there before it: dependencies cross batches.
DependenciesLinked ==
  [][\A t \in tasks' : t.key # Custom /\ (\A o \in tasks : o.key # t.key) /\ "copies" \notin excused' =>
       \A d \in tasks : (\A i \in DOMAIN Candidates :
                           Candidates[i].key = t.key => d.key \in Candidates[i].deps)
                        => <<t, d>> \in links']_vars

\* A matter closed through its own endpoint has no critical task open, but for
\* those created, raised to critical or put back after the count was made.
ClosedMeansDone ==
  matter.status = "closed" /\ "patched" \notin excused =>
    \A t \in tasks : t.critical /\ ~t.done => Id(t) \in late

\* Due dates keep their order: adding months lands in the month counted to, and
\* an earlier reference date never gives a later due date (month ends clamp);
\* said of a matter whose first tasks have just been generated.
Dates == {d \in {2023, 2024} \X {1, 2, 11, 12} \X (27..31) : d[3] <= MonthLength(d[1], d[2])}
NotAfter(a, b) == \/ a[1] < b[1]
                  \/ a[1] = b[1] /\ (a[2] < b[2] \/ (a[2] = b[2] /\ a[3] <= b[3]))
DueDatesOrdered ==
  matter.status = "active" /\ links = {} /\ pending = {} /\ excused = {} =>
   \A d \in Dates, n \in {1, 3, 4, 9, 12, 15} :
    LET e == AddMonths(d, n) IN
    /\ e[2] \in 1..12 /\ e[3] <= MonthLength(e[1], e[2])
    /\ 12 * e[1] + e[2] = 12 * d[1] + d[2] + n
    /\ \A c \in Dates : NotAfter(c, d) => NotAfter(AddMonths(c, n), e)

\* What is generated is there once, and due when it should be.
GenerationSound == NoDuplicates /\ DueDatesOrdered
=============================================================================
