---------------------------- MODULE TaskLifecycle ----------------------------
(***************************************************************************)
(* The task state machine of a matter, one transaction at a time.          *)
(*                                                                         *)
(* backend/app/services/task_service.py creates, patches, completes and    *)
(* waives the tasks of a matter and links documents to them; completing or *)
(* waiving a task unblocks its dependents, and completing one looks for a  *)
(* milestone of its phase (milestone_service.py).  Every handler runs in   *)
(* the database transaction of its request (core/dependencies.py, get_db): *)
(* an exception anywhere rolls all of it back.  Here a request is one      *)
(* step, so this is what the handlers promise when they do not overlap.    *)
(* TaskTransactions interleaves them and refines this module when a single *)
(* client is served at a time.                                             *)
(*                                                                         *)
(* Of a task's columns the status, the phase, requires_document and        *)
(* completed_at are kept; title, priority, assignee and dates are not.     *)
(* The events table is reduced to `trail`: the last row that records a     *)
(* change of the task's status.                                            *)
(***************************************************************************)
EXTENDS FiniteSets

CONSTANTS
  Task,            \* task ids (UUIDs)
  Phase,           \* values of TaskPhase
  MilestonePhase,  \* the phases MILESTONE_DEFINITIONS names
  Document,        \* documents of the matter
  Template         \* the rows CreateTask may insert: bounds the inputs

NewTask == [id: Task, deps: SUBSET Task, phase: Phase, needsDoc: BOOLEAN]

ASSUME PhaseAssumption == Phase # {} /\ MilestonePhase \subseteq Phase
ASSUME TemplateAssumption == Template \subseteq NewTask

Open == {"not_started", "in_progress", "blocked"}
TerminalStates == {"complete", "waived", "cancelled"}
Status == Open \union TerminalStates

\* variant: a completed task may be reopened
WithReopen ==
  [not_started |-> {"in_progress", "blocked", "waived", "cancelled"},
   in_progress |-> {"complete", "blocked", "waived", "cancelled"},
   blocked     |-> {"not_started", "in_progress", "waived", "cancelled"},
   complete    |-> {"in_progress"},
   waived      |-> {},
   cancelled   |-> {}]

ValidTransitions ==
  [not_started |-> {"in_progress", "blocked", "waived", "cancelled"},
   in_progress |-> {"complete", "blocked", "waived", "cancelled"},
   blocked     |-> {"not_started", "in_progress", "waived", "cancelled"},
   complete    |-> {},
   waived      |-> {},
   cancelled   |-> {}]

Unset == "unset"    \* a field the PATCH body leaves out

VARIABLES
  status,       \* tasks.status, "absent" while the row does not exist
  deps,         \* task_dependencies: the tasks a task depends on
  phase,        \* tasks.phase
  needsDoc,     \* tasks.requires_document
  linked,       \* task_documents
  completedAt,  \* whether tasks.completed_at is set
  announced,    \* the phases whose milestone_notification row exists
  trail         \* the last events row about the task's status

vars == <<status, deps, phase, needsDoc, linked, completedAt, announced, trail>>

Action == {"none", "created", "updated", "completed", "waived", "unblocked"}
Entry == [action: Action, old: Status \union {"absent"}, new: Status \union {"absent"}]

Created == {t \in Task : status[t] # "absent"}

Dependents(t) == {d \in Task : t \in deps[d]}

\* A terminal status ends a task (TERMINAL_STATES).
Terminal(st, t) == st[t] \in TerminalStates

AllTerminal(st, S) == \A t \in S : Terminal(st, t)

------------------------------------------------------------------------------
(***************************************************************************)
(* The checks of complete_task, in the order the code makes them.          *)
(***************************************************************************)
DocumentRequirementIgnored(t) == TRUE    \* variant: the check is skipped

DocumentRequirementMet(t) == needsDoc[t] => linked[t] # {}

DependenciesMet(t) == AllTerminal(status, deps[t])

(***************************************************************************)
(* _unblock_dependents after t's own row has been written: a dependent     *)
(* that is blocked and whose dependencies are all terminal by now.         *)
(***************************************************************************)
\* variant: the other dependencies are not counted
AnyBlockedDependent(st, t) == {d \in Dependents(t) : st[d] = "blocked"}

\* variant: they are counted before t's own row has been flushed
CountedBeforeFlush(st, t) ==
  {d \in Dependents(t) : st[d] = "blocked" /\ AllTerminal(status, deps[d])}

ReadyDependents(st, t) ==
  {d \in Dependents(t) : st[d] = "blocked" /\ AllTerminal(st, deps[d])}

(***************************************************************************)
(* The status column and the events a completed or waived task leaves.     *)
(***************************************************************************)
Finished(t, s) == [status EXCEPT ![t] = s]

Cascaded(st, ready) == [d \in Task |-> IF d \in ready THEN "not_started" ELSE st[d]]

\* variant: the cascade writes no events
UnloggedCascade(t, action, st, ready) ==
  [trail EXCEPT ![t] = [action |-> action, old |-> status[t], new |-> st[t]]]

Logged(t, action, st, ready) ==
  [d \in Task |->
     IF d = t THEN [action |-> action, old |-> status[t], new |-> st[t]]
     ELSE IF d \in ready THEN [action |-> "unblocked", old |-> "blocked", new |-> "not_started"]
     ELSE trail[d]]

(***************************************************************************)
(* check_phase_milestone: every task of the phase is terminal, and no      *)
(* notification with the milestone's subject exists.  fire_milestone_      *)
(* notification then inserts a communication whose sender_id is the acting *)
(* user's id, which is not the id of a stakeholder as the foreign key of   *)
(* models/communications.py demands: the flush fails, complete_task        *)
(* swallows the exception, and the request's commit fails on the broken    *)
(* session.  A completion that achieves a milestone is rolled back.        *)
(***************************************************************************)
MilestoneAchieved(st, p) ==
  /\ p \in MilestonePhase \ announced
  /\ \A t \in Created : phase[t] = p => Terminal(st, t)

------------------------------------------------------------------------------
Init ==
  /\ status = [t \in Task |-> "absent"]
  /\ deps = [t \in Task |-> {}]
  /\ phase = [t \in Task |-> CHOOSE p \in Phase : TRUE]
  /\ needsDoc = [t \in Task |-> FALSE]
  /\ linked = [t \in Task |-> {}]
  /\ completedAt = [t \in Task |-> FALSE]
  /\ announced = {}
  /\ trail = [t \in Task |-> [action |-> "none", old |-> "absent", new |-> "absent"]]

\* variant: the dependencies are looked up after the row has been inserted
LookedUpAfterInsert(r) == r.deps \subseteq Created \union {r.id}

\* create_task: the dependencies are looked up before the row is inserted.
DependenciesExist(r) == r.deps \subseteq Created

CreateTask(r) ==
  /\ r.id \notin Created
  /\ DependenciesExist(r)
  /\ status' = [status EXCEPT ![r.id] = "not_started"]
  /\ deps' = [deps EXCEPT ![r.id] = r.deps]
  /\ phase' = [phase EXCEPT ![r.id] = r.phase]
  /\ needsDoc' = [needsDoc EXCEPT ![r.id] = r.needsDoc]
  /\ trail' = [trail EXCEPT ![r.id] =
                 [action |-> "created", old |-> "absent", new |-> "not_started"]]
  /\ UNCHANGED <<linked, completedAt, announced>>

\* update_task (PATCH): the fields that are set and differ.  A status is
\* checked against the state machine only; nothing is cascaded.
PatchStatus(t, s) ==
  \/ s = Unset /\ UNCHANGED <<status, trail>>
  \/ /\ s \in ValidTransitions[status[t]]
     /\ status' = Finished(t, s)
     /\ trail' = Logged(t, "updated", status', {})

\* variant: a null in the body is written
NullPhaseWritten(t, p) == phase' = [phase EXCEPT ![t] = p]

PatchPhase(t, p) ==
  \/ p = Unset /\ UNCHANGED phase
  \/ p \in Phase /\ phase' = [phase EXCEPT ![t] = p]

UpdateTask(t, s, p) ==
  /\ t \in Created
  /\ PatchStatus(t, s)
  /\ PatchPhase(t, p)
  /\ UNCHANGED <<deps, needsDoc, linked, completedAt, announced>>

CompleteTask(t) ==
  /\ t \in Created
  /\ "complete" \in ValidTransitions[status[t]]
  /\ DocumentRequirementMet(t)
  /\ DependenciesMet(t)
  /\ LET ready == ReadyDependents(Finished(t, "complete"), t)
     IN  /\ status' = Cascaded(Finished(t, "complete"), ready)
         /\ trail' = Logged(t, "completed", status', ready)
  /\ completedAt' = [completedAt EXCEPT ![t] = TRUE]
  /\ ~MilestoneAchieved(status', phase[t])
  /\ UNCHANGED <<deps, phase, needsDoc, linked, announced>>

WaiveTask(t) ==
  /\ t \in Created
  /\ "waived" \in ValidTransitions[status[t]]
  /\ LET ready == ReadyDependents(Finished(t, "waived"), t)
     IN  /\ status' = Cascaded(Finished(t, "waived"), ready)
         /\ trail' = Logged(t, "waived", status', ready)
  /\ UNCHANGED <<deps, phase, needsDoc, linked, completedAt, announced>>

LinkDocument(t, doc) ==
  /\ t \in Created
  /\ doc \notin linked[t]
  /\ linked' = [linked EXCEPT ![t] = @ \union {doc}]
  /\ UNCHANGED <<status, deps, phase, needsDoc, completedAt, announced, trail>>

\* POST /communications with the type and the subject of a milestone.
AnnounceMilestone(p) ==
  /\ announced' = announced \union {p}
  /\ UNCHANGED <<status, deps, phase, needsDoc, linked, completedAt, trail>>

Next ==
  \/ \E r \in Template : CreateTask(r)
  \/ \E t \in Task, s \in Status \union {Unset}, p \in Phase \union {Unset} : UpdateTask(t, s, p)
  \/ \E t \in Task : CompleteTask(t)
  \/ \E t \in Task : WaiveTask(t)
  \/ \E t \in Task, doc \in Document : LinkDocument(t, doc)
  \/ \E p \in MilestonePhase : AnnounceMilestone(p)

Spec == Init /\ [][Next]_vars

------------------------------------------------------------------------------
TypeOK ==
  /\ status \in [Task -> Status \union {"absent"}]
  /\ deps \in [Task -> SUBSET Task]
  /\ phase \in [Task -> Phase]
  /\ needsDoc \in [Task -> BOOLEAN]
  /\ linked \in [Task -> SUBSET Document]
  /\ completedAt \in [Task -> BOOLEAN]
  /\ announced \in SUBSET MilestonePhase
  /\ trail \in [Task -> Entry]

\* A matter's tasks never wait for each other in a circle: among any of them
\* one depends on none of the others.  task_dependencies only rules out a
\* task that depends on itself; create_task must do the rest.
DependenciesWellFounded ==
  \A S \in SUBSET Created : S # {} => \E t \in S : deps[t] \intersect S = {}

\* While a matter has open tasks, one of them has only finished dependencies:
\* the preconditions of complete_task never lock all of them up.
NoDeadEnd ==
  (\E t \in Created : status[t] \in Open) =>
     \E t \in Created : status[t] \in Open /\ DependenciesMet(t)

\* What the checks of complete_task established when it set completed_at
\* stays true: the task is complete, its dependencies are terminal and the
\* document it requires is linked.
CompletionEvidence ==
  \A t \in Task : completedAt[t] =>
     /\ status[t] = "complete"
     /\ AllTerminal(status, deps[t])
     /\ needsDoc[t] => linked[t] # {}

\* A step that takes a task out of a terminal status would let a completed
\* dependency reopen under the tasks that were completed because of it.
TerminalIsFinal ==
  [][\A t \in Task : Terminal(status, t) => status'[t] = status[t]]_vars

\* Replaying the events of a task gives its status: whatever changes the
\* status, the task's own request or the cascade of another one, appends a
\* row that names the old and the new value.
EveryTransitionLogged ==
  [][\A t \in Task : status'[t] # status[t] =>
        /\ trail'[t].old = status[t]
        /\ trail'[t].new = status'[t]]_vars

\* The system unblocks a task only when the last of its dependencies ends.
UnblockedByLastDependency ==
  [][\A d \in Task : (trail'[d] # trail[d] /\ trail'[d].action = "unblocked") =>
        /\ AllTerminal(status', deps[d])
        /\ \E t \in deps[d] : ~Terminal(status, t)]_vars

\* After /complete or /waive no dependent of the task stays blocked with all
\* its dependencies terminal: nothing else would ever unblock it.
CascadeLeavesNoneBehind ==
  [][\A t \in Task : (trail'[t] # trail[t] /\ trail'[t].action \in {"completed", "waived"}) =>
        ~\E d \in Dependents(t) : status'[d] = "blocked" /\ AllTerminal(status', deps[d])]_vars

------------------------------------------------------------------------------
(***************************************************************************)
(* What the documentation says and the code does not keep.                 *)
(***************************************************************************)
\* The design document: the complete transition requires every dependency to
\* be terminal and a required document to be linked.
CompleteEnforcesPreconditions ==
  \A t \in Created : status[t] = "complete" => DependenciesMet(t) /\ DocumentRequirementMet(t)

\* The design document names the preconditions of complete: an in_progress
\* task that meets them can be completed.
PreconditionsSuffice ==
  \A t \in Created :
     (status[t] = "in_progress" /\ DependenciesMet(t) /\ DocumentRequirementMet(t))
        => ENABLED CompleteTask(t)

=============================================================================
