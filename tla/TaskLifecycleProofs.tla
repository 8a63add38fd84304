------------------------ MODULE TaskLifecycleProofs -------------------------
(***************************************************************************)
(* Proofs about TaskLifecycle, for every set of tasks, phases, documents   *)
(* and templates.                                                          *)
(*                                                                         *)
(* TypeOK is inductive on its own.  The other invariants rest on one fact  *)
(* about a step (StatusStep): a terminal status never changes, rows are    *)
(* not deleted, and only create_task writes a task's dependencies.         *)
(* CompletionEvidence is then inductive.  That the dependencies are well   *)
(* founded is not: it needs DependenciesCreated, that nothing depends on a *)
(* task that does not exist yet, so that the row create_task inserts       *)
(* closes no circle.                                                       *)
(***************************************************************************)
EXTENDS TaskLifecycle, TLAPS

\* The state machine leads from an open status to a status, and nowhere from
\* a terminal one; a task is completed and waived from open statuses only.
LEMMA Transitions ==
  ASSUME NEW s \in Status
  PROVE  /\ ValidTransitions[s] \subseteq Status
         /\ s \in TerminalStates => ValidTransitions[s] = {}
  BY DEF ValidTransitions, Status, Open, TerminalStates

\* Every step leaves each variable in its type.
THEOREM TypeCorrect == Spec => []TypeOK
<1>1. Init => TypeOK
  BY PhaseAssumption DEF Init, TypeOK, Status, Entry, Action
<1>2. TypeOK /\ [Next]_vars => TypeOK'
  <2> SUFFICES ASSUME TypeOK, [Next]_vars
               PROVE  TypeOK'
    OBVIOUS
  <2>1. ASSUME NEW r \in Template, CreateTask(r)
        PROVE  TypeOK'
    <3>1. r \in NewTask
      BY TemplateAssumption
    <3>2. QED
      BY <2>1, <3>1 DEF CreateTask, TypeOK, NewTask, Entry, Action, Status, Open
  <2>2. ASSUME NEW t \in Task, NEW s \in Status \union {Unset},
               NEW p \in Phase \union {Unset}, UpdateTask(t, s, p)
        PROVE  TypeOK'
    <3>1. status' \in [Task -> Status \union {"absent"}]
      <4>1. status[t] \in Status
        BY <2>2 DEF UpdateTask, Created, TypeOK
      <4>2. CASE UNCHANGED status
        BY <4>2 DEF TypeOK
      <4>3. CASE s \in ValidTransitions[status[t]] /\ status' = Finished(t, s)
        BY <4>1, <4>3, Transitions DEF Finished, TypeOK
      <4>4. QED
        BY <2>2, <4>2, <4>3 DEF UpdateTask, PatchStatus
    <3>2. trail' \in [Task -> Entry]
      BY <2>2, <3>1 DEF UpdateTask, PatchStatus, Logged, TypeOK, Entry, Action
    <3>3. phase' \in [Task -> Phase]
      BY <2>2 DEF UpdateTask, PatchPhase, TypeOK
    <3>4. QED
      BY <2>2, <3>1, <3>2, <3>3 DEF UpdateTask, TypeOK
  <2>3. ASSUME NEW t \in Task, CompleteTask(t)
        PROVE  TypeOK'
    <3>1. status' \in [Task -> Status \union {"absent"}]
      BY <2>3 DEF CompleteTask, Cascaded, Finished, TypeOK, Status, Open, TerminalStates
    <3>2. trail' \in [Task -> Entry]
      BY <2>3, <3>1 DEF CompleteTask, Logged, TypeOK, Entry, Action, Status, Open
    <3>3. QED
      BY <2>3, <3>1, <3>2 DEF CompleteTask, TypeOK
  <2>4. ASSUME NEW t \in Task, WaiveTask(t)
        PROVE  TypeOK'
    <3>1. status' \in [Task -> Status \union {"absent"}]
      BY <2>4 DEF WaiveTask, Cascaded, Finished, TypeOK, Status, Open, TerminalStates
    <3>2. trail' \in [Task -> Entry]
      BY <2>4, <3>1 DEF WaiveTask, Logged, TypeOK, Entry, Action, Status, Open
    <3>3. QED
      BY <2>4, <3>1, <3>2 DEF WaiveTask, TypeOK
  <2>5. ASSUME NEW t \in Task, NEW doc \in Document, LinkDocument(t, doc)
        PROVE  TypeOK'
    BY <2>5 DEF LinkDocument, TypeOK
  <2>6. ASSUME NEW p \in MilestonePhase, AnnounceMilestone(p)
        PROVE  TypeOK'
    BY <2>6 DEF AnnounceMilestone, TypeOK
  <2>7. CASE UNCHANGED vars
    BY <2>7 DEF vars, TypeOK
  <2>8. QED
    BY <2>1, <2>2, <2>3, <2>4, <2>5, <2>6, <2>7 DEF Next
<1>3. QED
  BY <1>1, <1>2, PTL DEF Spec

\* What a step may do to the status of a task and to its dependencies.
LEMMA StatusStep ==
  ASSUME TypeOK, [Next]_vars
  PROVE  /\ \A t \in Task : Terminal(status, t) => status'[t] = status[t]
         /\ Created \subseteq Created'
         /\ \A t \in Created : deps'[t] = deps[t] /\ needsDoc'[t] = needsDoc[t]
         /\ \A t \in Task : linked[t] \subseteq linked'[t]
  <1> USE DEF TypeOK
  <1>1. ASSUME NEW r \in Template, CreateTask(r)
        PROVE  /\ \A t \in Task : Terminal(status, t) => status'[t] = status[t]
               /\ Created \subseteq Created'
               /\ \A t \in Created : deps'[t] = deps[t] /\ needsDoc'[t] = needsDoc[t]
               /\ \A t \in Task : linked[t] \subseteq linked'[t]
    <2>1. r \in NewTask
      BY TemplateAssumption
    <2>2. QED
      BY <1>1, <2>1 DEF CreateTask, Created, NewTask, Terminal, TerminalStates
  <1>2. ASSUME NEW t \in Task, NEW s \in Status \union {Unset},
               NEW p \in Phase \union {Unset}, UpdateTask(t, s, p)
        PROVE  /\ \A u \in Task : Terminal(status, u) => status'[u] = status[u]
               /\ Created \subseteq Created'
               /\ UNCHANGED <<deps, needsDoc, linked>>
    <2>1. status[t] \in Status
      BY <1>2 DEF UpdateTask, Created
    <2>2. "absent" \notin Status
      BY DEF Status, Open, TerminalStates
    <2>3. CASE UNCHANGED status
      BY <1>2, <2>3 DEF UpdateTask, Created, Terminal
    <2>4. CASE s \in ValidTransitions[status[t]] /\ status' = Finished(t, s)
      <3>1. s \in Status /\ status[t] \notin TerminalStates
        BY <2>1, <2>4, Transitions
      <3>2. QED
        BY <1>2, <2>2, <2>4, <3>1 DEF UpdateTask, Finished, Created, Terminal
    <2>5. QED
      BY <1>2, <2>3, <2>4 DEF UpdateTask, PatchStatus
  <1>3. ASSUME NEW t \in Task, NEW s \in {"complete", "waived"}, t \in Created,
               s \in ValidTransitions[status[t]],
               status' = Cascaded(Finished(t, s), ReadyDependents(Finished(t, s), t))
        PROVE  /\ \A u \in Task : Terminal(status, u) => status'[u] = status[u]
               /\ Created \subseteq Created'
    <2>1. status[t] \in Status /\ status[t] \notin TerminalStates
      BY <1>3, Transitions DEF Created
    <2>2. QED
      BY <1>3, <2>1 DEF Cascaded, Finished, ReadyDependents, Terminal, TerminalStates, Created
  <1>4. ASSUME NEW t \in Task, CompleteTask(t)
        PROVE  /\ \A u \in Task : Terminal(status, u) => status'[u] = status[u]
               /\ Created \subseteq Created'
               /\ UNCHANGED <<deps, needsDoc, linked>>
    BY <1>3, <1>4 DEF CompleteTask
  <1>5. ASSUME NEW t \in Task, WaiveTask(t)
        PROVE  /\ \A u \in Task : Terminal(status, u) => status'[u] = status[u]
               /\ Created \subseteq Created'
               /\ UNCHANGED <<deps, needsDoc, linked>>
    BY <1>3, <1>5 DEF WaiveTask
  <1>6. ASSUME NEW t \in Task, NEW doc \in Document, LinkDocument(t, doc)
        PROVE  /\ UNCHANGED <<status, deps, needsDoc>>
               /\ \A u \in Task : linked[u] \subseteq linked'[u]
    BY <1>6 DEF LinkDocument
  <1>7. ASSUME NEW p \in MilestonePhase, AnnounceMilestone(p)
        PROVE  UNCHANGED <<status, deps, needsDoc, linked>>
    BY <1>7 DEF AnnounceMilestone
  <1>8. CASE UNCHANGED vars
    BY <1>8 DEF vars, Created, Terminal
  <1>9. QED
    BY <1>1, <1>2, <1>4, <1>5, <1>6, <1>7, <1>8 DEF Next, Created, Terminal

\* No handler takes a task out of complete, waived or cancelled.
THEOREM TerminalStaysTerminal == Spec => TerminalIsFinal
<1>1. TypeOK /\ [Next]_vars => [\A t \in Task : Terminal(status, t) => status'[t] = status[t]]_vars
  BY StatusStep
<1>2. QED
  BY <1>1, TypeCorrect, PTL DEF Spec, TerminalIsFinal

------------------------------------------------------------------------------
\* What complete_task checked when it set completed_at holds ever after.
THEOREM CompletionStaysJustified == Spec => []CompletionEvidence
<1>1. Init => CompletionEvidence
  BY DEF Init, CompletionEvidence
<1>2. TypeOK /\ CompletionEvidence /\ [Next]_vars => CompletionEvidence'
  <2> SUFFICES ASSUME TypeOK, CompletionEvidence, [Next]_vars,
                      NEW t \in Task, completedAt'[t]
               PROVE  /\ status'[t] = "complete"
                      /\ DependenciesMet(t)'
                      /\ DocumentRequirementMet(t)'
    BY DEF CompletionEvidence, DependenciesMet, DocumentRequirementMet
  <2>1. CASE completedAt[t]
    <3>1. status[t] = "complete" /\ DependenciesMet(t) /\ DocumentRequirementMet(t)
      BY <2>1 DEF CompletionEvidence, DependenciesMet, DocumentRequirementMet
    <3>2. status'[t] = "complete"
      BY <3>1, StatusStep DEF Terminal, TerminalStates
    <3>3. deps'[t] = deps[t] /\ needsDoc'[t] = needsDoc[t] /\ linked[t] \subseteq linked'[t]
      BY <3>1, StatusStep DEF Created
    <3>4. deps[t] \subseteq Task
      BY DEF TypeOK
    <3>5. DependenciesMet(t)'
      BY <3>1, <3>3, <3>4, StatusStep DEF DependenciesMet, AllTerminal, Terminal
    <3>6. QED
      BY <3>1, <3>2, <3>3, <3>5 DEF DocumentRequirementMet
  <2>2. CASE ~completedAt[t]
    <3>1. CompleteTask(t)
      BY <2>2 DEF Next, vars, CreateTask, UpdateTask, CompleteTask, WaiveTask,
                  LinkDocument, AnnounceMilestone, TypeOK
    <3>2. deps'[t] = deps[t] /\ deps[t] \subseteq Task
      BY <3>1 DEF CompleteTask, TypeOK
    <3>3. status'[t] = "complete"
      BY <3>1 DEF CompleteTask, Cascaded, Finished, ReadyDependents, TypeOK
    <3>4. DependenciesMet(t)'
      BY <3>1, <3>2, StatusStep DEF CompleteTask, DependenciesMet, AllTerminal, Terminal
    <3>5. QED
      BY <3>1, <3>3, <3>4 DEF CompleteTask, DocumentRequirementMet
  <2>3. QED
    BY <2>1, <2>2
<1>3. QED
  BY <1>1, <1>2, TypeCorrect, PTL DEF Spec

------------------------------------------------------------------------------
\* Whatever a task depends on is in the table: create_task checked it, and no
\* operation deletes a task.
DependenciesCreated == \A t \in Task : deps[t] \subseteq Created

GraphInv == DependenciesCreated /\ DependenciesWellFounded

\* The task graph of a matter is well founded, however it grows.
LEMMA GraphInvariance == Spec => []GraphInv
<1>1. Init => GraphInv
  BY DEF Init, GraphInv, DependenciesCreated, DependenciesWellFounded, Created
<1>2. TypeOK /\ GraphInv /\ [Next]_vars => GraphInv'
  <2> SUFFICES ASSUME TypeOK, GraphInv, [Next]_vars
               PROVE  GraphInv'
    OBVIOUS
  <2> USE DEF GraphInv, DependenciesCreated
  <2>1. ASSUME NEW r \in Template, CreateTask(r)
        PROVE  GraphInv'
    <3>1. /\ r \in NewTask /\ r.id \in Task /\ r.id \notin Created
          /\ r.deps \subseteq Created
      BY <2>1, TemplateAssumption DEF CreateTask, DependenciesExist, NewTask
    <3>2. Created' = Created \union {r.id}
      BY <2>1, <3>1 DEF CreateTask, Created, TypeOK
    <3>3. deps' = [deps EXCEPT ![r.id] = r.deps]
      BY <2>1 DEF CreateTask
    <3>4. DependenciesCreated'
      BY <3>1, <3>2, <3>3 DEF TypeOK
    <3>5. ASSUME NEW S \in SUBSET Created', S # {}
          PROVE  \E t \in S : deps'[t] \intersect S = {}
      <4>1. CASE S \ {r.id} = {}
        BY <3>1, <3>3, <3>5, <4>1 DEF TypeOK
      <4>2. CASE S \ {r.id} # {}
        <5>1. S \ {r.id} \in SUBSET Created
          BY <3>2
        <5>2. PICK t \in S \ {r.id} : deps[t] \intersect (S \ {r.id}) = {}
          BY <4>2, <5>1 DEF DependenciesWellFounded
        <5>3. t \in Task /\ deps'[t] = deps[t] /\ r.id \notin deps[t]
          BY <3>1, <3>3, <5>1, <5>2 DEF TypeOK, Created
        <5>4. QED
          BY <5>2, <5>3
      <4>3. QED
        BY <4>1, <4>2
    <3>6. QED
      BY <3>4, <3>5 DEF DependenciesWellFounded
  <2>2. CASE UNCHANGED deps /\ Created' = Created
    BY <2>2 DEF DependenciesWellFounded
  <2>3. ASSUME NEW t \in Task, NEW s \in Status \union {Unset},
               NEW p \in Phase \union {Unset}, UpdateTask(t, s, p)
        PROVE  UNCHANGED deps /\ Created' = Created
    <3>1. CASE UNCHANGED status
      BY <2>3, <3>1 DEF UpdateTask, Created
    <3>2. CASE s \in ValidTransitions[status[t]] /\ status' = Finished(t, s)
      <4>1. t \in Created /\ status[t] \in Status
        BY <2>3 DEF UpdateTask, Created, TypeOK
      <4>2. s \in Status /\ "absent" \notin Status
        BY <3>2, <4>1, Transitions DEF Status, Open, TerminalStates
      <4>3. QED
        BY <2>3, <3>2, <4>1, <4>2 DEF UpdateTask, Finished, Created, TypeOK
    <3>3. QED
      BY <2>3, <3>1, <3>2 DEF UpdateTask, PatchStatus
  <2>4. ASSUME NEW t \in Task, CompleteTask(t) \/ WaiveTask(t)
        PROVE  UNCHANGED deps /\ Created' = Created
    BY <2>4 DEF CompleteTask, WaiveTask, Cascaded, Finished, ReadyDependents, Created, TypeOK
  <2>5. ASSUME NEW t \in Task, NEW doc \in Document, LinkDocument(t, doc)
        PROVE  UNCHANGED deps /\ Created' = Created
    BY <2>5 DEF LinkDocument, Created
  <2>6. ASSUME NEW p \in MilestonePhase, AnnounceMilestone(p)
        PROVE  UNCHANGED deps /\ Created' = Created
    BY <2>6 DEF AnnounceMilestone, Created
  <2>7. CASE UNCHANGED vars
    BY <2>2, <2>7 DEF vars, Created
  <2>8. QED
    BY <2>1, <2>2, <2>3, <2>4, <2>5, <2>6, <2>7 DEF Next
<1>3. QED
  BY <1>1, <1>2, TypeCorrect, PTL DEF Spec

\* The task graph of a matter is well founded, however it grows.
THEOREM DependenciesStayWellFounded == Spec => []DependenciesWellFounded
<1>1. GraphInv => DependenciesWellFounded
  BY DEF GraphInv
<1>2. QED
  BY <1>1, GraphInvariance, PTL

\* Some open task always has only finished dependencies.
THEOREM SomeTaskCanProceed == Spec => []NoDeadEnd
<1>1. TypeOK /\ GraphInv => NoDeadEnd
  <2> SUFFICES ASSUME TypeOK, GraphInv, \E t \in Created : status[t] \in Open
               PROVE  \E t \in Created : status[t] \in Open /\ DependenciesMet(t)
    BY DEF NoDeadEnd
  <2> DEFINE Unfinished == {t \in Created : status[t] \in Open}
  <2>1. PICK t \in Unfinished : deps[t] \intersect Unfinished = {}
    BY DEF GraphInv, DependenciesWellFounded
  <2>2. deps[t] \subseteq Created \ Unfinished
    BY <2>1 DEF GraphInv, DependenciesCreated, Created
  <2>3. \A d \in Created \ Unfinished : Terminal(status, d)
    BY DEF Created, TypeOK, Status, Terminal
  <2>4. QED
    BY <2>1, <2>2, <2>3 DEF DependenciesMet, AllTerminal
<1>2. QED
  BY <1>1, TypeCorrect, GraphInvariance, PTL

------------------------------------------------------------------------------
\* The trail of a task records every change of its status, and the cascade of
\* a completed or waived task unblocks all it should and nothing else.
LEMMA TrailStep ==
  ASSUME TypeOK, [Next]_vars
  PROVE  /\ \A t \in Task : status'[t] # status[t] =>
               trail'[t].old = status[t] /\ trail'[t].new = status'[t]
         /\ \A t \in Task : (trail'[t] # trail[t] /\ trail'[t].action \in {"completed", "waived"}) =>
               ~\E d \in Dependents(t) : status'[d] = "blocked" /\ AllTerminal(status', deps[d])
         /\ \A d \in Task : (trail'[d] # trail[d] /\ trail'[d].action = "unblocked") =>
               /\ AllTerminal(status', deps[d])
               /\ \E t \in deps[d] : ~Terminal(status, t)
  <1> DEFINE
       LoggedOK == \A t \in Task : status'[t] # status[t] =>
                      trail'[t].old = status[t] /\ trail'[t].new = status'[t]
       NoneBehind == \A t \in Task :
                      (trail'[t] # trail[t] /\ trail'[t].action \in {"completed", "waived"}) =>
                        ~\E d \in Dependents(t) : status'[d] = "blocked" /\ AllTerminal(status', deps[d])
       LastEnded == \A d \in Task : (trail'[d] # trail[d] /\ trail'[d].action = "unblocked") =>
                        /\ AllTerminal(status', deps[d])
                        /\ \E t \in deps[d] : ~Terminal(status, t)
  <1> USE DEF TypeOK
  <1>1. ASSUME NEW r \in Template, CreateTask(r)
        PROVE  LoggedOK /\ NoneBehind /\ LastEnded
    <2>1. r \in NewTask /\ r.id \in Task /\ status[r.id] = "absent"
      BY <1>1, TemplateAssumption DEF CreateTask, NewTask, Created
    <2>2. QED
      BY <1>1, <2>1 DEF CreateTask
  <1>2. ASSUME NEW t \in Task, NEW s \in Status \union {Unset},
               NEW p \in Phase \union {Unset}, UpdateTask(t, s, p)
        PROVE  LoggedOK /\ NoneBehind /\ LastEnded
    BY <1>2 DEF UpdateTask, PatchStatus, Finished, Logged
  <1>3. ASSUME NEW t \in Task, NEW s \in {"complete", "waived"},
               NEW a \in {"completed", "waived"}, t \in Created,
               s \in ValidTransitions[status[t]],
               status' = Cascaded(Finished(t, s), ReadyDependents(Finished(t, s), t)),
               trail' = Logged(t, a, status', ReadyDependents(Finished(t, s), t))
        PROVE  LoggedOK /\ NoneBehind /\ LastEnded
    <2> DEFINE st == Finished(t, s)
               ready == ReadyDependents(st, t)
    <2>1. /\ status[t] \in Status /\ status[t] \notin TerminalStates
          /\ st \in [Task -> Status \union {"absent"}] /\ st[t] = s /\ s \in TerminalStates
      BY <1>3, Transitions DEF Created, Finished, Status, Open, TerminalStates
    <2>2. t \notin ready /\ ready \subseteq Task
      BY <2>1 DEF ReadyDependents, Dependents, TerminalStates
    <2>3. \A d \in ready : status[d] = "blocked" /\ st[d] = "blocked" /\ status'[d] = "not_started"
      BY <1>3, <2>1, <2>2 DEF ReadyDependents, Cascaded, Finished
    <2>4. \A d \in Task \ ready : status'[d] = st[d]
      BY <1>3 DEF Cascaded
    <2>5. LoggedOK
      BY <1>3, <2>1, <2>2, <2>3, <2>4 DEF Logged, Finished
    <2>6. \A d \in Task : Terminal(st, d) <=> Terminal(status', d)
      BY <2>3, <2>4 DEF Terminal, TerminalStates
    <2>7. ~\E d \in Dependents(t) : status'[d] = "blocked" /\ AllTerminal(status', deps[d])
      BY <2>3, <2>4, <2>6 DEF ReadyDependents, AllTerminal, Dependents
    <2>8. \A d \in Task : trail'[d] # trail[d] => d = t \/ d \in ready
      BY <1>3 DEF Logged
    <2>9. NoneBehind
      BY <1>3, <2>2, <2>7, <2>8 DEF Logged
    <2>10. LastEnded
      <3> SUFFICES ASSUME NEW d \in Task, trail'[d] # trail[d], trail'[d].action = "unblocked"
                   PROVE  /\ AllTerminal(status', deps[d])
                          /\ \E u \in deps[d] : ~Terminal(status, u)
        OBVIOUS
      <3>1. d \in ready
        BY <1>3, <2>8 DEF Logged
      <3>2. t \in deps[d] /\ ~Terminal(status, t)
        BY <2>1, <3>1 DEF ReadyDependents, Dependents, Terminal
      <3>3. AllTerminal(status', deps[d])
        BY <2>6, <3>1 DEF ReadyDependents, AllTerminal
      <3>4. QED
        BY <3>2, <3>3
    <2>11. QED
      BY <2>5, <2>9, <2>10
  <1>4. ASSUME NEW t \in Task, CompleteTask(t)
        PROVE  LoggedOK /\ NoneBehind /\ LastEnded
    BY <1>3, <1>4 DEF CompleteTask
  <1>5. ASSUME NEW t \in Task, WaiveTask(t)
        PROVE  LoggedOK /\ NoneBehind /\ LastEnded
    BY <1>3, <1>5 DEF WaiveTask
  <1>6. CASE UNCHANGED <<status, trail>>
    BY <1>6
  <1>7. QED
    BY <1>1, <1>2, <1>4, <1>5, <1>6 DEF Next, LinkDocument, AnnounceMilestone, vars

\* Replaying a task's events gives its status.
THEOREM TrailIsExact == Spec => EveryTransitionLogged
<1>1. TypeOK /\ [Next]_vars =>
        [\A t \in Task : status'[t] # status[t] =>
            /\ trail'[t].old = status[t]
            /\ trail'[t].new = status'[t]]_vars
  BY TrailStep
<1>2. QED
  BY <1>1, TypeCorrect, PTL DEF Spec, EveryTransitionLogged

\* After a completion or a waiver no dependent stays blocked for nothing.
THEOREM CascadeIsComplete == Spec => CascadeLeavesNoneBehind
<1>1. TypeOK /\ [Next]_vars =>
        [\A t \in Task : (trail'[t] # trail[t] /\ trail'[t].action \in {"completed", "waived"}) =>
            ~\E d \in Dependents(t) : status'[d] = "blocked" /\ AllTerminal(status', deps[d])]_vars
  BY TrailStep
<1>2. QED
  BY <1>1, TypeCorrect, PTL DEF Spec, CascadeLeavesNoneBehind

\* The system unblocks a task when its last dependency ends, not earlier.
THEOREM CascadeIsSound == Spec => UnblockedByLastDependency
<1>1. TypeOK /\ [Next]_vars =>
        [\A d \in Task : (trail'[d] # trail[d] /\ trail'[d].action = "unblocked") =>
            /\ AllTerminal(status', deps[d])
            /\ \E t \in deps[d] : ~Terminal(status, t)]_vars
  BY TrailStep
<1>2. QED
  BY <1>1, TypeCorrect, PTL DEF Spec, UnblockedByLastDependency

=============================================================================
