-------------------------- MODULE AroundMatterProofs --------------------------
(***************************************************************************)
(* Proofs about AroundMatter, for any assets, people, documents, links,    *)
(* templates, messages and number of requests in flight: first of each     *)
(* component, then of the composition, whose behaviours are, seen through  *)
(* the variables of one component, behaviours of that component.           *)
(*                                                                         *)
(* Every handler decides on what it read before, and each invariant says   *)
(* what that is worth when it writes.  BookInv: the row a request read     *)
(* stands until another that read it writes (ReadsStand).  MatterInv: as   *)
(* long as nothing excuses it a regeneration in flight is alone and knows  *)
(* every generated task, each the only one of its key (KnowsAll), and      *)
(* what is critical and open while a close is in flight was created,       *)
(* raised or put back since it counted (CountHolds).  IntakeInv: a         *)
(* document whose insert is open has its job already, unless the upload    *)
(* caught the refusal of the queue (Watching), a worker that asks about a  *)
(* document has seen it committed, and what it saw it be stays typed       *)
(* (JobsReading), and inserts that are open are of new documents, each     *)
(* through a link that is still pending (InsertsAreNew, LinksSpent).       *)
(* TimeInv: what a summary and an export read so far is what the entries   *)
(* still give, until one is committed (ReadSoFar), and entries are told    *)
(* apart by their ids (Numbered).  NoticeInv: whoever is taken off a       *)
(* task's list has an e-mail queued (ToldServed), and of a message nothing *)
(* was repeated of who is on the list has none yet (SentOnce).             *)
(***************************************************************************)
EXTENDS AroundMatter, FiniteSetTheorems, SequenceTheorems, TLAPS

------------------------------------------------------------------------------
(***************************************************************************)
(* The matter and its generated tasks.                                     *)
(***************************************************************************)
Read == [state: States, flags: SUBSET Flags]
Pending == [op: {"close"}] \cup [op: {"regenerate"}, known: SUBSET tasks, at: Read]
Generated == {t \in tasks : t.key # Custom}
Regenerations == {r \in pending : r.op = "regenerate"}

Shapes == /\ matter \in Matter /\ tasks \subseteq Task /\ IsFiniteSet(tasks)
          /\ links \subseteq tasks \X tasks /\ deadlines \in [DeadlineKeys -> 0..MaxCopies]
          /\ pending \subseteq Pending /\ late \subseteq (Keys \cup {Custom}) \X (1..MaxCopies)
          /\ excused \subseteq {"copies", "patched"}

\* Nothing is there before the matter is.
Fresh == matter.status = "none" =>
           tasks = {} /\ pending = {} /\ \A k \in DeadlineKeys : deadlines[k] = 0

CountHolds == Closing \/ (matter.status = "closed" /\ "patched" \notin excused) =>
                \A t \in tasks : t.critical /\ ~t.done => Id(t) \in late

KnowsAll == "copies" \notin excused =>
              /\ \A t, u \in Generated : t.key = u.key => t = u
              /\ \A k \in DeadlineKeys : deadlines[k] <= 1
              /\ \A r \in Regenerations : r.known = Generated
              /\ \A r, q \in Regenerations : r = q

MatterInv == Shapes /\ Fresh /\ CountHolds /\ KnowsAll

LEMMA PendingOps ==
  ASSUME Shapes, NEW r \in pending
  PROVE  /\ r.op \in {"close", "regenerate"}
         /\ r.op = "close" => r = [op |-> "close"]
         /\ r.op = "regenerate" => r.known \in SUBSET tasks /\ r.at \in Read
BY DEF Shapes, Pending

LEMMA InvImplies == ASSUME MatterAssumption, MatterInv PROVE TypeOK /\ ClosedMeansDone /\ NoDuplicates
<1>1. TypeOK BY PendingOps DEF MatterInv, Shapes, TypeOK, MatterAssumption
<1>2. ClosedMeansDone BY DEF MatterInv, CountHolds, ClosedMeansDone
<1>3. ASSUME "copies" \notin excused, NEW k \in Keys PROVE CopiesOf(k) <= 1
  <2> DEFINE same == {t \in tasks : t.key = k}
  <2>1. CASE same = {} BY <2>1, FS_EmptySet DEF CopiesOf
  <2>2. CASE same # {}
    <3>1. PICK t \in same : TRUE BY <2>2
    <3>2. same \subseteq Generated BY DEF Generated, MatterAssumption
    <3>3. same = {t} BY <1>3, <3>1, <3>2 DEF MatterInv, KnowsAll
    <3>4. Cardinality(same) = 1 BY <3>3, FS_Singleton
    <3> QED BY <3>4 DEF CopiesOf
  <2> QED BY <2>1, <2>2
<1> QED BY <1>1, <1>2, <1>3 DEF MatterInv, KnowsAll, NoDuplicates

LEMMA InitMatters == ASSUME MatterAssumption, Init PROVE MatterInv
<1>1. Shapes BY FS_EmptySet DEF Init, Shapes, Matter, MatterAssumption
<1> QED BY <1>1 DEF Init, MatterInv, Fresh, CountHolds, KnowsAll, Closing, Regenerations, Generated

\* A step that notes what it makes critical and open keeps the count, whatever
\* it does to the tasks.
LEMMA NoteLateKeeps ==
  ASSUME MatterInv, NoteLate, tasks' \subseteq Task, UNCHANGED matter,
         excused \cap {"patched"} = excused' \cap {"patched"}, Closing' => Closing
  PROVE  CountHolds' /\ late' \subseteq (Keys \cup {Custom}) \X (1..MaxCopies)
<1>1. late' \subseteq (Keys \cup {Custom}) \X (1..MaxCopies)
  <2>1. \A t \in Task : Id(t) \in (Keys \cup {Custom}) \X (1..MaxCopies) BY DEF Id, Task
  <2> QED BY <2>1 DEF NoteLate, MatterInv, Shapes
<1>2. CountHolds'
  <2> SUFFICES ASSUME (Closing \/ (matter.status = "closed" /\ "patched" \notin excused))',
                      NEW t \in tasks', t.critical, ~t.done
               PROVE  Id(t) \in late'
    BY DEF CountHolds, Id
  <2>1. Closing \/ (matter.status = "closed" /\ "patched" \notin excused) OBVIOUS
  <2>2. late' = late \cup {Id(u) : u \in {n \in tasks' \ tasks : n.critical /\ ~n.done}}
    BY <2>1 DEF NoteLate
  <2>3. CASE t \in tasks BY <2>1, <2>2, <2>3 DEF MatterInv, CountHolds
  <2>4. CASE t \notin tasks BY <2>2, <2>4
  <2> QED BY <2>3, <2>4
<1> QED BY <1>1, <1>2

------------------------------------------------------------------------------
(***************************************************************************)
(* Generation.                                                             *)
(***************************************************************************)
LEMMA CopiesNat == ASSUME Shapes, NEW k PROVE CopiesOf(k) \in Nat
<1>1. {t \in tasks : t.key = k} \in SUBSET tasks OBVIOUS
<1>2. IsFiniteSet({t \in tasks : t.key = k}) BY <1>1, FS_Subset DEF Shapes
<1> QED BY <1>2, FS_CardinalityType DEF CopiesOf

\* There are finitely many new tasks, as there are finitely many templates.
LEMMA NewTasksFinite ==
  ASSUME MatterAssumption, NEW chosen \in SUBSET DOMAIN Candidates
  PROVE  IsFiniteSet(NewTasks(chosen))
<1>1. CASE chosen = {}
  <2>1. NewTasks(chosen) = {} BY <1>1 DEF NewTasks
  <2> QED BY <2>1, FS_EmptySet
<1>2. CASE chosen # {}
  <2>1. PICK c \in chosen : TRUE BY <1>2
  <2> DEFINE Row(i) == [key |-> Candidates[i].key, copy |-> CopiesOf(Candidates[i].key) + 1,
                        critical |-> Candidates[i].critical, done |-> FALSE]
             new == NewTasks(chosen)
             seq == [n \in 1..Len(Candidates) |-> IF n \in chosen THEN Row(n) ELSE Row(c)]
  <2>2. \A i \in chosen : Row(i) \in new BY DEF NewTasks
  <2>3. \A t \in new : \E i \in chosen : t = Row(i) BY DEF NewTasks
  <2>4. DOMAIN Candidates = 1..Len(Candidates) /\ Len(Candidates) \in Nat BY DEF MatterAssumption
  <2> HIDE DEF Row, new
  <2>5. seq \in Seq(new) /\ Len(seq) = Len(Candidates) BY <2>1, <2>2, <2>4
  <2>6. \A t \in new : \E n \in 1..Len(seq) : seq[n] = t BY <2>3, <2>4, <2>5
  <2>7. IsFiniteSet(new) BY <2>5, <2>6 DEF IsFiniteSet
  <2> QED BY <2>7 DEF new
<1> QED BY <1>1, <1>2

\* A new task is one of a chosen template.
LEMMA NewTask ==
  ASSUME MatterAssumption, Shapes, NEW chosen \in SUBSET DOMAIN Candidates,
         NEW t \in NewTasks(chosen), t.copy <= MaxCopies
  PROVE  /\ t \in Task /\ ~t.done
         /\ \E i \in chosen : t.key = Candidates[i].key /\ t.copy = CopiesOf(Candidates[i].key) + 1
                               /\ t.critical = Candidates[i].critical
<1>1. PICK i \in chosen :
        t = [key |-> Candidates[i].key, copy |-> CopiesOf(Candidates[i].key) + 1,
             critical |-> Candidates[i].critical, done |-> FALSE]
  BY DEF NewTasks
<1>2. Candidates[i] \in Candidate /\ Candidates[i].key \in Keys
  BY DEF MatterAssumption, Keys
<1>3. CopiesOf(Candidates[i].key) \in Nat BY CopiesNat
<1>4. t.copy \in 1..MaxCopies BY <1>1, <1>3 DEF MatterAssumption
<1> QED BY <1>1, <1>2, <1>4 DEF Task, Candidate

\* Of one key, one template is got.
LEMMA TemplatesDistinct ==
  ASSUME MatterAssumption, NEW m, NEW i \in GetTemplates(m), NEW j \in GetTemplates(m),
         Candidates[i].key = Candidates[j].key
  PROVE  i = j
<1>1. i \in Int /\ j \in Int BY DEF GetTemplates, MatterAssumption
<1> QED BY <1>1 DEF GetTemplates

\* What creating tasks and deadlines does to the shapes.
LEMMA CreateShapes ==
  ASSUME MatterAssumption, Shapes, NEW chosen \in SUBSET DOMAIN Candidates, NEW known \in SUBSET tasks,
         CreateTasks(chosen, known), NEW m, NEW skip, CreateDeadlines(m, skip)
  PROVE  /\ tasks' \subseteq Task /\ IsFiniteSet(tasks') /\ tasks \subseteq tasks'
         /\ links' \subseteq tasks' \X tasks' /\ deadlines' \in [DeadlineKeys -> 0..MaxCopies]
<1>1. /\ \A t \in NewTasks(chosen) : t.copy <= MaxCopies
      /\ tasks' = tasks \cup NewTasks(chosen)
  BY DEF CreateTasks
<1>2. tasks' \subseteq Task BY <1>1, NewTask DEF Shapes
<1>3. IsFiniteSet(tasks') BY <1>1, NewTasksFinite, FS_Union DEF Shapes
<1>4. links' \subseteq tasks' \X tasks' BY <1>1 DEF CreateTasks, Shapes
<1>5. deadlines' \in [DeadlineKeys -> 0..MaxCopies]
  <2>1. deadlines' = [k \in DeadlineKeys |->
          IF k \in DeadlineOf[m.state] \ skip THEN deadlines[k] + 1 ELSE deadlines[k]]
    BY DEF CreateDeadlines
  <2>2. \A k \in DeadlineOf[m.state] \ skip : deadlines[k] < MaxCopies BY DEF CreateDeadlines
  <2>3. MaxCopies \in Nat /\ \A k \in DeadlineKeys : deadlines[k] \in 0..MaxCopies
    BY DEF MatterAssumption, Shapes
  <2> QED BY <2>1, <2>2, <2>3
<1> QED BY <1>1, <1>2, <1>3, <1>4, <1>5

\* New tasks of templates of distinct keys, none the key of a task there is,
\* leave every key with one task.
LEMMA CreateKeepsKeys ==
  ASSUME MatterAssumption, Shapes, NEW m, NEW chosen \in SUBSET GetTemplates(m), NEW known,
         CreateTasks(chosen, known), \A t, u \in Generated : t.key = u.key => t = u,
         \A i \in chosen : \A t \in Generated : t.key # Candidates[i].key
  PROVE  \A t, u \in Generated' : t.key = u.key => t = u
<1>1. chosen \in SUBSET DOMAIN Candidates BY DEF GetTemplates
<1> DEFINE Row(i) == [key |-> Candidates[i].key, copy |-> CopiesOf(Candidates[i].key) + 1,
                      critical |-> Candidates[i].critical, done |-> FALSE]
<1>2. tasks' = tasks \cup NewTasks(chosen) BY DEF CreateTasks
<1>3. \A t \in NewTasks(chosen) : \E i \in chosen : t = Row(i) BY DEF NewTasks
<1>4. \A i \in chosen : Row(i).key = Candidates[i].key OBVIOUS
<1>5. \A i, j \in chosen : Row(i).key = Row(j).key => i = j
  BY <1>4, TemplatesDistinct
<1> HIDE DEF Row
<1>6. \A t \in Generated' : t \in Generated \/ t \in NewTasks(chosen) BY <1>2 DEF Generated
<1> QED BY <1>3, <1>4, <1>5, <1>6

LEMMA CreateMatterKeeps == ASSUME MatterAssumption, MatterInv, CreateMatter PROVE MatterInv'
<1>1. /\ matter.status = "none" /\ tasks = {} /\ pending = {} /\ links = {}
      /\ \A k \in DeadlineKeys : deadlines[k] = 0
  BY DEF MatterInv, Fresh, Shapes, CreateMatter
<1>2. /\ CreateTasks(GetTemplates(matter), {}) /\ CreateDeadlines(matter, {})
      /\ pending' = {} /\ UNCHANGED <<late, excused>> /\ matter' = [matter EXCEPT !.status = "active"]
  BY <1>1 DEF CreateMatter, Generate
<1>3. Shapes /\ GetTemplates(matter) \in SUBSET DOMAIN Candidates BY DEF MatterInv, GetTemplates
<1>4. matter' \in Matter /\ matter'.status = "active" BY <1>2, <1>3 DEF Shapes, Matter
<1>5. Shapes'
  <2>1. /\ tasks' \subseteq Task /\ IsFiniteSet(tasks') /\ links' \subseteq tasks' \X tasks'
        /\ deadlines' \in [DeadlineKeys -> 0..MaxCopies]
    BY <1>2, <1>3, CreateShapes
  <2> QED BY <1>2, <1>3, <1>4, <2>1 DEF Shapes
<1>6. Fresh' BY <1>4 DEF Fresh
<1>7. CountHolds' BY <1>2, <1>4 DEF CountHolds, Closing
<1>8. KnowsAll'
  <2>1. Generated = {} BY <1>1 DEF Generated
  <2>2. \A t, u \in Generated' : t.key = u.key => t = u
    BY <1>2, <1>3, <2>1, CreateKeepsKeys
  <2>3. \A k \in DeadlineKeys : deadlines'[k] <= 1 BY <1>1, <1>2 DEF CreateDeadlines
  <2> QED BY <1>2, <2>2, <2>3 DEF KnowsAll, Regenerations
<1> QED BY <1>5, <1>6, <1>7, <1>8 DEF MatterInv

LEMMA GenerateAgainKeeps == ASSUME MatterAssumption, MatterInv, GenerateAgain PROVE MatterInv'
<1>1. /\ CreateTasks(GetTemplates(matter), {}) /\ CreateDeadlines(matter, {})
      /\ matter.status # "none" /\ UNCHANGED <<matter, pending>>
      /\ NoteLate /\ excused' = excused \cup {"copies"}
  BY DEF GenerateAgain, Generate
<1>2. Shapes /\ GetTemplates(matter) \in SUBSET DOMAIN Candidates BY DEF MatterInv, GetTemplates
<1>3. /\ tasks' \subseteq Task /\ IsFiniteSet(tasks') /\ tasks \subseteq tasks'
      /\ links' \subseteq tasks' \X tasks' /\ deadlines' \in [DeadlineKeys -> 0..MaxCopies]
  BY <1>1, <1>2, CreateShapes
<1>4. CountHolds' /\ late' \subseteq (Keys \cup {Custom}) \X (1..MaxCopies)
  <2>1. Closing' => Closing BY <1>1 DEF Closing
  <2> QED BY <1>1, <1>3, <2>1, NoteLateKeeps
<1>5. Shapes'
  <2>1. pending' \subseteq Pending' BY <1>1, <1>2, <1>3 DEF Shapes, Pending
  <2> QED BY <1>1, <1>2, <1>3, <1>4, <2>1 DEF Shapes
<1>6. Fresh' BY <1>1 DEF Fresh
<1>7. KnowsAll' BY <1>1 DEF KnowsAll
<1> QED BY <1>4, <1>5, <1>6, <1>7 DEF MatterInv

------------------------------------------------------------------------------
(***************************************************************************)
(* Regeneration.                                                           *)
(***************************************************************************)
\* Where each key has one task, one task of each key is every task.
LEMMA OneOfEachIsAll ==
  ASSUME MatterAssumption, Shapes, \A t, u \in Generated : t.key = u.key => t = u,
         NEW known \in SUBSET Generated,
         \A k \in Keys : Cardinality({t \in known : t.key = k}) = (IF CopiesOf(k) = 0 THEN 0 ELSE 1)
  PROVE  known = Generated
<1> SUFFICES ASSUME NEW t \in Generated PROVE t \in known OBVIOUS
<1>1. t.key \in Keys /\ t \in tasks /\ Custom \notin Keys
  BY DEF Shapes, Task, Generated, MatterAssumption
<1> DEFINE k == t.key
           same == {u \in known : u.key = k}
<1>2. CopiesOf(k) = 1
  <2>1. {u \in tasks : u.key = k} = {t} BY <1>1 DEF Generated
  <2> QED BY <2>1, FS_Singleton DEF CopiesOf
<1>3. Cardinality(same) = 1 BY <1>1, <1>2
<1>4. same # {} BY <1>3, FS_EmptySet
<1> QED BY <1>1, <1>4

LEMMA BeginRegenerateKeeps == ASSUME MatterAssumption, MatterInv, BeginRegenerate PROVE MatterInv'
<1>1. PICK known \in SUBSET Generated :
        /\ \A k \in Keys : Cardinality({t \in known : t.key = k}) = (IF CopiesOf(k) = 0 THEN 0 ELSE 1)
        /\ pending' = pending \cup {[op |-> "regenerate", known |-> known,
                                     at |-> [state |-> matter.state, flags |-> matter.flags]]}
  BY DEF BeginRegenerate, Generated
<1> DEFINE new == [op |-> "regenerate", known |-> known,
                   at |-> [state |-> matter.state, flags |-> matter.flags]]
<1>2. UNCHANGED <<matter, tasks, links, deadlines, late>> /\ matter.status # "none"
  BY DEF BeginRegenerate
<1>3. /\ excused \subseteq excused' /\ excused' \subseteq excused \cup {"copies"}
      /\ "copies" \notin excused' => Regenerations = {}
  BY DEF BeginRegenerate, Regenerations
<1>4. new \in Pending /\ new.op = "regenerate" /\ new.known = known
  BY DEF MatterInv, Shapes, Matter, Pending, Read, Generated
<1> HIDE DEF new
<1>5. pending' = pending \cup {new} BY <1>1 DEF new
<1>6. Shapes' BY <1>2, <1>3, <1>4, <1>5 DEF MatterInv, Shapes, Pending
<1>7. Fresh' BY <1>2 DEF Fresh
<1>8. CountHolds' BY <1>2, <1>3, <1>4, <1>5 DEF MatterInv, CountHolds, Closing, Id
<1>9. KnowsAll'
  <2> SUFFICES ASSUME "copies" \notin excused' PROVE KnowsAll' BY DEF KnowsAll
  <2>1. Regenerations' = {new} BY <1>3, <1>4, <1>5 DEF Regenerations
  <2>2. known = Generated BY <1>1, <1>3, OneOfEachIsAll DEF MatterInv, KnowsAll
  <2>3. Generated' = Generated BY <1>2 DEF Generated
  <2> QED BY <1>2, <1>3, <1>4, <2>1, <2>2, <2>3 DEF MatterInv, KnowsAll
<1> QED BY <1>6, <1>7, <1>8, <1>9 DEF MatterInv

Missing(r) == {i \in GetTemplates(r.at) : \A t \in r.known : t.key # Candidates[i].key}

LEMMA RegenerateKeeps ==
  ASSUME MatterAssumption, MatterInv, NEW r \in pending, Regenerate(r)
  PROVE  MatterInv'
<1>1. /\ r \in Regenerations /\ pending' = pending \ {r} /\ UNCHANGED matter
      /\ r.known \in SUBSET tasks /\ r.at \in Read
  BY PendingOps DEF MatterInv, Regenerate, Regenerations
<1>2. matter.status # "none" BY DEF MatterInv, Fresh
<1>3. Regenerations' = Regenerations \ {r} /\ (Closing' => Closing)
  BY <1>1 DEF Regenerations, Closing
<1>4. Fresh' BY <1>1, <1>2 DEF Fresh
<1>5. CASE UNCHANGED <<tasks, links, deadlines, late, excused>>
  <2>1. pending' \subseteq Pending' BY <1>1, <1>5 DEF MatterInv, Shapes, Pending
  <2>2. Shapes' BY <1>1, <1>5, <2>1 DEF MatterInv, Shapes
  <2>3. CountHolds' BY <1>1, <1>3, <1>5 DEF MatterInv, CountHolds, Id
  <2>4. KnowsAll' BY <1>3, <1>5 DEF MatterInv, KnowsAll, Generated
  <2> QED BY <1>4, <2>2, <2>3, <2>4 DEF MatterInv
<1>6. CASE /\ CreateTasks(Missing(r), r.known) /\ NoteLate /\ UNCHANGED excused
           /\ CreateDeadlines(r.at, {k \in DeadlineKeys : deadlines[k] > 0})
  <2>1. /\ Missing(r) \in SUBSET GetTemplates(r.at) /\ Missing(r) \in SUBSET DOMAIN Candidates
        /\ \A i \in Missing(r) : \A t \in r.known : t.key # Candidates[i].key
    BY DEF Missing, GetTemplates
  <2>2. /\ tasks' \subseteq Task /\ IsFiniteSet(tasks') /\ tasks \subseteq tasks'
        /\ links' \subseteq tasks' \X tasks' /\ deadlines' \in [DeadlineKeys -> 0..MaxCopies]
    BY <1>1, <1>6, <2>1, CreateShapes DEF MatterInv
  <2>3. CountHolds' /\ late' \subseteq (Keys \cup {Custom}) \X (1..MaxCopies)
    BY <1>1, <1>3, <1>6, <2>2, NoteLateKeeps
  <2>4. Shapes'
    <3>1. pending' \subseteq Pending' BY <1>1, <2>2 DEF MatterInv, Shapes, Pending
    <3> QED BY <1>1, <1>6, <2>2, <2>3, <3>1 DEF MatterInv, Shapes
  <2>5. KnowsAll'
    <3> SUFFICES ASSUME "copies" \notin excused PROVE KnowsAll' BY <1>6 DEF KnowsAll
    <3>1. /\ r.known = Generated /\ Regenerations = {r}
          /\ \A t, u \in Generated : t.key = u.key => t = u
      BY <1>1 DEF MatterInv, KnowsAll
    <3>2. \A t, u \in Generated' : t.key = u.key => t = u
      BY <1>6, <2>1, <3>1, CreateKeepsKeys DEF MatterInv
    <3>3. \A k \in DeadlineKeys : deadlines'[k] <= 1
      <4>1. \A k \in DeadlineKeys : deadlines[k] \in Nat /\ deadlines[k] <= 1
        BY DEF MatterInv, Shapes, KnowsAll
      <4>2. \A k \in DeadlineKeys : deadlines'[k] = deadlines[k]
                                      \/ (deadlines'[k] = deadlines[k] + 1 /\ ~(deadlines[k] > 0))
        BY <1>6 DEF CreateDeadlines
      <4> QED BY <4>1, <4>2
    <3>4. Regenerations' = {} BY <1>3, <3>1
    <3> QED BY <3>2, <3>3, <3>4 DEF KnowsAll
  <2> QED BY <1>4, <2>3, <2>4, <2>5 DEF MatterInv
<1> QED BY <1>5, <1>6 DEF Regenerate, Missing

------------------------------------------------------------------------------
(***************************************************************************)
(* The matter.                                                             *)
(***************************************************************************)
LEMMA UpdateMatterKeeps ==
  ASSUME MatterInv, NEW status \in {"active", "closed"}, NEW state \in States,
         NEW flags \in SUBSET Flags, UpdateMatter(status, state, flags)
  PROVE  MatterInv'
<1>1. /\ matter.status # "none" /\ UNCHANGED <<tasks, links, deadlines, pending>>
      /\ matter' = [matter EXCEPT !.status = status, !.state = state, !.flags = flags]
      /\ excused' = IF status # "closed" THEN excused \ {"patched"}
                    ELSE IF matter.status # "closed" THEN excused \cup {"patched"} ELSE excused
      /\ late' = IF status # "closed" /\ ~Closing THEN {} ELSE late
  BY DEF UpdateMatter
<1>2. matter' \in Matter /\ matter'.status = status BY <1>1 DEF MatterInv, Shapes, Matter
<1>3. Shapes' BY <1>1, <1>2 DEF MatterInv, Shapes, Pending
<1>4. Fresh' BY <1>2 DEF Fresh
<1>5. CountHolds' BY <1>1, <1>2 DEF MatterInv, CountHolds, Closing, Id
<1>6. KnowsAll' BY <1>1 DEF MatterInv, KnowsAll, Regenerations, Generated
<1> QED BY <1>3, <1>4, <1>5, <1>6 DEF MatterInv

LEMMA CreateTaskKeeps ==
  ASSUME MatterAssumption, MatterInv, NEW critical \in BOOLEAN, CreateTask(critical)
  PROVE  MatterInv'
<1> DEFINE new == [key |-> Custom, copy |-> CopiesOf(Custom) + 1, critical |-> critical, done |-> FALSE]
<1>1. /\ matter.status # "none" /\ new.copy <= MaxCopies /\ tasks' = tasks \cup {new}
      /\ NoteLate /\ UNCHANGED <<matter, links, deadlines, pending, excused>>
  BY DEF CreateTask
<1>2. new \in Task /\ new.key = Custom
  <2>1. CopiesOf(Custom) \in Nat /\ MaxCopies \in Nat BY CopiesNat DEF MatterInv, MatterAssumption
  <2> QED BY <1>1, <2>1 DEF Task
<1> HIDE DEF new
<1>3. tasks' \subseteq Task /\ IsFiniteSet(tasks')
  BY <1>1, <1>2, FS_AddElement DEF MatterInv, Shapes
<1>4. CountHolds' /\ late' \subseteq (Keys \cup {Custom}) \X (1..MaxCopies)
  <2>1. Closing' => Closing BY <1>1 DEF Closing
  <2> QED BY <1>1, <1>3, <2>1, NoteLateKeeps
<1>5. Shapes'
  <2>1. pending' \subseteq Pending' /\ links' \subseteq tasks' \X tasks'
    BY <1>1 DEF MatterInv, Shapes, Pending
  <2> QED BY <1>1, <1>3, <1>4, <2>1 DEF MatterInv, Shapes
<1>6. Fresh' BY <1>1 DEF Fresh
<1>7. KnowsAll'
  <2>1. Generated' = Generated BY <1>1, <1>2 DEF Generated
  <2> QED BY <1>1, <2>1 DEF MatterInv, KnowsAll, Regenerations
<1> QED BY <1>4, <1>5, <1>6, <1>7 DEF MatterInv

\* A task in its place is another: everything that names it names the new one.
LEMMA SetTaskKeeps ==
  ASSUME MatterInv, NEW t \in tasks, NEW critical \in BOOLEAN, NEW done \in BOOLEAN,
         SetTask(t, critical, done)
  PROVE  MatterInv'
<1> DEFINE new == [t EXCEPT !.critical = critical, !.done = done]
           With(u) == IF u = t THEN new ELSE u
           Moved(r) == IF r.op = "regenerate" THEN [r EXCEPT !.known = {With(u) : u \in @}] ELSE r
           Link(l) == <<With(l[1]), With(l[2])>>
<1>1. /\ UNCHANGED <<matter, deadlines, excused>> /\ tasks' = (tasks \ {t}) \cup {new}
      /\ links' = {Link(l) : l \in links} /\ pending' = {Moved(r) : r \in pending} /\ NoteLate
  BY DEF SetTask
<1>2. new \in Task /\ new.key = t.key
  BY DEF MatterInv, Shapes, Task
<1> HIDE DEF new
<1>3. \A u \in tasks : With(u) \in tasks' /\ With(u).key = u.key BY <1>1, <1>2
<1> HIDE DEF With
<1>4. \A r \in pending : /\ Moved(r).op = r.op
                         /\ r.op = "close" => Moved(r) = r
                         /\ r.op = "regenerate" =>
                              Moved(r) = [op |-> "regenerate", known |-> {With(u) : u \in r.known},
                                          at |-> r.at]
  <2> SUFFICES ASSUME NEW r \in pending PROVE
         /\ Moved(r).op = r.op
         /\ r.op = "close" => Moved(r) = r
         /\ r.op = "regenerate" =>
              Moved(r) = [op |-> "regenerate", known |-> {With(u) : u \in r.known}, at |-> r.at]
    OBVIOUS
  <2>1. r \in Pending BY DEF MatterInv, Shapes
  <2> QED BY <2>1 DEF Pending
<1> HIDE DEF Moved
<1>5. Regenerations' = {Moved(r) : r \in Regenerations} /\ (Closing' => Closing)
  <2>1. pending' = {Moved(r) : r \in pending} /\ \A r \in pending : Moved(r).op = r.op
    BY <1>1, <1>4
  <2>2. ASSUME NEW q PROVE q \in Regenerations' <=> \E r \in Regenerations : q = Moved(r)
    BY <2>1 DEF Regenerations
  <2>3. Closing' => Closing BY <2>1 DEF Closing
  <2> QED BY <2>2, <2>3
<1>6. tasks' \subseteq Task BY <1>1, <1>2 DEF MatterInv, Shapes
<1>7. CountHolds' /\ late' \subseteq (Keys \cup {Custom}) \X (1..MaxCopies)
  <2> HIDE DEF Link
  <2> QED BY <1>1, <1>5, <1>6, NoteLateKeeps
<1>8. Shapes'
  <2>1. IsFiniteSet(tasks')
    <3>1. IsFiniteSet(tasks \ {t}) BY FS_RemoveElement DEF MatterInv, Shapes
    <3> QED BY <1>1, <3>1, FS_AddElement
  <2>2. \A l \in links : Link(l) \in tasks' \X tasks'
    BY <1>3 DEF MatterInv, Shapes
  <2> HIDE DEF Link
  <2>3. links' \subseteq tasks' \X tasks' BY <1>1, <2>2
  <2>4. \A r \in pending : Moved(r) \in Pending'
    <3> SUFFICES ASSUME NEW r \in pending PROVE Moved(r) \in Pending' OBVIOUS
    <3>1. r.op \in {"close", "regenerate"} BY PendingOps DEF MatterInv
    <3>2. CASE r.op = "close"
      <4>1. Moved(r) = r /\ r = [op |-> "close"] BY <1>4, <3>2, PendingOps DEF MatterInv
      <4> QED BY <4>1 DEF Pending
    <3>3. CASE r.op = "regenerate"
      <4>1. r.known \in SUBSET tasks /\ r.at \in Read BY <3>3, PendingOps DEF MatterInv
      <4>2. {With(u) : u \in r.known} \in SUBSET tasks' BY <1>3, <4>1
      <4> QED BY <1>4, <3>3, <4>1, <4>2 DEF Pending, Read
    <3> QED BY <3>1, <3>2, <3>3
  <2> QED BY <1>1, <1>6, <1>7, <2>1, <2>3, <2>4 DEF MatterInv, Shapes
<1>9. Fresh' BY <1>1 DEF MatterInv, Fresh
<1>10. KnowsAll'
  <2> SUFFICES ASSUME "copies" \notin excused PROVE KnowsAll' BY <1>1 DEF KnowsAll
  <2>1. \A u, v \in Generated : u.key = v.key => u = v BY DEF MatterInv, KnowsAll
  <2>2. Generated' = {With(u) : u \in Generated}
    <3>1. tasks' = {With(u) : u \in tasks}
      <4>1. \A u \in tasks : With(u) = IF u = t THEN new ELSE u BY DEF With
      <4> QED BY <1>1, <4>1
    <3> QED BY <1>3, <3>1 DEF Generated
  <2>3. \A u, v \in Generated' : u.key = v.key => u = v
    <3>1. \A u \in Generated : With(u).key = u.key BY <1>3 DEF Generated
    <3> QED BY <2>1, <2>2, <3>1
  <2>4. \A r \in Regenerations : Moved(r).known = Generated'
    <3> SUFFICES ASSUME NEW r \in Regenerations PROVE Moved(r).known = Generated' OBVIOUS
    <3>1. r \in pending /\ r.op = "regenerate" BY DEF Regenerations
    <3>2. r.known = Generated BY DEF MatterInv, KnowsAll
    <3> QED BY <1>4, <2>2, <3>1, <3>2
  <2> QED BY <1>1, <1>5, <2>3, <2>4 DEF MatterInv, KnowsAll
<1> QED BY <1>7, <1>8, <1>9, <1>10 DEF MatterInv

LEMMA BeginCloseKeeps == ASSUME MatterInv, BeginClose PROVE MatterInv'
<1>1. /\ matter.status # "none" /\ pending' = pending \cup {[op |-> "close"]}
      /\ late' = {} /\ \A t \in tasks : t.critical => t.done
      /\ UNCHANGED <<matter, tasks, links, deadlines, excused>>
  BY DEF BeginClose
<1>2. Shapes' BY <1>1 DEF MatterInv, Shapes, Pending
<1>3. Fresh' BY <1>1 DEF Fresh
<1>4. CountHolds' BY <1>1 DEF CountHolds
<1>5. Regenerations' = Regenerations BY <1>1 DEF Regenerations
<1>6. KnowsAll' BY <1>1, <1>5 DEF MatterInv, KnowsAll, Generated
<1> QED BY <1>2, <1>3, <1>4, <1>6 DEF MatterInv

LEMMA CloseKeeps == ASSUME MatterInv, NEW r \in pending, Close(r) PROVE MatterInv'
<1>1. /\ r.op = "close" /\ pending' = pending \ {r} /\ matter' = [matter EXCEPT !.status = "closed"]
      /\ excused' = excused \ {"patched"} /\ UNCHANGED <<tasks, links, deadlines, late>>
  BY DEF Close
<1>2. matter' \in Matter /\ matter'.status = "closed" BY <1>1 DEF MatterInv, Shapes, Matter
<1>3. Shapes' BY <1>1, <1>2 DEF MatterInv, Shapes, Pending
<1>4. Fresh' BY <1>2 DEF Fresh
<1>5. Closing BY <1>1 DEF Closing
<1>6. CountHolds' BY <1>1, <1>5 DEF MatterInv, CountHolds, Id
<1>7. Regenerations' = Regenerations BY <1>1 DEF Regenerations
<1>8. KnowsAll' BY <1>1, <1>7 DEF MatterInv, KnowsAll, Generated
<1> QED BY <1>3, <1>4, <1>6, <1>8 DEF MatterInv

------------------------------------------------------------------------------
(***************************************************************************)
(* Every step of the matter.                                               *)
(***************************************************************************)
LEMMA NextKeeps == ASSUME MatterAssumption, MatterInv, [Next]_vars PROVE MatterInv'
<1>1. CASE UNCHANGED vars
  BY <1>1 DEF vars, MatterInv, Shapes, Pending, Fresh, CountHolds, Closing, Id, KnowsAll,
              Regenerations, Generated
<1>2. CASE PostMatter BY <1>2, CreateMatterKeeps DEF PostMatter
<1>3. CASE \E role \in {"matter_admin", "professional", "beneficiary"}, b \in BOOLEAN :
             PostGenerate(role, b)
  BY <1>3, BeginRegenerateKeeps, GenerateAgainKeeps DEF PostGenerate
<1>4. CASE \E role \in {"matter_admin", "professional", "beneficiary"} : PostClose(role)
  BY <1>4, BeginCloseKeeps DEF PostClose
<1>5. CASE \E role \in {"matter_admin", "professional", "beneficiary"},
              status \in {"active", "closed"}, state \in States, flags \in SUBSET Flags :
             PatchMatter(role, status, state, flags)
  BY <1>5, UpdateMatterKeeps DEF PatchMatter
<1>6. CASE \E r \in pending : Regenerate(r) BY <1>6, RegenerateKeeps
<1>7. CASE \E r \in pending : Close(r) BY <1>7, CloseKeeps
<1>8. CASE \E critical \in BOOLEAN : CreateTask(critical) BY <1>8, CreateTaskKeeps
<1>9. CASE \E critical \in BOOLEAN, t \in tasks, done \in BOOLEAN : SetTask(t, critical, done)
  BY <1>9, SetTaskKeeps
<1> QED BY <1>1, <1>2, <1>3, <1>4, <1>5, <1>6, <1>7, <1>8, <1>9 DEF Next

\* DependenciesLinked, of one step.
Linked == \A t \in tasks' : t.key # Custom /\ (\A o \in tasks : o.key # t.key)
                            /\ "copies" \notin excused' =>
            \A d \in tasks : (\A i \in DOMAIN Candidates :
                                Candidates[i].key = t.key => d.key \in Candidates[i].deps)
                             => <<t, d>> \in links'

LEMMA RegenerateLinks ==
  ASSUME MatterAssumption, MatterInv, NEW r \in pending, Regenerate(r)
  PROVE  Linked
<1> SUFFICES ASSUME NEW t \in tasks', \A o \in tasks : o.key # t.key, "copies" \notin excused',
                    NEW d \in tasks,
                    \A i \in DOMAIN Candidates : Candidates[i].key = t.key => d.key \in Candidates[i].deps
             PROVE  <<t, d>> \in links'
  BY DEF Linked
<1>1. CASE UNCHANGED tasks BY <1>1
<1>2. CASE CreateTasks(Missing(r), r.known) /\ UNCHANGED excused
  <2>1. r \in Regenerations /\ r.known = Generated
    <3>1. r \in Regenerations BY DEF Regenerate, Regenerations
    <3> QED BY <1>2, <3>1 DEF MatterInv, KnowsAll
  <2>2. tasks' = tasks \cup NewTasks(Missing(r)) BY <1>2 DEF CreateTasks
  <2>3. t \in NewTasks(Missing(r)) BY <2>2
  <2>4. PICK i \in Missing(r) : t.key = Candidates[i].key BY <2>3 DEF NewTasks
  <2>5. i \in DOMAIN Candidates /\ d.key \in Candidates[i].deps
    BY <2>4 DEF Missing, GetTemplates
  <2>6. d \in Generated
    <3>1. Candidates[i] \in Candidate /\ Custom \notin Keys
      BY <2>5 DEF MatterAssumption
    <3>2. Candidates[i].deps \subseteq Keys BY <3>1 DEF Candidate
    <3> QED BY <2>5, <3>1, <3>2 DEF Generated
  <2>7. \A n \in NewTasks(Missing(r)) : n.key # d.key
    BY <2>1, <2>6 DEF NewTasks, Missing
  <2> DEFINE byKey == NewTasks(Missing(r)) \cup
                        {u \in r.known : \A n \in NewTasks(Missing(r)) : n.key # u.key}
  <2>8. d \in byKey BY <2>1, <2>6, <2>7
  <2>9. links' = links \cup {l \in NewTasks(Missing(r)) \X byKey :
          \E j \in Missing(r) : Candidates[j].key = l[1].key /\ l[2].key \in Candidates[j].deps}
    BY <1>2 DEF CreateTasks
  <2> HIDE DEF byKey
  <2> QED BY <2>3, <2>4, <2>5, <2>8, <2>9
<1> QED BY <1>1, <1>2 DEF Regenerate, Missing

\* The other steps add no task where there are any, or repeat everything, or add
\* one that no template made, or put a task of the same key in another's place.
LEMMA NextLinks == ASSUME MatterAssumption, MatterInv, [Next]_vars PROVE Linked
<1>1. CASE UNCHANGED tasks BY <1>1 DEF Linked
<1>2. CASE CreateMatter BY <1>2 DEF MatterInv, Fresh, CreateMatter, Linked
<1>3. CASE GenerateAgain BY <1>3 DEF GenerateAgain, Linked
<1>4. CASE \E r \in pending : Regenerate(r) BY <1>4, RegenerateLinks
<1>5. CASE \E critical \in BOOLEAN : CreateTask(critical) BY <1>5 DEF CreateTask, Linked
<1>6. CASE \E critical \in BOOLEAN, t \in tasks, done \in BOOLEAN : SetTask(t, critical, done)
  <2>1. PICK critical \in BOOLEAN, t \in tasks, done \in BOOLEAN : SetTask(t, critical, done) BY <1>6
  <2> DEFINE new == [t EXCEPT !.critical = critical, !.done = done]
  <2>2. tasks' = (tasks \ {t}) \cup {new} BY <2>1 DEF SetTask
  <2>3. new.key = t.key BY DEF MatterInv, Shapes, Task
  <2> HIDE DEF new
  <2>4. \A u \in tasks' : \E o \in tasks : o.key = u.key BY <2>2, <2>3
  <2> QED BY <2>4 DEF Linked
<1>7. UNCHANGED vars => UNCHANGED tasks BY DEF vars
<1>8. Next => \/ UNCHANGED tasks \/ CreateMatter \/ GenerateAgain
              \/ \E r \in pending : Regenerate(r)
              \/ \E critical \in BOOLEAN : CreateTask(critical)
              \/ \E critical \in BOOLEAN, t \in tasks, done \in BOOLEAN : SetTask(t, critical, done)
  BY DEF Next, PostMatter, PostGenerate, PostClose, PatchMatter, BeginRegenerate, BeginClose,
         UpdateMatter, Close
<1> QED BY <1>1, <1>2, <1>3, <1>4, <1>5, <1>6, <1>7, <1>8

------------------------------------------------------------------------------
(***************************************************************************)
(* Due dates: AddMonths on every date and every number of months.          *)
(***************************************************************************)
Date == Int \X (1..12) \X Int
Month(d) == 12 * d[1] + d[2]

LEMMA MonthLengthInt == ASSUME NEW y \in Int, NEW m \in 1..12 PROVE MonthLength(y, m) \in Int
BY DEF MonthLength

\* The month reached is the one counted to, and the day is in it.
LEMMA AddMonthsLands ==
  ASSUME NEW d \in Date, NEW n \in Nat
  PROVE  /\ AddMonths(d, n) \in Date /\ Month(AddMonths(d, n)) = Month(d) + n
         /\ AddMonths(d, n)[3] <= MonthLength(AddMonths(d, n)[1], AddMonths(d, n)[2])
         /\ AddMonths(d, n)[3] <= d[3]
         /\ AddMonths(d, n)[3] = d[3] \/
              AddMonths(d, n)[3] = MonthLength(AddMonths(d, n)[1], AddMonths(d, n)[2])
<1> DEFINE total == d[2] + n - 1
           y == d[1] + total \div 12
           m == (total % 12) + 1
           last == MonthLength(y, m)
<1>1. d[1] \in Int /\ d[2] \in 1..12 /\ d[3] \in Int /\ total \in Nat BY DEF Date
<1>2. \A k \in Nat : k = 12 * (k \div 12) + (k % 12) /\ k % 12 \in 0..11 /\ k \div 12 \in Nat
  OBVIOUS
<1>3. y \in Int /\ m \in 1..12 /\ 12 * y + m = 12 * d[1] + total + 1
  <2> HIDE DEF total
  <2> DEFINE q == total \div 12
             r == total % 12
  <2>1. total = 12 * q + r /\ r \in 0..11 /\ q \in Nat BY <1>1, <1>2
  <2>2. y = d[1] + q /\ m = r + 1 OBVIOUS
  <2> HIDE DEF q, r, y, m
  <2> QED BY <1>1, <2>1, <2>2
<1>4. last \in Int BY <1>3, MonthLengthInt
<1>5. AddMonths(d, n) = <<y, m, IF d[3] < last THEN d[3] ELSE last>> BY DEF AddMonths
<1>6. total + 1 = d[2] + n BY <1>1
<1> HIDE DEF total, y, m
<1> QED BY <1>1, <1>3, <1>4, <1>5, <1>6 DEF Date, Month

\* A later date never gives an earlier one.
LEMMA AddMonthsMonotone ==
  ASSUME NEW c \in Date, NEW d \in Date, NEW n \in Nat, NotAfter(c, d)
  PROVE  NotAfter(AddMonths(c, n), AddMonths(d, n))
<1> DEFINE a == AddMonths(c, n)
           b == AddMonths(d, n)
<1>1. /\ c[1] \in Int /\ c[2] \in 1..12 /\ c[3] \in Int
      /\ d[1] \in Int /\ d[2] \in 1..12 /\ d[3] \in Int
  BY DEF Date
<1>2. a \in Date /\ b \in Date BY AddMonthsLands
<1>3. Month(a) = Month(c) + n /\ Month(b) = Month(d) + n BY AddMonthsLands
<1>4. /\ a[3] <= MonthLength(a[1], a[2]) /\ a[3] <= c[3]
      /\ b[3] = d[3] \/ b[3] = MonthLength(b[1], b[2])
  BY AddMonthsLands
<1> HIDE DEF a, b
<1>5. /\ a[1] \in Int /\ a[2] \in 1..12 /\ a[3] \in Int
      /\ b[1] \in Int /\ b[2] \in 1..12 /\ b[3] \in Int
  BY <1>2 DEF Date
<1>6. CASE Month(c) < Month(d)
  <2>1. 12 * a[1] + a[2] < 12 * b[1] + b[2] BY <1>1, <1>3, <1>6 DEF Month
  <2> QED BY <1>5, <2>1 DEF NotAfter, a, b
<1>7. CASE Month(c) = Month(d) /\ c[3] <= d[3]
  <2>1. 12 * a[1] + a[2] = 12 * b[1] + b[2] BY <1>1, <1>3, <1>7 DEF Month
  <2>2. a[1] = b[1] /\ a[2] = b[2] BY <1>5, <2>1
  <2>3. MonthLength(a[1], a[2]) \in Int BY <1>5, MonthLengthInt
  <2>4. a[3] <= b[3] BY <1>1, <1>4, <1>5, <1>7, <2>2, <2>3
  <2> QED BY <2>2, <2>4 DEF NotAfter, a, b
<1>8. Month(c) < Month(d) \/ (Month(c) = Month(d) /\ c[3] <= d[3])
  BY <1>1 DEF NotAfter, Month
<1> QED BY <1>6, <1>7, <1>8

LEMMA DatesOrdered == DueDatesOrdered
<1>1. \A d \in Dates : d \in Date BY DEF Dates, Date
<1>2. \A d \in Dates, n \in {1, 3, 4, 9, 12, 15} :
        /\ AddMonths(d, n)[2] \in 1..12
        /\ AddMonths(d, n)[3] <= MonthLength(AddMonths(d, n)[1], AddMonths(d, n)[2])
        /\ 12 * AddMonths(d, n)[1] + AddMonths(d, n)[2] = 12 * d[1] + d[2] + n
  <2> SUFFICES ASSUME NEW d \in Dates, NEW n \in {1, 3, 4, 9, 12, 15} PROVE
        /\ AddMonths(d, n)[2] \in 1..12
        /\ AddMonths(d, n)[3] <= MonthLength(AddMonths(d, n)[1], AddMonths(d, n)[2])
        /\ 12 * AddMonths(d, n)[1] + AddMonths(d, n)[2] = 12 * d[1] + d[2] + n
    OBVIOUS
  <2>1. d \in Date /\ n \in Nat BY <1>1
  <2>2. /\ AddMonths(d, n) \in Date /\ Month(AddMonths(d, n)) = Month(d) + n
        /\ AddMonths(d, n)[3] <= MonthLength(AddMonths(d, n)[1], AddMonths(d, n)[2])
    BY <2>1, AddMonthsLands
  <2> QED BY <2>2 DEF Date, Month
<1>3. \A d \in Dates, n \in {1, 3, 4, 9, 12, 15}, c \in Dates :
        NotAfter(c, d) => NotAfter(AddMonths(c, n), AddMonths(d, n))
  BY <1>1, AddMonthsMonotone
<1> QED BY <1>2, <1>3 DEF DueDatesOrdered
------------------------------------------------------------------------------
(***************************************************************************)
(* Documents.                                                              *)
(***************************************************************************)
\* A job looks, or has looked, at the document d, or its upload through a link
\* went on without one.
Watched(d) == \/ d \in gaveUp
              \/ \E j \in jobs : j.doc = d /\ j.kind = "classify"
              \/ d \in unasked /\ \/ \E t \in open : t.doc = d /\ t.link # NoLink
                                  \/ \E l \in Links : d \in link[l].docs

Watching == \A d \in Docs :
  doc[d].type = "none" \/ (\E t \in open : t.doc = d) => Watched(d)

InsertsAreNew == /\ \A t \in open : doc[t.doc].type = "absent"
                 /\ \A t, u \in open : t.doc = u.doc => t = u

JobsReading == \A j \in jobs : j.step = "asking" =>
  /\ Documents!Committed(j.doc)
  /\ j.kind = "classify" /\ j.seen # "none" => doc[j.doc].type # "none"

LinksSpent == \A l \in Links \ shared :
  /\ link[l].status = "uploaded" => \E d \in Docs : link[l].docs = {d}
  /\ link[l].status # "uploaded" => link[l].docs = {}
  /\ \A t \in open : t.link = l => link[l].status = "pending"
  /\ \A t, u \in open : t.link = l /\ u.link = l => t = u

IntakeInv == Documents!TypeOK /\ Watching /\ InsertsAreNew /\ JobsReading /\ LinksSpent

\* The fields of the records the variables hold.
LEMMA JobFields ==
  ASSUME Documents!TypeOK, NEW j \in jobs
  PROVE  /\ j \in Documents!Job /\ j.doc \in Docs /\ j.kind \in {"classify", "extract"}
         /\ j.tries \in 0..MaxRetries /\ j.seen \in Types \cup {"none"}
  BY DEF Documents!TypeOK, Documents!Job

\* What retrying a job does to the queue: the job is there again or has given up.
LEMMA RetryKeeps ==
  ASSUME Documents!IntakeAssumption, Documents!TypeOK, NEW j \in jobs, Documents!Retry(j)
  PROVE  /\ jobs' \subseteq Documents!Job /\ gaveUp' \subseteq Docs /\ gaveUp \subseteq gaveUp'
         /\ \A k \in jobs' : k \in jobs \/ k.step = "queued"
         /\ \A k \in jobs : k \in jobs' \/ k = j
         /\ j.doc \in gaveUp' \/ \E k \in jobs' : k.doc = j.doc /\ k.kind = j.kind
  <1>1. j \in Documents!Job BY JobFields
  <1> DEFINE again == [Documents!NewJob(j.kind, j.doc) EXCEPT !.tries = j.tries + 1]
  <1>2. CASE j.tries < MaxRetries
    <2>1. again \in Documents!Job /\ again.step = "queued" /\ again.doc = j.doc /\ again.kind = j.kind
      BY <1>1, <1>2 DEF Documents!Job, Documents!NewJob, Documents!IntakeAssumption
    <2>2. jobs' = (jobs \ {j}) \cup {again} /\ gaveUp' = gaveUp
      BY <1>2 DEF Documents!Retry
    <2> HIDE DEF again
    <2> QED BY <2>1, <2>2 DEF Documents!TypeOK
  <1>3. CASE ~(j.tries < MaxRetries)
    <2>1. jobs' = jobs \ {j} /\ gaveUp' = gaveUp \cup {j.doc}
      BY <1>3 DEF Documents!Retry
    <2> QED BY <2>1, <1>1 DEF Documents!TypeOK, Documents!Job
  <1> QED BY <1>2, <1>3

\* A step that changes jobs only, keeping a watcher for every document.
LEMMA JobStep ==
  ASSUME IntakeInv, UNCHANGED <<doc, link, open, unasked, day, shared>>,
         jobs' \subseteq Documents!Job, gaveUp' \subseteq Docs,
         \A d \in Docs : Watched(d) => Watched(d)',
         \A j \in jobs' : j \in jobs \/ j.step = "queued"
  PROVE  IntakeInv'
  <1>1. Documents!TypeOK' BY DEF IntakeInv, Documents!TypeOK
  <1>2. Watching' BY DEF IntakeInv, Watching
  <1>3. InsertsAreNew' BY DEF IntakeInv, InsertsAreNew
  <1>4. JobsReading' BY DEF IntakeInv, JobsReading, Documents!Committed
  <1>5. LinksSpent' BY DEF IntakeInv, LinksSpent
  <1> QED BY <1>1, <1>2, <1>3, <1>4, <1>5 DEF IntakeInv

\* A step that keeps the transactions and the links, and gives rows of
\* committed documents another type than "none", or none a job has seen.
LEMMA DocStep ==
  ASSUME IntakeInv, UNCHANGED <<link, open, unasked, day, shared>>,
         doc' \in [Docs -> Documents!Row], jobs' \subseteq Documents!Job, gaveUp' \subseteq Docs,
         \A d \in Docs : Documents!Committed(d) \/ doc'[d] = doc[d],
         \A d \in Docs : Documents!Committed(d) => Documents!Committed(d)',
         \A d \in Docs : doc'[d].type = "none" => doc[d].type = "none",
         \A d \in Docs : doc'[d].type = "none" \/ ~Documents!Committed(d) => (Watched(d) => Watched(d)'),
         \A j \in jobs' : j \in jobs \/ j.step = "queued"
  PROVE  IntakeInv'
  <1>1. Documents!TypeOK' BY DEF IntakeInv, Documents!TypeOK
  <1>2. \A t \in open : t.doc \in Docs /\ doc[t.doc].type = "absent" /\ ~Documents!Committed(t.doc)
    BY DEF IntakeInv, InsertsAreNew, Documents!TypeOK, Documents!Committed
  <1>3. InsertsAreNew' BY <1>2 DEF IntakeInv, InsertsAreNew
  <1>4. Watching' BY <1>2 DEF IntakeInv, Watching
  <1>5. JobsReading'
    <2> SUFFICES ASSUME NEW j \in jobs', j.step = "asking"
                 PROVE  /\ Documents!Committed(j.doc)'
                        /\ j.kind = "classify" /\ j.seen # "none" => doc'[j.doc].type # "none"
      BY DEF JobsReading
    <2>1. j \in jobs /\ j.doc \in Docs BY JobFields DEF IntakeInv
    <2> QED BY <2>1 DEF IntakeInv, JobsReading
  <1>6. LinksSpent' BY DEF IntakeInv, LinksSpent
  <1> QED BY <1>1, <1>3, <1>4, <1>5, <1>6 DEF IntakeInv

\* An insert, with its job or with the broker's refusal caught.
LEMMA InsertKeeps ==
  ASSUME Documents!IntakeAssumption, IntakeInv, NEW d \in Docs, NEW l \in Links \cup {NoLink},
         Documents!Insert(d, l), l # NoLink => Documents!Usable(l),
         Documents!Enqueue(d) \/ (l # NoLink /\ Documents!Swallow(d))
  PROVE  IntakeInv'
  <1> DEFINE t == [doc |-> d, link |-> l]
             job == Documents!NewJob("classify", d)
  <1>1. /\ open' = open \cup {t} /\ UNCHANGED <<doc, link, gaveUp, day>>
        /\ shared' = IF l # NoLink /\ \E u \in open : u.link = l THEN shared \cup {l} ELSE shared
    BY DEF Documents!Insert
  <1>2. /\ t.doc = d /\ t.link = l /\ t \in [doc: Docs, link: Links \cup {NoLink}]
        /\ job \in Documents!Job /\ job.doc = d /\ job.kind = "classify" /\ job.step = "queued"
    BY DEF Documents!NewJob, Documents!Job, Documents!IntakeAssumption
  <1>3. doc[d].type = "absent" /\ \A u \in open : u.doc # d
    BY DEF Documents!Insert, Documents!Fresh
  <1> HIDE DEF t, job
  <1>4. \/ jobs' = jobs \cup {job} /\ unasked' = unasked
        \/ jobs' = jobs /\ unasked' = unasked \cup {d} /\ l # NoLink
    BY DEF Documents!Enqueue, Documents!Swallow, job
  <1>5. Documents!TypeOK'
    BY <1>1, <1>2, <1>4 DEF IntakeInv, Documents!TypeOK
  <1>6. Watching'
    <2>1. \A e \in Docs : Watched(e) => Watched(e)' BY <1>1, <1>4 DEF Watched
    <2>2. Watched(d)'
      <3>1. t \in open' BY <1>1
      <3>2. CASE jobs' = jobs \cup {job} BY <1>2, <3>2 DEF Watched
      <3>3. CASE unasked' = unasked \cup {d} /\ l # NoLink BY <1>2, <3>1, <3>3 DEF Watched
      <3> QED BY <1>4, <3>2, <3>3
    <2> QED BY <1>1, <1>2, <2>1, <2>2 DEF IntakeInv, Watching
  <1>7. InsertsAreNew'
    BY <1>1, <1>2, <1>3 DEF IntakeInv, InsertsAreNew
  <1>8. JobsReading'
    BY <1>1, <1>2, <1>4 DEF IntakeInv, JobsReading, Documents!Committed
  <1>9. LinksSpent'
    <2> SUFFICES ASSUME NEW k \in Links \ shared'
                 PROVE  /\ link[k].status = "uploaded" => \E e \in Docs : link[k].docs = {e}
                        /\ link[k].status # "uploaded" => link[k].docs = {}
                        /\ \A u \in open' : u.link = k => link[k].status = "pending"
                        /\ \A u, w \in open' : u.link = k /\ w.link = k => u = w
      BY <1>1 DEF LinksSpent
    <2>1. k \in Links \ shared BY <1>1
    <2>2. k = l => link[k].status = "pending" /\ \A u \in open : u.link # k
      BY <1>1 DEF Documents!Usable, Documents!IntakeAssumption
    <2> QED BY <1>1, <1>2, <2>1, <2>2 DEF IntakeInv, LinksSpent
  <1> QED BY <1>5, <1>6, <1>7, <1>8, <1>9 DEF IntakeInv

LEMMA CommitKeeps ==
  ASSUME Documents!IntakeAssumption, IntakeInv, NEW t \in open, Documents!Commit(t)
  PROVE  IntakeInv'
  <1>1. /\ t.doc \in Docs /\ t.link \in Links \cup {NoLink} /\ doc[t.doc].type = "absent"
        /\ doc \in [Docs -> Documents!Row] /\ link \in [Links -> Documents!Link]
    BY DEF IntakeInv, Documents!TypeOK, InsertsAreNew
  <1>2. /\ open' = open \ {t} /\ doc' = [doc EXCEPT ![t.doc] = Documents!NewDoc]
        /\ UNCHANGED <<jobs, gaveUp, unasked, day, shared>>
    BY DEF Documents!Commit
  <1>3. Documents!NewDoc \in Documents!Row /\ Documents!NewDoc.type = "none"
    BY DEF Documents!NewDoc, Documents!NoDoc, Documents!Row
  <1>4. \A l \in Links : link'[l] = IF l = t.link
            THEN [status |-> "uploaded", docs |-> link[l].docs \cup {t.doc}] ELSE link[l]
    BY <1>1 DEF Documents!Commit, Documents!IntakeAssumption
  <1>5. link' \in [Links -> Documents!Link]
    <2>1. \A l \in Links : [status |-> "uploaded", docs |-> link[l].docs \cup {t.doc}] \in Documents!Link
      BY <1>1 DEF Documents!Link
    <2>2. CASE t.link = NoLink BY <2>2, <1>1 DEF Documents!Commit
    <2>3. CASE t.link # NoLink
      <3>1. link' = [link EXCEPT ![t.link] =
                        [status |-> "uploaded", docs |-> link[t.link].docs \cup {t.doc}]]
        BY <2>3, <1>1 DEF Documents!Commit
      <3> QED BY <3>1, <2>1, <2>3, <1>1
    <2> QED BY <2>2, <2>3
  <1>6. Documents!TypeOK'
    BY <1>1, <1>2, <1>3, <1>5 DEF IntakeInv, Documents!TypeOK
  <1>7. Watching'
    <2>1. \A d \in Docs : Watched(d) => Watched(d)'
      <3> SUFFICES ASSUME NEW d \in Docs, Watched(d) PROVE Watched(d)' OBVIOUS
      <3>1. \A l \in Links : /\ link[l].docs \subseteq link'[l].docs
                             /\ l = t.link => t.doc \in link'[l].docs
        <4> SUFFICES ASSUME NEW l \in Links
                     PROVE  link[l].docs \subseteq link'[l].docs /\ (l = t.link => t.doc \in link'[l].docs)
          OBVIOUS
        <4>1. CASE l = t.link
          <5>1. link'[l] = [status |-> "uploaded", docs |-> link[l].docs \cup {t.doc}]
            BY <1>4, <4>1
          <5> QED BY <5>1
        <4>2. CASE l # t.link BY <1>4, <4>2
        <4> QED BY <4>1, <4>2
      <3>2. ASSUME d \in unasked, NEW u \in open, u.doc = d, u.link # NoLink
            PROVE  u \in open' \/ \E l \in Links : d \in link'[l].docs
        <4>1. CASE u = t BY <1>1, <3>1, <3>2, <4>1
        <4> QED BY <1>2, <4>1
      <3> QED BY <1>2, <3>1, <3>2 DEF Watched
    <2>2. \A d \in Docs : doc'[d].type = "none" => doc[d].type = "none" \/ d = t.doc
      BY <1>1, <1>2
    <2> QED BY <1>2, <2>1, <2>2 DEF IntakeInv, Watching
  <1>8. InsertsAreNew'
    <2>1. \A u \in open' : u \in open /\ u.doc \in Docs /\ u.doc # t.doc
      BY <1>2 DEF IntakeInv, InsertsAreNew, Documents!TypeOK
    <2>2. \A u \in open' : doc'[u.doc] = doc[u.doc]
      BY <2>1, <1>1, <1>2
    <2> QED BY <2>1, <2>2 DEF IntakeInv, InsertsAreNew
  <1>9. JobsReading'
    <2> SUFFICES ASSUME NEW j \in jobs, j.step = "asking"
                 PROVE  /\ Documents!Committed(j.doc)'
                        /\ j.kind = "classify" /\ j.seen # "none" => doc'[j.doc].type # "none"
      BY <1>2 DEF JobsReading
    <2>1. j.doc \in Docs /\ Documents!Committed(j.doc) BY JobFields DEF IntakeInv, JobsReading
    <2>2. j.doc # t.doc BY <2>1, <1>1 DEF Documents!Committed
    <2>3. doc'[j.doc] = doc[j.doc] BY <2>1, <2>2, <1>1, <1>2
    <2> QED BY <2>1, <2>3 DEF IntakeInv, JobsReading, Documents!Committed
  <1>10. LinksSpent'
    <2> SUFFICES ASSUME NEW l \in Links \ shared
                 PROVE  /\ link'[l].status = "uploaded" => \E d \in Docs : link'[l].docs = {d}
                        /\ link'[l].status # "uploaded" => link'[l].docs = {}
                        /\ \A u \in open' : u.link = l => link'[l].status = "pending"
                        /\ \A u, w \in open' : u.link = l /\ w.link = l => u = w
      BY <1>2 DEF LinksSpent
    <2>0. l \in Links OBVIOUS
    <2>1. CASE l = t.link
      <3>1. link[l].docs = {} /\ \A u \in open' : u.link # l
        BY <2>1, <1>2 DEF IntakeInv, LinksSpent
      <3>2. link'[l] = [status |-> "uploaded", docs |-> link[l].docs \cup {t.doc}]
        BY <2>0, <2>1, <1>4
      <3>3. link'[l].status = "uploaded" /\ link'[l].docs = {t.doc}
        BY <3>1, <3>2
      <3> QED BY <3>1, <3>3, <1>1
    <2>2. CASE l # t.link
      <3>1. link'[l] = link[l] BY <2>0, <2>2, <1>4
      <3>2. \A u \in open' : u \in open BY <1>2
      <3> QED BY <3>1, <3>2 DEF IntakeInv, LinksSpent
    <2> QED BY <2>1, <2>2
  <1> QED BY <1>6, <1>7, <1>8, <1>9, <1>10 DEF IntakeInv

LEMMA RollbackKeeps ==
  ASSUME IntakeInv, NEW t \in open, Documents!Rollback(t)
  PROVE  IntakeInv'
  <1>1. /\ t.doc \in Docs /\ doc[t.doc].type = "absent" /\ doc \in [Docs -> Documents!Row]
    BY DEF IntakeInv, Documents!TypeOK, InsertsAreNew
  <1> DEFINE lost == [doc[t.doc] EXCEPT !.type = "lost"]
  <1>2. lost \in Documents!Row /\ lost.type = "lost" BY <1>1 DEF Documents!Row
  <1>3. /\ open' = open \ {t} /\ doc' = [doc EXCEPT ![t.doc] = lost]
        /\ UNCHANGED <<link, jobs, gaveUp, unasked, day, shared>>
    BY <1>1 DEF Documents!Rollback
  <1> HIDE DEF lost
  <1>4. Documents!TypeOK' BY <1>1, <1>2, <1>3 DEF IntakeInv, Documents!TypeOK
  <1>5. Watching'
    <2> SUFFICES ASSUME NEW d \in Docs, doc'[d].type = "none" \/ \E u \in open' : u.doc = d
                 PROVE  Watched(d)'
      BY DEF Watching
    <2>1. d # t.doc BY <1>1, <1>2, <1>3 DEF IntakeInv, InsertsAreNew
    <2>2. Watched(d) BY <1>1, <1>3, <2>1 DEF IntakeInv, Watching
    <2>3. \A u \in open : u.doc = d => u \in open' BY <1>3, <2>1
    <2> QED BY <1>3, <2>2, <2>3 DEF Watched
  <1>6. InsertsAreNew'
    <2>1. \A u \in open' : u \in open /\ u.doc \in Docs /\ u.doc # t.doc
      BY <1>3 DEF IntakeInv, InsertsAreNew, Documents!TypeOK
    <2>2. \A u \in open' : doc'[u.doc] = doc[u.doc]
      BY <2>1, <1>1, <1>3
    <2> QED BY <2>1, <2>2 DEF IntakeInv, InsertsAreNew
  <1>7. JobsReading'
    <2> SUFFICES ASSUME NEW j \in jobs, j.step = "asking"
                 PROVE  /\ Documents!Committed(j.doc)'
                        /\ j.kind = "classify" /\ j.seen # "none" => doc'[j.doc].type # "none"
      BY <1>3 DEF JobsReading
    <2>1. j.doc \in Docs /\ Documents!Committed(j.doc) BY JobFields DEF IntakeInv, JobsReading
    <2>2. j.doc # t.doc BY <2>1, <1>1 DEF Documents!Committed
    <2>3. doc'[j.doc] = doc[j.doc] BY <2>1, <2>2, <1>1, <1>3
    <2> QED BY <2>1, <2>3 DEF IntakeInv, JobsReading, Documents!Committed
  <1>8. LinksSpent' BY <1>3 DEF IntakeInv, LinksSpent
  <1> QED BY <1>4, <1>5, <1>6, <1>7, <1>8 DEF IntakeInv

LEMMA RequestDocumentKeeps ==
  ASSUME IntakeInv, NEW l \in Links, Documents!RequestDocument(l)
  PROVE  IntakeInv'
  <1> DEFINE asked == [link[l] EXCEPT !.status = "pending"]
  <1>1. /\ link \in [Links -> Documents!Link] /\ link[l].status = "none"
        /\ link' = [link EXCEPT ![l] = asked]
        /\ UNCHANGED <<doc, open, jobs, gaveUp, unasked, day, shared>>
    BY DEF Documents!RequestDocument, IntakeInv, Documents!TypeOK
  <1>2. asked \in Documents!Link /\ asked.status = "pending" /\ asked.docs = link[l].docs
    BY <1>1 DEF Documents!Link
  <1> HIDE DEF asked
  <1>3. Documents!TypeOK' BY <1>1, <1>2 DEF IntakeInv, Documents!TypeOK
  <1>4. Watching'
    <2>1. \A k \in Links : link'[k].docs = link[k].docs BY <1>1, <1>2
    <2>2. \A d \in Docs : Watched(d) => Watched(d)' BY <1>1, <2>1 DEF Watched
    <2> QED BY <1>1, <2>2 DEF IntakeInv, Watching
  <1>5. InsertsAreNew' BY <1>1 DEF IntakeInv, InsertsAreNew
  <1>6. JobsReading' BY <1>1 DEF IntakeInv, JobsReading, Documents!Committed
  <1>7. LinksSpent'
    <2>1. \A k \in Links : link'[k] = IF k = l THEN asked ELSE link[k] BY <1>1
    <2> QED BY <1>1, <1>2, <2>1 DEF IntakeInv, LinksSpent
  <1> QED BY <1>3, <1>4, <1>5, <1>6, <1>7 DEF IntakeInv

LEMMA ConfirmKeeps ==
  ASSUME Documents!IntakeAssumption, IntakeInv, NEW d \in Docs, NEW type \in Types,
         Documents!ConfirmDocType(d, type)
  PROVE  IntakeInv'
  <1> DEFINE new == [doc[d] EXCEPT !.type = type]
  <1>1. doc \in [Docs -> Documents!Row] BY DEF IntakeInv, Documents!TypeOK
  <1>2. new \in Documents!Row /\ new.type = type BY <1>1 DEF Documents!Row
  <1>3. /\ doc' = [doc EXCEPT ![d] = new] /\ Documents!Committed(d)
        /\ UNCHANGED <<link, open, jobs, gaveUp, unasked, day, shared>>
    BY <1>1 DEF Documents!ConfirmDocType
  <1>4. type \notin {"none", "absent", "lost"} BY DEF Documents!IntakeAssumption
  <1> HIDE DEF new
  <1>5. doc' \in [Docs -> Documents!Row] /\ \A e \in Docs : doc'[e] = IF e = d THEN new ELSE doc[e]
    BY <1>1, <1>2, <1>3
  <1>6. jobs \subseteq Documents!Job /\ gaveUp \subseteq Docs BY DEF IntakeInv, Documents!TypeOK
  <1> QED BY <1>2, <1>3, <1>4, <1>5, <1>6, DocStep DEF Documents!Committed, Watched

LEMMA StartKeeps ==
  ASSUME Documents!IntakeAssumption, IntakeInv, NEW j \in jobs, Documents!Start(j)
  PROVE  IntakeInv'
  <1> DEFINE ok == Documents!Committed(j.doc) /\ (j.kind = "extract" => doc[j.doc].type \in Extractable)
             taken == [j EXCEPT !.step = "asking",
                                !.seen = IF j.kind = "classify" THEN doc[j.doc].type ELSE @]
  <1>1. /\ j \in Documents!Job /\ j.doc \in Docs /\ j.kind \in {"classify", "extract"}
        /\ doc \in [Docs -> Documents!Row] /\ j.seen \in Types \cup {"none"}
    BY JobFields DEF IntakeInv, Documents!TypeOK
  <1>2. UNCHANGED <<doc, link, open, unasked, day, shared>> BY DEF Documents!Start
  <1>3. CASE ok
    <2>1. jobs' = (jobs \ {j}) \cup {taken} /\ gaveUp' = gaveUp
      BY <1>3 DEF Documents!Start
    <2>2. doc[j.doc].type \in Types \cup {"none"}
      BY <1>1, <1>3 DEF Documents!Row, Documents!Committed
    <2>3. /\ taken \in Documents!Job /\ taken.doc = j.doc /\ taken.kind = j.kind
          /\ j.kind = "classify" => taken.seen = doc[j.doc].type
      BY <1>1, <2>2 DEF Documents!Job
    <2>4. Documents!Committed(j.doc) BY <1>3
    <2> HIDE DEF taken, ok
    <2>5. Documents!TypeOK' BY <1>2, <2>1, <2>3 DEF IntakeInv, Documents!TypeOK
    <2>6. \A d \in Docs : Watched(d) => Watched(d)'
      BY <1>2, <2>1, <2>3 DEF Watched
    <2>7. Watching' BY <1>2, <2>6 DEF IntakeInv, Watching
    <2>8. InsertsAreNew' BY <1>2 DEF IntakeInv, InsertsAreNew
    <2>9. JobsReading' BY <1>2, <2>1, <2>3, <2>4 DEF IntakeInv, JobsReading, Documents!Committed
    <2>10. LinksSpent' BY <1>2 DEF IntakeInv, LinksSpent
    <2> QED BY <2>5, <2>7, <2>8, <2>9, <2>10 DEF IntakeInv
  <1>4. CASE ~ok
    <2>1. Documents!Retry(j) BY <1>4 DEF Documents!Start
    <2>2. Documents!TypeOK BY DEF IntakeInv
    <2>3. \A d \in Docs : Watched(d) => Watched(d)'
      BY <1>2, <2>1, <2>2, RetryKeeps DEF Watched
    <2> HIDE DEF ok, taken
    <2> QED BY <1>2, <2>1, <2>2, <2>3, RetryKeeps, JobStep
  <1> QED BY <1>3, <1>4

LEMMA ClassifyKeeps ==
  ASSUME Documents!IntakeAssumption, IntakeInv, NEW j \in jobs, NEW guess \in Types,
         NEW confident \in BOOLEAN, Documents!Classify(j, guess, confident)
  PROVE  IntakeInv'
  <1> DEFINE new == [doc[j.doc] EXCEPT !.type = guess]
             more == IF confident /\ guess \in Extractable THEN {Documents!NewJob("extract", j.doc)} ELSE {}
  <1>1. j \in Documents!Job /\ j.doc \in Docs /\ doc \in [Docs -> Documents!Row]
    BY JobFields DEF IntakeInv, Documents!TypeOK
  <1>2. /\ j.kind = "classify" /\ j.step = "asking" /\ jobs' = (jobs \ {j}) \cup more
        /\ UNCHANGED <<link, open, gaveUp, unasked, day, shared>>
    BY DEF Documents!Classify
  <1>3. more \subseteq Documents!Job /\ \A k \in more : k.step = "queued"
    BY <1>1 DEF Documents!NewJob, Documents!Job, Documents!IntakeAssumption
  <1>4. new \in Documents!Row /\ new.type = guess /\ guess \notin {"none", "absent", "lost"}
    BY <1>1 DEF Documents!Row, Documents!IntakeAssumption
  <1>5. doc' = IF guess = j.seen THEN doc ELSE [doc EXCEPT ![j.doc] = new]
    BY <1>1 DEF Documents!Classify
  <1> HIDE DEF new, more
  <1>6. Documents!Committed(j.doc) /\ (j.seen # "none" => doc[j.doc].type # "none")
    BY <1>2 DEF IntakeInv, JobsReading
  <1>7. doc'[j.doc].type # "none" /\ Documents!Committed(j.doc)'
    BY <1>1, <1>4, <1>5, <1>6 DEF Documents!Committed
  <1>8. doc' \in [Docs -> Documents!Row] /\ \A d \in Docs : d = j.doc \/ doc'[d] = doc[d]
    BY <1>1, <1>4, <1>5
  <1>9. jobs' \subseteq Documents!Job /\ gaveUp' \subseteq Docs
    BY <1>2, <1>3 DEF IntakeInv, Documents!TypeOK
  <1>10. \A d \in Docs : d # j.doc => (Watched(d) => Watched(d)')
    BY <1>2 DEF Watched
  <1> QED BY <1>2, <1>3, <1>6, <1>7, <1>8, <1>9, <1>10, DocStep DEF Documents!Committed

LEMMA ExtractKeeps ==
  ASSUME IntakeInv, NEW j \in jobs, Documents!Extract(j)
  PROVE  IntakeInv'
  <1> DEFINE new == [doc[j.doc] EXCEPT !.data = TRUE]
  <1>1. j.doc \in Docs /\ doc \in [Docs -> Documents!Row]
    BY JobFields DEF IntakeInv, Documents!TypeOK
  <1>2. /\ j.kind = "extract" /\ j.step = "asking" /\ jobs' = jobs \ {j}
        /\ doc' = [doc EXCEPT ![j.doc] = new] /\ UNCHANGED <<link, open, gaveUp, unasked, day, shared>>
    BY <1>1 DEF Documents!Extract
  <1>3. new \in Documents!Row /\ new.type = doc[j.doc].type BY <1>1 DEF Documents!Row
  <1> HIDE DEF new
  <1>4. doc' \in [Docs -> Documents!Row] /\ \A d \in Docs : doc'[d] = IF d = j.doc THEN new ELSE doc[d]
    BY <1>1, <1>2, <1>3
  <1>5. Documents!Committed(j.doc) BY <1>2 DEF IntakeInv, JobsReading
  <1>6. jobs' \subseteq Documents!Job /\ gaveUp' \subseteq Docs BY <1>2 DEF IntakeInv, Documents!TypeOK
  <1>7. \A d \in Docs : Watched(d) => Watched(d)' BY <1>2 DEF Watched
  <1> QED BY <1>2, <1>3, <1>4, <1>5, <1>6, <1>7, DocStep DEF Documents!Committed

LEMMA FailKeeps ==
  ASSUME Documents!IntakeAssumption, IntakeInv, NEW j \in jobs, Documents!Fail(j)
  PROVE  IntakeInv'
  <1> DEFINE new == [doc[j.doc] EXCEPT !.data = TRUE]
  <1>1. j.doc \in Docs /\ doc \in [Docs -> Documents!Row] /\ Documents!TypeOK
    BY JobFields DEF IntakeInv, Documents!TypeOK
  <1>2. /\ j.step = "asking" /\ Documents!Retry(j) /\ UNCHANGED <<link, open, unasked, day, shared>>
        /\ doc' = doc \/ doc' = [doc EXCEPT ![j.doc] = new]
    BY <1>1 DEF Documents!Fail
  <1>3. new \in Documents!Row /\ new.type = doc[j.doc].type BY <1>1 DEF Documents!Row
  <1> HIDE DEF new
  <1>4. doc' \in [Docs -> Documents!Row] /\ \A d \in Docs : /\ doc'[d].type = doc[d].type
                                                 /\ (d = j.doc \/ doc'[d] = doc[d])
    BY <1>1, <1>2, <1>3
  <1>5. Documents!Committed(j.doc) BY <1>2 DEF IntakeInv, JobsReading
  <1>6. \A d \in Docs : Watched(d) => Watched(d)'
    BY <1>1, <1>2, RetryKeeps DEF Watched
  <1>7. /\ jobs' \subseteq Documents!Job /\ gaveUp' \subseteq Docs
        /\ \A k \in jobs' : k \in jobs \/ k.step = "queued"
    BY <1>1, <1>2, RetryKeeps
  <1> QED BY <1>2, <1>4, <1>5, <1>6, <1>7, DocStep DEF Documents!Committed

------------------------------------------------------------------------------
LEMMA DocsInit == Documents!IntakeAssumption /\ Documents!Init => IntakeInv
  <1> SUFFICES ASSUME Documents!IntakeAssumption, Documents!Init PROVE IntakeInv OBVIOUS
  <1> USE DEF Documents!Init
  <1>1. Documents!TypeOK
    BY DEF Documents!TypeOK, Documents!Row, Documents!NoDoc, Documents!Link, Documents!IntakeAssumption
  <1>2. Watching /\ InsertsAreNew /\ JobsReading /\ LinksSpent
    BY DEF Watching, InsertsAreNew, JobsReading, LinksSpent, Documents!NoDoc
  <1> QED BY <1>1, <1>2 DEF IntakeInv

LEMMA DocsNext == Documents!IntakeAssumption /\ IntakeInv /\ [Documents!Next]_documentsVars => IntakeInv'
  <1> SUFFICES ASSUME Documents!IntakeAssumption, IntakeInv, [Documents!Next]_documentsVars
       PROVE IntakeInv' OBVIOUS
  <1>1. CASE \E role \in Documents!Roles, l \in Links : Documents!PostRequest(role, l)
    BY <1>1, RequestDocumentKeeps DEF Documents!PostRequest
  <1>2. CASE \E role \in Documents!Roles, d \in Docs : Documents!PostDocument(role, d)
    BY <1>2, InsertKeeps DEF Documents!PostDocument, Documents!RegisterDocument
  <1>3. CASE \E role \in Documents!Roles, d \in Docs, type \in Types : Documents!PostDocType(role, d, type)
    BY <1>3, ConfirmKeeps DEF Documents!PostDocType
  <1>4. CASE \E d \in Docs, l \in Links : Documents!CompleteTokenUpload(d, l)
    <2>1. PICK d \in Docs, l \in Links : Documents!CompleteTokenUpload(d, l) BY <1>4
    <2>2. l \in Links \cup {NoLink} /\ l # NoLink BY DEF Documents!IntakeAssumption
    <2> QED BY <2>1, <2>2, InsertKeeps DEF Documents!CompleteTokenUpload
  <1>5. CASE \E t \in open : Documents!Commit(t) \/ Documents!Rollback(t)
    BY <1>5, CommitKeeps, RollbackKeeps
  <1>6. CASE \E j \in jobs : Documents!Start(j) \/ Documents!Extract(j) \/ Documents!Fail(j)
    BY <1>6, StartKeeps, ExtractKeeps, FailKeeps
  <1>7. CASE \E j \in jobs, guess \in Types, b \in BOOLEAN : Documents!Classify(j, guess, b)
    BY <1>7, ClassifyKeeps
  <1>8. CASE Documents!NextDay
    <2>1. day' \in 0..Expiry
      BY <1>8 DEF Documents!NextDay, IntakeInv, Documents!TypeOK, Documents!IntakeAssumption
    <2>2. UNCHANGED <<doc, link, open, jobs, gaveUp, unasked, shared>> BY <1>8 DEF Documents!NextDay
    <2>3. Documents!TypeOK' BY <2>1, <2>2 DEF IntakeInv, Documents!TypeOK
    <2>4. (Watching /\ InsertsAreNew /\ JobsReading /\ LinksSpent)'
      BY <2>2 DEF IntakeInv, Watching, Watched, InsertsAreNew, JobsReading, Documents!Committed, LinksSpent
    <2> QED BY <2>3, <2>4 DEF IntakeInv
  <1>9. CASE UNCHANGED documentsVars
    <2>1. Documents!TypeOK' BY <1>9 DEF documentsVars, IntakeInv, Documents!TypeOK
    <2>2. (Watching /\ InsertsAreNew /\ JobsReading /\ LinksSpent)'
      BY <1>9 DEF documentsVars, IntakeInv, Watching, Watched, InsertsAreNew, JobsReading,
             Documents!Committed, LinksSpent
    <2> QED BY <2>1, <2>2 DEF IntakeInv
  <1> QED BY <1>1, <1>2, <1>3, <1>4, <1>5, <1>6, <1>7, <1>8, <1>9 DEF Documents!Next

\* IntakeInv is what the promise follows from.
LEMMA DocsCardinality == ASSUME NEW S PROVE Documents!Cardinality(S) = Cardinality(S)
  BY Zenon DEF Documents!Cardinality, Cardinality

LEMMA DocsImplies == IntakeInv => Documents!IntakeComplete
  <1> SUFFICES ASSUME IntakeInv PROVE Documents!NoDocumentForgotten /\ Documents!LinkUsedOnce
    BY DEF Documents!IntakeComplete
  <1>1. Documents!NoDocumentForgotten
    <2> SUFFICES ASSUME NEW d \in Docs, Documents!Committed(d), doc[d].type = "none", d \notin gaveUp
                 PROVE  \/ \E j \in jobs : j.doc = d /\ j.kind = "classify"
                        \/ d \in unasked /\ \E l \in Links : d \in link[l].docs
      BY DEF Documents!NoDocumentForgotten, Documents!GetDocuments, Documents!Documents
    <2>1. \A t \in open : t.doc # d BY DEF IntakeInv, InsertsAreNew
    <2> QED BY <2>1 DEF IntakeInv, Watching, Watched
  <1>2. ASSUME NEW l \in Links \ shared
        PROVE  /\ Cardinality(link[l].docs) <= 1
               /\ link[l].docs # {} <=> link[l].status = "uploaded"
    <2>1. CASE link[l].status = "uploaded"
      <3>1. PICK d \in Docs : link[l].docs = {d} BY <2>1 DEF IntakeInv, LinksSpent
      <3> QED BY <3>1, <2>1, FS_Singleton
    <2>2. CASE link[l].status # "uploaded"
      <3>1. link[l].docs = {} BY <2>2 DEF IntakeInv, LinksSpent
      <3> QED BY <3>1, <2>2, FS_EmptySet
    <2> QED BY <2>1, <2>2
  <1> QED BY <1>1, <1>2, DocsCardinality DEF Documents!LinkUsedOnce
------------------------------------------------------------------------------
(***************************************************************************)
(* The property of the estate.                                             *)
(***************************************************************************)
Statuses == {"none", "gone", "discovered", "valued", "transferred", "distributed"}
BookShapes ==
  /\ asset \in [Assets -> Statuses] /\ held \in [Entities -> SUBSET Assets]
  /\ DOMAIN dists \subseteq 1..MaxDists /\ \A i \in DOMAIN dists : dists[i] \in Estate!Distribution
  /\ messages \in Seq(Estate!Message) /\ Len(messages) <= MaxMessages
  /\ here \subseteq Family /\ writing \subseteq Estate!Request
  /\ overtaken \subseteq Assets \cup (1..MaxMessages)

\* A request names rows its kind has and a status its kind writes.
AssetRequest(r) == r.op \in {"patch", "value", "delete", "distribute"}
RequestFits(r) ==
  /\ AssetRequest(r) => r.on \in Assets \/ (r.op = "distribute" /\ r.on = NoAsset)
  /\ ~AssetRequest(r) => r.on \in DOMAIN messages
  /\ r.op = "patch" => r.target \in {"valued", "transferred", "distributed"}
  /\ r.op = "dispute" => r.target \in {"open", "under_review", "resolved"}

\* The row is as the request read it.
ReadStands(r) ==
  /\ AssetRequest(r) => Estate!Exists(r.on)
  /\ r.op = "patch" => Estate!Index(r.target) > Estate!Index(asset[r.on])
  /\ r.op \in {"value", "distribute"} => asset[r.on] = r.seen
  /\ r.op = "delete" => asset[r.on] = "discovered"
  /\ r.op = "acknowledge" => messages[r.on].acks = r.acks
  /\ r.op = "dispute" => messages[r.on].dispute # "resolved"

RequestsFit == \A r \in writing : RequestFits(r)
ReadsStand == \A r \in writing : r.on # NoAsset /\ r.on \notin overtaken => ReadStands(r)
Distributed == \A i \in DOMAIN dists :
  dists[i].asset \in Assets \ overtaken => asset[dists[i].asset] = "distributed"
HeldExist == \A e \in Entities : \A a \in held[e] : Estate!Exists(a)

BookInv == BookShapes /\ RequestsFit /\ ReadsStand /\ Distributed /\ HeldExist

\* What a step may do to the rows there are.
AssetAdvances(a) ==
  Estate!Exists(a) => \/ asset'[a] = "gone" /\ asset[a] = "discovered"
                      \/ asset'[a] # "gone" /\ Estate!Index(asset'[a]) >= Estate!Index(asset[a])
MessageAdvances(i) ==
  /\ messages[i].acks \subseteq messages'[i].acks
  /\ messages[i].dispute = "resolved" => messages'[i].dispute = "resolved"
AssetsAdvance == \A a \in Assets \ overtaken' : AssetAdvances(a)
MessagesAdvance == \A i \in DOMAIN messages :
  /\ i \in DOMAIN messages' /\ messages'[i].type = messages[i].type
  /\ i \notin overtaken' => MessageAdvances(i)
DistsAdvance == \A i \in DOMAIN dists : dists[i].to \in here' =>
  /\ i \in DOMAIN dists' /\ dists'[i].to = dists[i].to
  /\ dists[i].acked => dists'[i].acked
Advance == AssetsAdvance /\ MessagesAdvance /\ DistsAdvance

LEMMA IndexValues ==
  /\ Estate!Index("discovered") = 1  /\ Estate!Index("valued") = 2
  /\ Estate!Index("transferred") = 3 /\ Estate!Index("distributed") = 4
<1>1. DOMAIN Estate!StatusOrder = 1..4 BY DEF Estate!StatusOrder
<1>2. /\ Estate!StatusOrder[1] = "discovered"  /\ Estate!StatusOrder[2] = "valued"
      /\ Estate!StatusOrder[3] = "transferred" /\ Estate!StatusOrder[4] = "distributed"
  BY DEF Estate!StatusOrder
<1>3. \A i \in 1..4 : i = 1 \/ i = 2 \/ i = 3 \/ i = 4 OBVIOUS
<1>4. \A s : (\E i \in 1..4 : Estate!StatusOrder[i] = s) =>
               Estate!Index(s) \in 1..4 /\ Estate!StatusOrder[Estate!Index(s)] = s
  BY <1>1 DEF Estate!Index
<1> QED BY <1>2, <1>3, <1>4

LEMMA StatusNames == Estate!Statuses = {"discovered", "valued", "transferred", "distributed"}
<1>1. DOMAIN Estate!StatusOrder = 1..4 BY DEF Estate!StatusOrder
<1>2. /\ Estate!StatusOrder[1] = "discovered"  /\ Estate!StatusOrder[2] = "valued"
      /\ Estate!StatusOrder[3] = "transferred" /\ Estate!StatusOrder[4] = "distributed"
  BY DEF Estate!StatusOrder
<1>3. \A i \in 1..4 : i = 1 \/ i = 2 \/ i = 3 \/ i = 4 OBVIOUS
<1> QED BY <1>1, <1>2, <1>3 DEF Estate!Statuses

LEMMA AssetFields ==
  ASSUME BookShapes, NEW a, Estate!Exists(a)
  PROVE  a \in Assets /\ asset[a] \in {"discovered", "valued", "transferred", "distributed"}
         /\ Estate!Index(asset[a]) \in 1..4
<1>1. a \in Assets /\ asset[a] \in {"discovered", "valued", "transferred", "distributed"}
  BY DEF BookShapes, Estate!Exists, Statuses
<1> QED BY <1>1, IndexValues

LEMMA MessageFields ==
  ASSUME BookShapes, NEW i \in DOMAIN messages
  PROVE  /\ messages[i] \in Estate!Message /\ i \in 1..Len(messages) /\ messages[i].acks \subseteq Estate!Mark
         /\ Estate!EstateAssumption => i \in 1..MaxMessages /\ i # NoAsset
<1>1. messages \in Seq(Estate!Message) /\ Len(messages) \in Nat /\ Len(messages) <= MaxMessages
  BY DEF BookShapes
<1>2. messages[i] \in Estate!Message BY <1>1, ElementOfSeq
<1>3. i \in 1..Len(messages) BY <1>1
<1>4. Estate!EstateAssumption => i \in 1..MaxMessages
  BY <1>1, <1>3 DEF Estate!EstateAssumption
<1> QED BY <1>2, <1>3, <1>4 DEF Estate!Message, Estate!EstateAssumption

LEMMA BookInit == ASSUME Estate!EstateAssumption, Estate!Init PROVE BookInv
<1>1. /\ asset = [a \in Assets |-> "none"] /\ held = [e \in Entities |-> {}]
      /\ dists = <<>> /\ messages = <<>> /\ here = Family /\ writing = {} /\ overtaken = {}
  BY DEF Estate!Init
<1>2. DOMAIN dists = {} BY <1>1
<1> QED BY <1>1, <1>2 DEF BookInv, BookShapes, RequestsFit, ReadsStand, Distributed, HeldExist, Statuses,
                           Estate!EstateAssumption

LEMMA AssetsStay == ASSUME BookShapes, asset' = asset PROVE AssetsAdvance
<1> SUFFICES ASSUME NEW a \in Assets, Estate!Exists(a) PROVE AssetAdvances(a)
  BY DEF AssetsAdvance, AssetAdvances
<1>1. asset[a] # "gone" /\ Estate!Index(asset[a]) \in 1..4 BY AssetFields DEF Estate!Exists
<1> QED BY <1>1 DEF AssetAdvances

LEMMA MessagesStay ==
  ASSUME \A i \in DOMAIN messages : i \in DOMAIN messages' /\ messages'[i] = messages[i]
  PROVE  MessagesAdvance
  BY DEF MessagesAdvance, MessageAdvances

LEMMA DistsStay ==
  ASSUME \A i \in DOMAIN dists : dists[i].to \in here' => i \in DOMAIN dists' /\ dists'[i] = dists[i]
  PROVE  DistsAdvance
  BY DEF DistsAdvance

LEMMA MessageAppended ==
  ASSUME Estate!EstateAssumption, BookShapes, NEW m \in Estate!Message, Len(messages) < MaxMessages,
         messages' = Append(messages, m)
  PROVE  /\ messages' \in Seq(Estate!Message) /\ Len(messages') <= MaxMessages
         /\ \A i \in DOMAIN messages : i \in DOMAIN messages' /\ messages'[i] = messages[i]
<1>1. messages \in Seq(Estate!Message) /\ MaxMessages \in Nat
  BY DEF BookShapes, Estate!EstateAssumption
<1>2. messages' \in Seq(Estate!Message) /\ Len(messages') = Len(messages) + 1 BY <1>1
<1>3. \A i \in DOMAIN messages : i \in DOMAIN messages' /\ messages'[i] = messages[i] BY <1>1
<1> QED BY <1>1, <1>2, <1>3

\* Rows a request has not read change, or none does: what requests read stands.
LEMMA OthersStand ==
  ASSUME RequestsFit, ReadsStand, writing' \subseteq writing, overtaken \subseteq overtaken', NEW x,
         \A o \in writing' : o.on = x /\ o.on # NoAsset => o.on \in overtaken',
         \A a \in Assets : a # x => asset'[a] = asset[a],
         \A i \in DOMAIN messages : i \in DOMAIN messages' /\ (i # x => messages'[i] = messages[i])
  PROVE  RequestsFit' /\ ReadsStand'
<1>1. RequestsFit' BY DEF RequestsFit, RequestFits, AssetRequest
<1>2. ASSUME NEW o \in writing', o.on # NoAsset, o.on \notin overtaken' PROVE ReadStands(o)'
  <2>1. ReadStands(o) /\ RequestFits(o) /\ o.on # x BY <1>2 DEF ReadsStand, RequestsFit
  <2>2. CASE AssetRequest(o)
    <3>1. o.on \in Assets /\ asset'[o.on] = asset[o.on] BY <1>2, <2>1, <2>2 DEF RequestFits
    <3> QED BY <2>1, <2>2, <3>1 DEF ReadStands, AssetRequest, Estate!Exists
  <2>3. CASE ~AssetRequest(o)
    <3>1. messages'[o.on] = messages[o.on] BY <2>1, <2>3 DEF RequestFits
    <3> QED BY <2>1, <2>3, <3>1 DEF ReadStands, AssetRequest
  <2> QED BY <2>2, <2>3
<1> QED BY <1>1, <1>2 DEF ReadsStand

\* A request begins.
LEMMA BookBegins ==
  ASSUME BookInv, NEW r \in Estate!Request, Estate!Begin(r), RequestFits(r),
         r.on # NoAsset => ReadStands(r)
  PROVE  BookInv' /\ Advance
<1>1. writing' = writing \cup {r} /\ UNCHANGED <<asset, held, dists, messages, here, overtaken>>
  BY DEF Estate!Begin
<1>2. BookShapes' BY <1>1 DEF BookInv, BookShapes
<1>3. RequestsFit' BY <1>1 DEF BookInv, RequestsFit, RequestFits, AssetRequest
<1>4. ReadsStand'
  <2>1. \A o \in writing' : o.on # NoAsset /\ o.on \notin overtaken => ReadStands(o)
    BY <1>1 DEF BookInv, ReadsStand
  <2>2. \A o : ReadStands(o)' <=> ReadStands(o) BY <1>1 DEF ReadStands, AssetRequest, Estate!Exists
  <2> QED BY <1>1, <2>1, <2>2 DEF ReadsStand
<1>5. Distributed' /\ HeldExist'
  BY <1>1 DEF BookInv, Distributed, HeldExist, Estate!Exists
<1>6. Advance BY <1>1, AssetsStay, MessagesStay, DistsStay DEF BookInv, Advance
<1> QED BY <1>2, <1>3, <1>4, <1>5, <1>6 DEF BookInv

\* A request writes: it is overtaken where another has read the same row.
LEMMA FinishMarks ==
  ASSUME Estate!EstateAssumption, BookInv, NEW r \in writing, Estate!Finish(r)
  PROVE  /\ writing' = writing \ {r} /\ overtaken \subseteq overtaken'
         /\ overtaken' \subseteq Assets \cup (1..MaxMessages)
         /\ \A o \in writing' : o.on = r.on /\ o.on # NoAsset => o.on \in overtaken'
         /\ r.on # NoAsset /\ r.on \notin overtaken' => ReadStands(r)
<1>1. /\ writing' = writing \ {r}
      /\ overtaken' = IF r.on # NoAsset /\ \E o \in writing \ {r} : o.on = r.on
                      THEN overtaken \cup {r.on} ELSE overtaken
  BY DEF Estate!Finish
<1>2. r.on # NoAsset => r.on \in Assets \cup (1..MaxMessages)
  <2>1. r.on \in DOMAIN messages => r.on \in 1..MaxMessages BY MessageFields DEF BookInv
  <2> QED BY <2>1 DEF BookInv, RequestsFit, RequestFits
<1>3. overtaken' \subseteq Assets \cup (1..MaxMessages) BY <1>1, <1>2 DEF BookInv, BookShapes
<1> QED BY <1>1, <1>3 DEF BookInv, ReadsStand

LEMMA BookFinishes ==
  ASSUME Estate!EstateAssumption, BookInv, NEW r \in writing, Estate!Finish(r), here' = here,
         asset' \in [Assets -> Statuses] /\ held' \in [Entities -> SUBSET Assets],
         DOMAIN dists' \subseteq 1..MaxDists /\ \A i \in DOMAIN dists' : dists'[i] \in Estate!Distribution,
         messages' \in Seq(Estate!Message) /\ Len(messages') <= MaxMessages,
         Distributed', HeldExist',
         \A a \in Assets : a # r.on => asset'[a] = asset[a],
         \A i \in DOMAIN messages : i \in DOMAIN messages' /\ (i # r.on => messages'[i] = messages[i])
  PROVE  BookInv'
<1>1. /\ writing' \subseteq writing /\ overtaken \subseteq overtaken'
      /\ overtaken' \subseteq Assets \cup (1..MaxMessages)
      /\ \A o \in writing' : o.on = r.on /\ o.on # NoAsset => o.on \in overtaken'
  BY FinishMarks
<1>2. BookShapes' BY <1>1 DEF BookInv, BookShapes
<1>3. RequestsFit' /\ ReadsStand' BY <1>1, OthersStand DEF BookInv
<1> QED BY <1>2, <1>3 DEF BookInv

\* A request that fails writes nothing.
LEMMA BookFails ==
  ASSUME Estate!EstateAssumption, BookInv, NEW r \in writing, Estate!Finish(r), here' = here,
         UNCHANGED <<asset, held, dists, messages>>
  PROVE  BookInv' /\ Advance
<1>1. overtaken \subseteq overtaken' BY FinishMarks
<1>2. Distributed' BY <1>1 DEF BookInv, Distributed
<1>3. HeldExist' BY DEF BookInv, HeldExist, Estate!Exists
<1>4. BookInv' BY <1>2, <1>3, BookFinishes DEF BookInv, BookShapes
<1> QED BY <1>4, AssetsStay, MessagesStay, DistsStay DEF BookInv, Advance

\* The status of an asset is written: never below the one it has, unless overtaken.
LEMMA StatusWritten ==
  ASSUME Estate!EstateAssumption, BookInv, NEW r \in writing, Estate!Finish(r), here' = here,
         NEW status \in {"valued", "transferred", "distributed"}, Estate!Exists(r.on),
         asset' = [asset EXCEPT ![r.on] = status], UNCHANGED <<held, dists, messages>>,
         r.on \notin overtaken' => Estate!Index(status) > Estate!Index(asset[r.on])
  PROVE  BookInv' /\ Advance
<1>1. overtaken \subseteq overtaken' BY FinishMarks
<1>2. r.on \in Assets /\ asset[r.on] # "gone" BY DEF Estate!Exists
<1>3. /\ asset' \in [Assets -> Statuses] /\ asset'[r.on] = status
      /\ \A a \in Assets : a # r.on => asset'[a] = asset[a]
  BY <1>2 DEF BookInv, BookShapes, Statuses
<1>4. Estate!Index(status) \in 1..4 /\ Estate!Index(asset[r.on]) \in 1..4
  BY IndexValues, AssetFields DEF BookInv
<1>5. r.on \notin overtaken' => asset[r.on] # "distributed" BY <1>4, IndexValues
<1>6. Distributed' BY <1>1, <1>2, <1>3, <1>5 DEF BookInv, Distributed
<1>7. HeldExist'
  <2>1. \A a : Estate!Exists(a) => Estate!Exists(a)' BY <1>3 DEF Estate!Exists
  <2> QED BY <2>1 DEF BookInv, HeldExist
<1>8. BookInv' BY <1>3, <1>6, <1>7, BookFinishes DEF BookInv, BookShapes
<1>9. AssetsAdvance
  <2> SUFFICES ASSUME NEW a \in Assets \ overtaken', Estate!Exists(a) PROVE AssetAdvances(a)
    BY DEF AssetsAdvance, AssetAdvances
  <2>1. CASE a = r.on BY <1>3, <1>4, <2>1 DEF AssetAdvances
  <2>2. CASE a # r.on
    <3>1. asset[a] # "gone" /\ Estate!Index(asset[a]) \in 1..4 BY AssetFields DEF BookInv, Estate!Exists
    <3> QED BY <1>3, <2>2, <3>1 DEF AssetAdvances
  <2> QED BY <2>1, <2>2
<1> QED BY <1>8, <1>9, MessagesStay, DistsStay DEF Advance

LEMMA UpdateFinishes ==
  ASSUME Estate!EstateAssumption, BookInv, NEW r \in writing, Estate!FinishUpdate(r)
  PROVE  BookInv' /\ Advance
<1>1. r.op = "patch" /\ Estate!Finish(r) /\ here' = here BY DEF Estate!FinishUpdate
<1>2. CASE Estate!Exists(r.on)
  <2>1. asset' = [asset EXCEPT ![r.on] = r.target] /\ UNCHANGED <<held, dists, messages>>
    BY <1>2 DEF Estate!FinishUpdate
  <2>2. r.target \in {"valued", "transferred", "distributed"}
    BY <1>1 DEF BookInv, RequestsFit, RequestFits
  <2>3. r.on # NoAsset BY <1>2 DEF Estate!Exists, Estate!EstateAssumption
  <2>4. r.on \notin overtaken' => Estate!Index(r.target) > Estate!Index(asset[r.on])
    BY <1>1, <2>3, FinishMarks DEF ReadStands
  <2> QED BY <1>1, <1>2, <2>1, <2>2, <2>4, StatusWritten
<1>3. CASE ~Estate!Exists(r.on)
  BY <1>1, <1>3, BookFails DEF Estate!FinishUpdate, Estate!Fail
<1> QED BY <1>2, <1>3

LEMMA ValuationFinishes ==
  ASSUME Estate!EstateAssumption, BookInv, NEW r \in writing, Estate!FinishValuation(r)
  PROVE  BookInv' /\ Advance
<1>1. r.op = "value" /\ Estate!Finish(r) /\ here' = here BY DEF Estate!FinishValuation
<1>2. CASE Estate!Exists(r.on) /\ r.seen = "discovered"
  <2>1. asset' = [asset EXCEPT ![r.on] = "valued"] /\ UNCHANGED <<held, dists, messages>>
    BY <1>2 DEF Estate!FinishValuation
  <2>2. r.on # NoAsset BY <1>2 DEF Estate!Exists, Estate!EstateAssumption
  <2>3. r.on \notin overtaken' => asset[r.on] = "discovered"
    BY <1>1, <1>2, <2>2, FinishMarks DEF ReadStands
  <2>4. r.on \notin overtaken' => Estate!Index("valued") > Estate!Index(asset[r.on])
    BY <2>3, IndexValues
  <2> QED BY <1>1, <1>2, <2>1, <2>4, StatusWritten
<1>3. CASE ~(Estate!Exists(r.on) /\ r.seen = "discovered")
  BY <1>1, <1>3, BookFails DEF Estate!FinishValuation, Estate!Fail
<1> QED BY <1>2, <1>3

LEMMA DeleteFinishes ==
  ASSUME Estate!EstateAssumption, BookInv, NEW r \in writing, Estate!FinishDelete(r)
  PROVE  BookInv' /\ Advance
<1> DEFINE a == r.on
<1>1. /\ r.op = "delete" /\ Estate!Finish(r) /\ here' = here /\ messages' = messages
      /\ asset' = [asset EXCEPT ![a] = "gone"] /\ held' = [e \in Entities |-> held[e] \ {a}]
      /\ dists' = [i \in DOMAIN dists |-> IF dists[i].asset = a
                                          THEN [dists[i] EXCEPT !.asset = NoAsset] ELSE dists[i]]
  BY DEF Estate!FinishDelete
<1>2. a \in Assets /\ a # NoAsset
  BY <1>1 DEF BookInv, RequestsFit, RequestFits, AssetRequest, Estate!EstateAssumption
<1>3. a \notin overtaken' => asset[a] = "discovered"
  BY <1>1, <1>2, FinishMarks DEF ReadStands
<1>4. overtaken \subseteq overtaken' BY <1>1, FinishMarks
<1>5. /\ asset' \in [Assets -> Statuses] /\ asset'[a] = "gone"
      /\ \A b \in Assets : b # a => asset'[b] = asset[b]
  BY <1>1, <1>2 DEF BookInv, BookShapes, Statuses
<1>6. held' \in [Entities -> SUBSET Assets] /\ \A e \in Entities : held'[e] = held[e] \ {a}
  BY <1>1 DEF BookInv, BookShapes
<1>7. DOMAIN dists' = DOMAIN dists BY <1>1
<1>8. ASSUME NEW i \in DOMAIN dists
      PROVE  /\ dists'[i] \in Estate!Distribution /\ dists'[i].to = dists[i].to
             /\ dists'[i].acked = dists[i].acked
             /\ dists'[i].asset \in Assets => dists'[i].asset = dists[i].asset /\ dists[i].asset # a
  <2>1. dists[i] \in Estate!Distribution BY DEF BookInv, BookShapes
  <2>2. NoAsset \notin Assets BY DEF Estate!EstateAssumption
  <2>3. CASE dists[i].asset = a
    <3>1. dists'[i] = [dists[i] EXCEPT !.asset = NoAsset] BY <1>1, <2>3
    <3> QED BY <2>1, <2>2, <3>1 DEF Estate!Distribution
  <2>4. CASE dists[i].asset # a
    <3>1. dists'[i] = dists[i] BY <1>1, <2>4
    <3> QED BY <2>1, <2>4, <3>1 DEF Estate!Distribution
  <2> QED BY <2>3, <2>4
<1> HIDE DEF a
<1>9. Distributed' BY <1>4, <1>5, <1>7, <1>8 DEF BookInv, Distributed
<1>10. HeldExist'
  <2>1. \A b : b # a /\ Estate!Exists(b) => Estate!Exists(b)' BY <1>5 DEF Estate!Exists
  <2> QED BY <1>6, <2>1 DEF BookInv, HeldExist
<1>11. BookInv'
  <2>1. /\ DOMAIN dists' \subseteq 1..MaxDists /\ \A i \in DOMAIN dists' : dists'[i] \in Estate!Distribution
        /\ messages' \in Seq(Estate!Message) /\ Len(messages') <= MaxMessages
    BY <1>1, <1>7, <1>8 DEF BookInv, BookShapes
  <2>2. /\ \A b \in Assets : b # r.on => asset'[b] = asset[b]
        /\ \A i \in DOMAIN messages : i \in DOMAIN messages' /\ (i # r.on => messages'[i] = messages[i])
    BY <1>1, <1>5 DEF a
  <2> QED BY <1>1, <1>5, <1>6, <1>9, <1>10, <2>1, <2>2, BookFinishes
<1>12. AssetsAdvance
  <2> SUFFICES ASSUME NEW b \in Assets \ overtaken', Estate!Exists(b) PROVE AssetAdvances(b)
    BY DEF AssetsAdvance, AssetAdvances
  <2>1. CASE b = a BY <1>3, <1>5, <2>1 DEF AssetAdvances
  <2>2. CASE b # a
    <3>1. asset[b] # "gone" /\ Estate!Index(asset[b]) \in 1..4 BY AssetFields DEF BookInv, Estate!Exists
    <3> QED BY <1>5, <2>2, <3>1 DEF AssetAdvances
  <2> QED BY <2>1, <2>2
<1>13. DistsAdvance BY <1>7, <1>8 DEF DistsAdvance
<1> QED BY <1>1, <1>11, <1>12, <1>13, MessagesStay DEF Advance

\* A distribution is put on record under an id of its own.
LEMMA Recorded ==
  ASSUME BookInv, DOMAIN dists # 1..MaxDists, NEW d \in Estate!Distribution, Estate!Record(d)
  PROVE  /\ DOMAIN dists' \subseteq 1..MaxDists /\ \A i \in DOMAIN dists' : dists'[i] \in Estate!Distribution
         /\ \A i \in DOMAIN dists : i \in DOMAIN dists' /\ dists'[i] = dists[i]
         /\ \A i \in DOMAIN dists' : i \in DOMAIN dists \/ dists'[i] = d
<1>1. DOMAIN dists \subseteq 1..MaxDists /\ \A i \in DOMAIN dists : dists[i] \in Estate!Distribution
  BY DEF BookInv, BookShapes
<1>2. Estate!FreeId \in 1..MaxDists /\ Estate!FreeId \notin DOMAIN dists
  <2>1. \E i \in 1..MaxDists : i \notin DOMAIN dists BY <1>1
  <2> QED BY <2>1 DEF Estate!FreeId
<1>3. dists' = [i \in DOMAIN dists \cup {Estate!FreeId} |-> IF i = Estate!FreeId THEN d ELSE dists[i]]
  BY DEF Estate!Record
<1> QED BY <1>1, <1>2, <1>3

LEMMA DistributionFinishes ==
  ASSUME Estate!EstateAssumption, BookInv, NEW r \in writing, Estate!FinishDistribution(r)
  PROVE  BookInv' /\ Advance
<1> DEFINE ok == r.by \in here /\ r.to \in here /\ (r.on = NoAsset \/ Estate!Exists(r.on))
           d == [asset |-> r.on, to |-> r.to, acked |-> FALSE]
           m == [type |-> "notice", sender |-> r.by, acks |-> {}, dispute |-> "none"]
<1>1. /\ r.op = "distribute" /\ Estate!Finish(r) /\ here' = here
      /\ DOMAIN dists # 1..MaxDists /\ Len(messages) < MaxMessages
  BY DEF Estate!FinishDistribution
<1>2. CASE ~ok BY <1>1, <1>2, BookFails DEF Estate!FinishDistribution, Estate!Fail
<1>3. CASE ok
  <2>1. /\ Estate!Record(d) /\ messages' = Append(messages, m) /\ held' = held
        /\ asset' = IF r.on = NoAsset \/ r.seen = "distributed" THEN asset
                    ELSE [asset EXCEPT ![r.on] = "distributed"]
    BY <1>3 DEF Estate!FinishDistribution
  <2>2. here \subseteq Family /\ r.by \in Family /\ r.to \in Family
    BY <1>3 DEF BookInv, BookShapes
  <2>3. r.on \in Assets \cup {NoAsset} /\ (r.on \in Assets => Estate!Exists(r.on) /\ r.on # NoAsset)
    BY <1>3 DEF Estate!Exists, Estate!EstateAssumption
  <2>4. d \in Estate!Distribution /\ m \in Estate!Message /\ d.asset = r.on
    BY <2>2, <2>3 DEF Estate!Distribution, Estate!Message
  <2> HIDE DEF d, m, ok
  <2>5. /\ messages' \in Seq(Estate!Message) /\ Len(messages') <= MaxMessages
        /\ \A i \in DOMAIN messages : i \in DOMAIN messages' /\ messages'[i] = messages[i]
    BY <1>1, <2>1, <2>4, MessageAppended DEF BookInv
  <2>6. /\ DOMAIN dists' \subseteq 1..MaxDists /\ \A i \in DOMAIN dists' : dists'[i] \in Estate!Distribution
        /\ \A i \in DOMAIN dists : i \in DOMAIN dists' /\ dists'[i] = dists[i]
        /\ \A i \in DOMAIN dists' : i \in DOMAIN dists \/ dists'[i] = d
    BY <1>1, <2>1, <2>4, Recorded
  <2>7. /\ asset' \in [Assets -> Statuses] /\ \A a \in Assets : a # r.on => asset'[a] = asset[a]
        /\ r.on \in Assets => asset'[r.on] \in {asset[r.on], "distributed"}
    BY <2>1, <2>3 DEF BookInv, BookShapes, Statuses
  <2>8. r.on \in Assets /\ r.on \notin overtaken' => asset'[r.on] = "distributed"
    <3>1. r.on \in Assets /\ r.on \notin overtaken' => asset[r.on] = r.seen
      BY <1>1, <2>3, FinishMarks DEF ReadStands
    <3>2. r.on \in Assets => asset'[r.on] = IF r.seen = "distributed" THEN asset[r.on] ELSE "distributed"
      BY <2>1, <2>3 DEF BookInv, BookShapes
    <3> QED BY <3>1, <3>2
  <2>9. overtaken \subseteq overtaken' BY <1>1, FinishMarks
  <2>10. Distributed'
    <3> SUFFICES ASSUME NEW i \in DOMAIN dists', dists'[i].asset \in Assets \ overtaken'
                 PROVE  asset'[dists'[i].asset] = "distributed"
      BY DEF Distributed
    <3>1. CASE dists'[i] = d BY <2>4, <2>8, <3>1
    <3>2. CASE i \in DOMAIN dists
      <4>1. dists'[i] = dists[i] /\ asset[dists[i].asset] = "distributed"
        BY <2>6, <2>9, <3>2 DEF BookInv, Distributed
      <4> QED BY <2>7, <4>1
    <3> QED BY <2>6, <3>1, <3>2
  <2>11. HeldExist'
    <3>1. \A a : Estate!Exists(a) => Estate!Exists(a)' BY <2>7 DEF Estate!Exists
    <3> QED BY <2>1, <3>1 DEF BookInv, HeldExist
  <2>12. BookInv'
    <3>1. held' \in [Entities -> SUBSET Assets] BY <2>1 DEF BookInv, BookShapes
    <3> QED BY <1>1, <2>5, <2>6, <2>7, <2>10, <2>11, <3>1, BookFinishes
  <2>13. AssetsAdvance
    <3> SUFFICES ASSUME NEW a \in Assets \ overtaken', Estate!Exists(a) PROVE AssetAdvances(a)
      BY DEF AssetsAdvance, AssetAdvances
    <3>1. asset[a] # "gone" /\ Estate!Index(asset[a]) \in 1..4 BY AssetFields DEF BookInv, Estate!Exists
    <3>2. asset'[a] \in {asset[a], "distributed"} BY <2>7
    <3> QED BY <3>1, <3>2, IndexValues DEF AssetAdvances
  <2>14. MessagesAdvance /\ DistsAdvance BY <2>5, <2>6, MessagesStay, DistsStay
  <2> QED BY <2>12, <2>13, <2>14 DEF Advance
<1> QED BY <1>2, <1>3

\* A message's row is written.
LEMMA MessageWritten ==
  ASSUME Estate!EstateAssumption, BookInv, NEW r \in writing, Estate!Finish(r), here' = here,
         r.on \in DOMAIN messages, UNCHANGED <<asset, held, dists>>,
         NEW m \in Estate!Message, messages' = [messages EXCEPT ![r.on] = m],
         m.type = messages[r.on].type,
         r.on \notin overtaken' => /\ messages[r.on].acks \subseteq m.acks
                                   /\ messages[r.on].dispute = "resolved" => m.dispute = "resolved"
  PROVE  BookInv' /\ Advance
<1>1. overtaken \subseteq overtaken' BY FinishMarks
<1>2. messages \in Seq(Estate!Message) /\ r.on \in 1..Len(messages) /\ DOMAIN messages = 1..Len(messages)
  BY DEF BookInv, BookShapes
<1>3. /\ messages' \in Seq(Estate!Message) /\ Len(messages') = Len(messages)
      /\ \A i \in DOMAIN messages : i \in DOMAIN messages' /\ messages'[i] = IF i = r.on THEN m ELSE messages[i]
  <2> DEFINE new == [messages EXCEPT ![r.on] = m]
  <2>1. /\ new \in Seq(Estate!Message) /\ Len(new) = Len(messages)
        /\ \A i \in 1..Len(messages) : new[i] = IF i = r.on THEN m ELSE messages[i]
    BY <1>2, ExceptSeq
  <2>2. DOMAIN new = DOMAIN messages OBVIOUS
  <2> QED BY <1>2, <2>1, <2>2
<1>4. Distributed' BY <1>1 DEF BookInv, Distributed
<1>5. HeldExist' BY DEF BookInv, HeldExist, Estate!Exists
<1>6. BookInv'
  <2>1. Len(messages') <= MaxMessages BY <1>3 DEF BookInv, BookShapes
  <2>2. \A i \in DOMAIN messages : i \in DOMAIN messages' /\ (i # r.on => messages'[i] = messages[i])
    BY <1>3
  <2>3. /\ asset' \in [Assets -> Statuses] /\ held' \in [Entities -> SUBSET Assets]
        /\ DOMAIN dists' \subseteq 1..MaxDists /\ \A i \in DOMAIN dists' : dists'[i] \in Estate!Distribution
        /\ \A a \in Assets : asset'[a] = asset[a]
    BY DEF BookInv, BookShapes
  <2> QED BY <1>3, <1>4, <1>5, <2>1, <2>2, <2>3, BookFinishes
<1>7. MessagesAdvance
  <2> SUFFICES ASSUME NEW i \in DOMAIN messages
               PROVE  /\ i \in DOMAIN messages' /\ messages'[i].type = messages[i].type
                      /\ i \notin overtaken' => MessageAdvances(i)
    BY DEF MessagesAdvance
  <2>1. CASE i = r.on BY <1>3, <2>1 DEF MessageAdvances
  <2>2. CASE i # r.on BY <1>3, <2>2 DEF MessageAdvances
  <2> QED BY <2>1, <2>2
<1> QED BY <1>6, <1>7, AssetsStay, DistsStay DEF BookInv, Advance

LEMMA AcknowledgeFinishes ==
  ASSUME Estate!EstateAssumption, BookInv, NEW r \in writing, Estate!FinishAcknowledge(r)
  PROVE  BookInv' /\ Advance
<1> DEFINE m == [messages[r.on] EXCEPT !.acks = r.acks \cup {r.mark}]
<1>1. /\ r.op = "acknowledge" /\ Estate!Finish(r) /\ UNCHANGED <<asset, held, dists, here>>
      /\ messages' = [messages EXCEPT ![r.on].acks = r.acks \cup {r.mark}]
  BY DEF Estate!FinishAcknowledge
<1>2. r.on \in DOMAIN messages BY <1>1 DEF BookInv, RequestsFit, RequestFits, AssetRequest
<1>3. r.on # NoAsset /\ messages[r.on] \in Estate!Message BY <1>2, MessageFields DEF BookInv
<1>4. r.acks \subseteq Estate!Mark /\ r.mark \in Estate!Mark
  BY DEF BookInv, BookShapes, Estate!Request
<1>5. messages' = [messages EXCEPT ![r.on] = m] BY Zenon, <1>1
<1>6. /\ m \in Estate!Message /\ m.type = messages[r.on].type /\ m.dispute = messages[r.on].dispute
      /\ m.acks = r.acks \cup {r.mark}
  BY <1>3, <1>4 DEF Estate!Message
<1> HIDE DEF m
<1>7. r.on \notin overtaken' => messages[r.on].acks = r.acks
  BY <1>1, <1>3, FinishMarks DEF ReadStands
<1>8. r.on \notin overtaken' => /\ messages[r.on].acks \subseteq m.acks
                                /\ messages[r.on].dispute = "resolved" => m.dispute = "resolved"
  BY <1>6, <1>7
<1> QED BY <1>1, <1>2, <1>5, <1>6, <1>8, MessageWritten

LEMMA DisputeFinishes ==
  ASSUME Estate!EstateAssumption, BookInv, NEW r \in writing, Estate!FinishDispute(r)
  PROVE  BookInv' /\ Advance
<1> DEFINE m == [messages[r.on] EXCEPT !.dispute = r.target]
<1>1. /\ r.op = "dispute" /\ Estate!Finish(r) /\ UNCHANGED <<asset, held, dists, here>>
      /\ messages' = [messages EXCEPT ![r.on].dispute = r.target]
  BY DEF Estate!FinishDispute
<1>2. r.on \in DOMAIN messages /\ r.target \in {"open", "under_review", "resolved"}
  BY <1>1 DEF BookInv, RequestsFit, RequestFits, AssetRequest
<1>3. r.on # NoAsset /\ messages[r.on] \in Estate!Message BY <1>2, MessageFields DEF BookInv
<1>4. messages' = [messages EXCEPT ![r.on] = m] BY Zenon, <1>1
<1>5. /\ m \in Estate!Message /\ m.type = messages[r.on].type /\ m.acks = messages[r.on].acks
  BY <1>2, <1>3 DEF Estate!Message
<1> HIDE DEF m
<1>6. r.on \notin overtaken' => messages[r.on].dispute # "resolved"
  BY <1>1, <1>3, FinishMarks DEF ReadStands
<1> QED BY <1>1, <1>2, <1>4, <1>5, <1>6, MessageWritten

\* What no request is waiting on: a new asset, the links, the receipts, a new
\* message, a beneficiary who leaves.
LEMMA BookMoves ==
  ASSUME BookInv, UNCHANGED <<writing, overtaken>>, BookShapes', Distributed', HeldExist',
         \A a \in Assets : Estate!Exists(a) => asset'[a] = asset[a],
         \A i \in DOMAIN messages : i \in DOMAIN messages' /\ messages'[i] = messages[i],
         DistsAdvance
  PROVE  BookInv' /\ Advance
<1>1. RequestsFit' BY DEF BookInv, RequestsFit, RequestFits, AssetRequest
<1>2. ReadsStand'
  <2> SUFFICES ASSUME NEW o \in writing, ReadStands(o), RequestFits(o) PROVE ReadStands(o)'
    BY DEF BookInv, ReadsStand, RequestsFit
  <2>1. CASE AssetRequest(o)
    <3>1. Estate!Exists(o.on) /\ asset'[o.on] = asset[o.on]
      BY <2>1 DEF ReadStands, Estate!Exists
    <3> QED BY <2>1, <3>1 DEF ReadStands, AssetRequest, Estate!Exists
  <2>2. CASE ~AssetRequest(o)
    <3>1. messages'[o.on] = messages[o.on] BY <2>2 DEF RequestFits
    <3> QED BY <2>2, <3>1 DEF ReadStands, AssetRequest
  <2> QED BY <2>1, <2>2
<1>3. AssetsAdvance
  <2> SUFFICES ASSUME NEW a \in Assets, Estate!Exists(a) PROVE AssetAdvances(a)
    BY DEF AssetsAdvance, AssetAdvances
  <2>1. asset[a] # "gone" /\ Estate!Index(asset[a]) \in 1..4 /\ asset'[a] = asset[a]
    BY AssetFields DEF BookInv, Estate!Exists
  <2> QED BY <2>1 DEF AssetAdvances
<1> QED BY <1>1, <1>2, <1>3, MessagesStay DEF BookInv, Advance

LEMMA CreateAssetKeeps ==
  ASSUME BookInv, NEW a \in Assets, Estate!CreateAsset(a)
  PROVE  BookInv' /\ Advance
<1>1. /\ asset[a] = "none" /\ asset' = [asset EXCEPT ![a] = "discovered"]
      /\ UNCHANGED <<held, dists, messages, here, writing, overtaken>>
  BY DEF Estate!CreateAsset
<1>2. /\ asset' \in [Assets -> Statuses] /\ asset'[a] = "discovered"
      /\ \A b \in Assets : b # a => asset'[b] = asset[b]
  BY <1>1 DEF BookInv, BookShapes, Statuses
<1>3. BookShapes' BY <1>1, <1>2 DEF BookInv, BookShapes
<1>4. Distributed' BY <1>1, <1>2 DEF BookInv, Distributed
<1>5. HeldExist'
  <2>1. \A b : Estate!Exists(b) => Estate!Exists(b)' BY <1>2 DEF Estate!Exists
  <2> QED BY <1>1, <2>1 DEF BookInv, HeldExist
<1>6. \A b \in Assets : Estate!Exists(b) => asset'[b] = asset[b] BY <1>1, <1>2 DEF Estate!Exists
<1> QED BY <1>1, <1>3, <1>4, <1>5, <1>6, BookMoves, DistsStay

LEMMA LinksKeep ==
  ASSUME BookInv, NEW e \in Entities, NEW assets \in SUBSET Assets, \A a \in assets : Estate!Exists(a),
         held' = [held EXCEPT ![e] = assets], UNCHANGED <<asset, dists, messages, here, writing, overtaken>>
  PROVE  BookInv' /\ Advance
<1>1. held' \in [Entities -> SUBSET Assets] /\ \A f \in Entities : held'[f] = IF f = e THEN assets ELSE held[f]
  BY DEF BookInv, BookShapes
<1>2. BookShapes' BY <1>1 DEF BookInv, BookShapes
<1>3. Distributed' BY DEF BookInv, Distributed
<1>4. HeldExist' BY <1>1 DEF BookInv, HeldExist, Estate!Exists
<1> QED BY <1>2, <1>3, <1>4, BookMoves, DistsStay

LEMMA ReceiptKeeps ==
  ASSUME BookInv, NEW s, NEW i \in DOMAIN dists, Estate!AcknowledgeReceipt(s, i)
  PROVE  BookInv' /\ Advance
<1> DEFINE d == [dists[i] EXCEPT !.acked = TRUE]
<1>1. dists' = [dists EXCEPT ![i].acked = TRUE] /\ UNCHANGED <<asset, held, messages, here, writing, overtaken>>
  BY DEF Estate!AcknowledgeReceipt
<1>2. dists[i] \in Estate!Distribution BY DEF BookInv, BookShapes
<1>3. dists' = [dists EXCEPT ![i] = d] BY Zenon, <1>1
<1>4. d \in Estate!Distribution /\ d.to = dists[i].to /\ d.asset = dists[i].asset /\ d.acked = TRUE
  BY <1>2 DEF Estate!Distribution
<1> HIDE DEF d
<1>5. DOMAIN dists' = DOMAIN dists /\ \A j \in DOMAIN dists : dists'[j] = IF j = i THEN d ELSE dists[j]
  BY <1>3
<1>6. BookShapes' BY <1>1, <1>4, <1>5 DEF BookInv, BookShapes
<1>7. Distributed' BY <1>1, <1>4, <1>5 DEF BookInv, Distributed
<1>8. HeldExist' BY <1>1 DEF BookInv, HeldExist, Estate!Exists
<1>9. DistsAdvance BY <1>4, <1>5 DEF DistsAdvance
<1> QED BY <1>1, <1>6, <1>7, <1>8, <1>9, BookMoves

LEMMA SendKeeps ==
  ASSUME Estate!EstateAssumption, BookInv, NEW s, NEW type \in {"notice", "dispute", "message"},
         NEW dispute \in {"none", "open"}, Estate!Send(s, type, dispute)
  PROVE  BookInv' /\ Advance
<1> DEFINE m == [type |-> type, sender |-> s, acks |-> {}, dispute |-> dispute]
<1>1. /\ s \in here /\ Len(messages) < MaxMessages /\ messages' = Append(messages, m)
      /\ UNCHANGED <<asset, held, dists, here, writing, overtaken>>
  BY DEF Estate!Send
<1>2. m \in Estate!Message BY <1>1 DEF BookInv, BookShapes, Estate!Message
<1> HIDE DEF m
<1>3. /\ messages' \in Seq(Estate!Message) /\ Len(messages') <= MaxMessages
      /\ \A i \in DOMAIN messages : i \in DOMAIN messages' /\ messages'[i] = messages[i]
  BY <1>1, <1>2, MessageAppended DEF BookInv
<1>4. BookShapes' BY <1>1, <1>3 DEF BookInv, BookShapes
<1>5. Distributed' BY <1>1 DEF BookInv, Distributed
<1>6. HeldExist' BY <1>1 DEF BookInv, HeldExist, Estate!Exists
<1> QED BY <1>1, <1>3, <1>4, <1>5, <1>6, BookMoves, DistsStay

LEMMA RemovalKeeps ==
  ASSUME BookInv, NEW s, NEW t, Estate!RemoveBeneficiary(s, t)
  PROVE  BookInv' /\ Advance
<1>1. /\ here' = here \ {t} /\ UNCHANGED <<asset, held, messages, writing, overtaken>>
      /\ dists' = [i \in {j \in DOMAIN dists : dists[j].to # t} |-> dists[i]]
  BY DEF Estate!RemoveBeneficiary
<1>2. /\ DOMAIN dists' \subseteq DOMAIN dists
      /\ \A i \in DOMAIN dists' : dists'[i] = dists[i]
      /\ \A i \in DOMAIN dists : dists[i].to # t => i \in DOMAIN dists'
  BY <1>1
<1>3. BookShapes' BY <1>1, <1>2 DEF BookInv, BookShapes
<1>4. Distributed' BY <1>1, <1>2 DEF BookInv, Distributed
<1>5. HeldExist' BY <1>1 DEF BookInv, HeldExist, Estate!Exists
<1>6. DistsAdvance BY <1>1, <1>2, DistsStay
<1> QED BY <1>1, <1>3, <1>4, <1>5, <1>6, BookMoves

LEMMA BlankRequest ==
  /\ Estate!Blank \in Estate!Request /\ <<"row", Staff>> \in Estate!Mark
  /\ Estate!Blank = [op |-> "patch", on |-> NoAsset, seen |-> "none", acks |-> {}, mark |-> <<"row", Staff>>,
                     by |-> Staff, target |-> "none", to |-> Staff]
<1>1. <<"row", Staff>> \in Estate!Mark BY DEF Estate!Mark
<1> QED BY <1>1 DEF Estate!Blank, Estate!Request

LEMMA UpdateBegins ==
  ASSUME Estate!EstateAssumption, BookInv, NEW a \in Assets,
         NEW target \in {"valued", "transferred", "distributed"}, Estate!BeginUpdate(a, target)
  PROVE  BookInv' /\ Advance
<1> DEFINE r == [Estate!Blank EXCEPT !.op = "patch", !.on = a, !.target = target]
<1>1. Estate!Exists(a) /\ Estate!Index(target) > Estate!Index(asset[a]) /\ Estate!Begin(r)
  BY DEF Estate!BeginUpdate
<1>2. r \in Estate!Request /\ r.op = "patch" /\ r.on = a /\ r.target = target
  BY BlankRequest, StatusNames DEF Estate!Request
<1> HIDE DEF r
<1>3. RequestFits(r) BY <1>2 DEF RequestFits, AssetRequest
<1>4. ReadStands(r) BY <1>1, <1>2 DEF ReadStands, AssetRequest
<1> QED BY <1>1, <1>2, <1>3, <1>4, BookBegins

LEMMA ValuationBegins ==
  ASSUME Estate!EstateAssumption, BookInv, NEW a \in Assets, Estate!BeginValuation(a)
  PROVE  BookInv' /\ Advance
<1> DEFINE r == [Estate!Blank EXCEPT !.op = "value", !.on = a, !.seen = asset[a]]
<1>1. Estate!Exists(a) /\ Estate!Begin(r) BY DEF Estate!BeginValuation
<1>2. asset[a] \in Estate!Statuses BY <1>1, AssetFields, StatusNames DEF BookInv
<1>3. r \in Estate!Request /\ r.op = "value" /\ r.on = a /\ r.seen = asset[a]
  BY <1>2, BlankRequest DEF Estate!Request
<1> HIDE DEF r
<1>4. RequestFits(r) BY <1>3 DEF RequestFits, AssetRequest
<1>5. ReadStands(r) BY <1>1, <1>3 DEF ReadStands, AssetRequest
<1> QED BY <1>1, <1>3, <1>4, <1>5, BookBegins

LEMMA DeleteBegins ==
  ASSUME Estate!EstateAssumption, BookInv, NEW a \in Assets, Estate!BeginDelete(a)
  PROVE  BookInv' /\ Advance
<1> DEFINE r == [Estate!Blank EXCEPT !.op = "delete", !.on = a]
<1>1. Estate!Exists(a) /\ asset[a] = "discovered" /\ Estate!Begin(r) BY DEF Estate!BeginDelete
<1>2. r \in Estate!Request /\ r.op = "delete" /\ r.on = a BY BlankRequest DEF Estate!Request
<1> HIDE DEF r
<1>3. RequestFits(r) BY <1>2 DEF RequestFits, AssetRequest
<1>4. ReadStands(r) BY <1>1, <1>2 DEF ReadStands, AssetRequest
<1> QED BY <1>1, <1>2, <1>3, <1>4, BookBegins

LEMMA DistributionBegins ==
  ASSUME Estate!EstateAssumption, BookInv, NEW s \in Estate!Actors, NEW to \in Estate!Actors,
         NEW a \in Assets \cup {NoAsset}, Estate!BeginDistribution(s, a, to)
  PROVE  BookInv' /\ Advance
<1> DEFINE seen == IF a = NoAsset THEN "none" ELSE asset[a]
           r == [Estate!Blank EXCEPT !.op = "distribute", !.on = a, !.by = s, !.to = to, !.seen = seen]
<1>1. (a = NoAsset \/ Estate!Exists(a)) /\ Estate!Begin(r) BY DEF Estate!BeginDistribution
<1>2. seen \in {"none"} \cup Estate!Statuses /\ (a # NoAsset => seen = asset[a])
  BY <1>1, AssetFields, StatusNames DEF BookInv
<1>3. s \in Family \cup {Staff} /\ to \in Family \cup {Staff} BY DEF BookInv, BookShapes, Estate!Actors
<1> HIDE DEF seen
<1>4. r \in Estate!Request /\ r.op = "distribute" /\ r.on = a /\ r.seen = seen
  BY <1>2, <1>3, BlankRequest DEF Estate!Request
<1> HIDE DEF r
<1>5. RequestFits(r) BY <1>4 DEF RequestFits, AssetRequest
<1>6. r.on # NoAsset => ReadStands(r) BY <1>1, <1>2, <1>4 DEF ReadStands, AssetRequest
<1> QED BY <1>1, <1>4, <1>5, <1>6, BookBegins

LEMMA AcknowledgeBegins ==
  ASSUME Estate!EstateAssumption, BookInv, NEW s \in Estate!Actors, NEW i \in DOMAIN messages,
         NEW how \in {"row", "user"}, Estate!BeginAcknowledge(s, i, how)
  PROVE  BookInv' /\ Advance
<1> DEFINE r == [Estate!Blank EXCEPT !.op = "acknowledge", !.on = i, !.mark = <<how, s>>,
                                     !.acks = messages[i].acks]
<1>1. Estate!Begin(r) BY DEF Estate!BeginAcknowledge
<1>2. s \in Family \cup {Staff} BY DEF BookInv, BookShapes, Estate!Actors
<1>3. <<how, s>> \in Estate!Mark BY <1>2 DEF Estate!Mark
<1>4. messages[i].acks \subseteq Estate!Mark /\ i \in 1..MaxMessages BY MessageFields DEF BookInv
<1>5. r \in Estate!Request /\ r.op = "acknowledge" /\ r.on = i /\ r.acks = messages[i].acks
  BY <1>3, <1>4, BlankRequest DEF Estate!Request
<1> HIDE DEF r
<1>6. RequestFits(r) BY <1>5 DEF RequestFits, AssetRequest
<1>7. ReadStands(r) BY <1>5 DEF ReadStands, AssetRequest
<1> QED BY <1>1, <1>5, <1>6, <1>7, BookBegins

LEMMA DisputeBegins ==
  ASSUME Estate!EstateAssumption, BookInv, NEW i \in DOMAIN messages,
         NEW target \in {"open", "under_review", "resolved"}, Estate!BeginDispute(i, target)
  PROVE  BookInv' /\ Advance
<1> DEFINE r == [Estate!Blank EXCEPT !.op = "dispute", !.on = i, !.target = target]
           current == IF messages[i].dispute = "none" THEN "open" ELSE messages[i].dispute
<1>1. <<current, target>> \in Estate!Moves /\ Estate!Begin(r) BY DEF Estate!BeginDispute
<1>2. messages[i].dispute # "resolved" BY <1>1 DEF Estate!Moves
<1>3. i \in 1..MaxMessages BY MessageFields DEF BookInv
<1>4. r \in Estate!Request /\ r.op = "dispute" /\ r.on = i /\ r.target = target
  BY <1>3, BlankRequest DEF Estate!Request
<1> HIDE DEF r
<1>5. RequestFits(r) BY <1>4 DEF RequestFits, AssetRequest
<1>6. ReadStands(r) BY <1>2, <1>4 DEF ReadStands, AssetRequest
<1> QED BY <1>1, <1>4, <1>5, <1>6, BookBegins

LEMMA BookNext ==
  ASSUME Estate!EstateAssumption, BookInv, Estate!Next
  PROVE  BookInv' /\ Advance
<1>1. ASSUME NEW s \in Estate!Actors, NEW a \in Assets,
             \/ Estate!PostAsset(s, a) \/ Estate!PostValuation(s, a) \/ Estate!RemoveAsset(s, a)
             \/ \E target \in {"valued", "transferred", "distributed"} : Estate!PatchAsset(s, a, target)
      PROVE  BookInv' /\ Advance
  BY <1>1, CreateAssetKeeps, ValuationBegins, DeleteBegins, UpdateBegins
     DEF Estate!PostAsset, Estate!PostValuation, Estate!RemoveAsset, Estate!PatchAsset
<1>2. ASSUME NEW s \in Estate!Actors, NEW e \in Entities,
             \/ \E assets \in SUBSET Assets :
                  Estate!PostEntity(s, e, assets) \/ Estate!PatchEntity(s, e, assets)
             \/ Estate!RemoveEntity(s, e)
      PROVE  BookInv' /\ Advance
  <2>1. CASE Estate!RemoveEntity(s, e)
    <3>1. /\ {} \in SUBSET Assets /\ \A a \in {} : Estate!Exists(a)
          /\ held' = [held EXCEPT ![e] = {}]
          /\ UNCHANGED <<asset, dists, messages, here, writing, overtaken>>
      BY <2>1 DEF Estate!RemoveEntity, Estate!DeleteEntity
    <3> QED BY <3>1, LinksKeep
  <2>2. ASSUME NEW assets \in SUBSET Assets,
               Estate!PostEntity(s, e, assets) \/ Estate!PatchEntity(s, e, assets)
        PROVE  BookInv' /\ Advance
    <3>1. /\ \A a \in assets : Estate!Exists(a)
          /\ held' = [held EXCEPT ![e] = assets]
          /\ UNCHANGED <<asset, dists, messages, here, writing, overtaken>>
      BY <2>2 DEF Estate!PostEntity, Estate!PatchEntity, Estate!CreateEntity, Estate!UpdateEntity,
                  Estate!SetAssetLinks
    <3> QED BY <3>1, LinksKeep
  <2> QED BY <1>2, <2>1, <2>2
<1>3. ASSUME NEW s \in Estate!Actors, NEW t \in Estate!Actors,
             \/ \E a \in Assets \cup {NoAsset} : Estate!PostDistribution(s, a, t)
             \/ Estate!RemoveBeneficiary(s, t)
      PROVE  BookInv' /\ Advance
  BY <1>3, DistributionBegins, RemovalKeeps DEF Estate!PostDistribution
<1>4. ASSUME NEW s \in Estate!Actors, \E i \in DOMAIN dists : Estate!PostReceipt(s, i)
      PROVE  BookInv' /\ Advance
  BY <1>4, ReceiptKeeps DEF Estate!PostReceipt
<1>5. ASSUME NEW s \in Estate!Actors,
             \/ \E type \in {"notice", "dispute"} : Estate!PostCommunication(s, type)
             \/ Estate!PostDisputeFlag(s) \/ Estate!PostPortalMessage(s)
      PROVE  BookInv' /\ Advance
  BY <1>5, SendKeeps DEF Estate!PostCommunication, Estate!PostDisputeFlag, Estate!PostPortalMessage,
       Estate!CreateCommunication, Estate!CreateDisputeFlag, Estate!PostBeneficiaryMessage
<1>6. ASSUME NEW s \in Estate!Actors, NEW i \in DOMAIN messages,
             \/ Estate!PostAcknowledgement(s, i) \/ Estate!AcknowledgeNotice(s, i)
             \/ \E target \in {"open", "under_review", "resolved"} : Estate!PutDispute(s, i, target)
      PROVE  BookInv' /\ Advance
  BY <1>6, AcknowledgeBegins, DisputeBegins
     DEF Estate!PostAcknowledgement, Estate!AcknowledgeNotice, Estate!PutDispute,
         Estate!AcknowledgeDistributionNotice
<1>7. ASSUME NEW r \in writing,
             \/ Estate!FinishUpdate(r)       \/ Estate!FinishValuation(r)   \/ Estate!FinishDelete(r)
             \/ Estate!FinishDistribution(r) \/ Estate!FinishAcknowledge(r) \/ Estate!FinishDispute(r)
      PROVE  BookInv' /\ Advance
  BY <1>7, UpdateFinishes, ValuationFinishes, DeleteFinishes, DistributionFinishes,
     AcknowledgeFinishes, DisputeFinishes
<1> QED BY <1>1, <1>2, <1>3, <1>4, <1>5, <1>6, <1>7 DEF Estate!Next

LEMMA BookStep ==
  ASSUME Estate!EstateAssumption, BookInv, [Estate!Next]_estateVars
  PROVE  BookInv' /\ Advance
<1>1. CASE UNCHANGED estateVars
  <2>1. UNCHANGED <<asset, held, dists, messages, here, writing, overtaken>> BY <1>1 DEF estateVars
  <2>2. BookShapes' BY <2>1 DEF BookInv, BookShapes
  <2>3. Distributed' /\ HeldExist' BY <2>1 DEF BookInv, Distributed, HeldExist, Estate!Exists
  <2> QED BY <2>1, <2>2, <2>3, BookMoves, DistsStay
<1> QED BY <1>1, BookNext

LEMMA BookImplies ==
  ASSUME Estate!EstateAssumption, BookInv
  PROVE  Estate!TypeOK /\ Estate!BooksAgree
<1>1. Estate!TypeOK
  <2>1. \A i \in DOMAIN messages : messages[i] \in Estate!Message BY MessageFields DEF BookInv
  <2>2. asset \in [Assets -> {"none", "gone"} \cup Estate!Statuses]
    BY StatusNames DEF BookInv, BookShapes, Statuses
  <2> QED BY <2>1, <2>2 DEF BookInv, BookShapes, Estate!TypeOK
<1>2. Estate!BooksAgree
  <2>1. \A a \in Assets : Estate!Exists(a) <=> \/ a \in Estate!Unassigned
                                               \/ \E e \in Entities : a \in held[e]
    BY DEF BookInv, BookShapes, HeldExist, Estate!Unassigned
  <2>2. Estate!EntityMap.unassigned = Estate!Unassigned BY DEF Estate!EntityMap
  <2> QED BY <2>1, <2>2 DEF BookInv, Distributed, Estate!BooksAgree
<1> QED BY <1>1, <1>2

Receipts(s) == {i \in DOMAIN dists : dists[i].to = s /\ dists[i].acked = TRUE}
NoticesSent == {i \in DOMAIN messages : messages[i].type = "notice"}
Unread(s) == {i \in NoticesSent : <<"user", s>> \notin messages[i].acks}

\* The counts the endpoints show are of finite sets, which grow and shrink as the
\* rows do.
LEMMA CountsAdvance ==
  ASSUME Estate!EstateAssumption, BookShapes, BookShapes', Advance, NEW s, s \in here'
  PROVE  /\ Cardinality(Receipts(s)') >= Cardinality(Receipts(s))
         /\ overtaken' = {} /\ Cardinality(NoticesSent') = Cardinality(NoticesSent) =>
              Cardinality(Unread(s)') <= Cardinality(Unread(s))
<1>1. MaxDists \in Nat BY DEF Estate!EstateAssumption
<1>2. IsFiniteSet(Receipts(s)')
  <2>1. IsFiniteSet(1..MaxDists) BY <1>1, FS_Interval
  <2>2. Receipts(s)' \subseteq 1..MaxDists BY DEF BookShapes, Receipts
  <2> QED BY <2>1, <2>2, FS_Subset
<1>3. Receipts(s) \subseteq Receipts(s)'
  <2> SUFFICES ASSUME NEW i \in DOMAIN dists, dists[i].to = s, dists[i].acked = TRUE
               PROVE  i \in DOMAIN dists' /\ dists'[i].to = s /\ dists'[i].acked = TRUE
    BY DEF Receipts
  <2>1. i \in DOMAIN dists' /\ dists'[i].to = s /\ dists'[i].acked BY DEF Advance, DistsAdvance
  <2>2. dists'[i].acked \in BOOLEAN BY <2>1 DEF BookShapes, Estate!Distribution
  <2> QED BY <2>1, <2>2
<1>4. Cardinality(Receipts(s)') \in Nat /\ Cardinality(Receipts(s)) \in Nat
      /\ Cardinality(Receipts(s)) <= Cardinality(Receipts(s)')
  BY <1>2, <1>3, FS_Subset, FS_CardinalityType
<1>5. IsFiniteSet(NoticesSent')
  <2>1. DOMAIN messages' = 1..Len(messages') /\ Len(messages') \in Nat BY DEF BookShapes
  <2>2. NoticesSent' \subseteq 1..Len(messages') BY <2>1 DEF NoticesSent
  <2>3. IsFiniteSet(1..Len(messages')) BY <2>1, FS_Interval
  <2> QED BY <2>2, <2>3, FS_Subset
<1>6. NoticesSent \subseteq NoticesSent' BY DEF NoticesSent, Advance, MessagesAdvance
<1>7. ASSUME overtaken' = {}, Cardinality(NoticesSent') = Cardinality(NoticesSent)
      PROVE  Cardinality(Unread(s)') <= Cardinality(Unread(s))
  <2>1. NoticesSent = NoticesSent' BY <1>5, <1>6, <1>7, FS_Subset
  <2>2. Unread(s)' \subseteq Unread(s)
    BY <1>7, <2>1 DEF Unread, NoticesSent, Advance, MessagesAdvance, MessageAdvances
  <2>3. Unread(s) \subseteq NoticesSent BY DEF Unread
  <2>4. IsFiniteSet(Unread(s)) BY <1>5, <2>1, <2>3, FS_Subset
  <2> QED BY <2>2, <2>4, FS_Subset
<1> QED BY <1>4, <1>7

LEMMA EstateCardinality == ASSUME NEW S PROVE Estate!Cardinality(S) = Cardinality(S)
  BY Zenon DEF Estate!Cardinality, Cardinality

LEMMA BookTakesNothingBack ==
  ASSUME Estate!EstateAssumption, BookInv, BookInv', Advance
  PROVE  Estate!TakesNothingBack
<1>1. ASSUME NEW s \in here \cap here'
      PROVE  /\ Estate!GetSummary[s].acknowledged = Cardinality(Receipts(s))
             /\ Estate!GetSummary'[s].acknowledged = Cardinality(Receipts(s)')
             /\ Estate!PortalOverview(s).notices = Cardinality(NoticesSent)
             /\ Estate!PortalOverview(s)'.notices = Cardinality(NoticesSent')
             /\ Estate!PortalOverview(s).pending = Cardinality(Unread(s))
             /\ Estate!PortalOverview(s)'.pending = Cardinality(Unread(s)')
  BY <1>1, EstateCardinality
     DEF Estate!GetSummary, Estate!Summary, Estate!PortalOverview, Receipts, NoticesSent, Unread
<1>2. ASSUME NEW s \in here \cap here'
      PROVE  /\ Estate!GetSummary'[s].acknowledged >= Estate!GetSummary[s].acknowledged
             /\ overtaken' = {} /\ Estate!PortalOverview(s)'.notices = Estate!PortalOverview(s).notices =>
                  Estate!PortalOverview(s)'.pending <= Estate!PortalOverview(s).pending
  BY <1>1, <1>2, CountsAdvance DEF BookInv
<1>3. \A a \in Assets \ overtaken' :
        Estate!Exists(a) => \/ asset'[a] = "gone" /\ asset[a] = "discovered"
                            \/ asset'[a] # "gone" /\ Estate!Index(asset'[a]) >= Estate!Index(asset[a])
  BY DEF Advance, AssetsAdvance, AssetAdvances
<1>4. \A i \in (DOMAIN messages) \ overtaken' :
        /\ messages[i].acks \subseteq messages'[i].acks
        /\ messages[i].dispute = "resolved" =>
             messages'[i].dispute = "resolved" /\ i \notin Estate!ActiveDisputes'
  BY DEF Advance, MessagesAdvance, MessageAdvances, Estate!ActiveDisputes
<1> QED BY <1>2, <1>3, <1>4 DEF Estate!TakesNothingBack
------------------------------------------------------------------------------
(***************************************************************************)
(* Sums over finite sets.  Folds says that g sums up the subsets of U, an  *)
(* element of each chosen after the other, as the folds the models use do. *)
(* Every fact about all finite sets is proved by a set it fails for that   *)
(* contains no other such set (Minimal).                                   *)
(***************************************************************************)
Chosen(s) == CHOOSE x \in s : TRUE
Folds(g, w, U) ==
  g = [s \in SUBSET U |-> IF s = {} THEN 0 ELSE w[Chosen(s)] + g[s \ {Chosen(s)}]]
SumOver(w, U) == (CHOOSE g : Folds(g, w, U))[U]

LEMMA ChosenIn == ASSUME NEW s, s # {} PROVE Chosen(s) \in s
  BY DEF Chosen

LEMMA Minimal ==
  ASSUME NEW S, IsFiniteSet(S), NEW T, T \subseteq SUBSET S, T # {}
  PROVE  \E m \in T : \A u \in T : u \subseteq m => u = m
<1>1. IsWellFoundedOn(StrictSubsetOrdering(S), SUBSET S)
  BY FS_StrictSubsetOrderingWellFounded, FS_FiniteSubsetsOfFinite
<1>2. PICK m \in T : \A u \in T : ~(<<u, m>> \in StrictSubsetOrdering(S))
  BY <1>1, WFMin, Zenon
<1>3. \A u \in T : u \subseteq m => u = m
  BY <1>2 DEF StrictSubsetOrdering
<1> QED BY <1>3

LEMMA FoldsAt ==
  ASSUME NEW w, NEW U, NEW g, Folds(g, w, U), NEW s \in SUBSET U
  PROVE  /\ s = {} => g[s] = 0
         /\ s # {} => g[s] = w[Chosen(s)] + g[s \ {Chosen(s)}]
<1>1. g[s] = IF s = {} THEN 0 ELSE w[Chosen(s)] + g[s \ {Chosen(s)}] BY DEF Folds
<1> QED BY <1>1

LEMMA FoldsAgree ==
  ASSUME NEW w, NEW U, IsFiniteSet(U), NEW V, NEW g, NEW h, Folds(g, w, U), Folds(h, w, V)
  PROVE  \A s \in SUBSET (U \cap V) : g[s] = h[s]
<1> DEFINE T == {s \in SUBSET (U \cap V) : g[s] # h[s]}
<1> SUFFICES ASSUME T # {} PROVE FALSE OBVIOUS
<1>1. IsFiniteSet(U \cap V) /\ T \subseteq SUBSET (U \cap V) BY FS_Intersection
<1> HIDE DEF T
<1>2. PICK m \in T : \A u \in T : u \subseteq m => u = m BY <1>1, Minimal
<1> USE DEF T
<1>3. m \in SUBSET U /\ m \in SUBSET V /\ g[m] # h[m] OBVIOUS
<1>4. m # {} BY <1>3, FoldsAt
<1>5. Chosen(m) \in m BY <1>4, ChosenIn
<1>6. m \ {Chosen(m)} \notin T BY <1>2, <1>5
<1>7. g[m \ {Chosen(m)}] = h[m \ {Chosen(m)}] BY <1>3, <1>6
<1> QED BY <1>3, <1>4, <1>7, FoldsAt

\* A sum over a finite set is well defined.
LEMMA FoldExists ==
  ASSUME NEW w, NEW U, IsFiniteSet(U)
  PROVE  \E g : Folds(g, w, U)
<1> DEFINE T == {V \in SUBSET U : ~ \E g : Folds(g, w, V)}
<1> SUFFICES ASSUME T # {} PROVE FALSE OBVIOUS
<1>0. T \subseteq SUBSET U OBVIOUS
<1> HIDE DEF T
<1>1. PICK m \in T : \A u \in T : u \subseteq m => u = m BY <1>0, Minimal
<1> USE DEF T
<1>2. \A V \in SUBSET m : V # m => \E g : Folds(g, w, V) BY <1>1
<1> DEFINE part(V) == CHOOSE g : Folds(g, w, V)
           at(V) == part(V)[V]
           g == [s \in SUBSET m |-> IF s = {} THEN 0 ELSE w[Chosen(s)] + at(s \ {Chosen(s)})]
           k == [s \in SUBSET m |-> IF s = {} THEN 0 ELSE w[Chosen(s)] + g[s \ {Chosen(s)}]]
<1>3. \A V \in SUBSET m : V # m => Folds(part(V), w, V) BY <1>2
<1>4. \A V \in SUBSET m : IsFiniteSet(V) BY <1>1, FS_Subset
<1>5. ASSUME NEW V \in SUBSET m, V # m PROVE g[V] = at(V)
  <2>1. Folds(part(V), w, V) /\ V \in SUBSET V BY <1>3, <1>5
  <2>2. CASE V = {} BY <2>1, <2>2, FoldsAt
  <2>3. CASE V # {}
    <3> DEFINE R == V \ {Chosen(V)}
    <3>1. Chosen(V) \in V BY <2>3, ChosenIn
    <3>2. R \in SUBSET m /\ R # m /\ R \in SUBSET V /\ R \in SUBSET R BY <1>5, <3>1
    <3>3. Folds(part(R), w, R) BY <1>3, <3>2
    <3>4. part(R)[R] = part(V)[R] 
      <4>1. R \in SUBSET (V \cap R) BY <3>2
      <4> HIDE DEF part, R
      <4> QED BY <1>4, <2>1, <3>3, <4>1, FoldsAgree
    <3>5. part(V)[V] = w[Chosen(V)] + part(V)[R] BY <2>1, <2>3, FoldsAt
    <3>6. g[V] = w[Chosen(V)] + at(R) BY <1>5, <2>3
    <3> QED BY <3>4, <3>5, <3>6
  <2> QED BY <2>2, <2>3
<1>6. ASSUME NEW s \in SUBSET m PROVE g[s] = k[s]
  <2>1. CASE s = {} BY <2>1
  <2>2. CASE s # {}
    <3>1. Chosen(s) \in s BY <2>2, ChosenIn
    <3>2. s \ {Chosen(s)} \in SUBSET m /\ s \ {Chosen(s)} # m BY <1>6, <3>1
    <3> HIDE DEF at
    <3>3. g[s] = w[Chosen(s)] + at(s \ {Chosen(s)}) BY <2>2, <1>6
    <3> QED BY <2>2, <1>5, <3>2, <3>3
  <2> QED BY <2>1, <2>2
<1> HIDE DEF at
<1>7. g = k BY <1>6
<1> HIDE DEF g
<1>8. Folds(g, w, m) BY <1>7 DEF Folds
<1> QED BY <1>1, <1>8

LEMMA SumFolds ==
  ASSUME NEW w, NEW U, IsFiniteSet(U)
  PROVE  \E g : Folds(g, w, U) /\ \A s \in SUBSET U : g[s] = SumOver(w, s)
<1> DEFINE g == CHOOSE f : Folds(f, w, U)
<1>1. Folds(g, w, U) BY FoldExists
<1>2. ASSUME NEW s \in SUBSET U PROVE g[s] = SumOver(w, s)
  <2> DEFINE h == CHOOSE f : Folds(f, w, s)
  <2>1. Folds(h, w, s) BY FoldExists, FS_Subset
  <2> HIDE DEF g, h
  <2>2. s \in SUBSET (U \cap s) OBVIOUS
  <2>3. g[s] = h[s] BY <1>1, <2>1, <2>2, FoldsAgree
  <2> QED BY <2>3 DEF SumOver, h
<1> HIDE DEF g
<1> QED BY <1>1, <1>2

LEMMA SumIs ==
  ASSUME NEW w, NEW U, IsFiniteSet(U), NEW g, Folds(g, w, U)
  PROVE  g[U] = SumOver(w, U)
<1>1. PICK h : Folds(h, w, U) /\ \A s \in SUBSET U : h[s] = SumOver(w, s) BY SumFolds
<1>2. U \in SUBSET (U \cap U) OBVIOUS
<1>3. g[U] = h[U] BY <1>1, <1>2, FoldsAgree
<1> QED BY <1>1, <1>3

LEMMA SumStep ==
  ASSUME NEW w, NEW U, IsFiniteSet(U)
  PROVE  /\ SumOver(w, {}) = 0
         /\ U # {} => SumOver(w, U) = w[Chosen(U)] + SumOver(w, U \ {Chosen(U)})
<1>1. PICK g : Folds(g, w, U) /\ \A s \in SUBSET U : g[s] = SumOver(w, s)
  BY SumFolds
<1>2. {} \in SUBSET U /\ U \in SUBSET U /\ U \ {Chosen(U)} \in SUBSET U OBVIOUS
<1>3. g[{}] = 0
  <2>1. g = [s \in SUBSET U |-> IF s = {} THEN 0 ELSE w[Chosen(s)] + g[s \ {Chosen(s)}]]
    BY <1>1 DEF Folds
  <2> QED BY <1>2, <2>1
<1>4. U # {} => g[U] = w[Chosen(U)] + g[U \ {Chosen(U)}] BY <1>1, <1>2, FoldsAt
<1> QED BY <1>1, <1>2, <1>3, <1>4

LEMMA SumNat ==
  ASSUME NEW U, IsFiniteSet(U), NEW w, \A x \in U : w[x] \in Nat
  PROVE  SumOver(w, U) \in Nat
<1> DEFINE T == {V \in SUBSET U : SumOver(w, V) \notin Nat}
<1> SUFFICES ASSUME T # {} PROVE FALSE OBVIOUS
<1>0. T \subseteq SUBSET U OBVIOUS
<1> HIDE DEF T
<1>1. PICK m \in T : \A u \in T : u \subseteq m => u = m BY <1>0, Minimal
<1> USE DEF T
<1>2. IsFiniteSet(m) BY FS_Subset
<1>3. m # {}
  <2>1. SumOver(w, {}) = 0 BY <1>2, SumStep
  <2>2. SumOver(w, m) \notin Nat OBVIOUS
  <2> QED BY <2>1, <2>2
<1>4. Chosen(m) \in m BY <1>3, ChosenIn
<1>5. SumOver(w, m \ {Chosen(m)}) \in Nat BY <1>1, <1>4
<1> QED BY <1>2, <1>3, <1>4, <1>5, SumStep

\* Any element may be taken out first.
LEMMA SumTake ==
  ASSUME NEW U, IsFiniteSet(U), NEW w, \A x \in U : w[x] \in Nat, NEW x \in U
  PROVE  SumOver(w, U) = w[x] + SumOver(w, U \ {x})
<1> DEFINE Bad(V) == \E y \in V : SumOver(w, V) # w[y] + SumOver(w, V \ {y})
           T == {V \in SUBSET U : Bad(V)}
<1> SUFFICES ASSUME T # {} PROVE FALSE OBVIOUS
<1>0. T \subseteq SUBSET U OBVIOUS
<1> HIDE DEF T
<1>1. PICK m \in T : \A u \in T : u \subseteq m => u = m BY <1>0, Minimal
<1> USE DEF T
<1>2. PICK y \in m : SumOver(w, m) # w[y] + SumOver(w, m \ {y}) BY <1>1
<1> DEFINE c == Chosen(m)
<1>3. IsFiniteSet(m) /\ m # {} BY <1>2, FS_Subset
<1>4. c \in m BY <1>3, ChosenIn
<1>5. SumOver(w, m) = w[c] + SumOver(w, m \ {c}) BY <1>3, SumStep
<1> HIDE DEF c
<1>6. y # c BY <1>2, <1>5
<1>7. IsFiniteSet(m \ {c}) /\ IsFiniteSet(m \ {y}) /\ IsFiniteSet((m \ {c}) \ {y})
  BY <1>3, FS_Subset
<1>8. m \ {c} \notin T /\ m \ {y} \notin T BY <1>1, <1>2, <1>4
<1>9. SumOver(w, m \ {c}) = w[y] + SumOver(w, (m \ {c}) \ {y}) BY <1>8, <1>6, <1>2
<1>10. SumOver(w, m \ {y}) = w[c] + SumOver(w, (m \ {y}) \ {c}) BY <1>8, <1>6, <1>4
<1>11. (m \ {y}) \ {c} = (m \ {c}) \ {y} OBVIOUS
<1>12. w[c] \in Nat /\ w[y] \in Nat /\ SumOver(w, (m \ {c}) \ {y}) \in Nat
  BY <1>2, <1>4, <1>7, SumNat
<1> DEFINE rest == SumOver(w, (m \ {c}) \ {y})
<1>13. SumOver(w, m) = w[c] + (w[y] + rest) BY <1>5, <1>9
<1>14. w[y] + SumOver(w, m \ {y}) = w[y] + (w[c] + rest) BY <1>10, <1>11
<1>15. w[c] + (w[y] + rest) = w[y] + (w[c] + rest) 
  <2> HIDE DEF rest, T
  <2> QED BY <1>12 DEF rest
<1> QED BY <1>2, <1>13, <1>14, <1>15
\* The parts of a set that f tells apart, each summed, make the sum of the set.
LEMMA SumSplit ==
  ASSUME NEW U, IsFiniteSet(U), NEW w, \A x \in U : w[x] \in Nat, NEW A \in SUBSET U
  PROVE  SumOver(w, U) = SumOver(w, A) + SumOver(w, U \ A)
<1> DEFINE T == {V \in SUBSET U : SumOver(w, V) # SumOver(w, V \cap A) + SumOver(w, V \ A)}
<1>0. T \subseteq SUBSET U OBVIOUS
<1>1. ASSUME T # {} PROVE FALSE
  <2> HIDE DEF T
  <2>1. PICK m \in T : \A u \in T : u \subseteq m => u = m BY <1>0, <1>1, Minimal
  <2> USE DEF T
  <2>2. IsFiniteSet(m) /\ m \subseteq U BY FS_Subset
  <2>3. m # {}
    <3>1. SumOver(w, {}) = 0 BY <2>2, SumStep
    <3>2. m = {} => m \cap A = m /\ m \ A = m OBVIOUS
    <3>3. SumOver(w, m) # SumOver(w, m \cap A) + SumOver(w, m \ A) OBVIOUS
    <3> HIDE DEF T
    <3>4. ASSUME m = {} PROVE FALSE
      <4>1. SumOver(w, m) = 0 BY <3>1, <3>4
      <4> QED BY <3>2, <3>3, <3>4, <4>1
    <3> QED BY <3>4
  <2>4. PICK x \in m : TRUE BY <2>3
  <2>5. m \ {x} \notin T BY <2>1
  <2>6. SumOver(w, m \ {x}) = SumOver(w, (m \ {x}) \cap A) + SumOver(w, (m \ {x}) \ A)
    BY <2>2, <2>5
  <2>7. IsFiniteSet(m \cap A) /\ IsFiniteSet(m \ A) /\ IsFiniteSet(m \ {x})
        /\ IsFiniteSet((m \ {x}) \cap A) /\ IsFiniteSet((m \ {x}) \ A)
    BY <2>2, FS_Subset
  <2>8. /\ w[x] \in Nat /\ SumOver(w, (m \ {x}) \cap A) \in Nat
        /\ SumOver(w, (m \ {x}) \ A) \in Nat
    BY <2>2, <2>7, SumNat
  <2>9. SumOver(w, m) = w[x] + SumOver(w, m \ {x}) BY <2>2, SumTake
  <2>10. CASE x \in A
    <3>1. (m \ {x}) \ A = m \ A /\ (m \ {x}) \cap A = (m \cap A) \ {x} BY <2>10
    <3>2. SumOver(w, m \cap A) = w[x] + SumOver(w, (m \cap A) \ {x})
      BY <2>2, <2>7, <2>10, SumTake
    <3> DEFINE p == SumOver(w, (m \cap A) \ {x})
               q == SumOver(w, m \ A)
    <3>3. SumOver(w, m) = w[x] + (p + q) BY <2>6, <2>9, <3>1
    <3>4. SumOver(w, m \cap A) + q = (w[x] + p) + q BY <3>2
    <3>5. p \in Nat /\ q \in Nat BY <2>8, <3>1
    <3> HIDE DEF p, q
    <3>6. w[x] + (p + q) = (w[x] + p) + q BY <2>8, <3>5
    <3> QED BY <3>3, <3>4, <3>6 DEF q
  <2>11. CASE x \notin A
    <3>1. (m \ {x}) \ A = (m \ A) \ {x} /\ (m \ {x}) \cap A = m \cap A BY <2>11
    <3>2. SumOver(w, m \ A) = w[x] + SumOver(w, (m \ A) \ {x})
      BY <2>2, <2>7, <2>11, SumTake
    <3> DEFINE p == SumOver(w, m \cap A)
               q == SumOver(w, (m \ A) \ {x})
    <3>3. SumOver(w, m) = w[x] + (p + q) BY <2>6, <2>9, <3>1
    <3>4. p + SumOver(w, m \ A) = p + (w[x] + q) BY <3>2
    <3>5. p \in Nat /\ q \in Nat BY <2>8, <3>1
    <3> HIDE DEF p, q
    <3>6. w[x] + (p + q) = p + (w[x] + q) BY <2>8, <3>5
    <3> QED BY <3>3, <3>4, <3>6 DEF p
  <2> QED BY <2>10, <2>11
<1>2. U \in SUBSET U /\ U \cap A = A OBVIOUS
<1> QED BY <1>1, <1>2

\* A sum may be taken part by part: over the keys that g gives the elements.
OfKey(U, g, k) == {x \in U : g[x] = k}
LEMMA SumByKey ==
  ASSUME NEW U, IsFiniteSet(U), NEW w, \A x \in U : w[x] \in Nat,
         NEW g, NEW K, IsFiniteSet(K), \A x \in U : g[x] \in K,
         NEW lines, \A k \in K : lines[k] = SumOver(w, OfKey(U, g, k))
  PROVE  SumOver(lines, K) = SumOver(w, U)
<1> DEFINE of(J) == {x \in U : g[x] \in J}
           T == {J \in SUBSET K : SumOver(lines, J) # SumOver(w, of(J))}
<1>0. T \subseteq SUBSET K OBVIOUS
<1>1. ASSUME T # {} PROVE FALSE
  <2> HIDE DEF T
  <2>1. PICK J \in T : \A u \in T : u \subseteq J => u = J BY <1>0, <1>1, Minimal
  <2> USE DEF T
  <2>2. IsFiniteSet(J) /\ J \subseteq K /\ SumOver(lines, J) # SumOver(w, of(J)) BY FS_Subset
  <2>3. SumOver(lines, {}) = 0 /\ SumOver(w, {}) = 0 BY <2>2, SumStep
  <2>4. J # {}
    <3>1. of({}) = {} OBVIOUS
    <3> QED BY <2>2, <2>3, <3>1
  <2>5. PICK k \in J : TRUE BY <2>4
  <2>6. J \ {k} \notin T BY <2>1
  <2>7. SumOver(lines, J \ {k}) = SumOver(w, of(J \ {k})) BY <2>2, <2>6
  <2>8. \A j \in J : lines[j] \in Nat
    <3>1. \A j \in J : IsFiniteSet(OfKey(U, g, j)) /\ \A x \in OfKey(U, g, j) : w[x] \in Nat
      BY FS_Subset DEF OfKey
    <3>2. \A j \in J : SumOver(w, OfKey(U, g, j)) \in Nat BY <3>1, SumNat
    <3> QED BY <2>2, <3>2
  <2>9. SumOver(lines, J) = lines[k] + SumOver(lines, J \ {k}) BY <2>2, <2>8, SumTake
  <2> DEFINE part == OfKey(U, g, k)
  <2>10. part \in SUBSET of(J) /\ of(J) \ part = of(J \ {k}) BY DEF OfKey
  <2>11. IsFiniteSet(of(J)) /\ \A x \in of(J) : w[x] \in Nat BY FS_Subset
  <2> HIDE DEF of, T, part
  <2>12. SumOver(w, of(J)) = SumOver(w, part) + SumOver(w, of(J) \ part) BY <2>10, <2>11, SumSplit
  <2>13. lines[k] = SumOver(w, part) BY <2>2 DEF part
  <2> QED BY <2>2, <2>7, <2>9, <2>10, <2>12, <2>13
<1>2. K \in SUBSET K /\ of(K) = U OBVIOUS
<1> QED BY <1>1, <1>2
\* What is so many times one thing and another, entry by entry, is so in sum.
LEMMA SumLinear ==
  ASSUME NEW U, IsFiniteSet(U), NEW w, NEW v, NEW z,
         \A x \in U : w[x] \in Nat /\ v[x] \in Nat /\ z[x] = 60 * w[x] + v[x]
  PROVE  SumOver(z, U) = 60 * SumOver(w, U) + SumOver(v, U)
<1> DEFINE T == {V \in SUBSET U : SumOver(z, V) # 60 * SumOver(w, V) + SumOver(v, V)}
<1>0. T \subseteq SUBSET U OBVIOUS
<1>1. ASSUME T # {} PROVE FALSE
  <2> HIDE DEF T
  <2>1. PICK m \in T : \A u \in T : u \subseteq m => u = m BY <1>0, <1>1, Minimal
  <2> USE DEF T
  <2>2. /\ IsFiniteSet(m) /\ m \subseteq U
        /\ SumOver(z, m) # 60 * SumOver(w, m) + SumOver(v, m)
    BY FS_Subset
  <2>3. SumOver(z, {}) = 0 /\ SumOver(w, {}) = 0 /\ SumOver(v, {}) = 0 BY <2>2, SumStep
  <2>4. m # {} BY <2>2, <2>3
  <2> DEFINE c == Chosen(m)
             R == m \ {c}
  <2>5. c \in m BY <2>4, ChosenIn
  <2>6. SumOver(z, R) = 60 * SumOver(w, R) + SumOver(v, R) BY <2>1, <2>2, <2>5
  <2>7. /\ SumOver(z, m) = z[c] + SumOver(z, R) /\ SumOver(w, m) = w[c] + SumOver(w, R)
        /\ SumOver(v, m) = v[c] + SumOver(v, R)
    BY <2>2, <2>4, SumStep
  <2>8. w[c] \in Nat /\ v[c] \in Nat /\ z[c] = 60 * w[c] + v[c] BY <2>2, <2>5
  <2>9. SumOver(w, R) \in Nat /\ SumOver(v, R) \in Nat
    <3>1. IsFiniteSet(R) /\ R \subseteq U BY <2>2, FS_Subset
    <3> QED BY <3>1, SumNat
  <2> HIDE DEF T, c, R
  <2>10. z[c] + SumOver(z, R) = 60 * (w[c] + SumOver(w, R)) + (v[c] + SumOver(v, R))
    BY <2>6, <2>8, <2>9
  <2> QED BY <2>2, <2>7, <2>10
<1> QED BY <1>1

\* A finite set of entries has finitely many keys ...
LEMMA KeysFinite ==
  ASSUME NEW U, IsFiniteSet(U), NEW g
  PROVE  IsFiniteSet({g[x] : x \in U})
<1> DEFINE K == {g[x] : x \in U}
           h == [x \in U |-> g[x]]
<1>1. h \in Surjection(U, K) BY DEF Surjection
<1> QED BY <1>1, FS_Surjection

LEMMA SumSingle == ASSUME NEW w, NEW x, w[x] \in Nat PROVE SumOver(w, {x}) = w[x]
<1>1. IsFiniteSet({x}) BY FS_Singleton
<1>2. \A y \in {x} : w[y] \in Nat OBVIOUS
<1>3. SumOver(w, {x}) = w[x] + SumOver(w, {x} \ {x}) BY <1>1, <1>2, SumTake
<1>4. {x} \ {x} = {} OBVIOUS
<1>5. SumOver(w, {}) = 0 BY <1>1, SumStep
<1> QED BY <1>3, <1>4, <1>5
------------------------------------------------------------------------------
(***************************************************************************)
(* The time sheet.                                                         *)
(***************************************************************************)
SpentOf == [e \in Time!TimeEntry |-> Time!Spent(e)]
HoursOf == [e \in Time!TimeEntry |-> e.hours]
MinutesOf == [e \in Time!TimeEntry |-> e.minutes]
LineOf == [e \in Time!TimeEntry |-> <<e.id, e.by, e.task, Time!Spent(e)>>]
Fourth == [line \in {LineOf[e] : e \in Time!TimeEntry} |-> line[4]]

\* The time spent on a set of entries is the sum of what each took ...
LEMMA TotalIsSum ==
  ASSUME NEW A \in SUBSET Time!TimeEntry, IsFiniteSet(A)
  PROVE  Time!Total(A) = SumOver(SpentOf, A)
<1> DEFINE Unfolds(g) == g = [s \in SUBSET A |-> IF s = {} THEN 0
                                ELSE Time!Spent(Chosen(s)) + g[s \ {Chosen(s)}]]
           sum == CHOOSE g : Unfolds(g)
<1>1. Time!Total(A) = sum[A]
  BY DEF Time!Total, Time!MapThenSumSet, Time!MapThenFoldSet, Chosen
<1>2. ASSUME NEW g PROVE Unfolds(g) <=> Folds(g, SpentOf, A)
  <2>1. ASSUME NEW s \in SUBSET A, s # {} PROVE SpentOf[Chosen(s)] = Time!Spent(Chosen(s))
    <3>1. Chosen(s) \in Time!TimeEntry BY <2>1, ChosenIn
    <3> QED BY <3>1 DEF SpentOf
  <2> DEFINE p == [s \in SUBSET A |-> IF s = {} THEN 0 ELSE Time!Spent(Chosen(s)) + g[s \ {Chosen(s)}]]
             q == [s \in SUBSET A |-> IF s = {} THEN 0 ELSE SpentOf[Chosen(s)] + g[s \ {Chosen(s)}]]
  <2>2. p = q BY <2>1
  <2> QED BY <2>2 DEF Folds
<1>3. Unfolds(sum) BY <1>2, FoldExists
<1> HIDE DEF Unfolds, sum
<1>4. sum[A] = SumOver(SpentOf, A) BY <1>2, <1>3, SumIs
<1> QED BY <1>1, <1>4

\* ... so are their hours ...
LEMMA HoursAreSum ==
  ASSUME NEW A \in SUBSET Time!TimeEntry, IsFiniteSet(A)
  PROVE  Time!MapThenSumSet(LAMBDA e : e.hours, A) = SumOver(HoursOf, A)
<1> DEFINE Unfolds(g) == g = [s \in SUBSET A |-> IF s = {} THEN 0
                                ELSE Chosen(s).hours + g[s \ {Chosen(s)}]]
           sum == CHOOSE g : Unfolds(g)
<1>1. Time!MapThenSumSet(LAMBDA e : e.hours, A) = sum[A]
  BY DEF Time!MapThenSumSet, Time!MapThenFoldSet, Chosen
<1>2. ASSUME NEW g PROVE Unfolds(g) <=> Folds(g, HoursOf, A)
  <2>1. ASSUME NEW s \in SUBSET A, s # {} PROVE HoursOf[Chosen(s)] = Chosen(s).hours
    <3>1. Chosen(s) \in Time!TimeEntry BY <2>1, ChosenIn
    <3> QED BY <3>1 DEF HoursOf
  <2> DEFINE p == [s \in SUBSET A |-> IF s = {} THEN 0 ELSE Chosen(s).hours + g[s \ {Chosen(s)}]]
             q == [s \in SUBSET A |-> IF s = {} THEN 0 ELSE HoursOf[Chosen(s)] + g[s \ {Chosen(s)}]]
  <2>2. p = q BY <2>1
  <2> QED BY <2>2 DEF Folds
<1>3. Unfolds(sum) BY <1>2, FoldExists
<1> HIDE DEF Unfolds, sum
<1>4. sum[A] = SumOver(HoursOf, A) BY <1>2, <1>3, SumIs
<1> QED BY <1>1, <1>4

\* ... and their minutes ...
LEMMA MinutesAreSum ==
  ASSUME NEW A \in SUBSET Time!TimeEntry, IsFiniteSet(A)
  PROVE  Time!MapThenSumSet(LAMBDA e : e.minutes, A) = SumOver(MinutesOf, A)
<1> DEFINE Unfolds(g) == g = [s \in SUBSET A |-> IF s = {} THEN 0
                                ELSE Chosen(s).minutes + g[s \ {Chosen(s)}]]
           sum == CHOOSE g : Unfolds(g)
<1>1. Time!MapThenSumSet(LAMBDA e : e.minutes, A) = sum[A]
  BY DEF Time!MapThenSumSet, Time!MapThenFoldSet, Chosen
<1>2. ASSUME NEW g PROVE Unfolds(g) <=> Folds(g, MinutesOf, A)
  <2>1. ASSUME NEW s \in SUBSET A, s # {} PROVE MinutesOf[Chosen(s)] = Chosen(s).minutes
    <3>1. Chosen(s) \in Time!TimeEntry BY <2>1, ChosenIn
    <3> QED BY <3>1 DEF MinutesOf
  <2> DEFINE p == [s \in SUBSET A |-> IF s = {} THEN 0 ELSE Chosen(s).minutes + g[s \ {Chosen(s)}]]
             q == [s \in SUBSET A |-> IF s = {} THEN 0 ELSE MinutesOf[Chosen(s)] + g[s \ {Chosen(s)}]]
  <2>2. p = q BY <2>1
  <2> QED BY <2>2 DEF Folds
<1>3. Unfolds(sum) BY <1>2, FoldExists
<1> HIDE DEF Unfolds, sum
<1>4. sum[A] = SumOver(MinutesOf, A) BY <1>2, <1>3, SumIs
<1> QED BY <1>1, <1>4

\* ... and the last column of a set of lines.
LEMMA LinesAreSum ==
  ASSUME NEW A \in SUBSET {LineOf[e] : e \in Time!TimeEntry}, IsFiniteSet(A)
  PROVE  Time!MapThenSumSet(LAMBDA line : line[4], A) = SumOver(Fourth, A)
<1> DEFINE Unfolds(g) == g = [s \in SUBSET A |-> IF s = {} THEN 0
                                ELSE Chosen(s)[4] + g[s \ {Chosen(s)}]]
           sum == CHOOSE g : Unfolds(g)
<1>1. Time!MapThenSumSet(LAMBDA line : line[4], A) = sum[A]
  BY DEF Time!MapThenSumSet, Time!MapThenFoldSet, Chosen
<1>2. ASSUME NEW g PROVE Unfolds(g) <=> Folds(g, Fourth, A)
  <2>1. ASSUME NEW s \in SUBSET A, s # {} PROVE Fourth[Chosen(s)] = Chosen(s)[4]
    <3>1. Chosen(s) \in {LineOf[e] : e \in Time!TimeEntry} BY <2>1, ChosenIn
    <3> QED BY <3>1 DEF Fourth
  <2> DEFINE p == [s \in SUBSET A |-> IF s = {} THEN 0 ELSE Chosen(s)[4] + g[s \ {Chosen(s)}]]
             q == [s \in SUBSET A |-> IF s = {} THEN 0 ELSE Fourth[Chosen(s)] + g[s \ {Chosen(s)}]]
  <2>2. p = q BY <2>1
  <2> QED BY <2>2 DEF Folds
<1>3. Unfolds(sum) BY <1>2, FoldExists
<1> HIDE DEF Unfolds, sum
<1>4. sum[A] = SumOver(Fourth, A) BY <1>2, <1>3, SumIs
<1> QED BY <1>1, <1>4

\* So is the sum of a function's values.
LEMMA ValuesAreSum == ASSUME NEW f PROVE Time!Sum(f) = SumOver(f, DOMAIN f)
  BY DEF Time!Sum, Time!FoldFunction, Time!FoldFunctionOnSet, Time!MapThenFoldSet, SumOver, Folds, Chosen

\* Hours and minutes summed apart give the time spent.
LEMMA HoursAndMinutes ==
  ASSUME Time!TimeAssumption, NEW A \in SUBSET Time!TimeEntry, IsFiniteSet(A)
  PROVE  /\ Time!Total(A) \in Nat
         /\ Time!Total(A) = 60 * Time!MapThenSumSet(LAMBDA e : e.hours, A)
                              + Time!MapThenSumSet(LAMBDA e : e.minutes, A)
<1>1. \A e \in A : /\ HoursOf[e] \in Nat /\ MinutesOf[e] \in Nat
                   /\ SpentOf[e] = 60 * HoursOf[e] + MinutesOf[e] /\ SpentOf[e] \in Nat
  <2> TAKE e \in A
  <2>1. e \in Time!TimeEntry /\ e.hours \in Nat /\ e.minutes \in Nat
    BY DEF Time!TimeAssumption, Time!TimeEntry
  <2>2. HoursOf[e] = e.hours /\ MinutesOf[e] = e.minutes /\ SpentOf[e] = e.hours * 60 + e.minutes
    BY <2>1 DEF HoursOf, MinutesOf, SpentOf, Time!Spent
  <2> QED BY <2>1, <2>2
<1>2. SumOver(SpentOf, A) = 60 * SumOver(HoursOf, A) + SumOver(MinutesOf, A)
  BY <1>1, SumLinear
<1>3. SumOver(SpentOf, A) \in Nat BY <1>1, SumNat
<1> QED BY <1>2, <1>3, TotalIsSum, HoursAreSum, MinutesAreSum

LEMMA SpentNat ==
  ASSUME Time!TimeAssumption
  PROVE  \A e \in Time!TimeEntry : SpentOf[e] \in Nat
<1> TAKE e \in Time!TimeEntry
<1>1. e.hours \in Nat /\ e.minutes \in Nat BY DEF Time!TimeAssumption, Time!TimeEntry
<1> QED BY <1>1 DEF SpentOf, Time!Spent

\* The invariant.  A summary that is being computed has a step it is at; entries
\* are told apart by their ids, all given out already; and until a commit comes
\* between, what the summary read so far is what the entries give now.
Filled == {"step", "total", "billable", "rest", "byStakeholder", "byTask"}
TimeShapes ==
  /\ staff \subseteq Team /\ booked \in 0..MaxEntries
  /\ Filled \subseteq DOMAIN report /\ report.step \in {"none", "totals", "people", "done"}
  /\ changed \in BOOLEAN
Numbered(es, n) == /\ es \subseteq Time!TimeEntry /\ IsFiniteSet(es)
                   /\ \A e \in es : e.id <= n
                   /\ \A e, f \in es : e.id = f.id => e = f

TotalsRead == /\ report.total = Time!Total(entries)
              /\ report.billable = Time!Total({e \in entries : e.billable})
              /\ report.rest = Time!Total({e \in entries : ~e.billable})
PeopleRead == report.byStakeholder = [s \in {e.by : e \in entries} |->
                                        Time!Total({e \in entries : e.by = s})]
TasksRead == report.byTask = [t \in {e.task : e \in entries} \ {NoTask} |->
                                Time!Total({e \in entries : e.task = t})]
ReadSoFar == ~changed =>
               /\ report.step # "none" => TotalsRead
               /\ report.step \in {"people", "done"} => PeopleRead
               /\ report.step = "done" => TasksRead

TimeInv == TimeShapes /\ Numbered(entries, booked) /\ ReadSoFar

LEMMA NoReportShape == Filled \subseteq DOMAIN Time!NoReport /\ Time!NoReport.step = "none"
  BY DEF Time!NoReport, Filled

LEMMA TimeInit == ASSUME Time!TimeAssumption, Time!Init PROVE TimeInv
<1>1. staff = Team /\ entries = {} /\ booked = 0 /\ report = Time!NoReport /\ changed = FALSE
  BY DEF Time!Init
<1>2. Filled \subseteq DOMAIN report /\ report.step = "none" BY Zenon, <1>1, NoReportShape
<1>3. booked \in 0..MaxEntries BY <1>1 DEF Time!TimeAssumption
<1>4. Numbered(entries, booked) BY <1>1, FS_EmptySet DEF Numbered
<1> QED BY <1>1, <1>2, <1>3, <1>4 DEF TimeInv, TimeShapes, ReadSoFar

\* Entries are logged, changed or deleted; a summary under way is left as it
\* is, and no longer vouched for.
LEMMA EntriesChange ==
  ASSUME TimeInv, NEW es, Time!Commit(es), booked' \in 0..MaxEntries, Numbered(es, booked'),
         staff' \subseteq Team
  PROVE  TimeInv'
<1>1. entries' = es /\ report' = report /\ changed' = (report.step # "none") BY DEF Time!Commit
<1>2. TimeShapes' BY <1>1 DEF TimeInv, TimeShapes
<1>3. Numbered(entries, booked)' BY <1>1 DEF Numbered
<1>4. ReadSoFar' BY <1>1 DEF ReadSoFar
<1> QED BY <1>2, <1>3, <1>4 DEF TimeInv

LEMMA CreateEntryKeeps ==
  ASSUME Time!TimeAssumption, TimeInv, NEW s \in Team, NEW f \in Time!Fields, Time!CreateTimeEntry(s, f)
  PROVE  TimeInv'
<1> DEFINE e == [id |-> booked', by |-> s, task |-> f.task, hours |-> f.hours,
                 minutes |-> f.minutes, billable |-> f.billable]
<1>1. booked < MaxEntries /\ booked' = booked + 1 /\ Time!Commit(entries \cup {e}) /\ staff' = staff
  BY DEF Time!CreateTimeEntry
<1>2. booked' \in 1..MaxEntries /\ booked < booked' /\ booked \in Nat
  BY <1>1 DEF TimeInv, TimeShapes, Time!TimeAssumption
<1>3. e \in Time!TimeEntry /\ e.id = booked' BY <1>2 DEF Time!Fields, Time!TimeEntry
<1> HIDE DEF e
<1>4. Numbered(entries \cup {e}, booked')
  <2>1. /\ entries \subseteq Time!TimeEntry /\ IsFiniteSet(entries)
        /\ \A d \in entries : d.id <= booked /\ d.id \in Int
        /\ \A d, c \in entries : d.id = c.id => d = c
    BY DEF TimeInv, Numbered, Time!TimeEntry
  <2>2. IsFiniteSet(entries \cup {e}) BY <2>1, FS_AddElement
  <2>3. \A d \in entries : d.id < booked' BY <2>1, <1>2
  <2> QED BY <1>2, <1>3, <2>1, <2>2, <2>3 DEF Numbered
<1>5. booked' \in 0..MaxEntries /\ staff' \subseteq Team
  BY <1>1, <1>2 DEF TimeInv, TimeShapes, Time!TimeAssumption
<1> QED BY <1>1, <1>4, <1>5, EntriesChange

LEMMA UpdateEntryKeeps ==
  ASSUME TimeInv, NEW s \in Team, NEW e \in entries, NEW f \in Time!Fields, Time!UpdateTimeEntry(s, e, f)
  PROVE  TimeInv'
<1> DEFINE new == [e EXCEPT !.hours = f.hours, !.minutes = f.minutes, !.billable = f.billable,
                            !.task = IF f.task = NoTask THEN @ ELSE f.task]
<1>1. Time!Commit((entries \ {e}) \cup {new}) /\ UNCHANGED <<staff, booked>>
  BY DEF Time!UpdateTimeEntry
<1>2. e \in Time!TimeEntry BY DEF TimeInv, Numbered
<1>3. new \in Time!TimeEntry /\ new.id = e.id BY <1>2 DEF Time!Fields, Time!TimeEntry
<1> HIDE DEF new
<1>4. Numbered((entries \ {e}) \cup {new}, booked)
  <2>1. /\ entries \subseteq Time!TimeEntry /\ IsFiniteSet(entries)
        /\ \A d \in entries : d.id <= booked
        /\ \A d, c \in entries : d.id = c.id => d = c
    BY DEF TimeInv, Numbered
  <2>2. IsFiniteSet((entries \ {e}) \cup {new}) BY <2>1, FS_RemoveElement, FS_AddElement
  <2> QED BY <1>3, <2>1, <2>2 DEF Numbered
<1>5. booked' \in 0..MaxEntries /\ staff' \subseteq Team BY <1>1 DEF TimeInv, TimeShapes
<1> QED BY <1>1, <1>4, <1>5, EntriesChange

LEMMA RemovedEntriesKeep ==
  ASSUME TimeInv, NEW s \in Team,
         Time!RemoveStakeholder(s) \/ \E e \in entries : Time!DeleteTimeEntry(s, e)
  PROVE  TimeInv'
<1>1. PICK es \in SUBSET entries : Time!Commit(es) /\ booked' = booked /\ staff' \subseteq staff
  <2>1. CASE Time!RemoveStakeholder(s)
    <3>1. {e \in entries : e.by # s} \in SUBSET entries OBVIOUS
    <3> QED BY <2>1, <3>1 DEF Time!RemoveStakeholder
  <2>2. ASSUME NEW e \in entries, Time!DeleteTimeEntry(s, e)
        PROVE  \E es \in SUBSET entries : Time!Commit(es) /\ booked' = booked /\ staff' \subseteq staff
    <3>1. entries \ {e} \in SUBSET entries OBVIOUS
    <3> QED BY <2>2, <3>1 DEF Time!DeleteTimeEntry
  <2> QED BY <2>1, <2>2
<1>2. Numbered(es, booked) BY FS_Subset DEF TimeInv, Numbered
<1>3. booked' \in 0..MaxEntries /\ staff' \subseteq Team BY <1>1 DEF TimeInv, TimeShapes
<1> QED BY <1>1, <1>2, <1>3, EntriesChange

\* Each query reads the entries as they are.
LEMMA SummaryKeeps ==
  ASSUME Time!TimeAssumption, TimeInv,
         \/ \E s \in Team : Time!GetSummary(s)
         \/ Time!SummarizePeople \/ Time!SummarizeTasks \/ Time!EndSummary
  PROVE  TimeInv'
<1>0. entries \in SUBSET Time!TimeEntry /\ IsFiniteSet(entries) BY DEF TimeInv, Numbered
<1>1. UNCHANGED <<staff, entries, booked>> /\ changed' \in BOOLEAN
  BY DEF TimeInv, TimeShapes, Time!GetSummary, Time!BeginSummary, Time!SummarizePeople,
         Time!SummarizeTasks, Time!EndSummary
<1>2. Numbered(entries, booked)' BY <1>1 DEF TimeInv, Numbered
<1>3. CASE \E s \in Team : Time!GetSummary(s)
  <2>1. /\ Filled \subseteq DOMAIN report' /\ report'.step = "totals"
        /\ report'.total = 60 * Time!MapThenSumSet(LAMBDA e : e.hours, entries)
                             + Time!MapThenSumSet(LAMBDA e : e.minutes, entries)
        /\ report'.billable = Time!Total({e \in entries : e.billable})
        /\ report'.rest = Time!Total({e \in entries : ~e.billable})
    BY <1>3 DEF TimeInv, TimeShapes, Filled, Time!GetSummary, Time!BeginSummary
  <2>2. report'.total = Time!Total(entries) BY <1>0, <2>1, HoursAndMinutes
  <2>3. TotalsRead' BY <1>1, <2>1, <2>2 DEF TotalsRead, Time!Total
  <2> QED BY <1>1, <1>2, <2>1, <2>3 DEF TimeInv, TimeShapes, ReadSoFar
<1>4. CASE Time!SummarizePeople
  <2>1. /\ report.step = "totals" /\ report'.step = "people" /\ changed' = changed
        /\ Filled \subseteq DOMAIN report'
        /\ report'.total = report.total /\ report'.billable = report.billable
        /\ report'.rest = report.rest
        /\ report'.byStakeholder = [s \in {e.by : e \in entries} |->
                                      Time!Total({e \in entries : e.by = s})]
    BY <1>4 DEF TimeInv, TimeShapes, Filled, Time!SummarizePeople
  <2>2. PeopleRead' BY <1>1, <2>1 DEF PeopleRead
  <2>3. TotalsRead => TotalsRead' BY <1>1, <2>1 DEF TotalsRead
  <2> QED BY <1>1, <1>2, <2>1, <2>2, <2>3 DEF TimeInv, TimeShapes, ReadSoFar
<1>5. CASE Time!SummarizeTasks
  <2>1. /\ report.step = "people" /\ report'.step = "done" /\ changed' = changed
        /\ Filled \subseteq DOMAIN report'
        /\ report'.total = report.total /\ report'.billable = report.billable
        /\ report'.rest = report.rest /\ report'.byStakeholder = report.byStakeholder
        /\ report'.byTask = [t \in {e.task : e \in entries} \ {NoTask} |->
                               Time!Total({e \in entries : e.task = t})]
    BY <1>5 DEF TimeInv, TimeShapes, Filled, Time!SummarizeTasks
  <2>2. TasksRead' BY <1>1, <2>1 DEF TasksRead
  <2>3. (TotalsRead => TotalsRead') /\ (PeopleRead => PeopleRead')
    BY <1>1, <2>1 DEF TotalsRead, PeopleRead
  <2> QED BY <1>1, <1>2, <2>1, <2>2, <2>3 DEF TimeInv, TimeShapes, ReadSoFar
<1>6. CASE Time!EndSummary
  <2>1. Filled \subseteq DOMAIN report' /\ report'.step = "none"
    BY <1>6, NoReportShape DEF Time!EndSummary
  <2> QED BY <1>1, <1>2, <2>1 DEF TimeInv, TimeShapes, ReadSoFar
<1> QED BY <1>3, <1>4, <1>5, <1>6

LEMMA TimeNext ==
  ASSUME Time!TimeAssumption, TimeInv, [Time!Next]_timeVars
  PROVE  TimeInv'
<1>1. ASSUME NEW s \in Team, NEW f \in Time!Fields,
             Time!PostTime(s, f) \/ \E e \in entries : Time!PutTime(s, e, f)
      PROVE  TimeInv'
  BY <1>1, CreateEntryKeeps, UpdateEntryKeeps DEF Time!PostTime, Time!PutTime
<1>2. ASSUME NEW s \in Team, (\E e \in entries : Time!DeleteTime(s, e)) \/ Time!RemoveStakeholder(s)
      PROVE  TimeInv'
  BY <1>2, RemovedEntriesKeep DEF Time!DeleteTime
<1>3. CASE UNCHANGED timeVars
  <2>1. UNCHANGED <<staff, entries, booked, report, changed>> BY <1>3 DEF timeVars
  <2> QED BY <2>1 DEF TimeInv, TimeShapes, Numbered, ReadSoFar, TotalsRead, PeopleRead, TasksRead
<1> QED BY <1>1, <1>2, <1>3, SummaryKeeps DEF Time!Next

\* The time spent on some entries and on the others makes the time spent.
LEMMA TotalSplits ==
  ASSUME Time!TimeAssumption, NEW A \in SUBSET Time!TimeEntry, IsFiniteSet(A), NEW B \in SUBSET A
  PROVE  Time!Total(A) = Time!Total(B) + Time!Total(A \ B)
<1>1. IsFiniteSet(B) /\ IsFiniteSet(A \ B) /\ A \ B \in SUBSET Time!TimeEntry /\ B \in SUBSET Time!TimeEntry
  BY FS_Subset
<1>2. SumOver(SpentOf, A) = SumOver(SpentOf, B) + SumOver(SpentOf, A \ B) BY SpentNat, SumSplit
<1> QED BY <1>1, <1>2, TotalIsSum

\* Lines that give every key its entries' time sum up to the time spent.
LineEach(lines, key, A) == lines = [k \in {key[e] : e \in A} |-> Time!Total({e \in A : key[e] = k})]
LEMMA LinesAddUp ==
  ASSUME Time!TimeAssumption, NEW A \in SUBSET Time!TimeEntry, IsFiniteSet(A), NEW key, NEW lines,
         LineEach(lines, key, A)
  PROVE  Time!Sum(lines) = Time!Total(A)
<1> DEFINE K == {key[e] : e \in A}
<1>1. IsFiniteSet(K) /\ \A e \in A : key[e] \in K BY KeysFinite
<1>2. \A k \in K : lines[k] = SumOver(SpentOf, OfKey(A, key, k))
  <2> TAKE k \in K
  <2>1. OfKey(A, key, k) \in SUBSET Time!TimeEntry /\ IsFiniteSet(OfKey(A, key, k))
    BY FS_Subset DEF OfKey
  <2>2. lines[k] = Time!Total(OfKey(A, key, k)) BY DEF OfKey, LineEach
  <2> QED BY <2>1, <2>2, TotalIsSum
<1>3. DOMAIN lines = K /\ \A e \in A : SpentOf[e] \in Nat BY SpentNat DEF LineEach
<1> HIDE DEF K
<1>4. SumOver(lines, K) = SumOver(SpentOf, A) BY <1>1, <1>2, <1>3, SumByKey
<1> QED BY <1>3, <1>4, TotalIsSum, ValuesAreSum

\* The lines of some entries, one an entry, sum up to the time spent on these.
LEMMA PageAddsUp ==
  ASSUME Time!TimeAssumption, Numbered(entries, booked), NEW page \in SUBSET entries
  PROVE  Time!MapThenSumSet(LAMBDA line : line[4], {LineOf[e] : e \in page}) = Time!Total(page)
<1> DEFINE K == {LineOf[e] : e \in page}
<1>1. /\ page \in SUBSET Time!TimeEntry /\ IsFiniteSet(page)
      /\ \A e, f \in page : e.id = f.id => e = f
  BY FS_Subset DEF Numbered
<1>2. IsFiniteSet(K) /\ \A e \in page : LineOf[e] \in K BY <1>1, KeysFinite
<1>3. ASSUME NEW k \in K PROVE Fourth[k] = SumOver(SpentOf, OfKey(page, LineOf, k))
  <2>1. PICK d \in page : k = LineOf[d] OBVIOUS
  <2>2. d \in Time!TimeEntry /\ SpentOf[d] = Time!Spent(d) /\ SpentOf[d] \in Nat
    BY <1>1, SpentNat DEF SpentOf
  <2>3. k = <<d.id, d.by, d.task, Time!Spent(d)>> BY <2>1, <2>2 DEF LineOf
  <2>4. Fourth[k] = Time!Spent(d)
    <3>1. Fourth[k] = k[4] BY <2>1, <2>2 DEF Fourth
    <3> QED BY <2>3, <3>1
  <2>5. \A e \in page : LineOf[e] = k => e = d
    <3> SUFFICES ASSUME NEW e \in page, LineOf[e] = k PROVE e = d OBVIOUS
    <3>1. LineOf[e] = <<e.id, e.by, e.task, Time!Spent(e)>> BY <1>1 DEF LineOf
    <3>2. e.id = d.id BY <2>3, <3>1
    <3> QED BY <1>1, <3>2
  <2>6. OfKey(page, LineOf, k) = {d} BY <2>1, <2>5 DEF OfKey
  <2> QED BY <2>2, <2>4, <2>6, SumSingle
<1>4. K \in SUBSET {LineOf[e] : e \in Time!TimeEntry} /\ \A e \in page : SpentOf[e] \in Nat
  BY <1>1, SpentNat
<1> HIDE DEF K
<1>5. SumOver(Fourth, K) = SumOver(SpentOf, page)
  <2>1. \A k \in K : Fourth[k] = SumOver(SpentOf, OfKey(page, LineOf, k)) BY <1>3
  <2> QED BY <1>1, <1>2, <1>4, <2>1, SumByKey
<1>6. Time!MapThenSumSet(LAMBDA line : line[4], K) = SumOver(Fourth, K) BY <1>2, <1>4, LinesAreSum
<1>7. Time!Total(page) = SumOver(SpentOf, page) BY <1>1, TotalIsSum
<1> QED BY <1>5, <1>6, <1>7 DEF K

\* The exported lines sum up to the time spent, or to less where there are more
\* entries than an export has lines.
LEMMA ExportAddsUp ==
  ASSUME Time!TimeAssumption, Numbered(entries, booked), NEW export \in Time!ExportTimeEntries
  PROVE  LET sum == Time!MapThenSumSet(LAMBDA line : line[4], export)
         IN  sum <= Time!Total(entries) /\ (Cardinality(entries) <= MaxExport => sum = Time!Total(entries))
<1> DEFINE size == IF Cardinality(entries) <= MaxExport THEN Cardinality(entries) ELSE MaxExport
<1>1. entries \in SUBSET Time!TimeEntry /\ IsFiniteSet(entries) BY DEF Numbered
<1>2. {e \in entries : e.billable \in BOOLEAN} = entries BY <1>1 DEF Time!TimeEntry
<1>3. PICK page \in SUBSET entries :
        /\ Cardinality(page) = size
        /\ export = {<<e.id, e.by, e.task, Time!Spent(e)>> : e \in page}
  <2>1. \A S : Time!Cardinality(S) = Cardinality(S) BY Zenon DEF Time!Cardinality, Cardinality
  <2> QED BY <1>2, <2>1 DEF Time!ExportTimeEntries, Time!ListTimeEntries
<1>4. export = {LineOf[e] : e \in page} BY <1>1, <1>3 DEF LineOf
<1>5. Time!MapThenSumSet(LAMBDA line : line[4], export) = Time!Total(page) BY <1>4, PageAddsUp
<1>6. Time!Total(entries) = Time!Total(page) + Time!Total(entries \ page) BY <1>1, TotalSplits
<1>7. Time!Total(page) \in Nat /\ Time!Total(entries \ page) \in Nat
  <2>1. IsFiniteSet(page) /\ IsFiniteSet(entries \ page) BY <1>1, FS_Subset
  <2> QED BY <1>1, <2>1, HoursAndMinutes
<1>8. Cardinality(entries) <= MaxExport => page = entries BY <1>1, <1>3, FS_Subset
<1> QED BY <1>5, <1>6, <1>7, <1>8

LEMMA TimeImplies ==
  ASSUME Time!TimeAssumption, TimeInv
  PROVE  Time!TypeOK /\ Time!SummaryAddsUp
<1>0. entries \in SUBSET Time!TimeEntry /\ IsFiniteSet(entries) BY DEF TimeInv, Numbered
<1>1. Time!TypeOK BY DEF TimeInv, TimeShapes, Numbered, Time!TypeOK
<1>2. ASSUME report.step = "done", ~changed
      PROVE  /\ report.billable + report.rest = report.total
             /\ Time!Sum(report.byStakeholder) = report.total
             /\ Time!Sum(report.byTask) + Time!Total({e \in entries : e.task = NoTask}) = report.total
             /\ \A export \in Time!ExportTimeEntries :
                  LET sum == Time!MapThenSumSet(LAMBDA line : line[4], export)
                  IN  /\ sum <= report.total
                      /\ Cardinality(entries) <= MaxExport => sum = report.total
  <2>1. TotalsRead /\ PeopleRead /\ TasksRead BY <1>2 DEF TimeInv, ReadSoFar
  <2>2. report.billable + report.rest = report.total
    <3>1. entries \ {e \in entries : e.billable} = {e \in entries : ~e.billable} OBVIOUS
    <3> QED BY <1>0, <2>1, <3>1, TotalSplits DEF TotalsRead
  <2>3. Time!Sum(report.byStakeholder) = report.total
    <3> DEFINE key == [e \in entries |-> e.by]
    <3>1. LineEach(report.byStakeholder, key, entries) BY <2>1 DEF PeopleRead, LineEach
    <3> HIDE DEF key
    <3> QED BY <1>0, <2>1, <3>1, LinesAddUp DEF TotalsRead
  <2>4. Time!Sum(report.byTask) + Time!Total({e \in entries : e.task = NoTask}) = report.total
    <3> DEFINE some == {e \in entries : e.task # NoTask}
               none == {e \in entries : e.task = NoTask}
               key == [e \in some |-> e.task]
    <3>1. entries \ none = some /\ some \in SUBSET Time!TimeEntry /\ IsFiniteSet(some)
          /\ none \in SUBSET entries
      BY <1>0, FS_Subset
    <3>2. LineEach(report.byTask, key, some)
      <4>1. {key[e] : e \in some} = {e.task : e \in entries} \ {NoTask} OBVIOUS
      <4>2. \A k \in {key[e] : e \in some} :
              {e \in some : key[e] = k} = {e \in entries : e.task = k}
        OBVIOUS
      <4> QED BY <2>1, <4>1, <4>2 DEF TasksRead, LineEach
    <3> HIDE DEF key, some, none
    <3>3. Time!Sum(report.byTask) = Time!Total(some) BY <3>1, <3>2, LinesAddUp
    <3>4. Time!Total(entries) = Time!Total(none) + Time!Total(some) BY <1>0, <3>1, TotalSplits
    <3>5. Time!Total(none) \in Nat /\ Time!Total(some) \in Nat
      <4>1. IsFiniteSet(none) /\ none \in SUBSET Time!TimeEntry BY <1>0, <3>1, FS_Subset
      <4> QED BY <3>1, <4>1, HoursAndMinutes
    <3> QED BY <2>1, <3>3, <3>4, <3>5 DEF TotalsRead, none
  <2>5. ASSUME NEW export \in Time!ExportTimeEntries
        PROVE  LET sum == Time!MapThenSumSet(LAMBDA line : line[4], export)
               IN  /\ sum <= report.total
                   /\ Cardinality(entries) <= MaxExport => sum = report.total
    <3>1. Numbered(entries, booked) BY DEF TimeInv
    <3> QED BY <2>1, <3>1, ExportAddsUp DEF TotalsRead
  <2> QED BY <2>2, <2>3, <2>4, <2>5
<1>3. Time!Cardinality(entries) = Cardinality(entries) BY Zenon DEF Time!Cardinality, Cardinality
<1> QED BY <1>1, <1>2, <1>3 DEF Time!SummaryAddsUp
------------------------------------------------------------------------------
(***************************************************************************)
(* Notices.                                                                *)
(***************************************************************************)
Notice == [task: Notices!Lookups \cup Notices!Addressed \cup {Notices!Plain},
           at: {"none", "queued", "started", "done", "skipped", "gave up"},
           to: People \cup {Nobody}, told: SUBSET People,
           left: SUBSET People, tries: 0..(MailRetries + 1)]
Mail == [notice: Messages, to: People, plain: BOOLEAN, tries: 0..(MailRetries + 1),
         at: {"queued", "delivered", "done", "gave up", "lost"}]

NoticeShapes ==
  /\ notice \in [Messages -> Notice]
  /\ mails \in Seq(Mail) /\ logged \in Seq(Nat) /\ Len(logged) = Len(mails) /\ Len(mails) <= MaxMails
  /\ inbox \in [Messages -> [People -> Nat]]
  /\ crashes \in 0..MaxCrashes /\ spoilt \subseteq Messages

\* A message that names its recipient names one.
RecipientsNamed == \A n \in Messages : notice[n].task \in Notices!Addressed => notice[n].to \in People

\* Who has been sent for is on the way to being told.
Served(n, p) == \/ inbox[n][p] > 0
                \/ \E i \in DOMAIN mails :
                     /\ mails[i].notice = n /\ mails[i].to = p
                     /\ \/ mails[i].at = "queued" \/ mails[i].tries > MailRetries
                        \/ mails[i].plain /\ mails[i].at = "lost"
ToldServed == \A n \in Messages :
  /\ notice[n].at \in {"started", "done"} => \A p \in notice[n].told \ notice[n].left : Served(n, p)
  /\ notice[n].at = "done" => notice[n].left = {}
  /\ notice[n].left \subseteq notice[n].told

\* Of a message nothing was repeated of: who it is still to be queued for has no
\* e-mail of it yet, nobody has two, and a delivery is that e-mail's.
SentOnce == \A n \in Messages \ spoilt :
  /\ \A i, j \in DOMAIN mails :
       mails[i].notice = n /\ mails[j].notice = n /\ mails[i].to = mails[j].to => i = j
  /\ \A i \in DOMAIN mails : mails[i].notice = n =>
       /\ notice[n].at \notin {"none", "queued"}
       /\ notice[n].at = "started" => mails[i].to \notin notice[n].left
                                      /\ mails[i].to \in notice[n].told
  /\ \A p \in People : inbox[n][p] # 0 =>
       /\ inbox[n][p] = 1
       /\ \E i \in DOMAIN mails : /\ mails[i].notice = n /\ mails[i].to = p
                                  /\ mails[i].at \in {"delivered", "done"}

\* The log has a row of an e-mail that is done, which is one that was delivered.
LogTrue == \A i \in DOMAIN mails :
  /\ logged[i] = IF mails[i].at = "done" THEN 1 ELSE 0
  /\ mails[i].at \in {"delivered", "done"} => inbox[mails[i].notice][mails[i].to] > 0
  /\ mails[i].at \in {"queued", "delivered"} => mails[i].tries <= MailRetries

NoticeInv == NoticeShapes /\ RecipientsNamed /\ ToldServed /\ SentOnce /\ LogTrue

LEMMA NoticeFields ==
  ASSUME NoticeShapes, NEW n \in Messages
  PROVE  /\ notice[n] \in Notice /\ notice[n].told \subseteq People /\ notice[n].left \subseteq People
         /\ notice[n].at \in {"none", "queued", "started", "done", "skipped", "gave up"}
         /\ notice[n].tries \in 0..(MailRetries + 1) /\ notice[n].to \in People \cup {Nobody}
         /\ \A p \in People : inbox[n][p] \in Nat
  BY DEF NoticeShapes, Notice

LEMMA MailFields ==
  ASSUME NoticeShapes, NEW i \in DOMAIN mails
  PROVE  /\ mails[i] \in Mail /\ mails[i].notice \in Messages /\ mails[i].to \in People
         /\ mails[i].plain \in BOOLEAN /\ mails[i].tries \in 0..(MailRetries + 1)
         /\ mails[i].at \in {"queued", "delivered", "done", "gave up", "lost"}
         /\ i \in DOMAIN logged /\ logged[i] \in Nat
<1>1. DOMAIN mails = 1..Len(mails) /\ DOMAIN logged = 1..Len(logged) BY DEF NoticeShapes
<1>2. mails[i] \in Mail /\ i \in DOMAIN logged /\ logged[i] \in Nat
  BY <1>1, ElementOfSeq DEF NoticeShapes
<1> QED BY <1>2 DEF Mail

Delivered(n, p) == \E i \in DOMAIN mails : /\ mails[i].notice = n /\ mails[i].to = p
                                             /\ mails[i].at \in {"delivered", "done"}
LEMMA OneSent ==
  ASSUME SentOnce, NEW n \in Messages \ spoilt, NEW p \in People, inbox[n][p] # 0
  PROVE  inbox[n][p] = 1 /\ Delivered(n, p)
  BY DEF SentOnce, Delivered

LEMMA MailNumbers ==
  ASSUME Notices!NoticesAssumption
  PROVE  MailRetries \in Nat /\ MaxMails \in Nat /\ MaxCrashes \in Nat
  BY DEF Notices!NoticesAssumption

LEMMA NoticesInit == ASSUME Notices!NoticesAssumption, Notices!Init PROVE NoticeInv
<1>1. /\ notice = [n \in Messages |-> Notices!Blank] /\ mails = <<>> /\ logged = <<>>
      /\ inbox = [n \in Messages |-> [p \in People |-> 0]] /\ crashes = 0 /\ spoilt = {}
  BY DEF Notices!Init
<1>2. Notices!Blank \in Notice /\ Notices!Blank.at = "none" /\ Notices!Blank.task \notin Notices!Addressed
      /\ Notices!Blank.left = {}
  BY MailNumbers DEF Notices!Blank, Notice, Notices!Plain, Notices!Addressed
<1>3. NoticeShapes BY <1>1, <1>2, MailNumbers DEF NoticeShapes
<1>4. DOMAIN mails = {} BY <1>1
<1> QED BY <1>1, <1>2, <1>3, <1>4
        DEF NoticeInv, RecipientsNamed, ToldServed, SentOnce, LogTrue

\* A message moves; its e-mails are as they were.
LEMMA MessageMoves ==
  ASSUME NoticeInv, NEW n \in Messages, NEW to \in Notice, notice' = [notice EXCEPT ![n] = to],
         UNCHANGED <<mails, inbox, logged>>, crashes' \in 0..MaxCrashes,
         spoilt' = spoilt \/ spoilt' = spoilt \cup {n},
         to.task \in Notices!Addressed => to.to \in People,
         to.at \in {"started", "done"} => \A p \in to.told \ to.left : Served(n, p),
         to.at = "done" => to.left = {}, to.left \subseteq to.told,
         n \notin spoilt' => \A i \in DOMAIN mails : mails[i].notice = n =>
            /\ to.at \notin {"none", "queued"}
            /\ to.at = "started" => mails[i].to \notin to.left /\ mails[i].to \in to.told
  PROVE  NoticeInv'
<1>1. /\ notice' \in [Messages -> Notice] /\ notice'[n] = to
      /\ \A m \in Messages : m # n => notice'[m] = notice[m]
  BY DEF NoticeInv, NoticeShapes
<1>2. NoticeShapes' BY <1>1 DEF NoticeInv, NoticeShapes, Mail, Notice
<1>3. RecipientsNamed' BY <1>1 DEF NoticeInv, RecipientsNamed, Notices!Addressed
<1>4. \A m, p : Served(m, p)' <=> Served(m, p) BY DEF Served
<1>5. ToldServed'
  <2> SUFFICES ASSUME NEW m \in Messages
               PROVE  /\ notice'[m].at \in {"started", "done"} =>
                           \A p \in notice'[m].told \ notice'[m].left : Served(m, p)
                      /\ notice'[m].at = "done" => notice'[m].left = {}
                      /\ notice'[m].left \subseteq notice'[m].told
    BY <1>4 DEF ToldServed
  <2>1. CASE m = n BY <1>1, <2>1
  <2>2. CASE m # n BY <1>1, <2>2 DEF NoticeInv, ToldServed
  <2> QED BY <2>1, <2>2
<1>6. SentOnce' BY <1>1 DEF NoticeInv, SentOnce
<1>7. LogTrue' BY DEF NoticeInv, LogTrue
<1> QED BY <1>2, <1>3, <1>5, <1>6, <1>7 DEF NoticeInv

LEMMA DispatchKeeps ==
  ASSUME NoticeInv, Notices!NoticesAssumption, NEW n \in Messages, NEW task,
         NEW p, Notices!Dispatch(n, task, p)
  PROVE  NoticeInv'
<1> DEFINE to == [Notices!Blank EXCEPT !.task = task, !.to = p, !.at = "queued"]
<1>1. /\ notice[n].at = "none" /\ task \in Notices!Lookups \cup Notices!Addressed
      /\ p \in (IF task \in Notices!Addressed THEN People ELSE {Nobody})
      /\ notice' = [notice EXCEPT ![n] = to] /\ UNCHANGED <<mails, inbox, logged, crashes, spoilt>>
  BY DEF Notices!Dispatch, Notices!Set
<1>2. /\ to \in Notice /\ to.task = task /\ to.to = p /\ to.at = "queued" /\ to.told = {} /\ to.left = {}
  <2>1. 0 \in 0..(MailRetries + 1) BY MailNumbers
  <2>2. p \in People \cup {Nobody} BY <1>1
  <2> QED BY <1>1, <2>1, <2>2 DEF Notices!Blank, Notice
<1> HIDE DEF to
<1>3. task \in Notices!Addressed => p \in People BY <1>1
<1>4. crashes' \in 0..MaxCrashes BY <1>1 DEF NoticeInv, NoticeShapes
<1>5. n \notin spoilt => \A i \in DOMAIN mails : mails[i].notice # n
  BY <1>1 DEF NoticeInv, SentOnce
<1> QED BY <1>1, <1>2, <1>3, <1>4, <1>5, MessageMoves

\* Several messages that were not used before are used at once.
LEMMA CheckOverdueKeeps ==
  ASSUME NoticeInv, Notices!NoticesAssumption, NEW p \in People \cup {Nobody}, NEW admins \in SUBSET People,
         NEW to \in [Notices!OverdueRecipients(p, admins) -> Messages], Notices!CheckOverdueTask(to)
  PROVE  NoticeInv'
<1> DEFINE used == {n \in Messages : \E q \in DOMAIN to : to[q] = n}
           who(n) == CHOOSE q \in DOMAIN to : to[q] = n
<1>1. /\ \A q \in DOMAIN to : notice[to[q]].at = "none"
      /\ notice' = [n \in Messages |->
           IF \E q \in DOMAIN to : to[q] = n
           THEN [Notices!Blank EXCEPT !.task = "overdue", !.at = "queued", !.to = who(n)]
           ELSE notice[n]]
      /\ UNCHANGED <<mails, inbox, logged, crashes, spoilt>>
  BY DEF Notices!CheckOverdueTask
<1>2. ASSUME NEW n \in used
      PROVE  /\ notice[n].at = "none" /\ notice'[n] \in Notice /\ notice'[n].at = "queued"
             /\ notice'[n].to \in People /\ notice'[n].left = {}
  <2>1. PICK q \in DOMAIN to : to[q] = n BY <1>2
  <2>2. who(n) \in DOMAIN to BY <2>1
  <2>3. DOMAIN to \subseteq People BY DEF Notices!OverdueRecipients
  <2>4. notice'[n] = [Notices!Blank EXCEPT !.task = "overdue", !.at = "queued", !.to = who(n)]
    BY <1>1, <1>2
  <2>5. who(n) \in People BY <2>2, <2>3
  <2>6. 0 \in 0..(MailRetries + 1) BY MailNumbers
  <2> HIDE DEF who
  <2>7. notice'[n] \in Notice /\ notice'[n].at = "queued" /\ notice'[n].to = who(n)
        /\ notice'[n].left = {}
    BY <2>4, <2>5, <2>6 DEF Notices!Blank, Notice, Notices!Addressed
  <2> QED BY <1>1, <2>1, <2>5, <2>7
<1>3. ASSUME NEW n \in Messages \ used PROVE notice'[n] = notice[n] BY <1>1, <1>3
<1>4. notice' \in [Messages -> Notice]
  <2>1. \A n \in Messages : notice'[n] \in Notice
    BY <1>2, <1>3 DEF NoticeInv, NoticeShapes
  <2> HIDE DEF used
  <2> QED BY <1>1, <2>1
<1> HIDE DEF used, who
<1>5. NoticeShapes' BY <1>1, <1>4 DEF NoticeInv, NoticeShapes, Mail, Notice
<1>6. RecipientsNamed' BY <1>2, <1>3 DEF NoticeInv, RecipientsNamed, Notices!Addressed
<1>7. \A m, q : Served(m, q)' <=> Served(m, q) BY <1>1 DEF Served
<1>8. ToldServed'
  <2> SUFFICES ASSUME NEW m \in Messages
               PROVE  /\ notice'[m].at \in {"started", "done"} =>
                           \A q \in notice'[m].told \ notice'[m].left : Served(m, q)
                      /\ notice'[m].at = "done" => notice'[m].left = {}
                      /\ notice'[m].left \subseteq notice'[m].told
    BY <1>7 DEF ToldServed
  <2>1. CASE m \in used BY <1>2, <2>1
  <2>2. CASE m \notin used BY <1>3, <2>2 DEF NoticeInv, ToldServed
  <2> QED BY <2>1, <2>2
<1>9. SentOnce'
  <2>1. ASSUME NEW i \in DOMAIN mails, mails[i].notice \notin spoilt PROVE mails[i].notice \notin used
    BY <1>2, <2>1, MailFields DEF NoticeInv, SentOnce
  <2>2. \A i \in DOMAIN mails : mails[i].notice \notin spoilt => notice'[mails[i].notice] = notice[mails[i].notice]
    BY <1>3, <2>1, MailFields DEF NoticeInv
  <2>3. \A i \in DOMAIN mails : mails[i].notice \in Messages BY MailFields DEF NoticeInv
  <2> SUFFICES ASSUME NEW m \in Messages \ spoilt
               PROVE  \A i \in DOMAIN mails : mails[i].notice = m =>
                        /\ notice'[m].at \notin {"none", "queued"}
                        /\ notice'[m].at = "started" => mails[i].to \notin notice'[m].left
                                                        /\ mails[i].to \in notice'[m].told
    <3>1. mails' = mails /\ inbox' = inbox /\ spoilt' = spoilt BY <1>1
    <3> QED BY <3>1 DEF NoticeInv, SentOnce
  <2>4. \A i \in DOMAIN mails : mails[i].notice = m => notice'[m] = notice[m] BY <2>2
  <2> QED BY <2>4 DEF NoticeInv, SentOnce
<1>10. LogTrue' BY <1>1 DEF NoticeInv, LogTrue
<1> QED BY <1>5, <1>6, <1>8, <1>9, <1>10 DEF NoticeInv

\* A task looks up whom to tell, or finds nobody.
LEMMA StartsKeep ==
  ASSUME NoticeInv, Notices!NoticesAssumption, NEW n \in Messages, notice[n].at = "queued",
         \/ Notices!Skip(n)
         \/ \E recipients \in SUBSET People : Notices!Start(n, recipients)
  PROVE  NoticeInv'
<1>1. CASE Notices!Skip(n)
  <2> DEFINE to == [notice[n] EXCEPT !.at = "skipped"]
  <2>1. notice' = [notice EXCEPT ![n] = to] /\ UNCHANGED <<mails, inbox, logged, crashes, spoilt>>
    BY <1>1 DEF Notices!Skip, Notices!Set
  <2>2. /\ to \in Notice /\ to.task = notice[n].task /\ to.to = notice[n].to /\ to.at = "skipped"
        /\ to.left = notice[n].left /\ to.told = notice[n].told
    BY NoticeFields DEF NoticeInv, Notice
  <2> HIDE DEF to
  <2>3. crashes' \in 0..MaxCrashes BY <2>1 DEF NoticeInv, NoticeShapes
  <2> QED BY <2>1, <2>2, <2>3, MessageMoves DEF NoticeInv, RecipientsNamed, ToldServed
<1>2. ASSUME NEW recipients \in SUBSET People, Notices!Start(n, recipients) PROVE NoticeInv'
  <2> DEFINE to == [notice[n] EXCEPT !.at = "started", !.left = recipients, !.told = recipients]
  <2>1. notice' = [notice EXCEPT ![n] = to] /\ UNCHANGED <<mails, inbox, logged, crashes, spoilt>>
    BY <1>2 DEF Notices!Start, Notices!Set
  <2>2. /\ to \in Notice /\ to.task = notice[n].task /\ to.to = notice[n].to /\ to.at = "started"
        /\ to.told = recipients /\ to.left = recipients
    BY NoticeFields DEF NoticeInv, Notice
  <2> HIDE DEF to
  <2>3. crashes' \in 0..MaxCrashes BY <2>1 DEF NoticeInv, NoticeShapes
  <2>4. n \notin spoilt => \A i \in DOMAIN mails : mails[i].notice # n
    BY DEF NoticeInv, SentOnce
  <2> QED BY <2>1, <2>2, <2>3, <2>4, MessageMoves DEF NoticeInv, RecipientsNamed
<1> QED BY <1>1, <1>2

LEMMA RaiseKeeps ==
  ASSUME NoticeInv, Notices!NoticesAssumption, NEW n \in Messages, Notices!Raise(n)
  PROVE  NoticeInv'
<1> DEFINE at == Notices!Again(notice[n].tries)
           to == [notice[n] EXCEPT !.at = at, !.tries = @ + 1, !.left = {}]
<1>1. /\ notice[n].at \in {"queued", "started"} /\ notice[n].tries <= MailRetries
      /\ notice' = [notice EXCEPT ![n] = to]
      /\ spoilt' = (IF notice[n].left # notice[n].told THEN spoilt \cup {n} ELSE spoilt)
      /\ UNCHANGED <<mails, inbox, logged, crashes>>
  BY DEF Notices!Raise, Notices!Set
<1>2. at \in {"queued", "gave up"} BY DEF Notices!Again
<1> HIDE DEF at
<1>3. /\ to \in Notice /\ to.task = notice[n].task /\ to.to = notice[n].to /\ to.at = at
      /\ to.left = {}
  <2>1. notice[n].tries + 1 \in 0..(MailRetries + 1)
    <3>1. notice[n].tries \in 0..(MailRetries + 1) /\ MailRetries \in Nat
      BY NoticeFields, MailNumbers DEF NoticeInv
    <3> QED BY <1>1, <3>1
  <2> QED BY <1>2, <2>1, NoticeFields DEF NoticeInv, Notice
<1> HIDE DEF to
<1>4. crashes' \in 0..MaxCrashes BY <1>1 DEF NoticeInv, NoticeShapes
<1>5. n \notin spoilt' => \A i \in DOMAIN mails : mails[i].notice # n
  <2>1. n \notin spoilt' => n \notin spoilt /\ notice[n].left = notice[n].told BY <1>1
  <2> QED BY <1>1, <2>1 DEF NoticeInv, SentOnce
<1> QED BY <1>1, <1>2, <1>3, <1>4, <1>5, MessageMoves DEF NoticeInv, RecipientsNamed

LEMMA ReturnKeeps ==
  ASSUME NoticeInv, NEW n \in Messages, Notices!Return(n)
  PROVE  NoticeInv'
<1> DEFINE to == [notice[n] EXCEPT !.at = "done"]
<1>1. /\ notice[n].at = "started" /\ notice[n].left = {} /\ notice' = [notice EXCEPT ![n] = to]
      /\ UNCHANGED <<mails, inbox, logged, crashes, spoilt>>
  BY DEF Notices!Return, Notices!Set
<1>2. /\ to \in Notice /\ to.task = notice[n].task /\ to.to = notice[n].to /\ to.at = "done"
      /\ to.told = notice[n].told /\ to.left = notice[n].left
  BY NoticeFields DEF NoticeInv, Notice
<1> HIDE DEF to
<1>3. crashes' \in 0..MaxCrashes BY <1>1 DEF NoticeInv, NoticeShapes
<1> QED BY <1>1, <1>2, <1>3, MessageMoves DEF NoticeInv, RecipientsNamed, ToldServed

------------------------------------------------------------------------------
(* E-mails *)

Appended(k, n, p, plain) ==
  /\ mails' \in Seq(Mail) /\ logged' \in Seq(Nat) /\ Len(logged') = Len(mails')
  /\ Len(mails') <= MaxMails
  /\ DOMAIN mails' = (DOMAIN mails) \cup {k} /\ k \notin DOMAIN mails
  /\ \A i \in DOMAIN mails : mails'[i] = mails[i] /\ logged'[i] = logged[i]
  /\ mails'[k].notice = n /\ mails'[k].to = p /\ mails'[k].at = "queued"
  /\ mails'[k].tries = 0 /\ mails'[k].plain = plain /\ logged'[k] = 0

LEMMA MailAppended ==
  ASSUME NoticeInv, Notices!NoticesAssumption, NEW n \in Messages, NEW p \in People, NEW plain \in BOOLEAN,
         Notices!Mail(n, p, plain)
  PROVE  \E k \in Nat : Appended(k, n, p, plain)
<1> DEFINE m == [notice |-> n, to |-> p, plain |-> plain, at |-> "queued", tries |-> 0]
           k == Len(mails) + 1
<1>1. Len(mails) < MaxMails /\ mails' = Append(mails, m) /\ logged' = Append(logged, 0)
  BY DEF Notices!Mail
<1>2. /\ m \in Mail /\ m.notice = n /\ m.to = p /\ m.at = "queued" /\ m.tries = 0 /\ m.plain = plain
  BY MailNumbers DEF Mail
<1>3. mails \in Seq(Mail) /\ logged \in Seq(Nat) /\ Len(logged) = Len(mails) /\ Len(mails) \in Nat
      /\ MaxMails \in Nat
  BY MailNumbers DEF NoticeInv, NoticeShapes
<1> HIDE DEF m
<1>4. /\ mails' \in Seq(Mail) /\ Len(mails') = Len(mails) + 1 /\ mails'[k] = m
      /\ \A i \in 1..Len(mails) : mails'[i] = mails[i]
      /\ DOMAIN mails' = 1..(Len(mails) + 1) /\ DOMAIN mails = 1..Len(mails)
  BY <1>1, <1>2, <1>3
<1>5. /\ logged' \in Seq(Nat) /\ Len(logged') = Len(mails) + 1 /\ logged'[k] = 0
      /\ \A i \in 1..Len(mails) : logged'[i] = logged[i]
  BY <1>1, <1>3
<1>6. 1..(Len(mails) + 1) = 1..Len(mails) \cup {k} /\ k \notin 1..Len(mails) /\ k \in Nat
      /\ Len(mails) + 1 <= MaxMails
  BY <1>1, <1>3
<1> HIDE DEF k
<1> QED BY <1>2, <1>3, <1>4, <1>5, <1>6 DEF Appended

\* How a message goes on that an e-mail for p is queued of.
GoesOn(n, p, to) ==
  /\ to.task \in Notices!Addressed => to.to \in People
  /\ to.at \in {"started", "done"}
  /\ to.at = "done" => to.left = {}
  /\ to.left \subseteq to.told /\ p \in to.told \ to.left
  /\ \A q \in to.told \ to.left : q = p \/ Served(n, q)
  /\ n \notin spoilt => \A i \in DOMAIN mails : mails[i].notice = n =>
       /\ mails[i].to # p
       /\ to.at = "started" => mails[i].to \notin to.left /\ mails[i].to \in to.told

LEMMA QueuedKeeps ==
  ASSUME NoticeInv, Notices!NoticesAssumption, NEW n \in Messages, NEW p \in People, NEW plain \in BOOLEAN,
         Notices!Mail(n, p, plain), NEW to \in Notice, notice' = [notice EXCEPT ![n] = to],
         UNCHANGED <<inbox, crashes, spoilt>>,
         GoesOn(n, p, to)
  PROVE  NoticeInv'
<1>0. PICK k \in Nat : Appended(k, n, p, plain) BY Zenon, MailAppended DEF GoesOn
<1>1. /\ mails' \in Seq(Mail) /\ logged' \in Seq(Nat) /\ Len(logged') = Len(mails')
      /\ Len(mails') <= MaxMails
      /\ DOMAIN mails' = (DOMAIN mails) \cup {k} /\ k \notin DOMAIN mails
      /\ \A i \in DOMAIN mails : mails'[i] = mails[i] /\ logged'[i] = logged[i]
      /\ mails'[k].notice = n /\ mails'[k].to = p /\ mails'[k].at = "queued"
      /\ mails'[k].tries = 0 /\ mails'[k].plain = plain /\ logged'[k] = 0
  BY <1>0 DEF Appended
<1> USE DEF GoesOn
<1>2. /\ notice' \in [Messages -> Notice] /\ notice'[n] = to
      /\ \A m \in Messages : m # n => notice'[m] = notice[m]
  BY DEF NoticeInv, NoticeShapes
<1>3. NoticeShapes' BY <1>1, <1>2 DEF NoticeInv, NoticeShapes, Mail, Notice
<1>4. RecipientsNamed' BY <1>2 DEF NoticeInv, RecipientsNamed, Notices!Addressed
<1>5. /\ \A m \in Messages, q \in People : Served(m, q) => Served(m, q)'
      /\ Served(n, p)'
  <2>1. ASSUME NEW m \in Messages, NEW q \in People, Served(m, q) PROVE Served(m, q)'
    BY <1>1, <2>1 DEF Served
  <2>2. Served(n, p)' BY <1>1 DEF Served
  <2> QED BY <2>1, <2>2
<1>6. ToldServed'
  <2> SUFFICES ASSUME NEW m \in Messages
               PROVE  /\ notice'[m].at \in {"started", "done"} =>
                           \A q \in notice'[m].told \ notice'[m].left : Served(m, q)'
                      /\ notice'[m].at = "done" => notice'[m].left = {}
                      /\ notice'[m].left \subseteq notice'[m].told
    BY DEF ToldServed
  <2>1. CASE m = n
    <3>1. to.told \subseteq People BY DEF Notice
    <3> QED BY <1>2, <1>5, <2>1, <3>1
  <2>2. CASE m # n
    <3>1. notice[m].told \subseteq People BY NoticeFields DEF NoticeInv
    <3> QED BY <1>2, <1>5, <2>2, <3>1 DEF NoticeInv, ToldServed
  <2> QED BY <2>1, <2>2
<1>7. SentOnce'
  <2> SUFFICES ASSUME NEW m \in Messages \ spoilt
      PROVE
        /\ \A i, j \in DOMAIN mails' :
             mails'[i].notice = m /\ mails'[j].notice = m /\ mails'[i].to = mails'[j].to => i = j
        /\ \A i \in DOMAIN mails' : mails'[i].notice = m =>
             /\ notice'[m].at \notin {"none", "queued"}
             /\ notice'[m].at = "started" => mails'[i].to \notin notice'[m].left
                                             /\ mails'[i].to \in notice'[m].told
        /\ \A q \in People : inbox[m][q] # 0 =>
             /\ inbox[m][q] = 1
             /\ \E i \in DOMAIN mails' : /\ mails'[i].notice = m /\ mails'[i].to = q
                                         /\ mails'[i].at \in {"delivered", "done"}
    BY DEF SentOnce
  <2>1. /\ \A i, j \in DOMAIN mails :
             mails[i].notice = m /\ mails[j].notice = m /\ mails[i].to = mails[j].to => i = j
        /\ \A i \in DOMAIN mails : mails[i].notice = m =>
             /\ notice[m].at \notin {"none", "queued"}
             /\ notice[m].at = "started" => mails[i].to \notin notice[m].left
                                            /\ mails[i].to \in notice[m].told
        /\ \A q \in People : inbox[m][q] # 0 =>
             /\ inbox[m][q] = 1
             /\ \E i \in DOMAIN mails : /\ mails[i].notice = m /\ mails[i].to = q
                                        /\ mails[i].at \in {"delivered", "done"}
    BY DEF NoticeInv, SentOnce
  <2>2. \A q \in People : inbox[m][q] # 0 =>
             /\ inbox[m][q] = 1
             /\ \E i \in DOMAIN mails' : /\ mails'[i].notice = m /\ mails'[i].to = q
                                         /\ mails'[i].at \in {"delivered", "done"}
    BY <1>1, <2>1
  <2>3. CASE m = n BY <1>1, <1>2, <2>1, <2>2, <2>3
  <2>4. CASE m # n BY <1>1, <1>2, <2>1, <2>2, <2>4
  <2> QED BY <2>3, <2>4
<1>8. LogTrue'
  <2>1. MailRetries \in Nat BY MailNumbers
  <2> SUFFICES ASSUME NEW i \in DOMAIN mails'
               PROVE  /\ logged'[i] = IF mails'[i].at = "done" THEN 1 ELSE 0
                      /\ mails'[i].at \in {"delivered", "done"} =>
                           inbox[mails'[i].notice][mails'[i].to] > 0
                      /\ mails'[i].at \in {"queued", "delivered"} => mails'[i].tries <= MailRetries
    BY DEF LogTrue
  <2>2. CASE i \in DOMAIN mails BY <1>1, <2>2 DEF NoticeInv, LogTrue
  <2>3. CASE i = k BY <1>1, <2>1, <2>3
  <2> QED BY <1>1, <2>2, <2>3
<1> QED BY <1>3, <1>4, <1>6, <1>7, <1>8 DEF NoticeInv

LEMMA QueueKeeps ==
  ASSUME NoticeInv, Notices!NoticesAssumption, NEW n \in Messages, NEW p \in People, Notices!Queue(n, p)
  PROVE  NoticeInv'
<1> DEFINE to == [notice[n] EXCEPT !.left = @ \ {p}]
<1>1. /\ notice[n].at = "started" /\ p \in notice[n].left /\ notice' = [notice EXCEPT ![n] = to]
      /\ Notices!Mail(n, p, FALSE) /\ UNCHANGED <<inbox, crashes, spoilt>>
  BY DEF Notices!Queue, Notices!Set
<1>2. /\ to \in Notice /\ to.task = notice[n].task /\ to.to = notice[n].to /\ to.at = "started"
      /\ to.told = notice[n].told /\ to.left = notice[n].left \ {p}
  BY <1>1, NoticeFields DEF NoticeInv, Notice
<1> HIDE DEF to
<1>3. /\ to.task \in Notices!Addressed => to.to \in People
      /\ \A q \in to.told \ to.left : q = p \/ Served(n, q)
  BY <1>1, <1>2 DEF NoticeInv, RecipientsNamed, ToldServed
<1>4. p \in to.told \ to.left BY <1>1, <1>2 DEF NoticeInv, ToldServed
<1>5. n \notin spoilt => \A i \in DOMAIN mails : mails[i].notice = n =>
         /\ mails[i].to # p
         /\ to.at = "started" => mails[i].to \notin to.left /\ mails[i].to \in to.told
  BY <1>1, <1>2 DEF NoticeInv, SentOnce
<1>6. to.left \subseteq to.told BY <1>2 DEF NoticeInv, ToldServed
<1>7. GoesOn(n, p, to) BY <1>2, <1>3, <1>4, <1>5, <1>6 DEF GoesOn
<1>8. FALSE \in BOOLEAN OBVIOUS
<1> QED BY Zenon, <1>1, <1>2, <1>7, <1>8, QueuedKeeps

LEMMA ZipKeeps ==
  ASSUME NoticeInv, Notices!NoticesAssumption, NEW n \in Messages, NEW p \in People, Notices!SendZipLink(n, p)
  PROVE  NoticeInv'
<1> DEFINE to == [Notices!Blank EXCEPT !.at = "done", !.to = p, !.told = {p}]
<1>1. /\ notice[n].at = "none" /\ notice' = [notice EXCEPT ![n] = to]
      /\ Notices!Mail(n, p, TRUE) /\ UNCHANGED <<inbox, crashes, spoilt>>
  BY DEF Notices!SendZipLink, Notices!Set
<1>2. /\ to \in Notice /\ to.to = p /\ to.at = "done" /\ to.told = {p} /\ to.left = {}
  <2>1. 0 \in 0..(MailRetries + 1) BY MailNumbers
  <2> QED BY <2>1 DEF Notices!Blank, Notice
<1>3. to.task \notin Notices!Addressed
  BY DEF Notices!Blank, Notices!Plain, Notices!Addressed
<1> HIDE DEF to
<1>4. n \notin spoilt => \A i \in DOMAIN mails : mails[i].notice # n
  BY <1>1 DEF NoticeInv, SentOnce
<1>5. GoesOn(n, p, to) BY <1>2, <1>3, <1>4 DEF GoesOn
<1>6. TRUE \in BOOLEAN OBVIOUS
<1> QED BY Zenon, <1>1, <1>2, <1>5, <1>6, QueuedKeeps

\* What an e-mail's step leaves alone.
Kept(i) == /\ notice' = notice /\ crashes' \in 0..MaxCrashes
           /\ mails' \in Seq(Mail) /\ Len(mails') = Len(mails) /\ DOMAIN mails' = DOMAIN mails
           /\ \A j \in DOMAIN mails : j # i => mails'[j] = mails[j]
           /\ mails'[i].notice = mails[i].notice /\ mails'[i].to = mails[i].to
           /\ mails'[i].plain = mails[i].plain

LEMMA MailSet ==
  ASSUME mails \in Seq(Mail), NEW i \in DOMAIN mails, NEW m \in Mail, mails' = [mails EXCEPT ![i] = m]
  PROVE  /\ mails' \in Seq(Mail) /\ Len(mails') = Len(mails) /\ DOMAIN mails' = DOMAIN mails
         /\ mails'[i] = m /\ \A j \in DOMAIN mails : j # i => mails'[j] = mails[j]
<1>1. i \in 1..Len(mails) OBVIOUS
<1> QED BY <1>1, ExceptSeq

LEMMA MailChanges ==
  ASSUME NoticeInv, NEW i \in DOMAIN mails, notice' = notice, crashes' \in 0..MaxCrashes,
         NEW at \in {"queued", "delivered", "done", "gave up", "lost"},
         NEW tries \in 0..(MailRetries + 1),
         mails' = [mails EXCEPT ![i].at = at, ![i].tries = tries]
  PROVE  Kept(i) /\ mails'[i].at = at /\ mails'[i].tries = tries
<1>1. mails \in Seq(Mail) BY DEF NoticeInv, NoticeShapes
<1>2. mails[i] \in Mail BY MailFields DEF NoticeInv
<1> DEFINE m == [mails[i] EXCEPT !.at = at, !.tries = tries]
<1>3. mails' = [mails EXCEPT ![i] = m]
  <2>1. DOMAIN mails' = DOMAIN mails /\ mails'[i] = m /\ \A j \in DOMAIN mails : j # i => mails'[j] = mails[j]
    OBVIOUS
  <2> QED BY <2>1
<1>4. m \in Mail /\ m.at = at /\ m.tries = tries /\ m.notice = mails[i].notice /\ m.to = mails[i].to
      /\ m.plain = mails[i].plain
  BY <1>2 DEF Mail
<1> HIDE DEF m
<1>5. /\ mails' \in Seq(Mail) /\ Len(mails') = Len(mails) /\ DOMAIN mails' = DOMAIN mails
      /\ mails'[i] = m /\ \A j \in DOMAIN mails : j # i => mails'[j] = mails[j]
  <2>1. m \in Mail /\ mails \in Seq(Mail) BY <1>1, <1>4
  <2> QED BY Zenon, <1>3, <2>1, MailSet
<1> QED BY <1>4, <1>5 DEF Kept

LEMMA UptoChanges ==
  ASSUME NoticeInv, NEW i \in DOMAIN mails, notice' = notice, crashes' \in 0..MaxCrashes,
         NEW at \in {"queued", "delivered", "done", "gave up", "lost"}, Notices!Upto(i, at)
  PROVE  Kept(i) /\ mails'[i].at = at /\ mails'[i].tries = mails[i].tries
<1>1. mails \in Seq(Mail) BY DEF NoticeInv, NoticeShapes
<1>2. mails[i] \in Mail BY MailFields DEF NoticeInv
<1> DEFINE m == [mails[i] EXCEPT !.at = at]
<1>3. mails' = [mails EXCEPT ![i] = m] BY <1>1 DEF Notices!Upto
<1>4. m \in Mail /\ m.at = at /\ m.tries = mails[i].tries /\ m.notice = mails[i].notice
      /\ m.to = mails[i].to /\ m.plain = mails[i].plain
  BY <1>2 DEF Mail
<1> HIDE DEF m
<1>5. /\ mails' \in Seq(Mail) /\ Len(mails') = Len(mails) /\ DOMAIN mails' = DOMAIN mails
      /\ mails'[i] = m /\ \A j \in DOMAIN mails : j # i => mails'[j] = mails[j]
  <2>1. m \in Mail /\ mails \in Seq(Mail) BY <1>1, <1>4
  <2> QED BY Zenon, <1>3, <2>1, MailSet
<1> QED BY <1>4, <1>5 DEF Kept

\* An e-mail goes on without a delivery; one that was delivered and is queued
\* again spoils its message.
LEMMA UndeliveredKeeps ==
  ASSUME NoticeInv, NEW i \in DOMAIN mails, Kept(i), UNCHANGED <<inbox, logged>>,
         spoilt' = (IF mails[i].at = "delivered" THEN spoilt \cup {mails[i].notice} ELSE spoilt),
         mails[i].at \in {"queued", "delivered"},
         mails'[i].at \in {"queued", "gave up", "lost"},
         mails'[i].at = "queued" => mails'[i].tries <= MailRetries,
         mails'[i].at = "gave up" => mails'[i].tries > MailRetries,
         mails'[i].at = "lost" => mails'[i].plain
  PROVE  NoticeInv'
<1> USE DEF Kept
<1>1. mails[i].notice \in Messages /\ mails[i].to \in People BY MailFields DEF NoticeInv
<1>2. NoticeShapes'
  BY <1>1 DEF NoticeInv, NoticeShapes, Mail, Notice
<1>3. RecipientsNamed' BY DEF NoticeInv, RecipientsNamed, Notices!Addressed
<1>4. \A n \in Messages, p \in People : Served(n, p) => Served(n, p)'
  <2> SUFFICES ASSUME NEW n \in Messages, NEW p \in People, Served(n, p) PROVE Served(n, p)'
    OBVIOUS
  <2>1. CASE inbox[n][p] > 0 BY <2>1 DEF Served
  <2>2. CASE ~(inbox[n][p] > 0)
    <3>1. PICK j \in DOMAIN mails :
            /\ mails[j].notice = n /\ mails[j].to = p
            /\ \/ mails[j].at = "queued" \/ mails[j].tries > MailRetries
               \/ mails[j].plain /\ mails[j].at = "lost"
      BY <2>2 DEF Served
    <3> QED BY <3>1 DEF Served
  <2> QED BY <2>1, <2>2
<1>5. ToldServed'
  <2>1. \A n \in Messages : notice[n].told \subseteq People BY NoticeFields DEF NoticeInv
  <2> QED BY <1>4, <2>1 DEF NoticeInv, ToldServed
<1>6. SentOnce'
  <2>1. \A j \in DOMAIN mails : mails'[j].notice = mails[j].notice /\ mails'[j].to = mails[j].to
    OBVIOUS
  <2>2. spoilt \subseteq spoilt' /\ notice' = notice /\ inbox' = inbox /\ DOMAIN mails' = DOMAIN mails
    OBVIOUS
  <2> HIDE DEF Kept
  <2>3. ASSUME NEW n \in Messages \ spoilt', NEW p \in People, inbox[n][p] # 0
        PROVE  inbox[n][p] = 1 /\ \E j \in DOMAIN mails :
                 mails'[j].notice = n /\ mails'[j].to = p /\ mails'[j].at \in {"delivered", "done"}
    <3>0. n \in Messages \ spoilt BY <2>2
    <3>1. inbox[n][p] = 1 BY Zenon, <2>3, <3>0, OneSent DEF NoticeInv
    <3>2. Delivered(n, p) BY Zenon, <2>3, <3>0, OneSent DEF NoticeInv
    <3>5. PICK j \in DOMAIN mails : /\ mails[j].notice = n /\ mails[j].to = p
                                    /\ mails[j].at \in {"delivered", "done"}
      BY <3>2 DEF Delivered
    <3>3. j # i BY <2>3, <3>5
    <3>4. mails'[j] = mails[j] BY <3>3 DEF Kept
    <3> QED BY <3>4, <3>1, <3>5, <3>3
  <2>4. ASSUME NEW n \in Messages \ spoilt'
        PROVE  /\ \A j, k \in DOMAIN mails :
                    mails'[j].notice = n /\ mails'[k].notice = n /\ mails'[j].to = mails'[k].to => j = k
               /\ \A j \in DOMAIN mails : mails'[j].notice = n =>
                    /\ notice[n].at \notin {"none", "queued"}
                    /\ notice[n].at = "started" => mails'[j].to \notin notice[n].left
                                                   /\ mails'[j].to \in notice[n].told
    <3>1. n \in Messages \ spoilt BY <2>2
    <3>2. /\ \A j, k \in DOMAIN mails :
                mails[j].notice = n /\ mails[k].notice = n /\ mails[j].to = mails[k].to => j = k
          /\ \A j \in DOMAIN mails : mails[j].notice = n =>
                /\ notice[n].at \notin {"none", "queued"}
                /\ notice[n].at = "started" => mails[j].to \notin notice[n].left
                                               /\ mails[j].to \in notice[n].told
      BY <3>1 DEF NoticeInv, SentOnce
    <3> QED BY <2>1, <3>2
  <2> SUFFICES ASSUME NEW n \in Messages \ spoilt'
        PROVE  /\ \A j, k \in DOMAIN mails' :
                    mails'[j].notice = n /\ mails'[k].notice = n /\ mails'[j].to = mails'[k].to => j = k
               /\ \A j \in DOMAIN mails' : mails'[j].notice = n =>
                    /\ notice'[n].at \notin {"none", "queued"}
                    /\ notice'[n].at = "started" => mails'[j].to \notin notice'[n].left
                                                    /\ mails'[j].to \in notice'[n].told
               /\ \A p \in People : inbox'[n][p] # 0 =>
                    /\ inbox'[n][p] = 1
                    /\ \E j \in DOMAIN mails' : /\ mails'[j].notice = n /\ mails'[j].to = p
                                                /\ mails'[j].at \in {"delivered", "done"}
    BY Zenon DEF SentOnce
  <2>5. \A p \in People : inbox[n][p] # 0 =>
          inbox[n][p] = 1 /\ \E j \in DOMAIN mails :
                 mails'[j].notice = n /\ mails'[j].to = p /\ mails'[j].at \in {"delivered", "done"}
    BY Zenon, <2>3
  <2> QED BY Zenon, <2>2, <2>5, <2>4
<1>7. LogTrue' BY DEF NoticeInv, LogTrue
<1> QED BY <1>2, <1>3, <1>5, <1>6, <1>7 DEF NoticeInv

LEMMA FailMailKeeps ==
  ASSUME NoticeInv, Notices!NoticesAssumption, NEW i \in DOMAIN mails, NEW logging \in BOOLEAN,
         Notices!Fail(i, logging)
  PROVE  NoticeInv'
<1>1. /\ mails[i].at \in {"queued", "delivered"}
      /\ IF mails[i].plain /\ ~logging THEN Notices!Upto(i, "lost") ELSE Notices!Retry(i)
      /\ spoilt' = (IF mails[i].at = "delivered" THEN spoilt \cup {mails[i].notice} ELSE spoilt)
      /\ UNCHANGED <<notice, inbox, logged, crashes>>
  BY DEF Notices!Fail
<1>2. /\ crashes' \in 0..MaxCrashes /\ MailRetries \in Nat /\ mails[i].tries \in 0..(MailRetries + 1)
      /\ mails[i].tries <= MailRetries
  BY <1>1, MailNumbers, MailFields DEF NoticeInv, NoticeShapes, LogTrue
<1>3. CASE mails[i].plain /\ ~logging
  <2>1. Kept(i) /\ mails'[i].at = "lost" BY <1>1, <1>2, <1>3, UptoChanges
  <2>2. mails'[i].plain BY <1>3, <2>1 DEF Kept
  <2> QED BY <1>1, <2>1, <2>2, UndeliveredKeeps
<1>4. CASE ~(mails[i].plain /\ ~logging)
  <2> DEFINE at == Notices!Again(mails[i].tries)
             tries == mails[i].tries + 1
  <2>1. mails' = [mails EXCEPT ![i].at = at, ![i].tries = tries]
    BY Zenon, <1>1, <1>4 DEF Notices!Retry
  <2>2. tries \in 0..(MailRetries + 1) BY <1>2
  <2>3. at \in {"queued", "gave up"} /\ (at = "queued" => tries <= MailRetries)
    BY <1>2 DEF Notices!Again
  <2>4. at = "gave up" => tries > MailRetries BY <1>2 DEF Notices!Again
  <2> HIDE DEF at, tries
  <2>5. Kept(i) /\ mails'[i].at = at /\ mails'[i].tries = tries
    BY <1>1, <1>2, <2>1, <2>2, <2>3, MailChanges
  <2> QED BY <1>1, <2>3, <2>4, <2>5, UndeliveredKeeps
<1> QED BY <1>3, <1>4

LEMMA DeliverMailKeeps ==
  ASSUME NoticeInv, NEW i \in DOMAIN mails, Notices!Deliver(i)
  PROVE  NoticeInv'
<1> DEFINE n == mails[i].notice
           p == mails[i].to
<1>1. /\ mails[i].at = "queued" /\ Notices!Upto(i, "delivered")
      /\ inbox' = [inbox EXCEPT ![n][p] = @ + 1]
      /\ UNCHANGED <<notice, logged, crashes, spoilt>>
  BY DEF Notices!Deliver
<1>2. crashes' \in 0..MaxCrashes BY <1>1 DEF NoticeInv, NoticeShapes
<1>3. /\ Kept(i) /\ mails'[i].at = "delivered" /\ mails'[i].tries = mails[i].tries
  BY <1>1, <1>2, UptoChanges
<1>4. n \in Messages /\ p \in People BY MailFields DEF NoticeInv
<1>5. /\ inbox' \in [Messages -> [People -> Nat]]
      /\ \A m \in Messages, q \in People : /\ inbox[m][q] \in Nat
           /\ inbox'[m][q] = IF m = n /\ q = p THEN inbox[m][q] + 1 ELSE inbox[m][q]
  BY <1>1, <1>4 DEF NoticeInv, NoticeShapes
<1> HIDE DEF n, p
<1> USE DEF Kept
<1>6. NoticeShapes' BY <1>1, <1>3, <1>5 DEF NoticeInv, NoticeShapes, Mail, Notice
<1>7. RecipientsNamed' BY <1>1 DEF NoticeInv, RecipientsNamed, Notices!Addressed
<1>8. \A m \in Messages, q \in People : Served(m, q) => Served(m, q)'
  <2> SUFFICES ASSUME NEW m \in Messages, NEW q \in People, Served(m, q) PROVE Served(m, q)'
    OBVIOUS
  <2>1. CASE inbox[m][q] > 0 BY <1>5, <2>1 DEF Served
  <2>2. CASE ~(inbox[m][q] > 0)
    <3>1. PICK j \in DOMAIN mails :
            /\ mails[j].notice = m /\ mails[j].to = q
            /\ \/ mails[j].at = "queued" \/ mails[j].tries > MailRetries
               \/ mails[j].plain /\ mails[j].at = "lost"
      BY <2>2 DEF Served
    <3>2. CASE j = i BY <1>5, <3>1, <3>2 DEF Served, n, p
    <3>3. CASE j # i BY <1>3, <3>1, <3>3 DEF Served
    <3> QED BY <3>2, <3>3
  <2> QED BY <2>1, <2>2
<1>9. ToldServed'
  <2>1. \A m \in Messages : notice[m].told \subseteq People BY NoticeFields DEF NoticeInv
  <2> QED BY <1>1, <1>8, <2>1 DEF NoticeInv, ToldServed
<1>10. SentOnce'
  <2> SUFFICES ASSUME NEW m \in Messages \ spoilt, NEW q \in People, inbox'[m][q] # 0
               PROVE  /\ inbox'[m][q] = 1
                      /\ \E j \in DOMAIN mails : /\ mails'[j].notice = m /\ mails'[j].to = q
                                                 /\ mails'[j].at \in {"delivered", "done"}
    BY <1>1, <1>3 DEF NoticeInv, SentOnce
  <2>1. CASE m = n /\ q = p
    <3>1. inbox[m][q] = 0
      <4>1. SUFFICES ASSUME inbox[m][q] # 0 PROVE FALSE OBVIOUS
      <4>2. PICK j \in DOMAIN mails : /\ mails[j].notice = m /\ mails[j].to = q
                                      /\ mails[j].at \in {"delivered", "done"}
        BY <4>1 DEF NoticeInv, SentOnce
      <4>3. j = i BY <2>1, <4>2 DEF NoticeInv, SentOnce, n, p
      <4> QED BY <1>1, <4>2, <4>3
    <3>2. inbox'[m][q] = 1 BY <1>5, <2>1, <3>1
    <3>3. mails'[i].notice = m /\ mails'[i].to = q BY <1>3, <2>1 DEF n, p
    <3> QED BY <1>3, <3>2, <3>3
  <2>2. CASE ~(m = n /\ q = p)
    <3>1. inbox[m][q] # 0 BY <1>5, <2>2
    <3>2. inbox[m][q] = 1 BY <3>1 DEF NoticeInv, SentOnce
    <3>3. PICK j \in DOMAIN mails : /\ mails[j].notice = m /\ mails[j].to = q
                                    /\ mails[j].at \in {"delivered", "done"}
      BY <3>1 DEF NoticeInv, SentOnce
    <3>4. j # i BY <1>1, <3>3
    <3> QED BY <1>3, <1>5, <2>2, <3>2, <3>3, <3>4
  <2> QED BY <2>1, <2>2
<1>11. LogTrue'
  <2> SUFFICES ASSUME NEW j \in DOMAIN mails
               PROVE  /\ logged[j] = IF mails'[j].at = "done" THEN 1 ELSE 0
                      /\ mails'[j].at \in {"delivered", "done"} =>
                           inbox'[mails'[j].notice][mails'[j].to] > 0
                      /\ mails'[j].at \in {"queued", "delivered"} => mails'[j].tries <= MailRetries
    BY <1>1, <1>3 DEF LogTrue
  <2>1. CASE j = i BY <1>1, <1>3, <1>4, <1>5, <2>1 DEF NoticeInv, LogTrue, n, p
  <2>2. CASE j # i
    <3>1. mails[j].notice \in Messages /\ mails[j].to \in People BY MailFields DEF NoticeInv
    <3> QED BY <1>3, <1>5, <2>2, <3>1 DEF NoticeInv, LogTrue
  <2> QED BY <2>1, <2>2
<1> QED BY <1>6, <1>7, <1>9, <1>10, <1>11 DEF NoticeInv

LEMMA LogSentKeeps ==
  ASSUME NoticeInv, NEW i \in DOMAIN mails, Notices!LogSent(i)
  PROVE  NoticeInv'
<1>1. /\ mails[i].at = "delivered" /\ Notices!Upto(i, "done") /\ logged' = [logged EXCEPT ![i] = @ + 1]
      /\ UNCHANGED <<notice, inbox, crashes, spoilt>>
  BY DEF Notices!LogSent
<1>2. crashes' \in 0..MaxCrashes BY <1>1 DEF NoticeInv, NoticeShapes
<1>3. /\ Kept(i) /\ mails'[i].at = "done" /\ mails'[i].tries = mails[i].tries
  BY <1>1, <1>2, UptoChanges
<1>4. /\ logged' \in Seq(Nat) /\ Len(logged') = Len(mails) /\ logged'[i] = logged[i] + 1
      /\ \A j \in DOMAIN mails : j # i => logged'[j] = logged[j]
  <2>1. i \in DOMAIN logged /\ logged[i] \in Nat BY MailFields DEF NoticeInv
  <2> QED BY <1>1, <2>1 DEF NoticeInv, NoticeShapes
<1> USE DEF Kept
<1>5. mails[i].notice \in Messages /\ mails[i].to \in People BY MailFields DEF NoticeInv
<1>6. NoticeShapes' BY <1>1, <1>3, <1>4 DEF NoticeInv, NoticeShapes, Mail, Notice
<1>7. RecipientsNamed' BY <1>1 DEF NoticeInv, RecipientsNamed, Notices!Addressed
<1>8. \A m \in Messages, q \in People : Served(m, q) => Served(m, q)'
  <2> SUFFICES ASSUME NEW m \in Messages, NEW q \in People, Served(m, q) PROVE Served(m, q)'
    OBVIOUS
  <2>1. CASE inbox[m][q] > 0 BY <1>1, <2>1 DEF Served
  <2>2. CASE ~(inbox[m][q] > 0)
    <3>1. PICK j \in DOMAIN mails :
            /\ mails[j].notice = m /\ mails[j].to = q
            /\ \/ mails[j].at = "queued" \/ mails[j].tries > MailRetries
               \/ mails[j].plain /\ mails[j].at = "lost"
      BY <2>2 DEF Served
    <3>2. j # i BY <1>1, <2>2, <3>1 DEF NoticeInv, LogTrue
    <3> QED BY <1>3, <3>1, <3>2 DEF Served
  <2> QED BY <2>1, <2>2
<1>9. ToldServed'
  <2>1. \A m \in Messages : notice[m].told \subseteq People BY NoticeFields DEF NoticeInv
  <2> QED BY <1>1, <1>8, <2>1 DEF NoticeInv, ToldServed
<1>10. SentOnce'
  <2> SUFFICES ASSUME NEW m \in Messages \ spoilt, NEW q \in People, inbox[m][q] # 0
               PROVE  \E j \in DOMAIN mails : /\ mails'[j].notice = m /\ mails'[j].to = q
                                              /\ mails'[j].at \in {"delivered", "done"}
    BY <1>1, <1>3 DEF NoticeInv, SentOnce
  <2>1. PICK j \in DOMAIN mails : /\ mails[j].notice = m /\ mails[j].to = q
                                  /\ mails[j].at \in {"delivered", "done"}
    BY DEF NoticeInv, SentOnce
  <2> QED BY <1>3, <2>1
<1>11. LogTrue'
  <2> SUFFICES ASSUME NEW j \in DOMAIN mails
               PROVE  /\ logged'[j] = IF mails'[j].at = "done" THEN 1 ELSE 0
                      /\ mails'[j].at \in {"delivered", "done"} =>
                           inbox[mails'[j].notice][mails'[j].to] > 0
                      /\ mails'[j].at \in {"queued", "delivered"} => mails'[j].tries <= MailRetries
    BY <1>1, <1>3 DEF LogTrue
  <2>1. CASE j = i BY <1>1, <1>3, <1>4, <2>1 DEF NoticeInv, LogTrue
  <2>2. CASE j # i BY <1>3, <1>4, <2>2 DEF NoticeInv, LogTrue
  <2> QED BY <2>1, <2>2
<1> QED BY <1>6, <1>7, <1>9, <1>10, <1>11 DEF NoticeInv

LEMMA LoseWorkerKeeps ==
  ASSUME NoticeInv, Notices!NoticesAssumption, NEW n, NEW i, Notices!LoseWorker(n, i)
  PROVE  NoticeInv'
<1>1. crashes < MaxCrashes /\ crashes' = crashes + 1 /\ UNCHANGED <<inbox, logged>>
  BY DEF Notices!LoseWorker
<1>2. crashes' \in 0..MaxCrashes BY <1>1, MailNumbers DEF NoticeInv, NoticeShapes
<1>3. CASE /\ n \in Messages /\ notice[n].at = "started"
           /\ Notices!Set(n, [notice[n] EXCEPT !.at = "queued", !.left = {}])
           /\ spoilt' = (IF notice[n].left # notice[n].told THEN spoilt \cup {n} ELSE spoilt)
           /\ UNCHANGED mails
  <2> DEFINE to == [notice[n] EXCEPT !.at = "queued", !.left = {}]
  <2>1. notice' = [notice EXCEPT ![n] = to] BY <1>3 DEF Notices!Set
  <2>2. /\ to \in Notice /\ to.task = notice[n].task /\ to.to = notice[n].to /\ to.at = "queued"
        /\ to.left = {}
    BY <1>3, NoticeFields DEF NoticeInv, Notice
  <2> HIDE DEF to
  <2>3. n \notin spoilt' => \A j \in DOMAIN mails : mails[j].notice # n
    <3>1. n \notin spoilt' => n \notin spoilt /\ notice[n].left = notice[n].told BY <1>3
    <3> QED BY <1>3, <3>1 DEF NoticeInv, SentOnce
  <2> QED BY <1>1, <1>2, <1>3, <2>1, <2>2, <2>3, MessageMoves DEF NoticeInv, RecipientsNamed
<1>4. CASE /\ i \in DOMAIN mails /\ mails[i].at = "delivered" /\ Notices!Upto(i, "queued")
           /\ spoilt' = spoilt \cup {mails[i].notice} /\ UNCHANGED notice
  <2>1. Kept(i) /\ mails'[i].at = "queued" /\ mails'[i].tries = mails[i].tries
    BY <1>2, <1>4, UptoChanges
  <2>2. mails[i].tries <= MailRetries BY <1>4 DEF NoticeInv, LogTrue
  <2> QED BY <1>1, <1>4, <2>1, <2>2, UndeliveredKeeps
<1> QED BY <1>3, <1>4 DEF Notices!LoseWorker

LEMMA TaskKeeps ==
  ASSUME NoticeInv, Notices!NoticesAssumption, NEW n \in Messages, Notices!Task(n)
  PROVE  NoticeInv'
<1>1. ASSUME \/ Notices!SendTaskOverdue(n) \/ Notices!SendDistributionNotice(n)
             \/ Notices!SendDocumentRequest(n)
      PROVE  NoticeInv'
  <2>1. notice[n].at = "queued" /\ Notices!Start(n, {notice[n].to}) /\ notice[n].task \in Notices!Addressed
    BY <1>1 DEF Notices!SendTaskOverdue, Notices!SendDistributionNotice, Notices!SendDocumentRequest,
                Notices!Running, Notices!Addressed
  <2>2. {notice[n].to} \in SUBSET People BY <2>1 DEF NoticeInv, RecipientsNamed
  <2> QED BY <2>1, <2>2, StartsKeep
<1>2. ASSUME NEW p \in People \cup {Nobody}, Notices!OneOrSkip(n, p), notice[n].at = "queued"
      PROVE  NoticeInv'
  <2>1. Notices!Skip(n) \/ \E recipients \in SUBSET People : Notices!Start(n, recipients)
    <3>1. CASE p = Nobody BY <1>2, <3>1 DEF Notices!OneOrSkip
    <3>2. CASE p # Nobody
      <4>1. Notices!Start(n, {p}) /\ {p} \in SUBSET People BY <1>2, <3>2 DEF Notices!OneOrSkip
      <4> QED BY <4>1
    <3> QED BY <3>1, <3>2
  <2> QED BY <1>2, <2>1, StartsKeep
<1>3. ASSUME NEW found \in BOOLEAN, NEW p \in People \cup {Nobody},
             \/ Notices!SendStakeholderInvitation(n, p) \/ Notices!SendTaskAssignment(n, found, p)
             \/ Notices!SendDeadlineReminder(n, found, p) \/ Notices!SendUploadComplete(n, found, p)
      PROVE  NoticeInv'
  <2>1. notice[n].at = "queued" /\ \E q \in {p, Nobody} : Notices!OneOrSkip(n, q)
    BY <1>3 DEF Notices!SendStakeholderInvitation, Notices!SendTaskAssignment, Notices!Running,
                Notices!SendDeadlineReminder, Notices!SendUploadComplete
  <2> QED BY <1>2, <2>1
<1>4. ASSUME NEW found \in BOOLEAN, NEW p \in People \cup {Nobody}, NEW admins \in SUBSET People,
             Notices!SendDeadlineMissed(n, found, p, admins)
      PROVE  NoticeInv'
  <2>1. (admins \cup {p}) \ {Nobody} \in SUBSET People OBVIOUS
  <2>2. /\ notice[n].at = "queued"
        /\ Notices!Skip(n) \/ Notices!Start(n, (admins \cup {p}) \ {Nobody})
    BY <1>4 DEF Notices!SendDeadlineMissed, Notices!Running
  <2> QED BY <2>1, <2>2, StartsKeep
<1>5. ASSUME NEW stakeholders \in SUBSET People, Notices!SendMilestone(n, stakeholders) PROVE NoticeInv'
  BY <1>5, StartsKeep DEF Notices!SendMilestone, Notices!Running
<1> QED BY <1>1, <1>3, <1>4, <1>5, ReturnKeeps, RaiseKeeps, QueueKeeps DEF Notices!Task

LEMMA NoticesNext ==
  ASSUME Notices!NoticesAssumption, NoticeInv, [Notices!Next]_noticesVars
  PROVE  NoticeInv'
<1>1. CASE \E n \in Messages, task \in Notices!Lookups \cup Notices!Addressed, p \in People \cup {Nobody} :
             Notices!Dispatch(n, task, p)
  BY <1>1, DispatchKeeps
<1>2. CASE \E n \in Messages, p \in People : Notices!SendZipLink(n, p) BY <1>2, ZipKeeps
<1>3. CASE \E n \in Messages : Notices!Task(n) BY <1>3, TaskKeeps
<1>4. CASE \E p \in People \cup {Nobody}, admins \in SUBSET People :
             \E to \in [Notices!OverdueRecipients(p, admins) -> Messages] : Notices!CheckOverdueTask(to)
  BY <1>4, CheckOverdueKeeps
<1>5. CASE \E i \in DOMAIN mails : Notices!Deliver(i) BY <1>5, DeliverMailKeeps
<1>6. CASE \E i \in DOMAIN mails : Notices!LogSent(i) BY <1>6, LogSentKeeps
<1>7. CASE \E i \in DOMAIN mails : Notices!Fail(i, TRUE) \/ Notices!Fail(i, FALSE)
  <2>1. PICK i \in DOMAIN mails, logging \in BOOLEAN : Notices!Fail(i, logging) BY <1>7
  <2> QED BY <2>1, FailMailKeeps
<1>8. CASE \E n \in Messages, i \in 1..MaxMails : Notices!LoseWorker(n, i) BY <1>8, LoseWorkerKeeps
<1>9. CASE UNCHANGED noticesVars
  <2>1. UNCHANGED <<notice, mails, inbox, logged, crashes, spoilt>> BY <1>9 DEF noticesVars
  <2>2. NoticeShapes' BY <2>1 DEF NoticeInv, NoticeShapes, Mail, Notice
  <2>3. RecipientsNamed' BY <2>1 DEF NoticeInv, RecipientsNamed, Notices!Addressed
  <2>4. ToldServed' BY <2>1 DEF NoticeInv, ToldServed, Served
  <2>5. SentOnce' BY <2>1 DEF NoticeInv, SentOnce
  <2>6. LogTrue' BY <2>1 DEF NoticeInv, LogTrue
  <2> QED BY <2>2, <2>3, <2>4, <2>5, <2>6 DEF NoticeInv
<1> QED BY <1>1, <1>2, <1>3, <1>4, <1>5, <1>6, <1>7, <1>8, <1>9 DEF Notices!Next

LEMMA NoticesImply ==
  ASSUME Notices!NoticesAssumption, NoticeInv
  PROVE  Notices!TypeOK /\ Notices!EveryoneToldOnce
<1>1. Notices!TypeOK
  <2>1. DOMAIN logged = DOMAIN mails BY DEF NoticeInv, NoticeShapes
  <2> QED BY <2>1, MailFields DEF NoticeInv, NoticeShapes, Notices!TypeOK, Mail, Notice
<1>2. Notices!EveryoneToldOnce
  <2> SUFFICES ASSUME NEW n \in Messages
      PROVE  /\ notice[n].at = "done" => \A p \in notice[n].told : Served(n, p)
             /\ n \notin spoilt => \A p \in People : inbox[n][p] <= 1
             /\ \A p \in People : \A i \in DOMAIN mails :
                  mails[i].notice = n /\ mails[i].to = p => logged[i] <= inbox[n][p]
    BY DEF Notices!EveryoneToldOnce, Served
  <2>1. \A p \in People : inbox[n][p] \in Nat BY NoticeFields DEF NoticeInv
  <2>2. notice[n].at = "done" => \A p \in notice[n].told : Served(n, p)
    BY DEF NoticeInv, ToldServed
  <2>3. n \notin spoilt => \A p \in People : inbox[n][p] <= 1 BY <2>1 DEF NoticeInv, SentOnce
  <2>4. ASSUME NEW p \in People, NEW i \in DOMAIN mails, mails[i].notice = n /\ mails[i].to = p
        PROVE  logged[i] <= inbox[n][p]
    BY <2>1, <2>4 DEF NoticeInv, LogTrue
  <2> QED BY <2>2, <2>3, <2>4
<1> QED BY <1>1, <1>2
------------------------------------------------------------------------------
(***************************************************************************)
(* The composition.                                                        *)
(***************************************************************************)
LEMMA EstateSteps ==
  ASSUME [EstateNext]_allVars
  PROVE  /\ [Estate!Next]_estateVars /\ [Documents!Next]_documentsVars /\ [Next]_vars
         /\ [Time!Next]_timeVars /\ [Notices!Next]_noticesVars
  BY DEF EstateNext, allVars

\* The composition adds nothing to its components: each of them, seen through its
\* own variables, takes its own steps or none.
THEOREM EstateRunsComponents ==
  EstateSpec => Estate!Spec /\ Documents!Spec /\ Spec /\ Time!Spec /\ Notices!Spec
<1>1. EstateInit => Estate!Init /\ Documents!Init /\ Init /\ Time!Init /\ Notices!Init
  BY DEF EstateInit
<1>2. /\ [EstateNext]_allVars => [Estate!Next]_Estate!vars
      /\ [EstateNext]_allVars => [Documents!Next]_Documents!vars
      /\ [EstateNext]_allVars => [Next]_vars
      /\ [EstateNext]_allVars => [Time!Next]_Time!vars
      /\ [EstateNext]_allVars => [Notices!Next]_Notices!vars
  BY EstateSteps DEF Estate!vars, estateVars, Documents!vars, documentsVars, Time!vars, timeVars,
       Notices!vars, noticesVars
<1> QED BY <1>1, <1>2, PTL
        DEF EstateSpec, Estate!Spec, Documents!Spec, Spec, Time!Spec, Notices!Spec

Focused == focus \in {"estate", "documents", "planning", "time", "notices"}

\* Every component keeps its invariant, whichever of them runs.
LEMMA EstateKeeps ==
  /\ EstateInit => Focused /\ BookInv /\ IntakeInv /\ MatterInv /\ TimeInv /\ NoticeInv
  /\ Focused /\ [EstateNext]_allVars => Focused'
  /\ BookInv /\ [EstateNext]_allVars => BookInv'
  /\ IntakeInv /\ [EstateNext]_allVars => IntakeInv'
  /\ MatterInv /\ [EstateNext]_allVars => MatterInv'
  /\ TimeInv /\ [EstateNext]_allVars => TimeInv'
  /\ NoticeInv /\ [EstateNext]_allVars => NoticeInv'
<1>1. ASSUME EstateInit PROVE Focused /\ BookInv /\ IntakeInv /\ MatterInv /\ TimeInv /\ NoticeInv
  BY <1>1, BookInit, DocsInit, InitMatters, TimeInit, NoticesInit, ComponentsAssumption
     DEF EstateInit, Focused
<1>2. ASSUME Focused, [EstateNext]_allVars PROVE Focused' BY <1>2 DEF EstateNext, allVars, Focused
<1>3. ASSUME BookInv, [EstateNext]_allVars PROVE BookInv'
  BY <1>3, EstateSteps, BookStep, ComponentsAssumption
<1>4. ASSUME IntakeInv, [EstateNext]_allVars PROVE IntakeInv'
  BY <1>4, EstateSteps, DocsNext, ComponentsAssumption
<1>5. ASSUME MatterInv, [EstateNext]_allVars PROVE MatterInv'
  BY <1>5, EstateSteps, NextKeeps, ComponentsAssumption
<1>6. ASSUME TimeInv, [EstateNext]_allVars PROVE TimeInv'
  BY <1>6, EstateSteps, TimeNext, ComponentsAssumption
<1>7. ASSUME NoticeInv, [EstateNext]_allVars PROVE NoticeInv'
  BY <1>7, EstateSteps, NoticesNext, ComponentsAssumption
<1> QED BY <1>1, <1>2, <1>3, <1>4, <1>5, <1>6, <1>7

LEMMA EstateInvariant ==
  EstateSpec => [](Focused /\ BookInv /\ IntakeInv /\ MatterInv /\ TimeInv /\ NoticeInv)
  BY EstateKeeps, PTL DEF EstateSpec

\* Every component keeps its types.
THEOREM EstateTyped == EstateSpec => []ComponentsTyped
<1>1. Focused /\ BookInv /\ IntakeInv /\ MatterInv /\ TimeInv /\ NoticeInv => ComponentsTyped
  <2> SUFFICES ASSUME Focused, BookInv, IntakeInv, MatterInv, TimeInv, NoticeInv
               PROVE  ComponentsTyped
    OBVIOUS
  <2>1. Estate!TypeOK /\ Documents!TypeOK /\ TypeOK /\ Time!TypeOK /\ Notices!TypeOK
    BY BookImplies, DocsImplies, InvImplies, TimeImplies, NoticesImply, ComponentsAssumption
       DEF IntakeInv
  <2> QED BY <2>1 DEF ComponentsTyped, Focused
<1> QED BY <1>1, EstateInvariant, PTL

\* What was distributed stands in the inventory as distributed and an entity
\* holds only assets that are there, unless requests on the asset overlapped.
THEOREM InventoryAgrees == EstateSpec => []BooksAgree
<1>1. BookInv => BooksAgree BY BookImplies, ComponentsAssumption DEF BooksAgree
<1> QED BY <1>1, EstateInvariant, PTL

\* Unless requests on it overlapped, no asset's status moves back, no
\* acknowledgement is dropped or asked for again, no resolved dispute is reopened.
THEOREM RecordsStand == EstateSpec => NothingTakenBack
<1>1. BookInv /\ [EstateNext]_allVars => [Estate!TakesNothingBack]_Estate!vars
  <2> SUFFICES ASSUME BookInv, [EstateNext]_allVars PROVE Estate!TakesNothingBack
    OBVIOUS
  <2>1. BookInv' /\ Advance BY EstateSteps, BookStep, ComponentsAssumption
  <2> QED BY <2>1, BookTakesNothingBack, ComponentsAssumption
<1> QED BY <1>1, EstateInvariant, PTL DEF EstateSpec, NothingTakenBack, Estate!NothingTakenBack

\* No document that register_document or an upload link brought in is left
\* unread, unless its upload through a link caught the queue's refusal of the
\* job, and no link lets in two uploads that did not overlap.
THEOREM DocumentsAreRead == EstateSpec => []IntakeComplete
<1>1. IntakeInv => IntakeComplete BY DocsImplies DEF IntakeComplete
<1> QED BY <1>1, EstateInvariant, PTL

\* A matter closed through its own endpoint has no critical task open but those
\* that were created, raised to critical or put back after the close counted,
\* unless its status was patched.
THEOREM ClosedIsDone == EstateSpec => []ClosedMeansDone
<1>1. MatterInv => ClosedMeansDone BY InvImplies, ComponentsAssumption
<1> QED BY <1>1, EstateInvariant, PTL

\* What regeneration adds is there once, unless two of them overlap or a plain
\* generation repeats everything, and due dates keep their order.
THEOREM GenerationIsSound == EstateSpec => []GenerationSound
<1>1. MatterInv => GenerationSound
  BY InvImplies, DatesOrdered, ComponentsAssumption DEF GenerationSound
<1> QED BY <1>1, EstateInvariant, PTL

\* A task added later waits for the tasks its template names that were there
\* before it, unless a plain generation or overlapping ones repeated any.
THEOREM LaterTasksLinked == EstateSpec => DependenciesLinked
<1>1. MatterInv /\ [EstateNext]_allVars => [Linked]_vars
  BY NextLinks, EstateSteps, ComponentsAssumption DEF EstateNext
<1>2. EstateSpec => [][Linked]_vars BY <1>1, EstateInvariant, PTL DEF EstateSpec
<1> QED BY <1>2 DEF DependenciesLinked, Linked

\* What a summary of the time on a matter says comes out the same four ways,
\* unless entries were committed between its queries: billable and other time,
\* the people's lines, the tasks' lines with the time on no task, and the
\* exported lines where all entries fit on the export's one page; where they do
\* not, the lines give no more than the summary.
THEOREM SummaryIsExact == EstateSpec => []SummaryAddsUp
<1>1. TimeInv => SummaryAddsUp BY TimeImplies, ComponentsAssumption DEF SummaryAddsUp
<1> QED BY <1>1, EstateInvariant, PTL

\* Whoever a notice that is done was for has it, or will, or was tried as often
\* as the settings allow; nobody has it twice that no failure made repeat its
\* work; the log has no more than was delivered.
THEOREM RecipientsAreTold == EstateSpec => []EveryoneToldOnce
<1>1. NoticeInv => EveryoneToldOnce BY NoticesImply, ComponentsAssumption DEF EveryoneToldOnce
<1> QED BY <1>1, EstateInvariant, PTL
=============================================================================
