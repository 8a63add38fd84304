---------------------------- MODULE TimeTracking ----------------------------
(* Time logged on one matter (time_tracking_service.py, api/v1/time_       *)
(* tracking): entries their authors create, change and delete, and the     *)
(* summary of a matter, which is three queries that other requests may     *)
(* commit between.                                                         *)
EXTENDS Naturals, FiniteSets, Functions, FiniteSetsExt

CONSTANTS Stakeholders, \* stakeholders rows
          RoleOf,       \* [Stakeholders -> StakeholderRole]
          Tasks,        \* tasks an entry may name
          NoTask,       \* task_id is NULL
          Hours, Minutes, \* what may be sent
          MaxExport,    \* lines an export asks for (10,000)
          MaxEntries    \* bound: entries logged

\* TimeEntryCreate, TimeEntryUpdate: neither hours nor minutes may be negative.
TimeAssumption == MaxEntries \in Nat /\ MaxExport \in Nat /\ Hours \cup Minutes \subseteq Nat

VARIABLES here,      \* stakeholders that exist
          entries,   \* time_entries
          logged,    \* entries logged so far
          report,    \* a summary being computed
          disturbed  \* entries changed since the summary's first query

vars == <<here, entries, logged, report, disturbed>>

TimeRoles == {"matter_admin", "professional"}
ViewRoles == TimeRoles \cup {"executor_trustee"}
\* _require_time_entry, _require_time_view
RequireTimeEntry(s) == s \in here /\ RoleOf[s] \in TimeRoles
RequireTimeView(s) == s \in here /\ RoleOf[s] \in ViewRoles

\* TimeEntryCreate lets hours and minutes in.
Fields == [task: Tasks \cup {NoTask}, hours: Hours, minutes: Minutes, billable: BOOLEAN]
TimeEntry == [id: 1..MaxEntries, by: Stakeholders, task: Tasks \cup {NoTask},
              hours: Hours, minutes: Minutes, billable: BOOLEAN]

Spent(e) == e.hours * 60 + e.minutes
Total(es) == MapThenSumSet(Spent, es)

NoReport == [step |-> "none", by |-> CHOOSE s \in Stakeholders : TRUE,
             total |-> 0, billable |-> 0, rest |-> 0, byStakeholder |-> <<>>, byTask |-> <<>>]

Init == /\ here = Stakeholders
        /\ entries = {} /\ logged = 0 /\ report = NoReport /\ disturbed = FALSE

\* A commit that changes entries disturbs a summary that is under way.
Commit(es) == /\ entries' = es
              /\ disturbed' = (report.step # "none")
              /\ UNCHANGED report

------------------------------------------------------------------------------
(* The service *)

CreateTimeEntry(s, f) ==
  /\ logged < MaxEntries
  /\ logged' = logged + 1
  /\ Commit(entries \cup {[id |-> logged', by |-> s, task |-> f.task, hours |-> f.hours,
                           minutes |-> f.minutes, billable |-> f.billable]})
  /\ UNCHANGED here

\* The author only; a task cannot be taken off (None is skipped).
UpdateTimeEntry(s, e, f) ==
  /\ e \in entries /\ e.by = s
  /\ Commit((entries \ {e}) \cup
        {[e EXCEPT !.hours = f.hours, !.minutes = f.minutes, !.billable = f.billable,
                   !.task = IF f.task = NoTask THEN @ ELSE f.task]})
  /\ UNCHANGED <<here, logged>>

\* The author only.
DeleteTimeEntry(s, e) ==
  /\ e \in entries /\ e.by = s
  /\ Commit(entries \ {e})
  /\ UNCHANGED <<here, logged>>

\* The foreign keys: a removed stakeholder's entries go with it.
RemoveStakeholder(s) ==
  /\ s \in here /\ Cardinality(here) > 1
  /\ here' = here \ {s}
  /\ Commit({e \in entries : e.by # s})
  /\ UNCHANGED logged

------------------------------------------------------------------------------
(* The summary *)

\* Slip: the minutes past an hour are not carried into the split.
BeginSummaryHoursOnly(s) ==
  /\ report.step = "none"
  /\ report' = [report EXCEPT !.step = "totals", !.by = s, !.total = Total(entries),
                  !.billable = 60 * MapThenSumSet(LAMBDA e : e.hours, {e \in entries : e.billable}),
                  !.rest = Total({e \in entries : ~e.billable})]
  /\ disturbed' = FALSE
  /\ UNCHANGED <<here, entries, logged>>
\* The totals first: all hours and minutes, those billable, those not.
BeginSummary(s) ==
  /\ report.step = "none"
  /\ report' = [report EXCEPT !.step = "totals", !.by = s,
                  !.total = 60 * MapThenSumSet(LAMBDA e : e.hours, entries)
                              + MapThenSumSet(LAMBDA e : e.minutes, entries),
                  !.billable = Total({e \in entries : e.billable}),
                  !.rest = Total({e \in entries : ~e.billable})]
  /\ disturbed' = FALSE
  /\ UNCHANGED <<here, entries, logged>>
\* Then those of each stakeholder with entries, then of each task: entries
\* without one are in no task's line.
SummarizePeople ==
  /\ report.step = "totals"
  /\ report' = [report EXCEPT !.step = "people",
                  !.byStakeholder = [s \in {e.by : e \in entries} |->
                                       Total({e \in entries : e.by = s})]]
  /\ UNCHANGED <<here, entries, logged, disturbed>>
SummarizeTasks ==
  /\ report.step = "people"
  /\ report' = [report EXCEPT !.step = "done",
                  !.byTask = [t \in {e.task : e \in entries} \ {NoTask} |->
                                Total({e \in entries : e.task = t})]]
  /\ UNCHANGED <<here, entries, logged, disturbed>>
EndSummary ==
  /\ report.step = "done" /\ report' = NoReport /\ disturbed' = FALSE
  /\ UNCHANGED <<here, entries, logged>>

\* The first page of the entries a filter lets through, latest entry date first:
\* users date their entries as they like, so any of them may be on it.
ListTimeEntries(billable, perPage) ==
  LET listed == {e \in entries : e.billable \in billable}
      size == IF Cardinality(listed) <= perPage THEN Cardinality(listed) ELSE perPage
  IN {page \in SUBSET listed : Cardinality(page) = size}
\* The page's entries as the lines of a CSV file; the rest is dropped unsaid.
ExportTimeEntries == {{<<e.id, e.by, e.task, Spent(e)>> : e \in page} :
                        page \in ListTimeEntries(BOOLEAN, MaxExport)}

------------------------------------------------------------------------------
(* The endpoints *)

PostTime(s, f) == RequireTimeEntry(s) /\ CreateTimeEntry(s, f)
PutTime(s, e, f) == RequireTimeEntry(s) /\ UpdateTimeEntry(s, e, f)
DeleteTime(s, e) == RequireTimeEntry(s) /\ DeleteTimeEntry(s, e)
GetSummary(s) == RequireTimeView(s) /\ BeginSummary(s)

Next == \/ \E s \in Stakeholders, f \in Fields :
             PostTime(s, f) \/ \E e \in entries : PutTime(s, e, f)
        \/ \E s \in Stakeholders : \/ \E e \in entries : DeleteTime(s, e)
                                   \/ RemoveStakeholder(s) \/ GetSummary(s)
        \/ SummarizePeople \/ SummarizeTasks \/ EndSummary

Spec == Init /\ [][Next]_vars

------------------------------------------------------------------------------
TypeOK == /\ here \subseteq Stakeholders
          /\ entries \subseteq TimeEntry /\ logged \in 0..MaxEntries
          /\ report.step \in {"none", "totals", "people", "done"} /\ disturbed \in BOOLEAN

Sum(f) == FoldFunction(+, 0, f)

\* The three queries of a summary tell one story, provided nothing was committed
\* between them: billable and other time make the total, so do the people's
\* lines; the tasks' lines and the time on no task do too; and an export has the
\* same total as long as all entries fit on its page, and no more otherwise.
SummaryAddsUp ==
  report.step = "done" /\ ~disturbed =>
    /\ report.billable + report.rest = report.total
    /\ Sum(report.byStakeholder) = report.total
    /\ Sum(report.byTask) + Total({e \in entries : e.task = NoTask}) = report.total
    /\ \A lines \in ExportTimeEntries :
         LET exported == MapThenSumSet(LAMBDA line : line[4], lines)
         IN /\ exported <= report.total
            /\ Cardinality(entries) <= MaxExport => exported = report.total
=============================================================================
