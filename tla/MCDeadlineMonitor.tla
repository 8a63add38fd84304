-------------------------- MODULE MCDeadlineMonitor --------------------------
(***************************************************************************)
(* Instances of DeadlineMonitor for TLC.                                   *)
(***************************************************************************)
EXTENDS DeadlineMonitor, TLC

CONSTANTS w1, w2, u1, hearing, filing

New(d, day, days) == [id |-> d, due |-> day, config |-> days]

\* Reminders one day before and on the day: due on two consecutive days.
OneDeadline == {New(hearing, 2, {1, 0}), New(hearing, 3, {1})}

TwoDeadlines == {New(hearing, 2, {1, 0}), New(filing, 1, {0})}

\* Moved back, moved forward, settled, reopened, reconfigured.
Patches ==
  {[due |-> 3], [due |-> 1], [status |-> "completed"], [status |-> "upcoming"],
   [due |-> 3, status |-> "upcoming"], [due |-> 3, status |-> Null], [config |-> {0}]}

NoPatches == {}

=============================================================================
