------------------------- MODULE MCTaskTransactions -------------------------
(***************************************************************************)
(* Instances of TaskTransactions for TLC.                                  *)
(***************************************************************************)
EXTENDS TaskTransactions, TLC

CONSTANTS c1, c2, a, b, x, y, inventory, custom

Row(t, ds, p) == [id |-> t, deps |-> ds, phase |-> p, needsDoc |-> FALSE]

Patch(t, s) == [kind |-> "patch", task |-> t, target |-> s]
Complete(t) == [kind |-> "complete", task |-> t, target |-> "complete"]
Waive(t)    == [kind |-> "waive", task |-> t, target |-> "waived"]

\* x depends on a and b.
Join == {Row(a, {}, inventory), Row(b, {}, custom), Row(x, {a, b}, inventory)}

EveryRequest ==
  {Complete(t) : t \in Task} \union {Waive(t) : t \in Task}
    \union {Patch(t, s) : t \in Task, s \in {"not_started", "in_progress", "blocked", "cancelled"}}

\* Overlapping endings of both dependencies, and their dependent.
JoinRequests ==
  {Complete(a), Complete(b), Waive(a), Waive(b), Patch(a, "in_progress"),
   Patch(b, "in_progress"), Patch(x, "blocked")}

\* x and y both depend on a and on b: two cascades meet on two rows.
Square == {Row(a, {}, custom), Row(b, {}, custom),
           Row(x, {a, b}, custom), Row(y, {a, b}, custom)}

SquareRequests ==
  {Complete(a), Waive(a), Waive(b), Patch(a, "in_progress"), Patch(b, "cancelled"),
   Patch(x, "blocked"), Patch(y, "blocked")}

=============================================================================
