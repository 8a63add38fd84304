--------------------------- MODULE MCTaskLifecycle ---------------------------
(***************************************************************************)
(* Instances of TaskLifecycle for TLC.                                     *)
(***************************************************************************)
EXTENDS TaskLifecycle, TLC

CONSTANTS t1, t2, t3, d1, inventory, custom

\* All in one milestone phase: t1 may require a document, t2 may depend on
\* t1, and t3 may depend on both or name itself.
MixedTasks ==
  [id: {t1}, deps: {{}}, phase: {inventory}, needsDoc: BOOLEAN]
    \union [id: {t2}, deps: {{}, {t1}}, phase: {inventory}, needsDoc: {FALSE}]
    \union [id: {t3}, deps: {{t1, t2}, {t3}}, phase: {inventory}, needsDoc: {FALSE}]

\* Two tasks of a milestone phase, one of which may require a document.
MilestoneGroup ==
  [id: {t1}, deps: {{}}, phase: {inventory}, needsDoc: BOOLEAN]
    \union [id: {t2}, deps: {{}, {t1}}, phase: {inventory}, needsDoc: {FALSE}]

=============================================================================
