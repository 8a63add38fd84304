------------------------------ MODULE MCEstate ------------------------------
(* AroundMatter for TLC: the templates and the roles it runs with. *)
EXTENDS AroundMatter

\* What the registry holds: two templates with one key, of which the state's
\* wins, and one that depends on them.
Template(k, s, f, d, c) == [key |-> k, states |-> s, flags |-> f, deps |-> d, critical |-> c]
Templates == << Template("certificates", {}, {}, {}, TRUE),
                Template("affidavit", {}, {"spouse"}, {"certificates"}, TRUE),
                Template("certificates", {"CA"}, {}, {}, TRUE) >>
\* Only one state has a rule for a deadline.
StateRules == [CA |-> {"claims"}, NY |-> {}]
\* One stakeholder who may write and one who inherits; two who log time.
FamilyRoles == [adm |-> "matter_admin", ben |-> "beneficiary"]
TeamRoles == [adm |-> "matter_admin", pro |-> "professional"]
=============================================================================
