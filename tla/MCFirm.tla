------------------------------- MODULE MCFirm -------------------------------
(* AroundFirm for TLC: what the plans allow and whose e-mail domain is whose. *)
EXTENDS AroundFirm, TLC

TierConfig == [starter |-> 1, growth |-> 2]
EmailDomains == [ann |-> "firm"]
\* No definition tells one request in flight from another.
Symmetry == Permutations(Requests)
=============================================================================
