---------------------------- MODULE MCSignatures ----------------------------
(***************************************************************************)
(* Instances of Signatures for TLC.                                        *)
(***************************************************************************)
EXTENDS Signatures, TLC

CONSTANTS e1, e2, h1, h2

Symmetry == Permutations(Envelope) \union Permutations(Handler)

=============================================================================
