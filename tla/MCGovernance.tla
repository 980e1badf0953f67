---------------------------- MODULE MCGovernance ----------------------------
(***************************************************************************)
(* Instances of Governance for TLC.                                        *)
(***************************************************************************)
EXTENDS Governance, TLC

CONSTANTS f1, r1, p1, c1, c2

\* The contents of bindings differ only in their names.
Symmetry == Permutations(BindingContent)

=============================================================================
