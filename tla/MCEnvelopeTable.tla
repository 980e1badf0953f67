-------------------------- MODULE MCEnvelopeTable --------------------------
(***************************************************************************)
(* Instances of EnvelopeTable for TLC.                                     *)
(***************************************************************************)
EXTENDS EnvelopeTable, TLC

CONSTANTS f1, f2

\* Flows differ only in their names.
Symmetry == Permutations(Flow)

=============================================================================
