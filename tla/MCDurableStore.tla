--------------------------- MODULE MCDurableStore ---------------------------
(***************************************************************************)
(* Instances of DurableStore for TLC.                                      *)
(***************************************************************************)
EXTENDS DurableStore, TLC

CONSTANTS k1, k2

\* Entities differ only in their names.
Symmetry == Permutations(Key)

=============================================================================
