--------------------------- MODULE MCPacingFabric ---------------------------
(***************************************************************************)
(* Instances of PacingFabric for TLC.                                      *)
(***************************************************************************)
EXTENDS PacingFabric, TLC

CONSTANTS t1, t2, b1, h1, h2

\* One backend identity, whatever handles carry it.
MCBackendOf == [h \in Handle |-> b1]

\* The threads run the same code.
Symmetry == Permutations(Thread)

=============================================================================
