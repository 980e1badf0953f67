--------------------------- MODULE MCControlPlane ---------------------------
(***************************************************************************)
(* Instances of ControlPlane for TLC.                                      *)
(***************************************************************************)
EXTENDS ControlPlane, TLC

CONSTANTS c1, c2, c3

MCOperations ==
  (c1 :> {"advance", "stop"}) @@ (c2 :> {"query", "work"}) @@ (c3 :> {})

=============================================================================
