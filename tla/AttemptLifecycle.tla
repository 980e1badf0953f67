-------------------------- MODULE AttemptLifecycle --------------------------
(***************************************************************************)
(* What a caller of the coordinator may rely on about an attempt: it is    *)
(* opened once, an outcome is recorded only while it is open, and closed   *)
(* is final.  This is the lifecycle of include/pacing/application.hpp with *)
(* its three groups of states taken as one phase each.                     *)
(***************************************************************************)
CONSTANT Attempt
VARIABLE phase

Init == phase = [a \in Attempt |-> "none"]

Open(a) ==
  /\ phase[a] = "none"
  /\ phase' = [phase EXCEPT ![a] = "open"]

\* Pacing is in force, or may be.
Settle(a) ==
  /\ phase[a] = "open"
  /\ phase' = [phase EXCEPT ![a] = "in_force"]

\* A revocation or a fence may close several attempts at once.
Close(S) ==
  /\ \A a \in S : phase[a] \in {"open", "in_force"}
  /\ phase' = [a \in Attempt |-> IF a \in S THEN "closed" ELSE phase[a]]

Next ==
  \/ \E a \in Attempt : Open(a) \/ Settle(a)
  \/ \E S \in SUBSET Attempt : Close(S)

Spec == Init /\ [][Next]_phase

=============================================================================
