-------------------------- MODULE ApplicationState --------------------------
(***************************************************************************)
(* The lifecycle states of one application attempt and the predicates the  *)
(* coordinator decides by: include/pacing/application.hpp and              *)
(* src/application.cpp.                                                    *)
(***************************************************************************)

\* A transient attempt: handed out, but its outcome is not recorded yet.
PendingStates == {"Unknown", "Planned", "Reserved", "Submitted", "Acknowledged"}

\* A state in which pacing may be in force at a backend.
InForceStates == {"Applied", "AppliedUnverified", "Mismatched"}

\* The states every governance operation skips: terminal, and by the comments
\* of the code without a lasting effect.
ClosedStates == {"Revoked", "Fenced", "Stale", "Failed", "Cancelled", "Ambiguous"}

ApplicationStates ==
  PendingStates \cup InForceStates \cup {"RequiresRevalidation"} \cup ClosedStates

is_terminal(s) == s \in InForceStates \cup {"RequiresRevalidation"} \cup ClosedStates

asserts_effect(s) == s = "Applied"

\* What a record may say of the effect.  "Verified" stands for VERIFIED and
\* SYNTHETIC_VERIFIED, which differ only in the nature of the backend.
EffectLabels == {"None", "Verified", "Unverified", "Mismatched"}

\* The label apply_transition writes with a state.
EffectLabel(s) ==
  CASE s = "Applied"           -> "Verified"
    [] s = "AppliedUnverified" -> "Unverified"
    [] s = "Mismatched"        -> "Mismatched"
    [] OTHER                   -> "None"

claims_effect(r) == asserts_effect(r.state) /\ ~r.requires_revalidation

=============================================================================
