----------------------------- MODULE Compaction -----------------------------
(***************************************************************************)
(* A vector whose entries die where they are, and what is left of it when  *)
(* the dead ones are dropped: live_bindings() of src/binding.cpp,          *)
(* live_policies() of src/policy.cpp, and the live envelopes of            *)
(* src/fabric.cpp.                                                         *)
(***************************************************************************)
EXTENDS Integers, Sequences, FiniteSets

LiveOf(s) == {i \in DOMAIN s : s[i].live}

\* How many of the positions S there are up to i, and the n-th of them.
Rank(S, i) == Cardinality({j \in S : j <= i})
Nth(S, n)  == CHOOSE i \in S : Rank(S, i) = n

\* The live entries, in their order.
Survivors(s) == LET live == LiveOf(s) IN [n \in 1 .. Cardinality(live) |-> s[Nth(live, n)]]

=============================================================================
