----------------------------- MODULE MCCadence -----------------------------
(***************************************************************************)
(* Instances of Cadence for TLC: policies that differ from a plain one in  *)
(* what makes the rate, in what spreads it, or in what bounds the bursts.  *)
(***************************************************************************)
EXTENDS Cadence

Plain == [rate |-> 0, share |-> 10, min |-> 0, quantum |-> 2, window |-> 12,
          shape |-> "uniform", hint |-> 0, burst |-> 0, packets |-> 0, exceptions |-> <<>>]

OfGold(min, share, burst) ==
  [class |-> "gold", min |-> min, share |-> share, burst |-> burst, packets |-> 2]
OfClass(class) == [OfGold(0, 0, 6) EXCEPT !.class = class]

OfRate ==
  {[Plain EXCEPT !.rate = r, !.share = s, !.min = m, !.quantum = q, !.exceptions = e] :
     r \in {0, 3, 21, 31}, s \in {0, 3, 11}, m \in {0, 7}, q \in {1, 3},
     e \in {<<>>, <<OfGold(9, 0, 0)>>, <<OfGold(0, 7, 4)>>}}

OfWindow ==
  {[Plain EXCEPT !.rate = r, !.quantum = q, !.window = w, !.shape = s, !.hint = h] :
     r \in {0, 5, 21}, q \in {1, 4, 5}, w \in {1, 7, 16},
     s \in {"uniform", "windowed"}, h \in {0, 3, 4, 5}}

OfBurst ==
  {[Plain EXCEPT !.rate = r, !.quantum = q, !.shape = s, !.burst = b, !.packets = n,
                 !.exceptions = e] :
     r \in {0, 8, 21}, q \in {1, 3}, s \in {"uniform", "token-bucket"},
     b \in {0, 2, 5}, n \in {0, 3},
     e \in {<<>>, <<OfGold(0, 0, 6)>>, <<OfClass("tin"), OfGold(0, 0, 6)>>,
            <<OfGold(0, 0, 6), OfGold(0, 0, 6)>>,
            <<OfClass("tin"), OfGold(0, 0, 6), OfClass("plain")>>}}

MCPolicies == OfRate \cup OfWindow \cup OfBurst

MCGrants ==
  {[ceiling |-> c, floor |-> f, until |-> 0] : c \in {0, 7, 20, 30, 40}, f \in {0, 9}}
    \cup {[ceiling |-> 20, floor |-> 0, until |-> u] : u \in {1, 4}}

MCBindings ==
  {[class |-> c, burst |-> b, packets |-> 1] : c \in {"gold", "plain"}, b \in {0, 4}}

=============================================================================
