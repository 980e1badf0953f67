--------------------------- MODULE GovernanceProofs ---------------------------
(***************************************************************************)
(* Proofs about Governance, for any sets of flows, resources and policies, *)
(* all limits and any number of restarts.                                  *)
(*                                                                         *)
(* The two registries differ in the identity of their entries, and in      *)
(* where it is unique: in the vector of bindings among the live entries,   *)
(* in that of policies and in what is on disk among all of them.  The      *)
(* lemmas are about a vector of entries from E with identities key, that   *)
(* are unique at the positions P.                                          *)
(***************************************************************************)
EXTENDS Governance, VectorLemmas

-----------------------------------------------------------------------------
(* Vectors of entries *)

Dead(e) == [e EXCEPT !.live = FALSE]

Entries(E, key) ==
  \A e \in E : /\ e.live \in BOOLEAN
               /\ Dead(e) \in E /\ Dead(e).live = FALSE /\ key[Dead(e)] = key[e]

Unique(s, key, P) == \A i, j \in P : key[s[i]] = key[s[j]] => i = j
Keys(s, key)      == {key[s[i]] : i \in DOMAIN s}
Said(s)           == Facts(s, LiveOf(s))
Other(F, key, k)  == {e \in F : key[e] # k}

\* The live entry e is put at position i, or at the end, and takes the place of what was
\* said of its identity.
Overwrites(E, key, s, P, i, e, t) ==
  /\ t \in Seq(E) /\ Len(t) = Len(s) /\ DOMAIN t = DOMAIN s
  /\ LiveOf(t) = LiveOf(s) \cup {i} /\ Unique(t, key, P)
  /\ Said(t) = Other(Said(s), key, key[e]) \cup {e}
  /\ Keys(t, key) = Keys(s, key)

Adds(E, key, s, P, e, t) ==
  /\ t \in Seq(E) /\ Len(t) = Len(s) + 1 /\ DOMAIN t = DOMAIN s \cup {Len(t)}
  /\ LiveOf(t) = LiveOf(s) \cup {Len(t)} /\ Unique(t, key, P \cup {Len(t)})
  /\ Said(t) = Other(Said(s), key, key[e]) \cup {e}
  /\ Keys(t, key) = Keys(s, key) \cup {key[e]}

\* An entry is overwritten by one of the same identity.
LEMMA Overwritten ==
  ASSUME NEW E, NEW key, NEW s \in Seq(E), NEW P \in SUBSET DOMAIN s,
         LiveOf(s) \subseteq P, Unique(s, key, P),
         NEW i \in P, NEW e \in E, e.live = TRUE, key[e] = key[s[i]]
  PROVE  Overwrites(E, key, s, P, i, e, [s EXCEPT ![i] = e])
  <1> DEFINE t == [s EXCEPT ![i] = e]
  <1>1. DOMAIN s = 1 .. Len(s) /\ Len(s) \in Nat /\ i \in DOMAIN s
    OBVIOUS
  <1>2. t \in Seq(E) /\ Len(t) = Len(s) /\ DOMAIN t = DOMAIN s
    BY <1>1
  <1>3. t[i] = e /\ \A j \in DOMAIN s \ {i} : t[j] = s[j]
    BY <1>1
  <1> HIDE DEF t
  <1>4. LiveOf(t) = LiveOf(s) \cup {i}
    BY <1>1, <1>2, <1>3 DEF LiveOf
  <1>5. \A j \in DOMAIN s : key[t[j]] = key[s[j]]
    BY <1>3
  <1>6. Unique(t, key, P)
    BY <1>5 DEF Unique
  <1>7. Keys(t, key) = Keys(s, key)
    BY <1>2, <1>5 DEF Keys
  <1>8. \A j \in LiveOf(s) : key[s[j]] = key[e] <=> j = i
    BY DEF Unique
  <1>9. Said(t) = Other(Said(s), key, key[e]) \cup {e}
    <2>1. \A j \in LiveOf(s) : j \in DOMAIN s
      BY DEF LiveOf
    <2>2. ASSUME NEW x \in Said(t)
          PROVE  x \in Other(Said(s), key, key[e]) \cup {e}
      BY <1>3, <1>4, <1>8, <2>1 DEF Said, Facts, Other
    <2>3. ASSUME NEW x \in Other(Said(s), key, key[e]) \cup {e}
          PROVE  x \in Said(t)
      BY <1>3, <1>4, <1>8, <2>1 DEF Said, Facts, Other
    <2> QED
      BY <2>2, <2>3
  <1> QED
    BY <1>2, <1>4, <1>6, <1>7, <1>9 DEF t, Overwrites

\* A live entry of an identity that P does not have is added.
LEMMA Added ==
  ASSUME NEW E, NEW key, NEW s \in Seq(E), NEW P \in SUBSET DOMAIN s,
         LiveOf(s) \subseteq P, Unique(s, key, P),
         NEW e \in E, e.live = TRUE, \A i \in P : key[s[i]] # key[e]
  PROVE  Adds(E, key, s, P, e, Append(s, e))
  <1> DEFINE t == Append(s, e)
             n == Len(s) + 1
  <1>1. DOMAIN s = 1 .. Len(s) /\ Len(s) \in Nat
    OBVIOUS
  <1>2. t \in Seq(E) /\ Len(t) = n /\ DOMAIN t = DOMAIN s \cup {n} /\ n \notin DOMAIN s
    BY <1>1
  <1>3. t[n] = e /\ \A j \in DOMAIN s : t[j] = s[j]
    BY <1>1
  <1> HIDE DEF t, n
  <1>4. LiveOf(t) = LiveOf(s) \cup {n}
    BY <1>2, <1>3 DEF LiveOf
  <1>5. Unique(t, key, P \cup {n})
    BY <1>2, <1>3 DEF Unique
  <1>6. Keys(t, key) = Keys(s, key) \cup {key[e]}
    BY <1>2, <1>3 DEF Keys
  <1>7. \A j \in LiveOf(s) : j \in DOMAIN s /\ key[s[j]] # key[e] /\ j # n
    BY <1>2 DEF LiveOf
  <1>8. Said(t) = Other(Said(s), key, key[e]) \cup {e}
    <2>1. ASSUME NEW x \in Said(t)
          PROVE  x \in Other(Said(s), key, key[e]) \cup {e}
      BY <1>3, <1>4, <1>7 DEF Said, Facts, Other
    <2>2. ASSUME NEW x \in Other(Said(s), key, key[e]) \cup {e}
          PROVE  x \in Said(t)
      BY <1>3, <1>4, <1>7 DEF Said, Facts, Other
    <2> QED
      BY <2>1, <2>2
  <1> QED
    BY <1>2, <1>4, <1>5, <1>6, <1>8 DEF t, n, Adds

\* The positions S of the live entries of an identity are killed.
Kills(E, key, s, P, k, S, t) ==
  /\ t \in Seq(E) /\ Len(t) = Len(s) /\ DOMAIN t = DOMAIN s
  /\ LiveOf(t) = LiveOf(s) \ S /\ Unique(t, key, P)
  /\ \A i \in DOMAIN s : t[i] = IF i \in S THEN Dead(s[i]) ELSE s[i]
  /\ Said(t) = Other(Said(s), key, k)
  /\ Keys(t, key) = Keys(s, key)

LEMMA KilledEntries ==
  ASSUME NEW E, NEW key, Entries(E, key), NEW s \in Seq(E), NEW P \in SUBSET DOMAIN s,
         Unique(s, key, P), NEW k, NEW S, S = {i \in LiveOf(s) : key[s[i]] = k}
  PROVE  Kills(E, key, s, P, k, S, Killed(s, S))
  <1> DEFINE t == Killed(s, S)
  <1>1. DOMAIN s = 1 .. Len(s) /\ Len(s) \in Nat /\ \A i \in DOMAIN s : s[i] \in E
    OBVIOUS
  <1>2. t = [i \in 1 .. Len(s) |-> IF i \in S THEN Dead(s[i]) ELSE s[i]]
    BY <1>1 DEF Killed, Dead
  <1>3. \A i \in 1 .. Len(s) : (IF i \in S THEN Dead(s[i]) ELSE s[i]) \in E
    BY <1>1 DEF Entries
  <1> HIDE DEF t
  <1>4. t \in Seq(E) /\ Len(t) = Len(s) /\ DOMAIN t = DOMAIN s
    BY <1>1, <1>2, <1>3
  <1>5. \A i \in DOMAIN s : t[i] = IF i \in S THEN Dead(s[i]) ELSE s[i]
    BY <1>1, <1>2
  <1>6. \A i \in DOMAIN s : /\ key[t[i]] = key[s[i]]
                            /\ t[i].live <=> (s[i].live /\ i \notin S)
    BY <1>1, <1>5 DEF Entries
  <1>7. LiveOf(t) = LiveOf(s) \ S
    BY <1>4, <1>6 DEF LiveOf
  <1>8. Unique(t, key, P)
    BY <1>6 DEF Unique
  <1>9. Keys(t, key) = Keys(s, key)
    BY <1>4, <1>6 DEF Keys
  <1>10. Said(t) = Other(Said(s), key, k)
    <2>1. \A i \in LiveOf(t) : i \in LiveOf(s) /\ t[i] = s[i] /\ key[s[i]] # k
      BY <1>5, <1>7 DEF LiveOf
    <2>2. \A i \in LiveOf(s) : key[s[i]] # k => i \in LiveOf(t)
      BY <1>7
    <2>3. ASSUME NEW x \in Said(t)
          PROVE  x \in Other(Said(s), key, k)
      BY <2>1 DEF Said, Facts, Other
    <2>4. ASSUME NEW x \in Other(Said(s), key, k)
          PROVE  x \in Said(t)
      <3>1. PICK i \in LiveOf(s) : x = s[i] /\ key[s[i]] # k
        BY DEF Said, Facts, Other
      <3>2. i \in LiveOf(t) /\ t[i] = x
        BY <2>1, <2>2, <3>1
      <3> QED
        BY <3>2 DEF Said, Facts
    <2> QED
      BY <2>3, <2>4
  <1> QED
    BY <1>4, <1>5, <1>7, <1>8, <1>9, <1>10 DEF t, Kills

\* What a compaction leaves.
LEMMA CompactedEntries ==
  ASSUME NEW E, NEW key, NEW s \in Seq(E), Unique(s, key, LiveOf(s))
  PROVE  LET t == Compacted(s)
         IN  /\ t \in Seq(E) /\ Len(t) <= Len(s)
             /\ Unique(t, key, DOMAIN t)
             /\ Said(t) = Said(s)
             /\ Keys(t, key) \subseteq Keys(s, key)
  <1> DEFINE t == Compacted(s)
             L == LiveOf(s)
             c == Cardinality(L)
  <1>1. /\ L \in SUBSET (1 .. Len(s)) /\ c \in 0 .. Len(s)
        /\ t \in Seq(E) /\ Len(t) = c
    BY SurvivorsOf DEF Compacted
  <1>2. PICK p \in [1 .. c -> L] :
          /\ \A n \in 1 .. c : t[n] = s[p[n]]
          /\ \A i \in L : \E n \in 1 .. c : p[n] = i
          /\ \A m, n \in 1 .. c : m < n => p[m] < p[n]
    BY SurvivorsOf DEF Compacted
  <1>3. Len(s) \in Nat /\ DOMAIN s = 1 .. Len(s) /\ \A i \in L : i \in DOMAIN s /\ s[i].live
    BY DEF LiveOf
  <1> HIDE DEF t, L
  <1>4. DOMAIN t = 1 .. c /\ c \in Nat
    BY <1>1, <1>3
  <1>5. \A n \in 1 .. c : p[n] \in L /\ t[n] = s[p[n]]
    BY <1>2
  <1>6. LiveOf(t) = 1 .. c
    BY <1>3, <1>4, <1>5 DEF LiveOf
  <1>7. ASSUME NEW m \in 1 .. c, NEW n \in 1 .. c, key[t[m]] = key[t[n]]
        PROVE  m = n
    <2>1. p[m] = p[n]
      BY <1>5, <1>7 DEF Unique, L
    <2>2. p[m] \in Nat /\ m \in Nat /\ n \in Nat
      <3>1. \A i \in L : i \in Nat
        BY <1>1
      <3> QED
        BY <1>4, <1>5, <3>1
    <2>3. ~(m < n) /\ ~(n < m)
      BY <1>2, <2>1, <2>2
    <2> QED
      BY <2>2, <2>3
  <1>8. Unique(t, key, DOMAIN t)
    BY <1>4, <1>7 DEF Unique
  <1>9. Said(t) = Said(s)
    <2>1. ASSUME NEW x \in Said(t)
          PROVE  x \in Said(s)
      BY <1>5, <1>6 DEF Said, Facts, L
    <2>2. ASSUME NEW x \in Said(s)
          PROVE  x \in Said(t)
      <3>1. PICK i \in L : x = s[i]
        BY DEF Said, Facts, L
      <3>2. PICK n \in 1 .. c : p[n] = i
        BY <1>2
      <3> QED
        BY <1>5, <1>6, <3>1, <3>2 DEF Said, Facts
    <2> QED
      BY <2>1, <2>2
  <1>10. Keys(t, key) \subseteq Keys(s, key)
    BY <1>3, <1>4, <1>5 DEF Keys
  <1>11. Len(t) <= Len(s)
    BY <1>1, <1>3
  <1> QED
    BY <1>1, <1>8, <1>9, <1>10, <1>11 DEF t

-----------------------------------------------------------------------------
(* What a replay builds *)

\* The vector d on disk keeps the limit and has one entry of an identity, and none
\* that the vector s in memory does not have.
Mirror(s, d, E, key, max) ==
  /\ d \in Seq(E) /\ Len(d) <= max
  /\ Unique(d, key, DOMAIN d)
  /\ Keys(d, key) \subseteq Keys(s, key)

LEMMA IntervalSize ==
  \A n \in Nat : IsFiniteSet(1 .. n) /\ Cardinality(1 .. n) = n
  BY FS_Interval

\* An identity that is on disk no more has room there.
LEMMA RoomOnDisk ==
  ASSUME NEW E, NEW key, NEW s \in Seq(E), NEW d \in Seq(E), Unique(d, key, DOMAIN d),
         Keys(d, key) \subseteq Keys(s, key), NEW k \in Keys(s, key), k \notin Keys(d, key)
  PROVE  Len(d) < Len(s)
  <1> DEFINE At(x) == CHOOSE i \in DOMAIN s : key[s[i]] = x
             T == (1 .. Len(s)) \ {At(k)}
             g == [i \in 1 .. Len(d) |-> At(key[d[i]])]
  <1>1. /\ Len(s) \in Nat /\ DOMAIN s = 1 .. Len(s)
        /\ Len(d) \in Nat /\ DOMAIN d = 1 .. Len(d)
    OBVIOUS
  <1>2. \A x \in Keys(s, key) : At(x) \in 1 .. Len(s) /\ key[s[At(x)]] = x
    BY <1>1 DEF Keys
  <1>3. \A i \in 1 .. Len(d) : key[d[i]] \in Keys(s, key) /\ key[d[i]] # k
    BY <1>1 DEF Keys
  <1> HIDE DEF At
  <1>4. \A i \in 1 .. Len(d) : g[i] \in T /\ key[s[g[i]]] = key[d[i]]
    BY <1>2, <1>3
  <1>5. g \in Injection(1 .. Len(d), T)
    <2>1. g \in [1 .. Len(d) -> T]
      BY <1>4
    <2> HIDE DEF g, T
    <2>2. ASSUME NEW i \in 1 .. Len(d), NEW j \in 1 .. Len(d), g[i] = g[j]
          PROVE  i = j
      BY <1>1, <1>4, <2>2 DEF Unique
    <2> QED
      BY <2>1, <2>2 DEF Injection, IsInjective
  <1>6. IsFiniteSet(1 .. Len(s)) /\ Cardinality(1 .. Len(s)) = Len(s)
    BY <1>1, IntervalSize
  <1>7. IsFiniteSet(1 .. Len(d)) /\ Cardinality(1 .. Len(d)) = Len(d)
    BY <1>1, IntervalSize
  <1>8. At(k) \in 1 .. Len(s)
    BY <1>2
  <1>9. IsFiniteSet(T) /\ Cardinality(T) = Len(s) - 1
    BY <1>6, <1>8, FS_RemoveElement
  <1> HIDE DEF g, T
  <1>10. Len(d) <= Len(s) - 1
    BY <1>5, <1>7, <1>9, FS_Injection
  <1> QED
    BY <1>1, <1>10

LEMMA LeastPosition ==
  ASSUME NEW s, NEW N \in Nat, DOMAIN s = 1 .. N, NEW S \in SUBSET DOMAIN s, S # {}
  PROVE  Least(S) \in S
  <1>1. S \subseteq Nat
    OBVIOUS
  <1>2. \E i \in S : \A j \in S : i <= j
    BY <1>1, LeastNatural
  <1> QED
    BY <1>2 DEF Least

With(d, key, k) == {i \in DOMAIN d : key[d[i]] = k}

Restores(E, key, s, max, d, e, t) ==
  /\ Mirror(s, t, E, key, max)
  /\ Said(t) = Other(Said(d), key, key[e]) \cup {e}

\* restore() of an entry that is in memory.
LEMMA RestoredEntry ==
  ASSUME NEW E, NEW key, NEW s \in Seq(E), NEW max \in Nat, Len(s) <= max,
         NEW d, Mirror(s, d, E, key, max),
         NEW e \in E, e.live = TRUE, key[e] \in Keys(s, key),
         NEW t, t = Restored(d, With(d, key, key[e]), e, max)
  PROVE  Restores(E, key, s, max, d, e, t)
  <1> DEFINE Same == With(d, key, key[e])
  <1>0. Same = {i \in DOMAIN d : key[d[i]] = key[e]}
    BY DEF With
  <1>1. /\ d \in Seq(E) /\ Len(d) <= max /\ Unique(d, key, DOMAIN d)
        /\ Keys(d, key) \subseteq Keys(s, key)
    BY DEF Mirror
  <1> DEFINE P == DOMAIN d
  <1>2. P \in SUBSET DOMAIN d /\ LiveOf(d) \subseteq P /\ Unique(d, key, P)
    BY <1>1 DEF LiveOf
  <1>3. CASE Same # {}
    <2> DEFINE i == Least(Same)
    <2>1. i \in DOMAIN d /\ key[e] = key[d[i]]
      <3>1. DOMAIN d = 1 .. Len(d) /\ Len(d) \in Nat
        BY <1>1
      <3>2. Same \in SUBSET DOMAIN d
        BY <1>0
      <3>3. i \in Same
        BY <1>3, <3>1, <3>2, LeastPosition
      <3> QED
        BY <1>0, <3>3
    <2>2. t = [d EXCEPT ![i] = e]
      BY <1>3 DEF Restored
    <2>9. i \in P
      BY <2>1
    <2> HIDE DEF i, P, Same
    <2>3. Overwrites(E, key, d, P, i, e, t)
      <3>1. d \in Seq(E) /\ key[e] = key[d[i]]
        BY <1>1, <2>1
      <3>2. Overwrites(E, key, d, P, i, e, [d EXCEPT ![i] = e])
        BY <1>2, <2>9, <3>1, Overwritten
      <3> QED
        BY <2>2, <3>2
    <2>4. Mirror(s, t, E, key, max)
      BY <1>1, <2>3 DEF Mirror, P, Overwrites
    <2> QED
      BY <2>3, <2>4 DEF Restores, Overwrites
  <1>4. CASE Same = {}
    <2>1. \A i \in DOMAIN d : key[d[i]] # key[e]
      BY <1>0, <1>4
    <2>2. key[e] \notin Keys(d, key)
      BY <2>1 DEF Keys
    <2>3. Len(d) < Len(s)
      BY <1>1, <2>2, RoomOnDisk
    <2>4. Len(s) \in Nat /\ Len(d) \in Nat /\ Len(d) < max
      BY <1>1, <2>3
    <2>5. t = Append(d, e)
      BY <1>4, <2>4 DEF Restored
    <2>9. \A i \in P : key[d[i]] # key[e]
      BY <2>1
    <2> HIDE DEF P
    <2>6. Adds(E, key, d, P, e, t)
      BY <1>1, <1>2, <2>9, <2>5, Added
    <2>7. Unique(t, key, DOMAIN t)
      BY <2>6 DEF P, Adds
    <2>8. Mirror(s, t, E, key, max)
      BY <1>1, <2>4, <2>6, <2>7 DEF Mirror, Adds
    <2> QED
      BY <2>6, <2>8 DEF Restores, Adds
  <1> QED
    BY <1>3, <1>4

\* The replay of a removal.
LEMMA KilledOnDisk ==
  ASSUME NEW E, NEW key, Entries(E, key), NEW s \in Seq(E), NEW max \in Nat,
         NEW d, Mirror(s, d, E, key, max),
         NEW k, NEW S, S = {i \in LiveOf(d) : key[d[i]] = k}
  PROVE  LET t == Killed(d, S)
         IN  /\ Mirror(s, t, E, key, max)
             /\ Said(t) = Other(Said(d), key, k)
  <1> DEFINE t == Killed(d, S)
             P == DOMAIN d
  <1>1. /\ d \in Seq(E) /\ Len(d) <= max /\ Unique(d, key, P) /\ P \in SUBSET DOMAIN d
        /\ Keys(d, key) \subseteq Keys(s, key)
    BY DEF Mirror
  <1> HIDE DEF P
  <1>2. Kills(E, key, d, P, k, S, t)
    BY <1>1, KilledEntries
  <1> HIDE DEF t
  <1>3. Unique(t, key, DOMAIN t)
    BY <1>2 DEF P, Kills
  <1>4. Mirror(s, t, E, key, max)
    BY <1>1, <1>2, <1>3 DEF Mirror, Kills
  <1> QED
    BY <1>2, <1>4 DEF t, Kills

\* A checkpoint.
LEMMA CompactedOnDisk ==
  ASSUME NEW E, NEW key, NEW s \in Seq(E), NEW max \in Nat, Len(s) <= max,
         Unique(s, key, LiveOf(s))
  PROVE  /\ Mirror(s, Compacted(s), E, key, max)
         /\ Said(Compacted(s)) = Said(s)
  <1> DEFINE t == Compacted(s)
  <1>1. /\ t \in Seq(E) /\ Len(t) <= Len(s)
        /\ Unique(t, key, DOMAIN t)
        /\ Said(t) = Said(s)
        /\ Keys(t, key) \subseteq Keys(s, key)
    BY CompactedEntries
  <1> HIDE DEF t
  <1>2. Len(t) <= max
    BY <1>1
  <1>3. Mirror(s, t, E, key, max)
    BY <1>1, <1>2 DEF Mirror
  <1> QED
    BY <1>1, <1>3 DEF t

-----------------------------------------------------------------------------
(* The registries and the files *)

FlowOf == [e \in Binding |-> e.flow]
IdOf   == [e \in PacingPolicy |-> e.id]

\* The registries in memory.
Registry(b, p) ==
  /\ b \in Seq(Binding) /\ Len(b) <= MaxFlows /\ Unique(b, FlowOf, LiveOf(b))
  /\ p \in Seq(PacingPolicy) /\ Len(p) <= MaxPolicies /\ Unique(p, IdOf, DOMAIN p)

Files == [bindings: Seq(Binding), policies: Seq(PacingPolicy)]

\* The files d, from which nothing was lost unless l.
Replays(b, p, d, l) ==
  /\ d \in Files /\ l \in BOOLEAN
  /\ Mirror(b, d.bindings, Binding, FlowOf, MaxFlows)
  /\ Mirror(p, d.policies, PacingPolicy, IdOf, MaxPolicies)
  /\ ~l => Said(b) = Said(d.bindings) /\ Said(p) = Said(d.policies)

LEMMA EntriesOfRegistries ==
  Entries(Binding, FlowOf) /\ Entries(PacingPolicy, IdOf)
  <1>1. ASSUME NEW e \in Binding
        PROVE  /\ e.live \in BOOLEAN
               /\ Dead(e) \in Binding /\ Dead(e).live = FALSE /\ FlowOf[Dead(e)] = FlowOf[e]
    <2>1. e.live \in BOOLEAN /\ Dead(e) \in Binding /\ Dead(e).live = FALSE /\ Dead(e).flow = e.flow
      BY DEF Binding, Dead
    <2> QED
      BY <2>1 DEF FlowOf
  <1>2. ASSUME NEW e \in PacingPolicy
        PROVE  /\ e.live \in BOOLEAN
               /\ Dead(e) \in PacingPolicy /\ Dead(e).live = FALSE /\ IdOf[Dead(e)] = IdOf[e]
    <2>1. e.live \in BOOLEAN /\ Dead(e) \in PacingPolicy /\ Dead(e).live = FALSE /\ Dead(e).id = e.id
      BY DEF PacingPolicy, Dead
    <2> QED
      BY <2>1 DEF IdOf
  <1> QED
    BY <1>1, <1>2 DEF Entries

LEMMA Limits ==
  MaxFlows \in Nat /\ MaxPolicies \in Nat
  BY GovernanceAssumption

\* The entries of a flow and of an id, in terms of the identities.
LEMMA EntriesById ==
  /\ \A b \in Seq(Binding) : \A f :
       /\ AnyBinding(b, f) = {i \in DOMAIN b : FlowOf[b[i]] = f}
       /\ LiveBinding(b, f) = {i \in LiveOf(b) : FlowOf[b[i]] = f}
  /\ \A p \in Seq(PacingPolicy) : \A id :
       /\ AnyPolicy(p, id) = {i \in DOMAIN p : IdOf[p[i]] = id}
       /\ LivePolicy(p, id) = {i \in LiveOf(p) : IdOf[p[i]] = id}
  <1>1. ASSUME NEW b \in Seq(Binding), NEW f
        PROVE  /\ AnyBinding(b, f) = {i \in DOMAIN b : FlowOf[b[i]] = f}
               /\ LiveBinding(b, f) = {i \in LiveOf(b) : FlowOf[b[i]] = f}
    <2>1. \A i \in DOMAIN b : b[i] \in Binding
      OBVIOUS
    <2>2. \A i \in DOMAIN b : FlowOf[b[i]] = b[i].flow
      BY <2>1 DEF FlowOf
    <2> QED
      BY <2>2 DEF AnyBinding, LiveBinding, LiveOf
  <1>2. ASSUME NEW p \in Seq(PacingPolicy), NEW id
        PROVE  /\ AnyPolicy(p, id) = {i \in DOMAIN p : IdOf[p[i]] = id}
               /\ LivePolicy(p, id) = {i \in LiveOf(p) : IdOf[p[i]] = id}
    <2>1. \A i \in DOMAIN p : p[i] \in PacingPolicy
      OBVIOUS
    <2>2. \A i \in DOMAIN p : IdOf[p[i]] = p[i].id
      BY <2>1 DEF IdOf
    <2> QED
      BY <2>2 DEF AnyPolicy, LivePolicy, LiveOf
  <1> QED
    BY <1>1, <1>2

\* A checkpoint makes up for what was lost.
LEMMA CheckpointReplays ==
  ASSUME NEW b, NEW p, Registry(b, p)
  PROVE  Replays(b, p, Checkpoint(b, p), FALSE)
  <1>1. /\ b \in Seq(Binding) /\ Len(b) <= MaxFlows /\ Unique(b, FlowOf, LiveOf(b))
        /\ p \in Seq(PacingPolicy) /\ Len(p) <= MaxPolicies /\ Unique(p, IdOf, LiveOf(p))
    BY DEF Registry, Unique, LiveOf
  <1> DEFINE c == Compacted(b)
             q == Compacted(p)
  <1>2. Mirror(b, c, Binding, FlowOf, MaxFlows) /\ Said(c) = Said(b)
    BY <1>1, Limits, CompactedOnDisk
  <1>3. Mirror(p, q, PacingPolicy, IdOf, MaxPolicies) /\ Said(q) = Said(p)
    BY <1>1, Limits, CompactedOnDisk
  <1>4. c \in Seq(Binding) /\ q \in Seq(PacingPolicy)
    BY <1>2, <1>3 DEF Mirror
  <1>5. Checkpoint(b, p) = [bindings |-> c, policies |-> q]
    BY DEF Checkpoint
  <1> HIDE DEF c, q
  <1> QED
    BY <1>2, <1>3, <1>4, <1>5 DEF Replays, Files

\* The files after an append, a checkpoint, or both.
LEMMA JournalReplays ==
  ASSUME NEW b, NEW p, Registry(b, p), NEW kind, NEW what,
         Journal(b, p, kind, what),
         Replays(b, p, disk, TRUE),
         Replays(b, p, Replay(disk, kind, what), lossy),
         Replays(b, p, Replay(Checkpoint(b, p), kind, what), FALSE)
  PROVE  Replays(b, p, disk', lossy')
  <1>1. Replays(b, p, Checkpoint(b, p), FALSE)
    BY CheckpointReplays
  <1> QED
    BY <1>1 DEF Journal

\* A record of each kind at its replay.
LEMMA ReplayOfBinding ==
  ASSUME NEW b, NEW p, Registry(b, p), NEW d, Replays(b, p, d, TRUE), NEW l \in BOOLEAN,
         NEW e \in Binding, e.live = TRUE, e.flow \in Keys(b, FlowOf),
         ~l => /\ Said(b) = Other(Said(d.bindings), FlowOf, e.flow) \cup {e}
               /\ Said(p) = Said(d.policies)
  PROVE  Replays(b, p, Replay(d, "FlowBinding", e), l)
  <1> DEFINE t == RestoreBinding(d.bindings, e)
             Same == AnyBinding(d.bindings, e.flow)
  <1>1. d \in Files /\ Mirror(b, d.bindings, Binding, FlowOf, MaxFlows)
    BY DEF Replays
  <1>2. Replay(d, "FlowBinding", e) = [bindings |-> t, policies |-> d.policies]
    BY <1>1 DEF Replay, Files
  <1>3. FlowOf[e] = e.flow
    BY DEF FlowOf
  <1>4. Same = {i \in DOMAIN d.bindings : FlowOf[d.bindings[i]] = FlowOf[e]}
    BY <1>1, <1>3, EntriesById DEF Files
  <1>5. t = Restored(d.bindings, Same, e, MaxFlows)
    BY DEF RestoreBinding
  <1>6. b \in Seq(Binding) /\ Len(b) <= MaxFlows /\ FlowOf[e] \in Keys(b, FlowOf)
    BY <1>3 DEF Registry
  <1> HIDE DEF t, Same
  <1>7. /\ Mirror(b, t, Binding, FlowOf, MaxFlows)
        /\ Said(t) = Other(Said(d.bindings), FlowOf, e.flow) \cup {e}
    <2> DEFINE q == d.bindings
    <2>1. Mirror(b, q, Binding, FlowOf, MaxFlows) /\ Same = With(q, FlowOf, FlowOf[e])
      BY <1>1, <1>4 DEF With
    <2>2. t = Restored(q, Same, e, MaxFlows)
      BY <1>5
    <2> HIDE DEF q
    <2>3. Restores(Binding, FlowOf, b, MaxFlows, q, e, t)
      BY <1>6, <2>1, <2>2, Limits, RestoredEntry
    <2> QED
      BY <1>3, <2>3 DEF q, Restores
  <1>8. t \in Seq(Binding)
    BY <1>7 DEF Mirror
  <1>9. Replay(d, "FlowBinding", e) \in Files
    BY <1>1, <1>2, <1>8 DEF Files
  <1>10. Replay(d, "FlowBinding", e).bindings = t /\ Replay(d, "FlowBinding", e).policies = d.policies
    BY <1>2
  <1>11. ~l => Said(b) = Said(t) /\ Said(p) = Said(d.policies)
    BY <1>7
  <1>12. Mirror(p, d.policies, PacingPolicy, IdOf, MaxPolicies)
    BY DEF Replays
  <1> QED
    BY <1>7, <1>9, <1>10, <1>11, <1>12 DEF Replays

LEMMA ReplayOfPolicy ==
  ASSUME NEW b, NEW p, Registry(b, p), NEW d, Replays(b, p, d, TRUE), NEW l \in BOOLEAN,
         NEW e \in PacingPolicy, e.live = TRUE, e.id \in Keys(p, IdOf),
         ~l => /\ Said(b) = Said(d.bindings)
               /\ Said(p) = Other(Said(d.policies), IdOf, e.id) \cup {e}
  PROVE  Replays(b, p, Replay(d, "Policy", e), l)
  <1> DEFINE t == RestorePolicy(d.policies, e)
             Same == AnyPolicy(d.policies, e.id)
  <1>1. d \in Files /\ Mirror(p, d.policies, PacingPolicy, IdOf, MaxPolicies)
    BY DEF Replays
  <1>2. Replay(d, "Policy", e) = [bindings |-> d.bindings, policies |-> t]
    BY <1>1 DEF Replay, Files
  <1>3. IdOf[e] = e.id
    BY DEF IdOf
  <1>4. Same = {i \in DOMAIN d.policies : IdOf[d.policies[i]] = IdOf[e]}
    BY <1>1, <1>3, EntriesById DEF Files
  <1>5. t = Restored(d.policies, Same, e, MaxPolicies)
    BY DEF RestorePolicy
  <1>6. p \in Seq(PacingPolicy) /\ Len(p) <= MaxPolicies /\ IdOf[e] \in Keys(p, IdOf)
    BY <1>3 DEF Registry
  <1> HIDE DEF t, Same
  <1>7. /\ Mirror(p, t, PacingPolicy, IdOf, MaxPolicies)
        /\ Said(t) = Other(Said(d.policies), IdOf, e.id) \cup {e}
    <2> DEFINE q == d.policies
    <2>1. Mirror(p, q, PacingPolicy, IdOf, MaxPolicies) /\ Same = With(q, IdOf, IdOf[e])
      BY <1>1, <1>4 DEF With
    <2>2. t = Restored(q, Same, e, MaxPolicies)
      BY <1>5
    <2> HIDE DEF q
    <2>3. Restores(PacingPolicy, IdOf, p, MaxPolicies, q, e, t)
      BY <1>6, <2>1, <2>2, Limits, RestoredEntry
    <2> QED
      BY <1>3, <2>3 DEF q, Restores
  <1>8. t \in Seq(PacingPolicy)
    BY <1>7 DEF Mirror
  <1>9. Replay(d, "Policy", e) \in Files
    BY <1>1, <1>2, <1>8 DEF Files
  <1>10. Replay(d, "Policy", e).bindings = d.bindings /\ Replay(d, "Policy", e).policies = t
    BY <1>2
  <1>11. ~l => Said(b) = Said(d.bindings) /\ Said(p) = Said(t)
    BY <1>7
  <1>12. Mirror(b, d.bindings, Binding, FlowOf, MaxFlows)
    BY DEF Replays
  <1> QED
    BY <1>7, <1>9, <1>10, <1>11, <1>12 DEF Replays

LEMMA ReplayOfUnbinding ==
  ASSUME NEW b, NEW p, Registry(b, p), NEW d, Replays(b, p, d, TRUE), NEW l \in BOOLEAN,
         NEW f,
         ~l => /\ Said(b) = Other(Said(d.bindings), FlowOf, f)
               /\ Said(p) = Said(d.policies)
  PROVE  Replays(b, p, Replay(d, "FlowUnbound", f), l)
  <1> DEFINE S == LiveBinding(d.bindings, f)
             t == Killed(d.bindings, S)
  <1>1. d \in Files /\ Mirror(b, d.bindings, Binding, FlowOf, MaxFlows)
    BY DEF Replays
  <1>2. Replay(d, "FlowUnbound", f) = [bindings |-> t, policies |-> d.policies]
    BY <1>1 DEF Replay, Files
  <1>3. S = {i \in LiveOf(d.bindings) : FlowOf[d.bindings[i]] = f}
    BY <1>1, EntriesById DEF Files
  <1>4. b \in Seq(Binding)
    BY DEF Registry
  <1> HIDE DEF S
  <1>5. /\ Mirror(b, t, Binding, FlowOf, MaxFlows)
        /\ Said(t) = Other(Said(d.bindings), FlowOf, f)
    BY <1>1, <1>3, <1>4, Limits, EntriesOfRegistries, KilledOnDisk
  <1> HIDE DEF t
  <1>6. t \in Seq(Binding)
    BY <1>5 DEF Mirror
  <1> QED
    BY <1>2, <1>5, <1>6 DEF Replays, Files

LEMMA ReplayOfRemoval ==
  ASSUME NEW b, NEW p, Registry(b, p), NEW d, Replays(b, p, d, TRUE), NEW l \in BOOLEAN,
         NEW id,
         ~l => /\ Said(b) = Said(d.bindings)
               /\ Said(p) = Other(Said(d.policies), IdOf, id)
  PROVE  Replays(b, p, Replay(d, "PolicyRemoved", id), l)
  <1> DEFINE S == LivePolicy(d.policies, id)
             t == Killed(d.policies, S)
  <1>1. d \in Files /\ Mirror(p, d.policies, PacingPolicy, IdOf, MaxPolicies)
    BY DEF Replays
  <1>2. Replay(d, "PolicyRemoved", id) = [bindings |-> d.bindings, policies |-> t]
    BY <1>1 DEF Replay, Files
  <1>3. S = {i \in LiveOf(d.policies) : IdOf[d.policies[i]] = id}
    BY <1>1, EntriesById DEF Files
  <1>4. p \in Seq(PacingPolicy)
    BY DEF Registry
  <1> HIDE DEF S
  <1>5. /\ Mirror(p, t, PacingPolicy, IdOf, MaxPolicies)
        /\ Said(t) = Other(Said(d.policies), IdOf, id)
    BY <1>1, <1>3, <1>4, Limits, EntriesOfRegistries, KilledOnDisk
  <1> HIDE DEF t
  <1>6. t \in Seq(PacingPolicy)
    BY <1>5 DEF Mirror
  <1> QED
    BY <1>2, <1>5, <1>6 DEF Replays, Files

-----------------------------------------------------------------------------
(* The files after each operation *)

\* The vectors in memory change, and no identity is forgotten.
LEMMA FilesStay ==
  ASSUME Replays(bindings, policies, disk, lossy), NEW b, NEW p,
         Keys(bindings, FlowOf) \subseteq Keys(b, FlowOf),
         Keys(policies, IdOf) \subseteq Keys(p, IdOf)
  PROVE  Replays(b, p, disk, TRUE)
  BY DEF Replays, Mirror

LEMMA JournalOfBinding ==
  ASSUME Replays(bindings, policies, disk, lossy), NEW b, Registry(b, policies),
         NEW e \in Binding, e.live = TRUE,
         Said(b) = Other(Said(bindings), FlowOf, e.flow) \cup {e},
         Keys(b, FlowOf) = Keys(bindings, FlowOf) \cup {e.flow},
         Journal(b, policies, "FlowBinding", e)
  PROVE  Replays(b, policies, disk', lossy')
  <1> DEFINE c == Checkpoint(b, policies)
  <1>1. Replays(b, policies, disk, TRUE)
    BY FilesStay
  <1>2. Replays(b, policies, c, FALSE)
    BY CheckpointReplays
  <1>3. Replays(b, policies, c, TRUE) /\ Said(b) = Said(c.bindings) /\ Said(policies) = Said(c.policies)
    BY <1>2 DEF Replays
  <1> HIDE DEF c
  <1>4. FlowOf[e] = e.flow
    BY DEF FlowOf
  <1>5. Said(b) = Other(Said(b), FlowOf, e.flow) \cup {e}
    BY <1>4 DEF Other
  <1>6. lossy \in BOOLEAN /\ (~lossy => Said(bindings) = Said(disk.bindings) /\ Said(policies) = Said(disk.policies))
    BY DEF Replays
  <1>7. Replays(b, policies, Replay(disk, "FlowBinding", e), lossy)
    BY <1>1, <1>6, ReplayOfBinding
  <1>8. Replays(b, policies, Replay(c, "FlowBinding", e), FALSE)
    BY <1>3, <1>5, ReplayOfBinding
  <1> QED
    BY <1>1, <1>7, <1>8, JournalReplays DEF c

LEMMA JournalOfPolicy ==
  ASSUME Replays(bindings, policies, disk, lossy), NEW p, Registry(bindings, p),
         NEW e \in PacingPolicy, e.live = TRUE,
         Said(p) = Other(Said(policies), IdOf, e.id) \cup {e},
         Keys(p, IdOf) = Keys(policies, IdOf) \cup {e.id},
         Journal(bindings, p, "Policy", e)
  PROVE  Replays(bindings, p, disk', lossy')
  <1> DEFINE c == Checkpoint(bindings, p)
  <1>1. Replays(bindings, p, disk, TRUE)
    BY FilesStay
  <1>2. Replays(bindings, p, c, FALSE)
    BY CheckpointReplays
  <1>3. Replays(bindings, p, c, TRUE) /\ Said(bindings) = Said(c.bindings) /\ Said(p) = Said(c.policies)
    BY <1>2 DEF Replays
  <1> HIDE DEF c
  <1>4. IdOf[e] = e.id
    BY DEF IdOf
  <1>5. Said(p) = Other(Said(p), IdOf, e.id) \cup {e}
    BY <1>4 DEF Other
  <1>6. lossy \in BOOLEAN /\ (~lossy => Said(bindings) = Said(disk.bindings) /\ Said(policies) = Said(disk.policies))
    BY DEF Replays
  <1>7. Replays(bindings, p, Replay(disk, "Policy", e), lossy)
    BY <1>1, <1>6, ReplayOfPolicy
  <1>8. Replays(bindings, p, Replay(c, "Policy", e), FALSE)
    BY <1>3, <1>5, ReplayOfPolicy
  <1> QED
    BY <1>1, <1>7, <1>8, JournalReplays DEF c

LEMMA JournalOfUnbinding ==
  ASSUME Replays(bindings, policies, disk, lossy), NEW b, Registry(b, policies), NEW f,
         Said(b) = Other(Said(bindings), FlowOf, f),
         Keys(b, FlowOf) = Keys(bindings, FlowOf),
         Journal(b, policies, "FlowUnbound", f)
  PROVE  Replays(b, policies, disk', lossy')
  <1> DEFINE c == Checkpoint(b, policies)
  <1>1. Replays(b, policies, disk, TRUE)
    BY FilesStay
  <1>2. Replays(b, policies, c, FALSE)
    BY CheckpointReplays
  <1>3. Replays(b, policies, c, TRUE) /\ Said(b) = Said(c.bindings) /\ Said(policies) = Said(c.policies)
    BY <1>2 DEF Replays
  <1> HIDE DEF c
  <1>4. Said(b) = Other(Said(b), FlowOf, f)
    BY DEF Other
  <1>5. lossy \in BOOLEAN /\ (~lossy => Said(bindings) = Said(disk.bindings) /\ Said(policies) = Said(disk.policies))
    BY DEF Replays
  <1>6. Replays(b, policies, Replay(disk, "FlowUnbound", f), lossy)
    BY <1>1, <1>5, ReplayOfUnbinding
  <1>7. Replays(b, policies, Replay(c, "FlowUnbound", f), FALSE)
    BY <1>3, <1>4, ReplayOfUnbinding
  <1> QED
    BY <1>1, <1>6, <1>7, JournalReplays DEF c

LEMMA JournalOfRemoval ==
  ASSUME Replays(bindings, policies, disk, lossy), NEW p, Registry(bindings, p), NEW id,
         Said(p) = Other(Said(policies), IdOf, id),
         Keys(p, IdOf) = Keys(policies, IdOf),
         Journal(bindings, p, "PolicyRemoved", id)
  PROVE  Replays(bindings, p, disk', lossy')
  <1> DEFINE c == Checkpoint(bindings, p)
  <1>1. Replays(bindings, p, disk, TRUE)
    BY FilesStay
  <1>2. Replays(bindings, p, c, FALSE)
    BY CheckpointReplays
  <1>3. Replays(bindings, p, c, TRUE) /\ Said(bindings) = Said(c.bindings) /\ Said(p) = Said(c.policies)
    BY <1>2 DEF Replays
  <1> HIDE DEF c
  <1>4. Said(p) = Other(Said(p), IdOf, id)
    BY DEF Other
  <1>5. lossy \in BOOLEAN /\ (~lossy => Said(bindings) = Said(disk.bindings) /\ Said(policies) = Said(disk.policies))
    BY DEF Replays
  <1>6. Replays(bindings, p, Replay(disk, "PolicyRemoved", id), lossy)
    BY <1>1, <1>5, ReplayOfRemoval
  <1>7. Replays(bindings, p, Replay(c, "PolicyRemoved", id), FALSE)
    BY <1>3, <1>4, ReplayOfRemoval
  <1> QED
    BY <1>1, <1>6, <1>7, JournalReplays DEF c

-----------------------------------------------------------------------------
(* The inductive invariant *)

\* What was captured of a policy is in the store, or was replaced or removed since,
\* which shows in a later generation or in a dead entry.
PolicyKept(q, p) ==
  \E i \in DOMAIN p :
    /\ p[i].id = q.id
    /\ \/ p[i].generation > q.generation
       \/ p[i].generation = q.generation /\ (p[i].live => p[i] = q)

\* What was captured of a binding is in force, or was replaced under a later generation.
BindingKept(q, b) ==
  \E i \in LiveOf(b) : b[i].flow = q.flow /\ (b[i].generation > q.generation \/ b[i] = q)

\* Nothing that is held is of a later incarnation, and what is of the present one is kept.
HeldKept ==
  held # None =>
    /\ held.epoch <= epoch
    /\ held.epoch = epoch => PolicyKept(held.policy, policies)
    /\ held.epoch = epoch /\ ~unbound => BindingKept(held.binding, bindings)

Inv ==
  /\ Registry(bindings, policies)
  /\ Replays(bindings, policies, disk, lossy)
  /\ held \in {None} \cup Envelope /\ unbound \in BOOLEAN /\ epoch \in 1 .. MaxEpoch
  /\ HeldKept

-----------------------------------------------------------------------------
(* Generations *)

LEMMA Generations ==
  /\ \A asked \in 0 .. MaxGeneration : FirstGeneration(asked) \in Generation
  /\ \A asked \in 0 .. MaxGeneration, old \in Generation :
       /\ NextGeneration(asked, old) > old
       /\ NextGeneration(asked, old) <= MaxGeneration => NextGeneration(asked, old) \in Generation
  BY GovernanceAssumption DEF FirstGeneration, NextGeneration, Generation

-----------------------------------------------------------------------------
(* The vector of bindings *)

\* The only live binding of a flow.
LEMMA LiveBindingOf ==
  ASSUME NEW b \in Seq(Binding), Unique(b, FlowOf, LiveOf(b)), NEW f
  PROVE  /\ LiveBinding(b, f) # {} =>
              /\ LiveBinding(b, f) = {Least(LiveBinding(b, f))}
              /\ Least(LiveBinding(b, f)) \in LiveOf(b)
              /\ b[Least(LiveBinding(b, f))] \in Binding
              /\ b[Least(LiveBinding(b, f))].flow = f
         /\ LiveBinding(b, f) = {} => \A i \in LiveOf(b) : FlowOf[b[i]] # f
  <1> DEFINE S == LiveBinding(b, f)
             i == Least(S)
  <1>1. S = {j \in LiveOf(b) : FlowOf[b[j]] = f}
    BY EntriesById
  <1>2. \A j \in LiveOf(b) : j \in DOMAIN b /\ b[j] \in Binding /\ FlowOf[b[j]] = b[j].flow
    BY DEF LiveOf, FlowOf
  <1>3. \A j, k \in S : j = k
    BY <1>1 DEF Unique
  <1>4. ASSUME S # {}
        PROVE  S = {i} /\ i \in LiveOf(b) /\ b[i] \in Binding /\ b[i].flow = f
    <2>1. DOMAIN b = 1 .. Len(b) /\ Len(b) \in Nat
      OBVIOUS
    <2>2. S \in SUBSET DOMAIN b
      BY <1>1, <1>2
    <2> HIDE DEF S
    <2>3. i \in S
      BY <1>4, <2>1, <2>2, LeastPosition
    <2> HIDE DEF i
    <2>4. S = {i}
      BY <1>3, <2>3
    <2>5. i \in LiveOf(b) /\ FlowOf[b[i]] = f
      BY <1>1, <2>3
    <2> QED
      BY <1>2, <2>4, <2>5
  <1>5. ASSUME S = {}
        PROVE  \A j \in LiveOf(b) : FlowOf[b[j]] # f
    BY <1>1, <1>5
  <1> QED
    BY <1>4, <1>5

\* What bind_flow does to the vector.
BindsTo(b0, e, b) ==
  /\ b \in Seq(Binding) /\ Len(b) <= MaxFlows /\ Unique(b, FlowOf, LiveOf(b))
  /\ Said(b) = Other(Said(b0), FlowOf, e.flow) \cup {e}
  /\ Keys(b, FlowOf) = Keys(b0, FlowOf) \cup {e.flow}
  /\ \A q \in Binding : BindingKept(q, b0) => BindingKept(q, b)

LEMMA Rebound ==
  ASSUME NEW b0 \in Seq(Binding), Len(b0) <= MaxFlows, Unique(b0, FlowOf, LiveOf(b0)),
         NEW e \in Binding, e.live = TRUE, LiveBinding(b0, e.flow) # {},
         NEW i, i = Least(LiveBinding(b0, e.flow)), e.generation > b0[i].generation
  PROVE  BindsTo(b0, e, [b0 EXCEPT ![i] = e])
  <1> DEFINE P == LiveOf(b0)
             b == [b0 EXCEPT ![i] = e]
  <1>1. i \in P /\ b0[i] \in Binding /\ b0[i].flow = e.flow
    BY LiveBindingOf
  <1>2. FlowOf[e] = e.flow /\ FlowOf[b0[i]] = e.flow
    BY <1>1 DEF FlowOf
  <1>3. P \in SUBSET DOMAIN b0 /\ LiveOf(b0) \subseteq P /\ Unique(b0, FlowOf, P)
    BY DEF LiveOf
  <1> HIDE DEF P
  <1>4. Overwrites(Binding, FlowOf, b0, P, i, e, b)
    <2>1. FlowOf[e] = FlowOf[b0[i]]
      BY <1>2
    <2> QED
      BY <1>1, <1>3, <2>1, Overwritten
  <1>5. i \in DOMAIN b0 /\ b[i] = e /\ \A j \in DOMAIN b0 \ {i} : b[j] = b0[j]
    BY <1>1, <1>3
  <1> HIDE DEF b
  <1>6. LiveOf(b) = P
    BY <1>1, <1>4 DEF Overwrites, P
  <1>7. Keys(b, FlowOf) = Keys(b0, FlowOf) \cup {e.flow}
    BY <1>2, <1>4, <1>5 DEF Overwrites, Keys
  <1>8. ASSUME NEW q \in Binding, BindingKept(q, b0)
        PROVE  BindingKept(q, b)
    <2>1. PICK j \in P : b0[j].flow = q.flow /\ (b0[j].generation > q.generation \/ b0[j] = q)
      BY <1>8 DEF BindingKept, P
    <2>2. CASE j = i
      <3>1. b0[i].generation >= q.generation
        <4>1. b0[i].generation \in Nat /\ q.generation \in Nat
          BY <1>1 DEF Binding, Generation
        <4> QED
          BY <2>1, <2>2, <4>1
      <3>2. e.generation > q.generation
        <4>1. b0[i].generation \in Nat /\ q.generation \in Nat /\ e.generation \in Nat
          BY <1>1 DEF Binding, Generation
        <4> QED
          BY <3>1, <4>1
      <3>3. b[i] = e /\ e.flow = q.flow /\ i \in LiveOf(b)
        BY <1>1, <1>5, <1>6, <2>1, <2>2
      <3> QED
        BY <3>2, <3>3 DEF BindingKept
    <2>3. CASE j # i
      BY <1>3, <1>5, <1>6, <2>1, <2>3 DEF BindingKept
    <2> QED
      BY <2>2, <2>3
  <1>9. /\ b \in Seq(Binding) /\ Len(b) <= MaxFlows /\ Unique(b, FlowOf, LiveOf(b))
        /\ Said(b) = Other(Said(b0), FlowOf, e.flow) \cup {e}
    BY <1>2, <1>4, <1>6 DEF Overwrites
  <1>10. BindsTo(b0, e, b)
    BY <1>7, <1>8, <1>9 DEF BindsTo
  <1> QED
    BY <1>10 DEF b

LEMMA Bound ==
  ASSUME NEW b0 \in Seq(Binding), Len(b0) < MaxFlows, Unique(b0, FlowOf, LiveOf(b0)),
         NEW e \in Binding, e.live = TRUE, LiveBinding(b0, e.flow) = {}
  PROVE  BindsTo(b0, e, Append(b0, e))
  <1> DEFINE P == LiveOf(b0)
             b == Append(b0, e)
  <1>1. FlowOf[e] = e.flow
    BY DEF FlowOf
  <1>2. \A i \in P : FlowOf[b0[i]] # FlowOf[e]
    BY <1>1, LiveBindingOf
  <1>3. P \in SUBSET DOMAIN b0 /\ LiveOf(b0) \subseteq P /\ Unique(b0, FlowOf, P)
    BY DEF LiveOf
  <1> HIDE DEF P
  <1>4. Adds(Binding, FlowOf, b0, P, e, b)
    BY <1>2, <1>3, Added
  <1>5. \A j \in DOMAIN b0 : b[j] = b0[j]
    OBVIOUS
  <1> HIDE DEF b
  <1>6. LiveOf(b) = P \cup {Len(b)}
    BY <1>4 DEF Adds, P
  <1>7. ASSUME NEW q \in Binding, BindingKept(q, b0)
        PROVE  BindingKept(q, b)
    BY <1>3, <1>5, <1>6, <1>7 DEF BindingKept, P
  <1>8. Len(b) <= MaxFlows
    <2>1. Len(b) = Len(b0) + 1 /\ Len(b0) \in Nat
      BY <1>4 DEF Adds
    <2> QED
      BY <2>1, Limits
  <1>9. /\ b \in Seq(Binding) /\ Unique(b, FlowOf, LiveOf(b))
        /\ Said(b) = Other(Said(b0), FlowOf, e.flow) \cup {e}
        /\ Keys(b, FlowOf) = Keys(b0, FlowOf) \cup {e.flow}
    BY <1>1, <1>4, <1>6 DEF Adds
  <1>10. BindsTo(b0, e, b)
    BY <1>7, <1>8, <1>9 DEF BindsTo
  <1> QED
    BY <1>10 DEF b

LEMMA Unbound ==
  ASSUME NEW b0 \in Seq(Binding), Len(b0) <= MaxFlows, Unique(b0, FlowOf, LiveOf(b0)),
         NEW f, LiveBinding(b0, f) # {}, NEW b, b = Killed(b0, {Least(LiveBinding(b0, f))})
  PROVE  /\ b \in Seq(Binding) /\ Len(b) <= MaxFlows /\ Unique(b, FlowOf, LiveOf(b))
         /\ Said(b) = Other(Said(b0), FlowOf, f)
         /\ Keys(b, FlowOf) = Keys(b0, FlowOf)
         /\ \A q \in Binding : q.flow # f /\ BindingKept(q, b0) => BindingKept(q, b)
  <1> DEFINE P == LiveOf(b0)
             S == LiveBinding(b0, f)
  <1>1. b = Killed(b0, S)
    BY LiveBindingOf
  <1>2. S = {i \in LiveOf(b0) : FlowOf[b0[i]] = f}
    BY EntriesById
  <1>3. P \in SUBSET DOMAIN b0 /\ Unique(b0, FlowOf, P)
    BY DEF LiveOf
  <1>4. Kills(Binding, FlowOf, b0, P, f, S, b)
    <2> HIDE DEF P, S
    <2> QED
      BY <1>1, <1>2, <1>3, EntriesOfRegistries, KilledEntries
  <1>5. LiveOf(b) = P \ S /\ \A j \in P \ S : b[j] = b0[j]
    BY <1>3, <1>4 DEF Kills
  <1>6. \A j \in P : b0[j].flow # f => j \notin S
    BY DEF LiveBinding
  <1>7. Unique(b, FlowOf, LiveOf(b))
    BY <1>4, <1>5 DEF Kills, Unique
  <1>8. ASSUME NEW q \in Binding, q.flow # f, BindingKept(q, b0)
        PROVE  BindingKept(q, b)
    <2> HIDE DEF S
    <2> QED
      BY <1>5, <1>6, <1>8 DEF BindingKept
  <1> QED
    BY <1>4, <1>7, <1>8 DEF Kills

-----------------------------------------------------------------------------
(* The vector of policies *)

LEMMA PolicyOf ==
  ASSUME NEW p \in Seq(PacingPolicy), NEW id
  PROVE  /\ AnyPolicy(p, id) # {} =>
              /\ Least(AnyPolicy(p, id)) \in DOMAIN p
              /\ p[Least(AnyPolicy(p, id))] \in PacingPolicy
              /\ p[Least(AnyPolicy(p, id))].id = id
         /\ AnyPolicy(p, id) = {} => \A i \in DOMAIN p : IdOf[p[i]] # id
  <1> DEFINE S == AnyPolicy(p, id)
             i == Least(S)
  <1>1. S = {j \in DOMAIN p : IdOf[p[j]] = id}
    BY EntriesById
  <1>2. \A j \in DOMAIN p : p[j] \in PacingPolicy /\ IdOf[p[j]] = p[j].id
    BY DEF IdOf
  <1>3. ASSUME S # {}
        PROVE  i \in DOMAIN p /\ p[i] \in PacingPolicy /\ p[i].id = id
    <2>1. DOMAIN p = 1 .. Len(p) /\ Len(p) \in Nat
      OBVIOUS
    <2>2. S \in SUBSET DOMAIN p
      BY <1>1
    <2> HIDE DEF S
    <2>3. i \in S
      BY <1>3, <2>1, <2>2, LeastPosition
    <2> HIDE DEF i
    <2>4. i \in DOMAIN p /\ IdOf[p[i]] = id
      BY <1>1, <2>3
    <2> QED
      BY <1>2, <2>4
  <1>4. ASSUME S = {}
        PROVE  \A j \in DOMAIN p : IdOf[p[j]] # id
    BY <1>1, <1>4
  <1> QED
    BY <1>3, <1>4

\* What publish_policy does to the vector.
PublishesTo(p0, e, p) ==
  /\ p \in Seq(PacingPolicy) /\ Len(p) <= MaxPolicies /\ Unique(p, IdOf, DOMAIN p)
  /\ Said(p) = Other(Said(p0), IdOf, e.id) \cup {e}
  /\ Keys(p, IdOf) = Keys(p0, IdOf) \cup {e.id}
  /\ \A q \in PacingPolicy : PolicyKept(q, p0) => PolicyKept(q, p)

LEMMA Republished ==
  ASSUME NEW p0 \in Seq(PacingPolicy), Len(p0) <= MaxPolicies, Unique(p0, IdOf, DOMAIN p0),
         NEW e \in PacingPolicy, e.live = TRUE, AnyPolicy(p0, e.id) # {},
         NEW i, i = Least(AnyPolicy(p0, e.id)), e.generation > p0[i].generation
  PROVE  PublishesTo(p0, e, [p0 EXCEPT ![i] = e])
  <1> DEFINE P == DOMAIN p0
             p == [p0 EXCEPT ![i] = e]
  <1>1. i \in P /\ p0[i] \in PacingPolicy /\ p0[i].id = e.id
    BY PolicyOf
  <1>2. IdOf[e] = e.id /\ IdOf[p0[i]] = e.id
    BY <1>1 DEF IdOf
  <1>3. P \in SUBSET DOMAIN p0 /\ LiveOf(p0) \subseteq P /\ Unique(p0, IdOf, P)
    BY DEF LiveOf
  <1> HIDE DEF P
  <1>4. Overwrites(PacingPolicy, IdOf, p0, P, i, e, p)
    <2>1. IdOf[e] = IdOf[p0[i]]
      BY <1>2
    <2> QED
      BY <1>1, <1>3, <2>1, Overwritten
  <1>5. i \in DOMAIN p0 /\ p[i] = e /\ \A j \in DOMAIN p0 \ {i} : p[j] = p0[j]
    BY <1>1, <1>3
  <1> HIDE DEF p
  <1>6. DOMAIN p = DOMAIN p0 /\ DOMAIN p = P
    BY <1>4 DEF Overwrites, P
  <1>7. Keys(p, IdOf) = Keys(p0, IdOf) \cup {e.id}
    BY <1>2, <1>4, <1>5 DEF Overwrites, Keys
  <1>8. ASSUME NEW q \in PacingPolicy, PolicyKept(q, p0)
        PROVE  PolicyKept(q, p)
    <2>1. PICK j \in DOMAIN p0 : /\ p0[j].id = q.id
                                 /\ \/ p0[j].generation > q.generation
                                    \/ p0[j].generation = q.generation /\ (p0[j].live => p0[j] = q)
      BY <1>8 DEF PolicyKept
    <2>2. CASE j = i
      <3>1. e.generation > q.generation
        <4>1. p0[i].generation \in Nat /\ q.generation \in Nat /\ e.generation \in Nat
          BY <1>1 DEF PacingPolicy, Generation
        <4>2. p0[i].generation >= q.generation
          BY <2>1, <2>2, <4>1
        <4> QED
          BY <4>1, <4>2
      <3>2. p[i] = e /\ e.id = q.id /\ i \in DOMAIN p
        BY <1>1, <1>5, <1>6, <2>1, <2>2
      <3> QED
        BY <3>1, <3>2 DEF PolicyKept
    <2>3. CASE j # i
      BY <1>5, <1>6, <2>1, <2>3 DEF PolicyKept
    <2> QED
      BY <2>2, <2>3
  <1>9. /\ p \in Seq(PacingPolicy) /\ Len(p) <= MaxPolicies /\ Unique(p, IdOf, DOMAIN p)
        /\ Said(p) = Other(Said(p0), IdOf, e.id) \cup {e}
    BY <1>2, <1>4, <1>6 DEF Overwrites
  <1>10. PublishesTo(p0, e, p)
    BY <1>7, <1>8, <1>9 DEF PublishesTo
  <1> QED
    BY <1>10 DEF p

LEMMA Published ==
  ASSUME NEW p0 \in Seq(PacingPolicy), Len(p0) < MaxPolicies, Unique(p0, IdOf, DOMAIN p0),
         NEW e \in PacingPolicy, e.live = TRUE, AnyPolicy(p0, e.id) = {}
  PROVE  PublishesTo(p0, e, Append(p0, e))
  <1> DEFINE P == DOMAIN p0
             p == Append(p0, e)
  <1>1. IdOf[e] = e.id
    BY DEF IdOf
  <1>2. \A i \in P : IdOf[p0[i]] # IdOf[e]
    BY <1>1, PolicyOf
  <1>3. P \in SUBSET DOMAIN p0 /\ LiveOf(p0) \subseteq P /\ Unique(p0, IdOf, P)
    BY DEF LiveOf
  <1> HIDE DEF P
  <1>4. Adds(PacingPolicy, IdOf, p0, P, e, p)
    BY <1>2, <1>3, Added
  <1>5. \A j \in DOMAIN p0 : p[j] = p0[j]
    OBVIOUS
  <1> HIDE DEF p
  <1>6. DOMAIN p = P \cup {Len(p)} /\ DOMAIN p0 \subseteq DOMAIN p
    BY <1>4 DEF Adds, P
  <1>7. ASSUME NEW q \in PacingPolicy, PolicyKept(q, p0)
        PROVE  PolicyKept(q, p)
    BY <1>5, <1>6, <1>7 DEF PolicyKept
  <1>8. Len(p) <= MaxPolicies
    <2>1. Len(p) = Len(p0) + 1 /\ Len(p0) \in Nat
      BY <1>4 DEF Adds
    <2> QED
      BY <2>1, Limits
  <1>9. /\ p \in Seq(PacingPolicy) /\ Unique(p, IdOf, DOMAIN p)
        /\ Said(p) = Other(Said(p0), IdOf, e.id) \cup {e}
        /\ Keys(p, IdOf) = Keys(p0, IdOf) \cup {e.id}
    BY <1>1, <1>4, <1>6 DEF Adds
  <1>10. PublishesTo(p0, e, p)
    BY <1>7, <1>8, <1>9 DEF PublishesTo
  <1> QED
    BY <1>10 DEF p

LEMMA Removed ==
  ASSUME NEW p0 \in Seq(PacingPolicy), Len(p0) <= MaxPolicies, Unique(p0, IdOf, DOMAIN p0),
         NEW id, NEW p, p = Killed(p0, LivePolicy(p0, id))
  PROVE  /\ p \in Seq(PacingPolicy) /\ Len(p) <= MaxPolicies /\ Unique(p, IdOf, DOMAIN p)
         /\ Said(p) = Other(Said(p0), IdOf, id)
         /\ Keys(p, IdOf) = Keys(p0, IdOf)
         /\ \A q \in PacingPolicy : PolicyKept(q, p0) => PolicyKept(q, p)
  <1> DEFINE P == DOMAIN p0
             S == LivePolicy(p0, id)
  <1>1. S = {i \in LiveOf(p0) : IdOf[p0[i]] = id}
    BY EntriesById
  <1>2. P \in SUBSET DOMAIN p0 /\ Unique(p0, IdOf, P)
    OBVIOUS
  <1>3. Kills(PacingPolicy, IdOf, p0, P, id, S, p)
    <2> HIDE DEF P, S
    <2> QED
      BY <1>1, <1>2, EntriesOfRegistries, KilledEntries DEF S
  <1>4. DOMAIN p = P /\ \A j \in P : p[j] = IF j \in S THEN Dead(p0[j]) ELSE p0[j]
    BY <1>3 DEF Kills
  <1>5. \A j \in P : p0[j] \in PacingPolicy
    OBVIOUS
  <1>6. \A x \in PacingPolicy : /\ Dead(x).id = x.id /\ Dead(x).generation = x.generation
                                /\ Dead(x).live = FALSE
    BY DEF PacingPolicy, Dead
  <1>7. Unique(p, IdOf, DOMAIN p)
    BY <1>3, <1>4 DEF Kills
  <1>8. ASSUME NEW q \in PacingPolicy, PolicyKept(q, p0)
        PROVE  PolicyKept(q, p)
    <2> HIDE DEF S
    <2>1. PICK j \in P : /\ p0[j].id = q.id
                         /\ \/ p0[j].generation > q.generation
                            \/ p0[j].generation = q.generation /\ (p0[j].live => p0[j] = q)
      BY <1>8 DEF PolicyKept
    <2>2. CASE j \in S
      <3>1. p[j].id = p0[j].id /\ p[j].generation = p0[j].generation /\ ~p[j].live
        BY <1>4, <1>5, <1>6, <2>2
      <3> QED
        BY <1>4, <2>1, <3>1 DEF PolicyKept
    <2>3. CASE j \notin S
      BY <1>4, <2>1, <2>3 DEF PolicyKept
    <2> QED
      BY <2>2, <2>3
  <1> QED
    BY <1>3, <1>7, <1>8 DEF Kills

-----------------------------------------------------------------------------
(* The operations *)

\* What an operation leaves of what is held.
LEMMA HeldFrame ==
  ASSUME Inv, UNCHANGED <<held, epoch>>, unbound' \in BOOLEAN,
         Registry(bindings', policies'), Replays(bindings', policies', disk', lossy'),
         \A q \in PacingPolicy : PolicyKept(q, policies) => PolicyKept(q, policies'),
         \A q \in Binding : /\ ~unbound' => ~unbound
                            /\ held # None /\ q = held.binding /\ ~unbound' /\ BindingKept(q, bindings)
                                 => BindingKept(q, bindings')
  PROVE  Inv'
  <1>1. held # None => held.policy \in PacingPolicy /\ held.binding \in Binding
    BY DEF Inv, Envelope
  <1>2. HeldKept'
    BY <1>1 DEF Inv, HeldKept
  <1> QED
    BY <1>2 DEF Inv

LEMMA BindStep ==
  ASSUME Inv, NEW f \in Flow, NEW asked \in 0 .. MaxGeneration, NEW r \in Resource,
         NEW c \in BindingContent, bind_flow(f, asked, r, c)
  PROVE  Inv'
  <1> DEFINE Old == LiveBinding(bindings, f)
             i == Least(Old)
             Entry(g) == [flow |-> f, generation |-> g, resource |-> r, content |-> c,
                          live |-> TRUE]
  <1>1. /\ bindings \in Seq(Binding) /\ Len(bindings) <= MaxFlows
        /\ Unique(bindings, FlowOf, LiveOf(bindings))
    BY DEF Inv, Registry
  <1>2. \A g \in Generation : /\ Entry(g) \in Binding /\ Entry(g).live = TRUE
                              /\ Entry(g).flow = f /\ Entry(g).generation = g
    BY DEF Binding
  <1>3. UNCHANGED <<policies, held, unbound, epoch>>
    BY DEF bind_flow, history
  <1>4. \E e \in Binding : /\ e.live = TRUE /\ BindsTo(bindings, e, bindings')
                           /\ Journal(bindings', policies, "FlowBinding", e)
    <2>1. CASE /\ Old # {}
               /\ NextGeneration(asked, bindings[i].generation) <= MaxGeneration
               /\ bindings' = [bindings EXCEPT ![i] = Entry(NextGeneration(asked, bindings[i].generation))]
               /\ Journal(bindings', policies, "FlowBinding",
                          Entry(NextGeneration(asked, bindings[i].generation)))
      <3> DEFINE g == NextGeneration(asked, bindings[i].generation)
                 e == Entry(g)
      <3>1. bindings[i] \in Binding
        BY <1>1, <2>1, LiveBindingOf
      <3>2. bindings[i].generation \in Generation
        BY <3>1 DEF Binding
      <3>3. g \in Generation /\ g > bindings[i].generation
        BY <2>1, <3>2, Generations
      <3> HIDE DEF g, Entry
      <3>4. e \in Binding /\ e.live = TRUE /\ e.flow = f /\ e.generation > bindings[i].generation
        BY <1>2, <3>3
      <3>5. LiveBinding(bindings, e.flow) # {} /\ i = Least(LiveBinding(bindings, e.flow))
        BY <2>1, <3>4
      <3>6. bindings' = [bindings EXCEPT ![i] = e] /\ Journal(bindings', policies, "FlowBinding", e)
        BY <2>1 DEF g
      <3> HIDE DEF e, i, Old
      <3>7. BindsTo(bindings, e, [bindings EXCEPT ![i] = e])
        BY <1>1, <3>4, <3>5, Rebound
      <3> QED
        BY <3>4, <3>6, <3>7
    <2>2. CASE /\ Old = {}
               /\ Len(bindings) < MaxFlows
               /\ bindings' = Append(bindings, Entry(FirstGeneration(asked)))
               /\ Journal(bindings', policies, "FlowBinding", Entry(FirstGeneration(asked)))
      <3> DEFINE g == FirstGeneration(asked)
                 e == Entry(g)
      <3>1. g \in Generation
        BY Generations
      <3> HIDE DEF g, Entry
      <3>2. e \in Binding /\ e.live = TRUE /\ e.flow = f
        BY <1>2, <3>1
      <3>3. bindings' = Append(bindings, e) /\ Journal(bindings', policies, "FlowBinding", e)
        BY <2>2 DEF g
      <3>4. LiveBinding(bindings, e.flow) = {}
        BY <2>2, <3>2
      <3> HIDE DEF e, Old
      <3>5. BindsTo(bindings, e, Append(bindings, e))
        BY <1>1, <2>2, <3>2, <3>4, Bound
      <3> QED
        BY <3>2, <3>3, <3>5
    <2> QED
      BY <2>1, <2>2 DEF bind_flow
  <1>5. PICK e \in Binding : /\ e.live = TRUE /\ BindsTo(bindings, e, bindings')
                             /\ Journal(bindings', policies, "FlowBinding", e)
    BY <1>4
  <1> HIDE DEF Entry, i, Old
  <1>6. Registry(bindings', policies)
    BY <1>5 DEF Inv, Registry, BindsTo
  <1>7. Replays(bindings, policies, disk, lossy)
    BY DEF Inv
  <1>8. Replays(bindings', policies, disk', lossy')
    BY <1>5, <1>6, <1>7, JournalOfBinding DEF BindsTo
  <1>9. unbound' \in BOOLEAN
    BY <1>3 DEF Inv
  <1> QED
    BY <1>3, <1>5, <1>6, <1>8, <1>9, HeldFrame DEF BindsTo

LEMMA UnbindStep ==
  ASSUME Inv, NEW f \in Flow, unbind_flow(f)
  PROVE  Inv'
  <1>1. /\ bindings \in Seq(Binding) /\ Len(bindings) <= MaxFlows
        /\ Unique(bindings, FlowOf, LiveOf(bindings))
    BY DEF Inv, Registry
  <1>2. /\ LiveBinding(bindings, f) # {}
        /\ bindings' = Killed(bindings, {Least(LiveBinding(bindings, f))})
        /\ Journal(bindings', policies, "FlowUnbound", f)
        /\ unbound' = (unbound \/ (held # None /\ f = held.binding.flow))
        /\ UNCHANGED <<policies, held, epoch>>
    BY DEF unbind_flow
  <1>3. /\ bindings' \in Seq(Binding) /\ Len(bindings') <= MaxFlows
        /\ Unique(bindings', FlowOf, LiveOf(bindings'))
        /\ Said(bindings') = Other(Said(bindings), FlowOf, f)
        /\ Keys(bindings', FlowOf) = Keys(bindings, FlowOf)
        /\ \A q \in Binding : q.flow # f /\ BindingKept(q, bindings) => BindingKept(q, bindings')
    BY <1>1, <1>2, Unbound
  <1>4. Registry(bindings', policies)
    BY <1>3 DEF Inv, Registry
  <1>5. Replays(bindings, policies, disk, lossy)
    BY DEF Inv
  <1>6. Replays(bindings', policies, disk', lossy')
    BY <1>2, <1>3, <1>4, <1>5, JournalOfUnbinding
  <1>7. unbound' \in BOOLEAN
    BY <1>2 DEF Inv
  <1>8. \A q \in Binding : /\ ~unbound' => ~unbound
                           /\ held # None /\ q = held.binding /\ ~unbound' /\ BindingKept(q, bindings)
                                => BindingKept(q, bindings')
    BY <1>2, <1>3
  <1> QED
    BY <1>2, <1>4, <1>6, <1>7, <1>8, HeldFrame

LEMMA PublishStep ==
  ASSUME Inv, NEW id \in Policy, NEW asked \in 0 .. MaxGeneration, NEW scope \in Flow \cup Resource,
         NEW c \in PolicyContent, publish_policy(id, asked, scope, c)
  PROVE  Inv'
  <1> DEFINE Old == AnyPolicy(policies, id)
             i == Least(Old)
             Entry(g) == [id |-> id, generation |-> g, scope |-> scope, content |-> c,
                          live |-> TRUE]
  <1>1. /\ policies \in Seq(PacingPolicy) /\ Len(policies) <= MaxPolicies
        /\ Unique(policies, IdOf, DOMAIN policies)
    BY DEF Inv, Registry
  <1>2. \A g \in Generation : /\ Entry(g) \in PacingPolicy /\ Entry(g).live = TRUE
                              /\ Entry(g).id = id /\ Entry(g).generation = g
    BY DEF PacingPolicy
  <1>3. UNCHANGED <<bindings, held, unbound, epoch>>
    BY DEF publish_policy, history
  <1>4. \E e \in PacingPolicy : /\ e.live = TRUE /\ PublishesTo(policies, e, policies')
                                /\ Journal(bindings, policies', "Policy", e)
    <2>1. CASE /\ Old # {}
               /\ NextGeneration(asked, policies[i].generation) <= MaxGeneration
               /\ policies' = [policies EXCEPT ![i] = Entry(NextGeneration(asked, policies[i].generation))]
               /\ Journal(bindings, policies', "Policy",
                          Entry(NextGeneration(asked, policies[i].generation)))
      <3> DEFINE g == NextGeneration(asked, policies[i].generation)
                 e == Entry(g)
      <3>1. policies[i] \in PacingPolicy
        BY <1>1, <2>1, PolicyOf
      <3>2. policies[i].generation \in Generation
        BY <3>1 DEF PacingPolicy
      <3>3. g \in Generation /\ g > policies[i].generation
        BY <2>1, <3>2, Generations
      <3> HIDE DEF g, Entry
      <3>4. e \in PacingPolicy /\ e.live = TRUE /\ e.id = id /\ e.generation > policies[i].generation
        BY <1>2, <3>3
      <3>5. AnyPolicy(policies, e.id) # {} /\ i = Least(AnyPolicy(policies, e.id))
        BY <2>1, <3>4
      <3>6. policies' = [policies EXCEPT ![i] = e] /\ Journal(bindings, policies', "Policy", e)
        BY <2>1 DEF g
      <3> HIDE DEF e, i, Old
      <3>7. PublishesTo(policies, e, [policies EXCEPT ![i] = e])
        BY <1>1, <3>4, <3>5, Republished
      <3> QED
        BY <3>4, <3>6, <3>7
    <2>2. CASE /\ Old = {}
               /\ Len(policies) < MaxPolicies
               /\ policies' = Append(policies, Entry(FirstGeneration(asked)))
               /\ Journal(bindings, policies', "Policy", Entry(FirstGeneration(asked)))
      <3> DEFINE g == FirstGeneration(asked)
                 e == Entry(g)
      <3>1. g \in Generation
        BY Generations
      <3> HIDE DEF g, Entry
      <3>2. e \in PacingPolicy /\ e.live = TRUE /\ e.id = id
        BY <1>2, <3>1
      <3>3. policies' = Append(policies, e) /\ Journal(bindings, policies', "Policy", e)
        BY <2>2 DEF g
      <3>4. AnyPolicy(policies, e.id) = {}
        BY <2>2, <3>2
      <3> HIDE DEF e, Old
      <3>5. PublishesTo(policies, e, Append(policies, e))
        BY <1>1, <2>2, <3>2, <3>4, Published
      <3> QED
        BY <3>2, <3>3, <3>5
    <2> QED
      BY <2>1, <2>2 DEF publish_policy
  <1>5. PICK e \in PacingPolicy : /\ e.live = TRUE /\ PublishesTo(policies, e, policies')
                                  /\ Journal(bindings, policies', "Policy", e)
    BY <1>4
  <1> HIDE DEF Entry, i, Old
  <1>6. Registry(bindings, policies')
    BY <1>5 DEF Inv, Registry, PublishesTo
  <1>7. Replays(bindings, policies, disk, lossy)
    BY DEF Inv
  <1>8. Replays(bindings, policies', disk', lossy')
    BY <1>5, <1>6, <1>7, JournalOfPolicy DEF PublishesTo
  <1>9. unbound' \in BOOLEAN
    BY <1>3 DEF Inv
  <1> QED
    BY <1>3, <1>5, <1>6, <1>8, <1>9, HeldFrame DEF PublishesTo

LEMMA RemoveStep ==
  ASSUME Inv, NEW id \in Policy, remove_policy(id)
  PROVE  Inv'
  <1>1. /\ policies \in Seq(PacingPolicy) /\ Len(policies) <= MaxPolicies
        /\ Unique(policies, IdOf, DOMAIN policies)
    BY DEF Inv, Registry
  <1>2. /\ policies' = Killed(policies, LivePolicy(policies, id))
        /\ Journal(bindings, policies', "PolicyRemoved", id)
        /\ UNCHANGED <<bindings, held, unbound, epoch>>
    BY DEF remove_policy, history
  <1>3. /\ policies' \in Seq(PacingPolicy) /\ Len(policies') <= MaxPolicies
        /\ Unique(policies', IdOf, DOMAIN policies')
        /\ Said(policies') = Other(Said(policies), IdOf, id)
        /\ Keys(policies', IdOf) = Keys(policies, IdOf)
        /\ \A q \in PacingPolicy : PolicyKept(q, policies) => PolicyKept(q, policies')
    BY <1>1, <1>2, Removed
  <1>4. Registry(bindings, policies')
    BY <1>3 DEF Inv, Registry
  <1>5. Replays(bindings, policies, disk, lossy)
    BY DEF Inv
  <1>6. Replays(bindings, policies', disk', lossy')
    BY <1>2, <1>3, <1>4, <1>5, JournalOfRemoval
  <1>7. unbound' \in BOOLEAN
    BY <1>2 DEF Inv
  <1> QED
    BY <1>2, <1>3, <1>4, <1>6, <1>7, HeldFrame

\* What is resolved is a live policy.
LEMMA ResolvedIsLive ==
  ASSUME NEW p \in Seq(PacingPolicy), NEW f, NEW r
  PROVE  Resolve(f, r, p) \subseteq LiveOf(p)
  <1> DEFINE Applies == {i \in LiveOf(p) : p[i].scope \in {f, r}}
             OfFlow  == {i \in Applies : p[i].scope = f}
             Newest  == {i \in Applies : \A j \in Applies : p[j].generation <= p[i].generation}
  <1>1. DOMAIN p = 1 .. Len(p) /\ Len(p) \in Nat
    OBVIOUS
  <1>2. OfFlow \in SUBSET DOMAIN p /\ Newest \in SUBSET DOMAIN p
    BY DEF LiveOf
  <1>3. OfFlow \subseteq LiveOf(p) /\ Newest \subseteq LiveOf(p)
    OBVIOUS
  <1>4. Resolve(f, r, p) = IF OfFlow # {} THEN {Least(OfFlow)}
                           ELSE IF Newest # {} THEN {Least(Newest)} ELSE {}
    BY DEF Resolve
  <1> HIDE DEF OfFlow, Newest
  <1>5. /\ OfFlow # {} => Least(OfFlow) \in OfFlow
        /\ Newest # {} => Least(Newest) \in Newest
    BY <1>1, <1>2, LeastPosition
  <1> QED
    BY <1>3, <1>4, <1>5

\* What is captured of a flow is in force.
LEMMA AuthorityOf ==
  ASSUME Inv, NEW f, NEW a \in Authority(f)
  PROVE  /\ a \in Envelope /\ a.epoch = epoch /\ a.binding.flow = f
         /\ \E i \in LiveOf(bindings) : a.binding = bindings[i]
         /\ \E j \in LiveOf(policies) : a.policy = policies[j]
  <1>1. /\ bindings \in Seq(Binding) /\ policies \in Seq(PacingPolicy) /\ epoch \in Nat
    BY GovernanceAssumption DEF Inv, Registry
  <1>2. PICK i \in LiveBinding(bindings, f) :
          \E j \in Resolve(f, bindings[i].resource, policies) :
            a = [binding |-> bindings[i], policy |-> policies[j], epoch |-> epoch]
    BY DEF Authority
  <1>3. PICK j \in Resolve(f, bindings[i].resource, policies) :
          a = [binding |-> bindings[i], policy |-> policies[j], epoch |-> epoch]
    BY <1>2
  <1>4. j \in LiveOf(policies)
    BY <1>1, ResolvedIsLive
  <1>5. i \in LiveOf(bindings) /\ bindings[i].flow = f
    BY DEF LiveBinding
  <1>6. bindings[i] \in Binding /\ policies[j] \in PacingPolicy
    BY <1>1, <1>4, <1>5 DEF LiveOf
  <1> QED
    BY <1>1, <1>3, <1>4, <1>5, <1>6 DEF Envelope

LEMMA DeriveStep ==
  ASSUME Inv, NEW f \in Flow, derive_envelope(f)
  PROVE  Inv'
  <1>1. /\ held' \in Authority(f) /\ unbound' = FALSE
        /\ UNCHANGED <<bindings, policies, disk, lossy, epoch>>
    BY DEF derive_envelope, memory
  <1>2. /\ held' \in Envelope /\ held'.epoch = epoch
        /\ \E i \in LiveOf(bindings) : held'.binding = bindings[i]
        /\ \E j \in LiveOf(policies) : held'.policy = policies[j]
    BY <1>1, AuthorityOf
  <1>3. BindingKept(held'.binding, bindings)
    BY <1>2 DEF BindingKept
  <1>4. PolicyKept(held'.policy, policies)
    BY <1>2 DEF PolicyKept, LiveOf
  <1>5. epoch \in Nat
    BY GovernanceAssumption DEF Inv
  <1>6. HeldKept'
    BY <1>1, <1>2, <1>3, <1>4, <1>5 DEF HeldKept
  <1> QED
    BY <1>1, <1>2, <1>6 DEF Inv

LEMMA RestartStep ==
  ASSUME Inv, Restart
  PROVE  Inv'
  <1> DEFINE b == disk.bindings
             p == disk.policies
  <1>1. /\ epoch < MaxEpoch /\ epoch' = epoch + 1
        /\ bindings' = b /\ policies' = p /\ lossy' = FALSE
        /\ disk' \in {disk, Checkpoint(b, p)}
        /\ UNCHANGED <<held, unbound>>
    BY DEF Restart, history
  <1>2. /\ disk \in Files
        /\ b \in Seq(Binding) /\ Len(b) <= MaxFlows /\ Unique(b, FlowOf, DOMAIN b)
        /\ p \in Seq(PacingPolicy) /\ Len(p) <= MaxPolicies /\ Unique(p, IdOf, DOMAIN p)
    BY DEF Inv, Replays, Mirror
  <1> HIDE DEF b, p
  <1>3. Unique(b, FlowOf, LiveOf(b))
    BY <1>2 DEF Unique, LiveOf
  <1>4. Registry(b, p)
    BY <1>2, <1>3 DEF Registry
  <1>5. Replays(b, p, disk, FALSE)
    BY <1>2 DEF Replays, Mirror, b, p
  <1>6. Replays(b, p, Checkpoint(b, p), FALSE)
    BY <1>4, CheckpointReplays
  <1>7. Replays(bindings', policies', disk', lossy')
    BY <1>1, <1>5, <1>6
  <1>8. epoch' \in 1 .. MaxEpoch
    BY <1>1, GovernanceAssumption DEF Inv
  <1>9. HeldKept'
    <2>1. epoch \in Nat /\ (held # None => held \in Envelope /\ held.epoch <= epoch)
      BY GovernanceAssumption DEF Inv, HeldKept
    <2>2. held # None => held.epoch < epoch'
      <3>1. held # None => held.epoch \in Nat
        BY <2>1 DEF Envelope
      <3> QED
        BY <1>1, <2>1, <3>1
    <2>3. held # None => held.epoch <= epoch' /\ held.epoch # epoch'
      <3>1. held # None => held.epoch \in Nat
        BY <2>1 DEF Envelope
      <3> QED
        BY <1>1, <2>1, <2>2, <3>1
    <2> QED
      BY <1>1, <2>3 DEF HeldKept
  <1> QED
    BY <1>1, <1>4, <1>7, <1>8, <1>9 DEF Inv

LEMMA StutterStep ==
  ASSUME Inv, UNCHANGED vars
  PROVE  Inv'
  <1>1. UNCHANGED <<bindings, policies, disk, lossy, held, unbound, epoch>>
    BY DEF vars, memory, history
  <1> QED
    BY <1>1 DEF Inv, HeldKept

LEMMA InitInv ==
  ASSUME Init
  PROVE  Inv
  <1>1. /\ bindings = <<>> /\ policies = <<>> /\ disk = [bindings |-> <<>>, policies |-> <<>>]
        /\ lossy = FALSE /\ held = None /\ unbound = FALSE /\ epoch = 1
    BY DEF Init
  <1>2. /\ <<>> \in Seq(Binding) /\ <<>> \in Seq(PacingPolicy)
        /\ Len(<<>>) = 0 /\ DOMAIN <<>> = {}
    OBVIOUS
  <1>3. LiveOf(<<>>) = {}
    BY <1>2 DEF LiveOf
  <1>4. 0 <= MaxFlows /\ 0 <= MaxPolicies
    BY Limits
  <1>5. Registry(bindings, policies)
    BY <1>1, <1>2, <1>3, <1>4 DEF Registry, Unique
  <1>6. Mirror(bindings, disk.bindings, Binding, FlowOf, MaxFlows)
    BY <1>1, <1>2, <1>4 DEF Mirror, Unique, Keys
  <1>7. Mirror(policies, disk.policies, PacingPolicy, IdOf, MaxPolicies)
    BY <1>1, <1>2, <1>4 DEF Mirror, Unique, Keys
  <1>8. disk \in Files
    BY <1>1, <1>2 DEF Files
  <1>9. Replays(bindings, policies, disk, lossy)
    BY <1>1, <1>6, <1>7, <1>8 DEF Replays
  <1>10. epoch \in 1 .. MaxEpoch
    BY <1>1, GovernanceAssumption
  <1> QED
    BY <1>1, <1>5, <1>9, <1>10 DEF Inv, HeldKept

\* The strengthening that every operation on the registries and every restart keeps.
THEOREM Invariance == Spec => []Inv
  <1>1. Init => Inv
    BY InitInv
  <1>2. Inv /\ [Next]_vars => Inv'
    BY BindStep, UnbindStep, DeriveStep, PublishStep, RemoveStep, RestartStep, StutterStep
       DEF Next
  <1> QED
    BY <1>1, <1>2, PTL DEF Spec

-----------------------------------------------------------------------------
(* What follows *)

\* bind_flow, publish_policy, their replay and every checkpoint keep the registries and
\* the files to their types and limits.
THEOREM TypeCorrect == Spec => []TypeOK
  <1>1. Inv => TypeOK
    BY DEF Inv, Registry, Replays, Mirror, TypeOK
  <1> QED
    BY <1>1, Invariance, PTL

\* compare_authority, which looks at the id and the generation of a policy, tells
\* whether the policy that was captured governs now.
THEOREM PolicyMatchesExactly == Spec => []PolicyMatchIsExact
  <1>1. Inv => PolicyMatchIsExact
    <2> SUFFICES ASSUME Inv, held # None, NEW a \in Authority(held.binding.flow), Matches(held, a)
                 PROVE  held.policy = a.policy
      BY DEF PolicyMatchIsExact
    <2>1. /\ a.epoch = epoch
          /\ \E j \in LiveOf(policies) : a.policy = policies[j]
      BY AuthorityOf
    <2>2. PICK j \in LiveOf(policies) : a.policy = policies[j]
      BY <2>1
    <2>3. /\ held.epoch = epoch /\ held.policy.id = a.policy.id
          /\ held.policy.generation = a.policy.generation
      BY <2>1 DEF Matches, PolicyMatches
    <2>4. PICK i \in DOMAIN policies :
            /\ policies[i].id = held.policy.id
            /\ \/ policies[i].generation > held.policy.generation
               \/ /\ policies[i].generation = held.policy.generation
                  /\ policies[i].live => policies[i] = held.policy
      BY <2>3 DEF Inv, HeldKept, PolicyKept
    <2>5. policies \in Seq(PacingPolicy) /\ Unique(policies, IdOf, DOMAIN policies)
      BY DEF Inv, Registry
    <2>6. j \in DOMAIN policies /\ policies[j].live
      BY DEF LiveOf
    <2>7. policies[i] \in PacingPolicy /\ policies[j] \in PacingPolicy
      BY <2>5, <2>6
    <2>8. IdOf[policies[i]] = IdOf[policies[j]]
      BY <2>2, <2>3, <2>4, <2>7 DEF IdOf
    <2>9. i = j
      BY <2>5, <2>6, <2>8 DEF Unique
    <2>10. policies[i].generation \in Nat /\ held.policy.generation = policies[i].generation
      BY <2>2, <2>3, <2>7, <2>9 DEF PacingPolicy, Generation
    <2> QED
      BY <2>2, <2>4, <2>6, <2>9, <2>10
  <1> QED
    BY <1>1, Invariance, PTL

\* The same for a binding, unless its flow was unbound since: a flow that is bound anew
\* starts at the first generation.
THEOREM BindingMatchesExactly == Spec => []BindingMatchIsExact
  <1>1. Inv => BindingMatchIsExact
    <2> SUFFICES ASSUME Inv, held # None, ~unbound,
                        NEW a \in Authority(held.binding.flow), Matches(held, a)
                 PROVE  held.binding = a.binding
      BY DEF BindingMatchIsExact
    <2>1. /\ a.epoch = epoch
          /\ \E j \in LiveOf(bindings) : a.binding = bindings[j]
      BY AuthorityOf
    <2>2. PICK j \in LiveOf(bindings) : a.binding = bindings[j]
      BY <2>1
    <2>3. /\ held.epoch = epoch /\ held.binding.flow = a.binding.flow
          /\ held.binding.generation = a.binding.generation
      BY <2>1 DEF Matches
    <2>4. PICK i \in LiveOf(bindings) :
            /\ bindings[i].flow = held.binding.flow
            /\ \/ bindings[i].generation > held.binding.generation
               \/ bindings[i] = held.binding
      BY <2>3 DEF Inv, HeldKept, BindingKept
    <2>5. bindings \in Seq(Binding) /\ Unique(bindings, FlowOf, LiveOf(bindings))
      BY DEF Inv, Registry
    <2>6. bindings[i] \in Binding /\ bindings[j] \in Binding
      BY <2>5 DEF LiveOf
    <2>7. FlowOf[bindings[i]] = FlowOf[bindings[j]]
      BY <2>2, <2>3, <2>4, <2>6 DEF FlowOf
    <2>8. i = j
      BY <2>5, <2>7 DEF Unique
    <2>9. bindings[i].generation \in Nat /\ held.binding.generation = bindings[i].generation
      BY <2>2, <2>3, <2>6, <2>8 DEF Binding, Generation
    <2> QED
      BY <2>2, <2>4, <2>8, <2>9
  <1> QED
    BY <1>1, Invariance, PTL

\* bind_flow never leaves two bindings of a flow in force, however dead entries and
\* recovered ones are spread over the vector.
THEOREM BindingsAreSingle == Spec => []OneLiveBinding
  <1>1. Inv => OneLiveBinding
    <2> SUFFICES ASSUME Inv, NEW f \in Flow
                 PROVE  Cardinality(LiveBinding(bindings, f)) <= 1
      BY DEF OneLiveBinding
    <2>1. bindings \in Seq(Binding) /\ Unique(bindings, FlowOf, LiveOf(bindings))
      BY DEF Inv, Registry
    <2>2. CASE LiveBinding(bindings, f) = {}
      BY <2>2, FS_EmptySet
    <2>3. CASE LiveBinding(bindings, f) # {}
      <3>1. LiveBinding(bindings, f) = {Least(LiveBinding(bindings, f))}
        BY <2>1, <2>3, LiveBindingOf
      <3> QED
        BY <3>1, FS_Singleton
    <2> QED
      BY <2>2, <2>3
  <1> QED
    BY <1>1, Invariance, PTL

\* A replay of the journal, with or without checkpoints in between, delivers what the
\* registries in memory say, unless an append was refused.
THEOREM ReplayDeliversMemory == Spec => []ReplayIsMemory
  <1>1. Inv => ReplayIsMemory
    BY DEF Inv, Replays, ReplayIsMemory, Said
  <1> QED
    BY <1>1, Invariance, PTL

=============================================================================
