-------------------------- MODULE EnvelopeTableProofs --------------------------
(***************************************************************************)
(* Proofs about EnvelopeTable, for tables, scan windows and compaction     *)
(* floors of any size, and any number of attempts and restarts.            *)
(*                                                                         *)
(* The inductive invariant Inv says of the table that its ids are          *)
(* distinct, dead entries included, that the index of ids is exactly that  *)
(* of the live entries, that the index of flows has the newest live entry  *)
(* of each flow it knows, and that the dead entries are counted; of the    *)
(* files that their ids are distinct as well; and of both that no id is    *)
(* still to be minted.                                                     *)
(***************************************************************************)
EXTENDS EnvelopeTable, VectorLemmas

-----------------------------------------------------------------------------
(* The inductive invariant *)

DistinctIds(s) == \A i, j \in DOMAIN s : s[i].id = s[j].id => i = j

Vector(es) == es \in Seq(Entry) /\ DistinctIds(es)

IndexOf(es, ix) ==
  /\ DOMAIN ix = {es[i].id : i \in LiveOf(es)}
  /\ ix \in [DOMAIN ix -> DOMAIN es]
  /\ \A i \in LiveOf(es) : ix[es[i].id] = i

LatestOf(es, la) ==
  /\ DOMAIN la \subseteq Flow
  /\ la \in [DOMAIN la -> DOMAIN es]
  /\ \A f \in DOMAIN la : /\ la[f] \in LiveOf(es) /\ es[la[f]].flow = f
                          /\ \A j \in LiveOf(es) : es[j].flow = f => j <= la[f]

DeadOf(es, n) == n = Cardinality(DOMAIN es \ LiveOf(es))

Table(t) ==
  /\ t = [entries |-> t.entries, index |-> t.index, latest |-> t.latest,
          dead |-> t.dead, hint |-> t.hint]
  /\ Vector(t.entries) /\ IndexOf(t.entries, t.index) /\ LatestOf(t.entries, t.latest)
  /\ DeadOf(t.entries, t.dead) /\ t.hint \in Nat

\* The files hold each envelope once.
Replayable(fs) == fs \in Seq(Envelope) /\ DistinctIds(fs)

Minted(s, n) == \A i \in DOMAIN s : s[i].id <= n

Inv ==
  /\ Table(tab) /\ Minted(tab.entries, minted)
  /\ Replayable(files) /\ Minted(files, minted)
  /\ minted \in Nat /\ attempts \in Seq(Attempt) /\ epoch \in 1 .. MaxEpoch

-----------------------------------------------------------------------------
(* Positions *)

LEMMA VectorFacts ==
  ASSUME NEW es \in Seq(Entry)
  PROVE  /\ Len(es) \in Nat /\ DOMAIN es = 1 .. Len(es)
         /\ \A i \in DOMAIN es : es[i] \in Entry /\ i \in Nat \ {0}
         /\ LiveOf(es) \subseteq DOMAIN es /\ \A i \in DOMAIN es : i \in LiveOf(es) <=> es[i].live
  <1>1. Len(es) \in Nat /\ DOMAIN es = 1 .. Len(es) /\ \A i \in DOMAIN es : es[i] \in Entry
    OBVIOUS
  <1> QED
    BY <1>1 DEF LiveOf

LEMMA LeastOf ==
  ASSUME NEW S \in SUBSET Nat, S # {}
  PROVE  Least(S) \in S /\ \A i \in S : Least(S) <= i
  BY LeastNatural DEF Least

LEMMA GreatestOf ==
  ASSUME NEW N \in Nat, NEW S \in SUBSET (1 .. N), S # {}
  PROVE  Greatest(S) \in S /\ \A i \in S : i <= Greatest(S)
  BY LastPosition DEF Greatest

-----------------------------------------------------------------------------
(* The vector and its two indexes *)

\* A live entry with a new id is added.
LEMMA PushedTable ==
  ASSUME NEW t, Table(t), NEW e \in Entry, e.live = TRUE,
         \A i \in DOMAIN t.entries : t.entries[i].id # e.id
  PROVE  /\ Table(Pushed(t, e))
         /\ Pushed(t, e).entries = Append(t.entries, e)
  <1> DEFINE es == t.entries
             n == Len(es) + 1
             fs == Append(es, e)
             ix == [id \in DOMAIN t.index \cup {e.id} |-> IF id = e.id THEN n ELSE t.index[id]]
             la == [f \in DOMAIN t.latest \cup {e.flow} |-> IF f = e.flow THEN n ELSE t.latest[f]]
  <1>1. /\ t = [entries |-> es, index |-> t.index, latest |-> t.latest,
                dead |-> t.dead, hint |-> t.hint]
        /\ es \in Seq(Entry) /\ DistinctIds(es) /\ IndexOf(es, t.index) /\ LatestOf(es, t.latest)
        /\ DeadOf(es, t.dead) /\ t.hint \in Nat
    BY DEF Table, Vector
  <1>2. Pushed(t, e) = [entries |-> fs, index |-> ix, latest |-> la,
                        dead |-> t.dead, hint |-> t.hint]
    <2>1. Pushed(t, e) = [t EXCEPT !.entries = fs, !.index = ix, !.latest = la]
      BY DEF Pushed
    <2> HIDE DEF fs, ix, la
    <2> QED
      BY <1>1, <2>1
  <1>3. /\ Len(es) \in Nat /\ DOMAIN es = 1 .. Len(es)
        /\ \A i \in DOMAIN es : es[i] \in Entry /\ i \in Nat \ {0}
        /\ LiveOf(es) \subseteq DOMAIN es
    BY <1>1, VectorFacts
  <1>4. /\ fs \in Seq(Entry) /\ DOMAIN fs = DOMAIN es \cup {n} /\ n \notin DOMAIN es
        /\ fs[n] = e /\ \A i \in DOMAIN es : fs[i] = es[i]
    BY <1>1, <1>3
  <1>5. n \in Nat \ {0} /\ \A i \in DOMAIN es : i < n
    BY <1>3
  <1> HIDE DEF es, fs, n
  <1>6. LiveOf(fs) = LiveOf(es) \cup {n}
    BY <1>4 DEF LiveOf
  <1>7. DistinctIds(fs)
    BY <1>1, <1>4 DEF DistinctIds, es
  <1>8. IndexOf(fs, ix)
    <2>1. /\ DOMAIN t.index = {es[i].id : i \in LiveOf(es)}
          /\ t.index \in [DOMAIN t.index -> DOMAIN es]
          /\ \A i \in LiveOf(es) : t.index[es[i].id] = i
      BY <1>1 DEF IndexOf
    <2>2. DOMAIN ix = DOMAIN t.index \cup {e.id}
      OBVIOUS
    <2>3. \A i \in LiveOf(es) : es[i].id # e.id
      BY <1>3 DEF es
    <2>4. DOMAIN ix = {fs[i].id : i \in LiveOf(fs)}
      BY <1>3, <1>4, <1>6, <2>1, <2>2
    <2>5. ix \in [DOMAIN ix -> DOMAIN fs]
      BY <1>4, <2>1
    <2>6. \A i \in LiveOf(fs) : ix[fs[i].id] = i
      <3>1. ix[e.id] = n
        OBVIOUS
      <3>2. \A i \in LiveOf(es) : ix[es[i].id] = i
        BY <2>1, <2>3
      <3> HIDE DEF ix
      <3> QED
        BY <1>3, <1>4, <1>6, <3>1, <3>2
    <2> HIDE DEF ix
    <2> QED
      BY <2>4, <2>5, <2>6 DEF IndexOf
  <1>9. LatestOf(fs, la)
    <2>1. /\ DOMAIN t.latest \subseteq Flow
          /\ t.latest \in [DOMAIN t.latest -> DOMAIN es]
          /\ \A f \in DOMAIN t.latest :
               /\ t.latest[f] \in LiveOf(es) /\ es[t.latest[f]].flow = f
               /\ \A j \in LiveOf(es) : es[j].flow = f => j <= t.latest[f]
      BY <1>1 DEF LatestOf
    <2>2. e.flow \in Flow
      BY DEF Entry
    <2>3. DOMAIN la \subseteq Flow /\ la \in [DOMAIN la -> DOMAIN fs]
      BY <1>4, <2>1, <2>2
    <2>4. la[e.flow] = n
      OBVIOUS
    <2>5. \A f \in DOMAIN la : f # e.flow => f \in DOMAIN t.latest /\ la[f] = t.latest[f]
      OBVIOUS
    <2> HIDE DEF la
    <2>6. ASSUME NEW f \in DOMAIN la
          PROVE  /\ la[f] \in LiveOf(fs) /\ fs[la[f]].flow = f
                 /\ \A j \in LiveOf(fs) : fs[j].flow = f => j <= la[f]
      <3>1. CASE f = e.flow
        <4>1. \A j \in LiveOf(fs) : j <= n
          BY <1>3, <1>5, <1>6
        <4> QED
          BY <1>4, <1>6, <2>4, <3>1, <4>1
      <3>2. CASE f # e.flow
        <4>1. /\ la[f] \in LiveOf(es) /\ es[la[f]].flow = f
              /\ \A j \in LiveOf(es) : es[j].flow = f => j <= la[f]
          BY <2>1, <2>5, <3>2
        <4> QED
          BY <1>3, <1>4, <1>6, <3>2, <4>1
      <3> QED
        BY <3>1, <3>2
    <2> QED
      BY <2>3, <2>6 DEF LatestOf
  <1>10. DeadOf(fs, t.dead)
    <2>1. DOMAIN fs \ LiveOf(fs) = DOMAIN es \ LiveOf(es)
      BY <1>3, <1>4, <1>6
    <2> QED
      BY <1>1, <2>1 DEF DeadOf
  <1> HIDE DEF ix, la
  <1>11. Table(Pushed(t, e)) /\ Pushed(t, e).entries = fs
    BY <1>1, <1>2, <1>4, <1>7, <1>8, <1>9, <1>10 DEF Table, Vector
  <1> QED
    BY <1>11 DEF fs, es

\* A vector of live entries is indexed.
LEMMA IndexedTable ==
  ASSUME NEW es \in Seq(Entry), DistinctIds(es), LiveOf(es) = DOMAIN es
  PROVE  Table(Indexed(es)) /\ Indexed(es).entries = es
  <1> DEFINE Of(f) == {i \in DOMAIN es : es[i].flow = f}
             Id(id) == {i \in DOMAIN es : es[i].id = id}
             ix == [id \in {es[i].id : i \in DOMAIN es} |-> Greatest(Id(id))]
             la == [f \in {es[i].flow : i \in DOMAIN es} |-> Greatest(Of(f))]
  <1>1. Indexed(es) = [entries |-> es, index |-> ix, latest |-> la, dead |-> 0, hint |-> 0]
    BY DEF Indexed
  <1>2. /\ Len(es) \in Nat /\ DOMAIN es = 1 .. Len(es)
        /\ \A i \in DOMAIN es : es[i] \in Entry /\ i \in Nat \ {0}
    BY VectorFacts
  <1>3. IndexOf(es, ix)
    <2>1. ASSUME NEW i \in DOMAIN es
          PROVE  ix[es[i].id] = i
      <3>1. Id(es[i].id) \in SUBSET (1 .. Len(es)) /\ i \in Id(es[i].id)
        BY <1>2
      <3>2. Greatest(Id(es[i].id)) \in Id(es[i].id)
        <4> HIDE DEF Id
        <4> QED
          BY <1>2, <3>1, GreatestOf
      <3>3. Greatest(Id(es[i].id)) = i
        BY <3>2 DEF DistinctIds
      <3> HIDE DEF Id
      <3> QED
        BY <3>3
    <2>2. DOMAIN ix = {es[i].id : i \in DOMAIN es}
      OBVIOUS
    <2> HIDE DEF ix
    <2>3. ix \in [DOMAIN ix -> DOMAIN es]
      <3>1. \A id \in DOMAIN ix : ix[id] \in DOMAIN es
        BY <2>1, <2>2
      <3>2. ix = [id \in DOMAIN ix |-> ix[id]]
        BY DEF ix
      <3> QED
        BY <3>1, <3>2
    <2> QED
      BY <2>1, <2>2, <2>3 DEF IndexOf
  <1>4. LatestOf(es, la)
    <2>1. ASSUME NEW f, f \in DOMAIN la
          PROVE  /\ la[f] \in DOMAIN es /\ es[la[f]].flow = f
                 /\ \A j \in DOMAIN es : es[j].flow = f => j <= la[f]
      <3>1. la[f] = Greatest(Of(f)) /\ \E i \in DOMAIN es : es[i].flow = f
        BY <2>1
      <3>2. Of(f) \in SUBSET (1 .. Len(es)) /\ Of(f) # {}
        BY <1>2, <3>1
      <3>3. Greatest(Of(f)) \in Of(f) /\ \A i \in Of(f) : i <= Greatest(Of(f))
        <4> HIDE DEF Of
        <4> QED
          BY <1>2, <3>2, GreatestOf
      <3> HIDE DEF la
      <3> QED
        BY <3>1, <3>3
    <2>2. DOMAIN la \subseteq Flow
      BY <1>2 DEF Entry
    <2>3. la = [f \in DOMAIN la |-> la[f]]
      OBVIOUS
    <2> HIDE DEF la
    <2>4. la \in [DOMAIN la -> DOMAIN es]
      BY <2>1, <2>3
    <2> QED
      BY <2>1, <2>2, <2>4 DEF LatestOf
  <1>5. DeadOf(es, 0)
    <2>1. DOMAIN es \ LiveOf(es) = {}
      OBVIOUS
    <2> QED
      BY <2>1, FS_EmptySet DEF DeadOf
  <1> HIDE DEF ix, la
  <1> QED
    BY <1>1, <1>3, <1>4, <1>5 DEF Table, Vector

-----------------------------------------------------------------------------
(* Eviction and compaction *)

Ids(s)     == {s[i].id : i \in DOMAIN s}
LiveIds(t) == {t.entries[i].id : i \in LiveOf(t.entries)}

\* u is t, but for envelopes none of whose attempts is open.
Sheds(t, u) ==
  /\ Table(u)
  /\ Ids(u.entries) \subseteq Ids(t.entries) /\ LiveIds(u) \subseteq LiveIds(t)
  /\ \A i \in LiveOf(t.entries) : t.entries[i].id \notin LiveIds(u) => Evictable(t.entries[i])

\* A live entry dies.
LEMMA EvictedTable ==
  ASSUME NEW t, Table(t), NEW i \in LiveOf(t.entries)
  PROVE  /\ Table(Evicted(t, i))
         /\ Ids(Evicted(t, i).entries) = Ids(t.entries)
         /\ LiveIds(Evicted(t, i)) = LiveIds(t) \ {t.entries[i].id}
  <1> DEFINE es == t.entries
             e  == es[i]
             fs == [es EXCEPT ![i] = [e EXCEPT !.live = FALSE]]
             ix == [id \in DOMAIN t.index \ {e.id} |-> t.index[id]]
             la == [f \in {g \in DOMAIN t.latest : t.latest[g] # i} |-> t.latest[f]]
  <1>1. /\ t = [entries |-> es, index |-> t.index, latest |-> t.latest,
                dead |-> t.dead, hint |-> t.hint]
        /\ es \in Seq(Entry) /\ DistinctIds(es) /\ IndexOf(es, t.index) /\ LatestOf(es, t.latest)
        /\ DeadOf(es, t.dead) /\ t.hint \in Nat
    BY DEF Table, Vector
  <1>2. Evicted(t, i) = [entries |-> fs, index |-> ix, latest |-> la,
                         dead |-> t.dead + 1, hint |-> i]
    <2>1. Evicted(t, i) = [t EXCEPT !.entries = fs, !.index = ix, !.latest = la,
                                    !.dead = t.dead + 1, !.hint = i]
      BY <1>1 DEF Evicted
    <2> HIDE DEF fs, ix, la
    <2> QED
      BY <1>1, <2>1
  <1>3. /\ Len(es) \in Nat /\ DOMAIN es = 1 .. Len(es)
        /\ \A j \in DOMAIN es : es[j] \in Entry /\ j \in Nat \ {0}
        /\ LiveOf(es) \subseteq DOMAIN es
        /\ \A j \in DOMAIN es : j \in LiveOf(es) <=> es[j].live
    BY <1>1, VectorFacts
  <1>4. [e EXCEPT !.live = FALSE] \in Entry
    BY <1>3 DEF Entry
  <1>5. /\ fs \in Seq(Entry) /\ DOMAIN fs = DOMAIN es
        /\ \A j \in DOMAIN es : j # i => fs[j] = es[j]
        /\ fs[i].live = FALSE /\ fs[i].id = e.id /\ fs[i].flow = e.flow
    <2>1. fs \in Seq(Entry) /\ DOMAIN fs = DOMAIN es
      BY <1>1, <1>3, <1>4
    <2>2. /\ \A j \in DOMAIN es : j # i => fs[j] = es[j]
          /\ fs[i] = [e EXCEPT !.live = FALSE]
      BY <1>3
    <2>3. e \in Entry
      BY <1>3
    <2> QED
      BY <2>1, <2>2, <2>3 DEF Entry
  <1> HIDE DEF es, fs
  <1>6. i \in DOMAIN es
    BY <1>3 DEF es
  <1>7. LiveOf(fs) = LiveOf(es) \ {i}
    <2>1. \A j \in DOMAIN es : j # i => (j \in LiveOf(fs) <=> j \in LiveOf(es))
      BY <1>5 DEF LiveOf
    <2>2. i \notin LiveOf(fs) /\ LiveOf(fs) \subseteq DOMAIN es
      BY <1>5 DEF LiveOf
    <2> QED
      BY <1>3, <2>1, <2>2
  <1>8. \A j \in DOMAIN es : fs[j].id = es[j].id /\ fs[j].flow = es[j].flow
    BY <1>5
  <1>9. DistinctIds(fs) /\ Ids(fs) = Ids(es)
    BY <1>1, <1>5, <1>8 DEF DistinctIds, Ids
  <1>10. \A j \in LiveOf(es) : es[j].id = e.id <=> j = i
    BY <1>1, <1>3, <1>6 DEF DistinctIds
  <1>11. IndexOf(fs, ix)
    <2>1. /\ DOMAIN t.index = {es[j].id : j \in LiveOf(es)}
          /\ t.index \in [DOMAIN t.index -> DOMAIN es]
          /\ \A j \in LiveOf(es) : t.index[es[j].id] = j
      BY <1>1 DEF IndexOf
    <2>2. DOMAIN ix = DOMAIN t.index \ {e.id} /\ \A id \in DOMAIN ix : ix[id] = t.index[id]
      OBVIOUS
    <2>3. DOMAIN ix = {fs[j].id : j \in LiveOf(fs)}
      BY <1>3, <1>7, <1>8, <1>10, <2>1, <2>2
    <2>4. ix \in [DOMAIN ix -> DOMAIN fs]
      BY <1>5, <2>1
    <2> HIDE DEF ix
    <2>5. \A j \in LiveOf(fs) : ix[fs[j].id] = j
      BY <1>3, <1>7, <1>8, <1>10, <2>1, <2>2
    <2> QED
      BY <2>3, <2>4, <2>5 DEF IndexOf
  <1>12. LatestOf(fs, la)
    <2>1. /\ DOMAIN t.latest \subseteq Flow
          /\ t.latest \in [DOMAIN t.latest -> DOMAIN es]
          /\ \A f \in DOMAIN t.latest :
               /\ t.latest[f] \in LiveOf(es) /\ es[t.latest[f]].flow = f
               /\ \A j \in LiveOf(es) : es[j].flow = f => j <= t.latest[f]
      BY <1>1 DEF LatestOf
    <2>2. DOMAIN la \subseteq Flow /\ la \in [DOMAIN la -> DOMAIN fs]
      BY <1>5, <2>1
    <2>3. \A f \in DOMAIN la : f \in DOMAIN t.latest /\ la[f] = t.latest[f] /\ la[f] # i
      OBVIOUS
    <2> HIDE DEF la
    <2>4. ASSUME NEW f \in DOMAIN la
          PROVE  /\ la[f] \in LiveOf(fs) /\ fs[la[f]].flow = f
                 /\ \A j \in LiveOf(fs) : fs[j].flow = f => j <= la[f]
      <3>1. /\ la[f] \in LiveOf(es) /\ es[la[f]].flow = f /\ la[f] # i
            /\ \A j \in LiveOf(es) : es[j].flow = f => j <= la[f]
        BY <2>1, <2>3
      <3> QED
        BY <1>3, <1>7, <1>8, <3>1
    <2> QED
      BY <2>2, <2>4 DEF LatestOf
  <1>13. DeadOf(fs, t.dead + 1)
    <2> DEFINE D == DOMAIN es \ LiveOf(es)
    <2>1. DOMAIN fs \ LiveOf(fs) = D \cup {i} /\ i \notin D
      BY <1>5, <1>6, <1>7 DEF es
    <2>2. IsFiniteSet(D)
      <3>1. D \in SUBSET (1 .. Len(es))
        BY <1>3
      <3> HIDE DEF D
      <3> QED
        BY <1>3, <3>1, FinitePositions
    <2>3. t.dead = Cardinality(D)
      BY <1>1 DEF DeadOf
    <2> HIDE DEF D
    <2> QED
      BY <2>1, <2>2, <2>3, FS_AddElement DEF DeadOf
  <1>14. {fs[j].id : j \in LiveOf(fs)} = {es[j].id : j \in LiveOf(es)} \ {e.id}
    BY <1>3, <1>7, <1>8, <1>10
  <1> HIDE DEF ix, la, e
  <1>15. /\ Table(Evicted(t, i)) /\ Evicted(t, i).entries = fs
    <2>1. i \in Nat
      BY <1>3, <1>6
    <2> QED
      BY <1>2, <1>5, <1>9, <1>11, <1>12, <1>13, <2>1 DEF Table, Vector
  <1>16. LiveIds(Evicted(t, i)) = LiveIds(t) \ {e.id}
    BY <1>14, <1>15 DEF LiveIds, es
  <1> QED
    BY <1>9, <1>15, <1>16 DEF es, e

\* A compaction leaves the live entries.
LEMMA CompactedTable ==
  ASSUME NEW es \in Seq(Entry), DistinctIds(es)
  PROVE  LET fs == Survivors(es)
         IN  /\ fs \in Seq(Entry) /\ DistinctIds(fs) /\ LiveOf(fs) = DOMAIN fs
             /\ Ids(fs) = {es[i].id : i \in LiveOf(es)}
  <1> DEFINE fs == Survivors(es)
             L == LiveOf(es)
             c == Cardinality(L)
  <1>1. /\ L \in SUBSET (1 .. Len(es)) /\ c \in 0 .. Len(es)
        /\ fs \in Seq(Entry) /\ Len(fs) = c
    BY SurvivorsOf
  <1>2. PICK p \in [1 .. c -> L] :
          /\ \A n \in 1 .. c : fs[n] = es[p[n]]
          /\ \A i \in L : \E n \in 1 .. c : p[n] = i
          /\ \A m, n \in 1 .. c : m < n => p[m] < p[n]
    BY SurvivorsOf
  <1>3. Len(es) \in Nat /\ DOMAIN es = 1 .. Len(es) /\ \A i \in L : i \in DOMAIN es /\ es[i].live
    BY DEF LiveOf
  <1> HIDE DEF fs, L
  <1>4. DOMAIN fs = 1 .. c /\ c \in Nat
    BY <1>1, <1>3
  <1>5. \A n \in 1 .. c : p[n] \in L /\ fs[n] = es[p[n]]
    BY <1>2
  <1>6. LiveOf(fs) = DOMAIN fs
    BY <1>3, <1>4, <1>5 DEF LiveOf
  <1>7. ASSUME NEW m \in 1 .. c, NEW n \in 1 .. c, fs[m].id = fs[n].id
        PROVE  m = n
    <2>0. \A i \in L : i \in Nat
      BY <1>1
    <2>1. p[m] = p[n]
      BY <1>3, <1>5, <1>7 DEF DistinctIds
    <2>2. p[m] \in Nat /\ m \in Nat /\ n \in Nat
      BY <1>4, <1>5, <2>0
    <2> HIDE DEF c
    <2>3. ~(p[m] < p[n]) /\ ~(p[n] < p[m])
      BY <2>1, <2>2
    <2>4. ~(m < n) /\ ~(n < m)
      BY <1>2, <2>3
    <2> QED
      BY <2>2, <2>4
  <1>8. DistinctIds(fs)
    BY <1>4, <1>7 DEF DistinctIds
  <1>9. Ids(fs) = {es[i].id : i \in L}
    BY <1>2, <1>4, <1>5 DEF Ids
  <1> QED
    BY <1>1, <1>6, <1>8, <1>9 DEF fs, L

\* The lesser of two numbers.
LEMMA LesserOf ==
  ASSUME NEW a \in Nat, NEW b \in Nat
  PROVE  Least({a, b}) \in Nat /\ Least({a, b}) <= a /\ Least({a, b}) <= b
  <1> DEFINE P == {a, b}
  <1>1. P \in SUBSET Nat /\ P # {} /\ a \in P /\ b \in P
    OBVIOUS
  <1> HIDE DEF P
  <1>2. Least(P) \in P /\ \A i \in P : Least(P) <= i
    BY <1>1, LeastOf
  <1>3. Least(P) \in Nat /\ Least(P) <= a /\ Least(P) <= b
    BY <1>1, <1>2
  <1> QED
    BY <1>3 DEF P

\* The scan that finds nothing only moves on.
LEMMA HintMoved ==
  ASSUME NEW t, Table(t), NEW h \in Nat
  PROVE  LET u == [t EXCEPT !.hint = h] IN Table(u) /\ u.entries = t.entries
  <1>1. t = [entries |-> t.entries, index |-> t.index, latest |-> t.latest,
             dead |-> t.dead, hint |-> t.hint]
    BY DEF Table
  <1>2. [t EXCEPT !.hint = h] = [entries |-> t.entries, index |-> t.index,
                                 latest |-> t.latest, dead |-> t.dead, hint |-> h]
    BY <1>1
  <1> QED
    BY <1>2 DEF Table

LEMMA TableSheds ==
  ASSUME NEW t, NEW u, Table(u), u.entries = t.entries
  PROVE  Sheds(t, u)
  BY DEF Sheds, LiveIds

\* One window is scanned, and nothing or an evictable entry of it dies.
LEMMA EvictSheds ==
  ASSUME NEW t, Table(t)
  PROVE  Sheds(t, Evict(t))
  <1> DEFINE es    == t.entries
             size  == Len(es)
             begin == Least({t.hint, size})
             end   == Least({size, begin + Window})
             Found == {i \in begin + 1 .. end : es[i].live /\ Evictable(es[i])}
             hint  == IF end >= size THEN 0 ELSE end
  <1>1. es \in Seq(Entry) /\ DistinctIds(es) /\ t.hint \in Nat
    BY DEF Table, Vector
  <1>2. /\ size \in Nat /\ DOMAIN es = 1 .. size
        /\ LiveOf(es) \subseteq DOMAIN es
        /\ \A j \in DOMAIN es : j \in LiveOf(es) <=> es[j].live
    BY <1>1, VectorFacts
  <1>3. Evict(t) = IF Found # {} THEN Evicted(t, Least(Found)) ELSE [t EXCEPT !.hint = hint]
    BY DEF Evict
  <1> HIDE DEF es, size
  <1>4. begin \in Nat
    BY <1>1, <1>2, LesserOf
  <1>5. end \in Nat /\ end <= size
    <2>1. begin + Window \in Nat
      BY <1>4, TableAssumption
    <2> HIDE DEF begin
    <2> QED
      BY <1>2, <2>1, LesserOf
  <1> HIDE DEF begin, end
  <1>6. hint \in Nat
    BY <1>5
  <1>7. Found \in SUBSET LiveOf(es) /\ Found \in SUBSET Nat /\ \A i \in Found : Evictable(es[i])
    <2>1. \A i \in begin + 1 .. end : i \in 1 .. size
      BY <1>2, <1>4, <1>5
    <2> QED
      BY <1>2, <1>4, <1>5, <2>1
  <1> HIDE DEF Found, hint
  <1>8. CASE Found = {}
    <2>1. Table(Evict(t)) /\ Evict(t).entries = t.entries
      BY <1>3, <1>6, <1>8, HintMoved
    <2> QED
      BY <2>1, TableSheds
  <1>9. CASE Found # {}
    <2> DEFINE i == Least(Found)
    <2>1. i \in Found
      BY <1>7, <1>9, LeastOf
    <2>2. Evict(t) = Evicted(t, i) /\ i \in LiveOf(es) /\ Evictable(es[i])
      BY <1>3, <1>7, <1>9, <2>1
    <2> HIDE DEF i
    <2>3. /\ Table(Evict(t)) /\ Ids(Evict(t).entries) = Ids(es)
          /\ LiveIds(Evict(t)) = LiveIds(t) \ {es[i].id}
      BY <2>2, EvictedTable DEF es
    <2>4. ASSUME NEW j \in LiveOf(es), es[j].id \notin LiveIds(Evict(t))
          PROVE  Evictable(es[j])
      <3>1. es[j].id \in LiveIds(t)
        BY DEF LiveIds, es
      <3>2. es[j].id = es[i].id
        BY <2>3, <2>4, <3>1
      <3>3. j = i
        BY <1>1, <1>2, <2>2, <3>2 DEF DistinctIds
      <3> QED
        BY <2>2, <3>3
    <2> QED
      BY <2>3, <2>4 DEF Sheds, es
  <1> QED
    BY <1>8, <1>9

LEMMA CompactSheds ==
  ASSUME NEW t, Table(t)
  PROVE  /\ Sheds(t, compact_envelopes(t))
         /\ Ids(compact_envelopes(t).entries) = LiveIds(t)
         /\ LiveIds(compact_envelopes(t)) = LiveIds(t)
  <1> DEFINE es == t.entries
             fs == Survivors(es)
  <1>1. es \in Seq(Entry) /\ DistinctIds(es)
    BY DEF Table, Vector
  <1>2. /\ fs \in Seq(Entry) /\ DistinctIds(fs) /\ LiveOf(fs) = DOMAIN fs
        /\ Ids(fs) = {es[i].id : i \in LiveOf(es)}
    BY <1>1, CompactedTable
  <1>3. compact_envelopes(t) = Indexed(fs)
    BY DEF compact_envelopes
  <1>4. Ids(fs) = LiveIds(t) /\ LiveIds(t) \subseteq Ids(es)
    BY <1>2 DEF LiveIds, Ids, LiveOf
  <1> HIDE DEF fs
  <1>5. Table(compact_envelopes(t)) /\ compact_envelopes(t).entries = fs
    BY <1>2, <1>3, IndexedTable
  <1>6. LiveIds(compact_envelopes(t)) = LiveIds(t)
    BY <1>2, <1>4, <1>5 DEF LiveIds, Ids
  <1>7. \A i \in LiveOf(es) : es[i].id \in LiveIds(t)
    BY DEF LiveIds
  <1> QED
    BY <1>4, <1>5, <1>6, <1>7 DEF Sheds

\* Compaction and eviction together.
LEMMA TidiedSheds ==
  ASSUME NEW t, Table(t)
  PROVE  Sheds(t, evict_and_compact(t))
  <1> DEFINE Crowded == 2 * t.dead > Len(t.entries) /\ Len(t.entries) > CompactionFloor
             c == IF Crowded THEN compact_envelopes(t) ELSE t
  <1>1. evict_and_compact(t) = IF Len(c.entries) < MaxEnvelopes THEN c ELSE Evict(c)
    BY DEF evict_and_compact
  <1> HIDE DEF Crowded
  <1>2. Sheds(t, c) /\ LiveIds(c) = LiveIds(t)
    BY CompactSheds, TableSheds
  <1> HIDE DEF c
  <1>3. Sheds(c, Evict(c))
    BY <1>2, EvictSheds DEF Sheds
  <1>4. Sheds(t, Evict(c))
    <2>1. ASSUME NEW i \in LiveOf(t.entries), t.entries[i].id \notin LiveIds(Evict(c))
          PROVE  Evictable(t.entries[i])
      <3>1. t.entries[i].id \in LiveIds(c)
        BY <1>2 DEF LiveIds
      <3>2. PICK j \in LiveOf(c.entries) : c.entries[j].id = t.entries[i].id
        BY <3>1 DEF LiveIds
      <3>3. Evictable(c.entries[j])
        BY <1>3, <2>1, <3>2 DEF Sheds
      <3> QED
        BY <3>2, <3>3 DEF Evictable
    <2> QED
      BY <1>2, <1>3, <2>1 DEF Sheds
  <1> QED
    BY <1>1, <1>2, <1>4

-----------------------------------------------------------------------------
(* What else happens to the table and to the files *)

LEMMA FewerIds ==
  ASSUME NEW s, NEW u, NEW n, Ids(u) \subseteq Ids(s), Minted(s, n)
  PROVE  Minted(u, n)
  BY DEF Ids, Minted

\* A revocation changes neither identities nor liveness.
LEMMA RevokedTable ==
  ASSUME NEW t, Table(t), NEW i \in LiveOf(t.entries)
  PROVE  LET u == [t EXCEPT !.entries[i].revoked = TRUE]
         IN  Table(u) /\ Ids(u.entries) = Ids(t.entries) /\ LiveIds(u) = LiveIds(t)
  <1> DEFINE es == t.entries
             e  == es[i]
             fs == [es EXCEPT ![i] = [e EXCEPT !.revoked = TRUE]]
             u  == [t EXCEPT !.entries[i].revoked = TRUE]
  <1>1. /\ t = [entries |-> es, index |-> t.index, latest |-> t.latest,
                dead |-> t.dead, hint |-> t.hint]
        /\ es \in Seq(Entry) /\ DistinctIds(es) /\ IndexOf(es, t.index) /\ LatestOf(es, t.latest)
        /\ DeadOf(es, t.dead) /\ t.hint \in Nat
    BY DEF Table, Vector
  <1>2. u = [entries |-> fs, index |-> t.index, latest |-> t.latest,
             dead |-> t.dead, hint |-> t.hint]
    <2>1. u = [t EXCEPT !.entries = fs]
      BY <1>1
    <2> HIDE DEF fs
    <2> QED
      BY <1>1, <2>1
  <1>3. /\ DOMAIN es = 1 .. Len(es) /\ \A j \in DOMAIN es : es[j] \in Entry
        /\ LiveOf(es) \subseteq DOMAIN es
    BY <1>1, VectorFacts
  <1>4. i \in DOMAIN es /\ e \in Entry
    BY <1>3
  <1>5. fs \in Seq(Entry) /\ DOMAIN fs = DOMAIN es
    <2>1. [e EXCEPT !.revoked = TRUE] \in Entry
      BY <1>4 DEF Entry
    <2> QED
      BY <1>1, <1>4, <2>1
  <1>6. \A j \in DOMAIN es : /\ fs[j].id = es[j].id /\ fs[j].flow = es[j].flow
                             /\ fs[j].live = es[j].live
    <2>1. /\ \A j \in DOMAIN es : j # i => fs[j] = es[j]
          /\ fs[i] = [e EXCEPT !.revoked = TRUE]
      BY <1>3, <1>4
    <2>2. fs[i].id = e.id /\ fs[i].flow = e.flow /\ fs[i].live = e.live
      BY <1>4, <2>1 DEF Entry
    <2> QED
      BY <2>1, <2>2
  <1> HIDE DEF es, fs, u
  <1>7. LiveOf(fs) = LiveOf(es)
    BY <1>5, <1>6 DEF LiveOf
  <1>8. /\ DistinctIds(fs) /\ IndexOf(fs, t.index) /\ LatestOf(fs, t.latest) /\ DeadOf(fs, t.dead)
        /\ Ids(fs) = Ids(es)
        /\ {fs[j].id : j \in LiveOf(fs)} = {es[j].id : j \in LiveOf(es)}
    <2>1. DistinctIds(fs) /\ Ids(fs) = Ids(es)
      BY <1>1, <1>5, <1>6 DEF DistinctIds, Ids
    <2>2. {fs[j].id : j \in LiveOf(fs)} = {es[j].id : j \in LiveOf(es)}
      BY <1>3, <1>6, <1>7
    <2>3. IndexOf(fs, t.index)
      BY <1>1, <1>3, <1>5, <1>6, <1>7, <2>2 DEF IndexOf
    <2>4. LatestOf(fs, t.latest)
      <3>1. /\ DOMAIN t.latest \subseteq Flow
            /\ t.latest \in [DOMAIN t.latest -> DOMAIN fs]
        BY <1>1, <1>5 DEF LatestOf
      <3>2. ASSUME NEW f \in DOMAIN t.latest
            PROVE  /\ t.latest[f] \in LiveOf(fs) /\ fs[t.latest[f]].flow = f
                   /\ \A j \in LiveOf(fs) : fs[j].flow = f => j <= t.latest[f]
        <4>1. /\ t.latest[f] \in LiveOf(es) /\ es[t.latest[f]].flow = f
              /\ \A j \in LiveOf(es) : es[j].flow = f => j <= t.latest[f]
          BY <1>1 DEF LatestOf
        <4> QED
          BY <1>3, <1>6, <1>7, <4>1
      <3> QED
        BY <3>1, <3>2 DEF LatestOf
    <2>5. DeadOf(fs, t.dead)
      BY <1>1, <1>5, <1>7 DEF DeadOf
    <2> QED
      BY <2>1, <2>2, <2>3, <2>4, <2>5
  <1>9. u.entries = fs /\ Table(u)
    BY <1>1, <1>2, <1>5, <1>8 DEF Table, Vector
  <1> QED
    BY <1>8, <1>9 DEF LiveIds, u, es

\* A checkpoint holds each live envelope once.
LEMMA SnapshotFiles ==
  ASSUME NEW t, Table(t)
  PROVE  Replayable(Snapshot(t)) /\ Ids(Snapshot(t)) = LiveIds(t)
  <1> DEFINE es == t.entries
             fs == Survivors(es)
  <1>1. es \in Seq(Entry) /\ DistinctIds(es)
    BY DEF Table, Vector
  <1>2. fs \in Seq(Entry) /\ DistinctIds(fs) /\ Ids(fs) = LiveIds(t)
    BY <1>1, CompactedTable DEF LiveIds
  <1>3. Snapshot(t) = [i \in DOMAIN fs |-> [id |-> fs[i].id, flow |-> fs[i].flow,
                                            epoch |-> fs[i].epoch]]
    BY DEF Snapshot
  <1> HIDE DEF fs
  <1>4. Len(fs) \in Nat /\ DOMAIN fs = 1 .. Len(fs) /\ \A i \in DOMAIN fs : fs[i] \in Entry
    BY <1>2
  <1>5. \A i \in DOMAIN fs : [id |-> fs[i].id, flow |-> fs[i].flow, epoch |-> fs[i].epoch]
                               \in Envelope
    BY <1>4 DEF Entry, Envelope
  <1>6. /\ Snapshot(t) \in Seq(Envelope) /\ DOMAIN Snapshot(t) = DOMAIN fs
        /\ \A i \in DOMAIN fs : Snapshot(t)[i].id = fs[i].id
    BY <1>3, <1>4, <1>5
  <1> QED
    BY <1>2, <1>6 DEF Replayable, DistinctIds, Ids

\* A checkpoint may come before any append.
LEMMA KeptFiles ==
  ASSUME NEW n, Replayable(files), Minted(files, n),
         NEW t, Table(t), Minted(t.entries, n), NEW fs \in CheckpointOr(t)
  PROVE  Replayable(fs) /\ Minted(fs, n)
  <1>1. CASE fs = files
    BY <1>1
  <1>2. CASE fs = Snapshot(t)
    <2>1. Replayable(fs) /\ Ids(fs) = LiveIds(t)
      BY <1>2, SnapshotFiles
    <2>2. LiveIds(t) \subseteq Ids(t.entries)
      BY DEF LiveIds, Ids, LiveOf
    <2> QED
      BY <2>1, <2>2, FewerIds
  <1> QED
    BY <1>1, <1>2 DEF CheckpointOr

\* The envelope with the next id is journaled.
LEMMA AppendedFiles ==
  ASSUME NEW n \in Nat, NEW fs, Replayable(fs), Minted(fs, n),
         NEW e \in Envelope, e.id = n + 1
  PROVE  Replayable(Append(fs, e)) /\ Minted(Append(fs, e), n + 1)
  <1> DEFINE us == Append(fs, e)
             m == Len(fs) + 1
  <1>1. fs \in Seq(Envelope) /\ DistinctIds(fs) /\ \A i \in DOMAIN fs : fs[i].id <= n
    BY DEF Replayable, Minted
  <1>2. /\ us \in Seq(Envelope) /\ DOMAIN us = DOMAIN fs \cup {m} /\ m \notin DOMAIN fs
        /\ us[m] = e /\ \A i \in DOMAIN fs : us[i] = fs[i]
    BY <1>1
  <1>3. \A i \in DOMAIN fs : fs[i].id \in Nat
    <2>1. \A i \in DOMAIN fs : fs[i] \in Envelope
      BY <1>1
    <2> QED
      BY <2>1 DEF Envelope
  <1> HIDE DEF us, m
  <1>4. \A i \in DOMAIN fs : us[i].id # us[m].id /\ us[i].id <= n + 1
    BY <1>1, <1>2, <1>3
  <1>5. DistinctIds(us)
    BY <1>1, <1>2, <1>4 DEF DistinctIds
  <1>6. Minted(us, n + 1)
    BY <1>2, <1>4 DEF Minted
  <1> QED
    BY <1>2, <1>5, <1>6 DEF Replayable, us

\* The floor is above every id that is replayed.
LEMMA FloorOfFiles ==
  ASSUME Replayable(files)
  PROVE  Floor \in Nat /\ Minted(files, Floor)
  <1> DEFINE N == Len(files)
             q == [i \in 1 .. N |-> files[i].id]
             P == {0} \cup {q[i] : i \in 1 .. N}
             R == {0} \cup ReplayedIds
  <1>1. N \in Nat /\ DOMAIN files = 1 .. N /\ \A i \in 1 .. N : files[i].id \in Nat
    <2>1. N \in Nat /\ DOMAIN files = 1 .. N /\ \A i \in 1 .. N : files[i] \in Envelope
      BY DEF Replayable
    <2> QED
      BY <2>1 DEF Envelope
  <1>2. q \in [1 .. N -> Nat] /\ \A i \in 1 .. N : q[i] = files[i].id
    BY <1>1
  <1> HIDE DEF N, q
  <1>3. R = P
    BY <1>1, <1>2 DEF ReplayedIds
  <1>4. P \subseteq Nat
    BY <1>2
  <1>5. \E s \in P : \A r \in P : r <= s
    BY <1>1, <1>2, Largest
  <1>6. Floor = Greatest(R)
    BY DEF Floor
  <1>7. \A i \in DOMAIN files : files[i].id \in R
    BY DEF ReplayedIds
  <1> HIDE DEF P, R
  <1>8. Floor \in R /\ \A r \in R : r <= Floor
    BY <1>3, <1>5, <1>6 DEF Greatest
  <1> QED
    BY <1>3, <1>4, <1>7, <1>8 DEF Minted

\* The replay rebuilds a table of the envelopes in the files.
LEMMA RecoveredFiles ==
  ASSUME Replayable(files)
  PROVE  Table(RecoveredTable) /\ Ids(RecoveredTable.entries) = Ids(files)
  <1> DEFINE E(i) == [id |-> files[i].id, flow |-> files[i].flow, epoch |-> files[i].epoch,
                      live |-> TRUE, revoked |-> TRUE]
             rs == [i \in DOMAIN files |-> E(i)]
  <1>1. /\ Len(files) \in Nat /\ DOMAIN files = 1 .. Len(files) /\ DistinctIds(files)
        /\ \A i \in DOMAIN files : files[i] \in Envelope
    BY DEF Replayable
  <1>2. RecoveredTable = Indexed(rs)
    BY DEF RecoveredTable
  <1>3. \A i \in DOMAIN files : E(i) \in Entry /\ E(i).id = files[i].id /\ E(i).live = TRUE
    BY <1>1 DEF Envelope, Entry
  <1> HIDE DEF E
  <1>4. /\ rs \in Seq(Entry) /\ DOMAIN rs = DOMAIN files
        /\ \A i \in DOMAIN files : rs[i].id = files[i].id /\ rs[i].live = TRUE
    BY <1>1, <1>3
  <1> HIDE DEF rs
  <1>5. DistinctIds(rs) /\ LiveOf(rs) = DOMAIN rs /\ Ids(rs) = Ids(files)
    BY <1>1, <1>4 DEF DistinctIds, LiveOf, Ids
  <1> QED
    BY <1>2, <1>4, <1>5, IndexedTable

\* What find_envelope answers.
LEMMA FindExact ==
  ASSUME NEW t, Table(t)
  PROVE  /\ \A i \in LiveOf(t.entries) : find_envelope(t, t.entries[i].id) = i /\ i # 0
         /\ DOMAIN t.index = LiveIds(t)
         /\ \A id : /\ find_envelope(t, id) # 0 <=> id \in LiveIds(t)
                    /\ id \in LiveIds(t) => /\ find_envelope(t, id) = t.index[id]
                                            /\ t.index[id] \in LiveOf(t.entries)
                                            /\ t.entries[t.index[id]].id = id
  <1> DEFINE es == t.entries
  <1>1. /\ DOMAIN t.index = {es[i].id : i \in LiveOf(es)}
        /\ \A i \in LiveOf(es) : t.index[es[i].id] = i
    BY DEF Table, IndexOf
  <1>2. es \in Seq(Entry)
    BY DEF Table, Vector
  <1>3. \A i \in LiveOf(es) : i # 0
    BY <1>2, VectorFacts
  <1>4. DOMAIN t.index = LiveIds(t)
    BY <1>1 DEF LiveIds
  <1>5. ASSUME NEW id, id \in LiveIds(t)
        PROVE  /\ find_envelope(t, id) = t.index[id] /\ find_envelope(t, id) # 0
               /\ t.index[id] \in LiveOf(es) /\ es[t.index[id]].id = id
    <2>1. PICK i \in LiveOf(es) : es[i].id = id
      BY <1>5 DEF LiveIds
    <2>2. t.index[id] = i
      BY <1>1, <2>1
    <2> QED
      BY <1>3, <1>4, <1>5, <2>1, <2>2 DEF find_envelope, Live
  <1>6. \A id : id \notin LiveIds(t) => find_envelope(t, id) = 0
    BY <1>4 DEF find_envelope
  <1>7. \A i \in LiveOf(es) : es[i].id \in LiveIds(t)
    BY DEF LiveIds
  <1> HIDE DEF es
  <1>8. \A i \in LiveOf(es) : find_envelope(t, es[i].id) = i
    BY <1>1, <1>5, <1>7 DEF es
  <1> QED
    BY <1>3, <1>4, <1>5, <1>6, <1>8 DEF es

-----------------------------------------------------------------------------
(* The steps *)

\* While an incarnation lasts, an envelope leaves the table only when no attempt that is
\* filed under it is open.
Spared(t, u) == \A i \in LiveOf(t.entries) :
                  t.entries[i].id \notin LiveIds(u) => Evictable(t.entries[i])

LEMMA InitKeeps == Init => Inv
  <1> SUFFICES ASSUME Init
               PROVE  Inv
    OBVIOUS
  <1> DEFINE es == <<>>
  <1>1. es \in Seq(Entry) /\ DOMAIN es = {} /\ LiveOf(es) = {}
    BY DEF LiveOf
  <1>2. tab = [entries |-> es, index |-> es, latest |-> es, dead |-> 0, hint |-> 0]
    BY DEF Init, EmptyTable
  <1>3. DistinctIds(es) /\ Minted(es, 0) /\ IndexOf(es, es) /\ LatestOf(es, es)
    BY <1>1 DEF DistinctIds, Minted, IndexOf, LatestOf
  <1>4. DeadOf(es, 0)
    BY <1>1, FS_EmptySet DEF DeadOf
  <1>5. files = es /\ Replayable(es)
    BY <1>3 DEF Init, Replayable
  <1>6. minted = 0 /\ attempts \in Seq(Attempt)
    BY DEF Init
  <1>7. epoch \in 1 .. MaxEpoch
    BY TableAssumption DEF Init
  <1> HIDE DEF es
  <1>8. Table(tab) /\ tab.entries = es
    BY <1>1, <1>2, <1>3, <1>4 DEF Table, Vector
  <1> QED
    BY <1>3, <1>5, <1>6, <1>7, <1>8 DEF Inv

LEMMA DeriveKeeps ==
  ASSUME Inv, NEW f \in Flow, Derive(f)
  PROVE  Inv' /\ Spared(tab, tab') /\ epoch' = epoch
  <1> DEFINE made == [id |-> minted + 1, flow |-> f, epoch |-> epoch]
             e    == [id |-> minted + 1, flow |-> f, epoch |-> epoch,
                      live |-> TRUE, revoked |-> FALSE]
             room == evict_and_compact(tab)
  <1>1. PICK kept \in CheckpointOr(tab) : files' = Append(kept, made)
    BY DEF Derive
  <1>2. /\ minted' = minted + 1 /\ attempts' = attempts /\ epoch' = epoch
        /\ tab' = IF Len(room.entries) >= MaxEnvelopes THEN room ELSE Pushed(room, e)
    BY DEF Derive
  <1>3. /\ made \in Envelope /\ made.id = minted + 1
        /\ e \in Entry /\ e.id = minted + 1 /\ e.live = TRUE
    <2>1. epoch \in Nat /\ minted + 1 \in Nat
      BY TableAssumption DEF Inv
    <2> QED
      BY <2>1 DEF Envelope, Entry
  <1> HIDE DEF made, e
  <1>4. Replayable(kept) /\ Minted(kept, minted)
    BY KeptFiles DEF Inv
  <1>5. Replayable(files') /\ Minted(files', minted')
    BY <1>1, <1>2, <1>3, <1>4, AppendedFiles DEF Inv
  <1>6. Sheds(tab, room)
    BY TidiedSheds DEF Inv
  <1> HIDE DEF room
  <1>7. Table(room) /\ Minted(room.entries, minted) /\ Spared(tab, room)
    BY <1>6, FewerIds DEF Sheds, Spared, Inv
  <1>8. \A i \in DOMAIN room.entries : room.entries[i].id \in Nat
    <2>1. \A i \in DOMAIN room.entries : room.entries[i] \in Entry
      BY <1>7 DEF Table, Vector
    <2> QED
      BY <2>1 DEF Entry
  <1>9. minted \in Nat
    BY DEF Inv
  <1>10. Table(tab') /\ Minted(tab'.entries, minted') /\ Spared(tab, tab')
    <2>1. CASE Len(room.entries) >= MaxEnvelopes
      <3>1. tab' = room
        BY <1>2, <2>1
      <3>2. Minted(room.entries, minted')
        BY <1>2, <1>7, <1>8, <1>9 DEF Minted
      <3> QED
        BY <1>7, <3>1, <3>2
    <2>2. CASE ~(Len(room.entries) >= MaxEnvelopes)
      <3>1. tab' = Pushed(room, e)
        BY <1>2, <2>2
      <3>2. \A i \in DOMAIN room.entries : room.entries[i].id # e.id
        BY <1>3, <1>7, <1>8, <1>9 DEF Minted
      <3>3. Table(tab') /\ tab'.entries = Append(room.entries, e)
        BY <1>3, <1>7, <3>1, <3>2, PushedTable
      <3> DEFINE rs == room.entries
                 us == Append(rs, e)
                 n  == Len(rs) + 1
      <3>4. rs \in Seq(Entry)
        BY <1>7 DEF Table, Vector
      <3>5. /\ DOMAIN us = DOMAIN rs \cup {n} /\ us[n] = e
            /\ \A i \in DOMAIN rs : us[i] = rs[i]
        BY <3>4
      <3> HIDE DEF us, n
      <3>6. Minted(us, minted')
        BY <1>2, <1>3, <1>7, <1>8, <1>9, <3>5 DEF Minted
      <3>7. LiveIds(room) \subseteq LiveIds(tab')
        <4>1. LiveOf(rs) \subseteq LiveOf(us) /\ \A i \in LiveOf(rs) : us[i].id = rs[i].id
          BY <3>5 DEF LiveOf
        <4>2. tab'.entries = us
          BY <3>3 DEF us
        <4> QED
          BY <4>1, <4>2 DEF LiveIds
      <3>8. Spared(tab, tab')
        BY <1>7, <3>7 DEF Spared
      <3> QED
        BY <3>3, <3>6, <3>8 DEF us
    <2> QED
      BY <2>1, <2>2
  <1> QED
    BY <1>2, <1>5, <1>9, <1>10 DEF Inv

\* The table is as it was, and a checkpoint may have been taken.
LEMMA FilesKept ==
  ASSUME Inv, tab' = tab, minted' \in Nat, minted <= minted', files' \in CheckpointOr(tab),
         attempts' \in Seq(Attempt), epoch' = epoch
  PROVE  Inv' /\ Spared(tab, tab')
  <1>1. Replayable(files') /\ Minted(files', minted)
    BY KeptFiles DEF Inv
  <1>2. \A i \in DOMAIN files' : files'[i].id \in Nat
    <2>1. \A i \in DOMAIN files' : files'[i] \in Envelope
      BY <1>1 DEF Replayable
    <2> QED
      BY <2>1 DEF Envelope
  <1>3. \A i \in DOMAIN tab.entries : tab.entries[i].id \in Nat
    <2>1. \A i \in DOMAIN tab.entries : tab.entries[i] \in Entry
      BY DEF Inv, Table, Vector
    <2> QED
      BY <2>1 DEF Entry
  <1>4. minted \in Nat
    BY DEF Inv
  <1>5. Minted(files', minted') /\ Minted(tab.entries, minted')
    BY <1>1, <1>2, <1>3, <1>4 DEF Inv, Minted
  <1>6. Spared(tab, tab')
    BY DEF Spared, LiveIds
  <1> QED
    BY <1>1, <1>5, <1>6 DEF Inv

\* A reservation tidies the table first.
LEMMA TidiedKeeps ==
  ASSUME Inv, tab' = evict_and_compact(tab)
  PROVE  Table(tab') /\ Minted(tab'.entries, minted) /\ Spared(tab, tab')
  <1>1. Sheds(tab, tab')
    BY TidiedSheds DEF Inv
  <1> QED
    BY <1>1, FewerIds DEF Sheds, Spared, Inv

LEMMA ReserveKeeps ==
  ASSUME Inv, NEW id \in 1 .. MaxIds, Reserve(id)
  PROVE  Inv' /\ Spared(tab, tab') /\ epoch' = epoch
  <1>1. /\ tab' = evict_and_compact(tab) /\ files' \in CheckpointOr(tab')
        /\ minted' = minted /\ epoch' = epoch
        /\ attempts' = Append(attempts, [envelope |-> id, epoch |-> epoch, open |-> TRUE])
           \/ attempts' = attempts
    BY DEF Reserve
  <1>2. Table(tab') /\ Minted(tab'.entries, minted) /\ Spared(tab, tab')
    BY <1>1, TidiedKeeps
  <1>3. Replayable(files') /\ Minted(files', minted)
    BY <1>1, <1>2, KeptFiles DEF Inv
  <1>4. attempts' \in Seq(Attempt)
    <2>1. epoch \in Nat /\ id \in Nat /\ attempts \in Seq(Attempt)
      BY TableAssumption DEF Inv
    <2>2. [envelope |-> id, epoch |-> epoch, open |-> TRUE] \in Attempt
      BY <2>1 DEF Attempt
    <2> QED
      BY <1>1, <2>1, <2>2
  <1> QED
    BY <1>1, <1>2, <1>3, <1>4 DEF Inv

LEMMA ReserveRefusedKeeps ==
  ASSUME Inv, NEW id, ReserveRefused(id)
  PROVE  Inv' /\ Spared(tab, tab') /\ epoch' = epoch
  <1>1. /\ tab' = evict_and_compact(tab) /\ files' = files
        /\ minted' = minted /\ epoch' = epoch /\ attempts' = attempts
    BY DEF ReserveRefused
  <1>2. Table(tab') /\ Minted(tab'.entries, minted) /\ Spared(tab, tab')
    BY <1>1, TidiedKeeps
  <1> QED
    BY <1>1, <1>2 DEF Inv

LEMMA SettleKeeps ==
  ASSUME Inv, NEW a \in DOMAIN attempts, Settle(a)
  PROVE  Inv' /\ Spared(tab, tab') /\ epoch' = epoch
  <1>1. /\ attempts' = [attempts EXCEPT ![a].open = FALSE] /\ files' \in CheckpointOr(tab)
        /\ tab' = tab /\ minted' = minted /\ epoch' = epoch
    BY DEF Settle
  <1>2. attempts' \in Seq(Attempt)
    <2>1. attempts \in Seq(Attempt) /\ attempts[a] \in Attempt
      BY DEF Inv
    <2>2. [attempts[a] EXCEPT !.open = FALSE] \in Attempt
      BY <2>1 DEF Attempt
    <2> QED
      BY <1>1, <2>1, <2>2
  <1> QED
    BY <1>1, <1>2, FilesKept DEF Inv

LEMMA DeriveNotDurableKeeps ==
  ASSUME Inv, DeriveNotDurable
  PROVE  Inv' /\ Spared(tab, tab') /\ epoch' = epoch
  <1>1. /\ minted' = minted + 1 /\ files' \in CheckpointOr(tab)
        /\ tab' = tab /\ attempts' = attempts /\ epoch' = epoch
    BY DEF DeriveNotDurable
  <1>2. minted \in Nat
    BY DEF Inv
  <1>3. minted' \in Nat /\ minted <= minted'
    BY <1>1, <1>2
  <1> QED
    BY <1>1, <1>3, FilesKept DEF Inv

LEMMA RevokeEnvelopeKeeps ==
  ASSUME Inv, NEW id, RevokeEnvelope(id)
  PROVE  Inv' /\ Spared(tab, tab') /\ epoch' = epoch
  <1> DEFINE i == find_envelope(tab, id)
  <1>1. /\ i # 0 /\ tab' = [tab EXCEPT !.entries[i].revoked = TRUE]
        /\ attempts' = [a \in DOMAIN attempts |->
                          IF a \in AttemptsOf(id) THEN [attempts[a] EXCEPT !.open = FALSE]
                          ELSE attempts[a]]
        /\ files' \in CheckpointOr(tab) /\ minted' = minted /\ epoch' = epoch
    BY DEF RevokeEnvelope
  <1>2. i \in LiveOf(tab.entries)
    BY <1>1, FindExact DEF Inv
  <1> HIDE DEF i
  <1>3. Table(tab') /\ Ids(tab'.entries) = Ids(tab.entries) /\ LiveIds(tab') = LiveIds(tab)
    BY <1>1, <1>2, RevokedTable DEF Inv
  <1>4. Minted(tab'.entries, minted) /\ Spared(tab, tab')
    BY <1>3, FewerIds DEF Inv, Spared, LiveIds
  <1>5. Replayable(files') /\ Minted(files', minted)
    BY <1>1, KeptFiles DEF Inv
  <1>6. attempts' \in Seq(Attempt)
    <2>1. /\ Len(attempts) \in Nat /\ DOMAIN attempts = 1 .. Len(attempts)
          /\ \A a \in DOMAIN attempts : attempts[a] \in Attempt
      BY DEF Inv
    <2>2. \A a \in DOMAIN attempts : [attempts[a] EXCEPT !.open = FALSE] \in Attempt
      BY <2>1 DEF Attempt
    <2> QED
      BY <1>1, <2>1, <2>2
  <1> QED
    BY <1>1, <1>3, <1>4, <1>5, <1>6 DEF Inv

LEMMA RestartKeeps ==
  ASSUME Inv, Restart
  PROVE  Inv' /\ epoch' # epoch
  <1>1. /\ epoch < MaxEpoch /\ epoch' = epoch + 1
        /\ tab' = RecoveredTable /\ minted' = Floor
        /\ attempts' = [a \in DOMAIN attempts |-> [attempts[a] EXCEPT !.open = FALSE]]
        /\ files' \in CheckpointOr(RecoveredTable)
    BY DEF Restart
  <1>2. Floor \in Nat /\ Minted(files, Floor)
    BY FloorOfFiles DEF Inv
  <1>3. Table(RecoveredTable) /\ Minted(RecoveredTable.entries, Floor)
    BY <1>2, RecoveredFiles, FewerIds DEF Inv
  <1>4. Replayable(files') /\ Minted(files', Floor)
    BY <1>1, <1>2, <1>3, KeptFiles DEF Inv
  <1>5. attempts' \in Seq(Attempt)
    <2>1. /\ Len(attempts) \in Nat /\ DOMAIN attempts = 1 .. Len(attempts)
          /\ \A a \in DOMAIN attempts : attempts[a] \in Attempt
      BY DEF Inv
    <2>2. \A a \in DOMAIN attempts : [attempts[a] EXCEPT !.open = FALSE] \in Attempt
      BY <2>1 DEF Attempt
    <2> QED
      BY <1>1, <2>1, <2>2
  <1>6. epoch' \in 1 .. MaxEpoch /\ epoch' # epoch
    BY <1>1, TableAssumption DEF Inv
  <1> QED
    BY <1>1, <1>2, <1>3, <1>4, <1>5, <1>6 DEF Inv

LEMMA StepKeeps ==
  ASSUME Inv, [Next]_vars
  PROVE  Inv' /\ (epoch' = epoch => Spared(tab, tab'))
  <1>1. ASSUME NEW f \in Flow, Derive(f)
        PROVE  Inv' /\ (epoch' = epoch => Spared(tab, tab'))
    BY <1>1, DeriveKeeps
  <1>2. CASE DeriveNotDurable
    BY <1>2, DeriveNotDurableKeeps
  <1>3. ASSUME NEW id \in 1 .. MaxIds, Reserve(id)
        PROVE  Inv' /\ (epoch' = epoch => Spared(tab, tab'))
    BY <1>3, ReserveKeeps
  <1>4. ASSUME NEW id \in 1 .. MaxIds, ReserveRefused(id)
        PROVE  Inv' /\ (epoch' = epoch => Spared(tab, tab'))
    BY <1>4, ReserveRefusedKeeps
  <1>5. ASSUME NEW id \in 1 .. MaxIds, RevokeEnvelope(id)
        PROVE  Inv' /\ (epoch' = epoch => Spared(tab, tab'))
    BY <1>5, RevokeEnvelopeKeeps
  <1>6. ASSUME NEW a \in DOMAIN attempts, Settle(a)
        PROVE  Inv' /\ (epoch' = epoch => Spared(tab, tab'))
    BY <1>6, SettleKeeps
  <1>7. CASE Restart
    BY <1>7, RestartKeeps
  <1>8. CASE UNCHANGED vars
    <2>1. /\ tab' = tab /\ minted' = minted /\ attempts' = attempts /\ files' = files
          /\ epoch' = epoch
      BY <1>8 DEF vars
    <2> QED
      BY <2>1 DEF Inv, Spared, LiveIds
  <1> QED
    BY <1>1, <1>2, <1>3, <1>4, <1>5, <1>6, <1>7, <1>8 DEF Next

-----------------------------------------------------------------------------
(* The theorems *)

\* The strengthening that every operation on the table keeps.
THEOREM Invariance == Spec => []Inv
  <1>1. Inv /\ [Next]_vars => Inv'
    BY StepKeeps
  <1> QED
    BY InitKeeps, <1>1, PTL DEF Spec

LEMMA InvIsTyped == Inv => TypeOK
  <1> SUFFICES ASSUME Inv
               PROVE  TypeOK
    OBVIOUS
  <1> DEFINE es == tab.entries
  <1>1. /\ es \in Seq(Entry) /\ IndexOf(es, tab.index) /\ LatestOf(es, tab.latest)
        /\ DeadOf(es, tab.dead) /\ tab.hint \in Nat
    BY DEF Inv, Table, Vector
  <1>2. /\ Len(es) \in Nat /\ DOMAIN es = 1 .. Len(es)
        /\ \A i \in DOMAIN es : es[i] \in Entry
        /\ LiveOf(es) \subseteq DOMAIN es
    BY <1>1, VectorFacts
  <1>3. DOMAIN tab.index \subseteq Nat
    <2>1. \A i \in DOMAIN es : es[i].id \in Nat
      BY <1>2 DEF Entry
    <2> QED
      BY <1>1, <1>2, <2>1 DEF IndexOf
  <1>4. tab.dead \in Nat
    <2> DEFINE D == DOMAIN es \ LiveOf(es)
    <2>1. D \in SUBSET (1 .. Len(es))
      BY <1>2
    <2>2. tab.dead = Cardinality(D)
      BY <1>1 DEF DeadOf
    <2> HIDE DEF D
    <2>3. Cardinality(D) \in 0 .. Len(es)
      BY <1>2, <2>1, FinitePositions
    <2> QED
      BY <1>2, <2>2, <2>3
  <1>5. minted \in Nat /\ attempts \in Seq(Attempt) /\ files \in Seq(Envelope)
        /\ epoch \in 1 .. MaxEpoch
    BY DEF Inv, Replayable
  <1> QED
    BY <1>1, <1>3, <1>4, <1>5 DEF TypeOK, IndexOf, LatestOf

LEMMA InvIsExact == Inv => TableExact
  <1> SUFFICES ASSUME Inv
               PROVE  TableExact
    OBVIOUS
  <1>1. Table(tab) /\ Live(tab) = LiveOf(tab.entries)
    BY DEF Inv, Live
  <1>2. IndexExact
    BY <1>1, FindExact DEF IndexExact
  <1>3. LatestIsNewest
    BY <1>1 DEF LatestIsNewest, Table, LatestOf
  <1>4. DeadExact
    BY <1>1 DEF DeadExact, Table, DeadOf
  <1> QED
    BY <1>2, <1>3, <1>4 DEF TableExact

\* The table, its indexes and the files have their types.
THEOREM TypeCorrect == Spec => []TypeOK
  BY Invariance, InvIsTyped, PTL

\* No sequence of derivations, evictions, compactions and restarts makes the vector of
\* envelopes and what is kept beside it disagree.
THEOREM TableIsExact == Spec => []TableExact
  BY Invariance, InvIsExact, PTL

\* No id is minted that an envelope of the table or of the files has.
THEOREM IdsAreFresh == Spec => []MintIsFresh
  <1>1. Inv => MintIsFresh
    BY DEF Inv, Minted, MintIsFresh
  <1> QED
    BY Invariance, <1>1, PTL

\* An operation makes an envelope disappear only if no attempt that was filed under it
\* is still in flight.
THEOREM OpenEnvelopesStay == Spec => EvictionSparesOpen
  <1> DEFINE Lost == epoch' = epoch =>
                       \A i \in Live(tab) :
                         find_envelope(tab', tab.entries[i].id) = 0 =>
                           \A a \in AttemptsOf(tab.entries[i].id) : ~attempts[a].open
  <1>1. Inv /\ [Next]_vars => [Lost]_vars
    <2> SUFFICES ASSUME Inv, [Next]_vars
                 PROVE  Lost
      OBVIOUS
    <2>1. Table(tab') /\ (epoch' = epoch => Spared(tab, tab'))
      BY StepKeeps DEF Inv
    <2>2. \A id : find_envelope(tab', id) = 0 => id \notin LiveIds(tab')
      BY <2>1, FindExact
    <2> QED
      BY <2>1, <2>2 DEF Spared, Live, Evictable
  <1>2. Spec => [][Lost]_vars
    BY Invariance, <1>1, PTL DEF Spec
  <1> QED
    BY <1>2 DEF EvictionSparesOpen

=============================================================================
