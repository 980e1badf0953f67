-------------------------- MODULE DurableStoreProofs --------------------------
(***************************************************************************)
(* Proofs about DurableStore, for any number of entities, records,         *)
(* restarts and crashes, and for every combination of faults.              *)
(*                                                                         *)
(* The inductive invariant Inv says that the memory is never behind what   *)
(* was acknowledged (MemoryIsAhead), that the sequence number is never     *)
(* behind the records that a replay would read, nor behind the snapshot    *)
(* while the journal is open (Numbered), that the snapshot supersedes the  *)
(* journal once it is renamed (Superseded), and how a journal without a    *)
(* header came to be (Headless).                                           *)
(***************************************************************************)
EXTENDS DurableStore, VectorLemmas, SequenceTheorems

-----------------------------------------------------------------------------
(* The inductive invariant *)

Busy == {"checkpoint", "truncate", "header", "append"}

\* There is room for the record that is appended next.
Room == pc = "append" => count < MaxJournal

\* The record that is journaled is not older than the memory.
RecordOK ==
  pc \in Busy => record \in Record /\ record.version >= memory[record.key]

MemoryIsAhead == pc # "down" => \A k \in Key : safe[k] <= memory[k]

\* A replay would read no record of a number still to come, and what is appended to the
\* journal is beyond the snapshot.
Numbered ==
  /\ pc # "down" => \A i \in Valid : journal[i].seq <= sequence
  /\ handle => pc = "truncate" \/ sequence >= snapshot.barrier

Superseded ==
  /\ pc \in {"truncate", "header"} => Replayed = {}
  /\ pc = "header" => journal = <<>> /\ ~handle

\* A journal without a header is empty and closed, unless a crash has left it behind.
Headless ==
  /\ header = "absent" => journal = <<>> /\ pc = "down"
  /\ header = "short" => lost \/ (journal = <<>> /\ ~handle /\ pc # "down")
  /\ pc = "down" => ~handle

Inv == TypeOK /\ Room /\ RecordOK /\ MemoryIsAhead /\ Numbered /\ Superseded /\ Headless
       /\ SafeSurvives

-----------------------------------------------------------------------------
(* What a replay makes of the files *)

LEMMA TornIsNoRecord == Torn \notin Record
  BY StoreAssumption DEF Torn, Record

LEMMA Positions ==
  TypeOK => /\ DOMAIN journal = 1 .. Len(journal) /\ Len(journal) \in Nat
            /\ Valid \subseteq 1 .. Len(journal) /\ Replayed \subseteq Valid
            /\ \A k \in Key : ReplayedOf(k) \subseteq Replayed
            /\ \A i \in Valid : journal[i] \in Record
  BY DEF TypeOK, Valid, Replayed, ReplayedOf

\* The position that Recovered chooses is the last one.
LEMMA TheLast ==
  ASSUME NEW I, I \subseteq Nat, NEW i \in I, \A j \in I : j <= i
  PROVE  (CHOOSE m \in I : \A j \in I : j <= m) = i
  <1>1. \A m \in I : (\A j \in I : j <= m) => m = i
    OBVIOUS
  <1> QED
    BY <1>1

\* The last record of an entity decides, or else the snapshot.
Decides ==
  \A k \in Key :
    /\ ReplayedOf(k) = {} => Recovered[k] = snapshot.versions[k]
    /\ \A i \in ReplayedOf(k) :
         (\A j \in ReplayedOf(k) : j <= i) => Recovered[k] = journal[i].version

LEMMA RecoveredAt == TypeOK => Decides
  <1> SUFFICES ASSUME TypeOK, NEW k \in Key
               PROVE  /\ ReplayedOf(k) = {} => Recovered[k] = snapshot.versions[k]
                      /\ \A i \in ReplayedOf(k) : (\A j \in ReplayedOf(k) : j <= i) =>
                           Recovered[k] = journal[i].version
    BY DEF Decides
  <1>1. ReplayedOf(k) = {} => Recovered[k] = snapshot.versions[k]
    BY DEF Recovered
  <1>2. ASSUME NEW i \in ReplayedOf(k), \A j \in ReplayedOf(k) : j <= i
        PROVE  Recovered[k] = journal[i].version
    <2> DEFINE I == ReplayedOf(k)
    <2>1. I \subseteq Nat /\ I # {}
      BY <1>2, Positions
    <2>2. Recovered[k] = journal[CHOOSE m \in I : \A j \in I : j <= m].version
      BY <2>1 DEF Recovered
    <2> HIDE DEF I
    <2>3. i \in I /\ \A j \in I : j <= i
      BY <1>2 DEF I
    <2>4. (CHOOSE m \in I : \A j \in I : j <= m) = i
      BY <2>1, <2>3, TheLast
    <2> QED
      BY <2>2, <2>4
  <1> QED
    BY <1>1, <1>2

\* There is a last one, if there is any.
LEMMA LastReplayed ==
  ASSUME TypeOK, NEW k \in Key, ReplayedOf(k) # {}
  PROVE  \E i \in ReplayedOf(k) : \A j \in ReplayedOf(k) : j <= i
  <1> DEFINE I == ReplayedOf(k)
  <1>1. I \in SUBSET (1 .. Len(journal)) /\ I # {} /\ Len(journal) \in Nat
    BY Positions
  <1> HIDE DEF I
  <1>2. \E i \in I : \A j \in I : j <= i
    BY <1>1, LastPosition
  <1> QED
    BY <1>2 DEF I

LEMMA RecoveredType == TypeOK => Recovered \in Versions
  <1> SUFFICES ASSUME TypeOK, NEW k \in Key
               PROVE  Recovered[k] \in Nat
    BY DEF Versions, Recovered
  <1>1. CASE ReplayedOf(k) = {}
    BY <1>1, RecoveredAt DEF Decides, TypeOK, Versions
  <1>2. CASE ReplayedOf(k) # {}
    <2>1. PICK i \in ReplayedOf(k) : \A j \in ReplayedOf(k) : j <= i
      BY <1>2, LastReplayed
    <2>2. journal[i] \in Record
      BY <2>1, Positions
    <2> QED
      BY <2>1, <2>2, RecoveredAt DEF Decides, Record
  <1> QED
    BY <1>1, <1>2

\* The sequence number that is continued is not behind any record that is replayed.
LEMMA RecoveredSequenceIs ==
  ASSUME TypeOK
  PROVE  /\ RecoveredSequence \in Nat /\ RecoveredSequence >= snapshot.barrier
         /\ \A i \in Replayed : journal[i].seq <= RecoveredSequence
  <1> DEFINE N == Len(journal)
             q == [i \in 1 .. N |-> IF i \in Valid THEN journal[i].seq ELSE 0]
             b == snapshot.barrier
             T == {b} \cup {journal[i].seq : i \in Replayed}
  <1>1. N \in Nat /\ b \in Nat /\ Replayed \in SUBSET (1 .. N) /\ Replayed \subseteq Valid
    BY Positions DEF TypeOK
  <1>2. q \in [1 .. N -> Nat]
    BY Positions DEF Record
  <1>3. T = {b} \cup {q[i] : i \in Replayed}
    BY <1>1
  <1>4. T \subseteq Nat
    BY <1>1, <1>2, <1>3
  <1>5. \E s \in T : \A r \in T : r <= s
    <2> HIDE DEF q, N, b
    <2> QED
      BY <1>1, <1>2, <1>3, Largest
  <1>6. RecoveredSequence = CHOOSE s \in T : \A r \in T : r <= s
    BY DEF RecoveredSequence
  <1> HIDE DEF T
  <1>7. RecoveredSequence \in T /\ \A r \in T : r <= RecoveredSequence
    BY <1>5, <1>6
  <1> QED
    BY <1>4, <1>7 DEF T

\* The files are as they were.
LEMMA SameFiles ==
  ASSUME TypeOK, TypeOK', UNCHANGED <<snapshot, journal>>,
         (header = "valid") <=> (header' = "valid")
  PROVE  UNCHANGED <<Valid, Replayed, Recovered>>
  <1>1. Valid' = Valid
    BY DEF Valid
  <1>2. Replayed' = Replayed
    BY <1>1 DEF Replayed
  <1>3. ASSUME NEW k \in Key
        PROVE  Recovered'[k] = Recovered[k]
    <2>1. ReplayedOf(k)' = ReplayedOf(k)
      BY <1>2 DEF ReplayedOf
    <2>2. (TypeOK => Decides)'
      BY RecoveredAt, PTL
    <2>3. CASE ReplayedOf(k) = {}
      BY <2>1, <2>2, <2>3, RecoveredAt DEF Decides
    <2>4. CASE ReplayedOf(k) # {}
      <3>1. PICK i \in ReplayedOf(k) : \A j \in ReplayedOf(k) : j <= i
        BY <2>4, LastReplayed
      <3> QED
        BY <2>1, <2>2, <3>1, RecoveredAt DEF Decides
    <2> QED
      BY <2>3, <2>4
  <1>4. (TypeOK => Recovered \in Versions)'
    BY RecoveredType, PTL
  <1> QED
    BY <1>1, <1>2, <1>3, <1>4, RecoveredType DEF Versions

\* A journal that is empty, or superseded, leaves the word to the snapshot.
LEMMA NothingReplayed ==
  TypeOK => (Replayed = {} => Recovered = snapshot.versions)
  <1> SUFFICES ASSUME TypeOK, Replayed = {}
               PROVE  Recovered = snapshot.versions
    OBVIOUS
  <1>1. \A k \in Key : Recovered[k] = snapshot.versions[k]
    BY RecoveredAt, Positions DEF Decides
  <1>2. Recovered \in [Key -> Nat] /\ snapshot.versions \in [Key -> Nat]
    BY RecoveredType DEF TypeOK, Versions
  <1> QED
    BY <1>1, <1>2

\* What an append does to a replay.  Behind a torn record, or in a journal that has no
\* header, it does nothing.
LEMMA AppendReplays ==
  ASSUME TypeOK, TypeOK', NEW r \in Record \cup {Torn}, journal' = Append(journal, r),
         UNCHANGED <<snapshot, header>>
  PROVE  /\ \A i \in Valid' : i \in Valid \/ (i = Len(journal) + 1 /\ r \in Record)
         /\ \A i \in 1 .. Len(journal) : journal'[i] = journal[i]
         /\ journal'[Len(journal) + 1] = r
         /\ \A k \in Key : Damaged \/ r = Torn \/ r.key # k => Recovered'[k] = Recovered[k]
         /\ ~Damaged /\ header = "valid" /\ r \in Record /\ r.seq > snapshot.barrier =>
              Recovered'[r.key] = r.version
  <1> DEFINE n == Len(journal) + 1
  <1>1. /\ Len(journal) \in Nat /\ DOMAIN journal = 1 .. Len(journal) /\ DOMAIN journal' = 1 .. n
        /\ \A i \in 1 .. Len(journal) : journal'[i] = journal[i]
        /\ journal'[n] = r
    BY DEF TypeOK
  <1>2. \A i \in 1 .. Len(journal) : i \in Valid' <=> i \in Valid
    BY <1>1 DEF Valid
  <1>3. n \in Valid' <=> r \in Record /\ \A i \in DOMAIN journal : journal[i] # Torn
    BY <1>1, TornIsNoRecord DEF Valid
  <1>4. Valid \subseteq 1 .. Len(journal) /\ Valid' \subseteq 1 .. n
    BY <1>1 DEF Valid
  <1>5. \A i \in 1 .. Len(journal) : i \in Replayed' <=> i \in Replayed
    BY <1>1, <1>2 DEF Replayed
  <1>6. n \in Replayed' <=> /\ header = "valid" /\ r \in Record /\ r.seq > snapshot.barrier
                            /\ \A i \in DOMAIN journal : journal[i] # Torn
    BY <1>1, <1>3 DEF Replayed
  <1>7. \A k \in Key : \A i \in 1 .. Len(journal) : i \in ReplayedOf(k)' <=> i \in ReplayedOf(k)
    BY <1>1, <1>5 DEF ReplayedOf
  <1>8. \A k \in Key : ReplayedOf(k) \subseteq 1 .. Len(journal) /\ ReplayedOf(k)' \subseteq 1 .. n
    BY <1>4 DEF ReplayedOf, Replayed
  <1>9. (TypeOK => Decides)'
    BY RecoveredAt, PTL
  <1>10. ASSUME NEW k \in Key, Damaged \/ r = Torn \/ r.key # k
         PROVE  Recovered'[k] = Recovered[k]
    <2>1. n \notin ReplayedOf(k)'
      <3>1. n \in Replayed' => r # Torn /\ ~Damaged
        BY <1>6, TornIsNoRecord DEF Damaged
      <3> QED
        BY <1>1, <1>10, <3>1 DEF ReplayedOf
    <2>2. ReplayedOf(k)' = ReplayedOf(k)
      BY <1>7, <1>8, <2>1
    <2>3. CASE ReplayedOf(k) = {}
      BY <1>9, <2>2, <2>3, RecoveredAt DEF Decides
    <2>4. CASE ReplayedOf(k) # {}
      <3>1. PICK i \in ReplayedOf(k) : \A j \in ReplayedOf(k) : j <= i
        BY <2>4, LastReplayed
      <3>2. Recovered[k] = journal[i].version
        BY <3>1, RecoveredAt DEF Decides
      <3>3. Recovered'[k] = journal'[i].version
        BY <1>9, <2>2, <3>1 DEF Decides
      <3> QED
        BY <1>1, <1>8, <3>1, <3>2, <3>3
    <2> QED
      BY <2>3, <2>4
  <1>11. ASSUME ~Damaged, header = "valid", r \in Record, r.seq > snapshot.barrier
         PROVE  Recovered'[r.key] = r.version
    <2>1. r.key \in Key
      BY <1>11 DEF Record
    <2>2. n \in ReplayedOf(r.key)'
      BY <1>1, <1>6, <1>11 DEF ReplayedOf, Damaged
    <2>3. \A j \in ReplayedOf(r.key)' : j <= n
      BY <1>1, <1>8, <2>1
    <2> QED
      BY <1>1, <1>9, <2>1, <2>2, <2>3 DEF Decides
  <1> QED
    BY <1>1, <1>2, <1>3, <1>4, <1>10, <1>11

-----------------------------------------------------------------------------
(* Types *)

LEMMA WrittenIsRecord ==
  ASSUME TypeOK, record \in Record
  PROVE  Written \in Record /\ Written.seq = sequence + 1 /\ Written.key = record.key
         /\ Written.version = record.version
  BY DEF TypeOK, Written, Record

LEMMA BarrierIsAhead ==
  ASSUME TypeOK
  PROVE  Barrier \in Nat /\ Barrier > sequence
  <1> DEFINE S == {k \in Key : memory[k] > 0}
  <1>1. Cardinality(S) \in Nat
    <2>1. S \in SUBSET Key /\ IsFiniteSet(Key)
      BY StoreAssumption
    <2> HIDE DEF S
    <2> QED
      BY <2>1, FS_Subset, FS_CardinalityType
  <1> QED
    BY <1>1 DEF TypeOK, Barrier

LEMMA LeavingsAreTyped ==
  ASSUME TypeOK, record \in Record,
         journal' \in Leavings \cup {Append(journal, Written)}
  PROVE  \/ UNCHANGED journal
         \/ \E r \in {Written, Torn} : journal' = Append(journal, r) /\ r \in Record \cup {Torn}
  BY WrittenIsRecord DEF Leavings

LEMMA AppendTyped ==
  ASSUME TypeOK, NEW r \in Record \cup {Torn}, journal' = Append(journal, r)
  PROVE  journal' \in Seq(Record \cup {Torn})
  BY DEF TypeOK

LEMMA StepTypes ==
  ASSUME TypeOK, Room, RecordOK, [Next]_vars
  PROVE  TypeOK' /\ Room'
  <1> USE StoreAssumption
  <1>1. CASE UNCHANGED vars
    BY <1>1 DEF vars, inside, files, history, TypeOK, Room
  <1>2. ASSUME NEW k \in Key, NEW early \in BOOLEAN, JournalRecord(k, early)
        PROVE  TypeOK' /\ Room'
    <2>1. record' \in Record /\ memory' \in Versions
      BY <1>2 DEF JournalRecord, TypeOK, Versions, Record
    <2> QED
      BY <1>2, <2>1 DEF JournalRecord, TypeOK, Room, files, history, needs_checkpoint
  <1>3. CASE AppendRecord
    <2>1. record \in Record
      BY <1>3 DEF AppendRecord, RecordOK, Busy
    <2>2. journal' \in Seq(Record \cup {Torn})
      BY <1>3, <2>1, WrittenIsRecord, AppendTyped DEF AppendRecord
    <2>3. acked' \in Versions /\ safe' \in Versions /\ memory' \in Versions
      BY <1>3, <2>1 DEF AppendRecord, Acknowledge, TypeOK, Versions, Record
    <2> QED
      BY <1>3, <2>2, <2>3 DEF AppendRecord, TypeOK, Room
  <1>4. CASE AppendFails
    <2>1. record \in Record
      BY <1>4 DEF AppendFails, RecordOK, Busy
    <2>2. journal' \in Seq(Record \cup {Torn})
      BY <1>4, <2>1, LeavingsAreTyped, AppendTyped DEF AppendFails, TypeOK
    <2> QED
      BY <1>4, <2>2 DEF AppendFails, TypeOK, Room, history
  <1>5. CASE RenameSnapshot
    BY <1>5, BarrierIsAhead DEF RenameSnapshot, TypeOK, Room, history
  <1>6. CASE TruncateJournal
    <2>1. <<>> \in Seq(Record \cup {Torn})
      OBVIOUS
    <2> QED
      BY <1>6, <2>1 DEF TruncateJournal, TypeOK, Room, history
  <1>11. CASE CheckpointFails
    <2>1. header' \in {"absent", "short", "valid"} /\ handle' \in BOOLEAN
      BY <1>11 DEF CheckpointFails, TypeOK
    <2> QED
      BY <1>11, <2>1 DEF CheckpointFails, TypeOK, Room, history
  <1>7. CASE ReopenJournal
    BY <1>7 DEF ReopenJournal, SequenceAfterCheckpoint, TypeOK, Room, history
  <1>8. CASE Crash
    <2>1. journal' \in Seq(Record \cup {Torn})
      BY <1>8, LeavingsAreTyped, AppendTyped DEF Crash, RecordOK, Busy, TypeOK
    <2> QED
      <3>1. memory' \in Versions /\ lost' \in BOOLEAN
        BY <1>8 DEF Crash, TypeOK, Versions
      <3>2. /\ sequence' = 0 /\ count' = 0 /\ handle' = FALSE /\ pc' = "down" /\ record' = Torn
            /\ UNCHANGED <<snapshot, header, acked, safe, restarts>>
        BY <1>8 DEF Crash
      <3>3. sequence' \in Nat /\ count' \in 0 .. MaxJournal /\ Room'
        BY <3>2 DEF Room
      <3>4. handle' \in BOOLEAN /\ record' \in Record \cup {Torn}
        BY <3>2
      <3> QED
        BY <2>1, <3>1, <3>2, <3>3, <3>4 DEF TypeOK
  <1>9. CASE CreateTorn
    BY <1>9 DEF CreateTorn, TypeOK, Room, inside
  <1>10. CASE Restart
    <2>1. memory' \in Versions /\ sequence' \in Nat
      BY <1>10, RecoveredType, RecoveredSequenceIs DEF Restart
    <2>2. header' \in {"absent", "short", "valid"}
      BY <1>10 DEF Restart, HeaderAfterOpen, TypeOK
    <2> QED
      BY <1>10, <2>1, <2>2 DEF Restart, TypeOK, Room, history
  <1> QED
    BY <1>1, <1>2, <1>3, <1>4, <1>5, <1>6, <1>7, <1>8, <1>9, <1>10, <1>11 DEF Next

-----------------------------------------------------------------------------
(* The steps *)

LEMMA StepRecord ==
  ASSUME TypeOK, RecordOK, [Next]_vars
  PROVE  RecordOK'
  <1>1. CASE UNCHANGED vars
    BY <1>1 DEF vars, inside, RecordOK
  <1>2. ASSUME NEW k \in Key, NEW early \in BOOLEAN, JournalRecord(k, early)
        PROVE  RecordOK'
    BY <1>2 DEF JournalRecord, RecordOK, TypeOK, Versions, Record
  <1>3. CASE AppendRecord \/ AppendFails \/ CheckpointFails \/ Crash \/ CreateTorn \/ Restart
    BY <1>3 DEF AppendRecord, AppendFails, CheckpointFails, Crash, CreateTorn, Restart, inside,
                RecordOK, Busy
  <1>4. CASE RenameSnapshot \/ TruncateJournal \/ ReopenJournal
    BY <1>4 DEF RenameSnapshot, TruncateJournal, ReopenJournal, RecordOK, Busy
  <1> QED
    BY <1>1, <1>2, <1>3, <1>4 DEF Next

LEMMA StepHeadless ==
  ASSUME TypeOK, Superseded, Headless, [Next]_vars
  PROVE  Headless'
  <1>1. CASE UNCHANGED vars
    BY <1>1 DEF vars, inside, files, history, Headless
  <1>2. ASSUME NEW k \in Key, NEW early \in BOOLEAN, JournalRecord(k, early)
        PROVE  Headless'
    BY <1>2 DEF JournalRecord, files, history, Headless
  <1>3. CASE AppendRecord
    BY <1>3 DEF AppendRecord, Headless
  <1>4. CASE AppendFails
    BY <1>4 DEF AppendFails, history, Headless
  <1>5. CASE RenameSnapshot \/ TruncateJournal
    BY <1>5 DEF RenameSnapshot, TruncateJournal, history, Headless
  <1>6. CASE ReopenJournal
    BY <1>6 DEF ReopenJournal, Headless
  <1>7. CASE CheckpointFails
    BY <1>7 DEF CheckpointFails, history, Headless, Superseded
  <1>8. CASE Crash
    <2>1. header = "absent" => journal' = <<>>
      BY <1>8 DEF Crash, Headless
    <2> QED
      BY <1>8, <2>1 DEF Crash, Headless
  <1>9. CASE CreateTorn
    BY <1>9 DEF CreateTorn, inside, Headless
  <1>10. CASE Restart
    BY <1>10 DEF Restart, HeaderAfterOpen, Unreadable, history, Headless
  <1> QED
    BY <1>1, <1>2, <1>3, <1>4, <1>5, <1>6, <1>7, <1>8, <1>9, <1>10 DEF Next

\* What an append or its failure leaves behind, if anything.
LEMMA AppendLeaves ==
  ASSUME TypeOK, TypeOK', RecordOK, AppendRecord \/ AppendFails \/ Crash
  PROVE  /\ UNCHANGED <<snapshot, header>>
         /\ \/ UNCHANGED journal
            \/ /\ pc = "append" /\ handle /\ record \in Record
               /\ \E r \in {Written, Torn} :
                    journal' = Append(journal, r) /\ r \in Record \cup {Torn}
  <1>1. CASE AppendRecord
    BY <1>1, WrittenIsRecord DEF AppendRecord, RecordOK, Busy
  <1>2. CASE AppendFails
    BY <1>2, LeavingsAreTyped DEF AppendFails, RecordOK, Busy
  <1>3. CASE Crash
    BY <1>3, LeavingsAreTyped DEF Crash, RecordOK, Busy
  <1> QED
    BY <1>1, <1>2, <1>3

LEMMA StepNumbered ==
  ASSUME TypeOK, TypeOK', RecordOK, Numbered, Superseded, Headless, [Next]_vars
  PROVE  Numbered'
  <1>0. journal' = <<>> => Valid' = {}
    BY DEF Valid
  <1>1. CASE UNCHANGED vars
    BY <1>1, SameFiles DEF vars, inside, files, Numbered
  <1>2. ASSUME NEW k \in Key, NEW early \in BOOLEAN, JournalRecord(k, early)
        PROVE  Numbered'
    BY <1>2, SameFiles DEF JournalRecord, files, Numbered
  <1>3. CASE AppendRecord \/ AppendFails
    <2>1. sequence' = sequence + 1 /\ handle' = handle /\ pc = "append"
      BY <1>3 DEF AppendRecord, AppendFails
    <2>2. \A i \in Valid' : journal'[i].seq <= sequence'
      <3>1. CASE UNCHANGED journal
        <4>1. Valid' = Valid
          BY <3>1 DEF Valid
        <4> QED
          BY <2>1, <3>1, <4>1, Positions DEF Numbered, Record, TypeOK
      <3>2. CASE record \in Record /\ \E r \in {Written, Torn} :
                   journal' = Append(journal, r) /\ r \in Record \cup {Torn}
        <4>1. PICK r \in {Written, Torn} : journal' = Append(journal, r) /\ r \in Record \cup {Torn}
          BY <3>2
        <4>2. UNCHANGED <<snapshot, header>>
          BY <1>3, AppendLeaves
        <4>3. ASSUME NEW i \in Valid'
              PROVE  journal'[i].seq <= sequence'
          <5>1. CASE i \in Valid
            <6>1. i \in 1 .. Len(journal) /\ journal[i].seq <= sequence /\ journal[i] \in Record
              BY <2>1, <5>1, Positions DEF Numbered
            <6>2. journal'[i] = journal[i]
              BY <4>1, <4>2, <6>1, AppendReplays
            <6> QED
              BY <2>1, <6>1, <6>2 DEF Record, TypeOK
          <5>2. CASE i = Len(journal) + 1 /\ r \in Record
            <6>1. journal'[i] = r /\ r = Written
              BY <4>1, <4>2, <5>2, AppendReplays, TornIsNoRecord
            <6> QED
              BY <2>1, <3>2, <6>1, WrittenIsRecord DEF TypeOK
          <5> QED
            BY <4>1, <4>2, <4>3, <5>1, <5>2, AppendReplays
        <4> QED
          BY <4>3
      <3> QED
        BY <1>3, <3>1, <3>2, AppendLeaves
    <2>3. handle => sequence' >= snapshot'.barrier
      BY <1>3, <2>1, AppendLeaves DEF Numbered, TypeOK
    <2> QED
      BY <2>1, <2>2, <2>3 DEF Numbered
  <1>4. CASE RenameSnapshot
    <2>1. Valid' = Valid
      BY <1>4 DEF RenameSnapshot, Valid
    <2> QED
      BY <1>4, <2>1 DEF RenameSnapshot, Numbered
  <1>5. CASE TruncateJournal
    BY <1>0, <1>5 DEF TruncateJournal, Numbered
  <1>6. CASE ReopenJournal
    BY <1>0, <1>6 DEF ReopenJournal, SequenceAfterCheckpoint, Superseded, Numbered, TypeOK
  <1>7. CASE CheckpointFails
    <2>1. Valid' = Valid
      BY <1>7 DEF CheckpointFails, Valid
    <2> QED
      BY <1>7, <2>1 DEF CheckpointFails, Superseded, Numbered
  <1>8. CASE Crash
    BY <1>8 DEF Crash, Numbered
  <1>9. CASE CreateTorn
    BY <1>9 DEF CreateTorn, inside, Numbered
  <1>10. CASE Restart
    <2>1. Valid' = Valid
      BY <1>10 DEF Restart, Valid
    <2>2. \A i \in Valid : journal[i].seq <= RecoveredSequence
      <3>1. CASE header = "valid"
        <4>1. \A i \in Valid : journal[i].seq \in Nat /\
                              (i \in Replayed \/ journal[i].seq <= snapshot.barrier)
          BY <3>1, Positions DEF Replayed, Record, TypeOK
        <4> QED
          BY <4>1, RecoveredSequenceIs DEF TypeOK
      <3>2. CASE header # "valid"
        <4>1. journal = <<>>
          BY <1>10, <3>2 DEF Restart, Unreadable, Headless, TypeOK
        <4>2. Valid = {}
          BY <4>1 DEF Valid
        <4> QED
          BY <4>2
      <3> QED
        BY <3>1, <3>2
    <2> QED
      BY <1>10, <2>1, <2>2, RecoveredSequenceIs DEF Restart, Numbered
  <1> QED
    BY <1>1, <1>2, <1>3, <1>4, <1>5, <1>6, <1>7, <1>8, <1>9, <1>10 DEF Next

LEMMA EmptyJournal == journal = <<>> => Replayed = {}
  BY DEF Replayed, Valid

\* The barrier of a new snapshot is beyond everything that is in the journal.
LEMMA RenameSupersedes ==
  ASSUME TypeOK, TypeOK', Numbered, RenameSnapshot
  PROVE  Replayed' = {}
  <1>1. Valid' = Valid /\ journal' = journal
    BY DEF RenameSnapshot, Valid
  <1>2. snapshot'.barrier = Barrier /\ \A i \in Valid : journal[i].seq <= sequence
    BY DEF RenameSnapshot, Numbered
  <1>3. \A i \in Valid : journal[i].seq \in Nat
    BY Positions DEF Record
  <1>4. \A i \in Valid : ~(journal[i].seq > Barrier)
    BY <1>2, <1>3, BarrierIsAhead DEF TypeOK
  <1> QED
    BY <1>1, <1>2, <1>4 DEF Replayed

LEMMA StepSuperseded ==
  ASSUME TypeOK, TypeOK', Numbered, Superseded, [Next]_vars
  PROVE  Superseded'
  <1>0. (journal = <<>> => Replayed = {})'
    BY EmptyJournal, PTL
  <1>1. CASE UNCHANGED vars
    BY <1>1, SameFiles DEF vars, inside, files, Superseded
  <1>2. ASSUME NEW k \in Key, NEW early \in BOOLEAN, JournalRecord(k, early)
        PROVE  Superseded'
    BY <1>2 DEF JournalRecord, Superseded
  <1>3. CASE AppendRecord \/ AppendFails \/ ReopenJournal \/ CheckpointFails \/ Crash \/ Restart
    BY <1>3 DEF AppendRecord, AppendFails, ReopenJournal, CheckpointFails, Crash, Restart,
                Superseded
  <1>4. CASE RenameSnapshot
    BY <1>4, RenameSupersedes DEF RenameSnapshot, Superseded
  <1>5. CASE TruncateJournal
    BY <1>0, <1>5 DEF TruncateJournal, Superseded
  <1>6. CASE CreateTorn
    BY <1>6 DEF CreateTorn, inside, Superseded
  <1> QED
    BY <1>1, <1>2, <1>3, <1>4, <1>5, <1>6 DEF Next

LEMMA StepAhead ==
  ASSUME TypeOK, TypeOK', RecordOK, MemoryIsAhead, SafeSurvives, [Next]_vars
  PROVE  MemoryIsAhead'
  <1>1. CASE UNCHANGED <<pc, memory, safe>>
    BY <1>1 DEF MemoryIsAhead
  <1>2. ASSUME NEW k \in Key, NEW early \in BOOLEAN, JournalRecord(k, early)
        PROVE  MemoryIsAhead'
    <2>1. \A m \in Key : memory[m] \in Nat /\ safe[m] \in Nat /\ memory'[m] >= memory[m]
      <3>1. \/ memory' = memory
            \/ memory' = [memory EXCEPT ![k] = memory[k] + 1]
        BY <1>2 DEF JournalRecord
      <3>2. memory \in [Key -> Nat] /\ safe \in [Key -> Nat]
        BY DEF TypeOK, Versions
      <3> QED
        BY <3>1, <3>2
    <2>2. pc # "down" /\ safe' = safe /\ \A m \in Key : memory'[m] \in Nat
      BY <1>2 DEF JournalRecord, history, TypeOK, Versions
    <2> QED
      BY <2>1, <2>2 DEF MemoryIsAhead
  <1>3. CASE AppendRecord
    <2>1. /\ record.key \in Key /\ record.version \in Nat
          /\ \A m \in Key : memory[m] \in Nat /\ safe[m] \in Nat
          /\ memory' = [memory EXCEPT ![record.key] = record.version]
          /\ safe' \in {safe, [safe EXCEPT ![record.key] = record.version]}
          /\ record.version >= memory[record.key] /\ pc # "down"
      BY <1>3 DEF AppendRecord, Acknowledge, RecordOK, Busy, Record, TypeOK, Versions
    <2>2. \A m \in Key : memory'[m] = IF m = record.key THEN record.version ELSE memory[m]
      BY <2>1 DEF TypeOK, Versions
    <2>3. \A m \in Key : safe'[m] \in {safe[m], IF m = record.key THEN record.version ELSE safe[m]}
      BY <2>1 DEF TypeOK, Versions
    <2>4. \A m \in Key : safe[m] <= memory[m]
      BY <2>1 DEF MemoryIsAhead
    <2> QED
      BY <2>1, <2>2, <2>3, <2>4 DEF MemoryIsAhead
  <1>4. CASE AppendFails \/ RenameSnapshot \/ TruncateJournal \/ ReopenJournal \/ CheckpointFails
    BY <1>4 DEF AppendFails, RenameSnapshot, TruncateJournal, ReopenJournal, CheckpointFails,
                history, MemoryIsAhead
  <1>5. CASE Crash
    BY <1>5 DEF Crash, MemoryIsAhead
  <1>6. CASE Restart
    <2>1. memory' = Recovered /\ safe' = safe
      BY <1>6 DEF Restart, history
    <2> QED
      BY <2>1, RecoveredType DEF SafeSurvives, MemoryIsAhead, TypeOK, Versions
  <1> QED
    BY <1>1, <1>2, <1>3, <1>4, <1>5, <1>6 DEF Next, vars, inside, history, CreateTorn

LEMMA StepSafe ==
  ASSUME Inv, TypeOK', [Next]_vars
  PROVE  SafeSurvives'
  <1> USE DEF Inv
  <1>0. /\ \A k \in Key : Recovered[k] \in Nat /\ safe[k] \in Nat /\ memory[k] \in Nat
        /\ \A k \in Key : Recovered[k] >= safe[k]
    BY RecoveredType DEF TypeOK, Versions, SafeSurvives
  <1>1. ASSUME UNCHANGED <<snapshot, journal, safe>>, (header = "valid") <=> (header' = "valid")
        PROVE  SafeSurvives'
    BY <1>0, <1>1, SameFiles DEF SafeSurvives
  <1>2. ASSUME Replayed' = {}, UNCHANGED safe,
               \/ snapshot'.versions = memory /\ pc # "down"
               \/ snapshot' = snapshot /\ Replayed = {}
        PROVE  SafeSurvives'
    <2>1. (TypeOK => (Replayed = {} => Recovered = snapshot.versions))'
      BY NothingReplayed, PTL
    <2> QED
      BY <1>0, <1>2, <2>1, NothingReplayed DEF SafeSurvives, MemoryIsAhead
  <1>3. (journal = <<>> => Replayed = {}) /\ (journal = <<>> => Replayed = {})'
    BY EmptyJournal, PTL
  <1>4. CASE UNCHANGED vars
    BY <1>1, <1>4 DEF vars, files, history
  <1>5. ASSUME NEW k \in Key, NEW early \in BOOLEAN, JournalRecord(k, early)
        PROVE  SafeSurvives'
    BY <1>1, <1>5 DEF JournalRecord, files, history
  <1>6. CASE (AppendRecord \/ AppendFails \/ Crash) /\ ~UNCHANGED journal
    <2>1. /\ UNCHANGED <<snapshot, header>>
          /\ pc = "append" /\ handle /\ record \in Record
      BY <1>6, AppendLeaves
    <2>2. PICK r \in {Written, Torn} : journal' = Append(journal, r) /\ r \in Record \cup {Torn}
      BY <1>6, AppendLeaves
    <2>3. /\ record.key \in Key /\ record.version \in Nat
          /\ record.version >= memory[record.key] /\ safe[record.key] <= memory[record.key]
          /\ Written.key = record.key /\ Written.version = record.version
          /\ Written.seq > snapshot.barrier
      BY <2>1, WrittenIsRecord DEF RecordOK, Busy, Record, MemoryIsAhead, Numbered, TypeOK
    <2>4. \A k \in Key : Damaged \/ r = Torn \/ r.key # k => Recovered'[k] = Recovered[k]
      BY <2>1, <2>2, AppendReplays
    <2>5. ~Damaged /\ r = Written => Recovered'[record.key] = record.version
      <3>1. ~Damaged => header = "valid"
        BY <2>1 DEF Damaged, Headless, TypeOK
      <3> QED
        BY <2>1, <2>2, <2>3, <3>1, AppendReplays, WrittenIsRecord
    <2>6. \A k \in Key : safe'[k] = safe[k] \/ (k = record.key /\ safe'[k] = record.version /\ ~Damaged /\ r = Written)
      <3>1. CASE AppendRecord
        <4>1. r = Written
          <5>1. journal'[Len(journal) + 1] = Written
            BY <2>1, <3>1, WrittenIsRecord, AppendReplays DEF AppendRecord
          <5>2. journal'[Len(journal) + 1] = r
            BY <2>1, <2>2, AppendReplays
          <5> QED
            BY <5>1, <5>2
        <4> QED
          BY <3>1, <4>1 DEF AppendRecord, Acknowledge, TypeOK, Versions
      <3> QED
        BY <1>6, <3>1 DEF AppendFails, Crash, history
    <2>7. ASSUME NEW k \in Key
          PROVE  Recovered'[k] >= safe'[k]
      <3>1. CASE Damaged \/ r = Torn \/ r.key # k
        <4>1. safe'[k] = safe[k]
          BY <2>1, <2>3, <2>6, <3>1, WrittenIsRecord, TornIsNoRecord
        <4> QED
          BY <1>0, <2>4, <3>1, <4>1
      <3>2. CASE ~Damaged /\ r = Written /\ k = record.key
        <4>1. Recovered'[k] = record.version
          BY <2>5, <3>2
        <4>2. safe'[k] \in {safe[k], record.version}
          BY <2>6
        <4> QED
          BY <1>0, <2>3, <3>2, <4>1, <4>2
      <3> QED
        BY <2>2, <2>3, <3>1, <3>2
    <2> QED
      BY <2>7 DEF SafeSurvives
  <1>7. CASE (AppendFails \/ Crash) /\ UNCHANGED journal
    BY <1>1, <1>7, AppendLeaves DEF AppendFails, Crash, history
  <1>8. CASE RenameSnapshot
    BY <1>2, <1>8, RenameSupersedes DEF RenameSnapshot, history
  <1>9. CASE TruncateJournal
    BY <1>2, <1>3, <1>9 DEF TruncateJournal, history, Superseded
  <1>10. CASE ReopenJournal
    BY <1>2, <1>3, <1>10 DEF ReopenJournal, history, Superseded
  <1>11. CASE CheckpointFails
    <2>1. CASE pc = "header"
      BY <1>2, <1>3, <1>11, <2>1 DEF CheckpointFails, history, Superseded
    <2>2. CASE pc # "header"
      BY <1>1, <1>11, <2>2 DEF CheckpointFails, history
    <2> QED
      BY <2>1, <2>2
  <1>12. CASE CreateTorn
    BY <1>1, <1>12 DEF CreateTorn
  <1>13. CASE Restart
    <2>1. CASE header = "absent"
      BY <1>2, <1>3, <1>13, <2>1 DEF Restart, history, Headless
    <2>2. CASE header # "absent"
      BY <1>1, <1>13, <2>2 DEF Restart, history, HeaderAfterOpen
    <2> QED
      BY <2>1, <2>2
  <1>14. ~(AppendRecord /\ UNCHANGED journal)
    BY DEF AppendRecord, TypeOK
  <1> QED
    BY <1>4, <1>5, <1>6, <1>7, <1>8, <1>9, <1>10, <1>11, <1>12, <1>13, <1>14 DEF Next

-----------------------------------------------------------------------------
(* The theorems *)

LEMMA Invariance == Spec => []Inv
  <1>1. Init => Inv
    <2> SUFFICES ASSUME Init
                 PROVE  Inv
      OBVIOUS
    <2>1. TypeOK
      <3>1. [k \in Key |-> 0] \in Versions /\ NoSnapshot \in [versions: Versions, barrier: Nat]
        BY DEF Versions, NoSnapshot
      <3>2. <<>> \in Seq(Record \cup {Torn}) /\ 0 \in 0 .. MaxJournal
        BY StoreAssumption
      <3> QED
        BY <3>1, <3>2 DEF Init, TypeOK
    <2>2. Replayed = {}
      BY EmptyJournal DEF Init
    <2>3. SafeSurvives
      BY <2>1, <2>2, NothingReplayed DEF Init, NoSnapshot, SafeSurvives
    <2> QED
      BY <2>1, <2>2, <2>3 DEF Init, Inv, Room, RecordOK, Busy, MemoryIsAhead, Numbered, Superseded,
                              Headless
  <1>2. Inv /\ [Next]_vars => Inv'
    BY StepTypes, StepRecord, StepHeadless, StepNumbered, StepSuperseded, StepAhead, StepSafe
       DEF Inv
  <1> QED
    BY <1>1, <1>2, PTL DEF Spec

\* Every file and every counter of the store has its type; count never exceeds the limit
\* that makes maybe_checkpoint_locked compact the journal.
THEOREM TypeCorrect == Spec => []TypeOK
  <1>1. Inv => TypeOK
    BY DEF Inv
  <1> QED
    BY <1>1, Invariance, PTL

\* What journal_record reported as durable for a journal without damage is what a restart
\* recovers, or something later: at whatever step of an append or a checkpoint the process
\* dies, whatever fails, and whatever damage later crashes do.
THEOREM SafeRecordsSurvive == Spec => []SafeSurvives
  <1>1. Inv => SafeSurvives
    BY DEF Inv
  <1> QED
    BY <1>1, Invariance, PTL

\* From the rename of a snapshot on, what is left of the journal is superseded: a crash
\* before the truncation recovers the state the snapshot was taken of.
THEOREM SnapshotSupersedes == Spec => []SnapshotDecides
  <1>1. Inv => SnapshotDecides
    BY NothingReplayed DEF Inv, Superseded, SnapshotDecides
  <1> QED
    BY <1>1, Invariance, PTL

\* Only a crash between the creation or truncation of a journal and the writing of its
\* header makes open() refuse the files.
THEOREM StoreOpens == Spec => []AlwaysOpens
  <1>1. Inv => AlwaysOpens
    BY DEF Inv, Headless, Unreadable, AlwaysOpens
  <1> QED
    BY <1>1, Invariance, PTL

-----------------------------------------------------------------------------
(* Without damage *)

\* Appends and checkpoints may fail at any step and the process may die at any time, but
\* what is written of the journal is written completely.
Undamaged == Faults \cap {"torn", "header"} = {}

Intact == ~lost /\ safe = acked /\ \A i \in DOMAIN journal : journal[i] # Torn

LEMMA StepIntact ==
  ASSUME Undamaged, Inv, Intact, TypeOK', [Next]_vars
  PROVE  Intact'
  <1> USE DEF Inv
  <1>1. CASE UNCHANGED <<lost, safe, acked, journal>>
    BY <1>1 DEF Intact
  <1>2. CASE AppendRecord
    <2>1. header # "short"
      BY <1>2 DEF AppendRecord, Headless, Intact
    <2>2. ~Damaged
      BY <2>1 DEF Damaged, Intact
    <2>3. safe' = acked' /\ lost' = lost
      BY <1>2, <2>2 DEF AppendRecord, Acknowledge, Intact
    <2>4. journal' = Append(journal, Written) /\ Written \in Record
      BY <1>2, WrittenIsRecord DEF AppendRecord, RecordOK, Busy
    <2>5. \A i \in DOMAIN journal' : journal'[i] # Torn
      BY <2>4, TornIsNoRecord DEF Intact, TypeOK
    <2> QED
      BY <2>3, <2>5 DEF Intact
  <1>3. CASE AppendFails \/ Crash
    <2>1. UNCHANGED <<safe, acked>> /\ ~lost'
      <3>1. CASE AppendFails
        BY <3>1 DEF AppendFails, history, Intact
      <3>2. CASE Crash
        <4>1. header # "short"
          BY <3>2 DEF Crash, Undamaged
        <4> QED
          BY <3>2, <4>1 DEF Crash, Intact
      <3> QED
        BY <1>3, <3>1, <3>2
    <2>2. UNCHANGED journal \/ (journal' = Append(journal, Written) /\ Written \in Record)
      BY <1>3, WrittenIsRecord
         DEF AppendFails, Crash, Leavings, Undamaged, RecordOK, Busy
    <2>3. \A i \in DOMAIN journal' : journal'[i] # Torn
      BY <2>2, TornIsNoRecord DEF Intact, TypeOK
    <2> QED
      BY <2>1, <2>3 DEF Intact
  <1>4. CASE TruncateJournal
    BY <1>4 DEF TruncateJournal, history, Intact
  <1>5. ~CreateTorn
    BY DEF CreateTorn, Undamaged
  <1> QED
    BY <1>1, <1>2, <1>3, <1>4, <1>5
       DEF Next, vars, files, history, JournalRecord, RenameSnapshot, ReopenJournal, CheckpointFails,
           Restart

\* Where no record and no header is torn, nothing that journal_record reported as durable
\* is ever lost.
THEOREM AcknowledgedRecordsSurvive ==
  ASSUME Undamaged
  PROVE  Spec => []AcknowledgedSurvives
  <1>1. Init => Intact
    BY DEF Init, Intact
  <1>2. Inv /\ Inv' /\ Intact /\ [Next]_vars => Intact'
    BY StepIntact DEF Inv
  <1>3. Inv /\ Intact => AcknowledgedSurvives
    BY DEF Inv, Intact, SafeSurvives, AcknowledgedSurvives
  <1> QED
    BY <1>1, <1>2, <1>3, Invariance, PTL DEF Spec

=============================================================================
