---------------------------- MODULE DurableStore ----------------------------
(***************************************************************************)
(* The durable store of src/durable.cpp and the three functions of the     *)
(* coordinator that use it: journal_record, maybe_checkpoint_locked and    *)
(* the replay at the beginning of recover_locked.                          *)
(*                                                                         *)
(* The process may die between any two effects on the disk: in the middle  *)
(* of an append, after the snapshot was renamed, after the journal was     *)
(* truncated, before its header is written.  Every record says which       *)
(* entity (a Key: a binding, an envelope, an attempt, the epoch) has which *)
(* version.                                                                *)
(***************************************************************************)
EXTENDS Integers, Sequences, FiniteSets

CONSTANTS
  Key,         \* the entities that are persisted
  Faults,      \* what may go wrong with the files
  MaxJournal,  \* limits.max_journal_records
  MaxVersion,  \* bound: versions of an entity
  MaxSequence, \* bound: sequence numbers taken, by appends that fail too
  MaxLength,   \* bound: records in the journal, which restarts let grow
  MaxRestarts  \* bound: restarts

AllFaults == {"append",       \* an append fails and leaves nothing behind
              "flush",        \* an append fails although its record was written
              "checkpoint",   \* a checkpoint fails at one of its steps
              "torn",         \* a record may be written in part
              "header"}       \* a journal may be left without its header

ASSUME StoreAssumption ==
  /\ IsFiniteSet(Key) /\ "torn" \notin Key
  /\ Faults \subseteq AllFaults
  /\ MaxJournal \in Nat \ {0}
  /\ MaxVersion \in Nat /\ MaxLength \in Nat /\ MaxSequence \in Nat /\ MaxRestarts \in Nat

VARIABLES
  memory,    \* the version of each entity in memory; 0 if it does not exist
  sequence,  \* durable_sequence_
  count,     \* journal_records_
  handle,    \* journal_ # nullptr
  pc,        \* the step of journal_record
  record,    \* the record that is journaled
  snapshot,  \* snapshot.pfs: versions and sequence barrier
  header,    \* the header of journal.pfj
  journal,   \* the records of journal.pfj
  acked,     \* the versions whose append was reported as durable
  safe,      \* the same, of the appends to a journal without damage
  lost,      \* a crash left a journal without its header
  restarts   \* restarts so far

files  == <<snapshot, header, journal>>
inside == <<memory, sequence, count, handle, pc, record>>
history == <<acked, safe, lost>>
vars   == <<inside, files, history, restarts>>

-----------------------------------------------------------------------------
(* Data *)

Versions == [Key -> Nat]
Record == [seq: Nat, key: Key, version: Nat]
\* What a partial write leaves: replay stops here.
Torn   == [seq |-> 0, key |-> "torn", version |-> 0]
NoSnapshot == [versions |-> [k \in Key |-> 0], barrier |-> 0]

-----------------------------------------------------------------------------
(* What open() and the replay of recover_locked make of the files *)

\* load_journal: the records before the first one that is damaged, and of these
\* the ones that the snapshot does not supersede.
Valid == {i \in DOMAIN journal : \A j \in 1 .. i : journal[j] # Torn}
Replayed == {i \in Valid : header = "valid" /\ journal[i].seq > snapshot.barrier}
ReplayedOf(k) == {i \in Replayed : journal[i].key = k}

\* The last record of an entity decides.
Recovered ==
  [k \in Key |->
     IF ReplayedOf(k) = {} THEN snapshot.versions[k]
     ELSE journal[CHOOSE i \in ReplayedOf(k) : \A j \in ReplayedOf(k) : j <= i].version]

\* recover_locked continues the largest sequence number that it replays.
RecoveredSequence ==
  CHOOSE s \in {snapshot.barrier} \cup {journal[i].seq : i \in Replayed} :
    \A r \in {snapshot.barrier} \cup {journal[i].seq : i \in Replayed} : r <= s

\* A journal whose first bytes are not a header is refused.
Unreadable == header = "short" /\ journal # <<>>

Damaged == header = "short" \/ \E i \in DOMAIN journal : journal[i] = Torn

-----------------------------------------------------------------------------
(* journal_record *)

\* Variant: one record too many.
needs_checkpoint_late == count > MaxJournal
needs_checkpoint == count >= MaxJournal

\* The memory may have the new version before the record is journaled
\* (apply_transition), or only afterwards (the reservation of an attempt).
JournalRecord(k, early) ==
  /\ pc = "ready"
  /\ memory[k] < MaxVersion
  /\ sequence < MaxSequence /\ Len(journal) < MaxLength
  /\ memory' = IF early THEN [memory EXCEPT ![k] = @ + 1] ELSE memory
  /\ record' = [seq |-> 0, key |-> k, version |-> memory[k] + 1]
  /\ pc' = IF needs_checkpoint THEN "checkpoint" ELSE "append"
  /\ UNCHANGED <<sequence, count, handle, files, history, restarts>>

\* The record is on stable storage before it is acknowledged.
Acknowledge ==
  /\ acked' = [acked EXCEPT ![record.key] = record.version]
  /\ safe' = IF Damaged THEN safe ELSE [safe EXCEPT ![record.key] = record.version]
  /\ memory' = [memory EXCEPT ![record.key] = record.version]

Written == [record EXCEPT !.seq = sequence + 1]

AppendRecord ==
  /\ pc = "append"
  /\ handle
  /\ sequence' = sequence + 1
  /\ journal' = Append(journal, Written)
  /\ count' = count + 1
  /\ Acknowledge
  /\ pc' = "ready" /\ record' = Torn
  /\ UNCHANGED <<handle, snapshot, header, lost, restarts>>

\* What a failed or interrupted append may leave at the end of the journal.  Bound: a
\* second torn record, which no replay reaches, is left out.
Leavings ==
  {journal} \cup (IF "flush" \in Faults THEN {Append(journal, Written)} ELSE {})
            \cup (IF "torn" \in Faults /\ ~Damaged THEN {Append(journal, Torn)} ELSE {})

\* The sequence number is taken before the append is tried.
AppendFails ==
  /\ pc = "append"
  /\ sequence' = sequence + 1
  /\ \/ ~handle /\ UNCHANGED journal
     \/ handle /\ Faults \cap {"append", "flush", "torn"} # {} /\ journal' \in Leavings
  /\ pc' = "ready" /\ record' = Torn
  /\ UNCHANGED <<memory, count, handle, snapshot, header, history, restarts>>

-----------------------------------------------------------------------------
(* maybe_checkpoint_locked and DurableStore::checkpoint *)

\* Variant: the compacted records are numbered from one.
BarrierFromOne == 1 + Cardinality({k \in Key : memory[k] > 0})
\* One record per entity and one for the epoch, numbered on from sequence.
Barrier == sequence + 1 + Cardinality({k \in Key : memory[k] > 0})

\* The temporary file is complete and replaces the snapshot.
RenameSnapshot ==
  /\ pc = "checkpoint"
  /\ snapshot' = [versions |-> memory, barrier |-> Barrier]
  /\ pc' = "truncate"
  /\ UNCHANGED <<memory, sequence, count, handle, record, header, journal, history, restarts>>

TruncateJournal ==
  /\ pc = "truncate"
  /\ handle' = FALSE
  /\ header' = "short" /\ journal' = <<>>
  /\ pc' = "header"
  /\ UNCHANGED <<memory, sequence, count, record, snapshot, history, restarts>>

\* Variant: the sequence is not moved past the snapshot's records.
SequenceAsBefore == sequence
SequenceAfterCheckpoint == snapshot.barrier

\* The journal has a header and is open again; the append goes on.
ReopenJournal ==
  /\ pc = "header"
  /\ header' = "valid"
  /\ handle' = TRUE
  /\ count' = 0
  /\ sequence' = SequenceAfterCheckpoint
  /\ pc' = "append"
  /\ UNCHANGED <<memory, record, snapshot, journal, history, restarts>>

\* The step that fails ends journal_record; what was done so far stays.
CheckpointFails ==
  /\ "checkpoint" \in Faults
  /\ \/ pc = "checkpoint" /\ UNCHANGED <<handle, header>>
     \/ pc = "truncate" /\ handle' = FALSE /\ UNCHANGED header
     \/ pc = "header" /\ header' = "valid" /\ UNCHANGED handle
     \/ pc = "header" /\ "header" \in Faults /\ UNCHANGED <<header, handle>>
  /\ pc' = "ready" /\ record' = Torn
  /\ UNCHANGED <<memory, sequence, count, snapshot, journal, history, restarts>>

-----------------------------------------------------------------------------
(* Crashes and restarts *)

\* The process dies and its memory is lost; an append may have got anywhere.
Crash ==
  /\ pc # "down"
  /\ header = "short" => "header" \in Faults
  /\ pc' = "down"
  /\ \/ UNCHANGED journal
     \/ pc = "append" /\ handle /\ journal' \in Leavings \cup {Append(journal, Written)}
  /\ memory' = [k \in Key |-> 0] /\ sequence' = 0 /\ count' = 0 /\ handle' = FALSE
  /\ record' = Torn
  /\ lost' = (lost \/ header = "short")
  /\ UNCHANGED <<snapshot, header, acked, safe, restarts>>

\* open() creates a missing journal; a crash may leave it without its header.
CreateTorn ==
  /\ pc = "down" /\ header = "absent"
  /\ "header" \in Faults
  /\ header' = "short"
  /\ lost' = TRUE
  /\ UNCHANGED <<inside, snapshot, journal, acked, safe, restarts>>

\* Variant: the journal is opened for append, which creates it empty.
HeaderOfAppendMode == IF header = "absent" THEN "short" ELSE header
HeaderAfterOpen == IF header = "absent" THEN "valid" ELSE header

\* open() and the replay.  A damaged tail stays in the journal, and so does a
\* header that is too short.
Restart ==
  /\ pc = "down"
  /\ restarts < MaxRestarts
  /\ ~Unreadable
  /\ header' = HeaderAfterOpen
  /\ memory' = Recovered
  /\ sequence' = RecoveredSequence
  /\ count' = 0
  /\ handle' = TRUE
  /\ pc' = "ready"
  /\ restarts' = restarts + 1
  /\ UNCHANGED <<record, snapshot, journal, history>>

-----------------------------------------------------------------------------
(* The specification *)

Init ==
  /\ memory = [k \in Key |-> 0]
  /\ sequence = 0 /\ count = 0 /\ handle = FALSE
  /\ pc = "down"
  /\ record = Torn
  /\ snapshot = NoSnapshot
  /\ header = "absent" /\ journal = <<>>
  /\ acked = [k \in Key |-> 0] /\ safe = acked /\ lost = FALSE
  /\ restarts = 0

Next ==
  \/ \E k \in Key, early \in BOOLEAN : JournalRecord(k, early)
  \/ AppendRecord \/ AppendFails
  \/ RenameSnapshot \/ TruncateJournal \/ ReopenJournal \/ CheckpointFails
  \/ Crash \/ CreateTorn \/ Restart

Spec == Init /\ [][Next]_vars

-----------------------------------------------------------------------------
(* Properties *)

\* Every file and every counter has its type.
TypeOK ==
  /\ memory \in Versions /\ acked \in Versions /\ safe \in Versions
  /\ lost \in BOOLEAN
  /\ sequence \in Nat /\ count \in 0 .. MaxJournal
  /\ handle \in BOOLEAN
  /\ pc \in {"down", "ready", "checkpoint", "truncate", "header", "append"}
  /\ record \in Record \cup {Torn}
  /\ snapshot \in [versions: Versions, barrier: Nat]
  /\ header \in {"absent", "short", "valid"}
  /\ journal \in Seq(Record \cup {Torn})
  /\ restarts \in Nat

\* Whatever the process is doing when it dies, a restart recovers every version
\* that journal_record reported as durable, or a later one.
AcknowledgedSurvives == \A k \in Key : Recovered[k] >= acked[k]

\* The same, and whatever damage crashes do later, for what was appended to a journal
\* that had no damage: a torn record hides what follows it and nothing else, and the
\* next checkpoint ends that.
SafeSurvives == \A k \in Key : Recovered[k] >= safe[k]

\* From the rename on, and until the journal is used again, a crash recovers the
\* state the snapshot was taken of: what is left of the journal is superseded.
SnapshotDecides ==
  pc \in {"truncate", "header"} => Recovered = snapshot.versions

\* Unless a crash hits between truncating or creating a journal and writing its
\* header, the store never gets its files into a state that its own open() refuses.
AlwaysOpens == Unreadable => lost

=============================================================================
