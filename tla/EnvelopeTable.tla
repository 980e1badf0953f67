---------------------------- MODULE EnvelopeTable ----------------------------
(***************************************************************************)
(* The envelope table of the coordinator in src/fabric.cpp at its limit:   *)
(* the vector of entries with its two indexes, eviction, compaction, the   *)
(* minting of envelope ids, and what a checkpoint and a restart keep of    *)
(* them.  PacingFabric stays below max_envelopes, where none of this       *)
(* happens.                                                                *)
(*                                                                         *)
(* Every operation is one critical section.  What matters of an attempt is *)
(* the envelope it was made for and whether it is open, that is, not yet   *)
(* terminal.  The files hold every attempt, since attempts are never       *)
(* evicted, and the envelopes in the order in which the replay meets them. *)
(***************************************************************************)
EXTENDS Compaction

CONSTANTS
  Flow,             \* the flows that envelopes are derived for
  MaxEnvelopes,     \* limits.max_envelopes
  Window,           \* kEvictionScanWindow
  CompactionFloor,  \* the size that a table must exceed to be compacted: 1024
  Faults,           \* what may go wrong: "journal"
  MaxIds,           \* bound: envelope ids minted in an incarnation
  MaxAttempts,      \* bound: attempts, also limits.max_attempts
  MaxEpoch          \* bound: incarnations

ASSUME TableAssumption ==
  /\ MaxEnvelopes \in Nat \ {0} /\ Window \in Nat \ {0}
  /\ CompactionFloor \in Nat
  /\ Faults \subseteq {"journal"}
  /\ MaxIds \in Nat /\ MaxAttempts \in Nat /\ MaxEpoch \in Nat \ {0}

VARIABLES
  tab,       \* envelopes_, envelope_index_, latest_envelope_by_flow_, the counters
  minted,    \* envelope_ids_
  attempts,  \* attempts_: what each was made for, and whether it is open
  files,     \* the envelopes that a replay would deliver, in order
  epoch      \* the present incarnation

vars == <<tab, minted, attempts, files, epoch>>

-----------------------------------------------------------------------------
(* Data *)

\* An envelope carries the epoch of its authority; a restart advances it.
Envelope == [id: Nat, flow: Flow, epoch: Nat]
Entry    == [id: Nat, flow: Flow, epoch: Nat, live: BOOLEAN, revoked: BOOLEAN]
Attempt  == [envelope: Nat, epoch: Nat, open: BOOLEAN]

EmptyTable ==
  [entries |-> <<>>, index |-> <<>>, latest |-> <<>>, dead |-> 0, hint |-> 0]

Live(t)     == LiveOf(t.entries)
Least(S)    == CHOOSE i \in S : \A j \in S : i <= j
Greatest(S) == CHOOSE i \in S : \A j \in S : j <= i

\* find_envelope: the position of the live entry with this id, or 0.
find_envelope(t, id) ==
  IF id \in DOMAIN t.index /\ t.index[id] \in Live(t) THEN t.index[id] ELSE 0

\* attempts_by_envelope_ is keyed by the id alone and is never cleaned.
AttemptsOf(id) == {a \in DOMAIN attempts : attempts[a].envelope = id}

-----------------------------------------------------------------------------
(* The table: insertion, eviction, compaction *)

\* The indexes of a vector whose entries are all live.
Indexed(entries) ==
  LET Of(f) == {i \in DOMAIN entries : entries[i].flow = f}
  IN  [entries |-> entries,
       index   |-> [id \in {entries[i].id : i \in DOMAIN entries} |->
                      Greatest({i \in DOMAIN entries : entries[i].id = id})],
       latest  |-> [f \in {entries[i].flow : i \in DOMAIN entries} |-> Greatest(Of(f))],
       dead    |-> 0,
       hint    |-> 0]

Pushed(t, e) ==
  LET n == Len(t.entries) + 1
  IN  [t EXCEPT !.entries = Append(@, e),
                !.index  = [id \in DOMAIN @ \cup {e.id} |-> IF id = e.id THEN n ELSE @[id]],
                !.latest = [f \in DOMAIN @ \cup {e.flow} |-> IF f = e.flow THEN n ELSE @[f]]]

\* Variant: the entries move, their positions in the index of flows stay.
CompactKeepingLatest(t) ==
  [Indexed(Survivors(t.entries)) EXCEPT !.latest = t.latest]
compact_envelopes(t) == Indexed(Survivors(t.entries))

\* Variant: an open attempt does not keep its envelope.
EvictableAlways(e) == TRUE
\* Only the state of its attempts makes an envelope evictable.
Evictable(e) == \A a \in AttemptsOf(e.id) : ~attempts[a].open

\* Variant: the entry dies and its id stays in the index.
EvictedStillIndexed(t, i) ==
  [t EXCEPT !.entries[i].live = FALSE, !.dead = @ + 1, !.hint = i]
Evicted(t, i) ==
  LET e == t.entries[i]
  IN  [t EXCEPT !.entries[i].live = FALSE,
                !.index  = [id \in DOMAIN @ \ {e.id} |-> @[id]],
                !.latest = [f \in {g \in DOMAIN @ : @[g] # i} |-> @[f]],
                !.dead = @ + 1,
                !.hint = i]

\* One window of the vector is scanned, from where the last scan ended.
Evict(t) ==
  LET size  == Len(t.entries)
      begin == Least({t.hint, size})
      end   == Least({size, begin + Window})
      Found == {i \in begin + 1 .. end : t.entries[i].live /\ Evictable(t.entries[i])}
  IN  IF Found # {} THEN Evicted(t, Least(Found))
      ELSE [t EXCEPT !.hint = IF end >= size THEN 0 ELSE end]

evict_and_compact(t) ==
  LET Crowded == 2 * t.dead > Len(t.entries) /\ Len(t.entries) > CompactionFloor
      c       == IF Crowded THEN compact_envelopes(t) ELSE t
  IN  IF Len(c.entries) < MaxEnvelopes THEN c ELSE Evict(c)

-----------------------------------------------------------------------------
(* journal_record *)

\* What a checkpoint writes: the live entries of the table.
Snapshot(t) ==
  LET live == Survivors(t.entries)
  IN  [i \in DOMAIN live |-> [id |-> live[i].id, flow |-> live[i].flow, epoch |-> live[i].epoch]]

\* A checkpoint comes first, if the journal is full.
CheckpointOr(t) == {files, Snapshot(t)}

-----------------------------------------------------------------------------
(* derive_envelope_internal, apply_envelope, revoke_envelope *)

\* The id is minted and the envelope journaled before the table is asked for room.
Derive(f) ==
  /\ minted < MaxIds
  /\ minted' = minted + 1
  /\ LET made == [id |-> minted + 1, flow |-> f, epoch |-> epoch]
         room == evict_and_compact(tab)
     IN  /\ \E kept \in CheckpointOr(tab) : files' = Append(kept, made)
         /\ tab' = IF Len(room.entries) >= MaxEnvelopes THEN room
                   ELSE Pushed(room, [id |-> minted + 1, flow |-> f, epoch |-> epoch,
                                      live |-> TRUE, revoked |-> FALSE])
  /\ UNCHANGED <<attempts, epoch>>

\* The append is refused: the id is lost, the table is not touched.
DeriveNotDurable ==
  /\ "journal" \in Faults
  /\ minted < MaxIds
  /\ minted' = minted + 1
  /\ files' \in CheckpointOr(tab)
  /\ UNCHANGED <<tab, attempts, epoch>>

\* What phases A to C look at: the envelope is known, not revoked, of the present
\* epoch, and has no attempt yet.
Applicable(id) ==
  LET i == find_envelope(tab, id)
  IN  /\ i # 0
      /\ ~tab.entries[i].revoked
      /\ tab.entries[i].epoch = epoch
      /\ AttemptsOf(id) = {}

\* The table is tidied before the reservation is journaled, whatever its size.
Reserve(id) ==
  /\ Applicable(id)
  /\ tab' = evict_and_compact(tab)
  /\ Len(attempts) < MaxAttempts
  /\ files' \in CheckpointOr(tab')
  /\ \/ attempts' = Append(attempts, [envelope |-> id, epoch |-> epoch, open |-> TRUE])
     \/ "journal" \in Faults /\ UNCHANGED attempts
  /\ UNCHANGED <<minted, epoch>>

\* Refused at limits.max_attempts, after the table was tidied.
ReserveRefused(id) ==
  /\ Applicable(id)
  /\ Len(attempts) = MaxAttempts
  /\ tab' = evict_and_compact(tab)
  /\ UNCHANGED <<minted, attempts, files, epoch>>

\* An attempt becomes terminal; its record is journaled.
Settle(a) ==
  /\ attempts[a].open
  /\ attempts' = [attempts EXCEPT ![a].open = FALSE]
  /\ files' \in CheckpointOr(tab)
  /\ UNCHANGED <<tab, minted, epoch>>

\* The envelope is revoked, and with it whatever is filed under its id.
RevokeEnvelope(id) ==
  /\ LET i == find_envelope(tab, id)
     IN  /\ i # 0
         /\ ~tab.entries[i].revoked
         /\ tab' = [tab EXCEPT !.entries[i].revoked = TRUE]
  /\ attempts' = [a \in DOMAIN attempts |->
                    IF a \in AttemptsOf(id) THEN [attempts[a] EXCEPT !.open = FALSE]
                    ELSE attempts[a]]
  /\ files' \in CheckpointOr(tab)
  /\ UNCHANGED <<minted, epoch>>

-----------------------------------------------------------------------------
(* A crash or a shutdown, then recover_locked *)

ReplayedIds == {files[i].id : i \in DOMAIN files}

\* Variant: the floor is the number of recovered envelopes.
FloorByCount == Cardinality(ReplayedIds)
\* The largest id that the replay meets.
Floor == Greatest({0} \cup ReplayedIds)

\* Every replayed envelope is live and revoked; no attempt is open.
RecoveredTable ==
  Indexed([i \in DOMAIN files |->
             [id |-> files[i].id, flow |-> files[i].flow, epoch |-> files[i].epoch,
              live |-> TRUE, revoked |-> TRUE]])

Restart ==
  /\ epoch < MaxEpoch
  /\ epoch' = epoch + 1
  /\ tab' = RecoveredTable
  /\ minted' = Floor
  /\ attempts' = [a \in DOMAIN attempts |-> [attempts[a] EXCEPT !.open = FALSE]]
  /\ files' \in CheckpointOr(RecoveredTable)

-----------------------------------------------------------------------------
(* The specification *)

Init ==
  /\ tab = EmptyTable
  /\ minted = 0
  /\ attempts = <<>>
  /\ files = <<>>
  /\ epoch = 1

Next ==
  \/ \E f \in Flow : Derive(f)
  \/ DeriveNotDurable
  \/ \E id \in 1 .. MaxIds : Reserve(id) \/ ReserveRefused(id) \/ RevokeEnvelope(id)
  \/ \E a \in DOMAIN attempts : Settle(a)
  \/ Restart

Spec == Init /\ [][Next]_vars

-----------------------------------------------------------------------------
(* Properties *)

\* The table, its indexes and the files have their types.
TypeOK ==
  /\ tab.entries \in Seq(Entry)
  /\ tab.index \in [DOMAIN tab.index -> DOMAIN tab.entries] /\ DOMAIN tab.index \subseteq Nat
  /\ tab.latest \in [DOMAIN tab.latest -> DOMAIN tab.entries] /\ DOMAIN tab.latest \subseteq Flow
  /\ tab.dead \in Nat /\ tab.hint \in Nat
  /\ minted \in Nat
  /\ attempts \in Seq(Attempt)
  /\ files \in Seq(Envelope)
  /\ epoch \in 1 .. MaxEpoch

\* However entries were evicted, compacted and replayed, an id is found exactly when
\* a live entry has it, and then that entry is found.
IndexExact ==
  /\ \A i \in Live(tab) : find_envelope(tab, tab.entries[i].id) = i
  /\ \A id \in DOMAIN tab.index : find_envelope(tab, id) # 0 /\ tab.entries[tab.index[id]].id = id

\* explain() shows the newest live envelope of a flow or none, never an older one
\* or one of another flow.
LatestIsNewest ==
  \A f \in DOMAIN tab.latest :
    LET i == tab.latest[f]
    IN  /\ i \in Live(tab) /\ tab.entries[i].flow = f
        /\ \A j \in Live(tab) : tab.entries[j].flow = f => j <= i

\* Compaction is triggered by a count that eviction keeps: it is the number of dead
\* entries.
DeadExact == tab.dead = Cardinality(DOMAIN tab.entries \ Live(tab))

\* The three together: no sequence of derivations, evictions, compactions and restarts
\* makes the vector and what is kept beside it disagree.
TableExact == IndexExact /\ LatestIsNewest /\ DeadExact

\* The next id to be minted belongs to no envelope of the table or of the files, so
\* that a replay cannot take one envelope for another.
MintIsFresh ==
  /\ \A i \in DOMAIN tab.entries : tab.entries[i].id <= minted
  /\ \A i \in DOMAIN files : files[i].id <= minted

\* An operation makes an envelope disappear only if no attempt that was filed under it
\* is still in flight.
EvictionSparesOpen ==
  [][epoch' = epoch =>
       \A i \in Live(tab) :
         find_envelope(tab', tab.entries[i].id) = 0 =>
           \A a \in AttemptsOf(tab.entries[i].id) : ~attempts[a].open]_vars

\* What is filed under the id of an envelope was made for that envelope, and not for
\* one of an earlier incarnation with the same id.
AttemptsBelong ==
  \A i \in Live(tab) : \A a \in AttemptsOf(tab.entries[i].id) :
    attempts[a].epoch = tab.entries[i].epoch

=============================================================================
