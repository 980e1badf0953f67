# Pacing Fabric: a TLA+ model of the coordinator

Pacing Fabric coordinates egress pacing. It derives a *pacing envelope* for a flow from a
binding, a policy and an upstream rate grant, applies the envelope through a backend, reads
the effect back, and keeps a ledger of what may be believed to be in force. It does this under
concurrent callers, changing authority, fencing epochs, misbehaving backends, refused journal
writes and restarts. These modules model that coordinator, its durable store, its registries, the
arithmetic of its cadences and the control plane in front of it, check them
with TLC on small instances, and prove with TLAPS, for every instance, the safety properties of the coordinator, the
store, the envelope table, the registries and the control plane.

## 1. The system

| Component | Source | State | Operations |
|---|---|---|---|
| Coordinator | `fabric.cpp/.hpp` | `epoch_`, `boot_`, envelopes, attempts, `pending_attempts_`, backends, id minters | derive, apply, verify, cancel, revoke, fence_below, advance_epoch, revalidate, register/unregister backend, bind/publish, recover, shutdown |
| Application state and record | `application.cpp/.hpp` | one record per attempt: state, effect label, authority vector, `requires_revalidation` | state predicates, `apply_transition` |
| Authority vector | `id.cpp/.hpp` | generations of binding, policy, path, grant; epoch; boot | `compare_authority` |
| Backends | `backend.*`, `backends.*` | pacing installed for each attempt | apply, readback, revoke, rebind_epoch |
| Rate authority | `upstream.*` | the current grant of a flow | current |
| Durable store | `durable.*`, `crc32c.*` | `snapshot.pfs`, `journal.pfj`, record count, handle | open, load, append, checkpoint, close |
| Binding registry | `binding.*` | bindings of flows, with generations | bind, unbind, quiesce, restore |
| Policy store | `policy.*` | policies, with generations | publish, remove, resolve, restore |
| Cadence | `rate.*`, `envelope.*`, `checked.hpp` | none | `derive_cadence`, checked arithmetic |
| Control plane, transport | `control.*`, `transport.*` | connections, frames, stamps, the stop flag | dispatch, read and write frames, stop |
| Serialisation, explanation, events, status, limits, time, version, tools | | none that a decision depends on | encoding, rendering, reporting |

**How they interact.** Callers (threads of an embedding process, or connection threads of the
control plane) call the coordinator. It keeps everything under one mutex `mu_`, but *releases
it* for every call that may block: the upstream authority during `fetch_authority`, and
`apply`, `readback`, `revoke` and `rebind_epoch` of a backend. So each operation is a series of
critical sections with gaps, and in every gap other threads may cancel, revoke, fence,
advance the epoch, replace the backend or change the authority. Every change of the ledger is
journaled under the lock. The reservation of an attempt is refused unless its append succeeded;
later transitions are journaled with the result discarded. An append may checkpoint first,
which replaces the snapshot and truncates the journal. A restart replays snapshot and
journal, advances epoch and boot, revokes every envelope, and keeps no claim.

**What is hard.** State that is read before a gap and used after it (the authority, the state of
the record, the backend handle); withdrawals that are made after the lock is released; a
completion that arrives after its attempt was closed; a crash between a backend's effect and its
record; an append that is refused after the memory changed; damage to the tail of the journal; a
counter that is kept incrementally through all of it. `PROJECT.json` lists each hazard at its
line, with the properties that would catch it.

**What makes it correct.** Coordinator: the ledger counts open attempts exactly; one attempt
per envelope and backend; a closed attempt stays closed and nothing of it stays in force; a
claimed effect is real; open attempts belong to the present epoch and boot; pacing in force has a
record, across restarts too; operations end. Store: what was acknowledged is replayed; a snapshot
supersedes the journal it was taken of; the store opens what it wrote. Envelope table: an id finds the
envelope it was given to, through eviction, compaction and restarts. Registries: authority
that matches is the authority that was captured; a restart brings back what was in memory. Cadence: what
is paced never exceeds the ceiling and covers the floors, whatever is rounded or overflows.
Control plane: a stamp that was superseded when its request arrived starts nothing; calls, stop and shutdown
end, and nothing outlives what it uses.

## 2. The modules

* **ApplicationState**: the states of an attempt, their predicates and the effect label of each.
  `PendingStates` is what `is_terminal` is false of, `InForceStates` what `cancel_attempt`
  turns into Revoked, `ClosedStates` everything else.
* **AttemptLifecycle**: the abstract specification, the life of an attempt as a caller may rely on it:
  none, open, in force, closed. An attempt is opened once, has an outcome only while
  open, and closed is for good.
* **PacingFabric**: the coordinator. Each critical section of `mu_` is one action, and so is each
  call that is made with no lock held; `th[t]` holds the local variables of thread `t`,
  its `pc` the gap it is in.

  | Code | Actions |
  |---|---|
  | `fetch_authority` | FetchLocal, FetchGrant, FetchEpoch, FetchRefused |
  | `derive_envelope` | DeriveBegin, DeriveCommit, DeriveRefused |
  | `apply_envelope`, phases A to C | ApplyResolve, Reserve, ReserveNotDurable, ReserveRefused |
  | phase D | BackendApply, FoldClosed, FoldUnregistered, FoldFailed, FoldAcknowledged |
  | phase E | Readback, CommitLate, CommitStale, CommitEvidence, CommitUnverified |
  | compensating withdrawals | Withdraw |
  | `verify_attempt` | VerifyBegin, VerifyStale, VerifyRefused, Readback, VerifyCommit |
  | `cancel_attempt`, `revoke_envelope`, `fence_below` | CancelAttempt, RevokeEnvelope, RevokeNotDurable, FenceBelow |
  | `advance_epoch` | AdvanceEpoch, RebindEpoch |
  | `revalidate` | RevalidateBegin, RevalidateRefused, RevalidateStale, RevalidateNoEvidence, RevalidateCommit |
  | `register_backend`, `unregister_backend` | RegisterBackend, UnregisterBackend |
  | `bind_flow`, `publish_policy` | ChangeLocal |
  | a crash, then `initialize` and `recover_locked` | Restart |
  | outside of the repository | ChangeGrant, ShaperDrifts |

* **DurableStore**: `durable.cpp` with `journal_record`, `maybe_checkpoint_locked` and the replay.
  One action per effect on the disk, and a crash between any two. `acked` is what was reported as
  durable, `safe` the part of it that was appended to a journal without damage, `lost` says that a crash left a
  journal without its header; the program has none of the three.
* **EnvelopeTable**: the table of envelopes at its limits. `tab` is the vector `envelopes_` with its dead entries,
  `index` and `latest` are the two indexes into it, `dead` and `hint` the fields that eviction keeps.
  `evict_and_compact`, `compact_envelopes` and `find_envelope` are operators on it; Derive, DeriveNotDurable,
  Reserve, ReserveRefused, Settle, RevokeEnvelope and Restart are the operations. An
  attempt is open or closed here; `files` holds the envelopes that a replay would meet.
* **Governance**: the binding registry and the policy store, through bind_flow, unbind_flow, publish_policy,
  remove_policy and Restart, and what derive_envelope captures of them. `disk` is what a replay of the
  files would build. `Resolve` is `PolicyStore::resolve`, `Matches` is `compare_authority`. What
  is one number in `local` of PacingFabric is here the entries it stands for.
* **Compaction**: a vector whose entries die where they are, and what is left of it when the dead ones are
  dropped, by rank; both registries and the envelope table use it.
* **Arithmetic**, **Cadence**: `checked.hpp` in words of `2 * HalfBits` bits, the partial products and the
  shift-subtract division included, and on it `validate_policy`, `derive_cadence`, its inputs and the expiry. A
  policy is published and an envelope is derived from it; `ByteTicks` is `BitsPerByte * NanosPerSecond`, in the code
  `8 * 10^9`.
* **ControlPlane**: clients, server and dispatcher, with the part of the coordinator they share: its epoch and the
  operations in flight.

  | Code | Actions |
  |---|---|
  | `ControlClient` | Connect, ConnectRefused, Call, Return, Fail, Close |
  | `ControlServer::run` | Accept, AcceptFails, Admit, RunReturns, Reset |
  | `ControlServer::serve`, `stop` | Receive, ReceiveFails, Send, StopFlag, StopClose, End |
  | `ControlDispatcher::dispatch` | Check |
  | `OperationGuard`, the test of `running_` | Guard, Enter, Finish |
  | `shutdown` | ShutdownBegins, ShutdownDrained, ShutdownCloses |

* **MCPacingFabric**, **MCDurableStore**, **MCEnvelopeTable**, **MCGovernance**, **MCCadence**,
  **MCControlPlane**: the instances for TLC.
* **PacingFabricProofs**, **PacingFabricSafety**: the theorems about PacingFabric, the second module on the
  invariant of the first: what the ledger counts; then closed attempts, handles, boots, epochs and the refinement, and what
  is in force.
* **CadenceProofs**, **ControlPlaneProofs**, **DurableStoreProofs**, **EnvelopeTableProofs**, **GovernanceProofs**: the
  theorems about these modules. **VectorLemmas** has what they share: naturals, positions, ranks and compaction.

The modules meet in few places: AttemptLifecycle is what PacingFabric implements; PacingFabric takes the journal,
the envelope table and the registries by what they promise, which DurableStore, EnvelopeTable and Governance
check; ControlPlane takes an operation of the coordinator as something that enters, is in flight and ends, which is
`OperationsEnd` of PacingFabric.

A definition that a comment calls a *variant* is a plausible mistake in the code. It is used only to
show that a property can fail.

### Abstractions

PacingFabric:

* One flow. `local` stands for the generations of its binding, policy and path, which are read in one
  critical section; `grant` is the generation of the rate grant, read with no lock. A missing binding or
  policy, an unusable or expired grant and a clock that ran backwards are `FetchRefused`.
* Rates are `exact`, `over` and `under` the authorised cadence; that is all that
  `finalize_evidence_locked` tells apart. Applied through a synthetic backend and Applied
  through a verifying one differ in their label only, and are merged.
* Left out: `last_known_state`, statistics, events, explanations. `running_` and shutdown are in
  ControlPlane; here the coordinator runs.
* `MaxEnvelopes` is below `limits.max_envelopes`, where `evict_and_compact_locked` changes
  nothing; EnvelopeTable is about what happens there. Attempt ids are bounded by `MaxAttempts`, so a caller asks
  for ids in that range only.
* Durability is enabled. `durable` is the state that the journal replays for each attempt; a lost append leaves
  the older one, a checkpoint brings all of them up to date. An append that is refused leaves
  nothing behind: torn records are DurableStore's subject (see section 5). Lost appends of
  bindings and policies across a restart are in Governance; after a restart every envelope is
  revoked, so their generations matter no more to PacingFabric.
* `revoke` and `rebind_epoch` of a backend succeed: `backend.hpp` promises that a withdrawal is idempotent, and the code
  discards its status, so that one that failed is not tried again. A request that was refused installs nothing, which
  `backend.hpp` does not promise; one that was acknowledged for another attempt may have. Installed pacing outlives
  the coordinator's process.
* A restart whose own append of the new epoch fails does not start a coordinator, and is left out.

DurableStore: a record is a version of an entity; bytes, checksums, the format version and stdio
buffering are abstracted to "valid" or "torn". Header `short` covers 0 to 15 bytes. The bound on the
compaction batch is one way in which a checkpoint fails; the bounds on the bytes of a snapshot, of a journal and of a
record are left out. A second torn record is left out, for no replay gets past
the first.

EnvelopeTable: `Window` is the 4096 entries that one eviction scans, `CompactionFloor` the 1024 below which the table
is not compacted. An attempt is open or closed, and is never forgotten, as in the code. Torn records and lost
journals are DurableStore's.

Governance: rate grants are left to PacingFabric, the bounds of `validate_policy` to Cadence. A binding that is
quiesced, or whose path does not match, refuses a derivation, which is no step; `quiesce()` is called by nobody
in `src/`. Appends are refused one at a time: the next one only after a checkpoint or a restart has made up for
the last.

Cadence: the code rejects an input at the first check it fails; InBounds merges the checks of the first step, whose
codes differ. Digests, rendering and the flags that say what was clamped are left out.

ControlPlane:

* One connection per client, which does not come back; a client that calls nothing makes no handshake. A file descriptor is
  not used again. Frames of an unexpected type, the Shutdown frame and a second start of the server are left out.
* A frame arrives whole; or *damaged*, so that `receive()` refuses it and gives the connection up; or *short*, cut on an open
  connection or with a length damaged to a larger one within `max_frame_payload_bytes`. Of a short frame `recv_exact`
  waits for the rest before the checksum is looked at, with no timeout: the receiver is `reading`, and the peer waits for its
  answer. A frame that a closing peer cut short is a short one and a Close.
* A client may leave between its calls or die in the middle of one. `send` to a client that is gone may succeed or fail. On
  POSIX it may also raise SIGPIPE, which `transport.cpp:59` does not suppress: that ends the process, which for the
  coordinator is Restart of PacingFabric.
* What an operation does is left out; a query or a malformed request is answered without one. Request ids are not
  compared by the client in the code, so there are none.
* The stamp of a request is that of the handshake, of another boot, or none; boot nonce 0 is accepted by the code.
  The two comparisons of the stamp are one step, the boot being constant while the server runs. Closing a
  connection and taking it off the books are one step as well: the descriptor belongs to the handler.
* Whether `stop()` closing a socket wakes a thread that is blocked in it depends on the platform: the code assumes it
  (`control.cpp:394`), on Linux `close()` need not. StopClose chooses: `listener = "blocked"` and `stuck` are the threads
  that were not woken. What is claimed for these is in the properties by name (section 3).

## 3. The runs

No run checks for deadlock: nobody has to call the coordinator, and the bounded counters stop.

| Run | What it shows | Bounds and why they are enough |
|---|---|---|
| `lifecycle` | Claims are true, AttemptLifecycle is implemented, pacing above the ceiling is withdrawn, operations end and pacing of a closed attempt is withdrawn in the end, with two threads that apply, cancel, revoke and advance, and a backend that refuses or paces wrongly | one envelope, one attempt, two generations, one advance: every gap of one application meets every other operation. No symmetry, for the liveness |
| `contention` | With two attempts open at once: one attempt per envelope and backend, what is closed is withdrawn or about to be, what is open is of the present epoch | two envelopes and two attempts, so that one operation closes several |
| `restart` | Every operation, refused appends, refused fetches, backends that come and go, a restart at any point: the counter of open attempts is exact, no effect without a record, no claim from an earlier boot | two threads, one attempt, one advance, one restart: the recovered record meets every operation |
| `backends` | An attempt is installed at no more than one handle although handles are replaced in every gap | two handles of one identity, one without readback; two envelopes compete for one attempt id |
| `durable` | What was acknowledged by an undamaged journal survives a crash at every step, failing steps, torn records and missing headers; the snapshot supersedes the journal; the store opens its own files | two entities of two versions, two records before a checkpoint, four in a journal that restarts let grow, three restarts: damage, use of the damaged journal, a checkpoint that ends it, and damage again |
| `envelopes` | Both indexes and the count of dead entries stay exact (`TableExact`), eviction spares what is in flight, minted ids are fresh | a table of three, windows of one entry, compaction above two, five ids: several evictions, a compaction with survivors, a refusal at the limit, and a restart in between |
| `governance` | Authority that matches is the authority that was captured; one live binding per flow; a replay builds what was in memory | one flow, one resource, one policy of either layer with generations 1 and 2, registries of two entries, three incarnations: unbind and rebind, a dead entry, exhausted generations, a lost append and a restart |
| `cadence` | What is derived keeps below the ceiling and above the floors, bursts and expiry are bounded, the division is exact | words of six bits, two bits to a byte and four ticks to a unit of time: policies, with hints and numbers of exceptions, grants and bindings on either side of each comparison, and overflow of every product; the division for every factor and divisor against each ceiling and its complement |
| `control` | The counters of the server and of shutdown are exact, nothing outlives what it uses, superseded stamps are fenced, shutdown ends; calls and stop end unless what they wait for is named | three clients for two connections, so that one is turned away; one call each, of every kind; damage, frames cut short, death of a client, stop and shutdown at any point |
| `verify_after_cancel`, `torn_tail`, `id_reuse` | Expected violations, see section 5 | the smallest instance that shows each |

`lifecycle` and `contention` leave verify and revalidate out: with these, the properties about closed attempts
do not hold (section 5). `restart` and `backends` have them, and check what still holds. `ClosedStaysClosed` is implied
by the refinement that `lifecycle` checks, and is what `verify_after_cancel` refutes. `durable` checks
`SafeSurvives` in place of `AcknowledgedSurvives`, which `torn_tail` refutes. `governance` has one policy, which is
published again and removed; that policies of equal standing compete in `Resolve` is covered by the theorem
`PolicyMatchesExactly` only, since two of them make more states than a run has time for.

Two liveness properties of `control` name what may last. `CallsReturn`: a client that waits gets an answer or loses its
connection whatever is damaged, stopped, refused or shut down meanwhile, but not when the frame that it sent or waits for is
cut short (`CutShort`): then both sides wait, until the client dies or the server is stopped, and after a stop for as long as the
handler is not woken. `StopEnds`: after a request to stop `run()` returns without the help of anybody, unless
a thread that was not woken is held up for good (`Held`): nobody connects to the listener it is blocked in, or the client of its
connection neither calls nor leaves.

**Fairness.** `FairSpec` of PacingFabric assumes weak fairness of `Continue(t)` for each thread: a thread that is in
an operation gets to run, and the backend or authority that it called answers. The code has no timeout of its own on these
calls, so it relies on the same. Nothing else is fair; in particular nobody has to start an operation, and no
particular outcome of a call is assumed.

`FairSpec` of ControlPlane assumes weak fairness of a client that waits for a reply (it is blocked in a read), of each
handler thread, of the thread in `run()`, and of a shutdown that has begun. An operation in flight ends, which is
`OperationsEnd` of `lifecycle`. Nobody has to connect, to call, to leave, to stop or to shut down. `ShutdownEnds`
needs the calls to be bounded, as `MaxCalls` does: the code counts a refused request as an operation in flight
until it is refused, so that a stream of refused requests without end could keep shutdown waiting.

## 4. What is proved

Every theorem holds for all values of the constants that satisfy the assumptions of its module: any number of threads,
backends, handles, clients, entities, flows or policies, all limits and bounds, and, where no hypothesis is
named, every set of operations and every fault. Each safety property of the passing runs has a theorem.

### The coordinator

| Theorem | Property | Hypotheses |
|---|---|---|
| `TypeCorrect`, `PendingIsExact`, `AttemptsAreUnique`, `EffectsAreRecorded` | `TypeOK`, `PendingExact`, `OneAttemptPerBackend`, `EveryEffectHasARecord` | none |
| `NoClaimSurvivesRestart`, `OneHandle` | `NoClaimAcrossRestart`, `OneHandlePerAttempt` | none |
| `LifecycleIsImplemented`, `OpenIsCurrent` | `ImplementsLifecycle`, `OpenAtCurrentEpoch` | `NoRecheck` |
| `ClosedForGood` | `ClosedStaysClosed` | `NoRecheck`, no restart |
| `ClaimsAreTrue`, `OverRatesAreWithdrawn` | `ClaimedIsInForce`, `OverRateWithdrawn` | `NoRecheck`, `NoDrift` |
| `NothingIsOrphaned` | `NoOrphanedEffect` | `Undisturbed` |

The hypotheses are about what is called and what goes wrong; the runs `lifecycle` and `contention` satisfy all of
them. Each is needed because of what the code does:

* `NoRecheck`: nobody verifies or revalidates. `verify_attempt` commits to a record whose state it read before its
  readback, so it reopens a closed attempt (run `verify_after_cancel`).
* `NoDrift`: no shaper changes pacing by itself. Without a verification the ledger has no way to know of it.
* No restart: a transition whose append was lost is replayed as it was before, so the record of a closed
  attempt becomes Ambiguous. AttemptLifecycle takes that for closed still, which is why the refinement needs no such hypothesis.
* `Undisturbed`: besides, appends succeed, no backend is registered anew or unregistered, every handle can be read
  back and acknowledges what it was asked for. A handle that is replaced is not asked to withdraw, a restart forgets what was being
  withdrawn, `advance_epoch` does not reach the backends when its append fails, and for a backend without readback a late
  completion withdraws nothing (section 5).

The inductive invariants, in the order in which they build on one another:

* `Inv` (PacingFabricProofs): the properties of the first row with `ThreadsOK`, `BackendsKnown` and
  `DurableKnowsAttempts`. A commit writes the record of the attempt that its thread carries, through gaps in
  which others run; `ThreadsOK` says that this attempt is in the ledger, and that its envelope and backend exist.
  Without it a transition could create a record and the count would be wrong. A restart replaces the
  ledger by what the journal replays; `DurableKnowsAttempts` says that this is the same set of attempts, because a
  reservation is journaled before it is inserted, whatever is lost later. `BackendsKnown` is what the sets of
  withdrawals rest on.
* `BootInv`: an envelope that may still be used, an attempt that is open or in force, and what a thread found current,
  are of the present boot.
* `HandleInv`: one thread applies an attempt, and until it has called the backend the attempt is installed nowhere. So
  the handle that the thread found at the reservation is the only one there will be.
* `EpochInv`: an envelope that may still be used, and the authority that a thread fetched for one, may be behind the
  epoch but never ahead of it; what is open or in force is not behind, for `advance_epoch` closes it in the critical
  section in which it advances.
* `PlaceInv`, `WorkInv`: an effect is at a handle of the backend of its record and under the epoch of its record; a
  thread past the fold-in carries an attempt with that effect, and a withdrawal is of an attempt that is no longer in force.
* `EffectInv`: what a readback showed is still in force when it is committed, unless the attempt was closed meanwhile.
* `CoverInv`: every effect whose record is not in force has a thread that will remove it or is still applying it.

Steps are classified first (`StepKinds`): quiet steps, steps of a thread for its own attempt, steps of governance and
those from outside; each invariant is then proved for the classes, with what each step does to its thread (`Moves`,
`Ends`), to the records (`Moved`) and to the effects (`Affects`).

### The other components

* **Control plane**: `TypeCorrect`, `CountsAreExact`, `ServerOutlivesItsHandlers`, `SupersededRequestsAreFenced`.
  The invariant adds to the properties that a connection is waiting, being admitted or served but only one
  of these (`Phases`), that no request was received in an epoch that has not begun (`NotFromTheFuture`), and that an
  operation in flight keeps the shutdown from closing the store (`Quiet`).
* **Durable store**: `TypeCorrect`, `SafeRecordsSurvive`, `SnapshotSupersedes`, `StoreOpens`, for crashes at every
  step, failures of every step and every damage; and `AcknowledgedRecordsSurvive`, that without torn records and
  headers (`Undamaged`) nothing acknowledged is lost, which run `torn_tail` refutes with them. The invariant says
  that the memory is never behind what is safe, that the sequence number is never behind what a replay would read
  (`Numbered`), that the snapshot supersedes the journal once it is renamed, and how a journal
  without a header came to be. What a replay computes depends on the last valid record of each entity before the first
  torn one, which is where `LastPosition` comes in.
* **Envelope table**: `TypeCorrect`, `TableIsExact`, `IdsAreFresh` and the action property `OpenEnvelopesStay`.
  `TableExact` is not inductive: that the index finds the right entry after an eviction needs that no two entries have
  one id, dead entries included, which needs that ids are minted fresh, which after a restart needs that the floor is
  above every id in the files and that the files hold each envelope once. `Inv` says all of that, and `Sheds` says of
  eviction and compaction that they lose no envelope but those whose attempts are all closed.
* **Registries**: `TypeCorrect`, `PolicyMatchesExactly`, `BindingMatchesExactly`, `BindingsAreSingle`,
  `ReplayDeliversMemory`. Both registries are a vector of entries from a set `E` with an identity `key`, unique at
  positions `P`: the live ones for bindings, all of them for policies and for what is on disk. The lemmas about
  overwriting, adding, killing, compacting and restoring an entry are proved once for both. `HeldKept` says what an
  envelope remembers of the registries: within its incarnation the store keeps an entry of its policy, dead or alive,
  with a later generation or with the same contents.

* **Cadence**: for words of any even width, all limits that are coherent and all policies, grants and bindings made of
  words (`OffersAreWords`; every number of the code is a `u64`).

  | Theorem | What it says |
  |---|---|
  | `MulDivExact`, `LongDivisionIsExact` | the partial products with their carries and the shift-subtract division give quotient and remainder, or false exactly when the quotient does not fit |
  | `NeverAboveCeiling`, `FloorsCovered` | `PacedWithinCeiling`, `FloorsAreCovered` |
  | `IntervalsAreTight`, `BurstsAreBounded` | `IntervalIsTight`, `BurstIsBounded` |
  | `NothingIsInconsistent`, `ExpiresInTime` | `RecheckFindsNothing`, `ExpiresWithGrant` |

  `Power` and the rounds of the division are recursive functions. That they exist, and are what their definitions say, is
  proved first (`Recursion`): there is one sequence that a step function computes from a start. The product is
  `WordSize * hi + lo` (`ProductIsExact`), since no partial sum carries more than its place holds. After `n` rounds the
  first `n` bits of the product are `d * q + r` with `r < d` (`DivisionIsExact`); one round keeps that, although the
  remainder that is shifted may be wider than a word, because the subtraction wraps by the same width (`RoundIsExact`).
  From there each step of `derive_cadence` is an inequality between products. The invariant is only that what was
  derived is the derivation of what is there.

A sequence is compacted by rank (Compaction), so that `SurvivorsOf` can say what is left: the live entries, all of them, in
their order. Induction over positions is done with a set in the place of a predicate (`InductionOnSet`), from the fact that a
set of naturals has a least element.

### Only model-checked

The liveness properties, `OperationsEnd`, `ClosedIsWithdrawn`, `CallsReturn`, `StopEnds` and `ShutdownEnds`: fairness and ENABLED are beyond
the prover. The three expected violations are counterexamples, and need TLC.

## 5. Where the code and its documentation disagree

Each with a run whose counterexample shows it:

* `verify_after_cancel`: `verify_attempt` looks at the state of the record before its readback and not after, so a
  commit reopens an attempt that was cancelled in between ("Cancellation is terminal").
* `torn_tail`: a torn record at the end of the journal is skipped but not removed; what is appended behind it is
  acknowledged and never replayed. `EveryEffectHasARecord`, and its theorem, therefore hold relative to a
  journal that replays what it acknowledged.
* `id_reuse`: an evicted envelope is in no snapshot, and the next id is recovered from the envelopes that are. An
  envelope derived after a restart may get the id of an evicted one, and the attempts of that one are filed
  under it, so that applying it answers with an attempt of another incarnation.

Seen while modelling, in the actions above, without a run of their own. The coordinator:

* `verify_attempt` closes a drifted attempt as Stale and withdraws nothing. Later operations skip closed attempts, so
  the pacing stays ("terminal without effect").
* A verification between the backend's apply and the fold-in makes the attempt Applied; the fold-in takes that for a
  closed attempt and withdraws the pacing that the record claims.
* `verify_attempt` records pacing above the ceiling as Mismatched and does not withdraw it; `docs/semantics.md:74`
  promises the withdrawal. Only `apply_envelope` makes it.
* `fence_below` closes an Acknowledged attempt without a withdrawal, and for a backend without readback the late
  completion makes none either (`CommitUnverified`, first case).
* After a restart in mid-application the attempt is Ambiguous, which `cancel_attempt` takes for closed, while its
  pacing may be in force. `docs/semantics.md:112` and the README of the repository say
  that acknowledged attempts become REQUIRES_REVALIDATION; the code makes them AMBIGUOUS.
* `advance_epoch` advances the memory before it journals the epoch. When that append fails, the next
  incarnation may come up with the epoch that was already used; the boot still tells them apart.

The store and the table:

* A crash between truncating the journal and writing its header leaves a file that the next start
  appends to and the one after refuses to open (`AlwaysOpens` excludes it with `lost`).
* A derive at `max_envelopes` is refused after its envelope was journaled and a live one was evicted: the table is as
  long as before until a compaction, which needs more than half of it to be dead.
* `apply_envelope` tidies the table before it reserves, and may evict the very envelope it applies: the attempt is
  then in flight for an envelope that is no longer found.

The registries:

* A flow that is unbound and bound again starts at generation one, so an envelope of the earlier binding may match the
  later one in the same epoch. `BindingMatchIsExact` is stated for a flow that stays bound.
* A dead binding keeps its slot until a restart; a removed policy cannot be published again while the store is full.

The cadence:

* `grants_per_window` may be 0, when the window is shorter than the interval; `rate.hpp` says that every field is positive.
* Within the default limits `effective_rate_bps` and `burst_capacity_bytes` can overflow 64 bits (`rate.cpp:55`,
  `rate.cpp:62`), so a request that breaks no limit is refused with ArithmeticOverflow.
* `policy.hpp:73` says that a floor above the absolute request is rejected; `validate_policy` accepts it, and the floor
  wins. A burst below the quantum is accepted as well, and no envelope can ever be derived from it.

The control plane:

* `stop()` relies on `close()` to wake the threads blocked in `accept` and `recv` (`control.cpp:394`), which Linux does
  not promise. Where it does not, `run()` waits for its clients.
* `recv_exact` has no timeout. A length that was damaged to a larger one blocks the handler in the payload, before the
  checksum could refuse the frame (`transport.cpp:299`), and with it the client in its wait for the answer
  (`control.cpp:619`); a reply that is cut short does the same to the client.
* `transport.hpp:66` says that stale requests are rejected; the stamp is compared before the operation takes the
  lock, and the epoch may advance in between. The coordinator compares for itself where it matters.

## 6. Not modelled, and the plan

Not to be modelled: byte encodings (`serialize.cpp`), explanations, events, status texts, clock sources and the
command-line tools; they hold no state that a decision depends on. Sockets are I/O. What is written to disk or to a
socket in another shape than it is read back is a torn record or a damaged frame; that each field is read as it was written
is a matter for tests. Expiry of envelopes while time passes, and a clock that runs backwards, are
`FetchRefused` in PacingFabric; nothing else in the coordinator is triggered by time.

Not expressible here: `describe()` of a backend and an event sink that call back into the coordinator under its lock.
A critical section is one step of these models.

What is left, in order:

1. The composition of Governance with PacingFabric's `ChangeLocal`: that a change of the registries is a change of
   `local`, or none.
2. The handles that `StopEnds` and `ShutdownEnds` wait for, as a ranking that decreases, which would be the
   safety part of their proofs.
