---------------------------- MODULE PacingFabric ----------------------------
(***************************************************************************)
(* The coordinator of src/fabric.cpp: the ledger of application attempts,  *)
(* the envelopes they are made under, the authority both depend on, and    *)
(* the backends that pacing is installed on.                               *)
(*                                                                         *)
(* Threads call the coordinator concurrently.  Each critical section of    *)
(* the state lock mu_ is one action, and so is each call that the code     *)
(* makes with no lock held: the reads of fetch_authority, and the apply,   *)
(* readback, revoke and rebind_epoch calls of a backend.  Everything in    *)
(* between may interleave with every other thread, with changes of         *)
(* authority and with a restart of the coordinator.                        *)
(***************************************************************************)
EXTENDS ApplicationState, Integers, Sequences, FiniteSets

CONSTANTS
  Thread,        \* threads that call the coordinator
  Backend,       \* backend identities
  Handle,        \* backend handles; several may carry one identity over time
  BackendOf,     \* [Handle -> Backend]: the identity a handle describes
  Readable,      \* the handles whose descriptor says supports_readback
  NoHandle,      \* the null backend pointer
  Operations,    \* the operations the threads may call
  Faults,        \* what may go wrong outside of the coordinator
  MaxEnvelopes,  \* bound: envelopes derived, below limits.max_envelopes
  MaxAttempts,   \* limits.max_attempts, and the bound of the attempt ids
  MaxPending,    \* config.max_pending_attempts
  MaxGeneration, \* bound: the generations of the authority
  MaxEpoch,      \* bound: advances of the epoch
  MaxBoot        \* bound: restarts

AllOperations == {"derive", "apply", "verify", "cancel", "revoke", "fence",
                  "advance", "revalidate", "register", "unregister", "restart"}

AllFaults == {"journal",      \* an append to the journal is refused (see DurableStore)
              "fetch",        \* the authority of a flow cannot be fetched
              "reject",       \* a backend refuses a request, or its call fails
              "misidentify",  \* a backend acknowledges another attempt
              "over",         \* a backend paces above the authorised rate
              "under",        \* a backend paces below it
              "unreadable",   \* a readback fails, or fails its integrity check
              "drift"}        \* a shaper changes its rate by itself

ASSUME ConstantsAssumption ==
  /\ NoHandle \notin Handle
  /\ BackendOf \in [Handle -> Backend]
  /\ Readable \subseteq Handle
  /\ Operations \subseteq AllOperations
  /\ Faults \subseteq AllFaults
  /\ MaxEnvelopes \in Nat
  /\ MaxAttempts \in Nat
  /\ MaxPending \in Nat \ {0}
  /\ MaxGeneration \in Nat /\ MaxEpoch \in Nat /\ MaxBoot \in Nat

VARIABLES
  epoch,         \* epoch_
  boot,          \* boot_.counter
  local,         \* generation of the binding, policy and path of the flow
  grant,         \* generation of the upstream rate grant
  envelopes,     \* envelopes_: authority and revoked flag; the index is the id
  attempts,      \* attempts_, by attempt id
  minted,        \* attempt_ids_: the largest attempt id handed out
  pending,       \* pending_attempts_
  durable,       \* the state of each attempt that the journal replays
  durable_epoch, \* the epoch that the journal replays
  registry,      \* backends_
  installed,     \* pacing in force at each handle, by attempt id
  th             \* the operation each thread is in

ledger    == <<attempts, minted, pending, durable, durable_epoch>>
authority == <<epoch, boot, local, grant>>
vars      == <<ledger, authority, envelopes, registry, installed, th>>

-----------------------------------------------------------------------------
(* Data *)

AttemptId  == 1 .. MaxAttempts
EnvelopeId == 1 .. MaxEnvelopes

\* AuthorityVector: every generation that justifies an envelope.
AuthorityVector == [local: Nat, grant: Nat, epoch: Nat, boot: Nat]
NoVector == [local |-> 0, grant |-> 0, epoch |-> 0, boot |-> 0]

\* PacingEnvelope: what it was derived under, and whether it may still be used.
Envelope == [authority: AuthorityVector, revoked: BOOLEAN]

Rates == {"exact", "over", "under"}
Effect   == [rate: Rates \cup {"none"}, epoch: Nat]
NoEffect == [rate |-> "none", epoch |-> 0]

\* ApplicationRecord: "Absent" marks an id that is not in the ledger.
Record == [state: ApplicationStates \cup {"Absent"}, env: Nat,
           backend: Backend \cup {NoHandle}, authority: AuthorityVector,
           effect: EffectLabels, requires_revalidation: BOOLEAN]
NoRecord == [state |-> "Absent", env |-> 0, backend |-> NoHandle,
             authority |-> NoVector, effect |-> "None",
             requires_revalidation |-> FALSE]

Present(a)  == attempts[a].state # "Absent"
IsClosed(a) == attempts[a].state \in ClosedStates
IsPending(a) == attempts[a].state \in PendingStates

\* A thread's local variables: where it is, where it goes once the authority is
\* fetched, the envelope, attempt and handle it works for, the attempt id its
\* caller asked for, what it fetched and observed, and the calls of backends it
\* still has to make (<<handle, attempt>>; attempt 0 for rebind_epoch).
PCs == {"idle", "fetch_local", "fetch_grant", "fetch_epoch", "derive", "reserve",
        "backend_apply", "fold", "readback", "commit", "commit_unverified",
        "withdraw", "verify", "verify_commit", "revalidate",
        "revalidate_commit", "rebind"}

ThreadState ==
  [pc: PCs, then: PCs, env: Nat, att: Nat, requested: Nat,
   backend: Backend \cup {NoHandle}, h: Handle \cup {NoHandle},
   got: AuthorityVector, verdict: {"none", "current", "drifted", "refused"},
   seen: Rates \cup {"none", "accept", "reject", "misidentify", "absent"},
   todo: SUBSET (Handle \X Nat), fence: Nat]

Idle == [pc |-> "idle", then |-> "idle", env |-> 0, att |-> 0, requested |-> 0,
         backend |-> NoHandle, h |-> NoHandle, got |-> NoVector,
         verdict |-> "none", seen |-> "none", todo |-> {}, fence |-> 0]

-----------------------------------------------------------------------------
(* Helpers *)

At(t, pc) == th[t].pc = pc
Calls(t, op) == At(t, "idle") /\ op \in Operations
Become(t, s) == th' = [th EXCEPT ![t] = s]
Return(t) == Become(t, Idle)

\* Leave the critical section and withdraw the effects W with no lock held.
ThenWithdraw(t, W) ==
  Become(t, IF W = {} THEN Idle ELSE [Idle EXCEPT !.pc = "withdraw", !.todo = W])

\* Variant: only the records that still claim an effect are withdrawn.
WithdrawalsOfClaims(S) ==
  {<<registry[attempts[a].backend], a>> :
     a \in {b \in S : /\ registry[attempts[b].backend] # NoHandle
                      /\ claims_effect(attempts[b])}}
\* backend_ptr: the registered handle of the attempt, if there is one.
Withdrawals(S) ==
  {<<registry[attempts[a].backend], a>> :
     a \in {b \in S : registry[attempts[b].backend] # NoHandle}}

\* apply_transition on one record.
Transition(r, next) ==
  [r EXCEPT !.state = next, !.effect = EffectLabel(next),
            !.requires_revalidation = (next = "RequiresRevalidation")]

\* apply_transition keeps pending_attempts_ in step; its decrement saturates.
Saturate(n) == IF n < 0 THEN 0 ELSE n
\* Variant: the decrement does not ask whether the record was pending.
PendingUnguarded(S, next) ==
  IF is_terminal(next) THEN pending - Cardinality(S) ELSE pending
PendingAfter(S, next) ==
  IF is_terminal(next)
  THEN Saturate(pending - Cardinality({a \in S : IsPending(a)}))
  ELSE pending + Cardinality({a \in S : ~IsPending(a)})

\* journal_record of the attempts in S, which move to next.  The code discards the
\* result, so the appends in lost may be missing.  An append may checkpoint first:
\* a snapshot of the memory, with the epoch e, then replaces the journal.
Lost(S) == IF "journal" \in Faults THEN SUBSET S ELSE {{}}
Replayed(S, next, lost, snapshot) ==
  [a \in AttemptId |-> IF a \in S \ lost THEN next
                       ELSE IF snapshot THEN attempts[a].state ELSE durable[a]]
Replay(S, next, e, lost, snapshot) ==
  /\ durable' = Replayed(S, next, lost, snapshot)
  /\ durable_epoch' = IF snapshot THEN e ELSE durable_epoch

\* A snapshot holds the move of the attempt whose append asked for it.
Journal(S, next, e) ==
  \E lost \in Lost(S), snapshot \in BOOLEAN :
    (snapshot => lost # S) /\ Replay(S, next, e, lost, snapshot)

\* The same after the append of a record that is not an attempt.
JournalAfter(S, next, e) ==
  \E lost \in Lost(S), snapshot \in BOOLEAN : Replay(S, next, e, lost, snapshot)

\* journal_record of something that is not an attempt.
JournalOther ==
  /\ UNCHANGED <<attempts, minted, pending>>
  /\ JournalAfter({}, "Unknown", epoch)

\* apply_transition of every attempt in S.
TransitionAll(S, next) ==
  /\ attempts' = [a \in AttemptId |-> IF a \in S THEN Transition(attempts[a], next)
                                                 ELSE attempts[a]]
  /\ pending' = PendingAfter(S, next)
  /\ UNCHANGED minted

\* apply_transition and journal_record of every attempt in S.
Move(S, next) == TransitionAll(S, next) /\ Journal(S, next, epoch)

\* Variant: a rate below the authorised one counts as applied.
FinalizedLenient(seen) ==
  CASE seen \in {"exact", "under"} -> "Applied"
    [] seen = "over" -> "Mismatched"
    [] OTHER -> "AppliedUnverified"
\* The state finalize_evidence_locked gives for what a readback shows.
Finalized(seen) ==
  CASE seen = "exact" -> "Applied"
    [] seen \in {"over", "under"} -> "Mismatched"
    [] OTHER -> "AppliedUnverified"

-----------------------------------------------------------------------------
(* fetch_authority: the binding and the policy are read under the lock, the *)
(* grant is fetched with no lock held, and the epoch and the boot are read  *)
(* under the lock again.                                                    *)

\* The vector that compare_authority holds against the fetched one.
Held(t) == IF th[t].then \in {"verify", "revalidate"}
           THEN attempts[th[t].att].authority
           ELSE envelopes[th[t].env].authority

FetchLocal(t) ==
  /\ At(t, "fetch_local")
  /\ Become(t, [th[t] EXCEPT !.pc = "fetch_grant", !.got = [@ EXCEPT !.local = local]])
  /\ UNCHANGED <<ledger, authority, envelopes, registry, installed>>

FetchGrant(t) ==
  /\ At(t, "fetch_grant")
  /\ Become(t, [th[t] EXCEPT !.pc = "fetch_epoch", !.got = [@ EXCEPT !.grant = grant]])
  /\ UNCHANGED <<ledger, authority, envelopes, registry, installed>>

\* A vector is kept only by derive; the others keep compare_authority's verdict.
FetchEpoch(t) ==
  /\ At(t, "fetch_epoch")
  /\ LET vector == [th[t].got EXCEPT !.epoch = epoch, !.boot = boot]
     IN Become(t, IF th[t].then = "derive"
                  THEN [th[t] EXCEPT !.pc = "derive", !.got = vector, !.verdict = "current"]
                  ELSE [th[t] EXCEPT !.pc = th[t].then, !.got = NoVector,
                          !.verdict = IF Held(t) = vector THEN "current" ELSE "drifted"])
  /\ UNCHANGED <<ledger, authority, envelopes, registry, installed>>

\* No binding, no policy, a policy of another path, no usable or no unexpired
\* grant, or a clock that ran backwards.
FetchRefused(t) ==
  /\ "fetch" \in Faults
  /\ th[t].pc \in {"fetch_local", "fetch_grant"}
  /\ Become(t, [th[t] EXCEPT !.pc = th[t].then, !.got = NoVector, !.verdict = "refused"])
  /\ UNCHANGED <<ledger, authority, envelopes, registry, installed>>

-----------------------------------------------------------------------------
(* derive_envelope *)

DeriveBegin(t) ==
  /\ Calls(t, "derive")
  /\ Become(t, [Idle EXCEPT !.pc = "fetch_local", !.then = "derive"])
  /\ UNCHANGED <<ledger, authority, envelopes, registry, installed>>

\* The envelope carries the fetched vector, whatever happened since.
DeriveCommit(t) ==
  /\ At(t, "derive")
  /\ th[t].verdict = "current"
  /\ Len(envelopes) < MaxEnvelopes
  /\ envelopes' = Append(envelopes, [authority |-> th[t].got, revoked |-> FALSE])
  /\ JournalOther
  /\ Return(t)
  /\ UNCHANGED <<authority, registry, installed>>

\* No authority; or no cadence, lifetime or encoding of the envelope; or no append.
DeriveRefused(t) ==
  /\ At(t, "derive")
  /\ \/ UNCHANGED ledger
     \/ "journal" \in Faults /\ th[t].verdict = "current" /\ JournalOther
  /\ Return(t)
  /\ UNCHANGED <<authority, envelopes, registry, installed>>

-----------------------------------------------------------------------------
(* apply_envelope *)

\* Phase A: resolve the envelope and the backend.
ApplyResolve(t, e, b, requested) ==
  /\ Calls(t, "apply")
  /\ e \in 1 .. Len(envelopes)
  /\ ~envelopes[e].revoked
  /\ registry[b] # NoHandle
  /\ Become(t, [Idle EXCEPT !.pc = "fetch_local", !.then = "reserve", !.env = e,
                  !.backend = b, !.h = registry[b], !.requested = requested])
  /\ UNCHANGED <<ledger, authority, envelopes, registry, installed>>

\* Variant: a closed attempt does not answer for its envelope.
ExistingOpenAttempt(e, b) ==
  {a \in AttemptId : /\ Present(a) /\ ~IsClosed(a)
                     /\ attempts[a].env = e /\ attempts[a].backend = b}
\* find_existing_attempt: the attempt of this envelope on this backend.
ExistingAttempt(e, b) ==
  {a \in AttemptId : Present(a) /\ attempts[a].env = e /\ attempts[a].backend = b}

NextAttempt(t) == IF th[t].requested # 0 THEN th[t].requested ELSE minted + 1

\* Variant: an attempt id that is in the ledger may be reserved again.
MayReserveAgain(t) ==
  /\ th[t].verdict = "current"
  /\ ~envelopes[th[t].env].revoked
  /\ ExistingAttempt(th[t].env, th[t].backend) = {}
  /\ pending < MaxPending
  /\ NextAttempt(t) \in AttemptId
\* Phase B found no drift and phase C refuses nothing.
MayReserve(t) ==
  /\ th[t].verdict = "current"
  /\ ~envelopes[th[t].env].revoked
  /\ ExistingAttempt(th[t].env, th[t].backend) = {}
  /\ pending < MaxPending
  /\ NextAttempt(t) \in AttemptId
  /\ ~Present(NextAttempt(t))

RaiseFloor(t) ==
  minted' = IF NextAttempt(t) > minted THEN NextAttempt(t) ELSE minted

\* Phase C: the reservation is journaled, then inserted as Submitted.
Reserve(t) ==
  /\ At(t, "reserve")
  /\ MayReserve(t)
  /\ LET a == NextAttempt(t)
     IN /\ attempts' = [attempts EXCEPT ![a] =
              [NoRecord EXCEPT !.state = "Submitted", !.env = th[t].env,
                 !.backend = th[t].backend,
                 !.authority = envelopes[th[t].env].authority]]
        /\ \/ durable' = [durable EXCEPT ![a] = "Reserved"] /\ UNCHANGED durable_epoch
           \/ /\ durable' = [b \in AttemptId |-> IF b = a THEN "Reserved" ELSE attempts[b].state]
              /\ durable_epoch' = epoch
        /\ Become(t, [th[t] EXCEPT !.pc = "backend_apply", !.att = a,
                        !.requested = 0, !.verdict = "none"])
  /\ pending' = pending + 1
  /\ RaiseFloor(t)
  /\ UNCHANGED <<authority, envelopes, registry, installed>>

\* The id floor is raised before the append, so it stays when the append fails.
ReserveNotDurable(t) ==
  /\ At(t, "reserve")
  /\ MayReserve(t)
  /\ "journal" \in Faults
  /\ RaiseFloor(t)
  /\ JournalAfter({}, "Unknown", epoch)
  /\ Return(t)
  /\ UNCHANGED <<attempts, pending, authority, envelopes, registry, installed>>

ReserveRefused(t) ==
  /\ At(t, "reserve")
  /\ ~MayReserve(t)
  /\ Return(t)
  /\ UNCHANGED <<ledger, authority, envelopes, registry, installed>>

\* Phase D, the call: IPacingBackend::apply.  A refused request installs
\* nothing; one that is acknowledged for another attempt may have.
BackendApply(t) ==
  /\ At(t, "backend_apply")
  /\ LET a == th[t].att
         at(rate) == [installed EXCEPT ![th[t].h][a] =
                        [rate |-> rate, epoch |-> attempts[a].authority.epoch]]
     IN \/ \E rate \in {"exact"} \cup (Faults \cap {"over", "under"}) :
             /\ installed' = at(rate)
             /\ Become(t, [th[t] EXCEPT !.pc = "fold", !.seen = "accept"])
        \/ /\ "reject" \in Faults
           /\ installed' = installed
           /\ Become(t, [th[t] EXCEPT !.pc = "fold", !.seen = "reject"])
        \/ /\ "misidentify" \in Faults
           /\ installed' = at("exact")
           /\ Become(t, [th[t] EXCEPT !.pc = "fold", !.seen = "misidentify"])
  /\ UNCHANGED <<ledger, authority, envelopes, registry>>

\* Variant: a late completion commits to whatever state it finds.
AwaitsNothing(t, state) == attempts[th[t].att].state # "Absent"
\* Phases D and E commit only to the state that they left behind.
Awaits(t, state) == attempts[th[t].att].state = state

\* Phase D, the fold-in: the attempt was closed while the backend worked.
FoldClosed(t) ==
  /\ At(t, "fold")
  /\ ~Awaits(t, "Submitted")
  /\ ThenWithdraw(t, {<<th[t].h, th[t].att>>})
  /\ UNCHANGED <<ledger, authority, envelopes, registry, installed>>

\* The backend was unregistered while it worked.
FoldUnregistered(t) ==
  /\ At(t, "fold")
  /\ Awaits(t, "Submitted")
  /\ registry[th[t].backend] = NoHandle
  /\ Move({th[t].att}, "Failed")
  /\ ThenWithdraw(t, {<<th[t].h, th[t].att>>})
  /\ UNCHANGED <<authority, envelopes, registry, installed>>

FoldFailed(t) ==
  /\ At(t, "fold")
  /\ Awaits(t, "Submitted")
  /\ registry[th[t].backend] # NoHandle
  /\ th[t].seen \in {"reject", "misidentify"}
  /\ Move({th[t].att}, "Failed")
  /\ Return(t)
  /\ UNCHANGED <<authority, envelopes, registry, installed>>

\* An acknowledgement is not an effect.
FoldAcknowledged(t) ==
  /\ At(t, "fold")
  /\ Awaits(t, "Submitted")
  /\ registry[th[t].backend] # NoHandle
  /\ th[t].seen = "accept"
  /\ Move({th[t].att}, "Acknowledged")
  /\ Become(t, IF th[t].h \in Readable
               THEN [th[t] EXCEPT !.pc = "readback", !.then = "commit", !.seen = "none"]
               ELSE [th[t] EXCEPT !.pc = "fetch_local", !.then = "commit_unverified",
                                  !.seen = "none"])
  /\ UNCHANGED <<authority, envelopes, registry, installed>>

\* What IPacingBackend::readback may show of attempt a.
Observed(h, a) ==
  IF h \notin Readable \/ installed[h][a].rate = "none" THEN {"absent"}
  ELSE {installed[h][a].rate} \cup IF "unreadable" \in Faults THEN {"absent"} ELSE {}

\* Variant: a completed readback is asked for again.
AfterReadbackAgain(then) ==
  CASE then = "verify" -> "verify_commit"
    [] then = "revalidate" -> "revalidate_commit"
    [] OTHER -> "readback"
AfterReadback(then) ==
  CASE then = "verify" -> "verify_commit"
    [] then = "revalidate" -> "revalidate_commit"
    [] OTHER -> "fetch_local"

\* The readback of phase E, of verify_attempt and of revalidate.
Readback(t) ==
  /\ \/ At(t, "readback")
     \/ th[t].pc \in {"verify", "revalidate"} /\ th[t].verdict = "current"
  /\ th[t].h # NoHandle
  /\ \E seen \in Observed(th[t].h, th[t].att) :
       Become(t, [th[t] EXCEPT !.pc = AfterReadback(th[t].then), !.seen = seen,
                               !.verdict = "none"])
  /\ UNCHANGED <<ledger, authority, envelopes, registry, installed>>

\* Phase E, the commit: closed before the readback completed.
CommitLate(t) ==
  /\ At(t, "commit")
  /\ ~Awaits(t, "Acknowledged")
  /\ ThenWithdraw(t, {<<th[t].h, th[t].att>>})
  /\ UNCHANGED <<ledger, authority, envelopes, registry, installed>>

\* The backend was unregistered, or the authority moved or is gone.
CommitStale(t) ==
  /\ At(t, "commit")
  /\ Awaits(t, "Acknowledged")
  /\ registry[th[t].backend] = NoHandle \/ th[t].verdict # "current"
  /\ Move({th[t].att}, "Stale")
  /\ ThenWithdraw(t, {<<th[t].h, th[t].att>>})
  /\ UNCHANGED <<authority, envelopes, registry, installed>>

\* Variant: the comparison with the ceiling is the wrong way round.
UnsafeBelow(seen) == seen = "under"
UnsafeEffect(seen) == seen = "over"

\* finalize_evidence_locked; an effect above the ceiling is withdrawn.
CommitEvidence(t) ==
  /\ At(t, "commit")
  /\ Awaits(t, "Acknowledged")
  /\ registry[th[t].backend] # NoHandle
  /\ th[t].verdict = "current"
  /\ Move({th[t].att}, Finalized(th[t].seen))
  /\ ThenWithdraw(t, IF UnsafeEffect(th[t].seen) THEN {<<th[t].h, th[t].att>>} ELSE {})
  /\ UNCHANGED <<authority, envelopes, registry, installed>>

\* Phase E for a backend without readback.  A late completion is only counted.
CommitUnverified(t) ==
  /\ At(t, "commit_unverified")
  /\ \/ /\ ~Awaits(t, "Acknowledged")
        /\ Return(t)
        /\ UNCHANGED ledger
     \/ /\ Awaits(t, "Acknowledged")
        /\ th[t].verdict # "current"
        /\ Move({th[t].att}, "Stale")
        /\ ThenWithdraw(t, {<<th[t].h, th[t].att>>})
     \/ /\ Awaits(t, "Acknowledged")
        /\ th[t].verdict = "current"
        /\ Move({th[t].att}, "AppliedUnverified")
        /\ Return(t)
  /\ UNCHANGED <<authority, envelopes, registry, installed>>

\* IPacingBackend::revoke, idempotent, one call at a time.
Withdraw(t) ==
  /\ At(t, "withdraw")
  /\ \E w \in th[t].todo :
       /\ installed' = [installed EXCEPT ![w[1]][w[2]] = NoEffect]
       /\ ThenWithdraw(t, th[t].todo \ {w})
  /\ UNCHANGED <<ledger, authority, envelopes, registry>>

-----------------------------------------------------------------------------
(* verify_attempt *)

VerifyBegin(t, a) ==
  /\ Calls(t, "verify")
  /\ Present(a)
  /\ attempts[a].state \notin {"Cancelled", "Revoked", "Fenced", "Stale"}
  /\ registry[attempts[a].backend] # NoHandle
  /\ Become(t, [Idle EXCEPT !.pc = "fetch_local", !.then = "verify", !.att = a,
                  !.env = attempts[a].env, !.backend = attempts[a].backend,
                  !.h = registry[attempts[a].backend]])
  /\ UNCHANGED <<ledger, authority, envelopes, registry, installed>>

\* The state is not looked at again, and nothing is withdrawn.
VerifyStale(t) ==
  /\ At(t, "verify")
  /\ th[t].verdict = "drifted"
  /\ Move({th[t].att}, "Stale")
  /\ Return(t)
  /\ UNCHANGED <<authority, envelopes, registry, installed>>

VerifyRefused(t) ==
  /\ At(t, "verify")
  /\ th[t].verdict = "refused"
  /\ Return(t)
  /\ UNCHANGED <<ledger, authority, envelopes, registry, installed>>

\* The state is not looked at again.
VerifyCommit(t) ==
  /\ At(t, "verify_commit")
  /\ Move({th[t].att}, Finalized(th[t].seen))
  /\ Return(t)
  /\ UNCHANGED <<authority, envelopes, registry, installed>>

-----------------------------------------------------------------------------
(* cancel_attempt, revoke_envelope, fence_below, advance_epoch *)

\* Of an attempt that is closed already, cancellation is a no-op.
CancelAttempt(t, a) ==
  /\ Calls(t, "cancel")
  /\ Present(a)
  /\ ~IsClosed(a)
  /\ Move({a}, IF IsPending(a) THEN "Cancelled" ELSE "Revoked")
  /\ ThenWithdraw(t, Withdrawals({a}))
  /\ UNCHANGED <<authority, envelopes, registry, installed>>

\* The revocation is appended once, before the attempts are.
RevokeEnvelope(t, e) ==
  /\ Calls(t, "revoke")
  /\ e \in 1 .. Len(envelopes)
  /\ envelopes' = [envelopes EXCEPT ![e].revoked = TRUE]
  /\ LET S == {a \in AttemptId : Present(a) /\ attempts[a].env = e /\ ~IsClosed(a)}
     IN /\ TransitionAll(S, "Revoked")
        /\ IF envelopes[e].revoked THEN Journal(S, "Revoked", epoch)
                                   ELSE JournalAfter(S, "Revoked", epoch)
        /\ ThenWithdraw(t, Withdrawals(S))
  /\ UNCHANGED <<authority, registry, installed>>

\* When that append fails, the revoked flag is taken back.
RevokeNotDurable(t, e) ==
  /\ Calls(t, "revoke")
  /\ "journal" \in Faults
  /\ e \in 1 .. Len(envelopes)
  /\ ~envelopes[e].revoked
  /\ JournalOther
  /\ UNCHANGED <<authority, envelopes, registry, installed, th>>

\* Every envelope and every attempt that is not closed, stamped below epoch e.
RevokedBelow(e) ==
  [i \in DOMAIN envelopes |->
     [envelopes[i] EXCEPT !.revoked = @ \/ envelopes[i].authority.epoch < e]]
\* Variant: only attempts in flight are fenced.
InFlightBelow(e) ==
  {a \in AttemptId : IsPending(a) /\ attempts[a].authority.epoch < e}
OpenBelow(e) ==
  {a \in AttemptId : Present(a) /\ ~IsClosed(a) /\ attempts[a].authority.epoch < e}

\* Only an attempt that claimed an effect is withdrawn.
ClaimedEffect(a) ==
  \/ claims_effect(attempts[a])
  \/ attempts[a].state \in {"AppliedUnverified", "Mismatched"}

FenceBelow(t, e) ==
  /\ Calls(t, "fence")
  /\ envelopes' = RevokedBelow(e)
  /\ Move(OpenBelow(e), "Fenced")
  /\ ThenWithdraw(t, Withdrawals({a \in OpenBelow(e) : ClaimedEffect(a)}))
  /\ UNCHANGED <<authority, registry, installed>>

\* The memory advances first; the backends are told only when the append of
\* the new epoch succeeded.
AdvanceEpoch(t) ==
  /\ Calls(t, "advance")
  /\ epoch < MaxEpoch
  /\ epoch' = epoch + 1
  /\ envelopes' = RevokedBelow(epoch + 1)
  /\ TransitionAll(OpenBelow(epoch + 1), "Fenced")
  /\ \E lost \in Lost(OpenBelow(epoch + 1)), snapshot \in BOOLEAN :
       /\ snapshot => lost = {} \/ lost # OpenBelow(epoch + 1)
       /\ \/ /\ Replay(OpenBelow(epoch + 1), "Fenced", epoch + 1, lost, snapshot)
             /\ "journal" \in Faults
             /\ Return(t)
          \/ /\ durable' = Replayed(OpenBelow(epoch + 1), "Fenced", lost, snapshot)
             /\ durable_epoch' = epoch + 1
             /\ LET told == {<<registry[b], 0>> : b \in {c \in Backend : registry[c] # NoHandle}}
                IN Become(t, IF told = {} THEN Idle
                             ELSE [Idle EXCEPT !.pc = "rebind", !.todo = told,
                                               !.fence = epoch + 1])
  /\ UNCHANGED <<boot, local, grant, registry, installed>>

\* IPacingBackend::rebind_epoch, one handle at a time.
RebindEpoch(t) ==
  /\ At(t, "rebind")
  /\ \E w \in th[t].todo :
       /\ installed' = [installed EXCEPT ![w[1]] =
            [a \in AttemptId |-> IF @[a].epoch < th[t].fence THEN NoEffect ELSE @[a]]]
       /\ Become(t, IF th[t].todo = {w} THEN Idle
                    ELSE [th[t] EXCEPT !.todo = @ \ {w}])
  /\ UNCHANGED <<ledger, authority, envelopes, registry>>

-----------------------------------------------------------------------------
(* revalidate *)

RevalidateBegin(t, a) ==
  /\ Calls(t, "revalidate")
  /\ Present(a)
  /\ attempts[a].state \notin {"Cancelled", "Revoked", "Fenced", "Failed"}
  /\ Become(t, [Idle EXCEPT !.pc = "fetch_local", !.then = "revalidate", !.att = a,
                  !.env = attempts[a].env, !.backend = attempts[a].backend,
                  !.h = registry[attempts[a].backend]])
  /\ UNCHANGED <<ledger, authority, envelopes, registry, installed>>

RevalidateRefused(t) ==
  /\ At(t, "revalidate")
  /\ th[t].verdict = "refused" \/ (th[t].verdict = "current" /\ th[t].h = NoHandle)
  /\ Return(t)
  /\ UNCHANGED <<ledger, authority, envelopes, registry, installed>>

\* One transition, with requires_revalidation set to flag afterwards.
MoveRevalidated(a, next, flag) ==
  /\ attempts' = [attempts EXCEPT ![a] =
                    [Transition(@, next) EXCEPT !.requires_revalidation = flag]]
  /\ pending' = PendingAfter({a}, next)
  /\ Journal({a}, next, epoch)
  /\ UNCHANGED minted

RevalidateStale(t) ==
  /\ At(t, "revalidate")
  /\ th[t].verdict = "drifted"
  /\ MoveRevalidated(th[t].att, "Stale", TRUE)
  /\ Return(t)
  /\ UNCHANGED <<authority, envelopes, registry, installed>>

\* Without evidence a terminal record keeps its state and gets the flag.
RevalidateNoEvidence(t) ==
  /\ At(t, "revalidate_commit")
  /\ th[t].seen = "absent"
  /\ IF is_terminal(attempts[th[t].att].state)
     THEN /\ attempts' = [attempts EXCEPT ![th[t].att].requires_revalidation = TRUE]
          /\ Journal({th[t].att}, attempts[th[t].att].state, epoch)
          /\ UNCHANGED <<minted, pending>>
     ELSE Move({th[t].att}, "RequiresRevalidation")
  /\ Return(t)
  /\ UNCHANGED <<authority, envelopes, registry, installed>>

RevalidateCommit(t) ==
  /\ At(t, "revalidate_commit")
  /\ th[t].seen # "absent"
  /\ MoveRevalidated(th[t].att, Finalized(th[t].seen), Finalized(th[t].seen) # "Applied")
  /\ Return(t)
  /\ UNCHANGED <<authority, envelopes, registry, installed>>

-----------------------------------------------------------------------------
(* Backends, authority, restarts *)

\* register_backend replaces the handle of a known identity.
RegisterBackend(h) ==
  /\ "register" \in Operations
  /\ registry[BackendOf[h]] # h
  /\ registry' = [registry EXCEPT ![BackendOf[h]] = h]
  /\ JournalOther
  /\ UNCHANGED <<authority, envelopes, installed, th>>

UnregisterBackend(b) ==
  /\ "unregister" \in Operations
  /\ registry[b] # NoHandle
  /\ registry' = [registry EXCEPT ![b] = NoHandle]
  /\ UNCHANGED <<ledger, authority, envelopes, installed, th>>

\* bind_flow, publish_policy: the generation of what fetch_authority reads.
ChangeLocal ==
  /\ local < MaxGeneration
  /\ local' = local + 1
  /\ JournalOther
  /\ UNCHANGED <<epoch, boot, grant, envelopes, registry, installed, th>>

\* The upstream authority issues another grant.
ChangeGrant ==
  /\ grant < MaxGeneration
  /\ grant' = grant + 1
  /\ UNCHANGED <<ledger, epoch, boot, local, envelopes, registry, installed, th>>

\* A shaper that was exact is found at another rate.
ShaperDrifts(h, a) ==
  /\ "drift" \in Faults
  /\ installed[h][a].rate = "exact"
  /\ \E rate \in {"over", "under"} :
       installed' = [installed EXCEPT ![h][a].rate = rate]
  /\ UNCHANGED <<ledger, authority, envelopes, registry, th>>

\* Variant: an outcome that was recorded is taken over by the next boot.
RecoveredAsIs(s) == IF s \in PendingStates THEN "Ambiguous" ELSE s
\* What recover_locked makes of the last journaled state of an attempt.
Recovered(s) ==
  CASE s = "Absent" -> "Absent"
    [] ~is_terminal(s) /\ s # "Absent" -> "Ambiguous"
    [] s \in InForceStates -> "RequiresRevalidation"
    [] OTHER -> s

\* Variant: a reservation with no outcome is not replayed.
RecoveredOutcome(a) ==
  IF durable[a] \in {"Absent", "Reserved"} THEN NoRecord
  ELSE [attempts[a] EXCEPT !.state = Recovered(durable[a]), !.effect = "None",
                           !.requires_revalidation = TRUE]
RecoveredRecord(a) ==
  IF durable[a] = "Absent" THEN NoRecord
  ELSE [attempts[a] EXCEPT !.state = Recovered(durable[a]), !.effect = "None",
                           !.requires_revalidation = TRUE]

\* The process dies in any state and the next incarnation recovers: the epoch
\* and the boot advance, every envelope is revoked, no backend is registered.
\* Pacing that was installed stays where it is.
Restart ==
  /\ "restart" \in Operations
  /\ boot < MaxBoot
  /\ boot' = boot + 1
  /\ epoch' = durable_epoch + 1
  /\ durable_epoch' = durable_epoch + 1
  /\ envelopes' = [i \in DOMAIN envelopes |-> [envelopes[i] EXCEPT !.revoked = TRUE]]
  /\ attempts' = [a \in AttemptId |-> RecoveredRecord(a)]
  /\ pending' = Cardinality({a \in AttemptId : Recovered(durable[a]) \in PendingStates})
  /\ \E lost \in (IF "journal" \in Faults THEN SUBSET AttemptId ELSE {{}}) :
       durable' = [a \in AttemptId |-> IF a \in lost THEN durable[a] ELSE Recovered(durable[a])]
  /\ LET ids == {a \in AttemptId : durable[a] # "Absent"} \cup {0}
     IN minted' \in ids /\ \A a \in ids : a <= minted'
  /\ registry' = [b \in Backend |-> NoHandle]
  /\ th' = [t \in Thread |-> Idle]
  /\ UNCHANGED <<local, grant, installed>>

-----------------------------------------------------------------------------
(* The specification *)

\* The state after initialize() of a fresh directory, which ends in
\* recover_locked, and the registration of one handle per backend.
Init ==
  /\ epoch = 2 /\ boot = 2 /\ durable_epoch = 2
  /\ local = 1 /\ grant = 1
  /\ envelopes = <<>>
  /\ attempts = [a \in AttemptId |-> NoRecord]
  /\ minted = 0
  /\ pending = 0
  /\ durable = [a \in AttemptId |-> "Absent"]
  /\ registry \in [Backend -> Handle \cup {NoHandle}]
  /\ \A b \in Backend : registry[b] # NoHandle => BackendOf[registry[b]] = b
  /\ installed = [h \in Handle |-> [a \in AttemptId |-> NoEffect]]
  /\ th = [t \in Thread |-> Idle]

\* The operations a caller starts.
Begin(t) ==
  \/ DeriveBegin(t)
  \/ \E e \in EnvelopeId, b \in Backend, r \in {0} \cup AttemptId : ApplyResolve(t, e, b, r)
  \/ \E a \in AttemptId : VerifyBegin(t, a)
  \/ \E a \in AttemptId : CancelAttempt(t, a)
  \/ \E e \in EnvelopeId : RevokeEnvelope(t, e) \/ RevokeNotDurable(t, e)
  \/ \E e \in 1 .. MaxEpoch + 1 : FenceBelow(t, e)
  \/ AdvanceEpoch(t)
  \/ \E a \in AttemptId : RevalidateBegin(t, a)

\* The steps that carry a started operation on.
Continue(t) ==
  \/ FetchLocal(t) \/ FetchGrant(t) \/ FetchEpoch(t) \/ FetchRefused(t)
  \/ DeriveCommit(t) \/ DeriveRefused(t)
  \/ Reserve(t) \/ ReserveNotDurable(t) \/ ReserveRefused(t)
  \/ BackendApply(t)
  \/ FoldClosed(t) \/ FoldUnregistered(t) \/ FoldFailed(t) \/ FoldAcknowledged(t)
  \/ Readback(t)
  \/ CommitLate(t) \/ CommitStale(t) \/ CommitEvidence(t) \/ CommitUnverified(t)
  \/ Withdraw(t) \/ RebindEpoch(t)
  \/ VerifyStale(t) \/ VerifyRefused(t) \/ VerifyCommit(t)
  \/ RevalidateRefused(t) \/ RevalidateStale(t) \/ RevalidateNoEvidence(t)
  \/ RevalidateCommit(t)

Environment ==
  \/ \E h \in Handle : RegisterBackend(h)
  \/ \E b \in Backend : UnregisterBackend(b)
  \/ ChangeLocal \/ ChangeGrant
  \/ \E h \in Handle, a \in AttemptId : ShaperDrifts(h, a)
  \/ Restart

Next == (\E t \in Thread : Begin(t) \/ Continue(t)) \/ Environment

Spec == Init /\ [][Next]_vars

\* A thread that is in an operation goes on with it, and backends and the
\* upstream authority answer.  Nobody has to start an operation.
FairSpec == Spec /\ \A t \in Thread : WF_vars(Continue(t))

-----------------------------------------------------------------------------
(* Properties *)

\* Every variable stays in its type; in particular pending_attempts_, an unsigned
\* counter that transitions of many threads decrement, never passes below zero.
TypeOK ==
  /\ epoch \in Nat /\ boot \in Nat /\ local \in Nat /\ grant \in Nat
  /\ durable_epoch \in Nat
  /\ envelopes \in Seq(Envelope)
  /\ attempts \in [AttemptId -> Record]
  /\ minted \in Nat
  /\ pending \in Nat
  /\ durable \in [AttemptId -> ApplicationStates \cup {"Absent"}]
  /\ registry \in [Backend -> Handle \cup {NoHandle}]
  /\ installed \in [Handle -> [AttemptId -> Effect]]
  /\ th \in [Thread -> ThreadState]

Quiescent == \A t \in Thread : At(t, "idle")

\* pending_attempts_, which bounds how many applications may be in flight and
\* is kept incrementally by apply_transition through every racing operation, is
\* exactly the number of attempts whose outcome is open.
PendingExact == pending = Cardinality({a \in AttemptId : IsPending(a)})

\* However many threads apply one envelope to one backend, and whatever attempt
\* id they ask for, the ledger holds one attempt for the pair.
OneAttemptPerBackend ==
  \A a, b \in AttemptId :
    /\ Present(a) /\ Present(b)
    /\ attempts[a].env = attempts[b].env /\ attempts[a].backend = attempts[b].backend
    => a = b

\* Durable before authoritative: pacing in force at any backend has a record in
\* the ledger, even when appends are refused and the coordinator restarts at any
\* point.
EveryEffectHasARecord ==
  \A h \in Handle, a \in AttemptId : installed[h][a] # NoEffect => Present(a)

\* An attempt is in force at one handle, although its backend may be given another
\* handle between any two steps of the operations that work for it.
OneHandlePerAttempt ==
  \A a \in AttemptId, h, k \in Handle :
    installed[h][a] # NoEffect /\ installed[k][a] # NoEffect => h = k

\* What makes these inductive.  The operation that a thread is in fixes what it
\* works for: one of the first n envelopes, or one of the attempts in the ledger,
\* which stays there while it works; and an application knows its backend.
PresentAttempts == {a \in AttemptId : Present(a)}
FetchPCs == {"fetch_local", "fetch_grant", "fetch_epoch"}
ForEnvelope(s) == s.pc = "reserve" \/ (s.pc \in FetchPCs /\ s.then = "reserve")
Applies(s) ==
  \/ s.pc \in {"backend_apply", "fold", "readback", "commit", "commit_unverified"}
  \/ s.pc \in FetchPCs /\ s.then \in {"commit", "commit_unverified"}
ForAttempt(s) ==
  \/ Applies(s)
  \/ s.pc \in {"verify", "verify_commit", "revalidate", "revalidate_commit"}
  \/ s.pc \in FetchPCs /\ s.then \in {"verify", "revalidate"}
ThreadOK(s, n, present) ==
  /\ s.pc \in FetchPCs => s.then \in {"derive", "reserve", "commit", "commit_unverified",
                                    "verify", "revalidate"}
  /\ s.pc = "readback" => s.then = "commit"
  /\ s.pc \in {"verify", "revalidate"} => s.then = s.pc
  /\ ForEnvelope(s) => s.env \in 1 .. n
  /\ ForAttempt(s) => s.att \in present
  /\ ForEnvelope(s) \/ Applies(s) => s.backend \in Backend /\ s.h \in Handle
ThreadsOK == \A t \in Thread : ThreadOK(th[t], Len(envelopes), PresentAttempts)

\* An attempt in the ledger was made for a backend, and the journal replays
\* exactly the attempts that the ledger holds.
BackendsKnown == \A a \in AttemptId : Present(a) => attempts[a].backend \in Backend
DurableKnowsAttempts == \A a \in AttemptId : Present(a) <=> durable[a] # "Absent"

\* A closed attempt keeps its closed state, whatever completes afterwards.
ClosedStaysClosed ==
  [][\A a \in AttemptId : IsClosed(a) => attempts'[a].state = attempts[a].state]_vars

\* "Terminal without effect": once no operation is under way, no pacing is in
\* force for an attempt that is recorded as closed.
NoOrphanedEffect ==
  Quiescent => \A h \in Handle, a \in AttemptId :
                 IsClosed(a) => installed[h][a] = NoEffect

\* A record that claims an effect is right: a handle of its backend has exactly
\* the authorised cadence in force, also while others cancel, revoke and fence.
ClaimedIsInForce ==
  \A a \in AttemptId : claims_effect(attempts[a]) =>
    \E h \in Handle : BackendOf[h] = attempts[a].backend /\ installed[h][a].rate = "exact"

\* An attempt that is open or that says something is in force was made under the
\* coordinator's present epoch and boot, although the epoch is read long before
\* the commit and no lock is held in between.
OpenAtCurrentEpoch ==
  \A a \in AttemptId : attempts[a].state \in PendingStates \cup InForceStates =>
    attempts[a].authority.epoch = epoch /\ attempts[a].authority.boot = boot

\* No effect of an earlier incarnation is ever reported as in force again, by
\* any operation: the claims die with the boot they were made under.
NoClaimAcrossRestart ==
  \A a \in AttemptId : attempts[a].authority.boot < boot =>
    attempts[a].state \notin PendingStates \cup InForceStates

\* Pacing that a readback showed above the authorised rate does not stay in
\* force once the operation that saw it is over.
OverRateWithdrawn ==
  Quiescent => \A h \in Handle, a \in AttemptId :
    attempts[a].state = "Mismatched" => installed[h][a].rate # "over"

\* The life of an attempt as a caller may rely on it.
Phase ==
  [a \in AttemptId |->
     CASE attempts[a].state = "Absent" -> "none"
       [] attempts[a].state \in PendingStates -> "open"
       [] attempts[a].state \in InForceStates -> "in_force"
       [] OTHER -> "closed"]
Lifecycle == INSTANCE AttemptLifecycle WITH Attempt <- AttemptId, phase <- Phase

\* Every operation, under every interleaving, moves attempts only along the
\* lifecycle: opened once, an outcome only from open and for one attempt at a
\* time, closed for good.
ImplementsLifecycle == Lifecycle!Spec

\* Every operation that was started comes to an end.
OperationsEnd == \A t \in Thread : ~At(t, "idle") ~> At(t, "idle")

\* Pacing of a closed attempt is withdrawn in the end.
ClosedIsWithdrawn ==
  \A h \in Handle, a \in AttemptId :
    IsClosed(a) /\ installed[h][a] # NoEffect ~> installed[h][a] = NoEffect

=============================================================================
