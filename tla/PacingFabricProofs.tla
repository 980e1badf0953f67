------------------------- MODULE PacingFabricProofs -------------------------
(***************************************************************************)
(* Proofs about PacingFabric, for every number of threads, backends,       *)
(* envelopes and attempts, and for every set of operations and faults.     *)
(***************************************************************************)
EXTENDS PacingFabric, FiniteSetTheorems, TLAPS

USE DEF AttemptId

-----------------------------------------------------------------------------
(* The ledger *)

\* A step that keeps every attempt in the ledger, with what it was made for.
KeepsAttempts ==
  \A a \in AttemptId :
    /\ Present(a)' <=> Present(a)
    /\ attempts'[a].env = attempts[a].env
    /\ attempts'[a].backend = attempts[a].backend
    /\ attempts'[a].authority = attempts[a].authority

LedgerType ==
  /\ attempts \in [AttemptId -> Record]
  /\ minted \in Nat
  /\ pending \in Nat
  /\ durable \in [AttemptId -> ApplicationStates \cup {"Absent"}]
  /\ durable_epoch \in Nat

\* apply_transition gives a record of the right type that keeps what the
\* attempt was made for.
LEMMA TransitionType ==
  ASSUME NEW r \in Record, NEW next \in ApplicationStates
  PROVE  /\ Transition(r, next) \in Record
         /\ Transition(r, next).state = next
         /\ Transition(r, next).env = r.env
         /\ Transition(r, next).backend = r.backend
         /\ Transition(r, next).authority = r.authority
  BY DEF Transition, Record, EffectLabel, EffectLabels

\* The attempts in a state are finitely many.
LEMMA PendingFinite ==
  ASSUME NEW S, S \subseteq AttemptId
  PROVE  IsFiniteSet(S) /\ Cardinality(S) \in Nat
  <1>1. IsFiniteSet(AttemptId)
    BY FS_Interval, ConstantsAssumption
  <1>2. IsFiniteSet(S)
    BY <1>1, FS_Subset
  <1> QED
    BY <1>2, FS_CardinalityType

\* apply_transition of a set of attempts to a terminal state keeps the counter
\* exact: what leaves the pending attempts is what it subtracts.
LEMMA TerminalStep ==
  ASSUME TypeOK, PendingExact,
         NEW S, S \subseteq PresentAttempts,
         NEW next \in ApplicationStates, is_terminal(next),
         attempts' \in [AttemptId -> Record],
         \A a \in S : /\ attempts'[a].state = next
                     /\ attempts'[a].env = attempts[a].env
                     /\ attempts'[a].backend = attempts[a].backend
                     /\ attempts'[a].authority = attempts[a].authority,
         \A a \in AttemptId \ S : attempts'[a] = attempts[a],
         pending' = PendingAfter(S, next)
  PROVE  KeepsAttempts /\ pending' \in Nat /\ PendingExact'
  <1> DEFINE P == {a \in AttemptId : IsPending(a)}
  <1>2. KeepsAttempts
    <2> SUFFICES ASSUME NEW a \in AttemptId
                 PROVE  /\ Present(a)' <=> Present(a)
                        /\ attempts'[a].env = attempts[a].env
                        /\ attempts'[a].backend = attempts[a].backend
                        /\ attempts'[a].authority = attempts[a].authority
      BY DEF KeepsAttempts
    <2>1. CASE a \in S
      <3>1. Present(a) /\ attempts'[a].state = next
        BY <2>1 DEF PresentAttempts
      <3>2. next # "Absent"
        BY DEF ApplicationStates, PendingStates, InForceStates, ClosedStates
      <3> QED
        BY <2>1, <3>1, <3>2 DEF Present
    <2>2. CASE a \notin S
      BY <2>2 DEF Present
    <2> QED
      BY <2>1, <2>2
  <1>3. {a \in AttemptId : IsPending(a)'} = P \ S
    <2> SUFFICES ASSUME NEW a \in AttemptId
                 PROVE  IsPending(a)' <=> IsPending(a) /\ a \notin S
      OBVIOUS
    <2>1. CASE a \in S
      <3>1. attempts'[a].state = next
        BY <2>1
      <3> QED
        BY <2>1, <3>1 DEF IsPending, is_terminal, PendingStates, InForceStates, ClosedStates
    <2>2. CASE a \notin S
      BY <2>2 DEF IsPending
    <2> QED
      BY <2>1, <2>2
  <1>4. {a \in S : IsPending(a)} = P \cap S
    BY DEF PresentAttempts
  <1>5. /\ IsFiniteSet(P) /\ Cardinality(P) \in Nat
        /\ Cardinality(P \cap S) \in Nat /\ Cardinality(P \ S) \in Nat
    <2>1. P \subseteq AttemptId /\ P \cap S \subseteq AttemptId /\ P \ S \subseteq AttemptId
      OBVIOUS
    <2> QED
      BY <2>1, PendingFinite
  <1>6. Cardinality(P \ S) = Cardinality(P) - Cardinality(P \cap S)
    BY <1>5, FS_Difference
  <1>7. pending' = Cardinality(P \ S)
    <2>1. pending = Cardinality(P)
      BY DEF PendingExact
    <2>2. pending' = Saturate(pending - Cardinality(P \cap S))
      BY <1>4 DEF PendingAfter
    <2> HIDE DEF P
    <2> QED
      BY <2>1, <2>2, <1>5, <1>6 DEF Saturate
  <1>8. PendingExact'
    BY <1>3, <1>7 DEF PendingExact
  <1> QED
    BY <1>2, <1>5, <1>7, <1>8

\* The same of TransitionAll.
LEMMA TransitionAllStep ==
  ASSUME TypeOK, PendingExact,
         NEW S, S \subseteq PresentAttempts,
         NEW next \in ApplicationStates, is_terminal(next),
         TransitionAll(S, next)
  PROVE  /\ attempts' \in [AttemptId -> Record]
         /\ minted' \in Nat
         /\ pending' \in Nat
         /\ KeepsAttempts
         /\ PendingExact'
  <1>1. /\ attempts' \in [AttemptId -> Record]
        /\ \A a \in S : attempts'[a] = Transition(attempts[a], next) /\ attempts[a] \in Record
        /\ \A a \in AttemptId \ S : attempts'[a] = attempts[a]
    BY TransitionType DEF TransitionAll, TypeOK, PresentAttempts
  <1>2. \A a \in S : /\ attempts'[a].state = next
                    /\ attempts'[a].env = attempts[a].env
                    /\ attempts'[a].backend = attempts[a].backend
                    /\ attempts'[a].authority = attempts[a].authority
    BY <1>1, TransitionType
  <1>3. pending' = PendingAfter(S, next) /\ minted' \in Nat
    BY DEF TransitionAll, TypeOK
  <1> QED
    BY <1>1, <1>2, <1>3, TerminalStep

\* Whatever appends are lost and whenever a checkpoint happens, the journal
\* goes on to replay exactly the attempts of the ledger.
LEMMA JournalStep ==
  ASSUME TypeOK, DurableKnowsAttempts, KeepsAttempts,
         NEW S, S \subseteq PresentAttempts,
         NEW next \in ApplicationStates,
         NEW lost, NEW snapshot \in BOOLEAN, durable' = Replayed(S, next, lost, snapshot)
  PROVE  /\ durable' \in [AttemptId -> ApplicationStates \cup {"Absent"}]
         /\ DurableKnowsAttempts'
  <1>1. next # "Absent"
    BY DEF ApplicationStates, PendingStates, InForceStates, ClosedStates
  <1>2. \A a \in AttemptId : attempts[a].state \in ApplicationStates \cup {"Absent"}
    BY DEF TypeOK, Record
  <1>3. \A a \in AttemptId :
          durable'[a] = IF a \in S \ lost THEN next
                        ELSE IF snapshot THEN attempts[a].state ELSE durable[a]
    BY DEF Replayed
  <1>4. durable' \in [AttemptId -> ApplicationStates \cup {"Absent"}]
    BY <1>2 DEF Replayed, TypeOK
  <1>5. \A a \in AttemptId : durable'[a] # "Absent" <=> Present(a)
    BY <1>1, <1>3 DEF DurableKnowsAttempts, PresentAttempts, Present
  <1> QED
    BY <1>4, <1>5 DEF DurableKnowsAttempts, KeepsAttempts

\* The same of an append among others, with what it does to the epoch.
LEMMA JournalAfterStep ==
  ASSUME TypeOK, DurableKnowsAttempts, KeepsAttempts,
         NEW S, S \subseteq PresentAttempts,
         NEW next \in ApplicationStates, NEW e \in Nat,
         Journal(S, next, e) \/ JournalAfter(S, next, e)
  PROVE  /\ durable' \in [AttemptId -> ApplicationStates \cup {"Absent"}]
         /\ DurableKnowsAttempts' /\ durable_epoch' \in Nat
  <1>1. PICK lost \in Lost(S), snapshot \in BOOLEAN : Replay(S, next, e, lost, snapshot)
    BY DEF Journal, JournalAfter
  <1>2. durable' = Replayed(S, next, lost, snapshot) /\ durable_epoch' \in Nat
    BY <1>1 DEF Replay, TypeOK
  <1> QED
    BY <1>2, JournalStep

\* What Move does to the ledger.
LEMMA MoveStep ==
  ASSUME TypeOK, PendingExact, DurableKnowsAttempts,
         NEW S, S \subseteq PresentAttempts,
         NEW next \in ApplicationStates, is_terminal(next),
         Move(S, next)
  PROVE  LedgerType' /\ KeepsAttempts /\ PendingExact' /\ DurableKnowsAttempts'
  <1>1. TransitionAll(S, next) /\ Journal(S, next, epoch)
    BY DEF Move
  <1>2. /\ attempts' \in [AttemptId -> Record] /\ minted' \in Nat /\ pending' \in Nat
        /\ KeepsAttempts /\ PendingExact'
    BY <1>1, TransitionAllStep
  <1>3. epoch \in Nat
    BY DEF TypeOK
  <1>4. /\ durable' \in [AttemptId -> ApplicationStates \cup {"Absent"}]
        /\ DurableKnowsAttempts' /\ durable_epoch' \in Nat
    BY <1>1, <1>2, <1>3, JournalAfterStep
  <1> QED
    BY <1>2, <1>4 DEF LedgerType

-----------------------------------------------------------------------------
(* Threads *)

\* The inductive invariant.
Inv ==
  /\ TypeOK
  /\ ThreadsOK
  /\ PendingExact
  /\ OneAttemptPerBackend
  /\ BackendsKnown
  /\ DurableKnowsAttempts
  /\ EveryEffectHasARecord

\* A thread outside of any operation relies on nothing.
LEMMA IdleOK ==
  /\ Idle \in ThreadState
  /\ \A n, P : ThreadOK(Idle, n, P)
  BY DEF Idle, ThreadState, PCs, NoVector, AuthorityVector, ThreadOK, ForEnvelope, ForAttempt,
         Applies, FetchPCs

\* Neither does one that only has effects to withdraw.
LEMMA WithdrawOK ==
  ASSUME NEW W, W \subseteq Handle \X Nat
  PROVE  /\ [Idle EXCEPT !.pc = "withdraw", !.todo = W] \in ThreadState
         /\ \A n, P : ThreadOK([Idle EXCEPT !.pc = "withdraw", !.todo = W], n, P)
  BY DEF Idle, ThreadState, PCs, NoVector, AuthorityVector, ThreadOK, ForEnvelope, ForAttempt,
         Applies, FetchPCs

\* One thread moves; the others still have what they work for.
LEMMA ThreadStep ==
  ASSUME TypeOK, ThreadsOK, NEW t \in Thread, NEW s \in ThreadState, Become(t, s),
         Len(envelopes)' \in Nat, Len(envelopes) <= Len(envelopes)',
         PresentAttempts \subseteq PresentAttempts',
         ThreadOK(s, Len(envelopes)', PresentAttempts')
  PROVE  th' \in [Thread -> ThreadState] /\ ThreadsOK'
  <1>1. th' \in [Thread -> ThreadState]
    BY DEF Become, TypeOK
  <1>2. ASSUME NEW u \in Thread
        PROVE  ThreadOK(th'[u], Len(envelopes)', PresentAttempts')
    <2>1. CASE u = t
      BY <2>1 DEF Become, TypeOK
    <2>2. CASE u # t
      <3>1. th'[u] = th[u] /\ ThreadOK(th[u], Len(envelopes), PresentAttempts)
        BY <2>2 DEF Become, TypeOK, ThreadsOK
      <3>2. Len(envelopes) \in Nat
        BY DEF TypeOK
      <3> QED
        BY <3>1, <3>2 DEF ThreadOK
    <2> QED
      BY <2>1, <2>2
  <1> QED
    BY <1>1, <1>2 DEF ThreadsOK

\* A step that changes nothing but a thread's own variables.
LEMMA LocalStep ==
  ASSUME Inv, NEW t \in Thread, NEW s \in ThreadState, Become(t, s),
         ThreadOK(s, Len(envelopes), PresentAttempts),
         UNCHANGED <<ledger, authority, envelopes, registry, installed>>
  PROVE  Inv'
  <1> USE DEF Inv, ledger, authority
  <1>1. PresentAttempts' = PresentAttempts /\ Len(envelopes)' = Len(envelopes)
    BY DEF PresentAttempts, Present
  <1>2. Len(envelopes) \in Nat
    BY DEF TypeOK
  <1>3. th' \in [Thread -> ThreadState] /\ ThreadsOK'
    BY <1>1, <1>2, ThreadStep
  <1>4. TypeOK'
    BY <1>3 DEF TypeOK
  <1>5. /\ PendingExact' /\ OneAttemptPerBackend' /\ DurableKnowsAttempts'
        /\ BackendsKnown' /\ EveryEffectHasARecord'
    BY DEF PendingExact, IsPending, OneAttemptPerBackend, DurableKnowsAttempts,
           BackendsKnown, EveryEffectHasARecord, Present
  <1> QED
    BY <1>3, <1>4, <1>5

\* A step that changes the ledger and the envelopes but removes nothing.
LEMMA LedgerStep ==
  ASSUME Inv, NEW t \in Thread, NEW s \in ThreadState, Become(t, s),
         ThreadOK(s, Len(envelopes)', PresentAttempts),
         LedgerType', KeepsAttempts, PendingExact', DurableKnowsAttempts',
         epoch' \in Nat, UNCHANGED <<boot, local, grant, registry, installed>>,
         envelopes' \in Seq(Envelope),
         Len(envelopes) <= Len(envelopes)'
  PROVE  Inv'
  <1> USE DEF Inv
  <1>1. PresentAttempts' = PresentAttempts
    BY DEF PresentAttempts, KeepsAttempts
  <1>2. th' \in [Thread -> ThreadState] /\ ThreadsOK'
    BY <1>1, ThreadStep
  <1>3. TypeOK'
    BY <1>2 DEF TypeOK, LedgerType
  <1>4. OneAttemptPerBackend' /\ BackendsKnown' /\ EveryEffectHasARecord'
    BY DEF OneAttemptPerBackend, BackendsKnown, EveryEffectHasARecord, KeepsAttempts
  <1> QED
    BY <1>2, <1>3, <1>4

\* A step that changes what is installed, only where a record is.
LEMMA BackendStep ==
  ASSUME Inv, NEW t \in Thread, NEW s \in ThreadState, Become(t, s),
         ThreadOK(s, Len(envelopes), PresentAttempts),
         UNCHANGED <<ledger, authority, envelopes, registry>>,
         installed' \in [Handle -> [AttemptId -> Effect]],
         EveryEffectHasARecord'
  PROVE  Inv'
  <1> USE DEF Inv, ledger, authority
  <1>1. PresentAttempts' = PresentAttempts /\ Len(envelopes)' = Len(envelopes)
    BY DEF PresentAttempts, Present
  <1>2. Len(envelopes) \in Nat
    BY DEF TypeOK
  <1>3. th' \in [Thread -> ThreadState] /\ ThreadsOK'
    BY <1>1, <1>2, ThreadStep
  <1>4. TypeOK'
    BY <1>3 DEF TypeOK
  <1>5. PendingExact' /\ OneAttemptPerBackend' /\ BackendsKnown' /\ DurableKnowsAttempts'
    BY DEF PendingExact, IsPending, OneAttemptPerBackend, BackendsKnown, DurableKnowsAttempts,
           Present
  <1> QED
    BY <1>3, <1>4, <1>5

-----------------------------------------------------------------------------
(* The steps that change only where a thread is *)

\* What the invariant says of one thread.
LEMMA ThreadFacts ==
  ASSUME Inv, NEW t \in Thread
  PROVE  /\ TypeOK
         /\ th[t] \in ThreadState
         /\ th[t].got \in AuthorityVector
         /\ ThreadOK(th[t], Len(envelopes), PresentAttempts)
  BY DEF Inv, TypeOK, ThreadsOK, ThreadState

\* An operation that ends leaves nothing behind but its effects.
LEMMA ReturnStep ==
  ASSUME Inv, NEW t \in Thread, Return(t),
         UNCHANGED <<ledger, authority, envelopes, registry, installed>>
  PROVE  Inv'
  BY IdleOK, LocalStep DEF Return

\* So does one that goes on to withdraw effects.
LEMMA WithdrawStep ==
  ASSUME Inv, NEW t \in Thread, NEW W, W \subseteq Handle \X Nat, ThenWithdraw(t, W),
         UNCHANGED <<ledger, authority, envelopes, registry, installed>>
  PROVE  Inv'
  <1>1. CASE W = {}
    BY <1>1, ReturnStep DEF ThenWithdraw, Return
  <1>2. CASE W # {}
    BY <1>2, WithdrawOK, LocalStep DEF ThenWithdraw
  <1> QED
    BY <1>1, <1>2

\* fetch_authority keeps what the thread works for.
LEMMA FetchLocalStep ==
  ASSUME Inv, NEW t \in Thread, FetchLocal(t)
  PROVE  Inv'
  <1>0. /\ TypeOK /\ th[t] \in ThreadState /\ th[t].got \in AuthorityVector
        /\ ThreadOK(th[t], Len(envelopes), PresentAttempts)
    BY ThreadFacts
  <1> DEFINE g == [th[t].got EXCEPT !.local = local]
             s == [th[t] EXCEPT !.pc = "fetch_grant", !.got = g]
  <1>1. g \in AuthorityVector
    BY <1>0 DEF AuthorityVector, TypeOK
  <1>2. Become(t, s)
    BY DEF FetchLocal
  <1> HIDE DEF g
  <1>3. s \in ThreadState
    BY <1>1, <1>0 DEF ThreadState, PCs
  <1>4. ThreadOK(s, Len(envelopes), PresentAttempts)
    BY <1>0 DEF FetchLocal, At, ThreadState, ThreadOK, ForEnvelope, ForAttempt, Applies,
           FetchPCs
  <1> QED
    BY <1>2, <1>3, <1>4, LocalStep DEF FetchLocal

\* The same for the grant ...
LEMMA FetchGrantStep ==
  ASSUME Inv, NEW t \in Thread, FetchGrant(t)
  PROVE  Inv'
  <1>0. /\ TypeOK /\ th[t] \in ThreadState /\ th[t].got \in AuthorityVector
        /\ ThreadOK(th[t], Len(envelopes), PresentAttempts)
    BY ThreadFacts
  <1> DEFINE g == [th[t].got EXCEPT !.grant = grant]
             s == [th[t] EXCEPT !.pc = "fetch_epoch", !.got = g]
  <1>1. g \in AuthorityVector
    BY <1>0 DEF AuthorityVector, TypeOK
  <1>2. Become(t, s)
    BY DEF FetchGrant
  <1> HIDE DEF g
  <1>3. s \in ThreadState
    BY <1>1, <1>0 DEF ThreadState, PCs
  <1>4. ThreadOK(s, Len(envelopes), PresentAttempts)
    BY <1>0 DEF FetchGrant, At, ThreadState, ThreadOK, ForEnvelope, ForAttempt, Applies,
           FetchPCs
  <1> QED
    BY <1>2, <1>3, <1>4, LocalStep DEF FetchGrant

\* ... for the epoch, after which the thread goes where it was bound for ...
LEMMA FetchEpochStep ==
  ASSUME Inv, NEW t \in Thread, FetchEpoch(t)
  PROVE  Inv'
  <1>0. /\ TypeOK /\ th[t] \in ThreadState /\ th[t].got \in AuthorityVector
        /\ ThreadOK(th[t], Len(envelopes), PresentAttempts)
    BY ThreadFacts
  <1> DEFINE g == [th[t].got EXCEPT !.epoch = epoch, !.boot = boot]
             v == IF Held(t) = g THEN "current" ELSE "drifted"
             derived == [th[t] EXCEPT !.pc = "derive", !.got = g, !.verdict = "current"]
             compared == [th[t] EXCEPT !.pc = th[t].then, !.got = NoVector, !.verdict = v]
  <1>1. g \in AuthorityVector /\ NoVector \in AuthorityVector /\ v \in {"current", "drifted"}
    BY <1>0 DEF AuthorityVector, TypeOK, NoVector
  <1>2. Become(t, IF th[t].then = "derive" THEN derived ELSE compared)
    BY DEF FetchEpoch
  <1> HIDE DEF g, v
  <1>3. derived \in ThreadState /\ compared \in ThreadState
    <2>1. "derive" \in PCs /\ th[t].then \in PCs
      BY <1>0 DEF ThreadState, PCs
    <2>2. derived \in ThreadState
      BY <1>0, <1>1, <2>1 DEF ThreadState
    <2>3. compared \in ThreadState
      BY <1>0, <1>1, <2>1 DEF ThreadState
    <2> QED
      BY <2>2, <2>3
  <1>4. th[t].then = "derive" => ThreadOK(derived, Len(envelopes), PresentAttempts)
    BY <1>0 DEF FetchEpoch, At, ThreadState, ThreadOK, ForEnvelope, ForAttempt, Applies,
           FetchPCs
  <1>5. th[t].then # "derive" => ThreadOK(compared, Len(envelopes), PresentAttempts)
    BY <1>0 DEF FetchEpoch, At, ThreadState, ThreadOK, ForEnvelope, ForAttempt, Applies,
           FetchPCs
  <1> HIDE DEF derived, compared
  <1> QED
    BY <1>2, <1>3, <1>4, <1>5, LocalStep DEF FetchEpoch

\* ... and for a fetch that is refused.
LEMMA FetchRefusedStep ==
  ASSUME Inv, NEW t \in Thread, FetchRefused(t)
  PROVE  Inv'
  <1>0. /\ TypeOK /\ th[t] \in ThreadState /\ th[t].got \in AuthorityVector
        /\ ThreadOK(th[t], Len(envelopes), PresentAttempts)
    BY ThreadFacts
  <1> DEFINE s == [th[t] EXCEPT !.pc = th[t].then, !.got = NoVector, !.verdict = "refused"]
  <1>1. NoVector \in AuthorityVector
    BY DEF AuthorityVector, NoVector
  <1>2. s \in ThreadState
    <2>1. th[t].then \in PCs
      BY <1>0 DEF ThreadState
    <2> QED
      BY <1>0, <1>1, <2>1 DEF ThreadState
  <1>3. ThreadOK(s, Len(envelopes), PresentAttempts)
    BY <1>0 DEF FetchRefused, At, ThreadState, ThreadOK, ForEnvelope, ForAttempt, Applies,
           FetchPCs
  <1> QED
    BY <1>2, <1>3, LocalStep DEF FetchRefused

\* A readback leads phase E, verify_attempt and revalidate to their commit.
LEMMA ReadbackStep ==
  ASSUME Inv, NEW t \in Thread, Readback(t)
  PROVE  Inv'
  <1>0. /\ TypeOK /\ th[t] \in ThreadState /\ th[t].got \in AuthorityVector
        /\ ThreadOK(th[t], Len(envelopes), PresentAttempts)
    BY ThreadFacts
  <1>1. PICK seen \in Observed(th[t].h, th[t].att) :
          Become(t, [th[t] EXCEPT !.pc = AfterReadback(th[t].then), !.seen = seen,
                                  !.verdict = "none"])
    BY DEF Readback
  <1> DEFINE p == AfterReadback(th[t].then)
             s == [th[t] EXCEPT !.pc = p, !.seen = seen, !.verdict = "none"]
  <1>2. /\ \/ th[t].pc = "readback" /\ th[t].then = "commit"
           \/ th[t].pc = "verify" /\ th[t].then = "verify"
           \/ th[t].pc = "revalidate" /\ th[t].then = "revalidate"
        /\ th[t].att \in PresentAttempts
    BY <1>0 DEF Readback, At, ThreadOK, ForAttempt, Applies
  <1>21. th[t].h \in Handle
    BY <1>0 DEF Readback, ThreadState
  <1>3. \/ th[t].then = "commit" /\ p = "fetch_local"
        \/ th[t].then = "verify" /\ p = "verify_commit"
        \/ th[t].then = "revalidate" /\ p = "revalidate_commit"
    BY <1>2 DEF AfterReadback
  <1>4. seen \in Rates \cup {"none", "absent"}
    <2>1. installed[th[t].h][th[t].att] \in Effect
      BY <1>2, <1>21, <1>0 DEF TypeOK, PresentAttempts
    <2> QED
      BY <2>1 DEF Observed, Effect
  <1>5. Become(t, s)
    BY <1>1
  <1> HIDE DEF p
  <1>6. s \in ThreadState
    <2>1. p \in PCs
      BY <1>3 DEF PCs
    <2> QED
      BY <1>0, <1>4, <2>1 DEF ThreadState
  <1>7. ThreadOK(s, Len(envelopes), PresentAttempts)
    BY <1>2, <1>3, <1>0 DEF ThreadState, ThreadOK, ForEnvelope, ForAttempt, Applies,
           FetchPCs
  <1> QED
    BY <1>5, <1>6, <1>7, LocalStep DEF Readback

\* derive_envelope begins with nothing.
LEMMA DeriveBeginStep ==
  ASSUME Inv, NEW t \in Thread, DeriveBegin(t)
  PROVE  Inv'
  <1> DEFINE s == [Idle EXCEPT !.pc = "fetch_local", !.then = "derive"]
  <1>1. s \in ThreadState /\ ThreadOK(s, Len(envelopes), PresentAttempts)
    BY IdleOK DEF Idle, ThreadState, PCs, ThreadOK, ForEnvelope, ForAttempt, Applies,
           FetchPCs
  <1> QED
    BY <1>1, LocalStep DEF DeriveBegin

\* apply_envelope begins with an envelope and a registered backend.
LEMMA ApplyResolveStep ==
  ASSUME Inv, NEW t \in Thread, NEW e \in EnvelopeId, NEW b \in Backend,
         NEW r \in {0} \cup AttemptId, ApplyResolve(t, e, b, r)
  PROVE  Inv'
  <1> DEFINE s == [Idle EXCEPT !.pc = "fetch_local", !.then = "reserve", !.env = e,
                     !.backend = b, !.h = registry[b], !.requested = r]
  <1>1. /\ r \in Nat /\ e \in Nat /\ e \in 1 .. Len(envelopes) 
        /\ registry[b] \in Handle
    BY ThreadFacts DEF ApplyResolve, EnvelopeId, TypeOK
  <1>2. s \in ThreadState
    BY <1>1, IdleOK DEF Idle, ThreadState, PCs
  <1>3. ThreadOK(s, Len(envelopes), PresentAttempts)
    BY <1>1 DEF Idle, ThreadOK, ForEnvelope, ForAttempt, Applies, FetchPCs
  <1> QED
    BY <1>2, <1>3, LocalStep DEF ApplyResolve

\* The state verify_attempt and revalidate begin in.
LEMMA BeginForAttempt ==
  ASSUME Inv, NEW t \in Thread, NEW a \in AttemptId, Present(a),
         NEW then \in {"verify", "revalidate"},
         Become(t, [Idle EXCEPT !.pc = "fetch_local", !.then = then, !.att = a,
                      !.env = attempts[a].env, !.backend = attempts[a].backend,
                      !.h = registry[attempts[a].backend]]),
         UNCHANGED <<ledger, authority, envelopes, registry, installed>>
  PROVE  Inv'
  <1> DEFINE s == [Idle EXCEPT !.pc = "fetch_local", !.then = then, !.att = a,
                     !.env = attempts[a].env, !.backend = attempts[a].backend,
                     !.h = registry[attempts[a].backend]]
  <1>0. TypeOK /\ attempts[a] \in Record
    BY DEF Inv, TypeOK
  <1>1. /\ a \in Nat /\ attempts[a].env \in Nat
        /\ attempts[a].backend \in Backend
        /\ registry[attempts[a].backend] \in Handle \cup {NoHandle}
        /\ a \in PresentAttempts
    BY <1>0 DEF TypeOK, Record, PresentAttempts, Inv, BackendsKnown
  <1>2. s \in ThreadState
    BY <1>1, IdleOK DEF Idle, ThreadState, PCs
  <1>3. ThreadOK(s, Len(envelopes), PresentAttempts)
    BY <1>1 DEF Idle, ThreadOK, ForEnvelope, ForAttempt, Applies, FetchPCs
  <1> QED
    BY <1>2, <1>3, LocalStep

-----------------------------------------------------------------------------
(* Lemmas for the steps that change the ledger *)

\* What a thread works for, read off its place in the code.
LEMMA AttemptFacts ==
  ASSUME Inv, NEW t \in Thread, ForAttempt(th[t])
  PROVE  /\ th[t].att \in AttemptId /\ th[t].att \in PresentAttempts
         /\ {th[t].att} \subseteq PresentAttempts
         /\ attempts[th[t].att] \in Record
  BY DEF Inv, TypeOK, ThreadsOK, ThreadOK, PresentAttempts

\* An application also knows its backend and its handle.
LEMMA ApplyFacts ==
  ASSUME Inv, NEW t \in Thread, Applies(th[t])
  PROVE  /\ ForAttempt(th[t])
         /\ th[t].h \in Handle /\ th[t].backend \in Backend
         /\ {<<th[t].h, th[t].att>>} \subseteq Handle \X Nat
  <1>1. ForAttempt(th[t])
    BY DEF ForAttempt
  <1>2. th[t].h \in Handle /\ th[t].backend \in Backend /\ th[t].att \in AttemptId
    BY <1>1, AttemptFacts DEF Inv, ThreadsOK, ThreadOK
  <1> QED
    BY <1>1, <1>2

\* Only registered handles are asked to withdraw.
LEMMA WithdrawalsType ==
  ASSUME Inv, NEW S, S \subseteq PresentAttempts
  PROVE  Withdrawals(S) \subseteq Handle \X Nat
  <1> SUFFICES ASSUME NEW a \in S, registry[attempts[a].backend] # NoHandle
               PROVE  <<registry[attempts[a].backend], a>> \in Handle \X Nat
    BY DEF Withdrawals
  <1>1. a \in AttemptId /\ attempts[a].backend \in Backend
    BY DEF Inv, BackendsKnown, PresentAttempts
  <1> QED
    BY <1>1 DEF Inv, TypeOK

\* An operation that changes the ledger and ends, or goes on to withdraw.
LEMMA EndStep ==
  ASSUME Inv, NEW t \in Thread,
         LedgerType', KeepsAttempts, PendingExact', DurableKnowsAttempts',
         epoch' \in Nat, UNCHANGED <<boot, local, grant, registry, installed>>,
         envelopes' \in Seq(Envelope),
         Len(envelopes) <= Len(envelopes)',
         NEW W, W \subseteq Handle \X Nat, ThenWithdraw(t, W)
  PROVE  Inv'
  <1>1. CASE W = {}
    BY <1>1, IdleOK, LedgerStep DEF ThenWithdraw
  <1>2. CASE W # {}
    BY <1>2, WithdrawOK, LedgerStep DEF ThenWithdraw
  <1> QED
    BY <1>1, <1>2

\* Such an operation moves attempts to one terminal state.
LEMMA MoveEndStep ==
  ASSUME Inv, NEW t \in Thread,
         NEW S, S \subseteq PresentAttempts,
         NEW next \in ApplicationStates, is_terminal(next), Move(S, next),
         NEW W, W \subseteq Handle \X Nat, ThenWithdraw(t, W),
         UNCHANGED <<authority, registry, installed>>,
         envelopes' \in Seq(Envelope),
         Len(envelopes) <= Len(envelopes)'
  PROVE  Inv'
  <1>1. LedgerType' /\ KeepsAttempts /\ PendingExact' /\ DurableKnowsAttempts'
    BY MoveStep DEF Inv
  <1>2. epoch' \in Nat /\ UNCHANGED <<boot, local, grant, registry, installed>>
    BY DEF authority, Inv, TypeOK
  <1> QED
    BY <1>1, <1>2, EndStep

\* The thread's own attempt, with the envelopes as they were.
LEMMA OwnMoveStep ==
  ASSUME Inv, NEW t \in Thread, ForAttempt(th[t]),
         NEW next \in ApplicationStates, is_terminal(next), Move({th[t].att}, next),
         NEW W, W \subseteq Handle \X Nat, ThenWithdraw(t, W),
         UNCHANGED <<authority, envelopes, registry, installed>>
  PROVE  Inv'
  <1>1. {th[t].att} \subseteq PresentAttempts
    BY AttemptFacts
  <1>2. /\ envelopes' \in Seq(Envelope)
        /\ Len(envelopes) <= Len(envelopes)'
    BY DEF Inv, TypeOK
  <1> QED
    BY <1>1, <1>2, MoveEndStep

\* Returning is withdrawing nothing.
LEMMA ReturnsNothing ==
  ASSUME NEW t, Return(t)
  PROVE  ThenWithdraw(t, {})
  BY DEF Return, ThenWithdraw

\* The states that a completed operation may record are terminal.
LEMMA TerminalStates ==
  /\ \A s \in {"Failed", "Stale", "Fenced", "Revoked", "Cancelled", "AppliedUnverified"} :
       s \in ApplicationStates /\ is_terminal(s)
  /\ \A seen : Finalized(seen) \in ApplicationStates /\ is_terminal(Finalized(seen))
  BY DEF is_terminal, ApplicationStates, PendingStates, InForceStates, ClosedStates, Finalized

-----------------------------------------------------------------------------
(* The steps of an application that end it *)

\* Phase D folds a completion into the ledger.
LEMMA FoldStep ==
  ASSUME Inv, NEW t \in Thread, FoldClosed(t) \/ FoldUnregistered(t) \/ FoldFailed(t)
  PROVE  Inv'
  <1>1. Applies(th[t])
    BY DEF FoldClosed, FoldUnregistered, FoldFailed, At, Applies
  <1>2. ForAttempt(th[t]) /\ {<<th[t].h, th[t].att>>} \subseteq Handle \X Nat
    BY <1>1, ApplyFacts
  <1>3. CASE FoldClosed(t)
    BY <1>2, <1>3, WithdrawStep DEF FoldClosed
  <1>4. CASE FoldUnregistered(t)
    BY <1>2, <1>4, TerminalStates, OwnMoveStep DEF FoldUnregistered
  <1>5. CASE FoldFailed(t)
    BY <1>2, <1>5, TerminalStates, ReturnsNothing, OwnMoveStep DEF FoldFailed
  <1> QED
    BY <1>3, <1>4, <1>5

\* Phase E commits what a readback showed.
LEMMA CommitStep ==
  ASSUME Inv, NEW t \in Thread, CommitLate(t) \/ CommitStale(t) \/ CommitEvidence(t)
  PROVE  Inv'
  <1>1. Applies(th[t])
    BY DEF CommitLate, CommitStale, CommitEvidence, At, Applies
  <1>2. ForAttempt(th[t]) /\ {<<th[t].h, th[t].att>>} \subseteq Handle \X Nat
    BY <1>1, ApplyFacts
  <1>3. CASE CommitLate(t)
    BY <1>2, <1>3, WithdrawStep DEF CommitLate
  <1>4. CASE CommitStale(t)
    BY <1>2, <1>4, TerminalStates, OwnMoveStep DEF CommitStale
  <1>5. CASE CommitEvidence(t)
    <2> DEFINE W == IF UnsafeEffect(th[t].seen) THEN {<<th[t].h, th[t].att>>} ELSE {}
    <2>1. W \subseteq Handle \X Nat
      BY <1>2
    <2>2. Move({th[t].att}, Finalized(th[t].seen)) /\ ThenWithdraw(t, W)
      BY <1>5 DEF CommitEvidence
    <2> HIDE DEF W
    <2> QED
      BY <1>2, <1>5, <2>1, <2>2, TerminalStates, OwnMoveStep DEF CommitEvidence
  <1> QED
    BY <1>3, <1>4, <1>5

\* Phase E without a readback.
LEMMA CommitUnverifiedStep ==
  ASSUME Inv, NEW t \in Thread, CommitUnverified(t)
  PROVE  Inv'
  <1>1. Applies(th[t])
    BY DEF CommitUnverified, At, Applies
  <1>2. ForAttempt(th[t]) /\ {<<th[t].h, th[t].att>>} \subseteq Handle \X Nat
    BY <1>1, ApplyFacts
  <1>3. CASE Return(t) /\ UNCHANGED ledger
    BY <1>3, ReturnStep DEF CommitUnverified
  <1>4. CASE Move({th[t].att}, "Stale") /\ ThenWithdraw(t, {<<th[t].h, th[t].att>>})
    BY <1>2, <1>4, TerminalStates, OwnMoveStep DEF CommitUnverified
  <1>5. CASE Move({th[t].att}, "AppliedUnverified") /\ Return(t)
    BY <1>2, <1>5, TerminalStates, ReturnsNothing, OwnMoveStep DEF CommitUnverified
  <1> QED
    BY <1>3, <1>4, <1>5 DEF CommitUnverified

\* verify_attempt records what it found, without a look at the state.
LEMMA VerifyStep ==
  ASSUME Inv, NEW t \in Thread, VerifyStale(t) \/ VerifyCommit(t)
  PROVE  Inv'
  <1>1. ForAttempt(th[t])
    BY DEF VerifyStale, VerifyCommit, At, ForAttempt
  <1>2. CASE VerifyStale(t)
    BY <1>1, <1>2, TerminalStates, ReturnsNothing, OwnMoveStep DEF VerifyStale
  <1>3. CASE VerifyCommit(t)
    BY <1>1, <1>3, TerminalStates, ReturnsNothing, OwnMoveStep DEF VerifyCommit
  <1> QED
    BY <1>2, <1>3

-----------------------------------------------------------------------------
(* An application goes on *)

\* The acknowledged attempt was pending and still is.
LEMMA AcknowledgeLedger ==
  ASSUME TypeOK, PendingExact, DurableKnowsAttempts,
         NEW a \in AttemptId, attempts[a].state = "Submitted",
         Move({a}, "Acknowledged")
  PROVE  LedgerType' /\ KeepsAttempts /\ PendingExact' /\ DurableKnowsAttempts'
  <1>1. "Acknowledged" \in ApplicationStates /\ ~is_terminal("Acknowledged")
    BY DEF ApplicationStates, PendingStates, is_terminal, InForceStates, ClosedStates
  <1>2. attempts[a] \in Record
    BY DEF TypeOK
  <1>3. /\ attempts' \in [AttemptId -> Record]
        /\ attempts'[a] = Transition(attempts[a], "Acknowledged")
        /\ \A b \in AttemptId \ {a} : attempts'[b] = attempts[b]
    BY <1>1, TransitionType DEF Move, TransitionAll, TypeOK
  <1>4. /\ attempts'[a].state = "Acknowledged" /\ attempts'[a].env = attempts[a].env
        /\ attempts'[a].backend = attempts[a].backend
        /\ attempts'[a].authority = attempts[a].authority
    BY <1>1, <1>2, <1>3, TransitionType
  <1>5. KeepsAttempts
    BY <1>3, <1>4 DEF KeepsAttempts, Present
  <1>6. {b \in AttemptId : IsPending(b)}' = {b \in AttemptId : IsPending(b)}
    BY <1>3, <1>4 DEF IsPending, PendingStates
  <1>7. pending' = pending
    <2>1. {b \in {a} : ~IsPending(b)} = {}
      BY DEF IsPending, PendingStates
    <2>2. pending' = pending + Cardinality({})
      BY <1>1, <2>1 DEF Move, TransitionAll, PendingAfter
    <2> QED
      BY <2>2, FS_EmptySet DEF TypeOK
  <1>8. PendingExact'
    BY <1>6, <1>7 DEF PendingExact
  <1>9. /\ durable' \in [AttemptId -> ApplicationStates \cup {"Absent"}]
        /\ DurableKnowsAttempts' /\ durable_epoch' \in Nat
    <2>1. {a} \subseteq PresentAttempts
      BY DEF PresentAttempts, Present
    <2>2. Journal({a}, "Acknowledged", epoch) /\ epoch \in Nat
      BY DEF Move, TypeOK
    <2> QED
      BY <1>1, <1>5, <2>1, <2>2, JournalAfterStep
  <1> QED
    BY <1>3, <1>5, <1>7, <1>8, <1>9 DEF LedgerType, Move, TransitionAll, TypeOK

\* Phase D records the acknowledgement and goes on.
LEMMA FoldAcknowledgedStep ==
  ASSUME Inv, NEW t \in Thread, FoldAcknowledged(t)
  PROVE  Inv'
  <1> DEFINE read == [th[t] EXCEPT !.pc = "readback", !.then = "commit", !.seen = "none"]
             skip == [th[t] EXCEPT !.pc = "fetch_local", !.then = "commit_unverified",
                                   !.seen = "none"]
             s == IF th[t].h \in Readable THEN read ELSE skip
  <1>1. th[t] \in ThreadState /\ Applies(th[t])
    BY DEF Inv, TypeOK, FoldAcknowledged, At, Applies
  <1>2. /\ th[t].att \in AttemptId /\ th[t].att \in PresentAttempts
        /\ th[t].h \in Handle /\ th[t].backend \in Backend
    BY <1>1, ApplyFacts, AttemptFacts
  <1>3. read \in ThreadState /\ skip \in ThreadState
    <2>1. {"readback", "commit", "fetch_local", "commit_unverified"} \subseteq PCs
      BY DEF PCs
    <2>2. read \in ThreadState
      BY <1>1, <2>1 DEF ThreadState
    <2>3. skip \in ThreadState
      BY <1>1, <2>1 DEF ThreadState
    <2> QED
      BY <2>2, <2>3
  <1>4. /\ ThreadOK(read, Len(envelopes), PresentAttempts)
        /\ ThreadOK(skip, Len(envelopes), PresentAttempts)
    BY <1>1, <1>2 DEF ThreadState, ThreadOK, ForEnvelope, ForAttempt, Applies, FetchPCs
  <1>5. LedgerType' /\ KeepsAttempts /\ PendingExact' /\ DurableKnowsAttempts'
    BY <1>2, AcknowledgeLedger DEF FoldAcknowledged, Awaits, Inv
  <1>6. /\ epoch' \in Nat /\ UNCHANGED <<boot, local, grant, registry, installed>>
        /\ envelopes' \in Seq(Envelope)
        /\ Len(envelopes)' = Len(envelopes) /\ Len(envelopes) \in Nat
    BY DEF FoldAcknowledged, authority, Inv, TypeOK
  <1>7. /\ Become(t, s) /\ s \in ThreadState
        /\ ThreadOK(s, Len(envelopes)', PresentAttempts)
        /\ Len(envelopes) <= Len(envelopes)'
    BY <1>3, <1>4, <1>6 DEF FoldAcknowledged
  <1> HIDE DEF s
  <1> QED
    BY <1>5, <1>6, <1>7, LedgerStep

\* A backend installs pacing only for an attempt that is in the ledger.
LEMMA BackendApplyStep ==
  ASSUME Inv, NEW t \in Thread, BackendApply(t)
  PROVE  Inv'
  <1> DEFINE a == th[t].att
             h == th[t].h
             s(x) == [th[t] EXCEPT !.pc = "fold", !.seen = x]
  <1>1. th[t] \in ThreadState /\ Applies(th[t])
    BY DEF Inv, TypeOK, BackendApply, At, Applies
  <1>2. a \in AttemptId /\ a \in PresentAttempts /\ h \in Handle /\ th[t].backend \in Backend
    BY <1>1, ApplyFacts, AttemptFacts
  <1>3. \A x \in {"accept", "reject", "misidentify"} : s(x) \in ThreadState
    BY <1>1 DEF ThreadState, PCs
  <1>4. \A x : ThreadOK(s(x), Len(envelopes), PresentAttempts)
    BY <1>1, <1>2 DEF ThreadState, ThreadOK, ForEnvelope, ForAttempt, Applies, FetchPCs
  <1>5. attempts[a].authority.epoch \in Nat
    <2>1. attempts[a] \in Record
      BY <1>2 DEF Inv, TypeOK
    <2> QED
      BY <2>1 DEF Record, AuthorityVector
  <1>6. PICK x \in {"accept", "reject", "misidentify"}, e \in Effect :
          /\ Become(t, s(x))
          /\ \/ installed' = installed
             \/ installed' = [installed EXCEPT ![h][a] = e]
    <2>1. \A rate \in Rates : [rate |-> rate, epoch |-> attempts[a].authority.epoch] \in Effect
      BY <1>5 DEF Effect
    <2>2. \E x \in {"accept", "reject", "misidentify"}, rate \in Rates :
            /\ Become(t, s(x))
            /\ \/ installed' = installed
               \/ installed' = [installed EXCEPT ![h][a] =
                                  [rate |-> rate, epoch |-> attempts[a].authority.epoch]]
      BY DEF BackendApply, Rates
    <2> QED
      BY <2>1, <2>2
  <1>7. installed' \in [Handle -> [AttemptId -> Effect]]
    <2>1. installed \in [Handle -> [AttemptId -> Effect]]
      BY DEF Inv, TypeOK
    <2>2. [installed[h] EXCEPT ![a] = e] \in [AttemptId -> Effect]
      BY <1>2, <2>1
    <2>3. \/ installed' = installed
          \/ installed' = [installed EXCEPT ![h] = [installed[h] EXCEPT ![a] = e]]
      BY <1>6
    <2> HIDE DEF a, h, s
    <2> QED
      BY <1>2, <2>1, <2>2, <2>3
  <1>8. EveryEffectHasARecord'
    <2> SUFFICES ASSUME NEW k \in Handle, NEW b \in AttemptId, installed'[k][b] # NoEffect
                 PROVE  Present(b)'
      BY DEF EveryEffectHasARecord
    <2>1. b = a \/ installed[k][b] # NoEffect
      <3>1. installed \in [Handle -> [AttemptId -> Effect]]
        BY DEF Inv, TypeOK
      <3> HIDE DEF a, h, s
      <3> QED
        BY <1>2, <1>6, <3>1
    <2>2. Present(b)
      BY <2>1, <1>2 DEF Inv, EveryEffectHasARecord, PresentAttempts
    <2> QED
      BY <2>2 DEF BackendApply, ledger, Present
  <1>9. s(x) \in ThreadState /\ ThreadOK(s(x), Len(envelopes), PresentAttempts)
    BY <1>3, <1>4
  <1> HIDE DEF s
  <1> QED
    BY <1>6, <1>7, <1>8, <1>9, BackendStep DEF BackendApply

\* A withdrawal only removes pacing.
LEMMA WithdrawOneStep ==
  ASSUME Inv, NEW t \in Thread, Withdraw(t)
  PROVE  Inv'
  <1>1. PICK w \in th[t].todo :
          /\ installed' = [installed EXCEPT ![w[1]][w[2]] = NoEffect]
          /\ ThenWithdraw(t, th[t].todo \ {w})
    BY DEF Withdraw
  <1>2. th[t].todo \subseteq Handle \X Nat
    <2>1. th[t] \in ThreadState
      BY DEF Inv, TypeOK
    <2> QED
      BY <2>1 DEF ThreadState
  <1>3. installed' \in [Handle -> [AttemptId -> Effect]]
    BY <1>1, <1>2 DEF Inv, TypeOK, NoEffect, Effect
  <1>4. EveryEffectHasARecord'
    BY <1>1, <1>2 DEF Inv, TypeOK, EveryEffectHasARecord, Present, Withdraw, ledger
  <1>5. PICK s \in ThreadState : /\ Become(t, s)
                                 /\ ThreadOK(s, Len(envelopes), PresentAttempts)
    BY <1>1, <1>2, IdleOK, WithdrawOK DEF ThenWithdraw
  <1> QED
    BY <1>3, <1>4, <1>5, BackendStep DEF Withdraw

\* So does rebind_epoch.
LEMMA RebindEpochStep ==
  ASSUME Inv, NEW t \in Thread, RebindEpoch(t)
  PROVE  Inv'
  <1>1. PICK w \in th[t].todo :
          /\ installed' = [installed EXCEPT ![w[1]] =
               [a \in AttemptId |-> IF @[a].epoch < th[t].fence THEN NoEffect ELSE @[a]]]
          /\ Become(t, IF th[t].todo = {w} THEN Idle ELSE [th[t] EXCEPT !.todo = @ \ {w}])
    BY DEF RebindEpoch
  <1> DEFINE s == [th[t] EXCEPT !.todo = @ \ {w}]
  <1>2. th[t] \in ThreadState /\ th[t].pc = "rebind"
    BY DEF Inv, TypeOK, RebindEpoch, At
  <1>3. s \in ThreadState /\ ThreadOK(s, Len(envelopes), PresentAttempts)
    <2>1. th[t].todo \in SUBSET (Handle \X Nat)
      BY <1>2 DEF ThreadState
    <2>2. th[t].todo \ {w} \in SUBSET (Handle \X Nat)
      BY <2>1
    <2>3. s \in ThreadState
      BY <1>2, <2>2 DEF ThreadState
    <2>4. ThreadOK(s, Len(envelopes), PresentAttempts)
      BY <1>2 DEF ThreadState, ThreadOK, ForEnvelope, ForAttempt, Applies, FetchPCs
    <2> QED
      BY <2>3, <2>4
  <1>4. installed' \in [Handle -> [AttemptId -> Effect]]
    BY <1>1 DEF Inv, TypeOK, NoEffect, Effect
  <1>5. EveryEffectHasARecord'
    BY <1>1 DEF Inv, TypeOK, EveryEffectHasARecord, Present, RebindEpoch, ledger
  <1> HIDE DEF s
  <1>6. PICK u \in ThreadState : Become(t, u) /\ ThreadOK(u, Len(envelopes), PresentAttempts)
    BY <1>1, <1>3, IdleOK DEF s
  <1> QED
    BY <1>4, <1>5, <1>6, BackendStep DEF RebindEpoch

-----------------------------------------------------------------------------
(* Steps that leave every attempt as it is *)

\* An append of something that is not an attempt may still be a checkpoint.
LEMMA NoAttemptStep ==
  ASSUME Inv, KeepsAttempts, JournalAfter({}, "Unknown", epoch)
  PROVE  /\ durable' \in [AttemptId -> ApplicationStates \cup {"Absent"}]
         /\ DurableKnowsAttempts' /\ durable_epoch' \in Nat
  <1>1. "Unknown" \in ApplicationStates /\ epoch \in Nat /\ {} \subseteq PresentAttempts
    BY DEF ApplicationStates, PendingStates, Inv, TypeOK
  <1> QED
    BY <1>1, JournalAfterStep DEF Inv

\* What it does to the ledger.
LEMMA JournalOtherLedger ==
  ASSUME Inv, JournalOther
  PROVE  LedgerType' /\ KeepsAttempts /\ PendingExact' /\ DurableKnowsAttempts'
  <1>1. UNCHANGED <<attempts, minted, pending>>
    BY DEF JournalOther
  <1>2. KeepsAttempts /\ PendingExact'
    BY <1>1 DEF Inv, KeepsAttempts, Present, PendingExact, IsPending
  <1>3. /\ durable' \in [AttemptId -> ApplicationStates \cup {"Absent"}]
        /\ DurableKnowsAttempts' /\ durable_epoch' \in Nat
    BY <1>2, NoAttemptStep DEF JournalOther
  <1> QED
    BY <1>1, <1>2, <1>3 DEF LedgerType, Inv, TypeOK

\* A step that does not touch the ledger.
LEMMA UnchangedLedger ==
  ASSUME Inv, UNCHANGED ledger
  PROVE  LedgerType' /\ KeepsAttempts /\ PendingExact' /\ DurableKnowsAttempts'
  BY DEF ledger, Inv, TypeOK, LedgerType, KeepsAttempts, Present, PendingExact, IsPending,
         DurableKnowsAttempts

\* A derived envelope is added at the end.
LEMMA DeriveCommitStep ==
  ASSUME Inv, NEW t \in Thread, DeriveCommit(t)
  PROVE  Inv'
  <1>1. LedgerType' /\ KeepsAttempts /\ PendingExact' /\ DurableKnowsAttempts'
    BY JournalOtherLedger DEF DeriveCommit
  <1>2. th[t].got \in AuthorityVector
    BY ThreadFacts
  <1>3. /\ envelopes' \in Seq(Envelope)
        /\ Len(envelopes) <= Len(envelopes)'
    BY <1>2 DEF DeriveCommit, Inv, TypeOK, Envelope
  <1>4. epoch' \in Nat /\ UNCHANGED <<boot, local, grant, registry, installed>>
    BY DEF DeriveCommit, authority, Inv, TypeOK
  <1>5. ThenWithdraw(t, {})
    BY ReturnsNothing DEF DeriveCommit
  <1> QED
    BY <1>1, <1>3, <1>4, <1>5, EndStep

\* A derivation that is refused may leave a checkpoint behind.
LEMMA DeriveRefusedStep ==
  ASSUME Inv, NEW t \in Thread, DeriveRefused(t)
  PROVE  Inv'
  <1>1. LedgerType' /\ KeepsAttempts /\ PendingExact' /\ DurableKnowsAttempts'
    BY JournalOtherLedger, UnchangedLedger DEF DeriveRefused
  <1>2. /\ epoch' \in Nat /\ UNCHANGED <<boot, local, grant, registry, installed>>
        /\ envelopes' \in Seq(Envelope) /\ Len(envelopes) <= Len(envelopes)'
    BY DEF DeriveRefused, authority, Inv, TypeOK
  <1>3. ThenWithdraw(t, {})
    BY ReturnsNothing DEF DeriveRefused
  <1> QED
    BY <1>1, <1>2, <1>3, EndStep

\* A reservation that is not durable only spends an id.
LEMMA ReserveNotDurableStep ==
  ASSUME Inv, NEW t \in Thread, ReserveNotDurable(t)
  PROVE  Inv'
  <1>1. minted' \in Nat
    BY DEF ReserveNotDurable, RaiseFloor, MayReserve, Inv, TypeOK
  <1>2. LedgerType' /\ KeepsAttempts /\ PendingExact' /\ DurableKnowsAttempts'
    <2>1. attempts' = attempts /\ pending' = pending
      BY DEF ReserveNotDurable
    <2>2. KeepsAttempts /\ PendingExact'
      BY <2>1 DEF Inv, KeepsAttempts, Present, PendingExact, IsPending
    <2>3. /\ durable' \in [AttemptId -> ApplicationStates \cup {"Absent"}]
          /\ DurableKnowsAttempts' /\ durable_epoch' \in Nat
      BY <2>2, NoAttemptStep DEF ReserveNotDurable
    <2> QED
      BY <1>1, <2>1, <2>2, <2>3 DEF LedgerType, Inv, TypeOK
  <1>3. /\ epoch' \in Nat /\ UNCHANGED <<boot, local, grant, registry, installed>>
        /\ envelopes' \in Seq(Envelope)
        /\ Len(envelopes) <= Len(envelopes)'
    BY DEF ReserveNotDurable, authority, Inv, TypeOK
  <1>4. ThenWithdraw(t, {})
    BY ReturnsNothing DEF ReserveNotDurable
  <1> QED
    BY <1>2, <1>3, <1>4, EndStep

-----------------------------------------------------------------------------
(* The reservation *)

\* The reservation is the one step that adds an attempt: for a pair that has none,
\* under an id that is not in use, and in the journal before it is in the ledger.
LEMMA ReserveStep ==
  ASSUME Inv, NEW t \in Thread, Reserve(t)
  PROVE  Inv'
  <1> DEFINE a == NextAttempt(t)
             r == [NoRecord EXCEPT !.state = "Submitted", !.env = th[t].env,
                     !.backend = th[t].backend,
                     !.authority = envelopes[th[t].env].authority]
             s == [th[t] EXCEPT !.pc = "backend_apply", !.att = a,
                                !.requested = 0, !.verdict = "none"]
             P == {b \in AttemptId : IsPending(b)}
  <1>1. a \in AttemptId /\ ~Present(a) /\ MayReserve(t)
    BY DEF Reserve, MayReserve
  <1>2. TypeOK /\ th[t] \in ThreadState /\ ForEnvelope(th[t])
    BY DEF Inv, TypeOK, Reserve, At, ForEnvelope
  <1>3. /\ th[t].env \in 1 .. Len(envelopes)
        /\ th[t].backend \in Backend /\ th[t].h \in Handle
    BY <1>2 DEF Inv, ThreadsOK, ThreadOK
  <1>4. r \in Record /\ r.state = "Submitted" /\ r.env = th[t].env /\ r.backend = th[t].backend
    <2>1. envelopes[th[t].env].authority \in AuthorityVector /\ th[t].env \in Nat
      <3>1. /\ envelopes \in Seq(Envelope)
            /\ th[t].env \in Nat
        BY <1>2 DEF TypeOK, ThreadState
      <3>2. envelopes[th[t].env] \in Envelope
        BY <1>3, <3>1
      <3> QED
        BY <3>1, <3>2 DEF Envelope
    <2> QED
      BY <2>1, <1>3 DEF NoRecord, Record, ApplicationStates, PendingStates, EffectLabels
  <1>5. attempts' = [attempts EXCEPT ![a] = r] /\ Become(t, s) /\ pending' = pending + 1
    BY DEF Reserve
  <1> HIDE DEF r
  <1>6. /\ attempts' \in [AttemptId -> Record] /\ attempts'[a] = r
        /\ \A b \in AttemptId \ {a} : attempts'[b] = attempts[b]
    BY <1>1, <1>2, <1>4, <1>5 DEF TypeOK
  <1>7. PresentAttempts' = PresentAttempts \cup {a}
    BY <1>1, <1>4, <1>6 DEF PresentAttempts, Present
  <1>8. th' \in [Thread -> ThreadState] /\ ThreadsOK'
    <2>1. a \in Nat /\ "backend_apply" \in PCs
      BY <1>1 DEF PCs
    <2> HIDE DEF a
    <2>2. s \in ThreadState
      BY <1>2, <2>1 DEF ThreadState
    <2>3. ThreadOK(s, Len(envelopes)', PresentAttempts')
      BY <1>2, <1>3, <1>7, <2>1 DEF ThreadState, ThreadOK, ForEnvelope, ForAttempt, Applies,
                                    FetchPCs
    <2>4. Len(envelopes)' \in Nat /\ Len(envelopes) <= Len(envelopes)'
      BY <1>2 DEF Reserve, TypeOK
    <2>5. PresentAttempts \subseteq PresentAttempts'
      BY <1>7
    <2> HIDE DEF s
    <2> QED
      BY <1>2, <1>5, <2>2, <2>3, <2>4, <2>5, ThreadStep DEF Inv
  <1>9. PendingExact' /\ pending' \in Nat
    <2>1. {b \in AttemptId : IsPending(b)'} = P \cup {a} /\ a \notin P
      BY <1>1, <1>4, <1>6 DEF IsPending, Present, PendingStates
    <2>2. IsFiniteSet(P) /\ Cardinality(P) \in Nat
      BY PendingFinite
    <2>3. pending = Cardinality(P)
      BY DEF Inv, PendingExact
    <2> HIDE DEF P
    <2>4. pending' = Cardinality(P \cup {a})
      BY <1>5, <2>1, <2>2, <2>3, FS_AddElement
    <2> QED
      BY <1>5, <2>1, <2>2, <2>3, <2>4 DEF PendingExact
  <1>10. OneAttemptPerBackend'
    <2> SUFFICES ASSUME NEW b \in AttemptId, NEW c \in AttemptId,
                        Present(b)', Present(c)',
                        attempts'[b].env = attempts'[c].env,
                        attempts'[b].backend = attempts'[c].backend
                 PROVE  b = c
      BY DEF OneAttemptPerBackend
    <2>1. \A d \in AttemptId : Present(d) => attempts[d].env # th[t].env
                                             \/ attempts[d].backend # th[t].backend
      BY <1>1 DEF MayReserve, ExistingAttempt
    <2> QED
      BY <2>1, <1>4, <1>6 DEF Inv, OneAttemptPerBackend, Present
  <1>11. /\ durable' \in [AttemptId -> ApplicationStates \cup {"Absent"}]
         /\ DurableKnowsAttempts' /\ durable_epoch' \in Nat
    <2>1. "Reserved" \in ApplicationStates /\ "Reserved" # "Absent"
      BY DEF ApplicationStates, PendingStates
    <2>2. \A b \in AttemptId : attempts[b].state \in ApplicationStates \cup {"Absent"}
      BY <1>2 DEF TypeOK, Record
    <2>3. CASE durable' = [durable EXCEPT ![a] = "Reserved"] /\ UNCHANGED durable_epoch
      BY <1>1, <1>2, <1>4, <1>6, <2>1, <2>3 DEF Inv, TypeOK, DurableKnowsAttempts, Present
    <2>4. CASE /\ durable' = [b \in AttemptId |-> IF b = a THEN "Reserved" ELSE attempts[b].state]
               /\ durable_epoch' = epoch
      BY <1>1, <1>2, <1>4, <1>6, <2>1, <2>2, <2>4 DEF TypeOK, DurableKnowsAttempts, Present
    <2> QED
      BY <2>3, <2>4 DEF Reserve
  <1>12. BackendsKnown'
    BY <1>3, <1>4, <1>6 DEF Inv, BackendsKnown, Present
  <1>13. EveryEffectHasARecord'
    BY <1>4, <1>6 DEF Inv, EveryEffectHasARecord, Present, Reserve
  <1>14. minted' \in Nat
    BY <1>1, <1>2 DEF Reserve, RaiseFloor, TypeOK
  <1>15. TypeOK'
    BY <1>2, <1>6, <1>8, <1>9, <1>11, <1>14 DEF TypeOK, Reserve, authority
  <1> QED
    BY <1>8, <1>9, <1>10, <1>11, <1>12, <1>13, <1>15 DEF Inv

-----------------------------------------------------------------------------
(* Cancellation, revocation, fencing *)

\* cancel_attempt.
LEMMA CancelStep ==
  ASSUME Inv, NEW t \in Thread, NEW a \in AttemptId, CancelAttempt(t, a)
  PROVE  Inv'
  <1> DEFINE next == IF IsPending(a) THEN "Cancelled" ELSE "Revoked"
  <1>1. {a} \subseteq PresentAttempts
    BY DEF CancelAttempt, PresentAttempts
  <1>2. next \in ApplicationStates /\ is_terminal(next)
    BY TerminalStates
  <1>3. /\ Move({a}, next) /\ ThenWithdraw(t, Withdrawals({a}))
        /\ UNCHANGED <<authority, registry, installed>>
    BY DEF CancelAttempt
  <1>4. /\ envelopes' \in Seq(Envelope)
        /\ Len(envelopes) <= Len(envelopes)'
    BY DEF CancelAttempt, Inv, TypeOK
  <1>5. Withdrawals({a}) \subseteq Handle \X Nat
    BY <1>1, WithdrawalsType
  <1> HIDE DEF next
  <1> QED
    BY <1>1, <1>2, <1>3, <1>4, <1>5, MoveEndStep

\* Revoking keeps the envelopes.
LEMMA RevokedBelowType ==
  ASSUME TypeOK, NEW e \in Nat, envelopes' = RevokedBelow(e)
  PROVE  /\ envelopes' \in Seq(Envelope)
         /\ Len(envelopes) <= Len(envelopes)'
  <1> DEFINE n == Len(envelopes)
             f(i) == [envelopes[i] EXCEPT !.revoked = @ \/ envelopes[i].authority.epoch < e]
  <1>1. n \in Nat /\ DOMAIN envelopes = 1 .. n /\ \A i \in 1 .. n : envelopes[i] \in Envelope
    BY DEF TypeOK
  <1>2. \A i \in 1 .. n : f(i) \in Envelope
    <2> SUFFICES ASSUME NEW i \in 1 .. n
                 PROVE  f(i) \in Envelope
      OBVIOUS
    <2>1. envelopes[i] \in Envelope
      BY <1>1
    <2> QED
      BY <2>1 DEF Envelope
  <1>3. envelopes' = [i \in 1 .. n |-> f(i)]
    BY <1>1 DEF RevokedBelow
  <1> HIDE DEF n, f
  <1>4. envelopes' \in Seq(Envelope) /\ Len(envelopes') = n
    BY <1>1, <1>2, <1>3
  <1> QED
    BY <1>1, <1>4 DEF n

\* revoke_envelope.
LEMMA RevokeStep ==
  ASSUME Inv, NEW t \in Thread, NEW e \in EnvelopeId, RevokeEnvelope(t, e)
  PROVE  Inv'
  <1> DEFINE S == {a \in AttemptId : Present(a) /\ attempts[a].env = e /\ ~IsClosed(a)}
  <1>1. S \subseteq PresentAttempts
    BY DEF PresentAttempts
  <1>2. Withdrawals(S) \subseteq Handle \X Nat
    BY <1>1, WithdrawalsType
  <1>3. /\ envelopes' \in Seq(Envelope)
        /\ Len(envelopes) <= Len(envelopes)'
    <2>1. envelopes \in Seq(Envelope) /\ e \in 1 .. Len(envelopes)
      BY DEF RevokeEnvelope, Inv, TypeOK
    <2>2. envelopes[e] \in Envelope
      BY <2>1
    <2>3. [envelopes[e] EXCEPT !.revoked = TRUE] \in Envelope
      BY <2>2 DEF Envelope
    <2>4. envelopes' = [envelopes EXCEPT ![e] = [envelopes[e] EXCEPT !.revoked = TRUE]]
      BY DEF RevokeEnvelope
    <2> QED
      BY <2>1, <2>3, <2>4
  <1>4. /\ TransitionAll(S, "Revoked") /\ ThenWithdraw(t, Withdrawals(S))
        /\ Journal(S, "Revoked", epoch) \/ JournalAfter(S, "Revoked", epoch)
    BY DEF RevokeEnvelope
  <1>5. "Revoked" \in ApplicationStates /\ is_terminal("Revoked")
    BY TerminalStates
  <1>6. epoch \in Nat /\ epoch' \in Nat /\ UNCHANGED <<boot, local, grant, registry, installed>>
    BY DEF RevokeEnvelope, authority, Inv, TypeOK
  <1> HIDE DEF S
  <1>7. /\ attempts' \in [AttemptId -> Record] /\ minted' \in Nat /\ pending' \in Nat
        /\ KeepsAttempts /\ PendingExact'
    BY <1>1, <1>4, <1>5, TransitionAllStep DEF Inv
  <1>8. /\ durable' \in [AttemptId -> ApplicationStates \cup {"Absent"}]
        /\ DurableKnowsAttempts' /\ durable_epoch' \in Nat
    BY <1>1, <1>4, <1>5, <1>6, <1>7, JournalAfterStep DEF Inv
  <1>9. LedgerType'
    BY <1>7, <1>8 DEF LedgerType
  <1> QED
    BY <1>2, <1>3, <1>4, <1>6, <1>7, <1>8, <1>9, EndStep

\* fence_below.
LEMMA FenceStep ==
  ASSUME Inv, NEW t \in Thread, NEW e \in Nat, FenceBelow(t, e)
  PROVE  Inv'
  <1> DEFINE W == {a \in OpenBelow(e) : ClaimedEffect(a)}
  <1>1. OpenBelow(e) \subseteq PresentAttempts /\ W \subseteq PresentAttempts
    BY DEF OpenBelow, PresentAttempts
  <1>2. Withdrawals(W) \subseteq Handle \X Nat
    BY <1>1, WithdrawalsType
  <1>3. /\ envelopes' \in Seq(Envelope)
        /\ Len(envelopes) <= Len(envelopes)'
    BY RevokedBelowType DEF FenceBelow, Inv
  <1>4. /\ Move(OpenBelow(e), "Fenced") /\ "Fenced" \in ApplicationStates /\ is_terminal("Fenced")
        /\ ThenWithdraw(t, Withdrawals(W))
        /\ UNCHANGED <<authority, registry, installed>>
    BY TerminalStates DEF FenceBelow
  <1> HIDE DEF W
  <1> QED
    BY <1>1, <1>2, <1>3, <1>4, MoveEndStep

\* advance_epoch: the same, with the epoch and the order to the backends.
LEMMA AdvanceStep ==
  ASSUME Inv, NEW t \in Thread, AdvanceEpoch(t)
  PROVE  Inv'
  <1> DEFINE S == OpenBelow(epoch + 1)
             told == {<<registry[b], 0>> : b \in {c \in Backend : registry[c] # NoHandle}}
             s == [Idle EXCEPT !.pc = "rebind", !.todo = told, !.fence = epoch + 1]
  <1>1. S \subseteq PresentAttempts
    BY DEF OpenBelow, PresentAttempts
  <1>2. TypeOK /\ epoch \in Nat /\ epoch + 1 \in Nat /\ epoch' = epoch + 1
    BY DEF Inv, TypeOK, AdvanceEpoch
  <1>3. /\ envelopes' \in Seq(Envelope)
        /\ Len(envelopes) <= Len(envelopes)'
    BY <1>2, RevokedBelowType DEF AdvanceEpoch
  <1>4. "Fenced" \in ApplicationStates /\ is_terminal("Fenced")
    BY TerminalStates
  <1>5. /\ attempts' \in [AttemptId -> Record] /\ minted' \in Nat /\ pending' \in Nat
        /\ KeepsAttempts /\ PendingExact'
    BY <1>1, <1>4, TransitionAllStep DEF AdvanceEpoch, Inv
  <1>6. PICK lost \in Lost(S), snapshot \in BOOLEAN :
          /\ durable' = Replayed(S, "Fenced", lost, snapshot)
          /\ durable_epoch' \in Nat
    BY <1>2 DEF AdvanceEpoch, Replay, TypeOK
  <1>7. LedgerType' /\ DurableKnowsAttempts'
    BY <1>1, <1>4, <1>5, <1>6, JournalStep DEF LedgerType, Inv
  <1>8. s \in ThreadState /\ \A n, P : ThreadOK(s, n, P)
    <2>1. told \in SUBSET (Handle \X Nat)
      BY <1>2 DEF TypeOK
    <2> HIDE DEF told
    <2>2. s \in ThreadState
      BY <1>2, <2>1, IdleOK DEF Idle, ThreadState, PCs
    <2> QED
      BY <2>2 DEF Idle, ThreadOK, ForEnvelope, ForAttempt, Applies, FetchPCs
  <1>9. Become(t, Idle) \/ Become(t, s)
    BY DEF AdvanceEpoch, Return
  <1>10. UNCHANGED <<boot, local, grant, registry, installed>>
    BY DEF AdvanceEpoch
  <1> HIDE DEF s, S
  <1> QED
    BY <1>2, <1>3, <1>5, <1>7, <1>8, <1>9, <1>10, IdleOK, LedgerStep

-----------------------------------------------------------------------------
(* Revalidation *)

\* The transitions of revalidate, which set the flag themselves.
LEMMA MoveRevalidatedLedger ==
  ASSUME Inv, NEW a \in PresentAttempts, NEW flag \in BOOLEAN,
         NEW next \in ApplicationStates, is_terminal(next),
         MoveRevalidated(a, next, flag)
  PROVE  LedgerType' /\ KeepsAttempts /\ PendingExact' /\ DurableKnowsAttempts'
  <1> DEFINE r == [Transition(attempts[a], next) EXCEPT !.requires_revalidation = flag]
  <1>1. a \in AttemptId /\ {a} \subseteq PresentAttempts /\ TypeOK /\ attempts[a] \in Record
    BY DEF PresentAttempts, Inv, TypeOK
  <1>2. /\ r \in Record /\ r.state = next /\ r.env = attempts[a].env
        /\ r.backend = attempts[a].backend /\ r.authority = attempts[a].authority
    <2> DEFINE q == Transition(attempts[a], next)
    <2>1. /\ q \in Record /\ q.state = next /\ q.env = attempts[a].env
          /\ q.backend = attempts[a].backend /\ q.authority = attempts[a].authority
      BY <1>1, TransitionType
    <2> HIDE DEF q
    <2>2. r = [q EXCEPT !.requires_revalidation = flag]
      BY DEF q
    <2> HIDE DEF r
    <2> QED
      BY <2>1, <2>2 DEF Record
  <1>3. attempts' = [attempts EXCEPT ![a] = r]
    BY DEF MoveRevalidated
  <1> HIDE DEF r
  <1>4. /\ attempts' \in [AttemptId -> Record] /\ attempts'[a] = r
        /\ \A b \in AttemptId \ {a} : attempts'[b] = attempts[b]
    BY <1>1, <1>2, <1>3 DEF TypeOK
  <1>5. pending' = PendingAfter({a}, next) /\ Journal({a}, next, epoch) /\ minted' = minted
    BY DEF MoveRevalidated
  <1>6. KeepsAttempts /\ pending' \in Nat /\ PendingExact'
    BY <1>1, <1>2, <1>4, <1>5, TerminalStep DEF Inv
  <1>7. epoch \in Nat
    BY <1>1 DEF TypeOK
  <1>8. /\ durable' \in [AttemptId -> ApplicationStates \cup {"Absent"}]
        /\ DurableKnowsAttempts' /\ durable_epoch' \in Nat
    BY <1>1, <1>5, <1>6, <1>7, JournalAfterStep DEF Inv
  <1> QED
    BY <1>1, <1>4, <1>5, <1>6, <1>8 DEF LedgerType, TypeOK

\* A flag is set; no state changes.
LEMMA FlagLedger ==
  ASSUME Inv, NEW a \in PresentAttempts,
         attempts' = [attempts EXCEPT ![a].requires_revalidation = TRUE],
         Journal({a}, attempts[a].state, epoch), UNCHANGED <<minted, pending>>
  PROVE  LedgerType' /\ KeepsAttempts /\ PendingExact' /\ DurableKnowsAttempts'
  <1>1. /\ a \in AttemptId /\ {a} \subseteq PresentAttempts /\ TypeOK
        /\ attempts[a] \in Record /\ attempts[a].state # "Absent"
    BY DEF PresentAttempts, Present, Inv, TypeOK
  <1>2. attempts[a].state \in ApplicationStates
    BY <1>1 DEF Record
  <1> DEFINE r == [attempts[a] EXCEPT !.requires_revalidation = TRUE]
  <1>3. /\ r \in Record /\ r.state = attempts[a].state /\ r.env = attempts[a].env
        /\ r.backend = attempts[a].backend /\ r.authority = attempts[a].authority
    BY <1>1 DEF Record
  <1>4. attempts' = [attempts EXCEPT ![a] = r]
    OBVIOUS
  <1> HIDE DEF r
  <1>5. /\ attempts' \in [AttemptId -> Record] /\ attempts'[a] = r
        /\ \A b \in AttemptId \ {a} : attempts'[b] = attempts[b]
    BY <1>1, <1>3, <1>4 DEF TypeOK
  <1>6. KeepsAttempts
    BY <1>3, <1>5 DEF KeepsAttempts, Present
  <1>7. PendingExact'
    <2>1. \A b \in AttemptId : IsPending(b)' <=> IsPending(b)
      BY <1>3, <1>5 DEF IsPending
    <2> QED
      BY <2>1 DEF Inv, PendingExact
  <1>8. epoch \in Nat
    BY <1>1 DEF TypeOK
  <1>9. /\ durable' \in [AttemptId -> ApplicationStates \cup {"Absent"}]
        /\ DurableKnowsAttempts' /\ durable_epoch' \in Nat
    BY <1>1, <1>2, <1>6, <1>8, JournalAfterStep DEF Inv
  <1> QED
    BY <1>1, <1>5, <1>6, <1>7, <1>9 DEF LedgerType, TypeOK

\* revalidate.
LEMMA RevalidateStep ==
  ASSUME Inv, NEW t \in Thread,
         RevalidateStale(t) \/ RevalidateNoEvidence(t) \/ RevalidateCommit(t)
  PROVE  Inv'
  <1> DEFINE a == th[t].att
             L == LedgerType' /\ KeepsAttempts /\ PendingExact' /\ DurableKnowsAttempts'
  <1>1. ForAttempt(th[t])
    BY DEF RevalidateStale, RevalidateNoEvidence, RevalidateCommit, At, ForAttempt
  <1>2. a \in PresentAttempts /\ {a} \subseteq PresentAttempts
    BY <1>1, AttemptFacts
  <1>3. RevalidateStale(t) => L
    BY <1>2, TerminalStates, MoveRevalidatedLedger DEF RevalidateStale
  <1>4. RevalidateCommit(t) => L
    <2> DEFINE f == Finalized(th[t].seen)
    <2>1. f \in ApplicationStates /\ is_terminal(f) /\ (f # "Applied") \in BOOLEAN
      BY TerminalStates
    <2>2. RevalidateCommit(t) => MoveRevalidated(a, f, f # "Applied")
      BY DEF RevalidateCommit
    <2> HIDE DEF f
    <2> QED
      BY <1>2, <2>1, <2>2, MoveRevalidatedLedger
  <1>5. RevalidateNoEvidence(t) => L
    <2>1. CASE is_terminal(attempts[a].state)
      BY <1>2, <2>1, FlagLedger DEF RevalidateNoEvidence
    <2>2. CASE ~is_terminal(attempts[a].state)
      <3>1. "RequiresRevalidation" \in ApplicationStates /\ is_terminal("RequiresRevalidation")
        BY DEF is_terminal, ApplicationStates
      <3> QED
        BY <1>2, <2>2, <3>1, MoveStep DEF RevalidateNoEvidence, Inv
    <2> QED
      BY <2>1, <2>2
  <1>6. /\ epoch' \in Nat /\ UNCHANGED <<boot, local, grant, registry, installed>>
        /\ envelopes' \in Seq(Envelope) /\ Len(envelopes) <= Len(envelopes)'
    <2>1. UNCHANGED <<authority, envelopes, registry, installed>>
      BY DEF RevalidateStale, RevalidateNoEvidence, RevalidateCommit
    <2> QED
      BY <2>1 DEF authority, Inv, TypeOK
  <1>7. ThenWithdraw(t, {})
    BY ReturnsNothing DEF RevalidateStale, RevalidateNoEvidence, RevalidateCommit
  <1> QED
    BY <1>3, <1>4, <1>5, <1>6, <1>7, EndStep

-----------------------------------------------------------------------------
(* The environment *)

\* A step of the environment keeps every thread where it is.
LEMMA EnvironmentStep ==
  ASSUME Inv, LedgerType', KeepsAttempts, PendingExact', DurableKnowsAttempts',
         UNCHANGED <<epoch, boot, envelopes, th>>, local' \in Nat, grant' \in Nat,
         registry' \in [Backend -> Handle \cup {NoHandle}],
         installed' \in [Handle -> [AttemptId -> Effect]],
         \A h \in Handle, a \in AttemptId :
           installed'[h][a] # NoEffect => installed[h][a] # NoEffect
  PROVE  Inv'
  <1> USE DEF Inv
  <1>1. PresentAttempts' = PresentAttempts
    BY DEF PresentAttempts, KeepsAttempts
  <1>2. ThreadsOK'
    BY <1>1 DEF ThreadsOK
  <1>3. TypeOK'
    BY DEF TypeOK, LedgerType
  <1>4. OneAttemptPerBackend' /\ BackendsKnown' /\ EveryEffectHasARecord'
    BY DEF OneAttemptPerBackend, BackendsKnown, EveryEffectHasARecord, KeepsAttempts
  <1> QED
    BY <1>2, <1>3, <1>4

\* Backends come and go and authority moves.
LEMMA RegistryAndAuthorityStep ==
  ASSUME Inv,
         \/ \E h \in Handle : RegisterBackend(h)
         \/ \E b \in Backend : UnregisterBackend(b)
         \/ ChangeLocal \/ ChangeGrant
  PROVE  Inv'
  <1>1. ASSUME NEW h \in Handle, RegisterBackend(h)
        PROVE  Inv'
    <2>1. /\ UNCHANGED <<epoch, boot, local, grant, envelopes, installed, th>>
          /\ registry' \in [Backend -> Handle \cup {NoHandle}]
      BY <1>1, ConstantsAssumption DEF RegisterBackend, authority, Inv, TypeOK
    <2> QED
      BY <1>1, <2>1, JournalOtherLedger, EnvironmentStep DEF RegisterBackend, Inv, TypeOK
  <1>2. ASSUME NEW b \in Backend, UnregisterBackend(b)
        PROVE  Inv'
    <2>1. /\ UNCHANGED <<epoch, boot, local, grant, envelopes, installed, th>>
          /\ registry' \in [Backend -> Handle \cup {NoHandle}]
      BY <1>2 DEF UnregisterBackend, authority, Inv, TypeOK
    <2> QED
      BY <1>2, <2>1, UnchangedLedger, EnvironmentStep DEF UnregisterBackend, Inv, TypeOK
  <1>3. CASE ChangeLocal
    BY <1>3, JournalOtherLedger, EnvironmentStep DEF ChangeLocal, Inv, TypeOK
  <1>4. CASE ChangeGrant
    BY <1>4, UnchangedLedger, EnvironmentStep DEF ChangeGrant, Inv, TypeOK
  <1> QED
    BY <1>1, <1>2, <1>3, <1>4

\* A revocation that is not durable changes nothing but the journal.
LEMMA RevokeNotDurableStep ==
  ASSUME Inv, NEW t \in Thread, NEW e \in EnvelopeId, RevokeNotDurable(t, e)
  PROVE  Inv'
  <1>1. UNCHANGED <<epoch, boot, local, grant, envelopes, registry, installed, th>>
    BY DEF RevokeNotDurable, authority
  <1> QED
    BY <1>1, JournalOtherLedger, EnvironmentStep DEF RevokeNotDurable, Inv, TypeOK

\* A shaper that drifts was installed before.
LEMMA ShaperDriftsStep ==
  ASSUME Inv, NEW h \in Handle, NEW a \in AttemptId, ShaperDrifts(h, a)
  PROVE  Inv'
  <1>1. PICK rate \in {"over", "under"} : installed' = [installed EXCEPT ![h][a].rate = rate]
    BY DEF ShaperDrifts
  <1> DEFINE e == [installed[h][a] EXCEPT !.rate = rate]
  <1>2. installed \in [Handle -> [AttemptId -> Effect]] /\ installed[h][a] \in Effect
    BY DEF Inv, TypeOK
  <1>3. e \in Effect
    BY <1>2 DEF Effect, Rates
  <1>4. installed' = [installed EXCEPT ![h] = [installed[h] EXCEPT ![a] = e]]
    BY <1>1
  <1> HIDE DEF e
  <1>5. [installed[h] EXCEPT ![a] = e] \in [AttemptId -> Effect]
    BY <1>2, <1>3
  <1>6. installed' \in [Handle -> [AttemptId -> Effect]]
    BY <1>2, <1>4, <1>5
  <1>7. installed[h][a] # NoEffect
    BY DEF ShaperDrifts, NoEffect
  <1>8. \A k \in Handle, b \in AttemptId :
          installed'[k][b] # NoEffect => installed[k][b] # NoEffect
    BY <1>2, <1>4, <1>7
  <1>9. /\ UNCHANGED <<epoch, boot, local, grant, envelopes, registry, th>>
        /\ local \in Nat /\ grant \in Nat /\ registry \in [Backend -> Handle \cup {NoHandle}]
    BY DEF ShaperDrifts, authority, Inv, TypeOK
  <1> QED
    BY <1>6, <1>8, <1>9, UnchangedLedger, EnvironmentStep DEF ShaperDrifts

\* Recovery replays an attempt into a state of its own exactly when it is known.
LEMMA RecoveredStates ==
  ASSUME NEW s \in ApplicationStates \cup {"Absent"}
  PROVE  /\ Recovered(s) \in ApplicationStates \cup {"Absent"}
         /\ Recovered(s) = "Absent" <=> s = "Absent"
  BY DEF Recovered, is_terminal, ApplicationStates, PendingStates, InForceStates, ClosedStates

\* A restart rebuilds the ledger from the journal, which knows the same attempts.
LEMMA RestartStep ==
  ASSUME Inv, Restart
  PROVE  Inv'
  <1>1. TypeOK
    BY DEF Inv
  <1>2. ASSUME NEW a \in AttemptId
        PROVE  /\ attempts'[a] \in Record
               /\ attempts'[a].state = Recovered(durable[a])
               /\ Present(a)' <=> Present(a)
               /\ Present(a) => /\ attempts'[a].env = attempts[a].env
                                /\ attempts'[a].backend = attempts[a].backend
    <2>1. attempts'[a] = RecoveredRecord(a) /\ attempts[a] \in Record
      BY <1>1 DEF Restart, TypeOK
    <2>2. /\ durable[a] \in ApplicationStates \cup {"Absent"}
          /\ Recovered(durable[a]) \in ApplicationStates \cup {"Absent"}
          /\ Recovered(durable[a]) = "Absent" <=> durable[a] = "Absent"
      BY <1>1, RecoveredStates DEF TypeOK
    <2>3. Present(a) <=> durable[a] # "Absent"
      BY DEF Inv, DurableKnowsAttempts
    <2>4. CASE durable[a] = "Absent"
      <3>1. attempts'[a] = NoRecord
        BY <2>1, <2>4 DEF RecoveredRecord
      <3>2. NoRecord \in Record /\ NoRecord.state = "Absent"
        BY DEF NoRecord, Record, NoVector, AuthorityVector, EffectLabels
      <3> QED
        BY <3>1, <3>2, <2>2, <2>3, <2>4 DEF Present
    <2>5. CASE durable[a] # "Absent"
      <3> DEFINE q == Recovered(durable[a])
                 r == [attempts[a] EXCEPT !.state = q, !.effect = "None",
                                          !.requires_revalidation = TRUE]
      <3>1. attempts'[a] = r
        BY <2>1, <2>5 DEF RecoveredRecord
      <3>2. q \in ApplicationStates \cup {"Absent"} /\ q # "Absent"
        BY <2>2, <2>5
      <3> HIDE DEF q
      <3>3. /\ r \in Record /\ r.state = q /\ r.env = attempts[a].env
            /\ r.backend = attempts[a].backend
        BY <2>1, <3>2 DEF Record, EffectLabels
      <3> HIDE DEF r
      <3> QED
        BY <3>1, <3>2, <3>3, <2>3, <2>5 DEF Present, q
    <2> QED
      BY <2>4, <2>5
  <1>3. attempts' \in [AttemptId -> Record]
    <2>1. attempts' = [a \in AttemptId |-> RecoveredRecord(a)]
      BY DEF Restart
    <2>2. \A a \in AttemptId : RecoveredRecord(a) \in Record
      BY <1>2, <2>1
    <2> QED
      BY <2>1, <2>2
  <1>4. PendingExact' /\ pending' \in Nat
    <2>1. {a \in AttemptId : IsPending(a)'}
            = {a \in AttemptId : Recovered(durable[a]) \in PendingStates}
      BY <1>2 DEF IsPending
    <2>2. Cardinality({a \in AttemptId : Recovered(durable[a]) \in PendingStates}) \in Nat
      BY PendingFinite
    <2> QED
      BY <2>1, <2>2 DEF PendingExact, Restart
  <1>5. OneAttemptPerBackend' /\ BackendsKnown'
    BY <1>2 DEF Inv, OneAttemptPerBackend, BackendsKnown
  <1>6. EveryEffectHasARecord'
    BY <1>2 DEF Inv, EveryEffectHasARecord, Restart
  <1>7. /\ durable' \in [AttemptId -> ApplicationStates \cup {"Absent"}]
        /\ DurableKnowsAttempts'
    <2>1. PICK lost : durable' = [a \in AttemptId |-> IF a \in lost THEN durable[a]
                                                      ELSE Recovered(durable[a])]
      BY DEF Restart
    <2>2. \A a \in AttemptId : /\ durable[a] \in ApplicationStates \cup {"Absent"}
                               /\ Recovered(durable[a]) \in ApplicationStates \cup {"Absent"}
                               /\ Recovered(durable[a]) = "Absent" <=> durable[a] = "Absent"
      BY <1>1, RecoveredStates DEF TypeOK
    <2>3. durable' \in [AttemptId -> ApplicationStates \cup {"Absent"}]
      BY <2>1, <2>2
    <2>4. \A a \in AttemptId : durable'[a] = "Absent" <=> durable[a] = "Absent"
      BY <2>1, <2>2
    <2> QED
      BY <2>3, <2>4, <1>2 DEF Inv, DurableKnowsAttempts
  <1>8. th' \in [Thread -> ThreadState] /\ ThreadsOK'
    BY IdleOK DEF Restart, ThreadsOK
  <1>9. envelopes' \in Seq(Envelope)
    <2> DEFINE n == Len(envelopes)
               f(i) == [envelopes[i] EXCEPT !.revoked = TRUE]
    <2>1. n \in Nat /\ DOMAIN envelopes = 1 .. n /\ \A i \in 1 .. n : envelopes[i] \in Envelope
      BY <1>1 DEF TypeOK
    <2>2. \A i \in 1 .. n : f(i) \in Envelope
      BY <2>1 DEF Envelope
    <2>3. envelopes' = [i \in 1 .. n |-> f(i)]
      BY <2>1 DEF Restart
    <2> HIDE DEF n, f
    <2> QED
      BY <2>1, <2>2, <2>3
  <1>10. minted' \in Nat
    BY DEF Restart
  <1>11. /\ epoch' \in Nat /\ boot' \in Nat /\ local' \in Nat /\ grant' \in Nat
         /\ durable_epoch' \in Nat /\ registry' \in [Backend -> Handle \cup {NoHandle}]
         /\ installed' \in [Handle -> [AttemptId -> Effect]]
    BY <1>1 DEF Restart, TypeOK
  <1>12. TypeOK'
    BY <1>3, <1>4, <1>7, <1>8, <1>9, <1>10, <1>11 DEF TypeOK
  <1> QED
    BY <1>4, <1>5, <1>6, <1>7, <1>8, <1>12 DEF Inv

-----------------------------------------------------------------------------
(* The theorems *)

\* The invariant holds initially ...
LEMMA InitInv == Init => Inv
  <1> SUFFICES ASSUME Init
               PROVE  Inv
    OBVIOUS
  <1>1. NoRecord \in Record /\ NoEffect \in Effect
    BY DEF NoRecord, Record, NoVector, AuthorityVector, EffectLabels, NoEffect, Effect
  <1>2. \A a \in AttemptId : ~Present(a)
    BY DEF Init, Present, NoRecord
  <1>3. TypeOK
    BY <1>1, IdleOK DEF Init, TypeOK
  <1>4. ThreadsOK
    BY IdleOK DEF Init, ThreadsOK
  <1>5. PendingExact
    <2>1. {a \in AttemptId : IsPending(a)} = {}
      BY DEF Init, IsPending, NoRecord, PendingStates
    <2> QED
      BY <2>1, FS_EmptySet DEF PendingExact, Init
  <1>6. OneAttemptPerBackend /\ BackendsKnown
    BY <1>2 DEF OneAttemptPerBackend, BackendsKnown
  <1>7. DurableKnowsAttempts
    BY <1>2 DEF DurableKnowsAttempts, Init
  <1>8. EveryEffectHasARecord
    BY DEF EveryEffectHasARecord, Init
  <1> QED
    BY <1>3, <1>4, <1>5, <1>6, <1>7, <1>8 DEF Inv

\* ... whatever operation a thread starts ...
LEMMA BeginInv ==
  ASSUME Inv, NEW t \in Thread, Begin(t)
  PROVE  Inv'
  <1>1. CASE DeriveBegin(t)
    BY <1>1, DeriveBeginStep
  <1>2. CASE \E e \in EnvelopeId, b \in Backend, r \in {0} \cup AttemptId : ApplyResolve(t, e, b, r)
    BY <1>2, ApplyResolveStep
  <1>3. CASE \E a \in AttemptId : VerifyBegin(t, a)
    BY <1>3, BeginForAttempt DEF VerifyBegin
  <1>4. CASE \E a \in AttemptId : CancelAttempt(t, a)
    BY <1>4, CancelStep
  <1>5. CASE \E e \in EnvelopeId : RevokeEnvelope(t, e) \/ RevokeNotDurable(t, e)
    BY <1>5, RevokeStep, RevokeNotDurableStep
  <1>6. CASE \E e \in 1 .. MaxEpoch + 1 : FenceBelow(t, e)
    BY <1>6, FenceStep
  <1>7. CASE AdvanceEpoch(t)
    BY <1>7, AdvanceStep
  <1>8. CASE \E a \in AttemptId : RevalidateBegin(t, a)
    BY <1>8, BeginForAttempt DEF RevalidateBegin
  <1> QED
    BY <1>1, <1>2, <1>3, <1>4, <1>5, <1>6, <1>7, <1>8 DEF Begin

\* ... whatever step it goes on with ...
LEMMA ContinueInv ==
  ASSUME Inv, NEW t \in Thread, Continue(t)
  PROVE  Inv'
  <1>1. CASE FetchLocal(t) \/ FetchGrant(t) \/ FetchEpoch(t) \/ FetchRefused(t)
    BY <1>1, FetchLocalStep, FetchGrantStep, FetchEpochStep, FetchRefusedStep
  <1>2. CASE DeriveCommit(t) \/ DeriveRefused(t) \/ Reserve(t) \/ ReserveNotDurable(t)
    BY <1>2, DeriveCommitStep, DeriveRefusedStep, ReserveStep, ReserveNotDurableStep
  <1>3. CASE ReserveRefused(t) \/ VerifyRefused(t) \/ RevalidateRefused(t)
    BY <1>3, ReturnStep DEF ReserveRefused, VerifyRefused, RevalidateRefused
  <1>4. CASE BackendApply(t) \/ Withdraw(t) \/ RebindEpoch(t) \/ Readback(t)
    BY <1>4, BackendApplyStep, WithdrawOneStep, RebindEpochStep, ReadbackStep
  <1>5. CASE FoldClosed(t) \/ FoldUnregistered(t) \/ FoldFailed(t) \/ FoldAcknowledged(t)
    BY <1>5, FoldStep, FoldAcknowledgedStep
  <1>6. CASE CommitLate(t) \/ CommitStale(t) \/ CommitEvidence(t) \/ CommitUnverified(t)
    BY <1>6, CommitStep, CommitUnverifiedStep
  <1>7. CASE VerifyStale(t) \/ VerifyCommit(t)
    BY <1>7, VerifyStep
  <1>8. CASE RevalidateStale(t) \/ RevalidateNoEvidence(t) \/ RevalidateCommit(t)
    BY <1>8, RevalidateStep
  <1> QED
    BY <1>1, <1>2, <1>3, <1>4, <1>5, <1>6, <1>7, <1>8 DEF Continue

\* ... and whatever happens around it.
LEMMA NextInv == Inv /\ [Next]_vars => Inv'
  <1> SUFFICES ASSUME Inv, [Next]_vars
               PROVE  Inv'
    OBVIOUS
  <1>1. CASE \E t \in Thread : Begin(t) \/ Continue(t)
    BY <1>1, BeginInv, ContinueInv
  <1>2. CASE Environment
    <2>1. CASE \E h \in Handle, a \in AttemptId : ShaperDrifts(h, a)
      BY <2>1, ShaperDriftsStep
    <2>2. CASE Restart
      BY <2>2, RestartStep
    <2> QED
      BY <1>2, <2>1, <2>2, RegistryAndAuthorityStep DEF Environment
  <1>3. CASE UNCHANGED vars
    BY <1>3 DEF vars, ledger, authority, Inv, TypeOK, ThreadsOK, PresentAttempts, Present,
                PendingExact, IsPending, OneAttemptPerBackend, BackendsKnown,
                DurableKnowsAttempts, EveryEffectHasARecord
  <1> QED
    BY <1>1, <1>2, <1>3 DEF Next

\* The inductive invariant holds in every reachable state of the coordinator.
THEOREM Invariance == Spec => []Inv
  BY InitInv, NextInv, PTL DEF Spec

\* Every variable keeps its type; in particular pending_attempts_ never wraps,
\* although every operation decrements it.
THEOREM TypeCorrect == Spec => []TypeOK
  <1>1. Inv => TypeOK
    BY DEF Inv
  <1> QED
    BY <1>1, Invariance, PTL

\* pending_attempts_ is the number of attempts whose outcome is open, for any
\* number of threads, with any fault and across restarts.
THEOREM PendingIsExact == Spec => []PendingExact
  <1>1. Inv => PendingExact
    BY DEF Inv
  <1> QED
    BY <1>1, Invariance, PTL

\* No two attempts are ever made for one envelope on one backend.
THEOREM AttemptsAreUnique == Spec => []OneAttemptPerBackend
  <1>1. Inv => OneAttemptPerBackend
    BY DEF Inv
  <1> QED
    BY <1>1, Invariance, PTL

\* Pacing in force at a backend always has a record in the ledger, whatever
\* appends fail and wherever the coordinator is restarted.
THEOREM EffectsAreRecorded == Spec => []EveryEffectHasARecord
  <1>1. Inv => EveryEffectHasARecord
    BY DEF Inv
  <1> QED
    BY <1>1, Invariance, PTL

=============================================================================
