------------------------- MODULE PacingFabricSafety -------------------------
(***************************************************************************)
(* Proofs that the ledger of PacingFabric tells the truth about what is    *)
(* installed and under which authority, that the pacing in force is what   *)
(* the ledger says, and that none is left behind by an attempt that is     *)
(* closed.  They build on the invariant of PacingFabricProofs.             *)
(***************************************************************************)
EXTENDS PacingFabricProofs

-----------------------------------------------------------------------------
(* What each step does to the thread that takes it, field by field *)

\* Only t moves, and to pc.
Moves(t, pc) ==
  /\ \A u \in Thread \ {t} : th'[u] = th[u]
  /\ th'[t].pc = pc

\* It goes on with the same envelope, attempt, backend and handle.
SameWork(t) ==
  /\ th'[t].env = th[t].env /\ th'[t].att = th[t].att
  /\ th'[t].backend = th[t].backend /\ th'[t].h = th[t].h

\* It is done, but for the effects W that it withdraws.
Ends(t, W) ==
  /\ IF W = {} THEN Moves(t, "idle") ELSE Moves(t, "withdraw") /\ th'[t].todo = W
  /\ th'[t].then = "idle"

\* A thread's new state is the one it becomes, and the others keep theirs.
LEMMA BecomeMoves ==
  ASSUME TypeOK, NEW t \in Thread, NEW s, Become(t, s)
  PROVE  th'[t] = s /\ Moves(t, s.pc)
  BY DEF TypeOK, Become, Moves

\* An operation that ends.
LEMMA EndMoves ==
  ASSUME TypeOK, NEW t \in Thread
  PROVE  /\ Return(t) => Ends(t, {})
         /\ \A W : ThenWithdraw(t, W) => Ends(t, W)
  <1>1. ASSUME NEW W, ThenWithdraw(t, W)
        PROVE  Ends(t, W)
    <2> DEFINE s == [Idle EXCEPT !.pc = "withdraw", !.todo = W]
    <2>1. /\ s.pc = "withdraw" /\ s.todo = W /\ s.then = "idle"
          /\ Idle.pc = "idle" /\ Idle.then = "idle"
      BY DEF Idle
    <2>2. Become(t, IF W = {} THEN Idle ELSE s)
      BY <1>1 DEF ThenWithdraw
    <2> HIDE DEF s
    <2>3. CASE W = {}
      BY <2>1, <2>2, <2>3, BecomeMoves DEF Ends
    <2>4. CASE W # {}
      BY <2>1, <2>2, <2>4, BecomeMoves DEF Ends
    <2> QED
      BY <2>3, <2>4
  <1>2. Return(t) => ThenWithdraw(t, {})
    BY ReturnsNothing
  <1> QED
    BY <1>1, <1>2

\* fetch_authority on its way keeps what the thread works for and goes for ...
FetchMoves(t, pc) ==
  Moves(t, pc) /\ SameWork(t) /\ th'[t].then = th[t].then /\ th'[t].seen = th[t].seen

\* ... the grant ...
LEMMA FetchLocalMoves ==
  ASSUME TypeOK, NEW t \in Thread, FetchLocal(t)
  PROVE  FetchMoves(t, "fetch_grant")
  <1> DEFINE g == [th[t].got EXCEPT !.local = local]
             s == [th[t] EXCEPT !.pc = "fetch_grant", !.got = g]
  <1>1. th[t] \in ThreadState /\ Become(t, s)
    BY DEF TypeOK, FetchLocal
  <1> HIDE DEF g
  <1>2. /\ s.pc = "fetch_grant" /\ s.then = th[t].then /\ s.seen = th[t].seen
        /\ s.env = th[t].env /\ s.att = th[t].att /\ s.backend = th[t].backend /\ s.h = th[t].h
    BY <1>1 DEF ThreadState
  <1> HIDE DEF s
  <1> QED
    BY <1>1, <1>2, BecomeMoves DEF FetchMoves, SameWork

\* ... then the epoch ...
LEMMA FetchGrantMoves ==
  ASSUME TypeOK, NEW t \in Thread, FetchGrant(t)
  PROVE  FetchMoves(t, "fetch_epoch")
  <1> DEFINE g == [th[t].got EXCEPT !.grant = grant]
             s == [th[t] EXCEPT !.pc = "fetch_epoch", !.got = g]
  <1>1. th[t] \in ThreadState /\ Become(t, s)
    BY DEF TypeOK, FetchGrant
  <1> HIDE DEF g
  <1>2. /\ s.pc = "fetch_epoch" /\ s.then = th[t].then /\ s.seen = th[t].seen
        /\ s.env = th[t].env /\ s.att = th[t].att /\ s.backend = th[t].backend /\ s.h = th[t].h
    BY <1>1 DEF ThreadState
  <1> HIDE DEF s
  <1> QED
    BY <1>1, <1>2, BecomeMoves DEF FetchMoves, SameWork

\* ... and with the present epoch and boot to where it was bound for ...
LEMMA FetchEpochMoves ==
  ASSUME TypeOK, NEW t \in Thread, FetchEpoch(t)
  PROVE  /\ FetchMoves(t, th[t].then)
         /\ th[t].then = "derive" => th'[t].got.epoch = epoch /\ th'[t].got.boot = boot
         /\ th[t].then # "derive" /\ th'[t].verdict = "current" =>
              Held(t).epoch = epoch /\ Held(t).boot = boot
  <1> DEFINE g == [th[t].got EXCEPT !.epoch = epoch, !.boot = boot]
             v == IF Held(t) = g THEN "current" ELSE "drifted"
             derived == [th[t] EXCEPT !.pc = "derive", !.got = g, !.verdict = "current"]
             compared == [th[t] EXCEPT !.pc = th[t].then, !.got = NoVector, !.verdict = v]
             s == IF th[t].then = "derive" THEN derived ELSE compared
  <1>1. th[t] \in ThreadState /\ Become(t, s)
    BY DEF TypeOK, FetchEpoch
  <1>2. g.epoch = epoch /\ g.boot = boot
    BY <1>1 DEF ThreadState, AuthorityVector
  <1>3. v = "current" => Held(t).epoch = epoch /\ Held(t).boot = boot
    BY <1>2
  <1> HIDE DEF g, v
  <1>4. /\ s.pc = th[t].then /\ s.then = th[t].then /\ s.seen = th[t].seen
        /\ s.env = th[t].env /\ s.att = th[t].att /\ s.backend = th[t].backend /\ s.h = th[t].h
        /\ IF th[t].then = "derive" THEN s.got = g ELSE s.verdict = v
    BY <1>1 DEF ThreadState
  <1> HIDE DEF s
  <1> QED
    BY <1>1, <1>2, <1>3, <1>4, BecomeMoves DEF FetchMoves, SameWork

\* ... or with a refusal.
LEMMA FetchRefusedMoves ==
  ASSUME TypeOK, NEW t \in Thread, FetchRefused(t)
  PROVE  FetchMoves(t, th[t].then) /\ th'[t].verdict = "refused"
  <1> DEFINE s == [th[t] EXCEPT !.pc = th[t].then, !.got = NoVector, !.verdict = "refused"]
  <1>1. th[t] \in ThreadState /\ Become(t, s)
    BY DEF TypeOK, FetchRefused
  <1>2. /\ s.pc = th[t].then /\ s.then = th[t].then /\ s.seen = th[t].seen
        /\ s.env = th[t].env /\ s.att = th[t].att /\ s.backend = th[t].backend /\ s.h = th[t].h
        /\ s.verdict = "refused"
    BY <1>1 DEF ThreadState
  <1> HIDE DEF s
  <1> QED
    BY <1>1, <1>2, BecomeMoves DEF FetchMoves, SameWork

\* The operations that begin with a fetch.
LEMMA BeginMoves ==
  ASSUME TypeOK, NEW t \in Thread
  PROVE  /\ DeriveBegin(t) => Moves(t, "fetch_local") /\ th'[t].then = "derive"
         /\ \A e, b, r : ApplyResolve(t, e, b, r) =>
              /\ Moves(t, "fetch_local") /\ th'[t].then = "reserve"
              /\ th'[t].env = e /\ th'[t].backend = b /\ th'[t].h = registry[b]
         /\ \A a : VerifyBegin(t, a) => Moves(t, "fetch_local") /\ th'[t].then = "verify"
         /\ \A a : RevalidateBegin(t, a) =>
              Moves(t, "fetch_local") /\ th'[t].then = "revalidate"
  <1>1. ASSUME DeriveBegin(t)
        PROVE  Moves(t, "fetch_local") /\ th'[t].then = "derive"
    <2> DEFINE s == [Idle EXCEPT !.pc = "fetch_local", !.then = "derive"]
    <2>1. Become(t, s) /\ s.pc = "fetch_local" /\ s.then = "derive"
      BY <1>1 DEF DeriveBegin, Idle
    <2> HIDE DEF s
    <2> QED
      BY <2>1, BecomeMoves
  <1>2. ASSUME NEW e, NEW b, NEW r, ApplyResolve(t, e, b, r)
        PROVE  /\ Moves(t, "fetch_local") /\ th'[t].then = "reserve"
               /\ th'[t].env = e /\ th'[t].backend = b /\ th'[t].h = registry[b]
    <2> DEFINE s == [Idle EXCEPT !.pc = "fetch_local", !.then = "reserve", !.env = e,
                       !.backend = b, !.h = registry[b], !.requested = r]
    <2>1. /\ Become(t, s) /\ s.pc = "fetch_local" /\ s.then = "reserve"
          /\ s.env = e /\ s.backend = b /\ s.h = registry[b]
      BY <1>2 DEF ApplyResolve, Idle
    <2> HIDE DEF s
    <2> QED
      BY <2>1, BecomeMoves
  <1>3. ASSUME NEW a, NEW then \in {"verify", "revalidate"},
               Become(t, [Idle EXCEPT !.pc = "fetch_local", !.then = then, !.att = a,
                            !.env = attempts[a].env, !.backend = attempts[a].backend,
                            !.h = registry[attempts[a].backend]])
        PROVE  Moves(t, "fetch_local") /\ th'[t].then = then
    <2> DEFINE s == [Idle EXCEPT !.pc = "fetch_local", !.then = then, !.att = a,
                       !.env = attempts[a].env, !.backend = attempts[a].backend,
                       !.h = registry[attempts[a].backend]]
    <2>1. Become(t, s) /\ s.pc = "fetch_local" /\ s.then = then
      BY <1>3 DEF Idle
    <2> HIDE DEF s
    <2> QED
      BY <2>1, BecomeMoves
  <1>4. \A a : VerifyBegin(t, a) => Moves(t, "fetch_local") /\ th'[t].then = "verify"
    BY <1>3 DEF VerifyBegin
  <1>5. \A a : RevalidateBegin(t, a) => Moves(t, "fetch_local") /\ th'[t].then = "revalidate"
    BY <1>3 DEF RevalidateBegin
  <1> QED
    BY <1>1, <1>2, <1>4, <1>5

\* An application after its reservation, its call of the backend, the
\* acknowledgement and the readback; verify_attempt and revalidate read back too.
LEMMA ApplyMoves ==
  ASSUME TypeOK, NEW t \in Thread
  PROVE  /\ Reserve(t) => /\ Moves(t, "backend_apply") /\ th'[t].att = NextAttempt(t)
                          /\ th'[t].env = th[t].env
                          /\ th'[t].backend = th[t].backend /\ th'[t].h = th[t].h
         /\ BackendApply(t) => /\ Moves(t, "fold") /\ SameWork(t)
         /\ FoldAcknowledged(t) =>
              /\ SameWork(t)
              /\ \/ /\ th[t].h \in Readable
                    /\ Moves(t, "readback") /\ th'[t].then = "commit"
                 \/ /\ th[t].h \notin Readable
                    /\ Moves(t, "fetch_local") /\ th'[t].then = "commit_unverified"
         /\ Readback(t) => /\ Moves(t, AfterReadback(th[t].then)) /\ SameWork(t)
                           /\ th'[t].then = th[t].then
                           /\ th'[t].seen \in Observed(th[t].h, th[t].att)
  <1>0. th[t] \in ThreadState
    BY DEF TypeOK
  <1>1. ASSUME Reserve(t)
        PROVE  /\ Moves(t, "backend_apply") /\ th'[t].att = NextAttempt(t)
               /\ th'[t].env = th[t].env
               /\ th'[t].backend = th[t].backend /\ th'[t].h = th[t].h
    <2> DEFINE a == NextAttempt(t)
               s == [th[t] EXCEPT !.pc = "backend_apply", !.att = a,
                                  !.requested = 0, !.verdict = "none"]
    <2>1. Become(t, s)
      BY <1>1 DEF Reserve
    <2> HIDE DEF a
    <2>2. /\ s.pc = "backend_apply" /\ s.att = a /\ s.env = th[t].env
          /\ s.backend = th[t].backend /\ s.h = th[t].h
      BY <1>0 DEF ThreadState
    <2> HIDE DEF s
    <2> QED
      BY <2>1, <2>2, BecomeMoves DEF a
  <1>2. ASSUME BackendApply(t)
        PROVE  Moves(t, "fold") /\ SameWork(t)
    <2> DEFINE s(x) == [th[t] EXCEPT !.pc = "fold", !.seen = x]
    <2>1. PICK x : Become(t, s(x))
      BY <1>2 DEF BackendApply
    <2>2. /\ s(x).pc = "fold" /\ s(x).env = th[t].env /\ s(x).att = th[t].att
          /\ s(x).backend = th[t].backend /\ s(x).h = th[t].h
      BY <1>0 DEF ThreadState
    <2> HIDE DEF s
    <2> QED
      BY <2>1, <2>2, BecomeMoves DEF SameWork
  <1>3. ASSUME FoldAcknowledged(t)
        PROVE  /\ SameWork(t)
               /\ \/ /\ th[t].h \in Readable
                     /\ Moves(t, "readback") /\ th'[t].then = "commit"
                  \/ /\ th[t].h \notin Readable
                     /\ Moves(t, "fetch_local") /\ th'[t].then = "commit_unverified"
    <2> DEFINE read == [th[t] EXCEPT !.pc = "readback", !.then = "commit", !.seen = "none"]
               skip == [th[t] EXCEPT !.pc = "fetch_local", !.then = "commit_unverified",
                                     !.seen = "none"]
    <2>1. Become(t, IF th[t].h \in Readable THEN read ELSE skip)
      BY <1>3 DEF FoldAcknowledged
    <2>2. /\ read.pc = "readback" /\ read.then = "commit"
          /\ read.env = th[t].env /\ read.att = th[t].att
          /\ read.backend = th[t].backend /\ read.h = th[t].h
      BY <1>0 DEF ThreadState
    <2>3. /\ skip.pc = "fetch_local" /\ skip.then = "commit_unverified"
          /\ skip.env = th[t].env /\ skip.att = th[t].att
          /\ skip.backend = th[t].backend /\ skip.h = th[t].h
      BY <1>0 DEF ThreadState
    <2> HIDE DEF read, skip
    <2> QED
      BY <2>1, <2>2, <2>3, BecomeMoves DEF SameWork
  <1>4. ASSUME Readback(t)
        PROVE  /\ Moves(t, AfterReadback(th[t].then)) /\ SameWork(t)
               /\ th'[t].then = th[t].then
               /\ th'[t].seen \in Observed(th[t].h, th[t].att)
    <2> DEFINE p == AfterReadback(th[t].then)
               s(x) == [th[t] EXCEPT !.pc = p, !.seen = x, !.verdict = "none"]
    <2>1. PICK x \in Observed(th[t].h, th[t].att) : Become(t, s(x))
      BY <1>4 DEF Readback
    <2> HIDE DEF p
    <2>2. /\ s(x).pc = p /\ s(x).then = th[t].then /\ s(x).seen = x
          /\ s(x).env = th[t].env /\ s(x).att = th[t].att
          /\ s(x).backend = th[t].backend /\ s(x).h = th[t].h
      BY <1>0 DEF ThreadState
    <2> HIDE DEF s
    <2> QED
      BY <2>1, <2>2, BecomeMoves DEF SameWork, p
  <1> QED
    BY <1>1, <1>2, <1>3, <1>4

\* rebind_epoch goes from one handle to the next.
LEMMA RebindMoves ==
  ASSUME TypeOK, NEW t \in Thread, RebindEpoch(t)
  PROVE  \/ Moves(t, "idle") /\ th'[t].then = "idle"
         \/ Moves(t, "rebind") /\ th'[t].then = th[t].then /\ th'[t].fence = th[t].fence
  <1> DEFINE s(w) == [th[t] EXCEPT !.todo = @ \ {w}]
  <1>1. PICK w : Become(t, Idle) \/ Become(t, s(w))
    BY DEF RebindEpoch
  <1>2. th[t] \in ThreadState /\ th[t].pc = "rebind"
    BY DEF TypeOK, RebindEpoch, At
  <1>3. s(w).pc = "rebind" /\ s(w).then = th[t].then /\ s(w).fence = th[t].fence
    BY <1>2 DEF ThreadState
  <1> HIDE DEF s
  <1>4. Idle.pc = "idle" /\ Idle.then = "idle"
    BY DEF Idle
  <1> QED
    BY <1>1, <1>3, <1>4, BecomeMoves

\* Governance ends, withdraws, or tells the backends of the new epoch.
LEMMA GovernanceThreadMoves ==
  ASSUME TypeOK, NEW t \in Thread
  PROVE  /\ \/ \E a : CancelAttempt(t, a)
            \/ \E e : RevokeEnvelope(t, e) \/ FenceBelow(t, e)
            => \E W : Ends(t, W)
         /\ AdvanceEpoch(t) =>
              \/ Ends(t, {})
              \/ Moves(t, "rebind") /\ th'[t].then = "idle" /\ th'[t].fence = epoch + 1
  <1>1. ASSUME AdvanceEpoch(t)
        PROVE  \/ Ends(t, {})
               \/ Moves(t, "rebind") /\ th'[t].then = "idle" /\ th'[t].fence = epoch + 1
    <2> DEFINE told == {<<registry[b], 0>> : b \in {c \in Backend : registry[c] # NoHandle}}
               s == [Idle EXCEPT !.pc = "rebind", !.todo = told, !.fence = epoch + 1]
    <2>1. Return(t) \/ Become(t, s)
      BY <1>1 DEF AdvanceEpoch, Return
    <2> HIDE DEF told
    <2>2. s.pc = "rebind" /\ s.then = "idle" /\ s.fence = epoch + 1
      BY DEF Idle
    <2> HIDE DEF s
    <2> QED
      BY <2>1, <2>2, BecomeMoves, EndMoves
  <1> QED
    BY <1>1, EndMoves DEF CancelAttempt, RevokeEnvelope, FenceBelow

-----------------------------------------------------------------------------
(* What each step does to the ledger *)

\* The attempts in S move to next, and every attempt keeps what it was made for.
Moved(S, next) ==
  \A a \in AttemptId :
    /\ attempts'[a].state = IF a \in S THEN next ELSE attempts[a].state
    /\ attempts'[a].env = attempts[a].env
    /\ attempts'[a].backend = attempts[a].backend
    /\ attempts'[a].authority = attempts[a].authority

\* No attempt moves.
Unmoved == Moved({}, "Unknown")

\* apply_transition of a set of attempts.
LEMMA TransitionMoves ==
  ASSUME TypeOK, NEW S, NEW next \in ApplicationStates, TransitionAll(S, next)
  PROVE  Moved(S, next)
  <1> SUFFICES ASSUME NEW a \in AttemptId
               PROVE  /\ attempts'[a].state = IF a \in S THEN next ELSE attempts[a].state
                      /\ attempts'[a].env = attempts[a].env
                      /\ attempts'[a].backend = attempts[a].backend
                      /\ attempts'[a].authority = attempts[a].authority
    BY DEF Moved
  <1>1. attempts'[a] = IF a \in S THEN Transition(attempts[a], next) ELSE attempts[a]
    BY DEF TransitionAll
  <1>2. attempts[a] \in Record
    BY DEF TypeOK
  <1> QED
    BY <1>1, <1>2, TransitionType

\* The transitions of revalidate, and its flag.
LEMMA RevalidatedMoves ==
  ASSUME TypeOK, NEW a \in AttemptId, NEW flag
  PROVE  /\ \A next \in ApplicationStates : MoveRevalidated(a, next, flag) => Moved({a}, next)
         /\ attempts' = [attempts EXCEPT ![a].requires_revalidation = flag] => Unmoved
  <1>1. attempts[a] \in Record /\ attempts \in [AttemptId -> Record]
    BY DEF TypeOK
  <1>2. ASSUME NEW r \in Record, attempts' = [attempts EXCEPT ![a] =
                                               [r EXCEPT !.requires_revalidation = flag]],
               r.env = attempts[a].env, r.backend = attempts[a].backend,
               r.authority = attempts[a].authority
        PROVE  Moved({a}, r.state)
    <2> DEFINE q == [r EXCEPT !.requires_revalidation = flag]
    <2>1. /\ q.env = r.env /\ q.backend = r.backend /\ q.authority = r.authority
          /\ q.state = r.state
      BY DEF Record
    <2>2. attempts' = [attempts EXCEPT ![a] = q]
      BY <1>2
    <2> HIDE DEF q
    <2> QED
      BY <1>1, <1>2, <2>1, <2>2 DEF Moved
  <1>3. ASSUME NEW next \in ApplicationStates, MoveRevalidated(a, next, flag)
        PROVE  Moved({a}, next)
    <2> DEFINE r == Transition(attempts[a], next)
    <2>1. /\ r \in Record /\ r.state = next /\ r.env = attempts[a].env
          /\ r.backend = attempts[a].backend /\ r.authority = attempts[a].authority
      BY <1>1, TransitionType
    <2>2. attempts' = [attempts EXCEPT ![a] = [r EXCEPT !.requires_revalidation = flag]]
      BY <1>3 DEF MoveRevalidated
    <2> HIDE DEF r
    <2> QED
      BY <1>2, <2>1, <2>2
  <1>4. ASSUME attempts' = [attempts EXCEPT ![a].requires_revalidation = flag]
        PROVE  Unmoved
    <2>1. attempts' = [attempts EXCEPT ![a] = [attempts[a] EXCEPT !.requires_revalidation = flag]]
      BY <1>4
    <2>2. Moved({a}, attempts[a].state)
      BY <1>1, <1>2, <2>1
    <2> QED
      BY <2>2 DEF Moved, Unmoved
  <1> QED
    BY <1>3, <1>4

\* The operations that work for one attempt.
LEMMA OwnMoves ==
  ASSUME Inv, NEW t \in Thread
  PROVE  /\ FoldUnregistered(t) \/ FoldFailed(t) => Moved({th[t].att}, "Failed")
         /\ FoldAcknowledged(t) => Moved({th[t].att}, "Acknowledged")
         /\ CommitStale(t) \/ VerifyStale(t) => Moved({th[t].att}, "Stale")
         /\ CommitEvidence(t) \/ VerifyCommit(t) => Moved({th[t].att}, Finalized(th[t].seen))
         /\ CommitUnverified(t) =>
              \/ Unmoved
              \/ Awaits(t, "Acknowledged") /\ Moved({th[t].att}, "Stale")
              \/ Awaits(t, "Acknowledged") /\ Moved({th[t].att}, "AppliedUnverified")
  <1>1. TypeOK
    BY DEF Inv
  <1>2. ASSUME NEW next \in ApplicationStates, Move({th[t].att}, next)
        PROVE  Moved({th[t].att}, next)
    BY <1>1, <1>2, TransitionMoves DEF Move
  <1>3. {"Failed", "Acknowledged", "Stale", "AppliedUnverified"} \subseteq ApplicationStates
    BY DEF ApplicationStates, PendingStates, InForceStates, ClosedStates
  <1>4. Finalized(th[t].seen) \in ApplicationStates
    BY TerminalStates
  <1>5. FoldUnregistered(t) \/ FoldFailed(t) => Move({th[t].att}, "Failed")
    BY DEF FoldUnregistered, FoldFailed
  <1>6. FoldAcknowledged(t) => Move({th[t].att}, "Acknowledged")
    BY DEF FoldAcknowledged
  <1>7. CommitStale(t) \/ VerifyStale(t) => Move({th[t].att}, "Stale")
    BY DEF CommitStale, VerifyStale
  <1>8. CommitEvidence(t) \/ VerifyCommit(t) => Move({th[t].att}, Finalized(th[t].seen))
    BY DEF CommitEvidence, VerifyCommit
  <1>9. ASSUME CommitUnverified(t)
        PROVE  \/ Unmoved
               \/ Awaits(t, "Acknowledged") /\ Moved({th[t].att}, "Stale")
               \/ Awaits(t, "Acknowledged") /\ Moved({th[t].att}, "AppliedUnverified")
    <2>1. CASE UNCHANGED ledger
      BY <2>1 DEF ledger, Unmoved, Moved
    <2>2. CASE ~UNCHANGED ledger
      BY <1>2, <1>3, <1>9, <2>2 DEF CommitUnverified
    <2> QED
      BY <2>1, <2>2
  <1> QED
    BY <1>2, <1>3, <1>4, <1>5, <1>6, <1>7, <1>8, <1>9

\* Cancellation, revocation and fencing.
LEMMA GovernanceMoves ==
  ASSUME Inv, NEW t \in Thread
  PROVE  /\ \A a : CancelAttempt(t, a) =>
              Moved({a}, IF IsPending(a) THEN "Cancelled" ELSE "Revoked")
         /\ \A e : RevokeEnvelope(t, e) =>
              Moved({a \in AttemptId : Present(a) /\ attempts[a].env = e /\ ~IsClosed(a)},
                    "Revoked")
         /\ \A e : FenceBelow(t, e) => Moved(OpenBelow(e), "Fenced")
         /\ AdvanceEpoch(t) => Moved(OpenBelow(epoch + 1), "Fenced")
  <1>1. TypeOK /\ {"Cancelled", "Revoked", "Fenced"} \subseteq ApplicationStates
    BY DEF Inv, ApplicationStates, ClosedStates
  <1>2. ASSUME NEW a, CancelAttempt(t, a)
        PROVE  Moved({a}, IF IsPending(a) THEN "Cancelled" ELSE "Revoked")
    <2> DEFINE next == IF IsPending(a) THEN "Cancelled" ELSE "Revoked"
    <2>1. next \in ApplicationStates /\ TransitionAll({a}, next)
      BY <1>1, <1>2 DEF CancelAttempt, Move
    <2> HIDE DEF next
    <2>2. Moved({a}, next)
      BY <1>1, <2>1, TransitionMoves
    <2> QED
      BY <2>2 DEF next
  <1>3. \A e : RevokeEnvelope(t, e) =>
           Moved({a \in AttemptId : Present(a) /\ attempts[a].env = e /\ ~IsClosed(a)},
                 "Revoked")
    BY <1>1, TransitionMoves DEF RevokeEnvelope
  <1>4. \A e : FenceBelow(t, e) => Moved(OpenBelow(e), "Fenced")
    BY <1>1, TransitionMoves DEF FenceBelow, Move
  <1>5. AdvanceEpoch(t) => Moved(OpenBelow(epoch + 1), "Fenced")
    BY <1>1, TransitionMoves DEF AdvanceEpoch
  <1> QED
    BY <1>2, <1>3, <1>4, <1>5

\* revalidate.
LEMMA RevalidateMoves ==
  ASSUME Inv, NEW t \in Thread
  PROVE  /\ RevalidateStale(t) => Moved({th[t].att}, "Stale")
         /\ RevalidateNoEvidence(t) =>
              Unmoved \/ Moved({th[t].att}, "RequiresRevalidation")
         /\ RevalidateCommit(t) => Moved({th[t].att}, Finalized(th[t].seen))
  <1>1. TypeOK
    BY DEF Inv
  <1>2. {"Stale", "RequiresRevalidation", Finalized(th[t].seen)} \subseteq ApplicationStates
    BY TerminalStates DEF ApplicationStates, ClosedStates
  <1>3. th[t].att \in AttemptId
          \/ ~(RevalidateStale(t) \/ RevalidateNoEvidence(t) \/ RevalidateCommit(t))
    BY AttemptFacts DEF ForAttempt, RevalidateStale, RevalidateNoEvidence, RevalidateCommit, At
  <1>4. RevalidateStale(t) => Moved({th[t].att}, "Stale")
    BY <1>1, <1>2, <1>3, RevalidatedMoves DEF RevalidateStale
  <1>5. RevalidateCommit(t) => Moved({th[t].att}, Finalized(th[t].seen))
    <2> DEFINE f == Finalized(th[t].seen)
    <2>1. RevalidateCommit(t) => MoveRevalidated(th[t].att, f, f # "Applied")
      BY DEF RevalidateCommit
    <2> HIDE DEF f
    <2>2. RevalidateCommit(t) => Moved({th[t].att}, f)
      BY <1>1, <1>2, <1>3, <2>1, RevalidatedMoves DEF f
    <2> QED
      BY <2>2 DEF f
  <1>6. ASSUME RevalidateNoEvidence(t)
        PROVE  Unmoved \/ Moved({th[t].att}, "RequiresRevalidation")
    <2>1. CASE is_terminal(attempts[th[t].att].state)
      BY <1>1, <1>3, <1>6, <2>1, RevalidatedMoves DEF RevalidateNoEvidence
    <2>2. CASE ~is_terminal(attempts[th[t].att].state)
      BY <1>1, <1>2, <1>6, <2>2, TransitionMoves DEF RevalidateNoEvidence, Move
    <2> QED
      BY <2>1, <2>2
  <1> QED
    BY <1>4, <1>5, <1>6

\* The envelopes keep their vectors, and a revoked one stays revoked.
EnvelopesKept ==
  /\ Len(envelopes) <= Len(envelopes)'
  /\ \A i \in 1 .. Len(envelopes) :
       /\ envelopes'[i].authority = envelopes[i].authority
       /\ envelopes[i].revoked => envelopes'[i].revoked

\* An attempt stays in the ledger with what it was made for.
RecordsKept ==
  \A a \in AttemptId : Present(a) =>
    /\ Present(a)'
    /\ attempts'[a].env = attempts[a].env
    /\ attempts'[a].backend = attempts[a].backend
    /\ attempts'[a].authority = attempts[a].authority

\* A revocation only sets flags.
LEMMA RevocationsKeep ==
  ASSUME TypeOK, NEW e
  PROVE  /\ envelopes' = RevokedBelow(e) =>
              /\ EnvelopesKept /\ Len(envelopes)' = Len(envelopes)
              /\ \A i \in 1 .. Len(envelopes) :
                   envelopes'[i].revoked <=>
                     envelopes[i].revoked \/ envelopes[i].authority.epoch < e
         /\ envelopes' = [envelopes EXCEPT ![e].revoked = TRUE] =>
              EnvelopesKept /\ Len(envelopes)' = Len(envelopes)
  <1> DEFINE n == Len(envelopes)
  <1>1. /\ n \in Nat /\ DOMAIN envelopes = 1 .. n
        /\ \A i \in 1 .. n : envelopes[i] \in Envelope
    BY DEF TypeOK
  <1>2. ASSUME envelopes' = RevokedBelow(e)
        PROVE  /\ EnvelopesKept /\ Len(envelopes)' = Len(envelopes)
               /\ \A i \in 1 .. Len(envelopes) :
                   envelopes'[i].revoked <=>
                     envelopes[i].revoked \/ envelopes[i].authority.epoch < e
    <2> DEFINE f(i) == [envelopes[i] EXCEPT !.revoked = @ \/ envelopes[i].authority.epoch < e]
    <2>1. envelopes' = [i \in 1 .. n |-> f(i)]
      BY <1>1, <1>2 DEF RevokedBelow
    <2>2. \A i \in 1 .. n :
            /\ f(i).authority = envelopes[i].authority
            /\ f(i).revoked <=> envelopes[i].revoked \/ envelopes[i].authority.epoch < e
      BY <1>1 DEF Envelope
    <2> HIDE DEF f
    <2>3. Len(envelopes') = n
      BY <1>1, <2>1
    <2> HIDE DEF n
    <2> QED
      BY <1>1, <2>1, <2>2, <2>3 DEF EnvelopesKept, n
  <1>3. ASSUME envelopes' = [envelopes EXCEPT ![e].revoked = TRUE]
        PROVE  EnvelopesKept /\ Len(envelopes)' = Len(envelopes)
    <2> DEFINE r == [envelopes[e] EXCEPT !.revoked = TRUE]
    <2>1. envelopes' = [envelopes EXCEPT ![e] = r]
      BY <1>3
    <2>2. e \in 1 .. n => r.authority = envelopes[e].authority /\ r.revoked = TRUE
      BY <1>1 DEF Envelope
    <2> HIDE DEF r
    <2>3. envelopes' = [i \in 1 .. n |-> IF i = e THEN r ELSE envelopes[i]]
      BY <1>1, <2>1
    <2>4. Len(envelopes') = n
      BY <1>1, <2>3
    <2> HIDE DEF n
    <2> QED
      BY <1>1, <2>2, <2>3, <2>4 DEF EnvelopesKept, n
  <1> QED
    BY <1>2, <1>3

\* Whoever moves, the ledger and the envelopes keep what they hold.
LEMMA MovedKeeps ==
  ASSUME TypeOK, NEW S, NEW next \in ApplicationStates, Moved(S, next)
  PROVE  RecordsKept
  BY DEF Moved, RecordsKept, Present, ApplicationStates, PendingStates, InForceStates,
         ClosedStates

\* The steps of a thread that touch neither the attempts nor the envelopes.
QuietStep(t) ==
  \/ DeriveBegin(t)
  \/ \E e \in EnvelopeId, b \in Backend, r \in {0} \cup AttemptId : ApplyResolve(t, e, b, r)
  \/ \E a \in AttemptId : VerifyBegin(t, a) \/ RevalidateBegin(t, a)
  \/ FetchLocal(t) \/ FetchGrant(t) \/ FetchEpoch(t) \/ FetchRefused(t)
  \/ DeriveRefused(t) \/ ReserveNotDurable(t) \/ ReserveRefused(t)
  \/ BackendApply(t) \/ FoldClosed(t) \/ Readback(t) \/ CommitLate(t)
  \/ Withdraw(t) \/ RebindEpoch(t)
  \/ VerifyRefused(t) \/ RevalidateRefused(t)

\* The steps of a thread that record something about its own attempt.
OwnStep(t) ==
  \/ FoldUnregistered(t) \/ FoldFailed(t) \/ FoldAcknowledged(t)
  \/ CommitStale(t) \/ CommitEvidence(t) \/ CommitUnverified(t)
  \/ VerifyStale(t) \/ VerifyCommit(t)
  \/ RevalidateStale(t) \/ RevalidateNoEvidence(t) \/ RevalidateCommit(t)

\* The steps that close attempts whoever works for them.
GovernanceStep(t) ==
  \/ \E a \in AttemptId : CancelAttempt(t, a)
  \/ \E e \in EnvelopeId : RevokeEnvelope(t, e)
  \/ \E e \in 1 .. MaxEpoch + 1 : FenceBelow(t, e)
  \/ AdvanceEpoch(t)

\* What happens around the threads while the coordinator runs.
OutsideStep ==
  \/ \E t \in Thread, e \in EnvelopeId : RevokeNotDurable(t, e)
  \/ \E h \in Handle : RegisterBackend(h)
  \/ \E b \in Backend : UnregisterBackend(b)
  \/ ChangeLocal \/ ChangeGrant
  \/ \E h \in Handle, a \in AttemptId : ShaperDrifts(h, a)

\* Every step is one of these.
LEMMA StepKinds ==
  ASSUME Next
  PROVE  \/ \E t \in Thread : \/ QuietStep(t) \/ OwnStep(t) \/ GovernanceStep(t)
                              \/ DeriveCommit(t) \/ Reserve(t)
         \/ OutsideStep \/ Restart
  <1>1. ASSUME NEW t \in Thread, Begin(t)
        PROVE  QuietStep(t) \/ GovernanceStep(t) \/ OutsideStep
    BY <1>1 DEF Begin, QuietStep, GovernanceStep, OutsideStep
  <1>2. ASSUME NEW t \in Thread, Continue(t)
        PROVE  QuietStep(t) \/ OwnStep(t) \/ DeriveCommit(t) \/ Reserve(t)
    BY <1>2 DEF Continue, QuietStep, OwnStep
  <1>3. Environment => OutsideStep \/ Restart
    BY DEF Environment, OutsideStep
  <1> QED
    BY <1>1, <1>2, <1>3 DEF Next

\* A quiet step.
LEMMA QuietKeeps ==
  ASSUME NEW t \in Thread, QuietStep(t)
  PROVE  UNCHANGED <<attempts, envelopes, epoch, boot, registry>>
  <1>1. CASE \/ DeriveBegin(t)
             \/ \E e \in EnvelopeId, b \in Backend, r \in {0} \cup AttemptId :
                  ApplyResolve(t, e, b, r)
             \/ \E a \in AttemptId : VerifyBegin(t, a) \/ RevalidateBegin(t, a)
    BY <1>1 DEF DeriveBegin, ApplyResolve, VerifyBegin, RevalidateBegin, ledger, authority
  <1>2. CASE \/ FetchLocal(t) \/ FetchGrant(t) \/ FetchEpoch(t) \/ FetchRefused(t)
             \/ FoldClosed(t) \/ Readback(t) \/ CommitLate(t) \/ ReserveRefused(t)
             \/ VerifyRefused(t) \/ RevalidateRefused(t)
    BY <1>2 DEF FetchLocal, FetchGrant, FetchEpoch, FetchRefused, FoldClosed, Readback,
                CommitLate, ReserveRefused, VerifyRefused, RevalidateRefused, ledger, authority
  <1>3. CASE DeriveRefused(t) \/ ReserveNotDurable(t)
    BY <1>3 DEF DeriveRefused, ReserveNotDurable, JournalOther, ledger, authority
  <1>4. CASE BackendApply(t) \/ Withdraw(t) \/ RebindEpoch(t)
    BY <1>4 DEF BackendApply, Withdraw, RebindEpoch, ledger, authority
  <1> QED
    BY <1>1, <1>2, <1>3, <1>4 DEF QuietStep

\* The same of what happens around the threads.
LEMMA OutsideKeeps ==
  ASSUME OutsideStep
  PROVE  UNCHANGED <<attempts, envelopes, epoch, boot, th>>
  <1>1. CASE \E t \in Thread, e \in EnvelopeId : RevokeNotDurable(t, e)
    BY <1>1 DEF RevokeNotDurable, JournalOther, authority
  <1>2. CASE \/ \E h \in Handle : RegisterBackend(h)
             \/ \E b \in Backend : UnregisterBackend(b)
    BY <1>2 DEF RegisterBackend, UnregisterBackend, JournalOther, ledger, authority
  <1>3. CASE ChangeLocal \/ ChangeGrant \/ \E h \in Handle, a \in AttemptId : ShaperDrifts(h, a)
    BY <1>3 DEF ChangeLocal, ChangeGrant, ShaperDrifts, JournalOther, ledger, authority
  <1> QED
    BY <1>1, <1>2, <1>3 DEF OutsideStep

\* A thread that works for its own attempt.
LEMMA OwnKeeps ==
  ASSUME NEW t \in Thread, OwnStep(t)
  PROVE  UNCHANGED <<envelopes, epoch, boot, registry, installed>>
  <1>1. CASE FoldUnregistered(t) \/ FoldFailed(t) \/ FoldAcknowledged(t)
    BY <1>1 DEF FoldUnregistered, FoldFailed, FoldAcknowledged, authority
  <1>2. CASE CommitStale(t) \/ CommitEvidence(t) \/ CommitUnverified(t)
    BY <1>2 DEF CommitStale, CommitEvidence, CommitUnverified, authority
  <1>3. CASE VerifyStale(t) \/ VerifyCommit(t)
    BY <1>3 DEF VerifyStale, VerifyCommit, authority
  <1>4. CASE RevalidateStale(t) \/ RevalidateNoEvidence(t) \/ RevalidateCommit(t)
    BY <1>4 DEF RevalidateStale, RevalidateNoEvidence, RevalidateCommit, authority
  <1> QED
    BY <1>1, <1>2, <1>3, <1>4 DEF OwnStep

\* Governance closes the attempts it moves, and revokes what it touches.
LEMMA GovernanceKeeps ==
  ASSUME Inv, NEW t \in Thread, GovernanceStep(t)
  PROVE  /\ UNCHANGED <<boot, registry, installed>>
         /\ EnvelopesKept /\ Len(envelopes)' = Len(envelopes)
         /\ \E S \in SUBSET PresentAttempts, next \in ClosedStates :
              /\ Moved(S, next)
              /\ \A a \in S : ~IsClosed(a)
  <1>1. TypeOK /\ Len(envelopes) \in Nat /\ {"Cancelled", "Revoked", "Fenced"} \subseteq ClosedStates
    BY DEF Inv, TypeOK, ClosedStates
  <1>2. ASSUME NEW a \in AttemptId, CancelAttempt(t, a)
        PROVE  /\ UNCHANGED <<envelopes, boot, registry, installed>>
               /\ Moved({a}, IF IsPending(a) THEN "Cancelled" ELSE "Revoked")
               /\ Present(a) /\ ~IsClosed(a)
    BY <1>2, GovernanceMoves DEF CancelAttempt, authority
  <1>3. ASSUME NEW e \in EnvelopeId, RevokeEnvelope(t, e)
        PROVE  /\ UNCHANGED <<boot, registry, installed>>
               /\ EnvelopesKept /\ Len(envelopes)' = Len(envelopes)
               /\ Moved({a \in AttemptId : Present(a) /\ attempts[a].env = e /\ ~IsClosed(a)},
                        "Revoked")
    BY <1>1, <1>3, GovernanceMoves, RevocationsKeep DEF RevokeEnvelope, authority
  <1>4. ASSUME NEW e, FenceBelow(t, e)
        PROVE  /\ UNCHANGED <<boot, registry, installed>>
               /\ EnvelopesKept /\ Len(envelopes)' = Len(envelopes)
               /\ Moved(OpenBelow(e), "Fenced")
    BY <1>1, <1>4, GovernanceMoves, RevocationsKeep DEF FenceBelow, authority
  <1>5. ASSUME AdvanceEpoch(t)
        PROVE  /\ UNCHANGED <<boot, registry, installed>>
               /\ EnvelopesKept /\ Len(envelopes)' = Len(envelopes)
               /\ Moved(OpenBelow(epoch + 1), "Fenced")
    BY <1>1, <1>5, GovernanceMoves, RevocationsKeep DEF AdvanceEpoch
  <1>6. \A e : /\ OpenBelow(e) \in SUBSET PresentAttempts
               /\ \A a \in OpenBelow(e) : ~IsClosed(a)
    BY DEF OpenBelow, PresentAttempts
  <1>7. UNCHANGED envelopes => EnvelopesKept /\ Len(envelopes)' = Len(envelopes)
    BY <1>1 DEF EnvelopesKept
  <1>8. CASE \E a \in AttemptId : CancelAttempt(t, a)
    <2>1. PICK a \in AttemptId : CancelAttempt(t, a)
      BY <1>8
    <2> DEFINE next == IF IsPending(a) THEN "Cancelled" ELSE "Revoked"
    <2>2. next \in ClosedStates
      BY <1>1
    <2>3. /\ Moved({a}, next) /\ {a} \in SUBSET PresentAttempts
          /\ \A b \in {a} : ~IsClosed(b)
      BY <1>2, <2>1 DEF PresentAttempts
    <2> HIDE DEF next
    <2> QED
      BY <1>2, <1>7, <2>1, <2>2, <2>3
  <1>9. CASE \E e \in EnvelopeId : RevokeEnvelope(t, e)
    <2>1. PICK e \in EnvelopeId : RevokeEnvelope(t, e)
      BY <1>9
    <2> DEFINE S == {a \in AttemptId : Present(a) /\ attempts[a].env = e /\ ~IsClosed(a)}
    <2>2. /\ Moved(S, "Revoked") /\ S \in SUBSET PresentAttempts
          /\ \A a \in S : ~IsClosed(a)
      BY <1>3, <2>1 DEF PresentAttempts
    <2> HIDE DEF S
    <2> QED
      BY <1>1, <1>3, <2>1, <2>2
  <1>10. CASE \E e \in 1 .. MaxEpoch + 1 : FenceBelow(t, e)
    BY <1>1, <1>4, <1>6, <1>10
  <1>11. CASE AdvanceEpoch(t)
    BY <1>1, <1>5, <1>6, <1>11
  <1> QED
    BY <1>8, <1>9, <1>10, <1>11 DEF GovernanceStep

\* derive_envelope adds an envelope under the vector that it fetched.
LEMMA DeriveKeeps ==
  ASSUME Inv, NEW t \in Thread, DeriveCommit(t)
  PROVE  /\ UNCHANGED <<attempts, epoch, boot, registry, installed>>
         /\ EnvelopesKept /\ Len(envelopes)' = Len(envelopes) + 1
         /\ \A i \in 1 .. Len(envelopes) : envelopes'[i] = envelopes[i]
         /\ envelopes'[Len(envelopes) + 1].authority = th[t].got
         /\ At(t, "derive") /\ th[t].verdict = "current"
         /\ Ends(t, {})
  <1>1. envelopes \in Seq(Envelope) /\ TypeOK
    BY DEF Inv, TypeOK
  <1>2. envelopes' = Append(envelopes, [authority |-> th[t].got, revoked |-> FALSE])
    BY DEF DeriveCommit
  <1> DEFINE v == [authority |-> th[t].got, revoked |-> FALSE]
             n == Len(envelopes)
  <1>3. /\ Len(envelopes)' = n + 1 /\ n \in Nat
        /\ \A i \in 1 .. n : envelopes'[i] = envelopes[i]
        /\ envelopes'[n + 1] = v
    BY <1>1, <1>2
  <1>4. v.authority = th[t].got
    OBVIOUS
  <1> HIDE DEF v
  <1>5. EnvelopesKept
    BY <1>3 DEF EnvelopesKept
  <1>6. /\ UNCHANGED <<attempts, epoch, boot, registry, installed>>
        /\ At(t, "derive") /\ th[t].verdict = "current"
        /\ Ends(t, {})
    BY <1>1, EndMoves DEF DeriveCommit, JournalOther, authority
  <1> QED
    BY <1>3, <1>4, <1>5, <1>6

\* The reservation, made under the authority of an envelope that is not revoked.
LEMMA ReserveKeeps ==
  ASSUME Inv, NEW t \in Thread, Reserve(t)
  PROVE  /\ UNCHANGED <<envelopes, epoch, boot, registry, installed>>
         /\ At(t, "reserve") /\ th[t].verdict = "current"
         /\ th[t].env \in 1 .. Len(envelopes) /\ ~envelopes[th[t].env].revoked
         /\ th[t].backend \in Backend /\ th[t].h \in Handle
         /\ NextAttempt(t) \in AttemptId /\ ~Present(NextAttempt(t))
         /\ attempts'[NextAttempt(t)].state = "Submitted"
         /\ attempts'[NextAttempt(t)].backend = th[t].backend
         /\ attempts'[NextAttempt(t)].authority = envelopes[th[t].env].authority
         /\ \A a \in AttemptId \ {NextAttempt(t)} : attempts'[a] = attempts[a]
         /\ RecordsKept
  <1> DEFINE a == NextAttempt(t)
             r == [NoRecord EXCEPT !.state = "Submitted", !.env = th[t].env,
                     !.backend = th[t].backend,
                     !.authority = envelopes[th[t].env].authority]
  <1>1. attempts' = [attempts EXCEPT ![a] = r] /\ a \in AttemptId /\ ~Present(a)
    BY DEF Reserve, MayReserve
  <1>2. attempts \in [AttemptId -> Record] /\ ForEnvelope(th[t])
    BY DEF Inv, TypeOK, Reserve, At, ForEnvelope
  <1>3. r.state = "Submitted" /\ r.backend = th[t].backend
        /\ r.authority = envelopes[th[t].env].authority
    BY DEF NoRecord
  <1> HIDE DEF r
  <1>4. /\ attempts'[a] = r
        /\ \A b \in AttemptId \ {a} : attempts'[b] = attempts[b]
    BY <1>1, <1>2
  <1>5. RecordsKept
    BY <1>1, <1>4 DEF RecordsKept, Present
  <1>6. /\ th[t].env \in 1 .. Len(envelopes)
        /\ th[t].backend \in Backend /\ th[t].h \in Handle
    BY <1>2 DEF Inv, ThreadsOK, ThreadOK
  <1> QED
    BY <1>1, <1>3, <1>4, <1>5, <1>6 DEF Reserve, MayReserve, authority

\* Recovery replays no attempt as open or in force, and keeps each of them.
LEMMA RestartKeeps ==
  ASSUME Inv, Restart
  PROVE  /\ RecordsKept
         /\ \A a \in AttemptId :
              /\ Present(a)' => Present(a)
              /\ attempts'[a].state \in ClosedStates \cup {"RequiresRevalidation", "Absent"}
  <1> SUFFICES ASSUME NEW a \in AttemptId
               PROVE  /\ Present(a)' <=> Present(a)
                      /\ attempts'[a].state \in ClosedStates \cup {"RequiresRevalidation", "Absent"}
                      /\ Present(a) => /\ attempts'[a].env = attempts[a].env
                                       /\ attempts'[a].backend = attempts[a].backend
                                       /\ attempts'[a].authority = attempts[a].authority
    BY DEF RecordsKept
  <1>1. /\ attempts'[a] = RecoveredRecord(a) /\ attempts[a] \in Record
        /\ durable[a] \in ApplicationStates \cup {"Absent"}
        /\ Present(a) <=> durable[a] # "Absent"
    BY DEF Restart, Inv, TypeOK, DurableKnowsAttempts
  <1>2. /\ Recovered(durable[a]) \in ClosedStates \cup {"RequiresRevalidation", "Absent"}
        /\ Recovered(durable[a]) = "Absent" <=> durable[a] = "Absent"
    BY <1>1 DEF Recovered, is_terminal, ApplicationStates, PendingStates, InForceStates,
                ClosedStates
  <1>3. CASE durable[a] = "Absent"
    BY <1>1, <1>3 DEF RecoveredRecord, NoRecord, Present
  <1>4. CASE durable[a] # "Absent"
    <2> DEFINE q == Recovered(durable[a])
               r == [attempts[a] EXCEPT !.state = q, !.effect = "None",
                                        !.requires_revalidation = TRUE]
    <2>1. attempts'[a] = r
      BY <1>1, <1>4 DEF RecoveredRecord
    <2> HIDE DEF q
    <2>2. /\ r.state = q /\ r.env = attempts[a].env /\ r.backend = attempts[a].backend
          /\ r.authority = attempts[a].authority
      BY <1>1 DEF Record
    <2> HIDE DEF r
    <2> QED
      BY <1>1, <1>2, <1>4, <2>1, <2>2 DEF Present, q
  <1> QED
    BY <1>3, <1>4

\* A restart revokes every envelope.
LEMMA RestartRevokes ==
  ASSUME Inv, Restart
  PROVE  /\ Len(envelopes)' = Len(envelopes)
         /\ \A i \in 1 .. Len(envelopes)' : envelopes'[i].revoked
  <1> DEFINE n == Len(envelopes)
             f(i) == [envelopes[i] EXCEPT !.revoked = TRUE]
  <1>1. /\ n \in Nat /\ DOMAIN envelopes = 1 .. n
        /\ \A i \in 1 .. n : envelopes[i] \in Envelope
    BY DEF Inv, TypeOK
  <1>2. envelopes' = [i \in 1 .. n |-> f(i)]
    BY <1>1 DEF Restart
  <1>3. \A i \in 1 .. n : f(i).revoked
    BY <1>1 DEF Envelope
  <1> HIDE DEF f
  <1>4. Len(envelopes') = n
    BY <1>1, <1>2
  <1> HIDE DEF n
  <1> QED
    BY <1>2, <1>3, <1>4 DEF n

\* Where a quiet step leads: only fetch_authority leads to a commit.
LEMMA QuietPlaces ==
  ASSUME Inv, NEW t \in Thread, QuietStep(t), ~FetchEpoch(t), ~FetchRefused(t)
  PROVE  /\ \A u \in Thread \ {t} : th'[u] = th[u]
         /\ th'[t].pc \in {"idle", "withdraw", "rebind", "fetch_local", "fetch_grant",
                          "fetch_epoch", "fold", "verify_commit", "revalidate_commit"}
         /\ th'[t].pc \in {"verify_commit", "revalidate_commit"} =>
              /\ th[t].pc \in {"verify", "revalidate"} /\ th[t].verdict = "current"
              /\ SameWork(t)
  <1>1. TypeOK
    BY DEF Inv
  <1>2. CASE \/ DeriveBegin(t)
             \/ \E e \in EnvelopeId, b \in Backend, r \in {0} \cup AttemptId :
                  ApplyResolve(t, e, b, r)
             \/ \E a \in AttemptId : VerifyBegin(t, a) \/ RevalidateBegin(t, a)
    BY <1>1, <1>2, BeginMoves DEF Moves
  <1>3. CASE FetchLocal(t) \/ FetchGrant(t) \/ BackendApply(t)
    BY <1>1, <1>3, FetchLocalMoves, FetchGrantMoves, ApplyMoves DEF FetchMoves, Moves
  <1>4. CASE Readback(t)
    <2>1. Moves(t, AfterReadback(th[t].then)) /\ SameWork(t)
      BY <1>1, <1>4, ApplyMoves
    <2>2. \/ th[t].pc = "readback" /\ AfterReadback(th[t].then) = "fetch_local"
          \/ /\ th[t].pc \in {"verify", "revalidate"} /\ th[t].verdict = "current"
             /\ AfterReadback(th[t].then) \in {"verify_commit", "revalidate_commit"}
      BY <1>4 DEF Inv, ThreadsOK, ThreadOK, Readback, At, AfterReadback
    <2> QED
      BY <2>1, <2>2 DEF Moves
  <1>5. CASE \/ DeriveRefused(t) \/ ReserveNotDurable(t) \/ ReserveRefused(t) \/ FoldClosed(t)
             \/ CommitLate(t) \/ Withdraw(t) \/ VerifyRefused(t) \/ RevalidateRefused(t)
    <2>1. \E W : Ends(t, W)
      BY <1>1, <1>5, EndMoves DEF DeriveRefused, ReserveNotDurable, ReserveRefused, FoldClosed,
           CommitLate, Withdraw, VerifyRefused, RevalidateRefused
    <2> QED
      BY <2>1 DEF Ends, Moves
  <1>6. CASE RebindEpoch(t)
    BY <1>1, <1>6, RebindMoves DEF Moves
  <1> QED
    BY <1>2, <1>3, <1>4, <1>5, <1>6 DEF QuietStep

\* Where an own step leads.
LEMMA OwnPlaces ==
  ASSUME Inv, NEW t \in Thread, OwnStep(t)
  PROVE  /\ \A u \in Thread \ {t} : th'[u] = th[u]
         /\ th'[t].pc \in {"idle", "withdraw", "readback", "fetch_local"}
         /\ ~FoldAcknowledged(t) => \E W : Ends(t, W)
  <1>1. TypeOK
    BY DEF Inv
  <1>2. FoldAcknowledged(t) => Moves(t, "readback") \/ Moves(t, "fetch_local")
    BY <1>1, ApplyMoves
  <1>3. ~FoldAcknowledged(t) => \E W : Ends(t, W)
    BY <1>1, EndMoves
       DEF OwnStep, FoldUnregistered, FoldFailed, CommitStale, CommitEvidence, CommitUnverified,
           VerifyStale, VerifyCommit, RevalidateStale, RevalidateNoEvidence, RevalidateCommit
  <1> QED
    BY <1>2, <1>3 DEF Ends, Moves

-----------------------------------------------------------------------------
(* No claim survives the boot it was made under *)

\* What a thread fetched or compared was of the present boot: a restart ends
\* every thread.
CurrentBoot(s) ==
  /\ s.pc = "derive" /\ s.verdict = "current" => s.got.boot = boot
  /\ s.pc \in {"verify", "revalidate"} /\ s.verdict = "current" =>
       attempts[s.att].authority.boot = boot
  /\ s.pc \in {"verify_commit", "revalidate_commit"} => attempts[s.att].authority.boot = boot

\* An envelope that may still be used was derived under the present boot.
EnvelopesOfThisBoot ==
  \A i \in 1 .. Len(envelopes) : ~envelopes[i].revoked => envelopes[i].authority.boot = boot

\* So was an attempt that is open or says that pacing is in force.
ClaimsOfThisBoot ==
  \A a \in AttemptId : attempts[a].state \in PendingStates \cup InForceStates =>
    attempts[a].authority.boot = boot

\* The inductive invariant.
BootInv ==
  /\ \A t \in Thread : CurrentBoot(th[t])
  /\ EnvelopesOfThisBoot
  /\ ClaimsOfThisBoot

\* One thread moves, and what it records or derives is of the present boot.
LEMMA BootFrame ==
  ASSUME Inv, BootInv, boot' = boot, RecordsKept, EnvelopesKept,
         NEW t \in Thread, \A u \in Thread \ {t} : th'[u] = th[u],
         CurrentBoot(th[t])',
         \A i \in 1 .. Len(envelopes)' :
           i \in 1 .. Len(envelopes) \/ envelopes'[i].authority.boot = boot,
         \A a \in AttemptId :
           attempts'[a].state \in PendingStates \cup InForceStates =>
             \/ attempts[a].state \in PendingStates \cup InForceStates
             \/ attempts'[a].authority.boot = boot
  PROVE  BootInv'
  <1>1. ASSUME NEW u \in Thread
        PROVE  CurrentBoot(th[u])'
    <2>1. CASE u = t
      BY <2>1
    <2>2. CASE u # t
      <3>1. th'[u] = th[u] /\ CurrentBoot(th[u])
        BY <2>2 DEF BootInv
      <3>2. ForAttempt(th[u]) => attempts'[th[u].att].authority = attempts[th[u].att].authority
        BY AttemptFacts DEF RecordsKept, PresentAttempts
      <3> QED
        BY <3>1, <3>2 DEF CurrentBoot, ForAttempt
    <2> QED
      BY <2>1, <2>2
  <1>2. EnvelopesOfThisBoot'
    BY DEF BootInv, EnvelopesOfThisBoot, EnvelopesKept
  <1>3. ClaimsOfThisBoot'
    <2>1. \A a \in AttemptId : attempts[a].state \in PendingStates \cup InForceStates => Present(a)
      BY DEF Present, PendingStates, InForceStates
    <2> QED
      BY <2>1 DEF BootInv, ClaimsOfThisBoot, RecordsKept
  <1> QED
    BY <1>1, <1>2, <1>3 DEF BootInv

\* A quiet step moves the thread.  What fetch_authority compared with is the
\* present boot, and the readback starts from such a comparison.
LEMMA QuietBoot ==
  ASSUME Inv, BootInv, NEW t \in Thread, QuietStep(t)
  PROVE  BootInv'
  <1>1. TypeOK /\ UNCHANGED <<attempts, envelopes, epoch, boot>> /\ CurrentBoot(th[t])
    BY QuietKeeps DEF Inv, BootInv
  <1>2. RecordsKept /\ EnvelopesKept
    BY <1>1 DEF RecordsKept, Present, EnvelopesKept, TypeOK
  <1>3. CASE FetchEpoch(t)
    <2>1. /\ FetchMoves(t, th[t].then)
          /\ th[t].then = "derive" => th'[t].got.boot = boot
          /\ th[t].then # "derive" /\ th'[t].verdict = "current" => Held(t).boot = boot
      BY <1>1, <1>3, FetchEpochMoves
    <2>2. /\ th[t].then \notin {"verify_commit", "revalidate_commit"}
          /\ th[t].then \in {"verify", "revalidate"} => Held(t) = attempts[th[t].att].authority
      BY <1>3 DEF Inv, ThreadsOK, ThreadOK, FetchEpoch, At, FetchPCs, Held
    <2>3. CurrentBoot(th[t])'
      BY <1>1, <2>1, <2>2 DEF FetchMoves, Moves, SameWork, CurrentBoot
    <2> QED
      BY <1>1, <1>2, <2>1, <2>3, BootFrame DEF FetchMoves, Moves
  <1>4. CASE FetchRefused(t)
    <2>1. FetchMoves(t, th[t].then) /\ th'[t].verdict = "refused"
      BY <1>1, <1>4, FetchRefusedMoves
    <2>2. th[t].then \notin {"verify_commit", "revalidate_commit"}
      BY <1>4 DEF Inv, ThreadsOK, ThreadOK, FetchRefused, FetchPCs
    <2>3. CurrentBoot(th[t])'
      BY <2>1, <2>2 DEF FetchMoves, Moves, CurrentBoot
    <2> QED
      BY <1>1, <1>2, <2>1, <2>3, BootFrame DEF FetchMoves, Moves
  <1>5. CASE ~FetchEpoch(t) /\ ~FetchRefused(t)
    <2>1. /\ \A u \in Thread \ {t} : th'[u] = th[u]
          /\ th'[t].pc \notin {"derive", "verify", "revalidate"}
          /\ th'[t].pc \in {"verify_commit", "revalidate_commit"} =>
               /\ th[t].pc \in {"verify", "revalidate"} /\ th[t].verdict = "current"
               /\ SameWork(t)
      BY <1>5, QuietPlaces
    <2>2. CurrentBoot(th[t])'
      BY <1>1, <2>1 DEF CurrentBoot, SameWork
    <2> QED
      BY <1>1, <1>2, <2>1, <2>2, BootFrame
  <1> QED
    BY <1>3, <1>4, <1>5

\* A thread records something about its own attempt: one that was open, or one
\* whose authority was compared with the present boot.
LEMMA OwnBoot ==
  ASSUME Inv, BootInv, NEW t \in Thread, OwnStep(t)
  PROVE  BootInv'
  <1> DEFINE a == th[t].att
  <1>1. TypeOK /\ UNCHANGED <<envelopes, epoch, boot>> /\ CurrentBoot(th[t])
    BY OwnKeeps DEF Inv, BootInv
  <1>2. EnvelopesKept
    BY <1>1 DEF EnvelopesKept, TypeOK
  <1>3. \/ Unmoved
        \/ \E next \in ClosedStates \cup {"RequiresRevalidation"} : Moved({a}, next)
        \/ \E next \in ApplicationStates :
             /\ Moved({a}, next)
             /\ attempts[a].state \in {"Submitted", "Acknowledged"} \/ attempts[a].authority.boot = boot
    <2>1. CASE FoldUnregistered(t) \/ FoldFailed(t) \/ CommitStale(t) \/ VerifyStale(t)
               \/ RevalidateStale(t) \/ RevalidateNoEvidence(t)
      BY <2>1, OwnMoves, RevalidateMoves DEF ClosedStates
    <2>2. CASE FoldAcknowledged(t) \/ CommitEvidence(t) \/ CommitUnverified(t)
      <3>1. {"Acknowledged", "Stale", "AppliedUnverified"} \subseteq ApplicationStates
            /\ Finalized(th[t].seen) \in ApplicationStates
        BY TerminalStates DEF ApplicationStates, PendingStates
      <3>2. Awaits(t, "Submitted") \/ Awaits(t, "Acknowledged") =>
              attempts[a].state \in {"Submitted", "Acknowledged"}
        BY DEF Awaits
      <3>3. CASE FoldAcknowledged(t)
        BY <3>1, <3>2, <3>3, OwnMoves DEF FoldAcknowledged
      <3>4. CASE CommitEvidence(t)
        BY <3>1, <3>2, <3>4, OwnMoves DEF CommitEvidence
      <3>5. CASE CommitUnverified(t)
        BY <3>1, <3>2, <3>5, OwnMoves
      <3> QED
        BY <2>2, <3>3, <3>4, <3>5
    <2>3. CASE VerifyCommit(t) \/ RevalidateCommit(t)
      <3>1. Moved({a}, Finalized(th[t].seen)) /\ Finalized(th[t].seen) \in ApplicationStates
        BY <2>3, TerminalStates, OwnMoves, RevalidateMoves
      <3>2. attempts[a].authority.boot = boot
        BY <1>1, <2>3 DEF VerifyCommit, RevalidateCommit, At, CurrentBoot
      <3> QED
        BY <3>1, <3>2
    <2> QED
      BY <2>1, <2>2, <2>3 DEF OwnStep
  <1>4. RecordsKept
    <2>1. {"Unknown", "RequiresRevalidation"} \cup ClosedStates \subseteq ApplicationStates
      BY DEF ApplicationStates, PendingStates
    <2> QED
      BY <1>1, <1>3, <2>1, MovedKeeps DEF Unmoved
  <1>5. \A b \in AttemptId :
          attempts'[b].state \in PendingStates \cup InForceStates =>
            \/ attempts[b].state \in PendingStates \cup InForceStates
            \/ attempts'[b].authority.boot = boot
    BY <1>3 DEF Unmoved, Moved, ClosedStates, PendingStates, InForceStates
  <1>6. /\ \A u \in Thread \ {t} : th'[u] = th[u]
        /\ CurrentBoot(th[t])'
    BY OwnPlaces DEF CurrentBoot
  <1> QED
    BY <1>1, <1>2, <1>4, <1>5, <1>6, BootFrame

\* Governance only closes.
LEMMA GovernanceBoot ==
  ASSUME Inv, BootInv, NEW t \in Thread, GovernanceStep(t)
  PROVE  BootInv'
  <1>1. /\ TypeOK /\ boot' = boot
        /\ EnvelopesKept /\ Len(envelopes)' = Len(envelopes)
    BY GovernanceKeeps DEF Inv
  <1>2. PICK S \in SUBSET PresentAttempts, next \in ClosedStates : Moved(S, next)
    BY GovernanceKeeps
  <1>3. RecordsKept
    BY <1>1, <1>2, MovedKeeps DEF ApplicationStates
  <1>4. \A b \in AttemptId :
          attempts'[b].state \in PendingStates \cup InForceStates =>
            attempts[b].state \in PendingStates \cup InForceStates
    BY <1>2 DEF Moved, ClosedStates, PendingStates, InForceStates
  <1>5. Moves(t, "idle") \/ Moves(t, "withdraw") \/ Moves(t, "rebind")
    BY <1>1, GovernanceThreadMoves DEF GovernanceStep, Ends
  <1>6. CurrentBoot(th[t])' /\ \A u \in Thread \ {t} : th'[u] = th[u]
    BY <1>5 DEF Moves, CurrentBoot
  <1> QED
    BY <1>1, <1>3, <1>4, <1>6, BootFrame

\* The reservation and the derivation take the boot over from what was compared
\* and fetched.
LEMMA NewBoot ==
  ASSUME Inv, BootInv, NEW t \in Thread, DeriveCommit(t) \/ Reserve(t)
  PROVE  BootInv'
  <1>1. TypeOK /\ CurrentBoot(th[t]) /\ Len(envelopes) \in Nat
    BY DEF Inv, TypeOK, BootInv
  <1>2. CASE DeriveCommit(t)
    <2>1. /\ UNCHANGED <<attempts, boot>> /\ EnvelopesKept
          /\ Len(envelopes)' = Len(envelopes) + 1
          /\ envelopes'[Len(envelopes) + 1].authority.boot = boot
      BY <1>1, <1>2, DeriveKeeps DEF CurrentBoot, At
    <2>2. Moves(t, "idle")
      BY <1>2, DeriveKeeps DEF Ends
    <2>3. CurrentBoot(th[t])' /\ \A u \in Thread \ {t} : th'[u] = th[u]
      BY <2>2 DEF Moves, CurrentBoot
    <2>4. RecordsKept
      BY <2>1 DEF RecordsKept, Present
    <2> QED
      BY <1>1, <2>1, <2>3, <2>4, BootFrame
  <1>3. CASE Reserve(t)
    <2>1. /\ UNCHANGED <<envelopes, boot>> /\ RecordsKept
          /\ \A a \in AttemptId \ {NextAttempt(t)} : attempts'[a] = attempts[a]
          /\ attempts'[NextAttempt(t)].authority.boot = boot
      BY <1>3, ReserveKeeps DEF BootInv, EnvelopesOfThisBoot
    <2>2. EnvelopesKept
      BY <1>1, <2>1 DEF EnvelopesKept
    <2>3. Moves(t, "backend_apply")
      BY <1>1, <1>3, ApplyMoves
    <2>4. CurrentBoot(th[t])' /\ \A u \in Thread \ {t} : th'[u] = th[u]
      BY <2>3 DEF Moves, CurrentBoot
    <2> QED
      BY <2>1, <2>2, <2>4, BootFrame
  <1> QED
    BY <1>2, <1>3

\* A restart revokes every envelope, ends every thread, and replays no attempt as
\* open or in force.
LEMMA RestartBoot ==
  ASSUME Inv, Restart
  PROVE  BootInv'
  <1>1. th' = [t \in Thread |-> Idle]
    BY DEF Restart
  <1>2. \A t \in Thread : CurrentBoot(th[t])'
    BY <1>1 DEF CurrentBoot, Idle
  <1>3. EnvelopesOfThisBoot'
    BY RestartRevokes DEF EnvelopesOfThisBoot
  <1>4. ASSUME NEW a \in AttemptId
        PROVE  attempts'[a].state \notin PendingStates \cup InForceStates
    BY RestartKeeps DEF ClosedStates, PendingStates, InForceStates
  <1> QED
    BY <1>2, <1>3, <1>4 DEF BootInv, ClaimsOfThisBoot

\* The invariant of the boot holds in every reachable state.
LEMMA BootInvariance == Spec => []BootInv
  <1>1. Init => BootInv
    BY DEF Init, BootInv, CurrentBoot, Idle, EnvelopesOfThisBoot, ClaimsOfThisBoot, NoRecord,
           PendingStates, InForceStates
  <1>2. Inv /\ BootInv /\ [Next]_vars => BootInv'
    <2> SUFFICES ASSUME Inv, BootInv, [Next]_vars
                 PROVE  BootInv'
      OBVIOUS
    <2>1. CASE Next
      <3>1. CASE OutsideStep
        BY <3>1, OutsideKeeps DEF BootInv, CurrentBoot, EnvelopesOfThisBoot, ClaimsOfThisBoot
      <3> QED
        BY <2>1, <3>1, StepKinds, QuietBoot, OwnBoot, GovernanceBoot, NewBoot, RestartBoot
    <2>2. CASE UNCHANGED vars
      BY <2>2 DEF vars, ledger, authority, BootInv, CurrentBoot, EnvelopesOfThisBoot,
                  ClaimsOfThisBoot
    <2> QED
      BY <2>1, <2>2
  <1> QED
    BY <1>1, <1>2, Invariance, PTL DEF Spec

\* No effect of an earlier incarnation is reported as in force again, whichever
\* operation completes late, appends fail or authority moves.
THEOREM NoClaimSurvivesRestart == Spec => []NoClaimAcrossRestart
  <1>1. Inv /\ BootInv => NoClaimAcrossRestart
    <2> SUFFICES ASSUME Inv, BootInv, NEW a \in AttemptId,
                        attempts[a].authority.boot < boot,
                        attempts[a].state \in PendingStates \cup InForceStates
                 PROVE  FALSE
      BY DEF NoClaimAcrossRestart
    <2>1. boot \in Nat /\ attempts[a].authority.boot = boot
      BY DEF Inv, TypeOK, BootInv, ClaimsOfThisBoot
    <2> QED
      BY <2>1
  <1> QED
    BY <1>1, Invariance, BootInvariance, PTL

-----------------------------------------------------------------------------
(* An attempt is in force at one handle *)

\* A step that installs nothing new.
InstallsNothing ==
  \A h \in Handle, a \in AttemptId :
    installed'[h][a] # NoEffect => installed[h][a] # NoEffect

\* Only the call of apply installs anything ...
LEMMA BackendApplyInstalls ==
  ASSUME Inv, NEW t \in Thread, BackendApply(t)
  PROVE  /\ At(t, "backend_apply")
         /\ th[t].h \in Handle /\ th[t].att \in AttemptId
         /\ \A h \in Handle, a \in AttemptId :
              h # th[t].h \/ a # th[t].att => installed'[h][a] = installed[h][a]
  <1>1. /\ th[t].h \in Handle /\ th[t].att \in AttemptId
        /\ installed \in [Handle -> [AttemptId -> Effect]]
    BY ApplyFacts, AttemptFacts DEF Inv, TypeOK, BackendApply, At, Applies
  <1>2. \/ installed' = installed
        \/ \E e : installed' = [installed EXCEPT ![th[t].h][th[t].att] = e]
    BY DEF BackendApply
  <1>3. At(t, "backend_apply")
    BY DEF BackendApply
  <1>4. CASE installed' = installed
    BY <1>1, <1>3, <1>4
  <1>5. ASSUME NEW e, installed' = [installed EXCEPT ![th[t].h][th[t].att] = e]
        PROVE  \A h \in Handle, a \in AttemptId :
                 h # th[t].h \/ a # th[t].att => installed'[h][a] = installed[h][a]
    BY <1>1, <1>5
  <1> QED
    BY <1>1, <1>2, <1>3, <1>4, <1>5

\* ... the other steps of a thread ...
LEMMA ThreadInstallsNothing ==
  ASSUME Inv, NEW t \in Thread, ~BackendApply(t),
         \/ QuietStep(t) \/ OwnStep(t) \/ GovernanceStep(t) \/ DeriveCommit(t) \/ Reserve(t)
  PROVE  InstallsNothing
  <1>1. /\ installed \in [Handle -> [AttemptId -> Effect]]
        /\ th[t].todo \subseteq Handle \X Nat
    BY DEF Inv, TypeOK, ThreadState
  <1>2. UNCHANGED installed => InstallsNothing
    BY DEF InstallsNothing
  <1>3. CASE OwnStep(t) \/ GovernanceStep(t) \/ DeriveCommit(t) \/ Reserve(t)
    BY <1>2, <1>3, OwnKeeps, GovernanceKeeps, DeriveKeeps, ReserveKeeps
  <1>4. CASE Withdraw(t)
    <2>1. PICK w \in th[t].todo : installed' = [installed EXCEPT ![w[1]][w[2]] = NoEffect]
      BY <1>4 DEF Withdraw
    <2> QED
      BY <1>1, <2>1 DEF InstallsNothing
  <1>5. CASE RebindEpoch(t)
    <2>1. PICK w \in th[t].todo :
            installed' = [installed EXCEPT ![w[1]] =
              [a \in AttemptId |-> IF @[a].epoch < th[t].fence THEN NoEffect ELSE @[a]]]
      BY <1>5 DEF RebindEpoch
    <2> QED
      BY <1>1, <2>1 DEF InstallsNothing
  <1>6. CASE QuietStep(t) /\ ~Withdraw(t) /\ ~RebindEpoch(t)
    <2>1. UNCHANGED installed
      BY <1>6 DEF QuietStep, DeriveBegin, ApplyResolve, VerifyBegin, RevalidateBegin, FetchLocal,
           FetchGrant, FetchEpoch, FetchRefused, DeriveRefused, ReserveNotDurable,
           ReserveRefused, FoldClosed, Readback, CommitLate, VerifyRefused, RevalidateRefused
    <2> QED
      BY <1>2, <2>1
  <1> QED
    BY <1>3, <1>4, <1>5, <1>6

\* ... and the environment do not.
LEMMA OutsideInstallsNothing ==
  ASSUME Inv, OutsideStep \/ Restart
  PROVE  InstallsNothing
  <1>1. installed \in [Handle -> [AttemptId -> Effect]]
    BY DEF Inv, TypeOK
  <1>2. UNCHANGED installed => InstallsNothing
    BY DEF InstallsNothing
  <1>3. ASSUME NEW h \in Handle, NEW a \in AttemptId, ShaperDrifts(h, a)
        PROVE  InstallsNothing
    <2>1. PICK rate : installed' = [installed EXCEPT ![h][a].rate = rate]
      BY <1>3 DEF ShaperDrifts
    <2> DEFINE e == [installed[h][a] EXCEPT !.rate = rate]
    <2>2. installed' = [installed EXCEPT ![h] = [installed[h] EXCEPT ![a] = e]]
      BY <2>1
    <2>3. installed[h][a] # NoEffect
      BY <1>3 DEF ShaperDrifts, NoEffect
    <2> HIDE DEF e
    <2> QED
      BY <1>1, <2>2, <2>3 DEF InstallsNothing
  <1>4. CASE \/ \E t \in Thread, e \in EnvelopeId : RevokeNotDurable(t, e)
             \/ \E h \in Handle : RegisterBackend(h)
             \/ \E b \in Backend : UnregisterBackend(b)
             \/ ChangeLocal \/ ChangeGrant \/ Restart
    BY <1>2, <1>4 DEF RevokeNotDurable, RegisterBackend, UnregisterBackend, ChangeLocal,
                      ChangeGrant, Restart
  <1> QED
    BY <1>3, <1>4 DEF OutsideStep

\* A thread works for an attempt from its reservation on, and calls the backend
\* once, first of all.
LEMMA AppliesOn ==
  ASSUME Inv, NEW t \in Thread,
         QuietStep(t) \/ OwnStep(t) \/ GovernanceStep(t) \/ DeriveCommit(t)
  PROVE  /\ \A u \in Thread \ {t} : th'[u] = th[u]
         /\ th'[t].pc # "backend_apply"
         /\ Applies(th[t])' => Applies(th[t]) /\ SameWork(t)
  <1> DEFINE P == /\ \A u \in Thread \ {t} : th'[u] = th[u]
                  /\ th'[t].pc # "backend_apply"
                  /\ Applies(th[t])' => Applies(th[t]) /\ SameWork(t)
  <1>1. TypeOK /\ ThreadOK(th[t], Len(envelopes), PresentAttempts)
    BY DEF Inv, ThreadsOK
  <1>2. (\E W : Ends(t, W)) => P
    BY DEF Ends, Moves, Applies, FetchPCs
  <1>3. CASE \/ DeriveBegin(t)
             \/ \E e \in EnvelopeId, b \in Backend, r \in {0} \cup AttemptId :
                  ApplyResolve(t, e, b, r)
             \/ \E a \in AttemptId : VerifyBegin(t, a) \/ RevalidateBegin(t, a)
    <2>1. Moves(t, "fetch_local") /\ th'[t].then \in {"derive", "reserve", "verify", "revalidate"}
      BY <1>1, <1>3, BeginMoves
    <2> QED
      BY <2>1 DEF Moves, Applies, FetchPCs
  <1>4. CASE FetchLocal(t) \/ FetchGrant(t) \/ FetchEpoch(t) \/ FetchRefused(t)
    <2>1. /\ th[t].pc \in FetchPCs
          /\ \E pc \in {"fetch_grant", "fetch_epoch", th[t].then} : FetchMoves(t, pc)
      BY <1>1, <1>4, FetchLocalMoves, FetchGrantMoves, FetchEpochMoves, FetchRefusedMoves
         DEF FetchLocal, FetchGrant, FetchEpoch, FetchRefused, At, FetchPCs
    <2> QED
      BY <1>1, <2>1 DEF FetchMoves, Moves, Applies, ThreadOK, FetchPCs
  <1>5. CASE BackendApply(t)
    BY <1>1, <1>5, ApplyMoves DEF BackendApply, At, Moves, Applies
  <1>6. CASE Readback(t)
    <2>1. Moves(t, AfterReadback(th[t].then)) /\ SameWork(t) /\ th'[t].then = th[t].then
      BY <1>1, <1>6, ApplyMoves
    <2>2. \/ Applies(th[t])
          \/ AfterReadback(th[t].then) \in {"verify_commit", "revalidate_commit"}
      BY <1>1, <1>6 DEF Readback, At, ThreadOK, Applies, AfterReadback
    <2> QED
      BY <2>1, <2>2 DEF Moves, Applies, FetchPCs, AfterReadback
  <1>7. CASE \/ DeriveRefused(t) \/ ReserveNotDurable(t) \/ ReserveRefused(t) \/ FoldClosed(t)
             \/ CommitLate(t) \/ Withdraw(t) \/ VerifyRefused(t) \/ RevalidateRefused(t)
    BY <1>1, <1>2, <1>7, EndMoves DEF DeriveRefused, ReserveNotDurable, ReserveRefused,
       FoldClosed, CommitLate, Withdraw, VerifyRefused, RevalidateRefused
  <1>8. CASE RebindEpoch(t)
    BY <1>1, <1>8, RebindMoves DEF Moves, Applies, FetchPCs
  <1>9. CASE FoldAcknowledged(t)
    BY <1>1, <1>9, ApplyMoves DEF FoldAcknowledged, At, Moves, Applies
  <1>10. CASE OwnStep(t) /\ ~FoldAcknowledged(t)
    BY <1>1, <1>2, <1>10, EndMoves
       DEF OwnStep, FoldUnregistered, FoldFailed, CommitStale, CommitEvidence, CommitUnverified,
           VerifyStale, VerifyCommit, RevalidateStale, RevalidateNoEvidence, RevalidateCommit
  <1>11. CASE GovernanceStep(t) /\ ~AdvanceEpoch(t)
    BY <1>1, <1>2, <1>11, GovernanceThreadMoves DEF GovernanceStep
  <1>12. CASE AdvanceEpoch(t)
    BY <1>1, <1>2, <1>12, GovernanceThreadMoves DEF Moves, Applies, FetchPCs
  <1>13. CASE DeriveCommit(t)
    BY <1>2, <1>13, DeriveKeeps
  <1> QED
    BY <1>3, <1>4, <1>5, <1>6, <1>7, <1>8, <1>9, <1>10, <1>11, <1>12, <1>13 DEF QuietStep

\* Two threads never work for one attempt.
OneApplier ==
  \A t, u \in Thread : Applies(th[t]) /\ Applies(th[u]) /\ th[t].att = th[u].att => t = u

\* Before the call of apply nothing is installed for the attempt.
NotYetInstalled ==
  \A t \in Thread : At(t, "backend_apply") =>
    \A h \in Handle : installed[h][th[t].att] = NoEffect

\* The inductive invariant.
HandleInv == OneApplier /\ NotYetInstalled /\ OneHandlePerAttempt

\* A step that neither reserves nor installs.
LEMMA HandleFrame ==
  ASSUME Inv, HandleInv, InstallsNothing,
         NEW t \in Thread, \A u \in Thread \ {t} : th'[u] = th[u],
         th'[t].pc # "backend_apply",
         Applies(th[t])' => Applies(th[t]) /\ SameWork(t)
  PROVE  HandleInv'
  <1>1. OneApplier'
    <2> SUFFICES ASSUME NEW u \in Thread, NEW v \in Thread, Applies(th[u])', Applies(th[v])',
                        th'[u].att = th'[v].att
                 PROVE  u = v
      BY DEF OneApplier
    <2>1. \A x \in {u, v} : Applies(th[x]) /\ th'[x].att = th[x].att
      BY DEF SameWork, Applies
    <2> QED
      BY <2>1 DEF HandleInv, OneApplier
  <1>2. NotYetInstalled'
    <2> SUFFICES ASSUME NEW u \in Thread, th'[u].pc = "backend_apply", NEW h \in Handle
                 PROVE  installed'[h][th'[u].att] = NoEffect
      BY DEF NotYetInstalled, At
    <2>1. u # t /\ th'[u] = th[u] /\ Applies(th[u])
      BY DEF Applies
    <2>2. th[u].att \in AttemptId
      BY <2>1, AttemptFacts DEF ForAttempt
    <2> QED
      BY <2>1, <2>2 DEF HandleInv, NotYetInstalled, At, InstallsNothing
  <1>3. OneHandlePerAttempt'
    BY DEF HandleInv, OneHandlePerAttempt, InstallsNothing
  <1> QED
    BY <1>1, <1>2, <1>3 DEF HandleInv

\* The reservation begins the work for an attempt that is new, so no other thread
\* works for it and no handle has it.
LEMMA ReserveHandle ==
  ASSUME Inv, HandleInv, NEW t \in Thread, Reserve(t)
  PROVE  HandleInv'
  <1> DEFINE a == NextAttempt(t)
  <1>1. a \in AttemptId /\ ~Present(a) /\ UNCHANGED installed
    BY ReserveKeeps
  <1>2. Moves(t, "backend_apply") /\ th'[t].att = a
    BY ApplyMoves DEF Inv
  <1>3. \A u \in Thread \ {t} : Applies(th[u]) => th[u].att # a
    BY <1>1, AttemptFacts DEF ForAttempt, PresentAttempts
  <1>4. \A h \in Handle : installed[h][a] = NoEffect
    BY <1>1 DEF Inv, EveryEffectHasARecord
  <1> HIDE DEF a
  <1>5. OneApplier'
    BY <1>2, <1>3 DEF HandleInv, OneApplier, Moves, Applies
  <1>6. NotYetInstalled'
    BY <1>1, <1>2, <1>4 DEF HandleInv, NotYetInstalled, Moves, At
  <1>7. OneHandlePerAttempt'
    BY <1>1 DEF HandleInv, OneHandlePerAttempt
  <1> QED
    BY <1>5, <1>6, <1>7 DEF HandleInv

\* The call of apply is the first for its attempt, and no other will be made.
LEMMA BackendApplyHandle ==
  ASSUME Inv, HandleInv, NEW t \in Thread, BackendApply(t)
  PROVE  HandleInv'
  <1> DEFINE a == th[t].att
  <1>1. /\ At(t, "backend_apply") /\ th[t].h \in Handle /\ a \in AttemptId
        /\ \A k \in Handle, b \in AttemptId :
             k # th[t].h \/ b # a => installed'[k][b] = installed[k][b]
    BY BackendApplyInstalls
  <1>2. Moves(t, "fold") /\ SameWork(t) /\ Applies(th[t])
    BY <1>1, ApplyMoves DEF Inv, Applies, At
  <1>3. OneApplier'
    BY <1>2 DEF HandleInv, OneApplier, Moves, Applies, SameWork
  <1>4. NotYetInstalled'
    <2> SUFFICES ASSUME NEW u \in Thread, th'[u].pc = "backend_apply", NEW h \in Handle
                 PROVE  installed'[h][th'[u].att] = NoEffect
      BY DEF NotYetInstalled, At
    <2>1. u # t /\ th'[u] = th[u] /\ Applies(th[u])
      BY <1>2 DEF Moves, Applies
    <2>2. th[u].att \in AttemptId /\ th[u].att # a
      BY <1>2, <2>1, AttemptFacts DEF ForAttempt, HandleInv, OneApplier
    <2> QED
      BY <1>1, <2>1, <2>2 DEF HandleInv, NotYetInstalled, At
  <1>5. OneHandlePerAttempt'
    <2>1. \A k \in Handle : installed[k][a] = NoEffect
      BY <1>1 DEF HandleInv, NotYetInstalled
    <2> HIDE DEF a
    <2> QED
      BY <1>1, <2>1 DEF HandleInv, OneHandlePerAttempt
  <1> QED
    BY <1>3, <1>4, <1>5 DEF HandleInv

\* The invariant of the handles holds in every reachable state.
LEMMA HandleInvariance == Spec => []HandleInv
  <1>1. Init => HandleInv
    BY DEF Init, HandleInv, OneApplier, NotYetInstalled, OneHandlePerAttempt, At, Applies,
           FetchPCs, Idle
  <1>2. Inv /\ HandleInv /\ [Next]_vars => HandleInv'
    <2> SUFFICES ASSUME Inv, HandleInv, [Next]_vars
                 PROVE  HandleInv'
      OBVIOUS
    <2>1. CASE \E t \in Thread : /\ \/ QuietStep(t) \/ OwnStep(t) \/ GovernanceStep(t)
                                    \/ DeriveCommit(t)
                                 /\ ~BackendApply(t)
      BY <2>1, ThreadInstallsNothing, AppliesOn, HandleFrame
    <2>2. CASE \E t \in Thread : BackendApply(t) \/ Reserve(t)
      BY <2>2, BackendApplyHandle, ReserveHandle
    <2>3. CASE OutsideStep
      <3>1. UNCHANGED th /\ InstallsNothing
        BY <2>3, OutsideKeeps, OutsideInstallsNothing
      <3>2. OneHandlePerAttempt'
        BY <3>1 DEF HandleInv, OneHandlePerAttempt, InstallsNothing
      <3>3. NotYetInstalled'
        <4> SUFFICES ASSUME NEW u \in Thread, At(u, "backend_apply"), NEW h \in Handle
                     PROVE  installed'[h][th[u].att] = NoEffect
          BY <3>1 DEF NotYetInstalled, At
        <4>1. th[u].att \in AttemptId
          BY AttemptFacts DEF At, ForAttempt, Applies
        <4> QED
          BY <3>1, <4>1 DEF HandleInv, NotYetInstalled, InstallsNothing
      <3> QED
        BY <3>1, <3>2, <3>3 DEF HandleInv, OneApplier, Applies
    <2>4. CASE Restart
      <3>1. th' = [t \in Thread |-> Idle] /\ UNCHANGED installed
        BY <2>4 DEF Restart
      <3> QED
        BY <3>1 DEF HandleInv, OneApplier, NotYetInstalled, OneHandlePerAttempt, At, Applies,
                    FetchPCs, Idle
    <2>5. CASE UNCHANGED vars
      BY <2>5 DEF vars, HandleInv, OneApplier, NotYetInstalled, OneHandlePerAttempt, At, Applies
    <2> QED
      BY <2>1, <2>2, <2>3, <2>4, <2>5, StepKinds
  <1> QED
    BY <1>1, <1>2, Invariance, PTL DEF Spec

\* An attempt is never in force at two handles, whatever is registered in place
\* of what, by any number of threads and whichever of them is fenced or restarted.
THEOREM OneHandle == Spec => []OneHandlePerAttempt
  <1>1. HandleInv => OneHandlePerAttempt
    BY DEF HandleInv
  <1> QED
    BY <1>1, HandleInvariance, PTL

-----------------------------------------------------------------------------
(* A coordinator that nobody asks to verify or to revalidate *)

\* verify_attempt and revalidate record what they find without another look at the
\* state of the attempt or the epoch, so what follows is false with them: that is
\* the divergence that the run verify_after_cancel shows.
NoRecheck == Operations \cap {"verify", "revalidate"} = {}

\* No thread is in one of the two.
Rechecks(s) ==
  \/ s.pc \in {"verify", "revalidate", "verify_commit", "revalidate_commit"}
  \/ s.pc \in FetchPCs /\ s.then \in {"verify", "revalidate"}
NobodyRechecks == \A t \in Thread : ~Rechecks(th[t])

\* A step neither begins one nor leads to one.
LEMMA NoRecheckStep ==
  ASSUME NoRecheck, Inv, NobodyRechecks, [Next]_vars
  PROVE  NobodyRechecks'
  <1>1. TypeOK
    BY DEF Inv
  <1>2. ASSUME NEW t \in Thread,
               \/ QuietStep(t) \/ OwnStep(t) \/ GovernanceStep(t) \/ DeriveCommit(t) \/ Reserve(t)
        PROVE  /\ \A u \in Thread \ {t} : th'[u] = th[u]
               /\ ~Rechecks(th[t])'
    <2> DEFINE P == /\ \A u \in Thread \ {t} : th'[u] = th[u]
                    /\ ~Rechecks(th[t])'
    <2>0. /\ ThreadOK(th[t], Len(envelopes), PresentAttempts) /\ ~Rechecks(th[t])
          /\ (\E W : Ends(t, W)) => P
      BY DEF Inv, ThreadsOK, NobodyRechecks, Ends, Moves, Rechecks, FetchPCs
    <2>1. CASE DeriveBegin(t) \/ \E e \in EnvelopeId, b \in Backend, r \in {0} \cup AttemptId :
                                   ApplyResolve(t, e, b, r)
      <3>1. Moves(t, "fetch_local") /\ th'[t].then \in {"derive", "reserve"}
        BY <1>1, <2>1, BeginMoves
      <3> QED
        BY <3>1 DEF Moves, Rechecks, FetchPCs
    <2>2. ~\E a \in AttemptId : VerifyBegin(t, a) \/ RevalidateBegin(t, a)
      BY DEF NoRecheck, VerifyBegin, RevalidateBegin, Calls
    <2>3. CASE FetchLocal(t) \/ FetchGrant(t) \/ FetchEpoch(t) \/ FetchRefused(t)
      <3>1. /\ th[t].pc \in FetchPCs
            /\ \E pc \in {"fetch_grant", "fetch_epoch", th[t].then} : FetchMoves(t, pc)
        BY <1>1, <2>3, FetchLocalMoves, FetchGrantMoves, FetchEpochMoves, FetchRefusedMoves
           DEF FetchLocal, FetchGrant, FetchEpoch, FetchRefused, At, FetchPCs
      <3> QED
        BY <2>0, <3>1 DEF FetchMoves, Moves, Rechecks, ThreadOK, FetchPCs
    <2>4. CASE BackendApply(t) \/ FoldAcknowledged(t) \/ Reserve(t)
      BY <1>1, <2>4, ApplyMoves DEF Moves, Rechecks, FetchPCs
    <2>5. CASE Readback(t)
      <3>1. Moves(t, AfterReadback(th[t].then)) /\ th'[t].then = th[t].then
        BY <1>1, <2>5, ApplyMoves
      <3>2. th[t].then = "commit"
        BY <2>0, <2>5 DEF Readback, At, ThreadOK, Rechecks
      <3> QED
        BY <3>1, <3>2 DEF Moves, Rechecks, FetchPCs, AfterReadback
    <2>6. CASE \/ DeriveRefused(t) \/ ReserveNotDurable(t) \/ ReserveRefused(t) \/ FoldClosed(t)
               \/ CommitLate(t) \/ Withdraw(t) \/ VerifyRefused(t) \/ RevalidateRefused(t)
      BY <1>1, <2>0, <2>6, EndMoves DEF DeriveRefused, ReserveNotDurable, ReserveRefused,
         FoldClosed, CommitLate, Withdraw, VerifyRefused, RevalidateRefused
    <2>7. CASE RebindEpoch(t)
      BY <1>1, <2>7, RebindMoves DEF Moves, Rechecks, FetchPCs
    <2>8. CASE OwnStep(t) /\ ~FoldAcknowledged(t)
      BY <1>1, <2>0, <2>8, EndMoves
         DEF OwnStep, FoldUnregistered, FoldFailed, CommitStale, CommitEvidence,
             CommitUnverified, VerifyStale, VerifyCommit, RevalidateStale,
             RevalidateNoEvidence, RevalidateCommit
    <2>9. CASE GovernanceStep(t) /\ ~AdvanceEpoch(t)
      BY <1>1, <2>0, <2>9, GovernanceThreadMoves DEF GovernanceStep
    <2>10. CASE AdvanceEpoch(t)
      BY <1>1, <2>0, <2>10, GovernanceThreadMoves DEF Moves, Rechecks, FetchPCs
    <2>11. CASE DeriveCommit(t)
      BY <2>0, <2>11, DeriveKeeps
    <2> QED
      BY <1>2, <2>1, <2>2, <2>3, <2>4, <2>5, <2>6, <2>7, <2>8, <2>9, <2>10, <2>11 DEF QuietStep
  <1>3. CASE \E t \in Thread : \/ QuietStep(t) \/ OwnStep(t) \/ GovernanceStep(t)
                               \/ DeriveCommit(t) \/ Reserve(t)
    BY <1>2, <1>3 DEF NobodyRechecks, Rechecks
  <1>4. CASE OutsideStep
    BY <1>4, OutsideKeeps DEF NobodyRechecks, Rechecks
  <1>5. CASE Restart
    BY <1>5 DEF Restart, NobodyRechecks, Rechecks, FetchPCs, Idle
  <1>6. CASE UNCHANGED vars
    BY <1>6 DEF vars, NobodyRechecks, Rechecks
  <1> QED
    BY <1>3, <1>4, <1>5, <1>6, StepKinds

\* What is left of the own steps records an outcome of an attempt that is open.
LEMMA OutcomeOfOpen ==
  ASSUME Inv, NobodyRechecks, NEW t \in Thread, OwnStep(t)
  PROVE  /\ Applies(th[t]) /\ th[t].att \in PresentAttempts
         /\ \/ Unmoved
            \/ \E next \in {"Failed", "Acknowledged"} :
                 /\ th[t].pc = "fold" /\ Awaits(t, "Submitted")
                 /\ Moved({th[t].att}, next)
                 /\ next = "Failed" \/ FoldAcknowledged(t)
            \/ \E next \in {"Stale"} \cup InForceStates :
                 /\ th[t].pc \in {"commit", "commit_unverified"} /\ Awaits(t, "Acknowledged")
                 /\ Moved({th[t].att}, next)
  <1>1. Applies(th[t])
    BY DEF OwnStep, FoldUnregistered, FoldFailed, FoldAcknowledged, CommitStale, CommitEvidence,
           CommitUnverified, VerifyStale, VerifyCommit, RevalidateStale, RevalidateNoEvidence,
           RevalidateCommit, NobodyRechecks, Rechecks, Applies, At
  <1>2. th[t].att \in PresentAttempts
    BY <1>1, AttemptFacts DEF ForAttempt
  <1>3. CASE FoldUnregistered(t) \/ FoldFailed(t)
    BY <1>1, <1>2, <1>3, OwnMoves DEF FoldUnregistered, FoldFailed, At
  <1>4. CASE FoldAcknowledged(t)
    BY <1>1, <1>2, <1>4, OwnMoves DEF FoldAcknowledged, At
  <1>5. CASE CommitStale(t)
    BY <1>1, <1>2, <1>5, OwnMoves DEF CommitStale, At
  <1>6. CASE CommitEvidence(t)
    <2>1. Finalized(th[t].seen) \in InForceStates
      BY DEF Finalized, InForceStates
    <2> QED
      BY <1>1, <1>2, <1>6, <2>1, OwnMoves DEF CommitEvidence, At
  <1>7. CASE CommitUnverified(t)
    <2>1. "AppliedUnverified" \in InForceStates
      BY DEF InForceStates
    <2>2. th[t].pc = "commit_unverified"
      BY <1>7 DEF CommitUnverified, At
    <2> QED
      BY <1>1, <1>2, <1>7, <2>1, <2>2, OwnMoves
  <1>8. ~(\/ VerifyStale(t) \/ VerifyCommit(t)
          \/ RevalidateStale(t) \/ RevalidateNoEvidence(t) \/ RevalidateCommit(t))
    BY DEF VerifyStale, VerifyCommit, RevalidateStale, RevalidateNoEvidence, RevalidateCommit,
           NobodyRechecks, Rechecks, At
  <1> QED
    BY <1>3, <1>4, <1>5, <1>6, <1>7, <1>8 DEF OwnStep

\* That nobody rechecks is an invariant.
LEMMA NoRecheckInvariance ==
  ASSUME NoRecheck
  PROVE  Spec => []NobodyRechecks
  <1>1. Init => NobodyRechecks
    BY DEF Init, NobodyRechecks, Rechecks, Idle, FetchPCs
  <1>2. Inv /\ NobodyRechecks /\ [Next]_vars => NobodyRechecks'
    BY NoRecheckStep
  <1> QED
    BY <1>1, <1>2, Invariance, PTL DEF Spec

\* While the coordinator runs, a closed attempt keeps its state.
LEMMA ClosedStep ==
  ASSUME NoRecheck, Inv, NobodyRechecks, Next, ~Restart, NEW a \in AttemptId, IsClosed(a)
  PROVE  attempts'[a].state = attempts[a].state
  <1>1. CASE \E t \in Thread : OwnStep(t)
    <2>1. PICK t \in Thread : OwnStep(t)
      BY <1>1
    <2>2. /\ th[t].att \in AttemptId
          /\ \/ Unmoved
             \/ /\ attempts[th[t].att].state \in {"Submitted", "Acknowledged"}
                /\ \E next : Moved({th[t].att}, next)
      BY <2>1, OutcomeOfOpen DEF Awaits, PresentAttempts
    <2> QED
      BY <2>2 DEF Unmoved, Moved, IsClosed, ClosedStates
  <1>2. CASE \E t \in Thread : GovernanceStep(t)
    <2>1. PICK S \in SUBSET PresentAttempts, next \in ClosedStates :
            Moved(S, next) /\ \A b \in S : ~IsClosed(b)
      BY <1>2, GovernanceKeeps
    <2> QED
      BY <2>1 DEF Moved
  <1>3. CASE \E t \in Thread : Reserve(t)
    BY <1>3, ReserveKeeps DEF Present, IsClosed, ClosedStates
  <1>4. CASE \E t \in Thread : QuietStep(t) \/ DeriveCommit(t)
    BY <1>4, QuietKeeps, DeriveKeeps
  <1>5. CASE OutsideStep
    BY <1>5, OutsideKeeps
  <1> QED
    BY <1>1, <1>2, <1>3, <1>4, <1>5, StepKinds

\* A closed attempt keeps its closed state whatever completes afterwards, as long
\* as the coordinator is not restarted: what the journal lost is replayed as it
\* was before.
THEOREM ClosedForGood ==
  ASSUME NoRecheck, "restart" \notin Operations
  PROVE  Spec => ClosedStaysClosed
  <1>1. Inv /\ NobodyRechecks /\ [Next]_vars
          => [\A a \in AttemptId : IsClosed(a) => attempts'[a].state = attempts[a].state]_vars
    <2>1. ~Restart
      BY DEF Restart
    <2> QED
      BY <2>1, ClosedStep
  <1> QED
    BY <1>1, Invariance, NoRecheckInvariance, PTL DEF Spec, ClosedStaysClosed

-----------------------------------------------------------------------------
(* The ledger implements the lifecycle of an attempt *)

\* The phase that a state is in.
PhaseOf(state) ==
  CASE state = "Absent" -> "none"
    [] state \in PendingStates -> "open"
    [] state \in InForceStates -> "in_force"
    [] OTHER -> "closed"

\* The phases of the states, before and after a step.
LEMMA PhasesOf ==
  /\ Phase = [a \in AttemptId |-> PhaseOf(attempts[a].state)]
  /\ Phase' = [a \in AttemptId |-> PhaseOf(attempts'[a].state)]
  /\ PhaseOf("Absent") = "none" /\ PhaseOf("RequiresRevalidation") = "closed"
  /\ \A s \in PendingStates : PhaseOf(s) = "open"
  /\ \A s \in InForceStates : PhaseOf(s) = "in_force"
  /\ \A s \in ClosedStates : PhaseOf(s) = "closed"
  /\ \A s \in ApplicationStates : PhaseOf(s) \in {"open", "in_force", "closed"}
  BY DEF Phase, PhaseOf, PendingStates, InForceStates, ClosedStates, ApplicationStates

\* A step that moves the attempts in S to one phase.
LEMMA PhaseMoves ==
  ASSUME NEW S, NEW phase,
         \A a \in AttemptId :
           PhaseOf(attempts'[a].state) = IF a \in S THEN phase ELSE PhaseOf(attempts[a].state)
  PROVE  Phase' = [a \in AttemptId |-> IF a \in S THEN phase ELSE Phase[a]]
  <1>1. Phase' = [a \in AttemptId |-> PhaseOf(attempts'[a].state)]
    BY PhasesOf
  <1>2. \A a \in AttemptId : Phase[a] = PhaseOf(attempts[a].state)
    BY PhasesOf
  <1> QED
    BY <1>1, <1>2

\* Every step of the coordinator is a step of the lifecycle or leaves it alone.
LEMMA LifecycleStep ==
  ASSUME NoRecheck, Inv, NobodyRechecks, [Next]_vars
  PROVE  [Lifecycle!Next]_Phase
  <1>0. /\ TypeOK
        /\ \A a \in AttemptId : Phase[a] = PhaseOf(attempts[a].state)
        /\ \A a \in AttemptId : attempts[a].state \in ApplicationStates \cup {"Absent"}
    BY PhasesOf DEF Inv, TypeOK, Record
  <1>1. (\A a \in AttemptId : PhaseOf(attempts'[a].state) = PhaseOf(attempts[a].state))
          => UNCHANGED Phase
    BY PhasesOf
  <1>2. ASSUME NEW S \in SUBSET AttemptId,
               \A a \in S : PhaseOf(attempts[a].state) \in {"open", "in_force"},
               \A a \in AttemptId :
                 PhaseOf(attempts'[a].state) = IF a \in S THEN "closed"
                                               ELSE PhaseOf(attempts[a].state)
        PROVE  Lifecycle!Next
    <2>1. Phase' = [a \in AttemptId |-> IF a \in S THEN "closed" ELSE Phase[a]]
      BY <1>0, <1>2, PhaseMoves
    <2>2. Lifecycle!Close(S)
      BY <1>0, <1>2, <2>1 DEF Lifecycle!Close
    <2> QED
      BY <2>2 DEF Lifecycle!Next
  <1>3. CASE \E t \in Thread : OwnStep(t)
    <2>1. PICK t \in Thread : OwnStep(t)
      BY <1>3
    <2> DEFINE a == th[t].att
    <2>2. a \in AttemptId
      BY <2>1, OutcomeOfOpen DEF PresentAttempts
    <2>3. CASE Unmoved
      BY <1>1, <2>3 DEF Unmoved, Moved
    <2>4. CASE \E next \in {"Failed", "Acknowledged", "Stale"} :
                 attempts[a].state \in {"Submitted", "Acknowledged"} /\ Moved({a}, next)
      <3>1. PICK next \in {"Failed", "Acknowledged", "Stale"} : Moved({a}, next)
        BY <2>4
      <3>2. PhaseOf(attempts[a].state) = "open"
        BY <2>4, PhasesOf DEF PendingStates
      <3>3. next = "Acknowledged" => PhaseOf(next) = "open"
        BY PhasesOf DEF PendingStates
      <3>4. next # "Acknowledged" => PhaseOf(next) = "closed"
        BY <3>1, PhasesOf DEF ClosedStates
      <3> HIDE DEF a
      <3>5. CASE next = "Acknowledged"
        BY <1>1, <3>1, <3>2, <3>3, <3>5 DEF Moved
      <3>6. CASE next # "Acknowledged"
        <4>1. \A b \in AttemptId : PhaseOf(attempts'[b].state) =
                IF b \in {a} THEN "closed" ELSE PhaseOf(attempts[b].state)
          BY <3>1, <3>4, <3>6 DEF Moved
        <4> QED
          BY <1>2, <2>2, <3>2, <4>1
      <3> QED
        BY <3>5, <3>6
    <2>5. CASE \E next \in InForceStates :
                 attempts[a].state = "Acknowledged" /\ Moved({a}, next)
      <3>1. PICK next \in InForceStates : Moved({a}, next)
        BY <2>5
      <3>2. PhaseOf(attempts[a].state) = "open" /\ PhaseOf(next) = "in_force"
        BY <2>5, PhasesOf DEF PendingStates
      <3> HIDE DEF a
      <3>3. \A b \in AttemptId : PhaseOf(attempts'[b].state) =
              IF b \in {a} THEN "in_force" ELSE PhaseOf(attempts[b].state)
        BY <3>1, <3>2 DEF Moved
      <3>4. Phase' = [Phase EXCEPT ![a] = "in_force"]
        BY <1>0, <2>2, <3>3, PhasesOf
      <3>5. Lifecycle!Settle(a)
        BY <1>0, <2>2, <3>2, <3>4 DEF Lifecycle!Settle
      <3> QED
        BY <2>2, <3>5 DEF Lifecycle!Next
    <2> HIDE DEF a
    <2> QED
      BY <2>1, <2>3, <2>4, <2>5, OutcomeOfOpen DEF Awaits, a
  <1>4. CASE \E t \in Thread : GovernanceStep(t)
    <2>1. PICK S \in SUBSET PresentAttempts, next \in ClosedStates :
            Moved(S, next) /\ \A b \in S : ~IsClosed(b)
      BY <1>4, GovernanceKeeps
    <2> DEFINE C == {a \in S : PhaseOf(attempts[a].state) \in {"open", "in_force"}}
    <2>2. \A a \in S : /\ a \in AttemptId
                       /\ PhaseOf(attempts[a].state) \in {"open", "in_force", "closed"}
      BY <1>0, PhasesOf DEF PresentAttempts, Present
    <2>3. PhaseOf(next) = "closed"
      BY PhasesOf
    <2>4. \A a \in AttemptId : PhaseOf(attempts'[a].state) =
            IF a \in C THEN "closed" ELSE PhaseOf(attempts[a].state)
      BY <2>1, <2>2, <2>3 DEF Moved
    <2>5. C \in SUBSET AttemptId /\ \A a \in C : PhaseOf(attempts[a].state) \in {"open", "in_force"}
      BY <2>2
    <2> HIDE DEF C
    <2> QED
      BY <1>2, <2>4, <2>5
  <1>5. CASE \E t \in Thread : Reserve(t)
    <2>1. PICK t \in Thread : Reserve(t)
      BY <1>5
    <2> DEFINE a == NextAttempt(t)
    <2>2. /\ a \in AttemptId /\ attempts[a].state = "Absent" /\ attempts'[a].state = "Submitted"
          /\ \A b \in AttemptId \ {a} : attempts'[b] = attempts[b]
      BY <2>1, ReserveKeeps DEF Present
    <2> HIDE DEF a
    <2>3. PhaseOf(attempts[a].state) = "none" /\ PhaseOf(attempts'[a].state) = "open"
      BY <2>2, PhasesOf DEF PendingStates
    <2>4. \A b \in AttemptId : PhaseOf(attempts'[b].state) =
              IF b \in {a} THEN "open" ELSE PhaseOf(attempts[b].state)
      BY <2>2, <2>3
    <2>5. Phase' = [Phase EXCEPT ![a] = "open"]
      BY <1>0, <2>2, <2>4, PhasesOf
    <2>6. Lifecycle!Open(a)
      BY <1>0, <2>2, <2>3, <2>5 DEF Lifecycle!Open
    <2> QED
      BY <2>2, <2>6 DEF Lifecycle!Next
  <1>6. CASE (\E t \in Thread : QuietStep(t) \/ DeriveCommit(t)) \/ OutsideStep
    <2>1. UNCHANGED attempts
      BY <1>6, QuietKeeps, DeriveKeeps, OutsideKeeps
    <2> QED
      BY <1>1, <2>1
  <1>7. CASE Restart
    <2> DEFINE C == {a \in AttemptId : PhaseOf(attempts[a].state) \in {"open", "in_force"}}
    <2>1. ASSUME NEW a \in AttemptId
          PROVE  PhaseOf(attempts'[a].state) =
                   IF a \in C THEN "closed" ELSE PhaseOf(attempts[a].state)
      <3>1. /\ Present(a)' <=> Present(a)
            /\ attempts'[a].state \in ClosedStates \cup {"RequiresRevalidation", "Absent"}
        BY <1>7, RestartKeeps DEF RecordsKept
      <3>2. CASE Present(a)
        <4>1. PhaseOf(attempts'[a].state) = "closed"
          BY <3>1, <3>2, PhasesOf DEF Present
        <4>2. PhaseOf(attempts[a].state) \in {"open", "in_force", "closed"}
          BY <1>0, <3>2, PhasesOf DEF Present
        <4> QED
          BY <4>1, <4>2
      <3>3. CASE ~Present(a)
        BY <3>1, <3>3, PhasesOf DEF Present
      <3> QED
        BY <3>2, <3>3
    <2>2. C \in SUBSET AttemptId /\ \A a \in C : PhaseOf(attempts[a].state) \in {"open", "in_force"}
      OBVIOUS
    <2> HIDE DEF C
    <2> QED
      BY <1>2, <2>1, <2>2
  <1>8. CASE UNCHANGED vars
    BY <1>1, <1>8 DEF vars, ledger
  <1> QED
    BY <1>3, <1>4, <1>5, <1>6, <1>7, <1>8, StepKinds

\* The coordinator implements the lifecycle, with restarts and any faults: an
\* attempt is opened once, an outcome is recorded while it is open and for one
\* attempt at a time, and what is closed is closed for good.
THEOREM LifecycleIsImplemented ==
  ASSUME NoRecheck
  PROVE  Spec => ImplementsLifecycle
  <1>1. Init => Lifecycle!Init
    BY PhasesOf DEF Init, Lifecycle!Init, NoRecord
  <1>2. Inv /\ NobodyRechecks /\ [Next]_vars => [Lifecycle!Next]_Phase
    BY LifecycleStep
  <1> QED
    BY <1>1, <1>2, Invariance, NoRecheckInvariance, PTL
       DEF Spec, ImplementsLifecycle, Lifecycle!Spec

-----------------------------------------------------------------------------
(* What is open or in force was made under the present epoch *)

\* A vector that was fetched is not ahead of the epoch.  It may be behind: what
\* counts is that a thread that found its envelope current finds the envelope
\* revoked once the epoch has moved.
CurrentEpoch(s) ==
  /\ s.pc = "derive" /\ s.verdict = "current" => s.got.epoch <= epoch
  /\ s.pc = "reserve" /\ s.verdict = "current" /\ ~envelopes[s.env].revoked =>
       envelopes[s.env].authority.epoch = epoch

\* An envelope that may still be used is not ahead of the epoch.
EnvelopesNotAhead ==
  \A i \in 1 .. Len(envelopes) : ~envelopes[i].revoked => envelopes[i].authority.epoch <= epoch

\* An attempt that is open or says that pacing is in force is of the epoch.
ClaimsOfThisEpoch ==
  \A a \in AttemptId : attempts[a].state \in PendingStates \cup InForceStates =>
    attempts[a].authority.epoch = epoch

\* The inductive invariant.
EpochInv ==
  /\ NobodyRechecks
  /\ \A t \in Thread : CurrentEpoch(th[t])
  /\ EnvelopesNotAhead
  /\ ClaimsOfThisEpoch

\* One thread moves within an epoch.
LEMMA EpochFrame ==
  ASSUME Inv, EpochInv, NobodyRechecks', epoch' = epoch, RecordsKept, EnvelopesKept,
         NEW t \in Thread, \A u \in Thread \ {t} : th'[u] = th[u],
         CurrentEpoch(th[t])',
         \A i \in 1 .. Len(envelopes)' :
           i \in 1 .. Len(envelopes) \/ envelopes'[i].authority.epoch <= epoch,
         \A a \in AttemptId :
           attempts'[a].state \in PendingStates \cup InForceStates =>
             \/ attempts[a].state \in PendingStates \cup InForceStates
             \/ attempts'[a].authority.epoch = epoch
  PROVE  EpochInv'
  <1>1. ASSUME NEW u \in Thread
        PROVE  CurrentEpoch(th[u])'
    <2>1. CASE u = t
      BY <2>1
    <2>2. CASE u # t
      <3>1. th'[u] = th[u] /\ CurrentEpoch(th[u])
        BY <2>2 DEF EpochInv
      <3>2. th[u].pc = "reserve" => th[u].env \in 1 .. Len(envelopes)
        BY DEF Inv, ThreadsOK, ThreadOK, ForEnvelope
      <3> QED
        BY <3>1, <3>2 DEF CurrentEpoch, EnvelopesKept
    <2> QED
      BY <2>1, <2>2
  <1>2. EnvelopesNotAhead'
    BY DEF EpochInv, EnvelopesNotAhead, EnvelopesKept
  <1>3. ClaimsOfThisEpoch'
    <2>1. \A a \in AttemptId : attempts[a].state \in PendingStates \cup InForceStates => Present(a)
      BY DEF Present, PendingStates, InForceStates
    <2> QED
      BY <2>1 DEF EpochInv, ClaimsOfThisEpoch, RecordsKept
  <1> QED
    BY <1>1, <1>2, <1>3 DEF EpochInv

\* A quiet step: the comparison of an application is with the present epoch.
LEMMA QuietEpoch ==
  ASSUME Inv, EpochInv, NobodyRechecks', NEW t \in Thread, QuietStep(t)
  PROVE  EpochInv'
  <1>1. TypeOK /\ UNCHANGED <<attempts, envelopes, epoch, boot>> /\ CurrentEpoch(th[t])
    BY QuietKeeps DEF Inv, EpochInv
  <1>2. RecordsKept /\ EnvelopesKept
    BY <1>1 DEF RecordsKept, Present, EnvelopesKept, TypeOK
  <1>3. CASE FetchEpoch(t)
    <2>1. /\ FetchMoves(t, th[t].then)
          /\ th[t].then = "derive" => th'[t].got.epoch = epoch
          /\ th[t].then # "derive" /\ th'[t].verdict = "current" => Held(t).epoch = epoch
      BY <1>1, <1>3, FetchEpochMoves
    <2>2. th[t].then = "reserve" => Held(t) = envelopes[th[t].env].authority
      BY DEF Held
    <2>3. CurrentEpoch(th[t])'
      BY <1>1, <2>1, <2>2 DEF FetchMoves, Moves, SameWork, CurrentEpoch, TypeOK
    <2> QED
      BY <1>1, <1>2, <2>1, <2>3, EpochFrame DEF FetchMoves, Moves
  <1>4. CASE FetchRefused(t)
    <2>1. FetchMoves(t, th[t].then) /\ th'[t].verdict = "refused"
      BY <1>1, <1>4, FetchRefusedMoves
    <2>2. CurrentEpoch(th[t])'
      BY <2>1 DEF FetchMoves, Moves, CurrentEpoch
    <2> QED
      BY <1>1, <1>2, <2>1, <2>2, EpochFrame DEF FetchMoves, Moves
  <1>5. CASE ~FetchEpoch(t) /\ ~FetchRefused(t)
    <2>1. /\ \A u \in Thread \ {t} : th'[u] = th[u]
          /\ th'[t].pc \notin {"derive", "reserve"}
      BY <1>5, QuietPlaces
    <2>2. CurrentEpoch(th[t])'
      BY <2>1 DEF CurrentEpoch
    <2> QED
      BY <1>1, <1>2, <2>1, <2>2, EpochFrame
  <1> QED
    BY <1>3, <1>4, <1>5

\* An outcome is recorded of an attempt that is open.
LEMMA OwnEpoch ==
  ASSUME Inv, EpochInv, NobodyRechecks', NEW t \in Thread, OwnStep(t)
  PROVE  EpochInv'
  <1>1. TypeOK /\ UNCHANGED <<envelopes, epoch>>
    BY OwnKeeps DEF Inv
  <1>2. EnvelopesKept
    BY <1>1 DEF EnvelopesKept, TypeOK
  <1>3. \/ Unmoved
        \/ \E next \in ApplicationStates :
             /\ attempts[th[t].att].state \in {"Submitted", "Acknowledged"}
             /\ Moved({th[t].att}, next)
    BY OutcomeOfOpen DEF EpochInv, Awaits, ApplicationStates, PendingStates, ClosedStates
  <1>4. RecordsKept
    <2>1. "Unknown" \in ApplicationStates
      BY DEF ApplicationStates, PendingStates
    <2> QED
      BY <1>1, <1>3, <2>1, MovedKeeps DEF Unmoved
  <1>5. \A b \in AttemptId :
          attempts'[b].state \in PendingStates \cup InForceStates =>
            attempts[b].state \in PendingStates \cup InForceStates
    BY <1>3 DEF Unmoved, Moved, PendingStates
  <1>6. /\ \A u \in Thread \ {t} : th'[u] = th[u]
        /\ CurrentEpoch(th[t])'
    BY OwnPlaces DEF CurrentEpoch
  <1> QED
    BY <1>1, <1>2, <1>4, <1>5, <1>6, EpochFrame

\* Governance closes within an epoch, or moves on and closes all there is.
LEMMA GovernanceEpoch ==
  ASSUME Inv, EpochInv, NobodyRechecks', NEW t \in Thread, GovernanceStep(t)
  PROVE  EpochInv'
  <1>1. TypeOK /\ EnvelopesKept /\ Len(envelopes)' = Len(envelopes)
    BY GovernanceKeeps DEF Inv
  <1>2. PICK S \in SUBSET PresentAttempts, next \in ClosedStates : Moved(S, next)
    BY GovernanceKeeps
  <1>3. RecordsKept
    BY <1>1, <1>2, MovedKeeps DEF ApplicationStates
  <1>4. \A b \in AttemptId :
          attempts'[b].state \in PendingStates \cup InForceStates =>
            attempts[b].state \in PendingStates \cup InForceStates
    BY <1>2 DEF Moved, ClosedStates, PendingStates, InForceStates
  <1>5. /\ \A u \in Thread \ {t} : th'[u] = th[u]
        /\ th'[t].pc \notin {"derive", "reserve"}
    BY <1>1, GovernanceThreadMoves DEF GovernanceStep, Ends, Moves
  <1>6. CASE ~AdvanceEpoch(t)
    <2>1. epoch' = epoch
      BY <1>6 DEF GovernanceStep, CancelAttempt, RevokeEnvelope, FenceBelow, authority
    <2>2. CurrentEpoch(th[t])'
      BY <1>5 DEF CurrentEpoch
    <2> QED
      BY <1>1, <1>3, <1>4, <1>5, <2>1, <2>2, EpochFrame
  <1>7. CASE AdvanceEpoch(t)
    <2>1. /\ epoch \in Nat /\ epoch' = epoch + 1
          /\ envelopes' = RevokedBelow(epoch + 1)
          /\ Moved(OpenBelow(epoch + 1), "Fenced")
      BY <1>1, <1>7, GovernanceMoves DEF TypeOK, AdvanceEpoch
    <2>2. \A i \in 1 .. Len(envelopes) : envelopes'[i].revoked
      <3> SUFFICES ASSUME NEW i \in 1 .. Len(envelopes), ~envelopes[i].revoked
                   PROVE  envelopes[i].authority.epoch < epoch + 1
        BY <1>1, <2>1, RevocationsKeep
      <3>1. envelopes[i].authority.epoch <= epoch /\ envelopes[i] \in Envelope
        BY <1>1 DEF EpochInv, EnvelopesNotAhead, TypeOK
      <3>2. envelopes[i].authority.epoch \in Nat
        BY <3>1 DEF Envelope, AuthorityVector
      <3> QED
        BY <2>1, <3>1, <3>2
    <2>3. EnvelopesNotAhead'
      BY <1>1, <2>2 DEF EnvelopesNotAhead
    <2>4. ClaimsOfThisEpoch'
      <3> SUFFICES ASSUME NEW a \in AttemptId,
                          attempts'[a].state \in PendingStates \cup InForceStates
                   PROVE  FALSE
        BY DEF ClaimsOfThisEpoch
      <3>1. attempts[a].state \in PendingStates \cup InForceStates
        BY <1>4
      <3>2. attempts[a].authority.epoch = epoch
        BY <3>1 DEF EpochInv, ClaimsOfThisEpoch
      <3>3. a \in OpenBelow(epoch + 1)
        BY <2>1, <3>1, <3>2 DEF OpenBelow, Present, IsClosed, PendingStates, InForceStates,
                                ClosedStates
      <3>4. attempts'[a].state = "Fenced"
        BY <2>1, <3>3 DEF Moved
      <3> QED
        BY <3>4 DEF PendingStates, InForceStates
    <2>5. ASSUME NEW u \in Thread
          PROVE  CurrentEpoch(th[u])'
      <3>1. CASE u = t
        BY <1>5, <3>1 DEF CurrentEpoch
      <3>2. CASE u # t
        <4>1. th'[u] = th[u] /\ CurrentEpoch(th[u])
          BY <1>5, <3>2 DEF EpochInv
        <4>2. th[u].pc = "reserve" => envelopes'[th[u].env].revoked
          BY <2>2 DEF Inv, ThreadsOK, ThreadOK, ForEnvelope
        <4>3. th[u].got.epoch \in Nat
          BY <1>1 DEF TypeOK, ThreadState, AuthorityVector
        <4> QED
          BY <2>1, <4>1, <4>2, <4>3 DEF CurrentEpoch
      <3> QED
        BY <3>1, <3>2
    <2> QED
      BY <2>3, <2>4, <2>5 DEF EpochInv
  <1> QED
    BY <1>6, <1>7

\* The derivation takes over an epoch that is not ahead, the reservation one that
\* is the present one: otherwise its envelope would be revoked.
LEMMA NewEpoch ==
  ASSUME Inv, EpochInv, NobodyRechecks', NEW t \in Thread, DeriveCommit(t) \/ Reserve(t)
  PROVE  EpochInv'
  <1>1. TypeOK /\ CurrentEpoch(th[t]) /\ Len(envelopes) \in Nat
    BY DEF Inv, TypeOK, EpochInv
  <1>2. CASE DeriveCommit(t)
    <2>1. /\ UNCHANGED <<attempts, epoch>> /\ EnvelopesKept
          /\ Len(envelopes)' = Len(envelopes) + 1
          /\ envelopes'[Len(envelopes) + 1].authority.epoch <= epoch
      BY <1>1, <1>2, DeriveKeeps DEF CurrentEpoch, At
    <2>2. Moves(t, "idle")
      BY <1>2, DeriveKeeps DEF Ends
    <2>3. CurrentEpoch(th[t])' /\ \A u \in Thread \ {t} : th'[u] = th[u]
      BY <2>2 DEF Moves, CurrentEpoch
    <2>4. RecordsKept
      BY <2>1 DEF RecordsKept, Present
    <2> QED
      BY <1>1, <2>1, <2>3, <2>4, EpochFrame
  <1>3. CASE Reserve(t)
    <2>1. /\ UNCHANGED <<envelopes, epoch>> /\ RecordsKept
          /\ \A a \in AttemptId \ {NextAttempt(t)} : attempts'[a] = attempts[a]
          /\ attempts'[NextAttempt(t)].authority.epoch = epoch
      BY <1>1, <1>3, ReserveKeeps DEF CurrentEpoch, At
    <2>2. EnvelopesKept
      BY <1>1, <2>1 DEF EnvelopesKept
    <2>3. Moves(t, "backend_apply")
      BY <1>1, <1>3, ApplyMoves
    <2>4. CurrentEpoch(th[t])' /\ \A u \in Thread \ {t} : th'[u] = th[u]
      BY <2>3 DEF Moves, CurrentEpoch
    <2> QED
      BY <2>1, <2>2, <2>4, EpochFrame
  <1> QED
    BY <1>2, <1>3

\* A restart leaves nothing to be of an epoch: the epoch it takes may even be one
\* that was used before, when the append of an advance failed.
LEMMA RestartEpoch ==
  ASSUME Inv, NobodyRechecks', Restart
  PROVE  EpochInv'
  <1>1. th' = [t \in Thread |-> Idle]
    BY DEF Restart
  <1>2. \A t \in Thread : CurrentEpoch(th[t])'
    BY <1>1 DEF CurrentEpoch, Idle
  <1>3. EnvelopesNotAhead'
    BY RestartRevokes DEF EnvelopesNotAhead
  <1>4. ClaimsOfThisEpoch'
    BY RestartKeeps DEF ClaimsOfThisEpoch, ClosedStates, PendingStates, InForceStates
  <1> QED
    BY <1>2, <1>3, <1>4 DEF EpochInv

\* The invariant of the epoch holds in every reachable state.
LEMMA EpochInvariance ==
  ASSUME NoRecheck
  PROVE  Spec => []EpochInv
  <1>1. Init => EpochInv
    BY DEF Init, EpochInv, NobodyRechecks, Rechecks, FetchPCs, CurrentEpoch, Idle,
           EnvelopesNotAhead, ClaimsOfThisEpoch, NoRecord, PendingStates, InForceStates
  <1>2. Inv /\ EpochInv /\ [Next]_vars => EpochInv'
    <2> SUFFICES ASSUME Inv, EpochInv, [Next]_vars
                 PROVE  EpochInv'
      OBVIOUS
    <2>1. NobodyRechecks'
      BY NoRecheckStep DEF EpochInv
    <2>2. CASE OutsideStep
      BY <2>1, <2>2, OutsideKeeps DEF EpochInv, CurrentEpoch, EnvelopesNotAhead,
                                      ClaimsOfThisEpoch
    <2>3. CASE UNCHANGED vars
      BY <2>1, <2>3 DEF vars, ledger, authority, EpochInv, CurrentEpoch, EnvelopesNotAhead,
                        ClaimsOfThisEpoch
    <2> QED
      BY <2>1, <2>2, <2>3, StepKinds, QuietEpoch, OwnEpoch, GovernanceEpoch, NewEpoch,
         RestartEpoch
  <1> QED
    BY <1>1, <1>2, Invariance, PTL DEF Spec

\* What is open or in force was made under the present epoch and boot, although
\* the epoch is read long before the commit and no lock is held in between.
THEOREM OpenIsCurrent ==
  ASSUME NoRecheck
  PROVE  Spec => []OpenAtCurrentEpoch
  <1>1. BootInv /\ EpochInv => OpenAtCurrentEpoch
    BY DEF BootInv, ClaimsOfThisBoot, EpochInv, ClaimsOfThisEpoch, OpenAtCurrentEpoch
  <1> QED
    BY <1>1, BootInvariance, EpochInvariance, PTL

-----------------------------------------------------------------------------
(* What each step does to the effects *)

\* revoke removes one effect, and the thread goes on with the rest.
LEMMA WithdrawMoves ==
  ASSUME Inv, NEW t \in Thread, Withdraw(t)
  PROVE  \E w \in th[t].todo :
           /\ Ends(t, th[t].todo \ {w})
           /\ \A h \in Handle, a \in AttemptId :
                installed'[h][a] = IF h = w[1] /\ a = w[2] THEN NoEffect ELSE installed[h][a]
  <1>1. /\ TypeOK
        /\ installed \in [Handle -> [AttemptId -> Effect]] /\ th[t].todo \subseteq Handle \X Nat
    BY DEF Inv, TypeOK, ThreadState
  <1>2. PICK w \in th[t].todo : /\ installed' = [installed EXCEPT ![w[1]][w[2]] = NoEffect]
                                /\ ThenWithdraw(t, th[t].todo \ {w})
    BY DEF Withdraw
  <1>3. \A h \in Handle, a \in AttemptId :
          installed'[h][a] = IF h = w[1] /\ a = w[2] THEN NoEffect ELSE installed[h][a]
    BY <1>1, <1>2
  <1> QED
    BY <1>1, <1>2, <1>3, EndMoves

\* rebind_epoch removes what one handle has from before the fence.
LEMMA RebindEffects ==
  ASSUME Inv, NEW t \in Thread, RebindEpoch(t)
  PROVE  \E w \in th[t].todo :
           /\ \/ th[t].todo = {w} /\ Ends(t, {})
              \/ /\ Moves(t, "rebind") /\ th'[t].fence = th[t].fence
                 /\ th'[t].todo = th[t].todo \ {w}
           /\ \A h \in Handle, a \in AttemptId :
                installed'[h][a] = IF h = w[1] /\ installed[h][a].epoch < th[t].fence
                                   THEN NoEffect ELSE installed[h][a]
  <1>1. /\ TypeOK /\ th[t] \in ThreadState
        /\ installed \in [Handle -> [AttemptId -> Effect]] /\ th[t].todo \subseteq Handle \X Nat
    BY DEF Inv, TypeOK, ThreadState
  <1> DEFINE s(w) == [th[t] EXCEPT !.todo = @ \ {w}]
             E(w) == [a \in AttemptId |-> IF installed[w[1]][a].epoch < th[t].fence THEN NoEffect
                                          ELSE installed[w[1]][a]]
  <1>2. PICK w \in th[t].todo : /\ installed' = [installed EXCEPT ![w[1]] = E(w)]
                                /\ Become(t, IF th[t].todo = {w} THEN Idle ELSE s(w))
    BY DEF RebindEpoch
  <1>3. w[1] \in Handle
    BY <1>1
  <1>4. \A h \in Handle, a \in AttemptId :
          installed'[h][a] = IF h = w[1] /\ installed[h][a].epoch < th[t].fence
                             THEN NoEffect ELSE installed[h][a]
    BY <1>1, <1>2, <1>3
  <1>5. th[t].pc = "rebind"
    BY DEF RebindEpoch, At
  <1>6. s(w).pc = "rebind" /\ s(w).fence = th[t].fence /\ s(w).todo = th[t].todo \ {w}
    BY <1>1, <1>5 DEF ThreadState
  <1> HIDE DEF s, E
  <1>7. CASE th[t].todo = {w}
    BY <1>1, <1>2, <1>4, <1>7, EndMoves DEF Return
  <1>8. CASE th[t].todo # {w}
    BY <1>1, <1>2, <1>4, <1>6, <1>8, BecomeMoves
  <1> QED
    BY <1>7, <1>8

\* apply installs one effect, under the epoch of its attempt, or is refused and
\* installs none.
LEMMA BackendApplyEffects ==
  ASSUME Inv, NEW t \in Thread, BackendApply(t)
  PROVE  /\ installed'[th[t].h][th[t].att].epoch = attempts[th[t].att].authority.epoch
            \/ installed' = installed
         /\ th'[t].seen \in {"accept", "reject", "misidentify"}
         /\ th'[t].seen = "reject" => installed' = installed
         /\ th'[t].seen = "misidentify" => "misidentify" \in Faults
  <1> DEFINE e(rate) == [rate |-> rate, epoch |-> attempts[th[t].att].authority.epoch]
             s(x) == [th[t] EXCEPT !.pc = "fold", !.seen = x]
  <1>1. /\ th[t].h \in Handle /\ th[t].att \in AttemptId /\ th[t] \in ThreadState /\ TypeOK
        /\ installed \in [Handle -> [AttemptId -> Effect]]
    BY ApplyFacts, AttemptFacts DEF Inv, TypeOK, BackendApply, At, Applies
  <1>2. /\ \A x : s(x).seen = x
        /\ \A rate : e(rate).epoch = attempts[th[t].att].authority.epoch
    BY <1>1 DEF ThreadState
  <1>3. \E x \in {"accept", "reject", "misidentify"} :
          /\ Become(t, s(x))
          /\ IF x = "reject" THEN installed' = installed
             ELSE \E rate : installed' = [installed EXCEPT ![th[t].h][th[t].att] = e(rate)]
          /\ x = "misidentify" => "misidentify" \in Faults
    BY DEF BackendApply
  <1> HIDE DEF e, s
  <1>4. PICK x \in {"accept", "reject", "misidentify"} :
          /\ Become(t, s(x))
          /\ IF x = "reject" THEN installed' = installed
             ELSE \E rate : installed' = [installed EXCEPT ![th[t].h][th[t].att] = e(rate)]
          /\ x = "misidentify" => "misidentify" \in Faults
    BY <1>3
  <1>5. th'[t].seen = x
    BY <1>1, <1>2, <1>4, BecomeMoves
  <1>6. CASE x = "reject"
    BY <1>4, <1>5, <1>6
  <1>7. CASE x # "reject"
    <2>1. PICK rate : installed' = [installed EXCEPT ![th[t].h][th[t].att] = e(rate)]
      BY <1>4, <1>7
    <2>2. installed'[th[t].h][th[t].att] = e(rate)
      BY <1>1, <2>1
    <2> QED
      BY <1>2, <1>4, <1>5, <1>7, <2>2
  <1> QED
    BY <1>4, <1>6, <1>7

\* What a thread may do to the effect of attempt a at handle h: leave it, withdraw
\* it, lose it to a newer epoch, or install it.
Affects(t, h, a) ==
  \/ installed'[h][a] = installed[h][a]
  \/ installed'[h][a] = NoEffect /\ At(t, "withdraw") /\ <<h, a>> \in th[t].todo
  \/ installed'[h][a] = NoEffect /\ At(t, "rebind") /\ installed[h][a].epoch < th[t].fence
  \/ /\ BackendApply(t) /\ h = th[t].h /\ a = th[t].att
     /\ installed'[h][a].epoch = attempts[a].authority.epoch

LEMMA ThreadEffects ==
  ASSUME Inv, NEW t \in Thread, NEW h \in Handle, NEW a \in AttemptId,
         \/ QuietStep(t) \/ OwnStep(t) \/ GovernanceStep(t) \/ DeriveCommit(t) \/ Reserve(t)
  PROVE  Affects(t, h, a)
  <1>1. CASE OwnStep(t) \/ GovernanceStep(t) \/ DeriveCommit(t) \/ Reserve(t)
    BY <1>1, OwnKeeps, GovernanceKeeps, DeriveKeeps, ReserveKeeps DEF Affects
  <1>2. CASE Withdraw(t)
    <2>1. PICK w \in th[t].todo :
            installed'[h][a] = IF h = w[1] /\ a = w[2] THEN NoEffect ELSE installed[h][a]
      BY <1>2, WithdrawMoves
    <2>2. At(t, "withdraw") /\ w \in Handle \X Nat
      BY <1>2 DEF Withdraw, Inv, TypeOK, ThreadState
    <2>3. h = w[1] /\ a = w[2] => <<h, a>> = w
      BY <2>2
    <2> QED
      BY <2>1, <2>2, <2>3 DEF Affects
  <1>3. CASE RebindEpoch(t)
    <2>1. At(t, "rebind")
      BY <1>3 DEF RebindEpoch
    <2> QED
      BY <1>3, <2>1, RebindEffects DEF Affects
  <1>4. CASE BackendApply(t)
    BY <1>4, BackendApplyInstalls, BackendApplyEffects DEF Affects
  <1>5. CASE QuietStep(t) /\ ~Withdraw(t) /\ ~RebindEpoch(t) /\ ~BackendApply(t)
    <2>1. UNCHANGED installed
      BY <1>5 DEF QuietStep, DeriveBegin, ApplyResolve, VerifyBegin, RevalidateBegin, FetchLocal,
           FetchGrant, FetchEpoch, FetchRefused, DeriveRefused, ReserveNotDurable,
           ReserveRefused, FoldClosed, Readback, CommitLate, VerifyRefused, RevalidateRefused
    <2> QED
      BY <2>1 DEF Affects
  <1> QED
    BY <1>1, <1>2, <1>3, <1>4, <1>5

\* Outside of the threads only a shaper changes an effect, and only its rate.
LEMMA OutsideEffects ==
  ASSUME Inv, OutsideStep \/ Restart, NEW h \in Handle, NEW a \in AttemptId
  PROVE  \/ installed'[h][a] = installed[h][a]
         \/ /\ "drift" \in Faults
            /\ installed'[h][a].epoch = installed[h][a].epoch
            /\ installed[h][a].rate = "exact"
  <1>1. installed \in [Handle -> [AttemptId -> Effect]]
    BY DEF Inv, TypeOK
  <1>2. ASSUME NEW k \in Handle, NEW b \in AttemptId, ShaperDrifts(k, b)
        PROVE  \/ installed'[h][a] = installed[h][a]
               \/ /\ "drift" \in Faults
                  /\ installed'[h][a].epoch = installed[h][a].epoch
                  /\ installed[h][a].rate = "exact"
    <2>1. PICK rate : installed' = [installed EXCEPT ![k][b].rate = rate]
      BY <1>2 DEF ShaperDrifts
    <2> DEFINE e == [installed[k][b] EXCEPT !.rate = rate]
    <2>2. installed' = [installed EXCEPT ![k] = [installed[k] EXCEPT ![b] = e]]
      BY <2>1
    <2>3. e.epoch = installed[k][b].epoch
      BY <1>1 DEF Effect
    <2>4. installed[k][b].rate = "exact" /\ "drift" \in Faults
      BY <1>2 DEF ShaperDrifts
    <2> HIDE DEF e
    <2> QED
      BY <1>1, <2>2, <2>3, <2>4
  <1>3. CASE \/ \E t \in Thread, e \in EnvelopeId : RevokeNotDurable(t, e)
             \/ \E k \in Handle : RegisterBackend(k)
             \/ \E b \in Backend : UnregisterBackend(b)
             \/ ChangeLocal \/ ChangeGrant \/ Restart
    BY <1>3 DEF RevokeNotDurable, RegisterBackend, UnregisterBackend, ChangeLocal,
                ChangeGrant, Restart
  <1> QED
    BY <1>2, <1>3 DEF OutsideStep

\* Every step keeps what is in the ledger.
LEMMA StepRecords ==
  ASSUME Inv, Next
  PROVE  RecordsKept
  <1>1. TypeOK /\ \A next \in ClosedStates \cup {"Unknown", "RequiresRevalidation"} :
                    next \in ApplicationStates
    BY DEF Inv, ApplicationStates, PendingStates
  <1>2. ASSUME NEW t \in Thread, OwnStep(t)
        PROVE  RecordsKept
    <2> DEFINE S == {th[t].att}
               f == Finalized(th[t].seen)
    <2>1. \/ Unmoved
          \/ \E next \in {"Failed", "Stale", "Acknowledged", "AppliedUnverified",
                          "RequiresRevalidation", f} : Moved(S, next)
      BY <1>2, OwnMoves, RevalidateMoves DEF OwnStep
    <2>2. {"Failed", "Stale", "Acknowledged", "AppliedUnverified", "RequiresRevalidation", f}
            \subseteq ApplicationStates
      BY TerminalStates DEF ApplicationStates, PendingStates
    <2> HIDE DEF S, f
    <2>3. Unmoved => RecordsKept
      BY <1>1, MovedKeeps DEF Unmoved
    <2> QED
      BY <1>1, <2>1, <2>2, <2>3, MovedKeeps
  <1>3. ASSUME NEW t \in Thread, GovernanceStep(t)
        PROVE  RecordsKept
    BY <1>1, <1>3, GovernanceKeeps, MovedKeeps
  <1>4. UNCHANGED attempts => RecordsKept
    BY DEF RecordsKept, Present
  <1> QED
    BY <1>2, <1>3, <1>4, StepKinds, QuietKeeps, DeriveKeeps, ReserveKeeps, OutsideKeeps,
       RestartKeeps

-----------------------------------------------------------------------------
(* Every effect is where its attempt is for, under the epoch it was made at *)

\* A thread is for an envelope from the resolution of its backend on.
LEMMA EnvelopeOn ==
  ASSUME Inv, NEW t \in Thread,
         QuietStep(t) \/ OwnStep(t) \/ GovernanceStep(t) \/ DeriveCommit(t),
         ForEnvelope(th[t])'
  PROVE  \/ ForEnvelope(th[t]) /\ SameWork(t)
         \/ \E b \in Backend : /\ registry[b] # NoHandle
                               /\ th'[t].backend = b /\ th'[t].h = registry[b]
  <1> DEFINE P == \/ ForEnvelope(th[t]) /\ SameWork(t)
                  \/ \E b \in Backend : /\ registry[b] # NoHandle
                                        /\ th'[t].backend = b /\ th'[t].h = registry[b]
  <1>1. TypeOK /\ ThreadOK(th[t], Len(envelopes), PresentAttempts)
    BY DEF Inv, ThreadsOK
  <1>2. ~\E W : Ends(t, W)
    BY DEF Ends, Moves, ForEnvelope, FetchPCs
  <1>3. CASE \E e \in EnvelopeId, b \in Backend, r \in {0} \cup AttemptId : ApplyResolve(t, e, b, r)
    <2>1. PICK e \in EnvelopeId, b \in Backend, r \in {0} \cup AttemptId : ApplyResolve(t, e, b, r)
      BY <1>3
    <2> QED
      BY <1>1, <2>1, BeginMoves DEF ApplyResolve
  <1>4. ~(DeriveBegin(t) \/ \E a \in AttemptId : VerifyBegin(t, a) \/ RevalidateBegin(t, a))
    BY <1>1, BeginMoves DEF Moves, ForEnvelope
  <1>5. CASE FetchLocal(t) \/ FetchGrant(t) \/ FetchEpoch(t) \/ FetchRefused(t)
    <2>1. /\ th[t].pc \in FetchPCs
          /\ \E pc \in {"fetch_grant", "fetch_epoch", th[t].then} : FetchMoves(t, pc)
      BY <1>1, <1>5, FetchLocalMoves, FetchGrantMoves, FetchEpochMoves, FetchRefusedMoves
         DEF FetchLocal, FetchGrant, FetchEpoch, FetchRefused, At, FetchPCs
    <2> QED
      BY <1>1, <2>1 DEF FetchMoves, Moves, ForEnvelope, ThreadOK, FetchPCs
  <1>6. ~BackendApply(t) /\ ~FoldAcknowledged(t) /\ ~RebindEpoch(t) /\ ~AdvanceEpoch(t)
    BY <1>1, <1>2, ApplyMoves, RebindMoves, GovernanceThreadMoves DEF Moves, ForEnvelope, FetchPCs
  <1>7. ~Readback(t)
    <2> SUFFICES ASSUME Readback(t)
                 PROVE  FALSE
      OBVIOUS
    <2>1. Moves(t, AfterReadback(th[t].then)) /\ th'[t].then = th[t].then
      BY <1>1, ApplyMoves
    <2>2. th[t].then # "reserve"
      BY <1>1 DEF Readback, At, ThreadOK
    <2> QED
      BY <2>1, <2>2 DEF Moves, ForEnvelope, FetchPCs, AfterReadback
  <1>8. ~(\/ DeriveRefused(t) \/ ReserveNotDurable(t) \/ ReserveRefused(t) \/ FoldClosed(t)
          \/ CommitLate(t) \/ Withdraw(t) \/ VerifyRefused(t) \/ RevalidateRefused(t))
    BY <1>1, <1>2, EndMoves DEF DeriveRefused, ReserveNotDurable, ReserveRefused,
       FoldClosed, CommitLate, Withdraw, VerifyRefused, RevalidateRefused
  <1>9. ~OwnStep(t)
    BY <1>2, <1>6, OwnPlaces
  <1>10. ~GovernanceStep(t)
    BY <1>1, <1>2, <1>6, GovernanceThreadMoves DEF GovernanceStep
  <1>11. ~DeriveCommit(t)
    BY <1>2, DeriveKeeps
  <1> QED
    BY <1>3, <1>4, <1>5, <1>6, <1>7, <1>8, <1>9, <1>10, <1>11 DEF QuietStep

\* A handle is registered for the identity that it describes.
HandlesKnown == \A b \in Backend : registry[b] # NoHandle => BackendOf[registry[b]] = b

\* An application has a handle of its backend, and its attempt is for it.
PlaceOK(s) ==
  /\ ForEnvelope(s) \/ Applies(s) => BackendOf[s.h] = s.backend
  /\ Applies(s) => attempts[s.att].backend = s.backend

\* So an effect is at a handle of the backend that its attempt is for, and it
\* carries the epoch of the authority of its attempt.
EffectsInPlace ==
  \A h \in Handle, a \in AttemptId : installed[h][a] # NoEffect =>
    /\ BackendOf[h] = attempts[a].backend
    /\ installed[h][a].epoch = attempts[a].authority.epoch

\* The inductive invariant.
PlaceInv ==
  /\ HandlesKnown
  /\ \A t \in Thread : PlaceOK(th[t])
  /\ EffectsInPlace

\* The threads that a step leaves alone.
LEMMA PlaceOthers ==
  ASSUME Inv, PlaceInv, RecordsKept, NEW t \in Thread, th'[t] = th[t]
  PROVE  PlaceOK(th[t])'
  <1>1. PlaceOK(th[t])
    BY DEF PlaceInv
  <1>2. Applies(th[t]) => attempts'[th[t].att].backend = attempts[th[t].att].backend
    BY AttemptFacts DEF ForAttempt, RecordsKept, PresentAttempts
  <1> QED
    BY <1>1, <1>2 DEF PlaceOK, Applies, ForEnvelope

\* The effects after a step of a thread.
LEMMA PlaceEffects ==
  ASSUME Inv, PlaceInv, RecordsKept, NEW t \in Thread,
         \/ QuietStep(t) \/ OwnStep(t) \/ GovernanceStep(t) \/ DeriveCommit(t) \/ Reserve(t)
  PROVE  EffectsInPlace'
  <1> SUFFICES ASSUME NEW h \in Handle, NEW a \in AttemptId, installed'[h][a] # NoEffect
               PROVE  /\ BackendOf[h] = attempts'[a].backend
                      /\ installed'[h][a].epoch = attempts'[a].authority.epoch
    BY DEF EffectsInPlace
  <1>1. Affects(t, h, a)
    BY ThreadEffects
  <1>2. CASE installed'[h][a] = installed[h][a]
    <2>1. Present(a)
      BY <1>2 DEF Inv, EveryEffectHasARecord
    <2> QED
      BY <1>2, <2>1 DEF PlaceInv, EffectsInPlace, RecordsKept
  <1>3. CASE /\ BackendApply(t) /\ h = th[t].h /\ a = th[t].att
             /\ installed'[h][a].epoch = attempts[a].authority.epoch
    <2>1. Applies(th[t])
      BY <1>3 DEF BackendApply, At, Applies
    <2>2. Present(a) /\ BackendOf[h] = attempts[a].backend
      BY <1>3, <2>1, AttemptFacts DEF ForAttempt, PresentAttempts, PlaceInv, PlaceOK
    <2> QED
      BY <1>3, <2>2 DEF RecordsKept
  <1> QED
    BY <1>1, <1>2, <1>3 DEF Affects

\* A step of a thread.
LEMMA PlaceThread ==
  ASSUME Inv, PlaceInv, RecordsKept, NEW t \in Thread,
         \/ QuietStep(t) \/ OwnStep(t) \/ GovernanceStep(t) \/ DeriveCommit(t) \/ Reserve(t)
  PROVE  PlaceInv'
  <1>1. HandlesKnown'
    <2>1. UNCHANGED registry
      BY QuietKeeps, OwnKeeps, GovernanceKeeps, DeriveKeeps, ReserveKeeps
    <2> QED
      BY <2>1 DEF PlaceInv, HandlesKnown
  <1>2. EffectsInPlace'
    BY PlaceEffects
  <1>3. CASE Reserve(t)
    <2>1. /\ Moves(t, "backend_apply") /\ th'[t].att = NextAttempt(t)
          /\ th'[t].backend = th[t].backend /\ th'[t].h = th[t].h
      BY <1>3, ApplyMoves DEF Inv
    <2>2. attempts'[NextAttempt(t)].backend = th[t].backend
      BY <1>3, ReserveKeeps
    <2>3. BackendOf[th[t].h] = th[t].backend
      BY <1>3 DEF PlaceInv, PlaceOK, Reserve, At, ForEnvelope
    <2>4. PlaceOK(th[t])'
      BY <2>1, <2>2, <2>3 DEF PlaceOK
    <2> QED
      BY <1>1, <1>2, <2>1, <2>4, PlaceOthers DEF PlaceInv, Moves
  <1>4. CASE QuietStep(t) \/ OwnStep(t) \/ GovernanceStep(t) \/ DeriveCommit(t)
    <2>1. /\ \A u \in Thread \ {t} : th'[u] = th[u]
          /\ Applies(th[t])' => Applies(th[t]) /\ SameWork(t)
      BY <1>4, AppliesOn
    <2>2. PlaceOK(th[t])
      BY DEF PlaceInv
    <2>3. ForEnvelope(th[t])' => BackendOf[th'[t].h] = th'[t].backend
      BY <1>4, <2>2, EnvelopeOn DEF PlaceInv, PlaceOK, HandlesKnown, SameWork
    <2>4. Applies(th[t])' => /\ BackendOf[th'[t].h] = th'[t].backend
                             /\ attempts'[th'[t].att].backend = th'[t].backend
      BY <2>1, <2>2, AttemptFacts DEF ForAttempt, PlaceOK, SameWork, RecordsKept, PresentAttempts
    <2>5. PlaceOK(th[t])'
      BY <2>3, <2>4 DEF PlaceOK
    <2> QED
      BY <1>1, <1>2, <2>1, <2>5, PlaceOthers DEF PlaceInv
  <1> QED
    BY <1>3, <1>4

\* A step of the environment, which registers a handle only for its identity.
LEMMA PlaceOutside ==
  ASSUME Inv, PlaceInv, RecordsKept, OutsideStep \/ Restart
  PROVE  PlaceInv'
  <1>1. HandlesKnown'
    <2>1. ASSUME NEW h \in Handle, RegisterBackend(h)
          PROVE  HandlesKnown'
      <3>1. registry' = [registry EXCEPT ![BackendOf[h]] = h]
        BY <2>1 DEF RegisterBackend
      <3> QED
        BY <3>1 DEF PlaceInv, HandlesKnown, Inv, TypeOK
    <2>2. ASSUME NEW b \in Backend, UnregisterBackend(b)
          PROVE  HandlesKnown'
      <3>1. registry' = [registry EXCEPT ![b] = NoHandle]
        BY <2>2 DEF UnregisterBackend
      <3> QED
        BY <3>1 DEF PlaceInv, HandlesKnown, Inv, TypeOK
    <2>3. CASE Restart
      BY <2>3 DEF Restart, HandlesKnown
    <2>4. CASE \/ \E t \in Thread, e \in EnvelopeId : RevokeNotDurable(t, e)
               \/ ChangeLocal \/ ChangeGrant
               \/ \E h \in Handle, a \in AttemptId : ShaperDrifts(h, a)
      BY <2>4 DEF RevokeNotDurable, ChangeLocal, ChangeGrant, ShaperDrifts, PlaceInv, HandlesKnown
    <2> QED
      BY <2>1, <2>2, <2>3, <2>4 DEF OutsideStep
  <1>2. EffectsInPlace'
    <2> SUFFICES ASSUME NEW h \in Handle, NEW a \in AttemptId, installed'[h][a] # NoEffect
                 PROVE  /\ BackendOf[h] = attempts'[a].backend
                        /\ installed'[h][a].epoch = attempts'[a].authority.epoch
      BY DEF EffectsInPlace
    <2>1. installed[h][a] # NoEffect /\ installed'[h][a].epoch = installed[h][a].epoch
      BY OutsideEffects DEF NoEffect
    <2>2. Present(a)
      BY <2>1 DEF Inv, EveryEffectHasARecord
    <2> QED
      BY <2>1, <2>2 DEF PlaceInv, EffectsInPlace, RecordsKept
  <1>3. ASSUME NEW t \in Thread
        PROVE  PlaceOK(th[t])'
    <2>1. CASE OutsideStep
      BY <2>1, OutsideKeeps, PlaceOthers
    <2>2. CASE Restart
      BY <2>2 DEF Restart, PlaceOK, ForEnvelope, Applies, FetchPCs, Idle
    <2> QED
      BY <2>1, <2>2
  <1> QED
    BY <1>1, <1>2, <1>3 DEF PlaceInv

\* The invariant holds in every reachable state, with any operation and fault.
LEMMA PlaceInvariance == Spec => []PlaceInv
  <1>1. Init => PlaceInv
    BY DEF Init, PlaceInv, HandlesKnown, PlaceOK, EffectsInPlace, ForEnvelope, Applies,
           FetchPCs, Idle
  <1>2. Inv /\ PlaceInv /\ [Next]_vars => PlaceInv'
    <2> SUFFICES ASSUME Inv, PlaceInv, [Next]_vars
                 PROVE  PlaceInv'
      OBVIOUS
    <2>1. CASE Next
      BY <2>1, StepKinds, StepRecords, PlaceThread, PlaceOutside
    <2>2. CASE UNCHANGED vars
      BY <2>2 DEF vars, ledger, PlaceInv, HandlesKnown, PlaceOK, EffectsInPlace, ForEnvelope,
                  Applies
    <2> QED
      BY <2>1, <2>2
  <1> QED
    BY <1>1, <1>2, Invariance, PTL DEF Spec

-----------------------------------------------------------------------------
(* What a thread knows of the attempts it works for and withdraws *)

\* An application that the backend has acknowledged and that nobody committed yet.
AfterFold(s) ==
  \/ s.pc \in {"readback", "commit", "commit_unverified"}
  \/ s.pc \in FetchPCs /\ s.then \in {"commit", "commit_unverified"}

\* Between two critical sections of an application its attempt stays as it was
\* left, or is closed.  What is being withdrawn is closed or mismatched for good,
\* and a fence that backends are told of is not ahead of the epoch.
WorkOK(s) ==
  /\ s.pc \in {"backend_apply", "fold"} =>
       attempts[s.att].state \in ClosedStates \cup {"Submitted"}
  /\ AfterFold(s) => attempts[s.att].state \in ClosedStates \cup {"Acknowledged"}
  /\ s.pc = "withdraw" =>
       \A w \in s.todo : /\ w[2] \in AttemptId
                         /\ attempts[w[2]].state \in ClosedStates \cup {"Mismatched"}
  /\ s.pc = "rebind" => s.fence <= epoch

WorkInv == \A t \in Thread : WorkOK(th[t])

\* How the attempts may move when thread t takes a step.
StatesMove(t) ==
  \A a \in AttemptId :
    \/ attempts'[a].state = attempts[a].state
    \/ attempts'[a].state \in ClosedStates /\ ~IsClosed(a)
    \/ Applies(th[t]) /\ a = th[t].att /\ attempts[a].state \in {"Submitted", "Acknowledged"}
    \/ attempts[a].state = "Absent" /\ attempts'[a].state = "Submitted"

LEMMA ThreadStates ==
  ASSUME Inv, NobodyRechecks, NEW t \in Thread,
         \/ QuietStep(t) \/ OwnStep(t) \/ GovernanceStep(t) \/ DeriveCommit(t) \/ Reserve(t)
  PROVE  StatesMove(t) /\ epoch <= epoch'
  <1>1. epoch \in Nat /\ TypeOK
    BY DEF Inv, TypeOK
  <1>2. CASE QuietStep(t) \/ DeriveCommit(t)
    BY <1>1, <1>2, QuietKeeps, DeriveKeeps DEF StatesMove
  <1>3. CASE OwnStep(t)
    <2>1. UNCHANGED epoch
      BY <1>3, OwnKeeps
    <2>2. /\ Applies(th[t])
          /\ \/ Unmoved
             \/ /\ attempts[th[t].att].state \in {"Submitted", "Acknowledged"}
                /\ \E next : Moved({th[t].att}, next)
      BY <1>3, OutcomeOfOpen DEF Awaits
    <2> QED
      BY <1>1, <2>1, <2>2 DEF StatesMove, Unmoved, Moved
  <1>4. CASE GovernanceStep(t)
    <2>1. PICK S \in SUBSET PresentAttempts, next \in ClosedStates :
            Moved(S, next) /\ \A a \in S : ~IsClosed(a)
      BY <1>4, GovernanceKeeps
    <2>2. epoch' \in {epoch, epoch + 1}
      BY <1>4 DEF GovernanceStep, CancelAttempt, RevokeEnvelope, FenceBelow, AdvanceEpoch,
                  authority
    <2> QED
      BY <1>1, <2>1, <2>2 DEF StatesMove, Moved
  <1>5. CASE Reserve(t)
    <2>1. /\ UNCHANGED epoch
          /\ ~Present(NextAttempt(t)) /\ attempts'[NextAttempt(t)].state = "Submitted"
          /\ \A a \in AttemptId \ {NextAttempt(t)} : attempts'[a] = attempts[a]
      BY <1>5, ReserveKeeps
    <2> HIDE DEF NextAttempt
    <2> QED
      BY <1>1, <2>1 DEF StatesMove, Present
  <1> QED
    BY <1>2, <1>3, <1>4, <1>5

\* What the other threads know stays true.
LEMMA WorkOthers ==
  ASSUME Inv, HandleInv, WorkInv, NEW t \in Thread, StatesMove(t), epoch <= epoch',
         epoch' \in Nat, NEW u \in Thread \ {t}, th'[u] = th[u]
  PROVE  WorkOK(th[u])'
  <1>1. WorkOK(th[u]) /\ th[u] \in ThreadState /\ epoch \in Nat
    BY DEF WorkInv, Inv, TypeOK
  <1>2. Applies(th[u]) => /\ th[u].att \in AttemptId
                          /\ ~(Applies(th[t]) /\ th[t].att = th[u].att)
    BY AttemptFacts DEF ForAttempt, HandleInv, OneApplier
  <1>3. ASSUME NEW a \in AttemptId, NEW s \in {"Submitted", "Acknowledged", "Mismatched"},
               attempts[a].state \in ClosedStates \cup {s},
               ~(Applies(th[t]) /\ th[t].att = a) \/ s = "Mismatched"
        PROVE  attempts'[a].state \in ClosedStates \cup {s}
    BY <1>3 DEF StatesMove, IsClosed, ClosedStates
  <1>4. CASE th[u].pc \in {"backend_apply", "fold"}
    BY <1>1, <1>2, <1>3, <1>4 DEF WorkOK, Applies, AfterFold, FetchPCs
  <1>5. CASE AfterFold(th[u])
    <2>1. Applies(th[u])
      BY <1>5 DEF AfterFold, Applies
    <2>2. attempts[th[u].att].state \in ClosedStates \cup {"Acknowledged"}
      BY <1>1, <1>5 DEF WorkOK
    <2>3. attempts'[th[u].att].state \in ClosedStates \cup {"Acknowledged"}
      BY <1>2, <1>3, <2>1, <2>2
    <2> QED
      BY <1>5, <2>3 DEF WorkOK, AfterFold, FetchPCs
  <1>6. CASE th[u].pc = "withdraw"
    <2>1. \A w \in th[u].todo : /\ w[2] \in AttemptId
                                /\ attempts'[w[2]].state \in ClosedStates \cup {"Mismatched"}
      BY <1>1, <1>3, <1>6 DEF WorkOK
    <2> QED
      BY <1>6, <2>1 DEF WorkOK, AfterFold, FetchPCs
  <1>7. CASE th[u].pc = "rebind"
    <2>1. th[u].fence <= epoch /\ th[u].fence \in Nat
      BY <1>1, <1>7 DEF WorkOK, ThreadState
    <2> QED
      BY <1>1, <1>7, <2>1 DEF WorkOK, AfterFold, FetchPCs
  <1> QED
    BY <1>4, <1>5, <1>6, <1>7 DEF WorkOK, AfterFold

\* A thread that ends, and withdraws from attempts that are done.
LEMMA WorkEnds ==
  ASSUME NEW t \in Thread, NEW W, Ends(t, W),
         \A w \in W : /\ w[2] \in AttemptId
                      /\ attempts'[w[2]].state \in ClosedStates \cup {"Mismatched"}
  PROVE  WorkOK(th[t])'
  BY DEF Ends, Moves, WorkOK, AfterFold, FetchPCs

\* In particular one that withdraws its own attempt.
LEMMA WorkEndsOwn ==
  ASSUME NEW t \in Thread, NEW W, Ends(t, W),
         W = {} \/ W = {<<th[t].h, th[t].att>>},
         th[t].att \in AttemptId,
         W = {} \/ attempts'[th[t].att].state \in ClosedStates \cup {"Mismatched"}
  PROVE  WorkOK(th[t])'
  BY WorkEnds

\* The quiet steps of the thread itself.
LEMMA WorkQuiet ==
  ASSUME Inv, NobodyRechecks, WorkInv, NEW t \in Thread, QuietStep(t)
  PROVE  WorkOK(th[t])'
  <1>1. /\ TypeOK /\ ThreadOK(th[t], Len(envelopes), PresentAttempts) /\ WorkOK(th[t])
        /\ UNCHANGED <<attempts, epoch>>
    BY QuietKeeps DEF Inv, ThreadsOK, WorkInv
  <1>2. CASE \/ DeriveBegin(t)
             \/ \E e \in EnvelopeId, b \in Backend, r \in {0} \cup AttemptId :
                  ApplyResolve(t, e, b, r)
             \/ \E a \in AttemptId : VerifyBegin(t, a) \/ RevalidateBegin(t, a)
    <2>1. Moves(t, "fetch_local") /\ th'[t].then \in {"derive", "reserve", "verify", "revalidate"}
      BY <1>1, <1>2, BeginMoves
    <2> QED
      BY <2>1 DEF Moves, WorkOK, AfterFold, FetchPCs
  <1>3. CASE FetchLocal(t) \/ FetchGrant(t) \/ FetchEpoch(t) \/ FetchRefused(t)
    <2>1. /\ th[t].pc \in FetchPCs
          /\ \E pc \in {"fetch_grant", "fetch_epoch", th[t].then} : FetchMoves(t, pc)
      BY <1>1, <1>3, FetchLocalMoves, FetchGrantMoves, FetchEpochMoves, FetchRefusedMoves
         DEF FetchLocal, FetchGrant, FetchEpoch, FetchRefused, At, FetchPCs
    <2>2. /\ th'[t].pc \notin {"backend_apply", "fold", "withdraw", "rebind"}
          /\ th'[t].att = th[t].att
          /\ AfterFold(th[t])' => AfterFold(th[t])
      BY <1>1, <2>1 DEF FetchMoves, Moves, SameWork, ThreadOK, AfterFold, FetchPCs
    <2> QED
      BY <1>1, <2>2 DEF WorkOK
  <1>4. CASE BackendApply(t)
    BY <1>1, <1>4, ApplyMoves DEF BackendApply, At, Moves, SameWork, WorkOK, AfterFold, FetchPCs
  <1>5. CASE Readback(t)
    <2>1. th[t].pc = "readback" /\ th[t].then = "commit"
      BY <1>1, <1>5 DEF Readback, At, ThreadOK, NobodyRechecks, Rechecks
    <2>2. Moves(t, "fetch_local") /\ SameWork(t)
      BY <1>1, <1>5, <2>1, ApplyMoves DEF AfterReadback
    <2> QED
      BY <1>1, <2>1, <2>2 DEF Moves, SameWork, WorkOK, AfterFold, FetchPCs
  <1>6. CASE \/ DeriveRefused(t) \/ ReserveNotDurable(t) \/ ReserveRefused(t)
             \/ VerifyRefused(t) \/ RevalidateRefused(t)
    <2>1. Ends(t, {})
      BY <1>1, <1>6, EndMoves DEF DeriveRefused, ReserveNotDurable, ReserveRefused,
         VerifyRefused, RevalidateRefused
    <2> QED
      BY <2>1, WorkEnds
  <1>7. CASE FoldClosed(t) \/ CommitLate(t)
    <2> DEFINE W == {<<th[t].h, th[t].att>>}
    <2>1. Ends(t, W)
      BY <1>1, <1>7, EndMoves DEF FoldClosed, CommitLate
    <2>2. attempts[th[t].att].state \in ClosedStates /\ th[t].att \in AttemptId
      BY <1>1, <1>7, AttemptFacts DEF FoldClosed, CommitLate, At, WorkOK, AfterFold, Awaits,
                                      ForAttempt, Applies
    <2> HIDE DEF W
    <2> QED
      BY <1>1, <2>1, <2>2, WorkEndsOwn DEF W
  <1>8. CASE Withdraw(t)
    <2>1. PICK w \in th[t].todo : Ends(t, th[t].todo \ {w})
      BY <1>8, WithdrawMoves
    <2> DEFINE W == th[t].todo \ {w}
    <2>2. \A x \in W : /\ x[2] \in AttemptId
                       /\ attempts'[x[2]].state \in ClosedStates \cup {"Mismatched"}
      BY <1>1, <1>8 DEF Withdraw, At, WorkOK
    <2> HIDE DEF W
    <2> QED
      BY <2>1, <2>2, WorkEnds DEF W
  <1>9. CASE RebindEpoch(t)
    BY <1>1, <1>9, RebindMoves DEF RebindEpoch, At, Moves, WorkOK, AfterFold, FetchPCs
  <1> QED
    BY <1>2, <1>3, <1>4, <1>5, <1>6, <1>7, <1>8, <1>9 DEF QuietStep

\* Its own steps.
LEMMA WorkOwn ==
  ASSUME Inv, NobodyRechecks, WorkInv, NEW t \in Thread, OwnStep(t)
  PROVE  WorkOK(th[t])'
  <1> DEFINE a == th[t].att
  <1>1. TypeOK /\ a \in AttemptId
    BY OutcomeOfOpen DEF Inv, PresentAttempts
  <1>2. \A next : Moved({a}, next) => attempts'[a].state = next
    BY <1>1 DEF Moved
  <1>3. CASE FoldAcknowledged(t)
    <2>1. /\ SameWork(t) /\ attempts'[a].state = "Acknowledged"
          /\ \/ Moves(t, "readback")
             \/ Moves(t, "fetch_local")
      BY <1>1, <1>2, <1>3, OwnMoves, ApplyMoves
    <2> QED
      BY <2>1 DEF Moves, SameWork, WorkOK, AfterFold, FetchPCs
  <1>4. CASE OwnStep(t) /\ ~FoldAcknowledged(t)
    <2> DEFINE W == {<<th[t].h, a>>}
    <2>1. \/ Ends(t, {})
          \/ /\ Ends(t, W)
             /\ \/ FoldUnregistered(t) \/ CommitStale(t)
                \/ CommitEvidence(t) /\ th[t].seen = "over"
                \/ CommitUnverified(t) /\ th[t].verdict # "current"
      BY <1>1, <1>4, EndMoves
         DEF OwnStep, FoldUnregistered, FoldFailed, CommitStale, CommitEvidence,
             CommitUnverified, VerifyStale, VerifyCommit, RevalidateStale,
             RevalidateNoEvidence, RevalidateCommit, UnsafeEffect
    <2>2. FoldUnregistered(t) \/ CommitStale(t) => attempts'[a].state \in ClosedStates
      BY <1>2, OwnMoves DEF ClosedStates
    <2>3. CommitEvidence(t) /\ th[t].seen = "over" => attempts'[a].state = "Mismatched"
      BY <1>2, OwnMoves DEF Finalized
    <2>4. CASE CommitUnverified(t) /\ th[t].verdict # "current" /\ Ends(t, W)
      <3>1. ~Return(t)
        <4> SUFFICES ASSUME Return(t)
                     PROVE  FALSE
          OBVIOUS
        <4>1. Ends(t, {})
          BY <1>1, EndMoves
        <4> QED
          BY <2>4, <4>1 DEF Ends, Moves
      <3>2. Move({a}, "Stale")
        BY <2>4, <3>1 DEF CommitUnverified
      <3>3. "Stale" \in ClosedStates /\ "Stale" \in ApplicationStates
        BY DEF ClosedStates, ApplicationStates
      <3>4. attempts'[a].state = "Stale"
        BY <1>1, <1>2, <3>2, <3>3, TransitionMoves DEF Move
      <3> HIDE DEF W
      <3> QED
        BY <1>1, <2>4, <3>3, <3>4, WorkEndsOwn DEF W
    <2> HIDE DEF W
    <2>5. Ends(t, {}) => WorkOK(th[t])'
      BY WorkEnds
    <2> QED
      BY <1>1, <2>1, <2>2, <2>3, <2>4, <2>5, WorkEndsOwn DEF W
  <1> QED
    BY <1>3, <1>4

\* Governance withdraws only from the attempts that it closed.
LEMMA WorkGovernance ==
  ASSUME Inv, NEW t \in Thread, GovernanceStep(t)
  PROVE  WorkOK(th[t])'
  <1>1. TypeOK /\ {"Cancelled", "Revoked", "Fenced"} \subseteq ClosedStates
    BY DEF Inv, ClosedStates
  <1>2. ASSUME NEW S, NEW R \in SUBSET S, S \subseteq AttemptId, NEW next \in ClosedStates,
               Moved(S, next), ThenWithdraw(t, Withdrawals(R))
        PROVE  WorkOK(th[t])'
    <2>1. Ends(t, Withdrawals(R))
      BY <1>1, <1>2, EndMoves
    <2>2. \A w \in Withdrawals(R) : w[2] \in AttemptId /\ attempts'[w[2]].state = next
      BY <1>2 DEF Withdrawals, Moved
    <2> QED
      BY <2>1, <2>2, WorkEnds
  <1>3. CASE \E a \in AttemptId : CancelAttempt(t, a)
    <2>1. PICK a \in AttemptId : CancelAttempt(t, a)
      BY <1>3
    <2> DEFINE next == IF IsPending(a) THEN "Cancelled" ELSE "Revoked"
               S == {a}
    <2>2. next \in ClosedStates /\ Moved(S, next) /\ ThenWithdraw(t, Withdrawals(S))
          /\ S \subseteq AttemptId
      BY <1>1, <2>1, GovernanceMoves DEF CancelAttempt
    <2> HIDE DEF next, S
    <2> QED
      BY <1>2, <2>2
  <1>4. CASE \E e \in EnvelopeId : RevokeEnvelope(t, e)
    <2>1. PICK e \in EnvelopeId : RevokeEnvelope(t, e)
      BY <1>4
    <2> DEFINE S == {a \in AttemptId : Present(a) /\ attempts[a].env = e /\ ~IsClosed(a)}
    <2>2. Moved(S, "Revoked") /\ ThenWithdraw(t, Withdrawals(S)) /\ S \subseteq AttemptId
      BY <2>1, GovernanceMoves DEF RevokeEnvelope
    <2> HIDE DEF S
    <2> QED
      BY <1>1, <1>2, <2>2
  <1>5. CASE \E e \in 1 .. MaxEpoch + 1 : FenceBelow(t, e)
    <2>1. PICK e \in 1 .. MaxEpoch + 1 : FenceBelow(t, e)
      BY <1>5
    <2> DEFINE S == OpenBelow(e)
               R == {a \in S : ClaimedEffect(a)}
    <2>2. /\ Moved(S, "Fenced") /\ ThenWithdraw(t, Withdrawals(R)) /\ R \in SUBSET S
          /\ S \subseteq AttemptId
      BY <2>1, GovernanceMoves DEF FenceBelow, OpenBelow
    <2> HIDE DEF S, R
    <2> QED
      BY <1>1, <1>2, <2>2
  <1>6. CASE AdvanceEpoch(t)
    <2>1. epoch \in Nat /\ epoch' = epoch + 1
      BY <1>1, <1>6 DEF TypeOK, AdvanceEpoch
    <2>2. Ends(t, {}) => WorkOK(th[t])'
      BY WorkEnds
    <2>3. Moves(t, "rebind") /\ th'[t].fence = epoch + 1 => WorkOK(th[t])'
      BY <2>1 DEF Moves, WorkOK, AfterFold, FetchPCs
    <2> QED
      BY <1>1, <1>6, <2>2, <2>3, GovernanceThreadMoves
  <1> QED
    BY <1>3, <1>4, <1>5, <1>6 DEF GovernanceStep

\* Every step keeps what the threads know.
LEMMA WorkStep ==
  ASSUME Inv, HandleInv, NobodyRechecks, WorkInv, [Next]_vars
  PROVE  WorkInv'
  <1>1. epoch' \in Nat
    BY NextInv DEF Inv, TypeOK
  <1>2. ASSUME NEW t \in Thread,
               \/ QuietStep(t) \/ OwnStep(t) \/ GovernanceStep(t) \/ DeriveCommit(t) \/ Reserve(t)
        PROVE  WorkInv'
    <2>1. StatesMove(t) /\ epoch <= epoch'
      BY <1>2, ThreadStates
    <2>2. \A u \in Thread \ {t} : th'[u] = th[u]
      BY <1>2, AppliesOn, ApplyMoves DEF Inv, Moves
    <2>3. WorkOK(th[t])'
      <3>1. CASE Reserve(t)
        <4>1. Moves(t, "backend_apply") /\ th'[t].att = NextAttempt(t)
          BY <3>1, ApplyMoves DEF Inv
        <4>2. attempts'[NextAttempt(t)].state = "Submitted"
          BY <3>1, ReserveKeeps
        <4> QED
          BY <4>1, <4>2 DEF Moves, WorkOK, AfterFold, FetchPCs
      <3>2. CASE DeriveCommit(t)
        BY <3>2, DeriveKeeps, WorkEnds
      <3> QED
        BY <1>2, <3>1, <3>2, WorkQuiet, WorkOwn, WorkGovernance
    <2> QED
      BY <1>1, <2>1, <2>2, <2>3, WorkOthers DEF WorkInv
  <1>3. CASE OutsideStep
    BY <1>3, OutsideKeeps DEF WorkInv, WorkOK, AfterFold
  <1>4. CASE Restart
    BY <1>4 DEF Restart, WorkInv, WorkOK, AfterFold, FetchPCs, Idle
  <1>5. CASE UNCHANGED vars
    BY <1>5 DEF vars, ledger, authority, WorkInv, WorkOK, AfterFold
  <1> QED
    BY <1>2, <1>3, <1>4, <1>5, StepKinds

\* That is an invariant as well.
LEMMA WorkInvariance ==
  ASSUME NoRecheck
  PROVE  Spec => []WorkInv
  <1>1. Init => WorkInv
    BY DEF Init, WorkInv, WorkOK, AfterFold, FetchPCs, Idle
  <1>2. Inv /\ HandleInv /\ NobodyRechecks /\ WorkInv /\ [Next]_vars => WorkInv'
    BY WorkStep
  <1> QED
    BY <1>1, <1>2, Invariance, HandleInvariance, NoRecheckInvariance, PTL DEF Spec

-----------------------------------------------------------------------------
(* What a record says of the effect is so *)

\* Nothing that shapes the traffic changes by itself.
NoDrift == "drift" \notin Faults

\* A readback that is about to be committed.
Seen(s) == s.pc = "commit" \/ (s.pc \in FetchPCs /\ s.then = "commit")

\* What it showed is still in force, unless the attempt is closed.
SeenInForce(s) ==
  Seen(s) /\ s.seen # "absent" /\ ~IsClosed(s.att) => installed[s.h][s.att].rate = s.seen

\* An attempt that is recorded as applied has its exact cadence in force.
AppliedIsExact ==
  \A a \in AttemptId : attempts[a].state = "Applied" =>
    \E h \in Handle : installed[h][a].rate = "exact"

\* A rate above the authorised one that was recorded is being withdrawn.
OverCovered ==
  \A h \in Handle, a \in AttemptId :
    attempts[a].state = "Mismatched" /\ installed[h][a].rate = "over" =>
      \E t \in Thread : At(t, "withdraw") /\ <<h, a>> \in th[t].todo

\* The inductive invariant.
EffectInv ==
  /\ \A t \in Thread : SeenInForce(th[t])
  /\ AppliedIsExact
  /\ OverCovered

\* No thread touches the effect of an attempt that waits for its commit or is
\* applied: withdrawals are of others, and a fence is at most the epoch that the
\* attempt was made under.
LEMMA HeldEffects ==
  ASSUME Inv, EpochInv, PlaceInv, WorkInv, NEW t \in Thread, NEW h \in Handle,
         NEW a \in AttemptId,
         \/ QuietStep(t) \/ OwnStep(t) \/ GovernanceStep(t) \/ DeriveCommit(t) \/ Reserve(t)
  PROVE  /\ attempts[a].state \in {"Acknowledged", "Applied"} =>
              installed'[h][a] = installed[h][a]
         /\ attempts[a].state = "Mismatched" =>
              installed'[h][a] \in {installed[h][a], NoEffect}
  <1>1. Affects(t, h, a) /\ WorkOK(th[t])
    BY ThreadEffects DEF WorkInv
  <1>2. CASE At(t, "withdraw") /\ <<h, a>> \in th[t].todo /\ installed'[h][a] = NoEffect
    BY <1>1, <1>2 DEF At, WorkOK, ClosedStates
  <1>3. CASE /\ installed'[h][a] = NoEffect
             /\ At(t, "rebind") /\ installed[h][a].epoch < th[t].fence
    <2>1. /\ th[t].fence <= epoch /\ th[t].fence \in Nat /\ epoch \in Nat
          /\ installed[h][a].epoch \in Nat
      BY <1>1, <1>3 DEF At, WorkOK, Inv, TypeOK, ThreadState, Effect
    <2>2. CASE installed[h][a] = NoEffect
      BY <1>3, <2>2
    <2>3. CASE installed[h][a] # NoEffect
      <3>1. attempts[a].authority.epoch < epoch
        BY <1>3, <2>1, <2>3 DEF PlaceInv, EffectsInPlace
      <3>2. attempts[a].state \notin PendingStates \cup InForceStates
        BY <2>1, <3>1 DEF EpochInv, ClaimsOfThisEpoch
      <3> QED
        BY <1>3, <3>2 DEF PendingStates, InForceStates
    <2> QED
      BY <2>2, <2>3
  <1>4. CASE BackendApply(t) /\ a = th[t].att
    BY <1>1, <1>4 DEF BackendApply, At, WorkOK, ClosedStates
  <1> QED
    BY <1>1, <1>2, <1>3, <1>4 DEF Affects

\* A thread that withdraws does nothing else.
LEMMA OnlyWithdraws ==
  ASSUME Inv, NEW t \in Thread, At(t, "withdraw"),
         \/ QuietStep(t) \/ OwnStep(t) \/ GovernanceStep(t) \/ DeriveCommit(t) \/ Reserve(t)
  PROVE  Withdraw(t)
  <1>1. ~(\/ DeriveBegin(t)
          \/ \E e \in EnvelopeId, b \in Backend, r \in {0} \cup AttemptId : ApplyResolve(t, e, b, r)
          \/ \E a \in AttemptId : VerifyBegin(t, a) \/ RevalidateBegin(t, a))
    BY DEF DeriveBegin, ApplyResolve, VerifyBegin, RevalidateBegin, Calls, At
  <1>2. ~(FetchLocal(t) \/ FetchGrant(t) \/ FetchEpoch(t) \/ FetchRefused(t) \/ Readback(t))
    BY DEF FetchLocal, FetchGrant, FetchEpoch, FetchRefused, Readback, At
  <1>3. ~(\/ DeriveRefused(t) \/ ReserveNotDurable(t) \/ ReserveRefused(t) \/ BackendApply(t)
          \/ FoldClosed(t) \/ CommitLate(t) \/ RebindEpoch(t) \/ VerifyRefused(t)
          \/ RevalidateRefused(t) \/ DeriveCommit(t) \/ Reserve(t))
    BY DEF DeriveRefused, ReserveNotDurable, ReserveRefused, BackendApply, FoldClosed, CommitLate,
           RebindEpoch, VerifyRefused, RevalidateRefused, DeriveCommit, Reserve, At
  <1>4. ~OwnStep(t)
    BY DEF OwnStep, FoldUnregistered, FoldFailed, FoldAcknowledged, CommitStale, CommitEvidence,
           CommitUnverified, VerifyStale, VerifyCommit, RevalidateStale, RevalidateNoEvidence,
           RevalidateCommit, At
  <1>5. ~GovernanceStep(t)
    BY DEF GovernanceStep, CancelAttempt, RevokeEnvelope, FenceBelow, AdvanceEpoch, Calls, At
  <1> QED
    BY <1>1, <1>2, <1>3, <1>4, <1>5 DEF QuietStep

\* Only a readback leads to a commit of evidence, by way of fetch_authority.
LEMMA SeenOn ==
  ASSUME Inv, NobodyRechecks, NEW t \in Thread, Seen(th[t])',
         \/ QuietStep(t) \/ OwnStep(t) \/ GovernanceStep(t) \/ DeriveCommit(t) \/ Reserve(t)
  PROVE  /\ QuietStep(t) /\ UNCHANGED installed /\ SameWork(t)
         /\ \/ Seen(th[t]) /\ th'[t].seen = th[t].seen
            \/ th'[t].seen \in Observed(th[t].h, th[t].att)
  <1>1. TypeOK /\ ThreadOK(th[t], Len(envelopes), PresentAttempts)
    BY DEF Inv, ThreadsOK
  <1>2. ~\E W : Ends(t, W)
    BY DEF Ends, Moves, Seen, FetchPCs
  <1>3. ~(\/ DeriveBegin(t)
          \/ \E e \in EnvelopeId, b \in Backend, r \in {0} \cup AttemptId : ApplyResolve(t, e, b, r)
          \/ \E a \in AttemptId : VerifyBegin(t, a) \/ RevalidateBegin(t, a))
    BY <1>1, BeginMoves DEF Moves, Seen
  <1>4. CASE FetchLocal(t) \/ FetchGrant(t) \/ FetchEpoch(t) \/ FetchRefused(t)
    <2>1. /\ th[t].pc \in FetchPCs
          /\ \E pc \in {"fetch_grant", "fetch_epoch", th[t].then} : FetchMoves(t, pc)
      BY <1>1, <1>4, FetchLocalMoves, FetchGrantMoves, FetchEpochMoves, FetchRefusedMoves
         DEF FetchLocal, FetchGrant, FetchEpoch, FetchRefused, At, FetchPCs
    <2>2. UNCHANGED installed
      BY <1>4 DEF FetchLocal, FetchGrant, FetchEpoch, FetchRefused
    <2>3. Seen(th[t]) /\ th'[t].seen = th[t].seen /\ SameWork(t)
      BY <1>1, <2>1 DEF FetchMoves, Moves, Seen, ThreadOK, FetchPCs
    <2> QED
      BY <1>4, <2>2, <2>3 DEF QuietStep
  <1>5. CASE Readback(t)
    <2>1. UNCHANGED installed
      BY <1>5 DEF Readback
    <2> QED
      BY <1>1, <1>5, <2>1, ApplyMoves DEF QuietStep
  <1>6. /\ ~BackendApply(t) /\ ~Reserve(t) /\ ~FoldAcknowledged(t) /\ ~RebindEpoch(t)
        /\ ~AdvanceEpoch(t)
    BY <1>1, <1>2, ApplyMoves, RebindMoves, GovernanceThreadMoves DEF Moves, Seen, FetchPCs
  <1>7. ~(\/ DeriveRefused(t) \/ ReserveNotDurable(t) \/ ReserveRefused(t) \/ FoldClosed(t)
          \/ CommitLate(t) \/ Withdraw(t) \/ VerifyRefused(t) \/ RevalidateRefused(t))
    BY <1>1, <1>2, EndMoves DEF DeriveRefused, ReserveNotDurable, ReserveRefused,
       FoldClosed, CommitLate, Withdraw, VerifyRefused, RevalidateRefused
  <1>8. ~OwnStep(t) /\ ~GovernanceStep(t) /\ ~DeriveCommit(t)
    BY <1>1, <1>2, <1>6, OwnPlaces, GovernanceThreadMoves, DeriveKeeps DEF GovernanceStep
  <1> QED
    BY <1>3, <1>4, <1>5, <1>6, <1>7, <1>8 DEF QuietStep

\* What a thread has read back stays as it was read.
LEMMA SeenStep ==
  ASSUME Inv, HandleInv, EpochInv, PlaceInv, WorkInv, EffectInv, NEW t \in Thread,
         \/ QuietStep(t) \/ OwnStep(t) \/ GovernanceStep(t) \/ DeriveCommit(t) \/ Reserve(t),
         NEW u \in Thread
  PROVE  SeenInForce(th[u])'
  <1> SUFFICES ASSUME Seen(th[u])', th'[u].seen # "absent",
                      attempts'[th'[u].att].state \notin ClosedStates
               PROVE  installed'[th'[u].h][th'[u].att].rate = th'[u].seen
    BY DEF SeenInForce, IsClosed
  <1>1. SeenInForce(th[u]) /\ WorkOK(th[u]) /\ NobodyRechecks
    BY DEF EffectInv, WorkInv, EpochInv
  <1>2. CASE u = t
    <2>1. /\ QuietStep(t) /\ UNCHANGED installed /\ SameWork(t)
          /\ \/ Seen(th[t]) /\ th'[t].seen = th[t].seen
             \/ th'[t].seen \in Observed(th[t].h, th[t].att)
      BY <1>1, <1>2, SeenOn
    <2>2. UNCHANGED attempts
      BY <2>1, QuietKeeps
    <2>3. CASE Seen(th[t]) /\ th'[t].seen = th[t].seen
      BY <1>1, <1>2, <2>1, <2>2, <2>3 DEF SeenInForce, SameWork, IsClosed
    <2>4. CASE th'[t].seen \in Observed(th[t].h, th[t].att)
      BY <1>2, <2>1, <2>4 DEF Observed, SameWork
    <2> QED
      BY <2>1, <2>3, <2>4
  <1>3. CASE u # t
    <2> DEFINE a == th[u].att
    <2>1. th'[u] = th[u] /\ Seen(th[u])
      BY <1>3, AppliesOn, ApplyMoves DEF Inv, Moves, Seen
    <2>2. AfterFold(th[u]) /\ Applies(th[u])
      BY <2>1 DEF Seen, AfterFold, Applies
    <2>3. /\ a \in AttemptId /\ th[u].h \in Handle
          /\ ~(Applies(th[t]) /\ th[t].att = a)
      BY <1>3, <2>2, AttemptFacts, ApplyFacts DEF ForAttempt, HandleInv, OneApplier
    <2>4. attempts[a].state \in ClosedStates \cup {"Acknowledged"}
      BY <1>1, <2>2 DEF WorkOK
    <2>5. StatesMove(t)
      BY <1>1, ThreadStates
    <2>6. ~IsClosed(a)
      BY <2>1, <2>3, <2>4, <2>5 DEF StatesMove, IsClosed, ClosedStates
    <2>7. attempts[a].state = "Acknowledged"
      BY <2>4, <2>6 DEF IsClosed
    <2>8. installed'[th[u].h][a] = installed[th[u].h][a]
      BY <2>3, <2>7, HeldEffects
    <2> QED
      BY <1>1, <2>1, <2>6, <2>8 DEF SeenInForce
  <1> QED
    BY <1>2, <1>3

\* An evidence that is committed is in force.
LEMMA CommittedEvidence ==
  ASSUME Inv, EffectInv, PlaceInv, NEW t \in Thread, CommitEvidence(t)
  PROVE  /\ th[t].h \in Handle /\ th[t].att \in AttemptId
         /\ attempts'[th[t].att].state = Finalized(th[t].seen)
         /\ th[t].seen # "absent" => installed[th[t].h][th[t].att].rate = th[t].seen
         /\ UNCHANGED installed
         /\ th[t].seen = "over" => At(t, "withdraw")' /\ <<th[t].h, th[t].att>> \in th'[t].todo
  <1>1. Seen(th[t]) /\ Applies(th[t]) /\ attempts[th[t].att].state = "Acknowledged"
    BY DEF CommitEvidence, At, Seen, Applies, Awaits
  <1>2. th[t].h \in Handle /\ th[t].att \in AttemptId
    BY <1>1, AttemptFacts, ApplyFacts DEF ForAttempt
  <1>3. attempts'[th[t].att].state = Finalized(th[t].seen)
    BY <1>2, OwnMoves DEF Moved
  <1>4. th[t].seen # "absent" => installed[th[t].h][th[t].att].rate = th[t].seen
    BY <1>1 DEF EffectInv, SeenInForce, IsClosed, ClosedStates
  <1>5. th[t].seen = "over" => At(t, "withdraw")' /\ <<th[t].h, th[t].att>> \in th'[t].todo
    <2> DEFINE W == {<<th[t].h, th[t].att>>}
    <2>1. th[t].seen = "over" => ThenWithdraw(t, W)
      BY DEF CommitEvidence, UnsafeEffect
    <2>2. W # {} /\ <<th[t].h, th[t].att>> \in W
      OBVIOUS
    <2> HIDE DEF W
    <2>3. ThenWithdraw(t, W) => Ends(t, W)
      BY EndMoves DEF Inv
    <2> QED
      BY <2>1, <2>2, <2>3 DEF Ends, Moves, At
  <1> QED
    BY <1>2, <1>3, <1>4, <1>5 DEF CommitEvidence

\* No other step records an attempt as applied or mismatched.
LEMMA RecordsEvidence ==
  ASSUME Inv, NobodyRechecks, NEW t \in Thread, NEW a \in AttemptId,
         \/ QuietStep(t) \/ OwnStep(t) \/ GovernanceStep(t) \/ DeriveCommit(t) \/ Reserve(t),
         attempts'[a].state \in {"Applied", "Mismatched"}
  PROVE  attempts[a].state = attempts'[a].state \/ (CommitEvidence(t) /\ a = th[t].att)
  <1>1. StatesMove(t)
    BY ThreadStates
  <1>2. CASE ~OwnStep(t)
    <2>1. CASE QuietStep(t) \/ DeriveCommit(t)
      BY <2>1, QuietKeeps, DeriveKeeps
    <2>2. CASE Reserve(t)
      BY <2>2, ReserveKeeps
    <2>3. CASE GovernanceStep(t)
      <3>1. PICK S \in SUBSET PresentAttempts, next \in ClosedStates : Moved(S, next)
        BY <2>3, GovernanceKeeps
      <3> QED
        BY <3>1 DEF Moved, ClosedStates
    <2> QED
      BY <1>2, <2>1, <2>2, <2>3
  <1>3. CASE OwnStep(t)
    <2> DEFINE S == {th[t].att}
    <2>1. \/ CommitEvidence(t) /\ Moved(S, Finalized(th[t].seen))
          \/ Unmoved
          \/ \E next \in {"Failed", "Acknowledged", "Stale", "AppliedUnverified"} : Moved(S, next)
      <3>1. ~(\/ VerifyStale(t) \/ VerifyCommit(t)
              \/ RevalidateStale(t) \/ RevalidateNoEvidence(t) \/ RevalidateCommit(t))
        BY DEF VerifyStale, VerifyCommit, RevalidateStale, RevalidateNoEvidence,
               RevalidateCommit, NobodyRechecks, Rechecks, At
      <3> QED
        BY <1>3, <3>1, OwnMoves DEF OwnStep
    <2> QED
      BY <2>1 DEF Moved, Unmoved
  <1> QED
    BY <1>2, <1>3

\* A step of a thread.
LEMMA EffectThread ==
  ASSUME Inv, HandleInv, EpochInv, PlaceInv, WorkInv, EffectInv, NEW t \in Thread,
         \/ QuietStep(t) \/ OwnStep(t) \/ GovernanceStep(t) \/ DeriveCommit(t) \/ Reserve(t)
  PROVE  EffectInv'
  <1>1. \A u \in Thread : SeenInForce(th[u])'
    BY SeenStep
  <1>2. NobodyRechecks /\ installed \in [Handle -> [AttemptId -> Effect]]
    BY DEF EpochInv, Inv, TypeOK
  <1>3. AppliedIsExact'
    <2> SUFFICES ASSUME NEW a \in AttemptId, attempts'[a].state = "Applied"
                 PROVE  \E h \in Handle : installed'[h][a].rate = "exact"
      BY DEF AppliedIsExact
    <2>1. CASE attempts[a].state = "Applied"
      <3>1. PICK h \in Handle : installed[h][a].rate = "exact"
        BY <2>1 DEF EffectInv, AppliedIsExact
      <3> QED
        BY <2>1, <3>1, HeldEffects
    <2>2. CASE CommitEvidence(t) /\ a = th[t].att
      BY <2>2, CommittedEvidence DEF Finalized
    <2> QED
      BY <1>2, <2>1, <2>2, RecordsEvidence
  <1>4. OverCovered'
    <2> SUFFICES ASSUME NEW h \in Handle, NEW a \in AttemptId,
                        attempts'[a].state = "Mismatched", installed'[h][a].rate = "over"
                 PROVE  \E u \in Thread : At(u, "withdraw")' /\ <<h, a>> \in th'[u].todo
      BY DEF OverCovered, At
    <2>1. CASE attempts[a].state = "Mismatched"
      <3>1. installed'[h][a] = installed[h][a] /\ installed'[h][a] # NoEffect
        BY <2>1, HeldEffects DEF NoEffect
      <3>2. PICK u \in Thread : At(u, "withdraw") /\ <<h, a>> \in th[u].todo
        BY <2>1, <3>1 DEF EffectInv, OverCovered
      <3>3. CASE u # t
        <4>1. th'[u] = th[u]
          BY <3>3, AppliesOn, ApplyMoves DEF Inv, Moves
        <4> QED
          BY <3>2, <4>1 DEF At
      <3>4. CASE u = t
        <4>1. Withdraw(t)
          BY <3>2, <3>4, OnlyWithdraws
        <4>2. PICK w \in th[t].todo :
                /\ Ends(t, th[t].todo \ {w})
                /\ installed'[h][a] = IF h = w[1] /\ a = w[2] THEN NoEffect ELSE installed[h][a]
          BY <4>1, WithdrawMoves
        <4>3. w # <<h, a>>
          BY <3>1, <4>2
        <4> DEFINE W == th[t].todo \ {w}
        <4>4. <<h, a>> \in W /\ W # {}
          BY <3>2, <3>4, <4>3
        <4> HIDE DEF W
        <4>5. Ends(t, W)
          BY <4>2 DEF W
        <4> QED
          BY <4>4, <4>5 DEF Ends, Moves, At
      <3> QED
        BY <3>3, <3>4
    <2>2. CASE CommitEvidence(t) /\ a = th[t].att
      <3>1. /\ th[t].h \in Handle /\ installed'[h][a] = installed[h][a]
            /\ th[t].seen \in {"over", "under"}
            /\ installed[th[t].h][a].rate = th[t].seen
        BY <2>2, CommittedEvidence DEF Finalized
      <3>2. installed[th[t].h][a] # NoEffect /\ installed[h][a] # NoEffect
        BY <3>1 DEF NoEffect
      <3>3. h = th[t].h
        BY <3>1, <3>2 DEF HandleInv, OneHandlePerAttempt
      <3> QED
        BY <2>2, <3>1, <3>3, CommittedEvidence
    <2> QED
      BY <1>2, <2>1, <2>2, RecordsEvidence
  <1> QED
    BY <1>1, <1>3, <1>4 DEF EffectInv

\* Every step keeps the records true, unless a shaper drifts.
LEMMA EffectStep ==
  ASSUME NoDrift, Inv, HandleInv, EpochInv, PlaceInv, WorkInv, EffectInv, [Next]_vars
  PROVE  EffectInv'
  <1>1. CASE OutsideStep
    <2>1. UNCHANGED <<attempts, th>>
      BY <1>1, OutsideKeeps
    <2>2. \A h \in Handle, a \in AttemptId : installed'[h][a] = installed[h][a]
      BY <1>1, OutsideEffects DEF NoDrift
    <2>3. ASSUME NEW t \in Thread
          PROVE  SeenInForce(th[t])'
      <3>1. Seen(th[t]) => th[t].h \in Handle /\ th[t].att \in AttemptId
        BY AttemptFacts, ApplyFacts DEF Seen, Applies, ForAttempt
      <3> QED
        BY <2>1, <2>2, <3>1 DEF EffectInv, SeenInForce, Seen, IsClosed
    <2>4. AppliedIsExact' /\ OverCovered'
      BY <2>1, <2>2 DEF EffectInv, AppliedIsExact, OverCovered, At
    <2> QED
      BY <2>3, <2>4 DEF EffectInv
  <1>2. CASE Restart
    <2>1. th' = [t \in Thread |-> Idle]
      BY <1>2 DEF Restart
    <2>2. \A t \in Thread : SeenInForce(th[t])'
      BY <2>1 DEF SeenInForce, Seen, FetchPCs, Idle
    <2>3. \A a \in AttemptId : attempts'[a].state \notin {"Applied", "Mismatched"}
      BY <1>2, RestartKeeps DEF ClosedStates
    <2> QED
      BY <2>2, <2>3 DEF EffectInv, AppliedIsExact, OverCovered
  <1>3. CASE UNCHANGED vars
    BY <1>3 DEF vars, ledger, EffectInv, SeenInForce, Seen, IsClosed, AppliedIsExact,
                OverCovered, At
  <1> QED
    BY <1>1, <1>2, <1>3, StepKinds, EffectThread

\* The invariant holds in every reachable state.
LEMMA EffectInvariance ==
  ASSUME NoRecheck, NoDrift
  PROVE  Spec => []EffectInv
  <1>1. Init => EffectInv
    BY DEF Init, EffectInv, SeenInForce, Seen, FetchPCs, Idle, AppliedIsExact, OverCovered,
           NoRecord, NoEffect
  <1>2. /\ Inv /\ HandleInv /\ EpochInv /\ PlaceInv /\ WorkInv
        /\ EffectInv /\ [Next]_vars
        => EffectInv'
    BY EffectStep
  <1> QED
    BY <1>1, <1>2, Invariance, HandleInvariance, EpochInvariance, PlaceInvariance,
       WorkInvariance, PTL DEF Spec

\* A record that claims an effect is right: a handle of its backend has exactly
\* the authorised cadence in force, also while others cancel, revoke and fence.
THEOREM ClaimsAreTrue ==
  ASSUME NoRecheck, NoDrift
  PROVE  Spec => []ClaimedIsInForce
  <1>1. PlaceInv /\ EffectInv => ClaimedIsInForce
    <2> SUFFICES ASSUME PlaceInv, EffectInv, NEW a \in AttemptId, claims_effect(attempts[a])
                 PROVE  \E h \in Handle : /\ BackendOf[h] = attempts[a].backend
                                          /\ installed[h][a].rate = "exact"
      BY DEF ClaimedIsInForce
    <2>1. PICK h \in Handle : installed[h][a].rate = "exact"
      BY DEF EffectInv, AppliedIsExact, claims_effect, asserts_effect
    <2>2. installed[h][a] # NoEffect
      BY <2>1 DEF NoEffect
    <2> QED
      BY <2>1, <2>2 DEF PlaceInv, EffectsInPlace
  <1> QED
    BY <1>1, PlaceInvariance, EffectInvariance, PTL

\* Pacing that a readback showed above the authorised rate does not stay in force
\* once the operation that saw it is over.
THEOREM OverRatesAreWithdrawn ==
  ASSUME NoRecheck, NoDrift
  PROVE  Spec => []OverRateWithdrawn
  <1>1. EffectInv => OverRateWithdrawn
    BY DEF EffectInv, OverCovered, OverRateWithdrawn, Quiescent, At
  <1> QED
    BY <1>1, EffectInvariance, PTL

-----------------------------------------------------------------------------
(* No effect is left behind by an attempt that is closed *)

\* A handle that is replaced or unregistered is not asked to withdraw, a restart
\* forgets what was being withdrawn, an epoch whose append fails is not told to the
\* backends, and a late completion of a backend without readback, or one that
\* acknowledges another attempt, withdraws nothing.  With none of these, and
\* without the two operations that reopen an attempt:
Undisturbed ==
  /\ Operations \cap {"verify", "revalidate", "restart", "register", "unregister"} = {}
  /\ Faults \cap {"journal", "misidentify"} = {}
  /\ Readable = Handle

\* An effect that no record says is in force has a thread that will remove it, or
\* that is still applying it.
Covers(s, h, a) ==
  \/ s.pc = "withdraw" /\ <<h, a>> \in s.todo
  \/ s.pc = "rebind" /\ <<h, 0>> \in s.todo /\ installed[h][a].epoch < s.fence
  \/ Applies(s) /\ s.att = a
Covered ==
  \A h \in Handle, a \in AttemptId :
    installed[h][a] # NoEffect /\ attempts[a].state \notin InForceStates =>
      \E t \in Thread : Covers(th[t], h, a)

\* An application on its way to a commit without evidence.
Unverified(s) ==
  s.pc = "commit_unverified" \/ (s.pc \in FetchPCs /\ s.then = "commit_unverified")

\* A thread applies at the handle that is registered, reads back what it applied,
\* and folds in a refusal only when nothing was installed.
SteadyOK(s) ==
  /\ ForEnvelope(s) \/ Applies(s) => registry[s.backend] = s.h
  /\ s.pc = "fold" => /\ s.seen # "misidentify"
                      /\ s.seen = "reject" => \A h \in Handle : installed[h][s.att] = NoEffect
  /\ ~Unverified(s)

\* So effects are at the handles that governance asks to withdraw them, and an
\* applied attempt has the claim that fence_below looks for.
EffectsAtRegistered ==
  \A h \in Handle, a \in AttemptId :
    installed[h][a] # NoEffect => registry[attempts[a].backend] = h
AppliedIsClaimed ==
  \A a \in AttemptId : attempts[a].state = "Applied" => ~attempts[a].requires_revalidation

\* The inductive invariant.
CoverInv ==
  /\ \A t \in Thread : SteadyOK(th[t])
  /\ EffectsAtRegistered
  /\ AppliedIsClaimed
  /\ Covered

\* The handles stay, and so does the boot.
LEMMA UndisturbedStep ==
  ASSUME Undisturbed
  PROVE  /\ NoRecheck /\ ~Restart
         /\ OutsideStep => UNCHANGED registry
  <1>1. OutsideStep => UNCHANGED registry
    BY DEF Undisturbed, OutsideStep, RevokeNotDurable, RegisterBackend, UnregisterBackend,
           ChangeLocal, ChangeGrant, ShaperDrifts
  <1> QED
    BY <1>1 DEF Undisturbed, NoRecheck, Restart

\* Only a call of apply leads to the fold, and an acknowledged attempt is read back.
LEMMA SteadyOn ==
  ASSUME Undisturbed, Inv, NEW t \in Thread,
         \/ QuietStep(t) \/ OwnStep(t) \/ GovernanceStep(t) \/ DeriveCommit(t) \/ Reserve(t)
  PROVE  /\ th'[t].pc = "fold" => BackendApply(t)
         /\ Unverified(th[t])' => Unverified(th[t])
  <1> DEFINE P == /\ th'[t].pc = "fold" => BackendApply(t)
                  /\ Unverified(th[t])' => Unverified(th[t])
  <1>1. TypeOK /\ ThreadOK(th[t], Len(envelopes), PresentAttempts)
    BY DEF Inv, ThreadsOK
  <1>2. (\E W : Ends(t, W)) => P
    BY DEF Ends, Moves, Unverified, FetchPCs
  <1>3. CASE \/ DeriveBegin(t)
             \/ \E e \in EnvelopeId, b \in Backend, r \in {0} \cup AttemptId :
                  ApplyResolve(t, e, b, r)
             \/ \E a \in AttemptId : VerifyBegin(t, a) \/ RevalidateBegin(t, a)
    BY <1>1, <1>3, BeginMoves DEF Moves, Unverified
  <1>4. CASE FetchLocal(t) \/ FetchGrant(t) \/ FetchEpoch(t) \/ FetchRefused(t)
    <2>1. /\ th[t].pc \in FetchPCs
          /\ \E pc \in {"fetch_grant", "fetch_epoch", th[t].then} : FetchMoves(t, pc)
      BY <1>1, <1>4, FetchLocalMoves, FetchGrantMoves, FetchEpochMoves, FetchRefusedMoves
         DEF FetchLocal, FetchGrant, FetchEpoch, FetchRefused, At, FetchPCs
    <2> QED
      BY <1>1, <2>1 DEF FetchMoves, Moves, Unverified, ThreadOK, FetchPCs
  <1>5. CASE BackendApply(t) \/ Reserve(t)
    BY <1>1, <1>5, ApplyMoves DEF Moves, Unverified, FetchPCs
  <1>6. CASE Readback(t)
    <2>1. /\ Moves(t, AfterReadback(th[t].then)) /\ th'[t].then = th[t].then
          /\ th[t].then # "commit_unverified"
      BY <1>1, <1>6, ApplyMoves DEF Readback, At, ThreadOK
    <2> QED
      BY <2>1 DEF Moves, Unverified, FetchPCs, AfterReadback
  <1>7. CASE FoldAcknowledged(t)
    <2>1. th[t].h \in Handle
      BY <1>7, ApplyFacts DEF FoldAcknowledged, At, Applies
    <2> QED
      BY <1>1, <1>7, <2>1, ApplyMoves DEF Undisturbed, Moves, Unverified, FetchPCs
  <1>8. CASE RebindEpoch(t)
    BY <1>1, <1>8, RebindMoves DEF Moves, Unverified, FetchPCs
  <1>9. CASE \/ DeriveRefused(t) \/ ReserveNotDurable(t) \/ ReserveRefused(t) \/ FoldClosed(t)
             \/ CommitLate(t) \/ Withdraw(t) \/ VerifyRefused(t) \/ RevalidateRefused(t)
    BY <1>1, <1>2, <1>9, EndMoves DEF DeriveRefused, ReserveNotDurable, ReserveRefused,
       FoldClosed, CommitLate, Withdraw, VerifyRefused, RevalidateRefused
  <1>10. CASE OwnStep(t) /\ ~FoldAcknowledged(t)
    BY <1>2, <1>10, OwnPlaces
  <1>11. CASE GovernanceStep(t)
    BY <1>1, <1>2, <1>11, GovernanceThreadMoves DEF GovernanceStep, Moves, Unverified, FetchPCs
  <1>12. CASE DeriveCommit(t)
    BY <1>2, <1>12, DeriveKeeps
  <1> QED
    BY <1>3, <1>4, <1>5, <1>6, <1>7, <1>8, <1>9, <1>10, <1>11, <1>12 DEF QuietStep

\* The threads after a step of one of them.
LEMMA SteadyStep ==
  ASSUME Undisturbed, Inv, HandleInv, CoverInv, NEW t \in Thread,
         \/ QuietStep(t) \/ OwnStep(t) \/ GovernanceStep(t) \/ DeriveCommit(t) \/ Reserve(t),
         NEW u \in Thread
  PROVE  SteadyOK(th[u])'
  <1>1. SteadyOK(th[u]) /\ SteadyOK(th[t]) /\ UNCHANGED registry
    BY QuietKeeps, OwnKeeps, GovernanceKeeps, DeriveKeeps, ReserveKeeps DEF CoverInv
  <1>2. CASE u # t
    <2>1. th'[u] = th[u]
      BY <1>2, AppliesOn, ApplyMoves DEF Inv, Moves
    <2>2. CASE th[u].pc = "fold" /\ th[u].seen = "reject"
      <3>1. Applies(th[u])
        BY <2>2 DEF Applies
      <3>2. ASSUME NEW h \in Handle
            PROVE  installed'[h][th[u].att] = NoEffect
        <4>1. th[u].att \in AttemptId /\ installed[h][th[u].att] = NoEffect
          BY <1>1, <2>2, <3>1, AttemptFacts DEF ForAttempt, SteadyOK
        <4>2. ~(BackendApply(t) /\ th[t].att = th[u].att)
          BY <1>2, <3>1 DEF BackendApply, At, Applies, HandleInv, OneApplier
        <4> QED
          BY <4>1, <4>2, ThreadEffects DEF Affects
      <3> QED
        BY <1>1, <2>1, <3>2 DEF SteadyOK, ForEnvelope, Applies, Unverified
    <2> QED
      BY <1>1, <2>1, <2>2 DEF SteadyOK, ForEnvelope, Applies, Unverified
  <1>3. CASE u = t
    <2>1. ~Unverified(th[t])' /\ (th'[t].pc = "fold" => BackendApply(t))
      BY <1>1, SteadyOn DEF SteadyOK
    <2>2. CASE BackendApply(t)
      <3>1. Moves(t, "fold") /\ SameWork(t) /\ Applies(th[t])
        BY <2>2, ApplyMoves DEF Inv, BackendApply, At, Applies
      <3>2. th[t].att \in AttemptId /\ \A h \in Handle : installed[h][th[t].att] = NoEffect
        BY <2>2, <3>1, AttemptFacts DEF ForAttempt, HandleInv, NotYetInstalled, BackendApply
      <3>3. th'[t].seen # "misidentify" /\ (th'[t].seen = "reject" => installed' = installed)
        BY <2>2, BackendApplyEffects DEF Undisturbed
      <3> QED
        BY <1>1, <1>3, <2>1, <3>1, <3>2, <3>3 DEF SteadyOK, Moves, SameWork, ForEnvelope, FetchPCs
    <2>3. CASE Reserve(t)
      <3>1. /\ Moves(t, "backend_apply") /\ th'[t].backend = th[t].backend /\ th'[t].h = th[t].h
            /\ ForEnvelope(th[t])
        BY <2>3, ApplyMoves DEF Inv, Reserve, At, ForEnvelope
      <3> QED
        BY <1>1, <1>3, <2>1, <3>1 DEF SteadyOK, Moves
    <2>4. CASE ~BackendApply(t) /\ ~Reserve(t)
      <3>1. ForEnvelope(th[t])' => registry[th'[t].backend] = th'[t].h
        BY <1>1, <2>4, EnvelopeOn DEF SteadyOK, SameWork
      <3>2. Applies(th[t])' => registry[th'[t].backend] = th'[t].h
        BY <1>1, <2>4, AppliesOn DEF SteadyOK, SameWork
      <3> QED
        BY <1>1, <1>3, <2>1, <2>4, <3>1, <3>2 DEF SteadyOK
    <2> QED
      BY <2>2, <2>3, <2>4
  <1> QED
    BY <1>2, <1>3

\* The effects after it.
LEMMA RegisteredStep ==
  ASSUME Undisturbed, Inv, PlaceInv, CoverInv, NEW t \in Thread,
         \/ QuietStep(t) \/ OwnStep(t) \/ GovernanceStep(t) \/ DeriveCommit(t) \/ Reserve(t),
         RecordsKept
  PROVE  EffectsAtRegistered'
  <1> SUFFICES ASSUME NEW h \in Handle, NEW a \in AttemptId, installed'[h][a] # NoEffect
               PROVE  registry'[attempts'[a].backend] = h
    BY DEF EffectsAtRegistered
  <1>1. UNCHANGED registry
    BY QuietKeeps, OwnKeeps, GovernanceKeeps, DeriveKeeps, ReserveKeeps
  <1>2. CASE installed'[h][a] = installed[h][a]
    <2>1. Present(a)
      BY <1>2 DEF Inv, EveryEffectHasARecord
    <2> QED
      BY <1>1, <1>2, <2>1 DEF CoverInv, EffectsAtRegistered, RecordsKept
  <1>3. CASE BackendApply(t) /\ h = th[t].h /\ a = th[t].att
    <2>1. Applies(th[t])
      BY <1>3 DEF BackendApply, At, Applies
    <2>2. Present(a) /\ attempts[a].backend = th[t].backend /\ registry[th[t].backend] = h
      BY <1>3, <2>1, AttemptFacts DEF ForAttempt, PresentAttempts, PlaceInv, PlaceOK, CoverInv,
                                      SteadyOK
    <2> QED
      BY <1>1, <2>2 DEF RecordsKept
  <1> QED
    BY <1>2, <1>3, ThreadEffects DEF Affects

\* apply_transition clears the flag of what it records as applied.
LEMMA TransitionFlags ==
  ASSUME TypeOK, AppliedIsClaimed, NEW S, NEW next \in ApplicationStates, TransitionAll(S, next)
  PROVE  AppliedIsClaimed'
  <1> SUFFICES ASSUME NEW a \in AttemptId, attempts'[a].state = "Applied"
               PROVE  ~attempts'[a].requires_revalidation
    BY DEF AppliedIsClaimed
  <1>1. /\ attempts[a] \in Record
        /\ attempts'[a] = IF a \in S THEN Transition(attempts[a], next) ELSE attempts[a]
    BY DEF TypeOK, TransitionAll
  <1>2. CASE a \in S
    <2> DEFINE flag == (next = "RequiresRevalidation")
               label == EffectLabel(next)
               r == [attempts[a] EXCEPT !.state = next, !.effect = label,
                                        !.requires_revalidation = flag]
    <2>1. attempts'[a] = r
      BY <1>1, <1>2 DEF Transition
    <2> HIDE DEF flag, label
    <2>2. r.state = next /\ r.requires_revalidation = flag
      BY <1>1 DEF Record
    <2> HIDE DEF r
    <2>3. next = "Applied"
      BY <2>1, <2>2
    <2>4. flag = FALSE
      BY <2>3 DEF flag
    <2> QED
      BY <2>1, <2>2, <2>4
  <1>3. CASE a \notin S
    BY <1>1, <1>3 DEF AppliedIsClaimed
  <1> QED
    BY <1>2, <1>3

LEMMA ClaimedStep ==
  ASSUME Inv, NobodyRechecks, AppliedIsClaimed, NEW t \in Thread,
         \/ QuietStep(t) \/ OwnStep(t) \/ GovernanceStep(t) \/ DeriveCommit(t) \/ Reserve(t)
  PROVE  AppliedIsClaimed'
  <1>1. TypeOK
    BY DEF Inv
  <1>2. UNCHANGED attempts => AppliedIsClaimed'
    BY DEF AppliedIsClaimed
  <1>3. CASE QuietStep(t) \/ DeriveCommit(t)
    BY <1>2, <1>3, QuietKeeps, DeriveKeeps
  <1>4. CASE Reserve(t)
    <2>1. /\ attempts'[NextAttempt(t)].state = "Submitted"
          /\ \A a \in AttemptId \ {NextAttempt(t)} : attempts'[a] = attempts[a]
      BY <1>4, ReserveKeeps
    <2> HIDE DEF NextAttempt
    <2> QED
      BY <2>1 DEF AppliedIsClaimed
  <1>5. CASE OwnStep(t)
    <2> DEFINE f == Finalized(th[t].seen)
    <2>1. f \in ApplicationStates
          /\ {"Failed", "Acknowledged", "Stale", "AppliedUnverified"} \subseteq ApplicationStates
      BY TerminalStates DEF ApplicationStates, PendingStates
    <2>2. ~(\/ VerifyStale(t) \/ VerifyCommit(t)
            \/ RevalidateStale(t) \/ RevalidateNoEvidence(t) \/ RevalidateCommit(t))
      BY DEF VerifyStale, VerifyCommit, RevalidateStale, RevalidateNoEvidence,
             RevalidateCommit, NobodyRechecks, Rechecks, At
    <2>3. \/ UNCHANGED attempts
          \/ \E next \in {"Failed", "Acknowledged", "Stale", "AppliedUnverified", f} :
               TransitionAll({th[t].att}, next)
      BY <1>5, <2>2 DEF OwnStep, FoldUnregistered, FoldFailed, FoldAcknowledged, CommitStale,
                        CommitEvidence, CommitUnverified, Move, ledger
    <2> HIDE DEF f
    <2> QED
      BY <1>1, <1>2, <2>1, <2>3, TransitionFlags
  <1>6. CASE GovernanceStep(t)
    <2>1. {"Cancelled", "Revoked", "Fenced"} \subseteq ApplicationStates
      BY DEF ApplicationStates, ClosedStates
    <2>2. \A S : \A next \in {"Cancelled", "Revoked", "Fenced"} :
            TransitionAll(S, next) => AppliedIsClaimed'
      BY <1>1, <2>1, TransitionFlags
    <2>3. ASSUME NEW a \in AttemptId, CancelAttempt(t, a)
          PROVE  AppliedIsClaimed'
      <3> DEFINE S == {a}
      <3>1. TransitionAll(S, "Cancelled") \/ TransitionAll(S, "Revoked")
        BY <2>3 DEF CancelAttempt, Move
      <3> HIDE DEF S
      <3> QED
        BY <2>2, <3>1
    <2>4. ASSUME NEW e \in EnvelopeId, RevokeEnvelope(t, e)
          PROVE  AppliedIsClaimed'
      <3> DEFINE S == {a \in AttemptId : Present(a) /\ attempts[a].env = e /\ ~IsClosed(a)}
      <3>1. TransitionAll(S, "Revoked")
        BY <2>4 DEF RevokeEnvelope
      <3> HIDE DEF S
      <3> QED
        BY <2>2, <3>1
    <2>5. ASSUME NEW e \in 1 .. MaxEpoch + 1, FenceBelow(t, e)
          PROVE  AppliedIsClaimed'
      BY <2>2, <2>5 DEF FenceBelow, Move
    <2>6. CASE AdvanceEpoch(t)
      BY <2>2, <2>6 DEF AdvanceEpoch
    <2> QED
      BY <1>6, <2>3, <2>4, <2>5, <2>6 DEF GovernanceStep
  <1> QED
    BY <1>3, <1>4, <1>5, <1>6

\* A thread that tells the backends of an epoch does nothing else.
LEMMA OnlyRebinds ==
  ASSUME Inv, NEW t \in Thread, At(t, "rebind"),
         \/ QuietStep(t) \/ OwnStep(t) \/ GovernanceStep(t) \/ DeriveCommit(t) \/ Reserve(t)
  PROVE  RebindEpoch(t)
  <1>1. ~(\/ DeriveBegin(t)
          \/ \E e \in EnvelopeId, b \in Backend, r \in {0} \cup AttemptId : ApplyResolve(t, e, b, r)
          \/ \E a \in AttemptId : VerifyBegin(t, a) \/ RevalidateBegin(t, a))
    BY DEF DeriveBegin, ApplyResolve, VerifyBegin, RevalidateBegin, Calls, At
  <1>2. ~(FetchLocal(t) \/ FetchGrant(t) \/ FetchEpoch(t) \/ FetchRefused(t) \/ Readback(t))
    BY DEF FetchLocal, FetchGrant, FetchEpoch, FetchRefused, Readback, At
  <1>3. ~(\/ DeriveRefused(t) \/ ReserveNotDurable(t) \/ ReserveRefused(t) \/ BackendApply(t)
          \/ FoldClosed(t) \/ CommitLate(t) \/ Withdraw(t) \/ VerifyRefused(t)
          \/ RevalidateRefused(t) \/ DeriveCommit(t) \/ Reserve(t))
    BY DEF DeriveRefused, ReserveNotDurable, ReserveRefused, BackendApply, FoldClosed, CommitLate,
           Withdraw, VerifyRefused, RevalidateRefused, DeriveCommit, Reserve, At
  <1>4. ~OwnStep(t)
    BY DEF OwnStep, FoldUnregistered, FoldFailed, FoldAcknowledged, CommitStale, CommitEvidence,
           CommitUnverified, VerifyStale, VerifyCommit, RevalidateStale, RevalidateNoEvidence,
           RevalidateCommit, At
  <1>5. ~GovernanceStep(t)
    BY DEF GovernanceStep, CancelAttempt, RevokeEnvelope, FenceBelow, AdvanceEpoch, Calls, At
  <1> QED
    BY <1>1, <1>2, <1>3, <1>4, <1>5 DEF QuietStep

\* Governance covers what it closes.
LEMMA GovernanceCovers ==
  ASSUME Undisturbed, Inv, PlaceInv, CoverInv, NEW t \in Thread, GovernanceStep(t),
         NEW h \in Handle, NEW a \in AttemptId, installed[h][a] # NoEffect,
         attempts[a].state \in InForceStates, attempts'[a].state \notin InForceStates
  PROVE  Covers(th[t], h, a)'
  <1>1. /\ TypeOK /\ Present(a) /\ h # NoHandle
        /\ attempts[a].backend \in Backend /\ registry[attempts[a].backend] = h
    BY ConstantsAssumption DEF Inv, EveryEffectHasARecord, BackendsKnown, CoverInv,
                               EffectsAtRegistered
  <1>2. ASSUME NEW R, a \in R, ThenWithdraw(t, Withdrawals(R))
        PROVE  Covers(th[t], h, a)'
    <2>1. <<h, a>> \in Withdrawals(R)
      BY <1>1, <1>2 DEF Withdrawals
    <2>2. Ends(t, Withdrawals(R))
      BY <1>1, <1>2, EndMoves
    <2> QED
      BY <2>1, <2>2 DEF Ends, Moves, Covers
  <1>3. CASE \E b \in AttemptId : CancelAttempt(t, b)
    <2>1. PICK b \in AttemptId : CancelAttempt(t, b)
      BY <1>3
    <2> DEFINE next == IF IsPending(b) THEN "Cancelled" ELSE "Revoked"
               S == {b}
    <2>2. Moved(S, next) /\ ThenWithdraw(t, Withdrawals(S))
      BY <2>1, GovernanceMoves DEF CancelAttempt
    <2> HIDE DEF next, S
    <2>3. a \in S
      BY <2>2 DEF Moved
    <2> QED
      BY <1>2, <2>2, <2>3
  <1>4. CASE \E e \in EnvelopeId : RevokeEnvelope(t, e)
    <2>1. PICK e \in EnvelopeId : RevokeEnvelope(t, e)
      BY <1>4
    <2> DEFINE S == {b \in AttemptId : Present(b) /\ attempts[b].env = e /\ ~IsClosed(b)}
    <2>2. Moved(S, "Revoked") /\ ThenWithdraw(t, Withdrawals(S))
      BY <2>1, GovernanceMoves DEF RevokeEnvelope
    <2> HIDE DEF S
    <2>3. a \in S
      BY <2>2 DEF Moved
    <2> QED
      BY <1>2, <2>2, <2>3
  <1>5. CASE \E e \in 1 .. MaxEpoch + 1 : FenceBelow(t, e)
    <2>1. PICK e \in 1 .. MaxEpoch + 1 : FenceBelow(t, e)
      BY <1>5
    <2> DEFINE S == OpenBelow(e)
               R == {b \in S : ClaimedEffect(b)}
    <2>2. Moved(S, "Fenced") /\ ThenWithdraw(t, Withdrawals(R))
      BY <2>1, GovernanceMoves DEF FenceBelow
    <2>3. ClaimedEffect(a)
      BY DEF ClaimedEffect, claims_effect, asserts_effect, InForceStates, CoverInv,
             AppliedIsClaimed
    <2> HIDE DEF S
    <2>4. a \in R
      BY <2>2, <2>3 DEF Moved
    <2> HIDE DEF R
    <2> QED
      BY <1>2, <2>2, <2>4
  <1>6. CASE AdvanceEpoch(t)
    <2> DEFINE told == {<<registry[b], 0>> : b \in {c \in Backend : registry[c] # NoHandle}}
               s == [Idle EXCEPT !.pc = "rebind", !.todo = told, !.fence = epoch + 1]
               S == OpenBelow(epoch + 1)
    <2>1. Become(t, IF told = {} THEN Idle ELSE s) /\ UNCHANGED installed
      BY <1>6 DEF AdvanceEpoch, Undisturbed
    <2>2. <<h, 0>> \in told
      BY <1>1
    <2>3. Moved(S, "Fenced")
      BY <1>6, GovernanceMoves
    <2>4. a \in S
      BY <2>3 DEF Moved
    <2>5. installed[h][a].epoch < epoch + 1
      BY <2>4 DEF OpenBelow, PlaceInv, EffectsInPlace
    <2>6. told # {}
      BY <2>2
    <2> HIDE DEF told
    <2>7. s.pc = "rebind" /\ s.todo = told /\ s.fence = epoch + 1
      BY DEF Idle
    <2> HIDE DEF s
    <2>8. th'[t] = s
      BY <1>1, <2>1, <2>6, BecomeMoves
    <2> QED
      BY <2>1, <2>2, <2>5, <2>7, <2>8 DEF Covers
  <1> QED
    BY <1>3, <1>4, <1>5, <1>6 DEF GovernanceStep

\* An application that ends with its attempt closed withdraws what it installed.
LEMMA OwnCovers ==
  ASSUME Undisturbed, Inv, NobodyRechecks, PlaceInv, CoverInv, NEW t \in Thread,
         Applies(th[t]), NEW h \in Handle, NEW a \in AttemptId, a = th[t].att,
         installed[h][a] # NoEffect, attempts'[a].state \notin InForceStates,
         QuietStep(t) \/ OwnStep(t)
  PROVE  Covers(th[t], h, a)'
  <1> DEFINE W == {<<h, th[t].att>>}
  <1>1. /\ TypeOK /\ ThreadOK(th[t], Len(envelopes), PresentAttempts) /\ SteadyOK(th[t]) /\ h = th[t].h
    BY AttemptFacts DEF Inv, ThreadsOK, ForAttempt, CoverInv, SteadyOK, EffectsAtRegistered,
                        PlaceInv, PlaceOK
  <1>2. ThenWithdraw(t, W) => Covers(th[t], h, a)'
    <2>1. W # {} /\ <<h, a>> \in W
      OBVIOUS
    <2> HIDE DEF W
    <2>2. ThenWithdraw(t, W) => Ends(t, W)
      BY <1>1, EndMoves
    <2> QED
      BY <2>1, <2>2 DEF Ends, Moves, Covers
  <1>3. Applies(th[t])' /\ SameWork(t) => Covers(th[t], h, a)'
    BY DEF Covers, SameWork
  <1>4. CASE FetchLocal(t) \/ FetchGrant(t) \/ FetchEpoch(t) \/ FetchRefused(t)
    <2>1. /\ th[t].pc \in FetchPCs
          /\ \E pc \in {"fetch_grant", "fetch_epoch", th[t].then} : FetchMoves(t, pc)
      BY <1>1, <1>4, FetchLocalMoves, FetchGrantMoves, FetchEpochMoves, FetchRefusedMoves
         DEF FetchLocal, FetchGrant, FetchEpoch, FetchRefused, At, FetchPCs
    <2> QED
      BY <1>3, <2>1 DEF FetchMoves, Moves, Applies, FetchPCs
  <1>5. CASE BackendApply(t)
    BY <1>1, <1>3, <1>5, ApplyMoves DEF Moves, Applies
  <1>6. CASE Readback(t)
    <2>1. th[t].then = "commit"
      BY <1>1, <1>6 DEF Readback, At, ThreadOK, NobodyRechecks, Rechecks
    <2> QED
      BY <1>1, <1>3, <1>6, <2>1, ApplyMoves DEF Moves, Applies, AfterReadback, FetchPCs
  <1>7. CASE FoldAcknowledged(t)
    BY <1>1, <1>3, <1>7, ApplyMoves DEF Moves, Applies, FetchPCs
  <1>8. CASE \/ FoldClosed(t) \/ FoldUnregistered(t) \/ CommitLate(t) \/ CommitStale(t)
    BY <1>1, <1>2, <1>8 DEF FoldClosed, FoldUnregistered, CommitLate, CommitStale
  <1>9. ~FoldFailed(t)
    BY <1>1 DEF FoldFailed, At, SteadyOK
  <1>10. ~CommitEvidence(t)
    <2>1. Finalized(th[t].seen) \in InForceStates
      BY DEF Finalized, InForceStates
    <2>2. CommitEvidence(t) => attempts'[a].state = Finalized(th[t].seen)
      BY <1>1, OwnMoves DEF Moved
    <2> QED
      BY <2>1, <2>2
  <1>11. ~CommitUnverified(t)
    BY <1>1 DEF CommitUnverified, At, SteadyOK, Unverified
  <1>12. ~(\/ DeriveBegin(t)
           \/ \E e \in EnvelopeId, b \in Backend, r \in {0} \cup AttemptId : ApplyResolve(t, e, b, r)
           \/ \E b \in AttemptId : VerifyBegin(t, b) \/ RevalidateBegin(t, b)
           \/ DeriveRefused(t) \/ ReserveNotDurable(t) \/ ReserveRefused(t)
           \/ Withdraw(t) \/ RebindEpoch(t) \/ VerifyRefused(t) \/ RevalidateRefused(t))
    BY DEF DeriveBegin, ApplyResolve, VerifyBegin, RevalidateBegin, Calls, At, DeriveRefused,
           ReserveNotDurable, ReserveRefused, Withdraw, RebindEpoch, VerifyRefused,
           RevalidateRefused, Applies, FetchPCs
  <1>13. ~(\/ VerifyStale(t) \/ VerifyCommit(t)
           \/ RevalidateStale(t) \/ RevalidateNoEvidence(t) \/ RevalidateCommit(t))
    BY DEF VerifyStale, VerifyCommit, RevalidateStale, RevalidateNoEvidence,
           RevalidateCommit, NobodyRechecks, Rechecks, At
  <1> QED
    BY <1>4, <1>5, <1>6, <1>7, <1>8, <1>9, <1>10, <1>11, <1>12, <1>13 DEF QuietStep, OwnStep

\* A step of a thread.
LEMMA CoverThread ==
  ASSUME Undisturbed, Inv, HandleInv, NobodyRechecks, PlaceInv, WorkInv, CoverInv,
         NEW t \in Thread,
         \/ QuietStep(t) \/ OwnStep(t) \/ GovernanceStep(t) \/ DeriveCommit(t) \/ Reserve(t)
  PROVE  Covered'
  <1> SUFFICES ASSUME NEW h \in Handle, NEW a \in AttemptId, installed'[h][a] # NoEffect,
                      attempts'[a].state \notin InForceStates
               PROVE  \E u \in Thread : Covers(th[u], h, a)'
    BY DEF Covered, Covers, Applies
  <1>1. Affects(t, h, a) /\ StatesMove(t) /\ WorkOK(th[t])
        /\ \A u \in Thread \ {t} : th'[u] = th[u]
    BY ThreadEffects, ThreadStates, AppliesOn, ApplyMoves DEF WorkInv, Inv, Moves
  <1>2. CASE BackendApply(t) /\ a = th[t].att
    <2>1. Moves(t, "fold") /\ SameWork(t)
      BY <1>2, ApplyMoves DEF Inv
    <2> QED
      BY <1>2, <2>1 DEF Moves, SameWork, Covers, Applies
  <1>3. CASE installed'[h][a] = installed[h][a] /\ attempts[a].state \in InForceStates
    <2>1. GovernanceStep(t)
      <3>1. attempts'[a].state # attempts[a].state
        BY <1>3
      <3>2. CASE QuietStep(t) \/ DeriveCommit(t)
        BY <3>1, <3>2, QuietKeeps, DeriveKeeps
      <3>3. CASE OwnStep(t)
        <4>1. \/ Unmoved
              \/ /\ attempts[th[t].att].state \in {"Submitted", "Acknowledged"}
                 /\ \E next : Moved({th[t].att}, next)
          BY <3>3, OutcomeOfOpen DEF Awaits
        <4> QED
          BY <1>3, <3>1, <4>1 DEF Unmoved, Moved, InForceStates
      <3>4. CASE Reserve(t)
        BY <1>3, <3>1, <3>4, ReserveKeeps DEF Present, InForceStates
      <3> QED
        BY <3>2, <3>3, <3>4
    <2> QED
      BY <1>3, <2>1, GovernanceCovers
  <1>4. CASE installed'[h][a] = installed[h][a] /\ attempts[a].state \notin InForceStates
    <2>1. PICK u \in Thread : Covers(th[u], h, a)
      BY <1>4 DEF CoverInv, Covered
    <2>2. CASE u # t
      BY <1>1, <1>4, <2>1, <2>2 DEF Covers, Applies
    <2>3. CASE th[t].pc = "withdraw" /\ <<h, a>> \in th[t].todo
      <3>1. Withdraw(t)
        BY <2>3, OnlyWithdraws DEF At
      <3>2. PICK w \in th[t].todo :
              /\ Ends(t, th[t].todo \ {w})
              /\ installed'[h][a] = IF h = w[1] /\ a = w[2] THEN NoEffect ELSE installed[h][a]
        BY <3>1, WithdrawMoves
      <3> DEFINE W == th[t].todo \ {w}
      <3>3. <<h, a>> \in W /\ W # {}
        BY <2>3, <3>2
      <3> HIDE DEF W
      <3>4. Ends(t, W)
        BY <3>2 DEF W
      <3> QED
        BY <3>3, <3>4 DEF Ends, Moves, Covers
    <2>4. CASE th[t].pc = "rebind" /\ <<h, 0>> \in th[t].todo /\ installed[h][a].epoch < th[t].fence
      <3>1. RebindEpoch(t)
        BY <2>4, OnlyRebinds DEF At
      <3>2. PICK w \in th[t].todo :
              /\ \/ th[t].todo = {w} /\ Ends(t, {})
                 \/ /\ Moves(t, "rebind") /\ th'[t].fence = th[t].fence
                    /\ th'[t].todo = th[t].todo \ {w}
              /\ installed'[h][a] = IF h = w[1] /\ installed[h][a].epoch < th[t].fence
                                    THEN NoEffect ELSE installed[h][a]
        BY <3>1, RebindEffects
      <3>3. w # <<h, 0>>
        BY <2>4, <3>2
      <3> QED
        BY <1>4, <2>4, <3>2, <3>3 DEF Moves, Covers
    <2>5. CASE Applies(th[t]) /\ th[t].att = a
      <3>1. QuietStep(t) \/ OwnStep(t)
        BY <2>5 DEF GovernanceStep, CancelAttempt, RevokeEnvelope, FenceBelow, AdvanceEpoch,
                    Calls, At, DeriveCommit, Reserve, Applies, FetchPCs
      <3> QED
        BY <1>4, <2>5, <3>1, OwnCovers
    <2> QED
      BY <2>1, <2>2, <2>3, <2>4, <2>5 DEF Covers
  <1> QED
    BY <1>1, <1>2, <1>3, <1>4 DEF Affects

\* Every step covers the effects that no record tells of.
LEMMA CoverStep ==
  ASSUME Undisturbed, Inv, HandleInv, NobodyRechecks, PlaceInv, WorkInv, CoverInv, [Next]_vars
  PROVE  CoverInv'
  <1>1. ASSUME NEW t \in Thread,
               \/ QuietStep(t) \/ OwnStep(t) \/ GovernanceStep(t) \/ DeriveCommit(t) \/ Reserve(t)
        PROVE  CoverInv'
    <2>1. Next => RecordsKept
      BY StepRecords
    <2>2. Next
      BY <1>1 DEF QuietStep, OwnStep, GovernanceStep, Next, Begin, Continue
    <2> QED
      BY <1>1, <2>1, <2>2, SteadyStep, RegisteredStep, ClaimedStep, CoverThread DEF CoverInv
  <1>2. CASE OutsideStep
    <2>1. UNCHANGED <<attempts, th, registry>>
      BY <1>2, OutsideKeeps, UndisturbedStep
    <2>2. \A h \in Handle, a \in AttemptId :
            /\ installed'[h][a] # NoEffect => installed[h][a] # NoEffect
            /\ installed'[h][a].epoch = installed[h][a].epoch
      BY <1>2, OutsideEffects DEF NoEffect
    <2>3. ASSUME NEW t \in Thread
          PROVE  SteadyOK(th[t])'
      <3>1. th[t].pc = "fold" => th[t].att \in AttemptId
        BY AttemptFacts DEF Applies, ForAttempt
      <3> QED
        BY <2>1, <2>2, <3>1 DEF CoverInv, SteadyOK, ForEnvelope, Applies, Unverified
    <2>4. EffectsAtRegistered' /\ AppliedIsClaimed'
      BY <2>1, <2>2 DEF CoverInv, EffectsAtRegistered, AppliedIsClaimed
    <2>5. Covered'
      BY <2>1, <2>2 DEF CoverInv, Covered, Covers, Applies
    <2> QED
      BY <2>3, <2>4, <2>5 DEF CoverInv
  <1>3. CASE UNCHANGED vars
    BY <1>3 DEF vars, ledger, CoverInv, SteadyOK, ForEnvelope, Applies, Unverified,
                EffectsAtRegistered, AppliedIsClaimed, Covered, Covers
  <1> QED
    BY <1>1, <1>2, <1>3, StepKinds, UndisturbedStep

\* The invariant holds in every reachable state.
LEMMA CoverInvariance ==
  ASSUME Undisturbed
  PROVE  Spec => []CoverInv
  <1>1. Init => CoverInv
    BY DEF Init, CoverInv, SteadyOK, ForEnvelope, Applies, Unverified, FetchPCs, Idle,
           EffectsAtRegistered, AppliedIsClaimed, Covered, NoRecord
  <1>2. /\ Inv /\ HandleInv /\ NobodyRechecks /\ PlaceInv /\ WorkInv
        /\ CoverInv /\ [Next]_vars
        => CoverInv'
    BY CoverStep
  <1>3. NoRecheck
    BY UndisturbedStep
  <1> QED
    BY <1>1, <1>2, <1>3, Invariance, HandleInvariance, NoRecheckInvariance, PlaceInvariance,
       WorkInvariance, PTL DEF Spec

\* Once no operation is under way, no pacing is in force for an attempt that is
\* recorded as closed, whoever closed it at whatever point of its application.
THEOREM NothingIsOrphaned ==
  ASSUME Undisturbed
  PROVE  Spec => []NoOrphanedEffect
  <1>1. CoverInv => NoOrphanedEffect
    <2> SUFFICES ASSUME CoverInv, Quiescent, NEW h \in Handle, NEW a \in AttemptId,
                        IsClosed(a), installed[h][a] # NoEffect
                 PROVE  FALSE
      BY DEF NoOrphanedEffect
    <2>1. PICK t \in Thread : Covers(th[t], h, a)
      BY DEF CoverInv, Covered, IsClosed, ClosedStates, InForceStates
    <2> QED
      BY <2>1 DEF Quiescent, At, Covers, Applies, FetchPCs
  <1> QED
    BY <1>1, CoverInvariance, PTL

=============================================================================
