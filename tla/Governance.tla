----------------------------- MODULE Governance -----------------------------
(***************************************************************************)
(* The binding registry of src/binding.cpp and the policy store of         *)
(* src/policy.cpp as the coordinator uses them: bind_flow, unbind_flow,    *)
(* publish_policy, remove_policy, the local half of fetch_authority, what  *)
(* a checkpoint writes of them and what a restart replays.                 *)
(*                                                                         *)
(* A registry is a vector of entries, dead ones included.  The files are   *)
(* represented by the registries that a replay would build from them:      *)
(* appending a record applies the replay of that record, a checkpoint      *)
(* leaves the live entries in order.                                       *)
(***************************************************************************)
EXTENDS Compaction

CONSTANTS
  Flow, Resource, Policy,  \* identities
  BindingContent,          \* what else a binding says: class, declared bursts
  PolicyContent,           \* what else a policy says: rates, bursts, window
  None,                    \* no envelope
  Faults,                  \* what may go wrong: "journal"
  MaxFlows, MaxPolicies,   \* limits.max_flows, limits.max_policies
  MaxGeneration,           \* the largest generation, where next() is exhausted
  MaxEpoch                 \* bound: incarnations

ASSUME GovernanceAssumption ==
  /\ None \notin [flow: Flow]
  /\ Flow \cap Resource = {}
  /\ Faults \subseteq {"journal"}
  /\ MaxFlows \in Nat \ {0} /\ MaxPolicies \in Nat \ {0}
  /\ MaxGeneration \in Nat \ {0} /\ MaxEpoch \in Nat \ {0}

VARIABLES
  bindings,  \* bindings_ of the BindingRegistry
  policies,  \* policies_ of the PolicyStore
  disk,      \* the registries that a replay of the files would build
  lossy,     \* an append was refused and no checkpoint has made up for it
  held,      \* an envelope that was derived, with the authority it captured
  unbound,   \* its flow was unbound since
  epoch      \* the present incarnation

memory  == <<bindings, policies>>
history == <<held, unbound>>
vars    == <<memory, disk, lossy, history, epoch>>

-----------------------------------------------------------------------------
(* Data *)

Generation == 1 .. MaxGeneration
Binding == [flow: Flow, generation: Generation, resource: Resource,
            content: BindingContent, live: BOOLEAN]
\* A policy of the flow layer names a flow, one of the resource layer a resource.
PacingPolicy == [id: Policy, generation: Generation, scope: Flow \cup Resource,
                 content: PolicyContent, live: BOOLEAN]
Envelope == [binding: Binding, policy: PacingPolicy, epoch: Nat]

Least(S) == CHOOSE i \in S : \A j \in S : i <= j

LiveBinding(b, f) == {i \in LiveOf(b) : b[i].flow = f}
AnyBinding(b, f)  == {i \in DOMAIN b : b[i].flow = f}
LivePolicy(p, id) == {i \in LiveOf(p) : p[i].id = id}
AnyPolicy(p, id)  == {i \in DOMAIN p : p[i].id = id}

\* A publication may state a generation, 0 for none.  It is kept if it is newer than
\* the one it replaces; otherwise the next one is taken, which may not exist.
\* Variant: a publication that states none is stored without one.
FirstGenerationAsStated(asked) == asked
FirstGeneration(asked) == IF asked = 0 THEN 1 ELSE asked
\* Variant: the stated generation is kept if it is not older.
NextGenerationLax(asked, old) ==
  IF FirstGeneration(asked) >= old THEN FirstGeneration(asked) ELSE old + 1
NextGeneration(asked, old) ==
  IF FirstGeneration(asked) > old THEN FirstGeneration(asked) ELSE old + 1

-----------------------------------------------------------------------------
(* The registries *)

\* Variant: a recovered entry is always added.
RestoredTwice(s, Same, entry, max) == IF Len(s) >= max THEN s ELSE Append(s, entry)
\* restore: the first entry of the same identity is overwritten, dead or live.
Restored(s, Same, entry, max) ==
  IF Same # {} THEN [s EXCEPT ![Least(Same)] = entry]
  ELSE IF Len(s) >= max THEN s
  ELSE Append(s, entry)

RestoreBinding(b, entry) == Restored(b, AnyBinding(b, entry.flow), entry, MaxFlows)
RestorePolicy(p, entry)  == Restored(p, AnyPolicy(p, entry.id), entry, MaxPolicies)

Killed(s, S) == [i \in DOMAIN s |-> IF i \in S THEN [s[i] EXCEPT !.live = FALSE] ELSE s[i]]

\* resolve: the first policy of the flow, or else the one of the resource with the
\* highest generation, the first of those.  A set with one position, or none.
Resolve(f, r, p) ==
  LET Applies == {i \in LiveOf(p) : p[i].scope \in {f, r}}
      OfFlow  == {i \in Applies : p[i].scope = f}
      Newest  == {i \in Applies : \A j \in Applies : p[j].generation <= p[i].generation}
  IN  IF OfFlow # {} THEN {Least(OfFlow)}
      ELSE IF Newest # {} THEN {Least(Newest)}
      ELSE {}

-----------------------------------------------------------------------------
(* journal_record: a checkpoint may come first, then the append may be refused *)

\* Variant: dead entries are written as well, and read back as live ones.
CompactedAll(s) == [i \in DOMAIN s |-> [s[i] EXCEPT !.live = TRUE]]
\* What the files hold after a checkpoint.
Compacted(s) == Survivors(s)
Checkpoint(b, p) == [bindings |-> Compacted(b), policies |-> Compacted(p)]

\* What a record, of a kind and about something, does to the registries d at its replay.
Replay(d, kind, what) ==
  CASE kind = "FlowBinding"   -> [d EXCEPT !.bindings = RestoreBinding(@, what)]
    [] kind = "FlowUnbound"   -> [d EXCEPT !.bindings = Killed(@, LiveBinding(@, what))]
    [] kind = "Policy"        -> [d EXCEPT !.policies = RestorePolicy(@, what)]
    [] kind = "PolicyRemoved" -> [d EXCEPT !.policies = Killed(@, LivePolicy(@, what))]

\* b and p are the registries in memory, which changed already.  Bound: appends are
\* refused one at a time, the next one only after a checkpoint or a restart.
Journal(b, p, kind, what) ==
  \/ disk' = Replay(disk, kind, what) /\ lossy' = lossy
  \/ disk' = Replay(Checkpoint(b, p), kind, what) /\ lossy' = FALSE
  \/ "journal" \in Faults /\ ~lossy /\ disk' = disk /\ lossy' = TRUE
  \/ "journal" \in Faults /\ disk' = Checkpoint(b, p) /\ lossy' = FALSE

-----------------------------------------------------------------------------
(* The operations *)

\* A live binding of the flow is replaced under a later generation; a dead one is left
\* where it is, and counts against the limit.
bind_flow(f, asked, r, c) ==
  LET Old == LiveBinding(bindings, f)
      old == bindings[Least(Old)].generation
      Entry(g) == [flow |-> f, generation |-> g, resource |-> r, content |-> c, live |-> TRUE]
      Put(g, b) ==
        /\ bindings' = b
        /\ Journal(b, policies, "FlowBinding", Entry(g))
  IN  /\ \/ /\ Old # {}
            /\ NextGeneration(asked, old) <= MaxGeneration
            /\ Put(NextGeneration(asked, old),
                   [bindings EXCEPT ![Least(Old)] = Entry(NextGeneration(asked, old))])
         \/ /\ Old = {}
            /\ Len(bindings) < MaxFlows
            /\ Put(FirstGeneration(asked), Append(bindings, Entry(FirstGeneration(asked))))
      /\ UNCHANGED <<policies, history, epoch>>

unbind_flow(f) ==
  /\ LiveBinding(bindings, f) # {}
  /\ bindings' = Killed(bindings, {Least(LiveBinding(bindings, f))})
  /\ Journal(bindings', policies, "FlowUnbound", f)
  /\ unbound' = (unbound \/ (held # None /\ f = held.binding.flow))
  /\ UNCHANGED <<policies, held, epoch>>

\* An entry of the id is replaced under a later generation, also a dead one, which is
\* refused while the store is full.
publish_policy(id, asked, scope, c) ==
  LET Old == AnyPolicy(policies, id)
      old == policies[Least(Old)].generation
      Entry(g) == [id |-> id, generation |-> g, scope |-> scope, content |-> c, live |-> TRUE]
      Put(g, p) ==
        /\ policies' = p
        /\ Journal(bindings, p, "Policy", Entry(g))
  IN  /\ \/ /\ Old # {}
            /\ policies[Least(Old)].live \/ Len(policies) < MaxPolicies
            /\ NextGeneration(asked, old) <= MaxGeneration
            /\ Put(NextGeneration(asked, old),
                   [policies EXCEPT ![Least(Old)] = Entry(NextGeneration(asked, old))])
         \/ /\ Old = {}
            /\ Len(policies) < MaxPolicies
            /\ Put(FirstGeneration(asked), Append(policies, Entry(FirstGeneration(asked))))
      /\ UNCHANGED <<bindings, history, epoch>>

remove_policy(id) ==
  /\ LivePolicy(policies, id) # {}
  /\ policies' = Killed(policies, LivePolicy(policies, id))
  /\ Journal(bindings, policies', "PolicyRemoved", id)
  /\ UNCHANGED <<bindings, history, epoch>>

\* What an envelope of this flow derived now would capture: a set with one element,
\* or none.
Authority(f) ==
  UNION {{[binding |-> bindings[i], policy |-> policies[j], epoch |-> epoch] :
            j \in Resolve(f, bindings[i].resource, policies)} : i \in LiveBinding(bindings, f)}

derive_envelope(f) ==
  /\ held' \in Authority(f)
  /\ unbound' = FALSE
  /\ UNCHANGED <<memory, disk, lossy, epoch>>

\* The registries are what the replay built; the epoch advances.  Recovery journals
\* attempts and the epoch, and may checkpoint for that.
Restart ==
  /\ epoch < MaxEpoch
  /\ epoch' = epoch + 1
  /\ bindings' = disk.bindings /\ policies' = disk.policies
  /\ disk' \in {disk, Checkpoint(disk.bindings, disk.policies)}
  /\ lossy' = FALSE
  /\ UNCHANGED history

-----------------------------------------------------------------------------
(* The specification *)

Init ==
  /\ bindings = <<>> /\ policies = <<>>
  /\ disk = [bindings |-> <<>>, policies |-> <<>>]
  /\ lossy = FALSE
  /\ held = None /\ unbound = FALSE
  /\ epoch = 1

Next ==
  \/ \E f \in Flow :
       \/ \E asked \in 0 .. MaxGeneration, r \in Resource, c \in BindingContent :
            bind_flow(f, asked, r, c)
       \/ unbind_flow(f)
       \/ derive_envelope(f)
  \/ \E id \in Policy :
       \/ \E asked \in 0 .. MaxGeneration, s \in Flow \cup Resource, c \in PolicyContent :
            publish_policy(id, asked, s, c)
       \/ remove_policy(id)
  \/ Restart

Spec == Init /\ [][Next]_vars

-----------------------------------------------------------------------------
(* compare_authority: what is compared of the authority that an envelope holds *)

\* Variant: the generation of the policy is not compared.
PolicyMatchesById(e, a) == e.policy.id = a.policy.id
PolicyMatches(e, a) == e.policy.id = a.policy.id /\ e.policy.generation = a.policy.generation

Matches(e, a) ==
  /\ e.binding.flow = a.binding.flow /\ e.binding.generation = a.binding.generation
  /\ e.binding.resource = a.binding.resource
  /\ PolicyMatches(e, a)
  /\ e.epoch = a.epoch

-----------------------------------------------------------------------------
(* Properties *)

\* The registries, in memory and on disk, have their types and keep their limits.
TypeOK ==
  /\ bindings \in Seq(Binding) /\ Len(bindings) <= MaxFlows
  /\ policies \in Seq(PacingPolicy) /\ Len(policies) <= MaxPolicies
  /\ disk.bindings \in Seq(Binding) /\ Len(disk.bindings) <= MaxFlows
  /\ disk.policies \in Seq(PacingPolicy) /\ Len(disk.policies) <= MaxPolicies
  /\ lossy \in BOOLEAN /\ unbound \in BOOLEAN
  /\ held \in {None} \cup Envelope
  /\ epoch \in 1 .. MaxEpoch

\* An envelope that is still valid was derived from the policy that now governs its
\* flow, word for word: publications, removals and restarts in between show in the
\* generation or in the epoch.
PolicyMatchIsExact ==
  held # None =>
    \A a \in Authority(held.binding.flow) : Matches(held, a) => held.policy = a.policy

\* The same for the binding, as long as the flow is bound without interruption.
BindingMatchIsExact ==
  held # None /\ ~unbound =>
    \A a \in Authority(held.binding.flow) : Matches(held, a) => held.binding = a.binding

\* However a flow was bound, unbound and recovered, one binding of it is in force.
OneLiveBinding ==
  \A f \in Flow : Cardinality(LiveBinding(bindings, f)) <= 1

Facts(s, S) == {s[i] : i \in S}

\* A restart brings back each binding and each policy as it is in memory, with its
\* generation, unless an append was refused.
ReplayIsMemory ==
  ~lossy =>
    /\ Facts(bindings, LiveOf(bindings)) = Facts(disk.bindings, LiveOf(disk.bindings))
    /\ Facts(policies, LiveOf(policies)) = Facts(disk.policies, LiveOf(disk.policies))

=============================================================================
