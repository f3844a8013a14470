------------------------------- MODULE Engine -------------------------------
(***************************************************************************)
(* The backend engine (crates/backend/src/engine.rs): mutations as         *)
(* concurrent requests over the provider.  A request awaits the provider   *)
(* several times (idempotency read, entity read, commit, resolution,       *)
(* final read); between two awaits any other request, clock tick or crash  *)
(* may happen, so each await is a step of its own and what the request     *)
(* carries across it (heads, versions, resolutions) may be stale.          *)
(*                                                                         *)
(* A mutation names its entity, the work unit it joins (or None) and its   *)
(* close marker, its idempotency identity (or None) and serialized data,   *)
(* its conflict plan, the key that serializes its commits (or None) and    *)
(* the part of its value that no merge rule covers.                        *)
(***************************************************************************)
EXTENDS SqliteProvider

CONSTANTS
    Req,        \* requests, each submitted at most once
    Node,       \* engine processes sharing the provider
    Menu,       \* the mutations clients submit
    Deadlines,  \* whether requests carry a deadline
    NewVersions(_)  \* the sets of UUIDs a request may draw, given those drawn

Plan == [strategy : {"reject", "mvcc", "merge"}, otherwise : {"mvcc", "reject"}]
Op == {"create", "update", "delete"}

ASSUME MenuIsTyped ==
    \A m \in Menu :
        /\ m.op \in Op
        /\ m.key \in Key
        /\ m.unit \in Unit \cup {None}
        /\ m.close \in BOOLEAN
        /\ m.id \in Identity \cup {None}
        /\ m.data \in Request
        /\ m.plan \in Plan
ASSUME DeadlinesIsBoolean == Deadlines \in BOOLEAN
ASSUME NewVersionsAreNew ==
    \A used \in SUBSET Version : \A S \in NewVersions(used) :
        S \subseteq Version \ used /\ IsFiniteSet(S)
ASSUME NoneIsNoVersion == None \notin Version
ASSUME NoneIsNoRecord == None \notin Record
ASSUME SomePolicy == Policy # {}

(* The provider's contract does not say which versions a client draws, as  *)
(* long as they have no row.                                               *)
ASSUME ClientsDrawFreely ==
    \A used \in SUBSET Version : Mint(used) = SUBSET (Version \ used)

VARIABLES
    req,            \* the requests and what they carry between awaits
    minted,         \* version identities drawn so far (Uuid::new_v4)
    rest,           \* value_json outside the merge rules, per version
    conflictPolicy, \* patchouli_work_unit_entity.conflict_policy_json
    derives         \* history: the versions each version incorporates

engineVars == <<req, minted, rest, conflictPolicy, derives>>
vars == <<providerVars, engineVars>>

NoMutation == [op |-> "none", key |-> None, unit |-> None, close |-> FALSE,
               id |-> None, data |-> None, plan |-> None, order |-> None,
               rest |-> None]

(* No request is known, and no unit a policy.                              *)
RequestsInit ==
    /\ conflictPolicy = [u \in Unit |-> [k \in Key |-> None]]
    /\ req = [r \in Req |->
                [pc |-> "idle", node |-> None, m |-> NoMutation, bases |-> {},
                 late |-> FALSE, seesDue |-> FALSE, commit |-> None,
                 accepted |-> None, res |-> <<>>, status |-> "none",
                 version |-> None]]

EngineInit ==
    /\ Init
    /\ RequestsInit
    /\ minted = {}
    /\ rest = [v \in Version |-> None]
    /\ derives = [v \in Version |-> {}]

InFlight(r) == req[r].pc \notin {"idle", "done", "lost"}
Mutation(r) == req[r].m
InUnit(r) == Mutation(r).unit # None
WorkUnitOf(r) == [id |-> Mutation(r).unit, policy |-> CHOOSE p \in Policy : TRUE]

(* Moves r to step pc, or answers it.                                      *)
Goto(r, pc) == req' = [req EXCEPT ![r].pc = pc]
Answer(r, status, v) ==
    req' = [req EXCEPT ![r].pc = "done", ![r].status = status, ![r].version = v]
Fail(r, status) == Answer(r, status, None)

NoDraw == UNCHANGED <<minted, rest, derives>>

-----------------------------------------------------------------------------
(* Arrival and admission                                                   *)

(* The bases a client may declare: the heads it can read, in or outside    *)
(* its unit, or any one published version.                                 *)
KnownBases(m) ==
    IF m.op = "create" THEN {{}}
    ELSE {heads[m.key]} \cup {{v} : v \in published[m.key]}
           \cup (IF m.unit = None THEN {} ELSE {unitHeads[m.unit][m.key]} \ {{}})

Submit(r, n, m, bases) ==
    /\ req[r].pc = "idle"
    /\ req' = [req EXCEPT ![r].pc = "admission", ![r].node = n, ![r].m = m,
                          ![r].bases = bases]
    /\ UNCHANGED <<providerVars, minted, rest, conflictPolicy, derives>>

(* The clock passes the deadline of a request.                             *)
DeadlinePasses(r) ==
    /\ Deadlines
    /\ InFlight(r) /\ ~req[r].late
    /\ req' = [req EXCEPT ![r].late = TRUE]
    /\ UNCHANGED <<providerVars, minted, rest, conflictPolicy, derives>>

(* Mutant: an answered request keeps its locks.                            *)
HeldForever(n) == UNION {{Mutation(r).id, Mutation(r).order} \ {None} :
                           r \in {r \in Req : req[r].node = n
                                    /\ req[r].pc \notin {"idle", "admission"}}}

(* Execution locks: one per idempotency identity and per ordering key, in  *)
(* each engine process, held until the request is answered.                *)
LockKeys(m) == {m.id, m.order} \ {None}
Held(n) == UNION {LockKeys(Mutation(r)) :
                    r \in {r \in Req : InFlight(r) /\ req[r].node = n
                                         /\ req[r].pc # "admission"}}

Admit(r) ==
    /\ req[r].pc = "admission"
    /\ LockKeys(Mutation(r)) \cap Held(req[r].node) = {}
    /\ IF req[r].late
       THEN Fail(r, "DEADLINE_EXCEEDED")
       ELSE req' = [req EXCEPT
                      ![r].pc = IF Mutation(r).id = None THEN "read"
                                                         ELSE "idempotency",
                      ![r].seesDue = InUnit(r) /\ unit[Mutation(r).unit].due]
    /\ UNCHANGED <<providerVars, minted, rest, conflictPolicy, derives>>

-----------------------------------------------------------------------------
(* prepare_idempotency                                                     *)

Proceed(r, outcome, stored) ==
    CASE outcome \in {"Replayed", "ReplayedStaged"} ->
           Answer(r, "REPLAYED", stored.result)
      [] outcome = "Conflict"         -> Fail(r, "IDEMPOTENCY_CONFLICT")
      [] outcome = "DeadlineExceeded" -> Fail(r, "DEADLINE_EXCEEDED")
      [] OTHER                        -> Goto(r, "read")

PrepareIdempotency(r) ==
    LET m == Mutation(r)
        w == WorkUnitOf(r)
        late == req[r].late
    IN  /\ req[r].pc = "idempotency"
        /\ UNCHANGED <<minted, rest, conflictPolicy, derives>>
        /\ \/ /\ ~InUnit(r)
              /\ ReadIdempotency(late)
              /\ Proceed(r, IF late THEN "DeadlineExceeded"
                            ELSE IdempotencyOutcome(m.id, m.data),
                         idempotency[m.id])
           \/ /\ InUnit(r)
              /\ ReadIdempotencyInWorkUnit(w, req[r].seesDue, late)
              /\ LET out == ReadIdempotencyInWorkUnitOutcome(w, m.id, m.data,
                              m.close, req[r].seesDue, late)
                 IN  Proceed(r, out,
                       IF out = "ReplayedStaged" THEN unitIdempotency[m.id]
                                                 ELSE idempotency[m.id])

-----------------------------------------------------------------------------
(* read_selected and the preparation of the commit                         *)

Active(S) == {v \in S : rowState[v] = "active"}
Deleted(S) == S \ Active(S)
Incorporates(S) == UNION {derives[v] : v \in S}

(* Draws one new version for each pair <<k, x>> in the domain of names: an *)
(* entity and the value of that version outside the merge rules.  A new    *)
(* version of k incorporates the versions S[k].                            *)
Draw(names, S) ==
    LET drawn == {names[x] : x \in DOMAIN names}
        origin(v) == CHOOSE x \in DOMAIN names : names[x] = v
    IN  /\ drawn \in NewVersions(minted)
        /\ \A x, y \in DOMAIN names : x # y => names[x] # names[y]
        /\ minted' = minted \cup drawn
        /\ rest' = [v \in Version |-> IF v \in drawn THEN origin(v)[2]
                                                     ELSE rest[v]]
        /\ derives' = [v \in Version |->
                         IF v \in drawn
                         THEN {v} \cup Incorporates(S[origin(v)[1]])
                         ELSE derives[v]]

(* The reply when m, declaring bases, is refused on the heads hs and the   *)
(* versions vs it read; "none" when it is accepted.                        *)
Refusal(m, bases, hs, vs) ==
    LET concurrent == hs \ bases
        stubborn == m.plan.otherwise = "reject"
    IN  IF m.op = "create" THEN IF hs = {} THEN "none" ELSE "VERSION_CONFLICT"
        ELSE IF hs = {} THEN "NOT_FOUND"
        ELSE IF bases = {} THEN "INVALID_REQUEST"
        ELSE IF \/ ~(bases \subseteq vs)
                \/ m.plan.strategy = "reject" /\ bases # hs
                \/ m.op = "delete" /\ stubborn /\ concurrent # {}
                \/ m.op = "update" /\ stubborn /\ Deleted(concurrent) # {}
                \/ /\ m.op = "update" /\ stubborn
                   /\ m.plan.strategy = "merge" /\ Deleted(bases) # {}
             THEN "VERSION_CONFLICT"
        ELSE "none"

(* The active heads an update merges with: the merge rule covers them all, *)
(* so what remains is one variant per value outside the rule.              *)
MergedHeads(m, bases, hs) ==
    IF m.op = "update" /\ m.plan.strategy = "merge" THEN Active(hs \ bases)
                                                    ELSE {}

PrepareCommit(r, hs, vs) ==
    LET m == Mutation(r)
        bases == req[r].bases
        merged == MergedHeads(m, bases, hs)
        values == {<<m.key, m.rest>>} \cup {<<m.key, rest[v]>> : v \in merged}
        kept == (hs \ bases) \ merged
    IN  \/ /\ Refusal(m, bases, hs, vs) # "none"
           /\ Fail(r, Refusal(m, bases, hs, vs))
           /\ NoDraw
        \/ /\ Refusal(m, bases, hs, vs) = "none"
           /\ \E names \in [values -> Version \ minted] :
                LET new == {names[x] : x \in values}
                IN  /\ Draw(names, [k \in {m.key} |-> bases \cup merged])
                    /\ req' = [req EXCEPT
                         ![r].pc = "commit",
                         ![r].accepted = names[<<m.key, m.rest>>],
                         ![r].commit =
                           [key |-> m.key, expected |-> hs, new |-> new,
                            deletes |-> m.op = "delete",
                            heads |-> kept \cup new,
                            kind |-> MutationChangeKind(hs, kept \cup new,
                                                        m.op = "delete")]]

ReadRefusal(outcome) ==
    CASE outcome = "DeadlineExceeded" -> "DEADLINE_EXCEEDED"
      [] outcome = "expired"          -> "WORK_UNIT_EXPIRED"
      [] OTHER                        -> "INVALID_REQUEST"

ReadSelected(r) ==
    LET k == Mutation(r).key
        w == WorkUnitOf(r)
        late == req[r].late
    IN  /\ req[r].pc = "read"
        /\ UNCHANGED conflictPolicy
        /\ \/ /\ ~InUnit(r)
              /\ ReadEntity
              /\ \/ /\ late
                    /\ Fail(r, "DEADLINE_EXCEEDED") /\ NoDraw
                 \/ /\ ~late
                    /\ PrepareCommit(r, heads[k], published[k])
           \/ /\ InUnit(r)
              /\ ReadInWorkUnit(w, {k}, late)
              /\ LET out == ReadInWorkUnitOutcome(w, late)
                 IN  \/ /\ out # "open"
                        /\ Fail(r, ReadRefusal(out)) /\ NoDraw
                     \/ /\ out = "open"
                        /\ PrepareCommit(r, WorkUnitHeads(w, k),
                                            WorkUnitVersions(w, k))

-----------------------------------------------------------------------------
(* Resolution of the drift found when a unit closes                        *)

(* Mutant: the reject strategy only looks at deleted heads.                *)
DriftAccepted(p, hs, k) ==
    p.otherwise = "reject" /\ Deleted(hs \cup heads[k]) # {}

(* hs are the unit's heads of k as the commit left them, p the plan stored *)
(* with k's last mutation.                                                 *)
DriftRefused(p, hs, k) ==
    \/ p.strategy = "reject"
    \/ p.otherwise = "reject" /\ Deleted(hs \cup heads[k]) # {}

(* The heads that a merge replaces by one new version per remaining value. *)
DriftMerged(p, hs, k) ==
    LET active == Active(hs \cup heads[k])
    IN  IF p.strategy = "merge" /\ Cardinality(active) > 1 THEN active ELSE {}

(* Mutant: only the merged versions stay heads.                            *)
ResolutionDropsBranches(p, hs, k, new) ==
    [published |-> heads[k], staged |-> hs, new |-> new, heads |-> new]

(* The resolution of k that puts new in the place of the merged heads.     *)
Resolution(p, hs, k, new) ==
    [published |-> heads[k], staged |-> hs, new |-> new,
     heads |-> ((hs \cup heads[k]) \ DriftMerged(p, hs, k)) \cup new]

(* hss are the unit's heads, plans its conflict policies, K the drifted    *)
(* entities.  A merged value may fail the schema of its entity type, which *)
(* ends the request at once; otherwise the refused entities are reported.  *)
ResolvePublicationConflicts(r, hss, plans, K) ==
    \/ /\ \E k \in K : DriftRefused(plans[k], hss[k], k)
       /\ Fail(r, "VERSION_CONFLICT")
       /\ NoDraw
    \/ /\ \E k \in K : ~DriftRefused(plans[k], hss[k], k)
                         /\ DriftMerged(plans[k], hss[k], k) # {}
       /\ Fail(r, "INVALID_REQUEST")
       /\ NoDraw
    \/ /\ \A k \in K : ~DriftRefused(plans[k], hss[k], k)
       /\ LET merged == [k \in K |-> DriftMerged(plans[k], hss[k], k)]
              values == UNION {{<<k, rest[v]>> : v \in merged[k]} : k \in K}
          IN  \E names \in [values -> Version \ minted] :
                LET new(k) == {names[x] : x \in {x \in values : x[1] = k}}
                IN  /\ Draw(names, merged)
                    /\ req' = [req EXCEPT
                         ![r].pc = "publish",
                         ![r].res = [k \in K |->
                           Resolution(plans[k], hss[k], k, new(k))]]

-----------------------------------------------------------------------------
(* commit_selected and commit_idempotent                                   *)

CommitRefusal(outcome) ==
    CASE outcome \in {"Conflict", "PublicationConflict"} -> "VERSION_CONFLICT"
      [] outcome = "IdempotencyConflict" -> "IDEMPOTENCY_CONFLICT"
      [] outcome = "DeadlineExceeded"    -> "DEADLINE_EXCEEDED"
      [] outcome = "Expired"             -> "WORK_UNIT_EXPIRED"
      [] outcome \in {"Replayed", "Error"} -> "OVERLOADED"
      [] OTHER                           -> "INVALID_REQUEST"

CommitImmediate(r) ==
    LET m == Mutation(r)
        c == req[r].commit
        late == req[r].late
        out == IF m.id = None THEN CommitOutcome(c, late)
               ELSE IdempotentCommitOutcome(c, m.id, m.data, late)
    IN  /\ req[r].pc = "commit" /\ ~InUnit(r)
        /\ UNCHANGED <<minted, rest, conflictPolicy, derives>>
        /\ IF m.id = None
           THEN CommitEntity(c, late)
           ELSE CommitEntityIdempotent(c, m.id, m.data, req[r].accepted, late)
        /\ CASE out = "Committed" -> Answer(r, "OK", req[r].accepted)
             [] out = "Replayed"  -> Answer(r, "REPLAYED",
                                            idempotency[m.id].result)
             [] OTHER             -> Fail(r, CommitRefusal(out))

RecordOf(r) ==
    IF Mutation(r).id = None THEN None
    ELSE [id |-> Mutation(r).id, request |-> Mutation(r).data,
          result |-> req[r].accepted]

CommitInUnit(r) ==
    LET m == Mutation(r)
        c == req[r].commit
        w == WorkUnitOf(r)
        out == CommitInWorkUnitOutcome(w, c, m.close, RecordOf(r), req[r].late)
        stages == EnsuredState(w, Lapsed) = "open"
                    /\ out \in {"Staged", "Published", "PublicationConflict"}
        plans == IF stages THEN [conflictPolicy[m.unit] EXCEPT ![m.key] = m.plan]
                           ELSE conflictPolicy[m.unit]
        hss == IF stages THEN StagedHeads(w, c) ELSE unitHeads[m.unit]
        bss == IF stages THEN StagedBase(w, c) ELSE base[m.unit]
    IN  /\ req[r].pc = "commit" /\ InUnit(r)
        /\ CommitEntityInWorkUnit(w, c, m.close, RecordOf(r), req[r].late)
        /\ conflictPolicy' = [conflictPolicy EXCEPT ![m.unit] = plans]
        /\ \/ /\ out \in {"Staged", "Published"}
              /\ Answer(r, "OK", req[r].accepted) /\ NoDraw
           \/ /\ out = "PublicationConflict"
              /\ ResolvePublicationConflicts(r, hss, plans,
                                             PublicationConflicts(hss, bss))
           \/ /\ out \notin {"Staged", "Published", "PublicationConflict"}
              /\ Fail(r, CommitRefusal(out)) /\ NoDraw

PublishResolved(r) ==
    LET w == WorkUnitOf(r)
        out == PublishOutcome(w, req[r].res)
    IN  /\ req[r].pc = "publish"
        /\ PublishWorkUnit(w, req[r].res)
        /\ IF out = "Published" THEN Goto(r, "reread")
                                ELSE Fail(r, CommitRefusal(out))
        /\ UNCHANGED <<minted, rest, conflictPolicy, derives>>

(* The final read of the committed entity runs under the request's         *)
(* deadline.  A create or update answers with some active head it finds.   *)
ReadPublished(r) ==
    LET m == Mutation(r)
    IN  /\ req[r].pc = "reread"
        /\ ReadEntity
        /\ \/ /\ req[r].late
              /\ Fail(r, "DEADLINE_EXCEEDED")
           \/ /\ ~req[r].late /\ m.op = "delete"
              /\ Answer(r, "OK", req[r].accepted)
           \/ /\ ~req[r].late /\ m.op # "delete"
              /\ \E v \in Active(heads[m.key]) : Answer(r, "OK", v)
           \/ /\ ~req[r].late /\ m.op # "delete"
              /\ Active(heads[m.key]) = {}
              /\ Fail(r, "OVERLOADED")
        /\ UNCHANGED <<minted, rest, conflictPolicy, derives>>

-----------------------------------------------------------------------------
(* An engine process stops: its requests are never answered.  What they    *)
(* committed stays; the provider's restart is an ExpireOpenWorkUnits step. *)
Crash(n) ==
    /\ \E r \in Req : InFlight(r) /\ req[r].node = n
    /\ req' = [r \in Req |-> IF InFlight(r) /\ req[r].node = n
                             THEN [req[r] EXCEPT !.pc = "lost"] ELSE req[r]]
    /\ UNCHANGED <<providerVars, minted, rest, conflictPolicy, derives>>

Step(r) ==
    \/ Admit(r)
    \/ PrepareIdempotency(r)
    \/ ReadSelected(r)
    \/ CommitImmediate(r)
    \/ CommitInUnit(r)
    \/ PublishResolved(r)
    \/ ReadPublished(r)

EngineNext ==
    \/ \E r \in Req, n \in Node, m \in Menu :
         \E bases \in KnownBases(m) : Submit(r, n, m, bases)
    \/ \E r \in Req : Step(r)
    \/ \E r \in Req : DeadlinePasses(r)
    \/ \E n \in Node : Crash(n)
    \/ ExpireOpenWorkUnits /\ UNCHANGED engineVars
    \/ \E u \in Unit : UnitFallsDue(u) /\ UNCHANGED engineVars

EngineSpec == EngineInit /\ [][EngineNext]_vars

(* Awaited provider calls return and tokio mutexes are granted in arrival  *)
(* order, so a request that can go on eventually does.                     *)
FairEngineSpec == EngineSpec /\ \A r \in Req : WF_vars(Step(r))

-----------------------------------------------------------------------------
(* Properties                                                              *)

Refusals == {"VERSION_CONFLICT", "NOT_FOUND", "INVALID_REQUEST",
             "IDEMPOTENCY_CONFLICT", "WORK_UNIT_EXPIRED", "DEADLINE_EXCEEDED"}
IsPublished(r) == req[r].accepted \in published[Mutation(r).key]
IsStaged(r) == InUnit(r)
                 /\ req[r].accepted \in staged[Mutation(r).unit][Mutation(r).key]
Discarded(r) == InUnit(r) /\ unit[Mutation(r).unit].state = "expired"

(* No published write is ever lost: each published version is incorporated *)
(* by a current head of its entity, through the bases its successors       *)
(* declared, a merge or an MVCC sibling.  A commit computed from stale     *)
(* heads, or a batch published over drift, would break it.                 *)
NoLostUpdate ==
    \A k \in Key : published[k] \subseteq Incorporates(heads[k])

(* A request answered with success was applied: its own version is         *)
(* published, or staged in its unit until that unit's staging expires.     *)
AckedIsDurable ==
    \A r \in Req : req[r].status = "OK" =>
        IsPublished(r) \/ IsStaged(r) \/ Discarded(r)

(* "Once acceptance commits, the operation is successful even if the       *)
(* response is delivered after the deadline" (SPEC.md): a refused request  *)
(* leaves nothing published.  The code breaks it at the final read of a    *)
(* resolved publication, which runs under the request's deadline: an entity*)
(* that was published is answered DEADLINE_EXCEEDED.                       *)
RefusedIsUnpublished ==
    \A r \in Req : req[r].status \in Refusals => ~IsPublished(r)

(* The one way a refusal follows a publication: r resolved the drift of    *)
(* its unit, and its deadline passed before the final read.                *)
RereadTooLate(r) == req[r].status = "DEADLINE_EXCEEDED" /\ DOMAIN req[r].res # {}

(* Apart from that read, no refusal commit_selected maps, DEADLINE_EXCEEDED*)
(* included, is answered to a mutation that readers see now or later: not  *)
(* when another request publishes the unit it was staged in, not when a    *)
(* late request lost a race.  The provider is in the process; a storage    *)
(* node whose answer is lost may have committed.                           *)
RefusedUnlessReread ==
    \A r \in Req :
        req[r].status \in Refusals => ~IsPublished(r) \/ RereadTooLate(r)

(* Requests that carry one identity on immediate mutations, retried,       *)
(* concurrent or on two engine processes, publish at most one version      *)
(* between them, and all of those answered with success answer with that   *)
(* version.  It is stated of menus without keyed mutations of units: one   *)
(* that is repeated with the close marker is staged again.                 *)
ExactlyOnce ==
    \A r, s \in Req :
        /\ Mutation(r).id # None
        /\ Mutation(r).id = Mutation(s).id
        => /\ IsPublished(r) /\ IsPublished(s) => r = s
           /\ {req[r].status, req[s].status} \subseteq {"OK", "REPLAYED"}
                => /\ Mutation(r).data = Mutation(s).data
                   /\ req[r].version = req[s].version

(* The reject strategy never forks an entity: one whose mutations are all  *)
(* under reject has at most one head, whatever races.                      *)
RejectNeverForks ==
    \A k \in Key :
        (\A m \in Menu : m.key = k => m.plan.strategy = "reject")
            => Cardinality(heads[k]) <= 1

(* The kind of every change event is the one of the transition between the *)
(* heads before and after it, although an immediate mutation computes it   *)
(* from heads it read earlier (mutation_change_kind) and a batch from the  *)
(* heads at publication (derive_change_kind).                              *)
ChangeKindsTellHistory ==
    \A c \in changes :
        c.kind = DeriveChangeKind(HeadsAt(c.key, c.cursor - 1), c.heads, rowState)

(* The engine calls the provider only as the provider's contract allows:   *)
(* fresh versions, at least one head, heads it expects or adds, change     *)
(* kinds that follow from them, resolutions of the drift that was met.     *)
(* What is proved of the provider alone thus holds under the engine.       *)
ProviderContract == Spec

(* Every request is eventually answered unless its process stops: no lock  *)
(* is kept by an answered request and no step waits for ever.              *)
EveryRequestIsAnswered ==
    \A r \in Req : InFlight(r) ~> ~InFlight(r)
=============================================================================
