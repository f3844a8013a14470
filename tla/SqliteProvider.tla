--------------------------- MODULE SqliteProvider ---------------------------
(***************************************************************************)
(* The durable state of the SQLite provider (crates/provider-sqlite) and   *)
(* one action per provider operation.  The provider owns one asynchronous  *)
(* connection behind an exclusive lock file, so the closure an operation   *)
(* hands to that connection runs without interleaving: an operation is one *)
(* step.  An operation whose closure first sweeps lapsed work units does   *)
(* so in its step; the sweep is a transaction of its own and survives the  *)
(* rollback of the operation's transaction.                                *)
(*                                                                         *)
(* Entities of one scope are modelled.  A row of patchouli_entity_version  *)
(* is either published (work_unit_json NULL, published_cursor set) or      *)
(* staged in a work unit; the table is split into those two halves.  The   *)
(* clock is abstracted to the moments the code tests it: a work unit is    *)
(* "due" once its expiry has passed, an idempotency record "lapsed" once   *)
(* its retention has, and a request "late" once its deadline has.          *)
(***************************************************************************)
EXTENDS Naturals, FiniteSets

CONSTANTS
    Key,        \* entities of the scope
    Version,    \* version identities (UUIDs)
    Unit,       \* work-unit identities
    Policy,     \* work-unit policy descriptors (policy_json)
    Identity,   \* idempotency identities
    Request,    \* serialized mutations (request_json)
    None,       \* absent row, SQL NULL
    Mint(_)     \* the sets of new UUIDs a client may draw, given those in use

ASSUME FiniteKeys == IsFiniteSet(Key)
ASSUME NoneIsNoUnit == None \notin Unit
ASSUME MintIsFresh ==
    \A used \in SUBSET Version : Mint(used) \subseteq SUBSET (Version \ used)

VARIABLES
    published,        \* rows with work_unit_json NULL, per entity
    publishedCursor,  \* their published_cursor
    rowState,         \* state column: "active" or "deleted"
    heads,            \* patchouli_entity_head
    changes,          \* patchouli_change and patchouli_entity_head_history
    frontier,         \* patchouli_scope_frontier.cursor
    unit,             \* patchouli_work_unit
    captured,         \* entities with a patchouli_work_unit_entity row
    closeMarker,      \* those whose close_marker is 1
    base,             \* patchouli_work_unit_base_version with is_head = 1
    unitHeads,        \* patchouli_work_unit_head
    staged,           \* rows with work_unit_json set, per unit and entity
    idempotency,      \* patchouli_idempotency
    unitIdempotency   \* patchouli_work_unit_idempotency

entityVars == <<published, publishedCursor, rowState, heads, changes, frontier>>
captureVars == <<captured, closeMarker, base>>
unitVars == <<unit, unitHeads, staged, unitIdempotency>>
providerVars == <<entityVars, captureVars, unitVars, idempotency>>

ChangeKind == {"created", "updated", "deleted", "conflicted", "resolved"}
Change == [cursor : Nat \ {0}, key : Key, kind : ChangeKind,
           heads : SUBSET Version, by : Unit \cup {None}]
UnitRow == [state : {"none", "open", "closing", "committed", "expired"},
            policy : Policy \cup {None}, baseline : Nat, due : BOOLEAN]
Record == [request : Request, result : Version, lapsed : BOOLEAN]
UnitRecord == [unit : Unit, request : Request, result : Version,
               lapsed : BOOLEAN]

(* EntityCommit: the new versions are tombstones iff deletes holds.        *)
EntityCommit == [key : Key, expected : SUBSET Version, new : SUBSET Version,
                 deletes : BOOLEAN, heads : (SUBSET Version) \ {{}},
                 kind : ChangeKind]

NoKeys == [k \in Key |-> {}]

EntityTypeOK ==
    /\ published \in [Key -> SUBSET Version]
    /\ publishedCursor \in [Version -> Nat]
    /\ rowState \in [Version -> {"active", "deleted"}]
    /\ heads \in [Key -> SUBSET Version]
    /\ changes \subseteq Change
    /\ frontier \in Nat

CaptureTypeOK ==
    /\ captured \in [Unit -> SUBSET Key]
    /\ closeMarker \in [Unit -> SUBSET Key]
    /\ base \in [Unit -> [Key -> SUBSET Version]]

UnitTypeOK ==
    /\ unit \in [Unit -> UnitRow]
    /\ unitHeads \in [Unit -> [Key -> SUBSET Version]]
    /\ staged \in [Unit -> [Key -> SUBSET Version]]

IdempotencyTypeOK ==
    /\ idempotency \in [Identity -> Record \cup {None}]
    /\ unitIdempotency \in [Identity -> UnitRecord \cup {None}]

(* Every column holds a value of its type.                                 *)
TypeOK == EntityTypeOK /\ CaptureTypeOK /\ UnitTypeOK /\ IdempotencyTypeOK

(* No work unit is known and no identity recorded.                         *)
UnitsInit ==
    /\ unit = [u \in Unit |-> [state |-> "none", policy |-> None,
                               baseline |-> 0, due |-> FALSE]]
    /\ captured = [u \in Unit |-> {}]
    /\ closeMarker = [u \in Unit |-> {}]
    /\ base = [u \in Unit |-> NoKeys]
    /\ unitHeads = [u \in Unit |-> NoKeys]
    /\ staged = [u \in Unit |-> NoKeys]
    /\ idempotency = [i \in Identity |-> None]
    /\ unitIdempotency = [i \in Identity |-> None]

(* A database created by initialize: every table is empty.                 *)
Init ==
    /\ published = NoKeys
    /\ publishedCursor = [v \in Version |-> 0]
    /\ rowState = [v \in Version |-> "active"]
    /\ heads = NoKeys
    /\ changes = {}
    /\ frontier = 0
    /\ UnitsInit

(* Versions that have a row.                                               *)
Rows == (UNION {published[k] : k \in Key})
          \cup (UNION {staged[p[1]][p[2]] : p \in Unit \X Key})

-----------------------------------------------------------------------------
(* Published entities                                                      *)

(* Mutant: the history row at the cursor itself is left out.               *)
HeadsBefore(k, c) ==
    LET rows == {r \in changes : r.key = k /\ r.cursor < c}
    IN  UNION {r.heads : r \in {r \in rows : \A q \in rows : q.cursor <= r.cursor}}

(* The heads of k in its newest history row at or before cursor c.         *)
HeadsAt(k, c) ==
    LET rows == {r \in changes : r.key = k /\ r.cursor <= c}
    IN  UNION {r.heads : r \in {r \in rows : \A q \in rows : q.cursor <= r.cursor}}

StateOf(c) == IF c.deletes THEN "deleted" ELSE "active"

(* Inserts c's versions, replaces the heads of its entity and appends its  *)
(* change: what remains of a commit once its compare has succeeded.        *)
CommitEntityInTransaction(c) ==
    /\ rowState' = [v \in Version |-> IF v \in c.new THEN StateOf(c)
                                                     ELSE rowState[v]]
    /\ published' = [published EXCEPT ![c.key] = @ \cup c.new]
    /\ publishedCursor' = [v \in Version |-> IF v \in c.new
                                             THEN frontier + 1
                                             ELSE publishedCursor[v]]
    /\ heads' = [heads EXCEPT ![c.key] = c.heads]
    /\ changes' = changes \cup {[cursor |-> frontier + 1, key |-> c.key,
                                 kind |-> c.kind, heads |-> c.heads,
                                 by |-> None]}
    /\ frontier' = frontier + 1

-----------------------------------------------------------------------------
(* Expiry of work units                                                    *)

Lapsed == {u \in Unit : unit[u].state \in {"open", "closing"} /\ unit[u].due}

(* Mutants: expiry forgets the cascade to the unit's heads, or the staged  *)
(* idempotency records.                                                    *)
UnitHeadsKept(S) == unitHeads
RecordsKept(S) == unitIdempotency

(* The tables without what belongs to the units in S.  Deleting a staged   *)
(* version cascades to the unit's heads.                                   *)
UnitsWithout(S) == [u \in Unit |-> IF u \in S
                                   THEN [unit[u] EXCEPT !.state = "expired"]
                                   ELSE unit[u]]
StagedWithout(S) == [u \in Unit |-> IF u \in S THEN NoKeys ELSE staged[u]]
UnitHeadsWithout(S) ==
    [u \in Unit |-> IF u \in S THEN NoKeys ELSE unitHeads[u]]
RecordsWithout(S) ==
    [i \in Identity |->
        IF unitIdempotency[i] # None /\ unitIdempotency[i].unit \in S
        THEN None ELSE unitIdempotency[i]]

ExpireWorkUnits(S) ==
    /\ unit' = UnitsWithout(S)
    /\ staged' = StagedWithout(S)
    /\ unitHeads' = UnitHeadsWithout(S)
    /\ unitIdempotency' = RecordsWithout(S)

(* All that an operation leaves behind when its own transaction changes    *)
(* nothing or rolls back.                                                  *)
SweepOnly ==
    /\ ExpireWorkUnits(Lapsed)
    /\ UNCHANGED <<entityVars, captureVars, idempotency>>

(* Checkpoint, shutdown and the restart that follows a shutdown or a crash *)
(* all expire the lapsed units and touch nothing else modelled here.       *)
ExpireOpenWorkUnits == SweepOnly

-----------------------------------------------------------------------------
(* Immediate operations                                                    *)

(* Mutant: the compare of the heads is forgotten.                          *)
CommitOutcomeUnchecked(c, late) ==
    IF late THEN "DeadlineExceeded" ELSE "Committed"

CommitOutcome(c, late) ==
    IF heads[c.key] # c.expected THEN "Conflict"
    ELSE IF late THEN "DeadlineExceeded"
    ELSE "Committed"

(* Mutant: the transaction is never committed.                             *)
CommitEntityRolledBack(c, late) == SweepOnly

CommitEntity(c, late) ==
    \/ /\ CommitOutcome(c, late) = "Committed"
       /\ CommitEntityInTransaction(c)
       /\ ExpireWorkUnits(Lapsed)
       /\ UNCHANGED <<captureVars, idempotency>>
    \/ /\ CommitOutcome(c, late) # "Committed"
       /\ SweepOnly

ReadEntity == SweepOnly

(* Records whose retention has passed are deleted before a table is read.  *)
Retained(table) == [i \in Identity |->
                      IF table[i] # None /\ table[i].lapsed THEN None
                                                           ELSE table[i]]

(* Mutant: the published table is not consulted.                           *)
IdempotencyUnchecked(i, q) ==
    IF Retained(unitIdempotency)[i] # None THEN "Conflict" ELSE "Missing"

IdempotencyOutcome(i, q) ==
    LET mine == Retained(idempotency)[i]
        other == Retained(unitIdempotency)[i]
    IN  IF mine # None /\ mine.request = q THEN "Replayed"
        ELSE IF mine # None \/ other # None THEN "Conflict"
        ELSE "Missing"

PurgeIdempotency ==
    /\ idempotency' = Retained(idempotency)
    /\ unitIdempotency' = Retained(unitIdempotency)

ReadIdempotency(late) ==
    \/ /\ ~late
       /\ PurgeIdempotency
       /\ UNCHANGED <<entityVars, captureVars, unit, unitHeads, staged>>
    \/ /\ late
       /\ UNCHANGED providerVars

IdempotentCommitOutcome(c, i, q, late) ==
    CASE IdempotencyOutcome(i, q) = "Replayed" -> "Replayed"
      [] IdempotencyOutcome(i, q) = "Conflict" -> "IdempotencyConflict"
      [] OTHER                                 -> CommitOutcome(c, late)

(* Mutant: a conflict of the identity is noticed after the commit.         *)
CommitThenIdempotency(c, i, q, result, late) ==
    LET out == IdempotentCommitOutcome(c, i, q, late)
        commits == out # "Replayed" /\ CommitOutcome(c, late) = "Committed"
    IN  \/ /\ commits
           /\ CommitEntityInTransaction(c)
           /\ idempotency' = [idempotency EXCEPT
                ![i] = IF out # "Committed" THEN @
                       ELSE [request |-> q, result |-> result, lapsed |-> FALSE]]
           /\ UNCHANGED <<captureVars, unitVars>>
        \/ /\ ~commits
           /\ UNCHANGED providerVars

(* This operation does not sweep lapsed units.                             *)
CommitEntityIdempotent(c, i, q, result, late) ==
    \/ /\ IdempotentCommitOutcome(c, i, q, late) = "Committed"
       /\ CommitEntityInTransaction(c)
       /\ idempotency' = [Retained(idempotency) EXCEPT
                            ![i] = [request |-> q, result |-> result,
                                    lapsed |-> FALSE]]
       /\ unitIdempotency' = Retained(unitIdempotency)
       /\ UNCHANGED <<captureVars, unit, unitHeads, staged>>
    \/ /\ IdempotentCommitOutcome(c, i, q, late) # "Committed"
       /\ UNCHANGED providerVars

-----------------------------------------------------------------------------
(* Work units.  A request names its unit and the policy it selected.       *)

WorkUnit == [id : Unit, policy : Policy]

(* Mutants: an expired, or a committed, unit is taken for an open one.     *)
ExpiredIsOpen(w, S) ==
    IF unit[w.id].state \in {"none", "expired"} THEN "open"
    ELSE IF unit[w.id].policy # w.policy THEN "mismatch"
    ELSE IF w.id \in S THEN "expired"
    ELSE unit[w.id].state
CommittedIsOpen(w, S) ==
    IF unit[w.id].state \in {"none", "committed"} THEN "open"
    ELSE IF unit[w.id].policy # w.policy THEN "mismatch"
    ELSE IF w.id \in S THEN "expired"
    ELSE unit[w.id].state

(* The state ensure_work_unit reports once the units in S have expired.    *)
EnsuredState(w, S) ==
    IF unit[w.id].state = "none" THEN "open"
    ELSE IF unit[w.id].policy # w.policy THEN "mismatch"
    ELSE IF w.id \in S THEN "expired"
    ELSE unit[w.id].state

Baseline(w) == IF unit[w.id].state = "none" THEN frontier
                                            ELSE unit[w.id].baseline

(* The units after ensure_work_unit, which opens w when it is unknown.     *)
EnsuredUnits(w, S) ==
    IF unit[w.id].state = "none"
    THEN [UnitsWithout(S) EXCEPT
            ![w.id] = [state |-> "open", policy |-> w.policy,
                       baseline |-> frontier, due |-> FALSE]]
    ELSE UnitsWithout(S)

(* Mutant: the current heads are captured instead of the baseline's.       *)
BaseHeadsNow(w, k) == IF k \in captured[w.id] THEN base[w.id][k] ELSE heads[k]

(* The baseline heads of k, as captured earlier or as captured now.        *)
BaseHeads(w, k) == IF k \in captured[w.id] THEN base[w.id][k]
                                           ELSE HeadsAt(k, Baseline(w))

(* The heads a request of the unit sees: the staged ones over the baseline *)
WorkUnitHeads(w, k) == IF unitHeads[w.id][k] # {} THEN unitHeads[w.id][k]
                                                  ELSE BaseHeads(w, k)

(* The versions it sees: the baseline's and the unit's own.                *)
WorkUnitVersions(w, k) ==
    {v \in published[k] : publishedCursor[v] <= Baseline(w)}
      \cup staged[w.id][k]

CaptureWorkUnitEntities(w, K) ==
    /\ captured' = [captured EXCEPT ![w.id] = @ \cup K]
    /\ base' = [base EXCEPT ![w.id] = [k \in Key |-> IF k \in K
                                                    THEN BaseHeads(w, k)
                                                    ELSE @[k]]]

ReadInWorkUnitOutcome(w, late) ==
    IF late THEN "DeadlineExceeded" ELSE EnsuredState(w, Lapsed)

(* Reads one entity of an open unit, or the page K a query selects from    *)
(* it, and opens the unit when it is unknown.                              *)
ReadInWorkUnit(w, K, late) ==
    \/ /\ ReadInWorkUnitOutcome(w, late) = "open"
       /\ CaptureWorkUnitEntities(w, K)
       /\ unit' = EnsuredUnits(w, Lapsed)
       /\ staged' = StagedWithout(Lapsed)
       /\ unitHeads' = UnitHeadsWithout(Lapsed)
       /\ unitIdempotency' = RecordsWithout(Lapsed)
       /\ UNCHANGED <<entityVars, closeMarker, idempotency>>
    \/ /\ ReadInWorkUnitOutcome(w, late) # "open"
       /\ SweepOnly

(* An identity staged in the same unit with the same mutation is replayed  *)
(* unless the request carries the close marker.                            *)
UnitIdempotencyOutcome(w, i, q, close) ==
    LET mine == Retained(idempotency)[i]
        other == Retained(unitIdempotency)[i]
    IN  IF mine # None /\ mine.request = q THEN "Replayed"
        ELSE IF mine # None THEN "Conflict"
        ELSE IF other # None /\ ~(other.unit = w.id /\ other.request = q)
             THEN "Conflict"
        ELSE IF other # None /\ ~close THEN "ReplayedStaged"
        ELSE "Missing"

(* No sweep here: only the request's own unit expires, and only when the   *)
(* clock it read on arrival (seesDue) was already past the expiry.         *)
ExpiredHere(w, seesDue) ==
    IF seesDue /\ unit[w.id].policy = w.policy THEN Lapsed \cap {w.id} ELSE {}

ReadIdempotencyInWorkUnitOutcome(w, i, q, close, seesDue, late) ==
    LET state == EnsuredState(w, ExpiredHere(w, seesDue))
    IN  IF late THEN "DeadlineExceeded"
        ELSE IF state = "mismatch" THEN "Conflict"
        ELSE IF state = "expired" THEN "Missing"
        ELSE UnitIdempotencyOutcome(w, i, q, close)

ReadIdempotencyInWorkUnit(w, seesDue, late) ==
    LET S == ExpiredHere(w, seesDue)
    IN  \/ /\ ~late
           /\ EnsuredState(w, S) \in {"mismatch", "expired"}
           /\ ExpireWorkUnits(S)
           /\ UNCHANGED <<entityVars, captureVars, idempotency>>
        \/ /\ ~late
           /\ EnsuredState(w, S) \notin {"mismatch", "expired"}
           /\ unit' = EnsuredUnits(w, {})
           /\ PurgeIdempotency
           /\ UNCHANGED <<entityVars, captureVars, unitHeads, staged>>
        \/ /\ late
           /\ UNCHANGED providerVars

-----------------------------------------------------------------------------
(* Publication of a work unit                                              *)

(* Mutated entities whose published heads are no longer the baseline's:    *)
(* hs and bs are the unit's staged heads and baseline heads.               *)
PublicationConflicts(hs, bs) == {k \in Key : hs[k] # {} /\ heads[k] # bs[k]}

DeriveChangeKind(previous, hs, states) ==
    IF previous = {} THEN "created"
    ELSE IF \E v, w \in hs : v # w THEN "conflicted"
    ELSE IF \E v, w \in previous : v # w THEN "resolved"
    ELSE IF \A v \in hs : states[v] = "deleted" THEN "deleted"
    ELSE "updated"

(* Mutant: cursors are counted from the frontier, not from the one after.  *)
PublicationOrdersFromZero(M, marked) ==
    {pos \in [M -> 0 .. Cardinality(M) - 1] :
        \A j, k \in M : pos[j] = pos[k] => j = k}

(* The orders in which the mutated entities M may be published: those the  *)
(* close marker touched come last.  Entity names are opaque here, so their *)
(* lexical order within each half is not fixed.                            *)
PublicationOrders(M, marked) ==
    {pos \in [M -> 1 .. Cardinality(M)] :
        /\ \A j, k \in M : pos[j] = pos[k] => j = k
        /\ \A j \in M \ marked, k \in M \cap marked : pos[j] < pos[k]}

(* What the publishing transaction holds of the unit: its staged heads, its  *)
(* staged versions, its close markers, the state column and both           *)
(* idempotency tables.                                                     *)
Publication(hs, rows, marked, states, stagedRecords, records) ==
    [heads |-> hs, rows |-> rows, marked |-> marked, states |-> states,
     stagedRecords |-> stagedRecords, records |-> records]

(* Publishes every mutated entity of w and moves the unit's idempotency    *)
(* records that have not lapsed to the published table.                    *)
FinishWorkUnitPublication(w, p) ==
    LET u == w.id
        M == {k \in Key : p.heads[k] # {}}
        mine(i) == p.stagedRecords[i] # None /\ p.stagedRecords[i].unit = u
    IN  \E pos \in PublicationOrders(M, p.marked) :
          /\ heads' = [k \in Key |-> IF k \in M THEN p.heads[k] ELSE heads[k]]
          /\ changes' = changes \cup
               {[cursor |-> frontier + pos[k], key |-> k,
                 kind |-> DeriveChangeKind(heads[k], p.heads[k], p.states),
                 heads |-> p.heads[k], by |-> u] : k \in M}
          /\ frontier' = frontier + Cardinality(M)
          /\ published' = [k \in Key |-> IF k \in M
                                         THEN published[k] \cup p.rows[k]
                                         ELSE published[k]]
          /\ publishedCursor' =
               [v \in Version |->
                  IF \E k \in M : v \in p.rows[k]
                  THEN frontier + pos[CHOOSE k \in M : v \in p.rows[k]]
                  ELSE publishedCursor[v]]
          /\ rowState' = p.states
          /\ unit' = [EnsuredUnits(w, Lapsed) EXCEPT
                        ![u].state = "committed"]
          /\ staged' = [StagedWithout(Lapsed) EXCEPT ![u] = NoKeys]
          /\ unitHeads' = [UnitHeadsWithout(Lapsed) EXCEPT ![u] = p.heads]
          /\ idempotency' =
               [i \in Identity |->
                  IF mine(i) /\ ~p.stagedRecords[i].lapsed
                  THEN [request |-> p.stagedRecords[i].request,
                        result |-> p.stagedRecords[i].result,
                        lapsed |-> FALSE]
                  ELSE p.records[i]]
          /\ unitIdempotency' =
               [i \in Identity |-> IF mine(i) THEN None
                                              ELSE p.stagedRecords[i]]

-----------------------------------------------------------------------------
(* commit_entity_in_work_unit.  rec is the request's idempotency record    *)
(* ([id, request, result]) or None.                                        *)

StoreIdempotencyOutcome(w, rec) ==
    IF rec = None THEN "Missing"
    ELSE LET out == UnitIdempotencyOutcome(w, rec.id, rec.request, FALSE)
         IN  IF out = "ReplayedStaged" THEN "Replayed" ELSE out

(* Mutant: drift is looked for before the entity's baseline is captured.   *)
StagedBaseUncaptured(w, c) == base[w.id]

(* The unit's tables once c is staged.                                     *)
StagedHeads(w, c) == [unitHeads[w.id] EXCEPT ![c.key] = c.heads]
StagedRows(w, c) == [staged[w.id] EXCEPT ![c.key] = @ \cup c.new]
StagedBase(w, c) == [base[w.id] EXCEPT ![c.key] = BaseHeads(w, c.key)]
StagedMarks(w, c, close) == IF close THEN closeMarker[w.id] \cup {c.key}
                                     ELSE closeMarker[w.id]
StagedStates(c) == [v \in Version |-> IF v \in c.new THEN StateOf(c)
                                                     ELSE rowState[v]]
StagedRecords(w, rec) ==
    IF rec = None THEN RecordsWithout(Lapsed)
    ELSE LET kept == Retained(RecordsWithout(Lapsed))
         IN  IF StoreIdempotencyOutcome(w, rec) = "Missing"
             THEN [kept EXCEPT ![rec.id] =
                     [unit |-> w.id, request |-> rec.request,
                      result |-> rec.result, lapsed |-> FALSE]]
             ELSE kept
PublishedRecords(rec) == IF rec = None THEN idempotency
                                       ELSE Retained(idempotency)

(* A sealed unit that is closed again ignores c and publishes what it has  *)
(* staged; an open one compares, stages c and, at its close marker, looks  *)
(* for drift of the published heads.                                       *)
CommitInWorkUnitOutcome(w, c, close, rec, late) ==
    LET state == EnsuredState(w, Lapsed)
        stored == StoreIdempotencyOutcome(w, rec)
    IN  IF state = "open" /\ WorkUnitHeads(w, c.key) # c.expected
        THEN "Conflict"
        ELSE IF state = "open" /\ stored = "Conflict"
             THEN "IdempotencyConflict"
        ELSE IF state = "open" /\ stored = "Replayed" /\ ~close THEN "Replayed"
        ELSE IF late THEN "DeadlineExceeded"
        ELSE IF state = "mismatch" THEN "PolicyMismatch"
        ELSE IF state = "committed" THEN "Committed"
        ELSE IF state = "expired" THEN "Expired"
        ELSE IF state = "closing" /\ ~close THEN "Closing"
        ELSE IF state = "open" /\ ~close THEN "Staged"
        ELSE IF {} = IF state = "closing"
                     THEN PublicationConflicts(unitHeads[w.id], base[w.id])
                     ELSE PublicationConflicts(StagedHeads(w, c),
                                               StagedBase(w, c))
             THEN "Published"
        ELSE "PublicationConflict"

StageInWorkUnit(w, c, close) ==
    /\ CaptureWorkUnitEntities(w, {c.key})
    /\ closeMarker' = [closeMarker EXCEPT ![w.id] = StagedMarks(w, c, close)]

CommitEntityInWorkUnit(w, c, close, rec, late) ==
    LET out == CommitInWorkUnitOutcome(w, c, close, rec, late)
        opened == EnsuredState(w, Lapsed) = "open"
        sealed == IF close THEN "closing" ELSE "open"
    IN  \/ /\ opened
           /\ out \in {"Staged", "PublicationConflict"}
           /\ StageInWorkUnit(w, c, close)
           /\ rowState' = StagedStates(c)
           /\ unit' = [EnsuredUnits(w, Lapsed) EXCEPT ![w.id].state = sealed]
           /\ unitHeads' = [UnitHeadsWithout(Lapsed) EXCEPT
                              ![w.id] = StagedHeads(w, c)]
           /\ staged' = [StagedWithout(Lapsed) EXCEPT
                              ![w.id] = StagedRows(w, c)]
           /\ unitIdempotency' = StagedRecords(w, rec)
           /\ idempotency' = PublishedRecords(rec)
           /\ UNCHANGED <<published, publishedCursor, heads, changes, frontier>>
        \/ /\ out = "Published"
           /\ IF opened
              THEN /\ StageInWorkUnit(w, c, close)
                   /\ FinishWorkUnitPublication(w,
                        Publication(StagedHeads(w, c), StagedRows(w, c),
                          StagedMarks(w, c, close), StagedStates(c),
                          StagedRecords(w, rec), PublishedRecords(rec)))
              ELSE /\ UNCHANGED captureVars
                   /\ FinishWorkUnitPublication(w,
                        Publication(unitHeads[w.id], staged[w.id],
                          closeMarker[w.id], rowState,
                          RecordsWithout(Lapsed), idempotency))
        \/ /\ out \notin {"Staged", "Published"}
           /\ ~(opened /\ out = "PublicationConflict")
           /\ SweepOnly

-----------------------------------------------------------------------------
(* publish_work_unit: the second attempt to publish a sealed unit.  res    *)
(* maps each entity the client resolved to the published and staged heads  *)
(* it saw, the versions it adds and the heads it chose.                    *)

PublishOutcome(w, res) ==
    LET state == EnsuredState(w, Lapsed)
        K == DOMAIN res
    IN  IF state = "mismatch" THEN "PolicyMismatch"
        ELSE IF state = "committed" THEN "Committed"
        ELSE IF state = "expired" THEN "Expired"
        ELSE IF state = "open" THEN "Error"
        ELSE IF \/ PublicationConflicts(unitHeads[w.id], base[w.id]) # K
                \/ \E k \in K : res[k].published # heads[k]
             THEN "PublicationConflict"
        ELSE IF \E k \in K : res[k].staged # unitHeads[w.id][k] THEN "Conflict"
        ELSE "Published"

(* The request's deadline is not consulted.                                *)
PublishWorkUnit(w, res) ==
    LET K == DOMAIN res
        resolvedHeads == [k \in Key |-> IF k \in K THEN res[k].heads
                                                   ELSE unitHeads[w.id][k]]
        resolvedRows == [k \in Key |-> IF k \in K
                                       THEN staged[w.id][k] \cup res[k].new
                                       ELSE staged[w.id][k]]
        states == [v \in Version |-> IF \E k \in K : v \in res[k].new
                                     THEN "active" ELSE rowState[v]]
    IN  \/ /\ PublishOutcome(w, res) = "Published"
           /\ UNCHANGED captureVars
           /\ FinishWorkUnitPublication(w,
                Publication(resolvedHeads, resolvedRows, closeMarker[w.id],
                            states, RecordsWithout(Lapsed), idempotency))
        \/ /\ PublishOutcome(w, res) # "Published"
           /\ SweepOnly

-----------------------------------------------------------------------------
(* The clock.                                                              *)

UnitFallsDue(u) ==
    /\ unit[u].state \in {"open", "closing"}
    /\ ~unit[u].due
    /\ unit' = [unit EXCEPT ![u].due = TRUE]
    /\ UNCHANGED <<entityVars, captureVars, unitHeads, staged,
                   unitIdempotency, idempotency>>

Aged(record) == IF record = None THEN None ELSE [record EXCEPT !.lapsed = TRUE]

RecordLapses(i) ==
    /\ idempotency[i] # None \/ unitIdempotency[i] # None
    /\ idempotency' = [idempotency EXCEPT ![i] = Aged(@)]
    /\ unitIdempotency' = [unitIdempotency EXCEPT ![i] = Aged(@)]
    /\ UNCHANGED <<entityVars, captureVars, unit, unitHeads, staged>>

-----------------------------------------------------------------------------
(* The provider and the clients its contract allows: versions are fresh,   *)
(* every commit adds one, makes it a head and keeps any of the heads it    *)
(* expects; the heads it expects may be stale.                             *)

Fresh == Mint(Rows)

(* Mutant: concurrent heads are overlooked.                                *)
LinearChangeKind(previous, hs, deletes) ==
    IF previous = {} THEN "created"
    ELSE IF deletes THEN "deleted"
    ELSE "updated"

MutationChangeKind(previous, hs, deletes) ==
    IF previous = {} THEN "created"
    ELSE IF Cardinality(hs) > 1 THEN "conflicted"
    ELSE IF Cardinality(previous) > 1 THEN "resolved"
    ELSE IF deletes THEN "deleted"
    ELSE "updated"

(* Nothing is deleted that was never created.                              *)
DeletesAfter(seen) == IF seen = {} THEN {FALSE} ELSE BOOLEAN

Choices(seen) == [new : Fresh \ {{}}, kept : SUBSET seen,
                  deletes : DeletesAfter(seen)]

Commits(k, seen) ==
    {[key |-> k, expected |-> seen, new |-> x.new, deletes |-> x.deletes,
      heads |-> x.kept \cup x.new,
      kind |-> MutationChangeKind(seen, x.kept \cup x.new, x.deletes)] :
        x \in Choices(seen)}

(* The heads a mutation of k may expect.                                   *)
Seen(k) == {heads[k], {}}
SeenIn(w, k) == {WorkUnitHeads(w, k), {}}

NoRecord == None
UnitRecordsOf(c) == {NoRecord} \cup
    [id : Identity, request : Request, result : c.new]

(* Resolutions of a sealed unit's drift, from current or stale heads.  A   *)
(* client keeps the unit's own heads unless it replaces them by a merge.   *)
ResolutionsOf(w, k) ==
    {[published |-> x.published, staged |-> unitHeads[w.id][k],
      new |-> x.new, heads |-> x.kept \cup x.new] :
        x \in {y \in [published : {heads[k], base[w.id][k]}, new : Fresh,
                      kept : SUBSET (heads[k] \cup unitHeads[w.id][k])] :
                y.new # {} \/ unitHeads[w.id][k] \subseteq y.kept}}

Drifted(w) == IF unit[w.id].state = "closing"
              THEN PublicationConflicts(unitHeads[w.id], base[w.id]) ELSE {}

Resolutions(w) ==
    {<<>>} \cup
    {res \in [Drifted(w) -> UNION {ResolutionsOf(w, k) : k \in Drifted(w)}] :
        /\ \A k \in Drifted(w) : res[k] \in ResolutionsOf(w, k)
                                   /\ res[k].heads # {}
        /\ \A j, k \in Drifted(w) : j # k => res[j].new \cap res[k].new = {}}

ImmediateOperation(late) ==
    \/ ReadIdempotency(late)
    \/ ReadEntity
    \/ \E k \in Key : \E seen \in Seen(k) : \E c \in Commits(k, seen) :
          \/ CommitEntity(c, late)
          \/ \E i \in Identity, q \in Request, result \in c.new :
                CommitEntityIdempotent(c, i, q, result, late)

WorkUnitOperation(w, late) ==
    \/ \E K \in SUBSET Key : ReadInWorkUnit(w, K, late)
    \/ \E seesDue \in BOOLEAN : ReadIdempotencyInWorkUnit(w, seesDue, late)
    \/ \E k \in Key : \E seen \in SeenIn(w, k) : \E c \in Commits(k, seen) :
          \E close \in BOOLEAN, rec \in UnitRecordsOf(c) :
            CommitEntityInWorkUnit(w, c, close, rec, late)

Next ==
    \/ \E late \in BOOLEAN : ImmediateOperation(late)
    \/ \E w \in WorkUnit, late \in BOOLEAN : WorkUnitOperation(w, late)
    \/ \E w \in WorkUnit : \E res \in Resolutions(w) : PublishWorkUnit(w, res)
    \/ ExpireOpenWorkUnits
    \/ \E u \in Unit : UnitFallsDue(u)
    \/ \E i \in Identity : RecordLapses(i)

Spec == Init /\ [][Next]_providerVars

-----------------------------------------------------------------------------
(* Safety                                                                  *)

Live(u) == unit[u].state \in {"open", "closing"}

(* A staged version belongs to one live unit and is not published: work of *)
(* an expired or committed unit is gone from the staging rows, and no      *)
(* other unit or reader shares it (expire_work_unit, ensure_work_unit).    *)
StagedIsPrivate ==
    \A u \in Unit, k \in Key :
      /\ staged[u][k] # {} => Live(u)
      /\ \A j \in Key : staged[u][k] \cap published[j] = {}
      /\ \A t \in Unit, j \in Key :
            <<t, j>> # <<u, k>> => staged[u][k] \cap staged[t][j] = {}

(* Heads always name stored rows: a published head is a published version  *)
(* of its entity, and a unit's head is published or staged in that very    *)
(* unit, so neither expiry (expire_work_unit deletes rows) nor publication *)
(* (publish_work_unit_versions moves them) leaves a dangling head, and     *)
(* staged rows stay private.                                               *)
HeadsHaveRows ==
    /\ StagedIsPrivate
    /\ \A k \in Key : heads[k] \subseteq published[k]
    /\ \A u \in Unit, k \in Key :
          unitHeads[u][k] \subseteq published[k] \cup staged[u][k]

(* The head history is the published state: the newest history row of an   *)
(* entity holds its current heads (insert_change is called with every      *)
(* replace_published_heads), and no row lies beyond the scope frontier.    *)
HistoryMatchesHeads ==
    /\ \A k \in Key : HeadsAt(k, frontier) = heads[k]
    /\ \A r \in changes : r.cursor <= frontier

(* Snapshot isolation of a unit: whenever it first touched an entity, what *)
(* capture_work_unit_entity stored is the head set at the unit's baseline  *)
(* cursor, whatever was published between the opening and the touch.       *)
BaselineIsSnapshot ==
    \A u \in Unit : \A k \in captured[u] :
        base[u][k] = HeadsAt(k, unit[u].baseline)

(* Batches are all or nothing: a committed unit has one change for every   *)
(* entity it mutated, and a unit that is open, sealed or expired has none. *)
BatchIsAtomic ==
    \A u \in Unit :
        {r.key : r \in {r \in changes : r.by = u}} =
            IF unit[u].state = "committed"
            THEN {k \in Key : unitHeads[u][k] # {}} ELSE {}

(* An idempotency identity is never in both tables, so the INSERT with     *)
(* which finish_work_unit_publication moves a unit's records cannot hit    *)
(* the primary key and abort the publication; and a staged record belongs  *)
(* to a live unit, so no identity stays reserved by a finished one.        *)
IdempotencyDisjoint ==
    \A i \in Identity :
        /\ idempotency[i] = None \/ unitIdempotency[i] = None
        /\ unitIdempotency[i] # None => Live(unitIdempotency[i].unit)

(* A unit is sealed only while the published heads of something it mutated *)
(* have drifted from its baseline: commit_entity_in_work_unit publishes in *)
(* the closing transaction otherwise, and drift is never undone, so a      *)
(* sealed unit always waits for a resolution.                              *)
SealedUnitHasDrift ==
    \A u \in Unit : unit[u].state = "closing" =>
        PublicationConflicts(unitHeads[u], base[u]) # {}

(* The change log is append-only above the frontier and published versions *)
(* are immutable: a subscriber that read up to a cursor never misses a     *)
(* change at or below it, and a version once read keeps its contents.      *)
PublishedIsImmutable ==
    [][/\ changes \subseteq changes'
       /\ \A r \in changes' \ changes : r.cursor > frontier
       /\ \A k \in Key : /\ published[k] \subseteq published'[k]
                          /\ \A v \in published[k] :
                               /\ rowState'[v] = rowState[v]
                               /\ publishedCursor'[v] = publishedCursor[v]
      ]_providerVars

(* A unit's outcome is final: committed and expired units never change     *)
(* state, a sealed unit never reopens, and its policy and baseline are     *)
(* those it was opened with (ensure_work_unit).  What it published, or any *)
(* commit, is final as well.                                               *)
UnitOutcomeIsFinal ==
    /\ PublishedIsImmutable
    /\ [][\A u \in Unit :
        /\ unit[u].state \in {"committed", "expired"} => unit'[u] = unit[u]
        /\ unit[u].state = "closing" => unit'[u].state # "open"
        /\ unit[u].state # "none" =>
              /\ unit'[u].policy = unit[u].policy
              /\ unit'[u].baseline = unit[u].baseline]_providerVars
=============================================================================
