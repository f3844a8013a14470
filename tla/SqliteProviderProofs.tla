------------------------ MODULE SqliteProviderProofs ------------------------
(***************************************************************************)
(* Proofs about the SQLite provider, for every set of entities, versions,  *)
(* units, policies, identities and mutations: type correctness first, then *)
(* the invariants and the action property that the provider's model checks *)
(* on small instances.                                                     *)
(***************************************************************************)
EXTENDS SqliteProvider, FiniteSetTheorems, TLAPS

-----------------------------------------------------------------------------
(* Types of the operators the actions are built from                       *)

(* What the expiry of the units in S leaves is well typed.                 *)
LEMMA WithoutTypes ==
    ASSUME TypeOK, NEW S
    PROVE  /\ UnitsWithout(S) \in [Unit -> UnitRow]
           /\ StagedWithout(S) \in [Unit -> [Key -> SUBSET Version]]
           /\ UnitHeadsWithout(S) \in [Unit -> [Key -> SUBSET Version]]
           /\ RecordsWithout(S) \in [Identity -> UnitRecord \cup {None}]
  BY DEF TypeOK, UnitTypeOK, IdempotencyTypeOK, UnitsWithout, StagedWithout,
         UnitHeadsWithout, RecordsWithout, NoKeys, UnitRow

(* The units after ensure_work_unit are well typed.                        *)
LEMMA EnsuredUnitsType ==
    ASSUME TypeOK, NEW w \in WorkUnit, NEW S
    PROVE  EnsuredUnits(w, S) \in [Unit -> UnitRow]
  BY WithoutTypes
  DEF TypeOK, EntityTypeOK, UnitTypeOK, EnsuredUnits, WorkUnit, UnitRow

(* Changing the state of one unit keeps the unit table well typed.         *)
LEMMA SealedUnitType ==
    ASSUME NEW table \in [Unit -> UnitRow], NEW u,
           NEW state \in {"none", "open", "closing", "committed", "expired"}
    PROVE  [table EXCEPT ![u].state = state] \in [Unit -> UnitRow]
  <1>1. ASSUME NEW x \in Unit
        PROVE  [table[x] EXCEPT !.state = state] \in UnitRow
    BY DEF UnitRow
  <1> QED
    BY <1>1

(* Deleting lapsed records keeps an idempotency table well typed.          *)
LEMMA RetainedType ==
    ASSUME NEW R, NEW table \in [Identity -> R \cup {None}]
    PROVE  Retained(table) \in [Identity -> R \cup {None}]
  BY DEF Retained

(* The heads a unit sees are versions.                                     *)
LEMMA HeadsTypes ==
    ASSUME TypeOK, NEW w \in WorkUnit, NEW k \in Key
    PROVE  /\ \A c : HeadsAt(k, c) \in SUBSET Version
           /\ BaseHeads(w, k) \in SUBSET Version
           /\ WorkUnitHeads(w, k) \in SUBSET Version
  <1>1. \A c : HeadsAt(k, c) \in SUBSET Version
    BY DEF TypeOK, EntityTypeOK, HeadsAt, Change
  <1>2. BaseHeads(w, k) \in SUBSET Version
    BY <1>1 DEF TypeOK, CaptureTypeOK, BaseHeads, WorkUnit
  <1>3. WorkUnitHeads(w, k) \in SUBSET Version
    BY <1>2 DEF TypeOK, UnitTypeOK, WorkUnitHeads, WorkUnit
  <1> QED
    BY <1>1, <1>2, <1>3

(* What a client commits is well typed, brings at least one version that   *)
(* has no row, and makes heads of the new versions and of expected ones.   *)
LEMMA CommitsType ==
    ASSUME TypeOK, NEW k \in Key, NEW seen \in SUBSET Version,
           NEW c \in Commits(k, seen)
    PROVE  /\ c \in EntityCommit
           /\ c.key = k /\ c.expected = seen
           /\ c.new \cap Rows = {} /\ c.new # {}
           /\ c.new \subseteq c.heads /\ c.heads \subseteq seen \cup c.new
  <1>1. Rows \in SUBSET Version
    BY DEF TypeOK, EntityTypeOK, UnitTypeOK, Rows
  <1>2. Fresh \subseteq SUBSET (Version \ Rows)
    BY <1>1, MintIsFresh DEF Fresh
  <1>3. PICK x \in Choices(seen) :
          c = [key |-> k, expected |-> seen, new |-> x.new,
               deletes |-> x.deletes, heads |-> x.kept \cup x.new,
               kind |-> MutationChangeKind(seen, x.kept \cup x.new, x.deletes)]
    BY DEF Commits
  <1>4. x.deletes \in BOOLEAN /\ x.kept \subseteq seen
    BY DEF Choices, DeletesAfter
  <1>5. MutationChangeKind(seen, x.kept \cup x.new, x.deletes) \in ChangeKind
    BY DEF MutationChangeKind, ChangeKind
  <1>6. x.new \in SUBSET Version /\ x.new # {} /\ x.new \cap Rows = {}
    BY <1>2 DEF Choices
  <1> QED
    BY <1>3, <1>4, <1>5, <1>6 DEF EntityCommit

-----------------------------------------------------------------------------
(* Every operation preserves the types                                     *)

(* The sweep keeps every table typed.                                      *)
LEMMA SweepOnlyType ==
    ASSUME TypeOK, SweepOnly
    PROVE  TypeOK'
  BY WithoutTypes
  DEF TypeOK, EntityTypeOK, CaptureTypeOK, UnitTypeOK, IdempotencyTypeOK,
      SweepOnly, ExpireWorkUnits, entityVars, captureVars

(* An immediate commit keeps the entity tables typed.                      *)
LEMMA CommitInTransactionType ==
    ASSUME TypeOK, NEW c \in EntityCommit, CommitEntityInTransaction(c)
    PROVE  EntityTypeOK'
  <1>1. changes' \subseteq Change
    BY DEF TypeOK, EntityTypeOK, CommitEntityInTransaction, EntityCommit, Change
  <1>2. /\ published' \in [Key -> SUBSET Version]
        /\ heads' \in [Key -> SUBSET Version]
        /\ publishedCursor' \in [Version -> Nat]
        /\ rowState' \in [Version -> {"active", "deleted"}]
        /\ frontier' \in Nat
    BY DEF TypeOK, EntityTypeOK, CommitEntityInTransaction, EntityCommit, StateOf
  <1> QED
    BY <1>1, <1>2 DEF EntityTypeOK

(* commit_entity keeps every table typed.                                  *)
LEMMA CommitEntityType ==
    ASSUME TypeOK, NEW c \in EntityCommit, NEW late, CommitEntity(c, late)
    PROVE  TypeOK'
  <1>1. CASE SweepOnly
    BY <1>1, SweepOnlyType
  <1>2. CASE /\ CommitEntityInTransaction(c)
             /\ ExpireWorkUnits(Lapsed)
             /\ UNCHANGED <<captureVars, idempotency>>
    <2>1. EntityTypeOK'
      BY <1>2, CommitInTransactionType
    <2>2. CaptureTypeOK' /\ UnitTypeOK' /\ IdempotencyTypeOK'
      BY <1>2, WithoutTypes
      DEF TypeOK, CaptureTypeOK, UnitTypeOK, IdempotencyTypeOK,
          ExpireWorkUnits, captureVars
    <2> QED
      BY <2>1, <2>2 DEF TypeOK
  <1> QED
    BY <1>1, <1>2 DEF CommitEntity

(* Both idempotency tables keep their types when lapsed records go.        *)
LEMMA RetainedTypes ==
    ASSUME TypeOK
    PROVE  /\ Retained(idempotency) \in [Identity -> Record \cup {None}]
           /\ Retained(unitIdempotency) \in [Identity -> UnitRecord \cup {None}]
  <1>1. idempotency \in [Identity -> Record \cup {None}]
    BY DEF TypeOK, IdempotencyTypeOK
  <1>2. unitIdempotency \in [Identity -> UnitRecord \cup {None}]
    BY DEF TypeOK, IdempotencyTypeOK
  <1> QED
    BY <1>1, <1>2, RetainedType

(* A step that changes nothing preserves the types.                        *)
LEMMA UnchangedType ==
    ASSUME TypeOK, UNCHANGED providerVars
    PROVE  TypeOK'
  BY DEF TypeOK, EntityTypeOK, CaptureTypeOK, UnitTypeOK, IdempotencyTypeOK,
         entityVars, captureVars, unitVars, providerVars

(* read_idempotency keeps every table typed.                               *)
LEMMA ReadIdempotencyType ==
    ASSUME TypeOK, NEW late, ReadIdempotency(late)
    PROVE  TypeOK'
  <1>1. CASE UNCHANGED providerVars
    BY <1>1, UnchangedType
  <1>2. CASE /\ PurgeIdempotency
             /\ UNCHANGED <<entityVars, captureVars, unit, unitHeads, staged>>
    BY <1>2, RetainedTypes
    DEF TypeOK, EntityTypeOK, CaptureTypeOK, UnitTypeOK, IdempotencyTypeOK,
        PurgeIdempotency, entityVars, captureVars
  <1> QED
    BY <1>1, <1>2 DEF ReadIdempotency

(* commit_entity_idempotent keeps every table typed.                       *)
LEMMA CommitEntityIdempotentType ==
    ASSUME TypeOK, NEW c \in EntityCommit, NEW i \in Identity, NEW q \in Request,
           NEW result \in c.new, NEW late,
           CommitEntityIdempotent(c, i, q, result, late)
    PROVE  TypeOK'
  <1>1. CASE UNCHANGED providerVars
    BY <1>1, UnchangedType
  <1>2. CASE IdempotentCommitOutcome(c, i, q, late) = "Committed"
    <2> USE <1>2 DEF CommitEntityIdempotent
    <2>1. EntityTypeOK'
      BY CommitInTransactionType
    <2>2. CaptureTypeOK' /\ UnitTypeOK'
      BY DEF TypeOK, CaptureTypeOK, UnitTypeOK, captureVars
    <2>3. [request |-> q, result |-> result, lapsed |-> FALSE] \in Record
      BY DEF EntityCommit, Record
    <2>4. IdempotencyTypeOK'
      BY <2>3, RetainedTypes DEF IdempotencyTypeOK
    <2> QED
      BY <2>1, <2>2, <2>4 DEF TypeOK
  <1> QED
    BY <1>1, <1>2 DEF CommitEntityIdempotent

(* Capturing the baseline of some entities keeps the capture tables typed. *)
LEMMA CaptureType ==
    ASSUME TypeOK, NEW w \in WorkUnit, NEW K \in SUBSET Key,
           CaptureWorkUnitEntities(w, K)
    PROVE  /\ captured' \in [Unit -> SUBSET Key]
           /\ base' \in [Unit -> [Key -> SUBSET Version]]
  <1>1. \A k \in Key : BaseHeads(w, k) \in SUBSET Version
    BY HeadsTypes
  <1> QED
    BY <1>1 DEF TypeOK, CaptureTypeOK, CaptureWorkUnitEntities, WorkUnit

(* Reading in a unit, which opens it, keeps every table typed.             *)
LEMMA ReadInWorkUnitType ==
    ASSUME TypeOK, NEW w \in WorkUnit, NEW K \in SUBSET Key, NEW late,
           ReadInWorkUnit(w, K, late)
    PROVE  TypeOK'
  <1>1. CASE SweepOnly
    BY <1>1, SweepOnlyType
  <1>2. CASE ReadInWorkUnitOutcome(w, late) = "open"
    <2> USE <1>2 DEF ReadInWorkUnit
    <2>1. CaptureTypeOK'
      BY CaptureType DEF TypeOK, CaptureTypeOK
    <2>2. EntityTypeOK'
      BY DEF TypeOK, EntityTypeOK, entityVars
    <2>3. UnitTypeOK' /\ IdempotencyTypeOK'
      BY WithoutTypes, EnsuredUnitsType
      DEF TypeOK, UnitTypeOK, IdempotencyTypeOK
    <2> QED
      BY <2>1, <2>2, <2>3 DEF TypeOK
  <1> QED
    BY <1>1, <1>2 DEF ReadInWorkUnit

(* So does reading a record in a unit.                                     *)
LEMMA ReadIdempotencyInWorkUnitType ==
    ASSUME TypeOK, NEW w \in WorkUnit, NEW seesDue, NEW late,
           ReadIdempotencyInWorkUnit(w, seesDue, late)
    PROVE  TypeOK'
  <1> DEFINE S == ExpiredHere(w, seesDue)
  <1>1. CASE UNCHANGED providerVars
    BY <1>1, UnchangedType
  <1>2. CASE ExpireWorkUnits(S) /\ UNCHANGED <<entityVars, captureVars, idempotency>>
    <2> HIDE DEF S
    <2> QED
      BY <1>2, WithoutTypes
      DEF TypeOK, EntityTypeOK, CaptureTypeOK, UnitTypeOK, IdempotencyTypeOK,
          ExpireWorkUnits, entityVars, captureVars
  <1>3. CASE /\ unit' = EnsuredUnits(w, {})
             /\ PurgeIdempotency
             /\ UNCHANGED <<entityVars, captureVars, unitHeads, staged>>
    <2>1. unit' \in [Unit -> UnitRow]
      BY <1>3, EnsuredUnitsType
    <2> QED
      BY <1>3, <2>1, RetainedTypes
      DEF TypeOK, EntityTypeOK, CaptureTypeOK, UnitTypeOK, IdempotencyTypeOK,
          PurgeIdempotency, entityVars, captureVars
  <1> QED
    BY <1>1, <1>2, <1>3 DEF ReadIdempotencyInWorkUnit

(* The passing of a unit's time keeps every table typed.                   *)
LEMMA UnitFallsDueType ==
    ASSUME TypeOK, NEW u \in Unit, UnitFallsDue(u)
    PROVE  TypeOK'
  BY ZenonT(60) DEF TypeOK, EntityTypeOK, CaptureTypeOK, UnitTypeOK, IdempotencyTypeOK,
         UnitRow, UnitFallsDue, entityVars, captureVars

(* So does the passing of a record's time.                                 *)
LEMMA RecordLapsesType ==
    ASSUME TypeOK, NEW i \in Identity, RecordLapses(i)
    PROVE  TypeOK'
  <1>1. IdempotencyTypeOK'
    BY DEF TypeOK, IdempotencyTypeOK, RecordLapses, Aged, Record, UnitRecord
  <1> QED
    BY <1>1 DEF TypeOK, EntityTypeOK, CaptureTypeOK, UnitTypeOK, RecordLapses,
                entityVars, captureVars

-----------------------------------------------------------------------------
(* Publication of a unit                                                   *)

PublicationRecord ==
    [heads : [Key -> SUBSET Version], rows : [Key -> SUBSET Version],
     marked : SUBSET Key, states : [Version -> {"active", "deleted"}],
     stagedRecords : [Identity -> UnitRecord \cup {None}],
     records : [Identity -> Record \cup {None}]]

(* The publishing transaction appends well-typed changes, one per mutated  *)
(* entity, whatever the order of publication.                              *)
LEMMA FinishPublicationEntityType ==
    ASSUME TypeOK, NEW w \in WorkUnit, NEW p \in PublicationRecord,
           FinishWorkUnitPublication(w, p)
    PROVE  EntityTypeOK'
  <1> DEFINE M == {k \in Key : p.heads[k] # {}}
  <1>1. IsFiniteSet(M) /\ Cardinality(M) \in Nat
    BY FiniteKeys, FS_Subset, FS_CardinalityType
  <1>2. PICK pos \in PublicationOrders(M, p.marked) :
          /\ heads' = [k \in Key |-> IF k \in M THEN p.heads[k] ELSE heads[k]]
          /\ changes' = changes \cup
               {[cursor |-> frontier + pos[k], key |-> k,
                 kind |-> DeriveChangeKind(heads[k], p.heads[k], p.states),
                 heads |-> p.heads[k], by |-> w.id] : k \in M}
          /\ frontier' = frontier + Cardinality(M)
          /\ published' = [k \in Key |-> IF k \in M
                                         THEN published[k] \cup p.rows[k]
                                         ELSE published[k]]
          /\ publishedCursor' =
               [v \in Version |->
                  IF \E k \in M : v \in p.rows[k]
                  THEN frontier + pos[CHOOSE k \in M : v \in p.rows[k]]
                  ELSE publishedCursor[v]]
          /\ rowState' = p.states
    BY DEF FinishWorkUnitPublication
  <1>3. \A k \in M : pos[k] \in Nat \ {0}
    BY <1>1 DEF PublicationOrders
  <1> HIDE DEF M
  <1>4. published' \in [Key -> SUBSET Version]
    BY <1>2 DEF TypeOK, EntityTypeOK, PublicationRecord
  <1>5. heads' \in [Key -> SUBSET Version]
    BY <1>2 DEF TypeOK, EntityTypeOK, PublicationRecord
  <1>6. rowState' \in [Version -> {"active", "deleted"}]
    BY <1>2 DEF PublicationRecord
  <1>7. publishedCursor' \in [Version -> Nat]
    <2>1. \A v \in Version : publishedCursor'[v] \in Nat
      BY <1>2, <1>3 DEF TypeOK, EntityTypeOK
    <2> QED
      BY <1>2, <2>1
  <1>8. frontier' \in Nat
    BY <1>1, <1>2 DEF TypeOK, EntityTypeOK
  <1>9. changes' \subseteq Change
    <2>1. SUFFICES ASSUME NEW k \in M
                   PROVE  [cursor |-> frontier + pos[k], key |-> k,
                           kind |-> DeriveChangeKind(heads[k], p.heads[k], p.states),
                           heads |-> p.heads[k], by |-> w.id] \in Change
      BY <1>2 DEF TypeOK, EntityTypeOK
    <2>2. frontier + pos[k] \in Nat \ {0}
      BY <1>3 DEF TypeOK, EntityTypeOK
    <2>3. DeriveChangeKind(heads[k], p.heads[k], p.states) \in ChangeKind
      BY DEF DeriveChangeKind, ChangeKind
    <2>4. k \in Key /\ p.heads[k] \in SUBSET Version /\ w.id \in Unit
      BY DEF M, PublicationRecord, WorkUnit
    <2> QED
      BY <2>2, <2>3, <2>4 DEF Change
  <1> QED
    BY <1>4, <1>5, <1>6, <1>7, <1>8, <1>9 DEF EntityTypeOK

(* It keeps the unit's and the idempotency tables typed as well.           *)
LEMMA FinishPublicationType ==
    ASSUME TypeOK, NEW w \in WorkUnit, NEW p \in PublicationRecord,
           FinishWorkUnitPublication(w, p)
    PROVE  EntityTypeOK' /\ UnitTypeOK' /\ IdempotencyTypeOK'
  <1> DEFINE mine(i) == p.stagedRecords[i] # None /\ p.stagedRecords[i].unit = w.id
  <1>1. /\ unit' = [EnsuredUnits(w, Lapsed) EXCEPT ![w.id].state = "committed"]
        /\ staged' = [StagedWithout(Lapsed) EXCEPT ![w.id] = NoKeys]
        /\ unitHeads' = [UnitHeadsWithout(Lapsed) EXCEPT ![w.id] = p.heads]
        /\ idempotency' =
             [i \in Identity |->
                IF mine(i) /\ ~p.stagedRecords[i].lapsed
                THEN [request |-> p.stagedRecords[i].request,
                      result |-> p.stagedRecords[i].result, lapsed |-> FALSE]
                ELSE p.records[i]]
        /\ unitIdempotency' =
             [i \in Identity |-> IF mine(i) THEN None ELSE p.stagedRecords[i]]
    BY DEF FinishWorkUnitPublication
  <1>2. unit' \in [Unit -> UnitRow]
    BY <1>1, EnsuredUnitsType, SealedUnitType
  <1>3. /\ staged' \in [Unit -> [Key -> SUBSET Version]]
        /\ unitHeads' \in [Unit -> [Key -> SUBSET Version]]
    BY <1>1, WithoutTypes DEF NoKeys, PublicationRecord
  <1>4. unitIdempotency' \in [Identity -> UnitRecord \cup {None}]
    <2>1. p.stagedRecords \in [Identity -> UnitRecord \cup {None}]
      BY DEF PublicationRecord
    <2> QED
      BY <1>1, <2>1
  <1>5. idempotency' \in [Identity -> Record \cup {None}]
    <2>1. SUFFICES ASSUME NEW i \in Identity
                   PROVE  idempotency'[i] \in Record \cup {None}
      BY <1>1
    <2>2. p.stagedRecords[i] \in UnitRecord \cup {None} /\ p.records[i] \in Record \cup {None}
      BY DEF PublicationRecord
    <2> QED
      BY <1>1, <2>2 DEF Record, UnitRecord
  <1> QED
    BY <1>2, <1>3, <1>4, <1>5, FinishPublicationEntityType
    DEF UnitTypeOK, IdempotencyTypeOK

(* The tables of a unit in which c is staged are well typed.               *)
LEMMA StagedTypes ==
    ASSUME TypeOK, NEW w \in WorkUnit, NEW c \in EntityCommit,
           NEW close \in BOOLEAN
    PROVE  /\ StagedHeads(w, c) \in [Key -> SUBSET Version]
           /\ StagedRows(w, c) \in [Key -> SUBSET Version]
           /\ StagedMarks(w, c, close) \in SUBSET Key
           /\ StagedStates(c) \in [Version -> {"active", "deleted"}]
  <1>1. w.id \in Unit
    BY DEF WorkUnit
  <1>2. /\ unitHeads[w.id] \in [Key -> SUBSET Version]
        /\ staged[w.id] \in [Key -> SUBSET Version]
        /\ closeMarker[w.id] \in SUBSET Key
    BY <1>1 DEF TypeOK, UnitTypeOK, CaptureTypeOK
  <1> QED
    BY <1>2 DEF EntityCommit, TypeOK, EntityTypeOK, StagedHeads, StagedRows,
                StagedMarks, StagedStates, StateOf

(* So are the idempotency tables.                                          *)
LEMMA StagedRecordsType ==
    ASSUME TypeOK, NEW w \in WorkUnit, NEW c \in EntityCommit,
           NEW rec \in UnitRecordsOf(c)
    PROVE  /\ StagedRecords(w, rec) \in [Identity -> UnitRecord \cup {None}]
           /\ PublishedRecords(rec) \in [Identity -> Record \cup {None}]
  <1>1. RecordsWithout(Lapsed) \in [Identity -> UnitRecord \cup {None}]
    BY WithoutTypes
  <1>2. Retained(RecordsWithout(Lapsed)) \in [Identity -> UnitRecord \cup {None}]
    BY <1>1, RetainedType
  <1>3. CASE rec = None
    BY <1>1, <1>3 DEF StagedRecords, PublishedRecords, TypeOK, IdempotencyTypeOK
  <1>4. CASE rec # None
    <2>1. [unit |-> w.id, request |-> rec.request, result |-> rec.result,
           lapsed |-> FALSE] \in UnitRecord
      BY <1>4 DEF UnitRecordsOf, NoRecord, EntityCommit, UnitRecord, WorkUnit
    <2>2. PublishedRecords(rec) \in [Identity -> Record \cup {None}]
      BY <1>4, RetainedTypes DEF PublishedRecords
    <2> QED
      BY <1>2, <1>4, <2>1, <2>2 DEF StagedRecords
  <1> QED
    BY <1>3, <1>4

(* commit_entity_in_work_unit keeps every table typed.                     *)
LEMMA CommitEntityInWorkUnitType ==
    ASSUME TypeOK, NEW w \in WorkUnit, NEW c \in EntityCommit,
           NEW close \in BOOLEAN, NEW rec \in UnitRecordsOf(c), NEW late,
           CommitEntityInWorkUnit(w, c, close, rec, late)
    PROVE  TypeOK'
  <1> DEFINE opened == EnsuredState(w, Lapsed) = "open"
             sealed == IF close THEN "closing" ELSE "open"
  <1>0. w.id \in Unit /\ c.key \in Key
    BY DEF WorkUnit, EntityCommit
  <1>1. ASSUME StageInWorkUnit(w, c, close)
        PROVE  CaptureTypeOK'
    <2>1. /\ captured' \in [Unit -> SUBSET Key]
          /\ base' \in [Unit -> [Key -> SUBSET Version]]
      BY <1>0, <1>1, CaptureType DEF StageInWorkUnit
    <2>2. closeMarker' \in [Unit -> SUBSET Key]
      BY <1>1, StagedTypes DEF StageInWorkUnit, TypeOK, CaptureTypeOK
    <2> QED
      BY <2>1, <2>2 DEF CaptureTypeOK
  <1>2. CASE SweepOnly
    BY <1>2, SweepOnlyType
  <1>3. CASE /\ StageInWorkUnit(w, c, close)
             /\ rowState' = StagedStates(c)
             /\ unit' = [EnsuredUnits(w, Lapsed) EXCEPT ![w.id].state = sealed]
             /\ unitHeads' = [UnitHeadsWithout(Lapsed) EXCEPT
                                ![w.id] = StagedHeads(w, c)]
             /\ staged' = [StagedWithout(Lapsed) EXCEPT
                                ![w.id] = StagedRows(w, c)]
             /\ unitIdempotency' = StagedRecords(w, rec)
             /\ idempotency' = PublishedRecords(rec)
             /\ UNCHANGED <<published, publishedCursor, heads, changes, frontier>>
    <2>1. EntityTypeOK'
      BY <1>3, StagedTypes DEF TypeOK, EntityTypeOK
    <2>2. unit' \in [Unit -> UnitRow]
      BY <1>3, EnsuredUnitsType, SealedUnitType
    <2>3. /\ unitHeads' \in [Unit -> [Key -> SUBSET Version]]
          /\ staged' \in [Unit -> [Key -> SUBSET Version]]
      BY <1>3, WithoutTypes, StagedTypes
    <2>4. IdempotencyTypeOK'
      BY <1>3, StagedRecordsType DEF IdempotencyTypeOK
    <2> QED
      BY <1>1, <1>3, <2>1, <2>2, <2>3, <2>4 DEF TypeOK, UnitTypeOK
  <1>4. CASE /\ StageInWorkUnit(w, c, close)
             /\ FinishWorkUnitPublication(w,
                  Publication(StagedHeads(w, c), StagedRows(w, c),
                    StagedMarks(w, c, close), StagedStates(c),
                    StagedRecords(w, rec), PublishedRecords(rec)))
    <2>1. Publication(StagedHeads(w, c), StagedRows(w, c),
            StagedMarks(w, c, close), StagedStates(c),
            StagedRecords(w, rec), PublishedRecords(rec)) \in PublicationRecord
      BY StagedTypes, StagedRecordsType DEF Publication, PublicationRecord
    <2> QED
      BY <1>1, <1>4, <2>1, FinishPublicationType DEF TypeOK
  <1>5. CASE /\ UNCHANGED captureVars
             /\ FinishWorkUnitPublication(w,
                  Publication(unitHeads[w.id], staged[w.id], closeMarker[w.id],
                    rowState, RecordsWithout(Lapsed), idempotency))
    <2>1. Publication(unitHeads[w.id], staged[w.id], closeMarker[w.id], rowState,
            RecordsWithout(Lapsed), idempotency) \in PublicationRecord
      BY <1>0, WithoutTypes
      DEF Publication, PublicationRecord, TypeOK, EntityTypeOK, CaptureTypeOK,
          UnitTypeOK, IdempotencyTypeOK
    <2> QED
      BY <1>5, <2>1, FinishPublicationType DEF TypeOK, CaptureTypeOK, captureVars
  <1> QED
    BY <1>2, <1>3, <1>4, <1>5 DEF CommitEntityInWorkUnit

(* What a client resolves a sealed unit with: for some entities, versions  *)
(* without a row and heads among them, the published and the staged ones,  *)
(* which it keeps unless it adds a version.                                *)
LEMMA ResolutionsType ==
    ASSUME TypeOK, NEW w \in WorkUnit, NEW res \in Resolutions(w),
           NEW k \in DOMAIN res
    PROVE  /\ k \in Key
           /\ res[k].new \in SUBSET Version
           /\ res[k].new \cap Rows = {}
           /\ res[k].heads \in SUBSET Version
           /\ res[k].heads # {}
           /\ res[k].heads \subseteq heads[k] \cup unitHeads[w.id][k] \cup res[k].new
           /\ res[k].new \subseteq res[k].heads
           /\ res[k].new # {} \/ unitHeads[w.id][k] \subseteq res[k].heads
  <1>1. Rows \in SUBSET Version
    BY DEF TypeOK, EntityTypeOK, UnitTypeOK, Rows
  <1>2. Fresh \subseteq SUBSET (Version \ Rows)
    BY <1>1, MintIsFresh DEF Fresh
  <1>3. /\ k \in Drifted(w)
        /\ res[k] \in ResolutionsOf(w, k)
        /\ res[k].heads # {}
    BY DEF Resolutions
  <1>4. k \in Key
    BY <1>3 DEF Drifted, PublicationConflicts
  <1>5. heads[k] \in SUBSET Version /\ unitHeads[w.id][k] \in SUBSET Version
    BY <1>4 DEF TypeOK, EntityTypeOK, UnitTypeOK, WorkUnit
  <1> QED
    BY <1>2, <1>3, <1>4, <1>5 DEF ResolutionsOf

(* What publish_work_unit publishes: the unit's rows and heads with those  *)
(* of the resolution in the place of the drifted ones.                     *)
ResolvedHeads(w, res) ==
    [k \in Key |-> IF k \in DOMAIN res THEN res[k].heads
                                       ELSE unitHeads[w.id][k]]
ResolvedRows(w, res) ==
    [k \in Key |-> IF k \in DOMAIN res THEN staged[w.id][k] \cup res[k].new
                                       ELSE staged[w.id][k]]
ResolvedStates(res) ==
    [v \in Version |-> IF \E k \in DOMAIN res : v \in res[k].new
                       THEN "active" ELSE rowState[v]]
ResolvedPublication(w, res) ==
    Publication(ResolvedHeads(w, res), ResolvedRows(w, res),
                closeMarker[w.id], ResolvedStates(res),
                RecordsWithout(Lapsed), idempotency)

(* A resolved publication is well typed.                                   *)
LEMMA ResolvedPublicationType ==
    ASSUME TypeOK, NEW w \in WorkUnit, NEW res \in Resolutions(w)
    PROVE  ResolvedPublication(w, res) \in PublicationRecord
  <1>1. w.id \in Unit
    BY DEF WorkUnit
  <1>2. /\ ResolvedHeads(w, res) \in [Key -> SUBSET Version]
        /\ ResolvedRows(w, res) \in [Key -> SUBSET Version]
    BY <1>1, ResolutionsType DEF TypeOK, UnitTypeOK, ResolvedHeads, ResolvedRows
  <1>3. ResolvedStates(res) \in [Version -> {"active", "deleted"}]
    BY DEF TypeOK, EntityTypeOK, ResolvedStates
  <1> QED
    BY <1>1, <1>2, <1>3, WithoutTypes
    DEF ResolvedPublication, Publication, PublicationRecord, TypeOK,
        CaptureTypeOK, IdempotencyTypeOK

(* publish_work_unit either publishes that or only sweeps.                 *)
LEMMA PublishWorkUnitCases ==
    ASSUME NEW w, NEW res, PublishWorkUnit(w, res)
    PROVE  \/ /\ PublishOutcome(w, res) = "Published"
              /\ UNCHANGED captureVars
              /\ FinishWorkUnitPublication(w, ResolvedPublication(w, res))
           \/ SweepOnly
  BY DEF PublishWorkUnit, ResolvedPublication, ResolvedHeads, ResolvedRows,
         ResolvedStates

(* publish_work_unit keeps every table typed.                              *)
LEMMA PublishWorkUnitType ==
    ASSUME TypeOK, NEW w \in WorkUnit, NEW res \in Resolutions(w),
           PublishWorkUnit(w, res)
    PROVE  TypeOK'
  <1>1. CASE SweepOnly
    BY <1>1, SweepOnlyType
  <1>2. CASE /\ UNCHANGED captureVars
             /\ FinishWorkUnitPublication(w, ResolvedPublication(w, res))
    BY <1>2, ResolvedPublicationType, FinishPublicationType
    DEF TypeOK, CaptureTypeOK, captureVars
  <1> QED
    BY <1>1, <1>2, PublishWorkUnitCases

-----------------------------------------------------------------------------
(* The database that initialize creates is well typed, and every operation *)
(* keeps it so.                                                            *)
LEMMA InitTypes == Init => TypeOK
  BY DEF Init, UnitsInit, TypeOK, EntityTypeOK, CaptureTypeOK, UnitTypeOK,
         IdempotencyTypeOK, NoKeys, UnitRow

(* Every step of the provider preserves the types.                         *)
LEMMA NextKeepsTypes ==
    ASSUME TypeOK, [Next]_providerVars
    PROVE  TypeOK'
  <1>1. CASE UNCHANGED providerVars
    BY <1>1, UnchangedType
  <1>2. ASSUME NEW late \in BOOLEAN, ImmediateOperation(late) PROVE TypeOK'
    <2>1. CASE ReadIdempotency(late)
      BY <2>1, ReadIdempotencyType
    <2>2. CASE ReadEntity
      BY <2>2, SweepOnlyType DEF ReadEntity
    <2>3. ASSUME NEW k \in Key, NEW seen \in Seen(k), NEW c \in Commits(k, seen),
                 \/ CommitEntity(c, late)
                 \/ \E i \in Identity, q \in Request, result \in c.new :
                       CommitEntityIdempotent(c, i, q, result, late)
          PROVE  TypeOK'
      <3>1. seen \in SUBSET Version
        BY DEF Seen, TypeOK, EntityTypeOK
      <3>2. c \in EntityCommit
        BY <3>1, CommitsType
      <3> QED
        BY <2>3, <3>2, CommitEntityType, CommitEntityIdempotentType
    <2> QED
      BY <1>2, <2>1, <2>2, <2>3 DEF ImmediateOperation
  <1>3. ASSUME NEW w \in WorkUnit, NEW late \in BOOLEAN,
               WorkUnitOperation(w, late)
        PROVE  TypeOK'
    <2>1. ASSUME NEW K \in SUBSET Key, ReadInWorkUnit(w, K, late) PROVE TypeOK'
      BY <2>1, ReadInWorkUnitType
    <2>2. ASSUME NEW seesDue \in BOOLEAN,
                 ReadIdempotencyInWorkUnit(w, seesDue, late)
          PROVE  TypeOK'
      BY <2>2, ReadIdempotencyInWorkUnitType
    <2>3. ASSUME NEW k \in Key, NEW seen \in SeenIn(w, k),
                 NEW c \in Commits(k, seen), NEW close \in BOOLEAN,
                 NEW rec \in UnitRecordsOf(c),
                 CommitEntityInWorkUnit(w, c, close, rec, late)
          PROVE  TypeOK'
      <3>1. seen \in SUBSET Version
        BY HeadsTypes DEF SeenIn
      <3>2. c \in EntityCommit
        BY <3>1, CommitsType
      <3> QED
        BY <2>3, <3>2, CommitEntityInWorkUnitType
    <2> QED
      BY <1>3, <2>1, <2>2, <2>3 DEF WorkUnitOperation
  <1>4. ASSUME NEW w \in WorkUnit, NEW res \in Resolutions(w),
               PublishWorkUnit(w, res)
        PROVE  TypeOK'
    BY <1>4, PublishWorkUnitType
  <1>5. CASE ExpireOpenWorkUnits
    BY <1>5, SweepOnlyType DEF ExpireOpenWorkUnits
  <1>6. ASSUME NEW u \in Unit, UnitFallsDue(u) PROVE TypeOK'
    BY <1>6, UnitFallsDueType
  <1>7. ASSUME NEW i \in Identity, RecordLapses(i) PROVE TypeOK'
    BY <1>7, RecordLapsesType
  <1> QED
    BY <1>1, <1>2, <1>3, <1>4, <1>5, <1>6, <1>7 DEF Next

(* Every column of the provider's database holds values of its type after  *)
(* any sequence of operations, lapses and sweeps.                          *)
THEOREM TypeCorrect == Spec => []TypeOK
  BY InitTypes, NextKeepsTypes, PTL DEF Spec

-----------------------------------------------------------------------------
(* Idempotency records                                                     *)

(* Both tables as an operation leaves them: no identity is in both, and    *)
(* every staged record belongs to a unit in U.                             *)
RecordsApart(records, stagedRecords, U) ==
    \A i \in Identity :
        /\ records[i] = None \/ stagedRecords[i] = None
        /\ stagedRecords[i] # None => stagedRecords[i].unit \in U

(* The units that are open or sealed and do not expire with those in S.    *)
LiveWithout(S) == {u \in Unit : Live(u) /\ u \notin S}

(* Expiring units deletes their records and leaves those of live units.    *)
LEMMA RecordsWithoutApart ==
    ASSUME TypeOK, IdempotencyDisjoint, NEW S
    PROVE  RecordsApart(idempotency, RecordsWithout(S), LiveWithout(S))
  BY DEF TypeOK, IdempotencyTypeOK, IdempotencyDisjoint, RecordsApart,
         RecordsWithout, LiveWithout, UnitRecord

(* Deleting lapsed records from either table keeps the tables apart.       *)
LEMMA RetainedApart ==
    ASSUME NEW records, NEW stagedRecords, NEW U,
           RecordsApart(records, stagedRecords, U)
    PROVE  /\ RecordsApart(Retained(records), Retained(stagedRecords), U)
           /\ RecordsApart(Retained(records), stagedRecords, U)
  BY DEF RecordsApart, Retained

(* The tables are disjoint again once every unit in U is live.             *)
LEMMA ApartIsDisjoint ==
    ASSUME NEW U, RecordsApart(idempotency', unitIdempotency', U),
           \A u \in U : Live(u)'
    PROVE  IdempotencyDisjoint'
  BY DEF RecordsApart, IdempotencyDisjoint

(* The live units that do not expire stay live, and the unit a request     *)
(* opens becomes live.                                                     *)
LEMMA LiveAfter ==
    ASSUME TypeOK, NEW S
    PROVE  /\ unit' = UnitsWithout(S) => \A u \in LiveWithout(S) : Live(u)'
           /\ \A w \in WorkUnit : unit' = EnsuredUnits(w, S) =>
                \A u \in LiveWithout(S) : Live(u)'
  <1>1. \A u \in LiveWithout(S) :
           u \in Unit /\ UnitsWithout(S)[u].state \in {"open", "closing"}
    BY DEF LiveWithout, Live, UnitsWithout
  <1>2. \A w \in WorkUnit : \A u \in LiveWithout(S) :
           EnsuredUnits(w, S)[u].state \in {"open", "closing"}
    BY <1>1, WithoutTypes DEF EnsuredUnits
  <1> QED
    BY <1>1, <1>2 DEF Live

(* A sweep keeps the tables disjoint.                                      *)
LEMMA SweepRecords ==
    ASSUME TypeOK, IdempotencyDisjoint, NEW S, ExpireWorkUnits(S),
           idempotency' = idempotency
    PROVE  IdempotencyDisjoint'
  <1>1. RecordsApart(idempotency', unitIdempotency', LiveWithout(S))
    BY RecordsWithoutApart DEF ExpireWorkUnits
  <1>2. \A u \in LiveWithout(S) : Live(u)'
    BY LiveAfter DEF ExpireWorkUnits
  <1> QED
    BY <1>1, <1>2, ApartIsDisjoint

(* Both tables as they stand, for the units that are live.                 *)
LEMMA DisjointIsApart ==
    ASSUME TypeOK, IdempotencyDisjoint
    PROVE  RecordsApart(idempotency, unitIdempotency, LiveWithout({}))
  BY DEF TypeOK, IdempotencyTypeOK, IdempotencyDisjoint, RecordsApart,
         LiveWithout, UnitRecord

(* The table of staged records that commit_entity_in_work_unit leaves is   *)
(* apart from the published one: a record is stored only when no table     *)
(* holds its identity.                                                     *)
LEMMA StagedRecordsApart ==
    ASSUME TypeOK, IdempotencyDisjoint, NEW w \in WorkUnit, NEW c \in EntityCommit,
           NEW rec \in UnitRecordsOf(c)
    PROVE  RecordsApart(PublishedRecords(rec), StagedRecords(w, rec),
                        LiveWithout(Lapsed) \cup {w.id})
  <1>1. RecordsApart(idempotency, RecordsWithout(Lapsed), LiveWithout(Lapsed))
    BY RecordsWithoutApart
  <1>2. CASE rec = None
    BY <1>1, <1>2 DEF PublishedRecords, StagedRecords, RecordsApart
  <1>3. CASE rec # None
    <2> DEFINE kept == Retained(RecordsWithout(Lapsed))
    <2>1. RecordsApart(Retained(idempotency), kept, LiveWithout(Lapsed))
      BY <1>1, RetainedApart
    <2>2. rec.id \in Identity
      BY <1>3 DEF UnitRecordsOf, NoRecord
    <2>3. kept \in [Identity -> UnitRecord \cup {None}]
      BY WithoutTypes, RetainedType
    <2>4. StoreIdempotencyOutcome(w, rec) = "Missing"
            => Retained(idempotency)[rec.id] = None
      BY <1>3 DEF StoreIdempotencyOutcome, UnitIdempotencyOutcome
    <2> HIDE DEF kept
    <2>5. PublishedRecords(rec) = Retained(idempotency)
      BY <1>3 DEF PublishedRecords
    <2>6. CASE StoreIdempotencyOutcome(w, rec) # "Missing"
      BY <1>3, <2>1, <2>5, <2>6 DEF StagedRecords, RecordsApart, kept
    <2>7. CASE StoreIdempotencyOutcome(w, rec) = "Missing"
      <3>1. StagedRecords(w, rec) =
              [kept EXCEPT ![rec.id] =
                 [unit |-> w.id, request |-> rec.request,
                  result |-> rec.result, lapsed |-> FALSE]]
        BY <1>3, <2>7 DEF StagedRecords, kept
      <3> QED
        BY <2>1, <2>2, <2>3, <2>4, <2>5, <2>7, <3>1 DEF RecordsApart
    <2> QED
      BY <2>6, <2>7
  <1> QED
    BY <1>2, <1>3


(* Publication moves the unit's records to the published table and leaves  *)
(* those of the other live units.                                          *)
LEMMA PublicationRecordsApart ==
    ASSUME TypeOK, NEW w \in WorkUnit, NEW p \in PublicationRecord,
           FinishWorkUnitPublication(w, p),
           RecordsApart(p.records, p.stagedRecords,
                        LiveWithout(Lapsed) \cup {w.id})
    PROVE  IdempotencyDisjoint'
  <1> DEFINE mine(i) == p.stagedRecords[i] # None /\ p.stagedRecords[i].unit = w.id
  <1>1. /\ unit' = [EnsuredUnits(w, Lapsed) EXCEPT ![w.id].state = "committed"]
        /\ idempotency' =
             [i \in Identity |->
                IF mine(i) /\ ~p.stagedRecords[i].lapsed
                THEN [request |-> p.stagedRecords[i].request,
                      result |-> p.stagedRecords[i].result, lapsed |-> FALSE]
                ELSE p.records[i]]
        /\ unitIdempotency' =
             [i \in Identity |-> IF mine(i) THEN None ELSE p.stagedRecords[i]]
    BY DEF FinishWorkUnitPublication
  <1>2. RecordsApart(idempotency', unitIdempotency', LiveWithout(Lapsed) \ {w.id})
    BY <1>1 DEF RecordsApart
  <1>3. \A u \in LiveWithout(Lapsed) \ {w.id} : Live(u)'
    <2> SUFFICES ASSUME NEW u \in LiveWithout(Lapsed) \ {w.id} PROVE Live(u)'
      OBVIOUS
    <2>1. u \in Unit /\ UnitsWithout(Lapsed)[u].state \in {"open", "closing"}
      BY DEF LiveWithout, Live, UnitsWithout
    <2>2. EnsuredUnits(w, Lapsed)[u].state \in {"open", "closing"}
      BY <2>1, WithoutTypes DEF EnsuredUnits
    <2> QED
      BY <1>1, <2>1, <2>2, EnsuredUnitsType DEF Live
  <1> QED
    BY <1>2, <1>3, ApartIsDisjoint

(* commit_entity_in_work_unit keeps the tables disjoint.                   *)
LEMMA CommitInWorkUnitRecords ==
    ASSUME TypeOK, IdempotencyDisjoint, NEW w \in WorkUnit,
           NEW c \in EntityCommit, NEW close \in BOOLEAN,
           NEW rec \in UnitRecordsOf(c), NEW late,
           CommitEntityInWorkUnit(w, c, close, rec, late)
    PROVE  IdempotencyDisjoint'
  <1> DEFINE sealed == IF close THEN "closing" ELSE "open"
             p == Publication(StagedHeads(w, c), StagedRows(w, c),
                    StagedMarks(w, c, close), StagedStates(c),
                    StagedRecords(w, rec), PublishedRecords(rec))
             q == Publication(unitHeads[w.id], staged[w.id], closeMarker[w.id],
                    rowState, RecordsWithout(Lapsed), idempotency)
  <1>0. w.id \in Unit
    BY DEF WorkUnit
  <1>1. CASE SweepOnly
    BY <1>1, SweepRecords DEF SweepOnly
  <1>2. CASE /\ unit' = [EnsuredUnits(w, Lapsed) EXCEPT ![w.id].state = sealed]
             /\ unitIdempotency' = StagedRecords(w, rec)
             /\ idempotency' = PublishedRecords(rec)
    <2>1. \A u \in LiveWithout(Lapsed) \cup {w.id} : Live(u)'
      <3>1. ASSUME NEW u \in LiveWithout(Lapsed) PROVE
              u \in Unit /\ EnsuredUnits(w, Lapsed)[u].state \in {"open", "closing"}
        BY WithoutTypes DEF LiveWithout, Live, UnitsWithout, EnsuredUnits
      <3>2. EnsuredUnits(w, Lapsed) \in [Unit -> UnitRow]
        BY EnsuredUnitsType
      <3> QED
        BY <1>0, <1>2, <3>1, <3>2 DEF Live, UnitRow
    <2> QED
      BY <1>2, <2>1, StagedRecordsApart, ApartIsDisjoint
  <1>3. CASE FinishWorkUnitPublication(w, p)
    <2>1. p \in PublicationRecord
      BY StagedTypes, StagedRecordsType DEF Publication, PublicationRecord
    <2>2. p.records = PublishedRecords(rec) /\ p.stagedRecords = StagedRecords(w, rec)
      BY DEF Publication
    <2> HIDE DEF p
    <2> QED
      BY <1>3, <2>1, <2>2, StagedRecordsApart, PublicationRecordsApart
  <1>4. CASE FinishWorkUnitPublication(w, q)
    <2>1. q \in PublicationRecord
      BY <1>0, WithoutTypes
      DEF Publication, PublicationRecord, TypeOK, EntityTypeOK, CaptureTypeOK,
          UnitTypeOK, IdempotencyTypeOK
    <2>2. q.records = idempotency /\ q.stagedRecords = RecordsWithout(Lapsed)
      BY DEF Publication
    <2>3. RecordsApart(idempotency, RecordsWithout(Lapsed),
                       LiveWithout(Lapsed) \cup {w.id})
      BY RecordsWithoutApart DEF RecordsApart
    <2> HIDE DEF q
    <2> QED
      BY <1>4, <2>1, <2>2, <2>3, PublicationRecordsApart
  <1> QED
    BY <1>1, <1>2, <1>3, <1>4 DEF CommitEntityInWorkUnit

(* publish_work_unit keeps the tables disjoint.                            *)
LEMMA PublishRecords ==
    ASSUME TypeOK, IdempotencyDisjoint, NEW w \in WorkUnit,
           NEW res \in Resolutions(w), PublishWorkUnit(w, res)
    PROVE  IdempotencyDisjoint'
  <1> DEFINE p == ResolvedPublication(w, res)
  <1>1. CASE SweepOnly
    BY <1>1, SweepRecords DEF SweepOnly
  <1>2. CASE FinishWorkUnitPublication(w, p)
    <2>1. p.records = idempotency /\ p.stagedRecords = RecordsWithout(Lapsed)
      BY DEF ResolvedPublication, Publication
    <2>2. RecordsApart(idempotency, RecordsWithout(Lapsed),
                       LiveWithout(Lapsed) \cup {w.id})
      BY RecordsWithoutApart DEF RecordsApart
    <2> QED
      BY <1>2, <2>1, <2>2, ResolvedPublicationType, PublicationRecordsApart
  <1> QED
    BY <1>1, <1>2, PublishWorkUnitCases

(* The passing of a record's time keeps the tables disjoint.               *)
LEMMA RecordLapsesApart ==
    ASSUME TypeOK, IdempotencyDisjoint, NEW i \in Identity, RecordLapses(i)
    PROVE  IdempotencyDisjoint'
  BY DEF TypeOK, IdempotencyTypeOK, IdempotencyDisjoint, RecordLapses, Aged,
         Live, UnitRecord

(* commit_entity_idempotent stores a record only when no table holds its   *)
(* identity.                                                               *)
LEMMA CommitIdempotentRecords ==
    ASSUME TypeOK, IdempotencyDisjoint, NEW c, NEW i \in Identity, NEW q,
           NEW result, NEW late, CommitEntityIdempotent(c, i, q, result, late)
    PROVE  IdempotencyDisjoint'
  <1>1. CASE UNCHANGED providerVars
    BY <1>1 DEF IdempotencyDisjoint, Live, providerVars, unitVars
  <1>2. CASE IdempotentCommitOutcome(c, i, q, late) = "Committed"
    <2> USE <1>2 DEF CommitEntityIdempotent
    <2>1. IdempotencyOutcome(i, q) = "Missing"
      BY DEF IdempotentCommitOutcome, IdempotencyOutcome
    <2>2. Retained(unitIdempotency)[i] = None
      BY <2>1 DEF IdempotencyOutcome
    <2>3. RecordsApart(Retained(idempotency), Retained(unitIdempotency),
                       LiveWithout({}))
      BY DisjointIsApart, RetainedApart
    <2>4. RecordsApart(idempotency', unitIdempotency', LiveWithout({}))
      BY <2>2, <2>3, RetainedTypes DEF RecordsApart
    <2>5. \A u \in LiveWithout({}) : Live(u)'
      BY DEF LiveWithout, Live
    <2> QED
      BY <2>4, <2>5, ApartIsDisjoint
  <1> QED
    BY <1>1, <1>2 DEF CommitEntityIdempotent

(* Purging lapsed records keeps the tables disjoint, whether or not the    *)
(* request opens its unit.                                                 *)
LEMMA PurgeRecords ==
    ASSUME TypeOK, IdempotencyDisjoint, PurgeIdempotency,
           unit' = unit \/ \E w \in WorkUnit : unit' = EnsuredUnits(w, {})
    PROVE  IdempotencyDisjoint'
  <1>1. RecordsApart(idempotency', unitIdempotency', LiveWithout({}))
    BY DisjointIsApart, RetainedApart DEF PurgeIdempotency
  <1>2. \A u \in LiveWithout({}) : Live(u)'
    BY LiveAfter DEF LiveWithout, Live
  <1> QED
    BY <1>1, <1>2, ApartIsDisjoint

(* An idempotency identity is never in both tables and a staged record     *)
(* always belongs to a live unit, whatever units expire, records lapse or  *)
(* publications move them: the INSERT of finish_work_unit_publication      *)
(* cannot hit the primary key.                                             *)
THEOREM RecordsAreDisjoint == Spec => []IdempotencyDisjoint
  <1>1. Init => IdempotencyDisjoint
    BY DEF Init, UnitsInit, IdempotencyDisjoint
  <1>2. TypeOK /\ IdempotencyDisjoint /\ [Next]_providerVars
          => IdempotencyDisjoint'
    <2> SUFFICES ASSUME TypeOK, IdempotencyDisjoint, [Next]_providerVars
                 PROVE  IdempotencyDisjoint'
      OBVIOUS
    <2>1. CASE UNCHANGED providerVars
      BY <2>1 DEF IdempotencyDisjoint, Live, providerVars, unitVars
    <2>2. ASSUME NEW late \in BOOLEAN, ImmediateOperation(late)
          PROVE  IdempotencyDisjoint'
      <3>1. CASE ReadIdempotency(late)
        BY <2>1, <3>1, PurgeRecords DEF ReadIdempotency
      <3>2. CASE ReadEntity
        BY <3>2, SweepRecords DEF ReadEntity, SweepOnly
      <3>3. ASSUME NEW c, CommitEntity(c, late) PROVE IdempotencyDisjoint'
        BY <3>3, SweepRecords DEF CommitEntity, SweepOnly
      <3> QED
        BY <2>2, <3>1, <3>2, <3>3, CommitIdempotentRecords
        DEF ImmediateOperation
    <2>3. ASSUME NEW w \in WorkUnit, NEW late \in BOOLEAN,
                 WorkUnitOperation(w, late)
          PROVE  IdempotencyDisjoint'
      <3>1. ASSUME NEW K \in SUBSET Key, ReadInWorkUnit(w, K, late)
            PROVE  IdempotencyDisjoint'
        <4>1. CASE SweepOnly
          BY <4>1, SweepRecords DEF SweepOnly
        <4>2. CASE /\ unit' = EnsuredUnits(w, Lapsed)
                   /\ unitIdempotency' = RecordsWithout(Lapsed)
                   /\ idempotency' = idempotency
          <5>1. \A u \in LiveWithout(Lapsed) : Live(u)'
            BY <4>2, LiveAfter
          <5> QED
            BY <4>2, <5>1, RecordsWithoutApart, ApartIsDisjoint
        <4> QED
          BY <3>1, <4>1, <4>2 DEF ReadInWorkUnit
      <3>2. ASSUME NEW seesDue \in BOOLEAN,
                   ReadIdempotencyInWorkUnit(w, seesDue, late)
            PROVE  IdempotencyDisjoint'
        BY <2>1, <3>2, SweepRecords, PurgeRecords DEF ReadIdempotencyInWorkUnit
      <3>3. ASSUME NEW k \in Key, NEW seen \in SeenIn(w, k),
                   NEW c \in Commits(k, seen), NEW close \in BOOLEAN,
                   NEW rec \in UnitRecordsOf(c),
                   CommitEntityInWorkUnit(w, c, close, rec, late)
            PROVE  IdempotencyDisjoint'
        <4>1. c \in EntityCommit
          BY HeadsTypes, CommitsType DEF SeenIn
        <4> QED
          BY <3>3, <4>1, CommitInWorkUnitRecords
      <3> QED
        BY <2>3, <3>1, <3>2, <3>3 DEF WorkUnitOperation
    <2>4. ASSUME NEW w \in WorkUnit, NEW res \in Resolutions(w),
                 PublishWorkUnit(w, res)
          PROVE  IdempotencyDisjoint'
      BY <2>4, PublishRecords
    <2>5. CASE ExpireOpenWorkUnits
      BY <2>5, SweepRecords DEF ExpireOpenWorkUnits, SweepOnly
    <2>6. ASSUME NEW u \in Unit, UnitFallsDue(u) PROVE IdempotencyDisjoint'
      BY <2>6
      DEF TypeOK, UnitTypeOK, UnitRow, UnitFallsDue, IdempotencyDisjoint, Live
    <2>7. ASSUME NEW i \in Identity, RecordLapses(i) PROVE IdempotencyDisjoint'
      BY <2>7, RecordLapsesApart
    <2> QED
      BY <2>1, <2>2, <2>3, <2>4, <2>5, <2>6, <2>7 DEF Next
  <1> QED
    BY <1>1, <1>2, TypeCorrect, PTL DEF Spec

-----------------------------------------------------------------------------
(* What any operation does to the published tables and to one unit         *)

(* a is the unit that publishes, or None.  Changes are appended above the  *)
(* frontier, at most one per entity; each makes the heads it records       *)
(* current, and they hold a version that was not published before.         *)
EntityStep(a) ==
    /\ frontier <= frontier'
    /\ changes \subseteq changes'
    /\ \A r \in changes' \ changes :
          /\ frontier < r.cursor /\ r.cursor <= frontier'
          /\ r.heads = heads'[r.key] /\ ~(r.heads \subseteq published[r.key])
          /\ r.by \in {None, a}
          /\ \A q \in changes' \ changes : q.key = r.key => q = r
    /\ \A k \in Key :
          /\ heads'[k] # heads[k] => \E r \in changes' \ changes : r.key = k
          /\ heads'[k] \subseteq published'[k]
          /\ published[k] \subseteq published'[k]
          /\ \A v \in published'[k] \ published[k] :
                v \notin Rows \/ (a # None /\ v \in staged[a][k])
          /\ \A v \in published[k] : /\ rowState'[v] = rowState[v]
                                     /\ publishedCursor'[v] = publishedCursor[v]

(* The unit is not touched; at most its time passes.                       *)
Keeps(u) ==
    /\ \/ unit'[u] = unit[u]
       \/ Live(u) /\ unit'[u] = [unit[u] EXCEPT !.due = TRUE]
    /\ staged'[u] = staged[u] /\ unitHeads'[u] = unitHeads[u]
    /\ captured'[u] = captured[u] /\ base'[u] = base[u]

(* The unit lapses and what it staged is deleted.                          *)
Expires(u) ==
    /\ Live(u) /\ unit'[u] = [unit[u] EXCEPT !.state = "expired"]
    /\ staged'[u] = NoKeys /\ unitHeads'[u] = NoKeys
    /\ captured'[u] = captured[u] /\ base'[u] = base[u]

(* The unit is opened unless it is known, and captures entities from its   *)
(* baseline.                                                               *)
Captures(u) ==
    /\ unit[u].state = "none" => unit'[u].baseline = frontier
    /\ unit[u].state # "none" => /\ unit'[u].policy = unit[u].policy
                                 /\ unit'[u].baseline = unit[u].baseline
    /\ captured[u] \subseteq captured'[u]
    /\ \A k \in captured[u] : base'[u][k] = base[u][k]
    /\ \A k \in captured'[u] \ captured[u] :
          base'[u][k] = HeadsAt(k, unit'[u].baseline)

(* Nothing is published.                                                   *)
Unpublished == UNCHANGED <<published, heads, changes, frontier>>

(* The unit reads, or stages versions of one entity and perhaps is sealed. *)
Works(u) ==
    /\ Captures(u)
    /\ unit[u].state \in {"none", "open"}
    /\ unit'[u].state \in {"open", "closing"}
    /\ unit'[u].state = "closing" =>
          \E k \in Key : unitHeads'[u][k] # {} /\ heads'[k] # base'[u][k]
    /\ \E X \in SUBSET Key : \A k \in Key :
          \/ staged'[u][k] = staged[u][k] /\ unitHeads'[u][k] = unitHeads[u][k]
          \/ /\ X = {k}
             /\ k \in captured'[u]
             /\ \A v \in staged'[u][k] : v \in staged[u][k] \/ v \notin Rows
             /\ staged[u][k] \subseteq staged'[u][k]
             /\ unitHeads'[u][k] \cap staged'[u][k] # {}
             /\ unitHeads'[u][k] \subseteq
                  unitHeads[u][k] \cup base'[u][k] \cup staged'[u][k]
    /\ Unpublished

(* The unit publishes one change for each entity it has heads of.          *)
Publishes(u) ==
    /\ Captures(u)
    /\ unit[u].state \in {"none", "open", "closing"}
    /\ unit'[u].state = "committed"
    /\ staged'[u] = NoKeys
    /\ {r.key : r \in {r \in changes' \ changes : r.by = u}} =
          {k \in Key : unitHeads'[u][k] # {}}
    /\ \A k \in Key : unitHeads'[u][k] \subseteq published'[k]

(* In a step at most one unit works or publishes; the others are kept or   *)
(* expire.                                                                 *)
ProviderStep ==
    \E a \in Unit \cup {None} :
        /\ EntityStep(a)
        /\ a \in Unit => Works(a) \/ Publishes(a)
        /\ \A u \in Unit \ {a} : Keeps(u) \/ Expires(u)

-----------------------------------------------------------------------------
(* The inductive invariant                                                 *)

(* Recorded heads, current, historical, captured or staged, have rows.     *)
RowsInv ==
    /\ HeadsHaveRows
    /\ \A r \in changes : r.heads \subseteq published[r.key]
    /\ \A u \in Unit : \A k \in captured[u] : base[u][k] \subseteq published[k]

(* The history agrees with the heads, and baselines lie within it.         *)
HistoryInv ==
    /\ HistoryMatchesHeads
    /\ BaselineIsSnapshot
    /\ \A u \in Unit : unit[u].baseline <= frontier

(* A live unit has captured what it mutated and stages one of its heads;   *)
(* an unknown one has nothing.                                             *)
UnitsInv ==
    /\ BatchIsAtomic
    /\ SealedUnitHasDrift
    /\ \A u \in Unit : unit[u].state = "none" =>
          captured[u] = {} /\ unitHeads[u] = NoKeys
    /\ \A u \in Unit, k \in Key : Live(u) /\ unitHeads[u][k] # {} =>
          k \in captured[u] /\ unitHeads[u][k] \cap staged[u][k] # {}

ProviderInv == TypeOK /\ RowsInv /\ HistoryInv /\ UnitsInv

(* A staged version has a row, and so has a published one.                 *)
LEMMA HasRow ==
    ASSUME NEW k \in Key
    PROVE  /\ published[k] \subseteq Rows
           /\ \A u \in Unit : staged[u][k] \subseteq Rows
  <1>1. published[k] \subseteq Rows
    BY DEF Rows
  <1>2. ASSUME NEW u \in Unit PROVE staged[u][k] \subseteq Rows
    <2>1. <<u, k>> \in Unit \X Key /\ <<u, k>>[1] = u /\ <<u, k>>[2] = k
      OBVIOUS
    <2>2. staged[u][k] \in {staged[p[1]][p[2]] : p \in Unit \X Key}
      BY <2>1
    <2> QED
      BY <2>2 DEF Rows
  <1> QED
    BY <1>1, <1>2

(* Historical heads have rows.                                             *)
LEMMA HeadsAtHaveRows ==
    ASSUME RowsInv, NEW k \in Key, NEW c
    PROVE  HeadsAt(k, c) \subseteq published[k]
  BY DEF RowsInv, HeadsAt

(* Staged rows stay private.                                               *)
LEMMA PrivateStep ==
    ASSUME ProviderInv, ProviderStep, TypeOK'
    PROVE  StagedIsPrivate'
  <1>1. PICK a \in Unit \cup {None} :
          /\ EntityStep(a)
          /\ a \in Unit => Works(a) \/ Publishes(a)
          /\ \A u \in Unit \ {a} : Keeps(u) \/ Expires(u)
    BY DEF ProviderStep
  <1>2. StagedIsPrivate
    BY DEF ProviderInv, RowsInv, HeadsHaveRows
  <1>3. \A u \in Unit, k \in Key : \A v \in staged'[u][k] :
           \/ v \in staged[u][k] /\ ~Publishes(u)
           \/ v \notin Rows /\ u = a /\ Works(a)
    BY <1>1, ZenonT(60) DEF Keeps, Expires, Works, Publishes, NoKeys
  <1>4. \A u \in Unit, k \in Key : staged'[u][k] # {} => Live(u)'
    <2> SUFFICES ASSUME NEW u \in Unit, NEW k \in Key, staged'[u][k] # {}
                 PROVE  Live(u)'
      OBVIOUS
    <2>1. CASE u = a
      BY <1>1, <2>1 DEF Works, Publishes, Live, NoKeys
    <2>2. CASE u # a
      <3>1. Keeps(u)
        BY <1>1, <2>2 DEF Expires, NoKeys
      <3>2. Live(u)
        BY <1>2, <3>1 DEF Keeps, StagedIsPrivate
      <3> QED
        BY <3>1, <3>2 DEF Keeps, Live, ProviderInv, TypeOK, UnitTypeOK, UnitRow
    <2> QED
      BY <2>1, <2>2
  <1>5. \A u \in Unit, k, j \in Key : staged'[u][k] \cap published'[j] = {}
    <2> SUFFICES ASSUME NEW u \in Unit, NEW k \in Key, NEW j \in Key,
                        NEW v \in staged'[u][k], v \in published'[j]
                 PROVE  FALSE
      OBVIOUS
    <2>1. CASE v \notin Rows /\ u = a /\ Works(a)
      BY <2>1, HasRow DEF Works, Unpublished
    <2>2. CASE v \in staged[u][k] /\ ~Publishes(u)
      <3>1. v \in Rows /\ v \notin published[j]
        BY <1>2, <2>2, HasRow DEF StagedIsPrivate
      <3>2. a # None /\ v \in staged[a][j]
        BY <1>1, <3>1 DEF EntityStep
      <3>3. u = a
        BY <1>2, <2>2, <3>2 DEF StagedIsPrivate
      <3>4. Works(a)
        BY <1>1, <2>2, <3>3
      <3> QED
        BY <3>1, <3>4 DEF Works, Unpublished
    <2> QED
      BY <1>3, <2>1, <2>2
  <1>6. \A u, t \in Unit, k, j \in Key :
           <<t, j>> # <<u, k>> => staged'[u][k] \cap staged'[t][j] = {}
    <2> SUFFICES ASSUME NEW u \in Unit, NEW t \in Unit, NEW k \in Key,
                        NEW j \in Key, <<t, j>> # <<u, k>>,
                        NEW v \in staged'[u][k], v \in staged'[t][j]
                 PROVE  FALSE
      OBVIOUS
    <2>1. ~(v \in staged[u][k] /\ v \in staged[t][j])
      BY <1>2 DEF StagedIsPrivate
    <2>2. v \notin Rows /\ u = a /\ t = a /\ Works(a)
      BY <1>3, <2>1, HasRow
    <2>3. j # k
      BY <2>2
    <2>4. \/ staged'[a][k] = staged[a][k]
          \/ staged'[a][j] = staged[a][j]
      BY <2>2, <2>3 DEF Works
    <2> QED
      BY <2>2, <2>4, HasRow
  <1> QED
    BY <1>4, <1>5, <1>6 DEF StagedIsPrivate

(* Recorded heads keep their rows.                                         *)
LEMMA RowsStep ==
    ASSUME ProviderInv, ProviderStep, TypeOK'
    PROVE  RowsInv'
  <1>1. PICK a \in Unit \cup {None} :
          /\ EntityStep(a)
          /\ a \in Unit => Works(a) \/ Publishes(a)
          /\ \A u \in Unit \ {a} : Keeps(u) \/ Expires(u)
    BY DEF ProviderStep
  <1>2. \A k \in Key : published[k] \subseteq published'[k]
    BY <1>1 DEF EntityStep
  <1>3. \A r \in changes' : r.heads \subseteq published'[r.key]
    <2> SUFFICES ASSUME NEW r \in changes' PROVE r.heads \subseteq published'[r.key]
      OBVIOUS
    <2>1. r.key \in Key
      BY DEF TypeOK, EntityTypeOK, Change
    <2>2. CASE r \in changes
      BY <1>2, <2>1, <2>2 DEF ProviderInv, RowsInv
    <2>3. CASE r \notin changes
      BY <1>1, <2>1, <2>3 DEF EntityStep
    <2> QED
      BY <2>2, <2>3
  <1>4. \A u \in Unit : \A k \in captured'[u] : base'[u][k] \subseteq published'[k]
    <2> SUFFICES ASSUME NEW u \in Unit, NEW k \in captured'[u]
                 PROVE  base'[u][k] \subseteq published'[k]
      OBVIOUS
    <2>1. k \in Key
      BY DEF TypeOK, CaptureTypeOK
    <2>2. CASE k \in captured[u]
      <3>1. base'[u][k] = base[u][k]
        BY <1>1, <2>2 DEF Keeps, Expires, Works, Publishes, Captures
      <3> QED
        BY <1>2, <2>1, <2>2, <3>1 DEF ProviderInv, RowsInv
    <2>3. CASE k \notin captured[u]
      <3>1. base'[u][k] = HeadsAt(k, unit'[u].baseline)
        BY <1>1, <2>3 DEF Keeps, Expires, Works, Publishes, Captures
      <3> QED
        BY <1>2, <2>1, <3>1, HeadsAtHaveRows DEF ProviderInv
    <2> QED
      BY <2>2, <2>3
  <1>5. \A u \in Unit, k \in Key :
           unitHeads'[u][k] \subseteq published'[k] \cup staged'[u][k]
    <2> SUFFICES ASSUME NEW u \in Unit, NEW k \in Key
                 PROVE  unitHeads'[u][k] \subseteq published'[k] \cup staged'[u][k]
      OBVIOUS
    <2>1. unitHeads[u][k] \subseteq published[k] \cup staged[u][k]
      BY DEF ProviderInv, RowsInv, HeadsHaveRows
    <2>2. CASE Keeps(u)
      BY <1>2, <2>1, <2>2 DEF Keeps
    <2>3. CASE Expires(u)
      BY <2>3 DEF Expires, NoKeys
    <2>4. CASE Works(u)
      BY <1>2, <1>4, <2>1, <2>4 DEF Works
    <2>5. CASE Publishes(u)
      BY <2>5 DEF Publishes
    <2> QED
      BY <1>1, <2>2, <2>3, <2>4, <2>5
  <1>6. \A k \in Key : heads'[k] \subseteq published'[k]
    BY <1>1 DEF EntityStep
  <1> QED
    BY <1>3, <1>4, <1>5, <1>6, PrivateStep DEF RowsInv, HeadsHaveRows

(* The history below the frontier is final.                                *)
LEMMA HeadsAtStable ==
    ASSUME TypeOK, NEW a, EntityStep(a), TypeOK', NEW k \in Key, NEW c \in Nat,
           c <= frontier
    PROVE  HeadsAt(k, c)' = HeadsAt(k, c)
  <1> DEFINE old == {r \in changes : r.key = k /\ r.cursor <= c}
             new == {r \in changes' : r.key = k /\ r.cursor <= c}
  <1>1. \A r \in changes' : r \in changes \/ frontier < r.cursor
    BY DEF EntityStep
  <1>2. \A r \in changes' : r.cursor \in Nat
    BY DEF TypeOK, EntityTypeOK, Change
  <1>3. new = old
    BY <1>1, <1>2 DEF EntityStep, TypeOK, EntityTypeOK
  <1>4. HeadsAt(k, c)' =
          UNION {r.heads : r \in {r \in new : \A q \in new : q.cursor <= r.cursor}}
    BY DEF HeadsAt
  <1>5. HeadsAt(k, c) =
          UNION {r.heads : r \in {r \in old : \A q \in old : q.cursor <= r.cursor}}
    BY DEF HeadsAt
  <1> QED
    BY <1>3, <1>4, <1>5

(* The newest history row of every entity holds its heads.                 *)
LEMMA HistoryStep ==
    ASSUME ProviderInv, NEW a, EntityStep(a), TypeOK'
    PROVE  HistoryMatchesHeads'
  <1>0. frontier \in Nat /\ frontier' \in Nat /\ frontier <= frontier'
    BY DEF EntityStep, ProviderInv, TypeOK, EntityTypeOK
  <1>1. \A r \in changes' : r.cursor \in Nat /\ r.key \in Key
    BY DEF TypeOK, EntityTypeOK, Change
  <1>2. \A r \in changes : r.cursor <= frontier /\ r.cursor \in Nat /\ r \in changes'
    BY <1>1 DEF ProviderInv, HistoryInv, HistoryMatchesHeads, EntityStep
  <1>3. \A r \in changes' : r.cursor <= frontier'
    BY <1>0, <1>1, <1>2 DEF EntityStep
  <1>4. ASSUME NEW k \in Key PROVE HeadsAt(k, frontier)' = heads'[k]
    <2> DEFINE rows == {r \in changes' : r.key = k /\ r.cursor <= frontier'}
               newest == {r \in rows : \A q \in rows : q.cursor <= r.cursor}
    <2>1. HeadsAt(k, frontier)' = UNION {r.heads : r \in newest}
      BY DEF HeadsAt
    <2>2. CASE \E r \in changes' \ changes : r.key = k
      <3>1. PICK r \in changes' \ changes : r.key = k
        BY <2>2
      <3>2. \A q \in rows : q = r \/ q.cursor < r.cursor
        BY <1>0, <1>1, <1>2, <3>1 DEF EntityStep
      <3>3. r \in rows
        BY <1>3, <3>1
      <3>4. newest = {r}
        <4>1. r \in newest
          BY <1>1, <3>1, <3>2, <3>3
        <4>2. \A q \in newest : q = r
          BY <1>1, <3>1, <3>2, <3>3
        <4> QED
          BY <4>1, <4>2
      <3>5. r.heads = heads'[k]
        BY <3>1 DEF EntityStep
      <3> HIDE DEF newest
      <3> QED
        BY <2>1, <3>4, <3>5
    <2>3. CASE ~\E r \in changes' \ changes : r.key = k
      <3> DEFINE old == {r \in changes : r.key = k /\ r.cursor <= frontier}
      <3>1. rows = old
        BY <1>0, <1>1, <1>2, <2>3
      <3>2. HeadsAt(k, frontier) =
              UNION {r.heads : r \in {r \in old : \A q \in old : q.cursor <= r.cursor}}
        BY DEF HeadsAt
      <3>3. HeadsAt(k, frontier) = heads[k]
        BY DEF ProviderInv, HistoryInv, HistoryMatchesHeads
      <3>4. heads'[k] = heads[k]
        BY <2>3 DEF EntityStep
      <3> QED
        BY <2>1, <3>1, <3>2, <3>3, <3>4
    <2> QED
      BY <2>2, <2>3
  <1> QED
    BY <1>3, <1>4 DEF HistoryMatchesHeads

(* What a unit captured stays the head set at its baseline.                *)
LEMMA BaselineStep ==
    ASSUME ProviderInv, ProviderStep, TypeOK'
    PROVE  HistoryInv'
  <1>1. PICK a \in Unit \cup {None} :
          /\ EntityStep(a)
          /\ a \in Unit => Works(a) \/ Publishes(a)
          /\ \A u \in Unit \ {a} : Keeps(u) \/ Expires(u)
    BY DEF ProviderStep
  <1>2. frontier \in Nat /\ frontier' \in Nat /\ frontier <= frontier'
    BY <1>1 DEF EntityStep, ProviderInv, TypeOK, EntityTypeOK
  <1>3. ASSUME NEW u \in Unit
        PROVE  /\ unit'[u].baseline \in Nat /\ unit'[u].baseline <= frontier
               /\ captured[u] \subseteq captured'[u]
               /\ \A k \in captured[u] : /\ base'[u][k] = base[u][k]
                                         /\ unit'[u].baseline = unit[u].baseline
               /\ \A k \in captured'[u] \ captured[u] :
                    base'[u][k] = HeadsAt(k, unit'[u].baseline)
    <2>1. /\ unit[u] \in UnitRow /\ unit'[u] \in UnitRow
          /\ unit[u].baseline <= frontier
          /\ unit[u].state = "none" => captured[u] = {}
      BY DEF ProviderInv, HistoryInv, UnitsInv, TypeOK, UnitTypeOK
    <2>2. CASE Keeps(u) \/ Expires(u)
      BY <2>1, <2>2 DEF Keeps, Expires, UnitRow
    <2>3. CASE Works(u) \/ Publishes(u)
      BY <1>2, <2>1, <2>3 DEF Works, Publishes, Captures, UnitRow
    <2> QED
      BY <1>1, <2>2, <2>3
  <1>4. BaselineIsSnapshot'
    <2> SUFFICES ASSUME NEW u \in Unit, NEW k \in captured'[u]
                 PROVE  base'[u][k] = HeadsAt(k, unit[u].baseline)'
      BY DEF BaselineIsSnapshot
    <2>1. k \in Key
      BY DEF TypeOK, CaptureTypeOK
    <2>2. \A c \in Nat : c <= frontier => HeadsAt(k, c)' = HeadsAt(k, c)
      BY <1>1, <2>1, HeadsAtStable DEF ProviderInv
    <2>3. HeadsAt(k, unit[u].baseline)' = HeadsAt(k, unit'[u].baseline)
      <3> DEFINE b == unit'[u].baseline
                 rows == {r \in changes : r.key = k /\ r.cursor <= b}
                 rowsAfter == {r \in changes' : r.key = k /\ r.cursor <= b}
      <3>1. b \in Nat /\ b <= frontier
        BY <1>3
      <3>2. \A r \in changes' : r \in changes \/ frontier < r.cursor
        BY <1>1 DEF EntityStep
      <3>3. \A r \in changes' : r.cursor \in Nat
        BY DEF TypeOK, EntityTypeOK, Change
      <3>4. changes \subseteq changes'
        BY <1>1 DEF EntityStep
      <3>5. rowsAfter = rows
        <4> HIDE DEF b
        <4> QED
          BY <1>2, <3>1, <3>2, <3>3, <3>4
      <3>6. HeadsAt(k, unit[u].baseline)' =
              UNION {r.heads : r \in
                {r \in rowsAfter : \A q \in rowsAfter : q.cursor <= r.cursor}}
        BY DEF HeadsAt
      <3>7. HeadsAt(k, b) =
              UNION {r.heads : r \in {r \in rows : \A q \in rows : q.cursor <= r.cursor}}
        BY DEF HeadsAt
      <3> QED
        BY <3>5, <3>6, <3>7
    <2>4. CASE k \in captured[u]
      BY <1>3, <2>3, <2>4 DEF ProviderInv, HistoryInv, BaselineIsSnapshot
    <2>5. CASE k \notin captured[u]
      BY <1>3, <2>3, <2>5
    <2> QED
      BY <2>4, <2>5
  <1>5. \A u \in Unit : unit'[u].baseline <= frontier'
    BY <1>2, <1>3
  <1> QED
    BY <1>1, <1>4, <1>5, HistoryStep DEF HistoryInv

(* Batches stay atomic, and sealed units keep their drift.                 *)
LEMMA UnitsStep ==
    ASSUME ProviderInv, ProviderStep, TypeOK'
    PROVE  UnitsInv'
  <1>1. PICK a \in Unit \cup {None} :
          /\ EntityStep(a)
          /\ a \in Unit => Works(a) \/ Publishes(a)
          /\ \A u \in Unit \ {a} : Keeps(u) \/ Expires(u)
    BY DEF ProviderStep
  <1>2. \A u \in Unit : unit[u] \in UnitRow /\ unit'[u] \in UnitRow
    BY DEF ProviderInv, TypeOK, UnitTypeOK
  <1>3. ASSUME NEW u \in Unit
        PROVE  {r.key : r \in {r \in changes' : r.by = u}} =
                 IF unit'[u].state = "committed"
                 THEN {k \in Key : unitHeads'[u][k] # {}} ELSE {}
    <2>1. {r.key : r \in {r \in changes : r.by = u}} =
            IF unit[u].state = "committed"
            THEN {k \in Key : unitHeads[u][k] # {}} ELSE {}
      BY DEF ProviderInv, UnitsInv, BatchIsAtomic
    <2>2. changes \subseteq changes' /\ u # None
      BY <1>1, NoneIsNoUnit DEF EntityStep
    <2>3. ASSUME \A r \in changes' \ changes : r.by # u
          PROVE  {r \in changes' : r.by = u} = {r \in changes : r.by = u}
      BY <2>2, <2>3
    <2>4. CASE u # a
      <3>1. \A r \in changes' \ changes : r.by # u
        BY <1>1, <2>2, <2>4 DEF EntityStep
      <3>2. CASE Keeps(u)
        BY <1>2, <2>1, <2>3, <3>1, <3>2 DEF Keeps, UnitRow
      <3>3. CASE Expires(u)
        BY <1>2, <2>1, <2>3, <3>1, <3>3 DEF Expires, UnitRow, Live
      <3> QED
        BY <1>1, <2>4, <3>2, <3>3
    <2>5. CASE Works(u)
      BY <2>1, <2>5 DEF Works, Unpublished
    <2>6. CASE Publishes(u)
      <3>1. {r \in changes : r.by = u} = {}
        BY <2>1, <2>6 DEF Publishes
      <3>2. {r \in changes' : r.by = u} = {r \in changes' \ changes : r.by = u}
        BY <2>2, <3>1
      <3> QED
        BY <2>6, <3>2 DEF Publishes
    <2> QED
      BY <1>1, <2>4, <2>5, <2>6
  <1>4. ASSUME NEW u \in Unit, unit'[u].state = "closing"
        PROVE  \E k \in Key : unitHeads'[u][k] # {} /\ heads'[k] # base'[u][k]
    <2>1. CASE Works(u)
      BY <1>4, <2>1 DEF Works
    <2>2. CASE Keeps(u)
      <3>1. unit[u].state = "closing" /\ Live(u)
        BY <1>2, <1>4, <2>2 DEF Keeps, UnitRow, Live
      <3>2. PICK k \in Key : unitHeads[u][k] # {} /\ heads[k] # base[u][k]
        BY <3>1 DEF ProviderInv, UnitsInv, SealedUnitHasDrift, PublicationConflicts
      <3>3. k \in captured[u]
        BY <3>1, <3>2 DEF ProviderInv, UnitsInv
      <3>4. base[u][k] \subseteq published[k]
        BY <3>3 DEF ProviderInv, RowsInv
      <3>5. heads'[k] = heads[k] \/ ~(heads'[k] \subseteq published[k])
        BY <1>1 DEF EntityStep
      <3> QED
        BY <2>2, <3>2, <3>4, <3>5 DEF Keeps
    <2>3. ~Expires(u) /\ ~Publishes(u)
      BY <1>2, <1>4 DEF Expires, Publishes, UnitRow
    <2> QED
      BY <1>1, <2>1, <2>2, <2>3
  <1>5. ASSUME NEW u \in Unit, unit'[u].state = "none"
        PROVE  captured'[u] = {} /\ unitHeads'[u] = NoKeys
    <2>1. ~Expires(u) /\ ~Works(u) /\ ~Publishes(u)
      BY <1>2, <1>5 DEF Expires, Works, Publishes, UnitRow
    <2>2. Keeps(u)
      BY <1>1, <2>1
    <2> QED
      BY <1>2, <1>5, <2>2 DEF Keeps, UnitRow, ProviderInv, UnitsInv
  <1>6. ASSUME NEW u \in Unit, NEW k \in Key, Live(u)', unitHeads'[u][k] # {}
        PROVE  k \in captured'[u] /\ unitHeads'[u][k] \cap staged'[u][k] # {}
    <2>1. /\ Live(u) /\ unitHeads[u][k] # {} =>
               k \in captured[u] /\ unitHeads[u][k] \cap staged[u][k] # {}
          /\ unit[u].state = "none" => unitHeads[u][k] = {}
      BY DEF ProviderInv, UnitsInv, NoKeys
    <2>2. CASE Keeps(u)
      BY <1>2, <1>6, <2>1, <2>2 DEF Keeps, UnitRow, Live
    <2>3. CASE Works(u)
      BY <1>2, <1>6, <2>1, <2>3 DEF Works, Captures, Live
    <2>4. ~Expires(u) /\ ~Publishes(u)
      BY <1>2, <1>6 DEF Expires, Publishes, UnitRow, Live
    <2> QED
      BY <1>1, <2>2, <2>3, <2>4
  <1>7. BatchIsAtomic'
    BY <1>3 DEF BatchIsAtomic
  <1>8. SealedUnitHasDrift'
    BY <1>4 DEF SealedUnitHasDrift, PublicationConflicts
  <1> QED
    BY <1>5, <1>6, <1>7, <1>8 DEF UnitsInv

-----------------------------------------------------------------------------
(* Every operation is such a step                                          *)

(* A unit that an operation does not name is kept or expires.              *)
LEMMA OtherUnits ==
    ASSUME TypeOK, NEW S, S \subseteq Lapsed, NEW u \in Unit,
           unit'[u] = UnitsWithout(S)[u], staged'[u] = StagedWithout(S)[u],
           unitHeads'[u] = UnitHeadsWithout(S)[u],
           captured'[u] = captured[u], base'[u] = base[u]
    PROVE  Keeps(u) \/ Expires(u)
  <1>1. CASE u \in S
    BY <1>1 DEF Expires, UnitsWithout, StagedWithout, UnitHeadsWithout, Live, Lapsed
  <1>2. CASE u \notin S
    BY <1>2 DEF Keeps, UnitsWithout, StagedWithout, UnitHeadsWithout
  <1> QED
    BY <1>1, <1>2

(* An operation that publishes nothing.                                    *)
LEMMA QuietEntities ==
    ASSUME ProviderInv, NEW a, Unpublished, publishedCursor' = publishedCursor,
           \A k \in Key : \A v \in published[k] : rowState'[v] = rowState[v]
    PROVE  EntityStep(a)
  BY DEF EntityStep, Unpublished, ProviderInv, TypeOK, EntityTypeOK, RowsInv,
         HeadsHaveRows

(* An operation that changes no entity and works in no unit.               *)
LEMMA SweptStep ==
    ASSUME ProviderInv, NEW S, S \subseteq Lapsed,
           unit' = UnitsWithout(S), staged' = StagedWithout(S),
           unitHeads' = UnitHeadsWithout(S), UNCHANGED captureVars,
           EntityStep(None)
    PROVE  ProviderStep
  <1>1. \A u \in Unit : Keeps(u) \/ Expires(u)
    BY OtherUnits DEF ProviderInv, captureVars
  <1> QED
    BY <1>1, NoneIsNoUnit DEF ProviderStep

(* A step that leaves every unit alone.                                    *)
LEMMA KeptStep ==
    ASSUME ProviderInv, UNCHANGED <<unit, staged, unitHeads, captureVars>>,
           EntityStep(None)
    PROVE  ProviderStep
  <1>1. \A u \in Unit : Keeps(u)
    BY DEF Keeps, captureVars
  <1> QED
    BY <1>1, NoneIsNoUnit DEF ProviderStep

(* The sweep alone.                                                        *)
LEMMA SweepOnlyStep ==
    ASSUME ProviderInv, SweepOnly
    PROVE  ProviderStep
  <1>1. EntityStep(None)
    BY QuietEntities DEF SweepOnly, entityVars, Unpublished
  <1> QED
    BY <1>1, SweptStep DEF SweepOnly, ExpireWorkUnits

(* A commit of fresh versions over the current heads.                      *)
LEMMA CommitEntities ==
    ASSUME ProviderInv, NEW c \in EntityCommit, c.new \cap Rows = {}, c.new # {},
           c.new \subseteq c.heads, c.heads \subseteq heads[c.key] \cup c.new,
           CommitEntityInTransaction(c)
    PROVE  EntityStep(None)
  <1> DEFINE r0 == [cursor |-> frontier + 1, key |-> c.key, kind |-> c.kind,
                    heads |-> c.heads, by |-> None]
  <1>0. c.key \in Key /\ frontier \in Nat
    BY DEF EntityCommit, ProviderInv, TypeOK, EntityTypeOK
  <1>1. changes' = changes \cup {r0} /\ frontier' = frontier + 1
    BY DEF CommitEntityInTransaction
  <1>2. /\ r0.cursor = frontier + 1 /\ r0.key = c.key /\ r0.heads = c.heads
        /\ r0.by = None
    OBVIOUS
  <1> HIDE DEF r0
  <1>3. r0 \notin changes
    <2>1. \A r \in changes : r.cursor <= frontier
      BY DEF ProviderInv, HistoryInv, HistoryMatchesHeads
    <2> QED
      BY <1>0, <1>2, <2>1
  <1>4. /\ heads'[c.key] = c.heads
        /\ published'[c.key] = published[c.key] \cup c.new
        /\ \A k \in Key \ {c.key} : heads'[k] = heads[k] /\ published'[k] = published[k]
    BY <1>0 DEF CommitEntityInTransaction, ProviderInv, TypeOK, EntityTypeOK
  <1>5. ~(c.heads \subseteq published[c.key])
    BY <1>0, HasRow
  <1>6. \A k \in Key : /\ heads[k] \subseteq published[k]
                        /\ published[k] \subseteq Version
    BY DEF ProviderInv, RowsInv, HeadsHaveRows, TypeOK, EntityTypeOK
  <1>7. \A k \in Key : \A v \in published[k] : /\ rowState'[v] = rowState[v]
                                             /\ publishedCursor'[v] = publishedCursor[v]
    BY <1>6, HasRow DEF CommitEntityInTransaction
  <1>8. \A r \in changes' \ changes : r = r0
    BY <1>1
  <1>9. \A k \in Key :
          /\ heads'[k] # heads[k] => \E r \in changes' \ changes : r.key = k
          /\ heads'[k] \subseteq published'[k]
          /\ published[k] \subseteq published'[k]
          /\ \A v \in published'[k] \ published[k] : v \notin Rows
    BY <1>0, <1>1, <1>2, <1>3, <1>4, <1>6
  <1>10. \A r \in changes' \ changes :
          /\ frontier < r.cursor /\ r.cursor <= frontier'
          /\ r.heads = heads'[r.key] /\ ~(r.heads \subseteq published[r.key])
          /\ r.by \in {None}
          /\ \A q \in changes' \ changes : q.key = r.key => q = r
    BY <1>0, <1>1, <1>2, <1>4, <1>5, <1>8
  <1> QED
    BY <1>0, <1>1, <1>7, <1>9, <1>10 DEF EntityStep

(* Opening a unit and capturing K from its baseline.                       *)
LEMMA CaptureUnit ==
    ASSUME TypeOK, NEW w \in WorkUnit, NEW K \in SUBSET Key,
           CaptureWorkUnitEntities(w, K),
           unit'[w.id].baseline = Baseline(w),
           unit[w.id].state # "none" => unit'[w.id].policy = unit[w.id].policy
    PROVE  /\ Captures(w.id)
           /\ K \subseteq captured'[w.id]
           /\ \A k \in Key : base'[w.id][k] = IF k \in K THEN BaseHeads(w, k)
                                                       ELSE base[w.id][k]
           /\ \A u \in Unit \ {w.id} : captured'[u] = captured[u] /\ base'[u] = base[u]
  <1>1. w.id \in Unit /\ captured[w.id] \in SUBSET Key
    BY DEF WorkUnit, TypeOK, CaptureTypeOK
  <1>2. captured'[w.id] = captured[w.id] \cup K
    BY <1>1 DEF CaptureWorkUnitEntities, TypeOK, CaptureTypeOK
  <1>3. \A k \in Key : base'[w.id][k] = IF k \in K THEN BaseHeads(w, k)
                                                    ELSE base[w.id][k]
    BY <1>1 DEF CaptureWorkUnitEntities, TypeOK, CaptureTypeOK
  <1>4. \A u \in Unit \ {w.id} : captured'[u] = captured[u] /\ base'[u] = base[u]
    BY DEF CaptureWorkUnitEntities, TypeOK, CaptureTypeOK
  <1>5. \A k \in captured[w.id] : base'[w.id][k] = base[w.id][k]
    BY <1>1, <1>3 DEF BaseHeads
  <1>6. \A k \in K \ captured[w.id] : base'[w.id][k] = HeadsAt(k, Baseline(w))
    BY <1>3 DEF BaseHeads
  <1>7. Captures(w.id)
    BY <1>2, <1>5, <1>6 DEF Captures, Baseline
  <1> QED
    BY <1>2, <1>3, <1>4, <1>7

(* The unit a request names, after ensure_work_unit found it open or       *)
(* sealed: it did not expire, and it is as it was or has been opened.      *)
LEMMA EnsuredUnit ==
    ASSUME TypeOK, NEW w \in WorkUnit, NEW S, S \subseteq Lapsed,
           EnsuredState(w, S) \in {"open", "closing"}
    PROVE  /\ w.id \in Unit /\ w.id \notin S
           /\ unit[w.id].state \in {"none", EnsuredState(w, S)}
           /\ unit[w.id].state = "none" => EnsuredState(w, S) = "open"
           /\ EnsuredUnits(w, S)[w.id].state = EnsuredState(w, S)
           /\ EnsuredUnits(w, S)[w.id].baseline = Baseline(w)
           /\ unit[w.id].state # "none" => EnsuredUnits(w, S)[w.id] = unit[w.id]
           /\ StagedWithout(S)[w.id] = staged[w.id]
           /\ UnitHeadsWithout(S)[w.id] = unitHeads[w.id]
           /\ \A u \in Unit \ {w.id} : EnsuredUnits(w, S)[u] = UnitsWithout(S)[u]
  <1>1. w.id \in Unit
    BY DEF WorkUnit
  <1>2. w.id \notin S
    BY <1>1 DEF EnsuredState, Lapsed
  <1>3. /\ unit[w.id].state \in {"none", EnsuredState(w, S)}
        /\ unit[w.id].state = "none" => EnsuredState(w, S) = "open"
    BY <1>1, <1>2 DEF EnsuredState
  <1>4. UnitsWithout(S)[w.id] = unit[w.id]
    BY <1>1, <1>2 DEF UnitsWithout
  <1>5. /\ EnsuredUnits(w, S)[w.id].state = EnsuredState(w, S)
        /\ EnsuredUnits(w, S)[w.id].baseline = Baseline(w)
        /\ unit[w.id].state # "none" => EnsuredUnits(w, S)[w.id] = unit[w.id]
        /\ \A u \in Unit \ {w.id} : EnsuredUnits(w, S)[u] = UnitsWithout(S)[u]
    BY <1>1, <1>3, <1>4, WithoutTypes DEF EnsuredUnits, Baseline
  <1>6. /\ StagedWithout(S)[w.id] = staged[w.id]
        /\ UnitHeadsWithout(S)[w.id] = unitHeads[w.id]
    BY <1>1, <1>2 DEF StagedWithout, UnitHeadsWithout
  <1> QED
    BY <1>1, <1>2, <1>3, <1>5, <1>6

(* Immediate commits.                                                      *)
LEMMA CommitEntityStep ==
    ASSUME ProviderInv, NEW k \in Key, NEW seen \in Seen(k),
           NEW c \in Commits(k, seen), NEW late,
           \/ CommitEntity(c, late)
           \/ \E i \in Identity, q \in Request, result \in c.new :
                 CommitEntityIdempotent(c, i, q, result, late)
    PROVE  ProviderStep
  <1>1. seen \in SUBSET Version
    BY DEF Seen, ProviderInv, TypeOK, EntityTypeOK
  <1>2. /\ c \in EntityCommit /\ c.key = k /\ c.expected = seen
        /\ c.new \cap Rows = {} /\ c.new # {} /\ c.new \subseteq c.heads
        /\ c.heads \subseteq seen \cup c.new
    BY <1>1, CommitsType DEF ProviderInv
  <1>3. ASSUME CommitEntityInTransaction(c), CommitOutcome(c, late) = "Committed"
        PROVE  EntityStep(None)
    <2>1. c.heads \subseteq heads[c.key] \cup c.new
      BY <1>2, <1>3 DEF CommitOutcome
    <2> QED
      BY <1>2, <1>3, <2>1, CommitEntities
  <1>4. CASE CommitEntity(c, late)
    <2>1. CASE SweepOnly
      BY <2>1, SweepOnlyStep
    <2>2. CASE CommitOutcome(c, late) = "Committed"
      BY <1>3, <1>4, <2>2, SweptStep DEF CommitEntity, ExpireWorkUnits
    <2> QED
      BY <1>4, <2>1, <2>2 DEF CommitEntity
  <1>5. ASSUME NEW i \in Identity, NEW q \in Request, NEW result \in c.new,
               CommitEntityIdempotent(c, i, q, result, late)
        PROVE  ProviderStep
    <2>1. CASE UNCHANGED providerVars
      <3>1. EntityStep(None)
        BY <2>1, QuietEntities DEF providerVars, entityVars, Unpublished
      <3> QED
        BY <2>1, <3>1, KeptStep DEF providerVars, unitVars
    <2>2. CASE IdempotentCommitOutcome(c, i, q, late) = "Committed"
      <3>1. CommitOutcome(c, late) = "Committed"
        BY <2>2 DEF IdempotentCommitOutcome
      <3>2. /\ CommitEntityInTransaction(c)
            /\ UNCHANGED <<captureVars, unit, unitHeads, staged>>
        BY <1>5, <2>2 DEF CommitEntityIdempotent
      <3> QED
        BY <1>3, <3>1, <3>2, KeptStep
    <2> QED
      BY <1>5, <2>1, <2>2 DEF CommitEntityIdempotent
  <1> QED
    BY <1>4, <1>5

(* Reading in a unit.                                                      *)
LEMMA ReadInWorkUnitStep ==
    ASSUME ProviderInv, NEW w \in WorkUnit, NEW K \in SUBSET Key, NEW late,
           ReadInWorkUnit(w, K, late)
    PROVE  ProviderStep
  <1>0. TypeOK
    BY DEF ProviderInv
  <1>1. CASE SweepOnly
    BY <1>1, SweepOnlyStep
  <1>2. CASE ReadInWorkUnitOutcome(w, late) = "open"
    <2>1. /\ EnsuredState(w, Lapsed) = "open"
          /\ CaptureWorkUnitEntities(w, K)
          /\ unit' = EnsuredUnits(w, Lapsed)
          /\ staged' = StagedWithout(Lapsed)
          /\ unitHeads' = UnitHeadsWithout(Lapsed)
          /\ UNCHANGED entityVars
      BY <1>2 DEF ReadInWorkUnit, ReadInWorkUnitOutcome
    <2>2. EntityStep(w.id) /\ Unpublished
      BY <2>1, QuietEntities DEF entityVars, Unpublished
    <2>3. /\ w.id \in Unit
          /\ unit[w.id].state \in {"none", "open"}
          /\ unit'[w.id].state = "open"
          /\ unit'[w.id].baseline = Baseline(w)
          /\ unit[w.id].state # "none" => unit'[w.id] = unit[w.id]
          /\ staged'[w.id] = staged[w.id] /\ unitHeads'[w.id] = unitHeads[w.id]
          /\ \A u \in Unit \ {w.id} : unit'[u] = UnitsWithout(Lapsed)[u]
      BY <1>0, <2>1, EnsuredUnit
    <2>4. /\ Captures(w.id)
          /\ \A u \in Unit \ {w.id} : captured'[u] = captured[u] /\ base'[u] = base[u]
      BY <1>0, <2>1, <2>3, CaptureUnit
    <2>5. Works(w.id)
      BY <2>2, <2>3, <2>4 DEF Works
    <2>6. \A u \in Unit \ {w.id} : Keeps(u) \/ Expires(u)
      BY <1>0, <2>1, <2>3, <2>4, OtherUnits
    <2> QED
      BY <2>2, <2>3, <2>5, <2>6 DEF ProviderStep
  <1> QED
    BY <1>1, <1>2 DEF ReadInWorkUnit

(* Reading a record in a unit, which opens the unit when it is unknown.    *)
LEMMA ReadIdempotencyInWorkUnitStep ==
    ASSUME ProviderInv, NEW w \in WorkUnit, NEW seesDue, NEW late,
           ReadIdempotencyInWorkUnit(w, seesDue, late)
    PROVE  ProviderStep
  <1> DEFINE S == ExpiredHere(w, seesDue)
  <1>0. TypeOK /\ w.id \in Unit
    BY DEF ProviderInv, WorkUnit
  <1>1. S \subseteq Lapsed
    BY DEF ExpiredHere
  <1>2. /\ UNCHANGED entityVars /\ UNCHANGED captureVars
        /\ EntityStep(None) /\ EntityStep(w.id) /\ Unpublished
    <2>1. UNCHANGED entityVars /\ UNCHANGED captureVars
      BY DEF ReadIdempotencyInWorkUnit, providerVars
    <2> QED
      BY <2>1, QuietEntities DEF entityVars, Unpublished
  <1>3. CASE UNCHANGED providerVars
    BY <1>2, <1>3, KeptStep DEF providerVars, unitVars
  <1>4. CASE ExpireWorkUnits(S)
    <2> HIDE DEF S
    <2> QED
      BY <1>1, <1>2, <1>4, SweptStep DEF ExpireWorkUnits
  <1>5. CASE unit' = EnsuredUnits(w, {}) /\ UNCHANGED <<unitHeads, staged>>
    <2>1. UnitsWithout({}) = unit
      BY <1>0 DEF UnitsWithout, TypeOK, UnitTypeOK
    <2>2. CASE unit[w.id].state # "none"
      <3>1. unit' = unit
        BY <1>5, <2>1, <2>2 DEF EnsuredUnits
      <3> QED
        BY <1>2, <1>5, <3>1, KeptStep
    <2>3. CASE unit[w.id].state = "none"
      <3>1. unit' = [unit EXCEPT ![w.id] = [state |-> "open", policy |-> w.policy,
                                           baseline |-> frontier, due |-> FALSE]]
        BY <1>5, <2>1, <2>3 DEF EnsuredUnits
      <3>2. /\ unit'[w.id].state = "open" /\ unit'[w.id].baseline = frontier
            /\ \A u \in Unit \ {w.id} : unit'[u] = unit[u]
        BY <1>0, <3>1 DEF TypeOK, UnitTypeOK
      <3>3. Captures(w.id)
        BY <1>2, <2>3, <3>2 DEF Captures, captureVars
      <3>4. Works(w.id)
        BY <1>2, <1>5, <2>3, <3>2, <3>3 DEF Works
      <3>5. \A u \in Unit \ {w.id} : Keeps(u)
        BY <1>2, <1>5, <3>2 DEF Keeps, captureVars
      <3> QED
        BY <1>0, <1>2, <3>4, <3>5 DEF ProviderStep
    <2> QED
      BY <2>2, <2>3
  <1> QED
    BY <1>3, <1>4, <1>5 DEF ReadIdempotencyInWorkUnit

(* The passing of time.                                                    *)
LEMMA UnitFallsDueStep ==
    ASSUME ProviderInv, NEW u \in Unit, UnitFallsDue(u)
    PROVE  ProviderStep
  <1>1. EntityStep(None)
    BY QuietEntities DEF UnitFallsDue, entityVars, Unpublished
  <1>2. \A t \in Unit : Keeps(t)
    BY DEF UnitFallsDue, Keeps, Live, captureVars, ProviderInv, TypeOK, UnitTypeOK
  <1> QED
    BY <1>1, <1>2, NoneIsNoUnit DEF ProviderStep

(* What a unit may publish: its staged rows with fresh ones, and heads     *)
(* among those and the published rows that hold one not yet published.     *)
Publishable(w, p) ==
    /\ p \in PublicationRecord
    /\ EnsuredState(w, Lapsed) \in {"open", "closing"}
    /\ \A k \in Key :
          /\ \A v \in p.rows[k] : v \in staged[w.id][k] \/ v \notin Rows
          /\ p.heads[k] \subseteq published[k] \cup p.rows[k]
          /\ p.heads[k] # {} => ~(p.heads[k] \subseteq published[k])
          /\ \A v \in published[k] : p.states[v] = rowState[v]

(* The publishing transaction is a step of the published tables, and       *)
(* appends one change for each entity with heads.                          *)
LEMMA PublicationEntities ==
    ASSUME ProviderInv, NEW w \in WorkUnit, NEW p, Publishable(w, p),
           FinishWorkUnitPublication(w, p)
    PROVE  /\ EntityStep(w.id)
           /\ {r.key : r \in {r \in changes' \ changes : r.by = w.id}} =
                {k \in Key : p.heads[k] # {}}
           /\ \A k \in Key : p.heads[k] \subseteq published'[k]
  <1> DEFINE M == {k \in Key : p.heads[k] # {}}
  <1>1. IsFiniteSet(M) /\ Cardinality(M) \in Nat
    BY FiniteKeys, FS_Subset, FS_CardinalityType
  <1>2. PICK pos \in PublicationOrders(M, p.marked) :
          /\ heads' = [k \in Key |-> IF k \in M THEN p.heads[k] ELSE heads[k]]
          /\ changes' = changes \cup
               {[cursor |-> frontier + pos[k], key |-> k,
                 kind |-> DeriveChangeKind(heads[k], p.heads[k], p.states),
                 heads |-> p.heads[k], by |-> w.id] : k \in M}
          /\ frontier' = frontier + Cardinality(M)
          /\ published' = [k \in Key |-> IF k \in M
                                         THEN published[k] \cup p.rows[k]
                                         ELSE published[k]]
          /\ publishedCursor' =
               [v \in Version |->
                  IF \E k \in M : v \in p.rows[k]
                  THEN frontier + pos[CHOOSE k \in M : v \in p.rows[k]]
                  ELSE publishedCursor[v]]
          /\ rowState' = p.states
    BY DEF FinishWorkUnitPublication
  <1> DEFINE row(k) == [cursor |-> frontier + pos[k], key |-> k,
                        kind |-> DeriveChangeKind(heads[k], p.heads[k], p.states),
                        heads |-> p.heads[k], by |-> w.id]
  <1>3. \A k \in M : pos[k] \in Nat /\ 1 <= pos[k] /\ pos[k] <= Cardinality(M)
    BY <1>1 DEF PublicationOrders
  <1>4. \A k \in M : k \in Key /\ p.heads[k] # {}
    OBVIOUS
  <1>5. frontier \in Nat /\ w.id \in Unit /\ w.id # None
    BY NoneIsNoUnit DEF ProviderInv, TypeOK, EntityTypeOK, WorkUnit
  <1>6. \A k \in M : /\ row(k).cursor = frontier + pos[k] /\ row(k).key = k
                      /\ row(k).heads = p.heads[k] /\ row(k).by = w.id
    OBVIOUS
  <1>7. changes' = changes \cup {row(k) : k \in M}
    BY <1>2
  <1> DEFINE size == Cardinality(M)
  <1>8. size \in Nat /\ frontier' = frontier + size
    BY <1>1, <1>2
  <1>9. \A k \in Key :
          /\ heads'[k] = IF k \in M THEN p.heads[k] ELSE heads[k]
          /\ published'[k] = IF k \in M THEN published[k] \cup p.rows[k]
                                        ELSE published[k]
    BY <1>2
  <1>10. \A k \in M : 1 <= pos[k] /\ pos[k] <= size /\ pos[k] \in Nat
    BY <1>3
  <1>11. \A k \in Key \ M : p.heads[k] = {}
    OBVIOUS
  <1>12. M \subseteq Key
    OBVIOUS
  <1> HIDE DEF M, size, row
  <1>13. \A r \in changes : r.cursor <= frontier /\ r.cursor \in Nat
    BY DEF ProviderInv, HistoryInv, HistoryMatchesHeads, TypeOK, EntityTypeOK, Change
  <1>14. \A k \in M : row(k) \in changes' \ changes
    BY <1>5, <1>6, <1>7, <1>10, <1>13
  <1>15. \A r \in changes' \ changes : \E k \in M : r = row(k)
    BY <1>7
  <1>16. \A r \in changes' \ changes :
          /\ frontier < r.cursor /\ r.cursor <= frontier'
          /\ r.heads = heads'[r.key] /\ ~(r.heads \subseteq published[r.key])
          /\ r.by \in {None, w.id}
          /\ \A q \in changes' \ changes : q.key = r.key => q = r
    <2> SUFFICES ASSUME NEW r \in changes' \ changes
                 PROVE  /\ frontier < r.cursor /\ r.cursor <= frontier'
                        /\ r.heads = heads'[r.key]
                        /\ ~(r.heads \subseteq published[r.key])
                        /\ r.by \in {None, w.id}
                        /\ \A q \in changes' \ changes : q.key = r.key => q = r
      OBVIOUS
    <2>1. PICK k \in M : r = row(k)
      BY <1>15
    <2>2. frontier < r.cursor /\ r.cursor <= frontier'
      BY <1>5, <1>6, <1>8, <1>10, <2>1
    <2>3. r.heads = heads'[r.key] /\ ~(r.heads \subseteq published[r.key])
      BY <1>4, <1>6, <1>9, <2>1 DEF Publishable
    <2>4. \A q \in changes' \ changes : q.key = r.key => q = r
      BY <1>6, <1>15, <2>1
    <2> QED
      BY <1>6, <2>1, <2>2, <2>3, <2>4
  <1>17. \A k \in Key :
          /\ heads'[k] # heads[k] => \E r \in changes' \ changes : r.key = k
          /\ heads'[k] \subseteq published'[k]
          /\ published[k] \subseteq published'[k]
          /\ \A v \in published'[k] \ published[k] :
                v \notin Rows \/ (w.id # None /\ v \in staged[w.id][k])
    <2> SUFFICES ASSUME NEW k \in Key
                 PROVE  /\ heads'[k] # heads[k] =>
                             \E r \in changes' \ changes : r.key = k
                        /\ heads'[k] \subseteq published'[k]
                        /\ published[k] \subseteq published'[k]
                        /\ \A v \in published'[k] \ published[k] :
                             v \notin Rows \/ (w.id # None /\ v \in staged[w.id][k])
      OBVIOUS
    <2>1. heads[k] \subseteq published[k]
      BY DEF ProviderInv, RowsInv, HeadsHaveRows
    <2>2. CASE k \in M
      BY <1>5, <1>6, <1>9, <1>14, <2>2, ZenonT(60) DEF Publishable
    <2>3. CASE k \notin M
      BY <1>9, <2>1, <2>3
    <2> QED
      BY <2>2, <2>3
  <1>18. \A k \in Key : \A v \in published[k] :
            rowState'[v] = rowState[v] /\ publishedCursor'[v] = publishedCursor[v]
    <2> SUFFICES ASSUME NEW k \in Key, NEW v \in published[k]
                 PROVE  rowState'[v] = rowState[v] /\ publishedCursor'[v] = publishedCursor[v]
      OBVIOUS
    <2>1. v \in Version /\ v \in Rows
      BY HasRow DEF ProviderInv, TypeOK, EntityTypeOK
    <2>2. \A j \in Key : v \notin staged[w.id][j]
      BY <1>5 DEF ProviderInv, RowsInv, HeadsHaveRows, StagedIsPrivate
    <2>3. \A j \in M : v \notin p.rows[j]
      BY <1>12, <2>1, <2>2 DEF Publishable
    <2> QED
      BY <1>2, <2>1, <2>3 DEF Publishable
  <1>19. EntityStep(w.id)
    <2>1. changes \subseteq changes' /\ frontier <= frontier'
      BY <1>5, <1>7, <1>8
    <2> QED
      BY <1>16, <1>17, <1>18, <2>1 DEF EntityStep
  <1>20. {r.key : r \in {r \in changes' \ changes : r.by = w.id}} = M
    <2>1. ASSUME NEW r \in changes' \ changes PROVE r.key \in M
      BY <1>6, <1>15
    <2>2. ASSUME NEW k \in M PROVE \E r \in changes' \ changes : r.by = w.id /\ r.key = k
      BY <1>6, <1>14
    <2> QED
      BY <2>1, <2>2
  <1>21. \A k \in Key : p.heads[k] \subseteq published'[k]
    BY <1>9, <1>11, <1>17
  <1> QED
    BY <1>19, <1>20, <1>21 DEF M

(* A publication, whether it captured an entity in the same transaction or *)
(* not.                                                                    *)
LEMMA PublicationStep ==
    ASSUME ProviderInv, NEW w \in WorkUnit, NEW p, Publishable(w, p),
           FinishWorkUnitPublication(w, p),
           \/ UNCHANGED captureVars /\ unit[w.id].state # "none"
           \/ \E K \in SUBSET Key : CaptureWorkUnitEntities(w, K)
    PROVE  ProviderStep
  <1>0. TypeOK
    BY DEF ProviderInv
  <1>1. /\ unit' = [EnsuredUnits(w, Lapsed) EXCEPT ![w.id].state = "committed"]
        /\ staged' = [StagedWithout(Lapsed) EXCEPT ![w.id] = NoKeys]
        /\ unitHeads' = [UnitHeadsWithout(Lapsed) EXCEPT ![w.id] = p.heads]
    BY DEF FinishWorkUnitPublication
  <1>2. /\ w.id \in Unit
        /\ unit[w.id].state \in {"none", "open", "closing"}
        /\ EnsuredUnits(w, Lapsed)[w.id].baseline = Baseline(w)
        /\ unit[w.id].state # "none" => EnsuredUnits(w, Lapsed)[w.id] = unit[w.id]
        /\ \A u \in Unit \ {w.id} : EnsuredUnits(w, Lapsed)[u] = UnitsWithout(Lapsed)[u]
    BY <1>0, EnsuredUnit DEF Publishable
  <1>3. EnsuredUnits(w, Lapsed) \in [Unit -> UnitRow]
    BY <1>0, EnsuredUnitsType
  <1>4. /\ unit'[w.id].state = "committed"
        /\ unit'[w.id].baseline = Baseline(w)
        /\ unit[w.id].state # "none" => unit'[w.id].policy = unit[w.id].policy
        /\ \A u \in Unit \ {w.id} : unit'[u] = UnitsWithout(Lapsed)[u]
    BY <1>1, <1>2, <1>3 DEF UnitRow
  <1>5. /\ staged'[w.id] = NoKeys /\ unitHeads'[w.id] = p.heads
        /\ \A u \in Unit \ {w.id} : /\ staged'[u] = StagedWithout(Lapsed)[u]
                                     /\ unitHeads'[u] = UnitHeadsWithout(Lapsed)[u]
    BY <1>0, <1>1, <1>2, WithoutTypes
  <1>6. /\ Captures(w.id)
        /\ \A u \in Unit \ {w.id} : captured'[u] = captured[u] /\ base'[u] = base[u]
    <2>1. CASE UNCHANGED captureVars /\ unit[w.id].state # "none"
      BY <1>4, <2>1 DEF Captures, Baseline, captureVars
    <2>2. ASSUME NEW K \in SUBSET Key, CaptureWorkUnitEntities(w, K)
          PROVE  /\ Captures(w.id)
                 /\ \A u \in Unit \ {w.id} :
                      captured'[u] = captured[u] /\ base'[u] = base[u]
      BY <1>0, <1>4, <2>2, CaptureUnit
    <2> QED
      BY <2>1, <2>2
  <1>7. Publishes(w.id)
    BY <1>2, <1>4, <1>5, <1>6, PublicationEntities DEF Publishes
  <1>8. \A u \in Unit \ {w.id} : Keeps(u) \/ Expires(u)
    BY <1>0, <1>4, <1>5, <1>6, OtherUnits
  <1> QED
    BY <1>2, <1>7, <1>8, PublicationEntities DEF ProviderStep

(* The unit's rows and heads are publishable as they stand.                *)
LEMMA StagedPublishable ==
    ASSUME ProviderInv, NEW w \in WorkUnit, unit[w.id].state = "closing",
           EnsuredState(w, Lapsed) = "closing"
    PROVE  Publishable(w, Publication(unitHeads[w.id], staged[w.id],
                            closeMarker[w.id], rowState,
                            RecordsWithout(Lapsed), idempotency))
  <1> DEFINE p == Publication(unitHeads[w.id], staged[w.id], closeMarker[w.id],
                    rowState, RecordsWithout(Lapsed), idempotency)
  <1>1. w.id \in Unit /\ Live(w.id)
    BY DEF WorkUnit, Live
  <1>2. p \in PublicationRecord
    BY <1>1, WithoutTypes
    DEF Publication, PublicationRecord, ProviderInv, TypeOK, EntityTypeOK,
        CaptureTypeOK, UnitTypeOK, IdempotencyTypeOK
  <1>3. p.heads = unitHeads[w.id] /\ p.rows = staged[w.id] /\ p.states = rowState
    BY DEF Publication
  <1> HIDE DEF p
  <1>4. ASSUME NEW k \in Key, unitHeads[w.id][k] # {}
        PROVE  ~(unitHeads[w.id][k] \subseteq published[k])
    BY <1>1, <1>4
    DEF ProviderInv, UnitsInv, RowsInv, HeadsHaveRows, StagedIsPrivate
  <1>5. \A k \in Key : unitHeads[w.id][k] \subseteq published[k] \cup staged[w.id][k]
    BY <1>1 DEF ProviderInv, RowsInv, HeadsHaveRows
  <1>6. Publishable(w, p)
    BY <1>2, <1>3, <1>4, <1>5 DEF Publishable
  <1> QED
    BY <1>6 DEF p

(* So are they with the resolutions of its drift.                          *)
LEMMA ResolvedPublishable ==
    ASSUME ProviderInv, NEW w \in WorkUnit, NEW res \in Resolutions(w),
           EnsuredState(w, Lapsed) = "closing", unit[w.id].state = "closing"
    PROVE  Publishable(w, ResolvedPublication(w, res))
  <1> DEFINE p == ResolvedPublication(w, res)
  <1>1. w.id \in Unit /\ Live(w.id) /\ TypeOK
    BY DEF WorkUnit, Live, ProviderInv
  <1>2. p \in PublicationRecord
    BY <1>1, ResolvedPublicationType
  <1>3. /\ p.heads = ResolvedHeads(w, res) /\ p.rows = ResolvedRows(w, res)
        /\ p.states = ResolvedStates(res)
    BY DEF ResolvedPublication, Publication
  <1> HIDE DEF p
  <1>4. ASSUME NEW k \in Key
        PROVE  /\ \A v \in ResolvedRows(w, res)[k] :
                    v \in staged[w.id][k] \/ v \notin Rows
               /\ ResolvedHeads(w, res)[k] \subseteq
                    published[k] \cup ResolvedRows(w, res)[k]
               /\ ResolvedHeads(w, res)[k] # {} =>
                    ~(ResolvedHeads(w, res)[k] \subseteq published[k])
    <2>1. /\ heads[k] \subseteq published[k]
          /\ unitHeads[w.id][k] \subseteq published[k] \cup staged[w.id][k]
          /\ staged[w.id][k] \cap published[k] = {}
      BY <1>1 DEF ProviderInv, RowsInv, HeadsHaveRows, StagedIsPrivate
    <2>2. unitHeads[w.id][k] # {} => unitHeads[w.id][k] \cap staged[w.id][k] # {}
      BY <1>1 DEF ProviderInv, UnitsInv
    <2>3. published[k] \subseteq Rows
      BY HasRow
    <2>4. CASE k \in DOMAIN res
      <3>1. /\ res[k].new \cap Rows = {}
            /\ res[k].heads \subseteq heads[k] \cup unitHeads[w.id][k] \cup res[k].new
            /\ res[k].new \subseteq res[k].heads
            /\ res[k].new # {} \/ unitHeads[w.id][k] \subseteq res[k].heads
        BY <1>1, <2>4, ResolutionsType
      <3>2. unitHeads[w.id][k] # {}
        BY <2>4 DEF Resolutions, Drifted, PublicationConflicts
      <3>3. /\ ResolvedHeads(w, res)[k] = res[k].heads
            /\ ResolvedRows(w, res)[k] = staged[w.id][k] \cup res[k].new
        BY <2>4 DEF ResolvedHeads, ResolvedRows
      <3> QED
        BY <2>1, <2>2, <2>3, <3>1, <3>2, <3>3
    <2>5. CASE k \notin DOMAIN res
      <3>1. /\ ResolvedHeads(w, res)[k] = unitHeads[w.id][k]
            /\ ResolvedRows(w, res)[k] = staged[w.id][k]
        BY <2>5 DEF ResolvedHeads, ResolvedRows
      <3> QED
        BY <2>1, <2>2, <3>1
    <2> QED
      BY <2>4, <2>5
  <1>5. ASSUME NEW k \in Key, NEW v \in published[k]
        PROVE  ResolvedStates(res)[v] = rowState[v]
    <2>1. v \in Version /\ v \in Rows
      BY <1>1, HasRow DEF TypeOK, EntityTypeOK
    <2>2. \A j \in DOMAIN res : v \notin res[j].new
      BY <1>1, <2>1, ResolutionsType
    <2> QED
      BY <2>1, <2>2 DEF ResolvedStates
  <1>6. Publishable(w, p)
    BY <1>2, <1>3, <1>4, <1>5 DEF Publishable
  <1> QED
    BY <1>6 DEF p

(* publish_work_unit.                                                      *)
LEMMA PublishWorkUnitStep ==
    ASSUME ProviderInv, NEW w \in WorkUnit, NEW res \in Resolutions(w),
           PublishWorkUnit(w, res)
    PROVE  ProviderStep
  <1>1. CASE SweepOnly
    BY <1>1, SweepOnlyStep
  <1>2. CASE /\ PublishOutcome(w, res) = "Published"
             /\ UNCHANGED captureVars
             /\ FinishWorkUnitPublication(w, ResolvedPublication(w, res))
    <2>1. EnsuredState(w, Lapsed) \in
            {"none", "open", "closing", "committed", "expired", "mismatch"}
      BY DEF EnsuredState, ProviderInv, TypeOK, UnitTypeOK, UnitRow, WorkUnit
    <2>2. EnsuredState(w, Lapsed) \in {"none", "closing"}
      BY <1>2, <2>1 DEF PublishOutcome
    <2>3. EnsuredState(w, Lapsed) = "closing" /\ unit[w.id].state = "closing"
      BY <2>2 DEF EnsuredState
    <2> QED
      BY <1>2, <2>3, ResolvedPublishable, PublicationStep
  <1> QED
    BY <1>1, <1>2, PublishWorkUnitCases

(* commit_entity_in_work_unit goes on only when the heads it expects are   *)
(* those the unit sees.                                                    *)
LEMMA StagingCommit ==
    ASSUME TypeOK, NEW w \in WorkUnit, NEW k \in Key, NEW seen \in SeenIn(w, k),
           NEW c \in Commits(k, seen), NEW close \in BOOLEAN, NEW rec,
           NEW late \in BOOLEAN, EnsuredState(w, Lapsed) = "open",
           CommitInWorkUnitOutcome(w, c, close, rec, late) # "Conflict"
    PROVE  /\ c \in EntityCommit /\ c.key = k
           /\ c.new \cap Rows = {} /\ c.new # {} /\ c.new \subseteq c.heads
           /\ c.heads \subseteq WorkUnitHeads(w, k) \cup c.new
  <1>1. seen \in SUBSET Version
    BY HeadsTypes DEF SeenIn
  <1>2. /\ c \in EntityCommit /\ c.key = k /\ c.expected = seen
        /\ c.new \cap Rows = {} /\ c.new # {} /\ c.new \subseteq c.heads
        /\ c.heads \subseteq seen \cup c.new
    BY <1>1, CommitsType
  <1>3. WorkUnitHeads(w, c.key) = c.expected
    BY DEF CommitInWorkUnitOutcome
  <1> QED
    BY <1>2, <1>3

(* Staging c leaves a unit whose rows and heads are publishable.           *)
LEMMA StagedCommitPublishable ==
    ASSUME ProviderInv, NEW w \in WorkUnit, NEW c \in EntityCommit,
           EnsuredState(w, Lapsed) = "open",
           c.new \cap Rows = {}, c.new # {}, c.new \subseteq c.heads,
           c.heads \subseteq WorkUnitHeads(w, c.key) \cup c.new,
           NEW close \in BOOLEAN, NEW rec \in UnitRecordsOf(c)
    PROVE  Publishable(w, Publication(StagedHeads(w, c), StagedRows(w, c),
                            StagedMarks(w, c, close), StagedStates(c),
                            StagedRecords(w, rec), PublishedRecords(rec)))
  <1> DEFINE p == Publication(StagedHeads(w, c), StagedRows(w, c),
                    StagedMarks(w, c, close), StagedStates(c),
                    StagedRecords(w, rec), PublishedRecords(rec))
  <1>1. TypeOK /\ w.id \in Unit /\ c.key \in Key
    BY DEF ProviderInv, WorkUnit, EntityCommit
  <1>2. p \in PublicationRecord
    BY <1>1, StagedTypes, StagedRecordsType DEF Publication, PublicationRecord
  <1>3. /\ p.heads = StagedHeads(w, c) /\ p.rows = StagedRows(w, c)
        /\ p.states = StagedStates(c)
    BY DEF Publication
  <1> HIDE DEF p
  <1>4. \A k \in Key :
          /\ StagedHeads(w, c)[k] = IF k = c.key THEN c.heads ELSE unitHeads[w.id][k]
          /\ StagedRows(w, c)[k] = IF k = c.key THEN staged[w.id][k] \cup c.new
                                                ELSE staged[w.id][k]
    BY <1>1 DEF StagedHeads, StagedRows, TypeOK, UnitTypeOK
  <1>5. unit[w.id].state \in {"none", "open"}
    BY <1>1, EnsuredUnit
  <1>6. ASSUME NEW k \in Key
        PROVE  /\ unitHeads[w.id][k] \subseteq published[k] \cup staged[w.id][k]
               /\ unitHeads[w.id][k] # {} => ~(unitHeads[w.id][k] \subseteq published[k])
               /\ BaseHeads(w, k) \subseteq published[k]
    <2>1. /\ unitHeads[w.id][k] \subseteq published[k] \cup staged[w.id][k]
          /\ staged[w.id][k] \cap published[k] = {}
      BY <1>1 DEF ProviderInv, RowsInv, HeadsHaveRows, StagedIsPrivate
    <2>2. unitHeads[w.id][k] # {} => unitHeads[w.id][k] \cap staged[w.id][k] # {}
      BY <1>1, <1>5 DEF ProviderInv, UnitsInv, Live, NoKeys
    <2>3. BaseHeads(w, k) \subseteq published[k]
      BY <1>1, HeadsAtHaveRows DEF BaseHeads, ProviderInv, RowsInv
    <2> QED
      BY <2>1, <2>2, <2>3
  <1>7. WorkUnitHeads(w, c.key) \subseteq published[c.key] \cup staged[w.id][c.key]
    BY <1>1, <1>6 DEF WorkUnitHeads
  <1>8. published[c.key] \subseteq Rows
    BY <1>1, HasRow
  <1>9. ASSUME NEW k \in Key, NEW v \in published[k]
        PROVE  StagedStates(c)[v] = rowState[v]
    <2>1. v \in Version /\ v \in Rows
      BY <1>1, HasRow DEF TypeOK, EntityTypeOK
    <2> QED
      BY <2>1 DEF StagedStates
  <1>10. \A k \in Key :
          /\ \A v \in p.rows[k] : v \in staged[w.id][k] \/ v \notin Rows
          /\ p.heads[k] \subseteq published[k] \cup p.rows[k]
          /\ p.heads[k] # {} => ~(p.heads[k] \subseteq published[k])
    <2> SUFFICES ASSUME NEW k \in Key
                 PROVE  /\ \A v \in p.rows[k] : v \in staged[w.id][k] \/ v \notin Rows
                        /\ p.heads[k] \subseteq published[k] \cup p.rows[k]
                        /\ p.heads[k] # {} => ~(p.heads[k] \subseteq published[k])
      OBVIOUS
    <2>1. CASE k # c.key
      BY <1>3, <1>4, <1>6, <2>1, ZenonT(60)
    <2>2. CASE k = c.key
      <3>1. p.heads[k] = c.heads /\ p.rows[k] = staged[w.id][k] \cup c.new
        BY <1>3, <1>4, <2>2
      <3> QED
        BY <1>7, <1>8, <2>2, <3>1
    <2> QED
      BY <2>1, <2>2
  <1>11. Publishable(w, p)
    BY <1>2, <1>3, <1>9, <1>10 DEF Publishable
  <1> QED
    BY <1>11 DEF p

(* Staging c in an open unit, and perhaps sealing the unit over drift.     *)
LEMMA StageStep ==
    ASSUME ProviderInv, NEW w \in WorkUnit, NEW c \in EntityCommit,
           NEW close \in BOOLEAN,
           EnsuredState(w, Lapsed) = "open",
           c.new \cap Rows = {}, c.new # {}, c.new \subseteq c.heads,
           c.heads \subseteq WorkUnitHeads(w, c.key) \cup c.new,
           close => PublicationConflicts(StagedHeads(w, c), StagedBase(w, c)) # {},
           StageInWorkUnit(w, c, close),
           rowState' = StagedStates(c),
           unit' = [EnsuredUnits(w, Lapsed) EXCEPT
                      ![w.id].state = IF close THEN "closing" ELSE "open"],
           unitHeads' = [UnitHeadsWithout(Lapsed) EXCEPT ![w.id] = StagedHeads(w, c)],
           staged' = [StagedWithout(Lapsed) EXCEPT ![w.id] = StagedRows(w, c)],
           UNCHANGED <<published, publishedCursor, heads, changes, frontier>>
    PROVE  ProviderStep
  <1>1. TypeOK /\ w.id \in Unit /\ c.key \in Key
    BY DEF ProviderInv, WorkUnit, EntityCommit
  <1>2. EntityStep(w.id) /\ Unpublished
    <2>1. \A k \in Key : \A v \in published[k] : v \in Version /\ v \in Rows
      BY <1>1, HasRow DEF TypeOK, EntityTypeOK
    <2>2. \A k \in Key : \A v \in published[k] : rowState'[v] = rowState[v]
      BY <2>1 DEF StagedStates
    <2> QED
      BY <2>2, QuietEntities DEF Unpublished
  <1>3. /\ unit[w.id].state \in {"none", "open"}
        /\ EnsuredUnits(w, Lapsed)[w.id].baseline = Baseline(w)
        /\ unit[w.id].state # "none" => EnsuredUnits(w, Lapsed)[w.id] = unit[w.id]
        /\ \A u \in Unit \ {w.id} : EnsuredUnits(w, Lapsed)[u] = UnitsWithout(Lapsed)[u]
    BY <1>1, EnsuredUnit
  <1>4. EnsuredUnits(w, Lapsed) \in [Unit -> UnitRow]
    BY <1>1, EnsuredUnitsType
  <1>5. /\ unit'[w.id].state = IF close THEN "closing" ELSE "open"
        /\ unit'[w.id].baseline = Baseline(w)
        /\ unit[w.id].state # "none" => unit'[w.id].policy = unit[w.id].policy
        /\ \A u \in Unit \ {w.id} : unit'[u] = UnitsWithout(Lapsed)[u]
    BY <1>1, <1>3, <1>4 DEF UnitRow
  <1>6. /\ staged'[w.id] = StagedRows(w, c) /\ unitHeads'[w.id] = StagedHeads(w, c)
        /\ \A u \in Unit \ {w.id} : /\ staged'[u] = StagedWithout(Lapsed)[u]
                                     /\ unitHeads'[u] = UnitHeadsWithout(Lapsed)[u]
    BY <1>1, WithoutTypes
  <1>7. /\ Captures(w.id)
        /\ c.key \in captured'[w.id]
        /\ \A k \in Key : base'[w.id][k] = IF k \in {c.key} THEN BaseHeads(w, k)
                                                             ELSE base[w.id][k]
        /\ \A u \in Unit \ {w.id} : captured'[u] = captured[u] /\ base'[u] = base[u]
    <2>1. CaptureWorkUnitEntities(w, {c.key}) /\ {c.key} \in SUBSET Key
      BY <1>1 DEF StageInWorkUnit
    <2> QED
      BY <1>1, <1>5, <2>1, CaptureUnit
  <1>8. \A k \in Key :
          /\ unitHeads'[w.id][k] = IF k = c.key THEN c.heads ELSE unitHeads[w.id][k]
          /\ staged'[w.id][k] = IF k = c.key THEN staged[w.id][k] \cup c.new
                                            ELSE staged[w.id][k]
    <2>1. /\ unitHeads[w.id] \in [Key -> SUBSET Version]
          /\ staged[w.id] \in [Key -> SUBSET Version]
      BY <1>1 DEF TypeOK, UnitTypeOK
    <2>2. \A k \in Key :
            /\ StagedHeads(w, c)[k] = IF k = c.key THEN c.heads ELSE unitHeads[w.id][k]
            /\ StagedRows(w, c)[k] = IF k = c.key THEN staged[w.id][k] \cup c.new
                                                  ELSE staged[w.id][k]
      BY <1>1, <2>1 DEF StagedHeads, StagedRows
    <2> QED
      BY <1>6, <2>2
  <1>9. WorkUnitHeads(w, c.key) \subseteq unitHeads[w.id][c.key] \cup base'[w.id][c.key]
    BY <1>1, <1>7 DEF WorkUnitHeads
  <1>10. \A k \in Key :
          \/ staged'[w.id][k] = staged[w.id][k] /\ unitHeads'[w.id][k] = unitHeads[w.id][k]
          \/ /\ {c.key} = {k}
             /\ k \in captured'[w.id]
             /\ \A v \in staged'[w.id][k] : v \in staged[w.id][k] \/ v \notin Rows
             /\ staged[w.id][k] \subseteq staged'[w.id][k]
             /\ unitHeads'[w.id][k] \cap staged'[w.id][k] # {}
             /\ unitHeads'[w.id][k] \subseteq
                  unitHeads[w.id][k] \cup base'[w.id][k] \cup staged'[w.id][k]
    <2>1. ASSUME NEW k \in Key, k # c.key
          PROVE  /\ staged'[w.id][k] = staged[w.id][k]
                 /\ unitHeads'[w.id][k] = unitHeads[w.id][k]
      BY <1>8, <2>1
    <2>2. /\ staged'[w.id][c.key] = staged[w.id][c.key] \cup c.new
          /\ unitHeads'[w.id][c.key] = c.heads
      BY <1>1, <1>8
    <2>3. /\ \A v \in staged'[w.id][c.key] : v \in staged[w.id][c.key] \/ v \notin Rows
          /\ unitHeads'[w.id][c.key] \cap staged'[w.id][c.key] # {}
          /\ unitHeads'[w.id][c.key] \subseteq
               unitHeads[w.id][c.key] \cup base'[w.id][c.key] \cup staged'[w.id][c.key]
      BY <1>9, <2>2
    <2> QED
      BY <1>7, <2>1, <2>2, <2>3
  <1>11. close => \E k \in Key : unitHeads'[w.id][k] # {} /\ heads'[k] # base'[w.id][k]
    <2>1. \A k \in Key : StagedBase(w, c)[k] = base'[w.id][k]
      BY <1>1, <1>7 DEF StagedBase, TypeOK, CaptureTypeOK
    <2> QED
      BY <1>6, <2>1 DEF PublicationConflicts
  <1>12. Works(w.id)
    <2>1. {c.key} \in SUBSET Key
      BY <1>1
    <2>2. unit'[w.id].state \in {"open", "closing"}
      BY <1>5
    <2>3. unit'[w.id].state = "closing" =>
            \E k \in Key : unitHeads'[w.id][k] # {} /\ heads'[k] # base'[w.id][k]
      BY <1>5, <1>11
    <2> QED
      BY <1>2, <1>3, <1>7, <1>10, <2>1, <2>2, <2>3 DEF Works
  <1>13. \A u \in Unit \ {w.id} : Keeps(u) \/ Expires(u)
    BY <1>1, <1>5, <1>6, <1>7, OtherUnits
  <1> QED
    BY <1>1, <1>2, <1>12, <1>13 DEF ProviderStep

(* commit_entity_in_work_unit.                                             *)
LEMMA CommitInWorkUnitStep ==
    ASSUME ProviderInv, NEW w \in WorkUnit, NEW k \in Key, NEW seen \in SeenIn(w, k),
           NEW c \in Commits(k, seen), NEW close \in BOOLEAN,
           NEW rec \in UnitRecordsOf(c), NEW late \in BOOLEAN,
           CommitEntityInWorkUnit(w, c, close, rec, late)
    PROVE  ProviderStep
  <1> DEFINE out == CommitInWorkUnitOutcome(w, c, close, rec, late)
             opened == EnsuredState(w, Lapsed) = "open"
  <1>0. TypeOK
    BY DEF ProviderInv
  <1>1. CASE SweepOnly
    BY <1>1, SweepOnlyStep
  <1>2. CASE opened /\ out \in {"Staged", "PublicationConflict"} /\ ~SweepOnly
    <2>1. /\ c \in EntityCommit /\ c.key = k
          /\ c.new \cap Rows = {} /\ c.new # {} /\ c.new \subseteq c.heads
          /\ c.heads \subseteq WorkUnitHeads(w, c.key) \cup c.new
      BY <1>0, <1>2, StagingCommit
    <2>2. close => PublicationConflicts(StagedHeads(w, c), StagedBase(w, c)) # {}
      BY <1>2 DEF CommitInWorkUnitOutcome
    <2>3. /\ StageInWorkUnit(w, c, close)
          /\ rowState' = StagedStates(c)
          /\ unit' = [EnsuredUnits(w, Lapsed) EXCEPT
                         ![w.id].state = IF close THEN "closing" ELSE "open"]
          /\ unitHeads' = [UnitHeadsWithout(Lapsed) EXCEPT ![w.id] = StagedHeads(w, c)]
          /\ staged' = [StagedWithout(Lapsed) EXCEPT ![w.id] = StagedRows(w, c)]
          /\ UNCHANGED <<published, publishedCursor, heads, changes, frontier>>
      BY <1>2 DEF CommitEntityInWorkUnit
    <2> QED
      BY <1>2, <2>1, <2>2, <2>3, StageStep
  <1>3. CASE opened /\ out = "Published"
    <2>1. /\ c \in EntityCommit /\ c.key = k
          /\ c.new \cap Rows = {} /\ c.new # {} /\ c.new \subseteq c.heads
          /\ c.heads \subseteq WorkUnitHeads(w, c.key) \cup c.new
      BY <1>0, <1>3, StagingCommit
    <2>2. /\ StageInWorkUnit(w, c, close)
          /\ FinishWorkUnitPublication(w,
               Publication(StagedHeads(w, c), StagedRows(w, c),
                 StagedMarks(w, c, close), StagedStates(c),
                 StagedRecords(w, rec), PublishedRecords(rec)))
      BY <1>3 DEF CommitEntityInWorkUnit
    <2>3. \E K \in SUBSET Key : CaptureWorkUnitEntities(w, K)
      <3>1. CaptureWorkUnitEntities(w, {k}) /\ {k} \in SUBSET Key
        BY <2>1, <2>2 DEF StageInWorkUnit
      <3> QED
        BY <3>1
    <2>4. Publishable(w, Publication(StagedHeads(w, c), StagedRows(w, c),
                           StagedMarks(w, c, close), StagedStates(c),
                           StagedRecords(w, rec), PublishedRecords(rec)))
      BY <1>3, <2>1, StagedCommitPublishable
    <2> QED
      BY <2>2, <2>3, <2>4, PublicationStep
  <1>4. CASE ~opened /\ out = "Published"
    <2>1. /\ UNCHANGED captureVars
          /\ FinishWorkUnitPublication(w,
               Publication(unitHeads[w.id], staged[w.id], closeMarker[w.id],
                 rowState, RecordsWithout(Lapsed), idempotency))
      BY <1>4 DEF CommitEntityInWorkUnit
    <2>2. EnsuredState(w, Lapsed) \in
            {"none", "open", "closing", "committed", "expired", "mismatch"}
      BY <1>0 DEF EnsuredState, TypeOK, UnitTypeOK, UnitRow, WorkUnit
    <2>3. EnsuredState(w, Lapsed) \in {"none", "closing"}
      BY <1>4, <2>2 DEF CommitInWorkUnitOutcome
    <2>4. EnsuredState(w, Lapsed) = "closing" /\ unit[w.id].state = "closing"
      BY <2>3 DEF EnsuredState
    <2> QED
      BY <2>1, <2>4, StagedPublishable, PublicationStep
  <1> QED
    BY <1>1, <1>2, <1>3, <1>4 DEF CommitEntityInWorkUnit

(* Every step of the provider is one: at most one unit works or publishes, *)
(* and what is published only grows.                                       *)
LEMMA NextIsStep ==
    ASSUME ProviderInv, [Next]_providerVars
    PROVE  ProviderStep
  <1>1. ASSUME UNCHANGED <<entityVars, captureVars, unit, unitHeads, staged>>
        PROVE  ProviderStep
    <2>1. EntityStep(None)
      BY <1>1, QuietEntities DEF entityVars, Unpublished
    <2> QED
      BY <1>1, <2>1, KeptStep
  <1>2. CASE UNCHANGED providerVars
    BY <1>1, <1>2 DEF providerVars, unitVars
  <1>3. ASSUME NEW late \in BOOLEAN, ImmediateOperation(late) PROVE ProviderStep
    <2>1. CASE ReadIdempotency(late)
      BY <1>1, <1>2, <2>1 DEF ReadIdempotency
    <2>2. CASE ReadEntity
      BY <2>2, SweepOnlyStep DEF ReadEntity
    <2> QED
      BY <1>3, <2>1, <2>2, CommitEntityStep DEF ImmediateOperation
  <1>4. ASSUME NEW w \in WorkUnit, NEW late \in BOOLEAN, WorkUnitOperation(w, late)
        PROVE  ProviderStep
    BY <1>4, ReadInWorkUnitStep, ReadIdempotencyInWorkUnitStep, CommitInWorkUnitStep
    DEF WorkUnitOperation
  <1>5. ASSUME NEW w \in WorkUnit, NEW res \in Resolutions(w), PublishWorkUnit(w, res)
        PROVE  ProviderStep
    BY <1>5, PublishWorkUnitStep
  <1>6. CASE ExpireOpenWorkUnits
    BY <1>6, SweepOnlyStep DEF ExpireOpenWorkUnits
  <1>7. ASSUME NEW u \in Unit, UnitFallsDue(u) PROVE ProviderStep
    BY <1>7, UnitFallsDueStep
  <1>8. ASSUME NEW i \in Identity, RecordLapses(i) PROVE ProviderStep
    BY <1>1, <1>8 DEF RecordLapses
  <1> QED
    BY <1>2, <1>3, <1>4, <1>5, <1>6, <1>7, <1>8 DEF Next

-----------------------------------------------------------------------------
(* Theorems                                                                *)

(* An empty database satisfies the invariant.                              *)
LEMMA InitProviderInv ==
    ASSUME Init, TypeOK
    PROVE  ProviderInv
  <1>1. \A k \in Key : /\ published[k] = {} /\ heads[k] = {}
                        /\ \A u \in Unit : staged[u][k] = {} /\ unitHeads[u][k] = {}
    BY DEF Init, UnitsInit, NoKeys
  <1>2. /\ changes = {} /\ frontier = 0
        /\ \A u \in Unit : /\ unit[u].state = "none" /\ unit[u].baseline = 0
                           /\ captured[u] = {} /\ unitHeads[u] = NoKeys
    BY DEF Init, UnitsInit
  <1>3. RowsInv
    BY <1>1, <1>2 DEF RowsInv, HeadsHaveRows, StagedIsPrivate
  <1>4. HistoryInv
    BY <1>1, <1>2 DEF HistoryInv, HistoryMatchesHeads, BaselineIsSnapshot, HeadsAt
  <1>5. UnitsInv
    BY <1>1, <1>2 DEF UnitsInv, BatchIsAtomic, SealedUnitHasDrift, Live
  <1> QED
    BY <1>3, <1>4, <1>5 DEF ProviderInv

(* Every step of the provider keeps the invariant.                         *)
LEMMA NextKeepsProviderInv ==
    ASSUME ProviderInv, [Next]_providerVars
    PROVE  ProviderInv'
  <1>1. ProviderStep
    BY NextIsStep
  <1>2. TypeOK'
    BY NextKeepsTypes DEF ProviderInv
  <1> QED
    BY <1>1, <1>2, RowsStep, BaselineStep, UnitsStep DEF ProviderInv

(* The types included, which an empty database has.                        *)
LEMMA InitKeepsProviderInv == Init => ProviderInv
  BY InitTypes, InitProviderInv

(* The invariant holds of every reachable state of the provider.           *)
THEOREM ProviderInvariant == Spec => []ProviderInv
  BY InitKeepsProviderInv, NextKeepsProviderInv, PTL DEF Spec

(* No head, published or staged, ever loses its row, and staged rows stay  *)
(* private to their live unit, through expiry and publication.             *)
THEOREM HeadsKeepRows == Spec => []HeadsHaveRows
  <1>1. ProviderInv => HeadsHaveRows
    BY DEF ProviderInv, RowsInv
  <1> QED
    BY <1>1, ProviderInvariant, PTL

(* The newest history row of an entity holds its heads, and no change lies *)
(* beyond the frontier.                                                    *)
THEOREM HistoryIsCurrent == Spec => []HistoryMatchesHeads
  <1>1. ProviderInv => HistoryMatchesHeads
    BY DEF ProviderInv, HistoryInv
  <1> QED
    BY <1>1, ProviderInvariant, PTL

(* Whatever is published after a unit opened, what the unit captures of an *)
(* entity are its heads at the unit's baseline.                            *)
THEOREM UnitsReadTheirBaseline == Spec => []BaselineIsSnapshot
  <1>1. ProviderInv => BaselineIsSnapshot
    BY DEF ProviderInv, HistoryInv
  <1> QED
    BY <1>1, ProviderInvariant, PTL

(* A unit publishes one change for each entity it mutated, or none at all. *)
THEOREM BatchesAreAtomic == Spec => []BatchIsAtomic
  <1>1. ProviderInv => BatchIsAtomic
    BY DEF ProviderInv, UnitsInv
  <1> QED
    BY <1>1, ProviderInvariant, PTL

(* A sealed unit always has drift to resolve: no publication by another    *)
(* unit or commit undoes it.                                               *)
THEOREM DriftIsNeverUndone == Spec => []SealedUnitHasDrift
  <1>1. ProviderInv => SealedUnitHasDrift
    BY DEF ProviderInv, UnitsInv
  <1> QED
    BY <1>1, ProviderInvariant, PTL

(* Committed and expired units, published versions and the change log up   *)
(* to the frontier are final.                                              *)
THEOREM OutcomesAreFinal == Spec => UnitOutcomeIsFinal
  <1> DEFINE Immutable ==
        /\ changes \subseteq changes'
        /\ \A r \in changes' \ changes : r.cursor > frontier
        /\ \A k \in Key : /\ published[k] \subseteq published'[k]
                           /\ \A v \in published[k] :
                                /\ rowState'[v] = rowState[v]
                                /\ publishedCursor'[v] = publishedCursor[v]
             Final ==
        \A u \in Unit :
          /\ unit[u].state \in {"committed", "expired"} => unit'[u] = unit[u]
          /\ unit[u].state = "closing" => unit'[u].state # "open"
          /\ unit[u].state # "none" =>
                /\ unit'[u].policy = unit[u].policy
                /\ unit'[u].baseline = unit[u].baseline
  <1>1. ProviderInv /\ ProviderInv' /\ [Next]_providerVars => Immutable /\ Final
    <2> SUFFICES ASSUME ProviderInv, ProviderInv', [Next]_providerVars
                 PROVE  Immutable /\ Final
      OBVIOUS
    <2>1. PICK a \in Unit \cup {None} :
            /\ EntityStep(a)
            /\ a \in Unit => Works(a) \/ Publishes(a)
            /\ \A u \in Unit \ {a} : Keeps(u) \/ Expires(u)
      BY NextIsStep DEF ProviderStep
    <2>2. \A r \in changes' : r.cursor \in Nat
      BY DEF ProviderInv, TypeOK, EntityTypeOK, Change
    <2>3. Immutable
      BY <2>1, <2>2 DEF EntityStep, ProviderInv, TypeOK, EntityTypeOK
    <2>4. Final
      <3> SUFFICES ASSUME NEW u \in Unit
                   PROVE  /\ unit[u].state \in {"committed", "expired"} =>
                               unit'[u] = unit[u]
                          /\ unit[u].state = "closing" => unit'[u].state # "open"
                          /\ unit[u].state # "none" =>
                               /\ unit'[u].policy = unit[u].policy
                               /\ unit'[u].baseline = unit[u].baseline
        OBVIOUS
      <3>1. unit[u] \in UnitRow
        BY DEF ProviderInv, TypeOK, UnitTypeOK
      <3>2. CASE Keeps(u) \/ Expires(u)
        BY <3>1, <3>2 DEF Keeps, Expires, Live, UnitRow
      <3>3. CASE Works(u) \/ Publishes(u)
        BY <3>3 DEF Works, Publishes, Captures
      <3> QED
        BY <2>1, <3>2, <3>3
    <2> QED
      BY <2>3, <2>4
  <1>2. UnitOutcomeIsFinal <=> [][Immutable]_providerVars /\ [][Final]_providerVars
    BY PTL DEF UnitOutcomeIsFinal, PublishedIsImmutable
  <1> HIDE DEF Immutable, Final
  <1> QED
    BY <1>1, <1>2, ProviderInvariant, PTL DEF Spec
=============================================================================
