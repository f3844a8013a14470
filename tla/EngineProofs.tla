---------------------------- MODULE EngineProofs ----------------------------
(***************************************************************************)
(* Proofs about the engine, for every set of requests, processes,          *)
(* mutations, entities, versions and units.  First, the engine calls the   *)
(* provider as its contract allows, so that what is proved of the provider *)
(* holds under the engine.  Then its safety: every step is put into one of *)
(* seven classes by what it stores and what the requests carry on from it. *)
(***************************************************************************)
EXTENDS Engine, SqliteProviderProofs

-----------------------------------------------------------------------------
(* The invariant of the requests                                           *)

RequestPc == {"idle", "admission", "idempotency", "read", "commit", "publish",
              "reread", "done", "lost"}
RequestStatus == Refusals \cup {"none", "OK", "REPLAYED", "OVERLOADED"}

ResolutionRow == [published : SUBSET Version, staged : SUBSET Version,
                  new : SUBSET Version, heads : SUBSET Version]
Resolved == UNION {[K -> ResolutionRow] : K \in SUBSET Key}

Mutations == Menu \cup {NoMutation}
NoneOr(S) == S \cup {None}

RequestRow == [pc : RequestPc, node : NoneOr(Node), m : Mutations,
               bases : SUBSET Version, late : BOOLEAN, seesDue : BOOLEAN,
               commit : NoneOr(EntityCommit), accepted : NoneOr(Version),
               res : Resolved, status : RequestStatus,
               version : NoneOr(Version)]

(* Requests and what is recorded with them are well typed.                 *)
RequestsTypeOK ==
    /\ req \in [Req -> RequestRow]
    /\ minted \in SUBSET Version
    /\ IsFiniteSet(minted)
    /\ derives \in [Version -> SUBSET Version]
    /\ conflictPolicy \in [Unit -> [Key -> NoneOr(Plan)]]
    /\ \A r \in Req : req[r].pc # "idle" => Mutation(r) \in Menu

(* The versions r has drawn and not yet stored.                            *)
Pending(r) ==
    IF req[r].pc = "commit" THEN req[r].commit.new
    ELSE IF req[r].pc = "publish"
         THEN UNION {req[r].res[k].new : k \in DOMAIN req[r].res}
    ELSE {}

(* They and the version that is r's own.                                   *)
Drawn(r) == Pending(r) \cup ({req[r].accepted} \ {None})

(* A version is drawn once, by one request, before it has a row.           *)
DrawsInv ==
    /\ Rows \subseteq minted
    /\ \A r \in Req : /\ Drawn(r) \subseteq minted
                      /\ Pending(r) \cap Rows = {}
    /\ \A r, s \in Req : r # s => Drawn(r) \cap Drawn(s) = {}

(* What a request is about to commit is a commit the contract allows, from *)
(* the heads the request has read.                                         *)
Prepared(r) ==
    LET c == req[r].commit
    IN  /\ c \in EntityCommit
        /\ c.key = Mutation(r).key
        /\ c.expected \subseteq minted
        /\ c.new # {} /\ c.new \subseteq c.heads
        /\ c.heads \subseteq c.expected \cup c.new
        /\ c.deletes => c.expected # {}
        /\ c.kind = MutationChangeKind(c.expected, c.heads, c.deletes)
        /\ req[r].accepted \in c.new

(* What a request is about to publish are resolutions the contract allows  *)
(* of the drift the request was told of.                                   *)
Resolves(r) ==
    LET res == req[r].res
    IN  /\ InUnit(r)
        /\ \A k \in DOMAIN res :
              /\ res[k].published \cup res[k].staged \subseteq minted
              /\ res[k].heads # {} /\ res[k].new \subseteq res[k].heads
              /\ res[k].heads \subseteq
                   res[k].published \cup res[k].staged \cup res[k].new
              /\ res[k].new # {} \/ res[k].staged \subseteq res[k].heads
        /\ \A j, k \in DOMAIN res : j # k => res[j].new \cap res[k].new = {}

(* A request is ready for the step it is at.                               *)
ReadyFor(r) ==
    /\ req[r].pc = "idempotency" => Mutation(r).id # None
    /\ req[r].pc = "commit" => Prepared(r)
    /\ req[r].pc = "publish" => Resolves(r)

RequestsInv ==
    /\ RequestsTypeOK
    /\ DrawsInv
    /\ \A r \in Req : ReadyFor(r)

EngineInv == ProviderInv /\ RequestsInv

-----------------------------------------------------------------------------
(* Moves of one request                                                    *)

(* Only r moves.                                                           *)
OthersStay(r) == \A s \in Req \ {r} : req'[s] = req[s]

(* Nothing has been resolved.                                              *)
LEMMA EmptyResolution == <<>> \in Resolved
  <1>1. <<>> \in [{} -> ResolutionRow]
    OBVIOUS
  <1> QED
    BY <1>1 DEF Resolved

(* r goes to step p and carries what it carried.                           *)
Moves(r, p) ==
    /\ req' \in [Req -> RequestRow]
    /\ OthersStay(r)
    /\ req'[r].pc = p /\ req'[r].m = req[r].m /\ req'[r].node = req[r].node
    /\ req'[r].accepted = req[r].accepted

(* Going on to the next program point moves the request and nothing it     *)
(* carries.                                                                *)
LEMMA GotoMoves ==
    ASSUME RequestsTypeOK, NEW r \in Req, NEW p \in RequestPc, Goto(r, p)
    PROVE  /\ Moves(r, p)
           /\ req'[r].commit = req[r].commit /\ req'[r].res = req[r].res
           /\ req'[r].status = req[r].status
  <1>1. req[r] \in RequestRow
    BY DEF RequestsTypeOK
  <1>2. req'[r] = [req[r] EXCEPT !.pc = p] /\ OthersStay(r)
    BY DEF Goto, OthersStay, RequestsTypeOK
  <1>3. /\ req'[r] \in RequestRow
        /\ req'[r].pc = p /\ req'[r].m = req[r].m /\ req'[r].accepted = req[r].accepted
        /\ req'[r].commit = req[r].commit /\ req'[r].res = req[r].res
        /\ req'[r].node = req[r].node /\ req'[r].status = req[r].status
    BY <1>1, <1>2 DEF RequestRow
  <1>4. req' \in [Req -> RequestRow]
    BY <1>2, <1>3 DEF Goto, RequestsTypeOK
  <1> QED
    BY <1>2, <1>3, <1>4 DEF Moves

(* An answer ends the request with its status and version.                 *)
LEMMA AnswerMoves ==
    ASSUME RequestsTypeOK, NEW r \in Req, NEW status \in RequestStatus,
           NEW v \in NoneOr(Version), Answer(r, status, v)
    PROVE  /\ Moves(r, "done")
           /\ req'[r].status = status /\ req'[r].version = v
  <1>1. req[r] \in RequestRow /\ "done" \in RequestPc
    BY DEF RequestsTypeOK, RequestPc
  <1>2. req'[r] = [req[r] EXCEPT !.pc = "done", !.status = status, !.version = v] /\ OthersStay(r)
    BY DEF Answer, OthersStay, RequestsTypeOK
  <1>3. /\ req'[r] \in RequestRow
        /\ req'[r].pc = "done" /\ req'[r].m = req[r].m /\ req'[r].accepted = req[r].accepted
        /\ req'[r].node = req[r].node /\ req'[r].status = status /\ req'[r].version = v
    BY <1>1, <1>2 DEF RequestRow
  <1>4. req' \in [Req -> RequestRow]
    BY <1>2, <1>3 DEF Answer, RequestsTypeOK
  <1> QED
    BY <1>2, <1>3, <1>4 DEF Moves

(* A failure ends the request with its status and no version.              *)
LEMMA FailMoves ==
    ASSUME RequestsTypeOK, NEW r \in Req, NEW status \in RequestStatus,
           Fail(r, status)
    PROVE  /\ Moves(r, "done")
           /\ req'[r].status = status /\ req'[r].version = None
  BY AnswerMoves DEF Fail, NoneOr

(* A step of r that stores some of what r has drawn and draws new versions *)
(* keeps the invariant if r itself is ready for what comes next.           *)
LEMMA RequestStep ==
    ASSUME RequestsInv, NEW r \in Req, OthersStay(r), RequestsTypeOK',
           NEW drawn, minted' = minted \cup drawn, drawn \cap minted = {},
           Rows' \subseteq Rows \cup Pending(r),
           Drawn(r)' \subseteq Drawn(r) \cup drawn,
           Pending(r)' \cap Rows' = {},
           ReadyFor(r)'
    PROVE  RequestsInv'
  <1>1. ASSUME NEW s \in Req \ {r}
        PROVE  Pending(s)' = Pending(s) /\ Drawn(s)' = Drawn(s) /\ ReadyFor(s)'
    <2>1. req'[s] = req[s]
      BY DEF OthersStay
    <2>2. Pending(s)' = Pending(s) /\ Drawn(s)' = Drawn(s)
      BY <2>1 DEF Pending, Drawn
    <2>3. ReadyFor(s)
      BY DEF RequestsInv
    <2>4. Prepared(s) => Prepared(s)'
      BY <2>1 DEF Prepared, Mutation
    <2>5. Resolves(s) => Resolves(s)'
      BY <2>1 DEF Resolves, InUnit, Mutation
    <2> QED
      BY <2>1, <2>2, <2>3, <2>4, <2>5 DEF ReadyFor, Mutation
  <1>2. /\ Rows \subseteq minted
        /\ \A s \in Req : Drawn(s) \subseteq minted /\ Pending(s) \cap Rows = {}
        /\ \A s, t \in Req : s # t => Drawn(s) \cap Drawn(t) = {}
    BY DEF RequestsInv, DrawsInv
  <1>3. \A s \in Req : Pending(s) \subseteq Drawn(s)
    BY DEF Drawn
  <1>4. Rows' \subseteq minted'
    BY <1>2, <1>3
  <1>5. \A s \in Req : Drawn(s)' \subseteq minted' /\ Pending(s)' \cap Rows' = {}
    <2>1. ASSUME NEW s \in Req \ {r}
          PROVE  Drawn(s)' \subseteq minted' /\ Pending(s)' \cap Rows' = {}
      <3>1. Pending(s) \cap Pending(r) = {}
        BY <1>2, <1>3
      <3> QED
        BY <1>1, <1>2, <3>1
    <2>2. Drawn(r)' \subseteq minted' /\ Pending(r)' \cap Rows' = {}
      BY <1>2
    <2> QED
      BY <2>1, <2>2
  <1>6. ASSUME NEW s \in Req, NEW t \in Req, s # t
        PROVE  Drawn(s)' \cap Drawn(t)' = {}
    <2>1. Drawn(s) \subseteq minted /\ Drawn(t) \subseteq minted
      BY <1>2
    <2>2. Drawn(s) \cap Drawn(t) = {}
      BY <1>2, <1>6
    <2>3. CASE s # r /\ t # r
      BY <1>1, <2>2, <2>3
    <2>4. CASE s = r
      BY <1>1, <1>6, <2>1, <2>2, <2>4
    <2>5. CASE t = r
      BY <1>1, <1>6, <2>1, <2>2, <2>5
    <2> QED
      BY <2>3, <2>4, <2>5
  <1>7. DrawsInv'
    BY <1>4, <1>5, <1>6 DEF DrawsInv
  <1>8. \A s \in Req : ReadyFor(s)'
    BY <1>1
  <1> QED
    BY <1>7, <1>8 DEF RequestsInv

-----------------------------------------------------------------------------
(* What the provider's operations do                                       *)

(* The unit keeps what it staged, and may be opened, or it expires.        *)
Calm(u) ==
    \/ /\ staged'[u] = staged[u] /\ unitHeads'[u] = unitHeads[u]
       /\ \/ unit'[u].state = unit[u].state
          \/ unit[u].state = "none" /\ unit'[u].state = "open"
    \/ Expires(u)

(* Nothing is stored.                                                      *)
Quiet == UNCHANGED entityVars /\ \A u \in Unit : Calm(u)

(* c is committed at once.                                                 *)
CommitsNow(c) ==
    /\ heads[c.key] = c.expected
    /\ CommitEntityInTransaction(c)
    /\ \A u \in Unit : Calm(u)

(* c is staged in an open unit.                                            *)
Stages(w, c, close) ==
    /\ unit[w.id].state \in {"none", "open"}
    /\ unit'[w.id].state = IF close THEN "closing" ELSE "open"
    /\ WorkUnitHeads(w, c.key) = c.expected
    /\ base'[w.id][c.key] = BaseHeads(w, c.key)
    /\ unitHeads'[w.id] = StagedHeads(w, c) /\ staged'[w.id] = StagedRows(w, c)
    /\ Unpublished
    /\ \A u \in Unit \ {w.id} : Calm(u)

(* A unit that is not finished publishes the heads hs and the rows rows.   *)
PublishesUnit(w, hs, rows) ==
    /\ unit[w.id].state \in {"none", "open", "closing"}
    /\ unit'[w.id].state = "committed"
    /\ heads' = [k \in Key |-> IF hs[k] # {} THEN hs[k] ELSE heads[k]]
    /\ published' = [k \in Key |-> IF hs[k] # {} THEN published[k] \cup rows[k]
                                                 ELSE published[k]]
    /\ \A x \in changes' \ changes :
          x.kind = DeriveChangeKind(heads[x.key], x.heads, rowState')
    /\ unitHeads'[w.id] = hs /\ staged'[w.id] = NoKeys
    /\ \A u \in Unit \ {w.id} : Calm(u)

(* c is staged in an open unit whose staging is published with it, since   *)
(* nothing it has mutated has drifted.                                     *)
StagesAndPublishes(w, c) ==
    /\ unit[w.id].state \in {"none", "open"}
    /\ WorkUnitHeads(w, c.key) = c.expected
    /\ \A k \in Key : StagedHeads(w, c)[k] # {} => heads[k] = StagedBase(w, c)[k]
    /\ PublishesUnit(w, StagedHeads(w, c), StagedRows(w, c))

(* A sealed unit is published with the resolutions res of its drift.       *)
PublishesResolved(w, res) ==
    /\ unit[w.id].state = "closing"
    /\ DOMAIN res = PublicationConflicts(unitHeads[w.id], base[w.id])
    /\ \A k \in DOMAIN res : /\ res[k].published = heads[k]
                             /\ res[k].staged = unitHeads[w.id][k]
    /\ PublishesUnit(w, ResolvedHeads(w, res), ResolvedRows(w, res))

(* Units other than the one a request works in.                            *)
LEMMA SweptUnits ==
    ASSUME TypeOK, NEW S, S \subseteq Lapsed, NEW u \in Unit,
           unit'[u] = UnitsWithout(S)[u], staged'[u] = StagedWithout(S)[u],
           unitHeads'[u] = UnitHeadsWithout(S)[u],
           captured'[u] = captured[u], base'[u] = base[u]
    PROVE  Calm(u)
  <1>1. Keeps(u) \/ Expires(u)
    BY OtherUnits
  <1>2. unit[u] \in UnitRow
    BY DEF TypeOK, UnitTypeOK
  <1> QED
    BY <1>1, <1>2 DEF Keeps, Calm, UnitRow

(* The sweep publishes and stages nothing.                                 *)
LEMMA SweepIsQuiet ==
    ASSUME TypeOK, SweepOnly
    PROVE  Quiet
  <1>1. \A u \in Unit : Calm(u)
    BY SweptUnits DEF SweepOnly, ExpireWorkUnits, captureVars
  <1> QED
    BY <1>1 DEF Quiet, SweepOnly

(* Nor does a step that leaves rows, heads and units alone.                *)
LEMMA StutterIsQuiet ==
    ASSUME UNCHANGED <<entityVars, unit, staged, unitHeads>>
    PROVE  Quiet
  BY DEF Quiet, Calm

(* Nor does the passing of a unit's time.                                  *)
LEMMA UnitFallsDueIsQuiet ==
    ASSUME TypeOK, NEW u \in Unit, UnitFallsDue(u)
    PROVE  Quiet
  <1>1. \A t \in Unit : unit'[t].state = unit[t].state
    BY DEF UnitFallsDue, TypeOK, UnitTypeOK, UnitRow
  <1> QED
    BY <1>1 DEF Quiet, Calm, UnitFallsDue

(* Nor does a read in a unit, which may open it.                           *)
LEMMA ReadInWorkUnitIsQuiet ==
    ASSUME TypeOK, NEW w \in WorkUnit, NEW K \in SUBSET Key, NEW late,
           ReadInWorkUnit(w, K, late)
    PROVE  Quiet
  <1>1. CASE SweepOnly
    BY <1>1, SweepIsQuiet
  <1>2. CASE /\ ReadInWorkUnitOutcome(w, late) = "open"
             /\ CaptureWorkUnitEntities(w, K)
             /\ unit' = EnsuredUnits(w, Lapsed)
             /\ staged' = StagedWithout(Lapsed)
             /\ unitHeads' = UnitHeadsWithout(Lapsed)
             /\ UNCHANGED <<entityVars, closeMarker, idempotency>>
    <2>1. EnsuredState(w, Lapsed) = "open"
      BY <1>2 DEF ReadInWorkUnitOutcome
    <2>2. /\ w.id \in Unit
          /\ unit[w.id].state \in {"none", "open"}
          /\ unit'[w.id].state = "open"
          /\ staged'[w.id] = staged[w.id] /\ unitHeads'[w.id] = unitHeads[w.id]
          /\ \A u \in Unit \ {w.id} : unit'[u] = UnitsWithout(Lapsed)[u]
      BY <1>2, <2>1, EnsuredUnit
    <2>3. \A u \in Unit \ {w.id} : captured'[u] = captured[u] /\ base'[u] = base[u]
      BY <1>2 DEF CaptureWorkUnitEntities, TypeOK, CaptureTypeOK
    <2>4. \A u \in Unit \ {w.id} : Calm(u)
      BY <1>2, <2>2, <2>3, SweptUnits
    <2>5. Calm(w.id)
      BY <2>2 DEF Calm
    <2> QED
      BY <1>2, <2>4, <2>5 DEF Quiet
  <1> QED
    BY <1>1, <1>2 DEF ReadInWorkUnit

(* Nor does the lookup of a record in a unit.                              *)
LEMMA ReadIdempotencyInWorkUnitIsQuiet ==
    ASSUME TypeOK, NEW w \in WorkUnit, NEW seesDue, NEW late,
           ReadIdempotencyInWorkUnit(w, seesDue, late)
    PROVE  Quiet
  <1> DEFINE S == ExpiredHere(w, seesDue)
  <1>1. S \subseteq Lapsed /\ w.id \in Unit
    BY DEF ExpiredHere, WorkUnit
  <1>2. CASE UNCHANGED providerVars
    BY <1>2, StutterIsQuiet DEF providerVars, unitVars
  <1>3. CASE ExpireWorkUnits(S) /\ UNCHANGED <<entityVars, captureVars, idempotency>>
    <2> HIDE DEF S
    <2>1. \A u \in Unit : Calm(u)
      BY <1>1, <1>3, SweptUnits DEF ExpireWorkUnits, captureVars
    <2> QED
      BY <1>3, <2>1 DEF Quiet
  <1>4. CASE /\ unit' = EnsuredUnits(w, {})
             /\ UNCHANGED <<entityVars, captureVars, unitHeads, staged>>
    <2>1. UnitsWithout({}) = unit
      BY DEF UnitsWithout, TypeOK, UnitTypeOK
    <2>2. \A u \in Unit \ {w.id} : unit'[u] = unit[u]
      BY <1>1, <1>4, <2>1 DEF EnsuredUnits
    <2>3. \/ unit'[w.id].state = unit[w.id].state
          \/ unit[w.id].state = "none" /\ unit'[w.id].state = "open"
      BY <1>1, <1>4, <2>1 DEF EnsuredUnits, TypeOK, UnitTypeOK
    <2> QED
      BY <1>4, <2>2, <2>3 DEF Quiet, Calm
  <1> QED
    BY <1>2, <1>3, <1>4 DEF ReadIdempotencyInWorkUnit

(* commit_entity.                                                          *)
LEMMA CommitEntityDoes ==
    ASSUME TypeOK, NEW c \in EntityCommit, NEW late, CommitEntity(c, late)
    PROVE  IF CommitOutcome(c, late) = "Committed" THEN CommitsNow(c) ELSE Quiet
  <1>1. CASE SweepOnly /\ CommitOutcome(c, late) # "Committed"
    BY <1>1, SweepIsQuiet
  <1>2. CASE /\ CommitOutcome(c, late) = "Committed"
             /\ CommitEntityInTransaction(c)
             /\ ExpireWorkUnits(Lapsed)
             /\ UNCHANGED <<captureVars, idempotency>>
    <2>1. \A u \in Unit : Calm(u)
      BY <1>2, SweptUnits DEF ExpireWorkUnits, captureVars
    <2> QED
      BY <1>2, <2>1 DEF CommitsNow, CommitOutcome
  <1> QED
    BY <1>1, <1>2 DEF CommitEntity

(* commit_entity_idempotent commits now, or changes nothing.               *)
LEMMA CommitEntityIdempotentDoes ==
    ASSUME NEW c \in EntityCommit, NEW i, NEW q, NEW result, NEW late,
           CommitEntityIdempotent(c, i, q, result, late)
    PROVE  IF IdempotentCommitOutcome(c, i, q, late) = "Committed"
           THEN CommitsNow(c) ELSE UNCHANGED providerVars
  <1>1. CASE /\ IdempotentCommitOutcome(c, i, q, late) = "Committed"
             /\ CommitEntityInTransaction(c)
             /\ UNCHANGED <<captureVars, unit, unitHeads, staged>>
    <2>1. CommitOutcome(c, late) = "Committed"
      BY <1>1 DEF IdempotentCommitOutcome
    <2> QED
      BY <1>1, <2>1 DEF CommitsNow, CommitOutcome, Calm
  <1> QED
    BY <1>1 DEF CommitEntityIdempotent

(* finish_work_unit_publication of a unit that is open or sealed.          *)
LEMMA PublicationDoes ==
    ASSUME TypeOK, NEW w \in WorkUnit, NEW p \in PublicationRecord,
           EnsuredState(w, Lapsed) \in {"open", "closing"},
           FinishWorkUnitPublication(w, p),
           \/ UNCHANGED captureVars
           \/ \E K \in SUBSET Key : CaptureWorkUnitEntities(w, K)
    PROVE  PublishesUnit(w, p.heads, p.rows)
  <1> DEFINE M == {k \in Key : p.heads[k] # {}}
  <1>0. /\ w.id \in Unit
        /\ unit[w.id].state \in {"none", "open", "closing"}
        /\ \A u \in Unit \ {w.id} : EnsuredUnits(w, Lapsed)[u] = UnitsWithout(Lapsed)[u]
    BY EnsuredUnit
  <1>1. PICK pos \in PublicationOrders(M, p.marked) :
          /\ heads' = [k \in Key |-> IF k \in M THEN p.heads[k] ELSE heads[k]]
          /\ changes' = changes \cup
               {[cursor |-> frontier + pos[k], key |-> k,
                 kind |-> DeriveChangeKind(heads[k], p.heads[k], p.states),
                 heads |-> p.heads[k], by |-> w.id] : k \in M}
          /\ published' = [k \in Key |-> IF k \in M
                                         THEN published[k] \cup p.rows[k]
                                         ELSE published[k]]
          /\ rowState' = p.states
          /\ unit' = [EnsuredUnits(w, Lapsed) EXCEPT ![w.id].state = "committed"]
          /\ staged' = [StagedWithout(Lapsed) EXCEPT ![w.id] = NoKeys]
          /\ unitHeads' = [UnitHeadsWithout(Lapsed) EXCEPT ![w.id] = p.heads]
    BY DEF FinishWorkUnitPublication
  <1>2. \A x \in changes' \ changes :
          x.kind = DeriveChangeKind(heads[x.key], x.heads, rowState')
    BY <1>1
  <1>3. /\ heads' = [k \in Key |-> IF p.heads[k] # {} THEN p.heads[k] ELSE heads[k]]
        /\ published' = [k \in Key |-> IF p.heads[k] # {}
                                       THEN published[k] \cup p.rows[k]
                                       ELSE published[k]]
    BY <1>1
  <1>4. /\ EnsuredUnits(w, Lapsed) \in [Unit -> UnitRow]
        /\ StagedWithout(Lapsed) \in [Unit -> [Key -> SUBSET Version]]
        /\ UnitHeadsWithout(Lapsed) \in [Unit -> [Key -> SUBSET Version]]
    BY EnsuredUnitsType, WithoutTypes
  <1>5. /\ unit'[w.id].state = "committed"
        /\ unitHeads'[w.id] = p.heads /\ staged'[w.id] = NoKeys
    BY <1>0, <1>1, <1>4 DEF UnitRow
  <1>6. ASSUME NEW u \in Unit \ {w.id}
        PROVE  Calm(u)
    <2>1. captured'[u] = captured[u] /\ base'[u] = base[u]
      BY DEF captureVars, CaptureWorkUnitEntities, TypeOK, CaptureTypeOK
    <2>2. /\ unit'[u] = UnitsWithout(Lapsed)[u]
          /\ staged'[u] = StagedWithout(Lapsed)[u]
          /\ unitHeads'[u] = UnitHeadsWithout(Lapsed)[u]
      BY <1>0, <1>1, <1>4
    <2> QED
      BY <2>1, <2>2, SweptUnits
  <1> QED
    BY <1>0, <1>2, <1>3, <1>5, <1>6 DEF PublishesUnit

(* commit_entity_in_work_unit: a sealed unit never finds its drift gone,   *)
(* so a commit publishes only what it staged in an open unit.              *)
LEMMA CommitInWorkUnitDoes ==
    ASSUME ProviderInv, NEW w \in WorkUnit, NEW c \in EntityCommit,
           NEW close \in BOOLEAN, NEW rec \in UnitRecordsOf(c), NEW late \in BOOLEAN,
           CommitEntityInWorkUnit(w, c, close, rec, late)
    PROVE  LET out == CommitInWorkUnitOutcome(w, c, close, rec, late)
               opened == EnsuredState(w, Lapsed) = "open"
           IN  \/ opened /\ out = "Staged" /\ Stages(w, c, close)
               \/ opened /\ out = "PublicationConflict" /\ Stages(w, c, close)
               \/ opened /\ out = "Published" /\ StagesAndPublishes(w, c)
               \/ /\ out \notin {"Staged", "Published"}
                  /\ ~(opened /\ out = "PublicationConflict")
                  /\ SweepOnly /\ Quiet
  <1> DEFINE out == CommitInWorkUnitOutcome(w, c, close, rec, late)
             opened == EnsuredState(w, Lapsed) = "open"
  <1>0. TypeOK /\ w.id \in Unit /\ c.key \in Key
    BY DEF ProviderInv, WorkUnit, EntityCommit
  <1>1. CASE /\ out \notin {"Staged", "Published"}
             /\ ~(opened /\ out = "PublicationConflict")
             /\ SweepOnly
    BY <1>0, <1>1, SweepIsQuiet
  <1>2. CASE /\ opened
             /\ out \in {"Staged", "PublicationConflict"}
             /\ StageInWorkUnit(w, c, close)
             /\ unit' = [EnsuredUnits(w, Lapsed) EXCEPT
                           ![w.id].state = IF close THEN "closing" ELSE "open"]
             /\ unitHeads' = [UnitHeadsWithout(Lapsed) EXCEPT ![w.id] = StagedHeads(w, c)]
             /\ staged' = [StagedWithout(Lapsed) EXCEPT ![w.id] = StagedRows(w, c)]
             /\ UNCHANGED <<published, publishedCursor, heads, changes, frontier>>
    <2>1. WorkUnitHeads(w, c.key) = c.expected
      BY <1>2 DEF CommitInWorkUnitOutcome
    <2>2. /\ unit[w.id].state \in {"none", "open"}
          /\ \A u \in Unit \ {w.id} : EnsuredUnits(w, Lapsed)[u] = UnitsWithout(Lapsed)[u]
      BY <1>0, <1>2, EnsuredUnit
    <2>3. /\ EnsuredUnits(w, Lapsed) \in [Unit -> UnitRow]
          /\ StagedWithout(Lapsed) \in [Unit -> [Key -> SUBSET Version]]
          /\ UnitHeadsWithout(Lapsed) \in [Unit -> [Key -> SUBSET Version]]
      BY <1>0, EnsuredUnitsType, WithoutTypes
    <2>4. /\ unit'[w.id].state = IF close THEN "closing" ELSE "open"
          /\ unitHeads'[w.id] = StagedHeads(w, c) /\ staged'[w.id] = StagedRows(w, c)
      BY <1>0, <1>2, <2>3 DEF UnitRow
    <2>5. CaptureWorkUnitEntities(w, {c.key})
      BY <1>2 DEF StageInWorkUnit
    <2>6. /\ base'[w.id][c.key] = BaseHeads(w, c.key)
          /\ \A u \in Unit \ {w.id} : captured'[u] = captured[u] /\ base'[u] = base[u]
      BY <1>0, <2>5 DEF CaptureWorkUnitEntities, TypeOK, CaptureTypeOK
    <2>7. ASSUME NEW u \in Unit \ {w.id}
          PROVE  Calm(u)
      <3>1. /\ unit'[u] = UnitsWithout(Lapsed)[u]
            /\ staged'[u] = StagedWithout(Lapsed)[u]
            /\ unitHeads'[u] = UnitHeadsWithout(Lapsed)[u]
        BY <1>2, <2>2, <2>3
      <3> QED
        BY <1>0, <2>6, <3>1, SweptUnits
    <2>8. Stages(w, c, close)
      BY <1>2, <2>1, <2>2, <2>4, <2>6, <2>7 DEF Stages, Unpublished
    <2> QED
      BY <1>2, <2>8
  <1>3. CASE opened /\ out = "Published"
    <2>1. /\ StageInWorkUnit(w, c, close)
          /\ FinishWorkUnitPublication(w,
               Publication(StagedHeads(w, c), StagedRows(w, c),
                 StagedMarks(w, c, close), StagedStates(c),
                 StagedRecords(w, rec), PublishedRecords(rec)))
      BY <1>3 DEF CommitEntityInWorkUnit
    <2> DEFINE p == Publication(StagedHeads(w, c), StagedRows(w, c),
                      StagedMarks(w, c, close), StagedStates(c),
                      StagedRecords(w, rec), PublishedRecords(rec))
    <2>2. p \in PublicationRecord
      BY <1>0, StagedTypes, StagedRecordsType DEF PublicationRecord, Publication
    <2>3. \E K \in SUBSET Key : CaptureWorkUnitEntities(w, K)
      <3>1. CaptureWorkUnitEntities(w, {c.key}) /\ {c.key} \in SUBSET Key
        BY <1>0, <2>1 DEF StageInWorkUnit
      <3> QED
        BY <3>1
    <2>4. PublishesUnit(w, p.heads, p.rows)
      <3> HIDE DEF p
      <3> QED
        BY <1>0, <1>3, <2>1, <2>2, <2>3, PublicationDoes DEF p
    <2>5. p.heads = StagedHeads(w, c) /\ p.rows = StagedRows(w, c)
      BY DEF Publication
    <2>6. /\ WorkUnitHeads(w, c.key) = c.expected
          /\ PublicationConflicts(StagedHeads(w, c), StagedBase(w, c)) = {}
      BY <1>3 DEF CommitInWorkUnitOutcome
    <2>7. \A k \in Key : StagedHeads(w, c)[k] # {} => heads[k] = StagedBase(w, c)[k]
      BY <2>6 DEF PublicationConflicts
    <2>8. unit[w.id].state \in {"none", "open"}
      BY <1>0, <1>3, EnsuredUnit
    <2> QED
      BY <1>3, <2>4, <2>5, <2>6, <2>7, <2>8 DEF StagesAndPublishes
  <1>4. CASE ~opened /\ out = "Published"
    <2>1. EnsuredState(w, Lapsed) \in
            {"none", "open", "closing", "committed", "expired", "mismatch"}
      BY <1>0 DEF EnsuredState, TypeOK, UnitTypeOK, UnitRow, WorkUnit
    <2>2. /\ EnsuredState(w, Lapsed) \in {"none", "closing"}
          /\ EnsuredState(w, Lapsed) = "closing" =>
                PublicationConflicts(unitHeads[w.id], base[w.id]) = {}
      BY <1>4, <2>1 DEF CommitInWorkUnitOutcome
    <2>3. EnsuredState(w, Lapsed) = "closing" /\ unit[w.id].state = "closing"
      BY <2>2 DEF EnsuredState
    <2> QED
      BY <1>0, <2>2, <2>3 DEF ProviderInv, UnitsInv, SealedUnitHasDrift
  <1> QED
    BY <1>1, <1>2, <1>3, <1>4 DEF CommitEntityInWorkUnit

(* publish_work_unit.                                                      *)
LEMMA PublishWorkUnitDoes ==
    ASSUME ProviderInv, NEW w \in WorkUnit, NEW res,
           ResolvedPublication(w, res) \in PublicationRecord,
           PublishWorkUnit(w, res)
    PROVE  \/ PublishOutcome(w, res) = "Published" /\ PublishesResolved(w, res)
           \/ PublishOutcome(w, res) # "Published" /\ SweepOnly /\ Quiet
  <1>0. TypeOK /\ w.id \in Unit
    BY DEF ProviderInv, WorkUnit
  <1>1. CASE PublishOutcome(w, res) # "Published" /\ SweepOnly
    BY <1>0, <1>1, SweepIsQuiet
  <1>2. CASE PublishOutcome(w, res) = "Published"
    <2>1. /\ UNCHANGED captureVars
          /\ FinishWorkUnitPublication(w, ResolvedPublication(w, res))
      BY <1>2 DEF PublishWorkUnit, ResolvedPublication, ResolvedHeads,
                  ResolvedRows, ResolvedStates
    <2>2. EnsuredState(w, Lapsed) \in
            {"none", "open", "closing", "committed", "expired", "mismatch"}
      BY <1>0 DEF EnsuredState, TypeOK, UnitTypeOK, UnitRow, WorkUnit
    <2>3. /\ EnsuredState(w, Lapsed) \in {"none", "closing"}
          /\ DOMAIN res = PublicationConflicts(unitHeads[w.id], base[w.id])
          /\ \A k \in DOMAIN res : /\ res[k].published = heads[k]
                                    /\ res[k].staged = unitHeads[w.id][k]
      BY <1>2, <2>2 DEF PublishOutcome
    <2>4. EnsuredState(w, Lapsed) = "closing" /\ unit[w.id].state = "closing"
      BY <2>3 DEF EnsuredState
    <2>5. PublishesUnit(w, ResolvedPublication(w, res).heads,
                           ResolvedPublication(w, res).rows)
      BY <1>0, <2>1, <2>4, PublicationDoes
    <2>6. /\ ResolvedPublication(w, res).heads = ResolvedHeads(w, res)
          /\ ResolvedPublication(w, res).rows = ResolvedRows(w, res)
      BY DEF ResolvedPublication, Publication
    <2> QED
      BY <1>2, <2>3, <2>4, <2>5, <2>6 DEF PublishesResolved
  <1> QED
    BY <1>1, <1>2 DEF PublishWorkUnit

-----------------------------------------------------------------------------
(* The rows that these operations leave                                    *)

(* Rows are those that some table holds.                                   *)
LEMMA RowsWithin ==
    ASSUME NEW X, \A k \in Key : published'[k] \subseteq X,
           \A u \in Unit, k \in Key : staged'[u][k] \subseteq X
    PROVE  Rows' \subseteq X
  <1>1. \A p \in Unit \X Key : p[1] \in Unit /\ p[2] \in Key
    OBVIOUS
  <1> QED
    BY <1>1 DEF Rows

(* A calm unit holds no row it did not hold.                               *)
LEMMA CalmRows ==
    ASSUME NEW u \in Unit, NEW k \in Key, Calm(u)
    PROVE  staged'[u][k] \subseteq Rows
  <1>1. staged[u][k] \subseteq Rows
    BY HasRow
  <1> QED
    BY <1>1 DEF Calm, Expires, NoKeys

(* A step that stores nothing inserts no row.                              *)
LEMMA QuietRows ==
    ASSUME Quiet
    PROVE  Rows' \subseteq Rows
  <1>1. \A k \in Key : published'[k] \subseteq Rows
    BY HasRow DEF Quiet, entityVars
  <1>2. \A u \in Unit, k \in Key : staged'[u][k] \subseteq Rows
    BY CalmRows DEF Quiet
  <1> QED
    BY <1>1, <1>2, RowsWithin

(* A commit adds its new versions, whether published or staged.            *)
LEMMA CommittedRows ==
    ASSUME TypeOK, NEW c \in EntityCommit, CommitsNow(c)
    PROVE  Rows' \subseteq Rows \cup c.new
  <1>1. c.key \in Key /\ published \in [Key -> SUBSET Version]
    BY DEF EntityCommit, TypeOK, EntityTypeOK
  <1>2. \A k \in Key : published'[k] \subseteq published[k] \cup c.new
    BY <1>1 DEF CommitsNow, CommitEntityInTransaction
  <1>3. \A k \in Key : published'[k] \subseteq Rows \cup c.new
    BY <1>2, HasRow
  <1>4. \A u \in Unit, k \in Key : staged'[u][k] \subseteq Rows \cup c.new
    BY CalmRows DEF CommitsNow
  <1> QED
    BY <1>3, <1>4, RowsWithin

(* Staging inserts the new versions of the commit only.                    *)
LEMMA StagedRowsGrow ==
    ASSUME TypeOK, NEW w \in WorkUnit, NEW c \in EntityCommit, NEW k \in Key
    PROVE  StagedRows(w, c)[k] \subseteq Rows \cup c.new
  <1>1. w.id \in Unit /\ staged[w.id] \in [Key -> SUBSET Version] /\ c.key \in Key
    BY DEF WorkUnit, EntityCommit, TypeOK, UnitTypeOK
  <1>2. StagedRows(w, c)[k] \subseteq staged[w.id][k] \cup c.new
    BY <1>1 DEF StagedRows
  <1> QED
    BY <1>1, <1>2, HasRow

(* So does a mutation of a unit that stays open or is sealed.              *)
LEMMA StagingRows ==
    ASSUME TypeOK, NEW w \in WorkUnit, NEW c \in EntityCommit, NEW close,
           Stages(w, c, close)
    PROVE  Rows' \subseteq Rows \cup c.new
  <1>1. \A k \in Key : published'[k] \subseteq Rows
    BY HasRow DEF Stages, Unpublished
  <1>2. \A u \in Unit \ {w.id}, k \in Key : staged'[u][k] \subseteq Rows
    BY CalmRows DEF Stages
  <1>3. \A k \in Key : staged'[w.id][k] \subseteq Rows \cup c.new
    BY StagedRowsGrow DEF Stages
  <1>4. \A u \in Unit, k \in Key : staged'[u][k] \subseteq Rows \cup c.new
    BY <1>2, <1>3
  <1> QED
    BY <1>1, <1>4, RowsWithin

(* A publication moves the rows it is given.                               *)
LEMMA PublishedRows ==
    ASSUME TypeOK, NEW w, NEW hs, NEW rows, NEW X, PublishesUnit(w, hs, rows),
           \A k \in Key : rows[k] \subseteq Rows \cup X
    PROVE  Rows' \subseteq Rows \cup X
  <1>1. \A k \in Key : published'[k] \subseteq published[k] \cup rows[k]
    BY DEF PublishesUnit
  <1>2. \A k \in Key : published'[k] \subseteq Rows \cup X
    BY <1>1, HasRow
  <1>3. \A u \in Unit \ {w.id}, k \in Key : staged'[u][k] \subseteq Rows
    BY CalmRows DEF PublishesUnit
  <1>4. \A k \in Key : staged'[w.id][k] = {}
    BY DEF PublishesUnit, NoKeys
  <1>5. \A u \in Unit, k \in Key : staged'[u][k] \subseteq Rows \cup X
    BY <1>3, <1>4
  <1> QED
    BY <1>2, <1>5, RowsWithin

(* So does the one that publishes its unit.                                *)
LEMMA CommitAndPublishRows ==
    ASSUME TypeOK, NEW w \in WorkUnit, NEW c \in EntityCommit,
           StagesAndPublishes(w, c)
    PROVE  Rows' \subseteq Rows \cup c.new
  BY StagedRowsGrow, PublishedRows DEF StagesAndPublishes

(* A resolved publication inserts the versions of its resolutions only.    *)
LEMMA ResolvedPublicationRows ==
    ASSUME TypeOK, NEW w \in WorkUnit, NEW res, PublishesResolved(w, res)
    PROVE  Rows' \subseteq Rows \cup UNION {res[k].new : k \in DOMAIN res}
  <1> DEFINE X == UNION {res[k].new : k \in DOMAIN res}
  <1>1. ASSUME NEW k \in Key
        PROVE  ResolvedRows(w, res)[k] \subseteq Rows \cup X
    <2>1. staged[w.id][k] \subseteq Rows
      BY HasRow DEF WorkUnit
    <2> QED
      BY <2>1 DEF ResolvedRows
  <1> HIDE DEF X
  <1>2. PublishesUnit(w, ResolvedHeads(w, res), ResolvedRows(w, res))
    BY DEF PublishesResolved
  <1>3. Rows' \subseteq Rows \cup X
    BY <1>1, <1>2, PublishedRows
  <1> QED
    BY <1>3 DEF X

-----------------------------------------------------------------------------
(* Drawing new versions                                                    *)

(* What versions incorporate are versions.                                 *)
LEMMA IncorporatesType ==
    ASSUME RequestsTypeOK, NEW S \in SUBSET Version
    PROVE  Incorporates(S) \in SUBSET Version
  BY DEF RequestsTypeOK, Incorporates

(* Distinct new versions are drawn, and incorporate what they replace; a   *)
(* version drawn earlier keeps what it incorporates.                       *)
LEMMA Drawing ==
    ASSUME RequestsTypeOK, NEW names, NEW S, Draw(names, S),
           \A x \in DOMAIN names : S[x[1]] \in SUBSET Version
    PROVE  LET drawn == {names[x] : x \in DOMAIN names}
           IN  /\ drawn \in SUBSET Version /\ drawn \cap minted = {}
               /\ minted' = minted \cup drawn
               /\ minted' \in SUBSET Version /\ IsFiniteSet(minted')
               /\ derives' \in [Version -> SUBSET Version]
               /\ \A v \in Version \ drawn : derives'[v] = derives[v]
               /\ \A x \in DOMAIN names :
                     derives'[names[x]] = {names[x]} \cup Incorporates(S[x[1]])
               /\ \A x, y \in DOMAIN names : x # y => names[x] # names[y]
  <1> DEFINE drawn == {names[x] : x \in DOMAIN names}
             origin(v) == CHOOSE x \in DOMAIN names : names[x] = v
  <1>1. /\ drawn \in NewVersions(minted)
        /\ \A x, y \in DOMAIN names : x # y => names[x] # names[y]
        /\ minted' = minted \cup drawn
        /\ derives' = [v \in Version |->
                          IF v \in drawn
                          THEN {v} \cup Incorporates(S[origin(v)[1]])
                          ELSE derives[v]]
    BY DEF Draw
  <1>2. minted \in SUBSET Version /\ IsFiniteSet(minted)
    BY DEF RequestsTypeOK
  <1>3. drawn \subseteq Version \ minted /\ IsFiniteSet(drawn)
    <2> HIDE DEF drawn
    <2> QED
      BY <1>1, <1>2, NewVersionsAreNew
  <1>4. IsFiniteSet(minted')
    BY <1>1, <1>2, <1>3, FS_Union
  <1>5. \A x \in DOMAIN names : names[x] \in drawn /\ origin(names[x]) = x
    BY <1>1
  <1>6. \A v \in drawn : origin(v) \in DOMAIN names
    OBVIOUS
  <1>7. \A v \in drawn : {v} \cup Incorporates(S[origin(v)[1]]) \in SUBSET Version
    <2> SUFFICES ASSUME NEW v \in drawn
                 PROVE  {v} \cup Incorporates(S[origin(v)[1]]) \in SUBSET Version
      OBVIOUS
    <2>1. S[origin(v)[1]] \in SUBSET Version
      BY <1>6
    <2> HIDE DEF origin
    <2> QED
      BY <1>3, <2>1, IncorporatesType
  <1>8. derives \in [Version -> SUBSET Version]
    BY DEF RequestsTypeOK
  <1>9. ASSUME NEW x \in DOMAIN names
        PROVE  derives'[names[x]] = {names[x]} \cup Incorporates(S[x[1]])
    <2>1. names[x] \in Version /\ names[x] \in drawn /\ origin(names[x]) = x
      BY <1>3, <1>5
    <2> HIDE DEF origin, drawn
    <2> QED
      BY <1>1, <2>1
  <1> HIDE DEF origin
  <1>10. /\ derives' \in [Version -> SUBSET Version]
         /\ \A v \in Version \ drawn : derives'[v] = derives[v]
    <2> HIDE DEF drawn
    <2> QED
      BY <1>1, <1>7, <1>8
  <1> QED
    BY <1>1, <1>2, <1>3, <1>4, <1>9, <1>10

(* The versions new are drawn.                                             *)
Draws(new) ==
    /\ new \in SUBSET Version /\ new \cap minted = {}
    /\ minted' = minted \cup new
    /\ minted' \in SUBSET Version /\ IsFiniteSet(minted')
    /\ derives' \in [Version -> SUBSET Version]
    /\ \A v \in Version \ new : derives'[v] = derives[v]
    /\ \A v \in new : v \in derives'[v]

(* A step that draws no version draws the empty set.                       *)
LEMMA NoDrawDrawsNone ==
    ASSUME RequestsTypeOK, UNCHANGED <<minted, derives>>
    PROVE  Draws({})
  BY DEF RequestsTypeOK, Draws

-----------------------------------------------------------------------------
(* Each step of a request keeps the invariant of the requests              *)

(* r goes to a step for which it needs nothing prepared.                   *)
LEMMA Settles ==
    ASSUME RequestsInv, NEW r \in Req, req[r].pc # "idle",
           NEW p \in RequestPc \ {"idle", "commit", "publish"},
           p = "idempotency" => Mutation(r).id # None,
           Moves(r, p), UNCHANGED <<minted, derives>>,
           conflictPolicy' \in [Unit -> [Key -> NoneOr(Plan)]],
           Rows' \subseteq Rows \cup Pending(r)
    PROVE  RequestsInv'
  <1>0. RequestsTypeOK
    BY DEF RequestsInv
  <1>1. \A s \in Req : req'[s].pc # "idle" => Mutation(s)' \in Menu
    BY <1>0 DEF RequestsTypeOK, Moves, OthersStay, Mutation
  <1>2. RequestsTypeOK'
    BY <1>0, <1>1 DEF RequestsTypeOK, Moves
  <1>3. Pending(r)' = {} /\ Drawn(r)' \subseteq Drawn(r)
    BY DEF Pending, Drawn, Moves
  <1>4. ReadyFor(r)'
    BY DEF ReadyFor, Moves, Mutation
  <1>5. OthersStay(r)
    BY DEF Moves
  <1> QED
    BY <1>2, <1>3, <1>4, <1>5, RequestStep

(* What an accepted request carries to its commit: hs are the heads it has *)
(* read, merged those its new version merges.                              *)
Prepares(r, hs, merged) ==
    LET c == req'[r].commit
        bases == req[r].bases
    IN  /\ req' \in [Req -> RequestRow] /\ OthersStay(r)
        /\ req'[r].pc = "commit" /\ req'[r].m = req[r].m /\ req'[r].node = req[r].node
        /\ req'[r].status = req[r].status
        /\ Draws(c.new)
        /\ \A v \in c.new : derives'[v] = {v} \cup Incorporates(bases \cup merged)
        /\ c \in EntityCommit /\ c.key = Mutation(r).key /\ c.expected = hs
        /\ req'[r].accepted \in c.new
        /\ c.heads = ((hs \ bases) \ merged) \cup c.new
        /\ c.deletes => hs # {}
        /\ c.kind = MutationChangeKind(hs, c.heads, c.deletes)
        /\ Mutation(r).plan.strategy = "reject" => c.heads = {req'[r].accepted}

(* prepare_commit refuses, or prepares a commit over the heads it was      *)
(* given.                                                                  *)
LEMMA PrepareCommitDoes ==
    ASSUME RequestsTypeOK, NEW r \in Req, Mutation(r) \in Menu,
           NEW hs \in SUBSET Version, NEW vs, PrepareCommit(r, hs, vs)
    PROVE  \/ /\ Fail(r, Refusal(Mutation(r), req[r].bases, hs, vs))
              /\ Refusal(Mutation(r), req[r].bases, hs, vs) \in Refusals
              /\ NoDraw
           \/ \E merged \in SUBSET hs : Prepares(r, hs, merged)
  <1> DEFINE m == Mutation(r)
             bases == req[r].bases
             merged == MergedHeads(m, bases, hs)
             values == {<<m.key, m.rest>>} \cup {<<m.key, rest[v]>> : v \in merged}
             kept == (hs \ bases) \ merged
             refusal == Refusal(m, bases, hs, vs)
  <1>1. CASE refusal # "none" /\ Fail(r, refusal) /\ NoDraw
    BY <1>1 DEF Refusal, Refusals
  <1>2. CASE /\ refusal = "none"
             /\ \E names \in [values -> Version \ minted] :
                LET new == {names[x] : x \in values}
                IN  /\ Draw(names, [k \in {m.key} |-> bases \cup merged])
                    /\ req' = [req EXCEPT
                         ![r].pc = "commit",
                         ![r].accepted = names[<<m.key, m.rest>>],
                         ![r].commit =
                           [key |-> m.key, expected |-> hs, new |-> new,
                            deletes |-> m.op = "delete",
                            heads |-> kept \cup new,
                            kind |-> MutationChangeKind(hs, kept \cup new,
                                                        m.op = "delete")]]
    <2>1. PICK names \in [values -> Version \ minted] :
             /\ Draw(names, [k \in {m.key} |-> bases \cup merged])
             /\ req' = [req EXCEPT
                         ![r].pc = "commit",
                         ![r].accepted = names[<<m.key, m.rest>>],
                         ![r].commit =
                           [key |-> m.key, expected |-> hs,
                            new |-> {names[x] : x \in values},
                            deletes |-> m.op = "delete",
                            heads |-> kept \cup {names[x] : x \in values},
                            kind |-> MutationChangeKind(hs,
                                       kept \cup {names[x] : x \in values},
                                       m.op = "delete")]]
      BY <1>2
    <2> DEFINE new == {names[x] : x \in values}
               S == [k \in {m.key} |-> bases \cup merged]
               c == [key |-> m.key, expected |-> hs, new |-> new,
                     deletes |-> m.op = "delete", heads |-> kept \cup new,
                     kind |-> MutationChangeKind(hs, kept \cup new, m.op = "delete")]
               mine == <<m.key, m.rest>>
    <2>2. /\ req[r] \in RequestRow /\ bases \in SUBSET Version
          /\ merged \in SUBSET hs /\ m.key \in Key
      BY MenuIsTyped DEF RequestsTypeOK, RequestRow, MergedHeads, Active
    <2>3. \A x \in values : x[1] = m.key
      OBVIOUS
    <2>4. DOMAIN names = values /\ mine \in values
      OBVIOUS
    <2>5. \A x \in DOMAIN names : S[x[1]] = bases \cup merged
      BY <2>3, <2>4
    <2> HIDE DEF values, S, merged
    <2>6. /\ new \in SUBSET Version /\ new \cap minted = {}
          /\ minted' = minted \cup new
          /\ minted' \in SUBSET Version /\ IsFiniteSet(minted')
          /\ derives' \in [Version -> SUBSET Version]
          /\ \A v \in Version \ new : derives'[v] = derives[v]
          /\ \A x \in DOMAIN names :
                 derives'[names[x]] = {names[x]} \cup Incorporates(S[x[1]])
      <3>1. Draw(names, S)
        BY <2>1 DEF S
      <3>2. \A x \in DOMAIN names : S[x[1]] \in SUBSET Version
        BY <2>2, <2>5
      <3> QED
        BY <2>4, <3>1, <3>2, Drawing
    <2>7. \A v \in new : derives'[v] = {v} \cup Incorporates(bases \cup merged)
      BY <2>4, <2>5, <2>6
    <2>8. names[mine] \in new /\ names[mine] \in Version
      BY <2>4, <2>6
    <2>9. c \in EntityCommit
      <3>1. MutationChangeKind(hs, kept \cup new, m.op = "delete") \in ChangeKind
        BY DEF MutationChangeKind, ChangeKind
      <3>2. kept \cup new \in (SUBSET Version) \ {{}}
        BY <2>6, <2>8
      <3> HIDE DEF kept, new
      <3> QED
        BY <2>2, <2>6, <3>1, <3>2 DEF EntityCommit
    <2>10. /\ c.key = m.key /\ c.expected = hs /\ c.new = new
           /\ c.heads = kept \cup new /\ c.deletes = (m.op = "delete")
           /\ c.kind = MutationChangeKind(hs, c.heads, c.deletes)
      OBVIOUS
    <2>11. m.op = "delete" => hs # {}
      BY <1>2 DEF Refusal
    <2>12. m.plan.strategy = "reject" => kept = {} /\ new = {names[mine]}
      <3>1. SUFFICES ASSUME m.plan.strategy = "reject"
                     PROVE  kept = {} /\ new = {names[mine]}
        OBVIOUS
      <3>2. merged = {}
        BY <3>1 DEF merged, MergedHeads
      <3>3. values = {mine}
        BY <3>2 DEF values
      <3>4. hs \subseteq bases
        BY <1>2, <3>1 DEF Refusal
      <3> QED
        BY <3>2, <3>3, <3>4
    <2>13. req'[r] = [req[r] EXCEPT !.pc = "commit", !.accepted = names[mine],
                                    !.commit = c]
           /\ OthersStay(r) /\ req' = [req EXCEPT ![r] = req'[r]]
      BY <2>1 DEF RequestsTypeOK, OthersStay, values, merged
    <2> HIDE DEF c, new, kept, mine
    <2>14. /\ req'[r].pc = "commit" /\ req'[r].m = req[r].m
           /\ req'[r].status = req[r].status /\ req'[r].node = req[r].node
           /\ req'[r].accepted = names[mine] /\ req'[r].commit = c
           /\ req'[r] \in RequestRow
      BY <2>2, <2>8, <2>9, <2>13 DEF RequestRow, RequestPc, NoneOr
    <2>15. req' \in [Req -> RequestRow]
      BY <2>13, <2>14 DEF RequestsTypeOK
    <2>16. Draws(c.new)
      BY <2>6, <2>7, <2>10 DEF Draws
    <2>17. Prepares(r, hs, merged)
      BY <2>7, <2>8, <2>9, <2>10, <2>11, <2>12, <2>13, <2>14, <2>15, <2>16
         DEF Prepares, kept
    <2> QED
      BY <2>2, <2>17
  <1> QED
    BY <1>1, <1>2 DEF PrepareCommit

(* Preparing a commit keeps the invariant of the requests.                 *)
LEMMA PreparingKeeps ==
    ASSUME RequestsInv, NEW r \in Req, req[r].pc # "idle",
           NEW hs, hs \subseteq minted, NEW merged \in SUBSET hs,
           Prepares(r, hs, merged), Rows' \subseteq Rows, UNCHANGED conflictPolicy
    PROVE  RequestsInv'
  <1> DEFINE c == req'[r].commit
  <1>0. RequestsTypeOK
    BY DEF RequestsInv
  <1>1. \A s \in Req : req'[s].pc # "idle" => Mutation(s)' \in Menu
    BY <1>0 DEF RequestsTypeOK, Prepares, OthersStay, Mutation
  <1>2. RequestsTypeOK'
    BY <1>0, <1>1 DEF RequestsTypeOK, Prepares, Draws
  <1>3. Pending(r)' = c.new /\ Drawn(r)' \subseteq c.new
    BY DEF Pending, Drawn, Prepares
  <1>4. Rows \subseteq minted
    BY DEF RequestsInv, DrawsInv
  <1>5. c.new \cap minted = {} /\ minted' = minted \cup c.new
    BY DEF Prepares, Draws
  <1>6. Prepared(r)'
    BY <1>5 DEF Prepared, Prepares, Mutation
  <1>7. ReadyFor(r)'
    BY <1>6 DEF ReadyFor, Prepares
  <1>8. OthersStay(r)
    BY DEF Prepares
  <1> HIDE DEF c
  <1> QED
    BY <1>2, <1>3, <1>4, <1>5, <1>7, <1>8, RequestStep

(* The resolution row puts new versions in the place of the heads S out of *)
(* all, the published ones and the unit's.                                 *)
Replaces(row, all, S) ==
    /\ S # {} => row.new # {}
    /\ row.heads = (all \ S) \cup row.new
    /\ \A v \in row.new : derives'[v] = {v} \cup Incorporates(S)

(* res resolves the drift of the entities K of a unit with heads hss.      *)
DriftRows(res, hss, plans, K) ==
    /\ DOMAIN res = K /\ Draws(UNION {res[k].new : k \in K})
    /\ \A j, k \in K : j # k => res[j].new \cap res[k].new = {}
    /\ \A k \in K :
          /\ ~DriftRefused(plans[k], hss[k], k)
          /\ res[k].published = heads[k] /\ res[k].staged = hss[k]
          /\ \E S \in SUBSET (hss[k] \cup heads[k]) :
                Replaces(res[k], hss[k] \cup heads[k], S)

(* A request carries it to the publication.                                *)
ResolvesDrift(r, hss, plans, K) ==
    /\ req' \in [Req -> RequestRow] /\ OthersStay(r)
    /\ req'[r].pc = "publish" /\ req'[r].m = req[r].m /\ req'[r].node = req[r].node
    /\ req'[r].status = req[r].status /\ req'[r].accepted = req[r].accepted
    /\ DriftRows(req'[r].res, hss, plans, K)

(* What the resolution of drift may be refused with.                       *)
DriftRefusals == {"VERSION_CONFLICT", "INVALID_REQUEST"}

(* The resolution of drift fails, or resolves every drifted entity.        *)
LEMMA ResolvePublicationConflictsDoes ==
    ASSUME TypeOK, RequestsTypeOK, NEW r \in Req, NEW hss \in [Key -> SUBSET Version],
           NEW plans, NEW K \in SUBSET Key,
           ResolvePublicationConflicts(r, hss, plans, K)
    PROVE  \/ \E status \in DriftRefusals : Fail(r, status) /\ NoDraw
           \/ ResolvesDrift(r, hss, plans, K)
  <1> DEFINE merged == [k \in K |-> DriftMerged(plans[k], hss[k], k)]
             values == UNION {{<<k, rest[v]>> : v \in merged[k]} : k \in K}
  <1>1. CASE /\ \A k \in K : ~DriftRefused(plans[k], hss[k], k)
             /\ \E names \in [values -> Version \ minted] :
                LET new(k) == {names[x] : x \in {x \in values : x[1] = k}}
                IN  /\ Draw(names, merged)
                    /\ req' = [req EXCEPT
                         ![r].pc = "publish",
                         ![r].res = [k \in K |->
                           Resolution(plans[k], hss[k], k, new(k))]]
    <2>1. PICK names \in [values -> Version \ minted] :
                /\ Draw(names, merged)
                /\ req' = [req EXCEPT
                         ![r].pc = "publish",
                         ![r].res = [k \in K |->
                           Resolution(plans[k], hss[k], k,
                             {names[x] : x \in {x \in values : x[1] = k}})]]
      BY <1>1
    <2> DEFINE new(k) == {names[x] : x \in {x \in values : x[1] = k}}
               res == [k \in K |-> Resolution(plans[k], hss[k], k, new(k))]
               drawn == {names[x] : x \in DOMAIN names}
    <2>2. \A k \in K : merged[k] \in SUBSET (hss[k] \cup heads[k])
      BY DEF DriftMerged, Active
    <2>3. \A k \in K : hss[k] \cup heads[k] \in SUBSET Version
      BY DEF TypeOK, EntityTypeOK
    <2>4. \A x \in values : x[1] \in K
      OBVIOUS
    <2>5. ASSUME NEW k \in K, merged[k] # {}
          PROVE  \E x \in values : x[1] = k
      <3>1. PICK v : v \in merged[k]
        BY <2>5
      <3>2. <<k, rest[v]>> \in values
        BY <3>1
      <3> QED
        BY <3>2
    <2>6. DOMAIN names = values
      OBVIOUS
    <2> HIDE DEF values, merged
    <2>7. /\ drawn \in SUBSET Version /\ drawn \cap minted = {}
          /\ minted' = minted \cup drawn
          /\ minted' \in SUBSET Version /\ IsFiniteSet(minted')
          /\ derives' \in [Version -> SUBSET Version]
          /\ \A v \in Version \ drawn : derives'[v] = derives[v]
          /\ \A x \in DOMAIN names :
                 derives'[names[x]] = {names[x]} \cup Incorporates(merged[x[1]])
          /\ \A x, y \in DOMAIN names : x # y => names[x] # names[y]
      <3>1. \A x \in DOMAIN names : merged[x[1]] \in SUBSET Version
        BY <2>2, <2>3, <2>4, <2>6
      <3> QED
        BY <2>1, <3>1, Drawing
    <2>8. UNION {new(k) : k \in K} = drawn
      BY <2>4, <2>6
    <2>9. \A j, k \in K : j # k => new(j) \cap new(k) = {}
      BY <2>6, <2>7
    <2>10. \A k \in K : \A v \in new(k) : derives'[v] = {v} \cup Incorporates(merged[k])
      BY <2>6, <2>7
    <2>11. \A v \in drawn : v \in derives'[v]
      BY <2>6, <2>7
    <2>12. \A k \in K : merged[k] # {} => new(k) # {}
      BY <2>5
    <2>13. \A k \in K : new(k) \in SUBSET Version
      BY <2>6, <2>7
    <2> HIDE DEF new, drawn
    <2>14. \A k \in K : /\ res[k].published = heads[k] /\ res[k].staged = hss[k]
                          /\ res[k].new = new(k)
                          /\ res[k].heads = ((hss[k] \cup heads[k]) \ merged[k]) \cup new(k)
      BY DEF Resolution, merged
    <2>15. res \in Resolved
      <3>1. ASSUME NEW k \in K
            PROVE  res[k] \in ResolutionRow
        <4>1. /\ heads[k] \in SUBSET Version /\ hss[k] \in SUBSET Version
              /\ new(k) \in SUBSET Version
          BY <2>13 DEF TypeOK, EntityTypeOK
        <4>2. DriftMerged(plans[k], hss[k], k) = merged[k]
          BY DEF merged
        <4>3. res[k] = [published |-> heads[k], staged |-> hss[k], new |-> new(k),
                        heads |-> ((hss[k] \cup heads[k]) \ merged[k]) \cup new(k)]
          BY <4>2 DEF Resolution
        <4>4. ((hss[k] \cup heads[k]) \ merged[k]) \cup new(k) \in SUBSET Version
          BY <4>1
        <4> QED
          BY <4>1, <4>3, <4>4 DEF ResolutionRow
      <3>2. res \in [K -> ResolutionRow]
        BY <3>1
      <3> HIDE DEF res
      <3> QED
        BY <3>2 DEF Resolved
    <2>16. /\ req'[r] = [req[r] EXCEPT !.pc = "publish", !.res = res]
           /\ OthersStay(r) /\ req' = [req EXCEPT ![r] = req'[r]]
      BY <2>1 DEF RequestsTypeOK, OthersStay, new, values, merged
    <2>17. req[r] \in RequestRow
      BY DEF RequestsTypeOK
    <2>18. DOMAIN res = K
      OBVIOUS
    <2> HIDE DEF res
    <2>19. /\ req'[r].pc = "publish" /\ req'[r].m = req[r].m
           /\ req'[r].status = req[r].status /\ req'[r].accepted = req[r].accepted
           /\ req'[r].node = req[r].node
           /\ req'[r].res = res /\ req'[r] \in RequestRow
      BY <2>15, <2>16, <2>17 DEF RequestRow, RequestPc
    <2>20. req' \in [Req -> RequestRow]
      BY <2>16, <2>19 DEF RequestsTypeOK
    <2>21. UNION {res[k].new : k \in K} = drawn
      <3>1. {res[k].new : k \in K} = {new(k) : k \in K}
        BY <2>14
      <3> QED
        BY <2>8, <3>1
    <2>22. Draws(drawn)
      BY <2>7, <2>11 DEF Draws
    <2>23. ASSUME NEW k \in K
           PROVE  \E S \in SUBSET (hss[k] \cup heads[k]) :
                    Replaces(res[k], hss[k] \cup heads[k], S)
      <3>1. merged[k] \in SUBSET (hss[k] \cup heads[k])
        BY <2>2
      <3>2. Replaces(res[k], hss[k] \cup heads[k], merged[k])
        BY <2>10, <2>12, <2>14 DEF Replaces
      <3> QED
        BY <3>1, <3>2
    <2>24. \A k \in K : ~DriftRefused(plans[k], hss[k], k)
      BY <1>1
    <2>25. Draws(UNION {res[k].new : k \in K})
      BY <2>21, <2>22
    <2>26. \A j, k \in K : j # k => res[j].new \cap res[k].new = {}
      BY <2>9, <2>14
    <2>27. \A k \in K : res[k].published = heads[k] /\ res[k].staged = hss[k]
      BY <2>14
    <2> HIDE <1>1
    <2>28. DriftRows(res, hss, plans, K)
      BY <2>18, <2>23, <2>24, <2>25, <2>26, <2>27 DEF DriftRows
    <2> QED
      BY <2>16, <2>19, <2>20, <2>28 DEF ResolvesDrift
  <1> QED
    BY <1>1 DEF ResolvePublicationConflicts, DriftRefusals

(* Resolving drift keeps the invariant of the requests.                    *)
LEMMA ResolvingKeeps ==
    ASSUME RequestsInv, NEW r \in Req, req[r].pc # "idle", InUnit(r),
           NEW hss, NEW plans, NEW K,
           \A k \in K : hss[k] # {} /\ hss[k] \cup heads[k] \subseteq minted,
           ResolvesDrift(r, hss, plans, K), Rows' \subseteq Rows \cup Pending(r),
           conflictPolicy' \in [Unit -> [Key -> NoneOr(Plan)]]
    PROVE  RequestsInv'
  <1> DEFINE res == req'[r].res
             new == UNION {res[k].new : k \in K}
  <1>0. RequestsTypeOK
    BY DEF RequestsInv
  <1>1. \A s \in Req : req'[s].pc # "idle" => Mutation(s)' \in Menu
    BY <1>0 DEF RequestsTypeOK, ResolvesDrift, OthersStay, Mutation
  <1>2. /\ new \in SUBSET Version /\ new \cap minted = {} /\ minted' = minted \cup new
        /\ RequestsTypeOK'
    BY <1>0, <1>1 DEF RequestsTypeOK, ResolvesDrift, DriftRows, Draws
  <1>3. Pending(r)' = new
    BY DEF Pending, ResolvesDrift, DriftRows
  <1>4. Drawn(r)' \subseteq Drawn(r) \cup new
    BY <1>3 DEF Drawn, ResolvesDrift
  <1>5. Rows \subseteq minted /\ Pending(r) \subseteq minted
    BY DEF RequestsInv, DrawsInv, Drawn
  <1>6. Resolves(r)'
    <2>1. DOMAIN res = K /\ \A j, k \in K : j # k => res[j].new \cap res[k].new = {}
      BY DEF ResolvesDrift, DriftRows
    <2>2. ASSUME NEW k \in K
          PROVE  /\ res[k].published \cup res[k].staged \subseteq minted'
                 /\ res[k].heads # {} /\ res[k].new \subseteq res[k].heads
                 /\ res[k].heads \subseteq
                      res[k].published \cup res[k].staged \cup res[k].new
                 /\ res[k].new # {} \/ res[k].staged \subseteq res[k].heads
      <3> HIDE DEF res, new
      <3>1. /\ res[k].published = heads[k] /\ res[k].staged = hss[k]
            /\ \E S \in SUBSET (hss[k] \cup heads[k]) :
                  Replaces(res[k], hss[k] \cup heads[k], S)
        BY DEF ResolvesDrift, DriftRows, res
      <3>2. PICK S \in SUBSET (hss[k] \cup heads[k]) :
                  Replaces(res[k], hss[k] \cup heads[k], S)
        BY <3>1
      <3>3. /\ S # {} => res[k].new # {}
            /\ res[k].heads = ((hss[k] \cup heads[k]) \ S) \cup res[k].new
        BY <3>2 DEF Replaces
      <3>4. hss[k] # {} /\ hss[k] \cup heads[k] \subseteq minted
        OBVIOUS
      <3> QED
        BY <1>2, <3>1, <3>3, <3>4
    <2>3. InUnit(r)'
      BY DEF InUnit, Mutation, ResolvesDrift
    <2> QED
      BY <2>1, <2>2, <2>3 DEF Resolves
  <1>7. ReadyFor(r)'
    BY <1>6 DEF ReadyFor, ResolvesDrift
  <1>8. OthersStay(r)
    BY DEF ResolvesDrift
  <1> HIDE DEF new
  <1>9. Pending(r)' \cap Rows' = {}
    BY <1>2, <1>3, <1>5
  <1> QED
    BY <1>2, <1>4, <1>7, <1>8, <1>9, RequestStep

-----------------------------------------------------------------------------
(* Each action is one the provider's contract allows, and keeps the        *)
(* invariant of the requests                                               *)

(* A step leaves the requests in order and is a step of the provider.      *)
Allowed == RequestsInv' /\ [Next]_providerVars

(* A request names a work unit that the provider knows.                    *)
LEMMA WorkUnitOfRequest ==
    ASSUME NEW r \in Req, Mutation(r) \in Menu, InUnit(r)
    PROVE  /\ WorkUnitOf(r) \in WorkUnit /\ WorkUnitOf(r).id = Mutation(r).unit
           /\ Mutation(r).unit \in Unit
  <1>1. Mutation(r).unit \in Unit
    BY MenuIsTyped DEF InUnit
  <1>2. (CHOOSE p \in Policy : TRUE) \in Policy
    BY SomePolicy
  <1> QED
    BY <1>1, <1>2 DEF WorkUnitOf, WorkUnit

(* Heads that a request reads are those of stored versions.                *)
LEMMA HeadsHaveDrawnRows ==
    ASSUME EngineInv, NEW k \in Key
    PROVE  /\ heads[k] \in SUBSET Version /\ heads[k] \subseteq minted
           /\ \A w \in WorkUnit : /\ WorkUnitHeads(w, k) \in SUBSET Version
                                  /\ WorkUnitHeads(w, k) \subseteq minted
                                  /\ unitHeads[w.id][k] \subseteq minted
  <1>1. Rows \subseteq minted /\ minted \in SUBSET Version
    BY DEF EngineInv, RequestsInv, DrawsInv, RequestsTypeOK
  <1>2. heads[k] \subseteq Rows
    BY HasRow DEF EngineInv, ProviderInv, RowsInv, HeadsHaveRows
  <1>3. ASSUME NEW w \in WorkUnit
        PROVE  WorkUnitHeads(w, k) \subseteq Rows /\ unitHeads[w.id][k] \subseteq Rows
    <2>1. w.id \in Unit
      BY DEF WorkUnit
    <2>2. published[k] \subseteq Rows /\ staged[w.id][k] \subseteq Rows
      BY <2>1, HasRow
    <2>3. unitHeads[w.id][k] \subseteq published[k] \cup staged[w.id][k]
      BY <2>1 DEF EngineInv, ProviderInv, RowsInv, HeadsHaveRows
    <2>4. k \in captured[w.id] => base[w.id][k] \subseteq published[k]
      BY <2>1 DEF EngineInv, ProviderInv, RowsInv
    <2>5. HeadsAt(k, Baseline(w)) \subseteq published[k]
      BY HeadsAtHaveRows DEF EngineInv, ProviderInv
    <2> QED
      BY <2>2, <2>3, <2>4, <2>5 DEF WorkUnitHeads, BaseHeads
  <1> QED
    BY <1>1, <1>2, <1>3

(* A new request is allowed: the invariant holds and the contract permits  *)
(* it.                                                                     *)
LEMMA SubmitKeeps ==
    ASSUME EngineInv, NEW r \in Req, NEW n \in Node, NEW m \in Menu,
           NEW bases \in KnownBases(m), Submit(r, n, m, bases)
    PROVE  Allowed
  <1>0. RequestsInv /\ RequestsTypeOK /\ TypeOK /\ m.key \in Key
    BY MenuIsTyped DEF EngineInv, RequestsInv, ProviderInv
  <1>1. bases \in SUBSET Version
    <2>1. heads[m.key] \in SUBSET Version /\ published[m.key] \in SUBSET Version
      BY <1>0 DEF TypeOK, EntityTypeOK
    <2>2. m.unit # None => unitHeads[m.unit][m.key] \in SUBSET Version
      BY <1>0, MenuIsTyped DEF TypeOK, UnitTypeOK
    <2> QED
      BY <2>1, <2>2 DEF KnownBases
  <1>2. /\ req[r] \in RequestRow /\ req[r].pc = "idle"
        /\ req'[r] = [req[r] EXCEPT !.pc = "admission", !.node = n, !.m = m,
                                    !.bases = bases]
        /\ OthersStay(r) /\ req' = [req EXCEPT ![r] = req'[r]]
    BY <1>0 DEF Submit, RequestsTypeOK, OthersStay
  <1>3. /\ req'[r] \in RequestRow /\ req'[r].pc = "admission" /\ req'[r].m = m
        /\ req'[r].accepted = req[r].accepted
    BY <1>1, <1>2 DEF RequestRow, RequestPc, Mutations, NoneOr
  <1>4. req' \in [Req -> RequestRow]
    BY <1>0, <1>2, <1>3 DEF RequestsTypeOK
  <1>5. \A s \in Req : req'[s].pc # "idle" => Mutation(s)' \in Menu
    BY <1>0, <1>2, <1>3 DEF RequestsTypeOK, OthersStay, Mutation
  <1>6. UNCHANGED <<providerVars, minted, conflictPolicy, derives>>
    BY DEF Submit
  <1>7. RequestsTypeOK'
    BY <1>0, <1>4, <1>5, <1>6 DEF RequestsTypeOK
  <1>8. Rows' = Rows
    BY <1>6 DEF Rows, providerVars, entityVars, unitVars
  <1>9. Pending(r)' = {} /\ Drawn(r)' \subseteq Drawn(r) /\ ReadyFor(r)'
    BY <1>3 DEF Pending, Drawn, ReadyFor
  <1>10. minted' = minted \cup {}
    BY <1>6
  <1>11. RequestsInv'
    BY <1>0, <1>2, <1>7, <1>8, <1>9, <1>10, RequestStep
  <1> QED
    BY <1>6, <1>11 DEF Allowed

(* So is the passing of a deadline.                                        *)
LEMMA DeadlinePassesKeeps ==
    ASSUME EngineInv, NEW r \in Req, DeadlinePasses(r)
    PROVE  Allowed
  <1>0. RequestsInv /\ RequestsTypeOK
    BY DEF EngineInv, RequestsInv
  <1>2. /\ req[r] \in RequestRow
        /\ req'[r] = [req[r] EXCEPT !.late = TRUE]
        /\ OthersStay(r) /\ req' = [req EXCEPT ![r] = req'[r]]
    BY <1>0 DEF DeadlinePasses, RequestsTypeOK, OthersStay
  <1>3. /\ req'[r] \in RequestRow /\ req'[r].pc = req[r].pc /\ req'[r].m = req[r].m
        /\ req'[r].accepted = req[r].accepted /\ req'[r].commit = req[r].commit
        /\ req'[r].res = req[r].res
    BY <1>2 DEF RequestRow
  <1>4. req' \in [Req -> RequestRow]
    BY <1>0, <1>2, <1>3 DEF RequestsTypeOK
  <1>5. \A s \in Req : req'[s].pc # "idle" => Mutation(s)' \in Menu
    BY <1>0, <1>2, <1>3 DEF RequestsTypeOK, OthersStay, Mutation
  <1>6. UNCHANGED <<providerVars, minted, conflictPolicy, derives>>
    BY DEF DeadlinePasses
  <1>7. RequestsTypeOK'
    BY <1>0, <1>4, <1>5, <1>6 DEF RequestsTypeOK
  <1>8. Rows' = Rows
    BY <1>6 DEF Rows, providerVars, entityVars, unitVars
  <1>9. Pending(r)' = Pending(r) /\ Drawn(r)' = Drawn(r)
    BY <1>3 DEF Pending, Drawn
  <1>10. Pending(r) \cap Rows = {} /\ ReadyFor(r)
    BY <1>0 DEF RequestsInv, DrawsInv
  <1>11. Prepared(r) => Prepared(r)'
    BY <1>3, <1>6 DEF Prepared, Mutation
  <1>12. Resolves(r) => Resolves(r)'
    BY <1>3, <1>6 DEF Resolves, InUnit, Mutation
  <1>13. ReadyFor(r)'
    BY <1>3, <1>10, <1>11, <1>12 DEF ReadyFor, Mutation
  <1>14. minted' = minted \cup {}
    BY <1>6
  <1>15. RequestsInv'
    BY <1>0, <1>2, <1>7, <1>8, <1>9, <1>10, <1>13, <1>14, RequestStep
  <1> QED
    BY <1>6, <1>15 DEF Allowed

(* So is the admission of a request by the locks.                          *)
LEMMA AdmitKeeps ==
    ASSUME EngineInv, NEW r \in Req, Admit(r)
    PROVE  Allowed
  <1>0. RequestsInv /\ RequestsTypeOK /\ req[r].pc = "admission"
    BY DEF EngineInv, RequestsInv, Admit
  <1>1. UNCHANGED <<providerVars, minted, conflictPolicy, derives>>
    BY DEF Admit
  <1>2. Rows' \subseteq Rows /\ conflictPolicy' \in [Unit -> [Key -> NoneOr(Plan)]]
    BY <1>0, <1>1 DEF Rows, providerVars, entityVars, unitVars, RequestsTypeOK
  <1>3. CASE Fail(r, "DEADLINE_EXCEEDED")
    BY <1>0, <1>1, <1>2, <1>3, FailMoves, Settles
       DEF Allowed, RequestStatus, Refusals, RequestPc
  <1>4. CASE ~req[r].late /\ ~Fail(r, "DEADLINE_EXCEEDED")
    <2> DEFINE p == IF Mutation(r).id = None THEN "read" ELSE "idempotency"
               due == InUnit(r) /\ unit[Mutation(r).unit].due
    <2>1. /\ req[r] \in RequestRow
          /\ req'[r] = [req[r] EXCEPT !.pc = p, !.seesDue = due]
          /\ OthersStay(r) /\ req' = [req EXCEPT ![r] = req'[r]]
      BY <1>0, <1>4 DEF Admit, RequestsTypeOK, OthersStay
    <2>2. due \in BOOLEAN /\ p \in RequestPc \ {"idle", "commit", "publish"}
      <3>1. Mutation(r) \in Menu
        BY <1>0 DEF RequestsTypeOK
      <3>2. InUnit(r) => unit[Mutation(r).unit].due \in BOOLEAN
        BY <3>1, WorkUnitOfRequest DEF EngineInv, ProviderInv, TypeOK, UnitTypeOK, UnitRow
      <3> QED
        BY <3>2 DEF RequestPc, InUnit
    <2>3. p = "idempotency" => Mutation(r).id # None
      OBVIOUS
    <2> HIDE DEF due, p
    <2>4. /\ req'[r] \in RequestRow /\ req'[r].pc = p /\ req'[r].m = req[r].m
          /\ req'[r].node = req[r].node /\ req'[r].accepted = req[r].accepted
      BY <2>1, <2>2 DEF RequestRow
    <2>5. Moves(r, p)
      BY <1>0, <2>1, <2>4 DEF Moves, RequestsTypeOK
    <2> QED
      BY <1>0, <1>1, <1>2, <2>2, <2>3, <2>5, Settles DEF Allowed
  <1> QED
    BY <1>3, <1>4 DEF Admit, Fail, Answer

(* So is a crash of an engine process.                                     *)
LEMMA CrashKeeps ==
    ASSUME EngineInv, NEW n \in Node, Crash(n)
    PROVE  Allowed
  <1>0. RequestsInv /\ RequestsTypeOK
    BY DEF EngineInv, RequestsInv
  <1>1. UNCHANGED <<providerVars, minted, conflictPolicy, derives>>
    BY DEF Crash
  <1>2. ASSUME NEW r \in Req
        PROVE  /\ req'[r] \in RequestRow
               /\ req'[r] = req[r] \/ (req'[r].pc = "lost" /\ req[r].pc # "idle")
               /\ req'[r].m = req[r].m /\ req'[r].accepted = req[r].accepted
    <2>1. req[r] \in RequestRow
      BY <1>0 DEF RequestsTypeOK
    <2>2. \/ req'[r] = req[r]
          \/ req'[r] = [req[r] EXCEPT !.pc = "lost"] /\ req[r].pc # "idle"
      BY <1>0 DEF Crash, InFlight
    <2> QED
      BY <2>1, <2>2 DEF RequestRow, RequestPc
  <1>3. req' \in [Req -> RequestRow]
    <2>1. req' = [r \in Req |-> req'[r]]
      BY DEF Crash
    <2> QED
      BY <1>2, <2>1
  <1>4. RequestsTypeOK'
    BY <1>0, <1>1, <1>2, <1>3 DEF RequestsTypeOK, Mutation
  <1>5. Rows' = Rows
    BY <1>1 DEF Rows, providerVars, entityVars, unitVars
  <1>6. ASSUME NEW r \in Req
        PROVE  /\ Pending(r)' \subseteq Pending(r) /\ Drawn(r)' \subseteq Drawn(r)
               /\ ReadyFor(r)'
    <2>1. CASE req'[r] = req[r]
      <3>1. Prepared(r) => Prepared(r)'
        BY <1>1, <2>1 DEF Prepared, Mutation
      <3>2. Resolves(r) => Resolves(r)'
        BY <1>1, <2>1 DEF Resolves, InUnit, Mutation
      <3>3. ReadyFor(r)
        BY <1>0 DEF RequestsInv
      <3> QED
        BY <2>1, <3>1, <3>2, <3>3 DEF ReadyFor, Pending, Drawn, Mutation
    <2>2. CASE req'[r].pc = "lost"
      BY <1>2, <2>2 DEF ReadyFor, Pending, Drawn
    <2> QED
      BY <1>2, <2>1, <2>2
  <1>7. DrawsInv
    BY <1>0 DEF RequestsInv
  <1>8. DrawsInv'
    <2>1. Rows' \subseteq minted'
      BY <1>1, <1>5, <1>7 DEF DrawsInv
    <2>2. \A r \in Req : Drawn(r)' \subseteq minted' /\ Pending(r)' \cap Rows' = {}
      BY <1>1, <1>5, <1>6, <1>7 DEF DrawsInv
    <2>3. \A r, s \in Req : r # s => Drawn(r)' \cap Drawn(s)' = {}
      BY <1>6, <1>7 DEF DrawsInv
    <2> QED
      BY <2>1, <2>2, <2>3 DEF DrawsInv
  <1>9. RequestsInv'
    BY <1>4, <1>6, <1>8 DEF RequestsInv
  <1> QED
    BY <1>1, <1>9 DEF Allowed

(* Policies that do not change keep their types.                           *)
LEMMA PolicyStays ==
    ASSUME RequestsTypeOK, UNCHANGED conflictPolicy
    PROVE  conflictPolicy' \in [Unit -> [Key -> NoneOr(Plan)]]
  BY DEF RequestsTypeOK

(* A request that the provider lets pass reads on, any other is answered.  *)
LEMMA ProceedMoves ==
    ASSUME RequestsTypeOK, NEW r \in Req, NEW outcome, NEW stored,
           outcome \in {"Replayed", "ReplayedStaged"} => stored.result \in Version,
           Proceed(r, outcome, stored)
    PROVE  \E p \in {"done", "read"} : Moves(r, p)
  <1>1. CASE outcome \in {"Replayed", "ReplayedStaged"}
    <2>1. Answer(r, "REPLAYED", stored.result) /\ stored.result \in NoneOr(Version)
      BY <1>1 DEF Proceed, NoneOr
    <2> QED
      BY <2>1, AnswerMoves DEF RequestStatus
  <1>2. CASE outcome = "Conflict"
    BY <1>2, FailMoves DEF Proceed, RequestStatus, Refusals
  <1>3. CASE outcome = "DeadlineExceeded"
    BY <1>3, FailMoves DEF Proceed, RequestStatus, Refusals
  <1>4. CASE outcome \notin {"Replayed", "ReplayedStaged", "Conflict", "DeadlineExceeded"}
    <2>1. Goto(r, "read")
      BY <1>4 DEF Proceed
    <2> QED
      BY <2>1, GotoMoves DEF RequestPc
  <1> QED
    BY <1>1, <1>2, <1>3, <1>4

(* A record that is replayed names a version.                              *)
LEMMA ReplayedRecords ==
    ASSUME TypeOK, NEW i \in Identity, NEW q
    PROVE  /\ IdempotencyOutcome(i, q) = "Replayed" => idempotency[i].result \in Version
           /\ \A w, close, seesDue, late :
                LET out == ReadIdempotencyInWorkUnitOutcome(w, i, q, close, seesDue, late)
                IN  /\ out = "Replayed" => idempotency[i].result \in Version
                    /\ out = "ReplayedStaged" => unitIdempotency[i].result \in Version
           /\ IdempotencyOutcome(i, q) \notin {"ReplayedStaged"}
  <1>1. /\ idempotency[i] # None => idempotency[i].result \in Version
        /\ unitIdempotency[i] # None => unitIdempotency[i].result \in Version
    BY DEF TypeOK, IdempotencyTypeOK, Record, UnitRecord
  <1>2. /\ Retained(idempotency)[i] # None => idempotency[i] # None
        /\ Retained(unitIdempotency)[i] # None => unitIdempotency[i] # None
    BY DEF Retained
  <1>3. ASSUME NEW w, NEW close, NEW seesDue, NEW late
        PROVE  LET out == ReadIdempotencyInWorkUnitOutcome(w, i, q, close, seesDue, late)
                IN  /\ out = "Replayed" => idempotency[i].result \in Version
                    /\ out = "ReplayedStaged" => unitIdempotency[i].result \in Version
    BY <1>1, <1>2 DEF ReadIdempotencyInWorkUnitOutcome, UnitIdempotencyOutcome
  <1> QED
    BY <1>1, <1>2, <1>3 DEF IdempotencyOutcome

(* The lookup of an identity is an allowed step.                           *)
LEMMA PrepareIdempotencyKeeps ==
    ASSUME EngineInv, NEW r \in Req, PrepareIdempotency(r)
    PROVE  Allowed
  <1> DEFINE m == Mutation(r)
             w == WorkUnitOf(r)
             late == req[r].late
             seesDue == req[r].seesDue
  <1>0. /\ RequestsInv /\ RequestsTypeOK /\ TypeOK /\ req[r].pc = "idempotency"
        /\ m \in Menu /\ UNCHANGED <<minted, conflictPolicy, derives>>
    BY DEF EngineInv, RequestsInv, RequestsTypeOK, ProviderInv, PrepareIdempotency
  <1>1. m.id \in Identity
    BY <1>0, MenuIsTyped DEF RequestsInv, ReadyFor
  <1>2. late \in BOOLEAN /\ seesDue \in BOOLEAN
    BY <1>0 DEF RequestsTypeOK, RequestRow
  <1>3. ASSUME \E p \in {"done", "read"} : Moves(r, p), Quiet, [Next]_providerVars
        PROVE  Allowed
    <2>1. PICK p \in {"done", "read"} : Moves(r, p)
      BY <1>3
    <2>2. p \in RequestPc \ {"idle", "commit", "publish"} /\ p # "idempotency"
      BY DEF RequestPc
    <2>3. Rows' \subseteq Rows
      BY <1>3, QuietRows
    <2> QED
      BY <1>0, <1>3, <2>1, <2>2, <2>3, PolicyStays, Settles DEF Allowed
  <1>4. CASE /\ ReadIdempotency(late)
             /\ Proceed(r, IF late THEN "DeadlineExceeded"
                           ELSE IdempotencyOutcome(m.id, m.data),
                        idempotency[m.id])
    <2>1. \E p \in {"done", "read"} : Moves(r, p)
      BY <1>0, <1>1, <1>4, ReplayedRecords, ProceedMoves
    <2>2. Quiet
      BY <1>4, StutterIsQuiet DEF ReadIdempotency, providerVars, unitVars
    <2>3. Next
      BY <1>2, <1>4 DEF Next, ImmediateOperation
    <2> QED
      BY <1>3, <2>1, <2>2, <2>3
  <1>5. CASE /\ InUnit(r)
             /\ ReadIdempotencyInWorkUnit(w, seesDue, late)
             /\ LET out == ReadIdempotencyInWorkUnitOutcome(w, m.id, m.data,
                              m.close, seesDue, late)
                 IN  Proceed(r, out,
                       IF out = "ReplayedStaged" THEN unitIdempotency[m.id]
                                                 ELSE idempotency[m.id])
    <2>0. w \in WorkUnit
      BY <1>0, <1>5, WorkUnitOfRequest
    <2> DEFINE out == ReadIdempotencyInWorkUnitOutcome(w, m.id, m.data,
                        m.close, seesDue, late)
               stored == IF out = "ReplayedStaged" THEN unitIdempotency[m.id]
                                                   ELSE idempotency[m.id]
    <2>1. out \in {"Replayed", "ReplayedStaged"} => stored.result \in Version
      BY <1>0, <1>1, ReplayedRecords
    <2>2. Proceed(r, out, stored)
      BY <1>5
    <2> HIDE DEF out, stored
    <2>3. \E p \in {"done", "read"} : Moves(r, p)
      BY <1>0, <2>1, <2>2, ProceedMoves
    <2>4. Quiet
      BY <1>0, <1>5, <2>0, ReadIdempotencyInWorkUnitIsQuiet
    <2>5. Next
      BY <1>2, <1>5, <2>0 DEF Next, WorkUnitOperation
    <2> QED
      BY <1>3, <2>3, <2>4, <2>5
  <1> QED
    BY <1>4, <1>5 DEF PrepareIdempotency

(* So is the read of the selected versions, with the preparation after it. *)
LEMMA ReadSelectedKeeps ==
    ASSUME EngineInv, NEW r \in Req, ReadSelected(r)
    PROVE  Allowed
  <1> DEFINE k == Mutation(r).key
             w == WorkUnitOf(r)
             late == req[r].late
  <1>0. /\ RequestsInv /\ RequestsTypeOK /\ TypeOK /\ req[r].pc = "read"
        /\ Mutation(r) \in Menu /\ UNCHANGED conflictPolicy
    BY DEF EngineInv, RequestsInv, RequestsTypeOK, ProviderInv, ReadSelected
  <1>1. k \in Key /\ late \in BOOLEAN
    BY <1>0, MenuIsTyped DEF RequestsTypeOK, RequestRow
  <1>2. ASSUME NEW status \in RequestStatus, Fail(r, status), NoDraw, Quiet,
               [Next]_providerVars
        PROVE  Allowed
    <2>1. Moves(r, "done")
      BY <1>0, <1>2, FailMoves
    <2>2. Rows' \subseteq Rows
      BY <1>2, QuietRows
    <2> QED
      BY <1>0, <1>2, <2>1, <2>2, PolicyStays, Settles DEF Allowed, NoDraw, RequestPc
  <1>3. ASSUME NEW hs, hs \subseteq minted, hs \in SUBSET Version, NEW vs,
               PrepareCommit(r, hs, vs), Quiet, [Next]_providerVars
        PROVE  Allowed
    <2>1. \/ /\ Fail(r, Refusal(Mutation(r), req[r].bases, hs, vs))
             /\ Refusal(Mutation(r), req[r].bases, hs, vs) \in Refusals
             /\ NoDraw
          \/ \E merged \in SUBSET hs : Prepares(r, hs, merged)
      BY <1>0, <1>3, PrepareCommitDoes
    <2>2. CASE \E merged \in SUBSET hs : Prepares(r, hs, merged)
      <3>1. Rows' \subseteq Rows
        BY <1>3, QuietRows
      <3> QED
        BY <1>0, <1>3, <2>2, <3>1, PreparingKeeps DEF Allowed
    <2> QED
      BY <1>2, <1>3, <2>1, <2>2 DEF RequestStatus
  <1>4. CASE /\ ReadEntity
             /\ \/ late /\ Fail(r, "DEADLINE_EXCEEDED") /\ NoDraw
                \/ ~late /\ PrepareCommit(r, heads[k], published[k])
    <2>1. Quiet /\ Next
      BY <1>0, <1>4, SweepIsQuiet DEF ReadEntity, Next, ExpireOpenWorkUnits
    <2>2. heads[k] \subseteq minted /\ heads[k] \in SUBSET Version
      BY <1>1, HeadsHaveDrawnRows
    <2> QED
      BY <1>2, <1>3, <1>4, <2>1, <2>2 DEF RequestStatus, Refusals
  <1>5. CASE /\ InUnit(r)
             /\ ReadInWorkUnit(w, {k}, late)
             /\ LET out == ReadInWorkUnitOutcome(w, late)
                 IN  \/ /\ out # "open"
                        /\ Fail(r, ReadRefusal(out)) /\ NoDraw
                     \/ /\ out = "open"
                        /\ PrepareCommit(r, WorkUnitHeads(w, k),
                                            WorkUnitVersions(w, k))
    <2>0. w \in WorkUnit /\ {k} \in SUBSET Key
      BY <1>0, <1>1, <1>5, WorkUnitOfRequest
    <2>1. Quiet
      BY <1>0, <1>5, <2>0, ReadInWorkUnitIsQuiet
    <2>2. Next
      BY <1>1, <1>5, <2>0 DEF Next, WorkUnitOperation
    <2>3. WorkUnitHeads(w, k) \subseteq minted /\ WorkUnitHeads(w, k) \in SUBSET Version
      BY <1>1, <2>0, HeadsHaveDrawnRows
    <2>4. ReadRefusal(ReadInWorkUnitOutcome(w, late)) \in RequestStatus
      BY DEF ReadRefusal, RequestStatus, Refusals
    <2> QED
      BY <1>2, <1>3, <1>5, <2>1, <2>2, <2>3, <2>4
  <1> QED
    BY <1>4, <1>5 DEF ReadSelected

(* So is the read of the entity a publication conflicted on.               *)
LEMMA ReadPublishedKeeps ==
    ASSUME EngineInv, NEW r \in Req, ReadPublished(r)
    PROVE  Allowed
  <1>0. /\ RequestsInv /\ RequestsTypeOK /\ TypeOK /\ req[r].pc = "reread"
        /\ Mutation(r) \in Menu /\ UNCHANGED <<minted, derives, conflictPolicy>>
    BY DEF EngineInv, RequestsInv, RequestsTypeOK, ProviderInv, ReadPublished
  <1>1. Quiet /\ Next
    BY <1>0, SweepIsQuiet DEF ReadPublished, ReadEntity, Next, ExpireOpenWorkUnits
  <1>2. Moves(r, "done")
    <2>1. heads[Mutation(r).key] \in SUBSET Version
      BY <1>0, MenuIsTyped DEF TypeOK, EntityTypeOK
    <2>2. req[r].accepted \in NoneOr(Version)
      BY <1>0 DEF RequestsTypeOK, RequestRow
    <2>3. \/ \E v \in NoneOr(Version) : Answer(r, "OK", v)
          \/ Fail(r, "DEADLINE_EXCEEDED") \/ Fail(r, "OVERLOADED")
      BY <2>1, <2>2 DEF ReadPublished, Active, NoneOr
    <2> QED
      BY <1>0, <2>3, AnswerMoves, FailMoves DEF RequestStatus, Refusals
  <1>3. Rows' \subseteq Rows
    BY <1>1, QuietRows
  <1> QED
    BY <1>0, <1>1, <1>2, <1>3, PolicyStays, Settles DEF Allowed, RequestPc

(* What a request carries to its commit is one of the contract's commits,  *)
(* of the heads it read, whatever was stored since.                        *)
LEMMA PreparedCommits ==
    ASSUME EngineInv, NEW r \in Req, req[r].pc = "commit"
    PROVE  LET c == req[r].commit
           IN  /\ c \in EntityCommit /\ c \in Commits(c.key, c.expected)
               /\ c.key = Mutation(r).key /\ c.new = Pending(r)
               /\ req[r].accepted \in c.new /\ req[r].accepted \in Version
  <1> DEFINE c == req[r].commit
             kept == c.heads \cap c.expected
             x == [new |-> c.new, kept |-> kept, deletes |-> c.deletes]
  <1>1. Prepared(r) /\ Pending(r) = c.new
    BY DEF EngineInv, RequestsInv, ReadyFor, Pending
  <1>2. /\ c \in EntityCommit /\ c.key = Mutation(r).key /\ req[r].accepted \in c.new
        /\ c.new # {} /\ c.new \subseteq c.heads
        /\ c.heads \subseteq c.expected \cup c.new
        /\ c.deletes => c.expected # {}
        /\ c.kind = MutationChangeKind(c.expected, c.heads, c.deletes)
    BY <1>1 DEF Prepared
  <1>3. c.new \cap Rows = {} /\ Rows \in SUBSET Version
    BY <1>1 DEF EngineInv, RequestsInv, DrawsInv, RequestsTypeOK
  <1>4. /\ c.new \in SUBSET Version /\ c.deletes \in BOOLEAN
        /\ c = [key |-> c.key, expected |-> c.expected, new |-> c.new,
                deletes |-> c.deletes, heads |-> c.heads, kind |-> c.kind]
    BY <1>2 DEF EntityCommit
  <1>5. c.new \in Fresh
    BY <1>3, <1>4, ClientsDrawFreely DEF Fresh
  <1>6. x \in Choices(c.expected)
    BY <1>2, <1>4, <1>5 DEF Choices, DeletesAfter
  <1>7. x.kept \cup x.new = c.heads
    BY <1>2
  <1>8. c = [key |-> c.key, expected |-> c.expected, new |-> x.new,
             deletes |-> x.deletes, heads |-> x.kept \cup x.new,
             kind |-> MutationChangeKind(c.expected, x.kept \cup x.new, x.deletes)]
    BY <1>2, <1>4, <1>7
  <1>9. c \in Commits(c.key, c.expected)
    <2> HIDE DEF x, c
    <2> QED
      BY <1>6, <1>8 DEF Commits
  <1> QED
    BY <1>1, <1>2, <1>4, <1>9

(* So is an immediate commit.                                              *)
LEMMA CommitImmediateKeeps ==
    ASSUME EngineInv, NEW r \in Req, CommitImmediate(r)
    PROVE  Allowed
  <1> DEFINE m == Mutation(r)
             c == req[r].commit
             late == req[r].late
             out == IF m.id = None THEN CommitOutcome(c, late)
                    ELSE IdempotentCommitOutcome(c, m.id, m.data, late)
  <1>0. /\ RequestsInv /\ RequestsTypeOK /\ TypeOK /\ req[r].pc = "commit"
        /\ m \in Menu /\ UNCHANGED <<minted, derives, conflictPolicy>>
        /\ late \in BOOLEAN
    BY DEF EngineInv, RequestsInv, RequestsTypeOK, ProviderInv, CommitImmediate,
           RequestRow
  <1>1. /\ c \in EntityCommit /\ c \in Commits(c.key, c.expected) /\ c.key \in Key
        /\ c.new = Pending(r) /\ req[r].accepted \in c.new /\ req[r].accepted \in Version
    BY <1>0, PreparedCommits DEF EntityCommit
  <1>2. Moves(r, "done")
    <2>1. out = "Replayed" => /\ m.id \in Identity
                             /\ IdempotencyOutcome(m.id, m.data) = "Replayed"
      BY <1>0, MenuIsTyped DEF CommitOutcome, IdempotentCommitOutcome
    <2>2. out = "Replayed" => idempotency[m.id].result \in NoneOr(Version)
      BY <1>0, <2>1, ReplayedRecords DEF NoneOr
    <2>3. req[r].accepted \in NoneOr(Version)
      BY <1>1 DEF NoneOr
    <2>4. CommitRefusal(out) \in RequestStatus
      BY DEF CommitRefusal, RequestStatus, Refusals
    <2>5. \/ out = "Committed" /\ Answer(r, "OK", req[r].accepted)
          \/ out = "Replayed" /\ Answer(r, "REPLAYED", idempotency[m.id].result)
          \/ Fail(r, CommitRefusal(out))
      BY DEF CommitImmediate
    <2> HIDE DEF out
    <2> QED
      BY <1>0, <2>2, <2>3, <2>4, <2>5, AnswerMoves, FailMoves DEF RequestStatus
  <1>3. ASSUME [Next]_providerVars, Quiet \/ CommitsNow(c)
        PROVE  Allowed
    <2>1. Rows' \subseteq Rows \cup Pending(r)
      BY <1>0, <1>1, <1>3, QuietRows, CommittedRows
    <2> QED
      BY <1>0, <1>2, <1>3, <2>1, PolicyStays, Settles DEF Allowed, RequestPc
  <1>4. CASE m.id = None /\ CommitEntity(c, late)
    <2>1. Quiet \/ CommitsNow(c)
      BY <1>0, <1>1, <1>4, CommitEntityDoes
    <2>2. CASE heads[c.key] = c.expected
      <3>1. c.expected \in Seen(c.key)
        BY <2>2 DEF Seen
      <3>2. ImmediateOperation(late)
        BY <1>1, <1>4, <3>1 DEF ImmediateOperation
      <3> QED
        BY <1>0, <1>3, <2>1, <3>2 DEF Next
    <2>3. CASE heads[c.key] # c.expected
      <3>1. SweepOnly
        BY <1>4, <2>3 DEF CommitEntity, CommitOutcome
      <3> QED
        BY <1>3, <2>1, <3>1 DEF Next, ExpireOpenWorkUnits
    <2> QED
      BY <2>2, <2>3
  <1>5. CASE m.id # None /\ CommitEntityIdempotent(c, m.id, m.data, req[r].accepted, late)
    <2>1. IF IdempotentCommitOutcome(c, m.id, m.data, late) = "Committed"
          THEN CommitsNow(c) ELSE UNCHANGED providerVars
      BY <1>1, <1>5, CommitEntityIdempotentDoes
    <2>2. CASE CommitsNow(c)
      <3>1. c.expected \in Seen(c.key)
        BY <2>2 DEF Seen, CommitsNow
      <3>2. m.id \in Identity /\ m.data \in Request
        BY <1>0, <1>5, MenuIsTyped
      <3>3. ImmediateOperation(late)
        BY <1>1, <1>5, <3>1, <3>2 DEF ImmediateOperation
      <3> QED
        BY <1>0, <1>3, <2>2, <3>3 DEF Next
    <2>3. CASE UNCHANGED providerVars
      BY <1>3, <2>3, StutterIsQuiet DEF providerVars, unitVars
    <2> QED
      BY <2>1, <2>2, <2>3
  <1> QED
    BY <1>4, <1>5 DEF CommitImmediate

(* The record of a keyed mutation names the version it commits.            *)
LEMMA RecordIsTyped ==
    ASSUME NEW r \in Req, Mutation(r) \in Menu, req[r].accepted \in req[r].commit.new
    PROVE  RecordOf(r) \in UnitRecordsOf(req[r].commit)
  BY MenuIsTyped DEF RecordOf, UnitRecordsOf, NoRecord

(* The policies recorded with a staged mutation are plans.                 *)
LEMMA RecordedPlans ==
    ASSUME RequestsTypeOK, NEW r \in Req, CommitInUnit(r), Mutation(r) \in Menu
    PROVE  conflictPolicy' \in [Unit -> [Key -> NoneOr(Plan)]]
  <1> DEFINE m == Mutation(r)
  <1>1. InUnit(r) /\ m.unit \in Unit /\ m.key \in Key /\ m.plan \in Plan
    BY MenuIsTyped, WorkUnitOfRequest DEF CommitInUnit
  <1>2. conflictPolicy \in [Unit -> [Key -> NoneOr(Plan)]]
    BY DEF RequestsTypeOK
  <1>3. [conflictPolicy[m.unit] EXCEPT ![m.key] = m.plan] \in [Key -> NoneOr(Plan)]
    BY <1>1, <1>2 DEF NoneOr
  <1>4. \E plans \in [Key -> NoneOr(Plan)] :
           conflictPolicy' = [conflictPolicy EXCEPT ![m.unit] = plans]
    BY <1>1, <1>2, <1>3 DEF CommitInUnit
  <1> QED
    BY <1>1, <1>2, <1>4

(* So is a commit in a unit, staged, published or sealed.                  *)
LEMMA CommitInUnitKeeps ==
    ASSUME EngineInv, NEW r \in Req, CommitInUnit(r)
    PROVE  Allowed
  <1> DEFINE m == Mutation(r)
             c == req[r].commit
             w == WorkUnitOf(r)
             late == req[r].late
             rec == RecordOf(r)
             out == CommitInWorkUnitOutcome(w, c, m.close, rec, late)
             opened == EnsuredState(w, Lapsed) = "open"
             plans == IF opened /\ out \in {"Staged", "Published", "PublicationConflict"}
                      THEN [conflictPolicy[m.unit] EXCEPT ![m.key] = m.plan]
                      ELSE conflictPolicy[m.unit]
  <1>0. /\ RequestsInv /\ RequestsTypeOK /\ TypeOK /\ ProviderInv
        /\ req[r].pc = "commit" /\ InUnit(r)
        /\ m \in Menu /\ late \in BOOLEAN /\ m.close \in BOOLEAN
        /\ CommitEntityInWorkUnit(w, c, m.close, rec, late)
    BY MenuIsTyped DEF EngineInv, RequestsInv, RequestsTypeOK, ProviderInv,
                       CommitInUnit, RequestRow
  <1>1. /\ c \in EntityCommit /\ c \in Commits(c.key, c.expected) /\ c.key \in Key
        /\ c.new = Pending(r) /\ req[r].accepted \in c.new /\ req[r].accepted \in Version
    BY <1>0, PreparedCommits DEF EntityCommit
  <1>2. /\ w \in WorkUnit /\ w.id = m.unit /\ m.unit \in Unit
        /\ rec \in UnitRecordsOf(c)
    BY <1>0, <1>1, WorkUnitOfRequest, RecordIsTyped
  <1>3. \/ opened /\ out = "Staged" /\ Stages(w, c, m.close)
        \/ opened /\ out = "PublicationConflict" /\ Stages(w, c, m.close)
        \/ opened /\ out = "Published" /\ StagesAndPublishes(w, c)
        \/ /\ out \notin {"Staged", "Published"}
           /\ ~(opened /\ out = "PublicationConflict")
           /\ SweepOnly /\ Quiet
    <2> HIDE DEF w, c, rec, late
    <2> QED
      BY <1>0, <1>1, <1>2, CommitInWorkUnitDoes
  <1>4. [Next]_providerVars
    <2>1. CASE SweepOnly
      BY <2>1 DEF Next, ExpireOpenWorkUnits
    <2>2. CASE WorkUnitHeads(w, c.key) = c.expected
      <3>1. c.expected \in SeenIn(w, c.key)
        BY <2>2 DEF SeenIn
      <3>2. WorkUnitOperation(w, late)
        <4> HIDE DEF w, c, rec, late
        <4> QED
          BY <1>0, <1>1, <1>2, <3>1 DEF WorkUnitOperation
      <3> QED
        BY <1>0, <1>2, <3>2 DEF Next
    <2> QED
      BY <1>3, <2>1, <2>2 DEF Stages, StagesAndPublishes
  <1>5. Rows' \subseteq Rows \cup Pending(r)
    BY <1>0, <1>1, <1>2, <1>3, QuietRows, StagingRows, CommitAndPublishRows
  <1>6. conflictPolicy' \in [Unit -> [Key -> NoneOr(Plan)]]
    BY <1>0, RecordedPlans
  <1>7. ASSUME NEW status \in RequestStatus, NEW v \in NoneOr(Version),
               Answer(r, status, v), NoDraw
        PROVE  Allowed
    BY <1>0, <1>4, <1>5, <1>6, <1>7, AnswerMoves, Settles
       DEF Allowed, NoDraw, RequestPc
  <1>8. ASSUME NEW hss \in [Key -> SUBSET Version], NEW bss,
               \A k \in Key : hss[k] \subseteq minted,
               ResolvePublicationConflicts(r, hss, plans, PublicationConflicts(hss, bss))
        PROVE  Allowed
    <2> DEFINE K == PublicationConflicts(hss, bss)
    <2>1. K \in SUBSET Key /\ \A k \in K : hss[k] # {}
      BY DEF PublicationConflicts
    <2> HIDE DEF K, plans
    <2>2. \/ \E status \in DriftRefusals : Fail(r, status) /\ NoDraw
          \/ ResolvesDrift(r, hss, plans, K)
      BY <1>0, <1>8, <2>1, ResolvePublicationConflictsDoes DEF K
    <2>3. CASE ResolvesDrift(r, hss, plans, K)
      <3>1. \A k \in K : hss[k] # {} /\ hss[k] \cup heads[k] \subseteq minted
        BY <1>8, <2>1, HeadsHaveDrawnRows
      <3> QED
        BY <1>0, <1>4, <1>5, <1>6, <2>3, <3>1, ResolvingKeeps DEF Allowed
    <2>4. DriftRefusals \subseteq RequestStatus /\ None \in NoneOr(Version)
      BY DEF DriftRefusals, RequestStatus, Refusals, NoneOr
    <2> QED
      BY <1>7, <2>2, <2>3, <2>4 DEF Fail
  <1>9. CASE out \in {"Staged", "Published"}
    <2>1. Answer(r, "OK", req[r].accepted) /\ NoDraw
      BY <1>9 DEF CommitInUnit
    <2> QED
      BY <1>1, <1>7, <2>1 DEF RequestStatus, NoneOr
  <1>10. CASE out \notin {"Staged", "Published", "PublicationConflict"}
    <2>1. Fail(r, CommitRefusal(out)) /\ NoDraw
      BY <1>10 DEF CommitInUnit
    <2>2. CommitRefusal(out) \in RequestStatus /\ None \in NoneOr(Version)
      BY DEF CommitRefusal, RequestStatus, Refusals, NoneOr
    <2> HIDE DEF out
    <2> QED
      BY <1>7, <2>1, <2>2 DEF Fail
  <1>11. CASE out = "PublicationConflict"
    <2> DEFINE hss == IF opened THEN StagedHeads(w, c) ELSE unitHeads[m.unit]
               bss == IF opened THEN StagedBase(w, c) ELSE base[m.unit]
    <2>1. ResolvePublicationConflicts(r, hss, plans, PublicationConflicts(hss, bss))
      BY <1>11 DEF CommitInUnit
    <2>2. c.heads \subseteq minted
      BY <1>0 DEF RequestsInv, ReadyFor, Prepared, DrawsInv, Pending, Drawn
    <2>3. \A k \in Key : hss[k] \subseteq minted
      <3>1. \A k \in Key : unitHeads[w.id][k] \subseteq minted
        BY <1>2, HeadsHaveDrawnRows
      <3>2. \A k \in Key : StagedHeads(w, c)[k] \subseteq minted
        BY <1>0, <1>1, <1>2, <2>2, <3>1 DEF StagedHeads, TypeOK, UnitTypeOK
      <3> QED
        BY <1>2, <3>1, <3>2
    <2>4. hss \in [Key -> SUBSET Version]
      BY <1>0, <1>1, <1>2, StagedTypes DEF TypeOK, UnitTypeOK
    <2> HIDE DEF hss, bss, plans
    <2> QED
      BY <1>8, <2>1, <2>3, <2>4
  <1> QED
    BY <1>9, <1>10, <1>11

(* A resolution that a request carries is well typed.                      *)
LEMMA CarriedResolutionType ==
    ASSUME EngineInv, NEW r \in Req
    PROVE  /\ DOMAIN req[r].res \in SUBSET Key
           /\ req[r].res \in [DOMAIN req[r].res -> ResolutionRow]
           /\ \A w \in WorkUnit :
                 ResolvedPublication(w, req[r].res) \in PublicationRecord
  <1> DEFINE res == req[r].res
  <1>1. res \in Resolved /\ TypeOK
    BY DEF EngineInv, RequestsInv, RequestsTypeOK, RequestRow, ProviderInv
  <1>2. DOMAIN res \in SUBSET Key /\ res \in [DOMAIN res -> ResolutionRow]
    <2> HIDE DEF res
    <2>1. PICK K \in SUBSET Key : res \in [K -> ResolutionRow]
      BY <1>1 DEF Resolved
    <2> QED
      BY <2>1
  <1>3. \A k \in DOMAIN res : res[k].new \in SUBSET Version /\ res[k].heads \in SUBSET Version
    BY <1>2 DEF ResolutionRow
  <1>4. ASSUME NEW w \in WorkUnit
        PROVE  ResolvedPublication(w, res) \in PublicationRecord
    <2> HIDE DEF res
    <2>1. w.id \in Unit
      BY DEF WorkUnit
    <2>2. /\ ResolvedHeads(w, res) \in [Key -> SUBSET Version]
          /\ ResolvedRows(w, res) \in [Key -> SUBSET Version]
      BY <1>1, <1>3, <2>1 DEF TypeOK, UnitTypeOK, ResolvedHeads, ResolvedRows
    <2>3. ResolvedStates(res) \in [Version -> {"active", "deleted"}]
      BY <1>1 DEF TypeOK, EntityTypeOK, ResolvedStates
    <2>4. /\ closeMarker[w.id] \in SUBSET Key
          /\ idempotency \in [Identity -> Record \cup {None}]
          /\ RecordsWithout(Lapsed) \in [Identity -> UnitRecord \cup {None}]
      BY <1>1, <2>1, WithoutTypes DEF TypeOK, CaptureTypeOK, IdempotencyTypeOK
    <2> QED
      BY <2>2, <2>3, <2>4 DEF ResolvedPublication, Publication, PublicationRecord
  <1> QED
    BY <1>2, <1>4

(* It is one of the contract's resolutions when the provider accepts it.   *)
LEMMA AcceptedResolution ==
    ASSUME EngineInv, NEW r \in Req, req[r].pc = "publish", NEW w \in WorkUnit,
           PublishesResolved(w, req[r].res)
    PROVE  req[r].res \in Resolutions(w)
  <1> DEFINE res == req[r].res
             K == Drifted(w)
  <1>1. /\ DOMAIN res = K
        /\ \A k \in K : res[k].published = heads[k] /\ res[k].staged = unitHeads[w.id][k]
    BY DEF PublishesResolved, Drifted
  <1>2. Resolves(r)
    BY DEF EngineInv, RequestsInv, ReadyFor
  <1>3. ASSUME NEW k \in K
        PROVE  res[k] \in ResolutionsOf(w, k) /\ res[k].heads # {}
    <2> DEFINE row == res[k]
               kept == row.heads \cap (heads[k] \cup unitHeads[w.id][k])
               y == [published |-> heads[k], new |-> row.new, kept |-> kept]
    <2>1. row \in ResolutionRow
      BY <1>1, CarriedResolutionType
    <2>2. /\ row.heads # {} /\ row.new \subseteq row.heads
          /\ row.heads \subseteq heads[k] \cup unitHeads[w.id][k] \cup row.new
          /\ row.new # {} \/ unitHeads[w.id][k] \subseteq row.heads
          /\ row.published = heads[k] /\ row.staged = unitHeads[w.id][k]
      BY <1>1, <1>2 DEF Resolves
    <2>3. row.new \cap Rows = {} /\ Rows \in SUBSET Version
      BY <1>1 DEF EngineInv, RequestsInv, DrawsInv, RequestsTypeOK, Pending
    <2> HIDE DEF row
    <2>4. row.new \in Fresh
      BY <2>1, <2>3, ClientsDrawFreely DEF Fresh, ResolutionRow
    <2>5. y \in {z \in [published : {heads[k], base[w.id][k]}, new : Fresh,
                       kept : SUBSET (heads[k] \cup unitHeads[w.id][k])] :
                  z.new # {} \/ unitHeads[w.id][k] \subseteq z.kept}
      BY <2>2, <2>4
    <2>6. row = [published |-> row.published, staged |-> row.staged,
                 new |-> row.new, heads |-> row.heads]
      BY <2>1 DEF ResolutionRow
    <2>7. row.heads = y.kept \cup y.new
      BY <2>2
    <2>8. row = [published |-> y.published, staged |-> unitHeads[w.id][k],
                 new |-> y.new, heads |-> y.kept \cup y.new]
      BY <2>2, <2>6, <2>7
    <2>9. row \in ResolutionsOf(w, k)
      <3> HIDE DEF y
      <3> QED
        BY <2>5, <2>8 DEF ResolutionsOf
    <2> QED
      BY <2>2, <2>9 DEF row
  <1>4. \A j, k \in K : j # k => res[j].new \cap res[k].new = {}
    BY <1>1, <1>2 DEF Resolves
  <1>5. res \in [K -> UNION {ResolutionsOf(w, k) : k \in K}]
    <2>1. res = [k \in K |-> res[k]]
      BY <1>1, CarriedResolutionType
    <2> HIDE DEF res, K
    <2>2. \A k \in K : res[k] \in UNION {ResolutionsOf(w, j) : j \in K}
      BY <1>3
    <2> QED
      BY <2>1, <2>2
  <1> HIDE DEF res
  <1>6. res \in Resolutions(w)
    BY <1>3, <1>4, <1>5 DEF Resolutions
  <1> QED
    BY <1>6 DEF res

(* So is a publication with resolutions.                                   *)
LEMMA PublishResolvedKeeps ==
    ASSUME EngineInv, NEW r \in Req, PublishResolved(r)
    PROVE  Allowed
  <1> DEFINE w == WorkUnitOf(r)
             res == req[r].res
             out == PublishOutcome(w, res)
  <1>0. /\ RequestsInv /\ RequestsTypeOK /\ TypeOK /\ ProviderInv
        /\ req[r].pc = "publish" /\ InUnit(r) /\ Mutation(r) \in Menu
        /\ UNCHANGED <<minted, derives, conflictPolicy>>
        /\ PublishWorkUnit(w, res)
    BY DEF EngineInv, RequestsInv, RequestsTypeOK, ProviderInv, PublishResolved,
           ReadyFor, Resolves
  <1>1. w \in WorkUnit
    BY <1>0, WorkUnitOfRequest
  <1>2. \/ out = "Published" /\ PublishesResolved(w, res)
        \/ SweepOnly /\ Quiet
    <2>1. ResolvedPublication(w, res) \in PublicationRecord
      BY <1>1, CarriedResolutionType
    <2> QED
      BY <1>0, <1>1, <2>1, PublishWorkUnitDoes
  <1>3. [Next]_providerVars
    <2>1. CASE PublishesResolved(w, res)
      <3>1. res \in Resolutions(w)
        BY <1>0, <1>1, <2>1, AcceptedResolution
      <3> QED
        BY <1>0, <1>1, <3>1 DEF Next
    <2>2. CASE SweepOnly
      BY <2>2 DEF Next, ExpireOpenWorkUnits
    <2> QED
      BY <1>2, <2>1, <2>2
  <1>4. Rows' \subseteq Rows \cup Pending(r)
    <2>1. Pending(r) = UNION {res[k].new : k \in DOMAIN res}
      BY <1>0 DEF Pending
    <2> QED
      BY <1>0, <1>1, <1>2, <2>1, QuietRows, ResolvedPublicationRows
  <1>5. \E p \in {"reread", "done"} : Moves(r, p)
    <2>1. CommitRefusal(out) \in RequestStatus
      BY DEF CommitRefusal, RequestStatus, Refusals
    <2>2. Goto(r, "reread") \/ Fail(r, CommitRefusal(out))
      BY DEF PublishResolved
    <2> HIDE DEF out
    <2> QED
      BY <1>0, <2>1, <2>2, GotoMoves, FailMoves DEF RequestPc
  <1>6. PICK p \in {"reread", "done"} : Moves(r, p)
    BY <1>5
  <1>7. p \in RequestPc \ {"idle", "commit", "publish"} /\ p # "idempotency"
    BY DEF RequestPc
  <1> QED
    BY <1>0, <1>3, <1>4, <1>6, <1>7, PolicyStays, Settles DEF Allowed

(* Every step of the engine is allowed.                                    *)
LEMMA EngineStepKeeps ==
    ASSUME EngineInv, [EngineNext]_vars
    PROVE  Allowed
  <1>1. ASSUME UNCHANGED engineVars, [Next]_providerVars, Quiet
        PROVE  Allowed
    <2>1. Rows' \subseteq Rows
      BY <1>1, QuietRows
    <2>2. RequestsInv /\ UNCHANGED <<req, minted, conflictPolicy, derives>>
      BY <1>1 DEF EngineInv, engineVars
    <2>3. RequestsTypeOK'
      BY <2>2 DEF RequestsInv, RequestsTypeOK, Mutation
    <2>4. DrawsInv'
      BY <2>1, <2>2 DEF RequestsInv, DrawsInv, Pending, Drawn
    <2>5. \A r \in Req : ReadyFor(r)'
      BY <2>2 DEF RequestsInv, ReadyFor, Prepared, Resolves, Mutation, InUnit
    <2> QED
      BY <1>1, <2>3, <2>4, <2>5 DEF Allowed, RequestsInv
  <1>2. CASE UNCHANGED vars
    BY <1>1, <1>2, StutterIsQuiet DEF vars, providerVars, unitVars
  <1>3. CASE ExpireOpenWorkUnits /\ UNCHANGED engineVars
    BY <1>1, <1>3, SweepIsQuiet DEF EngineInv, ProviderInv, Next, ExpireOpenWorkUnits
  <1>4. CASE \E u \in Unit : UnitFallsDue(u) /\ UNCHANGED engineVars
    BY <1>1, <1>4, UnitFallsDueIsQuiet DEF EngineInv, ProviderInv, Next
  <1>5. CASE \E r \in Req, n \in Node, m \in Menu :
               \E bases \in KnownBases(m) : Submit(r, n, m, bases)
    BY <1>5, SubmitKeeps
  <1>6. CASE \E r \in Req : Step(r)
    BY <1>6, AdmitKeeps, PrepareIdempotencyKeeps, ReadSelectedKeeps,
       CommitImmediateKeeps, CommitInUnitKeeps, PublishResolvedKeeps,
       ReadPublishedKeeps DEF Step
  <1>7. CASE \E r \in Req : DeadlinePasses(r)
    BY <1>7, DeadlinePassesKeeps
  <1>8. CASE \E n \in Node : Crash(n)
    BY <1>8, CrashKeeps
  <1> QED
    BY <1>2, <1>3, <1>4, <1>5, <1>6, <1>7, <1>8 DEF EngineNext

(* Before the first request the invariant of the requests holds.           *)
LEMMA InitRequestsInv ==
    ASSUME EngineInit
    PROVE  RequestsInv
  <1>1. /\ minted = {} /\ derives = [v \in Version |-> {}]
        /\ conflictPolicy = [u \in Unit |-> [k \in Key |-> None]]
        /\ \A r \in Req : /\ req[r].pc = "idle" /\ req[r].accepted = None
        /\ req \in [Req -> RequestRow]
    <2> DEFINE row == [pc |-> "idle", node |-> None, m |-> NoMutation, bases |-> {},
                       late |-> FALSE, seesDue |-> FALSE, commit |-> None,
                       accepted |-> None, res |-> <<>>, status |-> "none",
                       version |-> None]
    <2>1. row \in RequestRow
      <3>1. /\ "idle" \in RequestPc /\ "none" \in RequestStatus
            /\ None \in NoneOr(Node) /\ None \in NoneOr(EntityCommit)
            /\ None \in NoneOr(Version) /\ NoMutation \in Mutations
            /\ {} \in SUBSET Version /\ FALSE \in BOOLEAN
        BY DEF RequestPc, RequestStatus, NoneOr, Mutations
      <3> HIDE DEF row
      <3> QED
        BY <3>1, EmptyResolution DEF RequestRow, row
    <2>2. req = [r \in Req |-> row]
      BY DEF EngineInit, RequestsInit
    <2>3. row.pc = "idle" /\ row.accepted = None
      OBVIOUS
    <2> HIDE DEF row
    <2>4. req \in [Req -> RequestRow] /\ \A r \in Req : req[r] = row
      BY <2>1, <2>2
    <2> QED
      BY <2>3, <2>4 DEF EngineInit, RequestsInit
  <1>2. RequestsTypeOK
    BY <1>1, FS_EmptySet DEF RequestsTypeOK, NoneOr
  <1>3. Rows = {}
    <2>1. published = NoKeys /\ staged = [u \in Unit |-> NoKeys]
      BY DEF EngineInit, Init, UnitsInit
    <2>2. /\ \A k \in Key : published[k] = {}
          /\ \A p \in Unit \X Key : staged[p[1]][p[2]] = {}
      BY <2>1 DEF NoKeys
    <2> QED
      BY <2>2 DEF Rows
  <1>4. \A r \in Req : Pending(r) = {} /\ Drawn(r) = {}
    BY <1>1 DEF Pending, Drawn
  <1>5. DrawsInv
    BY <1>3, <1>4 DEF DrawsInv
  <1> QED
    BY <1>1, <1>2, <1>5 DEF RequestsInv, ReadyFor

(* What is proved of the provider and of the requests holds throughout.    *)
THEOREM EngineInvariant == EngineSpec => []EngineInv
  <1>1. EngineInit => EngineInv
    BY InitRequestsInv, InitKeepsProviderInv DEF EngineInit, EngineInv
  <1>2. EngineInv /\ [EngineNext]_vars => EngineInv'
    BY EngineStepKeeps, NextKeepsProviderInv DEF EngineInv, Allowed
  <1> QED
    BY <1>1, <1>2, PTL DEF EngineSpec

(* The engine is a client that the provider's contract allows: whatever    *)
(* requests race, time out or are lost with their process, every provider  *)
(* call is one of the contract's, with versions no row uses, commits of    *)
(* heads that were read and resolutions of the drift that was met.         *)
THEOREM EngineImplementsProvider == EngineSpec => ProviderContract
  <1>1. EngineInit => Init
    BY DEF EngineInit
  <1>2. EngineInv /\ [EngineNext]_vars => [Next]_providerVars
    BY EngineStepKeeps DEF Allowed
  <1>3. EngineSpec => Spec
    BY <1>1, <1>2, EngineInvariant, PTL DEF EngineSpec, Spec
  <1> QED
    BY <1>3 DEF ProviderContract

-----------------------------------------------------------------------------
(* What a step does                                                        *)

Early == {"idle", "admission", "idempotency", "read"}

(* A request past admission is in flight with its locks.                   *)
Admitted(r) == InFlight(r) /\ req[r].pc # "admission"

(* r is admitted when no other request of its process has its locks.       *)
Admits(r) ==
    /\ req[r].pc = "admission" /\ OthersStay(r)
    /\ LockKeys(Mutation(r)) \cap Held(req[r].node) = {}

(* The final read of r comes after its deadline.                           *)
ToldTooLate(r) ==
    /\ req[r].late /\ req'[r].status = "DEADLINE_EXCEEDED"
    /\ req'[r].res = req[r].res

(* r keeps what it has prepared, or is done with it; it is told of success *)
(* only by the final read and then refused only when it is late.           *)
CarriesOn(r) ==
    /\ req'[r].accepted = req[r].accepted
    /\ req[r].pc # "idle" => req'[r].m = req[r].m /\ req'[r].node = req[r].node
    /\ req[r].pc \in {"done", "lost"} => req'[r] = req[r]
    /\ req'[r].pc \in {"commit", "publish", "reread"} =>
          /\ req'[r].pc = req[r].pc
          /\ req'[r].commit = req[r].commit /\ req'[r].res = req[r].res
    /\ req'[r].pc \in Early => req[r].pc \in Early
    /\ req'[r].pc = "idle" => req'[r] = req[r]
    /\ req'[r].pc \notin {"idle", "done", "lost", "admission"} =>
          Admitted(r) \/ Admits(r)
    /\ req'[r].status # req[r].status =>
          /\ req'[r].pc = "done"
          /\ req'[r].status = "OK" => req[r].pc = "reread"
          /\ req'[r].status \in Refusals /\ req[r].pc = "reread" => ToldTooLate(r)

(* Nothing is drawn and no conflict policy recorded.                       *)
NothingNew == UNCHANGED <<minted, derives, conflictPolicy>>

(* The seven classes of steps.                                             *)
Rests == Quiet /\ NothingNew /\ \A r \in Req : CarriesOn(r)

ReadsHeads(r) ==
    LET k == Mutation(r).key
        w == WorkUnitOf(r)
    IN  /\ req[r].pc = "read" /\ Quiet /\ UNCHANGED conflictPolicy
        /\ \E hs \in SUBSET Version, merged \in SUBSET Version :
              /\ merged \subseteq hs /\ hs \subseteq minted
              /\ Prepares(r, hs, merged)
              /\ \/ ~InUnit(r) /\ hs = heads[k]
                 \/ /\ InUnit(r) /\ hs = WorkUnitHeads(w, k)
                    /\ unit'[w.id].state = "open"

CommitsImmediately(r) ==
    /\ req[r].pc = "commit" /\ ~InUnit(r)
    /\ CommitsNow(req[r].commit) /\ NothingNew
    /\ Moves(r, "done") /\ req'[r].status = "OK"

RecordsPlan(r) ==
    conflictPolicy' = [conflictPolicy EXCEPT ![Mutation(r).unit] =
                         [@ EXCEPT ![Mutation(r).key] = Mutation(r).plan]]

StagesInUnit(r) ==
    LET c == req[r].commit
        w == WorkUnitOf(r)
        close == Mutation(r).close
    IN  /\ req[r].pc = "commit" /\ InUnit(r)
        /\ Stages(w, c, close) /\ RecordsPlan(r)
        /\ \/ /\ ~close /\ UNCHANGED <<minted, derives>>
              /\ Moves(r, "done") /\ req'[r].status = "OK"
           \/ /\ close /\ UNCHANGED <<minted, derives>>
              /\ Moves(r, "done") /\ req'[r].status \in DriftRefusals
           \/ /\ close
              /\ PublicationConflicts(StagedHeads(w, c), StagedBase(w, c)) # {}
              /\ ResolvesDrift(r, StagedHeads(w, c), conflictPolicy'[w.id],
                   PublicationConflicts(StagedHeads(w, c), StagedBase(w, c)))

PublishesBatch(r) ==
    /\ req[r].pc = "commit" /\ InUnit(r) /\ Mutation(r).close
    /\ StagesAndPublishes(WorkUnitOf(r), req[r].commit)
    /\ UNCHANGED <<minted, derives>> /\ RecordsPlan(r)
    /\ Moves(r, "done") /\ req'[r].status = "OK"

PublishesDrifted(r) ==
    /\ req[r].pc = "publish" /\ InUnit(r)
    /\ PublishesResolved(WorkUnitOf(r), req[r].res) /\ NothingNew
    /\ Moves(r, "reread")
    /\ req'[r].status = req[r].status /\ req'[r].res = req[r].res

FindsSealed(r) ==
    LET u == Mutation(r).unit
    IN  /\ req[r].pc = "commit" /\ InUnit(r) /\ Mutation(r).close
        /\ unit[u].state = "closing" /\ Quiet /\ UNCHANGED conflictPolicy
        /\ ResolvesDrift(r, unitHeads[u], conflictPolicy[u],
                         PublicationConflicts(unitHeads[u], base[u]))

StepClass ==
    \/ Rests
    \/ \E r \in Req : \/ ReadsHeads(r) \/ CommitsImmediately(r) \/ StagesInUnit(r)
                      \/ PublishesBatch(r) \/ PublishesDrifted(r) \/ FindsSealed(r)

(* A request that does not move carries on with what it has.               *)
LEMMA StayingCarriesOn ==
    ASSUME NEW r, req'[r] = req[r]
    PROVE  CarriesOn(r)
  BY DEF CarriesOn, Admitted, InFlight

(* One request moves on and no other does.                                 *)
LEMMA MovingCarriesOn ==
    ASSUME NEW r \in Req, NEW p \in {"done", "read"},
           p = "read" => req[r].pc = "idempotency",
           Moves(r, p), req[r].pc \notin {"done", "lost"},
           req'[r].status # req[r].status =>
             /\ p = "done"
             /\ req'[r].status = "OK" => req[r].pc = "reread"
             /\ req'[r].status \in Refusals /\ req[r].pc = "reread" => ToldTooLate(r)
    PROVE  \A s \in Req : CarriesOn(s)
  <1>1. CarriesOn(r)
    BY DEF CarriesOn, Moves, Early, Admitted, InFlight
  <1>2. \A s \in Req \ {r} : CarriesOn(s)
    BY StayingCarriesOn DEF Moves, OthersStay
  <1> QED
    BY <1>1, <1>2

(* A refusal before the final read.                                        *)
LEMMA FailingCarriesOn ==
    ASSUME RequestsTypeOK, NEW r \in Req, req[r].pc \notin {"done", "lost", "reread"},
           NEW status \in RequestStatus \ {"OK"}, Fail(r, status)
    PROVE  \A s \in Req : CarriesOn(s)
  <1>1. Moves(r, "done") /\ req'[r].status = status
    BY FailMoves
  <1> QED
    BY <1>1, MovingCarriesOn

-----------------------------------------------------------------------------
(* Every step is in one of the classes                                     *)

(* A new request stores nothing.                                           *)
LEMMA SubmitRests ==
    ASSUME EngineInv, NEW r \in Req, NEW n, NEW m, NEW bases, Submit(r, n, m, bases)
    PROVE  Rests
  <1>1. req'[r] = [req[r] EXCEPT !.pc = "admission", !.node = n, !.m = m,
                                 !.bases = bases]
        /\ OthersStay(r) /\ req[r] \in RequestRow /\ req[r].pc = "idle"
    BY DEF Submit, EngineInv, RequestsInv, RequestsTypeOK, OthersStay
  <1>2. /\ req'[r].accepted = req[r].accepted /\ req'[r].pc = "admission"
        /\ req'[r].status = req[r].status
    BY <1>1 DEF RequestRow
  <1>3. \A s \in Req : CarriesOn(s)
    BY <1>1, <1>2, StayingCarriesOn DEF CarriesOn, OthersStay, Early, Admitted, InFlight
  <1>4. Quiet /\ NothingNew
    BY StutterIsQuiet DEF Submit, NothingNew, providerVars, unitVars
  <1> QED
    BY <1>3, <1>4 DEF Rests

(* The passing of a deadline stores nothing.                               *)
LEMMA DeadlinePassesRests ==
    ASSUME EngineInv, NEW r \in Req, DeadlinePasses(r)
    PROVE  Rests
  <1>1. req'[r] = [req[r] EXCEPT !.late = TRUE] /\ OthersStay(r)
        /\ req[r] \in RequestRow /\ req[r].pc \notin {"idle", "done", "lost"}
    BY DEF DeadlinePasses, InFlight, EngineInv, RequestsInv, RequestsTypeOK, OthersStay
  <1>2. /\ req'[r].accepted = req[r].accepted /\ req'[r].pc = req[r].pc
        /\ req'[r].status = req[r].status /\ req'[r].m = req[r].m
        /\ req'[r].node = req[r].node /\ req'[r].commit = req[r].commit
        /\ req'[r].res = req[r].res
    BY <1>1 DEF RequestRow
  <1>3. CarriesOn(r)
    BY <1>1, <1>2 DEF CarriesOn, Early, Admitted, InFlight
  <1>4. \A s \in Req : CarriesOn(s)
    BY <1>1, <1>3, StayingCarriesOn DEF OthersStay
  <1>5. Quiet /\ NothingNew
    BY StutterIsQuiet DEF DeadlinePasses, NothingNew, providerVars, unitVars
  <1> QED
    BY <1>4, <1>5 DEF Rests

(* A crash of an engine process stores nothing.                            *)
LEMMA CrashRests ==
    ASSUME EngineInv, NEW n, Crash(n)
    PROVE  Rests
  <1>1. ASSUME NEW r \in Req
        PROVE  CarriesOn(r)
    <2>1. req[r] \in RequestRow
      BY DEF EngineInv, RequestsInv, RequestsTypeOK
    <2>2. \/ req'[r] = req[r]
          \/ /\ req'[r] = [req[r] EXCEPT !.pc = "lost"]
             /\ req[r].pc \notin {"idle", "done", "lost"}
      BY DEF Crash, InFlight
    <2>3. CASE req'[r] = req[r]
      BY <2>3, StayingCarriesOn
    <2>4. CASE /\ req'[r] = [req[r] EXCEPT !.pc = "lost"]
               /\ req[r].pc \notin {"idle", "done", "lost"}
      <3>1. /\ req'[r].accepted = req[r].accepted /\ req'[r].pc = "lost"
            /\ req'[r].status = req[r].status /\ req'[r].m = req[r].m
            /\ req'[r].node = req[r].node
        BY <2>1, <2>4 DEF RequestRow
      <3> QED
        BY <2>4, <3>1 DEF CarriesOn, Early
    <2> QED
      BY <2>2, <2>3, <2>4
  <1>2. Quiet /\ NothingNew
    BY StutterIsQuiet DEF Crash, NothingNew, providerVars, unitVars
  <1> QED
    BY <1>1, <1>2 DEF Rests

(* The admission of a request stores nothing.                              *)
LEMMA AdmitRests ==
    ASSUME EngineInv, NEW r \in Req, Admit(r)
    PROVE  Rests
  <1>0. RequestsTypeOK /\ req[r].pc = "admission" /\ req[r] \in RequestRow
    BY DEF EngineInv, RequestsInv, RequestsTypeOK, Admit
  <1>1. Quiet /\ NothingNew
    BY StutterIsQuiet DEF Admit, NothingNew, providerVars, unitVars
  <1>2. CASE Fail(r, "DEADLINE_EXCEEDED")
    BY <1>0, <1>1, <1>2, FailingCarriesOn DEF Rests, RequestStatus, Refusals
  <1>3. CASE ~Fail(r, "DEADLINE_EXCEEDED")
    <2> DEFINE p == IF Mutation(r).id = None THEN "read" ELSE "idempotency"
               due == InUnit(r) /\ unit[Mutation(r).unit].due
    <2>1. req'[r] = [req[r] EXCEPT !.pc = p, !.seesDue = due] /\ OthersStay(r)
      BY <1>0, <1>3 DEF Admit, RequestsTypeOK, OthersStay
    <2>2. p \notin {"idle", "commit", "publish", "reread", "done"}
      OBVIOUS
    <2> HIDE DEF p, due
    <2>3. /\ req'[r].pc = p /\ req'[r].m = req[r].m /\ req'[r].node = req[r].node
          /\ req'[r].accepted = req[r].accepted /\ req'[r].status = req[r].status
      BY <1>0, <2>1 DEF RequestRow
    <2>4. Admits(r)
      BY <1>0, <2>1 DEF Admits, Admit
    <2>5. CarriesOn(r)
      BY <1>0, <2>2, <2>3, <2>4 DEF CarriesOn, Early
    <2>6. \A s \in Req : CarriesOn(s)
      BY <2>1, <2>5, StayingCarriesOn DEF OthersStay
    <2> QED
      BY <1>1, <2>6 DEF Rests
  <1> QED
    BY <1>2, <1>3

(* The lookup of an identity stores nothing.                               *)
LEMMA PrepareIdempotencyRests ==
    ASSUME EngineInv, NEW r \in Req, PrepareIdempotency(r)
    PROVE  Rests
  <1>0. /\ RequestsTypeOK /\ TypeOK /\ req[r].pc = "idempotency"
        /\ Mutation(r) \in Menu /\ NothingNew
    BY DEF EngineInv, RequestsInv, RequestsTypeOK, ProviderInv, PrepareIdempotency,
           NothingNew
  <1>1. Mutation(r).id \in Identity
    BY <1>0, MenuIsTyped DEF EngineInv, RequestsInv, ReadyFor
  <1>2. ASSUME NEW outcome, NEW stored, Proceed(r, outcome, stored),
               outcome \in {"Replayed", "ReplayedStaged"} => stored.result \in Version
        PROVE  \A s \in Req : CarriesOn(s)
    <2>1. CASE outcome \in {"Replayed", "ReplayedStaged"}
      <3>1. Answer(r, "REPLAYED", stored.result) /\ stored.result \in NoneOr(Version)
        BY <1>2, <2>1 DEF Proceed, NoneOr
      <3>2. Moves(r, "done") /\ req'[r].status = "REPLAYED"
        BY <1>0, <3>1, AnswerMoves DEF RequestStatus
      <3> QED
        BY <1>0, <3>2, MovingCarriesOn
    <2>2. CASE outcome \in {"Conflict", "DeadlineExceeded"}
      <3>1. Fail(r, "IDEMPOTENCY_CONFLICT") \/ Fail(r, "DEADLINE_EXCEEDED")
        BY <1>2, <2>2 DEF Proceed
      <3> QED
        BY <1>0, <3>1, FailingCarriesOn DEF RequestStatus, Refusals
    <2>3. CASE outcome \notin {"Replayed", "ReplayedStaged", "Conflict", "DeadlineExceeded"}
      <3>1. Goto(r, "read")
        BY <1>2, <2>3 DEF Proceed
      <3>2. Moves(r, "read") /\ req'[r].status = req[r].status
        BY <1>0, <3>1, GotoMoves DEF RequestPc
      <3> QED
        BY <1>0, <3>2, MovingCarriesOn
    <2> QED
      BY <2>1, <2>2, <2>3
  <1>3. CASE ReadIdempotency(req[r].late) /\ ~InUnit(r)
    <2>1. \A s \in Req : CarriesOn(s)
      <3> DEFINE outcome == IF req[r].late THEN "DeadlineExceeded"
                            ELSE IdempotencyOutcome(Mutation(r).id, Mutation(r).data)
      <3>1. Proceed(r, outcome, idempotency[Mutation(r).id])
        BY <1>3 DEF PrepareIdempotency
      <3>2. outcome \in {"Replayed", "ReplayedStaged"} =>
              idempotency[Mutation(r).id].result \in Version
        BY <1>0, <1>1, ReplayedRecords
      <3> HIDE DEF outcome
      <3> QED
        BY <1>2, <3>1, <3>2
    <2>2. Quiet
      BY <1>3, StutterIsQuiet DEF ReadIdempotency, providerVars, unitVars
    <2> QED
      BY <1>0, <2>1, <2>2 DEF Rests
  <1>4. CASE InUnit(r)
    <2> DEFINE out == ReadIdempotencyInWorkUnitOutcome(WorkUnitOf(r), Mutation(r).id,
                        Mutation(r).data, Mutation(r).close, req[r].seesDue, req[r].late)
               stored == IF out = "ReplayedStaged" THEN unitIdempotency[Mutation(r).id]
                                                   ELSE idempotency[Mutation(r).id]
    <2>1. out \in {"Replayed", "ReplayedStaged"} => stored.result \in Version
      BY <1>0, <1>1, ReplayedRecords
    <2>2. Proceed(r, out, stored)
      BY <1>4 DEF PrepareIdempotency
    <2> HIDE DEF out, stored
    <2>3. \A s \in Req : CarriesOn(s)
      BY <1>2, <2>1, <2>2
    <2>4. ReadIdempotencyInWorkUnit(WorkUnitOf(r), req[r].seesDue, req[r].late)
      BY <1>4 DEF PrepareIdempotency
    <2>5. Quiet
      BY <1>0, <1>4, <2>4, WorkUnitOfRequest, ReadIdempotencyInWorkUnitIsQuiet
    <2> QED
      BY <1>0, <2>3, <2>5 DEF Rests
  <1> QED
    BY <1>3, <1>4 DEF PrepareIdempotency

(* The read of the selected versions prepares a commit from them or stores *)
(* nothing.                                                                *)
LEMMA ReadSelectedClass ==
    ASSUME EngineInv, NEW r \in Req, ReadSelected(r)
    PROVE  StepClass
  <1> DEFINE k == Mutation(r).key
             w == WorkUnitOf(r)
             late == req[r].late
  <1>0. /\ RequestsTypeOK /\ TypeOK /\ req[r].pc = "read"
        /\ Mutation(r) \in Menu /\ UNCHANGED conflictPolicy /\ k \in Key
    BY MenuIsTyped DEF EngineInv, RequestsInv, RequestsTypeOK, ProviderInv, ReadSelected
  <1>1. ASSUME NEW status \in RequestStatus \ {"OK"}, Fail(r, status), NoDraw, Quiet
        PROVE  StepClass
    BY <1>0, <1>1, FailingCarriesOn DEF StepClass, Rests, NoDraw, NothingNew
  <1>2. ASSUME NEW hs, hs \subseteq minted, hs \in SUBSET Version, NEW vs,
               PrepareCommit(r, hs, vs), Quiet,
               \/ ~InUnit(r) /\ hs = heads[k]
               \/ InUnit(r) /\ hs = WorkUnitHeads(w, k) /\ unit'[w.id].state = "open"
        PROVE  StepClass
    <2>1. \/ /\ Fail(r, Refusal(Mutation(r), req[r].bases, hs, vs))
             /\ Refusal(Mutation(r), req[r].bases, hs, vs) \in Refusals
             /\ NoDraw
          \/ \E merged \in SUBSET hs : Prepares(r, hs, merged)
      BY <1>0, <1>2, PrepareCommitDoes
    <2>2. CASE \E merged \in SUBSET hs : Prepares(r, hs, merged)
      <3>1. PICK merged \in SUBSET hs : Prepares(r, hs, merged)
        BY <2>2
      <3>2. merged \in SUBSET Version
        BY <1>2
      <3>3. ReadsHeads(r)
        BY <1>0, <1>2, <3>1, <3>2 DEF ReadsHeads
      <3> QED
        BY <3>3 DEF StepClass
    <2>3. Refusals \subseteq RequestStatus \ {"OK"}
      BY DEF RequestStatus, Refusals
    <2> QED
      BY <1>1, <1>2, <2>1, <2>2, <2>3
  <1>3. CASE /\ ~InUnit(r) /\ ReadEntity
             /\ \/ late /\ Fail(r, "DEADLINE_EXCEEDED") /\ NoDraw
                \/ ~late /\ PrepareCommit(r, heads[k], published[k])
    <2>1. Quiet
      BY <1>0, <1>3, SweepIsQuiet DEF ReadEntity
    <2>2. heads[k] \subseteq minted /\ heads[k] \in SUBSET Version
      BY <1>0, HeadsHaveDrawnRows
    <2> QED
      BY <1>1, <1>2, <1>3, <2>1, <2>2 DEF RequestStatus, Refusals
  <1>4. CASE /\ InUnit(r)
             /\ ReadInWorkUnit(w, {k}, late)
             /\ LET out == ReadInWorkUnitOutcome(w, late)
                 IN  \/ /\ out # "open"
                        /\ Fail(r, ReadRefusal(out)) /\ NoDraw
                     \/ /\ out = "open"
                        /\ PrepareCommit(r, WorkUnitHeads(w, k),
                                            WorkUnitVersions(w, k))
    <2>0. w \in WorkUnit /\ {k} \in SUBSET Key
      BY <1>0, <1>4, WorkUnitOfRequest
    <2>1. Quiet
      BY <1>0, <1>4, <2>0, ReadInWorkUnitIsQuiet
    <2>2. WorkUnitHeads(w, k) \subseteq minted /\ WorkUnitHeads(w, k) \in SUBSET Version
      BY <1>0, <2>0, HeadsHaveDrawnRows
    <2>3. ReadRefusal(ReadInWorkUnitOutcome(w, late)) \in RequestStatus \ {"OK"}
      BY DEF ReadRefusal, RequestStatus, Refusals
    <2>4. ReadInWorkUnitOutcome(w, late) = "open" => unit'[w.id].state = "open"
      <3> SUFFICES ASSUME ReadInWorkUnitOutcome(w, late) = "open"
                   PROVE  unit'[w.id].state = "open"
        OBVIOUS
      <3>1. unit' = EnsuredUnits(w, Lapsed)
        BY <1>4 DEF ReadInWorkUnit
      <3>2. EnsuredState(w, Lapsed) = "open"
        BY DEF ReadInWorkUnitOutcome
      <3> QED
        BY <1>0, <2>0, <3>1, <3>2, EnsuredUnit
    <2> QED
      BY <1>1, <1>2, <1>4, <2>1, <2>2, <2>3, <2>4
  <1> QED
    BY <1>3, <1>4 DEF ReadSelected

(* A refused commit is never answered with success.                        *)
LEMMA CommitRefusalIsRefusal ==
    ASSUME NEW out
    PROVE  CommitRefusal(out) \in RequestStatus \ {"OK"}
  BY DEF CommitRefusal, RequestStatus, Refusals

(* An immediate commit publishes its versions or stores nothing.           *)
LEMMA CommitImmediateClass ==
    ASSUME EngineInv, NEW r \in Req, CommitImmediate(r)
    PROVE  StepClass
  <1> DEFINE m == Mutation(r)
             c == req[r].commit
             late == req[r].late
             out == IF m.id = None THEN CommitOutcome(c, late)
                    ELSE IdempotentCommitOutcome(c, m.id, m.data, late)
  <1>0. /\ RequestsTypeOK /\ TypeOK /\ req[r].pc = "commit" /\ ~InUnit(r)
        /\ m \in Menu /\ NothingNew /\ c \in EntityCommit
        /\ req[r].accepted \in NoneOr(Version)
    BY PreparedCommits DEF EngineInv, RequestsInv, RequestsTypeOK, ProviderInv,
       CommitImmediate, NothingNew, NoneOr
  <1>1. IF out = "Committed" THEN CommitsNow(c) ELSE Quiet
    <2>1. CASE m.id = None
      <3>1. CommitEntity(c, late)
        BY <2>1 DEF CommitImmediate
      <3> QED
        BY <1>0, <2>1, <3>1, CommitEntityDoes
    <2>2. CASE m.id # None
      <3>1. CommitEntityIdempotent(c, m.id, m.data, req[r].accepted, late)
        BY <2>2 DEF CommitImmediate
      <3>2. IF out = "Committed" THEN CommitsNow(c) ELSE UNCHANGED providerVars
        BY <1>0, <2>2, <3>1, CommitEntityIdempotentDoes
      <3> QED
        BY <3>2, StutterIsQuiet DEF providerVars, unitVars
    <2> QED
      BY <2>1, <2>2
  <1>2. CASE out = "Committed"
    <2>1. Answer(r, "OK", req[r].accepted)
      BY <1>2 DEF CommitImmediate
    <2>2. Moves(r, "done") /\ req'[r].status = "OK"
      BY <1>0, <2>1, AnswerMoves DEF RequestStatus
    <2> QED
      BY <1>0, <1>1, <1>2, <2>2 DEF StepClass, CommitsImmediately
  <1>3. CASE out = "Replayed"
    <2>1. m.id \in Identity /\ IdempotencyOutcome(m.id, m.data) = "Replayed"
      BY <1>0, <1>3, MenuIsTyped DEF CommitOutcome, IdempotentCommitOutcome
    <2>2. idempotency[m.id].result \in NoneOr(Version)
      BY <1>0, <2>1, ReplayedRecords DEF NoneOr
    <2>3. Answer(r, "REPLAYED", idempotency[m.id].result)
      BY <1>3 DEF CommitImmediate
    <2>4. Moves(r, "done") /\ req'[r].status = "REPLAYED"
      BY <1>0, <2>2, <2>3, AnswerMoves DEF RequestStatus
    <2>5. \A s \in Req : CarriesOn(s)
      BY <1>0, <2>4, MovingCarriesOn
    <2> QED
      BY <1>0, <1>1, <1>3, <2>5 DEF StepClass, Rests
  <1>4. CASE out \notin {"Committed", "Replayed"}
    <2>1. Fail(r, CommitRefusal(out))
      BY <1>4 DEF CommitImmediate
    <2> HIDE DEF out
    <2>2. \A s \in Req : CarriesOn(s)
      BY <1>0, <2>1, CommitRefusalIsRefusal, FailingCarriesOn
    <2> QED
      BY <1>0, <1>1, <1>4, <2>2 DEF StepClass, Rests
  <1> QED
    BY <1>2, <1>3, <1>4

(* The read of a drifted entity stores nothing.                            *)
LEMMA ReadPublishedRests ==
    ASSUME EngineInv, NEW r \in Req, ReadPublished(r)
    PROVE  Rests
  <1>0. /\ RequestsTypeOK /\ TypeOK /\ req[r].pc = "reread"
        /\ Mutation(r) \in Menu /\ NothingNew
    BY DEF EngineInv, RequestsInv, RequestsTypeOK, ProviderInv, ReadPublished,
           NothingNew
  <1>1. Quiet
    BY <1>0, SweepIsQuiet DEF ReadPublished, ReadEntity
  <1>2. heads[Mutation(r).key] \in SUBSET Version /\ req[r].accepted \in NoneOr(Version)
    BY <1>0, MenuIsTyped DEF TypeOK, EntityTypeOK, RequestsTypeOK, RequestRow
  <1>3. \/ \E v \in NoneOr(Version) : Answer(r, "OK", v)
        \/ Fail(r, "DEADLINE_EXCEEDED") /\ req[r].late
        \/ Fail(r, "OVERLOADED")
    BY <1>2 DEF ReadPublished, Active, NoneOr
  <1>4. /\ Moves(r, "done")
        /\ \/ req'[r].status \in {"OK", "OVERLOADED"}
           \/ req'[r].status = "DEADLINE_EXCEEDED" /\ req[r].late
    BY <1>0, <1>3, AnswerMoves, FailMoves DEF RequestStatus, Refusals
  <1>5. req'[r].res = req[r].res
    BY <1>0, <1>3 DEF Answer, Fail, RequestsTypeOK, RequestRow
  <1>6. \A s \in Req : CarriesOn(s)
    BY <1>0, <1>4, <1>5, MovingCarriesOn DEF Refusals, ToldTooLate
  <1> QED
    BY <1>0, <1>1, <1>6 DEF Rests

(* A publication with resolutions publishes all of them or nothing.        *)
LEMMA PublishResolvedClass ==
    ASSUME EngineInv, NEW r \in Req, PublishResolved(r)
    PROVE  StepClass
  <1> DEFINE w == WorkUnitOf(r)
             res == req[r].res
             out == PublishOutcome(w, res)
  <1>0. /\ RequestsTypeOK /\ ProviderInv
        /\ req[r].pc = "publish" /\ InUnit(r) /\ Mutation(r) \in Menu
        /\ NothingNew /\ PublishWorkUnit(w, res)
    BY DEF EngineInv, RequestsInv, RequestsTypeOK, PublishResolved, ReadyFor,
           Resolves, NothingNew
  <1>1. w \in WorkUnit
    BY <1>0, WorkUnitOfRequest
  <1>2. \/ out = "Published" /\ PublishesResolved(w, res)
        \/ out # "Published" /\ Quiet
    <2>1. ResolvedPublication(w, res) \in PublicationRecord
      BY <1>1, CarriedResolutionType
    <2> QED
      BY <1>0, <1>1, <2>1, PublishWorkUnitDoes
  <1>3. CASE out = "Published"
    <2>1. Goto(r, "reread")
      BY <1>3 DEF PublishResolved
    <2>2. Moves(r, "reread") /\ req'[r].status = req[r].status
      BY <1>0, <2>1, GotoMoves DEF RequestPc
    <2>3. req'[r].res = req[r].res
      BY <1>0, <2>1 DEF Goto, RequestsTypeOK, RequestRow
    <2> QED
      BY <1>0, <1>2, <1>3, <2>2, <2>3 DEF StepClass, PublishesDrifted
  <1>4. CASE out # "Published"
    <2>1. Fail(r, CommitRefusal(out))
      BY <1>4 DEF PublishResolved
    <2> HIDE DEF out
    <2>2. \A s \in Req : CarriesOn(s)
      BY <1>0, <2>1, CommitRefusalIsRefusal, FailingCarriesOn
    <2> QED
      BY <1>0, <1>2, <1>4, <2>2 DEF StepClass, Rests
  <1> QED
    BY <1>3, <1>4

(* What the outcome of a commit says of its close marker and of the unit.  *)
LEMMA UnitOutcomes ==
    ASSUME TypeOK, NEW w \in WorkUnit, NEW c, NEW close, NEW rec, NEW late
    PROVE  LET out == CommitInWorkUnitOutcome(w, c, close, rec, late)
           IN  /\ out = "Staged" => ~close
               /\ out = "Published" /\ EnsuredState(w, Lapsed) = "open" => close
               /\ out = "PublicationConflict" =>
                     /\ close
                     /\ EnsuredState(w, Lapsed) \in {"open", "closing"}
                     /\ EnsuredState(w, Lapsed) = "open" =>
                           PublicationConflicts(StagedHeads(w, c),
                                                StagedBase(w, c)) # {}
  <1>1. EnsuredState(w, Lapsed) \in
          {"none", "open", "closing", "committed", "expired", "mismatch"}
    BY DEF EnsuredState, TypeOK, UnitTypeOK, UnitRow, WorkUnit
  <1>2. EnsuredState(w, Lapsed) # "none"
    BY DEF EnsuredState
  <1> QED
    BY <1>1, <1>2 DEF CommitInWorkUnitOutcome

(* A commit in a unit stages, publishes the batch, finds drift, finds the  *)
(* unit sealed, or stores nothing.                                         *)
LEMMA CommitInUnitClass ==
    ASSUME EngineInv, NEW r \in Req, CommitInUnit(r)
    PROVE  StepClass
  <1> DEFINE m == Mutation(r)
             c == req[r].commit
             w == WorkUnitOf(r)
             late == req[r].late
             rec == RecordOf(r)
             out == CommitInWorkUnitOutcome(w, c, m.close, rec, late)
             opened == EnsuredState(w, Lapsed) = "open"
             stages == opened /\ out \in {"Staged", "Published", "PublicationConflict"}
             plans == IF stages THEN [conflictPolicy[m.unit] EXCEPT ![m.key] = m.plan]
                                ELSE conflictPolicy[m.unit]
  <1>0. /\ RequestsTypeOK /\ ProviderInv /\ TypeOK
        /\ req[r].pc = "commit" /\ InUnit(r)
        /\ m \in Menu /\ late \in BOOLEAN /\ m.close \in BOOLEAN
        /\ CommitEntityInWorkUnit(w, c, m.close, rec, late)
        /\ conflictPolicy' = [conflictPolicy EXCEPT ![m.unit] = plans]
        /\ conflictPolicy \in [Unit -> [Key -> NoneOr(Plan)]]
    BY MenuIsTyped DEF EngineInv, RequestsInv, RequestsTypeOK, ProviderInv,
                       CommitInUnit, RequestRow
  <1>1. /\ c \in EntityCommit /\ c.key \in Key
        /\ req[r].accepted \in c.new /\ req[r].accepted \in NoneOr(Version)
    BY <1>0, PreparedCommits DEF EntityCommit, NoneOr
  <1>2. /\ w \in WorkUnit /\ w.id = m.unit /\ m.unit \in Unit
        /\ rec \in UnitRecordsOf(c)
    BY <1>0, <1>1, WorkUnitOfRequest, RecordIsTyped
  <1>3. \/ opened /\ out = "Staged" /\ Stages(w, c, m.close)
        \/ opened /\ out = "PublicationConflict" /\ Stages(w, c, m.close)
        \/ opened /\ out = "Published" /\ StagesAndPublishes(w, c)
        \/ /\ out \notin {"Staged", "Published"}
           /\ ~(opened /\ out = "PublicationConflict")
           /\ SweepOnly /\ Quiet
    <2> HIDE DEF w, c, rec, late
    <2> QED
      BY <1>0, <1>1, <1>2, CommitInWorkUnitDoes
  <1>4. /\ out = "Staged" => ~m.close
        /\ out = "Published" /\ opened => m.close
        /\ out = "PublicationConflict" =>
              /\ m.close /\ EnsuredState(w, Lapsed) \in {"open", "closing"}
              /\ opened => PublicationConflicts(StagedHeads(w, c),
                                               StagedBase(w, c)) # {}
    <2> HIDE DEF w, c, rec, late
    <2> QED
      BY <1>0, <1>2, UnitOutcomes
  <1>5. stages => RecordsPlan(r)
    BY <1>0, <1>2 DEF RecordsPlan
  <1>6. ~stages => UNCHANGED conflictPolicy
    BY <1>0, <1>2
  <1>7. plans = conflictPolicy'[w.id]
    BY <1>0, <1>2
  <1>8. CASE out \in {"Staged", "Published"}
    <2>1. Answer(r, "OK", req[r].accepted) /\ NoDraw
      BY <1>8 DEF CommitInUnit
    <2>2. Moves(r, "done") /\ req'[r].status = "OK" /\ UNCHANGED <<minted, derives>>
      BY <1>0, <1>1, <2>1, AnswerMoves DEF RequestStatus, NoDraw
    <2>3. stages
      BY <1>3, <1>8
    <2>4. CASE out = "Staged"
      BY <1>0, <1>3, <1>4, <1>5, <2>2, <2>3, <2>4 DEF StepClass, StagesInUnit
    <2>5. CASE out = "Published"
      BY <1>0, <1>3, <1>4, <1>5, <2>2, <2>3, <2>5 DEF StepClass, PublishesBatch
    <2> QED
      BY <1>8, <2>4, <2>5
  <1>9. CASE out \notin {"Staged", "Published", "PublicationConflict"}
    <2>1. Fail(r, CommitRefusal(out)) /\ NoDraw
      BY <1>9 DEF CommitInUnit
    <2>2. Quiet /\ UNCHANGED conflictPolicy
      BY <1>3, <1>6, <1>9
    <2> HIDE DEF out
    <2>3. \A s \in Req : CarriesOn(s)
      BY <1>0, <2>1, CommitRefusalIsRefusal, FailingCarriesOn
    <2> QED
      BY <2>1, <2>2, <2>3 DEF StepClass, Rests, NothingNew, NoDraw
  <1>10. CASE out = "PublicationConflict"
    <2> DEFINE hss == IF opened THEN StagedHeads(w, c) ELSE unitHeads[m.unit]
               bss == IF opened THEN StagedBase(w, c) ELSE base[m.unit]
               K == PublicationConflicts(hss, bss)
    <2>1. ResolvePublicationConflicts(r, hss, plans, K)
      BY <1>10 DEF CommitInUnit
    <2>2. hss \in [Key -> SUBSET Version]
      BY <1>0, <1>1, <1>2, StagedTypes DEF TypeOK, UnitTypeOK
    <2>3. K \in SUBSET Key
      BY DEF PublicationConflicts
    <2>4. \/ \E status \in DriftRefusals : Fail(r, status) /\ NoDraw
          \/ ResolvesDrift(r, hss, plans, K)
      <3> HIDE DEF K, hss, plans
      <3> QED
        BY <1>0, <2>1, <2>2, <2>3, ResolvePublicationConflictsDoes
    <2>5. CASE opened
      <3>1. Stages(w, c, m.close) /\ RecordsPlan(r) /\ m.close
        BY <1>3, <1>4, <1>5, <1>10, <2>5
      <3>2. ASSUME NEW status \in DriftRefusals, Fail(r, status), NoDraw
            PROVE  StepClass
        <4>1. Moves(r, "done") /\ req'[r].status \in DriftRefusals
          BY <1>0, <3>2, FailMoves DEF DriftRefusals, RequestStatus, Refusals
        <4> QED
          BY <1>0, <3>1, <3>2, <4>1 DEF StepClass, StagesInUnit, NoDraw
      <3>3. CASE ResolvesDrift(r, hss, plans, K)
        <4>1. ResolvesDrift(r, StagedHeads(w, c), conflictPolicy'[w.id],
                PublicationConflicts(StagedHeads(w, c), StagedBase(w, c)))
          BY <1>7, <2>5, <3>3
        <4>2. PublicationConflicts(StagedHeads(w, c), StagedBase(w, c)) # {}
          BY <1>4, <1>10, <2>5
        <4> QED
          BY <1>0, <3>1, <4>1, <4>2 DEF StepClass, StagesInUnit
      <3> QED
        BY <2>4, <3>2, <3>3
    <2>6. CASE ~opened
      <3>1. Quiet /\ UNCHANGED conflictPolicy
        BY <1>3, <1>6, <1>10, <2>6
      <3>2. ASSUME NEW status \in DriftRefusals, Fail(r, status), NoDraw
            PROVE  StepClass
        <4>1. \A s \in Req : CarriesOn(s)
          BY <1>0, <3>2, FailingCarriesOn DEF DriftRefusals, RequestStatus, Refusals
        <4> QED
          BY <3>1, <3>2, <4>1 DEF StepClass, Rests, NothingNew, NoDraw
      <3>3. CASE ResolvesDrift(r, hss, plans, K)
        <4>1. m.close /\ EnsuredState(w, Lapsed) = "closing"
          BY <1>4, <1>10, <2>6
        <4>2. unit[m.unit].state = "closing"
          BY <1>2, <4>1 DEF EnsuredState
        <4>3. ResolvesDrift(r, unitHeads[m.unit], conflictPolicy[m.unit],
                PublicationConflicts(unitHeads[m.unit], base[m.unit]))
          BY <2>6, <3>3
        <4> QED
          BY <1>0, <3>1, <4>1, <4>2, <4>3 DEF StepClass, FindsSealed
      <3> QED
        BY <2>4, <3>2, <3>3
    <2> QED
      BY <2>5, <2>6
  <1> QED
    BY <1>8, <1>9, <1>10

(* Every step of the engine is in one of the classes.                      *)
LEMMA EngineStepClass ==
    ASSUME EngineInv, [EngineNext]_vars
    PROVE  StepClass
  <1>1. ASSUME UNCHANGED engineVars, Quiet
        PROVE  StepClass
    BY <1>1, StayingCarriesOn DEF engineVars, StepClass, Rests, NothingNew
  <1>2. CASE UNCHANGED vars
    BY <1>1, <1>2, StutterIsQuiet DEF vars, providerVars, unitVars
  <1>3. CASE ExpireOpenWorkUnits /\ UNCHANGED engineVars
    BY <1>1, <1>3, SweepIsQuiet DEF EngineInv, ProviderInv, ExpireOpenWorkUnits
  <1>4. CASE \E u \in Unit : UnitFallsDue(u) /\ UNCHANGED engineVars
    BY <1>1, <1>4, UnitFallsDueIsQuiet DEF EngineInv, ProviderInv
  <1>5. CASE \E r \in Req, n \in Node, m \in Menu :
               \E bases \in KnownBases(m) : Submit(r, n, m, bases)
    BY <1>5, SubmitRests DEF StepClass
  <1>6. CASE \E r \in Req : Step(r)
    BY <1>6, AdmitRests, PrepareIdempotencyRests, ReadSelectedClass,
       CommitImmediateClass, CommitInUnitClass, PublishResolvedClass,
       ReadPublishedRests DEF Step, StepClass
  <1>7. CASE \E r \in Req : DeadlinePasses(r)
    BY <1>7, DeadlinePassesRests DEF StepClass
  <1>8. CASE \E n \in Node : Crash(n)
    BY <1>8, CrashRests DEF StepClass
  <1> QED
    BY <1>2, <1>3, <1>4, <1>5, <1>6, <1>7, <1>8 DEF EngineNext

(* What a request carries to its next step it has carried before, unless   *)
(* it has just prepared it.                                                *)
Carried(r) ==
    /\ req'[r].m = req[r].m /\ req'[r].node = req[r].node
    /\ req'[r].accepted = req[r].accepted
    /\ req'[r].pc = req[r].pc
    /\ req'[r].commit = req[r].commit /\ req'[r].res = req[r].res

FindsDrift(r) == \/ FindsSealed(r)
                 \/ StagesInUnit(r) /\ req'[r].pc = "publish"

(* What a request is about to store it carried already or prepares in this *)
(* step.                                                                   *)
LEMMA CarriedOrPrepared ==
    ASSUME StepClass, NEW r \in Req
    PROVE  /\ req'[r].pc = "commit" => Carried(r) \/ ReadsHeads(r)
           /\ req'[r].pc = "publish" => Carried(r) \/ FindsDrift(r)
           /\ req'[r].pc = "reread" => Carried(r) \/ PublishesDrifted(r)
  <1>1. CASE Rests
    <2>1. CarriesOn(r)
      BY <1>1 DEF Rests
    <2> QED
      BY <2>1 DEF CarriesOn, Carried
  <1>2. ASSUME NEW s \in Req, ReadsHeads(s)
        PROVE  /\ req'[r].pc = "commit" => Carried(r) \/ ReadsHeads(r)
               /\ req'[r].pc \in {"publish", "reread"} => Carried(r)
    <2>1. OthersStay(s) /\ req'[s].pc = "commit"
      BY <1>2 DEF ReadsHeads, Prepares
    <2> QED
      BY <1>2, <2>1 DEF OthersStay, Carried
  <1>3. ASSUME NEW s \in Req, NEW p, Moves(s, p), p \in {"done", "reread"},
               p = "reread" => PublishesDrifted(s)
        PROVE  /\ req'[r].pc \in {"commit", "publish"} => Carried(r)
               /\ req'[r].pc = "reread" => Carried(r) \/ PublishesDrifted(r)
    <2>1. OthersStay(s) /\ req'[s].pc = p
      BY <1>3 DEF Moves
    <2> QED
      BY <1>3, <2>1 DEF OthersStay, Carried
  <1>4. ASSUME NEW s \in Req, NEW hss, NEW plans, NEW K,
               ResolvesDrift(s, hss, plans, K), FindsDrift(s)
        PROVE  /\ req'[r].pc \in {"commit", "reread"} => Carried(r)
               /\ req'[r].pc = "publish" => Carried(r) \/ FindsDrift(r)
    <2>1. OthersStay(s) /\ req'[s].pc = "publish"
      BY <1>4 DEF ResolvesDrift
    <2> QED
      BY <1>4, <2>1 DEF OthersStay, Carried
  <1>5. ASSUME NEW s \in Req, CommitsImmediately(s) \/ PublishesBatch(s)
        PROVE  Moves(s, "done")
    BY <1>5 DEF CommitsImmediately, PublishesBatch
  <1>6. ASSUME NEW s \in Req, PublishesDrifted(s)
        PROVE  Moves(s, "reread")
    BY <1>6 DEF PublishesDrifted
  <1>7. ASSUME NEW s \in Req, StagesInUnit(s)
        PROVE  \/ Moves(s, "done")
               \/ /\ FindsDrift(s)
                  /\ \E hss, plans, K : ResolvesDrift(s, hss, plans, K)
    <2>1. \/ Moves(s, "done")
          \/ \E hss, plans, K : ResolvesDrift(s, hss, plans, K)
      BY <1>7 DEF StagesInUnit
    <2>2. \A hss, plans, K : ResolvesDrift(s, hss, plans, K) => FindsDrift(s)
      BY <1>7 DEF ResolvesDrift, FindsDrift
    <2> QED
      BY <2>1, <2>2
  <1>8. ASSUME NEW s \in Req, FindsSealed(s)
        PROVE  /\ FindsDrift(s)
               /\ \E hss, plans, K : ResolvesDrift(s, hss, plans, K)
    BY <1>8 DEF FindsSealed, FindsDrift
  <1> QED
    BY <1>1, <1>2, <1>3, <1>4, <1>5, <1>6, <1>7, <1>8 DEF StepClass

(* A step draws new versions or none.                                      *)
LEMMA StepDraws ==
    ASSUME EngineInv, StepClass
    PROVE  \E new : Draws(new)
  <1>1. RequestsTypeOK
    BY DEF EngineInv, RequestsInv
  <1>2. ASSUME UNCHANGED <<minted, derives>>
        PROVE  \E new : Draws(new)
    BY <1>1, <1>2, NoDrawDrawsNone
  <1>3. \A r, hss, plans, K : ResolvesDrift(r, hss, plans, K) => \E new : Draws(new)
    BY DEF ResolvesDrift, DriftRows
  <1>4. ASSUME NEW r \in Req, ReadsHeads(r)
        PROVE  \E new : Draws(new)
    BY <1>4 DEF ReadsHeads, Prepares
  <1>5. ASSUME NEW r \in Req, CommitsImmediately(r) \/ PublishesBatch(r) \/ PublishesDrifted(r)
        PROVE  UNCHANGED <<minted, derives>>
    BY <1>5 DEF CommitsImmediately, PublishesBatch, PublishesDrifted, NothingNew
  <1>6. ASSUME NEW r \in Req, StagesInUnit(r) \/ FindsSealed(r)
        PROVE  \E new : Draws(new)
    BY <1>2, <1>3, <1>6 DEF StagesInUnit, FindsSealed
  <1>7. Rests => UNCHANGED <<minted, derives>>
    BY DEF Rests, NothingNew
  <1> QED
    BY <1>2, <1>4, <1>5, <1>6, <1>7 DEF StepClass

-----------------------------------------------------------------------------
(* No published write is lost                                              *)

(* Each version incorporates itself.  What a live unit has staged, and the *)
(* heads it has replaced, its heads incorporate.                           *)
UnitLineage(u) ==
    Live(u) => \A k \in Key :
        IF unitHeads[u][k] = {} THEN staged[u][k] = {}
        ELSE Incorporates(base[u][k]) \cup staged[u][k]
               \subseteq Incorporates(unitHeads[u][k])

(* What a request is about to make heads incorporates what it replaces,    *)
(* and what it adds.                                                       *)
CommitLineage(c) ==
    Incorporates(c.expected) \cup c.new \subseteq Incorporates(c.heads)
ResolutionLineage(row) ==
    Incorporates(row.published) \cup Incorporates(row.staged) \cup row.new
      \subseteq Incorporates(row.heads)
RequestLineage(r) ==
    /\ req[r].pc = "commit" => CommitLineage(req[r].commit)
    /\ req[r].pc = "publish" =>
          \A k \in DOMAIN req[r].res : ResolutionLineage(req[r].res[k])

LineageInv ==
    /\ \A v \in minted : v \in derives[v]
    /\ NoLostUpdate
    /\ \A u \in Unit : UnitLineage(u)
    /\ \A r \in Req : RequestLineage(r)

(* What S incorporates once the step is taken.                             *)
WillIncorporate(S) == UNION {derives'[v] : v \in S}

(* What versions incorporate after a step.                                 *)
LEMMA NextIncorporates ==
    ASSUME NEW STATE S
    PROVE  Incorporates(S)' = WillIncorporate(S')
  BY DEF Incorporates, WillIncorporate

(* Incorporation distributes over unions.                                  *)
LEMMA IncorporatesUnion ==
    ASSUME NEW S, NEW T
    PROVE  /\ Incorporates(S \cup T) = Incorporates(S) \cup Incorporates(T)
           /\ S \subseteq T => Incorporates(S) \subseteq Incorporates(T)
           /\ WillIncorporate(S \cup T) = WillIncorporate(S) \cup WillIncorporate(T)
           /\ S \subseteq T => WillIncorporate(S) \subseteq WillIncorporate(T)
  BY DEF Incorporates, WillIncorporate

(* Drawing changes nothing about the versions drawn before.                *)
LEMMA DrawnKeepLineage ==
    ASSUME EngineInv, NEW new, Draws(new)
    PROVE  /\ minted \subseteq minted'
           /\ \A S : S \subseteq minted => WillIncorporate(S) = Incorporates(S)
  <1>1. minted \in SUBSET Version /\ new \cap minted = {}
    BY DEF EngineInv, RequestsInv, RequestsTypeOK, Draws
  <1>2. \A v \in minted : derives'[v] = derives[v]
    BY <1>1 DEF Draws
  <1> QED
    BY <1>1, <1>2 DEF Draws, Incorporates, WillIncorporate

(* Heads and rows of any kind are those of versions drawn.                 *)
LEMMA StoredAreDrawn ==
    ASSUME EngineInv
    PROVE  /\ \A k \in Key : heads[k] \subseteq minted /\ published[k] \subseteq minted
           /\ \A u \in Unit, k \in Key :
                 /\ unitHeads[u][k] \subseteq minted /\ staged[u][k] \subseteq minted
                 /\ k \in captured[u] => base[u][k] \subseteq minted
           /\ \A r \in Req :
                 /\ req[r].pc = "commit" =>
                       /\ req[r].commit.expected \subseteq minted
                       /\ req[r].commit.heads \subseteq minted
                       /\ req[r].commit.new \subseteq minted
                 /\ req[r].pc = "publish" => \A k \in DOMAIN req[r].res :
                       /\ req[r].res[k].published \subseteq minted
                       /\ req[r].res[k].staged \subseteq minted
                       /\ req[r].res[k].heads \subseteq minted
                       /\ req[r].res[k].new \subseteq minted
  <1>1. Rows \subseteq minted
    BY DEF EngineInv, RequestsInv, DrawsInv
  <1>2. \A k \in Key : heads[k] \subseteq published[k] /\ published[k] \subseteq Rows
    BY HasRow DEF EngineInv, ProviderInv, RowsInv, HeadsHaveRows
  <1>3. \A u \in Unit, k \in Key :
           /\ unitHeads[u][k] \subseteq published[k] \cup staged[u][k]
           /\ staged[u][k] \subseteq Rows
           /\ k \in captured[u] => base[u][k] \subseteq published[k]
    BY HasRow DEF EngineInv, ProviderInv, RowsInv, HeadsHaveRows
  <1>4. ASSUME NEW r \in Req
        PROVE  /\ req[r].pc = "commit" =>
                    /\ req[r].commit.expected \subseteq minted
                    /\ req[r].commit.heads \subseteq minted
                    /\ req[r].commit.new \subseteq minted
               /\ req[r].pc = "publish" => \A k \in DOMAIN req[r].res :
                    /\ req[r].res[k].published \subseteq minted
                    /\ req[r].res[k].staged \subseteq minted
                    /\ req[r].res[k].heads \subseteq minted
                    /\ req[r].res[k].new \subseteq minted
    <2>1. Pending(r) \subseteq minted
      BY DEF EngineInv, RequestsInv, DrawsInv, Drawn
    <2>2. CASE req[r].pc = "commit"
      <3>1. Prepared(r) /\ Pending(r) = req[r].commit.new
        BY <2>2 DEF EngineInv, RequestsInv, ReadyFor, Pending
      <3> QED
        BY <2>1, <2>2, <3>1 DEF Prepared
    <2>3. CASE req[r].pc = "publish"
      <3>1. /\ Resolves(r)
            /\ \A k \in DOMAIN req[r].res : req[r].res[k].new \subseteq Pending(r)
        BY <2>3 DEF EngineInv, RequestsInv, ReadyFor, Pending
      <3> QED
        BY <2>1, <2>3, <3>1 DEF Resolves
    <2> QED
      BY <2>2, <2>3
  <1> QED
    BY <1>1, <1>2, <1>3, <1>4

(* The baseline that a live unit has captured for what it mutated is kept. *)
LEMMA BaseKept ==
    ASSUME ProviderInv, ProviderStep, NEW u \in Unit, Live(u), NEW k \in Key,
           unitHeads[u][k] # {}
    PROVE  k \in captured[u] /\ base'[u][k] = base[u][k]
  <1>1. k \in captured[u]
    BY DEF ProviderInv, UnitsInv
  <1>2. PICK a \in Unit \cup {None} :
          /\ a \in Unit => Works(a) \/ Publishes(a)
          /\ \A t \in Unit \ {a} : Keeps(t) \/ Expires(t)
    BY DEF ProviderStep
  <1>3. CASE u = a
    BY <1>1, <1>2, <1>3 DEF Works, Publishes, Captures
  <1>4. CASE u # a
    BY <1>1, <1>2, <1>4 DEF Keeps, Expires
  <1> QED
    BY <1>3, <1>4

(* What a unit sees of an entity incorporates its baseline and what the    *)
(* unit has staged.                                                        *)
LEMMA UnitSeesItsOwn ==
    ASSUME EngineInv, LineageInv, NEW w \in WorkUnit, NEW k \in Key,
           unit[w.id].state \in {"none", "open", "closing"}
    PROVE  /\ Incorporates(BaseHeads(w, k)) \cup staged[w.id][k]
                \subseteq Incorporates(WorkUnitHeads(w, k))
           /\ unitHeads[w.id][k] # {} => /\ Live(w.id)
                                         /\ BaseHeads(w, k) = base[w.id][k]
  <1>0. w.id \in Unit
    BY DEF WorkUnit
  <1>1. CASE unitHeads[w.id][k] # {}
    <2>1. Live(w.id)
      BY <1>0, <1>1 DEF EngineInv, ProviderInv, UnitsInv, Live, NoKeys
    <2>2. BaseHeads(w, k) = base[w.id][k]
      BY <1>0, <1>1, <2>1 DEF EngineInv, ProviderInv, UnitsInv, BaseHeads
    <2> QED
      BY <1>0, <1>1, <2>1, <2>2 DEF LineageInv, UnitLineage, WorkUnitHeads
  <1>2. CASE unitHeads[w.id][k] = {}
    <2>1. staged[w.id][k] = {}
      BY <1>0, <1>2 DEF LineageInv, UnitLineage, EngineInv, ProviderInv, RowsInv,
                        HeadsHaveRows, StagedIsPrivate
    <2> QED
      BY <1>2, <2>1 DEF WorkUnitHeads
  <1> QED
    BY <1>1, <1>2

(* New versions that incorporate the heads whose place they take.          *)
LEMMA ReplacedLineage ==
    ASSUME EngineInv, LineageInv, NEW drawn, Draws(drawn),
           NEW all, all \subseteq minted, NEW S, NEW new, new \subseteq drawn,
           S # {} => new # {},
           \A v \in new : Incorporates(S) \subseteq derives'[v]
    PROVE  Incorporates(all) \cup new \subseteq WillIncorporate((all \ S) \cup new)
  <1> DEFINE hs == (all \ S) \cup new
  <1>1. Incorporates(all) = WillIncorporate(all)
    BY DrawnKeepLineage
  <1>2. new \subseteq WillIncorporate(hs)
    BY DEF Draws, WillIncorporate
  <1>3. ASSUME NEW v \in all
        PROVE  derives[v] \subseteq WillIncorporate(hs)
    <2>1. derives'[v] = derives[v]
      BY DEF Draws, EngineInv, RequestsInv, RequestsTypeOK
    <2>2. CASE v \notin S
      BY <2>1, <2>2 DEF WillIncorporate
    <2>3. CASE v \in S
      <3>1. derives[v] \subseteq Incorporates(S)
        BY <2>3 DEF Incorporates
      <3>2. PICK x \in new : TRUE
        BY <2>3
      <3>3. Incorporates(S) \subseteq derives'[x]
        BY <3>2
      <3> QED
        BY <3>1, <3>2, <3>3 DEF WillIncorporate
    <2> QED
      BY <2>2, <2>3
  <1> HIDE DEF hs
  <1>4. Incorporates(all) \subseteq WillIncorporate(hs)
    BY <1>3 DEF Incorporates
  <1> QED
    BY <1>2, <1>4 DEF hs

(* A prepared commit will incorporate the heads it read.                   *)
LEMMA PreparedLineage ==
    ASSUME EngineInv, LineageInv, NEW r \in Req, ReadsHeads(r)
    PROVE  LET c == req'[r].commit
           IN  WillIncorporate(c.expected) \cup c.new \subseteq WillIncorporate(c.heads)
  <1> DEFINE c == req'[r].commit
             bases == req[r].bases
  <1>1. PICK hs \in SUBSET Version, merged \in SUBSET Version :
          merged \subseteq hs /\ hs \subseteq minted /\ Prepares(r, hs, merged)
    BY DEF ReadsHeads
  <1>2. /\ Draws(c.new) /\ c.expected = hs /\ req'[r].accepted \in c.new
        /\ c.heads = ((hs \ bases) \ merged) \cup c.new
        /\ \A v \in c.new : derives'[v] = {v} \cup Incorporates(bases \cup merged)
    BY <1>1 DEF Prepares
  <1> HIDE DEF c
  <1> DEFINE S == bases \cup merged
  <1>3. c.heads = (hs \ S) \cup c.new
    BY <1>2
  <1>4. Incorporates(hs) \cup c.new \subseteq WillIncorporate(c.heads)
    <2> HIDE DEF S
    <2>1. \A v \in c.new : Incorporates(S) \subseteq derives'[v]
      BY <1>2 DEF S
    <2> QED
      BY <1>1, <1>2, <1>3, <2>1, ReplacedLineage
  <1>5. WillIncorporate(hs) = Incorporates(hs)
    BY <1>1, <1>2, DrawnKeepLineage
  <1> QED
    BY <1>2, <1>4, <1>5 DEF c

(* A resolution incorporates the published and the staged heads it saw.    *)
LEMMA ResolvedLineage ==
    ASSUME EngineInv, LineageInv, NEW res, NEW hss, NEW plans, NEW K \in SUBSET Key,
           DriftRows(res, hss, plans, K), NEW k \in K, hss[k] \subseteq minted
    PROVE  WillIncorporate(res[k].published) \cup WillIncorporate(res[k].staged)
             \cup res[k].new \subseteq WillIncorporate(res[k].heads)
  <1> DEFINE all == hss[k] \cup heads[k]
             drawn == UNION {res[j].new : j \in K}
  <1>1. /\ Draws(drawn) /\ res[k].new \subseteq drawn
        /\ res[k].published = heads[k] /\ res[k].staged = hss[k]
    BY DEF DriftRows
  <1>2. PICK S \in SUBSET all : Replaces(res[k], all, S)
    BY DEF DriftRows
  <1>3. all \subseteq minted
    BY StoredAreDrawn
  <1> HIDE DEF drawn, all
  <1>4. /\ S # {} => res[k].new # {}
        /\ res[k].heads = (all \ S) \cup res[k].new
        /\ \A v \in res[k].new : Incorporates(S) \subseteq derives'[v]
    BY <1>2 DEF Replaces
  <1>5. Incorporates(all) \cup res[k].new \subseteq WillIncorporate(res[k].heads)
    BY <1>1, <1>3, <1>4, ReplacedLineage
  <1>6. WillIncorporate(all) = Incorporates(all)
    BY <1>1, <1>3, DrawnKeepLineage
  <1>7. /\ WillIncorporate(hss[k]) \subseteq WillIncorporate(all)
        /\ WillIncorporate(heads[k]) \subseteq WillIncorporate(all)
    BY DEF WillIncorporate, all
  <1> QED
    BY <1>1, <1>5, <1>6, <1>7

(* A request that finds drift resolves that of heads it knows.             *)
LEMMA DriftFound ==
    ASSUME EngineInv, NEW r \in Req, FindsDrift(r)
    PROVE  LET u == Mutation(r).unit
           IN  /\ u \in Unit /\ req[r].pc = "commit" /\ req'[r].pc = "publish"
               /\ \E hss, bs :
                     /\ hss \in [Key -> SUBSET Version]
                     /\ \A k \in Key : hss[k] \subseteq minted
                     /\ \/ /\ unit[u].state = "closing" /\ hss = unitHeads[u]
                           /\ Quiet
                        \/ /\ Stages(WorkUnitOf(r), req[r].commit, TRUE)
                           /\ hss = StagedHeads(WorkUnitOf(r), req[r].commit)
                           /\ RecordsPlan(r)
                     /\ ResolvesDrift(r, hss, conflictPolicy'[u],
                                      PublicationConflicts(hss, bs))
  <1> DEFINE c == req[r].commit
             w == WorkUnitOf(r)
             u == Mutation(r).unit
  <1>0. /\ InUnit(r) /\ req[r].pc = "commit" /\ Mutation(r) \in Menu /\ TypeOK
        /\ c \in EntityCommit
    BY PreparedCommits DEF FindsDrift, FindsSealed, StagesInUnit, EngineInv, RequestsInv,
           RequestsTypeOK, ProviderInv
  <1>1. w \in WorkUnit /\ w.id = u /\ u \in Unit
    BY <1>0, WorkUnitOfRequest
  <1>2. CASE FindsSealed(r)
    <2>1. unitHeads[u] \in [Key -> SUBSET Version]
      BY <1>0, <1>1 DEF TypeOK, UnitTypeOK
    <2>2. \A k \in Key : unitHeads[u][k] \subseteq minted
      BY <1>1, StoredAreDrawn
    <2>3. /\ unit[u].state = "closing" /\ Quiet /\ conflictPolicy' = conflictPolicy
          /\ ResolvesDrift(r, unitHeads[u], conflictPolicy[u],
                           PublicationConflicts(unitHeads[u], base[u]))
      BY <1>2 DEF FindsSealed
    <2>4. req'[r].pc = "publish"
      BY <2>3 DEF ResolvesDrift
    <2> QED
      BY <1>0, <1>1, <2>1, <2>2, <2>3, <2>4
  <1>3. CASE StagesInUnit(r) /\ req'[r].pc = "publish"
    <2> DEFINE hss == StagedHeads(w, c)
    <2>1. hss \in [Key -> SUBSET Version]
      BY <1>0, <1>1, StagedTypes
    <2>2. \A k \in Key : hss[k] \subseteq minted
      <3>1. c.heads \subseteq minted /\ \A k \in Key : unitHeads[u][k] \subseteq minted
        BY <1>0, <1>1, StoredAreDrawn
      <3> QED
        BY <1>0, <1>1, <3>1 DEF StagedHeads, TypeOK, UnitTypeOK, EntityCommit
    <2>3. /\ Stages(w, c, Mutation(r).close) /\ RecordsPlan(r) /\ Mutation(r).close
          /\ ResolvesDrift(r, hss, conflictPolicy'[u],
                           PublicationConflicts(hss, StagedBase(w, c)))
      BY <1>1, <1>3 DEF StagesInUnit, Moves
    <2>4. Mutation(r).close = TRUE
      BY <1>0, <2>3, MenuIsTyped
    <2> HIDE DEF hss, w, c
    <2> QED
      BY <1>0, <1>1, <1>3, <2>1, <2>2, <2>3, <2>4 DEF hss, w, c
  <1> QED
    BY <1>2, <1>3 DEF FindsDrift

(* Every step keeps the lineage of what the requests carry.                *)
LEMMA RequestLineageStep ==
    ASSUME EngineInv, LineageInv, StepClass, NEW r \in Req
    PROVE  RequestLineage(r)'
  <1>0. PICK new : Draws(new)
    BY StepDraws
  <1>1. ASSUME req'[r].pc = "commit"
        PROVE  CommitLineage(req[r].commit)'
    <2> DEFINE c == req'[r].commit
    <2>1. WillIncorporate(c.expected) \cup c.new \subseteq WillIncorporate(c.heads)
      <3>1. CASE ReadsHeads(r)
        BY <3>1, PreparedLineage
      <3>2. CASE Carried(r)
        <4>1. req[r].pc = "commit" /\ c = req[r].commit
          BY <1>1, <3>2 DEF Carried
        <4>2. c.expected \subseteq minted /\ c.heads \subseteq minted
          BY <4>1, StoredAreDrawn
        <4>3. CommitLineage(c)
          BY <4>1 DEF LineageInv, RequestLineage, CommitLineage
        <4> QED
          BY <1>0, <4>2, <4>3, DrawnKeepLineage DEF CommitLineage
      <3> QED
        BY <1>1, <3>1, <3>2, CarriedOrPrepared
    <2> QED
      BY <2>1 DEF CommitLineage, Incorporates, WillIncorporate
  <1>2. ASSUME req'[r].pc = "publish", NEW k \in DOMAIN req'[r].res
        PROVE  ResolutionLineage(req[r].res[k])'
    <2> DEFINE row == req'[r].res[k]
    <2>1. WillIncorporate(row.published) \cup WillIncorporate(row.staged) \cup row.new
            \subseteq WillIncorporate(row.heads)
      <3>1. CASE FindsDrift(r)
        <4>1. PICK hss, bs :
                /\ hss \in [Key -> SUBSET Version]
                /\ \A j \in Key : hss[j] \subseteq minted
                /\ ResolvesDrift(r, hss, conflictPolicy'[Mutation(r).unit],
                                 PublicationConflicts(hss, bs))
          BY <3>1, DriftFound
        <4> DEFINE K == PublicationConflicts(hss, bs)
        <4>2. K \in SUBSET Key
          BY DEF PublicationConflicts
        <4>3. DriftRows(req'[r].res, hss, conflictPolicy'[Mutation(r).unit], K)
          BY <4>1 DEF ResolvesDrift
        <4>4. k \in K
          BY <1>2, <4>3 DEF DriftRows
        <4> HIDE DEF K
        <4> QED
          BY <4>1, <4>2, <4>3, <4>4, ResolvedLineage
      <3>2. CASE Carried(r)
        <4>1. req[r].pc = "publish" /\ row = req[r].res[k] /\ k \in DOMAIN req[r].res
          BY <1>2, <3>2 DEF Carried
        <4>2. /\ row.published \subseteq minted /\ row.staged \subseteq minted
              /\ row.heads \subseteq minted
          BY <4>1, StoredAreDrawn
        <4>3. ResolutionLineage(row)
          BY <4>1 DEF LineageInv, RequestLineage, ResolutionLineage
        <4> QED
          BY <1>0, <4>2, <4>3, DrawnKeepLineage DEF ResolutionLineage
      <3> QED
        BY <1>2, <3>1, <3>2, CarriedOrPrepared
    <2> QED
      BY <2>1 DEF ResolutionLineage, Incorporates, WillIncorporate
  <1> QED
    BY <1>1, <1>2 DEF RequestLineage

(* A unit in which nothing is staged keeps its lineage.                    *)
LEMMA CalmLineage ==
    ASSUME EngineInv, LineageInv, ProviderStep, NEW new, Draws(new),
           NEW u \in Unit, Calm(u)
    PROVE  UnitLineage(u)'
  <1>1. CASE Live(u) /\ staged'[u] = staged[u] /\ unitHeads'[u] = unitHeads[u]
    <2>1. ASSUME NEW k \in Key, unitHeads[u][k] # {}
          PROVE  WillIncorporate(base'[u][k]) \cup staged'[u][k]
                   \subseteq WillIncorporate(unitHeads'[u][k])
      <3>1. k \in captured[u] /\ base'[u][k] = base[u][k]
        BY <1>1, <2>1, BaseKept DEF EngineInv
      <3>2. base[u][k] \subseteq minted /\ unitHeads[u][k] \subseteq minted
        BY <3>1, StoredAreDrawn
      <3>3. Incorporates(base[u][k]) \cup staged[u][k] \subseteq Incorporates(unitHeads[u][k])
        BY <1>1, <2>1 DEF LineageInv, UnitLineage
      <3> QED
        BY <1>1, <3>1, <3>2, <3>3, DrawnKeepLineage
    <2>2. \A k \in Key : unitHeads[u][k] = {} => staged[u][k] = {}
      BY <1>1 DEF LineageInv, UnitLineage
    <2> QED
      BY <1>1, <2>1, <2>2 DEF UnitLineage, Incorporates, WillIncorporate
  <1>2. CASE unit[u].state = "none" /\ staged'[u] = staged[u] /\ unitHeads'[u] = unitHeads[u]
    <2>1. \A k \in Key : staged[u][k] = {} /\ unitHeads[u][k] = {}
      BY <1>2 DEF EngineInv, ProviderInv, UnitsInv, RowsInv, HeadsHaveRows,
                  StagedIsPrivate, Live, NoKeys
    <2> QED
      BY <1>2, <2>1 DEF UnitLineage
  <1>3. CASE unit'[u].state \notin {"open", "closing"}
    BY <1>3 DEF UnitLineage, Live
  <1>4. ~Expires(u) => staged'[u] = staged[u] /\ unitHeads'[u] = unitHeads[u]
    BY DEF Calm
  <1>5. Expires(u) => unit'[u].state = "expired"
    BY DEF Expires, EngineInv, ProviderInv, TypeOK, UnitTypeOK, UnitRow
  <1>6. unit'[u].state \in {"open", "closing"} => Live(u) \/ unit[u].state = "none"
    BY <1>5 DEF Calm, Live
  <1> QED
    BY <1>1, <1>2, <1>3, <1>4, <1>5, <1>6

(* A unit that stages c keeps its lineage.                                 *)
LEMMA StagingLineage ==
    ASSUME EngineInv, LineageInv, ProviderStep, NEW new, Draws(new),
           NEW r \in Req, req[r].pc = "commit",
           NEW w \in WorkUnit, NEW close, Stages(w, req[r].commit, close),
           NEW u, u = w.id
    PROVE  UnitLineage(u)'
  <1> DEFINE c == req[r].commit
  <1>0. /\ u \in Unit /\ c \in EntityCommit /\ c.key \in Key /\ TypeOK
        /\ unitHeads[u] \in [Key -> SUBSET Version] /\ staged[u] \in [Key -> SUBSET Version]
    BY PreparedCommits DEF WorkUnit, EntityCommit, EngineInv, ProviderInv, TypeOK, UnitTypeOK
  <1>1. \A S : S \subseteq minted => WillIncorporate(S) = Incorporates(S)
    BY DrawnKeepLineage DEF Incorporates, WillIncorporate
  <1>2. /\ unit[u].state \in {"none", "open"}
        /\ WorkUnitHeads(w, c.key) = c.expected
        /\ base'[u][c.key] = BaseHeads(w, c.key)
        /\ unitHeads'[u] = StagedHeads(w, c) /\ staged'[u] = StagedRows(w, c)
    BY DEF Stages
  <1>3. /\ StagedHeads(w, c)[c.key] = c.heads
        /\ StagedRows(w, c)[c.key] = staged[u][c.key] \cup c.new
        /\ \A k \in Key \ {c.key} : /\ StagedHeads(w, c)[k] = unitHeads[u][k]
                                    /\ StagedRows(w, c)[k] = staged[u][k]
    BY <1>0 DEF StagedHeads, StagedRows
  <1>4. /\ WillIncorporate(base'[u][c.key]) \cup staged'[u][c.key]
             \subseteq WillIncorporate(unitHeads'[u][c.key])
        /\ unitHeads'[u][c.key] # {}
    <2>1. Incorporates(BaseHeads(w, c.key)) \cup staged[u][c.key] \subseteq Incorporates(c.expected)
      BY <1>0, <1>2, UnitSeesItsOwn
    <2>2. CommitLineage(c) /\ c.heads # {}
      BY <1>0 DEF LineageInv, RequestLineage, EntityCommit
    <2>3. c.heads \subseteq minted
      BY StoredAreDrawn
    <2>4. BaseHeads(w, c.key) \subseteq minted
      <3>1. c.key \in captured[u] => base[u][c.key] \subseteq minted
        BY <1>0, StoredAreDrawn
      <3>2. HeadsAt(c.key, Baseline(w)) \subseteq published[c.key]
        BY <1>0, HeadsAtHaveRows DEF EngineInv, ProviderInv
      <3>3. published[c.key] \subseteq minted
        BY <1>0, StoredAreDrawn
      <3> QED
        BY <3>1, <3>2, <3>3 DEF BaseHeads
    <2> QED
      BY <1>1, <1>2, <1>3, <2>1, <2>2, <2>3, <2>4 DEF CommitLineage
  <1>5. ASSUME NEW k \in Key \ {c.key}
        PROVE  IF unitHeads'[u][k] = {} THEN staged'[u][k] = {}
               ELSE WillIncorporate(base'[u][k]) \cup staged'[u][k]
                      \subseteq WillIncorporate(unitHeads'[u][k])
    <2>1. unitHeads'[u][k] = unitHeads[u][k] /\ staged'[u][k] = staged[u][k]
      BY <1>2, <1>3
    <2>2. CASE unitHeads[u][k] = {}
      BY <1>0, <2>1, <2>2 DEF LineageInv, UnitLineage, EngineInv, ProviderInv, RowsInv,
                              HeadsHaveRows, StagedIsPrivate
    <2>3. CASE unitHeads[u][k] # {}
      <3>1. Live(u)
        BY <1>0, <1>2, <2>3, UnitSeesItsOwn
      <3>2. k \in captured[u] /\ base'[u][k] = base[u][k]
        BY <1>0, <2>3, <3>1, BaseKept DEF EngineInv
      <3>3. base[u][k] \subseteq minted /\ unitHeads[u][k] \subseteq minted
        BY <1>0, <3>2, StoredAreDrawn
      <3>4. Incorporates(base[u][k]) \cup staged[u][k] \subseteq Incorporates(unitHeads[u][k])
        BY <1>0, <2>3, <3>1 DEF LineageInv, UnitLineage
      <3> QED
        BY <1>1, <2>1, <2>3, <3>2, <3>3, <3>4
    <2> QED
      BY <2>2, <2>3
  <1>6. \A k \in Key : IF unitHeads'[u][k] = {} THEN staged'[u][k] = {}
                       ELSE WillIncorporate(base'[u][k]) \cup staged'[u][k]
                              \subseteq WillIncorporate(unitHeads'[u][k])
    BY <1>4, <1>5
  <1> QED
    BY <1>6 DEF UnitLineage, Incorporates, WillIncorporate

(* A publication loses nothing if what it makes heads incorporates what is *)
(* published already and what it adds.                                     *)
LEMMA PublishingLosesNothing ==
    ASSUME EngineInv, LineageInv, UNCHANGED <<minted, derives>>,
           NEW w, NEW hs, NEW rows, PublishesUnit(w, hs, rows),
           \A k \in Key : hs[k] # {} =>
             Incorporates(heads[k]) \cup rows[k] \subseteq Incorporates(hs[k])
    PROVE  NoLostUpdate'
  <1>1. ASSUME NEW k \in Key
        PROVE  published'[k] \subseteq Incorporates(heads'[k])
    <2>1. published[k] \subseteq Incorporates(heads[k])
      BY DEF LineageInv, NoLostUpdate
    <2>2. CASE hs[k] = {}
      BY <2>1, <2>2 DEF PublishesUnit
    <2>3. CASE hs[k] # {}
      <3>1. heads'[k] = hs[k] /\ published'[k] = published[k] \cup rows[k]
        BY <2>3 DEF PublishesUnit
      <3> QED
        BY <2>1, <2>3, <3>1
    <2> QED
      BY <2>2, <2>3
  <1> QED
    BY <1>1 DEF NoLostUpdate, Incorporates

(* So it is for each entity in which the unit's baseline has not drifted.  *)
LEMMA UndriftedLosesNothing ==
    ASSUME EngineInv, LineageInv, NEW u \in Unit, NEW k \in Key,
           unit[u].state \in {"none", "open", "closing"},
           unitHeads[u][k] # {}, heads[k] = base[u][k]
    PROVE  Incorporates(heads[k]) \cup staged[u][k] \subseteq Incorporates(unitHeads[u][k])
  <1>1. Live(u)
    BY DEF EngineInv, ProviderInv, UnitsInv, Live, NoKeys
  <1> QED
    BY <1>1 DEF LineageInv, UnitLineage

(* The publication of a batch loses no published version.                  *)
LEMMA BatchLosesNothing ==
    ASSUME EngineInv, LineageInv, NEW r \in Req, PublishesBatch(r)
    PROVE  NoLostUpdate'
  <1> DEFINE c == req[r].commit
             w == WorkUnitOf(r)
             u == w.id
  <1>0. /\ req[r].pc = "commit" /\ InUnit(r) /\ Mutation(r) \in Menu
        /\ StagesAndPublishes(w, c) /\ UNCHANGED <<minted, derives>>
    BY DEF PublishesBatch, EngineInv, RequestsInv, RequestsTypeOK
  <1>1. /\ w \in WorkUnit /\ u \in Unit /\ c \in EntityCommit /\ c.key \in Key /\ TypeOK
        /\ unitHeads[u] \in [Key -> SUBSET Version] /\ staged[u] \in [Key -> SUBSET Version]
        /\ base[u] \in [Key -> SUBSET Version]
    BY <1>0, WorkUnitOfRequest, PreparedCommits
       DEF EntityCommit, EngineInv, ProviderInv, TypeOK, UnitTypeOK, CaptureTypeOK
  <1> HIDE DEF w, c
  <1>2. /\ unit[u].state \in {"none", "open"}
        /\ WorkUnitHeads(w, c.key) = c.expected
        /\ \A k \in Key : StagedHeads(w, c)[k] # {} => heads[k] = StagedBase(w, c)[k]
        /\ PublishesUnit(w, StagedHeads(w, c), StagedRows(w, c))
    BY <1>0 DEF StagesAndPublishes
  <1>3. /\ StagedHeads(w, c)[c.key] = c.heads
        /\ StagedRows(w, c)[c.key] = staged[u][c.key] \cup c.new
        /\ StagedBase(w, c)[c.key] = BaseHeads(w, c.key)
        /\ \A k \in Key \ {c.key} : /\ StagedHeads(w, c)[k] = unitHeads[u][k]
                                    /\ StagedRows(w, c)[k] = staged[u][k]
                                    /\ StagedBase(w, c)[k] = base[u][k]
    BY <1>1 DEF StagedHeads, StagedRows, StagedBase
  <1>4. ASSUME NEW k \in Key, StagedHeads(w, c)[k] # {}
        PROVE  Incorporates(heads[k]) \cup StagedRows(w, c)[k]
                 \subseteq Incorporates(StagedHeads(w, c)[k])
    <2>1. CASE k = c.key
      <3>1. heads[k] = BaseHeads(w, k)
        BY <1>2, <1>3, <1>4, <2>1
      <3>2. Incorporates(BaseHeads(w, k)) \cup staged[u][k] \subseteq Incorporates(c.expected)
        BY <1>1, <1>2, <2>1, UnitSeesItsOwn
      <3>3. CommitLineage(c)
        BY <1>0 DEF LineageInv, RequestLineage, c
      <3> QED
        BY <1>3, <2>1, <3>1, <3>2, <3>3 DEF CommitLineage
    <2>2. CASE k # c.key
      BY <1>1, <1>2, <1>3, <1>4, <2>2, UndriftedLosesNothing
    <2> QED
      BY <2>1, <2>2
  <1> QED
    BY <1>0, <1>2, <1>4, PublishingLosesNothing

(* Nor does a resolved publication.                                        *)
LEMMA ResolutionLosesNothing ==
    ASSUME EngineInv, LineageInv, NEW r \in Req, PublishesDrifted(r)
    PROVE  NoLostUpdate'
  <1> DEFINE w == WorkUnitOf(r)
             u == w.id
             res == req[r].res
             K == DOMAIN res
  <1>0. /\ req[r].pc = "publish" /\ InUnit(r) /\ Mutation(r) \in Menu
        /\ PublishesResolved(w, res) /\ UNCHANGED <<minted, derives>>
    BY DEF PublishesDrifted, NothingNew, EngineInv, RequestsInv, RequestsTypeOK
  <1>1. w \in WorkUnit /\ u \in Unit
    BY <1>0, WorkUnitOfRequest
  <1> HIDE DEF w
  <1>2. /\ unit[u].state = "closing"
        /\ K = PublicationConflicts(unitHeads[u], base[u])
        /\ \A k \in K : res[k].published = heads[k] /\ res[k].staged = unitHeads[u][k]
        /\ PublishesUnit(w, ResolvedHeads(w, res), ResolvedRows(w, res))
    BY <1>0 DEF PublishesResolved
  <1>3. ASSUME NEW k \in Key, ResolvedHeads(w, res)[k] # {}
        PROVE  Incorporates(heads[k]) \cup ResolvedRows(w, res)[k]
                 \subseteq Incorporates(ResolvedHeads(w, res)[k])
    <2>1. CASE k \in K
      <3>1. ResolutionLineage(res[k])
        BY <1>0, <2>1 DEF LineageInv, RequestLineage
      <3>2. unitHeads[u][k] # {}
        BY <1>2, <2>1 DEF PublicationConflicts
      <3>3. staged[u][k] \subseteq Incorporates(unitHeads[u][k])
        BY <1>1, <1>2, <3>2 DEF LineageInv, UnitLineage, Live
      <3>4. /\ ResolvedHeads(w, res)[k] = res[k].heads
            /\ ResolvedRows(w, res)[k] = staged[u][k] \cup res[k].new
        BY <2>1 DEF ResolvedHeads, ResolvedRows
      <3> QED
        BY <1>2, <2>1, <3>1, <3>3, <3>4 DEF ResolutionLineage
    <2>2. CASE k \notin K
      <3>1. /\ ResolvedHeads(w, res)[k] = unitHeads[u][k]
            /\ ResolvedRows(w, res)[k] = staged[u][k]
        BY <2>2 DEF ResolvedHeads, ResolvedRows
      <3>2. heads[k] = base[u][k]
        BY <1>2, <1>3, <2>2, <3>1 DEF PublicationConflicts
      <3> QED
        BY <1>1, <1>2, <1>3, <3>1, <3>2, UndriftedLosesNothing
    <2> QED
      BY <2>1, <2>2
  <1> QED
    BY <1>0, <1>2, <1>3, PublishingLosesNothing

(* Nor does an immediate commit.                                           *)
LEMMA CommitLosesNothing ==
    ASSUME EngineInv, LineageInv, NEW r \in Req, CommitsImmediately(r)
    PROVE  NoLostUpdate'
  <1> DEFINE c == req[r].commit
  <1>0. /\ req[r].pc = "commit" /\ CommitsNow(c) /\ UNCHANGED <<minted, derives>>
    BY DEF CommitsImmediately, NothingNew
  <1>1. c \in EntityCommit /\ c.key \in Key /\ CommitLineage(c)
    BY <1>0, PreparedCommits DEF EntityCommit, LineageInv, RequestLineage
  <1> HIDE DEF c
  <1>2. /\ heads[c.key] = c.expected
        /\ heads' = [heads EXCEPT ![c.key] = c.heads]
        /\ published' = [published EXCEPT ![c.key] = @ \cup c.new]
        /\ heads \in [Key -> SUBSET Version] /\ published \in [Key -> SUBSET Version]
    BY <1>0 DEF CommitsNow, CommitEntityInTransaction, EngineInv, ProviderInv, TypeOK,
                EntityTypeOK
  <1>3. \A k \in Key : published'[k] \subseteq Incorporates(heads'[k])
    BY <1>1, <1>2 DEF LineageInv, NoLostUpdate, CommitLineage
  <1> QED
    BY <1>0, <1>3 DEF NoLostUpdate, Incorporates

(* Nor does a step that publishes nothing.                                 *)
LEMMA UnpublishedLosesNothing ==
    ASSUME EngineInv, LineageInv, NEW new, Draws(new), UNCHANGED <<published, heads>>
    PROVE  NoLostUpdate'
  <1>1. \A k \in Key : published[k] \subseteq WillIncorporate(heads[k])
    BY StoredAreDrawn, DrawnKeepLineage DEF LineageInv, NoLostUpdate
  <1> QED
    BY <1>1 DEF NoLostUpdate, Incorporates, WillIncorporate

(* Every step of the engine keeps the lineage.                             *)
LEMMA LineageStep ==
    ASSUME EngineInv, LineageInv, [EngineNext]_vars
    PROVE  LineageInv'
  <1>0. StepClass /\ ProviderStep
    BY EngineStepClass, EngineStepKeeps, NextIsStep DEF Allowed, EngineInv
  <1>1. PICK new : Draws(new)
    BY <1>0, StepDraws
  <1>2. \A v \in minted' : v \in derives'[v]
    BY <1>1 DEF Draws, LineageInv, EngineInv, RequestsInv, RequestsTypeOK
  <1>3. \A r \in Req : RequestLineage(r)'
    BY <1>0, RequestLineageStep
  <1>4. \A u \in Unit : Calm(u) => UnitLineage(u)'
    BY <1>0, <1>1, CalmLineage
  <1>5. ASSUME NEW r \in Req, InUnit(r), req[r].pc # "idle"
        PROVE  WorkUnitOf(r) \in WorkUnit /\ WorkUnitOf(r).id \in Unit
    BY <1>5, WorkUnitOfRequest DEF EngineInv, RequestsInv, RequestsTypeOK
  <1>6. ASSUME NEW w, NEW hs, NEW rows, PublishesUnit(w, hs, rows)
        PROVE  \A u \in Unit : UnitLineage(u)'
    <2>1. UnitLineage(w.id)'
      BY <1>6 DEF PublishesUnit, UnitLineage, Live
    <2> QED
      BY <1>4, <1>6, <2>1 DEF PublishesUnit
  <1>7. NoLostUpdate' /\ \A u \in Unit : UnitLineage(u)'
    <2>1. ASSUME Quiet
          PROVE  NoLostUpdate' /\ \A u \in Unit : UnitLineage(u)'
      BY <1>1, <1>4, <2>1, UnpublishedLosesNothing DEF Quiet, entityVars
    <2>2. ASSUME NEW r \in Req, CommitsImmediately(r)
          PROVE  NoLostUpdate' /\ \A u \in Unit : UnitLineage(u)'
      BY <1>4, <2>2, CommitLosesNothing DEF CommitsImmediately, CommitsNow
    <2>3. ASSUME NEW r \in Req, StagesInUnit(r)
          PROVE  NoLostUpdate' /\ \A u \in Unit : UnitLineage(u)'
      <3> DEFINE w == WorkUnitOf(r)
                 close == Mutation(r).close
      <3>1. req[r].pc = "commit" /\ InUnit(r) /\ Stages(w, req[r].commit, close)
        BY <2>3 DEF StagesInUnit
      <3>2. w \in WorkUnit
        BY <1>5, <3>1
      <3> HIDE DEF w, close
      <3>3. \A u \in Unit : u = w.id => UnitLineage(u)'
        BY <1>0, <1>1, <3>1, <3>2, StagingLineage
      <3>4. NoLostUpdate'
        BY <1>1, <3>1, UnpublishedLosesNothing DEF Stages, Unpublished
      <3> QED
        BY <1>4, <3>1, <3>3, <3>4 DEF Stages
    <2>4. ASSUME NEW r \in Req, PublishesBatch(r)
          PROVE  NoLostUpdate' /\ \A u \in Unit : UnitLineage(u)'
      BY <1>6, <2>4, BatchLosesNothing DEF PublishesBatch, StagesAndPublishes
    <2>5. ASSUME NEW r \in Req, PublishesDrifted(r)
          PROVE  NoLostUpdate' /\ \A u \in Unit : UnitLineage(u)'
      BY <1>6, <2>5, ResolutionLosesNothing DEF PublishesDrifted, PublishesResolved
    <2> QED
      BY <1>0, <2>1, <2>2, <2>3, <2>4, <2>5 DEF StepClass, Rests, ReadsHeads, FindsSealed
  <1> QED
    BY <1>2, <1>3, <1>7 DEF LineageInv

(* Heads incorporate what they replace, at every state of the engine.      *)
LEMMA LineageKept == EngineSpec => []LineageInv
  <1>1. EngineInit => LineageInv
    <2> SUFFICES ASSUME EngineInit
                 PROVE  LineageInv
      OBVIOUS
    <2>1. /\ minted = {} /\ published = NoKeys
          /\ \A r \in Req : req[r].pc = "idle"
          /\ \A u \in Unit : unit[u].state = "none"
      BY DEF EngineInit, Init, UnitsInit, RequestsInit
    <2>2. NoLostUpdate
      BY <2>1 DEF NoLostUpdate, NoKeys
    <2> QED
      BY <2>1, <2>2 DEF LineageInv, UnitLineage, Live, RequestLineage
  <1>2. EngineInv /\ LineageInv /\ [EngineNext]_vars => LineageInv'
    BY LineageStep
  <1> QED
    BY <1>1, <1>2, EngineInvariant, PTL DEF EngineSpec

(* No published write is ever lost, whatever races.                        *)
THEOREM WritesAreNeverLost == EngineSpec => []NoLostUpdate
  <1>1. LineageInv => NoLostUpdate
    BY DEF LineageInv
  <1> QED
    BY <1>1, LineageKept, PTL

-----------------------------------------------------------------------------
(* The reject strategy never forks an entity                               *)

Single(S) == \A v, w \in S : v = w
RejectKey(k) == \A m \in Menu : m.key = k => m.plan.strategy = "reject"

(* An entity under reject has one head wherever heads of it are kept, a    *)
(* live unit that mutated it has recorded reject as its policy, and no     *)
(* drift of it is ever resolved.                                           *)
Unforked(k) ==
    /\ Single(heads[k])
    /\ \A u \in Unit :
          /\ Single(unitHeads[u][k])
          /\ Live(u) /\ unitHeads[u][k] # {} => conflictPolicy[u][k].strategy = "reject"
    /\ \A r \in Req :
          /\ req[r].pc = "commit" /\ req[r].commit.key = k => Single(req[r].commit.heads)
          /\ req[r].pc = "publish" => k \notin DOMAIN req[r].res

UnforkedInv == \A k \in Key : RejectKey(k) => Unforked(k)

(* What requests carry.                                                    *)
LEMMA RequestsStayUnforked ==
    ASSUME EngineInv, UnforkedInv, StepClass, NEW k \in Key, RejectKey(k), NEW r \in Req
    PROVE  /\ req'[r].pc = "commit" /\ req'[r].commit.key = k =>
                 Single(req'[r].commit.heads)
           /\ req'[r].pc = "publish" => k \notin DOMAIN req'[r].res
  <1>0. Unforked(k)
    BY DEF UnforkedInv
  <1>1. ASSUME Carried(r)
        PROVE  /\ req'[r].pc = "commit" /\ req'[r].commit.key = k =>
                     Single(req'[r].commit.heads)
               /\ req'[r].pc = "publish" => k \notin DOMAIN req'[r].res
    BY <1>0, <1>1 DEF Carried, Unforked
  <1>2. ASSUME ReadsHeads(r), req'[r].commit.key = k
        PROVE  Single(req'[r].commit.heads)
    <2>1. PICK hs, merged : Prepares(r, hs, merged)
      BY <1>2 DEF ReadsHeads
    <2>2. Mutation(r) \in Menu
      BY <1>2 DEF ReadsHeads, EngineInv, RequestsInv, RequestsTypeOK
    <2>3. Mutation(r).plan.strategy = "reject"
      BY <1>2, <2>1, <2>2 DEF Prepares, RejectKey
    <2> QED
      BY <2>1, <2>3 DEF Prepares, Single
  <1>3. ASSUME FindsDrift(r)
        PROVE  k \notin DOMAIN req'[r].res
    <2> DEFINE u == Mutation(r).unit
               w == WorkUnitOf(r)
               c == req[r].commit
               plans == conflictPolicy'[u]
    <2>1. PICK hss, bs :
            /\ hss \in [Key -> SUBSET Version]
            /\ \/ unit[u].state = "closing" /\ hss = unitHeads[u] /\ Quiet
               \/ Stages(w, c, TRUE) /\ hss = StagedHeads(w, c) /\ RecordsPlan(r)
            /\ ResolvesDrift(r, hss, plans, PublicationConflicts(hss, bs))
      BY <1>3, DriftFound
    <2>2. /\ u \in Unit /\ req[r].pc = "commit" /\ InUnit(r) /\ Mutation(r) \in Menu
          /\ w \in WorkUnit /\ w.id = u
          /\ c \in EntityCommit /\ c.key = Mutation(r).key /\ c.key \in Key
          /\ conflictPolicy \in [Unit -> [Key -> NoneOr(Plan)]]
          /\ unitHeads \in [Unit -> [Key -> SUBSET Version]]
      BY <1>3, WorkUnitOfRequest, PreparedCommits
         DEF FindsDrift, FindsSealed, StagesInUnit, EntityCommit, EngineInv, RequestsInv,
             RequestsTypeOK, ProviderInv, TypeOK, UnitTypeOK
    <2>3. ASSUME k \in DOMAIN req'[r].res
          PROVE  hss[k] # {} /\ ~DriftRefused(plans[k], hss[k], k)
      <3>1. DriftRows(req'[r].res, hss, plans, PublicationConflicts(hss, bs))
        BY <2>1 DEF ResolvesDrift
      <3>2. k \in PublicationConflicts(hss, bs) /\ ~DriftRefused(plans[k], hss[k], k)
        BY <2>3, <3>1 DEF DriftRows
      <3> QED
        BY <3>2 DEF PublicationConflicts
    <2>4. hss[k] # {} => plans[k].strategy = "reject"
      <3>1. CASE unit[u].state = "closing" /\ hss = unitHeads[u] /\ Quiet
        <4>1. conflictPolicy' = conflictPolicy
          BY <1>3, <2>2, <3>1 DEF FindsDrift, FindsSealed, StagesInUnit, Stages
        <4> QED
          BY <1>0, <2>2, <3>1, <4>1 DEF Unforked, Live
      <3>2. CASE Stages(w, c, TRUE) /\ hss = StagedHeads(w, c) /\ RecordsPlan(r)
        <4>1. unit[u].state \in {"none", "open"}
          BY <2>2, <3>2 DEF Stages
        <4>2. plans = [conflictPolicy[u] EXCEPT ![c.key] = Mutation(r).plan]
          BY <2>2, <3>2 DEF RecordsPlan
        <4>3. CASE k = c.key
          BY <2>2, <4>2, <4>3 DEF RejectKey
        <4>4. CASE k # c.key
          <5>1. hss[k] = unitHeads[u][k] /\ plans[k] = conflictPolicy[u][k]
            BY <2>2, <3>2, <4>2, <4>4 DEF StagedHeads
          <5>2. unitHeads[u][k] # {} => Live(u)
            BY <2>2, <4>1 DEF EngineInv, ProviderInv, UnitsInv, Live, NoKeys
          <5> QED
            BY <1>0, <2>2, <5>1, <5>2 DEF Unforked
        <4> QED
          BY <4>3, <4>4
      <3> QED
        BY <2>1, <3>1, <3>2
    <2> QED
      BY <2>3, <2>4 DEF DriftRefused
  <1> QED
    BY <1>1, <1>2, <1>3, CarriedOrPrepared

(* Units and published heads.                                              *)
LEMMA CalmStaysUnforked ==
    ASSUME EngineInv, NEW k \in Key, Unforked(k), NEW u \in Unit, Calm(u),
           conflictPolicy'[u] = conflictPolicy[u]
    PROVE  /\ Single(unitHeads'[u][k])
           /\ unit'[u].state \in {"open", "closing"} /\ unitHeads'[u][k] # {} =>
                 conflictPolicy'[u][k].strategy = "reject"
  <1>1. CASE Expires(u)
    BY <1>1 DEF Expires, NoKeys, Single
  <1>2. CASE ~Expires(u)
    <2>1. /\ unitHeads'[u] = unitHeads[u]
          /\ unit'[u].state \in {"open", "closing"} => Live(u) \/ unit[u].state = "none"
      BY <1>2 DEF Calm, Live
    <2>2. unit[u].state = "none" => unitHeads[u][k] = {}
      BY DEF EngineInv, ProviderInv, UnitsInv, NoKeys
    <2> QED
      BY <2>1, <2>2 DEF Unforked
  <1> QED
    BY <1>1, <1>2

(* Every step keeps an entity that is only under reject unforked.          *)
LEMMA UnforkedStep ==
    ASSUME EngineInv, UnforkedInv, [EngineNext]_vars, NEW k \in Key, RejectKey(k)
    PROVE  Unforked(k)'
  <1> DEFINE HeadsSingle == Single(heads'[k])
             UnitSingle(u) ==
               /\ Single(unitHeads'[u][k])
               /\ unit'[u].state \in {"open", "closing"} /\ unitHeads'[u][k] # {} =>
                     conflictPolicy'[u][k].strategy = "reject"
  <1>0. Unforked(k) /\ StepClass
    BY EngineStepClass DEF UnforkedInv
  <1>1. \A u \in Unit : Calm(u) /\ conflictPolicy'[u] = conflictPolicy[u] => UnitSingle(u)
    BY <1>0, CalmStaysUnforked
  <1>2. ASSUME NEW r \in Req, InUnit(r), req[r].pc = "commit"
        PROVE  /\ WorkUnitOf(r) \in WorkUnit /\ WorkUnitOf(r).id = Mutation(r).unit
               /\ Mutation(r).unit \in Unit /\ Mutation(r) \in Menu
               /\ req[r].commit.key = Mutation(r).key
               /\ req[r].commit.key \in Key
               /\ req[r].commit.key = k => Single(req[r].commit.heads)
    BY <1>0, <1>2, WorkUnitOfRequest, PreparedCommits
       DEF EngineInv, RequestsInv, RequestsTypeOK, Unforked, EntityCommit
  <1>3. ASSUME Quiet, UNCHANGED conflictPolicy
        PROVE  HeadsSingle /\ \A u \in Unit : UnitSingle(u)
    <2>1. HeadsSingle
      BY <1>0, <1>3 DEF Quiet, entityVars, Unforked
    <2> HIDE DEF UnitSingle
    <2> QED
      BY <1>1, <1>3, <2>1 DEF Quiet
  <1>4. ASSUME NEW r \in Req, CommitsImmediately(r)
        PROVE  HeadsSingle /\ \A u \in Unit : UnitSingle(u)
    <2> DEFINE c == req[r].commit
    <2>1. /\ req[r].pc = "commit" /\ CommitsNow(c) /\ UNCHANGED conflictPolicy
          /\ heads \in [Key -> SUBSET Version]
      BY <1>4 DEF CommitsImmediately, NothingNew, EngineInv, ProviderInv, TypeOK, EntityTypeOK
    <2>2. c.key = k => Single(c.heads)
      BY <1>0, <2>1 DEF Unforked
    <2>3. heads' = [heads EXCEPT ![c.key] = c.heads]
      BY <2>1 DEF CommitsNow, CommitEntityInTransaction
    <2> HIDE DEF c, UnitSingle
    <2>4. HeadsSingle
      BY <1>0, <2>1, <2>2, <2>3 DEF Unforked
    <2> QED
      BY <1>1, <2>1, <2>4 DEF CommitsNow
  <1>5. ASSUME NEW r \in Req, req[r].pc = "commit", InUnit(r), RecordsPlan(r)
        PROVE  LET u == Mutation(r).unit
                   hss == StagedHeads(WorkUnitOf(r), req[r].commit)
               IN  /\ Single(hss[k])
                   /\ unit[u].state \in {"none", "open"} /\ hss[k] # {} =>
                         conflictPolicy'[u][k].strategy = "reject"
                   /\ \A t \in Unit \ {u} : conflictPolicy'[t] = conflictPolicy[t]
    <2> DEFINE u == Mutation(r).unit
               c == req[r].commit
               w == WorkUnitOf(r)
    <2>1. /\ w \in WorkUnit /\ w.id = u /\ u \in Unit /\ Mutation(r) \in Menu
          /\ c.key = Mutation(r).key /\ c.key \in Key
          /\ c.key = k => Single(c.heads)
      BY <1>2, <1>5
    <2>2. /\ conflictPolicy \in [Unit -> [Key -> NoneOr(Plan)]]
          /\ unitHeads \in [Unit -> [Key -> SUBSET Version]]
      BY DEF EngineInv, RequestsInv, RequestsTypeOK, ProviderInv, TypeOK, UnitTypeOK
    <2>3. /\ conflictPolicy'[u] = [conflictPolicy[u] EXCEPT ![c.key] = Mutation(r).plan]
          /\ \A t \in Unit \ {u} : conflictPolicy'[t] = conflictPolicy[t]
      BY <1>5, <2>1, <2>2 DEF RecordsPlan
    <2>4. StagedHeads(w, c) = [unitHeads[u] EXCEPT ![c.key] = c.heads]
      BY <2>1 DEF StagedHeads
    <2>5. unit[u].state \in {"none", "open"} /\ unitHeads[u][k] # {} => Live(u)
      BY <2>1 DEF EngineInv, ProviderInv, UnitsInv, Live, NoKeys
    <2>6. CASE k = c.key
      <3>1. /\ StagedHeads(w, c)[k] = c.heads
            /\ conflictPolicy'[u][k] = Mutation(r).plan
        BY <2>1, <2>2, <2>3, <2>4, <2>6
      <3> QED
        BY <2>1, <2>3, <2>6, <3>1 DEF RejectKey
    <2>7. CASE k # c.key
      <3>1. StagedHeads(w, c)[k] = unitHeads[u][k] /\ conflictPolicy'[u][k] = conflictPolicy[u][k]
        BY <2>1, <2>2, <2>3, <2>4, <2>7
      <3> QED
        BY <1>0, <2>1, <2>3, <2>5, <3>1 DEF Unforked
    <2> QED
      BY <2>6, <2>7
  <1>6. ASSUME NEW r \in Req, StagesInUnit(r)
        PROVE  HeadsSingle /\ \A u \in Unit : UnitSingle(u)
    <2> DEFINE t == Mutation(r).unit
               c == req[r].commit
               w == WorkUnitOf(r)
               close == Mutation(r).close
    <2>1. req[r].pc = "commit" /\ InUnit(r) /\ RecordsPlan(r) /\ Stages(w, c, close)
      BY <1>6 DEF StagesInUnit
    <2>2. w.id = t /\ t \in Unit
      BY <1>2, <2>1
    <2>3. /\ Single(StagedHeads(w, c)[k])
          /\ unit[t].state \in {"none", "open"} /\ StagedHeads(w, c)[k] # {} =>
                conflictPolicy'[t][k].strategy = "reject"
          /\ \A u \in Unit \ {t} : conflictPolicy'[u] = conflictPolicy[u]
      BY <1>5, <2>1
    <2>4. UnitSingle(t)
      BY <2>1, <2>2, <2>3 DEF Stages
    <2>5. HeadsSingle
      BY <1>0, <2>1 DEF Stages, Unpublished, Unforked
    <2> HIDE DEF UnitSingle, w, c, close
    <2>6. \A u \in Unit \ {t} : UnitSingle(u)
      BY <1>1, <2>1, <2>2, <2>3 DEF Stages
    <2> QED
      BY <2>4, <2>5, <2>6
  <1>7. ASSUME NEW w, w.id \in Unit, NEW hs, NEW rows, PublishesUnit(w, hs, rows),
               Single(hs[k]),
               \A u \in Unit \ {w.id} : conflictPolicy'[u] = conflictPolicy[u]
        PROVE  HeadsSingle /\ \A u \in Unit : UnitSingle(u)
    <2>1. HeadsSingle
      BY <1>0, <1>7 DEF PublishesUnit, Unforked
    <2>2. UnitSingle(w.id)
      BY <1>7 DEF PublishesUnit
    <2> HIDE DEF UnitSingle
    <2>3. \A u \in Unit \ {w.id} : UnitSingle(u)
      BY <1>1, <1>7 DEF PublishesUnit
    <2> QED
      BY <2>1, <2>2, <2>3
  <1>8. ASSUME NEW r \in Req, PublishesBatch(r)
        PROVE  HeadsSingle /\ \A u \in Unit : UnitSingle(u)
    <2>1. /\ req[r].pc = "commit" /\ InUnit(r) /\ RecordsPlan(r)
          /\ StagesAndPublishes(WorkUnitOf(r), req[r].commit)
      BY <1>8 DEF PublishesBatch
    <2>2. WorkUnitOf(r).id = Mutation(r).unit /\ Mutation(r).unit \in Unit
      BY <1>2, <2>1
    <2>3. /\ Single(StagedHeads(WorkUnitOf(r), req[r].commit)[k])
          /\ \A u \in Unit \ {Mutation(r).unit} : conflictPolicy'[u] = conflictPolicy[u]
      BY <1>5, <2>1
    <2> HIDE DEF HeadsSingle, UnitSingle
    <2> QED
      BY <1>7, <2>1, <2>2, <2>3 DEF StagesAndPublishes
  <1>9. ASSUME NEW r \in Req, PublishesDrifted(r)
        PROVE  HeadsSingle /\ \A u \in Unit : UnitSingle(u)
    <2>1. /\ req[r].pc = "publish" /\ InUnit(r) /\ UNCHANGED conflictPolicy
          /\ PublishesResolved(WorkUnitOf(r), req[r].res)
      BY <1>9 DEF PublishesDrifted, NothingNew
    <2>2. WorkUnitOf(r).id \in Unit
      BY <2>1, WorkUnitOfRequest DEF EngineInv, RequestsInv, RequestsTypeOK
    <2>3. ResolvedHeads(WorkUnitOf(r), req[r].res)[k] = unitHeads[WorkUnitOf(r).id][k]
      BY <1>0, <2>1 DEF Unforked, ResolvedHeads
    <2>4. Single(ResolvedHeads(WorkUnitOf(r), req[r].res)[k])
      BY <1>0, <2>2, <2>3 DEF Unforked
    <2> HIDE DEF HeadsSingle, UnitSingle
    <2> QED
      BY <1>7, <2>1, <2>2, <2>4 DEF PublishesResolved
  <1>10. HeadsSingle /\ \A u \in Unit : UnitSingle(u)
    <2> HIDE DEF HeadsSingle, UnitSingle
    <2> QED
      BY <1>0, <1>3, <1>4, <1>6, <1>8, <1>9
         DEF StepClass, Rests, NothingNew, ReadsHeads, FindsSealed
  <1>11. \A r \in Req :
           /\ req'[r].pc = "commit" /\ req'[r].commit.key = k =>
                 Single(req'[r].commit.heads)
           /\ req'[r].pc = "publish" => k \notin DOMAIN req'[r].res
    BY <1>0, RequestsStayUnforked
  <1> QED
    BY <1>10, <1>11 DEF Unforked, Single, Live

(* Under the reject strategy an entity has at most one head, whatever      *)
(* races: two requests that read the same head cannot both commit, and a   *)
(* unit that drifted is refused.                                           *)
THEOREM RejectKeepsOneHead == EngineSpec => []RejectNeverForks
  <1>1. EngineInit => UnforkedInv
    <2> SUFFICES ASSUME EngineInit
                 PROVE  UnforkedInv
      OBVIOUS
    <2>1. /\ heads = NoKeys /\ unitHeads = [u \in Unit |-> NoKeys]
          /\ \A r \in Req : req[r].pc = "idle"
      BY DEF EngineInit, Init, UnitsInit, RequestsInit
    <2> QED
      BY <2>1 DEF UnforkedInv, Unforked, Single, NoKeys
  <1>2. EngineInv /\ UnforkedInv /\ [EngineNext]_vars => UnforkedInv'
    <2> SUFFICES ASSUME EngineInv, UnforkedInv, [EngineNext]_vars,
                        NEW k \in Key, RejectKey(k)
                 PROVE  Unforked(k)'
      BY DEF UnforkedInv, RejectKey
    <2> QED
      BY UnforkedStep
  <1>3. UnforkedInv => RejectNeverForks
    <2> SUFFICES ASSUME UnforkedInv, NEW k \in Key,
                        \A m \in Menu : m.key = k => m.plan.strategy = "reject"
                 PROVE  Cardinality(heads[k]) <= 1
      BY DEF RejectNeverForks
    <2>1. Single(heads[k])
      BY DEF UnforkedInv, Unforked, RejectKey
    <2>2. CASE heads[k] = {}
      BY <2>2, FS_EmptySet
    <2>3. CASE heads[k] # {}
      <3>1. PICK v \in heads[k] : TRUE
        BY <2>3
      <3>2. heads[k] = {v}
        BY <2>1, <3>1 DEF Single
      <3>3. Cardinality({v}) = 1
        BY FS_Singleton
      <3> QED
        BY <3>2, <3>3
    <2> QED
      BY <2>2, <2>3
  <1> QED
    BY <1>1, <1>2, <1>3, EngineInvariant, PTL DEF EngineSpec

-----------------------------------------------------------------------------
(* Change kinds tell the history                                           *)

(* A set has more than one element, or it has not.                         *)
LEMMA ManyElements ==
    ASSUME NEW S, IsFiniteSet(S)
    PROVE  Cardinality(S) > 1 <=> ~Single(S)
  <1>1. CASE S = {}
    BY <1>1, FS_EmptySet DEF Single
  <1>2. ASSUME NEW v \in S
        PROVE  Cardinality(S) > 1 <=> ~Single(S)
    <2>1. /\ IsFiniteSet(S \ {v}) /\ Cardinality(S \ {v}) = Cardinality(S) - 1
          /\ Cardinality(S) \in Nat /\ Cardinality(S \ {v}) \in Nat
      BY <1>2, FS_RemoveElement, FS_CardinalityType
    <2>2. Cardinality(S \ {v}) = 0 <=> S \ {v} = {}
      BY <2>1, FS_EmptySet
    <2>3. S \ {v} = {} <=> Single(S)
      BY <1>2 DEF Single
    <2> QED
      BY <2>1, <2>2, <2>3
  <1> QED
    BY <1>1, <1>2

(* mutation_change_kind, from the heads expected and whether the mutation  *)
(* deletes, agrees with derive_change_kind, from the rows, as long as the  *)
(* mutation's own version is a head.                                       *)
LEMMA ChangeKindsAgree ==
    ASSUME NEW previous, IsFiniteSet(previous), NEW hs, IsFiniteSet(hs),
           NEW deletes \in BOOLEAN, NEW states, NEW new,
           new \cap hs # {},
           \A v \in new : states[v] = IF deletes THEN "deleted" ELSE "active"
    PROVE  MutationChangeKind(previous, hs, deletes) = DeriveChangeKind(previous, hs, states)
  <1>1. /\ Cardinality(hs) > 1 <=> ~Single(hs)
        /\ Cardinality(previous) > 1 <=> ~Single(previous)
    BY ManyElements
  <1>2. Single(hs) => ((\A v \in hs : states[v] = "deleted") <=> deletes)
    BY DEF Single
  <1>3. /\ (\E v, w \in hs : v # w) <=> ~Single(hs)
        /\ (\E v, w \in previous : v # w) <=> ~Single(previous)
    BY DEF Single
  <1> HIDE DEF Single
  <1> QED
    BY <1>1, <1>2, <1>3 DEF MutationChangeKind, DeriveChangeKind

(* The kind of what a step appends to the history.                         *)
LEMMA AppendedKind ==
    ASSUME EngineInv, StepClass, NEW x \in changes' \ changes
    PROVE  x.kind = DeriveChangeKind(heads[x.key], x.heads, rowState')
  <1>1. ~Quiet
    BY DEF Quiet, entityVars
  <1>2. \A r \in Req : ~StagesInUnit(r)
    BY DEF StagesInUnit, Stages, Unpublished
  <1>3. \A w, hs, rows : PublishesUnit(w, hs, rows) =>
          x.kind = DeriveChangeKind(heads[x.key], x.heads, rowState')
    BY DEF PublishesUnit
  <1>4. ASSUME NEW r \in Req, CommitsImmediately(r)
        PROVE  x.kind = DeriveChangeKind(heads[x.key], x.heads, rowState')
    <2> DEFINE c == req[r].commit
    <2>1. /\ req[r].pc = "commit" /\ heads[c.key] = c.expected
          /\ CommitEntityInTransaction(c)
      BY <1>4 DEF CommitsImmediately, CommitsNow
    <2>2. Prepared(r) /\ IsFiniteSet(minted)
      BY <2>1 DEF EngineInv, RequestsInv, RequestsTypeOK, ReadyFor
    <2>3. /\ c.expected \subseteq minted /\ c.heads \subseteq minted
      BY <2>1, StoredAreDrawn
    <2>4. IsFiniteSet(c.expected) /\ IsFiniteSet(c.heads)
      BY <2>2, <2>3, FS_Subset
    <2>5. /\ c.new \cap c.heads # {} /\ c.new \in SUBSET Version /\ c.deletes \in BOOLEAN
          /\ c.kind = MutationChangeKind(c.expected, c.heads, c.deletes)
      BY <2>2 DEF Prepared, EntityCommit
    <2>6. x.key = c.key /\ x.kind = c.kind /\ x.heads = c.heads
      BY <2>1 DEF CommitEntityInTransaction
    <2>7. \A v \in c.new : rowState'[v] = IF c.deletes THEN "deleted" ELSE "active"
      BY <2>1, <2>5 DEF CommitEntityInTransaction, StateOf
    <2> HIDE DEF c
    <2>8. MutationChangeKind(c.expected, c.heads, c.deletes)
            = DeriveChangeKind(c.expected, c.heads, rowState')
      BY <2>4, <2>5, <2>7, ChangeKindsAgree
    <2> QED
      BY <2>1, <2>5, <2>6, <2>8
  <1> QED
    BY <1>1, <1>2, <1>3, <1>4
       DEF StepClass, Rests, ReadsHeads, FindsSealed, PublishesBatch, StagesAndPublishes,
           PublishesDrifted, PublishesResolved

(* Every change that a step appends has the kind of its transition.        *)
LEMMA ChangeKindsStep ==
    ASSUME EngineInv, EngineInv', ChangeKindsTellHistory, [EngineNext]_vars
    PROVE  ChangeKindsTellHistory'
  <1>0. StepClass /\ ProviderStep /\ TypeOK /\ TypeOK' /\ HistoryMatchesHeads
    BY EngineStepClass, EngineStepKeeps, NextIsStep
       DEF Allowed, EngineInv, ProviderInv, HistoryInv
  <1>1. PICK a \in Unit \cup {None} : EntityStep(a)
    BY <1>0 DEF ProviderStep
  <1>2. /\ frontier \in Nat /\ frontier' \in Nat
        /\ \A x \in changes' : /\ x.cursor \in Nat \ {0} /\ x.key \in Key
        /\ \A x \in changes : x \in changes' /\ x.cursor <= frontier
    BY <1>0, <1>1 DEF TypeOK, EntityTypeOK, Change, EntityStep, HistoryMatchesHeads
  <1>3. ASSUME NEW x \in changes
        PROVE  x.kind = DeriveChangeKind(HeadsAt(x.key, x.cursor - 1)', x.heads, rowState')
    <2>1. x.cursor - 1 \in Nat /\ x.cursor - 1 <= frontier /\ x.key \in Key
      BY <1>2
    <2>2. HeadsAt(x.key, x.cursor - 1)' = HeadsAt(x.key, x.cursor - 1)
      BY <1>0, <1>1, <2>1, HeadsAtStable
    <2>3. x.heads \subseteq published[x.key]
      BY DEF EngineInv, ProviderInv, RowsInv
    <2>4. \A v \in x.heads : rowState'[v] = rowState[v]
      BY <1>1, <2>1, <2>3 DEF EntityStep
    <2>5. x.kind = DeriveChangeKind(HeadsAt(x.key, x.cursor - 1), x.heads, rowState)
      BY DEF ChangeKindsTellHistory
    <2> QED
      BY <2>2, <2>4, <2>5 DEF DeriveChangeKind
  <1>4. ASSUME NEW x \in changes' \ changes
        PROVE  x.kind = DeriveChangeKind(HeadsAt(x.key, x.cursor - 1)', x.heads, rowState')
    <2>1. /\ x.cursor - 1 \in Nat /\ frontier <= x.cursor - 1 /\ x.key \in Key
          /\ \A q \in changes' \ changes : q.key = x.key => q = x
      BY <1>1, <1>2 DEF EntityStep
    <2> DEFINE new == {q \in changes' : q.key = x.key /\ q.cursor <= x.cursor - 1}
               old == {q \in changes : q.key = x.key /\ q.cursor <= frontier}
    <2>2. new = old
      BY <1>2, <2>1
    <2>3. HeadsAt(x.key, x.cursor - 1)' =
            UNION {q.heads : q \in {q \in new : \A p \in new : p.cursor <= q.cursor}}
      BY DEF HeadsAt
    <2>4. HeadsAt(x.key, frontier) =
            UNION {q.heads : q \in {q \in old : \A p \in old : p.cursor <= q.cursor}}
      BY DEF HeadsAt
    <2>5. HeadsAt(x.key, x.cursor - 1)' = heads[x.key]
      BY <1>0, <2>1, <2>2, <2>3, <2>4 DEF HistoryMatchesHeads
    <2> QED
      BY <1>0, <2>5, AppendedKind
  <1>5. \A x \in changes' :
          x.kind = DeriveChangeKind(HeadsAt(x.key, x.cursor - 1)', x.heads, rowState')
    BY <1>3, <1>4
  <1> QED
    BY <1>5 DEF ChangeKindsTellHistory, HeadsAt

(* Every change event names the transition that really took place, though  *)
(* an immediate mutation names it from heads it has read earlier and a     *)
(* batch from those at its publication.                                    *)
THEOREM ChangeKindsAreTrue == EngineSpec => []ChangeKindsTellHistory
  <1>1. EngineInit => ChangeKindsTellHistory
    BY DEF EngineInit, Init, ChangeKindsTellHistory
  <1>2. EngineInv /\ EngineInv' /\ ChangeKindsTellHistory /\ [EngineNext]_vars
          => ChangeKindsTellHistory'
    BY ChangeKindsStep
  <1> QED
    BY <1>1, <1>2, EngineInvariant, PTL DEF EngineSpec

-----------------------------------------------------------------------------
(* What becomes of what is staged                                          *)

(* A step leaves a unit as it is, or lets it expire, unless a request      *)
(* stages in it or publishes it.                                           *)
LEMMA UnitMoves ==
    ASSUME StepClass, NEW u \in Unit
    PROVE  \/ Calm(u)
           \/ \E r \in Req : /\ Mutation(r).unit = u
                             /\ StagesInUnit(r) \/ PublishesBatch(r) \/ PublishesDrifted(r)
  <1>1. \A r : WorkUnitOf(r).id = Mutation(r).unit
    BY DEF WorkUnitOf
  <1>2. CASE Quiet
    BY <1>2 DEF Quiet
  <1>3. \A r \in Req : CommitsImmediately(r) => Calm(u)
    BY DEF CommitsImmediately, CommitsNow
  <1>4. \A r \in Req : StagesInUnit(r) => Calm(u) \/ Mutation(r).unit = u
    BY <1>1 DEF StagesInUnit, Stages
  <1>5. \A r \in Req : PublishesBatch(r) => Calm(u) \/ Mutation(r).unit = u
    BY <1>1 DEF PublishesBatch, StagesAndPublishes, PublishesUnit
  <1>6. \A r \in Req : PublishesDrifted(r) => Calm(u) \/ Mutation(r).unit = u
    BY <1>1 DEF PublishesDrifted, PublishesResolved, PublishesUnit
  <1>7. \A r \in Req : Rests \/ ReadsHeads(r) \/ FindsSealed(r) => Quiet
    BY DEF Rests, ReadsHeads, FindsSealed
  <1> QED
    BY <1>2, <1>3, <1>4, <1>5, <1>6, <1>7 DEF StepClass, Rests

(* A request at a commit or publication of a unit is one of its mutations. *)
LEMMA UnitRequest ==
    ASSUME EngineInv, NEW r \in Req, InUnit(r), req[r].pc # "idle"
    PROVE  /\ WorkUnitOf(r) \in WorkUnit /\ WorkUnitOf(r).id = Mutation(r).unit
           /\ Mutation(r).unit \in Unit /\ Mutation(r) \in Menu
  BY WorkUnitOfRequest DEF EngineInv, RequestsInv, RequestsTypeOK

(* What is staged anew is what the request that stages it has drawn.       *)
LEMMA NewlyStaged ==
    ASSUME EngineInv, StepClass, NEW u \in Unit, NEW k \in Key,
           NEW v \in staged'[u][k] \ staged[u][k]
    PROVE  \E r \in Req : Mutation(r).unit = u /\ StagesInUnit(r) /\ v \in Pending(r)
  <1>1. ~Calm(u)
    BY DEF Calm, Expires, NoKeys
  <1>2. PICK r \in Req : /\ Mutation(r).unit = u
                         /\ StagesInUnit(r) \/ PublishesBatch(r) \/ PublishesDrifted(r)
    BY <1>1, UnitMoves
  <1>3. WorkUnitOf(r).id = u
    BY <1>2 DEF WorkUnitOf
  <1>4. ASSUME NEW w, w.id = u, NEW hs, NEW rows, PublishesUnit(w, hs, rows)
        PROVE  FALSE
    BY <1>4 DEF PublishesUnit, NoKeys
  <1>5. StagesInUnit(r)
    BY <1>2, <1>3, <1>4 DEF PublishesBatch, StagesAndPublishes, PublishesDrifted,
                            PublishesResolved
  <1> DEFINE c == req[r].commit
             w == WorkUnitOf(r)
  <1>6. req[r].pc = "commit" /\ InUnit(r) /\ staged'[w.id] = StagedRows(w, c)
    BY <1>5 DEF StagesInUnit, Stages
  <1>7. w.id = u /\ Pending(r) = c.new /\ staged[u] \in [Key -> SUBSET Version]
    BY <1>3, <1>6 DEF Pending, EngineInv, ProviderInv, TypeOK, UnitTypeOK
  <1> HIDE DEF c, w
  <1>8. v \in c.new
    BY <1>6, <1>7 DEF StagedRows
  <1> QED
    BY <1>2, <1>5, <1>7, <1>8

(* What is published anew was staged in the unit published, or drawn by    *)
(* the request that publishes it.                                          *)
LEMMA NewlyPublished ==
    ASSUME EngineInv, StepClass, NEW k \in Key, NEW v \in published'[k] \ published[k]
    PROVE  \E r \in Req :
              \/ /\ CommitsImmediately(r) \/ PublishesBatch(r) \/ PublishesDrifted(r)
                 /\ v \in Pending(r)
              \/ /\ PublishesBatch(r) \/ PublishesDrifted(r)
                 /\ Mutation(r).unit \in Unit /\ v \in staged[Mutation(r).unit][k]
  <1>1. published \in [Key -> SUBSET Version]
    BY DEF EngineInv, ProviderInv, TypeOK, EntityTypeOK
  <1>2. ASSUME UNCHANGED published
        PROVE  FALSE
    BY <1>2
  <1>3. ASSUME NEW w, NEW hs, NEW rows, PublishesUnit(w, hs, rows)
        PROVE  v \in rows[k]
    BY <1>3 DEF PublishesUnit
  <1>4. \A r \in Req : CommitsImmediately(r) => v \in Pending(r)
    <2> SUFFICES ASSUME NEW r \in Req, CommitsImmediately(r)
                 PROVE  v \in Pending(r)
      OBVIOUS
    <2> DEFINE c == req[r].commit
    <2>1. /\ published' = [published EXCEPT ![c.key] = @ \cup c.new]
          /\ Pending(r) = c.new
      BY DEF CommitsImmediately, CommitsNow, CommitEntityInTransaction, Pending
    <2> HIDE DEF c
    <2> QED
      BY <1>1, <2>1
  <1>5. ASSUME NEW r \in Req, PublishesBatch(r)
        PROVE  /\ Mutation(r).unit \in Unit
               /\ v \in Pending(r) \/ v \in staged[Mutation(r).unit][k]
    <2> DEFINE c == req[r].commit
               w == WorkUnitOf(r)
    <2>1. req[r].pc = "commit" /\ InUnit(r) /\ PublishesUnit(w, StagedHeads(w, c), StagedRows(w, c))
      BY <1>5 DEF PublishesBatch, StagesAndPublishes
    <2>2. /\ Mutation(r).unit \in Unit /\ w.id = Mutation(r).unit /\ Pending(r) = c.new
          /\ staged[w.id] \in [Key -> SUBSET Version]
      BY <2>1, UnitRequest DEF Pending, EngineInv, ProviderInv, TypeOK, UnitTypeOK
    <2> HIDE DEF c, w
    <2>3. v \in StagedRows(w, c)[k]
      BY <1>3, <2>1
    <2> QED
      BY <2>2, <2>3 DEF StagedRows
  <1>6. ASSUME NEW r \in Req, PublishesDrifted(r)
        PROVE  /\ Mutation(r).unit \in Unit
               /\ v \in Pending(r) \/ v \in staged[Mutation(r).unit][k]
    <2> DEFINE res == req[r].res
               w == WorkUnitOf(r)
    <2>1. /\ req[r].pc = "publish" /\ InUnit(r)
          /\ PublishesUnit(w, ResolvedHeads(w, res), ResolvedRows(w, res))
      BY <1>6 DEF PublishesDrifted, PublishesResolved
    <2>2. /\ Mutation(r).unit \in Unit /\ w.id = Mutation(r).unit
          /\ k \in DOMAIN res => res[k].new \subseteq Pending(r)
      BY <2>1, UnitRequest DEF Pending
    <2> HIDE DEF res, w
    <2>3. v \in ResolvedRows(w, res)[k]
      BY <1>3, <2>1
    <2> QED
      BY <2>2, <2>3 DEF ResolvedRows
  <1>7. \A r \in Req : Rests \/ ReadsHeads(r) \/ StagesInUnit(r) \/ FindsSealed(r) => UNCHANGED published
    BY DEF Rests, ReadsHeads, FindsSealed, StagesInUnit, Stages, Quiet, entityVars, Unpublished
  <1>8. Rests => UNCHANGED published
    BY DEF Rests, Quiet, entityVars
  <1> QED
    BY <1>2, <1>4, <1>5, <1>6, <1>7, <1>8 DEF StepClass

(* What a live unit has staged of an entity is seen among its heads, and   *)
(* so is published with it: a staged version stays staged, is published,   *)
(* or expires with its unit.                                               *)
LEMMA StagedGoesOn ==
    ASSUME EngineInv, LineageInv, StepClass, NEW u \in Unit, NEW k \in Key,
           NEW v \in staged[u][k]
    PROVE  \/ v \in staged'[u][k]
           \/ v \in published'[k]
           \/ unit'[u].state = "expired"
  <1>1. /\ Live(u) /\ unitHeads[u][k] # {}
        /\ unitHeads[u] \in [Key -> SUBSET Version] /\ staged[u] \in [Key -> SUBSET Version]
    BY DEF LineageInv, UnitLineage, EngineInv, ProviderInv, RowsInv, HeadsHaveRows,
           StagedIsPrivate, TypeOK, UnitTypeOK
  <1>2. CASE Calm(u)
    BY <1>2 DEF Calm, Expires, EngineInv, ProviderInv, TypeOK, UnitTypeOK, UnitRow
  <1>3. ASSUME NEW r \in Req, Mutation(r).unit = u, StagesInUnit(r)
        PROVE  v \in staged'[u][k]
    <2> DEFINE c == req[r].commit
               w == WorkUnitOf(r)
    <2>1. staged'[w.id] = StagedRows(w, c) /\ w.id = u
      BY <1>3 DEF StagesInUnit, Stages, WorkUnitOf
    <2> HIDE DEF c, w
    <2> QED
      BY <1>1, <2>1 DEF StagedRows
  <1>4. ASSUME NEW w, w.id = u, NEW hs, NEW rows, PublishesUnit(w, hs, rows),
               hs[k] # {}, staged[u][k] \subseteq rows[k]
        PROVE  v \in published'[k]
    BY <1>4 DEF PublishesUnit
  <1>5. ASSUME NEW r \in Req, Mutation(r).unit = u, PublishesBatch(r)
        PROVE  v \in published'[k]
    <2> DEFINE c == req[r].commit
               w == WorkUnitOf(r)
    <2>1. /\ req[r].pc = "commit" /\ w.id = u
          /\ PublishesUnit(w, StagedHeads(w, c), StagedRows(w, c))
      BY <1>5 DEF PublishesBatch, StagesAndPublishes, WorkUnitOf
    <2>2. c \in EntityCommit
      BY <2>1, PreparedCommits
    <2> HIDE DEF c, w
    <2>3. StagedHeads(w, c)[k] # {} /\ staged[u][k] \subseteq StagedRows(w, c)[k]
      BY <1>1, <2>1, <2>2 DEF StagedHeads, StagedRows, EntityCommit
    <2> QED
      BY <1>4, <2>1, <2>3
  <1>6. ASSUME NEW r \in Req, Mutation(r).unit = u, PublishesDrifted(r)
        PROVE  v \in published'[k]
    <2> DEFINE res == req[r].res
               w == WorkUnitOf(r)
    <2>1. /\ req[r].pc = "publish" /\ w.id = u
          /\ PublishesUnit(w, ResolvedHeads(w, res), ResolvedRows(w, res))
      BY <1>6 DEF PublishesDrifted, PublishesResolved, WorkUnitOf
    <2>2. k \in DOMAIN res => res[k].heads # {}
      BY <2>1 DEF EngineInv, RequestsInv, ReadyFor, Resolves
    <2> HIDE DEF res, w
    <2>3. ResolvedHeads(w, res)[k] # {} /\ staged[u][k] \subseteq ResolvedRows(w, res)[k]
      BY <1>1, <2>1, <2>2 DEF ResolvedHeads, ResolvedRows
    <2> QED
      BY <1>4, <2>1, <2>3
  <1> QED
    BY <1>2, <1>3, <1>5, <1>6, UnitMoves

(* What is published stays so, and an expired unit stays expired.          *)
LEMMA OutcomesStay ==
    ASSUME EngineInv, StepClass, ProviderStep
    PROVE  /\ \A k \in Key : published[k] \subseteq published'[k]
           /\ \A u \in Unit : unit[u].state = "expired" => unit'[u].state = "expired"
  <1>1. ASSUME NEW u \in Unit, unit[u].state = "expired"
        PROVE  unit'[u].state = "expired"
    <2>1. CASE Calm(u)
      BY <1>1, <2>1 DEF Calm, Expires, Live
    <2>2. CASE ~Calm(u)
      <3>1. \A r : WorkUnitOf(r).id = Mutation(r).unit
        BY DEF WorkUnitOf
      <3> QED
        BY <1>1, <2>2, <3>1, UnitMoves
           DEF StagesInUnit, Stages, PublishesBatch, StagesAndPublishes,
               PublishesDrifted, PublishesResolved
    <2> QED
      BY <2>1, <2>2
  <1>2. \A k \in Key : published[k] \subseteq published'[k]
    BY DEF ProviderStep, EntityStep
  <1> QED
    BY <1>1, <1>2

(* What becomes of a request's own step.                                   *)
LEMMA ActsOrCarriesOn ==
    ASSUME StepClass, NEW r \in Req
    PROVE  \/ CarriesOn(r) \/ ReadsHeads(r) \/ CommitsImmediately(r)
           \/ StagesInUnit(r) \/ PublishesBatch(r) \/ PublishesDrifted(r)
           \/ FindsSealed(r)
  <1>1. \A s \in Req : OthersStay(s) => s = r \/ CarriesOn(r)
    BY StayingCarriesOn DEF OthersStay
  <1>2. \A s, p : Moves(s, p) => OthersStay(s)
    BY DEF Moves
  <1>3. \A s, hss, plans, K : ResolvesDrift(s, hss, plans, K) => OthersStay(s)
    BY DEF ResolvesDrift
  <1>4. /\ \A s \in Req : CommitsImmediately(s) \/ PublishesBatch(s) => Moves(s, "done")
        /\ \A s \in Req : PublishesDrifted(s) => Moves(s, "reread")
        /\ \A s \in Req : ReadsHeads(s) => OthersStay(s)
    BY DEF ReadsHeads, CommitsImmediately, PublishesBatch, PublishesDrifted, Prepares
  <1>5. \A s \in Req : StagesInUnit(s) \/ FindsSealed(s) => OthersStay(s)
    BY <1>2, <1>3 DEF StagesInUnit, FindsSealed
  <1> QED
    BY <1>1, <1>2, <1>4, <1>5 DEF StepClass, Rests

-----------------------------------------------------------------------------
(* What is acknowledged is stored                                          *)

(* Requests that close one work unit do so one after the other.            *)
OneCloser ==
    \A r, s \in Req :
        /\ r # s /\ Admitted(r) /\ Admitted(s)
        /\ InUnit(r) /\ Mutation(r).unit = Mutation(s).unit
        => ~(Mutation(r).close /\ Mutation(s).close)

Stored(r) == IsPublished(r) \/ IsStaged(r) \/ Discarded(r)

(* A request that is to close its unit does not find it sealed by another, *)
(* and what it has staged stays in the sealed unit until it is published.  *)
AckOf(r) ==
    /\ req[r].status # "none" => req[r].pc = "done"
    /\ req[r].pc = "commit" /\ InUnit(r) /\ Mutation(r).close =>
          unit[Mutation(r).unit].state # "closing"
    /\ req[r].pc = "publish" =>
          /\ Mutation(r).close
          /\ \/ IsStaged(r) /\ unit[Mutation(r).unit].state = "closing"
             \/ Discarded(r)
    /\ req[r].pc = "reread" => IsPublished(r)
    /\ req[r].status = "OK" => Stored(r)

AckInv == \A r \in Req : AckOf(r)

(* What is stored for a request stays stored.                              *)
LEMMA StoredStays ==
    ASSUME EngineInv, LineageInv, StepClass, ProviderStep,
           NEW r \in Req, req[r].pc # "idle", req'[r].m = req[r].m,
           req'[r].accepted = req[r].accepted
    PROVE  /\ IsPublished(r) => IsPublished(r)'
           /\ IsStaged(r) => (IsStaged(r) \/ IsPublished(r) \/ Discarded(r))'
           /\ Discarded(r) => Discarded(r)'
  <1>1. Mutation(r) \in Menu /\ Mutation(r).key \in Key /\ Mutation(r)' = Mutation(r)
    BY MenuIsTyped DEF EngineInv, RequestsInv, RequestsTypeOK, Mutation
  <1>2. InUnit(r) => Mutation(r).unit \in Unit
    BY <1>1, MenuIsTyped DEF InUnit
  <1>3. IsPublished(r) => IsPublished(r)'
    BY <1>1, OutcomesStay DEF IsPublished
  <1>4. Discarded(r) => Discarded(r)'
    BY <1>1, <1>2, OutcomesStay DEF Discarded, InUnit
  <1>5. IsStaged(r) => (IsStaged(r) \/ IsPublished(r) \/ Discarded(r))'
    <2> SUFFICES ASSUME IsStaged(r)
                 PROVE  (IsStaged(r) \/ IsPublished(r) \/ Discarded(r))'
      OBVIOUS
    <2> DEFINE u == Mutation(r).unit
               k == Mutation(r).key
    <2>1. InUnit(r) /\ u \in Unit /\ k \in Key /\ req[r].accepted \in staged[u][k]
      BY <1>1, <1>2 DEF IsStaged
    <2>2. \/ req[r].accepted \in staged'[u][k]
          \/ req[r].accepted \in published'[k]
          \/ unit'[u].state = "expired"
      BY <2>1, StagedGoesOn
    <2> QED
      BY <1>1, <2>1, <2>2 DEF IsStaged, IsPublished, Discarded, InUnit
  <1> QED
    BY <1>3, <1>4, <1>5

(* No request but its closer changes what a unit is to be closed with.     *)
LEMMA CloserAlone ==
    ASSUME EngineInv, AckInv, OneCloser, StepClass, NEW r \in Req, InUnit(r),
           Mutation(r).close, req[r].pc \in {"commit", "publish"},
           req'[r].pc = req[r].pc
    PROVE  LET u == Mutation(r).unit
           IN  /\ unit[u].state # "closing" => unit'[u].state # "closing"
               /\ unit[u].state = "closing" =>
                     \/ staged'[u] = staged[u] /\ unit'[u].state = "closing"
                     \/ unit'[u].state = "expired"
  <1> DEFINE u == Mutation(r).unit
  <1>1. u \in Unit
    BY UnitRequest
  <1>2. CASE Calm(u)
    BY <1>1, <1>2 DEF Calm, Expires, EngineInv, ProviderInv, TypeOK, UnitTypeOK, UnitRow
  <1>3. CASE ~Calm(u)
    <2>1. PICK s \in Req : /\ Mutation(s).unit = u
                           /\ StagesInUnit(s) \/ PublishesBatch(s) \/ PublishesDrifted(s)
      BY <1>1, <1>3, UnitMoves
    <2>2. s # r
      BY <2>1 DEF StagesInUnit, PublishesBatch, PublishesDrifted, Moves, ResolvesDrift
    <2>3. req[s].pc \in {"commit", "publish"}
      BY <2>1 DEF StagesInUnit, PublishesBatch, PublishesDrifted
    <2>4. ~Mutation(s).close
      BY <2>1, <2>2, <2>3 DEF OneCloser, Admitted, InFlight
    <2>5. ~PublishesBatch(s) /\ ~PublishesDrifted(s)
      BY <2>4 DEF PublishesBatch, PublishesDrifted, AckInv, AckOf
    <2>6. /\ unit[u].state \in {"none", "open"}
          /\ unit'[u].state = "open"
      BY <2>1, <2>4, <2>5 DEF StagesInUnit, Stages, WorkUnitOf
    <2> QED
      BY <2>6
  <1> QED
    BY <1>2, <1>3

(* The request is not concerned by the step, or fails.                     *)
LEMMA CarriedAck ==
    ASSUME EngineInv, LineageInv, AckInv, OneCloser, StepClass, ProviderStep,
           NEW r \in Req, CarriesOn(r)
    PROVE  AckOf(r)'
  <1> DEFINE u == Mutation(r).unit
  <1>0. AckOf(r)
    BY DEF AckInv
  <1>1. CASE req[r].pc = "idle"
    BY <1>0, <1>1 DEF AckOf, CarriesOn
  <1>2. CASE req[r].pc # "idle"
    <2>1. /\ req'[r].m = req[r].m /\ req'[r].accepted = req[r].accepted
          /\ Mutation(r)' = Mutation(r) /\ InUnit(r)' = InUnit(r)
      BY <1>2 DEF CarriesOn, Mutation, InUnit
    <2>2. /\ IsPublished(r) => IsPublished(r)'
          /\ IsStaged(r) => (IsStaged(r) \/ IsPublished(r) \/ Discarded(r))'
          /\ Discarded(r) => Discarded(r)'
      BY <1>2, <2>1, StoredStays
    <2>3. Stored(r) => Stored(r)'
      BY <2>2 DEF Stored
    <2>4. req'[r].status # "none" => req'[r].pc = "done"
      BY <1>0 DEF AckOf, CarriesOn
    <2>5. req'[r].status = "OK" => Stored(r)'
      <3>1. CASE req'[r].status = req[r].status
        BY <1>0, <2>3, <3>1 DEF AckOf
      <3>2. CASE req'[r].status # req[r].status
        BY <1>0, <2>2, <3>2 DEF AckOf, CarriesOn, Stored
      <3> QED
        BY <3>1, <3>2
    <2>6. req'[r].pc = "reread" => IsPublished(r)'
      BY <1>0, <2>2 DEF AckOf, CarriesOn
    <2>7. ASSUME req'[r].pc = "commit", InUnit(r), Mutation(r).close
          PROVE  unit'[u].state # "closing"
      BY <1>0, <2>7, CloserAlone DEF AckOf, CarriesOn
    <2>8. ASSUME req'[r].pc = "publish"
          PROVE  /\ Mutation(r).close
                 /\ \/ IsStaged(r)' /\ unit'[u].state = "closing"
                    \/ Discarded(r)'
      <3>1. req[r].pc = "publish" /\ Mutation(r).close
        BY <1>0, <2>8 DEF AckOf, CarriesOn
      <3>2. CASE Discarded(r)
        BY <2>2, <3>1, <3>2
      <3>3. CASE IsStaged(r) /\ unit[u].state = "closing"
        <4>1. \/ staged'[u] = staged[u] /\ unit'[u].state = "closing"
              \/ unit'[u].state = "expired"
          BY <2>8, <3>1, <3>3, CloserAlone DEF IsStaged
        <4> QED
          BY <2>1, <3>1, <3>3, <4>1 DEF IsStaged, Discarded
      <3> QED
        BY <1>0, <3>1, <3>2, <3>3 DEF AckOf
    <2> QED
      BY <2>1, <2>4, <2>5, <2>6, <2>7, <2>8 DEF AckOf
  <1> QED
    BY <1>1, <1>2

(* A request that commits or stages: its version is stored with the heads. *)
LEMMA ActingAck ==
    ASSUME EngineInv, LineageInv, AckInv, OneCloser, StepClass, ProviderStep,
           NEW r \in Req, ~CarriesOn(r)
    PROVE  AckOf(r)'
  <1> DEFINE u == Mutation(r).unit
             k == Mutation(r).key
             c == req[r].commit
             w == WorkUnitOf(r)
  <1>0. /\ AckOf(r) /\ w.id = u
        /\ published \in [Key -> SUBSET Version]
        /\ staged \in [Unit -> [Key -> SUBSET Version]]
    BY DEF AckInv, WorkUnitOf, EngineInv, ProviderInv, TypeOK, EntityTypeOK, UnitTypeOK
  <1>1. ASSUME req[r].pc = "commit"
        PROVE  /\ c \in EntityCommit /\ c.key = k /\ k \in Key
               /\ req[r].accepted \in c.new /\ req[r].status = "none"
    BY <1>0, <1>1, PreparedCommits DEF AckOf, EntityCommit
  <1>2. ASSUME req'[r].m = req[r].m
        PROVE  Mutation(r)' = Mutation(r) /\ InUnit(r)' = InUnit(r)
    BY <1>2 DEF Mutation, InUnit
  <1>3. CASE ReadsHeads(r)
    <2>1. /\ req'[r].pc = "commit" /\ req'[r].m = req[r].m /\ req'[r].status = req[r].status
          /\ req[r].pc = "read"
          /\ InUnit(r) => unit'[u].state = "open"
      BY <1>0, <1>3 DEF ReadsHeads, Prepares
    <2>2. req'[r].status = "none"
      BY <1>0, <2>1 DEF AckOf
    <2> QED
      BY <1>2, <2>1, <2>2 DEF AckOf
  <1>4. CASE CommitsImmediately(r)
    <2>1. /\ req[r].pc = "commit" /\ Moves(r, "done") /\ req'[r].status = "OK"
          /\ published' = [published EXCEPT ![c.key] = @ \cup c.new]
      BY <1>4 DEF CommitsImmediately, CommitsNow, CommitEntityInTransaction
    <2> HIDE DEF c
    <2>2. req[r].accepted \in published'[k]
      BY <1>0, <1>1, <2>1
    <2>3. /\ req'[r].pc = "done" /\ req'[r].m = req[r].m
          /\ req'[r].accepted = req[r].accepted
      BY <2>1 DEF Moves
    <2> QED
      BY <1>2, <2>1, <2>2, <2>3 DEF AckOf, Stored, IsPublished
  <1>5. CASE StagesInUnit(r)
    <2>1. /\ req[r].pc = "commit" /\ InUnit(r) /\ u \in Unit
          /\ staged'[u] = StagedRows(w, c)
          /\ Mutation(r).close => unit'[u].state = "closing"
      BY <1>0, <1>5, UnitRequest DEF StagesInUnit, Stages
    <2> HIDE DEF c, w
    <2>2. req[r].accepted \in staged'[u][k]
      BY <1>0, <1>1, <2>1 DEF StagedRows
    <2>3. /\ req'[r].m = req[r].m /\ req'[r].accepted = req[r].accepted
          /\ \/ req'[r].pc = "done"
             \/ /\ req'[r].pc = "publish" /\ Mutation(r).close
                /\ req'[r].status = req[r].status
      BY <1>5 DEF StagesInUnit, Moves, ResolvesDrift
    <2>4. IsStaged(r)'
      BY <1>2, <2>1, <2>2, <2>3 DEF IsStaged
    <2> QED
      BY <1>1, <1>2, <2>1, <2>3, <2>4 DEF AckOf, Stored
  <1>6. CASE PublishesBatch(r)
    <2>1. /\ req[r].pc = "commit" /\ InUnit(r) /\ u \in Unit
          /\ Moves(r, "done") /\ req'[r].status = "OK"
          /\ PublishesUnit(w, StagedHeads(w, c), StagedRows(w, c))
          /\ unitHeads[u] \in [Key -> SUBSET Version]
      BY <1>6, UnitRequest DEF PublishesBatch, StagesAndPublishes, EngineInv, ProviderInv,
                               TypeOK, UnitTypeOK
    <2> HIDE DEF c, w
    <2>2. StagedHeads(w, c)[k] # {} /\ req[r].accepted \in StagedRows(w, c)[k]
      BY <1>0, <1>1, <2>1 DEF StagedRows, StagedHeads, EntityCommit
    <2>3. req[r].accepted \in published'[k]
      BY <1>1, <2>1, <2>2 DEF PublishesUnit
    <2>4. /\ req'[r].pc = "done" /\ req'[r].m = req[r].m
          /\ req'[r].accepted = req[r].accepted
      BY <2>1 DEF Moves
    <2> QED
      BY <1>2, <2>1, <2>3, <2>4 DEF AckOf, Stored, IsPublished
  <1>7. CASE PublishesDrifted(r)
    <2>1. /\ req[r].pc = "publish" /\ InUnit(r) /\ u \in Unit
          /\ req'[r].pc = "reread" /\ req'[r].m = req[r].m
          /\ req'[r].accepted = req[r].accepted /\ req'[r].status = req[r].status
          /\ unit[u].state = "closing" /\ unit'[u].state = "committed"
          /\ staged'[u] = NoKeys
      BY <1>0, <1>7, UnitRequest
         DEF PublishesDrifted, PublishesResolved, PublishesUnit, Moves
    <2>2. IsStaged(r) /\ req[r].status = "none"
      BY <1>0, <2>1 DEF AckOf, Discarded
    <2>3. (IsStaged(r) \/ IsPublished(r) \/ Discarded(r))'
      BY <2>1, <2>2, StoredStays
    <2>4. k \in Key
      BY <2>1, UnitRequest, MenuIsTyped
    <2>5. IsPublished(r)'
      BY <1>2, <2>1, <2>3, <2>4 DEF IsStaged, Discarded, NoKeys
    <2> QED
      BY <1>2, <2>1, <2>2, <2>5 DEF AckOf
  <1>8. ~FindsSealed(r)
    BY <1>0 DEF FindsSealed, AckOf
  <1> QED
    BY <1>3, <1>4, <1>5, <1>6, <1>7, <1>8, ActsOrCarriesOn

(* The invariant of acknowledged requests holds as long as the requests    *)
(* that close one unit take turns.                                         *)
LEMMA AckKept == EngineSpec /\ []OneCloser => []AckInv
  <1>1. EngineInit => AckInv
    BY DEF EngineInit, RequestsInit, AckInv, AckOf
  <1>2. EngineInv /\ LineageInv /\ AckInv /\ OneCloser /\ [EngineNext]_vars => AckInv'
    <2> SUFFICES ASSUME EngineInv, LineageInv, AckInv, OneCloser, [EngineNext]_vars,
                        NEW r \in Req
                 PROVE  AckOf(r)'
      BY DEF AckInv
    <2>1. StepClass /\ ProviderStep
      BY EngineStepClass, EngineStepKeeps, NextIsStep DEF Allowed, EngineInv
    <2> QED
      BY <2>1, CarriedAck, ActingAck
  <1> QED
    BY <1>1, <1>2, EngineInvariant, LineageKept, PTL DEF EngineSpec

(* What is acknowledged is stored, as long as the requests that close one  *)
(* unit take turns: an answer with success means that the request's own    *)
(* version is published, or staged until its unit is published or expires. *)
THEOREM AcknowledgedIsStored ==
    EngineSpec /\ []OneCloser => []AckedIsDurable
  <1>1. AckInv => AckedIsDurable
    BY DEF AckInv, AckOf, Stored, AckedIsDurable
  <1> QED
    BY <1>1, AckKept, PTL

-----------------------------------------------------------------------------
(* What is refused is not published                                        *)

(* The final read of a request that published its batch is in time.        *)
RereadInTime == \A r \in Req : req[r].pc = "reread" => ~req[r].late

(* r may have been told of its publication as of a refusal, because its    *)
(* final read came too late; not when that is excluded.                    *)
Excused(r, strict) == ~strict /\ RereadTooLate(r)

(* r's version is not published, and staged at most in r's sealed unit.    *)
Lingers(r) == \E t \in Unit, k \in Key : req[r].accepted \in staged[t][k]
Withheld(r) ==
    /\ ~IsPublished(r)
    /\ \A t \in Unit, k \in Key : req[r].accepted \in staged[t][k] =>
          t = Mutation(r).unit /\ unit[t].state = "closing"

(* No other request is about to publish r's unit.                          *)
NoOtherPublisher(r) ==
    \A s \in Req \ {r} : req[s].pc = "publish" => Mutation(s).unit # Mutation(r).unit

RefusedOf(r, strict) ==
    /\ req[r].pc \in Early => req[r].accepted = None
    /\ req[r].pc = "publish" => Withheld(r)
    /\ req[r].pc \in {"publish", "reread"} => DOMAIN req[r].res # {}
    /\ req[r].status \in Refusals =>
          \/ Withheld(r) /\ (Lingers(r) => NoOtherPublisher(r))
          \/ Excused(r, strict)

RefusedInv(strict) == \A r \in Req : RefusedOf(r, strict)

(* No one else draws r's version.                                          *)
LEMMA OwnVersion ==
    ASSUME EngineInv, NEW r \in Req, req[r].accepted # None,
           NEW s \in Req, req[r].accepted \in Pending(s)
    PROVE  s = r
  <1>1. req[r].accepted \in Drawn(r) /\ req[r].accepted \in Drawn(s)
    BY DEF Drawn
  <1> QED
    BY <1>1 DEF EngineInv, RequestsInv, DrawsInv

(* A request that has prepared nothing, or whose version has no row, has   *)
(* nothing stored.                                                         *)
LEMMA UnstoredIsWithheld ==
    ASSUME EngineInv, NEW r \in Req, req[r].pc # "idle", req[r].accepted \notin Rows
    PROVE  Withheld(r) /\ ~Lingers(r)
  <1>1. Mutation(r).key \in Key
    BY MenuIsTyped DEF EngineInv, RequestsInv, RequestsTypeOK
  <1> QED
    BY <1>1, HasRow DEF Withheld, Lingers, IsPublished

(* What is withheld stays so unless its unit is published.                 *)
LEMMA WithheldStays ==
    ASSUME EngineInv, StepClass, NEW r \in Req, Withheld(r),
           req[r].pc # "idle", req'[r].m = req[r].m,
           req'[r].accepted = req[r].accepted, req[r].accepted # None,
           ~CommitsImmediately(r), ~StagesInUnit(r), ~PublishesBatch(r),
           ~PublishesDrifted(r), Lingers(r) => NoOtherPublisher(r)
    PROVE  /\ Withheld(r)'
           /\ Lingers(r)' => Lingers(r)
  <1> DEFINE v == req[r].accepted
             u == Mutation(r).unit
  <1>1. Mutation(r)' = Mutation(r) /\ Mutation(r).key \in Key
    BY MenuIsTyped DEF Mutation, EngineInv, RequestsInv, RequestsTypeOK
  <1>2. ASSUME NEW s \in Req, NEW t \in Unit, NEW k \in Key, Mutation(s).unit = t,
               v \in staged[t][k],
               StagesInUnit(s) \/ PublishesBatch(s) \/ PublishesDrifted(s)
        PROVE  FALSE
    <2>1. t = u /\ unit[t].state = "closing" /\ Lingers(r)
      BY <1>2 DEF Withheld, Lingers
    <2>2. CASE PublishesDrifted(s)
      <3>1. s # r /\ req[s].pc = "publish"
        BY <2>2 DEF PublishesDrifted
      <3> QED
        BY <1>2, <2>1, <3>1 DEF NoOtherPublisher
    <2>3. CASE StagesInUnit(s) \/ PublishesBatch(s)
      BY <1>2, <2>1, <2>3 DEF StagesInUnit, Stages, PublishesBatch, StagesAndPublishes,
                              WorkUnitOf
    <2> QED
      BY <1>2, <2>2, <2>3
  <1>3. ASSUME NEW s \in Req, v \in Pending(s),
               \/ StagesInUnit(s) \/ CommitsImmediately(s)
               \/ PublishesBatch(s) \/ PublishesDrifted(s)
        PROVE  FALSE
    <2>1. s = r
      BY <1>3, OwnVersion
    <2> QED
      BY <1>3, <2>1
  <1>4. v \notin published'[Mutation(r).key]
    <2> SUFFICES ASSUME v \in published'[Mutation(r).key]
                 PROVE  FALSE
      OBVIOUS
    <2>1. v \notin published[Mutation(r).key]
      BY DEF Withheld, IsPublished
    <2> QED
      BY <1>1, <1>2, <1>3, <2>1, NewlyPublished
  <1>5. ASSUME NEW t \in Unit, NEW k \in Key, v \in staged'[t][k]
        PROVE  t = u /\ unit'[t].state = "closing" /\ v \in staged[t][k]
    <2>1. v \in staged[t][k]
      BY <1>3, <1>5, NewlyStaged
    <2>2. t = u /\ unit[t].state = "closing"
      BY <2>1 DEF Withheld
    <2>3. Calm(t)
      BY <1>2, <2>1, UnitMoves
    <2> QED
      BY <1>5, <2>1, <2>2, <2>3 DEF Calm, Expires, NoKeys
  <1> QED
    BY <1>1, <1>4, <1>5 DEF Withheld, Lingers, IsPublished

(* No request comes to publish a unit that is sealed already.              *)
LEMMA NoPublisherComes ==
    ASSUME EngineInv, AckInv, StepClass, NEW r \in Req, req'[r].m = req[r].m,
           unit[Mutation(r).unit].state = "closing", NoOtherPublisher(r)
    PROVE  NoOtherPublisher(r)'
  <1> SUFFICES ASSUME NEW s \in Req \ {r}, req'[s].pc = "publish",
                      req'[s].m.unit = req'[r].m.unit
               PROVE  FALSE
    BY DEF NoOtherPublisher, Mutation
  <1>1. Carried(s) \/ FindsDrift(s)
    BY CarriedOrPrepared
  <1>2. CASE Carried(s)
    BY <1>2 DEF Carried, NoOtherPublisher, Mutation
  <1>3. CASE FindsDrift(s)
    <2>1. req'[s].m = req[s].m
      BY <1>3 DEF FindsDrift, FindsSealed, StagesInUnit, Moves, ResolvesDrift
    <2>2. unit[Mutation(s).unit].state = "closing"
      BY <2>1 DEF Mutation
    <2>3. ~FindsSealed(s)
      BY DEF FindsSealed, AckInv, AckOf
    <2>4. ~StagesInUnit(s)
      BY <2>2 DEF StagesInUnit, Stages, WorkUnitOf
    <2> QED
      BY <1>3, <2>3, <2>4 DEF FindsDrift
  <1> QED
    BY <1>1, <1>2, <1>3

(* A request about to publish its unit is the only one.                    *)
LEMMA OnePublisher ==
    ASSUME EngineInv, AckInv, OneCloser, NEW r \in Req, InUnit(r),
           Mutation(r).close, req[r].pc \in {"commit", "publish"}
    PROVE  NoOtherPublisher(r)
  <1> SUFFICES ASSUME NEW s \in Req \ {r}, req[s].pc = "publish",
                      Mutation(s).unit = Mutation(r).unit
               PROVE  FALSE
    BY DEF NoOtherPublisher
  <1>1. Mutation(s).close
    BY DEF AckInv, AckOf
  <1> QED
    BY <1>1 DEF OneCloser, Admitted, InFlight

(* A request is refused before it has stored anything, or with what it has *)
(* staged left in its sealed unit.                                         *)
LEMMA CarriedRefusal ==
    ASSUME NEW strict \in BOOLEAN, EngineInv, EngineInv', AckInv,
           RefusedInv(strict), OneCloser, strict => RereadInTime,
           StepClass, NEW r \in Req, CarriesOn(r), ~StagesInUnit(r)
    PROVE  RefusedOf(r, strict)'
  <1> DEFINE v == req[r].accepted
             u == Mutation(r).unit
             refused == \/ req'[r].pc = "publish"
                        \/ req'[r].status \in Refusals /\ ~Excused(r, strict)'
  <1>0. /\ RefusedOf(r, strict) /\ AckOf(r) /\ req'[r].accepted = v
        /\ req'[r].pc \in Early => req[r].pc \in Early
    BY DEF RefusedInv, AckInv, CarriesOn
  <1>1. /\ req'[r].pc \in Early => req'[r].accepted = None
        /\ req'[r].pc \in {"publish", "reread"} => DOMAIN req'[r].res # {}
    BY <1>0 DEF RefusedOf, CarriesOn
  <1>2. CASE refused /\ v = None
    <2>1. req'[r].pc # "idle"
      BY <1>0, <1>2 DEF CarriesOn, AckOf, Refusals
    <2>2. Mutation(r).key' \in Key
      BY <2>1, MenuIsTyped DEF EngineInv, RequestsInv, RequestsTypeOK, Mutation
    <2>3. /\ \A k \in Key : None \notin published'[k]
          /\ \A t \in Unit, k \in Key : None \notin staged'[t][k]
      BY NoneIsNoVersion DEF EngineInv, ProviderInv, TypeOK, EntityTypeOK, UnitTypeOK
    <2>4. Withheld(r)' /\ ~Lingers(r)'
      BY <1>0, <1>2, <2>2, <2>3 DEF Withheld, Lingers, IsPublished
    <2> QED
      BY <1>1, <2>4 DEF RefusedOf
  <1>3. CASE refused /\ v # None
    <2>1. /\ req[r].pc \in {"commit", "publish", "done"} /\ req'[r].m = req[r].m
          /\ req[r].pc = "done" =>
                req[r].status \in Refusals /\ ~Excused(r, strict)
          /\ req'[r].pc \in {"publish", "done"}
          /\ req'[r].pc = "publish" => req[r].pc = "publish"
          /\ req'[r].pc = "done" => req'[r].status \in Refusals
      <3>1. CASE req'[r].status \in Refusals /\ ~Excused(r, strict)'
        <4>1. CASE req'[r].status = req[r].status
          BY <1>0, <3>1, <4>1 DEF CarriesOn, AckOf, Refusals, Excused, RereadTooLate
        <4>2. CASE req'[r].status # req[r].status
          <5>1. req'[r].pc = "done" /\ req[r].pc \notin {"done", "lost", "reread"}
            <6>1. ASSUME req[r].pc = "reread"
                  PROVE  FALSE
              <7>1. ToldTooLate(r)
                BY <3>1, <4>2, <6>1 DEF CarriesOn
              <7>2. DOMAIN req[r].res # {}
                BY <1>0, <6>1 DEF RefusedOf
              <7>3. RereadTooLate(r)'
                BY <7>1, <7>2 DEF ToldTooLate, RereadTooLate
              <7>4. strict
                BY <3>1, <7>3 DEF Excused
              <7> QED
                BY <6>1, <7>1, <7>4 DEF ToldTooLate, RereadInTime
            <6> QED
              BY <3>1, <4>2, <6>1 DEF CarriesOn
          <5>2. req[r].pc \notin Early
            BY <1>0, <1>3 DEF RefusedOf, Early
          <5>3. req[r].pc \in {"commit", "publish"}
            BY <5>1, <5>2 DEF EngineInv, RequestsInv, RequestsTypeOK, RequestRow,
                              RequestPc, Early
          <5> QED
            BY <3>1, <5>1, <5>3 DEF CarriesOn
        <4> QED
          BY <4>1, <4>2
      <3>2. CASE req'[r].pc = "publish"
        BY <3>2 DEF CarriesOn
      <3> QED
        BY <1>3, <3>1, <3>2
    <2>2. /\ ~CommitsImmediately(r) /\ ~PublishesBatch(r) /\ ~PublishesDrifted(r)
      BY <2>1 DEF CommitsImmediately, PublishesBatch, PublishesDrifted, Moves, Refusals
    <2>3. Withheld(r) /\ (Lingers(r) => NoOtherPublisher(r))
      <3>1. CASE req[r].pc = "commit"
        <4>1. v \notin Rows
          BY <3>1, PreparedCommits DEF EngineInv, RequestsInv, DrawsInv
        <4> QED
          BY <3>1, <4>1, UnstoredIsWithheld
      <3>2. CASE req[r].pc = "publish"
        <4>1. InUnit(r) /\ Mutation(r).close
          BY <1>0, <3>2 DEF AckOf, EngineInv, RequestsInv, ReadyFor, Resolves
        <4> QED
          BY <1>0, <3>2, <4>1, OnePublisher DEF RefusedOf
      <3>3. CASE req[r].pc = "done"
        BY <1>0, <2>1, <3>3 DEF RefusedOf
      <3> QED
        BY <2>1, <3>1, <3>2, <3>3
    <2>4. Withheld(r)' /\ (Lingers(r)' => Lingers(r))
      BY <1>0, <1>3, <2>1, <2>2, <2>3, WithheldStays
    <2>5. Lingers(r)' => NoOtherPublisher(r)'
      <3>1. Lingers(r) => unit[Mutation(r).unit].state = "closing"
        BY <2>3 DEF Withheld, Lingers
      <3> HIDE DEF v, u
      <3> QED
        BY <2>1, <2>3, <2>4, <3>1, NoPublisherComes
    <2> QED
      BY <1>1, <2>4, <2>5 DEF RefusedOf
  <1> QED
    BY <1>1, <1>2, <1>3 DEF RefusedOf

(* A request that seals its unit leaves its version staged in it.          *)
LEMMA SealingRefusal ==
    ASSUME NEW strict \in BOOLEAN, EngineInv, AckInv, OneCloser, StepClass,
           NEW r \in Req, StagesInUnit(r)
    PROVE  RefusedOf(r, strict)'
  <1> DEFINE v == req[r].accepted
             u == Mutation(r).unit
  <1>0. /\ req[r].pc = "commit" /\ InUnit(r) /\ req[r].status = "none"
        /\ UNCHANGED published /\ WorkUnitOf(r).id = u
        /\ v \in Pending(r) /\ v \in Version /\ v \notin Rows
    BY PreparedCommits DEF StagesInUnit, Stages, Unpublished, AckInv, AckOf, WorkUnitOf,
                           EngineInv, RequestsInv, DrawsInv
  <1>1. /\ req'[r].m = req[r].m /\ req'[r].accepted = v /\ OthersStay(r)
        /\ req'[r].pc \in {"done", "publish"}
        /\ \/ req'[r].pc = "done" /\ req'[r].status = "OK"
           \/ Mutation(r).close /\ unit'[u].state = "closing"
        /\ req'[r].pc = "publish" => DOMAIN req'[r].res # {}
    BY <1>0 DEF StagesInUnit, Stages, Moves, ResolvesDrift, DriftRows
  <1>2. CASE req'[r].pc = "done" /\ req'[r].status = "OK"
    BY <1>2 DEF RefusedOf, Early, Refusals
  <1>3. CASE Mutation(r).close /\ unit'[u].state = "closing"
    <2>1. Mutation(r).key \in Key
      BY <1>0, UnitRequest, MenuIsTyped
    <2>2. v \notin published'[Mutation(r).key]
      BY <1>0, <2>1, HasRow
    <2>3. ASSUME NEW t \in Unit, NEW k \in Key, v \in staged'[t][k]
          PROVE  t = u
      <3>1. v \notin staged[t][k]
        BY <1>0, HasRow
      <3>2. PICK s \in Req : Mutation(s).unit = t /\ v \in Pending(s)
        BY <2>3, <3>1, NewlyStaged
      <3>3. s = r
        BY <1>0, <3>2, OwnVersion, NoneIsNoVersion
      <3> QED
        BY <3>2, <3>3
    <2>4. Withheld(r)'
      BY <1>1, <1>3, <2>2, <2>3 DEF Withheld, IsPublished, Mutation
    <2>5. NoOtherPublisher(r)
      BY <1>0, <1>3, OnePublisher
    <2>6. NoOtherPublisher(r)'
      BY <1>1, <2>5 DEF NoOtherPublisher, OthersStay, Mutation
    <2> QED
      BY <1>1, <2>4, <2>6 DEF RefusedOf, Early
  <1> QED
    BY <1>1, <1>2, <1>3

(* Every step keeps refused versions withheld.                             *)
LEMMA RefusedStep ==
    ASSUME NEW strict \in BOOLEAN, EngineInv, EngineInv', AckInv,
           RefusedInv(strict), OneCloser, strict => RereadInTime,
           StepClass, NEW r \in Req
    PROVE  RefusedOf(r, strict)'
  <1>0. AckOf(r)
    BY DEF AckInv
  <1>1. CASE StagesInUnit(r)
    BY <1>1, SealingRefusal
  <1>2. CASE CarriesOn(r) /\ ~StagesInUnit(r)
    BY <1>2, CarriedRefusal
  <1>3. CASE ReadsHeads(r)
    <2>1. req'[r].pc = "commit" /\ req'[r].status = "none"
      BY <1>0, <1>3 DEF ReadsHeads, Prepares, AckOf
    <2> QED
      BY <2>1 DEF RefusedOf, Early, Refusals
  <1>4. CASE CommitsImmediately(r) \/ PublishesBatch(r)
    <2>1. req'[r].pc = "done" /\ req'[r].status = "OK"
      BY <1>4 DEF CommitsImmediately, PublishesBatch, Moves
    <2> QED
      BY <2>1 DEF RefusedOf, Early, Refusals
  <1>5. CASE PublishesDrifted(r)
    <2>1. /\ req'[r].pc = "reread" /\ req'[r].status = "none"
          /\ DOMAIN req'[r].res # {}
      BY <1>0, <1>5 DEF PublishesDrifted, Moves, AckOf, RefusedInv, RefusedOf
    <2> QED
      BY <2>1 DEF RefusedOf, Early, Refusals
  <1>6. ~FindsSealed(r)
    BY <1>0 DEF FindsSealed, AckOf
  <1> QED
    BY <1>1, <1>2, <1>3, <1>4, <1>5, <1>6, ActsOrCarriesOn

(* It holds from the start and is kept.                                    *)
LEMMA RefusedInvKept ==
    ASSUME NEW strict \in BOOLEAN
    PROVE  /\ EngineInit => RefusedInv(strict)
           /\ /\ EngineInv /\ EngineInv' /\ AckInv /\ RefusedInv(strict)
              /\ OneCloser /\ (strict => RereadInTime) /\ [EngineNext]_vars
              => RefusedInv(strict)'
  <1>1. EngineInit => RefusedInv(strict)
    BY DEF EngineInit, RequestsInit, RefusedInv, RefusedOf, Refusals
  <1>2. ASSUME EngineInv, EngineInv', AckInv, RefusedInv(strict), OneCloser,
               strict => RereadInTime, [EngineNext]_vars, NEW r \in Req
        PROVE  RefusedOf(r, strict)'
    <2>1. StepClass
      BY <1>2, EngineStepClass
    <2> QED
      BY <1>2, <2>1, RefusedStep
  <1> QED
    BY <1>1, <1>2 DEF RefusedInv

(* A refused mutation is not published, neither when it is refused nor     *)
(* later by whoever finds its unit sealed, as long as the requests that    *)
(* close one unit take turns; except that a request whose deadline passes  *)
(* between its resolved publication and the final read is told that it was *)
(* late.                                                                   *)
THEOREM RefusedStaysUnpublished ==
    EngineSpec /\ []OneCloser => []RefusedUnlessReread
  <1> DEFINE Inv == RefusedInv(FALSE)
  <1>1. EngineInit => Inv
    BY RefusedInvKept
  <1>2. /\ EngineInv /\ EngineInv' /\ AckInv /\ Inv /\ OneCloser /\ [EngineNext]_vars
        => Inv'
    BY RefusedInvKept
  <1>3. Inv => RefusedUnlessReread
    BY DEF RefusedInv, RefusedOf, Excused, Withheld, RefusedUnlessReread
  <1> HIDE DEF Inv
  <1> QED
    BY <1>1, <1>2, <1>3, EngineInvariant, AckKept, PTL DEF EngineSpec

(* Without the exception when no deadline passes there: what the protocol  *)
(* promises holds but for that read.                                       *)
THEOREM TimelyRereadsKeepThePromise ==
    EngineSpec /\ []OneCloser /\ []RereadInTime => []RefusedIsUnpublished
  <1> DEFINE Inv == RefusedInv(TRUE)
  <1>1. EngineInit => Inv
    BY RefusedInvKept
  <1>2. /\ EngineInv /\ EngineInv' /\ AckInv /\ Inv
        /\ OneCloser /\ RereadInTime /\ [EngineNext]_vars
        => Inv'
    BY RefusedInvKept
  <1>3. Inv => RefusedIsUnpublished
    BY DEF RefusedInv, RefusedOf, Excused, Withheld, RefusedIsUnpublished
  <1> HIDE DEF Inv
  <1> QED
    BY <1>1, <1>2, <1>3, EngineInvariant, AckKept, PTL DEF EngineSpec

-----------------------------------------------------------------------------
(* Locks exclude                                                           *)

(* Requests past admission on one engine process share no lock.            *)
LocksExclude ==
    \A r, s \in Req :
        r # s /\ Admitted(r) /\ Admitted(s) /\ req[r].node = req[s].node
        => LockKeys(Mutation(r)) \cap LockKeys(Mutation(s)) = {}

(* Requests that close one unit run on one engine process and share a lock *)
(* (the batch's commit-ordering key).                                      *)
ClosersShareLock ==
    \A r, s \in Req :
        /\ Admitted(r) /\ Admitted(s) /\ Mutation(r).close /\ Mutation(s).close
        /\ InUnit(r) /\ Mutation(r).unit = Mutation(s).unit
        => /\ req[r].node = req[s].node
           /\ LockKeys(Mutation(r)) \cap LockKeys(Mutation(s)) # {}

(* An admitted request was admitted before the step or is admitted by it.  *)
LEMMA AdmittedBefore ==
    ASSUME StepClass, NEW r \in Req, Admitted(r)'
    PROVE  /\ req'[r].m = req[r].m /\ req'[r].node = req[r].node
           /\ Admitted(r) \/ Admits(r)
  <1>1. req'[r].pc \notin {"idle", "done", "lost", "admission"}
    BY DEF Admitted, InFlight
  <1>2. CASE CarriesOn(r)
    <2>1. Admitted(r) \/ Admits(r)
      BY <1>1, <1>2 DEF CarriesOn
    <2> QED
      BY <1>2, <2>1 DEF CarriesOn, Admitted, InFlight, Admits
  <1>3. CASE ReadsHeads(r)
    BY <1>3 DEF ReadsHeads, Prepares, Admitted, InFlight
  <1>4. CASE CommitsImmediately(r) \/ PublishesBatch(r)
    BY <1>1, <1>4 DEF CommitsImmediately, PublishesBatch, Moves
  <1>5. CASE PublishesDrifted(r)
    BY <1>5 DEF PublishesDrifted, Moves, Admitted, InFlight
  <1>6. CASE StagesInUnit(r) \/ FindsSealed(r)
    BY <1>1, <1>6 DEF StagesInUnit, FindsSealed, Moves, ResolvesDrift, Admitted, InFlight
  <1> QED
    BY <1>2, <1>3, <1>4, <1>5, <1>6, ActsOrCarriesOn

(* In each engine process the requests past admission have disjoint locks: *)
(* those of one idempotency identity, or of one commit-ordering key, read, *)
(* commit and publish one after the other, and a request that is answered  *)
(* or stopped gives its locks back.                                        *)
THEOREM LocksAreExclusive == EngineSpec => []LocksExclude
  <1>1. EngineInit => LocksExclude
    BY DEF EngineInit, RequestsInit, LocksExclude, Admitted, InFlight
  <1>2. EngineInv /\ LocksExclude /\ [EngineNext]_vars => LocksExclude'
    <2> SUFFICES ASSUME EngineInv, LocksExclude, [EngineNext]_vars,
                        NEW r \in Req, NEW s \in Req, r # s,
                        Admitted(r)', Admitted(s)', req'[r].node = req'[s].node
                 PROVE  LockKeys(Mutation(r)') \cap LockKeys(Mutation(s)') = {}
      BY DEF LocksExclude, LockKeys
    <2>1. /\ Mutation(r)' = Mutation(r) /\ req'[r].node = req[r].node
          /\ Mutation(s)' = Mutation(s) /\ req'[s].node = req[s].node
          /\ Admitted(r) \/ Admits(r)
          /\ Admitted(s) \/ Admits(s)
      BY EngineStepClass, AdmittedBefore DEF Mutation
    <2>2. ASSUME NEW x \in Req, NEW y \in Req, x # y, Admits(x), Admitted(y)',
                 req[x].node = req[y].node
          PROVE  LockKeys(Mutation(x)) \cap LockKeys(Mutation(y)) = {}
      <3>1. Admitted(y)
        BY <2>2 DEF Admits, OthersStay, Admitted, InFlight
      <3>2. LockKeys(Mutation(y)) \subseteq Held(req[x].node)
        BY <2>2, <3>1 DEF Held, Admitted
      <3> QED
        BY <2>2, <3>2 DEF Admits
    <2>3. LockKeys(Mutation(r)) \cap LockKeys(Mutation(s)) = {}
      <3>1. CASE Admitted(r) /\ Admitted(s)
        BY <2>1, <3>1 DEF LocksExclude
      <3>2. CASE Admits(r)
        BY <2>1, <2>2, <3>2
      <3>3. CASE Admits(s)
        BY <2>1, <2>2, <3>3
      <3> QED
        BY <2>1, <3>1, <3>2, <3>3
    <2> QED
      BY <2>1, <2>3
  <1> QED
    BY <1>1, <1>2, EngineInvariant, PTL DEF EngineSpec

(* Batches whose closing mutations share a lock of one engine process are  *)
(* acknowledged only with what is stored.                                  *)
THEOREM OrderedBatchesAreStored ==
    EngineSpec /\ []ClosersShareLock => []AckedIsDurable
  <1>1. LocksExclude /\ ClosersShareLock => OneCloser
    BY DEF LocksExclude, ClosersShareLock, OneCloser
  <1> QED
    BY <1>1, LocksAreExclusive, AcknowledgedIsStored, PTL

-----------------------------------------------------------------------------
(* What an identity accepts                                                *)

(* Identity i is used by immediate mutations only.                         *)
OutsideUnits(i) == i # None /\ \A m \in Menu : m.id = i => m.unit = None

(* i has no staged record, and its published one is kept.                  *)
RecordPlain(i) ==
    /\ unitIdempotency[i] = None
    /\ idempotency[i] # None => ~idempotency[i].lapsed

KeepsRecord(i) == idempotency'[i] = idempotency[i] /\ unitIdempotency'[i] = None

(* Expiry and the purge of lapsed records do not touch a plain record.     *)
LEMMA PlainRecordsStay ==
    ASSUME NEW i \in Identity, RecordPlain(i), NEW S,
           idempotency' \in {idempotency, Retained(idempotency)},
           unitIdempotency' \in {unitIdempotency, Retained(unitIdempotency),
                                 RecordsWithout(S)}
    PROVE  KeepsRecord(i)
  BY DEF KeepsRecord, RecordPlain, Retained, RecordsWithout

(* Nor does a publication that finds none staged.                          *)
LEMMA PublishedRecordStays ==
    ASSUME NEW i \in Identity, NEW w, NEW p, FinishWorkUnitPublication(w, p),
           p.stagedRecords[i] = None, p.records[i] = idempotency[i]
    PROVE  KeepsRecord(i)
  BY DEF FinishWorkUnitPublication, KeepsRecord

(* A commit in a unit leaves the records of other identities alone.        *)
LEMMA CommitInUnitRecords ==
    ASSUME NEW i \in Identity, RecordPlain(i), NEW w, NEW c, NEW close, NEW rec,
           NEW late, rec # None => rec.id # i,
           CommitEntityInWorkUnit(w, c, close, rec, late)
    PROVE  KeepsRecord(i)
  <1>1. /\ RecordsWithout(Lapsed)[i] = None /\ StagedRecords(w, rec)[i] = None
        /\ PublishedRecords(rec)[i] = idempotency[i]
    BY DEF RecordPlain, RecordsWithout, StagedRecords, PublishedRecords, Retained
  <1>2. CASE unitIdempotency' = StagedRecords(w, rec) /\ idempotency' = PublishedRecords(rec)
    BY <1>1, <1>2 DEF KeepsRecord
  <1>3. CASE SweepOnly
    BY <1>3, PlainRecordsStay DEF SweepOnly, ExpireWorkUnits
  <1>4. ASSUME NEW hs, NEW rows, NEW marked, NEW states,
               \/ FinishWorkUnitPublication(w,
                    Publication(hs, rows, marked, states,
                                StagedRecords(w, rec), PublishedRecords(rec)))
               \/ FinishWorkUnitPublication(w,
                    Publication(hs, rows, marked, states,
                                RecordsWithout(Lapsed), idempotency))
        PROVE  KeepsRecord(i)
    <2> DEFINE p == Publication(hs, rows, marked, states,
                                StagedRecords(w, rec), PublishedRecords(rec))
               q == Publication(hs, rows, marked, states,
                                RecordsWithout(Lapsed), idempotency)
    <2>1. /\ p.stagedRecords[i] = None /\ p.records[i] = idempotency[i]
          /\ q.stagedRecords[i] = None /\ q.records[i] = idempotency[i]
      BY <1>1 DEF Publication
    <2>2. FinishWorkUnitPublication(w, p) \/ FinishWorkUnitPublication(w, q)
      BY <1>4
    <2> HIDE DEF p, q
    <2> QED
      BY <2>1, <2>2, PublishedRecordStays
  <1> QED
    BY <1>2, <1>3, <1>4 DEF CommitEntityInWorkUnit

(* The published record of an identity used outside units is written once, *)
(* and none is staged.                                                     *)
LEMMA RecordsStay ==
    ASSUME EngineInv, [EngineNext]_vars, NEW i \in Identity, OutsideUnits(i),
           RecordPlain(i)
    PROVE  /\ RecordPlain(i)'
           /\ idempotency[i] # None => idempotency'[i] = idempotency[i]
  <1>0. SUFFICES \/ KeepsRecord(i)
                 \/ /\ idempotency[i] = None /\ unitIdempotency'[i] = None
                    /\ ~idempotency'[i].lapsed
    BY DEF RecordPlain, KeepsRecord
  <1>1. ASSUME UNCHANGED <<unitIdempotency, idempotency>>
        PROVE  KeepsRecord(i)
    BY <1>1 DEF KeepsRecord, RecordPlain
  <1>2. ASSUME NEW S, ExpireWorkUnits(S), UNCHANGED idempotency
        PROVE  KeepsRecord(i)
    BY <1>2, PlainRecordsStay DEF ExpireWorkUnits
  <1>3. PurgeIdempotency => KeepsRecord(i)
    BY PlainRecordsStay DEF PurgeIdempotency
  <1>4. UNCHANGED providerVars => KeepsRecord(i)
    BY <1>1 DEF providerVars, unitVars
  <1>5. ASSUME NEW r \in Req, PrepareIdempotency(r)
        PROVE  KeepsRecord(i)
    BY <1>5, <1>2, <1>3, <1>4
       DEF PrepareIdempotency, ReadIdempotency, ReadIdempotencyInWorkUnit
  <1>6. ASSUME NEW r \in Req, ReadSelected(r)
        PROVE  KeepsRecord(i)
    BY <1>6, <1>2, PlainRecordsStay
       DEF ReadSelected, ReadEntity, SweepOnly, ReadInWorkUnit
  <1>7. ASSUME NEW r \in Req, CommitImmediate(r), ~KeepsRecord(i)
        PROVE  /\ idempotency[i] = None /\ unitIdempotency'[i] = None
               /\ ~idempotency'[i].lapsed
    <2> DEFINE m == Mutation(r)
               c == req[r].commit
               late == req[r].late
               rec == [request |-> m.data, result |-> req[r].accepted, lapsed |-> FALSE]
    <2>1. ~CommitEntity(c, late)
      BY <1>2, <1>7 DEF CommitEntity, SweepOnly
    <2>2. /\ m.id # None
          /\ CommitEntityIdempotent(c, m.id, m.data, req[r].accepted, late)
      BY <1>7, <2>1 DEF CommitImmediate
    <2>3. /\ IdempotentCommitOutcome(c, m.id, m.data, late) = "Committed"
          /\ idempotency' = [Retained(idempotency) EXCEPT ![m.id] = rec]
          /\ unitIdempotency' = Retained(unitIdempotency)
      BY <1>4, <1>7, <2>2 DEF CommitEntityIdempotent
    <2>4. unitIdempotency'[i] = None
      BY <2>3 DEF RecordPlain, Retained
    <2>5. Retained(idempotency)[i] = idempotency[i]
      BY DEF RecordPlain, Retained
    <2>6. m.id = i
      BY <1>7, <2>3, <2>4, <2>5 DEF KeepsRecord, Retained
    <2>7. IdempotencyOutcome(i, m.data) \notin {"Replayed", "Conflict"}
      BY <2>3, <2>6 DEF IdempotentCommitOutcome
    <2>8. idempotency[i] = None
      BY <2>5, <2>7 DEF IdempotencyOutcome
    <2>9. idempotency'[i] = rec
      BY <2>3, <2>6 DEF Retained
    <2> QED
      BY <2>4, <2>8, <2>9
  <1>8. ASSUME NEW r \in Req, CommitInUnit(r)
        PROVE  KeepsRecord(i)
    <2>1. Mutation(r) \in Menu /\ Mutation(r).unit # None
      BY <1>8 DEF CommitInUnit, InUnit, EngineInv, RequestsInv, RequestsTypeOK
    <2>2. RecordOf(r) # None => RecordOf(r).id # i
      BY <2>1 DEF RecordOf, OutsideUnits
    <2>3. CommitEntityInWorkUnit(WorkUnitOf(r), req[r].commit, Mutation(r).close,
                                 RecordOf(r), req[r].late)
      BY <1>8 DEF CommitInUnit
    <2> QED
      BY <2>2, <2>3, CommitInUnitRecords
  <1>9. ASSUME NEW r \in Req, PublishResolved(r)
        PROVE  KeepsRecord(i)
    <2>1. RecordsWithout(Lapsed)[i] = None
      BY DEF RecordPlain, RecordsWithout
    <2>2. ASSUME NEW w, NEW hs, NEW rows, NEW marked, NEW states,
                 FinishWorkUnitPublication(w,
                   Publication(hs, rows, marked, states, RecordsWithout(Lapsed), idempotency))
          PROVE  KeepsRecord(i)
      <3> DEFINE p == Publication(hs, rows, marked, states, RecordsWithout(Lapsed), idempotency)
      <3>1. p.stagedRecords[i] = None /\ p.records[i] = idempotency[i]
        BY <2>1 DEF Publication
      <3>2. FinishWorkUnitPublication(w, p)
        BY <2>2
      <3> HIDE DEF p
      <3> QED
        BY <3>1, <3>2, PublishedRecordStays
    <2>3. PublishWorkUnit(WorkUnitOf(r), req[r].res)
      BY <1>9 DEF PublishResolved
    <2> QED
      BY <1>2, <2>2, <2>3 DEF PublishWorkUnit, SweepOnly
  <1>10. ASSUME NEW r \in Req, ReadPublished(r)
         PROVE  KeepsRecord(i)
    BY <1>10, <1>2 DEF ReadPublished, ReadEntity, SweepOnly
  <1>11. ASSUME NEW r \in Req, Step(r), ~KeepsRecord(i)
         PROVE  CommitImmediate(r)
    BY <1>4, <1>5, <1>6, <1>8, <1>9, <1>10, <1>11 DEF Step, Admit
  <1>12. CASE UNCHANGED vars
    BY <1>4, <1>12 DEF vars
  <1>13. CASE \E r \in Req, n \in Node, m \in Menu :
                \E bases \in KnownBases(m) : Submit(r, n, m, bases)
    BY <1>4, <1>13 DEF Submit
  <1>14. CASE \E r \in Req : Step(r)
    BY <1>7, <1>11, <1>14
  <1>15. CASE \E r \in Req : DeadlinePasses(r)
    BY <1>4, <1>15 DEF DeadlinePasses
  <1>16. CASE \E n \in Node : Crash(n)
    BY <1>4, <1>16 DEF Crash
  <1>17. CASE ExpireOpenWorkUnits
    BY <1>2, <1>17 DEF ExpireOpenWorkUnits, SweepOnly
  <1>18. CASE \E u \in Unit : UnitFallsDue(u)
    BY <1>1, <1>18 DEF UnitFallsDue
  <1> QED
    BY <1>12, <1>13, <1>14, <1>15, <1>16, <1>17, <1>18 DEF EngineNext

(* A request's step is no other request's.                                 *)
LEMMA StepIsOwn ==
    ASSUME RequestsTypeOK, NEW s \in Req, Step(s)
    PROVE  OthersStay(s)
  <1>1. \A p : Goto(s, p) => OthersStay(s)
    BY DEF Goto, OthersStay, RequestsTypeOK
  <1>2. \A x, v : Answer(s, x, v) => OthersStay(s)
    BY DEF Answer, OthersStay, RequestsTypeOK
  <1>3. \A x : Fail(s, x) => OthersStay(s)
    BY <1>2 DEF Fail
  <1>4. Admit(s) => OthersStay(s)
    BY <1>3 DEF Admit, OthersStay, RequestsTypeOK
  <1>5. \A x, v : Proceed(s, x, v) => OthersStay(s)
    BY <1>1, <1>2, <1>3 DEF Proceed
  <1>6. PrepareIdempotency(s) => OthersStay(s)
    BY <1>5 DEF PrepareIdempotency
  <1>7. \A hs, vs : PrepareCommit(s, hs, vs) => OthersStay(s)
    BY <1>3 DEF PrepareCommit, OthersStay, RequestsTypeOK
  <1>8. ReadSelected(s) => OthersStay(s)
    BY <1>3, <1>7 DEF ReadSelected
  <1>9. CommitImmediate(s) => OthersStay(s)
    BY <1>2, <1>3 DEF CommitImmediate
  <1>10. \A hss, plans, K : ResolvePublicationConflicts(s, hss, plans, K) => OthersStay(s)
    BY <1>3 DEF ResolvePublicationConflicts, OthersStay, RequestsTypeOK
  <1>11. CommitInUnit(s) => OthersStay(s)
    BY <1>2, <1>3, <1>10 DEF CommitInUnit
  <1>12. PublishResolved(s) => OthersStay(s)
    BY <1>1, <1>3 DEF PublishResolved
  <1>13. ReadPublished(s) => OthersStay(s)
    BY <1>2, <1>3 DEF ReadPublished
  <1> QED
    BY <1>4, <1>6, <1>8, <1>9, <1>11, <1>12, <1>13 DEF Step

(* A request is answered by a step of its own.                             *)
LEMMA AnsweredByAStep ==
    ASSUME RequestsTypeOK, [EngineNext]_vars, NEW r \in Req,
           req'[r].status # req[r].status
    PROVE  Step(r)
  <1>0. req[r] \in RequestRow
    BY DEF RequestsTypeOK
  <1>1. req'[r] # req[r] /\ ~UNCHANGED req
    OBVIOUS
  <1>2. \A s \in Req : Step(s) => s = r
    BY <1>1, StepIsOwn DEF OthersStay
  <1>3. ASSUME NEW n \in Node, Crash(n)
        PROVE  FALSE
    <2>1. req'[r] = req[r] \/ req'[r] = [req[r] EXCEPT !.pc = "lost"]
      BY <1>3 DEF Crash
    <2> QED
      BY <1>0, <2>1 DEF RequestRow
  <1>4. ASSUME NEW s \in Req, DeadlinePasses(s)
        PROVE  FALSE
    <2>1. req'[r] = req[r] \/ req'[r] = [req[r] EXCEPT !.late = TRUE]
      BY <1>4 DEF DeadlinePasses, RequestsTypeOK
    <2> QED
      BY <1>0, <2>1 DEF RequestRow
  <1>5. ASSUME NEW s \in Req, NEW n, NEW m, NEW bases, Submit(s, n, m, bases)
        PROVE  FALSE
    <2>1. \/ req'[r] = req[r]
          \/ req'[r] = [req[r] EXCEPT !.pc = "admission", !.node = n, !.m = m,
                                      !.bases = bases]
      BY <1>5 DEF Submit, RequestsTypeOK
    <2> QED
      BY <1>0, <2>1 DEF RequestRow
  <1> QED
    BY <1>1, <1>2, <1>3, <1>4, <1>5 DEF EngineNext, vars, engineVars

(* The record that an answer with success leaves or finds.                 *)
Answers(r) ==
    LET record == idempotency[Mutation(r).id]
    IN  /\ record # None
        /\ record.request = Mutation(r).data /\ record.result = req[r].version

(* A keyed immediate request that is answered with success has its answer  *)
(* recorded, and its own version if it is the first.                       *)
LEMMA AnsweredIsRecorded ==
    ASSUME EngineInv, [EngineNext]_vars, NEW r \in Req,
           OutsideUnits(Mutation(r).id), RecordPlain(Mutation(r).id),
           req[r].pc \notin {"idle", "reread"},
           req'[r].status # req[r].status, req'[r].status \in {"OK", "REPLAYED"}
    PROVE  /\ Answers(r)'
           /\ req'[r].status = "OK" => req'[r].version = req[r].accepted
  <1> DEFINE m == Mutation(r)
             c == req[r].commit
             late == req[r].late
  <1>0. /\ RequestsTypeOK /\ TypeOK /\ m \in Menu /\ m.id \in Identity /\ ~InUnit(r)
        /\ req[r] \in RequestRow /\ req[r].accepted \in NoneOr(Version)
    <2>1. RequestsTypeOK /\ TypeOK /\ m \in Menu
      BY DEF EngineInv, RequestsInv, RequestsTypeOK, ProviderInv
    <2>2. m.id \in Identity /\ m.unit = None
      BY <2>1, MenuIsTyped DEF OutsideUnits
    <2> QED
      BY <2>1, <2>2 DEF InUnit, RequestsTypeOK, RequestRow
  <1>1. \A x \in RequestStatus : Fail(r, x) => req'[r].status = x
    BY <1>0, FailMoves
  <1>2. \A p \in RequestPc : Goto(r, p) => req'[r].status = req[r].status
    BY <1>0, GotoMoves
  <1>3. Step(r)
    BY <1>0, AnsweredByAStep
  <1>4. ~Admit(r)
    <2>1. ~Fail(r, "DEADLINE_EXCEEDED")
      BY <1>1 DEF RequestStatus, Refusals
    <2> SUFFICES ASSUME Admit(r)
                 PROVE  req'[r].status = req[r].status
      OBVIOUS
    <2> DEFINE p == IF m.id = None THEN "read" ELSE "idempotency"
               due == InUnit(r) /\ unit[m.unit].due
    <2>2. req'[r] = [req[r] EXCEPT !.pc = p, !.seesDue = due]
      BY <1>0, <2>1 DEF Admit, RequestsTypeOK
    <2> HIDE DEF p, due
    <2> QED
      BY <1>0, <2>2 DEF RequestRow
  <1>5. CASE PrepareIdempotency(r)
    <2> DEFINE outcome == IF late THEN "DeadlineExceeded"
                          ELSE IdempotencyOutcome(m.id, m.data)
    <2>1. Proceed(r, outcome, idempotency[m.id])
      BY <1>0, <1>5 DEF PrepareIdempotency
    <2>2. outcome = "Replayed"
      <3>1. outcome # "ReplayedStaged"
        BY <1>0, ReplayedRecords
      <3> HIDE DEF outcome
      <3>2. /\ ~Fail(r, "IDEMPOTENCY_CONFLICT") /\ ~Fail(r, "DEADLINE_EXCEEDED")
            /\ ~Goto(r, "read")
        BY <1>1, <1>2 DEF RequestStatus, Refusals, RequestPc
      <3> QED
        BY <2>1, <3>1, <3>2 DEF Proceed
    <2>3. /\ IdempotencyOutcome(m.id, m.data) = "Replayed"
          /\ Answer(r, "REPLAYED", idempotency[m.id].result)
      BY <2>1, <2>2 DEF Proceed
    <2>4. /\ req'[r].status = "REPLAYED" /\ req'[r].version = idempotency[m.id].result
          /\ Mutation(r)' = m
      BY <1>0, <2>3, ReplayedRecords, AnswerMoves DEF RequestStatus, NoneOr, Moves, Mutation
    <2>5. idempotency[m.id] # None /\ idempotency[m.id].request = m.data
      BY <1>0, <2>3 DEF IdempotencyOutcome, Retained
    <2>6. idempotency'[m.id] = idempotency[m.id]
      BY <1>0, <2>5, RecordsStay
    <2> QED
      BY <2>4, <2>5, <2>6 DEF Answers
  <1>6. ~ReadSelected(r)
    <2>1. \A x \in RequestStatus \ {"OK", "REPLAYED"} : ~Fail(r, x)
      BY <1>1
    <2>2. Refusals \subseteq RequestStatus \ {"OK", "REPLAYED"}
      BY DEF RequestStatus, Refusals
    <2>3. ~PrepareCommit(r, heads[m.key], published[m.key])
      <3>1. heads[m.key] \in SUBSET Version
        BY <1>0, MenuIsTyped DEF TypeOK, EntityTypeOK
      <3> QED
        BY <1>0, <2>1, <2>2, <3>1, PrepareCommitDoes DEF Prepares
    <2>4. ~Fail(r, "DEADLINE_EXCEEDED")
      BY <2>1, <2>2 DEF Refusals
    <2> QED
      BY <1>0, <2>3, <2>4 DEF ReadSelected
  <1>7. CASE CommitImmediate(r)
    <2> DEFINE out == IdempotentCommitOutcome(c, m.id, m.data, late)
               rec == [request |-> m.data, result |-> req[r].accepted, lapsed |-> FALSE]
    <2>0. m.id # None
      BY DEF OutsideUnits
    <2>1. /\ CommitEntityIdempotent(c, m.id, m.data, req[r].accepted, late)
          /\ CASE out = "Committed" -> Answer(r, "OK", req[r].accepted)
               [] out = "Replayed"  -> Answer(r, "REPLAYED", idempotency[m.id].result)
               [] OTHER             -> Fail(r, CommitRefusal(out))
      BY <1>7, <2>0 DEF CommitImmediate
    <2>2. \A x : CommitRefusal(x) \in RequestStatus \ {"OK", "REPLAYED"}
      BY DEF CommitRefusal, RequestStatus, Refusals
    <2>3. out \in {"Committed", "Replayed"}
      <3> HIDE DEF out
      <3> QED
        BY <1>1, <2>1, <2>2
    <2>4. CASE out = "Committed"
      <3>1. Answer(r, "OK", req[r].accepted)
        BY <2>1, <2>4
      <3>2. req'[r].version = req[r].accepted /\ Mutation(r)' = m
        BY <1>0, <3>1, AnswerMoves DEF RequestStatus, Moves, Mutation
      <3>3. idempotency' = [Retained(idempotency) EXCEPT ![m.id] = rec]
        BY <2>1, <2>4 DEF CommitEntityIdempotent
      <3>4. idempotency'[m.id] = rec
        BY <1>0, <3>3 DEF Retained
      <3>5. rec # None
        <4>1. req[r].accepted \in Version
          BY <1>7, PreparedCommits DEF CommitImmediate
        <4>2. rec \in Record
          BY <1>0, <4>1, MenuIsTyped DEF Record
        <4> QED
          BY <4>2, NoneIsNoRecord
      <3> QED
        BY <3>2, <3>4, <3>5 DEF Answers
    <2>5. CASE out = "Replayed"
      <3>1. Answer(r, "REPLAYED", idempotency[m.id].result)
        BY <2>1, <2>5
      <3>2. IdempotencyOutcome(m.id, m.data) = "Replayed"
        BY <2>5 DEF IdempotentCommitOutcome, CommitOutcome
      <3>3. /\ req'[r].status = "REPLAYED" /\ req'[r].version = idempotency[m.id].result
            /\ Mutation(r)' = m
        BY <1>0, <3>1, <3>2, ReplayedRecords, AnswerMoves DEF RequestStatus, NoneOr, Moves, Mutation
      <3>4. idempotency[m.id] # None /\ idempotency[m.id].request = m.data
        BY <1>0, <3>2 DEF IdempotencyOutcome, Retained
      <3>5. idempotency'[m.id] = idempotency[m.id]
        BY <1>0, <3>4, RecordsStay
      <3> QED
        BY <3>3, <3>4, <3>5 DEF Answers
    <2> QED
      BY <2>3, <2>4, <2>5
  <1>8. ~CommitInUnit(r) /\ ~ReadPublished(r) /\ ~PublishResolved(r)
    BY <1>0 DEF CommitInUnit, ReadPublished, PublishResolved, EngineInv, RequestsInv,
                ReadyFor, Resolves
  <1> QED
    BY <1>3, <1>4, <1>5, <1>6, <1>7, <1>8 DEF Step

(* Identities that are used outside units keep plain records.              *)
PlainInv == \A i \in Identity : OutsideUnits(i) => RecordPlain(i)

(* An identity that is used outside of units only has no staged record,    *)
(* and its record does not lapse.                                          *)
LEMMA RecordsArePlain == EngineSpec => []PlainInv
  <1>1. EngineInit => PlainInv
    BY DEF EngineInit, Init, UnitsInit, PlainInv, RecordPlain
  <1>2. EngineInv /\ PlainInv /\ [EngineNext]_vars => PlainInv'
    <2> SUFFICES ASSUME EngineInv, PlainInv, [EngineNext]_vars,
                        NEW i \in Identity, OutsideUnits(i)
                 PROVE  RecordPlain(i)'
      BY DEF PlainInv
    <2>1. RecordPlain(i)
      BY DEF PlainInv
    <2> QED
      BY <2>1, RecordsStay
  <1> QED
    BY <1>1, <1>2, EngineInvariant, PTL DEF EngineSpec

(* A request has no version before it prepares one and no answer before it *)
(* is done.                                                                *)
Orderly(r) ==
    /\ req[r].pc \in Early => req[r].accepted = None
    /\ req[r].status # "none" => req[r].pc = "done"
    /\ req[r].pc = "reread" => InUnit(r)
    /\ req[r].pc = "idle" => Mutation(r).id = None

(* The version that a keyed immediate request publishes, and the one it is *)
(* answered with, are those of its identity's record.                      *)
OnceOf(r) ==
    /\ Orderly(r)
    /\ OutsideUnits(Mutation(r).id) =>
          /\ ~Lingers(r)
          /\ IsPublished(r) =>
                /\ idempotency[Mutation(r).id] # None
                /\ idempotency[Mutation(r).id].result = req[r].accepted
          /\ req[r].status \in {"OK", "REPLAYED"} => Answers(r)

OnceInv == \A r \in Req : OnceOf(r)

(* Every step keeps the order of a request's program points.               *)
LEMMA OrderlyStep ==
    ASSUME StepClass, NEW r \in Req, Orderly(r)
    PROVE  Orderly(r)'
  <1>1. CASE CarriesOn(r)
    BY <1>1 DEF CarriesOn, Orderly, InUnit, Mutation
  <1>2. CASE ReadsHeads(r)
    BY <1>2 DEF ReadsHeads, Prepares, Orderly, Early
  <1>3. CASE CommitsImmediately(r) \/ PublishesBatch(r)
    BY <1>3 DEF CommitsImmediately, PublishesBatch, Moves, Orderly, Early
  <1>4. CASE PublishesDrifted(r)
    BY <1>4 DEF PublishesDrifted, Moves, Orderly, Early, InUnit, Mutation
  <1>5. CASE StagesInUnit(r) \/ FindsSealed(r)
    BY <1>5 DEF StagesInUnit, FindsSealed, Moves, ResolvesDrift, Orderly, Early
  <1> QED
    BY <1>1, <1>2, <1>3, <1>4, <1>5, ActsOrCarriesOn

(* A request that has just been submitted has nothing to answer for.       *)
LEMMA SubmittedOnce ==
    ASSUME EngineInv, EngineInv', [EngineNext]_vars, StepClass, NEW r \in Req,
           Orderly(r), Orderly(r)', req[r].pc = "idle", Mutation(r)'.id # None
    PROVE  ~Lingers(r)' /\ ~IsPublished(r)' /\ req'[r].status = "none"
  <1>1. CarriesOn(r)
    BY ActsOrCarriesOn DEF ReadsHeads, CommitsImmediately, StagesInUnit, PublishesBatch,
                           PublishesDrifted, FindsSealed
  <1>2. req'[r].accepted = None /\ req'[r].pc # "idle"
    BY <1>1 DEF CarriesOn, Orderly, Early, Mutation
  <1>3. req'[r].status = "none"
    <2>1. ~Step(r)
      BY DEF Step, Admit, PrepareIdempotency, ReadSelected, CommitImmediate,
             CommitInUnit, PublishResolved, ReadPublished
    <2>2. req'[r].status = req[r].status
      BY <2>1, AnsweredByAStep DEF EngineInv, RequestsInv
    <2> QED
      BY <2>2 DEF Orderly
  <1>4. Mutation(r)'.key \in Key
    BY <1>2, MenuIsTyped DEF EngineInv, RequestsInv, RequestsTypeOK, Mutation
  <1>5. /\ \A k \in Key : None \notin published'[k]
        /\ \A t \in Unit, k \in Key : None \notin staged'[t][k]
    BY NoneIsNoVersion DEF EngineInv, ProviderInv, TypeOK, EntityTypeOK, UnitTypeOK
  <1> QED
    BY <1>2, <1>3, <1>4, <1>5 DEF Lingers, IsPublished, Mutation

(* Every step keeps what is known of a keyed request.                      *)
LEMMA OnceStep ==
    ASSUME EngineInv, EngineInv', PlainInv, OnceInv, [EngineNext]_vars, NEW r \in Req
    PROVE  OnceOf(r)'
  <1> DEFINE v == req[r].accepted
             i == Mutation(r).id
  <1>0. StepClass /\ OnceOf(r) /\ Orderly(r) /\ Orderly(r)'
    BY EngineStepClass, OrderlyStep DEF OnceInv, OnceOf
  <1> SUFFICES ASSUME OutsideUnits(Mutation(r).id)'
               PROVE  /\ ~Lingers(r)'
                      /\ IsPublished(r)' =>
                            /\ idempotency'[Mutation(r)'.id] # None
                            /\ idempotency'[Mutation(r)'.id].result = req'[r].accepted
                      /\ req'[r].status \in {"OK", "REPLAYED"} => Answers(r)'
    BY <1>0 DEF OnceOf
  <1>1. CASE req[r].pc = "idle"
    BY <1>0, <1>1, SubmittedOnce DEF OutsideUnits
  <1>2. CASE req[r].pc # "idle"
    <2>1. Mutation(r)' = Mutation(r)
      BY <1>0, <1>2, ActsOrCarriesOn
         DEF CarriesOn, ReadsHeads, Prepares, CommitsImmediately, StagesInUnit,
             PublishesBatch, PublishesDrifted, FindsSealed, Moves, ResolvesDrift,
             Mutation
    <2>2. OutsideUnits(i) /\ Mutation(r) \in Menu
      BY <1>2, <2>1 DEF OutsideUnits, EngineInv, RequestsInv, RequestsTypeOK
    <2>3. i \in Identity /\ ~InUnit(r)
      BY <2>2, MenuIsTyped DEF OutsideUnits, InUnit
    <2>4. RecordPlain(i)
      BY <2>2, <2>3 DEF PlainInv
    <2>5. idempotency[i] # None => idempotency'[i] = idempotency[i]
      BY <2>2, <2>3, <2>4, RecordsStay
    <2>6. /\ CarriesOn(r) \/ ReadsHeads(r) \/ CommitsImmediately(r)
          /\ ~StagesInUnit(r) /\ ~PublishesBatch(r) /\ ~PublishesDrifted(r)
      BY <1>0, <2>3, ActsOrCarriesOn
         DEF StagesInUnit, PublishesBatch, PublishesDrifted, FindsSealed
    <2>7. ASSUME req'[r].status # req[r].status, req'[r].status \in {"OK", "REPLAYED"}
          PROVE  /\ Answers(r)'
                 /\ req'[r].status = "OK" => req'[r].version = v
      BY <1>0, <1>2, <2>2, <2>3, <2>4, <2>7, AnsweredIsRecorded DEF Orderly
    <2>8. req'[r].status \in {"OK", "REPLAYED"} => Answers(r)'
      <3> SUFFICES ASSUME req'[r].status = req[r].status,
                          req[r].status \in {"OK", "REPLAYED"}
                   PROVE  Answers(r)'
        BY <2>7
      <3>1. req[r].pc = "done"
        BY <1>0 DEF Orderly
      <3>2. req'[r] = req[r]
        BY <2>6, <3>1 DEF CarriesOn, ReadsHeads, CommitsImmediately
      <3>3. Answers(r)
        BY <1>0, <2>2 DEF OnceOf
      <3> QED
        BY <2>1, <2>5, <3>2, <3>3 DEF Answers
    <2>9. CASE ReadsHeads(r)
      <3>1. req'[r].pc = "commit" /\ req'[r].accepted \in Pending(r)'
        BY <2>9 DEF ReadsHeads, Prepares, Pending
      <3>2. req'[r].accepted \notin Rows'
        BY <3>1 DEF EngineInv, RequestsInv, DrawsInv
      <3>3. Mutation(r)'.key \in Key
        BY <2>1, <2>2, MenuIsTyped
      <3>4. ~Lingers(r)' /\ ~IsPublished(r)'
        <4>1. ~IsPublished(r)'
          BY <3>2, <3>3 DEF IsPublished, Rows
        <4>2. ASSUME NEW t \in Unit, NEW k \in Key, req'[r].accepted \in staged'[t][k]
              PROVE  FALSE
          <5>1. <<t, k>> \in Unit \X Key /\ <<t, k>>[1] = t /\ <<t, k>>[2] = k
            OBVIOUS
          <5> QED
            BY <3>2, <4>2, <5>1 DEF Rows
        <4> QED
          BY <4>1, <4>2 DEF Lingers
      <3> QED
        BY <2>8, <3>4
    <2>10. CASE ~ReadsHeads(r)
      <3>1. req'[r].accepted = v
        BY <2>6, <2>10 DEF CarriesOn, CommitsImmediately, Moves
      <3>2. ASSUME NEW s \in Req, v # None, v \in Pending(s)
            PROVE  s = r
        BY <3>2, OwnVersion
      <3>3. ASSUME NEW t \in Unit, NEW k \in Key, v \in staged'[t][k]
            PROVE  FALSE
        <4>1. v # None
          BY <3>3, NoneIsNoVersion DEF EngineInv, ProviderInv, TypeOK, UnitTypeOK
        <4>2. v \notin staged[t][k]
          BY <1>0, <2>2 DEF OnceOf, Lingers
        <4>3. PICK s \in Req : StagesInUnit(s) /\ v \in Pending(s)
          BY <1>0, <3>3, <4>2, NewlyStaged
        <4> QED
          BY <2>6, <3>2, <4>1, <4>3
      <3>4. ~Lingers(r)'
        BY <3>1, <3>3 DEF Lingers
      <3>5. ASSUME v \in published'[Mutation(r).key]
            PROVE  idempotency'[i] # None /\ idempotency'[i].result = v
        <4>1. Mutation(r).key \in Key
          BY <2>2, MenuIsTyped
        <4>2. v # None
          BY <3>5, <4>1, NoneIsNoVersion DEF EngineInv, ProviderInv, TypeOK, EntityTypeOK
        <4>3. CASE v \in published[Mutation(r).key]
          BY <1>0, <2>2, <2>5, <4>3 DEF OnceOf, IsPublished
        <4>4. CASE v \notin published[Mutation(r).key]
          <5>1. \A t \in Unit : v \notin staged[t][Mutation(r).key]
            BY <1>0, <2>2, <4>1 DEF OnceOf, Lingers
          <5>2. PICK s \in Req :
                  \/ /\ CommitsImmediately(s) \/ PublishesBatch(s) \/ PublishesDrifted(s)
                     /\ v \in Pending(s)
                  \/ /\ Mutation(s).unit \in Unit
                     /\ v \in staged[Mutation(s).unit][Mutation(r).key]
            BY <1>0, <3>5, <4>1, <4>4, NewlyPublished
          <5>3. CommitsImmediately(r)
            BY <2>6, <3>2, <4>2, <5>1, <5>2
          <5>4. req[r].status = "none" /\ req'[r].status = "OK"
            BY <1>0, <5>3 DEF CommitsImmediately, Orderly
          <5>5. Answers(r)' /\ req'[r].version = v
            BY <2>7, <5>4
          <5> QED
            BY <2>1, <5>5 DEF Answers
        <4> QED
          BY <4>3, <4>4
      <3> QED
        BY <2>1, <2>8, <3>1, <3>4, <3>5 DEF IsPublished
    <2> QED
      BY <2>9, <2>10
  <1> QED
    BY <1>1, <1>2

(* It holds of every reachable state.                                      *)
LEMMA OnceKept == EngineSpec => []OnceInv
  <1>1. EngineInit => OnceInv
    BY DEF EngineInit, RequestsInit, OnceInv, OnceOf, Orderly, OutsideUnits,
           NoMutation, Mutation
  <1>2. EngineInv /\ EngineInv' /\ PlainInv /\ OnceInv /\ [EngineNext]_vars => OnceInv'
    BY OnceStep DEF OnceInv
  <1> QED
    BY <1>1, <1>2, EngineInvariant, RecordsArePlain, PTL DEF EngineSpec

(* Two requests under an identity that is used outside units only publish  *)
(* one version between them and are answered with the same one.            *)
OnceOutsideUnits ==
    \A r, s \in Req :
        /\ Mutation(r).id = Mutation(s).id
        /\ OutsideUnits(Mutation(r).id)
        => /\ IsPublished(r) /\ IsPublished(s) => r = s
           /\ {req[r].status, req[s].status} \subseteq {"OK", "REPLAYED"}
                => /\ Mutation(r).data = Mutation(s).data
                   /\ req[r].version = req[s].version

(* Of the requests under one such identity at most one publishes, and      *)
(* successes name one version.                                             *)
LEMMA OnceOutside ==
    ASSUME EngineInv, OnceInv
    PROVE  OnceOutsideUnits
  <1> SUFFICES ASSUME NEW r \in Req, NEW s \in Req, Mutation(r).id = Mutation(s).id,
                      OutsideUnits(Mutation(r).id)
               PROVE  /\ IsPublished(r) /\ IsPublished(s) => r = s
                      /\ {req[r].status, req[s].status} \subseteq {"OK", "REPLAYED"}
                           => /\ Mutation(r).data = Mutation(s).data
                              /\ req[r].version = req[s].version
    BY DEF OnceOutsideUnits
  <1>1. OnceOf(r) /\ OnceOf(s)
    BY DEF OnceInv
  <1>2. ASSUME IsPublished(r), IsPublished(s)
        PROVE  r = s
    <2>1. req[r].accepted = req[s].accepted
      BY <1>1, <1>2 DEF OnceOf
    <2>2. Mutation(r) \in Menu
      BY <1>1 DEF OnceOf, Orderly, OutsideUnits, EngineInv, RequestsInv, RequestsTypeOK
    <2>3. req[r].accepted # None
      BY <1>2, <2>2, MenuIsTyped, NoneIsNoVersion
         DEF IsPublished, EngineInv, ProviderInv, TypeOK, EntityTypeOK
    <2>4. req[r].accepted \in Drawn(r) /\ req[r].accepted \in Drawn(s)
      BY <2>1, <2>3 DEF Drawn
    <2> QED
      BY <2>4 DEF EngineInv, RequestsInv, DrawsInv
  <1>3. ASSUME {req[r].status, req[s].status} \subseteq {"OK", "REPLAYED"}
        PROVE  /\ Mutation(r).data = Mutation(s).data
               /\ req[r].version = req[s].version
    <2>1. Answers(r) /\ Answers(s)
      BY <1>1, <1>3 DEF OnceOf
    <2> QED
      BY <2>1 DEF Answers
  <1> QED
    BY <1>2, <1>3

(* An identity that clients use for immediate mutations only is accepted   *)
(* once: however often and wherever it is retried, with equal or other     *)
(* data, concurrently or after a crash, one version is published under it  *)
(* and every answer of success names that version.                         *)
THEOREM IdentitiesAreAcceptedOnce == EngineSpec => []OnceOutsideUnits
  <1>1. EngineInv /\ OnceInv => OnceOutsideUnits
    BY OnceOutside
  <1> QED
    BY <1>1, EngineInvariant, OnceKept, PTL

(* Where no mutation of a work unit carries an identity, this is all that  *)
(* ExactlyOnce asks.  With one it may fail: a staged mutation repeated     *)
(* with the close marker is staged again (engine.rs:867).                  *)
THEOREM KeyedOnce ==
    ASSUME \A m \in Menu : m.id # None => m.unit = None
    PROVE  EngineSpec => []ExactlyOnce
  <1>1. OnceOutsideUnits => ExactlyOnce
    BY DEF OnceOutsideUnits, ExactlyOnce, OutsideUnits
  <1> QED
    BY <1>1, IdentitiesAreAcceptedOnce, PTL
=============================================================================
