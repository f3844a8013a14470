-------------------------- MODULE RetrievalProofs ---------------------------
(***************************************************************************)
(* Proofs about consistent reads and paged retrieval, for every set of     *)
(* entities, versions, units and sessions, every page size and every bound *)
(* on time: the provider under a retrieval workload keeps its invariant,   *)
(* and from that reads meet their floors and a search in a unit agrees     *)
(* with a read in it.                                                      *)
(***************************************************************************)
EXTENDS Retrieval, SqliteProviderProofs

-----------------------------------------------------------------------------
(* The provider under retrieval                                            *)

(* The seeds of a database are numbered from 1.                            *)
LEMMA SeedsType ==
    ASSUME RetrievalInit
    PROVE  /\ Cardinality(Seeds) \in Nat
           /\ Seeds \subseteq Key \cap Version
           /\ \A k \in Seeds : k \in Nat \ {0} /\ k <= Cardinality(Seeds)
  <1>1. Seeds \in {ReadSeeds, WalkSeeds}
    BY DEF Seeds
  <1>2. Seeds \subseteq Key \cap Version /\ Seeds = 1 .. Cardinality(Seeds)
    BY <1>1, SeedsAreEntities, SeedsAreNumbered
  <1>3. Cardinality(Seeds) \in Nat
    BY <1>2, FiniteKeys, FS_Subset, FS_CardinalityType
  <1>4. ASSUME NEW k \in Seeds PROVE k \in Nat \ {0} /\ k <= Cardinality(Seeds)
    <2>1. k \in 1 .. Cardinality(Seeds)
      BY <1>2
    <2> QED
      BY <1>3, <2>1
  <1> QED
    BY <1>2, <1>3, <1>4

(* A database of seeds satisfies the provider's invariant.                 *)
LEMMA SeededProviderInv ==
    ASSUME RetrievalInit
    PROVE  ProviderInv
  <1> DEFINE S == Seeds
             row(k) == [cursor |-> k, key |-> k, kind |-> "created",
                        heads |-> {k}, by |-> None]
  <1>1. /\ Cardinality(S) \in Nat
        /\ S \subseteq Key \cap Version
        /\ \A k \in S : k \in Nat \ {0} /\ k <= Cardinality(S)
    BY SeedsType
  <1>2. /\ published = [k \in Key |-> IF k \in S THEN {k} ELSE {}]
        /\ publishedCursor = [v \in Version |-> IF v \in S THEN v ELSE 0]
        /\ rowState = [v \in Version |-> "active"]
        /\ heads = published
        /\ changes = {row(k) : k \in S}
        /\ frontier = Cardinality(S)
        /\ UnitsInit
    BY DEF RetrievalInit
  <1> HIDE DEF S
  <1>3. /\ \A u \in Unit : /\ unit[u].state = "none" /\ unit[u].baseline = 0
                           /\ captured[u] = {} /\ unitHeads[u] = NoKeys
        /\ \A u \in Unit, k \in Key : staged[u][k] = {} /\ unitHeads[u][k] = {}
    BY <1>2 DEF UnitsInit, NoKeys
  <1>4. \A k \in S : row(k) \in Change
    BY <1>1 DEF Change, ChangeKind
  <1>5. EntityTypeOK
    BY <1>1, <1>2, <1>4 DEF EntityTypeOK
  <1>6. TypeOK
    BY <1>2, <1>5 DEF UnitsInit, TypeOK, CaptureTypeOK, UnitTypeOK,
                      IdempotencyTypeOK, NoKeys, UnitRow
  <1>7. \A r \in changes : /\ r.key \in S /\ r.cursor = r.key /\ r.by = None
                           /\ r.heads = {r.key} /\ r.cursor <= frontier
    BY <1>1, <1>2
  <1>8. RowsInv
    BY <1>2, <1>3, <1>7, <1>1 DEF RowsInv, HeadsHaveRows, StagedIsPrivate
  <1>9. \A k \in Key : HeadsAt(k, frontier) = heads[k]
    <2> SUFFICES ASSUME NEW k \in Key PROVE HeadsAt(k, frontier) = heads[k]
      OBVIOUS
    <2> DEFINE rows == {r \in changes : r.key = k /\ r.cursor <= frontier}
    <2>1. CASE k \in S
      <3>5. row(k) \in rows
        BY <1>1, <1>2, <2>1
      <3>6. \A r \in rows : r = row(k)
        <4> SUFFICES ASSUME NEW r \in rows PROVE r = row(k)
          OBVIOUS
        <4>1. PICK j \in S : r = row(j)
          BY <1>2
        <4>2. r.key = j /\ r.key = k
          BY <4>1
        <4> QED
          BY <4>1, <4>2
      <3>1. rows = {row(k)}
        BY <3>5, <3>6
      <3>2. {r \in rows : \A q \in rows : q.cursor <= r.cursor} = {row(k)}
        <4>1. row(k).cursor <= row(k).cursor
          BY <1>1, <2>1
        <4> HIDE DEF row, rows
        <4> QED
          BY <3>1, <4>1
      <3>3. UNION {r.heads : r \in {row(k)}} = {k}
        OBVIOUS
      <3>4. HeadsAt(k, frontier) =
              UNION {r.heads : r \in {r \in rows : \A q \in rows : q.cursor <= r.cursor}}
        BY DEF HeadsAt
      <3> QED
        BY <1>2, <2>1, <3>2, <3>3, <3>4
    <2>2. CASE k \notin S
      <3>1. rows = {}
        BY <1>7, <2>2
      <3> QED
        BY <1>2, <2>2, <3>1 DEF HeadsAt
    <2> QED
      BY <2>1, <2>2
  <1>10. HistoryInv
    BY <1>1, <1>2, <1>3, <1>7, <1>9 DEF HistoryInv, HistoryMatchesHeads, BaselineIsSnapshot
  <1>11. UnitsInv
    <2>1. BatchIsAtomic
      BY <1>3, <1>7, NoneIsNoUnit DEF BatchIsAtomic
    <2> QED
      BY <1>3, <2>1 DEF UnitsInv, SealedUnitHasDrift, Live
  <1> QED
    BY <1>6, <1>8, <1>10, <1>11 DEF ProviderInv


(* What is listed is the candidate of an entity that was found.            *)
LEMMA PageIds ==
    ASSUME NEW w
    PROVE  \A c \in Remaining(w) : /\ c.id \in Found(w) /\ c.id \in Key
                                   /\ c = Candidate(w, c.id)
  <1>1. \A k \in Found(w) : k \in Key /\ Candidate(w, k).id = k
    BY DEF Found, Candidate
  <1> QED
    BY <1>1 DEF Remaining

(* Every step of a retrieval workload is one of the provider, or leaves it *)
(* alone.                                                                  *)
LEMMA RetrievalIsProvider ==
    ASSUME ProviderInv, [RetrievalNext]_retrievalVars
    PROVE  [Next]_providerVars
  <1>1. CASE UNCHANGED retrievalVars
    BY <1>1 DEF retrievalVars
  <1>2. ASSUME NEW c \in Constraint,
               ReadEntityConsistent(c) \/ RetrieveEntitiesConsistent(c)
        PROVE  [Next]_providerVars
    BY <1>2 DEF ReadEntityConsistent, RetrieveEntitiesConsistent, ReadEntity,
                ExpireOpenWorkUnits, Next
  <1>3. ASSUME NEW w \in WorkUnit, NEW K \in SUBSET Key, NEW late \in BOOLEAN,
               ReadInWorkUnit(w, K, late)
        PROVE  [Next]_providerVars
    BY <1>3 DEF WorkUnitOperation, Next
  <1>4. ASSUME NEW w \in WorkUnit, NEW k \in Key, NEW c \in Constraint,
               ReadEntityInWorkUnit(w, k, c)
        PROVE  [Next]_providerVars
    <2>1. c.late \in BOOLEAN
      BY DEF Constraint
    <2>2. CASE SweepOnly
      BY <2>2 DEF ExpireOpenWorkUnits, Next
    <2>3. CASE ReadInWorkUnit(w, {k}, c.late)
      BY <1>3, <2>1, <2>3
    <2> QED
      BY <1>4, <2>2, <2>3 DEF ReadEntityInWorkUnit
  <1>5. ASSUME NEW S \in Sessions, NEW k \in Key, NEW at \in Times,
               NEW late \in BOOLEAN, NEW c \in Commits(k, heads[k]),
               Write(S, c, at, late)
        PROVE  [Next]_providerVars
    <2>1. CommitEntity(c, late)
      BY <1>5 DEF Write
    <2>2. heads[k] \in Seen(k)
      BY DEF Seen
    <2>3. ImmediateOperation(late)
      BY <2>1, <2>2 DEF ImmediateOperation
    <2> QED
      BY <2>3 DEF Next
  <1>6. ASSUME NEW w \in WorkUnit, NEW k \in Key, NEW at \in Times,
               NEW close \in BOOLEAN, NEW c \in Commits(k, WorkUnitHeads(w, k)),
               Stage(w, c, close, at)
        PROVE  [Next]_providerVars
    <2>1. CommitEntityInWorkUnit(w, c, close, None, FALSE)
      BY <1>6 DEF Stage
    <2>2. WorkUnitHeads(w, k) \in SeenIn(w, k) /\ None \in UnitRecordsOf(c)
      BY DEF SeenIn, UnitRecordsOf, NoRecord
    <2>3. WorkUnitOperation(w, FALSE)
      BY <2>1, <2>2 DEF WorkUnitOperation
    <2> QED
      BY <2>3 DEF Next
  <1>7. ASSUME NEW order \in Order, NEW w \in WorkUnit \cup {None},
               BeginWalk(order, w)
        PROVE  [Next]_providerVars
    BY <1>3, <1>7 DEF BeginWalk
  <1>8. CASE RetrieveEntities
    BY <1>8 DEF RetrieveEntities
  <1>9. ASSUME NEW w \in WorkUnit, RetrieveEntitiesInWorkUnit(w)
        PROVE  [Next]_providerVars
    <2>1. {c.id : c \in Page(w)} \in SUBSET Key
      BY PageIds DEF Page
    <2> QED
      BY <1>3, <1>9, <2>1 DEF RetrieveEntitiesInWorkUnit
  <1>10. CASE Elapse
    BY <1>10 DEF Elapse, Next
  <1> QED
    BY <1>1, <1>2, <1>4, <1>5, <1>6, <1>7, <1>8, <1>9, <1>10 DEF RetrievalNext

(* The provider's invariant holds throughout a retrieval workload.         *)
THEOREM RetrievalKeepsProviderInv == RetrievalSpec => []ProviderInv
  <1>1. RetrievalInit => ProviderInv
    BY SeededProviderInv
  <1>2. ProviderInv /\ [RetrievalNext]_retrievalVars => ProviderInv'
    BY RetrievalIsProvider, NextKeepsProviderInv
  <1> QED
    BY <1>1, <1>2, PTL DEF RetrievalSpec

(* In a unit a search and a read agree, since what the unit captured is    *)
(* its baseline's.                                                         *)
THEOREM SearchesAgree == RetrievalSpec => []SearchAgreesWithRead
  <1>1. ProviderInv => SearchAgreesWithRead
    <2> SUFFICES ASSUME ProviderInv, NEW w \in WorkUnit, unit[w.id].state = "open",
                        NEW k \in Key
                 PROVE  VisibleHead(w, k) = WorkUnitHeads(w, k)
      BY DEF SearchAgreesWithRead
    <2>1. w.id \in Unit /\ Baseline(w) = unit[w.id].baseline
      BY DEF WorkUnit, Baseline
    <2>2. HeadsAt(k, Baseline(w)) = BaseHeads(w, k)
      BY <2>1 DEF ProviderInv, HistoryInv, BaselineIsSnapshot, BaseHeads
    <2> QED
      BY <2>2 DEF VisibleHead, WorkUnitHeads
  <1> QED
    BY <1>1, RetrievalKeepsProviderInv, PTL

-----------------------------------------------------------------------------
(* Session and causal constraints                                          *)

(* The greatest of up to three numbers is one of them and no smaller than  *)
(* any.                                                                    *)
LEMMA GreatestOfThree ==
    ASSUME NEW a \in Nat, NEW b \in Nat, NEW d \in Nat
    PROVE  /\ Greatest({a, b, d}) \in {a, b, d}
           /\ \A m \in {a, b, d} : m <= Greatest({a, b, d})
  <1>1. \E n \in {a, b, d} : \A m \in {a, b, d} : m <= n
    <2>1. CASE b <= a /\ d <= a
      BY <2>1
    <2>2. CASE a <= b /\ d <= b
      BY <2>2
    <2>3. CASE a <= d /\ b <= d
      BY <2>3
    <2> QED
      BY <2>1, <2>2, <2>3
  <1> QED
    BY <1>1 DEF Greatest

(* Floors as stored and as the session knows them.                         *)
FloorInv ==
    /\ ReadsMeetTheirFloor
    /\ readCursor \in [Session -> Nat]
    /\ writeCursor \in [Session -> Nat]

(* A floor that is advanced stays typed.                                   *)
LEMMA AtLeastType ==
    ASSUME NEW f \in [Session -> Nat], NEW S, NEW c \in Nat
    PROVE  AtLeast(f, S, c) \in [Session -> Nat]
  BY DEF AtLeast

(* A read that its constraints admit at a cursor is as fresh as they ask,  *)
(* and advances the floor to what the session saw.                         *)
LEMMA ServedIsFresh ==
    ASSUME FloorInv, frontier \in Nat, NEW c \in Constraint, NEW at \in Nat,
           Observation(c, at) = "Read", Serve(c, at)
    PROVE  FloorInv'
  <1> DEFINE r == IF c.monotonic THEN readCursor[c.session] ELSE 0
             o == IF c.ownWrites THEN writeCursor[c.session] ELSE 0
  <1>1. c.session \in Session /\ c.token \in Nat /\ c.monotonic \in BOOLEAN
        /\ c.ownWrites \in BOOLEAN
    <2>1. CASE c \in [session : Session, monotonic : BOOLEAN, ownWrites : BOOLEAN,
                      token : {0, frontier, frontier + 1}, authority : {TRUE},
                      late : {FALSE}]
      BY <2>1
    <2>2. CASE c \in [session : Session, monotonic : {TRUE}, ownWrites : {TRUE},
                      token : {0}, authority : BOOLEAN, late : BOOLEAN]
      <3>1. c.session \in Session /\ c.token \in {0}
        BY <2>2
      <3>2. c.monotonic \in {TRUE}
        BY <2>2, Zenon
      <3>3. c.ownWrites \in {TRUE}
        BY <2>2, Zenon
      <3>4. c.monotonic \in BOOLEAN /\ c.ownWrites \in BOOLEAN
        BY <3>2, <3>3, Zenon
      <3> QED
        BY <3>1, <3>4
    <2> QED
      BY <2>1, <2>2 DEF Constraint
  <1>2. r \in Nat /\ o \in Nat
    BY <1>1 DEF FloorInv
  <1>3. c.token \in Nat /\ c.token <= at /\ Required(c) <= at
    <2>1. Required(c) \in Nat
      BY <1>2, GreatestOfThree DEF Required
    <2> QED
      BY <1>1, <2>1 DEF Observation
  <1>4. r <= at /\ o <= at
    <2>1. Required(c) = Greatest({r, o, o})
      BY DEF Required
    <2>2. r <= Required(c) /\ o <= Required(c) /\ Required(c) \in {r, o, o}
      BY <1>2, <2>1, GreatestOfThree
    <2> HIDE DEF r, o
    <2> QED
      BY <1>2, <1>3, <2>2
  <1>5. observed = readCursor /\ acked = writeCursor
    BY DEF FloorInv, ReadsMeetTheirFloor
  <1>6. met'
    <2>1. met' = (at >= Greatest({c.token, r, o}))
      BY <1>5 DEF Serve
    <2>2. Greatest({c.token, r, o}) \in {c.token, r, o}
      BY <1>2, <1>3, GreatestOfThree
    <2> HIDE DEF r, o
    <2> QED
      BY <1>2, <1>3, <1>4, <2>1, <2>2
  <1>7. /\ readCursor' = observed' /\ writeCursor' = acked'
        /\ writeCursor' = writeCursor
        /\ readCursor' = readCursor \/ readCursor' = AtLeast(readCursor, {c.session}, at)
    BY <1>5 DEF Serve, AdvanceReadSessions
  <1> QED
    BY <1>6, <1>7, AtLeastType DEF FloorInv, ReadsMeetTheirFloor

(* The floors hold through every step.                                     *)
LEMMA FloorStep ==
    ASSUME ProviderInv, FloorInv, [RetrievalNext]_retrievalVars
    PROVE  FloorInv'
  <1>1. frontier \in Nat /\ \A w \in WorkUnit : Baseline(w) \in Nat
    BY DEF ProviderInv, TypeOK, EntityTypeOK, UnitTypeOK, UnitRow, WorkUnit, Baseline
  <1>2. ASSUME UNCHANGED sessionVars PROVE FloorInv'
    BY <1>2 DEF sessionVars, FloorInv, ReadsMeetTheirFloor
  <1>3. CASE UNCHANGED retrievalVars
    BY <1>2, <1>3 DEF retrievalVars
  <1>4. ASSUME NEW c \in Constraint,
               ReadEntityConsistent(c) \/ RetrieveEntitiesConsistent(c)
        PROVE  FloorInv'
    BY <1>1, <1>2, <1>4, ServedIsFresh
    DEF ReadEntityConsistent, RetrieveEntitiesConsistent
  <1>5. ASSUME NEW w \in WorkUnit, NEW k \in Key, NEW c \in Constraint,
               ReadEntityInWorkUnit(w, k, c)
        PROVE  FloorInv'
    BY <1>1, <1>2, <1>5, ServedIsFresh DEF ReadEntityInWorkUnit
  <1>6. ASSUME NEW S \in Sessions, NEW c, NEW at, NEW late, Write(S, c, at, late)
        PROVE  FloorInv'
    <2>1. CASE writeCursor' = AtLeast(writeCursor, S, frontier + 1)
                 /\ acked' = AtLeast(acked, S, frontier + 1)
      BY <1>1, <1>6, <2>1, AtLeastType DEF Write, FloorInv, ReadsMeetTheirFloor
    <2>2. CASE UNCHANGED <<writeCursor, acked>>
      BY <1>2, <1>6, <2>2 DEF Write, sessionVars
    <2> QED
      BY <1>6, <2>1, <2>2 DEF Write
  <1> QED
    BY <1>2, <1>3, <1>4, <1>5, <1>6
    DEF RetrievalNext, Stage, BeginWalk, RetrieveEntities,
        RetrieveEntitiesInWorkUnit, Elapse

-----------------------------------------------------------------------------
(* The order of a retrieval                                                *)

(* compare_retrieval_keys is a strict order, total on candidates of        *)
(* different entities.                                                     *)
LEMMA BeforeIsOrder ==
    ASSUME NEW o \in Order, NEW a \in Cursor, NEW b \in Cursor, NEW c \in Cursor
    PROVE  /\ ~Before(a, a, o)
           /\ Before(a, b, o) /\ Before(b, c, o) => Before(a, c, o)
           /\ a.id # b.id => Before(a, b, o) \/ Before(b, a, o)
  <1>1. /\ a.at \in Nat /\ b.at \in Nat /\ c.at \in Nat
        /\ a.id \in Nat /\ b.id \in Nat /\ c.id \in Nat
    <2>1. 0 .. MaxTime \subseteq Nat
      BY TimeIsBounded
    <2>2. \A x \in Cursor : x.at \in Nat /\ x.id \in Nat
      BY <2>1, EntityIdsAreOrdered DEF Cursor
    <2> QED
      BY <2>2
  <1>2. o \in {"newest", "oldest", "id_asc", "id_desc"}
    BY OrdersAreKnown
  <1> HIDE DEF Cursor
  <1>3. CASE o = "newest"
    BY <1>1, <1>3 DEF Before
  <1>4. CASE o = "oldest"
    BY <1>1, <1>4 DEF Before
  <1>5. CASE o = "id_asc"
    BY <1>1, <1>5 DEF Before
  <1>6. CASE o = "id_desc"
    BY <1>1, <1>6 DEF Before
  <1> QED
    BY <1>2, <1>3, <1>4, <1>5, <1>6

(* A finite set that is not empty has a least element of any strict order. *)
LEMMA LeastExists ==
    ASSUME NEW T, IsFiniteSet(T), T # {}, NEW R,
           \A a \in T : <<a, a>> \notin R,
           \A a, b, c \in T : <<a, b>> \in R /\ <<b, c>> \in R => <<a, c>> \in R
    PROVE  \E x \in T : \A y \in T : <<y, x>> \notin R
  <1> DEFINE below(x) == {d \in T : <<d, x>> \in R}
             F == {below(x) : x \in T}
             S == StrictSubsetOrdering(T)
  <1>1. F \subseteq FiniteSubsetsOf(T) /\ F # {}
    <2>1. \A x \in T : below(x) \in SUBSET T /\ IsFiniteSet(below(x))
      BY FS_Subset
    <2> HIDE DEF below
    <2> QED
      BY <2>1 DEF FiniteSubsetsOf
  <1>2. IsWellFoundedOn(S, FiniteSubsetsOf(T))
    BY FS_StrictSubsetOrderingWellFounded
  <1>3. PICK s \in F : \A t \in F : <<t, s>> \notin S
    BY <1>1, <1>2, WFMin
  <1>4. PICK x \in T : s = below(x)
    BY <1>3
  <1>5. ASSUME NEW y \in T, <<y, x>> \in R PROVE FALSE
    <2>1. below(y) \subseteq below(x) /\ y \in below(x) /\ y \notin below(y)
      BY <1>5
    <2>2. below(y) # below(x) /\ below(y) \in F
      BY <2>1
    <2>3. <<below(y), below(x)>> \in S
      <3>1. below(y) \in SUBSET T /\ below(x) \in SUBSET T
        OBVIOUS
      <3> HIDE DEF below
      <3> QED
        BY <2>1, <2>2, <3>1 DEF StrictSubsetOrdering
    <2> QED
      BY <1>3, <1>4, <2>2, <2>3
  <1> QED
    BY <1>5

(* The newest of a set of times is one of them.                            *)
LEMMA NewestExists ==
    ASSUME NEW T \in SUBSET (0 .. MaxTime), T # {}
    PROVE  Greatest(T) \in T
  <1> DEFINE R == {p \in T \X T : p[1] > p[2]}
  <1>1. MaxTime \in Nat
    BY TimeIsBounded
  <1>2. IsFiniteSet(T)
    <2>1. IsFiniteSet(0 .. MaxTime)
      BY <1>1, FS_Interval
    <2> QED
      BY <2>1, FS_Subset
  <1>6. \A a \in T : a \in Nat
    BY <1>1
  <1>3. \A a, b \in T : <<a, b>> \in R <=> a > b
    OBVIOUS
  <1> HIDE DEF R
  <1>4. PICK x \in T : \A y \in T : <<y, x>> \notin R
    <2>1. \A a \in T : <<a, a>> \notin R
      BY <1>6, <1>3
    <2>2. \A a, b, c \in T : <<a, b>> \in R /\ <<b, c>> \in R => <<a, c>> \in R
      BY <1>6, <1>3
    <2> QED
      BY <1>2, <2>1, <2>2, LeastExists
  <1>5. ASSUME NEW y \in T PROVE y <= x
    <2>1. ~(y > x)
      BY <1>3, <1>4
    <2>2. x \in Nat /\ y \in Nat
      BY <1>6
    <2> QED
      BY <2>1, <2>2
  <1> QED
    BY <1>5 DEF Greatest

(* Every entity found has a candidate with the newest time of its matches. *)
LEMMA CandidateIsCursor ==
    ASSUME ProviderInv, recordedAt \in [Version -> 0 .. MaxTime],
           NEW w \in WorkUnit \cup {None}, NEW k \in Found(w)
    PROVE  Candidate(w, k) \in Cursor
  <1>1. k \in Key /\ Matched(w, k) # {}
    BY DEF Found
  <1>2. Matched(w, k) \subseteq Version
    <2>1. CASE w = None
      BY <1>1, <2>1 DEF Matched, Searched, ProviderInv, TypeOK, EntityTypeOK
    <2>2. CASE w \in WorkUnit /\ w # None
      <3>1. HeadsAt(k, Baseline(w)) \subseteq Version
        BY <1>1, <2>2, HeadsTypes DEF ProviderInv
      <3>2. unitHeads[w.id][k] \subseteq Version
        BY <1>1, <2>2 DEF WorkUnit, ProviderInv, TypeOK, UnitTypeOK
      <3> QED
        BY <2>2, <3>1, <3>2 DEF Matched, Searched, VisibleHead
    <2> QED
      BY <2>1, <2>2
  <1> DEFINE times == {recordedAt[v] : v \in Matched(w, k)}
  <1>3. times \in SUBSET (0 .. MaxTime) /\ times # {}
    BY <1>1, <1>2
  <1>4. Greatest(times) \in 0 .. MaxTime
    BY <1>3, NewestExists
  <1> QED
    BY <1>1, <1>4 DEF Candidate, Cursor

(* A page is an initial segment of what remains in the order of the walk,  *)
(* and the cursor, when there is one, is its last candidate.               *)
LEMMA PageIsSegment ==
    ASSUME ProviderInv, recordedAt \in [Version -> 0 .. MaxTime],
           NEW w \in WorkUnit \cup {None}, walk.order \in Order
    PROVE  /\ Remaining(w) \subseteq Cursor
           /\ NextCursor(w) = None => Page(w) = Remaining(w)
           /\ NextCursor(w) # None =>
                /\ NextCursor(w) \in Page(w)
                /\ \A d \in Page(w) : ~Before(NextCursor(w), d, walk.order)
           /\ \A c \in Page(w), d \in Remaining(w) :
                Before(d, c, walk.order) => d \in Page(w)
  <1> DEFINE o == walk.order
             R == Remaining(w)
             P == Page(w)
             preds(c) == {d \in R : Before(d, c, o)}
  <1>1. R \subseteq Cursor
    BY CandidateIsCursor DEF Remaining
  <1>2. IsFiniteSet(R)
    <2> DEFINE f == [c \in R |-> c.id]
    <2>1. f \in Injection(R, Key)
      BY PageIds DEF Injection, IsInjective
    <2> QED
      BY <2>1, FiniteKeys, FS_Injection
  <1>3. P = {c \in R : Cardinality(preds(c)) < Limit}
    BY DEF Page
  <1>4. /\ \A a \in R : ~Before(a, a, o)
        /\ \A a, b, c \in R : Before(a, b, o) /\ Before(b, c, o) => Before(a, c, o)
    BY <1>1, BeforeIsOrder
  <1>5. \A c \in R : IsFiniteSet(preds(c)) /\ Cardinality(preds(c)) \in Nat
    BY <1>2, FS_Subset, FS_CardinalityType
  <1> HIDE DEF R, P, o
  <1>6. ASSUME NEW c \in P, NEW d \in R, Before(d, c, o) PROVE d \in P
    <2>1. preds(d) \in SUBSET preds(c)
      BY <1>3, <1>4, <1>6
    <2>2. Cardinality(preds(d)) <= Cardinality(preds(c))
      BY <1>3, <1>5, <2>1, FS_Subset
    <2>3. /\ Cardinality(preds(d)) \in Nat /\ Cardinality(preds(c)) \in Nat
          /\ Cardinality(preds(c)) < Limit
      BY <1>3, <1>5
    <2> HIDE DEF preds
    <2> QED
      BY <1>3, <2>2, <2>3, LimitIsPositive
  <1>7. R # {} => P # {}
    <2> SUFFICES ASSUME R # {} PROVE P # {}
      OBVIOUS
    <2> DEFINE S == {p \in R \X R : Before(p[1], p[2], o)}
    <2>1. \A a, b \in R : <<a, b>> \in S <=> Before(a, b, o)
      OBVIOUS
    <2> HIDE DEF S
    <2>2. PICK x \in R : \A y \in R : <<y, x>> \notin S
      BY <1>2, <1>4, <2>1, LeastExists
    <2>3. preds(x) = {}
      BY <2>1, <2>2
    <2>4. Cardinality(preds(x)) < Limit
      BY <2>3, FS_EmptySet, LimitIsPositive
    <2> QED
      BY <1>3, <2>4
  <1>8. ASSUME P # R
        PROVE  \E c \in P : \A d \in P : ~Before(c, d, o)
    <2>1. P # {} /\ P \subseteq R /\ IsFiniteSet(P)
      BY <1>2, <1>3, <1>7, <1>8, FS_Subset
    <2> DEFINE S == {p \in P \X P : Before(p[2], p[1], o)}
    <2>2. \A a, b \in P : <<a, b>> \in S <=> Before(b, a, o)
      OBVIOUS
    <2> HIDE DEF S
    <2>3. \E x \in P : \A y \in P : <<y, x>> \notin S
      BY <1>4, <2>1, <2>2, LeastExists
    <2> QED
      BY <2>2, <2>3
  <1>9. NextCursor(w) = IF P = R THEN None
                        ELSE CHOOSE c \in P : \A d \in P : ~Before(c, d, o)
    BY DEF NextCursor, P, R, o
  <1>10. P # R => NextCursor(w) \in P /\ \A d \in P : ~Before(NextCursor(w), d, o)
    BY <1>8, <1>9
  <1>11. P # R => NextCursor(w) # None
    BY <1>1, <1>3, <1>10, NoneIsNoCursor DEF Cursor
  <1> QED
    BY <1>1, <1>6, <1>9, <1>10, <1>11 DEF P, R, o

-----------------------------------------------------------------------------
(* What a walk was searching when it began                                 *)

(* The unit that walk x searches in, if any, is still open.                *)
Running(x) == x.unit = None \/ unit[x.unit].state = "open"

(* The heads of k that walk x searched when it began: its unit's or, when  *)
(* it had staged none of k, those at the unit's baseline.                  *)
StartHeads(x, k) ==
    IF x.unit = None \/ x.start[k] # {} THEN x.start[k]
                                        ELSE HeadsAt(k, unit[x.unit].baseline)
StartMatched(x, k) == {v \in StartHeads(x, k) : rowState[v] = "active"}
StartCandidate(x, k) ==
    [at |-> Greatest({recordedAt[v] : v \in StartMatched(x, k)}), id |-> k]

(* The rows of k that walk x may search.                                   *)
WalkRows(x, k) ==
    published[k] \cup (IF x.unit = None THEN {} ELSE staged[x.unit][k])

(* What walk x makes of an entity k that did not change under it: it was   *)
(* found iff it matched, and was returned iff the cursor has passed it.    *)
Follows(x, k) ==
    /\ StartHeads(x, k) \subseteq WalkRows(x, k)
    /\ k \in x.found <=> StartMatched(x, k) # {}
    /\ x.returned[k] = IF /\ k \in x.found /\ x.after # None
                          /\ ~Before(x.after, StartCandidate(x, k), x.order)
                       THEN 1 ELSE 0

(* A row, once inserted, keeps its state and its time.                     *)
RowsAreStable ==
    \A v \in Rows : rowState'[v] = rowState[v] /\ recordedAt'[v] = recordedAt[v]

(* A commit in a unit writes the state of its own new versions only.       *)
LEMMA StagingStates ==
    ASSUME NEW w, NEW c, NEW close, NEW rec, NEW late,
           CommitEntityInWorkUnit(w, c, close, rec, late)
    PROVE  rowState' = rowState \/ rowState' = StagedStates(c)
  BY DEF CommitEntityInWorkUnit, FinishWorkUnitPublication, Publication,
         SweepOnly, entityVars

(* No step of a retrieval workload changes a row.                          *)
LEMMA RowsStayStable ==
    ASSUME ProviderInv, recordedAt \in [Version -> 0 .. MaxTime],
           [RetrievalNext]_retrievalVars
    PROVE  RowsAreStable
  <1>1. TypeOK /\ Rows \subseteq Version
    BY DEF ProviderInv, TypeOK, EntityTypeOK, UnitTypeOK, Rows
  <1>2. ASSUME UNCHANGED <<rowState, recordedAt>> PROVE RowsAreStable
    BY <1>2 DEF RowsAreStable
  <1>3. ASSUME NEW c, c.new \cap Rows = {}, NEW at,
               UNCHANGED rowState \/ rowState' = StagedStates(c),
               UNCHANGED recordedAt \/ Written(c, at)
        PROVE  RowsAreStable
    BY <1>1, <1>3 DEF RowsAreStable, StagedStates, Written
  <1>4. CASE UNCHANGED retrievalVars
    BY <1>2, <1>4 DEF retrievalVars, providerVars, entityVars
  <1>5. ASSUME NEW w, NEW K, NEW late, ReadInWorkUnit(w, K, late)
        PROVE  rowState' = rowState
    BY <1>5 DEF ReadInWorkUnit, SweepOnly, entityVars
  <1>6. ASSUME SweepOnly \/ UNCHANGED providerVars PROVE rowState' = rowState
    BY <1>6 DEF SweepOnly, entityVars, providerVars
  <1>7. ASSUME NEW c \in Constraint,
               ReadEntityConsistent(c) \/ RetrieveEntitiesConsistent(c)
        PROVE  RowsAreStable
    BY <1>2, <1>6, <1>7 DEF ReadEntityConsistent, RetrieveEntitiesConsistent, ReadEntity
  <1>8. ASSUME NEW w \in WorkUnit, NEW k \in Key, NEW c \in Constraint,
               ReadEntityInWorkUnit(w, k, c)
        PROVE  RowsAreStable
    BY <1>2, <1>5, <1>6, <1>8 DEF ReadEntityInWorkUnit
  <1>9. ASSUME NEW S \in Sessions, NEW k \in Key, NEW at \in Times,
               NEW late \in BOOLEAN, NEW c \in Commits(k, heads[k]),
               Write(S, c, at, late)
        PROVE  RowsAreStable
    <2>1. heads[k] \in SUBSET Version
      BY <1>1 DEF TypeOK, EntityTypeOK
    <2>2. c.new \cap Rows = {}
      BY <1>1, <2>1, CommitsType
    <2>3. UNCHANGED rowState \/ rowState' = StagedStates(c)
      BY <1>9 DEF Write, CommitEntity, CommitEntityInTransaction, SweepOnly,
                  entityVars, StagedStates
    <2>4. UNCHANGED recordedAt \/ Written(c, at)
      BY <1>9 DEF Write
    <2> QED
      BY <1>3, <2>2, <2>3, <2>4
  <1>10. ASSUME NEW w \in WorkUnit, NEW k \in Key, NEW at \in Times,
                NEW close \in BOOLEAN, NEW c \in Commits(k, WorkUnitHeads(w, k)),
                Stage(w, c, close, at)
         PROVE  RowsAreStable
    <2>1. c.new \cap Rows = {}
      BY <1>1, HeadsTypes, CommitsType
    <2>2. UNCHANGED rowState \/ rowState' = StagedStates(c)
      BY <1>10, StagingStates DEF Stage
    <2>3. UNCHANGED recordedAt \/ Written(c, at)
      BY <1>10 DEF Stage
    <2> QED
      BY <1>3, <2>1, <2>2, <2>3
  <1>11. ASSUME NEW order \in Order, NEW w \in WorkUnit \cup {None},
                BeginWalk(order, w)
         PROVE  RowsAreStable
    BY <1>2, <1>5, <1>6, <1>11 DEF BeginWalk
  <1>12. CASE RetrieveEntities
    BY <1>2, <1>6, <1>12 DEF RetrieveEntities
  <1>13. ASSUME NEW w \in WorkUnit, RetrieveEntitiesInWorkUnit(w)
         PROVE  RowsAreStable
    BY <1>2, <1>5, <1>13 DEF RetrieveEntitiesInWorkUnit
  <1>14. CASE Elapse
    BY <1>2, <1>6, <1>14 DEF Elapse, ExpireOpenWorkUnits, UnitFallsDue, entityVars
  <1> QED
    BY <1>4, <1>7, <1>8, <1>9, <1>10, <1>11, <1>12, <1>13, <1>14 DEF RetrievalNext

(* While the unit of a walk stays open, no step of the provider changes    *)
(* what the walk makes of the entities that did not change under it.       *)
LEMMA FollowsStays ==
    ASSUME ProviderInv, ProviderStep, TypeOK', RowsAreStable,
           NEW x \in Walk, NEW k \in Key,
           x.unit # None => unit[x.unit].state # "none",
           Running(x)'
    PROVE  Running(x) /\ (Follows(x, k) => Follows(x, k)')
  <1>1. PICK a \in Unit \cup {None} :
          /\ EntityStep(a)
          /\ a \in Unit => Works(a) \/ Publishes(a)
          /\ \A u \in Unit \ {a} : Keeps(u) \/ Expires(u)
    BY DEF ProviderStep
  <1>2. published[k] \subseteq published'[k]
    BY <1>1 DEF EntityStep
  <1>3. TypeOK
    BY DEF ProviderInv
  <1>4. CASE x.unit = None
    <2>1. Running(x)
      BY <1>4 DEF Running
    <2>2. StartHeads(x, k) = x.start[k] /\ StartHeads(x, k)' = x.start[k]
      BY <1>4 DEF StartHeads
    <2>3. WalkRows(x, k) = published[k] /\ WalkRows(x, k)' = published'[k]
      BY <1>4 DEF WalkRows
    <2>4. ASSUME Follows(x, k) PROVE Follows(x, k)'
      <3>1. StartHeads(x, k) \subseteq Rows
        BY <2>3, <2>4, HasRow DEF Follows
      <3>2. StartMatched(x, k)' = StartMatched(x, k)
        BY <2>2, <3>1 DEF StartMatched, RowsAreStable
      <3>3. StartCandidate(x, k)' = StartCandidate(x, k)
        <4>1. {recordedAt'[v] : v \in StartMatched(x, k)} =
                {recordedAt[v] : v \in StartMatched(x, k)}
          BY <3>1 DEF StartMatched, RowsAreStable
        <4> QED
          BY <3>2, <4>1 DEF StartCandidate
      <3> QED
        BY <1>2, <2>2, <2>3, <2>4, <3>2, <3>3 DEF Follows
    <2> QED
      BY <2>1, <2>4
  <1>5. CASE x.unit # None
    <2> DEFINE u == x.unit
    <2>1. u \in Unit /\ unit[u].state # "none" /\ unit'[u].state = "open"
      BY <1>5 DEF Walk, Running
    <2>2. unit[u] \in UnitRow
      BY <1>3, <2>1 DEF TypeOK, UnitTypeOK
    <2>3. Keeps(u) \/ Works(u)
      BY <1>1, <2>1, <2>2 DEF Expires, Publishes, UnitRow
    <2>4. unit[u].state = "open" /\ unit'[u].baseline = unit[u].baseline
      BY <2>1, <2>2, <2>3 DEF Keeps, Works, Captures, UnitRow
    <2>5. staged[u][k] \subseteq staged'[u][k]
      BY <2>3 DEF Keeps, Works
    <2>6. HeadsAt(k, unit[u].baseline)' = HeadsAt(k, unit[u].baseline)
      <3>1. unit[u].baseline \in Nat /\ unit[u].baseline <= frontier
        BY <2>1, <2>2 DEF UnitRow, ProviderInv, HistoryInv
      <3> DEFINE b == unit[u].baseline
      <3>2. PICK n \in Nat : n = b
        BY <3>1
      <3>3. HeadsAt(k, n)' = HeadsAt(k, n)
        BY <1>1, <1>3, <3>1, <3>2, HeadsAtStable
      <3> QED
        BY <2>4, <3>2, <3>3 DEF HeadsAt
    <2>7. Running(x)
      BY <2>4 DEF Running
    <2>8. StartHeads(x, k)' = StartHeads(x, k)
      BY <2>6 DEF StartHeads
    <2>9. WalkRows(x, k) \subseteq WalkRows(x, k)' /\ WalkRows(x, k) \subseteq Rows
      BY <1>2, <1>5, <2>1, <2>5, HasRow DEF WalkRows
    <2>10. ASSUME Follows(x, k) PROVE Follows(x, k)'
      <3>1. StartHeads(x, k) \subseteq Rows
        BY <2>9, <2>10 DEF Follows
      <3>2. StartMatched(x, k)' = StartMatched(x, k)
        BY <2>8, <3>1 DEF StartMatched, RowsAreStable
      <3>3. StartCandidate(x, k)' = StartCandidate(x, k)
        <4>1. {recordedAt'[v] : v \in StartMatched(x, k)} =
                {recordedAt[v] : v \in StartMatched(x, k)}
          BY <3>1 DEF StartMatched, RowsAreStable
        <4> QED
          BY <3>2, <4>1 DEF StartCandidate
      <3> QED
        BY <2>8, <2>9, <2>10, <3>2, <3>3 DEF Follows
    <2> QED
      BY <2>7, <2>10
  <1> QED
    BY <1>4, <1>5

-----------------------------------------------------------------------------
(* The invariant of a walk                                                 *)

(* Nothing is returned that should not be.                                 *)
NoExtras(x) == \A k \in x.steady : x.returned[k] <= IF k \in x.found THEN 1 ELSE 0

(* A walk that ended well returned what it found.                          *)
NothingMissing(x) ==
    x.phase = "done" => \A k \in x.steady : k \in x.found => x.returned[k] = 1

(* A walk that is under way, in an open unit if in one, follows what did   *)
(* not change.                                                             *)
UnderWay(x) ==
    x.phase = "walking" =>
        /\ x.order \in Order
        /\ x.unit # None => unit[x.unit].state # "none"
        /\ Running(x) => \A k \in x.steady : Follows(x, k)

WalkInv ==
    /\ recordedAt \in [Version -> 0 .. MaxTime]
    /\ walk \in Walk
    /\ NoExtras(walk) /\ NothingMissing(walk) /\ UnderWay(walk)

(* The times recorded stay within their bound.                             *)
LEMMA TimesStayTyped ==
    ASSUME recordedAt \in [Version -> 0 .. MaxTime], [RetrievalNext]_retrievalVars
    PROVE  recordedAt' \in [Version -> 0 .. MaxTime]
  <1>1. Times \subseteq 0 .. MaxTime
    BY TimeIsBounded DEF Times
  <1>2. ASSUME NEW c, NEW at \in Times, Written(c, at)
        PROVE  recordedAt' \in [Version -> 0 .. MaxTime]
    BY <1>1, <1>2 DEF Written
  <1>3. CASE UNCHANGED recordedAt
    BY <1>3
  <1> QED
    BY <1>2, <1>3
    DEF RetrievalNext, retrievalVars, ReadEntityConsistent,
        RetrieveEntitiesConsistent, ReadEntityInWorkUnit, Write, Stage,
        BeginWalk, RetrieveEntities, RetrieveEntitiesInWorkUnit, Elapse

(* What a walk that is under way follows it follows after a step of the    *)
(* provider.                                                               *)
LEMMA UnderWayStays ==
    ASSUME ProviderInv, ProviderStep, TypeOK', RowsAreStable,
           NEW x \in Walk, UnderWay(x)
    PROVE  UnderWay(x)'
  <1> SUFFICES ASSUME x.phase = "walking"
               PROVE  /\ x.order \in Order
                      /\ x.unit # None => unit'[x.unit].state # "none"
                      /\ Running(x)' => \A k \in x.steady : Follows(x, k)'
    BY DEF UnderWay
  <1>1. /\ x.order \in Order /\ x.steady \subseteq Key
        /\ x.unit # None => x.unit \in Unit /\ unit[x.unit].state # "none"
        /\ Running(x) => \A k \in x.steady : Follows(x, k)
    BY DEF UnderWay, Walk
  <1>2. x.unit # None => unit'[x.unit].state # "none"
    <2>1. PICK a \in Unit \cup {None} :
            /\ EntityStep(a)
            /\ a \in Unit => Works(a) \/ Publishes(a)
            /\ \A u \in Unit \ {a} : Keeps(u) \/ Expires(u)
      BY DEF ProviderStep
    <2>2. \A u \in Unit : unit[u] \in UnitRow
      BY DEF ProviderInv, TypeOK, UnitTypeOK
    <2>3. \A u \in Unit : Keeps(u) \/ Expires(u) \/ Works(u) \/ Publishes(u)
      BY <2>1
    <2> QED
      BY <1>1, <2>2, <2>3 DEF Keeps, Expires, Works, Publishes, UnitRow
  <1>3. ASSUME Running(x)', NEW k \in x.steady PROVE Follows(x, k)'
    BY <1>1, <1>3, FollowsStays
  <1> QED
    BY <1>1, <1>2, <1>3

(* A step that leaves the walk alone.                                      *)
LEMMA WalkStays ==
    ASSUME ProviderInv, WalkInv, [RetrievalNext]_retrievalVars, walk' = walk
    PROVE  WalkInv'
  <1>1. ProviderStep /\ TypeOK'
    BY RetrievalIsProvider, NextIsStep, NextKeepsProviderInv DEF ProviderInv
  <1>2. RowsAreStable /\ recordedAt' \in [Version -> 0 .. MaxTime]
    BY RowsStayStable, TimesStayTyped DEF WalkInv
  <1>3. PICK x \in Walk : x = walk
    BY DEF WalkInv
  <1>4. NoExtras(x) /\ NothingMissing(x) /\ UnderWay(x)
    BY <1>3 DEF WalkInv
  <1>5. UnderWay(x)'
    BY <1>1, <1>2, <1>4, UnderWayStays
  <1>6. UnderWay(walk)'
    BY <1>3, <1>5 DEF UnderWay, Running, Follows, StartHeads, WalkRows,
                      StartMatched, StartCandidate
  <1> QED
    BY <1>2, <1>3, <1>4, <1>6 DEF WalkInv, NoExtras, NothingMissing

(* What the walk searches of an entity that did not change is what it      *)
(* searched when it began.                                                 *)
LEMMA SearchedAgain ==
    ASSUME ProviderInv, walk \in Walk,
           NEW w \in WorkUnit \cup {None}, NEW k \in Key,
           walk.unit = IF w = None THEN None ELSE w.id,
           w # None => unit[w.id].state # "none",
           Own(w, k) = walk.start[k]
    PROVE  /\ Searched(w, k) = StartHeads(walk, k)
           /\ Matched(w, k) = StartMatched(walk, k)
           /\ Candidate(w, k) = StartCandidate(walk, k)
  <1>1. Searched(w, k) = StartHeads(walk, k)
    <2>1. CASE w = None
      BY <2>1 DEF Searched, StartHeads, Own
    <2>2. CASE w # None
      <3>1. walk.unit = w.id /\ w.id # None
        BY <2>2, NoneIsNoUnit DEF WorkUnit
      <3> QED
        BY <2>2, <3>1 DEF Searched, StartHeads, Own, VisibleHead, Baseline
    <2> QED
      BY <2>1, <2>2
  <1>2. Matched(w, k) = StartMatched(walk, k)
    BY <1>1 DEF Matched, StartMatched
  <1> QED
    BY <1>1, <1>2 DEF Candidate, StartCandidate

(* A page received is followed by every entity that did not change.        *)
LEMMA PageFollows ==
    ASSUME ProviderInv, WalkInv, walk.phase = "walking",
           NEW w \in WorkUnit \cup {None},
           walk.unit = IF w = None THEN None ELSE w.id,
           w # None => unit[w.id].state = "open",
           Receive(w),
           NEW k \in walk'.steady
    PROVE  /\ k \in walk.steady
           /\ NextCursor(w) # None => Follows(walk', k)
           /\ NextCursor(w) = None => /\ StartHeads(walk', k) \subseteq WalkRows(walk', k)
                                      /\ walk'.returned[k] = IF k \in walk.found THEN 1 ELSE 0
  <1> DEFINE o == walk.order
             sc == StartCandidate(walk, k)
             m == NextCursor(w)
  <1>0. /\ walk \in Walk /\ recordedAt \in [Version -> 0 .. MaxTime]
        /\ walk.order \in Order /\ walk.steady \subseteq Key
        /\ walk.after \in Cursor \cup {None} /\ walk.returned \in [Key -> Nat]
    BY DEF WalkInv, UnderWay, Walk
  <1>1. /\ walk'.steady = {j \in walk.steady : Own(w, j) = walk.start[j]}
        /\ walk'.after = m /\ walk'.found = walk.found /\ walk'.order = o
        /\ walk'.start = walk.start /\ walk'.unit = walk.unit
        /\ walk'.returned = [j \in Key |-> IF \E c \in Page(w) : c.id = j
                                           THEN walk.returned[j] + 1 ELSE walk.returned[j]]
    BY <1>0 DEF Receive, Walk
  <1>2. k \in walk.steady /\ k \in Key /\ Own(w, k) = walk.start[k]
    BY <1>0, <1>1
  <1>3. Running(walk) /\ Follows(walk, k)
    <2>1. Running(walk)
      BY DEF Running
    <2> QED
      BY <1>2, <2>1 DEF WalkInv, UnderWay
  <1>4. /\ Matched(w, k) = StartMatched(walk, k)
        /\ Candidate(w, k) = sc
    BY <1>0, <1>2, SearchedAgain
  <1>5. k \in walk.found <=> k \in Found(w)
    BY <1>2, <1>3, <1>4 DEF Follows, Found
  <1>6. /\ StartHeads(walk', k) = StartHeads(walk, k)
        /\ StartMatched(walk', k) = StartMatched(walk, k)
        /\ StartCandidate(walk', k) = sc
        /\ WalkRows(walk', k) = WalkRows(walk, k)
    BY <1>1 DEF StartHeads, StartMatched, StartCandidate, WalkRows
  <1>7. /\ Remaining(w) \subseteq Cursor
        /\ m = None => Page(w) = Remaining(w)
        /\ m # None => /\ m \in Page(w)
                       /\ \A d \in Page(w) : ~Before(m, d, o)
        /\ \A c \in Page(w), d \in Remaining(w) : Before(d, c, o) => d \in Page(w)
    BY <1>0, PageIsSegment
  <1>8. Page(w) \subseteq Remaining(w)
    BY DEF Page
  <1>9. (\E c \in Page(w) : c.id = k) <=> (k \in walk.found /\ sc \in Page(w))
    <2>1. sc.id = k
      BY DEF StartCandidate
    <2> HIDE DEF sc
    <2> QED
      BY <1>4, <1>5, <1>8, <2>1, PageIds
  <1>10. walk'.returned[k] = IF k \in walk.found /\ sc \in Page(w)
                             THEN walk.returned[k] + 1 ELSE walk.returned[k]
    BY <1>1, <1>2, <1>9
  <1>11. sc \in Remaining(w) <=>
           k \in walk.found /\ (walk.after = None \/ Before(walk.after, sc, o))
    <2>1. sc.id = k
      BY DEF StartCandidate
    <2>2. sc \in Remaining(w) => k \in Found(w) /\ After(sc)
      BY <2>1, PageIds DEF Remaining
    <2>3. k \in Found(w) /\ After(sc) => sc \in Remaining(w)
      BY <1>4 DEF Remaining
    <2> HIDE DEF sc
    <2> QED
      BY <1>5, <2>2, <2>3 DEF After
  <1>12. walk.returned[k] = IF k \in walk.found /\ walk.after # None
                                 /\ ~Before(walk.after, sc, o)
                            THEN 1 ELSE 0
    BY <1>3 DEF Follows
  <1>13. k \in walk.found => sc \in Cursor
    BY <1>0, <1>4, <1>5, CandidateIsCursor
  <1>14. sc.id = k
    BY DEF StartCandidate
  <1> HIDE DEF sc, m, o
  <1>15. m = None => walk'.returned[k] = IF k \in walk.found THEN 1 ELSE 0
    BY <1>7, <1>8, <1>10, <1>11, <1>12
  <1>16. ASSUME m # None
         PROVE  walk'.returned[k] = IF k \in walk.found /\ ~Before(m, sc, o)
                                    THEN 1 ELSE 0
    <2>1. m \in Cursor /\ m \in Remaining(w) /\ m \in Page(w)
      BY <1>7, <1>8, <1>16
    <2>2. walk.after = None \/ Before(walk.after, m, o)
      BY <2>1 DEF Remaining, After, o
    <2>3. CASE k \notin walk.found
      BY <1>10, <1>12, <2>3
    <2>4. CASE k \in walk.found /\ walk.after # None /\ ~Before(walk.after, sc, o)
      <3>1. walk.returned[k] = 1 /\ sc \notin Page(w)
        BY <1>8, <1>11, <1>12, <2>4
      <3>2. ~Before(m, sc, o)
        <4>1. walk.after \in Cursor /\ o \in Order
          BY <1>0, <2>4 DEF o
        <4> QED
          BY <1>13, <2>1, <2>2, <2>4, <4>1, BeforeIsOrder
      <3> QED
        BY <1>10, <2>4, <3>1, <3>2
    <2>5. CASE sc \in Remaining(w)
      <3>1. walk.returned[k] = 0 /\ k \in walk.found
        BY <1>11, <1>12, <2>5
      <3>2. CASE sc \in Page(w)
        BY <1>7, <1>10, <1>16, <3>1, <3>2
      <3>3. CASE sc \notin Page(w)
        <4>1. o \in Order /\ sc \in Cursor
          BY <1>0, <1>13, <3>1 DEF o
        <4>2. m.id # sc.id
          <5>1. m = Candidate(w, m.id) /\ sc = Candidate(w, sc.id)
            BY <2>1, <2>5, PageIds
          <5> QED
            BY <2>1, <3>3, <5>1
        <4>3. Before(m, sc, o) \/ Before(sc, m, o)
          BY <2>1, <4>1, <4>2, BeforeIsOrder
        <4>4. Before(m, sc, o)
          BY <1>7, <2>1, <2>5, <3>3, <4>3
        <4> QED
          BY <1>10, <3>1, <3>3, <4>4
      <3> QED
        BY <3>2, <3>3
    <2> QED
      BY <1>11, <2>3, <2>4, <2>5
  <1>17. StartHeads(walk', k) \subseteq WalkRows(walk', k)
    BY <1>3, <1>6 DEF Follows
  <1>18. m # None => Follows(walk', k)
    BY <1>1, <1>3, <1>6, <1>16, <1>17 DEF Follows
  <1> QED
    BY <1>2, <1>15, <1>17, <1>18 DEF m

(* A walk starts with what it searches.                                    *)
LEMMA BeginFollows ==
    ASSUME ProviderInv, WalkInv, NEW order \in Order,
           NEW w \in WorkUnit \cup {None}, BeginWalk(order, w)
    PROVE  walk' \in Walk /\ UnderWay(walk)'
  <1> DEFINE uid == IF w = None THEN None ELSE w.id
  <1>1. TypeOK /\ HeadsHaveRows /\ RowsInv
    BY DEF ProviderInv, RowsInv
  <1>2. /\ walk'.phase = "walking" /\ walk'.order = order /\ walk'.after = None
        /\ walk'.unit = uid /\ walk'.start = [k \in Key |-> Own(w, k)]
        /\ walk'.found = Found(w) /\ walk'.steady = Key
        /\ walk'.returned = [k \in Key |-> 0]
    BY DEF BeginWalk, NoWalk
  <1>3. \A k \in Key : Own(w, k) \in SUBSET Version
    BY <1>1 DEF Own, WorkUnit, TypeOK, EntityTypeOK, UnitTypeOK
  <1>4. walk' \in Walk
    <2>1. uid \in Unit \cup {None}
      BY DEF WorkUnit
    <2>2. Found(w) \in SUBSET Key
      BY DEF Found
    <2>3. [k \in Key |-> Own(w, k)] \in [Key -> SUBSET Version]
      BY <1>3
    <2> DEFINE st == [k \in Key |-> Own(w, k)]
    <2>4. walk' = [phase |-> "walking", order |-> order, unit |-> uid,
                   after |-> None, start |-> st, found |-> Found(w),
                   steady |-> Key, returned |-> [k \in Key |-> 0]]
      BY DEF BeginWalk, NoWalk
    <2> HIDE DEF uid, st
    <2> QED
      BY <2>1, <2>2, <2>3, <2>4 DEF Walk, st
  <1>5. w # None =>
          /\ w \in WorkUnit /\ w.id \in Unit /\ w.id # None
          /\ unit'[w.id].state = "open" /\ unit'[w.id].baseline = Baseline(w)
          /\ staged'[w.id] = staged[w.id]
    <2> SUFFICES ASSUME w # None
                 PROVE  /\ w \in WorkUnit /\ w.id \in Unit /\ w.id # None
                        /\ unit'[w.id].state = "open" /\ unit'[w.id].baseline = Baseline(w)
                        /\ staged'[w.id] = staged[w.id]
      OBVIOUS
    <2>1. w \in WorkUnit /\ w.id \in Unit /\ w.id # None
      BY NoneIsNoUnit DEF WorkUnit
    <2>2. ReadInWorkUnit(w, {}, FALSE) /\ ReadInWorkUnitOutcome(w, FALSE) = "open"
      BY DEF BeginWalk
    <2>3. EnsuredState(w, Lapsed) = "open"
      BY <2>2 DEF ReadInWorkUnitOutcome
    <2>4. unit' = EnsuredUnits(w, Lapsed) /\ staged' = StagedWithout(Lapsed)
      BY <2>2 DEF ReadInWorkUnit
    <2> QED
      BY <1>1, <2>1, <2>3, <2>4, EnsuredUnit
  <1>6. UNCHANGED entityVars
    <2>1. CASE w = None
      BY <2>1 DEF BeginWalk, providerVars
    <2>2. CASE w # None
      BY <2>2 DEF BeginWalk, ReadInWorkUnit
    <2> QED
      BY <2>1, <2>2
  <1>7. ASSUME NEW k \in Key PROVE Follows(walk, k)'
    <2>1. walk'.start[k] = Own(w, k)
      BY <1>2
    <2>2. StartHeads(walk, k)' = Searched(w, k)
      <3>1. CASE w = None
        BY <1>2, <2>1, <3>1 DEF StartHeads, Searched, Own
      <3>2. CASE w # None
        <4>1. walk'.unit = w.id /\ w.id # None /\ Own(w, k) = unitHeads[w.id][k]
          BY <1>2, <1>5, <3>2 DEF Own
        <4>2. HeadsAt(k, unit[walk.unit].baseline)' = HeadsAt(k, Baseline(w))
          BY <1>5, <1>6, <3>2, <4>1 DEF HeadsAt, entityVars
        <4> QED
          BY <2>1, <3>2, <4>1, <4>2 DEF StartHeads, Searched, VisibleHead
      <3> QED
        BY <3>1, <3>2
    <2>3. Searched(w, k) \subseteq WalkRows(walk, k)'
      <3>1. CASE w = None
        BY <1>1, <1>6, <3>1 DEF Searched, WalkRows, HeadsHaveRows, entityVars
      <3>2. CASE w # None
        <4>1. WalkRows(walk, k)' = published[k] \cup staged[w.id][k]
          BY <1>2, <1>5, <1>6, <3>2 DEF WalkRows, entityVars
        <4>2. HeadsAt(k, Baseline(w)) \subseteq published[k]
          BY <1>1, HeadsAtHaveRows
        <4>3. unitHeads[w.id][k] \subseteq published[k] \cup staged[w.id][k]
          BY <1>1, <1>5, <3>2 DEF HeadsHaveRows
        <4> QED
          BY <3>2, <4>1, <4>2, <4>3 DEF Searched, VisibleHead
      <3> QED
        BY <3>1, <3>2
    <2>4. StartMatched(walk, k)' = Matched(w, k)
      BY <1>6, <2>2 DEF StartMatched, Matched, entityVars
    <2>5. k \in walk'.found <=> StartMatched(walk, k)' # {}
      BY <1>2, <2>4 DEF Found
    <2>6. walk'.after = None /\ walk'.returned[k] = 0
      BY <1>2
    <2> QED
      BY <2>2, <2>3, <2>5, <2>6 DEF Follows
  <1> QED
    BY <1>2, <1>4, <1>5, <1>7 DEF UnderWay

(* Beginning a walk establishes the invariant.                             *)
LEMMA BeginStep ==
    ASSUME ProviderInv, WalkInv, [RetrievalNext]_retrievalVars,
           NEW order \in Order, NEW w \in WorkUnit \cup {None}, BeginWalk(order, w)
    PROVE  WalkInv'
  <1>1. walk' \in Walk /\ UnderWay(walk)'
    BY BeginFollows
  <1>2. NoExtras(walk)' /\ NothingMissing(walk)'
    BY DEF BeginWalk, NoWalk, NoExtras, NothingMissing
  <1> QED
    BY <1>1, <1>2, TimesStayTyped DEF WalkInv

(* Receiving a page keeps it.                                              *)
LEMMA ReceiveStep ==
    ASSUME ProviderInv, WalkInv, [RetrievalNext]_retrievalVars,
           walk.phase = "walking", NEW w \in WorkUnit \cup {None},
           walk.unit = IF w = None THEN None ELSE w.id,
           w # None => unit[w.id].state = "open",
           Receive(w)
    PROVE  WalkInv'
  <1>1. ProviderStep /\ TypeOK'
    BY RetrievalIsProvider, NextIsStep, NextKeepsProviderInv DEF ProviderInv
  <1>2. RowsAreStable /\ recordedAt' \in [Version -> 0 .. MaxTime]
    BY RowsStayStable, TimesStayTyped DEF WalkInv
  <1>3. /\ walk \in Walk /\ recordedAt \in [Version -> 0 .. MaxTime]
        /\ walk.order \in Order
    BY DEF WalkInv, UnderWay
  <1>4. NextCursor(w) \in Cursor \cup {None}
    <2>1. NextCursor(w) # None => NextCursor(w) \in Remaining(w)
      BY <1>3, PageIsSegment DEF Page
    <2> QED
      BY <1>3, <2>1, PageIsSegment
  <1>5. walk' \in Walk
    <2> DEFINE ret == [k \in Key |-> IF \E c \in Page(w) : c.id = k
                                     THEN walk.returned[k] + 1 ELSE walk.returned[k]]
               ste == {k \in walk.steady : Own(w, k) = walk.start[k]}
               pha == IF NextCursor(w) = None THEN "done" ELSE "walking"
    <2>1. ret \in [Key -> Nat] /\ ste \in SUBSET Key
      BY <1>3 DEF Walk
    <2>2. walk' = [walk EXCEPT !.phase = pha, !.after = NextCursor(w),
                               !.steady = ste, !.returned = ret]
      BY DEF Receive
    <2>3. pha \in {"none", "idle", "walking", "done", "failed"}
      OBVIOUS
    <2> HIDE DEF ret, ste, pha
    <2> QED
      BY <1>3, <1>4, <2>1, <2>2, <2>3 DEF Walk
  <1>6. PICK x \in Walk : x = walk'
    BY <1>5
  <1>7. /\ x.phase = IF NextCursor(w) = None THEN "done" ELSE "walking"
        /\ x.order = walk.order /\ x.unit = walk.unit /\ x.found = walk.found
    BY <1>3, <1>6 DEF Receive, Walk
  <1>8. ASSUME NEW k \in x.steady
        PROVE  /\ NextCursor(w) # None => Follows(x, k)
               /\ NextCursor(w) = None =>
                    x.returned[k] = IF k \in x.found THEN 1 ELSE 0
    BY <1>6, <1>7, PageFollows
  <1>9. NoExtras(x) /\ NothingMissing(x)
    BY <1>7, <1>8 DEF NoExtras, NothingMissing, Follows
  <1>10. UnderWay(x)
    <2>1. x.unit # None => unit[x.unit].state # "none"
      BY <1>7
    <2> QED
      BY <1>3, <1>7, <1>8, <2>1 DEF UnderWay
  <1>11. UnderWay(x)'
    BY <1>1, <1>2, <1>10, UnderWayStays
  <1>12. UnderWay(walk)'
    BY <1>6, <1>11 DEF UnderWay, Running, Follows, StartHeads, WalkRows,
                       StartMatched, StartCandidate
  <1> QED
    BY <1>2, <1>5, <1>6, <1>9, <1>12 DEF WalkInv, NoExtras, NothingMissing

(* Every step of a retrieval workload keeps it.                            *)
LEMMA WalkStep ==
    ASSUME ProviderInv, WalkInv, [RetrievalNext]_retrievalVars
    PROVE  WalkInv'
  <1>1. CASE walk' = walk
    BY <1>1, WalkStays
  <1>2. ASSUME NEW order \in Order, NEW w \in WorkUnit \cup {None},
               BeginWalk(order, w)
        PROVE  WalkInv'
    BY <1>2, BeginStep
  <1>3. CASE RetrieveEntities
    BY <1>3, ReceiveStep DEF RetrieveEntities
  <1>4. ASSUME NEW w \in WorkUnit, RetrieveEntitiesInWorkUnit(w)
        PROVE  WalkInv'
    <2>1. w.id \in Unit /\ w # None /\ walk.phase = "walking" /\ walk.unit = w.id
      <3>1. w.id \in Unit /\ walk.phase = "walking" /\ walk.unit = w.id
        BY <1>4 DEF RetrieveEntitiesInWorkUnit, WorkUnit
      <3>2. w # None
        BY NoneIsNoWorkUnit
      <3> QED
        BY <3>1, <3>2
    <2>2. CASE ReadInWorkUnitOutcome(w, FALSE) = "open" /\ Receive(w)
      <3>1. EnsuredState(w, Lapsed) = "open"
        BY <2>2 DEF ReadInWorkUnitOutcome
      <3>2. unit[w.id].state # "none"
        BY <2>1, NoneIsNoUnit DEF WalkInv, UnderWay
      <3>3. unit[w.id].state = "open"
        BY <3>1, <3>2 DEF EnsuredState
      <3> QED
        BY <2>1, <2>2, <3>3, ReceiveStep
    <2>3. CASE walk' = [walk EXCEPT !.phase = "failed"]
      <3>1. walk' \in Walk
        BY <2>3 DEF WalkInv, Walk
      <3>2. /\ walk'.phase = "failed" /\ walk'.steady = walk.steady
            /\ walk'.found = walk.found /\ walk'.returned = walk.returned
        BY <2>3 DEF WalkInv, Walk
      <3> QED
        BY <3>1, <3>2, TimesStayTyped
        DEF WalkInv, NoExtras, NothingMissing, UnderWay
    <2> QED
      BY <1>4, <2>2, <2>3 DEF RetrieveEntitiesInWorkUnit
  <1> QED
    BY <1>1, <1>2, <1>3, <1>4
    DEF RetrievalNext, retrievalVars, ReadEntityConsistent,
        RetrieveEntitiesConsistent, ReadEntityInWorkUnit, Write, Stage, Elapse

(* The invariants of the floors and of the walk hold throughout.           *)
LEMMA RetrievalInvariants == RetrievalSpec => [](FloorInv /\ WalkInv)
  <1>1. RetrievalInit => FloorInv /\ WalkInv
    <2> SUFFICES ASSUME RetrievalInit PROVE FloorInv /\ WalkInv
      OBVIOUS
    <2>1. recordedAt \in [Version -> 0 .. MaxTime]
      BY DEF RetrievalInit
    <2>2. walk \in {NoWalk, [NoWalk EXCEPT !.phase = "none"]}
      BY DEF RetrievalInit
    <2>3. walk \in Walk
      BY <2>2 DEF NoWalk, NoKeys, Walk
    <2>4. walk.steady = {} /\ walk.phase \in {"idle", "none"}
      BY <2>2 DEF NoWalk
    <2>5. FloorInv
      BY DEF RetrievalInit, FloorInv, ReadsMeetTheirFloor
    <2> QED
      BY <2>1, <2>3, <2>4, <2>5 DEF WalkInv, NoExtras, NothingMissing, UnderWay
  <1>2. ProviderInv /\ FloorInv /\ WalkInv /\ [RetrievalNext]_retrievalVars
          => (FloorInv /\ WalkInv)'
    BY FloorStep, WalkStep
  <1> QED
    BY <1>1, <1>2, RetrievalKeepsProviderInv, PTL DEF RetrievalSpec

-----------------------------------------------------------------------------
(* Theorems                                                                *)

(* The provider's tables, the times, the floors and the walk keep their    *)
(* types under every retrieval workload.                                   *)
THEOREM RetrievalTypeCorrect == RetrievalSpec => []RetrievalTypeOK
  <1>1. ProviderInv /\ FloorInv /\ WalkInv => RetrievalTypeOK
    BY DEF ProviderInv, FloorInv, ReadsMeetTheirFloor, WalkInv, RetrievalTypeOK
  <1> QED
    BY <1>1, RetrievalInvariants, RetrievalKeepsProviderInv, PTL

(* Every served read is as fresh as its session and its token require,     *)
(* wherever it is served from, and the stored floors are exactly what the  *)
(* sessions were told.                                                     *)
THEOREM ReadsAreFresh == RetrievalSpec => []ReadsMeetTheirFloor
  <1>1. FloorInv => ReadsMeetTheirFloor
    BY DEF FloorInv
  <1> QED
    BY <1>1, RetrievalInvariants, PTL

(* A walk over the pages returns what it found and did not change, once,   *)
(* and no other unchanged entity, whatever others write, create or delete  *)
(* between two pages, in every order and in a unit at its baseline.        *)
THEOREM WalksReturnSteadyOnce == RetrievalSpec => []WalkReturnsSteadyOnce
  <1>1. WalkInv => WalkReturnsSteadyOnce
    BY DEF WalkInv, NoExtras, NothingMissing, WalkReturnsSteadyOnce
  <1> QED
    BY <1>1, RetrievalInvariants, PTL
=============================================================================
