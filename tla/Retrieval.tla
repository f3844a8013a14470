----------------------------- MODULE Retrieval ------------------------------
(***************************************************************************)
(* Consistent reads and paged retrieval over the SQLite provider           *)
(* (read_entity_consistent, retrieve_entities_consistent and their         *)
(* work-unit forms in crates/provider-sqlite/src/lib.rs, read and retrieve *)
(* in crates/backend/src/engine.rs, parse_query in query.rs).              *)
(*                                                                         *)
(* One client walks the pages of a query while others write, stage and     *)
(* read under session and causal constraints.  A causal token is the       *)
(* cursor of the change it was stored with; a token above the frontier     *)
(* names no row.  Every active value satisfies the query: one that its     *)
(* text or filters drop is, to a search, like a tombstone.  Entities are   *)
(* of one type.  Bound: a behavior either reads under constraints or walks *)
(* pages, so that the two do not multiply.                                 *)
(***************************************************************************)
EXTENDS SqliteProvider

CONSTANTS
    Session,   \* session keys
    Limit,     \* page size of the query
    Order,     \* retrieval orders walked
    MaxTime,   \* bound: recorded_at_unix_ms
    ReadSeeds, \* entities that exist when the reads begin, one version each
    WalkSeeds  \* and when a walk does

ASSUME EntityIdsAreOrdered == Key \subseteq Nat
ASSUME LimitIsPositive == Limit \in Nat \ {0}
ASSUME SeedsAreEntities == ReadSeeds \cup WalkSeeds \subseteq Key \cap Version
ASSUME SeedsAreNumbered == \A S \in {ReadSeeds, WalkSeeds} : S = 1 .. Cardinality(S)
ASSUME TimeIsBounded == MaxTime \in Nat \ {0}
ASSUME OrdersAreKnown == Order \subseteq {"newest", "oldest", "id_asc", "id_desc"}
ASSUME NoneIsNoWorkUnit == None \notin WorkUnit

VARIABLES
    recordedAt,   \* recorded_at_unix_ms of a version
    readCursor,   \* patchouli_session_frontier.read_cursor
    writeCursor,  \* patchouli_session_frontier.write_cursor
    observed,     \* history: the frontier a monotonic read of the session saw
    acked,        \* history: the last cursor an acknowledged write produced
    met,          \* history: the last read was as fresh as it had to be
    walk          \* the client's walk over the pages

sessionVars == <<readCursor, writeCursor, observed, acked, met>>
retrievalVars == <<providerVars, sessionVars, recordedAt, walk>>

Cursor == [at : 0 .. MaxTime, id : Key]
Walk == [phase : {"none", "idle", "walking", "done", "failed"},
         order : Order \cup {None}, unit : Unit \cup {None},
         after : Cursor \cup {None}, start : [Key -> SUBSET Version],
         found : SUBSET Key, steady : SUBSET Key, returned : [Key -> Nat]]

ASSUME NoneIsNoCursor == None \notin Cursor

(* Retrieval's own state has its types.                                    *)
RetrievalTypeOK ==
    /\ TypeOK
    /\ recordedAt \in [Version -> 0 .. MaxTime]
    /\ \A f \in {readCursor, writeCursor, observed, acked} :
          f \in [Session -> Nat]
    /\ met \in BOOLEAN
    /\ walk \in Walk

Greatest(S) == CHOOSE n \in S : \A m \in S : m <= n

NoWalk == [phase |-> "idle", order |-> None, unit |-> None, after |-> None,
           start |-> NoKeys, found |-> {}, steady |-> {},
           returned |-> [k \in Key |-> 0]]

(* Bound: time and sessions matter to walks and to reads respectively, and *)
(* vary only in the behaviors that have them.                              *)
Times == IF walk.phase = "none" THEN {1} ELSE 1 .. MaxTime
Sessions == IF walk.phase = "none" THEN SUBSET Session ELSE {{}}
Seeds == IF walk.phase = "none" THEN ReadSeeds ELSE WalkSeeds

(* A database in which every seed was created, in the order of the ids.    *)
RetrievalInit ==
    /\ walk \in {NoWalk, [NoWalk EXCEPT !.phase = "none"]}
    /\ published = [k \in Key |-> IF k \in Seeds THEN {k} ELSE {}]
    /\ publishedCursor = [v \in Version |-> IF v \in Seeds THEN v ELSE 0]
    /\ rowState = [v \in Version |-> "active"]
    /\ heads = published
    /\ changes = {[cursor |-> k, key |-> k, kind |-> "created",
                   heads |-> {k}, by |-> None] : k \in Seeds}
    /\ frontier = Cardinality(Seeds)
    /\ UnitsInit
    /\ recordedAt \in {f \in [Version -> 0 .. MaxTime] :
                         \A v \in Version : IF v \in Seeds THEN f[v] \in Times
                                                           ELSE f[v] = 0}
    /\ readCursor = [s \in Session |-> 0]
    /\ writeCursor = readCursor
    /\ observed = readCursor
    /\ acked = readCursor
    /\ met = TRUE

-----------------------------------------------------------------------------
(* Reads under session and causal constraints.  A read names its session,  *)
(* the guarantees it asks of it and the causal token it must follow: none, *)
(* the newest or an unknown one.  The deadline and the allowed sources     *)
(* refuse a read whatever else it asks for.                                *)

Constraint ==
    [session : Session, monotonic : BOOLEAN, ownWrites : BOOLEAN,
     token : {0, frontier, frontier + 1}, authority : {TRUE}, late : {FALSE}]
      \cup [session : Session, monotonic : {TRUE}, ownWrites : {TRUE},
            token : {0}, authority : BOOLEAN, late : BOOLEAN]

AtLeast(f, S, c) == [s \in Session |-> IF s \in S /\ f[s] < c THEN c ELSE f[s]]

(* Mutant: the write frontier is not joined in.                            *)
RequiredByReads(c) == IF c.monotonic THEN readCursor[c.session] ELSE 0

(* The cursor a session's guarantees require.                              *)
Required(c) ==
    Greatest({IF c.monotonic THEN readCursor[c.session] ELSE 0,
         IF c.ownWrites THEN writeCursor[c.session] ELSE 0})

(* consistency_observation of a snapshot at cursor at.                     *)
Observation(c, at) ==
    IF c.late THEN "DeadlineExceeded"
    ELSE IF \/ ~c.authority
            \/ c.token > frontier \/ c.token > at
            \/ Required(c) > at
         THEN "Unavailable"
    ELSE "Read"

AdvanceReadSessions(c, at) ==
    readCursor' = IF c.monotonic THEN AtLeast(readCursor, {c.session}, at)
                                 ELSE readCursor

(* What a served read shows the client.                                    *)
Serve(c, at) ==
    /\ AdvanceReadSessions(c, at)
    /\ observed' = IF c.monotonic THEN AtLeast(observed, {c.session}, at)
                                  ELSE observed
    /\ met' = (at >= Greatest({c.token,
                              IF c.monotonic THEN observed[c.session] ELSE 0,
                              IF c.ownWrites THEN acked[c.session] ELSE 0}))
    /\ UNCHANGED <<writeCursor, acked>>

(* The sweep is outside the transaction the read rolls back.               *)
ReadEntityConsistent(c) ==
    /\ walk.phase = "none"
    /\ ReadEntity
    /\ \/ /\ Observation(c, frontier) = "Read"
          /\ Serve(c, frontier)
       \/ /\ Observation(c, frontier) # "Read"
          /\ UNCHANGED sessionVars
    /\ UNCHANGED <<recordedAt, walk>>

(* A retrieval is held to the same constraints, and does not sweep.  Here  *)
(* for what it does to the sessions; its pages are below.                  *)
RetrieveEntitiesConsistent(c) ==
    /\ walk.phase = "none"
    /\ \/ /\ Observation(c, frontier) = "Read"
          /\ Serve(c, frontier)
       \/ /\ Observation(c, frontier) # "Read"
          /\ UNCHANGED sessionVars
    /\ UNCHANGED <<providerVars, recordedAt, walk>>

(* A unit is read at its baseline.  A refused read rolls back, the opening *)
(* of the unit included.                                                   *)
ReadEntityInWorkUnit(w, k, c) ==
    /\ walk.phase = "none"
    /\ \/ /\ ReadInWorkUnitOutcome(w, c.late) = "open"
          /\ Observation(c, Baseline(w)) = "Read"
          /\ ReadInWorkUnit(w, {k}, c.late)
          /\ Serve(c, Baseline(w))
       \/ /\ ReadInWorkUnitOutcome(w, c.late) = "open"
          /\ Observation(c, Baseline(w)) # "Read"
          /\ SweepOnly
          /\ UNCHANGED sessionVars
       \/ /\ ReadInWorkUnitOutcome(w, c.late) # "open"
          /\ ReadInWorkUnit(w, {k}, c.late)
          /\ UNCHANGED sessionVars
    /\ UNCHANGED <<recordedAt, walk>>

-----------------------------------------------------------------------------
(* Writes.  Batch behaviors carry no session: validate_consistency refuses *)
(* a configuration that combines the two.                                  *)

Written(c, at) ==
    recordedAt' = [v \in Version |-> IF v \in c.new THEN at ELSE recordedAt[v]]

Write(S, c, at, late) ==
    /\ CommitEntity(c, late)
    /\ \/ /\ CommitOutcome(c, late) = "Committed"
          /\ Written(c, at)
          /\ writeCursor' = AtLeast(writeCursor, S, frontier + 1)
          /\ acked' = AtLeast(acked, S, frontier + 1)
       \/ /\ CommitOutcome(c, late) # "Committed"
          /\ UNCHANGED <<recordedAt, writeCursor, acked>>
    /\ UNCHANGED <<readCursor, observed, met, walk>>

Stage(w, c, close, at) ==
    /\ CommitEntityInWorkUnit(w, c, close, None, FALSE)
    /\ IF c.new \subseteq UNION {staged'[w.id][k] \cup published'[k] : k \in Key}
       THEN Written(c, at) ELSE UNCHANGED recordedAt
    /\ UNCHANGED <<sessionVars, walk>>

-----------------------------------------------------------------------------
(* Retrieval                                                               *)

(* Mutant: the baseline shows through where the unit has staged heads.     *)
VisibleUnderStaged(w, k) == HeadsAt(k, Baseline(w)) \cup unitHeads[w.id][k]

(* matching_versions joins this head set in a unit: the heads the unit     *)
(* staged or, for an entity it has not staged, those at its baseline.      *)
VisibleHead(w, k) == IF unitHeads[w.id][k] # {} THEN unitHeads[w.id][k]
                                                ELSE HeadsAt(k, Baseline(w))

Searched(w, k) == IF w = None THEN heads[k] ELSE VisibleHead(w, k)

(* The active heads of k.                                                  *)
Matched(w, k) == {v \in Searched(w, k) : rowState[v] = "active"}
Found(w) == {k \in Key : Matched(w, k) # {}}

(* The newest of them ranks the entity.                                    *)
Candidate(w, k) == [at |-> Greatest({recordedAt[v] : v \in Matched(w, k)}), id |-> k]

(* compare_retrieval_keys: a is listed before b.                           *)
Before(a, b, order) ==
    CASE order = "newest"  -> a.at > b.at \/ (a.at = b.at /\ a.id < b.id)
      [] order = "oldest"  -> a.at < b.at \/ (a.at = b.at /\ a.id < b.id)
      [] order = "id_asc"  -> a.id < b.id
      [] order = "id_desc" -> a.id > b.id

(* Mutant: a tie with the cursor's timestamp is not broken.                *)
AfterUntied(c) ==
    \/ walk.after = None
    \/ Before(walk.after, c, walk.order)
         /\ (walk.order \in {"newest", "oldest"} => walk.after.at # c.at)

(* compare_candidate_to_cursor: c is listed after the walk's cursor.       *)
After(c) == walk.after = None \/ Before(walk.after, c, walk.order)

(* The candidates left to list, and the first Limit of them.               *)
Remaining(w) == {c \in {Candidate(w, k) : k \in Found(w)} : After(c)}
Page(w) ==
    {c \in Remaining(w) :
        Cardinality({d \in Remaining(w) : Before(d, c, walk.order)}) < Limit}

(* next_cursor: the last candidate of the page, when more follow.          *)
NextCursor(w) ==
    IF Page(w) = Remaining(w) THEN None
    ELSE CHOOSE c \in Page(w) : \A d \in Page(w) : ~Before(c, d, walk.order)

(* The part of what a walk searches that others may change under it: in a  *)
(* unit only what the unit stages.                                         *)
Own(w, k) == IF w = None THEN heads[k] ELSE unitHeads[w.id][k]

BeginWalk(order, w) ==
    /\ walk.phase = "idle"
    /\ walk' = [NoWalk EXCEPT !.phase = "walking", !.order = order,
                  !.unit = IF w = None THEN None ELSE w.id,
                  !.start = [k \in Key |-> Own(w, k)],
                  !.found = Found(w), !.steady = Key]
    /\ IF w = None THEN UNCHANGED providerVars ELSE ReadInWorkUnit(w, {}, FALSE)
    /\ w # None => ReadInWorkUnitOutcome(w, FALSE) = "open"
    /\ UNCHANGED <<sessionVars, recordedAt>>

Receive(w) ==
    walk' = [walk EXCEPT
      !.phase = IF NextCursor(w) = None THEN "done" ELSE "walking",
      !.after = NextCursor(w),
      !.steady = {k \in @ : Own(w, k) = walk.start[k]},
      !.returned = [k \in Key |-> IF \E c \in Page(w) : c.id = k
                                  THEN @[k] + 1 ELSE @[k]]]

(* The published heads are searched.  This operation does not sweep.       *)
RetrieveEntities ==
    /\ walk.phase = "walking" /\ walk.unit = None
    /\ Receive(None)
    /\ UNCHANGED <<providerVars, sessionVars, recordedAt>>

(* The unit's view is searched and every entity of the page captured.      *)
RetrieveEntitiesInWorkUnit(w) ==
    /\ walk.phase = "walking" /\ walk.unit = w.id
    /\ ReadInWorkUnit(w, {c.id : c \in Page(w)}, FALSE)
    /\ \/ /\ ReadInWorkUnitOutcome(w, FALSE) = "open"
          /\ Receive(w)
       \/ /\ ReadInWorkUnitOutcome(w, FALSE) # "open"
          /\ walk' = [walk EXCEPT !.phase = "failed"]
    /\ UNCHANGED <<sessionVars, recordedAt>>

-----------------------------------------------------------------------------

Elapse ==
    /\ ExpireOpenWorkUnits \/ \E u \in Unit : UnitFallsDue(u)
    /\ UNCHANGED <<sessionVars, recordedAt, walk>>

RetrievalNext ==
    \/ \E c \in Constraint :
          ReadEntityConsistent(c) \/ RetrieveEntitiesConsistent(c)
    \/ \E w \in WorkUnit, k \in Key, c \in Constraint :
          ReadEntityInWorkUnit(w, k, c)
    \/ \E S \in Sessions, k \in Key, at \in Times, late \in BOOLEAN :
          \E c \in Commits(k, heads[k]) : Write(S, c, at, late)
    \/ \E w \in WorkUnit, k \in Key, at \in Times, close \in BOOLEAN :
          \E c \in Commits(k, WorkUnitHeads(w, k)) : Stage(w, c, close, at)
    \/ \E order \in Order, w \in WorkUnit \cup {None} : BeginWalk(order, w)
    \/ RetrieveEntities
    \/ \E w \in WorkUnit : RetrieveEntitiesInWorkUnit(w)
    \/ Elapse

RetrievalSpec == RetrievalInit /\ [][RetrievalNext]_retrievalVars

-----------------------------------------------------------------------------
(* Safety                                                                  *)

(* Every served read is at least as fresh as its constraints: the causal   *)
(* token it named, the newest snapshot a monotonic read of its session saw *)
(* and the newest write its session was told of, wherever it is served     *)
(* from (consistency_observation).  That includes a unit's old baseline,   *)
(* where the provider's contract allows such a read, although no           *)
(* configuration of the engine combines the two.  And the stored floors    *)
(* are no higher: a read refused for its deadline or its floor, or a write *)
(* that did not commit, moves none (advance_read_sessions,                 *)
(* advance_write_sessions).                                                *)
ReadsMeetTheirFloor == met /\ readCursor = observed /\ writeCursor = acked

(* A search in a unit and a read in it agree: the head set the retrieval   *)
(* query joins is the one capture_work_unit_entity and work_unit_heads     *)
(* give, whatever was published or captured in between.                    *)
SearchAgreesWithRead ==
    \A w \in WorkUnit : unit[w.id].state = "open" =>
        \A k \in Key : VisibleHead(w, k) = WorkUnitHeads(w, k)

(* A walk over the pages returns every entity that matched when it began   *)
(* and did not change under it, once, and no other unchanged entity: what  *)
(* others write, create or delete between two pages neither hides nor      *)
(* repeats it (compare_candidate_to_cursor, candidate_cursor).  In a unit  *)
(* only what the unit itself stages counts as a change: whatever else is   *)
(* published, its search stays at its baseline.                            *)
WalkReturnsSteadyOnce ==
    \A k \in walk.steady :
        /\ walk.returned[k] <= IF k \in walk.found THEN 1 ELSE 0
        /\ walk.phase = "done" /\ k \in walk.found => walk.returned[k] = 1
=============================================================================
