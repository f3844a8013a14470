-------------------------- MODULE MCSqliteProvider --------------------------
(* Small instances of SqliteProvider for TLC.                              *)
EXTENDS SqliteProvider, TLC

(* Version identities are numbers, drawn one at a time and in order: UUIDs *)
(* are interchangeable, so the order in which they are drawn is immaterial *)
MintOne(used) ==
    {{}} \cup {{v} : v \in {v \in Version \ used :
                             \A w \in Version \ used : v <= w}}

(* The steps of Next that name only the entities K, the units W and the    *)
(* identities I and draw only the first n versions: Next itself is         *)
(* StoryNext(Key, WorkUnit, Identity, n) for an n no version exceeds.      *)
Within(n, c) == c.new \subseteq 1..n

StoryNext(K, W, I, n) ==
    \/ ReadEntity
    \/ \E late \in BOOLEAN :
          \/ ReadIdempotency(late)
          \/ \E k \in K : \E seen \in Seen(k) : \E c \in {c \in Commits(k, seen) : Within(n, c)} :
                \/ CommitEntity(c, late)
                \/ \E i \in I, q \in Request, result \in c.new :
                      CommitEntityIdempotent(c, i, q, result, late)
          \/ \E w \in W :
                \/ \E J \in SUBSET K : ReadInWorkUnit(w, J, late)
                \/ \E seesDue \in BOOLEAN : ReadIdempotencyInWorkUnit(w, seesDue, late)
                \/ \E k \in K : \E seen \in SeenIn(w, k) :
                   \E c \in {c \in Commits(k, seen) : Within(n, c)}, close \in BOOLEAN :
                   \E rec \in {NoRecord} \cup [id : I, request : Request, result : c.new] :
                      CommitEntityInWorkUnit(w, c, close, rec, late)
    \/ \E w \in W : \E res \in Resolutions(w) :
          /\ \A k \in DOMAIN res : Within(n, res[k])
          /\ PublishWorkUnit(w, res)
    \/ ExpireOpenWorkUnits
    \/ \E u \in Unit : UnitFallsDue(u)
    \/ \E i \in I : RecordLapses(i)

(* Bound: a state is left by steps over all entities and three versions    *)
(* while it has one policy and no idempotency record (Plain), and by steps *)
(* with identities, over one entity, two versions and every policy, while  *)
(* nothing else was touched (Keyed).  A state may be of both kinds.        *)
Plain ==
    /\ \A i \in Identity : idempotency[i] = None /\ unitIdempotency[i] = None
    /\ Cardinality({unit[u].policy : u \in Unit} \ {None}) <= 1

PlainUnits == {w \in WorkUnit : \A u \in Unit : unit[u].policy \in {None, w.policy}}

Drawn(k) == published[k] \cup UNION {staged[u][k] : u \in Unit}
Touched == {k \in Key : Drawn(k) # {} \/ \E u \in Unit : k \in captured[u] \cup closeMarker[u]}
OneKey == {k \in Key : Touched \subseteq {k}}
Keyed == OneKey # {} /\ \A k \in Key : Drawn(k) \subseteq 1..2

StoriesNext ==
    \/ Plain /\ StoryNext(Key, PlainUnits, {}, 3)
    \/ Keyed /\ \E k \in OneKey : StoryNext({k}, WorkUnit, Identity, 2)

StoriesSpec == Init /\ [][StoriesNext]_providerVars

(* Entities, units, policies and mutations are interchangeable.            *)
Symmetry == Permutations(Key) \cup Permutations(Unit)
              \cup Permutations(Policy) \cup Permutations(Request)
=============================================================================
