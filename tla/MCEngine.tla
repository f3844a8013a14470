------------------------------ MODULE MCEngine ------------------------------
(* Small instances of Engine for TLC.                                      *)
EXTENDS Engine, TLC

CONSTANTS k1, k2, u1, u2, i1, q1, q2, q3, o1,
          MaxDraw     \* bound: versions one commit or resolution draws

AnyFresh(used) == SUBSET (Version \ used)

(* UUIDs are interchangeable: they are drawn in order.                     *)
MintInOrder(used) ==
    LET free == Version \ used
        rank(v) == Cardinality({w \in free : w <= v})
    IN  {{v \in free : rank(v) <= n} : n \in 0 .. MaxDraw}

Mvcc == [strategy |-> "mvcc", otherwise |-> "mvcc"]
Merge == [strategy |-> "merge", otherwise |-> "mvcc"]
MergeOrReject == [strategy |-> "merge", otherwise |-> "reject"]
Reject == [strategy |-> "reject", otherwise |-> "reject"]

Immediate(op, k, id, data, plan) ==
    [op |-> op, key |-> k, unit |-> None, close |-> FALSE, id |-> id,
     data |-> data, plan |-> plan, order |-> None, rest |-> data]
InBatch(op, k, close, id, data, plan, order) ==
    [op |-> op, key |-> k, unit |-> u1, close |-> close, id |-> id,
     data |-> data, plan |-> plan, order |-> order, rest |-> data]

(* One entity, immediate publication, keyed and plain mutations under      *)
(* every conflict plan, retries of one identity with equal and other data. *)
ImmediateMenu ==
    { Immediate("create", k1, None, q1, Mvcc),
      Immediate("create", k1, i1, q1, Mvcc),
      Immediate("update", k1, i1, q2, Merge),
      Immediate("update", k1, None, q3, Mvcc),
      Immediate("update", k1, None, q2, MergeOrReject),
      Immediate("delete", k1, i1, q3, Mvcc) }

(* A unit of two entities whose mutations share one commit-ordering key,   *)
(* and immediate writers that make the published heads drift meanwhile.    *)
(* Every mutation of k2 is under the reject strategy.                      *)
BatchMenu ==
    { Immediate("create", k1, None, q1, Mvcc),
      Immediate("update", k1, None, q2, Mvcc),
      Immediate("create", k2, None, q2, Reject),
      InBatch("create", k2, FALSE, None, q1, Reject, o1),
      InBatch("update", k2, TRUE, None, q3, Reject, o1),
      InBatch("update", k1, FALSE, None, q2, Merge, o1),
      InBatch("update", k1, TRUE, None, q3, Merge, o1),
      InBatch("update", k1, TRUE, None, q3, Reject, o1) }

(* Drift resolved by keeping both branches and by merging them.            *)
DriftMenu ==
    { Immediate("create", k1, None, q1, Mvcc),
      Immediate("update", k1, None, q2, Merge),
      InBatch("update", k1, TRUE, i1, q3, Merge, o1),
      InBatch("delete", k1, TRUE, None, q2, Mvcc, o1) }

(* Two mutations of one unit that both carry the close marker and share no *)
(* commit-ordering key.                                                    *)
TwoClosersMenu ==
    { Immediate("create", k1, None, q1, Mvcc),
      Immediate("update", k1, None, q2, Mvcc),
      InBatch("update", k1, TRUE, None, q3, Mvcc, None) }

(* The two menus side by side.  The immediate requests start from an empty *)
(* database, on any process; the batch's start, on one process, once k1    *)
(* was created by version 1.                                               *)
BothMenus == ImmediateMenu \cup BatchMenu

Seeded ==
    /\ published = [NoKeys EXCEPT ![k1] = {1}]
    /\ publishedCursor = [v \in Version |-> IF v = 1 THEN 1 ELSE 0]
    /\ rowState = [v \in Version |-> "active"]
    /\ heads = published
    /\ changes = {[cursor |-> 1, key |-> k1, kind |-> "created",
                   heads |-> {1}, by |-> None]}
    /\ frontier = 1
    /\ minted = {1}
    /\ rest = [v \in Version |-> IF v = 1 THEN q1 ELSE None]
    /\ derives = [v \in Version |-> IF v = 1 THEN {1} ELSE {}]
    /\ UnitsInit /\ RequestsInit

FromSeed == 1 \in published[k1] /\ 1 \notin {req[r].accepted : r \in Req}

(* Bound: each story keeps to its own menu and processes.                  *)
Story ==
    LET submitted == {r \in Req : req[r].pc # "idle"}
    IN  IF FromSeed
        THEN /\ Cardinality({req[r].node : r \in submitted}) <= 1
             /\ \A r \in submitted : Mutation(r) \in BatchMenu
        ELSE \A r \in submitted : Mutation(r) \in ImmediateMenu

InStory == Story'

StoriesSpec == (EngineInit \/ Seeded) /\ [][EngineNext]_vars

(* Requests and engine processes are interchangeable.                      *)
Symmetry == Permutations(Req) \cup Permutations(Node)
=============================================================================
