--------------------------- MODULE ExecutionLocks ---------------------------
(***************************************************************************)
(* The execution locks of the backend engine (engine.rs, ExecutionLocks):  *)
(* a registry that maps each key to a weak reference to its mutex.  A      *)
(* request upgrades the weak references of its keys, or registers new      *)
(* mutexes, while it holds the registry's own mutex; it then locks them in *)
(* the order of their keys and runs.  Guards and references are dropped    *)
(* when the request ends or its future is dropped at an await, without the *)
(* registry's mutex, one after the other.                                  *)
(*                                                                         *)
(* A mutex object lives as long as some request refers to it.  Its address *)
(* is not reused while the registry still holds a weak reference to it.    *)
(***************************************************************************)
EXTENDS Naturals

CONSTANTS
    Request,    \* requests
    LockKey,    \* serialized keys, in their lexical order
    Wants,      \* the keys each request locks
    Mutex,      \* addresses of mutex objects
    None        \* no mutex, no owner

ASSUME KeysAreOrdered == LockKey \subseteq Nat
ASSUME WantsIsTyped == Wants \in [Request -> SUBSET LockKey]
ASSUME NoneIsNothing == None \notin Mutex /\ None \notin Request

VARIABLES
    pc,         \* where each request is
    registry,   \* by_key: the mutex each key's weak reference points to
    registrar,  \* the request that holds the registry's mutex
    arcs,       \* the mutexes each request refers to, per key
    owner,      \* the request whose guard each mutex has granted
    guards      \* the keys whose guards each request holds

lockVars == <<pc, registry, registrar, arcs, owner, guards>>

NoArcs == [k \in LockKey |-> None]

LocksTypeOK ==
    /\ pc \in [Request -> {"idle", "enter", "lookup", "lock", "run", "drop", "done"}]
    /\ registry \in [LockKey -> Mutex \cup {None}]
    /\ registrar \in Request \cup {None}
    /\ arcs \in [Request -> [LockKey -> Mutex \cup {None}]]
    /\ owner \in [Mutex -> Request \cup {None}]
    /\ guards \in [Request -> SUBSET LockKey]

LocksInit ==
    /\ pc = [r \in Request |-> "idle"]
    /\ registry = NoArcs
    /\ registrar = None
    /\ arcs = [r \in Request |-> NoArcs]
    /\ owner = [m \in Mutex |-> None]
    /\ guards = [r \in Request |-> {}]

(* strong_count() > 0                                                      *)
Strong(m) == \E r \in Request, k \in LockKey : arcs[r][k] = m

(* Whether k's weak reference can be upgraded.                             *)
Alive(k) == registry[k] # None /\ Strong(registry[k])

Referred(r) == {k \in LockKey : arcs[r][k] # None}

Call(r) ==
    /\ pc[r] = "idle"
    /\ pc' = [pc EXCEPT ![r] = "enter"]
    /\ UNCHANGED <<registry, registrar, arcs, owner, guards>>

(* Locks the registry and drops the entries nobody refers to any more.     *)
EnterRegistry(r) ==
    /\ pc[r] = "enter"
    /\ registrar = None
    /\ registrar' = r
    /\ registry' = [k \in LockKey |-> IF Alive(k) THEN registry[k] ELSE None]
    /\ pc' = [pc EXCEPT ![r] = "lookup"]
    /\ UNCHANGED <<arcs, owner, guards>>

(* Mutant: a registered mutex is never reused.                             *)
LookupAnew(r, k) ==
    /\ pc[r] = "lookup"
    /\ k \in Wants[r] \ Referred(r)
    /\ \E m \in Mutex :
          /\ ~Strong(m) /\ \A j \in LockKey : registry[j] # m
          /\ arcs' = [arcs EXCEPT ![r][k] = m]
          /\ registry' = [registry EXCEPT ![k] = m]
    /\ UNCHANGED <<pc, registrar, owner, guards>>

(* Upgrades k's weak reference, or registers a new mutex when the last     *)
(* reference is gone, which may be since the entry was found alive.        *)
Lookup(r, k) ==
    /\ pc[r] = "lookup"
    /\ k \in Wants[r] \ Referred(r)
    /\ \/ /\ Alive(k)
          /\ arcs' = [arcs EXCEPT ![r][k] = registry[k]]
          /\ UNCHANGED registry
       \/ /\ ~Alive(k)
          /\ \E m \in Mutex :
                /\ ~Strong(m) /\ \A j \in LockKey : registry[j] # m
                /\ arcs' = [arcs EXCEPT ![r][k] = m]
                /\ registry' = [registry EXCEPT ![k] = m]
    /\ UNCHANGED <<pc, registrar, owner, guards>>

LeaveRegistry(r) ==
    /\ pc[r] = "lookup"
    /\ Wants[r] \subseteq Referred(r)
    /\ registrar' = None
    /\ pc' = [pc EXCEPT ![r] = "lock"]
    /\ UNCHANGED <<registry, arcs, owner, guards>>

(* Mutant: keys are locked in the order in which requests list them.       *)
AnyKey(r, k) == k \in Wants[r] \ guards[r]

(* The keys come out of a BTreeSet: the least one not yet locked is next.  *)
NextKey(r, k) == k \in Wants[r] \ guards[r] /\ \A j \in Wants[r] \ guards[r] : k <= j

Acquire(r) ==
    /\ pc[r] = "lock"
    /\ \E k \in LockKey :
          /\ NextKey(r, k)
          /\ owner[arcs[r][k]] = None
          /\ owner' = [owner EXCEPT ![arcs[r][k]] = r]
          /\ guards' = [guards EXCEPT ![r] = @ \cup {k}]
    /\ UNCHANGED <<pc, registry, registrar, arcs>>

(* Mutant: the request runs once it holds any of its guards.               *)
RunEarly(r) ==
    /\ pc[r] = "lock"
    /\ guards[r] # {}
    /\ pc' = [pc EXCEPT ![r] = "run"]
    /\ UNCHANGED <<registry, registrar, arcs, owner, guards>>

(* All guards are collected: the request runs.                             *)
Run(r) ==
    /\ pc[r] = "lock"
    /\ guards[r] = Wants[r]
    /\ pc' = [pc EXCEPT ![r] = "run"]
    /\ UNCHANGED <<registry, registrar, arcs, owner, guards>>

(* The request is answered.                                                *)
Finish(r) ==
    /\ pc[r] = "run"
    /\ pc' = [pc EXCEPT ![r] = "drop"]
    /\ UNCHANGED <<registry, registrar, arcs, owner, guards>>

(* The request's future is dropped where it awaits: the registry's mutex,  *)
(* one of its own, or the provider.                                        *)
Cancel(r) ==
    /\ pc[r] \in {"enter", "lock", "run"}
    /\ pc' = [pc EXCEPT ![r] = "drop"]
    /\ UNCHANGED <<registry, registrar, arcs, owner, guards>>

(* Drops one guard: the mutex is unlocked before its reference is dropped. *)
DropGuard(r, k) ==
    /\ pc[r] = "drop"
    /\ k \in guards[r]
    /\ owner' = [owner EXCEPT ![arcs[r][k]] = None]
    /\ guards' = [guards EXCEPT ![r] = @ \ {k}]
    /\ UNCHANGED <<pc, registry, registrar, arcs>>

DropArc(r, k) ==
    /\ pc[r] = "drop"
    /\ k \in Referred(r) \ guards[r]
    /\ arcs' = [arcs EXCEPT ![r][k] = None]
    /\ UNCHANGED <<pc, registry, registrar, owner, guards>>

End(r) ==
    /\ pc[r] = "drop"
    /\ Referred(r) = {}
    /\ pc' = [pc EXCEPT ![r] = "done"]
    /\ UNCHANGED <<registry, registrar, arcs, owner, guards>>

(* The steps a request takes by itself once it was called.                 *)
Progress(r) ==
    \/ EnterRegistry(r)
    \/ \E k \in LockKey : Lookup(r, k)
    \/ LeaveRegistry(r)
    \/ Acquire(r)
    \/ Run(r)
    \/ Finish(r)
    \/ \E k \in LockKey : DropGuard(r, k) \/ DropArc(r, k)
    \/ End(r)

LocksNext == \E r \in Request : Call(r) \/ Progress(r) \/ Cancel(r)

LocksSpec == LocksInit /\ [][LocksNext]_lockVars

(* tokio's mutexes are granted in arrival order, so a request that waits   *)
(* for one that is released again and again is not passed over for ever;   *)
(* and a request that runs ends, since its provider calls return.          *)
FairLocksSpec ==
    LocksSpec /\ \A r \in Request : SF_lockVars(Progress(r))

-----------------------------------------------------------------------------
(* A key has one mutex: all requests that refer to a mutex of a key refer  *)
(* to the same one, and the registry still knows it, although references   *)
(* are dropped while another request reads the registry and a request may  *)
(* be dropped at any await.  Two live mutexes for one key would let two    *)
(* mutations with one identity run at once.                                *)
OneMutexPerKey ==
    \A r, s \in Request, k \in LockKey :
        arcs[r][k] # None =>
            /\ arcs[r][k] = registry[k]
            /\ arcs[s][k] \in {None, arcs[r][k]}

(* To its callers acquire_many takes all the keys of a request in one step *)
(* and gives them back in one step: requests that share a key never run at *)
(* the same time.                                                          *)
Atomic == INSTANCE AtomicLocks WITH
            admitted <- {r \in Request : pc[r] = "run"}
LocksAreAtomic == Atomic!AtomicSpec

(* Every request that asks for its locks gets them or is dropped, and      *)
(* leaves no reference behind: requests that need several keys never wait  *)
(* for one another.                                                        *)
EveryRequestEnds == \A r \in Request : pc[r] = "enter" ~> pc[r] = "done"
=============================================================================
