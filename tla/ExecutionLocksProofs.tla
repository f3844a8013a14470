------------------------ MODULE ExecutionLocksProofs ------------------------
(***************************************************************************)
(* The execution locks are atomic, for all requests, keys and mutexes.     *)
(***************************************************************************)
EXTENDS ExecutionLocks, TLAPS

(* A live mutex is registered under one key, a guard belongs to the owner  *)
(* of its mutex, and a request that runs holds all its guards.             *)
Registered ==
    /\ \A r \in Request, k \in LockKey :
          arcs[r][k] # None => arcs[r][k] = registry[k]
    /\ \A j, k \in LockKey : registry[j] # None /\ registry[j] = registry[k] => j = k
Guarded ==
    \A r \in Request :
        /\ \A k \in guards[r] : arcs[r][k] # None /\ owner[arcs[r][k]] = r
        /\ pc[r] = "run" => guards[r] = Wants[r]
        /\ pc[r] = "lock" => Wants[r] \subseteq Referred(r)
        /\ pc[r] \in {"idle", "enter", "lookup", "done"} => guards[r] = {}
LocksInv == LocksTypeOK /\ Registered /\ Guarded

(* Initially nothing is registered, referred to or guarded.                *)
LEMMA LocksInvInit == LocksInit => LocksInv
  BY NoneIsNothing
  DEF LocksInit, LocksInv, LocksTypeOK, Registered, Guarded, NoArcs, Referred

(* Every step keeps the types.                                             *)
LEMMA LocksTypeStep == LocksInv /\ [LocksNext]_lockVars => LocksTypeOK'
  <1> SUFFICES ASSUME LocksInv, [LocksNext]_lockVars PROVE LocksTypeOK'
    OBVIOUS
  <1> USE DEF LocksInv, LocksTypeOK
  <1>1. CASE UNCHANGED lockVars
    BY <1>1 DEF lockVars
  <1>2. ASSUME NEW r \in Request, EnterRegistry(r) PROVE LocksTypeOK'
    BY <1>2 DEF EnterRegistry
  <1>3. ASSUME NEW r \in Request, NEW k \in LockKey, Lookup(r, k) PROVE LocksTypeOK'
    BY <1>3, SMTT(30) DEF Lookup, Alive
  <1>4. ASSUME NEW r \in Request, Acquire(r) PROVE LocksTypeOK'
    <2>1. PICK k \in LockKey :
            /\ owner' = [owner EXCEPT ![arcs[r][k]] = r]
            /\ guards' = [guards EXCEPT ![r] = @ \cup {k}]
      BY <1>4 DEF Acquire
    <2> QED
      BY <1>4, <2>1 DEF Acquire
  <1>5. ASSUME NEW r \in Request, NEW k \in LockKey, DropGuard(r, k) PROVE LocksTypeOK'
    BY <1>5 DEF DropGuard
  <1>6. ASSUME NEW r \in Request, NEW k \in LockKey, DropArc(r, k) PROVE LocksTypeOK'
    BY <1>6 DEF DropArc
  <1>7. ASSUME NEW r \in Request,
               Call(r) \/ LeaveRegistry(r) \/ Run(r) \/ Finish(r) \/ End(r) \/ Cancel(r)
        PROVE  LocksTypeOK'
    BY <1>7 DEF Call, LeaveRegistry, Run, Finish, End, Cancel
  <1> QED
    BY <1>1, <1>2, <1>3, <1>4, <1>5, <1>6, <1>7 DEF LocksNext, Progress

(* The registry keeps every mutex that is referred to: retain only drops   *)
(* dead entries, and a new mutex only replaces a dead one.                 *)
LEMMA RegisteredStep == LocksInv /\ [LocksNext]_lockVars => Registered'
  <1> SUFFICES ASSUME LocksInv, [LocksNext]_lockVars PROVE Registered'
    OBVIOUS
  <1> USE DEF LocksInv, Registered
  <1>1. CASE UNCHANGED <<registry, arcs>>
    BY <1>1
  <1>2. ASSUME NEW r \in Request, EnterRegistry(r) PROVE Registered'
    BY <1>2, NoneIsNothing DEF EnterRegistry, Alive, Strong, LocksTypeOK
  <1>3. ASSUME NEW r \in Request, NEW k \in LockKey, Lookup(r, k) PROVE Registered'
    <2>1. CASE Alive(k)
      BY <1>3, <2>1 DEF Lookup, LocksTypeOK
    <2>2. CASE ~Alive(k)
      <3>1. PICK m \in Mutex :
              /\ ~Strong(m) /\ \A j \in LockKey : registry[j] # m
              /\ arcs' = [arcs EXCEPT ![r][k] = m]
              /\ registry' = [registry EXCEPT ![k] = m]
        BY <1>3, <2>2 DEF Lookup
      <3>2. \A s \in Request : arcs[s][k] = None
        BY <2>2 DEF Alive, Strong
      <3> QED
        BY <3>1, <3>2 DEF LocksTypeOK
    <2> QED
      BY <2>1, <2>2
  <1>4. ASSUME NEW r \in Request, NEW k \in LockKey, DropArc(r, k) PROVE Registered'
    BY <1>4 DEF DropArc, LocksTypeOK
  <1> QED
    BY <1>1, <1>2, <1>3, <1>4
    DEF LocksNext, Progress, lockVars, Call, LeaveRegistry, Acquire, Run,
        Finish, DropGuard, End, Cancel

(* A guard stays with the owner of its mutex until its request drops it.   *)
LEMMA GuardedStep == LocksInv /\ [LocksNext]_lockVars => Guarded'
  <1> SUFFICES ASSUME LocksInv, [LocksNext]_lockVars PROVE Guarded'
    OBVIOUS
  <1> USE NoneIsNothing, WantsIsTyped DEF LocksInv, LocksTypeOK, Guarded
  <1>1. CASE UNCHANGED lockVars
    BY <1>1 DEF lockVars, Referred
  <1>2. ASSUME NEW r \in Request,
               Call(r) \/ EnterRegistry(r) \/ LeaveRegistry(r) \/ Run(r)
                 \/ Finish(r) \/ Cancel(r)
        PROVE  Guarded'
    BY <1>2
    DEF Call, EnterRegistry, LeaveRegistry, Run, Finish, Cancel, Referred
  <1>3. ASSUME NEW r \in Request, End(r) PROVE Guarded'
    BY <1>3 DEF End, Referred
  <1>4. ASSUME NEW r \in Request, NEW k \in LockKey, Lookup(r, k) PROVE Guarded'
    <2>1. /\ pc[r] = "lookup"
          /\ \E m : arcs' = [arcs EXCEPT ![r][k] = m]
          /\ UNCHANGED <<pc, owner, guards>>
      BY <1>4 DEF Lookup
    <2>2. guards[r] = {}
      BY <2>1
    <2> QED
      BY <2>1, <2>2 DEF Referred
  <1>5. ASSUME NEW r \in Request, Acquire(r) PROVE Guarded'
    <2>1. PICK k \in LockKey :
            /\ NextKey(r, k)
            /\ owner[arcs[r][k]] = None
            /\ owner' = [owner EXCEPT ![arcs[r][k]] = r]
            /\ guards' = [guards EXCEPT ![r] = @ \cup {k}]
      BY <1>5 DEF Acquire
    <2>2. pc[r] = "lock" /\ UNCHANGED <<pc, arcs>>
      BY <1>5 DEF Acquire
    <2>3. arcs[r][k] \in Mutex
      BY <2>1, <2>2 DEF NextKey, Referred
    <2> QED
      BY <2>1, <2>2, <2>3 DEF Referred
  <1>6. ASSUME NEW r \in Request, NEW k \in LockKey, DropGuard(r, k) PROVE Guarded'
    <2>1. \A s \in Request : \A j \in guards[s] :
            arcs[s][j] = arcs[r][k] => s = r /\ j = k
      BY <1>6 DEF DropGuard, Registered
    <2> QED
      BY <1>6, <2>1 DEF DropGuard, Referred
  <1>7. ASSUME NEW r \in Request, NEW k \in LockKey, DropArc(r, k) PROVE Guarded'
    BY <1>7 DEF DropArc, Referred
  <1> QED
    BY <1>1, <1>2, <1>3, <1>4, <1>5, <1>6, <1>7 DEF LocksNext, Progress

(* LocksInv is an inductive invariant of the execution locks.              *)
THEOREM LocksInvariant == LocksSpec => []LocksInv
  <1>1. LocksInv /\ [LocksNext]_lockVars => LocksInv'
    BY LocksTypeStep, RegisteredStep, GuardedStep DEF LocksInv
  <1> QED
    BY <1>1, LocksInvInit, PTL DEF LocksSpec

(* A key never has two live mutexes, whatever the interleaving of lookups, *)
(* drops and cancelled requests.                                           *)
THEOREM KeysHaveOneMutex == LocksSpec => []OneMutexPerKey
  <1>1. LocksInv => OneMutexPerKey
    BY DEF LocksInv, Registered, OneMutexPerKey
  <1> QED
    BY <1>1, LocksInvariant, PTL

(* acquire_many implements locks that are taken and released in one step.  *)
THEOREM LocksImplementAtomic == LocksSpec => LocksAreAtomic
  <1> DEFINE running == {r \in Request : pc[r] = "run"}
  <1>1. LocksInit => Atomic!AtomicInit
    BY DEF LocksInit, Atomic!AtomicInit
  <1>2. LocksInv /\ [LocksNext]_lockVars => [Atomic!AtomicNext]_running
    <2> SUFFICES ASSUME LocksInv, [LocksNext]_lockVars
                 PROVE  [Atomic!AtomicNext]_running
      OBVIOUS
    <2> USE DEF LocksInv, LocksTypeOK
    <2>1. ASSUME NEW r \in Request, Run(r) PROVE Atomic!Grant(r)
      <3>1. \A s \in running : Wants[r] \cap Wants[s] = {}
        <4> SUFFICES ASSUME NEW s \in running, NEW k \in Wants[r] \cap Wants[s]
                     PROVE  FALSE
          OBVIOUS
        <4>1. k \in guards[r] /\ k \in guards[s]
          BY <2>1 DEF Run, Guarded
        <4>2. arcs[r][k] = registry[k] /\ arcs[s][k] = registry[k]
          BY <4>1 DEF Guarded, Registered
        <4>3. r = s
          BY <4>1, <4>2 DEF Guarded
        <4> QED
          BY <2>1, <4>3 DEF Run
      <3>2. r \notin running /\ running' = running \cup {r}
        BY <2>1 DEF Run
      <3> QED
        BY <3>1, <3>2 DEF Atomic!Grant
    <2>2. ASSUME NEW r \in Request, Finish(r) PROVE Atomic!Release(r)
      BY <2>2 DEF Finish, Atomic!Release
    <2>3. ASSUME NEW r \in Request, Cancel(r)
          PROVE  Atomic!Release(r) \/ UNCHANGED running
      BY <2>3 DEF Cancel, Atomic!Release
    <2>4. ASSUME NEW r \in Request,
                 Call(r) \/ EnterRegistry(r) \/ LeaveRegistry(r) \/ End(r)
          PROVE  UNCHANGED running
      BY <2>4 DEF Call, EnterRegistry, LeaveRegistry, End
    <2>5. CASE UNCHANGED pc
      BY <2>5
    <2> QED
      BY <2>1, <2>2, <2>3, <2>4, <2>5
      DEF LocksNext, Progress, lockVars, Lookup, Acquire, DropGuard, DropArc,
          Atomic!AtomicNext
  <1> QED
    BY <1>1, <1>2, LocksInvariant, PTL DEF LocksSpec, LocksAreAtomic, Atomic!AtomicSpec
=============================================================================
