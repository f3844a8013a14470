--------------------------- MODULE DaemonProofs ---------------------------
(***************************************************************************)
(* What holds for every number of daemons, databases, uploads and          *)
(* requests, whatever is launched, fails or dies in between.               *)
(*                                                                         *)
(* The lock files make the daemon that serves the only one: LifecycleInv.  *)
(* An upload is therefore open in one daemon at most, and nobody else's    *)
(* start discards its file; its bytes are placed before its entity can be  *)
(* created, and a version of an entity never changes.                      *)
(***************************************************************************)
EXTENDS Daemon, SequenceTheorems, TLAPS

-----------------------------------------------------------------------------
(* What every step of a daemon's life keeps true.  Where a process is      *)
(* tells which databases it has initialized and which lock files it holds; *)
(* a database is marked running exactly when a process has initialized it  *)
(* or its last owner did not shut it down; and a process that has got past *)
(* binding its socket holds every lock, so that no other one is anywhere   *)
(* near the socket except to remove its own.                               *)

(* A process of LifecycleTypeOK.                                           *)
Process ==
    [at : Places, step : Provider, made : SUBSET Provider, recovered : BOOLEAN,
     expected : BOOLEAN, inode : Inode \cup {NoFile}, listening : BOOLEAN,
     ours : BOOLEAN, left : {"off", "stop"}]

(* The engine is started, and has not begun to shut down.                  *)
Started == {"health", "probe", "unlink", "listen", "store", "serving", "drain"}

(* The listener is closed and its guard is at work.                        *)
Guarding == {"check", "remove"}

(* The databases a process has initialized, by where it is: initialize     *)
(* goes through them in order, and shutdown back.                          *)
MadeInOrder(s) ==
    /\ s.at \in {"off", "open"} => s.made = {}
    /\ s.at = "init" => s.made = 1..(s.step - 1)
    /\ s.at \in {"stop", "rollback"} => s.made = 1..s.step
    /\ s.at \in Started => s.made = Provider /\ s.step = Providers
    /\ s.at \in Guarding /\ s.left = "stop" => s.made = Provider /\ s.step = Providers
    /\ s.at \in Guarding /\ s.left = "off" => s.made = {}

(* The locks l that process d in state s holds.                            *)
HoldsLocks(l, d, s) ==
    /\ s.at = "open" => \A p \in 1..(s.step - 1) : l[p] = d
    /\ s.at \in Started \cup {"init"} => \A p \in Provider : l[p] = d
    /\ s.at \in Guarding /\ s.left = "stop" => \A p \in Provider : l[p] = d
    /\ \A p \in s.made : l[p] = d

(* What else a process knows: its report of recovery, its listener and the *)
(* check its guard made before removing a file.                            *)
RemembersRight(s) ==
    /\ s.at = "off" => s = NewProcess
    /\ s.recovered = s.expected
    /\ s.at \in {"store", "serving", "drain"} => s.listening
    /\ s.at = "remove" => s.ours

ProcessFine(l, d, s) ==
    MadeInOrder(s) /\ HoldsLocks(l, d, s) /\ RemembersRight(s)

(* A database is marked running when a process has it, or its last owner   *)
(* left it so.                                                             *)
DatabaseFine(p) ==
    /\ runtime[p].running <=> (p \in unclean \/ \E d \in Daemon : p \in proc[d].made)
    /\ \A d \in Daemon : p \in proc[d].made => p \notin unclean

(* The types of the variables other than proc.                             *)
FilesTypeOK ==
    /\ lock \in [Provider -> Daemon \cup {NoOne}]
    /\ runtime \in [Provider -> [generation : 0..MaxGeneration, running : BOOLEAN]]
    /\ socket \in Inode \cup {NoFile}
    /\ unclean \subseteq Provider
    /\ crossed \in BOOLEAN

ProcessesFine == \A d \in Daemon : ProcessFine(lock, d, proc[d])

DatabasesFine == \A p \in Provider : DatabaseFine(p)

(* The inductive invariant.                                                *)
LifecycleInv ==
    /\ proc \in [Daemon -> Process]
    /\ FilesTypeOK
    /\ ProcessesFine
    /\ DatabasesFine
    /\ ServingIsReachable

(* Every operation of a daemon's life.                                     *)
LifecycleStep(d) ==
    \/ Launch(d) \/ Open(d) \/ OpenFails(d) \/ Initialize(d) \/ InitializeFails(d)
    \/ HealthCheck(d) \/ Shutdown(d) \/ Probe(d) \/ Unlink(d) \/ Listen(d)
    \/ ListenFails(d) \/ StoreOpens(d) \/ StoreFails(d) \/ Stop(d) \/ Drained(d)
    \/ GuardChecks(d) \/ GuardRemoves(d) \/ Crash(d)

-----------------------------------------------------------------------------
(* Providers are numbered from one.                                        *)
LEMMA ProviderFacts ==
    /\ Providers \in Nat /\ Providers >= 1
    /\ 1 \in Provider /\ Providers \in Provider
    /\ \A p \in Provider : p \in Nat /\ p >= 1 /\ p <= Providers
    /\ \A p \in Provider : p # Providers => p + 1 \in Provider
    /\ \A p \in Provider : p > 1 => p - 1 \in Provider
    /\ 1..Providers = Provider
BY ProvidersAreNumbered DEF Provider

(* A process that is off holds nothing and satisfies every part.           *)
LEMMA NewProcessFine ==
    ASSUME NEW l, NEW d
    PROVE  NewProcess \in Process /\ ProcessFine(l, d, NewProcess)
BY ProviderFacts
   DEF NewProcess, Process, Places, ProcessFine, MadeInOrder, HoldsLocks, RemembersRight,
       Started, Guarding

(* The invariant at the start: every process is off and every lock free.   *)
LEMMA LifecycleInitInv == LifecycleInit => LifecycleInv
<1> SUFFICES ASSUME LifecycleInit PROVE LifecycleInv
  OBVIOUS
<1>1. proc \in [Daemon -> Process]
  BY NewProcessFine DEF LifecycleInit
<1>2. FilesTypeOK
  <2>1. [generation |-> 0, running |-> FALSE] \in [generation : 0..MaxGeneration, running : BOOLEAN]
    BY StartsAreBounded
  <2>2. runtime \in [Provider -> [generation : 0..MaxGeneration, running : BOOLEAN]]
    BY <2>1 DEF LifecycleInit
  <2>3. lock \in [Provider -> Daemon \cup {NoOne}]
    BY DEF LifecycleInit
  <2> QED BY <2>2, <2>3 DEF LifecycleInit, FilesTypeOK
<1>3. ProcessesFine
  BY NewProcessFine DEF LifecycleInit, ProcessesFine
<1>4. DatabasesFine
  BY DEF LifecycleInit, DatabasesFine, DatabaseFine, NewProcess
<1>5. ServingIsReachable
  BY DEF LifecycleInit, ServingIsReachable, NewProcess
<1> QED BY <1>1, <1>2, <1>3, <1>4, <1>5 DEF LifecycleInv

-----------------------------------------------------------------------------
(* One process moves and takes no lock from another: the others are fine   *)
(* if the one that moved is.                                               *)
LEMMA OneProcessMoves ==
    ASSUME LifecycleInv, NEW d \in Daemon, NEW s \in Process,
           proc' = [proc EXCEPT ![d] = s],
           \A p \in Provider : \A e \in Daemon \ {d} : lock[p] = e => lock'[p] = e,
           ProcessFine(lock', d, s)
    PROVE  proc' \in [Daemon -> Process] /\ ProcessesFine'
<1>1. proc' \in [Daemon -> Process]
  BY DEF LifecycleInv
<1>2. ASSUME NEW e \in Daemon PROVE ProcessFine(lock', e, proc'[e])
  <2>1. CASE e = d
    BY <2>1 DEF LifecycleInv
  <2>2. CASE e # d
    <3>1. proc'[e] = proc[e]
      BY <2>2 DEF LifecycleInv
    <3>2. ProcessFine(lock, e, proc[e])
      BY DEF LifecycleInv, ProcessesFine
    <3>3. proc[e] \in Process
      BY DEF LifecycleInv
    <3>4. HoldsLocks(lock', e, proc[e])
      <4>1. \A p \in Provider : lock[p] = e => lock'[p] = e
        BY <2>2
      <4>2. proc[e].made \subseteq Provider /\ 1..(proc[e].step - 1) \subseteq Provider
        BY <3>3, ProviderFacts DEF Process, Provider
      <4> QED BY <3>2, <4>1, <4>2 DEF ProcessFine, HoldsLocks
    <3> QED BY <3>1, <3>2, <3>4 DEF ProcessFine
  <2> QED BY <2>1, <2>2
<1> QED BY <1>1, <1>2 DEF ProcessesFine

(* Databases do not notice a process that initializes none and shuts none  *)
(* down.                                                                   *)
LEMMA DatabasesUntouched ==
    ASSUME LifecycleInv, NEW d \in Daemon, NEW s \in Process,
           proc' = [proc EXCEPT ![d] = s], s.made = proc[d].made,
           UNCHANGED <<runtime, unclean>>
    PROVE  DatabasesFine'
<1>1. \A e \in Daemon : proc'[e].made = proc[e].made
  BY DEF LifecycleInv
<1> QED BY <1>1 DEF LifecycleInv, DatabasesFine, DatabaseFine

(* Two processes cannot both hold every lock.                              *)
LEMMA OneStarted ==
    ASSUME LifecycleInv, NEW d \in Daemon, NEW e \in Daemon,
           proc[d].at \in Started, proc[e].at \in Started
    PROVE  d = e
<1>1. lock[1] = d /\ lock[1] = e
  BY ProviderFacts DEF LifecycleInv, ProcessesFine, ProcessFine, HoldsLocks
<1> QED BY <1>1

(* The socket of a daemon is where it was after a step that leaves both    *)
(* alone and brings nobody to a place where the socket counts.             *)
LEMMA SocketUntouched ==
    ASSUME LifecycleInv, NEW d \in Daemon, NEW s \in Process,
           proc' = [proc EXCEPT ![d] = s], UNCHANGED <<socket, crossed>>,
           s.at \in {"store", "serving"} =>
               proc[d].at \in {"store", "serving"} /\ s.inode = proc[d].inode
    PROVE  ServingIsReachable'
BY DEF LifecycleInv, ServingIsReachable

(* A step of one process that leaves locks, databases and socket alone.    *)
LEMMA MoveAlone ==
    ASSUME LifecycleInv, NEW d \in Daemon, NEW s \in Process,
           proc' = [proc EXCEPT ![d] = s], s.made = proc[d].made,
           UNCHANGED <<lock, runtime, unclean, socket, crossed>>,
           s.at \in {"store", "serving"} =>
               proc[d].at \in {"store", "serving"} /\ s.inode = proc[d].inode,
           ProcessFine(lock, d, s)
    PROVE  LifecycleInv'
<1>1. proc' \in [Daemon -> Process] /\ ProcessesFine'
  BY OneProcessMoves
<1>2. FilesTypeOK'
  BY DEF LifecycleInv, FilesTypeOK
<1>3. DatabasesFine'
  BY DatabasesUntouched
<1>4. ServingIsReachable'
  BY SocketUntouched
<1> QED BY <1>1, <1>2, <1>3, <1>4 DEF LifecycleInv

(* The process its guard leaves behind, whether it ends or shuts its       *)
(* providers down.                                                         *)
LEMMA UnguardedFine ==
    ASSUME LifecycleInv, NEW d \in Daemon, proc[d].at \in Guarding
    PROVE  /\ Unguarded(d) \in Process
           /\ Unguarded(d).made = proc[d].made
           /\ Unguarded(d).at \in {"off", "stop"}
           /\ ProcessFine(lock, d, Unguarded(d))
<1> DEFINE s == proc[d]
<1>1. /\ s \in Process
      /\ MadeInOrder(s) /\ HoldsLocks(lock, d, s) /\ RemembersRight(s)
  BY DEF LifecycleInv, ProcessesFine, ProcessFine
<1>2. CASE s.left = "off"
  <2>1. Unguarded(d) = NewProcess /\ s.made = {}
    BY <1>1, <1>2 DEF Unguarded, MadeInOrder
  <2>2. NewProcess.made = {} /\ NewProcess.at = "off"
    BY DEF NewProcess
  <2> QED BY <2>1, <2>2, NewProcessFine
<1>3. CASE s.left # "off"
  <2> DEFINE t == [s EXCEPT !.at = "stop", !.inode = NoFile, !.ours = FALSE]
  <2>1. Unguarded(d) = t
    BY <1>3 DEF Unguarded
  <2>2. t \in Process /\ t.made = s.made /\ t.at = "stop" /\ s.left = "stop"
    BY <1>1, <1>3 DEF Process, Places
  <2>3. ProcessFine(lock, d, t)
    BY <1>1, <2>2, ProviderFacts
       DEF Process, ProcessFine, MadeInOrder, HoldsLocks, RemembersRight, Started, Guarding
  <2> QED BY <2>1, <2>2, <2>3
<1> QED BY <1>2, <1>3

-----------------------------------------------------------------------------
(* The steps that change nothing but where a process is.                   *)
LEMMA PlainSteps ==
    ASSUME LifecycleInv, NEW d \in Daemon,
           Launch(d) \/ HealthCheck(d) \/ Probe(d) \/ StoreOpens(d) \/ StoreFails(d)
           \/ Stop(d) \/ Drained(d) \/ GuardChecks(d)
    PROVE  LifecycleInv'
<1> DEFINE s == proc[d]
<1> USE ProviderFacts
<1>1. /\ s \in Process
      /\ MadeInOrder(s) /\ HoldsLocks(lock, d, s) /\ RemembersRight(s)
  BY DEF LifecycleInv, ProcessesFine, ProcessFine
<1>2. CASE Launch(d)
  <2> DEFINE t == [s EXCEPT !.at = "open"]
  <2>1. t \in Process /\ t.made = s.made /\ t.at = "open"
    BY <1>1 DEF Process, Places
  <2>2. ProcessFine(lock, d, t)
    BY <1>1, <1>2 DEF Launch, NewProcess, Process, ProcessFine, MadeInOrder, HoldsLocks, RemembersRight,
       Started, Guarding
  <2>3. proc' = [proc EXCEPT ![d] = t] /\ UNCHANGED <<lock, runtime, unclean, socket, crossed>>
    BY <1>2 DEF Launch, Goes
  <2> QED BY <2>1, <2>2, <2>3, MoveAlone
<1>3. CASE HealthCheck(d) \/ Probe(d)
  <2>1. PICK place \in {"probe", "stop", "listen", "unlink"} :
          proc' = [proc EXCEPT ![d].at = place]
    BY <1>3 DEF HealthCheck, Probe, Goes
  <2> DEFINE t == [s EXCEPT !.at = place]
  <2>2. t \in Process /\ t.made = s.made /\ t.at = place
    BY <1>1, <2>1 DEF Process, Places
  <2>3. s.at \in {"health", "probe"}
    BY <1>3 DEF HealthCheck, Probe
  <2>4. ProcessFine(lock, d, t)
    BY <1>1, <2>1, <2>3 DEF Process, ProcessFine, MadeInOrder, HoldsLocks, RemembersRight,
       Started, Guarding
  <2>5. proc' = [proc EXCEPT ![d] = t] /\ UNCHANGED <<lock, runtime, unclean, socket, crossed>>
    BY <1>3, <2>1 DEF HealthCheck, Probe
  <2> QED BY <2>1, <2>2, <2>4, <2>5, MoveAlone
<1>4. CASE StoreOpens(d)
  <2> DEFINE t == [s EXCEPT !.at = "serving"]
  <2>1. t \in Process /\ t.made = s.made /\ t.at = "serving" /\ t.inode = s.inode
    BY <1>1 DEF Process, Places
  <2>2. ProcessFine(lock, d, t)
    BY <1>1, <1>4 DEF StoreOpens, Process, ProcessFine, MadeInOrder, HoldsLocks, RemembersRight,
       Started, Guarding
  <2>3. proc' = [proc EXCEPT ![d] = t] /\ UNCHANGED <<lock, runtime, unclean, socket, crossed>>
    BY <1>4 DEF StoreOpens, Goes
  <2>4. s.at = "store"
    BY <1>4 DEF StoreOpens
  <2> QED BY <2>1, <2>2, <2>3, <2>4, MoveAlone
<1>5. CASE StoreFails(d)
  <2> DEFINE t == [s EXCEPT !.at = "check", !.listening = FALSE, !.left = "stop"]
  <2>1. t \in Process /\ t.made = s.made /\ t.at = "check"
    BY <1>1 DEF Process, Places
  <2>2. ProcessFine(lock, d, t)
    BY <1>1, <1>5 DEF StoreFails, Process, ProcessFine, MadeInOrder, HoldsLocks, RemembersRight,
       Started, Guarding
  <2>3. proc' = [proc EXCEPT ![d] = t] /\ UNCHANGED <<lock, runtime, unclean, socket, crossed>>
    BY <1>5 DEF StoreFails
  <2> QED BY <2>1, <2>2, <2>3, MoveAlone
<1>6. CASE Stop(d)
  <2> DEFINE t == [s EXCEPT !.at = "drain"]
  <2>1. t \in Process /\ t.made = s.made /\ t.at = "drain"
    BY <1>1 DEF Process, Places
  <2>2. ProcessFine(lock, d, t)
    BY <1>1, <1>6 DEF Stop, Process, ProcessFine, MadeInOrder, HoldsLocks, RemembersRight,
       Started, Guarding
  <2>3. proc' = [proc EXCEPT ![d] = t] /\ UNCHANGED <<lock, runtime, unclean, socket, crossed>>
    BY <1>6 DEF Stop, Goes
  <2> QED BY <2>1, <2>2, <2>3, MoveAlone
<1>7. CASE Drained(d)
  <2> DEFINE t == [s EXCEPT !.at = "stop", !.step = Providers]
  <2>1. t \in Process /\ t.made = s.made /\ t.at = "stop" /\ t.step = Providers
    BY <1>1 DEF Process, Places
  <2>2. ProcessFine(lock, d, t)
    BY <1>1, <1>7 DEF Drained, Process, ProcessFine, MadeInOrder, HoldsLocks, RemembersRight,
       Started, Guarding
  <2>3. proc' = [proc EXCEPT ![d] = t] /\ UNCHANGED <<lock, runtime, unclean, socket, crossed>>
    BY <1>7 DEF Drained
  <2> QED BY <2>1, <2>2, <2>3, MoveAlone
<1>8. CASE GuardChecks(d)
  <2>1. s.at = "check" /\ UNCHANGED <<lock, runtime, unclean, socket, crossed>>
    BY <1>8 DEF GuardChecks
  <2>2. CASE socket = s.inode
    <3> DEFINE t == [s EXCEPT !.at = "remove", !.ours = TRUE]
    <3>1. t \in Process /\ t.made = s.made /\ t.at = "remove"
      BY <1>1 DEF Process, Places
    <3>2. ProcessFine(lock, d, t)
      BY <1>1, <2>1 DEF Process, ProcessFine, MadeInOrder, HoldsLocks, RemembersRight,
         Started, Guarding
    <3>3. proc' = [proc EXCEPT ![d] = t]
      BY <1>8, <2>2 DEF GuardChecks
    <3> QED BY <2>1, <3>1, <3>2, <3>3, MoveAlone
  <2>3. CASE socket # s.inode
    <3> DEFINE t == Unguarded(d)
    <3>1. /\ t \in Process /\ t.made = s.made /\ t.at \in {"off", "stop"}
          /\ ProcessFine(lock, d, t)
      BY <2>1, UnguardedFine DEF Guarding
    <3>2. proc' = [proc EXCEPT ![d] = t]
      BY <1>8, <2>3 DEF GuardChecks
    <3> HIDE DEF t
    <3> QED BY <2>1, <3>1, <3>2, MoveAlone
  <2> QED BY <2>2, <2>3
<1> QED BY <1>2, <1>3, <1>4, <1>5, <1>6, <1>7, <1>8

-----------------------------------------------------------------------------
(* The end of a process that has initialized no database, or whose         *)
(* databases become unclean: its locks are free, nobody else's are.        *)
LEMMA EndsFine ==
    ASSUME LifecycleInv, NEW d \in Daemon, Ends(d), UNCHANGED <<runtime, socket, crossed>>,
           unclean' = unclean \cup proc[d].made
    PROVE  LifecycleInv'
<1>1. proc' = [proc EXCEPT ![d] = NewProcess] /\ NewProcess \in Process
  BY NewProcessFine DEF Ends
<1>2. \A p \in Provider : \A e \in Daemon \ {d} : lock[p] = e => lock'[p] = e
  BY DEF Ends
<1>3. proc' \in [Daemon -> Process] /\ ProcessesFine'
  BY <1>1, <1>2, NewProcessFine, OneProcessMoves
<1>4. FilesTypeOK'
  <2>1. lock' \in [Provider -> Daemon \cup {NoOne}]
    BY DEF LifecycleInv, FilesTypeOK, Ends
  <2>2. proc[d].made \subseteq Provider
    BY DEF LifecycleInv, Process
  <2> QED BY <2>1, <2>2 DEF LifecycleInv, FilesTypeOK
<1>5. DatabasesFine'
  <2>1. NewProcess.made = {}
    BY DEF NewProcess
  <2>2. \A e \in Daemon : proc'[e].made = IF e = d THEN {} ELSE proc[e].made
    BY <1>1, <2>1 DEF LifecycleInv
  <2>3. \A p \in Provider : \A e \in Daemon \ {d} : p \in proc[e].made => p \notin proc[d].made
    BY DEF LifecycleInv, ProcessesFine, ProcessFine, HoldsLocks
  <2>4. ASSUME NEW p \in Provider PROVE DatabaseFine(p)'
    <3>1. /\ runtime[p].running <=> (p \in unclean \/ \E e \in Daemon : p \in proc[e].made)
          /\ \A e \in Daemon : p \in proc[e].made => p \notin unclean
      BY DEF LifecycleInv, DatabasesFine, DatabaseFine
    <3> QED BY <2>2, <2>3, <3>1 DEF DatabaseFine
  <2> QED BY <2>4 DEF DatabasesFine
<1>6. ServingIsReachable'
  <2>1. NewProcess.at = "off"
    BY DEF NewProcess
  <2> QED BY <1>1, <2>1, SocketUntouched
<1> QED BY <1>3, <1>4, <1>5, <1>6 DEF LifecycleInv

(* Opening the databases: a lock that is free is taken.                    *)
LEMMA OpenFine ==
    ASSUME LifecycleInv, NEW d \in Daemon, Open(d) \/ OpenFails(d)
    PROVE  LifecycleInv'
<1> DEFINE s == proc[d]
           p == s.step
<1> USE ProviderFacts
<1>1. /\ s \in Process /\ p \in Provider
      /\ MadeInOrder(s) /\ HoldsLocks(lock, d, s) /\ RemembersRight(s)
  BY DEF LifecycleInv, ProcessesFine, ProcessFine, Process
<1>2. s.at = "open" /\ s.made = {}
  BY <1>1 DEF Open, OpenFails, MadeInOrder
<1>3. CASE Open(d)
  <2> DEFINE t == [s EXCEPT !.at = IF p = Providers THEN "init" ELSE "open",
                            !.step = IF p = Providers THEN 1 ELSE p + 1]
  <2>1. /\ proc' = [proc EXCEPT ![d] = t] /\ lock' = [lock EXCEPT ![p] = d]
        /\ lock[p] = NoOne /\ UNCHANGED <<runtime, socket, unclean, crossed>>
    BY <1>3 DEF Open
  <2>2. /\ t \in Process /\ t.made = s.made
        /\ t.at = IF p = Providers THEN "init" ELSE "open"
        /\ t.step = IF p = Providers THEN 1 ELSE p + 1
    BY <1>1 DEF Process, Places
  <2>3. t.recovered = t.expected
    BY <1>1 DEF RemembersRight, Process
  <2>4. lock \in [Provider -> Daemon \cup {NoOne}]
    BY DEF LifecycleInv, FilesTypeOK
  <2>5. \A q \in Provider : q <= p => lock'[q] = d
    BY <1>1, <1>2, <2>1, <2>4 DEF HoldsLocks, Provider
  <2> HIDE DEF t
  <2>6. ProcessFine(lock', d, t)
    <3>1. MadeInOrder(t)
      BY <1>2, <2>2 DEF MadeInOrder, Started, Guarding
    <3>2. HoldsLocks(lock', d, t)
      BY <1>1, <1>2, <2>2, <2>5 DEF HoldsLocks, Started, Guarding, Provider
    <3>3. RemembersRight(t)
      BY <2>2, <2>3 DEF RemembersRight
    <3> QED BY <3>1, <3>2, <3>3 DEF ProcessFine
  <2>7. \A q \in Provider : \A e \in Daemon \ {d} : lock[q] = e => lock'[q] = e
    BY <2>1, <2>4, NoOneIsNoDaemon
  <2>8. proc' \in [Daemon -> Process] /\ ProcessesFine'
    BY <2>1, <2>2, <2>6, <2>7, OneProcessMoves
  <2>9. FilesTypeOK'
    BY <1>1, <2>1, <2>4 DEF LifecycleInv, FilesTypeOK
  <2>10. DatabasesFine'
    BY <2>1, <2>2, DatabasesUntouched
  <2>11. ServingIsReachable'
    BY <2>1, <2>2, SocketUntouched
  <2> QED BY <2>8, <2>9, <2>10, <2>11 DEF LifecycleInv
<1>4. CASE OpenFails(d)
  <2>1. Ends(d) /\ UNCHANGED <<runtime, socket, unclean, crossed>>
    BY <1>4 DEF OpenFails
  <2> QED BY <1>2, <2>1, EndsFine
<1> QED BY <1>3, <1>4

(* Initializing a database: it is marked running because a process has it; *)
(* what the transaction found it marked as is what its last owner did.     *)
LEMMA InitializeFine ==
    ASSUME LifecycleInv, NEW d \in Daemon, Initialize(d)
    PROVE  LifecycleInv'
<1> DEFINE s == proc[d]
           p == s.step
           reported == s.recovered \/ runtime[p].running
           deserved == s.expected \/ p \in unclean
           t == [s EXCEPT !.at = IF p = Providers THEN "health" ELSE "init",
                          !.step = IF p = Providers THEN p ELSE p + 1,
                          !.made = @ \cup {p},
                          !.recovered = reported,
                          !.expected = deserved]
<1> USE ProviderFacts
<1>1. /\ s \in Process /\ p \in Provider
      /\ MadeInOrder(s) /\ HoldsLocks(lock, d, s) /\ RemembersRight(s)
  BY DEF LifecycleInv, ProcessesFine, ProcessFine, Process
<1>2. /\ s.at = "init" /\ s.made = 1..(p - 1) /\ \A q \in Provider : lock[q] = d
  BY <1>1 DEF Initialize, MadeInOrder, HoldsLocks
<1>3. runtime \in [Provider -> [generation : 0..MaxGeneration, running : BOOLEAN]]
  BY DEF LifecycleInv, FilesTypeOK
<1>4. /\ proc' = [proc EXCEPT ![d] = t] /\ unclean' = unclean \ {p}
      /\ runtime' = [runtime EXCEPT ![p] = [generation |-> @.generation + 1, running |-> TRUE]]
      /\ UNCHANGED <<lock, socket, crossed>>
  BY DEF Initialize
<1>5. runtime[p].running \in BOOLEAN
  BY <1>1, <1>3
<1>6. runtime[p].running <=> p \in unclean
  <2>1. \A e \in Daemon : p \notin proc[e].made
    <3>1. p \notin s.made
      BY <1>1, <1>2
    <3>2. \A e \in Daemon \ {d} : p \notin proc[e].made
      BY <1>1, <1>2 DEF LifecycleInv, ProcessesFine, ProcessFine, HoldsLocks
    <3> QED BY <3>1, <3>2
  <2> QED BY <1>1, <2>1 DEF LifecycleInv, DatabasesFine, DatabaseFine
<1>7. /\ t \in Process /\ t.made = s.made \cup {p}
      /\ t.at = IF p = Providers THEN "health" ELSE "init"
      /\ t.step = IF p = Providers THEN p ELSE p + 1
      /\ t.recovered = reported /\ t.expected = deserved
  <2>1. reported \in BOOLEAN /\ deserved \in BOOLEAN
    OBVIOUS
  <2> HIDE DEF reported, deserved
  <2> QED BY <1>1, <2>1, ZenonT(60) DEF Process, Places
<1> HIDE DEF t
<1>8. ProcessFine(lock', d, t)
  <2>1. t.made = 1..p
    BY <1>1, <1>2, <1>7
  <2>2. MadeInOrder(t)
    <3>1. CASE p = Providers
      BY <1>7, <2>1, <3>1 DEF MadeInOrder, Started, Guarding
    <3>2. CASE p # Providers
      <4>1. t.made = 1..(t.step - 1) /\ t.at = "init"
        BY <1>1, <1>7, <2>1, <3>2
      <4> QED BY <4>1 DEF MadeInOrder, Started, Guarding
    <3> QED BY <3>1, <3>2
  <2>3. HoldsLocks(lock', d, t)
    BY <1>1, <1>2, <1>4, <1>7, <2>1 DEF HoldsLocks, Provider, Guarding
  <2>4. t.recovered = t.expected
    <3>1. s.recovered \in BOOLEAN /\ s.recovered = s.expected
      BY <1>1 DEF RemembersRight, Process
    <3> QED BY <1>5, <1>6, <1>7, <3>1
  <2>5. RemembersRight(t)
    BY <1>7, <2>4 DEF RemembersRight
  <2> QED BY <2>2, <2>3, <2>5 DEF ProcessFine
<1>9. proc' \in [Daemon -> Process] /\ ProcessesFine'
  BY <1>4, <1>7, <1>8, OneProcessMoves
<1>10. FilesTypeOK'
  <2>1. runtime[p].generation + 1 \in 0..MaxGeneration
    BY <1>1, <1>3, StartsAreBounded DEF Initialize
  <2>2. runtime' \in [Provider -> [generation : 0..MaxGeneration, running : BOOLEAN]]
    BY <1>1, <1>3, <1>4, <2>1
  <2> QED BY <1>4, <2>2 DEF LifecycleInv, FilesTypeOK
<1>11. DatabasesFine'
  <2>1. \A e \in Daemon : proc'[e].made = IF e = d THEN s.made \cup {p} ELSE proc[e].made
    BY <1>4, <1>7 DEF LifecycleInv
  <2>2. \A q \in Provider : runtime'[q].running = IF q = p THEN TRUE ELSE runtime[q].running
    BY <1>1, <1>3, <1>4
  <2>3. ASSUME NEW q \in Provider PROVE DatabaseFine(q)'
    <3>1. /\ runtime[q].running <=> (q \in unclean \/ \E e \in Daemon : q \in proc[e].made)
          /\ \A e \in Daemon : q \in proc[e].made => q \notin unclean
      BY DEF LifecycleInv, DatabasesFine, DatabaseFine
    <3>2. runtime'[q].running <=> (q \in unclean' \/ \E e \in Daemon : q \in proc'[e].made)
      <4>1. CASE q = p
        BY <2>1, <2>2, <4>1
      <4>2. CASE q # p
        <5>1. \A e \in Daemon : q \in proc'[e].made <=> q \in proc[e].made
          BY <2>1, <4>2
        <5>2. q \in unclean' <=> q \in unclean
          BY <1>4, <4>2
        <5>3. runtime'[q].running = runtime[q].running
          BY <2>2, <4>2
        <5> QED BY <3>1, <5>1, <5>2, <5>3
      <4> QED BY <4>1, <4>2
    <3>3. \A e \in Daemon : q \in proc'[e].made => q \notin unclean'
      BY <1>4, <2>1, <3>1
    <3> QED BY <3>2, <3>3 DEF DatabaseFine
  <2> QED BY <2>3 DEF DatabasesFine
<1>12. ServingIsReachable'
  BY <1>4, <1>7, SocketUntouched
<1> QED BY <1>9, <1>10, <1>11, <1>12 DEF LifecycleInv

(* A failed initialization ends the process, or goes back over the         *)
(* databases that were initialized before.                                 *)
LEMMA InitializeFailsFine ==
    ASSUME LifecycleInv, NEW d \in Daemon, InitializeFails(d)
    PROVE  LifecycleInv'
<1> DEFINE s == proc[d]
           p == s.step
<1> USE ProviderFacts
<1>1. /\ s \in Process /\ p \in Provider
      /\ MadeInOrder(s) /\ HoldsLocks(lock, d, s) /\ RemembersRight(s)
  BY DEF LifecycleInv, ProcessesFine, ProcessFine, Process
<1>2. s.at = "init" /\ s.made = 1..(p - 1) /\ UNCHANGED <<runtime, socket, unclean, crossed>>
  BY <1>1 DEF InitializeFails, MadeInOrder
<1>3. CASE s.made # {}
  <2> DEFINE t == [s EXCEPT !.at = "rollback", !.step = @ - 1]
  <2>1. proc' = [proc EXCEPT ![d] = t] /\ UNCHANGED lock
    BY <1>3 DEF InitializeFails
  <2>2. p > 1
    BY <1>1, <1>2, <1>3
  <2>3. t \in Process /\ t.made = s.made /\ t.at = "rollback" /\ t.step = p - 1
    BY <1>1, <2>2 DEF Process, Places
  <2>4. t.recovered = t.expected
    BY <1>1 DEF RemembersRight, Process
  <2> HIDE DEF t
  <2>5. ProcessFine(lock, d, t)
    BY <1>1, <1>2, <2>3, <2>4
       DEF ProcessFine, MadeInOrder, HoldsLocks, RemembersRight, Started, Guarding
  <2> QED BY <1>2, <2>1, <2>3, <2>5, MoveAlone
<1>4. CASE s.made = {}
  <2>1. Ends(d)
    BY <1>4 DEF InitializeFails
  <2> QED BY <1>2, <1>4, <2>1, EndsFine
<1> QED BY <1>3, <1>4

(* What a process that shuts a database down becomes.                      *)
LEMMA AfterShutdownFine ==
    ASSUME LifecycleInv, NEW d \in Daemon, proc[d].at \in {"stop", "rollback"},
           NEW after, after = AfterShutdown(d)
    PROVE  /\ after \in Process
           /\ after.made = proc[d].made \ {proc[d].step}
           /\ after.at \in {"stop", "rollback", "check", "off"}
           /\ MadeInOrder(after) /\ RemembersRight(after)
           /\ after.at = "check" => after.left = "off"
           /\ after = NewProcess => after.made = {}
<1> DEFINE s == proc[d]
           p == s.step
<1> USE ProviderFacts
<1>1. /\ s \in Process /\ p \in Provider
      /\ MadeInOrder(s) /\ RemembersRight(s)
  BY DEF LifecycleInv, ProcessesFine, ProcessFine, Process
<1>2. s.made = 1..p
  BY <1>1 DEF MadeInOrder
<1>3. NewProcess.made = {} /\ NewProcess.at = "off"
  BY DEF NewProcess
<1>4. CASE p > 1
  <2> DEFINE t == [s EXCEPT !.step = @ - 1, !.made = @ \ {p}]
  <2>1. AfterShutdown(d) = t
    BY <1>4 DEF AfterShutdown
  <2>2. t \in Process /\ t.made = s.made \ {p} /\ t.at = s.at /\ t.step = p - 1
    BY <1>1, <1>4 DEF Process, Places
  <2>3. t.recovered = t.expected
    BY <1>1 DEF RemembersRight, Process
  <2> HIDE DEF t
  <2>4. t.made = 1..t.step
    <3>1. (1..p) \ {p} = 1..(p - 1)
      <4>1. p \in Nat /\ p >= 1
        BY <1>1
      <4> HIDE DEF p
      <4> QED BY <4>1
    <3> QED BY <1>2, <2>2, <3>1
  <2>5. MadeInOrder(t) /\ RemembersRight(t)
    BY <2>2, <2>3, <2>4 DEF MadeInOrder, RemembersRight, Started, Guarding
  <2> QED BY <1>3, <2>1, <2>2, <2>5
<1>5. CASE ~(p > 1)
  <2>1. s.made \ {p} = {}
    BY <1>1, <1>2, <1>5
  <2>2. CASE s.at = "stop" /\ s.inode # NoFile
    <3> DEFINE t == [s EXCEPT !.at = "check", !.made = {}, !.listening = FALSE, !.left = "off"]
    <3>1. AfterShutdown(d) = t
      BY <1>5, <2>2 DEF AfterShutdown
    <3>2. t \in Process /\ t.made = {} /\ t.at = "check" /\ t.left = "off"
      BY <1>1 DEF Process, Places
    <3>3. t.recovered = t.expected
      BY <1>1 DEF RemembersRight, Process
    <3> HIDE DEF t
    <3>4. MadeInOrder(t) /\ RemembersRight(t)
      BY <3>2, <3>3 DEF MadeInOrder, RemembersRight, Started, Guarding
    <3> QED BY <2>1, <3>1, <3>2, <3>4
  <2>3. CASE ~(s.at = "stop" /\ s.inode # NoFile)
    <3>1. AfterShutdown(d) = NewProcess
      BY <1>5, <2>3 DEF AfterShutdown
    <3>2. NewProcess \in Process /\ MadeInOrder(NewProcess) /\ RemembersRight(NewProcess)
      BY NewProcessFine DEF ProcessFine
    <3> QED BY <1>3, <2>1, <3>1, <3>2
  <2> QED BY <2>2, <2>3
<1> QED BY <1>4, <1>5

(* Shutting a database down: it is marked as not running, or becomes       *)
(* unclean, and in both cases no process has it any more.                  *)
LEMMA ShutdownFine ==
    ASSUME LifecycleInv, NEW d \in Daemon, Shutdown(d)
    PROVE  LifecycleInv'
<1> DEFINE s == proc[d]
           p == s.step
           t == AfterShutdown(d)
<1> USE ProviderFacts
<1>1. s \in Process /\ p \in Provider /\ s.at \in {"stop", "rollback"}
  BY DEF LifecycleInv, Process, Shutdown
<1>2. s.made = 1..p /\ \A q \in s.made : lock[q] = d
  BY <1>1 DEF LifecycleInv, ProcessesFine, ProcessFine, MadeInOrder, HoldsLocks
<1>3. PICK persisted \in BOOLEAN :
        /\ runtime' = IF persisted THEN [runtime EXCEPT ![p].running = FALSE] ELSE runtime
        /\ unclean' = IF persisted THEN unclean ELSE unclean \cup {p}
        /\ lock' = [q \in Provider |->
              IF q = p \/ (AfterShutdown(d) = NewProcess /\ lock[q] = d)
              THEN NoOne ELSE lock[q]]
  BY DEF Shutdown
<1>4. proc' = [proc EXCEPT ![d] = t] /\ UNCHANGED <<socket, crossed>>
  BY DEF Shutdown
<1>5. /\ t \in Process /\ t.made = s.made \ {p}
      /\ t.at \in {"stop", "rollback", "check", "off"}
      /\ MadeInOrder(t) /\ RemembersRight(t)
      /\ t.at = "check" => t.left = "off"
      /\ t = NewProcess => t.made = {}
  BY <1>1, AfterShutdownFine
<1> HIDE DEF t
<1>6. p \in s.made /\ lock[p] = d
  <2>1. p \in Nat /\ p >= 1
    BY <1>1
  <2>2. p \in 1..p
    <3> HIDE DEF p
    <3> QED BY <2>1
  <2> QED BY <1>2, <2>2
<1>7. \A q \in Provider : \A e \in Daemon \ {d} : lock[q] = e => lock'[q] = e
  BY <1>3, <1>6
<1>8. HoldsLocks(lock', d, t)
  <2>1. \A q \in t.made : q \in Provider /\ q # p /\ t # NewProcess /\ lock[q] = d
    BY <1>1, <1>2, <1>5 DEF Process
  <2>2. \A q \in t.made : lock'[q] = d
    BY <1>3, <2>1 DEF t
  <2> QED BY <1>5, <2>2 DEF HoldsLocks, Started, Guarding
<1>9. proc' \in [Daemon -> Process] /\ ProcessesFine'
  BY <1>4, <1>5, <1>7, <1>8, OneProcessMoves DEF ProcessFine
<1>10. runtime \in [Provider -> [generation : 0..MaxGeneration, running : BOOLEAN]]
  BY DEF LifecycleInv, FilesTypeOK
<1>11. FilesTypeOK'
  <2>1. lock' \in [Provider -> Daemon \cup {NoOne}]
    BY <1>3 DEF LifecycleInv, FilesTypeOK
  <2>2. [runtime[p] EXCEPT !.running = FALSE] \in [generation : 0..MaxGeneration, running : BOOLEAN]
    BY <1>1, <1>10
  <2>3. runtime' \in [Provider -> [generation : 0..MaxGeneration, running : BOOLEAN]]
    BY <1>3, <1>10, <2>2
  <2>4. unclean' \subseteq Provider
    BY <1>1, <1>3 DEF LifecycleInv, FilesTypeOK
  <2> QED BY <1>4, <2>1, <2>3, <2>4 DEF LifecycleInv, FilesTypeOK
<1>12. DatabasesFine'
  <2>1. \A e \in Daemon : proc'[e].made = IF e = d THEN s.made \ {p} ELSE proc[e].made
    BY <1>4, <1>5 DEF LifecycleInv
  <2>2. \A e \in Daemon \ {d} : p \notin proc[e].made
    BY <1>6 DEF LifecycleInv, ProcessesFine, ProcessFine, HoldsLocks
  <2>3. ASSUME NEW q \in Provider PROVE DatabaseFine(q)'
    <3>1. /\ runtime[q].running <=> (q \in unclean \/ \E e \in Daemon : q \in proc[e].made)
          /\ \A e \in Daemon : q \in proc[e].made => q \notin unclean
      BY DEF LifecycleInv, DatabasesFine, DatabaseFine
    <3>2. CASE q = p
      <4>1. \A e \in Daemon : p \notin proc'[e].made
        BY <2>1, <2>2
      <4>2. p \notin unclean /\ runtime[p].running
        BY <1>6, <3>1, <3>2
      <4>3. runtime'[p].running <=> p \in unclean'
        <5>1. CASE persisted
          BY <1>1, <1>3, <1>10, <4>2, <5>1
        <5>2. CASE ~persisted
          BY <1>3, <4>2, <5>2
        <5> QED BY <5>1, <5>2
      <4> QED BY <3>2, <4>1, <4>3 DEF DatabaseFine
    <3>3. CASE q # p
      <4>1. \A e \in Daemon : q \in proc'[e].made <=> q \in proc[e].made
        BY <2>1, <3>3
      <4>2. q \in unclean' <=> q \in unclean
        BY <1>3, <3>3
      <4>3. runtime'[q].running = runtime[q].running
        BY <1>1, <1>3, <1>10, <3>3
      <4> QED BY <3>1, <4>1, <4>2, <4>3 DEF DatabaseFine
    <3> QED BY <3>2, <3>3
  <2> QED BY <2>3 DEF DatabasesFine
<1>13. ServingIsReachable'
  BY <1>4, <1>5, SocketUntouched
<1> QED BY <1>9, <1>11, <1>12, <1>13 DEF LifecycleInv

-----------------------------------------------------------------------------
(* The steps of a process that is preparing its socket: it holds every     *)
(* lock, so nobody else can be serving.                                    *)
LEMMA SocketSteps ==
    ASSUME LifecycleInv, NEW d \in Daemon, Unlink(d) \/ Listen(d) \/ ListenFails(d)
    PROVE  LifecycleInv'
<1> DEFINE s == proc[d]
<1> USE ProviderFacts
<1>1. /\ s \in Process
      /\ MadeInOrder(s) /\ HoldsLocks(lock, d, s) /\ RemembersRight(s)
  BY DEF LifecycleInv, ProcessesFine, ProcessFine
<1>2. s.at \in {"unlink", "listen"} /\ UNCHANGED <<lock, runtime, unclean, crossed>>
  BY DEF Unlink, Listen, ListenFails
<1>3. \E t \in Process :
        /\ proc' = [proc EXCEPT ![d] = t] /\ t.made = s.made
        /\ ProcessFine(lock, d, t)
        /\ t.at \in {"stop", "listen", "store"}
        /\ t.at = "store" => socket' = t.inode
        /\ socket' \in Inode \cup {NoFile}
  <2>1. CASE Unlink(d) \/ ListenFails(d)
    <3>1. PICK place \in {"stop", "listen"} : proc' = [proc EXCEPT ![d].at = place]
      BY <2>1 DEF Unlink, ListenFails, Goes
    <3> DEFINE t == [s EXCEPT !.at = place]
    <3>2. t \in Process /\ t.made = s.made /\ t.at = place
      BY <1>1, <3>1 DEF Process, Places
    <3>3. ProcessFine(lock, d, t)
      BY <1>1, <1>2, <3>1 DEF Process, ProcessFine, MadeInOrder, HoldsLocks, RemembersRight,
         Started, Guarding
    <3>4. socket' \in Inode \cup {NoFile}
      BY <2>1 DEF Unlink, ListenFails, LifecycleInv, FilesTypeOK
    <3>5. proc' = [proc EXCEPT ![d] = t]
      BY <3>1
    <3> QED BY <3>1, <3>2, <3>3, <3>4, <3>5
  <2>2. CASE Listen(d)
    <3>1. PICK i \in Inode :
            socket' = i /\ proc' = [proc EXCEPT ![d].at = "store", ![d].inode = i, ![d].listening = TRUE]
      BY <2>2 DEF Listen
    <3> DEFINE t == [s EXCEPT !.at = "store", !.inode = i, !.listening = TRUE]
    <3>2. t \in Process /\ t.made = s.made /\ t.at = "store" /\ t.inode = i
      BY <1>1 DEF Process, Places
    <3>3. ProcessFine(lock, d, t)
      BY <1>1, <1>2 DEF Process, ProcessFine, MadeInOrder, HoldsLocks, RemembersRight,
         Started, Guarding
    <3>4. proc' = [proc EXCEPT ![d] = t]
      BY <3>1
    <3> QED BY <3>1, <3>2, <3>3, <3>4
  <2> QED BY <2>1, <2>2
<1>4. PICK t \in Process :
        /\ proc' = [proc EXCEPT ![d] = t] /\ t.made = s.made
        /\ ProcessFine(lock, d, t)
        /\ t.at \in {"stop", "listen", "store"}
        /\ t.at = "store" => socket' = t.inode
        /\ socket' \in Inode \cup {NoFile}
  BY <1>3
<1>5. proc' \in [Daemon -> Process] /\ ProcessesFine'
  BY <1>2, <1>4, OneProcessMoves
<1>6. FilesTypeOK'
  BY <1>2, <1>4 DEF LifecycleInv, FilesTypeOK
<1>7. DatabasesFine'
  BY <1>2, <1>4, DatabasesUntouched
<1>8. ServingIsReachable'
  <2>1. \A e \in Daemon : proc[e].at \in {"store", "serving"} => e = d
    BY <1>2, OneStarted DEF Started
  <2>2. \A e \in Daemon \ {d} : proc'[e].at \notin {"store", "serving"}
    BY <1>4, <2>1 DEF LifecycleInv
  <2>3. proc'[d] = t
    BY <1>4 DEF LifecycleInv
  <2> QED BY <1>4, <2>2, <2>3 DEF ServingIsReachable
<1> QED BY <1>5, <1>6, <1>7, <1>8 DEF LifecycleInv

(* The guard removes the file at the path.  When that is the socket of a   *)
(* serving daemon, the file was the guard's own when it checked.           *)
LEMMA GuardRemovesFine ==
    ASSUME LifecycleInv, NEW d \in Daemon, GuardRemoves(d)
    PROVE  LifecycleInv'
<1> DEFINE t == Unguarded(d)
<1>1. /\ proc' = [proc EXCEPT ![d] = t] /\ socket' = NoFile
      /\ crossed' = (crossed \/ (Answers /\ proc[d].ours))
      /\ proc[d].at = "remove" /\ UNCHANGED <<lock, runtime, unclean>>
  BY DEF GuardRemoves
<1>2. /\ t \in Process /\ t.made = proc[d].made /\ t.at \in {"off", "stop"}
      /\ ProcessFine(lock, d, t)
  BY <1>1, UnguardedFine DEF Guarding
<1> HIDE DEF t
<1>3. proc' \in [Daemon -> Process] /\ ProcessesFine'
  BY <1>1, <1>2, OneProcessMoves
<1>4. FilesTypeOK'
  BY <1>1 DEF LifecycleInv, FilesTypeOK
<1>5. DatabasesFine'
  BY <1>1, <1>2, DatabasesUntouched
<1>6. ServingIsReachable'
  <2> SUFFICES ASSUME NEW e \in Daemon, proc'[e].at \in {"store", "serving"}
               PROVE  crossed'
    BY DEF ServingIsReachable
  <2>1. e # d /\ proc'[e] = proc[e]
    BY <1>1, <1>2 DEF LifecycleInv
  <2>2. proc[e].listening /\ (socket = proc[e].inode \/ crossed)
    BY <2>1 DEF LifecycleInv, ServingIsReachable, ProcessesFine, ProcessFine, RemembersRight
  <2>3. proc[d].ours
    BY <1>1 DEF LifecycleInv, ProcessesFine, ProcessFine, RemembersRight
  <2> QED BY <1>1, <2>2, <2>3 DEF Answers
<1> QED BY <1>3, <1>4, <1>5, <1>6 DEF LifecycleInv

(* Every step of a daemon's life keeps the invariant.                      *)
LEMMA LifecycleStepInv ==
    ASSUME LifecycleInv, NEW d \in Daemon, LifecycleStep(d)
    PROVE  LifecycleInv'
<1>1. CASE Launch(d) \/ HealthCheck(d) \/ Probe(d) \/ StoreOpens(d) \/ StoreFails(d)
           \/ Stop(d) \/ Drained(d) \/ GuardChecks(d)
  BY <1>1, PlainSteps
<1>2. CASE Open(d) \/ OpenFails(d)
  BY <1>2, OpenFine
<1>3. CASE Initialize(d)
  BY <1>3, InitializeFine
<1>4. CASE InitializeFails(d)
  BY <1>4, InitializeFailsFine
<1>5. CASE Shutdown(d)
  BY <1>5, ShutdownFine
<1>6. CASE Unlink(d) \/ Listen(d) \/ ListenFails(d)
  BY <1>6, SocketSteps
<1>7. CASE GuardRemoves(d)
  BY <1>7, GuardRemovesFine
<1>8. CASE Crash(d)
  BY <1>8, EndsFine DEF Crash
<1> QED BY <1>1, <1>2, <1>3, <1>4, <1>5, <1>6, <1>7, <1>8 DEF LifecycleStep

(* The invariant speaks of nothing but the variables of a daemon's life.   *)
LEMMA LifecycleStutter ==
    ASSUME LifecycleInv, UNCHANGED lifecycleVars
    PROVE  LifecycleInv'
BY DEF lifecycleVars, LifecycleInv, FilesTypeOK, ProcessesFine, DatabasesFine, DatabaseFine,
       ServingIsReachable

(* The invariant gives the properties.                                     *)
LEMMA LifecycleInvGives ==
    LifecycleInv => LifecycleTypeOK /\ RecoveryReportIsExact
BY DEF LifecycleInv, FilesTypeOK, LifecycleTypeOK, RecoveryReportIsExact, ProcessesFine,
       ProcessFine, RemembersRight, Process

-----------------------------------------------------------------------------
(* The artifact store in the life of its daemon                            *)

Byte == {<<b.file, i>> : b \in Begins, i \in Nat}
Content == Seq(Byte)

UploadFile == [at : {"never", "written", "removed"}, bytes : Content]
Entry ==
    {Absent} \cup [at : {"open"}, begin : Begins]
             \cup [at : {"committed"}, begin : Begins, key : Content]
ArtifactHead == [id : Artifact, version : Nat, active : BOOLEAN, key : Content]
Request ==
    {Idle}
    \cup [at : {"create", "finish"}, by : Server, upload : Upload, id : Artifact \cup {NoId},
          key : Content]
    \cup [at : {"download"}, by : Server, id : Artifact, version : Nat, got : Content]

(* The types that StoreTypeOK leaves open.                                 *)
StoreTypes ==
    /\ file \in [Upload -> UploadFile]
    /\ table \in [Server -> [Upload -> Entry]]
    /\ objects \subseteq Content
    /\ heads \subseteq ArtifactHead
    /\ \A h \in heads : h.version \in 1..versions
    /\ versions \in 0..MaxVersions
    /\ call \in [Caller -> Request]
    /\ made \in [Upload -> Nat]
    /\ overlap \subseteq Upload
    /\ unheard \subseteq Upload
    /\ fetched \subseteq Content

(* Requests are completed while their daemon serves or drains.             *)
AtWork(d) == proc[d].at \in {"serving", "drain"}

(* Nobody but a daemon at work has uploads or requests, and an upload that *)
(* is known to anyone has had its file.                                    *)
OnlyAtWork ==
    /\ \A s \in Server : \A u \in Upload :
          table[s][u] # Absent => AtWork(s) /\ file[u].at # "never"
    /\ \A c \in Caller : call[c] # Idle => AtWork(call[c].by)
    /\ \A c \in Caller : \A u \in Upload : Committing(c, u) => file[u].at # "never"
    /\ \A u \in Upload : made[u] > 0 => file[u].at # "never"

(* What is placed in the store: the key of every commit past the store.    *)
KeysArePlaced ==
    /\ \A s \in Server : \A u \in Upload :
          table[s][u].at = "committed" => table[s][u].key \in objects
    /\ \A c \in Caller : \A u \in Upload : Committing(c, u) => call[c].key \in objects
    /\ ArtifactsHaveBytes

(* A version names one head for ever: what a download has got is the start *)
(* of the content of the version it has pinned.                            *)
DownloadsArePinned ==
    /\ \A g, h \in heads : g.version = h.version => g = h
    /\ \A c \in Caller : call[c].at = "download" =>
          /\ call[c].version <= versions
          /\ call[c].version = NoVersion => call[c].got = <<>>
          /\ \A h \in heads : h.version = call[c].version =>
                /\ Len(call[c].got) < Len(h.key)
                /\ call[c].got = SubSeq(h.key, 1, Len(call[c].got))
    /\ DownloadsAreWhole

(* One id goes with an upload, from its announcement to its commits.       *)
OneId(u, i) ==
    /\ \A c \in Caller : Committing(c, u) => call[c].id = i
    /\ \A s \in Server : table[s][u] # Absent => table[s][u].begin.id = i

(* A named entity is made once, since its id is taken from then on.        *)
NamedOnce(u, i) == made[u] <= 1 /\ (made[u] > 0 => i \in Taken)

(* An unnamed upload that has made its entity is known only to the daemon  *)
(* that is about to forget it, unless two commits of it were in progress   *)
(* at once or its client was told of an error.                             *)
UnnamedOnce(u) ==
    u \notin overlap \cup unheard =>
        /\ made[u] <= 1
        /\ \A b, c \in Caller : Committing(b, u) /\ Committing(c, u) => b = c
        /\ \A c \in Caller : Committing(c, u) /\ call[c].at = "create" => made[u] = 0
        /\ made[u] = 1 =>
              \A s \in Server : table[s][u] # Absent =>
                  \E c \in Caller :
                      Committing(c, u) /\ call[c].at = "finish" /\ call[c].by = s

MadeOnce(u) ==
    \E i \in Artifact \cup {NoId} :
        OneId(u, i) /\ IF i = NoId THEN UnnamedOnce(u) ELSE NamedOnce(u, i)

UploadsMakeOnce == \A u \in Upload : MadeOnce(u)

(* The inductive invariant of the store.                                   *)
StoreInv ==
    /\ StoreTypes
    /\ OnlyAtWork
    /\ UploadsKeepTheirFile
    /\ KeysArePlaced
    /\ DownloadsArePinned
    /\ UploadsMakeOnce

-----------------------------------------------------------------------------
(* The content of a file is a sequence of bytes.                           *)
LEMMA BytesType ==
    ASSUME NEW b \in Begins
    PROVE  Bytes(b) \in Content /\ Len(Bytes(b)) = b.size /\ b.size \in Nat
<1>1. b.size \in Nat
  BY UploadsAnnounceFiles
<1>2. \A i \in 1..b.size : <<b.file, i>> \in Byte
  BY <1>1 DEF Byte
<1> QED BY <1>1, <1>2 DEF Bytes, Content

(* A prefix of a content, continued by the bytes that come next, is a      *)
(* prefix again.                                                           *)
LEMMA PrefixGrows ==
    ASSUME NEW k \in Content, NEW n \in Nat, NEW end \in (n + 1)..Len(k)
    PROVE  /\ SubSeq(k, 1, n) \o SubSeq(k, n + 1, end) = SubSeq(k, 1, end)
           /\ SubSeq(k, 1, end) \in Content
           /\ Len(SubSeq(k, 1, end)) = end
<1>1. Len(k) \in Nat
  BY DEF Content
<1>2. SubSeq(k, 1, n) \o SubSeq(k, n + 1, end) = SubSeq(k, 1, end)
  <2>1. 1 \in 1..(Len(k) + 1) /\ n \in (1 - 1)..Len(k) /\ end \in n..Len(k)
    BY <1>1
  <2> QED BY <2>1, ConcatAdjacentSubSeq DEF Content
<1>3. \A i \in 1..end : k[i] \in Byte
  BY <1>1 DEF Content
<1>4. end \in Int /\ end >= 1
  BY <1>1
<1>5. /\ SubSeq(k, 1, end) \in Seq(Byte)
      /\ Len(SubSeq(k, 1, end)) = IF 1 <= end THEN end - 1 + 1 ELSE 0
  BY <1>3, <1>4, SubSeqProperties
<1> QED BY <1>2, <1>4, <1>5 DEF Content

(* A chunk of one byte continues a prefix.                                 *)
LEMMA PrefixAppends ==
    ASSUME NEW k \in Content, NEW got \in Content, Len(got) < Len(k),
           got = SubSeq(k, 1, Len(got))
    PROVE  /\ Append(got, k[Len(got) + 1]) \in Content
           /\ Len(Append(got, k[Len(got) + 1])) = Len(got) + 1
           /\ Append(got, k[Len(got) + 1]) = SubSeq(k, 1, Len(got) + 1)
<1> DEFINE n == Len(got)
<1>1. n \in Nat /\ Len(k) \in Nat /\ n + 1 \in 1..Len(k)
  BY DEF Content
<1>2. k[n + 1] \in Byte
  BY <1>1 DEF Content
<1>3. SubSeq(k, 1, n + 1) = SubSeq(k, 1, (n + 1) - 1) \o <<k[n + 1]>>
  BY <1>1, SubSeqRecursiveSecond DEF Content
<1>4. (n + 1) - 1 = n
  BY <1>1
<1>5. Append(got, k[n + 1]) = got \o <<k[n + 1]>>
  BY <1>2, AppendIsConcat DEF Content
<1>6. Append(got, k[n + 1]) \in Seq(Byte) /\ Len(Append(got, k[n + 1])) = n + 1
  BY <1>2, AppendProperties DEF Content
<1> QED BY <1>3, <1>4, <1>5, <1>6 DEF Content

(* A prefix as long as the whole is the whole.                             *)
LEMMA PrefixIsWhole ==
    ASSUME NEW k \in Content, NEW got, got = SubSeq(k, 1, Len(got)), Len(got) = Len(k)
    PROVE  got = k
BY SubSeqFull DEF Content

(* The empty sequence is a prefix of anything.                             *)
LEMMA EmptyPrefix ==
    ASSUME NEW k
    PROVE  <<>> \in Content /\ Len(<<>>) = 0 /\ SubSeq(k, 1, Len(<<>>)) = <<>>
<1>1. Len(<<>>) = 0 /\ <<>> \in Content
  BY DEF Content
<1>2. SubSeq(k, 1, 0) = <<>>
  BY SubSeqEmpty
<1> QED BY <1>1, <1>2

(* An entry is told by its place, and so is a request.                     *)
LEMMA EntryFacts ==
    ASSUME StoreTypes, NEW s \in Server, NEW u \in Upload
    PROVE  /\ table[s][u] \in Entry
           /\ table[s][u].at \in {"absent", "open", "committed"}
           /\ table[s][u] = Absent <=> table[s][u].at = "absent"
           /\ table[s][u] # Absent => table[s][u].begin \in Begins
           /\ table[s][u].at = "committed" => table[s][u].key \in Content
<1>1. table[s][u] \in Entry
  BY DEF StoreTypes
<1> QED BY <1>1 DEF Entry, Absent

(* What a request in progress carries at each of its points.               *)
LEMMA RequestFacts ==
    ASSUME StoreTypes, NEW c \in Caller
    PROVE  /\ call[c] \in Request
           /\ call[c].at \in {"idle", "create", "finish", "download"}
           /\ call[c] = Idle <=> call[c].at = "idle"
           /\ call[c] # Idle => call[c].by \in Server
           /\ call[c].at \in {"create", "finish"} =>
                 call[c] \in [at : {"create", "finish"}, by : Server, upload : Upload,
                              id : Artifact \cup {NoId}, key : Content]
           /\ call[c].at = "download" =>
                 call[c] \in [at : {"download"}, by : Server, id : Artifact, version : Nat,
                              got : Content]
<1>1. call[c] \in Request
  BY DEF StoreTypes
<1> QED BY <1>1 DEF Request, Idle

(* Only one daemon is at work.                                             *)
LEMMA OneAtWork ==
    ASSUME LifecycleInv, NEW d \in Daemon, NEW e \in Daemon, AtWork(d), AtWork(e)
    PROVE  d = e
BY OneStarted DEF AtWork, Started

(* Initially there is nothing.                                             *)
LEMMA StoreInitInv == StoreInit => StoreInv
<1> SUFFICES ASSUME StoreInit PROVE StoreInv
  OBVIOUS
<1>1. \A u \in Upload : file[u] = Never /\ made[u] = 0
  BY DEF StoreInit
<1>2. \A s \in Server : \A u \in Upload : table[s][u] = Absent
  BY DEF StoreInit
<1>3. \A c \in Caller : call[c] = Idle
  BY DEF StoreInit
<1>4. Absent.at = "absent" /\ Idle.at = "idle" /\ Never.at = "never"
  BY DEF Absent, Idle, Never
<1>5. StoreTypes
  <2>1. Never \in UploadFile /\ Absent \in Entry /\ Idle \in Request
    BY EmptyPrefix DEF Never, UploadFile, Entry, Request
  <2>2. 0 \in 0..MaxVersions
    BY VersionsAreBounded
  <2> QED BY <2>1, <2>2 DEF StoreInit, StoreTypes
<1>6. \A c \in Caller : \A u \in Upload : ~Committing(c, u)
  BY <1>3, <1>4 DEF Committing
<1>7. OnlyAtWork
  BY <1>1, <1>2, <1>3, <1>6 DEF OnlyAtWork
<1>8. UploadsKeepTheirFile
  BY <1>2, <1>4, ServersAreDaemons DEF UploadsKeepTheirFile, UploadIsAPrefix
<1>9. KeysArePlaced
  BY <1>2, <1>4, <1>6 DEF KeysArePlaced, ArtifactsHaveBytes, StoreInit
<1>10. DownloadsArePinned
  BY <1>3, <1>4 DEF DownloadsArePinned, DownloadsAreWhole, StoreInit
<1>11. UploadsMakeOnce
  BY <1>1, <1>2, <1>6 DEF UploadsMakeOnce, MadeOnce, OneId, UnnamedOnce
<1> QED BY <1>5, <1>7, <1>8, <1>9, <1>10, <1>11 DEF StoreInv

-----------------------------------------------------------------------------
(* One entry of the table changes.                                         *)
LEMMA EntryChanges ==
    ASSUME StoreTypes, NEW s \in Server, NEW u \in Upload, NEW e \in Entry,
           table' = [table EXCEPT ![s][u] = e]
    PROVE  /\ table' \in [Server -> [Upload -> Entry]]
           /\ table'[s][u] = e
           /\ \A r \in Server : \A v \in Upload : r # s \/ v # u => table'[r][v] = table[r][v]
BY DEF StoreTypes

(* One request changes.                                                    *)
LEMMA RequestChanges ==
    ASSUME StoreTypes, NEW c \in Caller, NEW r \in Request,
           call' = [call EXCEPT ![c] = r]
    PROVE  /\ call' \in [Caller -> Request]
           /\ call'[c] = r
           /\ \A b \in Caller : b # c => call'[b] = call[b]
BY DEF StoreTypes

(* The parts that speak of requests and entities only.                     *)
LEMMA PinnedFrame ==
    ASSUME DownloadsArePinned, UNCHANGED <<entityVars, call, fetched>>, objects \subseteq objects'
    PROVE  DownloadsArePinned'
BY DEF DownloadsArePinned, DownloadsAreWhole, entityVars

(* An upload that makes nothing now, and whose entries and commits stay or *)
(* are given up, keeps what it has made.                                   *)
LEMMA MadeFrame ==
    ASSUME NEW u \in Upload, MadeOnce(u), made'[u] = made[u], Taken \subseteq Taken',
           overlap \subseteq overlap', unheard \subseteq unheard',
           \A c \in Caller : Committing(c, u)' =>
               Committing(c, u) /\ call'[c].id = call[c].id /\ call'[c].at = call[c].at,
           \A s \in Server : table'[s][u] # Absent =>
               /\ table[s][u] # Absent
               /\ table'[s][u].begin = table[s][u].begin
               /\ \A c \in Caller :
                     Committing(c, u) /\ call[c].at = "finish" /\ call[c].by = s =>
                         Committing(c, u)' /\ call'[c].at = "finish" /\ call'[c].by = s
    PROVE  MadeOnce(u)'
<1>1. PICK i \in Artifact \cup {NoId} :
        OneId(u, i) /\ IF i = NoId THEN UnnamedOnce(u) ELSE NamedOnce(u, i)
  BY DEF MadeOnce
<1>2. OneId(u, i)'
  BY <1>1 DEF OneId
<1>3. CASE i = NoId
  <2> SUFFICES ASSUME u \notin overlap' \cup unheard' PROVE UnnamedOnce(u)'
    BY <1>2, <1>3 DEF MadeOnce, UnnamedOnce
  <2>1. /\ made[u] <= 1
        /\ \A b, c \in Caller : Committing(b, u) /\ Committing(c, u) => b = c
        /\ \A c \in Caller : Committing(c, u) /\ call[c].at = "create" => made[u] = 0
    BY <1>1, <1>3 DEF UnnamedOnce
  <2>2. made[u] = 1 => \A s \in Server : table[s][u] # Absent =>
          \E c \in Caller : Committing(c, u) /\ call[c].at = "finish" /\ call[c].by = s
    BY <1>1, <1>3 DEF UnnamedOnce
  <2>3. made'[u] = 1 => \A s \in Server : table'[s][u] # Absent =>
          \E c \in Caller : Committing(c, u)' /\ call'[c].at = "finish" /\ call'[c].by = s
    BY <2>2
  <2> QED BY <2>1, <2>3 DEF UnnamedOnce
<1>4. CASE i # NoId
  <2>1. NamedOnce(u, i)'
    BY <1>1, <1>4 DEF NamedOnce
  <2> QED BY <1>2, <1>4, <2>1 DEF MadeOnce
<1> QED BY <1>3, <1>4

(* The daemon at work is the only one that knows of an upload.             *)
LEMMA OthersAreAbsent ==
    ASSUME LifecycleInv, StoreInv, NEW d \in Daemon, AtWork(d), NEW s \in Server, s # d,
           NEW u \in Upload
    PROVE  table[s][u] = Absent
BY OneAtWork, ServersAreDaemons DEF StoreInv, OnlyAtWork

(* begin: the upload is new to everyone.                                   *)
LEMMA BeginInv ==
    ASSUME LifecycleInv, StoreInv, NEW d \in Daemon, AtWork(d), UNCHANGED lifecycleVars,
           NEW u \in Upload, Begin(d, u)
    PROVE  StoreInv'
<1>1. StoreTypes /\ d \in Server
  BY ServersAreDaemons DEF StoreInv
<1>2. PICK b \in Begins : table' = [table EXCEPT ![d][u] = [at |-> "open", begin |-> b]]
  BY DEF Begin
<1> DEFINE e == [at |-> "open", begin |-> b]
<1>3. e \in Entry /\ e.at = "open" /\ e.begin = b
  BY DEF Entry
<1>entered. table' = [table EXCEPT ![d][u] = e]
  BY <1>2
<1> HIDE DEF e
<1>4. /\ table' \in [Server -> [Upload -> Entry]]
      /\ table'[d][u] = e
      /\ \A r \in Server : \A v \in Upload : r # d \/ v # u => table'[r][v] = table[r][v]
  BY <1>1, <1>3, <1>entered DEF StoreTypes
<1>5. Written(<<>>) \in UploadFile /\ Written(<<>>).at = "written" /\ Written(<<>>).bytes = <<>>
  BY EmptyPrefix DEF UploadFile, Written
<1>6. /\ file' \in [Upload -> UploadFile] /\ file'[u] = Written(<<>>)
      /\ \A v \in Upload : v # u => file'[v] = file[v]
  BY <1>1, <1>5 DEF Begin, StoreTypes
<1>7. file[u].at = "never"
  BY DEF Begin, Never
<1>8. UNCHANGED <<objects, heads, versions, call, made, overlap, unheard, fetched>>
  BY DEF Begin, entityVars, historyVars
<1>9. \A s \in Server : table[s][u] = Absent
  BY <1>7 DEF StoreInv, OnlyAtWork
<1>10. StoreTypes'
  BY <1>1, <1>4, <1>6, <1>8 DEF StoreTypes
<1>11. \A s \in Server : AtWork(s)' <=> AtWork(s)
  BY DEF AtWork, lifecycleVars
<1>12. \A c \in Caller : \A v \in Upload : Committing(c, v)' <=> Committing(c, v)
  BY <1>8 DEF Committing
<1>13. OnlyAtWork'
  <2>1. \A v \in Upload : file[v].at # "never" => file'[v].at # "never"
    BY <1>5, <1>6
  <2>2. ASSUME NEW s \in Server, NEW v \in Upload, table'[s][v] # Absent
        PROVE  AtWork(s)' /\ file'[v].at # "never"
    <3>1. CASE s = d /\ v = u
      BY <1>5, <1>6, <1>11, <3>1
    <3>2. CASE s # d \/ v # u
      BY <1>4, <1>11, <2>1, <2>2, <3>2 DEF StoreInv, OnlyAtWork
    <3> QED BY <3>1, <3>2
  <2>3. \A c \in Caller : (call[c] # Idle => AtWork(call[c].by))'
    BY <1>8 DEF StoreInv, OnlyAtWork, AtWork, lifecycleVars
  <2>4. \A c \in Caller : \A v \in Upload : Committing(c, v)' => file'[v].at # "never"
    BY <1>12, <2>1 DEF StoreInv, OnlyAtWork
  <2>5. \A v \in Upload : made'[v] > 0 => file'[v].at # "never"
    BY <1>8, <2>1 DEF StoreInv, OnlyAtWork
  <2> QED BY <2>2, <2>3, <2>4, <2>5 DEF OnlyAtWork
<1>14. UploadsKeepTheirFile'
  <2> SUFFICES ASSUME NEW s \in Server, NEW v \in Upload, table'[s][v].at = "open"
               PROVE  /\ Exists(v)'
                      /\ Len(file'[v].bytes) <= table'[s][v].begin.size
                      /\ file'[v].bytes = SubSeq(Bytes(table'[s][v].begin), 1, Len(file'[v].bytes))
    BY ServersAreDaemons DEF UploadsKeepTheirFile, UploadIsAPrefix
  <2>1. CASE v = u
    <3>1. s = d
      BY <1>4, <1>9, <2>1 DEF Absent
    <3>2. file'[v].at = "written" /\ file'[v].bytes = <<>> /\ table'[s][v].begin = b
      BY <1>3, <1>4, <1>5, <1>6, <2>1, <3>1
    <3>3. Len(<<>>) = 0 /\ SubSeq(Bytes(b), 1, Len(<<>>)) = <<>> /\ b.size \in Nat
      BY EmptyPrefix, BytesType
    <3>4. Len(<<>>) <= b.size
      BY <3>3
    <3> QED BY <3>2, <3>3, <3>4 DEF Exists
  <2>2. CASE v # u
    BY <1>4, <1>6, <2>2, ServersAreDaemons
       DEF StoreInv, UploadsKeepTheirFile, UploadIsAPrefix, Exists
  <2> QED BY <2>1, <2>2
<1>15. KeysArePlaced'
  BY <1>3, <1>4, <1>8, <1>12 DEF StoreInv, KeysArePlaced, ArtifactsHaveBytes
<1>16. DownloadsArePinned'
  BY <1>8, PinnedFrame DEF StoreInv, entityVars
<1>17. UploadsMakeOnce'
  <2> SUFFICES ASSUME NEW v \in Upload PROVE MadeOnce(v)'
    BY DEF UploadsMakeOnce
  <2>1. MadeOnce(v)
    BY DEF StoreInv, UploadsMakeOnce
  <2>2. CASE v = u
    <3>1. made[u] = 0 /\ \A c \in Caller : ~Committing(c, u)
      BY <1>1, <1>7 DEF StoreInv, OnlyAtWork, StoreTypes
    <3>2. b.id \in Artifact \cup {NoId}
      BY UploadsAnnounceFiles
    <3>3. OneId(u, b.id)'
      BY <1>3, <1>4, <1>9, <1>12, <3>1 DEF OneId
    <3>4. UnnamedOnce(u)' /\ NamedOnce(u, b.id)'
      BY <1>8, <1>12, <3>1 DEF UnnamedOnce, NamedOnce
    <3> QED BY <2>2, <3>2, <3>3, <3>4 DEF MadeOnce
  <2>3. CASE v # u
    BY <1>4, <1>8, <1>12, <2>1, <2>3, MadeFrame DEF Taken
  <2> QED BY <2>2, <2>3
<1> QED BY <1>10, <1>13, <1>14, <1>15, <1>16, <1>17 DEF StoreInv

(* append: the bytes of the file grow from one prefix to a longer one.     *)
LEMMA ChunkInv ==
    ASSUME LifecycleInv, StoreInv, NEW d \in Daemon, AtWork(d), UNCHANGED lifecycleVars,
           NEW u \in Upload, Chunk(d, u)
    PROVE  StoreInv'
<1>1. StoreTypes /\ d \in Server
  BY ServersAreDaemons DEF StoreInv
<1> DEFINE b == table[d][u].begin
           k == Bytes(b)
           n == Len(file[u].bytes)
<1>2. table[d][u].at = "open" /\ b \in Begins
  BY <1>1, EntryFacts DEF Chunk
<1>3. k \in Content /\ Len(k) = b.size /\ b.size \in Nat
  BY <1>2, BytesType
<1>4. PICK first \in 1..b.size : \E last \in first..b.size :
        /\ AppendHere(u, first - 1)
        /\ \E end \in first..last :
              file' = [file EXCEPT ![u].bytes = @ \o SubSeq(Bytes(b), first, end)]
  BY DEF Chunk
<1>5. PICK end \in first..b.size :
        file' = [file EXCEPT ![u].bytes = @ \o SubSeq(Bytes(b), first, end)]
  <2>1. PICK last \in first..b.size : \E end \in first..last :
          file' = [file EXCEPT ![u].bytes = @ \o SubSeq(Bytes(b), first, end)]
    BY <1>4
  <2>2. \A end \in first..last : end \in first..b.size
    BY <1>3
  <2> QED BY <2>1, <2>2
<1>6. /\ file[u] \in UploadFile /\ file[u].at = "written" /\ n \in Nat
      /\ n <= b.size /\ file[u].bytes = SubSeq(k, 1, n)
  <2>1. file[u] \in UploadFile /\ n \in Nat
    BY <1>1 DEF StoreTypes, UploadFile, Content
  <2>2. Exists(u)
    BY <1>2 DEF StoreInv, UploadsKeepTheirFile
  <2>3. n <= b.size /\ file[u].bytes = SubSeq(k, 1, n)
    BY <1>1, <1>2, <2>2 DEF StoreInv, UploadsKeepTheirFile, UploadIsAPrefix
  <2> QED BY <2>1, <2>2, <2>3 DEF Exists
<1>7. first = n + 1 /\ end \in (n + 1)..Len(k)
  BY <1>3, <1>4, <1>5, <1>6 DEF AppendHere
<1> DEFINE f == [file[u] EXCEPT !.bytes = SubSeq(k, 1, end)]
<1>8. /\ file[u].bytes \o SubSeq(k, first, end) = SubSeq(k, 1, end)
      /\ SubSeq(k, 1, end) \in Content /\ Len(SubSeq(k, 1, end)) = end
  BY <1>3, <1>6, <1>7, PrefixGrows
<1>9. file' = [file EXCEPT ![u] = f]
  BY <1>5, <1>8
<1>10. f \in UploadFile /\ f.at = "written" /\ f.bytes = SubSeq(k, 1, end)
  BY <1>6, <1>8 DEF UploadFile
<1> HIDE DEF f
<1>11. /\ file' \in [Upload -> UploadFile] /\ file'[u] = f
       /\ \A v \in Upload : v # u => file'[v] = file[v]
  BY <1>1, <1>9, <1>10 DEF StoreTypes
<1>12. UNCHANGED <<table, objects, heads, versions, call, made, overlap, unheard, fetched>>
  BY DEF Chunk, entityVars, historyVars
<1>13. StoreTypes'
  BY <1>1, <1>11, <1>12 DEF StoreTypes
<1>14. \A c \in Caller : \A v \in Upload : Committing(c, v)' <=> Committing(c, v)
  BY <1>12 DEF Committing
<1>15. OnlyAtWork'
  <2>1. \A v \in Upload : file[v].at # "never" => file'[v].at # "never"
    BY <1>10, <1>11
  <2> QED BY <1>12, <1>14, <2>1 DEF StoreInv, OnlyAtWork, AtWork, lifecycleVars
<1>16. UploadsKeepTheirFile'
  <2> SUFFICES ASSUME NEW s \in Server, NEW v \in Upload, table[s][v].at = "open"
               PROVE  /\ Exists(v)'
                      /\ Len(file'[v].bytes) <= table[s][v].begin.size
                      /\ file'[v].bytes = SubSeq(Bytes(table[s][v].begin), 1, Len(file'[v].bytes))
    BY <1>12, ServersAreDaemons DEF UploadsKeepTheirFile, UploadIsAPrefix
  <2>1. CASE v = u
    <3>1. s = d
      <4>1. table[s][u] # Absent
        BY <2>1 DEF Absent
      <4> QED BY <4>1, OthersAreAbsent
    <3>2. Len(f.bytes) = end /\ end <= b.size
      BY <1>3, <1>7, <1>8, <1>10
    <3> QED BY <1>8, <1>10, <1>11, <2>1, <3>1, <3>2 DEF Exists
  <2>2. CASE v # u
    BY <1>11, <2>2, ServersAreDaemons
       DEF StoreInv, UploadsKeepTheirFile, UploadIsAPrefix, Exists
  <2> QED BY <2>1, <2>2
<1>17. KeysArePlaced'
  BY <1>12, <1>14 DEF StoreInv, KeysArePlaced, ArtifactsHaveBytes
<1>18. DownloadsArePinned'
  BY <1>12, PinnedFrame DEF StoreInv, entityVars
<1>19. UploadsMakeOnce'
  BY <1>12, <1>14, MadeFrame DEF StoreInv, UploadsMakeOnce, Taken
<1> QED BY <1>13, <1>15, <1>16, <1>17, <1>18, <1>19 DEF StoreInv

(* commit, up to the engine: the bytes are placed, or were.                *)
LEMMA CommitInv ==
    ASSUME LifecycleInv, StoreInv, NEW d \in Daemon, AtWork(d), UNCHANGED lifecycleVars,
           NEW c \in Caller, NEW u \in Upload, Commit(d, c, u)
    PROVE  StoreInv'
<1>1. StoreTypes /\ d \in Server
  BY ServersAreDaemons DEF StoreInv
<1>2. /\ table' \in [Server -> [Upload -> Entry]]
      /\ table[d][u] # Absent /\ table'[d][u].at = "committed"
      /\ table'[d][u].begin = table[d][u].begin
      /\ table'[d][u].begin \in Begins /\ table'[d][u].key \in Content \cap objects'
      /\ \A r \in Server : \A v \in Upload : r # d \/ v # u => table'[r][v] = table[r][v]
      /\ objects \subseteq objects' /\ objects' \subseteq Content
      /\ file' \in [Upload -> UploadFile]
      /\ \A v \in Upload : v # u => file'[v] = file[v]
      /\ \A v \in Upload : file[v].at # "never" => file'[v].at # "never"
  <2>1. CASE /\ table[d][u].at = "open" /\ Placed(u)
             /\ table' = [table EXCEPT ![d][u] =
                   [at |-> "committed", begin |-> table[d][u].begin, key |-> file[u].bytes]]
    <3> DEFINE e == [at |-> "committed", begin |-> table[d][u].begin, key |-> file[u].bytes]
    <3>1. file[u].bytes \in Content /\ table[d][u].begin \in Begins /\ table[d][u] # Absent
      BY <1>1, <2>1, EntryFacts DEF StoreTypes, UploadFile, Absent
    <3>2. e \in Entry /\ e.at = "committed" /\ e.begin = table[d][u].begin /\ e.key = file[u].bytes
      BY <3>1 DEF Entry
    <3>3. table' = [table EXCEPT ![d][u] = e]
      BY <2>1
    <3> HIDE DEF e
    <3>4. /\ table' \in [Server -> [Upload -> Entry]] /\ table'[d][u] = e
          /\ \A r \in Server : \A v \in Upload : r # d \/ v # u => table'[r][v] = table[r][v]
      <4>1. e \in Entry
        BY <3>2
      <4> QED BY <1>1, <3>3, <4>1 DEF StoreTypes
    <3>5. Removed \in UploadFile /\ Removed.at = "removed"
      BY EmptyPrefix DEF Removed, UploadFile
    <3>6. /\ file' \in [Upload -> UploadFile] /\ file'[u] = Removed
          /\ \A v \in Upload : v # u => file'[v] = file[v]
      BY <1>1, <2>1, <3>5 DEF Placed, StoreTypes
    <3>7. objects' = objects \cup {file[u].bytes} /\ objects \subseteq Content
      BY <1>1, <2>1 DEF Placed, StoreTypes
    <3> QED BY <3>1, <3>2, <3>4, <3>5, <3>6, <3>7
  <2>2. CASE table[d][u].at = "committed" /\ UNCHANGED <<file, objects, table>>
    <3>1. table[d][u].begin \in Begins /\ table[d][u].key \in Content /\ table[d][u] # Absent
      BY <1>1, <2>2, EntryFacts DEF Absent
    <3>2. table[d][u].key \in objects
      BY <1>1, <2>2 DEF StoreInv, KeysArePlaced
    <3> QED BY <1>1, <2>2, <3>1, <3>2 DEF StoreTypes
  <2> QED BY <2>1, <2>2 DEF Commit
<1> DEFINE r == [at |-> "create", by |-> d, upload |-> u, id |-> table'[d][u].begin.id,
                 key |-> table'[d][u].key]
<1>3. /\ r \in Request /\ r.at = "create" /\ r.by = d /\ r.upload = u /\ r # Idle
      /\ r.key \in objects' /\ r.id = table[d][u].begin.id
  <2>1. table'[d][u].begin.id \in Artifact \cup {NoId}
    BY <1>2, UploadsAnnounceFiles
  <2> QED BY <1>1, <1>2, <2>1 DEF Request, Idle
<1>4. call' = [call EXCEPT ![c] = r]
  BY DEF Commit
<1> HIDE DEF r
<1>5. /\ call' \in [Caller -> Request] /\ call'[c] = r
      /\ \A b \in Caller : b # c => call'[b] = call[b]
  BY <1>1, <1>3, <1>4, RequestChanges
<1>6. /\ overlap' = overlap \cup {v \in {u} : /\ call'[c].id = NoId
                                             /\ \E b \in Caller : Committing(b, u)}
      /\ UNCHANGED <<heads, versions, made, unheard, fetched>> /\ call[c].at = "idle"
  BY DEF Commit, entityVars, Idle
<1>7. StoreTypes'
  BY <1>1, <1>2, <1>5, <1>6 DEF StoreTypes
<1>8. \A v \in Upload : ~Committing(c, v)
  BY <1>6 DEF Committing
<1>9. \A b \in Caller : \A v \in Upload :
        Committing(b, v)' <=> IF b = c THEN v = u ELSE Committing(b, v)
  BY <1>3, <1>5 DEF Committing
<1>10. file[u].at # "never"
  BY <1>1, <1>2 DEF StoreInv, OnlyAtWork
<1>11. OnlyAtWork'
  <2>1. ASSUME NEW s \in Server, NEW v \in Upload, table'[s][v] # Absent
        PROVE  AtWork(s)' /\ file'[v].at # "never"
    <3>1. AtWork(s) /\ file[v].at # "never"
      BY <1>1, <1>2, <2>1 DEF StoreInv, OnlyAtWork
    <3> QED BY <1>2, <3>1 DEF AtWork, lifecycleVars
  <2>2. ASSUME NEW b \in Caller, call'[b] # Idle PROVE AtWork(call[b].by)'
    <3>1. AtWork(call'[b].by)
      BY <1>3, <1>5, <2>2 DEF StoreInv, OnlyAtWork
    <3> QED BY <3>1 DEF AtWork, lifecycleVars
  <2>3. \A b \in Caller : \A v \in Upload : Committing(b, v)' => file'[v].at # "never"
    BY <1>2, <1>9, <1>10 DEF StoreInv, OnlyAtWork
  <2>4. \A v \in Upload : made'[v] > 0 => file'[v].at # "never"
    BY <1>2, <1>6 DEF StoreInv, OnlyAtWork
  <2> QED BY <2>1, <2>2, <2>3, <2>4 DEF OnlyAtWork
<1>12. UploadsKeepTheirFile'
  <2> SUFFICES ASSUME NEW s \in Server, NEW v \in Upload, table'[s][v].at = "open"
               PROVE  /\ Exists(v)'
                      /\ Len(file'[v].bytes) <= table'[s][v].begin.size
                      /\ file'[v].bytes = SubSeq(Bytes(table'[s][v].begin), 1, Len(file'[v].bytes))
    BY ServersAreDaemons DEF UploadsKeepTheirFile, UploadIsAPrefix
  <2>1. CASE v = u
    <3>1. s # d
      BY <1>2, <2>1
    <3>2. table[s][u] = Absent
      BY <3>1, OthersAreAbsent
    <3> QED BY <1>2, <2>1, <3>1, <3>2 DEF Absent
  <2>2. CASE v # u
    BY <1>2, <2>2, ServersAreDaemons
       DEF StoreInv, UploadsKeepTheirFile, UploadIsAPrefix, Exists
  <2> QED BY <2>1, <2>2
<1>13. KeysArePlaced'
  <2>1. \A s \in Server : \A v \in Upload :
          table'[s][v].at = "committed" => table'[s][v].key \in objects'
    BY <1>2 DEF StoreInv, KeysArePlaced
  <2>2. \A b \in Caller : \A v \in Upload : Committing(b, v)' => call'[b].key \in objects'
    BY <1>2, <1>3, <1>5, <1>9 DEF StoreInv, KeysArePlaced
  <2>3. ArtifactsHaveBytes'
    BY <1>2, <1>6 DEF StoreInv, KeysArePlaced, ArtifactsHaveBytes
  <2> QED BY <2>1, <2>2, <2>3 DEF KeysArePlaced
<1>14. DownloadsArePinned'
  <2>1. \A b \in Caller : call'[b].at = "download" => call'[b] = call[b]
    BY <1>3, <1>5
  <2> QED BY <1>2, <1>6, <2>1 DEF StoreInv, DownloadsArePinned, DownloadsAreWhole
<1>15. UploadsMakeOnce'
  <2> SUFFICES ASSUME NEW v \in Upload PROVE MadeOnce(v)'
    BY DEF UploadsMakeOnce
  <2>1. MadeOnce(v)
    BY DEF StoreInv, UploadsMakeOnce
  <2>2. CASE v # u
    <3>1. \A b \in Caller : /\ Committing(b, v)' <=> Committing(b, v)
                            /\ Committing(b, v) => call'[b] = call[b]
      BY <1>5, <1>8, <1>9, <2>2
    <3>2. \A s \in Server : table'[s][v] = table[s][v]
      BY <1>2, <2>2
    <3> QED BY <1>6, <2>1, <3>1, <3>2, MadeFrame DEF Taken
  <2>3. CASE v = u
    <3>1. PICK i \in Artifact \cup {NoId} :
            OneId(u, i) /\ IF i = NoId THEN UnnamedOnce(u) ELSE NamedOnce(u, i)
      BY <2>1, <2>3 DEF MadeOnce
    <3>2. r.id = i
      BY <1>1, <1>2, <1>3, <3>1 DEF OneId
    <3>3. OneId(u, i)'
      <4>1. \A b \in Caller : Committing(b, u)' => call'[b].id = i
        BY <1>5, <1>9, <3>1, <3>2 DEF OneId
      <4>2. \A s \in Server : table'[s][u] # Absent =>
              table[s][u] # Absent /\ table'[s][u].begin = table[s][u].begin
        BY <1>1, <1>2
      <4> QED BY <3>1, <4>1, <4>2 DEF OneId
    <3>4. CASE i # NoId
      <4>1. NamedOnce(u, i)'
        BY <1>6, <3>1, <3>4 DEF NamedOnce, Taken
      <4> QED BY <2>3, <3>3, <3>4, <4>1 DEF MadeOnce
    <3>5. CASE i = NoId
      <4> SUFFICES ASSUME u \notin overlap' \cup unheard' PROVE UnnamedOnce(u)'
        BY <2>3, <3>3, <3>5 DEF MadeOnce, UnnamedOnce
      <4>1. u \notin overlap \cup unheard /\ \A b \in Caller : ~Committing(b, u)
        BY <1>5, <1>6, <3>2, <3>5
      <4>2. made[u] = 0
        <5>1. made[u] \in Nat /\ made[u] <= 1
          BY <1>1, <3>1, <3>5, <4>1 DEF UnnamedOnce, StoreTypes
        <5>2. made[u] # 1
          BY <1>1, <1>2, <3>1, <3>5, <4>1 DEF UnnamedOnce
        <5> QED BY <5>1, <5>2
      <4>3. \A b \in Caller : Committing(b, u)' => b = c
        BY <1>9, <4>1
      <4> QED BY <1>6, <4>2, <4>3 DEF UnnamedOnce
    <3> QED BY <3>4, <3>5
  <2> QED BY <2>2, <2>3
<1> QED BY <1>7, <1>11, <1>12, <1>13, <1>14, <1>15 DEF StoreInv

-----------------------------------------------------------------------------
(* A new version is one nobody has pinned, and no other head has it.       *)
LEMMA NewVersion ==
    ASSUME StoreInv, NEW new \in ArtifactHead, new.version = versions + 1,
           versions < MaxVersions, versions' = versions + 1,
           heads' \subseteq heads \cup {new}, new.active => new.key \in objects,
           UNCHANGED <<objects, fetched>>,
           \A c \in Caller : call'[c].at = "download" => call'[c] = call[c]
    PROVE  /\ heads' \subseteq ArtifactHead /\ versions' \in 0..MaxVersions
           /\ \A h \in heads' : h.version \in 1..versions'
           /\ ArtifactsHaveBytes' /\ DownloadsArePinned'
<1>1. StoreTypes /\ DownloadsArePinned /\ ArtifactsHaveBytes
  BY DEF StoreInv, KeysArePlaced
<1>2. versions \in Nat /\ versions' \in 0..MaxVersions
  BY <1>1, VersionsAreBounded DEF StoreTypes
<1>3. /\ heads' \subseteq ArtifactHead
      /\ \A h \in heads : h.version \in 1..versions
  BY <1>1 DEF StoreTypes
<1>4. \A h \in heads' : h.version \in 1..versions'
  BY <1>2, <1>3
<1>5. ArtifactsHaveBytes'
  BY <1>1 DEF ArtifactsHaveBytes
<1>6. \A h \in heads : h.version # versions + 1
  BY <1>2, <1>3
<1>7. \A g, h \in heads' : g.version = h.version => g = h
  BY <1>1, <1>6 DEF DownloadsArePinned
<1>8. ASSUME NEW c \in Caller, call'[c].at = "download"
      PROVE  /\ call'[c].version <= versions'
             /\ call'[c].version = NoVersion => call'[c].got = <<>>
             /\ \A h \in heads' : h.version = call'[c].version =>
                   /\ Len(call'[c].got) < Len(h.key)
                   /\ call'[c].got = SubSeq(h.key, 1, Len(call'[c].got))
  <2>1. call'[c] = call[c] /\ call[c].version \in Nat
    BY <1>1, <1>8, RequestFacts
  <2>2. /\ call[c].version <= versions
        /\ call[c].version = NoVersion => call[c].got = <<>>
        /\ \A h \in heads : h.version = call[c].version =>
              /\ Len(call[c].got) < Len(h.key)
              /\ call[c].got = SubSeq(h.key, 1, Len(call[c].got))
    BY <1>1, <1>8, <2>1 DEF DownloadsArePinned
  <2>3. call[c].version # versions + 1 /\ call[c].version <= versions'
    BY <1>2, <2>1, <2>2
  <2> QED BY <2>1, <2>2, <2>3
<1>9. DownloadsAreWhole'
  BY <1>1 DEF DownloadsArePinned, DownloadsAreWhole
<1> QED BY <1>2, <1>3, <1>4, <1>5, <1>7, <1>8, <1>9 DEF DownloadsArePinned

(* engine.create makes the entity; the request goes on to forget the       *)
(* upload, or ends with an error that leaves it where it is.               *)
LEMMA MakesInv ==
    ASSUME LifecycleInv, StoreInv, UNCHANGED lifecycleVars, NEW c \in Caller, Makes(c),
           NEW r, r = Idle \/ r = [call[c] EXCEPT !.at = "finish"],
           call' = [call EXCEPT ![c] = r],
           UNCHANGED <<file, table, objects, overlap, fetched>>,
           unheard \subseteq unheard', unheard' \subseteq Upload,
           r = Idle /\ call[c].id = NoId => call[c].upload \in unheard'
    PROVE  StoreInv'
<1>1. StoreTypes /\ call[c].at = "create"
  BY DEF StoreInv, Makes
<1>2. call[c] \in [at : {"create", "finish"}, by : Server, upload : Upload,
                   id : Artifact \cup {NoId}, key : Content]
  BY <1>1, RequestFacts
<1>3. PICK u \in Upload : u = call[c].upload
  BY <1>2
<1>4. PICK i \in Artifact :
        /\ i \notin Taken /\ (call[c].id # NoId => i = call[c].id)
        /\ heads' = heads \cup {[id |-> i, version |-> versions + 1, active |-> TRUE,
                                 key |-> call[c].key]}
  BY <1>2 DEF Makes
<1> DEFINE new == [id |-> i, version |-> versions + 1, active |-> TRUE, key |-> call[c].key]
<1>5. Idle.at = "idle" /\ Idle \in Request
  BY DEF Idle, Request
<1>6. /\ r \in Request /\ r.at \in {"idle", "finish"}
      /\ r # Idle => /\ r.at = "finish" /\ r.by = call[c].by /\ r.upload = u
                     /\ r.key = call[c].key /\ r.id = call[c].id
  <2>1. CASE r = Idle
    BY <1>5, <2>1
  <2>2. CASE r = [call[c] EXCEPT !.at = "finish"]
    BY <1>2, <1>3, <2>2 DEF Request
  <2> QED BY <2>1, <2>2
<1>8. /\ call' \in [Caller -> Request] /\ call'[c] = r
      /\ \A b \in Caller : b # c => call'[b] = call[b]
  BY <1>1, <1>6, RequestChanges
<1>9. /\ versions < MaxVersions /\ versions' = versions + 1
      /\ made' = [made EXCEPT ![u] = @ + 1]
  BY <1>3 DEF Makes
<1>10. /\ made' \in [Upload -> Nat] /\ made'[u] = made[u] + 1
       /\ \A v \in Upload : v # u => made'[v] = made[v]
  BY <1>1, <1>9 DEF StoreTypes
<1>11. Committing(c, u) /\ call[c].key \in objects
  BY <1>1, <1>3 DEF StoreInv, KeysArePlaced, Committing
<1>12. new \in ArtifactHead /\ new.version = versions + 1 /\ new.key = call[c].key
  BY <1>1, <1>2 DEF ArtifactHead, StoreTypes
<1>13. \A b \in Caller : \A v \in Upload :
         Committing(b, v)' <=> Committing(b, v) /\ (b = c => r # Idle)
  <2>1. ASSUME NEW v \in Upload PROVE Committing(c, v)' <=> Committing(c, v) /\ r # Idle
    BY <1>1, <1>3, <1>5, <1>6, <1>8 DEF Committing
  <2>2. ASSUME NEW b \in Caller, NEW v \in Upload, b # c
        PROVE  Committing(b, v)' <=> Committing(b, v)
    BY <1>8, <2>2 DEF Committing
  <2> QED BY <2>1, <2>2
<1>14. heads' = heads \cup {new} /\ new.id = i
  BY <1>4
<1> HIDE DEF new
<1>15. /\ heads' \subseteq ArtifactHead /\ versions' \in 0..MaxVersions
       /\ \A h \in heads' : h.version \in 1..versions'
       /\ ArtifactsHaveBytes' /\ DownloadsArePinned'
  <2>1. \A b \in Caller : call'[b].at = "download" => call'[b] = call[b]
    BY <1>6, <1>8
  <2> QED BY <1>9, <1>11, <1>12, <1>14, <2>1, NewVersion
<1>16. StoreTypes'
  BY <1>1, <1>8, <1>9, <1>10, <1>15 DEF StoreTypes
<1>17. OnlyAtWork'
  <2>1. \A s \in Server : \A v \in Upload :
          (table[s][v] # Absent => AtWork(s) /\ file[v].at # "never")'
    BY DEF StoreInv, OnlyAtWork, AtWork, lifecycleVars
  <2>2. ASSUME NEW b \in Caller, call'[b] # Idle PROVE AtWork(call[b].by)'
    <3>1. AtWork(call'[b].by)
      BY <1>1, <1>6, <1>8, <2>2 DEF StoreInv, OnlyAtWork, Idle
    <3> QED BY <3>1 DEF AtWork, lifecycleVars
  <2>3. \A b \in Caller : \A v \in Upload : Committing(b, v)' => file'[v].at # "never"
    BY <1>13 DEF StoreInv, OnlyAtWork
  <2>4. \A v \in Upload : made'[v] > 0 => file'[v].at # "never"
    BY <1>10, <1>11 DEF StoreInv, OnlyAtWork
  <2> QED BY <2>1, <2>2, <2>3, <2>4 DEF OnlyAtWork
<1>18. UploadsKeepTheirFile'
  BY DEF StoreInv, UploadsKeepTheirFile, UploadIsAPrefix, Exists
<1>19. KeysArePlaced'
  <2>1. \A b \in Caller : \A v \in Upload : Committing(b, v)' => call'[b].key \in objects'
    BY <1>6, <1>8, <1>13 DEF StoreInv, KeysArePlaced
  <2> QED BY <1>15, <2>1 DEF StoreInv, KeysArePlaced
<1>20. UploadsMakeOnce'
  <2> SUFFICES ASSUME NEW v \in Upload PROVE MadeOnce(v)'
    BY DEF UploadsMakeOnce
  <2>1. MadeOnce(v)
    BY DEF StoreInv, UploadsMakeOnce
  <2>2. Taken' = Taken \cup {i}
    BY <1>14 DEF Taken
  <2>3. CASE v # u
    <3>1. \A b \in Caller : Committing(b, v) => b # c
      BY <1>3, <2>3 DEF Committing
    <3> QED BY <1>8, <1>10, <1>13, <2>1, <2>2, <2>3, <3>1, MadeFrame
  <2>4. CASE v = u
    <3>1. PICK j \in Artifact \cup {NoId} :
            OneId(u, j) /\ IF j = NoId THEN UnnamedOnce(u) ELSE NamedOnce(u, j)
      BY <2>1, <2>4 DEF MadeOnce
    <3>2. call[c].id = j
      BY <1>11, <3>1 DEF OneId
    <3>3. OneId(u, j)'
      <4>1. \A b \in Caller : Committing(b, u)' => call'[b].id = j
        BY <1>6, <1>8, <1>13, <3>1, <3>2 DEF OneId
      <4> QED BY <3>1, <4>1 DEF OneId
    <3>4. CASE j # NoId
      <4>1. made[u] = 0
        BY <1>1, <1>4, <3>1, <3>2, <3>4 DEF NamedOnce, StoreTypes
      <4>2. made'[u] = 1 /\ j \in Taken'
        BY <1>4, <1>10, <2>2, <3>2, <3>4, <4>1
      <4>3. NamedOnce(u, j)'
        BY <4>2 DEF NamedOnce
      <4> QED BY <2>4, <3>3, <3>4, <4>3 DEF MadeOnce
    <3>5. CASE j = NoId /\ u \in overlap' \cup unheard'
      BY <2>4, <3>3, <3>5 DEF MadeOnce, UnnamedOnce
    <3>6. CASE j = NoId /\ u \notin overlap' \cup unheard'
      <4>1. u \notin overlap \cup unheard /\ r # Idle
        BY <1>3, <3>2, <3>6
      <4>2. /\ \A b \in Caller : Committing(b, u) => b = c
            /\ made[u] = 0
        BY <1>1, <1>11, <3>1, <3>6, <4>1 DEF UnnamedOnce
      <4>3. made'[u] <= 1
        BY <1>10, <4>2
      <4>4. \A b \in Caller : Committing(b, u)' => b = c /\ call'[b].at = "finish"
        BY <1>6, <1>8, <1>13, <4>1, <4>2
      <4>5. ASSUME NEW s \in Server, table'[s][u] # Absent
            PROVE  Committing(c, u)' /\ call'[c].at = "finish" /\ call'[c].by = s
        <5>1. AtWork(s)
          BY <4>5 DEF StoreInv, OnlyAtWork
        <5>2. AtWork(call[c].by) /\ call[c].by \in Server
          BY <1>1, <1>2 DEF StoreInv, OnlyAtWork, Idle
        <5>3. s = call[c].by
          BY <5>1, <5>2, OneAtWork, ServersAreDaemons
        <5> QED BY <1>6, <1>8, <1>11, <1>13, <4>1, <5>3
      <4>6. UnnamedOnce(u)'
        BY <4>3, <4>4, <4>5 DEF UnnamedOnce
      <4> QED BY <2>4, <3>3, <3>6, <4>6 DEF MadeOnce
    <3> QED BY <3>4, <3>5, <3>6
  <2> QED BY <2>3, <2>4
<1> QED BY <1>15, <1>16, <1>17, <1>18, <1>19, <1>20 DEF StoreInv

(* The engine answers with the entity, or with an error.                   *)
LEMMA CreateInv ==
    ASSUME LifecycleInv, StoreInv, UNCHANGED lifecycleVars, NEW c \in Caller,
           Create(c) \/ CreateUnheard(c)
    PROVE  StoreInv'
<1>1. unheard \subseteq Upload /\ call \in [Caller -> Request]
  BY DEF StoreInv, StoreTypes
<1>2. Makes(c)
  BY DEF Create, CreateUnheard
<1>3. call[c].upload \in Upload
  BY <1>2, RequestFacts DEF Makes, StoreInv
<1>4. CASE Create(c)
  <2> DEFINE r == [call[c] EXCEPT !.at = "finish"]
  <2>1. call' = [call EXCEPT ![c] = r] /\ r # Idle
    BY <1>1, <1>2, <1>4 DEF Create, Makes, Idle, Request
  <2> QED BY <1>1, <1>2, <1>4, <2>1, MakesInv DEF Create
<1>5. CASE CreateUnheard(c)
  <2>1. /\ call' = [call EXCEPT ![c] = Idle]
        /\ unheard \subseteq unheard' /\ unheard' \subseteq Upload
        /\ call[c].id = NoId => call[c].upload \in unheard'
        /\ UNCHANGED <<file, table, objects, overlap, fetched>>
    BY <1>1, <1>3, <1>5 DEF CreateUnheard
  <2> QED BY <1>2, <2>1, MakesInv
<1> QED BY <1>4, <1>5

(* A request that has not created an entity ends, with or without content. *)
LEMMA RequestEnds ==
    ASSUME StoreInv, UNCHANGED lifecycleVars, NEW c \in Caller, call[c].at # "finish",
           call' = [call EXCEPT ![c] = Idle], fetched' \subseteq objects,
           UNCHANGED <<file, table, objects, entityVars, made, overlap, unheard>>
    PROVE  StoreInv'
<1>1. StoreTypes
  BY DEF StoreInv
<1>2. Idle \in Request /\ Idle.at = "idle"
  BY DEF Request, Idle
<1>3. /\ call' \in [Caller -> Request] /\ call'[c] = Idle
      /\ \A b \in Caller : b # c => call'[b] = call[b]
  BY <1>1, <1>2, RequestChanges
<1>4. \A b \in Caller : call'[b] # Idle => call'[b] = call[b]
  BY <1>3
<1>5. \A b \in Caller : \A u \in Upload :
        Committing(b, u)' <=> Committing(b, u) /\ b # c
  BY <1>2, <1>3 DEF Committing
<1>6. UNCHANGED <<heads, versions>>
  BY DEF entityVars
<1>7. StoreTypes'
  BY <1>1, <1>3, <1>6 DEF StoreTypes
<1>8. OnlyAtWork'
  BY <1>4, <1>5 DEF StoreInv, OnlyAtWork, AtWork, lifecycleVars
<1>9. UploadsKeepTheirFile'
  BY DEF StoreInv, UploadsKeepTheirFile, UploadIsAPrefix, Exists
<1>10. KeysArePlaced'
  BY <1>3, <1>5, <1>6 DEF StoreInv, KeysArePlaced, ArtifactsHaveBytes
<1>11. DownloadsArePinned'
  <2>1. \A b \in Caller : call'[b].at = "download" => call'[b] = call[b]
    BY <1>2, <1>3
  <2> QED BY <1>6, <2>1 DEF StoreInv, DownloadsArePinned, DownloadsAreWhole
<1>12. UploadsMakeOnce'
  <2> SUFFICES ASSUME NEW u \in Upload PROVE MadeOnce(u)'
    BY DEF UploadsMakeOnce
  <2>1. MadeOnce(u)
    BY DEF StoreInv, UploadsMakeOnce
  <2>2. \A b \in Caller : Committing(b, u) /\ call[b].at = "finish" =>
          Committing(b, u)' /\ call'[b] = call[b]
    BY <1>3, <1>5
  <2>3. \A b \in Caller : Committing(b, u)' => Committing(b, u) /\ call'[b] = call[b]
    BY <1>3, <1>5
  <2> QED BY <1>6, <2>1, <2>2, <2>3, MadeFrame DEF Taken
<1> QED BY <1>7, <1>8, <1>9, <1>10, <1>11, <1>12 DEF StoreInv

(* A chunk of a download: the bytes got are the start of the content of    *)
(* the version that is now pinned, or all of it.                           *)
LEMMA FetchChunkInv ==
    ASSUME StoreInv, UNCHANGED lifecycleVars, NEW c \in Caller, FetchChunk(c)
    PROVE  StoreInv'
<1>1. StoreTypes /\ call[c].at = "download"
  BY DEF StoreInv, FetchChunk
<1>2. call[c] \in [at : {"download"}, by : Server, id : Artifact, version : Nat, got : Content]
  BY <1>1, RequestFacts
<1> DEFINE got == call[c].got
           offset == Len(got)
           more(h) == IF offset < Len(h.key) THEN Append(got, h.key[offset + 1]) ELSE got
<1>3. PICK h \in Selected(c) :
        /\ offset <= Len(h.key)
        /\ \/ /\ Len(more(h)) = Len(h.key)
              /\ fetched' = {more(h)}
              /\ call' = [call EXCEPT ![c] = Idle]
           \/ /\ Len(more(h)) < Len(h.key)
              /\ call' = [call EXCEPT ![c].got = more(h), ![c].version = h.version]
              /\ UNCHANGED fetched
  BY DEF FetchChunk
<1>4. UNCHANGED <<file, table, objects, entityVars, made, overlap, unheard>>
  BY DEF FetchChunk
<1>5. h \in heads /\ h.active /\ (call[c].version = NoVersion \/ h.version = call[c].version)
  BY <1>3 DEF Selected, Active
<1>6. /\ h \in ArtifactHead /\ h.key \in Content /\ h.version \in 1..versions
      /\ versions \in Nat /\ h.version \in Nat /\ h.version # NoVersion
  BY <1>1, <1>5, VersionsAreBounded DEF StoreTypes, ArtifactHead, NoVersion
<1>7. h.key \in objects
  BY <1>5 DEF StoreInv, KeysArePlaced, ArtifactsHaveBytes
<1>8. got \in Content /\ offset \in Nat /\ Len(h.key) \in Nat
  BY <1>2, <1>6 DEF Content
<1>9. got = SubSeq(h.key, 1, offset)
  <2>1. CASE call[c].version = NoVersion
    <3>1. got = <<>>
      BY <1>1, <2>1 DEF StoreInv, DownloadsArePinned
    <3> QED BY <3>1, EmptyPrefix
  <2>2. CASE h.version = call[c].version
    BY <1>1, <1>5, <2>2 DEF StoreInv, DownloadsArePinned
  <2> QED BY <1>5, <2>1, <2>2
<1>10. more(h) \in Content /\ more(h) = SubSeq(h.key, 1, Len(more(h)))
  <2>1. CASE offset < Len(h.key)
    <3>1. more(h) = Append(got, h.key[offset + 1])
      BY <2>1
    <3>2. /\ Append(got, h.key[offset + 1]) \in Content
          /\ Len(Append(got, h.key[offset + 1])) = offset + 1
          /\ Append(got, h.key[offset + 1]) = SubSeq(h.key, 1, offset + 1)
      BY <1>6, <1>8, <1>9, <2>1, PrefixAppends
    <3> QED BY <3>1, <3>2
  <2>2. CASE ~(offset < Len(h.key))
    <3>1. more(h) = got
      BY <2>2
    <3> QED BY <1>8, <1>9, <3>1
  <2> QED BY <2>1, <2>2
<1>11. PICK have : have = more(h)
  OBVIOUS
<1>12. CASE Len(have) = Len(h.key) /\ fetched' = {have} /\ call' = [call EXCEPT ![c] = Idle]
  <2>1. have = h.key
    BY <1>6, <1>10, <1>11, <1>12, PrefixIsWhole
  <2>2. fetched' \subseteq objects
    BY <1>7, <1>12, <2>1
  <2> QED BY <1>1, <1>4, <1>12, <2>2, RequestEnds
<1>13. CASE /\ Len(have) < Len(h.key) /\ UNCHANGED fetched
            /\ call' = [call EXCEPT ![c].got = have, ![c].version = h.version]
  <2> DEFINE r == [call[c] EXCEPT !.got = have, !.version = h.version]
  <2>1. /\ r \in Request /\ r.at = "download" /\ r.by = call[c].by /\ r # Idle
        /\ r.got = have /\ r.version = h.version
    BY <1>2, <1>6, <1>10, <1>11 DEF Request, Idle
  <2>2. call' = [call EXCEPT ![c] = r]
    BY <1>13
  <2> HIDE DEF r
  <2>3. /\ call' \in [Caller -> Request] /\ call'[c] = r
        /\ \A b \in Caller : b # c => call'[b] = call[b]
    BY <1>1, <2>1, <2>2, RequestChanges
  <2>4. UNCHANGED <<heads, versions>>
    BY <1>4 DEF entityVars
  <2>5. StoreTypes'
    BY <1>1, <1>4, <1>13, <2>3, <2>4 DEF StoreTypes
  <2>6. \A b \in Caller : \A u \in Upload :
          /\ Committing(b, u)' <=> Committing(b, u)
          /\ Committing(b, u) => call'[b] = call[b]
    BY <1>1, <2>1, <2>3 DEF Committing
  <2>7. OnlyAtWork'
    <3>1. \A b \in Caller : call'[b] # Idle => call[b] # Idle /\ call'[b].by = call[b].by
      BY <1>1, <2>1, <2>3 DEF Idle
    <3> QED BY <1>4, <2>6, <3>1 DEF StoreInv, OnlyAtWork, AtWork, lifecycleVars
  <2>8. UploadsKeepTheirFile'
    BY <1>4 DEF StoreInv, UploadsKeepTheirFile, UploadIsAPrefix, Exists
  <2>9. KeysArePlaced'
    BY <1>4, <2>4, <2>6 DEF StoreInv, KeysArePlaced, ArtifactsHaveBytes
  <2>10. DownloadsArePinned'
    <3>1. \A f, g \in heads : f.version = g.version => f = g
      BY DEF StoreInv, DownloadsArePinned
    <3>2. h.version <= versions
      BY <1>6
    <3>3. ASSUME NEW b \in Caller, call'[b].at = "download"
          PROVE  /\ call'[b].version <= versions
                 /\ call'[b].version = NoVersion => call'[b].got = <<>>
                 /\ \A g \in heads : g.version = call'[b].version =>
                       /\ Len(call'[b].got) < Len(g.key)
                       /\ call'[b].got = SubSeq(g.key, 1, Len(call'[b].got))
      <4>1. CASE b = c
        <5>1. call'[b].got = have /\ call'[b].version = h.version
          BY <2>1, <2>3, <4>1
        <5>2. Len(have) < Len(h.key) /\ have = SubSeq(h.key, 1, Len(have))
          BY <1>10, <1>11, <1>13
        <5>3. \A g \in heads : g.version = h.version => g = h
          BY <1>5, <3>1
        <5>4. call'[b].version <= versions /\ call'[b].version # NoVersion
          BY <1>6, <3>2, <5>1
        <5> QED BY <5>1, <5>2, <5>3, <5>4
      <4>2. CASE b # c
        BY <2>3, <3>3, <4>2 DEF StoreInv, DownloadsArePinned
      <4> QED BY <4>1, <4>2
    <3>4. DownloadsAreWhole'
      BY <1>4, <1>13 DEF StoreInv, DownloadsArePinned, DownloadsAreWhole
    <3> QED BY <2>4, <3>1, <3>3, <3>4 DEF DownloadsArePinned
  <2>11. UploadsMakeOnce'
    BY <1>4, <2>4, <2>6, MadeFrame DEF StoreInv, UploadsMakeOnce, Taken
  <2> QED BY <2>5, <2>7, <2>8, <2>9, <2>10, <2>11 DEF StoreInv
<1> QED BY <1>3, <1>11, <1>12, <1>13

(* finish: the daemon forgets the upload that has made its entity.         *)
LEMMA FinishInv ==
    ASSUME LifecycleInv, StoreInv, UNCHANGED lifecycleVars, NEW c \in Caller, Finish(c)
    PROVE  StoreInv'
<1>1. StoreTypes /\ call[c].at = "finish"
  BY DEF StoreInv, Finish
<1>2. call[c] \in [at : {"create", "finish"}, by : Server, upload : Upload,
                   id : Artifact \cup {NoId}, key : Content]
  BY <1>1, RequestFacts
<1>3. PICK u \in Upload, d \in Server : u = call[c].upload /\ d = call[c].by
  BY <1>2
<1>4. Absent \in Entry /\ Absent.at = "absent" /\ Idle \in Request /\ Idle.at = "idle"
  BY DEF Entry, Absent, Request, Idle
<1>5. /\ table' \in [Server -> [Upload -> Entry]] /\ table'[d][u] = Absent
      /\ \A r \in Server : \A v \in Upload : r # d \/ v # u => table'[r][v] = table[r][v]
  <2>1. table' = [table EXCEPT ![d][u] = Absent]
    BY <1>3 DEF Finish
  <2>2. StoreTypes /\ Absent \in Entry
    BY <1>1, <1>4
  <2> QED BY <2>1, <2>2 DEF StoreTypes
<1>6. /\ call' \in [Caller -> Request] /\ call'[c] = Idle
      /\ \A b \in Caller : b # c => call'[b] = call[b]
  <2>1. call' = [call EXCEPT ![c] = Idle]
    BY DEF Finish
  <2> QED BY <1>1, <1>4, <2>1, RequestChanges
<1>7. UNCHANGED <<file, objects, heads, versions, made, overlap, unheard, fetched>>
  BY DEF Finish, entityVars, historyVars
<1>8. AtWork(d) /\ d \in Daemon
  BY <1>1, <1>3, ServersAreDaemons DEF StoreInv, OnlyAtWork, Idle
<1>9. \A s \in Server : s # d => \A v \in Upload : table[s][v] = Absent
  BY <1>8, OthersAreAbsent
<1>10. \A b \in Caller : \A v \in Upload :
         Committing(b, v)' <=> Committing(b, v) /\ b # c
  BY <1>4, <1>6 DEF Committing
<1>11. StoreTypes'
  BY <1>1, <1>5, <1>6, <1>7 DEF StoreTypes
<1>12. \A s \in Server : \A v \in Upload : table'[s][v] # Absent => table'[s][v] = table[s][v]
  BY <1>5
<1>13. OnlyAtWork'
  <2>1. \A b \in Caller : call'[b] # Idle => call'[b] = call[b]
    BY <1>6
  <2> QED BY <1>7, <1>10, <1>12, <2>1 DEF StoreInv, OnlyAtWork, AtWork, lifecycleVars
<1>14. UploadsKeepTheirFile'
  <2>1. \A s \in Server : \A v \in Upload :
          table'[s][v].at = "open" => table'[s][v] = table[s][v]
    BY <1>4, <1>5
  <2> QED BY <1>7, <2>1, ServersAreDaemons
      DEF StoreInv, UploadsKeepTheirFile, UploadIsAPrefix, Exists
<1>15. KeysArePlaced'
  <2>1. \A s \in Server : \A v \in Upload :
          table'[s][v].at = "committed" => table'[s][v] = table[s][v]
    BY <1>4, <1>5
  <2> QED BY <1>6, <1>7, <1>10, <2>1 DEF StoreInv, KeysArePlaced, ArtifactsHaveBytes
<1>16. DownloadsArePinned'
  <2>1. \A b \in Caller : call'[b].at = "download" => call'[b] = call[b]
    BY <1>4, <1>6
  <2> QED BY <1>7, <2>1 DEF StoreInv, DownloadsArePinned, DownloadsAreWhole
<1>17. UploadsMakeOnce'
  <2> SUFFICES ASSUME NEW v \in Upload PROVE MadeOnce(v)'
    BY DEF UploadsMakeOnce
  <2>1. MadeOnce(v)
    BY DEF StoreInv, UploadsMakeOnce
  <2>2. \A b \in Caller : Committing(b, v)' => Committing(b, v) /\ call'[b] = call[b]
    BY <1>6, <1>10
  <2>3. \A s \in Server : table'[s][v] # Absent =>
          \A b \in Caller : Committing(b, v) => b # c
    BY <1>3, <1>5, <1>9, <1>12 DEF Committing
  <2>4. \A s \in Server : table'[s][v] # Absent =>
          \A b \in Caller : Committing(b, v) => Committing(b, v)' /\ call'[b] = call[b]
    BY <1>6, <1>10, <2>3
  <2> QED BY <1>7, <1>12, <2>1, <2>2, <2>4, MadeFrame DEF Taken
<1> QED BY <1>11, <1>13, <1>14, <1>15, <1>16, <1>17 DEF StoreInv

(* Another client's version, over content that is stored.                  *)
LEMMA EditInv ==
    ASSUME StoreInv, UNCHANGED lifecycleVars, NEW id \in Artifact, Edit(id)
    PROVE  StoreInv'
<1>1. StoreTypes
  BY DEF StoreInv
<1>2. PICK new \in [active : {TRUE}, key : objects] \cup {[active |-> FALSE, key |-> <<>>]} :
        heads' = {h \in heads : h.id # id} \cup
                    {[id |-> id, version |-> versions + 1, active |-> new.active,
                      key |-> new.key]}
  BY DEF Edit
<1> DEFINE h0 == [id |-> id, version |-> versions + 1, active |-> new.active, key |-> new.key]
<1>3. /\ versions < MaxVersions /\ versions' = versions + 1
      /\ UNCHANGED <<file, table, objects, call, made, overlap, unheard, fetched>>
  BY DEF Edit, historyVars
<1>4. new.active \in BOOLEAN /\ new.key \in Content /\ (new.active => new.key \in objects)
  <2>1. objects \subseteq Content /\ <<>> \in Content
    BY <1>1, EmptyPrefix DEF StoreTypes
  <2>2. CASE new \in [active : {TRUE}, key : objects]
    BY <2>1, <2>2
  <2>3. CASE new = [active |-> FALSE, key |-> <<>>]
    BY <2>1, <2>3
  <2> QED BY <1>2, <2>2, <2>3
<1>5. h0 \in ArtifactHead /\ h0.version = versions + 1 /\ (h0.active => h0.key \in objects)
  BY <1>1, <1>4 DEF ArtifactHead, StoreTypes
<1>6. heads' \subseteq heads \cup {h0}
  BY <1>2
<1> HIDE DEF h0
<1>7. /\ heads' \subseteq ArtifactHead /\ versions' \in 0..MaxVersions
      /\ \A h \in heads' : h.version \in 1..versions'
      /\ ArtifactsHaveBytes' /\ DownloadsArePinned'
  BY <1>3, <1>5, <1>6, NewVersion
<1>8. StoreTypes'
  BY <1>1, <1>3, <1>7 DEF StoreTypes
<1>9. \A c \in Caller : \A u \in Upload : Committing(c, u)' <=> Committing(c, u)
  BY <1>3 DEF Committing
<1>10. OnlyAtWork'
  BY <1>3, <1>9 DEF StoreInv, OnlyAtWork, AtWork, lifecycleVars
<1>11. UploadsKeepTheirFile'
  BY <1>3 DEF StoreInv, UploadsKeepTheirFile, UploadIsAPrefix, Exists
<1>12. KeysArePlaced'
  BY <1>3, <1>7, <1>9 DEF StoreInv, KeysArePlaced
<1>13. UploadsMakeOnce'
  <2>1. \A h \in heads : h.id # id => h \in heads'
    BY <1>2
  <2>2. id \in Taken'
    <3>1. h0 \in heads' /\ h0.id = id
      BY <1>2 DEF h0
    <3> QED BY <3>1 DEF Taken
  <2>3. Taken \subseteq Taken'
    BY <2>1, <2>2 DEF Taken
  <2> QED BY <1>3, <1>9, <2>3, MadeFrame DEF StoreInv, UploadsMakeOnce
<1> QED BY <1>7, <1>8, <1>10, <1>11, <1>12, <1>13 DEF StoreInv

(* A download begins with nothing got and no version pinned.               *)
LEMMA DownloadInv ==
    ASSUME StoreInv, UNCHANGED lifecycleVars, NEW d \in Daemon, AtWork(d), NEW c \in Caller,
           NEW id \in Artifact, Download(d, c, id)
    PROVE  StoreInv'
<1>1. StoreTypes /\ call[c] = Idle /\ d \in Server
  BY ServersAreDaemons DEF StoreInv, Download
<1> DEFINE r == [at |-> "download", by |-> d, id |-> id, version |-> NoVersion, got |-> <<>>]
<1>2. /\ r \in Request /\ r.at = "download" /\ r.by = d /\ r # Idle
      /\ r.version = NoVersion /\ r.got = <<>>
  BY <1>1, EmptyPrefix DEF Request, Idle, NoVersion
<1>3. call' = [call EXCEPT ![c] = r]
  BY DEF Download
<1> HIDE DEF r
<1>4. /\ call' \in [Caller -> Request] /\ call'[c] = r
      /\ \A b \in Caller : b # c => call'[b] = call[b]
  BY <1>1, <1>2, <1>3, RequestChanges
<1>5. UNCHANGED <<file, table, objects, heads, versions, made, overlap, unheard, fetched>>
  BY DEF Download, entityVars, historyVars
<1>6. StoreTypes'
  BY <1>1, <1>4, <1>5 DEF StoreTypes
<1>7. \A b \in Caller : \A u \in Upload :
        /\ Committing(b, u)' <=> Committing(b, u)
        /\ Committing(b, u) => call'[b] = call[b]
  BY <1>1, <1>2, <1>4 DEF Committing, Idle
<1>8. OnlyAtWork'
  <2>1. ASSUME NEW b \in Caller, call'[b] # Idle PROVE AtWork(call[b].by)'
    <3>1. AtWork(call'[b].by)
      BY <1>2, <1>4, <2>1 DEF StoreInv, OnlyAtWork
    <3> QED BY <3>1 DEF AtWork, lifecycleVars
  <2>2. \A s \in Server : \A u \in Upload :
          (table[s][u] # Absent => AtWork(s) /\ file[u].at # "never")'
    BY <1>5 DEF StoreInv, OnlyAtWork, AtWork, lifecycleVars
  <2> QED BY <1>5, <1>7, <2>1, <2>2 DEF StoreInv, OnlyAtWork
<1>9. UploadsKeepTheirFile'
  BY <1>5 DEF StoreInv, UploadsKeepTheirFile, UploadIsAPrefix, Exists
<1>10. KeysArePlaced'
  BY <1>5, <1>7 DEF StoreInv, KeysArePlaced, ArtifactsHaveBytes
<1>11. DownloadsArePinned'
  <2>1. \A h \in heads : h.version # NoVersion
    BY <1>1, VersionsAreBounded DEF StoreTypes, NoVersion
  <2>2. NoVersion <= versions
    BY <1>1, VersionsAreBounded DEF StoreTypes, NoVersion
  <2> QED BY <1>2, <1>4, <1>5, <2>1, <2>2 DEF StoreInv, DownloadsArePinned, DownloadsAreWhole
<1>12. UploadsMakeOnce'
  BY <1>5, <1>7, MadeFrame DEF StoreInv, UploadsMakeOnce, Taken
<1> QED BY <1>6, <1>8, <1>9, <1>10, <1>11, <1>12 DEF StoreInv

-----------------------------------------------------------------------------
(* Uploads and requests are given up, all those of a daemon together, and  *)
(* files only when nobody has their upload open.                           *)
LEMMA GivenUp ==
    ASSUME StoreInv,
           table' \in [Server -> [Upload -> Entry]], call' \in [Caller -> Request],
           file' \in [Upload -> UploadFile],
           \A s \in Server : \A u \in Upload : table'[s][u] # Absent =>
               /\ table'[s][u] = table[s][u]
               /\ proc'[s].at \in {"serving", "drain"}
               /\ file'[u] = file[u]
               /\ \A c \in Caller : call[c] # Idle /\ call[c].by = s => call'[c] = call[c],
           \A c \in Caller : call'[c] # Idle =>
               call'[c] = call[c] /\ proc'[call[c].by].at \in {"serving", "drain"},
           \A u \in Upload : file[u].at # "never" => file'[u].at # "never",
           UNCHANGED <<objects, entityVars, historyVars>>
    PROVE  StoreInv'
<1>1. StoreTypes
  BY DEF StoreInv
<1>2. UNCHANGED <<heads, versions, made, overlap, unheard, fetched>>
  BY DEF entityVars, historyVars
<1>3. Absent.at = "absent" /\ Idle.at = "idle"
  BY DEF Absent, Idle
<1>4. \A c \in Caller : \A u \in Upload :
        Committing(c, u)' => Committing(c, u) /\ call'[c] = call[c] /\ call'[c] # Idle
  BY <1>3 DEF Committing
<1>5. StoreTypes'
  BY <1>1, <1>2 DEF StoreTypes
<1>6. OnlyAtWork'
  <2>1. \A s \in Server : \A u \in Upload :
          (table[s][u] # Absent => AtWork(s) /\ file[u].at # "never")'
    BY DEF StoreInv, OnlyAtWork, AtWork
  <2>2. \A c \in Caller : (call[c] # Idle => AtWork(call[c].by))'
    BY DEF AtWork
  <2>3. \A c \in Caller : \A u \in Upload : (Committing(c, u) => file[u].at # "never")'
    BY <1>4 DEF StoreInv, OnlyAtWork
  <2>4. \A u \in Upload : (made[u] > 0 => file[u].at # "never")'
    BY <1>2 DEF StoreInv, OnlyAtWork
  <2> QED BY <2>1, <2>2, <2>3, <2>4 DEF OnlyAtWork
<1>7. UploadsKeepTheirFile'
  <2>1. \A s \in Server : \A u \in Upload : table'[s][u].at = "open" =>
          table'[s][u] = table[s][u] /\ file'[u] = file[u]
    BY <1>3
  <2> QED BY <2>1, ServersAreDaemons, SMTT(30)
      DEF StoreInv, UploadsKeepTheirFile, UploadIsAPrefix, Exists
<1>8. KeysArePlaced'
  <2>1. \A s \in Server : \A u \in Upload : table'[s][u].at = "committed" =>
          table'[s][u] = table[s][u]
    BY <1>3
  <2> QED BY <1>2, <1>4, <2>1 DEF StoreInv, KeysArePlaced, ArtifactsHaveBytes
<1>9. DownloadsArePinned'
  <2>1. \A c \in Caller : call'[c].at = "download" => call'[c] = call[c]
    BY <1>3
  <2> QED BY <1>2, <2>1 DEF StoreInv, DownloadsArePinned, DownloadsAreWhole
<1>10. UploadsMakeOnce'
  <2> SUFFICES ASSUME NEW u \in Upload PROVE MadeOnce(u)'
    BY DEF UploadsMakeOnce
  <2>1. MadeOnce(u)
    BY DEF StoreInv, UploadsMakeOnce
  <2>2. ASSUME NEW s \in Server, table'[s][u] # Absent,
               NEW c \in Caller, Committing(c, u), call[c].by = s
        PROVE  Committing(c, u)' /\ call'[c] = call[c]
    <3>1. call[c] # Idle
      BY <1>3, <2>2 DEF Committing
    <3>2. call'[c] = call[c]
      BY <2>2, <3>1
    <3> QED BY <2>2, <3>2 DEF Committing
  <2>3. \A s \in Server : table'[s][u] # Absent => table'[s][u] = table[s][u]
    OBVIOUS
  <2>4. \A s \in Server : table'[s][u] # Absent =>
          \A c \in Caller : Committing(c, u) /\ call[c].at = "finish" /\ call[c].by = s =>
              Committing(c, u)' /\ call'[c].at = "finish" /\ call'[c].by = s
    BY <2>2
  <2>5. Taken' = Taken
    BY <1>2 DEF Taken
  <2> QED BY <1>2, <1>4, <2>1, <2>3, <2>4, <2>5, MadeFrame
<1> QED BY <1>5, <1>6, <1>7, <1>8, <1>9, <1>10 DEF StoreInv

(* A daemon's life leaves a daemon at work where it is, apart from its own *)
(* draining and its death.                                                 *)
LEMMA WorkGoesOn ==
    ASSUME LifecycleInv, NEW d \in Daemon, Launches(d) \/ Living(d)
    PROVE  \A s \in Daemon : AtWork(s) => AtWork(s)'
<1> SUFFICES ASSUME NEW s \in Daemon, AtWork(s) PROVE AtWork(s)'
  OBVIOUS
<1>1. proc \in [Daemon -> Process]
  BY DEF LifecycleInv
<1>2. CASE Stop(d)
  BY <1>1, <1>2 DEF Stop, Goes, AtWork
<1>3. CASE Launch(d) \/ Open(d) \/ OpenFails(d) \/ Initialize(d) \/ InitializeFails(d)
  <2>1. proc[d].at \in {"off", "open", "init"}
    BY <1>3 DEF Launch, Open, OpenFails, Initialize, InitializeFails
  <2>2. s # d
    BY <2>1 DEF AtWork
  <2>3. proc'[s] = proc[s]
    BY <1>1, <1>3, <2>2
       DEF Launch, Open, OpenFails, Initialize, InitializeFails, Goes, Ends
  <2> QED BY <2>3 DEF AtWork
<1>4. CASE HealthCheck(d) \/ Shutdown(d) \/ Probe(d) \/ Unlink(d)
  <2>1. proc[d].at \in {"health", "stop", "rollback", "probe", "unlink"}
    BY <1>4 DEF HealthCheck, Shutdown, Probe, Unlink
  <2>2. s # d
    BY <2>1 DEF AtWork
  <2>3. proc'[s] = proc[s]
    BY <1>1, <1>4, <2>2 DEF HealthCheck, Shutdown, Probe, Unlink, Goes
  <2> QED BY <2>3 DEF AtWork
<1>5. CASE Listen(d) \/ ListenFails(d) \/ GuardChecks(d) \/ GuardRemoves(d)
  <2>1. proc[d].at \in {"listen", "check", "remove"}
    BY <1>5 DEF Listen, ListenFails, GuardChecks, GuardRemoves
  <2>2. s # d
    BY <2>1 DEF AtWork
  <2>3. proc'[s] = proc[s]
    BY <1>1, <1>5, <2>2 DEF Listen, ListenFails, GuardChecks, GuardRemoves, Goes
  <2> QED BY <2>3 DEF AtWork
<1> QED BY <1>2, <1>3, <1>4, <1>5 DEF Launches, Living

(* The steps of a daemon's life, those that touch the store included.      *)
LEMMA LifeKeepsStore ==
    ASSUME LifecycleInv, StoreInv, NEW d \in Daemon,
           Launches(d) \/ Living(d) \/ OpensStore(d) \/ Drains(d) \/ Dies(d)
    PROVE  StoreInv'
<1>1. StoreTypes /\ proc \in [Daemon -> Process] /\ d \in Server
  BY ServersAreDaemons DEF StoreInv, LifecycleInv
<1>2. /\ \A s \in Server : \A u \in Upload : table[s][u] # Absent => AtWork(s)
      /\ \A c \in Caller : call[c] # Idle => AtWork(call[c].by) /\ call[c].by \in Server
  BY <1>1, RequestFacts DEF StoreInv, OnlyAtWork
<1>3. Absent \in Entry /\ Idle \in Request /\ Removed \in UploadFile /\ Removed.at = "removed"
  BY EmptyPrefix DEF Entry, Request, Removed, UploadFile
<1>4. CASE Launches(d) \/ Living(d)
  <2>1. UNCHANGED <<file, table, objects, entityVars, call, historyVars>>
    BY <1>4 DEF Launches, Living, storeVars
  <2>2. \A s \in Server : AtWork(s) => proc'[s].at \in {"serving", "drain"}
    BY <1>4, WorkGoesOn, ServersAreDaemons DEF AtWork
  <2> QED BY <1>1, <1>2, <2>1, <2>2, GivenUp DEF StoreTypes
<1>5. CASE OpensStore(d)
  <2>1. proc[d].at = "store"
    BY <1>5 DEF OpensStore, StoreOpens, StoreFails
  <2>2. \A s \in Server : ~AtWork(s)
    BY <2>1, OneStarted, ServersAreDaemons DEF AtWork, Started
  <2>3. UNCHANGED <<table, objects, entityVars, call, historyVars>>
    BY <1>5 DEF OpensStore
  <2>4. /\ file' \in [Upload -> UploadFile]
        /\ \A u \in Upload : file[u].at # "never" => file'[u].at # "never"
    BY <1>1, <1>3, <1>5 DEF OpensStore, ClearUploads, StoreTypes
  <2>5. table' \in [Server -> [Upload -> Entry]] /\ call' \in [Caller -> Request]
    BY <1>1, <2>3 DEF StoreTypes
  <2> QED BY <1>2, <2>2, <2>3, <2>4, <2>5, GivenUp
<1>6. CASE Drains(d)
  <2>1. AtWork(d) /\ Quiet(d) /\ UNCHANGED <<file, objects, entityVars, call, historyVars>>
    BY <1>6 DEF Drains, Drained, AtWork
  <2>2. /\ table' \in [Server -> [Upload -> Entry]]
        /\ \A s \in Server : \A u \in Upload : table'[s][u] = Absent
    <3>1. table' = [table EXCEPT ![d] = [u \in Upload |-> Absent]]
      BY <1>6 DEF Drains
    <3>2. \A s \in Server \ {d} : \A u \in Upload : table[s][u] = Absent
      BY <2>1, OthersAreAbsent
    <3> QED BY <1>1, <1>3, <3>1, <3>2 DEF StoreTypes
  <2>3. \A c \in Caller : call[c] = Idle
    BY <1>2, <2>1, OneAtWork, ServersAreDaemons DEF Quiet
  <2> QED BY <1>1, <2>1, <2>2, <2>3, GivenUp DEF StoreTypes
<1>7. CASE Dies(d)
  <2>1. Forget(d) /\ Ends(d) /\ UNCHANGED <<file, objects, entityVars, historyVars>>
    BY <1>7 DEF Dies, Crash
  <2>2. /\ table' \in [Server -> [Upload -> Entry]]
        /\ \A s \in Server : \A u \in Upload :
              table'[s][u] = IF s = d THEN Absent ELSE table[s][u]
    BY <1>1, <1>3, <2>1 DEF StoreTypes, Forget
  <2>3. /\ call' \in [Caller -> Request]
        /\ \A c \in Caller :
              call'[c] = IF call[c] # Idle /\ call[c].by = d THEN Idle ELSE call[c]
    BY <1>1, <1>3, <2>1 DEF StoreTypes, Forget
  <2>4. \A s \in Server : s # d => proc'[s] = proc[s]
    BY <1>1, <2>1, ServersAreDaemons DEF Ends
  <2>5. \A s \in Server : \A u \in Upload : table'[s][u] # Absent =>
          /\ table'[s][u] = table[s][u]
          /\ proc'[s].at \in {"serving", "drain"}
          /\ file'[u] = file[u]
          /\ \A c \in Caller : call[c] # Idle /\ call[c].by = s => call'[c] = call[c]
    BY <1>2, <2>1, <2>2, <2>3, <2>4 DEF AtWork
  <2>6. \A c \in Caller : call'[c] # Idle =>
          call'[c] = call[c] /\ proc'[call[c].by].at \in {"serving", "drain"}
    BY <1>2, <2>3, <2>4 DEF AtWork
  <2> QED BY <1>1, <2>1, <2>2, <2>3, <2>5, <2>6, GivenUp DEF StoreTypes
<1> QED BY <1>4, <1>5, <1>6, <1>7

(* The requests of a daemon at work.                                       *)
LEMMA ServesKeepsStore ==
    ASSUME LifecycleInv, StoreInv, NEW d \in Daemon, Serves(d)
    PROVE  StoreInv'
<1>1. AtWork(d) /\ UNCHANGED lifecycleVars
  BY DEF Serves, AtWork
<1>2. CASE NewRequest(d)
  <2>1. CASE \E u \in Upload : Begin(d, u)
    BY <1>1, <2>1, BeginInv
  <2>2. CASE \E u \in Upload : Chunk(d, u)
    BY <1>1, <2>2, ChunkInv
  <2>3. CASE \E u \in Upload : \E c \in Caller : Commit(d, c, u)
    BY <1>1, <2>3, CommitInv
  <2>4. CASE \E id \in Artifact : Edit(id)
    BY <1>1, <2>4, EditInv
  <2>5. CASE \E id \in Artifact : \E c \in Caller : Download(d, c, id)
    BY <1>1, <2>5, DownloadInv
  <2> QED BY <1>2, <2>1, <2>2, <2>3, <2>4, <2>5 DEF NewRequest
<1>3. CASE TakenUp(d)
  <2>1. PICK c \in Caller :
          \/ Create(c) \/ CreateUnheard(c) \/ CreateFails(c) \/ Finish(c)
          \/ FetchChunk(c) \/ FetchFails(c)
    BY <1>3 DEF TakenUp
  <2>2. CASE Create(c) \/ CreateUnheard(c)
    BY <1>1, <2>2, CreateInv
  <2>3. CASE Finish(c)
    BY <1>1, <2>3, FinishInv
  <2>4. CASE FetchChunk(c)
    BY <1>1, <2>4, FetchChunkInv
  <2>5. CASE CreateFails(c) \/ FetchFails(c)
    <3>1. /\ call[c].at # "finish" /\ call' = [call EXCEPT ![c] = Idle]
          /\ UNCHANGED <<file, table, objects, entityVars, made, overlap, unheard, fetched>>
      BY <2>5 DEF CreateFails, FetchFails, historyVars
    <3>2. fetched' \subseteq objects
      BY <3>1 DEF StoreInv, DownloadsArePinned, DownloadsAreWhole
    <3> QED BY <1>1, <3>1, <3>2, RequestEnds
  <2> QED BY <2>1, <2>2, <2>3, <2>4, <2>5
<1> QED BY <1>2, <1>3 DEF Serves

-----------------------------------------------------------------------------
(* The inductive invariant of the home directory and its daemons.          *)
DaemonInv == LifecycleInv /\ StoreInv

(* Every step of every daemon keeps it.                                    *)
LEMMA DaemonNextInv == DaemonInv /\ [DaemonNext]_daemonVars => DaemonInv'
<1> SUFFICES ASSUME DaemonInv, [DaemonNext]_daemonVars PROVE DaemonInv'
  OBVIOUS
<1>1. LifecycleInv /\ StoreInv
  BY DEF DaemonInv
<1>2. CASE UNCHANGED daemonVars
  <2>1. UNCHANGED lifecycleVars
    BY <1>2 DEF daemonVars
  <2>2. LifecycleInv'
    BY <1>1, <2>1, LifecycleStutter
  <2>3. UNCHANGED <<file, table, objects, entityVars, call, historyVars, proc>>
    BY <1>2 DEF daemonVars, storeVars, lifecycleVars
  <2>4. StoreInv'
    <3>1. \A c \in Caller : call[c] # Idle => call[c].by \in Server
      BY <1>1, RequestFacts DEF StoreInv
    <3> QED BY <1>1, <2>3, <3>1, GivenUp DEF StoreInv, StoreTypes, OnlyAtWork, AtWork
  <2> QED BY <2>2, <2>4 DEF DaemonInv
<1>3. CASE DaemonNext
  <2>1. PICK d \in Daemon :
          Launches(d) \/ Living(d) \/ OpensStore(d) \/ Drains(d) \/ Dies(d) \/ Serves(d)
    BY <1>3 DEF DaemonNext
  <2>2. CASE Serves(d)
    <3>1. UNCHANGED lifecycleVars
      BY <2>2 DEF Serves
    <3> QED BY <1>1, <2>2, <3>1, LifecycleStutter, ServesKeepsStore DEF DaemonInv
  <2>3. CASE Launches(d) \/ Living(d) \/ OpensStore(d) \/ Drains(d) \/ Dies(d)
    <3>1. LifecycleStep(d)
      BY <2>3 DEF Launches, Living, OpensStore, Drains, Dies, LifecycleStep
    <3> QED BY <1>1, <2>3, <3>1, LifecycleStepInv, LifeKeepsStore DEF DaemonInv
  <2> QED BY <2>1, <2>2, <2>3
<1> QED BY <1>2, <1>3

(* The daemons keep the invariant: the lock files, the marks in the        *)
(* databases, the socket, the uploads and the artifacts.                   *)
THEOREM DaemonsKeepTheInvariant == DaemonSpec => []DaemonInv
<1>1. DaemonInit => DaemonInv
  BY LifecycleInitInv, StoreInitInv DEF DaemonInit, DaemonInv
<1> QED BY <1>1, DaemonNextInv, PTL DEF DaemonSpec

(* The variables keep their types.                                         *)
THEOREM DaemonTypes == DaemonSpec => []DaemonTypeOK
<1>1. DaemonInv => DaemonTypeOK
  <2> SUFFICES ASSUME DaemonInv PROVE DaemonTypeOK
    OBVIOUS
  <2>1. LifecycleTypeOK
    BY LifecycleInvGives DEF DaemonInv
  <2>2. StoreTypes
    BY DEF DaemonInv, StoreInv
  <2>3. \A h \in heads : h.id \in Artifact /\ h.version \in 1..versions
    BY <2>2 DEF StoreTypes, ArtifactHead
  <2>4. StoreTypeOK
    BY <2>2, <2>3, EntryFacts, RequestFacts DEF StoreTypeOK, StoreTypes
  <2> QED BY <2>1, <2>4 DEF DaemonTypeOK
<1> QED BY <1>1, DaemonsKeepTheInvariant, PTL

(* Whatever starts failed, were rolled back, were killed or could not      *)
(* record their shutdown, status reports recovery exactly when the last    *)
(* owner of some database left it unclean (RoutingProvider::initialize).   *)
THEOREM RecoveryIsReportedExactly == DaemonSpec => []RecoveryReportIsExact
<1>1. DaemonInv => RecoveryReportIsExact
  BY LifecycleInvGives DEF DaemonInv
<1> QED BY <1>1, DaemonsKeepTheInvariant, PTL

(* No probe and no guard of another daemon takes the socket of a daemon    *)
(* that serves, except in the window between a guard's check and removal.  *)
THEOREM ServersAreReached == DaemonSpec => []ServingIsReachable
<1>1. DaemonInv => ServingIsReachable
  BY DEF DaemonInv, LifecycleInv
<1> QED BY <1>1, DaemonsKeepTheInvariant, PTL

(* The bytes of a visible artifact are in managed storage, whatever died   *)
(* between placing them and creating the entity.                           *)
THEOREM ArtifactsKeepTheirBytes == DaemonSpec => []ArtifactsHaveBytes
<1>1. DaemonInv => ArtifactsHaveBytes
  BY DEF DaemonInv, StoreInv, KeysArePlaced
<1> QED BY <1>1, DaemonsKeepTheInvariant, PTL

(* An upload that names its entity makes it once, whatever its commits are *)
(* told; one that leaves the id to the engine makes one unless two commits *)
(* of it overlap or one is answered an error after the entity was made.    *)
THEOREM UploadsMakeOneEntity == DaemonSpec => []OneEntityPerUpload
<1>1. DaemonInv => OneEntityPerUpload
  BY DEF DaemonInv, StoreInv, UploadsMakeOnce, MadeOnce, UnnamedOnce, NamedOnce,
         OneEntityPerUpload
<1> QED BY <1>1, DaemonsKeepTheInvariant, PTL

(* A download that completes returns one stored content, never bytes of    *)
(* two versions.                                                           *)
THEOREM DownloadsReturnOneContent == DaemonSpec => []DownloadsAreWhole
<1>1. DaemonInv => DownloadsAreWhole
  BY DEF DaemonInv, StoreInv, DownloadsArePinned
<1> QED BY <1>1, DaemonsKeepTheInvariant, PTL

(* No daemon that starts discards the file of an upload another one still  *)
(* accepts, and that file is a prefix of what the client announced.        *)
THEOREM OpenUploadsKeepTheirFile == DaemonSpec => []UploadsKeepTheirFile
<1>1. DaemonInv => UploadsKeepTheirFile
  BY DEF DaemonInv, StoreInv
<1> QED BY <1>1, DaemonsKeepTheInvariant, PTL
=============================================================================
