----------------------------- MODULE Lifecycle -----------------------------
(***************************************************************************)
(* Starting and stopping a daemon: `patchouli-db serve` opens its          *)
(* providers, starts the engine (RoutingProvider::initialize and           *)
(* health_check), binds the socket and serves; a stop drains, shuts the    *)
(* providers down and unlinks the socket.  Every step may fail, and the    *)
(* process may die between any two.  Several processes may be started on   *)
(* the same databases and the same socket path.                            *)
(*                                                                         *)
(* The steps of one provider's initialize and shutdown are one transaction *)
(* each on a database that its lock file keeps to one process.             *)
(*                                                                         *)
(* RoutingProvider takes any providers by name, and so does this module.   *)
(* The configuration file allows a process one SQLite database beside its  *)
(* remote providers, which are left out: their initialize does not fail,   *)
(* and reports the recovery of their storage nodes as it was when they     *)
(* connected.                                                              *)
(***************************************************************************)
EXTENDS Naturals

CONSTANTS
    Daemon,         \* processes of `patchouli-db serve`
    NoOne,          \* the holder of a free lock
    Providers,      \* number of SQLite providers, in the order of their names
    MaxGeneration,  \* bound: starts of one database
    Inode           \* inode numbers of socket files, which may be used again

ASSUME NoOneIsNoDaemon == NoOne \notin Daemon
ASSUME ProvidersAreNumbered == Providers \in Nat \ {0}
ASSUME StartsAreBounded == MaxGeneration \in Nat

NoFile == 0
ASSUME InodesAreNumbers == Inode \subseteq Nat \ {NoFile}

VARIABLES
    proc,     \* each process: where it is, and what it holds in memory
    lock,     \* the process that holds each database's lock file
    runtime,  \* patchouli_runtime_state of each database
    socket,   \* the inode at the socket's path
    unclean,  \* history: databases whose last owner did not shut them down
    crossed   \* history: a guard unlinked a socket that had replaced its own

lifecycleVars == <<proc, lock, runtime, socket, unclean, crossed>>

Provider == 1..Providers

Places ==
    {"off", "open", "init", "rollback", "health", "probe", "unlink", "listen",
     "store", "serving", "drain", "stop", "check", "remove"}

(* made: the providers initialized and not shut down; expected: a history  *)
(* of what recovered should be; ours: a history of the guard's check; left:*)
(* where the process goes when its listener has been dropped.              *)
NewProcess ==
    [at |-> "off", step |-> 1, made |-> {}, recovered |-> FALSE, expected |-> FALSE,
     inode |-> NoFile, listening |-> FALSE, ours |-> FALSE, left |-> "off"]

LifecycleTypeOK ==
    /\ \A d \in Daemon :
          /\ proc[d] \in [at : Places, step : Provider, made : SUBSET Provider,
                          recovered : BOOLEAN, expected : BOOLEAN,
                          inode : Inode \cup {NoFile}, listening : BOOLEAN,
                          ours : BOOLEAN, left : {"off", "stop"}]
          /\ proc[d].at = "off" => proc[d] = NewProcess
    /\ lock \in [Provider -> Daemon \cup {NoOne}]
    /\ runtime \in [Provider -> [generation : 0..MaxGeneration, running : BOOLEAN]]
    /\ socket \in Inode \cup {NoFile}
    /\ unclean \subseteq Provider
    /\ crossed \in BOOLEAN

LifecycleInit ==
    /\ proc = [d \in Daemon |-> NewProcess]
    /\ lock = [p \in Provider |-> NoOne]
    /\ runtime = [p \in Provider |-> [generation |-> 0, running |-> FALSE]]
    /\ socket = NoFile
    /\ unclean = {}
    /\ crossed = FALSE

-----------------------------------------------------------------------------
(* The end of a process, whatever it was doing: the operating system drops *)
(* its locks and closes its listener; the socket's file stays.             *)
Ends(d) ==
    /\ proc' = [proc EXCEPT ![d] = NewProcess]
    /\ lock' = [p \in Provider |-> IF lock[p] = d THEN NoOne ELSE lock[p]]

Goes(d, place) == proc' = [proc EXCEPT ![d].at = place]

Launch(d) ==
    /\ proc[d].at = "off"
    /\ Goes(d, "open")
    /\ UNCHANGED <<lock, runtime, socket, unclean, crossed>>

(* load_provider, SqliteProvider::open: try_lock does not wait.            *)
Open(d) ==
    LET p == proc[d].step
    IN  /\ proc[d].at = "open"
        /\ lock[p] = NoOne
        /\ lock' = [lock EXCEPT ![p] = d]
        /\ proc' = [proc EXCEPT ![d].at = IF p = Providers THEN "init" ELSE "open",
                                ![d].step = IF p = Providers THEN 1 ELSE p + 1]
        /\ UNCHANGED <<runtime, socket, unclean, crossed>>

(* The lock is held, or the database cannot be opened: main returns.       *)
OpenFails(d) ==
    /\ proc[d].at = "open"
    /\ Ends(d)
    /\ UNCHANGED <<runtime, socket, unclean, crossed>>

(* RoutingProvider::initialize, one provider: its transaction raises the   *)
(* generation, marks the database running and tells whether it was.        *)
Initialize(d) ==
    LET p == proc[d].step
    IN  /\ proc[d].at = "init"
        /\ runtime[p].generation < MaxGeneration
        /\ runtime' = [runtime EXCEPT ![p] = [generation |-> @.generation + 1, running |-> TRUE]]
        /\ unclean' = unclean \ {p}
        /\ proc' = [proc EXCEPT ![d].at = IF p = Providers THEN "health" ELSE "init",
                                ![d].step = IF p = Providers THEN p ELSE p + 1,
                                ![d].made = @ \cup {p},
                                ![d].recovered = @ \/ runtime[p].running,
                                ![d].expected = @ \/ p \in unclean]
        /\ UNCHANGED <<lock, socket, crossed>>

(* Mutant: returns the error without shutting down the providers before.   *)
InitializeFailsBare(d) ==
    /\ proc[d].at = "init"
    /\ Ends(d)
    /\ UNCHANGED <<runtime, socket, unclean, crossed>>

(* The transaction fails; the providers before it are shut down, last to   *)
(* first, and main returns.                                                *)
InitializeFails(d) ==
    /\ proc[d].at = "init"
    /\ \/ /\ proc[d].made # {}
          /\ proc' = [proc EXCEPT ![d].at = "rollback", ![d].step = @ - 1]
          /\ UNCHANGED lock
       \/ /\ proc[d].made = {}
          /\ Ends(d)
    /\ UNCHANGED <<runtime, socket, unclean, crossed>>

(* BackendEngine::start: a failed health check shuts the provider down.    *)
HealthCheck(d) ==
    /\ proc[d].at = "health"
    /\ Goes(d, "probe") \/ Goes(d, "stop")
    /\ UNCHANGED <<lock, runtime, socket, unclean, crossed>>

-----------------------------------------------------------------------------
(* What follows the last provider: a process that was serving drops its    *)
(* listener, any other one ends.  The listener goes together with the last *)
(* lock file; until it does, a daemon that starts may find it answering    *)
(* and give up, as it may at any time before.                              *)
AfterShutdown(d) ==
    LET serving == proc[d].at = "stop" /\ proc[d].inode # NoFile
    IN  IF proc[d].step > 1
        THEN [proc[d] EXCEPT !.step = @ - 1, !.made = @ \ {proc[d].step}]
        ELSE IF serving
        THEN [proc[d] EXCEPT !.at = "check", !.made = {}, !.listening = FALSE, !.left = "off"]
        ELSE NewProcess

(* RoutingProvider::shutdown and the rollback of initialize, one provider, *)
(* last to first: an error does not stop the loop, and the lock is         *)
(* released even when the transaction failed.  The process that ends lets  *)
(* go of the locks it still holds.                                         *)
Shutdown(d) ==
    /\ proc[d].at \in {"stop", "rollback"}
    /\ \E persisted \in BOOLEAN :
          LET p == proc[d].step
          IN  /\ runtime' = IF persisted THEN [runtime EXCEPT ![p].running = FALSE] ELSE runtime
              /\ unclean' = IF persisted THEN unclean ELSE unclean \cup {p}
              /\ lock' = [q \in Provider |->
                    IF q = p \/ (AfterShutdown(d) = NewProcess /\ lock[q] = d)
                    THEN NoOne ELSE lock[q]]
    /\ proc' = [proc EXCEPT ![d] = AfterShutdown(d)]
    /\ UNCHANGED <<socket, crossed>>

-----------------------------------------------------------------------------
(* The socket.                                                             *)

Answers == \E e \in Daemon : proc[e].listening /\ proc[e].inode = socket

(* prepare_socket_path: a path nobody answers at is unlinked first.        *)
Probe(d) ==
    /\ proc[d].at = "probe"
    /\ Goes(d, IF socket = NoFile THEN "listen" ELSE IF Answers THEN "stop" ELSE "unlink")
    /\ UNCHANGED <<lock, runtime, socket, unclean, crossed>>

(* remove_file unlinks whatever is at the path by now.                     *)
Unlink(d) ==
    /\ proc[d].at = "unlink"
    /\ Goes(d, IF socket = NoFile THEN "stop" ELSE "listen")
    /\ socket' = NoFile
    /\ UNCHANGED <<lock, runtime, unclean, crossed>>

(* UnixListener::bind and the guard, which remembers the inode.            *)
Listen(d) ==
    /\ proc[d].at = "listen"
    /\ socket = NoFile
    /\ \E i \in Inode :
          /\ socket' = i
          /\ proc' = [proc EXCEPT ![d].at = "store", ![d].inode = i, ![d].listening = TRUE]
    /\ UNCHANGED <<lock, runtime, unclean, crossed>>

(* The path has been taken, or binding fails; when its permissions cannot  *)
(* be set the file stays, without a guard.                                 *)
ListenFails(d) ==
    /\ proc[d].at = "listen"
    /\ Goes(d, "stop")
    /\ \/ UNCHANGED socket
       \/ socket = NoFile /\ socket' \in Inode
    /\ UNCHANGED <<lock, runtime, unclean, crossed>>

(* ArtifactStore::open: the daemon serves, or drops its listener and shuts *)
(* the engine down.                                                        *)
StoreOpens(d) ==
    /\ proc[d].at = "store"
    /\ Goes(d, "serving")
    /\ UNCHANGED <<lock, runtime, socket, unclean, crossed>>

StoreFails(d) ==
    /\ proc[d].at = "store"
    /\ proc' = [proc EXCEPT ![d].at = "check", ![d].listening = FALSE, ![d].left = "stop"]
    /\ UNCHANGED <<lock, runtime, socket, unclean, crossed>>

(* A stop request, a signal or an accept error.                            *)
Stop(d) ==
    /\ proc[d].at = "serving"
    /\ Goes(d, "drain")
    /\ UNCHANGED <<lock, runtime, socket, unclean, crossed>>

(* Every connection has been joined.                                       *)
Drained(d) ==
    /\ proc[d].at = "drain"
    /\ proc' = [proc EXCEPT ![d].at = "stop", ![d].step = Providers]
    /\ UNCHANGED <<lock, runtime, socket, unclean, crossed>>

(* The listener is gone: the process ends, or shuts its providers down.    *)
Unguarded(d) ==
    IF proc[d].left = "off" THEN NewProcess
    ELSE [proc[d] EXCEPT !.at = "stop", !.inode = NoFile, !.ours = FALSE]

(* Mutant: any socket at the path passes for the guard's own.              *)
GuardChecksKind(d) ==
    /\ proc[d].at = "check"
    /\ proc' = [proc EXCEPT ![d] =
          IF socket # NoFile
          THEN [@ EXCEPT !.at = "remove", !.ours = (socket = proc[d].inode)]
          ELSE Unguarded(d)]
    /\ UNCHANGED <<lock, runtime, socket, unclean, crossed>>

(* SocketGuard::drop, the listener being closed: is the path still ours?   *)
GuardChecks(d) ==
    /\ proc[d].at = "check"
    /\ proc' = [proc EXCEPT ![d] =
          IF socket = proc[d].inode
          THEN [@ EXCEPT !.at = "remove", !.ours = TRUE]
          ELSE Unguarded(d)]
    /\ UNCHANGED <<lock, runtime, socket, unclean, crossed>>

(* ... then the path is unlinked.                                          *)
GuardRemoves(d) ==
    /\ proc[d].at = "remove"
    /\ socket' = NoFile
    /\ crossed' = (crossed \/ (Answers /\ proc[d].ours))
    /\ proc' = [proc EXCEPT ![d] = Unguarded(d)]
    /\ UNCHANGED <<lock, runtime, unclean>>

-----------------------------------------------------------------------------
(* The process dies: the databases it had initialized stay marked running. *)
Crash(d) ==
    /\ proc[d].at # "off"
    /\ unclean' = unclean \cup proc[d].made
    /\ Ends(d)
    /\ UNCHANGED <<runtime, socket, crossed>>

-----------------------------------------------------------------------------
(* "status reports ... whether startup followed an unclean shutdown": the  *)
(* report is true exactly when the process that last initialized some      *)
(* database died or failed to record its shutdown.  A start that failed    *)
(* and was rolled back is not an unclean shutdown.                         *)
RecoveryReportIsExact ==
    \A d \in Daemon : proc[d].at = "serving" => proc[d].recovered = proc[d].expected

(* A serving daemon can be reached at its path: neither the guard of an    *)
(* earlier daemon nor the probe of a later one removes its socket.  The    *)
(* exception is a guard whose check and removal straddle the replacement   *)
(* of the file, or that takes a reused inode number for its own.           *)
ServingIsReachable ==
    \A d \in Daemon :
        proc[d].at \in {"store", "serving"} => socket = proc[d].inode \/ crossed
=============================================================================
