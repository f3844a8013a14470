------------------------------- MODULE Daemon -------------------------------
(***************************************************************************)
(* A home directory and the daemons started on it: their life (Lifecycle)  *)
(* and the artifacts they keep (ArtifactStore).  The store is opened by a  *)
(* daemon that holds its databases and its socket; requests are taken up   *)
(* while it serves, and completed before it shuts down.                    *)
(***************************************************************************)
EXTENDS Lifecycle, ArtifactStore

ASSUME ServersAreDaemons == Server = Daemon

daemonVars == <<lifecycleVars, storeVars>>

DaemonTypeOK == LifecycleTypeOK /\ StoreTypeOK

DaemonInit == LifecycleInit /\ StoreInit

-----------------------------------------------------------------------------
(* Mutant: discards incomplete uploads before anything else.               *)
LaunchesClearing(d) ==
    /\ Launch(d)
    /\ ClearUploads
    /\ UNCHANGED <<table, objects, entityVars, call, historyVars>>

Launches(d) ==
    /\ Launch(d)
    /\ UNCHANGED storeVars

(* Steps of a daemon's life that leave the store alone.                    *)
Living(d) ==
    /\ \/ Open(d) \/ OpenFails(d) \/ Initialize(d) \/ InitializeFails(d)
       \/ HealthCheck(d) \/ Shutdown(d) \/ Probe(d) \/ Unlink(d) \/ Listen(d)
       \/ ListenFails(d) \/ Stop(d) \/ GuardChecks(d) \/ GuardRemoves(d)
    /\ UNCHANGED storeVars

(* ArtifactStore::open discards the uploads of earlier daemons, perhaps    *)
(* before it fails.                                                        *)
OpensStore(d) ==
    /\ \/ StoreOpens(d) /\ ClearUploads
       \/ StoreFails(d) /\ (ClearUploads \/ UNCHANGED file)
    /\ UNCHANGED <<table, objects, entityVars, call, historyVars>>

(* The connections have ended: none has a request in progress, and nobody  *)
(* can use the table of uploads any more.                                  *)
Drains(d) ==
    /\ Quiet(d)
    /\ Drained(d)
    /\ table' = [table EXCEPT ![d] = [u \in Upload |-> Absent]]
    /\ UNCHANGED <<file, objects, entityVars, call, historyVars>>

Dies(d) ==
    /\ Crash(d)
    /\ Forget(d)
    /\ UNCHANGED <<file, objects, entityVars, historyVars>>

Serves(d) ==
    /\ \/ proc[d].at = "serving" /\ NewRequest(d)
       \/ proc[d].at \in {"serving", "drain"} /\ TakenUp(d)
    /\ UNCHANGED lifecycleVars

DaemonNext ==
    \E d \in Daemon :
        Launches(d) \/ Living(d) \/ OpensStore(d) \/ Drains(d) \/ Dies(d) \/ Serves(d)

DaemonSpec == DaemonInit /\ [][DaemonNext]_daemonVars

-----------------------------------------------------------------------------
(* The file of an upload that a daemon still accepts chunks for exists: no *)
(* daemon that starts, on its way to failing or not, discards the uploads  *)
(* of one that is serving.  And its bytes are a prefix of the client's.    *)
UploadsKeepTheirFile ==
    /\ UploadIsAPrefix
    /\ \A d \in Daemon : \A u \in Upload : table[d][u].at = "open" => Exists(u)
=============================================================================
