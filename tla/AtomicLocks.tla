----------------------------- MODULE AtomicLocks -----------------------------
(***************************************************************************)
(* What the engine's execution locks promise: a request is admitted with   *)
(* all of its keys at once, and only while no admitted request shares one. *)
(***************************************************************************)
CONSTANTS
    Request,    \* requests
    Wants       \* the keys each request locks

VARIABLE admitted   \* the requests that run under their locks

AtomicInit == admitted = {}

Grant(r) ==
    /\ r \notin admitted
    /\ \A s \in admitted : Wants[r] \cap Wants[s] = {}
    /\ admitted' = admitted \cup {r}

Release(r) ==
    /\ r \in admitted
    /\ admitted' = admitted \ {r}

AtomicNext == \E r \in Request : Grant(r) \/ Release(r)

AtomicSpec == AtomicInit /\ [][AtomicNext]_admitted
=============================================================================
