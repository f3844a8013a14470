------------------------------ MODULE MCDaemon ------------------------------
(* Two daemons on one home, with two databases and two uploads.            *)
EXTENDS Daemon, TLC

CONSTANTS a1, a2

(* One upload names its entity and announces its digest, one does neither. *)
TwoKinds ==
    {[file |-> "A", size |-> 2, expects |-> TRUE, id |-> a1],
     [file |-> "B", size |-> 2, expects |-> FALSE, id |-> NoId]}

(* Bound: two uploads meet within one generation; a home that was started  *)
(* twice has seen one upload.                                              *)
Story ==
    (\A u \in Upload : file[u] # Never) =>
        \A p \in Provider : runtime[p].generation <= 1

InStory == Story'

(* Daemons, uploads and requests are interchangeable.                      *)
Symmetry == Permutations(Daemon) \cup Permutations(Upload) \cup Permutations(Caller)
=============================================================================
