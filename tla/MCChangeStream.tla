--------------------------- MODULE MCChangeStream ---------------------------
(* Small instances of the change log and its subscriptions.                *)
EXTENDS ChangeStream, TLC

CONSTANTS e1, e2, e3, s1, sA, sB

(* e1 and e2 share a scope, e3 lives in another.                           *)
ScopesOfThree == (e1 :> sA) @@ (e2 :> sA) @@ (e3 :> sB)

(* One consumer that filters.                                              *)
OneHome == s1 :> sA
OneFilter == s1 :> {e1}
=============================================================================
