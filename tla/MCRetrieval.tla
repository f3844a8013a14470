---------------------------- MODULE MCRetrieval -----------------------------
(* Small instances of Retrieval for TLC.                                   *)
EXTENDS Retrieval, TLC

(* UUIDs are interchangeable: one is drawn at a time, in order.            *)
MintOne(used) ==
    {{}} \cup {{v} : v \in {v \in Version \ used :
                             \A w \in Version \ used : v <= w}}
=============================================================================
