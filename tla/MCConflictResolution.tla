------------------------ MODULE MCConflictResolution ------------------------
(* Small instances of ConflictResolution for TLC.                          *)
EXTENDS ConflictResolution, TLC

CONSTANTS g1, g2, x, y

FieldOf(g, chars) == [group |-> g, text |-> [c \in Char |-> IF c \in chars THEN 1 ELSE 0]]

(* Edits of one group, the same text in another group, and no field.       *)
GroupedMenu ==
    {None, FieldOf(g1, {x}), FieldOf(g1, {x, y}), FieldOf(g2, {x})}

(* Fields whose discriminator is absent.                                   *)
UngroupedMenu == {FieldOf(NoGroup, {}), FieldOf(NoGroup, {x})}

(* Rests are interchangeable.                                              *)
Symmetry == Permutations(Rest)
=============================================================================
