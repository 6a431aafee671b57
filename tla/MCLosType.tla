-------------------------------- MODULE MCLosType --------------------------------
(* Instances of LosType for TLC. *)
EXTENDS LosType

Left  == [x |-> 0, z |-> 0, radius |-> 1]
Right == [x |-> 2, z |-> 0, radius |-> 1]
Corner == [x |-> 6, z |-> 6, radius |-> 1]
TwoPlaces == {Left, Right}

(* a crater that only Left reaches, and one between the two *)
Crater == [x1 |-> 0, x2 |-> 1, z1 |-> 0, z2 |-> 1]
Between == [x1 |-> 1, x2 |-> 2, z1 |-> 0, z2 |-> 1]
Craters == {Crater, Between}
WholeMap == {[x1 |-> 0, x2 |-> 8, z1 |-> 0, z2 |-> 8]}
OneCorner == {Corner}
================================================================================
