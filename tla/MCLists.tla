---- MODULE MCLists ----
(* Two list heads and a few interchangeable nodes.                         *)
EXTENDS Lists
LOCAL INSTANCE TLC
MCSymmetry == Permutations(Nodes) \cup Permutations(Heads)
====
