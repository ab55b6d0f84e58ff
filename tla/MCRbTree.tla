---- MODULE MCRbTree ----
(* Nodes are numbers; the first two have equal keys.  The weights go up    *)
(* and down along the keys, so that the largest one comes from all sides.  *)
EXTENDS RbTree
CONSTANT Size
MCNodes == 1 .. Size
MCKey == [n \in 1 .. Size |-> IF n = 2 THEN 1 ELSE n]
MCWeight == [n \in 1 .. Size |-> IF n = 2 THEN 7 ELSE (7 * n) % 11]
====
