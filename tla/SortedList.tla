----------------------------- MODULE SortedList -----------------------------
(***************************************************************************)
(* What the red-black tree of src/include/rbtree.h promises: a list of     *)
(* nodes in key order, nodes of equal keys in the order of insertion.      *)
(***************************************************************************)
EXTENDS Integers, Sequences, FiniteSets

CONSTANTS Nodes, Key
VARIABLE list

Init == list = <<>>

Present(n) == \E i \in DOMAIN list : list[i] = n

Add(n) ==
    LET k == Cardinality({i \in DOMAIN list : Key[list[i]] <= Key[n]})
    IN  ~Present(n) /\ list' = SubSeq(list, 1, k) \o <<n>> \o SubSeq(list, k + 1, Len(list))

Erase(n) == Present(n) /\ list' = SelectSeq(list, LAMBDA m : m # n)

Replace(victim, new) ==
    /\ Present(victim) /\ ~Present(new) /\ Key[new] = Key[victim]
    /\ list' = [i \in DOMAIN list |-> IF list[i] = victim THEN new ELSE list[i]]

Next == \/ \E n \in Nodes : Add(n) \/ Erase(n)
        \/ \E v, n \in Nodes : Replace(v, n)

Spec == Init /\ [][Next]_list
=============================================================================
