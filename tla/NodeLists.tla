----------------------------- MODULE NodeLists -----------------------------
(***************************************************************************)
(* What the intrusive lists of src/include/list.h promise: every list is a *)
(* sequence of nodes, a node is in one list at most, and each function     *)
(* changes the sequences and returns as its name says.  call records the   *)
(* last call: its name, list, node, the node it is relative to, its result. *)
(***************************************************************************)
EXTENDS Integers, Sequences
LOCAL INSTANCE SequencesExt

CONSTANTS Heads, Nodes, NULL
VARIABLES lists, call

vars == <<lists, call>>

Called(op, h, n, at, ret) == [op |-> op, list |-> h, node |-> n, at |-> at, ret |-> ret]

Init == lists = [h \in Heads |-> <<>>] /\ call = Called("init", NULL, NULL, NULL, NULL)

In(n, h) == Contains(lists[h], n)
Out(n) == \A h \in Heads : ~In(n, h)
Without(n) == [h \in Heads |-> Remove(lists[h], n)]
At(h, p) == CHOOSE i \in DOMAIN lists[h] : lists[h][i] = p

AddHead(h, n) ==
    /\ call' = Called("add_head", h, n, NULL, NULL)
    /\ Out(n) /\ lists' = [lists EXCEPT ![h] = <<n>> \o @]

AddTail(h, n) ==
    /\ call' = Called("add_tail", h, n, NULL, NULL)
    /\ Out(n) /\ lists' = [lists EXCEPT ![h] = Append(@, n)]

AddAfter(h, p, n) ==
    /\ call' = Called("add_after", h, n, p, NULL)
    /\ Out(n) /\ In(p, h) /\ lists' = [lists EXCEPT ![h] = InsertAt(@, At(h, p) + 1, n)]

AddBefore(h, s, n) ==
    /\ call' = Called("add_before", h, n, s, NULL)
    /\ Out(n) /\ In(s, h) /\ lists' = [lists EXCEPT ![h] = InsertAt(@, At(h, s), n)]

\* a call that removes n, the node it returns, or nothing if n is NULL
Returns(op, h, at, n) ==
    call' = Called(op, h, NULL, at, n) /\ lists' = [lists EXCEPT ![h] = Remove(@, n)]

\* del_head or del_head_and_init_node
DelHead(h) == \E op \in {"del_head", "del_head_and_init_node"} :
                Returns(op, h, NULL, IF lists[h] = <<>> THEN NULL ELSE Head(lists[h]))
DelTail(h) == Returns("del_tail", h, NULL, IF lists[h] = <<>> THEN NULL ELSE Last(lists[h]))

DelAfter(h, p) ==
    /\ In(p, h)
    /\ LET i == At(h, p) + 1
       IN  Returns("del_after", h, p, IF i \in DOMAIN lists[h] THEN lists[h][i] ELSE NULL)

\* the node is removed from the list it is in, if any
Del(n) == call' = Called("del", NULL, n, NULL, NULL) /\ lists' = Without(n)

\* sl_del and stq_del search one list
DelFrom(h, n) ==
    /\ call' = Called("del_from", h, n, NULL, NULL)
    /\ lists' = [lists EXCEPT ![h] = Remove(@, n)]

MoveTail(h, n) ==
    /\ call' = Called("move_and_add_tail", h, n, NULL, NULL)
    /\ lists' = [Without(n) EXCEPT ![h] = Append(@, n)]

Concat(d, s) ==
    /\ call' = Called("append", d, NULL, s, NULL)
    /\ d # s /\ lists' = [lists EXCEPT ![d] = @ \o lists[s], ![s] = <<>>]

\* every node is freed once, in order
FreeAll(h) ==
    /\ call' = Called("free_all", h, NULL, NULL, lists[h])
    /\ lists' = [lists EXCEPT ![h] = <<>>]

InitNode(n) == call' = Called("init_node", NULL, n, NULL, NULL) /\ Out(n) /\ UNCHANGED lists

Next ==
    \/ \E h \in Heads : DelHead(h) \/ DelTail(h) \/ FreeAll(h)
    \/ \E n \in Nodes : Del(n) \/ InitNode(n)
    \/ \E h \in Heads, n \in Nodes :
         AddHead(h, n) \/ AddTail(h, n) \/ DelAfter(h, n) \/ DelFrom(h, n) \/ MoveTail(h, n)
    \/ \E h \in Heads, p, n \in Nodes : AddAfter(h, p, n) \/ AddBefore(h, p, n)
    \/ \E d, s \in Heads : Concat(d, s)

Spec == Init /\ [][Next]_vars
=============================================================================
