------------------------------- MODULE Lists -------------------------------
(***************************************************************************)
(* The intrusive lists of src/include/list.h: sl (singly linked), stq      *)
(* (with a tail pointer), dl (prev points to the pointer to the node) and  *)
(* dtq (circular).  A behaviour uses one kind of list, two list heads and  *)
(* some nodes; every function is one action.                               *)
(*                                                                         *)
(* m.next[h] is list->first of head h, or head.next for dtq; m.prev[h] is  *)
(* list->last for stq, or head.prev for dtq.  The prev pointer of a dl     *)
(* node, the address of a next field, is the owner of that field.  The     *)
(* links of a node that was removed or freed are JUNK until they are set   *)
(* again: the caller may have changed them, and no function reads them.    *)
(***************************************************************************)
EXTENDS Integers, Sequences, FiniteSets
LOCAL INSTANCE SequencesExt

CONSTANTS Heads, Nodes, NULL, JUNK

ASSUME ListsAssumption ==
    /\ IsFiniteSet(Nodes) /\ Heads \cap Nodes = {} /\ {NULL, JUNK} \cap (Heads \cup Nodes) = {}
    /\ NULL # JUNK

VARIABLES kind,  \* which of the four lists
          m,     \* the memory: [next, prev]
          call   \* history: the last call and its result

vars == <<kind, m, call>>

Cells == Heads \cup Nodes

\* dtq_init makes the head point to itself
HeadInit(k, h) == IF k = "dtq" THEN h ELSE NULL

Init ==
    /\ kind \in {"sl", "stq", "dl", "dtq"}
    /\ LET x == [c \in Cells |-> IF c \in Heads THEN HeadInit(kind, c) ELSE JUNK]
       IN  m = [next |-> x, prev |-> x]
    /\ call = [op |-> "init", list |-> NULL, node |-> NULL, at |-> NULL, ret |-> NULL]

\* the nodes met from h along next (or prev): the FOREACH macros
Walk(x, h, field) ==
    LET w[k \in 0 .. Cardinality(Nodes) + 1] ==
          IF k = 0 THEN <<>>
          ELSE LET s == w[k - 1]
                   e == x[field][IF s = <<>> THEN h ELSE Last(s)]
               IN  IF e \in Nodes THEN Append(s, e) ELSE s
    IN  w[Cardinality(Nodes) + 1]

\* FOREACH_PREVPTR over the whole list: its last cell
EndOf(x, h) == LET w == Walk(x, h, "next") IN IF w = <<>> THEN h ELSE Last(w)

InList(n, h) == Contains(Walk(m, h, "next"), n)
OutOfAll(n) == \A h \in Heads : ~InList(n, h)

Links(x, n, v) == IF n = NULL THEN x ELSE [x EXCEPT !.next[n] = v, !.prev[n] = v]
Dropped(x, n) == Links(x, n, JUNK)

\* faulty variant: the next pointer is read after the node has been freed
FreedOneByOneUnsafe(x, h) ==
    LET f[k \in 0 .. Cardinality(Nodes)] ==
          IF k = 0 THEN [mem |-> x, node |-> x.next[h], freed |-> <<>>]
          ELSE LET g == f[k - 1]
                   y == Dropped(g.mem, g.node)
               IN  IF g.node \notin Nodes THEN g
                   ELSE [mem |-> y, node |-> y.next[g.node], freed |-> Append(g.freed, g.node)]
    IN  f[Cardinality(Nodes)]

\* FOREACH_SAFE with free_node in its body
FreedOneByOne(x, h) ==
    LET f[k \in 0 .. Cardinality(Nodes)] ==
          IF k = 0 THEN [mem |-> x, node |-> x.next[h], freed |-> <<>>]
          ELSE LET g == f[k - 1]
               IN  IF g.node \notin Nodes THEN g
                   ELSE [mem |-> Dropped(g.mem, g.node), node |-> g.mem.next[g.node],
                         freed |-> Append(g.freed, g.node)]
    IN  f[Cardinality(Nodes)]

-----------------------------------------------------------------------------
(***************************************************************************)
(* sl and stq.  A cell c stands for the node prev or, if that is NULL, for *)
(* the head.                                                               *)
(***************************************************************************)
sl_add_after(x, c, n) == [x EXCEPT !.next[n] = x.next[c], !.next[c] = n]

sl_del_after(x, c) ==
    LET n == x.next[c] IN IF n = NULL THEN x ELSE [x EXCEPT !.next[c] = x.next[n]]

sl_append(x, d, s) ==
    IF x.next[s] = NULL THEN x
    ELSE [x EXCEPT !.next[EndOf(x, d)] = x.next[s], !.next[s] = NULL]

stq_add_after(x, h, c, n) ==
    LET moves == x.prev[h] = IF c = h THEN NULL ELSE c
    IN  [sl_add_after(x, c, n) EXCEPT !.prev[h] = IF moves THEN n ELSE @]

\* faulty variant: the tail pointer stays when the last node goes
StqDelAfterKeepsLast(x, h, c) ==
    LET y == sl_del_after(x, c)
    IN  IF c = h /\ y.next[h] = NULL THEN [y EXCEPT !.prev[h] = NULL] ELSE y

stq_del_after(x, h, c) ==
    LET y == sl_del_after(x, c)
    IN  IF c = h THEN [y EXCEPT !.prev[h] = IF y.next[h] = NULL THEN NULL ELSE @]
        ELSE [y EXCEPT !.prev[h] = IF @ = x.next[c] THEN c ELSE @]

stq_add_tail(x, h, n) ==
    LET c == IF x.prev[h] = NULL THEN h ELSE x.prev[h]
    IN  [x EXCEPT !.next[n] = NULL, !.next[c] = n, !.prev[h] = n]

stq_append(x, d, s) ==
    IF x.next[s] = NULL THEN x
    ELSE [sl_append(x, d, s) EXCEPT !.prev[d] = x.prev[s], !.prev[s] = NULL]

(***************************************************************************)
(* dl                                                                      *)
(***************************************************************************)
\* dl_add_head, dl_add_after and dl_add_after_prevptr, for the cell *prev
dl_add_after(x, c, n) ==
    LET y == [x EXCEPT !.prev[n] = c, !.next[n] = x.next[c], !.next[c] = n]
    IN  IF x.next[c] = NULL THEN y ELSE [y EXCEPT !.prev[x.next[c]] = n]

dl_add_before(x, s, n) ==
    LET y == [x EXCEPT !.prev[n] = x.prev[s], !.next[n] = s, !.prev[s] = n]
    IN  IF x.prev[s] = NULL THEN y ELSE [y EXCEPT !.next[x.prev[s]] = n]

dl_del(x, n) ==
    LET y == IF x.prev[n] = NULL THEN x ELSE [x EXCEPT !.next[x.prev[n]] = x.next[n]]
    IN  IF x.next[n] = NULL THEN y ELSE [y EXCEPT !.prev[x.next[n]] = x.prev[n]]

dl_append(x, d, s) ==
    IF x.next[s] = NULL THEN x
    ELSE [x EXCEPT !.next[EndOf(x, d)] = x.next[s], !.prev[x.next[s]] = EndOf(x, d), !.next[s] = NULL]

(***************************************************************************)
(* dtq                                                                     *)
(***************************************************************************)
dtq_add_after(x, c, n) ==
    [x EXCEPT !.prev[n] = c, !.next[n] = x.next[c], !.next[c] = n, !.prev[x.next[c]] = n]

dtq_add_before(x, c, n) ==
    [x EXCEPT !.prev[n] = x.prev[c], !.next[n] = c, !.next[x.prev[c]] = n, !.prev[c] = n]

dtq_del(x, n) == [x EXCEPT !.next[x.prev[n]] = x.next[n], !.prev[x.next[n]] = x.prev[n]]

dtq_append(x, d, s) ==
    IF x.next[s] = s THEN x
    ELSE [x EXCEPT !.prev[x.next[s]] = x.prev[d], !.next[x.prev[s]] = x.next[x.prev[d]],
                   !.next[x.prev[d]] = x.next[s], !.prev[d] = x.prev[s],
                   !.next[s] = s, !.prev[s] = s]

dtq_node_is_linked(x, n) == x.next[n] # NULL

\* dtq_first and dtq_last are NULL for an empty list
dtq_end(x, h, field) == IF x[field][h] = h THEN NULL ELSE x[field][h]

-----------------------------------------------------------------------------
(***************************************************************************)
(* The calls.  A node that is to be added is in no list; the node a call   *)
(* is relative to is in the list.                                          *)
(***************************************************************************)
Do(op, h, n, at, mem, ret) ==
    /\ m' = mem /\ call' = [op |-> op, list |-> h, node |-> n, at |-> at, ret |-> ret]
    /\ UNCHANGED kind

Elems(h) == LET w == Walk(m, h, "next") IN {w[i] : i \in DOMAIN w}
Outside == {n \in Nodes : OutOfAll(n)}

\* a call that removes n and returns it, or NULL; its links become v
Gives(op, h, at, mem, n, v) == Do(op, h, NULL, at, Links(mem, n, v), n)

SlStep(h) ==
    \/ \E n \in Outside : \/ Do("add_head", h, n, NULL, sl_add_after(m, h, n), NULL)
                          \/ \E p \in Elems(h) : Do("add_after", h, n, p, sl_add_after(m, p, n), NULL)
    \/ Gives("del_head", h, NULL, sl_del_after(m, h), m.next[h], JUNK)
    \/ \E p \in Elems(h) : Gives("del_after", h, p, sl_del_after(m, p), m.next[p], JUNK)
    \/ \E s \in Heads \ {h} : Do("append", h, NULL, s, sl_append(m, h, s), NULL)

StqStep(h) ==
    \/ \E n \in Outside :
         \/ Do("add_head", h, n, NULL, stq_add_after(m, h, h, n), NULL)
         \/ Do("add_tail", h, n, NULL, stq_add_tail(m, h, n), NULL)
         \/ \E p \in Elems(h) : Do("add_after", h, n, p, stq_add_after(m, h, p, n), NULL)
    \/ Gives("del_head", h, NULL, stq_del_after(m, h, h), m.next[h], JUNK)
    \/ \E p \in Elems(h) : Gives("del_after", h, p, stq_del_after(m, h, p), m.next[p], JUNK)
    \/ \E s \in Heads \ {h} : Do("append", h, NULL, s, stq_append(m, h, s), NULL)

\* sl_del and stq_del look for the node and its predecessor first
DelFrom(h, n) ==
    LET w == Walk(m, h, "next")
        i == CHOOSE j \in DOMAIN w : w[j] = n
        c == IF i = 1 THEN h ELSE w[i - 1]
        y == IF kind = "sl" THEN sl_del_after(m, c) ELSE stq_del_after(m, h, c)
    IN  Do("del_from", h, n, NULL, IF n \in Elems(h) THEN Dropped(y, n) ELSE m, NULL)

\* in a list, or initialised since it was removed
Known(n) == ~OutOfAll(n) \/ m.next[n] = NULL

\* dl_del_head; dl_del_head_and_init_node reads first->next before anything
\* else, which ends the process if there is no first node, and takes a NULL
\* there, the mark of the only node, for an empty list
DlDelHead(h) ==
    LET f == m.next[h]
    IN  \/ Gives("del_head", h, NULL, IF f = NULL THEN m ELSE dl_del(m, f), f, JUNK)
        \/ f = NULL /\ Do("segv", h, NULL, NULL, m, NULL)
        \/ /\ f # NULL
           /\ IF m.next[f] = NULL THEN Do("del_head_and_init_node", h, NULL, NULL, m, NULL)
              ELSE Gives("del_head_and_init_node", h, NULL, dl_del(m, f), f, NULL)

DlStep(h) ==
    \/ \E n \in Outside :
         \/ Do("add_head", h, n, NULL, dl_add_after(m, h, n), NULL)
         \/ \E p \in Elems(h) : \/ Do("add_after", h, n, p, dl_add_after(m, p, n), NULL)
                                \/ Do("add_before", h, n, p, dl_add_before(m, p, n), NULL)
    \/ DlDelHead(h)
    \/ \E s \in Heads \ {h} : Do("append", h, NULL, s, dl_append(m, h, s), NULL)

\* dl_del and dl_del_and_init_node
DlDel(n) == Known(n) /\ \E v \in {JUNK, NULL} : Do("del", NULL, n, NULL, Links(dl_del(m, n), n, v), NULL)

\* dtq_del_and_init_node and dtq_move_and_add_tail ask dtq_node_is_linked
Unlinked(n) == IF dtq_node_is_linked(m, n) THEN dtq_del(m, n) ELSE m

\* an end of the list is removed; the node is left as it is or initialised
DtqDelEnd(op, h, n, v) == Gives(op, h, NULL, IF n = NULL THEN m ELSE dtq_del(m, n), n, v)

DtqStep(h) ==
    \/ \E n \in Outside :
         \/ Do("add_head", h, n, NULL, dtq_add_after(m, h, n), NULL)
         \/ Do("add_tail", h, n, NULL, dtq_add_before(m, h, n), NULL)
         \/ \E p \in Elems(h) : \/ Do("add_after", h, n, p, dtq_add_after(m, p, n), NULL)
                                \/ Do("add_before", h, n, p, dtq_add_before(m, p, n), NULL)
    \/ \E v \in {JUNK, NULL} : DtqDelEnd("del_head", h, dtq_end(m, h, "next"), v)
    \/ DtqDelEnd("del_tail", h, dtq_end(m, h, "prev"), JUNK)
    \/ \E n \in Nodes : Known(n) /\ Do("move_and_add_tail", h, n, NULL, dtq_add_before(Unlinked(n), h, n), NULL)
    \/ \E s \in Heads \ {h} : Do("append", h, NULL, s, dtq_append(m, h, s), NULL)

\* dtq_del of a node in a list, dtq_del_and_init_node of any
DtqDel(n) ==
    \/ ~OutOfAll(n) /\ Do("del", NULL, n, NULL, Dropped(dtq_del(m, n), n), NULL)
    \/ Known(n) /\ Do("del", NULL, n, NULL, Links(Unlinked(n), n, NULL), NULL)

FreeAll(h) ==
    LET g == FreedOneByOne(m, h)
    IN  Do("free_all", h, NULL, NULL, Links(g.mem, h, HeadInit(kind, h)), g.freed)

InitNode(n) == OutOfAll(n) /\ Do("init_node", NULL, n, NULL, Links(m, n, NULL), NULL)

Step ==
    \/ \E h \in Heads : \/ kind = "sl" /\ SlStep(h)
                        \/ kind = "stq" /\ StqStep(h)
                        \/ kind = "dl" /\ DlStep(h)
                        \/ kind = "dtq" /\ DtqStep(h)
                        \/ FreeAll(h)
                        \/ \E n \in Nodes : kind \in {"sl", "stq"} /\ DelFrom(h, n)
    \/ \E n \in Nodes : \/ kind = "dl" /\ DlDel(n)
                        \/ kind = "dtq" /\ DtqDel(n)
                        \/ InitNode(n)

\* nothing happens after a crash
Next == call.op # "segv" /\ Step

Spec == Init /\ [][Next]_vars

-----------------------------------------------------------------------------
\* The way back agrees with the way forward after any series of calls on two
\* lists: the tail pointer of stq is the last node or NULL, prev of dl is the
\* pointer that leads to the node, dtq is the same ring in both directions.
BackLinks ==
    \A h \in Heads :
      LET w == Walk(m, h, "next")
      IN  /\ kind = "stq" => m.prev[h] = IF w = <<>> THEN NULL ELSE Last(w)
          /\ kind = "dl" => \A i \in DOMAIN w : m.prev[w[i]] = IF i = 1 THEN h ELSE w[i - 1]
          /\ kind = "dtq" => /\ Walk(m, h, "prev") = Reverse(w)
                             /\ m.next[EndOf(m, h)] = h

Abstract == INSTANCE NodeLists WITH lists <- [h \in Heads |-> Walk(m, h, "next")]

\* What dl_del_head_and_init_node does instead of its job on a list of fewer
\* than two nodes: it leaves the only node where it is and returns NULL, and
\* dereferences the NULL first pointer of an empty list.
ShortListDefect(h) ==
    LET n == Len(Walk(m, h, "next"))
        Does(op) == call' = Abstract!Called(op, h, NULL, NULL, NULL) /\ UNCHANGED m
    IN  /\ kind = "dl"
        /\ (n = 1 /\ Does("del_head_and_init_node")) \/ (n = 0 /\ Does("segv"))

\* Every function does to the sequence what its name says and returns what
\* it should, at the head, the tail, the only node and the empty list, with
\* one exception: dl_del_head_and_init_node on lists of one node or none,
\* which is what ShortListDefect says.  The nodes of two lists never get
\* mixed up, and free_all frees each node once although it reads the links of
\* what it frees.
ImplementsNodeLists ==
    /\ Abstract!Init
    /\ [][Abstract!Next \/ \E h \in Heads : ShortListDefect(h)]_<<m, call>>
=============================================================================
