--------------------------- MODULE CasQueueProofs ---------------------------
(***************************************************************************)
(* The lock-free queue for every number of producers, nodes and            *)
(* iterations: it implements BatchQueue although next pointers of earlier  *)
(* iterations stay in the nodes, and the consumer walks over exactly the   *)
(* nodes it detached.                                                      *)
(***************************************************************************)
EXTENDS CasQueue, ChainsProofs, SequenceTheorems

ProdRecs == [pc : {"load", "link", "swing", "done"}, i : 1 .. Count, old : Nodes \cup {HEAD, NULL}]
ConsRecs == [pc : {"check", "first", "load", "cas", "clear", "advance", "walk", "done"}, first : Nodes \cup {NULL},
             old : Nodes \cup {HEAD, NULL}, node : Nodes \cup {NULL}, count : Nat]

TypeInv ==
    /\ next \in [Nodes \cup {HEAD} -> Nodes \cup {NULL}] /\ last \in Nodes \cup {HEAD}
    /\ prod \in [Producers -> ProdRecs]
    /\ cons \in ConsRecs
    /\ got \in Seq(Nodes) /\ taken \in Seq(Nodes) /\ run \in Nat

\* n has been pushed
IsPushed(n) == n[2] < prod[n[1]].i \/ prod[n[1]].pc = "done"

\* q is what is queued: a path from head.next to last
QueueIs(q) ==
    /\ last = IF q = <<>> THEN HEAD ELSE q[Len(q)]
    /\ q # <<>> => next[HEAD] = q[1]
    /\ \A i \in 1 .. Len(q) - 1 : next[q[i]] = q[i + 1]
    /\ Distinct(q)

\* no node is lost or taken twice: the pushed ones are queued or taken
NodesInv(q) ==
    /\ \A i \in 1 .. Len(q) : IsPushed(q[i]) /\ ~Among(q[i], taken)
    /\ \A i \in 1 .. Len(taken) : IsPushed(taken[i])
    /\ Distinct(taken)
    /\ \A n \in Nodes : IsPushed(n) => Among(n, q) \/ Among(n, taken)

\* a producer works behind a node that was in the queue in this iteration; if
\* it has linked its own node there, no other producer can link behind it, and
\* behind the head nothing else can happen until it is done
PushInv(p) ==
    /\ prod[p].pc \in {"link", "swing"} => prod[p].old = HEAD \/ (prod[p].old \in Nodes /\ IsPushed(prod[p].old))
    /\ prod[p].pc = "swing" /\ (prod[p].old = last \/ prod[p].old = HEAD) => next[prod[p].old] = Node(p)
    /\ prod[p].pc = "swing" /\ prod[p].old = HEAD => last = HEAD /\ cons.pc # "clear"

\* what the consumer has read of the queue, and the batch b it has yet to walk
PopInv(q, b) ==
    /\ cons.pc \in {"first", "load", "cas", "advance"} => q # <<>>
    /\ cons.pc \in {"load", "cas", "advance"} => cons.first = next[HEAD]
    /\ cons.pc = "cas" => Among(cons.old, q)
    /\ cons.pc = "advance" => Among(cons.old, q) /\ cons.old # last
    /\ cons.pc = "clear" => q = <<>> /\ b # <<>> /\ cons.first = b[1] /\ next[HEAD] = b[1] /\ cons.old = b[Len(b)]
    /\ cons.pc = "walk" => b # <<>> /\ cons.node = b[1] /\ cons.old = b[Len(b)]
    /\ cons.pc \notin {"clear", "walk"} => b = <<>>
    /\ Linked(next, b) /\ taken = got \o b
    /\ cons.count = Len(got) + 1
    /\ cons.pc = "done" => cons.count >= Sum

Inv(q, b) == TypeInv /\ QueueIs(q) /\ NodesInv(q) /\ (\A p \in Producers : PushInv(p)) /\ PopInv(q, b)

IInv == \E q, b \in Seq(Nodes) : Inv(q, b)

-----------------------------------------------------------------------------
\* There are finitely many nodes.
LEMMA NodesFinite == IsFiniteSet(Nodes) /\ Sum \in Nat
<1>1. IsFiniteSet(1 .. Count)
  BY CasQueueAssumption, FS_Interval
<1>2. IsFiniteSet(Nodes)
  BY <1>1, CasQueueAssumption, FS_Product DEF Nodes
<1>3. QED BY <1>2, FS_CardinalityType DEF Sum

\* What a path of the queue looks like, and what Chain reads off from it.
LEMMA QueueFacts ==
    ASSUME TypeInv, NEW q \in Seq(Nodes), QueueIs(q), q # <<>>
    PROVE  /\ Len(q) \in Nat /\ Len(q) > 0 /\ last = q[Len(q)] /\ last \in Nodes /\ last # HEAD
           /\ next[HEAD] = q[1] /\ next[HEAD] \in Nodes /\ next[HEAD] # NULL
           /\ \A i \in 1 .. Len(q) : q[i] \in Nodes
           /\ \A k \in 1 .. Len(q) : /\ Chain(next, q[1], q[k], Sum) = SubSeq(q, 1, k)
                                     /\ Linked(next, SubSeq(q, 1, k))
<1>1. /\ Len(q) \in Nat /\ Len(q) > 0 /\ \A i \in 1 .. Len(q) : q[i] \in Nodes
  OBVIOUS
<1>2. last = q[Len(q)] /\ next[HEAD] = q[1]
  BY DEF QueueIs
<1>3. 1 \in 1 .. Len(q) /\ Len(q) \in 1 .. Len(q)
  BY <1>1
<1>4. last \in Nodes /\ next[HEAD] \in Nodes /\ HEAD \notin Nodes /\ NULL \notin Nodes
  BY <1>1, <1>2, <1>3, CasQueueAssumption DEF Nodes
<1>5. ASSUME NEW k \in 1 .. Len(q)
      PROVE  Chain(next, q[1], q[k], Sum) = SubSeq(q, 1, k) /\ Linked(next, SubSeq(q, 1, k))
  <2>1. Distinct(q) /\ \A i \in 1 .. Len(q) - 1 : next[q[i]] = q[i + 1]
    BY DEF QueueIs
  <2>2. \A i \in 1 .. Len(q) - 1 : q[i] \in DOMAIN next
    <3>1. DOMAIN next = Nodes \cup {HEAD}
      BY DEF TypeInv
    <3>2. \A i \in 1 .. Len(q) - 1 : i \in 1 .. Len(q)
      BY <1>1
    <3>3. QED BY <1>1, <3>1, <3>2
  <2>3. Len(q) <= Sum + 1 /\ Sum \in Nat
    <3>1. Len(q) <= Sum
      BY <2>1, NodesFinite, DistinctBound DEF Sum
    <3>2. QED BY <1>1, <3>1, NodesFinite
  <2>4. QED BY <2>1, <2>2, <2>3, PathIs
<1>6. QED BY <1>1, <1>2, <1>4, <1>5

ContentsFact == \A q \in Seq(Nodes) : TypeInv /\ QueueIs(q) => Contents = q

\* Contents reads off the queue.
LEMMA ContentsIs == ContentsFact
<1> SUFFICES ASSUME NEW q \in Seq(Nodes), TypeInv, QueueIs(q) PROVE Contents = q
  BY DEF ContentsFact
<1>1. CASE q = <<>>
  BY <1>1 DEF QueueIs, Contents
<1>2. CASE q # <<>>
  <2>1. last # HEAD /\ next[HEAD] = q[1] /\ last = q[Len(q)] /\ Len(q) \in 1 .. Len(q)
    BY <1>2, QueueFacts
  <2>2. Chain(next, q[1], q[Len(q)], Sum) = SubSeq(q, 1, Len(q))
    BY <1>2, <2>1, QueueFacts
  <2>3. SubSeq(q, 1, Len(q)) = q
    OBVIOUS
  <2>4. QED BY <2>1, <2>2, <2>3 DEF Contents
<1>3. QED BY <1>1, <1>2

\* In the next state too.
LEMMA ContentsIsNext == ContentsFact'
  BY ContentsIs, PTL

(***************************************************************************)
(* cas_queue_push                                                          *)
(***************************************************************************)
\* A producer that does not finish a push pushes nothing.
LEMMA SamePushed ==
    ASSUME TypeInv, NEW p \in Producers, NEW r \in ProdRecs, prod' = [prod EXCEPT ![p] = r],
           r.i = prod[p].i, prod[p].pc # "done", r.pc # "done"
    PROVE  \A n \in Nodes : IsPushed(n)' <=> IsPushed(n)
<1>1. \A d \in Producers : prod'[d].i = prod[d].i /\ (prod'[d].pc = "done" <=> prod[d].pc = "done")
  BY DEF TypeInv
<1>2. \A n \in Nodes : n[1] \in Producers
  BY DEF Nodes
<1>3. QED BY <1>1, <1>2 DEF IsPushed

\* Then the nodes are where they were.
LEMMA SameNodes ==
    ASSUME TypeInv, NEW q \in Seq(Nodes), NodesInv(q), taken' = taken,
           \A n \in Nodes : IsPushed(n)' <=> IsPushed(n)
    PROVE  NodesInv(q)'
<1>1. (\A i \in 1 .. Len(q) : q[i] \in Nodes) /\ \A i \in 1 .. Len(taken) : taken[i] \in Nodes
  BY DEF TypeInv
<1>2. \A i \in 1 .. Len(q) : IsPushed(q[i])' /\ ~Among(q[i], taken')
  BY <1>1 DEF NodesInv
<1>3. \A i \in 1 .. Len(taken') : taken'[i] = taken[i] /\ IsPushed(taken[i])'
  BY <1>1 DEF NodesInv
<1>4. Distinct(taken') /\ \A n \in Nodes : IsPushed(n)' => Among(n, q) \/ Among(n, taken')
  BY DEF NodesInv
<1>5. QED BY <1>2, <1>3, <1>4 DEF NodesInv, Among, Distinct, IsPushed

\* The queue and the consumer do not see a producer's private steps.
LEMMA Unseen ==
    ASSUME NEW q \in Seq(Nodes), NEW b \in Seq(Nodes), QueueIs(q), PopInv(q, b),
           UNCHANGED <<next, last, cons, got, taken>>
    PROVE  QueueIs(q)' /\ PopInv(q, b)'
BY DEF QueueIs, PopInv, Among, Distinct, Linked

\* Loading last.
LEMMA LoadKeeps ==
    ASSUME NEW q \in Seq(Nodes), NEW b \in Seq(Nodes), Inv(q, b), NEW p \in Producers, PushLoad(p)
    PROVE  Inv(q, b)' /\ taken' = taken
<1>0. TypeInv /\ QueueIs(q) /\ NodesInv(q) /\ (\A d \in Producers : PushInv(d)) /\ PopInv(q, b)
  BY DEF Inv
<1>1. UNCHANGED <<next, last, cons, got, taken, run>> /\ prod[p].pc = "load" /\ prod[p] \in ProdRecs
      /\ prod \in [Producers -> ProdRecs] /\ last \in Nodes \cup {HEAD}
  BY <1>0 DEF PushLoad, TypeInv
<1>2. PICK r \in ProdRecs : prod' = [prod EXCEPT ![p] = r] /\ r.pc = "link" /\ r.old = last /\ r.i = prod[p].i
  <2> DEFINE x == [prod[p] EXCEPT !.pc = "link", !.old = last]
  <2>1. x \in ProdRecs /\ x.pc = "link" /\ x.old = last /\ x.i = prod[p].i
    BY <1>1 DEF ProdRecs
  <2>2. prod' = [prod EXCEPT ![p] = x]
    BY <1>1 DEF PushLoad
  <2> HIDE DEF x
  <2>3. QED BY <2>1, <2>2
<1>3. prod'[p] = r /\ (\A d \in Producers : d # p => prod'[d] = prod[d]) /\ prod' \in [Producers -> ProdRecs]
  BY <1>1, <1>2
<1>4. \A n \in Nodes : IsPushed(n)' <=> IsPushed(n)
  BY <1>0, <1>1, <1>2, SamePushed
<1>5. TypeInv' /\ NodesInv(q)' /\ QueueIs(q)' /\ PopInv(q, b)'
  BY <1>0, <1>1, <1>3, <1>4, SameNodes, Unseen DEF TypeInv
<1>6. last = HEAD \/ (last \in Nodes /\ IsPushed(last)')
  <2>1. CASE q = <<>>
    BY <1>0, <2>1 DEF QueueIs
  <2>2. CASE q # <<>>
    <3>1. Len(q) \in 1 .. Len(q) /\ last = q[Len(q)] /\ last \in Nodes
      BY <1>0, <2>2, QueueFacts
    <3>2. IsPushed(last)
      BY <1>0, <3>1 DEF NodesInv
    <3>3. PICK n \in Nodes : n = last
      BY <3>1
    <3>4. IsPushed(n)'
      BY <1>4, <3>2, <3>3
    <3>5. QED BY <1>1, <3>3, <3>4 DEF IsPushed
  <2>3. QED BY <2>1, <2>2
<1>7. ASSUME NEW d \in Producers PROVE PushInv(d)'
  <2>1. CASE d = p
    BY <1>1, <1>2, <1>3, <1>6, <2>1 DEF PushInv, IsPushed
  <2>2. CASE d # p
    <3>1. prod'[d] = prod[d] /\ PushInv(d)
      BY <1>0, <1>3, <2>2
    <3>2. QED BY <1>1, <1>4, <3>1 DEF PushInv, Node, IsPushed
  <2>3. QED BY <2>1, <2>2
<1>8. QED BY <1>1, <1>5, <1>7 DEF Inv

\* Linking behind the node loaded, which may have been detached meanwhile.
LEMMA LinkKeeps ==
    ASSUME NEW q \in Seq(Nodes), NEW b \in Seq(Nodes), Inv(q, b), NEW p \in Producers, PushLink(p)
    PROVE  Inv(q, b)' /\ taken' = taken
<1>0. TypeInv /\ QueueIs(q) /\ NodesInv(q) /\ (\A d \in Producers : PushInv(d)) /\ PopInv(q, b)
  BY DEF Inv
<1>1. /\ UNCHANGED <<last, cons, got, taken, run>> /\ prod[p].pc = "link" /\ prod[p] \in ProdRecs
      /\ prod \in [Producers -> ProdRecs] /\ next \in [Nodes \cup {HEAD} -> Nodes \cup {NULL}]
      /\ HEAD \notin Nodes /\ NULL \notin Nodes /\ HEAD # NULL
  BY <1>0, CasQueueAssumption DEF PushLink, TypeInv, Nodes
<1>2. PICK o \in Nodes \cup {HEAD} : o = prod[p].old
  BY <1>0, <1>1 DEF PushInv
<1>3. PICK n \in Nodes : n = Node(p)
  BY <1>1 DEF Node, Nodes, ProdRecs
<1>4. ASSUME NEW e \in {"swing", "load"}, prod' = [prod EXCEPT ![p].pc = e]
      PROVE  \E r \in ProdRecs : prod' = [prod EXCEPT ![p] = r] /\ r.pc = e /\ r.old = o /\ r.i = prod[p].i
  <2> DEFINE x == [prod[p] EXCEPT !.pc = e]
  <2>1. x \in ProdRecs /\ x.pc = e /\ x.old = o /\ x.i = prod[p].i
    BY <1>1, <1>2 DEF ProdRecs
  <2>2. prod' = [prod EXCEPT ![p] = x]
    BY <1>1, <1>4
  <2> HIDE DEF x
  <2>3. QED BY <2>1, <2>2
<1>5. CASE next[o] # NULL
  <2>1. next' = next /\ prod' = [prod EXCEPT ![p].pc = "load"]
    BY <1>2, <1>5 DEF PushLink
  <2>2. PICK r \in ProdRecs : prod' = [prod EXCEPT ![p] = r] /\ r.pc = "load" /\ r.old = o /\ r.i = prod[p].i
    BY <1>4, <2>1
  <2>3. prod'[p] = r /\ (\A d \in Producers : d # p => prod'[d] = prod[d]) /\ prod' \in [Producers -> ProdRecs]
    BY <1>1, <2>2
  <2>4. \A m \in Nodes : IsPushed(m)' <=> IsPushed(m)
    BY <1>0, <1>1, <2>2, SamePushed
  <2>5. TypeInv' /\ NodesInv(q)' /\ QueueIs(q)' /\ PopInv(q, b)'
    BY <1>0, <1>1, <2>1, <2>3, <2>4, SameNodes, Unseen DEF TypeInv
  <2>6. ASSUME NEW d \in Producers PROVE PushInv(d)'
    <3>1. CASE d = p
      BY <2>2, <2>3, <3>1 DEF PushInv
    <3>2. CASE d # p
      <4>1. prod'[d] = prod[d] /\ PushInv(d)
        BY <1>0, <2>3, <3>2
      <4>2. QED BY <1>1, <2>1, <2>4, <4>1 DEF PushInv, Node, IsPushed
    <3>3. QED BY <3>1, <3>2
  <2>7. QED BY <1>1, <2>5, <2>6 DEF Inv
<1>6. CASE next[o] = NULL
  <2>1. next' = [next EXCEPT ![o] = n] /\ prod' = [prod EXCEPT ![p].pc = "swing"]
    BY <1>2, <1>3, <1>6 DEF PushLink
  <2>2. PICK r \in ProdRecs : prod' = [prod EXCEPT ![p] = r] /\ r.pc = "swing" /\ r.old = o /\ r.i = prod[p].i
    BY <1>4, <2>1
  <2>3. prod'[p] = r /\ (\A d \in Producers : d # p => prod'[d] = prod[d]) /\ prod' \in [Producers -> ProdRecs]
    BY <1>1, <2>2
  <2>4. \A m \in Nodes : IsPushed(m)' <=> IsPushed(m)
    BY <1>0, <1>1, <2>2, SamePushed
  <2>5. /\ next' \in [Nodes \cup {HEAD} -> Nodes \cup {NULL}] /\ next'[o] = n
        /\ \A m \in Nodes \cup {HEAD} : next[m] # NULL => next'[m] = next[m]
    BY <1>1, <1>6, <2>1
  <2>6. TypeInv' /\ NodesInv(q)'
    BY <1>0, <1>1, <2>3, <2>4, <2>5, SameNodes DEF TypeInv
  <2>7. next[HEAD] = NULL => last = HEAD /\ q = <<>> /\ cons.pc # "clear"
    <3>1. next[HEAD] = NULL => q = <<>>
      BY <1>0, QueueFacts
    <3>2. q = <<>> => last = HEAD
      BY <1>0 DEF QueueIs
    <3>3. cons.pc = "clear" => next[HEAD] # NULL
      <4>1. b # <<>> => b[1] \in Nodes
        OBVIOUS
      <4>2. QED BY <1>0, <1>1, <4>1 DEF PopInv
    <3>4. QED BY <3>1, <3>2, <3>3
  <2>8. QueueIs(q)'
    <3>1. q # <<>> => next'[HEAD] = q[1]
      BY <1>0, <2>5, QueueFacts DEF QueueIs
    <3>2. ASSUME NEW i \in 1 .. Len(q) - 1 PROVE next'[q[i]] = q[i + 1]
      <4>1. i \in 1 .. Len(q) /\ i + 1 \in 1 .. Len(q)
        OBVIOUS
      <4>2. q[i] \in Nodes /\ q[i + 1] \in Nodes /\ next[q[i]] = q[i + 1]
        BY <1>0, <4>1 DEF QueueIs
      <4>3. QED BY <1>1, <2>5, <4>2
    <3>3. QED BY <1>0, <1>1, <3>1, <3>2 DEF QueueIs, Distinct
  <2>9. PopInv(q, b)'
    <3>1. Linked(next', b)
      <4>1. ASSUME NEW i \in 1 .. Len(b) - 1 PROVE b[i] # b[Len(b)] /\ b[i] \in DOMAIN next' /\ next'[b[i]] = b[i + 1]
        <5>1. i \in 1 .. Len(b) /\ i + 1 \in 1 .. Len(b)
          OBVIOUS
        <5>2. b[i] \in Nodes /\ b[i + 1] \in Nodes /\ next[b[i]] = b[i + 1] /\ b[i] # b[Len(b)]
          BY <1>0, <5>1 DEF PopInv, Linked
        <5>3. QED BY <1>1, <2>5, <5>2
      <4>2. QED BY <4>1 DEF Linked
    <3>2. next[HEAD] # NULL => next'[HEAD] = next[HEAD]
      BY <2>5
    <3>3. cons.pc \in {"first", "load", "cas", "advance", "clear"} => next'[HEAD] = next[HEAD]
      BY <1>0, <2>7, <3>2 DEF PopInv
    <3>4. QED BY <1>0, <1>1, <3>1, <3>3 DEF PopInv, Among
  <2>10. ASSUME NEW d \in Producers PROVE PushInv(d)'
    <3>1. CASE d = p
      <4>1. Node(d)' = n
        BY <1>3, <2>2, <2>3, <3>1 DEF Node
      <4>2. o = HEAD \/ (o \in Nodes /\ IsPushed(o)')
        BY <1>0, <1>1, <1>2, <2>4 DEF PushInv
      <4>3. QED BY <1>1, <1>6, <2>2, <2>3, <2>5, <2>7, <3>1, <4>1, <4>2 DEF PushInv, IsPushed
    <3>2. CASE d # p
      <4>1. prod'[d] = prod[d] /\ PushInv(d) /\ Node(d)' = Node(d)
        BY <1>0, <2>3, <3>2 DEF Node
      <4>2. prod[d].pc \in {"link", "swing"} => prod[d].old = HEAD \/ (prod[d].old \in Nodes /\ IsPushed(prod[d].old)')
        <5>1. SUFFICES ASSUME prod[d].pc \in {"link", "swing"}, prod[d].old # HEAD
                       PROVE  prod[d].old \in Nodes /\ IsPushed(prod[d].old)'
          OBVIOUS
        <5>2. PICK m \in Nodes : m = prod[d].old /\ IsPushed(m)
          BY <4>1, <5>1 DEF PushInv
        <5>3. IsPushed(m)'
          BY <2>4, <5>2
        <5>4. QED BY <4>1, <5>2, <5>3 DEF IsPushed
      <4>3. Node(d) # NULL
        BY <1>1 DEF Node, Nodes, ProdRecs
      <4>4. prod[d].pc = "swing" /\ (prod[d].old = last \/ prod[d].old = HEAD) => next'[prod[d].old] = Node(d)
        <5>1. SUFFICES ASSUME prod[d].pc = "swing", prod[d].old = last \/ prod[d].old = HEAD
                       PROVE  next'[prod[d].old] = Node(d)
          OBVIOUS
        <5>2. next[prod[d].old] = Node(d) /\ prod[d].old \in Nodes \cup {HEAD}
          BY <4>1, <5>1 DEF PushInv
        <5>3. QED BY <2>5, <4>3, <5>2
      <4>5. QED BY <1>1, <4>1, <4>2, <4>4 DEF PushInv, IsPushed
    <3>3. QED BY <3>1, <3>2
  <2>11. QED BY <1>1, <2>6, <2>8, <2>9, <2>10 DEF Inv
<1>7. QED BY <1>5, <1>6

\* A queue with one more node.
LEMMA Extended ==
    ASSUME NEW q \in Seq(Nodes), NEW n \in Nodes
    PROVE  /\ Append(q, n) \in Seq(Nodes) /\ Append(q, n) # <<>> /\ Len(q) \in Nat /\ Len(Append(q, n)) = Len(q) + 1
           /\ Append(q, n)[Len(q) + 1] = n /\ \A i \in 1 .. Len(q) : Append(q, n)[i] = q[i]
           /\ \A m : Among(m, Append(q, n)) <=> Among(m, q) \/ m = n
           /\ Distinct(q) /\ ~Among(n, q) => Distinct(Append(q, n))
<1> DEFINE u == Append(q, n)
<1>1. /\ u \in Seq(Nodes) /\ Len(q) \in Nat /\ Len(u) = Len(q) + 1
      /\ u[Len(q) + 1] = n /\ \A i \in 1 .. Len(q) : u[i] = q[i]
  OBVIOUS
<1> HIDE DEF u
<1>2. \A i \in 1 .. Len(u) : i \in 1 .. Len(q) \/ i = Len(q) + 1
  BY <1>1
<1>3. u # <<>>
  BY <1>1
<1>4. \A i \in 1 .. Len(q) : i \in 1 .. Len(u)
  BY <1>1
<1>5. Len(q) + 1 \in 1 .. Len(u)
  BY <1>1
<1>6. \A m : Among(m, u) <=> Among(m, q) \/ m = n
  BY <1>1, <1>2, <1>4, <1>5 DEF Among
<1>7. Distinct(q) /\ ~Among(n, q) => Distinct(u)
  BY <1>1, <1>2 DEF Distinct, Among
<1>8. QED BY <1>1, <1>3, <1>6, <1>7 DEF u

\* Swinging last appends the node, if old_node is still last.
LEMMA SwingKeeps ==
    ASSUME NEW q \in Seq(Nodes), NEW b \in Seq(Nodes), Inv(q, b), NEW p \in Producers, PushSwing(p)
    PROVE  /\ taken' = taken
           /\ \/ Inv(q, b)'
              \/ \E n \in Nodes : ~Among(n, q) /\ ~Among(n, taken) /\ Inv(Append(q, n), b)'
<1>0. TypeInv /\ QueueIs(q) /\ NodesInv(q) /\ (\A d \in Producers : PushInv(d)) /\ PopInv(q, b)
  BY DEF Inv
<1>1. /\ UNCHANGED <<next, cons, got, taken, run>> /\ prod[p].pc = "swing" /\ prod[p] \in ProdRecs
      /\ prod \in [Producers -> ProdRecs] /\ next \in [Nodes \cup {HEAD} -> Nodes \cup {NULL}]
      /\ HEAD \notin Nodes /\ NULL \notin Nodes /\ HEAD # NULL /\ Count \in Nat \ {0}
  BY <1>0, CasQueueAssumption DEF PushSwing, TypeInv, Nodes
<1>2. CASE last # prod[p].old
  <2>1. last' = last /\ prod' = [prod EXCEPT ![p].pc = "load"]
    BY <1>2 DEF PushSwing
  <2>2. PICK r \in ProdRecs : prod' = [prod EXCEPT ![p] = r] /\ r.pc = "load" /\ r.i = prod[p].i
    <3> DEFINE x == [prod[p] EXCEPT !.pc = "load"]
    <3>1. x \in ProdRecs /\ x.pc = "load" /\ x.i = prod[p].i
      BY <1>1 DEF ProdRecs
    <3>2. prod' = [prod EXCEPT ![p] = x]
      BY <1>1, <2>1
    <3> HIDE DEF x
    <3>3. QED BY <3>1, <3>2
  <2>3. prod'[p] = r /\ (\A d \in Producers : d # p => prod'[d] = prod[d]) /\ prod' \in [Producers -> ProdRecs]
    BY <1>1, <2>2
  <2>4. \A m \in Nodes : IsPushed(m)' <=> IsPushed(m)
    BY <1>0, <1>1, <2>2, SamePushed
  <2>5. TypeInv' /\ NodesInv(q)' /\ QueueIs(q)' /\ PopInv(q, b)'
    BY <1>0, <1>1, <2>1, <2>3, <2>4, SameNodes, Unseen DEF TypeInv
  <2>6. ASSUME NEW d \in Producers PROVE PushInv(d)'
    <3>1. CASE d = p
      BY <2>2, <2>3, <3>1 DEF PushInv
    <3>2. CASE d # p
      <4>1. prod'[d] = prod[d] /\ PushInv(d)
        BY <1>0, <2>3, <3>2
      <4>2. QED BY <1>1, <2>1, <2>4, <4>1 DEF PushInv, Node, IsPushed
    <3>3. QED BY <3>1, <3>2
  <2>7. QED BY <1>1, <2>5, <2>6 DEF Inv
<1>3. CASE last = prod[p].old
  <2>1. PICK n \in Nodes : n = <<p, prod[p].i>> /\ n = Node(p)
    BY <1>1 DEF Node, Nodes, ProdRecs
  <2>2. last' = n /\ prod' = Pushed(p)
    BY <1>3, <2>1 DEF PushSwing
  <2>3. PICK r \in ProdRecs : /\ prod' = [prod EXCEPT ![p] = r] /\ r.pc \in {"load", "done"}
                              /\ r.pc = "done" => prod[p].i = Count
                              /\ r.pc = "load" => r.i = prod[p].i + 1
    <3> DEFINE e == IF prod[p].i = Count THEN "done" ELSE "load"
               j == IF prod[p].i = Count THEN Count ELSE prod[p].i + 1
               x == [pc |-> e, i |-> j, old |-> NULL]
    <3>1. prod[p].i \in 1 .. Count
      BY <1>1 DEF ProdRecs
    <3>2. e \in {"load", "done"} /\ j \in 1 .. Count /\ (e = "done" => prod[p].i = Count) /\ (e = "load" => j = prod[p].i + 1)
      BY <1>1, <3>1
    <3>3. prod' = [prod EXCEPT ![p] = x]
      BY <2>2 DEF Pushed
    <3> HIDE DEF e, j
    <3>4. x \in ProdRecs /\ x.pc = e /\ x.i = j
      BY <3>2 DEF ProdRecs
    <3> HIDE DEF x
    <3>5. QED BY <3>2, <3>3, <3>4
  <2>4. prod'[p] = r /\ (\A d \in Producers : d # p => prod'[d] = prod[d]) /\ prod' \in [Producers -> ProdRecs]
    BY <1>1, <2>3
  <2>5. ~IsPushed(n)
    <3>1. n[1] = p /\ n[2] = prod[p].i /\ prod[p].i \in Nat
      BY <1>1, <2>1 DEF ProdRecs
    <3>2. QED BY <1>1, <3>1 DEF IsPushed
  <2>6. \A m \in Nodes : IsPushed(m)' <=> IsPushed(m) \/ m = n
    <3>1. TAKE m \in Nodes
    <3>2. m[1] \in Producers /\ m[2] \in 1 .. Count /\ m = <<m[1], m[2]>> /\ prod[p].i \in 1 .. Count
      BY <1>1 DEF Nodes, ProdRecs
    <3>3. CASE m[1] # p
      <4>1. prod'[m[1]] = prod[m[1]] /\ m # n
        BY <2>1, <2>4, <3>2, <3>3
      <4>2. QED BY <4>1 DEF IsPushed
    <3>4. CASE m[1] = p
      <4>1. m = n <=> m[2] = prod[p].i
        BY <2>1, <3>2, <3>4
      <4>2. IsPushed(m) <=> m[2] < prod[p].i
        BY <1>1, <3>4 DEF IsPushed
      <4>3. IsPushed(m)' <=> m[2] < r.i \/ r.pc = "done"
        BY <2>4, <3>4 DEF IsPushed
      <4>4. CASE r.pc = "done"
        BY <2>3, <3>2, <4>1, <4>2, <4>3, <4>4
      <4>5. CASE r.pc = "load"
        BY <2>3, <3>2, <4>1, <4>2, <4>3, <4>5
      <4>6. QED BY <2>3, <4>4, <4>5
    <3>5. QED BY <3>3, <3>4
  <2>7. taken \in Seq(Nodes) /\ (\A i \in 1 .. Len(q) : q[i] \in Nodes) /\ \A i \in 1 .. Len(taken) : taken[i] \in Nodes
    BY <1>0 DEF TypeInv
  <2>8. ~Among(n, q) /\ ~Among(n, taken)
    BY <1>0, <2>5 DEF NodesInv, Among
  <2>9. PICK u \in Seq(Nodes) :
          /\ u = Append(q, n) /\ u # <<>> /\ Len(q) \in Nat /\ Len(u) = Len(q) + 1
          /\ u[Len(q) + 1] = n /\ (\A i \in 1 .. Len(q) : u[i] = q[i])
          /\ (\A m : Among(m, u) <=> Among(m, q) \/ m = n) /\ Distinct(u)
    BY <1>0, <2>8, Extended DEF QueueIs
  <2>10. TypeInv'
    BY <1>0, <1>1, <2>2, <2>4 DEF TypeInv
  <2>11. next[last] = n
    BY <1>0, <1>1, <1>3, <2>1 DEF PushInv
  <2>12. QueueIs(u)'
    <3>1. last' = u[Len(u)]
      BY <2>2, <2>9
    <3>2. next[HEAD] = u[1]
      <4>1. CASE q = <<>>
        BY <1>0, <2>9, <2>11, <4>1 DEF QueueIs
      <4>2. CASE q # <<>>
        BY <1>0, <2>9, <4>2, QueueFacts
      <4>3. QED BY <4>1, <4>2
    <3>3. ASSUME NEW i \in 1 .. Len(u) - 1 PROVE next[u[i]] = u[i + 1]
      <4>1. CASE i = Len(q)
        <5>1. q # <<>> /\ u[i] = q[Len(q)] /\ u[i + 1] = n
          BY <2>9, <3>3, <4>1
        <5>2. QED BY <1>0, <2>11, <5>1 DEF QueueIs
      <4>2. CASE i # Len(q)
        <5>1. i \in 1 .. Len(q) - 1 /\ i \in 1 .. Len(q) /\ i + 1 \in 1 .. Len(q)
          BY <2>9, <3>3, <4>2
        <5>2. QED BY <1>0, <2>9, <5>1 DEF QueueIs
      <4>3. QED BY <4>1, <4>2
    <3>4. QED BY <1>1, <2>9, <3>1, <3>2, <3>3 DEF QueueIs, Distinct
  <2>13. NodesInv(u)'
    <3>1. \A m \in Nodes : Among(m, u) => IsPushed(m)' /\ ~Among(m, taken)
      <4>1. \A m \in Nodes : Among(m, q) => IsPushed(m) /\ ~Among(m, taken)
        BY <1>0 DEF NodesInv, Among
      <4>2. QED BY <2>6, <2>8, <2>9, <4>1
    <3>2. \A i \in 1 .. Len(u) : u[i] \in Nodes /\ Among(u[i], u)
      BY DEF Among
    <3>3. \A i \in 1 .. Len(u) : IsPushed(u[i])' /\ ~Among(u[i], taken)
      BY <3>1, <3>2
    <3>4. \A i \in 1 .. Len(taken) : IsPushed(taken[i]) /\ taken[i] \in Nodes
      BY <1>0, <2>7 DEF NodesInv
    <3>5. \A i \in 1 .. Len(taken) : IsPushed(taken[i])'
      BY <1>1, <2>6, <3>4
    <3>6. \A m \in Nodes : IsPushed(m)' => Among(m, u) \/ Among(m, taken)
      BY <1>0, <2>6, <2>9 DEF NodesInv
    <3>7. Distinct(taken)
      BY <1>0 DEF NodesInv
    <3>8. QED BY <1>1, <3>3, <3>5, <3>6, <3>7 DEF NodesInv
  <2>14. PopInv(u, b)'
    <3>1. cons.pc # "clear"
      <4>1. ASSUME cons.pc = "clear" PROVE FALSE
        <5>1. last = HEAD
          BY <1>0, <4>1 DEF PopInv, QueueIs
        <5>2. QED BY <1>0, <1>1, <1>3, <4>1, <5>1 DEF PushInv
      <4>2. QED BY <4>1
    <3>2. cons.pc = "advance" => Among(cons.old, u) /\ cons.old # n
      BY <1>0, <2>8, <2>9 DEF PopInv
    <3>3. cons.pc = "cas" => Among(cons.old, u)
      BY <1>0, <2>9 DEF PopInv
    <3>4. QED BY <1>0, <1>1, <2>2, <2>9, <3>1, <3>2, <3>3 DEF PopInv
  <2>15. ASSUME NEW d \in Producers PROVE PushInv(d)'
    <3>1. CASE d = p
      BY <2>3, <2>4, <3>1 DEF PushInv
    <3>2. CASE d # p
      <4>1. prod'[d] = prod[d] /\ PushInv(d) /\ Node(d)' = Node(d)
        BY <1>0, <2>4, <3>2 DEF Node
      <4>2. ASSUME prod[d].pc \in {"link", "swing"}, prod[d].old # HEAD
            PROVE  prod[d].old \in Nodes /\ IsPushed(prod[d].old)' /\ prod[d].old # n
        <5>1. PICK m \in Nodes : m = prod[d].old /\ IsPushed(m)
          BY <4>1, <4>2 DEF PushInv
        <5>2. IsPushed(m)' /\ m # n
          BY <2>5, <2>6, <5>1
        <5>3. QED BY <4>1, <5>1, <5>2 DEF IsPushed
      <4>3. prod[d].pc = "swing" => prod[d].old # HEAD
        <5>1. ASSUME prod[d].pc = "swing", prod[d].old = HEAD PROVE FALSE
          <6>1. last = HEAD /\ next[HEAD] = Node(d)
            BY <4>1, <5>1 DEF PushInv
          <6>2. Node(d) = Node(p)
            BY <2>1, <2>11, <6>1
          <6>3. QED BY <3>2, <6>2 DEF Node
        <5>2. QED BY <5>1
      <4>4. QED BY <2>2, <4>1, <4>2, <4>3 DEF PushInv
    <3>3. QED BY <3>1, <3>2
  <2>16. Inv(u, b)'
    BY <2>10, <2>12, <2>13, <2>14, <2>15 DEF Inv
  <2>17. QED BY <1>1, <2>8, <2>9, <2>16
<1>4. QED BY <1>2, <1>3

(***************************************************************************)
(* cas_queue_pop and the consumer                                          *)
(***************************************************************************)
\* The queue and the producers do not see the consumer's private steps.
LEMMA ConsumerFrame ==
    ASSUME NEW q \in Seq(Nodes), NEW b \in Seq(Nodes), Inv(q, b), cons' \in ConsRecs, cons'.pc # "clear",
           UNCHANGED <<next, last, prod, taken, run>>, got' \in Seq(Nodes)
    PROVE  TypeInv' /\ QueueIs(q)' /\ NodesInv(q)' /\ \A p \in Producers : PushInv(p)'
<1>0. TypeInv /\ QueueIs(q) /\ NodesInv(q) /\ (\A d \in Producers : PushInv(d)) /\ PopInv(q, b)
  BY DEF Inv
<1>1. TypeInv' /\ QueueIs(q)'
  BY <1>0 DEF TypeInv, QueueIs, Distinct
<1>2. NodesInv(q)'
  BY <1>0, SameNodes DEF IsPushed
<1>3. ASSUME NEW p \in Producers PROVE PushInv(p)'
  BY <1>0 DEF PushInv, IsPushed, Node
<1>4. QED BY <1>1, <1>2, <1>3

\* Reading last and head.next, and the compare-and-swap that fails.
LEMMA ReadKeeps ==
    ASSUME NEW q \in Seq(Nodes), NEW b \in Seq(Nodes), Inv(q, b),
           PopCheck \/ PopFirst \/ PopLoad \/ (PopCas /\ last # cons.old)
    PROVE  Inv(q, b)' /\ taken' = taken
<1>0. TypeInv /\ QueueIs(q) /\ NodesInv(q) /\ (\A d \in Producers : PushInv(d)) /\ PopInv(q, b)
  BY DEF Inv
<1>1. /\ UNCHANGED <<next, last, prod, got, taken, run>> /\ got \in Seq(Nodes) /\ cons \in ConsRecs
      /\ next[HEAD] \in Nodes \cup {NULL} /\ last \in Nodes \cup {HEAD} /\ cons.count \in Nat
  BY <1>0 DEF PopCheck, PopFirst, PopLoad, PopCas, TypeInv, ConsRecs
<1>2. b = <<>>
  BY <1>0 DEF PopInv, PopCheck, PopFirst, PopLoad, PopCas
<1>3. /\ q # <<>> => last # HEAD /\ Among(last, q)
      /\ last # HEAD => q # <<>>
  <2>1. q # <<>> => last # HEAD /\ Len(q) \in 1 .. Len(q) /\ last = q[Len(q)]
    BY <1>0, QueueFacts
  <2>2. QED BY <1>0, <2>1 DEF QueueIs, Among
<1>4. ASSUME cons' \in ConsRecs, cons'.pc \in {"check", "first", "load", "cas", "advance", "done"}, cons'.count = cons.count,
             cons'.pc \in {"first", "load", "cas", "advance"} => q # <<>>,
             cons'.pc \in {"load", "cas", "advance"} => cons'.first = next[HEAD],
             cons'.pc = "cas" => Among(cons'.old, q),
             cons'.pc = "advance" => Among(cons'.old, q) /\ cons'.old # last,
             cons'.pc = "done" => cons.count >= Sum
      PROVE  Inv(q, b)' /\ taken' = taken
  <2>1. TypeInv' /\ QueueIs(q)' /\ NodesInv(q)' /\ \A p \in Producers : PushInv(p)'
    BY <1>1, <1>4, ConsumerFrame
  <2>2. PopInv(q, b)'
    BY <1>0, <1>1, <1>2, <1>4 DEF PopInv, Linked
  <2>3. QED BY <1>1, <2>1, <2>2 DEF Inv
<1>5. CASE PopCheck
  <2> DEFINE e == IF last # HEAD THEN "first" ELSE IF cons.count < Sum THEN "check" ELSE "done"
  <2>1. cons' = [cons EXCEPT !.pc = e]
    BY <1>5 DEF PopCheck
  <2>2. e \in {"check", "first", "done"} /\ (e = "first" => q # <<>>) /\ (e = "done" => cons.count >= Sum)
    BY <1>1, <1>3, NodesFinite
  <2> HIDE DEF e
  <2>3. cons' \in ConsRecs /\ cons'.pc = e /\ cons'.count = cons.count
    BY <1>1, <2>1, <2>2 DEF ConsRecs
  <2>4. QED BY <1>4, <2>2, <2>3
<1>6. CASE PopFirst
  <2>1. cons' = [cons EXCEPT !.pc = "load", !.first = next[HEAD]] /\ q # <<>>
    BY <1>0, <1>6 DEF PopFirst, PopInv
  <2>2. cons' \in ConsRecs /\ cons'.pc = "load" /\ cons'.count = cons.count /\ cons'.first = next[HEAD]
    BY <1>1, <2>1 DEF ConsRecs
  <2>3. QED BY <1>4, <2>1, <2>2
<1>7. CASE PopLoad
  <2>1. cons' = [cons EXCEPT !.pc = "cas", !.old = last] /\ q # <<>> /\ cons.first = next[HEAD]
    BY <1>0, <1>7 DEF PopLoad, PopInv
  <2>2. cons' \in ConsRecs /\ cons'.pc = "cas" /\ cons'.count = cons.count /\ cons'.first = cons.first /\ cons'.old = last
    BY <1>1, <2>1 DEF ConsRecs
  <2>3. QED BY <1>3, <1>4, <2>1, <2>2
<1>8. CASE PopCas /\ last # cons.old
  <2>1. cons' = [cons EXCEPT !.pc = "advance"] /\ q # <<>> /\ cons.first = next[HEAD] /\ Among(cons.old, q)
    BY <1>0, <1>8 DEF PopCas, PopInv
  <2>2. cons' \in ConsRecs /\ cons'.pc = "advance" /\ cons'.count = cons.count /\ cons'.first = cons.first /\ cons'.old = cons.old
    BY <1>1, <2>1 DEF ConsRecs
  <2>3. QED BY <1>4, <1>8, <2>1, <2>2
<1>9. QED BY <1>5, <1>6, <1>7, <1>8

\* Taking the front of the queue.
LEMMA TakeNodes ==
    ASSUME TypeInv, NEW q \in Seq(Nodes), NodesInv(q), Distinct(q), NEW k \in 1 .. Len(q),
           prod' = prod, taken' = taken \o SubSeq(q, 1, k)
    PROVE  /\ NodesInv(SubSeq(q, k + 1, Len(q)))' /\ taken' \in Seq(Nodes)
           /\ Distinct(SubSeq(q, k + 1, Len(q))) /\ SubSeq(q, 1, k) \in Seq(Nodes)
           /\ SubSeq(q, k + 1, Len(q)) \in Seq(Nodes)
<1>1. Len(q) \in Nat /\ k \in 0 .. Len(q) /\ taken \in Seq(Nodes)
  BY DEF TypeInv
<1>2. PICK s \in Seq(Nodes), t \in Seq(Nodes) :
        /\ s = SubSeq(q, 1, k) /\ Len(s) = k /\ (\A i \in 1 .. k : s[i] = q[i])
        /\ t = SubSeq(q, k + 1, Len(q)) /\ Len(t) = Len(q) - k /\ (\A i \in 1 .. Len(q) - k : t[i] = q[k + i])
  <2>1. /\ SubSeq(q, 1, k) \in Seq(Nodes) /\ Len(SubSeq(q, 1, k)) = k /\ (\A i \in 1 .. k : SubSeq(q, 1, k)[i] = q[i])
        /\ SubSeq(q, k + 1, Len(q)) \in Seq(Nodes) /\ Len(SubSeq(q, k + 1, Len(q))) = Len(q) - k
        /\ (\A i \in 1 .. Len(q) - k : SubSeq(q, k + 1, Len(q))[i] = q[k + i])
    BY <1>1, Split
  <2>2. QED BY <2>1, Zenon
<1>3. \A i \in 1 .. k : i \in 1 .. Len(q)
  BY <1>1
<1>4. \A i \in 1 .. Len(q) - k : k + i \in 1 .. Len(q) /\ ~(k + i \in 1 .. k)
  BY <1>1
<1>5. \A n : Among(n, q) => Among(n, s) \/ Among(n, t)
  <2>1. TAKE n
  <2>2. HAVE Among(n, q)
  <2>3. PICK i \in 1 .. Len(q) : n = q[i]
    BY <2>2 DEF Among
  <2>4. CASE i <= k
    BY <1>1, <1>2, <2>3, <2>4 DEF Among
  <2>5. CASE ~(i <= k)
    <3>1. i - k \in 1 .. Len(q) - k /\ k + (i - k) = i
      BY <1>1, <2>5
    <3>2. t[i - k] = n
      BY <1>2, <2>3, <3>1
    <3>3. QED BY <1>2, <3>1, <3>2 DEF Among
  <2>6. QED BY <2>4, <2>5
<1>6. Distinct(s) /\ Distinct(t)
  <2>1. Distinct(s)
    BY <1>2, <1>3 DEF Distinct
  <2>2. ASSUME NEW i \in 1 .. Len(t), NEW j \in 1 .. Len(t), t[i] = t[j] PROVE i = j
    <3>1. q[k + i] = q[k + j] /\ k + i \in 1 .. Len(q) /\ k + j \in 1 .. Len(q)
      BY <1>2, <1>4, <2>2
    <3>2. k + i = k + j
      BY <3>1 DEF Distinct
    <3>3. QED BY <1>1, <3>2
  <2>3. QED BY <2>1, <2>2 DEF Distinct
<1>7. \A i \in 1 .. Len(s) : IsPushed(s[i]) /\ ~Among(s[i], taken)
  BY <1>2, <1>3 DEF NodesInv
<1>8. \A i \in 1 .. Len(t) : IsPushed(t[i]) /\ ~Among(t[i], taken) /\ ~Among(t[i], s)
  <2>1. TAKE i \in 1 .. Len(t)
  <2>2. t[i] = q[k + i] /\ k + i \in 1 .. Len(q) /\ ~(k + i \in 1 .. k)
    BY <1>2, <1>4
  <2>3. ~Among(t[i], s)
    BY <1>2, <1>3, <2>2 DEF Among, Distinct
  <2>4. QED BY <2>2, <2>3 DEF NodesInv
<1>9. PICK u \in Seq(Nodes) : /\ u = taken \o s /\ Distinct(u) /\ \A n : Among(n, u) <=> Among(n, taken) \/ Among(n, s)
  <2>1. Distinct(taken)
    BY DEF NodesInv
  <2>2. /\ taken \o s \in Seq(Nodes) /\ \A n : Among(n, taken \o s) <=> Among(n, taken) \/ Among(n, s)
        /\ Distinct(taken) /\ Distinct(s) /\ (\A i \in 1 .. Len(s) : ~Among(s[i], taken)) => Distinct(taken \o s)
    BY <1>1, Joins
  <2>3. Distinct(taken \o s)
    BY <1>6, <1>7, <2>1, <2>2
  <2>4. QED BY <2>2, <2>3, Zenon
<1>10. u = taken'
  BY <1>2, <1>9
<1>11. \A i \in 1 .. Len(u) : IsPushed(u[i])
  <2>1. \A i \in 1 .. Len(u) : Among(u[i], u)
    BY DEF Among
  <2>2. \A n : Among(n, taken) \/ Among(n, s) => IsPushed(n)
    BY <1>7 DEF Among, NodesInv
  <2>3. QED BY <1>9, <2>1, <2>2
<1>12. \A n \in Nodes : IsPushed(n) => Among(n, t) \/ Among(n, u)
  BY <1>5, <1>9 DEF NodesInv
<1>13. \A i \in 1 .. Len(t) : IsPushed(t[i]) /\ ~Among(t[i], u)
  BY <1>8, <1>9
<1>14. NodesInv(t)'
  BY <1>9, <1>10, <1>11, <1>12, <1>13 DEF NodesInv, IsPushed
<1>15. QED BY <1>2, <1>6, <1>10, <1>14

\* The whole chain is taken when last is still what was read.
LEMMA CasKeeps ==
    ASSUME NEW q \in Seq(Nodes), NEW b \in Seq(Nodes), Inv(q, b), PopCas, last = cons.old
    PROVE  q # <<>> /\ Inv(<<>>, q)' /\ taken' = taken \o q
<1>0. TypeInv /\ QueueIs(q) /\ NodesInv(q) /\ (\A d \in Producers : PushInv(d)) /\ PopInv(q, b)
  BY DEF Inv
<1>1. /\ UNCHANGED <<next, prod, got, run>> /\ cons \in ConsRecs /\ cons.pc = "cas" /\ last' = HEAD
      /\ cons' = [cons EXCEPT !.pc = "clear"] /\ taken' = taken \o Chain(next, cons.first, cons.old, Sum)
      /\ taken \in Seq(Nodes) /\ got \in Seq(Nodes)
  BY <1>0 DEF PopCas, TypeInv
<1>2. q # <<>> /\ b = <<>> /\ cons.first = next[HEAD] /\ taken = got \o b /\ cons.count = Len(got) + 1
  BY <1>0, <1>1 DEF PopInv
<1>3. /\ Len(q) \in Nat /\ Len(q) > 0 /\ Len(q) \in 1 .. Len(q) /\ last = q[Len(q)] /\ last # HEAD /\ next[HEAD] = q[1]
      /\ Chain(next, q[1], q[Len(q)], Sum) = SubSeq(q, 1, Len(q)) /\ Linked(next, SubSeq(q, 1, Len(q)))
      /\ next[HEAD] \in Nodes
  BY <1>0, <1>2, QueueFacts
<1>4. SubSeq(q, 1, Len(q)) = q /\ SubSeq(q, Len(q) + 1, Len(q)) = <<>>
  BY <1>3
<1>5. taken' = taken \o SubSeq(q, 1, Len(q)) /\ taken' = taken \o q
  BY <1>1, <1>2, <1>3, <1>4
<1>6. NodesInv(<<>>)' /\ taken' \in Seq(Nodes)
  <2>1. Distinct(q)
    BY <1>0 DEF QueueIs
  <2>2. NodesInv(SubSeq(q, Len(q) + 1, Len(q)))' /\ taken' \in Seq(Nodes)
    BY <1>0, <1>1, <1>3, <1>5, <2>1, TakeNodes
  <2>3. QED BY <1>4, <2>2
<1>7. cons' \in ConsRecs /\ cons'.pc = "clear" /\ cons'.first = cons.first /\ cons'.old = cons.old /\ cons'.count = cons.count
  BY <1>1 DEF ConsRecs
<1>8. TypeInv'
  BY <1>0, <1>1, <1>6, <1>7 DEF TypeInv
<1>9. QueueIs(<<>>)'
  BY <1>1 DEF QueueIs, Distinct
<1>10. PopInv(<<>>, q)'
  <2>1. taken' = got \o q
    <3>1. got \o <<>> = got
      BY <1>1
    <3>2. QED BY <1>2, <1>5, <3>1
  <2>2. QED BY <1>1, <1>2, <1>3, <1>4, <1>7, <2>1 DEF PopInv
<1>11. ASSUME NEW d \in Producers PROVE PushInv(d)'
  <2>1. prod'[d] = prod[d] /\ PushInv(d) /\ Node(d)' = Node(d)
    BY <1>0, <1>1 DEF Node
  <2>2. prod[d].pc = "swing" => prod[d].old # HEAD
    BY <1>3, <2>1 DEF PushInv
  <2>3. QED BY <1>1, <2>1, <2>2 DEF PushInv, IsPushed
<1>12. QED BY <1>2, <1>5, <1>6, <1>8, <1>9, <1>10, <1>11 DEF Inv

\* head.next is cleared while no producer can have linked behind the head.
LEMMA ClearKeeps ==
    ASSUME NEW q \in Seq(Nodes), NEW b \in Seq(Nodes), Inv(q, b), PopClear
    PROVE  Inv(q, b)' /\ taken' = taken
<1>0. TypeInv /\ QueueIs(q) /\ NodesInv(q) /\ (\A d \in Producers : PushInv(d)) /\ PopInv(q, b)
  BY DEF Inv
<1>1. /\ UNCHANGED <<last, prod, got, taken, run>> /\ cons \in ConsRecs /\ cons.pc = "clear"
      /\ next' = [next EXCEPT ![HEAD] = NULL] /\ cons' = [cons EXCEPT !.pc = "walk", !.node = cons.first]
      /\ next \in [Nodes \cup {HEAD} -> Nodes \cup {NULL}] /\ HEAD \notin Nodes
  BY <1>0, CasQueueAssumption DEF PopClear, Walk, TypeInv, Nodes
<1>2. q = <<>> /\ b # <<>> /\ cons.first = b[1] /\ cons.old = b[Len(b)] /\ last = HEAD
  BY <1>0, <1>1 DEF PopInv, QueueIs
<1>3. cons' \in ConsRecs /\ cons'.pc = "walk" /\ cons'.node = b[1] /\ cons'.old = cons.old /\ cons'.count = cons.count
  BY <1>1, <1>2 DEF ConsRecs
<1>4. /\ next' \in [Nodes \cup {HEAD} -> Nodes \cup {NULL}] /\ \A n \in Nodes : next'[n] = next[n]
  BY <1>1
<1>5. TypeInv' /\ QueueIs(q)'
  BY <1>0, <1>1, <1>2, <1>3, <1>4 DEF TypeInv, QueueIs, Distinct
<1>6. NodesInv(q)'
  BY <1>0, <1>1, SameNodes DEF IsPushed
<1>7. PopInv(q, b)'
  <2>1. Linked(next', b)
    <3>1. ASSUME NEW i \in 1 .. Len(b) - 1 PROVE b[i] # b[Len(b)] /\ b[i] \in DOMAIN next' /\ next'[b[i]] = b[i + 1]
      <4>1. i \in 1 .. Len(b)
        OBVIOUS
      <4>2. b[i] \in Nodes /\ next[b[i]] = b[i + 1] /\ b[i] # b[Len(b)]
        BY <1>0, <4>1 DEF PopInv, Linked
      <4>3. QED BY <1>4, <4>2
    <3>2. QED BY <3>1 DEF Linked
  <2>2. QED BY <1>0, <1>1, <1>2, <1>3, <2>1 DEF PopInv
<1>8. ASSUME NEW d \in Producers PROVE PushInv(d)'
  <2>1. prod'[d] = prod[d] /\ PushInv(d)
    BY <1>0, <1>1
  <2>2. prod[d].pc = "swing" => prod[d].old # HEAD
    BY <1>1, <2>1 DEF PushInv
  <2>3. QED BY <1>1, <1>2, <2>1, <2>2 DEF PushInv, IsPushed
<1>9. QED BY <1>1, <1>5, <1>6, <1>7, <1>8 DEF Inv

\* A producer was faster: the chain up to old_node is taken.
LEMMA AdvanceKeeps ==
    ASSUME NEW q \in Seq(Nodes), NEW b \in Seq(Nodes), Inv(q, b), PopAdvance
    PROVE  \E k \in 1 .. Len(q) : /\ Inv(SubSeq(q, k + 1, Len(q)), SubSeq(q, 1, k))'
                                  /\ SubSeq(q, k + 1, Len(q)) \in Seq(Nodes) /\ SubSeq(q, 1, k) \in Seq(Nodes)
                                  /\ taken' = taken \o SubSeq(q, 1, k)
<1>0. TypeInv /\ QueueIs(q) /\ NodesInv(q) /\ (\A d \in Producers : PushInv(d)) /\ PopInv(q, b)
  BY DEF Inv
<1>1. /\ UNCHANGED <<last, prod, got, run>> /\ cons \in ConsRecs /\ cons.pc = "advance"
      /\ cons' = [cons EXCEPT !.pc = "walk", !.node = cons.first]
      /\ next' = [next EXCEPT ![HEAD] = next[cons.old]] /\ taken' = taken \o Chain(next, cons.first, cons.old, Sum)
      /\ taken \in Seq(Nodes) /\ got \in Seq(Nodes)
      /\ next \in [Nodes \cup {HEAD} -> Nodes \cup {NULL}] /\ HEAD \notin Nodes
  BY <1>0, CasQueueAssumption DEF PopAdvance, Walk, TypeInv, Nodes
<1>2. q # <<>> /\ b = <<>> /\ cons.first = next[HEAD] /\ taken = got \o b /\ cons.count = Len(got) + 1
  BY <1>0, <1>1 DEF PopInv
<1>3. /\ Len(q) \in Nat /\ Len(q) > 0 /\ last = q[Len(q)] /\ last # HEAD /\ next[HEAD] = q[1]
      /\ \A i \in 1 .. Len(q) : q[i] \in Nodes
  BY <1>0, <1>2, QueueFacts
<1>4. PICK k \in 1 .. Len(q) : cons.old = q[k]
  BY <1>0, <1>1 DEF PopInv, Among
<1>5. k < Len(q) /\ k \in Nat /\ k >= 1
  BY <1>0, <1>1, <1>3, <1>4 DEF PopInv
<1>6. next[cons.old] = q[k + 1]
  <2>1. k \in 1 .. Len(q) - 1
    BY <1>3, <1>5
  <2>2. QED BY <1>0, <1>4, <2>1 DEF QueueIs
<1>7. Chain(next, q[1], q[k], Sum) = SubSeq(q, 1, k) /\ Linked(next, SubSeq(q, 1, k))
  BY <1>0, <1>2, QueueFacts
<1>8. taken' = taken \o SubSeq(q, 1, k)
  BY <1>1, <1>2, <1>3, <1>4, <1>7
<1>9. PICK s \in Seq(Nodes), t \in Seq(Nodes) :
        /\ s = SubSeq(q, 1, k) /\ Len(s) = k /\ (\A i \in 1 .. k : s[i] = q[i])
        /\ t = SubSeq(q, k + 1, Len(q)) /\ Len(t) = Len(q) - k /\ (\A i \in 1 .. Len(q) - k : t[i] = q[k + i])
  <2>1. k \in 0 .. Len(q)
    BY <1>5
  <2>2. /\ SubSeq(q, 1, k) \in Seq(Nodes) /\ Len(SubSeq(q, 1, k)) = k /\ (\A i \in 1 .. k : SubSeq(q, 1, k)[i] = q[i])
        /\ SubSeq(q, k + 1, Len(q)) \in Seq(Nodes) /\ Len(SubSeq(q, k + 1, Len(q))) = Len(q) - k
        /\ (\A i \in 1 .. Len(q) - k : SubSeq(q, k + 1, Len(q))[i] = q[k + i])
    BY <2>1, Split
  <2>3. QED BY <2>2, Zenon
<1>10. NodesInv(t)' /\ taken' \in Seq(Nodes) /\ Distinct(t)
  <2>1. Distinct(q)
    BY <1>0 DEF QueueIs
  <2>2. NodesInv(SubSeq(q, k + 1, Len(q)))' /\ taken' \in Seq(Nodes) /\ Distinct(SubSeq(q, k + 1, Len(q)))
    BY <1>0, <1>1, <1>8, <2>1, TakeNodes
  <2>3. QED BY <1>9, <2>2
<1>11. cons' \in ConsRecs /\ cons'.pc = "walk" /\ cons'.node = q[1] /\ cons'.old = q[k] /\ cons'.count = cons.count
  BY <1>1, <1>2, <1>3, <1>4 DEF ConsRecs
<1>12. /\ next' \in [Nodes \cup {HEAD} -> Nodes \cup {NULL}] /\ (\A n \in Nodes : next'[n] = next[n]) /\ next'[HEAD] = q[k + 1]
  <2>1. q[k + 1] \in Nodes
    BY <1>3, <1>5
  <2>2. QED BY <1>1, <1>6, <2>1
<1>13. TypeInv'
  BY <1>0, <1>1, <1>10, <1>11, <1>12 DEF TypeInv
<1>14. QueueIs(t)'
  <2>1. t # <<>> /\ t[Len(t)] = q[Len(q)] /\ t[1] = q[k + 1]
    <3>1. Len(q) - k \in 1 .. Len(q) - k /\ 1 \in 1 .. Len(q) - k /\ k + (Len(q) - k) = Len(q)
      BY <1>3, <1>5
    <3>2. t[Len(q) - k] = q[k + (Len(q) - k)] /\ t[1] = q[k + 1]
      BY <1>9, <3>1
    <3>3. t # <<>>
      <4>1. Len(t) # 0
        BY <1>3, <1>5, <1>9
      <4>2. QED BY <4>1
    <3>4. QED BY <1>9, <3>1, <3>2, <3>3
  <2>2. ASSUME NEW i \in 1 .. Len(t) - 1 PROVE next'[t[i]] = t[i + 1]
    <3>1. /\ i \in 1 .. Len(q) - k /\ i + 1 \in 1 .. Len(q) - k /\ k + i \in 1 .. Len(q) - 1 /\ k + i \in 1 .. Len(q)
          /\ k + (i + 1) = (k + i) + 1
      BY <1>3, <1>5, <1>9
    <3>2. t[i] = q[k + i] /\ t[i + 1] = q[(k + i) + 1] /\ q[k + i] \in Nodes
      BY <1>3, <1>9, <3>1
    <3>3. next[q[k + i]] = q[(k + i) + 1]
      BY <1>0, <3>1 DEF QueueIs
    <3>4. QED BY <1>12, <3>2, <3>3
  <2>3. QED BY <1>1, <1>3, <1>10, <1>12, <2>1, <2>2 DEF QueueIs
<1>15. PopInv(t, s)'
  <2>1. taken' = got \o s
    <3>1. got \o <<>> = got
      BY <1>1
    <3>2. QED BY <1>2, <1>8, <1>9, <3>1
  <2>2. s # <<>> /\ s[1] = q[1] /\ s[Len(s)] = q[k]
    <3>1. 1 \in 1 .. k /\ k \in 1 .. k
      BY <1>5
    <3>2. s[1] = q[1] /\ s[Len(s)] = q[k]
      BY <1>9, <3>1
    <3>3. s # <<>>
      BY <1>5, <1>9
    <3>4. QED BY <3>2, <3>3
  <2>3. Linked(next', s)
    <3>1. ASSUME NEW i \in 1 .. Len(s) - 1 PROVE s[i] # s[Len(s)] /\ s[i] \in DOMAIN next' /\ next'[s[i]] = s[i + 1]
      <4>1. i \in 1 .. Len(s)
        OBVIOUS
      <4>2. s[i] \in Nodes /\ next[s[i]] = s[i + 1] /\ s[i] # s[Len(s)]
        BY <1>7, <1>9, <4>1 DEF Linked
      <4>3. QED BY <1>12, <4>2
    <3>2. QED BY <3>1 DEF Linked
  <2>4. QED BY <1>1, <1>2, <1>11, <2>1, <2>2, <2>3 DEF PopInv
<1>16. ASSUME NEW d \in Producers PROVE PushInv(d)'
  <2>1. prod'[d] = prod[d] /\ PushInv(d) /\ Node(d)' = Node(d)
    BY <1>0, <1>1 DEF Node
  <2>2. prod[d].pc = "swing" => prod[d].old # HEAD /\ prod[d].old \in Nodes
    BY <1>3, <2>1 DEF PushInv
  <2>3. QED BY <1>1, <1>12, <2>1, <2>2 DEF PushInv, IsPushed
<1>17. Inv(t, s)'
  BY <1>10, <1>13, <1>14, <1>15, <1>16 DEF Inv
<1>18. QED BY <1>8, <1>9, <1>17

\* One node of the batch.
LEMMA WalkKeeps ==
    ASSUME NEW q \in Seq(Nodes), NEW b \in Seq(Nodes), Inv(q, b), WalkNode
    PROVE  Tail(b) \in Seq(Nodes) /\ Inv(q, Tail(b))' /\ taken' = taken
<1>0. TypeInv /\ QueueIs(q) /\ NodesInv(q) /\ (\A d \in Producers : PushInv(d)) /\ PopInv(q, b)
  BY DEF Inv
<1>1. /\ UNCHANGED <<next, last, prod, taken, run>> /\ cons \in ConsRecs /\ cons.pc = "walk"
      /\ got' = Append(got, cons.node) /\ got \in Seq(Nodes) /\ cons.count \in Nat
      /\ next \in [Nodes \cup {HEAD} -> Nodes \cup {NULL}]
  BY <1>0 DEF WalkNode, TypeInv, ConsRecs
<1>2. /\ b # <<>> /\ cons.node = b[1] /\ cons.old = b[Len(b)] /\ Linked(next, b) /\ taken = got \o b
      /\ cons.count = Len(got) + 1
  BY <1>0, <1>1 DEF PopInv
<1>3. /\ Len(b) \in Nat /\ Len(b) > 0 /\ b[1] \in Nodes /\ got' \in Seq(Nodes) /\ Len(got') = Len(got) + 1 /\ Len(got) \in Nat
  BY <1>1, <1>2
<1>4. PICK t \in Seq(Nodes) : t = Tail(b) /\ Len(t) = Len(b) - 1 /\ \A i \in 1 .. Len(t) : t[i] = b[i + 1]
  <2>1. Tail(b) \in Seq(Nodes) /\ Len(Tail(b)) = Len(b) - 1 /\ \A i \in 1 .. Len(Tail(b)) : Tail(b)[i] = b[i + 1]
    BY <1>2
  <2>2. QED BY <2>1, Zenon
<1>5. got' \o t = got \o b
  <2>1. /\ got' \o t \in Seq(Nodes) /\ got \o b \in Seq(Nodes) /\ Len(got' \o t) = Len(got) + Len(b) /\ Len(got \o b) = Len(got) + Len(b)
    BY <1>1, <1>3, <1>4
  <2>2. ASSUME NEW i \in 1 .. Len(got) + Len(b) PROVE (got' \o t)[i] = (got \o b)[i]
    <3>1. CASE i <= Len(got)
      <4>1. (got \o b)[i] = got[i] /\ got'[i] = got[i]
        BY <1>1, <1>3, <3>1
      <4>2. (got' \o t)[i] = got'[i]
        BY <1>3, <1>4, <3>1
      <4>3. QED BY <4>1, <4>2
    <3>2. CASE i = Len(got) + 1
      <4>1. (got \o b)[i] = b[1] /\ got'[i] = b[1]
        BY <1>1, <1>2, <1>3, <3>2
      <4>2. (got' \o t)[i] = got'[i]
        BY <1>3, <1>4, <3>2
      <4>3. QED BY <4>1, <4>2
    <3>3. CASE i > Len(got) + 1
      <4>1. i - (Len(got) + 1) \in 1 .. Len(t) /\ (i - (Len(got) + 1)) + 1 = i - Len(got)
        BY <1>3, <1>4, <3>3
      <4>2. (got \o b)[i] = b[i - Len(got)]
        BY <1>1, <1>3, <3>3
      <4>3. (got' \o t)[i] = t[i - (Len(got) + 1)]
        <5>1. i \in Len(got') + 1 .. Len(got') + Len(t)
          BY <1>3, <1>4, <3>3
        <5>2. (got' \o t)[i] = t[i - Len(got')]
          BY <1>3, <5>1, Joins
        <5>3. QED BY <1>3, <5>2
      <4>4. QED BY <1>4, <4>1, <4>2, <4>3
    <3>4. i <= Len(got) \/ i = Len(got) + 1 \/ i > Len(got) + 1
      BY <1>3
    <3>5. QED BY <3>1, <3>2, <3>3, <3>4
  <2>3. QED BY <2>1, <2>2, SeqEqual
<1>6. /\ b[1] # b[Len(b)] => t # <<>> /\ t[1] = next[b[1]] /\ t[Len(t)] = b[Len(b)]
      /\ b[1] = b[Len(b)] => t = <<>>
  <2>1. CASE Len(b) = 1
    <3>1. b[1] = b[Len(b)] /\ Len(t) = 0
      BY <1>4, <2>1
    <3>2. QED BY <3>1
  <2>2. CASE Len(b) > 1
    <3>1. 1 \in 1 .. Len(b) - 1 /\ 1 \in 1 .. Len(t) /\ Len(t) \in 1 .. Len(t) /\ Len(t) + 1 = Len(b)
      BY <1>3, <1>4, <2>2
    <3>2. b[1] # b[Len(b)] /\ next[b[1]] = b[1 + 1]
      BY <1>2, <3>1 DEF Linked
    <3>3. t[1] = b[1 + 1] /\ t[Len(t)] = b[Len(b)]
      BY <1>4, <3>1
    <3>4. t # <<>>
      BY <3>1
    <3>5. QED BY <3>2, <3>3, <3>4
  <2>3. Len(b) = 1 \/ Len(b) > 1
    <3>1. PICK m \in Nat : m = Len(b) /\ m > 0
      BY <1>3
    <3>2. m = 1 \/ m > 1
      BY <3>1
    <3>3. QED BY <3>1, <3>2
  <2>4. QED BY <2>1, <2>2, <2>3
<1>7. PICK e \in {"walk", "check", "done"} :
        /\ cons' \in ConsRecs /\ cons'.pc = e /\ cons'.count = cons.count + 1 /\ cons'.node = next[b[1]] /\ cons'.old = cons.old
        /\ e = "walk" <=> b[1] # b[Len(b)]
        /\ e = "done" => cons.count + 1 >= Sum
  <2> DEFINE x == IF cons.node # cons.old THEN "walk" ELSE IF cons.count + 1 < Sum THEN "check" ELSE "done"
  <2>1. cons' = [cons EXCEPT !.count = cons.count + 1, !.node = next[cons.node], !.pc = x]
    BY DEF WalkNode
  <2>2. x \in {"walk", "check", "done"} /\ (x = "walk" <=> b[1] # b[Len(b)]) /\ (x = "done" => cons.count + 1 >= Sum)
    BY <1>1, <1>2, NodesFinite
  <2>3. cons.count + 1 \in Nat /\ next[b[1]] \in Nodes \cup {NULL} /\ next[cons.node] = next[b[1]]
    BY <1>1, <1>2, <1>3
  <2> HIDE DEF x
  <2>4. cons' \in ConsRecs /\ cons'.pc = x /\ cons'.count = cons.count + 1 /\ cons'.node = next[b[1]] /\ cons'.old = cons.old
    BY <1>1, <2>1, <2>2, <2>3 DEF ConsRecs
  <2>5. QED BY <2>2, <2>4
<1>8. TypeInv' /\ QueueIs(q)' /\ NodesInv(q)' /\ \A p \in Producers : PushInv(p)'
  BY <1>1, <1>3, <1>7, ConsumerFrame
<1>9. Linked(next', t)
  <2>1. ASSUME NEW i \in 1 .. Len(t) - 1 PROVE t[i] # t[Len(t)] /\ t[i] \in DOMAIN next /\ next[t[i]] = t[i + 1]
    <3>1. /\ i + 1 \in 1 .. Len(b) - 1 /\ i \in 1 .. Len(t) /\ i + 1 \in 1 .. Len(t) /\ Len(t) \in 1 .. Len(t) /\ Len(t) + 1 = Len(b)
      BY <1>3, <1>4
    <3>2. b[i + 1] # b[Len(b)] /\ b[i + 1] \in DOMAIN next /\ next[b[i + 1]] = b[(i + 1) + 1]
      BY <1>2, <3>1 DEF Linked
    <3>3. t[i] = b[i + 1] /\ t[i + 1] = b[(i + 1) + 1] /\ t[Len(t)] = b[Len(b)]
      BY <1>4, <3>1
    <3>4. QED BY <3>2, <3>3
  <2>2. QED BY <1>1, <2>1 DEF Linked
<1>10. PopInv(q, t)'
  <2>1. taken' = got' \o t /\ cons'.count = Len(got') + 1
    BY <1>1, <1>2, <1>3, <1>5, <1>7
  <2>2. cons'.pc = "walk" => t # <<>> /\ cons'.node = t[1] /\ cons'.old = t[Len(t)]
    BY <1>2, <1>6, <1>7
  <2>3. cons'.pc # "walk" => t = <<>>
    BY <1>6, <1>7
  <2>4. QED BY <1>7, <1>9, <2>1, <2>2, <2>3 DEF PopInv
<1>11. QED BY <1>1, <1>4, <1>8, <1>10 DEF Inv

\* When everybody is done, every node was taken or is the one that is left.
LEMMA JoinedFacts ==
    ASSUME NEW q \in Seq(Nodes), NEW b \in Seq(Nodes), Inv(q, b), Joined
    PROVE  Len(q) <= 1 /\ Len(got) + Len(q) = Sum /\ got = taken /\ \A n \in Nodes : Among(n, q) \/ Among(n, taken)
<1>0. TypeInv /\ QueueIs(q) /\ NodesInv(q) /\ PopInv(q, b)
  BY DEF Inv
<1>1. got \in Seq(Nodes) /\ taken \in Seq(Nodes) /\ Len(q) \in Nat /\ Len(got) \in Nat /\ Distinct(q) /\ Distinct(taken)
  BY <1>0 DEF TypeInv, QueueIs, NodesInv
<1>2. cons.count = Len(got) + 1 /\ cons.count >= Sum /\ got = taken
  <2>1. b = <<>> /\ taken = got \o b /\ cons.count = Len(got) + 1 /\ cons.count >= Sum
    BY <1>0 DEF PopInv, Joined
  <2>2. got \o <<>> = got
    BY <1>1
  <2>3. QED BY <2>1, <2>2
<1>3. \A n \in Nodes : Among(n, q) \/ Among(n, taken)
  <2>1. TAKE n \in Nodes
  <2>2. n[1] \in Producers
    BY DEF Nodes
  <2>3. IsPushed(n)
    BY <2>2 DEF IsPushed, Joined
  <2>4. QED BY <1>0, <2>3 DEF NodesInv
<1>4. \A i \in 1 .. Len(q) : ~Among(q[i], taken)
  BY <1>0 DEF NodesInv
<1>5. /\ taken \o q \in Seq(Nodes) /\ Len(taken \o q) = Len(taken) + Len(q)
      /\ (\A n : Among(n, taken \o q) <=> Among(n, taken) \/ Among(n, q)) /\ Distinct(taken \o q)
  BY <1>1, <1>4, Joins
<1>6. Len(taken \o q) = Sum
  <2>1. \A n \in Nodes : Among(n, taken \o q)
    BY <1>3, <1>5
  <2>2. QED BY <1>5, <2>1, NodesFinite, DistinctAll DEF Sum
<1>7. Len(got) + Len(q) = Sum
  BY <1>2, <1>5, <1>6
<1>8. Len(q) <= 1
  BY <1>1, <1>2, <1>7, NodesFinite
<1>9. QED BY <1>2, <1>3, <1>7, <1>8

\* The empty queue of threads that have not begun satisfies the invariant,
\* whatever the next pointers of the nodes are.
LEMMA StartHolds ==
    ASSUME TypeInv, next[HEAD] = NULL, last = HEAD, prod = [p \in Producers |-> Start], cons = ConsStart,
           got = <<>>, taken = <<>>
    PROVE  Inv(<<>>, <<>>)
<1>1. \A p \in Producers : prod[p].pc = "load" /\ prod[p].i = 1
  BY DEF Start
<1>2. cons.pc = "check" /\ cons.count = 1
  BY DEF ConsStart
<1>3. QueueIs(<<>>)
  BY DEF QueueIs, Distinct
<1>4. NodesInv(<<>>)
  <2>1. \A n \in Nodes : ~IsPushed(n)
    <3>1. \A n \in Nodes : n[1] \in Producers /\ n[2] \in Nat /\ n[2] >= 1
      BY CasQueueAssumption DEF Nodes
    <3>2. QED BY <1>1, <3>1 DEF IsPushed
  <2>2. Len(taken) = 0 /\ Len(<<>>) = 0 /\ 1 .. 0 = {}
    OBVIOUS
  <2>3. QED BY <2>1, <2>2 DEF NodesInv, Distinct
<1>5. \A p \in Producers : PushInv(p)
  BY <1>1 DEF PushInv
<1>6. PopInv(<<>>, <<>>)
  BY <1>2 DEF PopInv, Linked
<1>7. QED BY <1>3, <1>4, <1>5, <1>6 DEF Inv

StartFact ==
    TypeInv /\ next[HEAD] = NULL /\ last = HEAD /\ prod = [p \in Producers |-> Start] /\ cons = ConsStart
       /\ got = <<>> /\ taken = <<>>
    => Inv(<<>>, <<>>)

\* The same of the next state.
LEMMA StartHoldsNext == StartFact'
<1>1. StartFact
  BY StartHolds DEF StartFact
<1>2. QED BY <1>1, PTL

\* What the threads begin with.
LEMMA StartTyped == [p \in Producers |-> Start] \in [Producers -> ProdRecs] /\ ConsStart \in ConsRecs
<1>1. 1 \in 1 .. Count
  BY CasQueueAssumption
<1>2. Start \in ProdRecs
  BY <1>1 DEF Start, ProdRecs
<1>3. ConsStart \in ConsRecs
  BY DEF ConsStart, ConsRecs
<1>4. QED BY <1>2, <1>3

\* The invariant holds initially.
LEMMA InitHolds == Init => IInv
<1> SUFFICES ASSUME Init PROVE IInv
  OBVIOUS
<1>1. next \in [Nodes \cup {HEAD} -> Nodes \cup {NULL}] /\ next[HEAD] = NULL
  BY DEF Init
<1>2. <<>> \in Seq(Nodes)
  OBVIOUS
<1>3. TypeInv
  BY <1>1, <1>2, StartTyped DEF Init, TypeInv
<1>4. Inv(<<>>, <<>>)
  BY <1>1, <1>3, StartHolds DEF Init
<1>5. QED BY <1>2, <1>4 DEF IInv

\* The next iteration starts from an empty queue.
LEMMA RerunKeeps ==
    ASSUME NEW q \in Seq(Nodes), NEW b \in Seq(Nodes), Inv(q, b), Rerun
    PROVE  Inv(<<>>, <<>>)' /\ taken' = <<>>
<1>1. /\ next' = [next EXCEPT ![HEAD] = NULL] /\ last' = HEAD /\ prod' = [p \in Producers |-> Start]
      /\ cons' = ConsStart /\ got' = <<>> /\ taken' = <<>> /\ run' = run + 1 /\ run \in Nat
      /\ next \in [Nodes \cup {HEAD} -> Nodes \cup {NULL}]
  BY DEF Rerun, Inv, TypeInv
<1>2. next' \in [Nodes \cup {HEAD} -> Nodes \cup {NULL}] /\ next'[HEAD] = NULL
  BY <1>1
<1>3. got' \in Seq(Nodes) /\ taken' \in Seq(Nodes) /\ run' \in Nat
  BY <1>1
<1>4. TypeInv'
  BY <1>1, <1>2, <1>3, StartTyped DEF TypeInv
<1>5. QED BY <1>1, <1>2, <1>4, StartHoldsNext DEF StartFact

-----------------------------------------------------------------------------
\* Every step preserves the invariant, and is a step of BatchQueue or leaves
\* it alone.
LEMMA StepRefines ==
    ASSUME IInv, [Next]_vars PROVE IInv' /\ [Abstract!Next]_(Abstract!vars)
<1>1. PICK q \in Seq(Nodes), b \in Seq(Nodes) : Inv(q, b)
  BY DEF IInv
<1>2. Contents = q /\ taken \in Seq(Nodes)
  BY <1>1, ContentsIs DEF ContentsFact, Inv, TypeInv
<1>3. ASSUME NEW s \in Seq(Nodes), NEW c \in Seq(Nodes), Inv(s, c)'
      PROVE  IInv' /\ Contents' = s
  BY <1>3, ContentsIsNext DEF ContentsFact, Inv, IInv
<1>4. ASSUME NEW c \in Seq(Nodes), Inv(q, c)', taken' = taken
      PROVE  IInv' /\ [Abstract!Next]_(Abstract!vars)
  BY <1>2, <1>3, <1>4 DEF Abstract!vars
<1>5. ASSUME NEW p \in Producers, PushLoad(p) \/ PushLink(p) PROVE IInv' /\ [Abstract!Next]_(Abstract!vars)
  BY <1>1, <1>4, <1>5, LoadKeeps, LinkKeeps
<1>6. ASSUME NEW n \in Nodes, ~Among(n, q), ~Among(n, taken), Inv(Append(q, n), b)', taken' = taken
      PROVE  IInv' /\ [Abstract!Next]_(Abstract!vars)
  <2>1. Append(q, n) \in Seq(Nodes)
    OBVIOUS
  <2>2. IInv' /\ Contents' = Append(Contents, n)
    BY <1>2, <1>3, <1>6, <2>1
  <2>3. n \notin Abstract!Elems(q) \cup Abstract!Elems(taken)
    <3>1. DOMAIN q = 1 .. Len(q) /\ DOMAIN taken = 1 .. Len(taken)
      BY <1>2
    <3>2. n \notin Abstract!Elems(q)
      BY <1>6, <3>1 DEF Abstract!Elems, Among
    <3>3. n \notin Abstract!Elems(taken)
      BY <1>6, <3>1 DEF Abstract!Elems, Among
    <3>4. QED BY <3>2, <3>3
  <2>4. Abstract!Push(n)
    BY <1>2, <1>6, <2>2, <2>3 DEF Abstract!Push
  <2>5. QED BY <2>2, <2>4 DEF Abstract!Next
<1>7. ASSUME NEW p \in Producers, PushSwing(p) PROVE IInv' /\ [Abstract!Next]_(Abstract!vars)
  BY <1>1, <1>4, <1>6, <1>7, SwingKeeps
<1>8. ASSUME NEW k \in 1 .. Len(q), NEW s \in Seq(Nodes), NEW c \in Seq(Nodes), Inv(s, c)',
             s = SubSeq(q, k + 1, Len(q)), taken' = taken \o SubSeq(q, 1, k)
      PROVE  IInv' /\ [Abstract!Next]_(Abstract!vars)
  <2>1. IInv' /\ Contents' = s
    BY <1>3, <1>8
  <2>2. Abstract!PopBatch(k)
    BY <1>2, <1>8, <2>1 DEF Abstract!PopBatch
  <2>3. QED BY <1>2, <2>1, <2>2 DEF Abstract!Next
<1>9. CASE PopCas
  <2>1. CASE last # cons.old
    BY <1>1, <1>4, <1>9, <2>1, ReadKeeps
  <2>2. CASE last = cons.old
    <3>1. q # <<>> /\ Inv(<<>>, q)' /\ taken' = taken \o q
      BY <1>1, <1>9, <2>2, CasKeeps
    <3>2. /\ Len(q) \in 1 .. Len(q) /\ SubSeq(q, 1, Len(q)) = q /\ SubSeq(q, Len(q) + 1, Len(q)) = <<>>
          /\ <<>> \in Seq(Nodes)
      BY <3>1
    <3>3. QED BY <1>8, <3>1, <3>2
  <2>3. QED BY <2>1, <2>2
<1>10. CASE PopCheck \/ PopFirst \/ PopLoad
  BY <1>1, <1>4, <1>10, ReadKeeps
<1>11. CASE PopClear
  BY <1>1, <1>4, <1>11, ClearKeeps
<1>12. CASE PopAdvance
  <2>1. PICK k \in 1 .. Len(q) : /\ Inv(SubSeq(q, k + 1, Len(q)), SubSeq(q, 1, k))'
                                 /\ SubSeq(q, k + 1, Len(q)) \in Seq(Nodes) /\ SubSeq(q, 1, k) \in Seq(Nodes)
                                 /\ taken' = taken \o SubSeq(q, 1, k)
    BY <1>1, <1>12, AdvanceKeeps
  <2>2. QED BY <1>8, <2>1
<1>13. CASE WalkNode
  BY <1>1, <1>4, <1>13, WalkKeeps
<1>14. CASE Rerun
  <2>1. Inv(<<>>, <<>>)' /\ taken' = <<>> /\ <<>> \in Seq(Nodes)
    BY <1>1, <1>14, RerunKeeps
  <2>2. IInv' /\ Contents' = <<>>
    BY <1>3, <2>1
  <2>3. Len(q) <= 1 /\ \A n \in Nodes : Among(n, q) \/ Among(n, taken)
    BY <1>1, <1>14, JoinedFacts DEF Rerun
  <2>4. Abstract!Elems(q) \cup Abstract!Elems(taken) = Nodes
    <3>1. DOMAIN q = 1 .. Len(q) /\ DOMAIN taken = 1 .. Len(taken)
      BY <1>2
    <3>2. Abstract!Elems(q) \subseteq Nodes /\ Abstract!Elems(taken) \subseteq Nodes
      BY <1>2, <3>1 DEF Abstract!Elems
    <3>3. \A n \in Nodes : n \in Abstract!Elems(q) \/ n \in Abstract!Elems(taken)
      BY <2>3, <3>1 DEF Abstract!Elems, Among
    <3>4. QED BY <3>2, <3>3
  <2>5. Abstract!Reinit
    BY <1>2, <2>1, <2>2, <2>3, <2>4 DEF Abstract!Reinit
  <2>6. QED BY <2>2, <2>5 DEF Abstract!Next
<1>15. CASE UNCHANGED vars
  <2>1. /\ next' = next /\ last' = last /\ prod' = prod /\ cons' = cons /\ got' = got /\ taken' = taken
        /\ run' = run
    BY <1>15 DEF vars
  <2>2. TypeInv'
    BY <1>1, <2>1 DEF Inv, TypeInv
  <2>3. QueueIs(q)'
    BY <1>1, <2>1 DEF Inv, QueueIs, Distinct
  <2>4. NodesInv(q)'
    BY <1>1, <2>1 DEF Inv, NodesInv, IsPushed, Among, Distinct
  <2>5. ASSUME NEW p \in Producers PROVE PushInv(p)'
    <3>1. PushInv(p)
      BY <1>1 DEF Inv
    <3>2. QED BY <2>1, <3>1 DEF PushInv, IsPushed, Node
  <2>6. PopInv(q, b)'
    BY <1>1, <2>1 DEF Inv, PopInv, Among, Linked
  <2>7. Inv(q, b)'
    BY <2>2, <2>3, <2>4, <2>5, <2>6 DEF Inv
  <2>8. QED BY <1>4, <2>1, <2>7
<1>16. QED BY <1>5, <1>7, <1>9, <1>10, <1>11, <1>12, <1>13, <1>14, <1>15 DEF Next, Producer, Consumer, Finished

\* The inductive invariant, for every instance.
THEOREM Invariant == Spec => []IInv
<1>1. IInv /\ [Next]_vars => IInv'
  BY StepRefines
<1>2. QED BY <1>1, InitHolds, PTL DEF Spec

\* The queue implements BatchQueue for any number of producers and any number
\* of iterations, with whatever next pointers the iterations before left in
\* the nodes: PushSwing appends, PopCas takes the whole queue and PopAdvance
\* the part the consumer has seen, every other step stutters.
THEOREM Refines == Spec => ImplementsBatchQueue
<1>1. Init => Abstract!Init
  BY DEF Init, Abstract!Init, Contents
<1>2. IInv /\ [Next]_vars => [Abstract!Next]_(Abstract!vars)
  BY StepRefines
<1>3. QED BY <1>1, <1>2, Invariant, PTL DEF Spec, ImplementsBatchQueue, Abstract!Spec

\* The consumer walks over what it detached, in order, and when all threads
\* are done nothing is lost and at most one node is left.
THEOREM Walks == Spec => []WalksWhatWasTaken
<1>1. IInv => WalksWhatWasTaken
  <2> SUFFICES ASSUME IInv PROVE WalksWhatWasTaken
    OBVIOUS
  <2>1. PICK q \in Seq(Nodes), b \in Seq(Nodes) : Inv(q, b)
    BY DEF IInv
  <2>2. Contents = q /\ taken \in Seq(Nodes) /\ got \in Seq(Nodes) /\ taken = got \o b
    BY <2>1, ContentsIs DEF ContentsFact, Inv, TypeInv, PopInv
  <2>3. Len(got) <= Len(taken)
    BY <2>2
  <2>4. got = SubSeq(taken, 1, Len(got))
    <3>1. Len(got) \in 0 .. Len(taken) /\ Len(got) \in Nat
      BY <2>2
    <3>2. /\ SubSeq(taken, 1, Len(got)) \in Seq(Nodes) /\ Len(SubSeq(taken, 1, Len(got))) = Len(got)
          /\ \A i \in 1 .. Len(got) : SubSeq(taken, 1, Len(got))[i] = taken[i]
      BY <2>2, <3>1, Split
    <3>3. \A i \in 1 .. Len(got) : taken[i] = got[i]
      BY <2>2, Joins
    <3>4. QED BY <2>2, <3>2, <3>3, SeqEqual
  <2>5. cons.pc \in {"check", "done"} => got = taken
    <3>1. cons.pc \in {"check", "done"} => b = <<>>
      BY <2>1 DEF Inv, PopInv
    <3>2. got \o <<>> = got
      BY <2>2
    <3>3. QED BY <2>2, <3>1, <3>2
  <2>6. Joined => Len(Contents) <= 1 /\ Len(got) + Len(Contents) = Sum
    BY <2>1, <2>2, JoinedFacts
  <2>7. QED BY <2>3, <2>4, <2>5, <2>6 DEF WalksWhatWasTaken
<1>2. QED BY <1>1, Invariant, PTL
=============================================================================
