-------------------------- MODULE SpinQueueProofs --------------------------
(***************************************************************************)
(* The spin-locked queue for every number of producers, consumers and      *)
(* nodes: it implements BatchQueue, and the consumers walk over exactly    *)
(* the nodes that were detached.                                           *)
(***************************************************************************)
EXTENDS SpinQueue, ChainsProofs

ProdRecs == [pc : {"lock", "link", "tail", "unlock", "done"}, i : 1 .. Count + 1]
ConsRecs == [pc : {"check", "lock", "take", "unlock", "walk", "done"}, first : Nodes \cup {NULL},
             last : Nodes \cup {HEAD, NULL}, node : Nodes \cup {NULL}, count : Nat \ {0}]

TypeInv ==
    /\ next \in [Nodes \cup {HEAD} -> Nodes \cup {NULL}] /\ last \in Nodes \cup {HEAD}
    /\ spin \in Producers \cup Consumers \cup {NULL}
    /\ prod \in [Producers -> ProdRecs] /\ \A p \in Producers : prod[p].pc # "done" => prod[p].i <= Count
    /\ cons \in [Consumers -> ConsRecs]
    /\ taken \in Seq(Nodes) /\ walked \subseteq Nodes

\* a thread inside the critical section holds the lock
LockInv ==
    /\ \A p \in Producers : prod[p].pc \in {"link", "tail", "unlock"} => spin = p
    /\ \A c \in Consumers : cons[c].pc \in {"take", "unlock"} => spin = c

\* n has been pushed
Pushed(n) == n[2] < prod[n[1]].i \/ (n[2] = prod[n[1]].i /\ prod[n[1]].pc = "unlock")

\* q is what is queued: a path from head.next to last of nodes pushed and not yet taken
QueueIs(q) ==
    /\ last = IF q = <<>> THEN HEAD ELSE q[Len(q)]
    /\ q # <<>> => next[HEAD] = q[1]
    /\ \A i \in 1 .. Len(q) - 1 : next[q[i]] = q[i + 1]
    /\ Distinct(q) /\ \A i \in 1 .. Len(q) : Pushed(q[i]) /\ ~Among(q[i], taken)
    /\ \A n \in Nodes : ~Among(n, taken) /\ ~Among(n, q) => next[n] = NULL

TakenInv == Distinct(taken) /\ \A i \in 1 .. Len(taken) : Pushed(taken[i])

\* nothing hangs behind last but the node being pushed
TailInv ==
    /\ (\A p \in Producers : prod[p].pc # "tail") => next[last] = NULL
    /\ \A p \in Producers : prod[p].pc = "tail" => next[last] = <<p, prod[p].i>>

\* b is what consumer c has still to walk over
RestIs(c, b) ==
    /\ cons[c].pc \in {"check", "lock", "take", "done"} => b = <<>>
    /\ cons[c].pc = "unlock" => /\ b = <<>> => cons[c].first = NULL
                                /\ b # <<>> => cons[c].first = b[1] /\ cons[c].last = b[Len(b)]
    /\ cons[c].pc = "walk" => b # <<>> /\ cons[c].node = b[1] /\ cons[c].last = b[Len(b)]
    /\ Linked(next, b)
    /\ \A i \in 1 .. Len(b) : Among(b[i], taken)
    /\ cons[c].count - 1 + Len(b) <= Len(taken)

WalkInv(rest) ==
    /\ \A c \in Consumers : RestIs(c, rest[c])
    /\ \A n \in walked : Among(n, taken)
    /\ \A i \in 1 .. Len(taken) : taken[i] \in walked \/ \E c \in Consumers : Among(taken[i], rest[c])

Inv(q, rest) == TypeInv /\ LockInv /\ TakenInv /\ TailInv /\ QueueIs(q) /\ WalkInv(rest)

IInv == \E q \in Seq(Nodes), rest \in [Consumers -> Seq(Nodes)] : Inv(q, rest)

-----------------------------------------------------------------------------
\* There are finitely many nodes, so a sequence without repetitions is short.
LEMMA SeqBound == ASSUME SpinQueueAssumption, NEW s \in Seq(Nodes), Distinct(s) PROVE Len(s) <= Sum /\ Sum \in Nat
<1>1. IsFiniteSet(Nodes)
  <2>1. IsFiniteSet(1 .. Count)
    BY FS_Interval DEF SpinQueueAssumption
  <2>2. QED BY <2>1, FS_Product DEF Nodes, SpinQueueAssumption
<1>2. QED BY <1>1, DistinctBound, FS_CardinalityType DEF Sum

BatchFact == \A q \in Seq(Nodes) : TypeInv /\ QueueIs(q) => Batch = q

\* The chain that Batch reads off is the queue.
LEMMA BatchIs == BatchFact
<1> SUFFICES ASSUME NEW q \in Seq(Nodes), TypeInv, QueueIs(q) PROVE Batch = q
  BY DEF BatchFact
<1> USE SpinQueueAssumption
<1>1. CASE q = <<>>
  BY <1>1 DEF QueueIs, Batch
<1>2. CASE q # <<>>
  <2>1. /\ Len(q) \in Nat /\ Len(q) > 0 /\ last = q[Len(q)] /\ last \in Nodes /\ last # HEAD /\ next[HEAD] = q[1]
        /\ \A i \in 1 .. Len(q) : q[i] \in Nodes
    BY <1>2 DEF QueueIs, SpinQueueAssumption, Nodes
  <2>2. Linked(next, q)
    <3>1. DOMAIN next = Nodes \cup {HEAD}
      BY DEF TypeInv
    <3>2. ASSUME NEW i \in 1 .. Len(q) - 1 PROVE q[i] # q[Len(q)] /\ q[i] \in DOMAIN next /\ next[q[i]] = q[i + 1]
      <4>1. i \in 1 .. Len(q) /\ Len(q) \in 1 .. Len(q) /\ i # Len(q)
        BY <2>1
      <4>2. QED BY <2>1, <3>1, <4>1 DEF QueueIs, Distinct
    <3>3. QED BY <3>2 DEF Linked
  <2>3. Len(q) \in 1 .. Sum + 1 /\ Sum \in Nat
    BY <2>1, SeqBound DEF QueueIs
  <2>4. Chain(next, q[1], q[Len(q)], Sum) = q
    BY <2>2, <2>3, ChainIs
  <2>5. QED BY <2>1, <2>4 DEF Batch
<1>3. QED BY <1>1, <1>2

\* In the next state too.
LEMMA BatchIsNext == BatchFact'
  BY BatchIs, PTL

-----------------------------------------------------------------------------
\* A step that writes no pointer and takes back no push leaves the queue alone.
LEMMA SameQueue ==
    ASSUME NEW q \in Seq(Nodes), QueueIs(q), TakenInv, taken \in Seq(Nodes), UNCHANGED <<next, last, taken>>,
           \A n \in Nodes : Pushed(n) => Pushed(n)'
    PROVE  QueueIs(q)' /\ TakenInv'
<1>1. \A n \in Nodes, s \in Seq(Nodes) : Among(n, s)' = Among(n, s)
  BY DEF Among
<1>2. \A i \in 1 .. Len(q) : q[i] \in Nodes
  OBVIOUS
<1>3. QueueIs(q)'
  BY <1>1, <1>2 DEF QueueIs, Distinct, Among
<1>4. TakenInv'
  BY DEF TakenInv, Distinct
<1>5. QED BY <1>3, <1>4

\* A step of others leaves alone what a consumer has still to walk over.
LEMMA SameRest ==
    ASSUME NEW c \in Consumers, NEW b \in Seq(Nodes), RestIs(c, b), UNCHANGED <<next, taken>>, cons'[c] = cons[c]
    PROVE  RestIs(c, b)'
  BY DEF RestIs, Among, Linked

\* Waiting for the lock and releasing it change nothing that matters.
LEMMA ProducerLockKeeps ==
    ASSUME NEW q \in Seq(Nodes), NEW rest \in [Consumers -> Seq(Nodes)], Inv(q, rest),
           NEW p \in Producers, PushLock(p) \/ PushUnlock(p)
    PROVE  Inv(q, rest)'
<1> USE SpinQueueAssumption DEF Inv
<1>1. /\ UNCHANGED <<next, last, cons, taken, walked>> /\ prod \in [Producers -> ProdRecs]
      /\ prod[p] \in ProdRecs /\ prod[p].i \in 1 .. Count + 1 /\ prod[p].i <= Count
      /\ p \in Producers /\ p \notin Consumers /\ NULL \notin Producers \cup Consumers
      /\ \/ prod[p].pc = "lock" /\ spin = NULL /\ spin' = p
         \/ prod[p].pc = "unlock" /\ spin = p /\ spin' = NULL
  BY DEF PushLock, PushUnlock, TypeInv, LockInv, ProdRecs, SpinQueueAssumption
<1>2. PICK r \in ProdRecs :
        /\ prod' = [prod EXCEPT ![p] = r]
        /\ \/ prod[p].pc = "lock" /\ r.pc = "link" /\ r.i = prod[p].i
           \/ /\ prod[p].pc = "unlock" /\ r.pc \in {"lock", "done"} /\ r.i = prod[p].i + 1
              /\ r.pc = "lock" => r.i <= Count
  <2>1. CASE PushLock(p)
    <3> DEFINE x == [prod[p] EXCEPT !.pc = "link"]
    <3>1. x \in ProdRecs /\ x.pc = "link" /\ x.i = prod[p].i
      BY <1>1 DEF ProdRecs
    <3>2. prod' = [prod EXCEPT ![p] = x]
      BY <1>1, <2>1 DEF PushLock
    <3> HIDE DEF x
    <3>3. QED BY <2>1, <3>1, <3>2 DEF PushLock
  <2>2. CASE PushUnlock(p)
    <3> DEFINE x == [pc |-> IF prod[p].i = Count THEN "done" ELSE "lock", i |-> prod[p].i + 1]
    <3>1. x \in ProdRecs /\ x.pc = (IF prod[p].i = Count THEN "done" ELSE "lock") /\ x.i = prod[p].i + 1
      BY <1>1 DEF ProdRecs, SpinQueueAssumption
    <3>2. prod' = [prod EXCEPT ![p] = x]
      BY <1>1, <2>2 DEF PushUnlock
    <3> HIDE DEF x
    <3>3. x.pc \in {"lock", "done"} /\ (x.pc = "lock" => x.i <= Count) /\ prod[p].pc = "unlock"
      BY <1>1, <2>2, <3>1 DEF PushUnlock, SpinQueueAssumption
    <3>4. QED BY <3>1, <3>2, <3>3
  <2>3. QED BY <2>1, <2>2
<1>3. prod'[p] = r /\ \A u \in Producers : u # p => prod'[u] = prod[u]
  BY <1>1, <1>2
<1>4. TypeInv'
  BY <1>1, <1>2, <1>3 DEF TypeInv
<1>5. LockInv'
  BY <1>1, <1>2, <1>3 DEF LockInv
<1>6. TailInv'
  BY <1>1, <1>2, <1>3 DEF TailInv
<1>7. ASSUME NEW n \in Nodes, Pushed(n) PROVE Pushed(n)'
  <2>1. n[1] \in Producers /\ n[2] \in 1 .. Count
    BY DEF Nodes
  <2>2. QED BY <1>1, <1>2, <1>3, <1>7, <2>1 DEF Pushed, ProdRecs
<1>8. QueueIs(q)' /\ TakenInv'
  BY <1>1, <1>7, SameQueue DEF TypeInv
<1>9. WalkInv(rest)'
  BY <1>1, SameRest DEF WalkInv, Among
<1>10. QED BY <1>4, <1>5, <1>6, <1>8, <1>9

\* Neither does the unlocked look at last, nor the lock of a pop or its unlock.
LEMMA ConsumerLockKeeps ==
    ASSUME NEW q \in Seq(Nodes), NEW rest \in [Consumers -> Seq(Nodes)], Inv(q, rest),
           NEW c \in Consumers, PopCheck(c) \/ PopLock(c) \/ PopUnlock(c)
    PROVE  Inv(q, rest)'
<1> USE SpinQueueAssumption DEF Inv
<1>1. /\ UNCHANGED <<next, last, prod, taken, walked>> /\ cons \in [Consumers -> ConsRecs]
      /\ cons[c] \in ConsRecs /\ rest[c] \in Seq(Nodes) /\ RestIs(c, rest[c])
      /\ c \notin Producers /\ NULL \notin Producers \cup Consumers
  BY DEF PopCheck, PopLock, PopUnlock, TypeInv, WalkInv, SpinQueueAssumption
<1>2. LoopEnd(c) \in {"check", "done"}
  BY DEF LoopEnd
<1>3. PICK r \in ConsRecs :
        /\ cons' = [cons EXCEPT ![c] = r] /\ r.count = cons[c].count /\ r.last = cons[c].last
        /\ \/ r.pc \in {"check", "lock", "done"} /\ cons[c].pc = "check" /\ spin' = spin
           \/ r.pc = "take" /\ cons[c].pc = "lock" /\ spin = NULL /\ spin' = c
           \/ /\ cons[c].pc = "unlock" /\ spin' = NULL /\ r.node = cons[c].first
              /\ r.pc \in IF cons[c].first = NULL THEN {"check", "done"} ELSE {"walk"}
  <2>1. CASE PopCheck(c)
    <3> DEFINE e == IF last # HEAD THEN "lock" ELSE LoopEnd(c)
               x == [cons[c] EXCEPT !.pc = e]
    <3>1. e \in {"check", "lock", "done"}
      BY <1>2
    <3>2. cons' = [cons EXCEPT ![c] = x]
      BY <1>1, <2>1 DEF PopCheck
    <3> HIDE DEF e
    <3>3. x \in ConsRecs /\ x.pc = e /\ x.count = cons[c].count /\ x.last = cons[c].last
      BY <1>1, <3>1 DEF ConsRecs
    <3> HIDE DEF x
    <3>4. QED BY <2>1, <3>1, <3>2, <3>3 DEF PopCheck
  <2>2. CASE PopLock(c)
    <3> DEFINE x == [cons[c] EXCEPT !.pc = "take"]
    <3>1. x \in ConsRecs /\ x.pc = "take" /\ x.count = cons[c].count /\ x.last = cons[c].last
      BY <1>1 DEF ConsRecs
    <3>2. cons' = [cons EXCEPT ![c] = x]
      BY <1>1, <2>2 DEF PopLock
    <3> HIDE DEF x
    <3>3. QED BY <2>2, <3>1, <3>2 DEF PopLock
  <2>3. CASE PopUnlock(c)
    <3> DEFINE e == IF cons[c].first = NULL THEN LoopEnd(c) ELSE "walk"
               x == [cons[c] EXCEPT !.pc = e, !.node = cons[c].first]
    <3>1. e \in (IF cons[c].first = NULL THEN {"check", "done"} ELSE {"walk"}) /\ e \in {"check", "done", "walk"}
      BY <1>2
    <3>2. cons' = [cons EXCEPT ![c] = x]
      BY <1>1, <2>3 DEF PopUnlock
    <3> HIDE DEF e
    <3>3. x \in ConsRecs /\ x.pc = e /\ x.count = cons[c].count /\ x.last = cons[c].last /\ x.node = cons[c].first
      BY <1>1, <3>1 DEF ConsRecs
    <3> HIDE DEF x
    <3>4. QED BY <2>3, <3>1, <3>2, <3>3 DEF PopUnlock
  <2>4. QED BY <2>1, <2>2, <2>3
<1>4. cons'[c] = r /\ \A u \in Consumers : u # c => cons'[u] = cons[u]
  BY <1>1, <1>3
<1>5. TypeInv'
  BY <1>1, <1>3 DEF TypeInv
<1>6. LockInv'
  BY <1>1, <1>3, <1>4 DEF LockInv
<1>7. TailInv'
  BY <1>1 DEF TailInv
<1>8. QueueIs(q)' /\ TakenInv'
  BY <1>1, SameQueue DEF TypeInv, Pushed
<1>9. RestIs(c, rest[c])'
  <2>1. rest[c] # <<>> => rest[c][1] \in Nodes /\ rest[c][1] # NULL
    BY <1>1 DEF SpinQueueAssumption, Nodes
  <2>2. QED BY <1>1, <1>3, <1>4, <2>1 DEF RestIs, Among, Linked
<1>10. WalkInv(rest)'
  BY <1>1, <1>4, <1>9, SameRest DEF WalkInv, Among
<1>11. QED BY <1>5, <1>6, <1>7, <1>8, <1>10

\* A push links its node behind the last one: no link of the queue or of a
\* detached batch is written.
LEMMA LinkKeeps ==
    ASSUME NEW q \in Seq(Nodes), NEW rest \in [Consumers -> Seq(Nodes)], Inv(q, rest),
           NEW p \in Producers, PushLink(p)
    PROVE  Inv(q, rest)'
<1> USE SpinQueueAssumption DEF Inv
<1>1. /\ UNCHANGED <<last, spin, cons, taken, walked>> /\ prod \in [Producers -> ProdRecs]
      /\ prod[p] \in ProdRecs /\ prod[p].pc = "link" /\ prod[p].i \in 1 .. Count /\ spin = p /\ p \notin Consumers
      /\ next \in [Nodes \cup {HEAD} -> Nodes \cup {NULL}] /\ last \in Nodes \cup {HEAD} /\ HEAD \notin Nodes
      /\ taken \in Seq(Nodes)
  BY DEF PushLink, TypeInv, LockInv, ProdRecs, SpinQueueAssumption, Nodes
<1>2. PICK n \in Nodes : n = <<p, prod[p].i>>
  BY <1>1 DEF Nodes
<1>3. PICK r \in ProdRecs : prod' = [prod EXCEPT ![p] = r] /\ r.pc = "tail" /\ r.i = prod[p].i
  <2> DEFINE x == [prod[p] EXCEPT !.pc = "tail"]
  <2>1. x \in ProdRecs /\ x.pc = "tail" /\ x.i = prod[p].i
    BY <1>1 DEF ProdRecs
  <2>2. prod' = [prod EXCEPT ![p] = x]
    BY <1>1 DEF PushLink
  <2> HIDE DEF x
  <2>3. QED BY <2>1, <2>2
<1>4. /\ prod'[p] = r /\ \A u \in Producers : u # p => prod'[u] = prod[u]
      /\ next' = [next EXCEPT ![last] = n]
      /\ next'[last] = n /\ \A x \in Nodes \cup {HEAD} : x # last => next'[x] = next[x]
  BY <1>1, <1>2, <1>3 DEF PushLink
<1>5. TypeInv'
  BY <1>1, <1>3, <1>4 DEF TypeInv
<1>6. LockInv'
  BY <1>1, <1>3, <1>4 DEF LockInv
<1>7. \A u \in Producers : u # p => prod[u].pc # "tail"
  BY <1>1 DEF LockInv
<1>8. TailInv'
  BY <1>1, <1>2, <1>3, <1>4, <1>7 DEF TailInv
<1>9. ASSUME NEW x \in Nodes, Pushed(x) PROVE Pushed(x)'
  <2>1. x[1] \in Producers
    BY DEF Nodes
  <2>2. QED BY <1>1, <1>3, <1>4, <1>9, <2>1 DEF Pushed
<1>10. \A i \in 1 .. Len(taken) : taken[i] \in Nodes /\ taken[i] # last
  BY <1>1 DEF QueueIs, Among
<1>11. TakenInv'
  BY <1>1, <1>9, <1>10 DEF TakenInv, Distinct
<1>12. QueueIs(q)'
  <2>1. \A i \in 1 .. Len(q) : q[i] \in Nodes
    OBVIOUS
  <2>2. \A i \in 1 .. Len(q) - 1 : i \in 1 .. Len(q) /\ q[i] # last
    BY DEF QueueIs, Distinct
  <2>3. \A i \in 1 .. Len(q) - 1 : next'[q[i]] = q[i + 1]
    BY <1>4, <2>1, <2>2 DEF QueueIs
  <2>4. q # <<>> => next'[HEAD] = q[1]
    BY <1>1, <1>4, <2>1 DEF QueueIs
  <2>5. ASSUME NEW x \in Nodes, ~Among(x, taken)', ~Among(x, q)' PROVE next'[x] = NULL
    <3>1. ~Among(x, taken) /\ ~Among(x, q)
      BY <1>1, <2>5 DEF Among
    <3>2. x # last
      <4>1. CASE q = <<>>
        BY <1>1, <4>1 DEF QueueIs
      <4>2. CASE q # <<>>
        <5>1. Len(q) \in 1 .. Len(q)
          BY <4>2
        <5>2. QED BY <3>1, <4>2, <5>1 DEF QueueIs, Among
      <4>3. QED BY <4>1, <4>2
    <3>3. QED BY <1>4, <3>1, <3>2 DEF QueueIs
  <2>6. \A i \in 1 .. Len(q) : Pushed(q[i])' /\ ~Among(q[i], taken)'
    BY <1>1, <1>9, <2>1 DEF QueueIs, Among
  <2>7. QED BY <1>1, <2>3, <2>4, <2>5, <2>6 DEF QueueIs, Distinct
<1>13. ASSUME NEW c \in Consumers PROVE RestIs(c, rest[c])'
  <2>1. rest[c] \in Seq(Nodes) /\ RestIs(c, rest[c])
    BY DEF WalkInv
  <2>2. \A i \in 1 .. Len(rest[c]) : rest[c][i] # last /\ rest[c][i] \in Nodes
    BY <1>10, <2>1 DEF RestIs, Among
  <2>3. \A i \in 1 .. Len(rest[c]) - 1 : i \in 1 .. Len(rest[c])
    BY <2>1
  <2>4. Linked(next', rest[c])
    BY <1>1, <1>4, <1>5, <2>1, <2>2, <2>3 DEF RestIs, Linked
  <2>5. QED BY <1>1, <2>1, <2>4 DEF RestIs, Among
<1>14. WalkInv(rest)'
  BY <1>1, <1>13 DEF WalkInv, Among
<1>15. QED BY <1>5, <1>6, <1>8, <1>11, <1>12, <1>14

\* The store to last is the push: the queue grows by a node that was never in it.
LEMMA TailKeeps ==
    ASSUME NEW q \in Seq(Nodes), NEW rest \in [Consumers -> Seq(Nodes)], Inv(q, rest),
           NEW p \in Producers, NEW n \in Nodes, n = <<p, prod[p].i>>, PushTail(p)
    PROVE  /\ Inv(Append(q, n), rest)'
           /\ ~Among(n, taken) /\ ~Among(n, q)
<1> USE SpinQueueAssumption DEF Inv
<1>1. /\ UNCHANGED <<next, spin, cons, taken, walked>> /\ last' = n /\ prod \in [Producers -> ProdRecs]
      /\ prod[p] \in ProdRecs /\ prod[p].pc = "tail" /\ prod[p].i \in 1 .. Count /\ spin = p /\ p \notin Consumers
      /\ next \in [Nodes \cup {HEAD} -> Nodes \cup {NULL}] /\ last \in Nodes \cup {HEAD} /\ HEAD \notin Nodes
      /\ taken \in Seq(Nodes) /\ n[1] = p /\ n[2] = prod[p].i /\ next[last] = n
  BY DEF PushTail, TypeInv, LockInv, ProdRecs, SpinQueueAssumption, Nodes, TailInv
<1>2. PICK r \in ProdRecs : prod' = [prod EXCEPT ![p] = r] /\ r.pc = "unlock" /\ r.i = prod[p].i
  <2> DEFINE x == [prod[p] EXCEPT !.pc = "unlock"]
  <2>1. x \in ProdRecs /\ x.pc = "unlock" /\ x.i = prod[p].i
    BY <1>1 DEF ProdRecs
  <2>2. prod' = [prod EXCEPT ![p] = x]
    BY <1>1 DEF PushTail
  <2> HIDE DEF x
  <2>3. QED BY <2>1, <2>2
<1>3. prod'[p] = r /\ \A u \in Producers : u # p => prod'[u] = prod[u]
  BY <1>1, <1>2
<1>4. TypeInv'
  BY <1>1, <1>2, <1>3 DEF TypeInv
<1>5. LockInv'
  BY <1>1, <1>2, <1>3 DEF LockInv
<1>6. ~Pushed(n)
  BY <1>1 DEF Pushed
<1>7. ~Among(n, taken) /\ ~Among(n, q)
  BY <1>6 DEF Among, QueueIs, TakenInv
<1>8. \A u \in Producers : prod'[u].pc # "tail"
  BY <1>1, <1>2, <1>3 DEF LockInv
<1>9. TailInv'
  BY <1>1, <1>7, <1>8 DEF TailInv, QueueIs
<1>10. ASSUME NEW x \in Nodes, Pushed(x) \/ x = n PROVE Pushed(x)'
  <2>1. x[1] \in Producers
    BY DEF Nodes
  <2>2. QED BY <1>1, <1>2, <1>3, <1>10, <2>1 DEF Pushed
<1>11. TakenInv'
  BY <1>1, <1>10 DEF TakenInv, Distinct
<1> DEFINE s == Append(q, n)
<1>12. /\ s \in Seq(Nodes) /\ Len(s) = Len(q) + 1 /\ s # <<>> /\ s[Len(s)] = n /\ Len(q) \in Nat
       /\ \A i \in 1 .. Len(q) : s[i] = q[i] /\ q[i] \in Nodes
  <2>1. s \in Seq(Nodes) /\ Len(s) = Len(q) + 1 /\ Len(q) \in Nat /\ s[Len(q) + 1] = n
    OBVIOUS
  <2>2. \A i \in 1 .. Len(q) : s[i] = q[i] /\ q[i] \in Nodes
    OBVIOUS
  <2> HIDE DEF s
  <2>3. s # <<>>
    BY <2>1
  <2>4. QED BY <2>1, <2>2, <2>3
<1> HIDE DEF s
<1>13. QueueIs(s)'
  <2>1. next'[HEAD] = s[1]
    <3>1. CASE q = <<>>
      <4>1. Len(q) = 0 /\ last = HEAD
        BY <3>1 DEF QueueIs
      <4>2. s[1] = n
        BY <1>12, <4>1
      <4>3. QED BY <1>1, <4>1, <4>2
    <3>2. CASE q # <<>>
      <4>1. 1 \in 1 .. Len(q)
        BY <3>2
      <4>2. QED BY <1>1, <1>12, <3>2, <4>1 DEF QueueIs
    <3>3. QED BY <3>1, <3>2
  <2>2. ASSUME NEW i \in 1 .. Len(s) - 1 PROVE next'[s[i]] = s[i + 1]
    <3>1. CASE i = Len(q)
      <4>1. q # <<>> /\ i \in 1 .. Len(q) /\ i + 1 = Len(s)
        BY <1>12, <3>1
      <4>2. QED BY <1>1, <1>12, <3>1, <4>1 DEF QueueIs
    <3>2. CASE i # Len(q)
      <4>1. i \in 1 .. Len(q) - 1 /\ i + 1 \in 1 .. Len(q) /\ i \in 1 .. Len(q)
        BY <1>12, <3>2
      <4>2. QED BY <1>1, <1>12, <4>1 DEF QueueIs
    <3>3. QED BY <3>1, <3>2
  <2>3. Distinct(s)
    <3>1. ASSUME NEW i \in 1 .. Len(s), NEW j \in 1 .. Len(s), s[i] = s[j] PROVE i = j
      <4>1. \A k \in 1 .. Len(s) : k \in 1 .. Len(q) \/ k = Len(s)
        BY <1>12
      <4>2. \A k \in 1 .. Len(q) : s[k] # n
        BY <1>7, <1>12 DEF Among
      <4>3. QED BY <1>12, <3>1, <4>1, <4>2 DEF QueueIs, Distinct
    <3>2. QED BY <3>1 DEF Distinct
  <2>4. ASSUME NEW i \in 1 .. Len(s) PROVE Pushed(s[i])' /\ ~Among(s[i], taken)'
    <3>1. i \in 1 .. Len(q) \/ s[i] = n
      BY <1>12
    <3>2. s[i] \in Nodes /\ (Pushed(s[i]) \/ s[i] = n) /\ ~Among(s[i], taken)
      BY <1>7, <1>12, <3>1 DEF QueueIs
    <3>3. QED BY <1>1, <1>10, <3>2 DEF Among
  <2>5. ASSUME NEW x \in Nodes, ~Among(x, taken)', ~Among(x, s)' PROVE next'[x] = NULL
    <3>1. \A i \in 1 .. Len(q) : i \in 1 .. Len(s)
      BY <1>12
    <3>2. ~Among(x, taken) /\ ~Among(x, q)
      BY <1>1, <1>12, <2>5, <3>1 DEF Among
    <3>3. QED BY <1>1, <3>2 DEF QueueIs
  <2>6. QED BY <1>1, <1>12, <2>1, <2>2, <2>3, <2>4, <2>5 DEF QueueIs, Distinct
<1>14. WalkInv(rest)'
  <2>1. \A c \in Consumers : RestIs(c, rest[c])'
    BY <1>1, SameRest DEF WalkInv
  <2>2. QED BY <1>1, <2>1 DEF WalkInv, Among
<1>15. QED BY <1>4, <1>5, <1>7, <1>9, <1>11, <1>13, <1>14 DEF s

\* A pop detaches the whole queue, which its consumer has then to walk over.
LEMMA TakeKeeps ==
    ASSUME NEW q \in Seq(Nodes), NEW rest \in [Consumers -> Seq(Nodes)], Inv(q, rest),
           NEW c \in Consumers, PopTake(c)
    PROVE  /\ Inv(<<>>, [rest EXCEPT ![c] = q])'
           /\ taken' = taken \o q
<1> USE SpinQueueAssumption DEF Inv
<1>1. /\ UNCHANGED <<spin, prod, walked>> /\ cons \in [Consumers -> ConsRecs] /\ cons[c] \in ConsRecs
      /\ cons[c].pc = "take" /\ spin = c /\ c \notin Producers
      /\ next \in [Nodes \cup {HEAD} -> Nodes \cup {NULL}] /\ last \in Nodes \cup {HEAD} /\ HEAD \notin Nodes
      /\ next[HEAD] \in Nodes \cup {NULL} /\ NULL \notin Nodes
      /\ taken \in Seq(Nodes) /\ last' = HEAD /\ next' = [next EXCEPT ![HEAD] = NULL]
  BY DEF PopTake, TypeInv, LockInv, SpinQueueAssumption, Nodes
<1>2. taken' = taken \o q
  BY BatchIs DEF BatchFact, PopTake
<1>3. PICK r \in ConsRecs : /\ cons' = [cons EXCEPT ![c] = r]
                            /\ r.pc = "unlock" /\ r.first = next[HEAD] /\ r.last = last /\ r.count = cons[c].count
  <2> DEFINE x == [cons[c] EXCEPT !.pc = "unlock", !.first = next[HEAD], !.last = last]
  <2>1. x \in ConsRecs /\ x.pc = "unlock" /\ x.first = next[HEAD] /\ x.last = last /\ x.count = cons[c].count
    BY <1>1 DEF ConsRecs
  <2>2. cons' = [cons EXCEPT ![c] = x]
    BY <1>1 DEF PopTake
  <2> HIDE DEF x
  <2>3. QED BY <2>1, <2>2
<1>4. /\ cons'[c] = r /\ \A u \in Consumers : u # c => cons'[u] = cons[u]
      /\ next'[HEAD] = NULL /\ \A x \in Nodes : next'[x] = next[x]
      /\ DOMAIN next' = Nodes \cup {HEAD}
  BY <1>1, <1>3
<1>5. PICK tk \in Seq(Nodes) : tk = taken'
  <2>1. taken \o q \in Seq(Nodes)
    BY <1>1
  <2>2. QED BY <1>2, <2>1
<1>6. /\ Len(tk) = Len(taken) + Len(q) /\ Len(taken) \in Nat /\ Len(q) \in Nat
      /\ \A i \in 1 .. Len(taken) : tk[i] = taken[i] /\ taken[i] \in Nodes
      /\ \A i \in 1 .. Len(q) : tk[Len(taken) + i] = q[i] /\ q[i] \in Nodes
      /\ \A i \in 1 .. Len(tk) : i \in 1 .. Len(taken) \/ (i - Len(taken) \in 1 .. Len(q) /\ tk[i] = q[i - Len(taken)])
  <2>1. tk = taken \o q /\ Len(tk) = Len(taken) + Len(q) /\ Len(taken) \in Nat /\ Len(q) \in Nat
    BY <1>1, <1>2, <1>5
  <2>2. \A i \in 1 .. Len(taken) : tk[i] = taken[i] /\ taken[i] \in Nodes
    BY <1>1, <2>1
  <2>3. \A i \in 1 .. Len(q) : tk[Len(taken) + i] = q[i] /\ q[i] \in Nodes
    BY <1>1, <2>1
  <2>4. ASSUME NEW i \in 1 .. Len(tk)
        PROVE  i \in 1 .. Len(taken) \/ (i - Len(taken) \in 1 .. Len(q) /\ tk[i] = q[i - Len(taken)])
    BY <1>1, <2>1
  <2>5. QED BY <2>1, <2>2, <2>3, <2>4
<1>7. \A n \in Nodes : Among(n, tk) <=> Among(n, taken) \/ Among(n, q)
  <2> SUFFICES ASSUME NEW n \in Nodes PROVE Among(n, tk) <=> Among(n, taken) \/ Among(n, q)
    OBVIOUS
  <2>1. ASSUME Among(n, tk) PROVE Among(n, taken) \/ Among(n, q)
    BY <1>6, <2>1 DEF Among
  <2>2. ASSUME Among(n, taken) PROVE Among(n, tk)
    <3>1. PICK i \in 1 .. Len(taken) : n = taken[i]
      BY <2>2 DEF Among
    <3>2. i \in 1 .. Len(tk) /\ n = tk[i]
      BY <1>6, <3>1
    <3>3. QED BY <3>2 DEF Among
  <2>3. ASSUME Among(n, q) PROVE Among(n, tk)
    <3>1. PICK i \in 1 .. Len(q) : n = q[i]
      BY <2>3 DEF Among
    <3>2. Len(taken) + i \in 1 .. Len(tk) /\ n = tk[Len(taken) + i]
      BY <1>6, <3>1
    <3>3. QED BY <3>2 DEF Among
  <2>4. QED BY <2>1, <2>2, <2>3
<1>8. TypeInv'
  BY <1>1, <1>3, <1>5 DEF TypeInv
<1>9. LockInv'
  BY <1>1, <1>3, <1>4 DEF LockInv
<1>10. \A p \in Producers : prod[p].pc # "tail"
  BY <1>1 DEF LockInv
<1>11. TailInv'
  BY <1>1, <1>4, <1>10 DEF TailInv
<1>12. \A n : Pushed(n)' = Pushed(n)
  BY <1>1 DEF Pushed
<1>13. TakenInv'
  <2>0. \A i \in 1 .. Len(taken), j \in 1 .. Len(q) : taken[i] # q[j]
    BY DEF QueueIs, Among
  <2>1. Distinct(tk)
    <3> SUFFICES ASSUME NEW i \in 1 .. Len(tk), NEW j \in 1 .. Len(tk), tk[i] = tk[j] PROVE i = j
      BY DEF Distinct
    <3>1. CASE i \in 1 .. Len(taken) /\ j \in 1 .. Len(taken)
      BY <1>6, <3>1 DEF TakenInv, Distinct
    <3>2. CASE i \notin 1 .. Len(taken) /\ j \notin 1 .. Len(taken)
      <4>1. PICK a \in 1 .. Len(q), b \in 1 .. Len(q) :
              a = i - Len(taken) /\ b = j - Len(taken) /\ tk[i] = q[a] /\ tk[j] = q[b]
        BY <1>6, <3>2
      <4>2. a = b
        BY <4>1 DEF QueueIs, Distinct
      <4>3. QED BY <1>6, <4>1, <4>2
    <3>3. CASE i \in 1 .. Len(taken) /\ j \notin 1 .. Len(taken)
      BY <1>6, <3>3, <2>0
    <3>4. CASE i \notin 1 .. Len(taken) /\ j \in 1 .. Len(taken)
      <4>1. PICK a \in 1 .. Len(q) : tk[i] = q[a]
        BY <1>6, <3>4
      <4>2. QED BY <1>6, <3>4, <4>1, <2>0
    <3>5. QED BY <3>1, <3>2, <3>3, <3>4
  <2>2. \A i \in 1 .. Len(tk) : Pushed(tk[i])
    BY <1>6 DEF TakenInv, QueueIs
  <2>3. QED BY <1>5, <1>12, <2>1, <2>2 DEF TakenInv, Distinct
<1>14. QueueIs(<<>>)'
  <2>1. ASSUME NEW n \in Nodes, ~Among(n, tk) PROVE next'[n] = NULL
    BY <1>4, <1>7, <2>1 DEF QueueIs
  <2>2. QED BY <1>1, <1>5, <2>1 DEF QueueIs, Distinct, Among
<1>15. ASSUME NEW u \in Consumers, u # c PROVE RestIs(u, rest[u])'
  <2>1. rest[u] \in Seq(Nodes) /\ RestIs(u, rest[u]) /\ Len(rest[u]) \in Nat /\ cons[u].count \in Nat
    BY DEF WalkInv, TypeInv, ConsRecs
  <2>2. \A i \in 1 .. Len(rest[u]) : rest[u][i] \in Nodes /\ Among(rest[u][i], tk)
    BY <1>7, <2>1 DEF RestIs
  <2>3. \A i \in 1 .. Len(rest[u]) - 1 : i \in 1 .. Len(rest[u])
    BY <2>1
  <2>4. Linked(next', rest[u])
    BY <1>4, <2>1, <2>2, <2>3 DEF RestIs, Linked
  <2>5. \A i \in 1 .. Len(rest[u]) : Among(rest[u][i], taken)'
    BY <1>5, <2>2 DEF Among
  <2>6. cons'[u].count - 1 + Len(rest[u]) <= Len(taken')
    BY <1>4, <1>5, <1>6, <1>15, <2>1 DEF RestIs
  <2>7. QED BY <1>4, <1>15, <2>1, <2>4, <2>5, <2>6 DEF RestIs
<1>16. RestIs(c, q)'
  <2>1. cons[c].count \in Nat /\ cons[c].count - 1 <= Len(taken)
    <3>1. rest[c] = <<>> /\ RestIs(c, rest[c])
      BY <1>1 DEF WalkInv, RestIs
    <3>2. Len(rest[c]) = 0
      BY <3>1
    <3>3. QED BY <1>1, <1>6, <3>1, <3>2 DEF RestIs, ConsRecs
  <2>2. cons'[c].count - 1 + Len(q) <= Len(taken')
    BY <1>3, <1>4, <1>5, <1>6, <2>1
  <2>3. q # <<>> => cons'[c].first = q[1] /\ cons'[c].last = q[Len(q)]
    BY <1>3, <1>4 DEF QueueIs
  <2>4. q = <<>> => cons'[c].first = NULL
    BY <1>3, <1>4, <1>10 DEF QueueIs, TailInv
  <2>5. Linked(next', q)
    <3>1. ASSUME NEW i \in 1 .. Len(q) - 1 PROVE q[i] # q[Len(q)] /\ q[i] \in DOMAIN next' /\ next'[q[i]] = q[i + 1]
      <4>1. i \in 1 .. Len(q) /\ Len(q) \in 1 .. Len(q) /\ i # Len(q)
        BY <1>6
      <4>2. QED BY <1>4, <1>6, <4>1 DEF QueueIs, Distinct
    <3>2. QED BY <3>1 DEF Linked
  <2>6. \A i \in 1 .. Len(q) : Among(q[i], tk)
    BY <1>6, <1>7 DEF Among
  <2>7. \A i \in 1 .. Len(q) : Among(q[i], taken)'
    BY <1>5, <2>6 DEF Among
  <2>8. QED BY <1>3, <1>4, <2>2, <2>3, <2>4, <2>5, <2>7 DEF RestIs
<1>17. PICK rs \in [Consumers -> Seq(Nodes)] :
         rs = [rest EXCEPT ![c] = q] /\ rs[c] = q /\ \A u \in Consumers : u # c => rs[u] = rest[u]
  <2>1. [rest EXCEPT ![c] = q] \in [Consumers -> Seq(Nodes)]
    OBVIOUS
  <2>2. QED BY <2>1
<1>18. rest[c] = <<>>
  BY <1>1 DEF WalkInv, RestIs
<1>19. WalkInv(rs)'
  <2>1. \A u \in Consumers : RestIs(u, rs[u])'
    BY <1>15, <1>16, <1>17
  <2>2. \A n \in walked : Among(n, tk)
    BY <1>7 DEF WalkInv, TypeInv
  <2>3. ASSUME NEW i \in 1 .. Len(tk) PROVE tk[i] \in walked \/ \E u \in Consumers : Among(tk[i], rs[u])
    <3>1. CASE i \in 1 .. Len(taken)
      <4>1. ASSUME NEW u \in Consumers, Among(taken[i], rest[u]) PROVE u # c
        BY <1>18, <4>1 DEF Among
      <4>2. QED BY <1>6, <1>17, <3>1, <4>1 DEF WalkInv
    <3>2. CASE i \notin 1 .. Len(taken)
      BY <1>6, <1>17, <3>2 DEF Among
    <3>3. QED BY <3>1, <3>2
  <2>4. \A n \in walked' : Among(n, taken)'
    BY <1>1, <1>5, <2>2 DEF Among
  <2>5. \A i \in 1 .. Len(taken') : taken'[i] \in walked' \/ \E u \in Consumers : Among(taken[i], rs[u])'
    BY <1>1, <1>5, <2>3 DEF Among
  <2>6. QED BY <2>1, <2>4, <2>5 DEF WalkInv
<1>20. QED BY <1>2, <1>8, <1>9, <1>11, <1>13, <1>14, <1>17, <1>19

\* A consumer walks to the next node of its batch; at the end of the batch,
\* which it recognises by the pointer, nothing is left.
LEMMA WalkKeeps ==
    ASSUME NEW q \in Seq(Nodes), NEW rest \in [Consumers -> Seq(Nodes)], Inv(q, rest),
           NEW c \in Consumers, WalkNode(c)
    PROVE  \E rs \in [Consumers -> Seq(Nodes)] : Inv(q, rs)'
<1> USE SpinQueueAssumption DEF Inv
<1>1. PICK b \in Seq(Nodes) : b = rest[c]
  OBVIOUS
<1>2. /\ UNCHANGED <<next, last, spin, prod, taken>> /\ cons \in [Consumers -> ConsRecs] /\ cons[c] \in ConsRecs
      /\ next \in [Nodes \cup {HEAD} -> Nodes \cup {NULL}] /\ taken \in Seq(Nodes) /\ walked \subseteq Nodes
      /\ cons[c].pc = "walk" /\ RestIs(c, b) /\ cons[c].count \in Nat
      /\ walked' = walked \cup {cons[c].node}
  BY <1>1 DEF WalkNode, TypeInv, WalkInv, ConsRecs
<1>3. /\ b # <<>> /\ Len(b) \in Nat /\ Len(b) > 0 /\ 1 \in 1 .. Len(b) /\ cons[c].node = b[1] /\ cons[c].last = b[Len(b)]
      /\ \A i \in 1 .. Len(b) : b[i] \in Nodes
  BY <1>2 DEF RestIs
<1>4. PICK t \in Seq(Nodes) : t = Tail(b)
  <2>1. Tail(b) \in Seq(Nodes)
    BY <1>3
  <2>2. QED BY <2>1
<1>5. Len(t) = Len(b) - 1 /\ \A i \in 1 .. Len(t) : t[i] = b[i + 1] /\ i + 1 \in 1 .. Len(b)
  BY <1>3, <1>4
<1>6. \* the test for the end of the batch is right
      cons[c].node # cons[c].last <=> t # <<>>
  <2>1. CASE Len(b) = 1
    <3>1. Len(t) = 0
      BY <1>5, <2>1
    <3>2. t = <<>>
      BY <3>1
    <3>3. QED BY <1>3, <2>1, <3>2
  <2>2. CASE Len(b) # 1
    <3>1. 1 \in 1 .. Len(b) - 1
      <4>1. \A k \in Nat : k > 0 /\ k # 1 => 1 \in 1 .. k - 1
        OBVIOUS
      <4>2. QED BY <1>3, <2>2, <4>1
    <3>2. b[1] # b[Len(b)]
      BY <1>2, <3>1 DEF RestIs, Linked
    <3>3. Len(t) # 0
      BY <1>3, <1>5, <2>2
    <3>4. t # <<>>
      BY <3>3
    <3>5. QED BY <1>3, <3>2, <3>4
  <2>3. QED BY <2>1, <2>2
<1>7. PICK r \in ConsRecs :
        /\ cons' = [cons EXCEPT ![c] = r] /\ r.count = cons[c].count + 1 /\ r.last = cons[c].last
        /\ r.node = next[b[1]]
        /\ r.pc \in IF t # <<>> THEN {"walk"} ELSE {"check", "done"}
  <2> DEFINE e == IF cons[c].node # cons[c].last THEN "walk" ELSE IF cons[c].count + 1 < Sum THEN "check" ELSE "done"
             x == [cons[c] EXCEPT !.count = cons[c].count + 1, !.node = next[b[1]], !.pc = e]
  <2>1. e \in (IF t # <<>> THEN {"walk"} ELSE {"check", "done"}) /\ e \in {"walk", "check", "done"}
    BY <1>6
  <2>2. cons' = [cons EXCEPT ![c] = x]
    BY <1>2, <1>3 DEF WalkNode
  <2>3. next[b[1]] \in Nodes \cup {NULL} /\ cons[c].count + 1 \in Nat
    BY <1>2, <1>3
  <2> HIDE DEF e
  <2>4. x \in ConsRecs /\ x.count = cons[c].count + 1 /\ x.last = cons[c].last /\ x.node = next[b[1]] /\ x.pc = e
    <3>1. cons[c].count + 1 \in Nat \ {0}
      BY <1>2 DEF ConsRecs
    <3>2. QED BY <1>2, <2>1, <2>3, <3>1 DEF ConsRecs
  <2> HIDE DEF x
  <2>5. QED BY <2>1, <2>2, <2>4
<1>8. cons'[c] = r /\ \A u \in Consumers : u # c => cons'[u] = cons[u]
  BY <1>2, <1>7
<1>9. TypeInv'
  BY <1>2, <1>3, <1>7 DEF TypeInv
<1>10. LockInv'
  BY <1>2, <1>7, <1>8 DEF LockInv
<1>11. TailInv'
  BY <1>2 DEF TailInv
<1>12. QueueIs(q)' /\ TakenInv'
  BY <1>2, SameQueue DEF Pushed
<1>13. RestIs(c, t)'
  <2>1. r.count - 1 + Len(t) <= Len(taken)
    BY <1>2, <1>3, <1>5, <1>7 DEF RestIs
  <2>2. ASSUME NEW i \in 1 .. Len(t) - 1 PROVE t[i] # t[Len(t)] /\ t[i] \in DOMAIN next /\ next[t[i]] = t[i + 1]
    <3>1. /\ i + 1 \in 1 .. Len(b) - 1 /\ i \in 1 .. Len(t) /\ i + 1 \in 1 .. Len(t) /\ Len(t) \in 1 .. Len(t)
          /\ Len(t) + 1 = Len(b)
      BY <1>3, <1>5
    <3>2. t[i] = b[i + 1] /\ t[i + 1] = b[i + 1 + 1] /\ t[Len(t)] = b[Len(b)]
      BY <1>5, <3>1
    <3>3. QED BY <1>2, <3>1, <3>2 DEF RestIs, Linked
  <2>3. Linked(next', t)
    BY <1>2, <2>2 DEF Linked
  <2>4. \A i \in 1 .. Len(t) : Among(t[i], taken)
    BY <1>2, <1>5 DEF RestIs
  <2>5. \A i \in 1 .. Len(t) : Among(t[i], taken)'
    BY <1>2, <2>4 DEF Among
  <2>6. t # <<>> => r.node = t[1] /\ r.last = t[Len(t)]
    <3> SUFFICES ASSUME t # <<>> PROVE r.node = t[1] /\ r.last = t[Len(t)]
      OBVIOUS
    <3>1. Len(t) # 0
      OBVIOUS
    <3>2. 1 \in 1 .. Len(b) - 1 /\ 1 \in 1 .. Len(t) /\ Len(t) \in 1 .. Len(t) /\ Len(t) + 1 = Len(b)
      BY <1>3, <1>5, <3>1
    <3>3. next[b[1]] = b[1 + 1] /\ t[1] = b[1 + 1] /\ t[Len(t)] = b[Len(b)]
      BY <1>2, <1>5, <3>2 DEF RestIs, Linked
    <3>4. QED BY <1>3, <1>7, <3>3
  <2>7. QED BY <1>2, <1>7, <1>8, <2>1, <2>3, <2>5, <2>6 DEF RestIs
<1>14. PICK rs \in [Consumers -> Seq(Nodes)] :
         rs[c] = t /\ \A u \in Consumers : u # c => rs[u] = rest[u]
  <2>1. [rest EXCEPT ![c] = t] \in [Consumers -> Seq(Nodes)]
    OBVIOUS
  <2>2. QED BY <2>1
<1>15. ASSUME NEW u \in Consumers PROVE RestIs(u, rs[u])'
  <2>1. CASE u = c
    BY <1>13, <1>14, <2>1
  <2>2. CASE u # c
    <3>1. rs[u] = rest[u] /\ cons'[u] = cons[u] /\ RestIs(u, rs[u])
      BY <1>8, <1>14, <2>2 DEF WalkInv
    <3>2. QED BY <1>2, <3>1, SameRest
  <2>3. QED BY <2>1, <2>2
<1>16. WalkInv(rs)'
  <2>1. Among(b[1], taken)
    BY <1>2, <1>3 DEF RestIs
  <2>2. \A n \in walked' : Among(n, taken)'
    BY <1>2, <1>3, <2>1 DEF WalkInv, Among
  <2>3. ASSUME NEW i \in 1 .. Len(taken) PROVE taken[i] \in walked' \/ \E u \in Consumers : Among(taken[i], rs[u])
    <3>1. CASE taken[i] \in walked
      BY <1>2, <3>1
    <3>2. ASSUME NEW u \in Consumers, Among(taken[i], rest[u]), u # c PROVE Among(taken[i], rs[u])
      BY <1>14, <3>2
    <3>3. CASE Among(taken[i], rest[c])
      <4>1. PICK j \in 1 .. Len(b) : taken[i] = b[j]
        BY <1>1, <3>3 DEF Among
      <4>2. CASE j = 1
        BY <1>2, <1>3, <4>1, <4>2
      <4>3. CASE j # 1
        <5>1. j - 1 \in 1 .. Len(t) /\ t[j - 1] = b[j - 1 + 1] /\ j - 1 + 1 = j
          BY <1>3, <1>5, <4>3
        <5>2. Among(taken[i], rs[c])
          BY <1>14, <4>1, <5>1 DEF Among
        <5>3. QED BY <5>2
      <4>4. QED BY <4>2, <4>3
    <3>4. QED BY <3>1, <3>2, <3>3 DEF WalkInv
  <2>4. \A i \in 1 .. Len(taken') : taken'[i] \in walked' \/ \E u \in Consumers : Among(taken[i], rs[u])'
    BY <1>2, <2>3 DEF Among
  <2>5. QED BY <1>15, <2>2, <2>4 DEF WalkInv
<1>17. QED BY <1>9, <1>10, <1>11, <1>12, <1>16

-----------------------------------------------------------------------------
\* The invariant holds initially.
LEMMA InitHolds == Init => IInv
<1> SUFFICES ASSUME Init PROVE IInv
  OBVIOUS
<1> USE SpinQueueAssumption
<1> DEFINE e == [c \in Consumers |-> <<>>]
<1>0. <<>> \in Seq(Nodes) /\ e \in [Consumers -> Seq(Nodes)] /\ \A c \in Consumers : e[c] = <<>>
  OBVIOUS
<1> HIDE DEF e
<1>1. /\ \A n \in Nodes \cup {HEAD} : next[n] = NULL
      /\ next \in [Nodes \cup {HEAD} -> Nodes \cup {NULL}]
      /\ last = HEAD /\ spin = NULL /\ taken = <<>> /\ walked = {}
  BY DEF Init
<1>2. prod \in [Producers -> ProdRecs] /\ \A p \in Producers : prod[p].pc = "lock" /\ prod[p].i = 1
  BY DEF Init, ProdRecs, SpinQueueAssumption
<1>3. cons \in [Consumers -> ConsRecs] /\ \A c \in Consumers : cons[c].pc = "check" /\ cons[c].count = 1
  BY DEF Init, ConsRecs
<1>4. TypeInv
  BY <1>0, <1>1, <1>2, <1>3 DEF TypeInv, SpinQueueAssumption
<1>5. LockInv /\ TailInv
  BY <1>1, <1>2, <1>3 DEF LockInv, TailInv
<1>6. TakenInv
  BY <1>1 DEF TakenInv, Distinct
<1>7. QueueIs(<<>>)
  BY <1>1 DEF QueueIs, Distinct, Among
<1>8. WalkInv(e)
  BY <1>0, <1>1, <1>3 DEF WalkInv, RestIs, Among, Linked
<1>9. QED BY <1>0, <1>4, <1>5, <1>6, <1>7, <1>8 DEF IInv, Inv

\* Every step preserves it, and is a step of BatchQueue or leaves it alone.
LEMMA StepRefines ==
    ASSUME IInv, [Next]_vars PROVE IInv' /\ [Abstract!Next]_(Abstract!vars)
<1> USE SpinQueueAssumption
<1>1. PICK q \in Seq(Nodes), rest \in [Consumers -> Seq(Nodes)] : Inv(q, rest)
  BY DEF IInv
<1>2. Batch = q
  BY <1>1, BatchIs DEF BatchFact, Inv
<1>3. ASSUME NEW s \in Seq(Nodes), NEW rs \in [Consumers -> Seq(Nodes)], Inv(s, rs)'
      PROVE  IInv' /\ Batch' = s
  BY <1>3, BatchIsNext DEF BatchFact, Inv, IInv
<1>4. ASSUME NEW rs \in [Consumers -> Seq(Nodes)], Inv(q, rs)', taken' = taken
      PROVE  IInv' /\ [Abstract!Next]_(Abstract!vars)
  BY <1>2, <1>3, <1>4 DEF Abstract!vars
<1>5. ASSUME NEW p \in Producers, PushLock(p) \/ PushUnlock(p) PROVE IInv' /\ [Abstract!Next]_(Abstract!vars)
  BY <1>1, <1>4, <1>5, ProducerLockKeeps DEF PushLock, PushUnlock
<1>6. ASSUME NEW p \in Producers, PushLink(p) PROVE IInv' /\ [Abstract!Next]_(Abstract!vars)
  BY <1>1, <1>4, <1>6, LinkKeeps DEF PushLink
<1>7. ASSUME NEW p \in Producers, PushTail(p) PROVE IInv' /\ [Abstract!Next]_(Abstract!vars)
  <2>1. PICK n \in Nodes : n = <<p, prod[p].i>>
    BY <1>1, <1>7 DEF Inv, TypeInv, ProdRecs, PushTail, Nodes
  <2>2. Inv(Append(q, n), rest)' /\ ~Among(n, taken) /\ ~Among(n, q)
    BY <1>1, <1>7, <2>1, TailKeeps
  <2>3. Append(q, n) \in Seq(Nodes)
    OBVIOUS
  <2>4. IInv' /\ Batch' = Append(Batch, n)
    BY <1>2, <1>3, <2>2, <2>3
  <2>5. taken \in Seq(Nodes) /\ taken' = taken
    BY <1>1, <1>7 DEF Inv, TypeInv, PushTail
  <2>6. n \notin Abstract!Elems(Batch) \cup Abstract!Elems(taken)
    <3>1. DOMAIN q = 1 .. Len(q) /\ DOMAIN taken = 1 .. Len(taken)
      BY <2>5
    <3>2. n \notin Abstract!Elems(q)
      BY <2>2, <3>1 DEF Abstract!Elems, Among
    <3>3. n \notin Abstract!Elems(taken)
      BY <2>2, <3>1 DEF Abstract!Elems, Among
    <3>4. QED BY <1>2, <3>2, <3>3
  <2>7. Abstract!Push(n)
    BY <2>4, <2>5, <2>6 DEF Abstract!Push
  <2>8. QED BY <2>4, <2>7 DEF Abstract!Next
<1>8. ASSUME NEW c \in Consumers, PopCheck(c) \/ PopLock(c) \/ PopUnlock(c) PROVE IInv' /\ [Abstract!Next]_(Abstract!vars)
  BY <1>1, <1>4, <1>8, ConsumerLockKeeps DEF PopCheck, PopLock, PopUnlock
<1>9. ASSUME NEW c \in Consumers, PopTake(c) PROVE IInv' /\ [Abstract!Next]_(Abstract!vars)
  <2>1. [rest EXCEPT ![c] = q] \in [Consumers -> Seq(Nodes)] /\ <<>> \in Seq(Nodes)
    OBVIOUS
  <2>2. Inv(<<>>, [rest EXCEPT ![c] = q])' /\ taken' = taken \o q
    BY <1>1, <1>9, TakeKeeps
  <2>3. IInv' /\ Batch' = <<>>
    BY <1>3, <2>1, <2>2
  <2>4. taken \in Seq(Nodes)
    BY <1>1 DEF Inv, TypeInv
  <2>5. CASE q = <<>>
    <3>1. taken' = taken
      BY <2>2, <2>4, <2>5
    <3>2. QED BY <1>2, <2>3, <2>5, <3>1 DEF Abstract!vars
  <2>6. CASE q # <<>>
    <3>1. Len(q) \in 1 .. Len(q) /\ SubSeq(q, 1, Len(q)) = q /\ SubSeq(q, Len(q) + 1, Len(q)) = <<>>
      BY <2>6
    <3>2. Abstract!PopBatch(Len(q))
      BY <1>2, <2>2, <2>3, <3>1 DEF Abstract!PopBatch
    <3>3. QED BY <1>2, <2>3, <3>1, <3>2 DEF Abstract!Next
  <2>7. QED BY <2>5, <2>6
<1>10. ASSUME NEW c \in Consumers, WalkNode(c) PROVE IInv' /\ [Abstract!Next]_(Abstract!vars)
  <2>1. PICK rs \in [Consumers -> Seq(Nodes)] : Inv(q, rs)'
    BY <1>1, <1>10, WalkKeeps
  <2>2. taken' = taken
    BY <1>10 DEF WalkNode
  <2>3. QED BY <1>4, <2>1, <2>2
<1>11. CASE UNCHANGED vars
  <2>1. Inv(q, rest)' /\ taken' = taken
    BY <1>1, <1>11 DEF vars, Inv, TypeInv, LockInv, TakenInv, TailInv, QueueIs, WalkInv, RestIs, Pushed, Among, Distinct, Linked
  <2>2. QED BY <1>4, <2>1
<1>12. QED BY <1>5, <1>6, <1>7, <1>8, <1>9, <1>10, <1>11 DEF Next, Producer, Consumer

\* The inductive invariant, for every instance.
THEOREM Invariant == Spec => []IInv
<1>1. IInv /\ [Next]_vars => IInv'
  BY StepRefines
<1>2. QED BY <1>1, InitHolds, PTL DEF Spec

\* The type invariant of SpinQueue, which says that a thread in the critical
\* section holds the lock and that no consumer counts more nodes than exist.
THEOREM Types == Spec => []TypeOK
<1>1. IInv => TypeOK
  <2> SUFFICES ASSUME IInv PROVE TypeOK
    OBVIOUS
  <2> USE SpinQueueAssumption
  <2>1. PICK q \in Seq(Nodes), rest \in [Consumers -> Seq(Nodes)] : Inv(q, rest)
    BY DEF IInv
  <2>2. \A c \in Consumers : cons[c].count \in Nat \ {0} /\ cons[c] \in ConsRecs /\ cons[c].pc \in {"check", "lock", "take", "unlock", "walk", "done"}
    BY <2>1 DEF Inv, TypeInv, ConsRecs
  <2>3. ASSUME NEW c \in Consumers PROVE cons[c].count \in 1 .. Sum + 1
    <3>1. Len(taken) <= Sum /\ Sum \in Nat /\ Len(taken) \in Nat
      BY <2>1, SeqBound DEF Inv, TakenInv, TypeInv
    <3>2. cons[c].count - 1 + Len(rest[c]) <= Len(taken) /\ Len(rest[c]) \in Nat
      BY <2>1 DEF Inv, WalkInv, RestIs
    <3>3. QED BY <2>2, <3>1, <3>2
  <2>4. QED BY <2>1, <2>2, <2>3 DEF Inv, TypeInv, LockInv, TypeOK, ProdRecs
<1>2. QED BY <1>1, Invariant, PTL

\* The queue implements BatchQueue for any number of producers and consumers:
\* PushTail appends, PopTake takes everything, every other step stutters.
THEOREM Refines == Spec => ImplementsBatchQueue
<1>1. Init => Abstract!Init
  BY DEF Init, Abstract!Init, Batch
<1>2. IInv /\ [Next]_vars => [Abstract!Next]_(Abstract!vars)
  BY StepRefines
<1>3. QED BY <1>1, <1>2, Invariant, PTL DEF Spec, ImplementsBatchQueue, Abstract!Spec

\* The consumers walk over exactly what was detached.
THEOREM Walked == Spec => []WalkedIsTaken
<1>1. IInv => WalkedIsTaken
  <2> SUFFICES ASSUME IInv PROVE WalkedIsTaken
    OBVIOUS
  <2>1. PICK q \in Seq(Nodes), rest \in [Consumers -> Seq(Nodes)] : Inv(q, rest)
    BY DEF IInv
  <2>2. taken \in Seq(Nodes) /\ DOMAIN taken = 1 .. Len(taken)
    BY <2>1 DEF Inv, TypeInv
  <2>3. walked \subseteq {taken[i] : i \in DOMAIN taken}
    BY <2>1, <2>2 DEF Inv, WalkInv, Among
  <2>4. ASSUME \A c \in Consumers : cons[c].pc \in {"check", "lock", "take", "done"}, NEW i \in DOMAIN taken
        PROVE  taken[i] \in walked
    <3>1. \A c \in Consumers : rest[c] = <<>>
      BY <2>1, <2>4 DEF Inv, WalkInv, RestIs
    <3>2. \A c \in Consumers : ~Among(taken[i], rest[c])
      BY <3>1 DEF Among
    <3>3. QED BY <2>1, <2>2, <3>2 DEF Inv, WalkInv
  <2>5. QED BY <2>3, <2>4 DEF WalkedIsTaken
<1>2. QED BY <1>1, Invariant, PTL
=============================================================================
