----------------------------- MODULE SpinQueue -----------------------------
(***************************************************************************)
(* The spin-locked queue of src/benchmark/cas_queue.cc and the threads     *)
(* that drive it.  A pop looks at queue->last before it takes the lock; the *)
(* model lets several consumers do so.  What happens under the lock is one *)
(* step, except for the unlock.                                            *)
(***************************************************************************)
EXTENDS Integers, Sequences, FiniteSets, Chains

CONSTANTS Producers, Consumers,
          Count,      \* 1000: nodes pushed by one producer
          HEAD, NULL

ASSUME SpinQueueAssumption ==
    /\ Count \in Nat \ {0} /\ IsFiniteSet(Producers) /\ Producers \cap Consumers = {}
    /\ HEAD # NULL /\ {HEAD, NULL} \cap (Producers \X (1 .. Count)) = {}
    /\ NULL \notin Producers \cup Consumers

Nodes == Producers \X (1 .. Count)
Sum   == Cardinality(Nodes)

VARIABLES
    next,    \* node or HEAD -> the next pointer
    last,    \* queue->last
    spin,    \* who holds queue->spin, or NULL
    prod,    \* per producer: [pc, i]
    cons,    \* per consumer: [pc, first, last, node, count]
    taken,   \* history: the nodes detached by spinlock_queue_pop
    walked   \* history: the set of nodes the consumers have walked over

vars == <<next, last, spin, prod, cons, taken, walked>>

\* spinlock_queue_init on calloc'ed nodes
Init ==
    /\ next = [n \in Nodes \cup {HEAD} |-> NULL] /\ last = HEAD /\ spin = NULL
    /\ prod = [p \in Producers |-> [pc |-> "lock", i |-> 1]]
    /\ cons = [c \in Consumers |-> [pc |-> "check", first |-> NULL, last |-> NULL,
                                    node |-> NULL, count |-> 1]]
    /\ taken = <<>> /\ walked = {}

-----------------------------------------------------------------------------
(***************************************************************************)
(* spinlock_queue_push                                                     *)
(***************************************************************************)
\* faulty variant: the push does not wait for the lock
PushLockMissing(p) ==
    /\ prod[p].pc = "lock"
    /\ spin' = p /\ prod' = [prod EXCEPT ![p].pc = "link"]
    /\ UNCHANGED <<next, last, cons, taken, walked>>

PushLock(p) ==
    /\ prod[p].pc = "lock" /\ spin = NULL
    /\ spin' = p /\ prod' = [prod EXCEPT ![p].pc = "link"]
    /\ UNCHANGED <<next, last, cons, taken, walked>>

PushLink(p) ==
    /\ prod[p].pc = "link"
    /\ next' = [next EXCEPT ![last] = <<p, prod[p].i>>]
    /\ prod' = [prod EXCEPT ![p].pc = "tail"]
    /\ UNCHANGED <<last, spin, cons, taken, walked>>

PushTail(p) ==
    /\ prod[p].pc = "tail"
    /\ last' = <<p, prod[p].i>>
    /\ prod' = [prod EXCEPT ![p].pc = "unlock"]
    /\ UNCHANGED <<next, spin, cons, taken, walked>>

PushUnlock(p) ==
    /\ prod[p].pc = "unlock"
    /\ spin' = NULL
    /\ prod' = [prod EXCEPT ![p] = [pc |-> IF @.i = Count THEN "done" ELSE "lock", i |-> @.i + 1]]
    /\ UNCHANGED <<next, last, cons, taken, walked>>

-----------------------------------------------------------------------------
(***************************************************************************)
(* spinlock_queue_pop and test_spinlock_queue_consume                      *)
(***************************************************************************)
LoopEnd(c) == IF cons[c].count < Sum THEN "check" ELSE "done"

\* queue->last is read without the lock
PopCheck(c) ==
    /\ cons[c].pc = "check"
    /\ cons' = [cons EXCEPT ![c].pc = IF last # HEAD THEN "lock" ELSE LoopEnd(c)]
    /\ UNCHANGED <<next, last, spin, prod, taken, walked>>

PopLock(c) ==
    /\ cons[c].pc = "lock" /\ spin = NULL
    /\ spin' = c /\ cons' = [cons EXCEPT ![c].pc = "take"]
    /\ UNCHANGED <<next, last, prod, taken, walked>>

Batch == IF last = HEAD THEN <<>> ELSE Chain(next, next[HEAD], last, Sum)

\* faulty variant: queue->last is not reset
PopTakeKeepsLast(c) ==
    /\ cons[c].pc = "take"
    /\ cons' = [cons EXCEPT ![c].pc = "unlock", ![c].first = next[HEAD], ![c].last = last]
    /\ next' = [next EXCEPT ![HEAD] = NULL]
    /\ taken' = taken \o Batch
    /\ UNCHANGED <<last, spin, prod, walked>>

PopTake(c) ==
    /\ cons[c].pc = "take"
    /\ cons' = [cons EXCEPT ![c].pc = "unlock", ![c].first = next[HEAD], ![c].last = last]
    /\ last' = HEAD /\ next' = [next EXCEPT ![HEAD] = NULL]
    /\ taken' = taken \o Batch
    /\ UNCHANGED <<spin, prod, walked>>

\* another consumer may have emptied the queue since the check: NULL
PopUnlock(c) ==
    /\ cons[c].pc = "unlock"
    /\ spin' = NULL
    /\ cons' = [cons EXCEPT ![c].pc = IF cons[c].first = NULL THEN LoopEnd(c) ELSE "walk",
                            ![c].node = cons[c].first]
    /\ UNCHANGED <<next, last, prod, taken, walked>>

\* faulty variant: the walk ends before the last node
WalkNodeShort(c) ==
    /\ cons[c].pc = "walk"
    /\ walked' = walked \cup {cons[c].node}
    /\ cons' = [cons EXCEPT ![c].count = @ + 1, ![c].node = next[@],
                  ![c].pc = IF cons[c].last \notin {cons[c].node, next[cons[c].node]} THEN "walk"
                            ELSE IF cons[c].count + 1 < Sum THEN "check" ELSE "done"]
    /\ UNCHANGED <<next, last, spin, prod, taken>>

WalkNode(c) ==
    /\ cons[c].pc = "walk"
    /\ walked' = walked \cup {cons[c].node}
    /\ cons' = [cons EXCEPT ![c].count = @ + 1, ![c].node = next[@],
                  ![c].pc = IF cons[c].node # cons[c].last THEN "walk"
                            ELSE IF cons[c].count + 1 < Sum THEN "check" ELSE "done"]
    /\ UNCHANGED <<next, last, spin, prod, taken>>

-----------------------------------------------------------------------------
Producer(p) == PushLock(p) \/ PushLink(p) \/ PushTail(p) \/ PushUnlock(p)
Consumer(c) == PopCheck(c) \/ PopLock(c) \/ PopTake(c) \/ PopUnlock(c) \/ WalkNode(c)

Next == \/ \E p \in Producers : Producer(p)
        \/ \E c \in Consumers : Consumer(c)

Spec == Init /\ [][Next]_vars

-----------------------------------------------------------------------------
\* Type invariant; a thread inside the critical section holds the lock.
TypeOK ==
    /\ next \in [Nodes \cup {HEAD} -> Nodes \cup {NULL}] /\ last \in Nodes \cup {HEAD}
    /\ spin \in Producers \cup Consumers \cup {NULL}
    /\ \A p \in Producers : prod[p] \in [pc : {"lock", "link", "tail", "unlock", "done"}, i : 1 .. Count + 1]
    /\ \A c \in Consumers : /\ cons[c].pc \in {"check", "lock", "take", "unlock", "walk", "done"}
                            /\ cons[c].count \in 1 .. Sum + 1
    /\ walked \subseteq Nodes
    /\ \A p \in Producers : prod[p].pc \in {"link", "tail", "unlock"} => spin = p
    /\ \A c \in Consumers : cons[c].pc \in {"take", "unlock"} => spin = c

Abstract == INSTANCE BatchQueue WITH queue <- Batch, out <- taken

\* The queue implements BatchQueue, with any number of consumers: the check
\* outside the lock may be stale but never costs or duplicates a node.
ImplementsBatchQueue == Abstract!Spec

\* The consumers walk over all nodes that were detached and no others: a
\* push behind a detached batch does not reach into it.
WalkedIsTaken ==
    /\ walked \subseteq {taken[i] : i \in DOMAIN taken}
    /\ (\A c \in Consumers : cons[c].pc \in {"check", "lock", "take", "done"})
         => walked = {taken[i] : i \in DOMAIN taken}
=============================================================================
