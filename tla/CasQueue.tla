------------------------------ MODULE CasQueue ------------------------------
(***************************************************************************)
(* The lock-free queue of src/benchmark/cas_queue.cc with the threads that *)
(* drive it: cas_queue_push by several producers, cas_queue_pop and the    *)
(* walk over the popped batch by one consumer.  Each access to shared      *)
(* memory is one step; the __sync builtins are full barriers, so memory is *)
(* taken to be sequentially consistent.                                    *)
(*                                                                         *)
(* The benchmark runs the threads several times over the same nodes and    *)
(* does not clear their next pointers in between (action Rerun).           *)
(***************************************************************************)
EXTENDS Integers, Sequences, FiniteSets, Chains

CONSTANTS Producers,
          Count,      \* 1000: nodes pushed by one producer
          MaxRuns,    \* bound: iterations of the benchmark loop
          HEAD, NULL

ASSUME CasQueueAssumption ==
    /\ Count \in Nat \ {0} /\ MaxRuns \in Nat \ {0} /\ IsFiniteSet(Producers)
    /\ HEAD # NULL /\ {HEAD, NULL} \cap (Producers \X (1 .. Count)) = {}

Nodes == Producers \X (1 .. Count)
Sum   == Cardinality(Nodes)

VARIABLES
    next,    \* node or HEAD -> the next pointer
    last,    \* queue->last
    prod,    \* per producer: [pc, i, old]
    cons,    \* the consumer: [pc, first, old, node, count]
    got,     \* the nodes the consumer has walked over
    taken,   \* history: the nodes detached by cas_queue_pop
    run      \* iteration of the benchmark loop

vars == <<next, last, prod, cons, got, taken, run>>

Start == [pc |-> "load", i |-> 1, old |-> NULL]

ConsStart == [pc |-> "check", first |-> NULL, old |-> NULL, node |-> NULL, count |-> 1]

\* cas_queue_init on calloc'ed nodes
Init ==
    /\ next = [n \in Nodes \cup {HEAD} |-> NULL] /\ last = HEAD
    /\ prod = [p \in Producers |-> Start] /\ cons = ConsStart
    /\ got = <<>> /\ taken = <<>> /\ run = 1

-----------------------------------------------------------------------------
(***************************************************************************)
(* cas_queue_push                                                          *)
(***************************************************************************)
\* the node a producer pushes next
Node(p) == <<p, prod[p].i>>

PushLoad(p) ==
    /\ prod[p].pc = "load"
    /\ prod' = [prod EXCEPT ![p].pc = "link", ![p].old = last]
    /\ UNCHANGED <<next, last, cons, got, taken, run>>

\* compare-and-swap of old_node->next from NULL to the node
PushLink(p) ==
    /\ prod[p].pc = "link"
    /\ IF next[prod[p].old] = NULL
       THEN next' = [next EXCEPT ![prod[p].old] = Node(p)] /\ prod' = [prod EXCEPT ![p].pc = "swing"]
       ELSE UNCHANGED next /\ prod' = [prod EXCEPT ![p].pc = "load"]
    /\ UNCHANGED <<last, cons, got, taken, run>>

Pushed(p) == [prod EXCEPT ![p] = [pc |-> IF prod[p].i = Count THEN "done" ELSE "load",
                                  i |-> IF prod[p].i = Count THEN Count ELSE prod[p].i + 1, old |-> NULL]]

\* faulty variant: only the second compare-and-swap is tried again
PushSwingRetries(p) ==
    /\ prod[p].pc = "swing"
    /\ IF last = prod[p].old
       THEN last' = Node(p) /\ prod' = Pushed(p)
       ELSE UNCHANGED last /\ prod' = prod
    /\ UNCHANGED <<next, cons, got, taken, run>>

\* compare-and-swap of queue->last; on failure the consumer has detached
\* old_node and the whole push starts again
PushSwing(p) ==
    /\ prod[p].pc = "swing"
    /\ IF last = prod[p].old
       THEN last' = Node(p) /\ prod' = Pushed(p)
       ELSE UNCHANGED last /\ prod' = [prod EXCEPT ![p].pc = "load"]
    /\ UNCHANGED <<next, cons, got, taken, run>>

-----------------------------------------------------------------------------
(***************************************************************************)
(* cas_queue_pop and test_cas_queue_consume                                *)
(***************************************************************************)
\* pop returns NULL on an empty queue; "continue" goes to the loop condition
PopCheck ==
    /\ cons.pc = "check"
    /\ cons' = IF last # HEAD THEN [cons EXCEPT !.pc = "first"]
               ELSE [cons EXCEPT !.pc = IF cons.count < Sum THEN "check" ELSE "done"]
    /\ UNCHANGED <<next, last, prod, got, taken, run>>

PopFirst ==
    /\ cons.pc = "first"
    /\ cons' = [cons EXCEPT !.pc = "load", !.first = next[HEAD]]
    /\ UNCHANGED <<next, last, prod, got, taken, run>>

PopLoad ==
    /\ cons.pc = "load"
    /\ cons' = [cons EXCEPT !.pc = "cas", !.old = last]
    /\ UNCHANGED <<next, last, prod, got, taken, run>>

\* compare-and-swap of queue->last to &queue->head: the whole chain is taken
PopCas ==
    /\ cons.pc = "cas"
    /\ IF last = cons.old
       THEN /\ last' = HEAD /\ cons' = [cons EXCEPT !.pc = "clear"]
            /\ taken' = taken \o Chain(next, cons.first, cons.old, Sum)
       ELSE /\ cons' = [cons EXCEPT !.pc = "advance"]
            /\ UNCHANGED <<last, taken>>
    /\ UNCHANGED <<next, prod, got, run>>

Walk == [cons EXCEPT !.pc = "walk", !.node = cons.first]

PopClear ==
    /\ cons.pc = "clear"
    /\ next' = [next EXCEPT ![HEAD] = NULL] /\ cons' = Walk
    /\ UNCHANGED <<last, prod, got, taken, run>>

\* faulty variant: the nodes behind old_node are dropped
PopAdvanceDrops ==
    /\ cons.pc = "advance"
    /\ next' = [next EXCEPT ![HEAD] = NULL] /\ cons' = Walk
    /\ taken' = taken \o Chain(next, cons.first, cons.old, Sum)
    /\ UNCHANGED <<last, prod, got, run>>

\* faulty variant: *last is read again at the end of the pop
PopAdvanceRereads ==
    /\ cons.pc = "advance"
    /\ next' = [next EXCEPT ![HEAD] = next[cons.old]] /\ cons' = [Walk EXCEPT !.old = last]
    /\ taken' = taken \o Chain(next, cons.first, cons.old, Sum)
    /\ UNCHANGED <<last, prod, got, run>>

\* a producer was faster: the chain up to old_node is taken
PopAdvance ==
    /\ cons.pc = "advance"
    /\ next' = [next EXCEPT ![HEAD] = next[cons.old]] /\ cons' = Walk
    /\ taken' = taken \o Chain(next, cons.first, cons.old, Sum)
    /\ UNCHANGED <<last, prod, got, run>>

\* one node of the batch; after the last one the loop condition
WalkNode ==
    /\ cons.pc = "walk"
    /\ got' = Append(got, cons.node)
    /\ cons' = [cons EXCEPT !.count = @ + 1, !.node = next[@],
                            !.pc = IF cons.node # cons.old THEN "walk"
                                   ELSE IF cons.count + 1 < Sum THEN "check" ELSE "done"]
    /\ UNCHANGED <<next, last, prod, taken, run>>

-----------------------------------------------------------------------------
Joined == cons.pc = "done" /\ \A p \in Producers : prod[p].pc = "done"

\* the next iteration of the benchmark: cas_queue_init, new threads, the same
\* nodes with the next pointers of the iteration before
Rerun ==
    /\ Joined /\ run < MaxRuns
    /\ run' = run + 1
    /\ next' = [next EXCEPT ![HEAD] = NULL] /\ last' = HEAD
    /\ prod' = [p \in Producers |-> Start] /\ cons' = ConsStart
    /\ got' = <<>> /\ taken' = <<>>

Finished == Joined /\ run = MaxRuns /\ UNCHANGED vars

Producer(p) == PushLoad(p) \/ PushLink(p) \/ PushSwing(p)
Consumer == PopCheck \/ PopFirst \/ PopLoad \/ PopCas \/ PopClear \/ PopAdvance \/ WalkNode

Next == (\E p \in Producers : Producer(p)) \/ Consumer \/ Rerun \/ Finished

Spec == Init /\ [][Next]_vars

\* every thread keeps being scheduled
FairSpec == /\ Spec /\ WF_vars(Consumer) /\ WF_vars(Rerun)
            /\ \A p \in Producers : WF_vars(Producer(p))

-----------------------------------------------------------------------------
\* The queue a pop would see: the chain from head.next to last.
Contents == IF last = HEAD THEN <<>> ELSE Chain(next, next[HEAD], last, Sum)

Abstract == INSTANCE BatchQueue WITH queue <- Contents, out <- taken

\* The queue implements BatchQueue: the second compare-and-swap of a push
\* appends, a pop takes a batch at its compare-and-swap or at the store of
\* head.next, and no other step changes what is queued.
ImplementsBatchQueue == Abstract!Spec

\* The consumer walks exactly the nodes pop detached, in order: no push into
\* the tail of a detached batch leads it astray.  Its count starts at 1, so it
\* may stop with one node in the queue, never with more, and none is lost.
WalksWhatWasTaken ==
    /\ Len(got) <= Len(taken) /\ got = SubSeq(taken, 1, Len(got))
    /\ cons.pc \in {"check", "done"} => got = taken
    /\ Joined => Len(Contents) <= 1 /\ Len(got) + Len(Contents) = Sum

\* Every iteration ends: no producer spins for ever on a next pointer that an
\* earlier iteration left behind.
BenchmarkEnds == <>[](Joined /\ run = MaxRuns)
=============================================================================
