----------------------------- MODULE BatchQueue -----------------------------
(***************************************************************************)
(* What both queues of src/benchmark/cas_queue.cc promise: producers       *)
(* append nodes, a pop detaches a non-empty batch from the front, and no   *)
(* node is lost, duplicated or reordered.  The queue may be initialised    *)
(* again once every node has been pushed and at most one was left in it.   *)
(***************************************************************************)
EXTENDS Integers, Sequences

CONSTANT Nodes
VARIABLES queue,   \* nodes pushed and not yet popped
          out      \* nodes popped, in the order of the batches

vars == <<queue, out>>

Elems(s) == {s[i] : i \in DOMAIN s}

Init == queue = <<>> /\ out = <<>>

Push(n) ==
    /\ n \notin Elems(queue) \cup Elems(out)
    /\ queue' = Append(queue, n)
    /\ UNCHANGED out

PopBatch(k) ==
    /\ out' = out \o SubSeq(queue, 1, k)
    /\ queue' = SubSeq(queue, k + 1, Len(queue))

Reinit ==
    /\ Elems(queue) \cup Elems(out) = Nodes /\ Len(queue) <= 1
    /\ queue' = <<>> /\ out' = <<>>

Next == \/ \E n \in Nodes : Push(n)
        \/ \E k \in 1 .. Len(queue) : PopBatch(k)
        \/ Reinit

Spec == Init /\ [][Next]_vars
=============================================================================
