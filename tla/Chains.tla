------------------------------- MODULE Chains -------------------------------
(* Singly linked nodes of src/benchmark/cas_queue.cc, read off as sequences. *)
EXTENDS Integers, Sequences

\* the nodes from one node to another along next, at most n links
Chain(next, from, to, n) ==
    LET c[k \in 0 .. n] ==
          IF k = 0 THEN <<from>>
          ELSE LET s == c[k - 1]
                   e == s[Len(s)]
               IN  IF e = to \/ e \notin DOMAIN next THEN s ELSE Append(s, next[e])
    IN  c[n]
=============================================================================
