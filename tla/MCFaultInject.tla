---- MODULE MCFaultInject ----
(* Windows of the three interesting shapes for IntMax = 4.                 *)
EXTENDS FaultInject, TLC
CONSTANTS t1, t2
MCWindows == {<<1, 2, 0>>, <<0, 4, 1>>, <<2, 1, 0>>}
Symmetry == Permutations(Threads)
====
