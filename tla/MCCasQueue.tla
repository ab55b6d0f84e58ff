---- MODULE MCCasQueue ----
(* Two producers with two nodes each; two iterations of the benchmark.     *)
EXTENDS CasQueue
====
