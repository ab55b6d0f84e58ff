---- MODULE MCSpinQueue ----
(* Two producers with two nodes each and two consumers.                    *)
EXTENDS SpinQueue
====
