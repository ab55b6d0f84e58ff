---- MODULE MCCliRegistry ----
(* Two registering threads, a table small enough to fill up.               *)
EXTENDS CliRegistry
====
