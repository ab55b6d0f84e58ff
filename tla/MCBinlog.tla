---- MODULE MCBinlog ----
(* Small instance of Binlog: records of 4 to 11 cells, a stack buffer that *)
(* only holds the prefix, a parser buffer of 10.  "missing" is not in the  *)
(* JSON file; "percent" makes do_valog log an int too many.             *)
EXTENDS Binlog

CONSTANTS t1, t2

MCFormats ==
  [mixed   |-> [text  |-> <<"%", "s", " ", "%", "l", "d">>,
                logs  |-> <<STRING_TYPE, LONG>>, reads |-> <<STRING_TYPE, LONG>>],
   percent |-> [text  |-> <<"%", "%", "d", "%", "d">>, logs |-> <<INT, INT>>, reads |-> <<INT>>],
   missing |-> [text  |-> <<>>, logs |-> <<>>, reads |-> <<>>]]
Symmetry == Permutations(Threads)
MCJson == {"mixed", "percent"}
MCStrs == {<<>>, <<"a", "b">>}
====
