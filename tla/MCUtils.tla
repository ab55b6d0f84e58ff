---- MODULE MCUtils ----
(* Small instance of Utils: an int of 5 bits and a long of 8, so that      *)
(* three digits pass both limits; 10 bits in two bytes; 7 pointers in rows *)
(* of 3; the options of the example's "stu" command.                       *)
EXTENDS Utils

MCStrings == UNION {[1 .. n -> {0, 1, 2, 5, 6, 9, 10}] : n \in 0 .. 3}

MCCopts == << [short |-> "n", long |-> <<"name">>, type |-> "string"],
              [short |-> "a", long |-> <<"age">>,  type |-> "int"],
              [short |-> "p", long |-> <<"pass">>, type |-> "bool"] >>

W(f, t, a) == [form |-> f, text |-> t, arg |-> a]
Given(ws, o, v) == [words |-> ws, opt |-> o, value |-> v, kind |-> "given"]
Other(ws, k)    == [words |-> ws, opt |-> 0, value |-> <<>>, kind |-> k]
V == <<"v">>
MCItems ==
    { Given(<<W("short", <<"n">>, <<>>), W("plain", V, <<>>)>>, 1, V),
      Given(<<W("short", <<"n", "w", "x", "y">>, <<>>)>>, 1, <<"w", "x">>),
      Given(<<W("long", <<"name">>, <<>>), W("plain", V, <<>>)>>, 1, V),
      Given(<<W("long", <<"name">>, V)>>, 1, V),
      Given(<<W("short", <<"a">>, <<>>), W("plain", <<"7">>, <<>>)>>, 2, <<"7">>),
      Given(<<W("short", <<"a", "0", "8", "x">>, <<>>)>>, 2, <<"8">>),
      Given(<<W("long", <<"age">>, V)>>, 2, <<"0">>),
      Given(<<W("short", <<"a">>, <<>>), W("short", <<"7">>, <<>>)>>, 2, <<"-", "7">>),
      Given(<<W("short", <<"p">>, <<>>)>>, 3, <<"true">>),
      Given(<<W("long", <<"pass">>, <<>>)>>, 3, <<"true">>),
      Other(<<W("plain", V, <<>>)>>, "plain"),
      Other(<<W("long", <<"zz">>, <<>>)>>, "unknown"),
      Other(<<W("short", <<"z">>, <<>>)>>, "unknown"),
      Other(<<W("short", <<"h">>, <<>>)>>, "help"),
      Other(<<W("long", <<"help">>, <<>>)>>, "help"),
      Other(<<W("short", <<"h", "n">>, <<>>)>>, "help") }
MCLeftovers == {<<>>, <<"p">>, <<"n">>, <<"a", "9">>}
====
