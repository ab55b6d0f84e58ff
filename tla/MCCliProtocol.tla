---- MODULE MCCliProtocol ----
(* Small instance of CliProtocol.  Buffers of nine cells hold a command    *)
(* with one argument; the command line may also be refused (a word of      *)
(* three, three arguments), overrun the buffer, or contain \r\n.           *)
EXTENDS CliProtocol

A == <<"a">>
B == <<"b">>
R(s, as) == [sub |-> s, args |-> as]

MCRequests == { R(A, <<>>), R(A, <<B>>), R(B, <<>>), R(<<>>, <<<<>>, <<>>>>), R(<<"c">>, <<B>>),
                R(A, <<B, B>>), R(A, <<<<"a", "b", "a">>>>), R(A, <<<<>>, <<>>, <<>>>>),
                R(<<CR, LF>>, <<>>), R(A, <<<<CR, LF>>>>) }
MCKnown == {A, B}
====
