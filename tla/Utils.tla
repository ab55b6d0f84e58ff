-------------------------------- MODULE Utils --------------------------------
(***************************************************************************)
(* The sequential parts of the library against what they are for.  A       *)
(* behaviour picks one of them and makes any calls of it: the two arrays,  *)
(* option parsing by one command after the other, number conversion, and   *)
(* the two format scanners of the binary log.                              *)
(***************************************************************************)
EXTENDS Arrays, NumConvert, Options, BinlogFormat

CONSTANTS BitLen,       \* bits of the bitmap
          PointSize,    \* elements of the point array
          Strings,      \* inputs of str_to_int
          Items,        \* pieces of a command line: [words, opt, value, kind]
          Leftovers     \* what a dangling nextchar may point at

VARIABLES kind,   \* the part
          s,      \* its state
          call    \* history: the last call and its result, NoCall once the caller took it
vars == <<kind, s, call>>

NoCall == <<>>

Init ==
    /\ call = NoCall
    /\ \/ kind = "bitmap"  /\ s = bitmap_alloc(BitLen)
       \/ kind = "points"  /\ s = create_point_array(PointSize)
       \/ kind = "options" /\ s = [dangling |-> FALSE]
       \/ kind \in {"number", "format"} /\ s = "none"

-----------------------------------------------------------------------------
\* one past the end is refused, and so is a value that is not a bit
SetBit(i, v) ==
    /\ kind = "bitmap"
    /\ s' = bitmap_set(s, i, v).b
    /\ UNCHANGED <<kind, call>>

SetPoint(i, v) ==
    /\ kind = "points"
    /\ s' = set_point_value(s, i, v)
    /\ UNCHANGED <<kind, call>>

WordsOf(is) == IF Len(is) = 1 THEN is[1].words ELSE is[1].words \o is[2].words

\* a command parses its words; where the last one left nextchar dangling,
\* getopt starts on what is there now
ParseOptions(is, rest) ==
    /\ kind = "options" /\ call = NoCall /\ (rest # <<>> => s.dangling)
    /\ LET r == parse_options(WordsOf(is), rest, s.dangling)
       IN  s' = [dangling |-> r.dangling] /\ call' = [items |-> is, rest |-> rest, stale |-> s.dangling, res |-> r]
    /\ UNCHANGED kind

StrToInt(str, n) ==
    /\ kind = "number" /\ call = NoCall
    /\ call' = [str |-> str, length |-> n, ret |-> str_to_int(str, n)]
    /\ UNCHANGED <<kind, s>>

ScanFormat(ps) ==
    /\ kind = "format" /\ call = NoCall
    /\ call' = [pieces |-> ps, w |-> do_valog(Text(ps)), r |-> print_format(Text(ps))]
    /\ UNCHANGED <<kind, s>>

TakeResult == call # NoCall /\ call' = NoCall /\ UNCHANGED <<kind, s>>

Next == \/ \E i \in 0 .. BitLen, v \in 0 .. 2 : SetBit(i, v)
        \/ \E i \in 0 .. PointSize - 1, v \in {0, 1} : SetPoint(i, v)
        \/ \E is \in (Items \X Items) \cup {<<i>> : i \in Items}, rest \in Leftovers : ParseOptions(is, rest)
        \/ \E str \in Strings : \E n \in Len(str) .. Len(str) + 1 : StrToInt(str, n)
        \/ \E ps \in (Pieces \X Pieces) \cup {<<p>> : p \in Pieces} : ScanFormat(ps)
        \/ TakeResult

Spec == Init /\ [][Next]_vars

-----------------------------------------------------------------------------
Elements == IF kind = "bitmap" THEN [i \in 0 .. BitLen - 1 |-> bitmap_get(s, i)]
            ELSE [i \in 0 .. PointSize - 1 |-> get_point_value(s, i)]

\* A successful store changes the element it names and no other one, over
\* byte and row boundaries and in the short last row; a bit beyond the last
\* one or a value that is not a bit changes nothing.
StoresOneElement ==
    [][/\ \A i \in 0 .. BitLen, v \in 0 .. 2 :
            SetBit(i, v) => Elements' = IF i < BitLen /\ v < 2 THEN [Elements EXCEPT ![i] = v] ELSE Elements
       /\ \A i \in 0 .. PointSize - 1, v \in {0, 1} :
            SetPoint(i, v) => Elements' = [Elements EXCEPT ![i] = v]]_vars

\* str_to_int is exact: every string of digits up to INT_MAX gives its value,
\* one digit more or less than INT_MAX included, whatever the cut to an int
\* makes of larger ones; all else gives INT_MIN.
StrToIntExact ==
    kind = "number" /\ call # NoCall =>
        LET digits == Len(call.str) = call.length /\ \A i \in DOMAIN call.str : call.str[i] \in 0 .. 9
        IN  call.ret = IF digits /\ Value(call.str) <= INT_MAX THEN Value(call.str)
                       ELSE INT_MIN

\* The two scanners take the arguments C defines for a format, except where
\* they are known to be wrong, and there they are.  Both take the long double
\* of %Lg for a double, which the code calls a fake; that apart, the parser is
\* right.  The writer also misses the conversion behind ".*", and takes the
\* second "%" of "%%" for the beginning of one, which does no harm only right
\* before another conversion.  Everywhere else what print_format reads back
\* is, tag by tag, what do_valog has logged.
FormatsAgree ==
    kind = "format" /\ call # NoCall =>
        LET ps == call.pieces
            Right(x) == x.end = "ok" /\ x.types = Takes(ps)
            Fake(ts) == [i \in DOMAIN ts |-> IF ts[i] = LONG_DOUBLE THEN DOUBLE ELSE ts[i]]
            Kind(i, ks) == i \in DOMAIN ps /\ ps[i].kind \in ks
        IN  /\ call.r = [types |-> Fake(Takes(ps)), end |-> "ok"]
            /\ Right(call.w) <=>
                 \A i \in DOMAIN ps : Kind(i, {"literal", "plain"}) \/ (Kind(i, {"percent"}) /\ Kind(i + 1, {"plain"}))

\* the value each option was last given before the first call for help
Expected(is) ==
    LET n  == Len(is)
        hs == {i \in 1 .. n : is[i].kind = "help"}
        m  == IF hs = {} THEN n ELSE IF 1 \in hs THEN 0 ELSE 1
        Last(o) == {i \in 1 .. m : is[i].opt = o /\ \A j \in i + 1 .. m : is[j].opt # o}
    IN  [o \in DOMAIN Copts |-> IF Last(o) = {} THEN UNSET ELSE (is[CHOOSE i \in Last(o) : TRUE]).value]

\* A command gets the options its user typed, in any style, and nothing of an
\* earlier command's, unless getopt's nextchar dangles and finds something
\* where it points: then that takes the place of the command's first word.
\* It dangles after a command that ended in a short option without argument
\* (-h, or one that is not known), and after that until a command has an
\* option that is set otherwise.
ParsesWhatWasTyped ==
    kind = "options" /\ call # NoCall =>
        LET is   == call.items
            Has(ks) == \E i \in DOMAIN is : is[i].kind \in ks
            garbled == <<[form |-> "short", text |-> call.rest, arg |-> <<>>]>> \o Tail(WordsOf(is))
        IN  IF call.rest = <<>>
            THEN /\ call.res.values = Expected(is)
                 /\ call.res.ret = IF Has({"help"}) THEN "-EINVAL" ELSE "0"
                 /\ call.res.dangling => Has({"help", "unknown"}) \/ (call.stale /\ ~Has({"given"}))
            ELSE /\ call.stale
                 /\ call.res = parse_options(garbled, <<>>, FALSE)
=============================================================================
