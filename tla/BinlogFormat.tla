---------------------------- MODULE BinlogFormat ----------------------------
(***************************************************************************)
(* The two scanners of printf formats of the binary log: do_valog          *)
(* (src/src/binlog/binlog.c) decides which arguments are logged, and with  *)
(* which types, print_format (binlog_parser.c) which ones are read back.   *)
(* A format is a sequence of characters; position Len + 1 is its '\0' and  *)
(* what lies behind is not the program's.                                  *)
(***************************************************************************)
EXTENDS Integers, Sequences

INT    == "INT"
LONG   == "LONG"
DOUBLE == "DOUBLE"
LONG_DOUBLE == "LONG_DOUBLE"     \* C's, no type of the log
STRING_TYPE  == "STRING"
POINTER_TYPE == "POINTER"

END  == "end of string"
PAST == "past the end"

FlagChars  == {"-", "+", " ", "#", "0"}
Digits     == {"0", "1", "2", "3", "4", "5", "6", "7", "8", "9"}
WidthChars == {"h", "l", "L"}
DoubleChars == {"f", "e", "E", "g", "G"}

At(f, i) == IF i <= Len(f) THEN f[i] ELSE IF i = Len(f) + 1 THEN END ELSE PAST

\* the first position from i on whose character is not in S
SkipPast(f, i, S) ==
    CHOOSE j \in i .. Len(f) + 3 : At(f, j) \notin S /\ \A k \in i .. j - 1 : At(f, k) \in S

\* wide_width after the characters i .. j - 1: each l adds one, L makes it two
WideWidth(f, i, j) ==
    LET w[k \in i - 1 .. j - 1] == IF k = i - 1 THEN 0
                                   ELSE CASE f[k] = "l" -> w[k - 1] + 1
                                          [] f[k] = "L" -> 2
                                          [] OTHER -> w[k - 1]
    IN  w[j - 1]

\* the type a conversion character is logged as; NONE_TYPE: abort()
NONE_TYPE == "none"
ConversionType(c, short, wide) ==
    CASE c \in {"d", "i", "o", "u", "x", "X", "c"} -> IF short \/ wide = 0 THEN INT ELSE LONG
      [] c \in DoubleChars -> DOUBLE     \* of a long double too: "Fake it and hope for the best"
      [] c = "s" -> STRING_TYPE
      [] c = "p" -> POINTER_TYPE
      [] OTHER -> NONE_TYPE

\* a width or precision at i: "*" takes an argument, digits do not
Star(f, i)      == IF At(f, i) = "*" THEN <<INT>> ELSE <<>>
Number(f, i, n) == IF At(f, i) = "*" THEN i + n ELSE SkipPast(f, i, Digits)

\* The types taken from the argument list, and how the scan ends: "ok",
\* "abort", or "ub" when it leaves the string.  strchr() finds '\0' in every
\* string: the flags loop walks over the end, the width loop aborts there.
\* dotStar is what a "*" after the period is long, percent what is skipped of
\* the second % of "%%": that is where the two scanners differ.
Scan(f, dotStar, percent) ==
    LET r[k \in 0 .. Len(f) + 1] ==          \* the result from position Len + 2 - k on
          LET i == Len(f) + 2 - k
          IN  IF k = 0 THEN [types |-> <<>>, end |-> "ub"]
              ELSE IF At(f, i) = END THEN [types |-> <<>>, end |-> "ok"]
              ELSE IF f[i] # "%" THEN r[k - 1]
              ELSE LET a    == SkipPast(f, i + 1, FlagChars \cup {END})
                       b    == Number(f, a, 1)
                       dot  == At(f, b) = "."
                       d    == IF dot THEN Number(f, b + 1, dotStar) ELSE b
                       e    == SkipPast(f, d, WidthChars)
                       pre  == Star(f, a) \o (IF dot THEN Star(f, b + 1) ELSE <<>>)
                       type == ConversionType(At(f, e), \E j \in d .. e - 1 : f[j] = "h", WideWidth(f, d, e))
                       Then(ts, next) == LET n == r[Len(f) + 2 - next]
                                         IN  [types |-> pre \o ts \o n.types, end |-> n.end]
                   IN  CASE At(f, e) = PAST -> [types |-> pre, end |-> "ub"]
                         [] At(f, e) = "%"  -> Then(<<>>, e + percent)
                         [] type = NONE_TYPE -> [types |-> pre, end |-> "abort"]
                         [] OTHER -> Then(<<type>>, e + 1)
    IN  r[Len(f) + 1]

\* After ".*" the macro and the line behind it both move on, so the
\* conversion character is skipped; the second % of "%%" is not.
do_valog(f) == Scan(f, 2, 0)

\* faulty variant: "%%" is not skipped here either
PrintFormatPercent(f) == Scan(f, 1, 0)

print_format(f) == Scan(f, 1, 1)

-----------------------------------------------------------------------------
(***************************************************************************)
(* Reference: formats put together from pieces, with the arguments C       *)
(* defines for them.                                                       *)
(***************************************************************************)
Literal(c) == [text |-> <<c>>, takes |-> <<>>, kind |-> "literal"]
Percent    == [text |-> <<"%", "%">>, takes |-> <<>>, kind |-> "percent"]

\* width and prec: "", a digit or "*"; len: how many l, or h
Directive(flag, width, prec, len, conv, type) ==
    LET Opt(c) == IF c = "" THEN <<>> ELSE <<c>>
        Arg(c) == IF c = "*" THEN <<INT>> ELSE <<>>
    IN  [text  |-> <<"%">> \o Opt(flag) \o Opt(width) \o (IF prec = "" THEN <<>> ELSE <<".", prec>>)
                     \o len \o <<conv>>,
         takes |-> Arg(width) \o Arg(prec) \o <<type>>,
         kind  |-> IF type = LONG_DOUBLE THEN "longdouble" ELSE IF prec = "*" THEN "dotstar" ELSE "plain"]

Pieces ==
    {Literal("d"), Literal(" "), Percent}
      \cup {Directive(flag, width, prec, <<>>, "s", STRING_TYPE) :
              flag \in {"", "-", "0"}, width \in {"", "8", "*"}, prec \in {"", "3", "*"}}
      \cup {Directive("", width, "", len, "d", IF len \in {<<>>, <<"h">>} THEN INT ELSE LONG) :
              width \in {"", "*"}, len \in {<<>>, <<"h">>, <<"l">>, <<"l", "l">>}}
      \cup {Directive("", "", prec, len, "g", IF len = <<>> THEN DOUBLE ELSE LONG_DOUBLE) :
              prec \in {"", "3"}, len \in {<<>>, <<"L">>}}
      \cup {Directive("", "", "", <<>>, "p", POINTER_TYPE)}

Text(ps)  == IF Len(ps) = 0 THEN <<>> ELSE IF Len(ps) = 1 THEN ps[1].text ELSE ps[1].text \o ps[2].text
Takes(ps) == IF Len(ps) = 0 THEN <<>> ELSE IF Len(ps) = 1 THEN ps[1].takes ELSE ps[1].takes \o ps[2].takes
=============================================================================
