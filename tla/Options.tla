------------------------------ MODULE Options ------------------------------
(***************************************************************************)
(* parse_options (src/src/cli/options.c), called by commands with the      *)
(* words of a request, and getopt_long below it.  getopt keeps a pointer,  *)
(* nextchar, into the word it works on from one call to the next;          *)
(* parse_options resets optind only.  So the pointer may outlive the       *)
(* request it points into, and the next command begins with whatever is    *)
(* stored there then.                                                      *)
(*                                                                         *)
(* A word is [form, text, arg], text and arg sequences: "short" (-text),   *)
(* "long" (--text or, if arg is not empty, --text=arg), "plain", or "end"  *)
(* (--).                                                                   *)
(***************************************************************************)
EXTENDS Integers, Sequences

CONSTANTS Copts,    \* the caller's cli_options: [short, long, type] as OPT_INT etc. make them
          StrMax    \* 31, 63: what strncpy copies of a string value

NULL  == <<"NULL">>
UNSET == <<"unset">>

\* the OPT_ macros: a bool takes an optional argument, all others need one
Flag(opt)  == IF opt.type = "bool" THEN "optional" ELSE "required"

\* longopts and optstring, made of copts behind the entry for help
Letters    == {"h"} \cup {Copts[i].short : i \in DOMAIN Copts}
LongNames  == {<<"help">>} \cup {Copts[i].long : i \in DOMAIN Copts}
ArgOf(c)   == IF c = "h" THEN "none" ELSE Flag(Copts[CHOOSE i \in DOMAIN Copts : Copts[i].short = c])
ShortOf(n) == IF n = <<"help">> THEN "h" ELSE (Copts[CHOOSE i \in DOMAIN Copts : Copts[i].long = n]).short

-----------------------------------------------------------------------------
(***************************************************************************)
(* external: getopt_long.  g = [i, rest, set]: optind, the characters at   *)
(* nextchar, and whether nextchar is set at all.                           *)
(***************************************************************************)
Found(c, arg, i, rest, set) == [c |-> c, arg |-> arg, g |-> [i |-> i, rest |-> rest, set |-> set]]

\* a word as it stands
Whole(w) == CASE w.form = "plain" -> w.text [] w.form = "short" -> <<"-">> \o w.text
              [] OTHER -> <<"-", "-">> \o w.text \o w.arg

\* the argument of c: what follows in the word, or the next word as it stands
WithArg(ws, c, need, attached, i) ==
    CASE need = "none" -> Found(c, NULL, IF attached = <<>> THEN i + 1 ELSE i, attached, TRUE)
      [] attached # <<>> -> Found(c, attached, i + 1, <<>>, FALSE)
      [] need = "optional" -> Found(c, NULL, i + 1, <<>>, FALSE)
      [] i + 1 <= Len(ws) -> Found(c, Whole(ws[i + 1]), i + 2, <<>>, FALSE)
      [] OTHER -> Found("?", NULL, i + 1, <<>>, FALSE)

ShortOption(ws, i, rest) ==
    LET c == Head(rest)
    IN  IF c \in Letters THEN WithArg(ws, c, ArgOf(c), Tail(rest), i)
        ELSE Found("?", NULL, IF Len(rest) = 1 THEN i + 1 ELSE i, Tail(rest), TRUE)

LongOption(ws, i) ==
    LET w == ws[i]
    IN  IF w.text \notin LongNames THEN Found("?", NULL, i + 1, <<>>, FALSE)
        ELSE LET c == ShortOf(w.text)
             IN  IF w.arg # <<>> /\ ArgOf(c) = "none" THEN Found("?", NULL, i + 1, <<>>, FALSE)
                 ELSE LET f == WithArg(ws, c, ArgOf(c), w.arg, i) IN [f EXCEPT !.g.set = FALSE]

\* words that are no options are passed over (and moved behind the others)
getopt_long(ws, g) ==
    IF g.rest # <<>> THEN ShortOption(ws, g.i, g.rest)
    ELSE LET js == {j \in g.i .. Len(ws) : ws[j].form # "plain"}
             j  == CHOOSE x \in js : \A y \in js : x <= y
         IN  IF js = {} \/ ws[j].form = "end" THEN Found("-1", NULL, g.i, <<>>, g.set)
             ELSE IF ws[j].form = "long" THEN LongOption(ws, j) ELSE ShortOption(ws, j, ws[j].text)

-----------------------------------------------------------------------------
(***************************************************************************)
(* parse_options                                                           *)
(***************************************************************************)
\* find_option
OptionOf(c) == LET hits == {i \in DOMAIN Copts : Copts[i].short = c}
               IN  IF hits = {} THEN 0 ELSE CHOOSE i \in hits : \A j \in hits : i <= j

Decimal == {"0", "1", "2", "3", "4", "5", "6", "7", "8", "9"}

\* how many characters at the start of a text are in S
Leading(t, S) == CHOOSE k \in 0 .. Len(t) : /\ \A i \in 1 .. k : t[i] \in S
                                            /\ k < Len(t) => t[k + 1] \notin S

\* external: strtol.  A number is its decimal text: a sign, the digits a text
\* begins with, less the zeros in front; 0 if there are none.  The values fit.
strtol10(t) ==
    LET neg == Leading(t, {"-"}) = 1
        num == IF neg THEN Tail(t) ELSE t
        ds  == SubSeq(num, Leading(num, {"0"}) + 1, Leading(num, Decimal))
    IN  IF ds = <<>> THEN <<"0">> ELSE IF neg THEN <<"-">> \o ds ELSE ds

\* what is stored through value: true, the text cut to its room, a number, or
\* what the callback makes of the text
Stored(opt, arg) ==
    CASE opt.type = "bool" -> <<"true">>
      [] opt.type = "string" -> SubSeq(arg, 1, IF Len(arg) < StrMax THEN Len(arg) ELSE StrMax)
      [] opt.type \in {"int", "long"} -> strtol10(arg)
      [] OTHER -> arg

\* optind = 1, and nothing else of getopt: a nextchar that was set stays set
\* even if what it points at is empty now
Start(rest, set) == [c |-> "start", values |-> [i \in DOMAIN Copts |-> UNSET],
                     g |-> [i |-> 1, rest |-> rest, set |-> set]]

\* one iteration; help ends the loop, unknown options do not
Iterate(ws, p) ==
    LET f == getopt_long(ws, p.g)
        i == OptionOf(f.c)
    IN  [c |-> f.c, g |-> f.g,
         values |-> IF f.c \in {"-1", "h"} \/ i = 0 THEN p.values
                    ELSE [p.values EXCEPT ![i] = Stored(Copts[i], f.arg)]]

\* faulty variant: an option that is not known ends the loop
StopsAtUnknown(c) == c \in {"-1", "h", "?"}

Stops(c) == c \in {"-1", "h"}

\* bound: iterations of the loop, more than the words and letters of a call
MaxIterations == 8

\* set: nextchar points somewhere when the call begins, rest: at what
parse_options(ws, rest, set) ==
    LET p[k \in 0 .. MaxIterations] ==
          IF k = 0 THEN Start(rest, set)
          ELSE IF Stops(p[k - 1].c) THEN p[k - 1] ELSE Iterate(ws, p[k - 1])
        end == p[MaxIterations]
    IN  [values |-> end.values, ret |-> IF end.c = "h" THEN "-EINVAL" ELSE "0",
         dangling |-> end.g.set]
=============================================================================
