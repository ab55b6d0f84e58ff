------------------------------- MODULE Binlog -------------------------------
(***************************************************************************)
(* The binary log: threads that format records into a buffer of their own  *)
(* and append each with one write (src/src/binlog/binlog.c), and the       *)
(* parser, another process, that reads the file through a buffer of fixed  *)
(* size while the log may still grow (binlog_parser.c).                    *)
(*                                                                         *)
(* Files and buffers are sequences of cells.  A tag, a character and the   *)
(* length are a cell each, an int one cell, the eight byte types two; the  *)
(* rest of the prefix (level, function, line, thread, time) is one cell.   *)
(***************************************************************************)
EXTENDS BinlogFormat, SequencesExt

CONSTANTS Threads,
          Formats,           \* key (function and line) -> its format: text and, as below, logs and reads
          Json,              \* the keys the parser's JSON file knows
          Strs,              \* string arguments
          BINLOG_STACK_SIZE, \* cells of the buffer on the stack
          ParserSize,        \* 1 << 22: cells of the parser's buffer
          Cuts,              \* bound: how many cells a short write may write
          MaxRecords,        \* bound: records begun
          MaxTorn            \* bound: short writes

PrefixLen == 2               \* length and the rest, without BLOG_BEGIN

Types == {INT, LONG, DOUBLE, STRING_TYPE, POINTER_TYPE}

\* A longer function name would overrun the stack buffer in print_begin.  The
\* types of the arguments are those the two scanners find in the text; the
\* formats do_valog aborts on are left to BinlogFormat.  So are formats with
\* which it takes a string that the caller has not passed there and follows
\* whatever it finds as a pointer, and those with a long double as in %Lg,
\* which both scanners take for a double: no L stands before such a letter.
ASSUME BinlogAssumption ==
    /\ BINLOG_STACK_SIZE \in Nat /\ PrefixLen + 1 <= BINLOG_STACK_SIZE
    /\ ParserSize \in Nat \ {0} /\ MaxRecords \in Nat /\ MaxTorn \in Nat
    /\ Json \subseteq DOMAIN Formats /\ Cuts \subseteq Nat /\ \A s \in Strs : s \in Seq(STRING)
    /\ \A k \in DOMAIN Formats :
         LET logs == Formats[k].logs   reads == Formats[k].reads
         IN  /\ do_valog(Formats[k].text) = [types |-> logs, end |-> "ok"] /\ logs \in Seq(Types)
             /\ print_format(Formats[k].text) = [types |-> reads, end |-> "ok"] /\ reads \in Seq(Types)
             /\ \A i \in DOMAIN logs : logs[i] = STRING_TYPE => i \in DOMAIN reads /\ reads[i] = STRING_TYPE
             /\ \A i \in 1 .. Len(Formats[k].text) - 1 :
                  Formats[k].text[i] = "L" => Formats[k].text[i + 1] \notin DoubleChars

VARIABLES open,     \* the process has a handle
          w,        \* thread -> its tbinlog and the call it is in
          begun,    \* history: records begun
          file,     \* the log file
          log,      \* history: what was written to it
          p         \* the parser
vars == <<open, w, begun, file, log, p>>

-----------------------------------------------------------------------------
(***************************************************************************)
(* Records                                                                 *)
(***************************************************************************)
Tag(type)   == <<"tag", type>>
BLOG_BEGIN  == <<"begin">>
BLOG_END    == <<"end">>
LenCell(n)  == <<"length", n>>
Prefix(rec) == <<"prefix", rec.key, rec.thread>>
NUL         == <<"nul">>
JUNK        == <<"junk">>
ANY         == "any"      \* a va_arg the caller did not pass

Width(type) == IF type = INT THEN 1 ELSE 2

\* print_int, print_long, print_double, print_pointer, print_string
ArgCells(a) ==
    IF a.type = STRING_TYPE
    THEN <<Tag(a.type)>> \o [i \in 1 .. Len(a.val) |-> <<"char", a.val[i]>>] \o <<NUL>>
    ELSE <<Tag(a.type)>> \o [i \in 1 .. Width(a.type) |-> <<"value", a.val, i>>]

\* the arguments a caller passes are those C defines for the format, which
\* are those print_format reads: without long double the two agree
Args(key, seq, str) ==
    LET ts == Formats[key].reads
    IN  [i \in DOMAIN ts |-> [type |-> ts[i], val |-> IF ts[i] = STRING_TYPE THEN str ELSE seq]]

\* the arguments do_valog logs: va_arg takes them in turn, those the caller
\* passed and what lies behind them, as the types it asks for
Logged(key, args) ==
    LET ts == Formats[key].logs
    IN  [i \in DOMAIN ts |->
           [type |-> ts[i], val |-> IF i <= Len(args) /\ args[i].type = ts[i] THEN args[i].val ELSE ANY]]

Record(key, t, args) == [key |-> key, thread |-> t, args |-> args, logged |-> Logged(key, args)]

RecordCells(rec, len) ==
    <<BLOG_BEGIN, LenCell(len), Prefix(rec)>>
      \o FlattenSeq([i \in DOMAIN rec.logged |-> ArgCells(rec.logged[i])]) \o <<BLOG_END>>
RecordSize(rec) == Len(RecordCells(rec, 0))

-----------------------------------------------------------------------------
(***************************************************************************)
(* The writer                                                              *)
(***************************************************************************)
Idle == [st |-> "idle", rec |-> [logged |-> <<>>],
         buf |-> <<>>, offset |-> 0, total |-> 0, next |-> 0, heap |-> FALSE, over |-> FALSE]

\* faulty variant: room for the growth is computed without the new cells
AllocTight(x, n) == IF 2 * Len(x.buf) > x.offset THEN 2 * Len(x.buf) ELSE x.offset

AllocSize(x, n) ==
    LET a == 2 * Len(x.buf)
        b == x.offset + n + BINLOG_STACK_SIZE
    IN  IF a > b THEN a ELSE b

\* malloc and a copy of the stack buffer, or realloc: either way what was
\* written stays and the buffer is no longer on the stack
binlog_maybe_realloc(x, n) ==
    IF x.offset + n <= Len(x.buf) THEN x
    ELSE [x EXCEPT !.buf = x.buf \o [i \in 1 .. AllocSize(x, n) - Len(x.buf) |-> JUNK], !.heap = TRUE]

\* store cells at the offset; over: some of them went past the buffer
StoreCells(x, cells) ==
    [x EXCEPT !.buf = [i \in DOMAIN x.buf |-> IF x.offset < i /\ i <= x.offset + Len(cells)
                                              THEN cells[i - x.offset] ELSE x.buf[i]],
              !.offset = x.offset + Len(cells),
              !.over = x.over \/ x.offset + Len(cells) > Len(x.buf)]

BinlogCreate == ~open /\ open' = TRUE /\ UNCHANGED <<w, begun, file, log, p>>

\* the caller's duty: no thread is printing
BinlogDestroy ==
    /\ open /\ \A t \in Threads : w[t].st = "idle"
    /\ open' = FALSE /\ UNCHANGED <<w, begun, file, log, p>>

\* the process dies; what it has not written yet is gone
Crash ==
    /\ \E t \in Threads : w[t].st # "idle"
    /\ open' = FALSE /\ w' = [t \in Threads |-> Idle]
    /\ UNCHANGED <<begun, file, log, p>>

\* binlog_print up to and with print_begin, which does not ask for room
BinlogPrint(t, key, str) ==
    /\ open /\ w[t].st = "idle" /\ begun < MaxRecords
    /\ begun' = begun + 1
    /\ LET rec == Record(key, t, Args(key, begun', str))
           x   == [Idle EXCEPT !.st = "args", !.rec = rec, !.next = 1,
                               !.buf = [i \in 1 .. BINLOG_STACK_SIZE |-> JUNK]]
       IN  w' = [w EXCEPT ![t] = StoreCells(x, <<BLOG_BEGIN, LenCell(0), Prefix(rec)>>)]
    /\ UNCHANGED <<open, file, log, p>>

\* PRINT_BINTYPE: the next argument of do_valog
PrintArg(t) ==
    /\ w[t].st = "args" /\ w[t].next <= Len(w[t].rec.logged)
    /\ LET x     == w[t]
           cells == ArgCells(x.rec.logged[x.next])
           y     == StoreCells(binlog_maybe_realloc(x, Len(cells)), cells)
       IN  w' = [w EXCEPT ![t] = [y EXCEPT !.next = @ + 1, !.total = @ + Len(cells)]]
    /\ UNCHANGED <<open, begun, file, log, p>>

\* print_end before its write: the length goes into the second cell
Finished(x) ==
    LET y == binlog_maybe_realloc(x, 1)
    IN  StoreCells([y EXCEPT !.buf[2] = LenCell(x.total + PrefixLen + 2)], <<BLOG_END>>)

\* print_end: n cells of the record reach the file, which is opened with
\* O_APPEND; the result of write is not looked at
PrintEnd(t, n) ==
    LET y == Finished(w[t])
    IN  /\ w[t].st = "args" /\ w[t].next > Len(w[t].rec.logged)
        /\ n <= y.offset
        /\ n < y.offset => Cardinality({i \in DOMAIN log : log[i].torn}) < MaxTorn
        /\ file' = file \o SubSeq(y.buf, 1, n)
        /\ log' = IF n = 0 THEN log ELSE Append(log, [rec |-> y.rec, size |-> y.offset, torn |-> n < y.offset])
        /\ w' = [w EXCEPT ![t] = [Idle EXCEPT !.over = y.over]]     \* binlog_maybe_free
        /\ UNCHANGED <<open, begun, p>>

-----------------------------------------------------------------------------
(***************************************************************************)
(* The parser                                                              *)
(***************************************************************************)
\* external: read fills what is free of the buffer, as far as the file goes
Read(q) ==
    LET end == q.file_offset + ParserSize - (Len(q.buf) - q.offset)
    IN  SubSeq(file, q.file_offset + 1, IF end < Len(file) THEN end ELSE Len(file))

\* faulty variant: the position in the file is not advanced
ReadAgain(q) ==
    IF Read(q) = <<>> THEN [q EXCEPT !.st = "abort"]
    ELSE [q EXCEPT !.buf = SubSeq(@, q.offset + 1, Len(@)) \o Read(q), !.offset = 0]

\* What is left is moved to the front with memcpy; if that is more than what
\* lies before it, source and destination overlap, which is undefined.
Overlaps(q) == Len(q.buf) - q.offset > q.offset

\* what is left moves to the front and the rest is filled; assert on nothing read
binlog_parse_read(q) ==
    IF Read(q) = <<>> THEN [q EXCEPT !.st = "abort"]
    ELSE [q EXCEPT !.buf = SubSeq(@, q.offset + 1, Len(@)) \o Read(q), !.offset = 0,
                   !.file_offset = @ + Len(Read(q))]

\* external: strlen over the cells from i on; the end of buf means none is found
strlen(buf, i) ==
    LET ns == {j \in i .. Len(buf) : buf[j] = NUL}
    IN  IF ns = {} THEN Len(buf) + 1 - i ELSE (CHOOSE j \in ns : \A k \in ns : j <= k) - i

\* get_int, get_long, get_double, get_pointer, get_string on v = [off, vals, end]
GetArg(buf, base, len, v, type) ==
    LET i == base + v.off + 1                                 \* the tag's cell
        n == IF type = STRING_TYPE THEN strlen(buf, i + 1) + 1 ELSE Width(type)
    IN  IF v.end # "ok" THEN v
        ELSE IF v.off + 1 + n > len THEN [v EXCEPT !.end = "abort"]
        ELSE IF i + n > Len(buf) THEN [v EXCEPT !.end = "ub"]
        ELSE IF buf[i] # Tag(type) THEN [v EXCEPT !.end = "abort"]
        ELSE [v EXCEPT !.off = @ + 1 + n, !.vals = Append(@, SubSeq(buf, i, i + n))]

\* print_format reading the arguments of the record at base
GetArgs(buf, base, len, types) ==
    LET v[k \in 0 .. Len(types)] == IF k = 0 THEN [off |-> PrefixLen + 1, vals |-> <<>>, end |-> "ok"]
                                    ELSE GetArg(buf, base, len, v[k - 1], types[k])
    IN  v[Len(types)]

Off == [st |-> "off", buf |-> <<>>, offset |-> 0, len |-> 0, file_offset |-> 0, file_size |-> 0,
        out |-> <<>>, saved |-> 0, before |-> 0]

\* out is what has been printed to parser->out, a buffered FILE that nothing
\* flushes or closes: the first saved records of it have reached the output
\* file, as many as stdio liked, and all of it when the process exits.
\*
\* binlog_parser_create up to the size of the file; before: the records then in it
ParserCreate ==
    /\ p.st = "off" /\ (open \/ begun > 0)                    \* the file exists
    /\ p' = [Off EXCEPT !.st = "sized", !.file_size = Len(file), !.before = Len(log)]
    /\ UNCHANGED <<open, w, begun, file, log>>

\* and the first read
ParserFirstRead ==
    /\ p.st = "sized"
    /\ p' = binlog_parse_read([p EXCEPT !.st = "top"])
    /\ UNCHANGED <<open, w, begun, file, log>>

\* the head of binlog_prase's loop, up to the length; a length that is not
\* in the buffer, or something else in its place, is undefined behaviour
ParseLength ==
    /\ p.st = "top"
    /\ LET q == IF p.offset = Len(p.buf) THEN binlog_parse_read(p) ELSE p     \* nothing to move
           i == q.offset + 2
       IN  p' = IF q.st = "abort" THEN q
                ELSE IF i > Len(q.buf) \/ q.buf[i][1] # "length" THEN [q EXCEPT !.st = "ub"]
                ELSE [q EXCEPT !.st = "record", !.len = q.buf[i][2]]
    /\ UNCHANGED <<open, w, begun, file, log>>

\* faulty variant: the rest of a record is never read
HasAll(q) == TRUE

HasRecord(q) == q.len + q.offset <= Len(q.buf)

\* faulty variant: the end of the buffer passes for the end of the file
AtBufferEnd(q) == q.offset = Len(q.buf)

AtEnd(q) == q.file_offset = q.file_size /\ q.offset = Len(q.buf)

\* the rest of an iteration: one more read if the record is not complete
ParseRecord ==
    /\ p.st = "record"
    /\ LET q   == IF HasRecord(p) THEN p ELSE binlog_parse_read(p)
           i   == q.offset + 3
           key == q.buf[i][2]
           v   == GetArgs(q.buf, q.offset, q.len, Formats[key].reads)
           r   == [q EXCEPT !.out = Append(@, [prefix |-> q.buf[i], vals |-> v.vals]),
                            !.offset = @ + q.len]
       IN  \/ ~HasRecord(p) /\ Overlaps(p) /\ p' = [p EXCEPT !.st = "ub"]
           \/ \E n \in p.saved .. Len(p.out) + 1 :
                p' = CASE q.st = "abort" -> q
                       [] q.st # "abort" /\ (i > Len(q.buf) \/ q.buf[i][1] # "prefix") -> [q EXCEPT !.st = "ub"]
                       [] OTHER -> IF key \notin Json THEN [q EXCEPT !.st = "segv"]  \* print_format(NULL)
                                   ELSE IF v.end # "ok" THEN [q EXCEPT !.st = v.end]
                                   ELSE IF AtEnd(r) THEN [r EXCEPT !.st = "done", !.saved = Len(r.out)]
                                   ELSE [r EXCEPT !.st = "top", !.saved = n]
    /\ UNCHANGED <<open, w, begun, file, log>>

-----------------------------------------------------------------------------
Init == /\ open = FALSE /\ w = [t \in Threads |-> Idle] /\ begun = 0
        /\ file = <<>> /\ log = <<>> /\ p = Off

Next == \/ BinlogCreate \/ BinlogDestroy \/ Crash
        \/ \E t \in Threads, key \in DOMAIN Formats, str \in Strs : BinlogPrint(t, key, str)
        \/ \E t \in Threads : PrintArg(t) \/ \E n \in Cuts \cup {Finished(w[t]).offset} : PrintEnd(t, n)
        \/ ParserCreate \/ ParserFirstRead \/ ParseLength \/ ParseRecord

Spec == Init /\ [][Next]_vars

-----------------------------------------------------------------------------
(***************************************************************************)
(* Properties                                                              *)
(***************************************************************************)
\* A thread's buffer, across its moves from the stack to the heap and from
\* there on, holds exactly the record so far: nothing was written past its
\* end, and the length that print_end stores, added up on the way, is the
\* number of cells it then writes.
BufferHoldsRecord ==
    \A t \in Threads :
        /\ ~w[t].over
        /\ w[t].st = "args" =>
             /\ SubSeq(w[t].buf, 1, w[t].offset) = SubSeq(RecordCells(w[t].rec, 0), 1, w[t].offset)
             /\ w[t].heap <=> Len(w[t].buf) > BINLOG_STACK_SIZE
             /\ w[t].next > Len(w[t].rec.logged) =>
                  LET y == Finished(w[t]) IN SubSeq(y.buf, 1, y.offset) = RecordCells(w[t].rec, y.offset)

\* what the parser shows of a record
Shown(rec) == [prefix |-> Prefix(rec), vals |-> [i \in DOMAIN rec.args |-> ArgCells(rec.args[i])]]

Torn == {i \in DOMAIN log : log[i].torn}

\* The parser prints the records in the order they were written, each with
\* the arguments its caller passed, whatever threads wrote meanwhile and
\* wherever a read ended, up to the first torn record.  The output file has
\* the beginning of that.
ParsedInOrder ==
    \A i \in DOMAIN p.out :
        (\A j \in Torn : i < j) => i <= Len(log) /\ p.out[i] = Shown(log[i].rec)

\* A parser that ends well has left in the output file every record that was
\* in the log when it took its size, and none of those that came later.
DoneIsComplete == p.st = "done" /\ Torn = {} => p.saved = p.before /\ Len(p.out) = p.before

Large == \E i \in DOMAIN log : log[i].size > ParserSize

\* do_valog and print_format take different arguments for the format
Misread == \E i \in DOMAIN log :
              LET r == log[i].rec
              IN  \E k \in DOMAIN r.args : k > Len(r.logged) \/ r.logged[k].type # r.args[k].type

\* What has to come together for the parser to fail on a log without torn
\* records, records larger than its buffer, and formats the two scanners read
\* differently.  An assertion fails only when the log was empty or has grown
\* since its size was taken; all that was there then has been printed, but of
\* the output file nothing can be said, since abort() drops what stdio still
\* holds.  Memory is misused only when the length of a record lies just
\* beyond a full buffer, or when a record that begins in the first half of a
\* full buffer does not fit in it and memcpy moves it over itself.
\* print_format gets no format only for a key that the JSON file lacks.
FailuresExplained ==
    Torn = {} /\ ~Large /\ ~Misread =>
        /\ p.st = "abort" => (file = <<>> \/ Len(file) > p.file_size) /\ Len(p.out) >= p.before
        /\ p.st = "ub" => /\ Len(p.buf) = ParserSize
                          /\ \/ p.offset + 1 = ParserSize
                             \/ 2 * p.offset < ParserSize /\ p.offset + p.len > ParserSize
        /\ p.st = "segv" => \E i \in DOMAIN log : log[i].rec.key \notin Json
=============================================================================
