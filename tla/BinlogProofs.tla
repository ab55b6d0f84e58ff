---------------------------- MODULE BinlogProofs ----------------------------
(***************************************************************************)
(* The binary log for every number of threads, set of formats, buffer size *)
(* and series of torn writes: the buffer of a thread holds its record      *)
(* across every reallocation, the parser prints the records in the order   *)
(* they were written up to the first torn one, a parser that ends well has *)
(* left all there was in its output file, and what has to come together    *)
(* for it to fail is what FailuresExplained says.                          *)
(***************************************************************************)
EXTENDS Binlog, ChainsProofs, SequenceTheorems

ArgSet  == [type : Types \ {STRING_TYPE}, val : Nat \cup {ANY}] \cup [type : {STRING_TYPE}, val : Seq(STRING)]
CellSet == {BLOG_BEGIN, BLOG_END, NUL, JUNK} \cup ({"tag"} \X Types) \cup ({"length"} \X Nat)
              \cup ({"char"} \X STRING) \cup ({"value"} \X (Nat \cup {ANY}) \X Nat)
              \cup ({"prefix"} \X (DOMAIN Formats) \X Threads)

Records == {Record(key, t, Args(key, n, str)) :
              key \in DOMAIN Formats, t \in Threads, n \in 0 .. MaxRecords, str \in Strs}

\* the cells of the first k arguments
ArgsTo(rec, k) == FlattenSeq([i \in 1 .. k |-> ArgCells(rec.logged[i])])

Writers == [st : {"args"}, rec : Records, buf : Seq(CellSet), offset : Nat, total : Nat, next : Nat,
            heap : BOOLEAN, over : {FALSE}]

\* a buffer holds the record as far as it has been printed
Holds(x) ==
    /\ x.next \in 1 .. Len(x.rec.logged) + 1
    /\ x.total = Len(ArgsTo(x.rec, x.next - 1)) /\ x.offset = x.total + 3
    /\ x.offset <= Len(x.buf) /\ BINLOG_STACK_SIZE <= Len(x.buf)
    /\ x.heap <=> Len(x.buf) > BINLOG_STACK_SIZE
    /\ \A i \in 1 .. x.offset : x.buf[i] = RecordCells(x.rec, 0)[i]

WriterInv ==
    /\ begun \in 0 .. MaxRecords
    /\ w \in [Threads -> {Idle} \cup Writers]
    /\ \A t \in Threads : w[t].st = "args" => Holds(w[t])

\* record i of the log begins after start[i] cells of the file
FileInv(start) ==
    /\ log \in Seq([rec : Records, size : Nat, torn : BOOLEAN]) /\ file \in Seq(CellSet)
    /\ start \in [1 .. Len(log) + 1 -> Nat] /\ start[1] = 0 /\ start[Len(log) + 1] = Len(file)
    /\ \A i \in 1 .. Len(log) :
         /\ start[i] < start[i + 1] /\ log[i].size = RecordSize(log[i].rec)
         /\ ~log[i].torn =>
              /\ start[i + 1] = start[i] + log[i].size
              /\ \A j \in 1 .. log[i].size : file[start[i] + j] = RecordCells(log[i].rec, log[i].size)[j]

Parsers == [st : {"off", "sized", "top", "record", "abort", "ub", "segv", "done"}, buf : Seq(CellSet),
            offset : Nat, len : Nat, file_offset : Nat, file_size : Nat,
            out : Seq([prefix : CellSet, vals : Seq(Seq(CellSet))]), saved : Nat, before : Nat]

\* the buffer shows the cells of the file before file_offset; it is full
\* unless they end where some record did
ViewOf(q, start) ==
    /\ Len(q.buf) <= ParserSize /\ Len(q.buf) <= q.file_offset /\ q.file_offset <= Len(file)
    /\ \A j \in 1 .. Len(q.buf) : q.buf[j] = file[q.file_offset - Len(q.buf) + j]
    /\ Len(q.buf) = ParserSize \/ \E j \in 1 .. Len(log) + 1 : q.file_offset = start[j]
    /\ q.before <= Len(log) /\ q.file_size = start[q.before + 1]

\* where the parser is
StateOf(q) ==
    /\ q.st \in {"off", "sized"} => q.buf = <<>> /\ q.offset = 0 /\ q.file_offset = 0 /\ q.out = <<>>
    /\ q.st = "off" => q.before = 0
    /\ q.st = "top" => ~AtEnd(q)
    /\ q.st = "record" => q.offset + 2 <= Len(q.buf) /\ q.buf[q.offset + 2] = LenCell(q.len)
    /\ q.st = "done" => AtEnd(q) /\ q.saved = Len(q.out)

\* the first k records are whole
Clean(k) == k <= Len(log) /\ \A j \in 1 .. k : ~log[j].torn

\* after the records it has shown it is at the beginning of the next one
AlignOf(q, start) == Clean(Len(q.out)) => q.file_offset - Len(q.buf) + q.offset = start[Len(q.out) + 1]

FitOf(q) == Torn = {} /\ ~Large /\ q.st = "top" => q.offset <= Len(q.buf)

ParserInv(start) == p \in Parsers /\ ViewOf(p, start) /\ StateOf(p) /\ AlignOf(p, start) /\ FitOf(p)

Inv(start) == WriterInv /\ FileInv(start) /\ ParserInv(start) /\ ParsedInOrder /\ FailuresExplained

IInv == \E start \in [1 .. Len(log) + 1 -> Nat] : Inv(start)

-----------------------------------------------------------------------------
\* The parts of a concatenation.
LEMMA Cat ==
    ASSUME NEW S, NEW a \in Seq(S), NEW b \in Seq(S)
    PROVE  /\ a \o b \in Seq(S) /\ Len(a \o b) = Len(a) + Len(b) /\ Len(a) \in Nat /\ Len(b) \in Nat
           /\ (\A i \in 1 .. Len(a) : (a \o b)[i] = a[i]) /\ (\A i \in 1 .. Len(b) : (a \o b)[Len(a) + i] = b[i])
<1>1. a \o b \in Seq(S) /\ Len(a \o b) = Len(a) + Len(b) /\ Len(a) \in Nat /\ Len(b) \in Nat
  BY ConcatProperties
<1>2. \A i \in 1 .. Len(a) : i \in 1 .. Len(a) + Len(b) /\ i <= Len(a)
  BY <1>1
<1>3. \A i \in 1 .. Len(b) : Len(a) + i \in 1 .. Len(a) + Len(b) /\ ~(Len(a) + i <= Len(a)) /\ Len(a) + i - Len(a) = i
  BY <1>1
<1>4. \A i \in 1 .. Len(a) + Len(b) : (a \o b)[i] = IF i <= Len(a) THEN a[i] ELSE b[i - Len(a)]
  BY ConcatProperties
<1>5. QED BY <1>1, <1>2, <1>3, <1>4

\* f is the recursive function of FlattenSeq on the first n of s
Solves(f, s, n) == f = [i \in 1 .. n |-> IF i = 1 THEN s[i] ELSE f[i - 1] \o s[i]]

\* Two such functions agree where both are defined, and their values are
\* sequences.
LEMMA SolutionsAgree ==
    ASSUME NEW S, NEW s \in Seq(Seq(S)), NEW n \in 0 .. Len(s), NEW k \in 0 .. n, NEW f, NEW g,
           Solves(f, s, n), Solves(g, s, k)
    PROVE  \A i \in 1 .. k : f[i] = g[i] /\ f[i] \in Seq(S)
<1> DEFINE T == {i \in 1 .. k : ~(f[i] = g[i] /\ f[i] \in Seq(S))}
<1>1. T \in SUBSET Nat /\ Len(s) \in Nat
  OBVIOUS
<1>2. CASE T # {}
  <2>1. PICK j \in T : \A i \in T : j <= i
    BY <1>1, <1>2, MinNat
  <2>2. j \in 1 .. k /\ j \in 1 .. n /\ j \in 1 .. Len(s) /\ s[j] \in Seq(S) /\ j \in Nat
    BY <1>1
  <2>3. /\ f[j] = IF j = 1 THEN s[j] ELSE f[j - 1] \o s[j]
        /\ g[j] = IF j = 1 THEN s[j] ELSE g[j - 1] \o s[j]
    BY <2>2 DEF Solves
  <2>4. CASE j = 1
    BY <2>1, <2>2, <2>3, <2>4
  <2>5. CASE j # 1
    <3>1. j - 1 \in 1 .. k /\ ~(j <= j - 1)
      BY <2>2, <2>5
    <3>2. j - 1 \notin T
      BY <2>1, <3>1
    <3>3. f[j - 1] = g[j - 1] /\ f[j - 1] \in Seq(S)
      BY <3>1, <3>2
    <3>4. f[j] = f[j - 1] \o s[j] /\ g[j] = f[j - 1] \o s[j]
      BY <2>3, <2>5, <3>3
    <3>5. f[j - 1] \o s[j] \in Seq(S)
      BY <2>2, <3>3, ConcatProperties
    <3>6. QED BY <2>1, <3>4, <3>5
  <2>6. QED BY <2>4, <2>5
<1>3. CASE T = {}
  BY <1>3
<1>4. QED BY <1>2, <1>3

\* There is one for every n.
LEMMA SolutionExists == ASSUME NEW s, NEW l \in Nat PROVE \A n \in 0 .. l : \E f : Solves(f, s, n)
<1> DEFINE T == {n \in 0 .. l : ~\E f : Solves(f, s, n)}
<1>1. T \in SUBSET Nat
  OBVIOUS
<1>2. CASE T # {}
  <2>1. PICK n \in T : \A i \in T : n <= i
    BY <1>1, <1>2, MinNat
  <2>2. n \in 0 .. l /\ ~\E f : Solves(f, s, n)
    BY <2>1
  <2>3. CASE n = 0
    <3> DEFINE f == [i \in 1 .. 0 |-> s[i]]
    <3>1. f = [i \in 1 .. 0 |-> IF i = 1 THEN s[i] ELSE f[i - 1] \o s[i]]
      OBVIOUS
    <3> HIDE DEF f
    <3>2. Solves(f, s, n)
      BY <2>3, <3>1 DEF Solves
    <3>3. QED BY <2>2, <3>2
  <2>4. CASE n # 0
    <3>1. n - 1 \in 0 .. l /\ ~(n <= n - 1)
      BY <2>2, <2>4
    <3>2. PICK g : Solves(g, s, n - 1)
      BY <2>1, <3>1
    <3> DEFINE f == [i \in 1 .. n |-> IF i = 1 THEN s[i] ELSE g[i - 1] \o s[i]]
    <3>3. ASSUME NEW i \in 1 .. n - 1 PROVE f[i] = g[i]
      <4>1. g[i] = IF i = 1 THEN s[i] ELSE g[i - 1] \o s[i]
        BY <3>2 DEF Solves
      <4>2. i \in 1 .. n
        BY <2>2
      <4>3. QED BY <4>1, <4>2
    <3>4. ASSUME NEW i \in 1 .. n, i # 1 PROVE f[i - 1] = g[i - 1]
      <4>1. i - 1 \in 1 .. n - 1
        BY <2>2, <3>4
      <4> HIDE DEF f
      <4>2. QED BY <3>3, <4>1
    <3>5. f = [i \in 1 .. n |-> IF i = 1 THEN s[i] ELSE f[i - 1] \o s[i]]
      <4>1. f = [i \in 1 .. n |-> IF i = 1 THEN s[i] ELSE g[i - 1] \o s[i]]
        OBVIOUS
      <4> HIDE DEF f
      <4>2. QED BY <3>4, <4>1
    <3> HIDE DEF f
    <3>6. QED BY <2>2, <3>5 DEF Solves
  <2>5. QED BY <2>3, <2>4
<1>3. QED BY <1>2

\* FlattenSeq is the last value of that function.
LEMMA FlattenIs ==
    ASSUME NEW S, NEW s \in Seq(Seq(S)), NEW f, Solves(f, s, Len(s)), Len(s) # 0
    PROVE  FlattenSeq(s) = f[Len(s)] /\ FlattenSeq(s) \in Seq(S)
<1> DEFINE g == CHOOSE h : h = [i \in 1 .. Len(s) |-> IF i = 1 THEN s[i] ELSE h[i - 1] \o s[i]]
<1>1. FlattenSeq(s) = g[Len(s)]
  BY DEF FlattenSeq
<1>2. Solves(g, s, Len(s))
  BY DEF Solves
<1> HIDE DEF g
<1>3. Len(s) \in 0 .. Len(s) /\ Len(s) \in 1 .. Len(s)
  OBVIOUS
<1>4. QED BY <1>1, <1>2, <1>3, SolutionsAgree

\* What FlattenSeq adds for one more sequence.
LEMMA FlattenStep ==
    ASSUME NEW S, NEW s \in Seq(Seq(S)), NEW r \in Seq(Seq(S)), Len(s) = Len(r) + 1,
           \A i \in 1 .. Len(r) : r[i] = s[i]
    PROVE  FlattenSeq(r) \in Seq(S) /\ FlattenSeq(s) = FlattenSeq(r) \o s[Len(s)]
<1>1. Len(s) \in Nat /\ Len(r) \in Nat /\ s[Len(s)] \in Seq(S) /\ Len(s) \in 0 .. Len(s) /\ Len(s) \in 1 .. Len(s)
  OBVIOUS
<1>2. PICK f : Solves(f, s, Len(s))
  BY <1>1, SolutionExists
<1>3. f[Len(s)] = IF Len(s) = 1 THEN s[Len(s)] ELSE f[Len(s) - 1] \o s[Len(s)]
  BY <1>1, <1>2 DEF Solves
<1>4. FlattenSeq(s) = f[Len(s)]
  BY <1>1, <1>2, FlattenIs
<1>5. CASE Len(r) = 0
  <2>1. r = <<>> /\ FlattenSeq(r) = r
    BY <1>5 DEF FlattenSeq
  <2>2. <<>> \o s[Len(s)] = s[Len(s)]
    BY <1>1
  <2>3. FlattenSeq(s) = s[Len(s)]
    BY <1>1, <1>3, <1>4, <1>5
  <2>4. r \in Seq(S)
    BY <2>1
  <2>5. QED BY <2>1, <2>2, <2>3, <2>4
<1>6. CASE Len(r) # 0
  <2>1. Len(r) \in 0 .. Len(s) /\ Len(r) \in 0 .. Len(r) /\ Len(r) \in 1 .. Len(r) /\ Len(s) - 1 = Len(r) /\ Len(s) # 1
    BY <1>1, <1>6
  <2>2. PICK g : Solves(g, r, Len(r))
    BY <1>1, <2>1, SolutionExists
  <2>3. Solves(g, s, Len(r))
    BY <2>2 DEF Solves
  <2>4. f[Len(r)] = g[Len(r)]
    <3>1. \A i \in 1 .. Len(r) : f[i] = g[i] /\ f[i] \in Seq(S)
      BY <1>2, <2>1, <2>3, <1>1, SolutionsAgree
    <3>2. QED BY <2>1, <3>1
  <2>5. FlattenSeq(r) = g[Len(r)] /\ FlattenSeq(r) \in Seq(S)
    BY <1>6, <2>2, FlattenIs
  <2>6. QED BY <1>3, <1>4, <2>1, <2>4, <2>5
<1>7. QED BY <1>5, <1>6

-----------------------------------------------------------------------------
\* What the assumption says of a format.
LEMMA FormatFacts ==
    ASSUME NEW key \in DOMAIN Formats
    PROVE  /\ Formats[key].logs \in Seq(Types) /\ Formats[key].reads \in Seq(Types)
           /\ \A i \in 1 .. Len(Formats[key].logs) : Formats[key].logs[i] = STRING_TYPE =>
                i \in 1 .. Len(Formats[key].reads) /\ Formats[key].reads[i] = STRING_TYPE
<1>1. /\ Formats[key].logs \in Seq(Types) /\ Formats[key].reads \in Seq(Types)
      /\ \A i \in DOMAIN Formats[key].logs : Formats[key].logs[i] = STRING_TYPE =>
           i \in DOMAIN Formats[key].reads /\ Formats[key].reads[i] = STRING_TYPE
  BY BinlogAssumption, Zenon
<1>2. DOMAIN Formats[key].logs = 1 .. Len(Formats[key].logs) /\ DOMAIN Formats[key].reads = 1 .. Len(Formats[key].reads)
  BY <1>1
<1>3. QED BY <1>1, <1>2

\* What a record is made of: the arguments passed have the types the parser
\* will ask for, and those logged with the same type have the same value.
LEMMA RecordFacts ==
    ASSUME NEW rec \in Records
    PROVE  /\ rec.key \in DOMAIN Formats /\ rec.thread \in Threads
           /\ rec.args \in Seq(ArgSet) /\ rec.logged \in Seq(ArgSet)
           /\ Len(rec.args) = Len(Formats[rec.key].reads)
           /\ \A i \in 1 .. Len(rec.args) : rec.args[i].type = Formats[rec.key].reads[i]
           /\ \A i \in 1 .. Len(rec.logged) :
                i <= Len(rec.args) /\ rec.args[i].type = rec.logged[i].type => rec.logged[i] = rec.args[i]
<1>1. PICK key \in DOMAIN Formats, t \in Threads, n \in 0 .. MaxRecords, str \in Strs :
        rec = Record(key, t, Args(key, n, str))
  BY DEF Records
<1> DEFINE args == Args(key, n, str)
           logged == Logged(key, args)
           reads == Formats[key].reads
           logs == Formats[key].logs
<1>2. rec.key = key /\ rec.thread = t /\ rec.args = args /\ rec.logged = logged
  BY <1>1 DEF Record
<1>3. /\ logs \in Seq(Types) /\ reads \in Seq(Types) /\ DOMAIN reads = 1 .. Len(reads) /\ DOMAIN logs = 1 .. Len(logs)
      /\ Len(reads) \in Nat /\ Len(logs) \in Nat
      /\ \A i \in 1 .. Len(logs) : logs[i] = STRING_TYPE => i \in 1 .. Len(reads) /\ reads[i] = STRING_TYPE
  <2>1. /\ logs \in Seq(Types) /\ reads \in Seq(Types)
        /\ \A i \in 1 .. Len(logs) : logs[i] = STRING_TYPE => i \in 1 .. Len(reads) /\ reads[i] = STRING_TYPE
    BY FormatFacts
  <2> HIDE DEF reads, logs
  <2>2. QED BY <2>1
<1>4. n \in Nat /\ str \in Seq(STRING)
  BY BinlogAssumption
<1>5. args = [i \in 1 .. Len(reads) |-> [type |-> reads[i], val |-> IF reads[i] = STRING_TYPE THEN str ELSE n]]
  BY <1>3 DEF Args
<1>6. ASSUME NEW i \in 1 .. Len(reads) PROVE args[i] \in ArgSet /\ args[i].type = reads[i]
  <2>1. reads[i] \in Types
    BY <1>3
  <2>2. args[i] = [type |-> reads[i], val |-> IF reads[i] = STRING_TYPE THEN str ELSE n]
    BY <1>5
  <2> HIDE DEF args, reads
  <2>3. QED BY <1>4, <2>1, <2>2 DEF ArgSet
<1>7. args \in Seq(ArgSet) /\ Len(args) = Len(reads)
  <2> HIDE DEF reads
  <2>1. args = [i \in 1 .. Len(reads) |-> args[i]]
    BY <1>5
  <2> HIDE DEF args
  <2>2. QED BY <1>3, <1>6, <2>1, IsASeq
<1>8. logged = [i \in 1 .. Len(logs) |->
                  [type |-> logs[i], val |-> IF i <= Len(args) /\ args[i].type = logs[i] THEN args[i].val ELSE ANY]]
  BY <1>3 DEF Logged
<1> HIDE DEF args, logged, reads, logs
<1>9. ASSUME NEW i \in 1 .. Len(logs)
      PROVE  /\ logged[i] \in ArgSet
             /\ i <= Len(args) /\ args[i].type = logged[i].type => logged[i] = args[i]
  <2>1. logs[i] \in Types /\ i \in Nat /\ i > 0
    BY <1>3
  <2>2. logged[i] = [type |-> logs[i], val |-> IF i <= Len(args) /\ args[i].type = logs[i] THEN args[i].val ELSE ANY]
    BY <1>8
  <2>3. i <= Len(args) => i \in 1 .. Len(reads) /\ args[i] \in ArgSet /\ args[i].type = reads[i]
    BY <1>3, <1>6, <1>7, <2>1
  <2>4. \A a \in ArgSet : a = [type |-> a.type, val |-> a.val]
    BY DEF ArgSet
  <2>5. ASSUME i <= Len(args), args[i].type = logs[i] PROVE logged[i] = args[i]
    BY <2>2, <2>3, <2>4, <2>5
  <2>6. ASSUME ~(i <= Len(args) /\ args[i].type = logs[i]) PROVE logged[i] \in ArgSet
    <3>1. logs[i] # STRING_TYPE
      <4>1. logs[i] = STRING_TYPE => i \in 1 .. Len(reads) /\ reads[i] = STRING_TYPE
        BY <1>3
      <4>2. i \in 1 .. Len(reads) => i <= Len(args) /\ args[i].type = reads[i]
        BY <1>6, <1>7, <1>3
      <4>3. QED BY <2>6, <4>1, <4>2
    <3>2. logged[i] = [type |-> logs[i], val |-> ANY]
      BY <2>2, <2>6
    <3>3. QED BY <2>1, <3>1, <3>2 DEF ArgSet
  <2>7. logged[i].type = logs[i]
    BY <2>2
  <2>8. QED BY <2>3, <2>5, <2>6, <2>7
<1>10. logged \in Seq(ArgSet) /\ Len(logged) = Len(logs)
  <2>1. logged = [i \in 1 .. Len(logs) |-> logged[i]]
    BY <1>8
  <2>2. QED BY <1>3, <1>9, <2>1, IsASeq
<1>11. QED BY <1>2, <1>6, <1>7, <1>9, <1>10 DEF reads

\* The cells of an argument: its tag, then its value; a string ends with the
\* first NUL.
LEMMA ArgFacts ==
    ASSUME NEW a \in ArgSet
    PROVE  /\ ArgCells(a) \in Seq(CellSet) /\ a.type \in Types
           /\ Len(ArgCells(a)) = IF a.type = STRING_TYPE THEN Len(a.val) + 2 ELSE Width(a.type) + 1
           /\ ArgCells(a)[1] = Tag(a.type)
           /\ a.type = STRING_TYPE =>
                /\ Len(a.val) \in Nat /\ ArgCells(a)[Len(a.val) + 2] = NUL
                /\ \A i \in 2 .. Len(a.val) + 1 : ArgCells(a)[i] # NUL
<1>0. a.type \in Types
  BY DEF ArgSet, Types
<1>1. Tag(a.type) \in CellSet /\ <<Tag(a.type)>> \in Seq(CellSet) /\ Len(<<Tag(a.type)>>) = 1
  BY <1>0 DEF CellSet, Tag
<1>2. CASE a.type = STRING_TYPE
  <2> DEFINE c == [i \in 1 .. Len(a.val) |-> <<"char", a.val[i]>>]
  <2>1. a.val \in Seq(STRING) /\ Len(a.val) \in Nat
    BY <1>2 DEF ArgSet
  <2>2. \A i \in 1 .. Len(a.val) : a.val[i] \in STRING
    BY <2>1
  <2>3. c \in Seq(CellSet) /\ Len(c) = Len(a.val)
    <3>1. \A i \in 1 .. Len(a.val) : <<"char", a.val[i]>> \in CellSet
      BY <2>2 DEF CellSet
    <3>2. QED BY <2>1, <3>1, IsASeq
  <2>4. \A i \in 1 .. Len(a.val) : c[i] # NUL
    BY DEF NUL
  <2>5. NUL \in CellSet /\ <<NUL>> \in Seq(CellSet) /\ Len(<<NUL>>) = 1 /\ <<NUL>>[1] = NUL
    BY DEF CellSet
  <2>6. ArgCells(a) = <<Tag(a.type)>> \o c \o <<NUL>>
    BY <1>2 DEF ArgCells
  <2> HIDE DEF c
  <2> DEFINE d == <<Tag(a.type)>> \o c
  <2>7. d \in Seq(CellSet) /\ Len(d) = Len(a.val) + 1 /\ d[1] = Tag(a.type) /\ \A i \in 2 .. Len(a.val) + 1 : d[i] = c[i - 1]
    BY <1>1, <2>1, <2>3
  <2>8. ArgCells(a) = d \o <<NUL>>
    BY <2>6
  <2> HIDE DEF d
  <2>9. /\ d \o <<NUL>> \in Seq(CellSet) /\ Len(d \o <<NUL>>) = Len(a.val) + 2
        /\ \A i \in 1 .. Len(a.val) + 1 : (d \o <<NUL>>)[i] = d[i]
        /\ (d \o <<NUL>>)[Len(a.val) + 2] = NUL
    BY <2>1, <2>5, <2>7
  <2>10. \A i \in 2 .. Len(a.val) + 1 : i - 1 \in 1 .. Len(a.val) /\ i \in 1 .. Len(a.val) + 1
    BY <2>1
  <2>11. 1 \in 1 .. Len(a.val) + 1
    BY <2>1
  <2>12. ArgCells(a)[1] = Tag(a.type)
    BY <2>7, <2>8, <2>9, <2>11
  <2>13. ASSUME NEW i \in 2 .. Len(a.val) + 1 PROVE ArgCells(a)[i] # NUL
    <3>1. i - 1 \in 1 .. Len(a.val) /\ i \in 1 .. Len(a.val) + 1
      BY <2>10
    <3>2. ArgCells(a)[i] = d[i] /\ d[i] = c[i - 1]
      BY <2>7, <2>8, <2>9, <3>1
    <3>3. QED BY <2>4, <3>1, <3>2
  <2>14. QED BY <1>0, <1>2, <2>1, <2>8, <2>9, <2>12, <2>13
<1>3. CASE a.type # STRING_TYPE
  <2> DEFINE c == [i \in 1 .. Width(a.type) |-> <<"value", a.val, i>>]
  <2>1. a.val \in Nat \cup {ANY} /\ Width(a.type) \in Nat
    BY <1>3 DEF ArgSet, Width
  <2>2. c \in Seq(CellSet) /\ Len(c) = Width(a.type)
    <3>1. \A i \in 1 .. Width(a.type) : <<"value", a.val, i>> \in CellSet
      BY <2>1 DEF CellSet
    <3>2. QED BY <2>1, <3>1, IsASeq
  <2>3. ArgCells(a) = <<Tag(a.type)>> \o c
    BY <1>3 DEF ArgCells
  <2> HIDE DEF c
  <2>4. /\ <<Tag(a.type)>> \o c \in Seq(CellSet) /\ Len(<<Tag(a.type)>> \o c) = Width(a.type) + 1
        /\ (<<Tag(a.type)>> \o c)[1] = Tag(a.type)
    BY <1>1, <2>1, <2>2
  <2>5. QED BY <1>0, <1>3, <2>3, <2>4
<1>4. QED BY <1>2, <1>3

-----------------------------------------------------------------------------
\* One more argument adds its cells.
LEMMA ArgsToStep ==
    ASSUME NEW rec \in Records, NEW k \in 1 .. Len(rec.logged)
    PROVE  /\ ArgsTo(rec, k - 1) \in Seq(CellSet)
           /\ ArgsTo(rec, k) = ArgsTo(rec, k - 1) \o ArgCells(rec.logged[k])
<1> DEFINE s == [i \in 1 .. k |-> ArgCells(rec.logged[i])]
           r == [i \in 1 .. k - 1 |-> ArgCells(rec.logged[i])]
<1>1. rec.logged \in Seq(ArgSet) /\ Len(rec.logged) \in Nat /\ k \in Nat /\ k - 1 \in Nat
  <2>1. rec.logged \in Seq(ArgSet)
    BY RecordFacts
  <2>2. QED BY <2>1
<1>2. \A i \in 1 .. k : ArgCells(rec.logged[i]) \in Seq(CellSet)
  BY <1>1, ArgFacts
<1>3. s \in Seq(Seq(CellSet)) /\ Len(s) = k
  BY <1>1, <1>2, IsASeq
<1>4. r \in Seq(Seq(CellSet)) /\ Len(r) = k - 1
  <2>1. \A i \in 1 .. k - 1 : ArgCells(rec.logged[i]) \in Seq(CellSet)
    BY <1>1, <1>2
  <2>2. QED BY <1>1, <2>1, IsASeq
<1>5. (\A i \in 1 .. k - 1 : r[i] = s[i]) /\ s[k] = ArgCells(rec.logged[k])
  BY <1>1
<1>6. ArgsTo(rec, k) = FlattenSeq(s) /\ ArgsTo(rec, k - 1) = FlattenSeq(r)
  BY DEF ArgsTo
<1> HIDE DEF s, r
<1>7. Len(s) = Len(r) + 1 /\ \A i \in 1 .. Len(r) : r[i] = s[i]
  BY <1>1, <1>3, <1>4, <1>5
<1>8. FlattenSeq(r) \in Seq(CellSet) /\ FlattenSeq(s) = FlattenSeq(r) \o s[Len(s)]
  BY <1>3, <1>4, <1>7, FlattenStep
<1>9. QED BY <1>3, <1>5, <1>6, <1>8

\* No arguments have no cells.
LEMMA ArgsToNone == ASSUME NEW rec PROVE ArgsTo(rec, 0) = <<>>
<1> DEFINE s == [i \in 1 .. 0 |-> ArgCells(rec.logged[i])]
<1>1. s = <<>>
  <2>1. \A i \in 1 .. 0 : ArgCells(rec.logged[i]) \in {}
    OBVIOUS
  <2>2. s \in Seq({}) /\ Len(s) = 0
    BY <2>1, IsASeq
  <2> HIDE DEF s
  <2>3. QED BY <2>2
<1>2. FlattenSeq(s) = s
  BY <1>1 DEF FlattenSeq
<1>3. QED BY <1>1, <1>2 DEF ArgsTo

\* They are cells.
LEMMA ArgsToType ==
    ASSUME NEW rec \in Records, NEW k \in 0 .. Len(rec.logged)
    PROVE  ArgsTo(rec, k) \in Seq(CellSet) /\ Len(ArgsTo(rec, k)) \in Nat
<1>1. rec.logged \in Seq(ArgSet)
  BY RecordFacts
<1>2. CASE k = 0
  <2>1. ArgsTo(rec, k) = <<>>
    BY <1>2, ArgsToNone
  <2>2. QED BY <2>1
<1>3. CASE k # 0
  <2>1. k \in 1 .. Len(rec.logged) /\ rec.logged[k] \in ArgSet
    BY <1>1, <1>3
  <2>2. /\ ArgsTo(rec, k - 1) \in Seq(CellSet) /\ ArgsTo(rec, k) = ArgsTo(rec, k - 1) \o ArgCells(rec.logged[k])
        /\ ArgCells(rec.logged[k]) \in Seq(CellSet)
    BY <2>1, ArgsToStep, ArgFacts
  <2>3. QED BY <2>2, ConcatProperties
<1>4. QED BY <1>2, <1>3

\* Fewer arguments are a prefix of more.
LEMMA ArgsPrefix ==
    ASSUME NEW rec \in Records, NEW k \in 0 .. Len(rec.logged)
    PROVE  \A m \in k .. Len(rec.logged) :
             /\ Len(ArgsTo(rec, k)) <= Len(ArgsTo(rec, m))
             /\ \A i \in 1 .. Len(ArgsTo(rec, k)) : ArgsTo(rec, m)[i] = ArgsTo(rec, k)[i]
<1> DEFINE P(m) == /\ Len(ArgsTo(rec, k)) <= Len(ArgsTo(rec, m))
                   /\ \A i \in 1 .. Len(ArgsTo(rec, k)) : ArgsTo(rec, m)[i] = ArgsTo(rec, k)[i]
           T == {m \in k .. Len(rec.logged) : ~P(m)}
<1>1. rec.logged \in Seq(ArgSet) /\ Len(rec.logged) \in Nat /\ k \in Nat
  <2>1. rec.logged \in Seq(ArgSet)
    BY RecordFacts
  <2>2. QED BY <2>1
<1>2. CASE T # {}
  <2>1. T \in SUBSET Nat
    BY <1>1
  <2>2. PICK m \in T : \A i \in T : m <= i
    BY <1>2, <2>1, MinNat
  <2>3. m \in k .. Len(rec.logged) /\ m \in Nat /\ ~P(m)
    BY <2>1, <2>2
  <2>4. Len(ArgsTo(rec, k)) \in Nat
    BY ArgsToType
  <2>5. CASE m = k
    BY <2>3, <2>4, <2>5
  <2>6. CASE m # k
    <3>1. m \in 1 .. Len(rec.logged) /\ m - 1 \in k .. Len(rec.logged) /\ m - 1 \in 0 .. Len(rec.logged) /\ ~(m <= m - 1)
      BY <1>1, <2>3, <2>6
    <3>2. P(m - 1)
      BY <2>2, <3>1
    <3>3. ArgsTo(rec, m - 1) \in Seq(CellSet) /\ ArgsTo(rec, m) = ArgsTo(rec, m - 1) \o ArgCells(rec.logged[m])
      BY <3>1, ArgsToStep
    <3>4. ArgCells(rec.logged[m]) \in Seq(CellSet)
      BY <1>1, <3>1, ArgFacts
    <3>5. /\ Len(ArgsTo(rec, m)) >= Len(ArgsTo(rec, m - 1))
          /\ \A i \in 1 .. Len(ArgsTo(rec, m - 1)) : ArgsTo(rec, m)[i] = ArgsTo(rec, m - 1)[i]
      <4> DEFINE a == ArgsTo(rec, m - 1)   b == ArgCells(rec.logged[m])
      <4> HIDE DEF a, b
      <4>1. a \in Seq(CellSet) /\ b \in Seq(CellSet)
        BY <3>3, <3>4 DEF a, b
      <4>2. Len(a \o b) >= Len(a) /\ \A i \in 1 .. Len(a) : (a \o b)[i] = a[i]
        BY <4>1
      <4>3. QED BY <3>3, <4>2 DEF a, b
    <3>6. Len(ArgsTo(rec, m)) \in Nat /\ Len(ArgsTo(rec, m - 1)) \in Nat
      BY <3>1, <2>3, ArgsToType
    <3>7. P(m)
      BY <2>4, <3>2, <3>5, <3>6
    <3>8. QED BY <2>3, <3>7
  <2>7. QED BY <2>5, <2>6
<1>3. QED BY <1>2

\* A sequence between three elements and one.
LEMMA Framed ==
    ASSUME NEW S, NEW x1 \in S, NEW x2 \in S, NEW x3 \in S, NEW y \in S, NEW a \in Seq(S)
    PROVE  LET c == <<x1, x2, x3>> \o a \o <<y>>
           IN  /\ c \in Seq(S) /\ Len(c) = Len(a) + 4 /\ Len(a) \in Nat
               /\ c[1] = x1 /\ c[2] = x2 /\ c[3] = x3 /\ c[Len(a) + 4] = y
               /\ \A i \in 1 .. Len(a) : c[3 + i] = a[i]
<1> DEFINE h == <<x1, x2, x3>>
           b == h \o a
           z == <<y>>
<1>1. h \in Seq(S) /\ Len(h) = 3 /\ h[1] = x1 /\ h[2] = x2 /\ h[3] = x3
  OBVIOUS
<1>2. z \in Seq(S) /\ Len(z) = 1 /\ z[1] = y
  OBVIOUS
<1> HIDE DEF h, z
<1>3. /\ b \in Seq(S) /\ Len(b) = Len(h) + Len(a) /\ Len(a) \in Nat
      /\ (\A i \in 1 .. Len(h) : b[i] = h[i]) /\ (\A i \in 1 .. Len(a) : b[Len(h) + i] = a[i])
  <2>1. h \in Seq(S)
    BY <1>1
  <2>2. b \in Seq(S) /\ Len(b) = Len(h) + Len(a) /\ Len(a) \in Nat
    BY <2>1, Cat
  <2>3. \A i \in 1 .. Len(h) : b[i] = h[i]
    BY <2>1, Cat
  <2>4. \A i \in 1 .. Len(a) : b[Len(h) + i] = a[i]
    BY <2>1, Cat
  <2>5. QED BY <2>2, <2>3, <2>4
<1> HIDE DEF b
<1>4. /\ b \o z \in Seq(S) /\ Len(b \o z) = Len(b) + Len(z) /\ Len(b) \in Nat
      /\ (\A i \in 1 .. Len(b) : (b \o z)[i] = b[i]) /\ (\A i \in 1 .. Len(z) : (b \o z)[Len(b) + i] = z[i])
  <2>1. b \in Seq(S) /\ z \in Seq(S)
    BY <1>2, <1>3
  <2>2. b \o z \in Seq(S) /\ Len(b \o z) = Len(b) + Len(z) /\ Len(b) \in Nat
    BY <2>1, Cat
  <2>3. \A i \in 1 .. Len(b) : (b \o z)[i] = b[i]
    BY <2>1, Cat
  <2>4. \A i \in 1 .. Len(z) : (b \o z)[Len(b) + i] = z[i]
    BY <2>1, Cat
  <2>5. QED BY <2>2, <2>3, <2>4
<1>5. Len(b) = Len(a) + 3 /\ Len(b \o z) = Len(a) + 4
  BY <1>1, <1>2, <1>3, <1>4
<1>6. (b \o z)[Len(a) + 4] = y
  <2>1. 1 \in 1 .. Len(z) /\ Len(b) + 1 = Len(a) + 4
    BY <1>2, <1>3, <1>5
  <2>2. (b \o z)[Len(b) + 1] = z[1]
    BY <1>4, <2>1
  <2>3. QED BY <1>2, <2>1, <2>2
<1>7. (b \o z)[1] = x1 /\ (b \o z)[2] = x2 /\ (b \o z)[3] = x3
  <2>1. 1 \in 1 .. Len(h) /\ 2 \in 1 .. Len(h) /\ 3 \in 1 .. Len(h)
    BY <1>1
  <2>2. 1 \in 1 .. Len(b) /\ 2 \in 1 .. Len(b) /\ 3 \in 1 .. Len(b)
    BY <1>3, <1>5
  <2>3. QED BY <1>1, <1>3, <1>4, <2>1, <2>2
<1>8. ASSUME NEW i \in 1 .. Len(a) PROVE (b \o z)[3 + i] = a[i]
  <2>1. 3 + i \in 1 .. Len(b) /\ b[3 + i] = a[i]
    BY <1>1, <1>3, <1>5
  <2>2. QED BY <1>4, <2>1
<1>9. <<x1, x2, x3>> \o a \o <<y>> = b \o z
  BY DEF b, z, h
<1>10. QED BY <1>3, <1>4, <1>5, <1>6, <1>7, <1>8, <1>9

\* Where the cells of a record are; only the second depends on the length.
LEMMA Layout ==
    ASSUME NEW rec \in Records, NEW n \in Nat
    PROVE  /\ ArgsTo(rec, Len(rec.logged)) \in Seq(CellSet) /\ Len(ArgsTo(rec, Len(rec.logged))) \in Nat
           /\ RecordCells(rec, n) \in Seq(CellSet) /\ Len(RecordCells(rec, n)) = Len(ArgsTo(rec, Len(rec.logged))) + 4
           /\ RecordSize(rec) = Len(ArgsTo(rec, Len(rec.logged))) + 4
           /\ RecordCells(rec, n)[1] = BLOG_BEGIN /\ RecordCells(rec, n)[2] = LenCell(n)
           /\ RecordCells(rec, n)[3] = Prefix(rec) /\ RecordCells(rec, n)[Len(ArgsTo(rec, Len(rec.logged))) + 4] = BLOG_END
           /\ \A i \in 1 .. Len(ArgsTo(rec, Len(rec.logged))) :
                RecordCells(rec, n)[3 + i] = ArgsTo(rec, Len(rec.logged))[i]
<1>1. rec.logged \in Seq(ArgSet) /\ rec.key \in DOMAIN Formats /\ rec.thread \in Threads
  BY RecordFacts
<1> DEFINE f == ArgsTo(rec, Len(rec.logged))
<1>2. f \in Seq(CellSet)
  <2>1. Len(rec.logged) \in 0 .. Len(rec.logged)
    BY <1>1
  <2>2. QED BY <2>1, ArgsToType
<1>3. \A m : RecordCells(rec, m) = <<BLOG_BEGIN, LenCell(m), Prefix(rec)>> \o f \o <<BLOG_END>>
  <2>1. DOMAIN rec.logged = 1 .. Len(rec.logged)
    BY <1>1
  <2>2. QED BY <2>1 DEF RecordCells, ArgsTo
<1>4. BLOG_BEGIN \in CellSet /\ LenCell(n) \in CellSet /\ LenCell(0) \in CellSet /\ Prefix(rec) \in CellSet /\ BLOG_END \in CellSet
  BY <1>1 DEF CellSet, LenCell, Prefix
<1> HIDE DEF f
<1>5. Len(<<BLOG_BEGIN, LenCell(0), Prefix(rec)>> \o f \o <<BLOG_END>>) = Len(f) + 4
  BY <1>2, <1>4, Framed
<1>6. LET c == <<BLOG_BEGIN, LenCell(n), Prefix(rec)>> \o f \o <<BLOG_END>>
      IN  /\ c \in Seq(CellSet) /\ Len(c) = Len(f) + 4 /\ Len(f) \in Nat
          /\ c[1] = BLOG_BEGIN /\ c[2] = LenCell(n) /\ c[3] = Prefix(rec) /\ c[Len(f) + 4] = BLOG_END
          /\ \A i \in 1 .. Len(f) : c[3 + i] = f[i]
  BY <1>2, <1>4, Framed
<1>7. RecordSize(rec) = Len(f) + 4
  BY <1>3, <1>5 DEF RecordSize
<1>8. QED BY <1>2, <1>3, <1>6, <1>7 DEF f

\* Where the cells of an argument are.
LEMMA CellsOfArg ==
    ASSUME NEW rec \in Records, NEW n \in Nat, NEW k \in 1 .. Len(rec.logged)
    PROVE  LET c == ArgCells(rec.logged[k])
               b == Len(ArgsTo(rec, k - 1))
           IN  /\ c \in Seq(CellSet) /\ Len(c) \in Nat /\ b \in Nat
               /\ Len(ArgsTo(rec, k)) = b + Len(c) /\ 3 + b + Len(c) < RecordSize(rec)
               /\ \A i \in 1 .. Len(c) : RecordCells(rec, n)[3 + b + i] = c[i]
<1> DEFINE c == ArgCells(rec.logged[k])
           a == ArgsTo(rec, k - 1)
           f == ArgsTo(rec, Len(rec.logged))
<1>1. rec.logged \in Seq(ArgSet) /\ Len(rec.logged) \in Nat /\ rec.logged[k] \in ArgSet
  <2>1. rec.logged \in Seq(ArgSet)
    BY RecordFacts
  <2>2. QED BY <2>1
<1>2. c \in Seq(CellSet) /\ Len(c) \in Nat
  <2>1. c \in Seq(CellSet)
    BY <1>1, ArgFacts
  <2> HIDE DEF c
  <2>2. QED BY <2>1
<1>3. a \in Seq(CellSet) /\ ArgsTo(rec, k) = a \o c
  BY ArgsToStep
<1>4. Len(ArgsTo(rec, k)) <= Len(f) /\ \A i \in 1 .. Len(ArgsTo(rec, k)) : f[i] = ArgsTo(rec, k)[i]
  <2>1. k \in 0 .. Len(rec.logged) /\ Len(rec.logged) \in k .. Len(rec.logged)
    BY <1>1
  <2>2. QED BY <2>1, ArgsPrefix
<1>5. /\ Len(f) \in Nat /\ RecordSize(rec) = Len(f) + 4
      /\ \A i \in 1 .. Len(f) : RecordCells(rec, n)[3 + i] = f[i]
  BY Layout
<1> HIDE DEF c, a, f
<1>6. Len(a) \in Nat /\ Len(a \o c) = Len(a) + Len(c) /\ \A i \in 1 .. Len(c) : (a \o c)[Len(a) + i] = c[i]
  BY <1>2, <1>3
<1>7. ASSUME NEW i \in 1 .. Len(c) PROVE RecordCells(rec, n)[3 + Len(a) + i] = c[i]
  <2>1. Len(a) + i \in 1 .. Len(ArgsTo(rec, k)) /\ Len(a) + i \in 1 .. Len(f) /\ 3 + (Len(a) + i) = 3 + Len(a) + i
    BY <1>2, <1>3, <1>4, <1>5, <1>6
  <2>2. f[Len(a) + i] = c[i]
    BY <1>3, <1>4, <1>6, <2>1
  <2>3. RecordCells(rec, n)[3 + (Len(a) + i)] = c[i]
    BY <1>5, <2>1, <2>2
  <2>4. QED BY <2>1, <2>3
<1>8. 3 + Len(a) + Len(c) < RecordSize(rec)
  BY <1>2, <1>3, <1>4, <1>5, <1>6
<1>9. QED BY <1>2, <1>3, <1>6, <1>7, <1>8 DEF c, a

-----------------------------------------------------------------------------
\* binlog_maybe_realloc makes room for n cells and keeps what is there.
LEMMA Roomy ==
    ASSUME NEW x \in Writers, Holds(x), NEW n \in Nat
    PROVE  LET y == binlog_maybe_realloc(x, n)
           IN  /\ y \in Writers /\ y.st = "args" /\ y.rec = x.rec /\ y.offset = x.offset /\ y.total = x.total
               /\ y.next = x.next
               /\ x.offset + n <= Len(y.buf) /\ BINLOG_STACK_SIZE <= Len(y.buf)
               /\ y.heap <=> Len(y.buf) > BINLOG_STACK_SIZE
               /\ \A i \in 1 .. x.offset : y.buf[i] = x.buf[i]
<1>1. /\ x.buf \in Seq(CellSet) /\ Len(x.buf) \in Nat /\ x.offset \in Nat /\ x.total \in Nat /\ BINLOG_STACK_SIZE \in Nat
      /\ x.st = "args"
  <2>1. x.buf \in Seq(CellSet) /\ x.offset \in Nat /\ x.total \in Nat /\ x.st = "args"
    BY DEF Writers
  <2>2. BINLOG_STACK_SIZE \in Nat
    BY BinlogAssumption
  <2>3. QED BY <2>1, <2>2
<1>2. /\ x.offset <= Len(x.buf) /\ BINLOG_STACK_SIZE <= Len(x.buf) /\ x.offset = x.total + 3
      /\ x.heap <=> Len(x.buf) > BINLOG_STACK_SIZE
  BY DEF Holds
<1>3. CASE x.offset + n <= Len(x.buf)
  <2>1. binlog_maybe_realloc(x, n) = x
    BY <1>3 DEF binlog_maybe_realloc
  <2>2. QED BY <1>1, <1>2, <1>3, <2>1
<1>4. CASE ~(x.offset + n <= Len(x.buf))
  <2> DEFINE l == AllocSize(x, n)
             f == [i \in 1 .. l - Len(x.buf) |-> JUNK]
             y == [x EXCEPT !.buf = x.buf \o f, !.heap = TRUE]
  <2>1. l \in Nat /\ l >= x.offset + n + BINLOG_STACK_SIZE /\ l - Len(x.buf) \in Nat
    <3>1. l = IF 2 * Len(x.buf) > x.offset + n + BINLOG_STACK_SIZE
              THEN 2 * Len(x.buf) ELSE x.offset + n + BINLOG_STACK_SIZE
      BY DEF AllocSize
    <3>2. \A b, o, s \in Nat :
            LET m == IF 2 * b > o + n + s THEN 2 * b ELSE o + n + s
            IN  m \in Nat /\ m >= o + n + s /\ m - b \in Nat
      OBVIOUS
    <3> HIDE DEF l
    <3>3. QED BY <1>1, <3>1, <3>2
  <2>2. binlog_maybe_realloc(x, n) = y
    BY <1>4 DEF binlog_maybe_realloc
  <2> HIDE DEF l
  <2>3. f \in Seq(CellSet) /\ Len(f) = l - Len(x.buf)
    <3>1. JUNK \in CellSet
      BY DEF CellSet
    <3>2. \A i \in 1 .. l - Len(x.buf) : JUNK \in CellSet
      BY <3>1
    <3>3. QED BY <2>1, <3>2, IsASeq
  <2> HIDE DEF f
  <2>4. x.buf \o f \in Seq(CellSet) /\ Len(x.buf \o f) = Len(x.buf) + Len(f)
    BY <1>1, <2>3, Cat
  <2>5. \A i \in 1 .. Len(x.buf) : (x.buf \o f)[i] = x.buf[i]
    BY <1>1, <2>3, Cat
  <2>6. Len(x.buf \o f) = l
    BY <1>1, <2>1, <2>3, <2>4
  <2>7. /\ y.buf = x.buf \o f /\ y.heap = TRUE /\ y.st = x.st /\ y.rec = x.rec /\ y.offset = x.offset
        /\ y.total = x.total /\ y.next = x.next /\ y \in Writers
    BY <2>4 DEF Writers
  <2> HIDE DEF y
  <2>8. l > BINLOG_STACK_SIZE /\ x.offset + n <= l
    BY <1>1, <1>2, <2>1
  <2>9. \A i \in 1 .. x.offset : i \in 1 .. Len(x.buf)
    BY <1>1, <1>2
  <2>10. \A i \in 1 .. x.offset : y.buf[i] = x.buf[i]
    BY <2>5, <2>7, <2>9
  <2>11. QED BY <1>1, <2>1, <2>2, <2>6, <2>7, <2>8, <2>10, SMTT(30)
<1>5. QED BY <1>3, <1>4

\* StoreCells stays in the buffer when there is room.
LEMMA Stored ==
    ASSUME NEW x \in Writers, NEW cells \in Seq(CellSet), x.offset + Len(cells) <= Len(x.buf)
    PROVE  LET y == StoreCells(x, cells)
           IN  /\ y \in Writers /\ y.st = "args" /\ y.rec = x.rec /\ y.offset = x.offset + Len(cells) /\ y.total = x.total
               /\ y.next = x.next /\ y.heap = x.heap /\ Len(y.buf) = Len(x.buf) /\ y.over = FALSE
               /\ (\A i \in 1 .. x.offset : y.buf[i] = x.buf[i])
               /\ (\A i \in 1 .. Len(cells) : y.buf[x.offset + i] = cells[i])
<1>1. /\ x.buf \in Seq(CellSet) /\ Len(x.buf) \in Nat /\ x.offset \in Nat /\ Len(cells) \in Nat
      /\ x.st = "args" /\ x.over = FALSE /\ DOMAIN x.buf = 1 .. Len(x.buf)
  <2>1. x.buf \in Seq(CellSet) /\ x.offset \in Nat /\ x.st = "args" /\ x.over = FALSE
    BY DEF Writers
  <2>2. QED BY <2>1
<1> DEFINE f == [i \in 1 .. Len(x.buf) |-> IF x.offset < i /\ i <= x.offset + Len(cells)
                                            THEN cells[i - x.offset] ELSE x.buf[i]]
           y == [x EXCEPT !.buf = f, !.offset = x.offset + Len(cells),
                          !.over = x.over \/ x.offset + Len(cells) > Len(x.buf)]
<1>2. StoreCells(x, cells) = y
  BY <1>1 DEF StoreCells
<1>3. f \in Seq(CellSet) /\ Len(f) = Len(x.buf)
  <2>1. ASSUME NEW i \in 1 .. Len(x.buf)
        PROVE  (IF x.offset < i /\ i <= x.offset + Len(cells) THEN cells[i - x.offset] ELSE x.buf[i]) \in CellSet
    <3>1. x.buf[i] \in CellSet
      BY <1>1
    <3>2. ASSUME x.offset < i, i <= x.offset + Len(cells) PROVE cells[i - x.offset] \in CellSet
      <4>1. i - x.offset \in 1 .. Len(cells)
        BY <1>1, <3>2
      <4>2. QED BY <4>1
    <3>3. QED BY <3>1, <3>2
  <2>2. QED BY <1>1, <2>1, IsASeq
<1>4. ASSUME NEW i \in 1 .. x.offset PROVE f[i] = x.buf[i]
  <2>1. i \in 1 .. Len(x.buf) /\ ~(x.offset < i)
    BY <1>1
  <2>2. QED BY <2>1
<1>5. ASSUME NEW i \in 1 .. Len(cells) PROVE f[x.offset + i] = cells[i]
  <2>1. /\ x.offset + i \in 1 .. Len(x.buf) /\ x.offset < x.offset + i /\ x.offset + i <= x.offset + Len(cells)
        /\ x.offset + i - x.offset = i
    BY <1>1
  <2>2. \A j \in 1 .. Len(x.buf) :
          f[j] = IF x.offset < j /\ j <= x.offset + Len(cells) THEN cells[j - x.offset] ELSE x.buf[j]
    OBVIOUS
  <2> HIDE DEF f
  <2> DEFINE j == x.offset + i
  <2>3. j \in 1 .. Len(x.buf) /\ x.offset < j /\ j <= x.offset + Len(cells) /\ j - x.offset = i
    BY <1>1
  <2> HIDE DEF j
  <2>4. f[j] = cells[i]
    BY <2>2, <2>3
  <2>5. QED BY <2>4 DEF j
<1> HIDE DEF f
<1>6. ~(x.offset + Len(cells) > Len(x.buf)) /\ x.offset + Len(cells) \in Nat
  BY <1>1
<1>7. (x.over \/ x.offset + Len(cells) > Len(x.buf)) = FALSE
  BY <1>1, <1>6
<1>8. /\ y.buf = f /\ y.heap = x.heap /\ y.st = x.st /\ y.rec = x.rec /\ y.offset = x.offset + Len(cells)
      /\ y.total = x.total /\ y.next = x.next /\ y.over = FALSE /\ y \in Writers
  BY <1>3, <1>6, <1>7 DEF Writers
<1> HIDE DEF y
<1>9. QED BY <1>1, <1>2, <1>3, <1>4, <1>5, <1>8

\* A record in a buffer as far as printed, with room made: one more argument.
LEMMA PrintArgHolds ==
    ASSUME NEW x \in Writers, Holds(x), x.next <= Len(x.rec.logged)
    PROVE  LET cells == ArgCells(x.rec.logged[x.next])
               y == StoreCells(binlog_maybe_realloc(x, Len(cells)), cells)
               z == [y EXCEPT !.next = y.next + 1, !.total = y.total + Len(cells)]
           IN  z \in Writers /\ Holds(z)
<1> DEFINE cells == ArgCells(x.rec.logged[x.next])
           r == binlog_maybe_realloc(x, Len(cells))
           y == StoreCells(r, cells)
           z == [y EXCEPT !.next = y.next + 1, !.total = y.total + Len(cells)]
           rec == x.rec
<1>1. /\ rec \in Records /\ x.offset \in Nat /\ x.next \in Nat /\ x.total \in Nat
      /\ x.next \in 1 .. Len(rec.logged) + 1 /\ x.total = Len(ArgsTo(rec, x.next - 1)) /\ x.offset = x.total + 3
      /\ \A i \in 1 .. x.offset : x.buf[i] = RecordCells(rec, 0)[i]
  BY DEF Writers, Holds
<1> HIDE DEF rec
<1>2. rec.logged \in Seq(ArgSet) /\ Len(rec.logged) \in Nat
  <2>1. rec.logged \in Seq(ArgSet)
    BY <1>1, RecordFacts
  <2>2. QED BY <2>1
<1>3. x.next \in 1 .. Len(rec.logged) /\ cells = ArgCells(rec.logged[x.next])
  <2>1. x.next <= Len(rec.logged) /\ cells = ArgCells(rec.logged[x.next])
    BY DEF rec
  <2>2. QED BY <1>1, <1>2, <2>1
<1> HIDE DEF cells
<1>4. /\ cells \in Seq(CellSet) /\ Len(cells) \in Nat
      /\ Len(ArgsTo(rec, x.next)) = Len(ArgsTo(rec, x.next - 1)) + Len(cells)
      /\ \A i \in 1 .. Len(cells) : RecordCells(rec, 0)[3 + Len(ArgsTo(rec, x.next - 1)) + i] = cells[i]
  <2>1. LET c == ArgCells(rec.logged[x.next])
            b == Len(ArgsTo(rec, x.next - 1))
        IN  /\ c \in Seq(CellSet) /\ Len(c) \in Nat /\ b \in Nat
            /\ Len(ArgsTo(rec, x.next)) = b + Len(c)
            /\ \A i \in 1 .. Len(c) : RecordCells(rec, 0)[3 + b + i] = c[i]
    <3>1. 0 \in Nat
      OBVIOUS
    <3>2. QED BY <1>1, <1>3, <3>1, CellsOfArg, ZenonT(30)
  <2>2. QED BY <1>3, <2>1
<1>5. /\ r \in Writers /\ r.rec = x.rec /\ r.offset = x.offset /\ r.total = x.total /\ r.next = x.next
      /\ x.offset + Len(cells) <= Len(r.buf) /\ BINLOG_STACK_SIZE <= Len(r.buf)
      /\ r.heap <=> Len(r.buf) > BINLOG_STACK_SIZE
      /\ \A i \in 1 .. x.offset : r.buf[i] = x.buf[i]
  BY <1>4, Roomy
<1> HIDE DEF r
<1>6. /\ y \in Writers /\ y.rec = r.rec /\ y.offset = r.offset + Len(cells) /\ y.total = r.total
      /\ y.next = r.next /\ y.heap = r.heap /\ Len(y.buf) = Len(r.buf)
      /\ (\A i \in 1 .. r.offset : y.buf[i] = r.buf[i])
      /\ (\A i \in 1 .. Len(cells) : y.buf[r.offset + i] = cells[i])
  BY <1>4, <1>5, Stored, ZenonT(30)
<1> HIDE DEF y
<1>7. /\ z.rec = y.rec /\ z.offset = y.offset /\ z.total = y.total + Len(cells) /\ z.next = y.next + 1
      /\ z.heap = y.heap /\ z.buf = y.buf
  BY <1>6 DEF Writers
<1>8. z \in Writers
  <2>1. y.next + 1 \in Nat /\ y.total + Len(cells) \in Nat
    BY <1>1, <1>4, <1>5, <1>6
  <2>2. QED BY <1>6, <2>1 DEF Writers
<1> HIDE DEF z
<1>9. /\ z.rec = rec /\ z.next = x.next + 1 /\ z.total = x.total + Len(cells) /\ z.offset = x.offset + Len(cells)
      /\ z.buf = y.buf /\ z.heap = y.heap /\ Len(z.buf) = Len(r.buf) /\ z.heap = r.heap
  BY <1>1, <1>4, <1>5, <1>6, <1>7 DEF rec
<1>10. z.next - 1 = x.next /\ z.next \in 1 .. Len(z.rec.logged) + 1
  <2>1. z.rec.logged = rec.logged
    BY <1>9
  <2>2. x.next + 1 \in 1 .. Len(rec.logged) + 1 /\ x.next + 1 - 1 = x.next
    BY <1>2, <1>3
  <2>3. z.next - 1 = x.next /\ z.next \in 1 .. Len(rec.logged) + 1
    <3>1. z.next = x.next + 1 /\ x.next \in Nat
      BY <1>1, <1>9
    <3>2. QED BY <2>2, <3>1
  <2>4. QED BY <2>1, <2>3
<1>11. z.total = Len(ArgsTo(z.rec, z.next - 1)) /\ z.offset = z.total + 3
  BY <1>1, <1>4, <1>9, <1>10
<1>12. ASSUME NEW i \in 1 .. z.offset PROVE z.buf[i] = RecordCells(z.rec, 0)[i]
  <2>1. i \in Nat /\ i > 0 /\ i <= x.offset + Len(cells)
    BY <1>1, <1>4, <1>9
  <2>2. CASE i <= x.offset
    <3>1. i \in 1 .. x.offset /\ r.offset = x.offset
      BY <1>1, <1>5, <2>1, <2>2
    <3>2. y.buf[i] = r.buf[i] /\ r.buf[i] = x.buf[i] /\ x.buf[i] = RecordCells(rec, 0)[i]
      BY <1>1, <1>5, <1>6, <3>1
    <3>3. QED BY <1>9, <3>2
  <2>3. CASE ~(i <= x.offset)
    <3>1. i - x.offset \in 1 .. Len(cells) /\ r.offset + (i - x.offset) = i
          /\ 3 + Len(ArgsTo(rec, x.next - 1)) + (i - x.offset) = i
      BY <1>1, <1>4, <1>5, <2>1, <2>3
    <3>2. y.buf[r.offset + (i - x.offset)] = cells[i - x.offset]
      BY <1>6, <3>1
    <3>3. RecordCells(rec, 0)[3 + Len(ArgsTo(rec, x.next - 1)) + (i - x.offset)] = cells[i - x.offset]
      BY <1>4, <3>1
    <3>4. QED BY <1>9, <3>1, <3>2, <3>3
  <2>4. QED BY <2>2, <2>3
<1>13. z.offset <= Len(z.buf) /\ BINLOG_STACK_SIZE <= Len(z.buf)
  BY <1>5, <1>9
<1>14. z.heap <=> Len(z.buf) > BINLOG_STACK_SIZE
  BY <1>5, <1>9
<1>15. Holds(z)
  BY <1>10, <1>11, <1>12, <1>13, <1>14 DEF Holds
<1>16. QED BY <1>8, <1>15 DEF z, y, r, cells

\* print_begin puts the head of the record into the buffer on the stack.
LEMMA PrintBeginHolds ==
    ASSUME NEW rec \in Records
    PROVE  LET x == [Idle EXCEPT !.st = "args", !.rec = rec, !.next = 1,
                                 !.buf = [i \in 1 .. BINLOG_STACK_SIZE |-> JUNK]]
               y == StoreCells(x, <<BLOG_BEGIN, LenCell(0), Prefix(rec)>>)
           IN  y \in Writers /\ Holds(y)
<1> DEFINE f == [i \in 1 .. BINLOG_STACK_SIZE |-> JUNK]
           x == [Idle EXCEPT !.st = "args", !.rec = rec, !.next = 1, !.buf = f]
           h == <<BLOG_BEGIN, LenCell(0), Prefix(rec)>>
           y == StoreCells(x, h)
<1>1. rec.logged \in Seq(ArgSet) /\ Len(rec.logged) \in Nat /\ rec.key \in DOMAIN Formats /\ rec.thread \in Threads
  <2>1. rec.logged \in Seq(ArgSet) /\ rec.key \in DOMAIN Formats /\ rec.thread \in Threads
    BY RecordFacts
  <2>2. QED BY <2>1
<1>2. BINLOG_STACK_SIZE \in Nat /\ 3 <= BINLOG_STACK_SIZE
  BY BinlogAssumption DEF PrefixLen
<1>3. f \in Seq(CellSet) /\ Len(f) = BINLOG_STACK_SIZE
  <2>1. \A i \in 1 .. BINLOG_STACK_SIZE : JUNK \in CellSet
    BY DEF CellSet
  <2>2. QED BY <1>2, <2>1, IsASeq
<1> HIDE DEF f
<1>4. /\ x.st = "args" /\ x.rec = rec /\ x.next = 1 /\ x.buf = f /\ x.offset = 0 /\ x.total = 0
      /\ x.heap = FALSE /\ x.over = FALSE
  BY DEF Idle
<1>5. x \in Writers
  BY <1>3 DEF Idle, Writers
<1>6. h \in Seq(CellSet) /\ Len(h) = 3 /\ h[1] = BLOG_BEGIN /\ h[2] = LenCell(0) /\ h[3] = Prefix(rec)
  <2>1. BLOG_BEGIN \in CellSet /\ LenCell(0) \in CellSet /\ Prefix(rec) \in CellSet
    BY <1>1 DEF CellSet, LenCell, Prefix
  <2>2. QED BY <2>1
<1> HIDE DEF x, h
<1>7. x.offset + Len(h) <= Len(x.buf)
  BY <1>2, <1>3, <1>4, <1>6
<1>8. /\ y \in Writers /\ y.rec = x.rec /\ y.offset = x.offset + Len(h) /\ y.total = x.total
      /\ y.next = x.next /\ y.heap = x.heap /\ Len(y.buf) = Len(x.buf)
      /\ (\A i \in 1 .. Len(h) : y.buf[x.offset + i] = h[i])
  BY <1>5, <1>6, <1>7, Stored
<1> HIDE DEF y
<1>9. y.rec = rec /\ y.offset = 3 /\ y.total = 0 /\ y.next = 1 /\ y.heap = FALSE /\ Len(y.buf) = BINLOG_STACK_SIZE
  BY <1>3, <1>4, <1>6, <1>8
<1>10. ASSUME NEW i \in 1 .. 3 PROVE y.buf[i] = RecordCells(rec, 0)[i]
  <2>1. i \in 1 .. Len(h) /\ x.offset + i = i
    BY <1>4, <1>6
  <2>2. y.buf[i] = h[i]
    BY <1>8, <2>1
  <2>3. /\ RecordCells(rec, 0)[1] = BLOG_BEGIN /\ RecordCells(rec, 0)[2] = LenCell(0)
        /\ RecordCells(rec, 0)[3] = Prefix(rec)
    <3>1. 0 \in Nat
      OBVIOUS
    <3>2. QED BY <3>1, Layout
  <2>4. i = 1 \/ i = 2 \/ i = 3
    OBVIOUS
  <2>5. QED BY <1>6, <2>2, <2>3, <2>4
<1>11. Len(ArgsTo(rec, 0)) = 0
  BY ArgsToNone
<1>12. y.next \in 1 .. Len(y.rec.logged) + 1 /\ y.next - 1 = 0
  <2>1. y.rec.logged = rec.logged /\ y.next = 1
    BY <1>9
  <2>2. 1 \in 1 .. Len(rec.logged) + 1
    BY <1>1
  <2>3. QED BY <2>1, <2>2
<1>13. y.total = Len(ArgsTo(y.rec, y.next - 1)) /\ y.offset = y.total + 3
  BY <1>9, <1>11, <1>12
<1>14. y.offset <= Len(y.buf) /\ BINLOG_STACK_SIZE <= Len(y.buf) /\ ~(Len(y.buf) > BINLOG_STACK_SIZE)
  BY <1>2, <1>9
<1>15. \A i \in 1 .. y.offset : y.buf[i] = RecordCells(y.rec, 0)[i]
  BY <1>9, <1>10
<1>16. Holds(y)
  BY <1>9, <1>12, <1>13, <1>14, <1>15 DEF Holds
<1>17. QED BY <1>8, <1>16 DEF y, x, h, f

\* What print_end writes is the record, with its length.
LEMMA FinishedHolds ==
    ASSUME NEW x \in Writers, Holds(x), x.next > Len(x.rec.logged)
    PROVE  LET y == Finished(x)
           IN  /\ y \in Writers /\ y.rec = x.rec /\ y.over = FALSE /\ y.offset = RecordSize(x.rec)
               /\ y.offset \in Nat /\ y.offset <= Len(y.buf) /\ y.buf \in Seq(CellSet) /\ y.offset >= 4
               /\ (\A i \in 1 .. y.offset : y.buf[i] = RecordCells(x.rec, y.offset)[i])
               /\ SubSeq(y.buf, 1, y.offset) = RecordCells(x.rec, y.offset)
<1> DEFINE rec == x.rec
           n == x.total + PrefixLen + 2
           r == binlog_maybe_realloc(x, 1)
           b == [r.buf EXCEPT ![2] = LenCell(n)]
           q == [r EXCEPT !.buf = b]
           e == <<BLOG_END>>
           y == StoreCells(q, e)
<1>1. Finished(x) = y
  BY DEF Finished
<1>2. /\ rec \in Records /\ x.offset \in Nat /\ x.next \in Nat /\ x.total \in Nat
      /\ x.next \in 1 .. Len(rec.logged) + 1 /\ x.total = Len(ArgsTo(rec, x.next - 1)) /\ x.offset = x.total + 3
      /\ \A i \in 1 .. x.offset : x.buf[i] = RecordCells(rec, 0)[i]
  BY DEF Writers, Holds
<1>3. n = x.total + 4 /\ n \in Nat /\ n = x.offset + 1
  BY <1>2 DEF PrefixLen
<1> HIDE DEF rec, n
<1>4. x.next - 1 = Len(rec.logged)
  <2>1. rec.logged \in Seq(ArgSet)
    BY <1>2, RecordFacts
  <2>2. x.next > Len(rec.logged) /\ Len(rec.logged) \in Nat
    BY <2>1 DEF rec
  <2>3. x.next \in Nat /\ x.next <= Len(rec.logged) + 1
    BY <1>2, <2>2
  <2> HIDE DEF rec
  <2>4. \A c, d \in Nat : c > d /\ c <= d + 1 => c - 1 = d
    OBVIOUS
  <2>5. QED BY <2>2, <2>3, <2>4
<1>5. /\ r \in Writers /\ r.rec = x.rec /\ r.offset = x.offset /\ r.total = x.total /\ r.next = x.next
      /\ x.offset + 1 <= Len(r.buf) /\ \A i \in 1 .. x.offset : r.buf[i] = x.buf[i]
  <2>1. 1 \in Nat
    OBVIOUS
  <2>2. QED BY <2>1, Roomy
<1> HIDE DEF r
<1>6. r.buf \in Seq(CellSet) /\ Len(r.buf) \in Nat
  <2>1. r.buf \in Seq(CellSet)
    BY <1>5 DEF Writers
  <2>2. QED BY <2>1
<1>7. b \in Seq(CellSet) /\ Len(b) = Len(r.buf) /\ b[2] = LenCell(n) /\ \A i \in 1 .. Len(r.buf) : i # 2 => b[i] = r.buf[i]
  <2>1. LenCell(n) \in CellSet
    BY <1>3 DEF CellSet, LenCell
  <2>2. 2 \in 1 .. Len(r.buf)
    BY <1>2, <1>5, <1>6
  <2>3. b \in Seq(CellSet) /\ Len(b) = Len(r.buf)
    BY <1>6, <2>1, <2>2
  <2>4. QED BY <1>6, <2>2, <2>3
<1> HIDE DEF b
<1>8. q \in Writers /\ q.rec = r.rec /\ q.offset = r.offset /\ q.buf = b
  BY <1>5, <1>7 DEF Writers
<1>9. e \in Seq(CellSet) /\ Len(e) = 1 /\ e[1] = BLOG_END
  BY DEF CellSet
<1> HIDE DEF q, e
<1>10. q.offset + Len(e) <= Len(q.buf)
  BY <1>5, <1>7, <1>8, <1>9
<1>11. /\ y \in Writers /\ y.rec = q.rec /\ y.offset = q.offset + Len(e) /\ Len(y.buf) = Len(q.buf) /\ y.over = FALSE
       /\ (\A i \in 1 .. q.offset : y.buf[i] = q.buf[i])
       /\ (\A i \in 1 .. Len(e) : y.buf[q.offset + i] = e[i])
  BY <1>8, <1>9, <1>10, Stored
<1> HIDE DEF y
<1>12. y.rec = rec /\ y.offset = n /\ n <= Len(y.buf) /\ y.buf \in Seq(CellSet)
  <2>1. y.rec = rec
    BY <1>5, <1>8, <1>11 DEF rec
  <2>2. y.offset = x.offset + 1 /\ x.offset + 1 <= Len(y.buf)
    BY <1>5, <1>7, <1>8, <1>9, <1>11
  <2>3. y.buf \in Seq(CellSet)
    BY <1>11 DEF Writers
  <2>4. QED BY <1>3, <2>1, <2>2, <2>3
<1>13. /\ RecordSize(rec) = n /\ RecordCells(rec, n) \in Seq(CellSet) /\ Len(RecordCells(rec, n)) = n
       /\ RecordCells(rec, n)[n] = BLOG_END /\ RecordCells(rec, n)[2] = LenCell(n)
  BY <1>2, <1>3, <1>4, Layout
<1>14. \A i \in 1 .. x.offset : i # 2 => RecordCells(rec, n)[i] = RecordCells(rec, 0)[i]
  <2> DEFINE a == ArgsTo(rec, Len(rec.logged))
  <2>1. /\ RecordCells(rec, n)[1] = BLOG_BEGIN /\ RecordCells(rec, n)[3] = Prefix(rec)
        /\ \A i \in 1 .. Len(a) : RecordCells(rec, n)[3 + i] = a[i]
    BY <1>2, <1>3, Layout
  <2>2. /\ RecordCells(rec, 0)[1] = BLOG_BEGIN /\ RecordCells(rec, 0)[3] = Prefix(rec)
        /\ \A i \in 1 .. Len(a) : RecordCells(rec, 0)[3 + i] = a[i]
    <3>1. 0 \in Nat
      OBVIOUS
    <3>2. QED BY <1>2, <3>1, Layout
  <2>3. Len(a) = x.total
    BY <1>2, <1>4
  <2> HIDE DEF a
  <2>4. SUFFICES ASSUME NEW i \in 1 .. x.offset, i # 2 PROVE RecordCells(rec, n)[i] = RecordCells(rec, 0)[i]
    OBVIOUS
  <2>5. i = 1 \/ i = 3 \/ (i - 3 \in 1 .. Len(a) /\ 3 + (i - 3) = i)
    BY <1>2, <2>3, <2>4
  <2>6. CASE i - 3 \in 1 .. Len(a) /\ 3 + (i - 3) = i
    <3>1. RecordCells(rec, n)[3 + (i - 3)] = a[i - 3] /\ RecordCells(rec, 0)[3 + (i - 3)] = a[i - 3]
      BY <2>1, <2>2, <2>6
    <3>2. QED BY <2>6, <3>1
  <2>7. QED BY <2>1, <2>2, <2>5, <2>6
<1>15. ASSUME NEW i \in 1 .. n PROVE y.buf[i] = RecordCells(rec, n)[i]
  <2>1. CASE i = n
    <3>1. 1 \in 1 .. Len(e) /\ q.offset + 1 = n
      BY <1>3, <1>5, <1>8, <1>9
    <3>2. y.buf[q.offset + 1] = e[1]
      BY <1>11, <3>1
    <3>3. QED BY <1>9, <1>13, <2>1, <3>1, <3>2
  <2>2. CASE i # n
    <3>1. i \in 1 .. x.offset /\ i \in 1 .. q.offset /\ i \in 1 .. Len(r.buf)
      BY <1>2, <1>3, <1>5, <1>6, <1>8, <2>2
    <3>2. y.buf[i] = b[i]
      BY <1>8, <1>11, <3>1
    <3>3. i # 2 => b[i] = r.buf[i] /\ r.buf[i] = x.buf[i] /\ x.buf[i] = RecordCells(rec, 0)[i]
      BY <1>2, <1>5, <1>7, <3>1
    <3>4. QED BY <1>7, <1>13, <1>14, <3>1, <3>2, <3>3
  <2>3. QED BY <2>1, <2>2
<1>16. SubSeq(y.buf, 1, n) = RecordCells(rec, n)
  <2> DEFINE u == SubSeq(y.buf, 1, n)   v == RecordCells(rec, n)
  <2>1. u \in Seq(CellSet) /\ Len(u) = n /\ \A i \in 1 .. n : u[i] = y.buf[i]
    BY <1>3, <1>12
  <2>2. v \in Seq(CellSet) /\ Len(v) = n
    BY <1>13
  <2>3. \A i \in 1 .. n : u[i] = v[i]
    BY <1>15, <2>1
  <2> HIDE DEF u, v
  <2>4. u = v
    BY <2>1, <2>2, <2>3, SeqEqual
  <2>5. QED BY <2>4 DEF u, v
<1>17. n >= 4
  BY <1>2, <1>3
<1>18. QED BY <1>1, <1>3, <1>11, <1>12, <1>13, <1>15, <1>16, <1>17 DEF rec

-----------------------------------------------------------------------------
\* A thread that has finished well is as it was before it began.
LEMMA IdleAgain == ASSUME NEW v, v = FALSE PROVE [Idle EXCEPT !.over = v] = Idle
<1> DEFINE b == [logged |-> <<>>]
           c == <<>>
           r == [st |-> "idle", rec |-> b, buf |-> c, offset |-> 0, total |-> 0, next |-> 0, heap |-> v, over |-> v]
<1>1. Idle = r
  BY Zenon DEF Idle
<1> HIDE DEF b, c
<1>2. [r EXCEPT !.over = v] = r
  OBVIOUS
<1> HIDE DEF r
<1>3. QED BY <1>1, <1>2, Zenon

\* A thread that prints has a buffer that holds its record.
LEMMA Printing ==
    ASSUME WriterInv, NEW t \in Threads
    PROVE  /\ w[t].st = "args" => w[t] \in Writers /\ Holds(w[t])
           /\ w[t].over = FALSE
<1>1. w[t] \in {Idle} \cup Writers /\ (w[t].st = "args" => Holds(w[t]))
  BY DEF WriterInv
<1>2. Idle.st = "idle" /\ Idle.over = FALSE
  BY DEF Idle
<1>3. CASE w[t] = Idle
  BY <1>2, <1>3
<1>4. CASE w[t] \in Writers
  BY <1>1, <1>4 DEF Writers
<1>5. QED BY <1>1, <1>3, <1>4

\* Changing one writer.
LEMMA WriterSet ==
    ASSUME WriterInv, begun' \in 0 .. MaxRecords, NEW t \in Threads, NEW x,
           x = Idle \/ (x \in Writers /\ Holds(x)), w' = [w EXCEPT ![t] = x]
    PROVE  WriterInv'
<1>1. w' \in [Threads -> {Idle} \cup Writers]
  BY DEF WriterInv
<1>2. Idle.st = "idle"
  BY DEF Idle
<1>3. ASSUME NEW s \in Threads, w'[s].st = "args" PROVE Holds(w'[s])
  <2>1. CASE s = t
    <3>1. w'[s] = x
      BY <2>1 DEF WriterInv
    <3>2. QED BY <1>2, <1>3, <3>1
  <2>2. CASE s # t
    <3>1. w'[s] = w[s]
      BY <2>2 DEF WriterInv
    <3>2. QED BY <1>3, <3>1 DEF WriterInv
  <2>3. QED BY <2>1, <2>2
<1>4. (\A s \in Threads : w[s].st = "args" => Holds(w[s]))'
  BY <1>3
<1>5. QED BY <1>1, <1>4 DEF WriterInv

\* Every step keeps what is said of the writers.
LEMMA WriterStep == ASSUME WriterInv, [Next]_vars PROVE WriterInv'
<1>1. begun \in 0 .. MaxRecords /\ MaxRecords \in Nat /\ begun \in Nat
  BY BinlogAssumption DEF WriterInv
<1>2. ASSUME UNCHANGED <<w, begun>> PROVE WriterInv'
  BY <1>2 DEF WriterInv
<1>3. CASE Crash
  <2>1. w' = [t \in Threads |-> Idle] /\ begun' = begun
    BY <1>3 DEF Crash
  <2>2. Idle.st = "idle"
    BY DEF Idle
  <2>3. w' \in [Threads -> {Idle} \cup Writers]
    BY <2>1
  <2>4. \A t \in Threads : w'[t].st # "args"
    BY <2>1, <2>2
  <2>5. QED BY <1>1, <2>1, <2>3, <2>4 DEF WriterInv
<1>4. ASSUME NEW t \in Threads, NEW key \in DOMAIN Formats, NEW str \in Strs, BinlogPrint(t, key, str) PROVE WriterInv'
  <2> DEFINE rec == Record(key, t, Args(key, begun', str))
             x == [Idle EXCEPT !.st = "args", !.rec = rec, !.next = 1, !.buf = [i \in 1 .. BINLOG_STACK_SIZE |-> JUNK]]
             y == StoreCells(x, <<BLOG_BEGIN, LenCell(0), Prefix(rec)>>)
  <2>1. begun' = begun + 1 /\ begun < MaxRecords /\ w' = [w EXCEPT ![t] = y]
    BY <1>4 DEF BinlogPrint
  <2>2. begun' \in 0 .. MaxRecords
    BY <1>1, <2>1
  <2>3. rec \in Records
    BY <2>2 DEF Records
  <2> HIDE DEF rec
  <2>4. y \in Writers /\ Holds(y)
    BY <2>3, PrintBeginHolds
  <2> HIDE DEF y
  <2>5. QED BY <2>1, <2>2, <2>4, WriterSet
<1>5. ASSUME NEW t \in Threads, PrintArg(t) PROVE WriterInv'
  <2> DEFINE x == w[t]
             cells == ArgCells(x.rec.logged[x.next])
             y == StoreCells(binlog_maybe_realloc(x, Len(cells)), cells)
             z == [y EXCEPT !.next = y.next + 1, !.total = y.total + Len(cells)]
  <2>1. x.st = "args" /\ x.next <= Len(x.rec.logged) /\ w' = [w EXCEPT ![t] = z] /\ begun' = begun
    BY <1>5 DEF PrintArg
  <2>2. x \in Writers /\ Holds(x)
    BY <2>1, Printing
  <2> HIDE DEF x
  <2>3. z \in Writers /\ Holds(z)
    BY <2>1, <2>2, PrintArgHolds
  <2> HIDE DEF z
  <2>4. QED BY <1>1, <2>1, <2>3, WriterSet
<1>6. ASSUME NEW t \in Threads, NEW n, PrintEnd(t, n) PROVE WriterInv'
  <2> DEFINE x == w[t]
             y == Finished(x)
             z == [Idle EXCEPT !.over = y.over]
  <2>1. x.st = "args" /\ x.next > Len(x.rec.logged) /\ w' = [w EXCEPT ![t] = z] /\ begun' = begun
    BY <1>6 DEF PrintEnd
  <2>2. x \in Writers /\ Holds(x)
    BY <2>1, Printing
  <2> HIDE DEF x
  <2>3. y.over = FALSE
    BY <2>1, <2>2, FinishedHolds
  <2> HIDE DEF y
  <2>4. z = Idle
    BY <2>3, IdleAgain
  <2> HIDE DEF z
  <2>5. QED BY <1>1, <2>1, <2>4, WriterSet
<1>7. CASE UNCHANGED vars
  BY <1>2, <1>7 DEF vars
<1>8. CASE BinlogCreate
  BY <1>2, <1>8 DEF BinlogCreate
<1>9. CASE BinlogDestroy
  BY <1>2, <1>9 DEF BinlogDestroy
<1>10. CASE ParserCreate
  BY <1>2, <1>10 DEF ParserCreate
<1>11. CASE ParserFirstRead
  BY <1>2, <1>11 DEF ParserFirstRead
<1>12. CASE ParseLength
  BY <1>2, <1>12 DEF ParseLength
<1>13. CASE ParseRecord
  BY <1>2, <1>13 DEF ParseRecord
<1>14. QED BY <1>3, <1>4, <1>5, <1>6, <1>7, <1>8, <1>9, <1>10, <1>11, <1>12, <1>13 DEF Next

\* What the invariant says of the buffers is what BufferHoldsRecord says.
LEMMA WriterInvImplies == ASSUME WriterInv PROVE BufferHoldsRecord
<1>1. SUFFICES ASSUME NEW t \in Threads
      PROVE  /\ ~w[t].over
             /\ w[t].st = "args" =>
                  /\ SubSeq(w[t].buf, 1, w[t].offset) = SubSeq(RecordCells(w[t].rec, 0), 1, w[t].offset)
                  /\ w[t].heap <=> Len(w[t].buf) > BINLOG_STACK_SIZE
                  /\ w[t].next > Len(w[t].rec.logged) =>
                       SubSeq(Finished(w[t]).buf, 1, Finished(w[t]).offset) = RecordCells(w[t].rec, Finished(w[t]).offset)
  BY DEF BufferHoldsRecord
<1>2. ~w[t].over
  BY Printing
<1>3. ASSUME w[t].st = "args"
      PROVE  /\ SubSeq(w[t].buf, 1, w[t].offset) = SubSeq(RecordCells(w[t].rec, 0), 1, w[t].offset)
             /\ w[t].heap <=> Len(w[t].buf) > BINLOG_STACK_SIZE
             /\ w[t].next > Len(w[t].rec.logged) =>
                  SubSeq(Finished(w[t]).buf, 1, Finished(w[t]).offset) = RecordCells(w[t].rec, Finished(w[t]).offset)
  <2> DEFINE x == w[t]
             rec == x.rec
             a == x.buf
             c == RecordCells(rec, 0)
             n == x.offset
  <2>1. x \in Writers /\ Holds(x)
    BY <1>3, Printing
  <2> HIDE DEF x
  <2>2. /\ rec \in Records /\ a \in Seq(CellSet) /\ n \in Nat /\ n <= Len(a) /\ x.total \in Nat
        /\ x.next \in 1 .. Len(rec.logged) + 1 /\ x.total = Len(ArgsTo(rec, x.next - 1)) /\ n = x.total + 3
        /\ \A i \in 1 .. n : a[i] = c[i]
    BY <2>1 DEF Writers, Holds
  <2>3. c \in Seq(CellSet) /\ n <= Len(c)
    <3>1. 0 \in Nat
      OBVIOUS
    <3>2. c \in Seq(CellSet) /\ Len(c) = Len(ArgsTo(rec, Len(rec.logged))) + 4 /\ Len(ArgsTo(rec, Len(rec.logged))) \in Nat
      BY <2>2, <3>1, Layout
    <3>3. Len(rec.logged) \in Nat
      <4>1. rec.logged \in Seq(ArgSet)
        BY <2>2, RecordFacts
      <4>2. QED BY <4>1
    <3>4. x.next - 1 \in 0 .. Len(rec.logged) /\ Len(rec.logged) \in x.next - 1 .. Len(rec.logged)
      BY <2>2, <3>3
    <3>5. Len(ArgsTo(rec, x.next - 1)) <= Len(ArgsTo(rec, Len(rec.logged)))
      BY <2>2, <3>4, ArgsPrefix
    <3>6. QED BY <2>2, <3>2, <3>5
  <2> HIDE DEF a, c, n
  <2>4. SubSeq(a, 1, n) = SubSeq(c, 1, n)
    <3>1. SubSeq(a, 1, n) \in Seq(CellSet) /\ Len(SubSeq(a, 1, n)) = n /\ \A i \in 1 .. n : SubSeq(a, 1, n)[i] = a[i]
      BY <2>2
    <3>2. SubSeq(c, 1, n) \in Seq(CellSet) /\ Len(SubSeq(c, 1, n)) = n /\ \A i \in 1 .. n : SubSeq(c, 1, n)[i] = c[i]
      BY <2>2, <2>3
    <3> DEFINE u == SubSeq(a, 1, n)   v == SubSeq(c, 1, n)
    <3>3. u \in Seq(CellSet) /\ v \in Seq(CellSet) /\ Len(u) = Len(v) /\ \A i \in 1 .. Len(u) : u[i] = v[i]
      BY <2>2, <3>1, <3>2
    <3> HIDE DEF u, v
    <3>4. u = v
      BY <3>3, SeqEqual
    <3>5. QED BY <3>4 DEF u, v
  <2>5. x.heap <=> Len(x.buf) > BINLOG_STACK_SIZE
    BY <2>1 DEF Holds
  <2>6. x.next > Len(x.rec.logged) => SubSeq(Finished(x).buf, 1, Finished(x).offset) = RecordCells(x.rec, Finished(x).offset)
    BY <2>1, FinishedHolds
  <2>7. QED BY <2>4, <2>5, <2>6 DEF x, a, c, n
<1>4. QED BY <1>2, <1>3

-----------------------------------------------------------------------------
\* ParsedInOrder and FailuresExplained of a parser q
OutOf(q) == \A i \in DOMAIN q.out : (\A j \in Torn : i < j) => i <= Len(log) /\ q.out[i] = Shown(log[i].rec)

FailOf(q) ==
    Torn = {} /\ ~Large /\ ~Misread =>
        /\ q.st = "abort" => (file = <<>> \/ Len(file) > q.file_size) /\ Len(q.out) >= q.before
        /\ q.st = "ub" => /\ Len(q.buf) = ParserSize
                          /\ \/ q.offset + 1 = ParserSize
                             \/ 2 * q.offset < ParserSize /\ q.offset + q.len > ParserSize
        /\ q.st = "segv" => \E i \in DOMAIN log : log[i].rec.key \notin Json

Fine(q, start) == q \in Parsers /\ ViewOf(q, start) /\ StateOf(q) /\ AlignOf(q, start) /\ FitOf(q) /\ OutOf(q) /\ FailOf(q)

\* The invariant, with the parser's part in one place.
LEMMA InvIs == ASSUME NEW start PROVE Inv(start) <=> WriterInv /\ FileInv(start) /\ Fine(p, start)
BY DEF Inv, ParserInv, Fine, ParsedInOrder, OutOf, FailuresExplained, FailOf

\* Records begin where the ones before them end: later ones begin later.
LEMMA StartMono ==
    ASSUME NEW start, FileInv(start), NEW i \in 1 .. Len(log) + 1
    PROVE  \A j \in i + 1 .. Len(log) + 1 : start[i] < start[j]
<1> DEFINE T == {j \in i + 1 .. Len(log) + 1 : ~(start[i] < start[j])}
<1>1. Len(log) \in Nat /\ i \in Nat /\ start \in [1 .. Len(log) + 1 -> Nat]
  <2>1. log \in Seq([rec : Records, size : Nat, torn : BOOLEAN]) /\ start \in [1 .. Len(log) + 1 -> Nat]
    BY DEF FileInv
  <2>2. QED BY <2>1
<1>2. \A j \in 1 .. Len(log) : start[j] < start[j + 1]
  BY DEF FileInv
<1>3. CASE T # {}
  <2>1. T \in SUBSET Nat
    BY <1>1
  <2>2. PICK j \in T : \A m \in T : j <= m
    BY <1>3, <2>1, MinNat
  <2>3. j \in i + 1 .. Len(log) + 1 /\ ~(start[i] < start[j]) /\ j \in Nat
    BY <2>1, <2>2
  <2>4. j - 1 \in 1 .. Len(log) /\ j - 1 + 1 = j /\ ~(j <= j - 1) /\ (j - 1 = i \/ j - 1 \in i + 1 .. Len(log) + 1)
        /\ j - 1 \in 1 .. Len(log) + 1 /\ j \in 1 .. Len(log) + 1
    BY <1>1, <2>3
  <2>5. start[j - 1] < start[j]
    BY <1>2, <2>4
  <2>6. start[j - 1] \in Nat /\ start[j] \in Nat /\ start[i] \in Nat
    BY <1>1, <2>4
  <2>7. j - 1 = i \/ start[i] < start[j - 1]
    BY <2>2, <2>4
  <2>8. QED BY <2>3, <2>5, <2>6, <2>7
<1>4. QED BY <1>3

\* A parser set to r is as fine as r.
LEMMA ParserSet ==
    ASSUME NEW start, FileInv(start), NEW r, Fine(r, start), p' = r, UNCHANGED <<file, log>>
    PROVE  FileInv(start)' /\ Fine(p, start)'
<1>1. FileInv(start)'
  BY DEF FileInv
<1>2. (p \in Parsers)'
  BY DEF Fine, Parsers
<1>3. ViewOf(p, start)'
  BY DEF Fine, ViewOf
<1>4. StateOf(p)'
  BY DEF Fine, StateOf, AtEnd
<1>5. AlignOf(p, start)'
  BY DEF Fine, AlignOf, Clean
<1>6. FitOf(p)'
  BY DEF Fine, FitOf, Torn, Large
<1>7. OutOf(p)'
  BY DEF Fine, OutOf, Torn
<1>8. FailOf(p)'
  BY DEF Fine, FailOf, Torn, Large, Misread
<1>9. QED BY <1>1, <1>2, <1>3, <1>4, <1>5, <1>6, <1>7, <1>8 DEF Fine

\* The log grows by a record, wholly or partly in the file: what the parser
\* has seen stays, and what excuses it stays an excuse.
LEMMA Grown ==
    ASSUME NEW start, FileInv(start), Fine(p, start), p' = p, NEW s, FileInv(s)',
           NEW e, log' = Append(log, e),
           file' \in Seq(CellSet), Len(file) < Len(file'), \A i \in 1 .. Len(file) : file'[i] = file[i],
           \A i \in 1 .. Len(log) + 1 : s[i] = start[i]
    PROVE  Fine(p, s)'
<1> DEFINE R == [rec : Records, size : Nat, torn : BOOLEAN]
<1>1. /\ log \in Seq(R) /\ Len(log) \in Nat /\ file \in Seq(CellSet) /\ Len(file) \in Nat /\ Len(file') \in Nat
      /\ start \in [1 .. Len(log) + 1 -> Nat] /\ start[Len(log) + 1] = Len(file)
  <2>1. /\ log \in Seq(R) /\ file \in Seq(CellSet)
        /\ start \in [1 .. Len(log) + 1 -> Nat] /\ start[Len(log) + 1] = Len(file)
    BY DEF FileInv
  <2>2. QED BY <2>1
<1> HIDE DEF R
<1>2. Len(log') = Len(log) + 1 /\ \A i \in 1 .. Len(log) : log'[i] = log[i]
  BY <1>1
<1>3. DOMAIN log = 1 .. Len(log) /\ DOMAIN log' = 1 .. Len(log) + 1
  BY <1>1
<1>4. \A i \in DOMAIN log : i \in DOMAIN log' /\ log'[i] = log[i]
  BY <1>1, <1>2, <1>3
<1>5. \A i \in Torn : i \in Torn'
  BY <1>4 DEF Torn
<1>6. (Large => Large') /\ (Misread => Misread')
  <2>1. ASSUME Large PROVE Large'
    <3>1. PICK i \in DOMAIN log : log[i].size > ParserSize
      BY <2>1 DEF Large
    <3>2. i \in DOMAIN log' /\ log'[i].size > ParserSize
      BY <1>4, <3>1
    <3>3. QED BY <3>2 DEF Large
  <2>2. ASSUME Misread PROVE Misread'
    <3>1. PICK i \in DOMAIN log :
            LET r == log[i].rec IN \E k \in DOMAIN r.args : k > Len(r.logged) \/ r.logged[k].type # r.args[k].type
      BY <2>2 DEF Misread
    <3>2. /\ i \in DOMAIN log'
          /\ LET r == log'[i].rec IN \E k \in DOMAIN r.args : k > Len(r.logged) \/ r.logged[k].type # r.args[k].type
      BY <1>4, <3>1
    <3>3. QED BY <3>2 DEF Misread
  <2>3. QED BY <2>1, <2>2
<1>7. /\ p \in Parsers /\ ViewOf(p, start) /\ StateOf(p) /\ AlignOf(p, start) /\ FitOf(p) /\ OutOf(p) /\ FailOf(p)
      /\ p.buf \in Seq(CellSet) /\ Len(p.buf) \in Nat /\ p.file_offset \in Nat /\ p.before \in Nat
  <2>1. p \in Parsers /\ p.buf \in Seq(CellSet) /\ p.file_offset \in Nat /\ p.before \in Nat
    BY DEF Fine, Parsers
  <2>2. QED BY <2>1 DEF Fine
<1>8. ViewOf(p, s)'
  <2>1. /\ Len(p.buf) <= ParserSize /\ Len(p.buf) <= p.file_offset /\ p.file_offset <= Len(file)
        /\ \A j \in 1 .. Len(p.buf) : p.buf[j] = file[p.file_offset - Len(p.buf) + j]
        /\ Len(p.buf) = ParserSize \/ \E j \in 1 .. Len(log) + 1 : p.file_offset = start[j]
        /\ p.before <= Len(log) /\ p.file_size = start[p.before + 1]
    BY <1>7 DEF ViewOf
  <2>2. p.file_offset <= Len(file')
    BY <1>1, <1>7, <2>1
  <2>3. ASSUME NEW j \in 1 .. Len(p.buf) PROVE p.buf[j] = file'[p.file_offset - Len(p.buf) + j]
    <3>1. p.file_offset - Len(p.buf) + j \in 1 .. Len(file)
      <4>1. \A a, b, c \in Nat : a <= b /\ b <= c => \A i \in 1 .. a : b - a + i \in 1 .. c
        OBVIOUS
      <4>2. Len(p.buf) <= p.file_offset /\ p.file_offset <= Len(file)
        BY <2>1
      <4>3. QED BY <1>1, <1>7, <4>1, <4>2
    <3>2. QED BY <2>1, <3>1
  <2>4. Len(p.buf) = ParserSize \/ \E j \in 1 .. Len(log') + 1 : p.file_offset = s[j]
    <3>1. CASE \E j \in 1 .. Len(log) + 1 : p.file_offset = start[j]
      <4>1. PICK j \in 1 .. Len(log) + 1 : p.file_offset = start[j]
        BY <3>1
      <4>2. j \in 1 .. Len(log') + 1 /\ s[j] = start[j]
        BY <1>1, <1>2
      <4>3. QED BY <4>1, <4>2
    <3>2. QED BY <2>1, <3>1
  <2>5. p.before <= Len(log') /\ p.file_size = s[p.before + 1]
    <3>1. p.before + 1 \in 1 .. Len(log) + 1 /\ p.before <= Len(log) + 1
      BY <1>1, <1>7, <2>1
    <3>2. QED BY <1>2, <2>1, <3>1
  <2>6. QED BY <2>1, <2>2, <2>3, <2>4, <2>5 DEF ViewOf
<1>9. StateOf(p)'
  BY <1>7 DEF StateOf, AtEnd
<1>10. p.out \in Seq([prefix : CellSet, vals : Seq(Seq(CellSet))]) /\ Len(p.out) \in Nat /\ DOMAIN p.out = 1 .. Len(p.out)
  <2>1. p.out \in Seq([prefix : CellSet, vals : Seq(Seq(CellSet))])
    BY <1>7 DEF Parsers
  <2>2. QED BY <2>1
<1>11. AlignOf(p, s)'
  <2>1. SUFFICES ASSUME Clean(Len(p.out))' PROVE (p.file_offset - Len(p.buf) + p.offset = s[Len(p.out) + 1])'
    BY DEF AlignOf
  <2>2. Len(p.out) <= Len(log) + 1 /\ \A j \in 1 .. Len(p.out) : ~log'[j].torn
    BY <1>2, <2>1 DEF Clean
  <2>3. CASE Len(p.out) <= Len(log)
    <3>1. \A j \in 1 .. Len(p.out) : j \in 1 .. Len(log)
      BY <1>1, <1>10, <2>3
    <3>2. Clean(Len(p.out))
      BY <1>2, <2>2, <2>3, <3>1 DEF Clean
    <3>3. p.file_offset - Len(p.buf) + p.offset = start[Len(p.out) + 1]
      BY <1>7, <3>2 DEF AlignOf
    <3>4. Len(p.out) + 1 \in 1 .. Len(log) + 1
      BY <1>1, <1>10, <2>3
    <3>5. QED BY <3>3, <3>4
  <2>4. CASE ~(Len(p.out) <= Len(log))
    <3> DEFINE k == Len(p.out)
    <3>1. k \in DOMAIN p.out /\ k \in Nat
      BY <1>1, <1>10, <2>4
    <3>2. ~(\A j \in Torn : k < j)
      BY <1>7, <2>4, <3>1 DEF OutOf
    <3>3. PICK j \in Torn : ~(k < j)
      BY <3>2
    <3>4. j \in 1 .. Len(log) /\ log[j].torn
      BY <1>3 DEF Torn
    <3>5. j \in 1 .. k /\ log'[j] = log[j]
      BY <1>1, <1>2, <3>1, <3>3, <3>4
    <3>6. QED BY <2>2, <3>4, <3>5
  <2>5. QED BY <2>3, <2>4
<1>12. FitOf(p)'
  BY <1>5, <1>6, <1>7 DEF FitOf
<1>13. OutOf(p)'
  <2>1. SUFFICES ASSUME NEW i \in DOMAIN p.out, \A j \in Torn' : i < j
        PROVE  i <= Len(log') /\ p.out[i] = Shown(log'[i].rec)
    BY DEF OutOf, Shown, Prefix
  <2>2. \A j \in Torn : i < j
    BY <1>5, <2>1
  <2>3. i <= Len(log) /\ p.out[i] = Shown(log[i].rec)
    BY <1>7, <2>2 DEF OutOf
  <2>4. i \in 1 .. Len(log) /\ i <= Len(log')
    BY <1>1, <1>2, <1>10, <2>3
  <2>5. QED BY <1>2, <2>3, <2>4
<1>14. FailOf(p)'
  <2>1. SUFFICES ASSUME Torn' = {}, ~Large', ~Misread'
        PROVE  /\ p.st = "abort" => (file' = <<>> \/ Len(file') > p.file_size) /\ Len(p.out) >= p.before
               /\ p.st = "ub" => /\ Len(p.buf) = ParserSize
                                 /\ \/ p.offset + 1 = ParserSize
                                    \/ 2 * p.offset < ParserSize /\ p.offset + p.len > ParserSize
               /\ p.st = "segv" => \E i \in DOMAIN log' : log'[i].rec.key \notin Json
    BY DEF FailOf
  <2>2. /\ p.st = "abort" => (file = <<>> \/ Len(file) > p.file_size) /\ Len(p.out) >= p.before
        /\ p.st = "ub" => /\ Len(p.buf) = ParserSize
                          /\ \/ p.offset + 1 = ParserSize
                             \/ 2 * p.offset < ParserSize /\ p.offset + p.len > ParserSize
        /\ p.st = "segv" => \E i \in DOMAIN log : log[i].rec.key \notin Json
    BY <1>5, <1>6, <1>7, <2>1 DEF FailOf
  <2>3. Len(file') > p.file_size
    <3>1. p.before + 1 \in 1 .. Len(log) + 1 /\ p.file_size = start[p.before + 1]
      BY <1>1, <1>7 DEF ViewOf
    <3>2. start[p.before + 1] \in Nat
      BY <1>1, <3>1
    <3>3. p.before + 1 = Len(log) + 1 \/ Len(log) + 1 \in p.before + 1 + 1 .. Len(log) + 1
      BY <1>1, <1>7, <3>1
    <3>4. start[p.before + 1] <= Len(file)
      <4>1. CASE p.before + 1 = Len(log) + 1
        BY <1>1, <4>1
      <4>2. CASE Len(log) + 1 \in p.before + 1 + 1 .. Len(log) + 1
        <5>1. start[p.before + 1] < start[Len(log) + 1]
          BY <3>1, <4>2, StartMono
        <5>2. QED BY <1>1, <3>2, <5>1
      <4>3. QED BY <3>3, <4>1, <4>2
    <3>5. QED BY <1>1, <3>1, <3>2, <3>4
  <2>4. p.st = "segv" => \E i \in DOMAIN log' : log'[i].rec.key \notin Json
    <3>1. ASSUME p.st = "segv" PROVE \E i \in DOMAIN log' : log'[i].rec.key \notin Json
      <4>1. PICK i \in DOMAIN log : log[i].rec.key \notin Json
        BY <2>2, <3>1
      <4>2. QED BY <1>4, <4>1
    <3>2. QED BY <3>1
  <2>5. QED BY <2>2, <2>3, <2>4
<1>15. (p \in Parsers)'
  BY <1>7 DEF Parsers
<1>16. QED BY <1>8, <1>9, <1>11, <1>12, <1>13, <1>14, <1>15 DEF Fine

\* What FileInv says of the types.
LEMMA FileTypes ==
    ASSUME NEW start, FileInv(start)
    PROVE  /\ log \in Seq([rec : Records, size : Nat, torn : BOOLEAN]) /\ Len(log) \in Nat /\ DOMAIN log = 1 .. Len(log)
           /\ file \in Seq(CellSet) /\ Len(file) \in Nat /\ start \in [1 .. Len(log) + 1 -> Nat]
           /\ \A i \in 1 .. Len(log) : log[i].rec \in Records /\ log[i].size \in Nat /\ log[i].torn \in BOOLEAN
           /\ \A i \in 1 .. Len(log) + 1 : start[i] \in Nat /\ start[i] <= Len(file)
<1> DEFINE R == [rec : Records, size : Nat, torn : BOOLEAN]
<1>1. /\ log \in Seq(R) /\ file \in Seq(CellSet)
      /\ start \in [1 .. Len(log) + 1 -> Nat] /\ start[Len(log) + 1] = Len(file)
  BY DEF FileInv
<1>2. \A r \in R : r.rec \in Records /\ r.size \in Nat /\ r.torn \in BOOLEAN
  OBVIOUS
<1> HIDE DEF R
<1>3. /\ Len(log) \in Nat /\ DOMAIN log = 1 .. Len(log) /\ Len(file) \in Nat
      /\ \A i \in 1 .. Len(log) : log[i] \in R
  BY <1>1
<1>4. ASSUME NEW i \in 1 .. Len(log) + 1 PROVE start[i] \in Nat /\ start[i] <= Len(file)
  <2>1. start[i] \in Nat
    BY <1>1
  <2>2. CASE i = Len(log) + 1
    BY <1>1, <1>3, <2>1, <2>2
  <2>3. CASE i # Len(log) + 1
    <3>1. Len(log) + 1 \in i + 1 .. Len(log) + 1
      BY <1>3, <2>3
    <3>2. start[i] < start[Len(log) + 1]
      BY <3>1, StartMono
    <3>3. QED BY <1>1, <1>3, <2>1, <3>2
  <2>4. QED BY <2>2, <2>3
<1>5. QED BY <1>1, <1>2, <1>3, <1>4 DEF R

\* print_end appends some of a record to the file.
LEMMA Appended ==
    ASSUME WriterInv, NEW start, FileInv(start), Fine(p, start), NEW t \in Threads, NEW n \in Nat, PrintEnd(t, n)
    PROVE  \E s \in [1 .. Len(log') + 1 -> Nat] : FileInv(s)' /\ Fine(p, s)'
<1> DEFINE x == w[t]
           y == Finished(x)
           rec == x.rec
           m == y.offset
           c == SubSeq(y.buf, 1, n)
           e == [rec |-> rec, size |-> m, torn |-> n < m]
           R == [rec : Records, size : Nat, torn : BOOLEAN]
<1>1. /\ x.st = "args" /\ x.next > Len(x.rec.logged) /\ n <= m /\ p' = p /\ file' = file \o c
      /\ log' = IF n = 0 THEN log ELSE Append(log, [rec |-> y.rec, size |-> y.offset, torn |-> n < y.offset])
  BY DEF PrintEnd
<1>2. x \in Writers /\ Holds(x)
  BY <1>1, Printing
<1> HIDE DEF x
<1>3. /\ y.rec = rec /\ m = RecordSize(rec) /\ m \in Nat /\ m <= Len(y.buf) /\ y.buf \in Seq(CellSet)
      /\ \A i \in 1 .. m : y.buf[i] = RecordCells(rec, m)[i]
  BY <1>1, <1>2, FinishedHolds
<1>4. rec \in Records
  BY <1>2 DEF Writers
<1> HIDE DEF y, m, rec
<1>5. c \in Seq(CellSet) /\ Len(c) = n /\ \A i \in 1 .. n : c[i] = y.buf[i]
  BY <1>1, <1>3
<1> HIDE DEF c
<1>6. /\ log \in Seq(R) /\ Len(log) \in Nat
      /\ file \in Seq(CellSet) /\ Len(file) \in Nat /\ start \in [1 .. Len(log) + 1 -> Nat]
      /\ \A i \in 1 .. Len(log) + 1 : start[i] \in Nat /\ start[i] <= Len(file)
  BY FileTypes
<1>7. CASE n = 0
  <2>1. file' = file /\ log' = log
    <3>1. c = <<>>
      BY <1>5, <1>7
    <3>2. file \o <<>> = file
      BY <1>6
    <3>3. QED BY <1>1, <1>7, <3>1, <3>2
  <2>2. FileInv(start)' /\ Fine(p, start)'
    BY <1>1, <2>1, ParserSet
  <2>3. start \in [1 .. Len(log') + 1 -> Nat]
    BY <1>6, <2>1
  <2>4. QED BY <2>2, <2>3
<1>8. CASE n # 0
  <2> DEFINE s == [i \in 1 .. Len(log) + 2 |-> IF i <= Len(log) + 1 THEN start[i] ELSE Len(file) + n]
  <2>1. log' = Append(log, e) /\ e \in R
    <3>1. log' = Append(log, e)
      BY <1>1, <1>3, <1>8 DEF m
    <3>2. (n < m) \in BOOLEAN
      OBVIOUS
    <3>3. QED BY <1>3, <1>4, <3>1, <3>2
  <2>2. e.rec = rec /\ e.size = m /\ (~e.torn => ~(n < m))
    OBVIOUS
  <2> HIDE DEF e, R
  <2>3. log' \in Seq(R) /\ Len(log') = Len(log) + 1 /\ log'[Len(log) + 1] = e /\ \A i \in 1 .. Len(log) : log'[i] = log[i]
    BY <1>6, <2>1
  <2>4. file' \in Seq(CellSet) /\ Len(file') = Len(file) + n
    BY <1>1, <1>5, <1>6, Cat
  <2>5. \A i \in 1 .. Len(file) : file'[i] = file[i]
    BY <1>1, <1>5, <1>6, Cat
  <2>6. \A i \in 1 .. n : file'[Len(file) + i] = c[i]
    BY <1>1, <1>5, <1>6, Cat
  <2>7. /\ \A i \in 1 .. Len(log) + 1 : s[i] = start[i]
        /\ s[Len(log) + 2] = Len(file) + n /\ s \in [1 .. Len(log) + 2 -> Nat]
    <3>1. \A i \in 1 .. Len(log) + 1 : i \in 1 .. Len(log) + 2 /\ i <= Len(log) + 1
      BY <1>6
    <3>2. Len(log) + 2 \in 1 .. Len(log) + 2 /\ ~(Len(log) + 2 <= Len(log) + 1)
      BY <1>6
    <3>3. \A i \in 1 .. Len(log) + 2 : i <= Len(log) + 1 => i \in 1 .. Len(log) + 1
      BY <1>6
    <3>4. Len(file) + n \in Nat
      BY <1>6
    <3>5. QED BY <1>6, <3>1, <3>2, <3>3, <3>4
  <2>8. PICK z : z = s
    OBVIOUS
  <2> HIDE DEF s
  <2>9. z \in [1 .. Len(log') + 1 -> Nat]
    <3>1. Len(log') + 1 = Len(log) + 2
      BY <1>6, <2>3
    <3>2. QED BY <2>7, <2>8, <3>1
  <2>10. z[1] = 0 /\ z[Len(log') + 1] = Len(file')
    <3>1. Len(log') + 1 = Len(log) + 2 /\ 1 \in 1 .. Len(log) + 1
      BY <1>6, <2>3
    <3>2. start[1] = 0
      BY DEF FileInv
    <3>3. QED BY <2>4, <2>7, <2>8, <3>1, <3>2
  <2>11. ASSUME NEW i \in 1 .. Len(log')
         PROVE  /\ z[i] < z[i + 1] /\ log'[i].size = RecordSize(log'[i].rec)
                /\ ~log'[i].torn =>
                     /\ z[i + 1] = z[i] + log'[i].size
                     /\ \A j \in 1 .. log'[i].size : file'[z[i] + j] = RecordCells(log'[i].rec, log'[i].size)[j]
    <3>1. CASE i \in 1 .. Len(log)
      <4>1. i \in 1 .. Len(log) + 1 /\ i + 1 \in 1 .. Len(log) + 1
        BY <1>6, <3>1
      <4>2. z[i] = start[i] /\ z[i + 1] = start[i + 1] /\ log'[i] = log[i]
        BY <2>3, <2>7, <2>8, <3>1, <4>1
      <4>3. /\ start[i] < start[i + 1] /\ log[i].size = RecordSize(log[i].rec)
            /\ ~log[i].torn =>
                 /\ start[i + 1] = start[i] + log[i].size
                 /\ \A j \in 1 .. log[i].size : file[start[i] + j] = RecordCells(log[i].rec, log[i].size)[j]
        BY <3>1 DEF FileInv
      <4>4. ASSUME ~log[i].torn, NEW j \in 1 .. log[i].size PROVE file'[start[i] + j] = file[start[i] + j]
        <5>1. log[i].size \in Nat
          BY <3>1, FileTypes
        <5>2. start[i] \in Nat /\ start[i + 1] \in Nat /\ start[i + 1] <= Len(file) /\ start[i + 1] = start[i] + log[i].size
          BY <1>6, <4>1, <4>3, <4>4
        <5>3. start[i] + j \in 1 .. Len(file)
          <6>1. \A a, b, l, u \in Nat : u <= l /\ u = a + b => \A k \in 1 .. b : a + k \in 1 .. l
            OBVIOUS
          <6>2. QED BY <1>6, <5>1, <5>2, <6>1
        <5>4. QED BY <2>5, <5>3
      <4>5. QED BY <4>2, <4>3, <4>4
    <3>2. CASE i \notin 1 .. Len(log)
      <4>1. i = Len(log) + 1 /\ i + 1 = Len(log) + 2 /\ i \in 1 .. Len(log) + 1
        BY <1>6, <2>3, <3>2
      <4>2. z[i] = Len(file) /\ z[i + 1] = Len(file) + n /\ log'[i] = e
        <5>1. start[Len(log) + 1] = Len(file)
          BY DEF FileInv
        <5>2. QED BY <2>3, <2>7, <2>8, <4>1, <5>1
      <4>3. z[i] < z[i + 1]
        BY <1>6, <1>8, <4>2
      <4>4. log'[i].size = m /\ log'[i].rec = rec
        BY <2>2, <4>2
      <4>5. ASSUME ~log'[i].torn
            PROVE  /\ z[i + 1] = z[i] + m
                   /\ \A j \in 1 .. m : file'[z[i] + j] = RecordCells(rec, m)[j]
        <5>1. ~e.torn
          BY <4>2, <4>5
        <5>2. n = m
          BY <1>1, <1>3, <2>2, <5>1 DEF m
        <5>3. \A j \in 1 .. n : file'[Len(file) + j] = RecordCells(rec, m)[j]
          BY <1>3, <1>5, <2>6, <5>2
        <5>4. QED BY <4>2, <5>2, <5>3
      <4>6. QED BY <1>3, <4>3, <4>4, <4>5
    <3>3. QED BY <3>1, <3>2
  <2>12. FileInv(z)'
    BY <2>3, <2>4, <2>9, <2>10, <2>11 DEF FileInv, R
  <2>13. Len(file) < Len(file')
    BY <1>6, <1>8, <2>4
  <2>14. \A i \in 1 .. Len(log) + 1 : z[i] = start[i]
    BY <2>7, <2>8
  <2>15. Fine(p, z)'
    BY <1>1, <2>1, <2>4, <2>5, <2>12, <2>13, <2>14, Grown
  <2>16. QED BY <2>9, <2>12, <2>15
<1>9. QED BY <1>7, <1>8

-----------------------------------------------------------------------------
\* A stretch of a sequence.
LEMMA Cut ==
    ASSUME NEW S, NEW s \in Seq(S), NEW m \in Nat, NEW n \in Nat, m <= n, n <= Len(s)
    PROVE  /\ SubSeq(s, m + 1, n) \in Seq(S) /\ Len(SubSeq(s, m + 1, n)) = n - m
           /\ \A i \in 1 .. n - m : SubSeq(s, m + 1, n)[i] = s[m + i]
<1>1. m + 1 \in 1 .. Len(s) + 1 /\ n \in (m + 1) - 1 .. Len(s)
  OBVIOUS
<1>2. /\ SubSeq(s, m + 1, n) \in Seq(S) /\ Len(SubSeq(s, m + 1, n)) = n - (m + 1) + 1
      /\ \A i \in 1 .. n - (m + 1) + 1 : SubSeq(s, m + 1, n)[i] = s[(m + 1) + i - 1]
  BY <1>1, SubSeqProperties
<1>3. n - (m + 1) + 1 = n - m /\ \A i \in 1 .. n - m : (m + 1) + i - 1 = m + i
  OBVIOUS
<1>4. QED BY <1>2, <1>3

\* What is known of the numbers of a parser.
LEMMA ParserTypes ==
    ASSUME NEW q \in Parsers
    PROVE  /\ q.buf \in Seq(CellSet) /\ Len(q.buf) \in Nat /\ q.offset \in Nat /\ q.file_offset \in Nat /\ q.len \in Nat
           /\ q.before \in Nat /\ q.file_size \in Nat /\ ParserSize \in Nat /\ ParserSize > 0
           /\ q.out \in Seq([prefix : CellSet, vals : Seq(Seq(CellSet))])
           /\ Len(q.out) \in Nat /\ DOMAIN q.out = 1 .. Len(q.out)
<1>1. /\ q.buf \in Seq(CellSet) /\ q.offset \in Nat /\ q.file_offset \in Nat /\ q.len \in Nat
      /\ q.before \in Nat /\ q.file_size \in Nat
      /\ q.out \in Seq([prefix : CellSet, vals : Seq(Seq(CellSet))])
  BY DEF Parsers
<1>2. ParserSize \in Nat /\ ParserSize > 0
  <2>1. ParserSize \in Nat \ {0}
    BY BinlogAssumption
  <2>2. QED BY <2>1
<1>3. QED BY <1>1, <1>2

\* A read that finds nothing is at the end of the file or has no room; one
\* that finds something keeps the place of the parser in the file, and fills
\* the buffer or comes to the end.
LEMMA ReadView ==
    ASSUME NEW start, FileInv(start), NEW q \in Parsers, ViewOf(q, start), q.offset <= Len(q.buf)
    PROVE  /\ Read(q) = <<>> => q.file_offset = Len(file) \/ Len(q.buf) - q.offset = ParserSize
           /\ Read(q) # <<>> =>
                LET r == binlog_parse_read(q)
                IN  /\ r \in Parsers /\ ViewOf(r, start) /\ r.offset = 0 /\ r.st = q.st /\ r.len = q.len
                    /\ r.file_size = q.file_size /\ r.out = q.out /\ r.before = q.before
                    /\ r.file_offset - Len(r.buf) = q.file_offset - Len(q.buf) + q.offset
                    /\ Len(r.buf) > Len(q.buf) - q.offset
                    /\ Len(r.buf) = ParserSize \/ r.file_offset = Len(file)
<1> DEFINE L == Len(q.buf)
           o == q.offset
           F == q.file_offset
           N == Len(file)
           room == ParserSize - (L - o)
           h == IF F + ParserSize - (L - o) < N THEN F + ParserSize - (L - o) ELSE N
           R == SubSeq(file, F + 1, h)
           s == SubSeq(q.buf, o + 1, L)
           b == s \o R
           r == binlog_parse_read(q)
<1>1. /\ q.buf \in Seq(CellSet) /\ L \in Nat /\ o \in Nat /\ F \in Nat /\ ParserSize \in Nat /\ q.len \in Nat
      /\ q.before \in Nat /\ q.file_size \in Nat
  BY ParserTypes
<1>2. file \in Seq(CellSet) /\ N \in Nat /\ start[Len(log) + 1] = N /\ Len(log) \in Nat
  BY FileTypes DEF FileInv
<1>3. /\ L <= ParserSize /\ L <= F /\ F <= N /\ o <= L
      /\ \A j \in 1 .. L : q.buf[j] = file[F - L + j]
      /\ q.before <= Len(log) /\ q.file_size = start[q.before + 1]
  BY DEF ViewOf
<1>4. Read(q) = R
  BY DEF Read
<1> HIDE DEF L, o, F, N
<1>5. room \in Nat /\ h \in Nat /\ F <= h /\ h <= N /\ h - F <= room /\ h - F \in Nat /\ (h - F = room \/ h = N)
  <2>1. \A a, c, f, n, z \in Nat : a <= c /\ c <= z /\ f <= n =>
          LET k == IF f + z - (c - a) < n THEN f + z - (c - a) ELSE n
          IN  /\ z - (c - a) \in Nat /\ k \in Nat /\ f <= k /\ k <= n /\ k - f <= z - (c - a) /\ k - f \in Nat
              /\ (k - f = z - (c - a) \/ k = n)
    OBVIOUS
  <2>2. o <= L /\ L <= ParserSize /\ F <= N
    BY <1>3
  <2>3. QED BY <1>1, <1>2, <2>1, <2>2
<1> HIDE DEF h
<1>6. R \in Seq(CellSet) /\ Len(R) = h - F /\ \A i \in 1 .. h - F : R[i] = file[F + i]
  <2>1. F \in Nat /\ h \in Nat /\ F <= h /\ h <= Len(file) /\ file \in Seq(CellSet)
    BY <1>1, <1>2, <1>5 DEF N
  <2>2. QED BY <2>1, Cut
<1>7. s \in Seq(CellSet) /\ Len(s) = L - o /\ \A i \in 1 .. L - o : s[i] = q.buf[o + i]
  <2>1. o \in Nat /\ L \in Nat /\ o <= L /\ L <= Len(q.buf) /\ q.buf \in Seq(CellSet)
    BY <1>1, <1>3 DEF L
  <2>2. QED BY <2>1, Cut
<1> HIDE DEF R, s
<1>8. ASSUME R = <<>> PROVE F = N \/ L - o = ParserSize
  <2>1. Len(R) = 0
    BY <1>8
  <2>2. QED BY <1>1, <1>2, <1>3, <1>5, <1>6, <2>1
<1>9. ASSUME R # <<>>
      PROVE  /\ r \in Parsers /\ ViewOf(r, start) /\ r.offset = 0 /\ r.st = q.st /\ r.len = q.len
             /\ r.file_size = q.file_size /\ r.out = q.out /\ r.before = q.before
             /\ r.file_offset - Len(r.buf) = F - L + o
             /\ Len(r.buf) > L - o
             /\ Len(r.buf) = ParserSize \/ r.file_offset = N
  <2>1. Len(R) # 0
    BY <1>6, <1>9
  <2>2. r = [q EXCEPT !.buf = b, !.offset = 0, !.file_offset = q.file_offset + Len(R)]
    BY <1>4, <1>9 DEF binlog_parse_read, s, o, L
  <2>3. b \in Seq(CellSet) /\ Len(b) = Len(s) + Len(R)
    BY <1>6, <1>7, Cat
  <2>4. \A i \in 1 .. Len(s) : b[i] = s[i]
    BY <1>6, <1>7, Cat
  <2>5. \A i \in 1 .. Len(R) : b[Len(s) + i] = R[i]
    BY <1>6, <1>7, Cat
  <2> HIDE DEF b, r
  <2>6. q.file_offset + Len(R) = h /\ Len(b) = L - o + (h - F)
    <3>1. q.file_offset + (h - F) = h
      BY <1>1, <1>5 DEF F
    <3>2. QED BY <1>6, <1>7, <2>3, <3>1
  <2>7. /\ r \in Parsers /\ r.offset = 0 /\ r.st = q.st /\ r.len = q.len /\ r.file_size = q.file_size
        /\ r.out = q.out /\ r.before = q.before /\ r.buf = b /\ r.file_offset = h
    BY <1>5, <2>2, <2>3, <2>6 DEF Parsers
  <2>8. Len(b) <= ParserSize /\ Len(b) <= h /\ Len(b) \in Nat /\ Len(b) > L - o /\ h - Len(b) = F - L + o
    BY <1>1, <1>3, <1>5, <1>6, <2>1, <2>6
  <2>9. Len(b) = ParserSize \/ h = N
    BY <1>1, <1>3, <1>5, <2>6
  <2>10. ASSUME NEW j \in 1 .. Len(b) PROVE b[j] = file[h - Len(b) + j]
    <3>1. CASE j <= L - o
      <4>1. j \in 1 .. Len(s) /\ j \in 1 .. L - o /\ o + j \in 1 .. L
        BY <1>1, <1>3, <1>7, <2>8, <3>1
      <4>2. b[j] = q.buf[o + j]
        BY <1>7, <2>4, <4>1
      <4>3. q.buf[o + j] = file[F - L + (o + j)]
        BY <1>3, <4>1
      <4>4. F - L + (o + j) = h - Len(b) + j
        BY <1>1, <1>5, <2>8
      <4>5. QED BY <4>2, <4>3, <4>4
    <3>2. CASE ~(j <= L - o)
      <4> DEFINE i == j - (L - o)
      <4>1. i \in 1 .. Len(R) /\ i \in 1 .. h - F /\ Len(s) + i = j /\ F + i = h - Len(b) + j
        BY <1>1, <1>3, <1>5, <1>6, <1>7, <2>6, <2>8, <3>2
      <4> HIDE DEF i
      <4>2. b[Len(s) + i] = R[i] /\ R[i] = file[F + i]
        BY <1>6, <2>5, <4>1
      <4>3. QED BY <4>1, <4>2
    <3>3. QED BY <3>1, <3>2
  <2>11. h = N => \E j \in 1 .. Len(log) + 1 : h = start[j]
    <3>1. Len(log) + 1 \in 1 .. Len(log) + 1
      BY <1>2
    <3>2. QED BY <1>2, <3>1
  <2>12. ViewOf(r, start)
    <3>1. h <= Len(file)
      BY <1>5 DEF N
    <3>2. QED BY <1>3, <2>7, <2>8, <2>9, <2>10, <2>11, <3>1 DEF ViewOf
  <2>13. QED BY <2>7, <2>8, <2>9, <2>12
<1>10. QED BY <1>4, <1>8, <1>9 DEF F, L, o, N, r

-----------------------------------------------------------------------------
\* strlen finds the first NUL, or the end of the buffer.
LEMMA StrlenFacts ==
    ASSUME NEW buf \in Seq(CellSet), NEW i \in Nat
    PROVE  \/ /\ strlen(buf, i) = Len(buf) + 1 - i
              /\ \A j \in i .. Len(buf) : buf[j] # NUL
           \/ /\ strlen(buf, i) \in Nat /\ i + strlen(buf, i) \in i .. Len(buf) /\ buf[i + strlen(buf, i)] = NUL
              /\ \A j \in i .. Len(buf) : buf[j] = NUL => i + strlen(buf, i) <= j
<1> DEFINE ns == {j \in i .. Len(buf) : buf[j] = NUL}
<1>1. Len(buf) \in Nat /\ ns \in SUBSET Nat
  OBVIOUS
<1>2. CASE ns = {}
  <2>1. strlen(buf, i) = Len(buf) + 1 - i
    BY <1>2 DEF strlen
  <2>2. QED BY <1>2, <2>1
<1>3. CASE ns # {}
  <2> DEFINE m == CHOOSE j \in ns : \A k \in ns : j <= k
  <2>1. strlen(buf, i) = m - i
    BY <1>3 DEF strlen
  <2>2. m \in ns /\ \A k \in ns : m <= k
    <3>1. \E j \in ns : \A k \in ns : j <= k
      BY <1>1, <1>3, MinNat
    <3>2. QED BY <3>1
  <2> HIDE DEF m
  <2>3. m \in i .. Len(buf) /\ buf[m] = NUL
    BY <2>2
  <2>4. m - i \in Nat /\ i + (m - i) = m
    BY <1>1, <2>3
  <2>5. QED BY <2>1, <2>2, <2>3, <2>4
<1>4. QED BY <1>2, <1>3

VSet == [off : Nat, vals : Seq(Seq(CellSet)), end : {"ok", "abort", "ub"}]

\* What a get_ function returns is of the right kind, whatever it is given.
LEMMA GetArgType ==
    ASSUME NEW buf \in Seq(CellSet), NEW base \in Nat, NEW len \in Nat, NEW v \in VSet, NEW type
    PROVE  GetArg(buf, base, len, v, type) \in VSet
<1> DEFINE m == base + v.off
           i == base + v.off + 1
           n == IF type = STRING_TYPE THEN strlen(buf, i + 1) + 1 ELSE Width(type)
           c == SubSeq(buf, i, i + n)
           g == GetArg(buf, base, len, v, type)
<1>1. v.off \in Nat /\ v.vals \in Seq(Seq(CellSet)) /\ m \in Nat /\ i = m + 1 /\ i \in Nat /\ Len(buf) \in Nat
  BY DEF VSet
<1>2. \/ g = v \/ g = [v EXCEPT !.end = "abort"] \/ g = [v EXCEPT !.end = "ub"]
      \/ ~(i + n > Len(buf)) /\ g = [v EXCEPT !.off = v.off + 1 + n, !.vals = Append(v.vals, c)]
  BY DEF GetArg
<1>3. ASSUME ~(i + n > Len(buf)) PROVE n \in Nat
  <2>1. CASE type = STRING_TYPE
    <3>1. n = strlen(buf, i + 1) + 1 /\ i + 1 \in Nat
      BY <1>1, <2>1
    <3> HIDE DEF n, i
    <3>2. strlen(buf, i + 1) = Len(buf) + 1 - (i + 1) \/ strlen(buf, i + 1) \in Nat
      BY <3>1, StrlenFacts
    <3>3. CASE strlen(buf, i + 1) = Len(buf) + 1 - (i + 1)
      <4>1. i + n = Len(buf) + 1
        <5>1. \A a, l \in Nat : a + (l + 1 - (a + 1) + 1) = l + 1
          OBVIOUS
        <5>2. n = Len(buf) + 1 - (i + 1) + 1
          BY <3>1, <3>3
        <5>3. QED BY <1>1, <5>1, <5>2
      <4>2. QED BY <1>1, <1>3, <4>1
    <3>4. QED BY <3>1, <3>2, <3>3
  <2>2. CASE type # STRING_TYPE
    BY <2>2 DEF Width
  <2>3. QED BY <2>1, <2>2
<1> HIDE DEF n, g
<1>4. ASSUME ~(i + n > Len(buf)), n \in Nat PROVE c \in Seq(CellSet)
  <2> HIDE DEF i, m
  <2>1. m <= i + n /\ i + n <= Len(buf) /\ i + n \in Nat
    BY <1>1, <1>4
  <2>2. SubSeq(buf, m + 1, i + n) \in Seq(CellSet)
    BY <1>1, <2>1, Cut
  <2>3. QED BY <1>1, <2>2
<1> HIDE DEF c, i, m
<1>5. CASE ~(i + n > Len(buf)) /\ g = [v EXCEPT !.off = v.off + 1 + n, !.vals = Append(v.vals, c)]
  <2>1. v.off + 1 + n \in Nat /\ Append(v.vals, c) \in Seq(Seq(CellSet))
    <3>1. n \in Nat /\ v.off \in Nat /\ v.vals \in Seq(Seq(CellSet))
      BY <1>1, <1>3, <1>5
    <3>2. c \in Seq(CellSet)
      BY <1>4, <1>5, <3>1
    <3>3. v.off + 1 + n \in Nat
      BY <3>1
    <3>4. Append(v.vals, c) \in Seq(Seq(CellSet))
      BY <3>1, <3>2
    <3>5. QED BY <3>3, <3>4
  <2>2. g \in VSet
    BY <1>5, <2>1 DEF VSet
  <2>3. QED BY <2>2 DEF g
<1>6. CASE g = v \/ g = [v EXCEPT !.end = "abort"] \/ g = [v EXCEPT !.end = "ub"]
  <2>1. g \in VSet
    BY <1>6 DEF VSet
  <2>2. QED BY <2>1 DEF g
<1>7. QED BY <1>2, <1>5, <1>6

\* how far print_format has come after k arguments, as GetArgs computes it
Reads(g, buf, base, len, types, n) ==
    g = [k \in 0 .. n |-> IF k = 0 THEN [off |-> PrefixLen + 1, vals |-> <<>>, end |-> "ok"]
                          ELSE GetArg(buf, base, len, g[k - 1], types[k])]

\* There is such a function.
LEMMA ReadsExists ==
    ASSUME NEW buf, NEW base, NEW len, NEW types, NEW l \in Nat
    PROVE  \A n \in 0 .. l : \E g : Reads(g, buf, base, len, types, n)
<1> DEFINE T == {n \in 0 .. l : ~\E g : Reads(g, buf, base, len, types, n)}
           V0 == [off |-> PrefixLen + 1, vals |-> <<>>, end |-> "ok"]
           A(x, k) == GetArg(buf, base, len, x, types[k])
<1>1. T \in SUBSET Nat
  OBVIOUS
<1>2. CASE T # {}
  <2>1. PICK n \in T : \A i \in T : n <= i
    BY <1>1, <1>2, MinNat
  <2>2. n \in 0 .. l /\ ~\E g : Reads(g, buf, base, len, types, n)
    BY <2>1
  <2>3. \A g : (g = [k \in 0 .. n |-> IF k = 0 THEN V0 ELSE A(g[k - 1], k)]) => Reads(g, buf, base, len, types, n)
    BY DEF Reads
  <2>4. CASE n = 0
    <3> HIDE DEF A, V0
    <3> DEFINE f == [k \in 0 .. 0 |-> V0]
    <3>1. f = [k \in 0 .. 0 |-> IF k = 0 THEN V0 ELSE A(f[k - 1], k)]
      OBVIOUS
    <3> HIDE DEF f
    <3>2. QED BY <2>2, <2>3, <2>4, <3>1
  <2>5. CASE n # 0
    <3>1. n - 1 \in 0 .. l /\ ~(n <= n - 1)
      BY <2>2, <2>5
    <3>2. PICK g : Reads(g, buf, base, len, types, n - 1)
      BY <2>1, <3>1
    <3>3. g = [k \in 0 .. n - 1 |-> IF k = 0 THEN V0 ELSE A(g[k - 1], k)]
      BY <3>2 DEF Reads
    <3> HIDE DEF A, V0
    <3> DEFINE f == [k \in 0 .. n |-> IF k = 0 THEN V0 ELSE A(g[k - 1], k)]
    <3>4. ASSUME NEW k \in 0 .. n - 1 PROVE f[k] = g[k]
      <4>1. g[k] = IF k = 0 THEN V0 ELSE A(g[k - 1], k)
        BY <3>3
      <4>2. k \in 0 .. n
        BY <2>2
      <4>3. QED BY <4>1, <4>2
    <3>5. ASSUME NEW k \in 0 .. n, k # 0 PROVE f[k - 1] = g[k - 1]
      <4>1. k - 1 \in 0 .. n - 1
        BY <2>2, <3>5
      <4> HIDE DEF f
      <4>2. QED BY <3>4, <4>1
    <3>6. f = [k \in 0 .. n |-> IF k = 0 THEN V0 ELSE A(f[k - 1], k)]
      <4>1. f = [k \in 0 .. n |-> IF k = 0 THEN V0 ELSE A(g[k - 1], k)]
        OBVIOUS
      <4> HIDE DEF f
      <4>2. QED BY <3>5, <4>1
    <3> HIDE DEF f
    <3>7. QED BY <2>2, <2>3, <3>6
  <2>6. QED BY <2>4, <2>5
<1>3. QED BY <1>2

Trace(buf, base, len, types) ==
    CHOOSE g : g = [k \in 0 .. Len(types) |-> IF k = 0 THEN [off |-> PrefixLen + 1, vals |-> <<>>, end |-> "ok"]
                                              ELSE GetArg(buf, base, len, g[k - 1], types[k])]

\* GetArgs is its last value.
LEMMA GetArgsIs ==
    ASSUME NEW buf, NEW base, NEW len, NEW types, Len(types) \in Nat
    PROVE  /\ GetArgs(buf, base, len, types) = Trace(buf, base, len, types)[Len(types)]
           /\ Trace(buf, base, len, types)[0] = [off |-> PrefixLen + 1, vals |-> <<>>, end |-> "ok"]
           /\ \A k \in 1 .. Len(types) :
                Trace(buf, base, len, types)[k] = GetArg(buf, base, len, Trace(buf, base, len, types)[k - 1], types[k])
<1> DEFINE g == Trace(buf, base, len, types)
<1>1. GetArgs(buf, base, len, types) = g[Len(types)]
  BY DEF GetArgs, Trace
<1>2. \E h : Reads(h, buf, base, len, types, Len(types))
  <2>1. Len(types) \in 0 .. Len(types)
    OBVIOUS
  <2>2. QED BY <2>1, ReadsExists
<1>3. g = [k \in 0 .. Len(types) |-> IF k = 0 THEN [off |-> PrefixLen + 1, vals |-> <<>>, end |-> "ok"]
                                     ELSE GetArg(buf, base, len, g[k - 1], types[k])]
  BY <1>2 DEF Reads, Trace
<1> HIDE DEF g
<1>4. 0 \in 0 .. Len(types) /\ \A k \in 1 .. Len(types) : k \in 0 .. Len(types) /\ k # 0
  OBVIOUS
<1>5. g[0] = [off |-> PrefixLen + 1, vals |-> <<>>, end |-> "ok"]
  BY <1>3, <1>4
<1>6. \A k \in 1 .. Len(types) : g[k] = GetArg(buf, base, len, g[k - 1], types[k])
  BY <1>3, <1>4
<1>7. QED BY <1>1, <1>5, <1>6 DEF g

\* What print_format returns is of the right kind.
LEMMA GetArgsType ==
    ASSUME NEW buf \in Seq(CellSet), NEW base \in Nat, NEW len \in Nat, NEW types, Len(types) \in Nat
    PROVE  GetArgs(buf, base, len, types) \in VSet
<1> DEFINE g == Trace(buf, base, len, types)
<1>1. /\ GetArgs(buf, base, len, types) = g[Len(types)]
      /\ g[0] = [off |-> PrefixLen + 1, vals |-> <<>>, end |-> "ok"]
      /\ \A k \in 1 .. Len(types) : g[k] = GetArg(buf, base, len, g[k - 1], types[k])
  BY GetArgsIs
<1> HIDE DEF g
<1> DEFINE T == {k \in 0 .. Len(types) : g[k] \notin VSet}
<1>2. T \in SUBSET Nat
  OBVIOUS
<1>3. CASE T # {}
  <2>1. PICK k \in T : \A i \in T : k <= i
    BY <1>2, <1>3, MinNat
  <2>2. k \in 0 .. Len(types) /\ g[k] \notin VSet
    BY <2>1
  <2>3. CASE k = 0
    <3>1. <<>> \in Seq(Seq(CellSet))
      OBVIOUS
    <3>2. [off |-> PrefixLen + 1, vals |-> <<>>, end |-> "ok"] \in VSet
      BY <3>1 DEF VSet, PrefixLen
    <3>3. QED BY <1>1, <2>2, <2>3, <3>2
  <2>4. CASE k # 0
    <3>1. k \in 1 .. Len(types) /\ k - 1 \in 0 .. Len(types) /\ ~(k <= k - 1)
      BY <2>2, <2>4
    <3>2. g[k - 1] \in VSet
      BY <2>1, <3>1
    <3>3. g[k] = GetArg(buf, base, len, g[k - 1], types[k])
      BY <1>1, <3>1
    <3>4. QED BY <2>2, <3>2, <3>3, GetArgType
  <2>5. QED BY <2>3, <2>4
<1>4. CASE T = {}
  <2>1. Len(types) \in 0 .. Len(types)
    OBVIOUS
  <2>2. QED BY <1>1, <1>4, <2>1
<1>5. QED BY <1>3, <1>4

\* the cells that the get_ function for a type takes after the tag at i
ArgLen(buf, i, type) == IF type = STRING_TYPE THEN strlen(buf, i + 1) + 1 ELSE Width(type)

\* If they are in the buffer they are one at least.
LEMMA ArgLenFacts ==
    ASSUME NEW buf \in Seq(CellSet), NEW i \in Nat, NEW type
    PROVE  ArgLen(buf, i, type) \in Int /\ (i + ArgLen(buf, i, type) <= Len(buf) => ArgLen(buf, i, type) >= 1)
<1> DEFINE n == ArgLen(buf, i, type)
<1>1. Len(buf) \in Nat /\ i + 1 \in Nat
  OBVIOUS
<1>2. CASE type = STRING_TYPE
  <2>1. n = strlen(buf, i + 1) + 1
    BY <1>2 DEF ArgLen
  <2> HIDE DEF n
  <2>2. strlen(buf, i + 1) = Len(buf) + 1 - (i + 1) \/ strlen(buf, i + 1) \in Nat
    BY <1>1, StrlenFacts
  <2>3. CASE strlen(buf, i + 1) = Len(buf) + 1 - (i + 1)
    <3>1. \A a, l \in Nat : l + 1 - (a + 1) + 1 \in Int /\ ~(a + (l + 1 - (a + 1) + 1) <= l)
      OBVIOUS
    <3>2. n = Len(buf) + 1 - (i + 1) + 1
      BY <2>1, <2>3
    <3>3. n \in Int /\ ~(i + n <= Len(buf))
      BY <1>1, <3>1, <3>2
    <3>4. QED BY <3>3 DEF n
  <2>4. CASE strlen(buf, i + 1) \in Nat
    <3>1. n \in Int /\ n >= 1
      BY <2>1, <2>4
    <3>2. QED BY <3>1 DEF n
  <2>5. QED BY <2>2, <2>3, <2>4
<1>3. CASE type # STRING_TYPE
  <2>1. n = 1 \/ n = 2
    BY <1>3 DEF ArgLen, Width
  <2> HIDE DEF n
  <2>2. n \in Int /\ n >= 1
    BY <2>1
  <2>3. QED BY <2>2 DEF n
<1>4. QED BY <1>2, <1>3

\* They are those of the argument, if what is in the buffer from i on is
\* an argument of that type and the buffer does not end first.
LEMMA ArgLenIs ==
    ASSUME NEW buf \in Seq(CellSet), NEW m \in Nat, NEW a \in ArgSet,
           \A j \in 1 .. Len(ArgCells(a)) : m + j <= Len(buf) => buf[m + j] = ArgCells(a)[j],
           m + 1 + ArgLen(buf, m + 1, a.type) <= Len(buf) \/ m + Len(ArgCells(a)) <= Len(buf)
    PROVE  ArgLen(buf, m + 1, a.type) + 1 = Len(ArgCells(a))
<1> DEFINE c == ArgCells(a)
           n == ArgLen(buf, m + 1, a.type)
<1>1. /\ Len(c) = IF a.type = STRING_TYPE THEN Len(a.val) + 2 ELSE Width(a.type) + 1
      /\ a.type = STRING_TYPE =>
           /\ Len(a.val) \in Nat /\ c[Len(a.val) + 2] = NUL
           /\ \A i \in 2 .. Len(a.val) + 1 : c[i] # NUL
  BY ArgFacts
<1>2. /\ \A j \in 1 .. Len(c) : m + j <= Len(buf) => buf[m + j] = c[j]
      /\ m + 1 + n <= Len(buf) \/ m + Len(c) <= Len(buf)
  OBVIOUS
<1> HIDE DEF c
<1>3. CASE a.type # STRING_TYPE
  <2>1. n = Width(a.type) /\ Len(c) = Width(a.type) + 1
    BY <1>1, <1>3 DEF ArgLen
  <2>2. QED BY <2>1 DEF c
<1>4. CASE a.type = STRING_TYPE
  <2> DEFINE V == Len(a.val)
             l == strlen(buf, m + 2)
  <2>1. /\ V \in Nat /\ Len(c) = V + 2 /\ c[V + 2] = NUL /\ Len(buf) \in Nat
        /\ \A i \in 2 .. V + 1 : c[i] # NUL
    BY <1>1, <1>4
  <2>2. n = l + 1
    <3>1. m + 1 + 1 = m + 2
      OBVIOUS
    <3>2. QED BY <1>4, <3>1 DEF ArgLen
  <2>3. m + 2 \in Nat
    OBVIOUS
  <2> HIDE DEF V, l, n
  <2>4. \/ /\ l = Len(buf) + 1 - (m + 2)
           /\ \A j \in m + 2 .. Len(buf) : buf[j] # NUL
        \/ /\ l \in Nat /\ m + 2 + l \in m + 2 .. Len(buf) /\ buf[m + 2 + l] = NUL
           /\ \A j \in m + 2 .. Len(buf) : buf[j] = NUL => m + 2 + l <= j
    BY <2>3, StrlenFacts DEF l
  <2>5. m + (V + 2) <= Len(buf) => buf[m + (V + 2)] = NUL
    <3>1. V + 2 \in 1 .. Len(c)
      BY <2>1
    <3>2. QED BY <1>2, <2>1, <3>1
  <2>6. ASSUME NEW j \in m + 2 .. m + V + 1, j <= Len(buf) PROVE buf[j] # NUL
    <3> DEFINE i == j - m
    <3>1. i \in 2 .. V + 1 /\ i \in 1 .. Len(c) /\ m + i = j
      BY <2>1, <2>6
    <3> HIDE DEF i
    <3>2. buf[m + i] = c[i] /\ c[i] # NUL
      BY <1>2, <2>1, <2>6, <3>1
    <3>3. QED BY <3>1, <3>2
  <2>7. CASE /\ l = Len(buf) + 1 - (m + 2)
             /\ \A j \in m + 2 .. Len(buf) : buf[j] # NUL
    <3>1. \A b \in Nat : ~(m + 1 + (b + 1 - (m + 2) + 1) <= b)
      OBVIOUS
    <3>2. ~(m + 1 + n <= Len(buf))
      BY <2>1, <2>2, <2>7, <3>1
    <3>3. m + (V + 2) <= Len(buf)
      BY <1>2, <2>1, <3>2
    <3>4. m + (V + 2) \in m + 2 .. Len(buf)
      BY <2>1, <3>3
    <3>5. QED BY <2>5, <2>7, <3>3, <3>4
  <2>8. CASE /\ l \in Nat /\ m + 2 + l \in m + 2 .. Len(buf) /\ buf[m + 2 + l] = NUL
             /\ \A j \in m + 2 .. Len(buf) : buf[j] = NUL => m + 2 + l <= j
    <3>1. ~(m + 2 + l \in m + 2 .. m + V + 1)
      <4>1. m + 2 + l <= Len(buf)
        BY <2>1, <2>8
      <4>2. QED BY <2>6, <2>8, <4>1
    <3>2. V <= l /\ m + (V + 2) <= Len(buf)
      <4>1. \A b, x, y \in Nat : m + 2 + x <= b /\ ~(m + 2 + x \in m + 2 .. m + y + 1) => y <= x /\ m + (y + 2) <= b
        OBVIOUS
      <4>2. m + 2 + l <= Len(buf)
        BY <2>1, <2>8
      <4>3. QED BY <2>1, <2>8, <3>1, <4>1, <4>2
    <3>3. m + (V + 2) \in m + 2 .. Len(buf) /\ buf[m + (V + 2)] = NUL
      BY <2>1, <2>5, <3>2
    <3>4. m + 2 + l <= m + (V + 2)
      BY <2>8, <3>3
    <3>5. l = V
      BY <2>1, <2>8, <3>2, <3>4
    <3>6. n + 1 = Len(c)
      BY <2>1, <2>2, <3>5
    <3>7. QED BY <3>6 DEF c, n
  <2>9. QED BY <2>4, <2>7, <2>8
<1>5. QED BY <1>3, <1>4

\* as much of the record as the buffer has lies in it after base cells
InBuf(buf, base, rec) ==
    \A j \in 1 .. RecordSize(rec) : base + j <= Len(buf) => buf[base + j] = RecordCells(rec, RecordSize(rec))[j]

\* An argument that is read is the one the caller passed; in a record that
\* is there as a whole, one of the right type is read.
LEMMA GetArgStep ==
    ASSUME NEW rec \in Records, NEW buf \in Seq(CellSet), NEW base \in Nat, InBuf(buf, base, rec),
           NEW k \in 1 .. Len(rec.args), k - 1 <= Len(rec.logged),
           NEW v \in VSet, v.end = "ok", v.off = 3 + Len(ArgsTo(rec, k - 1))
    PROVE  LET g == GetArg(buf, base, RecordSize(rec), v, rec.args[k].type)
           IN  /\ g.end = "ok" =>
                    /\ k <= Len(rec.logged) /\ rec.logged[k] = rec.args[k] /\ g.off = 3 + Len(ArgsTo(rec, k))
                    /\ g.vals = Append(v.vals, ArgCells(rec.args[k]))
               /\ base + RecordSize(rec) <= Len(buf) /\ k <= Len(rec.logged) /\ rec.logged[k].type = rec.args[k].type
                    => g.end = "ok"
<1> DEFINE size == RecordSize(rec)
           type == rec.args[k].type
           g == GetArg(buf, base, size, v, type)
           D == Len(ArgsTo(rec, k - 1))
           m == base + v.off
           i == base + v.off + 1
           n == ArgLen(buf, i, type)
<1>1. /\ rec.args \in Seq(ArgSet) /\ rec.logged \in Seq(ArgSet) /\ Len(rec.args) \in Nat /\ Len(rec.logged) \in Nat
      /\ \A j \in 1 .. Len(rec.logged) :
           j <= Len(rec.args) /\ rec.args[j].type = rec.logged[j].type => rec.logged[j] = rec.args[j]
  <2>1. rec.args \in Seq(ArgSet) /\ rec.logged \in Seq(ArgSet)
    BY RecordFacts
  <2>2. \A j \in 1 .. Len(rec.logged) :
           j <= Len(rec.args) /\ rec.args[j].type = rec.logged[j].type => rec.logged[j] = rec.args[j]
    BY RecordFacts
  <2>3. Len(rec.args) \in Nat /\ Len(rec.logged) \in Nat
    BY <2>1
  <2>4. QED BY <2>1, <2>2, <2>3
<1>2. /\ size \in Nat /\ size = Len(ArgsTo(rec, Len(rec.logged))) + 4
  <2>1. 0 \in Nat
    OBVIOUS
  <2>2. QED BY <2>1, Layout
<1>3. D \in Nat /\ v.off = 3 + D /\ m = base + 3 + D /\ m \in Nat /\ i = m + 1 /\ i \in Nat /\ Len(buf) \in Nat
  <2>1. k - 1 \in 0 .. Len(rec.logged)
    BY <1>1
  <2>2. D \in Nat
    BY <2>1, ArgsToType
  <2> HIDE DEF D
  <2>3. v.off = 3 + D
    BY DEF D
  <2>4. QED BY <2>2, <2>3
<1>4. /\ g = IF v.off + 1 + n > size THEN [v EXCEPT !.end = "abort"]
             ELSE IF i + n > Len(buf) THEN [v EXCEPT !.end = "ub"]
             ELSE IF buf[i] # Tag(type) THEN [v EXCEPT !.end = "abort"]
             ELSE [v EXCEPT !.off = v.off + 1 + n, !.vals = Append(v.vals, SubSeq(buf, i, i + n))]
  BY DEF GetArg, ArgLen
<1>5. n \in Int /\ (i + n <= Len(buf) => n >= 1)
  BY <1>3, ArgLenFacts
<1>6. /\ [v EXCEPT !.end = "abort"].end # "ok" /\ [v EXCEPT !.end = "ub"].end # "ok"
      /\ [v EXCEPT !.off = v.off + 1 + n, !.vals = Append(v.vals, SubSeq(buf, i, i + n))].end = "ok"
      /\ [v EXCEPT !.off = v.off + 1 + n, !.vals = Append(v.vals, SubSeq(buf, i, i + n))].off = v.off + 1 + n
      /\ [v EXCEPT !.off = v.off + 1 + n, !.vals = Append(v.vals, SubSeq(buf, i, i + n))].vals = Append(v.vals, SubSeq(buf, i, i + n))
  BY DEF VSet
<1> HIDE DEF g, n, D, size, m, i, type
<1>7. g.end = "ok" <=> ~(v.off + 1 + n > size) /\ ~(i + n > Len(buf)) /\ buf[i] = Tag(type)
  BY <1>4, <1>6
<1>8. g.end = "ok" => g.off = v.off + 1 + n /\ g.vals = Append(v.vals, SubSeq(buf, i, i + n))
  BY <1>4, <1>6
<1>9. CASE ~(k <= Len(rec.logged))
  <2>1. k - 1 = Len(rec.logged)
    BY <1>1, <1>9
  <2>2. size = v.off + 1
    BY <1>2, <1>3, <2>1, SMTT(30) DEF D
  <2>3. g.end # "ok"
    <3>1. ASSUME i + n <= Len(buf) PROVE v.off + 1 + n > size
      BY <1>3, <1>5, <2>2, <3>1
    <3>2. ~(i + n <= Len(buf)) => i + n > Len(buf)
      BY <1>3, <1>5
    <3>3. QED BY <1>7, <3>1, <3>2
  <2>4. QED BY <1>9, <2>3 DEF g, size, type
<1>10. CASE k <= Len(rec.logged)
  <2> DEFINE a == rec.logged[k]
             c == ArgCells(a)
  <2>1. k \in 1 .. Len(rec.logged) /\ a \in ArgSet
    BY <1>1, <1>10
  <2>2. /\ c \in Seq(CellSet) /\ Len(c) \in Nat /\ Len(ArgsTo(rec, k)) = D + Len(c) /\ 3 + D + Len(c) < size
        /\ \A j \in 1 .. Len(c) : RecordCells(rec, size)[3 + D + j] = c[j]
    <3>1. size \in Nat
      BY <1>2
    <3>2. QED BY <2>1, <3>1, CellsOfArg DEF D, size
  <2>3. c[1] = Tag(a.type) /\ Len(c) >= 1
    <3>1. c[1] = Tag(a.type)
      BY <2>1, ArgFacts
    <3>2. Len(c) = IF a.type = STRING_TYPE THEN Len(a.val) + 2 ELSE Width(a.type) + 1
      BY <2>1, ArgFacts
    <3>3. a.type = STRING_TYPE => Len(a.val) \in Nat
      BY <2>1, ArgFacts
    <3> HIDE DEF c, a
    <3>4. QED BY <3>1, <3>2, <3>3 DEF Width
  <2>4. a.type = type => a = rec.args[k]
    <3>1. k <= Len(rec.args) /\ k \in 1 .. Len(rec.logged)
      BY <1>1, <2>1
    <3>2. QED BY <1>1, <3>1 DEF type
  <2> HIDE DEF a
  <2>5. ASSUME NEW j \in 1 .. Len(c), m + j <= Len(buf) PROVE buf[m + j] = c[j]
    <3> DEFINE u == 3 + D + j
    <3>1. u \in 1 .. size /\ base + u = m + j
      BY <1>2, <1>3, <2>2
    <3>2. RecordCells(rec, size)[u] = c[j]
      BY <2>2
    <3> HIDE DEF u
    <3>3. buf[base + u] = RecordCells(rec, size)[u]
      BY <2>5, <3>1 DEF InBuf, size
    <3>4. QED BY <3>1, <3>2, <3>3
  <2>6. ASSUME a.type = type, i + n <= Len(buf) \/ m + Len(c) <= Len(buf) PROVE n + 1 = Len(c)
    <3>1. m + 1 + ArgLen(buf, m + 1, a.type) <= Len(buf) \/ m + Len(ArgCells(a)) <= Len(buf)
      BY <1>3, <2>6 DEF n
    <3>2. \A j \in 1 .. Len(ArgCells(a)) : m + j <= Len(buf) => buf[m + j] = ArgCells(a)[j]
      BY <2>5
    <3>3. ArgLen(buf, m + 1, a.type) + 1 = Len(ArgCells(a))
      BY <1>3, <2>1, <3>1, <3>2, ArgLenIs
    <3>4. QED BY <1>3, <2>6, <3>3 DEF n
  <2>7. ASSUME g.end = "ok"
        PROVE  rec.logged[k] = rec.args[k] /\ g.off = 3 + Len(ArgsTo(rec, k)) /\ g.vals = Append(v.vals, ArgCells(rec.args[k]))
    <3>1. i + n <= Len(buf) /\ n >= 1 /\ buf[i] = Tag(type)
      BY <1>3, <1>5, <1>7, <2>7
    <3>2. buf[m + 1] = c[1]
      <4>1. 1 \in 1 .. Len(c) /\ m + 1 <= Len(buf)
        BY <1>3, <1>5, <2>2, <2>3, <3>1
      <4>2. QED BY <2>5, <4>1
    <3>3. Tag(type) = Tag(a.type)
      BY <1>3, <2>3, <3>1, <3>2
    <3>4. type = a.type
      BY <3>3 DEF Tag
    <3>5. n + 1 = Len(c)
      BY <2>6, <3>1, <3>4
    <3>6. SubSeq(buf, i, i + n) = c
      <4>1. m <= i + n /\ i + n \in Nat /\ i + n - m = Len(c)
        <5>1. \A d, e \in Nat, z \in Int : z + 1 = e /\ z >= 1 =>
                d <= d + 1 + z /\ d + 1 + z \in Nat /\ d + 1 + z - d = e
          OBVIOUS
        <5>2. m <= m + 1 + n /\ m + 1 + n \in Nat /\ m + 1 + n - m = Len(c)
          <6>1. m \in Nat /\ Len(c) \in Nat /\ n \in Int /\ n + 1 = Len(c) /\ n >= 1
            BY <1>3, <1>5, <2>2, <3>1, <3>5
          <6> HIDE DEF m, n, c
          <6>2. QED BY <5>1, <6>1
        <5>3. QED BY <1>3, <5>2
      <4> DEFINE z == i + n
                 x == SubSeq(buf, m + 1, z)
      <4>8. z \in Nat /\ m <= z /\ z <= Len(buf) /\ m \in Nat /\ z - m = Len(c)
        <5>1. m \in Nat
          BY <1>3
        <5>2. z \in Nat
          BY <4>1
        <5>3. m <= z
          BY <4>1
        <5>4. z <= Len(buf)
          BY <3>1
        <5>5. z - m = Len(c)
          BY <1>3, <1>5, <4>1
        <5>6. QED BY <5>1, <5>2, <5>3, <5>4, <5>5
      <4> HIDE DEF z
      <4>2. x \in Seq(CellSet) /\ Len(x) = z - m /\ \A j \in 1 .. z - m : x[j] = buf[m + j]
        BY <4>8, Cut
      <4>3. x = SubSeq(buf, i, i + n)
        BY <1>3 DEF z
      <4> HIDE DEF x
      <4>4. ASSUME NEW j \in 1 .. Len(x) PROVE x[j] = c[j]
        <5>1. j \in 1 .. Len(c) /\ j \in 1 .. z - m /\ m + j <= Len(buf)
          BY <1>3, <2>2, <4>8, <4>2
        <5>2. QED BY <2>5, <4>2, <5>1
      <4>5. Len(x) = Len(c)
        BY <4>8, <4>2
      <4> HIDE DEF c
      <4>6. x = c
        BY <2>2, <4>2, <4>4, <4>5, SeqEqual
      <4>7. QED BY <4>3, <4>6
    <3>7. a = rec.args[k]
      BY <2>4, <3>4
    <3>8. g.off = 3 + Len(ArgsTo(rec, k))
      <4>1. v.off + 1 + n = 3 + (D + Len(c))
        <5>1. \A d, e \in Nat, z \in Int : z + 1 = e => 3 + d + 1 + z = 3 + (d + e)
          OBVIOUS
        <5>2. 3 + D + 1 + n = 3 + (D + Len(c))
          BY <1>3, <1>5, <2>2, <3>5, <5>1, ZenonT(30)
        <5>3. QED BY <1>3, <5>2
      <4>2. QED BY <1>8, <2>2, <2>7, <4>1
    <3>9. g.vals = Append(v.vals, ArgCells(rec.args[k]))
      BY <1>8, <2>7, <3>6, <3>7
    <3>10. QED BY <3>7, <3>8, <3>9 DEF a
  <2>8. ASSUME base + size <= Len(buf), a.type = type PROVE g.end = "ok"
    <3>1. m + Len(c) <= Len(buf)
      BY <1>2, <1>3, <2>2, <2>8, SMTT(30)
    <3>2. n + 1 = Len(c)
      BY <2>6, <2>8, <3>1
    <3>3. ~(v.off + 1 + n > size) /\ ~(i + n > Len(buf))
      BY <1>2, <1>3, <1>5, <2>2, <3>1, <3>2
    <3>4. buf[m + 1] = c[1]
      <4>1. 1 \in 1 .. Len(c) /\ m + 1 <= Len(buf)
        BY <1>3, <2>2, <2>3, <3>1
      <4>2. QED BY <2>5, <4>1
    <3>5. buf[i] = Tag(type)
      BY <1>3, <2>3, <2>8, <3>4
    <3>6. QED BY <1>7, <3>3, <3>5
  <2>9. QED BY <1>10, <2>7, <2>8 DEF g, size, type, a
<1>11. QED BY <1>9, <1>10

\* A record that print_format reads to the end is shown as it was passed.
LEMMA GetArgsShown ==
    ASSUME NEW rec \in Records, NEW buf \in Seq(CellSet), NEW base \in Nat, InBuf(buf, base, rec)
    PROVE  LET v == GetArgs(buf, base, RecordSize(rec), Formats[rec.key].reads)
           IN  /\ v.end = "ok" => v.vals = [i \in DOMAIN rec.args |-> ArgCells(rec.args[i])]
               /\ base + RecordSize(rec) <= Len(buf) /\ (\A k \in 1 .. Len(rec.args) :
                      k <= Len(rec.logged) /\ rec.logged[k].type = rec.args[k].type) => v.end = "ok"
<1>0. SUFFICES ASSUME NEW types, types = Formats[rec.key].reads, NEW size, size = RecordSize(rec)
      PROVE  LET v == GetArgs(buf, base, size, types)
             IN  /\ v.end = "ok" => v.vals = [i \in DOMAIN rec.args |-> ArgCells(rec.args[i])]
                 /\ base + size <= Len(buf) /\ (\A k \in 1 .. Len(rec.args) :
                        k <= Len(rec.logged) /\ rec.logged[k].type = rec.args[k].type) => v.end = "ok"
  OBVIOUS
<1> DEFINE N == Len(rec.args)
           fits == base + size <= Len(buf) /\ (\A k \in 1 .. N :
                      k <= Len(rec.logged) /\ rec.logged[k].type = rec.args[k].type)
           S(k) == [i \in 1 .. k |-> ArgCells(rec.args[i])]
<1>1. /\ rec.args \in Seq(ArgSet) /\ rec.logged \in Seq(ArgSet) /\ N \in Nat /\ Len(rec.logged) \in Nat
      /\ Len(types) = N /\ DOMAIN rec.args = 1 .. N
      /\ \A i \in 1 .. N : rec.args[i].type = types[i] /\ rec.args[i] \in ArgSet
  <2>1. rec.args \in Seq(ArgSet) /\ rec.logged \in Seq(ArgSet) /\ Len(types) = N
    BY <1>0, RecordFacts
  <2>2. \A i \in 1 .. N : rec.args[i].type = types[i]
    BY <1>0, RecordFacts
  <2>3. QED BY <2>1, <2>2
<1>2. size \in Nat
  <2>1. 0 \in Nat
    OBVIOUS
  <2>2. QED BY <1>0, <2>1, Layout
<1> HIDE DEF N
<1> DEFINE g == Trace(buf, base, size, types)
<1>3. /\ GetArgs(buf, base, size, types) = g[Len(types)]
      /\ g[0] = [off |-> PrefixLen + 1, vals |-> <<>>, end |-> "ok"]
      /\ \A k \in 1 .. Len(types) : g[k] = GetArg(buf, base, size, g[k - 1], types[k])
  <2>1. Len(types) \in Nat
    BY <1>1
  <2>2. QED BY <2>1, GetArgsIs
<1> HIDE DEF g
<1> DEFINE P(k) == /\ g[k] \in VSet
                   /\ g[k].end = "ok" =>
                        k <= Len(rec.logged) /\ g[k].off = 3 + Len(ArgsTo(rec, k)) /\ g[k].vals = S(k)
                   /\ fits => g[k].end = "ok"
           T == {k \in 0 .. N : ~P(k)}
<1>4. T \in SUBSET Nat
  BY <1>1
<1>5. CASE T # {}
  <2>1. PICK k \in T : \A j \in T : k <= j
    BY <1>4, <1>5, MinNat
  <2>2. k \in 0 .. N /\ ~P(k)
    BY <2>1
  <2>3. CASE k = 0
    <3>1. <<>> \in Seq(Seq(CellSet)) /\ PrefixLen + 1 = 3
      BY DEF PrefixLen
    <3>2. [off |-> 3, vals |-> <<>>, end |-> "ok"] \in VSet
      BY <3>1 DEF VSet
    <3>3. S(0) = <<>>
      <4> DEFINE s == [i \in 1 .. 0 |-> ArgCells(rec.args[i])]
      <4>1. \A i \in 1 .. 0 : ArgCells(rec.args[i]) \in {}
        OBVIOUS
      <4>2. s \in Seq({}) /\ Len(s) = 0
        BY <4>1, IsASeq
      <4> HIDE DEF s
      <4>3. s = <<>>
        BY <4>2
      <4>4. QED BY <4>3 DEF s
    <3>4. Len(ArgsTo(rec, 0)) = 0
      BY ArgsToNone
    <3> HIDE DEF S, fits
    <3>5. g[0] = [off |-> 3, vals |-> <<>>, end |-> "ok"]
      BY <1>3, <3>1
    <3>6. g[0].off = 3 /\ g[0].vals = <<>> /\ g[0].end = "ok"
      BY <3>5
    <3>7. P(0)
      BY <1>1, <3>2, <3>3, <3>4, <3>5, <3>6
    <3>8. QED BY <2>2, <2>3, <3>7
  <2>4. CASE k # 0
    <3>1. k \in 1 .. N /\ k - 1 \in 0 .. N /\ ~(k <= k - 1) /\ k \in 1 .. Len(types) /\ k \in 1 .. Len(rec.args)
      BY <1>1, <2>2, <2>4 DEF N
    <3>2. P(k - 1)
      BY <2>1, <3>1
    <3> DEFINE u == g[k - 1]
    <3>3. g[k] = GetArg(buf, base, size, u, rec.args[k].type)
      BY <1>1, <1>3, <3>1
    <3>4. g[k] \in VSet
      BY <1>2, <3>2, <3>3, GetArgType
    <3>5. CASE u.end # "ok"
      <4>1. g[k] = u
        BY <3>3, <3>5 DEF GetArg
      <4> HIDE DEF S, fits
      <4>2. QED BY <2>2, <3>2, <3>4, <3>5, <4>1
    <3>6. CASE u.end = "ok"
      <4>1. k - 1 <= Len(rec.logged) /\ u.off = 3 + Len(ArgsTo(rec, k - 1)) /\ u.vals = S(k - 1) /\ u \in VSet
        BY <3>2, <3>6
      <4> HIDE DEF u
      <4>2. /\ g[k].end = "ok" =>
                 /\ k <= Len(rec.logged) /\ rec.logged[k] = rec.args[k] /\ g[k].off = 3 + Len(ArgsTo(rec, k))
                 /\ g[k].vals = Append(u.vals, ArgCells(rec.args[k]))
            /\ base + size <= Len(buf) /\ k <= Len(rec.logged) /\ rec.logged[k].type = rec.args[k].type
                 => g[k].end = "ok"
        <5>1. LET h == GetArg(buf, base, RecordSize(rec), u, rec.args[k].type)
              IN  /\ h.end = "ok" =>
                       /\ k <= Len(rec.logged) /\ rec.logged[k] = rec.args[k] /\ h.off = 3 + Len(ArgsTo(rec, k))
                       /\ h.vals = Append(u.vals, ArgCells(rec.args[k]))
                  /\ base + RecordSize(rec) <= Len(buf) /\ k <= Len(rec.logged) /\ rec.logged[k].type = rec.args[k].type
                       => h.end = "ok"
          BY <3>1, <3>6, <4>1, GetArgStep
        <5>2. QED BY <1>0, <3>3, <5>1
      <4>3. fits => g[k].end = "ok"
        BY <3>1, <4>2
      <4>4. Append(S(k - 1), ArgCells(rec.args[k])) = S(k)
        <5> DEFINE b == Append(S(k - 1), ArgCells(rec.args[k]))
        <5>1. \A j \in 1 .. N : ArgCells(rec.args[j]) \in Seq(CellSet)
          BY <1>1, ArgFacts
        <5>2. S(k) \in Seq(Seq(CellSet)) /\ Len(S(k)) = k
          <6>1. \A j \in 1 .. k : ArgCells(rec.args[j]) \in Seq(CellSet)
            BY <1>1, <3>1, <5>1
          <6>2. k \in Nat
            BY <3>1
          <6>3. QED BY <6>1, <6>2, IsASeq
        <5>3. S(k - 1) \in Seq(Seq(CellSet)) /\ Len(S(k - 1)) = k - 1
          <6>1. \A j \in 1 .. k - 1 : ArgCells(rec.args[j]) \in Seq(CellSet)
            BY <1>1, <3>1, <5>1
          <6>2. k - 1 \in Nat
            BY <3>1
          <6>3. QED BY <6>1, <6>2, IsASeq
        <5>4. (\A j \in 1 .. k - 1 : S(k - 1)[j] = ArgCells(rec.args[j])) /\ (\A j \in 1 .. k : S(k)[j] = ArgCells(rec.args[j]))
          OBVIOUS
        <5>5. ArgCells(rec.args[k]) \in Seq(CellSet) /\ k \in Nat
          BY <3>1, <5>1
        <5> HIDE DEF S
        <5>6. /\ b \in Seq(Seq(CellSet)) /\ Len(b) = k /\ b[k] = ArgCells(rec.args[k])
              /\ \A j \in 1 .. k - 1 : b[j] = S(k - 1)[j]
          <6> DEFINE r == S(k - 1)   c == ArgCells(rec.args[k])
          <6> HIDE DEF r, c
          <6>1. r \in Seq(Seq(CellSet)) /\ Len(r) = k - 1 /\ c \in Seq(CellSet)
            BY <5>3, <5>5 DEF r, c
          <6>2. /\ Append(r, c) \in Seq(Seq(CellSet)) /\ Len(Append(r, c)) = Len(r) + 1 /\ Append(r, c)[Len(r) + 1] = c
                /\ \A j \in 1 .. Len(r) : Append(r, c)[j] = r[j]
            BY <6>1
          <6>3. Len(r) + 1 = k
            BY <5>5, <6>1
          <6>4. QED BY <6>1, <6>2, <6>3 DEF r, c
        <5> HIDE DEF b
        <5>7. \A j \in 1 .. k : j = k \/ j \in 1 .. k - 1
          BY <5>5
        <5>8. \A j \in 1 .. k : b[j] = S(k)[j]
          BY <3>1, <5>4, <5>6, <5>7
        <5>9. b = S(k)
          BY <5>2, <5>6, <5>8, SeqEqual
        <5>10. QED BY <5>9 DEF b
      <4> HIDE DEF S, fits
      <4>5. QED BY <2>2, <3>4, <4>1, <4>2, <4>3, <4>4
    <3>7. QED BY <3>5, <3>6
  <2>5. QED BY <2>3, <2>4
<1>6. CASE T = {}
  <2>1. P(N)
    <3>1. N \in 0 .. N
      BY <1>1
    <3> HIDE DEF P
    <3>2. QED BY <1>6, <3>1
  <2>2. QED BY <1>1, <1>3, <2>1 DEF N
<1>7. QED BY <1>5, <1>6

-----------------------------------------------------------------------------
\* The fields that do not depend on the state the parser is in.
LEMMA SameView ==
    ASSUME NEW start, NEW q, NEW r, ViewOf(q, start), AlignOf(q, start), OutOf(q),
           r.buf = q.buf, r.offset = q.offset, r.file_offset = q.file_offset, r.out = q.out,
           r.before = q.before, r.file_size = q.file_size
    PROVE  ViewOf(r, start) /\ AlignOf(r, start) /\ OutOf(r)
<1>1. ViewOf(r, start)
  BY DEF ViewOf
<1>2. AlignOf(r, start)
  BY DEF AlignOf
<1>3. OutOf(r)
  BY DEF OutOf
<1>4. QED BY <1>1, <1>2, <1>3

\* What a read leaves is as well placed as what there was.
LEMMA ReadPlace ==
    ASSUME NEW start, FileInv(start), NEW q \in Parsers, ViewOf(q, start), AlignOf(q, start), OutOf(q),
           q.offset <= Len(q.buf), Read(q) # <<>>
    PROVE  LET r == binlog_parse_read(q)
           IN  /\ r \in Parsers /\ ViewOf(r, start) /\ AlignOf(r, start) /\ OutOf(r) /\ r.offset = 0 /\ r.st = q.st
               /\ r.len = q.len /\ r.out = q.out /\ Len(r.buf) > Len(q.buf) - q.offset
               /\ r.file_offset - Len(r.buf) = q.file_offset - Len(q.buf) + q.offset
               /\ Len(r.buf) = ParserSize \/ r.file_offset = Len(file)
<1> DEFINE r == binlog_parse_read(q)
<1>1. /\ r \in Parsers /\ ViewOf(r, start) /\ r.offset = 0 /\ r.st = q.st /\ r.len = q.len
      /\ r.file_size = q.file_size /\ r.out = q.out /\ r.before = q.before
      /\ r.file_offset - Len(r.buf) = q.file_offset - Len(q.buf) + q.offset
      /\ Len(r.buf) > Len(q.buf) - q.offset
      /\ Len(r.buf) = ParserSize \/ r.file_offset = Len(file)
  BY ReadView
<1> HIDE DEF r
<1>2. OutOf(r)
  BY <1>1 DEF OutOf
<1>3. AlignOf(r, start)
  <2>1. /\ Len(r.buf) \in Nat /\ r.file_offset \in Nat /\ Len(q.buf) \in Nat /\ q.file_offset \in Nat /\ q.offset \in Nat
    BY <1>1, ParserTypes
  <2>2. SUFFICES ASSUME Clean(Len(q.out)) PROVE r.file_offset - Len(r.buf) + r.offset = start[Len(q.out) + 1]
    BY <1>1 DEF AlignOf
  <2>3. q.file_offset - Len(q.buf) + q.offset = start[Len(q.out) + 1]
    BY <2>2 DEF AlignOf
  <2>4. r.file_offset - Len(r.buf) + 0 = r.file_offset - Len(r.buf)
    BY <2>1
  <2>5. QED BY <1>1, <2>3, <2>4
<1>4. QED BY <1>1, <1>2, <1>3 DEF r

\* Before the first torn record the parser stands where a record begins.
LEMMA OnTrack ==
    ASSUME NEW start, FileInv(start), NEW q \in Parsers, AlignOf(q, start), OutOf(q), \A j \in Torn : Len(q.out) < j
    PROVE  /\ Len(q.out) <= Len(log) /\ Clean(Len(q.out)) /\ Len(q.out) + 1 \in 1 .. Len(log) + 1
           /\ q.file_offset - Len(q.buf) + q.offset = start[Len(q.out) + 1]
<1> DEFINE k == Len(q.out)
<1>1. k \in Nat /\ DOMAIN q.out = 1 .. k
  BY ParserTypes
<1>2. Len(log) \in Nat /\ DOMAIN log = 1 .. Len(log)
  BY FileTypes
<1>3. k <= Len(log)
  <2>1. CASE k = 0
    BY <1>2, <2>1
  <2>2. CASE k # 0
    <3>1. k \in DOMAIN q.out
      BY <1>1, <2>2
    <3>2. QED BY <3>1 DEF OutOf
  <2>3. QED BY <2>1, <2>2
<1>4. Clean(k)
  <2>1. ASSUME NEW j \in 1 .. k, log[j].torn PROVE FALSE
    <3>1. j \in 1 .. Len(log) /\ ~(k < j)
      BY <1>1, <1>2, <1>3
    <3>2. j \in Torn
      BY <1>2, <2>1, <3>1 DEF Torn
    <3>3. QED BY <3>1, <3>2
  <2>2. QED BY <1>3, <2>1 DEF Clean
<1>5. k + 1 \in 1 .. Len(log) + 1
  BY <1>1, <1>2, <1>3
<1>6. QED BY <1>3, <1>4, <1>5 DEF AlignOf

\* If it has any cell of the next record, and that one is whole, its buffer
\* holds the record as far as it goes.
LEMMA AtRecord ==
    ASSUME NEW start, FileInv(start), NEW q \in Parsers, ViewOf(q, start), AlignOf(q, start), OutOf(q),
           \A j \in Torn : Len(q.out) + 1 < j, q.offset + 1 <= Len(q.buf)
    PROVE  LET k == Len(q.out) + 1
               rec == log[k].rec
           IN  /\ k \in 1 .. Len(log) /\ rec \in Records /\ log[k].size = RecordSize(rec)
               /\ RecordSize(rec) \in Nat /\ RecordSize(rec) >= 4
               /\ q.file_offset - Len(q.buf) + q.offset = start[k] /\ start[k + 1] = start[k] + RecordSize(rec)
               /\ start[k] \in Nat /\ start[k + 1] \in Nat /\ start[k + 1] <= Len(file)
               /\ InBuf(q.buf, q.offset, rec)
<1> DEFINE k == Len(q.out) + 1
           rec == log[k].rec
           size == RecordSize(rec)
           B == q.file_offset - Len(q.buf)
<1>1. /\ Len(q.buf) \in Nat /\ q.offset \in Nat /\ q.file_offset \in Nat /\ Len(q.out) \in Nat /\ k \in Nat
  BY ParserTypes
<1>2. /\ Len(log) \in Nat /\ DOMAIN log = 1 .. Len(log) /\ Len(file) \in Nat
      /\ \A i \in 1 .. Len(log) : log[i].rec \in Records /\ log[i].size \in Nat /\ log[i].torn \in BOOLEAN
      /\ \A i \in 1 .. Len(log) + 1 : start[i] \in Nat /\ start[i] <= Len(file)
  BY FileTypes
<1>3. /\ Len(q.buf) <= q.file_offset /\ q.file_offset <= Len(file)
      /\ \A j \in 1 .. Len(q.buf) : q.buf[j] = file[q.file_offset - Len(q.buf) + j]
  BY DEF ViewOf
<1>4. Len(q.out) <= Len(log) /\ k \in 1 .. Len(log) + 1 /\ q.file_offset - Len(q.buf) + q.offset = start[k]
  <2>1. \A j \in Torn : Len(q.out) < j
    <3>1. \A j \in Torn : j \in Nat
      BY <1>2 DEF Torn
    <3>2. QED BY <1>1, <3>1
  <2>2. QED BY <2>1, OnTrack
<1>5. k \in 1 .. Len(log)
  <2>1. CASE k = Len(log) + 1
    <3>1. start[k] = Len(file)
      BY <2>1 DEF FileInv
    <3>2. q.file_offset - Len(q.buf) + q.offset < Len(file)
      <4>1. \A f, l, o, n \in Nat : l <= f /\ f <= n /\ o + 1 <= l => f - l + o < n
        OBVIOUS
      <4>2. Len(q.buf) <= q.file_offset /\ q.file_offset <= Len(file)
        BY <1>3
      <4>3. QED BY <1>1, <1>2, <4>1, <4>2
    <3>3. QED BY <1>2, <1>4, <3>1, <3>2
  <2>2. QED BY <1>1, <1>2, <1>4, <2>1
<1>6. rec \in Records /\ k + 1 \in 1 .. Len(log) + 1
  BY <1>2, <1>5
<1>7. ~log[k].torn
  <2>1. ASSUME log[k].torn PROVE FALSE
    <3>1. k \in Torn
      BY <1>2, <1>5, <2>1 DEF Torn
    <3>2. QED BY <1>1, <3>1
  <2>2. QED BY <2>1
<1>8. /\ log[k].size = size /\ start[k + 1] = start[k] + log[k].size
      /\ \A j \in 1 .. log[k].size : file[start[k] + j] = RecordCells(rec, log[k].size)[j]
  BY <1>5, <1>7 DEF FileInv
<1>9. size \in Nat /\ size >= 4
  <2>1. 0 \in Nat
    OBVIOUS
  <2>2. size = Len(ArgsTo(rec, Len(rec.logged))) + 4 /\ Len(ArgsTo(rec, Len(rec.logged))) \in Nat
    BY <1>6, <2>1, Layout
  <2> HIDE DEF size
  <2>3. QED BY <2>2
<1>10. start[k] \in Nat /\ start[k + 1] \in Nat /\ start[k + 1] <= Len(file)
  BY <1>2, <1>4, <1>6
<1> HIDE DEF size, rec, k
<1>11. ASSUME NEW j \in 1 .. size, q.offset + j <= Len(q.buf) PROVE q.buf[q.offset + j] = RecordCells(rec, size)[j]
  <2> DEFINE u == q.offset + j
  <2>1. u \in 1 .. Len(q.buf) /\ B + u = start[k] + j
    <3>1. u \in 1 .. Len(q.buf)
      BY <1>1, <1>9, <1>11
    <3>2. \A f, l, o, s, x \in Nat : f - l + o = s => f - l + (o + x) = s + x
      OBVIOUS
    <3>3. j \in Nat
      BY <1>9
    <3>4. q.file_offset - Len(q.buf) + q.offset = start[k] /\ start[k] \in Nat
      BY <1>4, <1>10
    <3>5. q.file_offset - Len(q.buf) + (q.offset + j) = start[k] + j
      BY <1>1, <3>2, <3>3, <3>4, SMTT(30)
    <3>6. QED BY <3>1, <3>5
  <2> HIDE DEF u
  <2>2. q.buf[u] = file[q.file_offset - Len(q.buf) + u]
    BY <1>3, <2>1
  <2>3. file[start[k] + j] = RecordCells(rec, size)[j]
    BY <1>8
  <2>4. q.buf[u] = RecordCells(rec, size)[j]
    BY <2>1, <2>2, <2>3
  <2>5. QED BY <2>4 DEF u
<1>12. InBuf(q.buf, q.offset, rec)
  BY <1>11 DEF InBuf, size
<1>13. QED BY <1>4, <1>5, <1>6, <1>8, <1>9, <1>10, <1>12 DEF k, rec, size

\* The cells that hold a length or a prefix.
LEMMA CellFacts ==
    ASSUME NEW c \in CellSet
    PROVE  /\ c[1] = "length" => c[2] \in Nat /\ c = LenCell(c[2])
           /\ c[1] = "prefix" => c[2] \in DOMAIN Formats
<1>1. ASSUME c \in {BLOG_BEGIN, BLOG_END, NUL, JUNK} PROVE c[1] # "length" /\ c[1] # "prefix"
  BY <1>1 DEF BLOG_BEGIN, BLOG_END, NUL, JUNK
<1>2. ASSUME c \in {"tag"} \X Types PROVE c[1] # "length" /\ c[1] # "prefix"
  BY <1>2
<1>3. ASSUME c \in {"char"} \X STRING PROVE c[1] # "length" /\ c[1] # "prefix"
  BY <1>3
<1>4. ASSUME c \in {"value"} \X (Nat \cup {ANY}) \X Nat PROVE c[1] # "length" /\ c[1] # "prefix"
  BY <1>4
<1>5. ASSUME c \in {"length"} \X Nat PROVE c[1] # "prefix" /\ c[2] \in Nat /\ c = LenCell(c[2])
  BY <1>5 DEF LenCell
<1>6. ASSUME c \in {"prefix"} \X (DOMAIN Formats) \X Threads PROVE c[1] # "length" /\ c[2] \in DOMAIN Formats
  BY <1>6
<1>7. QED BY <1>1, <1>2, <1>3, <1>4, <1>5, <1>6 DEF CellSet

-----------------------------------------------------------------------------
\* A parser that has taken the size of the file.
LEMMA CreateFine ==
    ASSUME NEW start, FileInv(start)
    PROVE  Fine([Off EXCEPT !.st = "sized", !.file_size = Len(file), !.before = Len(log)], start)
<1> DEFINE r == [Off EXCEPT !.st = "sized", !.file_size = Len(file), !.before = Len(log)]
<1>1. Len(log) \in Nat /\ Len(file) \in Nat /\ ParserSize \in Nat
  BY FileTypes, BinlogAssumption
<1>2. /\ r.st = "sized" /\ r.buf = <<>> /\ r.offset = 0 /\ r.len = 0 /\ r.file_offset = 0 /\ r.file_size = Len(file)
      /\ r.out = <<>> /\ r.before = Len(log)
  BY DEF Off
<1>3. r \in Parsers
  <2>1. <<>> \in Seq(CellSet) /\ <<>> \in Seq([prefix : CellSet, vals : Seq(Seq(CellSet))])
    OBVIOUS
  <2> DEFINE B == Seq(CellSet)
             O == Seq([prefix : CellSet, vals : Seq(Seq(CellSet))])
             n == Len(file)
             m == Len(log)
  <2>2. n \in Nat /\ m \in Nat
    BY <1>1
  <2>3. r = [Off EXCEPT !.st = "sized", !.file_size = n, !.before = m]
    OBVIOUS
  <2>4. Parsers = [st : {"off", "sized", "top", "record", "abort", "ub", "segv", "done"}, buf : B,
            offset : Nat, len : Nat, file_offset : Nat, file_size : Nat, out : O, saved : Nat, before : Nat]
    BY DEF Parsers
  <2> HIDE DEF B, O, n, m, r
  <2>5. Off \in Parsers
    BY <2>1, <2>4 DEF Off, B, O
  <2>6. QED BY <2>2, <2>3, <2>4, <2>5
<1> HIDE DEF r
<1>4. start[1] = 0 /\ start[Len(log) + 1] = Len(file)
  BY DEF FileInv
<1>5. Len(r.buf) = 0 /\ Len(r.out) = 0
  BY <1>2
<1>6. ViewOf(r, start)
  <2>1. \E j \in 1 .. Len(log) + 1 : r.file_offset = start[j]
    <3>1. 1 \in 1 .. Len(log) + 1
      BY <1>1
    <3>2. QED BY <1>2, <1>4, <3>1
  <2>2. Len(r.buf) <= ParserSize /\ Len(r.buf) <= r.file_offset /\ r.file_offset <= Len(file) /\ r.before <= Len(log)
    BY <1>1, <1>2, <1>5
  <2>3. \A j \in 1 .. Len(r.buf) : r.buf[j] = file[r.file_offset - Len(r.buf) + j]
    BY <1>5
  <2>4. QED BY <1>2, <1>4, <2>1, <2>2, <2>3 DEF ViewOf
<1>7. StateOf(r)
  BY <1>2 DEF StateOf
<1>8. AlignOf(r, start)
  <2>1. r.file_offset - Len(r.buf) + r.offset = 0 /\ Len(r.out) + 1 = 1
    <3>1. 0 - 0 + 0 = 0 /\ 0 + 1 = 1
      OBVIOUS
    <3>2. r.file_offset = 0 /\ Len(r.buf) = 0 /\ r.offset = 0 /\ Len(r.out) = 0
      BY <1>2, <1>5
    <3>3. QED BY <3>1, <3>2
  <2>2. QED BY <1>4, <2>1 DEF AlignOf
<1>9. FitOf(r) /\ FailOf(r)
  BY <1>2 DEF FitOf, FailOf
<1>10. OutOf(r)
  <2>1. DOMAIN r.out = {}
    BY <1>2
  <2>2. QED BY <2>1 DEF OutOf
<1>11. QED BY <1>3, <1>6, <1>7, <1>8, <1>9, <1>10 DEF Fine, r

\* A file without cells has no records in it.
LEMMA NoRecords ==
    ASSUME NEW start, FileInv(start), Len(file) = 0
    PROVE  Len(log) = 0
<1>1. Len(log) \in Nat /\ \A i \in 1 .. Len(log) + 1 : start[i] \in Nat
  BY FileTypes
<1>2. start[1] = 0 /\ start[Len(log) + 1] = 0
  BY DEF FileInv
<1>3. CASE Len(log) # 0
  <2>1. 1 \in 1 .. Len(log) + 1 /\ Len(log) + 1 \in 1 + 1 .. Len(log) + 1
    BY <1>1, <1>3
  <2>2. start[1] < start[Len(log) + 1]
    BY <2>1, StartMono
  <2>3. QED BY <1>2, <2>2
<1>4. QED BY <1>3

\* The first read: it fails when there is nothing to read.
LEMMA FirstReadFine ==
    ASSUME NEW start, FileInv(start), NEW o, Fine(o, start), o.st = "sized"
    PROVE  Fine(binlog_parse_read([o EXCEPT !.st = "top"]), start)
<1> DEFINE q == [o EXCEPT !.st = "top"]
           r == binlog_parse_read(q)
<1>1. o \in Parsers /\ ViewOf(o, start) /\ AlignOf(o, start) /\ OutOf(o) /\ StateOf(o)
  BY DEF Fine
<1>2. o.buf = <<>> /\ o.offset = 0 /\ o.file_offset = 0 /\ o.out = <<>>
  BY <1>1 DEF StateOf
<1>3. /\ q \in Parsers /\ q.st = "top" /\ q.buf = o.buf /\ q.offset = o.offset /\ q.file_offset = o.file_offset
      /\ q.out = o.out /\ q.before = o.before /\ q.file_size = o.file_size
  BY <1>1 DEF Parsers
<1> HIDE DEF q
<1>4. ViewOf(q, start) /\ AlignOf(q, start) /\ OutOf(q)
  BY <1>1, <1>3, SameView
<1>5. Len(q.buf) = 0 /\ q.offset = 0 /\ Len(q.out) = 0
  BY <1>2, <1>3
<1>6. q.offset <= Len(q.buf) /\ q.before \in Nat /\ ParserSize \in Nat /\ ParserSize > 0
  BY <1>3, <1>5, ParserTypes
<1>7. CASE Read(q) = <<>>
  <2>1. r = [q EXCEPT !.st = "abort"]
    BY <1>7 DEF binlog_parse_read
  <2> HIDE DEF r
  <2>2. /\ r \in Parsers /\ r.st = "abort" /\ r.buf = q.buf /\ r.offset = q.offset /\ r.file_offset = q.file_offset
        /\ r.out = q.out /\ r.before = q.before /\ r.file_size = q.file_size
    BY <1>3, <2>1 DEF Parsers
  <2>3. ViewOf(r, start) /\ AlignOf(r, start) /\ OutOf(r)
    BY <1>4, <2>2, SameView
  <2>4. q.file_offset = Len(file) \/ Len(q.buf) - q.offset = ParserSize
    BY <1>3, <1>4, <1>6, <1>7, ReadView
  <2>5. Len(file) = 0
    BY <1>2, <1>3, <1>5, <1>6, <2>4
  <2>6. file = <<>>
    <3>1. file \in Seq(CellSet)
      BY FileTypes
    <3>2. QED BY <2>5, <3>1
  <2>7. Len(log) = 0
    BY <2>5, NoRecords
  <2>8. r.before = 0
    <3>1. q.before <= Len(log)
      BY <1>4 DEF ViewOf
    <3>2. QED BY <1>6, <2>2, <2>7, <3>1
  <2>9. FailOf(r)
    <3>1. Len(r.out) >= r.before
      BY <1>5, <2>2, <2>8
    <3>2. QED BY <2>2, <2>6, <3>1 DEF FailOf
  <2>10. StateOf(r) /\ FitOf(r)
    BY <2>2 DEF StateOf, FitOf
  <2>11. Fine(r, start)
    BY <2>2, <2>3, <2>9, <2>10 DEF Fine
  <2>12. QED BY <2>11 DEF r, q
<1>8. CASE Read(q) # <<>>
  <2>1. /\ r \in Parsers /\ ViewOf(r, start) /\ AlignOf(r, start) /\ OutOf(r) /\ r.offset = 0 /\ r.st = q.st
        /\ Len(r.buf) > Len(q.buf) - q.offset
    BY <1>3, <1>4, <1>6, <1>8, ReadPlace
  <2> HIDE DEF r
  <2>2. Len(r.buf) \in Nat /\ Len(r.buf) > 0
    <3>1. Len(r.buf) \in Nat
      BY <2>1, ParserTypes
    <3>2. QED BY <1>5, <2>1, <3>1
  <2>3. StateOf(r)
    <3>1. ~AtEnd(r)
      BY <2>1, <2>2 DEF AtEnd
    <3>2. QED BY <1>3, <2>1, <3>1 DEF StateOf
  <2>4. FitOf(r) /\ FailOf(r)
    BY <1>3, <2>1, <2>2 DEF FitOf, FailOf
  <2>5. Fine(r, start)
    BY <2>1, <2>3, <2>4 DEF Fine
  <2>6. QED BY <2>5 DEF r, q
<1>9. QED BY <1>7, <1>8

\* The assertion in binlog_parse_read at the head of the loop fails only when
\* the file has grown and all that was there before is shown.
LEMMA HeadAbortFine ==
    ASSUME NEW start, FileInv(start), NEW q, Fine(q, start), q.st = "top", q.offset = Len(q.buf), Read(q) = <<>>
    PROVE  Fine([q EXCEPT !.st = "abort"], start)
<1> DEFINE r == [q EXCEPT !.st = "abort"]
           k == Len(q.out)
<1>1. q \in Parsers /\ ViewOf(q, start) /\ AlignOf(q, start) /\ OutOf(q) /\ StateOf(q)
  BY DEF Fine
<1>2. /\ r \in Parsers /\ r.st = "abort" /\ r.buf = q.buf /\ r.offset = q.offset /\ r.file_offset = q.file_offset
      /\ r.out = q.out /\ r.before = q.before /\ r.file_size = q.file_size
  BY <1>1 DEF Parsers
<1> HIDE DEF r
<1>3. ViewOf(r, start) /\ AlignOf(r, start) /\ OutOf(r)
  BY <1>1, <1>2, SameView
<1>4. /\ Len(q.buf) \in Nat /\ q.file_offset \in Nat /\ q.before \in Nat /\ q.file_size \in Nat
      /\ ParserSize \in Nat /\ ParserSize > 0 /\ k \in Nat
  BY <1>1, ParserTypes
<1>5. /\ Len(log) \in Nat /\ Len(file) \in Nat /\ \A i \in 1 .. Len(log) + 1 : start[i] \in Nat /\ start[i] <= Len(file)
  BY FileTypes
<1>6. q.file_offset = Len(file)
  <2>1. q.offset <= Len(q.buf) /\ Len(q.buf) - q.offset = 0
    BY <1>4
  <2>2. q.file_offset = Len(file) \/ Len(q.buf) - q.offset = ParserSize
    BY <1>1, <2>1, ReadView
  <2>3. QED BY <1>4, <2>1, <2>2
<1>7. Len(file) > q.file_size
  <2>1. q.file_offset # q.file_size
    BY <1>1 DEF StateOf, AtEnd
  <2>2. q.before + 1 \in 1 .. Len(log) + 1 /\ q.file_size = start[q.before + 1]
    BY <1>1, <1>4, <1>5 DEF ViewOf
  <2>3. q.file_size <= Len(file)
    BY <1>5, <2>2
  <2>4. QED BY <1>4, <1>5, <1>6, <2>1, <2>3
<1>8. ASSUME Torn = {} PROVE k >= q.before
  <2>1. k <= Len(log) /\ k + 1 \in 1 .. Len(log) + 1 /\ q.file_offset - Len(q.buf) + q.offset = start[k + 1]
    BY <1>1, <1>8, OnTrack
  <2>2. start[k + 1] = Len(file) /\ start[Len(log) + 1] = Len(file)
    <3>1. q.file_offset - Len(q.buf) + Len(q.buf) = q.file_offset
      BY <1>4
    <3>2. QED BY <1>6, <2>1, <3>1 DEF FileInv
  <2>3. k = Len(log)
    <3>1. CASE k # Len(log)
      <4>1. Len(log) + 1 \in k + 1 + 1 .. Len(log) + 1
        BY <1>4, <1>5, <2>1, <3>1
      <4>2. start[k + 1] < start[Len(log) + 1]
        BY <2>1, <4>1, StartMono
      <4>3. QED BY <1>5, <2>2, <4>2
    <3>2. QED BY <3>1
  <2>4. q.before <= Len(log)
    BY <1>1 DEF ViewOf
  <2>5. QED BY <1>4, <1>5, <2>3, <2>4
<1>9. FailOf(r)
  BY <1>2, <1>7, <1>8 DEF FailOf
<1>10. StateOf(r) /\ FitOf(r)
  BY <1>2 DEF StateOf, FitOf
<1>11. QED BY <1>2, <1>3, <1>9, <1>10 DEF Fine, r

\* The length of the next record is where it should be, unless it lies just
\* beyond a full buffer.
LEMMA LengthFine ==
    ASSUME NEW start, FileInv(start), NEW q \in Parsers, ViewOf(q, start), AlignOf(q, start), OutOf(q), q.st = "top",
           Torn = {} /\ ~Large => q.offset + 1 <= Len(q.buf)
    PROVE  LET i == q.offset + 2
           IN  Fine(IF i > Len(q.buf) \/ q.buf[i][1] # "length" THEN [q EXCEPT !.st = "ub"]
                    ELSE [q EXCEPT !.st = "record", !.len = q.buf[i][2]], start)
<1> DEFINE i == q.offset + 2
           k == Len(q.out) + 1
           bad == i > Len(q.buf) \/ q.buf[i][1] # "length"
<1>1. /\ Len(q.buf) \in Nat /\ q.offset \in Nat /\ q.file_offset \in Nat /\ q.buf \in Seq(CellSet) /\ ParserSize \in Nat
      /\ Len(q.out) \in Nat /\ k \in Nat
  BY ParserTypes
<1>2. CASE bad
  <2> DEFINE r == [q EXCEPT !.st = "ub"]
  <2>1. /\ r \in Parsers /\ r.st = "ub" /\ r.buf = q.buf /\ r.offset = q.offset /\ r.file_offset = q.file_offset
        /\ r.out = q.out /\ r.before = q.before /\ r.file_size = q.file_size
    BY DEF Parsers
  <2> HIDE DEF r
  <2>2. ViewOf(r, start) /\ AlignOf(r, start) /\ OutOf(r)
    BY <2>1, SameView
  <2>3. StateOf(r) /\ FitOf(r)
    BY <2>1 DEF StateOf, FitOf
  <2>4. ASSUME Torn = {}, ~Large PROVE q.offset + 1 = Len(q.buf) /\ Len(q.buf) = ParserSize
    <3> DEFINE rec == log[k].rec
               size == RecordSize(rec)
    <3>1. q.offset + 1 <= Len(q.buf) /\ \A j \in Torn : k < j
      BY <2>4
    <3>2. /\ k \in 1 .. Len(log) /\ rec \in Records /\ size \in Nat /\ size >= 4
          /\ q.file_offset - Len(q.buf) + q.offset = start[k] /\ start[k + 1] = start[k] + size
          /\ start[k] \in Nat /\ start[k + 1] \in Nat
          /\ InBuf(q.buf, q.offset, rec)
      BY <3>1, AtRecord
    <3>3. Len(log) \in Nat /\ \A j \in 1 .. Len(log) + 1 : start[j] \in Nat
      BY FileTypes
    <3> HIDE DEF rec
    <3>4. RecordCells(rec, size)[2] = LenCell(size)
      BY <3>2, Layout
    <3> HIDE DEF size
    <3>5. i > Len(q.buf)
      <4>1. CASE i <= Len(q.buf)
        <5>1. 2 \in 1 .. size
          BY <3>2
        <5>2. q.buf[q.offset + 2] = RecordCells(rec, size)[2]
          BY <3>2, <4>1, <5>1 DEF InBuf, size
        <5>3. q.buf[i][1] = "length"
          BY <3>4, <5>2 DEF LenCell
        <5>4. i > Len(q.buf)
          BY <1>2, <5>3
        <5>5. QED BY <5>4
      <4>2. QED BY <1>1, <4>1
    <3>6. q.offset + 1 = Len(q.buf)
      BY <1>1, <3>1, <3>5
    <3>7. q.file_offset = start[k] + 1
      <4>1. \A f, l, o, s \in Nat : o + 1 = l /\ f - l + o = s => f = s + 1
        OBVIOUS
      <4>2. q.file_offset - Len(q.buf) + q.offset = start[k] /\ start[k] \in Nat
        BY <3>2
      <4>3. QED BY <1>1, <3>6, <4>1, <4>2, SMTT(30)
    <3>8. Len(q.buf) = ParserSize
      <4>1. CASE \E j \in 1 .. Len(log) + 1 : q.file_offset = start[j]
        <5>1. PICK j \in 1 .. Len(log) + 1 : q.file_offset = start[j]
          BY <4>1
        <5>2. start[j] = start[k] + 1 /\ start[j] \in Nat /\ j \in Nat
          BY <3>3, <3>7, <5>1
        <5>3. k \in 1 .. Len(log) + 1 /\ k + 1 \in 1 .. Len(log) + 1
          BY <3>2, <3>3
        <5>4. CASE j = k
          BY <3>2, <5>2, <5>4
        <5>5. CASE j = k + 1
          BY <3>2, <5>2, <5>5
        <5>6. CASE j < k
          <6>1. k \in j + 1 .. Len(log) + 1
            BY <5>2, <5>3, <5>6, <3>3
          <6>2. start[j] < start[k]
            BY <6>1, StartMono
          <6>3. QED BY <3>2, <5>2, <6>2
        <5>7. CASE j > k + 1
          <6>1. j \in k + 1 + 1 .. Len(log) + 1
            BY <1>1, <5>1, <5>2, <5>7, <3>3
          <6>2. start[k + 1] < start[j]
            BY <5>3, <6>1, StartMono
          <6>3. QED BY <3>2, <5>2, <6>2
        <5>8. QED BY <1>1, <5>2, <5>4, <5>5, <5>6, <5>7
      <4>2. QED BY <4>1 DEF ViewOf
    <3>9. QED BY <3>6, <3>8
  <2>5. FailOf(r)
    BY <2>1, <2>4 DEF FailOf
  <2>6. QED BY <1>2, <2>1, <2>2, <2>3, <2>5 DEF Fine, r
<1>3. CASE ~bad
  <2> DEFINE c == q.buf[i]
             r == [q EXCEPT !.st = "record", !.len = c[2]]
  <2>1. i \in 1 .. Len(q.buf) /\ c[1] = "length"
    BY <1>1, <1>3
  <2>2. c \in CellSet
    BY <1>1, <2>1
  <2> HIDE DEF c
  <2>3. c[2] \in Nat /\ c = LenCell(c[2])
    BY <2>1, <2>2, CellFacts
  <2>4. /\ r \in Parsers /\ r.st = "record" /\ r.buf = q.buf /\ r.offset = q.offset /\ r.file_offset = q.file_offset
        /\ r.out = q.out /\ r.before = q.before /\ r.file_size = q.file_size /\ r.len = c[2]
    BY <2>3 DEF Parsers
  <2> HIDE DEF r
  <2>5. ViewOf(r, start) /\ AlignOf(r, start) /\ OutOf(r)
    BY <2>4, SameView
  <2>6. r.offset + 2 <= Len(r.buf) /\ r.buf[r.offset + 2] = LenCell(r.len)
    <3>1. q.offset + 2 <= Len(q.buf) /\ q.buf[q.offset + 2] = c
      BY <2>1 DEF c
    <3>2. QED BY <2>3, <2>4, <3>1
  <2>7. StateOf(r) /\ FitOf(r) /\ FailOf(r)
    BY <2>4, <2>6 DEF StateOf, FitOf, FailOf
  <2>8. Fine(r, start)
    BY <2>4, <2>5, <2>7 DEF Fine
  <2>9. QED BY <1>3, <2>8 DEF r, c
<1>4. QED BY <1>2, <1>3

\* The head of the loop.
LEMMA ParseLengthFine ==
    ASSUME NEW start, FileInv(start), Fine(p, start), ParseLength
    PROVE  Fine(p', start)
<1> DEFINE q == IF p.offset = Len(p.buf) THEN binlog_parse_read(p) ELSE p
           i == q.offset + 2
<1>1. /\ p.st = "top"
      /\ p' = IF q.st = "abort" THEN q
              ELSE IF i > Len(q.buf) \/ q.buf[i][1] # "length" THEN [q EXCEPT !.st = "ub"]
              ELSE [q EXCEPT !.st = "record", !.len = q.buf[i][2]]
  BY DEF ParseLength
<1>2. p \in Parsers /\ ViewOf(p, start) /\ AlignOf(p, start) /\ OutOf(p) /\ FitOf(p)
  BY DEF Fine
<1>3. Len(p.buf) \in Nat /\ p.offset \in Nat
  BY <1>2, ParserTypes
<1>4. CASE p.offset = Len(p.buf) /\ Read(p) = <<>>
  <2>1. q = [p EXCEPT !.st = "abort"]
    BY <1>4 DEF binlog_parse_read
  <2>2. q.st = "abort"
    BY <1>2, <2>1 DEF Parsers
  <2>3. p' = [p EXCEPT !.st = "abort"]
    BY <1>1, <2>1, <2>2
  <2>4. QED BY <1>1, <1>4, <2>3, HeadAbortFine
<1>5. CASE ~(p.offset = Len(p.buf) /\ Read(p) = <<>>)
  <2>1. /\ q \in Parsers /\ ViewOf(q, start) /\ AlignOf(q, start) /\ OutOf(q) /\ q.st = "top"
        /\ Torn = {} /\ ~Large => q.offset + 1 <= Len(q.buf)
    <3>1. CASE p.offset = Len(p.buf)
      <4>1. q = binlog_parse_read(p) /\ p.offset <= Len(p.buf) /\ Read(p) # <<>>
        BY <1>3, <1>5, <3>1
      <4> HIDE DEF q
      <4>2. /\ q \in Parsers /\ ViewOf(q, start) /\ AlignOf(q, start) /\ OutOf(q) /\ q.offset = 0 /\ q.st = p.st
            /\ Len(q.buf) > Len(p.buf) - p.offset
        BY <1>2, <4>1, ReadPlace
      <4>3. Len(q.buf) \in Nat
        BY <4>2, ParserTypes
      <4>4. Len(p.buf) - p.offset = 0
        BY <1>3, <3>1
      <4>5. q.offset + 1 <= Len(q.buf)
        BY <4>2, <4>3, <4>4
      <4>6. QED BY <1>1, <4>2, <4>5
    <3>2. CASE p.offset # Len(p.buf)
      <4>1. q = p
        BY <3>2
      <4>2. Torn = {} /\ ~Large => p.offset + 1 <= Len(p.buf)
        BY <1>1, <1>2, <1>3, <3>2 DEF FitOf
      <4>3. QED BY <1>1, <1>2, <4>1, <4>2
    <3>3. QED BY <3>1, <3>2
  <2> HIDE DEF q
  <2>2. p' = IF i > Len(q.buf) \/ q.buf[i][1] # "length" THEN [q EXCEPT !.st = "ub"]
              ELSE [q EXCEPT !.st = "record", !.len = q.buf[i][2]]
    BY <1>1, <2>1
  <2>3. QED BY <2>1, <2>2, LengthFine
<1>6. QED BY <1>4, <1>5

-----------------------------------------------------------------------------
\* The length that the parser took is the size of the next record.
LEMMA LengthIsSize ==
    ASSUME NEW start, FileInv(start), NEW q, Fine(q, start), q.st = "record", \A j \in Torn : Len(q.out) + 1 < j
    PROVE  LET k == Len(q.out) + 1
           IN  /\ k \in 1 .. Len(log) /\ k + 1 \in 1 .. Len(log) + 1 /\ log[k].size = q.len /\ RecordSize(log[k].rec) = q.len
               /\ q.file_offset - Len(q.buf) + q.offset = start[k] /\ start[k + 1] = start[k] + q.len
<1> DEFINE k == Len(q.out) + 1
           rec == log[k].rec
           size == RecordSize(rec)
<1>1. /\ q \in Parsers /\ ViewOf(q, start) /\ AlignOf(q, start) /\ OutOf(q)
      /\ q.offset + 2 <= Len(q.buf) /\ q.buf[q.offset + 2] = LenCell(q.len)
  BY DEF Fine, StateOf
<1>2. Len(q.buf) \in Nat /\ q.offset \in Nat /\ q.len \in Nat /\ Len(q.out) \in Nat
  BY <1>1, ParserTypes
<1>3. q.offset + 1 <= Len(q.buf)
  BY <1>1, <1>2
<1>4. /\ k \in 1 .. Len(log) /\ rec \in Records /\ log[k].size = size /\ size \in Nat /\ size >= 4
      /\ q.file_offset - Len(q.buf) + q.offset = start[k] /\ start[k + 1] = start[k] + size
      /\ InBuf(q.buf, q.offset, rec)
  BY <1>1, <1>3, AtRecord
<1>5. Len(log) \in Nat
  BY FileTypes
<1> HIDE DEF rec
<1>6. RecordCells(rec, size)[2] = LenCell(size)
  BY <1>4, Layout
<1>7. q.buf[q.offset + 2] = RecordCells(rec, size)[2]
  <2>1. 2 \in 1 .. size
    BY <1>4
  <2>2. QED BY <1>1, <1>4, <2>1 DEF InBuf
<1>8. q.len = size
  BY <1>1, <1>6, <1>7 DEF LenCell
<1>9. k + 1 \in 1 .. Len(log) + 1
  BY <1>4, <1>5
<1>10. QED BY <1>4, <1>8, <1>9 DEF rec

\* Without torn or large records the assertion in the read of the rest of a
\* record holds.
LEMMA RestAbortFine ==
    ASSUME NEW start, FileInv(start), NEW q, Fine(q, start), q.st = "record", ~HasRecord(q), Read(q) = <<>>
    PROVE  Fine([q EXCEPT !.st = "abort"], start)
<1> DEFINE r == [q EXCEPT !.st = "abort"]
<1>1. q \in Parsers /\ ViewOf(q, start) /\ AlignOf(q, start) /\ OutOf(q) /\ q.offset + 2 <= Len(q.buf)
  BY DEF Fine, StateOf
<1>2. /\ r \in Parsers /\ r.st = "abort" /\ r.buf = q.buf /\ r.offset = q.offset /\ r.file_offset = q.file_offset
      /\ r.out = q.out /\ r.before = q.before /\ r.file_size = q.file_size
  BY <1>1 DEF Parsers
<1> HIDE DEF r
<1>3. ViewOf(r, start) /\ AlignOf(r, start) /\ OutOf(r)
  BY <1>1, <1>2, SameView
<1>4. StateOf(r) /\ FitOf(r)
  BY <1>2 DEF StateOf, FitOf
<1>5. ASSUME Torn = {}, ~Large PROVE FALSE
  <2> DEFINE k == Len(q.out) + 1
  <2>1. /\ k \in 1 .. Len(log) /\ k + 1 \in 1 .. Len(log) + 1 /\ log[k].size = q.len
        /\ q.file_offset - Len(q.buf) + q.offset = start[k] /\ start[k + 1] = start[k] + q.len
    <3>1. \A j \in Torn : k < j
      BY <1>5
    <3>2. QED BY <3>1, LengthIsSize
  <2>2. /\ Len(log) \in Nat /\ DOMAIN log = 1 .. Len(log) /\ Len(file) \in Nat
        /\ \A i \in 1 .. Len(log) + 1 : start[i] \in Nat /\ start[i] <= Len(file)
    BY FileTypes
  <2>3. k \in 1 .. Len(log) + 1
    BY <2>1, <2>2
  <2> HIDE DEF k
  <2>4. start[k] \in Nat /\ start[k + 1] <= Len(file)
    BY <2>1, <2>2, <2>3
  <2>5. /\ Len(q.buf) \in Nat /\ q.offset \in Nat /\ q.len \in Nat /\ q.file_offset \in Nat /\ ParserSize \in Nat
    BY <1>1, ParserTypes
  <2>6. q.len <= ParserSize
    <3>1. ~(log[k].size > ParserSize)
      BY <1>5, <2>1, <2>2 DEF Large
    <3>2. QED BY <2>1, <2>5, <3>1
  <2>7. q.offset <= Len(q.buf)
    BY <1>1, <2>5
  <2>8. q.file_offset = Len(file) \/ Len(q.buf) - q.offset = ParserSize
    BY <1>1, <2>7, ReadView
  <2>9. q.len + q.offset > Len(q.buf)
    BY <2>5 DEF HasRecord
  <2>10. CASE q.file_offset = Len(file)
    <3>1. \A f, l, o, s, n \in Nat : o <= l /\ f - l + o = s /\ s + n <= f => n + o <= l
      OBVIOUS
    <3>2. q.file_offset - Len(q.buf) + q.offset = start[k] /\ start[k] + q.len <= q.file_offset
      BY <2>1, <2>4, <2>10
    <3>3. q.len + q.offset <= Len(q.buf)
      BY <2>4, <2>5, <2>7, <3>1, <3>2
    <3>4. QED BY <2>5, <2>9, <3>3
  <2>11. CASE Len(q.buf) - q.offset = ParserSize
    BY <2>5, <2>6, <2>9, <2>11
  <2>12. QED BY <2>8, <2>10, <2>11
<1>6. FailOf(r)
  BY <1>5 DEF FailOf
<1>7. Fine(r, start)
  BY <1>2, <1>3, <1>4, <1>6 DEF Fine
<1>8. QED BY <1>7 DEF r

\* A record that is moved over itself begins in the first half of a full
\* buffer.
LEMMA OverlapFine ==
    ASSUME NEW start, FileInv(start), NEW q, Fine(q, start), q.st = "record", ~HasRecord(q), Overlaps(q)
    PROVE  Fine([q EXCEPT !.st = "ub"], start)
<1> DEFINE r == [q EXCEPT !.st = "ub"]
<1>1. q \in Parsers /\ ViewOf(q, start) /\ AlignOf(q, start) /\ OutOf(q) /\ q.offset + 2 <= Len(q.buf)
  BY DEF Fine, StateOf
<1>2. /\ r \in Parsers /\ r.st = "ub" /\ r.buf = q.buf /\ r.offset = q.offset /\ r.file_offset = q.file_offset
      /\ r.out = q.out /\ r.before = q.before /\ r.file_size = q.file_size /\ r.len = q.len
  BY <1>1 DEF Parsers
<1> HIDE DEF r
<1>3. ViewOf(r, start) /\ AlignOf(r, start) /\ OutOf(r)
  BY <1>1, <1>2, SameView
<1>4. StateOf(r) /\ FitOf(r)
  BY <1>2 DEF StateOf, FitOf
<1>5. /\ Len(q.buf) \in Nat /\ q.offset \in Nat /\ q.len \in Nat /\ q.file_offset \in Nat /\ ParserSize \in Nat
  BY <1>1, ParserTypes
<1>6. q.len + q.offset > Len(q.buf) /\ Len(q.buf) - q.offset > q.offset
  BY <1>5 DEF HasRecord, Overlaps
<1>7. ASSUME Torn = {}, Len(q.buf) # ParserSize PROVE FALSE
  <2> DEFINE k == Len(q.out) + 1
  <2>1. /\ k \in 1 .. Len(log) /\ k + 1 \in 1 .. Len(log) + 1
        /\ q.file_offset - Len(q.buf) + q.offset = start[k] /\ start[k + 1] = start[k] + q.len
    <3>1. \A j \in Torn : k < j
      BY <1>7
    <3>2. QED BY <3>1, LengthIsSize
  <2>2. Len(log) \in Nat /\ \A i \in 1 .. Len(log) + 1 : start[i] \in Nat
    BY FileTypes
  <2>3. PICK j \in 1 .. Len(log) + 1 : q.file_offset = start[j]
    BY <1>1, <1>7 DEF ViewOf
  <2> HIDE DEF k
  <2>4. k \in 1 .. Len(log) + 1 /\ start[k] \in Nat /\ start[j] \in Nat /\ start[k + 1] \in Nat
    BY <2>1, <2>2, <2>3
  <2>5. \A f, l, o, s, n \in Nat : f - l + o = s /\ o + 2 <= l /\ n + o > l => s < f /\ f < s + n
    <3> TAKE f, l, o, s, n \in Nat
    <3> HAVE f - l + o = s /\ o + 2 <= l /\ n + o > l
    <3>1. f = s + (l - o) /\ l - o >= 2 /\ n > l - o
      OBVIOUS
    <3>2. QED BY <3>1
  <2>6. start[k] < start[j] /\ start[j] < start[k + 1]
    <3>1. q.file_offset - Len(q.buf) + q.offset = start[k] /\ start[k] \in Nat
      BY <2>1, <2>4
    <3>2. q.offset + 2 <= Len(q.buf) /\ q.len + q.offset > Len(q.buf)
      BY <1>1, <1>6
    <3>3. start[k] < q.file_offset /\ q.file_offset < start[k] + q.len
      <4> DEFINE f == q.file_offset
                 l == Len(q.buf)
                 o == q.offset
                 s == start[k]
                 len == q.len
      <4>1. f \in Nat /\ l \in Nat /\ o \in Nat /\ s \in Nat /\ len \in Nat
        BY <1>5, <3>1
      <4>2. f - l + o = s /\ o + 2 <= l /\ len + o > l
        BY <3>1, <3>2
      <4> HIDE DEF f, l, o, s, len
      <4>3. s < f /\ f < s + len
        BY <2>5, <4>1, <4>2
      <4>4. QED BY <4>3 DEF f, s, len
    <3>4. QED BY <2>1, <2>3, <3>3
  <2>7. CASE j < k
    <3>1. k \in j + 1 .. Len(log) + 1
      BY <2>2, <2>3, <2>4, <2>7
    <3>2. start[j] < start[k]
      BY <2>3, <3>1, StartMono
    <3>3. QED BY <2>4, <2>6, <3>2
  <2>8. CASE j > k + 1
    <3>1. j \in k + 1 + 1 .. Len(log) + 1
      BY <2>1, <2>2, <2>3, <2>8
    <3>2. start[k + 1] < start[j]
      BY <2>1, <3>1, StartMono
    <3>3. QED BY <2>4, <2>6, <3>2
  <2>9. CASE j = k \/ j = k + 1
    BY <2>4, <2>6, <2>9
  <2>10. QED BY <2>3, <2>4, <2>7, <2>8, <2>9
<1>8. FailOf(r)
  <2>1. SUFFICES ASSUME Torn = {}
                 PROVE  Len(q.buf) = ParserSize /\ 2 * q.offset < ParserSize /\ q.offset + q.len > ParserSize
    BY <1>2 DEF FailOf
  <2>2. Len(q.buf) = ParserSize
    BY <1>7, <2>1
  <2>3. \A l, o, n \in Nat : n + o > l /\ l - o > o => 2 * o < l /\ o + n > l
    OBVIOUS
  <2>4. QED BY <1>5, <1>6, <2>2, <2>3
<1>9. Fine(r, start)
  BY <1>2, <1>3, <1>4, <1>8 DEF Fine
<1>10. QED BY <1>9 DEF r

\* A parser about to show a record: it stands at its beginning and has, if no
\* record is torn or too large, all of it.
Ready(q, start) ==
    /\ q \in Parsers /\ ViewOf(q, start) /\ AlignOf(q, start) /\ OutOf(q) /\ q.st = "record" /\ q.offset + 1 <= Len(q.buf)
    /\ (\A j \in Torn : Len(q.out) + 1 < j) => q.len = RecordSize(log[Len(q.out) + 1].rec)
    /\ Torn = {} /\ ~Large => q.offset + q.len <= Len(q.buf)

\* With the record in the buffer it is ready.
LEMMA ReadyWithout ==
    ASSUME NEW start, FileInv(start), NEW q, Fine(q, start), q.st = "record", HasRecord(q)
    PROVE  Ready(q, start)
<1>1. q \in Parsers /\ ViewOf(q, start) /\ AlignOf(q, start) /\ OutOf(q) /\ q.offset + 2 <= Len(q.buf)
  BY DEF Fine, StateOf
<1>2. Len(q.buf) \in Nat /\ q.offset \in Nat /\ q.len \in Nat
  BY <1>1, ParserTypes
<1>3. q.offset + 1 <= Len(q.buf) /\ q.offset + q.len <= Len(q.buf)
  BY <1>1, <1>2 DEF HasRecord
<1>4. (\A j \in Torn : Len(q.out) + 1 < j) => q.len = RecordSize(log[Len(q.out) + 1].rec)
  BY LengthIsSize
<1>5. QED BY <1>1, <1>3, <1>4 DEF Ready

\* With a part of it, it is ready after one read.
LEMMA ReadyAfter ==
    ASSUME NEW start, FileInv(start), NEW q, Fine(q, start), q.st = "record", Read(q) # <<>>
    PROVE  Ready(binlog_parse_read(q), start)
<1> DEFINE r == binlog_parse_read(q)
           k == Len(q.out) + 1
<1>1. q \in Parsers /\ ViewOf(q, start) /\ AlignOf(q, start) /\ OutOf(q) /\ q.offset + 2 <= Len(q.buf)
  BY DEF Fine, StateOf
<1>2. Len(q.buf) \in Nat /\ q.offset \in Nat /\ q.len \in Nat /\ q.file_offset \in Nat /\ ParserSize \in Nat
  BY <1>1, ParserTypes
<1>3. q.offset <= Len(q.buf) /\ Len(q.buf) - q.offset \in Nat
  BY <1>1, <1>2
<1>4. /\ r \in Parsers /\ ViewOf(r, start) /\ AlignOf(r, start) /\ OutOf(r) /\ r.offset = 0 /\ r.st = q.st
      /\ r.len = q.len /\ r.out = q.out /\ Len(r.buf) > Len(q.buf) - q.offset
      /\ r.file_offset - Len(r.buf) = q.file_offset - Len(q.buf) + q.offset
      /\ Len(r.buf) = ParserSize \/ r.file_offset = Len(file)
  BY <1>1, <1>3, ReadPlace
<1> HIDE DEF r
<1>5. Len(r.buf) \in Nat /\ r.file_offset \in Nat
  BY <1>4, ParserTypes
<1>6. r.offset + 1 <= Len(r.buf)
  BY <1>3, <1>4, <1>5
<1>7. (\A j \in Torn : Len(r.out) + 1 < j) => r.len = RecordSize(log[Len(r.out) + 1].rec)
  BY <1>4, LengthIsSize
<1>8. ASSUME Torn = {}, ~Large PROVE r.offset + r.len <= Len(r.buf)
  <2>1. /\ k \in 1 .. Len(log) /\ k + 1 \in 1 .. Len(log) + 1 /\ log[k].size = q.len
        /\ q.file_offset - Len(q.buf) + q.offset = start[k] /\ start[k + 1] = start[k] + q.len
    <3>1. \A j \in Torn : k < j
      BY <1>8
    <3>2. QED BY <3>1, LengthIsSize
  <2>2. /\ Len(log) \in Nat /\ DOMAIN log = 1 .. Len(log) /\ Len(file) \in Nat
        /\ \A i \in 1 .. Len(log) + 1 : start[i] \in Nat /\ start[i] <= Len(file)
    BY FileTypes
  <2>3. k \in 1 .. Len(log) + 1
    BY <2>1, <2>2
  <2> HIDE DEF k
  <2>4. start[k] \in Nat /\ start[k + 1] <= Len(file)
    BY <2>1, <2>2, <2>3
  <2>5. q.len <= ParserSize
    <3>1. ~(log[k].size > ParserSize)
      BY <1>8, <2>1, <2>2 DEF Large
    <3>2. QED BY <1>2, <2>1, <3>1
  <2>6. q.len <= Len(r.buf)
    <3>1. CASE Len(r.buf) = ParserSize
      BY <2>5, <3>1
    <3>2. CASE r.file_offset = Len(file)
      <4>1. \A f, l, s, n \in Nat : f - l = s /\ s + n <= f => n <= l
        OBVIOUS
      <4>2. r.file_offset - Len(r.buf) = start[k] /\ start[k] + q.len <= r.file_offset
        BY <1>4, <2>1, <2>4, <3>2
      <4>3. QED BY <1>2, <1>5, <2>4, <4>1, <4>2
    <3>3. QED BY <1>4, <3>1, <3>2
  <2>7. QED BY <1>2, <1>4, <2>6
<1>9. Ready(r, start)
  BY <1>4, <1>6, <1>7, <1>8 DEF Ready
<1>10. QED BY <1>9 DEF r

-----------------------------------------------------------------------------
\* What a parser that is ready has before it.
LEMMA AtReady ==
    ASSUME NEW start, FileInv(start), NEW q, Ready(q, start), \A j \in Torn : Len(q.out) + 1 < j
    PROVE  LET k == Len(q.out) + 1
               rec == log[k].rec
           IN  /\ k \in 1 .. Len(log) /\ k \in DOMAIN log /\ rec \in Records /\ RecordSize(rec) = q.len
               /\ q.len \in Nat /\ q.len >= 4
               /\ q.file_offset - Len(q.buf) + q.offset = start[k] /\ start[k + 1] = start[k] + q.len
               /\ InBuf(q.buf, q.offset, rec)
               /\ q.offset + 3 <= Len(q.buf) => q.buf[q.offset + 3] = Prefix(rec)
<1> DEFINE k == Len(q.out) + 1
           rec == log[k].rec
           size == RecordSize(rec)
<1>1. /\ q \in Parsers /\ ViewOf(q, start) /\ AlignOf(q, start) /\ OutOf(q) /\ q.offset + 1 <= Len(q.buf) /\ q.len = size
  BY DEF Ready
<1>2. /\ k \in 1 .. Len(log) /\ rec \in Records /\ size \in Nat /\ size >= 4
      /\ q.file_offset - Len(q.buf) + q.offset = start[k] /\ start[k + 1] = start[k] + size
      /\ InBuf(q.buf, q.offset, rec)
  BY <1>1, AtRecord
<1>3. DOMAIN log = 1 .. Len(log)
  BY FileTypes
<1> HIDE DEF rec
<1>4. RecordCells(rec, size)[3] = Prefix(rec)
  BY <1>2, Layout
<1>5. ASSUME q.offset + 3 <= Len(q.buf) PROVE q.buf[q.offset + 3] = Prefix(rec)
  <2>1. 3 \in 1 .. size
    BY <1>2
  <2>2. q.buf[q.offset + 3] = RecordCells(rec, size)[3]
    BY <1>2, <1>5, <2>1 DEF InBuf
  <2>3. QED BY <1>4, <2>2
<1>6. QED BY <1>1, <1>2, <1>3, <1>5 DEF rec

\* A parser that fails here is as fine as its excuse.
LEMMA FailedFine ==
    ASSUME NEW start, NEW q, Ready(q, start), NEW s \in {"abort", "ub", "segv"},
           Torn = {} /\ ~Large /\ ~Misread => s = "segv" /\ \E i \in DOMAIN log : log[i].rec.key \notin Json
    PROVE  Fine([q EXCEPT !.st = s], start)
<1> DEFINE r == [q EXCEPT !.st = s]
<1>1. q \in Parsers /\ ViewOf(q, start) /\ AlignOf(q, start) /\ OutOf(q)
  BY DEF Ready
<1>2. /\ r \in Parsers /\ r.st = s /\ r.buf = q.buf /\ r.offset = q.offset /\ r.file_offset = q.file_offset
      /\ r.out = q.out /\ r.before = q.before /\ r.file_size = q.file_size
  BY <1>1 DEF Parsers
<1> HIDE DEF r
<1>3. ViewOf(r, start) /\ AlignOf(r, start) /\ OutOf(r)
  BY <1>1, <1>2, SameView
<1>4. StateOf(r) /\ FitOf(r) /\ FailOf(r)
  BY <1>2 DEF StateOf, FitOf, FailOf
<1>5. Fine(r, start)
  BY <1>2, <1>3, <1>4 DEF Fine
<1>6. QED BY <1>5 DEF r

\* The prefix is there.
LEMMA PrefixThere ==
    ASSUME NEW start, FileInv(start), NEW q, Ready(q, start), Torn = {}, ~Large
    PROVE  /\ q.offset + 3 <= Len(q.buf) /\ q.buf[q.offset + 3] = Prefix(log[Len(q.out) + 1].rec)
           /\ Len(q.out) + 1 \in DOMAIN log
<1>1. q \in Parsers /\ q.offset + q.len <= Len(q.buf)
  BY DEF Ready
<1>2. Len(q.buf) \in Nat /\ q.offset \in Nat
  BY <1>1, ParserTypes
<1>3. /\ q.len \in Nat /\ q.len >= 4 /\ Len(q.out) + 1 \in DOMAIN log
      /\ q.offset + 3 <= Len(q.buf) => q.buf[q.offset + 3] = Prefix(log[Len(q.out) + 1].rec)
  BY AtReady
<1>4. q.offset + 3 <= Len(q.buf)
  BY <1>1, <1>2, <1>3
<1>5. QED BY <1>3, <1>4

\* Nor do the arguments fail, if the two scanners agree.
LEMMA ArgumentsThere ==
    ASSUME NEW start, FileInv(start), NEW q, Ready(q, start), Torn = {}, ~Large, ~Misread
    PROVE  GetArgs(q.buf, q.offset, q.len, Formats[q.buf[q.offset + 3][2]].reads).end = "ok"
<1> DEFINE rec == log[Len(q.out) + 1].rec
<1>1. q \in Parsers /\ q.offset + q.len <= Len(q.buf)
  BY DEF Ready
<1>2. q.buf \in Seq(CellSet) /\ q.offset \in Nat
  BY <1>1, ParserTypes
<1>3. q.buf[q.offset + 3] = Prefix(rec) /\ Len(q.out) + 1 \in DOMAIN log
  BY PrefixThere
<1>4. rec \in Records /\ RecordSize(rec) = q.len /\ InBuf(q.buf, q.offset, rec)
  BY AtReady
<1>5. q.buf[q.offset + 3][2] = rec.key
  BY <1>3 DEF Prefix
<1>6. \A k \in DOMAIN rec.args : ~(k > Len(rec.logged) \/ rec.logged[k].type # rec.args[k].type)
  BY <1>3 DEF Misread
<1> HIDE DEF rec
<1>7. \A k \in 1 .. Len(rec.args) : k <= Len(rec.logged) /\ rec.logged[k].type = rec.args[k].type
  <2>1. Len(rec.logged) \in Nat /\ Len(rec.args) \in Nat /\ DOMAIN rec.args = 1 .. Len(rec.args)
    <3>1. rec.args \in Seq(ArgSet) /\ rec.logged \in Seq(ArgSet)
      BY <1>4, RecordFacts
    <3>2. QED BY <3>1
  <2>2. QED BY <1>6, <2>1
<1>8. GetArgs(q.buf, q.offset, RecordSize(rec), Formats[rec.key].reads).end = "ok"
  <2>1. q.offset + RecordSize(rec) <= Len(q.buf)
    BY <1>1, <1>4
  <2>2. QED BY <1>2, <1>4, <1>7, <2>1, GetArgsShown
<1>9. QED BY <1>4, <1>5, <1>8

\* the arguments v of the record before the parser can be read
Readable(q, v) ==
    /\ v \in VSet /\ v.end = "ok" /\ q.offset + 3 <= Len(q.buf)
    /\ v = GetArgs(q.buf, q.offset, q.len, Formats[q.buf[q.offset + 3][2]].reads)

\* The parser shows a record: if it is whole, as are those before it, it is
\* the next one, and the parser comes to where that ends.
LEMMA ShowFine ==
    ASSUME NEW start, FileInv(start), NEW q, Ready(q, start), NEW v, Readable(q, v)
    PROVE  \A n \in Nat :
             LET r == [q EXCEPT !.out = Append(q.out, [prefix |-> q.buf[q.offset + 3], vals |-> v.vals]),
                                !.offset = q.offset + q.len]
             IN  Fine(IF AtEnd(r) THEN [r EXCEPT !.st = "done", !.saved = Len(r.out)]
                      ELSE [r EXCEPT !.st = "top", !.saved = n], start)
<1> TAKE n \in Nat
<1> DEFINE e == [prefix |-> q.buf[q.offset + 3], vals |-> v.vals]
           O == [prefix : CellSet, vals : Seq(Seq(CellSet))]
           out == Append(q.out, e)
           to == q.offset + q.len
           r == [q EXCEPT !.out = out, !.offset = to]
           x == IF AtEnd(r) THEN [r EXCEPT !.st = "done", !.saved = Len(r.out)] ELSE [r EXCEPT !.st = "top", !.saved = n]
           k == Len(q.out) + 1
<1>1. q \in Parsers /\ ViewOf(q, start) /\ AlignOf(q, start) /\ OutOf(q)
  BY DEF Ready
<1>2. /\ q.buf \in Seq(CellSet) /\ Len(q.buf) \in Nat /\ q.offset \in Nat /\ q.file_offset \in Nat /\ q.len \in Nat
      /\ q.out \in Seq(O) /\ Len(q.out) \in Nat /\ DOMAIN q.out = 1 .. Len(q.out)
  BY <1>1, ParserTypes
<1>3. e \in O /\ e.prefix = q.buf[q.offset + 3] /\ e.vals = v.vals
  <2>1. q.offset + 3 \in 1 .. Len(q.buf)
    <3>1. q.offset + 3 <= Len(q.buf)
      BY DEF Readable
    <3>2. QED BY <1>2, <3>1
  <2>2. q.buf[q.offset + 3] \in CellSet
    BY <1>2, <2>1
  <2>3. v.vals \in Seq(Seq(CellSet))
    BY DEF Readable, VSet
  <2>4. QED BY <2>2, <2>3
<1>4. e = [prefix |-> q.buf[q.offset + 3], vals |-> v.vals]
  OBVIOUS
<1> HIDE DEF e
<1>5. Parsers = [st : {"off", "sized", "top", "record", "abort", "ub", "segv", "done"}, buf : Seq(CellSet),
            offset : Nat, len : Nat, file_offset : Nat, file_size : Nat, out : Seq(O), saved : Nat, before : Nat]
  BY DEF Parsers
<1> HIDE DEF O
<1>6. out \in Seq(O) /\ Len(out) = k /\ DOMAIN out = 1 .. k /\ out[k] = e /\ \A i \in 1 .. k - 1 : out[i] = q.out[i]
  BY <1>2, <1>3
<1>7. to \in Nat
  BY <1>2
<1> HIDE DEF out
<1>8. r \in Parsers /\ r.buf = q.buf /\ r.offset = to /\ r.file_offset = q.file_offset
      /\ r.out = out /\ r.before = q.before /\ r.file_size = q.file_size
  BY <1>1, <1>5, <1>6, <1>7
<1> HIDE DEF r
<1>9. /\ x \in Parsers /\ x.buf = q.buf /\ x.offset = to /\ x.file_offset = q.file_offset
      /\ x.out = out /\ x.before = q.before /\ x.file_size = q.file_size /\ x.st \in {"done", "top"}
      /\ x.st = "done" <=> AtEnd(r)
      /\ x.st = "done" => x.saved = Len(x.out)
  <2>1. Len(r.out) \in Nat
    BY <1>2, <1>6, <1>8
  <2> DEFINE l == Len(r.out)
  <2>2. x = IF AtEnd(r) THEN [r EXCEPT !.st = "done", !.saved = l] ELSE [r EXCEPT !.st = "top", !.saved = n]
    OBVIOUS
  <2>3. l = Len(out)
    BY <1>8
  <2>4. l \in Nat
    BY <2>1
  <2> HIDE DEF l, x
  <2>5. CASE AtEnd(r)
    <3>1. x = [r EXCEPT !.st = "done", !.saved = l]
      BY <2>2, <2>5
    <3>2. QED BY <1>5, <1>8, <2>3, <2>4, <2>5, <3>1
  <2>6. CASE ~AtEnd(r)
    <3>1. x = [r EXCEPT !.st = "top", !.saved = n]
      BY <2>2, <2>6
    <3>2. QED BY <1>5, <1>8, <2>6, <3>1
  <2>7. QED BY <2>5, <2>6
<1> HIDE DEF x
<1>10. AtEnd(x) <=> AtEnd(r)
  BY <1>8, <1>9 DEF AtEnd
<1>11. StateOf(x)
  BY <1>9, <1>10 DEF StateOf
<1>12. FailOf(x)
  BY <1>9 DEF FailOf
<1>13. ViewOf(x, start)
  BY <1>1, <1>9 DEF ViewOf
<1>14. FitOf(x)
  <2>1. Torn = {} /\ ~Large => to <= Len(q.buf)
    BY DEF Ready
  <2> HIDE DEF to
  <2>2. QED BY <1>9, <2>1 DEF FitOf
<1>15. ASSUME \A j \in Torn : k < j
       PROVE  /\ k \in 1 .. Len(log) /\ e = Shown(log[k].rec)
              /\ q.file_offset - Len(q.buf) + q.offset = start[k] /\ start[k + 1] = start[k] + q.len
  <2> DEFINE rec == log[k].rec
  <2>1. /\ k \in 1 .. Len(log) /\ rec \in Records /\ RecordSize(rec) = q.len
        /\ q.file_offset - Len(q.buf) + q.offset = start[k] /\ start[k + 1] = start[k] + q.len
        /\ InBuf(q.buf, q.offset, rec) /\ q.buf[q.offset + 3] = Prefix(rec)
    BY <1>15, AtReady DEF Readable
  <2> HIDE DEF rec
  <2>2. q.buf[q.offset + 3][2] = rec.key
    BY <2>1 DEF Prefix
  <2>3. v = GetArgs(q.buf, q.offset, RecordSize(rec), Formats[rec.key].reads)
    BY <2>1, <2>2 DEF Readable
  <2>4. v.vals = [i \in DOMAIN rec.args |-> ArgCells(rec.args[i])]
    <3>1. LET g == GetArgs(q.buf, q.offset, RecordSize(rec), Formats[rec.key].reads)
          IN  g.end = "ok" => g.vals = [i \in DOMAIN rec.args |-> ArgCells(rec.args[i])]
      BY <1>2, <2>1, GetArgsShown
    <3>2. v.end = "ok"
      BY DEF Readable
    <3>3. QED BY <2>3, <3>1, <3>2
  <2>5. e = Shown(rec)
    BY <1>4, <2>1, <2>4 DEF Shown
  <2>6. QED BY <2>1, <2>5 DEF rec
<1>16. DOMAIN log = 1 .. Len(log) /\ Len(log) \in Nat /\ \A j \in 1 .. Len(log) + 1 : start[j] \in Nat
  BY FileTypes
<1>17. OutOf(x)
  <2>1. SUFFICES ASSUME NEW i \in 1 .. k, \A j \in Torn : i < j
        PROVE  i <= Len(log) /\ out[i] = Shown(log[i].rec)
    BY <1>6, <1>9 DEF OutOf
  <2>2. CASE i = k
    <3>1. k \in 1 .. Len(log) /\ e = Shown(log[k].rec)
      BY <1>15, <2>1, <2>2
    <3>2. QED BY <1>6, <1>16, <2>2, <3>1
  <2>3. CASE i # k
    <3>1. i \in 1 .. k - 1 /\ i \in DOMAIN q.out
      BY <1>2, <2>3
    <3>2. i <= Len(log) /\ q.out[i] = Shown(log[i].rec)
      BY <1>1, <2>1, <3>1 DEF OutOf
    <3>3. QED BY <1>6, <3>1, <3>2
  <2>4. QED BY <2>2, <2>3
<1>18. AlignOf(x, start)
  <2>1. SUFFICES ASSUME Clean(k) PROVE q.file_offset - Len(q.buf) + to = start[k + 1]
    BY <1>6, <1>9 DEF AlignOf
  <2>2. \A j \in Torn : k < j
    <3>1. ASSUME NEW j \in Torn, ~(k < j) PROVE FALSE
      <4>1. j \in 1 .. Len(log) /\ log[j].torn
        BY <1>16, <3>1 DEF Torn
      <4>2. j \in 1 .. k
        BY <1>2, <3>1, <4>1
      <4>3. QED BY <2>1, <4>1, <4>2 DEF Clean
    <3>2. QED BY <3>1
  <2>3. /\ k \in 1 .. Len(log) /\ q.file_offset - Len(q.buf) + q.offset = start[k] /\ start[k + 1] = start[k] + q.len
    BY <1>15, <2>2
  <2>4. start[k] \in Nat
    BY <1>16, <2>3
  <2>5. \A f, l, o, s, z \in Nat : f - l + o = s => f - l + (o + z) = s + z
    OBVIOUS
  <2>6. q.file_offset - Len(q.buf) + q.offset = start[k] /\ start[k] \in Nat /\ start[k + 1] = start[k] + q.len
    BY <2>3, <2>4
  <2> HIDE DEF k
  <2>7. q.file_offset - Len(q.buf) + (q.offset + q.len) = start[k] + q.len
    BY <1>2, <2>5, <2>6
  <2>8. QED BY <2>6, <2>7
<1>19. Fine(x, start)
  BY <1>9, <1>11, <1>12, <1>13, <1>14, <1>17, <1>18 DEF Fine
<1>20. QED BY <1>19 DEF x, r, out, e

-----------------------------------------------------------------------------
\* The rest of an iteration.
LEMMA ParseRecordFine ==
    ASSUME NEW start, FileInv(start), Fine(p, start), ParseRecord
    PROVE  Fine(p', start)
<1> DEFINE q == IF HasRecord(p) THEN p ELSE binlog_parse_read(p)
           i == q.offset + 3
           key == q.buf[i][2]
           v == GetArgs(q.buf, q.offset, q.len, Formats[key].reads)
           r == [q EXCEPT !.out = Append(q.out, [prefix |-> q.buf[i], vals |-> v.vals]), !.offset = q.offset + q.len]
           bad == i > Len(q.buf) \/ q.buf[i][1] # "prefix"
           N == p.saved .. Len(p.out) + 1
           shown(n) == IF AtEnd(r) THEN [r EXCEPT !.st = "done", !.saved = Len(r.out)]
                       ELSE [r EXCEPT !.st = "top", !.saved = n]
<1>1. /\ p.st = "record"
      /\ \/ ~HasRecord(p) /\ Overlaps(p) /\ p' = [p EXCEPT !.st = "ub"]
         \/ \E n \in N :
              p' = IF q.st = "abort" THEN q
                   ELSE IF bad THEN [q EXCEPT !.st = "ub"]
                   ELSE IF key \notin Json THEN [q EXCEPT !.st = "segv"]
                   ELSE IF v.end # "ok" THEN [q EXCEPT !.st = v.end]
                   ELSE shown(n)
  BY DEF ParseRecord
<1> SUFFICES ASSUME NEW n \in N,
                    p' = IF q.st = "abort" THEN q
                         ELSE IF bad THEN [q EXCEPT !.st = "ub"]
                         ELSE IF key \notin Json THEN [q EXCEPT !.st = "segv"]
                         ELSE IF v.end # "ok" THEN [q EXCEPT !.st = v.end]
                         ELSE shown(n)
             PROVE  Fine(p', start)
  <2>1. CASE ~HasRecord(p) /\ Overlaps(p) /\ p' = [p EXCEPT !.st = "ub"]
    BY <1>1, <2>1, OverlapFine
  <2>2. QED BY <1>1, <2>1
<1> HIDE DEF N
<1>2. p \in Parsers
  BY DEF Fine
<1>3. CASE ~HasRecord(p) /\ Read(p) = <<>>
  <2>1. q = [p EXCEPT !.st = "abort"]
    BY <1>3 DEF binlog_parse_read
  <2>2. q.st = "abort"
    BY <1>2, <2>1 DEF Parsers
  <2>3. p' = [p EXCEPT !.st = "abort"]
    BY <2>1, <2>2
  <2>4. ~HasRecord(p) /\ Read(p) = <<>> /\ p.st = "record"
    BY <1>1, <1>3
  <2> HIDE DEF q
  <2>5. Fine([p EXCEPT !.st = "abort"], start)
    BY <2>4, RestAbortFine
  <2>6. QED BY <2>3, <2>5
<1>4. CASE ~(~HasRecord(p) /\ Read(p) = <<>>)
  <2>1. Ready(q, start)
    <3>1. CASE HasRecord(p)
      BY <1>1, <3>1, ReadyWithout
    <3>2. CASE ~HasRecord(p)
      BY <1>1, <1>4, <3>2, ReadyAfter
    <3>3. QED BY <3>1, <3>2
  <2> HIDE DEF q
  <2> HIDE DEF shown
  <2>2. q \in Parsers /\ q.st = "record"
    BY <2>1 DEF Ready
  <2>3. q.buf \in Seq(CellSet) /\ Len(q.buf) \in Nat /\ q.offset \in Nat /\ q.len \in Nat
    BY <2>2, ParserTypes
  <2>4. p' = IF bad THEN [q EXCEPT !.st = "ub"]
             ELSE IF key \notin Json THEN [q EXCEPT !.st = "segv"]
             ELSE IF v.end # "ok" THEN [q EXCEPT !.st = v.end]
             ELSE shown(n)
    BY <2>2
  <2>5. ASSUME Torn = {}, ~Large
        PROVE  ~bad /\ key = log[Len(q.out) + 1].rec.key /\ Len(q.out) + 1 \in DOMAIN log
    <3>1. /\ q.offset + 3 <= Len(q.buf) /\ q.buf[q.offset + 3] = Prefix(log[Len(q.out) + 1].rec)
          /\ Len(q.out) + 1 \in DOMAIN log
      BY <2>1, <2>5, PrefixThere
    <3>2. q.buf[i][1] = "prefix" /\ q.buf[i][2] = log[Len(q.out) + 1].rec.key
      BY <3>1 DEF Prefix
    <3>3. ~(i > Len(q.buf))
      <4>1. \A a, b \in Nat : a + 3 <= b => ~(a + 3 > b)
        OBVIOUS
      <4>2. QED BY <2>3, <3>1, <4>1
    <3>4. QED BY <3>1, <3>2, <3>3
  <2>6. CASE bad
    <3>1. p' = [q EXCEPT !.st = "ub"]
      BY <2>4, <2>6
    <3>2. Fine([q EXCEPT !.st = "ub"], start)
      BY <2>1, <2>5, <2>6, FailedFine
    <3>3. QED BY <3>1, <3>2
  <2>7. CASE ~bad /\ key \notin Json
    <3>1. p' = [q EXCEPT !.st = "segv"]
      BY <2>4, <2>7
    <3>2. Torn = {} /\ ~Large => \E j \in DOMAIN log : log[j].rec.key \notin Json
      BY <2>5, <2>7
    <3>3. Fine([q EXCEPT !.st = "segv"], start)
      BY <2>1, <3>2, FailedFine
    <3>4. QED BY <3>1, <3>3
  <2>8. CASE ~bad /\ key \in Json
    <3>1. v \in VSet
      <4>1. key \in DOMAIN Formats
        BY <2>8, BinlogAssumption
      <4> HIDE DEF key
      <4>2. Formats[key].reads \in Seq(Types)
        BY <4>1, FormatFacts
      <4>3. Len(Formats[key].reads) \in Nat
        BY <4>2
      <4>4. QED BY <2>3, <4>3, GetArgsType
    <3>2. v.end \in {"ok", "abort", "ub"}
      BY <3>1 DEF VSet
    <3>3. CASE v.end # "ok"
      <4>1. p' = [q EXCEPT !.st = v.end]
        BY <2>4, <2>8, <3>3
      <4>2. ~(Torn = {} /\ ~Large /\ ~Misread)
        BY <2>1, <3>3, ArgumentsThere
      <4> HIDE DEF v
      <4>3. Fine([q EXCEPT !.st = v.end], start)
        BY <2>1, <3>2, <3>3, <4>2, FailedFine
      <4>4. QED BY <4>1, <4>3
    <3>4. CASE v.end = "ok"
      <4>1. p' = shown(n)
        BY <2>4, <2>8, <3>4
      <4>2. q.offset + 3 <= Len(q.buf)
        BY <2>3, <2>8
      <4>3. v = GetArgs(q.buf, q.offset, q.len, Formats[q.buf[q.offset + 3][2]].reads)
        OBVIOUS
      <4> HIDE DEF v
      <4>4. Readable(q, v)
        BY <3>1, <3>4, <4>2, <4>3 DEF Readable
      <4>5. \A m \in Nat : Fine(shown(m), start)
        BY <2>1, <4>4, ShowFine DEF shown
      <4>6. n \in Nat
        <5>1. p.saved \in Nat
          BY <1>2 DEF Parsers
        <5>2. QED BY <5>1 DEF N
      <4>7. QED BY <4>1, <4>5, <4>6
    <3>5. QED BY <3>3, <3>4
  <2>9. QED BY <2>6, <2>7, <2>8
<1>5. QED BY <1>3, <1>4

-----------------------------------------------------------------------------
\* Nothing has been written and no parser has been started.
LEMMA InitHolds == Init => IInv
<1> SUFFICES ASSUME Init PROVE IInv
  OBVIOUS
<1> DEFINE start == [i \in 1 .. 1 |-> 0]
           O == [prefix : CellSet, vals : Seq(Seq(CellSet))]
           R == [rec : Records, size : Nat, torn : BOOLEAN]
<1>1. w = [t \in Threads |-> Idle] /\ begun = 0 /\ file = <<>> /\ log = <<>> /\ p = Off
  BY DEF Init
<1>2. WriterInv
  <2>1. begun \in 0 .. MaxRecords
    BY <1>1, BinlogAssumption
  <2>2. Idle.st = "idle"
    BY DEF Idle
  <2>3. w \in [Threads -> {Idle} \cup Writers]
    BY <1>1
  <2>4. \A t \in Threads : w[t].st # "args"
    BY <1>1, <2>2
  <2>5. QED BY <2>1, <2>3, <2>4 DEF WriterInv
<1>3. Len(log) = 0 /\ Len(file) = 0 /\ log \in Seq(R) /\ file \in Seq(CellSet) /\ Len(log) + 1 = 1
  BY <1>1
<1>4. start \in [1 .. Len(log) + 1 -> Nat] /\ start[1] = 0
  BY <1>3
<1> HIDE DEF start
<1>5. FileInv(start)
  BY <1>3, <1>4 DEF FileInv
<1>6. /\ Off.st = "off" /\ Off.buf = <<>> /\ Off.offset = 0 /\ Off.len = 0 /\ Off.file_offset = 0 /\ Off.file_size = 0
      /\ Off.out = <<>> /\ Off.before = 0
  BY DEF Off
<1>7. Off \in Parsers
  <2>1. <<>> \in Seq(CellSet) /\ <<>> \in Seq(O)
    OBVIOUS
  <2> DEFINE B == Seq(CellSet)
             OO == Seq(O)
  <2>2. Parsers = [st : {"off", "sized", "top", "record", "abort", "ub", "segv", "done"}, buf : B,
            offset : Nat, len : Nat, file_offset : Nat, file_size : Nat, out : OO, saved : Nat, before : Nat]
    BY DEF Parsers
  <2>3. <<>> \in B /\ <<>> \in OO
    BY <2>1
  <2> HIDE DEF B, OO
  <2>4. QED BY <2>2, <2>3 DEF Off
<1>8. Len(Off.buf) = 0 /\ Len(Off.out) = 0 /\ DOMAIN Off.out = {} /\ ParserSize \in Nat /\ ParserSize >= 0
  <2>1. ParserSize \in Nat
    BY BinlogAssumption
  <2>2. QED BY <1>6, <2>1
<1>9. ViewOf(Off, start)
  <2>1. Off.before + 1 = 1 /\ 1 \in 1 .. Len(log) + 1 /\ Off.before <= Len(log)
    BY <1>3, <1>6
  <2>2. \E j \in 1 .. Len(log) + 1 : Off.file_offset = start[j]
    BY <1>4, <1>6, <2>1
  <2>3. \A j \in 1 .. Len(Off.buf) : Off.buf[j] = file[Off.file_offset - Len(Off.buf) + j]
    BY <1>8
  <2>4. Len(Off.buf) <= ParserSize /\ Len(Off.buf) <= Off.file_offset /\ Off.file_offset <= Len(file)
    BY <1>3, <1>6, <1>8
  <2>5. Off.file_size = start[Off.before + 1]
    BY <1>4, <1>6, <2>1
  <2>6. QED BY <2>1, <2>2, <2>3, <2>4, <2>5 DEF ViewOf
<1>10. StateOf(Off) /\ FitOf(Off) /\ FailOf(Off)
  BY <1>6 DEF StateOf, FitOf, FailOf
<1>11. AlignOf(Off, start)
  <2>1. 0 - 0 + 0 = 0 /\ 0 + 1 = 1
    OBVIOUS
  <2>2. Off.file_offset - Len(Off.buf) + Off.offset = 0 /\ Len(Off.out) + 1 = 1
    BY <1>6, <1>8, <2>1
  <2>3. QED BY <1>4, <2>2 DEF AlignOf
<1>12. OutOf(Off)
  BY <1>8 DEF OutOf
<1>13. Fine(p, start)
  BY <1>1, <1>7, <1>9, <1>10, <1>11, <1>12 DEF Fine
<1>14. Inv(start)
  BY <1>2, <1>5, <1>13, InvIs
<1>15. QED BY <1>4, <1>14 DEF IInv

\* The invariant of the next state, put together.
LEMMA InvNext ==
    ASSUME NEW s, WriterInv', FileInv(s)', Fine(p, s)', s \in [1 .. Len(log') + 1 -> Nat]
    PROVE  IInv'
<1>1. (ParserInv(s) /\ ParsedInOrder /\ FailuresExplained)'
  BY DEF ParserInv, Fine, ParsedInOrder, OutOf, FailuresExplained, FailOf
<1>2. Inv(s)'
  BY <1>1 DEF Inv
<1>3. QED BY <1>2 DEF IInv

\* Each step keeps it.
LEMMA StepHolds == ASSUME IInv, [Next]_vars PROVE IInv'
<1>1. PICK start \in [1 .. Len(log) + 1 -> Nat] : Inv(start)
  BY DEF IInv
<1>2. WriterInv /\ FileInv(start) /\ Fine(p, start)
  BY <1>1, InvIs
<1>3. WriterInv'
  BY <1>2, WriterStep
<1>4. ASSUME NEW r, Fine(r, start), p' = r, UNCHANGED <<file, log>> PROVE IInv'
  <2>1. FileInv(start)' /\ Fine(p, start)'
    BY <1>2, <1>4, ParserSet
  <2>2. start \in [1 .. Len(log') + 1 -> Nat]
    BY <1>1, <1>4
  <2>3. QED BY <1>3, <2>1, <2>2, InvNext
<1>5. ASSUME UNCHANGED <<file, log, p>> PROVE IInv'
  BY <1>2, <1>4, <1>5
<1>6. CASE BinlogCreate \/ BinlogDestroy \/ Crash
  BY <1>5, <1>6 DEF BinlogCreate, BinlogDestroy, Crash
<1>7. CASE \E t \in Threads, key \in DOMAIN Formats, str \in Strs : BinlogPrint(t, key, str)
  BY <1>5, <1>7 DEF BinlogPrint
<1>8. CASE \E t \in Threads : PrintArg(t)
  BY <1>5, <1>8 DEF PrintArg
<1>9. ASSUME NEW t \in Threads, NEW n \in Cuts \cup {Finished(w[t]).offset}, PrintEnd(t, n) PROVE IInv'
  <2>1. w[t].st = "args" /\ w[t].next > Len(w[t].rec.logged)
    BY <1>9 DEF PrintEnd
  <2>2. w[t] \in Writers /\ Holds(w[t])
    BY <1>2, <2>1, Printing
  <2>3. Finished(w[t]).offset \in Nat
    BY <2>1, <2>2, FinishedHolds
  <2>4. n \in Nat
    BY <2>3, BinlogAssumption
  <2>5. \E s \in [1 .. Len(log') + 1 -> Nat] : FileInv(s)' /\ Fine(p, s)'
    BY <1>2, <1>9, <2>4, Appended
  <2>6. PICK s \in [1 .. Len(log') + 1 -> Nat] : FileInv(s)' /\ Fine(p, s)'
    BY <2>5
  <2>7. QED BY <1>3, <2>6, InvNext
<1>10. CASE ParserCreate
  <2>1. p' = [Off EXCEPT !.st = "sized", !.file_size = Len(file), !.before = Len(log)] /\ UNCHANGED <<file, log>>
    BY <1>10 DEF ParserCreate
  <2>2. Fine([Off EXCEPT !.st = "sized", !.file_size = Len(file), !.before = Len(log)], start)
    BY <1>2, CreateFine
  <2>3. QED BY <1>4, <2>1, <2>2
<1>11. CASE ParserFirstRead
  <2>1. p' = binlog_parse_read([p EXCEPT !.st = "top"]) /\ p.st = "sized" /\ UNCHANGED <<file, log>>
    BY <1>11 DEF ParserFirstRead
  <2>2. Fine(binlog_parse_read([p EXCEPT !.st = "top"]), start)
    BY <1>2, <2>1, FirstReadFine
  <2>3. QED BY <1>4, <2>1, <2>2
<1>12. CASE ParseLength
  <2>1. Fine(p', start)
    BY <1>2, <1>12, ParseLengthFine
  <2>2. UNCHANGED <<file, log>>
    BY <1>12 DEF ParseLength
  <2>3. QED BY <1>4, <2>1, <2>2
<1>13. CASE ParseRecord
  <2>1. Fine(p', start)
    BY <1>2, <1>13, ParseRecordFine
  <2>2. UNCHANGED <<file, log>>
    BY <1>13 DEF ParseRecord
  <2>3. QED BY <1>4, <2>1, <2>2
<1>14. CASE UNCHANGED vars
  BY <1>5, <1>14 DEF vars
<1>15. QED BY <1>6, <1>7, <1>8, <1>9, <1>10, <1>11, <1>12, <1>13, <1>14 DEF Next

\* A parser that ends well has shown what was there when it was started.
LEMMA DoneHolds == ASSUME IInv PROVE DoneIsComplete
<1> SUFFICES ASSUME p.st = "done", Torn = {} PROVE p.saved = Len(p.out) /\ Len(p.out) = p.before
  BY DEF DoneIsComplete
<1> DEFINE k == Len(p.out)
<1>1. PICK start \in [1 .. Len(log) + 1 -> Nat] : Inv(start)
  BY DEF IInv
<1>2. FileInv(start) /\ Fine(p, start)
  BY <1>1, InvIs
<1>3. p \in Parsers /\ ViewOf(p, start) /\ AlignOf(p, start) /\ OutOf(p) /\ StateOf(p)
  BY <1>2 DEF Fine
<1>4. p.file_offset = p.file_size /\ p.offset = Len(p.buf) /\ p.saved = k
  BY <1>3 DEF StateOf, AtEnd
<1>5. Len(p.buf) \in Nat /\ p.file_offset \in Nat /\ p.before \in Nat /\ k \in Nat
  BY <1>3, ParserTypes
<1>6. Len(log) \in Nat /\ \A i \in 1 .. Len(log) + 1 : start[i] \in Nat
  BY <1>2, FileTypes
<1>7. k + 1 \in 1 .. Len(log) + 1 /\ p.file_offset - Len(p.buf) + p.offset = start[k + 1]
  BY <1>2, <1>3, OnTrack
<1>8. p.before <= Len(log) /\ p.file_size = start[p.before + 1]
  BY <1>3 DEF ViewOf
<1>9. start[k + 1] = start[p.before + 1]
  <2>1. p.file_offset - Len(p.buf) + Len(p.buf) = p.file_offset
    BY <1>5
  <2>2. QED BY <1>4, <1>7, <1>8, <2>1
<1> HIDE DEF k
<1>10. CASE k < p.before
  <2>1. p.before + 1 \in k + 1 + 1 .. Len(log) + 1
    BY <1>5, <1>6, <1>8, <1>10
  <2>2. start[k + 1] < start[p.before + 1]
    BY <1>2, <1>7, <2>1, StartMono
  <2>3. QED BY <1>6, <1>7, <1>9, <2>2
<1>11. CASE k > p.before
  <2>1. k + 1 \in p.before + 1 + 1 .. Len(log) + 1 /\ p.before + 1 \in 1 .. Len(log) + 1
    BY <1>5, <1>6, <1>7, <1>8, <1>11
  <2>2. start[p.before + 1] < start[k + 1]
    BY <1>2, <2>1, StartMono
  <2>3. QED BY <1>6, <1>7, <1>9, <2>2
<1>12. QED BY <1>4, <1>5, <1>10, <1>11 DEF k

\* The invariant of the binary log: every buffer holds its record, the file is
\* the records one after the other, and the parser, which sees a window of
\* it, stands where a record begins until the first torn one.
THEOREM Invariant == Spec => []IInv
<1>1. IInv /\ [Next]_vars => IInv'
  BY StepHolds
<1>2. QED BY <1>1, InitHolds, PTL DEF Spec

\* For every buffer size and every format, binlog_maybe_realloc makes enough
\* room for what is stored after it, keeps what was stored, and print_end
\* writes a record whose length cell says how long it is.
THEOREM BuffersHoldRecords == Spec => []BufferHoldsRecord
<1>1. IInv => BufferHoldsRecord
  BY WriterInvImplies DEF IInv, Inv
<1>2. QED BY <1>1, Invariant, PTL

\* However reads cut the records and whatever is appended meanwhile, the
\* parser prints them in order, up to the first torn one.
THEOREM RecordsInOrder == Spec => []ParsedInOrder
<1>1. IInv => ParsedInOrder
  BY DEF IInv, Inv
<1>2. QED BY <1>1, Invariant, PTL

\* binlog_prase returns only when the records that were in the file when its
\* size was taken, and no other, are printed; the exit of the program then
\* writes out what stdio still holds of them.
THEOREM DoneMeansComplete == Spec => []DoneIsComplete
<1>1. IInv => DoneIsComplete
  BY DoneHolds
<1>2. QED BY <1>1, Invariant, PTL

\* On a log without torn, oversized or misread records the parser's asserts
\* fail only when the log was empty or has grown, it misuses memory only at
\* the end of a full buffer or when memcpy moves a record over itself, and it
\* passes no format only for a key that its JSON file lacks.  Of the output
\* file of a parser that aborts nothing is claimed.
THEOREM FailuresAreExplained == Spec => []FailuresExplained
<1>1. IInv => FailuresExplained
  BY DEF IInv, Inv
<1>2. QED BY <1>1, Invariant, PTL
=============================================================================
