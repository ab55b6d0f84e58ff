------------------------------ MODULE CmdPrint ------------------------------
(***************************************************************************)
(* The output buffer of the CLI server (cmdprint_t, src/src/cli/           *)
(* cli_server.c).  A command handler prints into it with cdp_print, the    *)
(* poll thread sends what cdp_output returns to the client and calls       *)
(* cdp_reinit before it serves the next one.                               *)
(*                                                                         *)
(* Memory is a function from offsets to cells.  A cell holds the print it  *)
(* belongs to (a member of Texts), the terminator NUL, or JUNK, what       *)
(* malloc and realloc leave in fresh memory.  Every function below runs    *)
(* under cdp->mutex, so each is one action.                                *)
(***************************************************************************)
EXTENDS Integers, Sequences

CONSTANTS Texts,        \* what one cdp_print call prints, as a tag
          BufInit,      \* 4096: the size cdp_init and cdp_reinit allocate
          ShrinkAbove,  \* 10240: cdp_reinit gives back a larger buffer
          MaxPrint,     \* 1024: size of the local buffer of cdp_print
          MaxBuf        \* bound: the largest buffer a behaviour grows to

NUL  == "nul"
JUNK == "junk"
SUCCESS == <<"success">>   \* the literal cdp_output returns for "no output"

ASSUME CmdPrintAssumption ==
    /\ BufInit \in Nat /\ ShrinkAbove \in Nat /\ MaxPrint \in Nat /\ MaxBuf \in Nat
    /\ 0 < BufInit /\ MaxPrint <= BufInit
    /\ Texts \cap {NUL, JUNK} = {}

VARIABLES cdp,      \* the cmdprint_t: [buf, buf_size, pos, freed]
          printed   \* history: the text accepted since the last cdp_reinit

vars == <<cdp, printed>>

Cells == Texts \cup {NUL, JUNK}
Fresh(n) == [i \in 0 .. n - 1 |-> JUNK]

-----------------------------------------------------------------------------
(***************************************************************************)
(* The functions on a cmdprint_t                                           *)
(***************************************************************************)
cdp_init == [buf |-> Fresh(BufInit), buf_size |-> BufInit, pos |-> 0, freed |-> FALSE]

\* faulty variant: the text is reset only when the buffer is given back
ReinitKeepsPos(c) ==
    IF c.buf_size > ShrinkAbove THEN cdp_init ELSE c

\* faulty variant: a large buffer is freed and replaced, its size is kept
ReinitKeepsSize(c) ==
    IF c.buf_size > ShrinkAbove
    THEN [cdp_init EXCEPT !.buf_size = c.buf_size]
    ELSE [c EXCEPT !.pos = 0]

cdp_reinit(c) ==
    IF c.buf_size > ShrinkAbove THEN cdp_init ELSE [c EXCEPT !.pos = 0]

\* buf is freed but keeps its (dangling) value
cdp_destroy(c) == [c EXCEPT !.pos = 0, !.buf_size = 0, !.freed = TRUE]

\* The memory after realloc to n cells: the old cells, then junk.
Realloc(buf, old, n) == [i \in 0 .. n - 1 |-> IF i < old THEN buf[i] ELSE JUNK]

\* faulty variant: room for the text but not for its terminator
NeedsRoomOffByOne(c, off) == off + c.pos > c.buf_size

NeedsRoom(c, off) == off + c.pos >= c.buf_size

Grown(c, off) ==
    IF NeedsRoom(c, off)
    THEN [c EXCEPT !.buf = Realloc(c.buf, c.buf_size, 2 * c.buf_size), !.buf_size = 2 * @]
    ELSE c

\* memcpy of off cells at pos, then the terminator; a store outside the
\* allocated cells hits none of them
Store(c, t, off) ==
    [buf      |-> [i \in DOMAIN c.buf |-> IF i \in c.pos .. c.pos + off - 1 THEN t
                                         ELSE IF i = c.pos + off THEN NUL ELSE c.buf[i]],
     buf_size |-> c.buf_size,
     pos      |-> c.pos + off,
     freed    |-> c.freed]

\* vsnprintf's result is refused when empty, an error, or cut off
Accepted(off) == off > 0 /\ off + 1 <= MaxPrint

cdp_print(c, t, off) == IF Accepted(off) THEN Store(Grown(c, off), t, off) ELSE c

\* what strlen sees: the cells before the first NUL
CString(buf) ==
    LET n == CHOOSE i \in DOMAIN buf : buf[i] = NUL /\ \A j \in DOMAIN buf : j < i => buf[j] # NUL
    IN  [i \in 1 .. n |-> buf[i - 1]]

cdp_output(c) == IF c.pos > 0 THEN CString(c.buf) ELSE SUCCESS

-----------------------------------------------------------------------------
Init == cdp = cdp_init /\ printed = <<>>

Repeat(t, n) == [i \in 1 .. n |-> t]

PrintText(t, off) ==
    /\ ~cdp.freed
    /\ Grown(cdp, off).buf_size <= MaxBuf
    /\ cdp' = cdp_print(cdp, t, off)
    /\ printed' = IF Accepted(off) THEN printed \o Repeat(t, off) ELSE printed

Reinit ==
    /\ ~cdp.freed
    /\ cdp' = cdp_reinit(cdp)
    /\ printed' = <<>>

\* cli_destroy has joined the poll thread before it destroys the buffer
Destroy ==
    /\ ~cdp.freed
    /\ cdp' = cdp_destroy(cdp)
    /\ printed' = <<>>

Next == \/ \E t \in Texts, off \in 0 .. MaxPrint : PrintText(t, off)
        \/ Reinit
        \/ Destroy

Spec == Init /\ [][Next]_vars

-----------------------------------------------------------------------------
\* Type invariant: the allocated memory is buf_size cells while it is live.
TypeOK ==
    /\ cdp.freed \in BOOLEAN /\ cdp.pos \in Nat /\ cdp.buf_size \in Nat
    /\ ~cdp.freed => cdp.buf \in [0 .. cdp.buf_size - 1 -> Cells]
    /\ printed \in Seq(Texts)

\* One doubling is always enough: the terminator cdp_print stores at pos lies
\* inside the allocation, after any series of prints, growths and shrinks.
TerminatorInside == ~cdp.freed => cdp.pos < cdp.buf_size

\* The C string cdp_output hands to safe_write is exactly what was printed
\* since the last cdp_reinit: nothing of an earlier reply, no fresh memory.
OutputIsPrinted ==
    ~cdp.freed => cdp_output(cdp) = IF printed = <<>> THEN SUCCESS ELSE printed
=============================================================================
