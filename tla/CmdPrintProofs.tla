-------------------------- MODULE CmdPrintProofs --------------------------
(***************************************************************************)
(* For every buffer size, print limit and bound: the output buffer never   *)
(* overflows and never hands out stale or uninitialised memory.            *)
(***************************************************************************)
EXTENDS CmdPrint, TLAPS

\* The strengthening: a live buffer starts with the printed text, ends it
\* with NUL, and is never smaller than a fresh one, so that one doubling
\* makes room for any accepted print.
Holds(c, p) ==
    /\ c.pos = Len(p)
    /\ c.pos < c.buf_size
    /\ BufInit <= c.buf_size
    /\ \A i \in 0 .. c.pos - 1 : c.buf[i] = p[i + 1]
    /\ c.pos > 0 => c.buf[c.pos] = NUL

\* A live cmdprint_t of n cells.
Live(n) == [buf : [0 .. n - 1 -> Cells], buf_size : {n}, pos : Nat, freed : {FALSE}]

IInv ==
    /\ TypeOK
    /\ ~cdp.freed => cdp \in Live(cdp.buf_size) /\ Holds(cdp, printed)

\* Growing keeps the text and makes room for an accepted print.
LEMMA GrownHolds ==
    ASSUME NEW n \in Nat, NEW c \in Live(n), NEW p \in Seq(Texts), NEW off \in Nat,
           Holds(c, p), Accepted(off)
    PROVE  \E k \in Nat : /\ Grown(c, off) \in Live(k)
                          /\ Holds(Grown(c, off), p)
                          /\ Grown(c, off).pos + off < k
<1>1. /\ c.pos \in Nat /\ c.buf_size = n /\ c.buf \in [0 .. n - 1 -> Cells] /\ c.freed = FALSE
      /\ c = [buf |-> c.buf, buf_size |-> c.buf_size, pos |-> c.pos, freed |-> c.freed]
  BY DEF Live
<1>2. c.pos < n /\ BufInit <= n /\ off > 0 /\ off < n
  BY <1>1, CmdPrintAssumption DEF Holds, Accepted
<1>3. CASE ~NeedsRoom(c, off)
  BY <1>1, <1>2, <1>3 DEF NeedsRoom, Grown
<1>4. CASE NeedsRoom(c, off)
  <2> DEFINE b == Realloc(c.buf, n, 2 * n)
             g == [buf |-> b, buf_size |-> 2 * n, pos |-> c.pos, freed |-> FALSE]
  <2>1. b \in [0 .. 2 * n - 1 -> Cells] /\ \A i \in 0 .. n - 1 : b[i] = c.buf[i]
    BY <1>1, <1>2 DEF Realloc, Cells
  <2>2. Grown(c, off) = g
    BY <1>1, <1>4 DEF Grown
  <2> HIDE DEF b
  <2>3. g \in Live(2 * n)
    BY <2>1, <1>1 DEF Live
  <2>4. Holds(g, p)
    <3>1. /\ c.pos = Len(p) /\ \A i \in 0 .. c.pos - 1 : c.buf[i] = p[i + 1]
          /\ c.pos > 0 => c.buf[c.pos] = NUL
      BY DEF Holds
    <3>2. \A i \in 0 .. c.pos - 1 : b[i] = p[i + 1]
      BY <3>1, <2>1, <1>1, <1>2
    <3>3. c.pos > 0 => b[c.pos] = NUL
      BY <3>1, <2>1, <1>1, <1>2
    <3>4. BufInit <= 2 * n /\ c.pos < 2 * n
      BY <1>1, <1>2, CmdPrintAssumption
    <3>5. QED BY <3>1, <3>2, <3>3, <3>4 DEF Holds
  <2>5. g.pos + off < 2 * n /\ 2 * n \in Nat
    BY <1>1, <1>2
  <2>6. QED BY <2>2, <2>3, <2>4, <2>5
<1>5. QED BY <1>3, <1>4

\* Storing a print that fits keeps the buffer in step with the text.
LEMMA StoreHolds ==
    ASSUME NEW n \in Nat, NEW c \in Live(n), NEW p \in Seq(Texts), NEW t \in Texts,
           NEW off \in Nat, off > 0, Holds(c, p), c.pos + off < n
    PROVE  /\ Store(c, t, off) \in Live(n)
           /\ Holds(Store(c, t, off), p \o Repeat(t, off))
<1> DEFINE m == c.pos
           q == p \o Repeat(t, off)
           f == [i \in DOMAIN c.buf |-> IF i \in m .. m + off - 1 THEN t
                                       ELSE IF i = m + off THEN NUL ELSE c.buf[i]]
           d == [buf |-> f, buf_size |-> c.buf_size, pos |-> m + off, freed |-> c.freed]
<1>1. /\ m \in Nat /\ c.buf_size = n /\ c.buf \in [0 .. n - 1 -> Cells] /\ c.freed = FALSE
      /\ DOMAIN c.buf = 0 .. n - 1
  BY DEF Live
<1>2. /\ m = Len(p) /\ BufInit <= n
      /\ \A i \in 0 .. m - 1 : c.buf[i] = p[i + 1]
  BY <1>1 DEF Holds
<1>3. Store(c, t, off) = d
  BY DEF Store
<1>4. f \in [0 .. n - 1 -> Cells]
  BY <1>1 DEF Cells
<1>5. \A i \in 0 .. n - 1 : f[i] = IF i \in m .. m + off - 1 THEN t
                                   ELSE IF i = m + off THEN NUL ELSE c.buf[i]
  BY <1>1
<1>6. /\ Len(q) = m + off
      /\ \A i \in 1 .. m : q[i] = p[i]
      /\ \A i \in m + 1 .. m + off : q[i] = t
  BY <1>1, <1>2 DEF Repeat
<1> HIDE DEF f, q
<1>7. \A i \in 0 .. m + off - 1 : f[i] = q[i + 1]
  <2>1. TAKE i \in 0 .. m + off - 1
  <2>2. CASE i < m
    BY <2>2, <1>1, <1>2, <1>5, <1>6
  <2>3. CASE m <= i
    <3>1. i \in 0 .. n - 1 /\ i \in m .. m + off - 1 /\ i + 1 \in m + 1 .. m + off
      BY <2>3, <1>1
    <3>2. QED BY <3>1, <1>5, <1>6
  <2>4. QED BY <2>2, <2>3, <1>1
<1>8. f[m + off] = NUL
  BY <1>1, <1>5
<1>9. Holds(d, q)
  BY <1>1, <1>2, <1>6, <1>7, <1>8 DEF Holds
<1>10. d \in Live(n)
  <2>1. m + off \in Nat
    BY <1>1
  <2>2. QED BY <2>1, <1>1, <1>4 DEF Live
<1>11. QED
  BY <1>3, <1>9, <1>10 DEF q

\* A fresh buffer is live, empty and in step with the empty text.
LEMMA FreshHolds == cdp_init \in Live(BufInit) /\ Holds(cdp_init, <<>>)
<1>1. Fresh(BufInit) \in [0 .. BufInit - 1 -> Cells]
  BY CmdPrintAssumption DEF Fresh, Cells
<1>2. QED BY <1>1, CmdPrintAssumption DEF cdp_init, Live, Holds

\* What a live buffer that is in step with the text contributes to TypeOK.
LEMMA LiveTyped ==
    ASSUME NEW n \in Nat, NEW c \in Live(n)
    PROVE  c.freed = FALSE /\ c.pos \in Nat /\ c.buf_size = n /\ c.buf \in [0 .. n - 1 -> Cells]
BY DEF Live

\* The empty text.
LEMMA EmptyText == <<>> \in Seq(Texts) /\ Len(<<>>) = 0 /\ \A p \in Seq(Texts) : Len(p) = 0 => p = <<>>
OBVIOUS

\* A print, accepted or refused, keeps the inductive invariant.
LEMMA PrintKeeps ==
    ASSUME IInv, NEW t \in Texts, NEW off \in 0 .. MaxPrint, PrintText(t, off)
    PROVE  IInv'
<1>1. cdp \in Live(cdp.buf_size) /\ Holds(cdp, printed) /\ cdp.buf_size \in Nat /\ off \in Nat
      /\ printed \in Seq(Texts)
  BY CmdPrintAssumption DEF IInv, PrintText, TypeOK
<1>2. CASE Accepted(off)
  <2>1. cdp' = Store(Grown(cdp, off), t, off) /\ printed' = printed \o Repeat(t, off) /\ off > 0
    BY <1>2 DEF PrintText, cdp_print, Accepted
  <2>2. PICK k \in Nat : /\ Grown(cdp, off) \in Live(k)
                         /\ Holds(Grown(cdp, off), printed)
                         /\ Grown(cdp, off).pos + off < k
    BY <1>1, <1>2, GrownHolds
  <2>3. cdp' \in Live(k) /\ Holds(cdp', printed')
    BY <2>1, <2>2, <1>1, StoreHolds
  <2>4. printed' \in Seq(Texts)
    BY <1>1, <2>1 DEF Repeat
  <2>5. QED BY <2>3, <2>4, LiveTyped DEF IInv, TypeOK
<1>3. CASE ~Accepted(off)
  BY <1>3 DEF PrintText, cdp_print, IInv, TypeOK
<1>4. QED BY <1>2, <1>3

\* So does cdp_reinit, whether or not it gives the buffer back,
LEMMA ReinitKeeps == ASSUME IInv, Reinit PROVE IInv'
<1>1. /\ cdp \in Live(cdp.buf_size) /\ Holds(cdp, printed) /\ cdp.buf_size \in Nat
      /\ printed' = <<>> /\ cdp' = cdp_reinit(cdp)
  BY DEF IInv, Reinit, TypeOK
<1>2. CASE cdp.buf_size > ShrinkAbove
  <2>1. cdp' \in Live(BufInit) /\ Holds(cdp', printed')
    BY <1>1, <1>2, FreshHolds DEF cdp_reinit
  <2>2. QED BY <2>1, <1>1, LiveTyped, CmdPrintAssumption, EmptyText DEF IInv, TypeOK
<1>3. CASE ~(cdp.buf_size > ShrinkAbove)
  <2>1. cdp' = [cdp EXCEPT !.pos = 0]
    BY <1>1, <1>3 DEF cdp_reinit
  <2>2. cdp' \in Live(cdp.buf_size) /\ cdp'.buf_size = cdp.buf_size /\ cdp'.pos = 0
    <3>1. 0 \in Nat
      OBVIOUS
    <3>2. cdp' \in Live(cdp.buf_size)
      BY <1>1, <2>1, <3>1, Zenon DEF Live
    <3>3. QED BY <3>2, <1>1, <2>1 DEF Live
  <2>3. Holds(cdp', printed')
    BY <1>1, <2>2, CmdPrintAssumption DEF Holds
  <2>4. QED BY <1>1, <2>2, <2>3, LiveTyped, EmptyText DEF IInv, TypeOK
<1>4. QED BY <1>2, <1>3

\* and cdp_destroy.
LEMMA DestroyKeeps == ASSUME IInv, Destroy PROVE IInv'
<1>1. /\ cdp \in Live(cdp.buf_size) /\ printed' = <<>>
      /\ cdp' = [cdp EXCEPT !.pos = 0, !.buf_size = 0, !.freed = TRUE]
  BY DEF IInv, Destroy, cdp_destroy
<1>2. cdp'.freed = TRUE /\ cdp'.pos = 0 /\ cdp'.buf_size = 0
  BY <1>1 DEF Live
<1>3. QED BY <1>1, <1>2 DEF IInv, TypeOK

\* The inductive invariant of the buffer, for every size and limit.
THEOREM Inductive == Spec => []IInv
<1>1. Init => IInv
  <2>1. SUFFICES ASSUME Init PROVE IInv
    OBVIOUS
  <2>2. cdp \in Live(BufInit) /\ Holds(cdp, printed) /\ printed \in Seq(Texts)
    BY <2>1, FreshHolds DEF Init
  <2>3. QED BY <2>2, LiveTyped, CmdPrintAssumption DEF IInv, TypeOK
<1>2. IInv /\ [Next]_vars => IInv'
  <2>1. SUFFICES ASSUME IInv, [Next]_vars PROVE IInv'
    OBVIOUS
  <2>2. CASE UNCHANGED vars
    BY <2>1, <2>2 DEF vars, IInv, TypeOK
  <2>3. ASSUME NEW t \in Texts, NEW off \in 0 .. MaxPrint, PrintText(t, off) PROVE IInv'
    BY <2>1, <2>3, PrintKeeps
  <2>4. CASE Reinit
    BY <2>1, <2>4, ReinitKeeps
  <2>5. CASE Destroy
    BY <2>1, <2>5, DestroyKeeps
  <2>6. QED BY <2>1, <2>2, <2>3, <2>4, <2>5 DEF Next
<1>3. QED BY <1>1, <1>2, PTL DEF Spec

\* Type correctness of the buffer.
THEOREM TypeCorrect == Spec => []TypeOK
<1>1. IInv => TypeOK
  BY DEF IInv
<1>2. QED BY <1>1, Inductive, PTL

\* cdp_print never stores outside the allocation: buf_size doubles at most
\* once per print and that is enough for any accepted print.
THEOREM NoOverflow == Spec => []TerminatorInside
<1>1. IInv => TerminatorInside
  BY DEF IInv, Holds, TerminatorInside
<1>2. QED BY <1>1, Inductive, PTL

\* A buffer in step with the text hands out exactly the text.
LEMMA OutputHolds == IInv => OutputIsPrinted
<1>1. SUFFICES ASSUME IInv, ~cdp.freed
               PROVE  cdp_output(cdp) = IF printed = <<>> THEN SUCCESS ELSE printed
  BY DEF OutputIsPrinted
<1> DEFINE m == cdp.pos
           b == cdp.buf
<1>2. /\ m \in Nat /\ cdp.buf_size \in Nat /\ m < cdp.buf_size /\ m = Len(printed)
      /\ printed \in Seq(Texts) /\ DOMAIN b = 0 .. cdp.buf_size - 1
      /\ \A i \in 0 .. m - 1 : b[i] = printed[i + 1]
      /\ m > 0 => b[m] = NUL
  BY <1>1 DEF IInv, TypeOK, Holds
<1>3. CASE m = 0
  <2>1. printed = <<>>
    BY <1>2, <1>3, EmptyText
  <2>2. ~(m > 0)
    BY <1>3
  <2>3. QED BY <2>1, <2>2, Zenon DEF cdp_output
<1>4. CASE m > 0
  <2>1. \A i \in 0 .. m - 1 : b[i] \in Texts /\ b[i] # NUL
    <3>1. TAKE i \in 0 .. m - 1
    <3>2. i + 1 \in 1 .. Len(printed)
      BY <1>2
    <3>3. printed[i + 1] \in Texts
      BY <3>2, <1>2
    <3>4. QED BY <3>3, <1>2, CmdPrintAssumption
  <2> DEFINE First(i) == b[i] = NUL /\ \A j \in DOMAIN b : j < i => b[j] # NUL
  <2>a. m \in DOMAIN b /\ First(m)
    BY <2>1, <1>2, <1>4
  <2>b. ASSUME NEW i \in DOMAIN b, First(i) PROVE i = m
    BY <2>a, <2>b, <2>1, <1>2
  <2> HIDE DEF First
  <2>2. (CHOOSE i \in DOMAIN b : First(i)) = m
    BY <2>a, <2>b
  <2>3. (CHOOSE i \in DOMAIN b : b[i] = NUL /\ \A j \in DOMAIN b : j < i => b[j] # NUL) = m
    BY <2>2 DEF First
  <2>4. CString(b) = [i \in 1 .. m |-> b[i - 1]]
    BY <2>3 DEF CString
  <2>5. [i \in 1 .. m |-> b[i - 1]] = printed
    BY <1>2
  <2>6. printed # <<>>
    BY <1>2, <1>4
  <2>7. QED BY <2>4, <2>5, <2>6, <1>4 DEF cdp_output
<1>5. QED BY <1>2, <1>3, <1>4

\* The reply the server sends is the text printed for it and nothing else.
THEOREM OutputCorrect == Spec => []OutputIsPrinted
BY OutputHolds, Inductive, PTL

===========================================================================
