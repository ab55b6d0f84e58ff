------------------------- MODULE CliRegistryProofs -------------------------
(***************************************************************************)
(* The command table for every number of slots, names, threads and calls:  *)
(* entries are never overwritten and a lookup without the lock calls the   *)
(* right function.  With at most two registering threads, moreover, no     *)
(* registration is dropped: the counter is exact and what was registered   *)
(* is found.  (Three threads can pass the unlocked check together.)        *)
(***************************************************************************)
EXTENDS CliRegistry, FiniteSetTheorems, WellFoundedInduction, TLAPS

Calls   == Threads \X (1 .. MaxRegs)
Entries == [subcommand : Names \cup {NULL}, execute : Calls \cup {NULL}]
Pcs     == {"idle", "lock", "scan", "store", "unlock"}
Fields  == {"subcommand", "execute"}
Done    == Threads \X (1 .. MaxRegs) \X Names

RegCalls == [pc : Pcs, n : 0 .. MaxRegs, name : Names \cup {NULL}, slot : 0 .. Slots, todo : SUBSET Fields]
Lookups  == [pc : {"idle", "scan", "found", "missed", "called"}, name : Names \cup {NULL},
             i : 0 .. Slots, known : SUBSET Done, result : Calls \cup {NULL}]

TypeInv ==
    /\ commands \in [Index -> Entries]
    /\ regcnt \in Nat
    /\ spin \in Threads \cup {NULL}
    /\ reg \in [Threads -> RegCalls]
    /\ done \subseteq Done
    /\ find \in Lookups
    /\ find.known \subseteq done

\* a thread past RegisterLock holds the lock; a thread past the check has a call
LockInv ==
    \A t \in Threads :
        /\ reg[t].pc \in {"scan", "store", "unlock"} => spin = t
        /\ reg[t].pc # "idle" => reg[t].name \in Names /\ reg[t].n \in 1 .. MaxRegs

\* the slots in use come first
Contiguous == \A i, j \in Index : j < i /\ commands[i].execute # NULL => commands[j].execute # NULL

\* the slot a thread is filling: the first one that is free, with the fields
\* that are not stored yet still empty
StoreInv ==
    \A t \in Threads : reg[t].pc = "store" =>
        LET e == commands[reg[t].slot]
        IN  /\ reg[t].slot \in Index
            /\ \A j \in Index : /\ j < reg[t].slot => commands[j].execute # NULL
                                /\ j > reg[t].slot => commands[j].execute = NULL
            /\ e.execute = IF "execute" \in reg[t].todo THEN NULL ELSE <<t, reg[t].n>>
            /\ e.subcommand = IF "subcommand" \in reg[t].todo THEN NULL ELSE reg[t].name

\* an entry with one field only is being filled
WholeEntries ==
    \A i \in Index : \/ commands[i].execute = NULL <=> commands[i].subcommand = NULL
                     \/ \E t \in Threads : reg[t].pc = "store" /\ reg[t].slot = i

Full == \A i \in Index : commands[i].execute # NULL
InTable(t, n, name) == \E i \in Index : commands[i] = [subcommand |-> name, execute |-> <<t, n>>]

\* a call that came to its end is in the table, unless that was full
StoredInv ==
    /\ \A t \in Threads : reg[t].pc = "unlock" => InTable(t, reg[t].n, reg[t].name) \/ Full
    /\ \A d \in done : InTable(d[1], d[2], d[3]) \/ Full

\* a function comes from a call that has returned or is about to
Registers(t, n, name) ==
    \/ <<t, n, name>> \in done
    \/ reg[t].pc \in {"store", "unlock"} /\ reg[t].n = n /\ reg[t].name = name
OriginInv ==
    \A i \in Index, t \in Threads, n \in 1 .. MaxRegs :
        commands[i].execute = <<t, n>> /\ commands[i].subcommand # NULL
            => Registers(t, n, commands[i].subcommand)

\* what the lookup has seen is still there
FindInv ==
    /\ \A d \in find.known : d[3] = find.name
    /\ find.pc # "idle" => find.name \in Names
    /\ find.pc \in {"scan", "found"} => \A j \in Index : j < find.i => commands[j].subcommand \notin {NULL, find.name}
    /\ find.pc = "found" => find.i \in Index /\ commands[find.i].subcommand = find.name
    /\ find.pc = "called" =>
         \/ \E t \in Threads, n \in 1 .. MaxRegs : find.result = <<t, n>> /\ Registers(t, n, find.name)
         \/ find.result = NULL /\ find.known = {}

IInv == /\ TypeInv /\ LockInv /\ Contiguous /\ StoreInv /\ WholeEntries
        /\ StoredInv /\ OriginInv /\ FindInv

-----------------------------------------------------------------------------
AtMostTwo == \A t, u, v \in Threads : t = u \/ u = v \/ t = v

Used == {i \in Index : commands[i].execute # NULL}

\* the counter, which lags behind the holder of the lock by one
CountInv ==
    /\ spin = NULL => regcnt = Cardinality(Used)
    /\ \A t \in Threads : spin = t =>
         /\ reg[t].pc \in {"scan", "store", "unlock"}
         /\ Cardinality(Used) = IF reg[t].pc = "unlock" \/ (reg[t].pc = "store" /\ "execute" \notin reg[t].todo)
                                THEN regcnt + 1 ELSE regcnt

\* a thread past the check finds a free slot, whatever the other one does
RoomInv ==
    \A t \in Threads : reg[t].pc \in {"lock", "scan"} =>
        /\ regcnt <= Slots - 1
        /\ \A u \in Threads : u # t /\ reg[u].pc # "idle" => regcnt <= Slots - 2

\* so nothing is dropped
KeptInv ==
    /\ \A t \in Threads : reg[t].pc = "unlock" => InTable(t, reg[t].n, reg[t].name)
    /\ \A d \in done : InTable(d[1], d[2], d[3])
    /\ find.pc = "missed" => find.known = {}

IInv2 == IInv /\ CountInv /\ RoomInv /\ KeptInv

-----------------------------------------------------------------------------
\* A non-empty set of naturals has a least element.
LEMMA MinNat == ASSUME NEW T \in SUBSET Nat, T # {} PROVE \E m \in T : \A k \in T : m <= k
<1> DEFINE R == {ss \in Nat \X Nat : ss[1] < ss[2]}
<1>1. IsWellFoundedOn(R, Nat)
  BY NatLessThanWellFounded, Zenon DEF OpToRel
<1>2. \A a, b \in Nat : b < a => <<b, a>> \in R
  OBVIOUS
<1> HIDE DEF R
<1>3. PICK x \in T : \A y \in T : ~(<<y, x>> \in R)
  BY <1>1, WFMin
<1>4. ASSUME NEW y \in T PROVE x <= y
  <2>1. x \in Nat /\ y \in Nat
    OBVIOUS
  <2>2. ~(y < x)
    BY <2>1, <1>2, <1>3, Zenon
  <2>3. QED BY <2>1, <2>2
<1>5. QED BY <1>4

-----------------------------------------------------------------------------
\* Changing the step of a call leaves the rest of its record alone.
LEMMA SetPc ==
    ASSUME NEW r \in RegCalls, NEW p \in Pcs
    PROVE  LET q == [r EXCEPT !.pc = p]
           IN  q \in RegCalls /\ q.pc = p /\ q.n = r.n /\ q.name = r.name /\ q.slot = r.slot /\ q.todo = r.todo
  BY DEF RegCalls

\* So does choosing the slot to fill.
LEMMA SetSlot ==
    ASSUME NEW r \in RegCalls, NEW i \in Index, CliRegistryAssumption
    PROVE  LET q == [r EXCEPT !.pc = "store", !.slot = i, !.todo = {"subcommand", "execute"}]
           IN  q \in RegCalls /\ q.pc = "store" /\ q.n = r.n /\ q.name = r.name /\ q.slot = i /\ q.todo = Fields
<1> DEFINE q == [r EXCEPT !.pc = "store", !.slot = i, !.todo = {"subcommand", "execute"}]
<1>1. q.pc = "store" /\ q.n = r.n /\ q.name = r.name /\ q.slot = i /\ q.todo = Fields
  BY DEF RegCalls, Fields
<1>3. i \in 0 .. Slots /\ "store" \in Pcs /\ r.n \in 0 .. MaxRegs /\ r.name \in Names \cup {NULL} /\ {"subcommand", "execute"} \in SUBSET Fields
  BY DEF Fields, RegCalls, Index, CliRegistryAssumption, Pcs
<1>4. q \in RegCalls
  BY <1>3 DEF RegCalls
<1> QED BY <1>1, <1>4

\* So does storing one field of the slot.
LEMMA SetTodo ==
    ASSUME NEW r \in RegCalls, NEW f \in Fields, r.pc = "store"
    PROVE  LET p == IF r.todo = {f} THEN "unlock" ELSE "store"
               q == [r EXCEPT !.todo = @ \ {f}, !.pc = IF r.todo = {f} THEN "unlock" ELSE @]
           IN  q \in RegCalls /\ q.pc = p /\ q.n = r.n /\ q.name = r.name /\ q.slot = r.slot /\ q.todo = r.todo \ {f}
<1> DEFINE p == IF r.todo = {f} THEN "unlock" ELSE "store"
           q == [r EXCEPT !.todo = @ \ {f}, !.pc = IF r.todo = {f} THEN "unlock" ELSE @]
<1>1. q.pc = p /\ q.n = r.n /\ q.name = r.name /\ q.slot = r.slot /\ q.todo = r.todo \ {f}
  BY DEF RegCalls
<1>3. p \in Pcs /\ r.n \in 0 .. MaxRegs /\ r.name \in Names \cup {NULL} /\ r.slot \in 0 .. Slots /\ r.todo \ {f} \in SUBSET Fields
  BY DEF RegCalls, Pcs
<1>4. q \in RegCalls
  BY <1>3 DEF RegCalls
<1> QED BY <1>1, <1>4

\* Between two calls.
LEMMA IdleCall ==
    ASSUME NEW n \in 0 .. MaxRegs, CliRegistryAssumption
    PROVE  Idle(n) \in RegCalls /\ Idle(n).pc = "idle"
<1>1. Slots \in 0 .. Slots /\ "idle" \in Pcs /\ {} \in SUBSET Fields
  BY DEF CliRegistryAssumption, Pcs
<1>2. QED BY <1>1 DEF Idle, RegCalls

-----------------------------------------------------------------------------
\* RegisterCheck preserves the invariant.
LEMMA CheckKeeps ==
    ASSUME IInv, NEW t \in Threads, NEW name \in Names, RegisterCheck(t, name) PROVE IInv'
<1> USE CliRegistryAssumption DEF IInv
<1>1. /\ UNCHANGED <<commands, regcnt, spin, done, find>>
      /\ reg \in [Threads -> RegCalls] /\ reg[t].pc = "idle" /\ reg[t].n + 1 \in 1 .. MaxRegs
  BY DEF RegisterCheck, TypeInv, RegCalls
<1>2. PICK r \in RegCalls : /\ reg' = [reg EXCEPT ![t] = r]
                            /\ \/ r.pc = "idle"
                               \/ r.pc = "lock" /\ r.name = name /\ r.n = reg[t].n + 1
  <2>1. PICK n \in 0 .. MaxRegs : n = reg[t].n + 1
    BY <1>1
  <2> DEFINE q == [Idle(n) EXCEPT !.pc = "lock", !.name = name]
  <2>2. Idle(n) \in RegCalls /\ Idle(n).pc = "idle"
    BY IdleCall
  <2>3. q \in RegCalls /\ q.pc = "lock" /\ q.n = n /\ q.name = name
    <3>1. Slots \in 0 .. Slots /\ "lock" \in Pcs /\ {} \in SUBSET Fields
      BY DEF Pcs
    <3>2. QED BY <3>1 DEF RegCalls, Idle
  <2>4. reg' = [reg EXCEPT ![t] = Idle(n)] \/ reg' = [reg EXCEPT ![t] = q]
    BY <2>1 DEF RegisterCheck
  <2> HIDE DEF q
  <2>5. QED BY <2>1, <2>2, <2>3, <2>4
<1>3. TypeInv'
  BY <1>1, <1>2 DEF TypeInv
<1>4. LockInv'
  BY <1>1, <1>2 DEF LockInv
<1>5. Contiguous' /\ StoreInv' /\ WholeEntries'
  BY <1>1, <1>2 DEF Contiguous, StoreInv, WholeEntries
<1>6. StoredInv'
  BY <1>1, <1>2 DEF StoredInv, InTable, Full
<1>7. OriginInv'
  BY <1>1, <1>2 DEF OriginInv, Registers
<1>8. FindInv'
  BY <1>1, <1>2 DEF FindInv, Registers
<1>9. QED BY <1>3, <1>4, <1>5, <1>6, <1>7, <1>8

\* RegisterLock preserves the invariant.
LEMMA LockKeeps ==
    ASSUME IInv, NEW t \in Threads, RegisterLock(t) PROVE IInv'
<1> USE CliRegistryAssumption DEF IInv
<1>1. /\ UNCHANGED <<commands, regcnt, done, find>> /\ spin = NULL /\ spin' = t
      /\ reg \in [Threads -> RegCalls] /\ reg[t].pc = "lock"
  BY DEF RegisterLock, TypeInv
<1>2. PICK r \in RegCalls : /\ reg' = [reg EXCEPT ![t] = r]
                            /\ r.pc = "scan" /\ r.name = reg[t].name /\ r.n = reg[t].n
  BY <1>1, SetPc DEF RegisterLock, Pcs
<1>3. TypeInv'
  BY <1>1, <1>2 DEF TypeInv
<1>4. LockInv'
  BY <1>1, <1>2 DEF LockInv
<1>5. Contiguous' /\ StoreInv' /\ WholeEntries'
  BY <1>1, <1>2 DEF Contiguous, StoreInv, WholeEntries
<1>6. StoredInv'
  BY <1>1, <1>2 DEF StoredInv, InTable, Full
<1>7. OriginInv'
  BY <1>1, <1>2 DEF OriginInv, Registers
<1>8. FindInv'
  BY <1>1, <1>2 DEF FindInv, Registers
<1>9. QED BY <1>3, <1>4, <1>5, <1>6, <1>7, <1>8

\* The scan finds nothing only when the table is full.
LEMMA SlotFree == ASSUME CliRegistryAssumption, ~Full PROVE FirstFree # {}
<1> DEFINE T == {i \in Index : commands[i].execute = NULL}
<1>1. T \in SUBSET Nat /\ T # {}
  BY DEF Full, Index
<1>2. PICK m \in T : \A k \in T : m <= k
  BY <1>1, MinNat
<1>3. m \in FirstFree
  BY <1>2 DEF FirstFree, Index
<1>4. QED BY <1>3

\* RegisterScan preserves the invariant: no free slot means a full table, and
\* a free one has only whole entries before it and none after it.
LEMMA ScanKeeps ==
    ASSUME IInv, NEW t \in Threads, RegisterScan(t) PROVE IInv'
<1> USE CliRegistryAssumption DEF IInv
<1>1. /\ UNCHANGED <<commands, regcnt, spin, done, find>>
      /\ reg \in [Threads -> RegCalls] /\ reg[t].pc = "scan" /\ spin = t
      /\ \A u \in Threads : reg[u].pc # "store"
  BY DEF RegisterScan, TypeInv, LockInv
<1>2. PICK r \in RegCalls : /\ reg' = [reg EXCEPT ![t] = r]
                            /\ r.name = reg[t].name /\ r.n = reg[t].n
                            /\ \/ r.pc = "unlock" /\ FirstFree = {}
                               \/ r.pc = "store" /\ r.slot \in FirstFree /\ r.todo = Fields
  <2>1. FirstFree \subseteq Index
    BY DEF FirstFree
  <2>2. CASE FirstFree = {}
    <3>1. reg' = [reg EXCEPT ![t].pc = "unlock"]
      BY <2>2 DEF RegisterScan
    <3>2. QED BY <1>1, <2>2, <3>1, SetPc DEF Pcs
  <2>3. CASE FirstFree # {}
    <3>1. PICK i \in FirstFree : reg' = [reg EXCEPT ![t].pc = "store", ![t].slot = i, ![t].todo = {"subcommand", "execute"}]
      BY <2>3 DEF RegisterScan
    <3> DEFINE q == [reg[t] EXCEPT !.pc = "store", !.slot = i, !.todo = {"subcommand", "execute"}]
    <3>2. q \in RegCalls /\ q.pc = "store" /\ q.n = reg[t].n /\ q.name = reg[t].name /\ q.slot = i /\ q.todo = Fields
      BY <1>1, <2>1, SetSlot
    <3>3. reg' = [reg EXCEPT ![t] = q]
      BY <3>1
    <3> HIDE DEF q
    <3> QED BY <3>2, <3>3
  <2>4. QED BY <2>2, <2>3
<1>3. FirstFree = {} => Full
  BY SlotFree
<1>4. TypeInv'
  BY <1>1, <1>2 DEF TypeInv
<1>5. LockInv'
  BY <1>1, <1>2 DEF LockInv
<1>6. Contiguous' /\ WholeEntries'
  BY <1>1, <1>2 DEF Contiguous, WholeEntries
<1>7. StoreInv'
  <2>1. ASSUME r.pc = "store" PROVE StoreInv'
    <3>1. /\ r.slot \in Index /\ commands[r.slot].execute = NULL /\ commands[r.slot].subcommand = NULL
          /\ \A j \in Index : j < r.slot => commands[j].execute # NULL
          /\ \A j \in Index : j > r.slot => commands[j].execute = NULL
      BY <1>1, <1>2, <2>1 DEF FirstFree, Contiguous, WholeEntries
    <3>2. reg'[t] = r /\ \A u \in Threads : u # t => reg'[u] = reg[u]
      BY <1>1, <1>2
    <3>3. "execute" \in r.todo /\ "subcommand" \in r.todo
      BY <1>2, <2>1 DEF Fields
    <3>4. QED BY <1>1, <3>1, <3>2, <3>3 DEF StoreInv
  <2>2. ASSUME r.pc # "store" PROVE StoreInv'
    BY <1>1, <1>2, <2>2 DEF StoreInv
  <2>3. QED BY <2>1, <2>2
<1>8. StoredInv'
  BY <1>1, <1>2, <1>3 DEF StoredInv, InTable, Full
<1>9. OriginInv'
  BY <1>1, <1>2 DEF OriginInv, Registers
<1>10. FindInv'
  BY <1>1, <1>2 DEF FindInv, Registers
<1>11. QED BY <1>4, <1>5, <1>6, <1>7, <1>8, <1>9, <1>10

\* RegisterStore preserves the invariant: the slot it writes is the first
\* that was free, no lookup has passed it, and an entry in use is not touched.
LEMMA StoreKeeps ==
    ASSUME IInv, NEW t \in Threads, NEW f \in Fields, RegisterStore(t, f) PROVE IInv'
<1> USE CliRegistryAssumption DEF IInv
<1>1. /\ UNCHANGED <<regcnt, spin, done, find>>
      /\ reg \in [Threads -> RegCalls] /\ reg[t].pc = "store" /\ spin = t /\ f \in reg[t].todo
      /\ reg[t].name \in Names /\ reg[t].n \in 1 .. MaxRegs
      /\ \A u \in Threads : u # t => reg[u].pc \notin {"scan", "store", "unlock"}
      /\ commands \in [Index -> Entries]
  BY DEF RegisterStore, TypeInv, LockInv
<1>2. PICK r \in RegCalls :
        /\ reg' = [reg EXCEPT ![t] = r]
        /\ r.name = reg[t].name /\ r.n = reg[t].n /\ r.slot = reg[t].slot /\ r.todo = reg[t].todo \ {f}
        /\ r.pc = IF reg[t].todo = {f} THEN "unlock" ELSE "store"
  <2> DEFINE q == [reg[t] EXCEPT !.todo = @ \ {f}, !.pc = IF reg[t].todo = {f} THEN "unlock" ELSE @]
  <2>1. /\ q \in RegCalls /\ q.pc = IF reg[t].todo = {f} THEN "unlock" ELSE "store"
        /\ q.n = reg[t].n /\ q.name = reg[t].name /\ q.slot = reg[t].slot /\ q.todo = reg[t].todo \ {f}
    BY <1>1, SetTodo
  <2>2. reg' = [reg EXCEPT ![t] = q]
    BY <1>1 DEF RegisterStore
  <2> HIDE DEF q
  <2>3. QED BY <2>1, <2>2
<1> DEFINE s == reg[t].slot
<1>3. /\ s \in Index
      /\ \A j \in Index : (j < s => commands[j].execute # NULL) /\ (j > s => commands[j].execute = NULL)
      /\ commands[s].execute = IF "execute" \in reg[t].todo THEN NULL ELSE <<t, reg[t].n>>
      /\ commands[s].subcommand = IF "subcommand" \in reg[t].todo THEN NULL ELSE reg[t].name
  BY <1>1 DEF StoreInv
<1>4. PICK e \in Entries :
        /\ commands' = [commands EXCEPT ![s] = e]
        /\ e.subcommand = IF f = "subcommand" THEN reg[t].name ELSE commands[s].subcommand
        /\ e.execute = IF f = "execute" THEN <<t, reg[t].n>> ELSE commands[s].execute
  <2> DEFINE c == commands[s]
             a == [c EXCEPT !.subcommand = reg[t].name]
             b == [c EXCEPT !.execute = <<t, reg[t].n>>]
  <2>1. c \in Entries /\ <<t, reg[t].n>> \in Calls
    BY <1>1, <1>3 DEF Calls
  <2>2. a \in Entries /\ a.subcommand = reg[t].name /\ a.execute = c.execute
    BY <1>1, <2>1 DEF Entries
  <2>3. b \in Entries /\ b.subcommand = c.subcommand /\ b.execute = <<t, reg[t].n>>
    BY <1>1, <2>1 DEF Entries
  <2>4. CASE f = "subcommand"
    <3>1. commands' = [commands EXCEPT ![s] = a]
      BY <2>4 DEF RegisterStore
    <3> HIDE DEF a
    <3>2. QED BY <2>2, <2>4, <3>1
  <2>5. CASE f = "execute"
    <3>1. commands' = [commands EXCEPT ![s] = b]
      BY <2>5 DEF RegisterStore
    <3> HIDE DEF b
    <3>2. QED BY <2>3, <2>5, <3>1
  <2>6. QED BY <2>4, <2>5 DEF Fields
<1>5. /\ reg'[t] = r /\ \A u \in Threads : u # t => reg'[u] = reg[u]
      /\ commands'[s] = e /\ \A i \in Index : i # s => commands'[i] = commands[i]
      /\ NULL # reg[t].name /\ NULL # <<t, reg[t].n>>
  <2>1. reg'[t] = r /\ \A u \in Threads : u # t => reg'[u] = reg[u]
    BY <1>1, <1>2
  <2>2. commands'[s] = e /\ \A i \in Index : i # s => commands'[i] = commands[i]
    BY <1>1, <1>3, <1>4
  <2>3. NULL # reg[t].name /\ NULL # <<t, reg[t].n>>
    BY <1>1 DEF CliRegistryAssumption
  <2>4. QED BY <2>1, <2>2, <2>3
<1>6. \* the entry is filled in, and never changed once it is
      /\ commands[s].execute # NULL => e.execute = commands[s].execute
      /\ commands[s].subcommand # NULL => e.subcommand = commands[s].subcommand
      /\ commands[s].execute = NULL \/ commands[s].subcommand = NULL
      /\ e.subcommand \in {NULL, reg[t].name} /\ e.execute \in {NULL, <<t, reg[t].n>>}
      /\ r.pc = "store" => /\ e.execute = IF "execute" \in r.todo THEN NULL ELSE <<t, r.n>>
                           /\ e.subcommand = IF "subcommand" \in r.todo THEN NULL ELSE r.name
      /\ r.pc = "unlock" => e.subcommand = r.name /\ e.execute = <<t, r.n>>
  BY <1>1, <1>2, <1>3, <1>4, <1>5 DEF Fields
<1> HIDE DEF s
<1>7. TypeInv'
  BY <1>1, <1>2, <1>3, <1>4 DEF TypeInv
<1>8. LockInv'
  BY <1>1, <1>2, <1>5 DEF LockInv
<1>9. Contiguous'
  <2>1. ASSUME NEW i \in Index, NEW j \in Index, j < i, commands'[i].execute # NULL PROVE commands'[j].execute # NULL
    <3>1. i \in Nat /\ j \in Nat /\ s \in Nat
      BY <1>3 DEF Index
    <3>2. i <= s
      BY <1>3, <1>5, <2>1, <3>1
    <3>3. j < s
      BY <2>1, <3>1, <3>2
    <3>4. QED BY <1>3, <1>5, <3>1, <3>3
  <2>2. QED BY <2>1 DEF Contiguous
<1>10. StoreInv'
  <2>1. ASSUME r.pc = "store" PROVE StoreInv'
    <3>1. \A j \in Index : (j < s => commands'[j].execute # NULL) /\ (j > s => commands'[j].execute = NULL)
      BY <1>3, <1>5 DEF Index
    <3>2. \A u \in Threads : reg'[u].pc = "store" => u = t
      BY <1>1, <1>5
    <3>3. r.slot = s
      BY <1>2 DEF s
    <3>4. QED BY <1>3, <1>5, <1>6, <2>1, <3>1, <3>2, <3>3 DEF StoreInv
  <2>2. ASSUME r.pc = "unlock" PROVE StoreInv'
    BY <1>1, <1>5, <2>2 DEF StoreInv
  <2>3. QED BY <1>2, <2>1, <2>2
<1>11. WholeEntries'
  <2> SUFFICES ASSUME NEW i \in Index
               PROVE  \/ commands'[i].execute = NULL <=> commands'[i].subcommand = NULL
                      \/ \E u \in Threads : reg'[u].pc = "store" /\ reg'[u].slot = i
    BY DEF WholeEntries
  <2>1. CASE i # s
    <3>1. \A u \in Threads : reg[u].pc = "store" => reg[u].slot = s
      BY <1>1 DEF s
    <3>2. QED BY <2>1, <3>1, <1>5 DEF WholeEntries
  <2>2. CASE i = s
    BY <2>2, <1>2, <1>5, <1>6 DEF s
  <2>3. QED BY <2>1, <2>2
<1>12. StoredInv'
  <2>1. ASSUME NEW u \in Threads, NEW n \in 1 .. MaxRegs, NEW name \in Names, InTable(u, n, name)
        PROVE  InTable(u, n, name)'
    <3>1. PICK i \in Index : commands[i] = [subcommand |-> name, execute |-> <<u, n>>]
      BY <2>1 DEF InTable
    <3>2. commands[i].subcommand # NULL /\ commands[i].execute # NULL
      BY <3>1 DEF CliRegistryAssumption
    <3>3. QED BY <1>5, <1>6, <3>1, <3>2 DEF InTable
  <2>2. Full => Full'
    BY <1>5, <1>6 DEF Full
  <2>3. ASSUME NEW u \in Threads, reg'[u].pc = "unlock" PROVE InTable(u, reg[u].n, reg[u].name)'
    <3>1. u = t /\ r.pc = "unlock"
      BY <1>1, <1>5, <2>3
    <3>2. e = [subcommand |-> r.name, execute |-> <<t, r.n>>]
      BY <1>6, <3>1 DEF Entries
    <3>3. QED BY <1>3, <1>5, <3>1, <3>2 DEF InTable
  <2>4. ASSUME NEW d \in done PROVE InTable(d[1], d[2], d[3])' \/ Full'
    <3>1. d[1] \in Threads /\ d[2] \in 1 .. MaxRegs /\ d[3] \in Names
      BY DEF TypeInv, Done
    <3>2. QED BY <2>1, <2>2, <3>1 DEF StoredInv
  <2>5. QED BY <1>1, <2>3, <2>4 DEF StoredInv
<1>13. OriginInv'
  <2> SUFFICES ASSUME NEW i \in Index, NEW u \in Threads, NEW n \in 1 .. MaxRegs,
                      commands'[i].execute = <<u, n>>, commands'[i].subcommand # NULL
               PROVE  Registers(u, n, commands[i].subcommand)'
    BY DEF OriginInv
  <2>1. CASE i # s
    BY <2>1, <1>1, <1>2, <1>5 DEF OriginInv, Registers
  <2>2. CASE i = s
    <3>1. u = t /\ n = reg[t].n /\ e.subcommand = reg[t].name
      BY <2>2, <1>5, <1>6, CliRegistryAssumption
    <3>2. QED BY <2>2, <3>1, <1>2, <1>5 DEF Registers
  <2>3. QED BY <2>1, <2>2
<1>14. FindInv'
  <2>1. find.pc = "called" =>
         \/ \E u \in Threads, n \in 1 .. MaxRegs : find.result = <<u, n>> /\ Registers(u, n, find.name)'
         \/ find.result = NULL /\ find.known = {}
    BY <1>1, <1>2, <1>5 DEF FindInv, Registers
  <2>2. find.pc = "found" => find.i \in Index /\ commands'[find.i].subcommand = find.name
    <3>1. find.pc = "found" => find.name # NULL
      BY DEF FindInv, CliRegistryAssumption
    <3>2. QED BY <1>5, <1>6, <3>1 DEF FindInv
  <2>3. find.pc \in {"scan", "found"} => \A j \in Index : j < find.i => commands'[j].subcommand \notin {NULL, find.name}
    BY <1>5, <1>6 DEF FindInv
  <2>4. QED BY <1>1, <2>1, <2>2, <2>3 DEF FindInv
<1>15. QED BY <1>7, <1>8, <1>9, <1>10, <1>11, <1>12, <1>13, <1>14

\* RegisterUnlock preserves the invariant: the call that returns joins done.
LEMMA UnlockKeeps ==
    ASSUME IInv, NEW t \in Threads, RegisterUnlock(t) PROVE IInv'
<1> USE CliRegistryAssumption DEF IInv
<1> DEFINE d == <<t, reg[t].n, reg[t].name>>
<1>1. /\ UNCHANGED <<commands, find>> /\ spin' = NULL /\ spin = t /\ done' = done \cup {d}
      /\ reg \in [Threads -> RegCalls] /\ reg[t].pc = "unlock" /\ d \in Done
      /\ regcnt' = regcnt + 1
      /\ \A u \in Threads : u # t => reg[u].pc \notin {"scan", "store", "unlock"}
  BY DEF RegisterUnlock, TypeInv, LockInv, Done
<1>2. PICK r \in RegCalls : reg' = [reg EXCEPT ![t] = r] /\ r.pc = "idle"
  <2>1. reg[t].n \in 0 .. MaxRegs
    BY <1>1 DEF RegCalls
  <2>2. Idle(reg[t].n) \in RegCalls /\ Idle(reg[t].n).pc = "idle"
    BY <2>1, IdleCall
  <2>3. QED BY <2>2 DEF RegisterUnlock
<1>3. reg'[t] = r /\ \A u \in Threads : u # t => reg'[u] = reg[u]
  BY <1>1, <1>2
<1>4. d[1] = t /\ d[2] = reg[t].n /\ d[3] = reg[t].name
  OBVIOUS
<1> HIDE DEF d
<1>5. TypeInv'
  BY <1>1, <1>2 DEF TypeInv
<1>6. LockInv'
  BY <1>1, <1>2, <1>3 DEF LockInv
<1>7. Contiguous' /\ WholeEntries' /\ StoreInv'
  BY <1>1, <1>2, <1>3 DEF Contiguous, WholeEntries, StoreInv
<1>8. StoredInv'
  <2>1. InTable(d[1], d[2], d[3]) \/ Full
    BY <1>1, <1>4 DEF StoredInv
  <2>2. QED BY <1>1, <1>2, <1>3, <2>1 DEF StoredInv, InTable, Full
<1>9. ASSUME NEW u \in Threads, NEW n \in 1 .. MaxRegs, NEW name, Registers(u, n, name) PROVE Registers(u, n, name)'
  BY <1>1, <1>3, <1>9 DEF Registers, d
<1>10. OriginInv'
  BY <1>1, <1>9 DEF OriginInv
<1>11. FindInv'
  BY <1>1, <1>9 DEF FindInv
<1>12. QED BY <1>5, <1>6, <1>7, <1>8, <1>10, <1>11

\* The steps of a lookup preserve the invariant; they only change find.
LEMMA LookupKeeps ==
    ASSUME IInv, (\E name \in Names : FindStart(name)) \/ FindStep \/ Execute \/ FindDone PROVE IInv'
<1> USE CliRegistryAssumption DEF IInv
<1>1. UNCHANGED <<commands, regcnt, spin, reg, done>>
  BY DEF FindStart, FindStep, Execute, FindDone
<1>2. \A t, n, name : Registers(t, n, name)' = Registers(t, n, name)
  BY <1>1 DEF Registers
<1>3. /\ LockInv' /\ Contiguous' /\ StoreInv' /\ WholeEntries'
      /\ StoredInv'
  BY <1>1 DEF LockInv, Contiguous, StoreInv, WholeEntries, StoredInv, InTable, Full
<1>4. OriginInv'
  BY <1>1, <1>2 DEF OriginInv
<1>5. ASSUME NEW name \in Names, FindStart(name) PROVE TypeInv' /\ FindInv'
  <2>1. /\ find'.pc = "scan" /\ find'.name = name /\ find'.i = 0
        /\ find'.known = {d \in done : d[3] = name} /\ find'.result = NULL
    BY <1>5 DEF FindStart, NoFind
  <2>2. {d \in done : d[3] = name} \in SUBSET Done /\ 0 \in 0 .. Slots
    BY DEF TypeInv
  <2>3. find' \in Lookups
    BY <1>5, <2>2 DEF FindStart, NoFind, Lookups
  <2>4. QED BY <1>1, <2>1, <2>3 DEF TypeInv, FindInv, Index
<1>6. ASSUME FindStep PROVE TypeInv' /\ FindInv'
  <2>1. /\ find.pc = "scan" /\ find \in Lookups /\ find.i \in 0 .. Slots
        /\ find.i # Slots => find.i \in Index
    BY <1>6 DEF FindStep, TypeInv, Lookups, Index
  <2>2. /\ find' \in Lookups /\ find'.known = find.known /\ find'.name = find.name
        /\ \/ find'.pc = "missed"
           \/ find'.pc = "found" /\ find'.i = find.i /\ find.i \in Index /\ commands[find.i].subcommand = find.name
           \/ /\ find'.pc = "scan" /\ find'.i = find.i + 1 /\ find.i \in Index
              /\ commands[find.i].subcommand \notin {NULL, find.name}
    BY <1>6, <2>1 DEF FindStep, Lookups, Index
  <2>3. TypeInv'
    BY <1>1, <2>2 DEF TypeInv
  <2>4. FindInv'
    BY <1>1, <2>1, <2>2 DEF FindInv, Index
  <2>5. QED BY <2>3, <2>4
<1>7. ASSUME Execute PROVE TypeInv' /\ FindInv'
  <2>1. /\ find.pc = "found" /\ find \in Lookups /\ find.i \in Index /\ commands[find.i].subcommand = find.name
        /\ find.name \in Names /\ find.name # NULL /\ commands[find.i] \in Entries
    BY <1>7 DEF Execute, TypeInv, FindInv, CliRegistryAssumption
  <2> DEFINE x == commands[find.i].execute
  <2>2. x \in Calls \cup {NULL}
    BY <2>1 DEF Entries
  <2>3. /\ find' \in Lookups /\ find'.known = find.known /\ find'.name = find.name
        /\ find'.pc = "called" /\ find'.result = x
    <3> HIDE DEF x
    <3>1. find' = [find EXCEPT !.pc = "called", !.result = x]
      BY <1>7 DEF Execute, x
    <3>2. QED BY <2>1, <2>2, <3>1 DEF Lookups
  <2>4. TypeInv'
    BY <1>1, <2>3 DEF TypeInv
  <2> HIDE DEF x
  <2>5. (\A d \in find'.known : d[3] = find'.name) /\ find'.name \in Names /\ find'.pc = "called"
    BY <2>1, <2>3 DEF FindInv
  <2>6. CASE x # NULL
    <3>1. PICK t \in Threads, n \in 1 .. MaxRegs : x = <<t, n>>
      BY <2>2, <2>6 DEF Calls
    <3>2. Registers(t, n, find.name)
      BY <2>1, <3>1 DEF OriginInv, x
    <3>3. find'.result = <<t, n>> /\ Registers(t, n, find.name)'
      BY <1>2, <2>3, <3>1, <3>2
    <3>4. QED BY <2>4, <2>5, <3>3 DEF FindInv
  <2>7. CASE x = NULL
    <3>1. find.known = {}
      <4> SUFFICES ASSUME NEW d \in find.known PROVE FALSE
        OBVIOUS
      <4>1. d \in done /\ d[3] = find.name /\ d[1] \in Threads /\ d[2] \in 1 .. MaxRegs
        BY DEF TypeInv, Done, FindInv
      <4>2. ~Full
        BY <2>1, <2>7 DEF Full, x
      <4>3. PICK i \in Index : commands[i] = [subcommand |-> d[3], execute |-> <<d[1], d[2]>>]
        BY <4>1, <4>2 DEF StoredInv, InTable
      <4>4. commands[i].subcommand = find.name /\ commands[i].execute # NULL
        BY <4>1, <4>3 DEF CliRegistryAssumption
      <4>5. PICK u \in Threads : reg[u].pc = "store" /\ reg[u].slot = find.i
        BY <2>1, <2>7 DEF WholeEntries, x
      <4>6. i < find.i
        <5>1. i \in Nat /\ find.i \in Nat
          BY <2>1 DEF Index
        <5>2. ~(i > find.i)
          BY <4>4, <4>5 DEF StoreInv
        <5>3. i # find.i
          BY <2>7, <4>4 DEF x
        <5>4. QED BY <5>1, <5>2, <5>3
      <4>7. QED BY <2>1, <4>4, <4>6 DEF FindInv
    <3>2. find'.result = NULL /\ find'.known = {}
      BY <2>3, <2>7, <3>1
    <3>3. QED BY <2>4, <2>5, <3>2 DEF FindInv
  <2>8. QED BY <2>6, <2>7
<1>8. ASSUME FindDone PROVE TypeInv' /\ FindInv'
  <2>1. find' = NoFind
    BY <1>8 DEF FindDone
  <2>2. NoFind \in Lookups /\ NoFind.pc = "idle" /\ NoFind.known = {}
    BY DEF NoFind, Lookups
  <2>3. QED BY <1>1, <2>1, <2>2 DEF TypeInv, FindInv
<1>9. QED BY <1>3, <1>4, <1>5, <1>6, <1>7, <1>8

-----------------------------------------------------------------------------
\* The invariant holds initially.
LEMMA InitHolds == Init => IInv
<1> SUFFICES ASSUME Init PROVE IInv
  OBVIOUS
<1> USE CliRegistryAssumption
<1>1. /\ commands = [i \in Index |-> Free] /\ regcnt = 0 /\ spin = NULL /\ done = {}
      /\ reg = [t \in Threads |-> Idle(0)] /\ find = NoFind
  BY DEF Init
<1>2. Free \in Entries /\ Free.subcommand = NULL /\ Free.execute = NULL
  BY DEF Free, Entries
<1>3. Idle(0) \in RegCalls /\ Idle(0).pc = "idle"
  BY IdleCall
<1>4. NoFind \in Lookups /\ NoFind.pc = "idle" /\ NoFind.known = {}
  BY DEF NoFind, Lookups
<1>5. TypeInv
  BY <1>1, <1>2, <1>3, <1>4 DEF TypeInv
<1>6. LockInv /\ StoreInv
  BY <1>1, <1>3 DEF LockInv, StoreInv
<1>7. Contiguous /\ WholeEntries
  BY <1>1, <1>2 DEF Contiguous, WholeEntries
<1>8. StoredInv
  BY <1>1, <1>3 DEF StoredInv
<1>9. OriginInv
  BY <1>1, <1>2 DEF OriginInv
<1>10. FindInv
  BY <1>1, <1>4 DEF FindInv
<1>11. QED BY <1>5, <1>6, <1>7, <1>8, <1>9, <1>10 DEF IInv

\* Every step preserves it.
LEMMA NextKeeps == IInv /\ [Next]_vars => IInv'
<1> SUFFICES ASSUME IInv, [Next]_vars PROVE IInv'
  OBVIOUS
<1>1. ASSUME NEW t \in Threads, NEW name \in Names, RegisterCheck(t, name) PROVE IInv'
  BY <1>1, CheckKeeps
<1>2. ASSUME NEW t \in Threads, RegisterLock(t) PROVE IInv'
  BY <1>2, LockKeeps
<1>3. ASSUME NEW t \in Threads, RegisterScan(t) PROVE IInv'
  BY <1>3, ScanKeeps
<1>4. ASSUME NEW t \in Threads, NEW f \in Fields, RegisterStore(t, f) PROVE IInv'
  BY <1>4, StoreKeeps
<1>5. ASSUME NEW t \in Threads, RegisterUnlock(t) PROVE IInv'
  BY <1>5, UnlockKeeps
<1>6. CASE (\E name \in Names : FindStart(name)) \/ FindStep \/ Execute \/ FindDone
  BY <1>6, LookupKeeps
<1>7. CASE UNCHANGED vars
  BY <1>7 DEF vars, IInv, TypeInv, LockInv, Contiguous, StoreInv, WholeEntries, StoredInv, InTable, Full,
              OriginInv, Registers, FindInv
<1>8. QED BY <1>1, <1>2, <1>3, <1>4, <1>5, <1>6, <1>7 DEF Next, Fields

\* The inductive invariant, for every instance.
THEOREM Invariant == Spec => []IInv
  BY InitHolds, NextKeeps, PTL DEF Spec

\* A lookup, which takes no lock, calls the function registered under the
\* name it asked for; it meets a NULL function only while the first
\* registration of that name is being stored.  Any number of threads.
THEOREM RightOne == Spec => []CallsTheRightOne
<1>1. IInv => CallsTheRightOne
  BY DEF IInv, FindInv, Registers, CallsTheRightOne
<1>2. QED BY <1>1, Invariant, PTL

\* What is in the table stays there: cli_register overwrites no entry,
\* because the slot it fills under the lock is free.  Any number of threads.
THEOREM Stay == Spec => EntriesStay
<1> DEFINE A == \A i \in Index : commands[i].execute # NULL => commands'[i].execute = commands[i].execute
<1>1. ASSUME IInv, [Next]_vars PROVE A
  <2>1. CASE UNCHANGED commands
    BY <2>1
  <2>2. ASSUME NEW t \in Threads, NEW f \in Fields, RegisterStore(t, f) PROVE A
    <3>1. /\ reg[t].pc = "store" /\ reg[t].slot \in Index /\ f \in reg[t].todo
          /\ commands \in [Index -> Entries]
          /\ f = "execute" => commands[reg[t].slot].execute = NULL
      BY <1>1, <2>2 DEF IInv, TypeInv, StoreInv, RegisterStore
    <3>2. commands[reg[t].slot] \in Entries
      BY <3>1
    <3>3. f # "execute" => [commands[reg[t].slot] EXCEPT !.subcommand = reg[t].name].execute = commands[reg[t].slot].execute
      BY <3>2 DEF Entries
    <3>4. QED BY <2>2, <3>1, <3>3 DEF RegisterStore, Fields
  <2>3. QED BY <1>1, <2>1, <2>2 DEF Next, Fields, vars, RegisterCheck, RegisterLock, RegisterScan, RegisterUnlock,
                                    FindStart, FindStep, Execute, FindDone
<1>2. IInv /\ [Next]_vars => [A]_vars
  BY <1>1
<1>3. QED BY <1>2, Invariant, PTL DEF Spec, EntriesStay

-----------------------------------------------------------------------------
\* The used slots are finitely many; all of them are used when none is free.
LEMMA UsedFinite ==
    ASSUME CliRegistryAssumption
    PROVE  /\ IsFiniteSet(Used) /\ Cardinality(Used) \in Nat
           /\ Full => Cardinality(Used) = Slots
<1>1. IsFiniteSet(Index) /\ Cardinality(Index) = Slots
  <2>1. 0 \in Int /\ Slots - 1 \in Int
    BY DEF CliRegistryAssumption
  <2>2. Cardinality(0 .. Slots - 1) = IF 0 > Slots - 1 THEN 0 ELSE Slots - 1 - 0 + 1
    BY <2>1, FS_Interval
  <2>3. QED BY <2>1, <2>2, FS_Interval DEF Index, CliRegistryAssumption
<1>2. Used \subseteq Index
  BY DEF Used
<1>3. IsFiniteSet(Used)
  BY <1>1, <1>2, FS_Subset
<1>4. Full => Used = Index
  BY DEF Used, Full
<1>5. QED BY <1>1, <1>3, <1>4, FS_CardinalityType

\* With two threads, the scan of a thread that passed the check finds a slot.
LEMMA RoomForScan ==
    ASSUME IInv2, NEW t \in Threads, reg[t].pc = "scan" PROVE ~Full
<1>1. spin = t /\ regcnt \in Nat
  BY DEF IInv2, IInv, LockInv, TypeInv
<1>2. Cardinality(Used) = regcnt /\ regcnt <= Slots - 1
  BY <1>1 DEF IInv2, CountInv, RoomInv
<1>3. QED BY <1>1, <1>2, UsedFinite, CliRegistryAssumption DEF CliRegistryAssumption

\* The steps of cli_register preserve the rest of the invariant.
LEMMA RegisterKeeps2 ==
    ASSUME AtMostTwo, IInv2, IInv', NEW t \in Threads,
           \/ \E name \in Names : RegisterCheck(t, name)
           \/ RegisterLock(t) \/ RegisterScan(t) \/ RegisterUnlock(t)
    PROVE  CountInv' /\ RoomInv' /\ KeptInv'
<1> USE CliRegistryAssumption
<1>1. /\ commands' = commands /\ find' = find
      /\ reg \in [Threads -> RegCalls] /\ regcnt \in Nat /\ spin \in Threads \cup {NULL}
      /\ Used' = Used /\ \A x, n, name : InTable(x, n, name)' = InTable(x, n, name)
      /\ NULL \notin Threads
  BY DEF IInv2, IInv, TypeInv, RegisterCheck, RegisterLock, RegisterScan, RegisterUnlock, Used, InTable, CliRegistryAssumption
<1>2. LockInv /\ CountInv /\ RoomInv /\ KeptInv /\ StoredInv /\ TypeInv
  BY DEF IInv2, IInv
<1>3. ASSUME NEW name \in Names, RegisterCheck(t, name) PROVE CountInv' /\ RoomInv' /\ KeptInv'
  <2>1. PICK r : /\ reg' = [reg EXCEPT ![t] = r]
                 /\ r.pc = "idle" \/ (r.pc = "lock" /\ ~TableFull)
    <3> DEFINE n == reg[t].n + 1
               q == [Idle(n) EXCEPT !.pc = "lock", !.name = name]
    <3>1. reg' = [reg EXCEPT ![t] = IF TableFull THEN Idle(n) ELSE q]
      BY <1>3 DEF RegisterCheck
    <3>2. Idle(n).pc = "idle" /\ q.pc = "lock"
      BY DEF Idle
    <3> HIDE DEF q, n
    <3>3. QED BY <3>1, <3>2
  <2>2. /\ reg'[t] = r /\ (\A u \in Threads : u # t => reg'[u] = reg[u]) /\ reg[t].pc = "idle"
        /\ UNCHANGED <<regcnt, spin, done>>
    BY <1>1, <1>3, <2>1 DEF RegisterCheck
  <2>3. CountInv'
    BY <1>1, <1>2, <2>1, <2>2 DEF CountInv
  <2>4. RoomInv'
    BY <1>1, <1>2, <2>1, <2>2 DEF RoomInv, TableFull
  <2>5. KeptInv'
    BY <1>1, <1>2, <2>1, <2>2 DEF KeptInv
  <2>6. QED BY <2>3, <2>4, <2>5
<1>4. ASSUME RegisterLock(t) PROVE CountInv' /\ RoomInv' /\ KeptInv'
  <2>1. reg[t] \in RegCalls
    BY <1>1
  <2>2. /\ reg'[t].pc = "scan" /\ (\A u \in Threads : u # t => reg'[u] = reg[u]) /\ reg[t].pc = "lock"
        /\ UNCHANGED <<regcnt, done>> /\ spin = NULL /\ spin' = t
    BY <1>1, <1>4, <2>1, SetPc DEF RegisterLock, Pcs
  <2>3. CountInv'
    BY <1>1, <1>2, <2>2 DEF CountInv
  <2>4. RoomInv'
    BY <1>1, <1>2, <2>2 DEF RoomInv
  <2>5. KeptInv'
    BY <1>1, <1>2, <2>2 DEF KeptInv
  <2>6. QED BY <2>3, <2>4, <2>5
<1>5. ASSUME RegisterScan(t) PROVE CountInv' /\ RoomInv' /\ KeptInv'
  <2>1. reg[t].pc = "scan" /\ spin = t /\ UNCHANGED <<regcnt, done, spin>>
    BY <1>2, <1>5 DEF RegisterScan, LockInv
  <2>2. FirstFree # {}
    BY <2>1, RoomForScan, SlotFree
  <2>3. PICK i \in FirstFree : reg' = [reg EXCEPT ![t].pc = "store", ![t].slot = i, ![t].todo = {"subcommand", "execute"}]
    BY <1>5, <2>2 DEF RegisterScan
  <2>4. /\ reg'[t].pc = "store" /\ "execute" \in reg'[t].todo
        /\ \A u \in Threads : u # t => reg'[u] = reg[u]
    BY <1>1, <2>3 DEF RegCalls
  <2>5. CountInv'
    BY <1>1, <1>2, <2>1, <2>4 DEF CountInv
  <2>6. RoomInv'
    BY <1>1, <1>2, <2>1, <2>4 DEF RoomInv
  <2>7. KeptInv'
    BY <1>1, <1>2, <2>1, <2>4 DEF KeptInv
  <2>8. QED BY <2>5, <2>6, <2>7
<1>6. ASSUME RegisterUnlock(t) PROVE CountInv' /\ RoomInv' /\ KeptInv'
  <2>1. /\ reg[t].pc = "unlock" /\ spin = t /\ spin' = NULL /\ regcnt' = regcnt + 1
        /\ done' = done \cup {<<t, reg[t].n, reg[t].name>>}
    BY <1>2, <1>6 DEF RegisterUnlock, LockInv
  <2>2. reg'[t].pc = "idle" /\ \A u \in Threads : u # t => reg'[u] = reg[u]
    BY <1>1, <1>6 DEF RegisterUnlock, Idle
  <2>3. CountInv'
    BY <1>1, <1>2, <2>1, <2>2 DEF CountInv
  <2>4. RoomInv'
    <3> SUFFICES ASSUME NEW u \in Threads, reg'[u].pc \in {"lock", "scan"}
                 PROVE  /\ regcnt' <= Slots - 1
                        /\ \A v \in Threads : v # u /\ reg'[v].pc # "idle" => regcnt' <= Slots - 2
      BY DEF RoomInv
    <3>1. u # t /\ reg'[u] = reg[u]
      BY <2>2
    <3>2. regcnt <= Slots - 2
      BY <1>2, <2>1, <3>1 DEF RoomInv
    <3>3. \A v \in Threads : v # u => v = t
      BY <3>1 DEF AtMostTwo
    <3>4. QED BY <1>1, <2>1, <2>2, <3>2, <3>3
  <2>5. KeptInv'
    <3>1. InTable(t, reg[t].n, reg[t].name)
      BY <1>2, <2>1 DEF KeptInv
    <3>2. QED BY <1>1, <1>2, <2>1, <2>2, <3>1 DEF KeptInv
  <2>6. QED BY <2>3, <2>4, <2>5
<1>7. QED BY <1>3, <1>4, <1>5, <1>6

\* So does a store: it adds an entry with the function and keeps the others.
LEMMA StoreKeeps2 ==
    ASSUME IInv2, IInv', NEW t \in Threads, NEW f \in Fields, RegisterStore(t, f)
    PROVE  CountInv' /\ RoomInv' /\ KeptInv'
<1> USE CliRegistryAssumption
<1> DEFINE s == reg[t].slot
<1>1. /\ UNCHANGED <<regcnt, spin, done, find>> /\ commands \in [Index -> Entries]
      /\ reg \in [Threads -> RegCalls] /\ reg[t] \in RegCalls /\ reg[t].pc = "store" /\ spin = t /\ f \in reg[t].todo
      /\ reg[t].name \in Names /\ reg[t].n \in 1 .. MaxRegs /\ s \in Index /\ commands[s] \in Entries
      /\ commands[s].execute = IF "execute" \in reg[t].todo THEN NULL ELSE <<t, reg[t].n>>
      /\ commands[s].subcommand = IF "subcommand" \in reg[t].todo THEN NULL ELSE reg[t].name
  BY DEF IInv2, IInv, RegisterStore, TypeInv, LockInv, StoreInv
<1>2. LockInv /\ CountInv /\ RoomInv /\ KeptInv /\ TypeInv
  BY DEF IInv2, IInv
<1>3. /\ reg'[t].pc = (IF reg[t].todo = {f} THEN "unlock" ELSE "store") /\ reg'[t].todo = reg[t].todo \ {f}
      /\ reg'[t].n = reg[t].n /\ reg'[t].name = reg[t].name
      /\ \A u \in Threads : u # t => reg'[u] = reg[u]
  BY <1>1 DEF RegisterStore, RegCalls
<1>4. /\ \A i \in Index : i # s => commands'[i] = commands[i]
      /\ commands'[s].execute = IF f = "execute" THEN <<t, reg[t].n>> ELSE commands[s].execute
      /\ commands'[s].subcommand = IF f = "subcommand" THEN reg[t].name ELSE commands[s].subcommand
      /\ commands'[s] \in Entries
  <2>1. \A i \in Index : i # s => commands'[i] = commands[i]
    BY <1>1 DEF RegisterStore
  <2>2. CASE f = "subcommand"
    BY <1>1, <2>1, <2>2 DEF RegisterStore, Entries
  <2>3. CASE f = "execute"
    <3>1. <<t, reg[t].n>> \in Calls
      BY <1>1 DEF Calls
    <3>2. QED BY <1>1, <2>1, <2>3, <3>1 DEF RegisterStore, Entries
  <2>4. QED BY <2>1, <2>2, <2>3 DEF Fields
<1>5. NULL # reg[t].name /\ NULL # <<t, reg[t].n>> /\ NULL \notin Threads
  BY <1>1 DEF CliRegistryAssumption
<1> HIDE DEF s
<1>6. CountInv'
  <2>1. CASE f = "execute"
    <3>1. Used' = Used \cup {s} /\ s \notin Used
      BY <1>1, <1>4, <1>5, <2>1 DEF Used
    <3>2. Cardinality(Used') = Cardinality(Used) + 1
      BY <3>1, UsedFinite, FS_AddElement
    <3>3. Cardinality(Used) = regcnt
      BY <1>1, <1>2, <2>1 DEF CountInv
    <3>4. QED BY <1>1, <1>3, <1>5, <2>1, <3>2, <3>3 DEF CountInv
  <2>2. CASE f = "subcommand"
    <3>1. Used' = Used
      BY <1>1, <1>4, <2>2 DEF Used
    <3>2. reg'[t].pc = "unlock" => "execute" \notin reg[t].todo
      BY <1>3, <2>2
    <3>3. "execute" \in reg'[t].todo <=> "execute" \in reg[t].todo
      BY <1>3, <2>2
    <3>4. reg'[t].pc = "unlock" \/ reg'[t].pc = "store"
      BY <1>3
    <3>5. "execute" \notin reg[t].todo <=> reg'[t].pc = "unlock" \/ (reg'[t].pc = "store" /\ "execute" \notin reg'[t].todo)
      BY <3>2, <3>3, <3>4
    <3>6. QED BY <1>1, <1>2, <1>5, <3>1, <3>4, <3>5 DEF CountInv
  <2>3. QED BY <2>1, <2>2 DEF Fields
<1>7. RoomInv'
  BY <1>1, <1>2, <1>3 DEF RoomInv
<1>8. KeptInv'
  <2>1. ASSUME NEW u \in Threads, NEW n \in 1 .. MaxRegs, NEW name \in Names, InTable(u, n, name)
        PROVE  InTable(u, n, name)'
    <3>1. PICK i \in Index : commands[i] = [subcommand |-> name, execute |-> <<u, n>>]
      BY <2>1 DEF InTable
    <3>2. commands[i].subcommand # NULL /\ commands[i].execute # NULL
      BY <3>1 DEF CliRegistryAssumption
    <3>3. i # s
      BY <1>1, <3>2 DEF Fields, s
    <3>4. QED BY <1>4, <3>1, <3>3 DEF InTable
  <2>2. ASSUME NEW u \in Threads, reg'[u].pc = "unlock" PROVE InTable(u, reg[u].n, reg[u].name)'
    <3>1. u = t /\ reg[t].todo = {f}
      BY <1>1, <1>2, <1>3, <2>2 DEF LockInv
    <3>2. commands'[s].execute = <<t, reg[t].n>> /\ commands'[s].subcommand = reg[t].name
      BY <1>1, <1>4, <3>1 DEF Fields, s
    <3>3. commands'[s] = [subcommand |-> reg[t].name, execute |-> <<t, reg[t].n>>]
      BY <1>4, <3>2 DEF Entries
    <3>4. s \in Index
      BY <1>1 DEF s
    <3>5. QED BY <1>3, <3>1, <3>3, <3>4 DEF InTable
  <2>3. ASSUME NEW d \in done PROVE InTable(d[1], d[2], d[3])'
    <3>1. d[1] \in Threads /\ d[2] \in 1 .. MaxRegs /\ d[3] \in Names
      BY <1>2 DEF TypeInv, Done
    <3>2. QED BY <1>2, <2>1, <3>1 DEF KeptInv
  <2>4. QED BY <1>1, <1>2, <2>2, <2>3 DEF KeptInv
<1>9. QED BY <1>6, <1>7, <1>8

\* And a lookup: it ends at the first empty name, and whatever was stored
\* before it started lies in front of that.
LEMMA LookupKeeps2 ==
    ASSUME IInv2, IInv', (\E name \in Names : FindStart(name)) \/ FindStep \/ Execute \/ FindDone
    PROVE  CountInv' /\ RoomInv' /\ KeptInv'
<1> USE CliRegistryAssumption
<1>1. UNCHANGED <<commands, regcnt, spin, reg, done>>
  BY DEF FindStart, FindStep, Execute, FindDone
<1>2. CountInv' /\ RoomInv'
  BY <1>1 DEF IInv2, CountInv, RoomInv, Used
<1>3. \A x, n, name : InTable(x, n, name)' = InTable(x, n, name)
  BY <1>1 DEF InTable
<1>4. find'.pc = "missed" => find'.known = {}
  <2>1. CASE FindStep
    <3> SUFFICES ASSUME find'.pc = "missed", NEW d \in find'.known PROVE FALSE
      OBVIOUS
    <3>1. /\ find \in Lookups /\ find.i \in 0 .. Slots /\ find.pc = "scan" /\ find'.known = find.known
          /\ find.i = Slots \/ (find.i \in Index /\ commands[find.i].subcommand = NULL)
      BY <2>1 DEF IInv2, IInv, TypeInv, FindStep, Lookups, Index
    <3>2. d \in done /\ d[3] = find.name /\ d[1] \in Threads /\ d[2] \in 1 .. MaxRegs /\ d[3] \in Names
      BY <3>1 DEF IInv2, IInv, TypeInv, FindInv, Done
    <3>3. PICK i \in Index : commands[i] = [subcommand |-> d[3], execute |-> <<d[1], d[2]>>]
      BY <3>2 DEF IInv2, KeptInv, InTable
    <3>4. commands[i].subcommand = find.name /\ commands[i].subcommand # NULL /\ commands[i].execute # NULL
      BY <3>2, <3>3 DEF CliRegistryAssumption
    <3>5. i < find.i
      <4>1. i \in Nat /\ i < Slots
        BY DEF Index
      <4>2. ASSUME find.i \in Index, commands[find.i].subcommand = NULL PROVE i < find.i
        <5>1. ~(find.i < i)
          <6>1. CASE commands[find.i].execute = NULL
            BY <3>4, <4>2, <6>1 DEF IInv2, IInv, Contiguous
          <6>2. CASE commands[find.i].execute # NULL
            <7>1. PICK u \in Threads : reg[u].pc = "store" /\ reg[u].slot = find.i
              BY <4>2, <6>2 DEF IInv2, IInv, WholeEntries
            <7>2. QED BY <3>4, <4>2, <7>1 DEF IInv2, IInv, StoreInv
          <6>3. QED BY <6>1, <6>2
        <5>2. i # find.i /\ find.i \in Nat
          BY <3>4, <4>2 DEF Index
        <5>3. QED BY <4>1, <5>1, <5>2
      <4>3. QED BY <3>1, <4>1, <4>2
    <3>6. QED BY <3>1, <3>4, <3>5 DEF IInv2, IInv, FindInv
  <2>2. ASSUME NEW name \in Names, FindStart(name) PROVE find'.pc = "scan"
    BY <2>2 DEF FindStart, NoFind
  <2>3. CASE Execute
    BY <2>3 DEF Execute, IInv2, IInv, TypeInv, Lookups
  <2>4. CASE FindDone
    BY <2>4 DEF FindDone, NoFind
  <2>5. QED BY <2>1, <2>2, <2>3, <2>4
<1>5. KeptInv'
  BY <1>1, <1>3, <1>4 DEF IInv2, KeptInv
<1>6. QED BY <1>2, <1>5

\* The whole invariant, for at most two registering threads.
THEOREM Invariant2 == AtMostTwo => (Spec => []IInv2)
<1> SUFFICES ASSUME AtMostTwo PROVE Spec => []IInv2
  OBVIOUS
<1>1. Init => IInv2
  <2> SUFFICES ASSUME Init PROVE IInv2
    OBVIOUS
  <2>1. IInv
    BY InitHolds
  <2>2. /\ \A i \in Index : commands[i].execute = NULL
        /\ \A t \in Threads : reg[t].pc = "idle"
        /\ regcnt = 0 /\ spin = NULL /\ done = {} /\ find.pc = "idle"
    BY DEF Init, Free, Idle, NoFind
  <2>3. Used = {}
    BY <2>2 DEF Used
  <2>4. CountInv
    BY <2>2, <2>3, FS_EmptySet, CliRegistryAssumption DEF CountInv, CliRegistryAssumption
  <2>5. RoomInv /\ KeptInv
    BY <2>2 DEF RoomInv, KeptInv
  <2>6. QED BY <2>1, <2>4, <2>5 DEF IInv2
<1>2. IInv2 /\ [Next]_vars => IInv2'
  <2> SUFFICES ASSUME IInv2, [Next]_vars PROVE IInv2'
    OBVIOUS
  <2>1. IInv'
    BY NextKeeps DEF IInv2
  <2>2. CASE \E t \in Threads : \/ \E name \in Names : RegisterCheck(t, name)
                                \/ RegisterLock(t) \/ RegisterScan(t) \/ RegisterUnlock(t)
    BY <2>1, <2>2, RegisterKeeps2 DEF IInv2
  <2>3. CASE \E t \in Threads, f \in Fields : RegisterStore(t, f)
    BY <2>1, <2>3, StoreKeeps2 DEF IInv2
  <2>4. CASE (\E name \in Names : FindStart(name)) \/ FindStep \/ Execute \/ FindDone
    BY <2>1, <2>4, LookupKeeps2 DEF IInv2
  <2>5. CASE UNCHANGED vars
    BY <2>1, <2>5 DEF vars, IInv2, CountInv, RoomInv, KeptInv, Used, InTable
  <2>6. QED BY <2>2, <2>3, <2>4, <2>5 DEF Next, Fields
<1>3. QED BY <1>1, <1>2, PTL DEF Spec

\* With at most two threads the counter that cli_register reads without the
\* lock is exact whenever the lock is free.
THEOREM Counts == AtMostTwo => (Spec => []CountsEntries)
<1>1. IInv2 => CountsEntries
  BY DEF IInv2, CountInv, CountsEntries, Used
<1>2. QED BY <1>1, Invariant2, PTL

\* With at most two threads no registration that returned is missed by a
\* later lookup: none is dropped and none is stored behind a gap.
THEOREM Found == AtMostTwo => (Spec => []RegisteredIsFound)
<1>1. IInv2 => RegisteredIsFound
  BY DEF IInv2, KeptInv, RegisteredIsFound
<1>2. QED BY <1>1, Invariant2, PTL
=============================================================================
