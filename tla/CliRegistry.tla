---------------------------- MODULE CliRegistry ----------------------------
(***************************************************************************)
(* The command table of the CLI server: commands[] and cli_register, which *)
(* any application thread may call, against command_find and               *)
(* command_execute, which the poll thread runs without the lock.           *)
(*                                                                         *)
(* regcnt is read before the spin lock is taken.  The fields of an entry   *)
(* are plain stores that a reader without the lock may see in either       *)
(* order, so each store is a step and their order is free (help, which no  *)
(* lookup reads, is left out).                                             *)
(***************************************************************************)
EXTENDS Integers, FiniteSets

CONSTANTS Threads,     \* application threads that register commands
          Names,       \* subcommand names
          Slots,       \* 1024: the entries of commands[]
          MaxRegs,     \* bound: cli_register calls of one thread
          NULL

ASSUME CliRegistryAssumption ==
    /\ Slots \in Nat \ {0} /\ MaxRegs \in Nat
    /\ NULL \notin Names \cup Threads \cup (Threads \X (1 .. MaxRegs))

VARIABLES
    commands,   \* slot -> [subcommand, execute]; execute is the call that set it
    regcnt,     \* the static counter of cli_register
    spin,       \* owner of cmd_handler->spin, or NULL
    reg,        \* per thread: the cli_register call in progress
    done,       \* history: <<thread, number, name>> of registrations that returned
    find        \* the poll thread's lookup in progress

vars == <<commands, regcnt, spin, reg, done, find>>

Index == 0 .. Slots - 1
Free  == [subcommand |-> NULL, execute |-> NULL]
Idle(n) == [pc |-> "idle", n |-> n, name |-> NULL, slot |-> Slots, todo |-> {}]
NoFind == [pc |-> "idle", name |-> NULL, i |-> 0, known |-> {}, result |-> NULL]

Init ==
    /\ commands = [i \in Index |-> Free]
    /\ regcnt = 0 /\ spin = NULL
    /\ reg = [t \in Threads |-> Idle(0)]
    /\ done = {} /\ find = NoFind

-----------------------------------------------------------------------------
(***************************************************************************)
(* cli_register                                                            *)
(***************************************************************************)
TableFull == regcnt >= Slots - 1

\* the check of regcnt, outside the lock: -ENOSPC or on to the lock
RegisterCheck(t, name) ==
    /\ reg[t].pc = "idle" /\ reg[t].n < MaxRegs
    /\ reg' = [reg EXCEPT ![t] = IF TableFull THEN Idle(reg[t].n + 1)
                                 ELSE [Idle(reg[t].n + 1) EXCEPT !.pc = "lock", !.name = name]]
    /\ UNCHANGED <<commands, regcnt, spin, done, find>>

RegisterLock(t) ==
    /\ reg[t].pc = "lock" /\ spin = NULL
    /\ spin' = t
    /\ reg' = [reg EXCEPT ![t].pc = "scan"]
    /\ UNCHANGED <<commands, regcnt, done, find>>

FirstFree == {i \in Index : commands[i].execute = NULL /\ \A j \in Index : j < i => commands[j].execute # NULL}

\* faulty variant: a name that is already there is replaced
ScanReplaces(t) ==
    /\ reg[t].pc = "scan"
    /\ LET same == {i \in Index : commands[i].subcommand = reg[t].name}
       IN  IF same \cup FirstFree = {} THEN reg' = [reg EXCEPT ![t].pc = "unlock"]
           ELSE \E i \in (IF same = {} THEN FirstFree ELSE same) :
                  reg' = [reg EXCEPT ![t].pc = "store", ![t].slot = i, ![t].todo = {"subcommand", "execute"}]
    /\ UNCHANGED <<commands, regcnt, spin, done, find>>

\* the loop up to the first slot whose execute is NULL; none: nothing stored
RegisterScan(t) ==
    /\ reg[t].pc = "scan"
    /\ IF FirstFree = {} THEN reg' = [reg EXCEPT ![t].pc = "unlock"]
       ELSE \E i \in FirstFree :
              reg' = [reg EXCEPT ![t].pc = "store", ![t].slot = i, ![t].todo = {"subcommand", "execute"}]
    /\ UNCHANGED <<commands, regcnt, spin, done, find>>

RegisterStore(t, field) ==
    /\ reg[t].pc = "store" /\ field \in reg[t].todo
    /\ commands' = [commands EXCEPT ![reg[t].slot] =
                      IF field = "subcommand" THEN [@ EXCEPT !.subcommand = reg[t].name]
                                              ELSE [@ EXCEPT !.execute = <<t, reg[t].n>>]]
    /\ reg' = [reg EXCEPT ![t].todo = @ \ {field},
                          ![t].pc = IF reg[t].todo = {field} THEN "unlock" ELSE @]
    /\ UNCHANGED <<regcnt, spin, done, find>>

\* faulty variant: the registration is not counted
CountForgotten(t) ==
    /\ reg[t].pc = "unlock"
    /\ spin' = NULL
    /\ done' = done \cup {<<t, reg[t].n, reg[t].name>>}
    /\ reg' = [reg EXCEPT ![t] = Idle(@.n)]
    /\ UNCHANGED <<commands, regcnt, find>>

\* regcnt++, unlock, return
RegisterUnlock(t) ==
    /\ reg[t].pc = "unlock"
    /\ regcnt' = regcnt + 1 /\ spin' = NULL
    /\ done' = done \cup {<<t, reg[t].n, reg[t].name>>}
    /\ reg' = [reg EXCEPT ![t] = Idle(@.n)]
    /\ UNCHANGED <<commands, find>>

-----------------------------------------------------------------------------
(***************************************************************************)
(* command_find and command_execute                                        *)
(***************************************************************************)
FindStart(name) ==
    /\ find.pc = "idle"
    /\ find' = [NoFind EXCEPT !.pc = "scan", !.name = name,
                              !.known = {d \in done : d[3] = name}]
    /\ UNCHANGED <<commands, regcnt, spin, reg, done>>

\* faulty variant: the scan stops one slot early
FindStepShort ==
    /\ find.pc = "scan"
    /\ find' = IF find.i = Slots - 1 \/ commands[find.i].subcommand = NULL
               THEN [find EXCEPT !.pc = "missed"]
               ELSE IF commands[find.i].subcommand = find.name
                    THEN [find EXCEPT !.pc = "found"]
                    ELSE [find EXCEPT !.i = @ + 1]
    /\ UNCHANGED <<commands, regcnt, spin, reg, done>>

\* faulty variant: the scan does not compare names
FindStepAny ==
    /\ find.pc = "scan"
    /\ find' = IF find.i = Slots \/ commands[find.i].subcommand = NULL
               THEN [find EXCEPT !.pc = "missed"] ELSE [find EXCEPT !.pc = "found"]
    /\ UNCHANGED <<commands, regcnt, spin, reg, done>>

\* one iteration of the lookup loop
FindStep ==
    /\ find.pc = "scan"
    /\ find' = IF find.i = Slots \/ commands[find.i].subcommand = NULL
               THEN [find EXCEPT !.pc = "missed"]
               ELSE IF commands[find.i].subcommand = find.name
                    THEN [find EXCEPT !.pc = "found"]
                    ELSE [find EXCEPT !.i = @ + 1]
    /\ UNCHANGED <<commands, regcnt, spin, reg, done>>

\* the call through the entry's execute, which may still be NULL
Execute ==
    /\ find.pc = "found"
    /\ find' = [find EXCEPT !.pc = "called", !.result = commands[find.i].execute]
    /\ UNCHANGED <<commands, regcnt, spin, reg, done>>

\* command_execute returns; a call through NULL does not
FindDone ==
    /\ find.pc = "missed" \/ (find.pc = "called" /\ find.result # NULL)
    /\ find' = NoFind
    /\ UNCHANGED <<commands, regcnt, spin, reg, done>>

Next == \/ \E t \in Threads : \/ \E name \in Names : RegisterCheck(t, name)
                              \/ RegisterLock(t) \/ RegisterScan(t) \/ RegisterUnlock(t)
                              \/ \E f \in {"subcommand", "execute"} : RegisterStore(t, f)
        \/ \E name \in Names : FindStart(name)
        \/ FindStep \/ Execute \/ FindDone

Spec == Init /\ [][Next]_vars

-----------------------------------------------------------------------------
\* A name whose registration has returned before the lookup starts is found,
\* although the lookup takes no lock and stops at the first empty name.
RegisteredIsFound == find.pc = "missed" => find.known = {}

\* The lookup calls the function registered under the name that was asked
\* for, and a NULL function only in the middle of that name's registration.
CallsTheRightOne ==
    find.pc = "called" =>
        \/ \E t \in Threads, n \in 1 .. MaxRegs :
              /\ find.result = <<t, n>>
              /\ \/ <<t, n, find.name>> \in done
                 \/ reg[t].n = n /\ reg[t].name = find.name
        \/ find.result = NULL /\ find.known = {}

\* Entries are never overwritten: once a command can be called it stays, the
\* first registration of a name wins and later ones only take a slot.
EntriesStay ==
    [][\A i \in Index : commands[i].execute # NULL => commands'[i].execute = commands[i].execute]_vars

\* The counter read without the lock is the number of entries, so that a
\* registration that returns has not been dropped for want of a slot (for at
\* most two registering threads: more can pass the check together).
CountsEntries ==
    spin = NULL => regcnt = Cardinality({i \in Index : commands[i].execute # NULL})
=============================================================================
