---------------------------- MODULE FaultInject ----------------------------
(***************************************************************************)
(* Fault injection points (src/src/fault_inject.c).  A controller          *)
(* registers, configures and unregisters faults by name, and threads of    *)
(* the program under test evaluate them with fault_inject_cond_get.  There *)
(* is no lock: every read or write of a shared field in cond_get is a      *)
(* step, and so is every store of the functions that reset a fault, in the *)
(* order the source has them.                                              *)
(*                                                                         *)
(* The name-ordered tree behind fault_inject_find is module RbTree; here   *)
(* it is a function from names to faults.  A fault is told from a later    *)
(* one of the same name by its gen, so that a pointer to freed memory is   *)
(* recognised.                                                             *)
(***************************************************************************)
EXTENDS Integers, FiniteSets

CONSTANTS Names, Threads,
          IntMax,        \* INT_MAX: the largest hit_times
          Windows,       \* the <<after_times, enable_times, hit_times>> used by fault_inject_init
          MaxHits,       \* bound: evaluations
          MaxCtl         \* bound: controller calls

ASSUME FaultInjectAssumption ==
    /\ Names # {} /\ IntMax \in Nat \ {0} /\ MaxHits \in Nat /\ MaxCtl \in Nat
    /\ Windows \subseteq (0 .. IntMax) \X (0 .. IntMax) \X (0 .. IntMax)

VARIABLES
    faults,  \* name -> [live, gen, enable, after_times, enable_times, hit_times, callback]
    th,      \* per thread: the cond_get call in progress
    ctl,     \* the controller: the reset it is in, and what it has still to store
    hits,    \* evaluations so far
    calls,   \* controller calls so far
    hist     \* history per name, since the last reset: start, the count it set;
             \* evals, start plus the evaluations; passes, those let through;
             \* shared, evaluations overlapped; raced, a reset is under way or
             \* the last one overlapped an evaluation

vars == <<faults, th, ctl, hits, calls, hist>>

NoFault(g) == [live |-> FALSE, gen |-> g, enable |-> FALSE, after_times |-> 0,
               enable_times |-> IntMax, hit_times |-> 0, callback |-> FALSE]
Ready == [pc |-> "idle", name |-> CHOOSE n \in Names : TRUE, gen |-> 0, times |-> 0, after |-> 0]
Quiet == [pc |-> "idle", name |-> CHOOSE n \in Names : TRUE, after |-> 0, enable |-> FALSE, times |-> 0]
Epoch(s, raced) == [start |-> s, evals |-> s, passes |-> 0, shared |-> FALSE, raced |-> raced]
Busy(n) == \E t \in Threads : th[t].pc # "idle" /\ th[t].name = n

Init ==
    /\ faults = [n \in Names |-> NoFault(0)]
    /\ th = [t \in Threads |-> Ready] /\ ctl = Quiet
    /\ hits = 0 /\ calls = 0
    /\ hist = [n \in Names |-> Epoch(0, FALSE)]

\* int32_t arithmetic wraps
Wrap(x) == IF x > IntMax THEN x - 2 * (IntMax + 1) ELSE x

-----------------------------------------------------------------------------
(***************************************************************************)
(* The controller                                                          *)
(***************************************************************************)
Call == ctl.pc = "idle" /\ calls < MaxCtl /\ calls' = calls + 1

\* fault_inject_register and _register_priv: nothing if the name exists
Register(n, cb) ==
    /\ Call
    /\ faults' = [faults EXCEPT ![n] = IF @.live THEN @
                    ELSE [NoFault(faults[n].gen + 1) EXCEPT !.live = TRUE, !.callback = cb]]
    /\ hist' = [hist EXCEPT ![n] = IF faults[n].live THEN @ ELSE Epoch(0, FALSE)]
    /\ UNCHANGED <<th, ctl, hits>>

Unregister(n) ==
    /\ Call
    /\ faults' = [faults EXCEPT ![n] = IF @.live THEN NoFault(@.gen) ELSE @]
    /\ UNCHANGED <<th, ctl, hits, hist>>

\* fault_inject_enable and fault_inject_disable
SetEnable(n, on) ==
    /\ Call
    /\ faults' = [faults EXCEPT ![n].enable = IF faults[n].live THEN on ELSE @]
    /\ UNCHANGED <<th, ctl, hits, hist>>

\* fault_inject_init and, with <<0, IntMax, 0>> and disabled, fault_inject_reset
\* of fault_inject_reinit: first enable_times ...
Configure(n, w, on) ==
    /\ Call /\ faults[n].live
    /\ faults' = [faults EXCEPT ![n].enable_times = w[2]]
    /\ ctl' = [pc |-> "after", name |-> n, after |-> w[1], enable |-> on, times |-> w[3]]
    /\ hist' = [hist EXCEPT ![n].raced = TRUE]
    /\ UNCHANGED <<th, hits>>

\* ... then after_times ...
ConfigureAfter ==
    /\ ctl.pc = "after"
    /\ faults' = [faults EXCEPT ![ctl.name].after_times = ctl.after]
    /\ ctl' = [ctl EXCEPT !.pc = "enable"]
    /\ UNCHANGED <<th, hits, calls, hist>>

\* ... then enable ...
ConfigureEnable ==
    /\ ctl.pc = "enable"
    /\ faults' = [faults EXCEPT ![ctl.name].enable = ctl.enable]
    /\ ctl' = [ctl EXCEPT !.pc = "hits"]
    /\ UNCHANGED <<th, hits, calls, hist>>

\* faulty variant: hit_times is not reset
ConfigureForgetsHits ==
    /\ ctl.pc = "hits"
    /\ hist' = [hist EXCEPT ![ctl.name] = Epoch(ctl.times, Busy(ctl.name))]
    /\ ctl' = Quiet
    /\ UNCHANGED <<faults, th, hits, calls>>

\* ... and hit_times
ConfigureHits ==
    /\ ctl.pc = "hits"
    /\ faults' = [faults EXCEPT ![ctl.name].hit_times = ctl.times]
    /\ hist' = [hist EXCEPT ![ctl.name] = Epoch(ctl.times, Busy(ctl.name))]
    /\ ctl' = Quiet
    /\ UNCHANGED <<th, hits, calls>>

Controller ==
    \/ \E n \in Names : \/ \E b \in BOOLEAN : Register(n, b) \/ SetEnable(n, b)
                        \/ Unregister(n)
                        \/ \E w \in Windows : Configure(n, w, TRUE)
                        \/ Configure(n, <<0, IntMax, 0>>, FALSE)
    \/ ConfigureAfter \/ ConfigureEnable \/ ConfigureHits

-----------------------------------------------------------------------------
(***************************************************************************)
(* fault_inject_cond_get by thread t                                       *)
(***************************************************************************)
Fault(t) == faults[th[t].name]
Dangling(t) == ~Fault(t).live \/ Fault(t).gen # th[t].gen

\* a step of the call at pc that looks at the fault
Access(t, pc) ==
    /\ th[t].pc = pc
    /\ ~Dangling(t)

\* The fault has been unregistered and freed meanwhile: its memory is used all
\* the same, which is undefined, and the model gives the call up.
UseFreed(t) ==
    /\ th[t].pc # "idle" /\ Dangling(t)
    /\ th' = [th EXCEPT ![t] = Ready]
    /\ UNCHANGED <<faults, ctl, hits, calls, hist>>

GoTo(t, pc) == th' = [th EXCEPT ![t].pc = pc]
ReturnNull(t) == th' = [th EXCEPT ![t] = Ready]

\* fault_inject_find
Find(t, n) ==
    /\ th[t].pc = "idle" /\ hits < MaxHits
    /\ hits' = hits + 1
    /\ th' = IF faults[n].live
             THEN [th EXCEPT ![t] = [Ready EXCEPT !.pc = "enable", !.name = n, !.gen = faults[n].gen]]
             ELSE th
    /\ hist' = [hist EXCEPT ![n].shared = @ \/ Busy(n)]
    /\ UNCHANGED <<faults, ctl, calls>>

ReadEnable(t) ==
    /\ Access(t, "enable")
    /\ IF Fault(t).enable THEN GoTo(t, "load") ELSE ReturnNull(t)
    /\ UNCHANGED <<faults, ctl, hits, calls, hist>>

\* faulty variant: a retried evaluation is counted twice
LoadHitsTwice(t) ==
    /\ Access(t, "load")
    /\ th' = [th EXCEPT ![t].pc = "store", ![t].times = Wrap(Fault(t).hit_times + 2)]
    /\ UNCHANGED <<faults, ctl, hits, calls, hist>>

\* ++fault->hit_times is a load and a store
LoadHits(t) ==
    /\ Access(t, "load")
    /\ th' = [th EXCEPT ![t].pc = "store", ![t].times = Wrap(Fault(t).hit_times + 1)]
    /\ UNCHANGED <<faults, ctl, hits, calls, hist>>

StoreHits(t) ==
    /\ Access(t, "store")
    /\ faults' = [faults EXCEPT ![th[t].name].hit_times = th[t].times]
    /\ hist' = [hist EXCEPT ![th[t].name].evals = @ + 1]
    /\ GoTo(t, "window")
    /\ UNCHANGED <<ctl, hits, calls>>

\* faulty variant: one evaluation too early
TooEarlyByOne(k, after) == k < after

TooEarly(k, after) == k <= after

TooLate(k, after, enable_times) == k - after > enable_times

\* the first comparison, with one read of after_times ...
ReadAfter(t) ==
    /\ Access(t, "window")
    /\ LET after == Fault(t).after_times
       IN  IF TooEarly(th[t].times, after) THEN ReturnNull(t)
           ELSE th' = [th EXCEPT ![t].pc = "judge", ![t].after = after]
    /\ UNCHANGED <<faults, ctl, hits, calls, hist>>

\* ... and the second with what was read then, or with another read of it
CheckWindow(t) ==
    /\ Access(t, "judge")
    /\ \E after \in {th[t].after, Fault(t).after_times} :
         IF TooLate(th[t].times, after, Fault(t).enable_times) THEN ReturnNull(t) /\ hist' = hist
         ELSE GoTo(t, "callback") /\ hist' = [hist EXCEPT ![th[t].name].passes = @ + 1]
    /\ UNCHANGED <<faults, ctl, hits, calls>>

\* the callback, if any, may veto; then sleep(sleep_time)
Callback(t) ==
    /\ Access(t, "callback")
    /\ GoTo(t, "fire") \/ (Fault(t).callback /\ ReturnNull(t))
    /\ UNCHANGED <<faults, ctl, hits, calls, hist>>

\* after the sleep the fault is returned and the FAULT_STATEMENT macros read
\* its inject_err
Fire(t) ==
    /\ Access(t, "fire")
    /\ ReturnNull(t)
    /\ UNCHANGED <<faults, ctl, hits, calls, hist>>

Eval(t) == \/ \E n \in Names : Find(t, n)
           \/ ReadEnable(t) \/ LoadHits(t) \/ StoreHits(t)
           \/ ReadAfter(t) \/ CheckWindow(t) \/ Callback(t) \/ Fire(t) \/ UseFreed(t)

Next == Controller \/ \E t \in Threads : Eval(t)

Spec == Init /\ [][Next]_vars

-----------------------------------------------------------------------------
\* Evaluated by one thread at a time, a fault passes exactly the evaluations
\* after_times + 1 .. after_times + enable_times since the last reset (until
\* hit_times overflows), however it is switched on and off in between.
PassesExactWindow ==
    \A n \in Names :
      LET f == faults[n]   s == hist[n]
      IN  (/\ f.live /\ ~s.shared /\ ~s.raced /\ s.evals <= IntMax
           /\ \A t \in Threads : th[t].pc \in {"window", "judge"} => th[t].name # n) =>
            s.passes = Cardinality({k \in s.start + 1 .. s.evals :
                                      f.after_times < k /\ k <= f.after_times + f.enable_times})

\* Concurrent evaluations may lose counts of the unlocked ++hit_times but
\* never add any: the counter is at most the number of evaluations since the
\* last reset, unless that overlapped one of them.
NeverOvercounts ==
    \A n \in Names : faults[n].live /\ ~hist[n].raced => faults[n].hit_times <= hist[n].evals

\* So no evaluation passes before after_times others have gone by, however
\* many threads evaluate the fault at once, unless a reset overlapped it.
NeverEarly ==
    [][\A t \in Threads :
         LET n == th[t].name
         IN  th[t].pc = "judge" /\ th'[t].pc = "callback" /\ ~hist[n].raced
               => hist[n].evals > faults[n].after_times]_vars
=============================================================================
