------------------------- MODULE FaultInjectProofs -------------------------
(***************************************************************************)
(* Fault injection for every number of threads, names, windows, calls and  *)
(* for every width of hit_times: the unlocked ++hit_times never counts too *)
(* much, no evaluation passes early, and without concurrent evaluations    *)
(* the window is exact.                                                    *)
(***************************************************************************)
EXTENDS FaultInject, FiniteSetTheorems, TLAPS

Pcs == {"idle", "enable", "load", "store", "window", "judge", "callback", "fire"}
FaultRecs == [live : BOOLEAN, gen : Nat, enable : BOOLEAN, after_times : 0 .. IntMax,
              enable_times : 0 .. IntMax, hit_times : Int, callback : BOOLEAN]
CondGets  == [pc : Pcs, name : Names, gen : Nat, times : Int, after : 0 .. IntMax]
Resets    == [pc : {"idle", "after", "enable", "hits"}, name : Names, after : 0 .. IntMax, enable : BOOLEAN,
              times : 0 .. IntMax]
Epochs    == [start : Nat, evals : Nat, passes : Nat, shared : BOOLEAN, raced : BOOLEAN]

TypeInv ==
    /\ faults \in [Names -> FaultRecs]
    /\ th \in [Threads -> CondGets]
    /\ ctl \in Resets
    /\ hits \in Nat /\ calls \in Nat
    /\ hist \in [Names -> Epochs]

\* no call holds a pointer to a fault of the future
GenInv == \A t \in Threads : th[t].gen <= faults[th[t].name].gen

\* t evaluates the fault that is registered as n now
On(t, n) == th[t].pc # "idle" /\ th[t].name = n /\ faults[n].live /\ th[t].gen = faults[n].gen

\* the count of a fault, and what its evaluations hold in registers
CountOf(n) ==
    faults[n].live /\ ~hist[n].raced =>
        /\ faults[n].hit_times <= hist[n].evals
        /\ \A t \in Threads : On(t, n) =>
             /\ th[t].pc = "store" => th[t].times <= hist[n].evals + 1
             /\ th[t].pc \in {"window", "judge"} => th[t].times <= hist[n].evals
             /\ th[t].pc = "judge" => th[t].after = faults[n].after_times /\ th[t].after < th[t].times

\* evaluations overlapped neither with each other nor with a reset, and too few to overflow
Clean(n) == faults[n].live /\ ~hist[n].shared /\ ~hist[n].raced /\ hist[n].evals <= IntMax

\* then there is one evaluation at a time and the count is exact
AloneOf(n) ==
    Clean(n) =>
        /\ \A t, u \in Threads : On(t, n) /\ On(u, n) => t = u
        /\ faults[n].hit_times = hist[n].evals /\ hist[n].start <= hist[n].evals
        /\ \A t \in Threads : On(t, n) =>
             /\ th[t].pc = "store" => th[t].times = Wrap(hist[n].evals + 1)
             /\ th[t].pc \in {"window", "judge"} => th[t].times = hist[n].evals /\ hist[n].start < hist[n].evals

\* and so are the evaluations let through, once the last one is judged
Window(f, a, b) == {k \in a + 1 .. b : f.after_times < k /\ k <= f.after_times + f.enable_times}
Judging(n) == \E t \in Threads : On(t, n) /\ th[t].pc \in {"window", "judge"}
PassOf(n) ==
    Clean(n) =>
        hist[n].passes = Cardinality(Window(faults[n], hist[n].start,
                                            IF Judging(n) THEN hist[n].evals - 1 ELSE hist[n].evals))

\* a reset is of a registered fault, and its history says so
ResetInv == ctl.pc # "idle" => faults[ctl.name].live /\ hist[ctl.name].raced

IInv == /\ TypeInv /\ GenInv /\ ResetInv
        /\ \A n \in Names : CountOf(n) /\ AloneOf(n) /\ PassOf(n)

-----------------------------------------------------------------------------
\* A fault nobody touches: its fields, its history and the evaluations that
\* hold a count are what they were, and no evaluation has started.
Untouched(n) ==
    /\ faults'[n].live = faults[n].live /\ faults'[n].gen = faults[n].gen
    /\ faults'[n].hit_times = faults[n].hit_times
    /\ hist'[n].start = hist[n].start /\ hist'[n].evals = hist[n].evals
    /\ hist'[n].raced = hist[n].raced /\ hist'[n].shared = hist[n].shared
    /\ hist[n].raced \/ faults'[n].after_times = faults[n].after_times
    /\ \A t \in Threads : /\ On(t, n)' => On(t, n)
                          /\ On(t, n)' /\ th'[t].pc \in {"store", "window", "judge"} => th'[t] = th[t]

SameWindow(n) ==
    /\ faults'[n].after_times = faults[n].after_times /\ faults'[n].enable_times = faults[n].enable_times
    /\ hist'[n].passes = hist[n].passes
    /\ Judging(n)' = Judging(n)

\* Its invariants are preserved.
LEMMA Frame == ASSUME NEW n \in Names, CountOf(n), AloneOf(n), Untouched(n) PROVE CountOf(n)' /\ AloneOf(n)'
<1>1. CountOf(n)'
  BY DEF CountOf, Untouched
<1>2. AloneOf(n)'
  BY DEF AloneOf, Untouched, Clean
<1>3. QED BY <1>1, <1>2

\* So is its number of evaluations let through.
LEMMA FramePass == ASSUME NEW n \in Names, PassOf(n), Untouched(n), SameWindow(n) PROVE PassOf(n)'
<1>1. Clean(n)' = Clean(n)
  BY DEF Untouched, Clean
<1>2. \A a, b : Window(faults[n], a, b)' = Window(faults[n], a, b)
  BY DEF SameWindow, Window
<1>3. QED BY <1>1, <1>2 DEF PassOf, SameWindow, Untouched

Inside(f, k) == f.after_times < k /\ k - f.after_times <= f.enable_times

\* One evaluation more, inside the window or not.
LEMMA WindowGrows ==
    ASSUME NEW f, NEW a \in Nat, NEW b \in Nat, a < b, f.after_times \in Nat, f.enable_times \in Nat
    PROVE  /\ Cardinality(Window(f, a, b - 1)) \in Nat
           /\ Cardinality(Window(f, a, b)) = Cardinality(Window(f, a, b - 1)) + (IF Inside(f, b) THEN 1 ELSE 0)
<1> DEFINE W == Window(f, a, b - 1)
<1>1. Window(f, a, b) = IF Inside(f, b) THEN W \cup {b} ELSE W
  BY DEF Window, Inside
<1>2. IsFiniteSet(W)
  <2>1. IsFiniteSet(a + 1 .. b - 1)
    BY FS_Interval
  <2>2. W \subseteq a + 1 .. b - 1
    BY DEF Window
  <2>3. QED BY <2>1, <2>2, FS_Subset
<1>3. b \notin W
  BY DEF Window
<1> HIDE DEF W
<1>4. Cardinality(W \cup {b}) = Cardinality(W) + 1 /\ Cardinality(W) \in Nat
  BY <1>2, <1>3, FS_AddElement, FS_CardinalityType
<1>5. QED BY <1>1, <1>4 DEF W

-----------------------------------------------------------------------------
\* A call between two evaluations.
LEMMA ReadyType == FaultInjectAssumption => Ready \in CondGets /\ Ready.pc = "idle" /\ Ready.gen = 0
<1> SUFFICES ASSUME FaultInjectAssumption PROVE Ready \in CondGets /\ Ready.pc = "idle" /\ Ready.gen = 0
  OBVIOUS
<1>1. (CHOOSE n \in Names : TRUE) \in Names /\ 0 \in 0 .. IntMax
  BY DEF FaultInjectAssumption
<1>2. QED BY <1>1 DEF Ready, CondGets, Pcs

\* The controller between two calls.
LEMMA QuietType == FaultInjectAssumption => Quiet \in Resets /\ Quiet.pc = "idle"
<1> SUFFICES ASSUME FaultInjectAssumption PROVE Quiet \in Resets /\ Quiet.pc = "idle"
  OBVIOUS
<1>1. (CHOOSE n \in Names : TRUE) \in Names /\ 0 \in 0 .. IntMax
  BY DEF FaultInjectAssumption
<1>2. QED BY <1>1 DEF Quiet, Resets

\* A fresh history.
LEMMA EpochType ==
    ASSUME NEW s \in Nat, NEW raced \in BOOLEAN
    PROVE  LET e == Epoch(s, raced)
           IN  e \in Epochs /\ e.start = s /\ e.evals = s /\ e.passes = 0 /\ e.shared = FALSE /\ e.raced = raced
  BY DEF Epoch, Epochs

\* The steps of an evaluation that change no count preserve the invariant.
LEMMA QuietStepKeeps ==
    ASSUME IInv, NEW t \in Threads, UseFreed(t) \/ ReadEnable(t) \/ Callback(t) \/ Fire(t) PROVE IInv'
<1> USE FaultInjectAssumption
<1>1. /\ UNCHANGED <<faults, ctl, hits, calls, hist>>
      /\ th \in [Threads -> CondGets] /\ faults \in [Names -> FaultRecs] /\ th[t] \in CondGets
      /\ th[t].pc # "idle" /\ (th[t].pc \in {"window", "judge"} => Dangling(t))
  BY DEF IInv, TypeInv, UseFreed, ReadEnable, Callback, Fire, Access
<1>2. PICK r \in CondGets :
        /\ th' = [th EXCEPT ![t] = r]
        /\ \/ r.pc = "idle" /\ r.gen = 0
           \/ r.pc \in {"load", "fire"} /\ r.name = th[t].name /\ r.gen = th[t].gen
  <2>1. CASE th' = [th EXCEPT ![t] = Ready]
    BY <2>1, ReadyType
  <2>2. ASSUME NEW p \in {"load", "fire"}, th' = [th EXCEPT ![t].pc = p]
        PROVE  \E r \in CondGets :
                 /\ th' = [th EXCEPT ![t] = r]
                 /\ r.pc \in {"load", "fire"} /\ r.name = th[t].name /\ r.gen = th[t].gen
    <3>1. p \in Pcs
      BY DEF Pcs
    <3> DEFINE q == [th[t] EXCEPT !.pc = p]
    <3>2. q \in CondGets /\ q.pc = p /\ q.name = th[t].name /\ q.gen = th[t].gen
      BY <1>1, <3>1 DEF CondGets
    <3>3. th' = [th EXCEPT ![t] = q]
      BY <2>2
    <3> HIDE DEF q
    <3>4. QED BY <3>2, <3>3
  <2>3. QED BY <2>1, <2>2 DEF UseFreed, ReadEnable, Callback, Fire, GoTo, ReturnNull
<1>3. th'[t] = r /\ \A u \in Threads : u # t => th'[u] = th[u]
  BY <1>1, <1>2
<1>4. TypeInv'
  BY <1>1, <1>2 DEF IInv, TypeInv
<1>5. GenInv'
  BY <1>1, <1>2, <1>3 DEF IInv, GenInv, FaultRecs, CondGets
<1>6. ResetInv'
  BY <1>1 DEF IInv, ResetInv
<1>7. ASSUME NEW n \in Names PROVE CountOf(n)' /\ AloneOf(n)' /\ PassOf(n)'
  <2>1. \A u \in Threads : u # t => On(u, n)' = On(u, n)
    BY <1>1, <1>3 DEF On
  <2>2. On(t, n)' => On(t, n)
    BY <1>1, <1>2, <1>3 DEF On
  <2>3. /\ ~(On(t, n) /\ th[t].pc \in {"window", "judge"})
        /\ ~(On(t, n)' /\ th'[t].pc \in {"store", "window", "judge"})
    BY <1>1, <1>2, <1>3 DEF On, Dangling, Fault
  <2>4. Untouched(n)
    BY <1>1, <1>3, <2>1, <2>2, <2>3 DEF Untouched
  <2>5. Judging(n)' = Judging(n)
    BY <1>3, <2>1, <2>3 DEF Judging
  <2>6. SameWindow(n)
    BY <1>1, <2>5 DEF SameWindow
  <2>7. QED BY <2>4, <2>6, Frame, FramePass DEF IInv
<1>8. QED BY <1>4, <1>5, <1>6, <1>7 DEF IInv

\* The load of ++hit_times preserves the invariant: what the register holds
\* is at most one ahead of the evaluations counted.
LEMMA LoadKeeps ==
    ASSUME IInv, NEW t \in Threads, LoadHits(t) PROVE IInv'
<1> USE FaultInjectAssumption
<1>0. PICK n \in Names : n = th[t].name
  BY DEF IInv, TypeInv, CondGets
<1> DEFINE v == Wrap(faults[n].hit_times + 1)
<1>1. /\ UNCHANGED <<faults, ctl, hits, calls, hist>>
      /\ th \in [Threads -> CondGets] /\ faults \in [Names -> FaultRecs] /\ hist \in [Names -> Epochs]
      /\ th[t] \in CondGets /\ th[t].pc = "load" /\ On(t, n)
      /\ faults[n].hit_times \in Int /\ hist[n].evals \in Nat
  BY <1>0 DEF IInv, TypeInv, LoadHits, Access, Dangling, Fault, On, CondGets, FaultRecs, Epochs
<1>2. v \in Int /\ v <= faults[n].hit_times + 1
  BY <1>1 DEF Wrap, FaultInjectAssumption
<1>3. PICK r \in CondGets : /\ th' = [th EXCEPT ![t] = r]
                            /\ r.pc = "store" /\ r.name = n /\ r.gen = th[t].gen /\ r.times = v
  <2>1. th' = [th EXCEPT ![t].pc = "store", ![t].times = v]
    BY <1>0 DEF LoadHits, Fault
  <2> HIDE DEF v
  <2> DEFINE q == [th[t] EXCEPT !.pc = "store", !.times = v]
  <2>2. "store" \in Pcs
    BY DEF Pcs
  <2>3. q \in CondGets /\ q.pc = "store" /\ q.name = n /\ q.gen = th[t].gen /\ q.times = v
    BY <1>0, <1>1, <1>2, <2>2 DEF CondGets
  <2>4. th' = [th EXCEPT ![t] = q]
    BY <1>1, <2>1
  <2> HIDE DEF q
  <2>5. QED BY <2>3, <2>4
<1>4. th'[t] = r /\ \A u \in Threads : u # t => th'[u] = th[u]
  BY <1>1, <1>3
<1>5. TypeInv' /\ ResetInv'
  BY <1>1, <1>3 DEF IInv, TypeInv, ResetInv
<1>6. GenInv'
  BY <1>0, <1>1, <1>3, <1>4 DEF IInv, GenInv
<1>7. \A m \in Names, u \in Threads : On(u, m)' = On(u, m)
  BY <1>0, <1>1, <1>3, <1>4 DEF On
<1>8. \A m \in Names : Judging(m)' = Judging(m)
  BY <1>1, <1>3, <1>4, <1>7 DEF Judging
<1>9. ASSUME NEW m \in Names, m # n PROVE CountOf(m)' /\ AloneOf(m)' /\ PassOf(m)'
  <2>1. ~On(t, m)
    BY <1>0, <1>9 DEF On
  <2>2. Untouched(m) /\ SameWindow(m)
    BY <1>1, <1>4, <1>7, <1>8, <2>1 DEF Untouched, SameWindow
  <2>3. QED BY <2>2, Frame, FramePass DEF IInv
<1> HIDE DEF v
<1>10. CountOf(n)'
  BY <1>1, <1>2, <1>3, <1>4, <1>7 DEF CountOf, IInv
<1>11. AloneOf(n)'
  BY <1>1, <1>3, <1>4, <1>7 DEF AloneOf, IInv, Clean, v
<1>12. PassOf(n)'
  BY <1>1, <1>8 DEF PassOf, IInv, Clean, Window
<1>13. QED BY <1>5, <1>6, <1>9, <1>10, <1>11, <1>12 DEF IInv

\* The store of ++hit_times preserves the invariant: it is one evaluation more,
\* and a count that was lost meanwhile only makes hit_times smaller.
LEMMA StoreKeeps ==
    ASSUME IInv, NEW t \in Threads, StoreHits(t) PROVE IInv'
<1> USE FaultInjectAssumption
<1>0. PICK n \in Names : n = th[t].name
  BY DEF IInv, TypeInv, CondGets
<1>1. /\ UNCHANGED <<ctl, hits, calls>>
      /\ th \in [Threads -> CondGets] /\ faults \in [Names -> FaultRecs] /\ hist \in [Names -> Epochs]
      /\ th[t] \in CondGets /\ faults[n] \in FaultRecs /\ hist[n] \in Epochs
      /\ th[t].pc = "store" /\ On(t, n)
      /\ th[t].times \in Int /\ hist[n].evals \in Nat /\ hist[n].start \in Nat /\ ctl \in Resets
  BY <1>0 DEF IInv, TypeInv, StoreHits, Access, Dangling, Fault, On, CondGets, FaultRecs, Epochs
<1>2. PICK r \in CondGets : /\ th' = [th EXCEPT ![t] = r]
                            /\ r.pc = "window" /\ r.name = n /\ r.gen = th[t].gen /\ r.times = th[t].times
  <2> DEFINE q == [th[t] EXCEPT !.pc = "window"]
  <2>1. q \in CondGets /\ q.pc = "window" /\ q.name = n /\ q.gen = th[t].gen /\ q.times = th[t].times
    BY <1>0, <1>1 DEF CondGets, Pcs
  <2>2. th' = [th EXCEPT ![t] = q]
    BY <1>1 DEF StoreHits, GoTo
  <2> HIDE DEF q
  <2>3. QED BY <2>1, <2>2
<1>3. PICK f \in FaultRecs : /\ faults' = [faults EXCEPT ![n] = f]
                             /\ f.live = faults[n].live /\ f.gen = faults[n].gen /\ f.hit_times = th[t].times
                             /\ f.after_times = faults[n].after_times /\ f.enable_times = faults[n].enable_times
  <2> DEFINE q == [faults[n] EXCEPT !.hit_times = th[t].times]
  <2>1. /\ q \in FaultRecs /\ q.live = faults[n].live /\ q.gen = faults[n].gen /\ q.hit_times = th[t].times
        /\ q.after_times = faults[n].after_times /\ q.enable_times = faults[n].enable_times
    BY <1>1 DEF FaultRecs
  <2>2. faults' = [faults EXCEPT ![n] = q]
    BY <1>0, <1>1 DEF StoreHits
  <2> HIDE DEF q
  <2>3. QED BY <2>1, <2>2
<1>4. PICK h \in Epochs : /\ hist' = [hist EXCEPT ![n] = h]
                          /\ h.evals = hist[n].evals + 1 /\ h.start = hist[n].start /\ h.passes = hist[n].passes
                          /\ h.shared = hist[n].shared /\ h.raced = hist[n].raced
  <2> DEFINE q == [hist[n] EXCEPT !.evals = hist[n].evals + 1]
  <2>1. /\ q \in Epochs /\ q.evals = hist[n].evals + 1 /\ q.start = hist[n].start /\ q.passes = hist[n].passes
        /\ q.shared = hist[n].shared /\ q.raced = hist[n].raced
    BY <1>1 DEF Epochs
  <2>2. hist' = [hist EXCEPT ![n] = q]
    BY <1>0, <1>1 DEF StoreHits
  <2> HIDE DEF q
  <2>3. QED BY <2>1, <2>2
<1>5. /\ th'[t] = r /\ \A u \in Threads : u # t => th'[u] = th[u]
      /\ faults'[n] = f /\ \A m \in Names : m # n => faults'[m] = faults[m]
      /\ hist'[n] = h /\ \A m \in Names : m # n => hist'[m] = hist[m]
  BY <1>1, <1>2, <1>3, <1>4
<1>6. TypeInv'
  BY <1>1, <1>2, <1>3, <1>4 DEF IInv, TypeInv
<1>7. GenInv'
  BY <1>0, <1>1, <1>2, <1>3, <1>5 DEF IInv, GenInv, TypeInv, CondGets
<1>8. ResetInv'
  <2>1. \A m \in Names : hist'[m].raced = hist[m].raced /\ faults'[m].live = faults[m].live
    BY <1>3, <1>4, <1>5
  <2>2. ctl.name \in Names
    BY <1>1 DEF Resets
  <2>3. QED BY <1>1, <2>1, <2>2 DEF IInv, ResetInv
<1>9. \A m \in Names, u \in Threads : On(u, m)' = On(u, m)
  <2>1. ASSUME NEW m \in Names, NEW u \in Threads PROVE On(u, m)' = On(u, m)
    <3>1. /\ faults'[m].live = faults[m].live /\ faults'[m].gen = faults[m].gen
          /\ th'[u].name = th[u].name /\ th'[u].gen = th[u].gen
          /\ th'[u].pc # "idle" <=> th[u].pc # "idle"
      BY <1>0, <1>1, <1>2, <1>3, <1>5
    <3>2. QED BY <3>1 DEF On
  <2>2. QED BY <2>1
<1>10. ASSUME NEW m \in Names, m # n PROVE CountOf(m)' /\ AloneOf(m)' /\ PassOf(m)'
  <2>1. ~On(t, m)
    BY <1>0, <1>10 DEF On
  <2>2. Judging(m)' = Judging(m)
    BY <1>5, <1>9, <2>1 DEF Judging
  <2>3. Untouched(m) /\ SameWindow(m)
    BY <1>1, <1>5, <1>9, <1>10, <2>1, <2>2 DEF Untouched, SameWindow
  <2>4. QED BY <2>3, Frame, FramePass DEF IInv
<1>11. CountOf(n)'
  <2> SUFFICES ASSUME faults'[n].live, ~hist'[n].raced
               PROVE  /\ faults'[n].hit_times <= hist'[n].evals
                      /\ \A u \in Threads : On(u, n)' =>
                           /\ th'[u].pc = "store" => th'[u].times <= hist'[n].evals + 1
                           /\ th'[u].pc \in {"window", "judge"} => th'[u].times <= hist'[n].evals
                           /\ th'[u].pc = "judge" => th'[u].after = faults'[n].after_times /\ th'[u].after < th'[u].times
    BY DEF CountOf
  <2>1. CountOf(n) /\ faults[n].live /\ ~hist[n].raced
    BY <1>3, <1>4, <1>5 DEF IInv
  <2>2. th[t].times <= hist[n].evals + 1
    BY <1>1, <2>1 DEF CountOf
  <2>3. ASSUME NEW u \in Threads, On(u, n)'
        PROVE  /\ th'[u].pc = "store" => th'[u].times <= hist'[n].evals + 1
               /\ th'[u].pc \in {"window", "judge"} => th'[u].times <= hist'[n].evals
               /\ th'[u].pc = "judge" => th'[u].after = faults'[n].after_times /\ th'[u].after < th'[u].times
    <3>1. CASE u = t
      BY <1>2, <1>4, <1>5, <2>2, <3>1
    <3>2. CASE u # t
      <4>1. th'[u] = th[u] /\ On(u, n) /\ th[u].times \in Int
        BY <1>1, <1>5, <1>9, <2>3, <3>2 DEF CondGets
      <4>2. QED BY <1>1, <1>3, <1>4, <1>5, <2>1, <4>1 DEF CountOf
    <3>3. QED BY <3>1, <3>2
  <2>4. QED BY <1>3, <1>4, <1>5, <2>2, <2>3
<1>12. ASSUME Clean(n)'
       PROVE  /\ Clean(n) /\ th[t].times = hist[n].evals + 1 /\ hist[n].start <= hist[n].evals
              /\ \A u \in Threads : On(u, n) => u = t
  <2>1. Clean(n) /\ hist[n].evals + 1 <= IntMax
    BY <1>1, <1>3, <1>4, <1>5, <1>12 DEF Clean, FaultInjectAssumption
  <2>2. QED BY <1>1, <2>1 DEF AloneOf, IInv, Wrap
<1>13. AloneOf(n)'
  BY <1>1, <1>2, <1>3, <1>4, <1>5, <1>9, <1>12 DEF AloneOf
<1>14. PassOf(n)'
  <2> SUFFICES ASSUME Clean(n)', Clean(n)
               PROVE hist'[n].passes = Cardinality(Window(faults[n], hist[n].start, IF Judging(n) THEN hist[n].evals - 1 ELSE hist[n].evals))'
    BY <1>12 DEF PassOf
  <2>1. ~Judging(n) /\ Judging(n)'
    BY <1>1, <1>2, <1>5, <1>9, <1>12 DEF Judging
  <2>2. hist[n].passes = Cardinality(Window(faults[n], hist[n].start, hist[n].evals))
    BY <1>1, <2>1 DEF IInv, PassOf
  <2>3. hist'[n].evals - 1 = hist[n].evals
    BY <1>1, <1>4, <1>5
  <2>4. \A a, b : Window(faults[n], a, b)' = Window(faults[n], a, b)
    BY <1>3, <1>5 DEF Window
  <2>5. QED BY <1>4, <1>5, <2>1, <2>2, <2>3, <2>4
<1>15. QED BY <1>6, <1>7, <1>8, <1>10, <1>11, <1>13, <1>14 DEF IInv

\* The first comparison preserves the invariant: an evaluation that comes too
\* early is judged, another has seen the after_times there is.
LEMMA ReadAfterKeeps ==
    ASSUME IInv, NEW t \in Threads, ReadAfter(t) PROVE IInv'
<1> USE FaultInjectAssumption
<1>0. PICK n \in Names : n = th[t].name
  BY DEF IInv, TypeInv, CondGets
<1> DEFINE after == faults[n].after_times
<1>1. /\ UNCHANGED <<faults, ctl, hits, calls, hist>>
      /\ th \in [Threads -> CondGets] /\ faults \in [Names -> FaultRecs] /\ hist \in [Names -> Epochs]
      /\ th[t] \in CondGets /\ faults[n] \in FaultRecs /\ hist[n] \in Epochs
      /\ th[t].pc = "window" /\ On(t, n) /\ th[t].times \in Int
      /\ after \in 0 .. IntMax /\ after \in Nat
  BY <1>0 DEF IInv, TypeInv, ReadAfter, Access, Dangling, Fault, On, CondGets, FaultRecs
<1>2. PICK r \in CondGets : /\ th' = [th EXCEPT ![t] = r]
                            /\ \/ th[t].times <= after /\ r.pc = "idle" /\ r.gen = 0
                               \/ /\ after < th[t].times /\ r.pc = "judge" /\ r.name = n /\ r.gen = th[t].gen
                                  /\ r.times = th[t].times /\ r.after = after
  <2> DEFINE q == [th[t] EXCEPT !.pc = "judge", !.after = after]
  <2>1. "judge" \in Pcs
    BY DEF Pcs
  <2>2. IF th[t].times <= after THEN th' = [th EXCEPT ![t] = Ready]
        ELSE th' = [th EXCEPT ![t].pc = "judge", ![t].after = after]
    BY <1>0 DEF ReadAfter, TooEarly, Fault, ReturnNull
  <2>3. after \in 0 .. IntMax
    BY <1>1
  <2> HIDE DEF after
  <2>4. q \in CondGets /\ q.pc = "judge" /\ q.name = n /\ q.gen = th[t].gen /\ q.times = th[t].times /\ q.after = after
    BY <1>0, <1>1, <2>1, <2>3 DEF CondGets
  <2>5. CASE th[t].times <= after
    BY <2>2, <2>5, ReadyType
  <2>6. CASE ~(th[t].times <= after)
    <3>1. th' = [th EXCEPT ![t] = q]
      BY <1>1, <2>2, <2>6
    <3>2. after < th[t].times
      BY <1>1, <2>6 DEF after
    <3> HIDE DEF q
    <3>3. QED BY <2>4, <3>1, <3>2
  <2>7. QED BY <2>5, <2>6
<1>3. th'[t] = r /\ \A u \in Threads : u # t => th'[u] = th[u]
  BY <1>1, <1>2
<1>4. TypeInv' /\ ResetInv'
  BY <1>1, <1>2 DEF IInv, TypeInv, ResetInv
<1>5. GenInv'
  BY <1>0, <1>1, <1>2, <1>3 DEF IInv, GenInv, FaultRecs, CondGets
<1>6. \A m \in Names, u \in Threads : u # t => On(u, m)' = On(u, m)
  BY <1>1, <1>3 DEF On
<1>7. \A m \in Names : On(t, m)' => On(t, m) /\ m = n /\ r.pc = "judge"
  BY <1>0, <1>1, <1>2, <1>3 DEF On
<1>8. ASSUME NEW m \in Names, m # n PROVE CountOf(m)' /\ AloneOf(m)' /\ PassOf(m)'
  <2>1. ~On(t, m) /\ ~On(t, m)'
    BY <1>0, <1>7, <1>8 DEF On
  <2>2. Judging(m)' = Judging(m)
    BY <1>3, <1>6, <2>1 DEF Judging
  <2>3. Untouched(m) /\ SameWindow(m)
    BY <1>1, <1>3, <1>6, <2>1, <2>2 DEF Untouched, SameWindow
  <2>4. QED BY <2>3, Frame, FramePass DEF IInv
<1>9. CountOf(n)'
  BY <1>1, <1>2, <1>3, <1>6, <1>7 DEF IInv, CountOf
<1>10. AloneOf(n)'
  BY <1>1, <1>2, <1>3, <1>6, <1>7 DEF IInv, AloneOf, Clean
<1>11. PassOf(n)'
  <2> SUFFICES ASSUME Clean(n)
               PROVE  hist[n].passes = Cardinality(Window(faults[n], hist[n].start, IF Judging(n)' THEN hist[n].evals - 1 ELSE hist[n].evals))
    BY <1>1 DEF PassOf, Clean, Window
  <2>1. /\ th[t].times = hist[n].evals /\ hist[n].start < hist[n].evals
        /\ \A u \in Threads : On(u, n) => u = t
    BY <1>1 DEF IInv, AloneOf
  <2>2. Judging(n)
    BY <1>1 DEF Judging
  <2>3. hist[n].passes = Cardinality(Window(faults[n], hist[n].start, hist[n].evals - 1))
    BY <2>2 DEF IInv, PassOf
  <2>4. CASE r.pc = "judge"
    <3>1. Judging(n)'
      BY <1>0, <1>1, <1>2, <1>3, <2>4 DEF Judging, On
    <3>2. QED BY <2>3, <3>1
  <2>5. CASE r.pc = "idle"
    <3>1. ~Judging(n)'
      BY <1>3, <1>6, <1>7, <2>1, <2>5 DEF Judging
    <3>2. hist[n].start \in Nat /\ hist[n].evals \in Nat /\ faults[n].after_times \in Nat /\ faults[n].enable_times \in Nat
      BY <1>1 DEF Epochs, FaultRecs
    <3>3. ~Inside(faults[n], hist[n].evals)
      BY <1>2, <2>1, <2>5, <3>2 DEF Inside
    <3>4. Cardinality(Window(faults[n], hist[n].start, hist[n].evals))
            = Cardinality(Window(faults[n], hist[n].start, hist[n].evals - 1))
      BY <2>1, <3>2, <3>3, WindowGrows
    <3>5. QED BY <2>3, <3>1, <3>4
  <2>6. QED BY <1>2, <2>4, <2>5
<1>12. QED BY <1>4, <1>5, <1>8, <1>9, <1>10, <1>11 DEF IInv

\* The second comparison preserves the invariant: alone, the evaluation is
\* the evals-th one, which is let through or not.
LEMMA CheckKeeps ==
    ASSUME IInv, NEW t \in Threads, CheckWindow(t) PROVE IInv'
<1> USE FaultInjectAssumption
<1>0. PICK n \in Names : n = th[t].name
  BY DEF IInv, TypeInv, CondGets
<1>1. /\ UNCHANGED <<faults, ctl, hits, calls>>
      /\ th \in [Threads -> CondGets] /\ faults \in [Names -> FaultRecs] /\ hist \in [Names -> Epochs]
      /\ th[t] \in CondGets /\ faults[n] \in FaultRecs /\ hist[n] \in Epochs
      /\ th[t].pc = "judge" /\ On(t, n)
  BY <1>0 DEF IInv, TypeInv, CheckWindow, Access, Dangling, Fault, On
<1>2. PICK after \in {th[t].after, faults[n].after_times} :
        IF th[t].times - after > faults[n].enable_times THEN th' = [th EXCEPT ![t] = Ready] /\ hist' = hist
        ELSE th' = [th EXCEPT ![t].pc = "callback"] /\ hist' = [hist EXCEPT ![n].passes = @ + 1]
  BY <1>0 DEF CheckWindow, TooLate, Fault, GoTo, ReturnNull
<1> DEFINE pass == ~(th[t].times - after > faults[n].enable_times)
<1>3. PICK r \in CondGets : /\ th' = [th EXCEPT ![t] = r]
                            /\ \/ r.pc = "idle" /\ r.gen = 0
                               \/ r.pc = "callback" /\ r.name = n /\ r.gen = th[t].gen
  <2> DEFINE q == [th[t] EXCEPT !.pc = "callback"]
  <2>1. q \in CondGets /\ q.pc = "callback" /\ q.name = n /\ q.gen = th[t].gen
    BY <1>0, <1>1 DEF CondGets, Pcs
  <2>2. th' = [th EXCEPT ![t] = q] \/ th' = [th EXCEPT ![t] = Ready]
    BY <1>1, <1>2
  <2> HIDE DEF q
  <2>3. QED BY <2>1, <2>2, ReadyType
<1>4. PICK h \in Epochs : /\ hist' = [hist EXCEPT ![n] = h]
                          /\ h.evals = hist[n].evals /\ h.start = hist[n].start
                          /\ h.passes = hist[n].passes + (IF pass THEN 1 ELSE 0)
                          /\ h.shared = hist[n].shared /\ h.raced = hist[n].raced
  <2> DEFINE q == [hist[n] EXCEPT !.passes = hist[n].passes + 1]
  <2>1. /\ q \in Epochs /\ q.evals = hist[n].evals /\ q.start = hist[n].start /\ q.passes = hist[n].passes + 1
        /\ q.shared = hist[n].shared /\ q.raced = hist[n].raced /\ hist[n].passes \in Nat
    BY <1>1 DEF Epochs
  <2>2. hist' = IF pass THEN [hist EXCEPT ![n] = q] ELSE hist
    BY <1>1, <1>2
  <2>3. hist = [hist EXCEPT ![n] = hist[n]]
    BY <1>1
  <2> HIDE DEF q, pass
  <2>4. CASE pass
    BY <2>1, <2>2, <2>4
  <2>5. CASE ~pass
    BY <1>1, <2>1, <2>2, <2>3, <2>5
  <2>6. QED BY <2>4, <2>5
<1> HIDE DEF pass
<1>5. /\ th'[t] = r /\ \A u \in Threads : u # t => th'[u] = th[u]
      /\ hist'[n] = h /\ \A m \in Names : m # n => hist'[m] = hist[m]
  BY <1>1, <1>3, <1>4
<1>6. TypeInv'
  BY <1>1, <1>3, <1>4 DEF IInv, TypeInv
<1>7. GenInv'
  BY <1>0, <1>1, <1>3, <1>5 DEF IInv, GenInv, FaultRecs, CondGets
<1>8. ResetInv'
  <2>1. \A m \in Names : hist'[m].raced = hist[m].raced
    BY <1>4, <1>5
  <2>2. ctl.name \in Names
    BY DEF IInv, TypeInv, Resets
  <2>3. QED BY <1>1, <2>1, <2>2 DEF IInv, ResetInv
<1>9. \A m \in Names, u \in Threads : u # t => On(u, m)' = On(u, m)
  BY <1>1, <1>5 DEF On
<1>10. \A m \in Names : On(t, m)' => On(t, m)
  BY <1>0, <1>1, <1>3, <1>5 DEF On
<1>11. ASSUME NEW m \in Names PROVE CountOf(m)' /\ AloneOf(m)'
  <2>1. Untouched(m)
    BY <1>1, <1>3, <1>4, <1>5, <1>9, <1>10 DEF Untouched
  <2>2. QED BY <2>1, Frame DEF IInv
<1>12. ASSUME NEW m \in Names, m # n PROVE PassOf(m)'
  <2>1. ~On(t, m)
    BY <1>0, <1>12 DEF On
  <2>2. Judging(m)' = Judging(m)
    BY <1>5, <1>9, <1>10, <2>1 DEF Judging
  <2>3. Untouched(m) /\ SameWindow(m)
    BY <1>1, <1>3, <1>5, <1>9, <1>10, <1>12, <2>1, <2>2 DEF Untouched, SameWindow
  <2>4. QED BY <2>3, FramePass DEF IInv
<1>13. PassOf(n)'
  <2> SUFFICES ASSUME Clean(n)'
               PROVE  hist'[n].passes = Cardinality(Window(faults[n], hist[n].start, IF Judging(n) THEN hist[n].evals - 1 ELSE hist[n].evals))'
    BY DEF PassOf
  <2>1. Clean(n)
    BY <1>1, <1>4, <1>5 DEF Clean
  <2>2. /\ th[t].times = hist[n].evals /\ hist[n].start < hist[n].evals
        /\ \A u \in Threads : On(u, n) => u = t
    BY <1>1, <2>1 DEF IInv, AloneOf
  <2>3. Judging(n) /\ ~Judging(n)'
    BY <1>1, <1>3, <1>5, <1>9, <1>10, <2>2 DEF Judging
  <2>4. hist[n].passes = Cardinality(Window(faults[n], hist[n].start, hist[n].evals - 1))
    BY <2>1, <2>3 DEF IInv, PassOf
  <2>5. hist[n].start \in Nat /\ hist[n].evals \in Nat /\ faults[n].after_times \in Nat /\ faults[n].enable_times \in Nat
    BY <1>1 DEF Epochs, FaultRecs
  <2>6. after = faults[n].after_times /\ after < th[t].times
    <3>1. th[t].after = faults[n].after_times /\ th[t].after < th[t].times
      BY <1>1, <2>1 DEF IInv, CountOf, Clean
    <3>2. QED BY <3>1
  <2>7. pass <=> Inside(faults[n], hist[n].evals)
    BY <2>2, <2>5, <2>6 DEF Inside, pass
  <2>8. Cardinality(Window(faults[n], hist[n].start, hist[n].evals))
          = Cardinality(Window(faults[n], hist[n].start, hist[n].evals - 1)) + (IF pass THEN 1 ELSE 0)
    BY <2>2, <2>5, <2>7, WindowGrows
  <2>9. \A a, b : Window(faults[n], a, b)' = Window(faults[n], a, b)
    BY <1>1 DEF Window
  <2>10. QED BY <1>4, <1>5, <2>3, <2>4, <2>8, <2>9
<1>14. QED BY <1>6, <1>7, <1>8, <1>11, <1>12, <1>13 DEF IInv

\* The start of an evaluation preserves the invariant: if another one is
\* under way the history records it.
LEMMA FindKeeps ==
    ASSUME IInv, NEW t \in Threads, NEW n \in Names, Find(t, n) PROVE IInv'
<1> USE FaultInjectAssumption
<1>1. /\ UNCHANGED <<faults, ctl, calls>> /\ hits \in Nat /\ hits' = hits + 1
      /\ th \in [Threads -> CondGets] /\ faults \in [Names -> FaultRecs] /\ hist \in [Names -> Epochs]
      /\ th[t] \in CondGets /\ faults[n] \in FaultRecs /\ hist[n] \in Epochs
      /\ th[t].pc = "idle"
  BY DEF IInv, TypeInv, Find
<1>2. PICK r \in CondGets : /\ th' = [th EXCEPT ![t] = r]
                            /\ \/ r = th[t]
                               \/ r.pc = "enable" /\ r.name = n /\ r.gen = faults[n].gen
  <2> DEFINE q == [Ready EXCEPT !.pc = "enable", !.name = n, !.gen = faults[n].gen]
  <2>1. q \in CondGets /\ q.pc = "enable" /\ q.name = n /\ q.gen = faults[n].gen
    <3>1. "enable" \in Pcs /\ faults[n].gen \in Nat
      BY <1>1 DEF Pcs, FaultRecs
    <3>2. Ready \in CondGets
      BY ReadyType
    <3>3. QED BY <3>1, <3>2 DEF CondGets
  <2>2. th' = [th EXCEPT ![t] = q] \/ th' = [th EXCEPT ![t] = th[t]]
    BY <1>1 DEF Find
  <2> HIDE DEF q
  <2>3. QED BY <1>1, <2>1, <2>2
<1>3. PICK h \in Epochs : /\ hist' = [hist EXCEPT ![n] = h]
                          /\ h.evals = hist[n].evals /\ h.start = hist[n].start /\ h.passes = hist[n].passes
                          /\ h.shared = (hist[n].shared \/ Busy(n)) /\ h.raced = hist[n].raced
  <2> DEFINE q == [hist[n] EXCEPT !.shared = hist[n].shared \/ Busy(n)]
  <2>0. (hist[n].shared \/ Busy(n)) \in BOOLEAN
    OBVIOUS
  <2>1. /\ q \in Epochs /\ q.evals = hist[n].evals /\ q.start = hist[n].start /\ q.passes = hist[n].passes
        /\ q.shared = (hist[n].shared \/ Busy(n)) /\ q.raced = hist[n].raced
    BY <1>1, <2>0 DEF Epochs
  <2>2. hist' = [hist EXCEPT ![n] = q]
    BY <1>1 DEF Find
  <2> HIDE DEF q
  <2>3. QED BY <2>1, <2>2
<1>4. /\ th'[t] = r /\ \A u \in Threads : u # t => th'[u] = th[u]
      /\ hist'[n] = h /\ \A m \in Names : m # n => hist'[m] = hist[m]
  BY <1>1, <1>2, <1>3
<1>5. TypeInv'
  BY <1>1, <1>2, <1>3 DEF IInv, TypeInv
<1>6. GenInv' /\ ResetInv'
  <2>1. GenInv'
    BY <1>1, <1>2, <1>4 DEF IInv, GenInv, FaultRecs
  <2>2. ResetInv'
    BY <1>1, <1>3, <1>4 DEF IInv, ResetInv
  <2>3. QED BY <2>1, <2>2
<1>7. \A m \in Names, u \in Threads : u # t => On(u, m)' = On(u, m)
  BY <1>1, <1>4 DEF On
<1>8. \A m \in Names : ~On(t, m) /\ (On(t, m)' => m = n /\ th'[t].pc = "enable")
  BY <1>1, <1>2, <1>4 DEF On
<1>9. \A m \in Names : Judging(m)' = Judging(m)
  BY <1>4, <1>7, <1>8 DEF Judging
<1>10. ASSUME NEW m \in Names, m # n PROVE CountOf(m)' /\ AloneOf(m)' /\ PassOf(m)'
  <2>1. Untouched(m) /\ SameWindow(m)
    BY <1>1, <1>4, <1>7, <1>8, <1>9, <1>10 DEF Untouched, SameWindow
  <2>2. QED BY <2>1, Frame, FramePass DEF IInv
<1>11. CountOf(n)'
  BY <1>1, <1>3, <1>4, <1>7, <1>8 DEF IInv, CountOf
<1>12. Clean(n)' => Clean(n) /\ \A u \in Threads : ~On(u, n)
  BY <1>1, <1>3, <1>4 DEF Clean, Busy, On
<1>13. AloneOf(n)'
  BY <1>1, <1>3, <1>4, <1>7, <1>8, <1>12 DEF IInv, AloneOf
<1>14. PassOf(n)'
  <2>1. \A a, b : Window(faults[n], a, b)' = Window(faults[n], a, b)
    BY <1>1 DEF Window
  <2>2. QED BY <1>1, <1>3, <1>4, <1>9, <1>12, <2>1 DEF IInv, PassOf
<1>15. QED BY <1>5, <1>6, <1>10, <1>11, <1>13, <1>14 DEF IInv

-----------------------------------------------------------------------------
\* A step of the controller that stores another field of a fault than its
\* count and its window, or one of a fault whose reset is under way.
LEMMA FieldKeeps ==
    ASSUME IInv, NEW n \in Names, NEW f \in FaultRecs, faults' = [faults EXCEPT ![n] = f],
           f.live = faults[n].live, f.gen = faults[n].gen, f.hit_times = faults[n].hit_times,
           UNCHANGED <<th, hist>>, hist[n].raced \/ (f.after_times = faults[n].after_times /\ f.enable_times = faults[n].enable_times),
           TypeInv', ResetInv'
    PROVE  IInv'
<1>1. /\ faults \in [Names -> FaultRecs] /\ faults[n] \in FaultRecs /\ th \in [Threads -> CondGets]
      /\ hist \in [Names -> Epochs]
  BY DEF IInv, TypeInv
<1>2. faults'[n] = f /\ \A m \in Names : m # n => faults'[m] = faults[m]
  BY <1>1
<1>3. GenInv'
  BY <1>1, <1>2 DEF IInv, GenInv, CondGets
<1>4. ASSUME NEW m \in Names PROVE CountOf(m)' /\ AloneOf(m)' /\ PassOf(m)'
  <2>1. faults'[m].live = faults[m].live /\ faults'[m].gen = faults[m].gen /\ faults'[m].hit_times = faults[m].hit_times
    BY <1>2
  <2>2. \A u \in Threads : On(u, m)' = On(u, m)
    BY <1>1, <2>1 DEF On
  <2>3. Judging(m)' = Judging(m)
    BY <1>1, <2>2 DEF Judging
  <2>4. Untouched(m)
    BY <1>1, <1>2, <2>1, <2>2 DEF Untouched
  <2>5. CountOf(m)' /\ AloneOf(m)'
    BY <2>4, Frame DEF IInv
  <2>6. CASE hist[m].raced
    BY <2>5, <2>6 DEF PassOf, Clean
  <2>7. CASE ~hist[m].raced
    <3>1. faults'[m].after_times = faults[m].after_times /\ faults'[m].enable_times = faults[m].enable_times
      BY <1>2, <2>7
    <3>2. SameWindow(m)
      BY <1>1, <2>3, <3>1 DEF SameWindow
    <3>3. QED BY <2>4, <2>5, <3>2, FramePass DEF IInv
  <2>8. QED BY <2>6, <2>7
<1>5. QED BY <1>3, <1>4 DEF IInv

\* Switching a fault on or off changes neither its count nor its window.
LEMMA SetKeeps ==
    ASSUME IInv, NEW n \in Names, NEW on \in BOOLEAN, SetEnable(n, on) PROVE IInv'
<1> DEFINE e == IF faults[n].live THEN on ELSE faults[n].enable
           q == [faults[n] EXCEPT !.enable = e]
<1>1. /\ UNCHANGED <<th, ctl, hits, hist>> /\ ctl.pc = "idle" /\ calls' \in Nat
      /\ faults \in [Names -> FaultRecs] /\ faults[n] \in FaultRecs
  BY DEF IInv, TypeInv, SetEnable, Call
<1>2. e \in BOOLEAN
  BY <1>1 DEF FaultRecs
<1>3. faults' = [faults EXCEPT ![n] = q]
  BY <1>1 DEF SetEnable
<1> HIDE DEF e
<1>4. /\ q \in FaultRecs /\ q.live = faults[n].live /\ q.gen = faults[n].gen /\ q.hit_times = faults[n].hit_times
      /\ q.after_times = faults[n].after_times /\ q.enable_times = faults[n].enable_times
  BY <1>1, <1>2 DEF FaultRecs
<1> HIDE DEF q
<1>5. TypeInv'
  BY <1>1, <1>3, <1>4 DEF IInv, TypeInv
<1>6. ResetInv'
  BY <1>1 DEF ResetInv
<1>7. QED BY <1>1, <1>3, <1>4, <1>5, <1>6, FieldKeeps

\* From its first store on, the history of the fault says that a reset is
\* under way; nothing else is claimed of it until the count is stored.
LEMMA ConfigureKeeps ==
    ASSUME IInv,
           \/ \E n \in Names, on \in BOOLEAN, w \in Windows \cup {<<0, IntMax, 0>>} : Configure(n, w, on)
           \/ ConfigureAfter \/ ConfigureEnable
    PROVE  IInv'
<1> USE FaultInjectAssumption
<1>1. /\ faults \in [Names -> FaultRecs] /\ th \in [Threads -> CondGets] /\ hist \in [Names -> Epochs]
      /\ ctl \in Resets /\ ctl.name \in Names /\ hits \in Nat /\ calls \in Nat
      /\ ctl.after \in 0 .. IntMax /\ ctl.enable \in BOOLEAN
  BY DEF IInv, TypeInv, Resets
<1>2. ASSUME NEW n \in Names, NEW on \in BOOLEAN, NEW w \in Windows \cup {<<0, IntMax, 0>>}, Configure(n, w, on)
      PROVE  IInv'
  <2> DEFINE f == [faults[n] EXCEPT !.enable_times = w[2]]
             h == [hist[n] EXCEPT !.raced = TRUE]
             c == [pc |-> "after", name |-> n, after |-> w[1], enable |-> on, times |-> w[3]]
  <2>1. w[1] \in 0 .. IntMax /\ w[2] \in 0 .. IntMax /\ w[3] \in 0 .. IntMax
    BY DEF FaultInjectAssumption
  <2>2. faults[n] \in FaultRecs /\ hist[n] \in Epochs
    BY <1>1
  <2>3. faults' = [faults EXCEPT ![n] = f] /\ hist' = [hist EXCEPT ![n] = h] /\ ctl' = c
    BY <1>1, <1>2 DEF Configure
  <2>4. UNCHANGED <<th, hits>> /\ calls' \in Nat /\ faults[n].live
    BY <1>1, <1>2 DEF Configure, Call
  <2>5. f \in FaultRecs /\ f.live = faults[n].live /\ f.gen = faults[n].gen
    BY <2>1, <2>2 DEF FaultRecs
  <2>6. h \in Epochs /\ h.raced = TRUE
    BY <2>2 DEF Epochs
  <2>7. c \in Resets /\ c.name = n
    BY <1>2, <2>1 DEF Resets
  <2> HIDE DEF f, h, c
  <2>8. /\ faults'[n] = f /\ \A m \in Names : m # n => faults'[m] = faults[m]
        /\ hist'[n] = h /\ \A m \in Names : m # n => hist'[m] = hist[m]
    BY <1>1, <2>3
  <2>9. TypeInv'
    BY <1>1, <2>3, <2>4, <2>5, <2>6, <2>7 DEF TypeInv
  <2>10. GenInv' /\ ResetInv'
    BY <1>1, <2>3, <2>4, <2>5, <2>6, <2>7, <2>8 DEF IInv, GenInv, ResetInv, CondGets
  <2>11. ASSUME NEW m \in Names, m # n PROVE CountOf(m)' /\ AloneOf(m)' /\ PassOf(m)'
    <3>1. \A u \in Threads : On(u, m)' = On(u, m)
      BY <1>1, <2>4, <2>8, <2>11 DEF On
    <3>2. Judging(m)' = Judging(m)
      BY <1>1, <2>4, <3>1 DEF Judging
    <3>3. Untouched(m) /\ SameWindow(m)
      BY <1>1, <2>4, <2>8, <2>11, <3>1, <3>2 DEF Untouched, SameWindow
    <3>4. QED BY <3>3, Frame, FramePass DEF IInv
  <2>12. CountOf(n)' /\ AloneOf(n)' /\ PassOf(n)'
    BY <2>6, <2>8 DEF CountOf, AloneOf, PassOf, Clean
  <2>13. QED BY <2>9, <2>10, <2>11, <2>12 DEF IInv
<1>3. ASSUME NEW f \in FaultRecs, NEW c \in Resets, faults' = [faults EXCEPT ![ctl.name] = f], ctl' = c,
             ctl.pc # "idle", c.name = ctl.name, UNCHANGED <<th, hits, calls, hist>>,
             f.live = faults[ctl.name].live, f.gen = faults[ctl.name].gen, f.hit_times = faults[ctl.name].hit_times
      PROVE  IInv'
  <2>1. faults[ctl.name].live /\ hist[ctl.name].raced
    BY <1>3 DEF IInv, ResetInv
  <2>2. TypeInv'
    BY <1>1, <1>3 DEF IInv, TypeInv
  <2>3. ResetInv'
    BY <1>1, <1>3, <2>1 DEF ResetInv
  <2>4. QED BY <1>1, <1>3, <2>1, <2>2, <2>3, FieldKeeps
<1>4. faults[ctl.name] \in FaultRecs
  BY <1>1
<1>5. CASE ConfigureAfter
  <2> DEFINE f == [faults[ctl.name] EXCEPT !.after_times = ctl.after]
             c == [ctl EXCEPT !.pc = "enable"]
  <2>1. f \in FaultRecs /\ f.live = faults[ctl.name].live /\ f.gen = faults[ctl.name].gen /\ f.hit_times = faults[ctl.name].hit_times
    BY <1>1, <1>4 DEF FaultRecs
  <2>2. c \in Resets /\ c.name = ctl.name
    BY <1>1 DEF Resets
  <2>3. faults' = [faults EXCEPT ![ctl.name] = f] /\ ctl' = c /\ ctl.pc # "idle" /\ UNCHANGED <<th, hits, calls, hist>>
    BY <1>1, <1>5 DEF ConfigureAfter
  <2> HIDE DEF f, c
  <2>4. QED BY <1>3, <2>1, <2>2, <2>3
<1>6. CASE ConfigureEnable
  <2> DEFINE f == [faults[ctl.name] EXCEPT !.enable = ctl.enable]
             c == [ctl EXCEPT !.pc = "hits"]
  <2>1. f \in FaultRecs /\ f.live = faults[ctl.name].live /\ f.gen = faults[ctl.name].gen /\ f.hit_times = faults[ctl.name].hit_times
    BY <1>1, <1>4 DEF FaultRecs
  <2>2. c \in Resets /\ c.name = ctl.name
    BY <1>1 DEF Resets
  <2>3. faults' = [faults EXCEPT ![ctl.name] = f] /\ ctl' = c /\ ctl.pc # "idle" /\ UNCHANGED <<th, hits, calls, hist>>
    BY <1>1, <1>6 DEF ConfigureEnable
  <2> HIDE DEF f, c
  <2>4. QED BY <1>3, <2>1, <2>2, <2>3
<1>7. QED BY <1>2, <1>5, <1>6

\* An empty window.
LEMMA NoWindow == ASSUME NEW f, NEW a \in Nat PROVE Cardinality(Window(f, a, a)) = 0
<1>1. Window(f, a, a) = {}
  BY DEF Window
<1>2. QED BY <1>1, FS_EmptySet

\* Registering a fault starts with a clean history that no earlier pointer
\* reaches; unregistering one leaves nothing to say about it.
LEMMA RegisterKeeps ==
    ASSUME IInv, NEW n \in Names, Unregister(n) \/ \E cb \in BOOLEAN : Register(n, cb) PROVE IInv'
<1> USE FaultInjectAssumption
<1>1. /\ UNCHANGED <<th, ctl, hits>> /\ ctl.pc = "idle" /\ calls' \in Nat
      /\ faults \in [Names -> FaultRecs] /\ faults[n] \in FaultRecs /\ faults[n].gen \in Nat
      /\ hist \in [Names -> Epochs] /\ hist[n] \in Epochs
      /\ th \in [Threads -> CondGets] /\ ctl \in Resets /\ \A u \in Threads : th[u].gen \in Nat
  <2>1. Call /\ UNCHANGED <<th, ctl, hits>>
    <3>1. CASE Unregister(n)
      BY <3>1 DEF Unregister
    <3>2. ASSUME NEW cb, Register(n, cb) PROVE Call /\ UNCHANGED <<th, ctl, hits>>
      BY <3>2 DEF Register
    <3>3. QED BY <3>1, <3>2
  <2>2. Call /\ TypeInv => ctl.pc = "idle" /\ calls' \in Nat
    BY DEF Call, TypeInv
  <2>3. QED BY <2>1, <2>2 DEF IInv, TypeInv, FaultRecs, CondGets
<1>2. PICK f \in FaultRecs, h \in Epochs :
        /\ faults' = [faults EXCEPT ![n] = f] /\ hist' = [hist EXCEPT ![n] = h]
        /\ \/ f = faults[n] /\ h = hist[n]
           \/ ~f.live /\ f.gen = faults[n].gen
           \/ /\ f.gen = faults[n].gen + 1 /\ f.hit_times = 0
              /\ h.start = 0 /\ h.evals = 0 /\ h.passes = 0
  <2> DEFINE Goal(f, h) == /\ faults' = [faults EXCEPT ![n] = f] /\ hist' = [hist EXCEPT ![n] = h]
                           /\ \/ f = faults[n] /\ h = hist[n]
                              \/ ~f.live /\ f.gen = faults[n].gen
                              \/ /\ f.gen = faults[n].gen + 1 /\ f.hit_times = 0
                                 /\ h.start = 0 /\ h.evals = 0 /\ h.passes = 0
  <2>0. 0 \in 0 .. IntMax /\ IntMax \in 0 .. IntMax /\ 0 \in Nat /\ 0 \in Int
    BY DEF FaultInjectAssumption
  <2>1. faults = [faults EXCEPT ![n] = faults[n]] /\ hist = [hist EXCEPT ![n] = hist[n]]
    BY <1>1
  <2>2. CASE Unregister(n)
    <3> DEFINE q == NoFault(faults[n].gen)
    <3>1. q \in FaultRecs /\ ~q.live /\ q.gen = faults[n].gen
      BY <1>1, <2>0 DEF NoFault, FaultRecs
    <3>2. hist' = hist /\ (faults' = [faults EXCEPT ![n] = q] \/ faults' = [faults EXCEPT ![n] = faults[n]])
      BY <2>2 DEF Unregister
    <3> HIDE DEF q
    <3>3. \E ff \in FaultRecs : Goal(ff, hist[n])
      BY <1>1, <2>1, <3>1, <3>2
    <3>4. QED BY <1>1, <3>3
  <2>3. ASSUME NEW cb \in BOOLEAN, Register(n, cb) PROVE \E ff \in FaultRecs, hh \in Epochs : Goal(ff, hh)
    <3>1. CASE faults[n].live
      <4>1. faults' = [faults EXCEPT ![n] = faults[n]] /\ hist' = [hist EXCEPT ![n] = hist[n]]
        BY <2>3, <3>1 DEF Register
      <4>2. QED BY <1>1, <4>1
    <3>2. CASE ~faults[n].live
      <4> DEFINE g == faults[n].gen + 1
                 q == [NoFault(g) EXCEPT !.live = TRUE, !.callback = cb]
                 e == Epoch(0, FALSE)
      <4>1. faults' = [faults EXCEPT ![n] = q] /\ hist' = [hist EXCEPT ![n] = e]
        BY <2>3, <3>2 DEF Register
      <4>2. e \in Epochs /\ e.start = 0 /\ e.evals = 0 /\ e.passes = 0
        BY DEF Epoch, Epochs
      <4>3. g \in Nat
        BY <1>1
      <4>4. q \in FaultRecs /\ q.gen = g /\ q.hit_times = 0
        <5> HIDE DEF g
        <5> QED BY <2>0, <4>3 DEF NoFault, FaultRecs
      <4> HIDE DEF q, e
      <4>5. QED BY <4>1, <4>2, <4>4
    <3>3. QED BY <3>1, <3>2
  <2>4. QED BY <2>2, <2>3
<1>3. /\ faults'[n] = f /\ \A m \in Names : m # n => faults'[m] = faults[m]
      /\ hist'[n] = h /\ \A m \in Names : m # n => hist'[m] = hist[m]
  BY <1>1, <1>2
<1>4. TypeInv'
  BY <1>1, <1>2 DEF IInv, TypeInv
<1>5. GenInv'
  BY <1>1, <1>2, <1>3 DEF IInv, GenInv, CondGets
<1>6. ResetInv'
  BY <1>1 DEF ResetInv
<1>7. ASSUME NEW m \in Names, faults'[m] = faults[m], hist'[m] = hist[m]
      PROVE  CountOf(m)' /\ AloneOf(m)' /\ PassOf(m)'
  <2>1. \A u \in Threads : On(u, m)' = On(u, m)
    BY <1>1, <1>7 DEF On
  <2>2. Judging(m)' = Judging(m)
    BY <1>1, <2>1 DEF Judging
  <2>3. Untouched(m) /\ SameWindow(m)
    BY <1>1, <1>7, <2>1, <2>2 DEF Untouched, SameWindow
  <2>4. QED BY <2>3, Frame, FramePass DEF IInv
<1>8. CASE ~f.live /\ f.gen = faults[n].gen
  <2>1. CountOf(n)' /\ AloneOf(n)' /\ PassOf(n)'
    BY <1>3, <1>8 DEF CountOf, AloneOf, PassOf, Clean
  <2>2. QED BY <1>3, <1>4, <1>5, <1>6, <1>7, <2>1 DEF IInv
<1>9. CASE f.gen = faults[n].gen + 1 /\ f.hit_times = 0 /\ h.start = 0 /\ h.evals = 0 /\ h.passes = 0
  <2>1. \A u \in Threads : ~On(u, n)'
    BY <1>1, <1>3, <1>9 DEF On, IInv, GenInv
  <2>2. CountOf(n)' /\ AloneOf(n)'
    BY <1>3, <1>9, <2>1 DEF CountOf, AloneOf
  <2>3. ~Judging(n)'
    BY <2>1 DEF Judging
  <2>4. Cardinality(Window(faults[n], 0, 0))' = 0
    BY NoWindow
  <2>5. PassOf(n)'
    BY <1>3, <1>9, <2>3, <2>4 DEF PassOf
  <2>6. QED BY <1>3, <1>4, <1>5, <1>6, <1>7, <2>2, <2>5 DEF IInv
<1>10. CASE f = faults[n] /\ h = hist[n]
  BY <1>3, <1>4, <1>5, <1>6, <1>7, <1>10 DEF IInv
<1>11. QED BY <1>2, <1>8, <1>9, <1>10

\* The reset of the count preserves the invariant: a new history starts, and
\* if an evaluation is under way it says so.
LEMMA ResetKeeps == ASSUME IInv, ConfigureHits PROVE IInv'
<1> USE FaultInjectAssumption
<1>0. PICK n \in Names, s \in 0 .. IntMax : n = ctl.name /\ s = ctl.times
  BY DEF IInv, TypeInv, Resets
<1>1. /\ UNCHANGED <<th, hits, calls>> /\ ctl.pc = "hits" /\ ctl' \in Resets /\ ctl'.pc = "idle"
      /\ faults \in [Names -> FaultRecs] /\ faults[n] \in FaultRecs
      /\ hist \in [Names -> Epochs] /\ hist[n] \in Epochs
      /\ th \in [Threads -> CondGets] /\ s \in Nat /\ s \in Int
  BY <1>0, QuietType DEF IInv, TypeInv, ConfigureHits, FaultInjectAssumption
<1>2. PICK f \in FaultRecs : /\ faults' = [faults EXCEPT ![n] = f]
                             /\ f.live = faults[n].live /\ f.gen = faults[n].gen /\ f.hit_times = s
  <2> DEFINE q == [faults[n] EXCEPT !.hit_times = s]
  <2>1. q \in FaultRecs /\ q.live = faults[n].live /\ q.gen = faults[n].gen /\ q.hit_times = s
    BY <1>1 DEF FaultRecs
  <2>2. faults' = [faults EXCEPT ![n] = q]
    BY <1>0, <1>1 DEF ConfigureHits
  <2> HIDE DEF q
  <2>3. QED BY <2>1, <2>2
<1>3. PICK h \in Epochs : /\ hist' = [hist EXCEPT ![n] = h]
                          /\ h.start = s /\ h.evals = s /\ h.passes = 0 /\ h.raced = Busy(n)
  <2> DEFINE q == Epoch(s, Busy(n))
  <2>0. Busy(n) \in BOOLEAN
    BY DEF Busy
  <2>1. q \in Epochs /\ q.start = s /\ q.evals = s /\ q.passes = 0 /\ q.raced = Busy(n)
    BY <1>1, <2>0 DEF Epoch, Epochs
  <2>2. hist' = [hist EXCEPT ![n] = q]
    BY <1>0, <1>1 DEF ConfigureHits
  <2> HIDE DEF q
  <2>3. QED BY <2>1, <2>2
<1>4. /\ faults'[n] = f /\ \A m \in Names : m # n => faults'[m] = faults[m]
      /\ hist'[n] = h /\ \A m \in Names : m # n => hist'[m] = hist[m]
  BY <1>1, <1>2, <1>3
<1>5. TypeInv' /\ ResetInv'
  BY <1>1, <1>2, <1>3 DEF IInv, TypeInv, ResetInv
<1>6. GenInv'
  BY <1>1, <1>2, <1>4 DEF IInv, GenInv, CondGets
<1>7. \A m \in Names, u \in Threads : On(u, m)' = On(u, m)
  BY <1>1, <1>2, <1>4 DEF On
<1>8. ASSUME NEW m \in Names, m # n PROVE CountOf(m)' /\ AloneOf(m)' /\ PassOf(m)'
  <2>1. Judging(m)' = Judging(m)
    BY <1>1, <1>7 DEF Judging
  <2>2. Untouched(m) /\ SameWindow(m)
    BY <1>0, <1>1, <1>4, <1>7, <1>8, <2>1 DEF Untouched, SameWindow
  <2>3. QED BY <2>2, Frame, FramePass DEF IInv
<1>9. ~hist'[n].raced => \A u \in Threads : ~On(u, n)'
  BY <1>3, <1>4, <1>7 DEF Busy, On
<1>10. CountOf(n)' /\ AloneOf(n)'
  BY <1>1, <1>2, <1>3, <1>4, <1>9 DEF CountOf, AloneOf, Clean
<1>11. PassOf(n)'
  <2>1. ~hist'[n].raced => ~Judging(n)'
    BY <1>9 DEF Judging
  <2>2. Cardinality(Window(faults[n], s, s))' = 0
    BY <1>1, NoWindow
  <2>3. QED BY <1>3, <1>4, <2>1, <2>2 DEF PassOf, Clean
<1>12. QED BY <1>5, <1>6, <1>8, <1>10, <1>11 DEF IInv

-----------------------------------------------------------------------------
\* The inductive invariant, for every instance.
THEOREM Invariant == Spec => []IInv
<1>1. Init => IInv
  <2> SUFFICES ASSUME Init PROVE IInv
    OBVIOUS
  <2> USE FaultInjectAssumption
  <2>1. NoFault(0) \in FaultRecs /\ NoFault(0).gen = 0 /\ ~NoFault(0).live
    <3>1. 0 \in 0 .. IntMax /\ IntMax \in 0 .. IntMax
      BY DEF FaultInjectAssumption
    <3>2. QED BY <3>1 DEF NoFault, FaultRecs
  <2>2. Epoch(0, FALSE) \in Epochs
    BY EpochType
  <2>3. TypeInv
    BY <2>1, <2>2, ReadyType, QuietType DEF Init, TypeInv
  <2>4. GenInv /\ ResetInv
    <3>1. GenInv
      BY <2>1, ReadyType DEF Init, GenInv, CondGets
    <3>2. ResetInv
      BY QuietType DEF Init, ResetInv
    <3>3. QED BY <3>1, <3>2
  <2>5. \A n \in Names : CountOf(n) /\ AloneOf(n) /\ PassOf(n)
    BY <2>1 DEF Init, CountOf, AloneOf, PassOf, Clean
  <2>6. QED BY <2>3, <2>4, <2>5 DEF IInv
<1>2. IInv /\ [Next]_vars => IInv'
  <2> SUFFICES ASSUME IInv, [Next]_vars PROVE IInv'
    OBVIOUS
  <2>1. ASSUME NEW n \in Names, NEW b \in BOOLEAN, Register(n, b) PROVE IInv'
    BY <2>1, RegisterKeeps
  <2>2. ASSUME NEW n \in Names, Unregister(n) PROVE IInv'
    BY <2>2, RegisterKeeps
  <2>3. ASSUME NEW n \in Names, NEW b \in BOOLEAN, SetEnable(n, b) PROVE IInv'
    BY <2>3, SetKeeps
  <2>4. ASSUME NEW n \in Names, NEW b \in BOOLEAN, NEW w \in Windows \cup {<<0, IntMax, 0>>}, Configure(n, w, b) PROVE IInv'
    BY <2>4, ConfigureKeeps
  <2>5. CASE ConfigureAfter \/ ConfigureEnable \/ ConfigureHits
    BY <2>5, ConfigureKeeps, ResetKeeps
  <2>6. CASE Controller
    <3>1. PICK n \in Names : \/ \E b \in BOOLEAN : Register(n, b) \/ SetEnable(n, b)
                             \/ Unregister(n)
                             \/ \E w \in Windows : Configure(n, w, TRUE)
                             \/ Configure(n, <<0, IntMax, 0>>, FALSE)
                             \/ ConfigureAfter \/ ConfigureEnable \/ ConfigureHits
      BY <2>6, <2>5, FaultInjectAssumption DEF Controller, FaultInjectAssumption
    <3>2. QED BY <2>1, <2>2, <2>3, <2>4, <2>5, <3>1
  <2>7. ASSUME NEW t \in Threads, Eval(t) PROVE IInv'
    BY <2>7, FindKeeps, QuietStepKeeps, LoadKeeps, StoreKeeps, ReadAfterKeeps, CheckKeeps DEF Eval
  <2>8. CASE UNCHANGED vars
    <3>1. TypeInv' /\ GenInv' /\ ResetInv'
      BY <2>8 DEF vars, IInv, TypeInv, GenInv, ResetInv
    <3>2. \A n \in Names : Judging(n)' = Judging(n) /\ \A t \in Threads : On(t, n)' = On(t, n)
      BY <2>8 DEF vars, Judging, On
    <3>3. \A n \in Names : Untouched(n) /\ SameWindow(n)
      BY <2>8, <3>2 DEF vars, Untouched, SameWindow
    <3>4. QED BY <3>1, <3>3, Frame, FramePass DEF IInv
  <2>9. QED BY <2>6, <2>7, <2>8 DEF Next
<1>3. QED BY <1>1, <1>2, PTL DEF Spec

\* However many threads race on ++hit_times, the count is never above the
\* number of evaluations since the last reset, unless that overlapped one.
THEOREM Overcounts == Spec => []NeverOvercounts
<1>1. IInv => NeverOvercounts
  BY DEF IInv, CountOf, NeverOvercounts
<1>2. QED BY <1>1, Invariant, PTL

\* So no evaluation passes before after_times others have gone by, unless a
\* reset overlapped it.
THEOREM Early == Spec => NeverEarly
<1> DEFINE A == \A t \in Threads :
                  LET n == th[t].name
                  IN  th[t].pc = "judge" /\ th'[t].pc = "callback" /\ ~hist[n].raced
                        => hist[n].evals > faults[n].after_times
<1>1. ASSUME IInv, [Next]_vars PROVE A
  <2> SUFFICES ASSUME NEW t \in Threads, th[t].pc = "judge", th'[t].pc = "callback", ~hist[th[t].name].raced
               PROVE  hist[th[t].name].evals > faults[th[t].name].after_times
    OBVIOUS
  <2>1. th \in [Threads -> CondGets] /\ th[t] \in CondGets /\ th[t].name \in Names
    BY <1>1 DEF IInv, TypeInv, CondGets
  <2>2. CheckWindow(t)
    <3>1. ASSUME NEW u \in Threads, Eval(u) PROVE u = t
      <4>1. \E r : th' = [th EXCEPT ![u] = r] \/ th' = th
        BY <3>1, <2>1 DEF Eval, Find, ReadEnable, LoadHits, StoreHits, ReadAfter, CheckWindow, Callback, Fire, UseFreed,
                           GoTo, ReturnNull
      <4>2. QED BY <2>1, <4>1
    <3>2. Eval(t)
      BY <1>1, <3>1, <2>1 DEF Next, vars, Controller, Register, Unregister, SetEnable, Configure, ConfigureAfter,
                                      ConfigureEnable, ConfigureHits
    <3>3. th'[t].pc # "idle"
      OBVIOUS
    <3>4. Ready.pc = "idle"
      BY DEF Ready
    <3>5. QED BY <2>1, <3>2, <3>4 DEF Eval, Find, ReadEnable, LoadHits, StoreHits, ReadAfter, Callback, Fire, UseFreed, Access
  <2>3. PICK n \in Names : n = th[t].name
    BY <2>1
  <2>4. On(t, n)
    BY <2>1, <2>2, <2>3 DEF CheckWindow, Access, Fault, Dangling, On
  <2>5. th[t].times \in Int /\ th[t].after \in Int /\ hist[n].evals \in Nat /\ faults[n].after_times \in Nat
    BY <1>1, <2>1 DEF IInv, TypeInv, CondGets, Epochs, FaultRecs
  <2>6. th[t].times <= hist[n].evals /\ th[t].after = faults[n].after_times /\ th[t].after < th[t].times
    BY <1>1, <2>3, <2>4 DEF IInv, CountOf, On
  <2>7. QED BY <2>3, <2>5, <2>6
<1>2. IInv /\ [Next]_vars => [A]_vars
  BY <1>1
<1>3. QED BY <1>2, Invariant, PTL DEF Spec, NeverEarly

\* And evaluations that do not overlap pass exactly in the window.
THEOREM Exact == Spec => []PassesExactWindow
<1>1. IInv => PassesExactWindow
  <2> SUFFICES ASSUME IInv, NEW n \in Names, Clean(n),
                      \A t \in Threads : th[t].pc \in {"window", "judge"} => th[t].name # n
               PROVE  hist[n].passes = Cardinality(Window(faults[n], hist[n].start, hist[n].evals))
    BY DEF PassesExactWindow, Clean, Window
  <2>1. ~Judging(n)
    BY DEF Judging, On
  <2>2. QED BY <2>1 DEF IInv, PassOf
<1>2. QED BY <1>1, Invariant, PTL
=============================================================================
