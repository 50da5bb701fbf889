-------------------------- MODULE SchedulerProofs ---------------------------
(***************************************************************************)
(* Proofs about Scheduler, for any number of targets, goroutines, callers  *)
(* and workers and any delays.                                             *)
(*                                                                         *)
(* backoffFor is a loop over the number of failures, so what it returns is *)
(* shown by induction: from the least element of a set of numbers, since   *)
(* the induction theorems of the library cannot be instantiated here.  The *)
(* invariant then joins the types, the slots, the backoff and Stop.        *)
(***************************************************************************)
EXTENDS Scheduler, Integers, FiniteSetTheorems, WellFoundedInduction, TLAPS

-----------------------------------------------------------------------------
(* backoffFor *)

\* Every non-empty set of numbers has a least element.
LEMMA Least ==
  ASSUME NEW T, T \subseteq Nat, T # {}
  PROVE  \E m \in T : \A n \in T : m <= n
<1>1. PICK m \in T : \A y \in T : ~ (<<y, m>> \in OpToRel(<, Nat))
  BY NatLessThanWellFounded, WFMin
<1>2. \A y \in T : ~ (y < m)
  BY <1>1 DEF OpToRel
<1> QED
  BY <1>2

\* f is what a loop computes, up to n failures, that goes from delay to delay
\* by step.
Computes(f, n, step) ==
  /\ f \in [0..n -> Nat]
  /\ \A i \in 0..n : f[i] = IF i <= 1 THEN RetryBase ELSE step[f[i - 1]]

\* The loop computes something for every n ...
LEMMA LoopComputes ==
  ASSUME NEW step \in [Nat -> Nat]
  PROVE  \A n \in Nat : \E f : Computes(f, n, step)
<1> DEFINE Bad == {n \in Nat : ~ \E f : Computes(f, n, step)}
<1> SUFFICES ASSUME Bad # {} PROVE FALSE
  OBVIOUS
<1>1. PICK m \in Bad : \A n \in Bad : m <= n
  BY Least
<1>2. CASE m = 0
  <2>1. Computes([i \in 0..0 |-> RetryBase], 0, step)
    BY SchedulerAssumption DEF Computes
  <2> QED
    BY <1>1, <1>2, <2>1
<1>3. CASE m # 0
  <2>1. m - 1 \in Nat /\ m - 1 \notin Bad /\ m \in Nat /\ m > 0
    BY <1>1, <1>3
  <2>2. PICK f : Computes(f, m - 1, step)
    BY <2>1
  <2> DEFINE last == IF m <= 1 THEN RetryBase ELSE step[f[m - 1]]
             g == [i \in 0..m |-> IF i < m THEN f[i] ELSE last]
  <2>3. \A i \in 0..(m - 1) : /\ f[i] \in Nat
                              /\ f[i] = IF i <= 1 THEN RetryBase
                                                  ELSE step[f[i - 1]]
    BY <2>2 DEF Computes
  <2>4. last \in Nat
    BY <2>1, <2>3, SchedulerAssumption
  <2>5. /\ g \in [0..m -> Nat]
        /\ \A i \in 0..(m - 1) : g[i] = f[i]
        /\ g[m] = last
    <3> HIDE DEF last
    <3>1. \A i \in 0..m : i < m => i \in 0..(m - 1)
      BY <2>1
    <3>2. \A i \in 0..m : (IF i < m THEN f[i] ELSE last) \in Nat
      BY <2>3, <2>4, <3>1
    <3>3. g \in [0..m -> Nat]
      BY <3>2
    <3>4. \A i \in 0..(m - 1) : i \in 0..m /\ i < m
      BY <2>1
    <3>5. \A i \in 0..(m - 1) : g[i] = f[i]
      BY <3>4
    <3>6. m \in 0..m /\ ~ (m < m)
      BY <2>1
    <3>7. g[m] = last
      BY <3>6
    <3> QED
      BY <3>3, <3>5, <3>7
  <2> HIDE DEF g
  <2>6. ASSUME NEW i \in 0..m
        PROVE  g[i] = IF i <= 1 THEN RetryBase ELSE step[g[i - 1]]
    <3>1. CASE i = m
      <4>1. m <= 1 \/ g[m - 1] = f[m - 1]
        BY <2>1, <2>5
      <4> QED
        BY <2>5, <3>1, <4>1
    <3>2. CASE i < m
      <4>1. i \in 0..(m - 1) /\ (i <= 1 \/ i - 1 \in 0..(m - 1))
        BY <2>1, <2>6, <3>2
      <4> QED
        BY <2>3, <2>5, <4>1
    <3> QED
      BY <2>1, <2>6, <3>1, <3>2
  <2> QED
    BY <1>1, <2>5, <2>6 DEF Computes
<1> QED
  BY <1>2, <1>3

\* ... and always the same.
LEMMA LoopUnique ==
  ASSUME NEW step, NEW n \in Nat, NEW k \in Nat, NEW f, NEW g,
         Computes(f, n, step), Computes(g, k, step), n <= k
  PROVE  \A i \in 0..n : f[i] = g[i]
<1> DEFINE Bad == {i \in 0..n : f[i] # g[i]}
<1> SUFFICES ASSUME Bad # {} PROVE FALSE
  OBVIOUS
<1>1. PICK m \in Bad : \A i \in Bad : m <= i
  <2>1. Bad \subseteq Nat
    OBVIOUS
  <2> QED
    BY <2>1, Least
<1>2. m \in 0..n /\ m \in 0..k /\ f[m] # g[m]
  BY <1>1
<1>3. m > 1
  BY <1>2 DEF Computes
<1>4. m - 1 \in 0..n /\ m - 1 \notin Bad
  BY <1>1, <1>2, <1>3
<1>5. f[m - 1] = g[m - 1]
  BY <1>4
<1> QED
  BY <1>2, <1>3, <1>5 DEF Computes

\* d has the delay after every number of failures.
Delays(d, step) ==
  /\ d \in [Nat -> Nat]
  /\ \A n \in Nat : d[n] = IF n <= 1 THEN RetryBase ELSE step[d[n - 1]]

LEMMA DelaysExist ==
  ASSUME NEW step \in [Nat -> Nat]
  PROVE  \E d : Delays(d, step)
<1> DEFINE c(i) == CHOOSE f : Computes(f, i, step)
           d == [n \in Nat |-> c(n)[n]]
<1>1. \A i \in Nat : Computes(c(i), i, step) /\ d[i] = c(i)[i]
  BY LoopComputes
<1>2. \A n \in Nat : d[n] \in Nat
  <2> TAKE n \in Nat
  <2>1. n \in 0..n /\ Computes(c(n), n, step) /\ d[n] = c(n)[n]
    BY <1>1
  <2> HIDE DEF c, d
  <2> QED
    BY <2>1 DEF Computes
<1>3. ASSUME NEW n \in Nat
      PROVE  d[n] = IF n <= 1 THEN RetryBase ELSE step[d[n - 1]]
  <2>1. CASE n <= 1
    <3>1. n \in 0..n /\ Computes(c(n), n, step) /\ d[n] = c(n)[n]
      BY <1>1
    <3> HIDE DEF c, d
    <3> QED
      BY <2>1, <3>1 DEF Computes
  <2>2. CASE n > 1
    <3>1. n - 1 \in Nat /\ n - 1 <= n /\ n - 1 \in 0..(n - 1) /\ n \in 0..n
      BY <2>2
    <3>2. /\ Computes(c(n), n, step) /\ Computes(c(n - 1), n - 1, step)
          /\ d[n] = c(n)[n] /\ d[n - 1] = c(n - 1)[n - 1]
      BY <1>1, <3>1
    <3> HIDE DEF c, d
    <3>3. c(n - 1)[n - 1] = c(n)[n - 1]
      BY <3>1, <3>2, LoopUnique
    <3>4. c(n)[n] = step[c(n)[n - 1]]
      BY <2>2, <3>1, <3>2 DEF Computes
    <3> QED
      BY <2>2, <3>2, <3>3, <3>4
  <2> QED
    BY <2>1, <2>2
<1>4. d \in [Nat -> Nat]
  <2> HIDE DEF c
  <2> QED
    BY <1>2
<1> HIDE DEF d
<1> QED
  BY <1>3, <1>4 DEF Delays

\* The step of backoffFor and the one of Earned.
Doubled == [d \in Nat |-> 2 * d]
DoubledOrCut == [d \in Nat |-> IF 2 * d >= RetryMax THEN RetryMax ELSE 2 * d]

Cut(d) == IF d > RetryMax THEN RetryMax ELSE d

LEMMA BackoffComputed ==
  \E d : /\ Delays(d, DoubledOrCut)
         /\ \A n \in Nat : backoffFor(n) = Cut(d[n])
<1> DEFINE Loop(f) == [i \in Nat |->
                         IF i <= 1 THEN RetryBase
                         ELSE IF 2 * f[i - 1] >= RetryMax THEN RetryMax
                         ELSE 2 * f[i - 1]]
           d == CHOOSE f : f = Loop(f)
<1>1. PICK e : Delays(e, DoubledOrCut)
  BY DelaysExist, SchedulerAssumption DEF DoubledOrCut
<1>2. e = Loop(e)
  <2>1. e \in [Nat -> Nat]
    BY <1>1 DEF Delays
  <2>2. ASSUME NEW i \in Nat PROVE e[i] = Loop(e)[i]
    <3>1. CASE i <= 1
      BY <1>1, <3>1 DEF Delays
    <3>2. CASE i > 1
      <4>1. e[i - 1] \in Nat /\ e[i] = DoubledOrCut[e[i - 1]]
        BY <1>1, <2>1, <3>2 DEF Delays
      <4> QED
        BY <3>2, <4>1 DEF DoubledOrCut
    <3> QED
      BY <3>1, <3>2
  <2> QED
    BY <2>1, <2>2
<1>3. d = Loop(d)
  BY <1>2
<1>4. \A n \in Nat : backoffFor(n) = Cut(d[n])
  BY DEF backoffFor, Cut
<1> HIDE DEF d
<1>5. \A i \in Nat : d[i] \in Nat
  <2> DEFINE Bad == {i \in Nat : d[i] \notin Nat}
  <2> SUFFICES ASSUME Bad # {} PROVE FALSE
    OBVIOUS
  <2>1. PICK m \in Bad : \A i \in Bad : m <= i
    BY Least
  <2>2. m > 1
    BY <1>3, <2>1, SchedulerAssumption
  <2>3. m - 1 \in Nat /\ d[m - 1] \in Nat
    BY <2>1, <2>2
  <2> QED
    BY <1>3, <2>1, <2>2, <2>3, SchedulerAssumption
<1>6. d \in [Nat -> Nat]
  BY <1>3, <1>5
<1>7. Delays(d, DoubledOrCut)
  BY <1>3, <1>5, <1>6 DEF Delays, DoubledOrCut
<1> QED
  BY <1>4, <1>7

LEMMA EarnedComputed ==
  \E d : /\ Delays(d, Doubled)
         /\ \A n \in Nat : Earned(n) = IF n = 0 THEN 0 ELSE Cut(d[n])
<1> DEFINE Loop(f) == [i \in Nat |-> IF i <= 1 THEN RetryBase
                                     ELSE 2 * f[i - 1]]
           d == CHOOSE f : f = Loop(f)
<1>1. PICK e : Delays(e, Doubled)
  BY DelaysExist DEF Doubled
<1>2. e = Loop(e)
  <2>1. e \in [Nat -> Nat]
    BY <1>1 DEF Delays
  <2>2. ASSUME NEW i \in Nat PROVE e[i] = Loop(e)[i]
    <3>1. CASE i <= 1
      BY <1>1, <3>1 DEF Delays
    <3>2. CASE i > 1
      <4>1. e[i - 1] \in Nat /\ e[i] = Doubled[e[i - 1]]
        BY <1>1, <2>1, <3>2 DEF Delays
      <4> QED
        BY <3>2, <4>1 DEF Doubled
    <3> QED
      BY <3>1, <3>2
  <2> QED
    BY <2>1, <2>2
<1>3. d = Loop(d)
  BY <1>2
<1>4. \A n \in Nat : Earned(n) = IF n = 0 THEN 0 ELSE Cut(d[n])
  BY DEF Earned, Cut
<1> HIDE DEF d
<1>5. \A i \in Nat : d[i] \in Nat
  <2> DEFINE Bad == {i \in Nat : d[i] \notin Nat}
  <2> SUFFICES ASSUME Bad # {} PROVE FALSE
    OBVIOUS
  <2>1. PICK m \in Bad : \A i \in Bad : m <= i
    BY Least
  <2>2. m > 1
    BY <1>3, <2>1, SchedulerAssumption
  <2>3. m - 1 \in Nat /\ d[m - 1] \in Nat
    BY <2>1, <2>2
  <2> QED
    BY <1>3, <2>1, <2>2, <2>3
<1>6. d \in [Nat -> Nat]
  BY <1>3, <1>5
<1>7. Delays(d, Doubled)
  <2>1. ASSUME NEW n \in Nat
        PROVE  d[n] = IF n <= 1 THEN RetryBase ELSE Doubled[d[n - 1]]
    <3>1. CASE n <= 1
      BY <1>3, <3>1
    <3>2. CASE n > 1
      <4>1. d[n - 1] \in Nat /\ d[n] = 2 * d[n - 1]
        BY <1>3, <1>5, <3>2
      <4> QED
        BY <3>2, <4>1 DEF Doubled
    <3> QED
      BY <3>1, <3>2
  <2> QED
    BY <1>6, <2>1 DEF Delays
<1> QED
  BY <1>4, <1>7

\* backoffFor, which leaves its loop as soon as RetryMax is reached, gives what
\* the failures earn: RetryBase doubled for each after the first, cut to
\* RetryMax, which RetryBase alone may exceed.
THEOREM DelayDoubles == \A n \in Nat \ {0} : backoffFor(n) = Earned(n)
<1>1. PICK d : /\ Delays(d, DoubledOrCut)
               /\ \A n \in Nat : backoffFor(n) = Cut(d[n])
  BY BackoffComputed
<1>2. PICK w : /\ Delays(w, Doubled)
               /\ \A n \in Nat : Earned(n) = IF n = 0 THEN 0 ELSE Cut(w[n])
  BY EarnedComputed
<1>3. \A n \in Nat : d[n] \in Nat /\ w[n] \in Nat
  BY <1>1, <1>2 DEF Delays
<1>4. \A n \in Nat : Cut(d[n]) = Cut(w[n])
  <2> DEFINE Bad == {n \in Nat : Cut(d[n]) # Cut(w[n])}
  <2> SUFFICES ASSUME Bad # {} PROVE FALSE
    OBVIOUS
  <2>1. PICK m \in Bad : \A n \in Bad : m <= n
    BY Least
  <2>2. m > 1
    BY <1>1, <1>2, <2>1 DEF Delays
  <2>3. m - 1 \in Nat /\ Cut(d[m - 1]) = Cut(w[m - 1])
    BY <2>1, <2>2
  <2>4. d[m] = DoubledOrCut[d[m - 1]] /\ w[m] = Doubled[w[m - 1]]
    BY <1>1, <1>2, <2>1, <2>2 DEF Delays
  <2>5. \A x, y \in Nat :
          Cut(x) = Cut(y) => Cut(DoubledOrCut[x]) = Cut(Doubled[y])
    BY SchedulerAssumption DEF Cut, DoubledOrCut, Doubled
  <2> QED
    BY <1>3, <2>1, <2>3, <2>4, <2>5
<1> QED
  BY <1>1, <1>2, <1>4

LEMMA EarnedType == Earned(0) = 0 /\ \A n \in Nat : Earned(n) \in Nat
<1>1. PICK w : /\ Delays(w, Doubled)
               /\ \A n \in Nat : Earned(n) = IF n = 0 THEN 0 ELSE Cut(w[n])
  BY EarnedComputed
<1>2. \A n \in Nat : Cut(w[n]) \in Nat
  BY <1>1, SchedulerAssumption DEF Delays, Cut
<1> QED
  BY <1>1, <1>2

-----------------------------------------------------------------------------
(* The invariant *)

Working == {g \in Goroutines : scans[g].pc = "work"}

\* A scheduler that was started has its loop; once Stop has returned the loop
\* has ended, and nothing it spawned is left.
StopInv ==
  /\ started <=> loop # "off"
  /\ stopper # "no" => started
  /\ StopEndsSweeps

IInv == TypeOK /\ SlotsAccounted /\ BackoffEarned /\ StopInv

\* The records that stand for nobody.
LEMMA RecordTypes ==
  /\ NoScan \in Scan /\ NoScan.pc = "idle"
  /\ NoAdd \in Add
  /\ NoCall \in Call
BY SchedulerAssumption
DEF NoScan, NoAdd, NoCall, AnyTarget, Scan, Add, Call

LEMMA WorkerLimitType == WorkerLimit \in Nat
BY SchedulerAssumption DEF WorkerLimit

LEMMA Initially == Init => IInv
<1> SUFFICES ASSUME Init PROVE IInv
  OBVIOUS
<1>1. TypeOK
  BY SchedulerAssumption, RecordTypes DEF Init, TypeOK
<1>2. SlotsAccounted
  <2>1. {g \in Goroutines : scans[g].pc = "work"} = {}
    BY RecordTypes DEF Init
  <2>2. sem = 0
    BY DEF Init
  <2>3. sem = Cardinality({g \in Goroutines : scans[g].pc = "work"})
    BY <2>1, <2>2, FS_EmptySet
  <2>4. sem <= WorkerLimit
    BY <2>2, WorkerLimitType
  <2> QED
    BY <2>3, <2>4 DEF SlotsAccounted
<1>3. BackoffEarned
  BY EarnedType DEF Init, BackoffEarned
<1>4. StopInv
  BY DEF Init, StopInv, StopEndsSweeps
<1> QED
  BY <1>1, <1>2, <1>3, <1>4 DEF IInv

\* The slots, when one scan moves.
LEMMA WorkingFinite == IsFiniteSet(Working) /\ Cardinality(Working) \in Nat
<1>1. Working \subseteq Goroutines
  BY DEF Working
<1> QED
  BY <1>1, SchedulerAssumption, FS_Subset, FS_CardinalityType

LEMMA SlotsStay ==
  ASSUME IInv, NEW g \in Goroutines, NEW x, scans' = [scans EXCEPT ![g] = x],
         scans[g].pc # "work", x.pc # "work", sem' = sem
  PROVE  SlotsAccounted'
<1>1. \A h \in Goroutines : scans'[h].pc = "work" <=> scans[h].pc = "work"
  BY DEF IInv, TypeOK
<1>2. {h \in Goroutines : scans'[h].pc = "work"}
        = {h \in Goroutines : scans[h].pc = "work"}
  BY <1>1
<1> QED
  BY <1>2 DEF IInv, SlotsAccounted

\* A scan that holds a slot gives it back when it stops working.
LEMMA SlotsFreed ==
  ASSUME IInv, NEW g \in Goroutines, NEW x, scans' = [scans EXCEPT ![g] = x],
         scans[g].pc = "work", x.pc # "work", sem' = sem - 1
  PROVE  sem' \in Nat /\ SlotsAccounted'
<1>1. {h \in Goroutines : scans'[h].pc = "work"} = Working \ {g}
  BY DEF IInv, TypeOK, Working
<1>2. g \in Working
  BY DEF Working
<1>3. Cardinality(Working \ {g}) = Cardinality(Working) - 1
  BY <1>2, WorkingFinite, FS_RemoveElement
<1>4. Cardinality(Working) # 0
  BY <1>2, WorkingFinite, FS_EmptySet
<1>5. sem = Cardinality(Working) /\ sem <= WorkerLimit
  BY DEF IInv, SlotsAccounted, Working
<1>6. sem' \in Nat /\ sem' <= WorkerLimit
  BY <1>4, <1>5, WorkingFinite, WorkerLimitType
<1>7. sem' = Cardinality({h \in Goroutines : scans'[h].pc = "work"})
  BY <1>1, <1>3, <1>5
<1> QED
  BY <1>6, <1>7 DEF SlotsAccounted

LEMMA SlotTaken ==
  ASSUME IInv, NEW g \in Goroutines, Acquire(g)
  PROVE  SlotsAccounted'
<1>1. /\ scans[g].pc = "acquire" /\ sem < WorkerLimit /\ sem' = sem + 1
      /\ scans' = [scans EXCEPT ![g].pc = "work"]
  BY DEF Acquire
<1>2. {h \in Goroutines : scans'[h].pc = "work"} = Working \cup {g}
  BY <1>1 DEF IInv, TypeOK, Scan, Working
<1>3. g \notin Working
  BY <1>1 DEF Working
<1>4. Cardinality(Working \cup {g}) = Cardinality(Working) + 1
  BY <1>3, WorkingFinite, FS_AddElement
<1>5. sem = Cardinality(Working) /\ sem \in Nat
  BY DEF IInv, TypeOK, SlotsAccounted, Working
<1>6. sem' <= WorkerLimit
  BY <1>1, <1>5, WorkerLimitType
<1>7. sem' = Cardinality({h \in Goroutines : scans'[h].pc = "work"})
  BY <1>1, <1>2, <1>4, <1>5
<1> QED
  BY <1>6, <1>7 DEF SlotsAccounted

\* A new goroutine, for anyone but a sweep after Stop has returned.
LEMMA SpawnKeeps ==
  ASSUME IInv, NEW g \in Goroutines, NEW t \in Targets,
         NEW owner \in {"sweep", "add"} \cup Callers, Spawn(g, owner, t),
         owner = "sweep" => loop # "ended",
         UNCHANGED <<started, stopper, loop, sem, failures, gate>>
  PROVE  /\ scans' \in [Goroutines -> Scan]
         /\ SlotsAccounted' /\ BackoffEarned' /\ StopInv'
<1> DEFINE x == [pc |-> "acquire", owner |-> owner, target |-> t, ok |-> TRUE]
<1>1. scans[g].pc = "idle" /\ scans' = [scans EXCEPT ![g] = x]
  BY DEF Spawn, Alive
<1>2. x \in Scan /\ x.pc = "acquire" /\ x.owner = owner
  BY DEF Scan
<1> HIDE DEF x
<1>3. scans' \in [Goroutines -> Scan]
  BY <1>1, <1>2 DEF IInv, TypeOK
<1>4. SlotsAccounted'
  BY <1>1, <1>2, SlotsStay
<1>5. BackoffEarned'
  BY DEF IInv, BackoffEarned
<1>6. StopInv'
  BY <1>1, <1>2 DEF IInv, StopInv, StopEndsSweeps, Alive, TypeOK
<1> QED
  BY <1>3, <1>4, <1>5, <1>6

\* A scan that returns, from a slot or from the queue.
LEMMA ReturnedType ==
  ASSUME IInv, NEW g \in Goroutines, NEW ok \in BOOLEAN, scans[g].pc # "idle"
  PROVE  /\ Returned(g, ok) \in Scan
         /\ Returned(g, ok).pc # "work"
         /\ Returned(g, ok).pc = "idle" \/ Returned(g, ok).owner = scans[g].owner
BY RecordTypes DEF IInv, TypeOK, Returned, Scan

LEMMA StopStays ==
  ASSUME IInv, NEW g \in Goroutines, NEW x, scans' = [scans EXCEPT ![g] = x],
         scans[g].pc # "idle", x.pc = "idle" \/ x.owner = scans[g].owner,
         UNCHANGED <<started, stopper, loop>>
  PROVE  StopInv'
BY DEF IInv, TypeOK, StopInv, StopEndsSweeps, Alive

LEMMA GiveUpKeeps ==
  ASSUME IInv, NEW g \in Goroutines, GiveUp(g)
  PROVE  IInv'
<1>1. /\ scans[g].pc = "acquire"
      /\ scans' = [scans EXCEPT ![g] = Returned(g, TRUE)]
      /\ UNCHANGED <<targets, started, cancelled, stopper, loop, todo, sem,
                     failures, gate, adder, caller>>
  BY DEF GiveUp
<1>2. /\ Returned(g, TRUE) \in Scan
      /\ Returned(g, TRUE).pc # "work"
      /\ \/ Returned(g, TRUE).pc = "idle"
         \/ Returned(g, TRUE).owner = scans[g].owner
  BY <1>1, ReturnedType
<1>3. TypeOK'
  BY <1>1, <1>2 DEF IInv, TypeOK
<1>4. SlotsAccounted'
  BY <1>1, <1>2, SlotsStay
<1>5. StopInv'
  BY <1>1, <1>2, StopStays
<1> QED
  BY <1>1, <1>3, <1>4, <1>5 DEF IInv, BackoffEarned

\* Fails and Succeeds.
LEMMA ReturnKeeps ==
  ASSUME IInv, NEW g \in Goroutines, NEW ok \in BOOLEAN,
         scans[g].pc = "work", sem' = sem - 1,
         scans' = [scans EXCEPT ![g] = Returned(g, ok)],
         UNCHANGED <<targets, started, cancelled, stopper, loop, todo,
                     failures, gate, adder, caller>>
  PROVE  IInv'
<1>1. /\ Returned(g, ok) \in Scan
      /\ Returned(g, ok).pc # "work"
      /\ \/ Returned(g, ok).pc = "idle"
         \/ Returned(g, ok).owner = scans[g].owner
  BY ReturnedType
<1>2. sem' \in Nat /\ SlotsAccounted'
  BY <1>1, SlotsFreed
<1>3. TypeOK'
  BY <1>1, <1>2 DEF IInv, TypeOK
<1>4. StopInv'
  BY <1>1, StopStays
<1> QED
  BY <1>2, <1>3, <1>4 DEF IInv, BackoffEarned

\* The outcome is booked: a gate is set with the failure that earned it.
LEMMA BooksKeeps ==
  ASSUME IInv, NEW g \in Goroutines, Books(g)
  PROVE  IInv'
<1> DEFINE t == scans[g].target
           n == IF scans[g].ok THEN 0 ELSE Saturated(failures[t])
<1>1. /\ scans[g].pc = "book"
      /\ failures' = [failures EXCEPT ![t] = n]
      /\ gate' = [gate EXCEPT ![t] = IF scans[g].ok THEN 0 ELSE backoffFor(n)]
      /\ scans' = [scans EXCEPT ![g] = NoScan]
      /\ UNCHANGED <<targets, started, cancelled, stopper, loop, todo, sem,
                     adder, caller>>
  BY DEF Books
<1>2. t \in Targets /\ scans[g].ok \in BOOLEAN /\ failures[t] \in Nat
  BY DEF IInv, TypeOK, Scan
<1>3. n \in Nat /\ (~scans[g].ok => n > 0)
  BY <1>2, SchedulerAssumption DEF Saturated
<1> HIDE DEF n
<1>4. n # 0 => backoffFor(n) = Earned(n) /\ backoffFor(n) \in Nat
  BY <1>3, DelayDoubles, EarnedType
<1>5. /\ gate' \in [Targets -> Nat] /\ failures' \in [Targets -> Nat]
      /\ scans' \in [Goroutines -> Scan]
  BY <1>1, <1>2, <1>3, <1>4, RecordTypes DEF IInv, TypeOK
<1>6. TypeOK'
  BY <1>1, <1>5 DEF IInv, TypeOK
<1>7. SlotsAccounted'
  BY <1>1, RecordTypes, SlotsStay
<1>8. BackoffEarned'
  <2> SUFFICES ASSUME NEW u \in Targets
               PROVE  gate'[u] <= Earned(failures'[u])
    BY DEF BackoffEarned
  <2>1. CASE u # t
    BY <1>1, <2>1 DEF IInv, TypeOK, BackoffEarned
  <2>2. CASE u = t
    <3>1. gate'[u] = (IF scans[g].ok THEN 0 ELSE backoffFor(n))
            /\ failures'[u] = n
      BY <1>1, <2>2 DEF IInv, TypeOK
    <3>2. CASE scans[g].ok
      BY <1>3, <3>1, <3>2, EarnedType
    <3>3. CASE ~scans[g].ok
      BY <1>3, <1>4, <3>1, <3>3
    <3> QED
      BY <3>2, <3>3
  <2> QED
    BY <2>1, <2>2
<1>9. StopInv'
  BY <1>1, RecordTypes, StopStays
<1> QED
  BY <1>6, <1>7, <1>8, <1>9 DEF IInv

\* The steps that leave the scans and the books alone.
LEMMA BooksUntouched ==
  ASSUME IInv, UNCHANGED <<scans, sem, failures, gate>>
  PROVE  SlotsAccounted' /\ BackoffEarned'
BY DEF IInv, SlotsAccounted, BackoffEarned

\* Calls of AddTarget and ScanNow, and the targets, are no business of Stop's.
LEMMA StopUntouched ==
  ASSUME IInv, UNCHANGED <<scans, started, stopper, loop>>
  PROVE  StopInv'
BY DEF IInv, StopInv, StopEndsSweeps, Alive

LEMMA AddTargetKeeps ==
  ASSUME IInv, NEW a \in Adders, NEW t \in Targets, AddTarget(a, t)
  PROVE  IInv'
<1>1. TypeOK'
  BY DEF AddTarget, IInv, TypeOK, Add
<1> QED
  BY <1>1, BooksUntouched, StopUntouched DEF AddTarget, IInv

LEMMA AddChecksKeeps ==
  ASSUME IInv, NEW a \in Adders, AddChecks(a)
  PROVE  IInv'
<1>1. [adder[a] EXCEPT !.pc = "spawn"] \in Add
  BY DEF IInv, TypeOK, Add
<1>2. adder' \in [Adders -> Add]
  BY <1>1, RecordTypes DEF AddChecks, IInv, TypeOK
<1>3. TypeOK'
  BY <1>2 DEF AddChecks, IInv, TypeOK
<1> QED
  BY <1>3, BooksUntouched, StopUntouched DEF AddChecks, IInv

LEMMA RemovalKeeps ==
  ASSUME IInv, NEW t \in Targets, RemoveTarget(t)
  PROVE  IInv'
<1>1. TypeOK'
  BY DEF RemoveTarget, IInv, TypeOK
<1> QED
  BY <1>1, BooksUntouched, StopUntouched DEF RemoveTarget, IInv

LEMMA InterruptKeeps == IInv /\ Interrupted => IInv'
<1> SUFFICES ASSUME IInv, Interrupted PROVE IInv'
  OBVIOUS
<1>1. TypeOK'
  BY DEF Interrupted, IInv, TypeOK
<1> QED
  BY <1>1, BooksUntouched, StopUntouched DEF Interrupted, IInv

LEMMA SkipKeeps ==
  ASSUME IInv, NEW t \in Targets, SweepSkips(t)
  PROVE  IInv'
<1>1. TypeOK'
  BY DEF SweepSkips, IInv, TypeOK
<1> QED
  BY <1>1, BooksUntouched, StopUntouched DEF SweepSkips, IInv

LEMMA CallKeeps ==
  ASSUME IInv, NEW c \in Callers, ScanNow(c) \/ ClientGone(c) \/ NowReturns(c)
  PROVE  IInv'
<1>1. UNCHANGED <<targets, started, cancelled, stopper, loop, todo, scans, sem,
                  failures, gate, adder>>
  BY DEF ScanNow, ClientGone, NowReturns
<1>2. caller' \in [Callers -> Call]
  <2>1. CASE ScanNow(c)
    BY <2>1 DEF ScanNow, IInv, TypeOK, Call
  <2>2. CASE ClientGone(c)
    BY <2>2 DEF ClientGone, IInv, TypeOK, Call
  <2>3. CASE NowReturns(c)
    BY <2>3, RecordTypes DEF NowReturns, IInv, TypeOK
  <2> QED
    BY <2>1, <2>2, <2>3
<1>3. TypeOK'
  BY <1>1, <1>2 DEF IInv, TypeOK
<1> QED
  BY <1>1, <1>3, BooksUntouched, StopUntouched DEF IInv

LEMMA SpawnersKeep ==
  ASSUME IInv, NEW g \in Goroutines
  PROVE  /\ \A t \in Targets : SweepSpawns(t, g) => IInv'
         /\ \A a \in Adders : AddSpawns(a, g) => IInv'
         /\ \A c \in Callers, t \in Targets : NowSpawns(c, t, g) => IInv'
<1>1. ASSUME NEW t \in Targets, SweepSpawns(t, g) PROVE IInv'
  <2>1. /\ loop = "spawn" /\ Spawn(g, "sweep", t) /\ todo' = todo \ {t}
        /\ UNCHANGED <<targets, started, cancelled, stopper, loop, sem,
                       failures, gate, adder, caller>>
    BY <1>1 DEF SweepSpawns
  <2>2. /\ scans' \in [Goroutines -> Scan]
        /\ SlotsAccounted' /\ BackoffEarned' /\ StopInv'
    BY <2>1, SpawnKeeps
  <2> QED
    BY <2>1, <2>2 DEF IInv, TypeOK
<1>2. ASSUME NEW a \in Adders, AddSpawns(a, g) PROVE IInv'
  <2>1. /\ Spawn(g, "add", adder[a].target)
        /\ adder' = [adder EXCEPT ![a] = NoAdd]
        /\ UNCHANGED <<targets, started, cancelled, stopper, loop, todo, sem,
                       failures, gate, caller>>
    BY <1>2 DEF AddSpawns
  <2>2. adder[a].target \in Targets
    BY DEF IInv, TypeOK, Add
  <2>3. /\ scans' \in [Goroutines -> Scan]
        /\ SlotsAccounted' /\ BackoffEarned' /\ StopInv'
    BY <2>1, <2>2, SpawnKeeps
  <2> QED
    BY <2>1, <2>3, RecordTypes DEF IInv, TypeOK
<1>3. ASSUME NEW c \in Callers, NEW t \in Targets, NowSpawns(c, t, g)
      PROVE  IInv'
  <2>1. /\ Spawn(g, c, t)
        /\ caller' = [caller EXCEPT ![c].todo = @ \ {t}]
        /\ UNCHANGED <<targets, started, cancelled, stopper, loop, todo, sem,
                       failures, gate, adder>>
    BY <1>3 DEF NowSpawns
  <2>2. c # "sweep"
    BY SchedulerAssumption
  <2>3. /\ scans' \in [Goroutines -> Scan]
        /\ SlotsAccounted' /\ BackoffEarned' /\ StopInv'
    BY <2>1, <2>2, SpawnKeeps
  <2>4. caller' \in [Callers -> Call]
    BY <2>1 DEF IInv, TypeOK, Call
  <2> QED
    BY <2>1, <2>3, <2>4 DEF IInv, TypeOK
<1> QED
  BY <1>1, <1>2, <1>3

LEMMA AcquireKeeps ==
  ASSUME IInv, NEW g \in Goroutines, Acquire(g)
  PROVE  IInv'
<1>1. /\ scans[g].pc = "acquire" /\ sem' = sem + 1
      /\ scans' = [scans EXCEPT ![g].pc = "work"]
      /\ UNCHANGED <<targets, started, cancelled, stopper, loop, todo,
                     failures, gate, adder, caller>>
  BY DEF Acquire
<1> DEFINE x == [scans[g] EXCEPT !.pc = "work"]
<1>2. x \in Scan /\ x.owner = scans[g].owner
  BY DEF IInv, TypeOK, Scan
<1>3. scans' = [scans EXCEPT ![g] = x]
  BY <1>1
<1> HIDE DEF x
<1>4. TypeOK'
  BY <1>1, <1>2, <1>3 DEF IInv, TypeOK
<1>5. StopInv'
  BY <1>1, <1>2, <1>3, StopStays
<1> QED
  BY <1>1, <1>4, <1>5, SlotTaken DEF IInv, BackoffEarned

\* An error returned: the slot goes back with it.
LEMMA FailsKeeps ==
  ASSUME IInv, NEW g \in Goroutines, NEW ok \in BOOLEAN, Fails(g, ok)
  PROVE  IInv'
<1>1. /\ scans[g].pc = "work" /\ sem' = sem - 1
      /\ scans' = [scans EXCEPT ![g] = Returned(g, ok)]
      /\ UNCHANGED <<targets, started, cancelled, stopper, loop, todo,
                     failures, gate, adder, caller>>
  BY DEF Fails
<1> QED
  BY <1>1, ReturnKeeps

LEMMA SucceedsKeeps ==
  ASSUME IInv, NEW g \in Goroutines, Succeeds(g)
  PROVE  IInv'
<1>1. /\ scans[g].pc = "work" /\ sem' = sem - 1
      /\ scans' = [scans EXCEPT ![g] = Returned(g, TRUE)]
      /\ UNCHANGED <<targets, started, cancelled, stopper, loop, todo,
                     failures, gate, adder, caller>>
  BY DEF Succeeds
<1> QED
  BY <1>1, ReturnKeeps

\* Start, Stop and the module loop.
LEMMA LoopKeeps ==
  ASSUME IInv,
         \/ Start \/ Stop \/ StopReturns
         \/ SweepBegins \/ SweepEnds \/ LoopWakes \/ LoopEnds
  PROVE  IInv'
<1>1. UNCHANGED <<scans, sem, failures, gate>>
  BY DEF Start, Stop, StopReturns, SweepBegins, SweepEnds, LoopWakes, LoopEnds
<1>2. TypeOK'
  BY DEF Start, Stop, StopReturns, SweepBegins, SweepEnds, LoopWakes, LoopEnds,
         IInv, TypeOK
<1>3. StopInv'
  <2>1. CASE Start
    BY <2>1 DEF Start, IInv, StopInv, StopEndsSweeps
  <2>2. CASE Stop
    BY <2>2 DEF Stop, IInv, StopInv, StopEndsSweeps
  <2>3. CASE StopReturns
    <3>1. loop = "ended" /\ \A g \in Alive : scans[g].owner # "sweep"
      BY <2>3 DEF StopReturns, WaitGroup, IInv, StopInv, TypeOK
    <3> QED
      BY <2>3, <3>1 DEF StopReturns, IInv, StopInv, StopEndsSweeps, Alive
  <2>4. CASE SweepBegins \/ SweepEnds \/ LoopWakes \/ LoopEnds
    BY <2>4 DEF SweepBegins, SweepEnds, LoopWakes, LoopEnds, IInv, StopInv,
                StopEndsSweeps, Alive
  <2> QED
    BY <2>1, <2>2, <2>3, <2>4
<1> QED
  BY <1>1, <1>2, <1>3, BooksUntouched DEF IInv

LEMMA TickKeeps == IInv /\ Tick => IInv'
<1> SUFFICES ASSUME IInv, Tick PROVE IInv'
  OBVIOUS
<1>1. /\ gate' = [t \in Targets |-> IF gate[t] > 0 THEN gate[t] - 1 ELSE 0]
      /\ UNCHANGED <<targets, started, cancelled, stopper, loop, todo, scans,
                     sem, failures, adder, caller>>
  BY DEF Tick
<1>2. ASSUME NEW t \in Targets
      PROVE  /\ gate'[t] \in Nat
             /\ gate'[t] <= Earned(failures'[t])
  BY <1>1, EarnedType DEF IInv, TypeOK, BackoffEarned
<1>3. TypeOK'
  BY <1>1, <1>2 DEF IInv, TypeOK
<1>4. BackoffEarned'
  BY <1>2 DEF BackoffEarned
<1> QED
  BY <1>1, <1>3, <1>4, StopUntouched DEF IInv, SlotsAccounted

-----------------------------------------------------------------------------
(* The theorems *)

LEMMA StepKeeps == IInv /\ [Next]_vars => IInv'
<1> SUFFICES ASSUME IInv, [Next]_vars PROVE IInv'
  OBVIOUS
<1>1. ASSUME NEW a \in Adders, NEW t \in Targets, AddTarget(a, t) PROVE IInv'
  BY <1>1, AddTargetKeeps
<1>2. ASSUME NEW a \in Adders, AddStep(a) PROVE IInv'
  BY <1>2, AddChecksKeeps, SpawnersKeep DEF AddStep
<1>3. ASSUME NEW t \in Targets, RemoveTarget(t) PROVE IInv'
  BY <1>3, RemovalKeeps
<1>4. CASE Start \/ Stop \/ StopReturns \/ LoopEnds
  BY <1>4, LoopKeeps
<1>5. CASE Interrupted
  BY <1>5, InterruptKeeps
<1>6. CASE LoopStep
  BY <1>6, LoopKeeps, SpawnersKeep, SkipKeeps DEF LoopStep
<1>7. ASSUME NEW c \in Callers, ScanNow(c) \/ CallStep(c) \/ ClientGone(c)
      PROVE  IInv'
  BY <1>7, CallKeeps, SpawnersKeep DEF CallStep
<1>8. ASSUME NEW g \in Goroutines, Acquire(g) \/ GiveUp(g) PROVE IInv'
  BY <1>8, AcquireKeeps, GiveUpKeeps
<1>9. ASSUME NEW g \in Goroutines, WorkStep(g) PROVE IInv'
  BY <1>9, FailsKeeps, SucceedsKeeps, BooksKeeps DEF WorkStep
<1>10. CASE Tick
  BY <1>10, TickKeeps
<1>11. CASE UNCHANGED vars
  BY <1>11 DEF vars, IInv, TypeOK, SlotsAccounted, BackoffEarned, StopInv,
               StopEndsSweeps, Alive
<1> QED
  BY <1>1, <1>2, <1>3, <1>4, <1>5, <1>6, <1>7, <1>8, <1>9, <1>10, <1>11
  DEF Next

LEMMA Inductive == Spec => []IInv
BY Initially, StepKeeps, PTL DEF Spec

\* The variables of sched.Scheduler keep their types.
THEOREM TypeCorrect == Spec => []TypeOK
<1>1. IInv => TypeOK
  BY DEF IInv
<1> QED
  BY <1>1, Inductive, PTL

\* The semaphore of the worker pool: the slots taken are those of the scans
\* that collect or reconcile, on every path out of scanOne, and never more
\* than Config.Workers.
THEOREM SlotsHeld == Spec => []SlotsAccounted
<1>1. IInv => SlotsAccounted
  BY DEF IInv
<1> QED
  BY <1>1, Inductive, PTL

\* The gate of the sweep: whatever the order in which overlapping scans book
\* their outcomes, a target is held back no longer than its failures earn, and
\* not at all after a success.
THEOREM BackoffDeserved == Spec => []BackoffEarned
<1>1. IInv => BackoffEarned
  BY DEF IInv
<1> QED
  BY <1>1, Inductive, PTL

\* Stop: once it has returned the module loop has ended and no scan of a sweep
\* is left, however many were in flight.
THEOREM StopIsFinal == Spec => []StopEndsSweeps
<1>1. IInv => StopEndsSweeps
  BY DEF IInv, StopInv
<1> QED
  BY <1>1, Inductive, PTL
=============================================================================
