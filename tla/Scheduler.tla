----------------------------- MODULE Scheduler ------------------------------
(***************************************************************************)
(* sched.Scheduler for one registered module: the module loop sweeps the   *)
(* targets once per interval, AddTarget and ScanNow scan at once, and all  *)
(* scans share a pool of worker slots.  A target that fails backs off.     *)
(* Stop cancels the context and waits on the wait group.                   *)
(*                                                                         *)
(* The engine's Reconcile is one step here; Findings opens it up.          *)
(***************************************************************************)
EXTENDS Naturals, FiniteSets

CONSTANTS
  Targets,       \* canonical targets
  Saved,         \* those registered before Start
  Dead,          \* targets whose scans always fail
  Goroutines,    \* bound: scanning goroutines alive at once
  Adders,        \* concurrent AddTarget calls
  Callers,       \* concurrent ScanNow calls
  Workers,       \* Config.Workers
  RetryBase,     \* Config.RetryBase and RetryMax, in ticks
  RetryMax,
  MaxFailures    \* bound: consecutive failures told apart; by then the
                 \* delay should be RetryMax

ASSUME SchedulerAssumption ==
  /\ Targets # {}
  /\ IsFiniteSet(Goroutines)
  /\ {"sweep", "add"} \cap Callers = {}
  /\ Saved \subseteq Targets
  /\ Dead \subseteq Targets
  /\ Workers \in Nat
  /\ RetryBase \in Nat \ {0}
  /\ RetryMax \in Nat \ {0}
  /\ MaxFailures \in Nat \ {0}

\* Config.withDefaults.
WorkerLimit == IF Workers <= 0 THEN 8 ELSE Workers

\* Mutant: the loop doubles for the first failure as well.
backoffForFromZero(consecutive) ==
  LET d[i \in Nat] ==
        IF i = 0 THEN RetryBase
        ELSE IF 2 * d[i - 1] >= RetryMax THEN RetryMax ELSE 2 * d[i - 1]
  IN IF d[consecutive] > RetryMax THEN RetryMax ELSE d[consecutive]

\* backoffFor: doubles per consecutive failure, capped.
backoffFor(consecutive) ==
  LET d[i \in Nat] ==
        IF i <= 1 THEN RetryBase
        ELSE IF 2 * d[i - 1] >= RetryMax THEN RetryMax ELSE 2 * d[i - 1]
  IN IF d[consecutive] > RetryMax THEN RetryMax ELSE d[consecutive]

VARIABLES
  targets,     \* the registration's targets
  started,
  cancelled,   \* the context made by Start is done
  stopper,     \* Stop: "no", "waiting" on the wait group, "returned"
  loop,        \* moduleLoop: "off", "sweep", "spawn", "wait", "ended"
  todo,        \* targets the current sweep has still to look at
  scans,       \* the scanning goroutines
  sem,         \* worker slots taken
  failures,    \* consecutive failures, as counted by the module loop
  gate,        \* ticks until nextOK
  adder,       \* AddTarget calls: the target inserted and not yet scanned
  caller       \* ScanNow calls

vars == <<targets, started, cancelled, stopper, loop, todo, scans, sem,
          failures, gate, adder, caller>>

AnyTarget == CHOOSE t \in Targets : TRUE

\* A goroutine slot that is free.
NoScan == [pc |-> "idle", owner |-> "sweep", target |-> AnyTarget, ok |-> TRUE]

NoAdd == [pc |-> "idle", target |-> AnyTarget, running |-> FALSE]

NoCall == [pc |-> "idle", todo |-> {}, cancelled |-> FALSE]

Init ==
  /\ targets = Saved
  /\ started = FALSE
  /\ cancelled = FALSE
  /\ stopper = "no"
  /\ loop = "off"
  /\ todo = {}
  /\ scans = [g \in Goroutines |-> NoScan]
  /\ sem = 0
  /\ failures = [t \in Targets |-> 0]
  /\ gate = [t \in Targets |-> 0]
  /\ adder = [a \in Adders |-> NoAdd]
  /\ caller = [c \in Callers |-> NoCall]

Alive == {g \in Goroutines : scans[g].pc # "idle"}

\* go func() { ... scanOne(ctx, reg, t) ... }()
Spawn(g, owner, t) ==
  /\ g \notin Alive
  /\ scans' = [scans EXCEPT ![g] = [pc |-> "acquire", owner |-> owner,
                                    target |-> t, ok |-> TRUE]]

-----------------------------------------------------------------------------
(* Targets *)

\* AddTarget up to its second unlock: insert, and read ctx and started.
AddTarget(a, t) ==
  /\ adder[a].pc = "idle"
  /\ targets' = targets \cup {t}
  /\ adder' = [adder EXCEPT ![a] = [pc |-> "check", target |-> t,
                                    running |-> started]]
  /\ UNCHANGED <<started, cancelled, stopper, loop, todo, scans, sem,
                 failures, gate, caller>>

\* The test of started and ctx.Err(), outside the mutex.
AddChecks(a) ==
  /\ adder[a].pc = "check"
  /\ adder' = [adder EXCEPT ![a] = IF adder[a].running /\ ~cancelled
                                   THEN [@ EXCEPT !.pc = "spawn"] ELSE NoAdd]
  /\ UNCHANGED <<targets, started, cancelled, stopper, loop, todo, scans, sem,
                 failures, gate, caller>>

\* wg.Add(1) and the immediate scan.
AddSpawns(a, g) ==
  /\ adder[a].pc = "spawn"
  /\ Spawn(g, "add", adder[a].target)
  /\ adder' = [adder EXCEPT ![a] = NoAdd]
  /\ UNCHANGED <<targets, started, cancelled, stopper, loop, todo, sem,
                 failures, gate, caller>>

RemoveTarget(t) ==
  /\ t \in targets
  /\ targets' = targets \ {t}
  /\ UNCHANGED <<started, cancelled, stopper, loop, todo, scans, sem,
                 failures, gate, adder, caller>>

-----------------------------------------------------------------------------
(* Start, Stop and the module loop *)

\* A second Start is refused without effect.
Start ==
  /\ ~started
  /\ started' = TRUE
  /\ loop' = "sweep"
  /\ UNCHANGED <<targets, cancelled, stopper, todo, scans, sem, failures, gate,
                 adder, caller>>

\* The parent context is done: the process was interrupted.
Interrupted ==
  /\ started /\ ~cancelled
  /\ cancelled' = TRUE
  /\ UNCHANGED <<targets, started, stopper, loop, todo, scans, sem, failures,
                 gate, adder, caller>>

\* Mutant: Stop only waits.
StopWithoutCancel ==
  /\ started /\ stopper = "no"
  /\ stopper' = "waiting"
  /\ UNCHANGED <<targets, started, cancelled, loop, todo, scans, sem, failures,
                 gate, adder, caller>>

\* Stop up to wg.Wait.  main calls it after Start only.
Stop ==
  /\ started /\ stopper = "no"
  /\ cancelled' = TRUE
  /\ stopper' = "waiting"
  /\ UNCHANGED <<targets, started, loop, todo, scans, sem, failures, gate,
                 adder, caller>>

\* Mutant: the sweep's scans are not counted.
GroupWithoutSweeps ==
  {g \in Alive : scans[g].owner = "add"} \cup
  (IF loop \in {"off", "ended"} THEN {} ELSE {"loop"})

\* What the wait group counts: the loop, and the scans of sweeps and adds.
\* ScanNow counts its scans in a group of its own.
WaitGroup ==
  {g \in Alive : scans[g].owner \in {"sweep", "add"}} \cup
  (IF loop \in {"off", "ended"} THEN {} ELSE {"loop"})

StopReturns ==
  /\ stopper = "waiting"
  /\ WaitGroup = {}
  /\ stopper' = "returned"
  /\ UNCHANGED <<targets, started, cancelled, loop, todo, scans, sem, failures,
                 gate, adder, caller>>

\* A sweep takes a snapshot of the targets ...
SweepBegins ==
  /\ loop = "sweep"
  /\ loop' = "spawn"
  /\ todo' = targets
  /\ UNCHANGED <<targets, started, cancelled, stopper, scans, sem, failures,
                 gate, adder, caller>>

\* ... passes over those that back off ...
SweepSkips(t) ==
  /\ loop = "spawn"
  /\ t \in todo /\ gate[t] > 0
  /\ todo' = todo \ {t}
  /\ UNCHANGED <<targets, started, cancelled, stopper, loop, scans, sem,
                 failures, gate, adder, caller>>

\* ... and starts a scan of each of the others.
SweepSpawns(t, g) ==
  /\ loop = "spawn"
  /\ t \in todo /\ gate[t] = 0
  /\ Spawn(g, "sweep", t)
  /\ todo' = todo \ {t}
  /\ UNCHANGED <<targets, started, cancelled, stopper, loop, sem, failures,
                 gate, adder, caller>>

SweepEnds ==
  /\ loop = "spawn"
  /\ todo = {}
  /\ loop' = "wait"
  /\ UNCHANGED <<targets, started, cancelled, stopper, todo, scans, sem,
                 failures, gate, adder, caller>>

\* The select of moduleLoop: either case may win when both are ready.
LoopWakes ==
  /\ loop = "wait"
  /\ loop' = "sweep"
  /\ UNCHANGED <<targets, started, cancelled, stopper, todo, scans, sem,
                 failures, gate, adder, caller>>

LoopEnds ==
  /\ loop = "wait" /\ cancelled
  /\ loop' = "ended"
  /\ UNCHANGED <<targets, started, cancelled, stopper, todo, scans, sem,
                 failures, gate, adder, caller>>

-----------------------------------------------------------------------------
(* ScanNow *)

ScanNow(c) ==
  /\ caller[c].pc = "idle"
  /\ caller' = [caller EXCEPT ![c] = [pc |-> "running", todo |-> targets,
                                      cancelled |-> FALSE]]
  /\ UNCHANGED <<targets, started, cancelled, stopper, loop, todo, scans, sem,
                 failures, gate, adder>>

NowSpawns(c, t, g) ==
  /\ caller[c].pc = "running"
  /\ t \in caller[c].todo
  /\ Spawn(g, c, t)
  /\ caller' = [caller EXCEPT ![c].todo = @ \ {t}]
  /\ UNCHANGED <<targets, started, cancelled, stopper, loop, todo, sem,
                 failures, gate, adder>>

\* The request's context is cancelled: the client went away.
ClientGone(c) ==
  /\ caller[c].pc = "running" /\ ~caller[c].cancelled
  /\ caller' = [caller EXCEPT ![c].cancelled = TRUE]
  /\ UNCHANGED <<targets, started, cancelled, stopper, loop, todo, scans, sem,
                 failures, gate, adder>>

NowReturns(c) ==
  /\ caller[c].pc = "running"
  /\ caller[c].todo = {} /\ \A g \in Alive : scans[g].owner # c
  /\ caller' = [caller EXCEPT ![c] = NoCall]
  /\ UNCHANGED <<targets, started, cancelled, stopper, loop, todo, scans, sem,
                 failures, gate, adder>>

-----------------------------------------------------------------------------
(* scanOne *)

\* The context a scan runs under is done.
CtxDone(g) ==
  IF scans[g].owner \in Callers THEN caller[scans[g].owner].cancelled
                                ELSE cancelled

\* Where a scan goes when scanOne returns: a sweep's goroutine books the
\* outcome, the others drop it.
Returned(g, ok) ==
  IF scans[g].owner = "sweep" THEN [scans[g] EXCEPT !.pc = "book", !.ok = ok]
                              ELSE NoScan

\* The select on the semaphore: either case may win when both are ready.
Acquire(g) ==
  /\ scans[g].pc = "acquire"
  /\ sem < WorkerLimit
  /\ sem' = sem + 1
  /\ scans' = [scans EXCEPT ![g].pc = "work"]
  /\ UNCHANGED <<targets, started, cancelled, stopper, loop, todo, failures,
                 gate, adder, caller>>

\* Mutant: the release is deferred before the slot is taken.
GiveUpReleasing(g) ==
  /\ scans[g].pc = "acquire"
  /\ CtxDone(g)
  /\ sem' = sem - 1
  /\ scans' = [scans EXCEPT ![g] = Returned(g, TRUE)]
  /\ UNCHANGED <<targets, started, cancelled, stopper, loop, todo, failures,
                 gate, adder, caller>>

\* context.Canceled does not count as a failure.
GiveUp(g) ==
  /\ scans[g].pc = "acquire"
  /\ CtxDone(g)
  /\ scans' = [scans EXCEPT ![g] = Returned(g, TRUE)]
  /\ UNCHANGED <<targets, started, cancelled, stopper, loop, todo, sem,
                 failures, gate, adder, caller>>

\* Mutant: the slot is released on the success path only.
FailsHoldingSlot(g, ok) ==
  /\ scans[g].pc = "work"
  /\ ok => CtxDone(g)
  /\ scans' = [scans EXCEPT ![g] = Returned(g, ok)]
  /\ UNCHANGED <<targets, started, cancelled, stopper, loop, todo, sem,
                 failures, gate, adder, caller>>

\* Collect (a timeout included) or Reconcile returns an error; it is no
\* failure (ok) only if it is context.Canceled.
Fails(g, ok) ==
  /\ scans[g].pc = "work"
  /\ ok => CtxDone(g)
  /\ sem' = sem - 1
  /\ scans' = [scans EXCEPT ![g] = Returned(g, ok)]
  /\ UNCHANGED <<targets, started, cancelled, stopper, loop, todo, failures,
                 gate, adder, caller>>

\* Collect and Reconcile succeed, whatever the context, and OnResult is called.
Succeeds(g) ==
  /\ scans[g].pc = "work"
  /\ scans[g].target \notin Dead
  /\ sem' = sem - 1
  /\ scans' = [scans EXCEPT ![g] = Returned(g, TRUE)]
  /\ UNCHANGED <<targets, started, cancelled, stopper, loop, todo, failures,
                 gate, adder, caller>>

Saturated(n) == IF n < MaxFailures THEN n + 1 ELSE n

\* The end of a sweep's goroutine, under failMu.
Books(g) ==
  LET t == scans[g].target
      n == IF scans[g].ok THEN 0 ELSE Saturated(failures[t])
  IN
  /\ scans[g].pc = "book"
  /\ failures' = [failures EXCEPT ![t] = n]
  /\ gate' = [gate EXCEPT ![t] = IF scans[g].ok THEN 0 ELSE backoffFor(n)]
  /\ scans' = [scans EXCEPT ![g] = NoScan]
  /\ UNCHANGED <<targets, started, cancelled, stopper, loop, todo, sem, adder,
                 caller>>

\* Time passes for the targets that back off.
Tick ==
  /\ \E t \in Targets : gate[t] > 0
  /\ gate' = [t \in Targets |-> IF gate[t] > 0 THEN gate[t] - 1 ELSE 0]
  /\ UNCHANGED <<targets, started, cancelled, stopper, loop, todo, scans, sem,
                 failures, adder, caller>>

-----------------------------------------------------------------------------

LoopStep ==
  \/ SweepBegins
  \/ \E t \in Targets : SweepSkips(t)
  \/ \E t \in Targets, g \in Goroutines : SweepSpawns(t, g)
  \/ SweepEnds
  \/ LoopWakes

AddStep(a) ==
  \/ AddChecks(a)
  \/ \E g \in Goroutines : AddSpawns(a, g)

CallStep(c) ==
  \/ \E t \in Targets, g \in Goroutines : NowSpawns(c, t, g)
  \/ NowReturns(c)

\* The steps of a scan that holds a slot or has returned it.
WorkStep(g) ==
  \/ \E ok \in BOOLEAN : Fails(g, ok)
  \/ Succeeds(g)
  \/ Books(g)

Next ==
  \/ \E a \in Adders, t \in Targets : AddTarget(a, t)
  \/ \E a \in Adders : AddStep(a)
  \/ \E t \in Targets : RemoveTarget(t)
  \/ Start \/ Interrupted \/ Stop \/ StopReturns
  \/ LoopStep \/ LoopEnds
  \/ \E c \in Callers : ScanNow(c) \/ CallStep(c) \/ ClientGone(c)
  \/ \E g \in Goroutines : Acquire(g) \/ GiveUp(g) \/ WorkStep(g)
  \/ Tick

Spec == Init /\ [][Next]_vars

(***************************************************************************)
(* Fairness.  Goroutines that can run do (weak); every Collect ends, by    *)
(* its timeout if need be, and so does every Reconcile; time passes.       *)
(* Strong fairness: senders blocked on the semaphore's channel are served  *)
(* in their order; a done context is ready in moduleLoop's select at once, *)
(* the next interval is not; and the bound on goroutines, which the code   *)
(* does not have, keeps nobody from its goroutine for ever.  Nobody is     *)
(* obliged to add, remove, scan now, interrupt or stop.                    *)
(***************************************************************************)
Fairness ==
  /\ WF_vars(LoopStep)
  /\ \A t \in Targets : SF_vars(\E g \in Goroutines : SweepSpawns(t, g))
  /\ SF_vars(LoopEnds)
  /\ WF_vars(StopReturns)
  /\ WF_vars(Tick)
  /\ \A a \in Adders : WF_vars(AddChecks(a))
                     /\ SF_vars(\E g \in Goroutines : AddSpawns(a, g))
  /\ \A c \in Callers : SF_vars(CallStep(c))
  /\ \A g \in Goroutines :
       /\ SF_vars(Acquire(g))
       /\ WF_vars(GiveUp(g))
       /\ WF_vars(WorkStep(g))

FairSpec == Spec /\ Fairness

-----------------------------------------------------------------------------
(* Properties *)

Scan == [pc : {"idle", "acquire", "work", "book"},
         owner : {"sweep", "add"} \cup Callers, target : Targets, ok : BOOLEAN]

Add == [pc : {"idle", "check", "spawn"}, target : Targets, running : BOOLEAN]

Call == [pc : {"idle", "running"}, todo : SUBSET Targets, cancelled : BOOLEAN]

TypeOK ==
  /\ targets \in SUBSET Targets
  /\ started \in BOOLEAN
  /\ cancelled \in BOOLEAN
  /\ stopper \in {"no", "waiting", "returned"}
  /\ loop \in {"off", "sweep", "spawn", "wait", "ended"}
  /\ todo \in SUBSET Targets
  /\ scans \in [Goroutines -> Scan]
  /\ sem \in Nat
  /\ failures \in [Targets -> Nat]
  /\ gate \in [Targets -> Nat]
  /\ adder \in [Adders -> Add]
  /\ caller \in [Callers -> Call]

\* Every slot taken belongs to a scan that is collecting or reconciling, on
\* every path out of scanOne; so never more than Workers scans run.
SlotsAccounted ==
  /\ sem = Cardinality({g \in Goroutines : scans[g].pc = "work"})
  /\ sem <= WorkerLimit

\* What n failures in a row earn (Config.RetryBase: "the first retry delay after
\* a failed scan; doubles per consecutive failure up to RetryMax").
Earned(n) ==
  LET whole[i \in Nat] == IF i <= 1 THEN RetryBase ELSE 2 * whole[i - 1]
  IN  IF n = 0 THEN 0
      ELSE IF whole[n] > RetryMax THEN RetryMax ELSE whole[n]

\* A target is held back no longer than the failures now counted against it
\* earn, and not at all when there are none ("A successful scan resets it"),
\* although overlapping scans of one target book their outcomes in any order.
BackoffEarned == \A t \in Targets : gate[t] <= Earned(failures[t])

\* What Stop's wait group can promise: when Stop has returned the loop has
\* ended and no scan of a sweep is left.
StopEndsSweeps ==
  stopper = "returned" =>
    /\ loop = "ended"
    /\ \A g \in Alive : scans[g].owner # "sweep"

\* Stop returns, with its sweeps' scans waiting for slots or working and the
\* loop anywhere when it is called.
StopCompletes == stopper = "waiting" ~> stopper = "returned"

Scanning(t) ==
  \E g \in Goroutines : scans[g].target = t /\ scans[g].pc = "work"

\* moduleLoop: "one dead host slows only itself, never the sweep".  A running
\* scheduler scans every target it keeps again and again, the dead ones too,
\* for as long as nobody removes the target or cancels.
EveryTargetSwept ==
  \A t \in Targets :
    <>[](started /\ ~cancelled /\ t \in targets) => []<>Scanning(t)

\* "An immediate scan": a target added while running is scanned, or the
\* scheduler is cancelled, whether or not the loop ever wakes.
AddedIsScanned ==
  \A a \in Adders, t \in Targets :
    adder[a].pc = "spawn" /\ adder[a].target = t ~> Scanning(t) \/ cancelled
=============================================================================
