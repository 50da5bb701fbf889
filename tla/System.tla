------------------------------- MODULE System -------------------------------
(***************************************************************************)
(* The process as cmd/patchlight/main.go puts it together: scans reconcile *)
(* into the findings table (module Findings), OnResult hands their changes *)
(* to the dispatcher one by one (notify.BindScheduler, module Dispatcher), *)
(* and main shuts the process down and is started again.  The table is on  *)
(* disk; everything else, the pending and half-sent events included, is    *)
(* memory.                                                                 *)
(*                                                                         *)
(* On a signal a goroutine calls Shutdown and then scheduler.Stop.  Nobody *)
(* waits for it: ListenAndServe returns as soon as Shutdown begins, main   *)
(* runs its deferred calls (stop, then disp.Close) and returns, and the    *)
(* process ends with whatever the other goroutines were doing.  A signal   *)
(* does not hold back a scan either: a Collect that finds its answers in   *)
(* the caches succeeds in a cancelled context, and Reconcile has none.     *)
(***************************************************************************)
EXTENDS Findings, Integers, Sequences

CONSTANTS
  Channels,    \* the configured channels
  ModuleID,    \* the id of the one registered module
  MaxEnds      \* bound: ends of the process

ASSUME SystemAssumption ==
  /\ Channels # {}
  /\ IsFiniteSet(FPs)
  /\ MaxEnds \in Nat

VARIABLES
  \* the dispatcher's
  pending, seen, timer, waiting, closed, closer, sends, accepted,
  proc,      \* "up", "signalled", "closing", then "exited" or "crashed"
  handed,    \* per scan, the changes its OnResult has enqueued so far
  ends,      \* number of times the process has ended
  heard,     \* history: the last event about a finding that was accepted
  lost       \* history: changes the consumer will not hear of, and why

dispatcherVars ==
  <<pending, seen, timer, waiting, closed, closer, sends, accepted>>

sysVars == <<vars, dispatcherVars, proc, handed, ends, heard, lost>>

Offers == [kind : {"opened", "resolved"}, module : {ModuleID}, fp : FPs,
           sev : Severity]

\* main passes the zero notify.Config: 100 events a batch, 3 attempts, every
\* severity.  A scan announces a finding once, so MaxEvents is no bound here.
D == INSTANCE Dispatcher WITH
       MaxBatch <- 0, Retries <- 0, MinSeverity <- "",
       MaxEvents <- MaxScans * Cardinality(FPs)

SysInit ==
  /\ Init
  /\ D!Init
  /\ proc = "up"
  /\ handed = [s \in Scanners |-> {}]
  /\ ends = 0
  /\ heard = [f \in FPs |-> "never"]
  /\ lost = {}

Alive == proc \in {"up", "signalled", "closing"}

-----------------------------------------------------------------------------
(* Scans *)

\* Mutant: resolutions are not passed on.
ChangesOpened(s) == {[kind |-> "opened", fp |-> f] : f \in OpenedFPs(s)}

\* The changes the result of scan s holds for OnResult.
Changes(s) ==
  {[kind |-> "opened", fp |-> f] : f \in OpenedFPs(s)} \cup
  {[kind |-> "resolved", fp |-> f] : f \in scan[s].resolved}

\* Those that are written to the table and not yet with the dispatcher.
Unhanded(s) == Changes(s) \ handed[s]

EngineStep(s) ==
  /\ Alive
  /\ \/ \E t \in Targets : StartScan(s, t)
     \/ CollectFails(s)
     \/ \E out \in [FPs -> Vulns \cup {Unreported}] : CollectReturns(s, out)
     \/ ListByTarget(s)
     \/ \E f \in FPs : WriteFresh(s, f)
     \/ \E f \in FPs : WriteGone(s, f)
  /\ UNCHANGED <<dispatcherVars, proc, handed, ends, heard, lost>>

\* Reconcile returns an error: what it wrote so far is never announced.
EngineFails(s) ==
  /\ Alive
  /\ StoreFails(s)
  /\ lost' = lost \cup {<<c.fp, "store">> : c \in Unhanded(s)}
  /\ UNCHANGED <<dispatcherVars, proc, handed, ends, heard>>

Event(s, c) ==
  [kind |-> c.kind, module |-> ModuleID, fp |-> c.fp,
   sev |-> Rank(IF c.kind = "opened" THEN scan[s].fresh[c.fp]
                                     ELSE scan[s].snap[c.fp].detail)]

\* Where the finding's consumers stand after an event about it was accepted:
\* each event says how the finding is now, so what was lost before it does
\* not matter any more.
Heard(c) ==
  /\ heard' = [heard EXCEPT ![c.fp] = c.kind]
  /\ lost' = {l \in lost : l[1] # c.fp}

\* One Enqueue of the callback made by BindScheduler: the opened findings,
\* then the resolved ones.  The dispatcher drops an event when it is closed,
\* and when an equal one is pending.
HandOver(s, c) ==
  LET e == Event(s, c)
  IN
  /\ Alive
  /\ scan[s].pc = "write" /\ scan[s].todo \cup scan[s].gone = {}
  /\ c \in Unhanded(s)
  /\ c.kind = "resolved" => \A d \in Unhanded(s) : d.kind = "resolved"
  /\ handed' = [handed EXCEPT ![s] = @ \cup {c}]
  /\ \/ D!Enqueue(e) /\ Heard(c)
     \/ /\ ~D!Admits(e)
        /\ lost' = lost \cup {<<c.fp, IF closed THEN "exit" ELSE "window">>}
        /\ UNCHANGED <<dispatcherVars, heard>>
  /\ UNCHANGED <<vars, proc, ends>>

\* OnResult returns, and scanOne after it.
ScanReturns(s) ==
  /\ Alive
  /\ Unhanded(s) = {}
  /\ Report(s)
  /\ handed' = [handed EXCEPT ![s] = {}]
  /\ UNCHANGED <<dispatcherVars, proc, ends, heard, lost>>

-----------------------------------------------------------------------------
(* The dispatcher's own goroutines *)

DispatcherStep ==
  /\ Alive
  /\ D!TimerFires \/ D!Flush \/ D!SenderStep
  /\ UNCHANGED <<vars, proc, handed, ends, heard, lost>>

-----------------------------------------------------------------------------
(* The process *)

\* The changes that end with the process.
Unannounced == {c.fp : c \in UNION {Unhanded(s) : s \in Scanners}}

\* The events accepted and not yet settled on every channel.
Unsettled ==
  {e.fp : e \in D!Events(pending) \cup
                UNION {D!Events(x.batch) : x \in D!Sending}}

\* The process is killed, or ends by os.Exit, as when ListenAndServe fails.
Crash ==
  /\ Alive
  /\ ends < MaxEnds
  /\ proc' = "crashed"
  /\ ends' = ends + 1
  /\ lost' = lost \cup {<<f, "crash">> : f \in Unannounced \cup Unsettled}
  /\ UNCHANGED <<vars, dispatcherVars, handed, heard>>

Signal ==
  /\ proc = "up"
  /\ ends < MaxEnds
  /\ proc' = "signalled"
  /\ UNCHANGED <<vars, dispatcherVars, handed, ends, heard, lost>>

\* ListenAndServe has returned ErrServerClosed: the deferred disp.Close.
MainCloses ==
  /\ proc = "signalled"
  /\ D!Close
  /\ proc' = "closing"
  /\ UNCHANGED <<vars, handed, ends, heard, lost>>

\* Mutant: main returns without disp.Close having returned.
MainExitsEarly ==
  /\ proc = "closing"
  /\ proc' = "exited"
  /\ ends' = ends + 1
  /\ lost' = lost \cup {<<f, "exit">> : f \in Unannounced}
  /\ UNCHANGED <<vars, dispatcherVars, handed, heard>>

\* disp.Close returns, main returns, the process ends.
MainExits ==
  /\ proc = "closing"
  /\ D!CloseReturns
  /\ proc' = "exited"
  /\ ends' = ends + 1
  /\ lost' = lost \cup {<<f, "exit">> : f \in Unannounced}
  /\ UNCHANGED <<vars, handed, heard>>

\* Mutant: the process starts over an empty table.
BootForgets ==
  /\ ~Alive
  /\ proc' = "up"
  /\ scan' = [s \in Scanners |-> Idle]
  /\ req' = [u \in Users |-> NoRequest]
  /\ handed' = [s \in Scanners |-> {}]
  /\ pending' = <<>> /\ seen' = {} /\ timer' = "nil" /\ waiting' = 0
  /\ closed' = FALSE /\ closer' = "no" /\ sends' = {} /\ accepted' = 0
  /\ db' = [f \in FPs |-> NoRecord]
  /\ UNCHANGED <<clock, told, misses, touched, ends, heard, lost>>

\* The process is started again: memory is as at first, the table is as it
\* was left.
Boot ==
  /\ ~Alive
  /\ proc' = "up"
  /\ scan' = [s \in Scanners |-> Idle]
  /\ req' = [u \in Users |-> NoRequest]
  /\ handed' = [s \in Scanners |-> {}]
  /\ pending' = <<>> /\ seen' = {} /\ timer' = "nil" /\ waiting' = 0
  /\ closed' = FALSE /\ closer' = "no" /\ sends' = {} /\ accepted' = 0
  /\ UNCHANGED <<db, clock, told, misses, touched, ends, heard, lost>>

SysNext ==
  \/ \E s \in Scanners :
       \/ EngineStep(s)
       \/ EngineFails(s)
       \/ \E c \in Changes(s) : HandOver(s, c)
       \/ ScanReturns(s)
  \/ DispatcherStep
  \/ Crash \/ Signal \/ MainCloses \/ MainExits \/ Boot

SysSpec == SysInit /\ [][SysNext]_sysVars

-----------------------------------------------------------------------------
(* Properties *)

Change == [kind : {"opened", "resolved"}, fp : FPs]

SysTypeOK ==
  /\ TypeOK
  /\ D!TypeOK
  /\ proc \in {"up", "signalled", "closing", "exited", "crashed"}
  /\ handed \in [Scanners -> SUBSET Change]
  /\ ends \in Nat
  /\ heard \in [FPs -> {"never", "opened", "resolved"}]
  /\ lost \in SUBSET (FPs \X {"store", "window", "exit", "crash"})

InHand(f) == Alive /\ f \in Unannounced

Said(f) ==
  IF db[f] = NoRecord THEN "never"
  ELSE IF db[f].status = "resolved" THEN "resolved" ELSE "opened"

\* End to end, over crashes, restarts, store errors and shutdowns: the last
\* event the dispatcher accepted about a finding says what the table says,
\* unless the change is still in the hands of a scan or was lost in one of
\* the four ways the code has of losing one (a store error part-way, a
\* window that held an equal event, an exit, a crash).
ConsumerAgrees ==
  \A f \in FPs :
    ~InHand(f) /\ (\A l \in lost : l[1] # f) => heard[f] = Said(f)

\* No finding is announced twice: a restart, with nothing but the table to go
\* by, does not tell again what was told, nor does a scan after it.
NothingRepeated ==
  [][\A s \in Scanners : \A c \in Changes(s) :
       HandOver(s, c) /\ accepted' # accepted
         => heard[c.fp] # c.kind \/ \E l \in lost : l[1] = c.fp]_sysVars

\* An orderly exit keeps what was accepted: main returns only when every
\* accepted event has been delivered or given up on every channel, although
\* scans go on enqueueing until the end.
ExitSettlesAll ==
  proc = "exited" =>
    \A k \in 1..accepted, c \in Channels : D!Settled(k, c)

\* An orderly exit loses no change: README, "Live export": "Every finding
\* Patchlight opens or resolves can leave as one".
ExitLosesNothing == \A l \in lost : l[2] # "exit"
=============================================================================
