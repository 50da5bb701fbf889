---------------------------- MODULE SystemProofs ----------------------------
(***************************************************************************)
(* For every number of findings, targets, scans and channels, and over any *)
(* number of restarts: what a consumer of the events can rely on.  The     *)
(* facts about the two components are taken from their own proofs:         *)
(* FindingsProofs by extension, DispatcherProofs as an instance of itself, *)
(* with the configuration main gives the dispatcher.                       *)
(***************************************************************************)
EXTENDS System, FindingsProofs

P == INSTANCE DispatcherProofs WITH
       MaxBatch <- 0, Retries <- 0, MinSeverity <- "",
       MaxEvents <- MaxScans * Cardinality(FPs)

\* What DispatcherProofs assumes of its constants.
LEMMA Premise ==
  /\ \A e \in Offers : e.kind \in P!Kind /\ e.sev \in P!Severity
  /\ 0 \in Int
  /\ "" \in P!Severity \cup {""}
  /\ MaxScans * Cardinality(FPs) \in Nat
<1>1. MaxScans \in Nat /\ Cardinality(FPs) \in Nat
  BY FindingsAssumption, SystemAssumption, FS_CardinalityType
<1>2. MaxScans * Cardinality(FPs) \in Nat
  BY <1>1
<1> QED BY <1>2 DEF Offers, P!Kind, P!Severity, Severity

-----------------------------------------------------------------------------
(* The findings table inside the process *)

LEMMA TableSteps ==
  ASSUME IInv, [SysNext]_sysVars
  PROVE  IInv'
<1> USE DEF IInv
<1>1. ASSUME NEW s \in Scanners, EngineStep(s) \/ EngineFails(s) \/ ScanReturns(s)
      PROVE  IInv'
  <2>1. ScanStep(s)
    BY <1>1 DEF EngineStep, EngineFails, ScanReturns, ScanStep, Outputs
  <2> QED BY <2>1, NextOK DEF Next, StepOK
<1>2. ASSUME UNCHANGED vars
      PROVE  IInv'
  BY <1>2 DEF vars, TypeOK, WriterInv, ResolvedHasTime
<1>3. CASE Boot
  <2>1. /\ scan' = [s \in Scanners |-> Idle] /\ req' = [u \in Users |-> NoRequest]
        /\ UNCHANGED <<db, clock, told, misses, touched>>
    BY <1>3 DEF Boot
  <2>2. TypeOK'
    BY <2>1, IdleTyped DEF TypeOK
  <2>3. WriterInv'
    BY <2>1 DEF WriterInv, ScanHolds, Idle, NoRequest
  <2> QED BY <2>1, <2>2, <2>3 DEF ResolvedHasTime
<1>4. ASSUME NEW s \in Scanners, NEW c \in Changes(s), HandOver(s, c)
      PROVE  IInv'
  BY <1>2, <1>4 DEF HandOver
<1>5. CASE DispatcherStep \/ Crash \/ Signal \/ MainCloses \/ MainExits
  BY <1>2, <1>5 DEF DispatcherStep, Crash, Signal, MainCloses, MainExits
<1>6. CASE UNCHANGED sysVars
  BY <1>2, <1>6 DEF sysVars
<1> QED
  BY <1>1, <1>3, <1>4, <1>5, <1>6 DEF SysNext

\* What a scan has for OnResult is an opening or a resolution of a finding.
LEMMA ChangeCases ==
  ASSUME TypeOK, NEW s \in Scanners, NEW c \in Changes(s)
  PROVE  /\ c \in Change
         /\ \/ c = [kind |-> "opened", fp |-> c.fp] /\ c.fp \in OpenedFPs(s)
            \/ c = [kind |-> "resolved", fp |-> c.fp] /\ c.fp \in scan[s].resolved
<1>1. OpenedFPs(s) \subseteq FPs /\ scan[s].resolved \subseteq FPs
  BY DEF TypeOK, Scan, OpenedFPs
<1> QED BY <1>1 DEF Changes, Change

LEMMA EventOffered ==
  ASSUME TypeOK, NEW s \in Scanners, NEW c \in Changes(s)
  PROVE  Event(s, c) \in Offers
<1>1. c.kind \in {"opened", "resolved"} /\ c.fp \in FPs
  BY ChangeCases DEF Change
<1>2. \A v : Rank(v) \in Severity
  BY DEF Rank, Severity
<1> QED BY <1>1, <1>2 DEF Event, Offers

-----------------------------------------------------------------------------
(* The dispatcher inside the process *)

\* Its steps here are its steps there.
LEMMA EnqueueSame ==
  ASSUME NEW e, D!Enqueue(e) PROVE P!Enqueue(e)
BY DEF D!Enqueue, P!Enqueue, D!Admits, P!Admits, D!KeyOf, P!KeyOf,
       D!passesSeverity, P!passesSeverity, D!severityRank, P!severityRank,
       D!BatchFull, P!BatchFull, D!BatchLimit, P!BatchLimit,
       D!flushLocked, P!flushLocked, D!NewSends, P!NewSends,
       D!Events, P!Events

LEMMA FlushSame ==
  /\ D!Flush => P!Flush
  /\ D!Close => P!Close
BY DEF D!Flush, P!Flush, D!Close, P!Close, D!flushLocked, P!flushLocked,
       D!NewSends, P!NewSends, D!Events, P!Events

LEMMA SenderSame ==
  ASSUME D!SenderStep
  PROVE  \E x \in sends : P!SendSucceeds(x) \/ P!SendFails(x)
BY DEF D!SenderStep, D!SendSucceeds, P!SendSucceeds, D!SendFails, P!SendFails,
       D!Sending, P!Sending, D!Becomes, P!Becomes, D!AttemptLimit,
       P!AttemptLimit

LEMMA OthersSame ==
  /\ D!Init => P!Init
  /\ D!TimerFires => P!TimerFires
  /\ D!CloseReturns => P!CloseReturns
BY DEF D!Init, P!Init, D!TimerFires, P!TimerFires, D!CloseReturns,
       P!CloseReturns, D!Sending, P!Sending

LEMMA SettledSame ==
  ASSUME NEW k, NEW c, P!Settled(k, c) PROVE D!Settled(k, c)
BY DEF P!Settled, D!Settled, P!Carries, D!Carries, P!Events, D!Events

\* The dispatcher's own invariant, and that an orderly exit waits for Close.
DispatcherInv == P!IInv /\ (proc = "exited" => closer = "returned")

LEMMA FreshDispatcher == P!Init' => P!IInv'
<1>1. P!Init => P!IInv
  BY P!InitInv, Premise
<1> QED BY <1>1, PTL

\* A restart has a new dispatcher.
LEMMA RebootDispatcher ==
  ASSUME pending' = <<>>, seen' = {}, timer' = "nil", waiting' = 0,
         closed' = FALSE, closer' = "no", sends' = {}, accepted' = 0
  PROVE  P!IInv'
<1>1. P!Init'
  BY DEF P!Init
<1> QED BY <1>1, FreshDispatcher

LEMMA DispatcherStays ==
  ASSUME P!IInv, UNCHANGED dispatcherVars
  PROVE  P!IInv'
BY P!StutterInv, Premise DEF dispatcherVars, P!vars

LEMMA DispatcherSteps ==
  ASSUME TypeOK, DispatcherInv, [SysNext]_sysVars
  PROVE  DispatcherInv'
<1> USE DEF DispatcherInv
<1>1. ASSUME NEW s \in Scanners, EngineStep(s) \/ EngineFails(s) \/ ScanReturns(s)
      PROVE  DispatcherInv'
  BY <1>1, DispatcherStays DEF EngineStep, EngineFails, ScanReturns, Alive
<1>2. ASSUME NEW s \in Scanners, NEW c \in Changes(s), HandOver(s, c)
      PROVE  DispatcherInv'
  <2>1. proc' = proc /\ proc # "exited"
    BY <1>2 DEF HandOver, Alive
  <2>2. CASE UNCHANGED dispatcherVars
    BY <2>1, <2>2, DispatcherStays
  <2>3. CASE D!Enqueue(Event(s, c))
    <3>1. Event(s, c) \in Offers
      BY EventOffered
    <3> QED BY <2>1, <2>3, <3>1, EnqueueSame, P!EnqueueInv, Premise
  <2> QED BY <1>2, <2>2, <2>3 DEF HandOver
<1>3. CASE DispatcherStep
  <2>1. proc' = proc /\ proc # "exited"
    BY <1>3 DEF DispatcherStep, Alive
  <2>2. CASE D!TimerFires
    BY <2>1, <2>2, OthersSame, P!TimerFiresInv, Premise
  <2>3. CASE D!Flush
    BY <2>1, <2>3, FlushSame, P!FlushInv, Premise
  <2>4. CASE D!SenderStep
    BY <2>1, <2>4, SenderSame, P!SenderInv, Premise
  <2> QED BY <1>3, <2>2, <2>3, <2>4 DEF DispatcherStep
<1>4. CASE Crash \/ Signal
  BY <1>4, DispatcherStays DEF Crash, Signal
<1>5. CASE MainCloses
  BY <1>5, FlushSame, P!FlushInv, Premise DEF MainCloses
<1>6. CASE MainExits
  <2>1. P!IInv'
    BY <1>6, OthersSame, P!CloseReturnsInv, Premise DEF MainExits
  <2> QED BY <1>6, <2>1 DEF MainExits, D!CloseReturns
<1>7. CASE Boot
  BY <1>7, RebootDispatcher DEF Boot
<1>8. CASE UNCHANGED sysVars
  BY <1>8, DispatcherStays DEF sysVars, dispatcherVars
<1> QED
  BY <1>1, <1>2, <1>3, <1>4, <1>5, <1>6, <1>7, <1>8 DEF SysNext

LEMMA TableAndDispatcher == SysSpec => [](IInv /\ DispatcherInv)
<1>1. SysInit => IInv /\ DispatcherInv
  BY OthersSame, InitInv, P!InitInv, Premise DEF SysInit, DispatcherInv
<1>2. IInv /\ DispatcherInv /\ [SysNext]_sysVars => (IInv /\ DispatcherInv)'
  BY TableSteps, DispatcherSteps DEF IInv
<1> QED BY <1>1, <1>2, PTL DEF SysSpec

-----------------------------------------------------------------------------
(* What the consumers know *)

SysTypes ==
  /\ proc \in {"up", "signalled", "closing", "exited", "crashed"}
  /\ handed \in [Scanners -> SUBSET Change]
  /\ ends \in Nat
  /\ heard \in [FPs -> {"never", "opened", "resolved"}]
  /\ lost \in SUBSET (FPs \X {"store", "window", "exit", "crash"})

ToWrite(x) == x.todo \cup x.gone

\* A scan alone with its target: the rows it has still to write are as it read
\* them, those it has written say what it will announce, and it announces
\* nothing before it has written everything.
Writes(s) ==
  /\ scan[s].pc # "write" =>
       scan[s].opened = {} /\ scan[s].resolved = {} /\ handed[s] = {}
  /\ scan[s].pc # "idle" =>
       \A f \in FPs : scan[s].fresh[f] # Unreported =>
                        TargetOf[f] = scan[s].target
  /\ handed[s] \subseteq Changes(s)
  /\ handed[s] # {} => ToWrite(scan[s]) = {}
  /\ scan[s].todo \cap scan[s].gone = {}
  /\ \A f \in ToWrite(scan[s]) :
       /\ TargetOf[f] = scan[s].target
       /\ db[f] = scan[s].snap[f]
       /\ \A c \in Changes(s) : c.fp # f
  /\ \A c \in Changes(s) :
       TargetOf[c.fp] = scan[s].target /\ Said(c.fp) = c.kind

NoneLost(f) == \A l \in lost : l[1] # f

\* A consumer who has lost nothing about a finding knows it as it is ...
Agreed ==
  \A f \in FPs :
    NoneLost(f) /\ (\A s \in Scanners : \A c \in Unhanded(s) : c.fp # f)
      => heard[f] = Said(f)

\* ... or is about to hear what he does not know yet, ...
News ==
  \A s \in Scanners : \A c \in Unhanded(s) :
    NoneLost(c.fp) => heard[c.fp] # c.kind

\* ... unless the process has ended.
EndedInv ==
  ~Alive => \A s \in Scanners : \A c \in Unhanded(s) : ~NoneLost(c.fp)

Known == Agreed /\ News /\ EndedInv

SysInv == /\ IInv /\ SysTypes /\ Alone
          /\ (\A s \in Scanners : Writes(s))
          /\ Known

\* The steps that change neither the table nor what is to be announced.
LEMMA KnownKept ==
  ASSUME Known, UNCHANGED <<db, heard, lost>>,
         \A s \in Scanners : Unhanded(s)' = Unhanded(s),
         Alive'
  PROVE  Known'
BY DEF Known, Agreed, News, EndedInv, NoneLost, Said

LEMMA WritesKept ==
  ASSUME NEW s \in Scanners, Writes(s), scan'[s] = scan[s],
         handed'[s] = handed[s], UNCHANGED db
  PROVE  Writes(s)' /\ Unhanded(s)' = Unhanded(s)
BY DEF Writes, Unhanded, Changes, OpenedFPs, Said, ToWrite

\* A change to announce is that of a running scan, and is what the row says.
LEMMA ChangeStored ==
  ASSUME SysInv, NEW s \in Scanners, NEW c \in Changes(s)
  PROVE  /\ c.fp \in FPs /\ c.kind \in {"opened", "resolved"}
         /\ scan[s].pc = "write" /\ TargetOf[c.fp] = scan[s].target
         /\ Said(c.fp) = c.kind
<1>1. c \in Change /\ scan[s].pc = "write"
  BY ChangeCases DEF SysInv, IInv, Writes, OpenedFPs
<1> QED BY <1>1 DEF Change, SysInv, Writes

\* At most one change of a finding is waiting to be announced.
LEMMA ChangeUnique ==
  ASSUME SysInv, NEW r \in Scanners, NEW s \in Scanners,
         NEW b \in Changes(r), NEW c \in Changes(s), b.fp = c.fp
  PROVE  r = s /\ b = c
<1>1. r = s
  BY ChangeStored DEF SysInv, Alone
<1>2. b.kind = c.kind
  BY ChangeStored
<1>3. b = [kind |-> b.kind, fp |-> b.fp] /\ c = [kind |-> c.kind, fp |-> c.fp]
  BY ChangeCases DEF SysInv, IInv
<1> QED BY <1>1, <1>2, <1>3

\* A scan that begins to write, or returns, having nothing to announce.
LEMMA QuietScan ==
  ASSUME SysInv, NEW s \in Scanners, NEW x,
         scan' = [scan EXCEPT ![s] = x], UNCHANGED <<db, heard, lost>>,
         Unhanded(s) = {}, handed' = [handed EXCEPT ![s] = {}],
         x.opened = {}, x.resolved = {}, Alive'
  PROVE  /\ Known'
         /\ \A r \in Scanners \ {s} : Writes(r)'
         /\ Changes(s)' = {} /\ handed'[s] = {} /\ scan'[s] = x
<1>1. /\ scan'[s] = x /\ handed'[s] = {}
      /\ \A r \in Scanners \ {s} : scan'[r] = scan[r] /\ handed'[r] = handed[r]
  BY DEF SysInv, SysTypes, IInv, TypeOK
<1>2. \A r \in Scanners \ {s} : Writes(r)' /\ Unhanded(r)' = Unhanded(r)
  BY <1>1, WritesKept DEF SysInv
<1>3. Changes(s)' = {}
  BY <1>1 DEF Changes, OpenedFPs
<1>4. Unhanded(s)' = Unhanded(s)
  BY <1>3 DEF Unhanded
<1> QED BY <1>1, <1>2, <1>3, <1>4, KnownKept DEF SysInv

KnownInv == Alone /\ (\A s \in Scanners : Writes(s)) /\ Known

\* Before it writes a scan has nothing to announce.
LEMMA NotYet ==
  ASSUME SysInv, NEW s \in Scanners, scan[s].pc # "write"
  PROVE  /\ Changes(s) = {} /\ Unhanded(s) = {} /\ handed[s] = {}
         /\ handed = [handed EXCEPT ![s] = {}]
         /\ scan[s].opened = {} /\ scan[s].resolved = {}
         /\ scan[s].todo = {} /\ scan[s].gone = {}
BY DEF SysInv, SysTypes, IInv, WriterInv, ScanHolds, Writes, Changes, Unhanded,
       OpenedFPs

\* A step of one scan that leaves it idle, or at its target.
LEMMA AloneKept ==
  ASSUME SysInv, NEW s \in Scanners, NEW x, scan' = [scan EXCEPT ![s] = x],
         x.pc # "idle" => scan[s].pc # "idle" /\ x.target = scan[s].target
  PROVE  Alone'
<1>1. \A r \in Scanners : scan'[r] = IF r = s THEN x ELSE scan[r]
  BY DEF SysInv, IInv, TypeOK
<1> QED BY <1>1 DEF SysInv, Alone

LEMMA CollectSteps ==
  ASSUME SysInv, MaxOverlap = 1, Alive, Alive', NEW s \in Scanners,
         UNCHANGED <<handed, heard, lost>>,
         \/ \E t \in Targets : StartScan(s, t)
         \/ CollectFails(s)
         \/ \E out \in [FPs -> Vulns \cup {Unreported}] : CollectReturns(s, out)
         \/ ListByTarget(s)
  PROVE  KnownInv'
<1>0. scan \in [Scanners -> Scan]
  BY DEF SysInv, IInv, TypeOK
<1>p. scan[s].pc # "write"
  BY DEF StartScan, CollectFails, CollectReturns, ListByTarget
<1>q. /\ Unhanded(s) = {} /\ handed[s] = {}
      /\ handed' = [handed EXCEPT ![s] = {}]
      /\ scan[s].opened = {} /\ scan[s].resolved = {}
      /\ scan[s].todo = {} /\ scan[s].gone = {}
  BY <1>p, NotYet
<1>1. ASSUME NEW t \in Targets, StartScan(s, t) PROVE KnownInv'
  <2> DEFINE x == [Idle EXCEPT !.pc = "collect", !.target = t]
  <2>1. scan' = [scan EXCEPT ![s] = x] /\ db' = db
    BY <1>1 DEF StartScan
  <2>2. /\ x.pc = "collect" /\ x.target = t /\ x.fresh = Nothing
        /\ x.todo = {} /\ x.gone = {} /\ x.opened = {} /\ x.resolved = {}
    BY DEF Idle
  <2> HIDE DEF x
  <2>3. Running(t) = {}
    <3>1. IsFiniteSet(Running(t)) /\ Cardinality(Running(t)) \in Nat
      BY FindingsAssumption, FS_Subset, FS_CardinalityType DEF Running
    <3>2. Cardinality(Running(t)) < MaxOverlap
      BY <1>1 DEF StartScan
    <3>3. Cardinality(Running(t)) = 0
      BY <3>1, <3>2
    <3> QED BY <3>1, <3>3, FS_EmptySet
  <2>4. Alone'
    <3>1. \A r \in Scanners : scan'[r] = IF r = s THEN x ELSE scan[r]
      BY <1>0, <2>1
    <3> QED BY <2>2, <2>3, <3>1 DEF SysInv, Alone, Running
  <2>5. Known' /\ (\A r \in Scanners \ {s} : Writes(r)')
          /\ Changes(s)' = {} /\ handed'[s] = {} /\ scan'[s] = x
    BY <1>q, <2>1, <2>2, QuietScan
  <2>6. Writes(s)'
    BY <2>2, <2>5 DEF Writes, ToWrite, Nothing
  <2> QED BY <2>4, <2>5, <2>6 DEF KnownInv
<1>2. CASE CollectFails(s)
  <2>1. scan' = [scan EXCEPT ![s] = Idle] /\ db' = db
    BY <1>2 DEF CollectFails
  <2>2. /\ Idle.pc = "idle" /\ Idle.todo = {} /\ Idle.gone = {}
        /\ Idle.opened = {} /\ Idle.resolved = {}
    BY DEF Idle
  <2>3. Known' /\ (\A r \in Scanners \ {s} : Writes(r)')
          /\ Changes(s)' = {} /\ handed'[s] = {} /\ scan'[s] = Idle
    BY <1>q, <2>1, <2>2, QuietScan
  <2>4. Writes(s)'
    BY <2>2, <2>3 DEF Writes, ToWrite
  <2> QED BY <2>1, <2>2, <2>3, <2>4, AloneKept DEF KnownInv
<1>3. ASSUME NEW out \in [FPs -> Vulns \cup {Unreported}], CollectReturns(s, out)
      PROVE  KnownInv'
  <2> DEFINE fresh == [f \in FPs |-> IF ValidateForIngest(out[f])
                                     THEN out[f] ELSE Unreported]
             x == [scan[s] EXCEPT !.pc = "list", !.now = clock + 1,
                                  !.fresh = fresh]
  <2>1. scan' = [scan EXCEPT ![s] = x] /\ db' = db /\ scan[s].pc = "collect"
    BY <1>0, <1>3 DEF CollectReturns, Scan
  <2>2. /\ x.pc = "list" /\ x.target = scan[s].target /\ x.fresh = fresh
        /\ x.todo = {} /\ x.gone = {} /\ x.opened = {} /\ x.resolved = {}
    BY <1>0, <1>q DEF Scan
  <2>3. \A f \in FPs : fresh[f] # Unreported => TargetOf[f] = scan[s].target
    BY <1>3 DEF CollectReturns
  <2> HIDE DEF x, fresh
  <2>4. Known' /\ (\A r \in Scanners \ {s} : Writes(r)')
          /\ Changes(s)' = {} /\ handed'[s] = {} /\ scan'[s] = x
    BY <1>q, <2>1, <2>2, QuietScan
  <2>5. Writes(s)'
    BY <2>2, <2>3, <2>4 DEF Writes, ToWrite
  <2> QED BY <2>1, <2>2, <2>4, <2>5, AloneKept DEF KnownInv
<1>4. CASE ListByTarget(s)
  <2> DEFINE mine(f) == TargetOf[f] = scan[s].target
             snap == [f \in FPs |-> IF mine(f) THEN db[f] ELSE NoRecord]
             found == {f \in FPs : scan[s].fresh[f] # Unreported}
             gone == {f \in FPs \ found :
                        /\ snap[f] # NoRecord
                        /\ snap[f].status \notin {"resolved", "suppressed"}}
             x == [scan[s] EXCEPT !.pc = "write", !.snap = snap,
                                  !.todo = found, !.gone = gone]
  <2>1. scan' = [scan EXCEPT ![s] = x] /\ db' = db /\ scan[s].pc = "list"
    BY <1>0, <1>4 DEF ListByTarget, Scan
  <2>2. /\ x.pc = "write" /\ x.target = scan[s].target
        /\ x.fresh = scan[s].fresh /\ x.snap = snap
        /\ x.todo = found /\ x.gone = gone
        /\ x.opened = {} /\ x.resolved = {}
    BY <1>0, <1>q DEF Scan
  <2>3. \A f \in found : mine(f) /\ snap[f] = db[f]
    BY <2>1 DEF SysInv, Writes
  <2>4. \A f \in gone : mine(f) /\ snap[f] = db[f]
    OBVIOUS
  <2>5. found \cap gone = {}
    OBVIOUS
  <2>6. \A f \in FPs : scan[s].fresh[f] # Unreported
                         => TargetOf[f] = scan[s].target
    BY <2>1 DEF SysInv, Writes
  <2> HIDE DEF x, snap, found, gone
  <2>7. Known' /\ (\A r \in Scanners \ {s} : Writes(r)')
          /\ Changes(s)' = {} /\ handed'[s] = {} /\ scan'[s] = x
    BY <1>q, <2>1, <2>2, QuietScan
  <2>8. Writes(s)'
    BY <2>1, <2>2, <2>3, <2>4, <2>5, <2>6, <2>7 DEF Writes, ToWrite
  <2> QED BY <2>1, <2>2, <2>7, <2>8, AloneKept DEF KnownInv
<1> QED BY <1>1, <1>2, <1>3, <1>4

\* A row is written; kind is what the table says of the finding afterwards.
LEMMA RowWritten ==
  ASSUME SysInv, Alive, Alive', NEW s \in Scanners, NEW f \in FPs, NEW x,
         NEW kind \in {"opened", "resolved"},
         UNCHANGED <<handed, heard, lost>>,
         scan' = [scan EXCEPT ![s] = x],
         scan[s].pc = "write", f \in ToWrite(scan[s]),
         x.pc = "write", x.target = scan[s].target, x.snap = scan[s].snap,
         x.fresh = scan[s].fresh,
         x.todo \subseteq scan[s].todo, x.gone \subseteq scan[s].gone,
         f \notin ToWrite(x),
         {e.fp : e \in x.opened} =
           OpenedFPs(s) \cup {g \in {f} : kind = "opened" /\ Said(f) # kind},
         x.resolved = scan[s].resolved
           \cup {g \in {f} : kind = "resolved" /\ Said(f) # kind},
         \A g \in FPs \ {f} : db'[g] = db[g],
         Said(f)' = kind
  PROVE  KnownInv'
<1> DEFINE new == {c \in {[kind |-> kind, fp |-> f]} : Said(f) # kind}
<1>1. \A r \in Scanners : scan'[r] = IF r = s THEN x ELSE scan[r]
  BY DEF SysInv, IInv, TypeOK
<1>2. Changes(s)' = Changes(s) \cup new
  BY <1>1 DEF Changes, OpenedFPs
<1>3. \A c \in new : c.fp = f /\ c.kind = kind /\ Said(f) # kind
  OBVIOUS
<1>e. Said(f) = kind => new = {}
  OBVIOUS
<1>g. Said(f) # kind => \E c \in new : c.fp = f
  <2> SUFFICES ASSUME Said(f) # kind PROVE \E c \in new : c.fp = f
    OBVIOUS
  <2>1. [kind |-> kind, fp |-> f] \in new
    OBVIOUS
  <2> QED BY <2>1
<1> HIDE DEF new
<1>4. \A r \in Scanners \ {s} : Changes(r)' = Changes(r)
  BY <1>1 DEF Changes, OpenedFPs
<1>5. \A c \in Changes(s) : c.fp # f
  BY DEF SysInv, Writes
<1>6. handed[s] = {} /\ handed' = handed
  BY DEF SysInv, Writes
<1>7. Unhanded(s)' = Unhanded(s) \cup new
  BY <1>2, <1>6 DEF Unhanded
<1>8. \A r \in Scanners \ {s} : Unhanded(r)' = Unhanded(r)
  BY <1>4, <1>6 DEF Unhanded
<1>9. \A r \in Scanners : \A c \in Changes(r) : c.fp # f
  <2> SUFFICES ASSUME NEW r \in Scanners, NEW c \in Changes(r), c.fp = f
               PROVE  FALSE
    OBVIOUS
  <2>1. scan[r].pc = "write" /\ TargetOf[f] = scan[r].target
    BY ChangeStored
  <2>2. TargetOf[f] = scan[s].target
    BY DEF SysInv, Writes
  <2>3. r = s
    BY <2>1, <2>2 DEF SysInv, Alone
  <2> QED BY <1>5, <2>3
<1>10. \A g \in FPs \ {f} : Said(g)' = Said(g)
  BY DEF Said
<1>11. Alone'
  BY AloneKept
<1>12. Writes(s)'
  <2>1. \A c \in Changes(s)' :
          TargetOf[c.fp] = scan[s].target /\ Said(c.fp)' = c.kind
    <3>1. ASSUME NEW c \in Changes(s)
          PROVE  TargetOf[c.fp] = scan[s].target /\ Said(c.fp)' = c.kind
      BY <1>5, <1>10, ChangeStored
    <3>2. ASSUME NEW c \in new
          PROVE  TargetOf[c.fp] = scan[s].target /\ Said(c.fp)' = c.kind
      BY <1>3 DEF SysInv, Writes
    <3> QED BY <1>2, <3>1, <3>2
  <2>2. ToWrite(x) \subseteq ToWrite(scan[s]) /\ x.todo \cap x.gone = {}
    BY DEF ToWrite, SysInv, Writes
  <2>3. \A g \in ToWrite(x) :
          /\ TargetOf[g] = x.target /\ db'[g] = x.snap[g]
          /\ \A c \in Changes(s)' : c.fp # g
    <3> SUFFICES ASSUME NEW g \in ToWrite(x)
                 PROVE  /\ TargetOf[g] = x.target /\ db'[g] = x.snap[g]
                        /\ \A c \in Changes(s)' : c.fp # g
      OBVIOUS
    <3>1. g # f /\ g \in ToWrite(scan[s]) /\ g \in FPs
      BY <2>2 DEF ToWrite, SysInv, IInv, TypeOK, Scan
    <3> QED BY <1>2, <1>3, <3>1 DEF SysInv, Writes
  <2> QED BY <1>1, <1>6, <2>1, <2>2, <2>3 DEF Writes, SysInv
<1>13. ASSUME NEW r \in Scanners \ {s} PROVE Writes(r)'
  <2>1. \A g \in ToWrite(scan[r]) : g \in FPs \ {f}
    <3> SUFFICES ASSUME f \in ToWrite(scan[r]) PROVE FALSE
      BY DEF ToWrite, SysInv, IInv, TypeOK, Scan
    <3>1. TargetOf[f] = scan[r].target /\ TargetOf[f] = scan[s].target
      BY DEF SysInv, Writes
    <3>2. scan[r].pc # "idle"
      BY DEF SysInv, IInv, WriterInv, ScanHolds, ToWrite
    <3> QED BY <3>1, <3>2 DEF SysInv, Alone
  <2>2. \A g \in ToWrite(scan[r]) : db'[g] = db[g]
    BY <2>1
  <2>3. \A c \in Changes(r) : Said(c.fp)' = Said(c.fp)
    BY <1>9, <1>10, ChangeStored
  <2>4. scan'[r] = scan[r] /\ Changes(r)' = Changes(r)
    BY <1>1, <1>4
  <2> QED BY <1>6, <2>2, <2>3, <2>4 DEF Writes, SysInv
<1>14. Agreed'
  <2> SUFFICES ASSUME NEW g \in FPs, NoneLost(g)',
                      \A r \in Scanners : \A c \in Unhanded(r)' : c.fp # g
               PROVE  heard'[g] = Said(g)'
    BY DEF Agreed
  <2>1. NoneLost(g)
    BY DEF NoneLost
  <2>2. \A r \in Scanners : \A c \in Unhanded(r) : c.fp # g
    BY <1>7, <1>8
  <2>3. heard[g] = Said(g)
    BY <2>1, <2>2 DEF SysInv, Known, Agreed
  <2>4. Said(g)' = Said(g)
    BY <1>g, <1>7, <1>10
  <2> QED BY <2>3, <2>4
<1>15. News'
  <2> SUFFICES ASSUME NEW r \in Scanners, NEW c \in Unhanded(r)',
                      NoneLost(c.fp)'
               PROVE  heard'[c.fp] # c.kind
    BY DEF News
  <2>1. NoneLost(c.fp)
    BY DEF NoneLost
  <2>2. CASE c \in Unhanded(r)
    BY <2>1, <2>2 DEF SysInv, Known, News
  <2>3. CASE c \in new
    <3>1. c.fp = f /\ c.kind = kind /\ Said(f) # kind
      BY <1>3, <2>3
    <3>2. \A q \in Scanners : \A d \in Unhanded(q) : d.fp # f
      BY <1>9 DEF Unhanded
    <3>3. heard[f] = Said(f)
      BY <2>1, <3>1, <3>2 DEF SysInv, Known, Agreed
    <3> QED BY <3>1, <3>3
  <2> QED BY <1>7, <1>8, <2>2, <2>3
<1>16. EndedInv'
  BY DEF EndedInv
<1> QED BY <1>11, <1>12, <1>13, <1>14, <1>15, <1>16 DEF KnownInv, Known

\* What the table says after an upsert of row r.
LEMMA SaidAfter ==
  ASSUME TypeOK, NEW f \in FPs, NEW r \in Record, Upsert(f, r)
  PROVE  /\ \A g \in FPs \ {f} : db'[g] = db[g]
         /\ Said(f)' = IF r.status = "resolved" THEN "resolved" ELSE "opened"
<1>1. /\ db' \in [FPs -> Record \cup {NoRecord}]
      /\ \A g \in FPs : g # f => db'[g] = db[g]
      /\ db'[f].status = r.status
      /\ db[f] # NoRecord => db'[f] # NoRecord
  BY UpsertKeeps DEF TypeOK
<1>2. db'[f] # NoRecord
  <2>1. CASE db[f] = NoRecord
    <3>1. db'[f] = r
      BY <2>1 DEF Upsert, TypeOK
    <3> QED BY <3>1, FindingsAssumption
  <2> QED BY <1>1, <2>1
<1> QED BY <1>1, <1>2 DEF Said

LEMMA WriteSteps ==
  ASSUME SysInv, Alive, Alive', NEW s \in Scanners, NEW f \in FPs,
         UNCHANGED <<handed, heard, lost>>,
         WriteFresh(s, f) \/ WriteGone(s, f)
  PROVE  KnownInv'
<1> DEFINE prev == scan[s].snap[f]
<1>0. /\ scan \in [Scanners -> Scan] /\ scan[s] \in Scan /\ TypeOK /\ WriterInv
      /\ ScanHolds(scan[s]) /\ prev \in Record \cup {NoRecord}
  BY DEF SysInv, IInv, TypeOK, WriterInv, Scan
<1>1. CASE WriteFresh(s, f)
  <2> DEFINE rec == IF prev = NoRecord THEN NewRecord(s, f) ELSE Merged(s, f)
             opened == IF NewlyOpen(prev)
                       THEN scan[s].opened \cup {[fp |-> f, born |-> rec.born]}
                       ELSE scan[s].opened
             x == [scan[s] EXCEPT !.todo = @ \ {f}, !.opened = opened]
  <2>1. /\ scan[s].pc = "write" /\ f \in scan[s].todo /\ Upsert(f, rec)
        /\ scan' = [scan EXCEPT ![s] = x]
    BY <1>0, <1>1 DEF WriteFresh, Scan
  <2>2. rec \in Record /\ rec.status # "resolved"
    BY <1>0, <2>1, RowsWritten
  <2>3. /\ x.pc = "write" /\ x.target = scan[s].target
        /\ x.snap = scan[s].snap /\ x.fresh = scan[s].fresh
        /\ x.todo = scan[s].todo \ {f} /\ x.gone = scan[s].gone
        /\ x.opened = opened /\ x.resolved = scan[s].resolved
    BY <1>0, <2>1 DEF Scan
  <2>4. db[f] = prev /\ f \in ToWrite(scan[s]) /\ f \notin scan[s].gone
    BY <2>1 DEF SysInv, Writes, ToWrite
  <2>5. NewlyOpen(prev) <=> Said(f) # "opened"
    BY <2>4 DEF NewlyOpen, Said
  <2>6. {e.fp : e \in opened} =
          OpenedFPs(s) \cup {g \in {f} : "opened" = "opened"
                                         /\ Said(f) # "opened"}
    <3> DEFINE entry == [fp |-> f, born |-> rec.born]
    <3>1. entry.fp = f
      OBVIOUS
    <3>2. opened = IF NewlyOpen(prev) THEN scan[s].opened \cup {entry}
                                      ELSE scan[s].opened
      OBVIOUS
    <3> HIDE DEF rec, x, prev, entry, opened
    <3>3. CASE NewlyOpen(prev)
      <4>1. {e.fp : e \in opened} = OpenedFPs(s) \cup {f}
        BY <3>1, <3>2, <3>3 DEF OpenedFPs
      <4> QED BY <2>5, <3>3, <4>1
    <3>4. CASE ~NewlyOpen(prev)
      BY <2>5, <3>2, <3>4 DEF OpenedFPs
    <3> QED BY <3>3, <3>4
  <2> HIDE DEF rec, opened, x
  <2>7. /\ \A g \in FPs \ {f} : db'[g] = db[g]
        /\ Said(f)' = "opened"
    BY <1>0, <2>1, <2>2, SaidAfter
  <2>8. f \notin ToWrite(x)
    BY <2>3, <2>4 DEF ToWrite
  <2>9. x.resolved = scan[s].resolved
          \cup {g \in {f} : "opened" = "resolved" /\ Said(f) # "opened"}
    BY <2>3
  <2> QED
    BY <2>1, <2>3, <2>4, <2>6, <2>7, <2>8, <2>9, RowWritten
<1>2. CASE WriteGone(s, f)
  <2> DEFINE rec == Missed(s, f)
             kind == IF rec.status = "resolved" THEN "resolved" ELSE "opened"
             resolved == IF rec.status = "resolved"
                         THEN scan[s].resolved \cup {f} ELSE scan[s].resolved
             x == [scan[s] EXCEPT !.gone = @ \ {f}, !.resolved = resolved]
  <2>1. /\ scan[s].pc = "write" /\ scan[s].todo = {} /\ f \in scan[s].gone
        /\ Upsert(f, rec) /\ scan' = [scan EXCEPT ![s] = x]
    BY <1>0, <1>2 DEF WriteGone, Scan
  <2>2. rec \in Record
    BY <1>0, <2>1, RowsWritten
  <2>3. /\ x.pc = "write" /\ x.target = scan[s].target
        /\ x.snap = scan[s].snap /\ x.fresh = scan[s].fresh
        /\ x.todo = scan[s].todo /\ x.gone = scan[s].gone \ {f}
        /\ x.opened = scan[s].opened /\ x.resolved = resolved
    BY <1>0, <2>1 DEF Scan
  <2>4. db[f] = prev /\ f \in ToWrite(scan[s])
    BY <2>1 DEF SysInv, Writes, ToWrite
  <2>5. Said(f) = "opened"
    BY <1>0, <2>1, <2>4 DEF ScanHolds, Said
  <2>6. resolved = scan[s].resolved
          \cup {g \in {f} : kind = "resolved" /\ Said(f) # kind}
    <3> HIDE DEF rec, x, prev
    <3> QED BY <2>5
  <2>7. kind \in {"opened", "resolved"}
    OBVIOUS
  <2> HIDE DEF rec, resolved, x
  <2>8. /\ \A g \in FPs \ {f} : db'[g] = db[g]
        /\ Said(f)' = kind
    BY <1>0, <2>1, <2>2, SaidAfter
  <2> HIDE DEF kind
  <2>9. f \notin ToWrite(x)
    BY <2>1, <2>3 DEF ToWrite
  <2>10. {e.fp : e \in x.opened} =
           OpenedFPs(s) \cup {g \in {f} : kind = "opened" /\ Said(f) # kind}
    BY <2>3, <2>5 DEF OpenedFPs
  <2>11. x.resolved = scan[s].resolved
           \cup {g \in {f} : kind = "resolved" /\ Said(f) # kind}
    BY <2>3, <2>6
  <2> QED
    BY <2>1, <2>3, <2>4, <2>7, <2>8, <2>9, <2>10, <2>11, RowWritten
<1> QED BY <1>1, <1>2

LEMMA StoreErrorStep ==
  ASSUME SysInv, NEW s \in Scanners, EngineFails(s)
  PROVE  KnownInv'
<1>1. /\ Alive /\ Alive' /\ scan' = [scan EXCEPT ![s] = Idle]
      /\ lost' = lost \cup {<<c.fp, "store">> : c \in Unhanded(s)}
      /\ UNCHANGED <<db, handed, heard>>
      /\ scan[s].pc = "list" \/ ToWrite(scan[s]) # {}
  BY DEF EngineFails, StoreFails, Alive, ToWrite
<1>2. handed[s] = {} /\ handed' = handed
  BY <1>1 DEF SysInv, Writes
<1>3. \A r \in Scanners : scan'[r] = IF r = s THEN Idle ELSE scan[r]
  BY <1>1 DEF SysInv, IInv, TypeOK
<1>4. /\ Idle.pc = "idle" /\ Idle.todo = {} /\ Idle.gone = {}
      /\ Idle.opened = {} /\ Idle.resolved = {}
  BY DEF Idle
<1>5. Changes(s)' = {}
  BY <1>3, <1>4 DEF Changes, OpenedFPs
<1>6. Writes(s)'
  BY <1>2, <1>3, <1>4, <1>5 DEF Writes, ToWrite
<1>7. \A r \in Scanners \ {s} : Writes(r)' /\ Unhanded(r)' = Unhanded(r)
  BY <1>1, <1>2, <1>3, WritesKept DEF SysInv
<1>8. \A g : NoneLost(g)' =>
        NoneLost(g) /\ \A c \in Unhanded(s) : c.fp # g
  <2>1. \A c \in Unhanded(s) :
          <<c.fp, "store">> \in lost' /\ <<c.fp, "store">>[1] = c.fp
    BY <1>1
  <2>2. lost \subseteq lost'
    BY <1>1
  <2> QED BY <2>1, <2>2 DEF NoneLost
<1>9. Unhanded(s)' = {}
  BY <1>5 DEF Unhanded
<1>10. Agreed'
  BY <1>1, <1>7, <1>8 DEF SysInv, Known, Agreed, Said
<1>11. News'
  BY <1>1, <1>7, <1>8, <1>9 DEF SysInv, Known, News
<1> QED BY <1>1, <1>4, <1>6, <1>7, <1>10, <1>11, AloneKept
        DEF KnownInv, Known, EndedInv

\* One change handed over, and taken in or dropped.
LEMMA HandOverStep ==
  ASSUME SysInv, NEW s \in Scanners, NEW c \in Changes(s), HandOver(s, c)
  PROVE  KnownInv'
<1>1. /\ Alive /\ Alive' /\ c \in Unhanded(s)
      /\ ToWrite(scan[s]) = {}
      /\ handed' = [handed EXCEPT ![s] = @ \cup {c}]
      /\ UNCHANGED <<db, scan>>
      /\ \/ Heard(c)
         \/ heard' = heard /\ \E why : lost' = lost \cup {<<c.fp, why>>}
  BY DEF HandOver, Alive, ToWrite, vars
<1>2. \A r \in Scanners :
        handed'[r] = IF r = s THEN handed[s] \cup {c} ELSE handed[r]
  BY <1>1 DEF SysInv, SysTypes
<1>3. \A r \in Scanners : Changes(r)' = Changes(r)
  BY <1>1 DEF Changes, OpenedFPs
<1>4. \A r \in Scanners : Unhanded(r)' = Unhanded(r) \ {c}
  BY <1>2, <1>3, ChangeUnique DEF Unhanded
<1>5. ASSUME NEW r \in Scanners PROVE Writes(r)'
  <2>1. CASE r = s
    <3>1. handed'[s] = handed[s] \cup {c} /\ scan'[s] = scan[s]
          /\ Changes(s)' = Changes(s) /\ Writes(s)
      BY <1>1, <1>2, <1>3 DEF SysInv
    <3>2. scan[s].pc = "write"
      BY ChangeStored
    <3> QED BY <1>1, <2>1, <3>1, <3>2 DEF Writes, Said
  <2>2. CASE r # s
    BY <1>1, <1>2, <2>2, WritesKept DEF SysInv
  <2> QED BY <2>1, <2>2
<1>6. Alone'
  BY <1>1 DEF SysInv, Alone
<1>7. \A f \in FPs : Said(f)' = Said(f)
  BY <1>1 DEF Said
<1>8. \A r \in Scanners : \A d \in Unhanded(r)' : d.fp # c.fp
  BY <1>3, <1>4, ChangeUnique DEF Unhanded
<1>9. c.fp \in FPs /\ Said(c.fp) = c.kind
  BY ChangeStored
<1>10. CASE Heard(c)
  <2>1. /\ heard'[c.fp] = c.kind
        /\ \A f \in FPs \ {c.fp} : heard'[f] = heard[f]
        /\ \A f \in FPs \ {c.fp} : NoneLost(f)' => NoneLost(f)
    BY <1>9, <1>10 DEF Heard, NoneLost, SysInv, SysTypes
  <2>2. Agreed'
    <3> SUFFICES ASSUME NEW f \in FPs, NoneLost(f)',
                        \A r \in Scanners : \A d \in Unhanded(r)' : d.fp # f
                 PROVE  heard'[f] = Said(f)'
      BY DEF Agreed
    <3>1. CASE f = c.fp
      BY <1>7, <1>9, <2>1, <3>1
    <3>2. CASE f # c.fp
      <4>1. \A r \in Scanners : \A d \in Unhanded(r) : d.fp # f
        BY <1>4, <3>2
      <4> QED BY <1>7, <2>1, <3>2, <4>1 DEF SysInv, Known, Agreed
    <3> QED BY <3>1, <3>2
  <2>3. News'
    <3> SUFFICES ASSUME NEW r \in Scanners, NEW d \in Unhanded(r)',
                        NoneLost(d.fp)'
                 PROVE  heard'[d.fp] # d.kind
      BY DEF News
    <3>1. d \in Unhanded(r) /\ d.fp # c.fp /\ d.fp \in FPs
      BY <1>4, <1>8, ChangeStored DEF Unhanded
    <3> QED BY <2>1, <3>1 DEF SysInv, Known, News
  <2> QED BY <1>1, <1>5, <1>6, <2>2, <2>3 DEF KnownInv, Known, EndedInv
<1>11. CASE heard' = heard /\ \E why : lost' = lost \cup {<<c.fp, why>>}
  <2>1. /\ ~NoneLost(c.fp)'
        /\ \A f : NoneLost(f)' => NoneLost(f) /\ f # c.fp
    <3>1. PICK why : lost' = lost \cup {<<c.fp, why>>}
      BY <1>11
    <3>2. <<c.fp, why>> \in lost' /\ <<c.fp, why>>[1] = c.fp
      BY <3>1
    <3>3. lost \subseteq lost'
      BY <3>1
    <3> QED BY <3>2, <3>3 DEF NoneLost
  <2>2. Agreed'
    <3> SUFFICES ASSUME NEW f \in FPs, NoneLost(f)',
                        \A r \in Scanners : \A d \in Unhanded(r)' : d.fp # f
                 PROVE  heard'[f] = Said(f)'
      BY DEF Agreed
    <3>1. \A r \in Scanners : \A d \in Unhanded(r) : d.fp # f
      BY <1>4, <2>1
    <3> QED BY <1>7, <1>11, <2>1, <3>1 DEF SysInv, Known, Agreed
  <2>3. News'
    BY <1>4, <1>11, <2>1 DEF SysInv, Known, News
  <2> QED BY <1>1, <1>5, <1>6, <2>2, <2>3 DEF KnownInv, Known, EndedInv
<1> QED BY <1>1, <1>10, <1>11

\* The end of the process loses what it was about to announce.
LEMMA EndStep ==
  ASSUME SysInv, NEW why, NEW more,
         UNCHANGED <<db, scan, handed, heard>>,
         lost' = lost \cup {<<f, why>> : f \in Unannounced \cup more}
  PROVE  KnownInv'
<1>1. \A f : NoneLost(f)' => NoneLost(f)
  BY DEF NoneLost
<1>2. \A s \in Scanners : Writes(s)' /\ Unhanded(s)' = Unhanded(s)
  BY WritesKept DEF SysInv
<1>3. \A s \in Scanners : \A c \in Unhanded(s) : ~NoneLost(c.fp)'
  <2> SUFFICES ASSUME NEW s \in Scanners, NEW c \in Unhanded(s)
               PROVE  ~NoneLost(c.fp)'
    OBVIOUS
  <2>1. c.fp \in Unannounced
    BY DEF Unannounced
  <2>2. <<c.fp, why>> \in lost'
    BY <2>1
  <2> QED BY <2>2 DEF NoneLost
<1>4. Alone'
  BY DEF SysInv, Alone
<1>5. Agreed' /\ News' /\ EndedInv'
  BY <1>1, <1>2, <1>3 DEF SysInv, Known, Agreed, News, EndedInv, Said
<1> QED BY <1>2, <1>4, <1>5 DEF KnownInv, Known

\* A restart: memory is gone, and what it held was lost before.
LEMMA BootStep ==
  ASSUME SysInv, Boot
  PROVE  KnownInv'
<1>1. /\ ~Alive /\ Alive'
      /\ scan' = [s \in Scanners |-> Idle] /\ handed' = [s \in Scanners |-> {}]
      /\ UNCHANGED <<db, heard, lost>>
  BY DEF Boot, Alive
<1>2. /\ Idle.pc = "idle" /\ Idle.todo = {} /\ Idle.gone = {}
      /\ Idle.opened = {} /\ Idle.resolved = {}
  BY DEF Idle
<1>3. \A s \in Scanners : Changes(s)' = {} /\ Unhanded(s)' = {}
  BY <1>1, <1>2 DEF Changes, OpenedFPs, Unhanded
<1>4. \A s \in Scanners : Writes(s)'
  BY <1>1, <1>2, <1>3 DEF Writes, ToWrite
<1>5. Alone'
  BY <1>1, <1>2 DEF Alone
<1>6. \A f \in FPs : NoneLost(f) =>
        \A s \in Scanners : \A c \in Unhanded(s) : c.fp # f
  BY <1>1 DEF SysInv, Known, EndedInv
<1>7. Agreed'
  BY <1>1, <1>6 DEF SysInv, Known, Agreed, NoneLost, Said
<1>8. News'
  BY <1>3 DEF News
<1> QED BY <1>1, <1>4, <1>5, <1>7, <1>8 DEF KnownInv, Known, EndedInv

\* What is with the dispatcher is about findings.
LEMMA UnsettledFound ==
  ASSUME DispatcherInv PROVE Unsettled \subseteq FPs
<1>1. pending \in Seq(P!Event) /\ sends \in SUBSET P!Send
  BY DEF DispatcherInv, P!IInv, P!TypeOK
<1>2. ASSUME NEW q \in Seq(P!Event) PROVE \A e \in D!Events(q) : e.fp \in FPs
  <2>1. \A i \in DOMAIN q : q[i] \in P!Event
    OBVIOUS
  <2>2. \A e \in P!Event : \E o \in Offers : e.fp = o.fp
    BY DEF P!Event
  <2>3. \A o \in Offers : o.fp \in FPs
    BY DEF Offers
  <2> QED BY <2>1, <2>2, <2>3 DEF D!Events
<1>3. \A x \in D!Sending : x.batch \in Seq(P!Event)
  BY <1>1 DEF D!Sending, P!Send
<1> QED BY <1>1, <1>2, <1>3 DEF Unsettled

LEMMA TypesStep ==
  ASSUME IInv, SysTypes, DispatcherInv, [SysNext]_sysVars
  PROVE  SysTypes'
<1> USE DEF SysTypes
<1>0. /\ \A s \in Scanners : \A c \in Changes(s) : c \in Change
      /\ \A s \in Scanners : Unhanded(s) \subseteq Changes(s)
      /\ \A c \in Change : c.fp \in FPs /\ c.kind \in {"opened", "resolved"}
  BY ChangeCases DEF IInv, Unhanded, Change
<1>1. ASSUME NEW s \in Scanners, EngineStep(s) PROVE SysTypes'
  BY <1>1 DEF EngineStep
<1>2. ASSUME NEW s \in Scanners, EngineFails(s) PROVE SysTypes'
  <2>1. {<<c.fp, "store">> : c \in Unhanded(s)}
          \subseteq FPs \X {"store", "window", "exit", "crash"}
    BY <1>0
  <2> QED BY <1>2, <2>1 DEF EngineFails
<1>3. ASSUME NEW s \in Scanners, ScanReturns(s) PROVE SysTypes'
  BY <1>3 DEF ScanReturns
<1>4. ASSUME NEW s \in Scanners, NEW c \in Changes(s), HandOver(s, c)
      PROVE  SysTypes'
  <2>1. c \in Change /\ c.fp \in FPs /\ c.kind \in {"opened", "resolved"}
    BY <1>0
  <2>2. /\ handed' = [handed EXCEPT ![s] = @ \cup {c}]
        /\ UNCHANGED <<proc, ends>>
        /\ \/ Heard(c)
           \/ /\ heard' = heard
              /\ lost' = lost \cup {<<c.fp, IF closed THEN "exit" ELSE "window">>}
    BY <1>4 DEF HandOver
  <2>3. handed' \in [Scanners -> SUBSET Change]
    BY <2>1, <2>2
  <2>4. heard' \in [FPs -> {"never", "opened", "resolved"}]
    BY <2>1, <2>2 DEF Heard
  <2>5. lost' \in SUBSET (FPs \X {"store", "window", "exit", "crash"})
    BY <2>1, <2>2 DEF Heard
  <2> QED BY <2>2, <2>3, <2>4, <2>5
<1>5. CASE DispatcherStep \/ Signal \/ MainCloses
  BY <1>5 DEF DispatcherStep, Signal, MainCloses
<1>6. Unannounced \subseteq FPs
  BY <1>0 DEF Unannounced
<1>7. CASE MainExits
  BY <1>6, <1>7 DEF MainExits
<1>8. CASE Crash
  BY <1>6, <1>8, UnsettledFound DEF Crash
<1>9. CASE Boot
  BY <1>9 DEF Boot
<1>10. CASE UNCHANGED sysVars
  BY <1>10 DEF sysVars
<1> QED
  BY <1>1, <1>2, <1>3, <1>4, <1>5, <1>7, <1>8, <1>9, <1>10 DEF SysNext

LEMMA KnownStep ==
  ASSUME SysInv, MaxOverlap = 1, [SysNext]_sysVars
  PROVE  KnownInv'
<1>1. ASSUME NEW s \in Scanners, EngineStep(s) PROVE KnownInv'
  <2>1. Alive /\ Alive' /\ UNCHANGED <<handed, heard, lost>>
    BY <1>1 DEF EngineStep, Alive
  <2> QED BY <1>1, <2>1, CollectSteps, WriteSteps DEF EngineStep
<1>2. ASSUME NEW s \in Scanners, EngineFails(s) PROVE KnownInv'
  BY <1>2, StoreErrorStep
<1>3. ASSUME NEW s \in Scanners, NEW c \in Changes(s), HandOver(s, c)
      PROVE  KnownInv'
  BY <1>3, HandOverStep
<1>4. ASSUME NEW s \in Scanners, ScanReturns(s) PROVE KnownInv'
  <2>1. /\ Alive /\ Alive' /\ Unhanded(s) = {}
        /\ scan' = [scan EXCEPT ![s] = Idle]
        /\ handed' = [handed EXCEPT ![s] = {}]
        /\ UNCHANGED <<db, heard, lost>>
    BY <1>4 DEF ScanReturns, Report, Alive
  <2>2. /\ Idle.pc = "idle" /\ Idle.todo = {} /\ Idle.gone = {}
        /\ Idle.opened = {} /\ Idle.resolved = {}
    BY DEF Idle
  <2>3. Known' /\ (\A r \in Scanners \ {s} : Writes(r)')
          /\ Changes(s)' = {} /\ handed'[s] = {} /\ scan'[s] = Idle
    BY <2>1, <2>2, QuietScan
  <2>4. Writes(s)'
    BY <2>2, <2>3 DEF Writes, ToWrite
  <2> QED BY <2>1, <2>2, <2>3, <2>4, AloneKept DEF KnownInv
<1>5. ASSUME UNCHANGED <<db, scan, handed, heard, lost>>, Alive'
      PROVE  KnownInv'
  <2>1. \A s \in Scanners : Writes(s)' /\ Unhanded(s)' = Unhanded(s)
    BY <1>5, WritesKept DEF SysInv
  <2>2. Alone'
    BY <1>5 DEF SysInv, Alone
  <2> QED BY <1>5, <2>1, <2>2, KnownKept DEF KnownInv, SysInv
<1>6. CASE DispatcherStep \/ Signal \/ MainCloses
  BY <1>5, <1>6 DEF DispatcherStep, Signal, MainCloses, Alive, vars
<1>7. CASE Crash
  BY <1>7, EndStep DEF Crash, vars
<1>8. CASE MainExits
  <2>1. lost' = lost \cup {<<f, "exit">> : f \in Unannounced \cup {}}
    BY <1>8 DEF MainExits
  <2> QED BY <1>8, <2>1, EndStep DEF MainExits, vars
<1>9. CASE Boot
  BY <1>9, BootStep
<1>10. CASE UNCHANGED sysVars
  <2>1. UNCHANGED <<db, scan, handed, heard, lost, proc>>
    BY <1>10 DEF sysVars, vars
  <2>2. CASE Alive
    BY <1>5, <2>1, <2>2 DEF Alive
  <2>3. CASE ~Alive
    <3>1. \A s \in Scanners : Writes(s)' /\ Unhanded(s)' = Unhanded(s)
      BY <2>1, WritesKept DEF SysInv
    <3>2. Alone'
      BY <2>1 DEF SysInv, Alone
    <3>3. Agreed'
      BY <2>1, <3>1 DEF SysInv, Known, Agreed, NoneLost, Said
    <3>4. News'
      BY <2>1, <3>1 DEF SysInv, Known, News, NoneLost
    <3>5. EndedInv'
      BY <2>1, <2>3, <3>1 DEF SysInv, Known, EndedInv, NoneLost
    <3> QED BY <3>1, <3>2, <3>3, <3>4, <3>5 DEF KnownInv, Known
  <2> QED BY <2>2, <2>3
<1> QED
  BY <1>1, <1>2, <1>3, <1>4, <1>6, <1>7, <1>8, <1>9, <1>10 DEF SysNext

LEMMA SysInitially == SysInit => SysInv
<1> SUFFICES ASSUME SysInit PROVE SysInv
  OBVIOUS
<1>1. /\ db = NoRecords /\ scan = [s \in Scanners |-> Idle]
      /\ handed = [s \in Scanners |-> {}] /\ proc = "up" /\ ends = 0
      /\ heard = [f \in FPs |-> "never"] /\ lost = {}
  BY DEF SysInit, Init
<1>2. IInv /\ SysTypes
  BY <1>1, InitInv DEF SysInit, SysTypes
<1>3. /\ Idle.pc = "idle" /\ Idle.todo = {} /\ Idle.gone = {}
      /\ Idle.opened = {} /\ Idle.resolved = {}
  BY DEF Idle
<1>4. \A s \in Scanners : Changes(s) = {} /\ Unhanded(s) = {}
  BY <1>1, <1>3 DEF Changes, OpenedFPs, Unhanded
<1>5. \A s \in Scanners : Writes(s)
  BY <1>1, <1>3, <1>4 DEF Writes, ToWrite
<1>6. Alone
  BY <1>1, <1>3 DEF Alone
<1>7. \A f \in FPs : heard[f] = "never" /\ Said(f) = "never"
  <2> SUFFICES ASSUME NEW f \in FPs
               PROVE  heard[f] = "never" /\ Said(f) = "never"
    OBVIOUS
  <2>1. db[f] = NoRecord /\ heard[f] = "never"
    BY <1>1 DEF NoRecords
  <2> QED BY <2>1 DEF Said
<1>8. Known
  BY <1>4, <1>7 DEF Known, Agreed, News, EndedInv
<1> QED BY <1>2, <1>5, <1>6, <1>8 DEF SysInv

LEMMA SysInvariance ==
  ASSUME MaxOverlap = 1
  PROVE  SysSpec => []SysInv
<1>1. SysInit => SysInv
  BY SysInitially
<1>2. SysInv /\ DispatcherInv /\ [SysNext]_sysVars => SysInv'
  BY TableSteps, TypesStep, KnownStep DEF SysInv, KnownInv
<1> QED BY <1>1, <1>2, TableAndDispatcher, PTL DEF SysSpec

-----------------------------------------------------------------------------
(* The theorems *)

LEMMA TypesKept == SysSpec => [](IInv /\ DispatcherInv /\ SysTypes)
<1>1. SysInit => SysTypes
  BY DEF SysInit, SysTypes, Init
<1>2. IInv /\ DispatcherInv /\ SysTypes /\ [SysNext]_sysVars => SysTypes'
  BY TypesStep
<1> QED BY <1>1, <1>2, TableAndDispatcher, PTL DEF SysSpec

\* The variables of both components and of the process keep their types,
\* through crashes and restarts.
THEOREM SystemTypeCorrect == SysSpec => []SysTypeOK
<1>1. P!TypeOK => D!TypeOK
  BY DEF P!TypeOK, D!TypeOK, P!Event, D!Event, P!Send, D!Send, P!Key, D!Key,
         P!Kind, D!Kind, P!Severity, D!Severity
<1>2. IInv /\ DispatcherInv /\ SysTypes => SysTypeOK
  BY <1>1 DEF IInv, DispatcherInv, P!IInv, SysTypes, SysTypeOK
<1> QED BY <1>2, TypesKept, PTL

\* While scans of one target do not overlap: over store errors, shutdowns,
\* crashes and any number of restarts, the last event the dispatcher accepted
\* about a finding says what the findings table says, unless the change is
\* still with a scan or was lost in one of the four ways listed (Reconcile,
\* BindScheduler, main).
THEOREM ConsumersAgree ==
  ASSUME MaxOverlap = 1
  PROVE  SysSpec => []ConsumerAgrees
<1>1. SysInv => ConsumerAgrees
  <2> SUFFICES ASSUME SysInv, NEW f \in FPs, ~InHand(f),
                      \A l \in lost : l[1] # f
               PROVE  heard[f] = Said(f)
    BY DEF ConsumerAgrees
  <2>1. NoneLost(f)
    BY DEF NoneLost
  <2>2. ASSUME NEW s \in Scanners, NEW c \in Unhanded(s) PROVE c.fp # f
    BY <2>1 DEF SysInv, Known, EndedInv, InHand, Unannounced
  <2> QED BY <2>1, <2>2 DEF SysInv, Known, Agreed
<1> QED BY <1>1, SysInvariance, PTL

\* Under the same condition no event is repeated: not by the next scan, and
\* not after a restart, which has nothing but the table to go by.
THEOREM NothingSaidTwice ==
  ASSUME MaxOverlap = 1
  PROVE  SysSpec => NothingRepeated
<1>1. SysInv => \A s \in Scanners : \A c \in Changes(s) :
        HandOver(s, c) /\ accepted' # accepted
          => heard[c.fp] # c.kind \/ \E l \in lost : l[1] = c.fp
  BY DEF SysInv, Known, News, NoneLost, HandOver
<1>2. SysInv /\ [SysNext]_sysVars =>
        [\A s \in Scanners : \A c \in Changes(s) :
           HandOver(s, c) /\ accepted' # accepted
             => heard[c.fp] # c.kind \/ \E l \in lost : l[1] = c.fp]_sysVars
  BY <1>1
<1> QED BY <1>2, SysInvariance, PTL DEF SysSpec, NothingRepeated

\* With scans overlapping or not: when main returns, every event that the
\* dispatcher accepted has been delivered or given up on every channel.
THEOREM ExitSettles == SysSpec => []ExitSettlesAll
<1>1. DispatcherInv => ExitSettlesAll
  <2> SUFFICES ASSUME P!IInv, closer = "returned",
                      NEW k \in 1..accepted, NEW c \in Channels
               PROVE  D!Settled(k, c)
    BY DEF DispatcherInv, ExitSettlesAll
  <2>1. P!Settled(k, c)
    BY P!ReturnedSettled, Premise
  <2> QED BY <2>1, SettledSame
<1> QED BY <1>1, TableAndDispatcher, PTL
=============================================================================
