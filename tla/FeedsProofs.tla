---------------------------- MODULE FeedsProofs -----------------------------
(***************************************************************************)
(* Proofs about Feeds, for any number of scans, items and CVEs, any TTL,   *)
(* timeout and page size.                                                  *)
(*                                                                         *)
(* The invariant has three parts beside the types: who is at KEV's mutex   *)
(* and since when (QueueInv), what every scan knows and how late it may be *)
(* (ScanInv), and how old the cached answers are (EntryInv).  The bound on *)
(* a Collect rests on the queue: a scan joins it within ScanTimeout of its *)
(* beginning, so whoever is before it began at most that much later.       *)
(***************************************************************************)
EXTENDS Feeds, TLAPS

InRequest == {"kev request", "kev answer"}

\* The mutex: the scans inside Get queue once each, only the first one is
\* past the lock, and nobody began much later than those behind it.
QueueInv ==
  /\ \A i, j \in DOMAIN mutex : mutex[i] = mutex[j] => i = j
  /\ \A s \in Scans :
       scan[s].pc \in InGet <=> \E i \in DOMAIN mutex : mutex[i] = s
  /\ \A s \in Scans : scan[s].pc \in InRequest => HoldsMutex(s)
  /\ \A i, j \in DOMAIN mutex :
       i < j => scan[mutex[i]].began <= scan[mutex[j]].began + ScanTimeout

\* One scan against the time and the catalogue.
Timely(x) ==
  /\ x.began <= clock
  /\ x.knew <= kev.asof
  /\ x.pc \in Answered \cup {"nvd request"} => clock <= x.began + ScanTimeout
  /\ x.pc \in Answered => x.began <= x.got /\ x.got <= clock
  /\ x.pc = "kev answer" => kev.asof <= x.got
  /\ x.pc = "epss" => x.knew <= x.kev
  /\ x.pc # "idle" => clock <= x.began + 2 * ScanTimeout

ScanInv == \A s \in Scans : Timely(scan[s])

\* One cached answer: stored soon after it was given.
Recent(e) ==
  e.asof <= clock /\ e.stored <= clock /\ e.stored <= e.asof + ScanTimeout

EntryInv ==
  /\ Recent(kev)
  /\ \A i \in Items : Recent(nvd[i])
  /\ \A c \in CVEs : Recent(epss[c])

Types ==
  /\ clock \in Nat
  /\ nvd \in [Items -> Entry]
  /\ kev \in Entry
  /\ epss \in [CVEs -> Entry]
  /\ mutex \in Seq(Scans)
  /\ scan \in [Scans -> Scan]

IInv == Types /\ QueueInv /\ ScanInv /\ EntryInv

-----------------------------------------------------------------------------
(* The queue at the mutex *)

\* Nobody joins or leaves.
LEMMA QueueStays ==
  ASSUME Types, QueueInv, mutex' = mutex,
         \A r \in Scans : /\ scan'[r].pc \in InGet <=> scan[r].pc \in InGet
                          /\ scan'[r].began = scan[r].began
                               \/ scan[r].pc \notin InGet,
         \A r \in Scans : scan'[r].pc \in InRequest => HoldsMutex(r)
  PROVE  QueueInv'
<1>1. \A i \in DOMAIN mutex : /\ mutex[i] \in Scans
                              /\ scan[mutex[i]].pc \in InGet
  BY DEF Types, QueueInv
<1>2. \A i \in DOMAIN mutex : scan'[mutex[i]].began = scan[mutex[i]].began
  BY <1>1
<1> QED
  BY <1>1, <1>2 DEF QueueInv, HoldsMutex

\* Scan s joins at the end.
LEMMA QueueGrows ==
  ASSUME Types, QueueInv, NEW s \in Scans,
         scan[s].pc \notin InGet, scan'[s].pc = "kev",
         \A r \in Scans \ {s} : scan'[r] = scan[r],
         mutex' = Append(mutex, s),
         \A r \in Scans : scan[r].began <= scan'[s].began + ScanTimeout
  PROVE  QueueInv'
<1>1. /\ Len(mutex) \in Nat
      /\ DOMAIN mutex = 1..Len(mutex)
      /\ DOMAIN mutex' = 1..(Len(mutex) + 1)
      /\ mutex'[Len(mutex) + 1] = s
      /\ \A i \in 1..Len(mutex) : mutex'[i] = mutex[i] /\ mutex[i] \in Scans
  BY DEF Types
<1>2. \A i \in 1..Len(mutex) : mutex[i] # s
  BY <1>1 DEF QueueInv
<1>3. \A i, j \in DOMAIN mutex' : mutex'[i] = mutex'[j] => i = j
  BY <1>1, <1>2 DEF QueueInv
<1>4. \A r \in Scans :
        scan'[r].pc \in InGet <=> \E i \in DOMAIN mutex' : mutex'[i] = r
  <2> TAKE r \in Scans
  <2>1. CASE r = s
    <3>1. scan'[r].pc \in InGet
      BY <2>1 DEF InGet
    <3>2. Len(mutex) + 1 \in DOMAIN mutex' /\ mutex'[Len(mutex) + 1] = r
      BY <2>1, <1>1
    <3> QED
      BY <3>1, <3>2
  <2>2. CASE r # s
    <3>1. scan[r].pc \in InGet <=> \E i \in 1..Len(mutex) : mutex[i] = r
      BY <1>1 DEF QueueInv
    <3>2. (\E i \in 1..Len(mutex) : mutex[i] = r)
            <=> \E i \in DOMAIN mutex' : mutex'[i] = r
      BY <1>1, <2>2
    <3> QED
      BY <2>2, <3>1, <3>2
  <2> QED
    BY <2>1, <2>2
<1>5. \A r \in Scans : scan'[r].pc \in InRequest => HoldsMutex(r)'
  <2> SUFFICES ASSUME NEW r \in Scans, scan'[r].pc \in InRequest
               PROVE  HoldsMutex(r)'
    OBVIOUS
  <2>1. r # s /\ HoldsMutex(r)
    BY DEF QueueInv, InRequest
  <2>2. mutex # <<>> /\ mutex[1] = r /\ 1 \in 1..Len(mutex)
    BY <2>1, <1>1 DEF HoldsMutex, Types
  <2>3. mutex' # <<>> /\ mutex'[1] = r
    BY <2>2, <1>1 DEF Types
  <2> QED
    BY <2>3 DEF HoldsMutex
<1>6. \A i, j \in DOMAIN mutex' :
        i < j => scan'[mutex'[i]].began <= scan'[mutex'[j]].began + ScanTimeout
  <2> SUFFICES ASSUME NEW i \in DOMAIN mutex', NEW j \in DOMAIN mutex', i < j
               PROVE  scan'[mutex'[i]].began
                        <= scan'[mutex'[j]].began + ScanTimeout
    OBVIOUS
  <2>1. i \in 1..Len(mutex) /\ mutex'[i] = mutex[i]
        /\ mutex[i] \in Scans \ {s}
    BY <1>1, <1>2
  <2>2. CASE j = Len(mutex) + 1
    BY <2>1, <2>2, <1>1
  <2>3. CASE j \in 1..Len(mutex)
    <3>1. mutex'[j] = mutex[j] /\ mutex[j] \in Scans \ {s}
      BY <1>1, <1>2, <2>3
    <3>2. scan[mutex[i]].began <= scan[mutex[j]].began + ScanTimeout
      BY <1>1, <2>1, <2>3 DEF QueueInv
    <3> QED
      BY <2>1, <3>1, <3>2
  <2> QED
    BY <2>2, <2>3, <1>1
<1> QED
  BY <1>3, <1>4, <1>5, <1>6 DEF QueueInv

\* The holder s leaves; the next one is only now past the lock.
LEMMA QueueShrinks ==
  ASSUME Types, QueueInv, NEW s \in Scans,
         HoldsMutex(s), scan'[s].pc \notin InGet,
         \A r \in Scans \ {s} : scan'[r] = scan[r],
         mutex' = Tail(mutex)
  PROVE  QueueInv'
<1>1. /\ Len(mutex) \in Nat /\ Len(mutex) > 0
      /\ DOMAIN mutex = 1..Len(mutex)
      /\ DOMAIN mutex' = 1..(Len(mutex) - 1)
      /\ mutex[1] = s
      /\ \A i \in DOMAIN mutex' : mutex'[i] = mutex[i + 1]
      /\ \A i \in 1..Len(mutex) : mutex[i] \in Scans
  BY DEF Types, HoldsMutex
<1>2. \A i \in DOMAIN mutex' : i + 1 \in 2..Len(mutex) /\ mutex'[i] # s
  BY <1>1 DEF QueueInv
<1>3. \A i, j \in DOMAIN mutex' : mutex'[i] = mutex'[j] => i = j
  BY <1>1 DEF QueueInv
<1>4. \A r \in Scans :
        scan'[r].pc \in InGet <=> \E i \in DOMAIN mutex' : mutex'[i] = r
  <2> TAKE r \in Scans
  <2>1. CASE r = s
    BY <2>1, <1>2
  <2>2. CASE r # s
    <3>1. scan[r].pc \in InGet <=> \E i \in 1..Len(mutex) : mutex[i] = r
      BY <1>1 DEF QueueInv
    <3>2. ASSUME NEW i \in 1..Len(mutex), mutex[i] = r
          PROVE  i - 1 \in DOMAIN mutex' /\ mutex'[i - 1] = r
      BY <1>1, <2>2, <3>2
    <3>3. ASSUME NEW i \in DOMAIN mutex', mutex'[i] = r
          PROVE  i + 1 \in 1..Len(mutex) /\ mutex[i + 1] = r
      BY <1>1, <3>3
    <3> QED
      BY <2>2, <3>1, <3>2, <3>3
  <2> QED
    BY <2>1, <2>2
<1>5. \A r \in Scans : scan'[r].pc \notin InRequest
  <2> SUFFICES ASSUME NEW r \in Scans, scan'[r].pc \in InRequest
               PROVE  FALSE
    OBVIOUS
  <2>1. r # s
    BY DEF InRequest, InGet
  <2>2. HoldsMutex(r)
    BY <2>1 DEF QueueInv
  <2> QED
    BY <2>1, <2>2 DEF HoldsMutex
<1>6. \A i, j \in DOMAIN mutex' :
        i < j => scan'[mutex'[i]].began <= scan'[mutex'[j]].began + ScanTimeout
  <2> SUFFICES ASSUME NEW i \in DOMAIN mutex', NEW j \in DOMAIN mutex', i < j
               PROVE  scan'[mutex'[i]].began
                        <= scan'[mutex'[j]].began + ScanTimeout
    OBVIOUS
  <2>1. /\ i + 1 \in DOMAIN mutex /\ j + 1 \in DOMAIN mutex /\ i + 1 < j + 1
        /\ mutex'[i] = mutex[i + 1] /\ mutex'[j] = mutex[j + 1]
        /\ mutex[i + 1] \in Scans \ {s} /\ mutex[j + 1] \in Scans \ {s}
    BY <1>1, <1>2
  <2>2. scan[mutex[i + 1]].began <= scan[mutex[j + 1]].began + ScanTimeout
    BY <2>1 DEF QueueInv
  <2> QED
    BY <2>1, <2>2
<1> QED
  BY <1>3, <1>4, <1>5, <1>6 DEF QueueInv

-----------------------------------------------------------------------------
(* The steps *)

\* What the arithmetic needs of the constants.
LEMMA Timeout == ScanTimeout \in Nat /\ ScanTimeout > 0
BY FeedsAssumption

\* An answer that came in time is stored soon after it was given.
LEMMA StoredInTime ==
  ASSUME NEW began \in Nat, NEW got \in Nat, NEW now \in Nat,
         began <= got, now <= began + ScanTimeout
  PROVE  now <= got + ScanTimeout
BY Timeout

LEMMA StoredAnswer ==
  ASSUME NEW began \in Nat, NEW got \in Nat, clock \in Nat, NEW e,
         began <= got, got <= clock, clock <= began + ScanTimeout,
         clock' = clock, e = [asof |-> got, stored |-> clock]
  PROVE  e.asof <= clock' /\ e.stored <= clock'
           /\ e.stored <= e.asof + ScanTimeout
<1>1. e.asof = got /\ e.stored = clock
  OBVIOUS
<1> QED
  BY <1>1, StoredInTime

LEMMA TwoTimeouts ==
  ASSUME NEW began \in Nat, NEW now \in Nat, now <= began + ScanTimeout
  PROVE  now <= began + 2 * ScanTimeout
BY Timeout

\* The idle scan, and what follows NVD's answer.
LEMMA IdleType ==
  /\ Idle \in Scan
  /\ Idle.pc = "idle" /\ Idle.began = 0 /\ Idle.knew = 0
BY FeedsAssumption DEF Idle, Scan

LEMMA TimelyIdle ==
  ASSUME clock \in Nat, kev.asof \in Nat
  PROVE  Timely(Idle)
<1>1. Idle.pc \notin Answered \cup {"nvd request", "kev answer", "epss"}
        /\ Idle.pc = "idle"
  BY IdleType DEF Answered
<1>2. Idle.began <= clock /\ Idle.knew <= kev.asof
  BY IdleType
<1> QED
  BY <1>1, <1>2, Zenon DEF Timely

LEMMA IdleStaysTimely ==
  ASSUME NEW s \in Scans, clock' \in Nat, kev'.asof \in Nat, scan'[s] = Idle
  PROVE  Timely(scan[s])'
<1>1. Idle.pc \notin Answered \cup {"nvd request", "kev answer", "epss"}
        /\ Idle.pc = "idle"
  BY IdleType DEF Answered
<1>2. scan'[s].began <= clock' /\ scan'[s].knew <= kev'.asof
  BY IdleType
<1> QED
  BY <1>1, <1>2, Zenon DEF Timely

LEMMA HasCVEsType ==
  ASSUME NEW x \in Scan
  PROVE  /\ HasCVEs(x) \in Scan
         /\ HasCVEs(x) = Idle
              \/ /\ HasCVEs(x).pc = "kev"
                 /\ HasCVEs(x).began = x.began /\ HasCVEs(x).knew = x.knew
BY IdleType DEF HasCVEs, Scan

LEMMA Initially == Init => IInv
<1> SUFFICES ASSUME Init PROVE IInv
  OBVIOUS
<1>1. \A s \in Scans : scan[s] = Idle
  BY DEF Init
<1>2. Types
  BY IdleType DEF Init, Types, Entry, NoEntry
<1>3. QueueInv
  <2>1. DOMAIN mutex = {}
    BY DEF Init
  <2> QED
    BY <1>1, <2>1, IdleType DEF QueueInv, InGet, InRequest
<1>4. ScanInv
  <2>1. clock \in Nat /\ kev.asof \in Nat
    BY <1>2 DEF Types, Entry
  <2> QED
    BY <1>1, <2>1, TimelyIdle DEF ScanInv
<1>5. EntryInv
  BY Timeout DEF Init, EntryInv, Recent, NoEntry
<1> QED
  BY <1>2, <1>3, <1>4, <1>5 DEF IInv

\* What a step of scan s leaves of the others.
LEMMA OthersTimely ==
  ASSUME ScanInv, NEW s \in Scans, clock' = clock, kev' = kev,
         \A r \in Scans \ {s} : scan'[r] = scan[r],
         Timely(scan[s])'
  PROVE  ScanInv'
BY DEF ScanInv, Timely

\* Begin and NvdStores: the scan goes for the mutex, or not.
LEMMA Joining ==
  ASSUME IInv, NEW s \in Scans, NEW x \in Scan,
         clock' = clock, kev' = kev,
         scan[s].pc \notin InGet, scan' = [scan EXCEPT ![s] = x],
         x.pc \notin InRequest, x.pc \in InGet => x.pc = "kev",
         x.pc = "kev" => clock <= x.began + ScanTimeout,
         JoinMutex(s)
  PROVE  QueueInv' /\ mutex' \in Seq(Scans)
<1>1. scan'[s] = x /\ \A r \in Scans \ {s} : scan'[r] = scan[r]
  BY DEF IInv, Types
<1>2. CASE x.pc = "kev"
  <2>1. mutex' = Append(mutex, s)
    BY <1>1, <1>2 DEF JoinMutex
  <2>2. \A r \in Scans : scan[r].began <= x.began + ScanTimeout
    <3> TAKE r \in Scans
    <3>1. scan[r].began \in Nat /\ x.began \in Nat /\ clock \in Nat
      BY DEF IInv, Types, Scan
    <3>2. scan[r].began <= clock
      BY DEF IInv, ScanInv, Timely
    <3> QED
      BY <1>2, <3>1, <3>2, Timeout
  <2> QED
    BY <1>1, <1>2, <2>1, <2>2, QueueGrows DEF IInv, Types
<1>3. CASE x.pc # "kev"
  <2>1. mutex' = mutex
    BY <1>1, <1>3 DEF JoinMutex
  <2>2. \A r \in Scans : /\ scan'[r].pc \in InGet <=> scan[r].pc \in InGet
                         /\ scan'[r].began = scan[r].began
                              \/ scan[r].pc \notin InGet
    BY <1>1, <1>3
  <2>3. \A r \in Scans : scan'[r].pc \in InRequest => HoldsMutex(r)
    BY <1>1 DEF IInv, QueueInv
  <2> QED
    BY <2>1, <2>2, <2>3, QueueStays DEF IInv, Types
<1> QED
  BY <1>2, <1>3

LEMMA BeginKeeps ==
  ASSUME IInv, NEW s \in Scans, NEW i \in Items, Begin(s, i)
  PROVE  IInv'
<1> DEFINE x0 == [Idle EXCEPT !.item = i, !.began = clock, !.knew = kev.asof]
           x  == IF Fresh(nvd[i]) THEN HasCVEs(x0)
                                  ELSE [x0 EXCEPT !.pc = "nvd request"]
<1>1. /\ scan[s].pc = "idle"
      /\ scan' = [scan EXCEPT ![s] = x]
      /\ JoinMutex(s)
      /\ clock' = clock /\ nvd' = nvd /\ kev' = kev /\ epss' = epss
  BY DEF Begin
<1>2. x0 \in Scan /\ x0.began = clock /\ x0.knew = kev.asof
  BY IdleType DEF IInv, Types, Scan, Entry
<1>3. /\ x \in Scan
      /\ \/ x = Idle
         \/ /\ x.pc \in {"kev", "nvd request"}
            /\ x.began = clock /\ x.knew = kev.asof
  BY <1>2, HasCVEsType DEF Scan, Asked
<1> HIDE DEF x
<1>4. clock \in Nat /\ kev.asof \in Nat
  BY DEF IInv, Types, Entry
<1>5. QueueInv' /\ mutex' \in Seq(Scans)
  <2>1. x.pc = "kev" => clock <= x.began + ScanTimeout
    BY <1>3, <1>4, IdleType, Timeout
  <2> QED
    BY <1>1, <1>3, <2>1, IdleType, Joining DEF InGet, InRequest
<1>6. scan' \in [Scans -> Scan]
  BY <1>1, <1>3 DEF IInv, Types
<1>7. scan'[s] = x /\ \A r \in Scans \ {s} : scan'[r] = scan[r]
  BY <1>1 DEF IInv, Types
<1>8. Timely(scan[s])'
  <2>1. CASE x = Idle
    BY <1>1, <1>4, <1>7, <2>1, IdleStaysTimely
  <2>2. CASE x.pc \in {"kev", "nvd request"}
               /\ x.began = clock /\ x.knew = kev.asof
    <3>1. clock <= clock /\ kev.asof <= kev.asof
      BY <1>4
    <3>2. clock <= clock + ScanTimeout /\ clock <= clock + 2 * ScanTimeout
      BY <1>4, Timeout
    <3>3. clock <= x.began + ScanTimeout /\ clock <= x.began + 2 * ScanTimeout
      BY <2>2, <3>2, Zenon
    <3>4. x.pc \notin Answered \cup {"kev answer", "epss"}
      BY <2>2 DEF Answered
    <3> QED
      BY <1>1, <1>7, <2>2, <3>1, <3>3, <3>4, Zenon DEF Timely
  <2> QED
    BY <1>3, <2>1, <2>2
<1>9. ScanInv'
  BY <1>1, <1>7, <1>8, OthersTimely DEF IInv
<1> QED
  BY <1>1, <1>5, <1>6, <1>9 DEF IInv, Types, EntryInv, Recent

LEMMA NvdStoresKeeps ==
  ASSUME IInv, NEW s \in Scans, NvdStores(s)
  PROVE  IInv'
<1> DEFINE x == HasCVEs(scan[s])
<1>1. /\ scan[s].pc = "nvd answer" /\ scan[s] \in Scan
      /\ scan' = [scan EXCEPT ![s] = x]
      /\ JoinMutex(s)
      /\ clock' = clock /\ kev' = kev /\ epss' = epss
  BY DEF NvdStores, IInv, Types
<1>2. /\ x \in Scan
      /\ \/ x = Idle
         \/ x.pc = "kev" /\ x.began = scan[s].began /\ x.knew = scan[s].knew
  BY <1>1, HasCVEsType
<1> HIDE DEF x
<1>3. /\ clock \in Nat /\ kev.asof \in Nat
      /\ scan[s].began \in Nat /\ scan[s].got \in Nat
  BY <1>1 DEF IInv, Types, Entry, Scan
<1>4. /\ scan[s].began <= clock /\ clock <= scan[s].began + ScanTimeout
      /\ scan[s].began <= scan[s].got /\ scan[s].got <= clock
      /\ scan[s].knew <= kev.asof
  BY <1>1 DEF IInv, ScanInv, Timely, Answered
<1>5. QueueInv' /\ mutex' \in Seq(Scans)
  BY <1>1, <1>2, <1>4, IdleType, Joining DEF InGet, InRequest
<1>6. scan' \in [Scans -> Scan]
  BY <1>1, <1>2 DEF IInv, Types
<1>7. scan'[s] = x /\ \A r \in Scans \ {s} : scan'[r] = scan[r]
  BY <1>1 DEF IInv, Types
<1>8. Timely(scan[s])'
  <2>1. CASE x = Idle
    BY <1>1, <1>3, <1>7, <2>1, IdleStaysTimely
  <2>2. CASE x.pc = "kev" /\ x.began = scan[s].began /\ x.knew = scan[s].knew
    <3>1. clock <= x.began + 2 * ScanTimeout
      BY <1>3, <1>4, <2>2, Timeout
    <3> QED
      BY <1>1, <1>4, <1>7, <2>2, <3>1 DEF Timely, Answered
  <2> QED
    BY <1>2, <2>1, <2>2
<1>9. ScanInv'
  BY <1>1, <1>7, <1>8, OthersTimely DEF IInv
<1>10. nvd' = [nvd EXCEPT ![scan[s].item] =
                 [asof |-> scan[s].got, stored |-> clock]]
  BY DEF NvdStores
<1>11. nvd' \in [Items -> Entry]
  BY <1>1, <1>3, <1>10 DEF IInv, Types, Entry, Scan
<1>12. \A i \in Items : Recent(nvd[i])'
  <2> TAKE i \in Items
  <2>1. CASE i = scan[s].item
    <3>1. nvd'[i] = [asof |-> scan[s].got, stored |-> clock]
      BY <1>10, <2>1 DEF IInv, Types
    <3> QED
      BY <1>1, <1>3, <1>4, <3>1, StoredAnswer DEF Recent
  <2>2. CASE i # scan[s].item
    BY <1>1, <1>10, <2>2 DEF IInv, Types, EntryInv, Recent
  <2> QED
    BY <2>1, <2>2
<1> QED
  BY <1>1, <1>5, <1>6, <1>9, <1>11, <1>12 DEF IInv, Types, EntryInv, Recent

\* A step of s outside the mutex that stores nothing.
LEMMA QuietStep ==
  ASSUME IInv, NEW s \in Scans, NEW x \in Scan,
         clock' = clock, nvd' = nvd, kev' = kev, epss' = epss, mutex' = mutex,
         scan' = [scan EXCEPT ![s] = x],
         x.pc \in InGet <=> scan[s].pc \in InGet,
         scan[s].pc \in InGet => x.began = scan[s].began,
         x.pc \in InRequest => HoldsMutex(s),
         Timely(x)
  PROVE  IInv'
<1>1. scan'[s] = x /\ \A r \in Scans \ {s} : scan'[r] = scan[r]
  BY DEF IInv, Types
<1>2. QueueInv'
  <2>1. \A r \in Scans : /\ scan'[r].pc \in InGet <=> scan[r].pc \in InGet
                         /\ scan'[r].began = scan[r].began
                              \/ scan[r].pc \notin InGet
    BY <1>1
  <2>2. \A r \in Scans : scan'[r].pc \in InRequest => HoldsMutex(r)
    BY <1>1 DEF IInv, QueueInv
  <2> QED
    BY <2>1, <2>2, QueueStays DEF IInv
<1>3. Timely(scan[s])'
  BY <1>1 DEF Timely
<1>4. ScanInv'
  BY <1>1, <1>3, OthersTimely DEF IInv
<1> QED
  BY <1>2, <1>4 DEF IInv, Types, EntryInv, Recent

\* Get returns what is cached by then.
LEMMA Leaving ==
  ASSUME IInv, NEW s \in Scans, NEW asof \in Nat,
         scan[s].pc \in InGet, HoldsMutex(s), KevReturns(s, asof)
  PROVE  /\ QueueInv'
         /\ mutex' \in Seq(Scans)
         /\ scan' \in [Scans -> Scan]
         /\ \A r \in Scans \ {s} : scan'[r] = scan[r]
         /\ scan'[s].pc = "epss" /\ scan'[s].kev = asof
         /\ scan'[s].began = scan[s].began /\ scan'[s].knew = scan[s].knew
<1>1. /\ scan' = [scan EXCEPT ![s].pc = "epss", ![s].got = 0, ![s].kev = asof]
      /\ mutex' = Tail(mutex)
  BY DEF KevReturns
<1>2. /\ scan' \in [Scans -> Scan]
      /\ \A r \in Scans \ {s} : scan'[r] = scan[r]
      /\ scan'[s].pc = "epss" /\ scan'[s].kev = asof
      /\ scan'[s].began = scan[s].began /\ scan'[s].knew = scan[s].knew
  BY <1>1 DEF IInv, Types, Scan
<1>3. QueueInv'
  BY <1>1, <1>2, QueueShrinks DEF IInv, InGet
<1>4. mutex' \in Seq(Scans)
  BY <1>1 DEF IInv, Types, HoldsMutex
<1> QED
  BY <1>2, <1>3, <1>4

\* KevHit and KevErrs: the catalogue stays.
LEMMA KevKeepsCatalogue ==
  ASSUME IInv, NEW s \in Scans, scan[s].pc \in InGet, HoldsMutex(s),
         KevReturns(s, kev.asof),
         clock' = clock, nvd' = nvd, kev' = kev, epss' = epss
  PROVE  IInv'
<1>1. kev.asof \in Nat
  BY DEF IInv, Types, Entry
<1>2. /\ QueueInv' /\ mutex' \in Seq(Scans) /\ scan' \in [Scans -> Scan]
      /\ \A r \in Scans \ {s} : scan'[r] = scan[r]
      /\ scan'[s].pc = "epss" /\ scan'[s].kev = kev.asof
      /\ scan'[s].began = scan[s].began /\ scan'[s].knew = scan[s].knew
  BY <1>1, Leaving
<1>3. Timely(scan[s]) /\ scan[s].pc # "idle"
  BY DEF IInv, ScanInv, InGet
<1>4. Timely(scan[s])'
  BY <1>2, <1>3 DEF Timely, Answered
<1>5. ScanInv'
  BY <1>2, <1>4, OthersTimely DEF IInv
<1> QED
  BY <1>2, <1>5 DEF IInv, Types, EntryInv, Recent

LEMMA KevStoresKeeps ==
  ASSUME IInv, NEW s \in Scans, KevStores(s)
  PROVE  IInv'
<1>1. /\ scan[s].pc = "kev answer" /\ scan[s].pc \in InGet
      /\ kev' = [asof |-> scan[s].got, stored |-> clock]
      /\ KevReturns(s, scan[s].got)
      /\ clock' = clock /\ nvd' = nvd /\ epss' = epss
  BY DEF KevStores, InGet
<1>2. /\ scan[s].got \in Nat /\ scan[s].began \in Nat /\ clock \in Nat
      /\ kev.asof \in Nat
      /\ \A r \in Scans : scan[r].knew \in Nat
  BY DEF IInv, Types, Scan, Entry
<1>3. HoldsMutex(s)
  BY <1>1 DEF IInv, QueueInv, InRequest
<1>4. /\ QueueInv' /\ mutex' \in Seq(Scans) /\ scan' \in [Scans -> Scan]
      /\ \A r \in Scans \ {s} : scan'[r] = scan[r]
      /\ scan'[s].pc = "epss" /\ scan'[s].kev = scan[s].got
      /\ scan'[s].began = scan[s].began /\ scan'[s].knew = scan[s].knew
  BY <1>1, <1>2, <1>3, Leaving
<1>5. /\ kev.asof <= scan[s].got /\ scan[s].got <= clock
      /\ scan[s].began <= scan[s].got
      /\ clock <= scan[s].began + ScanTimeout
  BY <1>1 DEF IInv, ScanInv, Timely, Answered
<1>6. \A r \in Scans : scan[r].knew <= kev'.asof
  <2> TAKE r \in Scans
  <2>1. scan[r].knew <= kev.asof
    BY DEF IInv, ScanInv, Timely
  <2>2. kev'.asof = scan[s].got
    BY <1>1
  <2>3. scan[r].knew \in Nat /\ kev.asof \in Nat /\ scan[s].got \in Nat
    BY <1>2
  <2>4. kev.asof <= scan[s].got
    BY <1>5
  <2> QED
    BY <2>1, <2>2, <2>3, <2>4
<1>7. \A r \in Scans \ {s} : scan[r].pc # "kev answer"
  BY <1>3 DEF IInv, QueueInv, InRequest, HoldsMutex
<1>8. \A r \in Scans \ {s} : Timely(scan[r])'
  BY <1>1, <1>4, <1>6, <1>7 DEF IInv, ScanInv, Timely
<1>9. Timely(scan[s])'
  BY <1>1, <1>2, <1>4, <1>5, <1>6 DEF IInv, ScanInv, Timely, Answered
<1>10. Recent(kev)' /\ kev' \in Entry
  <2>1. kev'.asof = scan[s].got /\ kev'.stored = clock
    BY <1>1
  <2>2. clock <= scan[s].got + ScanTimeout /\ clock <= clock
    BY <1>2, <1>5, StoredInTime
  <2>3. kev' \in Entry
    BY <1>1, <1>2 DEF Entry
  <2> QED
    BY <1>1, <1>5, <2>1, <2>2, <2>3, Zenon DEF Recent
<1> QED
  BY <1>1, <1>4, <1>8, <1>9, <1>10
  DEF IInv, Types, ScanInv, EntryInv, Recent

LEMMA EpssStoresKeeps ==
  ASSUME IInv, NEW s \in Scans, EpssStores(s)
  PROVE  IInv'
<1> DEFINE x == [scan[s] EXCEPT !.pc = "page", !.got = 0,
                   !.missing = @ \ scan[s].page, !.page = {}]
<1>1. /\ scan[s].pc = "page answer" /\ scan[s] \in Scan
      /\ scan' = [scan EXCEPT ![s] = x]
      /\ clock' = clock /\ nvd' = nvd /\ kev' = kev /\ mutex' = mutex
      /\ epss' = [c \in CVEs |-> IF c \in scan[s].page
                                 THEN [asof |-> scan[s].got, stored |-> clock]
                                 ELSE epss[c]]
  BY DEF EpssStores, IInv, Types
<1>2. /\ x \in Scan /\ x.pc = "page"
      /\ x.began = scan[s].began /\ x.knew = scan[s].knew
  BY <1>1 DEF Scan
<1> HIDE DEF x
<1>3. clock \in Nat /\ scan[s].began \in Nat /\ scan[s].got \in Nat
  BY <1>1 DEF IInv, Types, Scan
<1>4. /\ Timely(scan[s])
      /\ scan[s].began <= scan[s].got /\ scan[s].got <= clock
      /\ clock <= scan[s].began + ScanTimeout
  BY <1>1 DEF IInv, ScanInv, Timely, Answered
<1>5. scan'[s] = x /\ \A r \in Scans \ {s} : scan'[r] = scan[r]
  BY <1>1 DEF IInv, Types
<1>6. QueueInv'
  <2>1. \A r \in Scans : /\ scan'[r].pc \in InGet <=> scan[r].pc \in InGet
                         /\ scan'[r].began = scan[r].began
                              \/ scan[r].pc \notin InGet
    BY <1>1, <1>2, <1>5 DEF InGet
  <2>2. \A r \in Scans : scan'[r].pc \in InRequest => HoldsMutex(r)
    BY <1>2, <1>5 DEF IInv, QueueInv, InRequest
  <2> QED
    BY <1>1, <2>1, <2>2, QueueStays DEF IInv
<1>7. Timely(scan[s])'
  BY <1>1, <1>2, <1>4, <1>5 DEF Timely, Answered
<1>8. ScanInv'
  BY <1>1, <1>5, <1>7, OthersTimely DEF IInv
<1>9. epss' \in [CVEs -> Entry]
  BY <1>1, <1>3 DEF IInv, Types, Entry
<1>10. \A c \in CVEs : Recent(epss[c])'
  <2> TAKE c \in CVEs
  <2>1. CASE c \in scan[s].page
    <3>1. epss'[c] = [asof |-> scan[s].got, stored |-> clock]
      BY <1>1, <2>1
    <3> QED
      BY <1>1, <1>3, <1>4, <3>1, StoredAnswer DEF Recent
  <2>2. CASE c \notin scan[s].page
    BY <1>1, <2>2 DEF IInv, EntryInv, Recent
  <2> QED
    BY <2>1, <2>2
<1> QED
  BY <1>1, <1>2, <1>6, <1>8, <1>9, <1>10
  DEF IInv, Types, EntryInv, Recent

\* Time passes: only the waiting last, and they only as long as the first in
\* the queue, who began at most ScanTimeout after them.
LEMMA TickKeeps ==
  ASSUME IInv, Tick
  PROVE  IInv'
<1>1. /\ clock' = clock + 1 /\ \A s \in Scans : MayLast(s)
      /\ nvd' = nvd /\ kev' = kev /\ epss' = epss
      /\ mutex' = mutex /\ scan' = scan
  BY DEF Tick
<1>2. /\ clock \in Nat
      /\ \A s \in Scans : scan[s].began \in Nat /\ scan[s].got \in Nat
  BY DEF IInv, Types, Scan
<1>3. QueueInv'
  BY <1>1 DEF IInv, QueueInv, HoldsMutex
<1>4. ASSUME NEW s \in Scans, scan[s].pc \in Asked \cup Answered
      PROVE  clock < scan[s].began + ScanTimeout
  BY <1>1, <1>4 DEF MayLast, Deadline, Asked, Answered
<1>5. ASSUME NEW s \in Scans, scan[s].pc \in InGet
      PROVE  clock < scan[s].began + 2 * ScanTimeout
  <2> DEFINE h == mutex[1]
  <2>1. PICK i \in DOMAIN mutex : mutex[i] = s
    BY <1>5 DEF IInv, QueueInv
  <2>2. /\ 1 \in DOMAIN mutex /\ h \in Scans /\ mutex # <<>> /\ Head(mutex) = h
        /\ 1 < i \/ i = 1
    BY <2>1 DEF IInv, Types
  <2>3. scan[h].pc \in InGet
    BY <2>2 DEF IInv, QueueInv
  <2>4. scan[h].pc \in Asked \cup Answered
    BY <1>1, <2>2, <2>3 DEF MayLast, HoldsMutex, InGet, Asked, Answered
  <2>5. clock < scan[h].began + ScanTimeout
    BY <1>4, <2>2, <2>4
  <2>6. scan[h].began <= scan[s].began + ScanTimeout
    <3>1. CASE 1 < i
      BY <2>1, <2>2, <3>1 DEF IInv, QueueInv
    <3>2. CASE i = 1
      BY <1>2, <2>1, <2>2, <3>2, Timeout
    <3> QED
      BY <2>2, <3>1, <3>2
  <2> QED
    BY <1>2, <2>2, <2>5, <2>6, Timeout
<1>6. \A s \in Scans : Timely(scan[s])'
  <2> TAKE s \in Scans
  <2>1. Timely(scan[s])
    BY DEF IInv, ScanInv
  <2>2. CASE scan[s].pc = "idle"
    BY <1>1, <1>2, <2>1, <2>2 DEF Timely, Answered
  <2>3. CASE scan[s].pc = "kev"
    <3>1. clock < scan[s].began + 2 * ScanTimeout
      BY <1>5, <2>3 DEF InGet
    <3>2. scan[s].began + 2 * ScanTimeout \in Nat
      BY <1>2, Timeout
    <3>3. clock + 1 <= scan[s].began + 2 * ScanTimeout
      BY <1>2, <3>1, <3>2
    <3>4. scan[s].pc \notin Answered
      BY <2>3 DEF Answered
    <3> QED
      BY <1>1, <1>2, <2>1, <2>3, <3>3, <3>4 DEF Timely
  <2>4. CASE scan[s].pc \in Asked \cup Answered
    <3>1. clock + 1 <= scan[s].began + ScanTimeout
      BY <1>2, <1>4, <2>4, Timeout
    <3>2. clock + 1 <= scan[s].began + 2 * ScanTimeout
      BY <1>2, <3>1, Timeout
    <3>3. /\ scan[s].began <= clock => scan[s].began <= clock + 1
          /\ scan[s].got <= clock => scan[s].got <= clock + 1
      BY <1>2
    <3> QED
      BY <1>1, <2>1, <3>1, <3>2, <3>3, Zenon DEF Timely
  <2> QED
    BY <1>1, <2>2, <2>3, <2>4 DEF MayLast
<1>7. EntryInv'
  BY <1>1, <1>2 DEF IInv, Types, EntryInv, Recent, Entry
<1> QED
  BY <1>1, <1>2, <1>3, <1>6, <1>7 DEF IInv, Types, ScanInv

LEMMA StepKeeps == IInv /\ [Next]_vars => IInv'
<1> SUFFICES ASSUME IInv, [Next]_vars PROVE IInv'
  OBVIOUS
<1>1. CASE UNCHANGED vars
  BY <1>1 DEF vars, IInv, Types, QueueInv, HoldsMutex, ScanInv, Timely,
              EntryInv, Recent
<1>2. CASE Tick
  BY <1>2, TickKeeps
<1>3. ASSUME NEW s \in Scans, FeedAnswers(s)
      PROVE  IInv'
  <2> DEFINE x == [scan[s] EXCEPT !.pc = AnswerTo(@), !.got = clock]
  <2>1. /\ scan[s] \in Scan /\ scan[s].pc \in Asked /\ clock \in Nat
        /\ kev.asof \in Nat
        /\ clock < scan[s].began + ScanTimeout
        /\ scan' = [scan EXCEPT ![s] = x]
        /\ UNCHANGED <<clock, nvd, kev, epss, mutex>>
    BY <1>3 DEF FeedAnswers, Deadline, IInv, Types, Entry
  <2>2. AnswerTo(scan[s].pc) \in Answered
    BY <2>1 DEF Asked, Answered, AnswerTo
  <2>3. /\ x \in Scan /\ x.pc = AnswerTo(scan[s].pc) /\ x.got = clock
        /\ x.began = scan[s].began /\ x.knew = scan[s].knew
        /\ x.kev = scan[s].kev
    BY <2>1, <2>2 DEF Scan
  <2> HIDE DEF x
  <2>4. /\ x.pc \in InGet <=> scan[s].pc \in InGet
        /\ x.pc \in InRequest => scan[s].pc \in InRequest
        /\ x.pc # "idle" /\ x.pc # "epss" /\ scan[s].pc # "idle"
    BY <2>1, <2>3 DEF Asked, AnswerTo, InGet, InRequest
  <2>5. Timely(scan[s])
    BY DEF IInv, ScanInv
  <2>6. /\ clock <= scan[s].began + ScanTimeout /\ clock <= clock
        /\ kev.asof <= clock
    BY <2>1, Timeout DEF IInv, EntryInv, Recent, Scan
  <2>7. Timely(x)
    BY <2>3, <2>4, <2>5, <2>6, Zenon DEF Timely
  <2>8. x.pc \in InRequest => HoldsMutex(s)
    BY <2>4 DEF IInv, QueueInv
  <2> QED
    BY <2>1, <2>3, <2>4, <2>7, <2>8, QuietStep
<1>4. ASSUME NEW s \in Scans, CollectStep(s)
      PROVE  IInv'
  <2> DEFINE free == /\ UNCHANGED <<clock, nvd, kev, epss, mutex>>
                     /\ scan[s].pc \notin InGet
  <2>1. /\ scan[s] \in Scan /\ Timely(scan[s])
        /\ clock \in Nat /\ kev.asof \in Nat /\ scan[s].kev \in Nat
    BY DEF IInv, ScanInv, Types, Scan, Entry
  \* The steps that end the Collect.
  <2>2. ASSUME free, scan' = [scan EXCEPT ![s] = Idle]
        PROVE  IInv'
    <3>1. Timely(Idle)
      BY <2>1, TimelyIdle
    <3>2. Idle.pc \notin InGet /\ Idle.pc \notin InRequest
      BY IdleType DEF InGet, InRequest
    <3> QED
      BY <2>2, <3>1, <3>2, IdleType, QuietStep
  \* The steps inside Scores.
  <2>3. ASSUME free, NEW x \in Scan, scan' = [scan EXCEPT ![s] = x],
               x.pc \in {"page", "page request"}, scan[s].pc # "idle",
               x.began = scan[s].began,
               x.knew = scan[s].knew \/ x.knew = 0
        PROVE  IInv'
    <3>1. 0 <= kev.asof
      BY <2>1
    <3>2. x.pc \notin Answered \cup {"nvd request", "kev answer", "epss", "idle"}
      BY <2>3 DEF Answered
    <3>3. Timely(x)
      BY <2>1, <2>3, <3>1, <3>2, Zenon DEF Timely
    <3>4. x.pc \notin InGet /\ x.pc \notin InRequest
      BY <2>3 DEF InGet, InRequest
    <3> QED
      BY <2>3, <3>3, <3>4, QuietStep
  <2>4. CASE \E i \in Items : Begin(s, i)
    BY <2>4, BeginKeeps
  <2>5. CASE NvdStores(s)
    BY <2>5, NvdStoresKeeps
  <2>6. CASE NvdErrs(s)
    BY <2>2, <2>6 DEF NvdErrs, InGet
  <2>7. CASE KevHit(s)
    BY <2>7, KevKeepsCatalogue DEF KevHit, InGet
  <2>8. CASE KevMiss(s)
    <3> DEFINE x == [scan[s] EXCEPT !.pc = "kev request"]
    <3>1. /\ UNCHANGED <<clock, nvd, kev, epss, mutex>>
          /\ scan[s].pc = "kev" /\ HoldsMutex(s)
          /\ scan' = [scan EXCEPT ![s] = x]
      BY <2>8 DEF KevMiss
    <3>2. /\ x \in Scan /\ x.pc = "kev request" /\ x.began = scan[s].began
          /\ x.knew = scan[s].knew
      BY <2>1 DEF Scan, Asked
    <3> HIDE DEF x
    <3>3. /\ x.pc \notin Answered \cup {"nvd request", "kev answer", "epss"}
          /\ x.pc \in InGet /\ scan[s].pc \in InGet /\ scan[s].pc # "idle"
      BY <3>1, <3>2 DEF Answered, InGet
    <3>4. Timely(x)
      BY <2>1, <3>2, <3>3, Zenon DEF Timely
    <3> QED
      BY <3>1, <3>2, <3>3, <3>4, QuietStep
  <2>9. CASE KevStores(s)
    BY <2>9, KevStoresKeeps
  <2>10. CASE KevErrs(s)
    <3>1. scan[s].pc \in InRequest /\ scan[s].pc \in InGet
      BY <2>10 DEF KevErrs, InRequest, InGet
    <3>2. HoldsMutex(s)
      BY <3>1 DEF IInv, QueueInv
    <3> QED
      BY <2>10, <3>1, <3>2, KevKeepsCatalogue DEF KevErrs
  <2>11. CASE EpssLooks(s)
    <3> DEFINE x == [scan[s] EXCEPT !.pc = "page",
                !.missing = {c \in Affecting[scan[s].item] : ~Fresh(epss[c])},
                !.kev = 0, !.knew = 0]
    <3>1. free /\ scan' = [scan EXCEPT ![s] = x] /\ scan[s].pc = "epss"
      BY <2>11 DEF EpssLooks, InGet
    <3>2. Affecting[scan[s].item] \subseteq CVEs
      BY <2>1, FeedsAssumption DEF Scan
    <3>3. x \in Scan /\ x.pc = "page" /\ x.began = scan[s].began /\ x.knew = 0
      BY <2>1, <3>2 DEF Scan
    <3> HIDE DEF x
    <3> QED
      BY <2>3, <3>1, <3>3
  <2>12. ASSUME NEW page \in SUBSET CVEs, EpssAsks(s, page)
         PROVE  IInv'
    <3> DEFINE x == [scan[s] EXCEPT !.pc = "page request", !.page = page]
    <3>1. free /\ scan' = [scan EXCEPT ![s] = x] /\ scan[s].pc = "page"
      BY <2>12 DEF EpssAsks, InGet
    <3>2. /\ x \in Scan /\ x.pc = "page request" /\ x.began = scan[s].began
          /\ x.knew = scan[s].knew
      BY <2>1 DEF Scan, Asked
    <3> HIDE DEF x
    <3> QED
      BY <2>3, <3>1, <3>2
  <2>13. CASE EpssStores(s)
    BY <2>13, EpssStoresKeeps
  <2>14. CASE EpssErrs(s)
    <3> DEFINE x == [scan[s] EXCEPT !.pc = "page", !.got = 0,
                                    !.missing = {}, !.page = {}]
    <3>1. /\ free /\ scan' = [scan EXCEPT ![s] = x]
          /\ scan[s].pc \in {"page request", "page answer"}
      BY <2>14 DEF EpssErrs, InGet
    <3>2. /\ x \in Scan /\ x.pc = "page" /\ x.began = scan[s].began
          /\ x.knew = scan[s].knew
      BY <2>1 DEF Scan
    <3> HIDE DEF x
    <3> QED
      BY <2>3, <3>1, <3>2
  <2>15. CASE Renders(s) \/ RendersNothing(s)
    BY <2>2, <2>15 DEF Renders, RendersNothing, InGet
  <2> QED
    BY <1>4, <2>4, <2>5, <2>6, <2>7, <2>8, <2>9, <2>10, <2>11, <2>12, <2>13,
       <2>14, <2>15 DEF CollectStep
<1> QED
  BY <1>1, <1>2, <1>3, <1>4 DEF Next

LEMMA Inductive == Spec => []IInv
<1> QED
  BY Initially, StepKeeps, PTL DEF Spec

-----------------------------------------------------------------------------
(* The theorems *)

\* The types, and the mutex: at KEV's mutex are the scans inside Get, each
\* once, so a lock forgotten on some path out of Get would show.
THEOREM TypeCorrect == Spec => []TypeOK
<1>1. IInv => TypeOK
  BY DEF IInv, Types, QueueInv, TypeOK
<1> QED
  BY <1>1, Inductive, PTL

\* What the caches of NVD and EPSS serve is never older than a TTL and one
\* slow request, however requests overlap.
THEOREM StalenessBounded == Spec => []BoundedStaleness
<1>1. ASSUME clock \in Nat, NEW e \in Entry, Recent(e), Fresh(e)
      PROVE  clock < e.asof + TTL + ScanTimeout
  <2>1. /\ clock - e.stored < TTL /\ e.stored <= e.asof + ScanTimeout
        /\ e.asof \in Nat /\ e.stored \in Nat
    BY <1>1 DEF Fresh, Recent, Entry
  <2> QED
    BY <1>1, <2>1, FeedsAssumption
<1>2. IInv => BoundedStaleness
  BY <1>1 DEF IInv, Types, EntryInv, BoundedStaleness
<1> QED
  BY <1>2, Inductive, PTL

\* KEV: a Collect never goes on with less than it could have had when it
\* began, whatever requests failed.
THEOREM StaleNotBlind == Spec => []NeverBlinded
<1>1. IInv => NeverBlinded
  <2> SUFFICES ASSUME IInv, NEW s \in Scans, scan[s].pc = "epss"
               PROVE  scan[s].kev >= scan[s].knew
    BY DEF NeverBlinded
  <2>1. scan[s].knew <= scan[s].kev
    BY DEF IInv, ScanInv, Timely
  <2>2. scan[s].knew \in Nat /\ scan[s].kev \in Nat
    BY DEF IInv, Types, Scan
  <2> QED
    BY <2>1, <2>2
<1> QED
  BY <1>1, Inductive, PTL

\* A Collect is over within twice ScanTimeout, however many scans queue.
THEOREM CollectEnds == Spec => []CollectBounded
<1>1. IInv => CollectBounded
  BY DEF IInv, ScanInv, Timely, CollectBounded
<1> QED
  BY <1>1, Inductive, PTL
=============================================================================
