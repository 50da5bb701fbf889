------------------------------- MODULE Feeds --------------------------------
(***************************************************************************)
(* One Collect: NVD says which CVEs affect an inventory item, CISA KEV and *)
(* FIRST EPSS enrich them (patchlight.LiveIntel).  The three providers are *)
(* shared by all scans and cache what they fetch.  NVD and EPSS fetch with *)
(* their mutex free; KEV holds its mutex across the fetch.  The scheduler  *)
(* gives every Collect a deadline.                                         *)
(*                                                                         *)
(* What a feed says at some moment is represented by that moment: an entry *)
(* `asof' t is what the feed answered at time t, and asof 0 is no data.    *)
(***************************************************************************)
EXTENDS Naturals, Sequences, FiniteSets

CONSTANTS
  Scans,         \* scan goroutines
  Items,         \* inventory items
  CVEs,
  Affecting,     \* the CVEs NVD reports for an item
  TTL,           \* TTL of the caches
  ScanTimeout,   \* sched.Config.ScanTimeout
  PageSize,      \* CVEs per EPSS request
  MaxTime        \* bound on the clock

ASSUME FeedsAssumption ==
  /\ Items # {}
  /\ Affecting \in [Items -> SUBSET CVEs]
  /\ IsFiniteSet(CVEs)
  /\ TTL \in Nat \ {0}
  /\ ScanTimeout \in Nat \ {0}
  /\ PageSize \in Nat \ {0}
  /\ MaxTime \in Nat

\* A cache entry: when the feed answered, and when the answer was stored.
Entry == [asof : Nat, stored : Nat]

NoEntry == [asof |-> 0, stored |-> 0]

VARIABLES
  clock,
  nvd,     \* nvd.Client.cache
  kev,     \* kev.Provider.cache; hasCache is kev # NoEntry
  epss,    \* epss.Provider.cache
  mutex,   \* scans at kev.Provider.mu: the first holds it, the others wait
  scan     \* the state of every Collect

vars == <<clock, nvd, kev, epss, mutex, scan>>

\* `got' is an answer on its way back to the scan.  Two fields are history:
\* `knew', the KEV answer cached when the scan began, and `kev', the one Get
\* has just returned.
Idle == [pc |-> "idle", item |-> CHOOSE i \in Items : TRUE, began |-> 0,
         got |-> 0, missing |-> {}, page |-> {}, kev |-> 0, knew |-> 0]

Init ==
  /\ clock = 1
  /\ nvd = [i \in Items |-> NoEntry]
  /\ kev = NoEntry
  /\ epss = [c \in CVEs |-> NoEntry]
  /\ mutex = <<>>
  /\ scan = [s \in Scans |-> Idle]

-----------------------------------------------------------------------------

\* Mutant: what is cached is served for ever.
FreshForEver(e) == e # NoEntry

\* now().Sub(e.fetched) < ttl
Fresh(e) == e # NoEntry /\ clock - e.stored < TTL

\* Mutant: requests do not carry the scan's context.
Unbounded(s) == MaxTime + 1

\* Every request carries the context scanOne made.  The HTTP client's own
\* timeout is as long as ScanTimeout and starts later, so it is never first.
Deadline(s) == scan[s].began + ScanTimeout

CtxDone(s) == clock >= Deadline(s)

\* The scan has the CVEs of its item: with none it returns, otherwise it
\* asks for kev.Provider.mu.
HasCVEs(x) ==
  IF Affecting[x.item] = {}
  THEN Idle
  ELSE [x EXCEPT !.pc = "kev", !.got = 0]

JoinMutex(s) ==
  mutex' = IF scan'[s].pc = "kev" THEN Append(mutex, s) ELSE mutex

\* nvd.Client.CVEsFor: a fresh entry, or a request.
Begin(s, i) ==
  LET x == [Idle EXCEPT !.item = i, !.began = clock, !.knew = kev.asof]
  IN
  /\ scan[s].pc = "idle"
  /\ scan' = [scan EXCEPT ![s] = IF Fresh(nvd[i])
                                 THEN HasCVEs(x)
                                 ELSE [x EXCEPT !.pc = "nvd request"]]
  /\ JoinMutex(s)
  /\ UNCHANGED <<clock, nvd, kev, epss>>

NvdStores(s) ==
  /\ scan[s].pc = "nvd answer"
  /\ nvd' = [nvd EXCEPT ![scan[s].item] =
               [asof |-> scan[s].got, stored |-> clock]]
  /\ scan' = [scan EXCEPT ![s] = HasCVEs(@)]
  /\ JoinMutex(s)
  /\ UNCHANGED <<clock, kev, epss>>

\* An NVD error fails the Collect.
NvdErrs(s) ==
  /\ scan[s].pc \in {"nvd request", "nvd answer"}
  /\ scan' = [scan EXCEPT ![s] = Idle]
  /\ UNCHANGED <<clock, nvd, kev, epss, mutex>>

-----------------------------------------------------------------------------
(* kev.Provider.Get *)

HoldsMutex(s) == mutex # <<>> /\ Head(mutex) = s

\* Mutant: a return without the unlock.
KevReturnsLocked(s, asof) ==
  /\ UNCHANGED mutex
  /\ scan' = [scan EXCEPT ![s].pc = "epss", ![s].got = 0, ![s].kev = asof]

\* Get returns: the deferred unlock of the holder.
KevReturns(s, asof) ==
  /\ mutex' = Tail(mutex)
  /\ scan' = [scan EXCEPT ![s].pc = "epss", ![s].got = 0, ![s].kev = asof]

KevHit(s) ==
  /\ scan[s].pc = "kev" /\ HoldsMutex(s)
  /\ Fresh(kev)
  /\ KevReturns(s, kev.asof)
  /\ UNCHANGED <<clock, nvd, kev, epss>>

KevMiss(s) ==
  /\ scan[s].pc = "kev" /\ HoldsMutex(s)
  /\ ~Fresh(kev)
  /\ scan' = [scan EXCEPT ![s].pc = "kev request"]
  /\ UNCHANGED <<clock, nvd, kev, epss, mutex>>

KevStores(s) ==
  /\ scan[s].pc = "kev answer"
  /\ kev' = [asof |-> scan[s].got, stored |-> clock]
  /\ KevReturns(s, scan[s].got)
  /\ UNCHANGED <<clock, nvd, epss>>

\* Mutant: an error blinds the scan.
KevErrsBlindly(s) ==
  /\ scan[s].pc \in {"kev request", "kev answer"}
  /\ KevReturns(s, 0)
  /\ UNCHANGED <<clock, nvd, kev, epss>>

\* On an error the last good catalogue, if any; LiveIntel drops the error.
KevErrs(s) ==
  /\ scan[s].pc \in {"kev request", "kev answer"}
  /\ KevReturns(s, kev.asof)
  /\ UNCHANGED <<clock, nvd, kev, epss>>

-----------------------------------------------------------------------------
(* epss.Provider.Scores *)

\* The first lock: what is fresh is served, the rest is missing.
EpssLooks(s) ==
  /\ scan[s].pc = "epss"
  /\ scan' = [scan EXCEPT
       ![s].pc = "page",
       ![s].missing = {c \in Affecting[scan[s].item] : ~Fresh(epss[c])},
       ![s].kev = 0, ![s].knew = 0]
  /\ UNCHANGED <<clock, nvd, kev, epss, mutex>>

\* The next page: PageSize of the missing CVEs, or all that are left.
EpssAsks(s, page) ==
  /\ scan[s].pc = "page"
  /\ page \subseteq scan[s].missing /\ page # {}
  /\ Cardinality(page) <= PageSize
  /\ Cardinality(page) < PageSize => page = scan[s].missing
  /\ scan' = [scan EXCEPT ![s].pc = "page request", ![s].page = page]
  /\ UNCHANGED <<clock, nvd, kev, epss, mutex>>

EpssStores(s) ==
  /\ scan[s].pc = "page answer"
  /\ epss' = [c \in CVEs |-> IF c \in scan[s].page
                             THEN [asof |-> scan[s].got, stored |-> clock]
                             ELSE epss[c]]
  /\ scan' = [scan EXCEPT
       ![s].pc = "page",
       ![s].got = 0,
       ![s].missing = @ \ scan[s].page,
       ![s].page = {}]
  /\ UNCHANGED <<clock, nvd, kev, mutex>>

\* An error ends Scores with what it has; LiveIntel drops the error.
EpssErrs(s) ==
  /\ scan[s].pc \in {"page request", "page answer"}
  /\ scan' = [scan EXCEPT ![s].pc = "page", ![s].got = 0,
                          ![s].missing = {}, ![s].page = {}]
  /\ UNCHANGED <<clock, nvd, kev, epss, mutex>>

\* CVEsFor returns; Collect renders the findings if its context is not done.
Renders(s) ==
  /\ scan[s].pc = "page" /\ scan[s].missing = {}
  /\ ~CtxDone(s)
  /\ scan' = [scan EXCEPT ![s] = Idle]
  /\ UNCHANGED <<clock, nvd, kev, epss, mutex>>

\* Otherwise it returns the context's error, and nothing is reconciled.
RendersNothing(s) ==
  /\ scan[s].pc = "page" /\ scan[s].missing = {}
  /\ CtxDone(s)
  /\ scan' = [scan EXCEPT ![s] = Idle]
  /\ UNCHANGED <<clock, nvd, kev, epss, mutex>>

-----------------------------------------------------------------------------
(* The feeds and the time *)

Asked == {"nvd request", "kev request", "page request"}
Answered == {"nvd answer", "kev answer", "page answer"}

AnswerTo(pc) == CASE pc = "nvd request"  -> "nvd answer"
                  [] pc = "kev request"  -> "kev answer"
                  [] pc = "page request" -> "page answer"

\* A feed answers, unless the request has run into its deadline.
FeedAnswers(s) ==
  /\ scan[s].pc \in Asked
  /\ clock < Deadline(s)
  /\ scan' = [scan EXCEPT ![s].pc = AnswerTo(@), ![s].got = clock]
  /\ UNCHANGED <<clock, nvd, kev, epss, mutex>>

\* What may last: being idle, waiting for the mutex, and waiting for a feed
\* until the deadline.  Everything else takes no time.
MayLast(s) ==
  \/ scan[s].pc = "idle"
  \/ scan[s].pc = "kev" /\ ~HoldsMutex(s)
  \/ scan[s].pc \in Asked \cup Answered /\ clock < Deadline(s)

Tick ==
  /\ clock < MaxTime
  /\ \A s \in Scans : MayLast(s)
  /\ clock' = clock + 1
  /\ UNCHANGED <<nvd, kev, epss, mutex, scan>>

CollectStep(s) ==
  \/ \E i \in Items : Begin(s, i)
  \/ NvdStores(s) \/ NvdErrs(s)
  \/ KevHit(s) \/ KevMiss(s) \/ KevStores(s) \/ KevErrs(s)
  \/ EpssLooks(s)
  \/ \E page \in SUBSET CVEs : EpssAsks(s, page)
  \/ EpssStores(s) \/ EpssErrs(s)
  \/ Renders(s) \/ RendersNothing(s)

Next ==
  \/ \E s \in Scans : CollectStep(s) \/ FeedAnswers(s)
  \/ Tick

Spec == Init /\ [][Next]_vars

-----------------------------------------------------------------------------
(* Properties *)

Scan == [pc : {"idle", "kev", "epss", "page"} \cup Asked \cup Answered,
         item : Items, began : Nat, got : Nat,
         missing : SUBSET CVEs, page : SUBSET CVEs,
         kev : Nat, knew : Nat]

InGet == {"kev", "kev request", "kev answer"}

\* The types; and at the KEV mutex are the scans inside Get, each once.
TypeOK ==
  /\ clock \in Nat
  /\ nvd \in [Items -> Entry]
  /\ kev \in Entry
  /\ epss \in [CVEs -> Entry]
  /\ mutex \in Seq(Scans)
  /\ scan \in [Scans -> Scan]
  /\ \A i, j \in DOMAIN mutex : mutex[i] = mutex[j] => i = j
  /\ \A s \in Scans :
       scan[s].pc \in InGet <=> \E i \in DOMAIN mutex : mutex[i] = s

\* Staleness is bounded: what NVD's and EPSS's caches serve was said by the
\* feed less than a TTL and one slow request ago, even when requests overlap
\* and an older answer is stored last.
BoundedStaleness ==
  \A e \in {nvd[i] : i \in Items} \cup {epss[c] : c \in CVEs} :
    Fresh(e) => clock < e.asof + TTL + ScanTimeout

\* kev.go, Get: "stale is better than blind": a Collect never goes on with
\* less than the catalogue that was cached when it began, whatever failed.
NeverBlinded ==
  \A s \in Scans : scan[s].pc = "epss" => scan[s].kev >= scan[s].knew

\* Waiting for the KEV mutex knows no deadline, but it ends: a Collect is over
\* within twice ScanTimeout, however many scans queue during an outage.  It is
\* not over within ScanTimeout, as scheduler.go has it (Config: "ScanTimeout
\* bounds one Collect() call").
CollectBounded ==
  \A s \in Scans :
    scan[s].pc # "idle" => clock <= scan[s].began + 2 * ScanTimeout
=============================================================================
