------------------------------ MODULE Findings ------------------------------
(***************************************************************************)
(* The life of a finding: store.Engine.Reconcile run by scan goroutines    *)
(* (sched.scanOne) against the SQLite findings table, while the dashboard  *)
(* changes statuses through web.handleFindingStatus.                       *)
(*                                                                         *)
(* Nothing serialises these writers.  Reconcile reads the records of its   *)
(* target once (ListByTarget), then writes them back one by one; the       *)
(* status handler reads one record (Get) and writes it back.  Every read   *)
(* and every write is therefore an action of its own, and a writer works   *)
(* on the copy it read.                                                    *)
(***************************************************************************)
EXTENDS Priority, FiniteSets

CONSTANTS
  FPs,            \* fingerprints
  Targets,        \* canonical targets
  TargetOf,       \* the target a fingerprint was computed from
  Vulns,          \* the enriched CVEs a collector may report
  Scanners,       \* scan goroutines
  Users,          \* concurrent status requests
  ResolveAfter,   \* ModuleInfo.ResolveAfter
  Workers,        \* capacity of the scheduler's semaphore
  MaxOverlap,     \* bound: scans of one target in flight at once
  MaxScans,       \* bound: scans that reach the engine
  StoreFaults,    \* whether ListByTarget and Upsert may return an error
  Unreported,     \* the collector's output does not mention a fingerprint
  Malformed,      \* it does, but ValidateForIngest refuses the finding
  NoRecord        \* no row for a fingerprint

Status == {"open", "resolved", "acknowledged", "suppressed"}

\* What a user may ask for; resolving is the engine's alone.
UserStatus == {"acknowledged", "suppressed", "open"}

(***************************************************************************)
(* A row of the findings table.  id and first_seen are written together at *)
(* the insert and never updated, so `born' (the time of the reconcile that *)
(* inserted the row) stands for both.  `detail' stands for the columns     *)
(* refreshed together from the collector's finding: title, severity,       *)
(* remediation and evidence.  Time 0 is a NULL resolved_at.                *)
(***************************************************************************)
Record == [born       : Nat,
           status     : Status,
           detail     : Vulns,
           lastSeen   : Nat,
           resolvedAt : Nat,
           streak     : Nat]

ASSUME FindingsAssumption ==
  /\ FPs # {}
  /\ Targets # {}
  /\ TargetOf \in [FPs -> Targets]
  /\ IsFiniteSet(Scanners)
  /\ Vulns \subseteq Vuln
  /\ ResolveAfter \in Nat
  /\ Workers \in Nat \ {0}
  /\ MaxOverlap \in Nat \ {0}
  /\ MaxScans \in Nat
  /\ StoreFaults \in BOOLEAN
  /\ Unreported \notin Vulns
  /\ Malformed \notin Vulns
  /\ NoRecord \notin Record

VARIABLES
  db,       \* the findings table
  clock,    \* the engine's clock
  scan,     \* the goroutine-local state of every scan
  req,      \* the handler-local state of every status request
  told,     \* history: the last event OnResult was given about a finding
  misses,   \* history: scans that missed a finding since it was last recorded
  touched   \* history: findings whose status a user has written

vars == <<db, clock, scan, req, told, misses, touched>>

-----------------------------------------------------------------------------

\* ModuleInfo.ResolveAfterOrDefault.
ResolveAfterOrDefault == IF ResolveAfter < 1 THEN 1 ELSE ResolveAfter

\* Mutant: whatever the collector mentions is accepted.
ValidateNothing(x) == x # Unreported

\* Finding.ValidateForIngest: a finding the engine accepts.
ValidateForIngest(x) == x \in Vulns

\* Mutant: an upsert that replaces the whole row, as MemStore.Upsert does.
UpsertReplaces(f, r) == db' = [db EXCEPT ![f] = r]

\* SQLiteStore.Upsert: an insert, or on conflict an update that leaves id and
\* first_seen alone.
Upsert(f, r) ==
  db' = [db EXCEPT ![f] = IF db[f] = NoRecord
                          THEN r
                          ELSE [r EXCEPT !.born = db[f].born]]

NoRecords == [f \in FPs |-> NoRecord]
Nothing   == [f \in FPs |-> Unreported]

Idle == [pc |-> "idle", target |-> CHOOSE t \in Targets : TRUE, now |-> 0,
         fresh |-> Nothing, snap |-> NoRecords,
         todo |-> {}, gone |-> {}, opened |-> {}, resolved |-> {}]

NoRequest == [pc |-> "idle", fp |-> CHOOSE f \in FPs : TRUE,
              next |-> "open", rec |-> NoRecord]

Init ==
  /\ db = NoRecords
  /\ clock = 0
  /\ scan = [s \in Scanners |-> Idle]
  /\ req = [u \in Users |-> NoRequest]
  /\ told = [f \in FPs |-> "never"]
  /\ misses = [f \in FPs |-> 0]
  /\ touched = {}

-----------------------------------------------------------------------------
(* Scans *)

Running(t) == {s \in Scanners : scan[s].pc # "idle" /\ scan[s].target = t}

\* scanOne takes a worker slot; it keeps it until it returns.
StartScan(s, t) ==
  /\ scan[s].pc = "idle"
  /\ Cardinality({r \in Scanners : scan[r].pc # "idle"}) < Workers
  /\ Cardinality(Running(t)) < MaxOverlap
  /\ clock < MaxScans
  /\ scan' = [scan EXCEPT ![s] = [Idle EXCEPT !.pc = "collect", !.target = t]]
  /\ UNCHANGED <<db, clock, req, told, misses, touched>>

\* Collect returned an error: scanOne returns it and nothing is reconciled.
CollectFails(s) ==
  /\ scan[s].pc = "collect"
  /\ scan' = [scan EXCEPT ![s] = Idle]
  /\ UNCHANGED <<db, clock, req, told, misses, touched>>

\* Collect returned findings; Reconcile starts by reading the clock.  What
\* ValidateForIngest refuses is rejected and has no other effect.
CollectReturns(s, out) ==
  /\ scan[s].pc = "collect"
  /\ clock < MaxScans
  /\ \A f \in FPs : TargetOf[f] # scan[s].target => out[f] = Unreported
  /\ clock' = clock + 1
  /\ scan' = [scan EXCEPT
       ![s].pc = "list",
       ![s].now = clock + 1,
       ![s].fresh = [f \in FPs |-> IF ValidateForIngest(out[f])
                                   THEN out[f] ELSE Unreported]]
  /\ UNCHANGED <<db, req, told, misses, touched>>

\* ListByTarget: the snapshot the rest of the reconcile works on.  Records the
\* collector did not report are up for resolution unless they are already
\* resolved or the user suppressed them.
ListByTarget(s) ==
  LET mine(f) == TargetOf[f] = scan[s].target
      snap == [f \in FPs |-> IF mine(f) THEN db[f] ELSE NoRecord]
      seen == {f \in FPs : scan[s].fresh[f] # Unreported}
  IN
  /\ scan[s].pc = "list"
  /\ scan' = [scan EXCEPT
       ![s].pc = "write",
       ![s].snap = snap,
       ![s].todo = seen,
       ![s].gone = {f \in FPs \ seen :
                      /\ snap[f] # NoRecord
                      /\ snap[f].status \notin {"resolved", "suppressed"}}]
  /\ misses' = [f \in FPs |-> IF mine(f) /\ f \notin seen
                              THEN misses[f] + 1 ELSE misses[f]]
  /\ UNCHANGED <<db, clock, req, told, touched>>

\* The row a brand-new finding is inserted as.
NewRecord(s, f) ==
  [born |-> scan[s].now, status |-> "open", detail |-> scan[s].fresh[f],
   lastSeen |-> scan[s].now, resolvedAt |-> 0, streak |-> 0]

\* Mutant: a reopened finding keeps its resolved status.
MergedStaysResolved(s, f) ==
  [scan[s].snap[f] EXCEPT !.detail = scan[s].fresh[f],
                          !.lastSeen = scan[s].now, !.streak = 0]

\* Mutant: a sighting does not reset the absence streak.
MergedKeepsStreak(s, f) ==
  LET prev == scan[s].snap[f]
      reopened == prev.status = "resolved"
  IN [prev EXCEPT
        !.detail = scan[s].fresh[f],
        !.lastSeen = scan[s].now,
        !.status = IF reopened THEN "open" ELSE @,
        !.resolvedAt = IF reopened THEN 0 ELSE @]

\* An existing row refreshed by a sighting; a resolved one reopens.
Merged(s, f) ==
  LET prev == scan[s].snap[f]
      reopened == prev.status = "resolved"
  IN [prev EXCEPT
        !.detail = scan[s].fresh[f],
        !.lastSeen = scan[s].now,
        !.streak = 0,
        !.status = IF reopened THEN "open" ELSE @,
        !.resolvedAt = IF reopened THEN 0 ELSE @]

\* Mutant: only reopened findings are announced.
NewlyOpenIfReopened(prev) == prev # NoRecord /\ prev.status = "resolved"

\* Whether a sighting counts as newly open, given the row in the snapshot.
NewlyOpen(prev) == prev = NoRecord \/ prev.status = "resolved"

\* One pass of the loop over the fresh findings.  New and reopened findings
\* join NewlyOpen, each with the id the engine believes it has.
WriteFresh(s, f) ==
  LET prev == scan[s].snap[f]
      rec  == IF prev = NoRecord THEN NewRecord(s, f) ELSE Merged(s, f)
  IN
  /\ scan[s].pc = "write"
  /\ f \in scan[s].todo
  /\ Upsert(f, rec)
  /\ scan' = [scan EXCEPT
       ![s].todo = @ \ {f},
       ![s].opened = IF NewlyOpen(prev)
                     THEN @ \cup {[fp |-> f, born |-> rec.born]} ELSE @]
  /\ misses' = [misses EXCEPT ![f] = 0]
  /\ UNCHANGED <<clock, req, told, touched>>

\* Mutant: ResolvedAt is not set.
MissedUntimed(s, f) ==
  LET prev == scan[s].snap[f]
      streak == prev.streak + 1
  IN [prev EXCEPT !.streak = streak,
                  !.status = IF streak >= ResolveAfterOrDefault
                             THEN "resolved" ELSE @]

\* A row that one more scan did not report.
Missed(s, f) ==
  LET prev == scan[s].snap[f]
      streak == prev.streak + 1
  IN IF streak >= ResolveAfterOrDefault
     THEN [prev EXCEPT !.streak = streak, !.status = "resolved",
                       !.resolvedAt = scan[s].now]
     ELSE [prev EXCEPT !.streak = streak]

\* One pass of the auto-resolve loop, which follows the first one.
WriteGone(s, f) ==
  /\ scan[s].pc = "write"
  /\ scan[s].todo = {}
  /\ f \in scan[s].gone
  /\ Upsert(f, Missed(s, f))
  /\ scan' = [scan EXCEPT
       ![s].gone = @ \ {f},
       ![s].resolved = IF Missed(s, f).status = "resolved"
                       THEN @ \cup {f} ELSE @]
  /\ UNCHANGED <<clock, req, told, misses, touched>>

\* The store (or the id generator) returns an error: Reconcile returns at
\* once, and scanOne drops the partial result with it.
StoreFails(s) ==
  /\ StoreFaults
  /\ \/ scan[s].pc = "list"
     \/ scan[s].pc = "write" /\ scan[s].todo \cup scan[s].gone # {}
  /\ scan' = [scan EXCEPT ![s] = Idle]
  /\ UNCHANGED <<db, clock, req, told, misses, touched>>

OpenedFPs(s) == {e.fp : e \in scan[s].opened}

\* The reconcile is complete: scanOne hands its result to OnResult and
\* returns its worker slot.
Report(s) ==
  /\ scan[s].pc = "write"
  /\ scan[s].todo = {} /\ scan[s].gone = {}
  /\ told' = [f \in FPs |-> IF f \in scan[s].resolved THEN "resolved"
                            ELSE IF f \in OpenedFPs(s) THEN "opened"
                            ELSE told[f]]
  /\ scan' = [scan EXCEPT ![s] = Idle]
  /\ UNCHANGED <<db, clock, req, misses, touched>>

-----------------------------------------------------------------------------
(* Status requests *)

\* handleFindingStatus up to Store.Get: unknown statuses and unknown
\* fingerprints are refused without effect.
GetFinding(u, f, next) ==
  /\ req[u].pc = "idle"
  /\ next \in UserStatus
  /\ db[f] # NoRecord
  /\ req' = [req EXCEPT ![u] = [pc |-> "put", fp |-> f, next |-> next,
                                rec |-> db[f]]]
  /\ UNCHANGED <<db, clock, scan, told, misses, touched>>

\* The rest of the handler: only Status is set on the copy it read.
PutStatus(u) ==
  /\ req[u].pc = "put"
  /\ Upsert(req[u].fp, [req[u].rec EXCEPT !.status = req[u].next])
  /\ touched' = touched \cup {req[u].fp}
  /\ req' = [req EXCEPT ![u] = NoRequest]
  /\ UNCHANGED <<clock, scan, told, misses>>

\* The handler's Upsert returned an error.
PutFails(u) ==
  /\ StoreFaults
  /\ req[u].pc = "put"
  /\ req' = [req EXCEPT ![u] = NoRequest]
  /\ UNCHANGED <<db, clock, scan, told, misses, touched>>

-----------------------------------------------------------------------------

Outputs == [FPs -> Vulns \cup {Unreported, Malformed}]

ScanStep(s) ==
  \/ \E t \in Targets : StartScan(s, t)
  \/ CollectFails(s)
  \/ \E out \in Outputs : CollectReturns(s, out)
  \/ ListByTarget(s)
  \/ \E f \in FPs : WriteFresh(s, f)
  \/ \E f \in FPs : WriteGone(s, f)
  \/ StoreFails(s)
  \/ Report(s)

UserStep(u) ==
  \/ \E f \in FPs, next \in UserStatus : GetFinding(u, f, next)
  \/ PutStatus(u)
  \/ PutFails(u)

Next ==
  \/ \E s \in Scanners : ScanStep(s)
  \/ \E u \in Users : UserStep(u)

Spec == Init /\ [][Next]_vars

-----------------------------------------------------------------------------
(* Properties *)

Scan == [pc       : {"idle", "collect", "list", "write"},
         target   : Targets,
         now      : Nat,
         fresh    : [FPs -> Vulns \cup {Unreported}],
         snap     : [FPs -> Record \cup {NoRecord}],
         todo     : SUBSET FPs,
         gone     : SUBSET FPs,
         opened   : SUBSET [fp : FPs, born : Nat],
         resolved : SUBSET FPs]

Request == [pc   : {"idle", "put"},
            fp   : FPs,
            next : UserStatus,
            rec  : Record \cup {NoRecord}]

\* Every variable stays in its type; in particular what reaches the table is
\* always a well-formed row.
TypeOK ==
  /\ db \in [FPs -> Record \cup {NoRecord}]
  /\ clock \in Nat
  /\ scan \in [Scanners -> Scan]
  /\ req \in [Users -> Request]
  /\ told \in [FPs -> {"never", "opened", "resolved"}]
  /\ misses \in [FPs -> Nat]
  /\ touched \in SUBSET FPs

\* A row, once inserted, is never lost, and its id and first_seen never
\* change: not even when two overlapping reconciles insert the same finding,
\* thanks to the conflict clause of SQLiteStore.Upsert.
IdentityStable ==
  [][\A f \in FPs : db[f] # NoRecord =>
       /\ db'[f] # NoRecord
       /\ db'[f].born = db[f].born]_vars

\* Under every interleaving of scans, status requests and store errors, a
\* resolved row carries the time it was resolved (PruneResolvedBefore would
\* otherwise never delete it).
ResolvedHasTime ==
  \A f \in FPs :
    db[f] # NoRecord /\ db[f].status = "resolved" => db[f].resolvedAt # 0

\* What a scan x holds between its read and its writes: rows it found,
\* findings it was given, and a time it has read.
ScanHolds(x) ==
  /\ x.pc # "write" => x.todo = {} /\ x.gone = {}
  /\ x.pc \in {"list", "write"} => x.now > 0
  /\ \A f \in x.todo : x.fresh[f] # Unreported
  /\ \A f \in x.gone : x.snap[f] # NoRecord /\ x.snap[f].status # "resolved"

\* No writer goes to the table with the zero Record of a missed lookup, and
\* no scan resolves a row that was already resolved when it looked.
WriterInv ==
  /\ \A s \in Scanners : ScanHolds(scan[s])
  /\ \A u \in Users : req[u].pc = "put" => req[u].rec # NoRecord

\* No insertion and no resolution is silent (README, "Live export": every
\* finding opened or resolved leaves as an event): a row exists only if its
\* opening was given to OnResult or is in the result a running scan will
\* report, and likewise a row is resolved only if its resolution was or will
\* be.  The opened event has the id of the stored row, so that it can be
\* looked up.  That a scan announces a reopening as well is ConsumerAgrees in
\* System, which has no users to reopen a row themselves.
NothingSilent ==
  /\ \A f \in FPs : db[f] # NoRecord =>
       /\ told[f] # "never" \/ \E s \in Scanners : f \in OpenedFPs(s)
       /\ db[f].status = "resolved" =>
            told[f] = "resolved" \/ \E s \in Scanners : f \in scan[s].resolved
  /\ \A s \in Scanners : \A e \in scan[s].opened :
       db[e.fp] # NoRecord /\ db[e.fp].born = e.born

\* A finding is never announced as opened twice in a row: between two such
\* events OnResult was told that it was resolved.
OpenedOnlyAfterResolved ==
  [][\A s \in Scanners :
       Report(s) => \A f \in OpenedFPs(s) : told[f] # "opened"]_vars

\* Auto-resolve needs ResolveAfter consecutive scans without the finding
\* (store.go: AbsentStreak).  Findings whose status a user wrote are exempt:
\* the handler may write back an old streak.
ResolvedOnlyAfterAbsence ==
  \A f \in FPs \ touched :
    db[f] # NoRecord /\ db[f].status = "resolved" =>
      misses[f] >= ResolveAfterOrDefault

\* reconcile.go: "suppressed is the user's call": no step of a scan changes
\* the status of a suppressed row.
SuppressedIsTheUsersCall ==
  [][\A s \in Scanners, f \in FPs :
       ScanStep(s) /\ db[f] # NoRecord /\ db[f].status = "suppressed"
         => db'[f].status = "suppressed"]_vars
=============================================================================
