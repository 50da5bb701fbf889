--------------------------- MODULE FindingsProofs ---------------------------
(***************************************************************************)
(* For every number of findings, targets, scans, workers and users, with   *)
(* or without store errors: the types, the identity of a row and the time  *)
(* of a resolution.  And where scans of one target do not overlap: what    *)
(* Reconcile announces and when it resolves.  First, a fact about the      *)
(* priority model the findings carry.                                      *)
(***************************************************************************)
EXTENDS Findings, FiniteSetTheorems, TLAPS

\* A stronger signal never lowers the rank: adding a CVE to KEV, a higher EPSS
\* or a higher CVSS can only move its finding up (Rank, all inputs).
THEOREM RankMonotone ==
  ASSUME NEW v \in Vuln, NEW w \in Vuln,
         v.kev => w.kev, v.epss <= w.epss, v.cvss <= w.cvss
  PROVE  severityRank(Rank(v)) <= severityRank(Rank(w))
<1>1. CASE w.kev
  BY <1>1 DEF Rank, severityRank, Vuln
<1>2. CASE ~w.kev
  <2>1. /\ v.epss \in 0..100 /\ w.epss \in 0..100
        /\ v.cvss \in 0..100 /\ w.cvss \in 0..100
    BY DEF Vuln
  <2> QED BY <1>2, <2>1 DEF Rank, severityRank
<1> QED BY <1>1, <1>2

-----------------------------------------------------------------------------

\* The inductive invariant: ResolvedHasTime alone is not inductive, since a
\* resolution is written from a snapshot taken several steps before.
IInv == TypeOK /\ WriterInv /\ ResolvedHasTime

\* An upsert of a row keeps the table typed, and if the row is resolved only
\* with a time, so is every row of the table (SQLiteStore.Upsert).
LEMMA UpsertKeeps ==
  ASSUME NEW f \in FPs, NEW r \in Record,
         db \in [FPs -> Record \cup {NoRecord}], Upsert(f, r)
  PROVE  /\ db' \in [FPs -> Record \cup {NoRecord}]
         /\ \A g \in FPs : db[g] # NoRecord =>
              db'[g] # NoRecord /\ db'[g].born = db[g].born
         /\ \A g \in FPs : g # f => db'[g] = db[g]
         /\ db'[f].status = r.status /\ db'[f].resolvedAt = r.resolvedAt
<1> DEFINE x == IF db[f] = NoRecord THEN r ELSE [r EXCEPT !.born = db[f].born]
<1>1. x \in Record /\ x.status = r.status /\ x.resolvedAt = r.resolvedAt
      /\ (db[f] # NoRecord => x.born = db[f].born)
  BY DEF Record
<1>2. x # NoRecord
  BY <1>1, FindingsAssumption
<1>3. db' = [db EXCEPT ![f] = x]
  BY DEF Upsert
<1> HIDE DEF x
<1> QED BY <1>1, <1>2, <1>3

\* The rows a scan writes are rows (Reconcile's rec, merged and r).
LEMMA RowsWritten ==
  ASSUME TypeOK, WriterInv, NEW s \in Scanners, NEW f \in FPs,
         scan[s].pc = "write"
  PROVE  /\ f \in scan[s].todo =>
              /\ NewRecord(s, f) \in Record
              /\ NewRecord(s, f).status = "open"
              /\ scan[s].snap[f] # NoRecord =>
                   Merged(s, f) \in Record /\ Merged(s, f).status # "resolved"
         /\ f \in scan[s].gone =>
              /\ Missed(s, f) \in Record
              /\ Missed(s, f).status = "resolved" => Missed(s, f).resolvedAt # 0
<1> DEFINE prev == scan[s].snap[f]
           now == scan[s].now
           new == scan[s].fresh[f]
<1>0. /\ now \in Nat /\ now # 0
      /\ new \in Vulns \cup {Unreported}
      /\ prev \in Record \cup {NoRecord}
  BY DEF TypeOK, WriterInv, ScanHolds, Scan
<1>1. ASSUME f \in scan[s].todo
      PROVE  new \in Vulns
  BY <1>0, <1>1 DEF WriterInv, ScanHolds
<1>2. ASSUME f \in scan[s].todo
      PROVE  NewRecord(s, f) \in Record /\ NewRecord(s, f).status = "open"
  BY <1>0, <1>1, <1>2 DEF NewRecord, Record, Status
<1>3. ASSUME f \in scan[s].todo, prev # NoRecord
      PROVE  Merged(s, f) \in Record /\ Merged(s, f).status # "resolved"
  <2>1. prev \in Record /\ new \in Vulns
    BY <1>0, <1>1, <1>3
  <2> DEFINE m == [prev EXCEPT !.detail = new, !.lastSeen = now, !.streak = 0]
  <2>2. Merged(s, f) =
          [m EXCEPT
             !.status = IF prev.status = "resolved" THEN "open" ELSE @,
             !.resolvedAt = IF prev.status = "resolved" THEN 0 ELSE @]
    BY DEF Merged
  <2> HIDE DEF prev, now, new
  <2>3. m \in Record /\ m.status = prev.status
    BY <2>1, <1>0 DEF Record
  <2> HIDE DEF m
  <2>4. CASE prev.status = "resolved"
    <3>1. Merged(s, f) = [m EXCEPT !.status = "open", !.resolvedAt = 0]
      BY <2>2, <2>4
    <3>2. "open" \in Status /\ "open" # "resolved" /\ 0 \in Nat
      BY DEF Status
    <3>3. Merged(s, f) \in Record
      BY <2>3, <3>1, <3>2 DEF Record
    <3>4. Merged(s, f).status = "open"
      BY <2>3, <3>1 DEF Record
    <3> QED BY <3>2, <3>3, <3>4
  <2>5. CASE prev.status # "resolved"
    <3>1. Merged(s, f) = [m EXCEPT !.status = m.status,
                                   !.resolvedAt = m.resolvedAt]
      BY <2>2, <2>3, <2>5 DEF Record
    <3> QED BY <2>3, <2>5, <3>1 DEF Record, Status
  <2> QED BY <2>4, <2>5
<1>4. ASSUME f \in scan[s].gone
      PROVE  /\ Missed(s, f) \in Record
             /\ Missed(s, f).status = "resolved" => Missed(s, f).resolvedAt # 0
  <2>1. prev \in Record /\ prev.status # "resolved"
    BY <1>0, <1>4 DEF WriterInv, ScanHolds
  <2>2. Missed(s, f) =
          IF prev.streak + 1 >= ResolveAfterOrDefault
          THEN [prev EXCEPT !.streak = prev.streak + 1, !.status = "resolved",
                            !.resolvedAt = now]
          ELSE [prev EXCEPT !.streak = prev.streak + 1]
    BY DEF Missed
  <2> HIDE DEF prev, now, new
  <2>3. prev.streak + 1 \in Nat
    BY <2>1 DEF Record
  <2>4. CASE prev.streak + 1 >= ResolveAfterOrDefault
    BY <2>1, <2>2, <2>3, <2>4, <1>0 DEF Record, Status
  <2>5. CASE ~(prev.streak + 1 >= ResolveAfterOrDefault)
    BY <2>1, <2>2, <2>3, <2>5, <1>0 DEF Record, Status
  <2> QED BY <2>4, <2>5
<1> QED BY <1>2, <1>3, <1>4

LEMMA IdleTyped == Idle \in Scan /\ NoRequest \in Request
<1>1. (CHOOSE t \in Targets : TRUE) \in Targets
  BY FindingsAssumption
<1>2. (CHOOSE f \in FPs : TRUE) \in FPs
  BY FindingsAssumption
<1> QED BY <1>1, <1>2
     DEF Idle, Scan, NoRequest, Request, Nothing, NoRecords, UserStatus

LEMMA InitInv == Init => IInv
<1> SUFFICES ASSUME Init PROVE IInv
  OBVIOUS
<1>1. TypeOK
  BY IdleTyped DEF Init, TypeOK, NoRecords
<1>2. WriterInv
  BY DEF Init, WriterInv, ScanHolds, Idle, NoRequest
<1>3. ResolvedHasTime
  BY DEF Init, ResolvedHasTime, NoRecords
<1> QED BY <1>1, <1>2, <1>3 DEF IInv

\* A step that replaces the local state of one scan by a good one.
LEMMA ScanUpdate ==
  ASSUME TypeOK, WriterInv, NEW s \in Scanners, NEW x \in Scan, ScanHolds(x),
         scan' = [scan EXCEPT ![s] = x]
  PROVE  /\ scan' \in [Scanners -> Scan]
         /\ \A r \in Scanners : ScanHolds(scan'[r])
<1>1. \A r \in Scanners : scan'[r] = IF r = s THEN x ELSE scan[r]
  BY DEF TypeOK
<1>2. \A r \in Scanners : ScanHolds(scan[r])
  BY DEF WriterInv
<1>3. scan' \in [Scanners -> Scan]
  BY DEF TypeOK
<1> HIDE DEF ScanHolds
<1> QED BY <1>1, <1>2, <1>3

\* What every step of the scans and of the requests guarantees.
StepOK ==
  /\ IInv'
  /\ \A f \in FPs : db[f] # NoRecord =>
       db'[f] # NoRecord /\ db'[f].born = db[f].born

\* The steps that leave the table alone: only local state can be disturbed.
LEMMA NoWrite ==
  ASSUME IInv, UNCHANGED db, clock' \in Nat,
         scan' \in [Scanners -> Scan],
         \A r \in Scanners : ScanHolds(scan'[r]),
         req' \in [Users -> Request],
         \A u \in Users : req'[u].pc = "put" => req'[u].rec # NoRecord,
         told' \in [FPs -> {"never", "opened", "resolved"}],
         misses' \in [FPs -> Nat], touched' \in SUBSET FPs
  PROVE  StepOK
<1>1. TypeOK'
  BY DEF IInv, TypeOK
<1>2. WriterInv'
  BY DEF WriterInv
<1>3. ResolvedHasTime'
  BY DEF IInv, ResolvedHasTime
<1> QED BY <1>1, <1>2, <1>3 DEF StepOK, IInv

\* The steps that write one row r for f.
LEMMA OneWrite ==
  ASSUME IInv, NEW f \in FPs, NEW r \in Record, Upsert(f, r),
         r.status = "resolved" => r.resolvedAt # 0,
         UNCHANGED <<clock, told>>,
         scan' \in [Scanners -> Scan],
         \A q \in Scanners : ScanHolds(scan'[q]),
         req' \in [Users -> Request],
         \A u \in Users : req'[u].pc = "put" => req'[u].rec # NoRecord,
         misses' \in [FPs -> Nat], touched' \in SUBSET FPs
  PROVE  StepOK
<1>1. /\ db' \in [FPs -> Record \cup {NoRecord}]
      /\ \A g \in FPs : db[g] # NoRecord =>
           db'[g] # NoRecord /\ db'[g].born = db[g].born
      /\ \A g \in FPs : g # f => db'[g] = db[g]
      /\ db'[f].status = r.status /\ db'[f].resolvedAt = r.resolvedAt
  BY UpsertKeeps DEF IInv, TypeOK
<1>2. TypeOK'
  BY <1>1 DEF IInv, TypeOK
<1>3. WriterInv'
  BY DEF WriterInv
<1>4. ResolvedHasTime'
  BY <1>1 DEF IInv, ResolvedHasTime
<1> QED BY <1>1, <1>2, <1>3, <1>4 DEF StepOK, IInv

\* Every step of a scan keeps the invariant and the identity of the rows.
LEMMA ScanSteps ==
  ASSUME IInv, NEW s \in Scanners, ScanStep(s)
  PROVE  StepOK
<1> USE DEF IInv
<1>0. scan[s] \in Scan /\ ScanHolds(scan[s])
  BY DEF TypeOK, WriterInv
<1>r. /\ req \in [Users -> Request]
      /\ \A u \in Users : req[u].pc = "put" => req[u].rec # NoRecord
  BY DEF TypeOK, WriterInv
<1>i. Idle \in Scan /\ ScanHolds(Idle)
  BY IdleTyped DEF Idle, ScanHolds
<1>1. ASSUME NEW t \in Targets, StartScan(s, t) PROVE StepOK
  <2> DEFINE x == [Idle EXCEPT !.pc = "collect", !.target = t]
  <2>1. x \in Scan /\ ScanHolds(x)
    BY IdleTyped DEF Idle, Scan, ScanHolds
  <2>2. scan' = [scan EXCEPT ![s] = x]
    BY <1>1 DEF StartScan
  <2> HIDE DEF x
  <2>3. scan' \in [Scanners -> Scan] /\ \A r \in Scanners : ScanHolds(scan'[r])
    BY <2>1, <2>2, ScanUpdate
  <2> QED BY <1>1, <1>r, <2>3, NoWrite DEF StartScan, TypeOK
<1>2. ASSUME CollectFails(s) \/ StoreFails(s) \/ Report(s) PROVE StepOK
  <2>1. /\ scan' = [scan EXCEPT ![s] = Idle]
        /\ UNCHANGED <<db, clock, req, misses, touched>>
    BY <1>2 DEF CollectFails, StoreFails, Report
  <2>2. told' \in [FPs -> {"never", "opened", "resolved"}]
    <3>1. CASE UNCHANGED told
      BY <3>1 DEF TypeOK
    <3>2. CASE Report(s)
      BY <3>2 DEF Report, TypeOK
    <3> QED BY <1>2, <3>1, <3>2 DEF CollectFails, StoreFails
  <2>3. scan' \in [Scanners -> Scan] /\ \A r \in Scanners : ScanHolds(scan'[r])
    BY <1>i, <2>1, ScanUpdate
  <2> QED BY <1>r, <2>1, <2>2, <2>3, NoWrite DEF TypeOK
<1>3. ASSUME NEW out \in Outputs, CollectReturns(s, out) PROVE StepOK
  <2> DEFINE fr == [f \in FPs |-> IF ValidateForIngest(out[f])
                                  THEN out[f] ELSE Unreported]
             x == [scan[s] EXCEPT !.pc = "list", !.now = clock + 1,
                                  !.fresh = fr]
  <2>1. fr \in [FPs -> Vulns \cup {Unreported}]
    BY DEF ValidateForIngest
  <2>2. clock + 1 \in Nat /\ clock + 1 > 0
    BY DEF TypeOK
  <2>3. scan[s].todo = {} /\ scan[s].gone = {}
    BY <1>0, <1>3 DEF CollectReturns, ScanHolds
  <2>4. clock' = clock + 1 /\ UNCHANGED <<db, req, told, misses, touched>>
        /\ scan' = [scan EXCEPT ![s] = x]
    BY <1>3 DEF CollectReturns
  <2> HIDE DEF fr
  <2>5. x \in Scan
    BY <1>0, <2>1, <2>2 DEF Scan
  <2>6. ScanHolds(x)
    BY <1>0, <2>2, <2>3 DEF Scan, ScanHolds
  <2> HIDE DEF x
  <2>7. scan' \in [Scanners -> Scan] /\ \A r \in Scanners : ScanHolds(scan'[r])
    BY <2>4, <2>5, <2>6, ScanUpdate
  <2> QED BY <1>r, <2>2, <2>4, <2>7, NoWrite DEF TypeOK
<1>4. ASSUME ListByTarget(s) PROVE StepOK
  <2> DEFINE mine(f) == TargetOf[f] = scan[s].target
             sn == [f \in FPs |-> IF mine(f) THEN db[f] ELSE NoRecord]
             seen == {f \in FPs : scan[s].fresh[f] # Unreported}
             gn == {f \in FPs \ seen :
                      /\ sn[f] # NoRecord
                      /\ sn[f].status \notin {"resolved", "suppressed"}}
             x == [scan[s] EXCEPT !.pc = "write", !.snap = sn,
                                  !.todo = seen, !.gone = gn]
  <2>1. /\ sn \in [FPs -> Record \cup {NoRecord}]
        /\ seen \in SUBSET FPs /\ gn \in SUBSET FPs
    BY DEF TypeOK
  <2>2. /\ \A f \in seen : scan[s].fresh[f] # Unreported
        /\ \A f \in gn : sn[f] # NoRecord /\ sn[f].status # "resolved"
    OBVIOUS
  <2>3. scan[s].now > 0 /\ scan[s].now \in Nat
    BY <1>0, <1>4 DEF ListByTarget, ScanHolds, Scan
  <2>4. scan' = [scan EXCEPT ![s] = x]
        /\ UNCHANGED <<db, clock, req, told, touched>>
    BY <1>4 DEF ListByTarget
  <2>5. misses' \in [FPs -> Nat]
    <3>1. misses' = [f \in FPs |-> IF mine(f) /\ f \notin seen
                                   THEN misses[f] + 1 ELSE misses[f]]
      BY <1>4 DEF ListByTarget
    <3>2. \A f \in FPs : misses[f] \in Nat /\ misses[f] + 1 \in Nat
      BY DEF TypeOK
    <3> HIDE DEF mine, seen
    <3> QED BY <3>1, <3>2
  <2> HIDE DEF sn, seen, gn, mine
  <2>6. x \in Scan
    BY <1>0, <2>1 DEF Scan
  <2>7. ScanHolds(x)
    BY <1>0, <2>2, <2>3 DEF Scan, ScanHolds
  <2> HIDE DEF x
  <2>8. scan' \in [Scanners -> Scan] /\ \A r \in Scanners : ScanHolds(scan'[r])
    BY <2>4, <2>6, <2>7, ScanUpdate
  <2> QED BY <1>r, <2>4, <2>5, <2>8, NoWrite DEF TypeOK
<1>5. ASSUME NEW f \in FPs, WriteFresh(s, f) PROVE StepOK
  <2> DEFINE prev == scan[s].snap[f]
             rec == IF prev = NoRecord THEN NewRecord(s, f) ELSE Merged(s, f)
             op == IF NewlyOpen(prev)
                   THEN scan[s].opened \cup {[fp |-> f, born |-> rec.born]}
                   ELSE scan[s].opened
             td == scan[s].todo \ {f}
             x == [scan[s] EXCEPT !.todo = td, !.opened = op]
  <2>1. scan[s].pc = "write" /\ f \in scan[s].todo
    BY <1>5 DEF WriteFresh
  <2>2. rec \in Record /\ rec.status # "resolved"
    BY <2>1, RowsWritten
  <2>3. Upsert(f, rec) /\ scan' = [scan EXCEPT ![s] = x]
        /\ misses' = [misses EXCEPT ![f] = 0]
        /\ UNCHANGED <<clock, req, told, touched>>
    BY <1>5 DEF WriteFresh
  <2> HIDE DEF rec
  <2>4. rec.born \in Nat
    BY <2>2 DEF Record
  <2>5. op \in SUBSET [fp : FPs, born : Nat] /\ td \in SUBSET scan[s].todo
    BY <1>0, <2>4 DEF Scan
  <2> HIDE DEF op, td
  <2>6. x \in Scan
    BY <1>0, <2>5 DEF Scan
  <2>7. ScanHolds(x)
    BY <1>0, <2>1, <2>5 DEF Scan, ScanHolds
  <2> HIDE DEF x
  <2>8. scan' \in [Scanners -> Scan] /\ \A r \in Scanners : ScanHolds(scan'[r])
    BY <2>3, <2>6, <2>7, ScanUpdate
  <2>9. misses' \in [FPs -> Nat]
    BY <2>3 DEF TypeOK
  <2> QED BY <1>r, <2>2, <2>3, <2>8, <2>9, OneWrite DEF TypeOK
<1>6. ASSUME NEW f \in FPs, WriteGone(s, f) PROVE StepOK
  <2> DEFINE gn == scan[s].gone \ {f}
             rs == IF Missed(s, f).status = "resolved"
                   THEN scan[s].resolved \cup {f} ELSE scan[s].resolved
             x == [scan[s] EXCEPT !.gone = gn, !.resolved = rs]
  <2>1. scan[s].pc = "write" /\ f \in scan[s].gone
    BY <1>6 DEF WriteGone
  <2>2. /\ Missed(s, f) \in Record
        /\ Missed(s, f).status = "resolved" => Missed(s, f).resolvedAt # 0
    BY <2>1, RowsWritten
  <2>3. Upsert(f, Missed(s, f)) /\ scan' = [scan EXCEPT ![s] = x]
        /\ UNCHANGED <<clock, req, told, misses, touched>>
    BY <1>6 DEF WriteGone
  <2>4. rs \in SUBSET FPs /\ gn \in SUBSET scan[s].gone
    BY <1>0 DEF Scan
  <2> HIDE DEF gn, rs
  <2>5. x \in Scan
    BY <1>0, <2>4 DEF Scan
  <2>6. ScanHolds(x)
    BY <1>0, <2>1, <2>4 DEF Scan, ScanHolds
  <2> HIDE DEF x
  <2>7. scan' \in [Scanners -> Scan] /\ \A r \in Scanners : ScanHolds(scan'[r])
    BY <2>3, <2>5, <2>6, ScanUpdate
  <2> QED BY <1>r, <2>2, <2>3, <2>7, OneWrite DEF TypeOK
<1> QED BY <1>1, <1>2, <1>3, <1>4, <1>5, <1>6 DEF ScanStep

\* So does every step of a status request.
LEMMA UserSteps ==
  ASSUME IInv, NEW u \in Users, UserStep(u)
  PROVE  StepOK
<1> USE DEF IInv
<1>s. /\ scan \in [Scanners -> Scan]
      /\ \A r \in Scanners : ScanHolds(scan[r])
  BY DEF TypeOK, WriterInv
<1>0. /\ req \in [Users -> Request] /\ req[u] \in Request
      /\ \A v \in Users : req[v].pc = "put" => req[v].rec # NoRecord
  BY DEF TypeOK, WriterInv
<1>1. ASSUME NEW f \in FPs, NEW next \in UserStatus, GetFinding(u, f, next)
      PROVE  StepOK
  <2> DEFINE q == [pc |-> "put", fp |-> f, next |-> next, rec |-> db[f]]
  <2>1. q \in Request /\ q.rec # NoRecord
    BY <1>1 DEF GetFinding, Request, TypeOK
  <2>2. req' = [req EXCEPT ![u] = q]
        /\ UNCHANGED <<db, clock, scan, told, misses, touched>>
    BY <1>1 DEF GetFinding
  <2> HIDE DEF q
  <2> QED BY <1>0, <1>s, <2>1, <2>2, NoWrite DEF TypeOK
<1>2. ASSUME PutFails(u) PROVE StepOK
  <2>1. req' = [req EXCEPT ![u] = NoRequest]
        /\ UNCHANGED <<db, clock, scan, told, misses, touched>>
    BY <1>2 DEF PutFails
  <2>2. NoRequest \in Request /\ NoRequest.pc # "put"
    BY IdleTyped DEF NoRequest
  <2> QED BY <1>0, <1>s, <2>1, <2>2, NoWrite DEF TypeOK
<1>3. ASSUME PutStatus(u) PROVE StepOK
  <2> DEFINE f == req[u].fp
             r == [req[u].rec EXCEPT !.status = req[u].next]
  <2>1. req[u].rec \in Record /\ req[u].next \in UserStatus /\ f \in FPs
    BY <1>0, <1>3 DEF PutStatus, Request
  <2>2. r \in Record /\ r.status # "resolved"
    BY <2>1 DEF Record, Status, UserStatus
  <2>3. Upsert(f, r) /\ req' = [req EXCEPT ![u] = NoRequest]
        /\ touched' = touched \cup {f}
        /\ UNCHANGED <<clock, scan, told, misses>>
    BY <1>3 DEF PutStatus
  <2>4. NoRequest \in Request /\ NoRequest.pc # "put"
    BY IdleTyped DEF NoRequest
  <2>5. req' \in [Users -> Request]
        /\ \A v \in Users : req'[v].pc = "put" => req'[v].rec # NoRecord
    BY <1>0, <2>3, <2>4
  <2> HIDE DEF f, r
  <2>6. touched' \in SUBSET FPs /\ misses' \in [FPs -> Nat]
    BY <2>1, <2>3 DEF TypeOK
  <2> QED BY <1>s, <2>1, <2>2, <2>3, <2>5, <2>6, OneWrite
<1> QED BY <1>1, <1>2, <1>3 DEF UserStep

LEMMA NextOK ==
  ASSUME IInv, Next
  PROVE  StepOK
BY ScanSteps, UserSteps DEF Next

LEMMA Invariance == Spec => []IInv
<1>1. IInv /\ [Next]_vars => IInv'
  <2> SUFFICES ASSUME IInv, [Next]_vars PROVE IInv'
    OBVIOUS
  <2>1. CASE Next
    BY <2>1, NextOK DEF StepOK
  <2>2. CASE UNCHANGED vars
    BY <2>2 DEF vars, IInv, TypeOK, WriterInv, ResolvedHasTime
  <2> QED BY <2>1, <2>2
<1> QED BY InitInv, <1>1, PTL DEF Spec

\* Whatever scans, users and store errors do, only well-formed rows reach the
\* findings table and every writer holds typed local state.
THEOREM TypeCorrect == Spec => []TypeOK
BY Invariance, PTL DEF IInv

\* A resolved row always carries the time of its resolution: Reconcile sets
\* Status and ResolvedAt in one Upsert, and no later stale write can bring
\* back the status without the time.
THEOREM ResolutionTimed == Spec => []ResolvedHasTime
BY Invariance, PTL DEF IInv

\* No row is lost and no row changes its id or first_seen, even when two
\* reconciles that both found nothing insert the same finding.
THEOREM IdentityPreserved == Spec => IdentityStable
<1>1. IInv /\ [Next]_vars =>
        [\A f \in FPs : db[f] # NoRecord =>
           /\ db'[f] # NoRecord
           /\ db'[f].born = db[f].born]_vars
  BY NextOK DEF StepOK
<1> QED BY Invariance, <1>1, PTL DEF Spec, IdentityStable
-----------------------------------------------------------------------------
(* Scans of one target that do not overlap *)

\* As they do when the scheduler has one worker, or each target one scanner.
Serial == MaxOverlap = 1 \/ Workers = 1

\* One scan of a target at a time.
Alone ==
  \A r, s \in Scanners :
    scan[r].pc # "idle" /\ scan[s].pc # "idle"
      /\ scan[r].target = scan[s].target => r = s

\* All that a scan x holds is of its target, no row is both refreshed and
\* counted absent, and before it writes it has nothing to report.
Mine(x) ==
  /\ x.pc # "write" => x.opened = {} /\ x.resolved = {}
  /\ \A f \in FPs : x.fresh[f] # Unreported => TargetOf[f] = x.target
  /\ \A f \in x.todo \cup x.gone \cup x.resolved : TargetOf[f] = x.target
  /\ \A e \in x.opened : TargetOf[e.fp] = x.target /\ e.fp \notin x.gone
  /\ x.todo \cap x.gone = {}

Shape == Alone /\ \A s \in Scanners : Mine(scan[s])

\* A step of one scan that stays with its target, or ends.
LEMMA ShapeKept ==
  ASSUME TypeOK, Shape, NEW s \in Scanners, NEW x, Mine(x),
         scan' = [scan EXCEPT ![s] = x],
         x.pc # "idle" => scan[s].pc # "idle" /\ x.target = scan[s].target
  PROVE  Shape'
<1>1. \A r \in Scanners : scan'[r] = IF r = s THEN x ELSE scan[r]
  BY DEF TypeOK
<1>2. Alone'
  BY <1>1 DEF Shape, Alone
<1>3. \A r \in Scanners : Mine(scan'[r])
  <2> HIDE DEF Mine
  <2> QED BY <1>1 DEF Shape
<1>4. (\A r \in Scanners : Mine(scan[r]))'
  BY <1>3 DEF Mine
<1> QED BY <1>2, <1>4 DEF Shape

LEMMA IdleMine == Mine(Idle)
BY DEF Mine, Idle, Nothing

\* A scan starts only where there is none.
LEMMA FirstOfTarget ==
  ASSUME Serial, NEW s \in Scanners, NEW t \in Targets, StartScan(s, t)
  PROVE  Running(t) = {}
<1>1. CASE MaxOverlap = 1
  <2>1. IsFiniteSet(Running(t)) /\ Cardinality(Running(t)) \in Nat
    BY FindingsAssumption, FS_Subset, FS_CardinalityType DEF Running
  <2>2. Cardinality(Running(t)) < MaxOverlap
    BY DEF StartScan
  <2>3. Cardinality(Running(t)) = 0
    BY <1>1, <2>1, <2>2
  <2> QED BY <2>1, <2>3, FS_EmptySet
<1>2. CASE Workers = 1
  <2> DEFINE busy == {r \in Scanners : scan[r].pc # "idle"}
  <2>1. IsFiniteSet(busy) /\ Cardinality(busy) \in Nat
    BY FindingsAssumption, FS_Subset, FS_CardinalityType
  <2>2. Cardinality(busy) < Workers
    BY DEF StartScan
  <2>3. Cardinality(busy) = 0
    BY <1>2, <2>1, <2>2
  <2>4. busy = {}
    BY <2>1, <2>3, FS_EmptySet
  <2> QED BY <2>4 DEF Running
<1> QED BY <1>1, <1>2 DEF Serial

\* The steps before a scan has read the table: it holds nothing yet.
LEMMA EarlyShape ==
  ASSUME Serial, IInv, Shape, NEW s \in Scanners,
         \/ \E t \in Targets : StartScan(s, t)
         \/ CollectFails(s)
         \/ \E out \in Outputs : CollectReturns(s, out)
  PROVE  /\ Shape'
         /\ \A r \in Scanners :
              /\ scan'[r].todo = scan[r].todo /\ scan'[r].gone = scan[r].gone
              /\ \/ scan'[r].snap = scan[r].snap
                 \/ scan[r].todo = {} /\ scan[r].gone = {}
              /\ scan'[r].opened = scan[r].opened
              /\ scan'[r].resolved = scan[r].resolved
         /\ UNCHANGED <<db, req, told, misses, touched>>
<1> USE DEF IInv
<1>0. scan \in [Scanners -> Scan] /\ scan[s] \in Scan /\ Mine(scan[s])
  BY DEF TypeOK, Shape
<1>e. /\ scan[s].todo = {} /\ scan[s].gone = {}
      /\ scan[s].opened = {} /\ scan[s].resolved = {}
  BY <1>0 DEF StartScan, CollectFails, CollectReturns, WriterInv, ScanHolds,
              Mine
<1>u. UNCHANGED <<db, req, told, misses, touched>>
  BY DEF StartScan, CollectFails, CollectReturns
\* It is enough that the new state of s is good and empty.
<1>x. ASSUME NEW x, scan' = [scan EXCEPT ![s] = x],
             x.todo = {}, x.gone = {}, x.opened = {}, x.resolved = {}
      PROVE  \A r \in Scanners :
              /\ scan'[r].todo = scan[r].todo /\ scan'[r].gone = scan[r].gone
              /\ \/ scan'[r].snap = scan[r].snap
                 \/ scan[r].todo = {} /\ scan[r].gone = {}
              /\ scan'[r].opened = scan[r].opened
              /\ scan'[r].resolved = scan[r].resolved
  <2>1. \A r \in Scanners : scan'[r] = IF r = s THEN x ELSE scan[r]
    BY <1>0, <1>x
  <2>2. ASSUME NEW r \in Scanners, r = s
        PROVE  scan'[r] = x /\ scan[r] = scan[s]
    BY <2>1, <2>2
  <2>3. ASSUME NEW r \in Scanners, r # s PROVE scan'[r] = scan[r]
    BY <2>1, <2>3
  <2> QED BY <1>e, <1>x, <2>2, <2>3
<1>1. ASSUME NEW t \in Targets, StartScan(s, t)
      PROVE  \E x : /\ scan' = [scan EXCEPT ![s] = x] /\ Shape'
                    /\ x.todo = {} /\ x.gone = {}
                    /\ x.opened = {} /\ x.resolved = {}
  <2> DEFINE x == [Idle EXCEPT !.pc = "collect", !.target = t]
  <2>1. scan' = [scan EXCEPT ![s] = x]
    BY <1>1 DEF StartScan
  <2>2. /\ x.pc = "collect" /\ x.target = t /\ x.fresh = Nothing
        /\ x.todo = {} /\ x.gone = {} /\ x.opened = {} /\ x.resolved = {}
    BY DEF Idle
  <2> HIDE DEF x
  <2>3. Mine(x)
    BY <2>2 DEF Mine, Nothing
  <2>4. \A r \in Scanners : scan'[r] = IF r = s THEN x ELSE scan[r]
    BY <1>0, <2>1
  <2>5. Running(t) = {}
    BY <1>1, FirstOfTarget
  <2>6. Alone'
    BY <2>2, <2>4, <2>5 DEF Shape, Alone, Running
  <2>7. \A r \in Scanners : Mine(scan'[r])
    <3> HIDE DEF Mine
    <3> QED BY <2>3, <2>4 DEF Shape
  <2>8. Shape'
    BY <2>6, <2>7 DEF Shape, Mine
  <2> QED BY <2>1, <2>2, <2>8
<1>2. ASSUME CollectFails(s)
      PROVE  \E x : /\ scan' = [scan EXCEPT ![s] = x] /\ Shape'
                    /\ x.todo = {} /\ x.gone = {}
                    /\ x.opened = {} /\ x.resolved = {}
  <2>1. scan' = [scan EXCEPT ![s] = Idle]
    BY <1>2 DEF CollectFails
  <2>2. /\ Idle.pc = "idle" /\ Idle.todo = {} /\ Idle.gone = {}
        /\ Idle.opened = {} /\ Idle.resolved = {}
    BY DEF Idle
  <2>3. Shape'
    BY <2>1, <2>2, IdleMine, ShapeKept
  <2> QED BY <2>1, <2>2, <2>3
<1>3. ASSUME NEW out \in Outputs, CollectReturns(s, out)
      PROVE  \E x : /\ scan' = [scan EXCEPT ![s] = x] /\ Shape'
                    /\ x.todo = {} /\ x.gone = {}
                    /\ x.opened = {} /\ x.resolved = {}
  <2> DEFINE fresh == [f \in FPs |-> IF ValidateForIngest(out[f])
                                     THEN out[f] ELSE Unreported]
             x == [scan[s] EXCEPT !.pc = "list", !.now = clock + 1,
                                  !.fresh = fresh]
  <2>1. scan' = [scan EXCEPT ![s] = x] /\ scan[s].pc = "collect"
    BY <1>3 DEF CollectReturns
  <2>2. /\ x.pc = "list" /\ x.target = scan[s].target /\ x.fresh = fresh
        /\ x.todo = {} /\ x.gone = {} /\ x.opened = {} /\ x.resolved = {}
    BY <1>0, <1>e DEF Scan
  <2>3. \A f \in FPs : fresh[f] # Unreported => TargetOf[f] = scan[s].target
    BY <1>3 DEF CollectReturns, ValidateForIngest
  <2> HIDE DEF x, fresh
  <2>4. Mine(x)
    BY <2>2, <2>3 DEF Mine
  <2>5. Shape'
    BY <2>1, <2>2, <2>4, ShapeKept
  <2> QED BY <2>1, <2>2, <2>5
<1>4. PICK x : /\ scan' = [scan EXCEPT ![s] = x] /\ Shape'
               /\ x.todo = {} /\ x.gone = {}
               /\ x.opened = {} /\ x.resolved = {}
  BY <1>1, <1>2, <1>3
<1> QED BY <1>4, <1>x, <1>u

\* The states in which the other steps leave the scan that takes them.
LEMMA ListMoves ==
  ASSUME IInv, Shape, NEW s \in Scanners, ListByTarget(s)
  PROVE  \E x :
           /\ scan' = [scan EXCEPT ![s] = x]
           /\ x.pc = "write" /\ x.target = scan[s].target
           /\ x.fresh = scan[s].fresh
           /\ x.opened = {} /\ x.resolved = {}
           /\ x.todo = {f \in FPs : scan[s].fresh[f] # Unreported}
           /\ \A f \in FPs : TargetOf[f] = scan[s].target => x.snap[f] = db[f]
           /\ \A f \in x.gone : /\ f \in FPs \ x.todo
                                /\ TargetOf[f] = scan[s].target
                                /\ db[f] # NoRecord
                                /\ db[f].status # "resolved"
           /\ Mine(x) /\ Shape'
           /\ UNCHANGED <<db, req, told, touched>>
<1> DEFINE mine(f) == TargetOf[f] = scan[s].target
           sn == [f \in FPs |-> IF mine(f) THEN db[f] ELSE NoRecord]
           seen == {f \in FPs : scan[s].fresh[f] # Unreported}
           gn == {f \in FPs \ seen :
                    /\ sn[f] # NoRecord
                    /\ sn[f].status \notin {"resolved", "suppressed"}}
           x == [scan[s] EXCEPT !.pc = "write", !.snap = sn,
                                !.todo = seen, !.gone = gn]
<1>0. scan[s] \in Scan /\ Mine(scan[s]) /\ scan[s].pc = "list" /\ TypeOK
  BY DEF IInv, TypeOK, Shape, ListByTarget
<1>1. scan' = [scan EXCEPT ![s] = x] /\ UNCHANGED <<db, req, told, touched>>
  BY DEF ListByTarget
<1>2. \A f \in gn : f \in FPs \ seen /\ mine(f) /\ db[f] # NoRecord
                    /\ db[f].status # "resolved"
  OBVIOUS
<1>3. \A f \in FPs : mine(f) => sn[f] = db[f]
  OBVIOUS
<1>4. \A f \in seen : f \in FPs /\ mine(f)
  BY <1>0 DEF Mine
<1> HIDE DEF sn, gn
<1>5. /\ x.pc = "write" /\ x.target = scan[s].target
      /\ x.fresh = scan[s].fresh /\ x.snap = sn
      /\ x.opened = {} /\ x.resolved = {} /\ x.todo = seen /\ x.gone = gn
  BY <1>0 DEF Scan, Mine
<1> HIDE DEF x, seen
<1>6. Mine(x)
  BY <1>0, <1>2, <1>4, <1>5 DEF Mine
<1>7. Shape'
  BY <1>0, <1>1, <1>5, <1>6, ShapeKept
<1> HIDE DEF mine
<1>8. seen = {f \in FPs : scan[s].fresh[f] # Unreported}
  BY DEF seen
<1>9. /\ \A f \in x.gone : f \in FPs \ x.todo /\ TargetOf[f] = scan[s].target
                          /\ db[f] # NoRecord /\ db[f].status # "resolved"
      /\ \A f \in FPs : TargetOf[f] = scan[s].target => x.snap[f] = db[f]
  BY <1>2, <1>3, <1>5 DEF mine
<1> QED BY <1>1, <1>5, <1>6, <1>7, <1>8, <1>9

LEMMA FreshMoves ==
  ASSUME IInv, Shape, NEW s \in Scanners, NEW f \in FPs, WriteFresh(s, f)
  PROVE  \E r, x :
           /\ r \in Record
           /\ scan' = [scan EXCEPT ![s] = x]
           /\ x.pc = "write" /\ x.target = scan[s].target
           /\ x.snap = scan[s].snap /\ x.gone = scan[s].gone
           /\ x.todo = scan[s].todo \ {f} /\ x.resolved = scan[s].resolved
           /\ x.opened = IF NewlyOpen(scan[s].snap[f])
                         THEN scan[s].opened \cup {[fp |-> f, born |-> r.born]}
                         ELSE scan[s].opened
           /\ Upsert(f, r) /\ r.status # "resolved" /\ r.streak = 0
           /\ scan[s].snap[f] # NoRecord => r.born = scan[s].snap[f].born
           /\ Shape' /\ scan[s].pc = "write" /\ f \in scan[s].todo
           /\ misses' = [misses EXCEPT ![f] = 0]
           /\ UNCHANGED <<req, told, touched>>
<1> DEFINE prev == scan[s].snap[f]
           r == IF prev = NoRecord THEN NewRecord(s, f) ELSE Merged(s, f)
           op == IF NewlyOpen(prev)
                 THEN scan[s].opened \cup {[fp |-> f, born |-> r.born]}
                 ELSE scan[s].opened
           td == scan[s].todo \ {f}
           x == [scan[s] EXCEPT !.todo = td, !.opened = op]
<1>0. /\ scan[s] \in Scan /\ Mine(scan[s]) /\ TypeOK /\ WriterInv
      /\ scan[s].pc = "write" /\ f \in scan[s].todo
  BY DEF IInv, TypeOK, Shape, WriteFresh
<1>1. /\ scan' = [scan EXCEPT ![s] = x] /\ Upsert(f, r)
      /\ misses' = [misses EXCEPT ![f] = 0]
      /\ UNCHANGED <<req, told, touched>>
  BY DEF WriteFresh
<1>2. r \in Record /\ r.status # "resolved"
  BY <1>0, RowsWritten
<1>3. r.streak = 0 /\ (prev # NoRecord => r.born = prev.born)
  <2>1. CASE prev = NoRecord
    BY <2>1 DEF NewRecord
  <2>2. CASE prev # NoRecord
    <3>1. prev \in Record
      BY <1>0, <2>2 DEF Scan
    <3>2. r = Merged(s, f)
      BY <2>2
    <3> QED BY <2>2, <3>1, <3>2 DEF Merged, Record
  <2> QED BY <2>1, <2>2
<1> HIDE DEF r
<1>4. op = IF NewlyOpen(prev)
           THEN scan[s].opened \cup {[fp |-> f, born |-> r.born]}
           ELSE scan[s].opened
  OBVIOUS
<1>5. \A e \in op : e \in scan[s].opened \/ e.fp = f
  OBVIOUS
<1> HIDE DEF op
<1>6. /\ x.pc = "write" /\ x.target = scan[s].target
      /\ x.fresh = scan[s].fresh /\ x.snap = scan[s].snap
      /\ x.gone = scan[s].gone /\ x.todo = td /\ x.opened = op
      /\ x.resolved = scan[s].resolved
  BY <1>0 DEF Scan
<1> HIDE DEF x
<1>7. Mine(x)
  BY <1>0, <1>5, <1>6 DEF Mine
<1>8. Shape'
  BY <1>0, <1>1, <1>6, <1>7, ShapeKept
<1> HIDE DEF prev
<1>9. /\ x.opened = IF NewlyOpen(scan[s].snap[f])
                    THEN scan[s].opened \cup {[fp |-> f, born |-> r.born]}
                    ELSE scan[s].opened
      /\ scan[s].snap[f] # NoRecord => r.born = scan[s].snap[f].born
  BY <1>3, <1>4, <1>6 DEF prev
<1> QED BY <1>0, <1>1, <1>2, <1>3, <1>6, <1>8, <1>9

LEMMA GoneMoves ==
  ASSUME IInv, Shape, NEW s \in Scanners, NEW f \in FPs, WriteGone(s, f)
  PROVE  \E r, x :
           /\ r \in Record
           /\ scan' = [scan EXCEPT ![s] = x]
           /\ x.pc = "write" /\ x.target = scan[s].target
           /\ x.snap = scan[s].snap /\ x.gone = scan[s].gone \ {f}
           /\ x.todo = {} /\ x.opened = scan[s].opened
           /\ x.resolved = IF r.status = "resolved"
                           THEN scan[s].resolved \cup {f}
                           ELSE scan[s].resolved
           /\ Upsert(f, r) /\ r.streak = scan[s].snap[f].streak + 1
           /\ r.born = scan[s].snap[f].born
           /\ r.status = "resolved" => r.streak >= ResolveAfterOrDefault
           /\ Shape' /\ scan[s].pc = "write" /\ scan[s].todo = {}
           /\ f \in scan[s].gone
           /\ UNCHANGED <<req, told, misses, touched>>
<1> DEFINE prev == scan[s].snap[f]
           r == Missed(s, f)
           gn == scan[s].gone \ {f}
           rs == IF r.status = "resolved"
                 THEN scan[s].resolved \cup {f} ELSE scan[s].resolved
           x == [scan[s] EXCEPT !.gone = gn, !.resolved = rs]
<1>0. /\ scan[s] \in Scan /\ Mine(scan[s]) /\ TypeOK /\ WriterInv
      /\ scan[s].pc = "write" /\ f \in scan[s].gone /\ scan[s].todo = {}
  BY DEF IInv, TypeOK, Shape, WriteGone
<1>1. /\ scan' = [scan EXCEPT ![s] = x] /\ Upsert(f, r)
      /\ UNCHANGED <<req, told, misses, touched>>
  BY DEF WriteGone
<1>2. r \in Record
  BY <1>0, RowsWritten
<1>3. prev \in Record /\ prev.status # "resolved"
  BY <1>0 DEF WriterInv, ScanHolds, Scan
<1>4. /\ r.streak = prev.streak + 1 /\ r.born = prev.born
      /\ r.status = "resolved" => r.streak >= ResolveAfterOrDefault
  <2> DEFINE now == scan[s].now
  <2>1. r = IF prev.streak + 1 >= ResolveAfterOrDefault
            THEN [prev EXCEPT !.streak = prev.streak + 1, !.status = "resolved",
                              !.resolvedAt = now]
            ELSE [prev EXCEPT !.streak = prev.streak + 1]
    BY DEF Missed
  <2> HIDE DEF r, prev, now
  <2>2. CASE prev.streak + 1 >= ResolveAfterOrDefault
    BY <1>3, <2>1, <2>2 DEF Record
  <2>3. CASE ~(prev.streak + 1 >= ResolveAfterOrDefault)
    BY <1>3, <2>1, <2>3 DEF Record
  <2> QED BY <2>2, <2>3
<1> HIDE DEF r
<1>5. rs = IF r.status = "resolved"
           THEN scan[s].resolved \cup {f} ELSE scan[s].resolved
  OBVIOUS
<1> HIDE DEF rs
<1>6. /\ x.pc = "write" /\ x.target = scan[s].target
      /\ x.fresh = scan[s].fresh /\ x.snap = scan[s].snap
      /\ x.gone = gn /\ x.todo = {} /\ x.opened = scan[s].opened
      /\ x.resolved = rs
  BY <1>0 DEF Scan
<1> HIDE DEF x
<1>7. Mine(x)
  BY <1>0, <1>5, <1>6 DEF Mine
<1>8. Shape'
  BY <1>0, <1>1, <1>6, <1>7, ShapeKept
<1> QED BY <1>0, <1>1, <1>2, <1>4, <1>5, <1>6, <1>8 DEF prev

\* A scan ends, by its report or by an error of the store.
LEMMA EndShape ==
  ASSUME IInv, Shape, NEW s \in Scanners, Report(s) \/ StoreFails(s)
  PROVE  /\ Shape' /\ scan' = [scan EXCEPT ![s] = Idle]
         /\ UNCHANGED <<db, req, misses, touched>>
<1>1. /\ scan' = [scan EXCEPT ![s] = Idle]
      /\ UNCHANGED <<db, req, misses, touched>>
  BY DEF Report, StoreFails
<1>2. Idle.pc = "idle"
  BY DEF Idle
<1> QED BY <1>1, <1>2, IdleMine, ShapeKept DEF IInv

LEMMA ShapeStep ==
  ASSUME Serial, IInv, Shape, Next
  PROVE  Shape'
<1>1. ASSUME NEW s \in Scanners, ScanStep(s) PROVE Shape'
  BY <1>1, EarlyShape, ListMoves, FreshMoves, GoneMoves, EndShape DEF ScanStep
<1>2. ASSUME NEW u \in Users, UserStep(u) PROVE Shape'
  BY <1>2 DEF UserStep, GetFinding, PutStatus, PutFails, Shape, Alone, Mine
<1> QED BY <1>1, <1>2 DEF Next

\* Between its read and its writes nobody else inserts a row of a scan x, or
\* announces one; what it has written is still so, and not yet announced.
Fits(x) ==
  /\ \A f \in x.todo \cup x.gone :
       /\ x.snap[f] = NoRecord => db[f] = NoRecord
       /\ x.snap[f] # NoRecord =>
            /\ db[f] # NoRecord /\ db[f].born = x.snap[f].born
            /\ x.snap[f].status = "resolved" => told[f] = "resolved"
  /\ \A e \in x.opened :
       /\ db[e.fp] # NoRecord /\ db[e.fp].born = e.born
       /\ db[e.fp].status # "resolved"
       /\ told[e.fp] # "opened"
  /\ \A f \in x.resolved : db[f] # NoRecord

\* Who hears of a finding hears of a row; and no row is silent.
ToldInv ==
  \A f \in FPs :
    /\ db[f] = NoRecord => told[f] = "never"
    /\ db[f] # NoRecord =>
         \/ told[f] # "never"
         \/ \E s \in Scanners : \E e \in scan[s].opened : e.fp = f
    /\ db[f] # NoRecord /\ db[f].status = "resolved" =>
         \/ told[f] = "resolved"
         \/ \E s \in Scanners : f \in scan[s].resolved

SilentInv ==
  /\ \A s \in Scanners : Fits(scan[s])
  /\ ToldInv
  /\ \A u \in Users : req[u].pc = "put" => db[req[u].fp] # NoRecord

\* Steps that leave the table and the reports as they are.
LEMMA SilentKept ==
  ASSUME SilentInv, UNCHANGED <<db, told>>,
         \A s \in Scanners :
           /\ scan'[s].opened = scan[s].opened
           /\ scan'[s].resolved = scan[s].resolved
           /\ \A f \in scan'[s].todo \cup scan'[s].gone :
                /\ scan'[s].snap[f] = NoRecord => db[f] = NoRecord
                /\ scan'[s].snap[f] # NoRecord =>
                     /\ db[f] # NoRecord /\ db[f].born = scan'[s].snap[f].born
                     /\ scan'[s].snap[f].status = "resolved"
                          => told[f] = "resolved",
         \A u \in Users : req'[u].pc = "put" => db[req'[u].fp] # NoRecord
  PROVE  SilentInv'
<1>1. \A s \in Scanners : Fits(scan[s])'
  BY DEF SilentInv, Fits
<1>2. ToldInv'
  BY DEF SilentInv, ToldInv
<1> QED BY <1>1, <1>2 DEF SilentInv

\* A row f of a target is still to be written, or reported, by no scan but s.
LEMMA OnlyOne ==
  ASSUME IInv, Shape, NEW s \in Scanners, NEW r \in Scanners \ {s},
         NEW f \in FPs, scan[s].pc # "idle", TargetOf[f] = scan[s].target
  PROVE  /\ f \notin scan[r].todo \cup scan[r].gone \cup scan[r].resolved
         /\ \A e \in scan[r].opened : e.fp # f
<1>1. ScanHolds(scan[r]) /\ Mine(scan[r])
  BY DEF IInv, WriterInv, Shape
<1>2. CASE scan[r].pc = "idle"
  BY <1>1, <1>2 DEF ScanHolds, Mine
<1>3. CASE scan[r].pc # "idle"
  <2>1. scan[r].target # scan[s].target
    BY <1>3 DEF Shape, Alone
  <2> QED BY <1>1, <2>1 DEF Mine
<1> QED BY <1>2, <1>3

\* An upsert writes the row, but not over id and first_seen.
LEMMA UpsertWrites ==
  ASSUME NEW f \in FPs, NEW r \in Record,
         db \in [FPs -> Record \cup {NoRecord}], Upsert(f, r)
  PROVE  /\ db'[f] # NoRecord /\ db'[f].status = r.status
         /\ db'[f].streak = r.streak
         /\ db'[f].born = IF db[f] = NoRecord THEN r.born ELSE db[f].born
         /\ \A g \in FPs \ {f} : db'[g] = db[g]
<1> DEFINE x == IF db[f] = NoRecord THEN r ELSE [r EXCEPT !.born = db[f].born]
<1>1. /\ x \in Record /\ x.status = r.status /\ x.streak = r.streak
      /\ x.born = IF db[f] = NoRecord THEN r.born ELSE db[f].born
  BY DEF Record
<1>2. x # NoRecord
  BY <1>1, FindingsAssumption
<1>3. db' = [db EXCEPT ![f] = x]
  BY DEF Upsert
<1> HIDE DEF x
<1> QED BY <1>1, <1>2, <1>3

LEMMA SilentList ==
  ASSUME IInv, Shape, SilentInv, NEW s \in Scanners, ListByTarget(s)
  PROVE  SilentInv'
<1>1. PICK x :
        /\ scan' = [scan EXCEPT ![s] = x]
        /\ x.opened = {} /\ x.resolved = {}
        /\ x.todo = {f \in FPs : scan[s].fresh[f] # Unreported}
        /\ \A f \in FPs : TargetOf[f] = scan[s].target => x.snap[f] = db[f]
        /\ \A f \in x.gone : /\ f \in FPs \ x.todo
                             /\ TargetOf[f] = scan[s].target
                             /\ db[f] # NoRecord
                             /\ db[f].status # "resolved"
        /\ UNCHANGED <<db, req, told, touched>>
  BY ListMoves
<1>2. \A r \in Scanners : scan'[r] = IF r = s THEN x ELSE scan[r]
  BY <1>1 DEF IInv, TypeOK
<1>3. /\ scan[s].pc = "list" /\ Mine(scan[s])
      /\ scan[s].opened = {} /\ scan[s].resolved = {}
  BY DEF ListByTarget, Shape, Mine
<1>4. \A f \in x.todo \cup x.gone :
        f \in FPs /\ x.snap[f] = db[f] /\ TargetOf[f] = scan[s].target
  BY <1>1, <1>3 DEF Mine
<1>5. ASSUME NEW f \in x.todo \cup x.gone, x.snap[f] # NoRecord,
             x.snap[f].status = "resolved"
      PROVE  told[f] = "resolved"
  <2>1. \A r \in Scanners : f \notin scan[r].resolved
    BY <1>3, <1>4, OnlyOne
  <2> QED BY <1>4, <1>5, <2>1 DEF SilentInv, ToldInv
<1>6. ASSUME NEW r \in Scanners
      PROVE  /\ scan'[r].opened = scan[r].opened
             /\ scan'[r].resolved = scan[r].resolved
             /\ \A f \in scan'[r].todo \cup scan'[r].gone :
                  /\ scan'[r].snap[f] = NoRecord => db[f] = NoRecord
                  /\ scan'[r].snap[f] # NoRecord =>
                       /\ db[f] # NoRecord
                       /\ db[f].born = scan'[r].snap[f].born
                       /\ scan'[r].snap[f].status = "resolved"
                            => told[f] = "resolved"
  <2>1. CASE r = s
    <3>1. scan'[r] = x /\ scan[r] = scan[s]
      BY <1>2, <2>1
    <3>2. \A f \in x.todo \cup x.gone :
            /\ x.snap[f] = NoRecord => db[f] = NoRecord
            /\ x.snap[f] # NoRecord =>
                 /\ db[f] # NoRecord /\ db[f].born = x.snap[f].born
                 /\ x.snap[f].status = "resolved" => told[f] = "resolved"
      BY <1>4, <1>5
    <3>3. x.opened = scan[s].opened /\ x.resolved = scan[s].resolved
      BY <1>1, <1>3
    <3> QED BY <3>1, <3>2, <3>3
  <2>2. CASE r # s
    <3>1. scan'[r] = scan[r]
      BY <1>2, <2>2
    <3> QED BY <3>1 DEF SilentInv, Fits
  <2> QED BY <2>1, <2>2
<1>7. \A u \in Users : req'[u].pc = "put" => db[req'[u].fp] # NoRecord
  BY <1>1 DEF SilentInv
<1>8. UNCHANGED <<db, told>>
  BY <1>1
<1> QED BY <1>6, <1>7, <1>8, SilentKept

LEMMA SilentFresh ==
  ASSUME IInv, Shape, SilentInv,
         NEW s \in Scanners, NEW f \in FPs, WriteFresh(s, f)
  PROVE  SilentInv'
<1>1. PICK w, x :
        /\ w \in Record
        /\ scan' = [scan EXCEPT ![s] = x]
        /\ x.snap = scan[s].snap /\ x.gone = scan[s].gone
        /\ x.todo = scan[s].todo \ {f} /\ x.resolved = scan[s].resolved
        /\ x.opened = IF NewlyOpen(scan[s].snap[f])
                      THEN scan[s].opened \cup {[fp |-> f, born |-> w.born]}
                      ELSE scan[s].opened
        /\ Upsert(f, w) /\ w.status # "resolved"
        /\ scan[s].snap[f] # NoRecord => w.born = scan[s].snap[f].born
        /\ scan[s].pc = "write" /\ f \in scan[s].todo
        /\ UNCHANGED <<req, told, touched>>
  BY FreshMoves
<1>2. \A r \in Scanners : scan'[r] = IF r = s THEN x ELSE scan[r]
  BY <1>1 DEF IInv, TypeOK
<1>3. /\ db'[f] # NoRecord /\ db'[f].status # "resolved"
      /\ db'[f].born = IF db[f] = NoRecord THEN w.born ELSE db[f].born
      /\ \A g \in FPs \ {f} : db'[g] = db[g]
  BY <1>1, UpsertWrites DEF IInv, TypeOK
<1>4. Fits(scan[s]) /\ Mine(scan[s]) /\ scan[s] \in Scan
  BY DEF SilentInv, Shape, IInv, TypeOK
<1>5. db'[f].born = w.born
  BY <1>1, <1>3, <1>4 DEF Fits
\* A finding that is announced was told last to be resolved, or never.
<1>6. NewlyOpen(scan[s].snap[f]) => told[f] # "opened"
  <2>1. db[f] = NoRecord => told[f] = "never"
    BY DEF SilentInv, ToldInv
  <2> QED BY <1>1, <1>4, <2>1 DEF Fits, NewlyOpen
<1>7. \A e \in x.opened : e \in scan[s].opened \/
                          /\ e.fp = f /\ e.born = w.born
                          /\ NewlyOpen(scan[s].snap[f])
  BY <1>1
<1>8. \A e \in scan[s].opened : e.fp \in FPs
  BY <1>4 DEF Scan
<1>9. Fits(x)'
  <2>1. ASSUME NEW g \in x.todo \cup x.gone
        PROVE  g \in scan[s].todo \cup scan[s].gone /\ g \in FPs \ {f}
    BY <1>1, <1>4 DEF Mine, Scan
  <2>2. ASSUME NEW e \in x.opened
        PROVE  /\ db'[e.fp] # NoRecord /\ db'[e.fp].born = e.born
               /\ db'[e.fp].status # "resolved" /\ told'[e.fp] # "opened"
    <3>1. CASE e.fp = f /\ NewlyOpen(scan[s].snap[f]) /\ e.born = w.born
      BY <1>1, <1>3, <1>5, <1>6, <3>1
    <3>2. CASE e \in scan[s].opened /\ e.fp # f
      BY <1>1, <1>3, <1>4, <1>8, <3>2 DEF Fits
    <3>3. CASE e \in scan[s].opened /\ e.fp = f
      BY <1>1, <1>3, <1>4, <3>3 DEF Fits
    <3> QED BY <1>7, <3>1, <3>2, <3>3
  <2>3. \A g \in x.resolved : db'[g] # NoRecord
    BY <1>1, <1>3, <1>4 DEF Fits, Scan
  <2>4. ASSUME NEW g \in x.todo \cup x.gone
        PROVE  /\ x.snap[g] = NoRecord => db'[g] = NoRecord
               /\ x.snap[g] # NoRecord =>
                    /\ db'[g] # NoRecord /\ db'[g].born = x.snap[g].born
                    /\ x.snap[g].status = "resolved" => told'[g] = "resolved"
    BY <1>1, <1>3, <1>4, <2>1 DEF Fits
  <2> QED BY <2>2, <2>3, <2>4 DEF Fits
<1>10. ASSUME NEW r \in Scanners PROVE Fits(scan[r])'
  <2>1. CASE r = s
    <3>1. scan'[r] = x
      BY <1>2, <2>1
    <3> QED BY <1>9, <3>1 DEF Fits
  <2>2. CASE r # s
    <3>1. scan'[r] = scan[r] /\ scan[r] \in Scan /\ Fits(scan[r])
      BY <1>2, <2>2 DEF IInv, TypeOK, SilentInv
    <3>2. TargetOf[f] = scan[s].target /\ scan[s].pc # "idle"
      BY <1>1, <1>4 DEF Mine
    <3>3. /\ f \notin scan[r].todo \cup scan[r].gone \cup scan[r].resolved
          /\ \A e \in scan[r].opened : e.fp # f
      BY <2>2, <3>2, OnlyOne
    <3>4. /\ \A g \in scan[r].todo \cup scan[r].gone \cup scan[r].resolved :
               db'[g] = db[g]
          /\ \A e \in scan[r].opened : db'[e.fp] = db[e.fp]
      BY <1>3, <3>1, <3>3 DEF Scan
    <3> QED BY <1>1, <3>1, <3>4 DEF Fits
  <2> QED BY <2>1, <2>2
<1>11. ToldInv'
  <2> SUFFICES ASSUME NEW g \in FPs
        PROVE  /\ db'[g] = NoRecord => told'[g] = "never"
               /\ db'[g] # NoRecord =>
                    \/ told'[g] # "never"
                    \/ \E r \in Scanners : \E e \in scan'[r].opened : e.fp = g
               /\ db'[g] # NoRecord /\ db'[g].status = "resolved" =>
                    \/ told'[g] = "resolved"
                    \/ \E r \in Scanners : g \in scan'[r].resolved
    BY DEF ToldInv
  <2>1. \A r \in Scanners : /\ scan[r].opened \subseteq scan'[r].opened
                            /\ scan'[r].resolved = scan[r].resolved
    <3>1. scan[s].opened \subseteq x.opened
      BY <1>1
    <3> QED BY <1>1, <1>2, <3>1
  <2>2. CASE g # f
    BY <1>1, <1>3, <2>1, <2>2 DEF SilentInv, ToldInv
  <2>3. CASE g = f
    <3>1. CASE NewlyOpen(scan[s].snap[f])
      <4>1. [fp |-> f, born |-> w.born] \in scan'[s].opened
        BY <1>1, <1>2, <3>1
      <4> QED BY <1>3, <2>3, <4>1
    <3>2. CASE ~NewlyOpen(scan[s].snap[f])
      <4>1. db[f] # NoRecord
        BY <1>1, <1>4, <3>2 DEF NewlyOpen, Fits
      <4> QED BY <1>1, <1>3, <2>1, <2>3, <4>1 DEF SilentInv, ToldInv
    <3> QED BY <3>1, <3>2
  <2> QED BY <2>2, <2>3
<1>12. \A u \in Users : req'[u].pc = "put" => db'[req'[u].fp] # NoRecord
  BY <1>1, <1>3 DEF SilentInv, IInv, TypeOK, Request
<1> QED BY <1>10, <1>11, <1>12 DEF SilentInv

LEMMA SilentGone ==
  ASSUME IInv, Shape, SilentInv,
         NEW s \in Scanners, NEW f \in FPs, WriteGone(s, f)
  PROVE  SilentInv'
<1>1. PICK w, x :
        /\ w \in Record
        /\ scan' = [scan EXCEPT ![s] = x]
        /\ x.snap = scan[s].snap /\ x.gone = scan[s].gone \ {f}
        /\ x.todo = {} /\ x.opened = scan[s].opened
        /\ x.resolved = IF w.status = "resolved"
                        THEN scan[s].resolved \cup {f} ELSE scan[s].resolved
        /\ Upsert(f, w) /\ scan[s].pc = "write" /\ f \in scan[s].gone
        /\ UNCHANGED <<req, told, misses, touched>>
  BY GoneMoves
<1>2. \A r \in Scanners : scan'[r] = IF r = s THEN x ELSE scan[r]
  BY <1>1 DEF IInv, TypeOK
<1>3. /\ db'[f] # NoRecord /\ db'[f].status = w.status
      /\ db'[f].born = IF db[f] = NoRecord THEN w.born ELSE db[f].born
      /\ \A g \in FPs \ {f} : db'[g] = db[g]
  BY <1>1, UpsertWrites DEF IInv, TypeOK
<1>4. Fits(scan[s]) /\ Mine(scan[s]) /\ scan[s] \in Scan
  BY DEF SilentInv, Shape, IInv, TypeOK
<1>5. db[f] # NoRecord
  <2>1. scan[s].snap[f] # NoRecord
    BY <1>1 DEF IInv, WriterInv, ScanHolds
  <2> QED BY <1>1, <1>4, <2>1 DEF Fits
<1>6. Fits(x)'
  <2>1. \A g \in x.todo \cup x.gone : g \in scan[s].gone /\ g \in FPs \ {f}
    BY <1>1, <1>4 DEF Scan
  <2>2. \A e \in x.opened : e \in scan[s].opened /\ e.fp \in FPs \ {f}
    BY <1>1, <1>4 DEF Mine, Scan
  <2>3. \A g \in x.resolved : db'[g] # NoRecord
    BY <1>1, <1>3, <1>4 DEF Fits, Scan
  <2> QED BY <1>1, <1>3, <1>4, <2>1, <2>2, <2>3 DEF Fits
<1>7. ASSUME NEW r \in Scanners PROVE Fits(scan[r])'
  <2>1. CASE r = s
    <3>1. scan'[r] = x
      BY <1>2, <2>1
    <3> QED BY <1>6, <3>1 DEF Fits
  <2>2. CASE r # s
    <3>1. scan'[r] = scan[r] /\ scan[r] \in Scan /\ Fits(scan[r])
      BY <1>2, <2>2 DEF IInv, TypeOK, SilentInv
    <3>2. TargetOf[f] = scan[s].target /\ scan[s].pc # "idle"
      BY <1>1, <1>4 DEF Mine
    <3>3. /\ f \notin scan[r].todo \cup scan[r].gone \cup scan[r].resolved
          /\ \A e \in scan[r].opened : e.fp # f
      BY <2>2, <3>2, OnlyOne
    <3>4. /\ \A g \in scan[r].todo \cup scan[r].gone \cup scan[r].resolved :
               db'[g] = db[g]
          /\ \A e \in scan[r].opened : db'[e.fp] = db[e.fp]
      BY <1>3, <3>1, <3>3 DEF Scan
    <3> QED BY <1>1, <3>1, <3>4 DEF Fits
  <2> QED BY <2>1, <2>2
<1>8. ToldInv'
  <2> SUFFICES ASSUME NEW g \in FPs
        PROVE  /\ db'[g] = NoRecord => told'[g] = "never"
               /\ db'[g] # NoRecord =>
                    \/ told'[g] # "never"
                    \/ \E r \in Scanners : \E e \in scan'[r].opened : e.fp = g
               /\ db'[g] # NoRecord /\ db'[g].status = "resolved" =>
                    \/ told'[g] = "resolved"
                    \/ \E r \in Scanners : g \in scan'[r].resolved
    BY DEF ToldInv
  <2>1. \A r \in Scanners : /\ scan[r].resolved \subseteq scan'[r].resolved
                            /\ scan'[r].opened = scan[r].opened
    <3>1. scan[s].resolved \subseteq x.resolved
      BY <1>1
    <3> QED BY <1>1, <1>2, <3>1
  <2>2. CASE g # f
    BY <1>1, <1>3, <2>1, <2>2 DEF SilentInv, ToldInv
  <2>3. CASE g = f
    <3>1. w.status = "resolved" => f \in scan'[s].resolved
      BY <1>1, <1>2
    <3> QED BY <1>1, <1>3, <1>5, <2>1, <2>3, <3>1 DEF SilentInv, ToldInv
  <2> QED BY <2>2, <2>3
<1>9. \A u \in Users : req'[u].pc = "put" => db'[req'[u].fp] # NoRecord
  BY <1>1, <1>3 DEF SilentInv, IInv, TypeOK, Request
<1> QED BY <1>7, <1>8, <1>9 DEF SilentInv

LEMMA SilentReport ==
  ASSUME IInv, Shape, SilentInv, NEW s \in Scanners, Report(s)
  PROVE  SilentInv'
<1>1. /\ scan' = [scan EXCEPT ![s] = Idle] /\ UNCHANGED <<db, req>>
      /\ scan[s].pc = "write"
      /\ \A f \in FPs :
           told'[f] = IF f \in scan[s].resolved THEN "resolved"
                      ELSE IF f \in OpenedFPs(s) THEN "opened" ELSE told[f]
  BY DEF Report
<1>2. \A r \in Scanners : scan'[r] = IF r = s THEN Idle ELSE scan[r]
  BY <1>1 DEF IInv, TypeOK
<1>3. /\ Idle.todo = {} /\ Idle.gone = {}
      /\ Idle.opened = {} /\ Idle.resolved = {}
  BY DEF Idle
<1>4. Fits(scan[s]) /\ Mine(scan[s]) /\ scan[s] \in Scan
  BY DEF SilentInv, Shape, IInv, TypeOK
<1>5. ASSUME NEW f \in FPs, TargetOf[f] # scan[s].target
      PROVE  told'[f] = told[f]
  BY <1>1, <1>4, <1>5 DEF OpenedFPs, Mine
<1>6. ASSUME NEW r \in Scanners PROVE Fits(scan[r])'
  <2>1. CASE r = s
    <3>1. scan'[r] = Idle
      BY <1>2, <2>1
    <3> QED BY <1>3, <3>1 DEF Fits
  <2>2. CASE r # s
    <3>1. scan'[r] = scan[r] /\ scan[r] \in Scan /\ Fits(scan[r])
      BY <1>2, <2>2 DEF IInv, TypeOK, SilentInv
    <3>2. ASSUME NEW f \in FPs, TargetOf[f] = scan[s].target
          PROVE  /\ f \notin scan[r].todo \cup scan[r].gone
                 /\ \A e \in scan[r].opened : e.fp # f
      BY <1>1, <2>2, <3>2, OnlyOne
    <3>3. /\ \A f \in scan[r].todo \cup scan[r].gone : told'[f] = told[f]
          /\ \A e \in scan[r].opened : told'[e.fp] = told[e.fp]
      BY <1>5, <3>1, <3>2 DEF Scan
    <3> QED BY <1>1, <3>1, <3>3 DEF Fits
  <2> QED BY <2>1, <2>2
<1>7. ToldInv'
  <2> SUFFICES ASSUME NEW f \in FPs
        PROVE  /\ db[f] = NoRecord => told'[f] = "never"
               /\ db[f] # NoRecord =>
                    \/ told'[f] # "never"
                    \/ \E r \in Scanners : \E e \in scan'[r].opened : e.fp = f
               /\ db[f] # NoRecord /\ db[f].status = "resolved" =>
                    \/ told'[f] = "resolved"
                    \/ \E r \in Scanners : f \in scan'[r].resolved
    BY <1>1 DEF ToldInv
  <2>1. ASSUME db[f] = NoRecord PROVE told'[f] = "never"
    BY <1>1, <1>4, <2>1 DEF OpenedFPs, Fits, SilentInv, ToldInv
  <2>2. ASSUME db[f] # NoRecord
        PROVE  \/ told'[f] # "never"
               \/ \E r \in Scanners : \E e \in scan'[r].opened : e.fp = f
    <3>1. CASE f \in OpenedFPs(s) \/ told[f] # "never"
      BY <1>1, <3>1
    <3>2. CASE ~(f \in OpenedFPs(s) \/ told[f] # "never")
      <4>1. PICK r \in Scanners : \E e \in scan[r].opened : e.fp = f
        BY <2>2, <3>2 DEF SilentInv, ToldInv
      <4>2. r # s
        BY <3>2, <4>1 DEF OpenedFPs
      <4> QED BY <1>2, <4>1, <4>2
    <3> QED BY <3>1, <3>2
  <2>3. ASSUME db[f] # NoRecord, db[f].status = "resolved"
        PROVE  \/ told'[f] = "resolved"
               \/ \E r \in Scanners : f \in scan'[r].resolved
    <3>1. f \notin OpenedFPs(s)
      BY <1>4, <2>3 DEF OpenedFPs, Fits
    <3>2. CASE f \in scan[s].resolved \/ told[f] = "resolved"
      BY <1>1, <3>1, <3>2
    <3>3. CASE ~(f \in scan[s].resolved \/ told[f] = "resolved")
      <4>1. PICK r \in Scanners : f \in scan[r].resolved
        BY <2>3, <3>3 DEF SilentInv, ToldInv
      <4>2. r # s
        BY <3>3, <4>1
      <4> QED BY <1>2, <4>1, <4>2
    <3> QED BY <3>2, <3>3
  <2> QED BY <2>1, <2>2, <2>3
<1>8. \A u \in Users : req'[u].pc = "put" => db'[req'[u].fp] # NoRecord
  BY <1>1 DEF SilentInv
<1> QED BY <1>6, <1>7, <1>8 DEF SilentInv

\* A status request changes the status of a row, to anything but resolved.
LEMMA SilentUser ==
  ASSUME IInv, SilentInv, NEW u \in Users, UserStep(u)
  PROVE  SilentInv'
<1>0. req \in [Users -> Request]
  BY DEF IInv, TypeOK
<1>1. ASSUME NEW f \in FPs, NEW next \in UserStatus, GetFinding(u, f, next)
      PROVE  SilentInv'
  <2>1. \A v \in Users : req'[v].pc = "put" => db[req'[v].fp] # NoRecord
    <3>1. /\ db[f] # NoRecord
          /\ req' = [req EXCEPT ![u] = [pc |-> "put", fp |-> f, next |-> next,
                                        rec |-> db[f]]]
      BY <1>1 DEF GetFinding
    <3> QED BY <1>0, <3>1 DEF SilentInv
  <2>2. UNCHANGED <<db, scan, told>>
    BY <1>1 DEF GetFinding
  <2> QED BY <2>1, <2>2, SilentKept DEF SilentInv, Fits
<1>2. ASSUME PutFails(u) PROVE SilentInv'
  <2>1. \A v \in Users : req'[v].pc = "put" => db[req'[v].fp] # NoRecord
    BY <1>0, <1>2 DEF PutFails, NoRequest, SilentInv
  <2>2. UNCHANGED <<db, scan, told>>
    BY <1>2 DEF PutFails
  <2> QED BY <2>1, <2>2, SilentKept DEF SilentInv, Fits
<1>3. ASSUME PutStatus(u) PROVE SilentInv'
  <2> DEFINE f == req[u].fp
             w == [req[u].rec EXCEPT !.status = req[u].next]
  <2>1. /\ req[u].rec \in Record /\ req[u].next \in UserStatus
        /\ f \in FPs /\ db[f] # NoRecord
    BY <1>0, <1>3 DEF PutStatus, Request, IInv, WriterInv, SilentInv
  <2>2. w \in Record /\ w.status # "resolved"
    BY <2>1 DEF Record, Status, UserStatus
  <2>3. Upsert(f, w) /\ req' = [req EXCEPT ![u] = NoRequest]
        /\ UNCHANGED <<scan, told>>
    BY <1>3 DEF PutStatus
  <2> HIDE DEF f, w
  <2>4. /\ db'[f] # NoRecord /\ db'[f].status # "resolved"
        /\ db'[f].born = db[f].born
        /\ \A g \in FPs \ {f} : db'[g] = db[g]
    BY <2>1, <2>2, <2>3, UpsertWrites DEF IInv, TypeOK
  <2>5. \A g \in FPs :
          /\ db'[g] = NoRecord <=> db[g] = NoRecord
          /\ db[g] # NoRecord => db'[g].born = db[g].born
          /\ db'[g] # NoRecord /\ db'[g].status = "resolved" =>
               db[g].status = "resolved"
    BY <2>1, <2>4
  <2>6. ASSUME NEW r \in Scanners PROVE Fits(scan[r])'
    <3>1. scan'[r] = scan[r] /\ scan[r] \in Scan /\ Fits(scan[r])
      BY <2>3 DEF IInv, TypeOK, SilentInv
    <3>2. /\ scan[r].todo \subseteq FPs /\ scan[r].gone \subseteq FPs
          /\ scan[r].resolved \subseteq FPs
          /\ \A e \in scan[r].opened : e.fp \in FPs
      BY <3>1 DEF Scan
    <3> QED BY <2>3, <2>5, <3>1, <3>2 DEF Fits
  <2>7. ToldInv'
    BY <2>3, <2>5 DEF SilentInv, ToldInv
  <2>8. \A v \in Users : req'[v].pc = "put" => db'[req'[v].fp] # NoRecord
    BY <1>0, <2>3, <2>5 DEF NoRequest, SilentInv, Request
  <2> QED BY <2>6, <2>7, <2>8 DEF SilentInv
<1> QED BY <1>1, <1>2, <1>3 DEF UserStep

LEMMA SilentStep ==
  ASSUME Serial, ~StoreFaults, IInv, Shape, SilentInv, Next
  PROVE  SilentInv'
<1>1. ASSUME NEW s \in Scanners,
             \/ \E t \in Targets : StartScan(s, t)
             \/ CollectFails(s)
             \/ \E out \in Outputs : CollectReturns(s, out)
      PROVE  SilentInv'
  <2>1. /\ \A r \in Scanners :
             /\ scan'[r].todo = scan[r].todo /\ scan'[r].gone = scan[r].gone
             /\ \/ scan'[r].snap = scan[r].snap
                \/ scan[r].todo = {} /\ scan[r].gone = {}
             /\ scan'[r].opened = scan[r].opened
             /\ scan'[r].resolved = scan[r].resolved
        /\ UNCHANGED <<db, req, told, misses, touched>>
    BY <1>1, EarlyShape
  <2> QED BY <2>1, SilentKept DEF SilentInv, Fits
<1>2. ASSUME NEW s \in Scanners, ScanStep(s) PROVE SilentInv'
  BY <1>1, <1>2, SilentList, SilentFresh, SilentGone, SilentReport
  DEF ScanStep, StoreFails
<1> QED BY <1>2, SilentUser DEF Next

LEMMA SerialInit == Init => Shape /\ SilentInv
<1> SUFFICES ASSUME Init PROVE Shape /\ SilentInv
  OBVIOUS
<1>1. \A s \in Scanners : scan[s] = Idle
  BY DEF Init
<1>2. /\ Idle.pc = "idle" /\ Idle.todo = {} /\ Idle.gone = {}
      /\ Idle.opened = {} /\ Idle.resolved = {}
  BY DEF Idle
<1>3. Shape
  <2>1. \A s \in Scanners : Mine(scan[s])
    BY <1>1, IdleMine
  <2> QED BY <1>1, <1>2, <2>1 DEF Shape, Alone
<1>4. \A s \in Scanners : Fits(scan[s])
  BY <1>1, <1>2 DEF Fits
<1>5. ToldInv
  BY DEF Init, ToldInv, NoRecords
<1> QED BY <1>3, <1>4, <1>5 DEF SilentInv, Init, NoRequest

LEMMA ShapeStays == ASSUME Shape, UNCHANGED vars PROVE Shape'
BY DEF Shape, Alone, Mine, vars

LEMMA ShapeInvariance ==
  ASSUME Serial
  PROVE  Spec => []Shape
<1>1. IInv /\ Shape /\ [Next]_vars => Shape'
  BY ShapeStep, ShapeStays
<1>2. Init => Shape
  BY SerialInit
<1> QED BY Invariance, <1>1, <1>2, PTL DEF Spec

LEMMA SilentInvariance ==
  ASSUME Serial, ~StoreFaults
  PROVE  Spec => [](Shape /\ SilentInv)
<1>1. IInv /\ Shape /\ SilentInv /\ [Next]_vars => SilentInv'
  <2>1. ASSUME SilentInv, UNCHANGED vars PROVE SilentInv'
    BY <2>1 DEF SilentInv, Fits, ToldInv, vars
  <2> QED BY <2>1, SilentStep
<1>2. Init => SilentInv
  BY SerialInit
<1>3. Spec => []Shape
  BY ShapeInvariance
<1> QED BY Invariance, <1>1, <1>2, <1>3, PTL DEF Spec

\* While scans of one target do not overlap and the store does not fail, no
\* change that Reconcile makes is silent, whatever users write meanwhile: each
\* row that was inserted, and each that is resolved, was given to OnResult or
\* is in the result a running scan will give it, under the id that is stored.
THEOREM NoChangeSilent ==
  ASSUME Serial, ~StoreFaults
  PROVE  Spec => []NothingSilent
<1>1. Shape /\ SilentInv => NothingSilent
  <2> SUFFICES ASSUME SilentInv PROVE NothingSilent
    OBVIOUS
  <2>1. \A f \in FPs : db[f] # NoRecord =>
          /\ told[f] # "never" \/ \E s \in Scanners : f \in OpenedFPs(s)
          /\ db[f].status = "resolved" =>
               \/ told[f] = "resolved"
               \/ \E s \in Scanners : f \in scan[s].resolved
    BY DEF SilentInv, ToldInv, OpenedFPs
  <2>2. \A s \in Scanners : \A e \in scan[s].opened :
          db[e.fp] # NoRecord /\ db[e.fp].born = e.born
    BY DEF SilentInv, Fits
  <2> QED BY <2>1, <2>2 DEF NothingSilent
<1> QED BY <1>1, SilentInvariance, PTL

\* Under the same conditions OnResult is never told twice in a row that a
\* finding opened: Reconcile announces only what was told to be resolved, or
\* was never told.
THEOREM OpeningsAlternate ==
  ASSUME Serial, ~StoreFaults
  PROVE  Spec => OpenedOnlyAfterResolved
<1>1. Shape /\ SilentInv /\ [Next]_vars =>
        [\A s \in Scanners :
           Report(s) => \A f \in OpenedFPs(s) : told[f] # "opened"]_vars
  BY DEF SilentInv, Fits, OpenedFPs
<1> QED BY <1>1, SilentInvariance, PTL DEF Spec, OpenedOnlyAfterResolved

\* What the history of absences says of a row, and of a row whose absence a
\* scan has still to count.
Counted ==
  /\ \A f \in FPs \ touched : db[f] # NoRecord =>
       /\ misses[f] >= db[f].streak
       /\ db[f].status = "resolved" => misses[f] >= ResolveAfterOrDefault
  /\ \A s \in Scanners : \A f \in scan[s].gone \ touched :
       misses[f] >= scan[s].snap[f].streak + 1

LEMMA CountedScan ==
  ASSUME Serial, IInv, Shape, Counted, NEW s \in Scanners, ScanStep(s)
  PROVE  Counted'
<1>0. /\ scan \in [Scanners -> Scan] /\ misses \in [FPs -> Nat]
      /\ db \in [FPs -> Record \cup {NoRecord}]
      /\ scan[s] \in Scan /\ Mine(scan[s])
  BY DEF IInv, TypeOK, Shape
<1>1. ASSUME \/ \E t \in Targets : StartScan(s, t)
             \/ CollectFails(s)
             \/ \E out \in Outputs : CollectReturns(s, out)
      PROVE  Counted'
  <2>1. /\ \A r \in Scanners :
             /\ scan'[r].gone = scan[r].gone
             /\ scan'[r].snap = scan[r].snap \/ scan[r].gone = {}
        /\ UNCHANGED <<db, req, told, misses, touched>>
    BY <1>1, EarlyShape
  <2> QED BY <2>1 DEF Counted
<1>2. CASE Report(s) \/ StoreFails(s)
  <2>1. /\ scan' = [scan EXCEPT ![s] = Idle]
        /\ UNCHANGED <<db, req, misses, touched>>
    BY <1>2, EndShape
  <2>2. \A r \in Scanners : scan'[r] = IF r = s THEN Idle ELSE scan[r]
    BY <1>0, <2>1
  <2>3. Idle.gone = {}
    BY DEF Idle
  <2> QED BY <2>1, <2>2, <2>3 DEF Counted
<1>3. CASE ListByTarget(s)
  <2>1. PICK x :
          /\ scan' = [scan EXCEPT ![s] = x]
          /\ x.todo = {f \in FPs : scan[s].fresh[f] # Unreported}
          /\ \A f \in FPs : TargetOf[f] = scan[s].target => x.snap[f] = db[f]
          /\ \A f \in x.gone : /\ f \in FPs \ x.todo
                               /\ TargetOf[f] = scan[s].target
                               /\ db[f] # NoRecord
          /\ UNCHANGED <<db, req, told, touched>>
    BY <1>3, ListMoves
  <2>2. \A f \in FPs :
          misses'[f] = IF TargetOf[f] = scan[s].target /\ f \notin x.todo
                       THEN misses[f] + 1 ELSE misses[f]
    BY <1>3, <2>1 DEF ListByTarget
  <2>3. \A r \in Scanners : scan'[r] = IF r = s THEN x ELSE scan[r]
    BY <1>0, <2>1
  <2>4. \A f \in FPs : misses'[f] \in Nat /\ misses'[f] >= misses[f]
    BY <1>0, <2>2
  <2>5. ASSUME NEW f \in FPs \ touched', db'[f] # NoRecord
        PROVE  /\ misses'[f] >= db'[f].streak
               /\ db'[f].status = "resolved" =>
                    misses'[f] >= ResolveAfterOrDefault
    <3>1. /\ db'[f] = db[f] /\ db[f] \in Record /\ f \notin touched
          /\ misses[f] \in Nat
      BY <1>0, <2>1, <2>5
    <3>2. ResolveAfterOrDefault \in Nat
      BY FindingsAssumption DEF ResolveAfterOrDefault
    <3>3. /\ misses[f] >= db[f].streak
          /\ db[f].status = "resolved" => misses[f] >= ResolveAfterOrDefault
      BY <2>5, <3>1 DEF Counted
    <3> QED BY <2>4, <3>1, <3>2, <3>3 DEF Record
  <2>6. ASSUME NEW r \in Scanners, NEW f \in scan'[r].gone \ touched'
        PROVE  misses'[f] >= scan'[r].snap[f].streak + 1
    <3>1. CASE r = s
      <4>1. /\ scan'[r] = x /\ f \in x.gone /\ f \notin touched
        BY <2>1, <2>3, <2>6, <3>1
      <4>2. /\ f \in FPs /\ x.snap[f] = db[f] /\ db[f] \in Record
            /\ misses'[f] = misses[f] + 1 /\ misses[f] \in Nat
        BY <1>0, <2>1, <2>2, <4>1
      <4>3. misses[f] >= db[f].streak
        BY <4>1, <4>2, FindingsAssumption DEF Counted
      <4> QED BY <4>1, <4>2, <4>3 DEF Record
    <3>2. CASE r # s
      <4>1. /\ scan'[r] = scan[r] /\ f \in scan[r].gone /\ f \notin touched
            /\ scan[r] \in Scan
        BY <1>0, <2>1, <2>3, <2>6, <3>2
      <4>2. /\ f \in FPs /\ scan[r].snap[f] \in Record
            /\ misses[f] >= scan[r].snap[f].streak + 1
        BY <4>1 DEF Counted, Scan, IInv, WriterInv, ScanHolds
      <4>3. misses[f] \in Nat /\ scan[r].snap[f].streak + 1 \in Nat
        BY <1>0, <4>2 DEF Record
      <4> QED BY <2>4, <4>1, <4>2, <4>3
    <3> QED BY <3>1, <3>2
  <2> QED BY <2>5, <2>6 DEF Counted
<1>4. ASSUME NEW f \in FPs, WriteFresh(s, f) PROVE Counted'
  <2>1. PICK w, x :
          /\ w \in Record
          /\ scan' = [scan EXCEPT ![s] = x]
          /\ x.pc = "write" /\ x.target = scan[s].target
          /\ x.snap = scan[s].snap /\ x.gone = scan[s].gone
          /\ x.todo = scan[s].todo \ {f} /\ x.resolved = scan[s].resolved
          /\ x.opened = IF NewlyOpen(scan[s].snap[f])
                        THEN scan[s].opened \cup {[fp |-> f, born |-> w.born]}
                        ELSE scan[s].opened
          /\ Upsert(f, w) /\ w.status # "resolved" /\ w.streak = 0
          /\ scan[s].snap[f] # NoRecord => w.born = scan[s].snap[f].born
          /\ Shape' /\ scan[s].pc = "write" /\ f \in scan[s].todo
          /\ misses' = [misses EXCEPT ![f] = 0]
          /\ UNCHANGED <<req, told, touched>>
    BY <1>4, FreshMoves
  <2>2. \A r \in Scanners : scan'[r] = IF r = s THEN x ELSE scan[r]
    BY <1>0, <2>1
  <2>3. /\ db'[f].status # "resolved" /\ db'[f].streak = 0
        /\ \A g \in FPs \ {f} : db'[g] = db[g]
    BY <1>0, <2>1, UpsertWrites
  <2>4. misses'[f] = 0 /\ \A g \in FPs \ {f} : misses'[g] = misses[g]
    BY <1>0, <2>1
  <2>5. ASSUME NEW r \in Scanners
        PROVE  /\ scan'[r].gone = scan[r].gone /\ scan'[r].snap = scan[r].snap
               /\ scan[r].gone \subseteq FPs \ {f}
    <3>1. CASE r = s
      BY <1>0, <2>1, <2>2, <3>1 DEF Mine, Scan
    <3>2. CASE r # s
      <4>1. TargetOf[f] = scan[s].target
        BY <1>0, <2>1 DEF Mine
      <4>2. f \notin scan[r].gone
        BY <2>1, <3>2, <4>1, OnlyOne
      <4> QED BY <1>0, <2>2, <3>2, <4>2 DEF Scan
    <3> QED BY <3>1, <3>2
  <2> QED BY <2>1, <2>3, <2>4, <2>5 DEF Counted
<1>5. ASSUME NEW f \in FPs, WriteGone(s, f) PROVE Counted'
  <2>1. PICK w, x :
          /\ w \in Record
          /\ scan' = [scan EXCEPT ![s] = x]
          /\ x.pc = "write" /\ x.target = scan[s].target
          /\ x.snap = scan[s].snap /\ x.gone = scan[s].gone \ {f}
          /\ x.todo = {} /\ x.opened = scan[s].opened
          /\ x.resolved = IF w.status = "resolved"
                          THEN scan[s].resolved \cup {f}
                          ELSE scan[s].resolved
          /\ Upsert(f, w) /\ w.streak = scan[s].snap[f].streak + 1
          /\ w.born = scan[s].snap[f].born
          /\ w.status = "resolved" => w.streak >= ResolveAfterOrDefault
          /\ Shape' /\ scan[s].pc = "write" /\ scan[s].todo = {}
          /\ f \in scan[s].gone
          /\ UNCHANGED <<req, told, misses, touched>>
    BY <1>5, GoneMoves
  <2>2. \A r \in Scanners : scan'[r] = IF r = s THEN x ELSE scan[r]
    BY <1>0, <2>1
  <2>3. /\ db'[f].status = w.status /\ db'[f].streak = w.streak
        /\ \A g \in FPs \ {f} : db'[g] = db[g]
    BY <1>0, <2>1, UpsertWrites
  <2>4. f \notin touched =>
          /\ misses[f] >= w.streak
          /\ w.status = "resolved" => misses[f] >= ResolveAfterOrDefault
    <3>1. /\ w.streak \in Nat /\ misses[f] \in Nat
          /\ ResolveAfterOrDefault \in Nat
      BY <1>0, <2>1, FindingsAssumption DEF Record, ResolveAfterOrDefault
    <3>2. f \notin touched => misses[f] >= w.streak
      BY <2>1 DEF Counted
    <3> QED BY <2>1, <3>1, <3>2
  <2>5. ASSUME NEW g \in FPs \ touched', db'[g] # NoRecord
        PROVE  /\ misses'[g] >= db'[g].streak
               /\ db'[g].status = "resolved" =>
                    misses'[g] >= ResolveAfterOrDefault
    <3>1. CASE g = f
      BY <2>1, <2>3, <2>4, <2>5, <3>1
    <3>2. CASE g # f
      BY <2>1, <2>3, <2>5, <3>2 DEF Counted
    <3> QED BY <3>1, <3>2
  <2>6. ASSUME NEW r \in Scanners
        PROVE  /\ scan'[r].gone \subseteq scan[r].gone
               /\ scan'[r].snap = scan[r].snap
    <3>1. CASE r = s
      BY <2>1, <2>2, <3>1
    <3>2. CASE r # s
      BY <2>2, <3>2
    <3> QED BY <3>1, <3>2
  <2> QED BY <2>1, <2>5, <2>6 DEF Counted
<1> QED BY <1>1, <1>2, <1>3, <1>4, <1>5 DEF ScanStep

\* A row a user has written is exempt from then on.
LEMMA CountedUser ==
  ASSUME IInv, Counted, NEW u \in Users, UserStep(u)
  PROVE  Counted'
<1>1. CASE PutStatus(u)
  <2> DEFINE f == req[u].fp
             w == [req[u].rec EXCEPT !.status = req[u].next]
  <2>1. Upsert(f, w) /\ touched' = touched \cup {f}
        /\ UNCHANGED <<scan, misses>>
    BY <1>1 DEF PutStatus
  <2> HIDE DEF f, w
  <2>2. \A g \in FPs \ {f} : db'[g] = db[g]
    BY <2>1 DEF Upsert, IInv, TypeOK
  <2> QED BY <2>1, <2>2 DEF Counted
<1>2. CASE UNCHANGED <<db, scan, misses, touched>>
  BY <1>2 DEF Counted
<1> QED BY <1>1, <1>2 DEF UserStep, GetFinding, PutFails

\* While scans of one target do not overlap, with or without store errors: a
\* finding no user has touched is resolved only after ResolveAfter scans in a
\* row did not report it (Reconcile's AbsentStreak).
THEOREM AbsenceEarned ==
  ASSUME Serial
  PROVE  Spec => []ResolvedOnlyAfterAbsence
<1>1. IInv /\ Shape /\ Counted /\ [Next]_vars => Counted'
  <2>1. ASSUME Counted, UNCHANGED vars PROVE Counted'
    BY <2>1 DEF Counted, vars
  <2> QED BY <2>1, CountedScan, CountedUser DEF Next
<1>2. Init => Counted
  BY DEF Init, Counted, NoRecords, Idle
<1>3. Spec => []Shape
  BY ShapeInvariance
<1>4. Counted => ResolvedOnlyAfterAbsence
  BY DEF Counted, ResolvedOnlyAfterAbsence
<1> QED BY Invariance, <1>1, <1>2, <1>3, <1>4, PTL DEF Spec
=============================================================================
