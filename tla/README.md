# Patchlight in TLA+

Patchlight is a self-hosted service that scans a software inventory for CVEs.
Each inventory item is a CPE name. A scheduler scans every item periodically;
a scan asks NVD for the item's CVEs, enriches them with CISA KEV and FIRST EPSS,
and hands the ranked findings to a reconcile engine, which compares them with
the SQLite table and says what opened and what resolved. Those changes become
events of a notification dispatcher, which batches them into digests for the
configured channels. A web server changes the inventory, the status of findings
and the licence key, while all of this runs.

The modules here model the parts with state, concurrency, failures or a
conversion others rely on. `PROJECT.json` maps every definition to the lines it
stands for, and lists the runs, the mutants, the hazards and the theorems.

## The system

| Component | State | Operations | Module |
|---|---|---|---|
| priority model (`patchlight.go`) | none | `Rank`, severity order | `Priority` |
| reconcile engine and store (`store/`) | table of findings | `Reconcile`: `ListByTarget`, `Get`, `Upsert` | `Findings` |
| status API (`web/server.go`) | a record between read and write | `handleFindingStatus` | `Findings` |
| scheduler (`sched/`) | targets, worker slots, backoff, context, wait group | `Start`, `Stop`, `AddTarget`, `RemoveTarget`, `ScanNow`, the module loop | `Scheduler` |
| dispatcher (`notify/notify.go`, `bridge.go`) | window, dedup keys, timer, senders | `Enqueue`, `Flush`, `Close`, retries | `Dispatcher`, and `Outbox`, what it promises |
| intelligence (`nvd/`, `kev/`, `epss/`, `intel.go`, `collector.go`) | three caches, the KEV mutex | one `Collect` | `Feeds` |
| inventory and licence (`web/server.go`, `console.go`, `license.go`, `targets.go`) | scheduled items, targets table, key file, tier | add, import, remove, set key, crash, boot | `Inventory` |
| CPE names (`cpe/`, `nvd.Resolve`) | none; the keys it makes are kept | `Parse`, `String`, `Normalize`, `Resolve`, `ParseSBOM` | `Names` |
| process lifecycle (`cmd/patchlight/main.go`, `bridge.go`) | up or shutting down, what each scan has handed over | boot, `OnResult`, signal, exit, crash | `System`, over `Findings` and `Dispatcher` |
| AI assist (`web/ai.go`, `internal/aiclient/`) | settings, one request | `handleExplainFinding`, `Client.Explain`, `SanitizeEvidence`, `dropConflictingSeverity` | `Assist`, `Packet` |
| channels, HFS export, ownership verification, ULIDs, in-memory store | | | not modelled, see below |

How they interact:

- The module loop, `AddTarget` and `ScanNow` each start scanning goroutines.
  `scanOne` takes a worker slot, calls `Collect` with a timeout (`Feeds`), then
  `Reconcile` (`Findings`), then the `OnResult` callback, which enqueues events
  (`Dispatcher`). Nothing serialises two scans of one target.
- The store is shared by scans and HTTP handlers and is locked per call only, so
  a read and the write that follows from it are two steps.
- The inventory lives twice: in the scheduler's memory and in the targets table.
  Handlers change one after the other; a restart rebuilds memory from the table.
- The key of an item (`Names`) is the row's key, the scheduler's key, the text
  sent to NVD and the target the findings are filed under.
- Shutdown (`main.go`): on a signal one goroutine calls `Shutdown` of the HTTP
  server and then `Stop`. Nobody waits for it. `ListenAndServe` returns as soon as
  `Shutdown` begins; `main` closes the dispatcher, waits for its senders, and ends
  the process with whatever the scans were doing (`System`).
- A request for an explanation reads one finding and the tier, and sends a bounded
  copy of the finding to a sidecar (`Assist`). Nothing is written back.

What makes it hard: overlapping scans of one target; status writes between a
scan's read and its write; store calls that fail half-way; timers that fire while
a flush holds the mutex; a `Stop` that meets scans it does not count; a mutex held
across a network request; crashes between memory and table, and between the table
and the notification; conversions that are applied again to their own output; a
sidecar that answers anything, late or never.

## The modules

Each component has a module with its variables, one action per operation (a
handler that lets others run in between is split where it does), and its
properties at the end. `MC*` modules give the constants values for TLC, `*Proofs`
modules hold the theorems. Definitions that begin with "Mutant:" are plausible
mistakes, used only to show that a property notices them.

**Priority.** `Rank` and the two severity orders.

**Findings.** `db` is the table, one row per fingerprint; `scan` the scans, which
read (`CollectReturns`, `ListByTarget`), write their present findings in any
order (`WriteFresh`), then the gone ones (`WriteGone`), and report (`Report`);
`req` the status requests (`GetFinding`, `PutStatus`). Each database call is a
step and, with `StoreFaults`, may fail, which ends the scan or the request. Times
are the order of the scans. `told`, `misses` and `touched` are history.

**Scheduler.** One registered module. `loop` is the module loop's place,
`todo` its snapshot, `scans` the goroutines with what they are doing, `sem` the
slots, `gate` the ticks until `nextOK`. `Interrupted` is the signal's context.
Bookkeeping of a scan's outcome is a step of its own (`Books`), as in the code,
where it follows the return of `scanOne`.

**Dispatcher.** `Enqueue`, `Flush` and the first half of `Close` run under the
mutex and are one action each. A timer that has fired leaves a `Flush` waiting
that nobody can take back (`waiting`). One sender per digest and channel tries
up to `AttemptLimit` times. The order of the findings inside a digest is left out.

**Outbox.** What a caller may rely on, without windows, timers or goroutines: an
event is accepted until `Close`, settled once per channel (delivered or given
up), and `Close` returns when all are settled. `Dispatcher` instantiates it: the
events delivered are the tickets in the digests whose sender succeeded.

**System.** The process of `main.go`. It extends `Findings` with its scans and
instantiates `Dispatcher` with the configuration `main` gives it. `HandOver` is
one `Enqueue` of `BindScheduler`'s callback, `MainCloses` and `MainExits` the two
ends of the deferred `Close`, `Crash` any other end, `Boot` the next start, which
has the table and nothing else. `heard` (the last event accepted about a finding)
and `lost` (changes nobody will hear of, and why) are history. Status requests
and the scheduler's pacing are left to `Findings` and `Scheduler`.

**Feeds.** Data are represented by the moment the feed gave them, which lets
staleness be stated. NVD and EPSS release their lock during a request; KEV
keeps it, so scans queue (`mutex`). `Tick` advances the clock only when nothing
that takes no time is pending.

**Inventory.** Two kinds of addition that count different sets, imports of
several items, removals, key submissions with the truncating write, failing
store calls, `Crash` anywhere, `Boot` and `BootBlind` (the list of saved items
fails). History variables record what users were answered. An addition that
`AddTarget` refuses after the count changes nothing and is left out.

**Names.** Texts are sequences of characters, the attributes of a CPE name are
four instead of eleven (part, product, version, and one for the rest), the
prefix `cpe:2.3:` is implied. `Parse`, `Canonical`, `bind`, `unbind` and
`splitEscaped` do what the code does, character by character, because the
properties are about that: a reader of a text is a step per character (`readRune`,
`unescapeRune`) and a recursive function along the text. Then the ways a key comes into being (`handleAddTarget`,
`handleAdd`, `handleSBOM`) and is used again (`handleRemoveTarget`, `Boot`).
`Runes` are the characters there are, `Asks` what users send; both may be infinite.
Only inputs with the prefix are modelled; letters have no case. Because the prefix
is implied, `Trim` also drops blanks right behind it, where `cpe.go:37` trims the
whole text first and would refuse `cpe:2.3: a:`; no property depends on it.

**Packet.** The pure part of the AI assist: what `SanitizeEvidence` makes of a
nested value (a recursive function over what is left of the depth, whose step for
one value is `sanitized`), and which sentences of an answer
`dropConflictingSeverity` lets through. A string is its number of runes, a
sentence the severity it states.

**Assist.** One request: `Gets`, `Checks`, then attempts (`Posts`, and the
sidecar's `Fails`, `Refuses` or `Narrates`) with `BacksOff` between them, while
`Changes` alters the stored finding or the tier and the browser `Leaves`. Requests
share nothing they write, so one is enough.

## The runs

| Run | Shows | Bounds |
|---|---|---|
| `findings_serial` | with one worker: no finding appears or is resolved silently, resolution needs `ResolveAfter` absences in a row, openings and resolutions alternate | 1 finding with and without KEV, 6 scans, 1 status request at a time, `ResolveAfter` 2 |
| `findings_overlap` | identity and resolution times survive overlapping scans, users and store errors | 2 findings, 2 scans at once, 1 user |
| `findings_suppress` | **violation**: a scan undoes a suppression | 2 scans, 1 user |
| `dispatcher` | no event lost, doubled, stranded or unsettled; dedup per window; `Close` drains and returns; every behaviour is one of `Outbox` | windows of 2, 3 events, 2 attempts, 1 channel |
| `scheduler_add` | slots are returned, no target waits longer than its failures earn, `Stop` ends the sweeps, an added target is scanned | 1 target, 2 goroutines, 1 slot, one `AddTarget`, one `ScanNow` |
| `scheduler_live` | a dead target does not starve a live one; `Stop` returns, sweeps in flight | 2 targets, 2 goroutines, 1 slot, no `AddTarget`, no `ScanNow` |
| `feeds` | bounded staleness, the KEV catalogue never blinds a scan, a `Collect` ends within twice its timeout | 2 scans, 1 item, 2 CVEs in 2 pages, time 5 |
| `inventory` | answered additions and keys survive, memory and table agree, the cap is exceeded by at most the concurrent requests | 2 requests, 3 items, cap 1, one expiring key |
| `names` | what is saved is what is scheduled, through parsing, the dictionary and a restart; keys are well formed | all texts to 4 characters after four heads, all answers to 2 entries |
| `system` | through store errors, shutdowns, crashes and restarts a consumer's last word on a finding is the table's or the change is accounted for; nothing is told twice; an exit settles what was accepted | 2 targets with a finding each, 2 workers, 3 scans, 2 lives |
| `system_shutdown` | **violation**: an orderly exit loses a change | 1 finding, 1 scan |
| `assist` | packets are bounded, clean and of the stored finding; the tier decides; a narration is shown only when there is one and does not contradict the severity; every request is answered | 1 request, 1 change, limits of 1 key, 1 item, 2 runes and 2 levels, 0 or 2 retries |

Why the bounds are enough. Races of the code are between two actors on one
object: two scans of a target, a scan and a user, two requests on an item, a
timer and a flush; the instances have two of the actor that races, and one
object more where a property compares objects (partial failures need a second
finding, the cap a second and a third item, starvation a second target).
`MaxScans` 6 is two full cycles of opening and resolving with `ResolveAfter` 2.
Three events with windows of two give an early flush and a second window. In
`feeds`, time 5 covers a TTL, a request as long as the timeout and the wait of
the second scan. Four characters after the head reach every pair of
escape, special character and separator with a superfluous field behind it. In
`system`, three scans open, resolve and reopen a finding or interleave two, and
the process may end at any of their steps; scans of one target do not overlap
there (`MaxOverlap` 1), because the code does not keep `ConsumerAgrees` when they
do (see below); `findings_overlap` has what survives. In
`assist` the limits are small so that evidence meets each from either side at
every level; 0 retries is what `NewAIAssist` sets, 2 the client's own default.
`CHECK_DEADLOCK FALSE` is used where a bound ends behaviours, and for
the dispatcher and a stopped scheduler, which rest.

Every property of a passing run has a mutant: one definition replaced by a form
with a plausible bug, under which TLC finds the property violated.

## Fairness

`Dispatcher`: timers fire, waiting flushes get the mutex, attempts end (15 s
context), a finished `Close` returns: weak fairness of those steps. `Scheduler`:
goroutines that can run do, `Collect` ends by its timeout, time passes; strong
fairness for a slot (blocked senders on a Go channel are served in order), for
the loop's exit (a done context is always ready in its `select`), and for the
model's bound on goroutines, which the code does not have. `Assist`: a handler
that can go on does, and an attempt ends, by the client's own timeout at the latest
(`WithTimeout`). Nobody is obliged to enqueue, close, add, remove, scan, stop or
leave. The other modules have safety properties only and no fairness.

## What is proved

TLAPS checks all theorems for every value of the constants, under the modules'
named assumptions (sets that are finite in reality are assumed finite where
counted; types of constants; nothing about sizes).

- `FindingsProofs`: of the priority model, `RankMonotone` (a stronger signal never
  lowers the severity). Of the table, `TypeCorrect`, `ResolutionTimed`,
  `IdentityPreserved`, from
  `IInv == TypeOK /\ WriterInv /\ ResolvedHasTime`. `WriterInv` says what a scan
  or a request holds between its read and its write (rows that existed, findings
  it was given); without it a write could store the zero record.
  Assuming that scans of one target do not overlap (`Serial`: one worker, or
  `MaxOverlap = 1`) also `AbsenceEarned`, and, if moreover the store does not fail,
  `NoChangeSilent` and `OpeningsAlternate`. `Shape` says that all a scan holds is of
  its target and that it is alone with it; `Fits` that nobody else inserts,
  announces or resolves a row it has still to write, whatever statuses users
  write; `Counted` relates the stored streak to the absences there really were.
- `DispatcherProofs`: `TypeCorrect`, `BatchesBounded`, `WindowsIndependent`,
  `NothingStranded`, `NothingLostOrDoubled`, `CloseIsComplete`, and
  `DispatcherIsOutbox`, the refinement: under the invariant every step is a step of
  `Outbox` or leaves what it knows alone. The strengthening:
  the timer's state agrees with the window (`TimerInv`), tickets are
  those accepted and each once (`TicketInv`), every accepted event is in one
  place per channel (`PlaceInv`), nothing is pending after `Close` (`CloseInv`).
  The core is `FlushStep`: a flush moves the whole window into one new digest
  per module and channel.
- `InventoryProofs`: `TypeCorrect`, `NothingForgotten`, `KeyRemembered`,
  `RestartRestores`, `CapHolds`. `PromiseInv`, `KeyInv` and `SyncInv` add where a
  request stands between its two changes. `CapInv` counts: items in either place,
  plus requests past their check, stay below the cap plus the number of requests
  less one; `CountStep` is the only step that raises the count.
- `FeedsProofs`: `TypeCorrect`, `StalenessBounded`, `StaleNotBlind`,
  `CollectEnds`. The waiting at the KEV mutex has no deadline of its own, so the
  bound comes from the queue (`QueueInv`): whoever stands before a scan in it began
  at most `ScanTimeout` later than that scan, and is out by its own deadline.
- `SchedulerProofs`: `DelayDoubles`, `TypeCorrect`, `SlotsHeld`,
  `BackoffDeserved`, `StopIsFinal`, from `IInv == TypeOK /\ SlotsAccounted /\ BackoffEarned /\
  StopInv`. `StopInv` adds to `StopEndsSweeps` that only a started scheduler has a
  loop and can be stopped. The slots are counted as a
  cardinality. What a number of failures earns (`Earned`) is stated apart from the
  code's loop: `RetryBase` doubled for every failure after the first, and the whole
  cut to `RetryMax`. `DelayDoubles` says that `backoffFor`, which cuts on the way
  and leaves the loop early, gives just that, for any base and cap, the base
  above the cap included; `BackoffDeserved` rests on it. Both loops are shown to
  compute what their steps say (`LoopComputes`, `LoopUnique`), and the two then agree
  after the cut by induction on the failures.
- `SystemProofs`: `SystemTypeCorrect`, `ExitSettles`, and, assuming that scans of
  one target do not overlap (`MaxOverlap = 1`), `ConsumersAgree` and
  `NothingSaidTwice`. What is known of the two components is taken from their own
  proofs: `FindingsProofs` by extension, `DispatcherProofs` as an instance. New is
  the relation between them: the rows a scan has still to write are as it read
  them (`Writes`), a consumer who lost nothing knows the finding as the table has
  it or is about to hear what he does not know (`Agreed`, `News`), and what an end
  of the process takes with it is in `lost` (`EndedInv`). `ExitSettles` needs no
  assumption on overlap.
- `AssistProofs`: `TypeCorrect`, which bounds the attempts, `TierObeyed`,
  `PacketsSanitised` and `NarrationQuiet`. The invariant adds what a request holds
  at each place: the tiers in force since it began (`TierInv`), that it asked
  nobody before its check (`Unasked`), that what it read and what it sent is a
  finding stored while it ran (`Holding`, `Sent`), and that its answer is what it was
  told (`Told`). `PacketsSanitised` rests on two facts about the pure part, for evidence
  of any size, shape and depth: what `sanitizeValue` returns with some depth left has
  no more than that depth in it (`EvidenceClean`, level by level), and evidence that
  is clean comes back as it was. `NarrationQuiet` rests on what
  `dropConflictingSeverity` keeps, for an answer of any number of sentences.
- `NamesProofs`: `KeysWellFormed`, `KeysAgree`, `RestartIsExact`, and of the
  conversions alone `UnbindReversesBind` and `StringRoundTrips`, for texts of any
  length. The argument is one about reading: an escaped text appended to a name
  goes whole into the last field and leaves no escape open (`EscapedIsRead`), a
  closed field stays as it is (`FieldsStay`), `unbind` gives back what was escaped
  (`EscapedIsUndone`), and `Trim` cuts at the end only. So a canonical name is read
  back as the attributes it was made of, and is its own key (`KeyIsRead`,
  `KeyIsStable`). The invariant adds that every row's raw text can be parsed and
  every key is the key of some text. `KeysAgree` and `RestartIsExact` except
  `Overlong` names, for which the code does not keep them (see below);
  `KeysWellFormed` does not.

What a recursive function computes is proved by induction over a set of numbers
(`Least` and `Induction`, from the library's well-founded induction): the set of
lengths, levels or depths for which the fact holds contains 0 and is closed under
successor. That a function with the recursive equation exists is proved the same
way, once per function.

Only model-checked: all liveness (`EventuallySettled`, `CloseCompletes`,
`EveryTargetSwept`, `AddedIsScanned`, `StopCompletes`, `EveryRequestAnswered`),
which is outside the prover's reach, as is ENABLED. Every safety property of a
passing run is a theorem.

## Disagreements found

1. A suppression stored while a scan is between its read and its write is
   overwritten, against `reconcile.go:95` (`findings_suppress`).
2. An orderly shutdown loses changes that were written and not yet handed to the
   dispatcher, against `README.md:100` and `scheduler.go:196` (`system_shutdown`).

Without a run of their own, at the steps named:

3. A store error in the middle of `Reconcile` loses the events of what was already
   written, against `README.md:100` (`EngineFails`; `ConsumerAgrees` excepts it).
4. `nvd.Resolve` does not give a bare major release of an operating system its
   `.0`, against `CHANGELOG.md:98` (`nvdVersion`). Only the fall-back does.
5. `unbind` does not undo every escape `splitEscaped` keeps, so
   `String(Parse(name))` is another name when the name quotes anything but
   `\ : ? *`, against `cpe.go:14` (`unbind`).
6. A `Collect` may last up to twice `ScanTimeout`, against `scheduler.go:26`
   ("ScanTimeout bounds one Collect() call"): a scan waits for the KEV mutex, which
   another holds across its download, without looking at its own deadline
   (`kev.go:63`; `Feeds`, where `CollectBounded` has the factor two).

Three more, visible in the models though no run states them: `Stop` waits for
the loop's scans only, not for those of a `ScanNow` (`scheduler.go:196` says it
waits for in-flight scans); an enrichment feed that hangs until the deadline
fails the `Collect` (`RendersNothing`; `intel.go:13` says KEV and EPSS are
best-effort); an open finding whose CVE enters KEV is refreshed without an event
(`WriteFresh`; `README.md:14` says it surfaces as a change). Also, a CPE name with
too many fields may keep a trailing space, which makes its key unstable
(`Overlong` in `Names`).

What no document promises and the code does not keep: with two scans of one target
at once (`MaxOverlap` 2, as a `ScanNow` during a sweep has it), one scan may insert a
finding, the other read the row, miss it, resolve it and enqueue the resolution,
and only then the first enqueue the opening. The last event says opened, the table
says resolved. `ConsumersAgree` and `NothingSaidTwice` therefore assume that scans
of one target do not overlap; `ExitSettles`, `IdentityPreserved` and
`ResolutionTimed` do not.

## Not modelled

- Channels and message formats: serialisation and network I/O behind
  `Channel.Send`, which is an attempt that succeeds or fails. The HFS export.
- JSON of the feeds and of SBOMs, the splitting of package URLs, and the version
  evidence of a CVE (`versionInfo`, `criteriaIsTarget`).
- The prompts, grammar and languages of the AI client, and `aiStatus`, which
  changes nothing. Of an answer, the list `whatToVerify`: the code filters the
  explanation only and shows the list as it came, so `NarrationIsQuiet` says nothing
  of it.
- Ownership verification: not wired into the binary.
- The in-memory store (tests only), ULIDs (a row is identified by its birth),
  `PruneResolvedBefore` and `Vacuum` (never called).
- The order of the findings in a digest, which no consumer reads.
- Signatures of licence keys: a key grants a tier or nothing.

## Plan

Done: all modules above and their proofs. Left, in this order:

1. `System` with overlapping scans of one target: what a consumer can still
   conclude when events arrive in another order than the table was written.
2. `versionInfo` (whose evidence a finding carries), and the retries and duplicate
   deliveries of the channels.
