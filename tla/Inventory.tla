----------------------------- MODULE Inventory ------------------------------
(***************************************************************************)
(* The inventory and the licence: what the scheduler scans (memory), what  *)
(* the targets table keeps, and the key file that decides how many items   *)
(* the tier allows.  Items are added through /api/targets (the web         *)
(* server), /api/patchlight/add and /api/patchlight/sbom (the console),    *)
(* which count differently; handlers run concurrently, store calls fail,   *)
(* and the process crashes and boots.                                      *)
(***************************************************************************)
EXTENDS Naturals, FiniteSets

CONSTANTS
  Requests,   \* concurrent requests
  Items,      \* canonical targets (CPE names)
  NoItem,
  Keys,       \* licence keys; the issuer's public key is baked in
  NoKey,      \* no key; also what is left of a key file half written
  Tiers,
  Free,       \* the free tier
  KeyTier,    \* what a key grants: Free if it is invalid or foreign
  Expiry,     \* ExpiresAt
  Cap,        \* MaxTargets of each tier, 0 for unlimited
  MaxImport,  \* bound on the components of an SBOM
  MaxTime     \* bound on the clock

ASSUME InventoryAssumption ==
  /\ IsFiniteSet(Requests) /\ Requests # {}
  /\ IsFiniteSet(Items) /\ NoItem \notin Items
  /\ NoKey \in Keys /\ Free \in Tiers
  /\ KeyTier \in [Keys -> Tiers] /\ KeyTier[NoKey] = Free
  /\ Expiry \in [Keys -> Nat]
  /\ Cap \in [Tiers -> Nat]
  /\ MaxImport \in Nat \ {0} /\ MaxTime \in Nat

VARIABLES
  up,          \* the process runs
  clock,
  scheduled,   \* the scheduler's targets
  saved,       \* the targets table
  file,        \* the key in the licence file
  act,         \* Server.activation.Tier
  req,         \* the handlers at work
  \* history:
  promised,    \* items whose save was followed by no removal
  accepted,    \* keys answered OK that no later submission replaced
  high,        \* the largest finite cap in force so far, 0 once unlimited
  clean        \* no store call failed, no two requests met on one item

vars == <<up, clock, scheduled, saved, file, act, req,
          promised, accepted, high, clean>>

hist == <<promised, accepted, high, clean>>

\* `left' are the items of an import still to come, `n' the count read;
\* `alone' is history: no other submission overlaps this one.
Idle == [pc |-> "idle", via |-> "web", item |-> NoItem, left |-> {},
         n |-> 0, key |-> NoKey, tier |-> Free, alone |-> TRUE]

\* The handler is working on the item.
OnItem(x) == x.pc \in {"counted", "admitted", "scheduled", "dropped"}

\* The handler is between accepting a key and activating it.
OnKey(x) == x.pc \in {"accepted", "truncated", "written"}

\* license.Activate: the tier of a key that is valid and not expired.
Activate(k) == IF clock > Expiry[k] THEN Free ELSE KeyTier[k]

\* The caps in force so far, after the activation became t.
Higher(t) == IF high = 0 \/ Cap[t] = 0 THEN 0
             ELSE IF Cap[t] > high THEN Cap[t] ELSE high

Init ==
  /\ up = FALSE
  /\ clock = 0
  /\ scheduled = {} /\ saved = {}
  /\ file = NoKey
  /\ act = Free
  /\ req = [r \in Requests |-> Idle]
  /\ promised = {} /\ accepted = {}
  /\ high = Cap[Free]
  /\ clean = TRUE

\* A request that meets another on the item i.
Meets(r, i) == \E q \in Requests \ {r} : OnItem(req[q]) /\ req[q].item = i

-----------------------------------------------------------------------------
(* Adding *)

\* Mutant: one too many.
CanAddOneMore(max, current) == max = 0 \/ current <= max

canAdd(max, current) == max = 0 \/ current < max

\* Mutant: the import goes on with the item it has just finished.
FinishKeeping(x) == IF x.left = {} THEN Idle ELSE [x EXCEPT !.pc = "next"]

\* The end of one item: the next of the import, or the answer.
Finish(x) == IF x.left = {} THEN Idle
             ELSE [Idle EXCEPT !.pc = "next", !.via = x.via, !.left = x.left]

\* POST /api/targets names one item, the console one or an SBOM of several.
BeginAdd(r, via, S) ==
  /\ up /\ req[r].pc = "idle"
  /\ S # {} /\ Cardinality(S) <= IF via = "web" THEN 1 ELSE MaxImport
  /\ req' = [req EXCEPT ![r] =
               [Idle EXCEPT !.pc = "next", !.via = via, !.left = S]]
  /\ UNCHANGED <<up, clock, scheduled, saved, file, act, hist>>

\* The web server counts what is scheduled, the console what is saved.
Counts(r, i) ==
  /\ req[r].pc = "next" /\ i \in req[r].left
  /\ req' = [req EXCEPT
       ![r].pc = "counted", ![r].item = i, ![r].left = @ \ {i},
       ![r].n = Cardinality(IF req[r].via = "web" THEN scheduled ELSE saved)]
  /\ clean' = (clean /\ ~Meets(r, i))
  /\ UNCHANGED <<up, clock, scheduled, saved, file, act,
                 promised, accepted, high>>

\* The console drops the error of its count: it counts nothing.
CountFails(r, i) ==
  /\ req[r].pc = "next" /\ i \in req[r].left
  /\ req[r].via = "console"
  /\ req' = [req EXCEPT ![r].pc = "counted", ![r].item = i,
                        ![r].left = @ \ {i}, ![r].n = 0]
  /\ clean' = FALSE
  /\ UNCHANGED <<up, clock, scheduled, saved, file, act,
                 promised, accepted, high>>

Admits(r) ==
  /\ req[r].pc = "counted" /\ canAdd(Cap[act], req[r].n)
  /\ req' = [req EXCEPT ![r].pc = "admitted", ![r].n = 0]
  /\ UNCHANGED <<up, clock, scheduled, saved, file, act, hist>>

\* The limit is reached; an import goes on with its next component.
Refuses(r) ==
  /\ req[r].pc = "counted" /\ ~canAdd(Cap[act], req[r].n)
  /\ req' = [req EXCEPT ![r] = Finish(@)]
  /\ UNCHANGED <<up, clock, scheduled, saved, file, act, hist>>

\* Scheduler.AddTarget
Schedules(r) ==
  /\ req[r].pc = "admitted"
  /\ scheduled' = scheduled \cup {req[r].item}
  /\ req' = [req EXCEPT ![r].pc = "scheduled"]
  /\ UNCHANGED <<up, clock, saved, file, act, hist>>

\* SaveTarget; the item is promised unless a removal of it is under way.
Saves(r) ==
  LET i == req[r].item IN
  /\ req[r].pc = "scheduled"
  /\ saved' = saved \cup {i}
  /\ promised' = IF \E q \in Requests : req[q].pc = "dropped" /\ req[q].item = i
                 THEN promised ELSE promised \cup {i}
  /\ req' = [req EXCEPT ![r] = Finish(@)]
  /\ UNCHANGED <<up, clock, scheduled, file, act, accepted, high, clean>>

\* Mutant: the error of SaveTarget is dropped.
SaveFailsSilently(r) ==
  /\ req[r].pc = "scheduled"
  /\ req' = [req EXCEPT ![r] = Finish(@)]
  /\ clean' = FALSE
  /\ promised' = promised \cup {req[r].item}
  /\ UNCHANGED <<up, clock, scheduled, saved, file, act, accepted, high>>

\* SaveTarget fails: the answer is an error, the item stays scheduled.
SaveFails(r) ==
  /\ req[r].pc = "scheduled"
  /\ req' = [req EXCEPT ![r] = Finish(@)]
  /\ clean' = FALSE
  /\ UNCHANGED <<up, clock, scheduled, saved, file, act,
                 promised, accepted, high>>

-----------------------------------------------------------------------------
(* Removing: DELETE /api/targets *)

\* Scheduler.RemoveTarget
Drops(r, i) ==
  /\ up /\ req[r].pc = "idle"
  /\ scheduled' = scheduled \ {i}
  /\ promised' = promised \ {i}
  /\ clean' = (clean /\ ~Meets(r, i))
  /\ req' = [req EXCEPT ![r].pc = "dropped", ![r].item = i]
  /\ UNCHANGED <<up, clock, saved, file, act, accepted, high>>

\* Mutant: the row is left in the table.
ForgetsToDelete(r) ==
  /\ req[r].pc = "dropped"
  /\ req' = [req EXCEPT ![r] = Idle]
  /\ UNCHANGED <<up, clock, scheduled, saved, file, act, hist>>

Deletes(r) ==
  /\ req[r].pc = "dropped"
  /\ saved' = saved \ {req[r].item}
  /\ req' = [req EXCEPT ![r] = Idle]
  /\ UNCHANGED <<up, clock, scheduled, file, act, hist>>

\* DeleteTarget fails: its error is dropped, the answer is OK.
DeleteFails(r) ==
  /\ req[r].pc = "dropped"
  /\ req' = [req EXCEPT ![r] = Idle]
  /\ clean' = FALSE
  /\ UNCHANGED <<up, clock, scheduled, saved, file, act,
                 promised, accepted, high>>

-----------------------------------------------------------------------------
(* Submitting a key: POST /api/license *)

\* A key that grants nothing is refused and changes nothing; the empty key
\* returns to the free tier.
Submits(r, k) ==
  LET others == {q \in Requests : OnKey(req[q])} IN
  /\ up /\ req[r].pc = "idle"
  /\ Activate(k) # Free \/ k = NoKey
  /\ accepted' = {}
  /\ req' = [q \in Requests |->
       IF q = r THEN [Idle EXCEPT !.pc = "accepted", !.key = k,
                                  !.tier = Activate(k), !.alone = (others = {})]
       ELSE IF q \in others THEN [req[q] EXCEPT !.alone = FALSE]
       ELSE req[q]]
  /\ UNCHANGED <<up, clock, scheduled, saved, file, act,
                 promised, high, clean>>

\* os.WriteFile truncates, then writes; either may fail.
Truncates(r) ==
  /\ req[r].pc = "accepted"
  /\ file' = NoKey
  /\ req' = [req EXCEPT ![r].pc = "truncated"]
  /\ UNCHANGED <<up, clock, scheduled, saved, act, hist>>

Writes(r) ==
  /\ req[r].pc = "truncated"
  /\ file' = req[r].key
  /\ req' = [req EXCEPT ![r].pc = "written"]
  /\ UNCHANGED <<up, clock, scheduled, saved, act, hist>>

\* Mutant: the error of the write is dropped.
WriteFailsSilently(r) ==
  /\ req[r].pc \in {"accepted", "truncated"}
  /\ req' = [req EXCEPT ![r].pc = "written"]
  /\ UNCHANGED <<up, clock, scheduled, saved, file, act, hist>>

WriteFails(r) ==
  /\ req[r].pc \in {"accepted", "truncated"}
  /\ req' = [req EXCEPT ![r] = Idle]
  /\ UNCHANGED <<up, clock, scheduled, saved, file, act, hist>>

\* The key is in force and answered OK.
Activates(r) ==
  /\ req[r].pc = "written"
  /\ act' = req[r].tier
  /\ high' = Higher(req[r].tier)
  /\ accepted' = IF req[r].alone THEN {req[r].key} ELSE {}
  /\ req' = [req EXCEPT ![r] = Idle]
  /\ UNCHANGED <<up, clock, scheduled, saved, file, promised, clean>>

-----------------------------------------------------------------------------
(* The process and the time *)

Crash ==
  /\ up
  /\ up' = FALSE
  /\ scheduled' = {}
  /\ act' = Free
  /\ req' = [r \in Requests |-> Idle]
  /\ UNCHANGED <<clock, saved, file, hist>>

\* main: the saved targets are scheduled again, whatever the tier allows, and
\* NewServer activates the key in the file.
Boot ==
  /\ ~up
  /\ up' = TRUE
  /\ scheduled' = saved
  /\ act' = Activate(file)
  /\ high' = Higher(Activate(file))
  /\ UNCHANGED <<clock, saved, file, req, promised, accepted, clean>>

\* The list of saved targets fails: main goes on with an empty inventory.
BootBlind ==
  /\ ~up
  /\ up' = TRUE
  /\ scheduled' = {}
  /\ act' = Activate(file)
  /\ high' = Higher(Activate(file))
  /\ clean' = FALSE
  /\ UNCHANGED <<clock, saved, file, req, promised, accepted>>

Tick ==
  /\ clock < MaxTime
  /\ clock' = clock + 1
  /\ UNCHANGED <<up, scheduled, saved, file, act, req, hist>>

AddStep(r) ==
  \/ \E via \in {"web", "console"}, S \in SUBSET Items : BeginAdd(r, via, S)
  \/ \E i \in Items : Counts(r, i) \/ CountFails(r, i)
  \/ Admits(r) \/ Refuses(r)
  \/ Schedules(r) \/ Saves(r) \/ SaveFails(r)

RemoveStep(r) ==
  \/ \E i \in Items : Drops(r, i)
  \/ Deletes(r) \/ DeleteFails(r)

KeyStep(r) ==
  \/ \E k \in Keys : Submits(r, k)
  \/ Truncates(r) \/ Writes(r) \/ WriteFails(r) \/ Activates(r)

Next ==
  \/ \E r \in Requests : AddStep(r) \/ RemoveStep(r) \/ KeyStep(r)
  \/ Crash \/ Boot \/ BootBlind
  \/ Tick

Spec == Init /\ [][Next]_vars

-----------------------------------------------------------------------------
(* Properties *)

Request == [pc : {"idle", "next", "counted", "admitted", "scheduled",
                  "dropped", "accepted", "truncated", "written"},
            via : {"web", "console"}, item : Items \cup {NoItem},
            left : SUBSET Items, n : Nat, key : Keys, tier : Tiers,
            alone : BOOLEAN]

\* The types; a stopped process has no state and no requests, and a request
\* works on an item exactly while it names one.
TypeOK ==
  /\ up \in BOOLEAN /\ clock \in Nat
  /\ scheduled \subseteq Items /\ saved \subseteq Items
  /\ file \in Keys /\ act \in Tiers
  /\ req \in [Requests -> Request]
  /\ promised \subseteq Items /\ accepted \subseteq Keys
  /\ high \in Nat /\ clean \in BOOLEAN
  /\ ~up => scheduled = {} /\ \A r \in Requests : req[r].pc = "idle"
  /\ \A r \in Requests : OnItem(req[r]) <=> req[r].item # NoItem

\* An item whose save succeeded is in the table until somebody removes it,
\* through overlapping requests on it, failing store calls and crashes
\* (server.go, handleAddTarget: the user is told if a restart would forget it).
AddedSurvives == promised \subseteq saved

\* targets.go: "a restart restores them exactly": what runs and what a restart
\* would bring back agree on every item nobody is working on, as long as no
\* store call failed and no two requests met on one item.
InSync ==
  clean /\ up =>
    \A i \in Items :
      (\A r \in Requests : OnItem(req[r]) => req[r].item # i) =>
        (i \in scheduled <=> i \in saved)

\* The inventory exceeds the largest cap ever in force only by the requests
\* that were counting at the same time, though the two ways in count
\* different sets (server.go, canAdd; main.go, Console.Add).
CapBounded ==
  clean /\ high # 0 =>
    Cardinality(scheduled \cup saved) <= high + Cardinality(Requests) - 1

\* A key answered OK stays in the file and in force: crashes, restarts and
\* other handlers do not lose it, and only a restart after its expiry ends it
\* (license.go: "An EXPIRED key never bricks the product").
KeySurvives ==
  \A k \in accepted :
    /\ file = k
    /\ up => \/ act = KeyTier[k]
             \/ act = Free /\ clock > Expiry[k]
=============================================================================
