-------------------------- MODULE InventoryProofs ---------------------------
(***************************************************************************)
(* Proofs about Inventory, for any number of requests, items and keys.     *)
(*                                                                         *)
(* Each property is proved through an inductive invariant: PromiseInv for  *)
(* AddedSurvives, KeyInv for KeySurvives, SyncInv for InSync and CapInv    *)
(* for CapBounded.  All rest on the type invariant, and CapInv on SyncInv. *)
(***************************************************************************)
EXTENDS Inventory, FiniteSetTheorems, TLAPS

\* What a removal under way takes out is promised to nobody any more.
PromiseInv ==
  /\ AddedSurvives
  /\ \A r \in Requests : req[r].pc = "dropped" => req[r].item \notin promised

\* A submission that is alone is the only one under way; while one is, no key
\* is promised; and what it wrote is what it is about to activate.
KeyInv ==
  /\ KeySurvives
  /\ \A r \in Requests : OnKey(req[r]) =>
       /\ accepted = {}
       /\ req[r].tier = KeyTier[req[r].key]
       /\ req[r].alone => \A q \in Requests \ {r} : ~OnKey(req[q])
       /\ req[r].alone /\ req[r].pc = "written" => file = req[r].key

\* While no two requests met: each item has at most one request at work on
\* it, and where that request stands says where the item is.
SyncInv ==
  /\ InSync
  /\ clean => \A r \in Requests : OnItem(req[r]) =>
       /\ \A q \in Requests \ {r} : OnItem(req[q]) => req[q].item # req[r].item
       /\ req[r].pc = "scheduled" => req[r].item \in scheduled
       /\ req[r].pc = "dropped" => req[r].item \notin scheduled
       /\ req[r].pc \in {"counted", "admitted"} =>
            (req[r].item \in scheduled <=> req[r].item \in saved)

-----------------------------------------------------------------------------
(* Types *)

\* What a handler counts is a number.
LEMMA CountIsNat ==
  ASSUME NEW S, S \subseteq Items
  PROVE  Cardinality(S) \in Nat
BY InventoryAssumption, FS_Subset, FS_CardinalityType

\* The request records stay records: the idle one, and the one after an item.
LEMMA IdleType ==
  /\ Idle \in Request
  /\ Idle.pc = "idle" /\ Idle.item = NoItem
  /\ ~OnItem(Idle) /\ ~OnKey(Idle)
BY InventoryAssumption DEF Idle, Request, OnItem, OnKey

LEMMA FinishType ==
  ASSUME NEW x \in Request
  PROVE  /\ Finish(x) \in Request
         /\ ~OnItem(Finish(x)) /\ ~OnKey(Finish(x))
         /\ Finish(x).item = NoItem
         /\ Finish(x).pc # "dropped"
BY InventoryAssumption DEF Finish, Idle, Request, OnItem, OnKey

LEMMA ActivateType ==
  ASSUME NEW k \in Keys
  PROVE  Activate(k) \in Tiers
BY InventoryAssumption DEF Activate

LEMMA HigherType ==
  ASSUME high \in Nat, NEW t \in Tiers
  PROVE  Higher(t) \in Nat
BY InventoryAssumption DEF Higher

\* The type invariant holds initially and every step preserves it.
LEMMA TypeInit == Init => TypeOK
<1> SUFFICES ASSUME Init PROVE TypeOK
  OBVIOUS
<1>1. /\ req \in [Requests -> Request]
      /\ \A r \in Requests : req[r] = Idle
  BY IdleType DEF Init
<1> QED
  BY <1>1, InventoryAssumption, IdleType DEF Init, TypeOK

LEMMA TypeStep == TypeOK /\ [Next]_vars => TypeOK'
<1> SUFFICES ASSUME TypeOK, [Next]_vars PROVE TypeOK'
  OBVIOUS
<1> USE InventoryAssumption
<1>1. ASSUME NEW r \in Requests, NEW via \in {"web", "console"},
             NEW S \in SUBSET Items, BeginAdd(r, via, S)
      PROVE  TypeOK'
  BY <1>1, IdleType DEF BeginAdd, TypeOK, hist, Idle, Request, OnItem
<1>2. ASSUME NEW r \in Requests, NEW i \in Items, Counts(r, i) PROVE TypeOK'
  <2>1. Cardinality(IF req[r].via = "web" THEN scheduled ELSE saved) \in Nat
    BY CountIsNat DEF TypeOK
  <2> QED
    BY <1>2, <2>1 DEF Counts, TypeOK, Request, OnItem
<1>3. ASSUME NEW r \in Requests, NEW i \in Items, CountFails(r, i)
      PROVE  TypeOK'
  BY <1>3 DEF CountFails, TypeOK, Request, OnItem
<1>4. ASSUME NEW r \in Requests, Admits(r) PROVE TypeOK'
  <2>1. /\ req[r] \in Request /\ req[r].pc = "counted"
        /\ req' = [req EXCEPT ![r] = [req[r] EXCEPT !.pc = "admitted", !.n = 0]]
    BY <1>4 DEF Admits, TypeOK
  <2>2. /\ req'[r] \in Request /\ req'[r].item = req[r].item
        /\ OnItem(req'[r]) /\ OnItem(req[r])
    BY <2>1 DEF Request, OnItem, TypeOK
  <2> QED
    BY <1>4, <2>1, <2>2 DEF Admits, TypeOK, hist
<1>5. ASSUME NEW r \in Requests, Refuses(r) PROVE TypeOK'
  BY <1>5, FinishType DEF Refuses, TypeOK, hist, OnItem
<1>6. ASSUME NEW r \in Requests, Schedules(r) PROVE TypeOK'
  BY <1>6 DEF Schedules, TypeOK, hist, Request, OnItem
<1>7. ASSUME NEW r \in Requests, Saves(r) PROVE TypeOK'
  <2>1. req[r] \in Request /\ req[r].item \in Items
    BY <1>7 DEF Saves, TypeOK, OnItem, Request
  <2> QED
    BY <1>7, <2>1, FinishType DEF Saves, TypeOK, OnItem
<1>8. ASSUME NEW r \in Requests, SaveFails(r) PROVE TypeOK'
  BY <1>8, FinishType DEF SaveFails, TypeOK, OnItem
<1>9. ASSUME NEW r \in Requests, NEW i \in Items, Drops(r, i) PROVE TypeOK'
  BY <1>9 DEF Drops, TypeOK, Request, OnItem
<1>10. ASSUME NEW r \in Requests, Deletes(r) \/ DeleteFails(r) PROVE TypeOK'
  BY <1>10, IdleType DEF Deletes, DeleteFails, TypeOK, hist
<1>11. ASSUME NEW r \in Requests, NEW k \in Keys, Submits(r, k) PROVE TypeOK'
  <2> DEFINE x == [Idle EXCEPT !.pc = "accepted", !.key = k,
                               !.tier = Activate(k),
                               !.alone = ({q \in Requests : OnKey(req[q])} = {})]
  <2>1. x \in Request /\ ~OnItem(x) /\ x.item = NoItem
    BY ActivateType, IdleType DEF Request, OnItem, Idle
  <2>2. ASSUME NEW y \in Request
        PROVE  /\ [y EXCEPT !.alone = FALSE] \in Request
               /\ [y EXCEPT !.alone = FALSE].item = y.item
               /\ OnItem([y EXCEPT !.alone = FALSE]) <=> OnItem(y)
    BY DEF Request, OnItem
  <2>3. \A q \in Requests :
          req'[q] \in {x, [req[q] EXCEPT !.alone = FALSE], req[q]}
    BY <1>11 DEF Submits
  <2>4. req' \in [Requests -> Request]
    BY <1>11, <2>1, <2>2, <2>3 DEF Submits, TypeOK
  <2> HIDE DEF x
  <2>5. ASSUME NEW q \in Requests
        PROVE  OnItem(req'[q]) <=> req'[q].item # NoItem
    <3>1. req[q] \in Request /\ (OnItem(req[q]) <=> req[q].item # NoItem)
      BY DEF TypeOK
    <3>2. CASE req'[q] = x
      BY <2>1, <3>2
    <3>3. CASE req'[q] = [req[q] EXCEPT !.alone = FALSE]
      BY <2>2, <3>1, <3>3
    <3> QED
      BY <2>3, <3>1, <3>2, <3>3
  <2> QED
    BY <1>11, <2>4, <2>5 DEF Submits, TypeOK
<1>12. ASSUME NEW r \in Requests, Truncates(r) \/ Writes(r) PROVE TypeOK'
  <2>1. CASE Truncates(r)
    BY <2>1 DEF Truncates, TypeOK, hist, Request, OnItem
  <2>2. CASE Writes(r)
    BY <2>2 DEF Writes, TypeOK, hist, Request, OnItem
  <2> QED
    BY <1>12, <2>1, <2>2
<1>13. ASSUME NEW r \in Requests, WriteFails(r) PROVE TypeOK'
  BY <1>13, IdleType DEF WriteFails, TypeOK, hist
<1>14. ASSUME NEW r \in Requests, Activates(r) PROVE TypeOK'
  <2>1. req[r].tier \in Tiers /\ req[r].key \in Keys
    BY DEF TypeOK, Request
  <2> QED
    BY <1>14, <2>1, HigherType, IdleType DEF Activates, TypeOK
<1>15. CASE Crash
  BY <1>15, IdleType DEF Crash, TypeOK, hist, Idle
<1>16. CASE Boot \/ BootBlind
  BY <1>16, ActivateType, HigherType DEF Boot, BootBlind, TypeOK
<1>17. CASE Tick
  BY <1>17 DEF Tick, TypeOK, hist
<1>18. CASE UNCHANGED vars
  BY <1>18 DEF vars, TypeOK
<1> QED
  BY <1>1, <1>2, <1>3, <1>4, <1>5, <1>6, <1>7, <1>8, <1>9, <1>10, <1>11,
     <1>12, <1>13, <1>14, <1>15, <1>16, <1>17, <1>18
     DEF Next, AddStep, RemoveStep, KeyStep

\* Every reachable state is well typed; a stopped process runs no request.
THEOREM TypeCorrect == Spec => []TypeOK
BY TypeInit, TypeStep, PTL DEF Spec

-----------------------------------------------------------------------------
(* Frames *)

\* What every step of an addition by r leaves alone.
AddOnly(r) ==
  /\ \A q \in Requests \ {r} : req'[q] = req[q]
  /\ req'[r].pc # "dropped" /\ ~OnKey(req'[r])
  /\ req[r].pc # "dropped" /\ ~OnKey(req[r])
  /\ UNCHANGED <<up, clock, file, act, accepted, high>>

\* An addition moves its own request only, and neither removes nor submits.
LEMMA AddFrame ==
  ASSUME TypeOK, NEW r \in Requests, AddStep(r)
  PROVE  AddOnly(r)
<1> USE DEF AddOnly, OnKey
<1>1. req \in [Requests -> Request] /\ req[r] \in Request
  BY DEF TypeOK
<1>2. Finish(req[r]).pc # "dropped" /\ ~OnKey(Finish(req[r]))
  BY <1>1, FinishType
<1>3. ASSUME NEW via \in {"web", "console"}, NEW S \in SUBSET Items,
             BeginAdd(r, via, S)
      PROVE  AddOnly(r)
  BY <1>1, <1>3 DEF BeginAdd, Idle, hist
<1>4. ASSUME NEW i \in Items, Counts(r, i) PROVE AddOnly(r)
  BY <1>1, <1>4 DEF Counts, Request
<1>5. ASSUME NEW i \in Items, CountFails(r, i) PROVE AddOnly(r)
  BY <1>1, <1>5 DEF CountFails, Request
<1>6. CASE Admits(r)
  BY <1>1, <1>6 DEF Admits, Request, hist
<1>7. CASE Refuses(r)
  BY <1>1, <1>2, <1>7 DEF Refuses, hist
<1>8. CASE Schedules(r)
  BY <1>1, <1>8 DEF Schedules, Request, hist
<1>9. CASE Saves(r) \/ SaveFails(r)
  BY <1>1, <1>2, <1>9 DEF Saves, SaveFails
<1> QED
  BY <1>3, <1>4, <1>5, <1>6, <1>7, <1>8, <1>9 DEF AddStep

\* A submission that begins changes nothing of the other requests but `alone'.
LEMMA SubmitFrame ==
  ASSUME TypeOK, NEW r \in Requests, NEW k \in Keys, Submits(r, k),
         NEW q \in Requests, q # r
  PROVE  /\ req'[q].pc = req[q].pc /\ req'[q].item = req[q].item
         /\ req'[q].key = req[q].key /\ req'[q].tier = req[q].tier
         /\ OnKey(req[q]) => ~req'[q].alone
<1>1. req[q] \in Request
  BY DEF TypeOK
<1>2. req'[q] = IF OnKey(req[q]) THEN [req[q] EXCEPT !.alone = FALSE] ELSE req[q]
  BY DEF Submits
<1> QED
  BY <1>1, <1>2 DEF Request

-----------------------------------------------------------------------------
(* AddedSurvives *)

LEMMA PromiseInit == Init => PromiseInv
BY IdleType DEF Init, PromiseInv, AddedSurvives

\* Only Saves adds a promise, and only Deletes takes out of the table.
LEMMA PromiseStep == TypeOK /\ PromiseInv /\ [Next]_vars => PromiseInv'
<1> SUFFICES ASSUME TypeOK, PromiseInv, [Next]_vars PROVE PromiseInv'
  OBVIOUS
<1> USE DEF PromiseInv, AddedSurvives
<1>1. ASSUME UNCHANGED <<saved, promised>>,
             \A q \in Requests : req'[q].pc = "dropped" =>
               req[q].pc = "dropped" /\ req'[q].item = req[q].item
      PROVE  PromiseInv'
  BY <1>1
<1>2. ASSUME NEW r \in Requests, AddStep(r), ~Saves(r) PROVE PromiseInv'
  <2>1. UNCHANGED <<saved, promised>>
    BY <1>2 DEF AddStep, BeginAdd, Counts, CountFails, Admits, Refuses,
                Schedules, SaveFails, hist
  <2> QED
    BY <1>1, <1>2, <2>1, AddFrame DEF AddOnly
<1>3. ASSUME NEW r \in Requests, Saves(r) PROVE PromiseInv'
  <2>1. Finish(req[r]).pc # "dropped" /\ req \in [Requests -> Request]
    BY FinishType DEF TypeOK
  <2> QED
    BY <1>3, <2>1 DEF Saves
<1>4. ASSUME NEW r \in Requests, NEW i \in Items, Drops(r, i)
      PROVE  PromiseInv'
  BY <1>4 DEF Drops, TypeOK, Request
<1>5. ASSUME NEW r \in Requests, Deletes(r) \/ DeleteFails(r)
      PROVE  PromiseInv'
  BY <1>5, IdleType DEF Deletes, DeleteFails, TypeOK, hist
<1>6. ASSUME NEW r \in Requests, NEW k \in Keys, Submits(r, k)
      PROVE  PromiseInv'
  <2>1. req'[r].pc # "dropped"
    BY <1>6 DEF Submits, Idle
  <2>2. UNCHANGED <<saved, promised>>
    BY <1>6 DEF Submits
  <2> QED
    BY <1>1, <1>6, <2>1, <2>2, SubmitFrame
<1>7. ASSUME NEW r \in Requests,
             Truncates(r) \/ Writes(r) \/ WriteFails(r) \/ Activates(r)
      PROVE  PromiseInv'
  BY <1>7, <1>1, IdleType
     DEF Truncates, Writes, WriteFails, Activates, TypeOK, Request, hist
<1>8. CASE Crash \/ Boot \/ BootBlind \/ Tick
  BY <1>8, <1>1, IdleType DEF Crash, Boot, BootBlind, Tick, hist
<1>9. CASE UNCHANGED vars
  BY <1>9, <1>1 DEF vars
<1> QED
  BY <1>2, <1>3, <1>4, <1>5, <1>6, <1>7, <1>8, <1>9
     DEF Next, RemoveStep, KeyStep

\* Whatever overlaps, fails or crashes, a saved item stays in the table until
\* a request removes it.
THEOREM NothingForgotten == Spec => []AddedSurvives
<1>1. TypeOK /\ PromiseInv => AddedSurvives
  BY DEF PromiseInv
<1> QED
  BY TypeCorrect, PromiseInit, PromiseStep, <1>1, PTL DEF Spec

-----------------------------------------------------------------------------
(* KeySurvives *)

LEMMA KeyInit == Init => KeyInv
BY IdleType DEF Init, KeyInv, KeySurvives

LEMMA KeyStepInv == TypeOK /\ KeyInv /\ [Next]_vars => KeyInv'
<1> SUFFICES ASSUME TypeOK, KeyInv, [Next]_vars PROVE KeyInv'
  OBVIOUS
<1> USE InventoryAssumption DEF KeyInv, KeySurvives
<1>1. ASSUME UNCHANGED <<up, clock, file, act, accepted>>,
             \A q \in Requests : OnKey(req'[q]) => req'[q] = req[q]
      PROVE  KeyInv'
  BY <1>1
<1>2. ASSUME NEW r \in Requests, AddStep(r) PROVE KeyInv'
  BY <1>1, <1>2, AddFrame DEF AddOnly
<1>3. ASSUME NEW r \in Requests, RemoveStep(r) PROVE KeyInv'
  BY <1>1, <1>3, IdleType
     DEF RemoveStep, Drops, Deletes, DeleteFails, TypeOK, Request, hist, OnKey
<1>4. ASSUME NEW r \in Requests, NEW k \in Keys, Submits(r, k) PROVE KeyInv'
  <2>1. /\ accepted' = {} /\ req'[r].pc = "accepted"
        /\ req'[r].key = k /\ req'[r].tier = Activate(k)
        /\ req'[r].alone => \A q \in Requests : ~OnKey(req[q])
        /\ ~OnKey(req[r])
    BY <1>4 DEF Submits, Idle, OnKey
  <2>2. Activate(k) = KeyTier[k]
    BY <1>4 DEF Submits, Activate
  <2>3. \A q \in Requests \ {r} : OnKey(req'[q]) <=> OnKey(req[q])
    BY <1>4, SubmitFrame DEF OnKey
  <2> QED
    BY <1>4, <2>1, <2>2, <2>3, SubmitFrame DEF OnKey
<1>5. ASSUME NEW r \in Requests, Truncates(r) PROVE KeyInv'
  BY <1>5 DEF Truncates, TypeOK, Request, OnKey, hist
<1>6. ASSUME NEW r \in Requests, Writes(r) PROVE KeyInv'
  BY <1>6 DEF Writes, TypeOK, Request, OnKey, hist
<1>7. ASSUME NEW r \in Requests, WriteFails(r) PROVE KeyInv'
  BY <1>7, IdleType DEF WriteFails, TypeOK, OnKey, hist
<1>8. ASSUME NEW r \in Requests, Activates(r) PROVE KeyInv'
  BY <1>8, IdleType DEF Activates, TypeOK, OnKey
<1>9. CASE Crash
  BY <1>9, IdleType DEF Crash, OnKey, hist
<1>10. CASE Boot \/ BootBlind
  BY <1>10 DEF Boot, BootBlind, Activate, TypeOK
<1>11. CASE Tick
  BY <1>11 DEF Tick, TypeOK, hist
<1>12. CASE UNCHANGED vars
  BY <1>12, <1>1 DEF vars
<1> QED
  BY <1>2, <1>3, <1>4, <1>5, <1>6, <1>7, <1>8, <1>9, <1>10, <1>11, <1>12
     DEF Next, KeyStep

\* A key that was answered OK and not replaced stays in the file, and in
\* force until a restart after its expiry.
THEOREM KeyRemembered == Spec => []KeySurvives
<1>1. TypeOK /\ KeyInv => KeySurvives
  BY DEF KeyInv
<1> QED
  BY TypeCorrect, KeyInit, KeyStepInv, <1>1, PTL DEF Spec

-----------------------------------------------------------------------------
(* InSync *)

LEMMA SyncInit == Init => SyncInv
BY IdleType DEF Init, SyncInv, InSync

LEMMA SyncStep == TypeOK /\ SyncInv /\ [Next]_vars => SyncInv'
<1> SUFFICES ASSUME TypeOK, SyncInv, [Next]_vars, clean' PROVE SyncInv'
  BY DEF SyncInv, InSync
<1> USE DEF SyncInv, InSync
<1>1. ASSUME UNCHANGED <<up, scheduled, saved, clean>>,
             \A q \in Requests :
               /\ OnItem(req'[q]) <=> OnItem(req[q])
               /\ OnItem(req[q]) => /\ req'[q].item = req[q].item
                                    /\ req'[q].pc = req[q].pc
      PROVE  SyncInv'
  BY <1>1
<1>2. ASSUME NEW r \in Requests, NEW via \in {"web", "console"},
             NEW S \in SUBSET Items, BeginAdd(r, via, S)
      PROVE  SyncInv'
  BY <1>1, <1>2 DEF BeginAdd, TypeOK, OnItem, Idle, hist
<1>3. ASSUME NEW r \in Requests, NEW i \in Items, Counts(r, i) PROVE SyncInv'
  <2>1. /\ req[r].pc = "next" /\ req'[r].pc = "counted" /\ req'[r].item = i
        /\ \A q \in Requests \ {r} : req'[q] = req[q]
        /\ clean /\ ~Meets(r, i) /\ up
        /\ UNCHANGED <<up, scheduled, saved>>
    BY <1>3 DEF Counts, TypeOK, Request
  <2>2. i \in scheduled <=> i \in saved
    BY <2>1 DEF Meets, OnItem
  <2> QED
    BY <2>1, <2>2 DEF Meets, OnItem
<1>4. ASSUME NEW r \in Requests, Admits(r) PROVE SyncInv'
  BY <1>4 DEF Admits, TypeOK, Request, OnItem, hist
<1>5. ASSUME NEW r \in Requests, Refuses(r) PROVE SyncInv'
  BY <1>5, FinishType DEF Refuses, TypeOK, OnItem, hist
<1>6. ASSUME NEW r \in Requests, Schedules(r) PROVE SyncInv'
  BY <1>6 DEF Schedules, TypeOK, Request, OnItem, hist
<1>7. ASSUME NEW r \in Requests, Saves(r) PROVE SyncInv'
  <2>1. req[r] \in Request /\ ~OnItem(Finish(req[r]))
    BY FinishType DEF TypeOK
  <2> QED
    BY <1>7, <2>1 DEF Saves, TypeOK, OnItem
<1>8. ASSUME NEW r \in Requests, NEW i \in Items, Drops(r, i) PROVE SyncInv'
  BY <1>8 DEF Drops, TypeOK, Request, OnItem, Meets
<1>9. ASSUME NEW r \in Requests, Deletes(r) PROVE SyncInv'
  BY <1>9, IdleType DEF Deletes, TypeOK, OnItem, hist
<1>10. ASSUME NEW r \in Requests, NEW k \in Keys, Submits(r, k)
       PROVE  SyncInv'
  <2>1. ~OnItem(req[r]) /\ ~OnItem(req'[r])
    BY <1>10 DEF Submits, OnItem, Idle
  <2>2. UNCHANGED <<up, scheduled, saved, clean>>
    BY <1>10 DEF Submits
  <2> QED
    BY <1>1, <1>10, <2>1, <2>2, SubmitFrame DEF OnItem
<1>11. ASSUME NEW r \in Requests,
              Truncates(r) \/ Writes(r) \/ WriteFails(r) \/ Activates(r)
       PROVE  SyncInv'
  <2>1. UNCHANGED <<up, scheduled, saved, clean>>
    BY <1>11 DEF Truncates, Writes, WriteFails, Activates, hist
  <2>2. /\ \A q \in Requests \ {r} : req'[q] = req[q]
        /\ ~OnItem(req[r]) /\ ~OnItem(req'[r])
    <3>1. req \in [Requests -> Request] /\ req[r] \in Request
      BY DEF TypeOK
    <3>2. CASE Truncates(r)
      BY <3>1, <3>2 DEF Truncates, Request, OnItem
    <3>3. CASE Writes(r)
      BY <3>1, <3>3 DEF Writes, Request, OnItem
    <3>4. CASE WriteFails(r) \/ Activates(r)
      BY <3>1, <3>4, IdleType DEF WriteFails, Activates, OnItem
    <3> QED
      BY <1>11, <3>2, <3>3, <3>4
  <2> QED
    BY <1>1, <2>1, <2>2
<1>12. CASE Crash
  BY <1>12, IdleType DEF Crash, hist
<1>13. CASE Boot
  BY <1>13 DEF Boot, TypeOK, OnItem
<1>14. CASE Tick \/ UNCHANGED vars
  BY <1>14, <1>1 DEF Tick, vars, hist
<1>15. CASE \/ BootBlind
            \/ \E r \in Requests :
                 \/ SaveFails(r) \/ DeleteFails(r)
                 \/ \E i \in Items : CountFails(r, i)
  BY <1>15 DEF BootBlind, SaveFails, DeleteFails, CountFails
<1> QED
  BY <1>2, <1>3, <1>4, <1>5, <1>6, <1>7, <1>8, <1>9, <1>10, <1>11, <1>12,
     <1>13, <1>14, <1>15 DEF Next, AddStep, RemoveStep, KeyStep

\* Until a store call fails or two requests meet on one item, memory and table
\* agree on every item nobody is working on, so a restart restores it exactly.
THEOREM RestartRestores == Spec => []InSync
<1>1. TypeOK /\ SyncInv => InSync
  BY DEF SyncInv
<1> QED
  BY TypeCorrect, SyncInit, SyncStep, <1>1, PTL DEF Spec

-----------------------------------------------------------------------------
(* CapBounded *)

\* The items that count, or will if the cap is h: what a request has counted
\* below h it may still add.
Pending(h) == {r \in Requests :
                 \/ req[r].pc = "admitted"
                 \/ req[r].pc = "counted" /\ req[r].n < h}

Booked(h) == scheduled \cup saved \cup {req[r].item : r \in Pending(h)}

\* The bound holds for every cap the tier may rise to, not only for today's:
\* a count made under one cap may be admitted under a later one.
CapInv ==
  high # 0 =>
    /\ Cap[act] # 0 /\ Cap[act] <= high
    /\ Cap[Free] # 0 /\ Cap[Free] <= high
    /\ clean => \A h \in Nat : h >= high =>
         Cardinality(Booked(h)) <= h - 1 + Cardinality(Requests)

LEMMA BookedType ==
  ASSUME TypeOK, NEW h \in Nat
  PROVE  Booked(h) \subseteq Items
BY DEF TypeOK, Booked, Pending, OnItem, Request

\* Fewer items are booked by fewer.
LEMMA CardinalityMonotone ==
  ASSUME NEW S, NEW T, S \subseteq T, T \subseteq Items
  PROVE  /\ Cardinality(S) \in Nat /\ Cardinality(T) \in Nat
         /\ Cardinality(S) <= Cardinality(T)
<1>1. IsFiniteSet(T)
  BY InventoryAssumption, FS_Subset
<1> QED
  BY <1>1, FS_Subset, FS_CardinalityType

LEMMA CapInit == Init => CapInv
<1> SUFFICES ASSUME Init, high # 0 PROVE CapInv
  BY DEF CapInv
<1>1. Cardinality(Requests) \in Nat /\ Cardinality(Requests) # 0
  BY InventoryAssumption, FS_CardinalityType, FS_EmptySet
<1>2. \A h \in Nat : Booked(h) = {}
  BY IdleType DEF Init, Booked, Pending
<1>3. Cardinality({}) = 0
  BY FS_EmptySet
<1>4. high \in Nat /\ high = Cap[Free] /\ act = Free
  BY InventoryAssumption DEF Init
<1>5. ASSUME NEW h \in Nat, h >= high
      PROVE  Cardinality(Booked(h)) <= h - 1 + Cardinality(Requests)
  BY <1>1, <1>2, <1>3, <1>4, <1>5
<1> QED
  BY <1>4, <1>5 DEF CapInv

LEMMA FinishPending ==
  ASSUME NEW x \in Request
  PROVE  Finish(x).pc \notin {"counted", "admitted"}
BY DEF Finish, Idle, Request

\* The count: what the request read, and one item for each request at work.
LEMMA CountStep ==
  ASSUME TypeOK, SyncInv, NEW r \in Requests, NEW i \in Items, Counts(r, i),
         clean', NEW h \in Nat, req'[r].n < h
  PROVE  Cardinality(Booked(h)') <= h - 1 + Cardinality(Requests)
<1> DEFINE read == IF req[r].via = "web" THEN scheduled ELSE saved
           atWork == {req'[q].item : q \in {p \in Requests : OnItem(req'[p])}}
<1>1. /\ req'[r].pc = "counted" /\ req'[r].item = i
      /\ req'[r].n = Cardinality(read)
      /\ \A q \in Requests \ {r} : req'[q] = req[q]
      /\ clean /\ up /\ UNCHANGED <<scheduled, saved>>
      /\ ~OnItem(req[r])
  BY DEF Counts, TypeOK, Request, OnItem
<1>2. Booked(h)' \subseteq read \cup atWork
  <2>1. \A x \in scheduled \cup saved : x \in read \/ x \in atWork
    BY <1>1 DEF SyncInv, InSync, TypeOK
  <2>2. \A q \in Pending(h)' : req'[q].item \in atWork
    BY DEF Pending, OnItem
  <2> QED
    BY <1>1, <2>1, <2>2 DEF Booked
<1>3. /\ IsFiniteSet(read) /\ Cardinality(read) \in Nat
      /\ read \subseteq Items
  BY InventoryAssumption, FS_Subset, FS_CardinalityType DEF TypeOK
<1>4. /\ IsFiniteSet(atWork) /\ Cardinality(atWork) \in Nat
      /\ Cardinality(atWork) <= Cardinality(Requests)
      /\ Cardinality(Requests) \in Nat
  <2> DEFINE P == {p \in Requests : OnItem(req'[p])}
             f == [q \in P |-> req'[q].item]
  <2>1. /\ IsFiniteSet(P) /\ Cardinality(P) <= Cardinality(Requests)
        /\ Cardinality(P) \in Nat /\ Cardinality(Requests) \in Nat
    BY InventoryAssumption, FS_Subset, FS_CardinalityType
  <2>2. f \in Surjection(P, atWork)
    BY DEF Surjection
  <2>3. IsFiniteSet(atWork) /\ Cardinality(atWork) <= Cardinality(P)
    BY <2>1, <2>2, FS_Surjection
  <2> QED
    BY <2>1, <2>3, FS_CardinalityType
<1>5. /\ IsFiniteSet(read \cup atWork)
      /\ Cardinality(read \cup atWork) \in Nat
      /\ Cardinality(read \cup atWork) <= Cardinality(read) + Cardinality(atWork)
  <2>1. Cardinality(read \cap atWork) \in Nat
    BY <1>3, FS_Subset, FS_CardinalityType
  <2>2. /\ IsFiniteSet(read \cup atWork)
        /\ Cardinality(read \cup atWork) \in Nat
        /\ Cardinality(read \cup atWork)
             = Cardinality(read) + Cardinality(atWork) - Cardinality(read \cap atWork)
    BY <1>3, <1>4, FS_Union, FS_CardinalityType
  <2> HIDE DEF read, atWork
  <2> QED
    BY <1>3, <1>4, <2>1, <2>2
<1>6. /\ Cardinality(Booked(h)') \in Nat
      /\ Cardinality(Booked(h)') <= Cardinality(read \cup atWork)
  BY <1>2, <1>5, FS_Subset, FS_CardinalityType
<1> HIDE DEF read, atWork
<1> QED
  BY <1>1, <1>3, <1>4, <1>5, <1>6

\* Only a count books items; every other step leaves the booked ones, or
\* fewer, and does not lower the bound.
LEMMA CapStep == TypeOK /\ SyncInv /\ CapInv /\ [Next]_vars => CapInv'
<1> SUFFICES ASSUME TypeOK, SyncInv, CapInv, [Next]_vars, high' # 0
             PROVE  CapInv'
  BY DEF CapInv
<1> USE InventoryAssumption
<1> DEFINE Limits == /\ Cap[act'] # 0 /\ Cap[act'] <= high'
                     /\ Cap[Free] # 0 /\ Cap[Free] <= high'
                     /\ high # 0 /\ high <= high'
           Bound(h) == Cardinality(Booked(h)') <= h - 1 + Cardinality(Requests)
<1>1. Limits
  <2>1. CASE UNCHANGED <<act, high>>
    BY <2>1 DEF CapInv, TypeOK
  <2>2. ASSUME NEW t \in Tiers, act' = t, high' = Higher(t) PROVE Limits
    BY <2>2 DEF Higher, CapInv, TypeOK
  <2>3. CASE Crash
    BY <2>3 DEF Crash, CapInv, TypeOK, hist
  <2>4. CASE Boot \/ BootBlind
    BY <2>2, <2>4, ActivateType DEF Boot, BootBlind, TypeOK
  <2>5. ASSUME NEW r \in Requests, Activates(r) PROVE Limits
    BY <2>2, <2>5 DEF Activates, TypeOK, Request
  <2>6. ASSUME NEW r \in Requests, AddStep(r) PROVE UNCHANGED <<act, high>>
    BY <2>6, AddFrame DEF AddOnly
  <2>7. ASSUME NEW r \in Requests, RemoveStep(r) PROVE UNCHANGED <<act, high>>
    BY <2>7 DEF RemoveStep, Drops, Deletes, DeleteFails, hist
  <2>8. ASSUME NEW r \in Requests, KeyStep(r), ~Activates(r)
        PROVE  UNCHANGED <<act, high>>
    BY <2>8 DEF KeyStep, Submits, Truncates, Writes, WriteFails, hist
  <2>9. CASE Tick \/ UNCHANGED vars
    BY <2>1, <2>9 DEF Tick, vars, hist
  <2> QED
    BY <2>1, <2>3, <2>4, <2>5, <2>6, <2>7, <2>8, <2>9 DEF Next
<1> HIDE DEF Limits
<1>2. ASSUME NEW h \in Nat, h >= high', clean, Booked(h)' \subseteq Booked(h)
      PROVE  Bound(h)
  <2>1. h >= high /\ high # 0
    BY <1>1, <1>2, TypeStep DEF TypeOK, Limits
  <2>2. Cardinality(Booked(h)) <= h - 1 + Cardinality(Requests)
    BY <1>2, <2>1 DEF CapInv
  <2>3. /\ Cardinality(Booked(h)') \in Nat /\ Cardinality(Booked(h)) \in Nat
        /\ Cardinality(Booked(h)') <= Cardinality(Booked(h))
    BY <1>2, BookedType, CardinalityMonotone
  <2>4. Cardinality(Requests) \in Nat
    BY FS_CardinalityType
  <2> QED
    BY <2>2, <2>3, <2>4
<1>3. ASSUME NEW h \in Nat, h >= high', clean' PROVE Bound(h)
  <2> USE <1>3 DEF Booked, Pending
  <2>1. ASSUME NEW r \in Requests, NEW via \in {"web", "console"},
               NEW S \in SUBSET Items, BeginAdd(r, via, S)
        PROVE  Bound(h)
    BY <1>2, <2>1 DEF BeginAdd, TypeOK, Idle, hist
  <2>2. ASSUME NEW r \in Requests, NEW i \in Items, Counts(r, i)
        PROVE  Bound(h)
    <3>1. CASE req'[r].n < h
      BY <2>2, <3>1, CountStep
    <3>2. CASE ~(req'[r].n < h)
      BY <1>2, <2>2, <3>2 DEF Counts, TypeOK, Request
    <3> QED
      BY <3>1, <3>2
  <2>3. ASSUME NEW r \in Requests, Admits(r) PROVE Bound(h)
    <3>1. req[r].n < h
      BY <1>1, <2>3, TypeStep DEF Admits, canAdd, CapInv, TypeOK, Request, hist, Limits
    <3> QED
      BY <1>2, <2>3, <3>1 DEF Admits, TypeOK, Request, hist
  <2>4. ASSUME NEW r \in Requests, Refuses(r) PROVE Bound(h)
    BY <1>2, <2>4, FinishPending DEF Refuses, TypeOK, hist
  <2>5. ASSUME NEW r \in Requests, Schedules(r) PROVE Bound(h)
    <3>1. req \in [Requests -> Request] /\ req[r] \in Request
      BY DEF TypeOK
    <3>2. /\ req'[r] = [req[r] EXCEPT !.pc = "scheduled"]
          /\ \A q \in Requests \ {r} : req'[q] = req[q]
          /\ req[r].pc = "admitted" /\ clean
          /\ saved' = saved /\ scheduled' = scheduled \cup {req[r].item}
      BY <2>5, <3>1 DEF Schedules, hist
    <3>3. req'[r].pc = "scheduled"
      BY <3>1, <3>2 DEF Request
    <3>4. r \in Pending(h)
      BY <3>2
    <3>5. req[r].item \in Booked(h)
      BY <3>4
    <3>6. Booked(h)' \subseteq Booked(h)
      <4>1. \A q \in Pending(h)' : q \in Pending(h) /\ req'[q].item = req[q].item
        BY <3>2, <3>3
      <4> QED
        BY <3>2, <3>5, <4>1
    <3> QED
      BY <1>2, <3>2, <3>6
  <2>6. ASSUME NEW r \in Requests, Saves(r) PROVE Bound(h)
    <3>1. clean /\ req[r].item \in scheduled
      BY <2>6 DEF Saves, SyncInv, OnItem
    <3> QED
      BY <1>2, <2>6, <3>1, FinishPending DEF Saves, TypeOK
  <2>7. ASSUME NEW r \in Requests, NEW i \in Items, Drops(r, i)
        PROVE  Bound(h)
    BY <1>2, <2>7 DEF Drops, TypeOK, Request
  <2>8. ASSUME NEW r \in Requests, Deletes(r) PROVE Bound(h)
    BY <1>2, <2>8, IdleType DEF Deletes, TypeOK, hist
  <2>9. ASSUME NEW r \in Requests, NEW k \in Keys, Submits(r, k)
        PROVE  Bound(h)
    <3>1. /\ req'[r].pc = "accepted" /\ clean
          /\ UNCHANGED <<scheduled, saved>>
      BY <2>9 DEF Submits, Idle
    <3>2. \A q \in Requests \ {r} : /\ req'[q].pc = req[q].pc
                                    /\ req'[q].item = req[q].item
                                    /\ req'[q].n = req[q].n
      <4> TAKE q \in Requests \ {r}
      <4>1. req[q] \in Request
        BY DEF TypeOK
      <4>2. req'[q] \in {[req[q] EXCEPT !.alone = FALSE], req[q]}
        BY <2>9 DEF Submits
      <4> QED
        BY <4>1, <4>2 DEF Request
    <3> QED
      BY <1>2, <3>1, <3>2
  <2>10. ASSUME NEW r \in Requests, Truncates(r) PROVE Bound(h)
    BY <1>2, <2>10 DEF Truncates, TypeOK, Request, hist
  <2>11. ASSUME NEW r \in Requests, Writes(r) PROVE Bound(h)
    BY <1>2, <2>11 DEF Writes, TypeOK, Request, hist
  <2>12. ASSUME NEW r \in Requests, WriteFails(r) \/ Activates(r)
         PROVE  Bound(h)
    <3>1. req' = [req EXCEPT ![r] = Idle] /\ UNCHANGED <<scheduled, saved, clean>>
      BY <2>12 DEF WriteFails, Activates, hist
    <3>2. Booked(h)' \subseteq Booked(h)
      BY <3>1, IdleType DEF TypeOK
    <3> QED
      BY <1>2, <3>1, <3>2
  <2>13. CASE Crash
    BY <1>2, <2>13, IdleType DEF Crash, hist
  <2>14. CASE Boot
    BY <1>2, <2>14 DEF Boot
  <2>15. CASE Tick \/ UNCHANGED vars
    BY <1>2, <2>15 DEF Tick, vars, hist
  <2>16. CASE \/ BootBlind
              \/ \E r \in Requests :
                   \/ SaveFails(r) \/ DeleteFails(r)
                   \/ \E i \in Items : CountFails(r, i)
    BY <2>16 DEF BootBlind, SaveFails, DeleteFails, CountFails
  <2> HIDE DEF Bound, Booked, Pending
  <2> QED
    BY <2>1, <2>2, <2>3, <2>4, <2>5, <2>6, <2>7, <2>8, <2>9, <2>10, <2>11,
       <2>12, <2>13, <2>14, <2>15, <2>16 DEF Next, AddStep, RemoveStep, KeyStep
<1> QED
  BY <1>1, <1>3 DEF CapInv, Limits

\* For any number of requests, keys and tiers: the inventory exceeds the
\* largest cap ever in force by the requests counting at once, and no more.
THEOREM CapHolds == Spec => []CapBounded
<1>1. ASSUME TypeOK, CapInv, clean, high # 0
      PROVE  Cardinality(scheduled \cup saved) <= high + Cardinality(Requests) - 1
  <2>1. Cardinality(Booked(high)) <= high - 1 + Cardinality(Requests)
    BY <1>1 DEF CapInv, TypeOK
  <2>2. /\ scheduled \cup saved \subseteq Booked(high)
        /\ Booked(high) \subseteq Items
    BY <1>1, BookedType DEF Booked, TypeOK
  <2>3. /\ Cardinality(scheduled \cup saved) \in Nat
        /\ Cardinality(Booked(high)) \in Nat
        /\ Cardinality(scheduled \cup saved) <= Cardinality(Booked(high))
    BY <2>2, CardinalityMonotone
  <2>4. Cardinality(Requests) \in Nat /\ high \in Nat
    BY <1>1, InventoryAssumption, FS_CardinalityType DEF TypeOK
  <2> QED
    BY <2>1, <2>3, <2>4
<1>2. TypeOK /\ CapInv => CapBounded
  BY <1>1 DEF CapBounded
<1> QED
  BY TypeCorrect, SyncInit, SyncStep, CapInit, CapStep, <1>2, PTL DEF Spec

=============================================================================
