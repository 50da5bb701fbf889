---------------------------- MODULE AssistProofs ----------------------------
(***************************************************************************)
(* For every store of findings, evidence, limits, sidecar and number of    *)
(* retries: the types and the bound on attempts, who may have a finding    *)
(* explained, what of it leaves the process, and what is shown.            *)
(***************************************************************************)
EXTENDS Assist, FiniteSetTheorems, WellFoundedInduction, TLAPS

PCs == {"idle", "get", "check", "post", "wait", "backoff", "done"}

\* The request with all its fields.
Request ==
  [pc     : PCs,
   rec    : Findings \cup {NoFinding},
   attempt : Nat,
   gone   : BOOLEAN,
   posted : SUBSET {NewFindingPacket(f) : f \in Findings \cup {NoFinding}},
   seen   : SUBSET (Findings \cup {NoFinding}),
   tiers  : SUBSET Tiers,
   told   : Texts \cup {<<>>}]

\* Somebody may be asked.
Licensed == ai.on /\ (ai.keyed => req.tiers \cap Paid # {})

\* TierDecidesNow alone is not inductive: the packet is posted some steps
\* after the tier was looked at, and the tier looked at is one of the request.
TierInv ==
  /\ req.pc \notin {"idle", "done"} => tier \in req.tiers
  /\ req.pc \in {"post", "wait", "backoff"} \/ req.posted # {} => Licensed

\* Before the request there is nothing of it.
Unasked == req.pc = "idle" => req.posted = {} /\ answer.reason # "tier"

IInv == TypeOK /\ req \in Request /\ TierInv /\ TierDecidesNow /\ Unasked

-----------------------------------------------------------------------------

LEMMA Initially == Init => IInv
<1> SUFFICES ASSUME Init PROVE IInv
  OBVIOUS
<1>1. ai \in [on : BOOLEAN, keyed : BOOLEAN, retries : Nat]
  <2>1. PICK cfg \in Settings, n \in {0, MaxRetries} : ai = NewAIAssist(cfg, n)
    BY DEF Init
  <2>2. n \in Nat
    BY <2>1, AssistAssumption
  <2>3. (cfg.url # "") \in BOOLEAN
        /\ (cfg.url # "" /\ cfg.keyFile = "key") \in BOOLEAN
    OBVIOUS
  <2> QED BY <2>1, <2>2, <2>3, Zenon DEF NewAIAssist
<1>2. req = Idle /\ answer = NoAnswer
  BY DEF Init
<1>3. Idle \in Request
  BY DEF Idle, Request, PCs
<1>4. TypeOK
  <2>0. record \in Findings \cup {NoFinding} /\ tier \in Tiers
    BY DEF Init
  <2>1. /\ req.pc = "idle" /\ req.rec = NoFinding /\ req.attempt = 0
        /\ req.gone = FALSE /\ req.seen = {} /\ req.tiers = {}
        /\ answer.status = 0 /\ answer.available = FALSE
    BY <1>2 DEF Idle, NoAnswer
  <2>2. ai.retries \in Nat
    BY <1>1
  <2>3. 0 \in 0 .. MaxChanges /\ 0 \in 0 .. ai.retries
    BY <2>2, AssistAssumption
  <2>4. changes \in 0 .. MaxChanges /\ req.attempt \in 0 .. ai.retries
    BY <2>1, <2>3 DEF Init
  <2>5. /\ record \in Findings \cup {NoFinding} /\ tier \in Tiers
        /\ req.pc \in {"idle", "get", "check", "post", "wait", "backoff", "done"}
        /\ req.rec \in Findings \cup {NoFinding}
        /\ req.gone \in BOOLEAN
        /\ req.seen \subseteq Findings \cup {NoFinding}
        /\ req.tiers \subseteq Tiers
    BY <2>0, <2>1
  <2>6. answer.status \in {0, 200, 400, 404, 500} /\ answer.available \in BOOLEAN
    BY <2>1
  <2> QED BY <1>1, <2>4, <2>5, <2>6, Zenon DEF TypeOK
<1>5. TierInv /\ TierDecidesNow /\ Unasked
  BY <1>2 DEF TierInv, TierDecidesNow, Unasked, Idle, NoAnswer
<1> QED BY <1>2, <1>3, <1>4, <1>5 DEF IInv

\* A step of the request that keeps what it has seen of the tiers and ends
\* without an answer about the tier.
LEMMA RequestGoesOn ==
  ASSUME IInv, NEW x \in Request, req' = x,
         UNCHANGED <<ai, record, tier, changes>>,
         x.attempt \in 0 .. ai.retries,
         x.tiers = req.tiers,
         x.pc # "idle",
         x.pc # "done" => req.pc \notin {"idle", "done"},
         x.pc \in {"post", "wait", "backoff"} \/ x.posted # {} => Licensed,
         answer'.status \in {0, 200, 400, 404, 500},
         answer'.available \in BOOLEAN,
         answer'.reason = "tier" =>
           answer.reason = "tier" \/ (ai.keyed /\ req.tiers \ Paid # {})
  PROVE  IInv'
<1>1. TypeOK'
  BY DEF IInv, TypeOK, Request, PCs
<1>2. TierInv'
  BY DEF IInv, TierInv, Licensed
<1>3. TierDecidesNow'
  BY DEF IInv, TierDecidesNow, Licensed
<1> QED BY <1>1, <1>2, <1>3 DEF IInv, Unasked

\* The ways a request ends.
LEMMA Ends ==
  ASSUME IInv, NEW told \in Texts \cup {<<>>},
         UNCHANGED <<ai, record, tier, changes>>,
         req' = [req EXCEPT !.pc = "done", !.told = told],
         answer'.status \in {0, 200, 400, 404, 500},
         answer'.available \in BOOLEAN,
         answer'.reason = "tier" => ai.keyed /\ req.tiers \ Paid # {}
  PROVE  IInv'
<1> DEFINE x == [req EXCEPT !.pc = "done", !.told = told]
<1>1. /\ x \in Request /\ x.pc = "done" /\ x.attempt = req.attempt
      /\ x.tiers = req.tiers /\ x.posted = req.posted
  <2>1. req \in Request /\ "done" \in PCs
    BY DEF IInv, PCs
  <2> DEFINE y == [req EXCEPT !.pc = "done"]
  <2>2. y \in Request /\ y.pc = "done" /\ y.attempt = req.attempt
        /\ y.tiers = req.tiers /\ y.posted = req.posted
    BY <2>1 DEF Request
  <2>3. x = [y EXCEPT !.told = told]
    BY <2>1 DEF Request
  <2> HIDE DEF y, x
  <2> QED BY <2>2, <2>3 DEF Request
<1>2. req.attempt \in 0 .. ai.retries
  BY DEF IInv, TypeOK
<1>3. req.posted # {} => Licensed
  BY DEF IInv, TierInv
<1> HIDE DEF x
<1>4. req' = x
  BY DEF x
<1> QED BY <1>1, <1>2, <1>3, <1>4, RequestGoesOn

LEMMA AnswersEnd ==
  ASSUME IInv, UNCHANGED <<ai, record, tier, changes>>,
         req' = [req EXCEPT !.pc = "done"],
         answer'.status \in {200, 400, 404, 500}, answer'.available = FALSE,
         answer'.reason = "tier" => ai.keyed /\ req.tiers \ Paid # {}
  PROVE  IInv'
<1>1. req' = [req EXCEPT !.pc = "done", !.told = req.told]
  BY DEF IInv, Request
<1>2. req.told \in Texts \cup {<<>>}
  BY DEF IInv, Request
<1> DEFINE told == req.told
           status == answer'.status
           available == answer'.available
<1>3. status \in {0, 200, 400, 404, 500} /\ available \in BOOLEAN
  <2>1. status \in {200, 400, 404, 500} /\ (available) = FALSE
    OBVIOUS
  <2> HIDE DEF status, available
  <2>2. status \in {0, 200, 400, 404, 500}
    BY <2>1
  <2>3. available \in BOOLEAN
    BY <2>1
  <2> QED BY <2>2, <2>3, Zenon
<1> HIDE DEF told
<1>4. told \in Texts \cup {<<>>} /\ req' = [req EXCEPT !.pc = "done", !.told = told]
  BY <1>1, <1>2 DEF told
<1> QED BY <1>3, <1>4, Ends

\* A step to another place in the handler, with its answer still to come.
LEMMA Moves ==
  ASSUME IInv, UNCHANGED <<ai, record, tier, changes, answer>>,
         NEW x \in Request, req' = x,
         x.tiers = req.tiers, x.posted = req.posted,
         x.attempt \in 0 .. ai.retries,
         req.pc \notin {"idle", "done"}, x.pc # "idle",
         x.pc \in {"post", "wait", "backoff"} => Licensed
  PROVE  IInv'
<1>1. /\ answer.status \in {0, 200, 400, 404, 500}
      /\ answer.available \in BOOLEAN
      /\ req.posted # {} => Licensed
  BY DEF IInv, TypeOK, TierInv
<1> QED BY <1>1, RequestGoesOn

LEMMA GivesUpStep ==
  ASSUME IInv, GivesUp, UNCHANGED <<ai, record, tier, changes>>
  PROVE  IInv'
<1>1. /\ req' = [req EXCEPT !.pc = "done"]
      /\ answer'.status = 200 /\ answer'.available = FALSE
      /\ answer'.reason = "did not answer"
  BY DEF GivesUp, Answers, Unanswered, Reply, NoAnswer
<1> QED BY <1>1, AnswersEnd

LEMMA RetryStep ==
  ASSUME IInv, req.pc \in {"post", "wait"}, Retries,
         UNCHANGED <<ai, record, tier, changes>>
  PROVE  IInv'
<1>1. CASE req.attempt < ai.retries
  <2> DEFINE x == [req EXCEPT !.pc = "backoff", !.attempt = @ + 1]
  <2>1. req' = x /\ answer' = answer
    BY <1>1 DEF Retries
  <2>2. /\ x \in Request /\ x.tiers = req.tiers /\ x.posted = req.posted
        /\ x.attempt = req.attempt + 1 /\ x.pc = "backoff"
    <3>1. req \in Request /\ req.attempt + 1 \in Nat /\ "backoff" \in PCs
      BY DEF IInv, Request, PCs
    <3> QED BY <3>1 DEF Request
  <2>3. req.attempt + 1 \in 0 .. ai.retries
    <3>1. req.attempt \in Nat /\ ai.retries \in Nat
      BY DEF IInv, TypeOK
    <3> QED BY <1>1, <3>1
  <2>4. Licensed
    BY DEF IInv, TierInv
  <2> HIDE DEF x
  <2> QED BY <2>1, <2>2, <2>3, <2>4, Moves
<1>2. CASE ~(req.attempt < ai.retries)
  <2>1. GivesUp
    BY <1>2 DEF Retries
  <2> QED BY <2>1, GivesUpStep
<1> QED BY <1>1, <1>2

\* Everybody else: a changed tier is one of the request's tiers from then on.
LEMMA OthersStep ==
  ASSUME IInv, Changes \/ Leaves
  PROVE  IInv'
<1>1. CASE Changes
  <2>1. /\ changes < MaxChanges /\ changes' = changes + 1
        /\ record' \in Findings \cup {NoFinding} /\ tier' \in Tiers
        /\ ai' = ai /\ answer' = answer
    BY <1>1, AssistAssumption DEF Changes, IInv, TypeOK
  <2>2. changes' \in 0 .. MaxChanges
    <3>1. changes \in Nat /\ MaxChanges \in Nat
      BY AssistAssumption DEF IInv, TypeOK
    <3> QED BY <2>1, <3>1
  <2>3. CASE req.pc = "idle"
    <3>1. req' = req
      BY <1>1, <2>3 DEF Changes
    <3>2. TypeOK'
      BY <2>1, <2>2, <3>1 DEF IInv, TypeOK
    <3>3. TierInv' /\ TierDecidesNow' /\ Unasked'
      BY <2>1, <2>3, <3>1 DEF IInv, TierInv, TierDecidesNow, Licensed, Unasked
    <3> QED BY <3>1, <3>2, <3>3 DEF IInv
  <2>4. CASE req.pc # "idle"
    <3> DEFINE x == [req EXCEPT !.seen = @ \cup {record'},
                                !.tiers = @ \cup {tier'}]
    <3>1. req' = x
      BY <1>1, <2>4 DEF Changes
    <3>2. /\ x \in Request /\ x.pc = req.pc /\ x.rec = req.rec
          /\ x.attempt = req.attempt /\ x.gone = req.gone
          /\ x.posted = req.posted /\ x.tiers = req.tiers \cup {tier'}
      BY <2>1 DEF IInv, Request
    <3> HIDE DEF x
    <3>3. TypeOK'
      <4>1. x.seen \subseteq Findings \cup {NoFinding} /\ x.tiers \subseteq Tiers
        BY <3>2 DEF Request
      <4> QED BY <2>1, <2>2, <3>1, <3>2, <4>1 DEF IInv, TypeOK
    <3>4. TierInv'
      BY <2>1, <3>1, <3>2 DEF IInv, TierInv, Licensed
    <3>5. TierDecidesNow' /\ Unasked'
      BY <2>1, <2>4, <3>1, <3>2 DEF IInv, TierDecidesNow, Unasked
    <3> QED BY <3>1, <3>2, <3>3, <3>4, <3>5 DEF IInv
  <2> QED BY <2>3, <2>4
<1>2. CASE Leaves
  <2> DEFINE x == [req EXCEPT !.gone = TRUE]
  <2>1. req' = x /\ UNCHANGED <<ai, record, tier, changes, answer>>
        /\ req.pc \notin {"idle", "done"}
    BY <1>2 DEF Leaves
  <2>2. /\ x \in Request /\ x.tiers = req.tiers /\ x.posted = req.posted
        /\ x.attempt = req.attempt /\ x.pc = req.pc
    BY DEF IInv, Request
  <2> HIDE DEF x
  <2>3. x.attempt \in 0 .. ai.retries
    BY <2>2 DEF IInv, TypeOK
  <2>4. x.pc \in {"post", "wait", "backoff"} => Licensed
    BY <2>2 DEF IInv, TierInv
  <2> QED BY <2>1, <2>2, <2>3, <2>4, Moves
<1> QED BY <1>1, <1>2

LEMMA BeginsStep ==
  ASSUME IInv, Begins
  PROVE  IInv'
<1>1. UNCHANGED <<ai, record, tier, changes>>
  BY DEF Begins
<1>2. ASSUME req' = [req EXCEPT !.pc = "get", !.seen = {record},
                                !.tiers = {tier}],
             answer' = answer
      PROVE  IInv'
  <2> DEFINE x == [req EXCEPT !.pc = "get", !.seen = {record},
                              !.tiers = {tier}]
  <2>1. record \in Findings \cup {NoFinding} /\ tier \in Tiers /\ "get" \in PCs
    BY DEF IInv, TypeOK, PCs
  <2>2. /\ x \in Request /\ x.pc = "get" /\ x.rec = req.rec
        /\ x.attempt = req.attempt /\ x.gone = req.gone
        /\ x.posted = req.posted /\ x.tiers = {tier} /\ x.seen = {record}
    BY <2>1 DEF IInv, Request
  <2>3. req.pc = "idle" /\ req' = x
    BY <1>2 DEF Begins
  <2>4. req.posted = {} /\ answer.reason # "tier"
    BY <2>3 DEF IInv, Unasked
  <2> HIDE DEF x
  <2>5. TypeOK'
    BY <1>1, <1>2, <2>1, <2>2, <2>3 DEF IInv, TypeOK
  <2>6. TierInv' /\ TierDecidesNow' /\ Unasked'
    BY <1>1, <1>2, <2>2, <2>3, <2>4 DEF TierInv, TierDecidesNow, Unasked
  <2> QED BY <2>2, <2>3, <2>5, <2>6 DEF IInv
<1>3. ASSUME req' = [req EXCEPT !.pc = "done"],
             answer' = Reply(400, "no fingerprint")
      PROVE  IInv'
  <2>1. /\ answer'.status = 400 /\ answer'.available = FALSE
        /\ answer'.reason = "no fingerprint"
    BY <1>3 DEF Reply, NoAnswer
  <2> QED BY <1>1, <1>3, <2>1, AnswersEnd
<1> QED BY <1>2, <1>3 DEF Begins

LEMMA HandlesStep ==
  ASSUME IInv, Handles
  PROVE  IInv'
<1>1. UNCHANGED <<ai, record, tier, changes>>
  BY DEF Handles, Gets, Checks, Posts, BacksOff
<1>2. ASSUME req' = [req EXCEPT !.pc = "done"],
             answer'.status \in {200, 404, 500}, answer'.available = FALSE,
             answer'.reason # "tier"
      PROVE  IInv'
  BY <1>1, <1>2, AnswersEnd
<1>3. CASE Gets
  <2>1. CASE Answers(Reply(500, "store error"))
    <3>1. /\ req' = [req EXCEPT !.pc = "done"]
          /\ answer'.status = 500 /\ answer'.available = FALSE
          /\ answer'.reason = "store error"
      BY <2>1 DEF Answers, Reply, NoAnswer
    <3> QED BY <1>2, <3>1
  <2>2. CASE Answers(Reply(404, "no such finding"))
    <3>1. /\ req' = [req EXCEPT !.pc = "done"]
          /\ answer'.status = 404 /\ answer'.available = FALSE
          /\ answer'.reason = "no such finding"
      BY <2>2 DEF Answers, Reply, NoAnswer
    <3> QED BY <1>2, <3>1
  <2>3. CASE req' = [req EXCEPT !.pc = "check", !.rec = record]
             /\ answer' = answer
    <3> DEFINE x == [req EXCEPT !.pc = "check", !.rec = record]
    <3>1. record \in Findings \cup {NoFinding} /\ "check" \in PCs
          /\ req.attempt \in 0 .. ai.retries
      BY DEF IInv, TypeOK, PCs
    <3>2. /\ x \in Request /\ x.pc = "check" /\ x.attempt = req.attempt
          /\ x.tiers = req.tiers /\ x.posted = req.posted
      BY <3>1 DEF IInv, Request
    <3>3. req.pc = "get" /\ req' = x
      BY <1>3, <2>3 DEF Gets
    <3> HIDE DEF x
    <3> QED BY <1>1, <2>3, <3>1, <3>2, <3>3, Moves
  <2> QED BY <1>3, <2>1, <2>2, <2>3 DEF Gets
<1>4. CASE Checks
  <2>0. req.pc = "check" /\ tier \in req.tiers
    BY <1>4 DEF Checks, IInv, TierInv
  <2>1. CASE ~aiAllowed /\ ai.on
    <3>1. ai.keyed /\ req.tiers \ Paid # {}
      BY <2>0, <2>1 DEF aiAllowed
    <3>2. /\ req' = [req EXCEPT !.pc = "done"]
          /\ answer'.status = 200 /\ answer'.available = FALSE
          /\ answer'.reason = "tier"
      BY <1>4, <2>1 DEF Checks, Answers, Reply, NoAnswer
    <3> QED BY <1>1, <3>1, <3>2, AnswersEnd
  <2>2. CASE ~aiAllowed /\ ~ai.on
    <3>1. /\ req' = [req EXCEPT !.pc = "done"]
          /\ answer'.status = 200 /\ answer'.available = FALSE
          /\ answer'.reason = "off"
      BY <1>4, <2>2 DEF Checks, Answers, Reply, NoAnswer
    <3> QED BY <1>2, <3>1
  <2>3. CASE aiAllowed /\ req.rec.title = 0
    <3>1. /\ req' = [req EXCEPT !.pc = "done"]
          /\ answer'.status = 200 /\ answer'.available = FALSE
          /\ answer'.reason = "nothing to explain"
      BY <1>4, <2>3 DEF Checks, Answers, Reply, NoAnswer
    <3> QED BY <1>2, <3>1
  <2>4. CASE aiAllowed /\ req.rec.title # 0
    <3> DEFINE x == [req EXCEPT !.pc = "post"]
    <3>1. req' = x /\ answer' = answer
      BY <1>4, <2>4 DEF Checks
    <3>2. "post" \in PCs /\ req.attempt \in 0 .. ai.retries
      BY DEF IInv, TypeOK, PCs
    <3>3. /\ x \in Request /\ x.pc = "post" /\ x.attempt = req.attempt
          /\ x.tiers = req.tiers /\ x.posted = req.posted
      BY <3>2 DEF IInv, Request
    <3>4. Licensed
      BY <2>0, <2>4 DEF aiAllowed, Licensed
    <3> HIDE DEF x
    <3> QED BY <1>1, <2>0, <3>1, <3>2, <3>3, <3>4, Moves
  <2> QED BY <2>1, <2>2, <2>3, <2>4
<1>5. CASE Posts
  <2>1. CASE req.gone
    BY <1>1, <1>5, <2>1, RetryStep DEF Posts
  <2>2. CASE ~req.gone
    <3> DEFINE x == [req EXCEPT !.pc = "wait",
                       !.posted = @ \cup {NewFindingPacket(req.rec)}]
    <3>1. req' = x /\ answer' = answer /\ req.pc = "post"
      BY <1>5, <2>2 DEF Posts
    <3>2. /\ "wait" \in PCs /\ req.attempt \in 0 .. ai.retries
          /\ req.rec \in Findings \cup {NoFinding}
          /\ answer.status \in {0, 200, 400, 404, 500}
          /\ answer.available \in BOOLEAN
      BY DEF IInv, TypeOK, PCs
    <3>3. /\ x \in Request /\ x.pc = "wait" /\ x.attempt = req.attempt
          /\ x.tiers = req.tiers
      <4> DEFINE Packets == {NewFindingPacket(f) : f \in Findings \cup {NoFinding}}
      <4>1. req \in Request /\ NewFindingPacket(req.rec) \in Packets
        BY <3>2 DEF IInv
      <4>2. req.posted \subseteq Packets
        BY DEF IInv, Request
      <4>3. req.posted \cup {NewFindingPacket(req.rec)} \in SUBSET Packets
        BY <4>1, <4>2
      <4> QED BY <3>2, <4>1, <4>3 DEF Request
    <3>4. Licensed
      BY <3>1 DEF IInv, TierInv
    <3> HIDE DEF x
    <3> QED BY <1>1, <3>1, <3>2, <3>3, <3>4, RequestGoesOn
  <2> QED BY <2>1, <2>2
<1>6. CASE BacksOff
  <2>1. CASE GivesUp
    BY <1>1, <2>1, GivesUpStep
  <2>2. CASE req' = [req EXCEPT !.pc = "post"] /\ answer' = answer
    <3> DEFINE x == [req EXCEPT !.pc = "post"]
    <3>1. req.pc = "backoff" /\ req' = x
      BY <1>6, <2>2 DEF BacksOff
    <3>2. "post" \in PCs /\ req.attempt \in 0 .. ai.retries
      BY DEF IInv, TypeOK, PCs
    <3>3. /\ x \in Request /\ x.pc = "post" /\ x.attempt = req.attempt
          /\ x.tiers = req.tiers /\ x.posted = req.posted
      BY <3>2 DEF IInv, Request
    <3>4. Licensed
      BY <3>1 DEF IInv, TierInv
    <3> HIDE DEF x
    <3> QED BY <1>1, <2>2, <3>1, <3>2, <3>3, <3>4, Moves
  <2> QED BY <1>6, <2>1, <2>2 DEF BacksOff
<1> QED BY <1>3, <1>4, <1>5, <1>6 DEF Handles

LEMMA SidecarStep ==
  ASSUME IInv, SidecarReturns
  PROVE  IInv'
<1>1. CASE Fails
  BY <1>1, RetryStep DEF Fails
<1>2. CASE Refuses
  BY <1>2, GivesUpStep DEF Refuses
<1>3. ASSUME NEW text \in Texts, Narrates(text) PROVE IInv'
  <2>1. /\ UNCHANGED <<ai, record, tier, changes>>
        /\ req' = [req EXCEPT !.pc = "done", !.told = text]
        /\ answer'.status = 200 /\ answer'.available = TRUE
        /\ answer'.reason = ""
    BY <1>3 DEF Narrates, Explained
  <2>2. /\ answer'.status \in {0, 200, 400, 404, 500}
        /\ answer'.available \in BOOLEAN
        /\ answer'.reason # "tier"
    BY <2>1
  <2> QED BY <2>1, <2>2, Ends
<1> QED BY <1>1, <1>2, <1>3 DEF SidecarReturns

-----------------------------------------------------------------------------

LEMMA Inductive == Spec => []IInv
<1>1. IInv /\ [Next]_vars => IInv'
  <2> SUFFICES ASSUME IInv, [Next]_vars PROVE IInv'
    OBVIOUS
  <2>1. CASE UNCHANGED vars
    BY <2>1 DEF vars, IInv, TypeOK, TierInv, TierDecidesNow, Licensed, Unasked
  <2> QED
    BY <2>1, OthersStep, BeginsStep, HandlesStep, SidecarStep DEF Next
<1> QED BY <1>1, Initially, PTL DEF Spec

\* The types; and a client never makes more attempts than WithMaxRetries
\* allows it, whatever fails and whoever leaves.
THEOREM TypeCorrect == Spec => []TypeOK
<1>1. IInv => TypeOK
  BY DEF IInv
<1> QED BY <1>1, Inductive, PTL

\* aiAllowed: a sidecar with a key is asked only if a paid tier was in force
\* at some moment of the request, and a request is turned away for the tier
\* only if the free one was, however often keys change meanwhile.
THEOREM TierObeyed == Spec => []TierDecidesNow
<1>1. IInv => TierDecidesNow
  BY DEF IInv
<1> QED BY <1>1, Inductive, PTL

-----------------------------------------------------------------------------
(* Recursion.  The functions of Packet run over depths, levels or sentences. *)

LEMMA Least ==
  ASSUME NEW T \in SUBSET Nat, T # {}
  PROVE  \E m \in T : \A n \in T : m <= n
<1>1. PICK m \in T : \A y \in T : ~ (<<y, m>> \in OpToRel(<, Nat))
  BY NatLessThanWellFounded, WFMin
<1>2. \A y \in T : ~ (y < m)
  BY <1>1 DEF OpToRel
<1> QED
  BY <1>2

LEMMA Induction ==
  ASSUME NEW T \in SUBSET Nat, 0 \in T, \A n \in T : n + 1 \in T
  PROVE  T = Nat
<1> SUFFICES ASSUME Nat \ T # {} PROVE FALSE
  OBVIOUS
<1>1. PICK m \in Nat \ T : \A n \in Nat \ T : m <= n
  BY Least
<1>2. m - 1 \in Nat /\ (m - 1) + 1 = m
  BY <1>1
<1>3. m - 1 \in T
  BY <1>1, <1>2
<1> QED
  BY <1>1, <1>2, <1>3

\* What a loop of N turns over V holds after each of them, from a on.
Turns(N, V) == [1 .. N -> [V -> V]]
Loops(f, N, V, a, turn) ==
  /\ f \in [0 .. N -> V]
  /\ f[0] = a
  /\ \A n \in 1 .. N : f[n] = turn[n][f[n - 1]]

LEMMA LoopRuns ==
  ASSUME NEW N \in Nat, NEW V, NEW a \in V, NEW turn \in Turns(N, V)
  PROVE  \E f : Loops(f, N, V, a, turn)
<1>0. turn \in [1 .. N -> [V -> V]]
  BY DEF Turns
<1> DEFINE Runs(f, n) ==
             \A i \in 0 .. n : f[i] = IF i = 0 THEN a ELSE turn[i][f[i - 1]]
           T == {n \in Nat : n <= N => \E f \in [0 .. n -> V] : Runs(f, n)}
<1>1. 0 \in T
  <2> DEFINE f == [i \in 0 .. 0 |-> a]
  <2>1. f \in [0 .. 0 -> V] /\ Runs(f, 0)
    OBVIOUS
  <2> QED BY <2>1
<1>2. ASSUME NEW n \in T PROVE n + 1 \in T
  <2> SUFFICES ASSUME n + 1 <= N
               PROVE  \E g \in [0 .. n + 1 -> V] : Runs(g, n + 1)
    OBVIOUS
  <2>1. PICK f \in [0 .. n -> V] : Runs(f, n)
    BY <1>2
  <2> DEFINE g == [i \in 0 .. n + 1 |-> IF i <= n THEN f[i] ELSE turn[i][f[n]]]
  <2>2. f[n] \in V /\ n + 1 \in 1 .. N /\ turn[n + 1][f[n]] \in V
    BY <1>0
  <2>3. g \in [0 .. n + 1 -> V]
    BY <2>2
  <2>4. Runs(g, n + 1)
    BY <2>1, <2>2
  <2> QED BY <2>3, <2>4
<1> HIDE DEF T
<1>3. N \in T
  <2>1. T \in SUBSET Nat
    BY DEF T
  <2> QED BY <1>1, <1>2, <2>1, Induction
<1>4. PICK f \in [0 .. N -> V] : Runs(f, N)
  BY <1>3 DEF T
<1>5. f[0] = a /\ \A n \in 1 .. N : f[n] = turn[n][f[n - 1]]
  BY <1>4
<1> QED BY <1>5 DEF Loops

-----------------------------------------------------------------------------
(* evidence.go: what is kept of a map, a list or a text *)

Limits == {maxEvidenceKeys, maxEvidenceString, maxEvidenceList, maxEvidenceDepth}

LEMMA LimitsType == Limits \subseteq Nat /\ 0 \notin Limits
BY PacketAssumption DEF Limits

\* The keys of P before k.
Before(P, k) == {j \in P : j < k}

LEMMA BeforeGrows ==
  ASSUME NEW P, IsFiniteSet(P), P \subseteq Nat, NEW k \in P
  PROVE  /\ Cardinality(Before(P, k)) \in Nat
         /\ Cardinality(Before(P, k)) < Cardinality(P)
         /\ \A j \in P : k < j =>
              Cardinality(Before(P, k)) < Cardinality(Before(P, j))
<1>1. \A j \in P : /\ IsFiniteSet(Before(P, j))
                   /\ Cardinality(Before(P, j)) \in Nat
  BY FS_Subset, FS_CardinalityType DEF Before
<1>2. /\ IsFiniteSet(Before(P, k) \cup {k})
      /\ Cardinality(Before(P, k) \cup {k}) = Cardinality(Before(P, k)) + 1
  <2>1. k \notin Before(P, k)
    BY DEF Before
  <2> QED BY <1>1, <2>1, FS_AddElement
<1>3. Cardinality(P) \in Nat /\ Before(P, k) \cup {k} \subseteq P
  BY FS_CardinalityType DEF Before
<1>4. Cardinality(Before(P, k)) + 1 <= Cardinality(P)
  BY <1>2, <1>3, FS_Subset
<1>5. ASSUME NEW j \in P, k < j
      PROVE  Cardinality(Before(P, k)) + 1 <= Cardinality(Before(P, j))
  <2>1. Before(P, k) \cup {k} \subseteq Before(P, j)
    <3>1. \A x \in P : x \in Nat
      OBVIOUS
    <3>2. \A x \in P : x < k => x < j
      BY <1>5, <3>1
    <3> QED BY <1>5, <3>2 DEF Before
  <2> QED BY <1>1, <1>2, <2>1, FS_Subset
<1> QED BY <1>1, <1>3, <1>4, <1>5

\* sanitizeMap keeps at most maxEvidenceKeys keys and none that is secret; and
\* it keeps all of a map that has neither.
LEMMA KeptBounded ==
  ASSUME NEW of, Evidence(of)
  PROVE  /\ Kept(of) \subseteq DOMAIN of
         /\ Kept(of) \cap SecretKeys = {}
         /\ IsFiniteSet(Kept(of))
         /\ Cardinality(Kept(of)) <= maxEvidenceKeys
<1> DEFINE P == DOMAIN of \ SecretKeys
           c(k) == Cardinality(Before(P, k))
<1>1. IsFiniteSet(P) /\ P \subseteq Nat
  BY FS_Subset DEF Evidence
<1>2. Kept(of) = {k \in P : c(k) < maxEvidenceKeys}
  BY DEF Kept, Before
<1>3. /\ IsFiniteSet(Kept(of)) /\ Kept(of) \subseteq P
      /\ Cardinality(Kept(of)) \in Nat
  BY <1>1, <1>2, FS_Subset, FS_CardinalityType
<1>4. maxEvidenceKeys \in Nat
  BY LimitsType DEF Limits
<1>5. CASE Kept(of) = {}
  BY <1>3, <1>4, <1>5, FS_EmptySet
<1>6. CASE Kept(of) # {}
  <2> DEFINE T == {n \in Nat : \E k \in Kept(of) : n = maxEvidenceKeys - c(k)}
  <2>1. \A k \in Kept(of) : /\ k \in P /\ k \in Nat /\ c(k) \in Nat
                            /\ c(k) < maxEvidenceKeys
    BY <1>1, <1>2, BeforeGrows
  <2>2. \A k \in Kept(of) : maxEvidenceKeys - c(k) \in T
    <3> HIDE DEF c
    <3> QED BY <1>4, <2>1
  <2>3. T # {} /\ T \in SUBSET Nat
    BY <1>6, <2>2
  <2>4. PICK m \in T : \A n \in T : m <= n
    BY <2>3, Least
  <2>5. PICK k \in Kept(of) : m = maxEvidenceKeys - c(k)
    BY <2>4
  <2>6. \A j \in Kept(of) : c(j) <= c(k)
    <3> HIDE DEF c, T
    <3> QED BY <1>4, <2>1, <2>2, <2>4, <2>5
  <2>7. \A j \in Kept(of) : ~ (k < j)
    <3> SUFFICES ASSUME NEW j \in Kept(of), k < j PROVE FALSE
      OBVIOUS
    <3>1. c(k) < c(j)
      BY <1>1, <2>1, BeforeGrows
    <3> HIDE DEF c
    <3> QED BY <2>1, <2>6, <3>1
  <2>8. Kept(of) \subseteq Before(P, k) \cup {k}
    <3> SUFFICES ASSUME NEW j \in Kept(of), j # k PROVE j \in Before(P, k)
      OBVIOUS
    <3>1. j \in P /\ j \in Nat /\ k \in Nat /\ ~ (k < j)
      BY <2>1, <2>7
    <3> QED BY <3>1 DEF Before
  <2>9. /\ IsFiniteSet(Before(P, k)) /\ k \notin Before(P, k)
        /\ c(k) \in Nat
    BY <1>1, <2>1, FS_Subset DEF Before
  <2>10. /\ IsFiniteSet(Before(P, k) \cup {k})
         /\ Cardinality(Before(P, k) \cup {k}) = c(k) + 1
    BY <2>9, FS_AddElement
  <2>11. Cardinality(Kept(of)) <= c(k) + 1
    BY <2>8, <2>10, FS_Subset
  <2> HIDE DEF c
  <2> QED BY <1>2, <1>3, <1>4, <2>1, <2>11
<1> QED BY <1>2, <1>3, <1>5, <1>6

LEMMA AllKept ==
  ASSUME NEW of, Evidence(of), DOMAIN of \cap SecretKeys = {},
         Cardinality(DOMAIN of) <= maxEvidenceKeys
  PROVE  Kept(of) = DOMAIN of
<1> DEFINE P == DOMAIN of \ SecretKeys
<1>1. P = DOMAIN of /\ IsFiniteSet(P) /\ P \subseteq Nat
  BY DEF Evidence
<1>2. Cardinality(P) \in Nat /\ maxEvidenceKeys \in Nat
  BY <1>1, FS_CardinalityType, LimitsType DEF Limits
<1>3. ASSUME NEW k \in P PROVE Cardinality(Before(P, k)) < maxEvidenceKeys
  <2>1. /\ Cardinality(Before(P, k)) \in Nat
        /\ Cardinality(Before(P, k)) < Cardinality(P)
    BY <1>1, BeforeGrows
  <2> QED BY <1>1, <1>2, <2>1
<1> QED BY <1>1, <1>3 DEF Kept, Before

\* The levels of a value are what the definition says.
LEMMA LevelComputed ==
  ASSUME NEW v
  PROVE  /\ Level(v)[0] = {v}
         /\ \A n \in 1 .. maxEvidenceDepth + 1 :
              Level(v)[n] = Parts(Level(v)[n - 1])
<1> DEFINE N == maxEvidenceDepth + 1
           Step(f, n) == IF n = 0 THEN {v} ELSE Parts(f[n - 1])
           Loop(f) == [n \in 0 .. maxEvidenceDepth + 1 |->
                         IF n = 0 THEN {v} ELSE Parts(f[n - 1])]
           level == CHOOSE f : f = Loop(f)
           T == {n \in Nat : \E f : \A i \in 0 .. n : f[i] = Step(f, i)}
<1>1. N \in Nat
  BY LimitsType DEF Limits
<1>2. 0 \in T
  <2> DEFINE f == [i \in 0 .. 0 |-> {v}]
  <2>1. \A i \in 0 .. 0 : f[i] = Step(f, i)
    OBVIOUS
  <2> QED BY <2>1
<1>3. ASSUME NEW n \in T PROVE n + 1 \in T
  <2>1. PICK f : \A i \in 0 .. n : f[i] = Step(f, i)
    OBVIOUS
  <2> DEFINE g == [i \in 0 .. n + 1 |-> IF i <= n THEN f[i] ELSE Parts(f[n])]
  <2>2. n \in Nat /\ \A i \in 0 .. n : g[i] = f[i]
    OBVIOUS
  <2>3. ASSUME NEW i \in 0 .. n + 1 PROVE g[i] = Step(g, i)
    <3>1. CASE i = 0
      <4>1. i \in 0 .. n
        BY <2>2, <3>1
      <4>2. g[i] = f[i] /\ f[i] = Step(f, i)
        BY <2>1, <2>2, <4>1
      <4> HIDE DEF g
      <4> QED BY <3>1, <4>2
    <3>2. CASE i # 0 /\ i <= n
      <4>1. i \in 0 .. n /\ i - 1 \in 0 .. n
        BY <2>2, <3>2
      <4>2. g[i] = f[i] /\ g[i - 1] = f[i - 1] /\ f[i] = Step(f, i)
        BY <2>1, <2>2, <4>1
      <4> HIDE DEF g
      <4> QED BY <3>2, <4>2
    <3>3. CASE i = n + 1
      <4>1. n \in 0 .. n /\ n + 1 \in 0 .. n + 1 /\ ~(n + 1 <= n) /\ n + 1 # 0
            /\ (n + 1) - 1 = n
        BY <2>2
      <4>2. g[n + 1] = Parts(f[n]) /\ g[n] = f[n]
        BY <2>2, <4>1
      <4> HIDE DEF g
      <4> QED BY <3>3, <4>1, <4>2
    <3> QED BY <2>2, <3>1, <3>2, <3>3
  <2> HIDE DEF g
  <2>4. \E e : \A i \in 0 .. n + 1 : e[i] = Step(e, i)
    <3> HIDE DEF Step
    <3> QED BY <2>3
  <2> HIDE DEF Step
  <2> QED BY <2>2, <2>4
<1>4. N \in T
  <2> HIDE DEF T
  <2>1. T \in SUBSET Nat
    BY DEF T
  <2> QED BY <1>1, <1>2, <1>3, <2>1, Induction
<1>5. \E f : f = Loop(f)
  <2>1. PICK f : \A i \in 0 .. N : f[i] = Step(f, i)
    BY <1>4
  <2> DEFINE g == [i \in 0 .. N |-> f[i]]
  <2>2. ASSUME NEW i \in 0 .. N PROVE g[i] = Step(g, i)
    <3>1. g[i] = f[i] /\ f[i] = Step(f, i)
      BY <2>1
    <3>2. i = 0 \/ g[i - 1] = f[i - 1]
      BY <1>1
    <3> HIDE DEF g
    <3> QED BY <3>1, <3>2
  <2>3. g = Loop(g)
    BY <2>2
  <2> QED BY <2>3
<1>6. level = Loop(level)
  BY <1>5
<1>7. Level(v) = level
  BY DEF Level
<1> HIDE DEF level
<1>8. \A n \in 0 .. N : level[n] = IF n = 0 THEN {v} ELSE Parts(level[n - 1])
  BY <1>6
<1> QED BY <1>1, <1>7, <1>8

\* And so is the sanitised form of a value.
LEMMA SanitizeComputed ==
  \A left \in 0 .. maxEvidenceDepth - 1 : \A v \in Values :
    sanitizeValue[left][v] =
      sanitized(generic(v), left,
                IF left = 0 THEN <<>> ELSE sanitizeValue[left - 1])
<1> DEFINE N == maxEvidenceDepth - 1
           Step(f, n) == [v \in Values |->
              sanitized(generic(v), n, IF n = 0 THEN <<>> ELSE f[n - 1])]
           Loop(f) == [left \in 0 .. maxEvidenceDepth - 1 |->
              [v \in Values |->
                 sanitized(generic(v), left,
                           IF left = 0 THEN <<>> ELSE f[left - 1])]]
           all == CHOOSE f : f = Loop(f)
           T == {n \in Nat : \E f : \A i \in 0 .. n : f[i] = Step(f, i)}
<1>1. N \in Nat
  BY LimitsType DEF Limits
<1>2. 0 \in T
  <2> DEFINE f == [i \in 0 .. 0 |->
                     [v \in Values |-> sanitized(generic(v), 0, <<>>)]]
  <2>1. \A i \in 0 .. 0 : f[i] = Step(f, i)
    OBVIOUS
  <2> QED BY <2>1
<1>3. ASSUME NEW n \in T PROVE n + 1 \in T
  <2>1. PICK f : \A i \in 0 .. n : f[i] = Step(f, i)
    OBVIOUS
  <2> DEFINE h == [v \in Values |-> sanitized(generic(v), n + 1, f[n])]
             g == [i \in 0 .. n + 1 |-> IF i <= n THEN f[i] ELSE h]
  <2>2. n \in Nat /\ \A i \in 0 .. n : g[i] = f[i]
    OBVIOUS
  <2>3. ASSUME NEW i \in 0 .. n + 1 PROVE g[i] = Step(g, i)
    <3>1. CASE i = 0
      <4>1. i \in 0 .. n
        BY <2>2, <3>1
      <4>2. g[i] = f[i] /\ f[i] = Step(f, i)
        BY <2>1, <2>2, <4>1
      <4> HIDE DEF g
      <4> QED BY <3>1, <4>2
    <3>2. CASE i # 0 /\ i <= n
      <4>1. i \in 0 .. n /\ i - 1 \in 0 .. n
        BY <2>2, <3>2
      <4>2. g[i] = f[i] /\ g[i - 1] = f[i - 1] /\ f[i] = Step(f, i)
        BY <2>1, <2>2, <4>1
      <4> HIDE DEF g
      <4> QED BY <3>2, <4>2
    <3>3. CASE i = n + 1
      <4>1. n \in 0 .. n /\ n + 1 \in 0 .. n + 1 /\ ~(n + 1 <= n) /\ n + 1 # 0
            /\ (n + 1) - 1 = n
        BY <2>2
      <4>2. g[n + 1] = h /\ g[n] = f[n]
        BY <2>2, <4>1
      <4> HIDE DEF g
      <4> QED BY <3>3, <4>1, <4>2
    <3> QED BY <2>2, <3>1, <3>2, <3>3
  <2> HIDE DEF g
  <2>4. \E e : \A i \in 0 .. n + 1 : e[i] = Step(e, i)
    <3> HIDE DEF Step
    <3> QED BY <2>3
  <2> HIDE DEF Step
  <2> QED BY <2>2, <2>4
<1>4. N \in T
  <2> HIDE DEF T
  <2>1. T \in SUBSET Nat
    BY DEF T
  <2> QED BY <1>1, <1>2, <1>3, <2>1, Induction
<1>5. \E f : f = Loop(f)
  <2>1. PICK f : \A i \in 0 .. N : f[i] = Step(f, i)
    BY <1>4
  <2> DEFINE g == [i \in 0 .. N |-> f[i]]
  <2>2. ASSUME NEW i \in 0 .. N PROVE g[i] = Step(g, i)
    <3>1. g[i] = f[i] /\ f[i] = Step(f, i)
      BY <2>1
    <3>2. i = 0 \/ g[i - 1] = f[i - 1]
      BY <1>1
    <3> HIDE DEF g
    <3> QED BY <3>1, <3>2
  <2>3. g = Loop(g)
    BY <2>2
  <2> QED BY <2>3
<1>6. all = Loop(all)
  BY <1>5
<1>7. sanitizeValue = all
  BY DEF sanitizeValue
<1> HIDE DEF all
<1>8. \A left \in 0 .. N : all[left] =
        [v \in Values |-> sanitized(generic(v), left,
                            IF left = 0 THEN <<>> ELSE all[left - 1])]
  BY <1>6
<1> QED BY <1>7, <1>8

ShortTexts == {Text(n) : n \in 0 .. maxEvidenceString + 1}
Results(left) == {sanitizeValue[left][v] : v \in Values}

LEMMA Truncated ==
  ASSUME NEW n \in Nat
  PROVE  Text(truncateRunes(n, maxEvidenceString)) \in ShortTexts
<1>1. maxEvidenceString \in Nat
  BY LimitsType DEF Limits
<1>2. truncateRunes(n, maxEvidenceString) \in 0 .. maxEvidenceString + 1
  BY <1>1 DEF truncateRunes
<1> QED BY <1>2 DEF ShortTexts

\* A list is cut to its first maxEvidenceList items.
LEMMA FirstItemsType ==
  ASSUME NEW S, NEW s \in Seq(S)
  PROVE  /\ FirstItems(s) \subseteq DOMAIN s
         /\ \E n \in Nat : FirstItems(s) = 1 .. n /\ n <= maxEvidenceList
<1>1. maxEvidenceList \in Nat /\ Len(s) \in Nat /\ DOMAIN s = 1 .. Len(s)
  BY LimitsType DEF Limits
<1>2. CASE Len(s) > maxEvidenceList
  <2>1. FirstItems(s) = 1 .. maxEvidenceList
    BY <1>2 DEF FirstItems
  <2>2. 1 .. maxEvidenceList \subseteq 1 .. Len(s)
    BY <1>1, <1>2
  <2> QED BY <1>1, <2>1, <2>2
<1>3. CASE ~(Len(s) > maxEvidenceList)
  <2>1. FirstItems(s) = 1 .. Len(s) /\ Len(s) <= maxEvidenceList
    BY <1>1, <1>3 DEF FirstItems
  <2> QED BY <1>1, <2>1
<1> QED BY <1>2, <1>3

\* What a value may become with so much depth left.
Becomes(w, left, Inner) ==
  \/ w \in {Scalar, Omitted, Nil} \cup ShortTexts
  \/ /\ w.kind = "list"
     /\ \E n \in Nat : n <= maxEvidenceList /\ DOMAIN w.of = 1 .. n
     /\ w.of = [i \in DOMAIN w.of |-> w.of[i]]
     /\ \/ \A i \in DOMAIN w.of : w.of[i] \in ShortTexts
        \/ left > 0 /\ \A i \in DOMAIN w.of : w.of[i] \in Inner
  \/ /\ w.kind = "map" /\ left > 0
     /\ DOMAIN w.of \cap SecretKeys = {}
     /\ Cardinality(DOMAIN w.of) <= maxEvidenceKeys
     /\ \A k \in DOMAIN w.of : w.of[k] \in Inner

\* The value of any other type is one of JSON.
LEMMA GenericIsValue ==
  ASSUME NEW v \in Values
  PROVE  generic(v) = NotJSON
         \/ (generic(v) \in Values /\ generic(v).kind # "other")
<1>1. IsValue(v)
  BY PacketAssumption
<1> QED BY <1>1 DEF IsValue, generic

LEMMA SanitizedBecomes ==
  ASSUME NEW t \in Values, t.kind # "other", NEW left \in Nat, NEW deeper,
         NEW Inner, left > 0 => \A u \in Values : deeper[u] \in Inner
  PROVE  Becomes(sanitized(t, left, deeper), left, Inner)
<1> DEFINE w == sanitized(t, left, deeper)
<1> SUFFICES Becomes(w, left, Inner)
  OBVIOUS
<1>0. IsValue(t)
  BY PacketAssumption
<1>1. CASE t.kind = "string"
  <2>1. w = Text(truncateRunes(t.runes, maxEvidenceString)) /\ t.runes \in Nat
    BY <1>0, <1>1 DEF sanitized, IsValue
  <2>2. w \in ShortTexts
    BY <2>1, Truncated
  <2> QED BY <2>2 DEF Becomes
<1>2. CASE t.kind = "strings"
  <2> DEFINE s == [i \in FirstItems(t.of) |->
                     Text(truncateRunes(t.of[i], maxEvidenceString))]
  <2>1. w = List(s) /\ t.of \in Seq(Nat)
    BY <1>0, <1>2 DEF sanitized, IsValue
  <2>2. PICK n \in Nat : n <= maxEvidenceList /\ FirstItems(t.of) = 1 .. n
    BY <2>1, FirstItemsType
  <2>3. \A i \in FirstItems(t.of) : s[i] \in ShortTexts
    <3>1. \A i \in FirstItems(t.of) : t.of[i] \in Nat
      BY <2>1, FirstItemsType
    <3> QED BY <3>1, Truncated
  <2>4. DOMAIN s = 1 .. n /\ s = [i \in DOMAIN s |-> s[i]]
    BY <2>2
  <2> HIDE DEF s
  <2>5. w.kind = "list" /\ w.of = s
    BY <2>1 DEF List
  <2> HIDE DEF w
  <2>6. \A i \in DOMAIN w.of : w.of[i] \in ShortTexts
    BY <2>2, <2>3, <2>4, <2>5
  <2>7. \E m \in Nat : m <= maxEvidenceList /\ DOMAIN w.of = 1 .. m
    BY <2>2, <2>4, <2>5
  <2>8. w.of = [i \in DOMAIN w.of |-> w.of[i]]
    BY <2>4, <2>5
  <2> QED BY <2>5, <2>6, <2>7, <2>8, Zenon DEF Becomes
<1>3. CASE t.kind \in {"map", "list"} /\ left = 0
  <2>1. w = Omitted
    BY <1>3 DEF sanitized
  <2> QED BY <2>1 DEF Becomes
<1>4. CASE t.kind = "map" /\ left > 0
  <2>1. w = sanitizeMap(t.of, [k \in DOMAIN t.of |-> deeper[t.of[k]]])
        /\ Evidence(t.of)
    BY <1>0, <1>4 DEF sanitized, IsValue
  <2>2. CASE Kept(t.of) = {}
    BY <2>1, <2>2 DEF sanitizeMap, Becomes
  <2>3. CASE Kept(t.of) # {}
    <3> DEFINE m == [k \in Kept(t.of) |->
                       [j \in DOMAIN t.of |-> deeper[t.of[j]]][k]]
    <3>1. w = Map(m)
      BY <2>1, <2>3 DEF sanitizeMap
    <3>2. DOMAIN m = Kept(t.of) /\ Kept(t.of) \subseteq DOMAIN t.of
      BY <2>1, KeptBounded
    <3>3. \A k \in DOMAIN m : m[k] = deeper[t.of[k]]
      BY <3>2
    <3>4. \A k \in DOMAIN t.of : t.of[k] \in Values
      BY <2>1 DEF Evidence
    <3>5. \A k \in DOMAIN m : m[k] \in Inner
      BY <1>4, <3>2, <3>3, <3>4
    <3> HIDE DEF m
    <3>6. w.kind = "map" /\ w.of = m
      BY <3>1 DEF Map
    <3>7. /\ DOMAIN m \cap SecretKeys = {}
          /\ Cardinality(DOMAIN m) <= maxEvidenceKeys
      BY <2>1, <3>2, KeptBounded
    <3> HIDE DEF w
    <3>8. /\ DOMAIN w.of \cap SecretKeys = {}
          /\ Cardinality(DOMAIN w.of) <= maxEvidenceKeys
          /\ \A k \in DOMAIN w.of : w.of[k] \in Inner
      BY <3>5, <3>6, <3>7
    <3> QED BY <1>4, <3>6, <3>8, Zenon DEF Becomes
  <2> QED BY <2>2, <2>3
<1>5. CASE t.kind = "list" /\ left > 0
  <2> DEFINE s == [i \in FirstItems(t.of) |-> deeper[t.of[i]]]
  <2>1. w = List(s) /\ t.of \in Seq(Values)
    BY <1>0, <1>5 DEF sanitized, IsValue
  <2>2. PICK n \in Nat : n <= maxEvidenceList /\ FirstItems(t.of) = 1 .. n
    BY <2>1, FirstItemsType
  <2>3. \A i \in FirstItems(t.of) : s[i] \in Inner
    <3>1. \A i \in FirstItems(t.of) : t.of[i] \in Values
      BY <2>1, FirstItemsType
    <3> QED BY <1>5, <3>1
  <2>4. DOMAIN s = 1 .. n /\ s = [i \in DOMAIN s |-> s[i]]
    BY <2>2
  <2> HIDE DEF s
  <2>5. w.kind = "list" /\ w.of = s
    BY <2>1 DEF List
  <2> HIDE DEF w
  <2>6. \A i \in DOMAIN w.of : w.of[i] \in Inner
    BY <2>2, <2>3, <2>4, <2>5
  <2>7. \E m \in Nat : m <= maxEvidenceList /\ DOMAIN w.of = 1 .. m
    BY <2>2, <2>4, <2>5
  <2>8. w.of = [i \in DOMAIN w.of |-> w.of[i]]
    BY <2>4, <2>5
  <2> QED BY <1>5, <2>5, <2>6, <2>7, <2>8, Zenon DEF Becomes
<1>6. CASE t.kind \notin {"string", "strings", "map", "list"}
  <2>1. t = Scalar
    BY <1>0, <1>6 DEF IsValue
  <2>2. w = Scalar
    BY <2>1 DEF sanitized, Scalar
  <2> QED BY <2>2 DEF Becomes
<1> QED BY <1>1, <1>2, <1>3, <1>4, <1>5, <1>6
LEMMA ResultBecomes ==
  ASSUME NEW left \in 0 .. maxEvidenceDepth - 1, NEW w \in Results(left)
  PROVE  Becomes(w, left, Results(left - 1))
<1>1. PICK v \in Values : w = sanitizeValue[left][v]
  BY DEF Results
<1> DEFINE deeper == IF left = 0 THEN <<>> ELSE sanitizeValue[left - 1]
<1>2. w = sanitized(generic(v), left, deeper)
  BY <1>1, SanitizeComputed
<1>3. left \in Nat /\ (left > 0 => \A u \in Values : deeper[u] \in Results(left - 1))
  BY DEF Results
<1> HIDE DEF deeper
<1>4. CASE generic(v) = NotJSON
  <2>1. w = Omitted
    BY <1>2, <1>4 DEF sanitized, NotJSON
  <2> QED BY <2>1 DEF Becomes
<1>5. CASE generic(v) \in Values /\ generic(v).kind # "other"
  BY <1>2, <1>3, <1>5, SanitizedBecomes
<1> QED BY <1>4, <1>5, GenericIsValue

\* What may be found n levels below sanitised evidence.
Below(n) ==
  ShortTexts \cup (IF n <= maxEvidenceDepth THEN Results(maxEvidenceDepth - n)
               ELSE {})

LEMMA PartsBelow ==
  ASSUME NEW n \in 1 .. maxEvidenceDepth
  PROVE  Parts(Below(n)) \subseteq Below(n + 1)
<1> DEFINE left == maxEvidenceDepth - n
<1>1. maxEvidenceDepth \in Nat
  BY LimitsType DEF Limits
<1>2. /\ left \in 0 .. maxEvidenceDepth - 1
      /\ Below(n) = ShortTexts \cup Results(left)
      /\ left > 0 => Below(n + 1) = ShortTexts \cup Results(left - 1)
      /\ ShortTexts \subseteq Below(n + 1)
  <2>1. n <= maxEvidenceDepth /\ (left > 0 => n + 1 <= maxEvidenceDepth)
        /\ maxEvidenceDepth - (n + 1) = left - 1
        /\ left \in 0 .. maxEvidenceDepth - 1
    BY <1>1
  <2> HIDE DEF left
  <2>2. Below(n) = ShortTexts \cup Results(maxEvidenceDepth - n)
    BY <2>1 DEF Below
  <2>3. left > 0 => Below(n + 1) = ShortTexts \cup Results(maxEvidenceDepth - (n + 1))
    BY <2>1 DEF Below
  <2> QED BY <2>1, <2>2, <2>3 DEF Below, left
<1> HIDE DEF left
<1>3. ASSUME NEW w \in Below(n), Nested(w), NEW k \in DOMAIN w.of
      PROVE  w.of[k] \in Below(n + 1)
  <2>1. w \notin ShortTexts \cup {Scalar, Omitted, Nil}
    BY <1>3 DEF Nested, ShortTexts, Text, Scalar, Omitted, Nil
  <2>2. w \in Results(left)
    BY <1>2, <2>1
  <2>3. Becomes(w, left, Results(left - 1))
    BY <1>2, <2>2, ResultBecomes
  <2>4. w.of[k] \in ShortTexts \/ (left > 0 /\ w.of[k] \in Results(left - 1))
    BY <2>1, <2>3 DEF Becomes
  <2> QED BY <1>2, <2>4
<1> QED BY <1>3 DEF Parts

LEMMA LevelsBelow ==
  ASSUME NEW of, Evidence(of), SanitizeEvidence(of) # Nil,
         NEW n \in 1 .. maxEvidenceDepth + 1
  PROVE  Level(SanitizeEvidence(of))[n] \subseteq Below(n)
<1> DEFINE out == SanitizeEvidence(of)
           T == {i \in Nat : i <= maxEvidenceDepth =>
                               Level(out)[i + 1] \subseteq Below(i + 1)}
<1>1. maxEvidenceDepth \in Nat /\ maxEvidenceDepth > 0
  BY LimitsType DEF Limits
<1>2. 0 \in T
  <2> DEFINE clean == [k \in DOMAIN of |->
                         sanitizeValue[maxEvidenceDepth - 1][of[k]]]
  <2>1. out = Map([k \in Kept(of) |-> clean[k]])
    BY DEF SanitizeEvidence, sanitizeMap
  <2>2. \A k \in Kept(of) : clean[k] \in Results(maxEvidenceDepth - 1)
    <3>1. \A k \in Kept(of) : k \in DOMAIN of /\ of[k] \in Values
      BY KeptBounded DEF Evidence
    <3> QED BY <3>1 DEF Results
  <2> HIDE DEF clean
  <2>3. out.kind = "map" /\ out.of = [k \in Kept(of) |-> clean[k]]
    BY <2>1 DEF Map
  <2> HIDE DEF out
  <2>4. Parts({out}) \subseteq Results(maxEvidenceDepth - 1)
    BY <2>2, <2>3 DEF Parts
  <2>5. Level(out)[1] = Parts({out})
    <3>1. 1 \in 1 .. maxEvidenceDepth + 1 /\ 1 - 1 = 0
      BY <1>1
    <3> QED BY <3>1, LevelComputed
  <2>6. Results(maxEvidenceDepth - 1) \subseteq Below(1)
    BY <1>1 DEF Below
  <2> QED BY <2>4, <2>5, <2>6
<1> HIDE DEF out
<1>3. ASSUME NEW i \in T PROVE i + 1 \in T
  <2> SUFFICES ASSUME i + 1 <= maxEvidenceDepth
               PROVE  Level(out)[i + 2] \subseteq Below(i + 2)
    BY DEF T
  <2>1. /\ i \in Nat /\ i <= maxEvidenceDepth
        /\ i + 1 \in 1 .. maxEvidenceDepth
        /\ i + 2 \in 1 .. maxEvidenceDepth + 1 /\ (i + 2) - 1 = i + 1
        /\ (i + 1) + 1 = i + 2
    BY <1>1
  <2>2. Level(out)[i + 2] = Parts(Level(out)[i + 1])
    BY <2>1, LevelComputed
  <2>3. Level(out)[i + 1] \subseteq Below(i + 1)
    BY <2>1
  <2>4. Parts(Level(out)[i + 1]) \subseteq Parts(Below(i + 1))
    BY <2>3 DEF Parts
  <2>5. Parts(Below(i + 1)) \subseteq Below(i + 2)
    BY <2>1, PartsBelow
  <2> QED BY <2>2, <2>4, <2>5
<1>4. T = Nat
  <2> HIDE DEF T
  <2>1. T \in SUBSET Nat
    BY DEF T
  <2> QED BY <1>2, <1>3, <2>1, Induction
<1>5. n - 1 \in T /\ (n - 1) + 1 = n /\ n - 1 <= maxEvidenceDepth
  <2>1. n - 1 \in Nat /\ (n - 1) + 1 = n /\ n - 1 <= maxEvidenceDepth
    BY <1>1
  <2> HIDE DEF T
  <2> QED BY <1>4, <2>1
<1>6. Level(out)[n] \subseteq Below(n)
  BY <1>5
<1> QED BY <1>6 DEF out

LEMMA LenOfList ==
  ASSUME NEW s, NEW n \in Nat, DOMAIN s = 1 .. n, s = [i \in DOMAIN s |-> s[i]]
  PROVE  Len(s) = n
<1> DEFINE S == {s[i] : i \in 1 .. n}
<1>1. s \in [1 .. n -> S]
  OBVIOUS
<1> HIDE DEF S
<1>2. s \in Seq(S)
  BY <1>1
<1>3. DOMAIN s = 1 .. Len(s) /\ Len(s) \in Nat
  BY <1>2
<1> QED BY <1>3

\* What SanitizeEvidence lets out is bounded and has no secret key, at every
\* level of nesting.
LEMMA EvidenceClean ==
  ASSUME NEW of, Evidence(of), SanitizeEvidence(of) # Nil
  PROVE  Clean(SanitizeEvidence(of))
<1> DEFINE out == SanitizeEvidence(of)
           Bounded(w, n) ==
             /\ w.kind = "map" =>
                  /\ n < maxEvidenceDepth
                  /\ DOMAIN w.of \cap SecretKeys = {}
                  /\ Cardinality(DOMAIN w.of) <= maxEvidenceKeys
             /\ w.kind = "list" =>
                  /\ n <= maxEvidenceDepth
                  /\ n = maxEvidenceDepth =>
                       \A i \in DOMAIN w.of : w.of[i].kind = "string"
                  /\ Len(w.of) <= maxEvidenceList
             /\ w.kind = "string" => w.runes <= maxEvidenceString + 1
<1>1. maxEvidenceDepth \in Nat /\ maxEvidenceDepth > 0 /\ maxEvidenceString \in Nat
  BY LimitsType DEF Limits
<1>2. ASSUME NEW w \in Level(out)[0] PROVE Bounded(w, 0)
  <2> DEFINE clean == [k \in DOMAIN of |->
                         sanitizeValue[maxEvidenceDepth - 1][of[k]]]
             m == [k \in Kept(of) |-> clean[k]]
  <2>1. out = Map(m)
    BY DEF SanitizeEvidence, sanitizeMap
  <2>2. DOMAIN m = Kept(of)
    OBVIOUS
  <2> HIDE DEF m, out
  <2>3. w = Map(m)
    BY <1>2, <2>1, LevelComputed
  <2>4. w.kind = "map" /\ w.of = m
    BY <2>3 DEF Map
  <2> QED BY <1>1, <2>2, <2>4, KeptBounded
<1>3. ASSUME NEW n \in 1 .. maxEvidenceDepth + 1, NEW w \in Level(out)[n]
      PROVE  Bounded(w, n)
  <2>1. w \in Below(n)
    BY <1>3, LevelsBelow
  <2>2. ASSUME NEW u \in {Scalar, Omitted, Nil} \cup ShortTexts PROVE Bounded(u, n)
    BY <1>1, <2>2 DEF ShortTexts, Text, Scalar, Omitted, Nil
  <2>3. CASE w \in ShortTexts
    <3> HIDE DEF Bounded
    <3> QED BY <2>2, <2>3
  <2>4. CASE w \notin ShortTexts
    <3> DEFINE left == maxEvidenceDepth - n
    <3>1. n <= maxEvidenceDepth /\ w \in Results(maxEvidenceDepth - n)
      BY <2>1, <2>4 DEF Below
    <3>2. left \in 0 .. maxEvidenceDepth - 1 /\ (left > 0 => n < maxEvidenceDepth)
          /\ (n = maxEvidenceDepth => ~(left > 0))
      BY <1>1, <3>1
    <3>3. Becomes(w, left, Results(left - 1))
      <4> HIDE DEF left
      <4>1. w \in Results(left)
        BY <3>1 DEF left
      <4> QED BY <3>2, <4>1, ResultBecomes
    <3> HIDE DEF left
    <3>4. CASE w \in {Scalar, Omitted, Nil} \cup ShortTexts
      <4> HIDE DEF Bounded
      <4> QED BY <2>2, <3>4
    <3>5. CASE w.kind = "list" /\ w \notin {Scalar, Omitted, Nil} \cup ShortTexts
      <4>1. PICK m \in Nat : m <= maxEvidenceList /\ DOMAIN w.of = 1 .. m
        BY <3>3, <3>5 DEF Becomes
      <4>2. w.of = [i \in DOMAIN w.of |-> w.of[i]]
        BY <3>3, <3>5 DEF Becomes
      <4>3. Len(w.of) = m
        BY <4>1, <4>2, LenOfList
      <4>4. n = maxEvidenceDepth => \A i \in DOMAIN w.of : w.of[i] \in ShortTexts
        BY <3>2, <3>3, <3>5 DEF Becomes
      <4>5. n = maxEvidenceDepth => \A i \in DOMAIN w.of : w.of[i].kind = "string"
        BY <4>4 DEF ShortTexts, Text
      <4> QED BY <3>1, <3>5, <4>1, <4>3, <4>5
    <3>6. CASE w.kind = "map" /\ w \notin {Scalar, Omitted, Nil} \cup ShortTexts
      BY <3>2, <3>3, <3>6 DEF Becomes
    <3> QED BY <3>3, <3>4, <3>5, <3>6 DEF Becomes
  <2> QED BY <2>3, <2>4
<1>4. \A n \in 0 .. maxEvidenceDepth + 1 : \A w \in Level(out)[n] : Bounded(w, n)
  <2> HIDE DEF Bounded
  <2>1. \A n \in 0 .. maxEvidenceDepth + 1 :
          n = 0 \/ n \in 1 .. maxEvidenceDepth + 1
    BY <1>1
  <2> QED BY <1>2, <1>3, <2>1
<1> QED BY <1>4 DEF Clean
\* Evidence that is clean keeps every value ...
LEMMA LevelOfValues ==
  ASSUME NEW of, Evidence(of), NEW n \in 1 .. maxEvidenceDepth
  PROVE  Level(Map(of))[n] \subseteq Values
<1> DEFINE T == {i \in Nat : i < maxEvidenceDepth =>
                               Level(Map(of))[i + 1] \subseteq Values}
<1>1. maxEvidenceDepth \in Nat /\ maxEvidenceDepth > 0
  BY LimitsType DEF Limits
<1>2. 0 \in T
  <2>1. 1 \in 1 .. maxEvidenceDepth + 1 /\ 1 - 1 = 0
    BY <1>1
  <2>2. Level(Map(of))[1] = Parts({Map(of)})
    BY <2>1, LevelComputed
  <2>3. Parts({Map(of)}) \subseteq Values
    BY DEF Parts, Map, Evidence
  <2> QED BY <2>2, <2>3
<1>3. ASSUME NEW i \in T PROVE i + 1 \in T
  <2> SUFFICES ASSUME i + 1 < maxEvidenceDepth
               PROVE  Level(Map(of))[i + 2] \subseteq Values
    OBVIOUS
  <2>1. /\ i \in Nat /\ i < maxEvidenceDepth
        /\ i + 2 \in 1 .. maxEvidenceDepth + 1 /\ (i + 2) - 1 = i + 1
    BY <1>1
  <2>2. Level(Map(of))[i + 2] = Parts(Level(Map(of))[i + 1])
    BY <2>1, LevelComputed
  <2>3. Level(Map(of))[i + 1] \subseteq Values
    BY <2>1
  <2>4. ASSUME NEW w \in Values, Nested(w), NEW k \in DOMAIN w.of
        PROVE  w.of[k] \in Values
    <3>1. IsValue(w)
      BY PacketAssumption
    <3>2. CASE w.kind = "map"
      BY <3>1, <3>2, <2>4 DEF IsValue, Evidence
    <3>3. CASE w.kind = "list"
      <4>1. w.of \in Seq(Values)
        BY <3>1, <3>3 DEF IsValue
      <4> QED BY <2>4, <4>1
    <3> QED BY <2>4, <3>2, <3>3 DEF Nested
  <2>5. Parts(Level(Map(of))[i + 1]) \subseteq Values
    BY <2>3, <2>4 DEF Parts
  <2> QED BY <2>2, <2>5
<1>4. T = Nat
  <2> HIDE DEF T
  <2>1. T \in SUBSET Nat
    BY DEF T
  <2> QED BY <1>2, <1>3, <2>1, Induction
<1>5. n - 1 \in T /\ (n - 1) + 1 = n /\ n - 1 < maxEvidenceDepth
  <2>1. n - 1 \in Nat /\ (n - 1) + 1 = n /\ n - 1 < maxEvidenceDepth
    BY <1>1
  <2> HIDE DEF T
  <2> QED BY <1>4, <2>1
<1> QED BY <1>5

\* A value that is clean by itself stays as it is, if what is inside of it does.
LEMMA SanitizedSame ==
  ASSUME NEW t \in Values, NEW left \in Nat, NEW deeper,
         t.kind \notin {"strings", "other"},
         t.kind = "string" => t.runes <= maxEvidenceString,
         Nested(t) => left > 0 /\ \A k \in DOMAIN t.of : deeper[t.of[k]] = t.of[k],
         t.kind = "map" =>
           /\ DOMAIN t.of # {} /\ DOMAIN t.of \cap SecretKeys = {}
           /\ Cardinality(DOMAIN t.of) <= maxEvidenceKeys,
         t.kind = "list" => Len(t.of) <= maxEvidenceList
  PROVE  sanitized(t, left, deeper) = t
<1>0. IsValue(t)
  BY PacketAssumption
<1>1. CASE t.kind = "string"
  <2>1. t = Text(t.runes) /\ t.runes \in Nat
    BY <1>0, <1>1 DEF IsValue
  <2>2. truncateRunes(t.runes, maxEvidenceString) = t.runes
    BY <1>1 DEF truncateRunes
  <2>3. sanitized(t, left, deeper) = Text(truncateRunes(t.runes, maxEvidenceString))
    BY <1>1 DEF sanitized
  <2> QED BY <2>1, <2>2, <2>3
<1>2. CASE t.kind = "map"
  <2>1. t = Map(t.of) /\ Evidence(t.of)
    BY <1>0, <1>2 DEF IsValue
  <2>2. Kept(t.of) = DOMAIN t.of
    BY <1>2, <2>1, AllKept
  <2>3. sanitized(t, left, deeper) =
          sanitizeMap(t.of, [k \in DOMAIN t.of |-> deeper[t.of[k]]])
    BY <1>2 DEF sanitized, Nested
  <2>4. [k \in DOMAIN t.of |-> deeper[t.of[k]]] = t.of
    BY <1>2, <2>1 DEF Nested, Evidence
  <2>5. sanitizeMap(t.of, t.of) = Map(t.of)
    <3>1. [k \in DOMAIN t.of |-> t.of[k]] = t.of
      BY <2>1 DEF Evidence
    <3> QED BY <1>2, <2>2, <3>1 DEF sanitizeMap
  <2> QED BY <2>1, <2>3, <2>4, <2>5
<1>3. CASE t.kind = "list"
  <2>1. t = List(t.of) /\ t.of \in Seq(Values)
    BY <1>0, <1>3 DEF IsValue
  <2>2. sanitized(t, left, deeper) =
          List([i \in FirstItems(t.of) |-> deeper[t.of[i]]])
    BY <1>3 DEF sanitized, Nested
  <2>3. Len(t.of) \in Nat /\ maxEvidenceList \in Nat /\ DOMAIN t.of = 1 .. Len(t.of)
    BY <2>1, LimitsType DEF Limits
  <2>4. FirstItems(t.of) = DOMAIN t.of
    BY <1>3, <2>3 DEF FirstItems
  <2>5. [i \in FirstItems(t.of) |-> deeper[t.of[i]]] = t.of
    <3>1. t.of = [i \in DOMAIN t.of |-> t.of[i]]
      BY <2>1
    <3>2. \A i \in DOMAIN t.of : deeper[t.of[i]] = t.of[i]
      BY <1>3 DEF Nested
    <3> QED BY <2>4, <3>1, <3>2
  <2> QED BY <2>1, <2>2, <2>5
<1>4. CASE t.kind \notin {"string", "map", "list"}
  <2>1. t = Scalar
    BY <1>0, <1>4 DEF IsValue
  <2> QED BY <2>1 DEF sanitized, Scalar
<1> QED BY <1>1, <1>2, <1>3, <1>4

\* ... and is whole in the packet.
LEMMA CleanKept ==
  ASSUME NEW of, Evidence(of), AlreadyClean(Map(of))
  PROVE  SanitizeEvidence(of) = Map(of)
<1> DEFINE L == Level(Map(of))
           Untouched(left) ==
             \A v \in L[maxEvidenceDepth - left] : sanitizeValue[left][v] = v
           T == {left \in Nat : left < maxEvidenceDepth => Untouched(left)}
<1>1. maxEvidenceDepth \in Nat /\ maxEvidenceDepth > 0
  BY LimitsType DEF Limits
<1>2. ASSUME NEW left \in 0 .. maxEvidenceDepth - 1,
             left > 0 => Untouched(left - 1)
      PROVE  Untouched(left)
  <2> SUFFICES ASSUME NEW v \in L[maxEvidenceDepth - left]
               PROVE  sanitizeValue[left][v] = v
    OBVIOUS
  <2> DEFINE n == maxEvidenceDepth - left
             deeper == IF left = 0 THEN <<>> ELSE sanitizeValue[left - 1]
  <2>1. /\ n \in 1 .. maxEvidenceDepth /\ n \in 0 .. maxEvidenceDepth + 1
        /\ n + 1 \in 1 .. maxEvidenceDepth + 1 /\ (n + 1) - 1 = n
        /\ n < maxEvidenceDepth => left > 0
        /\ maxEvidenceDepth - (left - 1) = n + 1
    BY <1>1
  <2>2. v \in Values
    BY <2>1, LevelOfValues
  <2> HIDE DEF n
  <2>3. v \in L[n]
    BY DEF n
  <2>4. /\ v.kind \notin {"strings", "other"}
        /\ v.kind = "string" => v.runes <= maxEvidenceString
        /\ v.kind = "map" => DOMAIN v.of # {}
        /\ Nested(v) => n < maxEvidenceDepth
    BY <2>1, <2>3 DEF AlreadyClean
  <2>5. /\ v.kind = "map" =>
             /\ DOMAIN v.of \cap SecretKeys = {}
             /\ Cardinality(DOMAIN v.of) <= maxEvidenceKeys
        /\ v.kind = "list" => Len(v.of) <= maxEvidenceList
    BY <2>1, <2>3 DEF AlreadyClean, Clean
  <2>6. Nested(v) => \A k \in DOMAIN v.of : deeper[v.of[k]] = v.of[k]
    <3> SUFFICES ASSUME Nested(v), NEW k \in DOMAIN v.of
                 PROVE  deeper[v.of[k]] = v.of[k]
      OBVIOUS
    <3>1. L[n + 1] = Parts(L[n])
      BY <2>1, LevelComputed
    <3>2. v.of[k] \in L[n + 1]
      BY <2>3, <3>1 DEF Parts
    <3>3. left > 0
      BY <2>1, <2>4
    <3>4. \A u \in L[n + 1] : sanitizeValue[left - 1][u] = u
      BY <1>2, <2>1, <3>3
    <3> QED BY <3>2, <3>3, <3>4
  <2>7. generic(v) = v
    BY <2>4 DEF generic
  <2>8. sanitizeValue[left][v] = sanitized(v, left, deeper)
    BY <2>2, <2>7, SanitizeComputed
  <2> HIDE DEF deeper
  <2>9. sanitized(v, left, deeper) = v
    BY <2>1, <2>2, <2>4, <2>5, <2>6, SanitizedSame
  <2> QED BY <2>8, <2>9
<1> HIDE DEF Untouched
<1>3. 0 \in T
  BY <1>1, <1>2
<1>4. ASSUME NEW left \in T PROVE left + 1 \in T
  <2>1. /\ left \in Nat /\ (left + 1) - 1 = left /\ left + 1 > 0
        /\ left < maxEvidenceDepth => Untouched(left)
    OBVIOUS
  <2>2. left + 1 < maxEvidenceDepth =>
          left + 1 \in 0 .. maxEvidenceDepth - 1 /\ left < maxEvidenceDepth
    BY <1>1, <2>1
  <2> QED BY <1>2, <2>1, <2>2
<1>5. T = Nat
  <2> HIDE DEF T
  <2>1. T \in SUBSET Nat
    BY DEF T
  <2> QED BY <1>3, <1>4, <2>1, Induction
<1>6. Untouched(maxEvidenceDepth - 1)
  <2>1. maxEvidenceDepth - 1 \in Nat /\ maxEvidenceDepth - 1 < maxEvidenceDepth
    BY <1>1
  <2> QED BY <1>5, <2>1
<1>7. \A k \in DOMAIN of : sanitizeValue[maxEvidenceDepth - 1][of[k]] = of[k]
  <2>1. 1 \in 1 .. maxEvidenceDepth + 1 /\ 1 - 1 = 0
        /\ maxEvidenceDepth - (maxEvidenceDepth - 1) = 1
    BY <1>1
  <2>2. L[1] = Parts({Map(of)})
    <3>1. L[1] = Parts(L[1 - 1]) /\ L[0] = {Map(of)}
      BY <2>1, LevelComputed
    <3> QED BY <2>1, <3>1
  <2>3. \A k \in DOMAIN of : of[k] \in L[1]
    BY <2>2 DEF Parts, Map, Nested
  <2> QED BY <1>6, <2>1, <2>3 DEF Untouched
<1>8. /\ DOMAIN of # {} /\ DOMAIN of \cap SecretKeys = {}
      /\ Cardinality(DOMAIN of) <= maxEvidenceKeys
  <2>1. Map(of) \in Level(Map(of))[0] /\ 0 \in 0 .. maxEvidenceDepth + 1
    BY <1>1, LevelComputed
  <2> QED BY <2>1 DEF AlreadyClean, Clean, Map
<1>9. Kept(of) = DOMAIN of
  BY <1>8, AllKept
<1>10. of = [k \in DOMAIN of |-> of[k]]
  BY DEF Evidence
<1> QED BY <1>7, <1>8, <1>9, <1>10 DEF SanitizeEvidence, sanitizeMap

-----------------------------------------------------------------------------
(* guard.go *)

\* dropConflictingSeverity keeps the sentences that agree with the severity; if
\* there is none, the text is shown as it came.
LEMMA Dropped ==
  ASSUME NEW text \in Seq(Words), NEW sev, 
         NEW shown, shown = dropConflictingSeverity(text, sev)
  PROVE  \/ /\ shown = text
            /\ \A i \in DOMAIN text : text[i] \in Conflicting(sev)
         \/ /\ shown # <<>>
            /\ \A w : (\E i \in DOMAIN shown : shown[i] = w) <=>
                      /\ w \notin Conflicting(sev)
                      /\ \E i \in DOMAIN text : text[i] = w
<1> DEFINE N == Len(text)
           C == Conflicting(sev)
           Loop(f) == [n \in 0 .. Len(text) |->
                         IF n = 0 THEN <<>>
                         ELSE IF text[n] \in Conflicting(sev) THEN f[n - 1]
                         ELSE Append(f[n - 1], text[n])]
           kept == CHOOSE f : f = Loop(f)
           turn == [n \in 1 .. N |-> [v \in Seq(Words) |->
                      IF text[n] \in C THEN v ELSE Append(v, text[n])]]
<1>1. shown = IF kept[N] = <<>> THEN text ELSE kept[N]
  BY DEF dropConflictingSeverity
<1>2. N \in Nat /\ DOMAIN text = 1 .. N /\ \A i \in 1 .. N : text[i] \in Words
  OBVIOUS
<1>3. kept = Loop(kept)
  <2>1. turn \in [1 .. N -> [Seq(Words) -> Seq(Words)]]
    BY <1>2
  <2>2. <<>> \in Seq(Words)
    OBVIOUS
  <2>3. \A n \in 1 .. N, v \in Seq(Words) :
          turn[n][v] = IF text[n] \in C THEN v ELSE Append(v, text[n])
    OBVIOUS
  <2> HIDE DEF turn
  <2>4. PICK f : Loops(f, N, Seq(Words), <<>>, turn)
    BY <1>2, <2>1, <2>2, LoopRuns DEF Turns
  <2>5. /\ f \in [0 .. N -> Seq(Words)]
        /\ f[0] = <<>> /\ \A n \in 1 .. N : f[n] = turn[n][f[n - 1]]
    BY <2>4 DEF Loops
  <2>6. ASSUME NEW n \in 0 .. N
        PROVE  f[n] = Loop(f)[n]
    <3>1. CASE n = 0
      BY <2>5, <3>1
    <3>2. CASE n # 0
      <4>1. n \in 1 .. N /\ n - 1 \in 0 .. N
        BY <1>2, <3>2
      <4>. f[n - 1] \in Seq(Words)
        BY <2>5, <4>1, Zenon
      <4>2. f[n] = turn[n][f[n - 1]]
        BY <2>5, <3>2
      <4> QED BY <2>3, <4>1, <4>2, <3>2
    <3> QED BY <3>1, <3>2
  <2>7. f = Loop(f)
    BY <2>5, <2>6
  <2> QED BY <2>7
<1>4. \A n \in 0 .. N :
        kept[n] = IF n = 0 THEN <<>>
                  ELSE IF text[n] \in C THEN kept[n - 1]
                  ELSE Append(kept[n - 1], text[n])
  BY <1>3
<1> HIDE DEF kept, turn
<1> DEFINE Holds(s, n) ==
             /\ s \in Seq(Words)
             /\ \A w : (\E i \in 1 .. Len(s) : s[i] = w) <=>
                       /\ w \notin C
                       /\ \E i \in 1 .. n : text[i] = w
           T == {n \in Nat : n <= N => Holds(kept[n], n)}
<1>5. 0 \in T
  <2>1. kept[0] = <<>>
    BY <1>2, <1>4
  <2>2. Holds(<<>>, 0)
    OBVIOUS
  <2> HIDE DEF Holds
  <2> QED BY <2>1, <2>2
<1>6. ASSUME NEW n \in T PROVE n + 1 \in T
  <2> SUFFICES ASSUME n + 1 <= N PROVE Holds(kept[n + 1], n + 1)
    OBVIOUS
  <2> DEFINE s == kept[n]
             z == text[n + 1]
  <2>1. n \in Nat /\ n + 1 \in 1 .. N /\ z \in Words /\ Holds(s, n)
    <3>1. n \in Nat /\ n <= N /\ n + 1 \in 1 .. N
      BY <1>2
    <3>2. n <= N => Holds(s, n)
      <4> HIDE DEF Holds
      <4> QED OBVIOUS
    <3> QED BY <1>2, <3>1, <3>2
  <2>2. kept[n + 1] = IF z \in C THEN s ELSE Append(s, z)
    BY <1>4, <2>1
  <2>3. \A w : (\E i \in 1 .. n + 1 : text[i] = w) <=>
                 (\E i \in 1 .. n : text[i] = w) \/ z = w
    BY <2>1
  <2>4. \A w : (\E i \in 1 .. Len(Append(s, z)) : Append(s, z)[i] = w) <=>
                 (\E i \in 1 .. Len(s) : s[i] = w) \/ z = w
    <3>1. Len(Append(s, z)) = Len(s) + 1 /\ Append(s, z)[Len(s) + 1] = z
          /\ \A i \in 1 .. Len(s) : Append(s, z)[i] = s[i]
          /\ Len(s) \in Nat
      BY <2>1
    <3> QED BY <3>1
  <2>5. Append(s, z) \in Seq(Words)
    BY <2>1
  <2> HIDE DEF s, z, C
  <2>6. CASE z \in C
    <3>1. kept[n + 1] = s
      BY <2>2, <2>6
    <3> QED BY <2>1, <2>3, <2>6, <3>1
  <2>7. CASE z \notin C
    <3>1. kept[n + 1] = Append(s, z)
      BY <2>2, <2>7
    <3>2. Holds(Append(s, z), n + 1)
      BY <2>1, <2>3, <2>4, <2>5, <2>7
    <3> HIDE DEF Holds
    <3> QED BY <3>1, <3>2
  <2> QED BY <2>6, <2>7
<1> HIDE DEF T
<1>7. N \in T
  <2>1. T \in SUBSET Nat
    BY DEF T
  <2> QED BY <1>2, <1>5, <1>6, <2>1, Induction
<1>8. Holds(kept[N], N)
  BY <1>2, <1>7 DEF T
<1>9. CASE kept[N] = <<>>
  <2>1. \A i \in 1 .. N : text[i] \in C
    BY <1>8, <1>9
  <2> QED BY <1>1, <1>2, <1>9, <2>1
<1>10. CASE kept[N] # <<>>
  <2>1. shown = kept[N] /\ DOMAIN shown = 1 .. Len(shown)
    BY <1>1, <1>8, <1>10
  <2> QED BY <1>2, <1>8, <1>10, <2>1
<1> QED BY <1>9, <1>10

-----------------------------------------------------------------------------
(* What the request holds, what it sent and what it was told *)

\* What the handler read is a finding, one that was stored since the request
\* began.
Holding ==
  /\ req.pc \notin {"idle", "done"} => record \in req.seen
  /\ req.pc \in {"idle", "get"} => req.rec = NoFinding
  /\ req.pc \in {"check", "post", "wait", "backoff"} => req.rec # NoFinding
  /\ req.rec # NoFinding => req.rec \in req.seen

\* So is what was sent.
Sent ==
  \A p \in req.posted : \E f \in req.seen \ {NoFinding} : p = NewFindingPacket(f)

\* The answer about a finding is unavailable or what the sidecar told of it.
Told ==
  /\ req.pc # "done" => req.told = <<>> /\ ~answer.available
  /\ answer.available =>
       /\ req.rec # NoFinding /\ req.told \in Texts
       /\ answer = Explained(req.told)
  /\ req.pc = "done" /\ req.rec # NoFinding =>
       answer.status = 200 /\ (answer.available <=> req.told # <<>>)

HeldInv == Holding /\ Sent /\ Told

\* The request goes on, with what it has.
LEMMA HeldGoesOn ==
  ASSUME IInv, HeldInv, NEW x \in Request, req' = x,
         record' = record, answer' = answer,
         req.pc \in {"check", "post", "wait", "backoff"},
         x.pc \in {"check", "post", "wait", "backoff"},
         x.rec = req.rec, x.seen = req.seen, x.told = req.told,
         x.posted \subseteq req.posted \cup {NewFindingPacket(req.rec)}
  PROVE  HeldInv'
<1>1. Holding'
  BY DEF HeldInv, Holding
<1>2. Sent'
  <2>1. req.rec \in req.seen \ {NoFinding}
    BY DEF HeldInv, Holding
  <2> QED BY <2>1 DEF HeldInv, Sent
<1>3. Told'
  BY DEF HeldInv, Told
<1> QED BY <1>1, <1>2, <1>3 DEF HeldInv

\* The request ends without an explanation.
LEMMA HeldAnswers ==
  ASSUME IInv, HeldInv, req.pc # "done", record' = record,
         req' = [req EXCEPT !.pc = "done"],
         answer'.available = FALSE,
         req.rec # NoFinding => answer'.status = 200
  PROVE  HeldInv'
<1>1. /\ req'.pc = "done" /\ req'.rec = req.rec /\ req'.seen = req.seen
      /\ req'.posted = req.posted /\ req'.told = req.told
  BY DEF IInv, Request
<1>2. Holding' /\ Sent'
  BY <1>1 DEF HeldInv, Holding, Sent
<1>3. Told'
  BY <1>1 DEF HeldInv, Told
<1> QED BY <1>2, <1>3 DEF HeldInv

LEMMA HeldGivesUp ==
  ASSUME IInv, HeldInv, req.pc # "done", record' = record, GivesUp
  PROVE  HeldInv'
<1>1. /\ req' = [req EXCEPT !.pc = "done"]
      /\ answer'.status = 200 /\ answer'.available = FALSE
  BY DEF GivesUp, Answers, Unanswered, Reply, NoAnswer
<1> QED BY <1>1, HeldAnswers

LEMMA HeldRetries ==
  ASSUME IInv, HeldInv, req.pc \in {"post", "wait"}, record' = record, Retries
  PROVE  HeldInv'
<1>1. CASE req.attempt < ai.retries
  <2> DEFINE x == [req EXCEPT !.pc = "backoff", !.attempt = @ + 1]
  <2>1. req' = x /\ answer' = answer
    BY <1>1 DEF Retries
  <2>2. /\ x \in Request /\ x.pc = "backoff" /\ x.rec = req.rec
        /\ x.seen = req.seen /\ x.told = req.told /\ x.posted = req.posted
    <3>1. req.attempt + 1 \in Nat
      BY DEF IInv, Request
    <3> QED BY <3>1 DEF IInv, Request, PCs
  <2> HIDE DEF x
  <2> QED BY <2>1, <2>2, HeldGoesOn
<1>2. CASE ~(req.attempt < ai.retries)
  BY <1>2, HeldGivesUp DEF Retries
<1> QED BY <1>1, <1>2

LEMMA HeldInitially == Init => HeldInv
<1> SUFFICES ASSUME Init PROVE HeldInv
  OBVIOUS
<1>1. /\ req.pc = "idle" /\ req.rec = NoFinding /\ req.posted = {}
      /\ req.told = <<>> /\ answer.available = FALSE
  BY DEF Init, Idle, NoAnswer
<1> QED BY <1>1 DEF HeldInv, Holding, Sent, Told

LEMMA HeldOthers ==
  ASSUME IInv, HeldInv, Changes \/ Leaves
  PROVE  HeldInv'
<1>1. CASE Changes /\ req.pc = "idle"
  <2>1. req' = req /\ answer' = answer
    BY <1>1 DEF Changes
  <2> QED BY <1>1, <2>1 DEF HeldInv, Holding, Sent, Told
<1>2. CASE Changes /\ req.pc # "idle"
  <2>1. /\ req'.pc = req.pc /\ req'.rec = req.rec /\ req'.told = req.told
        /\ req'.posted = req.posted /\ req'.seen = req.seen \cup {record'}
        /\ answer' = answer /\ req.pc # "done"
    BY <1>2 DEF Changes, IInv, Request
  <2> QED BY <1>2, <2>1 DEF HeldInv, Holding, Sent, Told
<1>3. CASE Leaves
  <2>1. /\ req'.pc = req.pc /\ req'.rec = req.rec /\ req'.told = req.told
        /\ req'.posted = req.posted /\ req'.seen = req.seen
        /\ answer' = answer /\ req.pc # "done" /\ record' = record
    BY <1>3 DEF Leaves, IInv, Request
  <2> QED BY <2>1 DEF HeldInv, Holding, Sent, Told
<1> QED BY <1>1, <1>2, <1>3

LEMMA HeldBegins ==
  ASSUME IInv, HeldInv, Begins
  PROVE  HeldInv'
<1>0. req.pc = "idle" /\ record' = record
  BY DEF Begins
<1>1. CASE req' = [req EXCEPT !.pc = "get", !.seen = {record}, !.tiers = {tier}]
           /\ answer' = answer
  <2>1. /\ req'.pc = "get" /\ req'.rec = req.rec /\ req'.told = req.told
        /\ req'.posted = req.posted /\ req'.seen = {record}
    BY <1>1 DEF IInv, Request
  <2>2. req.posted = {} /\ req.rec = NoFinding
    BY <1>0 DEF IInv, Unasked, HeldInv, Holding
  <2> QED BY <1>0, <1>1, <2>1, <2>2 DEF HeldInv, Holding, Sent, Told
<1>2. CASE req' = [req EXCEPT !.pc = "done"]
           /\ answer' = Reply(400, "no fingerprint")
  <2>1. answer'.available = FALSE /\ req.rec = NoFinding
    BY <1>0, <1>2 DEF Reply, NoAnswer, HeldInv, Holding
  <2> QED BY <1>0, <1>2, <2>1, HeldAnswers
<1> QED BY <1>1, <1>2 DEF Begins

LEMMA HeldHandles ==
  ASSUME IInv, HeldInv, Handles
  PROVE  HeldInv'
<1>0. record' = record
  BY DEF Handles, Gets, Checks, Posts, BacksOff
<1>1. CASE Gets
  <2>0. req.pc = "get" /\ req.rec = NoFinding /\ record \in req.seen
    BY <1>1 DEF Gets, HeldInv, Holding
  <2>1. CASE \E status, reason : Answers(Reply(status, reason))
    <3>1. req' = [req EXCEPT !.pc = "done"] /\ answer'.available = FALSE
      BY <2>1 DEF Answers, Reply, NoAnswer
    <3> QED BY <1>0, <2>0, <3>1, HeldAnswers
  <2>2. CASE record # NoFinding /\ answer' = answer
             /\ req' = [req EXCEPT !.pc = "check", !.rec = record]
    <3>1. /\ req'.pc = "check" /\ req'.rec = record /\ req'.told = req.told
          /\ req'.posted = req.posted /\ req'.seen = req.seen
      BY <2>2 DEF IInv, Request
    <3>2. Holding'
      BY <1>0, <2>0, <2>2, <3>1 DEF Holding
    <3>3. Sent' /\ Told'
      BY <2>0, <2>2, <3>1 DEF HeldInv, Sent, Told
    <3> QED BY <3>2, <3>3 DEF HeldInv
  <2>3. \/ \E status, reason : Answers(Reply(status, reason))
        \/ record # NoFinding /\ answer' = answer
             /\ req' = [req EXCEPT !.pc = "check", !.rec = record]
    <3>1. CASE Answers(Reply(500, "store error"))
      BY <3>1
    <3>2. CASE Answers(Reply(404, "no such finding"))
      BY <3>2
    <3> QED BY <1>1, <3>1, <3>2 DEF Gets
  <2> QED BY <2>1, <2>2, <2>3
<1>2. CASE Checks
  <2>0. req.pc = "check"
    BY <1>2 DEF Checks
  <2>1. CASE \E reason : Answers(Reply(200, reason))
    <3>1. /\ req' = [req EXCEPT !.pc = "done"]
          /\ answer'.status = 200 /\ answer'.available = FALSE
      BY <2>1 DEF Answers, Reply, NoAnswer
    <3> QED BY <1>0, <2>0, <3>1, HeldAnswers
  <2>2. CASE req' = [req EXCEPT !.pc = "post"] /\ answer' = answer
    <3> DEFINE x == [req EXCEPT !.pc = "post"]
    <3>1. /\ x \in Request /\ x.pc = "post" /\ x.rec = req.rec
          /\ x.seen = req.seen /\ x.told = req.told /\ x.posted = req.posted
      BY DEF IInv, Request, PCs
    <3>2. req' = x
      BY <2>2
    <3> HIDE DEF x
    <3> QED BY <1>0, <2>0, <2>2, <3>1, <3>2, HeldGoesOn
  <2>3. \/ \E reason : Answers(Reply(200, reason))
        \/ req' = [req EXCEPT !.pc = "post"] /\ answer' = answer
    <3>1. CASE ~aiAllowed
      <4>1. Answers(Reply(200, IF ai.on THEN "tier" ELSE "off"))
        BY <1>2, <3>1 DEF Checks
      <4> QED BY <4>1
    <3>2. CASE aiAllowed /\ req.rec.title = 0
      <4>1. Answers(Reply(200, "nothing to explain"))
        BY <1>2, <3>2 DEF Checks
      <4> QED BY <4>1
    <3>3. CASE aiAllowed /\ req.rec.title # 0
      BY <1>2, <3>3 DEF Checks
    <3> QED BY <3>1, <3>2, <3>3
  <2> QED BY <2>1, <2>2, <2>3
<1>3. CASE Posts
  <2>0. req.pc = "post"
    BY <1>3 DEF Posts
  <2>1. CASE req.gone
    BY <1>0, <1>3, <2>0, <2>1, HeldRetries DEF Posts
  <2>2. CASE ~req.gone
    <3> DEFINE sent == NewFindingPacket(req.rec)
               x == [req EXCEPT !.pc = "wait", !.posted = @ \cup {sent}]
    <3>1. req' = x /\ answer' = answer
      BY <1>3, <2>2 DEF Posts
    <3>2. sent \in {NewFindingPacket(f) : f \in Findings \cup {NoFinding}}
      BY DEF IInv, TypeOK
    <3> HIDE DEF sent
    <3>3. /\ x \in Request /\ x.pc = "wait" /\ x.rec = req.rec
          /\ x.seen = req.seen /\ x.told = req.told
          /\ x.posted = req.posted \cup {sent}
      BY <3>2 DEF IInv, Request, PCs
    <3> HIDE DEF x
    <3> QED BY <1>0, <2>0, <3>1, <3>3, HeldGoesOn DEF sent
  <2> QED BY <2>1, <2>2
<1>4. CASE BacksOff
  <2>0. req.pc = "backoff"
    BY <1>4 DEF BacksOff
  <2>1. CASE GivesUp
    BY <1>0, <2>0, <2>1, HeldGivesUp
  <2>2. CASE req' = [req EXCEPT !.pc = "post"] /\ answer' = answer
    <3> DEFINE x == [req EXCEPT !.pc = "post"]
    <3>1. /\ x \in Request /\ x.pc = "post" /\ x.rec = req.rec
          /\ x.seen = req.seen /\ x.told = req.told /\ x.posted = req.posted
      BY DEF IInv, Request, PCs
    <3>2. req' = x
      BY <2>2
    <3> HIDE DEF x
    <3> QED BY <1>0, <2>0, <2>2, <3>1, <3>2, HeldGoesOn
  <2> QED BY <1>4, <2>1, <2>2 DEF BacksOff
<1> QED BY <1>1, <1>2, <1>3, <1>4 DEF Handles

LEMMA HeldSidecar ==
  ASSUME IInv, HeldInv, SidecarReturns
  PROVE  HeldInv'
<1>0. req.pc = "wait" /\ record' = record
  BY DEF SidecarReturns, Fails, Refuses, Narrates
<1>1. CASE Fails
  BY <1>0, <1>1, HeldRetries DEF Fails
<1>2. CASE Refuses
  BY <1>0, <1>2, HeldGivesUp DEF Refuses
<1>3. ASSUME NEW text \in Texts, Narrates(text) PROVE HeldInv'
  <2>1. /\ req'.pc = "done" /\ req'.rec = req.rec /\ req'.seen = req.seen
        /\ req'.posted = req.posted /\ req'.told = text
    BY <1>3 DEF Narrates, IInv, Request
  <2>2. /\ answer' = Explained(text)'
        /\ answer'.status = 200 /\ answer'.available = TRUE
    BY <1>3, <2>1 DEF Narrates, Explained
  <2>3. req.rec # NoFinding /\ text # <<>>
    BY <1>0, AssistAssumption DEF HeldInv, Holding
  <2>4. Holding' /\ Sent'
    BY <1>0, <2>1 DEF HeldInv, Holding, Sent
  <2>5. Told'
    BY <2>1, <2>2, <2>3 DEF Told, Explained
  <2> QED BY <2>4, <2>5 DEF HeldInv
<1> QED BY <1>1, <1>2, <1>3 DEF SidecarReturns

LEMMA Held == Spec => []HeldInv
<1>1. IInv /\ HeldInv /\ [Next]_vars => HeldInv'
  <2> SUFFICES ASSUME IInv, HeldInv, [Next]_vars PROVE HeldInv'
    OBVIOUS
  <2>1. CASE UNCHANGED vars
    BY <2>1 DEF vars, HeldInv, Holding, Sent, Told, Explained
  <2> QED
    BY <2>1, HeldOthers, HeldBegins, HeldHandles, HeldSidecar DEF Next
<1> QED BY <1>1, HeldInitially, Inductive, PTL DEF Spec

-----------------------------------------------------------------------------

\* evidence.go: every packet that leaves the process is a sanitised copy of a
\* finding stored while the request ran, bounded in keys, items, runes and
\* nesting and without a secret key at any level, whatever the evidence is;
\* and evidence that needs nothing done to it is in the packet whole.
THEOREM PacketsSanitised == Spec => []PacketClean
<1>1. IInv /\ HeldInv => PacketClean
  <2> SUFFICES ASSUME IInv, HeldInv, NEW p \in req.posted
               PROVE  /\ p.title <= maxEvidenceString + 1
                      /\ p.evidence # Nil => Clean(p.evidence)
                      /\ \E f \in req.seen \ {NoFinding} :
                           /\ p = NewFindingPacket(f)
                           /\ AlreadyClean(Map(f.evidence)) =>
                                p.evidence = Map(f.evidence)
    BY DEF PacketClean
  <2>1. PICK f \in req.seen \ {NoFinding} : p = NewFindingPacket(f)
    BY DEF HeldInv, Sent
  <2>2. f \in Findings /\ f.title \in Nat /\ Evidence(f.evidence)
    BY AssistAssumption DEF IInv, TypeOK
  <2>3. /\ p.title = truncateRunes(f.title, maxEvidenceString)
        /\ p.evidence = SanitizeEvidence(f.evidence)
    BY <2>1 DEF NewFindingPacket
  <2>4. p.title <= maxEvidenceString + 1
    BY <2>2, <2>3, LimitsType DEF Limits, truncateRunes
  <2>5. p.evidence # Nil => Clean(p.evidence)
    BY <2>2, <2>3, EvidenceClean
  <2>6. AlreadyClean(Map(f.evidence)) => p.evidence = Map(f.evidence)
    BY <2>2, <2>3, CleanKept
  <2> QED BY <2>1, <2>4, <2>5, <2>6
<1> QED BY <1>1, Inductive, Held, PTL

\* ai.go, guard.go: an explanation is what the sidecar gave, under the
\* product's disclaimer; it contradicts a severity the finding had only if no
\* sentence of it agrees, and none that agrees is left out.  Every other end of
\* a request for a stored finding looks the same.
THEOREM NarrationQuiet == Spec => []NarrationIsQuiet
<1>1. IInv /\ HeldInv => NarrationIsQuiet
  <2> SUFFICES ASSUME IInv, HeldInv PROVE NarrationIsQuiet
    OBVIOUS
  <2>1. ASSUME answer.available
        PROVE  /\ answer.disclaimer = "canonical"
               /\ req.told # <<>>
               /\ \E f \in req.seen \ {NoFinding} :
                    /\ Conflicts(answer.text, f.sev) =>
                         /\ answer.text = req.told
                         /\ \A i \in DOMAIN req.told :
                              req.told[i] \in Conflicting(f.sev)
                    /\ \A w \in Words \ Conflicting(f.sev) :
                         (\E i \in DOMAIN req.told : req.told[i] = w) <=>
                         (\E i \in DOMAIN answer.text : answer.text[i] = w)
    <3>1. /\ req.rec \in req.seen \ {NoFinding} /\ req.told \in Texts
          /\ answer = Explained(req.told)
      BY <2>1 DEF HeldInv, Holding, Told
    <3>2. req.told \in Seq(Words) /\ req.told # <<>>
      BY <3>1, AssistAssumption
    <3>3. /\ answer.disclaimer = "canonical"
          /\ answer.text = dropConflictingSeverity(req.told, req.rec.sev)
      BY <3>1 DEF Explained
    <3>4. \/ /\ answer.text = req.told
             /\ \A i \in DOMAIN req.told :
                  req.told[i] \in Conflicting(req.rec.sev)
          \/ \A w : (\E i \in DOMAIN answer.text : answer.text[i] = w) <=>
                    /\ w \notin Conflicting(req.rec.sev)
                    /\ \E i \in DOMAIN req.told : req.told[i] = w
      BY <3>2, <3>3, Dropped
    <3>5. Conflicts(answer.text, req.rec.sev) =>
            /\ answer.text = req.told
            /\ \A i \in DOMAIN req.told :
                 req.told[i] \in Conflicting(req.rec.sev)
      BY <3>4 DEF Conflicts
    <3>6. \A w \in Words \ Conflicting(req.rec.sev) :
            (\E i \in DOMAIN req.told : req.told[i] = w) <=>
            (\E i \in DOMAIN answer.text : answer.text[i] = w)
      BY <3>4
    <3> QED BY <3>1, <3>2, <3>3, <3>5, <3>6
  <2>2. req.pc = "done" /\ req.rec # NoFinding =>
          answer.status = 200 /\ (answer.available <=> req.told # <<>>)
    BY DEF HeldInv, Told
  <2> QED BY <2>1, <2>2 DEF NarrationIsQuiet
<1> QED BY <1>1, Inductive, Held, PTL
=============================================================================
