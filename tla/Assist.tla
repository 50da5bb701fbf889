------------------------------- MODULE Assist -------------------------------
(***************************************************************************)
(* "Explain this finding" (web/ai.go) and the client behind it             *)
(* (internal/aiclient): one request through the store, the licence check,  *)
(* the packet and the attempts on the sidecar, while scans change the      *)
(* finding, keys change the tier, the browser may leave and the sidecar    *)
(* answers anything or nothing.  Requests share no state but the finding   *)
(* and the tier, which only others write, so one at a time is modelled.    *)
(***************************************************************************)
EXTENDS Packet

CONSTANTS
  Findings,      \* what the store may hold: sev, title (runes), evidence
  NoFinding,     \* not a finding
  Refreshed,     \* bound: what scans store while the request runs
  Texts,         \* the narrations the sidecar may give
  MaxRetries,    \* retries of a client made without WithMaxRetries
  MaxChanges     \* bound: changes of the finding and of the tier

ASSUME AssistAssumption ==
  /\ MaxRetries \in Nat /\ MaxChanges \in Nat
  /\ NoFinding \notin Findings
  /\ Refreshed \subseteq Findings
  /\ \A f \in Findings : f.title \in Nat /\ Evidence(f.evidence)
  /\ \A t \in Texts : t \in Seq(Words) /\ t # <<>>

Tiers == {"free", "pro", "team"}
Paid  == {"pro", "team"}

VARIABLES
  ai,        \* Server.AI: whether it is on, its endpoint keyed; retries
  record,    \* the finding as it is stored
  tier,      \* the tier of the activation in force
  changes,   \* number of changes of record and tier so far
  req,       \* the request
  answer     \* what the handler wrote, NoAnswer before

vars == <<ai, record, tier, changes, req, answer>>

NoAnswer == [status |-> 0, available |-> FALSE, reason |-> "", text |-> <<>>,
             disclaimer |-> ""]

Reply(status, reason) == [NoAnswer EXCEPT !.status = status, !.reason = reason]

\* rec is what the handler read, attempt the client's loop counter, gone
\* whether the request's context is done.  Histories: posted holds the packets
\* sent, seen and tiers what was stored and in force since the request began,
\* told the narration the sidecar gave.
Idle == [pc |-> "idle", rec |-> NoFinding, attempt |-> 0, gone |-> FALSE,
         posted |-> {}, seen |-> {}, tiers |-> {}, told |-> <<>>]

\* What NewAIAssist makes of the flags: without a URL it is off, with one that
\* does not parse, or a key file that is absent or empty, the process does not
\* start.  It sets no retries; a client made with the defaults has MaxRetries.
Settings == [url : {"", "bad", "good"}, keyFile : {"none", "empty", "key"}]

StartsUp(cfg) ==
  cfg.url = "" \/ (cfg.url = "good" /\ cfg.keyFile # "empty")

NewAIAssist(cfg, retries) ==
  [on |-> cfg.url # "", keyed |-> cfg.url # "" /\ cfg.keyFile = "key",
   retries |-> retries]

Init ==
  /\ ai \in {NewAIAssist(cfg, n) :
               cfg \in {c \in Settings : StartsUp(c)}, n \in {0, MaxRetries}}
  /\ record \in Findings \cup {NoFinding}
  /\ tier \in Tiers
  /\ changes = 0
  /\ req = Idle
  /\ answer = NoAnswer

-----------------------------------------------------------------------------
(* Everybody else *)

\* A scan refreshes the finding, or a key sets the tier; the row itself is
\* never removed.  Nothing after the answer matters to the request.
Changes ==
  /\ changes < MaxChanges /\ req.pc # "done"
  /\ changes' = changes + 1
  /\ \/ record' \in Refreshed /\ tier' = tier
     \/ tier' \in Tiers /\ record' = record
  /\ req' = IF req.pc = "idle" THEN req
            ELSE [req EXCEPT !.seen  = @ \cup {record'},
                             !.tiers = @ \cup {tier'}]
  /\ UNCHANGED <<ai, answer>>

\* The browser closes the connection: the request's context is done.
Leaves ==
  /\ req.pc \notin {"idle", "done"} /\ ~req.gone
  /\ req' = [req EXCEPT !.gone = TRUE]
  /\ UNCHANGED <<ai, record, tier, changes, answer>>

-----------------------------------------------------------------------------
(* handleExplainFinding *)

\* A request arrives, with a fingerprint or without.
Begins ==
  /\ req.pc = "idle"
  /\ \/ /\ req' = [req EXCEPT !.pc = "get", !.seen = {record},
                              !.tiers = {tier}]
        /\ UNCHANGED answer
     \/ /\ req' = [req EXCEPT !.pc = "done"]
        /\ answer' = Reply(400, "no fingerprint")
  /\ UNCHANGED <<ai, record, tier, changes>>

Answers(reply) ==
  /\ req' = [req EXCEPT !.pc = "done"]
  /\ answer' = reply

Gets ==
  /\ req.pc = "get"
  /\ \/ Answers(Reply(500, "store error"))
     \/ record = NoFinding /\ Answers(Reply(404, "no such finding"))
     \/ /\ record # NoFinding
        /\ req' = [req EXCEPT !.pc = "check", !.rec = record]
        /\ UNCHANGED answer
  /\ UNCHANGED <<ai, record, tier, changes>>

\* Mutant: the tier is not looked at.
aiAllowedToAll == ai.on

aiAllowed == ai.on /\ (ai.keyed => tier \in Paid)

\* aiAllowed, and NewFindingPacket: a title of spaces passes ValidateForIngest
\* and is refused here.
Checks ==
  /\ req.pc = "check"
  /\ IF ~aiAllowed
     THEN Answers(Reply(200, IF ai.on THEN "tier" ELSE "off"))
     ELSE IF req.rec.title = 0
     THEN Answers(Reply(200, "nothing to explain"))
     ELSE req' = [req EXCEPT !.pc = "post"] /\ UNCHANGED answer
  /\ UNCHANGED <<ai, record, tier, changes>>

-----------------------------------------------------------------------------
(* Client.Explain *)

Unanswered == Reply(200, "did not answer")

\* The handler gives every error of Explain the same answer.
GivesUp == Answers(Unanswered)

\* Mutant: one attempt too many.
RetriesOnceMore ==
  IF req.attempt <= ai.retries
  THEN req' = [req EXCEPT !.pc = "backoff", !.attempt = @ + 1]
       /\ UNCHANGED answer
  ELSE GivesUp

\* Mutant: a failed attempt is made again until one succeeds.
RetriesForEver ==
  req' = [req EXCEPT !.pc = "backoff"] /\ UNCHANGED answer

\* After a retryable error: a transport error, a 5xx or an error in the body.
Retries ==
  IF req.attempt < ai.retries
  THEN req' = [req EXCEPT !.pc = "backoff", !.attempt = @ + 1]
       /\ UNCHANGED answer
  ELSE GivesUp

\* doRequest sends the packet; with the context done it fails at once.
Posts ==
  /\ req.pc = "post"
  /\ IF req.gone
     THEN Retries
     ELSE /\ req' = [req EXCEPT !.pc = "wait",
                       !.posted = @ \cup {NewFindingPacket(req.rec)}]
          /\ UNCHANGED answer
  /\ UNCHANGED <<ai, record, tier, changes>>

\* The request fails or times out, or the sidecar answers 5xx or with an error.
Fails ==
  /\ req.pc = "wait"
  /\ Retries
  /\ UNCHANGED <<ai, record, tier, changes>>

\* A 4xx, or an answer that does not parse or explains nothing.
Refuses ==
  /\ req.pc = "wait"
  /\ GivesUp
  /\ UNCHANGED <<ai, record, tier, changes>>

Explained(text) ==
  [status |-> 200, available |-> TRUE, reason |-> "",
   text |-> dropConflictingSeverity(text, req.rec.sev),
   disclaimer |-> "canonical"]

\* Whatever disclaimer the model wrote is overwritten.
Narrates(text) ==
  /\ req.pc = "wait"
  /\ answer' = Explained(text)
  /\ req' = [req EXCEPT !.pc = "done", !.told = text]
  /\ UNCHANGED <<ai, record, tier, changes>>

\* The wait before the next attempt ends, or the context does.
BacksOff ==
  /\ req.pc = "backoff"
  /\ \/ req' = [req EXCEPT !.pc = "post"] /\ UNCHANGED answer
     \/ req.gone /\ GivesUp
  /\ UNCHANGED <<ai, record, tier, changes>>

Handles == Gets \/ Checks \/ Posts \/ BacksOff

SidecarReturns == Fails \/ Refuses \/ (\E text \in Texts : Narrates(text))

Next == Changes \/ Leaves \/ Begins \/ Handles \/ SidecarReturns

\* A goroutine that can run does; an attempt ends, by its own timeout at the
\* latest (WithTimeout).
Fairness == WF_vars(Handles) /\ WF_vars(SidecarReturns)

Spec == Init /\ [][Next]_vars /\ Fairness

-----------------------------------------------------------------------------
(* Properties *)

\* The types; and a client never makes more attempts than it was built for
\* (WithMaxRetries: 0 for the server, "another two minutes of a person
\* waiting, not a better answer").
TypeOK ==
  /\ ai \in [on : BOOLEAN, keyed : BOOLEAN, retries : Nat]
  /\ record \in Findings \cup {NoFinding}
  /\ tier \in Tiers
  /\ changes \in 0 .. MaxChanges
  /\ req.pc \in {"idle", "get", "check", "post", "wait", "backoff", "done"}
  /\ req.rec \in Findings \cup {NoFinding}
  /\ req.attempt \in 0 .. ai.retries
  /\ req.gone \in BOOLEAN
  /\ req.seen \subseteq Findings \cup {NoFinding}
  /\ req.tiers \subseteq Tiers
  /\ answer.status \in {0, 200, 400, 404, 500}
  /\ answer.available \in BOOLEAN

\* ai.go: "Only a bounded, sanitised copy of one finding leaves the process":
\* every packet sent is clean and of a finding that was stored while the
\* request ran, and evidence that was clean already is in it whole.
PacketClean ==
  \A p \in req.posted :
    /\ p.title <= maxEvidenceString + 1
    /\ p.evidence # Nil => Clean(p.evidence)
    /\ \E f \in req.seen \ {NoFinding} :
         /\ p = NewFindingPacket(f)
         /\ AlreadyClean(Map(f.evidence)) => p.evidence = Map(f.evidence)

\* ai.go: "The check runs on every request, so a licence added at runtime takes
\* effect at once": an endpoint with a key is asked only if a paid tier was in
\* force at some moment of the request, and a request is turned away for the
\* tier only if the free one was; without an endpoint nobody is asked.
TierDecidesNow ==
  /\ req.posted # {} =>
       ai.on /\ (ai.keyed => req.tiers \cap Paid # {})
  /\ answer.reason = "tier" => ai.keyed /\ req.tiers \ Paid # {}

Conflicts(text, sev) == \E i \in DOMAIN text : text[i] \in Conflicting(sev)

\* ai.go: "The product's own engine stays the ONLY source of findings and
\* severity", and off, unreachable, slow or garbage "all look the same".  An
\* explanation is shown only when the sidecar gave one, under the disclaimer;
\* it contradicts a severity the finding had while the request ran only if
\* no sentence of it agreed; every sentence that agrees is there.  Any other
\* end of a request for a stored finding is 200 and unavailable.  Only the
\* explanation is meant: the code shows the list of what to verify unfiltered.
NarrationIsQuiet ==
  /\ answer.available =>
       /\ answer.disclaimer = "canonical"
       /\ req.told # <<>>
       /\ \E f \in req.seen \ {NoFinding} :
            /\ Conflicts(answer.text, f.sev) =>
                 /\ answer.text = req.told
                 /\ \A i \in DOMAIN req.told :
                      req.told[i] \in Conflicting(f.sev)
            /\ \A w \in Words \ Conflicting(f.sev) :
                 (\E i \in DOMAIN req.told : req.told[i] = w) <=>
                 (\E i \in DOMAIN answer.text : answer.text[i] = w)
  /\ req.pc = "done" /\ req.rec # NoFinding =>
       answer.status = 200 /\ (answer.available <=> req.told # <<>>)

\* Every request is answered, whatever the sidecar does and whoever leaves.
EveryRequestAnswered == req.pc = "get" ~> answer # NoAnswer
=============================================================================
