----------------------------- MODULE Dispatcher -----------------------------
(***************************************************************************)
(* notify.Dispatcher: events from the scheduler's OnResult callback are    *)
(* collected for one window, then sent as one digest per module to every   *)
(* channel, by one goroutine per digest and channel, with retries.         *)
(*                                                                         *)
(* Enqueue, Flush and the first half of Close hold the dispatcher's mutex  *)
(* from end to end, so each is one action.  What runs outside the mutex is *)
(* split: the window timer may fire while a flush is in progress, leaving  *)
(* a Flush call waiting for the mutex that nothing can take back; the      *)
(* senders work concurrently; Close waits for them with the mutex free.    *)
(***************************************************************************)
EXTENDS Priority, Integers, Sequences

CONSTANTS
  Offers,        \* the events that callers may offer
  Channels,      \* the configured channels
  MaxBatch,      \* Config.MaxBatch
  Retries,       \* Config.Retries
  MinSeverity,   \* Config.MinSeverity, "" for none
  MaxEvents      \* bound: events accepted over the dispatcher's life

Kind == {"opened", "resolved"}

ASSUME DispatcherAssumption ==
  /\ \A e \in Offers : e.kind \in Kind /\ e.sev \in Severity
  /\ MaxBatch \in Int
  /\ Retries \in Int
  /\ MinSeverity \in Severity \cup {""}
  /\ MaxEvents \in Nat

\* Config.withDefaults.
BatchLimit   == IF MaxBatch <= 0 THEN 100 ELSE MaxBatch
AttemptLimit == IF Retries <= 0 THEN 3 ELSE Retries

(***************************************************************************)
(* An accepted event carries its place in the order of acceptance, which   *)
(* tells apart two events that look the same.  The batch of a window is    *)
(* one sequence: the code keeps one slice per module, which are the        *)
(* module's events of that sequence in order.                              *)
(***************************************************************************)
VARIABLES
  pending,    \* the events of the current window
  seen,       \* the keys of the current window
  timer,      \* "nil", "armed", or "fired" while its Flush waits for mu
  waiting,    \* Flush calls of fired timers that wait for the mutex
  closed,
  closer,     \* Close: "no", "waiting" for the senders, "returned"
  sends,      \* one sender goroutine per digest and channel
  accepted    \* history: number of events accepted

vars == <<pending, seen, timer, waiting, closed, closer, sends, accepted>>

-----------------------------------------------------------------------------

\* Mutant: an opened and a resolved event of a finding collapse.
KeyWithoutKind(e) == <<e.module, e.fp>>

\* The key of Enqueue's deduplication.
KeyOf(e) == <<e.kind, e.module, e.fp>>

passesSeverity(s) ==
  MinSeverity = "" \/ severityRank(s) >= severityRank(MinSeverity)

Events(batch) == {batch[i] : i \in DOMAIN batch}

\* The senders a flush of a batch starts.
NewSends(batch) ==
  {[batch |-> batch, module |-> m, ch |-> c, attempt |-> 0,
    state |-> "sending"] :
     m \in {e.module : e \in Events(batch)}, c \in Channels}

\* Mutant: the window is flushed but the timer is left in place.
flushKeepsTimer(batch) ==
  /\ UNCHANGED timer
  /\ IF batch = <<>>
     THEN UNCHANGED <<pending, seen, sends>>
     ELSE /\ pending' = <<>>
          /\ seen' = {}
          /\ sends' = sends \cup NewSends(batch)

\* Mutant: the dedup window outlives the flush.
flushKeepsSeen(batch) ==
  /\ timer' = "nil"
  /\ IF batch = <<>>
     THEN UNCHANGED <<pending, seen, sends>>
     ELSE /\ pending' = <<>>
          /\ UNCHANGED seen
          /\ sends' = sends \cup NewSends(batch)

\* Mutant: the batch is sent but stays pending.
flushKeepsPending(batch) ==
  /\ timer' = "nil"
  /\ pending' = batch
  /\ IF batch = <<>>
     THEN UNCHANGED <<seen, sends>>
     ELSE /\ seen' = {}
          /\ sends' = sends \cup NewSends(batch)

\* flushLocked: stop the timer (a no-op if it has fired) and, unless nothing
\* is pending, start the senders and a new window.
flushLocked(batch) ==
  /\ timer' = "nil"
  /\ IF batch = <<>>
     THEN UNCHANGED <<pending, seen, sends>>
     ELSE /\ pending' = <<>>
          /\ seen' = {}
          /\ sends' = sends \cup NewSends(batch)

Init ==
  /\ pending = <<>>
  /\ seen = {}
  /\ timer = "nil"
  /\ waiting = 0
  /\ closed = FALSE
  /\ closer = "no"
  /\ sends = {}
  /\ accepted = 0

\* The batch has reached the size at which it is flushed early.
BatchFull(batch) == Len(batch) >= BatchLimit

\* Mutant: Enqueue does not look whether the dispatcher is closed.
AdmitsWhenClosed(e) ==
  /\ e.kind = "opened" => passesSeverity(e.sev)
  /\ KeyOf(e) \notin seen

\* What Enqueue lets in; everything else it drops without effect.
Admits(e) ==
  /\ e.kind = "opened" => passesSeverity(e.sev)
  /\ ~closed
  /\ KeyOf(e) \notin seen

\* Enqueue, for an event it does not drop.
Enqueue(e) ==
  LET ev    == [kind |-> e.kind, module |-> e.module, fp |-> e.fp,
                sev |-> e.sev, ticket |-> accepted + 1]
      batch == Append(pending, ev)
  IN
  /\ accepted < MaxEvents
  /\ Admits(e)
  /\ accepted' = accepted + 1
  /\ IF BatchFull(batch)
     THEN flushLocked(batch)
     ELSE /\ pending' = batch
          /\ seen' = seen \cup {KeyOf(e)}
          /\ timer' = IF timer = "nil" THEN "armed" ELSE timer
          /\ UNCHANGED sends
  /\ UNCHANGED <<waiting, closed, closer>>

\* The window timer fires: its goroutine calls Flush, which blocks on mu.
TimerFires ==
  /\ timer = "armed"
  /\ timer' = "fired"
  /\ waiting' = waiting + 1
  /\ UNCHANGED <<pending, seen, closed, closer, sends, accepted>>

\* Flush, called by a timer's goroutine that now gets the mutex.
Flush ==
  /\ waiting > 0
  /\ waiting' = waiting - 1
  /\ flushLocked(pending)
  /\ UNCHANGED <<closed, closer, accepted>>

\* Close up to its unlock.
Close ==
  /\ closer = "no"
  /\ flushLocked(pending)
  /\ closed' = TRUE
  /\ closer' = "waiting"
  /\ UNCHANGED <<waiting, accepted>>

Sending == {x \in sends : x.state = "sending"}

\* Close after wg.Wait.
CloseReturns ==
  /\ closer = "waiting"
  /\ Sending = {}
  /\ closer' = "returned"
  /\ UNCHANGED <<pending, seen, timer, waiting, closed, sends, accepted>>

Becomes(x, y) == sends' = (sends \ {x}) \cup {y}

\* A sender's Send returns nil.
SendSucceeds(x) ==
  /\ x \in Sending
  /\ Becomes(x, [x EXCEPT !.attempt = 0, !.state = "delivered"])
  /\ UNCHANGED <<pending, seen, timer, waiting, closed, closer, accepted>>

\* Mutant: the attempts of a failing channel are never exhausted.
SendFailsForever(x) ==
  /\ x \in Sending
  /\ Becomes(x, [x EXCEPT !.attempt = (@ + 1) % AttemptLimit])
  /\ UNCHANGED <<pending, seen, timer, waiting, closed, closer, accepted>>

\* A sender's Send returns an error: another attempt, or OnSendError.
SendFails(x) ==
  /\ x \in Sending
  /\ Becomes(x, IF x.attempt + 1 < AttemptLimit
                THEN [x EXCEPT !.attempt = @ + 1]
                ELSE [x EXCEPT !.attempt = 0, !.state = "failed"])
  /\ UNCHANGED <<pending, seen, timer, waiting, closed, closer, accepted>>

SenderStep == \E x \in sends : SendSucceeds(x) \/ SendFails(x)

Next ==
  \/ \E e \in Offers : Enqueue(e)
  \/ TimerFires
  \/ Flush
  \/ Close
  \/ CloseReturns
  \/ SenderStep

Spec == Init /\ [][Next]_vars

(***************************************************************************)
(* Fairness: the runtime fires timers and runs goroutines, the mutex goes  *)
(* to the one that waits, every attempt ends (its context has a timeout of *)
(* 15 s), and a Close whose senders are done returns.  Nothing obliges a   *)
(* caller to enqueue or to close.                                          *)
(***************************************************************************)
Fairness ==
  /\ WF_vars(TimerFires)
  /\ WF_vars(Flush)
  /\ WF_vars(CloseReturns)
  /\ WF_vars(SenderStep)

FairSpec == Spec /\ Fairness

-----------------------------------------------------------------------------
(* Properties *)

Event == [kind : Kind, module : {e.module : e \in Offers},
          fp : {e.fp : e \in Offers}, sev : Severity, ticket : Nat]

Send == [batch : Seq(Event), module : {e.module : e \in Offers},
         ch : Channels, attempt : Nat,
         state : {"sending", "delivered", "failed"}]

Key == Kind \X {e.module : e \in Offers} \X {e.fp : e \in Offers}

TypeOK ==
  /\ pending \in Seq(Event)
  /\ seen \in SUBSET Key
  /\ timer \in {"nil", "armed", "fired"}
  /\ waiting \in Nat
  /\ closed \in BOOLEAN
  /\ closer \in {"no", "waiting", "returned"}
  /\ sends \in SUBSET Send
  /\ accepted \in Nat

\* Between two calls fewer than MaxBatch events are pending (Config.MaxBatch:
\* "flushes early when this many events are pending").
BatchBounded == Len(pending) < BatchLimit

\* No event is left behind in a window: as long as one is pending, a timer is
\* armed or a Flush call is on its way, even after an early flush raced the
\* timer of the window before.
NoEventStranded == pending # <<>> => timer = "armed" \/ waiting > 0

IsPending(k) == \E e \in Events(pending) : e.ticket = k

\* Send x carries the event with ticket k.
Carries(x, k) == \E e \in Events(x.batch) : e.module = x.module /\ e.ticket = k

\* Nothing is lost or doubled inside the dispatcher: every accepted event is
\* either pending or in exactly one digest per channel, never both.
EachEventOnce ==
  \A k \in 1..accepted, c \in Channels :
    LET carriers == {x \in sends : x.ch = c /\ Carries(x, k)}
    IN IF IsPending(k) THEN carriers = {}
                       ELSE \E x \in carriers : carriers = {x}

\* Deduplication is exactly per window: the keys remembered are those of the
\* pending events, each once, so a finding that flaps into the next window
\* is not suppressed by the last one.
DedupIsPerWindow ==
  /\ seen = {KeyOf(e) : e \in Events(pending)}
  /\ \A i, j \in DOMAIN pending :
       KeyOf(pending[i]) = KeyOf(pending[j]) => i = j

\* Close returns only when everything accepted has been sent or reported as
\* failed, and nothing can be pending or in flight afterwards.
CloseDrains ==
  closer = "returned" =>
    /\ pending = <<>> /\ Sending = {}
    /\ \A k \in 1..accepted, c \in Channels :
         \E x \in sends : x.ch = c /\ Carries(x, k)

Settled(k, c) ==
  \E x \in sends : x.ch = c /\ Carries(x, k) /\ x.state # "sending"

\* Every accepted event is eventually delivered to every channel or reported
\* by OnSendError, whether or not anyone enqueues again or closes.
EventuallySettled ==
  \A k \in 1..MaxEvents, c \in Channels : accepted >= k ~> Settled(k, c)

\* Close always returns, even when a channel keeps failing.
CloseCompletes == closer = "waiting" ~> closer = "returned"

-----------------------------------------------------------------------------
(* What the dispatcher implements *)

\* The accepted events that channel c's senders in some state carry.
Tickets(c, state) ==
  {k \in 1..accepted :
     \E x \in sends : x.ch = c /\ x.state = state /\ Carries(x, k)}

Box == INSTANCE Outbox WITH
  delivered <- [c \in Channels |-> Tickets(c, "delivered")],
  failed    <- [c \in Channels |-> Tickets(c, "failed")]

\* The windows, timers, digests and retries are nobody's business: seen from
\* outside, each accepted event is settled once and for good on each channel,
\* nothing is accepted after Close, and Close returns when all is settled.
ImplementsOutbox == Box!Spec
=============================================================================
