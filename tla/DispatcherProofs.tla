-------------------------- MODULE DispatcherProofs --------------------------
(***************************************************************************)
(* For every set of offers, channels and configuration: the safety         *)
(* invariants of the dispatcher.                                           *)
(***************************************************************************)
EXTENDS Dispatcher, TLAPS

\* A pending event is covered by a timer that is armed, or has fired and
\* whose Flush call still waits.  NoEventStranded is the conclusion.
TimerInv ==
  /\ pending # <<>> => timer # "nil"
  /\ timer = "fired" => waiting > 0

\* Tickets are the numbers given out so far and identify a pending event.
TicketInv ==
  /\ \A e \in Events(pending) : e.ticket \in 1..accepted
  /\ \A e, g \in Events(pending) : e.ticket = g.ticket => e = g
  /\ \A x \in sends : \A e \in Events(x.batch) : e.ticket \in 1..accepted

\* EachEventOnce, spelt out for one step of reasoning at a time.
PlaceInv ==
  /\ \A k \in 1..accepted : IsPending(k) => \A x \in sends : ~Carries(x, k)
  /\ \A k \in 1..accepted, c \in Channels :
       ~IsPending(k) => \E x \in sends : x.ch = c /\ Carries(x, k)
  /\ \A x, y \in sends : \A k \in 1..accepted :
       x.ch = y.ch /\ Carries(x, k) /\ Carries(y, k) => x = y

\* Once Close has let go of the mutex nothing is pending, and once it has
\* returned nothing is being sent.
CloseInv ==
  /\ closed <=> closer # "no"
  /\ closed => pending = <<>>
  /\ closer = "returned" => Sending = {}

IInv == TypeOK /\ BatchBounded /\ DedupIsPerWindow
        /\ TimerInv /\ TicketInv /\ PlaceInv /\ CloseInv

-----------------------------------------------------------------------------

LEMMA LimitsPositive == BatchLimit \in Nat \ {0} /\ AttemptLimit \in Nat \ {0}
<1>1. MaxBatch \in Int /\ Retries \in Int
  BY DispatcherAssumption
<1> QED BY <1>1 DEF BatchLimit, AttemptLimit

LEMMA EventsOfAppend ==
  ASSUME NEW S, NEW q \in Seq(S), NEW e
  PROVE  Events(Append(q, e)) = Events(q) \cup {e}
<1>1. Len(q) \in Nat /\ DOMAIN q = 1..Len(q)
  OBVIOUS
<1>2. /\ DOMAIN Append(q, e) = 1..(Len(q) + 1)
      /\ Append(q, e)[Len(q) + 1] = e
      /\ \A i \in 1..Len(q) : Append(q, e)[i] = q[i]
  OBVIOUS
<1>3. 1..(Len(q) + 1) = 1..Len(q) \cup {Len(q) + 1}
  BY <1>1
<1> QED BY <1>1, <1>2, <1>3 DEF Events

LEMMA EventsOfEmpty == Events(<<>>) = {}
BY DEF Events

LEMMA InitInv == Init => IInv
<1> SUFFICES ASSUME Init PROVE IInv
  OBVIOUS
<1> USE EventsOfEmpty DEF Init
<1>1. TypeOK
  <2>1. pending \in Seq(Event) /\ seen \in SUBSET Key /\ sends \in SUBSET Send
    OBVIOUS
  <2>2. timer \in {"nil", "armed", "fired"} /\ closed \in BOOLEAN
        /\ closer \in {"no", "waiting", "returned"}
    OBVIOUS
  <2>3. waiting \in Nat /\ accepted \in Nat
    OBVIOUS
  <2> QED BY <2>1, <2>2, <2>3 DEF TypeOK
<1>2. BatchBounded
  BY LimitsPositive DEF BatchBounded
<1>3. DedupIsPerWindow
  BY DEF DedupIsPerWindow
<1>4. TimerInv /\ TicketInv /\ CloseInv
  BY DEF TimerInv, TicketInv, CloseInv, Sending
<1>5. PlaceInv
  BY DEF PlaceInv
<1> QED BY <1>1, <1>2, <1>3, <1>4, <1>5 DEF IInv

\* What is true of a batch that is about to be pending or flushed: the events
\* are typed, have distinct tickets up to n, and no sender carries them.
GoodBatch(batch, n) ==
  /\ batch \in Seq(Event)
  /\ \A e \in Events(batch) : e.ticket \in 1..n
  /\ \A e, g \in Events(batch) : e.ticket = g.ticket => e = g
  /\ \A e \in Events(batch) : \A x \in sends : ~Carries(x, e.ticket)
  /\ \A k \in 1..n, c \in Channels :
       \/ \E e \in Events(batch) : e.ticket = k
       \/ \E x \in sends : x.ch = c /\ Carries(x, k)

\* The senders a flush adds: each event of the batch reaches each channel in
\* the digest of its module, and in no other.
LEMMA FlushPlaces ==
  ASSUME NEW batch, NEW n \in Nat, GoodBatch(batch, n),
         sends \in SUBSET Send,
         \A x \in sends : \A e \in Events(x.batch) : e.ticket \in 1..n,
         \A x, y \in sends : \A k \in 1..n :
           x.ch = y.ch /\ Carries(x, k) /\ Carries(y, k) => x = y
  PROVE  LET all == sends \cup NewSends(batch)
         IN /\ all \in SUBSET Send
            /\ \A x \in all : \A e \in Events(x.batch) : e.ticket \in 1..n
            /\ \A k \in 1..n, c \in Channels :
                 \E x \in all : x.ch = c /\ Carries(x, k)
            /\ \A x, y \in all : \A k \in 1..n :
                 x.ch = y.ch /\ Carries(x, k) /\ Carries(y, k) => x = y
<1> DEFINE all == sends \cup NewSends(batch)
<1>1. NewSends(batch) \in SUBSET Send
  <2> SUFFICES ASSUME NEW e \in Events(batch), NEW c \in Channels
               PROVE [batch |-> batch, module |-> e.module, ch |-> c,
                      attempt |-> 0, state |-> "sending"] \in Send
    BY DEF NewSends
  <2>1. e \in Event /\ batch \in Seq(Event)
    BY DEF Events, GoodBatch
  <2> QED BY <2>1 DEF Event, Send
<1>2. ASSUME NEW x \in NewSends(batch)
      PROVE  /\ x.batch = batch /\ x.ch \in Channels
             /\ x = [batch |-> batch, module |-> x.module, ch |-> x.ch,
                     attempt |-> 0, state |-> "sending"]
             /\ \A k : Carries(x, k) <=>
                  \E e \in Events(batch) : e.module = x.module /\ e.ticket = k
  BY DEF NewSends, Carries
<1>3. \A x \in all : \A e \in Events(x.batch) : e.ticket \in 1..n
  BY <1>2 DEF GoodBatch
<1>4. ASSUME NEW k \in 1..n, NEW c \in Channels
      PROVE  \E x \in all : x.ch = c /\ Carries(x, k)
  <2>1. CASE \E x \in sends : x.ch = c /\ Carries(x, k)
    BY <2>1
  <2>2. CASE \E e \in Events(batch) : e.ticket = k
    <3> PICK e \in Events(batch) : e.ticket = k
      BY <2>2
    <3> DEFINE x == [batch |-> batch, module |-> e.module, ch |-> c,
                     attempt |-> 0, state |-> "sending"]
    <3>1. x \in NewSends(batch)
      BY DEF NewSends
    <3>2. x.ch = c /\ Carries(x, k)
      BY DEF Carries
    <3> QED BY <3>1, <3>2
  <2> QED BY <2>1, <2>2 DEF GoodBatch
<1>5. ASSUME NEW x \in all, NEW y \in all, NEW k \in 1..n,
             x.ch = y.ch, Carries(x, k), Carries(y, k)
      PROVE  x = y
  <2>1. CASE x \in sends /\ y \in sends
    BY <1>5, <2>1
  <2>2. CASE x \in NewSends(batch) /\ y \in NewSends(batch)
    <3>1. PICK e \in Events(batch) : e.module = x.module /\ e.ticket = k
      BY <1>2, <1>5, <2>2
    <3>2. PICK g \in Events(batch) : g.module = y.module /\ g.ticket = k
      BY <1>2, <1>5, <2>2
    <3>3. x.module = y.module
      BY <3>1, <3>2 DEF GoodBatch
    <3> QED BY <1>2, <1>5, <2>2, <3>3
  <2>3. CASE x \in sends /\ y \in NewSends(batch)
    BY <1>2, <1>5, <2>3 DEF GoodBatch
  <2>4. CASE x \in NewSends(batch) /\ y \in sends
    BY <1>2, <1>5, <2>4 DEF GoodBatch
  <2> QED BY <2>1, <2>2, <2>3, <2>4
<1> QED BY <1>1, <1>3, <1>4, <1>5

\* flushLocked empties the window and leaves every event with its senders.
LEMMA FlushStep ==
  ASSUME IInv, NEW batch, NEW n \in Nat, GoodBatch(batch, n),
         \A x \in sends : \A e \in Events(x.batch) : e.ticket \in 1..n,
         \A x, y \in sends : \A k \in 1..n :
           x.ch = y.ch /\ Carries(x, k) /\ Carries(y, k) => x = y,
         batch = <<>> => pending = <<>>,
         flushLocked(batch), accepted' = n
  PROVE  /\ pending' = <<>> /\ seen' = {} /\ timer' = "nil"
         /\ sends' \in SUBSET Send
         /\ DedupIsPerWindow' /\ BatchBounded' /\ TicketInv' /\ PlaceInv'
<1>1. pending' = <<>> /\ seen' = {} /\ timer' = "nil"
  <2>1. CASE batch = <<>>
    BY <2>1, EventsOfEmpty DEF flushLocked, IInv, DedupIsPerWindow
  <2>2. CASE batch # <<>>
    BY <2>2 DEF flushLocked
  <2> QED BY <2>1, <2>2
<1>2. sends' = sends \cup NewSends(batch)
  <2>1. NewSends(<<>>) = {}
    BY EventsOfEmpty DEF NewSends
  <2> QED BY <2>1 DEF flushLocked
<1>3. /\ sends' \in SUBSET Send
      /\ \A x \in sends' : \A e \in Events(x.batch) : e.ticket \in 1..n
      /\ \A k \in 1..n, c \in Channels :
           \E x \in sends' : x.ch = c /\ Carries(x, k)
      /\ \A x, y \in sends' : \A k \in 1..n :
           x.ch = y.ch /\ Carries(x, k) /\ Carries(y, k) => x = y
  <2>1. sends \in SUBSET Send
    BY DEF IInv, TypeOK
  <2> HIDE DEF Carries
  <2> QED BY <1>2, <2>1, FlushPlaces
<1>4. Events(pending') = {}
  BY <1>1, EventsOfEmpty
<1>5. BatchBounded'
  BY <1>1, LimitsPositive DEF BatchBounded
<1>6. DedupIsPerWindow'
  BY <1>1, <1>4 DEF DedupIsPerWindow
<1>7. TicketInv'
  BY <1>3, <1>4 DEF TicketInv
<1>8. PlaceInv'
  BY <1>3, <1>4 DEF PlaceInv, IsPending
<1> QED BY <1>1, <1>3, <1>5, <1>6, <1>7, <1>8

\* The window as it stands is a good batch.
LEMMA PendingGood == IInv => GoodBatch(pending, accepted)
<1> SUFFICES ASSUME IInv PROVE GoodBatch(pending, accepted)
  OBVIOUS
<1>1. pending \in Seq(Event)
  BY DEF IInv, TypeOK
<1> QED BY <1>1 DEF IInv, TicketInv, PlaceInv, GoodBatch, IsPending

LEMMA EnqueueInv ==
  ASSUME IInv, NEW e \in Offers, Enqueue(e)
  PROVE  IInv'
<1> DEFINE n == accepted + 1
           ev == [kind |-> e.kind, module |-> e.module, fp |-> e.fp,
                  sev |-> e.sev, ticket |-> n]
           batch == Append(pending, ev)
<1>0. /\ accepted \in Nat /\ n \in Nat /\ accepted' = n
      /\ 1..n = 1..accepted \cup {n} /\ n \notin 1..accepted
      /\ pending \in Seq(Event) /\ sends \in SUBSET Send
  BY DEF IInv, TypeOK, Enqueue
<1>1. ev \in Event
  BY <1>0, DispatcherAssumption DEF Event
<1>2. batch \in Seq(Event) /\ Events(batch) = Events(pending) \cup {ev}
  BY <1>0, <1>1, EventsOfAppend
<1>3. ~closed /\ pending' \in {<<>>, batch} /\ KeyOf(e) \notin seen
      /\ UNCHANGED <<waiting, closed, closer>>
  BY <1>2 DEF Enqueue, Admits, flushLocked
<1>4. \A x \in sends : ~Carries(x, n)
  BY <1>0 DEF IInv, TicketInv, Carries
<1>5. /\ \A x \in sends : \A g \in Events(x.batch) : g.ticket \in 1..n
      /\ \A x, y \in sends : \A k \in 1..n :
           x.ch = y.ch /\ Carries(x, k) /\ Carries(y, k) => x = y
  <2>1. \A x \in sends : \A g \in Events(x.batch) : g.ticket \in 1..n
    BY <1>0 DEF IInv, TicketInv
  <2>2. ASSUME NEW x \in sends, NEW y \in sends, NEW k \in 1..n,
               x.ch = y.ch, Carries(x, k), Carries(y, k)
        PROVE  x = y
    BY <1>0, <1>4, <2>2 DEF IInv, PlaceInv
  <2> QED BY <2>1, <2>2
<1>6. GoodBatch(batch, n)
  <2>1. \A g \in Events(batch) : g.ticket \in 1..n
    BY <1>0, <1>2 DEF IInv, TicketInv
  <2>2. \A g, h \in Events(batch) : g.ticket = h.ticket => g = h
    BY <1>0, <1>2 DEF IInv, TicketInv
  <2>3. \A g \in Events(batch) : \A x \in sends : ~Carries(x, g.ticket)
    <3>1. \A g \in Events(pending) : \A x \in sends : ~Carries(x, g.ticket)
      BY PendingGood DEF GoodBatch
    <3> QED BY <1>2, <1>4, <3>1
  <2>4. ASSUME NEW k \in 1..n, NEW c \in Channels
        PROVE  \/ \E g \in Events(batch) : g.ticket = k
               \/ \E x \in sends : x.ch = c /\ Carries(x, k)
    <3>1. CASE k = n
      BY <1>2, <3>1
    <3>2. CASE k \in 1..accepted
      BY <1>2, <3>2, PendingGood DEF GoodBatch
    <3> QED BY <1>0, <3>1, <3>2
  <2> QED BY <1>2, <2>1, <2>2, <2>3, <2>4 DEF GoodBatch
<1>7. batch # <<>>
  BY <1>0
<1>8. CASE BatchFull(batch)
  <2>1. flushLocked(batch)
    BY <1>8 DEF Enqueue
  <2>2. /\ pending' = <<>> /\ seen' = {} /\ timer' = "nil"
        /\ sends' \in SUBSET Send
        /\ DedupIsPerWindow' /\ BatchBounded' /\ TicketInv' /\ PlaceInv'
    BY <1>0, <1>5, <1>6, <1>7, <2>1, FlushStep
  <2>3. TypeOK'
    BY <1>0, <1>3, <2>2 DEF IInv, TypeOK
  <2>4. TimerInv' /\ CloseInv'
    BY <1>3, <2>2 DEF TimerInv, CloseInv, IInv
  <2> QED BY <2>2, <2>3, <2>4 DEF IInv
<1>9. CASE ~BatchFull(batch)
  <2>1. /\ pending' = batch /\ seen' = seen \cup {KeyOf(e)}
        /\ timer' = IF timer = "nil" THEN "armed" ELSE timer
        /\ sends' = sends
    BY <1>9 DEF Enqueue
  <2>2. KeyOf(e) \in Key /\ KeyOf(ev) = KeyOf(e)
    BY DispatcherAssumption DEF KeyOf, Key
  <2>3. TypeOK'
    <3>1. seen' \in SUBSET Key
      BY <2>1, <2>2 DEF IInv, TypeOK
    <3> QED BY <1>0, <1>2, <1>3, <2>1, <3>1 DEF IInv, TypeOK
  <2>4. BatchBounded'
    BY <1>0, <1>9, <2>1, LimitsPositive DEF BatchFull, BatchBounded
  <2>5. DedupIsPerWindow'
    <3>1. seen = {KeyOf(g) : g \in Events(pending)}
      BY DEF IInv, DedupIsPerWindow
    <3>2. seen' = {KeyOf(g) : g \in Events(batch)}
      BY <1>2, <2>1, <2>2, <3>1
    <3>3. \A i \in DOMAIN pending : KeyOf(pending[i]) # KeyOf(ev)
      BY <1>3, <2>2, <3>1 DEF Events
    <3>4. /\ DOMAIN pending = 1..Len(pending) /\ Len(pending) \in Nat
          /\ DOMAIN batch = 1..(Len(pending) + 1)
          /\ batch[Len(pending) + 1] = ev
          /\ \A i \in 1..Len(pending) : batch[i] = pending[i]
      BY <1>0
    <3>5. ASSUME NEW i \in DOMAIN batch, NEW j \in DOMAIN batch,
                 KeyOf(batch[i]) = KeyOf(batch[j])
          PROVE  i = j
      <4> HIDE DEF batch, ev
      <4>1. CASE i \in DOMAIN pending /\ j \in DOMAIN pending
        BY <3>4, <3>5, <4>1 DEF IInv, DedupIsPerWindow
      <4>2. CASE i = Len(pending) + 1 /\ j = Len(pending) + 1
        BY <4>2
      <4>3. CASE i \in DOMAIN pending /\ j = Len(pending) + 1
        BY <3>3, <3>4, <3>5, <4>3
      <4>4. CASE i = Len(pending) + 1 /\ j \in DOMAIN pending
        BY <3>3, <3>4, <3>5, <4>4
      <4> QED BY <3>4, <4>1, <4>2, <4>3, <4>4
    <3> HIDE DEF batch
    <3> QED BY <2>1, <3>2, <3>5 DEF DedupIsPerWindow
  <2>6. TimerInv'
    BY <1>3, <2>1 DEF IInv, TypeOK, TimerInv
  <2>7. TicketInv'
    BY <1>0, <1>5, <1>6, <2>1 DEF GoodBatch, TicketInv
  <2>8. PlaceInv'
    <3> HIDE DEF batch, n
    <3>1. \A k \in 1..n : IsPending(k)' <=> \E g \in Events(batch) : g.ticket = k
      BY <2>1 DEF IsPending
    <3>2. \A x \in sends, k \in 1..n : Carries(x, k)' <=> Carries(x, k)
      BY DEF Carries
    <3>3. \A k \in 1..n : IsPending(k)' => \A x \in sends : ~Carries(x, k)
      BY <1>6, <3>1 DEF GoodBatch
    <3>4. \A k \in 1..n, c \in Channels :
            ~IsPending(k)' => \E x \in sends : x.ch = c /\ Carries(x, k)
      BY <1>6, <3>1 DEF GoodBatch
    <3> QED BY <1>0, <1>5, <2>1, <3>2, <3>3, <3>4 DEF PlaceInv, Carries
  <2>9. CloseInv'
    BY <1>3, <2>1 DEF IInv, CloseInv, Sending
  <2> QED BY <2>3, <2>4, <2>5, <2>6, <2>7, <2>8, <2>9 DEF IInv
<1> QED BY <1>8, <1>9

\* Flush and Close, the two flushes of the window as it stands.
LEMMA FlushInv ==
  ASSUME IInv, Flush \/ Close
  PROVE  IInv'
<1>1. flushLocked(pending) /\ accepted' = accepted /\ accepted \in Nat
  BY DEF Flush, Close, IInv, TypeOK
<1>2. /\ \A x \in sends : \A e \in Events(x.batch) : e.ticket \in 1..accepted
      /\ \A x, y \in sends : \A k \in 1..accepted :
           x.ch = y.ch /\ Carries(x, k) /\ Carries(y, k) => x = y
  BY DEF IInv, TicketInv, PlaceInv
<1>3. /\ pending' = <<>> /\ seen' = {} /\ timer' = "nil"
      /\ sends' \in SUBSET Send
      /\ DedupIsPerWindow' /\ BatchBounded' /\ TicketInv' /\ PlaceInv'
  <2> HIDE DEF Carries
  <2> QED BY <1>1, <1>2, PendingGood, FlushStep
<1>4. waiting' \in Nat
  BY DEF Flush, Close, IInv, TypeOK
<1>5. TimerInv'
  BY <1>3 DEF TimerInv
<1>6. CASE Flush
  <2>1. UNCHANGED <<closed, closer>>
    BY <1>6 DEF Flush
  <2>2. closer = "returned" => sends' = sends
    BY <1>1 DEF IInv, CloseInv, flushLocked
  <2>3. CloseInv'
    BY <1>3, <2>1, <2>2 DEF IInv, CloseInv, Sending
  <2>4. TypeOK'
    BY <1>1, <1>3, <1>4, <2>1 DEF IInv, TypeOK
  <2> QED BY <1>3, <1>5, <2>3, <2>4 DEF IInv
<1>7. CASE Close
  <2>1. closed' = TRUE /\ closer' = "waiting"
    BY <1>7 DEF Close
  <2>2. CloseInv'
    BY <1>3, <2>1 DEF CloseInv
  <2>3. TypeOK'
    BY <1>1, <1>3, <1>4, <2>1 DEF IInv, TypeOK
  <2> QED BY <1>3, <1>5, <2>2, <2>3 DEF IInv
<1> QED BY <1>6, <1>7

\* A sender's attempt changes its state and not what it carries.
LEMMA SenderBecomes ==
  ASSUME NEW x \in Send, SendSucceeds(x) \/ SendFails(x)
  PROVE  \E y \in Send : /\ y.batch = x.batch /\ y.module = x.module
                        /\ y.ch = x.ch
                        /\ sends' = (sends \ {x}) \cup {y}
<1>1. CASE SendSucceeds(x)
  <2> DEFINE y == [x EXCEPT !.attempt = 0, !.state = "delivered"]
  <2>1. y \in Send /\ y.batch = x.batch /\ y.module = x.module /\ y.ch = x.ch
    BY DEF Send
  <2> QED BY <1>1, <2>1 DEF SendSucceeds, Becomes
<1>2. CASE SendFails(x) /\ x.attempt + 1 < AttemptLimit
  <2> DEFINE y == [x EXCEPT !.attempt = @ + 1]
  <2>1. y \in Send /\ y.batch = x.batch /\ y.module = x.module /\ y.ch = x.ch
    BY DEF Send
  <2> QED BY <1>2, <2>1 DEF SendFails, Becomes
<1>3. CASE SendFails(x) /\ ~(x.attempt + 1 < AttemptLimit)
  <2> DEFINE y == [x EXCEPT !.attempt = 0, !.state = "failed"]
  <2>1. y \in Send /\ y.batch = x.batch /\ y.module = x.module /\ y.ch = x.ch
    BY DEF Send
  <2> QED BY <1>3, <2>1 DEF SendFails, Becomes
<1> QED BY <1>1, <1>2, <1>3

\* Hence it moves no event and closes nothing.
LEMMA SenderInv ==
  ASSUME IInv, NEW x \in sends, SendSucceeds(x) \/ SendFails(x)
  PROVE  IInv'
<1>1. PICK y \in Send : /\ y.batch = x.batch /\ y.module = x.module
                        /\ y.ch = x.ch
                        /\ sends' = (sends \ {x}) \cup {y}
  BY SenderBecomes DEF IInv, TypeOK
<1>2. x.state = "sending"
      /\ UNCHANGED <<pending, seen, timer, waiting, closed, closer, accepted>>
  BY DEF SendSucceeds, SendFails, Sending
<1>3. TypeOK'
  BY <1>1, <1>2 DEF IInv, TypeOK
<1>4. \A k : Carries(y, k) <=> Carries(x, k)
  BY <1>1 DEF Carries
<1>5. TicketInv'
  BY <1>1, <1>2 DEF IInv, TicketInv
<1>6. PlaceInv'
  <2>1. \A k : IsPending(k)' <=> IsPending(k)
    BY <1>2 DEF IsPending
  <2>2. \A k \in 1..accepted : IsPending(k) => \A z \in sends' : ~Carries(z, k)
    <3> HIDE DEF Carries
    <3> QED BY <1>1, <1>4 DEF IInv, PlaceInv
  <2>3. ASSUME NEW k \in 1..accepted, NEW c \in Channels, ~IsPending(k)
        PROVE  \E z \in sends' : z.ch = c /\ Carries(z, k)
    <3>1. PICK z \in sends : z.ch = c /\ Carries(z, k)
      BY <2>3 DEF IInv, PlaceInv
    <3>2. CASE z = x
      BY <1>1, <1>4, <3>1, <3>2
    <3>3. CASE z # x
      BY <1>1, <3>1, <3>3
    <3> QED BY <3>2, <3>3
  <2>4. ASSUME NEW z \in sends', NEW w \in sends', NEW k \in 1..accepted,
               z.ch = w.ch, Carries(z, k), Carries(w, k)
        PROVE  z = w
    <3>1. \A u, v \in sends : u.ch = v.ch /\ Carries(u, k) /\ Carries(v, k)
            => u = v
      BY DEF IInv, PlaceInv
    <3>2. CASE z = y /\ w = y
      BY <3>2
    <3>3. CASE z = y /\ w \in sends \ {x}
      BY <1>1, <1>4, <2>4, <3>1, <3>3
    <3>4. CASE z \in sends \ {x} /\ w = y
      BY <1>1, <1>4, <2>4, <3>1, <3>4
    <3>5. CASE z \in sends \ {x} /\ w \in sends \ {x}
      BY <2>4, <3>1, <3>5
    <3> QED BY <1>1, <3>2, <3>3, <3>4, <3>5
  <2> QED BY <1>2, <2>1, <2>2, <2>3, <2>4 DEF PlaceInv, Carries
<1>7. CloseInv'
  <2>1. closer # "returned"
    BY <1>2 DEF IInv, CloseInv, Sending
  <2> QED BY <1>2, <2>1 DEF IInv, CloseInv
<1>8. BatchBounded' /\ DedupIsPerWindow' /\ TimerInv'
  BY <1>2 DEF IInv, BatchBounded, DedupIsPerWindow, TimerInv
<1> QED BY <1>3, <1>5, <1>6, <1>7, <1>8 DEF IInv

\* The two steps that only move the timer or the closer.
LEMMA TimerFiresInv ==
  ASSUME IInv, TimerFires
  PROVE  IInv'
<1> USE DEF IInv, TimerFires
<1>1. TypeOK' /\ TimerInv' /\ CloseInv' /\ BatchBounded' /\ DedupIsPerWindow'
  BY DEF TypeOK, TimerInv, CloseInv, Sending, BatchBounded, DedupIsPerWindow
<1>2. TicketInv' /\ PlaceInv'
  BY DEF TicketInv, PlaceInv, IsPending, Carries
<1> QED BY <1>1, <1>2

LEMMA CloseReturnsInv ==
  ASSUME IInv, CloseReturns
  PROVE  IInv'
<1> USE DEF IInv, CloseReturns
<1>1. TypeOK' /\ TimerInv' /\ CloseInv' /\ BatchBounded' /\ DedupIsPerWindow'
  BY DEF TypeOK, TimerInv, CloseInv, Sending, BatchBounded, DedupIsPerWindow
<1>2. TicketInv' /\ PlaceInv'
  BY DEF TicketInv, PlaceInv, IsPending, Carries
<1> QED BY <1>1, <1>2

LEMMA StutterInv ==
  ASSUME IInv, UNCHANGED vars
  PROVE  IInv'
<1> USE DEF IInv, vars
<1>1. TypeOK' /\ TimerInv' /\ CloseInv' /\ BatchBounded' /\ DedupIsPerWindow'
  BY DEF TypeOK, TimerInv, CloseInv, Sending, BatchBounded, DedupIsPerWindow
<1>2. TicketInv' /\ PlaceInv'
  BY DEF TicketInv, PlaceInv, IsPending, Carries
<1> QED BY <1>1, <1>2

LEMMA StepInv ==
  ASSUME IInv, [Next]_vars
  PROVE  IInv'
BY EnqueueInv, FlushInv, SenderInv, TimerFiresInv, CloseReturnsInv, StutterInv
   DEF Next, SenderStep

LEMMA Invariance == Spec => []IInv
<1>1. IInv /\ [Next]_vars => IInv'
  BY StepInv
<1> QED BY InitInv, <1>1, PTL DEF Spec

\* Once Close has returned every accepted event is settled on every channel:
\* nothing is pending, and no sender is left that carries it unsettled.
LEMMA ReturnedSettled ==
  ASSUME IInv, closer = "returned"
  PROVE  \A k \in 1..accepted, c \in Channels : Settled(k, c)
<1>1. pending = <<>> /\ Sending = {}
  BY DEF IInv, CloseInv
<1>2. \A k : ~IsPending(k)
  BY <1>1, EventsOfEmpty DEF IsPending
<1>3. ASSUME NEW k \in 1..accepted, NEW c \in Channels
      PROVE  Settled(k, c)
  <2>1. PICK x \in sends : x.ch = c /\ Carries(x, k)
    BY <1>2 DEF IInv, PlaceInv
  <2>2. x.state # "sending"
    BY <1>1 DEF Sending
  <2> QED BY <2>1, <2>2 DEF Settled
<1> QED BY <1>3

-----------------------------------------------------------------------------

\* The dispatcher's variables keep their types.
THEOREM TypeCorrect == Spec => []TypeOK
BY Invariance, PTL DEF IInv

\* Enqueue flushes in time: fewer than MaxBatch events are ever left pending,
\* whatever MaxBatch the configuration gives.
THEOREM BatchesBounded == Spec => []BatchBounded
BY Invariance, PTL DEF IInv

\* The dedup keys are those of the pending events, whichever flush ended the
\* last window.
THEOREM WindowsIndependent == Spec => []DedupIsPerWindow
BY Invariance, PTL DEF IInv

\* No interleaving of Enqueue, timer, Flush and Close leaves an event pending
\* with no timer and no Flush on its way.
THEOREM NothingStranded == Spec => []NoEventStranded
<1>1. IInv => NoEventStranded
  BY DEF IInv, TypeOK, TimerInv, NoEventStranded
<1> QED BY Invariance, <1>1, PTL

\* Every accepted event is pending or in exactly one digest per channel.
THEOREM NothingLostOrDoubled == Spec => []EachEventOnce
<1>1. IInv => EachEventOnce
  BY DEF IInv, PlaceInv, EachEventOnce
<1> QED BY Invariance, <1>1, PTL

\* When Close returns, every accepted event has been handed to every channel
\* and no sender is left.
THEOREM CloseIsComplete == Spec => []CloseDrains
<1>1. IInv => CloseDrains
  <2> SUFFICES ASSUME IInv, closer = "returned"
               PROVE  /\ pending = <<>> /\ Sending = {}
                      /\ \A k \in 1..accepted, c \in Channels :
                           \E x \in sends : x.ch = c /\ Carries(x, k)
    BY DEF CloseDrains
  <2>1. pending = <<>> /\ Sending = {}
    BY DEF IInv, CloseInv
  <2>2. \A k : ~IsPending(k)
    BY <2>1, EventsOfEmpty DEF IsPending
  <2> QED BY <2>1, <2>2 DEF IInv, PlaceInv
<1> QED BY Invariance, <1>1, PTL

-----------------------------------------------------------------------------
(* The refinement of Outbox *)

\* A flush starts senders that have settled nothing: what is delivered and
\* what is given up stays as it is, whatever is accepted in the same step.
LEMMA FlushSettlesNothing ==
  ASSUME IInv, accepted' \in {accepted, accepted + 1},
         NEW batch, sends' \in {sends, sends \cup NewSends(batch)},
         NEW c \in Channels, NEW state \in {"delivered", "failed"}
  PROVE  Tickets(c, state)' = Tickets(c, state)
<1>1. accepted \in Nat /\ accepted' \in Nat /\ 1..accepted \subseteq 1..accepted'
  BY DEF IInv, TypeOK
<1>2. \A x \in sends : \A k : Carries(x, k) => k \in 1..accepted
  BY DEF IInv, TicketInv, Carries
<1>3. \A x \in NewSends(batch) : x.state = "sending"
  BY DEF NewSends
<1>4. \A x \in sends' : x.state = state => x \in sends
  BY <1>3
<1>5. sends \subseteq sends'
  OBVIOUS
<1>6. Tickets(c, state)' = {k \in 1..accepted' :
        \E x \in sends' : x.ch = c /\ x.state = state /\ Carries(x, k)}
  BY DEF Tickets, Carries
<1> HIDE DEF Carries
<1> QED BY <1>1, <1>2, <1>4, <1>5, <1>6 DEF Tickets

\* A step that settles nothing on any channel leaves both functions alone.
LEMMA SettledUnchanged ==
  ASSUME \A c \in Channels : \A state \in {"delivered", "failed"} :
           Tickets(c, state)' = Tickets(c, state)
  PROVE  /\ [c \in Channels |-> Tickets(c, "delivered")]'
              = [c \in Channels |-> Tickets(c, "delivered")]
         /\ [c \in Channels |-> Tickets(c, "failed")]'
              = [c \in Channels |-> Tickets(c, "failed")]
OBVIOUS

LEMMA EnqueueAccepts ==
  ASSUME IInv, NEW e \in Offers, Enqueue(e)
  PROVE  Box!Accept
<1>1. PICK batch : sends' \in {sends, sends \cup NewSends(batch)}
  BY DEF Enqueue, flushLocked
<1>2. accepted' = accepted + 1 /\ closer' = closer /\ ~closed
  BY DEF Enqueue, Admits
<1>3. \A c \in Channels : \A state \in {"delivered", "failed"} :
        Tickets(c, state)' = Tickets(c, state)
  BY <1>1, <1>2, FlushSettlesNothing
<1>4. closer = "no"
  BY <1>2 DEF IInv, TypeOK, CloseInv
<1> QED BY <1>2, <1>3, <1>4, SettledUnchanged DEF Box!Accept

LEMMA FlushStutters ==
  ASSUME IInv, Flush
  PROVE  UNCHANGED Box!vars
<1>1. sends' \in {sends, sends \cup NewSends(pending)}
  BY DEF Flush, flushLocked
<1>2. accepted' = accepted /\ closer' = closer
  BY DEF Flush
<1>3. \A c \in Channels : \A state \in {"delivered", "failed"} :
        Tickets(c, state)' = Tickets(c, state)
  BY <1>1, <1>2, FlushSettlesNothing
<1> QED BY <1>2, <1>3, SettledUnchanged DEF Box!vars

LEMMA CloseCloses ==
  ASSUME IInv, Close
  PROVE  Box!Close
<1>1. sends' \in {sends, sends \cup NewSends(pending)}
  BY DEF Close, flushLocked
<1>2. accepted' = accepted /\ closer = "no" /\ closer' = "waiting"
  BY DEF Close
<1>3. \A c \in Channels : \A state \in {"delivered", "failed"} :
        Tickets(c, state)' = Tickets(c, state)
  BY <1>1, <1>2, FlushSettlesNothing
<1> QED BY <1>2, <1>3, SettledUnchanged DEF Box!Close

\* Close returns to an outbox in which everything is settled: what is not
\* pending is carried on every channel, by senders that are done.
LEMMA CloseReturnsSettled ==
  ASSUME IInv, CloseReturns
  PROVE  Box!CloseReturns
<1>1. /\ closer = "waiting" /\ Sending = {} /\ closer' = "returned"
      /\ UNCHANGED <<sends, accepted>>
  BY DEF CloseReturns
<1>2. \A k : ~IsPending(k)
  BY <1>1, EventsOfEmpty DEF IInv, TypeOK, CloseInv, IsPending
<1>3. ASSUME NEW c \in Channels, NEW k \in 1..accepted
      PROVE  k \in Tickets(c, "delivered") \cup Tickets(c, "failed")
  <2>1. PICK x \in sends : x.ch = c /\ Carries(x, k)
    BY <1>2 DEF IInv, PlaceInv
  <2>2. x.state \in {"delivered", "failed"}
    BY <1>1, <2>1 DEF IInv, TypeOK, Send, Sending
  <2> QED BY <2>1, <2>2 DEF Tickets
<1>4. \A c \in Channels : \A state \in {"delivered", "failed"} :
        Tickets(c, state)' = Tickets(c, state)
  BY <1>1 DEF Tickets, Carries
<1>5. \A c \in Channels : Box!Unsettled(c) = {}
  BY <1>3 DEF Box!Unsettled
<1> QED BY <1>1, <1>4, <1>5, SettledUnchanged DEF Box!CloseReturns

\* A sender that changes its state takes its events with it and no others.
LEMMA SettlesItsOwn ==
  ASSUME IInv, NEW x \in sends, x.state = "sending", NEW y,
         y.batch = x.batch, y.module = x.module, y.ch = x.ch,
         sends' = (sends \ {x}) \cup {y}, accepted' = accepted,
         NEW c \in Channels, NEW state \in {"delivered", "failed"}
  PROVE  Tickets(c, state)' =
           Tickets(c, state) \cup
           {k \in 1..accepted : c = x.ch /\ y.state = state /\ Carries(x, k)}
<1>1. \A k : Carries(y, k) <=> Carries(x, k)
  BY DEF Carries
<1>2. Tickets(c, state)' = {k \in 1..accepted :
        \E z \in sends' : z.ch = c /\ z.state = state /\ Carries(z, k)}
  BY DEF Tickets, Carries
<1> HIDE DEF Carries
<1>3. ASSUME NEW k \in 1..accepted
      PROVE  (\E z \in sends' : z.ch = c /\ z.state = state /\ Carries(z, k)) <=>
             \/ \E z \in sends : z.ch = c /\ z.state = state /\ Carries(z, k)
             \/ c = x.ch /\ y.state = state /\ Carries(x, k)
  BY <1>1
<1> QED BY <1>2, <1>3 DEF Tickets

\* A successful Send delivers the events of its digest, none of which was
\* settled on that channel before.
LEMMA SendDelivers ==
  ASSUME IInv, NEW x \in sends, NEW y, x.state = "sending",
         y.batch = x.batch, y.module = x.module, y.ch = x.ch,
         y.state \in {"sending", "delivered", "failed"},
         sends' = (sends \ {x}) \cup {y},
         accepted' = accepted, closer' = closer
  PROVE  [Box!Next]_(Box!vars)
<1> DEFINE group == {k \in 1..accepted : Carries(x, k)}
           D == [c \in Channels |-> Tickets(c, "delivered")]
           F == [c \in Channels |-> Tickets(c, "failed")]
<1>1. x.ch \in Channels
  BY DEF IInv, TypeOK, Send
<1>2. \A c \in Channels : \A state \in {"delivered", "failed"} :
        Tickets(c, state)' = Tickets(c, state) \cup
          {k \in 1..accepted : c = x.ch /\ y.state = state /\ Carries(x, k)}
  BY SettlesItsOwn
<1>3. group \in SUBSET Box!Unsettled(x.ch)
  <2> SUFFICES ASSUME NEW k \in group, NEW z \in sends, z.ch = x.ch,
                      z.state \in {"delivered", "failed"}, Carries(z, k)
               PROVE  FALSE
    BY <1>1 DEF Box!Unsettled, Tickets
  <2> HIDE DEF Carries
  <2>1. z = x
    BY DEF IInv, PlaceInv
  <2> QED BY <2>1
<1>4. CASE y.state = "sending" \/ group = {}
  <2>1. \A c \in Channels : \A state \in {"delivered", "failed"} :
          Tickets(c, state)' = Tickets(c, state)
    BY <1>2, <1>4
  <2> QED BY <2>1, SettledUnchanged DEF Box!vars
<1>5. CASE y.state = "delivered" /\ group # {}
  <2>1. \A c \in Channels : /\ Tickets(c, "failed")' = Tickets(c, "failed")
                             /\ Tickets(c, "delivered")' =
                                  IF c = x.ch THEN Tickets(c, "delivered") \cup group
                                  ELSE Tickets(c, "delivered")
    BY <1>2, <1>5
  <2>2. F' = F /\ D' = [D EXCEPT ![x.ch] = @ \cup group]
    BY <1>1, <2>1
  <2>3. Box!Deliver(x.ch, group)
    BY <1>5, <2>2 DEF Box!Deliver
  <2> QED BY <1>1, <1>3, <2>3 DEF Box!Next
<1>6. CASE y.state = "failed" /\ group # {}
  <2>1. \A c \in Channels : /\ Tickets(c, "delivered")' = Tickets(c, "delivered")
                             /\ Tickets(c, "failed")' =
                                  IF c = x.ch THEN Tickets(c, "failed") \cup group
                                  ELSE Tickets(c, "failed")
    BY <1>2, <1>6
  <2>2. D' = D /\ F' = [F EXCEPT ![x.ch] = @ \cup group]
    BY <1>1, <2>1
  <2>3. Box!GiveUp(x.ch, group)
    BY <1>6, <2>2 DEF Box!GiveUp
  <2> QED BY <1>1, <1>3, <2>3 DEF Box!Next
<1> QED BY <1>4, <1>5, <1>6

LEMMA SenderSettles ==
  ASSUME IInv, NEW x \in sends, SendSucceeds(x) \/ SendFails(x)
  PROVE  [Box!Next]_(Box!vars)
<1>1. x.state = "sending" /\ accepted' = accepted /\ closer' = closer /\ x \in Send
  BY DEF SendSucceeds, SendFails, Sending, IInv, TypeOK
<1>2. PICK y \in Send : /\ y.batch = x.batch /\ y.module = x.module
                        /\ y.ch = x.ch
                        /\ sends' = (sends \ {x}) \cup {y}
  BY <1>1, SenderBecomes
<1>3. y.state \in {"sending", "delivered", "failed"}
  BY DEF Send
<1> QED BY <1>1, <1>2, <1>3, SendDelivers

\* The dispatcher implements the outbox, for every configuration: its
\* windows, timers, early flushes, digests and retries cannot lose, settle
\* twice or unsettle an accepted event, and Close returns only to an outbox
\* in which everything is settled.
THEOREM DispatcherIsOutbox == Spec => ImplementsOutbox
<1>1. Init => Box!Init
  BY DEF Init, Box!Init, Tickets
<1>2. IInv /\ [Next]_vars => [Box!Next]_(Box!vars)
  <2> SUFFICES ASSUME IInv, [Next]_vars PROVE [Box!Next]_(Box!vars)
    OBVIOUS
  <2>1. ASSUME NEW e \in Offers, Enqueue(e) PROVE Box!Next
    BY <2>1, EnqueueAccepts DEF Box!Next
  <2>2. CASE TimerFires \/ UNCHANGED vars
    BY <2>2 DEF TimerFires, vars, Box!vars, Tickets, Carries
  <2>3. CASE Flush
    BY <2>3, FlushStutters
  <2>4. CASE Close
    BY <2>4, CloseCloses DEF Box!Next
  <2>5. CASE CloseReturns
    BY <2>5, CloseReturnsSettled DEF Box!Next
  <2>6. CASE SenderStep
    BY <2>6, SenderSettles DEF SenderStep
  <2> QED BY <2>1, <2>2, <2>3, <2>4, <2>5, <2>6 DEF Next
<1> QED BY <1>1, <1>2, Invariance, PTL DEF Spec, Box!Spec, ImplementsOutbox
=============================================================================
