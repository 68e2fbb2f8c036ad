---------------------------- MODULE TaskWaitProofs ----------------------------
(***************************************************************************)
(* What a wait answers is true, for any number of waiters, generations and *)
(* events, and however much of its stream a queue keeps.                   *)
(*                                                                         *)
(* A wait learns what it answers in one call and answers in another, or    *)
(* looks in three places one after the other.  The invariant says what is  *)
(* known at each place in between, and that nobody can make it untrue: an  *)
(* outcome stays announced, and what is over for a generation stays over.  *)
(***************************************************************************)
EXTENDS TaskWait, WellFoundedInduction, TLAPS

\* The terminal event with outcome o of generation g was published.
Announced(g, o) ==
    \E n \in DOMAIN events : events[n] = NewEvent(g, "settled", o)

\* Neither a record nor a result of generation g is left.
Over(g) ==
    /\ record.generation # g
    /\ \A r \in results : r[1] # g

\* What a wait may have learnt.
Honest(x) ==
    /\ x.step # "idle" => x.generation \in 1..given
    /\ x.answer # "none" => x.step = "answered"
    /\ x.step = "result" => record.generation # x.generation
    /\ x.step = "generation" => Over(x.generation)
    /\ x.reader.step = "delivered" =>
          x.reader.outcome \in Outcomes /\ Announced(x.generation, x.reader.outcome)
    /\ x.reader.step = "expired" => x.cursor <= trimmed
    /\ x.answer \in Outcomes => Announced(x.generation, x.answer)
    /\ x.answer = "result-expired" => Over(x.generation)
    /\ x.answer = "cursor-expired" => x.cursor <= trimmed
    /\ x.answer # "not-found"

\* What is stored was announced.
Stored ==
    /\ record # Absent => record.generation \in 1..given
    /\ record.outcome # "open" => Announced(record.generation, record.outcome)
    /\ \A r \in results : Announced(r[1], r[2])
    /\ \A n \in DOMAIN events : events[n].tag = "settled" => events[n].outcome \in Outcomes

\* The places of a reader and of a wait.
ReaderRecord ==
    [step : {"off", "checking", "reading", "delivered", "expired"},
     cursor : 0..MaxEvents, outcome : Outcomes \cup {"open"},
     missed : SUBSET (1..MaxEvents)]
WaiterRecord ==
    [step : {"idle", "record", "result", "generation", "join", "answered"},
     generation : 0..MaxGen, cursor : 0..MaxEvents, recheck : BOOLEAN,
     reader : ReaderRecord, answer : Outcomes \cup Refusals \cup {"none"}]

\* The queue, its stream, and a wait.
QueueOK ==
    /\ given \in 0..MaxGen
    /\ record \in [generation : 0..given, outcome : Outcomes \cup {"open"}]
    /\ results \subseteq (1..given) \X Outcomes
    /\ events \in Seq(Event)
    /\ trimmed \in 0..Len(events) /\ (trimmed > 0 => Len(events) - trimmed >= Kept)
    /\ Len(events) <= MaxEvents
WaiterOK(x) == x \in WaiterRecord /\ x.cursor <= Len(events) /\ Honest(x)

Inv ==
    /\ QueueOK /\ Stored
    /\ waiter \in [Waiters -> WaiterRecord]
    /\ \A w \in Waiters : WaiterOK(waiter[w])

-----------------------------------------------------------------------------
(* The queue goes on. *)

\* What was published stays published, under its number.
Grown ==
    /\ Len(events') \in Nat /\ Len(events) <= Len(events')
    /\ \A n \in DOMAIN events : n \in DOMAIN events' /\ events'[n] = events[n]

\* An announcement is for ever.
LEMMA AnnouncedStays ==
    ASSUME Grown, NEW g, NEW o, Announced(g, o)
    PROVE  Announced(g, o)'
BY DEF Grown, Announced

\* Publishing appends one event, and trims no more than it may.
LEMMA PublishGrows ==
    ASSUME QueueOK, NEW e \in Event, Publish(e)
    PROVE  /\ events' \in Seq(Event) /\ Grown
           /\ Len(events') = Len(events) + 1 /\ Len(events') <= MaxEvents
           /\ DOMAIN events' = DOMAIN events \cup {Len(events) + 1}
           /\ events'[Len(events) + 1] = e
           /\ trimmed <= trimmed' /\ trimmed' \in 0..Len(events')
           /\ trimmed' > 0 => Len(events') - trimmed' >= Kept
<1>1. /\ Len(events) < MaxEvents /\ events' = Append(events, e)
      /\ events \in Seq(Event) /\ Len(events) \in Nat
      /\ trimmed \in 0..Len(events) /\ (trimmed > 0 => Len(events) - trimmed >= Kept)
  BY DEF Publish, QueueOK
<1>2. /\ events' \in Seq(Event) /\ Len(events') = Len(events) + 1
      /\ DOMAIN events = 1..Len(events) /\ DOMAIN events' = 1..(Len(events) + 1)
      /\ events'[Len(events) + 1] = e
      /\ \A n \in 1..Len(events) : events'[n] = events[n]
  BY <1>1
<1>3. PICK n \in trimmed..MaxEvents : (n = trimmed \/ MayTrim(n)) /\ trimmed' = n
  BY DEF Publish
<1>4. /\ trimmed <= trimmed' /\ trimmed' \in 0..Len(events')
      /\ trimmed' > 0 => Len(events') - trimmed' >= Kept
  <2>1. CASE n = trimmed
    BY <1>1, <1>2, <1>3, <2>1, BoundsAssumption
  <2>2. CASE MayTrim(n)
    BY <1>1, <1>2, <1>3, <2>2, BoundsAssumption DEF MayTrim
  <2> QED BY <1>3, <2>1, <2>2
<1>5. Grown
  BY <1>1, <1>2 DEF Grown
<1> QED BY <1>1, <1>2, <1>4, <1>5, BoundsAssumption

\* A step of the queue that gives out at most a new generation, and stores at
\* most a result of the generation on record, makes nothing untrue.
LEMMA Onward ==
    ASSUME Inv, QueueOK', UNCHANGED waiter, Grown, given <= given', trimmed <= trimmed',
           record'.generation \in {record.generation, 0} \/ record'.generation > given,
           \A r \in results' : r \in results \/ r[1] = record.generation
    PROVE  /\ waiter' \in [Waiters -> WaiterRecord]
           /\ \A w \in Waiters : WaiterOK(waiter[w])'
<1>1. /\ waiter \in [Waiters -> WaiterRecord] /\ waiter' = waiter
      /\ QueueOK /\ \A w \in Waiters : WaiterOK(waiter[w])
  BY DEF Inv
<1>2. /\ given \in Nat /\ given' \in Nat /\ Len(events) \in Nat /\ Len(events') \in Nat
      /\ trimmed \in Nat /\ trimmed' \in Nat /\ MaxGen \in Nat
  BY <1>1, BoundsAssumption DEF QueueOK
<1>3. ASSUME NEW w \in Waiters PROVE WaiterOK(waiter[w])'
  <2> DEFINE x == waiter[w]
  <2>1. x' = x /\ x \in WaiterRecord /\ x.cursor <= Len(events) /\ Honest(x)
    BY <1>1 DEF WaiterOK
  <2>2. x.cursor \in Nat /\ x.generation \in Nat
    BY <2>1, BoundsAssumption DEF WaiterRecord
  <2> HIDE DEF x
  <2>3. x.step # "idle" => x.generation \in 1..given /\ x.generation \in 1..given'
    BY <1>2, <2>1, <2>2 DEF Honest
  <2>4. x.answer # "none" => x.step = "answered"
    BY <2>1 DEF Honest
  <2>5. x.step # "idle" /\ record.generation # x.generation => record'.generation # x.generation
    BY <1>2, <2>3
  <2>6. x.step # "idle" /\ Over(x.generation) => Over(x.generation)'
    BY <2>1, <2>5 DEF Over
  <2>7. \A o : Announced(x.generation, o) => Announced(x.generation, o)'
    BY AnnouncedStays, <2>1
  <2>8. Honest(x)'
    BY <1>2, <2>1, <2>2, <2>3, <2>4, <2>5, <2>6, <2>7 DEF Honest
  <2>9. x.cursor <= Len(events')
    BY <1>2, <2>1, <2>2 DEF Grown
  <2> QED BY <2>1, <2>8, <2>9 DEF WaiterOK, x
<1> QED BY <1>1, <1>3

\* What an operation leaves in the queue, when it publishes e.
LEMMA PublishKeeps ==
    ASSUME Inv, NEW e \in Event, e.tag = "settled" => e.outcome \in Outcomes, Publish(e),
           UNCHANGED waiter,
           given' \in given..MaxGen,
           record' \in [generation : 0..given', outcome : Outcomes \cup {"open"}],
           record'.generation \in {record.generation, 0} \/ record'.generation > given,
           record' # Absent => record'.generation # 0,
           \/ record'.outcome = "open"
           \/ record' = record
           \/ e = NewEvent(record'.generation, "settled", record'.outcome),
           results' \subseteq (1..given') \X Outcomes,
           \A r \in results' :
              r \in results \/ (r[1] = record.generation /\ e = NewEvent(r[1], "settled", r[2]))
    PROVE  Inv'
<1>1. QueueOK /\ Stored
  BY DEF Inv
<1>2. /\ events' \in Seq(Event) /\ Grown
      /\ Len(events') = Len(events) + 1 /\ Len(events') <= MaxEvents
      /\ DOMAIN events' = DOMAIN events \cup {Len(events) + 1}
      /\ events'[Len(events) + 1] = e
      /\ trimmed <= trimmed' /\ trimmed' \in 0..Len(events')
      /\ trimmed' > 0 => Len(events') - trimmed' >= Kept
  BY <1>1, PublishGrows
<1>3. given \in Nat /\ given' \in 0..MaxGen /\ given <= given'
  BY <1>1, BoundsAssumption DEF QueueOK
<1>4. QueueOK'
  BY <1>2, <1>3 DEF QueueOK
<1>5. \A g, o : Announced(g, o) => Announced(g, o)'
  BY <1>2, AnnouncedStays
<1>6. \A g, o : e = NewEvent(g, "settled", o) => Announced(g, o)'
  BY <1>2 DEF Announced
<1>7. Stored'
  <2>1. (record # Absent => record.generation \in 1..given)'
    BY <1>3
  <2>2. (record.outcome # "open" => Announced(record.generation, record.outcome))'
    BY <1>1, <1>5, <1>6 DEF Stored
  <2>3. (\A r \in results : Announced(r[1], r[2]))'
    BY <1>1, <1>5, <1>6 DEF Stored
  <2>4. (\A n \in DOMAIN events : events[n].tag = "settled" => events[n].outcome \in Outcomes)'
    BY <1>1, <1>2 DEF Stored, Grown
  <2> QED BY <2>1, <2>2, <2>3, <2>4 DEF Stored
<1>8. /\ waiter' \in [Waiters -> WaiterRecord]
      /\ \A w \in Waiters : WaiterOK(waiter[w])'
  <2>1. \A r \in results' : r \in results \/ r[1] = record.generation
    OBVIOUS
  <2> HIDE DEF NewEvent
  <2> QED BY <1>2, <1>3, <1>4, <2>1, Onward
<1> QED BY <1>4, <1>7, <1>8 DEF Inv

\* The record, as an operation finds it.
LEMMA RecordFound ==
    ASSUME Inv
    PROVE  /\ given \in Nat /\ record.generation \in 0..given /\ record.generation \in Nat
           /\ record.outcome \in Outcomes \cup {"open"}
           /\ record \in [generation : 0..given, outcome : Outcomes \cup {"open"}]
           /\ record # Absent => record.generation \in 1..given
           /\ given \in given..MaxGen /\ results \subseteq (1..given) \X Outcomes
BY BoundsAssumption DEF Inv, QueueOK, Stored

\* A number of generations and the events of a task.
LEMMA NewEventType ==
    /\ \A g \in Nat, o \in Outcomes \cup {"open"} :
          /\ NewEvent(g, "other", o) \in Event /\ NewEvent(g, "other", o).tag # "settled"
          /\ NewEvent(g, "failed", o) \in Event /\ NewEvent(g, "failed", o).tag # "settled"
          /\ NewEvent(g, "settled", o) \in Event /\ NewEvent(g, "settled", o).outcome = o
    /\ Absent.generation = 0 /\ Absent.outcome = "open"
    /\ \A n \in Nat : Absent \in [generation : 0..n, outcome : Outcomes \cup {"open"}]
BY DEF NewEvent, Event, Absent

\* A new generation is nobody's yet.
LEMMA OfferTaskInv == Inv /\ OfferTask => Inv'
<1> SUFFICES ASSUME Inv, OfferTask PROVE Inv'
  OBVIOUS
<1> DEFINE e == NewEvent(given + 1, "other", "open")
<1>1. /\ given < MaxGen /\ given' = given + 1
      /\ record' = [generation |-> given + 1, outcome |-> "open"]
      /\ Publish(e) /\ UNCHANGED <<results, waiter>>
  BY DEF OfferTask
<1>2. /\ given \in Nat /\ given' \in given..MaxGen
      /\ record' \in [generation : 0..given', outcome : Outcomes \cup {"open"}]
      /\ record'.generation > given /\ record'.generation # 0 /\ record'.outcome = "open"
  BY <1>1, RecordFound, BoundsAssumption
<1>3. e \in Event /\ e.tag # "settled"
  BY <1>2, NewEventType
<1>4. results' \subseteq (1..given') \X Outcomes
  BY <1>1, <1>2, RecordFound
<1> HIDE DEF e
<1> QED BY <1>1, <1>2, <1>3, <1>4, PublishKeeps

\* A failure that will be retried is not announced as settled.
LEMMA ProceedInv == Inv /\ Proceed => Inv'
<1> SUFFICES ASSUME Inv, Proceed PROVE Inv'
  OBVIOUS
<1>1. UNCHANGED <<given, record, results, waiter>>
  BY DEF Proceed
<1>2. PICK e \in {NewEvent(record.generation, "failed", "failure"),
                  NewEvent(record.generation, "other", "open")} : Publish(e)
  BY DEF Proceed
<1>3. e \in Event /\ e.tag # "settled"
  BY <1>2, RecordFound, NewEventType DEF Outcomes
<1> HIDE DEF Absent
<1> QED BY <1>1, <1>2, <1>3, RecordFound, NewEventType, PublishKeeps

\* Record, result and announcement of a settlement agree.
LEMMA SettleTaskInv == Inv /\ SettleTask => Inv'
<1> SUFFICES ASSUME Inv, SettleTask PROVE Inv'
  OBVIOUS
<1>1. record # Absent /\ record.outcome = "open" /\ UNCHANGED <<given, waiter>>
  BY DEF SettleTask
<1>2. PICK o \in Outcomes :
         /\ results' = results \cup {<<record.generation, o>>}
         /\ record' \in {Absent, [record EXCEPT !.outcome = o]}
         /\ Publish(NewEvent(record.generation, "settled", o))
  BY DEF SettleTask
<1> DEFINE e == NewEvent(record.generation, "settled", o)
<1>3. /\ given' \in given..MaxGen /\ given' = given /\ given \in Nat
      /\ record.generation \in 1..given /\ record.generation \in Nat
  BY <1>1, RecordFound
<1>4. /\ record' \in [generation : 0..given', outcome : Outcomes \cup {"open"}]
      /\ record'.generation \in {record.generation, 0}
      /\ record' # Absent => record'.generation = record.generation /\ record'.outcome = o
      /\ record' = Absent => record'.outcome = "open"
  BY <1>2, <1>3, RecordFound, NewEventType
<1>5. e \in Event /\ e.outcome = o
  BY <1>3, NewEventType
<1>6. /\ results' \subseteq (1..given') \X Outcomes
      /\ \A r \in results' :
            r \in results \/ (r[1] = record.generation /\ e = NewEvent(r[1], "settled", r[2]))
  BY <1>2, <1>3, RecordFound
<1> HIDE DEF e
<1>7. record'.outcome = "open" \/ e = NewEvent(record'.generation, "settled", record'.outcome)
  BY <1>4 DEF e
<1>8. record' # Absent => record'.generation # 0
  BY <1>3, <1>4
<1>9. Publish(e)
  BY <1>2 DEF e
<1> QED BY <1>1, <1>3, <1>4, <1>5, <1>6, <1>7, <1>8, <1>9, PublishKeeps

\* Removing a task takes away what is stored of it, not what was announced.
LEMMA RemoveTaskInv == Inv /\ RemoveTask => Inv'
<1> SUFFICES ASSUME Inv, RemoveTask PROVE Inv'
  OBVIOUS
<1> DEFINE e == NewEvent(record.generation, "other", "open")
<1>1. /\ record' = Absent /\ UNCHANGED <<given, waiter>> /\ Publish(e)
      /\ results' \in {results, {r \in results : r[1] # record.generation}}
  BY DEF RemoveTask
<1>2. e \in Event /\ e.tag # "settled"
  BY RecordFound, NewEventType
<1>3. results' \subseteq results /\ results' \subseteq (1..given') \X Outcomes
  BY <1>1, RecordFound
<1>4. /\ record'.generation = 0 /\ record'.outcome = "open"
      /\ record' \in [generation : 0..given', outcome : Outcomes \cup {"open"}]
      /\ given' \in given..MaxGen
  BY <1>1, RecordFound, NewEventType
<1> HIDE DEF e
<1> QED BY <1>1, <1>2, <1>3, <1>4, PublishKeeps

\* Other tasks are none of a wait's concern.
LEMMA OthersInv == Inv /\ Others => Inv'
<1> SUFFICES ASSUME Inv, Others PROVE Inv'
  OBVIOUS
<1> DEFINE e == NewEvent(0, "other", "open")
<1>1. Publish(e) /\ UNCHANGED <<given, record, results, waiter>>
  BY DEF Others
<1>2. e \in Event /\ e.tag # "settled"
  BY NewEventType
<1> HIDE DEF e, Absent
<1> QED BY <1>1, <1>2, RecordFound, NewEventType, PublishKeeps

\* What expires leaves its announcement behind.
LEMMA ExpiryInv == Inv /\ (SyncTaskExpiry \/ SyncResultExpiry) => Inv'
<1> SUFFICES ASSUME Inv, SyncTaskExpiry \/ SyncResultExpiry PROVE Inv'
  OBVIOUS
<1>1. /\ UNCHANGED <<given, events, trimmed, waiter>>
      /\ record' \in {record, Absent} /\ results' \subseteq results
  BY DEF SyncTaskExpiry, SyncResultExpiry
<1>2. QueueOK /\ Stored /\ Grown
  BY <1>1 DEF Inv, Grown, QueueOK
<1>3. /\ record'.generation \in {record.generation, 0}
      /\ record' \in [generation : 0..given, outcome : Outcomes \cup {"open"}]
  BY <1>1, RecordFound, NewEventType
<1>4. QueueOK'
  BY <1>1, <1>2, <1>3 DEF QueueOK
<1>5. \A g, o : Announced(g, o)' <=> Announced(g, o)
  BY <1>1 DEF Announced
<1>6. Stored'
  <2>1. (record # Absent => record.generation \in 1..given)'
    BY <1>1, <1>2, NewEventType DEF Stored
  <2>2. (record.outcome # "open" => Announced(record.generation, record.outcome))'
    BY <1>1, <1>2, <1>5, NewEventType DEF Stored
  <2> QED BY <1>1, <1>2, <1>5, <2>1, <2>2 DEF Stored
<1>7. /\ waiter' \in [Waiters -> WaiterRecord]
      /\ \A w \in Waiters : WaiterOK(waiter[w])'
  <2>1. given <= given' /\ trimmed <= trimmed' /\ UNCHANGED waiter
    BY <1>1, <1>2 DEF QueueOK
  <2>2. \A r \in results' : r \in results
    BY <1>1
  <2> QED BY <1>2, <1>3, <1>4, <2>1, <2>2, Onward
<1> QED BY <1>4, <1>6, <1>7 DEF Inv

-----------------------------------------------------------------------------
(* A wait goes on. *)

\* A step of one wait keeps the invariant if what it has learnt then is true.
LEMMA WaiterStep ==
    ASSUME Inv, UNCHANGED <<given, record, results, events, trimmed>>,
           NEW w \in Waiters, NEW y, WaiterOK(y), waiter' = [waiter EXCEPT ![w] = y]
    PROVE  Inv'
<1>1. \A g, o : Announced(g, o)' <=> Announced(g, o)
  BY DEF Announced
<1>2. \A g : Over(g)' <=> Over(g)
  BY DEF Over
<1>3. QueueOK' /\ Stored'
  BY <1>1 DEF Inv, QueueOK, Stored
<1>4. /\ waiter' \in [Waiters -> WaiterRecord] /\ waiter'[w] = y
      /\ \A v \in Waiters : v # w => waiter'[v] = waiter[v]
  BY DEF Inv, WaiterOK
<1>5. ASSUME NEW v \in Waiters PROVE WaiterOK(waiter[v])'
  <2>1. PICK x : x = waiter'[v] /\ WaiterOK(x)
    BY <1>4 DEF Inv
  <2>2. WaiterOK(x)'
    BY <1>1, <1>2, <2>1 DEF WaiterOK, Honest
  <2> QED BY <2>1, <2>2
<1> QED BY <1>3, <1>4, <1>5 DEF Inv

\* What is known of a wait that has begun.
LEMMA WaiterFound ==
    ASSUME Inv, NEW w \in Waiters, NEW x, x = waiter[w]
    PROVE  /\ WaiterOK(x) /\ x \in WaiterRecord /\ Honest(x) /\ x.reader \in ReaderRecord
           /\ x.generation \in 0..MaxGen /\ x.cursor \in 0..MaxEvents /\ x.cursor <= Len(events)
           /\ x.step # "idle" => x.generation \in 1..given
           /\ MaxGen \in Nat /\ MaxEvents \in Nat /\ given \in 0..MaxGen
           /\ Len(events) \in 0..MaxEvents /\ trimmed \in 0..Len(events)
<1>1. WaiterOK(x) /\ x \in WaiterRecord /\ Honest(x) /\ x.cursor <= Len(events)
  BY DEF Inv, WaiterOK
<1>2. /\ x.reader \in ReaderRecord
      /\ x.generation \in 0..MaxGen /\ x.cursor \in 0..MaxEvents
  BY <1>1 DEF WaiterRecord
<1> QED BY <1>1, <1>2, BoundsAssumption DEF Inv, QueueOK, Honest

\* No reader is a reader.
LEMMA NoReaderType == NoReader \in ReaderRecord /\ NoReader.step = "off"
BY BoundsAssumption DEF NoReader, ReaderRecord

\* An answer ends a wait.
LEMMA AnswerInv ==
    ASSUME Inv, UNCHANGED <<given, record, results, events, trimmed>>,
           NEW w \in Waiters, waiter[w].step # "idle", NEW a \in Outcomes \cup Refusals,
           Answer(w, a),
           a \in Outcomes => Announced(waiter[w].generation, a),
           a = "result-expired" => Over(waiter[w].generation),
           a = "cursor-expired" => waiter[w].cursor <= trimmed,
           a # "not-found"
    PROVE  Inv'
<1> DEFINE x == waiter[w]
           y == [x EXCEPT !.step = "answered", !.answer = a, !.reader = NoReader]
<1>1. WaiterOK(x) /\ x \in WaiterRecord /\ Honest(x) /\ x.generation \in 1..given
  BY WaiterFound
<1>2. waiter' = [waiter EXCEPT ![w] = y]
  BY DEF Answer, Inv
<1>3. /\ y \in WaiterRecord /\ y.step = "answered" /\ y.answer = a /\ y.reader = NoReader
      /\ y.generation = x.generation /\ y.cursor = x.cursor
  BY <1>1, NoReaderType DEF WaiterRecord
<1> HIDE DEF y
<1>4. WaiterOK(y)
  <2>1. Honest(y)
    BY <1>1, <1>3, NoReaderType DEF Honest
  <2> QED BY <1>1, <1>3, <2>1 DEF WaiterOK
<1> QED BY <1>2, <1>4, WaiterStep

\* A handle names a generation that was given out, and a place in the stream.
LEMMA BeginInv ==
    ASSUME Inv, NEW w \in Waiters, Begin(w)
    PROVE  Inv'
<1> DEFINE y == [NoWait EXCEPT !.step = "record", !.generation = Handle.generation,
                               !.cursor = Handle.cursor]
<1>1. /\ record # Absent /\ waiter' = [waiter EXCEPT ![w] = y]
      /\ UNCHANGED <<given, record, results, events, trimmed>>
  BY DEF Begin
<1>2. /\ record.generation \in 1..given /\ given \in 0..MaxGen /\ MaxGen \in Nat
      /\ Len(events) \in 0..MaxEvents /\ MaxEvents \in Nat
  BY <1>1, RecordFound, WaiterFound
<1>3. /\ y \in WaiterRecord /\ y.step = "record" /\ y.answer = "none" /\ y.reader = NoReader
      /\ y.generation = record.generation /\ y.cursor = Len(events)
  <2>1. /\ NoWait \in WaiterRecord /\ NoWait.answer = "none" /\ NoWait.reader = NoReader
    BY <1>2, NoReaderType DEF NoWait, WaiterRecord
  <2>2. Handle.generation = record.generation /\ Handle.cursor = Len(events)
    BY DEF Handle
  <2>3. Handle.generation \in 0..MaxGen /\ Handle.cursor \in 0..MaxEvents
    BY <1>2, <2>2
  <2> QED BY <2>1, <2>2, <2>3 DEF WaiterRecord
<1> HIDE DEF y
<1>4. WaiterOK(y)
  <2>1. Honest(y)
    BY <1>2, <1>3, NoReaderType DEF Honest, Outcomes
  <2> QED BY <1>2, <1>3, <2>1 DEF WaiterOK
<1> QED BY <1>1, <1>4, WaiterStep

\* Without an outcome the wait starts its reader, or joins it.
LEMMA PendingInv ==
    ASSUME Inv, UNCHANGED <<given, record, results, events, trimmed>>,
           NEW w \in Waiters, waiter[w].step = "record", Pending(w)
    PROVE  Inv'
<1> DEFINE x == waiter[w]
           R == [NoReader EXCEPT !.step = "checking"]
           y == IF x.recheck THEN [x EXCEPT !.step = "join"]
                ELSE [x EXCEPT !.recheck = TRUE, !.reader = R]
<1>1. /\ WaiterOK(x) /\ x \in WaiterRecord /\ Honest(x) /\ x.generation \in 1..given
      /\ x.answer = "none"
  BY WaiterFound DEF Honest
<1>2. waiter' = [waiter EXCEPT ![w] = y]
  BY DEF Pending, Inv
<1>3. R \in ReaderRecord /\ R.step = "checking"
  BY NoReaderType DEF ReaderRecord
<1> HIDE DEF R
<1>4. /\ y \in WaiterRecord /\ y.step \in {"record", "join"} /\ y.answer = "none"
      /\ y.generation = x.generation /\ y.cursor = x.cursor
      /\ y.reader = x.reader \/ y.reader.step = "checking"
  BY <1>1, <1>3 DEF WaiterRecord
<1> HIDE DEF y, x
<1>5. WaiterOK(y)
  <2>1. Honest(y)
    BY <1>1, <1>4 DEF Honest, Outcomes
  <2> QED BY <1>1, <1>4, <2>1 DEF WaiterOK
<1> QED BY <1>2, <1>5, WaiterStep

\* A record of the wait's generation answers with what was announced.
LEMMA ReadRecordInv ==
    ASSUME Inv, NEW w \in Waiters, ReadRecord(w)
    PROVE  Inv'
<1> DEFINE x == waiter[w]
           y == [x EXCEPT !.step = "result"]
<1>1. /\ waiter[w].step = "record" /\ UNCHANGED <<given, record, results, events, trimmed>>
      /\ Stored /\ record.outcome \in Outcomes \cup {"open"}
  BY RecordFound DEF ReadRecord, Inv
<1>2. CASE /\ record.generation # waiter[w].generation
           /\ waiter' = [waiter EXCEPT ![w].step = "result"]
  <2>1. /\ WaiterOK(x) /\ x \in WaiterRecord /\ Honest(x) /\ x.generation \in 1..given
        /\ x.answer = "none"
    BY <1>1, WaiterFound DEF Honest
  <2>2. waiter' = [waiter EXCEPT ![w] = y]
    BY <1>2 DEF Inv
  <2>3. /\ y \in WaiterRecord /\ y.step = "result" /\ y.answer = "none"
        /\ y.generation = x.generation /\ y.cursor = x.cursor /\ y.reader = x.reader
    BY <2>1 DEF WaiterRecord
  <2> HIDE DEF y
  <2>4. Honest(y)
    BY <1>2, <2>1, <2>3 DEF Honest, Outcomes
  <2>5. WaiterOK(y)
    BY <2>1, <2>3, <2>4 DEF WaiterOK
  <2> QED BY <1>1, <2>2, <2>5, WaiterStep
<1>3. CASE /\ record.generation = waiter[w].generation
           /\ record.outcome = "open" /\ Pending(w)
  BY <1>1, <1>3, PendingInv
<1>4. CASE /\ record.generation = waiter[w].generation
           /\ record.outcome # "open" /\ Answer(w, record.outcome)
  <2>1. record.outcome \in Outcomes /\ Announced(waiter[w].generation, record.outcome)
    BY <1>1, <1>4 DEF Stored
  <2>2. record.outcome \notin Refusals
    BY <2>1 DEF Outcomes, Refusals
  <2> QED BY <1>1, <1>4, <2>1, <2>2, AnswerInv DEF Refusals
<1> QED BY <1>2, <1>3, <1>4 DEF ReadRecord

\* A stored result answers with what was announced; without one there is none,
\* and no record either, and so it will be.
LEMMA ReadResultInv ==
    ASSUME Inv, NEW w \in Waiters, ReadResult(w)
    PROVE  Inv'
<1> DEFINE x == waiter[w]
           y == [x EXCEPT !.step = "generation"]
<1>1. /\ waiter[w].step = "result" /\ UNCHANGED <<given, record, results, events, trimmed>>
      /\ Stored /\ results \subseteq (1..given) \X Outcomes
  BY RecordFound DEF ReadResult, Inv
<1>2. ASSUME NEW r \in StoredResult(w), Answer(w, r[2])
      PROVE  Inv'
  <2>1. /\ r \in results /\ r[1] = waiter[w].generation /\ r[2] \in Outcomes
        /\ Announced(waiter[w].generation, r[2])
    BY <1>1, <1>2 DEF StoredResult, Stored
  <2>2. r[2] \notin Refusals
    BY <2>1 DEF Outcomes, Refusals
  <2> QED BY <1>1, <1>2, <2>1, <2>2, AnswerInv DEF Refusals
<1>3. CASE /\ StoredResult(w) = {}
           /\ waiter' = [waiter EXCEPT ![w].step = "generation"]
  <2>1. /\ WaiterOK(x) /\ x \in WaiterRecord /\ Honest(x) /\ x.generation \in 1..given
        /\ x.answer = "none" /\ record.generation # x.generation
    BY <1>1, WaiterFound DEF Honest
  <2>2. waiter' = [waiter EXCEPT ![w] = y]
    BY <1>3 DEF Inv
  <2>3. /\ y \in WaiterRecord /\ y.step = "generation" /\ y.answer = "none"
        /\ y.generation = x.generation /\ y.cursor = x.cursor /\ y.reader = x.reader
    BY <2>1 DEF WaiterRecord
  <2>4. Over(x.generation)
    BY <1>3, <2>1 DEF Over, StoredResult
  <2> HIDE DEF y, x
  <2>5. Honest(y)
    BY <2>1, <2>3, <2>4 DEF Honest, Outcomes
  <2>6. WaiterOK(y)
    BY <2>1, <2>3, <2>5 DEF WaiterOK
  <2> QED BY <1>1, <2>2, <2>6, WaiterStep
<1> QED BY <1>1, <1>2, <1>3 DEF ReadResult

\* The generation of a handle was given out, so that the id is known.
LEMMA ReadGenerationInv ==
    ASSUME Inv, NEW w \in Waiters, ReadGeneration(w)
    PROVE  Inv'
<1>1. /\ waiter[w].step = "generation" /\ UNCHANGED <<given, record, results, events, trimmed>>
      /\ Answer(w, IF given = 0 THEN "not-found" ELSE "result-expired")
  BY DEF ReadGeneration
<1>2. waiter[w].generation \in 1..given /\ Over(waiter[w].generation)
  BY <1>1, WaiterFound DEF Honest
<1>3. Answer(w, "result-expired")
  BY <1>1, <1>2
<1> QED BY <1>1, <1>2, <1>3, AnswerInv DEF Outcomes, Refusals

\* The joined reader tells what it has found.
LEMMA JoinInv ==
    ASSUME Inv, NEW w \in Waiters, Join(w)
    PROVE  Inv'
<1> DEFINE f == waiter[w].reader
<1>1. /\ waiter[w].step = "join" /\ UNCHANGED <<given, record, results, events, trimmed>>
      /\ f.step \in {"delivered", "expired"}
      /\ Answer(w, IF f.step = "delivered" THEN f.outcome ELSE "cursor-expired")
  BY DEF Join
<1>2. Honest(waiter[w])
  BY WaiterFound
<1>3. CASE f.step = "delivered"
  <2>1. f.outcome \in Outcomes /\ Announced(waiter[w].generation, f.outcome)
    BY <1>2, <1>3 DEF Honest
  <2>2. f.outcome \notin Refusals
    BY <2>1 DEF Outcomes, Refusals
  <2> QED BY <1>1, <1>3, <2>1, <2>2, AnswerInv DEF Refusals
<1>4. CASE f.step = "expired"
  <2>1. waiter[w].cursor <= trimmed /\ Answer(w, "cursor-expired")
    BY <1>1, <1>2, <1>4 DEF Honest
  <2> QED BY <1>1, <2>1, AnswerInv DEF Outcomes, Refusals
<1> QED BY <1>1, <1>3, <1>4

\* A timeout says nothing of the task.
LEMMA CallerTimeoutInv ==
    ASSUME Inv, NEW w \in Waiters, CallerTimeout(w)
    PROVE  Inv'
<1>1. /\ waiter[w].step # "idle" /\ UNCHANGED <<given, record, results, events, trimmed>>
      /\ Answer(w, "timeout")
  BY DEF CallerTimeout
<1> QED BY <1>1, AnswerInv DEF Outcomes, Refusals

-----------------------------------------------------------------------------
(* Its reader goes on. *)

\* A step of the reader changes nothing else, and finds only what is true.
LEMMA ReaderInv ==
    ASSUME Inv, UNCHANGED <<given, record, results, events, trimmed>>,
           NEW w \in Waiters, waiter[w].reader.step # "off",
           NEW R \in ReaderRecord, waiter' = [waiter EXCEPT ![w].reader = R],
           R.step = "delivered" =>
              R.outcome \in Outcomes /\ Announced(waiter[w].generation, R.outcome),
           R.step = "expired" => waiter[w].cursor <= trimmed
    PROVE  Inv'
<1> DEFINE x == waiter[w]
           y == [x EXCEPT !.reader = R]
<1>1. WaiterOK(x) /\ x \in WaiterRecord /\ Honest(x)
  BY WaiterFound
<1>2. waiter' = [waiter EXCEPT ![w] = y]
  BY DEF Inv
<1>3. /\ y \in WaiterRecord /\ y.reader = R /\ y.step = x.step /\ y.answer = x.answer
      /\ y.generation = x.generation /\ y.cursor = x.cursor
  BY <1>1 DEF WaiterRecord
<1> HIDE DEF y
<1>4. WaiterOK(y)
  <2>1. Honest(y)
    BY <1>1, <1>3 DEF Honest
  <2> QED BY <1>1, <1>3, <2>1 DEF WaiterOK
<1> QED BY <1>2, <1>4, WaiterStep

\* The first cursor is expired when what it names has been trimmed.
LEMMA CheckCursorsInv ==
    ASSUME Inv, NEW w \in Waiters, CheckCursors(w)
    PROVE  Inv'
<1> DEFINE f == waiter[w].reader
           from == waiter[w].cursor
           R == IF CursorExpired(from) THEN [f EXCEPT !.step = "expired"]
                ELSE [f EXCEPT !.step = "reading", !.cursor = from]
<1>1. /\ f.step = "checking" /\ waiter' = [waiter EXCEPT ![w].reader = R]
      /\ UNCHANGED <<given, record, results, events, trimmed>>
  BY DEF CheckCursors, FirstCursor, Inv
<1>2. /\ f \in ReaderRecord /\ from \in 0..MaxEvents /\ MaxEvents \in Nat
      /\ trimmed \in 0..Len(events) /\ Len(events) \in 0..MaxEvents
  BY WaiterFound
<1>3. R \in ReaderRecord /\ (R.step = "expired" <=> CursorExpired(from)) /\ R.step # "delivered"
  BY <1>2 DEF ReaderRecord
<1>4. CursorExpired(from) => from <= trimmed
  BY <1>2 DEF CursorExpired
<1> HIDE DEF R
<1> QED BY <1>1, <1>3, <1>4, ReaderInv

\* Some position is the first of those that a reader finds.
LEMMA FirstFound ==
    ASSUME NEW found, found \subseteq Nat, found # {}
    PROVE  \E n \in found : \A m \in found : n <= m
<1> DEFINE R == OpToRel(<, Nat)
<1>1. IsWellFoundedOn(R, Nat)
  BY NatLessThanWellFounded
<1>2. \A j, k \in Nat : j < k <=> <<j, k>> \in R
  BY DEF OpToRel
<1> HIDE DEF R
<1>3. PICK n \in found : \A m \in found : <<m, n>> \notin R
  BY <1>1, WFMin
<1>4. ASSUME NEW m \in found PROVE n <= m
  <2>1. n \in Nat /\ m \in Nat
    OBVIOUS
  <2>2. ~(m < n)
    BY <1>2, <1>3, <2>1
  <2> QED BY <2>1, <2>2
<1> QED BY <1>4

\* A reader delivers an announcement of its wait's generation.
LEMMA ReadEventsInv ==
    ASSUME Inv, NEW w \in Waiters, ReadEvents(w)
    PROVE  Inv'
<1> DEFINE f == waiter[w].reader
           from == IF f.cursor < trimmed THEN trimmed ELSE f.cursor
           found == {n \in (from + 1)..Len(events) : Matches(events[n], waiter[w].generation)}
           first == CHOOSE n \in found : \A m \in found : n <= m
           gap == f.missed \cup (f.cursor + 1)..from
           R == IF found # {}
                THEN [f EXCEPT !.step = "delivered", !.outcome = events[first].outcome,
                               !.missed = gap]
                ELSE [f EXCEPT !.cursor = Len(events), !.missed = gap]
<1>1. /\ f.step = "reading" /\ waiter' = [waiter EXCEPT ![w].reader = R]
      /\ Len(events) > from
      /\ UNCHANGED <<given, record, results, events, trimmed>>
  BY DEF ReadEvents, Inv
<1>2. /\ f \in ReaderRecord /\ f.cursor \in 0..MaxEvents /\ MaxEvents \in Nat
      /\ trimmed \in 0..Len(events) /\ Len(events) \in 0..MaxEvents
      /\ f.missed \in SUBSET (1..MaxEvents)
  BY WaiterFound DEF ReaderRecord
<1>3. gap \in SUBSET (1..MaxEvents)
  BY <1>1, <1>2
<1>4. CASE found = {}
  <2>1. R = [f EXCEPT !.cursor = Len(events), !.missed = gap]
    BY <1>4
  <2> HIDE DEF gap, found, first, from
  <2>2. R \in ReaderRecord /\ R.step = "reading"
    BY <1>1, <1>2, <1>3, <2>1 DEF ReaderRecord
  <2> HIDE DEF R
  <2> QED BY <1>1, <2>2, ReaderInv
<1>5. CASE found # {}
  <2>1. first \in found
    <3>1. found \subseteq Nat
      BY <1>2
    <3>2. \E n \in found : \A m \in found : n <= m
      BY <1>5, <3>1, FirstFound
    <3> QED BY <3>2
  <2>2. first \in DOMAIN events /\ Matches(events[first], waiter[w].generation)
    BY <1>2, <2>1 DEF Inv, QueueOK
  <2>3. events[first] \in Event
    BY <2>2 DEF Inv, QueueOK
  <2>4. /\ events[first].outcome \in Outcomes
        /\ events[first] = NewEvent(waiter[w].generation, "settled", events[first].outcome)
    BY <2>2, <2>3 DEF Inv, Stored, Matches, NewEvent, Event
  <2>5. Announced(waiter[w].generation, events[first].outcome)
    BY <2>2, <2>4 DEF Announced
  <2> DEFINE o == events[first].outcome
  <2>6. R = [f EXCEPT !.step = "delivered", !.outcome = o, !.missed = gap]
    BY <1>5
  <2>7. o \in Outcomes /\ Announced(waiter[w].generation, o)
    BY <2>4, <2>5
  <2> HIDE DEF gap, found, first, from, o
  <2>8. R \in ReaderRecord /\ R.step = "delivered" /\ R.outcome = o
    BY <1>1, <1>2, <1>3, <2>6, <2>7 DEF ReaderRecord
  <2> HIDE DEF R
  <2> QED BY <1>1, <2>7, <2>8, ReaderInv
<1> QED BY <1>4, <1>5

-----------------------------------------------------------------------------
(* The theorems. *)

\* Nothing is known at the beginning.
LEMMA InitInv == Init => Inv
<1> SUFFICES ASSUME Init PROVE Inv
  OBVIOUS
<1>1. /\ given = 0 /\ record = Absent /\ results = {} /\ events = <<>> /\ trimmed = 0
      /\ waiter = [w \in Waiters |-> NoWait]
  BY DEF Init
<1>2. QueueOK /\ Stored
  BY <1>1, NewEventType, BoundsAssumption DEF QueueOK, Stored
<1>3. /\ NoWait \in WaiterRecord /\ NoWait.cursor = 0 /\ NoWait.reader = NoReader
      /\ NoWait.step = "idle" /\ NoWait.answer = "none"
  BY NoReaderType, BoundsAssumption DEF NoWait, WaiterRecord
<1>4. WaiterOK(NoWait)
  <2>1. Honest(NoWait)
    BY <1>3, NoReaderType DEF Honest, Outcomes
  <2> QED BY <1>1, <1>3, <2>1 DEF WaiterOK
<1> QED BY <1>1, <1>2, <1>3, <1>4 DEF Inv

\* Every step keeps what the waits know true.
LEMMA StepInv ==
    ASSUME Inv, [Next]_vars
    PROVE  Inv'
<1>1. CASE Operation
  BY <1>1, OfferTaskInv, ProceedInv, SettleTaskInv, RemoveTaskInv, OthersInv, ExpiryInv
     DEF Operation
<1>2. ASSUME NEW w \in Waiters, Begin(w) \/ Wait(w) \/ Reader(w) \/ CallerTimeout(w)
      PROVE  Inv'
  <2>1. CASE Wait(w)
    BY <2>1, ReadRecordInv, ReadResultInv, ReadGenerationInv, JoinInv DEF Wait
  <2>2. CASE Reader(w)
    BY <2>2, CheckCursorsInv, ReadEventsInv DEF Reader
  <2> QED BY <1>2, <2>1, <2>2, BeginInv, CallerTimeoutInv
<1>3. CASE UNCHANGED vars
  <2>1. UNCHANGED <<given, record, results, events, trimmed, waiter>>
    BY <1>3 DEF vars
  <2>2. \A g, o : Announced(g, o)' <=> Announced(g, o)
    BY <2>1 DEF Announced
  <2>3. QueueOK' /\ Stored'
    BY <2>1, <2>2 DEF Inv, QueueOK, Stored
  <2>4. \A w \in Waiters : WaiterOK(waiter[w])'
    BY <2>1, <2>2 DEF Inv, WaiterOK, Honest, Over
  <2> QED BY <2>1, <2>3, <2>4 DEF Inv
<1> QED BY <1>1, <1>2, <1>3 DEF Next

\* What a wait has learnt is true in every state, at each place of its calls.
THEOREM WaitInvariant == Spec => []Inv
<1>1. Init => Inv
  BY InitInv
<1>2. Inv /\ [Next]_vars => Inv'
  BY StepInv
<1> QED BY <1>1, <1>2, PTL DEF Spec

\* Whatever wait answers is true (AnswersTruthful): an outcome is that of the
\* generation its handle names, an expired result cannot be read any more, an
\* expired cursor has been trimmed, and no task of a handle is unknown.
THEOREM AnswersAreTruthful == Spec => []AnswersTruthful
<1>1. Inv => AnswersTruthful
  <2> SUFFICES ASSUME Inv PROVE AnswersTruthful
    OBVIOUS
  <2>1. TypeOK
    BY DEF Inv, QueueOK, WaiterOK, TypeOK, WaiterRecord, ReaderRecord
  <2>2. WaitTruthful
    BY DEF Inv, WaiterOK, Honest, Announced, WaitTruthful
  <2>3. RefusalTruthful
    BY DEF Inv, WaiterOK, Honest, Over, RefusalTruthful
  <2> QED BY <2>1, <2>2, <2>3 DEF AnswersTruthful
<1> QED BY <1>1, WaitInvariant, PTL
================================================================================
