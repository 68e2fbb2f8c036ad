--------------------------- MODULE TaskHistoryProofs ---------------------------
(***************************************************************************)
(* Proofs about TaskHistory, for any number of readers, any cap, any page  *)
(* size and any bounds.                                                    *)
(*                                                                         *)
(* The invariant speaks of a store (the task, its stream and the newest    *)
(* id), which is what the helpers of taskEngine.lua map to one another:    *)
(*   Intact    the counters agree with the stream, in the order of its ids;*)
(*   Fenced    nothing but the running attempt can report progress, and no *)
(*             attempt does after its end;                                 *)
(*   Good      a cursor that stands for an entry, or for the boundary.     *)
(* Each helper is shown to be Safe: it keeps a store sound, every good     *)
(* cursor good, and hands out no lease.                                    *)
(***************************************************************************)
EXTENDS TaskHistory, SequenceTheorems, TLAPS

-----------------------------------------------------------------------------
(* The invariant. *)

Lists == {"wait", "scheduled", "active", "success", "none"}
Tasks ==
    [generation : 0..MaxGen, settled : BOOLEAN, attempt : Nat, list : Lists,
     token : 0..MaxLeases, lease : {"live", "due", "gone"},
     sequence : Nat, trimmed : Nat, trimmedId : Nat]
Storage == [task : Tasks, log : Seq(Entry), lastId : Nat]
Cursors == [sequence : Nat, id : Nat \cup {-1}]

Intact(s) ==
    /\ Len(s.log) = s.task.sequence - s.task.trimmed
    /\ Len(s.log) <= MaxHistoryEntries
    /\ s.task.trimmedId <= s.lastId
    /\ \A n \in 1..Len(s.log) :
          /\ s.log[n].sequence = s.task.trimmed + n
          /\ s.log[n].generation = s.task.generation
          /\ s.task.trimmedId < s.log[n].id
          /\ s.log[n].id <= s.lastId
    /\ \A m, n \in 1..Len(s.log) : m < n => s.log[m].id < s.log[n].id
    /\ s.task.generation = 0 => s.task = NoTask

Fenced(s) ==
    /\ \A n \in 1..Len(s.log) : s.log[n].tag = "progress" =>
          /\ s.log[n].by = s.log[n].attempt
          /\ \A m \in 1..(n - 1) :
                s.log[m].tag \in Terminal => s.log[m].attempt < s.log[n].attempt
    /\ \A n \in 1..Len(s.log) : s.log[n].tag \in Terminal =>
          /\ s.log[n].attempt <= s.task.attempt
          /\ s.task.token # 0 => s.log[n].attempt < s.task.attempt
    /\ s.task.token # 0 =>
          s.task.list = "active" /\ s.task.lease # "gone"

Sound(s) == s \in Storage /\ Intact(s) /\ Fenced(s)

\* The lock key holds a token that was handed out for the running attempt.
TokenTrue ==
    task.token # 0 => /\ task.token \in DOMAIN leases
                      /\ leases[task.token] = task.attempt

Good(s, x) ==
    /\ x.sequence <= s.task.sequence
    /\ x.sequence = s.task.trimmed => x.id = s.task.trimmedId
    /\ x.sequence > s.task.trimmed => s.log[x.sequence - s.task.trimmed].id = x.id

\* A reader of the stored generation can go on from where it is, and from where
\* it would start again; every reader has been given what it believes it was.
Honest(c) ==
    /\ c.generation <= given
    /\ c.answer \notin {"invalid", "corrupt"}
    /\ c.seen \cup c.lost = 1..c.after.sequence
    /\ c.seen \cap c.lost = {}
    /\ c.saved.sequence <= c.after.sequence
    /\ c.generation # 0 /\ c.generation = task.generation =>
          \A x \in {c.after, c.saved} : x = NoCursor \/ Good(Store, x)

Inv ==
    /\ TypeOK
    /\ Sound(Store)
    /\ TokenTrue
    /\ task.generation <= given
    /\ \A r \in Readers : Honest(reader[r])

-----------------------------------------------------------------------------
(* Appending an entry. *)

\* What else a task keeps when something is appended to its history.
SameTask(s, t) ==
    /\ t.task.generation = s.task.generation
    /\ t.task.list = s.task.list
    /\ t.task.settled = s.task.settled
    /\ t.task.attempt = s.task.attempt
    /\ t.task.token = s.task.token
    /\ t.task.lease = s.task.lease

\* The stream moves on by one entry, and drops d of them, which is 0 or 1.
LEMMA AppendShape ==
  ASSUME NEW s \in Storage, Intact(s), s.task.generation # 0,
         NEW tag \in Tags, NEW attempt \in Nat, NEW by \in Nat
  PROVE  LET t == AppendHistory(s, tag, attempt, by)
             e == [id |-> s.lastId + 1, sequence |-> s.task.sequence + 1,
                   tag |-> tag, generation |-> s.task.generation,
                   attempt |-> attempt, by |-> by]
         IN /\ t \in Storage /\ SameTask(s, t)
            /\ t.lastId = s.lastId + 1
            /\ t.task.sequence = s.task.sequence + 1
            /\ \E d \in {0, 1} :
                 /\ t.task.trimmed = s.task.trimmed + d
                 /\ Len(t.log) = Len(s.log) + 1 - d
                 /\ Len(t.log) <= MaxHistoryEntries
                 /\ d = 1 => Len(s.log) >= 1 /\ t.task.trimmedId = s.log[1].id
                 /\ d = 0 => t.task.trimmedId = s.task.trimmedId
                 /\ \A n \in 1..(Len(t.log) - 1) : t.log[n] = s.log[n + d]
                 /\ t.log[Len(t.log)] = e
<1> DEFINE t == AppendHistory(s, tag, attempt, by)
           e == [id |-> s.lastId + 1, sequence |-> s.task.sequence + 1,
                 tag |-> tag, generation |-> s.task.generation,
                 attempt |-> attempt, by |-> by]
           all == Append(s.log, e)
<1>1. s.log \in Seq(Entry) /\ s.task \in Tasks /\ s.lastId \in Nat
  BY DEF Storage
<1>2. e \in Entry
  BY <1>1 DEF Entry, Tasks
<1>3. /\ all \in Seq(Entry) /\ Len(all) = Len(s.log) + 1 /\ all # <<>>
      /\ \A n \in 1..Len(s.log) : all[n] = s.log[n]
      /\ all[Len(s.log) + 1] = e
  <2> HIDE DEF e
  <2> QED
    BY <1>1, <1>2, AppendProperties
<1>4. Len(s.log) \in Nat /\ Len(s.log) <= MaxHistoryEntries
      /\ Len(s.log) = s.task.sequence - s.task.trimmed
      /\ s.task.sequence \in Nat /\ s.task.trimmed \in Nat /\ s.task.trimmedId \in Nat
  BY <1>1, LenProperties DEF Intact, Tasks
<1>5. MaxHistoryEntries \in Nat \ {0}
  BY SizesAssumption
<1>6. CASE Overfull(all)
  <2>1. Len(s.log) = MaxHistoryEntries /\ Len(s.log) >= 1
    BY <1>3, <1>4, <1>5, <1>6 DEF Overfull
  <2>2. Head(all) = s.log[1]
    BY <1>3, <2>1
  <2>3. /\ Tail(all) \in Seq(Entry) /\ Len(Tail(all)) = Len(s.log)
        /\ \A n \in 1..Len(s.log) : Tail(all)[n] = all[n + 1]
    <3> HIDE DEF all, e, t
    <3>1. /\ Tail(all) \in Seq(Entry) /\ Len(Tail(all)) = Len(all) - 1
          /\ \A n \in 1..Len(Tail(all)) : Tail(all)[n] = all[n + 1]
      BY <1>3, HeadTailProperties
    <3> QED
      BY <1>3, <1>4, <3>1
  <2>4. s.log[1] \in Entry /\ s.log[1].id \in Nat
    <3>1. s.log[1] \in Entry
      BY <1>1, <2>1, ElementOfSeq
    <3> QED
      BY <3>1 DEF Entry
  <2>5. s.task.sequence + 1 - MaxHistoryEntries = s.task.trimmed + 1
    BY <1>4, <2>1
  <2> DEFINE v1 == e.sequence  v2 == e.sequence - MaxHistoryEntries
             v3 == Head(all).id  v4 == e.id
  <2>12. t = [task |-> [s.task EXCEPT !.sequence = v1, !.trimmed = v2, !.trimmedId = v3],
              log |-> Tail(all), lastId |-> v4]
    BY <1>6, Zenon DEF AppendHistory, NewBoundary
  <2>13. v1 = s.task.sequence + 1 /\ v2 = s.task.trimmed + 1
         /\ v3 = s.log[1].id /\ v4 = s.lastId + 1
    <3>1. e.sequence = s.task.sequence + 1 /\ e.id = s.lastId + 1
      OBVIOUS
    <3>2. e.sequence - MaxHistoryEntries = s.task.trimmed + 1
      <4>1. \A a : a = s.task.sequence + 1 => a - MaxHistoryEntries = s.task.trimmed + 1
        BY <1>4, <1>5, <2>1, <2>5
      <4> HIDE DEF t, all, e
      <4> QED
        BY <3>1, <4>1, Zenon
    <3> HIDE DEF t, all, e
    <3> QED
      BY <2>2, <3>1, <3>2
  <2> HIDE DEF t, all, v1, v2, v3, v4
  <2>6. t.task = [s.task EXCEPT !.sequence = v1, !.trimmed = v2, !.trimmedId = v3]
        /\ t.log = Tail(all) /\ t.lastId = s.lastId + 1
        /\ t = [task |-> t.task, log |-> t.log, lastId |-> t.lastId]
    BY <2>12, <2>13
  <2>7. t.task \in Tasks
    <3>1. v1 \in Nat /\ v2 \in Nat /\ v3 \in Nat
      <4>1. s.task.sequence + 1 \in Nat /\ s.task.trimmed + 1 \in Nat
        BY <1>4
      <4> QED
        BY <2>4, <2>13, <4>1
    <3> QED
      BY <1>1, <2>6, <3>1 DEF Tasks
  <2>8. t \in Storage
    <3>1. t.lastId \in Nat
      BY <1>1, <2>6
    <3> QED
      BY <2>3, <2>6, <2>7, <3>1 DEF Storage
  <2>9. SameTask(s, t) /\ t.task.sequence = s.task.sequence + 1
        /\ t.task.trimmed = s.task.trimmed + 1 /\ t.task.trimmedId = s.log[1].id
    <3>1. SameTask(s, t) /\ t.task.sequence = v1 /\ t.task.trimmed = v2
          /\ t.task.trimmedId = v3
      BY <1>1, <2>6 DEF SameTask, Tasks
    <3> QED
      BY <2>13, <3>1
  <2> HIDE DEF t, all, e
  <2>10. \A n \in 1..(Len(t.log) - 1) : t.log[n] = s.log[n + 1]
    BY <1>3, <1>4, <2>3, <2>6
  <2>11. t.log[Len(t.log)] = e
    BY <1>3, <1>4, <2>1, <2>3, <2>6
  <2> QED
    BY <1>4, <2>1, <2>3, <2>6, <2>8, <2>9, <2>10, <2>11 DEF t, e
<1>7. CASE ~Overfull(all)
  <2>1. t.task = [s.task EXCEPT !.sequence = s.task.sequence + 1]
        /\ t.log = all /\ t.lastId = s.lastId + 1
        /\ t = [task |-> t.task, log |-> t.log, lastId |-> t.lastId]
    <3>1. t = [task |-> [s.task EXCEPT !.sequence = s.task.sequence + 1],
               log |-> all, lastId |-> s.lastId + 1]
      <4>1. s.task = [s.task EXCEPT !.trimmed = @, !.trimmedId = @]
        BY <1>1 DEF Tasks
      <4> QED
        BY <1>7, <4>1 DEF AppendHistory
    <3> HIDE DEF t, all
    <3> QED
      BY <3>1
  <2>2. t.task \in Tasks
    <3> HIDE DEF t, all
    <3>1. s.task.sequence + 1 \in Nat
      BY <1>4
    <3> QED
      BY <1>1, <2>1, <3>1 DEF Tasks
  <2>3. t \in Storage
    <3>1. t.lastId \in Nat
      BY <1>1, <2>1
    <3> HIDE DEF t, all
    <3> QED
      BY <1>3, <2>1, <2>2, <3>1 DEF Storage
  <2>4. SameTask(s, t) /\ t.task.sequence = s.task.sequence + 1
        /\ t.task.trimmed = s.task.trimmed /\ t.task.trimmedId = s.task.trimmedId
    <3> HIDE DEF t, all
    <3> QED
      BY <1>1, <2>1 DEF SameTask, Tasks
  <2>5. Len(t.log) <= MaxHistoryEntries /\ Len(t.log) = Len(s.log) + 1
    BY <1>3, <1>4, <1>5, <1>7, <2>1 DEF Overfull
  <2> HIDE DEF t, all, e
  <2>6. \A n \in 1..(Len(t.log) - 1) : t.log[n] = s.log[n]
    BY <1>3, <1>4, <2>1, <2>5
  <2>7. t.log[Len(t.log)] = e
    BY <1>3, <1>4, <2>1, <2>5
  <2> QED
    BY <1>4, <2>1, <2>3, <2>4, <2>5, <2>6, <2>7 DEF t, e
<1> QED
  BY <1>6, <1>7

-----------------------------------------------------------------------------
(* The helpers of the scripts are Safe. *)

Safe(s, t) ==
    /\ Sound(t)
    /\ \/ t.task.generation = 0
       \/ /\ t.task.generation = s.task.generation
          /\ \A x \in Cursors : Good(s, x) => Good(t, x)
    /\ t.task.token # 0 => /\ t.task.token = s.task.token
                           /\ t.task.attempt = s.task.attempt

\* Doing nothing is safe.
LEMMA SafeReflexive == ASSUME NEW s, Sound(s) PROVE Safe(s, s)
BY DEF Safe

\* Two safe steps make one.
LEMMA SafeTransitive ==
  ASSUME NEW s, NEW t, NEW u, Safe(s, t), Safe(t, u)
  PROVE  Safe(s, u)
<1>1. t.task.generation = 0 => u.task.generation = 0
  BY DEF Safe
<1> QED
  BY <1>1 DEF Safe

\* What holds of the entries and the counters of a sound store.
LEMMA SoundTypes ==
  ASSUME NEW s, Sound(s)
  PROVE  /\ s \in Storage /\ s.log \in Seq(Entry) /\ s.lastId \in Nat
         /\ s.task \in Tasks
         /\ s.task.sequence \in Nat /\ s.task.trimmed \in Nat /\ s.task.trimmedId \in Nat
         /\ s.task.attempt \in Nat /\ s.task.generation \in 0..MaxGen
         /\ s.task.token \in 0..MaxLeases
         /\ Len(s.log) \in Nat /\ Len(s.log) = s.task.sequence - s.task.trimmed
         /\ s = [task |-> s.task, log |-> s.log, lastId |-> s.lastId]
         /\ \A n \in 1..Len(s.log) :
               /\ s.log[n] \in Entry /\ s.log[n].id \in Nat
               /\ s.log[n].sequence \in Nat /\ s.log[n].attempt \in Nat
<1>1. s \in Storage /\ s.log \in Seq(Entry) /\ s.task \in Tasks /\ s.lastId \in Nat
      /\ s = [task |-> s.task, log |-> s.log, lastId |-> s.lastId]
  BY DEF Sound, Storage
<1>2. \A n \in 1..Len(s.log) : s.log[n] \in Entry
  BY <1>1, ElementOfSeq
<1>3. Len(s.log) \in Nat /\ Len(s.log) = s.task.sequence - s.task.trimmed
  BY <1>1, LenProperties DEF Sound, Intact
<1> QED
  BY <1>1, <1>2, <1>3 DEF Tasks, Entry

\* The last entry is the newest, and what was trimmed had smaller ids.
LEMMA AppendIntact ==
  ASSUME NEW s, Sound(s), s.task.generation # 0,
         NEW tag \in Tags, NEW attempt \in Nat, NEW by \in Nat
  PROVE  LET t == AppendHistory(s, tag, attempt, by)
         IN Intact(t) /\ \A x \in Cursors : Good(s, x) => Good(t, x)
<1> DEFINE t == AppendHistory(s, tag, attempt, by)
           e == [id |-> s.lastId + 1, sequence |-> s.task.sequence + 1,
                 tag |-> tag, generation |-> s.task.generation,
                 attempt |-> attempt, by |-> by]
<1>1. Intact(s) /\ s \in Storage
  BY DEF Sound
<1>2. /\ t \in Storage /\ SameTask(s, t)
      /\ t.lastId = s.lastId + 1
      /\ t.task.sequence = s.task.sequence + 1
      /\ \E d \in {0, 1} :
           /\ t.task.trimmed = s.task.trimmed + d
           /\ Len(t.log) = Len(s.log) + 1 - d
           /\ Len(t.log) <= MaxHistoryEntries
           /\ d = 1 => Len(s.log) >= 1 /\ t.task.trimmedId = s.log[1].id
           /\ d = 0 => t.task.trimmedId = s.task.trimmedId
           /\ \A n \in 1..(Len(t.log) - 1) : t.log[n] = s.log[n + d]
           /\ t.log[Len(t.log)] = e
  BY <1>1, AppendShape
<1>3. e.id = s.lastId + 1 /\ e.sequence = s.task.sequence + 1
      /\ e.generation = s.task.generation
  OBVIOUS
<1> HIDE DEF t, e
<1>4. PICK d \in {0, 1} :
        /\ t.task.trimmed = s.task.trimmed + d
        /\ Len(t.log) = Len(s.log) + 1 - d
        /\ Len(t.log) <= MaxHistoryEntries
        /\ d = 1 => Len(s.log) >= 1 /\ t.task.trimmedId = s.log[1].id
        /\ d = 0 => t.task.trimmedId = s.task.trimmedId
        /\ \A n \in 1..(Len(t.log) - 1) : t.log[n] = s.log[n + d]
        /\ t.log[Len(t.log)] = e
  BY <1>2
<1>8. /\ s.lastId \in Nat
      /\ s.task.sequence \in Nat /\ s.task.trimmed \in Nat /\ s.task.trimmedId \in Nat
      /\ Len(s.log) \in Nat /\ Len(s.log) = s.task.sequence - s.task.trimmed
      /\ \A n \in 1..Len(s.log) : s.log[n].id \in Nat
  BY SoundTypes
<1>5. /\ (d = 1 => Len(s.log) >= 1) => Len(t.log) >= 1
      /\ t.task.trimmed \in Nat /\ t.task.sequence \in Nat /\ Len(t.log) \in Nat
      /\ Len(t.log) = t.task.sequence - t.task.trimmed
      /\ t.task.sequence = t.task.trimmed + Len(t.log)
      /\ \A n \in 1..(Len(t.log) - 1) :
            n + d \in 1..Len(s.log) /\ s.task.trimmed + (n + d) = t.task.trimmed + n
      /\ \A n \in 1..Len(t.log) : n \in 1..(Len(t.log) - 1) \/ n = Len(t.log)
      /\ \A x \in Nat : x <= s.task.sequence => x <= t.task.sequence
      /\ \A x \in Nat : x <= s.task.sequence /\ x > t.task.trimmed =>
            /\ x > s.task.trimmed
            /\ x - t.task.trimmed \in 1..(Len(t.log) - 1)
            /\ (x - t.task.trimmed) + d = x - s.task.trimmed
  <2> DEFINE q == s.task.sequence  r == s.task.trimmed  l == Len(s.log)
             q1 == t.task.sequence  r1 == t.task.trimmed  l1 == Len(t.log)
  <2>1. q \in Nat /\ r \in Nat /\ l \in Nat /\ l = q - r
    BY <1>8
  <2>2. q1 = q + 1
    BY <1>2
  <2>3. r1 = r + d /\ l1 = l + 1 - d
    BY <1>4
  <2> HIDE DEF q, r, l, q1, r1, l1
  <2>4. /\ (d = 1 => l >= 1) => l1 >= 1
        /\ r1 \in Nat /\ q1 \in Nat /\ l1 \in Nat /\ l1 = q1 - r1 /\ q1 = r1 + l1
        /\ \A n \in 1..(l1 - 1) : n + d \in 1..l /\ r + (n + d) = r1 + n
        /\ \A n \in 1..l1 : n \in 1..(l1 - 1) \/ n = l1
        /\ \A x \in Nat : x <= q => x <= q1
        /\ \A x \in Nat : x <= q /\ x > r1 =>
              x > r /\ x - r1 \in 1..(l1 - 1) /\ (x - r1) + d = x - r
    <3>1. CASE d = 0
      BY <2>1, <2>2, <2>3, <3>1
    <3>2. CASE d = 1
      BY <2>1, <2>2, <2>3, <3>2
    <3> QED
      BY <3>1, <3>2
  <2> QED
    BY <2>4 DEF q, r, l, q1, r1, l1
<1>10. t.lastId = s.lastId + 1 /\ \A i \in Nat : i <= s.lastId => i <= t.lastId
  <2> DEFINE i0 == s.lastId  i1 == t.lastId
  <2>1. i0 \in Nat /\ i1 = i0 + 1
    BY <1>2, <1>8
  <2> HIDE DEF i0, i1
  <2>2. \A i \in Nat : i <= i0 => i <= i1
    BY <2>1
  <2> QED
    BY <2>1, <2>2 DEF i0, i1
<1>9. t.task.trimmedId \in Nat
  <2>1. d = 1 => 1 \in 1..Len(s.log)
    BY <1>4, <1>8
  <2> QED
    BY <1>4, <1>8, <2>1
<1>6. Intact(t)
  <2>1. Len(t.log) = t.task.sequence - t.task.trimmed
    BY <1>5, <1>8
  <2>2. t.task.trimmedId <= s.lastId
    BY <1>1, <1>4, <1>5, <1>8 DEF Intact
  <2>3. \A n \in 1..(Len(t.log) - 1) : n + d \in 1..Len(s.log)
    BY <1>4, <1>5, <1>8
  <2>4. \A n \in 1..(Len(t.log) - 1) :
          /\ t.log[n].sequence = t.task.trimmed + n
          /\ t.log[n].generation = s.task.generation
          /\ t.log[n].id <= s.lastId
    <3> TAKE n \in 1..(Len(t.log) - 1)
    <3>1. t.log[n] = s.log[n + d] /\ n + d \in 1..Len(s.log)
      BY <1>4, <2>3
    <3>2. s.log[n + d].sequence = s.task.trimmed + (n + d)
          /\ s.log[n + d].generation = s.task.generation
          /\ s.log[n + d].id <= s.lastId
      BY <1>1, <3>1 DEF Intact
    <3> QED
      BY <1>5, <1>8, <3>1, <3>2
  <2>5. \A n \in 1..(Len(t.log) - 1) : t.task.trimmedId < t.log[n].id
    <3> TAKE n \in 1..(Len(t.log) - 1)
    <3>1. t.log[n] = s.log[n + d] /\ n + d \in 1..Len(s.log)
      BY <1>4, <2>3
    <3>2. CASE d = 0
      BY <1>1, <1>4, <3>1, <3>2 DEF Intact
    <3>3. CASE d = 1
      <4>1. 1 \in 1..Len(s.log) /\ 1 < n + d
        BY <1>4, <1>5, <1>8, <3>3
      <4> QED
        BY <1>1, <1>4, <3>1, <3>3, <4>1 DEF Intact
    <3> QED
      BY <3>2, <3>3
  <2>6. \A m, n \in 1..(Len(t.log) - 1) : m < n => t.log[m].id < t.log[n].id
    <3> TAKE m, n \in 1..(Len(t.log) - 1)
    <3>1. /\ t.log[m] = s.log[m + d] /\ m + d \in 1..Len(s.log)
          /\ t.log[n] = s.log[n + d] /\ n + d \in 1..Len(s.log)
      BY <1>4, <2>3
    <3>2. m < n => m + d < n + d
      BY <1>4
    <3> QED
      BY <1>1, <3>1, <3>2 DEF Intact
  <2>7. Len(t.log) \in Nat /\ Len(t.log) >= 1
        /\ t.task.sequence = t.task.trimmed + Len(t.log)
    BY <1>4, <1>5
  <2>8. \A n \in 1..Len(t.log) : n \in 1..(Len(t.log) - 1) \/ n = Len(t.log)
    BY <1>5
  <2>9. \A n \in 1..(Len(t.log) - 1) : t.log[n].id \in Nat
    BY <1>4, <1>5, <1>8, <2>3
  <2>10. \A n \in 1..Len(t.log) :
          /\ t.log[n].sequence = t.task.trimmed + n
          /\ t.log[n].generation = t.task.generation
          /\ t.task.trimmedId < t.log[n].id
          /\ t.log[n].id <= t.lastId
    <3> TAKE n \in 1..Len(t.log)
    <3>1. CASE n \in 1..(Len(t.log) - 1)
      <4>1. t.task.generation = s.task.generation
        BY <1>2 DEF SameTask
      <4>2. t.log[n].id <= s.lastId /\ t.log[n].id \in Nat
        BY <2>4, <2>9, <3>1
      <4>3. t.log[n].id <= t.lastId
        BY <1>10, <4>2
      <4> QED
        BY <2>4, <2>5, <3>1, <4>1, <4>3
    <3>2. CASE n = Len(t.log)
      <4>1. t.log[n] = e
        BY <1>4, <3>2
      <4>2. t.task.generation = s.task.generation
        BY <1>2 DEF SameTask
      <4>3. t.log[n].sequence = t.task.trimmed + n
        BY <1>2, <1>3, <2>7, <3>2, <4>1
      <4>4. t.log[n].id = t.lastId
        BY <1>3, <1>10, <4>1
      <4>5. t.task.trimmedId < t.lastId
        <5> DEFINE i == t.task.trimmedId  i0 == s.lastId  i1 == t.lastId
        <5>1. i \in Nat /\ i0 \in Nat /\ i <= i0 /\ i1 = i0 + 1
          BY <1>8, <1>9, <1>10, <2>2
        <5> HIDE DEF i, i0, i1
        <5>2. i < i1
          BY <5>1
        <5> QED
          BY <5>2 DEF i, i1
      <4>6. t.lastId \in Nat
        BY <1>8, <1>10
      <4> QED
        BY <1>3, <4>1, <4>2, <4>3, <4>4, <4>5, <4>6
    <3> QED
      BY <2>8, <3>1, <3>2
  <2>11. \A m, n \in 1..Len(t.log) : m < n => t.log[m].id < t.log[n].id
    <3> SUFFICES ASSUME NEW m \in 1..Len(t.log), NEW n \in 1..Len(t.log), m < n
                 PROVE  t.log[m].id < t.log[n].id
      OBVIOUS
    <3>1. m \in 1..(Len(t.log) - 1)
      BY <2>7
    <3>2. CASE n \in 1..(Len(t.log) - 1)
      BY <2>6, <3>1, <3>2
    <3>3. CASE n = Len(t.log)
      <4>1. t.log[m].id <= s.lastId /\ t.log[m].id \in Nat
        BY <2>4, <2>9, <3>1
      <4>2. t.log[n] = e
        BY <1>4, <3>3
      <4> QED
        BY <1>3, <1>8, <4>1, <4>2
    <3> QED
      BY <2>8, <3>2, <3>3
  <2>12. t.task.generation # 0
    BY <1>2 DEF SameTask
  <2>13. t.task.trimmedId <= t.lastId
    BY <1>9, <1>10, <2>2
  <2> QED
    BY <1>4, <2>1, <2>10, <2>11, <2>12, <2>13 DEF Intact
<1>7. ASSUME NEW x \in Cursors, Good(s, x)
      PROVE  Good(t, x)
  <2>1. x.sequence \in Nat
    BY DEF Cursors
  <2>2. x.sequence <= t.task.sequence
    <3>1. x.sequence <= s.task.sequence
      BY <1>7 DEF Good
    <3> QED
      BY <1>5, <1>8, <2>1, <3>1
  <2>3. ASSUME x.sequence = t.task.trimmed
        PROVE  x.id = t.task.trimmedId
    <3>1. CASE d = 0
      BY <1>4, <1>5, <1>8, <1>7, <2>3, <3>1 DEF Good
    <3>2. CASE d = 1
      <4>1. x.sequence > s.task.trimmed /\ x.sequence - s.task.trimmed = 1
        BY <1>4, <1>8, <2>3, <3>2
      <4> QED
        BY <1>4, <1>7, <3>2, <4>1 DEF Good
    <3> QED
      BY <3>1, <3>2
  <2>4. ASSUME x.sequence > t.task.trimmed
        PROVE  t.log[x.sequence - t.task.trimmed].id = x.id
    <3> DEFINE n == x.sequence - t.task.trimmed
    <3>1. n \in 1..(Len(t.log) - 1) /\ n + d = x.sequence - s.task.trimmed
          /\ x.sequence > s.task.trimmed
      <4>1. x.sequence <= s.task.sequence
        BY <1>7 DEF Good
      <4> QED
        BY <1>5, <1>8, <2>1, <2>4, <4>1
    <3> HIDE DEF n
    <3>2. t.log[n] = s.log[n + d]
      BY <1>4, <3>1
    <3> QED
      BY <1>7, <3>1, <3>2 DEF Good, n
  <2> QED
    BY <2>2, <2>3, <2>4 DEF Good
<1> QED
  BY <1>6, <1>7 DEF t

\* Progress under the running attempt, the end of an attempt that has lost its
\* lease, or another entry.
LEMMA AppendSafe ==
  ASSUME NEW s, Sound(s), s.task.generation # 0,
         NEW tag \in Tags, NEW attempt \in Nat, NEW by \in Nat,
         tag = "progress" => s.task.token # 0 /\ attempt = s.task.attempt /\ by = attempt,
         tag \in Terminal => s.task.token = 0 /\ attempt <= s.task.attempt
  PROVE  LET t == AppendHistory(s, tag, attempt, by)
         IN Safe(s, t) /\ SameTask(s, t)
<1> DEFINE t == AppendHistory(s, tag, attempt, by)
           e == [id |-> s.lastId + 1, sequence |-> s.task.sequence + 1,
                 tag |-> tag, generation |-> s.task.generation,
                 attempt |-> attempt, by |-> by]
<1>1. Intact(s) /\ Fenced(s) /\ s \in Storage
  BY DEF Sound
<1>2. /\ t \in Storage /\ SameTask(s, t)
      /\ \E d \in {0, 1} :
           /\ Len(t.log) = Len(s.log) + 1 - d
           /\ \A n \in 1..(Len(t.log) - 1) : t.log[n] = s.log[n + d]
           /\ t.log[Len(t.log)] = e
  BY <1>1, AppendShape
<1>3. Intact(t) /\ \A x \in Cursors : Good(s, x) => Good(t, x)
  BY AppendIntact
<1>4. e.tag = tag /\ e.attempt = attempt /\ e.by = by
  OBVIOUS
<1> HIDE DEF t, e
<1>5. PICK d \in {0, 1} :
           /\ Len(t.log) = Len(s.log) + 1 - d
           /\ \A n \in 1..(Len(t.log) - 1) : t.log[n] = s.log[n + d]
           /\ t.log[Len(t.log)] = e
  BY <1>2
<1>6. /\ Len(s.log) \in Nat /\ s.task.attempt \in Nat
      /\ \A n \in 1..Len(s.log) : s.log[n].attempt \in Nat
  BY SoundTypes
<1>7. \A n \in 1..(Len(t.log) - 1) : n + d \in 1..Len(s.log) /\ t.log[n] = s.log[n + d]
  BY <1>5, <1>6
<1>8. Len(t.log) \in Nat /\ \A n \in 1..Len(t.log) : n \in 1..(Len(t.log) - 1) \/ n = Len(t.log)
  BY <1>5, <1>6
<1>9. t.task.attempt = s.task.attempt /\ t.task.token = s.task.token
      /\ t.task.generation = s.task.generation
      /\ t.task.list = s.task.list /\ t.task.settled = s.task.settled
      /\ t.task.lease = s.task.lease
  BY <1>2 DEF SameTask
<1>10. ASSUME NEW n \in 1..Len(t.log), t.log[n].tag = "progress"
       PROVE  /\ t.log[n].by = t.log[n].attempt
              /\ \A m \in 1..(n - 1) :
                    t.log[m].tag \in Terminal => t.log[m].attempt < t.log[n].attempt
  <2>1. \A m \in 1..(n - 1) : m \in 1..(Len(t.log) - 1)
    BY <1>8
  <2>2. CASE n \in 1..(Len(t.log) - 1)
    <3>1. t.log[n] = s.log[n + d] /\ n + d \in 1..Len(s.log)
      BY <1>7, <2>2
    <3>2. \A m \in 1..(n - 1) : t.log[m] = s.log[m + d] /\ m + d \in 1..(n + d - 1)
      BY <1>5, <1>7, <2>1
    <3>3. s.log[n + d].tag = "progress"
      BY <1>10, <3>1
    <3>4. /\ s.log[n + d].by = s.log[n + d].attempt
          /\ \A m \in 1..(n + d - 1) :
                s.log[m].tag \in Terminal => s.log[m].attempt < s.log[n + d].attempt
      BY <1>1, <3>1, <3>3 DEF Fenced
    <3> QED
      BY <3>1, <3>2, <3>4
  <2>3. CASE n = Len(t.log)
    <3>1. tag = "progress" /\ t.log[n].by = by /\ t.log[n].attempt = attempt
      BY <1>4, <1>5, <1>10, <2>3
    <3>2. s.task.token # 0 /\ attempt = s.task.attempt /\ by = attempt
      BY <3>1
    <3>3. \A m \in 1..(n - 1) : t.log[m] = s.log[m + d] /\ m + d \in 1..Len(s.log)
      BY <1>7, <2>1
    <3> QED
      BY <1>1, <3>1, <3>2, <3>3 DEF Fenced
  <2> QED
    BY <1>8, <2>2, <2>3
<1>11. ASSUME NEW n \in 1..Len(t.log), t.log[n].tag \in Terminal
       PROVE  /\ t.log[n].attempt <= t.task.attempt
              /\ t.task.token # 0 => t.log[n].attempt < t.task.attempt
  <2>1. CASE n \in 1..(Len(t.log) - 1)
    BY <1>1, <1>7, <1>9, <1>11, <2>1 DEF Fenced
  <2>2. CASE n = Len(t.log)
    BY <1>4, <1>5, <1>9, <1>11, <2>2
  <2> QED
    BY <1>8, <2>1, <2>2
<1>12. Fenced(t)
  BY <1>1, <1>9, <1>10, <1>11 DEF Fenced
<1> QED
  BY <1>2, <1>3, <1>9, <1>12 DEF Safe, Sound, t

\* A change of the task that leaves its history alone, and whose lease at most ends.
LEMMA RetouchSafe ==
  ASSUME NEW s, Sound(s), s.task.generation # 0, NEW t \in Storage,
         t.log = s.log, t.lastId = s.lastId,
         t.task.generation = s.task.generation, t.task.sequence = s.task.sequence,
         t.task.trimmed = s.task.trimmed, t.task.trimmedId = s.task.trimmedId,
         t.task.attempt = s.task.attempt,
         t.task.token \in {0, s.task.token},
         t.task.token # 0 =>
            t.task.list = "active" /\ t.task.lease # "gone"
  PROVE  Safe(s, t)
<1>1. Intact(t)
  BY DEF Sound, Intact
<1>2. Fenced(t)
  BY DEF Sound, Fenced
<1>3. \A x \in Cursors : Good(s, x) => Good(t, x)
  BY DEF Good
<1> QED
  BY <1>1, <1>2, <1>3 DEF Safe, Sound

\* What a move leaves as it was.
Moved(s, t, list) ==
    /\ t.task.generation = s.task.generation
    /\ t.task.settled = s.task.settled
    /\ t.task.attempt = s.task.attempt
    /\ t.task.token = s.task.token
    /\ t.task.lease = s.task.lease
    /\ t.task.list = list

\* Writing the list of a task changes no other field and nothing of its history.
LEMMA SetList ==
  ASSUME NEW s \in Storage, NEW list \in Lists
  PROVE  LET t == [s EXCEPT !.task.list = list]
         IN /\ t \in Storage /\ t.log = s.log /\ t.lastId = s.lastId
            /\ t.task \in Tasks /\ Moved(s, t, list)
            /\ t.task.sequence = s.task.sequence
            /\ t.task.trimmed = s.task.trimmed /\ t.task.trimmedId = s.task.trimmedId
<1> DEFINE t == [s EXCEPT !.task.list = list]
<1>1. s.task \in Tasks /\ s.log \in Seq(Entry) /\ s.lastId \in Nat
  BY DEF Storage
<1>2. t.task = [s.task EXCEPT !.list = list] /\ t.log = s.log /\ t.lastId = s.lastId
      /\ t = [task |-> t.task, log |-> t.log, lastId |-> t.lastId]
  BY DEF Storage
<1> HIDE DEF t
<1>3. t.task \in Tasks
  BY <1>1, <1>2 DEF Tasks
<1>4. t \in Storage
  BY <1>1, <1>2, <1>3 DEF Storage
<1>5. Moved(s, t, list) /\ t.task.sequence = s.task.sequence
      /\ t.task.trimmed = s.task.trimmed /\ t.task.trimmedId = s.task.trimmedId
  BY <1>1, <1>2 DEF Moved, Tasks
<1> QED
  BY <1>2, <1>3, <1>4, <1>5 DEF t

\* A task without a lease may move anywhere, and a leased one stays active.
LEMMA MoveSafe ==
  ASSUME NEW s, Sound(s), s.task.generation # 0, NEW list \in Lists, NEW attempt \in Nat,
         s.task.token = 0 \/ list = "active"
  PROVE  LET t == Move(s, list, attempt) IN Safe(s, t) /\ Moved(s, t, list)
<1> DEFINE m == [s EXCEPT !.task.list = list]
           t == Move(s, list, attempt)
<1>1. s \in Storage /\ Fenced(s)
  BY DEF Sound
<1>2. /\ m \in Storage /\ m.log = s.log /\ m.lastId = s.lastId
      /\ m.task \in Tasks /\ Moved(s, m, list)
      /\ m.task.sequence = s.task.sequence
      /\ m.task.trimmed = s.task.trimmed /\ m.task.trimmedId = s.task.trimmedId
  BY <1>1, SetList
<1>3. t = IF s.task.list = list THEN m ELSE AppendHistory(m, "moved", attempt, 0)
  BY DEF Move
<1> HIDE DEF m, t
<1>4. Safe(s, m)
  BY <1>1, <1>2, RetouchSafe DEF Moved, Fenced
<1>5. CASE s.task.list = list
  BY <1>2, <1>3, <1>4, <1>5 DEF t
<1>6. CASE s.task.list # list
  <2>1. t = AppendHistory(m, "moved", attempt, 0)
    BY <1>3, <1>6
  <2>2. Sound(m) /\ m.task.generation # 0
    BY <1>2, <1>4 DEF Safe, Moved
  <2>3. "moved" \in Tags /\ "moved" # "progress" /\ "moved" \notin Terminal /\ 0 \in Nat
    BY DEF Tags, Terminal
  <2>4. Safe(m, t) /\ SameTask(m, t)
    BY <2>1, <2>2, <2>3, AppendSafe
  <2>5. Moved(s, t, list)
    BY <1>2, <2>4 DEF Moved, SameTask
  <2> QED
    BY <1>4, <2>4, <2>5, SafeTransitive DEF t
<1> QED
  BY <1>5, <1>6

\* moveToList is safe for a task that nobody owns, and onto the active list.
LEMMA MoveToListSafe ==
  ASSUME NEW s, Sound(s), s.task.generation # 0, NEW list \in Lists,
         s.task.token = 0 \/ list = "active"
  PROVE  LET t == MoveToList(s, list) IN Safe(s, t) /\ Moved(s, t, list)
<1>1. s.task.attempt \in Nat
  BY SoundTypes
<1> QED
  BY <1>1, MoveSafe DEF MoveToList

\* Taking the lock away is safe.
LEMMA UnlockSafe ==
  ASSUME NEW s, Sound(s), s.task.generation # 0
  PROVE  LET t == Unlock(s)
         IN /\ Safe(s, t) /\ t.task.token = 0
            /\ t.task.generation = s.task.generation
<1> DEFINE t == Unlock(s)
<1>1. s.task \in Tasks /\ s.log \in Seq(Entry) /\ s.lastId \in Nat /\ s \in Storage
  BY SoundTypes
<1>2. t.task = [s.task EXCEPT !.token = 0] /\ t.log = s.log /\ t.lastId = s.lastId
      /\ t = [task |-> t.task, log |-> t.log, lastId |-> t.lastId]
  BY <1>1 DEF Storage, Unlock
<1> HIDE DEF t
<1>3. 0 \in 0..MaxLeases
  BY BoundsAssumption
<1>4. t.task \in Tasks
  BY <1>1, <1>2, <1>3 DEF Tasks
<1>5. t \in Storage
  BY <1>1, <1>2, <1>4 DEF Storage
<1>6. /\ t.task.generation = s.task.generation /\ t.task.sequence = s.task.sequence
      /\ t.task.trimmed = s.task.trimmed /\ t.task.trimmedId = s.task.trimmedId
      /\ t.task.attempt = s.task.attempt /\ t.task.token = 0
  BY <1>1, <1>2 DEF Tasks
<1>7. Safe(s, t)
  BY <1>2, <1>5, <1>6, RetouchSafe
<1> QED
  BY <1>6, <1>7 DEF t

\* A task that is settled has lost its lease first.
LEMMA SettledSafe ==
  ASSUME NEW s, Sound(s), s.task.generation # 0, s.task.token = 0
  PROVE  LET t == [s EXCEPT !.task.settled = TRUE]
         IN /\ Safe(s, t) /\ t.task.token = 0 /\ t.task.attempt = s.task.attempt
            /\ t.task.generation = s.task.generation
<1> DEFINE t == [s EXCEPT !.task.settled = TRUE]
<1>1. s.task \in Tasks /\ s.log \in Seq(Entry) /\ s.lastId \in Nat /\ s \in Storage
  BY SoundTypes
<1>2. t.task = [s.task EXCEPT !.settled = TRUE] /\ t.log = s.log /\ t.lastId = s.lastId
      /\ t = [task |-> t.task, log |-> t.log, lastId |-> t.lastId]
  <2>1. ASSUME NEW v
        PROVE  LET u == [s EXCEPT !.task.settled = v]
               IN u.task = [s.task EXCEPT !.settled = v] /\ u.log = s.log
                  /\ u.lastId = s.lastId
                  /\ u = [task |-> u.task, log |-> u.log, lastId |-> u.lastId]
    BY <1>1 DEF Storage
  <2> QED
    BY <2>1, Zenon
<1> HIDE DEF t
<1>3. t.task \in Tasks
  BY <1>1, <1>2 DEF Tasks
<1>4. t \in Storage
  BY <1>1, <1>2, <1>3 DEF Storage
<1>5. /\ t.task.generation = s.task.generation /\ t.task.sequence = s.task.sequence
      /\ t.task.trimmed = s.task.trimmed /\ t.task.trimmedId = s.task.trimmedId
      /\ t.task.attempt = s.task.attempt /\ t.task.token = 0
  BY <1>1, <1>2 DEF Tasks
<1>6. Safe(s, t)
  BY <1>2, <1>4, <1>5, RetouchSafe
<1> QED
  BY <1>5, <1>6 DEF t

-----------------------------------------------------------------------------
(* Removal, settlement and the sweep. *)

\* The task that does not exist is a task.
LEMMA NoTaskIsTask == NoTask \in Tasks
<1>1. 0 \in 0..MaxGen /\ 0 \in 0..MaxLeases /\ 0 \in Nat
  BY BoundsAssumption
<1> QED
  BY <1>1 DEF NoTask, Tasks, Lists

\* A store without the task is sound.
LEMMA EmptySound ==
  ASSUME NEW t, t.task = NoTask, t.log = <<>>, t.lastId \in Nat,
         t = [task |-> t.task, log |-> t.log, lastId |-> t.lastId]
  PROVE  Sound(t) /\ t.task.generation = 0 /\ t.task.token = 0
<1>1. t.log \in Seq(Entry) /\ Len(t.log) = 0
  BY EmptySeq
<1>2. t \in Storage
  BY <1>1, NoTaskIsTask DEF Storage
<1>3. t.task.sequence = 0 /\ t.task.trimmed = 0 /\ t.task.trimmedId = 0
      /\ t.task.generation = 0 /\ t.task.token = 0
  BY DEF NoTask
<1>4. 1..Len(t.log) = {} /\ MaxHistoryEntries \in Nat
  BY <1>1, SizesAssumption
<1>5. Intact(t)
  <2>1. Len(t.log) = t.task.sequence - t.task.trimmed /\ Len(t.log) <= MaxHistoryEntries
        /\ t.task.trimmedId <= t.lastId
    BY <1>1, <1>3, <1>4
  <2> QED
    BY <1>4, <2>1 DEF Intact
<1>6. Fenced(t)
  BY <1>3, <1>4 DEF Fenced
<1> QED
  BY <1>2, <1>3, <1>5, <1>6 DEF Sound

\* Whatever is stored, with or without a lease, can be deleted.
LEMMA DeleteSafe ==
  ASSUME NEW s, Sound(s)
  PROVE  LET t == DeleteTask(s)
         IN /\ Safe(s, t) /\ t.task = NoTask /\ t.log = <<>>
            /\ t.task.generation = 0 /\ t.task.token = 0
<1> DEFINE m == [s EXCEPT !.task.list = "none"]
           u == MoveToList(s, "none")
           t == DeleteTask(s)
<1>1. s \in Storage /\ Intact(s) /\ s.task.attempt \in Nat
  BY SoundTypes DEF Sound
<1>2. /\ m \in Storage /\ m.log = s.log /\ m.lastId = s.lastId
      /\ m.task \in Tasks /\ Moved(s, m, "none")
      /\ m.task.sequence = s.task.sequence
      /\ m.task.trimmed = s.task.trimmed /\ m.task.trimmedId = s.task.trimmedId
  <2>1. "none" \in Lists
    BY DEF Lists
  <2> QED
    BY <1>1, <2>1, SetList
<1>3. u = IF s.task.list = "none" THEN m
          ELSE AppendHistory(m, "moved", s.task.attempt, 0)
  BY DEF MoveToList, Move
<1>4. t = [u EXCEPT !.task = NoTask, !.log = <<>>]
  BY DEF DeleteTask
<1> HIDE DEF m, u, t
<1>5. u \in Storage
  <2>1. CASE s.task.list = "none"
    BY <1>2, <1>3, <2>1
  <2>2. CASE s.task.list # "none"
    <3>1. s.task.generation # 0
      BY <1>1, <2>2 DEF Intact, NoTask
    <3>2. Intact(m) /\ m.task.generation # 0
      BY <1>1, <1>2, <3>1 DEF Intact, Moved
    <3>3. "moved" \in Tags /\ 0 \in Nat
      BY DEF Tags
    <3>4. AppendHistory(m, "moved", s.task.attempt, 0) \in Storage
      BY <1>1, <1>2, <3>2, <3>3, AppendShape
    <3> QED
      BY <1>3, <2>2, <3>4
  <2> QED
    BY <2>1, <2>2
<1>6. t.task = NoTask /\ t.log = <<>> /\ t.lastId = u.lastId
      /\ t = [task |-> t.task, log |-> t.log, lastId |-> t.lastId]
  BY <1>4, <1>5 DEF Storage
<1>7. u.lastId \in Nat
  BY <1>5 DEF Storage
<1>8. Sound(t) /\ t.task.generation = 0 /\ t.task.token = 0
  BY <1>6, <1>7, EmptySound
<1> QED
  BY <1>6, <1>8 DEF Safe, t

\* An entry of the engine is safe to publish: a terminal one only when nobody owns the task.
LEMMA PublishSafe ==
  ASSUME NEW s, Sound(s), s.task.generation # 0,
         NEW tag \in Tags \ {"progress"}, tag \in Terminal => s.task.token = 0
  PROVE  LET t == Publish(s, tag) IN Safe(s, t) /\ SameTask(s, t)
<1>1. s.task.attempt \in Nat /\ s.task.attempt <= s.task.attempt /\ 0 \in Nat
  BY SoundTypes
<1>2. tag \in Tags /\ tag # "progress"
  OBVIOUS
<1>3. LET t == AppendHistory(s, tag, s.task.attempt, 0) IN Safe(s, t) /\ SameTask(s, t)
  BY <1>1, <1>2, AppendSafe
<1> QED
  BY <1>3 DEF Publish

\* A settlement is safe, whatever the retention.
LEMMA SettleSafe ==
  ASSUME NEW s, Sound(s), s.task.generation # 0, NEW tag \in Terminal,
         NEW t \in Settle(s, tag)
  PROVE  Safe(s, t)
<1> DEFINE w == Unlock(s)
           x == [w EXCEPT !.task.settled = TRUE]
           p == Publish(x, tag)
           m == MoveToList(p, "none")
<1>1. t = m \/ t = MoveToList(p, "success") \/ t = DeleteTask(m)
  BY DEF Settle
<1>2. Safe(s, w) /\ w.task.token = 0 /\ w.task.generation = s.task.generation
  BY UnlockSafe
<1> HIDE DEF w
<1>3. Safe(w, x) /\ x.task.token = 0 /\ x.task.generation # 0
  BY <1>2, SettledSafe DEF Safe
<1> HIDE DEF x
<1>4. tag \in Tags \ {"progress"}
  BY DEF Tags, Terminal
<1>5. Safe(x, p) /\ p.task.token = 0 /\ p.task.generation # 0
  BY <1>3, <1>4, PublishSafe DEF Safe, SameTask
<1> HIDE DEF p
<1>6. "none" \in Lists /\ "success" \in Lists
  BY DEF Lists
<1>7. Safe(p, m) /\ Safe(p, MoveToList(p, "success"))
  BY <1>5, <1>6, MoveToListSafe DEF Safe
<1> HIDE DEF m
<1>8. Safe(m, DeleteTask(m))
  BY <1>7, DeleteSafe DEF Safe
<1>9. Safe(p, t)
  BY <1>1, <1>7, <1>8, SafeTransitive
<1>10. Safe(w, p)
  BY <1>3, <1>5, SafeTransitive
<1> QED
  BY <1>2, <1>9, <1>10, SafeTransitive

\* A failure is safe, whether it is the last or not.
LEMMA FailTaskSafe ==
  ASSUME NEW s, Sound(s), s.task.generation # 0, NEW t \in FailTask(s)
  PROVE  Safe(s, t)
<1> DEFINE w == Unlock(s)
           p == Publish(w, "failed")
<1>1. \/ \E l \in {"wait", "scheduled"} : t = MoveToList(p, l)
      \/ t \in Settle(s, "failed")
  BY DEF FailTask
<1>2. Safe(s, w) /\ w.task.token = 0 /\ w.task.generation # 0
  BY UnlockSafe
<1> HIDE DEF w
<1>3. "failed" \in Tags \ {"progress"} /\ "failed" \in Terminal
  BY DEF Tags, Terminal
<1>4. Safe(w, p) /\ p.task.token = 0 /\ p.task.generation # 0
  BY <1>2, <1>3, PublishSafe DEF Safe, SameTask
<1> HIDE DEF p
<1>5. ASSUME NEW l \in {"wait", "scheduled"}, t = MoveToList(p, l)
      PROVE  Safe(s, t)
  <2>1. l \in Lists
    BY DEF Lists
  <2>2. Safe(p, t)
    BY <1>4, <1>5, <2>1, MoveToListSafe DEF Safe
  <2> QED
    BY <1>2, <1>4, <2>2, SafeTransitive
<1>6. CASE t \in Settle(s, "failed")
  BY <1>3, <1>6, SettleSafe
<1> QED
  BY <1>1, <1>5, <1>6

\* However far the sweep has got with this task.
LEMMA SyncAllSafe ==
  ASSUME NEW s, Sound(s), NEW t \in SyncAll(s)
  PROVE  Safe(s, t)
<1>1. Intact(s) /\ Fenced(s) /\ Safe(s, s)
  BY SafeReflexive DEF Sound
<1>2. t \in SyncLocks(s) \/ t \in SyncDelayed(s) \/ t \in SyncTaskExpiry(s) \/ t = s
  BY Zenon DEF SyncAll
<1>3. CASE t \in SyncLocks(s)
  <2>1. CASE s.task.list = "active" /\ s.task.lease = "gone"
    <3>1. s.task.generation # 0
      BY <1>1, <2>1 DEF Intact, NoTask
    <3> QED
      BY <1>3, <2>1, <3>1, FailTaskSafe DEF SyncLocks
  <2>2. CASE ~(s.task.list = "active" /\ s.task.lease = "gone")
    BY <1>1, <1>3, <2>2 DEF SyncLocks
  <2> QED
    BY <2>1, <2>2
<1>4. CASE t \in SyncDelayed(s)
  <2>1. CASE t = s
    BY <1>1, <2>1
  <2>2. CASE s.task.list = "scheduled" /\ t = MoveToList(s, "wait")
    <3>1. s.task.generation # 0 /\ s.task.token = 0
      BY <1>1, <2>2 DEF Intact, NoTask, Fenced
    <3>2. "wait" \in Lists
      BY DEF Lists
    <3> QED
      BY <2>2, <3>1, <3>2, MoveToListSafe
  <2> QED
    BY <1>4, <2>1, <2>2 DEF SyncDelayed
<1>5. CASE t \in SyncTaskExpiry(s)
  <2>1. t = s \/ t = DeleteTask(s)
    BY <1>5 DEF SyncTaskExpiry
  <2> QED
    BY <1>1, <2>1, DeleteSafe
<1> QED
  BY <1>1, <1>2, <1>3, <1>4, <1>5

-----------------------------------------------------------------------------
(* The operations keep the invariant. *)

\* At the beginning there is no task, no lease and no reader with anything in hand.
LEMMA InitInv == Init => Inv
<1> SUFFICES ASSUME Init PROVE Inv
  OBVIOUS
<1>1. Store.task = NoTask /\ Store.log = <<>> /\ Store.lastId \in Nat
      /\ Store = [task |-> Store.task, log |-> Store.log, lastId |-> Store.lastId]
  BY DEF Init, Store
<1>2. Sound(Store) /\ task.token = 0 /\ task.generation = 0
  <2>1. Sound(Store) /\ Store.task.generation = 0 /\ Store.task.token = 0
    BY <1>1, EmptySound
  <2> QED
    BY <2>1 DEF Store
<1>3. 0 \in 0..MaxGen /\ MaxHistoryEntries \in Nat /\ MaxLeases \in Nat
  BY BoundsAssumption, SizesAssumption
<1>4. \A r \in Readers : reader[r] = NewReader(0)
  BY DEF Init
<1>5. NewReader(0) \in
        [generation : 0..MaxGen, after : Cursors, saved : Cursors,
         seen : SUBSET Nat, lost : SUBSET Nat, answer : Answers]
  <2>1. NoCursor \in Cursors
    BY DEF NoCursor, Cursors
  <2> QED
    BY <1>3, <2>1 DEF NewReader, Answers
<1>6. TypeOK
  <2>1. task \in Tasks
    BY NoTaskIsTask DEF Init
  <2>2. log \in Seq(Entry) /\ Len(log) = 0
    BY EmptySeq DEF Init
  <2>3. leases \in Seq(Nat) /\ Len(leases) = 0
    BY EmptySeq DEF Init
  <2>4. reader \in [Readers ->
           [generation : 0..MaxGen, after : Cursors, saved : Cursors,
            seen : SUBSET Nat, lost : SUBSET Nat, answer : Answers]]
    BY <1>5 DEF Init
  <2>5. lastId \in Nat /\ given \in 0..MaxGen
    BY <1>3 DEF Init
  <2>6. Len(log) <= MaxHistoryEntries /\ Len(leases) <= MaxLeases
    BY <1>3, <2>2, <2>3
  <2> QED
    BY <2>1, <2>2, <2>3, <2>4, <2>5, <2>6 DEF TypeOK, Tasks, Lists, Cursors
<1>7. ASSUME NEW r \in Readers PROVE Honest(reader[r])
  <2> DEFINE c == reader[r]
  <2>1. /\ c.generation = 0 /\ c.answer = "ok" /\ c.seen = {} /\ c.lost = {}
        /\ c.after.sequence = 0 /\ c.saved.sequence = 0
    BY <1>4 DEF NewReader, NoCursor
  <2>2. 1..c.after.sequence = {} /\ c.generation <= given
        /\ c.saved.sequence <= c.after.sequence
    BY <2>1 DEF Init
  <2> HIDE DEF c
  <2>3. Honest(c)
    BY <2>1, <2>2 DEF Honest
  <2> QED
    BY <2>3 DEF c
<1>8. TokenTrue /\ task.generation <= given
  BY <1>2 DEF TokenTrue, Init
<1> QED
  BY <1>2, <1>6, <1>7, <1>8 DEF Inv

\* The parts of the type invariant that the steps need.
ReaderRecords ==
    [generation : 0..MaxGen, after : Cursors, saved : Cursors,
     seen : SUBSET Nat, lost : SUBSET Nat, answer : Answers]

\* The numbers that the steps count with.
LEMMA Types ==
  ASSUME TypeOK
  PROVE  /\ reader \in [Readers -> ReaderRecords]
         /\ given \in Nat /\ given \in 0..MaxGen /\ MaxGen \in Nat /\ MaxLeases \in Nat
         /\ leases \in Seq(Nat) /\ Len(leases) \in Nat /\ Len(leases) <= MaxLeases
<1>1. given \in Nat /\ MaxGen \in Nat /\ MaxLeases \in Nat
  BY BoundsAssumption DEF TypeOK
<1> QED
  BY <1>1, LenProperties DEF TypeOK, ReaderRecords, Cursors

\* A store that replaces the current one keeps the invariant if its generation
\* is the same and the cursors stay good, or is new, or if nothing is stored.
LEMMA StoreStep ==
  ASSUME Inv, NEW t, Sound(t), Become(t), UNCHANGED reader,
         given' \in 0..MaxGen, given <= given', t.task.generation <= given',
         leases' \in Seq(Nat), Len(leases') <= MaxLeases, TokenTrue',
         \/ t.task.generation = 0
         \/ t.task.generation > given
         \/ /\ t.task.generation = task.generation
            /\ \A x \in Cursors : Good(Store, x) => Good(t, x)
  PROVE  Inv'
<1>1. Store' = t /\ task' = t.task
  BY SoundTypes DEF Store, Become
<1>2. Sound(Store')
  BY <1>1
<1>3. reader' \in [Readers -> ReaderRecords]
  BY Types DEF Inv
<1>4. TypeOK'
  <2>1. Store'.task = task' /\ Store'.log = log' /\ Store'.lastId = lastId'
    BY DEF Store
  <2>2. task' \in Tasks /\ log' \in Seq(Entry) /\ lastId' \in Nat
    BY <1>2, <2>1, SoundTypes
  <2>3. Len(log') <= MaxHistoryEntries
    BY <1>2, <2>1 DEF Sound, Intact
  <2> QED
    BY <1>3, <2>2, <2>3 DEF TypeOK, ReaderRecords, Cursors, Tasks, Lists
<1>5. ASSUME NEW r \in Readers PROVE Honest(reader[r])'
  <2> DEFINE c == reader[r]
  <2>1. c \in ReaderRecords /\ Honest(c) /\ given \in Nat /\ given' \in Nat
    <3>1. given' \in Nat
      BY Types DEF Inv
    <3> QED
      BY <3>1, Types DEF Inv
  <2>2. reader'[r] = c
    OBVIOUS
  <2> HIDE DEF c
  <2>3. c.generation \in Nat /\ c.generation <= given /\ c.after \in Cursors
        /\ c.saved \in Cursors
    BY <2>1 DEF ReaderRecords, Honest
  <2>4. c.generation <= given'
    BY <2>1, <2>3
  <2>5. ASSUME c.generation # 0, c.generation = task'.generation,
               NEW x \in {c.after, c.saved}, x # NoCursor
        PROVE  Good(Store', x)
    <3>1. t.task.generation = task.generation /\ (Good(Store, x) => Good(t, x))
      BY <1>1, <2>1, <2>3, <2>5
    <3>2. Good(Store, x)
      BY <1>1, <2>1, <2>5, <3>1 DEF Honest
    <3> QED
      BY <1>1, <3>1, <3>2
  <2> QED
    BY <2>1, <2>2, <2>4, <2>5 DEF Honest
<1>6. task'.generation <= given'
  BY <1>1
<1> QED
  BY <1>2, <1>4, <1>5, <1>6 DEF Inv

\* Everything but an offer, a take and the ageing of a lease is Safe.
LEMMA SafeStep ==
  ASSUME Inv, NEW t, Safe(Store, t), Become(t), UNCHANGED <<given, leases, reader>>
  PROVE  Inv'
<1>1. /\ given' \in 0..MaxGen /\ given <= given' /\ leases' \in Seq(Nat)
      /\ Len(leases') <= MaxLeases /\ UNCHANGED reader
      /\ given \in Nat
  BY Types DEF Inv
<1>2. Store.task = task /\ Store.log = log
  BY DEF Store
<1>3. t.task.generation <= given'
  <2>1. t.task.generation = 0 \/ t.task.generation = task.generation
    BY <1>2 DEF Safe
  <2> QED
    BY <1>1, <2>1 DEF Inv
<1>4. TokenTrue'
  <2>1. task' = t.task /\ leases' = leases
    BY DEF Become
  <2>2. t.task.token # 0 => t.task.token = task.token /\ t.task.attempt = task.attempt
    BY <1>2 DEF Safe
  <2> QED
    BY <2>1, <2>2 DEF Inv, TokenTrue
<1>5. \/ t.task.generation = 0
      \/ /\ t.task.generation = task.generation
         /\ \A x \in Cursors : Good(Store, x) => Good(t, x)
  BY <1>2 DEF Safe
<1> QED
  BY <1>1, <1>3, <1>4, <1>5, StoreStep DEF Safe

\* maintain keeps the invariant.
LEMMA MaintainInv == Inv /\ Maintain => Inv'
<1> SUFFICES ASSUME Inv, Maintain PROVE Inv'
  OBVIOUS
<1>1. PICK t \in SyncAll(Store) : Become(t)
  BY DEF Maintain
<1>2. Safe(Store, t)
  BY SyncAllSafe DEF Inv
<1> QED
  BY <1>1, <1>2, SafeStep DEF Maintain

\* removeTask keeps it.
LEMMA RemoveTaskInv == Inv /\ RemoveTask => Inv'
<1> SUFFICES ASSUME Inv, RemoveTask PROVE Inv'
  OBVIOUS
<1>1. PICK s \in SyncAll(Store) : Become(DeleteTask(s))
  BY DEF RemoveTask
<1>2. Safe(Store, s)
  BY SyncAllSafe DEF Inv
<1>3. Safe(s, DeleteTask(s))
  BY <1>2, DeleteSafe DEF Safe
<1>4. Safe(Store, DeleteTask(s))
  BY <1>2, <1>3, SafeTransitive
<1> QED
  BY <1>1, <1>4, SafeStep DEF RemoveTask

\* The token of a report or of a renewal is that of a stored task.
LEMMA TokenStored ==
  ASSUME NEW s, Sound(s), s.task.token # 0
  PROVE  s.task.generation # 0
BY DEF Sound, Intact, NoTask

\* A lease has a number, and so has its generation.
LEMMA LeasesAreNumbered ==
  ASSUME TypeOK, NEW k \in DOMAIN leases
  PROVE  k \in Nat /\ k # 0 /\ leases[k] \in Nat
<1>1. leases \in Seq(Nat)
  BY DEF TypeOK
<1>2. DOMAIN leases = 1..Len(leases) /\ Len(leases) \in Nat
  BY <1>1, LenProperties
<1> QED
  BY <1>1, <1>2, ElementOfSeq

\* The report of an attempt keeps it, under a lease of any age.
LEMMA ReportInv ==
  ASSUME Inv, NEW k \in DOMAIN leases, Report(k)
  PROVE  Inv'
<1>1. k # 0
  BY LeasesAreNumbered DEF Inv
<1>2. PICK s \in SyncAll(Store) :
        /\ s.task.token = k
        /\ \E t \in FailTask(s) \cup Settle(s, "completed") : Become(t)
  BY DEF Report
<1>3. PICK t \in FailTask(s) \cup Settle(s, "completed") : Become(t)
  BY <1>2
<1>4. Safe(Store, s) /\ Sound(s)
  BY SyncAllSafe DEF Inv, Safe
<1>5. s.task.generation # 0
  BY <1>1, <1>2, <1>4, TokenStored
<1>6. "completed" \in Terminal
  BY DEF Terminal
<1>7. Safe(s, t)
  <2>1. CASE t \in FailTask(s)
    BY <1>4, <1>5, <2>1, FailTaskSafe
  <2>2. CASE t \in Settle(s, "completed")
    BY <1>4, <1>5, <1>6, <2>2, SettleSafe
  <2> QED
    BY <2>1, <2>2
<1>8. Safe(Store, t)
  BY <1>4, <1>7, SafeTransitive
<1> QED
  BY <1>3, <1>8, SafeStep DEF Report

\* Progress is appended under the current lease only.
LEMMA AppendProgressInv ==
  ASSUME Inv, NEW k \in DOMAIN leases, AppendProgress(k)
  PROVE  Inv'
<1>1. k # 0 /\ leases[k] \in Nat
  BY LeasesAreNumbered DEF Inv
<1>2. task.token = k /\ leases[k] = task.attempt
  BY <1>1 DEF AppendProgress, MayAppend, Inv, TokenTrue
<1>3. Sound(Store) /\ Store.task = task
  BY DEF Inv, Store
<1>4. Store.task.token # 0 /\ Store.task.generation # 0 /\ Store.task.attempt \in Nat
  BY <1>1, <1>2, <1>3, TokenStored, SoundTypes
<1>5. "progress" \in Tags /\ "progress" \notin Terminal
  BY DEF Tags, Terminal
<1>6. Safe(Store, AppendHistory(Store, "progress", task.attempt, leases[k]))
  BY <1>1, <1>2, <1>3, <1>4, <1>5, AppendSafe
<1> QED
  BY <1>6, SafeStep DEF AppendProgress

\* Giving an attempt back keeps it.
LEMMA RemoveLockInv ==
  ASSUME Inv, NEW k \in DOMAIN leases, RemoveLock(k)
  PROVE  Inv'
<1>1. Sound(Store) /\ Store.task = task /\ k # 0
  BY LeasesAreNumbered DEF Inv, Store
<1>2. Store.task.generation # 0
  BY <1>1, TokenStored DEF RemoveLock
<1>3. Safe(Store, Unlock(Store)) /\ Unlock(Store).task.token = 0
      /\ Unlock(Store).task.generation # 0
  BY <1>1, <1>2, UnlockSafe
<1>4. "wait" \in Lists
  BY DEF Lists
<1>5. Safe(Unlock(Store), MoveToList(Unlock(Store), "wait"))
  BY <1>3, <1>4, MoveToListSafe DEF Safe
<1>6. Safe(Store, MoveToList(Unlock(Store), "wait"))
  BY <1>3, <1>5, SafeTransitive
<1> QED
  BY <1>6, SafeStep DEF RemoveLock

\* A renewal finds the task in the active list, and makes the lease live again.
LEMMA ExtendLockInv ==
  ASSUME Inv, NEW k \in DOMAIN leases, ExtendLock(k)
  PROVE  Inv'
<1> DEFINE m == MoveToList(Store, "active")
           t == [m EXCEPT !.task.lease = "live"]
<1>1. Sound(Store) /\ Store.task = task /\ k # 0
  BY LeasesAreNumbered DEF Inv, Store
<1>2. Store.task.generation # 0
  BY <1>1, TokenStored DEF ExtendLock
<1>3. "active" \in Lists
  BY DEF Lists
<1>4. Safe(Store, m) /\ Moved(Store, m, "active")
  BY <1>1, <1>2, <1>3, MoveToListSafe
<1>5. Become(t)
  BY DEF ExtendLock
<1> HIDE DEF m
<1>6. Sound(m) /\ m.task.generation # 0
  BY <1>2, <1>4 DEF Safe, Moved
<1>7. m.task \in Tasks /\ m.log \in Seq(Entry) /\ m.lastId \in Nat /\ m \in Storage
  BY <1>6, SoundTypes
<1>8. t.task = [m.task EXCEPT !.lease = "live"] /\ t.log = m.log /\ t.lastId = m.lastId
      /\ t = [task |-> t.task, log |-> t.log, lastId |-> t.lastId]
  BY <1>7 DEF Storage
<1> HIDE DEF t
<1>9. t.task \in Tasks
  BY <1>7, <1>8 DEF Tasks
<1>10. t \in Storage
  BY <1>7, <1>8, <1>9 DEF Storage
<1>11. /\ t.task.generation = m.task.generation /\ t.task.sequence = m.task.sequence
       /\ t.task.trimmed = m.task.trimmed /\ t.task.trimmedId = m.task.trimmedId
       /\ t.task.attempt = m.task.attempt /\ t.task.token = m.task.token
       /\ t.task.list = m.task.list /\ t.task.settled = m.task.settled
       /\ t.task.lease = "live"
  BY <1>7, <1>8 DEF Tasks
<1>12. t.task.token # 0 =>
         t.task.list = "active" /\ t.task.lease # "gone"
  BY <1>6, <1>11 DEF Sound, Fenced
<1>13. Safe(m, t)
  BY <1>6, <1>8, <1>10, <1>11, <1>12, RetouchSafe
<1>14. Safe(Store, t)
  BY <1>4, <1>13, SafeTransitive
<1> QED
  BY <1>5, <1>14, SafeStep DEF ExtendLock

\* Expiry keeps it.
LEMMA AgeInv == Inv /\ Age => Inv'
<1> SUFFICES ASSUME Inv, Age PROVE Inv'
  OBVIOUS
<1> DEFINE t == [task |-> task', log |-> log, lastId |-> lastId]
<1>1. Sound(Store) /\ Store.task = task /\ Store.log = log /\ Store.lastId = lastId
  BY DEF Inv, Store
<1>2. Store.task.generation # 0
  BY <1>1, TokenStored DEF Age
<1>3. task \in Tasks /\ log \in Seq(Entry) /\ lastId \in Nat
  BY <1>1, SoundTypes
<1>4. t.task = task' /\ t.log = log /\ t.lastId = lastId /\ Become(t)
  BY DEF Age, Become
<1>5. CASE task.lease = "live"
  <2>1. task' = [task EXCEPT !.lease = "due"]
    BY <1>5 DEF Age
  <2>2. task' \in Tasks
    BY <1>3, <2>1 DEF Tasks
  <2>3. /\ task'.generation = task.generation /\ task'.sequence = task.sequence
        /\ task'.trimmed = task.trimmed /\ task'.trimmedId = task.trimmedId
        /\ task'.attempt = task.attempt /\ task'.token = task.token
        /\ task'.list = task.list /\ task'.settled = task.settled
        /\ task'.lease # "gone"
    BY <1>3, <2>1 DEF Tasks
  <2>4. t \in Storage
    BY <1>3, <2>2 DEF Storage
  <2>5. task'.token # 0 =>
          task'.list = "active" /\ task'.lease # "gone"
    BY <1>1, <2>3 DEF Sound, Fenced
  <2> HIDE DEF t
  <2>6. Safe(Store, t)
    BY <1>1, <1>2, <1>4, <2>3, <2>4, <2>5, RetouchSafe
  <2> QED
    BY <1>4, <2>6, SafeStep DEF Age
<1>6. CASE task.lease # "live"
  <2>1. task' = [task EXCEPT !.lease = "gone", !.token = 0]
    BY <1>6 DEF Age
  <2>2. 0 \in 0..MaxLeases
    BY BoundsAssumption
  <2>3. task' \in Tasks
    BY <1>3, <2>1, <2>2 DEF Tasks
  <2>4. /\ task'.generation = task.generation /\ task'.sequence = task.sequence
        /\ task'.trimmed = task.trimmed /\ task'.trimmedId = task.trimmedId
        /\ task'.attempt = task.attempt /\ task'.token = 0
    BY <1>3, <2>1 DEF Tasks
  <2>5. t \in Storage
    BY <1>3, <2>3 DEF Storage
  <2> HIDE DEF t
  <2>6. Safe(Store, t)
    BY <1>1, <1>2, <1>4, <2>4, <2>5, RetouchSafe
  <2> QED
    BY <1>4, <2>6, SafeStep DEF Age
<1> QED
  BY <1>5, <1>6

\* A take starts the next attempt, under a token that nobody else has had.
LEMMA TakeTaskInv == Inv /\ TakeTask => Inv'
<1> SUFFICES ASSUME Inv, TakeTask PROVE Inv'
  OBVIOUS
<1>1. PICK s \in SyncAll(Store) :
        /\ s.task.list = "wait"
        /\ Become([Move(s, "active", s.task.attempt + 1) EXCEPT
                     !.task.attempt = @ + 1,
                     !.task.token = Len(leases) + 1,
                     !.task.lease = "live"])
        /\ leases' = Append(leases, s.task.attempt + 1)
  BY DEF TakeTask
<1> DEFINE k == Len(leases) + 1
           a == s.task.attempt + 1
           m == Move(s, "active", a)
           b == m.task.attempt + 1
           t == [m EXCEPT !.task.attempt = b, !.task.token = k, !.task.lease = "live"]
<1>2. Become(t) /\ leases' = Append(leases, a)
  BY <1>1
<1>3. Safe(Store, s) /\ Sound(s)
  BY SyncAllSafe DEF Inv, Safe
<1>5. s.task.token = 0 /\ s.task.generation # 0
  BY <1>1, <1>3 DEF Sound, Intact, Fenced, NoTask
<1>6. a \in Nat
  <2>1. s.task.attempt \in Nat
    BY <1>3, SoundTypes
  <2> QED
    BY <2>1
<1>7. k \in Nat /\ k # 0 /\ k \in 0..MaxLeases /\ Len(leases) \in Nat /\ MaxLeases \in Nat
      /\ leases \in Seq(Nat) /\ k <= MaxLeases /\ k \in 1..k
  BY Types DEF Inv, TakeTask
<1> HIDE DEF a
<1>8. "active" \in Lists
  BY DEF Lists
<1>9. Safe(s, m) /\ Moved(s, m, "active")
  BY <1>3, <1>5, <1>6, <1>8, MoveSafe
<1> HIDE DEF m
<1>10. Sound(m) /\ m.task \in Tasks /\ m.log \in Seq(Entry) /\ m.lastId \in Nat
       /\ m \in Storage /\ m.task.attempt \in Nat
  BY <1>9, SoundTypes DEF Safe
<1>11. b \in Nat /\ b = a /\ m.task.attempt < b
  <2>1. b = a
    BY <1>9 DEF Moved, a
  <2> QED
    BY <1>10, <2>1
<1> HIDE DEF b, k
<1>12. t.task = [m.task EXCEPT !.attempt = b, !.token = k, !.lease = "live"]
       /\ t.log = m.log /\ t.lastId = m.lastId
       /\ t = [task |-> t.task, log |-> t.log, lastId |-> t.lastId]
  <2>1. t.log = m.log /\ t.lastId = m.lastId
    BY <1>10 DEF Storage
  <2>2. t.task = [m.task EXCEPT !.attempt = b, !.token = k, !.lease = "live"]
    BY <1>10 DEF Storage
  <2>3. t = [task |-> t.task, log |-> t.log, lastId |-> t.lastId]
    <3>1. DOMAIN t = {"task", "log", "lastId"}
      BY <1>10 DEF Storage
    <3>2. t = [x \in DOMAIN t |-> t[x]]
      <4>1. t = [m EXCEPT !.task.attempt = b, !.task.token = k, !.task.lease = "live"]
        OBVIOUS
      <4> QED
        BY <4>1
    <3> HIDE DEF t
    <3> QED
      BY <3>1, <3>2
  <2> QED
    BY <2>1, <2>2, <2>3
<1> HIDE DEF t
<1>13. t.task \in Tasks
  BY <1>7, <1>10, <1>11, <1>12 DEF Tasks
<1>14. t \in Storage
  BY <1>10, <1>12, <1>13 DEF Storage
<1>15. /\ t.task.generation = m.task.generation /\ t.task.sequence = m.task.sequence
       /\ t.task.trimmed = m.task.trimmed /\ t.task.trimmedId = m.task.trimmedId
       /\ t.task.attempt = b /\ t.task.token = k
       /\ t.task.list = m.task.list /\ t.task.settled = m.task.settled
       /\ t.task.lease = "live"
  BY <1>10, <1>12 DEF Tasks
<1>16. Intact(t)
  <2>1. m.task.generation # 0
    BY <1>5, <1>9 DEF Moved
  <2> QED
    BY <1>10, <1>12, <1>15, <2>1 DEF Sound, Intact
<1>17. Fenced(t)
  <2>1. m.task.list = "active"
    BY <1>9 DEF Moved
  <2>2. ASSUME NEW n \in 1..Len(t.log), t.log[n].tag \in Terminal
        PROVE  t.log[n].attempt <= t.task.attempt /\ t.log[n].attempt < t.task.attempt
    <3>1. m.log[n].attempt <= m.task.attempt /\ m.log[n].attempt \in Nat
      BY <1>10, <1>12, <2>2, SoundTypes DEF Sound, Fenced
    <3> QED
      BY <1>10, <1>11, <1>12, <1>15, <3>1
  <2> QED
    BY <1>10, <1>12, <1>15, <2>1, <2>2 DEF Sound, Fenced
<1> QED
  <2>1. given' = given /\ reader' = reader /\ given \in 0..MaxGen /\ given \in Nat
    BY Types DEF Inv, TakeTask
  <2>2. leases' \in Seq(Nat) /\ Len(leases') = k /\ leases'[k] = a /\ k \in DOMAIN leases'
    BY <1>2, <1>6, <1>7, AppendProperties DEF k
  <2>3. TokenTrue'
    BY <1>2, <1>11, <1>15, <2>2 DEF TokenTrue, Become
  <2>4. Sound(t)
    BY <1>14, <1>16, <1>17 DEF Sound
  <2>5. Safe(Store, m)
    BY <1>3, <1>9, SafeTransitive
  <2>6. t.task.generation = m.task.generation /\ m.task.generation # 0
        /\ Store.task = task
    BY <1>5, <1>9, <1>15 DEF Moved, Store
  <2>7. t.task.generation = task.generation
        /\ \A x \in Cursors : Good(Store, x) => Good(t, x)
    <3>1. t.task.generation = task.generation
      BY <2>5, <2>6 DEF Safe
    <3>2. \A x \in Cursors : Good(m, x) => Good(t, x)
      BY <1>12, <1>15 DEF Good
    <3> QED
      BY <2>5, <2>6, <3>1, <3>2 DEF Safe
  <2>8. t.task.generation <= given'
    BY <2>1, <2>7 DEF Inv
  <2>9. Len(leases') <= MaxLeases /\ given' \in 0..MaxGen /\ given <= given'
    BY <1>7, <2>1, <2>2
  <2> QED
    BY <1>2, <2>1, <2>2, <2>3, <2>4, <2>7, <2>8, <2>9, StoreStep

\* A new generation starts with an empty history, which no reader follows yet.
LEMMA OfferTaskInv == Inv /\ OfferTask => Inv'
<1> SUFFICES ASSUME Inv, OfferTask PROVE Inv'
  OBVIOUS
<1>1. PICK s \in SyncAll(Store) :
        LET cleared == IF s.task.generation = 0 THEN s ELSE DeleteTask(s)
            new == [cleared EXCEPT !.task.generation = given + 1]
        IN \E l \in {"wait", "scheduled"} : Become(MoveToList(Publish(new, "created"), l))
  BY DEF OfferTask
<1> DEFINE cleared == IF s.task.generation = 0 THEN s ELSE DeleteTask(s)
           g == given + 1
           new == [cleared EXCEPT !.task.generation = g]
           p == Publish(new, "created")
<1>2. PICK l \in {"wait", "scheduled"} : Become(MoveToList(p, l))
  BY <1>1
<1>3. g \in Nat /\ g \in 0..MaxGen /\ g # 0 /\ given \in Nat /\ g > given /\ given <= g
  BY Types DEF Inv, OfferTask
<1>4. Sound(s)
  BY SyncAllSafe DEF Inv, Safe
<1>5. Sound(cleared) /\ cleared.task = NoTask
  <2>1. CASE s.task.generation = 0
    BY <1>4, <2>1 DEF Sound, Intact
  <2>2. CASE s.task.generation # 0
    BY <1>4, <2>2, DeleteSafe DEF Safe
  <2> QED
    BY <2>1, <2>2
<1> HIDE DEF cleared, g
<1>6. cleared.task \in Tasks /\ cleared.log \in Seq(Entry) /\ cleared.lastId \in Nat
      /\ cleared \in Storage /\ Len(cleared.log) \in Nat
  BY <1>5, SoundTypes
<1>7. new.task = [cleared.task EXCEPT !.generation = g] /\ new.log = cleared.log
      /\ new.lastId = cleared.lastId
      /\ new = [task |-> new.task, log |-> new.log, lastId |-> new.lastId]
  BY <1>6 DEF Storage
<1> HIDE DEF new
<1>8. new.task \in Tasks
  BY <1>3, <1>6, <1>7 DEF Tasks
<1>9. new \in Storage
  BY <1>6, <1>7, <1>8 DEF Storage
<1>10. /\ new.task.generation = g /\ new.task.token = 0 /\ new.task.sequence = 0
       /\ new.task.trimmed = 0 /\ new.task.trimmedId = 0
  BY <1>5, <1>6, <1>7 DEF Tasks, NoTask
<1>11. Sound(new)
  <2>1. Len(cleared.log) = 0
    BY <1>5, <1>6 DEF Sound, Intact, NoTask
  <2>2. Len(new.log) = 0 /\ 1..Len(new.log) = {} /\ MaxHistoryEntries \in Nat
    BY <1>7, <2>1, SizesAssumption
  <2>3. Len(new.log) = new.task.sequence - new.task.trimmed
        /\ Len(new.log) <= MaxHistoryEntries /\ new.task.trimmedId <= new.lastId
    BY <1>6, <1>7, <1>10, <2>2
  <2> QED
    BY <1>3, <1>9, <1>10, <2>2, <2>3 DEF Sound, Intact, Fenced
<1>12. "created" \in Tags \ {"progress"} /\ "created" \notin Terminal
  BY DEF Tags, Terminal
<1>13. Safe(new, p) /\ SameTask(new, p)
  BY <1>3, <1>10, <1>11, <1>12, PublishSafe
<1> HIDE DEF p
<1>14. l \in Lists
  BY DEF Lists
<1>15. Safe(p, MoveToList(p, l)) /\ Moved(p, MoveToList(p, l), l)
  BY <1>3, <1>10, <1>13, <1>14, MoveToListSafe DEF Safe, SameTask
<1> DEFINE t == MoveToList(p, l)
<1>16. t.task.generation = g /\ t.task.token = 0 /\ Sound(t) /\ Become(t)
  BY <1>2, <1>10, <1>13, <1>15 DEF Safe, SameTask, Moved
<1> HIDE DEF t
<1>17. given' = g /\ reader' = reader /\ leases' = leases
  BY DEF OfferTask, g
<1>18. TokenTrue'
  BY <1>16, <1>17 DEF TokenTrue, Become
<1>19. leases' \in Seq(Nat) /\ Len(leases') <= MaxLeases
  BY <1>17, Types DEF Inv
<1>20. t.task.generation <= given' /\ t.task.generation > given
       /\ given <= given' /\ given' \in 0..MaxGen
  BY <1>3, <1>16, <1>17
<1> QED
  BY <1>16, <1>17, <1>18, <1>19, <1>20, StoreStep

\* Every operation keeps the invariant.
LEMMA OperationInv == Inv /\ Operation => Inv'
<1> SUFFICES ASSUME Inv, Operation PROVE Inv'
  OBVIOUS
<1>1. CASE Maintain
  BY <1>1, MaintainInv
<1>2. CASE OfferTask
  BY <1>2, OfferTaskInv
<1>3. CASE TakeTask
  BY <1>3, TakeTaskInv
<1>4. CASE Age
  BY <1>4, AgeInv
<1>5. CASE RemoveTask
  BY <1>5, RemoveTaskInv
<1>6. ASSUME NEW k \in DOMAIN leases,
             ExtendLock(k) \/ RemoveLock(k) \/ Report(k) \/ AppendProgress(k)
      PROVE  Inv'
  BY <1>6, ExtendLockInv, RemoveLockInv, ReportInv, AppendProgressInv
<1> QED
  BY <1>1, <1>2, <1>3, <1>4, <1>5, <1>6 DEF Operation

-----------------------------------------------------------------------------
(* The readers keep the invariant. *)

\* The current store, in terms of the variables.
LEMMA StoreFacts ==
  ASSUME Sound(Store)
  PROVE  /\ Store.task = task /\ Store.log = log /\ Store.lastId = lastId
         /\ log \in Seq(Entry) /\ lastId \in Nat
         /\ task.sequence \in Nat /\ task.trimmed \in Nat /\ task.trimmedId \in Nat
         /\ Len(log) \in Nat /\ Len(log) = task.sequence - task.trimmed
         /\ DOMAIN log = 1..Len(log)
         /\ \A n \in 1..Len(log) :
               /\ log[n] \in Entry /\ log[n].id \in Nat
               /\ log[n].sequence = task.trimmed + n
               /\ log[n].generation = task.generation
               /\ task.trimmedId < log[n].id
         /\ \A m, n \in 1..Len(log) : m < n => log[m].id < log[n].id
<1>1. Store.task = task /\ Store.log = log /\ Store.lastId = lastId
  BY DEF Store
<1>2. DOMAIN log = 1..Len(log)
  BY <1>1, SoundTypes, LenProperties
<1> QED
  BY <1>1, <1>2, SoundTypes DEF Sound, Intact

\* The first entry after a good cursor is the next in sequence.
LEMMA FirstAfter ==
  ASSUME Sound(Store), NEW x \in Cursors, Good(Store, x), x.sequence >= task.trimmed
  PROVE  LET j == x.sequence - task.trimmed
         IN /\ j \in 0..Len(log)
            /\ \A n \in DOMAIN log : n >= j + 1 <=> log[n].id > x.id
            /\ \A k \in 1..(Len(log) + 1) :
                  (\A n \in DOMAIN log : n >= k <=> log[n].id > x.id) => k = j + 1
<1> DEFINE j == x.sequence - task.trimmed
           len == Len(log)
<1>1. x.sequence \in Nat /\ x.id \in Int
  BY DEF Cursors
<1>2. j \in 0..len /\ j \in Nat /\ len \in Nat
  <2>1. x.sequence <= task.sequence
    BY StoreFacts DEF Good
  <2> QED
    BY <1>1, <2>1, StoreFacts
<1>3. DOMAIN log = 1..len
  BY StoreFacts
<1>4. /\ j = 0 => x.id = task.trimmedId
      /\ j > 0 => log[j].id = x.id
  <2>1. task.trimmed \in Nat
    BY StoreFacts
  <2>2. (j = 0 => x.sequence = task.trimmed) /\ (j > 0 => x.sequence > task.trimmed)
    BY <1>1, <2>1
  <2> QED
    BY <2>2, StoreFacts DEF Good
<1>5. /\ \A n \in 1..len : log[n].id \in Nat /\ task.trimmedId < log[n].id
      /\ \A m, n \in 1..len : m < n => log[m].id < log[n].id
      /\ task.trimmedId \in Nat
  BY StoreFacts
<1> HIDE DEF j, len
<1>6. ASSUME NEW n \in 1..len
      PROVE  n >= j + 1 <=> log[n].id > x.id
  <2>1. CASE j = 0
    BY <1>4, <1>5, <1>6, <2>1
  <2>2. CASE j > 0
    <3>1. j \in 1..len /\ log[j].id = x.id
      BY <1>2, <1>4, <2>2
    <3>2. CASE n > j
      BY <1>1, <1>2, <1>5, <1>6, <3>1, <3>2
    <3>3. CASE n < j
      <4>1. log[n].id < log[j].id /\ log[n].id \in Nat /\ log[j].id \in Nat
        BY <1>5, <1>6, <3>1, <3>3
      <4> QED
        BY <1>2, <1>6, <3>1, <3>3, <4>1
    <3>4. CASE n = j
      BY <1>1, <1>2, <3>1, <3>4
    <3> QED
      BY <1>2, <1>6, <3>2, <3>3, <3>4
  <2> QED
    BY <1>2, <2>1, <2>2
<1>7. ASSUME NEW k \in 1..(len + 1), \A n \in 1..len : n >= k <=> log[n].id > x.id
      PROVE  k = j + 1
  <2>1. \A n \in 1..len : n >= k <=> n >= j + 1
    BY <1>6, <1>7
  <2>2. CASE k \in 1..len
    <3>1. k >= j + 1
      BY <1>2, <2>1, <2>2
    <3>2. j + 1 \in 1..len
      BY <1>2, <2>2, <3>1
    <3>3. j + 1 >= k
      BY <1>2, <2>1, <3>2
    <3> QED
      BY <1>2, <2>2, <3>1, <3>3
  <2>3. CASE k = len + 1
    <3>1. ~(j + 1 \in 1..len)
      BY <1>2, <2>1, <2>3
    <3> QED
      BY <1>2, <2>3, <3>1
  <2> QED
    BY <1>2, <2>2, <2>3
<1> QED
  BY <1>2, <1>3, <1>6, <1>7 DEF j, len

\* A page holds the entries after its cursor, in sequence and without a gap.
LEMMA PageShape ==
  ASSUME Sound(Store), NEW x \in Cursors, Good(Store, x), x.sequence >= task.trimmed
  PROVE  LET page == PageAfter(x)
         IN /\ page \in Seq(Entry) /\ Len(page) \in Nat
            /\ x.sequence + Len(page) <= task.sequence
            /\ \A n \in 1..Len(page) :
                  /\ page[n] \in Entry
                  /\ page[n].sequence = x.sequence + n
                  /\ page[n].generation = task.generation
                  /\ x.sequence + n - task.trimmed \in 1..Len(log)
                  /\ page[n].id = log[x.sequence + n - task.trimmed].id
<1> DEFINE j == x.sequence - task.trimmed
           len == Len(log)
           P(k) == \A n \in DOMAIN log : n >= k <=> log[n].id > x.id
           first == CHOOSE k \in 1..(Len(log) + 1) : P(k)
           last == first + Limit - 1
           end == IF last < len THEN last ELSE len
           page == SubSeq(log, first, end)
<1>1. PageAfter(x) = page
  BY DEF PageAfter
<1>2. j \in 0..len /\ P(j + 1) /\ \A k \in 1..(Len(log) + 1) : P(k) => k = j + 1
  BY FirstAfter
<1>3. len \in Nat /\ j \in Nat /\ j + 1 \in 1..(Len(log) + 1)
  BY <1>2, StoreFacts
<1>4. first = j + 1
  <2> HIDE DEF P
  <2> QED
    BY <1>2, <1>3
<1>5. Limit \in Nat \ {0}
  BY SizesAssumption
<1>6. log \in Seq(Entry)
  BY StoreFacts
<1>7. x.sequence \in Nat /\ task.trimmed \in Nat /\ task.sequence \in Nat
      /\ x.sequence = task.trimmed + j /\ task.sequence = task.trimmed + len
  BY StoreFacts DEF Cursors
<1> HIDE DEF j, len, first, P
<1>8. end \in j..len /\ end \in Nat
  BY <1>2, <1>3, <1>4, <1>5
<1> HIDE DEF end
<1>9. /\ page \in Seq(Entry) /\ Len(page) = end - j
      /\ \A n \in 1..(end - j) : page[n] = log[j + n]
  <2>1. \A i \in (j + 1)..end : log[i] \in Entry
    <3>1. \A i \in (j + 1)..end : i \in 1..len
      BY <1>3, <1>8
    <3> QED
      BY <1>6, <3>1, ElementOfSeq DEF len
  <2>2. j + 1 \in Int /\ end \in Int
    BY <1>3, <1>8
  <2>3. /\ SubSeq(log, j + 1, end) \in Seq(Entry)
        /\ Len(SubSeq(log, j + 1, end)) = IF j + 1 <= end THEN end - (j + 1) + 1 ELSE 0
        /\ \A i \in 1..(end - (j + 1) + 1) : SubSeq(log, j + 1, end)[i] = log[j + 1 + i - 1]
    BY <2>1, <2>2, SubSeqProperties
  <2>4. page = SubSeq(log, j + 1, end)
    BY <1>4
  <2> HIDE DEF page
  <2>5. Len(page) = end - j
    BY <1>3, <1>8, <2>3, <2>4
  <2>6. ASSUME NEW n \in 1..(end - j) PROVE page[n] = log[j + n]
    <3>1. n \in 1..(end - (j + 1) + 1) /\ j + 1 + n - 1 = j + n
      BY <1>3, <1>8
    <3> QED
      BY <2>3, <2>4, <3>1
  <2> QED
    BY <2>3, <2>4, <2>5, <2>6
<1> QED
  <2> HIDE DEF page
  <2>1. Len(page) \in Nat /\ x.sequence + Len(page) <= task.sequence
    BY <1>3, <1>7, <1>8, <1>9
  <2>2. ASSUME NEW n \in 1..Len(page)
        PROVE  /\ page[n] \in Entry
               /\ page[n].sequence = x.sequence + n
               /\ page[n].generation = task.generation
               /\ x.sequence + n - task.trimmed \in 1..Len(log)
               /\ page[n].id = log[x.sequence + n - task.trimmed].id
    <3>1. /\ j + n \in 1..len /\ x.sequence + n - task.trimmed = j + n
          /\ task.trimmed + (j + n) = x.sequence + n
      <4>1. n \in 1..(end - j) /\ n \in Nat
        BY <1>9, <2>1
      <4>2. j + n \in 1..len
        BY <1>3, <1>8, <4>1
      <4>3. x.sequence = task.trimmed + j /\ task.trimmed \in Nat /\ x.sequence \in Nat
        BY <1>7
      <4>4. \A q, r, i, m \in Nat :
              q = r + i => q + m - r = i + m /\ r + (i + m) = q + m
        OBVIOUS
      <4> QED
        BY <1>3, <4>1, <4>2, <4>3, <4>4
    <3>2. page[n] = log[j + n]
      BY <1>9
    <3>3. /\ log[j + n] \in Entry /\ log[j + n].sequence = task.trimmed + (j + n)
          /\ log[j + n].generation = task.generation
      BY <3>1, StoreFacts DEF len
    <3> QED
      BY <3>1, <3>2, <3>3 DEF len
  <2> QED
    BY <1>1, <1>9, <2>1, <2>2

\* A reader that changes alone.
LEMMA ReaderStep ==
  ASSUME Inv, UNCHANGED <<task, log, lastId, given, leases>>, NEW r \in Readers,
         NEW c \in ReaderRecords, Honest(c), reader' = [reader EXCEPT ![r] = c]
  PROVE  Inv'
<1>1. reader \in [Readers -> ReaderRecords]
  BY Types DEF Inv
<1>2. reader' \in [Readers -> ReaderRecords]
      /\ \A x \in Readers : reader'[x] = IF x = r THEN c ELSE reader[x]
  BY <1>1
<1>3. Store' = Store
  BY DEF Store
<1>4. TypeOK'
  BY <1>2 DEF Inv, TypeOK, ReaderRecords, Cursors
<1>5. ASSUME NEW x \in Readers PROVE Honest(reader[x])'
  <2> DEFINE d == IF x = r THEN c ELSE reader[x]
  <2>1. Honest(d)
    BY DEF Inv
  <2>2. reader'[x] = d
    BY <1>2
  <2> HIDE DEF d
  <2> QED
    BY <1>3, <2>1, <2>2 DEF Honest
<1>6. Sound(Store') /\ TokenTrue' /\ task'.generation <= given'
  BY <1>3 DEF Inv, TokenTrue
<1> QED
  BY <1>4, <1>5, <1>6 DEF Inv

\* What a reader has in hand.
LEMMA ReaderTypes ==
  ASSUME Inv, NEW r \in Readers
  PROVE  LET c == reader[r]
         IN /\ c \in ReaderRecords /\ Honest(c)
            /\ c.generation \in 0..MaxGen /\ c.after \in Cursors /\ c.saved \in Cursors
            /\ c.seen \in SUBSET Nat /\ c.lost \in SUBSET Nat /\ c.answer \in Answers
            /\ c.after.sequence \in Nat /\ c.saved.sequence \in Nat
<1> DEFINE c == reader[r]
<1>1. c \in ReaderRecords /\ Honest(c)
  BY Types DEF Inv
<1> HIDE DEF c
<1>2. /\ c.generation \in 0..MaxGen /\ c.after \in Cursors /\ c.saved \in Cursors
      /\ c.seen \in SUBSET Nat /\ c.lost \in SUBSET Nat /\ c.answer \in Answers
  BY <1>1 DEF ReaderRecords
<1> QED
  BY <1>1, <1>2 DEF c, Cursors

\* A reader that follows a new generation has nothing in hand that could be wrong.
LEMMA FollowInv == ASSUME Inv, NEW r \in Readers, Follow(r) PROVE Inv'
<1> DEFINE c == NewReader(given)
<1>1. given \in 0..MaxGen /\ given \in Nat
  BY Types DEF Inv
<1>2. NoCursor \in Cursors /\ NoCursor.sequence = 0
  BY DEF NoCursor, Cursors
<1>3. c.generation = given /\ c.after = NoCursor /\ c.saved = NoCursor
      /\ c.seen = {} /\ c.lost = {} /\ c.answer = "ok"
  BY DEF NewReader
<1>4. c \in ReaderRecords
  BY <1>1, <1>2 DEF NewReader, ReaderRecords, Answers
<1>5. reader' = [reader EXCEPT ![r] = c] /\ UNCHANGED <<task, log, lastId, given, leases>>
  BY DEF Follow
<1> HIDE DEF c
<1>6. Honest(c)
  <2>1. 1..c.after.sequence = {} /\ c.saved.sequence <= c.after.sequence
    BY <1>2, <1>3
  <2> QED
    BY <1>1, <1>3, <2>1 DEF Honest
<1> QED
  BY <1>4, <1>5, <1>6, ReaderStep

\* A cursor that is saved is one that was given.
LEMMA SaveInv == ASSUME Inv, NEW r \in Readers, Save(r) PROVE Inv'
<1> DEFINE o == reader[r]
           c == [o EXCEPT !.saved = o.after]
<1>1. /\ o \in ReaderRecords /\ Honest(o) /\ o.after \in Cursors
      /\ o.after.sequence \in Nat
  BY ReaderTypes
<1>2. reader' = [reader EXCEPT ![r] = c] /\ UNCHANGED <<task, log, lastId, given, leases>>
  <2>1. reader \in [Readers -> ReaderRecords]
    BY Types DEF Inv
  <2> QED
    BY <2>1 DEF Save
<1> HIDE DEF o
<1>3. c \in ReaderRecords /\ c.saved = o.after /\ c.after = o.after
      /\ c.generation = o.generation /\ c.seen = o.seen /\ c.lost = o.lost
      /\ c.answer = o.answer
  BY <1>1 DEF ReaderRecords
<1> HIDE DEF c
<1>4. Honest(c)
  BY <1>1, <1>3 DEF Honest
<1> QED
  BY <1>2, <1>3, <1>4, ReaderStep

\* A client that starts again knows what it knew when it saved its cursor.
LEMMA RestartInv == ASSUME Inv, NEW r \in Readers, Restart(r) PROVE Inv'
<1> DEFINE o == reader[r]
           K(S) == S \cap 1..o.saved.sequence
           c == [o EXCEPT !.after = o.saved, !.seen = K(o.seen), !.lost = K(o.lost)]
<1>1. /\ o \in ReaderRecords /\ Honest(o) /\ o.saved \in Cursors
      /\ o.after.sequence \in Nat /\ o.saved.sequence \in Nat
      /\ o.seen \in SUBSET Nat /\ o.lost \in SUBSET Nat
  BY ReaderTypes
<1>2. reader' = [reader EXCEPT ![r] = c] /\ UNCHANGED <<task, log, lastId, given, leases>>
  BY DEF Restart
<1> HIDE DEF o
<1>3. K(o.seen) \in SUBSET Nat /\ K(o.lost) \in SUBSET Nat
  BY <1>1
<1>4. K(o.seen) \cup K(o.lost) = 1..o.saved.sequence /\ K(o.seen) \cap K(o.lost) = {}
  <2>1. o.seen \cup o.lost = 1..o.after.sequence /\ o.seen \cap o.lost = {}
        /\ o.saved.sequence <= o.after.sequence
    BY <1>1 DEF Honest
  <2>2. 1..o.saved.sequence \subseteq 1..o.after.sequence
    BY <1>1, <2>1
  <2> QED
    BY <2>1, <2>2
<1>5. o.saved.sequence <= o.saved.sequence
  BY <1>1
<1> DEFINE ks == K(o.seen)  kl == K(o.lost)
<1> HIDE DEF ks, kl
<1>6. c = [o EXCEPT !.after = o.saved, !.seen = ks, !.lost = kl]
  BY DEF ks, kl
<1>7. ks \in SUBSET Nat /\ kl \in SUBSET Nat
      /\ ks \cup kl = 1..o.saved.sequence /\ ks \cap kl = {}
  BY <1>3, <1>4 DEF ks, kl
<1> HIDE DEF c, K
<1>8. c \in ReaderRecords
  BY <1>1, <1>6, <1>7 DEF ReaderRecords
<1>9. c.saved = o.saved /\ c.after = o.saved
      /\ c.generation = o.generation /\ c.seen = ks /\ c.lost = kl
      /\ c.answer = o.answer
  BY <1>1, <1>6 DEF ReaderRecords
<1>10. Honest(c)
  BY <1>1, <1>5, <1>7, <1>9 DEF Honest
<1> QED
  BY <1>2, <1>8, <1>10, ReaderStep

\* A good cursor is served, or told that the entries after it are gone.
LEMMA VerdictGood ==
  ASSUME Sound(Store), NEW c \in Cursors, c = NoCursor \/ Good(Store, c)
  PROVE  /\ Verdict(c) \in {"ok", "expired"}
         /\ Verdict(c) = "expired" => c # NoCursor /\ c.sequence < task.trimmed
         /\ Verdict(c) = "ok" => c = NoCursor \/ c.sequence >= task.trimmed
<1>1. c.sequence \in Nat /\ task.trimmed \in Nat /\ task.sequence \in Nat
  BY StoreFacts DEF Cursors
<1>2. CASE c = NoCursor
  BY <1>2 DEF Verdict
<1>3. CASE c # NoCursor
  <2>1. c.sequence <= task.sequence
        /\ (c.sequence = task.trimmed => c.id = task.trimmedId)
        /\ (c.sequence > task.trimmed => log[c.sequence - task.trimmed].id = c.id)
    BY <1>3, StoreFacts DEF Good
  <2>2. ~(c.sequence > task.sequence)
    BY <1>1, <2>1
  <2>3. CASE c.sequence < task.trimmed
    <3>1. Verdict(c) = "expired"
      <4>1. c.sequence # task.trimmed
        BY <1>1, <2>3
      <4> QED
        BY <1>1, <1>3, <2>2, <2>3, <4>1 DEF Verdict
    <3> QED
      BY <1>1, <1>3, <2>3, <3>1
  <2>4. CASE c.sequence = task.trimmed
    <3>1. ~(c.sequence < task.trimmed) /\ c.sequence >= task.trimmed
      BY <1>1, <2>4
    <3> QED
      BY <1>3, <2>1, <2>2, <2>4, <3>1 DEF Verdict
  <2>5. CASE c.sequence > task.trimmed
    <3> DEFINE n == c.sequence - task.trimmed
    <3>1. n \in Nat /\ n >= 1 /\ n <= task.sequence - task.trimmed
          /\ task.trimmed + n = c.sequence
      BY <1>1, <2>1, <2>5
    <3>2. n \in DOMAIN log
      <4> HIDE DEF n
      <4>1. Len(log) \in Nat /\ Len(log) = task.sequence - task.trimmed
            /\ DOMAIN log = 1..Len(log)
        BY StoreFacts
      <4> QED
        BY <3>1, <4>1
    <3>3. log[n].id = c.id /\ log[n].sequence = c.sequence
      <4>1. log[n].id = c.id
        BY <2>1, <2>5
      <4> HIDE DEF n
      <4>2. log[n].sequence = task.trimmed + n
        BY <3>2, StoreFacts
      <4> QED
        BY <3>1, <4>1, <4>2
    <3>4. ~(c.sequence < task.trimmed) /\ c.sequence >= task.trimmed
          /\ c.sequence # task.trimmed
      BY <1>1, <2>5
    <3> HIDE DEF n
    <3>5. \E m \in DOMAIN log : log[m].id = c.id /\ log[m].sequence = c.sequence
      BY <3>2, <3>3
    <3>6. Verdict(c) = "ok"
      BY <1>3, <2>2, <3>4, <3>5, Zenon DEF Verdict
    <3> QED
      BY <3>4, <3>6
  <2> QED
    BY <1>1, <2>3, <2>4, <2>5
<1> QED
  BY <1>2, <1>3

\* The boundary of what was trimmed is a good cursor.
LEMMA BoundaryGood ==
  ASSUME Sound(Store)
  PROVE  /\ Boundary \in Cursors /\ Good(Store, Boundary)
         /\ Boundary.sequence = task.trimmed
<1>1. task.trimmed \in Nat /\ task.trimmedId \in Nat /\ task.sequence \in Nat
      /\ task.trimmed <= task.sequence
  BY StoreFacts
<1>2. Boundary = [sequence |-> task.trimmed, id |-> task.trimmedId]
  BY DEF Boundary, Cursor
<1>3. Boundary \in Cursors /\ Boundary.sequence = task.trimmed
      /\ Boundary.id = task.trimmedId
  BY <1>1, <1>2 DEF Cursors
<1> QED
  BY <1>1, <1>3, StoreFacts DEF Good

\* What ReadHistory gives a reader that is served.
From(o) == IF o.after = NoCursor THEN Boundary ELSE o.after
Page(o) == PageAfter(From(o))
Served(o) ==
    [o EXCEPT
       !.answer = "ok",
       !.after = IF Page(o) # <<>>
                 THEN Cursor(Page(o)[Len(Page(o))].sequence, Page(o)[Len(Page(o))].id)
                 ELSE From(o),
       !.lost = IF o.after = NoCursor THEN 1..task.trimmed ELSE @,
       !.seen = @ \cup {Page(o)[n].sequence : n \in DOMAIN Page(o)}]

\* A reader of the stored generation that is served: it gets the entries up to
\* its new cursor, and no others.
LEMMA ServedHonest ==
  ASSUME Inv, NEW r \in Readers,
         reader[r].generation # 0, reader[r].generation = task.generation,
         Verdict(reader[r].after) = "ok"
  PROVE  /\ Served(reader[r]) \in ReaderRecords /\ Honest(Served(reader[r]))
         /\ \A n \in DOMAIN Page(reader[r]) :
               DecodeRecord(Page(reader[r])[n], reader[r].generation) = "ok"
         /\ Contiguous(Page(reader[r]), From(reader[r]).sequence)
<1> DEFINE o == reader[r]
           from == From(o)
           page == Page(o)
           c == Served(o)
<1>1. Sound(Store)
  BY DEF Inv
<1>2. /\ o \in ReaderRecords /\ Honest(o) /\ o.after \in Cursors /\ o.saved \in Cursors
      /\ o.after.sequence \in Nat /\ o.saved.sequence \in Nat
      /\ o.seen \in SUBSET Nat /\ o.lost \in SUBSET Nat
      /\ o.generation # 0 /\ o.generation = task.generation
  BY ReaderTypes
<1>3. Verdict(o.after) = "ok"
      /\ page = PageAfter(from)
      /\ from = IF o.after = NoCursor THEN Boundary ELSE o.after
  BY DEF From, Page
<1> DEFINE last == page[Len(page)]
           after == IF page # <<>> THEN Cursor(last.sequence, last.id) ELSE from
           lost == IF o.after = NoCursor THEN 1..task.trimmed ELSE o.lost
           more == {page[n].sequence : n \in DOMAIN page}
           seen == o.seen \cup more
<1>4. c = [o EXCEPT !.answer = "ok", !.after = after, !.lost = lost, !.seen = seen]
  BY Zenon DEF Served
<1> HIDE DEF o, from, page, c
<1>5. from \in Cursors /\ Good(Store, from) /\ from.sequence >= task.trimmed
      /\ from.sequence \in Nat
  <2>1. CASE o.after = NoCursor
    <3>1. task.trimmed \in Nat /\ task.trimmed >= task.trimmed
      BY <1>1, StoreFacts
    <3> QED
      BY <1>1, <1>3, <2>1, <3>1, BoundaryGood
  <2>2. CASE o.after # NoCursor
    <3>1. Good(Store, o.after)
      BY <1>2, <2>2 DEF Honest
    <3>2. o.after.sequence >= task.trimmed
      BY <1>1, <1>2, <1>3, <2>2, <3>1, VerdictGood
    <3> QED
      BY <1>2, <1>3, <2>2, <3>1, <3>2
  <2> QED
    BY <2>1, <2>2
<1>6. /\ page \in Seq(Entry) /\ Len(page) \in Nat
      /\ from.sequence + Len(page) <= task.sequence
      /\ \A n \in 1..Len(page) :
            /\ page[n] \in Entry
            /\ page[n].sequence = from.sequence + n
            /\ page[n].generation = task.generation
            /\ from.sequence + n - task.trimmed \in 1..Len(log)
            /\ page[n].id = log[from.sequence + n - task.trimmed].id
      /\ DOMAIN page = 1..Len(page)
  <2>1. DOMAIN PageAfter(from) = 1..Len(PageAfter(from))
    BY <1>1, <1>5, PageShape, LenProperties
  <2> QED
    BY <1>1, <1>3, <1>5, <2>1, PageShape
<1>7. Contiguous(page, from.sequence)
  BY <1>6 DEF Contiguous
<1>8. ASSUME NEW n \in DOMAIN page PROVE DecodeRecord(page[n], o.generation) = "ok"
  <2>1. page[n].generation = o.generation /\ page[n].sequence = from.sequence + n
        /\ n \in 1..Len(page)
    BY <1>2, <1>6
  <2>2. n \in Nat /\ n >= 1
    BY <1>6, <2>1
  <2>3. \A q \in Nat : q + n >= 1
    BY <2>2
  <2>4. page[n].sequence >= 1
    BY <1>5, <2>1, <2>3
  <2> QED
    BY <2>1, <2>4 DEF DecodeRecord
<1> DEFINE len == Len(page)  f == from.sequence
<1>11. /\ f \in Nat /\ len \in Nat /\ DOMAIN page = 1..len
       /\ \A n \in 1..len : page[n].sequence = f + n
  BY <1>5, <1>6
<1>9. more = (f + 1)..(f + len)
  <2> HIDE DEF f, len
  <2>1. more = {f + n : n \in 1..len}
    BY <1>11
  <2>2. ASSUME NEW q \in (f + 1)..(f + len)
        PROVE  \E n \in 1..len : q = f + n
    <3>1. q - f \in 1..len /\ q = f + (q - f)
      BY <1>11
    <3> QED
      BY <3>1
  <2>3. \A n \in 1..len : f + n \in (f + 1)..(f + len)
    BY <1>11
  <2> HIDE DEF more
  <2> QED
    BY <2>1, <2>2, <2>3
<1>10. after \in Cursors /\ Good(Store, after) /\ after.sequence = f + len
  <2>1. CASE page = <<>>
    <3>1. len = 0 /\ after = from
      BY <2>1, EmptySeq
    <3>2. f + 0 = f
      BY <1>11
    <3> QED
      BY <1>5, <3>1, <3>2
  <2>2. CASE page # <<>>
    <3>1. len \in 1..len
      BY <1>6, <2>2, EmptySeq
    <3>2. /\ last \in Entry /\ last.sequence = f + len
          /\ f + len - task.trimmed \in 1..Len(log)
          /\ last.id = log[f + len - task.trimmed].id
      BY <1>6, <3>1
    <3>7. f + len <= task.sequence /\ f >= task.trimmed
      BY <1>5, <1>6
    <3> HIDE DEF last, len, f
    <3>3. after = [sequence |-> last.sequence, id |-> last.id]
      BY <2>2 DEF Cursor
    <3> HIDE DEF after
    <3>4. last.sequence \in Nat /\ last.id \in Nat
      BY <3>2 DEF Entry
    <3>5. after \in Cursors /\ after.sequence = f + len /\ after.id = last.id
      BY <3>2, <3>3, <3>4 DEF Cursors
    <3>6. after.sequence <= task.sequence /\ after.sequence > task.trimmed
          /\ after.sequence # task.trimmed
      <4>1. task.trimmed \in Nat /\ task.sequence \in Nat
        BY <1>1, StoreFacts
      <4>2. f + len <= task.sequence /\ f + len > task.trimmed /\ f + len # task.trimmed
        BY <1>11, <3>1, <3>7, <4>1
      <4> QED
        BY <3>5, <4>2
    <3>8. log[after.sequence - task.trimmed].id = after.id
      <4> DEFINE i == f + len - task.trimmed
                 j == after.sequence - task.trimmed
      <4>1. task.trimmed \in Nat
        BY <1>1, StoreFacts
      <4>2. i = j
        BY <1>11, <3>5, <4>1
      <4>3. last.id = log[i].id /\ last.id = after.id
        BY <3>2, <3>5
      <4> HIDE DEF i, j
      <4>4. log[j].id = after.id
        BY <4>2, <4>3
      <4> QED
        BY <4>4 DEF j
    <3> QED
      BY <1>1, <3>5, <3>6, <3>8, StoreFacts DEF Good
  <2> QED
    BY <2>1, <2>2
<1> QED
  <2>1. lost \in SUBSET Nat /\ o.saved.sequence <= f
        /\ o.seen \cup lost = 1..f /\ o.seen \cap lost = {}
    <3>1. /\ o.seen \cup o.lost = 1..o.after.sequence /\ o.seen \cap o.lost = {}
          /\ o.saved.sequence <= o.after.sequence
      BY <1>2 DEF Honest
    <3>2. CASE o.after = NoCursor
      <4>1. o.after.sequence = 0 /\ lost = 1..task.trimmed /\ f = task.trimmed
        BY <1>1, <1>3, <3>2, BoundaryGood DEF NoCursor
      <4>2. 1..o.after.sequence = {} /\ o.saved.sequence <= f
            /\ 1..task.trimmed \in SUBSET Nat
        BY <1>2, <1>11, <3>1, <4>1
      <4> QED
        BY <3>1, <4>1, <4>2
    <3>3. CASE o.after # NoCursor
      BY <1>2, <1>3, <3>1, <3>3
    <3> QED
      BY <3>2, <3>3
  <2> HIDE DEF after, lost, more, len, f
  <2>2. more \in SUBSET Nat /\ f <= f + len
        /\ 1..f \cap more = {} /\ 1..f \cup more = 1..(f + len)
    BY <1>9, <1>11
  <2>3. seen \in SUBSET Nat /\ seen \cup lost = 1..(f + len) /\ seen \cap lost = {}
    BY <1>2, <2>1, <2>2
  <2> HIDE DEF seen
  <2>4. c \in ReaderRecords
    BY <1>2, <1>4, <1>10, <2>1, <2>3 DEF ReaderRecords, Answers
  <2>5. c.after = after /\ c.lost = lost /\ c.seen = seen /\ c.answer = "ok"
        /\ c.saved = o.saved /\ c.generation = o.generation
    BY <1>2, <1>4 DEF ReaderRecords
  <2>6. o.saved.sequence <= after.sequence
    BY <1>2, <1>10, <1>11, <2>1, <2>2
  <2>7. Honest(c)
    BY <1>2, <1>10, <2>3, <2>5, <2>6 DEF Honest
  <2> QED
    BY <1>7, <1>8, <2>4, <2>7 DEF o, from, page, c

\* A reader that is told that entries are gone goes on from the earliest one.
LEMMA ExpiredHonest ==
  ASSUME Inv, NEW r \in Readers, NEW c,
         reader[r].generation # 0, reader[r].generation = task.generation,
         Verdict(reader[r].after) = "expired",
         c = [reader[r] EXCEPT
                !.answer = "expired", !.after = Boundary,
                !.lost = @ \cup (reader[r].after.sequence + 1)..task.trimmed]
  PROVE  c \in ReaderRecords /\ Honest(c)
<1> DEFINE o == reader[r]
           more == (o.after.sequence + 1)..task.trimmed
           lost == o.lost \cup more
<1>1. Sound(Store)
  BY DEF Inv
<1>2. /\ o \in ReaderRecords /\ Honest(o) /\ o.after \in Cursors /\ o.saved \in Cursors
      /\ o.after.sequence \in Nat /\ o.saved.sequence \in Nat
      /\ o.seen \in SUBSET Nat /\ o.lost \in SUBSET Nat
      /\ o.generation # 0 /\ o.generation = task.generation
      /\ Verdict(o.after) = "expired"
  BY ReaderTypes
<1>3. c = [o EXCEPT !.answer = "expired", !.after = Boundary, !.lost = lost]
  BY Zenon
<1> HIDE DEF o
<1>4. o.after # NoCursor /\ o.after.sequence < task.trimmed
  BY <1>1, <1>2, VerdictGood DEF Honest
<1>5. /\ Boundary \in Cursors /\ Good(Store, Boundary)
      /\ Boundary.sequence = task.trimmed /\ task.trimmed \in Nat
  BY <1>1, BoundaryGood, StoreFacts
<1>6. o.seen \cup o.lost = 1..o.after.sequence /\ o.seen \cap o.lost = {}
      /\ o.saved.sequence <= o.after.sequence
  BY <1>2 DEF Honest
<1>7. more \in SUBSET Nat /\ 1..o.after.sequence \cup more = 1..task.trimmed
      /\ 1..o.after.sequence \cap more = {}
  BY <1>2, <1>4, <1>5
<1> HIDE DEF more
<1>8. lost \in SUBSET Nat /\ o.seen \cup lost = 1..task.trimmed /\ o.seen \cap lost = {}
  BY <1>2, <1>6, <1>7
<1> HIDE DEF lost
<1>9. o.saved.sequence <= task.trimmed
  BY <1>2, <1>4, <1>5, <1>6
<1>10. c \in ReaderRecords
  BY <1>2, <1>3, <1>5, <1>8 DEF ReaderRecords, Answers
<1>11. c.after = Boundary /\ c.lost = lost /\ c.seen = o.seen /\ c.answer = "expired"
       /\ c.saved = o.saved /\ c.generation = o.generation
  BY <1>2, <1>3 DEF ReaderRecords
<1>12. Honest(c)
  BY <1>2, <1>5, <1>8, <1>9, <1>11 DEF Honest
<1> QED
  BY <1>10, <1>12

\* A page contains what comes next, or says that something is lost.
LEMMA ReadHistoryInv == ASSUME Inv, NEW r \in Readers, ReadHistory(r) PROVE Inv'
<1> DEFINE o == reader[r]
           from == IF o.after = NoCursor THEN Boundary ELSE o.after
           page == PageAfter(from)
           last == page[Len(page)]
           readable == /\ \A n \in DOMAIN page : DecodeRecord(page[n], o.generation) = "ok"
                       /\ Contiguous(page, from.sequence)
           answer == IF HistoryReply(o) = "ok" /\ ~readable THEN "corrupt"
                     ELSE HistoryReply(o)
           answered == [o EXCEPT !.answer = answer]
           expired == [answered EXCEPT
                         !.after = Boundary,
                         !.lost = @ \cup (o.after.sequence + 1)..task.trimmed]
           served == [answered EXCEPT
                        !.after = IF page # <<>> THEN Cursor(last.sequence, last.id) ELSE from,
                        !.lost = IF o.after = NoCursor THEN 1..task.trimmed ELSE @,
                        !.seen = @ \cup {page[n].sequence : n \in DOMAIN page}]
           c == CASE answer = "expired" -> expired
                  [] answer = "ok" -> served
                  [] OTHER -> answered
<1>1. /\ reader' = [reader EXCEPT ![r] = c]
      /\ o.generation # 0 /\ UNCHANGED <<task, log, lastId, given, leases>>
  BY Zenon DEF ReadHistory
<1>2. o \in ReaderRecords /\ Honest(o) /\ o.after \in Cursors /\ Sound(Store)
  BY ReaderTypes DEF Inv
<1>3. CASE task.generation # o.generation
  <2>1. answer = "unavailable"
    BY <1>3 DEF HistoryReply
  <2>2. c = [o EXCEPT !.answer = "unavailable"]
    BY <2>1
  <2> HIDE DEF o, c
  <2>3. c \in ReaderRecords /\ c.answer = "unavailable" /\ c.generation = o.generation
        /\ c.after = o.after /\ c.saved = o.saved /\ c.seen = o.seen /\ c.lost = o.lost
    BY <1>2, <2>2 DEF ReaderRecords, Answers
  <2>4. Honest(c)
    BY <1>2, <2>3 DEF Honest
  <2> QED
    BY <1>1, <2>3, <2>4, ReaderStep
<1>4. CASE task.generation = o.generation
  <2>1. HistoryReply(o) = Verdict(o.after)
    BY <1>4 DEF HistoryReply
  <2>2. Verdict(o.after) \in {"ok", "expired"}
    BY <1>1, <1>2, <1>4, VerdictGood DEF Honest
  <2>3. CASE Verdict(o.after) = "expired"
    <3>1. answer = "expired" /\ c = expired
      BY <2>1, <2>3
    <3>2. expired = [o EXCEPT !.answer = "expired", !.after = Boundary,
                              !.lost = @ \cup (o.after.sequence + 1)..task.trimmed]
      BY <1>2, <3>1 DEF ReaderRecords
    <3>3. c \in ReaderRecords /\ Honest(c)
      BY <1>1, <1>4, <2>3, <3>1, <3>2, ExpiredHonest
    <3> HIDE DEF c
    <3> QED
      BY <1>1, <3>3, ReaderStep
  <2>4. CASE Verdict(o.after) = "ok"
    <3> DEFINE d == Served(o)
    <3>1. d \in ReaderRecords /\ Honest(d) /\ readable
      BY <1>1, <1>4, <2>4, ServedHonest DEF From, Page
    <3>2. answer = "ok" /\ c = served
      BY <2>1, <2>4, <3>1
    <3>3. served = d
      BY <1>2, <3>2 DEF ReaderRecords, Served, From, Page
    <3> HIDE DEF c, d
    <3> QED
      BY <1>1, <3>1, <3>2, <3>3, ReaderStep
  <2> QED
    BY <2>2, <2>3, <2>4
<1> QED
  BY <1>3, <1>4

-----------------------------------------------------------------------------
(* The theorems. *)

\* Every step keeps the invariant.
LEMMA StepInv == Inv /\ [Next]_vars => Inv'
<1> SUFFICES ASSUME Inv, [Next]_vars PROVE Inv'
  OBVIOUS
<1>1. CASE Operation
  BY <1>1, OperationInv
<1>2. ASSUME NEW r \in Readers, Read(r) PROVE Inv'
  BY <1>2, ReadHistoryInv, FollowInv, SaveInv, RestartInv DEF Read
<1>3. CASE UNCHANGED vars
  <2>1. Store' = Store /\ UNCHANGED <<task, given, leases, reader>>
    BY <1>3 DEF vars, Store
  <2>2. TypeOK'
    BY <1>3 DEF vars, Inv, TypeOK
  <2> QED
    BY <2>1, <2>2 DEF Inv, TokenTrue, Honest
<1> QED
  BY <1>1, <1>2, <1>3 DEF Next

\* The invariant says that cursors are honoured,
LEMMA InvCursors == Inv => CursorsHonoured
<1> SUFFICES ASSUME Inv PROVE CursorsHonoured
  OBVIOUS
<1>1. Sound(Store)
  BY DEF Inv
<1>2. HistoryIntact
  <2>1. Len(log) = task.sequence - task.trimmed
    BY <1>1, StoreFacts
  <2>2. ASSUME NEW n \in DOMAIN log
        PROVE  /\ log[n].sequence = task.trimmed + n
               /\ log[n].generation = task.generation
               /\ (IF n = 1 THEN task.trimmedId ELSE log[n - 1].id) < log[n].id
               /\ log[n].id <= lastId
    <3>1. n \in 1..Len(log) /\ Len(log) \in Nat
      BY <1>1, StoreFacts
    <3>2. log[n].id <= lastId
      BY <1>1, <3>1, StoreFacts DEF Sound, Intact
    <3>3. CASE n = 1
      BY <1>1, <3>1, <3>2, <3>3, StoreFacts
    <3>4. CASE n # 1
      <4>1. n - 1 \in 1..Len(log) /\ n - 1 < n
        BY <3>1, <3>4
      <4> QED
        BY <1>1, <3>1, <3>2, <3>4, <4>1, StoreFacts
    <3> QED
      BY <3>3, <3>4
  <2> QED
    BY <2>1, <2>2 DEF HistoryIntact
<1> QED
  BY <1>2 DEF Inv, Honest, CursorsHonoured

\* and that progress is fenced.
LEMMA InvFenced == Inv => ProgressFenced
<1> SUFFICES ASSUME Inv PROVE ProgressFenced
  OBVIOUS
<1>1. Fenced(Store) /\ Store.log = log /\ DOMAIN log = 1..Len(log)
  BY StoreFacts DEF Inv, Sound
<1> QED
  BY <1>1 DEF Fenced, ProgressFenced

\* The types, and everything that the readers and the stream rely on, in every
\* reachable state: taskEngine.lua keeps the history intact whatever the order
\* of sweeps, takes, reports, removals and reads.
THEOREM HistoryInvariant == Spec => []Inv
<1>1. Init => Inv
  BY InitInv
<1>2. Inv /\ [Next]_vars => Inv'
  BY StepInv
<1> QED
  BY <1>1, <1>2, PTL DEF Spec

\* The counters, the boundary and the stream agree, and readHistory never refuses
\* a cursor that it gave out as foreign, nor do the client's checks ever find a
\* page corrupt: a reader that fell behind the cap is told so and can go on.
THEOREM CursorsAreHonoured == Spec => []CursorsHonoured
BY HistoryInvariant, InvCursors, PTL

\* Paging through a history with its cursors, through restarts from a saved one,
\* gives every entry up to the cursor exactly once, but those reported lost.
THEOREM PagesAreComplete == Spec => []PagesComplete
<1>1. Inv => PagesComplete
  BY DEF Inv, Honest, PagesComplete
<1> QED
  BY <1>1, HistoryInvariant, PTL

\* appendProgress writes under the attempt of the caller's own lease, and never
\* after the entry that ended this attempt.
THEOREM ProgressIsFenced == Spec => []ProgressFenced
BY HistoryInvariant, InvFenced, PTL
================================================================================
