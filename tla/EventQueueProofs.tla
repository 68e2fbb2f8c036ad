-------------------------- MODULE EventQueueProofs ---------------------------
(***************************************************************************)
(* The event engine does late and in pieces what should happen at once, and *)
(* nothing goes wrong by it, for any events, subscriptions, policies and   *)
(* batch sizes: the indices agree with the records, removals are not       *)
(* forgotten, the verdicts on events are those of their deadlines, and     *)
(* leases are fenced and not disturbed.                                    *)
(*                                                                         *)
(* Good is the part of the invariant that one keyspace has, together with  *)
(* the subscriptions H and the deliveries L that were given out.  Turned   *)
(* relates the keyspaces before and after the lazy part of an operation:   *)
(* every record has at most been brought up to date.                       *)
(*                                                                         *)
(* The refinement: what EventBroadcast sees of a keyspace, Sight, is what  *)
(* is left of it when everything overdue has happened, so that the lazy    *)
(* part of every operation is a stutter of the promise.                    *)
(*                                                                         *)
(* Consumers (from Busy on) add what processOne knows: ConsumersOk says    *)
(* that what was said of each delivery is so (History), that no two calls  *)
(* have the same one (Calls), and that heartbeats are in time (BeatOk).    *)
(* A step of the engine is Calm to a consumer unless it addresses the      *)
(* consumer's own delivery (Hits) or gives out a new one (Delivers).       *)
(***************************************************************************)
EXTENDS EventConsumer, WellFoundedInduction, TLAPS

\* The score that stands for absence is a number that no time can be.
USE DEF Out

-----------------------------------------------------------------------------
(* Times. *)

\* Among finitely many times there is a latest one: what waive records.
LEMMA LatestTime ==
    ASSUME NEW N \in Nat, NEW T, T \subseteq 0..N, T # {}
    PROVE  \E t \in T : \A u \in T : u <= t
<1> DEFINE R == OpToRel(<, Nat)
           V == {k \in Nat : N - k \in T}
<1>1. IsWellFoundedOn(R, Nat)
  BY NatLessThanWellFounded, Zenon
<1>2. \A j, k \in Nat : j < k <=> <<j, k>> \in R
  BY DEF OpToRel
<1>3. V \subseteq Nat /\ V # {}
  <2>1. PICK t \in T : TRUE
    BY Zenon
  <2>2. N - t \in Nat /\ N - (N - t) = t
    BY <2>1
  <2> QED BY <2>1, <2>2
<1> HIDE DEF R, V
<1>4. PICK k \in V : \A j \in V : <<j, k>> \notin R
  BY <1>1, <1>3, WFMin, Zenon
<1>5. k \in Nat /\ N - k \in T /\ \A j \in V : ~(j < k)
  BY <1>2, <1>3, <1>4, Zenon DEF V
<1>6. ASSUME NEW u \in T PROVE u <= N - k
  <2>1. u \in 0..N
    OBVIOUS
  <2>2. N - u \in Nat /\ N - (N - u) = u
    BY <2>1
  <2>3. N - u \in V
    BY <2>2 DEF V
  <2>4. ~(N - u < k)
    BY <2>3, <1>5
  <2> QED BY <1>5, <2>1, <2>4
<1> QED BY <1>5, <1>6

-----------------------------------------------------------------------------
(* The invariant of one keyspace. *)

\* g has an obligation that is still open.
Owing(r, g) == r.status = "active" /\ r.recipients[g].status = "pending"

\* IndicesAgree, for a keyspace.
Indexed(s) ==
    \A e \in Events :
        LET r == s.event[e]
        IN /\ \A g \in Gens : s.delivery[g][e] # Out <=> Owing(r, g)
           /\ s.deadlines[e] = IF r.status = "active" THEN r.expiresAt ELSE Out
           /\ s.archives[e] = IF Settled(r) THEN r.settledAt ELSE Out
           /\ s.archiveDeadlines[e] = IF Settled(r) THEN r.archiveUntil ELSE Out

\* Registered, for the subscriptions H.
Joined(s, H, g) == g \in DOMAIN H /\ s.subscriptions[H[g].name] = g

\* What the engine knows of the subscriptions that left.
Enrolled(s, H) ==
    /\ \A g \in DOMAIN H : Joined(s, H, g) => H[g].left = Out
    /\ \A g \in Gens : s.retired[g] # Out => s.removed[g] # Out
    /\ \A g \in Gens : s.removed[g] # Out =>
          g \in DOMAIN H /\ H[g].left = s.removed[g] /\ s.removed[g] <= s.now

\* RemovalRemembered.
Remembered(s, H) ==
    \A e \in Events, g \in Gens : Owing(s.event[e], g) =>
        /\ g \in DOMAIN H
        /\ ~Joined(s, H, g) => s.retired[g] # Out /\ s.removed[g] = H[g].left

\* VerdictOnTime, for a record; and what leads to it in an active one.
InTime(r, t) == r.expiresAt = Out \/ t < r.expiresAt
Excused(H, r, g) == H[g].left # Out /\ InTime(r, H[g].left)
Addressed(r) == {g \in Gens : r.recipients[g].status # "none"}

Told(H, r) ==
    \A g \in Addressed(r) :
        g \in DOMAIN H /\ (r.recipients[g].status = "waived" => Excused(H, r, g))

\* A settled record is one that is kept, until the end of its retention.
Filed(r) ==
    Settled(r) => /\ Archive
                  /\ r.archiveUntil = IF ArchiveRetention = Out THEN Out
                                      ELSE r.settledAt + ArchiveRetention

Judged(s, H, r) ==
    /\ Told(H, r) /\ Filed(r)
    /\ r.status = "active" => r.resolvedAt <= s.now /\ InTime(r, r.resolvedAt)
    /\ r.status = "completed" =>
          Pending(r) = {} /\ (Addressed(r) # {} => InTime(r, r.settledAt))
    /\ r.status = "expired" =>
          /\ r.expiresAt # Out /\ r.expiresAt <= s.now /\ r.settledAt = r.expiresAt
          /\ \E g \in Pending(r) : ~Excused(H, r, g)

\* A record that has just been written: nobody has left it yet.
Unresolved(s, r) ==
    /\ \A g \in Addressed(r) : r.recipients[g].status = "pending" /\ s.removed[g] = Out

\* What normalize may be given.
Judgeable(s, H, r) ==
    \/ Judged(s, H, r)
    \/ r.status = "active" /\ r.resolvedAt <= s.now /\ Told(H, r) /\ Unresolved(s, r)

\* LeaseFenced, for one delivery; only an open obligation is leased.
LeaseOk(s, L, e, g) ==
    LET r == s.event[e]
        q == r.recipients[g]
    IN q.until # Out =>
          /\ Owing(r, g)
          /\ q.token \in DOMAIN L /\ L[q.token] = <<e, g>>
          /\ \A n \in DOMAIN L : n > q.token => L[n] # <<e, g>>
          /\ s.delivery[g][e] = q.until
          /\ r.expiresAt # Out => q.until <= r.expiresAt
LeasesOk(s, L) == \A e \in Events, g \in Gens : LeaseOk(s, L, e, g)

\* Indices and leases are about the records and the queues alone.
LEMMA SameIndices ==
    ASSUME NEW s, NEW u, NEW L, u.event = s.event, u.delivery = s.delivery,
           u.deadlines = s.deadlines, u.archives = s.archives,
           u.archiveDeadlines = s.archiveDeadlines, Indexed(s), LeasesOk(s, L)
    PROVE  Indexed(u) /\ LeasesOk(u, L)
<1>1. Indexed(u)
  BY DEF Indexed
<1>2. LeasesOk(u, L)
  <2>1. \A e, g : LeaseOk(u, L, e, g) <=> LeaseOk(s, L, e, g)
    BY DEF LeaseOk
  <2> QED BY <2>1 DEF LeasesOk
<1> QED BY <1>1, <1>2

Sound(s, H, L) ==
    /\ s \in Keyspace /\ Indexed(s) /\ Enrolled(s, H) /\ Remembered(s, H)
    /\ LeasesOk(s, L)

Good(s, H, L) == Sound(s, H, L) /\ \A e \in Events : Judged(s, H, s.event[e])

-----------------------------------------------------------------------------
(* Bringing records up to date. *)

\* Nobody comes by a lease or an acknowledgement, and an acknowledgement and the
\* lease it was made under stand for as long as the record does.
Acquits(r, q) ==
    /\ r.status = "absent" => q.status = "absent"
    /\ \A g \in Gens :
          LET old == r.recipients[g]
              new == q.recipients[g]
          IN /\ new.token \in {old.token, 0}
             /\ new.status = "acknowledged" => old.status = "acknowledged" /\ new.token = old.token
             /\ old.status = "acknowledged" /\ q.status # "absent" =>
                   new.status = "acknowledged" /\ new.token = old.token

\* What may become of a record while nobody acknowledges anything: open
\* obligations are waived, and the event is settled or deleted.
Turns(r, q) ==
    /\ q.status = "active" =>
          /\ r.status = "active" /\ q.expiresAt = r.expiresAt
          /\ \A g \in Gens :
                \/ q.recipients[g] = r.recipients[g]
                \/ /\ r.recipients[g].status = "pending"
                   /\ q.recipients[g].status = "waived" /\ q.recipients[g].until = Out
    /\ Settled(q) => r.status = "active" \/ q = r
    /\ q.status # "active" => q = r \/ \A g \in Gens : q.recipients[g].until = Out
    /\ \A g \in Gens : q.recipients[g].status = "pending" =>
          /\ r.recipients[g].status = "pending"
          /\ q.recipients[g].token = r.recipients[g].token
    /\ Acquits(r, q)

Turned(s, u) ==
    /\ u.now = s.now /\ u.subscriptions = s.subscriptions
    /\ \A e \in Events : Turns(s.event[e], u.event[e])

\* Bringing a record up to date twice is bringing it up to date.
LEMMA TurnsTransitive ==
    ASSUME NEW p, NEW q, NEW r, Turns(p, q), Turns(q, r)
    PROVE  Turns(p, r)
BY DEF Turns, Acquits, Settled

\* The same of a keyspace.
LEMMA TurnedTransitive ==
    ASSUME NEW s, NEW u, NEW v, Turned(s, u), Turned(u, v)
    PROVE  Turned(s, v)
BY TurnsTransitive DEF Turned

\* A keyspace that nobody has touched has been brought up to date, as far as that goes.
LEMMA TurnedReflexive == ASSUME NEW s PROVE Turned(s, s)
BY DEF Turned, Turns, Acquits, Settled

\* The same for one delivery of an event: no lease and no acknowledgement is made
\* up, and an acknowledgement stands; and it keeps its lease while it is owed.
Faithful(r, q, g) ==
    LET old == r.recipients[g]
        new == q.recipients[g]
    IN /\ r.status = "absent" => q.status = "absent"
       /\ new.token \in {old.token, 0}
       /\ new.status = "acknowledged" => old.status = "acknowledged" /\ new.token = old.token
       /\ old.status = "acknowledged" /\ q.status # "absent" =>
             new.status = "acknowledged" /\ new.token = old.token

Spared(r, q, g) ==
    /\ Faithful(r, q, g)
    /\ q.status = "active" =>
          /\ r.status = "active" /\ q.expiresAt = r.expiresAt
          /\ \/ q.recipients[g] = r.recipients[g]
             \/ q.recipients[g].status = "waived"

\* Bringing a record up to date spares all of its deliveries.
LEMMA TurnsSpare ==
    ASSUME NEW r, NEW q, Turns(r, q), NEW g \in Gens
    PROVE  Spared(r, q, g)
BY DEF Turns, Acquits, Spared, Faithful

\* A delivery may be spared twice.
LEMMA SparedTransitive ==
    ASSUME NEW p, NEW q, NEW r, NEW g, Spared(p, q, g), Spared(q, r, g)
    PROVE  Spared(p, r, g)
BY DEF Spared, Faithful

\* A delivery that nobody touches is spared.
LEMMA SparedReflexive ==
    ASSUME NEW r, NEW q, NEW g, q.recipients[g] = r.recipients[g],
           q.status = r.status, q.expiresAt = r.expiresAt
    PROVE  Spared(r, q, g)
BY DEF Spared, Faithful

\* The event that does not exist is an event.
LEMMA NoEventType ==
    /\ NoRecipient \in Recipient /\ NoEvent \in Event
    /\ NoEvent.status = "absent"
    /\ \A g \in Gens : NoEvent.recipients[g] = NoRecipient
    /\ NoRecipient.status = "none" /\ NoRecipient.until = Out /\ NoRecipient.token = 0
BY BoundsAssumption DEF NoRecipient, Recipient, NoEvent, Event, Score

\* The recipients of an event are recipients.
LEMMA RecipientType ==
    ASSUME NEW r \in Event, NEW g \in Gens
    PROVE  r.recipients[g] \in Recipient
BY DEF Event

\* The fields of a record.
LEMMA EventType ==
    ASSUME NEW s \in Keyspace, NEW e \in Events
    PROVE  s.event[e] \in Event
BY DEF Keyspace

WaivedRecipient == [NoRecipient EXCEPT !.status = "waived"]

\* A recipient that was waived has no lease.
LEMMA WaivedRecipientType ==
    /\ WaivedRecipient \in Recipient
    /\ WaivedRecipient.status = "waived" /\ WaivedRecipient.until = Out
    /\ WaivedRecipient.token = 0
BY BoundsAssumption DEF WaivedRecipient, NoRecipient, Recipient, Score

\* waive: the recipients in W are waived, as of the latest of their removals.
Waived(s, r, q, W) ==
    /\ q \in Event
    /\ q.status = r.status /\ q.expiresAt = r.expiresAt
    /\ q.settledAt = r.settledAt /\ q.archiveUntil = r.archiveUntil
    /\ \A g \in Gens :
          q.recipients[g] = IF g \in W THEN WaivedRecipient ELSE r.recipients[g]
    /\ q.resolvedAt \in {r.resolvedAt} \cup {s.removed[g] : g \in W}
    /\ \A g \in W : s.removed[g] <= q.resolvedAt
    /\ r.resolvedAt <= q.resolvedAt /\ q.resolvedAt <= s.now

\* waive changes the waivers, and sets resolvedAt to the latest of their removals.
LEMMA WaiveFields ==
    ASSUME NEW s \in Keyspace, NEW e \in Events, s.event[e].resolvedAt <= s.now,
           \A g \in Gens : s.removed[g] # Out => s.removed[g] <= s.now
    PROVE  Waived(s, s.event[e], Waive(s, e), Waivers(s, e))
<1> DEFINE r == s.event[e]
           W == Waivers(s, e)
           times == {r.resolvedAt} \cup {s.removed[g] : g \in W}
           latest == CHOOSE t \in times : \A u \in times : u <= t
           recipients == [g \in Gens |-> IF g \in W THEN WaivedRecipient ELSE r.recipients[g]]
           q == Waive(s, e)
<1>1. /\ r \in Event /\ s.now \in Nat /\ r.resolvedAt \in Nat
      /\ \A g \in Gens : s.removed[g] \in Score /\ r.recipients[g] \in Recipient
  BY EventType, RecipientType DEF Keyspace, Event
<1>2. W \subseteq Gens /\ \A g \in W : s.removed[g] # Out
  BY DEF Waivers, Pending
<1>3. \A g \in W : s.removed[g] \in 0..s.now
  BY <1>1, <1>2 DEF Score
<1>4. r.resolvedAt \in 0..s.now
  BY <1>1
<1> HIDE DEF W
<1>5. times \subseteq 0..s.now /\ times # {}
  BY <1>3, <1>4
<1>6. latest \in times /\ \A u \in times : u <= latest
  BY <1>1, <1>5, LatestTime, Zenon
<1>7. q = [r EXCEPT !.recipients = recipients, !.resolvedAt = latest]
  BY <1>1 DEF Waive, WaivedRecipient, W, Event
<1>8. recipients \in [Gens -> Recipient]
  BY <1>1, WaivedRecipientType
<1>9. latest \in Nat /\ latest <= s.now
  BY <1>5, <1>6
<1>10. \A g \in Gens : recipients[g] = IF g \in W THEN WaivedRecipient ELSE r.recipients[g]
  OBVIOUS
<1>11. \A g \in W : s.removed[g] \in times
  OBVIOUS
<1>12. r.resolvedAt \in times
  OBVIOUS
<1> HIDE DEF latest, recipients, r, q
<1>13. /\ q \in Event /\ q.recipients = recipients /\ q.resolvedAt = latest
       /\ q.status = r.status /\ q.expiresAt = r.expiresAt
       /\ q.settledAt = r.settledAt /\ q.archiveUntil = r.archiveUntil
  BY <1>1, <1>7, <1>8, <1>9, Zenon DEF Event
<1> QED BY <1>6, <1>9, <1>10, <1>11, <1>12, <1>13 DEF Waived, r, q, W

\* settle keeps the obligations as they are, without their leases.
LEMMA SettleFields ==
    ASSUME NEW s \in Keyspace, NEW r \in Event, NEW status \in {"completed", "expired"},
           NEW at \in Nat, NEW q, q = Settle(s, r, status, at)
    PROVE  /\ q \in Event
           /\ q = NoEvent \/
              /\ q.status = status /\ q.settledAt = at /\ q.expiresAt = r.expiresAt
              /\ \A g \in Gens : /\ q.recipients[g].status = r.recipients[g].status
                                 /\ q.recipients[g].token = r.recipients[g].token
                                 /\ q.recipients[g].until = Out
              /\ Archive
              /\ q.archiveUntil = IF ArchiveRetention = Out THEN Out ELSE at + ArchiveRetention
              /\ ~Reached(q.archiveUntil, s.now)
<1> DEFINE archiveUntil == IF ArchiveRetention = Out THEN Out ELSE at + ArchiveRetention
           recipients == [g \in Gens |-> [r.recipients[g] EXCEPT !.until = Out]]
<1>1. archiveUntil \in Score
  BY PolicyAssumption DEF Score
<1>2. \A g \in Gens : r.recipients[g] \in Recipient
  BY RecipientType
<1>3. recipients \in [Gens -> Recipient]
  BY <1>2 DEF Recipient, Score
<1>4. \A g \in Gens : /\ recipients[g].status = r.recipients[g].status
                      /\ recipients[g].token = r.recipients[g].token
                      /\ recipients[g].until = Out
  BY <1>2 DEF Recipient
<1>5. CASE q = NoEvent
  BY <1>5, NoEventType
<1>6. CASE q # NoEvent
  <2>1. /\ q = [r EXCEPT !.status = status, !.settledAt = at, !.archiveUntil = archiveUntil,
                         !.recipients = recipients]
        /\ Archive /\ ~Reached(archiveUntil, s.now)
    BY <1>6 DEF Settle, Event
  <2> HIDE DEF archiveUntil, recipients
  <2>2. /\ q \in Event /\ q.status = status /\ q.settledAt = at
        /\ q.expiresAt = r.expiresAt /\ q.archiveUntil = archiveUntil
        /\ q.recipients = recipients
    BY <1>1, <1>3, <2>1, Zenon DEF Event, Score
  <2> QED BY <1>4, <2>1, <2>2 DEF archiveUntil
<1> QED BY <1>5, <1>6

\* normalize turns a record that can be judged into one that is.
LEMMA NormalRecord ==
    ASSUME NEW s \in Keyspace, NEW H \in Seq([name : Names, left : Score]),
           Enrolled(s, H), Remembered(s, H), NEW e \in Events,
           s.event[e].status # "absent", Judgeable(s, H, s.event[e])
    PROVE  /\ Normal(s, e) \in Event
           /\ Turns(s.event[e], Normal(s, e))
           /\ Judged(s, H, Normal(s, e))
<1> DEFINE r == s.event[e]
           v == Waive(s, e)
           W == Waivers(s, e)
           q == Normal(s, e)
<1>1. /\ r \in Event /\ s.now \in Nat /\ r.resolvedAt \in Nat /\ r.expiresAt \in Score
      /\ \A g \in Gens : s.removed[g] \in Score /\ r.recipients[g] \in Recipient
  BY EventType, RecipientType DEF Keyspace, Event
<1>2. /\ NoEvent \in Event /\ NoEvent.status = "absent"
      /\ \A g \in Gens : NoEvent.recipients[g].status = "none"
                      /\ NoEvent.recipients[g].until = Out
                      /\ NoEvent.recipients[g].token = 0
  BY NoEventType
<1>3. Turns(r, NoEvent) /\ Judged(s, H, NoEvent)
  BY <1>2 DEF Turns, Acquits, Judged, Told, Addressed, Settled, Filed
<1>4. CASE r.status # "active"
  <2>1. q = NoEvent \/ q = r
    BY <1>4 DEF Normal
  <2>2. Turns(r, r)
    BY DEF Turns, Acquits, Settled
  <2>3. Judged(s, H, r)
    BY <1>4 DEF Judgeable
  <2> QED BY <1>1, <1>2, <1>3, <2>1, <2>2, <2>3
<1>5. CASE r.status = "active"
  <2>1. r.resolvedAt <= s.now /\ Told(H, r)
    BY <1>5 DEF Judgeable, Judged
  <2>2. \A g \in Gens : s.removed[g] # Out => s.removed[g] <= s.now
    BY DEF Enrolled
  <2>3. Waived(s, r, v, W)
    BY <2>1, <2>2, WaiveFields
  <2>4. W = {g \in Pending(r) : s.removed[g] # Out /\ InTime(r, s.removed[g])}
    BY DEF Waivers, InTime
  <2>5. q = IF Pending(v) = {} THEN Settle(s, v, "completed", v.resolvedAt)
            ELSE IF Reached(v.expiresAt, s.now) THEN Settle(s, v, "expired", v.expiresAt)
            ELSE v
    BY <1>5 DEF Normal
  <2> HIDE DEF r, v, W, q
  <2>6. /\ v \in Event /\ v.status = "active" /\ v.expiresAt = r.expiresAt
        /\ v.resolvedAt \in Nat /\ v.resolvedAt <= s.now
    BY <1>5, <2>3 DEF Waived, Event
  <2>7. /\ Pending(v) = Pending(r) \ W
        /\ Addressed(v) = Addressed(r)
        /\ \A g \in Gens : v.recipients[g].status = "waived" <=>
              g \in W \/ r.recipients[g].status = "waived"
    BY <2>3, <2>4, WaivedRecipientType DEF Waived, Pending, Addressed
  <2>8. \A g \in Gens : \/ v.recipients[g] = r.recipients[g]
                        \/ /\ r.recipients[g].status = "pending"
                           /\ v.recipients[g].status = "waived"
                           /\ v.recipients[g].until = Out /\ v.recipients[g].token = 0
    BY <2>3, <2>4, WaivedRecipientType DEF Waived, Pending
  <2>9. Turns(r, v)
    <3>1. Acquits(r, v)
      BY <1>5, <2>6, <2>8 DEF Acquits
    <3> QED BY <1>5, <2>6, <2>8, <3>1 DEF Turns, Settled
  <2>10. \A g \in Gens : s.removed[g] # Out =>
            g \in DOMAIN H /\ H[g].left = s.removed[g]
    BY DEF Enrolled
  <2>11. Told(H, v)
    <3> SUFFICES ASSUME NEW g \in Addressed(r)
                 PROVE  /\ g \in DOMAIN H
                        /\ v.recipients[g].status = "waived" => Excused(H, v, g)
      BY <2>7 DEF Told
    <3>1. /\ g \in DOMAIN H /\ g \in Gens
          /\ r.recipients[g].status = "waived" => Excused(H, r, g)
      BY <2>1 DEF Told, Addressed
    <3>2. Excused(H, r, g) => Excused(H, v, g)
      BY <2>6 DEF Excused, InTime
    <3>3. g \in W => Excused(H, r, g)
      BY <2>4, <2>10, <3>1 DEF Excused
    <3> QED BY <2>7, <3>1, <3>2, <3>3
  \* Who is still waiting was not gone by the deadline.
  <2>12. \A g \in Pending(v) : ~Excused(H, v, g)
    <3> SUFFICES ASSUME NEW g \in Pending(v) PROVE ~Excused(H, v, g)
      OBVIOUS
    <3>1. g \in Gens /\ g \in Pending(r) /\ g \notin W /\ Owing(r, g)
      BY <1>5, <2>7 DEF Pending, Owing
    <3>2. CASE s.removed[g] = Out
      <4>1. Joined(s, H, g)
        BY <3>1, <3>2 DEF Remembered, Enrolled, r
      <4>2. H[g].left = Out
        BY <4>1 DEF Enrolled, Joined
      <4> QED BY <4>2 DEF Excused
    <3>3. CASE s.removed[g] # Out
      BY <2>4, <2>6, <2>10, <3>1, <3>3 DEF Excused, InTime
    <3> QED BY <3>2, <3>3
  \* Whatever resolved the event did so in time.
  <2>13. Addressed(r) = {} \/ InTime(r, v.resolvedAt) \/ Pending(v) # {}
    <3>1. CASE v.resolvedAt \in {s.removed[g] : g \in W}
      BY <2>4, <3>1
    <3>2. CASE v.resolvedAt = r.resolvedAt /\ Judged(s, H, r)
      BY <1>5, <3>2 DEF Judged
    <3>3. CASE v.resolvedAt = r.resolvedAt /\ Unresolved(s, r)
      <4>1. W = {}
        BY <2>4, <3>3 DEF Unresolved, Pending, Addressed
      <4>2. Pending(v) = Addressed(r)
        BY <2>7, <3>3, <4>1 DEF Unresolved, Pending, Addressed
      <4> QED BY <4>2
    <3> QED BY <2>3, <3>1, <3>2, <3>3 DEF Waived, Judgeable, r
  <2>14. CASE Pending(v) = {}
    <3>1. q = Settle(s, v, "completed", v.resolvedAt)
      BY <2>5, <2>14
    <3>2. q \in Event /\ (q = NoEvent \/
              /\ q.status = "completed" /\ q.settledAt = v.resolvedAt
              /\ q.expiresAt = v.expiresAt
              /\ Filed(q)
              /\ \A g \in Gens : /\ q.recipients[g].status = v.recipients[g].status
                                 /\ q.recipients[g].token = v.recipients[g].token
                                 /\ q.recipients[g].until = Out)
      <4> DEFINE at == v.resolvedAt
                 status == "completed"
      <4>1. v \in Event /\ at \in Nat /\ status \in {"completed", "expired"}
        BY <2>6
      <4>2. q = Settle(s, v, status, at)
        BY <3>1
      <4> HIDE DEF at, status
      <4>3. q \in Event /\ (q = NoEvent \/
                /\ q.status = status /\ q.settledAt = at /\ q.expiresAt = v.expiresAt /\ Filed(q)
                /\ \A g \in Gens : /\ q.recipients[g].status = v.recipients[g].status
                                   /\ q.recipients[g].token = v.recipients[g].token
                                   /\ q.recipients[g].until = Out)
        BY <4>1, <4>2, SettleFields DEF Filed
      <4> QED BY <4>3 DEF at, status
    <3>3. CASE q = NoEvent
      BY <1>2, <1>3, <3>2, <3>3 DEF r, q
    <3>4. CASE q # NoEvent
      <4>1. Pending(q) = {} /\ Addressed(q) = Addressed(r)
        BY <2>7, <2>14, <3>2, <3>4 DEF Pending, Addressed
      <4>2. \A g \in Gens : q.recipients[g].status # "pending"
        BY <4>1 DEF Pending
      <4>3. Turns(r, q)
        <5>1. Acquits(r, q)
          BY <1>5, <2>8, <3>2, <3>4 DEF Acquits
        <5> QED BY <1>5, <3>2, <3>4, <4>2, <5>1 DEF Turns, Settled
      <4>4. Told(H, q)
        <5>1. /\ Addressed(q) = Addressed(v) /\ q.expiresAt = v.expiresAt
              /\ \A g \in Gens : q.recipients[g].status = v.recipients[g].status
          BY <2>7, <3>2, <3>4, <4>1
        <5>2. \A g \in Gens : Excused(H, v, g) => Excused(H, q, g)
          BY <5>1 DEF Excused, InTime
        <5>3. Addressed(q) \subseteq Gens
          BY DEF Addressed
        <5> QED BY <2>11, <5>1, <5>2, <5>3 DEF Told
      <4>5. Addressed(q) # {} => InTime(q, q.settledAt)
        BY <2>6, <2>13, <2>14, <3>2, <3>4, <4>1 DEF InTime
      <4>6. Judged(s, H, q)
        BY <3>2, <3>4, <4>1, <4>4, <4>5 DEF Judged
      <4> QED BY <3>2, <4>3, <4>6 DEF r, q
    <3> QED BY <3>3, <3>4
  <2>15. CASE Pending(v) # {} /\ Reached(v.expiresAt, s.now)
    <3>1. q = Settle(s, v, "expired", v.expiresAt) /\ v.expiresAt \in Nat
          /\ v.expiresAt <= s.now
      BY <1>1, <2>5, <2>6, <2>15 DEF Reached, Score, r
    <3>2. q \in Event /\ (q = NoEvent \/
              /\ q.status = "expired" /\ q.settledAt = v.expiresAt
              /\ q.expiresAt = v.expiresAt
              /\ Filed(q)
              /\ \A g \in Gens : /\ q.recipients[g].status = v.recipients[g].status
                                 /\ q.recipients[g].token = v.recipients[g].token
                                 /\ q.recipients[g].until = Out)
      <4> DEFINE at == v.expiresAt
                 status == "expired"
      <4>1. v \in Event /\ at \in Nat /\ status \in {"completed", "expired"}
        BY <2>6, <3>1
      <4>2. q = Settle(s, v, status, at)
        BY <3>1
      <4> HIDE DEF at, status
      <4>3. q \in Event /\ (q = NoEvent \/
                /\ q.status = status /\ q.settledAt = at /\ q.expiresAt = v.expiresAt /\ Filed(q)
                /\ \A g \in Gens : /\ q.recipients[g].status = v.recipients[g].status
                                   /\ q.recipients[g].token = v.recipients[g].token
                                   /\ q.recipients[g].until = Out)
        BY <4>1, <4>2, SettleFields DEF Filed
      <4> QED BY <4>3 DEF at, status
    <3>3. CASE q = NoEvent
      BY <1>2, <1>3, <3>2, <3>3 DEF r, q
    <3>4. CASE q # NoEvent
      <4>1. Pending(q) = Pending(v) /\ Addressed(q) = Addressed(v)
        BY <3>2, <3>4 DEF Pending, Addressed
      <4>2. \A g \in Gens : q.recipients[g].status = "pending" =>
                /\ r.recipients[g].status = "pending"
                /\ q.recipients[g].token = r.recipients[g].token
        BY <2>8, <3>2, <3>4
      <4>3. Turns(r, q)
        <5>1. Acquits(r, q)
          BY <1>5, <2>8, <3>2, <3>4 DEF Acquits
        <5> QED BY <1>5, <3>2, <3>4, <4>2, <5>1 DEF Turns, Settled
      <4>4. Told(H, q)
        <5>1. /\ Addressed(q) = Addressed(v) /\ q.expiresAt = v.expiresAt
              /\ \A g \in Gens : q.recipients[g].status = v.recipients[g].status
          BY <2>7, <3>2, <3>4, <4>1
        <5>2. \A g \in Gens : Excused(H, v, g) => Excused(H, q, g)
          BY <5>1 DEF Excused, InTime
        <5>3. Addressed(q) \subseteq Gens
          BY DEF Addressed
        <5> QED BY <2>11, <5>1, <5>2, <5>3 DEF Told
      <4>5. \A g \in Pending(q) : ~Excused(H, q, g)
        BY <2>12, <3>2, <3>4, <4>1 DEF Excused, InTime
      <4>6. Judged(s, H, q)
        BY <2>15, <3>1, <3>2, <3>4, <4>1, <4>4, <4>5 DEF Judged
      <4> QED BY <3>2, <4>3, <4>6 DEF r, q
    <3> QED BY <3>3, <3>4
  <2>16. CASE Pending(v) # {} /\ ~Reached(v.expiresAt, s.now)
    <3>1. q = v
      BY <2>5, <2>16
    <3>2. InTime(v, v.resolvedAt)
      BY <1>1, <2>6, <2>16 DEF InTime, Reached, Score, r
    <3>3. Judged(s, H, v)
      BY <2>6, <2>11, <3>2 DEF Judged, Filed, Settled
    <3> QED BY <2>6, <2>9, <3>1, <3>3 DEF r, q
  <2> QED BY <2>14, <2>15, <2>16
<1> QED BY <1>4, <1>5

\* What a record that is still active after normalize looks like: it was only
\* waived, is not due, and nobody who left is waited for.
LEMMA NormalActive ==
    ASSUME NEW s \in Keyspace, NEW H, Enrolled(s, H), NEW e \in Events,
           s.event[e].status # "absent",
           s.event[e].status = "active" => s.event[e].resolvedAt <= s.now,
           Normal(s, e).status = "active"
    PROVE  /\ s.event[e].status = "active"
           /\ Normal(s, e) = Waive(s, e)
           /\ Waived(s, s.event[e], Waive(s, e), Waivers(s, e))
           /\ Pending(Waive(s, e)) # {}
           /\ ~Reached(s.event[e].expiresAt, s.now)
           /\ \A g \in Pending(Waive(s, e)) : s.removed[g] = Out
<1> DEFINE r == s.event[e]
           v == Waive(s, e)
           W == Waivers(s, e)
           q == Normal(s, e)
<1>1. /\ r \in Event /\ s.now \in Nat /\ r.expiresAt \in Score
      /\ \A g \in Gens : s.removed[g] \in Score
  BY EventType DEF Keyspace, Event
<1>2. NoEvent.status = "absent"
  BY NoEventType
<1>3. r.status = "active"
  BY <1>2 DEF Normal
<1>4. \A g \in Gens : s.removed[g] # Out => s.removed[g] <= s.now
  BY DEF Enrolled
<1>5. Waived(s, r, v, W)
  BY <1>3, <1>4, WaiveFields
<1>6. v.expiresAt = r.expiresAt /\ v \in Event
  BY <1>5 DEF Waived
<1>7. q = IF Pending(v) = {} THEN Settle(s, v, "completed", v.resolvedAt)
          ELSE IF Reached(v.expiresAt, s.now) THEN Settle(s, v, "expired", v.expiresAt)
          ELSE v
  BY <1>3 DEF Normal
<1>8. \A at : /\ Settle(s, v, "completed", at).status # "active"
              /\ Settle(s, v, "expired", at).status # "active"
  BY <1>2, <1>6 DEF Settle, Event
<1>9. Pending(v) # {} /\ ~Reached(r.expiresAt, s.now) /\ q = v
  BY <1>6, <1>7, <1>8
<1>10. ASSUME NEW g \in Pending(v) PROVE s.removed[g] = Out
  <2> SUFFICES ASSUME s.removed[g] # Out PROVE FALSE
    OBVIOUS
  <2>1. g \in Gens /\ v.recipients[g].status = "pending"
    BY DEF Pending
  <2>2. g \notin W /\ g \in Pending(r)
    BY <1>5, <2>1, WaivedRecipientType DEF Waived, Pending
  <2>3. s.removed[g] <= s.now /\ s.removed[g] \in Nat
    BY <1>1, <1>4, <2>1 DEF Score
  <2>4. r.expiresAt # Out /\ ~(s.removed[g] < r.expiresAt)
    BY <2>2 DEF Waivers
  <2> QED BY <1>1, <1>9, <2>3, <2>4 DEF Reached, Score
<1> QED BY <1>3, <1>5, <1>9, <1>10

\* normalize reads nothing but the record, the clock and the removals of those
\* it waits for.
LEMMA NormalDepends ==
    ASSUME NEW s, NEW u, NEW e, u.event[e] = s.event[e], u.now = s.now,
           s.event[e].status = "active" =>
               \A g \in Pending(s.event[e]) : u.removed[g] = s.removed[g]
    PROVE  Normal(u, e) = Normal(s, e)
<1>1. CASE s.event[e].status # "active"
  BY <1>1 DEF Normal
<1>2. CASE s.event[e].status = "active"
  <2>1. Waivers(u, e) = Waivers(s, e)
    BY <1>2 DEF Waivers
  <2>2. {u.removed[g] : g \in Waivers(u, e)} = {s.removed[g] : g \in Waivers(s, e)}
    BY <1>2, <2>1 DEF Waivers
  <2>3. Waive(u, e) = Waive(s, e)
    BY <2>1, <2>2, Zenon DEF Waive
  <2>4. \A r, status, at : Settle(u, r, status, at) = Settle(s, r, status, at)
    BY DEF Settle
  <2> QED BY <2>3, <2>4 DEF Normal
<1> QED BY <1>1, <1>2

-----------------------------------------------------------------------------
(* What can be seen of an event: the state of EventBroadcast. *)

\* What get would find.
Current(s, e) == IF s.event[e].status = "absent" THEN NoEvent ELSE Normal(s, e)

\* What a record says: View, for any record.
Having(r, status) == {g \in Gens : r.recipients[g].status = status}
Sight(r) ==
    [status |-> r.status, pending |-> Having(r, "pending"),
     acknowledged |-> Having(r, "acknowledged"), waived |-> Having(r, "waived"),
     expiresAt |-> r.expiresAt, settledAt |-> r.settledAt]

Sights ==
    [status : {"absent", "active", "completed", "expired"}, pending : SUBSET Gens,
     acknowledged : SUBSET Gens, waived : SUBSET Gens, expiresAt : Score, settledAt : Score]

\* Every record can be looked at.
LEMMA SightType ==
    ASSUME NEW r \in Event
    PROVE  Sight(r) \in Sights
<1>1. \A status : Having(r, status) \subseteq Gens
  BY DEF Having
<1> QED BY <1>1 DEF Sight, Sights, Event

\* What looks the same in every respect is the same.
LEMMA SameSight ==
    ASSUME NEW x \in Sights, NEW y \in Sights, x.status = y.status, x.pending = y.pending,
           x.acknowledged = y.acknowledged, x.waived = y.waived,
           x.expiresAt = y.expiresAt, x.settledAt = y.settledAt
    PROVE  x = y
BY DEF Sights

\* Nobody can tell u from s.
Unnoticed(s, u) ==
    /\ u.now = s.now /\ u.subscriptions = s.subscriptions
    /\ \A e \in Events : Sight(Current(u, e)) = Sight(Current(s, e))

\* Two steps that nobody can tell make one.
LEMMA UnnoticedTransitive ==
    ASSUME NEW s, NEW u, NEW v, Unnoticed(s, u), Unnoticed(u, v)
    PROVE  Unnoticed(s, v)
BY DEF Unnoticed

\* An active event that is up to date.
Fresh(s, e) ==
    /\ s.event[e] \in Event /\ s.event[e].status = "active"
    /\ Pending(s.event[e]) # {} /\ ~Reached(s.event[e].expiresAt, s.now)
    /\ \A g \in Pending(s.event[e]) : s.removed[g] = Out

\* waive changes nothing when nobody it waits for has left.
LEMMA NothingToWaive ==
    ASSUME NEW s, NEW e, s.event[e] \in Event,
           \A g \in Pending(s.event[e]) : s.removed[g] = Out
    PROVE  Waive(s, e) = s.event[e]
<1> DEFINE r == s.event[e]
           W == Waivers(s, e)
           times == {r.resolvedAt} \cup {s.removed[g] : g \in W}
           latest == CHOOSE t \in times : \A u \in times : u <= t
           recipients == [g \in Gens |-> IF g \in W THEN WaivedRecipient ELSE r.recipients[g]]
<1>1. W = {}
  BY DEF Waivers
<1>2. r \in Event /\ r.resolvedAt \in Nat
  BY DEF Event
<1>3. times = {r.resolvedAt}
  BY <1>1
<1>4. latest = r.resolvedAt
  BY <1>2, <1>3
<1>5. recipients = r.recipients
  BY <1>1, <1>2 DEF Event
<1>6. Waive(s, e) = [r EXCEPT !.recipients = recipients, !.resolvedAt = latest]
  BY <1>2 DEF Waive, WaivedRecipient, Event
<1> HIDE DEF latest, recipients, r
<1>7. [r EXCEPT !.recipients = r.recipients, !.resolvedAt = r.resolvedAt] = r
  BY <1>2, Zenon DEF Event
<1> QED BY <1>4, <1>5, <1>6, <1>7 DEF r

\* normalize leaves alone what is up to date.
LEMMA FreshStays ==
    ASSUME NEW s, NEW e, Fresh(s, e)
    PROVE  Current(s, e) = s.event[e]
<1>1. Waive(s, e) = s.event[e]
  BY NothingToWaive DEF Fresh
<1> QED BY <1>1 DEF Fresh, Current, Normal

\* What normalize makes of an event that is not, or no longer, active.
LEMMA NormalClosed ==
    ASSUME NEW s \in Keyspace, NEW H, Enrolled(s, H), NEW e \in Events,
           s.event[e].status # "absent",
           s.event[e].status = "active" => s.event[e].resolvedAt <= s.now,
           Normal(s, e).status # "active"
    PROVE  \/ Normal(s, e) = NoEvent
           \/ /\ Normal(s, e).status # "absent"
              /\ ~Reached(Normal(s, e).archiveUntil, s.now)
<1> DEFINE r == s.event[e]
           v == Waive(s, e)
           q == Normal(s, e)
<1>1. r \in Event /\ r.expiresAt \in Score
  BY EventType DEF Keyspace, Event
<1>2. CASE r.status # "active"
  <2>1. q = IF Reached(r.archiveUntil, s.now) THEN NoEvent ELSE r
    BY <1>2 DEF Normal
  <2> HIDE DEF q
  <2>2. q = NoEvent \/ (q.status # "absent" /\ ~Reached(q.archiveUntil, s.now))
    BY <2>1 DEF Reached
  <2> QED BY <2>2 DEF q
<1>3. CASE r.status = "active"
  <2>1. \A g \in Gens : s.removed[g] # Out => s.removed[g] <= s.now
    BY DEF Enrolled
  <2>2. Waived(s, r, v, Waivers(s, e))
    BY <1>3, <2>1, WaiveFields
  <2>3. /\ v \in Event /\ v.status = "active" /\ v.expiresAt = r.expiresAt
        /\ v.resolvedAt \in Nat
    BY <1>3, <2>2 DEF Waived, Event
  <2>4. q = IF Pending(v) = {} THEN Settle(s, v, "completed", v.resolvedAt)
            ELSE IF Reached(v.expiresAt, s.now) THEN Settle(s, v, "expired", v.expiresAt)
            ELSE v
    BY <1>3 DEF Normal
  <2> HIDE DEF r, v, q
  <2>5. ASSUME NEW status \in {"completed", "expired"}, NEW at \in Nat,
               q = Settle(s, v, status, at)
        PROVE  q = NoEvent \/ (q.status # "absent" /\ ~Reached(q.archiveUntil, s.now))
    <3>1. q = NoEvent \/ (q.status = status /\ ~Reached(q.archiveUntil, s.now))
      BY <2>3, <2>5, SettleFields
    <3> QED BY <3>1
  <2>6. CASE Pending(v) = {}
    <3>1. q = Settle(s, v, "completed", v.resolvedAt)
      BY <2>4, <2>6
    <3>2. q = NoEvent \/ (q.status # "absent" /\ ~Reached(q.archiveUntil, s.now))
      BY <2>3, <2>5, <3>1
    <3> QED BY <3>2 DEF q
  <2>7. CASE Pending(v) # {} /\ Reached(v.expiresAt, s.now)
    <3>1. v.expiresAt \in Nat
      BY <1>1, <2>3, <2>7 DEF Reached, Score, r
    <3>2. q = Settle(s, v, "expired", v.expiresAt)
      BY <2>4, <2>7
    <3>3. q = NoEvent \/ (q.status # "absent" /\ ~Reached(q.archiveUntil, s.now))
      BY <2>5, <3>1, <3>2
    <3> QED BY <3>3 DEF q
  <2>8. CASE Pending(v) # {} /\ ~Reached(v.expiresAt, s.now)
    <3>1. q.status = "active"
      BY <2>3, <2>4, <2>8
    <3> QED BY <3>1 DEF q
  <2> QED BY <2>6, <2>7, <2>8 DEF q
<1> QED BY <1>2, <1>3

\* normalize is done at once: doing it again, at the same time, changes nothing.
LEMMA NormalAgain ==
    ASSUME NEW s \in Keyspace, NEW H, Enrolled(s, H), NEW e \in Events,
           s.event[e].status # "absent",
           s.event[e].status = "active" => s.event[e].resolvedAt <= s.now,
           NEW u, u.event[e] = Normal(s, e), u.event[e] \in Event,
           u.removed = s.removed, u.now = s.now
    PROVE  /\ Current(u, e) = Normal(s, e)
           /\ u.event[e].status = "active" => Fresh(u, e)
<1>1. CASE u.event[e].status = "active"
  <2>1. /\ Normal(s, e) = Waive(s, e)
        /\ Waived(s, s.event[e], Waive(s, e), Waivers(s, e))
        /\ Pending(Waive(s, e)) # {}
        /\ ~Reached(s.event[e].expiresAt, s.now)
        /\ \A g \in Pending(Waive(s, e)) : s.removed[g] = Out
    BY <1>1, NormalActive
  <2>2. u.event[e].expiresAt = s.event[e].expiresAt
    BY <2>1 DEF Waived
  <2>3. Fresh(u, e)
    BY <1>1, <2>1, <2>2 DEF Fresh
  <2> QED BY <2>3, FreshStays
<1>2. CASE u.event[e].status # "active"
  <2>1. \/ u.event[e] = NoEvent
        \/ u.event[e].status # "absent" /\ ~Reached(u.event[e].archiveUntil, u.now)
    BY <1>2, NormalClosed
  <2>2. NoEvent.status = "absent"
    BY NoEventType
  <2> QED BY <1>2, <2>1, <2>2 DEF Current, Normal
<1> QED BY <1>1, <1>2

-----------------------------------------------------------------------------
(* The verdicts of normalize are those of EventBroadcast. *)

\* What does not exist is absent.
LEMMA AbsentSight == Sight(NoEvent) = Promise!Absent
<1>1. \A status \in {"pending", "acknowledged", "waived"} : Having(NoEvent, status) = {}
  BY NoEventType DEF Having
<1> QED BY <1>1 DEF Sight, NoEvent, Promise!Absent

\* A time is reached here when it is reached there.
LEMMA SameTimes ==
    /\ \A t, now : Promise!Reached(t, now) <=> Reached(t, now)
    /\ \A t, d : Promise!After(t, d) = IF d = Out THEN Out ELSE t + d
BY DEF Promise!Reached, Reached, Promise!After

\* settle keeps of an event what is promised to be retained.
LEMMA SettleSight ==
    ASSUME NEW s \in Keyspace, NEW r \in Event, NEW status \in {"completed", "expired"},
           NEW at \in Nat
    PROVE  Sight(Settle(s, r, status, at)) = Promise!Close(Sight(r), status, at, s.now)
<1> DEFINE archiveUntil == IF ArchiveRetention = Out THEN Out ELSE at + ArchiveRetention
           q == Settle(s, r, status, at)
           x == [Sight(r) EXCEPT !.status = status, !.settledAt = at]
<1>1. Sight(r) \in Sights
  BY SightType
<1>2. at \in Score /\ status \in {"absent", "active", "completed", "expired"}
  BY DEF Score
<1>3. /\ x \in Sights /\ x.status = status /\ x.settledAt = at
      /\ x.expiresAt = Sight(r).expiresAt /\ x.pending = Sight(r).pending
      /\ x.acknowledged = Sight(r).acknowledged /\ x.waived = Sight(r).waived
  BY <1>1, <1>2, Zenon DEF Sights
<1>4. Promise!Close(Sight(r), status, at, s.now) =
          IF Archive /\ ~Reached(archiveUntil, s.now) THEN x ELSE Promise!Absent
  BY <1>3, SameTimes DEF Promise!Close, Promise!Retained
<1>5. CASE ~Archive \/ Reached(archiveUntil, s.now)
  BY <1>4, <1>5, AbsentSight DEF Settle
<1>6. CASE Archive /\ ~Reached(archiveUntil, s.now)
  <2>1. q # NoEvent
    <3>1. q = [r EXCEPT !.status = status, !.settledAt = at, !.archiveUntil = archiveUntil,
                        !.recipients = [g \in Gens |-> [@[g] EXCEPT !.until = Out]]]
      BY <1>6 DEF Settle
    <3>2. q.status = status
      BY <3>1 DEF Event
    <3> QED BY <3>2, NoEventType
  <2>2. /\ q \in Event /\ q.status = status /\ q.settledAt = at /\ q.expiresAt = r.expiresAt
        /\ \A g \in Gens : q.recipients[g].status = r.recipients[g].status
    BY <2>1, SettleFields
  <2>3. \A any : Having(q, any) = Having(r, any)
    BY <2>2 DEF Having
  <2> HIDE DEF q, x, archiveUntil
  <2>4. Sight(q) = x
    <3>1. Sight(q) \in Sights
      BY <2>2, SightType
    <3>2. /\ Sight(q).status = x.status /\ Sight(q).settledAt = x.settledAt
          /\ Sight(q).expiresAt = x.expiresAt /\ Sight(q).pending = x.pending
          /\ Sight(q).acknowledged = x.acknowledged /\ Sight(q).waived = x.waived
      BY <1>3, <2>2, <2>3 DEF Sight
    <3> QED BY <1>3, <3>1, <3>2 DEF Sights
  <2> QED BY <1>4, <1>6, <2>4 DEF q
<1> QED BY <1>5, <1>6

\* normalize judges an event by what is left when those that left are waived.
LEMMA JudgeSight ==
    ASSUME NEW s \in Keyspace, NEW e \in Events, s.event[e].status = "active",
           NEW v \in Event, v = Waive(s, e), v.status = "active",
           Pending(v) = {} => v.resolvedAt = s.now
    PROVE  Sight(Current(s, e)) = Promise!Judge(Sight(v), s.now)
<1> DEFINE q == Normal(s, e)
           x == Sight(v)
<1>1. q = IF Pending(v) = {} THEN Settle(s, v, "completed", v.resolvedAt)
          ELSE IF Reached(v.expiresAt, s.now) THEN Settle(s, v, "expired", v.expiresAt)
          ELSE v
  BY DEF Normal
<1>2. x.status = "active" /\ x.pending = Pending(v) /\ x.expiresAt = v.expiresAt
  BY DEF Sight, Having, Pending
<1>3. v.resolvedAt \in Nat /\ v.expiresAt \in Score
  BY DEF Event
<1> HIDE DEF q, x
<1>4. Promise!Judge(x, s.now) =
         IF Pending(v) = {} THEN Promise!Close(x, "completed", s.now, s.now)
         ELSE IF Reached(v.expiresAt, s.now) THEN Promise!Close(x, "expired", v.expiresAt, s.now)
         ELSE x
  BY <1>2, SameTimes DEF Promise!Judge
<1>5. Sight(q) = Promise!Judge(x, s.now)
  <2>1. CASE Pending(v) = {}
    <3>1. Sight(Settle(s, v, "completed", v.resolvedAt))
            = Promise!Close(x, "completed", v.resolvedAt, s.now)
      BY <1>3, SettleSight DEF x
    <3> QED BY <1>1, <1>4, <2>1, <3>1
  <2>2. CASE Pending(v) # {} /\ Reached(v.expiresAt, s.now)
    <3>1. v.expiresAt \in Nat
      BY <1>3, <2>2 DEF Reached, Score
    <3>2. Sight(Settle(s, v, "expired", v.expiresAt))
            = Promise!Close(x, "expired", v.expiresAt, s.now)
      BY <3>1, SettleSight DEF x
    <3> QED BY <1>1, <1>4, <2>2, <3>2
  <2>3. CASE Pending(v) # {} /\ ~Reached(v.expiresAt, s.now)
    BY <1>1, <1>4, <2>3 DEF x
  <2> QED BY <2>1, <2>2, <2>3
<1> QED BY <1>5 DEF q, x, Current

\* What is retained may be forgotten later, and what is forgotten stays so.
LEMMA CloseLater ==
    ASSUME NEW x \in Sights, NEW status \in {"completed", "expired"}, NEW at \in Nat,
           NEW now \in Nat
    PROVE  Promise!Judge(Promise!Close(x, status, at, now), now + 1)
             = Promise!Close(x, status, at, now + 1)
<1> DEFINE y == [x EXCEPT !.status = status, !.settledAt = at]
           until == IF ArchiveRetention = Out THEN Out ELSE at + ArchiveRetention
<1>1. at \in Score /\ status \in {"absent", "active", "completed", "expired"}
  BY DEF Score
<1>2. y.status = status /\ y.settledAt = at
  BY <1>1 DEF Sights
<1>3. until \in Score
  BY PolicyAssumption DEF Score
<1>4. /\ Promise!Close(x, status, at, now) = Promise!Retained(y, now)
      /\ Promise!Close(x, status, at, now + 1) = Promise!Retained(y, now + 1)
  BY DEF Promise!Close
<1> HIDE DEF y
<1>5. \A t : Promise!Retained(y, t) =
               IF Archive /\ ~Reached(until, t) THEN y ELSE Promise!Absent
  BY <1>2, SameTimes DEF Promise!Retained
<1> HIDE DEF until
<1>6. CASE Archive /\ ~Reached(until, now)
  <2>1. Promise!Close(x, status, at, now) = y
    BY <1>4, <1>5, <1>6
  <2>2. Promise!Judge(y, now + 1) = Promise!Retained(y, now + 1)
    BY <1>2 DEF Promise!Judge
  <2> QED BY <1>4, <2>1, <2>2
<1>7. CASE ~Archive \/ Reached(until, now)
  <2>1. ~Archive \/ Reached(until, now + 1)
    BY <1>3, <1>7 DEF Reached, Score
  <2>2. /\ Promise!Close(x, status, at, now) = Promise!Absent
        /\ Promise!Close(x, status, at, now + 1) = Promise!Absent
    BY <1>4, <1>5, <1>7, <2>1
  <2>3. Promise!Judge(Promise!Absent, now + 1) = Promise!Absent
    BY DEF Promise!Judge, Promise!Absent
  <2> QED BY <2>2, <2>3
<1> QED BY <1>6, <1>7

\* What time does to an event that nobody touches is what was promised.
LEMMA TickSight ==
    ASSUME NEW s \in Keyspace, NEW u \in Keyspace, u.now = s.now + 1, u.event = s.event,
           u.removed = s.removed, NEW H, Enrolled(s, H), NEW e \in Events,
           Judged(s, H, s.event[e])
    PROVE  Sight(Current(u, e)) = Promise!Judge(Sight(Current(s, e)), s.now + 1)
<1> DEFINE r == s.event[e]
           v == Waive(s, e)
<1>1. r \in Event /\ s.now \in Nat /\ r.expiresAt \in Score /\ r.archiveUntil \in Score
      /\ r.status \in {"absent", "active", "completed", "expired"}
  BY EventType DEF Keyspace, Event
<1>2. CASE r.status = "absent"
  <2>1. Current(u, e) = NoEvent /\ Current(s, e) = NoEvent
    BY <1>2 DEF Current
  <2>2. Promise!Judge(Promise!Absent, s.now + 1) = Promise!Absent
    BY DEF Promise!Judge, Promise!Absent
  <2> QED BY <2>1, <2>2, AbsentSight
<1>3. CASE Settled(r)
  <2>1. /\ Archive
        /\ r.archiveUntil = IF ArchiveRetention = Out THEN Out
                            ELSE r.settledAt + ArchiveRetention
    BY <1>3 DEF Judged, Filed
  <2>2. /\ Current(s, e) = IF Reached(r.archiveUntil, s.now) THEN NoEvent ELSE r
        /\ Current(u, e) = IF Reached(r.archiveUntil, s.now + 1) THEN NoEvent ELSE r
    BY <1>3 DEF Current, Normal, Settled
  <2>3. Reached(r.archiveUntil, s.now) => Reached(r.archiveUntil, s.now + 1)
    BY <1>1 DEF Reached, Score
  <2>4. Sight(r).status = r.status /\ Sight(r).settledAt = r.settledAt
    BY DEF Sight
  <2> HIDE DEF r
  <2>5. Promise!Judge(Sight(r), s.now + 1) = Promise!Retained(Sight(r), s.now + 1)
    BY <1>3, <2>4 DEF Promise!Judge, Settled
  <2>6. Promise!Retained(Sight(r), s.now + 1) =
           IF Reached(r.archiveUntil, s.now + 1) THEN Promise!Absent ELSE Sight(r)
    BY <2>1, <2>4, SameTimes DEF Promise!Retained
  <2>7. Promise!Judge(Promise!Absent, s.now + 1) = Promise!Absent
    BY DEF Promise!Judge, Promise!Absent
  <2> QED BY <2>2, <2>3, <2>5, <2>6, <2>7, AbsentSight
<1>4. CASE r.status = "active"
  <2>1. r.resolvedAt <= s.now /\ \A g \in Gens : s.removed[g] # Out => s.removed[g] <= s.now
    BY <1>4 DEF Judged, Enrolled
  <2>2. Waived(s, r, v, Waivers(s, e))
    BY <2>1, WaiveFields
  <2>3. /\ v \in Event /\ v.status = "active" /\ v.expiresAt = r.expiresAt
        /\ v.resolvedAt \in Nat
    BY <1>4, <2>2 DEF Waived, Event
  <2>4. Waivers(u, e) = Waivers(s, e)
    BY DEF Waivers
  <2>5. Waive(u, e) = v
    BY <2>4 DEF Waive
  <2>6. Current(s, e) = IF Pending(v) = {} THEN Settle(s, v, "completed", v.resolvedAt)
                        ELSE IF Reached(v.expiresAt, s.now)
                             THEN Settle(s, v, "expired", v.expiresAt)
                        ELSE v
    BY <1>4 DEF Current, Normal
  <2>7. Current(u, e) = IF Pending(v) = {} THEN Settle(u, v, "completed", v.resolvedAt)
                        ELSE IF Reached(v.expiresAt, u.now)
                             THEN Settle(u, v, "expired", v.expiresAt)
                        ELSE v
    BY <1>4, <2>5 DEF Current, Normal
  <2>8. ASSUME NEW status \in {"completed", "expired"}, NEW at \in Nat
        PROVE  Sight(Settle(u, v, status, at)) =
                  Promise!Judge(Sight(Settle(s, v, status, at)), s.now + 1)
    <3>1. /\ Sight(Settle(u, v, status, at)) = Promise!Close(Sight(v), status, at, u.now)
          /\ Sight(Settle(s, v, status, at)) = Promise!Close(Sight(v), status, at, s.now)
      BY <2>3, SettleSight
    <3>2. Sight(v) \in Sights
      BY <2>3, SightType
    <3> QED BY <1>1, <3>1, <3>2, CloseLater
  <2>9. CASE Pending(v) = {}
    BY <2>3, <2>6, <2>7, <2>8, <2>9
  <2>10. CASE Pending(v) # {} /\ Reached(v.expiresAt, s.now)
    <3>1. Reached(v.expiresAt, u.now) /\ v.expiresAt \in Nat
      BY <1>1, <2>3, <2>10 DEF Reached, Score
    <3> QED BY <2>6, <2>7, <2>8, <2>10, <3>1
  <2>11. CASE Pending(v) # {} /\ ~Reached(v.expiresAt, s.now)
    <3>1. Current(s, e) = v
      BY <2>6, <2>11
    <3>2. Sight(Current(u, e)) = Promise!Judge(Sight(v), u.now)
      BY <1>4, <2>3, <2>5, <2>11, JudgeSight
    <3> QED BY <3>1, <3>2
  <2> QED BY <2>9, <2>10, <2>11
<1> QED BY <1>1, <1>2, <1>3, <1>4 DEF Settled

-----------------------------------------------------------------------------
(* Bringing the keyspace up to date. *)

\* Records were brought up to date, and the indices with them.
Upkept(s, u) ==
    /\ u \in Keyspace /\ Indexed(u) /\ Turned(s, u)
    /\ u.removed = s.removed /\ u.retired = s.retired
    /\ \A g \in Gens, e \in Events :
          Owing(u.event[e], g) => u.delivery[g][e] = s.delivery[g][e]

\* settle and purge write the indices along with the records.
LEMMA ReindexedUpkeeps ==
    ASSUME NEW s \in Keyspace, Indexed(s), NEW E \in SUBSET Events, NEW new,
           \A e \in E : new[e] \in Event /\ Turns(s.event[e], new[e]),
           NEW u, u = Reindexed(s, E, new)
    PROVE  /\ Upkept(s, u)
           /\ \A e \in Events : u.event[e] = IF e \in E THEN new[e] ELSE s.event[e]
<1> DEFINE closed == {e \in E : s.event[e].status = "active" /\ new[e].status # "active"}
           purged == {e \in E : new[e].status = "absent"}
           kept == closed \ purged
           event == [e \in Events |-> IF e \in E THEN new[e] ELSE s.event[e]]
           delivery == [g \in Gens |-> [e \in Events |->
              IF \/ e \in closed \cup purged /\ s.event[e].recipients[g].status # "none"
                 \/ /\ e \in E
                    /\ g \in Pending(s.event[e])
                    /\ new[e].recipients[g].status = "waived"
              THEN Out ELSE s.delivery[g][e]]]
           deadlines == [e \in Events |->
              IF e \in closed \cup purged THEN Out ELSE s.deadlines[e]]
           archives == [e \in Events |->
              IF e \in purged THEN Out
              ELSE IF e \in kept THEN new[e].settledAt ELSE s.archives[e]]
           archiveDeadlines == [e \in Events |->
              IF e \in purged THEN Out
              ELSE IF e \in kept THEN new[e].archiveUntil ELSE s.archiveDeadlines[e]]
<1>1. u = [s EXCEPT !.event = event, !.delivery = delivery, !.deadlines = deadlines,
                    !.archives = archives, !.archiveDeadlines = archiveDeadlines]
  BY DEF Reindexed, Keyspace
<1>2. \A e \in E : new[e] \in Event
  OBVIOUS
<1>3. /\ event \in [Events -> Event]
      /\ delivery \in [Gens -> [Events -> Score]]
      /\ deadlines \in [Events -> Score]
      /\ archives \in [Events -> Score]
      /\ archiveDeadlines \in [Events -> Score]
  <2>1. /\ s.event \in [Events -> Event] /\ s.delivery \in [Gens -> [Events -> Score]]
        /\ s.deadlines \in [Events -> Score] /\ s.archives \in [Events -> Score]
        /\ s.archiveDeadlines \in [Events -> Score]
    BY DEF Keyspace
  <2>2. Out \in Score
    BY DEF Score
  <2>3. \A e \in E : new[e].settledAt \in Score /\ new[e].archiveUntil \in Score
    BY <1>2 DEF Event
  <2>4. kept \subseteq E
    OBVIOUS
  <2> QED BY <1>2, <2>1, <2>2, <2>3, <2>4
<1>4. \A e \in Events :
         /\ event[e] = IF e \in E THEN new[e] ELSE s.event[e]
         /\ deadlines[e] = IF e \in closed \cup purged THEN Out ELSE s.deadlines[e]
         /\ archives[e] = IF e \in purged THEN Out
                          ELSE IF e \in kept THEN new[e].settledAt ELSE s.archives[e]
         /\ archiveDeadlines[e] = IF e \in purged THEN Out
                                  ELSE IF e \in kept THEN new[e].archiveUntil
                                  ELSE s.archiveDeadlines[e]
         /\ \A g \in Gens : delivery[g][e] =
              IF \/ e \in closed \cup purged /\ s.event[e].recipients[g].status # "none"
                 \/ /\ e \in E
                    /\ g \in Pending(s.event[e])
                    /\ new[e].recipients[g].status = "waived"
              THEN Out ELSE s.delivery[g][e]
  OBVIOUS
<1> HIDE DEF event, delivery, deadlines, archives, archiveDeadlines
<1>5. /\ u \in Keyspace
      /\ u.event = event /\ u.delivery = delivery /\ u.deadlines = deadlines
      /\ u.archives = archives /\ u.archiveDeadlines = archiveDeadlines
      /\ u.now = s.now /\ u.subscriptions = s.subscriptions
      /\ u.removed = s.removed /\ u.retired = s.retired
  BY <1>1, <1>3, Zenon DEF Keyspace
<1>6. \A e \in Events : u.event[e] = IF e \in E THEN new[e] ELSE s.event[e]
  BY <1>4, <1>5
<1>7. \A e \in Events : Turns(s.event[e], u.event[e])
  <2> SUFFICES ASSUME NEW e \in Events PROVE Turns(s.event[e], u.event[e])
    OBVIOUS
  <2>1. CASE e \in E
    BY <1>6, <2>1
  <2>2. CASE e \notin E
    <3>1. u.event[e] = s.event[e]
      BY <1>6, <2>2
    <3> QED BY <3>1 DEF Turns, Acquits
  <2> QED BY <2>1, <2>2
<1>8. ASSUME NEW e \in Events
      PROVE  LET r == u.event[e]
             IN /\ \A g \in Gens : u.delivery[g][e] # Out <=> Owing(r, g)
                /\ \A g \in Gens : Owing(r, g) => u.delivery[g][e] = s.delivery[g][e]
                /\ u.deadlines[e] = IF r.status = "active" THEN r.expiresAt ELSE Out
                /\ u.archives[e] = IF Settled(r) THEN r.settledAt ELSE Out
                /\ u.archiveDeadlines[e] = IF Settled(r) THEN r.archiveUntil ELSE Out
  <2> DEFINE o == s.event[e]
             r == u.event[e]
  <2>1. /\ \A g \in Gens : s.delivery[g][e] # Out <=> Owing(o, g)
        /\ s.deadlines[e] = IF o.status = "active" THEN o.expiresAt ELSE Out
        /\ s.archives[e] = IF Settled(o) THEN o.settledAt ELSE Out
        /\ s.archiveDeadlines[e] = IF Settled(o) THEN o.archiveUntil ELSE Out
    BY DEF Indexed
  <2>2. CASE e \notin E
    <3>1. /\ r = o /\ u.deadlines[e] = s.deadlines[e] /\ u.archives[e] = s.archives[e]
          /\ u.archiveDeadlines[e] = s.archiveDeadlines[e]
          /\ \A g \in Gens : u.delivery[g][e] = s.delivery[g][e]
      BY <1>4, <1>5, <1>6, <2>2
    <3> QED BY <2>1, <3>1
  <2>3. CASE e \in E
    <3>1. /\ r = new[e] /\ r \in Event /\ Turns(o, r)
          /\ e \in closed <=> o.status = "active" /\ r.status # "active"
          /\ e \in purged <=> r.status = "absent"
      BY <1>2, <1>6, <2>3
    <3>2. /\ u.deadlines[e] = IF e \in closed \cup purged THEN Out ELSE s.deadlines[e]
          /\ u.archives[e] = IF e \in purged THEN Out
                             ELSE IF e \in kept THEN r.settledAt ELSE s.archives[e]
          /\ u.archiveDeadlines[e] = IF e \in purged THEN Out
                                     ELSE IF e \in kept THEN r.archiveUntil
                                     ELSE s.archiveDeadlines[e]
          /\ \A g \in Gens : u.delivery[g][e] =
                IF \/ e \in closed \cup purged /\ o.recipients[g].status # "none"
                   \/ o.recipients[g].status = "pending" /\ r.recipients[g].status = "waived"
                THEN Out ELSE s.delivery[g][e]
      BY <1>4, <1>5, <2>3, <3>1 DEF Pending
    <3>3. r.status \in {"absent", "active", "completed", "expired"}
      BY <3>1 DEF Event
    <3>4. e \in kept <=> e \in closed /\ e \notin purged
      OBVIOUS
    <3> HIDE DEF o, r, closed, purged, kept
    <3>5. CASE r.status = "active"
      <4>1. /\ o.status = "active" /\ r.expiresAt = o.expiresAt
            /\ \A g \in Gens : \/ r.recipients[g].status = o.recipients[g].status
                               \/ /\ o.recipients[g].status = "pending"
                                  /\ r.recipients[g].status = "waived"
        BY <3>1, <3>5 DEF Turns, Acquits
      <4>2. e \notin closed /\ e \notin purged /\ e \notin kept
        BY <3>1, <3>4, <3>5
      <4>3. u.deadlines[e] = r.expiresAt /\ u.archives[e] = Out /\ u.archiveDeadlines[e] = Out
        BY <2>1, <3>2, <4>1, <4>2 DEF Settled
      <4>4. \A g \in Gens : /\ u.delivery[g][e] # Out <=> Owing(r, g)
                            /\ Owing(r, g) => u.delivery[g][e] = s.delivery[g][e]
        BY <2>1, <3>2, <3>5, <4>1, <4>2 DEF Owing
      <4> QED BY <3>5, <4>3, <4>4 DEF Settled, r
    <3>6. CASE r.status # "active"
      <4>1. \A g \in Gens : u.delivery[g][e] = Out /\ ~Owing(r, g)
        BY <2>1, <3>1, <3>2, <3>6 DEF Owing
      <4>2. u.deadlines[e] = Out
        BY <2>1, <3>1, <3>2, <3>6
      <4>3. /\ u.archives[e] = IF Settled(r) THEN r.settledAt ELSE Out
            /\ u.archiveDeadlines[e] = IF Settled(r) THEN r.archiveUntil ELSE Out
        <5>1. CASE r.status = "absent"
          BY <3>1, <3>2, <5>1 DEF Settled
        <5>2. CASE r.status # "absent" /\ o.status = "active"
          <6>1. Settled(r)
            BY <3>3, <3>6, <5>2 DEF Settled
          <6>2. e \in closed /\ e \notin purged /\ e \in kept
            BY <3>1, <3>4, <3>6, <5>2
          <6> QED BY <3>2, <6>1, <6>2
        <5>3. CASE r.status # "absent" /\ o.status # "active"
          <6>1. Settled(r)
            BY <3>3, <3>6, <5>3 DEF Settled
          <6>2. r = o
            BY <3>1, <5>3, <6>1 DEF Turns, Acquits
          <6>3. e \notin closed /\ e \notin purged /\ e \notin kept
            BY <3>1, <3>4, <5>3
          <6> QED BY <2>1, <3>2, <6>1, <6>2, <6>3
        <5> QED BY <5>1, <5>2, <5>3
      <4> QED BY <3>6, <4>1, <4>2, <4>3 DEF r
    <3> QED BY <3>5, <3>6
  <2> QED BY <2>2, <2>3
<1>9. Indexed(u)
  BY <1>8 DEF Indexed
<1>10. Turned(s, u)
  BY <1>5, <1>7 DEF Turned
<1> QED BY <1>5, <1>6, <1>8, <1>9, <1>10 DEF Upkept

\* Bringing records up to date forgets no removal and breaks no lease.
LEMMA UpkeptKeeps ==
    ASSUME NEW s \in Keyspace, NEW u, NEW H, NEW L, Upkept(s, u),
           Enrolled(s, H), Remembered(s, H), LeasesOk(s, L)
    PROVE  Enrolled(u, H) /\ Remembered(u, H) /\ LeasesOk(u, L)
<1>1. /\ u.now = s.now /\ u.subscriptions = s.subscriptions
      /\ u.removed = s.removed /\ u.retired = s.retired
      /\ \A e \in Events : Turns(s.event[e], u.event[e])
      /\ \A e \in Events, g \in Gens :
            Owing(u.event[e], g) => u.delivery[g][e] = s.delivery[g][e]
  BY DEF Upkept, Turned
<1>2. \A g : Joined(u, H, g) <=> Joined(s, H, g)
  BY <1>1 DEF Joined
<1>3. Enrolled(u, H)
  BY <1>1, <1>2 DEF Enrolled
<1>4. \A e \in Events, g \in Gens : Owing(u.event[e], g) => Owing(s.event[e], g)
  BY <1>1 DEF Turns, Acquits, Owing
<1>5. Remembered(u, H)
  BY <1>1, <1>2, <1>4 DEF Remembered
<1>6. ASSUME NEW e \in Events, NEW g \in Gens PROVE LeaseOk(u, L, e, g)
  <2> DEFINE r == s.event[e]
             q == u.event[e]
  <2> SUFFICES ASSUME q.recipients[g].until # Out
               PROVE  LeaseOk(u, L, e, g)
    BY DEF LeaseOk
  <2>1. LeaseOk(s, L, e, g) /\ Turns(r, q)
    BY <1>1 DEF LeasesOk
  <2>2. q.status = "active"
    <3> SUFFICES ASSUME q.status # "active" PROVE FALSE
      OBVIOUS
    <3>1. q = r
      BY <2>1, Zenon DEF Turns, Acquits
    <3> QED BY <2>1, <3>1 DEF LeaseOk, Owing
  <2>3. /\ q.recipients[g] = r.recipients[g] /\ q.expiresAt = r.expiresAt
    BY <2>1, <2>2 DEF Turns, Acquits
  <2>4. Owing(r, g)
    BY <2>1, <2>3 DEF LeaseOk
  <2>5. Owing(q, g) /\ u.delivery[g][e] = s.delivery[g][e]
    BY <1>1, <2>2, <2>3, <2>4 DEF Owing
  <2> QED BY <2>1, <2>3, <2>5 DEF LeaseOk
<1> QED BY <1>3, <1>5, <1>6 DEF LeasesOk

\* Verdicts depend on the clock alone.
LEMMA SameTimeJudged ==
    ASSUME NEW s, NEW u, NEW H, NEW r, u.now = s.now, Judged(s, H, r)
    PROVE  Judged(u, H, r)
BY DEF Judged

\* Only the records of E, if any, still have to be brought up to date.
Normalizable(s, H, E) ==
    /\ \A e \in E : Judgeable(s, H, s.event[e])
    /\ \A e \in Events \ E : Judged(s, H, s.event[e])

\* The records of E that exist were brought up to date.
Updated(s, E, u) ==
    \A e \in Events : u.event[e] =
        IF e \in E /\ s.event[e].status # "absent" THEN Normal(s, e) ELSE s.event[e]

\* normalize makes the keyspace good, even after a record was written.
LEMMA NormalizeGood ==
    ASSUME NEW s, NEW H \in Seq([name : Names, left : Score]), NEW L, Sound(s, H, L),
           NEW E \in SUBSET Events, Normalizable(s, H, E),
           NEW u, u = Normalize(s, E)
    PROVE  Good(u, H, L) /\ Upkept(s, u) /\ Updated(s, E, u)
<1> DEFINE stored == {e \in E : s.event[e].status # "absent"}
           new == [e \in stored |-> Normal(s, e)]
<1>1. s \in Keyspace /\ Indexed(s) /\ Enrolled(s, H) /\ Remembered(s, H) /\ LeasesOk(s, L)
  BY DEF Sound
<1>2. \A e \in stored : /\ Normal(s, e) \in Event /\ Turns(s.event[e], Normal(s, e))
                        /\ Judged(s, H, Normal(s, e))
  BY <1>1, NormalRecord, Zenon DEF Normalizable
<1>3. u = Reindexed(s, stored, new)
  BY DEF Normalize
<1>4. \A e \in stored : new[e] = Normal(s, e)
  OBVIOUS
<1>5. stored \in SUBSET Events
  OBVIOUS
<1>6. \A e \in Events : e \in stored <=> e \in E /\ s.event[e].status # "absent"
  OBVIOUS
<1> HIDE DEF stored, new
<1>7. \A e \in stored : new[e] \in Event /\ Turns(s.event[e], new[e])
  BY <1>2, <1>4
<1>8. /\ Upkept(s, u)
      /\ \A e \in Events : u.event[e] = IF e \in stored THEN new[e] ELSE s.event[e]
  <2>1. s \in Keyspace /\ Indexed(s)
    BY <1>1
  <2> QED BY <2>1, <1>3, <1>5, <1>7, ReindexedUpkeeps
<1>9. Enrolled(u, H) /\ Remembered(u, H) /\ LeasesOk(u, L)
  BY <1>1, <1>8, UpkeptKeeps, Zenon
<1>10. u.now = s.now /\ u \in Keyspace /\ Indexed(u)
  BY <1>8 DEF Upkept, Turned
<1>11. ASSUME NEW e \in Events PROVE Judged(u, H, u.event[e])
  <2>1. CASE e \in stored
    BY <1>2, <1>4, <1>8, <1>10, <2>1, SameTimeJudged
  <2>2. CASE e \in E /\ e \notin stored
    <3>1. s.event[e].status = "absent" /\ u.event[e] = s.event[e]
      BY <1>6, <1>8, <2>2
    <3>2. Judged(s, H, s.event[e])
      BY <2>2, <3>1 DEF Judgeable, Normalizable
    <3> QED BY <1>10, <3>1, <3>2, SameTimeJudged
  <2>3. CASE e \notin E
    <3>1. u.event[e] = s.event[e]
      BY <1>6, <1>8, <2>3
    <3>2. Judged(s, H, s.event[e])
      BY <2>3 DEF Normalizable
    <3> QED BY <1>10, <3>1, <3>2, SameTimeJudged
  <2> QED BY <2>1, <2>2, <2>3
<1> QED BY <1>4, <1>6, <1>8, <1>9, <1>10, <1>11 DEF Good, Sound, Updated

\* Nobody can tell whether records were brought up to date, and those that are
\* still active then are.
LEMMA NormalizeUnnoticed ==
    ASSUME NEW s, NEW H, NEW L, Sound(s, H, L), NEW E \in SUBSET Events,
           Normalizable(s, H, E), NEW u, Upkept(s, u), Updated(s, E, u)
    PROVE  /\ Unnoticed(s, u)
           /\ \A e \in E : u.event[e].status = "active" => Fresh(u, e)
<1>1. s \in Keyspace /\ Enrolled(s, H)
  BY DEF Sound
<1>2. /\ u \in Keyspace /\ u.removed = s.removed /\ u.now = s.now
      /\ u.subscriptions = s.subscriptions
  BY DEF Upkept, Turned
<1>3. ASSUME NEW e \in E, s.event[e].status # "absent"
      PROVE  /\ Current(u, e) = Current(s, e)
             /\ u.event[e].status = "active" => Fresh(u, e)
  <2>1. u.event[e] = Normal(s, e)
    BY <1>3 DEF Updated
  <2>2. s.event[e].status = "active" => s.event[e].resolvedAt <= s.now
    BY DEF Normalizable, Judgeable, Judged
  <2>3. u.event[e] \in Event /\ e \in Events
    BY <1>2, EventType
  <2>4. Current(s, e) = Normal(s, e)
    BY <1>3 DEF Current
  <2> QED BY <1>1, <1>2, <1>3, <2>1, <2>2, <2>3, <2>4, NormalAgain
<1>4. ASSUME NEW e \in Events, e \notin E \/ s.event[e].status = "absent"
      PROVE  u.event[e] = s.event[e] /\ Current(u, e) = Current(s, e)
  <2>1. u.event[e] = s.event[e]
    BY <1>4 DEF Updated
  <2>2. Normal(u, e) = Normal(s, e)
    BY <1>2, <2>1, NormalDepends
  <2> QED BY <2>1, <2>2 DEF Current
<1>5. \A e \in Events : Current(u, e) = Current(s, e)
  BY <1>3, <1>4
<1>6. \A e \in E : u.event[e].status = "active" => Fresh(u, e)
  BY <1>3, <1>4
<1> QED BY <1>2, <1>5, <1>6 DEF Unnoticed

\* purge leaves nothing of an event, in the record or in the indices; it is not
\* missed, when its retention is over.
LEMMA PurgeGood ==
    ASSUME NEW s, NEW H, NEW L, Good(s, H, L), NEW E \in SUBSET Events,
           \A e \in E : Reached(s.archiveDeadlines[e], s.now),
           NEW u, u = Purge(s, E)
    PROVE  Good(u, H, L) /\ Upkept(s, u) /\ Unnoticed(s, u)
<1> DEFINE new == [e \in E |-> NoEvent]
<1>1. s \in Keyspace /\ Indexed(s) /\ Enrolled(s, H) /\ Remembered(s, H) /\ LeasesOk(s, L)
  BY DEF Good, Sound
<1>2. NoEvent \in Event
  BY NoEventType
<1>3. \A e \in E : new[e] = NoEvent
  OBVIOUS
<1>4. ASSUME NEW r PROVE Turns(r, NoEvent)
  BY NoEventType DEF Turns, Acquits, Settled
<1>5. u = Reindexed(s, E, new)
  BY DEF Purge
<1> HIDE DEF new
<1>6. /\ Upkept(s, u)
      /\ \A e \in Events : u.event[e] = IF e \in E THEN new[e] ELSE s.event[e]
  <2>1. \A e \in E : new[e] \in Event /\ Turns(s.event[e], new[e])
    BY <1>2, <1>3, <1>4
  <2> QED BY <1>1, <1>5, <2>1, ReindexedUpkeeps
<1>7. Enrolled(u, H) /\ Remembered(u, H) /\ LeasesOk(u, L)
  BY <1>1, <1>6, UpkeptKeeps
<1>8. u.now = s.now /\ u \in Keyspace /\ Indexed(u)
  BY <1>6 DEF Upkept, Turned
<1>9. Judged(s, H, NoEvent)
  BY NoEventType DEF Judged, Told, Addressed, Filed, Settled
<1>10. \A e \in Events : Judged(u, H, u.event[e])
  BY <1>3, <1>6, <1>8, <1>9, SameTimeJudged DEF Good
<1>11. ASSUME NEW e \in Events PROVE Current(u, e) = Current(s, e)
  <2>1. CASE e \in E
    <3> DEFINE r == s.event[e]
    <3>1. u.event[e] = NoEvent
      BY <1>3, <1>6, <2>1
    <3>2. s.archiveDeadlines[e] = IF Settled(r) THEN r.archiveUntil ELSE Out
      BY <1>1 DEF Indexed
    <3>3. Settled(r) /\ Reached(r.archiveUntil, s.now)
      BY <2>1, <3>2 DEF Reached
    <3>4. Current(s, e) = NoEvent
      BY <3>3 DEF Current, Normal, Settled
    <3> QED BY <3>1, <3>4, NoEventType DEF Current
  <2>2. CASE e \notin E
    <3>1. u.event[e] = s.event[e] /\ u.removed = s.removed
      BY <1>6, <2>2 DEF Upkept
    <3>2. Normal(u, e) = Normal(s, e)
      BY <1>8, <3>1, NormalDepends
    <3> QED BY <3>1, <3>2 DEF Current
  <2> QED BY <2>1, <2>2
<1>12. Unnoticed(s, u)
  BY <1>6, <1>11 DEF Upkept, Turned, Unnoticed
<1> QED BY <1>6, <1>7, <1>8, <1>10, <1>12 DEF Good, Sound

-----------------------------------------------------------------------------
(* The sweep. *)

\* A deadline without an event is no deadline: there is none to drop.
LEMMA ExpireGood ==
    ASSUME NEW s, NEW H \in Seq([name : Names, left : Score]), NEW L, Good(s, H, L),
           NEW B \in SUBSET Events, NEW u, u = Expire(s, B)
    PROVE  Good(u, H, L) /\ Upkept(s, u) /\ Unnoticed(s, u)
<1> DEFINE n == Normalize(s, B)
<1>1. Good(n, H, L) /\ Upkept(s, n) /\ Updated(s, B, n) /\ Unnoticed(s, n)
  <2>1. Sound(s, H, L) /\ \A e \in Events : Judged(s, H, s.event[e])
    BY DEF Good
  <2>2. Normalizable(s, H, B)
    BY <2>1 DEF Normalizable, Judgeable
  <2>3. n = Normalize(s, B)
    OBVIOUS
  <2> HIDE DEF n
  <2>4. Good(n, H, L) /\ Upkept(s, n) /\ Updated(s, B, n)
    BY <2>1, <2>2, <2>3, NormalizeGood, Zenon
  <2> QED BY <2>1, <2>2, <2>4, NormalizeUnnoticed
<1> HIDE DEF n
<1>2. n \in Keyspace /\ Indexed(n)
  BY <1>1 DEF Upkept
<1>3. n.deadlines = [e \in Events |->
          IF e \in B /\ s.event[e].status = "absent" THEN Out ELSE n.deadlines[e]]
  <2>1. \A e \in B : s.event[e].status = "absent" => n.deadlines[e] = Out
    BY <1>1, <1>2 DEF Indexed, Updated
  <2>2. n.deadlines \in [Events -> Score]
    BY <1>2 DEF Keyspace
  <2> QED BY <2>1, <2>2
<1>4. u = [n EXCEPT !.deadlines = n.deadlines]
  BY <1>2, <1>3 DEF Expire, n, Keyspace
<1>5. u = n
  BY <1>2, <1>4 DEF Keyspace
<1> QED BY <1>1, <1>5

\* A retired generation is forgotten only once no event waits for it, and what
\* a sweep takes from its index has been waived or settled.
LEMMA RetireGood ==
    ASSUME NEW s, NEW H \in Seq([name : Names, left : Score]), NEW L, Good(s, H, L),
           NEW took, \A g \in DOMAIN took : g \in Gens /\ s.retired[g] # Out
                                            /\ took[g] \subseteq Events,
           NEW u, u = Retire(s, took)
    PROVE  Good(u, H, L) /\ Turned(s, u) /\ Unnoticed(s, u)
<1> DEFINE E == UNION {took[g] : g \in DOMAIN took}
           n == Normalize(s, E)
           taken == [g \in Gens |-> [e \in Events |->
                        IF g \in DOMAIN took /\ e \in took[g] THEN Out ELSE n.delivery[g][e]]]
           done == Drained(n, DOMAIN took)
           removed == [g \in Gens |-> IF g \in done THEN Out ELSE n.removed[g]]
           retired == [g \in Gens |-> IF g \in done THEN Out ELSE n.retired[g]]
<1>1. /\ Sound(s, H, L) /\ s \in Keyspace /\ Enrolled(s, H)
      /\ \A e \in Events : Judged(s, H, s.event[e])
  BY DEF Good, Sound
<1>2. Good(n, H, L) /\ Upkept(s, n) /\ Updated(s, E, n) /\ Unnoticed(s, n)
  <2>1. Normalizable(s, H, E) /\ E \in SUBSET Events
    BY <1>1 DEF Normalizable, Judgeable
  <2>2. n = Normalize(s, E)
    OBVIOUS
  <2> HIDE DEF n, E
  <2>3. Good(n, H, L) /\ Upkept(s, n) /\ Updated(s, E, n)
    BY <1>1, <2>1, <2>2, NormalizeGood, Zenon
  <2> QED BY <1>1, <2>1, <2>3, NormalizeUnnoticed
<1> HIDE DEF n
<1>3. /\ n \in Keyspace /\ Indexed(n) /\ n.removed = s.removed /\ n.retired = s.retired
      /\ n.now = s.now /\ \A e \in Events : Turns(s.event[e], n.event[e])
  BY <1>2 DEF Upkept, Turned
<1>4. ASSUME NEW g \in DOMAIN took, NEW e \in took[g]
      PROVE  ~Owing(n.event[e], g)
  <2> SUFFICES ASSUME Owing(n.event[e], g) PROVE FALSE
    OBVIOUS
  <2>1. g \in Gens /\ s.retired[g] # Out /\ e \in Events /\ e \in E
    OBVIOUS
  <2>2. s.removed[g] # Out
    BY <1>1, <2>1 DEF Enrolled
  <2>3. n.event[e].status = "active" /\ s.event[e].status = "active"
    BY <1>3, <2>1 DEF Turns, Acquits, Owing
  <2>4. n.event[e] = Normal(s, e)
    BY <1>2, <2>1, <2>3 DEF Updated
  <2>5. s.event[e].resolvedAt <= s.now
    BY <1>1, <2>1, <2>3 DEF Judged
  <2>6. /\ Normal(s, e) = Waive(s, e)
        /\ \A h \in Pending(Waive(s, e)) : s.removed[h] = Out
    BY <1>1, <2>1, <2>3, <2>4, <2>5, NormalActive
  <2>7. g \in Pending(Waive(s, e))
    BY <2>1, <2>4, <2>6 DEF Owing, Pending
  <2> QED BY <2>2, <2>6, <2>7
<1>5. taken = n.delivery
  <2>1. \A g \in DOMAIN took : g \in Gens /\ took[g] \subseteq Events
    OBVIOUS
  <2>2. \A g \in DOMAIN took : \A e \in took[g] : n.delivery[g][e] = Out
    BY <1>3, <1>4, <2>1 DEF Indexed
  <2>3. n.delivery \in [Gens -> [Events -> Score]]
    BY <1>3 DEF Keyspace
  <2> HIDE DEF E, done, removed, retired
  <2>4. ASSUME NEW g \in Gens
        PROVE  n.delivery[g] = [e \in Events |->
                  IF g \in DOMAIN took /\ e \in took[g] THEN Out ELSE n.delivery[g][e]]
    BY <2>2, <2>3
  <2> QED BY <2>3, <2>4
<1>6. [n EXCEPT !.delivery = taken] = n
  BY <1>3, <1>5 DEF Keyspace
<1>7. u = [n EXCEPT !.removed = removed, !.retired = retired]
  <2>1. taken = [g \in Gens |-> [e \in Events |->
             IF g \in DOMAIN took /\ e \in took[g] THEN Out ELSE n.delivery[g][e]]]
    OBVIOUS
  <2>2. [n EXCEPT !.delivery = [g \in Gens |-> [e \in Events |->
             IF g \in DOMAIN took /\ e \in took[g] THEN Out ELSE @[g][e]]]] = n
    BY <1>6, <2>1
  <2> DEFINE v == [n EXCEPT !.delivery = [g \in Gens |-> [e \in Events |->
                      IF g \in DOMAIN took /\ e \in took[g] THEN Out ELSE @[g][e]]]]
             drained == Drained(v, DOMAIN took)
  <2>3. u = [v EXCEPT !.removed = [g \in Gens |-> IF g \in drained THEN Out ELSE @[g]],
                      !.retired = [g \in Gens |-> IF g \in drained THEN Out ELSE @[g]]]
    BY DEF Retire, n, E
  <2>4. v = n
    BY <2>2
  <2> HIDE DEF v
  <2> QED BY <2>3, <2>4
<1>8. /\ removed \in [Gens -> Score] /\ retired \in [Gens -> Score]
      /\ \A g \in Gens : /\ removed[g] = IF g \in done THEN Out ELSE s.removed[g]
                         /\ retired[g] = IF g \in done THEN Out ELSE s.retired[g]
  <2>1. n.removed \in [Gens -> Score] /\ n.retired \in [Gens -> Score] /\ Out \in Score
    BY <1>3 DEF Keyspace, Score
  <2> HIDE DEF done
  <2> QED BY <1>3, <2>1
<1>9. \A e \in Events, g \in Gens : Owing(n.event[e], g) => g \notin done
  BY <1>3 DEF Indexed, Drained
<1> HIDE DEF E, taken, done, removed, retired
<1>10. /\ u \in Keyspace /\ u.removed = removed /\ u.retired = retired
       /\ u.now = n.now /\ u.subscriptions = n.subscriptions /\ u.event = n.event
       /\ u.delivery = n.delivery /\ u.deadlines = n.deadlines
       /\ u.archives = n.archives /\ u.archiveDeadlines = n.archiveDeadlines
  <2>1. u \in Keyspace
    BY <1>3, <1>7, <1>8, Zenon DEF Keyspace
  <2>2. u.removed = removed /\ u.retired = retired
    BY <1>3, <1>7 DEF Keyspace
  <2> QED BY <1>3, <1>7, <2>1, <2>2 DEF Keyspace
<1>11. /\ Enrolled(n, H) /\ Remembered(n, H) /\ LeasesOk(n, L)
       /\ \A e \in Events : Judged(n, H, n.event[e])
  BY <1>2 DEF Good, Sound
<1>12. Indexed(u) /\ LeasesOk(u, L)
  BY <1>3, <1>10, <1>11, SameIndices
<1>13. \A g : Joined(u, H, g) <=> Joined(n, H, g)
  BY <1>10 DEF Joined
<1>14. Enrolled(u, H)
  BY <1>3, <1>8, <1>10, <1>11, <1>13 DEF Enrolled
<1>15. Remembered(u, H)
  BY <1>3, <1>8, <1>9, <1>10, <1>11, <1>13 DEF Remembered
<1>16. \A e \in Events : Judged(u, H, u.event[e])
  BY <1>10, <1>11, SameTimeJudged
<1>17. Turned(s, u)
  BY <1>2, <1>10 DEF Upkept, Turned
<1>18. ASSUME NEW e \in Events PROVE Current(u, e) = Current(n, e)
  <2>1. u.event[e] = n.event[e] /\ u.now = n.now
    BY <1>10
  <2>2. ASSUME NEW g \in Pending(n.event[e]), n.event[e].status = "active"
        PROVE  u.removed[g] = n.removed[g]
    <3>1. g \in Gens /\ Owing(n.event[e], g)
      BY <2>2 DEF Pending, Owing
    <3> QED BY <1>3, <1>8, <1>9, <1>10, <3>1
  <2>3. Normal(u, e) = Normal(n, e)
    BY <2>1, <2>2, NormalDepends
  <2> QED BY <2>1, <2>3 DEF Current
<1>19. Unnoticed(n, u)
  BY <1>10, <1>18 DEF Unnoticed
<1>20. Unnoticed(s, u)
  BY <1>2, <1>19, UnnoticedTransitive
<1> QED BY <1>10, <1>12, <1>14, <1>15, <1>16, <1>17, <1>20 DEF Good, Sound

\* Due members of an index are members of it.
LEMMA FirstsSubset ==
    ASSUME NEW index, NEW limit, NEW B \in Firsts(index, limit)
    PROVE  B \subseteq DOMAIN index /\ \A b \in B : index[b] # Out
BY DEF Firsts

\* A batch contains what is due.
LEMMA DueBatchesSubset ==
    ASSUME NEW index, NEW now, NEW limit, NEW B \in DueBatches(index, now, limit)
    PROVE  B \subseteq DOMAIN index /\ \A b \in B : Reached(index[b], now)
<1> DEFINE due == [m \in DOMAIN index |-> IF Reached(index[m], now) THEN index[m] ELSE Out]
<1>1. B \in Firsts(due, limit)
  BY DEF DueBatches
<1>2. B \subseteq DOMAIN due /\ \A b \in B : due[b] # Out
  BY <1>1, FirstsSubset
<1> QED BY <1>2, Zenon

\* A sweep visits generations that are retired.
LEMMA TakingsRetired ==
    ASSUME NEW s, NEW took \in Takings(s)
    PROVE  \A g \in DOMAIN took : g \in Gens /\ s.retired[g] # Out /\ took[g] \subseteq Events
<1> DEFINE queue == {g \in Gens : s.retired[g] # Out}
<1>1. took \in UNION {[V -> SUBSET Events] : V \in SUBSET queue}
  BY DEF Takings
<1>2. PICK V \in SUBSET queue : took \in [V -> SUBSET Events]
  BY <1>1
<1> QED BY <1>2

\* A sweep brings things up to date, and no more: nobody can tell it happened.
LEMMA SweptGood ==
    ASSUME NEW s, NEW H \in Seq([name : Names, left : Score]), NEW L, Good(s, H, L),
           NEW u, u \in Swept(s)
    PROVE  Good(u, H, L) /\ Turned(s, u) /\ Unnoticed(s, u)
<1>1. PICK B \in DueBatches(s.deadlines, s.now, Batch) :
         u \in UNION {{Retire(w, took) : took \in Takings(w)} :
                       w \in {Purge(Expire(s, B), C) :
                              C \in DueBatches(Expire(s, B).archiveDeadlines,
                                              Expire(s, B).now, Batch)}}
  BY DEF Swept
<1> DEFINE x == Expire(s, B)
<1>2. PICK C \in DueBatches(x.archiveDeadlines, x.now, Batch) :
          u \in {Retire(Purge(x, C), took) : took \in Takings(Purge(x, C))}
  BY <1>1
<1> DEFINE p == Purge(x, C)
<1>3. PICK took \in Takings(p) : u = Retire(p, took)
  BY <1>2
<1>4. B \in SUBSET Events
  <2>1. s \in Keyspace
    BY DEF Good, Sound
  <2>2. DOMAIN s.deadlines = Events
    BY <2>1 DEF Keyspace
  <2> QED BY <2>2, DueBatchesSubset
<1>5. x = Expire(s, B) /\ p = Purge(x, C) /\ u = Retire(p, took)
  BY <1>3
<1>6. C \in DueBatches(x.archiveDeadlines, x.now, Batch) /\ took \in Takings(p)
  OBVIOUS
<1> HIDE DEF x, p
<1>7. Good(x, H, L) /\ Upkept(s, x) /\ Unnoticed(s, x)
  BY <1>4, <1>5, ExpireGood, Zenon
<1>8. C \in SUBSET Events /\ \A e \in C : Reached(x.archiveDeadlines[e], x.now)
  <2>1. DOMAIN x.archiveDeadlines = Events
    BY <1>7 DEF Upkept, Keyspace
  <2> QED BY <1>6, <2>1, DueBatchesSubset
<1>9. Good(p, H, L) /\ Upkept(x, p) /\ Unnoticed(x, p)
  BY <1>5, <1>7, <1>8, PurgeGood
<1>10. \A g \in DOMAIN took : g \in Gens /\ p.retired[g] # Out /\ took[g] \subseteq Events
  BY <1>6, TakingsRetired
<1>11. Good(u, H, L) /\ Turned(p, u) /\ Unnoticed(p, u)
  BY <1>5, <1>9, <1>10, RetireGood, Zenon
<1>12. Turned(s, p)
  BY <1>7, <1>9, TurnedTransitive DEF Upkept
<1>13. Unnoticed(s, u)
  BY <1>7, <1>9, <1>11, UnnoticedTransitive
<1> QED BY <1>11, <1>12, <1>13, TurnedTransitive

-----------------------------------------------------------------------------
(* Rewriting one delivery: take, renew and release. *)

\* The delivery of e to g is now q, and comes back at d.
Redelivered(s, e, g, q, d) ==
    [s EXCEPT !.event[e].recipients[g] = q, !.delivery[g][e] = d]

Rewritten(s, u, e, g, q, d) ==
    /\ u \in Keyspace
    /\ u.now = s.now /\ u.subscriptions = s.subscriptions
    /\ u.removed = s.removed /\ u.retired = s.retired /\ u.deadlines = s.deadlines
    /\ u.archives = s.archives /\ u.archiveDeadlines = s.archiveDeadlines
    /\ u.event[e] = [s.event[e] EXCEPT !.recipients[g] = q]
    /\ u.event[e].recipients[g] = q
    /\ \A h \in Gens : h # g => u.event[e].recipients[h] = s.event[e].recipients[h]
    /\ \A f \in Events : f # e => u.event[f] = s.event[f]
    /\ u.delivery[g][e] = d
    /\ \A f \in Events, h \in Gens :
          f # e \/ h # g => u.delivery[h][f] = s.delivery[h][f]

\* Rewriting one recipient and its place in the queue changes nothing else.
LEMMA RedeliveredFields ==
    ASSUME NEW s \in Keyspace, NEW e \in Events, NEW g \in Gens, NEW q \in Recipient,
           NEW d \in Score, NEW u, u = Redelivered(s, e, g, q, d)
    PROVE  Rewritten(s, u, e, g, q, d)
<1> DEFINE r == [s.event[e] EXCEPT !.recipients[g] = q]
           event == [s.event EXCEPT ![e] = r]
           row == [s.delivery[g] EXCEPT ![e] = d]
           delivery == [s.delivery EXCEPT ![g] = row]
<1>1. /\ s.event \in [Events -> Event] /\ s.event[e] \in Event
      /\ s.event[e].recipients \in [Gens -> Recipient]
      /\ s.delivery \in [Gens -> [Events -> Score]] /\ s.delivery[g] \in [Events -> Score]
  BY DEF Keyspace, Event
<1>2. r \in Event /\ r.recipients = [s.event[e].recipients EXCEPT ![g] = q]
  BY <1>1, Zenon DEF Event
<1>3. row \in [Events -> Score] /\ row[e] = d
      /\ \A f \in Events : f # e => row[f] = s.delivery[g][f]
  BY <1>1
<1>4. u = [s EXCEPT !.event = event, !.delivery = delivery]
  BY DEF Redelivered
<1>5. r.recipients[g] = q /\ \A h \in Gens : h # g => r.recipients[h] = s.event[e].recipients[h]
  BY <1>1, <1>2
<1>6. r = [s.event[e] EXCEPT !.recipients[g] = q]
  OBVIOUS
<1> HIDE DEF r, row
<1>7. /\ event \in [Events -> Event] /\ event[e] = r
      /\ \A f \in Events : f # e => event[f] = s.event[f]
  BY <1>1, <1>2
<1>8. /\ delivery \in [Gens -> [Events -> Score]] /\ delivery[g] = row
      /\ \A h \in Gens : h # g => delivery[h] = s.delivery[h]
  BY <1>1, <1>3
<1> HIDE DEF event, delivery
<1>9. /\ u \in Keyspace /\ u.event = event /\ u.delivery = delivery
      /\ u.now = s.now /\ u.subscriptions = s.subscriptions
      /\ u.removed = s.removed /\ u.retired = s.retired /\ u.deadlines = s.deadlines
      /\ u.archives = s.archives /\ u.archiveDeadlines = s.archiveDeadlines
  BY <1>4, <1>7, <1>8, Zenon DEF Keyspace
<1>10. /\ u.event[e] = [s.event[e] EXCEPT !.recipients[g] = q]
       /\ u.event[e].recipients[g] = q
       /\ \A h \in Gens : h # g => u.event[e].recipients[h] = s.event[e].recipients[h]
  <2>1. u.event[e] = r
    BY <1>7, <1>9
  <2> QED BY <1>5, <1>6, <2>1
<1>11. /\ u.delivery[g][e] = d
       /\ \A f \in Events, h \in Gens :
             f # e \/ h # g => u.delivery[h][f] = s.delivery[h][f]
  <2>1. ASSUME NEW f \in Events, NEW h \in Gens, f # e \/ h # g
        PROVE  u.delivery[h][f] = s.delivery[h][f]
    <3>1. CASE h = g
      BY <1>3, <1>8, <1>9, <2>1, <3>1
    <3>2. CASE h # g
      BY <1>8, <1>9, <3>2
    <3> QED BY <3>1, <3>2
  <2> QED BY <1>3, <1>8, <1>9, <2>1
<1> QED BY <1>7, <1>9, <1>10, <1>11 DEF Rewritten

\* Setting the token and the end of a lease one after the other.
Reassigned(s, e, g, token, until, d) ==
    [s EXCEPT !.event[e].recipients[g].token = token,
              !.event[e].recipients[g].until = until,
              !.delivery[g][e] = d]

WithLease(q, token, until) == [q EXCEPT !.token = token, !.until = until]

\* It does not matter whether its token and lease are written one by one.
LEMMA RedeliveredByField ==
    ASSUME NEW s \in Keyspace, NEW e \in Events, NEW g \in Gens, NEW token, NEW until, NEW d
    PROVE  Reassigned(s, e, g, token, until, d)
               = Redelivered(s, e, g, WithLease(s.event[e].recipients[g], token, until), d)
<1> DEFINE r == s.event[e]
           q == [r.recipients[g] EXCEPT !.token = token, !.until = until]
           half == [r EXCEPT !.recipients[g].token = token]
           whole == [half EXCEPT !.recipients[g].until = until]
<1>1. /\ r \in Event /\ r.recipients \in [Gens -> Recipient]
      /\ s.event \in [Events -> Event]
  BY EventType DEF Keyspace, Event
<1>2. half.recipients = [r.recipients EXCEPT ![g].token = token]
  BY <1>1 DEF Event
<1>3. half = [r EXCEPT !.recipients = half.recipients]
  BY <1>1, <1>2 DEF Event
<1>4. whole = [half EXCEPT !.recipients = [half.recipients EXCEPT ![g].until = until]]
  BY <1>1, <1>3 DEF Event
<1>5. [half.recipients EXCEPT ![g].until = until] = [r.recipients EXCEPT ![g] = q]
  <2> DEFINE x == r.recipients[g]
  <2>1. half.recipients[g] = [x EXCEPT !.token = token]
    BY <1>1, <1>2
  <2>2. q = [[x EXCEPT !.token = token] EXCEPT !.until = until]
    BY <1>1 DEF Recipient
  <2>3. [half.recipients EXCEPT ![g].until = until] = [half.recipients EXCEPT ![g] = q]
    BY <1>1, <1>2, <2>1, <2>2
  <2>4. [half.recipients EXCEPT ![g] = q] = [r.recipients EXCEPT ![g] = q]
    BY <1>1, <1>2
  <2> QED BY <2>3, <2>4
<1>6. whole = [r EXCEPT !.recipients[g] = q]
  BY <1>1, <1>3, <1>4, <1>5, Zenon DEF Event
<1>7. /\ half = [r EXCEPT !.recipients[g].token = token]
      /\ whole = [half EXCEPT !.recipients[g].until = until]
  OBVIOUS
<1> HIDE DEF half, whole, r
<1>8. [[s.event EXCEPT ![e].recipients[g].token = token]
                EXCEPT ![e].recipients[g].until = until] = [s.event EXCEPT ![e] = whole]
  <2>1. [s.event EXCEPT ![e].recipients[g].token = token] = [s.event EXCEPT ![e] = half]
    BY <1>1, <1>7 DEF r
  <2>2. [[s.event EXCEPT ![e] = half] EXCEPT ![e].recipients[g].until = until]
           = [[s.event EXCEPT ![e] = half] EXCEPT ![e] = whole]
    <3>1. [s.event EXCEPT ![e] = half][e] = half
      BY <1>1
    <3> QED BY <1>1, <1>7, <3>1, Zenon
  <2>3. [[s.event EXCEPT ![e] = half] EXCEPT ![e] = whole] = [s.event EXCEPT ![e] = whole]
    BY <1>1
  <2> QED BY <2>1, <2>2, <2>3
<1>9. [s.event EXCEPT ![e].recipients[g] = q] = [s.event EXCEPT ![e] = whole]
  BY <1>1, <1>6 DEF r
<1> DEFINE first == [s.event EXCEPT ![e].recipients[g].token = token]
           second == [first EXCEPT ![e].recipients[g].until = until]
           s1 == [s EXCEPT !.event = first]
           s2 == [s EXCEPT !.event = second]
<1>10. s1 = [s EXCEPT !.event[e].recipients[g].token = token]
  OBVIOUS
<1>11. s1.event = first
  BY DEF Keyspace
<1>12. [s1 EXCEPT !.event[e].recipients[g].until = until] = [s1 EXCEPT !.event = second]
  BY <1>11
<1>14. second = [s.event EXCEPT ![e].recipients[g] = q]
  BY <1>8, <1>9
<1>15. Reassigned(s, e, g, token, until, d)
         = [[[s EXCEPT !.event[e].recipients[g].token = token]
                EXCEPT !.event[e].recipients[g].until = until] EXCEPT !.delivery[g][e] = d]
  BY DEF Reassigned
<1> HIDE DEF first, second
<1>13. [s1 EXCEPT !.event = second] = s2
  BY Zenon DEF Keyspace
<1> HIDE DEF s1
<1>16. Reassigned(s, e, g, token, until, d) = [s2 EXCEPT !.delivery[g][e] = d]
  BY <1>10, <1>12, <1>13, <1>15, Zenon
<1>17. Redelivered(s, e, g, q, d)
         = [[s EXCEPT !.event[e].recipients[g] = q] EXCEPT !.delivery[g][e] = d]
  BY DEF Redelivered
<1>18. [s EXCEPT !.event[e].recipients[g] = q] = s2
  BY <1>14
<1> QED BY <1>16, <1>17, <1>18, Zenon DEF WithLease, r

\* A delivery that is still open may be rewritten, if its lease is fenced.
LEMMA RedeliveredGood ==
    ASSUME NEW s, NEW H, NEW L, NEW M, Good(s, H, L), NEW e \in Events, NEW g \in Gens,
           NEW q \in Recipient, NEW d \in Nat, Owing(s.event[e], g), q.status = "pending",
           NEW u, u = Redelivered(s, e, g, q, d), LeaseOk(u, M, e, g),
           \A f \in Events, h \in Gens :
               (f # e \/ h # g) /\ LeaseOk(s, L, f, h) => LeaseOk(s, M, f, h)
    PROVE  Good(u, H, M)
<1> DEFINE r == s.event[e]
           v == u.event[e]
<1>1. /\ s \in Keyspace /\ Indexed(s) /\ Enrolled(s, H) /\ Remembered(s, H)
      /\ LeasesOk(s, L) /\ \A f \in Events : Judged(s, H, s.event[f])
  BY DEF Good, Sound
<1>2. d \in Score
  BY DEF Score
<1>3. /\ u \in Keyspace
      /\ u.now = s.now /\ u.subscriptions = s.subscriptions
      /\ u.removed = s.removed /\ u.retired = s.retired /\ u.deadlines = s.deadlines
      /\ u.archives = s.archives /\ u.archiveDeadlines = s.archiveDeadlines
      /\ v = [r EXCEPT !.recipients[g] = q]
      /\ v.recipients[g] = q
      /\ \A h \in Gens : h # g => v.recipients[h] = r.recipients[h]
      /\ \A f \in Events : f # e => u.event[f] = s.event[f]
      /\ u.delivery[g][e] = d
      /\ \A f \in Events, h \in Gens :
            f # e \/ h # g => u.delivery[h][f] = s.delivery[h][f]
  <2>1. Rewritten(s, u, e, g, q, d)
    BY <1>1, <1>2, RedeliveredFields
  <2> QED BY <2>1 DEF Rewritten
<1>4. r \in Event
  BY <1>1, EventType
<1>5. /\ v.status = r.status /\ v.expiresAt = r.expiresAt /\ v.settledAt = r.settledAt
      /\ v.archiveUntil = r.archiveUntil /\ v.resolvedAt = r.resolvedAt
      /\ r.status = "active"
  BY <1>3, <1>4 DEF Event, Owing
<1>6. \A h \in Gens : v.recipients[h].status = r.recipients[h].status
  BY <1>3 DEF Owing
<1> HIDE DEF r, v
<1>7. \A f \in Events : /\ u.event[f].status = s.event[f].status
                        /\ u.event[f].expiresAt = s.event[f].expiresAt
                        /\ u.event[f].settledAt = s.event[f].settledAt
                        /\ u.event[f].archiveUntil = s.event[f].archiveUntil
                        /\ \A h \in Gens : u.event[f].recipients[h].status
                                              = s.event[f].recipients[h].status
  <2> SUFFICES ASSUME NEW f \in Events
               PROVE  /\ u.event[f].status = s.event[f].status
                      /\ u.event[f].expiresAt = s.event[f].expiresAt
                      /\ u.event[f].settledAt = s.event[f].settledAt
                      /\ u.event[f].archiveUntil = s.event[f].archiveUntil
                      /\ \A h \in Gens : u.event[f].recipients[h].status
                                            = s.event[f].recipients[h].status
    OBVIOUS
  <2>1. CASE f = e
    <3>1. u.event[f] = v /\ s.event[f] = r
      BY <2>1 DEF v, r
    <3> QED BY <1>5, <1>6, <3>1
  <2>2. CASE f # e
    <3>1. u.event[f] = s.event[f]
      BY <1>3, <2>2
    <3> QED BY <3>1
  <2> QED BY <2>1, <2>2
<1>8. \A f \in Events, h \in Gens : Owing(u.event[f], h) <=> Owing(s.event[f], h)
  BY <1>7 DEF Owing
<1>9. \A f \in Events, h \in Gens : u.delivery[h][f] # Out <=> s.delivery[h][f] # Out
  <2>1. s.delivery[g][e] # Out /\ d # Out
    BY <1>1 DEF Indexed
  <2> QED BY <1>3, <2>1
<1>10. Indexed(u)
  BY <1>1, <1>3, <1>7, <1>8, <1>9 DEF Indexed, Settled
<1>11. \A h : Joined(u, H, h) <=> Joined(s, H, h)
  BY <1>3 DEF Joined
<1>12. Enrolled(u, H)
  BY <1>1, <1>3, <1>11 DEF Enrolled
<1>13. Remembered(u, H)
  BY <1>1, <1>3, <1>8, <1>11 DEF Remembered
<1>14. ASSUME NEW f \in Events PROVE Judged(u, H, u.event[f])
  <2>1. CASE f # e
    BY <1>1, <1>3, <2>1, SameTimeJudged
  <2>2. CASE f = e
    <3>1. Judged(s, H, r)
      BY <1>1 DEF r
    <3>2. Addressed(v) = Addressed(r)
      BY <1>6 DEF Addressed
    <3>3. \A h : Excused(H, r, h) => Excused(H, v, h)
      BY <1>5 DEF Excused, InTime
    <3>4. Told(H, v)
      BY <1>6, <3>1, <3>2, <3>3 DEF Judged, Told, Addressed
    <3>5. Judged(u, H, v)
      BY <1>3, <1>5, <3>1, <3>4 DEF Judged, InTime, Filed, Settled
    <3> QED BY <2>2, <3>5 DEF v
  <2> QED BY <2>1, <2>2
<1>15. ASSUME NEW f \in Events, NEW h \in Gens PROVE LeaseOk(u, M, f, h)
  <2>1. CASE f = e /\ h = g
    BY <2>1
  <2>2. CASE f # e \/ h # g
    <3>1. LeaseOk(s, M, f, h)
      BY <1>1, <2>2 DEF LeasesOk
    <3>2. u.event[f].recipients[h] = s.event[f].recipients[h]
      BY <1>3, <2>2, ZenonT(60) DEF v, r
    <3>3. u.delivery[h][f] = s.delivery[h][f] /\ u.event[f].expiresAt = s.event[f].expiresAt
      BY <1>3, <1>7, <2>2
    <3>4. Owing(u.event[f], h) <=> Owing(s.event[f], h)
      BY <1>8
    <3> QED BY <3>1, <3>2, <3>3, <3>4, Zenon DEF LeaseOk
  <2> QED BY <2>1, <2>2
<1> QED BY <1>3, <1>10, <1>12, <1>13, <1>14, <1>15 DEF Good, Sound, LeasesOk

\* Nobody can tell who holds a delivery: only that it is owed.
LEMMA RewriteUnnoticed ==
    ASSUME NEW s \in Keyspace, NEW e \in Events, NEW g \in Gens, Owing(s.event[e], g),
           Fresh(s, e), NEW q \in Recipient, q.status = "pending", NEW d \in Score,
           NEW u, u = Redelivered(s, e, g, q, d)
    PROVE  Unnoticed(s, u)
<1> DEFINE r == s.event[e]
           v == u.event[e]
<1>1. /\ u \in Keyspace
      /\ u.now = s.now /\ u.subscriptions = s.subscriptions /\ u.removed = s.removed
      /\ v = [r EXCEPT !.recipients[g] = q]
      /\ v.recipients[g] = q
      /\ \A h \in Gens : h # g => v.recipients[h] = r.recipients[h]
      /\ \A f \in Events : f # e => u.event[f] = s.event[f]
  <2>1. Rewritten(s, u, e, g, q, d)
    BY RedeliveredFields
  <2> QED BY <2>1 DEF Rewritten
<1>2. r \in Event /\ v \in Event
  BY <1>1, EventType
<1>3. /\ v.status = r.status /\ v.expiresAt = r.expiresAt /\ v.settledAt = r.settledAt
  BY <1>1, <1>2 DEF Event
<1>4. \A h \in Gens : v.recipients[h].status = r.recipients[h].status
  BY <1>1 DEF Owing
<1>5. Pending(v) = Pending(r) /\ Sight(v) = Sight(r)
  <2> HIDE DEF v, r
  <2>1. Pending(v) = Pending(r) /\ \A status : Having(v, status) = Having(r, status)
    BY <1>4 DEF Pending, Having
  <2> QED BY <1>3, <2>1 DEF Sight
<1>6. Fresh(u, e)
  BY <1>1, <1>2, <1>3, <1>5 DEF Fresh
<1>7. Sight(Current(u, e)) = Sight(Current(s, e))
  BY <1>5, <1>6, FreshStays
<1>8. ASSUME NEW f \in Events, f # e PROVE Current(u, f) = Current(s, f)
  <2>1. u.event[f] = s.event[f]
    BY <1>1, <1>8
  <2>2. Normal(u, f) = Normal(s, f)
    BY <1>1, <2>1, NormalDepends
  <2> QED BY <2>1, <2>2 DEF Current
<1> QED BY <1>1, <1>7, <1>8 DEF Unnoticed

-----------------------------------------------------------------------------
(* The operations. *)

\* The invariant.
EventInv ==
    /\ handles \in Seq([name : Names, left : Score])
    /\ leases \in Seq(Events \X Gens)
    /\ emitted \subseteq Events
    /\ Good(db, handles, leases)
    /\ \A e \in Events : db.event[e].status # "absent" => e \in emitted

\* An event that exists was emitted: none comes to be by bringing others up to date.
LEMMA TurnedExists ==
    ASSUME NEW s, NEW u \in Keyspace, Turned(s, u), NEW e \in Events,
           u.event[e].status # "absent"
    PROVE  s.event[e].status # "absent"
<1>1. u.event[e].status \in {"absent", "active", "completed", "expired"}
  BY EventType DEF Event
<1> QED BY <1>1 DEF Turned, Turns, Acquits, Settled

\* What LiveLeaseKept says of a step.
Undisturbed ==
    \A e \in Events, g \in Gens :
        LET r == db.event[e].recipients[g]
            q == db'.event[e].recipients[g]
        IN r.until # Out /\ r.until > db.now /\ q.status = "pending"
               => q.token \in {r.token, 0}

\* An operation that only brings things up to date keeps the invariant.
LEMMA TurnedKeeps ==
    ASSUME EventInv, UNCHANGED <<handles, leases, emitted>>,
           Good(db', handles, leases), Turned(db, db')
    PROVE  EventInv' /\ Undisturbed
<1>1. db' \in Keyspace
  BY DEF Good, Sound
<1>2. \A e \in Events : db'.event[e].status # "absent" => db.event[e].status # "absent"
  BY <1>1, TurnedExists
<1>3. Good(db', handles', leases')
  OBVIOUS
<1>4. Undisturbed
  BY DEF Undisturbed, Turned, Turns, Acquits
<1> QED BY <1>2, <1>3, <1>4 DEF EventInv

\* get, and the refusals, one event at a time or several.
LEMMA NormalizeKeeps ==
    ASSUME NEW s, NEW H \in Seq([name : Names, left : Score]), NEW L, Good(s, H, L),
           NEW E \in SUBSET Events, NEW u, u = Normalize(s, E)
    PROVE  /\ Good(u, H, L) /\ Upkept(s, u) /\ Updated(s, E, u) /\ Unnoticed(s, u)
           /\ \A e \in E : u.event[e].status = "active" => Fresh(u, e)
<1>1. Sound(s, H, L) /\ Normalizable(s, H, E)
  BY DEF Good, Normalizable, Judgeable
<1>2. Good(u, H, L) /\ Upkept(s, u) /\ Updated(s, E, u)
  BY <1>1, NormalizeGood, Zenon
<1> QED BY <1>1, <1>2, NormalizeUnnoticed

\* The delivery of e to g is held in s, where e was brought up to date.
Held(s, e, g) ==
    /\ e \in Events /\ g \in Gens
    /\ Good(s, handles, leases) /\ Upkept(db, s)
    /\ Unnoticed(db, s) /\ Fresh(s, e) /\ Owing(s.event[e], g)
    /\ s.event[e].recipients[g] = db.event[e].recipients[g]
    /\ s.event[e].recipients[g].until # Out
    /\ InTime(s.event[e], s.now)

\* A delivery that is held once its event is up to date was held before: its
\* lease ends before the deadline, and its subscription is still there.
LEMMA HeldStays ==
    ASSUME EventInv, NEW k \in DOMAIN leases,
           NEW e, NEW g, e = leases[k][1], g = leases[k][2],
           NEW s, s = Normalize(db, {e}), Holds(s, k)
    PROVE  Held(s, e, g)
<1>1. e \in Events /\ g \in Gens
  <2>1. leases[k] \in Events \X Gens
    BY DEF EventInv
  <2> QED BY <2>1
<1> DEFINE r == s.event[e]
           E == {e}
<1>2. /\ r.status = "active" /\ r.recipients[g].status = "pending"
      /\ r.recipients[g].until # Out /\ r.recipients[g].until > s.now
  BY DEF Holds
<1>3. Good(s, handles, leases) /\ Upkept(db, s) /\ Unnoticed(db, s) /\ Fresh(s, e)
  <2>1. E \in SUBSET Events /\ s = Normalize(db, E) /\ e \in E
    BY <1>1
  <2>2. handles \in Seq([name : Names, left : Score]) /\ Good(db, handles, leases)
    BY DEF EventInv
  <2> HIDE DEF E
  <2> QED BY <1>2, <2>1, <2>2, NormalizeKeeps, Zenon
<1>4. s \in Keyspace /\ LeaseOk(s, leases, e, g)
  BY <1>1, <1>3 DEF Good, Sound, LeasesOk
<1>5. /\ r \in Event /\ s.now \in Nat /\ r.recipients[g] \in Recipient /\ r.expiresAt \in Score
  BY <1>1, <1>4, EventType, RecipientType, Zenon DEF Event, Keyspace
<1>6. InTime(r, s.now)
  <2>1. r.expiresAt # Out => r.recipients[g].until <= r.expiresAt
    BY <1>2, <1>4, Zenon DEF LeaseOk
  <2> DEFINE until == r.recipients[g].until
  <2>2. until \in Score /\ until # Out /\ until > s.now
    BY <1>2, <1>5 DEF Recipient
  <2> HIDE DEF until, r
  <2>3. r.expiresAt # Out => until <= r.expiresAt
    BY <2>1 DEF until
  <2> QED BY <1>5, <2>2, <2>3 DEF Score, InTime
<1>7. Turns(db.event[e], r)
  BY <1>1, <1>3, Zenon DEF Upkept, Turned
<1>8. r.recipients[g] = db.event[e].recipients[g]
  BY <1>1, <1>2, <1>7, Zenon DEF Turns, Acquits
<1> QED BY <1>1, <1>2, <1>3, <1>6, <1>8 DEF Owing, Held

\* The delivery of e to g is owed, and there is time for it.
Alive(e, g) ==
    db.event[e].status = "active" /\ InTime(db.event[e], db.now) /\ Registered(db, g)

\* The record of the delivery with token k, and whether its lease runs.
Leaseholder(k) == db.event[leases[k][1]].recipients[leases[k][2]]
RunsOn(k) ==
    LET r == Leaseholder(k)
    IN r.status = "pending" /\ r.token = k /\ r.until # Out /\ r.until > db.now

\* Whoever holds a delivery once its event is up to date held it before.
LEMMA HeldBefore ==
    ASSUME EventInv, NEW k \in DOMAIN leases,
           NEW e, NEW g, e = leases[k][1], g = leases[k][2],
           NEW s, s = Normalize(db, {e}), Holds(s, k)
    PROVE  Alive(e, g) /\ RunsOn(k)
<1>1. Held(s, e, g)
  BY HeldStays
<1>2. /\ s.now = db.now /\ s.subscriptions = db.subscriptions
      /\ Turns(db.event[e], s.event[e])
  BY <1>1, Zenon DEF Held, Upkept, Turned
<1>3. /\ s.event[e].status = "active" /\ InTime(s.event[e], s.now)
      /\ s.event[e].recipients[g] = db.event[e].recipients[g]
  BY <1>1 DEF Held, Owing
<1>4. db.event[e].status = "active" /\ db.event[e].expiresAt = s.event[e].expiresAt
  BY <1>2, <1>3, Zenon DEF Turns
<1>5. Registered(s, g)
  BY DEF Holds
<1>6. Registered(db, g)
  BY <1>2, <1>5 DEF Registered
<1>7. Alive(e, g)
  BY <1>2, <1>3, <1>4, <1>6 DEF Alive, InTime
<1>8. RunsOn(k)
  BY <1>2, <1>3, Zenon DEF Holds, RunsOn, Leaseholder
<1> QED BY <1>7, <1>8

\* An operation on the delivery of e to g spares all others.
Addresses(e, g) ==
    /\ db'.now = db.now /\ db'.subscriptions = db.subscriptions /\ handles' = handles
    /\ emitted' = emitted
    /\ \A f \in Events, h \in Gens :
          f # e \/ h # g => Spared(db.event[f], db'.event[f], h)

\* It leaves the event as it is and the delivery at q.
Assigns(e, g, q) ==
    /\ e \in Events /\ g \in Gens
    /\ Addresses(e, g)
    /\ Owing(db.event[e], g) /\ Owing(db'.event[e], g)
    /\ db'.event[e].expiresAt = db.event[e].expiresAt
    /\ db'.event[e].recipients[g] = q

\* Under a new lease, of t or up to the deadline.
Leases(e, g, token, t) ==
    \E q \in Recipient :
        /\ Assigns(e, g, q) /\ q.token = token /\ q.until \in Nat
        /\ q.until = db.event[e].expiresAt \/ q.until = db.now + t

\* A lease ends when asked, or at the deadline.
LEMMA LeaseUntilFields ==
    ASSUME NEW s \in Keyspace, NEW e \in Events, NEW t \in LeaseTimes,
           InTime(s.event[e], s.now)
    PROVE  /\ LeaseUntil(s, e, t) \in Nat
           /\ LeaseUntil(s, e, t) = s.event[e].expiresAt \/ LeaseUntil(s, e, t) = s.now + t
           /\ s.event[e].expiresAt # Out => LeaseUntil(s, e, t) <= s.event[e].expiresAt
<1>1. t \in Nat /\ s.now \in Nat /\ s.event[e].expiresAt \in Score
  BY PolicyAssumption, EventType DEF Event, Keyspace
<1> QED BY <1>1 DEF LeaseUntil, Score, InTime

\* A delivery may be rewritten once its event is up to date, if the new lease
\* is fenced and a lease that still runs keeps its token or is given up.
LEMMA RewriteKeeps ==
    ASSUME EventInv, UNCHANGED <<handles, emitted>>, leases' \in Seq(Events \X Gens),
           NEW s, NEW e \in Events, NEW g \in Gens, Good(s, handles, leases), Turned(db, s),
           Owing(s.event[e], g),
           NEW q \in Recipient, q.status = "pending", NEW d \in Nat,
           db' = Redelivered(s, e, g, q, d), LeaseOk(db', leases', e, g),
           \A f \in Events, h \in Gens :
               (f # e \/ h # g) /\ LeaseOk(s, leases, f, h) => LeaseOk(s, leases', f, h),
           \/ q.token \in {s.event[e].recipients[g].token, 0}
           \/ db.event[e].recipients[g].until = Out
           \/ db.event[e].recipients[g].until <= db.now,
           Unnoticed(db, s), Fresh(s, e)
    PROVE  EventInv' /\ Undisturbed /\ Unnoticed(db, db') /\ Assigns(e, g, q)
<1>1. s \in Keyspace /\ s.event[e] \in Event /\ d \in Score
  BY EventType DEF Good, Sound, Score
<1>2. /\ db'.event[e] = [s.event[e] EXCEPT !.recipients[g] = q]
      /\ db'.event[e].recipients[g] = q
      /\ \A h \in Gens : h # g => db'.event[e].recipients[h] = s.event[e].recipients[h]
      /\ \A f \in Events : f # e => db'.event[f] = s.event[f]
  <2>1. Rewritten(s, db', e, g, q, d)
    BY <1>1, RedeliveredFields
  <2> QED BY <2>1 DEF Rewritten
<1>3. db'.event[e].status = s.event[e].status
  BY <1>1, <1>2 DEF Event
<1>4. Good(db', handles, leases')
  BY RedeliveredGood
<1>5. \A f \in Events : db'.event[f].status # "absent" => db.event[f].status # "absent"
  <2>1. \A f \in Events : db'.event[f].status = s.event[f].status
    BY <1>2, <1>3, Zenon
  <2> QED BY <1>1, <2>1, TurnedExists
<1>6. \A f \in Events, h \in Gens : s.event[f].recipients[h].status = "pending" =>
          s.event[f].recipients[h].token = db.event[f].recipients[h].token
  BY Zenon DEF Turned, Turns, Acquits
<1>7. Undisturbed
  <2> SUFFICES ASSUME NEW f \in Events, NEW h \in Gens,
                      db.event[f].recipients[h].until # Out,
                      db.event[f].recipients[h].until > db.now,
                      db'.event[f].recipients[h].status = "pending"
               PROVE  db'.event[f].recipients[h].token
                          \in {db.event[f].recipients[h].token, 0}
    BY Zenon DEF Undisturbed
  <2>1. CASE f = e /\ h = g
    <3>1. db.event[e].recipients[g].until \in Score /\ db.now \in Nat
      BY RecipientType, EventType DEF EventInv, Good, Sound, Keyspace, Recipient
    <3>2. q.token \in {s.event[e].recipients[g].token, 0}
      BY <2>1, <3>1 DEF Score
    <3> QED BY <1>2, <1>6, <2>1, <3>2, Zenon DEF Owing
  <2>2. CASE f # e \/ h # g
    <3>1. db'.event[f].recipients[h] = s.event[f].recipients[h]
      BY <1>2, <2>2, Zenon
    <3> QED BY <1>6, <3>1
  <2> QED BY <2>1, <2>2, Zenon
<1>8. Good(db', handles', leases') /\ handles' = handles /\ emitted' = emitted
  BY <1>4
<1>9. Unnoticed(s, db')
  BY <1>1, RewriteUnnoticed
<1>10. Unnoticed(db, db')
  BY <1>9, UnnoticedTransitive
<1>11. db'.event[e].expiresAt = s.event[e].expiresAt
  BY <1>1, <1>2 DEF Event
<1>12. Addresses(e, g)
  <2>1. db'.now = s.now /\ db'.subscriptions = s.subscriptions
    <3>1. Rewritten(s, db', e, g, q, d)
      BY <1>1, RedeliveredFields
    <3> QED BY <3>1 DEF Rewritten
  <2>2. ASSUME NEW f \in Events, NEW h \in Gens, f # e \/ h # g
        PROVE  Spared(db.event[f], db'.event[f], h)
    <3>1. Spared(db.event[f], s.event[f], h)
      BY TurnsSpare DEF Turned
    <3>2. Spared(s.event[f], db'.event[f], h)
      BY <1>2, <1>3, <1>11, <2>2, SparedReflexive, ZenonT(60)
    <3> QED BY <3>1, <3>2, SparedTransitive
  <2> QED BY <1>8, <2>1, <2>2 DEF Addresses, Turned
<1>13. Assigns(e, g, q)
  <2>1. Turns(db.event[e], s.event[e])
    BY DEF Turned
  <2>2. Owing(db.event[e], g) /\ db.event[e].expiresAt = s.event[e].expiresAt
    BY <2>1 DEF Turns, Owing
  <2>3. Owing(db'.event[e], g)
    BY <1>2, <1>3 DEF Owing
  <2> QED BY <1>2, <1>11, <1>12, <2>2, <2>3 DEF Assigns
<1> QED BY <1>5, <1>7, <1>8, <1>10, <1>13 DEF EventInv

\* renew keeps the token, and the index follows the record.
LEMMA RenewGood ==
    ASSUME EventInv, NEW k \in DOMAIN leases, NEW t \in LeaseTimes, Renew(k, t)
    PROVE  /\ EventInv' /\ Undisturbed /\ Unnoticed(db, db')
           /\ Alive(leases[k][1], leases[k][2]) /\ RunsOn(k) /\ leases' = leases
           /\ Leases(leases[k][1], leases[k][2], k, t)
<1> DEFINE e == leases[k][1]
           g == leases[k][2]
           s == Normalize(db, {e})
           until == LeaseUntil(s, e, t)
           q == [s.event[e].recipients[g] EXCEPT !.until = until]
<1>1. /\ Holds(s, k) /\ UNCHANGED <<handles, leases, emitted>>
      /\ db' = [s EXCEPT !.event[e].recipients[g].until = until,
                         !.delivery[g][e] = until]
  BY DEF Renew
<1>2. e = leases[k][1] /\ g = leases[k][2] /\ s = Normalize(db, {e})
  OBVIOUS
<1>3. db' = Redelivered(s, e, g, q, until)
  BY <1>1 DEF Redelivered
<1>4. q = [s.event[e].recipients[g] EXCEPT !.until = until] /\ until = LeaseUntil(s, e, t)
  OBVIOUS
<1> HIDE DEF e, g, s, until, q
<1>5. /\ e \in Events /\ g \in Gens
      /\ Good(s, handles, leases) /\ Upkept(db, s) /\ Unnoticed(db, s) /\ Fresh(s, e)
      /\ Owing(s.event[e], g)
      /\ s.event[e].recipients[g] = db.event[e].recipients[g]
      /\ s.event[e].recipients[g].until # Out
      /\ InTime(s.event[e], s.now)
  <2>1. Held(s, e, g)
    BY <1>1, <1>2, HeldStays
  <2> QED BY <2>1 DEF Held
<1>6. /\ s \in Keyspace /\ LeasesOk(s, leases)
      /\ s.event[e] \in Event /\ s.event[e].recipients[g] \in Recipient
  BY <1>5, EventType, RecipientType DEF Good, Sound
<1>7. until \in Nat /\ (s.event[e].expiresAt # Out => until <= s.event[e].expiresAt)
  BY <1>4, <1>5, <1>6, LeaseUntilFields
<1>8. /\ q \in Recipient /\ q.until = until
      /\ q.status = "pending" /\ q.token = s.event[e].recipients[g].token
  BY <1>4, <1>5, <1>6, <1>7 DEF Recipient, Score, Owing
<1>11. until \in Score
  BY <1>7 DEF Score
<1>9. /\ db' \in Keyspace
      /\ db'.event[e] = [s.event[e] EXCEPT !.recipients[g] = q]
      /\ db'.event[e].recipients[g] = q /\ db'.delivery[g][e] = until
      /\ db'.now = s.now /\ db'.subscriptions = s.subscriptions
      /\ \A f \in Events : f # e => db'.event[f] = s.event[f]
  <2>1. Rewritten(s, db', e, g, q, until)
    BY <1>3, <1>5, <1>6, <1>8, <1>11, RedeliveredFields
  <2> QED BY <2>1 DEF Rewritten
<1>10. db'.event[e].status = s.event[e].status /\ db'.event[e].expiresAt = s.event[e].expiresAt
  BY <1>6, <1>9 DEF Event
<1>12. LeaseOk(db', leases, e, g)
  <2>1. LeaseOk(s, leases, e, g)
    BY <1>5, <1>6 DEF LeasesOk
  <2> QED BY <1>5, <1>7, <1>8, <1>9, <1>10, <2>1 DEF LeaseOk, Owing
<1>13. LeaseOk(db', leases', e, g) /\ leases' = leases
  BY <1>1, <1>12
<1>14. /\ UNCHANGED <<handles, emitted>> /\ leases' \in Seq(Events \X Gens)
       /\ Turned(db, s) /\ q.token \in {s.event[e].recipients[g].token, 0}
  BY <1>1, <1>5, <1>8 DEF EventInv, Upkept
<1>15. EventInv' /\ Undisturbed /\ Unnoticed(db, db') /\ Assigns(e, g, q)
  BY <1>3, <1>5, <1>7, <1>8, <1>13, <1>14, RewriteKeeps, Zenon
<1>16. Alive(e, g) /\ RunsOn(k)
  BY <1>1, <1>2, HeldBefore
<1>17. Leases(e, g, k, t)
  <2>1. q.token = k
    BY <1>1, <1>2, <1>8, Zenon DEF Holds
  <2>2. s.now = db.now /\ db'.event[e].expiresAt = db.event[e].expiresAt
    BY <1>14, <1>15 DEF Turned, Assigns
  <2>3. until = s.event[e].expiresAt \/ until = s.now + t
    BY <1>4, <1>5, <1>6, LeaseUntilFields
  <2> QED BY <1>7, <1>8, <1>10, <1>15, <2>1, <2>2, <2>3 DEF Leases
<1> QED BY <1>2, <1>13, <1>15, <1>16, <1>17

\* release gives the lease up, and the token with it.
LEMMA ReleaseGood ==
    ASSUME EventInv, NEW k \in DOMAIN leases, NEW t \in Delays, Release(k, t)
    PROVE  /\ EventInv' /\ Undisturbed /\ Unnoticed(db, db')
           /\ Alive(leases[k][1], leases[k][2]) /\ RunsOn(k) /\ leases' = leases
           /\ \E q \in Recipient : q.token = 0 /\ Assigns(leases[k][1], leases[k][2], q)
<1> DEFINE e == leases[k][1]
           g == leases[k][2]
           s == Normalize(db, {e})
           d == s.now + t
           q == [s.event[e].recipients[g] EXCEPT !.token = 0, !.until = Out]
<1>1. /\ Holds(s, k) /\ UNCHANGED <<handles, leases, emitted>>
      /\ db' = [s EXCEPT !.event[e].recipients[g].token = 0,
                         !.event[e].recipients[g].until = Out,
                         !.delivery[g][e] = d]
  BY DEF Release
<1>2. e = leases[k][1] /\ g = leases[k][2] /\ s = Normalize(db, {e})
  OBVIOUS
<1>4. q = WithLease(s.event[e].recipients[g], 0, Out) /\ d = s.now + t
  BY DEF WithLease
<1> HIDE DEF e, g, s, d
<1>5. /\ e \in Events /\ g \in Gens
      /\ Good(s, handles, leases) /\ Upkept(db, s) /\ Unnoticed(db, s) /\ Fresh(s, e)
      /\ Owing(s.event[e], g)
  <2>1. Held(s, e, g)
    BY <1>1, <1>2, HeldStays
  <2> QED BY <2>1 DEF Held
<1>6. /\ s \in Keyspace /\ s.now \in Nat /\ t \in Nat
      /\ s.event[e] \in Event /\ s.event[e].recipients[g] \in Recipient
      /\ s.event \in [Events -> Event] /\ s.event[e].recipients \in [Gens -> Recipient]
  BY <1>5, EventType, RecipientType, PolicyAssumption DEF Good, Sound, Keyspace, Event
<1> HIDE DEF q
<1>3. db' = Redelivered(s, e, g, q, d)
  <2>1. db' = Reassigned(s, e, g, 0, Out, d)
    BY <1>1 DEF Reassigned
  <2>2. Reassigned(s, e, g, 0, Out, d) = Redelivered(s, e, g, q, d)
    BY <1>4, <1>5, <1>6, RedeliveredByField
  <2> QED BY <2>1, <2>2
<1>7. d \in Nat /\ d \in Score
  BY <1>4, <1>6 DEF Score
<1>8. q \in Recipient /\ q.until = Out /\ q.status = "pending" /\ q.token = 0
  <2>1. 0 \in 0..MaxLeases /\ Out \in Score
    BY BoundsAssumption DEF Score
  <2>2. s.event[e].recipients[g].status = "pending"
    BY <1>5 DEF Owing
  <2> QED BY <1>4, <1>6, <2>1, <2>2, Zenon DEF Recipient, WithLease
<1>9. db'.event[e].recipients[g] = q
  <2>1. Rewritten(s, db', e, g, q, d)
    BY <1>3, <1>5, <1>6, <1>7, <1>8, RedeliveredFields
  <2> QED BY <2>1 DEF Rewritten
<1>10. LeaseOk(db', leases', e, g)
  BY <1>8, <1>9 DEF LeaseOk
<1>11. /\ UNCHANGED <<handles, emitted>> /\ leases' \in Seq(Events \X Gens) /\ leases' = leases
       /\ Turned(db, s) /\ q.token \in {s.event[e].recipients[g].token, 0}
  BY <1>1, <1>5, <1>8 DEF EventInv, Upkept
<1>12. EventInv' /\ Undisturbed /\ Unnoticed(db, db') /\ Assigns(e, g, q)
  BY <1>3, <1>5, <1>7, <1>8, <1>10, <1>11, RewriteKeeps
<1>13. Alive(e, g) /\ RunsOn(k)
  BY <1>1, <1>2, HeldBefore
<1> QED BY <1>2, <1>8, <1>11, <1>12, <1>13

\* What acknowledge writes before it brings the event up to date again.
Acked(s, e, g) ==
    [s EXCEPT !.event[e].recipients[g].status = "acknowledged",
              !.event[e].recipients[g].until = Out,
              !.event[e].resolvedAt = s.now,
              !.delivery[g][e] = Out]

AckedRecord(s, u, e, g) ==
    /\ u \in Keyspace
    /\ u.now = s.now /\ u.subscriptions = s.subscriptions
    /\ u.removed = s.removed /\ u.retired = s.retired /\ u.deadlines = s.deadlines
    /\ u.archives = s.archives /\ u.archiveDeadlines = s.archiveDeadlines
    /\ u.event[e].status = s.event[e].status /\ u.event[e].expiresAt = s.event[e].expiresAt
    /\ u.event[e].settledAt = s.event[e].settledAt
    /\ u.event[e].archiveUntil = s.event[e].archiveUntil
    /\ u.event[e].resolvedAt = s.now
    /\ u.event[e].recipients[g].status = "acknowledged"
    /\ u.event[e].recipients[g].until = Out
    /\ u.event[e].recipients[g].token = s.event[e].recipients[g].token
    /\ \A h \in Gens : h # g => u.event[e].recipients[h] = s.event[e].recipients[h]
    /\ \A f \in Events : f # e => u.event[f] = s.event[f]
    /\ u.delivery[g][e] = Out
    /\ \A f \in Events, h \in Gens :
          f # e \/ h # g => u.delivery[h][f] = s.delivery[h][f]

\* What acknowledge writes before it brings the event up to date.
LEMMA AckedFields ==
    ASSUME NEW s \in Keyspace, NEW e \in Events, NEW g \in Gens,
           NEW u, u = Acked(s, e, g)
    PROVE  AckedRecord(s, u, e, g)
<1> DEFINE r == s.event[e]
           x == [r.recipients[g] EXCEPT !.status = "acknowledged"]
           y == [x EXCEPT !.until = Out]
           r1 == [r EXCEPT !.recipients = [r.recipients EXCEPT ![g] = x]]
           r2 == [r1 EXCEPT !.recipients = [r1.recipients EXCEPT ![g] = y]]
           r3 == [r2 EXCEPT !.resolvedAt = s.now]
           s1 == [s EXCEPT !.event[e].recipients[g].status = "acknowledged"]
           s2 == [s1 EXCEPT !.event[e].recipients[g].until = Out]
           s3 == [s2 EXCEPT !.event[e].resolvedAt = s.now]
           e1 == [s.event EXCEPT ![e] = r1]
           e2 == [e1 EXCEPT ![e] = r2]
           e3 == [e2 EXCEPT ![e] = r3]
           row == [s.delivery[g] EXCEPT ![e] = Out]
           delivery == [s.delivery EXCEPT ![g] = row]
<1>1. /\ r \in Event /\ r.recipients \in [Gens -> Recipient] /\ r.recipients[g] \in Recipient
      /\ s.event \in [Events -> Event] /\ s.now \in Nat
      /\ s.delivery \in [Gens -> [Events -> Score]] /\ s.delivery[g] \in [Events -> Score]
  BY EventType DEF Keyspace, Event
<1>2. u = [s3 EXCEPT !.delivery[g][e] = Out]
  BY DEF Acked
<1>3. /\ x \in Recipient /\ x.status = "acknowledged"
      /\ y \in Recipient /\ y.status = "acknowledged" /\ y.until = Out
      /\ y.token = r.recipients[g].token
  BY <1>1, Zenon DEF Recipient, Score
<1>4. s1 = [s EXCEPT !.event = e1]
  OBVIOUS
<1>5. x = [r.recipients[g] EXCEPT !.status = "acknowledged"] /\ y = [x EXCEPT !.until = Out]
  OBVIOUS
<1> HIDE DEF x, y
<1>6. /\ r1 \in Event /\ r1.recipients = [r.recipients EXCEPT ![g] = x]
      /\ r1.recipients \in [Gens -> Recipient] /\ r1.recipients[g] = x
      /\ \A h \in Gens : h # g => r1.recipients[h] = r.recipients[h]
      /\ r1.status = r.status /\ r1.expiresAt = r.expiresAt /\ r1.settledAt = r.settledAt
      /\ r1.archiveUntil = r.archiveUntil
  BY <1>1, <1>3, Zenon DEF Event
<1>7. r2 = [r1 EXCEPT !.recipients = [r1.recipients EXCEPT ![g] = y]]
  OBVIOUS
<1> HIDE DEF r1, s1, r
<1>8. /\ r2 \in Event
      /\ r2.recipients \in [Gens -> Recipient] /\ r2.recipients[g] = y
      /\ \A h \in Gens : h # g => r2.recipients[h] = r1.recipients[h]
      /\ r2.status = r1.status /\ r2.expiresAt = r1.expiresAt /\ r2.settledAt = r1.settledAt
      /\ r2.archiveUntil = r1.archiveUntil
  BY <1>3, <1>6, <1>7 DEF Event
<1>9. /\ e1 \in [Events -> Event] /\ e1[e] = r1
      /\ \A f \in Events : f # e => e1[f] = s.event[f]
  BY <1>1, <1>6
<1>10. e1 = [s.event EXCEPT ![e] = r1] /\ e2 = [e1 EXCEPT ![e] = r2]
  OBVIOUS
<1> HIDE DEF e1, r2
<1>11. /\ s1 \in Keyspace /\ s1.event = e1 /\ s1.now = s.now
       /\ s1.subscriptions = s.subscriptions /\ s1.delivery = s.delivery
       /\ s1.removed = s.removed /\ s1.retired = s.retired /\ s1.deadlines = s.deadlines
       /\ s1.archives = s.archives /\ s1.archiveDeadlines = s.archiveDeadlines
  BY <1>4, <1>9, Zenon DEF Keyspace
<1>12. /\ e2 \in [Events -> Event] /\ e2[e] = r2
       /\ \A f \in Events : f # e => e2[f] = s.event[f]
  BY <1>8, <1>9, <1>10
<1>13. s2 = [s1 EXCEPT !.event = e2]
  <2>1. s2 = [s1 EXCEPT !.event = [s1.event EXCEPT ![e].recipients[g].until = Out]]
    OBVIOUS
  <2>2. [e1 EXCEPT ![e].recipients[g].until = Out] = [e1 EXCEPT ![e] = r2]
    BY <1>5, <1>6, <1>7, <1>9, Zenon
  <2> QED BY <1>10, <1>11, <2>1, <2>2
<1> HIDE DEF e2, s2
<1>14. /\ s2 \in Keyspace /\ s2.event = e2 /\ s2.now = s.now
       /\ s2.subscriptions = s.subscriptions /\ s2.delivery = s.delivery
       /\ s2.removed = s.removed /\ s2.retired = s.retired /\ s2.deadlines = s.deadlines
       /\ s2.archives = s.archives /\ s2.archiveDeadlines = s.archiveDeadlines
  BY <1>11, <1>12, <1>13, Zenon DEF Keyspace
<1>15. /\ r3 \in Event /\ r3.recipients = r2.recipients /\ r3.resolvedAt = s.now
       /\ r3.status = r2.status /\ r3.expiresAt = r2.expiresAt /\ r3.settledAt = r2.settledAt
       /\ r3.archiveUntil = r2.archiveUntil
  BY <1>1, <1>8, Zenon DEF Event
<1>16. s3 = [s2 EXCEPT !.event = e3]
  <2>1. s3 = [s2 EXCEPT !.event = [s2.event EXCEPT ![e].resolvedAt = s.now]]
    OBVIOUS
  <2>2. [e2 EXCEPT ![e].resolvedAt = s.now] = [e2 EXCEPT ![e] = r3]
    BY <1>12
  <2> QED BY <1>14, <2>1, <2>2
<1> HIDE DEF r3
<1>17. /\ e3 \in [Events -> Event] /\ e3[e] = r3
       /\ \A f \in Events : f # e => e3[f] = s.event[f]
  BY <1>12, <1>15
<1> HIDE DEF e3, s3
<1>18. /\ s3 \in Keyspace /\ s3.event = e3 /\ s3.now = s.now
       /\ s3.subscriptions = s.subscriptions /\ s3.delivery = s.delivery
       /\ s3.removed = s.removed /\ s3.retired = s.retired /\ s3.deadlines = s.deadlines
       /\ s3.archives = s.archives /\ s3.archiveDeadlines = s.archiveDeadlines
  BY <1>14, <1>16, <1>17, Zenon DEF Keyspace
<1>19. row \in [Events -> Score] /\ row[e] = Out
       /\ \A f \in Events : f # e => row[f] = s.delivery[g][f]
  BY <1>1 DEF Score
<1>20. u = [s3 EXCEPT !.delivery = delivery]
  BY <1>2, <1>18
<1> HIDE DEF row
<1>21. /\ delivery \in [Gens -> [Events -> Score]] /\ delivery[g] = row
       /\ \A h \in Gens : h # g => delivery[h] = s.delivery[h]
  BY <1>1, <1>19
<1> HIDE DEF delivery
<1>22. /\ u \in Keyspace /\ u.event = e3 /\ u.delivery = delivery
       /\ u.now = s.now /\ u.subscriptions = s.subscriptions
       /\ u.removed = s.removed /\ u.retired = s.retired /\ u.deadlines = s.deadlines
       /\ u.archives = s.archives /\ u.archiveDeadlines = s.archiveDeadlines
  BY <1>18, <1>20, <1>21, Zenon DEF Keyspace
<1>23. /\ u.event[e].status = s.event[e].status /\ u.event[e].expiresAt = s.event[e].expiresAt
       /\ u.event[e].settledAt = s.event[e].settledAt
       /\ u.event[e].archiveUntil = s.event[e].archiveUntil
       /\ u.event[e].resolvedAt = s.now
       /\ u.event[e].recipients[g] = y
       /\ \A h \in Gens : h # g => u.event[e].recipients[h] = s.event[e].recipients[h]
  BY <1>6, <1>8, <1>15, <1>17, <1>22 DEF r
<1>24. ASSUME NEW f \in Events, NEW h \in Gens, f # e \/ h # g
       PROVE  u.delivery[h][f] = s.delivery[h][f]
  <2>1. CASE h = g
    BY <1>19, <1>21, <1>22, <1>24, <2>1
  <2>2. CASE h # g
    BY <1>21, <1>22, <2>2
  <2> QED BY <2>1, <2>2
<1>25. u.event[e].recipients[g].token = s.event[e].recipients[g].token
  BY <1>3, <1>23 DEF r
<1> QED BY <1>3, <1>17, <1>19, <1>21, <1>22, <1>23, <1>24, <1>25 DEF AckedRecord

\* An acknowledgement resolves one obligation in time, and takes it off the index.
LEMMA AckedSound ==
    ASSUME NEW s, NEW H, NEW L, Good(s, H, L), NEW e \in Events, NEW g \in Gens,
           Owing(s.event[e], g), InTime(s.event[e], s.now),
           NEW u, AckedRecord(s, u, e, g)
    PROVE  Sound(u, H, L) /\ \A f \in Events : Judged(u, H, u.event[f])
<1> DEFINE r == s.event[e]
           v == u.event[e]
<1>1. /\ s \in Keyspace /\ Indexed(s) /\ Enrolled(s, H) /\ Remembered(s, H)
      /\ LeasesOk(s, L) /\ \A f \in Events : Judged(s, H, s.event[f])
  BY DEF Good, Sound
<1>2. /\ u \in Keyspace
      /\ u.now = s.now /\ u.subscriptions = s.subscriptions
      /\ u.removed = s.removed /\ u.retired = s.retired /\ u.deadlines = s.deadlines
      /\ u.archives = s.archives /\ u.archiveDeadlines = s.archiveDeadlines
      /\ v.status = r.status /\ v.expiresAt = r.expiresAt /\ v.settledAt = r.settledAt
      /\ v.archiveUntil = r.archiveUntil /\ v.resolvedAt = s.now
      /\ v.recipients[g].status = "acknowledged" /\ v.recipients[g].until = Out
      /\ \A h \in Gens : h # g => v.recipients[h] = r.recipients[h]
      /\ \A f \in Events : f # e => u.event[f] = s.event[f]
      /\ u.delivery[g][e] = Out
      /\ \A f \in Events, h \in Gens :
            f # e \/ h # g => u.delivery[h][f] = s.delivery[h][f]
  BY DEF AckedRecord
<1>3. r.status = "active" /\ s.now \in Nat
  BY <1>1 DEF Owing, Keyspace
<1>4. \A f \in Events, h \in Gens :
         Owing(u.event[f], h) <=> Owing(s.event[f], h) /\ (f # e \/ h # g)
  <2> SUFFICES ASSUME NEW f \in Events, NEW h \in Gens
               PROVE  Owing(u.event[f], h) <=> Owing(s.event[f], h) /\ (f # e \/ h # g)
    OBVIOUS
  <2>1. CASE f # e
    <3>1. u.event[f] = s.event[f]
      BY <1>2, <2>1
    <3> QED BY <2>1, <3>1
  <2>2. CASE f = e
    <3>1. Owing(v, h) <=> Owing(r, h) /\ h # g
      BY <1>2 DEF Owing
    <3> QED BY <2>2, <3>1
  <2> QED BY <2>1, <2>2
<1>5. ASSUME NEW f \in Events
      PROVE  /\ \A h \in Gens : u.delivery[h][f] # Out <=> Owing(u.event[f], h)
             /\ u.event[f].status = s.event[f].status
             /\ u.event[f].expiresAt = s.event[f].expiresAt
             /\ u.event[f].settledAt = s.event[f].settledAt
             /\ u.event[f].archiveUntil = s.event[f].archiveUntil
  <2>1. \A h \in Gens : s.delivery[h][f] # Out <=> Owing(s.event[f], h)
    BY <1>1 DEF Indexed
  <2>2. \A h \in Gens : u.delivery[h][f] # Out <=> Owing(u.event[f], h)
    <3> SUFFICES ASSUME NEW h \in Gens
                 PROVE  u.delivery[h][f] # Out <=> Owing(u.event[f], h)
      OBVIOUS
    <3>1. CASE f = e /\ h = g
      BY <1>2, <1>4, <3>1
    <3>2. CASE f # e \/ h # g
      BY <1>2, <1>4, <2>1, <3>2
    <3> QED BY <3>1, <3>2
  <2>3. CASE f = e
    BY <1>2, <2>2, <2>3
  <2>4. CASE f # e
    <3>1. u.event[f] = s.event[f]
      BY <1>2, <2>4
    <3> QED BY <2>2, <3>1
  <2> QED BY <2>3, <2>4
<1> HIDE DEF r, v
<1>6. Indexed(u)
  BY <1>1, <1>2, <1>5 DEF Indexed, Settled
<1>7. \A h : Joined(u, H, h) <=> Joined(s, H, h)
  BY <1>2 DEF Joined
<1>8. Enrolled(u, H)
  BY <1>1, <1>2, <1>7 DEF Enrolled
<1>9. Remembered(u, H)
  BY <1>1, <1>2, <1>4, <1>7 DEF Remembered
<1>10. ASSUME NEW f \in Events, NEW h \in Gens PROVE LeaseOk(u, L, f, h)
  <2>1. CASE f = e /\ h = g
    <3>1. u.event[f].recipients[h].until = Out
      BY <1>2, <2>1 DEF v
    <3> QED BY <3>1 DEF LeaseOk
  <2>2. CASE f # e \/ h # g
    <3>1. LeaseOk(s, L, f, h)
      BY <1>1 DEF LeasesOk
    <3>2. u.event[f].recipients[h] = s.event[f].recipients[h]
      BY <1>2, <2>2 DEF v, r
    <3>3. u.delivery[h][f] = s.delivery[h][f] /\ u.event[f].expiresAt = s.event[f].expiresAt
      BY <1>2, <1>5, <2>2
    <3>4. Owing(u.event[f], h) <=> Owing(s.event[f], h)
      BY <1>4, <2>2
    <3> QED BY <3>1, <3>2, <3>3, <3>4 DEF LeaseOk
  <2> QED BY <2>1, <2>2
<1>11. ASSUME NEW f \in Events PROVE Judged(u, H, u.event[f])
  <2>1. CASE f # e
    BY <1>1, <1>2, <2>1, SameTimeJudged
  <2>2. CASE f = e
    <3>1. Judged(s, H, r)
      BY <1>1 DEF r
    <3>2. Addressed(v) = Addressed(r)
      BY <1>2 DEF Addressed, Owing, r
    <3>3. \A h : Excused(H, r, h) => Excused(H, v, h)
      BY <1>2 DEF Excused, InTime
    <3>4. Told(H, v)
      BY <1>2, <3>1, <3>2, <3>3 DEF Judged, Told, Addressed
    <3>5. Judged(u, H, v)
      BY <1>2, <1>3, <3>4 DEF Judged, InTime, r, Filed, Settled
    <3> QED BY <2>2, <3>5 DEF v
  <2> QED BY <2>1, <2>2
<1> QED BY <1>2, <1>6, <1>8, <1>9, <1>10, <1>11 DEF Sound, LeasesOk

\* x is what the obligations of e were changed to, and e was judged at once.
Seen(s, u, e, x) ==
    /\ u.now = s.now /\ u.subscriptions = s.subscriptions
    /\ Sight(Current(u, e)) = Promise!Judge(x, s.now)
    /\ \A f \in Events : f # e => Sight(Current(u, f)) = Sight(Current(s, f))

\* An acknowledgement is seen at once.
LEMMA AckedSeen ==
    ASSUME NEW s \in Keyspace, NEW e \in Events, NEW g \in Gens, Fresh(s, e),
           Owing(s.event[e], g), NEW u, AckedRecord(s, u, e, g)
    PROVE  Seen(s, u, e, Promise!Acknowledged(Sight(s.event[e]), g))
<1> DEFINE r == s.event[e]
           v == u.event[e]
           x == Sight(r)
           y == Promise!Acknowledged(x, g)
<1>1. /\ u \in Keyspace
      /\ u.now = s.now /\ u.subscriptions = s.subscriptions /\ u.removed = s.removed
      /\ v.status = r.status /\ v.expiresAt = r.expiresAt /\ v.settledAt = r.settledAt
      /\ v.resolvedAt = s.now /\ v.recipients[g].status = "acknowledged"
      /\ \A h \in Gens : h # g => v.recipients[h] = r.recipients[h]
      /\ \A f \in Events : f # e => u.event[f] = s.event[f]
  BY DEF AckedRecord
<1>2. /\ r \in Event /\ v \in Event /\ r.status = "active"
      /\ \A h \in Pending(r) : s.removed[h] = Out
  BY <1>1, EventType DEF Fresh
<1>3. r.recipients[g].status = "pending"
  BY DEF Owing
<1>4. /\ Having(v, "pending") = Having(r, "pending") \ {g}
      /\ Having(v, "acknowledged") = Having(r, "acknowledged") \cup {g}
      /\ Having(v, "waived") = Having(r, "waived")
  BY <1>1, <1>3 DEF Having
<1>5. x \in Sights /\ Sight(v) \in Sights
  BY <1>2, SightType
<1>6. /\ y \in Sights /\ y.pending = x.pending \ {g} /\ y.acknowledged = x.acknowledged \cup {g}
      /\ y.status = x.status /\ y.waived = x.waived /\ y.expiresAt = x.expiresAt
      /\ y.settledAt = x.settledAt
  BY <1>5, Zenon DEF Promise!Acknowledged, Sights
<1>7. Sight(v) = y
  <2> HIDE DEF y, r, v
  <2>1. /\ Sight(v).status = y.status /\ Sight(v).settledAt = y.settledAt
        /\ Sight(v).expiresAt = y.expiresAt /\ Sight(v).pending = y.pending
        /\ Sight(v).acknowledged = y.acknowledged /\ Sight(v).waived = y.waived
    BY <1>1, <1>4, <1>6 DEF Sight
  <2> QED BY <1>5, <1>6, <2>1 DEF Sights
<1>8. Waive(u, e) = v
  <2>1. Pending(v) \subseteq Pending(r)
    BY <1>4 DEF Pending, Having
  <2>2. \A h \in Pending(v) : u.removed[h] = Out
    BY <1>1, <1>2, <2>1
  <2> QED BY <1>2, <2>2, NothingToWaive
<1>9. Sight(Current(u, e)) = Promise!Judge(y, s.now)
  <2>1. Sight(Current(u, e)) = Promise!Judge(Sight(v), u.now)
    BY <1>1, <1>2, <1>8, JudgeSight
  <2> QED BY <1>1, <1>7, <2>1
<1>10. ASSUME NEW f \in Events, f # e PROVE Current(u, f) = Current(s, f)
  <2>1. u.event[f] = s.event[f]
    BY <1>1, <1>10
  <2>2. Normal(u, f) = Normal(s, f)
    BY <1>1, <2>1, NormalDepends
  <2> QED BY <2>1, <2>2 DEF Current
<1> QED BY <1>1, <1>9, <1>10 DEF Seen

\* acknowledge: the obligation is open, as anybody can see, and is resolved.
Answered(e, g) ==
    /\ e \in Events /\ g \in Gens
    /\ Sight(Current(db, e)).status = "active" /\ g \in Sight(Current(db, e)).pending
    /\ Registered(db, g)
    /\ Seen(db, db', e, Promise!Acknowledged(Sight(Current(db, e)), g))

\* acknowledge resolves an obligation that is still open, under a lease that still runs.
LEMMA AcknowledgeGood ==
    ASSUME EventInv, NEW k \in DOMAIN leases, Acknowledge(k)
    PROVE  /\ EventInv' /\ Undisturbed /\ Answered(leases[k][1], leases[k][2])
           /\ Alive(leases[k][1], leases[k][2]) /\ RunsOn(k) /\ leases' = leases
           /\ Addresses(leases[k][1], leases[k][2])
           /\ \/ db'.event[leases[k][1]].status = "absent"
              \/ Leaseholder(k)'.status = "acknowledged" /\ Leaseholder(k)'.token = k
           /\ Leaseholder(k)'.token \in {k, 0}
<1> DEFINE e == leases[k][1]
           g == leases[k][2]
           s == Normalize(db, {e})
           u == Acked(s, e, g)
           E == {e}
<1>1. Holds(s, k) /\ UNCHANGED <<handles, leases, emitted>> /\ db' = Normalize(u, E)
  BY DEF Acknowledge, Acked
<1>2. /\ e = leases[k][1] /\ g = leases[k][2] /\ s = Normalize(db, {e})
      /\ u = Acked(s, e, g) /\ E = {e}
  OBVIOUS
<1> HIDE DEF e, g, s, u, E
<1>3. /\ e \in Events /\ g \in Gens
      /\ Good(s, handles, leases) /\ Upkept(db, s) /\ Unnoticed(db, s) /\ Fresh(s, e)
      /\ Owing(s.event[e], g)
      /\ InTime(s.event[e], s.now)
  <2>1. Held(s, e, g)
    BY <1>1, <1>2, HeldStays
  <2> QED BY <2>1 DEF Held
<1>4. AckedRecord(s, u, e, g)
  BY <1>2, <1>3, AckedFields DEF Good, Sound
<1>5. Sound(u, handles, leases) /\ Normalizable(u, handles, E) /\ E \in SUBSET Events
  <2>1. Sound(u, handles, leases) /\ \A f \in Events : Judged(u, handles, u.event[f])
    BY <1>3, <1>4, AckedSound
  <2>2. E \in SUBSET Events
    BY <1>2, <1>3
  <2> QED BY <2>1, <2>2 DEF Normalizable, Judgeable
<1>6. handles \in Seq([name : Names, left : Score])
  BY DEF EventInv
<1>7. Good(db', handles, leases) /\ Upkept(u, db') /\ Unnoticed(u, db')
  <2>1. Good(db', handles, leases) /\ Upkept(u, db') /\ Updated(u, E, db')
    BY <1>1, <1>5, <1>6, NormalizeGood, Zenon
  <2> QED BY <1>5, <2>1, NormalizeUnnoticed
<1>8. Undisturbed
  <2> SUFFICES ASSUME NEW f \in Events, NEW h \in Gens,
                      db'.event[f].recipients[h].status = "pending"
               PROVE  db'.event[f].recipients[h].token = db.event[f].recipients[h].token
    BY DEF Undisturbed
  <2>1. Turns(u.event[f], db'.event[f]) /\ Turns(db.event[f], s.event[f])
    BY <1>3, <1>7 DEF Upkept, Turned
  <2>2. /\ u.event[f].recipients[h].status = "pending"
        /\ db'.event[f].recipients[h].token = u.event[f].recipients[h].token
    BY <2>1 DEF Turns
  <2>3. u.event[f].recipients[h] = s.event[f].recipients[h]
    BY <1>4, <2>2 DEF AckedRecord
  <2>4. s.event[f].recipients[h].token = db.event[f].recipients[h].token
    BY <2>1, <2>2, <2>3 DEF Turns
  <2> QED BY <2>2, <2>3, <2>4
<1>9. \A f \in Events : db'.event[f].status # "absent" => db.event[f].status # "absent"
  <2>1. \A f \in Events : u.event[f].status = s.event[f].status
    BY <1>4 DEF AckedRecord
  <2>2. Turned(db, s) /\ Turned(u, db') /\ s \in Keyspace /\ db' \in Keyspace
    BY <1>3, <1>7 DEF Upkept
  <2> QED BY <2>1, <2>2, TurnedExists
<1>10. Good(db', handles', leases')
  BY <1>1, <1>7
<1>11. Answered(e, g)
  <2>1. s \in Keyspace
    BY <1>3 DEF Good, Sound
  <2>2. Seen(s, u, e, Promise!Acknowledged(Sight(s.event[e]), g))
    BY <1>3, <1>4, <2>1, AckedSeen
  <2>3. Sight(Current(db, e)) = Sight(s.event[e])
    BY <1>3, FreshStays DEF Unnoticed
  <2>4. Seen(db, db', e, Promise!Acknowledged(Sight(Current(db, e)), g))
    <3> DEFINE x == Promise!Acknowledged(Sight(s.event[e]), g)
    <3>1. Seen(s, u, e, x) /\ x = Promise!Acknowledged(Sight(Current(db, e)), g)
      BY <2>2, <2>3
    <3> HIDE DEF x
    <3>2. Seen(db, db', e, x)
      BY <1>3, <1>7, <3>1 DEF Seen, Unnoticed
    <3> QED BY <3>1, <3>2
  <2>5. /\ Sight(s.event[e]).status = "active" /\ g \in Sight(s.event[e]).pending
    BY <1>3 DEF Owing, Sight, Having
  <2>6. Registered(db, g)
    <3>1. Registered(s, g) /\ s.subscriptions = db.subscriptions
      BY <1>1, <1>2, <1>3 DEF Holds, Unnoticed
    <3> QED BY <3>1 DEF Registered
  <2> QED BY <1>3, <2>3, <2>4, <2>5, <2>6 DEF Answered
<1>12. Alive(e, g) /\ RunsOn(k)
  BY <1>1, <1>2, HeldBefore
<1>13. Addresses(e, g)
  <2>1. db'.now = db.now /\ db'.subscriptions = db.subscriptions
    BY <1>3, <1>4, <1>7 DEF Unnoticed, AckedRecord
  <2>2. ASSUME NEW f \in Events, NEW h \in Gens, f # e \/ h # g
        PROVE  Spared(db.event[f], db'.event[f], h)
    <3>1. Turns(u.event[f], db'.event[f]) /\ Turns(db.event[f], s.event[f])
      BY <1>3, <1>7 DEF Upkept, Turned
    <3>2. Spared(db.event[f], s.event[f], h) /\ Spared(u.event[f], db'.event[f], h)
      BY <3>1, TurnsSpare
    <3>3. /\ u.event[f].recipients[h] = s.event[f].recipients[h]
          /\ u.event[f].status = s.event[f].status
          /\ u.event[f].expiresAt = s.event[f].expiresAt
      BY <1>4, <2>2 DEF AckedRecord
    <3>4. Spared(s.event[f], u.event[f], h)
      BY <3>3, SparedReflexive
    <3> QED BY <3>2, <3>4, SparedTransitive
  <2> QED BY <1>1, <2>1, <2>2 DEF Addresses
<1>14. /\ \/ db'.event[e].status = "absent"
          \/ Leaseholder(k)'.status = "acknowledged" /\ Leaseholder(k)'.token = k
       /\ Leaseholder(k)'.token \in {k, 0}
  <2>1. Leaseholder(k)' = db'.event[e].recipients[g]
    BY <1>1, <1>2 DEF Leaseholder
  <2>2. u.event[e].recipients[g].status = "acknowledged" /\ u.event[e].recipients[g].token = k
    BY <1>1, <1>2, <1>4, Zenon DEF AckedRecord, Holds
  <2>3. Turns(u.event[e], db'.event[e])
    BY <1>3, <1>7 DEF Upkept, Turned
  <2>4. Acquits(u.event[e], db'.event[e])
    BY <2>3 DEF Turns
  <2> QED BY <1>3, <2>1, <2>2, <2>4 DEF Acquits
<1> QED BY <1>1, <1>2, <1>8, <1>9, <1>10, <1>11, <1>12, <1>13, <1>14, Zenon DEF EventInv

\* Whoever may take is a generation of the engine.
LEMMA RegisteredGen ==
    ASSUME EventInv, NEW g, Registered(db, g)
    PROVE  g \in Gens /\ g \in DOMAIN handles /\ handles[g].left = Out
<1>1. /\ handles \in Seq([name : Names, left : Score]) /\ g \in DOMAIN handles
      /\ db.subscriptions \in [Names -> 0..MaxGen] /\ db.subscriptions[handles[g].name] = g
      /\ Enrolled(db, handles)
  BY DEF EventInv, Good, Sound, Keyspace, Registered
<1>2. handles[g].name \in Names
  <2> DEFINE S == [name : Names, left : Score]
  <2>1. handles \in Seq(S) /\ g \in DOMAIN handles
    BY <1>1
  <2> HIDE DEF S
  <2>2. handles[g] \in S
    BY <2>1
  <2> QED BY <2>2 DEF S
<1>3. g \in 0..MaxGen /\ g \in 1..Len(handles)
  BY <1>1, <1>2
<1>4. handles[g].left = Out
  BY <1>1 DEF Enrolled, Joined
<1> QED BY <1>1, <1>3, <1>4, BoundsAssumption DEF Gens

\* What a take drops from its index.
Dropped(n, g, W) ==
    [n EXCEPT !.delivery[g] = [e \in Events |-> IF e \in W THEN Out ELSE @[e]]]

\* g waits for none of W in s.
Done(s, g, W) == \A e \in W : ~Owing(s.event[e], g)

\* What a take walks past is no longer waiting for anybody: there is nothing
\* left to drop from the index.
LEMMA WalkedPast ==
    ASSUME NEW s, NEW g \in Gens, NEW B \in SUBSET Events, NEW W \in SUBSET Events, W \subseteq B,
           NEW all, Updated(s, B, all), Done(all, g, W),
           NEW n, n \in Keyspace, Indexed(n), Updated(s, W, n)
    PROVE  Dropped(n, g, W) = n
<1>4. ASSUME NEW e \in W PROVE n.delivery[g][e] = Out
  <2>1. n.event[e] = all.event[e]
    BY DEF Updated
  <2>2. ~Owing(n.event[e], g)
    BY <2>1 DEF Done
  <2> QED BY <2>2 DEF Indexed
<1>5. n.delivery \in [Gens -> [Events -> Score]] /\ n \in Keyspace
  BY DEF Keyspace
<1>6. [e \in Events |-> IF e \in W THEN Out ELSE n.delivery[g][e]] = n.delivery[g]
  BY <1>4, <1>5
<1>7. [n EXCEPT !.delivery[g] = [e \in Events |-> IF e \in W THEN Out ELSE @[e]]]
        = [n EXCEPT !.delivery = [n.delivery EXCEPT ![g] = n.delivery[g]]]
  BY <1>6
<1>8. [n.delivery EXCEPT ![g] = n.delivery[g]] = n.delivery
  BY <1>5
<1>9. [n EXCEPT !.delivery = n.delivery] = n
  BY <1>5 DEF Keyspace
<1> QED BY <1>7, <1>8, <1>9 DEF Dropped

\* The next token is the newest.
LEMMA NewestLease ==
    ASSUME NEW L \in Seq(Events \X Gens), NEW e \in Events, NEW g \in Gens,
           NEW M, M = Append(L, <<e, g>>)
    PROVE  /\ M \in Seq(Events \X Gens) /\ Len(L) \in Nat
           /\ DOMAIN L = 1..Len(L) /\ DOMAIN M = 1..(Len(L) + 1)
           /\ M[Len(L) + 1] = <<e, g>> /\ \A n \in DOMAIN L : M[n] = L[n]
<1>1. <<e, g>> \in Events \X Gens
  OBVIOUS
<1> QED BY <1>1

\* It fences nobody off but the holders of the same delivery.
LEMMA NewestKeeps ==
    ASSUME NEW L \in Seq(Events \X Gens), NEW e \in Events, NEW g \in Gens,
           NEW M, M = Append(L, <<e, g>>),
           NEW s, NEW f \in Events, NEW h \in Gens, f # e \/ h # g, LeaseOk(s, L, f, h)
    PROVE  LeaseOk(s, M, f, h)
<1>1. /\ Len(L) \in Nat /\ DOMAIN L = 1..Len(L) /\ DOMAIN M = 1..(Len(L) + 1)
      /\ M[Len(L) + 1] = <<e, g>> /\ \A n \in DOMAIN L : M[n] = L[n]
  BY NewestLease
<1> DEFINE q == s.event[f].recipients[h]
<1> SUFFICES ASSUME s.event[f].recipients[h].until # Out
             PROVE  /\ q.token \in DOMAIN M /\ M[q.token] = <<f, h>>
                    /\ \A n \in DOMAIN M : n > q.token => M[n] # <<f, h>>
  BY Zenon DEF LeaseOk
<1>2. /\ q.token \in DOMAIN L /\ L[q.token] = <<f, h>>
      /\ \A n \in DOMAIN L : n > q.token => L[n] # <<f, h>>
  BY DEF LeaseOk
<1> HIDE DEF q
<1>3. q.token \in DOMAIN M /\ M[q.token] = <<f, h>>
  BY <1>1, <1>2
<1>4. ASSUME NEW n \in DOMAIN M, n > q.token PROVE M[n] # <<f, h>>
  <2>1. CASE n \in DOMAIN L
    BY <1>1, <1>2, <1>4, <2>1
  <2>2. CASE n = Len(L) + 1
    BY <1>1, <2>2
  <2> QED BY <1>1, <2>1, <2>2
<1> QED BY <1>3, <1>4, Zenon DEF q

\* What a take leaves open is still waiting when its event is brought up to date
\* after those before it, and its deadline is ahead.
LEMMA OpenStays ==
    ASSUME NEW s, NEW H \in Seq([name : Names, left : Score]), NEW L, Good(s, H, L),
           NEW g \in Gens, NEW B \in SUBSET Events, NEW e \in B,
           NEW all, Updated(s, B, all), Upkept(s, all), Owing(all.event[e], g),
           NEW W \in SUBSET (B \ {e}), NEW w, Good(w, H, L), Upkept(s, w), Updated(s, W, w),
           NEW E, E = {e}, NEW n, n = Normalize(w, E)
    PROVE  /\ Good(n, H, L) /\ Upkept(w, n) /\ Unnoticed(w, n) /\ Fresh(n, e)
           /\ Owing(n.event[e], g) /\ InTime(n.event[e], n.now)
<1>1. Updated(s, B, all) /\ Upkept(s, all)
  OBVIOUS
<1>2. E \in SUBSET Events /\ e \in Events /\ e \in E
  OBVIOUS
<1>3. /\ Good(n, H, L) /\ Upkept(w, n) /\ Updated(w, E, n) /\ Unnoticed(w, n)
      /\ n.event[e].status = "active" => Fresh(n, e)
  BY <1>2, NormalizeKeeps, Zenon
<1>4. Turns(s.event[e], all.event[e]) /\ all.event[e].status = "active"
  BY <1>1 DEF Upkept, Turned, Owing
<1>5. s.event[e].status = "active"
  BY <1>4, Zenon DEF Turns, Acquits
<1>6. all.event[e] = Normal(s, e)
  BY <1>1, <1>2, <1>5 DEF Updated
<1>7. w.event[e] = s.event[e]
  BY <1>2 DEF Updated
<1>8. Normal(w, e) = Normal(s, e)
  BY <1>7, <1>2, NormalDepends DEF Upkept, Turned
<1>9. n.event[e] = Normal(s, e)
  BY <1>2, <1>3, <1>5, <1>7, <1>8, Zenon DEF Updated
<1>10. Owing(n.event[e], g)
  BY <1>6, <1>9
<1>11. s \in Keyspace /\ Enrolled(s, H) /\ s.event[e].resolvedAt <= s.now
  BY <1>2, <1>5 DEF Good, Sound, Judged
<1>12. /\ ~Reached(s.event[e].expiresAt, s.now)
       /\ Waived(s, s.event[e], Waive(s, e), Waivers(s, e)) /\ Normal(s, e) = Waive(s, e)
  BY <1>2, <1>4, <1>5, <1>6, <1>11, NormalActive
<1>13. n.event[e].expiresAt = s.event[e].expiresAt
  BY <1>9, <1>12 DEF Waived
<1>14. n.now = s.now
  BY <1>3 DEF Upkept, Turned
<1>15. s.event[e].expiresAt \in Score /\ s.now \in Nat
  BY <1>2, <1>11, EventType DEF Keyspace, Event
<1>16. InTime(n.event[e], n.now)
  BY <1>12, <1>13, <1>14, <1>15 DEF InTime, Reached, Score
<1>17. Fresh(n, e)
  BY <1>2, <1>3, <1>10 DEF Owing
<1> QED BY <1>3, <1>10, <1>16, <1>17

\* A step that gives nothing out, and one that gives a delivery of e to g.
Nothing == UNCHANGED <<handles, leases, emitted>> /\ Turned(db, db')
Delivers(e, g, t) ==
    /\ Len(leases) < MaxLeases /\ leases' = Append(leases, <<e, g>>)
    /\ Leases(e, g, Len(leases) + 1, t)
    /\ \/ db.event[e].recipients[g].until = Out
       \/ db.event[e].recipients[g].until <= db.now

\* take: a delivery that comes back has no live lease, and gets the next token.
LEMMA TakeGood ==
    ASSUME EventInv, NEW g \in DOMAIN handles, NEW t \in LeaseTimes, Take(g, t)
    PROVE  /\ EventInv' /\ Undisturbed /\ Unnoticed(db, db')
           /\ Nothing \/ \E e \in Events : Delivers(e, g, t)
<1>1. PICK B \in DueBatches(db.delivery[g], db.now, Batch) :
        LET score == db.delivery[g]
            all == Normalize(db, B)
            open == {e \in B : all.event[e].status = "active" /\ g \in Pending(all.event[e])}
            Walked(W) ==
                [Normalize(db, W) EXCEPT !.delivery[g] =
                    [e \in Events |-> IF e \in W THEN Out ELSE @[e]]]
        IN /\ Registered(db, g)
           /\ \/ /\ open = {}
                 /\ db' = Walked(B)
                 /\ UNCHANGED <<handles, leases, emitted>>
              \/ /\ Len(leases) < MaxLeases
                 /\ \E e \in open, W \in SUBSET (B \ open) :
                       /\ db' = Leased(Normalize(Walked(W), {e}), g, e, t)
                       /\ leases' = Append(leases, <<e, g>>)
                 /\ UNCHANGED <<handles, emitted>>
  BY Zenon DEF Take
<1> DEFINE all == Normalize(db, B)
           open == {e \in B : all.event[e].status = "active" /\ g \in Pending(all.event[e])}
           Walked(W) ==
                [Normalize(db, W) EXCEPT !.delivery[g] =
                    [e \in Events |-> IF e \in W THEN Out ELSE @[e]]]
<1>2. g \in Gens
  BY <1>1, RegisteredGen
<1>3. /\ Good(db, handles, leases) /\ handles \in Seq([name : Names, left : Score])
      /\ leases \in Seq(Events \X Gens) /\ db \in Keyspace /\ LeasesOk(db, leases)
  BY DEF EventInv, Good, Sound
<1>4. B \in SUBSET Events /\ \A e \in B : Reached(db.delivery[g][e], db.now)
  <2>1. DOMAIN db.delivery[g] = Events
    BY <1>2, <1>3 DEF Keyspace
  <2> QED BY <2>1, DueBatchesSubset
<1>5. open = {e \in B : Owing(all.event[e], g)}
  BY <1>2 DEF Pending, Owing
<1>6. Updated(db, B, all) /\ Upkept(db, all)
  <2>1. all = Normalize(db, B)
    OBVIOUS
  <2> HIDE DEF all
  <2> QED BY <1>3, <1>4, <2>1, NormalizeKeeps, Zenon
<1>7. CASE open = {} /\ db' = Walked(B) /\ UNCHANGED <<handles, leases, emitted>>
  <2>1. Done(all, g, B)
    BY <1>5, <1>7 DEF Done
  <2> DEFINE n == Normalize(db, B)
  <2>2. n = Normalize(db, B) /\ B \in SUBSET B
    OBVIOUS
  <2>3. db' = Dropped(n, g, B)
    BY <1>7 DEF Dropped
  <2> HIDE DEF n, all, open, Walked
  <2>4. /\ Good(n, handles, leases) /\ Upkept(db, n) /\ Updated(db, B, n)
        /\ Unnoticed(db, n) /\ Dropped(n, g, B) = n
    <3>1. Good(n, handles, leases) /\ Upkept(db, n) /\ Updated(db, B, n) /\ Unnoticed(db, n)
      BY <1>3, <1>4, <2>2, NormalizeKeeps, Zenon
    <3>2. Dropped(n, g, B) = n
      <4>1. n \in Keyspace /\ Indexed(n)
        BY <3>1 DEF Upkept
      <4> QED BY <1>2, <1>4, <1>6, <2>1, <3>1, <4>1, WalkedPast
    <3> QED BY <3>1, <3>2
  <2>5. Good(db', handles, leases) /\ Turned(db, db') /\ Unnoticed(db, db')
    BY <2>3, <2>4 DEF Upkept
  <2>6. Nothing
    BY <1>7, <2>5 DEF Nothing
  <2> QED BY <1>7, <2>5, <2>6, TurnedKeeps
<1>8. CASE /\ Len(leases) < MaxLeases
           /\ \E e \in open, W \in SUBSET (B \ open) :
                 /\ db' = Leased(Normalize(Walked(W), {e}), g, e, t)
                 /\ leases' = Append(leases, <<e, g>>)
           /\ UNCHANGED <<handles, emitted>>
  <2>1. PICK e \in open, W \in SUBSET (B \ open) :
           /\ db' = Leased(Normalize(Walked(W), {e}), g, e, t)
           /\ leases' = Append(leases, <<e, g>>)
    BY <1>8, Zenon
  <2> DEFINE w == Normalize(db, W)
             E == {e}
             n == Normalize(w, E)
             until == LeaseUntil(n, e, t)
             token == Len(leases) + 1
             q == WithLease(n.event[e].recipients[g], token, until)
  <2>2. /\ e \in B /\ e \in Events /\ Owing(all.event[e], g)
        /\ W \in SUBSET B /\ W \in SUBSET (B \ {e}) /\ Done(all, g, W)
    BY <1>4, <1>5 DEF Done
  <2>3. w = Normalize(db, W) /\ E = {e} /\ n = Normalize(w, E) /\ until = LeaseUntil(n, e, t)
        /\ token = Len(leases) + 1 /\ q = WithLease(n.event[e].recipients[g], token, until)
    OBVIOUS
  <2>4. Walked(W) = Dropped(w, g, W)
    BY DEF Dropped
  <2> HIDE DEF all, open, Walked, w, E, n, until, q, token
  <2>5. /\ Good(w, handles, leases) /\ Upkept(db, w) /\ Updated(db, W, w)
        /\ Unnoticed(db, w) /\ Dropped(w, g, W) = w
    <3>1. Good(w, handles, leases) /\ Upkept(db, w) /\ Updated(db, W, w) /\ Unnoticed(db, w)
      BY <1>3, <1>4, <2>2, <2>3, NormalizeKeeps, Zenon
    <3>2. Dropped(w, g, W) = w
      <4>1. w \in Keyspace /\ Indexed(w) /\ W \subseteq B /\ W \in SUBSET Events
        BY <1>4, <2>2, <3>1 DEF Upkept
      <4> QED BY <1>2, <1>4, <1>6, <2>2, <3>1, <4>1, WalkedPast
    <3> QED BY <3>1, <3>2
  <2>6. /\ Good(n, handles, leases) /\ Upkept(w, n) /\ Unnoticed(w, n) /\ Fresh(n, e)
        /\ Owing(n.event[e], g) /\ InTime(n.event[e], n.now)
    BY <1>2, <1>3, <1>4, <1>6, <2>2, <2>3, <2>5, OpenStays, Zenon
  <2>7. Turned(db, n) /\ Unnoticed(db, n)
    <3>1. Turned(db, n)
      BY <2>5, <2>6, TurnedTransitive DEF Upkept
    <3> QED BY <2>5, <2>6, <3>1, UnnoticedTransitive
  <2>8. /\ n \in Keyspace /\ n.event[e] \in Event /\ n.event[e].recipients[g] \in Recipient
    BY <1>2, <2>2, <2>6, EventType, RecipientType DEF Good, Sound
  <2>9. until \in Nat /\ until \in Score
        /\ (until = n.event[e].expiresAt \/ until = n.now + t)
        /\ (n.event[e].expiresAt # Out => until <= n.event[e].expiresAt)
    BY <2>2, <2>3, <2>6, <2>8, LeaseUntilFields DEF Score
  <2>10. /\ leases' \in Seq(Events \X Gens) /\ token \in DOMAIN leases'
         /\ leases'[token] = <<e, g>> /\ \A m \in DOMAIN leases' : ~(m > token)
         /\ token \in 0..MaxLeases
    <3>1. /\ leases' \in Seq(Events \X Gens) /\ Len(leases) \in Nat
          /\ DOMAIN leases' = 1..(Len(leases) + 1)
          /\ leases'[Len(leases) + 1] = <<e, g>>
      BY <1>2, <1>3, <2>1, <2>2, NewestLease
    <3> QED BY <1>8, <2>3, <3>1, BoundsAssumption
  <2>11. q \in Recipient /\ q.status = "pending" /\ q.token = token /\ q.until = until
    BY <2>3, <2>6, <2>8, <2>9, <2>10, Zenon DEF WithLease, Recipient, Owing
  <2>12. db' = Redelivered(n, e, g, q, until)
    <3>1. db' = Leased(n, g, e, t)
      BY <2>1, <2>3, <2>4, <2>5
    <3>2. Leased(n, g, e, t) = Reassigned(n, e, g, token, until, until)
      BY <2>3 DEF Leased, Reassigned
    <3>3. Reassigned(n, e, g, token, until, until) = Redelivered(n, e, g, q, until)
      BY <1>2, <2>2, <2>3, <2>8, RedeliveredByField
    <3> QED BY <3>1, <3>2, <3>3
  <2>13. Rewritten(n, db', e, g, q, until)
    BY <1>2, <2>2, <2>8, <2>9, <2>11, <2>12, RedeliveredFields
  <2>14. LeaseOk(db', leases', e, g)
    <3>1. /\ db'.event[e] = [n.event[e] EXCEPT !.recipients[g] = q]
          /\ db'.event[e].recipients[g] = q /\ db'.delivery[g][e] = until
      BY <2>13 DEF Rewritten
    <3>2. /\ db'.event[e].status = n.event[e].status
          /\ db'.event[e].expiresAt = n.event[e].expiresAt
      BY <2>8, <3>1 DEF Event
    <3> QED BY <2>6, <2>9, <2>10, <2>11, <3>1, <3>2 DEF LeaseOk, Owing
  <2>15. ASSUME NEW f \in Events, NEW h \in Gens, f # e \/ h # g, LeaseOk(n, leases, f, h)
         PROVE  LeaseOk(n, leases', f, h)
    BY <1>2, <1>3, <2>1, <2>2, <2>15, NewestKeeps, Zenon
  <2>16. \/ db.event[e].recipients[g].until = Out
         \/ db.event[e].recipients[g].until <= db.now
    <3>1. LeaseOk(db, leases, e, g)
      BY <1>2, <1>3, <2>2 DEF LeasesOk
    <3>2. Reached(db.delivery[g][e], db.now)
      BY <1>4, <2>2
    <3> QED BY <3>1, <3>2 DEF LeaseOk, Reached
  <2>17. UNCHANGED <<handles, emitted>>
    BY <1>8
  <2>18. EventInv' /\ Undisturbed /\ Unnoticed(db, db') /\ Assigns(e, g, q)
    BY <1>2, <2>2, <2>6, <2>7, <2>9, <2>10, <2>11, <2>12, <2>14, <2>15, <2>16, <2>17,
       RewriteKeeps
  <2>19. Leases(e, g, token, t)
    <3>1. Turns(db.event[e], n.event[e]) /\ n.now = db.now
      BY <2>2, <2>7 DEF Turned
    <3>2. n.event[e].expiresAt = db.event[e].expiresAt
      BY <2>6, <3>1 DEF Turns, Owing
    <3> QED BY <2>9, <2>11, <2>18, <3>1, <3>2 DEF Leases
  <2>20. Delivers(e, g, t)
    BY <1>8, <2>1, <2>3, <2>16, <2>19 DEF Delivers
  <2> QED BY <2>2, <2>18, <2>20
<1> QED BY <1>1, <1>7, <1>8, Zenon

\* What a step does to the leases, when it leaves the records alone.
LEMMA SameRecordsUndisturbed ==
    ASSUME db'.event = db.event
    PROVE  Undisturbed
BY DEF Undisturbed

\* A new subscription owes nothing yet.
LEMMA SubscribeGood ==
    ASSUME EventInv, NEW name \in Names, Subscribe(name)
    PROVE  EventInv' /\ Undisturbed
<1> DEFINE g == Len(handles) + 1
           S == [name : Names, left : Score]
           new == [name |-> name, left |-> Out]
           H == Append(handles, new)
           subscriptions == [db.subscriptions EXCEPT ![name] = g]
<1>1. /\ db.subscriptions[name] = 0 /\ g \in Gens
      /\ db' = [db EXCEPT !.subscriptions[name] = g]
      /\ handles' = H /\ UNCHANGED <<leases, emitted>>
  BY DEF Subscribe
<1>2. /\ handles \in Seq(S) /\ db \in Keyspace
      /\ Indexed(db) /\ Enrolled(db, handles) /\ Remembered(db, handles) /\ LeasesOk(db, leases)
      /\ \A e \in Events : Judged(db, handles, db.event[e])
  BY DEF EventInv, Good, Sound
<1>3. new \in S /\ new.left = Out /\ new.name = name
  BY DEF Score
<1> HIDE DEF S, new
<1>4. /\ H \in Seq(S) /\ DOMAIN handles = 1..Len(handles) /\ Len(handles) \in Nat
      /\ DOMAIN H = 1..g /\ H[g] = new /\ \A h \in DOMAIN handles : H[h] = handles[h]
  BY <1>2, <1>3
<1>5. g \in 0..MaxGen /\ g \notin DOMAIN handles /\ g \in DOMAIN H
      /\ \A h \in DOMAIN H : h = g \/ h \in DOMAIN handles
  BY <1>1, <1>4, BoundsAssumption DEF Gens
<1> HIDE DEF H, g
<1>6. /\ subscriptions \in [Names -> 0..MaxGen] /\ subscriptions[name] = g
      /\ \A m \in Names : m # name => subscriptions[m] = db.subscriptions[m]
  BY <1>2, <1>5 DEF Keyspace
<1>7. db' = [db EXCEPT !.subscriptions = subscriptions]
  BY <1>1
<1> HIDE DEF subscriptions
<1>8. /\ db' \in Keyspace /\ db'.subscriptions = subscriptions
      /\ db'.now = db.now /\ db'.event = db.event /\ db'.delivery = db.delivery
      /\ db'.removed = db.removed /\ db'.retired = db.retired /\ db'.deadlines = db.deadlines
      /\ db'.archives = db.archives /\ db'.archiveDeadlines = db.archiveDeadlines
  BY <1>2, <1>6, <1>7, Zenon DEF Keyspace
<1>9. \A h \in DOMAIN handles : handles[h] \in S
  BY <1>2
<1>10. ASSUME NEW h \in DOMAIN handles PROVE Joined(db', H, h) <=> Joined(db, handles, h)
  <2>1. H[h] = handles[h] /\ h \in DOMAIN H /\ h # g /\ h # 0
    BY <1>4, <1>5
  <2>2. handles[h].name \in Names
    BY <1>9 DEF S
  <2>3. CASE handles[h].name = name
    BY <1>1, <1>6, <1>8, <2>1, <2>3 DEF Joined
  <2>4. CASE handles[h].name # name
    BY <1>6, <1>8, <2>1, <2>2, <2>4 DEF Joined
  <2> QED BY <2>3, <2>4
<1>11. Enrolled(db', H)
  <2>1. \A h \in DOMAIN H : Joined(db', H, h) => H[h].left = Out
    BY <1>2, <1>3, <1>4, <1>5, <1>10 DEF Enrolled
  <2> QED BY <1>2, <1>4, <1>5, <1>8, <2>1 DEF Enrolled
<1>12. Remembered(db', H)
  <2> SUFFICES ASSUME NEW e \in Events, NEW h \in Gens, Owing(db'.event[e], h)
               PROVE  /\ h \in DOMAIN H
                      /\ ~Joined(db', H, h) =>
                            db'.retired[h] # Out /\ db'.removed[h] = H[h].left
    BY DEF Remembered
  <2>1. /\ h \in DOMAIN handles
        /\ ~Joined(db, handles, h) =>
              db.retired[h] # Out /\ db.removed[h] = handles[h].left
    BY <1>2, <1>8 DEF Remembered
  <2> QED BY <1>4, <1>5, <1>8, <1>10, <2>1
<1>13. Indexed(db') /\ LeasesOk(db', leases)
  BY <1>2, <1>8, SameIndices
<1>14. ASSUME NEW e \in Events PROVE Judged(db', H, db'.event[e])
  <2> DEFINE r == db.event[e]
  <2>1. Judged(db, handles, r)
    BY <1>2
  <2>2. \A h \in DOMAIN handles : Excused(H, r, h) <=> Excused(handles, r, h)
    BY <1>4 DEF Excused
  <2>3. Told(handles, r) /\ Told(H, r)
    BY <1>4, <1>5, <2>1, <2>2 DEF Judged, Told
  <2>4. \A h \in Pending(r) : h \in DOMAIN handles
    BY <2>3 DEF Told, Pending, Addressed
  <2>5. Judged(db', H, r)
    BY <1>8, <2>1, <2>2, <2>3, <2>4 DEF Judged
  <2> QED BY <1>8, <2>5
<1>15. Good(db', handles', leases')
  BY <1>1, <1>8, <1>11, <1>12, <1>13, <1>14 DEF Good, Sound
<1>16. handles' \in Seq([name : Names, left : Score])
  BY <1>1, <1>4 DEF S
<1> QED BY <1>1, <1>8, <1>15, <1>16, SameRecordsUndisturbed DEF EventInv

\* The waivers that a departure brings, as they can be seen.
Departed(g) ==
    /\ g \in Gens /\ Registered(db, g)
    /\ db'.now = db.now
    /\ \A h \in Gens : Registered(db, h)' <=> Registered(db, h) /\ h # g
    /\ \A e \in Events :
          LET x == Sight(Current(db, e))
          IN Sight(Current(db', e)) =
                IF g \in x.pending /\ x.status = "active"
                THEN Promise!Judge(Promise!Waived(x, g), db.now) ELSE x

\* What is seen of e once g has left: a waiver, if there is something to waive.
LEMMA LeftSight ==
    ASSUME NEW s \in Keyspace, NEW H, Enrolled(s, H), NEW e \in Events, NEW g \in Gens,
           s.event[e].status = "active" => s.event[e].resolvedAt <= s.now,
           s.removed[g] = Out, NEW u \in Keyspace, u.now = s.now, u.event = s.event,
           u.removed[g] = s.now, \A h \in Gens : h # g => u.removed[h] = s.removed[h],
           NEW x, x = Sight(Current(s, e))
    PROVE  Sight(Current(u, e)) =
              IF g \in x.pending /\ x.status = "active"
              THEN Promise!Judge(Promise!Waived(x, g), s.now) ELSE x
<1> DEFINE r == s.event[e]
           v == Waive(s, e)
           w == Waive(u, e)
           y == Promise!Waived(x, g)
<1>1. /\ r \in Event /\ s.now \in Nat /\ r.expiresAt \in Score
      /\ r.status \in {"absent", "active", "completed", "expired"} /\ u.event[e] = r
      /\ \A h \in Gens : s.removed[h] \in Score
  BY EventType DEF Keyspace, Event
<1>2. CASE r.status # "active" \/ g \notin Pending(r)
  <2>1. Normal(u, e) = Normal(s, e)
    <3>1. \A h \in Pending(r) : r.status = "active" => u.removed[h] = s.removed[h]
      BY <1>2 DEF Pending
    <3> QED BY <1>1, <3>1, NormalDepends
  <2>2. Current(u, e) = Current(s, e)
    BY <1>1, <2>1 DEF Current
  <2>3. ~(g \in x.pending /\ x.status = "active")
    <3> SUFFICES ASSUME g \in x.pending, x.status = "active" PROVE FALSE
      OBVIOUS
    <3>1. Current(s, e).status = "active" /\ Current(s, e).recipients[g].status = "pending"
      BY DEF Sight, Having
    <3>2. r.status # "absent" /\ Normal(s, e) = Current(s, e)
      BY <3>1, NoEventType DEF Current
    <3>3. /\ r.status = "active" /\ Normal(s, e) = v
          /\ Waived(s, r, v, Waivers(s, e))
      BY <3>1, <3>2, NormalActive
    <3>4. v.recipients[g] = r.recipients[g] \/ v.recipients[g] = WaivedRecipient
      BY <3>3 DEF Waived
    <3>5. r.recipients[g].status = "pending"
      BY <3>1, <3>2, <3>3, <3>4, WaivedRecipientType
    <3> QED BY <1>2, <3>3, <3>5 DEF Pending
  <2> QED BY <2>2, <2>3
<1>3. CASE r.status = "active" /\ g \in Pending(r)
  <2>1. \A h \in Gens : s.removed[h] # Out => s.removed[h] <= s.now
    BY DEF Enrolled
  <2>2. \A h \in Gens : u.removed[h] # Out => u.removed[h] <= u.now
    BY <1>1, <2>1
  <2>3. Waived(s, r, v, Waivers(s, e)) /\ Waived(u, r, w, Waivers(u, e))
    <3>1. Waived(s, r, v, Waivers(s, e))
      BY <1>3, <2>1, WaiveFields
    <3>2. Waived(u, u.event[e], w, Waivers(u, e))
      BY <1>1, <1>3, <2>2, WaiveFields
    <3> QED BY <1>1, <3>1, <3>2
  <2>4. /\ v \in Event /\ v.status = "active" /\ v.expiresAt = r.expiresAt
        /\ w \in Event /\ w.status = "active" /\ w.expiresAt = r.expiresAt
        /\ w.settledAt = v.settledAt
    BY <1>3, <2>3 DEF Waived
  <2>5. g \notin Waivers(s, e)
    BY DEF Waivers
  <2>6. g \in Pending(v) /\ v.recipients[g] = r.recipients[g]
    BY <1>3, <2>3, <2>5 DEF Waived, Pending
  <2>7. Current(s, e) = IF Reached(v.expiresAt, s.now) THEN Settle(s, v, "expired", v.expiresAt)
                        ELSE v
    BY <1>3, <2>6 DEF Current, Normal
  <2>8. CASE Reached(r.expiresAt, s.now)
    <3>1. Waivers(u, e) = Waivers(s, e)
      <4>1. g \notin Waivers(u, e)
        BY <1>1, <2>8 DEF Waivers, Reached, Score
      <4>2. \A h \in Gens : h # g => (h \in Waivers(u, e) <=> h \in Waivers(s, e))
        BY <1>1 DEF Waivers
      <4>3. Waivers(u, e) \subseteq Gens /\ Waivers(s, e) \subseteq Gens
        BY DEF Waivers, Pending
      <4> QED BY <2>5, <4>1, <4>2, <4>3
    <3>2. {u.removed[h] : h \in Waivers(u, e)} = {s.removed[h] : h \in Waivers(s, e)}
      <4>1. \A h \in Waivers(s, e) : u.removed[h] = s.removed[h]
        BY <2>5 DEF Waivers, Pending
      <4> QED BY <3>1, <4>1
    <3>3. w = v
      BY <1>1, <3>1, <3>2, Zenon DEF Waive
    <3>4. Current(u, e) = Settle(u, v, "expired", v.expiresAt)
      BY <1>1, <1>3, <2>4, <2>6, <2>8, <3>3 DEF Current, Normal
    <3>5. Current(s, e) = Settle(s, v, "expired", v.expiresAt)
      BY <2>4, <2>7, <2>8
    <3>6. Current(u, e) = Current(s, e)
      BY <3>4, <3>5 DEF Settle
    <3>7. x.status # "active"
      <4>1. Current(s, e) = NoEvent \/ Current(s, e).status = "expired"
        <5> DEFINE q == Current(s, e)
        <5>1. v.expiresAt \in Nat
          BY <1>1, <2>4, <2>8 DEF Reached, Score
        <5>2. q = Settle(s, v, "expired", v.expiresAt) /\ v \in Event
          BY <2>4, <3>5
        <5> HIDE DEF q, v
        <5>3. ASSUME NEW status \in {"completed", "expired"}, NEW at \in Nat,
                     q = Settle(s, v, status, at)
              PROVE  q = NoEvent \/ q.status = status
          BY <5>2, <5>3, SettleFields
        <5>4. q = NoEvent \/ q.status = "expired"
          BY <5>1, <5>2, <5>3
        <5> QED BY <5>4 DEF q
      <4> QED BY <4>1, NoEventType DEF Sight
    <3> QED BY <3>6, <3>7
  <2>9. CASE ~Reached(r.expiresAt, s.now)
    <3>1. x = Sight(v)
      BY <2>4, <2>7, <2>9
    <3>2. Waivers(u, e) = Waivers(s, e) \cup {g}
      <4>1. g \in Waivers(u, e)
        BY <1>1, <1>3, <2>9 DEF Waivers, Reached, Score
      <4>2. \A h \in Gens : h # g => (h \in Waivers(u, e) <=> h \in Waivers(s, e))
        BY <1>1 DEF Waivers
      <4>3. Waivers(u, e) \subseteq Gens /\ Waivers(s, e) \subseteq Gens
        BY DEF Waivers, Pending
      <4> QED BY <4>1, <4>2, <4>3
    <3>3. /\ w.recipients[g] = WaivedRecipient
          /\ \A h \in Gens : h # g => w.recipients[h] = v.recipients[h]
      BY <2>3, <3>2 DEF Waived
    <3>4. w.resolvedAt = u.now
      <4>1. u.removed[g] <= w.resolvedAt /\ w.resolvedAt <= u.now /\ w.resolvedAt \in Nat
        BY <2>3, <2>4, <3>2 DEF Waived, Event
      <4> QED BY <1>1, <4>1
    <3>5. /\ Having(w, "pending") = Having(v, "pending") \ {g}
          /\ Having(w, "waived") = Having(v, "waived") \cup {g}
          /\ Having(w, "acknowledged") = Having(v, "acknowledged")
      <4>1. v.recipients[g].status = "pending"
        BY <2>6 DEF Pending
      <4> QED BY <3>3, <4>1, WaivedRecipientType DEF Having
    <3>6. Sight(v) \in Sights /\ Sight(w) \in Sights
      BY <2>4, SightType
    <3>7. /\ y \in Sights /\ y.pending = x.pending \ {g} /\ y.waived = x.waived \cup {g}
          /\ y.status = x.status /\ y.acknowledged = x.acknowledged
          /\ y.expiresAt = x.expiresAt /\ y.settledAt = x.settledAt
      BY <3>1, <3>6, Zenon DEF Promise!Waived, Sights
    <3> HIDE DEF v, w, y
    <3>8. /\ Sight(w).status = y.status /\ Sight(w).settledAt = y.settledAt
          /\ Sight(w).expiresAt = y.expiresAt /\ Sight(w).pending = y.pending
          /\ Sight(w).acknowledged = y.acknowledged /\ Sight(w).waived = y.waived
      BY <2>4, <3>1, <3>5, <3>7 DEF Sight
    <3>9. Sight(w) = y
      BY <3>6, <3>7, <3>8, SameSight, Zenon
    <3>10. Sight(Current(u, e)) = Promise!Judge(Sight(w), u.now)
      <4>1. w = Waive(u, e)
        BY DEF w
      <4> QED BY <1>1, <1>3, <2>4, <3>4, <4>1, JudgeSight
    <3>11. x.status = "active" /\ g \in x.pending
      BY <2>4, <2>6, <3>1 DEF Sight, Having, Pending
    <3> QED BY <3>9, <3>10, <3>11 DEF y
  <2> QED BY <2>8, <2>9
<1> QED BY <1>2, <1>3

\* Who leaves is still to be told, and counts as waiting at every deadline that
\* has passed.
LEMMA UnsubscribeGood ==
    ASSUME EventInv, NEW g \in DOMAIN handles, Unsubscribe(g)
    PROVE  /\ EventInv' /\ Undisturbed /\ Departed(g)
           /\ \A e \in Events : Turns(db.event[e], db'.event[e])
<1> DEFINE S == [name : Names, left : Score]
           name == handles[g].name
           u == [db EXCEPT !.subscriptions[handles[g].name] = 0,
                           !.removed[g] = db.now, !.retired[g] = db.now]
           gone == [handles[g] EXCEPT !.left = db.now]
           H == [handles EXCEPT ![g].left = db.now]
           subscriptions == [db.subscriptions EXCEPT ![name] = 0]
           removed == [db.removed EXCEPT ![g] = db.now]
           retired == [db.retired EXCEPT ![g] = db.now]
<1>1. Registered(db, g) /\ db' \in Swept(u) /\ handles' = H /\ UNCHANGED <<leases, emitted>>
  BY DEF Unsubscribe
<1>2. /\ handles \in Seq(S) /\ db \in Keyspace /\ db.now \in Nat
      /\ Indexed(db) /\ Enrolled(db, handles) /\ Remembered(db, handles) /\ LeasesOk(db, leases)
      /\ \A e \in Events : Judged(db, handles, db.event[e])
  BY DEF EventInv, Good, Sound, Keyspace
<1>3. g \in Gens /\ handles[g].left = Out
  BY <1>1, RegisteredGen
<1>4. u = [db EXCEPT !.subscriptions = subscriptions, !.removed = removed, !.retired = retired]
  OBVIOUS
<1>5. /\ \A h \in DOMAIN handles : handles[h] \in S
      /\ handles[g] \in S
  <2>1. handles \in Seq(S)
    BY <1>2
  <2> HIDE DEF S
  <2> QED BY <2>1
<1>6. gone \in S /\ gone.left = db.now /\ gone.name = name /\ name \in Names
  BY <1>2, <1>5 DEF Score
<1>7. H = [handles EXCEPT ![g] = gone]
  OBVIOUS
<1> HIDE DEF S, gone, u
<1>8. /\ H \in Seq(S) /\ DOMAIN H = DOMAIN handles /\ H[g] = gone
      /\ \A h \in DOMAIN handles : h # g => H[h] = handles[h]
  BY <1>2, <1>6, <1>7
<1>9. /\ subscriptions \in [Names -> 0..MaxGen] /\ subscriptions[name] = 0
      /\ \A m \in Names : m # name => subscriptions[m] = db.subscriptions[m]
      /\ removed \in [Gens -> Score] /\ retired \in [Gens -> Score]
      /\ removed[g] = db.now /\ retired[g] = db.now
      /\ \A h \in Gens : h # g => removed[h] = db.removed[h] /\ retired[h] = db.retired[h]
  BY <1>2, <1>3, <1>6, BoundsAssumption DEF Keyspace, Score
<1> HIDE DEF subscriptions, removed, retired, H
<1>10. /\ u \in Keyspace /\ u.subscriptions = subscriptions
       /\ u.removed = removed /\ u.retired = retired
       /\ u.now = db.now /\ u.event = db.event /\ u.delivery = db.delivery
       /\ u.deadlines = db.deadlines
       /\ u.archives = db.archives /\ u.archiveDeadlines = db.archiveDeadlines
  BY <1>2, <1>4, <1>9, Zenon DEF Keyspace
<1>11. /\ db.subscriptions[name] = g /\ g # 0 /\ db.now # Out
       /\ \A h \in DOMAIN handles : h # 0
  BY <1>1, <1>2, <1>3 DEF Registered, Gens
<1>12. ~Joined(u, H, g)
  BY <1>6, <1>8, <1>9, <1>10, <1>11 DEF Joined
<1>13. ASSUME NEW h \in DOMAIN handles, h # g
       PROVE  Joined(u, H, h) <=> Joined(db, handles, h)
  <2>1. H[h] = handles[h] /\ h \in DOMAIN H /\ handles[h].name \in Names
    BY <1>5, <1>8, <1>13 DEF S
  <2>2. CASE handles[h].name = name
    BY <1>8, <1>9, <1>10, <1>11, <1>13, <2>1, <2>2 DEF Joined
  <2>3. CASE handles[h].name # name
    BY <1>9, <1>10, <2>1, <2>3 DEF Joined
  <2> QED BY <2>2, <2>3
<1>14. Enrolled(u, H)
  <2>1. \A h \in DOMAIN H : Joined(u, H, h) => H[h].left = Out
    BY <1>2, <1>8, <1>12, <1>13 DEF Enrolled
  <2>2. \A h \in Gens : u.retired[h] # Out => u.removed[h] # Out
    BY <1>2, <1>9, <1>10, <1>11 DEF Enrolled
  <2>3. \A h \in Gens : u.removed[h] # Out =>
          h \in DOMAIN H /\ H[h].left = u.removed[h] /\ u.removed[h] <= u.now
    <3> SUFFICES ASSUME NEW h \in Gens, u.removed[h] # Out
                 PROVE  h \in DOMAIN H /\ H[h].left = u.removed[h] /\ u.removed[h] <= u.now
      OBVIOUS
    <3>1. CASE h = g
      BY <1>2, <1>6, <1>8, <1>9, <1>10, <3>1
    <3>2. CASE h # g
      BY <1>2, <1>8, <1>9, <1>10, <3>2 DEF Enrolled
    <3> QED BY <3>1, <3>2
  <2> QED BY <2>1, <2>2, <2>3 DEF Enrolled
<1>15. Remembered(u, H)
  <2> SUFFICES ASSUME NEW e \in Events, NEW h \in Gens, Owing(u.event[e], h)
               PROVE  /\ h \in DOMAIN H
                      /\ ~Joined(u, H, h) => u.retired[h] # Out /\ u.removed[h] = H[h].left
    BY DEF Remembered
  <2>1. /\ h \in DOMAIN handles
        /\ ~Joined(db, handles, h) =>
              db.retired[h] # Out /\ db.removed[h] = handles[h].left
    BY <1>2, <1>10 DEF Remembered
  <2>2. CASE h = g
    BY <1>6, <1>8, <1>9, <1>10, <1>11, <2>1, <2>2
  <2>3. CASE h # g
    BY <1>8, <1>9, <1>10, <1>13, <2>1, <2>3
  <2> QED BY <2>2, <2>3
<1>16. Indexed(u) /\ LeasesOk(u, leases)
  BY <1>2, <1>10, SameIndices
<1>17. ASSUME NEW e \in Events PROVE Judged(u, H, u.event[e])
  <2> DEFINE r == db.event[e]
  <2>1. Judged(db, handles, r) /\ r.expiresAt \in Score
    BY <1>2, EventType DEF Event
  <2>2. \A h \in DOMAIN handles : h # g => (Excused(H, r, h) <=> Excused(handles, r, h))
    BY <1>8 DEF Excused
  <2>3. ~Excused(handles, r, g)
    BY <1>3 DEF Excused
  <2>4. Told(handles, r)
    BY <2>1 DEF Judged
  <2>5. Told(H, r)
    BY <1>8, <2>2, <2>3, <2>4 DEF Told
  <2>6. \A h \in Pending(r) : h \in DOMAIN handles
    BY <2>4 DEF Told, Pending, Addressed
  <2>7. r.status = "expired" => ~Excused(H, r, g)
    <3> SUFFICES ASSUME r.status = "expired" PROVE ~Excused(H, r, g)
      OBVIOUS
    <3>1. r.expiresAt # Out /\ r.expiresAt <= db.now
      BY <2>1 DEF Judged
    <3> QED BY <1>2, <1>6, <1>8, <2>1, <3>1 DEF Excused, InTime, Score
  <2>8. r.status = "expired" => \E h \in Pending(r) : ~Excused(H, r, h)
    BY <2>1, <2>2, <2>6, <2>7 DEF Judged
  <2> HIDE DEF r
  <2>9. Judged(u, H, r)
    BY <1>10, <2>1, <2>5, <2>8 DEF Judged
  <2> QED BY <1>10, <2>9 DEF r
<1>18. Good(u, H, leases)
  BY <1>10, <1>14, <1>15, <1>16, <1>17 DEF Good, Sound
<1>19. H \in Seq([name : Names, left : Score])
  BY <1>8 DEF S
<1>20. Good(db', H, leases) /\ Turned(u, db') /\ Unnoticed(u, db')
  BY <1>1, <1>18, <1>19, SweptGood, Zenon
<1>27. \A e \in Events : Turns(db.event[e], db'.event[e])
  BY <1>10, <1>20 DEF Turned
<1>21. Undisturbed
  BY <1>27, Zenon DEF Undisturbed, Turns, Acquits
<1>22. \A e \in Events : db'.event[e].status # "absent" => db.event[e].status # "absent"
  <2>1. db' \in Keyspace
    BY <1>20 DEF Good, Sound
  <2> QED BY <1>10, <1>20, <2>1, TurnedExists
<1>23. Good(db', handles', leases')
  BY <1>1, <1>20
<1>24. ASSUME NEW e \in Events, NEW x, x = Sight(Current(db, e))
       PROVE  Sight(Current(db', e)) =
                 IF g \in x.pending /\ x.status = "active"
                 THEN Promise!Judge(Promise!Waived(x, g), db.now) ELSE x
  <2>1. db.event[e].status = "active" => db.event[e].resolvedAt <= db.now
    BY <1>2 DEF Judged
  <2>2. db.removed[g] = Out
    BY <1>2, <1>3 DEF Enrolled
  <2>3. Sight(Current(db', e)) = Sight(Current(u, e))
    BY <1>20 DEF Unnoticed
  <2>4. /\ u.removed[g] = db.now /\ \A h \in Gens : h # g => u.removed[h] = db.removed[h]
    BY <1>9, <1>10
  <2> QED BY <1>2, <1>3, <1>10, <1>24, <2>1, <2>2, <2>3, <2>4, LeftSight
<1>25. ASSUME NEW h \in Gens PROVE Registered(db, h)' <=> Registered(db, h) /\ h # g
  <2>1. db'.subscriptions = u.subscriptions
    BY <1>20 DEF Unnoticed
  <2>2. Registered(db, h)' <=> Joined(u, H, h)
    BY <1>1, <2>1 DEF Registered, Joined
  <2>3. Registered(db, h) <=> Joined(db, handles, h)
    BY DEF Registered, Joined
  <2>4. h \notin DOMAIN handles => ~Joined(u, H, h)
    BY <1>8 DEF Joined
  <2> QED BY <1>12, <1>13, <2>2, <2>3, <2>4 DEF Joined
<1>26. Departed(g)
  <2>1. db'.now = db.now
    BY <1>10, <1>20 DEF Unnoticed
  <2> QED BY <1>1, <1>3, <1>24, <1>25, <2>1 DEF Departed
<1> QED BY <1>1, <1>19, <1>21, <1>22, <1>23, <1>26, <1>27 DEF EventInv

\* What is seen of a new event for those in `to`.
Owed(to, ttl) ==
    [Promise!Absent EXCEPT !.status = "active", !.pending = to,
                           !.expiresAt = IF ttl = Out THEN Out ELSE db.now + ttl]

Emitted(e, ttl) ==
    /\ Sight(Current(db, e)) = Promise!Absent
    /\ Seen(db, db', e, Owed({g \in Gens : Registered(db, g)}, ttl))

\* A new event waits for every subscription there is, and is brought up to date
\* at once: with nobody to wait for, or no time to live, it is settled already.
LEMMA EmitGood ==
    ASSUME EventInv, NEW e \in Events, NEW ttl \in Lifetimes, Emit(e, ttl)
    PROVE  /\ EventInv' /\ Undisturbed /\ Emitted(e, ttl)
           /\ \A f \in Events : f # e => Turns(db.event[f], db'.event[f])
<1> DEFINE to == {g \in Gens : Registered(db, g)}
           deadline == IF ttl = Out THEN Out ELSE db.now + ttl
           asked == [NoRecipient EXCEPT !.status = "pending"]
           recipients == [g \in Gens |-> IF g \in to THEN asked ELSE NoRecipient]
           r == [NoEvent EXCEPT
                   !.status = "active", !.resolvedAt = db.now, !.expiresAt = deadline,
                   !.recipients = recipients]
           event == [db.event EXCEPT ![e] = r]
           deadlines == [db.deadlines EXCEPT ![e] = deadline]
           delivery == [g \in Gens |-> IF g \in to THEN [db.delivery[g] EXCEPT ![e] = db.now]
                                                   ELSE db.delivery[g]]
           u == [db EXCEPT !.event[e] = r, !.deadlines[e] = deadline, !.delivery = delivery]
           E == {e}
<1>1. /\ e \notin emitted /\ db' = Normalize(u, E) /\ emitted' = emitted \cup {e}
      /\ UNCHANGED <<handles, leases>>
  <2> USE DEF Emit
  <2> QED BY DEF Keyspace
<1>2. /\ handles \in Seq([name : Names, left : Score])
      /\ db \in Keyspace /\ db.now \in Nat
      /\ Indexed(db) /\ Enrolled(db, handles) /\ Remembered(db, handles) /\ LeasesOk(db, leases)
      /\ \A f \in Events : Judged(db, handles, db.event[f])
      /\ db.event[e].status = "absent"
  BY <1>1 DEF EventInv, Good, Sound, Keyspace
<1>3. deadline \in Score /\ db.now \in Score
  <2>1. ttl \in Score
    BY PolicyAssumption
  <2> QED BY <1>2, <2>1 DEF Score
<1>4. /\ NoRecipient \in Recipient /\ NoEvent \in Event
      /\ NoRecipient.status = "none" /\ NoRecipient.until = Out /\ NoRecipient.token = 0
  BY NoEventType
<1>5. asked \in Recipient /\ asked.status = "pending" /\ asked.until = Out
  BY <1>4 DEF Recipient
<1>6. \A g \in to : g \in Gens /\ Joined(db, handles, g)
  BY DEF Registered, Joined
<1> HIDE DEF asked, to, deadline
<1>7. /\ recipients \in [Gens -> Recipient]
      /\ \A g \in Gens : recipients[g] = IF g \in to THEN asked ELSE NoRecipient
  BY <1>4, <1>5
<1> HIDE DEF recipients
<1>8. /\ r \in Event /\ r.status = "active" /\ r.resolvedAt = db.now /\ r.expiresAt = deadline
      /\ r.recipients = recipients
  BY <1>2, <1>3, <1>4, <1>7, Zenon DEF Event
<1> HIDE DEF r
<1>9. /\ db.event \in [Events -> Event] /\ db.deadlines \in [Events -> Score]
      /\ db.delivery \in [Gens -> [Events -> Score]]
  BY <1>2 DEF Keyspace
<1>10. /\ event \in [Events -> Event] /\ event[e] = r
       /\ \A f \in Events : f # e => event[f] = db.event[f]
       /\ deadlines \in [Events -> Score] /\ deadlines[e] = deadline
       /\ \A f \in Events : f # e => deadlines[f] = db.deadlines[f]
  BY <1>3, <1>8, <1>9
<1>11. /\ delivery \in [Gens -> [Events -> Score]]
       /\ \A g \in Gens : delivery[g][e] = IF g \in to THEN db.now ELSE db.delivery[g][e]
       /\ \A g \in Gens : \A f \in Events : f # e => delivery[g][f] = db.delivery[g][f]
  <2>1. \A g \in Gens : [db.delivery[g] EXCEPT ![e] = db.now] \in [Events -> Score]
    BY <1>3, <1>9
  <2>2. \A g \in Gens : /\ [db.delivery[g] EXCEPT ![e] = db.now][e] = db.now
                        /\ \A f \in Events : f # e =>
                              [db.delivery[g] EXCEPT ![e] = db.now][f] = db.delivery[g][f]
    BY <1>9
  <2>3. \A g \in Gens : delivery[g] = IF g \in to THEN [db.delivery[g] EXCEPT ![e] = db.now]
                                                  ELSE db.delivery[g]
    OBVIOUS
  <2>4. delivery \in [Gens -> [Events -> Score]]
    BY <1>9, <2>1
  <2> HIDE DEF delivery
  <2> QED BY <2>2, <2>3, <2>4
<1>12. u = [db EXCEPT !.event = event, !.deadlines = deadlines, !.delivery = delivery]
  OBVIOUS
<1> HIDE DEF event, deadlines, delivery, u
<1>13. /\ u \in Keyspace /\ u.event = event /\ u.deadlines = deadlines /\ u.delivery = delivery
       /\ u.now = db.now /\ u.subscriptions = db.subscriptions
       /\ u.removed = db.removed /\ u.retired = db.retired
       /\ u.archives = db.archives /\ u.archiveDeadlines = db.archiveDeadlines
  BY <1>2, <1>10, <1>11, <1>12, Zenon DEF Keyspace
<1>14. \A g \in Gens : Owing(u.event[e], g) <=> g \in to
  BY <1>4, <1>5, <1>7, <1>8, <1>10, <1>13 DEF Owing
<1>15. Indexed(u)
  <2> SUFFICES ASSUME NEW f \in Events
               PROVE  LET q == u.event[f]
                      IN /\ \A g \in Gens : u.delivery[g][f] # Out <=> Owing(q, g)
                         /\ u.deadlines[f] = IF q.status = "active" THEN q.expiresAt ELSE Out
                         /\ u.archives[f] = IF Settled(q) THEN q.settledAt ELSE Out
                         /\ u.archiveDeadlines[f] = IF Settled(q) THEN q.archiveUntil ELSE Out
    BY DEF Indexed
  <2> DEFINE o == db.event[f]
  <2>1. /\ \A g \in Gens : db.delivery[g][f] # Out <=> Owing(o, g)
        /\ db.deadlines[f] = IF o.status = "active" THEN o.expiresAt ELSE Out
        /\ db.archives[f] = IF Settled(o) THEN o.settledAt ELSE Out
        /\ db.archiveDeadlines[f] = IF Settled(o) THEN o.archiveUntil ELSE Out
    BY <1>2 DEF Indexed
  <2>2. CASE f = e
    <3>1. u.event[f] = r /\ u.deadlines[f] = deadline
      BY <1>10, <1>13, <2>2
    <3>2. /\ ~Settled(r) /\ ~Settled(o) /\ \A g \in Gens : ~Owing(o, g)
      BY <1>2, <1>8, <2>2 DEF Settled, Owing
    <3>3. \A g \in Gens : u.delivery[g][f] # Out <=> g \in to
      BY <1>2, <1>11, <1>13, <2>1, <2>2, <3>2
    <3>4. \A g \in Gens : u.delivery[g][f] # Out <=> Owing(r, g)
      BY <1>14, <2>2, <3>1, <3>3
    <3> HIDE DEF o
    <3> QED BY <1>8, <1>13, <2>1, <3>1, <3>2, <3>4
  <2>3. CASE f # e
    <3>1. /\ u.event[f] = o /\ u.deadlines[f] = db.deadlines[f]
          /\ \A g \in Gens : u.delivery[g][f] = db.delivery[g][f]
      BY <1>10, <1>11, <1>13, <2>3
    <3> HIDE DEF o
    <3> QED BY <1>13, <2>1, <3>1
  <2> QED BY <2>2, <2>3
<1>16. \A g : Joined(u, handles, g) <=> Joined(db, handles, g)
  BY <1>13 DEF Joined
<1>17. Enrolled(u, handles)
  BY <1>2, <1>13, <1>16 DEF Enrolled
<1>18. Remembered(u, handles)
  <2> SUFFICES ASSUME NEW f \in Events, NEW g \in Gens, Owing(u.event[f], g)
               PROVE  /\ g \in DOMAIN handles
                      /\ ~Joined(u, handles, g) =>
                            u.retired[g] # Out /\ u.removed[g] = handles[g].left
    BY DEF Remembered
  <2>1. CASE f = e
    <3>1. Joined(db, handles, g)
      BY <1>6, <1>14, <2>1
    <3> QED BY <1>16, <3>1 DEF Joined
  <2>2. CASE f # e
    <3>1. u.event[f] = db.event[f]
      BY <1>10, <1>13, <2>2
    <3> QED BY <1>2, <1>13, <1>16, <3>1 DEF Remembered
  <2> QED BY <2>1, <2>2
<1>19. LeasesOk(u, leases)
  <2> SUFFICES ASSUME NEW f \in Events, NEW g \in Gens PROVE LeaseOk(u, leases, f, g)
    BY DEF LeasesOk
  <2>1. CASE f = e
    <3>1. u.event[f].recipients[g].until = Out
      BY <1>4, <1>5, <1>7, <1>8, <1>10, <1>13, <2>1
    <3> QED BY <3>1 DEF LeaseOk
  <2>2. CASE f # e
    <3>1. u.event[f] = db.event[f] /\ u.delivery[g][f] = db.delivery[g][f]
      BY <1>10, <1>11, <1>13, <2>2
    <3> QED BY <1>2, <3>1 DEF LeasesOk, LeaseOk
  <2> QED BY <2>1, <2>2
<1>20. Judgeable(u, handles, u.event[e]) /\ \A g \in Pending(r) : u.removed[g] = Out
  <2>1. u.event[e] = r
    BY <1>10, <1>13
  <2>2. Addressed(r) = to
    BY <1>4, <1>5, <1>6, <1>7, <1>8 DEF Addressed
  <2>3. \A g \in to : r.recipients[g].status = "pending" /\ g \in DOMAIN handles
                      /\ u.removed[g] = Out
    <3> SUFFICES ASSUME NEW g \in to
                 PROVE  r.recipients[g].status = "pending" /\ g \in DOMAIN handles
                        /\ u.removed[g] = Out
      OBVIOUS
    <3>1. g \in Gens /\ Joined(db, handles, g) /\ g \in DOMAIN handles
      BY <1>6 DEF Joined
    <3>2. handles[g].left = Out
      BY <1>2, <3>1 DEF Enrolled
    <3>3. u.removed[g] = Out
      BY <1>2, <1>13, <3>1, <3>2 DEF Enrolled
    <3> QED BY <1>5, <1>7, <1>8, <3>1, <3>3
  <2>4. Told(handles, r) /\ Unresolved(u, r)
    BY <2>2, <2>3 DEF Told, Unresolved
  <2>5. Pending(r) \subseteq to
    BY <1>4, <1>7, <1>8 DEF Pending
  <2> QED BY <1>2, <1>8, <1>13, <2>1, <2>3, <2>4, <2>5 DEF Judgeable
<1>21. Normalizable(u, handles, E) /\ E \in SUBSET Events
  <2>1. \A f \in Events \ E : Judged(u, handles, u.event[f])
    <3> SUFFICES ASSUME NEW f \in Events, f # e PROVE Judged(u, handles, u.event[f])
      OBVIOUS
    <3>1. u.event[f] = db.event[f] /\ u.now = db.now
      BY <1>10, <1>13
    <3>2. Judged(db, handles, db.event[f])
      BY <1>2
    <3> QED BY <3>1, <3>2, SameTimeJudged
  <2> QED BY <1>20, <2>1 DEF Normalizable
<1>22. Sound(u, handles, leases)
  BY <1>13, <1>15, <1>17, <1>18, <1>19 DEF Sound
<1> HIDE DEF E
<1>23. Good(db', handles, leases) /\ Upkept(u, db') /\ Unnoticed(u, db')
  <2>1. Good(db', handles, leases) /\ Upkept(u, db') /\ Updated(u, E, db')
    BY <1>1, <1>2, <1>21, <1>22, NormalizeGood, Zenon
  <2> QED BY <1>21, <1>22, <2>1, NormalizeUnnoticed
<1>24. Undisturbed
  <2> SUFFICES ASSUME NEW f \in Events, NEW g \in Gens,
                      db.event[f].recipients[g].until # Out,
                      db'.event[f].recipients[g].status = "pending"
               PROVE  db'.event[f].recipients[g].token = db.event[f].recipients[g].token
    BY DEF Undisturbed
  <2>1. f # e
    <3>1. Owing(db.event[f], g)
      BY <1>2 DEF LeasesOk, LeaseOk
    <3> QED BY <1>2, <3>1 DEF Owing
  <2>2. u.event[f] = db.event[f]
    BY <1>10, <1>13, <2>1
  <2>3. Turns(u.event[f], db'.event[f])
    BY <1>23 DEF Upkept, Turned
  <2> QED BY <2>2, <2>3 DEF Turns, Acquits
<1>25. \A f \in Events : db'.event[f].status # "absent" => f \in emitted'
  <2> SUFFICES ASSUME NEW f \in Events, f # e, db'.event[f].status # "absent"
               PROVE  f \in emitted
    BY <1>1
  <2>1. u.event[f].status # "absent"
    BY <1>23, TurnedExists DEF Upkept
  <2>2. u.event[f] = db.event[f]
    BY <1>10, <1>13
  <2> QED BY <2>1, <2>2 DEF EventInv
<1>26. Good(db', handles', leases') /\ emitted' \subseteq Events
       /\ handles' = handles /\ leases' = leases
  BY <1>1, <1>23 DEF EventInv
<1>27. Sight(r) = Owed(to, ttl)
  <2> DEFINE x == Owed(to, ttl)
  <2>1. to \subseteq Gens
    BY <1>6
  <2>2. /\ Promise!Absent \in Sights
        /\ Promise!Absent.acknowledged = {} /\ Promise!Absent.waived = {}
        /\ Promise!Absent.settledAt = Out
    BY DEF Promise!Absent, Sights, Score
  <2>3. /\ x \in Sights /\ x.status = "active" /\ x.pending = to /\ x.expiresAt = deadline
        /\ x.acknowledged = {} /\ x.waived = {} /\ x.settledAt = Out
    <3>1. x = [Promise!Absent EXCEPT !.status = "active", !.pending = to,
                                     !.expiresAt = deadline]
      BY DEF Owed, deadline
    <3> HIDE DEF x
    <3> QED BY <1>3, <2>1, <2>2, <3>1, Zenon DEF Sights
  <2>4. Sight(r) \in Sights
    BY <1>8, SightType
  <2>5. /\ Having(r, "pending") = to /\ Having(r, "acknowledged") = {}
        /\ Having(r, "waived") = {}
    BY <1>4, <1>5, <1>7, <1>8, <2>1 DEF Having
  <2>6. r.settledAt = Out
    BY <1>4, <1>8 DEF r, NoEvent
  <2> HIDE DEF x
  <2>7. /\ Sight(r).status = x.status /\ Sight(r).settledAt = x.settledAt
        /\ Sight(r).expiresAt = x.expiresAt /\ Sight(r).pending = x.pending
        /\ Sight(r).acknowledged = x.acknowledged /\ Sight(r).waived = x.waived
    BY <1>8, <2>3, <2>5, <2>6 DEF Sight
  <2>8. Sight(r) = x
    BY <2>3, <2>4, <2>7 DEF Sights
  <2> QED BY <2>8 DEF x
<1>28. Seen(db, u, e, Sight(r))
  <2>1. u.event[e] = r
    BY <1>10, <1>13
  <2>2. Waive(u, e) = r
    BY <1>8, <1>20, <2>1, NothingToWaive
  <2>3. Sight(Current(u, e)) = Promise!Judge(Sight(r), u.now)
    BY <1>8, <1>13, <2>1, <2>2, JudgeSight
  <2>4. ASSUME NEW f \in Events, f # e PROVE Current(u, f) = Current(db, f)
    <3>1. u.event[f] = db.event[f]
      BY <1>10, <1>13, <2>4
    <3>2. Normal(u, f) = Normal(db, f)
      BY <1>13, <3>1, NormalDepends
    <3> QED BY <3>1, <3>2 DEF Current
  <2> QED BY <1>13, <2>3, <2>4 DEF Seen
<1>29. Emitted(e, ttl)
  <2>1. Sight(Current(db, e)) = Promise!Absent
    BY <1>2, AbsentSight DEF Current
  <2>2. Seen(db, db', e, Sight(r))
    BY <1>23, <1>28 DEF Seen, Unnoticed
  <2> QED BY <1>27, <2>1, <2>2 DEF Emitted, to
<1>30. ASSUME NEW f \in Events, f # e PROVE Turns(db.event[f], db'.event[f])
  <2>1. u.event[f] = db.event[f]
    BY <1>10, <1>13, <1>30
  <2> QED BY <1>23, <2>1 DEF Upkept, Turned
<1> QED BY <1>24, <1>25, <1>26, <1>29, <1>30 DEF EventInv

\* Time passes: what has happened stays in the past.
LEMMA TickGood ==
    ASSUME EventInv, Tick
    PROVE  EventInv' /\ Undisturbed
<1>1. /\ db' = [db EXCEPT !.now = db.now + 1] /\ UNCHANGED <<handles, leases, emitted>>
  BY DEF Tick
<1>2. /\ db \in Keyspace /\ db.now \in Nat
      /\ Indexed(db) /\ Enrolled(db, handles) /\ Remembered(db, handles) /\ LeasesOk(db, leases)
      /\ \A e \in Events : Judged(db, handles, db.event[e])
  BY DEF EventInv, Good, Sound, Keyspace
<1>3. /\ db' \in Keyspace /\ db'.now = db.now + 1
      /\ db'.subscriptions = db.subscriptions
      /\ db'.event = db.event /\ db'.delivery = db.delivery
      /\ db'.removed = db.removed /\ db'.retired = db.retired /\ db'.deadlines = db.deadlines
      /\ db'.archives = db.archives /\ db'.archiveDeadlines = db.archiveDeadlines
  <2> DEFINE later == db.now + 1
  <2>1. later \in Nat /\ db' = [db EXCEPT !.now = later] /\ db \in Keyspace
    BY <1>1, <1>2
  <2>2. later = db.now + 1
    OBVIOUS
  <2> HIDE DEF later
  <2>3. db' \in Keyspace /\ db'.now = later
    BY <2>1, Zenon DEF Keyspace
  <2> QED BY <2>1, <2>2, <2>3, Zenon DEF Keyspace
<1>4. Indexed(db') /\ LeasesOk(db', leases)
  BY <1>2, <1>3, SameIndices
<1>5. \A g : Joined(db', handles, g) <=> Joined(db, handles, g)
  BY <1>3 DEF Joined
<1>6. Enrolled(db', handles)
  <2>1. \A g \in Gens : db.removed[g] \in Score
    BY <1>2 DEF Keyspace
  <2> QED BY <1>2, <1>3, <1>5, <2>1 DEF Enrolled, Score
<1>7. Remembered(db', handles)
  BY <1>2, <1>3, <1>5 DEF Remembered
<1>8. ASSUME NEW e \in Events PROVE Judged(db', handles, db'.event[e])
  <2> DEFINE r == db.event[e]
  <2>1. Judged(db, handles, r) /\ r.resolvedAt \in Nat /\ r.expiresAt \in Score
    BY <1>2, EventType DEF Event
  <2> HIDE DEF r
  <2>2. Judged(db', handles, r)
    BY <1>2, <1>3, <2>1 DEF Judged, Score
  <2> QED BY <1>3, <2>2 DEF r
<1>9. Good(db', handles', leases')
  BY <1>1, <1>3, <1>4, <1>6, <1>7, <1>8 DEF Good, Sound
<1> QED BY <1>1, <1>3, <1>9, SameRecordsUndisturbed DEF EventInv

\* maintain.
LEMMA MaintainGood ==
    ASSUME EventInv, Maintain
    PROVE  EventInv' /\ Undisturbed /\ Unnoticed(db, db') /\ Nothing
<1>1. db' \in Swept(db) /\ UNCHANGED <<handles, leases, emitted>>
  BY DEF Maintain
<1>2. Good(db, handles, leases) /\ handles \in Seq([name : Names, left : Score])
  BY DEF EventInv
<1>3. Good(db', handles, leases) /\ Turned(db, db') /\ Unnoticed(db, db')
  BY <1>1, <1>2, SweptGood, Zenon
<1> QED BY <1>1, <1>3, TurnedKeeps DEF Nothing

\* get, and the refusals.
LEMMA GetGood ==
    ASSUME EventInv, NEW e \in Events, Get(e)
    PROVE  EventInv' /\ Undisturbed /\ Unnoticed(db, db') /\ Nothing
<1> DEFINE E == {e}
<1>1. db' = Normalize(db, E) /\ UNCHANGED <<handles, leases, emitted>> /\ E \in SUBSET Events
  BY DEF Get
<1>2. Good(db, handles, leases) /\ handles \in Seq([name : Names, left : Score])
  BY DEF EventInv
<1> HIDE DEF E
<1>3. Good(db', handles, leases) /\ Upkept(db, db') /\ Unnoticed(db, db')
  BY <1>1, <1>2, NormalizeKeeps, Zenon
<1> QED BY <1>1, <1>3, TurnedKeeps DEF Upkept, Nothing

-----------------------------------------------------------------------------
(* The theorems. *)

\* At the beginning there is nothing.
LEMMA InitGood == Init => EventInv
<1> SUFFICES ASSUME Init PROVE EventInv
  OBVIOUS
<1>1. /\ db = EmptyKeyspace /\ handles = <<>> /\ leases = <<>> /\ emitted = {}
  BY DEF Init
<1>2. /\ NoEvent \in Event /\ NoEvent.status = "absent"
      /\ \A g \in Gens : NoEvent.recipients[g].status = "none"
                         /\ NoEvent.recipients[g].until = Out
  BY NoEventType
<1>3. /\ db.now = 0 /\ db.subscriptions = [n \in Names |-> 0]
      /\ db.removed = [g \in Gens |-> Out] /\ db.retired = [g \in Gens |-> Out]
      /\ db.event = [e \in Events |-> NoEvent]
      /\ db.delivery = [g \in Gens |-> [e \in Events |-> Out]]
      /\ db.deadlines = [e \in Events |-> Out] /\ db.archives = [e \in Events |-> Out]
      /\ db.archiveDeadlines = [e \in Events |-> Out]
  BY <1>1 DEF EmptyKeyspace
<1>4. db \in Keyspace
  <2>1. 0 \in 0..MaxGen /\ Out \in Score
    BY BoundsAssumption DEF Score
  <2>2. [g \in Gens |-> [e \in Events |-> Out]] \in [Gens -> [Events -> Score]]
    BY <2>1
  <2>3. /\ [n \in Names |-> 0] \in [Names -> 0..MaxGen]
        /\ [g \in Gens |-> Out] \in [Gens -> Score]
        /\ [e \in Events |-> NoEvent] \in [Events -> Event]
        /\ [e \in Events |-> Out] \in [Events -> Score]
    BY <1>2, <2>1
  <2> HIDE DEF Out
  <2> QED BY <1>1, <2>2, <2>3 DEF EmptyKeyspace, Keyspace
<1>5. \A e \in Events : db.event[e] = NoEvent
  BY <1>3
<1>6. DOMAIN handles = {} /\ handles \in Seq([name : Names, left : Score])
      /\ leases \in Seq(Events \X Gens)
  BY <1>1
<1>7. \A e \in Events, g \in Gens : ~Owing(db.event[e], g)
  BY <1>2, <1>5 DEF Owing
<1>8. Indexed(db)
  BY <1>2, <1>3, <1>7 DEF Indexed, Settled
<1>9. Enrolled(db, handles) /\ Remembered(db, handles)
  BY <1>3, <1>6, <1>7 DEF Enrolled, Remembered
<1>10. \A e \in Events : Judged(db, handles, db.event[e])
  BY <1>2, <1>5 DEF Judged, Told, Addressed, Filed, Settled
<1>11. LeasesOk(db, leases)
  BY <1>2, <1>5 DEF LeasesOk, LeaseOk
<1> QED BY <1>1, <1>2, <1>4, <1>5, <1>6, <1>8, <1>9, <1>10, <1>11 DEF EventInv, Good, Sound

\* Every step keeps the invariant and disturbs no lease that still runs.
LEMMA EventStep ==
    ASSUME EventInv, [Next]_vars
    PROVE  EventInv' /\ Undisturbed
<1>1. CASE Maintain
  BY <1>1, MaintainGood
<1>2. CASE Client
  <2>1. CASE \E n \in Names : Subscribe(n)
    BY <2>1, SubscribeGood
  <2>2. CASE \E e \in Events : Get(e)
    BY <2>2, GetGood
  <2>3. CASE \E e \in Events : \E ttl \in Lifetimes : Emit(e, ttl)
    BY <2>3, EmitGood
  <2>4. CASE \E g \in DOMAIN handles : Unsubscribe(g)
    BY <2>4, UnsubscribeGood
  <2>5. CASE \E g \in DOMAIN handles : \E t \in LeaseTimes : Take(g, t)
    BY <2>5, TakeGood
  <2> QED BY <1>2, <2>1, <2>2, <2>3, <2>4, <2>5 DEF Client
<1>3. CASE \E k \in DOMAIN leases : Consumer(k)
  <2> SUFFICES ASSUME NEW k \in DOMAIN leases, Consumer(k)
               PROVE  EventInv' /\ Undisturbed
    BY <1>3
  <2>1. CASE Acknowledge(k)
    BY <2>1, AcknowledgeGood
  <2>2. CASE \E t \in LeaseTimes : Renew(k, t)
    BY <2>2, RenewGood
  <2>3. CASE \E d \in Delays : Release(k, d)
    BY <2>3, ReleaseGood
  <2> QED BY <2>1, <2>2, <2>3 DEF Consumer
<1>4. CASE Tick
  BY <1>4, TickGood
<1>5. CASE UNCHANGED vars
  <2>1. UNCHANGED <<db, handles, leases, emitted>>
    BY <1>5 DEF vars
  <2>2. Good(db', handles', leases') <=> Good(db, handles, leases)
    BY <2>1
  <2>3. EventInv'
    BY <2>1, <2>2 DEF EventInv
  <2> QED BY <2>1, <2>3, SameRecordsUndisturbed
<1> QED BY <1>1, <1>2, <1>3, <1>4, <1>5 DEF Next

\* The invariant holds in every state, whatever is done late or in pieces.
THEOREM EventInvariant == Spec => []EventInv
<1>1. Init => EventInv
  BY InitGood
<1>2. EventInv /\ [Next]_vars => EventInv'
  BY EventStep
<1> QED BY <1>1, <1>2, PTL DEF Spec

\* The invariant says all that EventsSound says.
LEMMA EventInvSound == EventInv => EventsSound
<1> SUFFICES ASSUME EventInv PROVE EventsSound
  OBVIOUS
<1>1. /\ db \in Keyspace /\ Indexed(db) /\ Enrolled(db, handles) /\ Remembered(db, handles)
      /\ \A e \in Events : Judged(db, handles, db.event[e])
  BY DEF EventInv, Good, Sound
<1>2. TypeOK
  BY <1>1 DEF EventInv, TypeOK
<1>3. IndicesAgree
  BY <1>1 DEF Indexed, IndicesAgree, Owing, Pending
<1>4. RemovalRemembered
  <2> SUFFICES ASSUME NEW e \in Events, NEW g \in Gens, db.event[e].status = "active",
                      g \in Pending(db.event[e]), ~Registered(db, g)
               PROVE  db.retired[g] # Out /\ db.removed[g] = handles[g].left
    BY DEF RemovalRemembered
  <2>1. Owing(db.event[e], g)
    BY DEF Pending, Owing
  <2>2. ~Joined(db, handles, g)
    BY DEF Joined, Registered
  <2> QED BY <1>1, <2>1, <2>2 DEF Remembered
<1>5. VerdictOnTime
  <2> SUFFICES ASSUME NEW e \in Events
               PROVE  LET r == db.event[e]
                          to == Addressed(r)
                      IN /\ r.status = "completed" =>
                               /\ Pending(r) = {}
                               /\ to # {} => InTime(r, r.settledAt)
                               /\ \A g \in to : r.recipients[g].status = "waived" =>
                                                   Excused(handles, r, g)
                         /\ r.status = "expired" =>
                               /\ r.settledAt = r.expiresAt
                               /\ \E g \in Pending(r) : ~Excused(handles, r, g)
    BY DEF VerdictOnTime, Addressed, InTime, Excused
  <2> QED BY <1>1 DEF Judged, Told
<1> QED BY <1>2, <1>3, <1>4, <1>5 DEF EventsSound

\* The indices agree with the records, no removal is forgotten while an event
\* still waits for it, and every verdict is the one of the deadline (EventsSound):
\* what settle, purge, waive and the sweeps of maintain write piece by piece.
THEOREM EventsAreSound == Spec => []EventsSound
<1>1. EventInv => EventsSound
  BY EventInvSound
<1> QED BY <1>1, EventInvariant, PTL

\* A delivery that can be acknowledged is in the hands of one worker (LeaseFenced).
THEOREM LeasesAreFenced == Spec => []LeaseFenced
<1>1. EventInv => LeaseFenced
  BY DEF EventInv, Good, Sound, LeasesOk, LeaseOk, LeaseFenced
<1> QED BY <1>1, EventInvariant, PTL

\* No step takes the delivery of a lease that still runs away (LiveLeaseKept).
THEOREM LiveLeasesAreKept == Spec => LiveLeaseKept
<1>1. EventInv /\ [Next]_vars =>
         [\A e \in Events, g \in Gens :
            LET r == db.event[e].recipients[g]
                q == db'.event[e].recipients[g]
            IN r.until # Out /\ r.until > db.now /\ q.status = "pending"
                   => q.token \in {r.token, 0}]_vars
  BY EventStep DEF Undisturbed
<1> QED BY <1>1, EventInvariant, PTL DEF Spec, LiveLeaseKept

-----------------------------------------------------------------------------
(* The refinement: every step is one that EventBroadcast allows, seen through *)
(* View, or cannot be told from none.                                         *)

\* View is what a record says once it is up to date, before a step and after it.
LEMMA ViewSight ==
    /\ \A e : View(e) = Sight(Current(db, e))
    /\ \A e : View(e)' = Sight(Current(db', e))
<1>1. \A e : View(e) = Sight(Current(db, e))
  BY DEF View, Sight, Having, Current
<1>2. \A e : View(e)' = Sight(Current(db', e))
  BY DEF View, Sight, Having, Current
<1> QED BY <1>1, <1>2

\* A step that nobody can tell from none leaves the promise where it was.
LEMMA UnnoticedStutters ==
    ASSUME Unnoticed(db, db'), UNCHANGED handles
    PROVE  UNCHANGED Promise!vars
<1>1. \A g \in Gens : Registered(db, g)' <=> Registered(db, g)
  BY DEF Unnoticed, Registered
<1>2. \A e \in Events : View(e)' = View(e)
  BY ViewSight DEF Unnoticed
<1>3. db'.now = db.now
  BY DEF Unnoticed
<1>4. {g \in Gens : Registered(db, g)}' = {g \in Gens : Registered(db, g)}
  BY <1>1
<1>5. [e \in Events |-> View(e)]' = [e \in Events |-> View(e)]
  BY <1>2
<1> QED BY <1>3, <1>4, <1>5 DEF Promise!vars

\* What changes one event, and no subscription, changes one event of the promise.
LEMMA SeenPromised ==
    ASSUME NEW e \in Events, NEW x, Seen(db, db', e, x), UNCHANGED handles
    PROVE  /\ UNCHANGED <<db.now, {g \in Gens : Registered(db, g)}>>
           /\ [f \in Events |-> View(f)]' =
                 [[f \in Events |-> View(f)] EXCEPT ![e] = Promise!Judge(x, db.now)]
<1>1. \A g \in Gens : Registered(db, g)' <=> Registered(db, g)
  BY DEF Seen, Registered
<1>2. {g \in Gens : Registered(db, g)}' = {g \in Gens : Registered(db, g)}
  BY <1>1
<1>3. \A f \in Events : View(f)' = IF f = e THEN Promise!Judge(x, db.now) ELSE View(f)
  BY ViewSight DEF Seen
<1>4. [f \in Events |-> View(f)]' =
         [[f \in Events |-> View(f)] EXCEPT ![e] = Promise!Judge(x, db.now)]
  BY <1>3, Zenon
<1> QED BY <1>2, <1>4 DEF Seen

\* Initially nothing is promised.
LEMMA InitPromised == Init => Promise!Init
<1> SUFFICES ASSUME Init PROVE Promise!Init
  OBVIOUS
<1>1. db = EmptyKeyspace /\ handles = <<>>
  BY DEF Init
<1>2. db.now = 0 /\ \A e \in Events : db.event[e] = NoEvent
  BY <1>1 DEF EmptyKeyspace
<1>3. {g \in Gens : Registered(db, g)} = {}
  BY <1>1 DEF Registered
<1>4. \A e \in Events : View(e) = Promise!Absent
  BY <1>2, ViewSight, NoEventType, AbsentSight DEF Current
<1> QED BY <1>2, <1>3, <1>4 DEF Promise!Init

\* subscribe adds a member and changes no event.
LEMMA SubscribePromised ==
    ASSUME EventInv, NEW name \in Names, Subscribe(name)
    PROVE  \E g \in Gens : Promise!Subscribe(g)
<1> DEFINE S == [name : Names, left : Score]
           new == [name |-> name, left |-> Out]
<1>0. Len(handles) + 1 \in Gens
  BY DEF Subscribe
<1> PICK g \in Gens : g = Len(handles) + 1
  BY <1>0
<1>1. /\ db.subscriptions[name] = 0
      /\ db' = [db EXCEPT !.subscriptions[name] = g]
      /\ handles' = Append(handles, new)
  BY DEF Subscribe
<1>2. handles \in Seq(S) /\ db \in Keyspace
  BY DEF EventInv, Good, Sound
<1>3. new \in S /\ new.name = name
  BY DEF Score
<1> HIDE DEF S, new
<1>4. /\ DOMAIN handles = 1..Len(handles) /\ Len(handles) \in Nat
      /\ DOMAIN handles' = 1..g /\ handles'[g] = new
      /\ \A h \in DOMAIN handles : handles'[h] = handles[h] /\ handles[h] \in S
  BY <1>1, <1>2, <1>3
<1>5. /\ db'.now = db.now /\ db'.event = db.event /\ db'.removed = db.removed
      /\ db'.subscriptions[name] = g
      /\ \A m \in Names : m # name => db'.subscriptions[m] = db.subscriptions[m]
  BY <1>1, <1>2 DEF Keyspace
<1>6. \A h \in DOMAIN handles : h # g /\ h # 0 /\ h \in DOMAIN handles'
  BY <1>4
<1>7. g \notin DOMAIN handles /\ g \in DOMAIN handles' /\ DOMAIN handles' = DOMAIN handles \cup {g}
  BY <1>4
<1>8. \A h \in DOMAIN handles : Registered(db, h)' <=> Registered(db, h)
  BY <1>1, <1>4, <1>5, <1>6 DEF Registered, S
<1>9. Registered(db, g)'
  BY <1>3, <1>4, <1>5, <1>7 DEF Registered
<1>10. \A h \in Gens : Registered(db, h)' <=> Registered(db, h) \/ h = g
  BY <1>7, <1>8, <1>9 DEF Registered
<1>11. {h \in Gens : Registered(db, h)}' = {h \in Gens : Registered(db, h)} \cup {g}
  BY <1>1, <1>10
<1>12. \A e \in Events : Current(db', e) = Current(db, e)
  BY <1>5 DEF Current, Normal, Waive, Waivers, Settle
<1>13. [e \in Events |-> View(e)]' = [e \in Events |-> View(e)]
  BY <1>12, ViewSight
<1>14. Promise!Subscribe(g)
  BY <1>5, <1>11, <1>13 DEF Promise!Subscribe
<1> QED BY <1>14

\* unsubscribe waives what is owed, at once and everywhere.
LEMMA UnsubscribePromised ==
    ASSUME EventInv, NEW g \in DOMAIN handles, Unsubscribe(g)
    PROVE  \E h \in Gens : Promise!Unsubscribe(h)
<1>1. Departed(g)
  BY UnsubscribeGood
<1>2. g \in Gens /\ Registered(db, g) /\ db'.now = db.now
  BY <1>1 DEF Departed
<1>3. {h \in Gens : Registered(db, h)}' = {h \in Gens : Registered(db, h)} \ {g}
  BY <1>1, <1>2 DEF Departed
<1>4. \A e \in Events :
         View(e)' = IF g \in View(e).pending /\ View(e).status = "active"
                    THEN Promise!Judge(Promise!Waived(View(e), g), db.now) ELSE View(e)
  BY <1>1, ViewSight DEF Departed
<1>5. Promise!Unsubscribe(g)
  BY <1>2, <1>3, <1>4, Zenon DEF Promise!Unsubscribe, Promise!Waived
<1> QED BY <1>2, <1>5

\* emit owes the event to the members of the moment.
LEMMA EmitPromised ==
    ASSUME EventInv, NEW e \in Events, NEW ttl \in Lifetimes, Emit(e, ttl)
    PROVE  Promise!Emit(e, ttl)
<1> DEFINE to == {g \in Gens : Registered(db, g)}
           x == Owed(to, ttl)
<1>1. Emitted(e, ttl) /\ UNCHANGED handles
  BY EmitGood, Zenon DEF Emit
<1>2. View(e) = Promise!Absent /\ Seen(db, db', e, x)
  BY <1>1, ViewSight DEF Emitted
<1>3. x = [Promise!Absent EXCEPT !.status = "active", !.pending = to,
                                 !.expiresAt = Promise!After(db.now, ttl)]
  BY SameTimes, Zenon DEF Owed
<1> HIDE DEF x
<1>4. /\ UNCHANGED <<db.now, {g \in Gens : Registered(db, g)}>>
      /\ [f \in Events |-> View(f)]' =
            [[f \in Events |-> View(f)] EXCEPT ![e] = Promise!Judge(x, db.now)]
  BY <1>1, <1>2, SeenPromised
<1> QED BY <1>2, <1>3, <1>4 DEF Promise!Emit

\* acknowledge resolves one obligation of somebody who is still a member.
LEMMA AcknowledgePromised ==
    ASSUME EventInv, NEW k \in DOMAIN leases, Acknowledge(k)
    PROVE  \E e \in Events, g \in Gens : Promise!Acknowledge(e, g)
<1> DEFINE e == leases[k][1]
           g == leases[k][2]
           x == Promise!Acknowledged(Sight(Current(db, e)), g)
<1>1. Answered(e, g) /\ UNCHANGED handles
  BY AcknowledgeGood, Zenon DEF Acknowledge
<1> HIDE DEF e, g
<1>2. /\ e \in Events /\ g \in Gens /\ Registered(db, g)
      /\ View(e).status = "active" /\ g \in View(e).pending
      /\ Seen(db, db', e, x) /\ x = Promise!Acknowledged(View(e), g)
  BY <1>1, ViewSight DEF Answered
<1> HIDE DEF x
<1>3. /\ UNCHANGED <<db.now, {h \in Gens : Registered(db, h)}>>
      /\ [f \in Events |-> View(f)]' =
            [[f \in Events |-> View(f)] EXCEPT ![e] = Promise!Judge(x, db.now)]
  BY <1>1, <1>2, SeenPromised
<1>4. g \in View(e).pending \cap {h \in Gens : Registered(db, h)}
  BY <1>2
<1>5. [f \in Events |-> View(f)][e] = View(e)
  BY <1>2
<1>6. Promise!Acknowledge(e, g)
  BY <1>2, <1>3, <1>4, <1>5 DEF Promise!Acknowledge, Promise!Acknowledged
<1> QED BY <1>2, <1>6

\* Time meets every deadline of the promise, whether or not a sweep has looked.
LEMMA TickPromised ==
    ASSUME EventInv, Tick
    PROVE  Promise!Tick
<1>1. /\ db' = [db EXCEPT !.now = @ + 1] /\ UNCHANGED handles
      /\ db \in Keyspace /\ Enrolled(db, handles)
      /\ \A e \in Events : Judged(db, handles, db.event[e])
  BY DEF Tick, EventInv, Good, Sound
<1>2. db' \in Keyspace
  BY TickGood DEF EventInv, Good, Sound
<1>3. /\ db'.now = db.now + 1 /\ db'.event = db.event /\ db'.removed = db.removed
      /\ db'.subscriptions = db.subscriptions
  BY <1>1 DEF Keyspace
<1>4. \A e \in Events : Sight(Current(db', e)) = Promise!Judge(Sight(Current(db, e)), db.now + 1)
  BY <1>1, <1>2, <1>3, TickSight, Zenon
<1>5. \A e \in Events : View(e)' = Promise!Judge(View(e), db.now + 1)
  BY <1>4, ViewSight
<1>6. \A g \in Gens : Registered(db, g)' <=> Registered(db, g)
  BY <1>1, <1>3 DEF Registered
<1>7. {g \in Gens : Registered(db, g)}' = {g \in Gens : Registered(db, g)}
  BY <1>6
<1>8. [e \in Events |-> View(e)]' = [e \in Events |-> Promise!Judge(View(e), db.now + 1)]
  BY <1>5
<1> QED BY <1>3, <1>7, <1>8 DEF Promise!Tick

\* Every step is a step of the promise or cannot be seen.
LEMMA PromiseStep ==
    ASSUME EventInv, [Next]_vars
    PROVE  [Promise!Next]_(Promise!vars)
<1>1. CASE Maintain
  BY <1>1, MaintainGood, UnnoticedStutters DEF Maintain
<1>2. CASE Client
  <2>1. ASSUME NEW n \in Names, Subscribe(n) PROVE Promise!Next
    BY <2>1, SubscribePromised DEF Promise!Next
  <2>2. ASSUME NEW e \in Events, Get(e) PROVE UNCHANGED Promise!vars
    BY <2>2, GetGood, UnnoticedStutters DEF Get
  <2>3. ASSUME NEW e \in Events, NEW ttl \in Lifetimes, Emit(e, ttl) PROVE Promise!Next
    BY <2>3, EmitPromised DEF Promise!Next
  <2>4. ASSUME NEW g \in DOMAIN handles, Unsubscribe(g) PROVE Promise!Next
    BY <2>4, UnsubscribePromised DEF Promise!Next
  <2>5. ASSUME NEW g \in DOMAIN handles, NEW t \in LeaseTimes, Take(g, t)
        PROVE  UNCHANGED Promise!vars
    BY <2>5, TakeGood, UnnoticedStutters, Zenon DEF Take
  <2> QED BY <1>2, <2>1, <2>2, <2>3, <2>4, <2>5 DEF Client
<1>3. ASSUME NEW k \in DOMAIN leases, Consumer(k)
      PROVE  [Promise!Next]_(Promise!vars)
  <2>1. CASE Acknowledge(k)
    BY <2>1, AcknowledgePromised DEF Promise!Next
  <2>2. ASSUME NEW t \in LeaseTimes, Renew(k, t) PROVE UNCHANGED Promise!vars
    BY <2>2, RenewGood, UnnoticedStutters, Zenon DEF Renew
  <2>3. ASSUME NEW d \in Delays, Release(k, d) PROVE UNCHANGED Promise!vars
    BY <2>3, ReleaseGood, UnnoticedStutters, Zenon DEF Release
  <2> QED BY <1>3, <2>1, <2>2, <2>3 DEF Consumer
<1>4. CASE Tick
  BY <1>4, TickPromised DEF Promise!Next
<1>5. CASE UNCHANGED vars
  <2>1. UNCHANGED <<db, handles>>
    BY <1>5 DEF vars
  <2>2. Unnoticed(db, db')
    BY <2>1 DEF Unnoticed
  <2> QED BY <2>1, <2>2, UnnoticedStutters
<1> QED BY <1>1, <1>2, <1>3, <1>4, <1>5 DEF Next

\* The lazy engine implements the punctual promise (KeepsPromise): whatever it
\* does late, in bounded sweeps and one event at a time, what get would answer at
\* any moment is what EventBroadcast promises.
THEOREM PromiseIsKept == Spec => KeepsPromise
<1>1. Init => Promise!Init
  BY InitPromised
<1>2. EventInv /\ [Next]_vars => [Promise!Next]_(Promise!vars)
  BY PromiseStep
<1> QED BY <1>1, <1>2, EventInvariant, PTL DEF Spec, KeepsPromise, Promise!Spec

-----------------------------------------------------------------------------
(* Consumers: what processOne knows, and what the engine holds for it.        *)

Busy == {"handling", "releasing", "acknowledging"}

\* Everything that is counted stays within its bounds, and whatever is presented
\* to the engine was given out.
Counts ==
    /\ Len(leases) <= MaxLeases /\ Len(handles) <= MaxGen
    /\ faults \in Nat /\ wire \subseteq DOMAIN leases
    /\ \A k \in DOMAIN leases : leases[k][1] \in emitted /\ leases[k][2] \in DOMAIN handles

\* What was said of the delivery with token k is so.
TruthAt(k) ==
    LET r == Leaseholder(k)
    IN /\ outcome[k] = "true" =>
             \/ db.event[leases[k][1]].status = "absent"
             \/ r.status = "acknowledged" /\ r.token = k
       /\ r.status = "acknowledged" /\ r.token = k => outcome[k] \in {"true", "indeterminate"}
       /\ outcome[k] = "released" => r.token # k

Once ==
    \A k, n \in DOMAIN leases :
        k # n /\ leases[k] = leases[n] /\ outcome[k] = "true" => outcome[n] # "true"

History ==
    /\ outcome \in Seq(Outcomes) /\ Len(outcome) = Len(leases)
    /\ \A k \in DOMAIN leases : TruthAt(k)
    /\ Once

\* A call that is busy has a delivery of its subscription to itself.
CallOk(c) ==
    LET k == call[c].k
    IN /\ call[c].phase \in Busy =>
             /\ k \in DOMAIN leases /\ leases[k][2] = call[c].g
             /\ outcome[k] = IF call[c].phase = "acknowledging" THEN "handled" ELSE "running"
       /\ call[c].phase \notin Busy => k = 0
       /\ call[c].phase = "taking" => call[c].g \in DOMAIN handles

Calls ==
    /\ call \in [Consumers -> Call]
    /\ \A c \in Consumers : CallOk(c)
    /\ \A c, d \in Consumers : c # d /\ call[c].k = call[d].k => call[c].k = 0

\* As long as nothing has failed, a handler whose delivery is owed has the lease,
\* and renews it before it ends, unless the deadline comes first.
BeatOk(c) ==
    LET k == call[c].k
        e == leases[k][1]
    IN Handling(c) /\ faults = 0 =>
          /\ call[c].beat = Out => k \in wire
          /\ Alive(e, call[c].g) =>
                /\ RunsOn(k)
                /\ call[c].beat # Out => \/ call[c].beat < Leaseholder(k).until
                                         \/ Leaseholder(k).until = db.event[e].expiresAt

ConsumersOk == Counts /\ History /\ Calls /\ \A c \in Consumers : BeatOk(c)

\* The phases of a busy call are phases of a call.
LEMMA BusyPhases ==
    \A c : (Handling(c) => call[c].phase \in Busy)
           /\ (In(c, "releasing") => call[c].phase \in Busy)
           /\ (In(c, "acknowledging") => call[c].phase \in Busy)
BY DEF Busy, Handling, In

\* Tokens are places in the sequence of deliveries.
LEMMA Tokens ==
    ASSUME EventInv, NEW k \in DOMAIN leases
    PROVE  /\ k \in Nat /\ k # 0 /\ k <= Len(leases) /\ Len(leases) \in Nat
           /\ leases[k] \in Events \X Gens /\ leases[k][1] \in Events /\ leases[k][2] \in Gens
<1>1. leases \in Seq(Events \X Gens)
  BY DEF EventInv
<1>2. leases[k] \in Events \X Gens
  BY <1>1
<1>3. /\ k \in 1..Len(leases) /\ Len(leases) \in Nat
  BY <1>1
<1> QED BY <1>2, <1>3

\* What was said of a delivery stays true while it is treated faithfully, and
\* nothing more is said of it that could be wrong.
LEMMA TruthKept ==
    ASSUME EventInv, NEW k \in DOMAIN leases, TruthAt(k), leases'[k] = leases[k],
           Faithful(db.event[leases[k][1]], db'.event[leases[k][1]], leases[k][2]),
           \/ outcome'[k] = outcome[k]
           \/ /\ outcome[k] \in {"running", "handled"}
              /\ outcome'[k] # "true"
              /\ outcome'[k] = "released" => Leaseholder(k)'.token # k
    PROVE  TruthAt(k)'
<1> DEFINE e == leases[k][1]
           g == leases[k][2]
<1>1. k # 0
  BY Tokens
<1>2. Faithful(db.event[e], db'.event[e], g)
  OBVIOUS
<1>3. /\ Leaseholder(k) = db.event[e].recipients[g]
      /\ Leaseholder(k)' = db'.event[e].recipients[g]
  BY DEF Leaseholder
<1>4. TruthAt(k)' = LET r == Leaseholder(k)'
                    IN /\ outcome'[k] = "true" =>
                             \/ db'.event[e].status = "absent"
                             \/ r.status = "acknowledged" /\ r.token = k
                       /\ r.status = "acknowledged" /\ r.token = k =>
                             outcome'[k] \in {"true", "indeterminate"}
                       /\ outcome'[k] = "released" => r.token # k
  BY DEF TruthAt
<1> HIDE DEF e, g
<1>5. CASE outcome'[k] = outcome[k]
  BY <1>1, <1>2, <1>3, <1>4, <1>5, Zenon DEF TruthAt, Faithful, e
<1>6. CASE /\ outcome[k] \in {"running", "handled"}
           /\ outcome'[k] # "true"
           /\ outcome'[k] = "released" => Leaseholder(k)'.token # k
  BY <1>1, <1>2, <1>3, <1>4, <1>6, Zenon DEF TruthAt, Faithful
<1> QED BY <1>5, <1>6

\* The same for all of them.
LEMMA HistoryKept ==
    ASSUME EventInv, History, leases' = leases,
           \A k \in DOMAIN leases :
               Faithful(db.event[leases[k][1]], db'.event[leases[k][1]], leases[k][2]),
           outcome' \in Seq(Outcomes), Len(outcome') = Len(outcome),
           \A k \in DOMAIN leases :
               \/ outcome'[k] = outcome[k]
               \/ /\ outcome[k] \in {"running", "handled"}
                  /\ outcome'[k] # "true"
                  /\ outcome'[k] = "released" => Leaseholder(k)'.token # k
    PROVE  History'
<1>1. ASSUME NEW k \in DOMAIN leases PROVE TruthAt(k)'
  <2>1. TruthAt(k)
    BY DEF History
  <2> QED BY <2>1, TruthKept
<1>2. Once'
  <2>1. \A k \in DOMAIN leases : outcome'[k] = "true" => outcome[k] = "true"
    OBVIOUS
  <2> QED BY <2>1 DEF Once, History
<1> QED BY <1>1, <1>2 DEF History

\* What becomes of a call: it goes on with its delivery, or ends.
Moves(c) ==
    \/ /\ call'[c].phase \notin Busy /\ call'[c].k = 0
       /\ call'[c].phase = "taking" => call'[c].g \in DOMAIN handles
    \/ /\ call[c].phase \in Busy /\ call'[c].phase \in Busy
       /\ call'[c].k = call[c].k /\ call'[c].g = call[c].g
       /\ outcome'[call[c].k] = IF call'[c].phase = "acknowledging" THEN "handled" ELSE "running"

\* Calls that go on or end keep apart.
LEMMA CallsKept ==
    ASSUME Calls, call' \in [Consumers -> Call], DOMAIN handles \subseteq DOMAIN handles',
           \A k \in DOMAIN leases : k \in DOMAIN leases' /\ leases'[k] = leases[k],
           \A c \in Consumers : Moves(c)
    PROVE  Calls'
<1>1. ASSUME NEW c \in Consumers PROVE CallOk(c)'
  <2> DEFINE x == call[c]
             y == call'[c]
  <2>1. CallOk(c) /\ Moves(c)
    BY DEF Calls
  <2>2. CallOk(c)' =
          /\ y.phase \in Busy =>
                /\ y.k \in DOMAIN leases' /\ leases'[y.k][2] = y.g
                /\ outcome'[y.k] = IF y.phase = "acknowledging" THEN "handled" ELSE "running"
          /\ y.phase \notin Busy => y.k = 0
          /\ y.phase = "taking" => y.g \in DOMAIN handles'
    BY DEF CallOk, Busy
  <2>3. CASE y.phase \notin Busy
    BY <2>1, <2>2, <2>3 DEF Moves
  <2>4. CASE y.phase \in Busy
    <3>1. /\ x.phase \in Busy /\ y.k = x.k /\ y.g = x.g
          /\ outcome'[x.k] = IF y.phase = "acknowledging" THEN "handled" ELSE "running"
      BY <2>1, <2>4 DEF Moves
    <3>2. x.k \in DOMAIN leases /\ leases[x.k][2] = x.g
      BY <2>1, <3>1 DEF CallOk
    <3>3. x.k \in DOMAIN leases' /\ leases'[x.k][2] = y.g
      BY <3>1, <3>2
    <3>4. y.phase # "taking"
      BY <2>4 DEF Busy
    <3> HIDE DEF x, y
    <3> QED BY <2>2, <2>4, <3>1, <3>3, <3>4
  <2> QED BY <2>3, <2>4
<1>2. \A c \in Consumers : call'[c].k \in {call[c].k, 0}
  BY DEF Moves
<1>3. \A c, d \in Consumers : c # d /\ call[c].k = call[d].k => call[c].k = 0
  BY DEF Calls
<1>4. ASSUME NEW c \in Consumers, NEW d \in Consumers, c # d, call'[c].k = call'[d].k
      PROVE  call'[c].k = 0
  BY <1>2, <1>3, <1>4
<1> QED BY <1>1, <1>4 DEF Calls

\* A call that is let alone, with its outcome, has not moved out of place.
LEMMA UntouchedMoves ==
    ASSUME Calls, NEW c \in Consumers, call'[c] = call[c],
           call[c].phase \in Busy => outcome'[call[c].k] = outcome[call[c].k]
    PROVE  Moves(c)
BY DEF Moves, Calls, CallOk

\* Nor has one that has ended.
LEMMA IdleMoves ==
    ASSUME NEW c \in Consumers, call'[c] = Idle
    PROVE  Moves(c)
BY DEF Moves, Idle, Busy

\* A delivery that is spared, and still owed to a subscription that is there, has
\* not been waived: it is as it was.
LEMMA AliveBefore ==
    ASSUME EventInv, EventInv', db'.now = db.now, NEW e \in Events, NEW g \in Gens,
           Registered(db, g)' => Registered(db, g),
           Spared(db.event[e], db'.event[e], g), Alive(e, g)'
    PROVE  /\ Alive(e, g) /\ db'.event[e].recipients[g] = db.event[e].recipients[g]
           /\ db'.event[e].expiresAt = db.event[e].expiresAt
<1> DEFINE r == db.event[e]
           q == db'.event[e]
<1>1. /\ q.status = "active" /\ InTime(q, db'.now) /\ Registered(db, g)'
  BY DEF Alive
<1>2. /\ r.status = "active" /\ q.expiresAt = r.expiresAt
      /\ q.recipients[g] = r.recipients[g] \/ q.recipients[g].status = "waived"
  BY <1>1 DEF Spared
<1>3. q.recipients[g].status # "waived"
  <2> SUFFICES ASSUME q.recipients[g].status = "waived" PROVE FALSE
    OBVIOUS
  <2>1. /\ Judged(db', handles', q) /\ Enrolled(db', handles')
    BY DEF EventInv, Good, Sound
  <2>2. g \in Addressed(q)
    BY DEF Addressed
  <2>3. Excused(handles', q, g)
    BY <2>1, <2>2 DEF Judged, Told
  <2>4. Joined(db', handles', g) /\ g \in DOMAIN handles'
    BY <1>1 DEF Registered, Joined
  <2>5. handles'[g].left = Out
    BY <2>1, <2>4 DEF Enrolled
  <2> QED BY <2>3, <2>5 DEF Excused
<1>4. Alive(e, g)
  BY <1>1, <1>2 DEF Alive, InTime
<1> QED BY <1>2, <1>3, <1>4

\* A handler that goes on with its delivery, or has just asked for a renewal.
GoesOn(c) ==
    /\ Handling(c) /\ call'[c].k = call[c].k /\ call'[c].g = call[c].g
    /\ \/ call'[c].beat = call[c].beat /\ (call[c].k \in wire => call[c].k \in wire')
       \/ call'[c].beat = Out /\ call[c].k \in wire'

\* A handler whose delivery is spared keeps its lease.
LEMMA BeatKept ==
    ASSUME EventInv, EventInv', Calls, NEW c \in Consumers, BeatOk(c),
           db'.now = db.now, Registered(db, call[c].g)' => Registered(db, call[c].g),
           leases'[call[c].k] = leases[call[c].k], faults' = 0 => faults = 0,
           Handling(c)' => /\ GoesOn(c)
                           /\ faults = 0 => Spared(db.event[leases[call[c].k][1]],
                                                   db'.event[leases[call[c].k][1]], call[c].g)
    PROVE  BeatOk(c)'
<1> SUFFICES ASSUME Handling(c)', faults' = 0 PROVE BeatOk(c)'
  BY Zenon DEF BeatOk
<1>0. PICK k, e, g : k = call[c].k /\ e = leases[k][1] /\ g = call[c].g
  OBVIOUS
<1>1. /\ Handling(c) /\ call'[c].k = k /\ call'[c].g = g /\ faults = 0
      /\ Spared(db.event[e], db'.event[e], g)
  BY <1>0 DEF GoesOn
<1>2. k \in DOMAIN leases /\ leases[k][2] = g
  BY <1>0, <1>1, BusyPhases DEF Calls, CallOk
<1>3. e \in Events /\ g \in Gens
  BY <1>0, <1>2, Tokens
<1>4. /\ \/ call'[c].beat = call[c].beat /\ (k \in wire => k \in wire')
         \/ call'[c].beat = Out /\ k \in wire'
  BY <1>0 DEF GoesOn
<1>5. /\ call[c].beat = Out => k \in wire
      /\ Alive(e, g) =>
            /\ RunsOn(k)
            /\ call[c].beat # Out => \/ call[c].beat < Leaseholder(k).until
                                     \/ Leaseholder(k).until = db.event[e].expiresAt
  BY <1>0, <1>1 DEF BeatOk
<1>6. call'[c].beat = Out => k \in wire'
  BY <1>4, <1>5
<1>7. Alive(e, g)' =>
         /\ Alive(e, g) /\ db'.event[e].recipients[g] = db.event[e].recipients[g]
         /\ db'.event[e].expiresAt = db.event[e].expiresAt
  BY <1>0, <1>1, <1>3, AliveBefore, Zenon
<1>8. Leaseholder(k) = db.event[e].recipients[g] /\ Leaseholder(k)' = db'.event[e].recipients[g]
  BY <1>0, <1>2, Zenon DEF Leaseholder
<1>9. Alive(e, g)' => RunsOn(k)'
  BY <1>5, <1>7, <1>8 DEF RunsOn
<1>10. Alive(e, g)' /\ call'[c].beat # Out =>
          \/ call'[c].beat < Leaseholder(k)'.until
          \/ Leaseholder(k)'.until = db'.event[e].expiresAt
  BY <1>4, <1>5, <1>7, <1>8
<1>11. call'[c].k = k /\ call'[c].g = g /\ leases'[k][1] = e
  BY <1>0, <1>1
<1> QED BY <1>6, <1>9, <1>10, <1>11 DEF BeatOk

\* Once something has failed, nothing is promised of the heartbeats.
LEMMA FaultyBeats ==
    ASSUME faults' # 0
    PROVE  \A c \in Consumers : BeatOk(c)'
BY DEF BeatOk

\* Whoever handles another delivery does not handle this one: it has one lease.
LEMMA OneLease ==
    ASSUME EventInv, ConsumersOk, NEW k \in DOMAIN leases,
           Alive(leases[k][1], leases[k][2]), RunsOn(k),
           NEW c \in Consumers, Handling(c), faults = 0, call[c].k # k
    PROVE  leases[call[c].k] # leases[k]
<1> SUFFICES ASSUME leases[call[c].k] = leases[k] PROVE FALSE
  OBVIOUS
<1>1. call[c].k \in DOMAIN leases /\ leases[call[c].k][2] = call[c].g
  BY BusyPhases DEF ConsumersOk, Calls, CallOk
<1>2. Alive(leases[call[c].k][1], call[c].g)
  BY <1>1
<1>3. RunsOn(call[c].k)
  BY <1>2 DEF ConsumersOk, BeatOk
<1>4. Leaseholder(call[c].k) = Leaseholder(k)
  BY DEF Leaseholder
<1> QED BY <1>3, <1>4 DEF RunsOn

-----------------------------------------------------------------------------
(* What a step of the engine is to the consumers.                              *)

\* Every delivery that was given out is spared.
Calm ==
    /\ leases' = leases /\ db'.now = db.now
    /\ DOMAIN handles \subseteq DOMAIN handles' /\ Len(handles') <= MaxGen
    /\ emitted \subseteq emitted'
    /\ \A g \in DOMAIN handles : Registered(db, g)' => Registered(db, g)
    /\ \A k \in DOMAIN leases :
          Spared(db.event[leases[k][1]], db'.event[leases[k][1]], leases[k][2])

\* Bringing things up to date is calm.
LEMMA NothingCalm ==
    ASSUME EventInv, Counts, Nothing
    PROVE  Calm
<1>1. UNCHANGED <<handles, leases, emitted>> /\ Turned(db, db')
  BY DEF Nothing
<1>2. \A g : Registered(db, g)' <=> Registered(db, g)
  BY <1>1 DEF Registered, Turned
<1>3. ASSUME NEW k \in DOMAIN leases
      PROVE  Spared(db.event[leases[k][1]], db'.event[leases[k][1]], leases[k][2])
  <2>1. leases[k][1] \in Events /\ leases[k][2] \in Gens
    BY Tokens
  <2> QED BY <1>1, <2>1, TurnsSpare DEF Turned
<1> QED BY <1>1, <1>2, <1>3 DEF Calm, Counts, Turned

\* Nothing at all is calm.
LEMMA UnchangedCalm ==
    ASSUME EventInv, Counts, UNCHANGED vars
    PROVE  Calm
<1>1. UNCHANGED <<db, handles, leases, emitted>>
  BY DEF vars
<1>2. Nothing
  BY <1>1, TurnedReflexive DEF Nothing
<1> QED BY <1>2, NothingCalm

\* A new subscription is calm.
LEMMA SubscribeCalm ==
    ASSUME EventInv, Counts, NEW name \in Names, Subscribe(name)
    PROVE  Calm
<1> DEFINE g == Len(handles) + 1
           S == [name : Names, left : Score]
           new == [name |-> name, left |-> Out]
<1>1. /\ db.subscriptions[name] = 0 /\ g \in Gens
      /\ db' = [db EXCEPT !.subscriptions[name] = g]
      /\ handles' = Append(handles, new) /\ UNCHANGED <<leases, emitted>>
  BY DEF Subscribe
<1>2. /\ handles \in Seq(S) /\ db \in Keyspace /\ db.subscriptions \in [Names -> 0..MaxGen]
  BY DEF EventInv, Good, Sound, Keyspace
<1>3. new \in S
  BY DEF Score
<1> HIDE DEF new, S
<1>4. /\ Len(handles) \in Nat /\ DOMAIN handles = 1..Len(handles)
      /\ Len(handles') = g /\ DOMAIN handles' = 1..g
      /\ \A h \in DOMAIN handles : handles'[h] = handles[h]
  BY <1>1, <1>2, <1>3
<1>5. /\ db'.now = db.now /\ db'.event = db.event
      /\ db'.subscriptions = [db.subscriptions EXCEPT ![name] = g]
  BY <1>1, <1>2 DEF Keyspace
<1>6. ASSUME NEW h \in DOMAIN handles, Registered(db, h)' PROVE Registered(db, h)
  <2>1. /\ handles'[h] = handles[h] /\ h # g /\ h \in DOMAIN handles
    BY <1>4
  <2>2. handles[h].name \in Names
    <3>1. handles[h] \in S
      BY <1>2
    <3> QED BY <3>1 DEF S
  <2>3. db'.subscriptions[handles[h].name] = h
    BY <1>6, <2>1 DEF Registered
  <2> HIDE DEF g
  <2>4. db.subscriptions[handles[h].name] = h
    BY <1>2, <1>5, <2>1, <2>2, <2>3
  <2> QED BY <2>1, <2>4 DEF Registered
<1>7. g <= MaxGen
  BY <1>1, <1>4, BoundsAssumption DEF Gens
<1>8. \A k \in DOMAIN leases :
         Spared(db.event[leases[k][1]], db'.event[leases[k][1]], leases[k][2])
  BY <1>5, SparedReflexive
<1> QED BY <1>1, <1>4, <1>5, <1>6, <1>7, <1>8, SMTT(30) DEF Calm

\* Nor does it bother a delivery of anybody else that a subscription ends.
LEMMA UnsubscribeCalm ==
    ASSUME EventInv, Counts, NEW g \in DOMAIN handles, Unsubscribe(g)
    PROVE  Calm
<1>1. /\ Departed(g) /\ \A e \in Events : Turns(db.event[e], db'.event[e])
  BY UnsubscribeGood
<1>2. /\ handles \in Seq([name : Names, left : Score]) /\ leases' = leases /\ emitted' = emitted
      /\ handles' = [handles EXCEPT ![g].left = db.now]
  BY DEF EventInv, Unsubscribe
<1>3. DOMAIN handles' = DOMAIN handles /\ Len(handles') = Len(handles)
  BY <1>2
<1>4. ASSUME NEW h \in DOMAIN handles, Registered(db, h)' PROVE Registered(db, h)
  <2>1. h \in Gens
    <3>1. h \in 1..Len(handles) /\ Len(handles) \in Nat
      BY <1>2
    <3> QED BY <3>1, BoundsAssumption DEF Gens, Counts
  <2> QED BY <1>1, <1>4, <2>1 DEF Departed
<1>5. ASSUME NEW k \in DOMAIN leases
      PROVE  Spared(db.event[leases[k][1]], db'.event[leases[k][1]], leases[k][2])
  BY <1>1, Tokens, TurnsSpare
<1> QED BY <1>1, <1>2, <1>3, <1>4, <1>5 DEF Calm, Counts, Departed

\* An event that is emitted was never delivered before.
LEMMA EmitCalm ==
    ASSUME EventInv, Counts, NEW e \in Events, NEW ttl \in Lifetimes, Emit(e, ttl)
    PROVE  Calm
<1>1. /\ Emitted(e, ttl) /\ \A f \in Events : f # e => Turns(db.event[f], db'.event[f])
  BY EmitGood
<1>2. /\ e \notin emitted /\ emitted' = emitted \cup {e} /\ UNCHANGED <<handles, leases>>
  BY DEF Emit
<1>3. db'.now = db.now /\ db'.subscriptions = db.subscriptions
  BY <1>1 DEF Emitted, Seen
<1>4. \A g : Registered(db, g)' <=> Registered(db, g)
  BY <1>2, <1>3 DEF Registered
<1>5. ASSUME NEW k \in DOMAIN leases
      PROVE  Spared(db.event[leases[k][1]], db'.event[leases[k][1]], leases[k][2])
  <2>1. leases[k][1] # e
    BY <1>2 DEF Counts
  <2> QED BY <1>1, <2>1, Tokens, TurnsSpare
<1> QED BY <1>2, <1>3, <1>4, <1>5 DEF Calm, Counts

-----------------------------------------------------------------------------
(* What a step of a consumer is to the others.                                 *)

\* Nothing is said of a delivery that could be wrong.
Says ==
    /\ outcome' \in Seq(Outcomes) /\ Len(outcome') = Len(outcome)
    /\ \A k \in DOMAIN leases :
          \/ outcome'[k] = outcome[k]
          \/ /\ outcome[k] \in {"running", "handled"}
             /\ outcome'[k] # "true"
             /\ outcome'[k] = "released" => Leaseholder(k)'.token # k

\* The calls go on or end, and a handler that goes on does so undisturbed.
Proceed ==
    /\ call' \in [Consumers -> Call]
    /\ \A c \in Consumers : Moves(c) /\ (Handling(c)' => GoesOn(c))

\* A calm step of the engine, with calls that go on or end.
LEMMA CalmStep ==
    ASSUME EventInv, EventInv', ConsumersOk, Calm, Says, Proceed,
           wire' \subseteq DOMAIN leases, faults' \in Nat, faults' = 0 => faults = 0
    PROVE  ConsumersOk'
<1>1. Counts /\ History /\ Calls
  BY DEF ConsumersOk
<1>2. /\ leases' = leases /\ db'.now = db.now
      /\ DOMAIN handles \subseteq DOMAIN handles' /\ Len(handles') <= MaxGen
      /\ emitted \subseteq emitted'
      /\ \A k \in DOMAIN leases :
            Spared(db.event[leases[k][1]], db'.event[leases[k][1]], leases[k][2])
  BY DEF Calm
<1>3. Counts'
  BY <1>1, <1>2 DEF Counts
<1>4. History'
  <2>1. \A k \in DOMAIN leases :
           Faithful(db.event[leases[k][1]], db'.event[leases[k][1]], leases[k][2])
    BY <1>2 DEF Spared
  <2> QED BY <1>1, <1>2, <2>1, HistoryKept DEF Says
<1>5. Calls'
  BY <1>1, <1>2, CallsKept DEF Proceed
<1>6. ASSUME NEW c \in Consumers PROVE BeatOk(c)'
  <2>1. BeatOk(c)
    BY DEF ConsumersOk
  <2>2. ASSUME Handling(c)'
        PROVE  /\ GoesOn(c) /\ call[c].k \in DOMAIN leases
               /\ leases[call[c].k][2] = call[c].g
    BY <1>1, <2>2, BusyPhases DEF Proceed, GoesOn, Calls, CallOk
  <2>3. CASE ~Handling(c)'
    BY <2>3 DEF BeatOk
  <2>4. CASE Handling(c)'
    <3>1. Spared(db.event[leases[call[c].k][1]], db'.event[leases[call[c].k][1]], call[c].g)
      BY <1>2, <2>2, <2>4
    <3>2. Registered(db, call[c].g)' => Registered(db, call[c].g)
      <4>1. PICK g : g = call[c].g /\ call'[c].g = g
        BY <2>2, <2>4 DEF GoesOn
      <4>2. g \in DOMAIN handles
        BY <1>1, <2>2, <2>4, <4>1 DEF Counts
      <4>3. Registered(db, g)' => Registered(db, g)
        BY <4>2 DEF Calm
      <4> QED BY <4>1, <4>3 DEF Registered
    <3> QED BY <1>1, <1>2, <2>1, <2>2, <2>4, <3>1, <3>2, BeatKept
  <2> QED BY <2>3, <2>4
<1> QED BY <1>3, <1>4, <1>5, <1>6 DEF ConsumersOk

\* A step of one call leaves the others to go on.
LEMMA OneCall ==
    ASSUME EventInv, ConsumersOk, NEW c \in Consumers, NEW x \in Call,
           call' = [call EXCEPT ![c] = x],
           Moves(c), Handling(c)' => GoesOn(c),
           \A k \in DOMAIN leases : k # call[c].k => outcome'[k] = outcome[k],
           wire \subseteq wire'
    PROVE  Proceed
<1>1. Calls
  BY DEF ConsumersOk
<1>2. call \in [Consumers -> Call] /\ call'[c] = x
      /\ \A d \in Consumers : d # c => call'[d] = call[d]
  BY <1>1 DEF Calls
<1>3. ASSUME NEW d \in Consumers, d # c PROVE Moves(d) /\ (Handling(d)' => GoesOn(d))
  <2>1. call'[d] = call[d]
    BY <1>2, <1>3
  <2>2. call[d].phase \in Busy => outcome'[call[d].k] = outcome[call[d].k]
    <3> SUFFICES ASSUME call[d].phase \in Busy PROVE outcome'[call[d].k] = outcome[call[d].k]
      OBVIOUS
    <3>1. call[d].k \in DOMAIN leases
      BY <1>1 DEF Calls, CallOk
    <3>2. call[d].k = call[c].k => call[d].k = 0
      BY <1>1, <1>3 DEF Calls
    <3>3. call[d].k # 0
      BY <3>1, Tokens
    <3> QED BY <3>1, <3>2, <3>3
  <2>3. Moves(d)
    BY <1>1, <2>1, <2>2, UntouchedMoves
  <2>4. Handling(d)' => GoesOn(d)
    BY <2>1 DEF Handling, In, GoesOn
  <2> QED BY <2>3, <2>4
<1>4. call' \in [Consumers -> Call]
  BY <1>1 DEF Calls
<1>5. \A d \in Consumers : Moves(d) /\ (Handling(d)' => GoesOn(d))
  <2> SUFFICES ASSUME NEW d \in Consumers PROVE Moves(d) /\ (Handling(d)' => GoesOn(d))
    OBVIOUS
  <2>1. CASE d = c
    BY <2>1
  <2>2. CASE d # c
    BY <1>3, <2>2
  <2> QED BY <2>1, <2>2
<1> QED BY <1>4, <1>5 DEF Proceed

\* No call that has ended is a handler.
LEMMA IdleCall == Idle \in Call /\ Idle.phase = "idle" /\ Idle.k = 0 /\ Idle.beat = Out
BY BoundsAssumption DEF Idle, Call, Score

\* Writing one outcome leaves the others as they were.
LEMMA OneOutcome ==
    ASSUME EventInv, ConsumersOk, NEW k \in DOMAIN leases, NEW result \in Outcomes,
           outcome' = [outcome EXCEPT ![k] = result]
    PROVE  /\ outcome' \in Seq(Outcomes) /\ Len(outcome') = Len(outcome)
           /\ outcome'[k] = result
           /\ \A n \in DOMAIN leases : n # k => outcome'[n] = outcome[n]
<1>1. outcome \in Seq(Outcomes) /\ Len(outcome) = Len(leases)
  BY DEF ConsumersOk, History
<1>2. k \in DOMAIN outcome /\ DOMAIN leases = DOMAIN outcome
  BY <1>1 DEF EventInv
<1>3. Len(outcome) \in Nat /\ DOMAIN outcome = 1..Len(outcome)
  BY <1>1
<1> QED BY <1>1, <1>2, <1>3

\* Whatever a consumer asks of the engine is an operation of the engine.
LEMMA Requests ==
    ASSUME EventInv, ConsumersOk
    PROVE  /\ \A k \in DOMAIN leases :
                 (Refuses(k) \/ Renew(k, LeaseMs) \/ Release(k, RetryDelayMs) \/ Acknowledge(k))
                     => Next
           /\ \A g \in DOMAIN handles : Take(g, LeaseMs) => Next
<1>1. LeaseMs \in LeaseTimes /\ RetryDelayMs \in Delays
  BY OptionsAssumption
<1>2. ASSUME NEW k \in DOMAIN leases
      PROVE  (Refuses(k) \/ Renew(k, LeaseMs) \/ Release(k, RetryDelayMs) \/ Acknowledge(k))
                 => Next
  <2>1. leases[k][1] \in Events
    BY Tokens
  <2>2. Refuses(k) => Client
    BY <2>1 DEF Refuses, Client
  <2>3. (Renew(k, LeaseMs) \/ Release(k, RetryDelayMs) \/ Acknowledge(k)) => Consumer(k)
    BY <1>1 DEF Consumer
  <2> QED BY <2>2, <2>3 DEF Next
<1>3. ASSUME NEW g \in DOMAIN handles, Take(g, LeaseMs) PROVE Client
  BY <1>1, <1>3 DEF Client
<1> QED BY <1>2, <1>3 DEF Next

\* So that every step of the consumers is a step of the engine, or of none.
LEMMA EngineStep ==
    ASSUME EventInv, ConsumersOk, ENext
    PROVE  [Next]_vars
<1>1. \A c \in Consumers : /\ call[c].phase \in Busy => call[c].k \in DOMAIN leases
                           /\ In(c, "taking") => call[c].g \in DOMAIN handles
  BY DEF ConsumersOk, Calls, CallOk, In
<1>2. wire \subseteq DOMAIN leases
  BY DEF ConsumersOk, Counts
<1>3. ASSUME NEW c \in Consumers, Proceeds(c) PROVE [Next]_vars
  <2>1. CASE Begin(c)
    BY <2>1 DEF Begin
  <2>2. CASE Taken(c)
    BY <1>1, <2>2, Requests DEF Taken, NotSent
  <2>3. CASE Beat(c)
    BY <2>3 DEF Beat
  <2>4. CASE Released(c)
    BY <1>1, <2>4, BusyPhases, Requests DEF Released
  <2>5. CASE Acknowledged(c)
    BY <1>1, <2>5, BusyPhases, Requests DEF Acknowledged
  <2> QED BY <1>3, <2>1, <2>2, <2>3, <2>4, <2>5 DEF Proceeds
<1>4. ASSUME NEW c \in Consumers, Suffers(c) PROVE [Next]_vars
  <2>1. CASE TakeFails(c)
    BY <1>1, <2>1, Requests DEF TakeFails, NotSent
  <2>2. CASE Dies(c)
    BY <2>2 DEF Dies
  <2>3. CASE ReleaseFails(c)
    BY <1>1, <2>3, BusyPhases, Requests DEF ReleaseFails, NotSent
  <2>4. CASE AcknowledgeFails(c)
    BY <1>1, <2>4, BusyPhases, Requests DEF AcknowledgeFails, NotSent
  <2> QED BY <1>4, <2>1, <2>2, <2>3, <2>4 DEF Suffers
<1>5. ASSUME NEW c \in Consumers, NEW ok \in BOOLEAN, HandlerEnds(c, ok) PROVE [Next]_vars
  BY <1>5 DEF HandlerEnds
<1>6. ASSUME NEW k \in wire, RenewalArrives(k) \/ RenewalFails(k) PROVE [Next]_vars
  <2>1. k \in DOMAIN leases
    BY <1>2
  <2>2. CASE RenewalArrives(k)
    BY <2>1, <2>2, Requests DEF RenewalArrives, RenewalRefused
  <2>3. CASE RenewalFails(k)
    BY <2>1, <2>3, Requests DEF RenewalFails, NotSent
  <2> QED BY <1>6, <2>2, <2>3
<1>7. ASSUME Maintained \/ MaintenanceFails \/ RunMaintenance PROVE [Next]_vars
  BY <1>7 DEF Maintained, MaintenanceFails, RunMaintenance, NotSent, Next
<1>8. ASSUME Others PROVE [Next]_vars
  BY <1>8 DEF Others, Next, Client
<1>9. ASSUME Passes \/ Pauses PROVE [Next]_vars
  BY <1>9 DEF Passes, Pauses, Next
<1> QED BY <1>3, <1>4, <1>5, <1>6, <1>7, <1>8, <1>9 DEF ENext

-----------------------------------------------------------------------------
(* The steps of the consumers.                                                 *)

\* A calm step that no call takes part in.
LEMMA OthersKeep ==
    ASSUME EventInv, EventInv', ConsumersOk, Calm, UNCHANGED <<call, wire, outcome>>,
           faults' \in Nat, faults' = 0 => faults = 0
    PROVE  ConsumersOk'
<1>1. Counts /\ History /\ Calls
  BY DEF ConsumersOk
<1>2. Says
  BY <1>1 DEF Says, History
<1>3. Proceed
  <2>1. \A c \in Consumers : Moves(c)
    BY <1>1, UntouchedMoves
  <2>2. \A c \in Consumers : Handling(c)' => GoesOn(c)
    BY DEF Handling, In, GoesOn
  <2> QED BY <1>1, <2>1, <2>2 DEF Proceed, Calls
<1>4. wire' \subseteq DOMAIN leases
  BY <1>1 DEF Counts
<1> QED BY <1>2, <1>3, <1>4, CalmStep

\* A fault is one more than before.
LEMMA Faults ==
    ASSUME ConsumersOk, Fault \/ NoFault
    PROVE  /\ faults' \in Nat /\ (faults' = 0 => faults = 0)
           /\ Fault => faults' # 0
BY DEF ConsumersOk, Counts, Fault, NoFault

\* Maintenance, publishers and subscribers.
LEMMA OthersStep ==
    ASSUME EventInv, EventInv', ConsumersOk,
           Maintained \/ MaintenanceFails \/ RunMaintenance \/ Others
    PROVE  ConsumersOk'
<1>1. Counts
  BY DEF ConsumersOk
<1>2. Maintain => Calm
  BY <1>1, MaintainGood, NothingCalm
<1>3. NotSent => Calm
  BY <1>1, UnchangedCalm DEF NotSent
<1>4. CASE Maintained
  BY <1>2, <1>4, OthersKeep, Faults DEF Maintained, NoFault
<1>5. CASE MaintenanceFails
  BY <1>2, <1>3, <1>5, OthersKeep, Faults DEF MaintenanceFails
<1>6. CASE RunMaintenance
  BY <1>3, <1>6, OthersKeep, Faults DEF RunMaintenance, NotSent, NoFault
<1>7. CASE Others
  <2>1. Calm
    BY <1>1, <1>7, SubscribeCalm, EmitCalm, UnsubscribeCalm DEF Others
  <2>2. UNCHANGED <<call, wire, outcome, faults, work>>
    BY <1>7 DEF Others, consumers
  <2> QED BY <2>1, <2>2, OthersKeep, Faults DEF NoFault
<1> QED BY <1>4, <1>5, <1>6, <1>7

\* processOne is called, with a subscription that was given out.
LEMMA BeginStep ==
    ASSUME EventInv, EventInv', ConsumersOk, NEW c \in Consumers, Begin(c)
    PROVE  ConsumersOk'
<1>1. Counts /\ History /\ Calls
  BY DEF ConsumersOk
<1> DEFINE x == [Idle EXCEPT !.phase = "taking", !.g = Len(handles)]
<1>2. /\ handles # <<>> /\ call' = [call EXCEPT ![c] = x]
      /\ UNCHANGED vars /\ UNCHANGED <<wire, outcome, faults, work>>
  BY DEF Begin
<1>3. Len(handles) \in 0..MaxGen /\ Len(handles) \in DOMAIN handles
  <2>1. handles \in Seq([name : Names, left : Score])
    BY DEF EventInv
  <2>2. Len(handles) \in Nat /\ Len(handles) # 0 /\ DOMAIN handles = 1..Len(handles)
    BY <1>2, <2>1
  <2> QED BY <1>1, <2>2, BoundsAssumption DEF Counts
<1>4. x \in Call /\ x.phase = "taking" /\ x.k = 0 /\ x.g = Len(handles)
  BY <1>3, IdleCall, Zenon DEF Call
<1> HIDE DEF x
<1>5. call'[c] = x
  BY <1>1, <1>2 DEF Calls
<1>6. Moves(c) /\ ~Handling(c)'
  BY <1>3, <1>4, <1>5 DEF Moves, Busy, Handling, In
<1>7. Proceed
  BY <1>2, <1>4, <1>6, OneCall, Zenon
<1>8. Says
  BY <1>1, <1>2 DEF Says, History
<1>9. Calm
  BY <1>1, <1>2, UnchangedCalm
<1>10. wire' \subseteq DOMAIN leases
  BY <1>1, <1>2 DEF Counts
<1> QED BY <1>2, <1>7, <1>8, <1>9, <1>10, CalmStep, Faults DEF NoFault

\* A heartbeat asks for a renewal.
LEMMA BeatStep ==
    ASSUME EventInv, EventInv', ConsumersOk, NEW c \in Consumers, Beat(c)
    PROVE  ConsumersOk'
<1>1. Counts /\ History /\ Calls
  BY DEF ConsumersOk
<1> DEFINE x == [call[c] EXCEPT !.beat = Out]
<1>2. /\ Handling(c) /\ call' = [call EXCEPT ![c] = x]
      /\ wire' = wire \cup {call[c].k}
      /\ UNCHANGED vars /\ UNCHANGED <<outcome, faults, work>>
  BY DEF Beat
<1>3. /\ x \in Call /\ x.phase = call[c].phase /\ x.k = call[c].k /\ x.g = call[c].g
      /\ x.beat = Out
  BY <1>1 DEF Calls, Call, Score
<1> HIDE DEF x
<1>4. call'[c] = x
  BY <1>1, <1>2 DEF Calls
<1>5. call[c].phase = "handling" /\ call[c].phase \in Busy
  BY <1>2 DEF Handling, In, Busy
<1>6. call[c].k \in DOMAIN leases /\ outcome[call[c].k] = "running"
  BY <1>1, <1>5 DEF Calls, CallOk
<1>7. Moves(c)
  BY <1>2, <1>3, <1>4, <1>5, <1>6 DEF Moves
<1>8. GoesOn(c)
  BY <1>2, <1>3, <1>4 DEF GoesOn
<1>9. Proceed
  BY <1>2, <1>3, <1>7, <1>8, OneCall, Zenon
<1>10. Says
  BY <1>1, <1>2 DEF Says, History
<1>11. Calm
  BY <1>1, <1>2, UnchangedCalm
<1>12. wire' \subseteq DOMAIN leases
  BY <1>1, <1>2, <1>6 DEF Counts
<1> QED BY <1>2, <1>9, <1>10, <1>11, <1>12, CalmStep, Faults DEF NoFault

\* A handler ends; what its call says next is up to the engine.
LEMMA HandlerEndsStep ==
    ASSUME EventInv, EventInv', ConsumersOk, NEW c \in Consumers, NEW ok \in BOOLEAN,
           HandlerEnds(c, ok)
    PROVE  ConsumersOk'
<1>1. Counts /\ History /\ Calls
  BY DEF ConsumersOk
<1> DEFINE phase == IF ok THEN "acknowledging" ELSE "releasing"
           x == [call[c] EXCEPT !.phase = phase, !.beat = Out]
           k == call[c].k
<1>2. /\ Handling(c) /\ call' = [call EXCEPT ![c] = x]
      /\ outcome' = IF ok THEN [outcome EXCEPT ![k] = "handled"] ELSE outcome
      /\ UNCHANGED vars /\ UNCHANGED <<wire, faults, work>>
  <2> USE DEF HandlerEnds
  <2> QED BY <1>1, Zenon DEF Calls
<1>3. /\ x \in Call /\ x.phase = phase /\ x.k = call[c].k /\ x.g = call[c].g
      /\ phase \in {"acknowledging", "releasing"} /\ phase \in Busy
  BY <1>1, Zenon DEF Calls, Call, Score, Busy
<1>4. call[c].phase = "handling" /\ call[c].phase \in Busy
  BY <1>2 DEF Handling, In, Busy
<1>5. k \in DOMAIN leases /\ outcome[k] = "running"
  BY <1>1, <1>4 DEF Calls, CallOk
<1>6. /\ outcome' \in Seq(Outcomes) /\ Len(outcome') = Len(outcome)
      /\ outcome'[k] = IF ok THEN "handled" ELSE "running"
      /\ \A n \in DOMAIN leases : n # k => outcome'[n] = outcome[n]
  <2>1. CASE ok
    <3>1. "handled" \in Outcomes /\ outcome' = [outcome EXCEPT ![k] = "handled"]
      BY <1>2, <2>1 DEF Outcomes
    <3> QED BY <1>5, <2>1, <3>1, OneOutcome, Zenon
  <2>2. CASE ~ok
    BY <1>1, <1>2, <1>5, <2>2 DEF History
  <2> QED BY <2>1, <2>2
<1> HIDE DEF x
<1>7. call'[c] = x
  BY <1>1, <1>2 DEF Calls
<1>8. Moves(c) /\ ~Handling(c)'
  BY <1>3, <1>4, <1>6, <1>7 DEF Moves, Handling, In
<1>9. Proceed
  BY <1>2, <1>3, <1>6, <1>8, OneCall, Zenon
<1>10. Says
  <2> SUFFICES ASSUME NEW n \in DOMAIN leases, outcome'[n] # outcome[n]
               PROVE  /\ outcome[n] \in {"running", "handled"} /\ outcome'[n] # "true"
                      /\ outcome'[n] # "released"
    BY <1>6 DEF Says
  <2>1. n = k
    BY <1>6
  <2> QED BY <1>5, <1>6, <2>1
<1>11. Calm
  BY <1>1, <1>2, UnchangedCalm
<1>12. wire' \subseteq DOMAIN leases
  BY <1>1, <1>2 DEF Counts
<1> QED BY <1>2, <1>9, <1>10, <1>11, <1>12, CalmStep, Faults DEF NoFault

\* A call ends, and nothing changes but what is said of its delivery.
LEMMA EndsProceed ==
    ASSUME EventInv, ConsumersOk, NEW c \in Consumers, NEW result \in Outcomes,
           EndsAs(c, result), wire \subseteq wire', NEW k, k = call[c].k
    PROVE  /\ Proceed /\ ~Handling(c)'
           /\ outcome' \in Seq(Outcomes) /\ Len(outcome') = Len(outcome)
           /\ k # 0 => /\ k \in DOMAIN leases /\ outcome[k] \in {"running", "handled"}
                       /\ outcome'[k] = result
           /\ \A n \in DOMAIN leases : n # k => outcome'[n] = outcome[n]
<1>1. History /\ Calls
  BY DEF ConsumersOk
<1>2. /\ call' = [call EXCEPT ![c] = Idle]
      /\ outcome' = IF k = 0 THEN outcome ELSE [outcome EXCEPT ![k] = result]
  BY DEF EndsAs
<1>3. call'[c] = Idle
  BY <1>1, <1>2 DEF Calls
<1>4. Moves(c) /\ ~Handling(c)'
  BY <1>3, IdleMoves, IdleCall DEF Handling, In
<1>5. k # 0 => k \in DOMAIN leases /\ outcome[k] \in {"running", "handled"}
  BY <1>1 DEF Calls, CallOk
<1>6. /\ outcome' \in Seq(Outcomes) /\ Len(outcome') = Len(outcome)
      /\ k # 0 => outcome'[k] = result
      /\ \A n \in DOMAIN leases : n # k => outcome'[n] = outcome[n]
  <2>1. CASE k = 0
    BY <1>1, <1>2, <2>1 DEF History
  <2>2. CASE k # 0
    BY <1>2, <1>5, <2>2, OneOutcome, Zenon
  <2> QED BY <2>1, <2>2
<1>7. Proceed
  BY <1>2, <1>4, <1>6, IdleCall, OneCall, Zenon
<1> QED BY <1>4, <1>5, <1>6, <1>7

\* It may end on a calm step of the engine without having achieved anything.
LEMMA EndsKeep ==
    ASSUME EventInv, EventInv', ConsumersOk, Calm, NEW c \in Consumers,
           NEW result \in {"failed", "indeterminate"}, EndsAs(c, result),
           wire' = wire, Fault \/ NoFault
    PROVE  ConsumersOk'
<1>1. result \in Outcomes /\ Counts
  BY DEF Outcomes, ConsumersOk
<1>2. PICK k : k = call[c].k
  OBVIOUS
<1>3. /\ Proceed
      /\ outcome' \in Seq(Outcomes) /\ Len(outcome') = Len(outcome)
      /\ k # 0 => /\ k \in DOMAIN leases /\ outcome[k] \in {"running", "handled"}
                  /\ outcome'[k] = result
      /\ \A n \in DOMAIN leases : n # k => outcome'[n] = outcome[n]
  BY <1>1, <1>2, EndsProceed
<1>4. \A n \in DOMAIN leases : n # 0
  BY Tokens
<1>5. Says
  BY <1>3, <1>4 DEF Says
<1> QED BY <1>1, <1>3, <1>5, CalmStep, Faults DEF Counts

\* The process dies.
LEMMA DiesStep ==
    ASSUME EventInv, EventInv', ConsumersOk, NEW c \in Consumers, Dies(c)
    PROVE  ConsumersOk'
<1>1. Counts
  BY DEF ConsumersOk
<1>2. EndsAs(c, "indeterminate") /\ Fault /\ UNCHANGED vars /\ wire' = wire
  BY DEF Dies
<1> QED BY <1>1, <1>2, EndsKeep, UnchangedCalm

\* A refusal brings its event up to date, and that is all.
LEMMA RefusesCalm ==
    ASSUME EventInv, Counts, NEW k \in DOMAIN leases, Refuses(k)
    PROVE  Calm
<1>1. leases[k][1] \in Events /\ Get(leases[k][1])
  BY Tokens DEF Refuses
<1> QED BY <1>1, GetGood, NothingCalm

\* A handler is told to stop: at most one call waits for a delivery.
LEMMA StopProceeds ==
    ASSUME EventInv, ConsumersOk, NEW k \in DOMAIN leases, StopWaiting(k),
           wire' = wire \ {k}
    PROVE  Says /\ Proceed
<1>1. Counts /\ History /\ Calls
  BY DEF ConsumersOk
<1>2. /\ call' = [c \in Consumers |-> IF c \in Waiting(k) THEN Idle ELSE call[c]]
      /\ outcome' = IF Waiting(k) = {} THEN outcome ELSE [outcome EXCEPT ![k] = "failed"]
  BY DEF StopWaiting
<1>3. \A c \in Waiting(k) : c \in Consumers /\ Handling(c) /\ call[c].k = k
  BY DEF Waiting
<1>4. /\ outcome' \in Seq(Outcomes) /\ Len(outcome') = Len(outcome)
      /\ \A n \in DOMAIN leases : n # k \/ Waiting(k) = {} => outcome'[n] = outcome[n]
      /\ Waiting(k) # {} => outcome'[k] = "failed"
  <2>1. CASE Waiting(k) = {}
    BY <1>1, <1>2, <2>1 DEF History
  <2>2. CASE Waiting(k) # {}
    <3>1. "failed" \in Outcomes /\ outcome' = [outcome EXCEPT ![k] = "failed"]
      BY <1>2, <2>2 DEF Outcomes
    <3> QED BY <2>2, <3>1, OneOutcome, Zenon
  <2> QED BY <2>1, <2>2
<1>5. Waiting(k) # {} => outcome[k] = "running"
  <2> SUFFICES ASSUME NEW c \in Waiting(k) PROVE outcome[k] = "running"
    OBVIOUS
  <2>1. c \in Consumers /\ call[c].phase = "handling" /\ call[c].phase \in Busy /\ call[c].k = k
    BY <1>3 DEF Handling, In, Busy
  <2> QED BY <1>1, <2>1 DEF Calls, CallOk
<1>6. Says
  <2> SUFFICES ASSUME NEW n \in DOMAIN leases, outcome'[n] # outcome[n]
               PROVE  /\ outcome[n] \in {"running", "handled"} /\ outcome'[n] # "true"
                      /\ outcome'[n] # "released"
    BY <1>4 DEF Says
  <2>1. n = k /\ Waiting(k) # {}
    BY <1>4
  <2> QED BY <1>4, <1>5, <2>1
<1>7. Proceed
  <2>1. call' \in [Consumers -> Call]
    BY <1>1, <1>2, IdleCall DEF Calls
  <2>2. ASSUME NEW c \in Consumers PROVE Moves(c) /\ (Handling(c)' => GoesOn(c))
    <3>1. CASE c \in Waiting(k)
      <4>1. call'[c] = Idle
        BY <1>2, <3>1
      <4> QED BY <4>1, IdleMoves, IdleCall DEF Handling, In
    <3>2. CASE c \notin Waiting(k)
      <4>1. call'[c] = call[c]
        BY <1>2, <3>2
      <4>2. call[c].phase \in Busy => outcome'[call[c].k] = outcome[call[c].k]
        <5> SUFFICES ASSUME call[c].phase \in Busy
                     PROVE  outcome'[call[c].k] = outcome[call[c].k]
          OBVIOUS
        <5>1. call[c].k \in DOMAIN leases /\ k # 0
          BY <1>1, Tokens DEF Calls, CallOk
        <5>2. call[c].k = k => Waiting(k) = {}
          <6> SUFFICES ASSUME call[c].k = k, NEW d \in Waiting(k) PROVE FALSE
            OBVIOUS
          <6>1. d \in Consumers /\ d # c /\ call[d].k = call[c].k
            BY <1>3, <3>2
          <6> QED BY <1>1, <5>1, <6>1 DEF Calls
        <5> QED BY <1>4, <5>1, <5>2
      <4>3. Moves(c)
        BY <1>1, <4>1, <4>2, UntouchedMoves
      <4>4. Handling(c)' => GoesOn(c)
        <5> SUFFICES ASSUME Handling(c)' PROVE GoesOn(c)
          OBVIOUS
        <5>1. Handling(c)
          BY <4>1 DEF Handling, In
        <5>2. call[c].k # k
          BY <3>2, <5>1 DEF Waiting
        <5> QED BY <4>1, <5>1, <5>2 DEF GoesOn
      <4> QED BY <4>3, <4>4
    <3> QED BY <3>1, <3>2
  <2> QED BY <2>1, <2>2 DEF Proceed
<1> QED BY <1>6, <1>7

\* It may be told to on a calm step of the engine.
LEMMA StopKeeps ==
    ASSUME EventInv, EventInv', ConsumersOk, Calm, NEW k \in DOMAIN leases, StopWaiting(k),
           wire' = wire \ {k}, Fault \/ NoFault
    PROVE  ConsumersOk'
<1>1. wire' \subseteq DOMAIN leases
  BY DEF ConsumersOk, Counts
<1>2. Says /\ Proceed
  BY StopProceeds
<1> QED BY <1>1, <1>2, CalmStep, Faults

-----------------------------------------------------------------------------
(* The operations that address one delivery.                                   *)

\* The delivery with token k is addressed while its lease runs.
Hits(k) ==
    /\ k \in DOMAIN leases /\ leases' = leases
    /\ Alive(leases[k][1], leases[k][2]) /\ RunsOn(k)
    /\ Addresses(leases[k][1], leases[k][2])

\* Nothing that is counted changes.
LEMMA HitCounts ==
    ASSUME ConsumersOk, NEW k, Hits(k), wire' \subseteq wire, faults' \in Nat
    PROVE  Counts'
BY DEF ConsumersOk, Counts, Hits, Addresses

\* Every handler of another delivery goes on undisturbed.
LEMMA HitBeats ==
    ASSUME EventInv, EventInv', ConsumersOk, NEW k, Hits(k), faults' = 0 => faults = 0,
           NEW c \in Consumers, Handling(c)' => GoesOn(c) /\ call[c].k # k
    PROVE  BeatOk(c)'
<1>1. CASE ~Handling(c)'
  BY <1>1 DEF BeatOk
<1>2. CASE faults' # 0
  BY <1>2, FaultyBeats
<1>3. CASE Handling(c)' /\ faults' = 0
  <2> DEFINE n == call[c].k
             e == leases[n][1]
             g == call[c].g
  <2>1. GoesOn(c) /\ n # k /\ Handling(c) /\ faults = 0 /\ Calls /\ BeatOk(c)
    BY <1>3 DEF GoesOn, ConsumersOk
  <2>2. n \in DOMAIN leases /\ leases[n][2] = g
    BY <2>1, BusyPhases DEF Calls, CallOk
  <2>3. leases[n] # leases[k]
    BY <2>1, OneLease DEF Hits
  <2>4. /\ leases[n] \in Events \X Gens /\ leases[k] \in Events \X Gens
        /\ leases[n][1] \in Events /\ leases[n][2] \in Gens
    BY <2>2, Tokens DEF Hits
  <2>5. leases[n][1] # leases[k][1] \/ leases[n][2] # leases[k][2]
    BY <2>3, <2>4
  <2>6. Spared(db.event[leases[n][1]], db'.event[leases[n][1]], leases[n][2])
    BY <2>4, <2>5 DEF Hits, Addresses
  <2>7. Spared(db.event[e], db'.event[e], g)
    BY <2>2, <2>6
  <2>8. Registered(db, call[c].g)' => Registered(db, call[c].g)
    <3>1. PICK h : h = call[c].g /\ call'[c].g = h
      BY <2>1 DEF GoesOn
    <3>2. Registered(db, h)' => Registered(db, h)
      BY DEF Registered, Hits, Addresses
    <3> QED BY <3>1, <3>2 DEF Registered
  <2>9. leases' = leases /\ db'.now = db.now
    BY DEF Hits, Addresses
  <2> QED BY <2>1, <2>7, <2>8, <2>9, BeatKept
<1> QED BY <1>1, <1>2, <1>3

\* Renewing or releasing a delivery is faithful to all that were given out.
LEMMA AssignsFaithful ==
    ASSUME EventInv, NEW k, Hits(k), NEW q, q.token \in {k, 0},
           Assigns(leases[k][1], leases[k][2], q), NEW n \in DOMAIN leases
    PROVE  Faithful(db.event[leases[n][1]], db'.event[leases[n][1]], leases[n][2])
<1>1. /\ leases[n] \in Events \X Gens /\ leases[k] \in Events \X Gens
      /\ leases[n][1] \in Events /\ leases[n][2] \in Gens
  BY Tokens DEF Hits
<1>2. CASE leases[n] = leases[k]
  <2> DEFINE e == leases[n][1]
             g == leases[n][2]
  <2>1. /\ Owing(db.event[e], g) /\ Owing(db'.event[e], g)
        /\ db'.event[e].recipients[g].token \in {k, 0}
    BY <1>2 DEF Assigns
  <2>2. db.event[e].recipients[g].token = k
    BY <1>2 DEF Hits, RunsOn, Leaseholder
  <2> QED BY <2>1, <2>2 DEF Faithful, Owing
<1>3. CASE leases[n] # leases[k]
  <2>1. leases[n][1] # leases[k][1] \/ leases[n][2] # leases[k][2]
    BY <1>1, <1>3
  <2> QED BY <1>1, <2>1 DEF Hits, Addresses, Spared
<1> QED BY <1>2, <1>3

\* renew, answered or not: the handlers of the delivery go on with a later heartbeat.
LEMMA RenewHits ==
    ASSUME EventInv, NEW k \in DOMAIN leases, Renew(k, LeaseMs)
    PROVE  Hits(k) /\ Leases(leases[k][1], leases[k][2], k, LeaseMs)
<1>1. LeaseMs \in LeaseTimes
  BY OptionsAssumption
<1> QED BY <1>1, RenewGood DEF Hits, Leases, Assigns

\* It is faithful.
LEMMA RenewFaithful ==
    ASSUME EventInv, NEW k \in DOMAIN leases, Renew(k, LeaseMs)
    PROVE  \A n \in DOMAIN leases :
               Faithful(db.event[leases[n][1]], db'.event[leases[n][1]], leases[n][2])
<1>1. Hits(k) /\ Leases(leases[k][1], leases[k][2], k, LeaseMs)
  BY RenewHits
<1>2. PICK q \in Recipient : q.token = k /\ Assigns(leases[k][1], leases[k][2], q)
  BY <1>1 DEF Leases
<1> QED BY <1>1, <1>2, AssignsFaithful

\* Renewals are closer than the lease is long.
LEMMA RenewsInTime == RenewEveryMs \in Nat \ {0} /\ RenewEveryMs < LeaseMs
BY OptionsAssumption DEF RenewEveryMs

\* A lease that was just given out or renewed runs, as far as the deadline goes, for
\* longer than it takes to the next renewal.
LEMMA LeaseRuns ==
    ASSUME EventInv, NEW e, NEW g, NEW k, Leases(e, g, k, LeaseMs), leases'[k] = <<e, g>>,
           NEW t \in Nat, t < LeaseMs
    PROVE  /\ Alive(e, g)' => RunsOn(k)'
           /\ \/ db.now + t < Leaseholder(k)'.until
              \/ Leaseholder(k)'.until = db'.event[e].expiresAt
<1>1. PICK q \in Recipient :
         /\ Assigns(e, g, q) /\ q.token = k /\ q.until \in Nat
         /\ q.until = db.event[e].expiresAt \/ q.until = db.now + LeaseMs
  BY DEF Leases
<1>2. /\ Leaseholder(k)' = q /\ q.status = "pending" /\ db'.now = db.now
      /\ db'.event[e].expiresAt = db.event[e].expiresAt
  BY <1>1 DEF Assigns, Addresses, Owing, Leaseholder
<1>3. LeaseMs \in Nat \ {0} /\ db.now \in Nat
  BY OptionsAssumption DEF EventInv, Good, Sound, Keyspace
<1>4. ASSUME Alive(e, g)' PROVE q.until > db'.now
  <2>1. InTime(db'.event[e], db'.now)
    BY <1>4 DEF Alive
  <2>2. CASE q.until = db.event[e].expiresAt
    BY <1>1, <1>2, <1>3, <2>1, <2>2 DEF InTime
  <2>3. CASE q.until = db.now + LeaseMs
    BY <1>2, <1>3, <2>3
  <2> QED BY <1>1, <2>2, <2>3
<1>5. Alive(e, g)' => RunsOn(k)'
  BY <1>1, <1>2, <1>4 DEF RunsOn, Out
<1>6. \/ db.now + t < q.until
      \/ q.until = db'.event[e].expiresAt
  BY <1>1, <1>2, <1>3
<1> QED BY <1>2, <1>5, <1>6

\* A renewal that arrives in time puts the next one before the end of the lease.
LEMMA RenewedStep ==
    ASSUME EventInv, EventInv', ConsumersOk, NEW k \in wire, wire' = wire \ {k},
           Renew(k, LeaseMs),
           call' = [c \in Consumers |-> IF c \in Waiting(k)
                        THEN [call[c] EXCEPT !.beat = db.now + RenewEveryMs]
                        ELSE call[c]],
           outcome' = outcome, NoFault
    PROVE  ConsumersOk'
<1>1. Counts /\ History /\ Calls
  BY DEF ConsumersOk
<1>2. k \in DOMAIN leases
  BY <1>1 DEF Counts
<1>3. Hits(k) /\ Leases(leases[k][1], leases[k][2], k, LeaseMs)
  BY <1>2, RenewHits
<1>4. leases' = leases /\ handles' = handles /\ db'.now = db.now
  BY <1>3 DEF Hits, Addresses
<1>5. faults' \in Nat /\ faults' = faults
  BY Faults DEF NoFault
<1>6. Counts'
  BY <1>3, <1>5, HitCounts
<1>7. History'
  BY <1>1, <1>2, <1>4, RenewFaithful, HistoryKept DEF History
<1>8. db.now + RenewEveryMs \in Score /\ db.now \in Nat
  <2>1. db.now \in Nat
    BY DEF EventInv, Good, Sound, Keyspace
  <2> QED BY <2>1, RenewsInTime DEF Score
<1>9. \A c \in Waiting(k) :
         /\ call'[c] \in Call /\ call'[c].phase = call[c].phase /\ call'[c].k = call[c].k
         /\ call'[c].g = call[c].g /\ call'[c].beat = db.now + RenewEveryMs
         /\ c \in Consumers /\ Handling(c) /\ call[c].k = k
  <2> SUFFICES ASSUME NEW c \in Waiting(k)
               PROVE  /\ call'[c] \in Call /\ call'[c].phase = call[c].phase
                      /\ call'[c].k = call[c].k
                      /\ call'[c].g = call[c].g /\ call'[c].beat = db.now + RenewEveryMs
                      /\ c \in Consumers /\ Handling(c) /\ call[c].k = k
    BY Zenon
  <2>1. c \in Consumers /\ Handling(c) /\ call[c].k = k
    BY DEF Waiting
  <2>2. call[c] \in Call /\ call'[c] = [call[c] EXCEPT !.beat = db.now + RenewEveryMs]
    BY <1>1, <2>1 DEF Calls
  <2> QED BY <1>8, <2>1, <2>2 DEF Call
<1>10. \A c \in Consumers \ Waiting(k) : call'[c] = call[c]
  OBVIOUS
<1>11. call' \in [Consumers -> Call]
  <2>1. \A c \in Consumers : call'[c] \in Call
    BY <1>1, <1>9, <1>10, Zenon DEF Calls
  <2>2. call' = [c \in Consumers |-> call'[c]]
    OBVIOUS
  <2> QED BY <2>1, <2>2
<1>12. Calls'
  <2>1. ASSUME NEW c \in Consumers PROVE Moves(c)
    <3>1. CASE c \in Waiting(k)
      <4>1. call[c].phase = "handling" /\ call[c].phase \in Busy
        BY <1>9, <3>1 DEF Handling, In, Busy
      <4>2. outcome'[call[c].k] = "running"
        BY <1>1, <4>1 DEF Calls, CallOk
      <4> QED BY <1>9, <3>1, <4>1, <4>2, Zenon DEF Moves
    <3>2. CASE c \notin Waiting(k)
      BY <1>1, <1>10, <3>2, UntouchedMoves, Zenon
    <3> QED BY <3>1, <3>2
  <2> QED BY <1>1, <1>4, <1>11, <2>1, CallsKept
<1>13. ASSUME NEW c \in Consumers PROVE BeatOk(c)'
  <2>1. CASE c \notin Waiting(k)
    <3>1. Handling(c)' => GoesOn(c) /\ call[c].k # k
      BY <1>10, <2>1 DEF Handling, In, GoesOn, Waiting
    <3> QED BY <1>3, <1>5, <3>1, HitBeats
  <2>2. CASE c \in Waiting(k)
    <3>1. PICK e, g : e = leases[k][1] /\ g = leases[k][2]
      BY Zenon
    <3>2. /\ call'[c].k = k /\ call'[c].g = g /\ leases'[k][1] = e /\ leases'[k][2] = g
          /\ call'[c].beat = db.now + RenewEveryMs /\ call'[c].beat # Out
      <4>1. call[c].g = g
        BY <1>1, <1>2, <1>9, <2>2, <3>1, BusyPhases, Zenon DEF Calls, CallOk
      <4>2. db.now + RenewEveryMs # Out
        BY <1>8, RenewsInTime
      <4> QED BY <1>4, <1>9, <2>2, <3>1, <4>1, <4>2, Zenon
    <3>3. Leases(e, g, k, LeaseMs) /\ leases'[k] = <<e, g>>
      BY <1>2, <1>3, <1>4, <3>1, Tokens
    <3>4. /\ Alive(e, g)' => RunsOn(k)'
          /\ \/ db.now + RenewEveryMs < Leaseholder(k)'.until
             \/ Leaseholder(k)'.until = db'.event[e].expiresAt
      BY <3>3, LeaseRuns, RenewsInTime
    <3> QED BY <3>2, <3>4 DEF BeatOk
  <2> QED BY <2>1, <2>2
<1> QED BY <1>6, <1>7, <1>12, <1>13 DEF ConsumersOk

\* A renewal arrives or fails; its request is no longer on its way.
LEMMA RenewalStep ==
    ASSUME EventInv, EventInv', ConsumersOk, NEW k \in wire,
           RenewalArrives(k) \/ RenewalFails(k)
    PROVE  ConsumersOk'
<1>1. Counts /\ History /\ Calls
  BY DEF ConsumersOk
<1>2. k \in DOMAIN leases /\ wire' = wire \ {k}
  BY <1>1 DEF Counts, RenewalArrives, RenewalFails
<1>3. CASE RenewalArrives(k)
  <2>1. CASE RenewalRefused(k)
    BY <1>1, <1>2, <1>3, <2>1, RefusesCalm, StopKeeps DEF RenewalArrives, RenewalRefused
  <2>2. CASE ~RenewalRefused(k)
    <3>1. /\ Renew(k, LeaseMs) /\ outcome' = outcome /\ NoFault
          /\ call' = [c \in Consumers |-> IF c \in Waiting(k)
                          THEN [call[c] EXCEPT !.beat = db.now + RenewEveryMs]
                          ELSE call[c]]
      BY <1>3, <2>2 DEF RenewalArrives
    <3> QED BY <1>2, <3>1, RenewedStep
  <2> QED BY <2>1, <2>2
<1>4. CASE RenewalFails(k)
  <2>1. StopWaiting(k) /\ Fault
    BY <1>4 DEF RenewalFails
  <2>2. CASE NotSent
    <3>1. Calm
      BY <1>1, <2>2, UnchangedCalm DEF NotSent
    <3> QED BY <1>2, <2>1, <3>1, StopKeeps
  <2>3. CASE Renew(k, LeaseMs)
    <3>1. Hits(k)
      BY <1>2, <2>3, RenewHits
    <3>2. Says /\ Proceed
      BY <1>2, <2>1, StopProceeds
    <3>3. faults' \in Nat /\ faults' # 0
      BY <2>1, Faults
    <3>4. leases' = leases /\ handles' = handles
      BY <3>1 DEF Hits, Addresses
    <3>5. Counts'
      BY <1>2, <3>1, <3>3, HitCounts
    <3>6. History'
      <4>1. \A n \in DOMAIN leases :
               Faithful(db.event[leases[n][1]], db'.event[leases[n][1]], leases[n][2])
        BY <1>2, <2>3, RenewFaithful
      <4> QED BY <1>1, <3>2, <3>4, <4>1, HistoryKept DEF Says
    <3>7. Calls'
      BY <1>1, <3>2, <3>4, CallsKept DEF Proceed
    <3> QED BY <3>3, <3>5, <3>6, <3>7, FaultyBeats DEF ConsumersOk
  <2> QED BY <1>4, <2>2, <2>3 DEF RenewalFails
<1> QED BY <1>3, <1>4

\* A call that ends with an operation on its delivery leaves the others alone.
LEMMA EndsOnHit ==
    ASSUME EventInv, EventInv', ConsumersOk, NEW c \in Consumers, NEW result \in Outcomes,
           EndsAs(c, result), wire' = wire, Fault \/ NoFault, call[c].k # 0, Hits(call[c].k)
    PROVE  /\ Counts' /\ Calls' /\ \A d \in Consumers : BeatOk(d)'
           /\ outcome' \in Seq(Outcomes) /\ Len(outcome') = Len(outcome)
           /\ outcome[call[c].k] \in {"running", "handled"} /\ outcome'[call[c].k] = result
           /\ \A n \in DOMAIN leases : n # call[c].k => outcome'[n] = outcome[n]
<1>1. PICK k : k = call[c].k
  OBVIOUS
<1>2. Hits(k) /\ k # 0
  BY <1>1
<1>3. /\ Proceed /\ ~Handling(c)'
      /\ outcome' \in Seq(Outcomes) /\ Len(outcome') = Len(outcome)
      /\ outcome[k] \in {"running", "handled"} /\ outcome'[k] = result
      /\ \A n \in DOMAIN leases : n # k => outcome'[n] = outcome[n]
  BY <1>1, <1>2, EndsProceed
<1>4. Calls /\ leases' = leases /\ handles' = handles
  BY <1>2 DEF ConsumersOk, Hits, Addresses
<1>5. faults' \in Nat /\ (faults' = 0 => faults = 0)
  BY Faults
<1>6. Counts'
  BY <1>2, <1>5, HitCounts
<1>7. Calls'
  BY <1>3, <1>4, CallsKept DEF Proceed
<1>8. ASSUME NEW d \in Consumers PROVE BeatOk(d)'
  <2>1. Handling(d)' => GoesOn(d)
    BY <1>3 DEF Proceed
  <2>2. Handling(d)' => call[d].k # k
    BY <1>1, <1>2, <1>3, <1>4 DEF Calls
  <2> QED BY <1>2, <1>5, <2>1, <2>2, HitBeats
<1> QED BY <1>1, <1>3, <1>6, <1>7, <1>8

\* A delivery is released, or not.
LEMMA ReleasedStep ==
    ASSUME EventInv, EventInv', ConsumersOk, NEW c \in Consumers,
           Released(c) \/ ReleaseFails(c)
    PROVE  ConsumersOk'
<1>1. Counts /\ History /\ Calls
  BY DEF ConsumersOk
<1>2. PICK k : k = call[c].k
  OBVIOUS
<1>3. k \in DOMAIN leases /\ wire' = wire /\ (Fault \/ NoFault)
  BY <1>1, <1>2, BusyPhases DEF Calls, CallOk, Released, ReleaseFails
<1>4. \/ Release(k, RetryDelayMs) /\ (EndsAs(c, "released") \/ EndsAs(c, "failed"))
      \/ (Refuses(k) \/ NotSent) /\ EndsAs(c, "failed")
  BY <1>2 DEF Released, ReleaseFails
<1>5. CASE (Refuses(k) \/ NotSent) /\ EndsAs(c, "failed")
  <2>1. Calm
    BY <1>1, <1>3, <1>5, RefusesCalm, UnchangedCalm DEF NotSent
  <2> QED BY <1>3, <1>5, <2>1, EndsKeep
<1>6. ASSUME Release(k, RetryDelayMs), NEW result \in {"released", "failed"},
             EndsAs(c, result)
      PROVE  ConsumersOk'
  <2>1. RetryDelayMs \in Delays /\ result \in Outcomes
    BY OptionsAssumption DEF Outcomes
  <2>2. /\ Alive(leases[k][1], leases[k][2]) /\ RunsOn(k) /\ leases' = leases
        /\ \E q \in Recipient : q.token = 0 /\ Assigns(leases[k][1], leases[k][2], q)
    BY <1>3, <1>6, <2>1, ReleaseGood
  <2>3. PICK q \in Recipient : q.token = 0 /\ Assigns(leases[k][1], leases[k][2], q)
    BY <2>2
  <2>4. Hits(k)
    BY <1>3, <2>2, <2>3 DEF Hits, Assigns
  <2>5. k # 0
    BY <1>3, Tokens
  <2>6. /\ Counts' /\ Calls' /\ \A d \in Consumers : BeatOk(d)'
        /\ outcome' \in Seq(Outcomes) /\ Len(outcome') = Len(outcome)
        /\ outcome[k] \in {"running", "handled"} /\ outcome'[k] = result
        /\ \A n \in DOMAIN leases : n # k => outcome'[n] = outcome[n]
    BY <1>2, <1>3, <1>6, <2>1, <2>4, <2>5, EndsOnHit
  <2>7. Leaseholder(k)'.token = 0
    BY <2>2, <2>3 DEF Leaseholder, Assigns
  <2>8. \A n \in DOMAIN leases :
           Faithful(db.event[leases[n][1]], db'.event[leases[n][1]], leases[n][2])
    BY <2>3, <2>4, AssignsFaithful
  <2>9. \A n \in DOMAIN leases :
           \/ outcome'[n] = outcome[n]
           \/ /\ outcome[n] \in {"running", "handled"}
              /\ outcome'[n] # "true"
              /\ outcome'[n] = "released" => Leaseholder(n)'.token # n
    BY <2>5, <2>6, <2>7
  <2>10. History'
    BY <1>1, <2>2, <2>6, <2>8, <2>9, HistoryKept
  <2> QED BY <2>6, <2>10 DEF ConsumersOk
<1> QED BY <1>4, <1>5, <1>6

\* An acknowledgement says nothing that could be wrong, of its own delivery or of
\* an earlier one of the same event.
LEMMA AcknowledgedHistory ==
    ASSUME EventInv, ConsumersOk, NEW k, Acknowledge(k), Hits(k),
           NEW result \in {"true", "indeterminate"},
           outcome[k] \in {"running", "handled"}, outcome'[k] = result,
           outcome' \in Seq(Outcomes), Len(outcome') = Len(outcome),
           \A n \in DOMAIN leases : n # k => outcome'[n] = outcome[n]
    PROVE  History'
<1> DEFINE e == leases[k][1]
           g == leases[k][2]
<1>1. History /\ leases' = leases /\ k \in DOMAIN leases
  BY DEF ConsumersOk, Hits
<1>2. /\ \/ db'.event[e].status = "absent"
         \/ Leaseholder(k)'.status = "acknowledged" /\ Leaseholder(k)'.token = k
      /\ Leaseholder(k)'.token \in {k, 0} /\ Addresses(e, g)
  BY <1>1, AcknowledgeGood
<1>3. Leaseholder(k).status = "pending" /\ db.event[e].status = "active"
  BY DEF Hits, RunsOn, Alive
<1>4. \A n \in DOMAIN leases :
         /\ n # 0 /\ leases[n] \in Events \X Gens
         /\ leases[n][1] \in Events /\ leases[n][2] \in Gens
  BY Tokens
<1>5. \A n \in DOMAIN leases :
         leases[n] = leases[k] => /\ Leaseholder(n) = Leaseholder(k)
                                  /\ Leaseholder(n)' = Leaseholder(k)'
  BY <1>1 DEF Leaseholder
<1>6. \A n \in DOMAIN leases : leases[n] = leases[k] => outcome[n] # "true"
  BY <1>1, <1>3, <1>5 DEF History, TruthAt
<1>7. ASSUME NEW n \in DOMAIN leases PROVE TruthAt(n)'
  <2>1. TruthAt(n)
    BY <1>1 DEF History
  <2>2. TruthAt(n)' =
          LET r == Leaseholder(n)'
          IN /\ outcome'[n] = "true" =>
                   \/ db'.event[leases'[n][1]].status = "absent"
                   \/ r.status = "acknowledged" /\ r.token = n
             /\ r.status = "acknowledged" /\ r.token = n =>
                   outcome'[n] \in {"true", "indeterminate"}
             /\ outcome'[n] = "released" => r.token # n
    BY DEF TruthAt
  <2>3. CASE n = k
    BY <1>1, <1>2, <2>2, <2>3
  <2>4. CASE n # k /\ leases[n] = leases[k]
    <3>1. outcome'[n] = outcome[n] /\ outcome[n] # "true"
      BY <1>6, <2>4
    <3>2. Leaseholder(n)'.token # n
      BY <1>2, <1>4, <1>5, <2>4
    <3> QED BY <2>2, <3>1, <3>2
  <2>5. CASE leases[n] # leases[k]
    <3>1. leases[n][1] # leases[k][1] \/ leases[n][2] # leases[k][2]
      BY <1>1, <1>4, <2>5
    <3>2. Faithful(db.event[leases[n][1]], db'.event[leases[n][1]], leases[n][2])
      BY <1>2, <1>4, <3>1 DEF Addresses, Spared
    <3>3. outcome'[n] = outcome[n] /\ leases'[n] = leases[n]
      BY <1>1, <2>5
    <3> QED BY <2>1, <3>2, <3>3, TruthKept
  <2> QED BY <2>3, <2>4, <2>5
<1>8. Once'
  <2> SUFFICES ASSUME NEW m \in DOMAIN leases, NEW n \in DOMAIN leases,
                      m # n, leases[m] = leases[n], outcome'[m] = "true"
               PROVE  outcome'[n] # "true"
    BY <1>1 DEF Once
  <2>1. CASE m = k
    BY <1>6, <2>1
  <2>2. CASE n = k
    BY <1>6, <2>2
  <2>3. CASE m # k /\ n # k
    BY <1>1, <2>3 DEF History, Once
  <2> QED BY <2>1, <2>2, <2>3
<1> QED BY <1>1, <1>7, <1>8 DEF History

\* A delivery is acknowledged, or not.
LEMMA AcknowledgedStep ==
    ASSUME EventInv, EventInv', ConsumersOk, NEW c \in Consumers,
           Acknowledged(c) \/ AcknowledgeFails(c)
    PROVE  ConsumersOk'
<1>1. Counts /\ History /\ Calls
  BY DEF ConsumersOk
<1>2. PICK k : k = call[c].k
  OBVIOUS
<1>3. k \in DOMAIN leases /\ wire' = wire /\ (Fault \/ NoFault)
  BY <1>1, <1>2, BusyPhases DEF Calls, CallOk, Acknowledged, AcknowledgeFails
<1>4. \/ Acknowledge(k) /\ (EndsAs(c, "true") \/ EndsAs(c, "indeterminate"))
      \/ (Refuses(k) \/ NotSent) /\ (EndsAs(c, "failed") \/ EndsAs(c, "indeterminate"))
  BY <1>2 DEF Acknowledged, AcknowledgeFails, Verdict
<1>5. ASSUME Refuses(k) \/ NotSent, NEW result \in {"failed", "indeterminate"},
             EndsAs(c, result)
      PROVE  ConsumersOk'
  <2>1. Calm
    BY <1>1, <1>3, <1>5, RefusesCalm, UnchangedCalm DEF NotSent
  <2> QED BY <1>3, <1>5, <2>1, EndsKeep
<1>6. ASSUME Acknowledge(k), NEW result \in {"true", "indeterminate"}, EndsAs(c, result)
      PROVE  ConsumersOk'
  <2>1. result \in Outcomes /\ k # 0
    BY <1>3, Tokens DEF Outcomes
  <2>2. Hits(k)
    BY <1>3, <1>6, AcknowledgeGood DEF Hits
  <2>3. /\ Counts' /\ Calls' /\ \A d \in Consumers : BeatOk(d)'
        /\ outcome' \in Seq(Outcomes) /\ Len(outcome') = Len(outcome)
        /\ outcome[k] \in {"running", "handled"} /\ outcome'[k] = result
        /\ \A n \in DOMAIN leases : n # k => outcome'[n] = outcome[n]
    BY <1>2, <1>3, <1>6, <2>1, <2>2, EndsOnHit
  <2>4. History'
    BY <1>6, <2>2, <2>3, AcknowledgedHistory
  <2> QED BY <2>3, <2>4 DEF ConsumersOk
<1> QED BY <1>4, <1>5, <1>6

\* A delivery that is given out is the newest, and so is what is said of it.
LEMMA NewestOutcome ==
    ASSUME EventInv, ConsumersOk, NEW e \in Events, NEW g \in Gens, NEW result \in Outcomes,
           leases' = Append(leases, <<e, g>>), outcome' = Append(outcome, result),
           NEW k, k = Len(leases) + 1
    PROVE  /\ k \in Nat /\ k \notin DOMAIN leases /\ DOMAIN leases' = DOMAIN leases \cup {k}
           /\ Len(leases') = k /\ leases'[k] = <<e, g>> /\ outcome'[k] = result
           /\ outcome' \in Seq(Outcomes) /\ Len(outcome') = k
           /\ \A n \in DOMAIN leases : leases'[n] = leases[n] /\ outcome'[n] = outcome[n]
<1>1. outcome \in Seq(Outcomes) /\ Len(outcome) = Len(leases)
  BY DEF ConsumersOk, History
<1>2. leases \in Seq(Events \X Gens)
  BY DEF EventInv
<1>3. /\ Len(leases) \in Nat /\ DOMAIN leases = 1..Len(leases) /\ DOMAIN leases' = 1..k
      /\ Len(leases') = k /\ leases'[k] = <<e, g>>
      /\ \A n \in DOMAIN leases : leases'[n] = leases[n]
  BY <1>2, NewestLease
<1>4. /\ outcome' \in Seq(Outcomes) /\ Len(outcome') = k /\ outcome'[k] = result
      /\ \A n \in DOMAIN leases : outcome'[n] = outcome[n]
  BY <1>1, <1>3
<1>5. k \in Nat /\ k \notin DOMAIN leases /\ DOMAIN leases' = DOMAIN leases \cup {k}
  BY <1>3
<1> QED BY <1>3, <1>4, <1>5

\* What was said of the earlier deliveries stays true.
LEMMA DeliveredHistory ==
    ASSUME EventInv, ConsumersOk, NEW e \in Events, NEW g \in Gens,
           Delivers(e, g, LeaseMs), NEW result \in {"running", "unclaimed"},
           outcome' = Append(outcome, result)
    PROVE  History'
<1>1. PICK k : k = Len(leases) + 1
  OBVIOUS
<1>2. leases' = Append(leases, <<e, g>>) /\ Leases(e, g, k, LeaseMs)
  BY <1>1 DEF Delivers
<1>3. PICK q \in Recipient : Assigns(e, g, q) /\ q.token = k
  BY <1>2 DEF Leases
<1>4. /\ k \in Nat /\ k \notin DOMAIN leases /\ DOMAIN leases' = DOMAIN leases \cup {k}
      /\ Len(leases') = k /\ leases'[k] = <<e, g>> /\ outcome'[k] = result
      /\ outcome' \in Seq(Outcomes) /\ Len(outcome') = k
      /\ \A n \in DOMAIN leases : leases'[n] = leases[n] /\ outcome'[n] = outcome[n]
  <2>1. result \in Outcomes
    BY DEF Outcomes
  <2> QED BY <1>1, <1>2, <2>1, NewestOutcome
<1>5. /\ db.event[e].status = "active" /\ db.event[e].recipients[g].status = "pending"
      /\ db'.event[e].recipients[g] = q /\ q.status = "pending" /\ Addresses(e, g)
  BY <1>3 DEF Assigns, Owing
<1>6. History
  BY DEF ConsumersOk
<1>7. \A n \in DOMAIN leases :
         /\ leases[n] \in Events \X Gens /\ leases[n][1] \in Events /\ leases[n][2] \in Gens
  BY Tokens
<1>8. \A n \in DOMAIN leases : leases[n] = <<e, g>> => outcome[n] # "true"
  BY <1>5, <1>6, SMTT(30) DEF History, TruthAt, Leaseholder
<1>9. ASSUME NEW n \in DOMAIN leases' PROVE TruthAt(n)'
  <2>1. TruthAt(n)' =
          LET r == Leaseholder(n)'
          IN /\ outcome'[n] = "true" =>
                   \/ db'.event[leases'[n][1]].status = "absent"
                   \/ r.status = "acknowledged" /\ r.token = n
             /\ r.status = "acknowledged" /\ r.token = n =>
                   outcome'[n] \in {"true", "indeterminate"}
             /\ outcome'[n] = "released" => r.token # n
    BY DEF TruthAt
  <2>2. CASE n = k
    <3>1. Leaseholder(n)' = q
      BY <1>4, <1>5, <2>2 DEF Leaseholder
    <3> QED BY <1>4, <1>5, <2>1, <2>2, <3>1
  <2>3. CASE n # k /\ leases[n] = <<e, g>>
    <3>1. n \in DOMAIN leases /\ Leaseholder(n)' = q
      BY <1>4, <1>5, <2>3 DEF Leaseholder
    <3>2. outcome'[n] = outcome[n] /\ outcome[n] # "true" /\ q.token # n
      BY <1>3, <1>4, <1>8, <2>3, <3>1
    <3> QED BY <1>5, <2>1, <3>1, <3>2
  <2>4. CASE n # k /\ leases[n] # <<e, g>>
    <3>1. n \in DOMAIN leases
      BY <1>4, <2>4
    <3>2. leases[n][1] # e \/ leases[n][2] # g
      BY <1>7, <2>4, <3>1
    <3>3. Faithful(db.event[leases[n][1]], db'.event[leases[n][1]], leases[n][2])
      BY <1>5, <1>7, <3>1, <3>2 DEF Addresses, Spared
    <3>4. TruthAt(n) /\ outcome'[n] = outcome[n] /\ leases'[n] = leases[n]
      BY <1>4, <1>6, <3>1 DEF History
    <3> QED BY <3>1, <3>3, <3>4, TruthKept, Zenon
  <2> QED BY <2>2, <2>3, <2>4
<1>10. Once'
  <2> SUFFICES ASSUME NEW m \in DOMAIN leases', NEW n \in DOMAIN leases',
                      m # n, leases'[m] = leases'[n], outcome'[m] = "true"
               PROVE  outcome'[n] # "true"
    BY Zenon DEF Once
  <2>1. CASE m = k
    BY <1>4, <2>1
  <2>2. CASE n = k
    BY <1>4, <2>2
  <2>3. CASE m # k /\ n # k
    BY <1>4, <1>6, <2>3 DEF History, Once
  <2> QED BY <2>1, <2>2, <2>3, Zenon
<1> QED BY <1>4, <1>9, <1>10 DEF History

\* The handlers of earlier deliveries go on: if one of them is of the same event,
\* its lease has run out, so that something had failed.
LEMMA DeliveredBeats ==
    ASSUME EventInv, EventInv', ConsumersOk, NEW e \in Events, NEW g \in Gens,
           Delivers(e, g, LeaseMs), NEW c \in Consumers, call'[c] = call[c],
           wire' = wire, faults' = 0 => faults = 0
    PROVE  BeatOk(c)'
<1>1. CASE ~Handling(c)' \/ faults' # 0
  BY <1>1 DEF BeatOk
<1>2. CASE Handling(c)' /\ faults' = 0
  <2>1. PICK n, f, h : n = call[c].k /\ f = leases[n][1] /\ h = call[c].g
    OBVIOUS
  <2>2. Handling(c) /\ faults = 0 /\ Calls /\ BeatOk(c) /\ GoesOn(c)
    BY <1>2 DEF Handling, In, ConsumersOk, GoesOn
  <2>3. n \in DOMAIN leases /\ leases[n][2] = h
    BY <2>1, <2>2, BusyPhases DEF Calls, CallOk
  <2>4. leases[n] \in Events \X Gens /\ f \in Events /\ h \in Gens
    BY <2>1, <2>3, Tokens
  <2>5. leases'[n] = leases[n]
    BY <2>3, NewestLease DEF Delivers, EventInv
  <2>6. PICK q \in Recipient : Assigns(e, g, q)
    BY DEF Delivers, Leases
  <2>7. Addresses(e, g)
    BY <2>6 DEF Assigns
  <2>8. CASE f # e \/ h # g
    <3>1. Spared(db.event[f], db'.event[f], h)
      BY <2>4, <2>7, <2>8 DEF Addresses
    <3>2. Registered(db, h)' => Registered(db, h)
      BY <2>7 DEF Registered, Addresses
    <3>3. Registered(db, call[c].g)' => Registered(db, call[c].g)
      BY <2>1, <3>2 DEF Registered
    <3>4. db'.now = db.now
      BY <2>7 DEF Addresses
    <3> QED BY <2>1, <2>2, <2>5, <3>1, <3>3, <3>4, BeatKept, Zenon
  <2>9. CASE f = e /\ h = g
    <3>1. ~Alive(e, g)'
      <4> SUFFICES ASSUME Alive(e, g)' PROVE FALSE
        OBVIOUS
      <4>1. Alive(e, g)
        <5>1. db.event[e].status = "active" /\ db'.event[e].expiresAt = db.event[e].expiresAt
          BY <2>6 DEF Assigns, Owing
        <5> QED BY <2>7, <5>1 DEF Alive, Addresses, Registered, InTime
      <4>2. RunsOn(n)
        BY <2>1, <2>2, <2>9, <4>1 DEF BeatOk
      <4>3. db.event[e].recipients[g].until # Out /\ db.event[e].recipients[g].until > db.now
        BY <2>1, <2>3, <2>9, <4>2 DEF RunsOn, Leaseholder
      <4>4. \/ db.event[e].recipients[g].until = Out
            \/ db.event[e].recipients[g].until <= db.now
        BY DEF Delivers
      <4>5. db.event[e].recipients[g].until \in Score /\ db.now \in Nat
        <5>1. db.event[e] \in Event /\ db.now \in Nat
          BY DEF EventInv, Good, Sound, Keyspace
        <5> QED BY <5>1 DEF Event, Recipient
      <4> QED BY <4>3, <4>4, <4>5 DEF Score, Out
    <3>2. call[c].beat = Out => n \in wire'
      BY <2>1, <2>2 DEF BeatOk
    <3>3. call'[c].k = n /\ call'[c].g = g /\ leases'[n][1] = e /\ call'[c].beat = call[c].beat
      BY <2>1, <2>5, <2>9
    <3> QED BY <3>1, <3>2, <3>3 DEF BeatOk
  <2> QED BY <2>8, <2>9
<1> QED BY <1>1, <1>2

\* A delivery is given out, to a handler or to nobody.
LEMMA DeliveredStep ==
    ASSUME EventInv, EventInv', ConsumersOk, NEW c \in Consumers, In(c, "taking"),
           NEW e \in Events, NEW g, g = call[c].g, Delivers(e, g, LeaseMs),
           NEW x \in Call, call' = [call EXCEPT ![c] = x],
           NEW result \in {"running", "unclaimed"}, outcome' = Append(outcome, result),
           \/ x = Idle
           \/ /\ x.phase = "handling" /\ x.k = Len(leases) + 1 /\ x.g = g
              /\ x.beat = db.now /\ result = "running",
           wire' = wire, Fault \/ NoFault
    PROVE  ConsumersOk'
<1>1. Counts /\ History /\ Calls
  BY DEF ConsumersOk
<1>2. PICK k : k = Len(leases) + 1
  OBVIOUS
<1>3. g \in DOMAIN handles /\ call[c].phase \notin Busy
  BY <1>1 DEF Calls, CallOk, In, Busy
<1>4. /\ leases' = Append(leases, <<e, g>>) /\ Leases(e, g, k, LeaseMs)
      /\ Len(leases) < MaxLeases
  BY <1>2 DEF Delivers
<1>5. g \in Gens /\ Addresses(e, g) /\ db.event[e].status = "active"
  BY <1>4 DEF Leases, Assigns, Owing
<1>6. /\ k \in Nat /\ k \notin DOMAIN leases /\ DOMAIN leases' = DOMAIN leases \cup {k}
      /\ Len(leases') = k /\ leases'[k] = <<e, g>> /\ outcome'[k] = result
      /\ \A n \in DOMAIN leases : leases'[n] = leases[n] /\ outcome'[n] = outcome[n]
  <2>1. result \in Outcomes
    BY DEF Outcomes
  <2> QED BY <1>2, <1>4, <1>5, <2>1, NewestOutcome
<1>7. faults' \in Nat /\ (faults' = 0 => faults = 0)
  BY Faults
<1>8. Counts'
  <2>1. Len(leases') <= MaxLeases
    <3>1. Len(leases) \in Nat
      BY DEF EventInv
    <3> QED BY <1>2, <1>4, <1>6, <3>1, BoundsAssumption
  <2>2. e \in emitted
    BY <1>5 DEF EventInv
  <2>3. handles' = handles /\ emitted' = emitted
    BY <1>5 DEF Addresses
  <2>4. ASSUME NEW n \in DOMAIN leases'
        PROVE  leases'[n][1] \in emitted' /\ leases'[n][2] \in DOMAIN handles'
    BY <1>1, <1>3, <1>6, <2>2, <2>3 DEF Counts
  <2>5. wire' \subseteq DOMAIN leases'
    BY <1>1, <1>6 DEF Counts
  <2> QED BY <1>1, <1>7, <2>1, <2>3, <2>4, <2>5 DEF Counts
<1>9. History'
  BY <1>3, <1>5, DeliveredHistory
<1>10. call'[c] = x /\ \A d \in Consumers : d # c => call'[d] = call[d]
  BY <1>1 DEF Calls
<1>11. Calls'
  <2>1. call' \in [Consumers -> Call]
    BY <1>1 DEF Calls
  <2>2. CallOk(c)'
    <3>1. CASE x = Idle
      BY <1>10, <3>1, IdleCall DEF CallOk, Busy
    <3>2. CASE /\ x.phase = "handling" /\ x.k = Len(leases) + 1 /\ x.g = g
               /\ result = "running"
      <4>1. /\ x.k = k /\ k \in DOMAIN leases' /\ leases'[k][2] = g
            /\ outcome'[k] = "running" /\ x.phase \in Busy
        BY <1>2, <1>6, <3>2 DEF Busy
      <4>2. call'[c].phase = "handling" /\ call'[c].k = k /\ call'[c].g = g
        BY <1>10, <3>2, <4>1
      <4> QED BY <4>1, <4>2, Zenon DEF CallOk, Busy
    <3> QED BY <3>1, <3>2
  <2>3. ASSUME NEW d \in Consumers, d # c PROVE CallOk(d)'
    <3>1. CallOk(d) /\ call'[d] = call[d]
      BY <1>1, <1>10, <2>3 DEF Calls
    <3>2. handles' = handles
      BY <1>5 DEF Addresses
    <3> QED BY <1>6, <3>1, <3>2, Zenon DEF CallOk, Busy
  <2>4. \A d \in Consumers : d # c => call'[d].k \in DOMAIN leases \cup {0}
    BY <1>1, <1>10 DEF Calls, CallOk
  <2>5. call'[c].k \in {0, k}
    BY <1>2, <1>10, IdleCall
  <2>6. k # 0
    <3>1. Len(leases) \in Nat
      BY DEF EventInv
    <3> QED BY <1>2, <3>1
  <2>7. ASSUME NEW d \in Consumers, NEW f \in Consumers, d # f, call'[d].k = call'[f].k
        PROVE  call'[d].k = 0
    <3>1. CASE d # c /\ f # c
      BY <1>1, <1>10, <2>7, <3>1 DEF Calls
    <3>2. CASE d = c \/ f = c
      BY <1>6, <2>4, <2>5, <2>7, <3>2
    <3> QED BY <3>1, <3>2
  <2>8. \A d \in Consumers : CallOk(d)'
    <3> SUFFICES ASSUME NEW d \in Consumers PROVE CallOk(d)'
      OBVIOUS
    <3>1. CASE d = c
      BY <2>2, <3>1
    <3>2. CASE d # c
      BY <2>3, <3>2
    <3> QED BY <3>1, <3>2
  <2> QED BY <2>1, <2>7, <2>8 DEF Calls
<1>12. BeatOk(c)'
  <2>1. CASE x = Idle
    BY <1>10, <2>1, IdleCall DEF BeatOk, Handling, In
  <2>2. CASE x.k = Len(leases) + 1 /\ x.g = g /\ x.beat = db.now
    <3>1. db.now \in Nat /\ LeaseMs \in Nat \ {0}
      BY OptionsAssumption DEF EventInv, Good, Sound, Keyspace
    <3>2. /\ Alive(e, g)' => RunsOn(k)'
          /\ \/ db.now + 0 < Leaseholder(k)'.until
             \/ Leaseholder(k)'.until = db'.event[e].expiresAt
      BY <1>4, <1>6, <3>1, LeaseRuns, SMTT(30)
    <3>3. /\ call'[c].k = k /\ call'[c].g = g /\ leases'[k][1] = e
          /\ call'[c].beat = db.now /\ call'[c].beat # Out
      BY <1>2, <1>6, <1>10, <2>2, <3>1 DEF Out
    <3>4. \/ call'[c].beat < Leaseholder(k)'.until
          \/ Leaseholder(k)'.until = db'.event[e].expiresAt
      BY <3>1, <3>2, <3>3
    <3> QED BY <3>2, <3>3, <3>4 DEF BeatOk
  <2> QED BY <2>1, <2>2
<1>13. ASSUME NEW d \in Consumers, d # c PROVE BeatOk(d)'
  BY <1>3, <1>5, <1>7, <1>10, <1>13, DeliveredBeats
<1>14. \A d \in Consumers : BeatOk(d)'
  <2> SUFFICES ASSUME NEW d \in Consumers PROVE BeatOk(d)'
    OBVIOUS
  <2>1. CASE d = c
    BY <1>12, <2>1
  <2>2. CASE d # c
    BY <1>13, <2>2
  <2> QED BY <2>1, <2>2
<1> QED BY <1>8, <1>9, <1>11, <1>14 DEF ConsumersOk

\* A delivery is taken: there is one, or none, or its answer is lost.
LEMMA TakenStep ==
    ASSUME EventInv, EventInv', ConsumersOk, NEW c \in Consumers, Taken(c) \/ TakeFails(c)
    PROVE  ConsumersOk'
<1>1. Counts /\ History /\ Calls
  BY DEF ConsumersOk
<1>2. PICK g : g = call[c].g
  OBVIOUS
<1>3. In(c, "taking") /\ wire' = wire /\ (Fault \/ NoFault)
  BY DEF Taken, TakeFails
<1>4. g \in DOMAIN handles /\ call[c].k = 0 /\ call[c] \in Call /\ call[c].g = g
  BY <1>1, <1>2, <1>3 DEF Calls, CallOk, In, Busy
<1>5. NotSent \/ Take(g, LeaseMs)
  BY <1>2 DEF Taken, TakeFails
<1>6. LeaseMs \in LeaseTimes
  BY OptionsAssumption
<1>7. \/ Calm /\ leases' = leases
      \/ \E e \in Events : Delivers(e, g, LeaseMs)
  <2>1. CASE NotSent
    BY <1>1, <2>1, UnchangedCalm DEF NotSent, Calm
  <2>2. CASE Take(g, LeaseMs)
    <3>1. Nothing \/ \E e \in Events : Delivers(e, g, LeaseMs)
      BY <1>4, <1>6, <2>2, TakeGood
    <3> QED BY <1>1, <3>1, NothingCalm DEF Calm
  <2> QED BY <1>5, <2>1, <2>2
<1>8. CASE Calm /\ leases' = leases
  <2>1. call' = [call EXCEPT ![c] = Idle] /\ outcome' = outcome
    BY <1>8 DEF Taken, TakeFails
  <2>2. EndsAs(c, "failed")
    BY <1>4, <2>1 DEF EndsAs
  <2> QED BY <1>3, <1>8, <2>2, EndsKeep
<1>9. ASSUME NEW e \in Events, Delivers(e, g, LeaseMs) PROVE ConsumersOk'
  <2>1. /\ leases' = Append(leases, <<e, g>>) /\ Len(leases) < MaxLeases
        /\ Len(leases) \in Nat
    BY <1>9 DEF Delivers, EventInv
  <2>2. leases' # leases /\ Len(leases') = Len(leases) + 1
    <3>1. g \in Gens
      BY <1>9 DEF Delivers, Leases, Assigns
    <3>2. Len(leases') = Len(leases) + 1
      BY <2>1, <3>1 DEF EventInv
    <3> QED BY <2>1, <3>2
  <2>3. CASE Taken(c)
    <3> DEFINE x == [call[c] EXCEPT !.phase = "handling", !.k = Len(leases) + 1, !.beat = db.now]
    <3>1. call' = [call EXCEPT ![c] = x] /\ outcome' = Append(outcome, "running")
      BY <1>1, <2>2, <2>3, Zenon DEF Taken, Calls
    <3>2. /\ x \in Call /\ x.phase = "handling" /\ x.k = Len(leases) + 1 /\ x.g = g
          /\ x.beat = db.now
      <4>1. db.now \in Score
        BY DEF EventInv, Good, Sound, Keyspace, Score
      <4>2. Len(leases) + 1 \in 0..MaxLeases
        BY <2>1, BoundsAssumption
      <4> QED BY <1>4, <4>1, <4>2, Zenon DEF Call
    <3> HIDE DEF x
    <3> QED BY <1>2, <1>3, <1>9, <3>1, <3>2, DeliveredStep, Zenon
  <2>4. CASE TakeFails(c)
    <3>1. call' = [call EXCEPT ![c] = Idle] /\ outcome' = Append(outcome, "unclaimed")
      BY <2>2, <2>4 DEF TakeFails
    <3> QED BY <1>2, <1>3, <1>9, <3>1, IdleCall, DeliveredStep, Zenon
  <2> QED BY <2>3, <2>4
<1> QED BY <1>7, <1>8, <1>9

\* Time passes, and unless somebody is late no heartbeat has been missed.
LEMMA TickStep ==
    ASSUME EventInv, ConsumersOk, Passes \/ Pauses
    PROVE  ConsumersOk'
<1>1. Counts /\ History /\ Calls
  BY DEF ConsumersOk
<1>2. /\ Tick /\ UNCHANGED <<call, wire, outcome, loop>>
      /\ (~Late /\ faults' = faults) \/ Fault
  BY DEF Passes, Pauses, consumers
<1>3. /\ db' = [db EXCEPT !.now = @ + 1] /\ UNCHANGED <<handles, leases, emitted>>
      /\ db \in Keyspace
  BY <1>2 DEF Tick, EventInv, Good, Sound
<1>4. /\ db'.event = db.event /\ db'.subscriptions = db.subscriptions
      /\ db'.now = db.now + 1 /\ db.now \in Nat
  BY <1>3 DEF Keyspace
<1>5. faults' \in Nat /\ (Fault => faults' # 0)
  BY <1>1, <1>2 DEF Counts, Fault
<1>6. Counts'
  BY <1>1, <1>2, <1>3, <1>5 DEF Counts
<1>7. History'
  <2>1. \A k \in DOMAIN leases : TruthAt(k)'
    <3> SUFFICES ASSUME NEW k \in DOMAIN leases PROVE TruthAt(k)'
      OBVIOUS
    <3>1. TruthAt(k)
      BY <1>1 DEF History
    <3> QED BY <1>2, <1>3, <1>4, <3>1 DEF TruthAt, Leaseholder
  <2> QED BY <1>1, <1>2, <1>3, <2>1 DEF History, Once
<1>8. Calls'
  BY <1>1, <1>2, <1>3 DEF Calls, CallOk
<1>9. ASSUME NEW c \in Consumers PROVE BeatOk(c)'
  <2>1. CASE ~Handling(c)' \/ faults' # 0
    BY <2>1 DEF BeatOk
  <2>2. CASE Handling(c)' /\ faults' = 0
    <3>1. PICK k, e, g : k = call[c].k /\ e = leases[k][1] /\ g = call[c].g
      OBVIOUS
    <3>2. Handling(c) /\ faults = 0 /\ ~Late
      BY <1>2, <1>5, <2>2 DEF Handling, In
    <3>3. call[c].beat # Out
      <4>1. call[c].beat = Out => k \in wire
        BY <3>1, <3>2 DEF ConsumersOk, BeatOk
      <4> QED BY <3>2, <4>1 DEF Late
    <3>4. call[c].beat \in Nat /\ call[c].beat > db.now
      <4>1. call[c].beat \in Nat
        BY <1>1, <3>3 DEF Calls, Call, Score
      <4>2. ~(call[c].beat <= db.now)
        BY <3>2, <3>3 DEF Late, Overdue, Reached
      <4> QED BY <1>4, <4>1, <4>2
    <3>5. k \in DOMAIN leases /\ leases[k][2] = g /\ e \in Events /\ g \in Gens
      BY <1>1, <3>1, <3>2, BusyPhases, Tokens DEF Calls, CallOk
    <3>6. Leaseholder(k)' = Leaseholder(k) /\ Leaseholder(k).until \in Score
      <4>1. Leaseholder(k)' = Leaseholder(k)
        BY <1>3, <1>4 DEF Leaseholder
      <4>2. db.event[e] \in Event
        BY <1>3, <3>5 DEF Keyspace
      <4>3. db.event[e].recipients[g] \in Recipient
        BY <3>5, <4>2 DEF Event
      <4> QED BY <3>1, <3>5, <4>1, <4>3, Zenon DEF Leaseholder, Recipient
    <3>7. ASSUME Alive(e, g)'
          PROVE  /\ RunsOn(k)'
                 /\ \/ call[c].beat < Leaseholder(k).until
                    \/ Leaseholder(k).until = db.event[e].expiresAt
      <4>1. db.event[e].status = "active" /\ InTime(db.event[e], db.now + 1) /\ Registered(db, g)
        BY <1>3, <1>4, <3>7 DEF Alive, Registered
      <4>2. db.event[e].expiresAt \in Score
        BY <1>3, <3>5 DEF Keyspace, Event
      <4>3. Alive(e, g)
        BY <1>4, <4>1, <4>2 DEF Alive, InTime, Score
      <4>4. /\ RunsOn(k)
            /\ \/ call[c].beat < Leaseholder(k).until
               \/ Leaseholder(k).until = db.event[e].expiresAt
        BY <3>1, <3>2, <3>3, <4>3 DEF ConsumersOk, BeatOk
      <4>5. Leaseholder(k).until # Out /\ Leaseholder(k).until \in Nat
        BY <3>6, <4>4 DEF RunsOn, Score
      <4>6. Leaseholder(k).until > db.now + 1
        <5>1. CASE call[c].beat < Leaseholder(k).until
          BY <1>4, <3>4, <4>5, <5>1
        <5>2. CASE Leaseholder(k).until = db.event[e].expiresAt
          BY <1>4, <4>1, <4>5, <5>2 DEF InTime
        <5> QED BY <4>4, <5>1, <5>2
      <4>7. RunsOn(k)'
        BY <1>4, <3>6, <4>4, <4>6 DEF RunsOn
      <4> QED BY <4>4, <4>7
    <3>8. /\ call'[c].k = k /\ call'[c].g = g /\ leases'[k][1] = e
          /\ call'[c].beat = call[c].beat /\ db'.event[e] = db.event[e]
      BY <1>2, <1>3, <1>4, <3>1
    <3> QED BY <3>3, <3>6, <3>7, <3>8 DEF BeatOk
  <2> QED BY <2>1, <2>2
<1> QED BY <1>6, <1>7, <1>8, <1>9 DEF ConsumersOk

\* At first nobody has anything.
LEMMA ConsumersStart == EInit => EventInv /\ ConsumersOk
<1> SUFFICES ASSUME EInit PROVE EventInv /\ ConsumersOk
  OBVIOUS
<1>1. /\ Init /\ call = [c \in Consumers |-> Idle] /\ wire = {} /\ outcome = <<>> /\ faults = 0
  BY DEF EInit
<1>2. EventInv
  BY <1>1, InitGood
<1>3. leases = <<>> /\ handles = <<>>
  BY <1>1 DEF Init
<1>4. DOMAIN leases = {} /\ Len(leases) = 0 /\ Len(handles) = 0
  BY <1>3
<1>5. Counts
  BY <1>1, <1>4, BoundsAssumption DEF Counts
<1>6. History
  BY <1>1, <1>3, <1>4 DEF History, Once
<1>7. \A c \in Consumers : call[c] = Idle
  BY <1>1
<1>8. \A c \in Consumers : CallOk(c) /\ BeatOk(c)
  BY <1>7, IdleCall DEF CallOk, BeatOk, Busy, Handling, In
<1>9. Calls
  BY <1>1, <1>7, <1>8, IdleCall DEF Calls
<1> QED BY <1>2, <1>5, <1>6, <1>8, <1>9 DEF ConsumersOk

\* Nothing happens.
LEMMA StutterStep ==
    ASSUME EventInv, ConsumersOk, UNCHANGED everything
    PROVE  EventInv' /\ ConsumersOk'
<1>1. /\ UNCHANGED <<db, handles, leases, emitted>> /\ UNCHANGED vars
      /\ UNCHANGED <<call, wire, outcome, faults>>
  BY DEF everything, vars, consumers
<1>2. EventInv'
  BY <1>1, EventStep
<1>3. Calm
  BY <1>1, UnchangedCalm DEF ConsumersOk
<1>4. faults' \in Nat /\ (faults' = 0 => faults = 0)
  BY <1>1 DEF ConsumersOk, Counts
<1> QED BY <1>1, <1>2, <1>3, <1>4, OthersKeep

\* Every step keeps what the consumers rely on.
LEMMA ConsumerStep ==
    ASSUME EventInv, ConsumersOk, [ENext]_everything
    PROVE  EventInv' /\ ConsumersOk'
<1>1. CASE UNCHANGED everything
  BY <1>1, StutterStep
<1>2. CASE ENext
  <2>1. EventInv'
    BY <1>2, EngineStep, EventStep
  <2>2. ASSUME NEW c \in Consumers, Proceeds(c) PROVE ConsumersOk'
    BY <2>1, <2>2, BeginStep, TakenStep, BeatStep, ReleasedStep, AcknowledgedStep
       DEF Proceeds
  <2>3. ASSUME NEW c \in Consumers, Suffers(c) PROVE ConsumersOk'
    BY <2>1, <2>3, TakenStep, DiesStep, ReleasedStep, AcknowledgedStep DEF Suffers
  <2>4. ASSUME NEW c \in Consumers, NEW ok \in BOOLEAN, HandlerEnds(c, ok) PROVE ConsumersOk'
    BY <2>1, <2>4, HandlerEndsStep
  <2>5. ASSUME NEW k \in wire, RenewalArrives(k) \/ RenewalFails(k) PROVE ConsumersOk'
    BY <2>1, <2>5, RenewalStep
  <2>6. CASE Maintained \/ MaintenanceFails \/ RunMaintenance \/ Others
    BY <2>1, <2>6, OthersStep
  <2>7. CASE Passes \/ Pauses
    BY <2>1, <2>7, TickStep
  <2> QED BY <1>2, <2>1, <2>2, <2>3, <2>4, <2>5, <2>6, <2>7 DEF ENext
<1> QED BY <1>1, <1>2

-----------------------------------------------------------------------------
(* What processOne promises.                                                   *)

\* Every delivery is told the truth about, calls keep apart, and heartbeats are in
\* time, whatever fails and in whatever order requests arrive.
THEOREM ConsumerInvariant == ESpec => [](EventInv /\ ConsumersOk)
<1>1. EInit => EventInv /\ ConsumersOk
  BY ConsumersStart
<1>2. EventInv /\ ConsumersOk /\ [ENext]_everything => (EventInv /\ ConsumersOk)'
  BY ConsumerStep
<1> QED BY <1>1, <1>2, PTL DEF ESpec

\* Consumers do nothing to the store that is not an operation of the engine, so that
\* all that is proved of the engine holds with them.
THEOREM ConsumersUseTheEngine == ESpec => Spec
<1>1. EInit => Init
  BY DEF EInit
<1>2. EventInv /\ ConsumersOk /\ [ENext]_everything => [Next]_vars
  <2> SUFFICES ASSUME EventInv, ConsumersOk, [ENext]_everything PROVE [Next]_vars
    OBVIOUS
  <2>1. CASE ENext
    BY <2>1, EngineStep
  <2>2. CASE UNCHANGED everything
    BY <2>2 DEF everything
  <2> QED BY <2>1, <2>2
<1> QED BY <1>1, <1>2, ConsumerInvariant, PTL DEF ESpec, Spec

\* What processOne tells its caller is so (OutcomesTruthful).
THEOREM OutcomesAreTruthful == ESpec => []OutcomesTruthful
<1>1. ConsumersOk => OutcomesTruthful
  <2> SUFFICES ASSUME ConsumersOk PROVE OutcomesTruthful
    OBVIOUS
  <2>1. Calls /\ History
    BY DEF ConsumersOk
  <2>2. call \in [Consumers -> Call] /\ outcome \in Seq(Outcomes) /\ Len(outcome) = Len(leases)
    BY <2>1 DEF Calls, History
  <2>3. ASSUME NEW k \in DOMAIN leases
        PROVE  LET e == leases[k][1]
                   r == db.event[e].recipients[leases[k][2]]
               IN /\ outcome[k] = "true" =>
                        /\ \/ db.event[e].status = "absent"
                           \/ r.status = "acknowledged" /\ r.token = k
                        /\ \A n \in DOMAIN leases \ {k} :
                              leases[n] = leases[k] => outcome[n] # "true"
                  /\ r.status = "acknowledged" /\ r.token = k =>
                        outcome[k] \in {"true", "indeterminate"}
                  /\ outcome[k] = "released" => r.token # k
    <3>1. TruthAt(k)
      BY <2>1 DEF History
    <3>2. outcome[k] = "true" =>
             \A n \in DOMAIN leases \ {k} : leases[n] = leases[k] => outcome[n] # "true"
      BY <2>1 DEF History, Once
    <3> QED BY <3>1, <3>2 DEF TruthAt, Leaseholder
  <2> QED BY <2>2, <2>3 DEF OutcomesTruthful
<1> QED BY <1>1, ConsumerInvariant, PTL

\* While requests are answered at once a heartbeat keeps its lease (HeartbeatHolds).
THEOREM HeartbeatsHold == ESpec => []HeartbeatHolds
<1>1. EventInv /\ ConsumersOk => HeartbeatHolds
  <2> SUFFICES ASSUME EventInv, ConsumersOk, NEW c \in Consumers,
                      Handling(c), faults = 0, Registered(db, call[c].g),
                      Normal(db, leases[call[c].k][1]).status = "active"
               PROVE  Holds(db, call[c].k)
    BY DEF HeartbeatHolds
  <2>1. PICK k, e, g : k = call[c].k /\ e = leases[k][1] /\ g = call[c].g
    OBVIOUS
  <2>2. k \in DOMAIN leases /\ leases[k][2] = g /\ e \in Events
    BY <2>1, BusyPhases, Tokens DEF ConsumersOk, Calls, CallOk
  <2>3. db.event[e].status = "active" /\ InTime(db.event[e], db.now)
    <3>1. Normal(db, e).status = "active"
      BY <2>1
    <3>2. db.event[e].status # "absent"
      BY <3>1, NoEventType DEF Normal
    <3>3. /\ db \in Keyspace /\ Enrolled(db, handles)
          /\ db.event[e].status = "active" => db.event[e].resolvedAt <= db.now
      BY <2>2, <3>2 DEF EventInv, Good, Sound, Judged
    <3>4. db.event[e].status = "active" /\ ~Reached(db.event[e].expiresAt, db.now)
      BY <2>2, <3>1, <3>2, <3>3, NormalActive
    <3>5. db.event[e].expiresAt \in Score /\ db.now \in Nat
      BY <2>2, <3>3 DEF Keyspace, Event
    <3> QED BY <3>4, <3>5 DEF Reached, InTime, Score
  <2>4. Alive(e, g)
    BY <2>1, <2>3 DEF Alive
  <2>5. RunsOn(k)
    BY <2>1, <2>4 DEF ConsumersOk, BeatOk
  <2> QED BY <2>1, <2>2, <2>4, <2>5, Zenon DEF Holds, RunsOn, Leaseholder, Alive
<1> QED BY <1>1, ConsumerInvariant, PTL
================================================================================
