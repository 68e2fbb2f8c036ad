------------------------------ MODULE EventEngine ------------------------------
(***************************************************************************)
(* The event engine of effectmq: src/lua/eventEngine.lua, one Redis script *)
(* that runs every operation atomically against the keys of one queue.     *)
(*                                                                         *)
(* Deadlines, removals and retention take effect lazily: normalize brings  *)
(* one event up to date when an operation touches it, and maintain does so *)
(* for a bounded batch of each kind.  `db` is the keyspace and the clock,  *)
(* `handles` the subscriptions that were ever given out (the place in the  *)
(* sequence is the generation, `left` records when it was unsubscribed),   *)
(* `leases` the deliveries that were ever given out (the place is the      *)
(* lease token) and `emitted` the event ids that were used up.  A client   *)
(* may present any handle or token at any time, late, repeatedly or never. *)
(*                                                                         *)
(* Left out here: payloads, the conflict of two policies for one queue and *)
(* corrupt records, which refuse an operation before it changes anything.  *)
(***************************************************************************)
EXTENDS Integers, Sequences, FiniteSets

CONSTANTS
    Events,             \* event ids, each used once
    Names,              \* subscription names
    Lifetimes,          \* ttlMs of an emission; Out for none
    LeaseTimes,         \* leaseMs of take and renew
    Delays,             \* delayMs of release
    Archive,            \* policy.onCompletion is "archive", not "delete"
    ArchiveRetention,   \* policy.archiveRetentionMs; Out for none
    Batch,              \* maintenanceBatchSize
    Capacity,           \* active subscriptions of a queue (1000)
    MaxGen,             \* bound: generations given out
    MaxLeases,          \* bound: deliveries given out
    MaxTime             \* bound: the clock

Out == -1               \* null; not in the sorted set
Score == Nat \cup {Out}

ASSUME EventsAssumption == IsFiniteSet(Events) /\ IsFiniteSet(Names)
ASSUME PolicyAssumption ==
    /\ Lifetimes \subseteq Score
    /\ LeaseTimes \subseteq Nat \ {0}
    /\ Delays \subseteq Nat
    /\ Archive \in BOOLEAN
    /\ ArchiveRetention \in Score
ASSUME BoundsAssumption ==
    /\ {Batch, Capacity} \subseteq Nat \ {0}
    /\ {MaxGen, MaxLeases, MaxTime} \subseteq Nat

VARIABLES db, handles, leases, emitted

vars == <<db, handles, leases, emitted>>

-----------------------------------------------------------------------------
(* The keyspace. *)

Gens == 1..MaxGen

Recipient ==
    [status : {"none", "pending", "acknowledged", "waived"},
     token : 0..MaxLeases, until : Score]
NoRecipient == [status |-> "none", token |-> 0, until |-> Out]

\* The record event:<id>; "absent" stands for a key that does not exist.
Event ==
    [status : {"absent", "active", "completed", "expired"},
     resolvedAt : Nat, expiresAt : Score, settledAt : Score, archiveUntil : Score,
     recipients : [Gens -> Recipient]]
NoEvent ==
    [status |-> "absent", resolvedAt |-> 0, expiresAt |-> Out, settledAt |-> Out,
     archiveUntil |-> Out, recipients |-> [g \in Gens |-> NoRecipient]]

Keyspace ==
    [now : Nat,
     subscriptions : [Names -> 0..MaxGen],      \* 0: not subscribed
     removed : [Gens -> Score],
     retired : [Gens -> Score],
     event : [Events -> Event],
     delivery : [Gens -> [Events -> Score]],
     deadlines : [Events -> Score],
     archives : [Events -> Score],
     archiveDeadlines : [Events -> Score]]

EmptyKeyspace ==
    [now |-> 0,
     subscriptions |-> [n \in Names |-> 0],
     removed |-> [g \in Gens |-> Out],
     retired |-> [g \in Gens |-> Out],
     event |-> [e \in Events |-> NoEvent],
     delivery |-> [g \in Gens |-> [e \in Events |-> Out]],
     deadlines |-> [e \in Events |-> Out],
     archives |-> [e \in Events |-> Out],
     archiveDeadlines |-> [e \in Events |-> Out]]

Registered(s, g) == g \in DOMAIN handles /\ s.subscriptions[handles[g].name] = g

Reached(t, now) == t # Out /\ t <= now
Pending(r) == {g \in Gens : r.recipients[g].status = "pending"}
Settled(r) == r.status \in {"completed", "expired"}

-----------------------------------------------------------------------------
(* Bringing events up to date. *)

\* The pending recipients of e that were unsubscribed before its deadline.
Waivers_Late(s, e) == {g \in Pending(s.event[e]) : s.removed[g] # Out}
Waivers(s, e) ==
    LET deadline == s.event[e].expiresAt
    IN {g \in Pending(s.event[e]) :
            /\ s.removed[g] # Out
            /\ deadline = Out \/ s.removed[g] < deadline}

\* Overwrites resolvedAt before it knows whether there was a removal.
Waive(s, e) ==
    LET W == Waivers(s, e)
        times == {s.event[e].resolvedAt} \cup {s.removed[g] : g \in W}
    IN [s.event[e] EXCEPT
          !.recipients = [g \in Gens |->
              IF g \in W THEN [NoRecipient EXCEPT !.status = "waived"] ELSE @[g]],
          !.resolvedAt = CHOOSE t \in times : \A u \in times : u <= t]

\* settle: the record that is kept of r, if any.
Settle(s, r, status, at) ==
    LET archiveUntil == IF ArchiveRetention = Out THEN Out ELSE at + ArchiveRetention
    IN IF ~Archive \/ Reached(archiveUntil, s.now)
       THEN NoEvent
       ELSE [r EXCEPT !.status = status,
                      !.settledAt = at,
                      !.archiveUntil = archiveUntil,
                      !.recipients = [g \in Gens |-> [@[g] EXCEPT !.until = Out]]]

\* The record of e once it is up to date.
Normal_ExpiredFirst(s, e) ==
    LET r == Waive(s, e)
    IN IF s.event[e].status # "active"
       THEN IF Reached(s.event[e].archiveUntil, s.now) THEN NoEvent ELSE s.event[e]
       ELSE IF Reached(r.expiresAt, s.now) THEN Settle(s, r, "expired", r.expiresAt)
       ELSE IF Pending(r) = {} THEN Settle(s, r, "completed", r.resolvedAt)
       ELSE r
Normal(s, e) ==
    LET r == Waive(s, e)
    IN IF s.event[e].status # "active"
       THEN IF Reached(s.event[e].archiveUntil, s.now) THEN NoEvent ELSE s.event[e]
       ELSE IF Pending(r) = {} THEN Settle(s, r, "completed", r.resolvedAt)
       ELSE IF Reached(r.expiresAt, s.now) THEN Settle(s, r, "expired", r.expiresAt)
       ELSE r

\* The writes of settle and purge to the indices, when the records of E
\* become those of `new`.
Reindexed(s, E, new) ==
    LET closed == {e \in E : s.event[e].status = "active" /\ new[e].status # "active"}
        purged == {e \in E : new[e].status = "absent"}
        kept == closed \ purged
    IN [s EXCEPT
          !.event = [e \in Events |-> IF e \in E THEN new[e] ELSE @[e]],
          !.delivery = [g \in Gens |-> [e \in Events |->
              IF \/ e \in closed \cup purged /\ s.event[e].recipients[g].status # "none"
                 \/ /\ e \in E
                    /\ g \in Pending(s.event[e])
                    /\ new[e].recipients[g].status = "waived"
              THEN Out ELSE @[g][e]]],
          !.deadlines = [e \in Events |-> IF e \in closed \cup purged THEN Out ELSE @[e]],
          !.archives = [e \in Events |->
              IF e \in purged THEN Out
              ELSE IF e \in kept THEN new[e].settledAt ELSE @[e]],
          !.archiveDeadlines = [e \in Events |->
              IF e \in purged THEN Out
              ELSE IF e \in kept THEN new[e].archiveUntil ELSE @[e]]]

\* normalize for every event of E that exists.
Normalize(s, E) ==
    LET stored == {e \in E : s.event[e].status # "absent"}
    IN Reindexed(s, stored, [e \in stored |-> Normal(s, e)])

Purge(s, E) == Reindexed(s, E, [e \in E |-> NoEvent])

-----------------------------------------------------------------------------
(* The bounded sweep. *)

\* The first `limit` members of a sorted set, ties in any order.
Firsts(index, limit) ==
    LET in == {m \in DOMAIN index : index[m] # Out}
    IN {B \in SUBSET in :
          /\ \/ B = in /\ Cardinality(in) <= limit
             \/ Cardinality(B) = limit /\ Cardinality(in) > limit
          /\ \A b \in B, m \in in \ B : index[b] <= index[m]}

\* Those of them with a score up to now (ZRANGEBYSCORE ... LIMIT).
DueBatches(index, now, limit) ==
    Firsts([m \in DOMAIN index |-> IF Reached(index[m], now) THEN index[m] ELSE Out], limit)

\* What a sweep takes from the delivery index of each retired generation that
\* it visits, the longest retired first.  An event costs one of the budget and
\* so does an empty index; the event that an earlier generation took is gone
\* from the later ones.  (Generations retired in the same millisecond are
\* visited in the order of their numbers.)
Takings(s) ==
    LET queue == {g \in Gens : s.retired[g] # Out}
        Earlier(V, g) == {h \in V : \/ s.retired[h] < s.retired[g]
                                    \/ s.retired[h] = s.retired[g] /\ h < g}
        Taken(took, V) == UNION {took[h] : h \in V}
        Left(took, V) == Batch - Cardinality(Taken(took, V))
                               - Cardinality({h \in V : took[h] = {}})
    IN {took \in UNION {[V -> SUBSET Events] : V \in SUBSET queue} :
          \A g \in queue :
             LET before == Earlier(DOMAIN took, g)
                 index == [e \in Events \ Taken(took, before) |-> s.delivery[g][e]]
             IN /\ g \in DOMAIN took <=> Left(took, before) > 0
                /\ g \in DOMAIN took => took[g] \in Firsts(index, Left(took, before))}

\* A retired generation is forgotten once nothing is left in its index.
Drained_Visited(s, V) == V
Drained(s, V) == {g \in V : \A e \in Events : s.delivery[g][e] = Out}

Retire(s, took) ==
    LET u == Normalize(s, UNION {took[g] : g \in DOMAIN took})
        v == [u EXCEPT !.delivery = [g \in Gens |-> [e \in Events |->
                 IF g \in DOMAIN took /\ e \in took[g] THEN Out ELSE @[g][e]]]]
        done == Drained(v, DOMAIN took)
    IN [v EXCEPT !.removed = [g \in Gens |-> IF g \in done THEN Out ELSE @[g]],
                 !.retired = [g \in Gens |-> IF g \in done THEN Out ELSE @[g]]]

\* A due deadline; one without an event is dropped.
Expire(s, B) ==
    [Normalize(s, B) EXCEPT !.deadlines = [e \in Events |->
        IF e \in B /\ s.event[e].status = "absent" THEN Out ELSE @[e]]]

\* maintain: due deadlines, due archives and retired generations, each with a
\* budget of its own.
Swept(s) ==
    LET expired == {Expire(s, B) : B \in DueBatches(s.deadlines, s.now, Batch)}
        purged == UNION {{Purge(u, B) : B \in DueBatches(u.archiveDeadlines, u.now, Batch)} :
                         u \in expired}
    IN UNION {{Retire(u, took) : took \in Takings(u)} : u \in purged}

-----------------------------------------------------------------------------
(* The operations. *)

\* maintain and listArchived.
Maintain == db' \in Swept(db) /\ UNCHANGED <<handles, leases, emitted>>

\* subscribe to a name that has no subscription; with one, nothing changes.
Subscribe(name) ==
    LET g == Len(handles) + 1
    IN /\ db.subscriptions[name] = 0
       /\ Cardinality({n \in Names : db.subscriptions[n] # 0}) < Capacity
       /\ g \in Gens
       /\ db' = [db EXCEPT !.subscriptions[name] = g]
       /\ handles' = Append(handles, [name |-> name, left |-> Out])
       /\ UNCHANGED <<leases, emitted>>

Unsubscribe(g) ==
    /\ Registered(db, g)
    /\ db' \in Swept([db EXCEPT !.subscriptions[handles[g].name] = 0,
                                !.removed[g] = db.now,
                                !.retired[g] = db.now])
    /\ handles' = [handles EXCEPT ![g].left = db.now]
    /\ UNCHANGED <<leases, emitted>>

Emit(e, ttl) ==
    LET to == {g \in Gens : Registered(db, g)}
        deadline == IF ttl = Out THEN Out ELSE db.now + ttl
        r == [NoEvent EXCEPT
                !.status = "active", !.resolvedAt = db.now, !.expiresAt = deadline,
                !.recipients = [g \in Gens |->
                    IF g \in to THEN [NoRecipient EXCEPT !.status = "pending"]
                                ELSE NoRecipient]]
        u == [db EXCEPT
                !.event[e] = r,
                !.deadlines[e] = deadline,
                !.delivery = [g \in Gens |-> IF g \in to THEN [@[g] EXCEPT ![e] = db.now]
                                                         ELSE @[g]]]
    IN /\ e \notin emitted
       /\ db' = Normalize(u, {e})
       /\ emitted' = emitted \cup {e}
       /\ UNCHANGED <<handles, leases>>

\* get, and what acknowledge, renew and release leave behind when refused.
Get(e) == db' = Normalize(db, {e}) /\ UNCHANGED <<handles, leases, emitted>>

LeaseUntil(s, e, leaseMs) ==
    LET deadline == s.event[e].expiresAt
    IN IF deadline # Out /\ deadline < s.now + leaseMs THEN deadline ELSE s.now + leaseMs

\* The delivery of e to g under the next token.
Leased(s, g, e, leaseMs) ==
    [s EXCEPT !.event[e].recipients[g].token = Len(leases) + 1,
              !.event[e].recipients[g].until = LeaseUntil(s, e, leaseMs),
              !.delivery[g][e] = LeaseUntil(s, e, leaseMs)]

\* take: the due deliveries are walked up to the first that can be leased; the
\* ones before it (all of them, if there is none) have settled and are dropped.
Take(g, leaseMs) ==
    \E B \in DueBatches(db.delivery[g], db.now, Batch) :
        LET score == db.delivery[g]
            all == Normalize(db, B)
            open == {e \in B : all.event[e].status = "active" /\ g \in Pending(all.event[e])}
            Walked(W) ==
                [Normalize(db, W) EXCEPT !.delivery[g] =
                    [e \in Events |-> IF e \in W THEN Out ELSE @[e]]]
        IN /\ Registered(db, g)
           /\ \/ /\ open = {}
                 /\ db' = Walked(B)
                 /\ UNCHANGED <<handles, leases, emitted>>
              \/ /\ Len(leases) < MaxLeases
                 /\ \E e \in open, W \in SUBSET (B \ open) :
                       /\ \A f \in open : score[e] <= score[f]
                       /\ \A f \in W : score[f] <= score[e]
                       /\ \A f \in B \ (open \cup W) : score[e] <= score[f]
                       /\ db' = Leased(Normalize(Walked(W), {e}), g, e, leaseMs)
                       /\ leases' = Append(leases, <<e, g>>)
                 /\ UNCHANGED <<handles, emitted>>

\* May the holder of token k still act on its delivery?
Holds(s, k) ==
    LET e == leases[k][1]
        g == leases[k][2]
        r == s.event[e].recipients[g]
    IN /\ s.event[e].status = "active"
       /\ r.status = "pending"
       /\ r.token = k
       /\ r.until # Out /\ r.until > s.now
       /\ Registered(s, g)

Acknowledge(k) ==
    LET e == leases[k][1]
        g == leases[k][2]
        s == Normalize(db, {e})
        u == [s EXCEPT !.event[e].recipients[g].status = "acknowledged",
                       !.event[e].recipients[g].until = Out,
                       !.event[e].resolvedAt = s.now,
                       !.delivery[g][e] = Out]
    IN /\ Holds(s, k)
       /\ db' = Normalize(u, {e})
       /\ UNCHANGED <<handles, leases, emitted>>

Renew_KeepsScore(k, leaseMs) ==
    LET e == leases[k][1]
        g == leases[k][2]
        s == Normalize(db, {e})
    IN /\ Holds(s, k)
       /\ db' = [s EXCEPT !.event[e].recipients[g].until = LeaseUntil(s, e, leaseMs)]
       /\ UNCHANGED <<handles, leases, emitted>>
Renew(k, leaseMs) ==
    LET e == leases[k][1]
        g == leases[k][2]
        s == Normalize(db, {e})
    IN /\ Holds(s, k)
       /\ db' = [s EXCEPT !.event[e].recipients[g].until = LeaseUntil(s, e, leaseMs),
                          !.delivery[g][e] = LeaseUntil(s, e, leaseMs)]
       /\ UNCHANGED <<handles, leases, emitted>>

Release(k, delayMs) ==
    LET e == leases[k][1]
        g == leases[k][2]
        s == Normalize(db, {e})
    IN /\ Holds(s, k)
       /\ db' = [s EXCEPT !.event[e].recipients[g].token = 0,
                          !.event[e].recipients[g].until = Out,
                          !.delivery[g][e] = s.now + delayMs]
       /\ UNCHANGED <<handles, leases, emitted>>

Tick ==
    /\ db.now < MaxTime
    /\ db' = [db EXCEPT !.now = @ + 1]
    /\ UNCHANGED <<handles, leases, emitted>>

Init ==
    /\ db = EmptyKeyspace
    /\ handles = <<>>
    /\ leases = <<>>
    /\ emitted = {}

\* What the client library offers on top of the engine: each operation is one
\* call, with whatever subscription or delivery its caller kept, however old.
Client ==
    \/ \E n \in Names : Subscribe(n)
    \/ \E e \in Events : Get(e) \/ \E ttl \in Lifetimes : Emit(e, ttl)
    \/ \E g \in DOMAIN handles :
           \/ Unsubscribe(g)
           \/ \E t \in LeaseTimes : Take(g, t)
Consumer(k) ==
    \/ Acknowledge(k)
    \/ \E t \in LeaseTimes : Renew(k, t)
    \/ \E d \in Delays : Release(k, d)

Next ==
    \/ Maintain
    \/ Client
    \/ \E k \in DOMAIN leases : Consumer(k)
    \/ Tick

Spec == Init /\ [][Next]_vars

-----------------------------------------------------------------------------
(* Properties. *)

\* Every key holds what its readers expect of it.
TypeOK ==
    /\ db \in Keyspace
    /\ handles \in Seq([name : Names, left : Score])
    /\ leases \in Seq(Events \X Gens)
    /\ emitted \subseteq Events

\* The indices say exactly what the records say: a delivery is queued while its
\* obligation is open, a deadline while its event is active, an archive entry
\* while its event is kept.  Five operations write them, piece by piece.
IndicesAgree ==
    \A e \in Events :
        LET r == db.event[e]
        IN /\ \A g \in Gens : db.delivery[g][e] # Out <=>
                 r.status = "active" /\ g \in Pending(r)
           /\ db.deadlines[e] = IF r.status = "active" THEN r.expiresAt ELSE Out
           /\ db.archives[e] = IF Settled(r) THEN r.settledAt ELSE Out
           /\ db.archiveDeadlines[e] = IF Settled(r) THEN r.archiveUntil ELSE Out

\* A removal is remembered, with its time, until the last obligation of the
\* generation is waived: an event that still waits for a subscription that is
\* gone will be told.
RemovalRemembered ==
    \A e \in Events, g \in Gens :
        /\ db.event[e].status = "active"
        /\ g \in Pending(db.event[e])
        /\ ~Registered(db, g)
        => db.retired[g] # Out /\ db.removed[g] = handles[g].left

\* A delivery that can be acknowledged is in the hands of one worker: the token
\* on the record is the newest that was given out for it, and the delivery comes
\* back to the queue only when that lease ends, at the deadline at the latest.
LeaseFenced ==
    \A e \in Events, g \in Gens :
        LET r == db.event[e].recipients[g]
        IN r.until # Out =>
               /\ r.token \in DOMAIN leases
               /\ leases[r.token] = <<e, g>>
               /\ \A n \in DOMAIN leases : n > r.token => leases[n] # <<e, g>>
               /\ db.delivery[g][e] = r.until
               /\ db.event[e].expiresAt # Out => r.until <= db.event[e].expiresAt

\* An event is completed, or expired, by what had happened at its deadline and
\* not by when a sweep looked at it: the obligations of a completed one were
\* resolved in time, by acknowledgement or by leaving; in an expired one
\* somebody who was still subscribed at the deadline had not acknowledged.
VerdictOnTime ==
    \A e \in Events :
        LET r == db.event[e]
            to == {g \in Gens : r.recipients[g].status # "none"}
            InTime(t) == r.expiresAt = Out \/ t < r.expiresAt
            WasWaived(g) == handles[g].left # Out /\ InTime(handles[g].left)
        IN /\ r.status = "completed" =>
                 /\ Pending(r) = {}
                 /\ to # {} => InTime(r.settledAt)
                 /\ \A g \in to : r.recipients[g].status = "waived" => WasWaived(g)
           /\ r.status = "expired" =>
                 /\ r.settledAt = r.expiresAt
                 /\ \E g \in Pending(r) : ~WasWaived(g)

\* What the records of the queue must be, whoever wrote them last.
EventsSound == TypeOK /\ IndicesAgree /\ RemovalRemembered /\ VerdictOnTime

\* A live lease is not disturbed: until it ends, and as long as its event is
\* active and its subscription stays, no other worker gets the delivery.
LiveLeaseKept ==
    [][\A e \in Events, g \in Gens :
         LET r == db.event[e].recipients[g]
             q == db'.event[e].recipients[g]
         IN r.until # Out /\ r.until > db.now /\ q.status = "pending"
                => q.token \in {r.token, 0}]_vars

-----------------------------------------------------------------------------
(* The promise of EventBroadcast, where everything happens at once: what `get` *)
(* would answer at any moment is what is promised.                             *)

View(e) ==
    LET r == IF db.event[e].status = "absent" THEN NoEvent ELSE Normal(db, e)
        Having(status) == {g \in Gens : r.recipients[g].status = status}
    IN [status |-> r.status, pending |-> Having("pending"),
        acknowledged |-> Having("acknowledged"), waived |-> Having("waived"),
        expiresAt |-> r.expiresAt, settledAt |-> r.settledAt]

Promise == INSTANCE EventBroadcast WITH
    Never <- Out,
    now <- db.now,
    members <- {g \in Gens : Registered(db, g)},
    event <- [e \in Events |-> View(e)]

\* The lazy engine implements the punctual promise.
KeepsPromise == Promise!Spec
===============================================================================
