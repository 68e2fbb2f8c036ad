------------------------------ MODULE TaskEngine ------------------------------
(***************************************************************************)
(* The task engine of effectmq: src/lua/taskEngine.lua, one Redis script   *)
(* that runs every operation atomically against the keys of one queue.     *)
(*                                                                         *)
(* `db` is that keyspace and Redis' clock.  A Lua helper is an operator    *)
(* from a keyspace to a keyspace; an operation is an action that first     *)
(* runs the bounded sweep SyncAll, as the script does, and then its own    *)
(* body, all in one step.  `leases` is what the clients hold: the lease    *)
(* token of every attempt ever handed out.  A client may present any of    *)
(* its tokens at any time, late, twice or never, so that delayed, repeated *)
(* and lost calls are all behaviours of the model.                         *)
(*                                                                         *)
(* Left out here: payloads and errors, the `created` index and the other   *)
(* metrics, and the per-task history.  Of the event stream only the        *)
(* terminal events are kept.                                               *)
(***************************************************************************)
EXTENDS Integers, Sequences, FiniteSets, Functions

(* A definition named X_Something, just before X, is X with a slip that its  *)
(* code could contain.  Nothing uses it: it is there to confirm that the     *)
(* properties notice.                                                        *)

CONSTANTS
    Ids,            \* task ids
    Configs,        \* what createTask may be given for a task (TaskConfig)
    Delays,         \* offered delays
    LockTimeouts,   \* lease durations asked for by takeTask and extendLock
    RetryDelays,    \* how far in the future writeError may place retryAt
    Holding,        \* whether offers may name a retention holder
    Batch,          \* maintenanceBatchSize
    HoldRecheck,    \* the postponement of an expiry that meets a hold (1000 ms)
    MaxGen,         \* bound: generations of an id
    MaxLeases,      \* bound: attempts handed out
    MaxTime         \* bound: the clock

Policies == {"delete", "keep", "mark-as-success", "mark-as-failure"}

\* The per-task settings that the engine stores and later acts upon.
TaskConfig ==
    [onSuccessPolicy : Policies, onFailurePolicy : Policies,
     maxStalledCount : Nat, maxRelationships : Nat,
     taskRecordRetentionMs : Nat, resultRetentionMs : Nat,
     terminalIndexRetentionMs : Nat, deadLetterRetentionMs : Nat]

ASSUME IdsAssumption == IsFiniteSet(Ids)
ASSUME ConfigsAssumption == Configs \subseteq TaskConfig /\ Configs # {}
ASSUME DurationsAssumption ==
    /\ Delays \subseteq Nat
    /\ LockTimeouts \subseteq Nat \ {0}
    /\ RetryDelays \subseteq Nat
    /\ HoldRecheck \in Nat \ {0}
ASSUME HoldingAssumption == Holding \in BOOLEAN
ASSUME BoundsAssumption ==
    /\ Batch \in Nat \ {0}
    /\ MaxGen \in Nat
    /\ MaxLeases \in Nat
    /\ MaxTime \in Nat

VARIABLES db, leases

vars == <<db, leases>>

-----------------------------------------------------------------------------
(* The keyspace. *)

Lists == {"wait", "scheduled", "active", "success", "failed", "none"}
Outcomes == {"open", "success", "failure"}      \* "open": no outcome field yet
Gens == 1..MaxGen
Members == Ids \X Gens                          \* identityMember
Out == -1                                       \* not in the sorted set
Score == Nat \cup {Out}

\* The hash task:<id>; generation 0 stands for a hash that does not exist.
TaskRecord ==
    [generation : 0..MaxGen, currentList : Lists, outcome : Outcomes,
     attempt : Nat, handlerFailureCount : Nat, stalledAttemptCount : Nat,
     config : Configs]

NoTask ==
    [generation |-> 0, currentList |-> "none", outcome |-> "open",
     attempt |-> 0, handlerFailureCount |-> 0, stalledAttemptCount |-> 0,
     config |-> CHOOSE c \in Configs : TRUE]

\* The key lock:<id>: token 0 stands for a key that does not exist.
Lock == [token : 0..MaxLeases, until : Nat]
NoLock == [token |-> 0, until |-> 0]

Keyspace ==
    [now : Nat,
     generations : [Ids -> 0..MaxGen],
     task : [Ids -> TaskRecord],
     lock : [Ids -> Lock],
     wait : Seq(Ids),
     scheduled : [Ids -> Score],
     active : [Ids -> Score],
     success : SUBSET Ids,
     failed : SUBSET Ids,
     result : SUBSET (Members \X Outcomes),
     published : SUBSET (Members \X Outcomes),   \* terminal events
     deadLetter : SUBSET Members,
     taskExpiry : [Members -> Score],
     resultExpiry : [Members -> Score],
     terminalExpiry : [Members -> Score],
     deadLetterExpiry : [Members -> Score],
     retainedBy : SUBSET (Members \X Members),   \* <<retained, holder>>
     retains : SUBSET (Members \X Members),      \* <<holder, retained>>
     continuations : [Members -> Score],
     cursor : 0..6]

EmptyKeyspace ==
    [now |-> 0,
     generations |-> [i \in Ids |-> 0],
     task |-> [i \in Ids |-> NoTask],
     lock |-> [i \in Ids |-> NoLock],
     wait |-> <<>>,
     scheduled |-> [i \in Ids |-> Out],
     active |-> [i \in Ids |-> Out],
     success |-> {}, failed |-> {}, result |-> {}, published |-> {},
     deadLetter |-> {},
     taskExpiry |-> [m \in Members |-> Out],
     resultExpiry |-> [m \in Members |-> Out],
     terminalExpiry |-> [m \in Members |-> Out],
     deadLetterExpiry |-> [m \in Members |-> Out],
     retainedBy |-> {}, retains |-> {},
     continuations |-> [m \in Members |-> Out],
     cursor |-> 0]

Exists(s, i) == s.task[i].generation # 0
Settled(s, i) == s.task[i].outcome # "open"
Current(s, i) == <<i, s.task[i].generation>>
IsCurrent(s, m) == s.task[m[1]].generation = m[2]
IsLocked(s, i) == s.lock[i].token # 0
IsLockedBy(s, i, k) == s.lock[i].token = k
HasRetentionHolds(s, m) == \E p \in s.retainedBy : p[1] = m
Policy(t) ==
    IF t.outcome = "success" THEN t.config.onSuccessPolicy
                             ELSE t.config.onFailurePolicy

-----------------------------------------------------------------------------
(* Moving tasks between the lists. *)

InList(s, i, l) ==
    CASE l = "wait" -> \E n \in DOMAIN s.wait : s.wait[n] = i
      [] l = "scheduled" -> s.scheduled[i] # Out
      [] l = "active" -> s.active[i] # Out
      [] l = "success" -> i \in s.success
      [] l = "failed" -> i \in s.failed
      [] OTHER -> FALSE

\* Does removeFromCurrentLists take i off list l?  It trusts currentList, and
\* scans every list only when i is not where currentList says.
LeavesList(s, i, l) ==
    LET stored == s.task[i].currentList
    IN \/ stored = l
       \/ stored # "none" /\ ~InList(s, i, stored)

\* LREM 1: the list without its first entry that is in S.  (At most one id of
\* a batch can be in wait: batches of several come from another list.)
LRem(q, S) ==
    IF \A n \in DOMAIN q : q[n] \notin S
    THEN q
    ELSE LET first == CHOOSE n \in DOMAIN q :
                        q[n] \in S /\ \A k \in 1..(n - 1) : q[k] \notin S
         IN [n \in 1..(Len(q) - 1) |-> IF n < first THEN q[n] ELSE q[n + 1]]

\* moveToList for every id in DOMAIN to, in one batch: off the current list,
\* onto to[i].  `order` is the order in which the ones that go to wait are
\* pushed, and `score` the score of the ones that go to scheduled or active.
MoveAll(s, to, score, order) ==
    LET S == DOMAIN to
        Leaving(l) == {i \in S : LeavesList(s, i, l)}
        Entering(l) == {i \in S : to[i] = l}
        Rescored(z, l) ==
            [i \in Ids |-> IF i \in Entering(l) THEN score
                           ELSE IF i \in Leaving(l) THEN Out ELSE z[i]]
    IN [s EXCEPT
          !.task = [i \in Ids |->
              IF i \in S THEN [s.task[i] EXCEPT !.currentList = to[i]]
                         ELSE s.task[i]],
          !.wait = LRem(s.wait, Leaving("wait")) \o order,
          !.scheduled = Rescored(s.scheduled, "scheduled"),
          !.active = Rescored(s.active, "active"),
          !.success = (s.success \ Leaving("success")) \cup Entering("success"),
          !.failed = (s.failed \ Leaving("failed")) \cup Entering("failed")]

MoveToList(s, i, l, score) ==
    MoveAll(s, [j \in {i} |-> l], score, IF l = "wait" THEN <<i>> ELSE <<>>)

\* The orders in which a batch R is walked: by score, ties in any order.
Walks(R, score) ==
    {q \in [1..Cardinality(R) -> R] :
        /\ IsInjective(q)
        /\ Range(q) = R
        /\ \A n, k \in DOMAIN q : n < k => score[q[n]] <= score[q[k]]}

Unschedule(index, M) == [m \in Members |-> IF m \in M THEN Out ELSE index[m]]

\* scheduleExpiry, for the current members of the ids in S.
ScheduleExpiry(s, index, S, retention(_)) ==
    [m \in Members |-> IF m[1] \in S /\ IsCurrent(s, m)
                       THEN s.now + retention(s.task[m[1]].config)
                       ELSE index[m]]

CurrentOf(s, S) == {Current(s, i) : i \in S}

\* deleteTask for every id in S.
DeleteAll(s, S) ==
    LET u == MoveAll(s, [i \in S |-> "none"], 0, <<>>)
    IN [u EXCEPT
          !.task = [i \in Ids |-> IF i \in S THEN NoTask ELSE u.task[i]],
          !.taskExpiry = Unschedule(s.taskExpiry, CurrentOf(s, S)),
          !.terminalExpiry = Unschedule(s.terminalExpiry, CurrentOf(s, S))]

Unlock(s, S) ==
    [s EXCEPT !.lock = [i \in Ids |-> IF i \in S THEN NoLock ELSE s.lock[i]]]

LockTask(s, i, k, lockTimeout) ==
    LET u == MoveToList(s, i, "active", s.now + lockTimeout)
    IN [u EXCEPT !.task[i].attempt = @ + 1,
                 !.lock[i] = [token |-> k, until |-> s.now + lockTimeout]]

-----------------------------------------------------------------------------
(* Settlement, result retention and the release of holds. *)

\* persistTerminalResult, with the terminal event its callers publish.
PersistTerminalResult(s, S) ==
    LET entries == {<<Current(s, i), s.task[i].outcome>> : i \in S}
        failures == {i \in S : s.task[i].outcome = "failure"}
    IN [s EXCEPT
          !.result = @ \cup entries,
          !.published = @ \cup entries,
          !.deadLetter = @ \cup CurrentOf(s, failures),
          !.deadLetterExpiry = ScheduleExpiry(s, @, failures,
                                   LAMBDA c : c.deadLetterRetentionMs),
          !.resultExpiry = ScheduleExpiry(s, @, S,
                                   LAMBDA c : c.resultRetentionMs)]

ScheduleTerminalRetention(s, S) ==
    LET marked == {i \in S : Policy(s.task[i]) \in {"mark-as-success", "mark-as-failure"}}
    IN [s EXCEPT
          !.taskExpiry = ScheduleExpiry(s, @, S,
                             LAMBDA c : c.taskRecordRetentionMs),
          !.terminalExpiry = ScheduleExpiry(s, @, marked,
                             LAMBDA c : c.terminalIndexRetentionMs)]

\* applyCompletionPolicy for every id in S, all of them settled.
ApplyCompletionPolicy(s, S) ==
    LET target(i) == CASE Policy(s.task[i]) = "mark-as-success" -> "success"
                       [] Policy(s.task[i]) = "mark-as-failure" -> "failed"
                       [] OTHER -> "none"
        gone == {i \in S : /\ Policy(s.task[i]) = "delete"
                           /\ ~HasRetentionHolds(s, Current(s, i))}
    IN DeleteAll(MoveAll(s, [i \in S |-> target(i)], 0, <<>>), gone)

\* What the SPOPs of releaseOwnedHolds may take for the holders in H: any
\* members, as many as the budget allows; one holder is emptied before the
\* next is begun.
Pops(s, H, left) ==
    LET owned == {p \in s.retains : p[1] \in H}
        Part(P, h) == {p \in P : p[1] = h}
        partly(P) == {h \in H : Part(P, h) \notin {{}, Part(owned, h)}}
    IN {P \in SUBSET owned :
          /\ \/ P = owned /\ Cardinality(owned) <= left
             \/ Cardinality(P) = left /\ Cardinality(owned) > left
          /\ Cardinality(partly(P)) <= 1}

\* The continuation of a holder that still has holds is queued (again) as of
\* now, and the one of a holder that has none left is dropped.
Continuations_Forgotten(s, H, P) == Unschedule(s.continuations, H)
Continuations(s, H, P) ==
    [m \in Members |->
        IF m \notin H THEN s.continuations[m]
        ELSE IF \E p \in s.retains \ P : p[1] = m THEN s.now
        ELSE Out]

\* releaseOwnedHolds for the holders in H, given what the SPOPs took.
ReleaseOwnedHolds(s, H, P) ==
    LET u == [s EXCEPT
                !.retains = @ \ P,
                !.retainedBy = @ \ {<<p[2], p[1]>> : p \in P},
                !.continuations = Continuations(s, H, P)]
        freed == {i \in Ids : /\ Exists(u, i)
                              /\ Settled(u, i)
                              /\ ~HasRetentionHolds(u, Current(u, i))
                              /\ \E p \in P : p[2] = Current(u, i)}
    IN ApplyCompletionPolicy(u, freed)

\* settleTask for the ids in S, whose outcome has been set.
SettleTask(s, S, P) ==
    ReleaseOwnedHolds(
        ApplyCompletionPolicy(
            ScheduleTerminalRetention(PersistTerminalResult(s, S), S), S),
        CurrentOf(s, S), P)

-----------------------------------------------------------------------------
(* The bounded sweep.  x = [db, left]: a keyspace and maintenanceRemaining. *)

\* The first `left` entries with a score up to now (ZRANGEBYSCORE ... LIMIT).
DueBatches(index, now, left) ==
    LET due == {m \in DOMAIN index : index[m] # Out /\ index[m] <= now}
    IN {B \in SUBSET due :
          /\ \/ B = due /\ Cardinality(due) <= left
             \/ Cardinality(B) = left /\ Cardinality(due) > left
          /\ \A b \in B, d \in due \ B : index[b] <= index[d]}

Swept(s, left, B) == [db |-> s, left |-> left - Cardinality(B)]

SyncDelayed(x) ==
    LET s == x.db
    IN UNION {{Swept(MoveAll(s, [i \in B |-> "wait"], 0, q), x.left, B) :
                   q \in Walks(B, s.scheduled)} :
              B \in DueBatches(s.scheduled, s.now, x.left)}

\* Has this stall used up the task's budget of stalled attempts?
OutOfStalls(t) == t.stalledAttemptCount + 1 > t.config.maxStalledCount

\* failTask on the ids of E, whose attempts stalled: S settles as a failure,
\* the others return to wait in the order q.
StallAll(s, E, S, q, P) ==
    LET u == [s EXCEPT !.task = [i \in Ids |->
                IF i \notin E THEN s.task[i]
                ELSE [s.task[i] EXCEPT
                        !.stalledAttemptCount = @ + 1,
                        !.outcome = IF i \in S THEN "failure" ELSE @]]]
        v == MoveAll(Unlock(u, E), [i \in E \ S |-> "wait"], 0, q)
    IN SettleTask(v, S, P)

SyncLocks(x) ==
    LET s == x.db
        Stalled(B) == {i \in B : ~IsLocked(s, i)}
        Exhausted(B) == {i \in Stalled(B) : OutOfStalls(s.task[i])}
        \* Attempts settle in the order of their deadlines.
        Earlier(P, S) == \A i, j \in S : \A p \in s.retains :
            s.active[i] < s.active[j] /\ p[1] = Current(s, i) /\ p \notin P
                => ~\E r \in P : r[1] = Current(s, j)
    IN UNION {UNION {{[db |-> StallAll(s, Stalled(B), Exhausted(B), q, P),
                       left |-> x.left - Cardinality(B) - Cardinality(P)] :
                          P \in {P \in Pops(s, CurrentOf(s, Exhausted(B)),
                                            x.left - Cardinality(B)) :
                                    Earlier(P, Exhausted(B))}} :
                     q \in Walks(Stalled(B) \ Exhausted(B), s.active)} :
              B \in DueBatches(s.active, s.now, x.left)}

\* Only the continuation that has waited longest is worked on.
SyncRetentionContinuations(x) ==
    LET s == x.db
        queued == {m \in Members : s.continuations[m] # Out}
        oldest == {h \in queued : \A m \in queued :
                                     s.continuations[h] <= s.continuations[m]}
    IN IF queued = {} THEN {x}
       ELSE UNION {{Swept(ReleaseOwnedHolds(s, {h}, P), x.left, P) :
                        P \in Pops(s, {h}, x.left)} : h \in oldest}

\* An expiry index after its batch B: what a hold keeps is looked at again
\* later, the rest is done with.
Postpone_Forgets(s, index, B, held) == Unschedule(index, B)
Postpone(s, index, B, held) ==
    [m \in Members |-> IF m \in held THEN s.now + HoldRecheck
                       ELSE IF m \in B THEN Out ELSE index[m]]

SyncTaskExpiry(x) ==
    LET s == x.db
        Live(B) == {m \in B : IsCurrent(s, m) /\ Settled(s, m[1])}
        Held(B) == {m \in Live(B) : HasRetentionHolds(s, m)}
        Expire(B) ==
            [DeleteAll(s, {m[1] : m \in Live(B) \ Held(B)}) EXCEPT
                !.taskExpiry = Postpone(s, s.taskExpiry, B, Held(B))]
    IN {Swept(Expire(B), x.left, B) : B \in DueBatches(s.taskExpiry, s.now, x.left)}

SyncResultExpiry_IgnoresHolds(x) ==
    LET s == x.db
        Expire(B) == [s EXCEPT !.result = {r \in @ : r[1] \notin B},
                               !.resultExpiry = Unschedule(@, B)]
    IN {Swept(Expire(B), x.left, B) : B \in DueBatches(s.resultExpiry, s.now, x.left)}
SyncResultExpiry(x) ==
    LET s == x.db
        Held(B) == {m \in B : HasRetentionHolds(s, m)}
        Expire(B) ==
            [s EXCEPT
                !.result = {r \in @ : r[1] \notin B \ Held(B)},
                !.resultExpiry = Postpone(s, @, B, Held(B))]
    IN {Swept(Expire(B), x.left, B) : B \in DueBatches(s.resultExpiry, s.now, x.left)}

\* A task that left its terminal index by expiry.
Delisted_Stale(t) == t
Delisted(t) == [t EXCEPT !.currentList = "none"]

SyncTerminalExpiry(x) ==
    LET s == x.db
        Removed(B) == {i \in s.success \cup s.failed :
                          \E m \in B : m[1] = i /\ IsCurrent(s, m)}
        Expire(B) ==
            [s EXCEPT
                !.success = @ \ Removed(B),
                !.failed = @ \ Removed(B),
                !.task = [i \in Ids |->
                    IF i \in Removed(B) THEN Delisted(s.task[i]) ELSE s.task[i]],
                !.terminalExpiry = Unschedule(@, B)]
    IN {Swept(Expire(B), x.left, B) : B \in DueBatches(s.terminalExpiry, s.now, x.left)}

SyncDeadLetterExpiry(x) ==
    LET s == x.db
        Expire(B) == [s EXCEPT !.deadLetter = @ \ B,
                               !.deadLetterExpiry = Unschedule(@, B)]
    IN {Swept(Expire(B), x.left, B) : B \in DueBatches(s.deadLetterExpiry, s.now, x.left)}

Syncer(n, x) ==
    CASE x.left <= 0 -> {x}
      [] n = 0 -> SyncDelayed(x)
      [] n = 1 -> SyncLocks(x)
      [] n = 2 -> SyncRetentionContinuations(x)
      [] n = 3 -> SyncTaskExpiry(x)
      [] n = 4 -> SyncResultExpiry(x)
      [] n = 5 -> SyncTerminalExpiry(x)
      [] OTHER -> SyncDeadLetterExpiry(x)

NextCursor_Unwrapped(c) == c + 1
NextCursor(c) == (c + 1) % 7

\* The n-th syncer that a sweep runs, when its cursor is c.
SyncerAt_Unrotated(c, n) == n
SyncerAt(c, n) == (c + n) % 7

\* syncAll: the seven syncers in turn, starting at the stored cursor, until
\* the budget is spent; the next sweep starts one further.
SyncAll(s) ==
    LET Then(X, n) == UNION {Syncer(SyncerAt(s.cursor, n), x) : x \in X}
        X0 == Then({[db |-> s, left |-> Batch]}, 0)
        X3 == Then(Then(Then(X0, 1), 2), 3)
        X6 == Then(Then(Then(X3, 4), 5), 6)
    IN {[x EXCEPT !.db.cursor = NextCursor(s.cursor)] : x \in X6}

-----------------------------------------------------------------------------
(* The operations.  The ones below that take x run after SyncAll. *)

\* effectmq_maintain and effectmq_listTasks, and what any operation leaves
\* behind that is refused, or finds nothing to do, after its sweep.
Maintain(x) == db' = x.db /\ UNCHANGED leases

ValidateLiveHolder(s, h) == Exists(s, h[1]) /\ IsCurrent(s, h) /\ ~Settled(s, h[1])

\* Has acquireRetentionHold room, counting both sides of the relationship?
RoomForHold(s, h, m) ==
    /\ Cardinality({p \in s.retains : p[1] = h})
           < s.task[h[1]].config.maxRelationships
    /\ Cardinality({p \in s.retainedBy : p[1] = m})
           < s.task[m[1]].config.maxRelationships

AcquireRetentionHold(s, h, m) ==
    [s EXCEPT !.retainedBy = @ \cup {<<m, h>>}, !.retains = @ \cup {<<h, m>>}]

\* createTask on an existing id, "return-existing", with a holder.
OfferExisting(x, i, h) ==
    /\ Exists(x.db, i)
    /\ ValidateLiveHolder(x.db, h)
    /\ <<Current(x.db, i), h>> \notin x.db.retainedBy
    /\ RoomForHold(x.db, h, Current(x.db, i))
    /\ db' = AcquireRetentionHold(x.db, h, Current(x.db, i))
    /\ UNCHANGED leases

\* The keyspace once createTask has disposed of a settled generation that
\* "new-generation" replaces.
Replaced(s, i) == IF Exists(s, i) THEN Unlock(DeleteAll(s, {i}), {i}) ELSE s

\* May createTask start a generation of i?
Replaceable(s, i) ==
    Exists(s, i) => Settled(s, i) /\ ~HasRetentionHolds(s, Current(s, i))

NewRecord(s, i, c) ==
    [s EXCEPT !.generations[i] = @ + 1,
              !.task[i] = [NoTask EXCEPT !.generation = s.generations[i] + 1,
                                         !.config = c]]

Enqueue(s, i, delay) ==
    IF delay > 0 THEN MoveToList(s, i, "scheduled", s.now + delay)
                 ELSE MoveToList(s, i, "wait", 0)

\* createTask starting a generation, without a holder.
OfferNew(x, i, c, delay) ==
    /\ Replaceable(x.db, i)
    /\ x.db.generations[i] < MaxGen
    /\ db' = Enqueue(NewRecord(Replaced(x.db, i), i, c), i, delay)
    /\ UNCHANGED leases

\* A refused offer: the new record goes, and with it its generation number.
TakeBack(new, old, i, h) ==
    [DeleteAll(new, {i}) EXCEPT !.generations[i] = @ - 1]

\* createTask starting a generation that h retains.  Without room for the hold
\* the new record and its generation number are taken back, and a replaced
\* generation stays deleted.
OfferHeld(x, i, c, delay, h) ==
    LET old == Replaced(x.db, i)
        new == NewRecord(old, i, c)
        m == Current(new, i)
    IN /\ Replaceable(x.db, i)
       /\ x.db.generations[i] < MaxGen
       /\ ValidateLiveHolder(x.db, h)
       /\ db' = IF RoomForHold(new, h, m)
                THEN Enqueue(AcquireRetentionHold(new, h, m), i, delay)
                ELSE TakeBack(new, old, i, h)
       /\ UNCHANGED leases

\* takeTask.  A locked task in wait would be put back to active.
TakeTask(x, lockTimeout) ==
    LET i == Head(x.db.wait)
        k == Len(leases) + 1
    IN /\ x.db.wait # <<>>
       /\ Len(leases) < MaxLeases
       /\ IF IsLocked(x.db, i)
          THEN /\ db' = MoveToList(x.db, i, "active", x.db.now + lockTimeout)
               /\ UNCHANGED leases
          ELSE /\ db' = LockTask(x.db, i, k, lockTimeout)
               /\ leases' = Append(leases, Current(x.db, i))

\* A worker that settles an attempt names its lease and the task's id.
Owns_Unfenced(s, k) == Exists(s, leases[k][1])
Owns(s, k) == IsLockedBy(s, leases[k][1], k)

WriteSuccess(x, k) ==
    LET s == x.db
        i == leases[k][1]
    IN /\ Exists(s, i)
       /\ Owns(s, k)
       /\ \E P \in Pops(s, {Current(s, i)}, x.left) :
            db' = SettleTask([Unlock(s, {i}) EXCEPT !.task[i].outcome = "success"],
                             {i}, P)
       /\ UNCHANGED leases

HandlerFailure(s, i) ==
    [Unlock(s, {i}) EXCEPT !.task[i].handlerFailureCount = @ + 1]

\* writeError that schedules a retry: retryAt is absolute.
WriteErrorRetry(x, k, retryAt) ==
    LET u == HandlerFailure(x.db, leases[k][1])
    IN /\ Exists(x.db, leases[k][1])
       /\ Owns(x.db, k)
       /\ db' = IF retryAt > u.now
                THEN MoveToList(u, leases[k][1], "scheduled", retryAt)
                ELSE MoveToList(u, leases[k][1], "wait", 0)
       /\ UNCHANGED leases

\* writeError without a retry, or with an error that cancels the task.
WriteErrorTerminal(x, k) ==
    LET s == x.db
        i == leases[k][1]
    IN /\ Exists(s, i)
       /\ Owns(s, k)
       /\ \E P \in Pops(s, {Current(s, i)}, x.left) :
            db' = SettleTask([HandlerFailure(s, i) EXCEPT !.task[i].outcome = "failure"],
                             {i}, P)
       /\ UNCHANGED leases

RemoveTask(x, i) ==
    LET s == x.db
    IN /\ ~IsLocked(s, i)
       /\ Exists(s, i)
       /\ ~HasRetentionHolds(s, Current(s, i))
       /\ \E P \in Pops(s, {Current(s, i)}, x.left) :
            db' = DeleteAll(ReleaseOwnedHolds(s, {Current(s, i)}, P), {i})
       /\ UNCHANGED leases

\* Everything that is stored under the member m itself.
Forget_KeepsHolders(s, m) ==
    [s EXCEPT !.result = {r \in @ : r[1] # m}, !.resultExpiry[m] = Out]
Forget(s, m) ==
    [s EXCEPT !.retainedBy = {p \in @ : p[1] # m},
              !.result = {r \in @ : r[1] # m},
              !.taskExpiry[m] = Out,
              !.resultExpiry[m] = Out,
              !.terminalExpiry[m] = Out,
              !.deadLetter = @ \ {m},
              !.deadLetterExpiry[m] = Out]

ForceRemoveTask(x, i) ==
    LET s == x.db
        m == Current(s, i)
    IN /\ Exists(s, i)
       /\ \E P \in Pops(s, {m}, x.left) :
            db' = DeleteAll(Forget(ReleaseOwnedHolds(Unlock(s, {i}), {m}, P), m), {i})
       /\ UNCHANGED leases

\* The two lease operations that do not sweep.
ExtendLock_KeepsScore(k, lockTimeout) ==
    /\ Owns(db, k)
    /\ db' = [db EXCEPT !.lock[leases[k][1]].until = db.now + lockTimeout]
    /\ UNCHANGED leases
ExtendLock(k, lockTimeout) ==
    LET i == leases[k][1]
        u == [db EXCEPT !.lock[i].until = db.now + lockTimeout]
    IN /\ Owns(db, k)
       /\ db' = MoveToList(u, i, "active", db.now + lockTimeout)
       /\ UNCHANGED leases

RemoveLock(k) ==
    /\ Owns(db, k)
    /\ db' = MoveToList(Unlock(db, {leases[k][1]}), leases[k][1], "wait", 0)
    /\ UNCHANGED leases

\* Redis' clock, and the expiry of the lock keys: a key with a time to live is
\* gone once the clock has passed it.
Tick ==
    /\ db.now < MaxTime
    /\ db' = [db EXCEPT
                !.now = @ + 1,
                !.lock = [i \in Ids |-> IF db.lock[i].until < db.now + 1
                                        THEN NoLock ELSE db.lock[i]]]
    /\ UNCHANGED leases

Init == db = EmptyKeyspace /\ leases = <<>>

Sweeping(x) ==
    \/ Maintain(x)
    \/ \E i \in Ids, c \in Configs, d \in Delays : OfferNew(x, i, c, d)
    \/ Holding /\ \E i \in Ids, h \in Members :
           \/ OfferExisting(x, i, h)
           \/ \E c \in Configs, d \in Delays : OfferHeld(x, i, c, d, h)
    \/ \E t \in LockTimeouts : TakeTask(x, t)
    \/ \E k \in DOMAIN leases :
           \/ WriteSuccess(x, k)
           \/ \E d \in RetryDelays : WriteErrorRetry(x, k, x.db.now + d)
           \/ WriteErrorTerminal(x, k)
    \/ \E i \in Ids : RemoveTask(x, i) \/ ForceRemoveTask(x, i)

Next ==
    \/ \E x \in SyncAll(db) : Sweeping(x)
    \/ \E k \in DOMAIN leases :
           \/ \E t \in LockTimeouts : ExtendLock(k, t)
           \/ RemoveLock(k)
    \/ Tick

Spec == Init /\ [][Next]_vars

\* A worker of the queue runs effectmq_maintain at an interval for as long as it
\* lives (Worker.ts, the maintenance fiber), so a sweep always comes again, that
\* one or an operation's.  Every sweep moves the cursor and nothing else does.
Sweep == db'.cursor # db.cursor

FairSpec == Spec /\ []<><<Sweep>>_vars

-----------------------------------------------------------------------------
(* Properties. *)

\* Every key holds what its readers expect of it.
TypeOK == db \in Keyspace /\ leases \in Seq(Members)

\* Every list holds exactly the existing tasks whose currentList names it, and
\* wait holds them once.
Listed(s) ==
    /\ IsInjective(s.wait)
    /\ \A i \in Ids, l \in Lists \ {"none"} :
           InList(s, i, l) <=> Exists(s, i) /\ s.task[i].currentList = l

\* A task is in a list that leads to an attempt until it has an outcome, and
\* never again afterwards.
Placed(s) ==
    \A i \in Ids : Exists(s, i) =>
        (Settled(s, i) <=> s.task[i].currentList \in {"success", "failed", "none"})

\* No task is lost or listed twice: currentList tells where a task is (which is
\* what lets removeFromCurrentLists look in one place), and that is in one of
\* wait, scheduled and active exactly while the task has no outcome.
ExactlyOneIndex == Listed(db) /\ Placed(db)

\* A lock key always guards a running attempt: the task is active with the
\* lock's own deadline, unsettled, of the generation that was leased, and no
\* later attempt of that id was handed out.  So a token that can still settle a
\* task is the newest one, whatever was removed, replaced or swept meanwhile.
LeaseBacked ==
    \A i \in Ids : IsLocked(db, i) =>
        LET k == db.lock[i].token
        IN /\ k \in DOMAIN leases
           /\ leases[k] = Current(db, i)
           /\ db.task[i].currentList = "active"
           /\ db.active[i] = db.lock[i].until
           /\ \A n \in DOMAIN leases : n > k => leases[n][1] # i

\* An attempt is charged at most once: failures and stalls together never
\* outnumber the attempts that have ended, even when a late writeError races
\* the sweep that declares the attempt stalled.
AttemptChargedOnce ==
    \A i \in Ids : Exists(db, i) =>
        LET t == db.task[i]
            ended == t.attempt - (IF t.currentList = "active" \/ t.outcome = "success"
                                  THEN 1 ELSE 0)
        IN t.handlerFailureCount + t.stalledAttemptCount <= ended

\* Generation numbers: a record carries the number its id was last given, and
\* nothing that is keyed by a generation names one that was not given out, also
\* after a refused offer took its number back.
GenerationsGiven ==
    LET Given(m) == m[2] <= db.generations[m[1]]
    IN /\ \A i \in Ids : Exists(db, i) =>
              db.task[i].generation = db.generations[i]
       /\ \A r \in db.result \cup db.published : Given(r[1])
       /\ \A p \in db.retains \cup db.retainedBy : Given(p[1]) /\ Given(p[2])
       /\ \A m \in Members :
              \/ db.continuations[m] # Out \/ db.taskExpiry[m] # Out
              \/ db.resultExpiry[m] # Out \/ m \in db.deadLetter
              => Given(m)
       /\ \A k \in DOMAIN leases : Given(leases[k])

\* A hold keeps the generation it names: its record exists, and the holder's
\* side of the relationship is there to release it.
HoldPinsRecord ==
    \A p \in db.retainedBy :
        /\ IsCurrent(db, p[1])
        /\ <<p[2], p[1]>> \in db.retains

\* No side of the relationships outgrows maxRelationships.
RelationshipsBounded ==
    \A i \in Ids : Exists(db, i) =>
        LET cap == db.task[i].config.maxRelationships
        IN /\ Cardinality({p \in db.retains : p[1] = Current(db, i)}) <= cap
           /\ Cardinality({p \in db.retainedBy : p[1] = Current(db, i)}) <= cap

\* No side outgrows its cap, and every hold can still be released: its holder is
\* an unsettled task, or its release is queued for a later sweep.  (Releases are
\* cut off by the batch budget, and holders may be settled, expired, removed or
\* replaced.)
HoldsReleasable ==
    /\ RelationshipsBounded
    /\ \A p \in db.retains :
          \/ IsCurrent(db, p[1]) /\ ~Settled(db, p[1][1])
          \/ db.continuations[p[1]] # Out

\* Nothing that is kept after settlement is kept for ever: a settled record, a
\* result and a dead-letter entry each have an expiry.
RetentionScheduled ==
    /\ \A i \in Ids : Exists(db, i) /\ Settled(db, i) =>
           db.taskExpiry[Current(db, i)] # Out
    /\ \A r \in db.result : db.resultExpiry[r[1]] # Out
    /\ \A m \in db.deadLetter : db.deadLetterExpiry[m] # Out

\* Whatever names a generation names one that was given out, and a generation
\* has one outcome: its terminal event is published once, its result and its
\* record agree with it.
OneOutcome ==
    /\ GenerationsGiven
    /\ \A r, e \in db.published : r[1] = e[1] => r = e
    /\ db.result \subseteq db.published
    /\ \A i \in Ids : Exists(db, i) /\ Settled(db, i) =>
           <<Current(db, i), db.task[i].outcome>> \in db.published
    /\ \A i \in Ids : Exists(db, i) /\ ~Settled(db, i) =>
           ~\E e \in db.published : e[1] = Current(db, i)

\* While a hold stands, the result it was taken for stays readable.
HeldResultKept ==
    [][\A p \in db.retainedBy \cap db'.retainedBy :
         \A r \in db.result : r[1] = p[1] => r \in db'.result]_vars

\* However small the batch, the sweeps get round to everything: a due task is
\* moved to wait, an attempt whose lease has run out is ended, queued releases
\* are finished, and expired records, results and dead letters go (or are
\* postponed because of a hold).
SweepsReachEverything ==
    LET Late(index, e) == index[e] # Out /\ index[e] < db.now
    IN /\ \A i \in Ids : /\ Late(db.scheduled, i) ~> ~Late(db.scheduled, i)
                         /\ Late(db.active, i) ~> ~Late(db.active, i)
       /\ \A m \in Members :
             /\ db.continuations[m] # Out ~> db.continuations[m] = Out
             /\ Late(db.taskExpiry, m) ~> ~Late(db.taskExpiry, m)
             /\ Late(db.resultExpiry, m) ~> ~Late(db.resultExpiry, m)
             /\ Late(db.terminalExpiry, m) ~> ~Late(db.terminalExpiry, m)
             /\ Late(db.deadLetterExpiry, m) ~> ~Late(db.deadLetterExpiry, m)
===============================================================================
