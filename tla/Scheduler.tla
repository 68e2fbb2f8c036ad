------------------------------- MODULE Scheduler -------------------------------
(***************************************************************************)
(* Cron scheduling: several scheduler processes (src/Scheduler.ts) share   *)
(* the durable cursor of one schedule (two functions of taskEngine.lua).   *)
(* A process observes its own clock, reads the cursor, offers the selected *)
(* ticks one by one and only then advances the cursor; between any two of  *)
(* these calls the others run, time passes, and it may crash.              *)
(*                                                                         *)
(* The queue is reduced to what an offer with "return-existing" sees of it *)
(* (TaskEngine has the rest): which ticks have a stored task, and when a   *)
(* task has run its record may be deleted, as it is by default.            *)
(***************************************************************************)
EXTENDS Integers, Sequences, FiniteSets

CONSTANTS
    Schedulers,     \* the scheduler processes
    Skew,           \* Skew[p]: how far p's clock is ahead of Redis' clock
    Period,         \* cron ticks are the multiples of Period
    StartAt,        \* config.startAt; Unset when it is not given
    Unset,          \* no cursor yet
    Policies,       \* missed-tick policies: "skip", "coalesce", "backfill"
    MaxBackfill,
    MaxSkew,        \* bound: how far a clock is ahead
    MaxMade,        \* bound: generations of a tick that are told apart
    MaxCrashes,     \* bound: crashes
    MaxTime         \* bound: Redis' clock

ASSUME ClockAssumption ==
    /\ Skew \in [Schedulers -> Int] /\ \A p \in Schedulers : Skew[p] <= MaxSkew
    /\ Period \in Nat \ {0}
ASSUME PolicyAssumption ==
    /\ Policies \subseteq {"skip", "coalesce", "backfill"}
    /\ MaxBackfill \in Nat \ {0}
ASSUME BoundsAssumption ==
    {MaxSkew, MaxMade, MaxCrashes, MaxTime} \subseteq Nat /\ MaxMade > 0

VARIABLES
    now,        \* Redis' clock
    schedule,   \* schedule:<name>, field next
    start,      \* history: the first cursor
    stored,     \* the ticks whose task is stored in the queue
    made,       \* how many generations of the task of each tick were created
    covered,    \* history: the ticks between missedFrom and missedTo of a task
    missed,     \* config.missed, the same in every process
    process,    \* where each process is in materializeDue
    crashes

vars == <<now, schedule, start, stored, made, covered, missed, process, crashes>>

-----------------------------------------------------------------------------
(* Cron, and the choice of ticks. *)

Next_(t) == (t \div Period + 1) * Period       \* Cron.next: later than t
Prev_(t) == ((t - 1) \div Period) * Period     \* Cron.prev: earlier than t

Latest == 1 + MaxTime + MaxSkew
Instants == 0..(Latest + Period)
CronTicks == {t \in Instants : t % Period = 0}

\* (A first tick that no clock can show would never be due.)
ASSUME StartAssumption == Unset \notin Nat /\ StartAt \in Instants \cup {Unset}

\* The last MaxBackfill cron ticks up to `at`, none before firstMissed.
RecentBackfill(firstMissed, at) ==
    LET newest == Prev_(Next_(at))
        due == {t \in CronTicks : firstMissed <= t /\ t <= newest}
        n == IF Cardinality(due) < MaxBackfill THEN Cardinality(due) ELSE MaxBackfill
    IN [k \in 1..n |-> newest - (n - k) * Period]

\* The ticks that an observation of the cursor firstDue at time `at` selects.
Selected(firstDue, at) ==
    CASE Next_(firstDue) > at -> <<firstDue>>
      [] Next_(firstDue) <= at /\ missed = "skip" -> <<>>
      [] Next_(firstDue) <= at /\ missed = "coalesce" -> <<Prev_(Next_(at))>>
      [] Next_(firstDue) <= at /\ missed = "backfill" -> RecentBackfill(firstDue, at)

-----------------------------------------------------------------------------
(* The steps of materializeDue. *)

Idle == [step |-> "idle", observedAt |-> 0, firstDue |-> 0, ticks |-> <<>>]

LocalClock(p) == IF now + Skew[p] < 0 THEN 0 ELSE now + Skew[p]

Observe(p) ==
    /\ process[p].step = "idle"
    /\ process' = [process EXCEPT ![p] =
           [Idle EXCEPT !.step = "observed", !.observedAt = LocalClock(p)]]
    /\ UNCHANGED <<now, schedule, start, stored, made, covered, missed, crashes>>

\* setSchedule: the cursor, which the first call of all initialises.
ReadCursor(p) ==
    LET at == process[p].observedAt
        initial == IF StartAt = Unset THEN Next_(at) ELSE StartAt
        cursor == IF schedule = Unset THEN initial ELSE schedule
    IN /\ process[p].step = "observed"
       /\ schedule' = cursor
       /\ start' = IF schedule = Unset THEN initial ELSE start
       /\ process' = [process EXCEPT ![p] =
              IF cursor > at THEN Idle
              ELSE [@ EXCEPT !.step = "offering", !.firstDue = cursor,
                             !.ticks = Selected(cursor, at)]]
       /\ UNCHANGED <<now, stored, made, covered, missed, crashes>>

\* TaskQueue.offer of the next tick, with "return-existing".
Offer(p) ==
    LET tick == Head(process[p].ticks)
        from == IF missed = "coalesce" THEN process[p].firstDue ELSE tick
    IN /\ process[p].step = "offering"
       /\ process[p].ticks # <<>>
       /\ process' = [process EXCEPT ![p].ticks = Tail(@)]
       /\ IF tick \in stored
          THEN UNCHANGED <<stored, made, covered>>
          ELSE /\ stored' = stored \cup {tick}
               /\ made' = [made EXCEPT ![tick] = IF @ < MaxMade THEN @ + 1 ELSE @]
               /\ covered' = covered \cup {t \in CronTicks : from <= t /\ t <= tick}
       /\ UNCHANGED <<now, schedule, start, missed, crashes>>

\* The cursor after consumeSchedule(current, next).
Consumed_Strict(current, next) ==
    IF schedule = current /\ now > current /\ current < next THEN next ELSE schedule
Consumed(current, next) ==
    IF schedule = current /\ now >= current /\ current < next THEN next ELSE schedule

Consume_First(p) ==
    /\ process[p].step = "offering"
    /\ schedule' = Consumed(process[p].firstDue, Next_(process[p].observedAt))
    /\ process' = [process EXCEPT ![p] =
           IF @.ticks = <<>> THEN Idle ELSE [@ EXCEPT !.firstDue = Latest]]
    /\ UNCHANGED <<now, start, stored, made, covered, missed, crashes>>
Consume(p) ==
    /\ process[p].step = "offering"
    /\ process[p].ticks = <<>>
    /\ schedule' = Consumed(process[p].firstDue, Next_(process[p].observedAt))
    /\ process' = [process EXCEPT ![p] = Idle]
    /\ UNCHANGED <<now, start, stored, made, covered, missed, crashes>>

\* The process fails, or a call of it does, and it is started again.
Crash(p) ==
    /\ process[p] # Idle
    /\ crashes < MaxCrashes
    /\ process' = [process EXCEPT ![p] = Idle]
    /\ crashes' = crashes + 1
    /\ UNCHANGED <<now, schedule, start, stored, made, covered, missed>>

\* A worker completes the task of a tick, and its record is deleted.
Finish(t) ==
    /\ t \in stored
    /\ stored' = stored \ {t}
    /\ UNCHANGED <<now, schedule, start, made, covered, missed, process, crashes>>

Tick ==
    /\ now < MaxTime
    /\ now' = now + 1
    /\ UNCHANGED <<schedule, start, stored, made, covered, missed, process, crashes>>

Init ==
    /\ now = 0
    /\ schedule = Unset
    /\ start = Unset
    /\ stored = {}
    /\ made = [t \in Instants |-> 0]
    /\ covered = {}
    /\ missed \in Policies
    /\ process = [p \in Schedulers |-> Idle]
    /\ crashes = 0

Materialize(p) == Observe(p) \/ ReadCursor(p) \/ Offer(p) \/ Consume(p)

Next ==
    \/ \E p \in Schedulers : Materialize(p) \/ Crash(p)
    \/ \E t \in Instants : Finish(t)
    \/ Tick

Spec == Init /\ [][Next]_vars

\* A scheduler's loop never ends (Effect.repeat(Schedule.forever)).  Crashes are
\* bounded, as if one process were restarted often enough.
FairSpec == Spec /\ \A p \in Schedulers : WF_vars(Materialize(p))

-----------------------------------------------------------------------------
(* Properties. *)

\* Every process deals in instants that its clock can show, and offers nothing
\* from before the cursor or from after its observation.
TypeOK ==
    /\ now \in Nat
    /\ schedule \in Instants \cup {Unset}
    /\ start \in Instants \cup {Unset}
    /\ stored \subseteq Instants
    /\ made \in [Instants -> 0..MaxMade]
    /\ covered \subseteq CronTicks
    /\ missed \in Policies
    /\ process \in [Schedulers ->
           [step : {"idle", "observed", "offering"}, observedAt : Instants,
            firstDue : Instants, ticks : Seq(Instants)]]
    /\ \A p \in Schedulers : \A n \in DOMAIN process[p].ticks :
           /\ process[p].firstDue <= process[p].ticks[n]
           /\ process[p].ticks[n] <= process[p].observedAt
    /\ crashes \in 0..MaxCrashes

\* The ticks that the cursor has passed.
Passed == {t \in CronTicks : schedule # Unset /\ start <= t /\ t < schedule}

\* No tick falls between two schedulers, or between an offer and a crash: a cron
\* tick that the cursor has passed was either represented by a task ("coalesce"),
\* or has its own task unless MaxBackfill newer ones have theirs ("backfill").
TicksAccounted ==
    /\ TypeOK
    /\ missed = "coalesce" => Passed \subseteq covered
    /\ missed = "backfill" => \A t \in Passed :
           \/ made[t] > 0
           \/ Cardinality({u \in Passed : u > t /\ made[u] > 0}) >= MaxBackfill

\* Once a tick is due on every clock, some scheduler moves the cursor past it.
CursorCatchesUp ==
    \A c \in Instants :
        (schedule = c /\ \A p \in Schedulers : c <= now /\ c <= now + Skew[p])
            ~> schedule # c
===============================================================================
