---------------------------- MODULE SchedulerProofs ----------------------------
(***************************************************************************)
(* Proofs about Scheduler: no cron tick is lost between any number of      *)
(* schedulers, whatever their clocks say, for every period and policy.     *)
(*                                                                         *)
(* A scheduler may only pass over a tick when the cursor is still where it *)
(* read it.  The inductive invariant says what it then relies on:          *)
(*   Current    its cursor is no later than the stored one;                *)
(*   Filled     the ticks that it selected stand for all that are due, in  *)
(*              part by what is made and in part by what it still offers;  *)
(*   Joined     a coalesced task that somebody else stored covers every    *)
(*              tick from the cursor on.                                   *)
(***************************************************************************)
EXTENDS Scheduler, FunctionTheorems, FiniteSetTheorems, TLAPS

-----------------------------------------------------------------------------
(* The invariant. *)

Offering(p) == process[p].step = "offering"

\* What p's observation says is due.
Due(p) == {t \in CronTicks : process[p].firstDue <= t /\ t <= process[p].observedAt}

Clocks == now <= MaxTime /\ \A p \in Schedulers : process[p].observedAt < Latest

\* Nothing is offered before there is a cursor.
Begun ==
    /\ schedule = Unset =>
          start = Unset /\ stored = {} /\ \A p \in Schedulers : ~Offering(p)
    /\ schedule # Unset => start # Unset /\ start <= schedule

Current ==
    \A p \in Schedulers : Offering(p) =>
        process[p].firstDue <= schedule /\ process[p].firstDue <= process[p].observedAt

Kept == \A t \in stored : made[t] > 0

Joined ==
    missed = "coalesce" =>
        /\ \A t \in stored : {u \in CronTicks : schedule <= u /\ u <= t} \subseteq covered
        /\ \A p \in Schedulers : Offering(p) =>
              LET ticks == process[p].ticks
              IN IF ticks = <<>>
                 THEN process[p].firstDue = schedule => Due(p) \subseteq covered
                 ELSE Len(ticks) = 1 /\ \A u \in Due(p) : u <= ticks[1]

\* What stands for tick t: its task, or that p is about to offer it.
Represented(p, t) == made[t] > 0 \/ \E n \in DOMAIN process[p].ticks : process[p].ticks[n] = t
Filled ==
    missed = "backfill" =>
        \A p \in Schedulers : Offering(p) =>
            \A t \in Due(p) :
                \/ Represented(p, t)
                \/ Cardinality({u \in Due(p) : u > t /\ Represented(p, u)}) >= MaxBackfill

Inv ==
    TicksAccounted /\ Clocks /\ Begun /\ Current /\ Kept /\ Joined /\ Filled

-----------------------------------------------------------------------------
(* Cron ticks. *)

\* Division with remainder.
LEMMA Division ==
    ASSUME NEW t \in Int
    PROVE  /\ t \div Period \in Int /\ t % Period \in 0..(Period - 1)
           /\ t = Period * (t \div Period) + (t % Period)
BY ClockAssumption, SMT

\* A multiple is its quotient times the period, and the other way round.
LEMMA Multiple ==
    /\ \A t \in Int : t % Period = 0 => t = Period * (t \div Period)
    /\ \A q \in Int : /\ Period * q \in Int /\ (Period * q) % Period = 0
                      /\ (Period * q) \div Period = q
<1>1. ASSUME NEW t \in Int, t % Period = 0 PROVE t = Period * (t \div Period)
  BY <1>1, Division, ClockAssumption
<1>2. ASSUME NEW q \in Int
      PROVE  Period * q \in Int /\ (Period * q) % Period = 0 /\ (Period * q) \div Period = q
  BY ClockAssumption, SMT
<1> QED BY <1>1, <1>2

\* Different ticks are at least a period apart, in multiples of it.
LEMMA Apart ==
    ASSUME NEW t \in Int, NEW u \in Int, t % Period = 0, u % Period = 0, t < u
    PROVE  t + Period <= u
<1> DEFINE q == t \div Period  r == u \div Period
<1>1. q \in Int /\ r \in Int /\ t = Period * q /\ u = Period * r
  BY Division, Multiple
<1> HIDE DEF q, r
<1> QED BY <1>1, ClockAssumption, SMT

\* A tick before w is some number of periods before it.
LEMMA Before ==
    ASSUME NEW w \in Int, w % Period = 0
    PROVE  /\ \A j \in Int : w - j * Period \in Int /\ (w - j * Period) % Period = 0
           /\ \A t \in Int : t % Period = 0 /\ t <= w =>
                 (w - t) \div Period \in Nat /\ t = w - ((w - t) \div Period) * Period
<1> DEFINE r == w \div Period
<1>1. r \in Int /\ w = Period * r
  BY Division, Multiple
<1>2. ASSUME NEW j \in Int PROVE w - j * Period \in Int /\ (w - j * Period) % Period = 0
  <2>1. w - j * Period = Period * (r - j)
    BY <1>1, ClockAssumption, SMT
  <2> HIDE DEF r
  <2> QED BY <1>1, <2>1, Multiple
<1>3. ASSUME NEW t \in Int, t % Period = 0, t <= w
      PROVE  (w - t) \div Period \in Nat /\ t = w - ((w - t) \div Period) * Period
  <2> DEFINE q == t \div Period
  <2>1. q \in Int /\ t = Period * q
    BY <1>3, Division, Multiple
  <2>2. w - t = Period * (r - q)
    BY <1>1, <2>1, ClockAssumption, SMT
  <2> HIDE DEF r, q
  <2>3. (w - t) \div Period = r - q
    BY <1>1, <2>1, <2>2, Multiple
  <2>4. r - q >= 0
    BY <1>1, <2>1, <1>3, ClockAssumption, SMT
  <2>5. t = w - (r - q) * Period
    BY <1>1, <2>1, ClockAssumption, SMT
  <2> QED BY <1>1, <2>1, <2>3, <2>4, <2>5
<1> QED BY <1>2, <1>3

\* The same number of periods before w is the same tick, and more is earlier.
LEMMA Order ==
    ASSUME NEW w \in Int, NEW i \in Int, NEW j \in Int, i < j
    PROVE  w - j * Period < w - i * Period
BY ClockAssumption, SMT

\* Cron.next is the first tick after a time, and Cron.prev of it the last one up to there.
LEMMA NextAfter ==
    ASSUME NEW t \in Int
    PROVE  /\ Next_(t) \in Int /\ t < Next_(t) /\ Next_(t) <= t + Period
           /\ Next_(t) % Period = 0
           /\ Prev_(Next_(t)) = Next_(t) - Period
           /\ Prev_(Next_(t)) % Period = 0
           /\ \A u \in Int : u % Period = 0 /\ u < Next_(t) => u <= Prev_(Next_(t))
<1> DEFINE q == t \div Period
           w == Prev_(Next_(t))
<1>1. q \in Int /\ Period * q <= t /\ t < Period * q + Period
  BY Division, ClockAssumption
<1>2. Next_(t) = Period * q + Period /\ Next_(t) = Period * (q + 1)
  BY <1>1, ClockAssumption, SMT DEF Next_
<1>3. Next_(t) \in Int /\ t < Next_(t) /\ Next_(t) <= t + Period /\ Next_(t) % Period = 0
  BY <1>1, <1>2, Multiple, ClockAssumption
<1>4. (Next_(t) - 1) \div Period = q
  <2>1. Next_(t) - 1 = Period * q + (Period - 1)
    BY <1>1, <1>2, Multiple, ClockAssumption
  <2> HIDE DEF q
  <2>2. (Period * q + (Period - 1)) \div Period = q
    BY <1>1, ClockAssumption, SMT
  <2> QED BY <2>1, <2>2
<1>5. w = Period * q
  BY <1>1, <1>4, ClockAssumption, SMT DEF Prev_
<1> HIDE DEF q, w
<1>6. w = Next_(t) - Period /\ w % Period = 0
  <2>1. Period * q \in Int /\ (Period * q) % Period = 0
    BY <1>1, Multiple
  <2> QED BY <1>2, <1>5, <2>1, ClockAssumption
<1>7. ASSUME NEW u \in Int, u % Period = 0, u < Next_(t) PROVE u <= w
  BY <1>3, <1>6, <1>7, Apart, ClockAssumption
<1> QED BY <1>3, <1>6, <1>7 DEF w

-----------------------------------------------------------------------------
(* What an observation selects. *)

\* The model's instants are finitely many numbers.
LEMMA InstantsFinite ==
    /\ Latest \in Nat /\ Latest + Period \in Nat /\ Instants \subseteq Nat
    /\ IsFiniteSet(CronTicks)
    /\ \A S \in SUBSET CronTicks : IsFiniteSet(S) /\ Cardinality(S) \in Nat
<1>1. Latest \in Nat /\ Latest + Period \in Nat
  BY ClockAssumption, BoundsAssumption DEF Latest
<1>2. IsFiniteSet(Instants)
  BY <1>1, FS_Interval DEF Instants
<1>3. IsFiniteSet(CronTicks)
  BY <1>2, FS_Subset DEF CronTicks
<1>4. \A S \in SUBSET CronTicks : IsFiniteSet(S) /\ Cardinality(S) \in Nat
  BY <1>3, FS_Subset, FS_CardinalityType
<1> QED BY <1>1, <1>3, <1>4 DEF Instants

\* An instant that a clock can show, and the tick after it.
LEMMA Shown ==
    ASSUME NEW t \in Nat, t < Latest
    PROVE  t \in Instants /\ Next_(t) \in Instants
BY InstantsFinite, NextAfter, ClockAssumption DEF Instants

\* The due ticks are as many as there are periods between the first and the last.
LEMMA DueBounded ==
    ASSUME NEW w \in Int, w % Period = 0, NEW m \in Nat, NEW D \in SUBSET CronTicks,
           \A t \in D : t <= w /\ w - m * Period < t
    PROVE  Cardinality(D) <= m
<1> DEFINE f == [t \in D |-> (w - t) \div Period]
<1>1. D \subseteq Int /\ \A t \in D : t % Period = 0
  BY InstantsFinite DEF CronTicks
<1>2. \A t \in D : /\ (w - t) \div Period \in Nat
                   /\ t = w - ((w - t) \div Period) * Period
  BY <1>1, Before
<1>3. ASSUME NEW t \in D PROVE f[t] \in 0..(m - 1)
  <2> DEFINE j == (w - t) \div Period
  <2>1. j \in Nat /\ t = w - j * Period
    BY <1>2
  <2> HIDE DEF j
  <2>2. CASE m < j
    <3>1. w - j * Period < w - m * Period
      BY <2>1, <2>2, Order
    <3> QED BY <2>1, <3>1, Before, <1>1
  <2>3. CASE m = j
    BY <2>1, <2>3, <1>1
  <2>4. CASE j < m
    BY <2>1, <2>4 DEF j
  <2> QED BY <2>1, <2>2, <2>3, <2>4
<1>4. f \in Injection(D, 0..(m - 1))
  BY <1>2, <1>3 DEF Injection, IsInjective
<1>5. IsFiniteSet(0..(m - 1)) /\ Cardinality(0..(m - 1)) = m
  BY FS_Interval
<1> QED BY <1>4, <1>5, FS_Injection

\* RecentBackfill selects due ticks, and for one that it leaves out MaxBackfill
\* newer ones.
LEMMA RecentTicks ==
    ASSUME NEW f \in Nat, NEW at \in Nat, f <= at, at < Latest
    PROVE  LET s == RecentBackfill(f, at)
               D == {t \in CronTicks : f <= t /\ t <= at}
           IN /\ s \in Seq(Instants)
              /\ \A n \in DOMAIN s : f <= s[n] /\ s[n] <= at
              /\ \A t \in D :
                    \/ \E n \in DOMAIN s : s[n] = t
                    \/ Cardinality({u \in D : u > t /\ \E n \in DOMAIN s : s[n] = u})
                           >= MaxBackfill
<1> DEFINE w == Prev_(Next_(at))
           D == {t \in CronTicks : f <= t /\ t <= at}
           due == {t \in CronTicks : f <= t /\ t <= w}
           n == IF Cardinality(due) < MaxBackfill THEN Cardinality(due) ELSE MaxBackfill
           s == [k \in 1..n |-> w - (n - k) * Period]
<1>1. /\ w \in Int /\ w % Period = 0 /\ w <= at
      /\ \A u \in Int : u % Period = 0 /\ u <= at => u <= w
  <2>1. /\ Next_(at) \in Int /\ at < Next_(at) /\ Next_(at) <= at + Period
        /\ w = Next_(at) - Period /\ w % Period = 0
        /\ \A u \in Int : u % Period = 0 /\ u < Next_(at) => u <= w
    BY NextAfter
  <2> HIDE DEF w
  <2> QED BY <2>1, ClockAssumption
<1> HIDE DEF w
<1>2. due = D
  <2>1. \A t \in CronTicks : t \in Int /\ (t <= at <=> t <= w)
    BY <1>1, InstantsFinite DEF CronTicks
  <2> QED BY <2>1
<1>3. RecentBackfill(f, at) = s
  BY DEF RecentBackfill, w
<1>4. n \in Nat /\ n <= Cardinality(due) /\ n <= MaxBackfill /\ Cardinality(due) \in Nat
  BY InstantsFinite, PolicyAssumption
<1>5. due \in SUBSET CronTicks /\ \A t \in due : t \in Int /\ t % Period = 0 /\ f <= t /\ t <= w
  BY InstantsFinite DEF CronTicks
<1>6. n < MaxBackfill => Cardinality(due) = n
  BY <1>4
<1> HIDE DEF due, n
<1>7. ASSUME NEW k \in 1..n
      PROVE  /\ s[k] = w - (n - k) * Period
             /\ s[k] \in Int /\ s[k] % Period = 0 /\ f <= s[k] /\ s[k] <= w
  <2>1. n - k \in Nat /\ s[k] = w - (n - k) * Period
    BY <1>4
  <2>2. s[k] \in Int /\ s[k] % Period = 0
    BY <1>1, <2>1, Before
  <2>3. s[k] <= w
    BY <1>1, <2>1, ClockAssumption, SMT
  <2>4. f <= s[k]
    <3>1. SUFFICES ASSUME s[k] < f PROVE FALSE
      BY <2>2
    <3>2. \A t \in due : w - (n - k) * Period < t
      BY <1>5, <2>1, <2>2, <3>1
    <3>3. Cardinality(due) <= n - k
      BY <1>1, <1>5, <2>1, <3>2, DueBounded
    <3> QED BY <1>4, <3>3
  <2> QED BY <2>1, <2>2, <2>3, <2>4
<1>8. \A k \in 1..n : s[k] \in due
  <2> TAKE k \in 1..n
  <2>1. s[k] \in 0..(Latest + Period)
    BY <1>1, <1>7, InstantsFinite, ClockAssumption
  <2> QED BY <1>7, <2>1 DEF CronTicks, Instants, due
<1>9. s \in Seq(Instants) /\ DOMAIN s = 1..n
  <2>1. \A k \in 1..n : s[k] \in Instants
    BY <1>8, <1>5 DEF CronTicks
  <2> QED BY <1>4, <2>1
<1>10. ASSUME NEW t \in due, \A k \in 1..n : s[k] # t
       PROVE  Cardinality({u \in due : u > t /\ \E k \in 1..n : s[k] = u}) >= MaxBackfill
  <2> DEFINE R == {u \in due : u > t /\ \E k \in 1..n : s[k] = u}
             j == (w - t) \div Period
  <2>1. j \in Nat /\ t = w - j * Period
    BY <1>1, <1>5, Before
  <2> HIDE DEF j
  <2>2. j >= n
    <3>1. SUFFICES ASSUME j < n PROVE FALSE
      BY <1>4, <2>1
    <3>2. n - j \in 1..n /\ n - (n - j) = j
      BY <1>4, <2>1, <3>1
    <3>3. s[n - j] = t
      BY <1>7, <2>1, <3>2
    <3> QED BY <1>10, <3>2, <3>3
  <2>3. \A k \in 1..n : s[k] > t
    <3> TAKE k \in 1..n
    <3>1. n - k < j /\ n - k \in Int /\ j \in Int
      BY <1>4, <2>1, <2>2
    <3> QED BY <1>1, <1>7, <2>1, <3>1, Order
  <2>4. s \in Bijection(1..n, R)
    <3>1. \A k \in 1..n : s[k] \in R
      BY <1>8, <2>3
    <3>2. \A i, k \in 1..n : i < k => s[i] # s[k]
      <4> TAKE i, k \in 1..n
      <4> HAVE i < k
      <4>1. n - k < n - i /\ n - i \in Int /\ n - k \in Int
        BY <1>4
      <4>2. w - (n - i) * Period < w - (n - k) * Period
        BY <1>1, <4>1, Order
      <4> QED BY <1>7, <4>2
    <3>3. \A i, k \in 1..n : s[i] = s[k] => i = k
      BY <1>4, <3>2
    <3> QED BY <1>9, <3>1, <3>3 DEF Bijection, Injection, IsInjective, Surjection
  <2>5. Cardinality(R) = n /\ IsFiniteSet(R)
    <3>1. IsFiniteSet(1..n) /\ Cardinality(1..n) = n
      BY <1>4, FS_Interval
    <3> HIDE DEF R
    <3>2. ExistsBijection(1..n, R)
      BY <2>4 DEF ExistsBijection
    <3> QED BY <3>1, <3>2, FS_Bijection
  <2>6. n = MaxBackfill
    <3>1. t \notin R /\ IsFiniteSet(due) /\ R \cup {t} \subseteq due
      BY <1>5, InstantsFinite
    <3>2. Cardinality(R \cup {t}) = n + 1
      BY <2>5, <3>1, FS_AddElement
    <3>3. Cardinality(R \cup {t}) <= Cardinality(due)
      BY <3>1, FS_Subset
    <3> HIDE DEF R
    <3> QED BY <1>4, <1>6, <3>2, <3>3, PolicyAssumption
  <2> QED BY <2>5, <2>6, <1>4
<1>11. \A k \in DOMAIN s : f <= s[k] /\ s[k] <= at
  BY <1>1, <1>7, <1>9
<1> HIDE DEF s, D
<1>12. /\ s \in Seq(Instants)
       /\ \A k \in DOMAIN s : f <= s[k] /\ s[k] <= at
       /\ \A t \in D :
             \/ \E k \in DOMAIN s : s[k] = t
             \/ Cardinality({u \in D : u > t /\ \E k \in DOMAIN s : s[k] = u}) >= MaxBackfill
  BY <1>2, <1>9, <1>10, <1>11
<1> QED BY <1>3, <1>12 DEF D

\* Whatever is selected is due, and it stands for everything that is.
LEMMA SelectedTicks ==
    ASSUME NEW f \in Nat, NEW at \in Nat, f <= at, at < Latest, missed \in Policies
    PROVE  LET s == Selected(f, at)
               D == {t \in CronTicks : f <= t /\ t <= at}
           IN /\ s \in Seq(Instants)
              /\ \A n \in DOMAIN s : f <= s[n] /\ s[n] <= at
              /\ missed = "coalesce" => Len(s) = 1 /\ \A u \in D : u <= s[1]
              /\ missed = "backfill" =>
                    \A t \in D :
                       \/ \E n \in DOMAIN s : s[n] = t
                       \/ Cardinality({u \in D : u > t /\ \E n \in DOMAIN s : s[n] = u})
                              >= MaxBackfill
<1> DEFINE D == {t \in CronTicks : f <= t /\ t <= at}
<1>1. Next_(f) \in Int /\ f \in Instants /\ D \subseteq Nat
  BY NextAfter, Shown, InstantsFinite DEF CronTicks, Instants
<1>2. CASE Next_(f) > at
  <2>1. Selected(f, at) = <<f>>
    BY <1>1, <1>2 DEF Selected
  <2>2. \A u \in D : u = f
    <3> TAKE u \in D
    <3>1. CASE f % Period = 0
      <4>1. Next_(f) = f + Period
        <5>1. Prev_(Next_(f)) = Next_(f) - Period /\ f <= Prev_(Next_(f))
          BY <3>1, NextAfter
        <5>2. Next_(f) <= f + Period
          BY NextAfter
        <5> HIDE DEF D
        <5> QED BY <1>1, <5>1, <5>2, ClockAssumption
      <4> QED BY <1>1, <1>2, <3>1, <4>1, Apart, ClockAssumption DEF CronTicks
    <3>2. CASE f % Period # 0
      <4>1. f < u /\ u < Next_(f) /\ u % Period = 0 /\ u \in Int
        BY <1>1, <1>2, <3>2 DEF CronTicks
      <4>2. u <= Prev_(Next_(f)) /\ Prev_(Next_(f)) = Next_(f) - Period /\ Next_(f) <= f + Period
        BY <4>1, NextAfter
      <4> QED BY <1>1, <4>1, <4>2, ClockAssumption
    <3> QED BY <3>1, <3>2
  <2> QED BY <1>1, <2>1, <2>2
<1>3. CASE Next_(f) <= at
  <2>1. CASE missed = "skip"
    <3>1. Selected(f, at) = <<>>
      BY <1>1, <1>3, <2>1 DEF Selected
    <3> QED BY <2>1, <3>1
  <2>2. CASE missed = "coalesce"
    <3> DEFINE w == Prev_(Next_(at))
    <3>1. Selected(f, at) = <<w>>
      BY <1>1, <1>3, <2>2 DEF Selected
    <3>2. /\ w = Next_(at) - Period /\ Next_(at) \in Int /\ at < Next_(at)
          /\ Next_(at) <= at + Period
          /\ \A u \in Int : u % Period = 0 /\ u < Next_(at) => u <= w
      BY NextAfter
    <3>3. f < Next_(f) /\ Next_(f) % Period = 0
      BY NextAfter
    <3> HIDE DEF w
    <3>4. w \in Int /\ f <= w /\ w <= at
      BY <1>1, <1>3, <3>2, <3>3, ClockAssumption
    <3>5. w \in Instants
      BY <3>4, Shown, InstantsFinite
    <3>6. \A u \in D : u <= w
      BY <1>1, <3>2 DEF CronTicks
    <3> QED BY <2>2, <3>1, <3>4, <3>5, <3>6
  <2>3. CASE missed = "backfill"
    <3>1. Selected(f, at) = RecentBackfill(f, at)
      BY <1>1, <1>3, <2>3 DEF Selected
    <3> QED BY <2>3, <3>1, RecentTicks
  <2> QED BY <2>1, <2>2, <2>3, PolicyAssumption
<1> QED BY <1>1, <1>2, <1>3

-----------------------------------------------------------------------------
(* The invariant is kept. *)

Process ==
    [step : {"idle", "observed", "offering"}, observedAt : Instants,
     firstDue : Instants, ticks : Seq(Instants)]

\* More ticks count for more.
LEMMA CountGrows ==
    ASSUME NEW T \in SUBSET CronTicks, NEW S \in SUBSET T
    PROVE  Cardinality(S) <= Cardinality(T) /\ Cardinality(S) \in Nat /\ Cardinality(T) \in Nat
BY InstantsFinite, FS_Subset

\* What Inv says of numbers.
LEMMA Numbers ==
    ASSUME Inv
    PROVE  /\ Latest \in Nat /\ Instants \subseteq Nat /\ CronTicks \subseteq Instants
           /\ Unset \notin Nat
           /\ \A p \in Schedulers :
                 /\ process[p] \in Process
                 /\ process[p].observedAt \in Nat /\ process[p].firstDue \in Nat
                 /\ Due(p) \subseteq CronTicks
           /\ schedule \in Instants \cup {Unset} /\ start \in Instants \cup {Unset}
BY InstantsFinite, StartAssumption DEF Inv, TicksAccounted, TypeOK, Process, Due, CronTicks

\* A scheduler that stops offering, or has not begun to, forgets only its own business.
LEMMA LocalStep ==
    ASSUME Inv, NEW p \in Schedulers, NEW c \in Process,
           process' = [process EXCEPT ![p] = c],
           c.step # "offering", c.ticks = <<>>, c.observedAt < Latest,
           UNCHANGED <<now, schedule, start, stored, made, covered, missed>>,
           crashes' \in 0..MaxCrashes
    PROVE  Inv'
<1>1. \A q \in Schedulers :
         /\ process'[q] = IF q = p THEN c ELSE process[q]
         /\ Offering(q)' => q # p /\ Offering(q)
  BY DEF Inv, TicksAccounted, TypeOK, Offering
<1>2. process' \in [Schedulers -> Process]
  BY <1>1 DEF Inv, TicksAccounted, TypeOK, Process
<1>3. TypeOK'
  <2>1. \A q \in Schedulers : \A n \in DOMAIN process'[q].ticks :
           /\ process'[q].firstDue <= process'[q].ticks[n]
           /\ process'[q].ticks[n] <= process'[q].observedAt
    BY <1>1 DEF Inv, TicksAccounted, TypeOK
  <2> QED BY <1>2, <2>1 DEF Inv, TicksAccounted, TypeOK, Process
<1>4. TicksAccounted'
  <2>1. Passed' = Passed
    BY DEF Passed
  <2> QED BY <1>3, <2>1 DEF Inv, TicksAccounted
<1>5. Clocks' /\ Begun' /\ Current' /\ Kept'
  BY <1>1 DEF Inv, Clocks, Begun, Current, Kept, Offering
<1>6. \A q \in Schedulers : Offering(q)' =>
         Due(q)' = Due(q) /\ \A t \in Instants : Represented(q, t)' = Represented(q, t)
  BY <1>1 DEF Due, Represented
<1>7. Joined'
  BY <1>1, <1>6 DEF Inv, Joined
<1>8. Filled'
  <2> SUFFICES ASSUME missed = "backfill", NEW q \in Schedulers, Offering(q)', NEW t \in Due(q)'
               PROVE  \/ Represented(q, t)'
                      \/ Cardinality({u \in Due(q)' : u > t /\ Represented(q, u)'}) >= MaxBackfill
    BY DEF Filled
  <2>1. {u \in Due(q)' : u > t /\ Represented(q, u)'} = {u \in Due(q) : u > t /\ Represented(q, u)}
    BY <1>6, Numbers
  <2> QED BY <1>1, <1>6, <2>1, Numbers DEF Inv, Filled
<1> QED BY <1>4, <1>5, <1>7, <1>8 DEF Inv

\* Nothing is due, stored or passed at the beginning.
LEMMA InitInv == Init => Inv
<1> SUFFICES ASSUME Init PROVE Inv
  OBVIOUS
<1>1. 0 \in Instants /\ 0 < Latest /\ Latest \in Nat
  BY InstantsFinite, BoundsAssumption, ClockAssumption DEF Latest, Instants
<1>2. Idle \in Process /\ Idle.step = "idle" /\ Idle.observedAt = 0 /\ Idle.ticks = <<>>
  BY <1>1 DEF Idle, Process
<1>3. TypeOK
  BY <1>1, <1>2, StartAssumption, BoundsAssumption, InstantsFinite
     DEF Init, TypeOK, Process
<1>4. Passed = {}
  BY DEF Passed, Init
<1>5. Clocks /\ Begun /\ Current /\ Kept /\ Joined /\ Filled
  BY <1>1, <1>2, BoundsAssumption
     DEF Init, Clocks, Begun, Current, Kept, Joined, Filled, Offering
<1> QED BY <1>3, <1>4, <1>5 DEF Inv, TicksAccounted

\* A scheduler's clock shows an instant.
LEMMA LocalClockShown ==
    ASSUME Inv, NEW p \in Schedulers
    PROVE  LocalClock(p) \in Nat /\ LocalClock(p) < Latest
BY ClockAssumption, BoundsAssumption
   DEF Inv, TicksAccounted, TypeOK, Clocks, LocalClock, Latest

\* Looking at the clock changes nothing for anybody.
LEMMA ObserveInv == ASSUME Inv, NEW p \in Schedulers, Observe(p) PROVE Inv'
<1> DEFINE c == [Idle EXCEPT !.step = "observed", !.observedAt = LocalClock(p)]
<1>1. LocalClock(p) \in Instants /\ LocalClock(p) < Latest
  BY LocalClockShown, Shown
<1>2. Idle \in Process /\ Idle.ticks = <<>>
  BY InstantsFinite DEF Idle, Process, Instants
<1>3. c \in Process
  BY <1>1, <1>2 DEF Process
<1>4. c.step = "observed" /\ c.ticks = <<>> /\ c.observedAt = LocalClock(p)
  BY <1>2 DEF Process
<1>5. crashes' \in 0..MaxCrashes /\ process' = [process EXCEPT ![p] = c]
  BY DEF Observe, Inv, TicksAccounted, TypeOK
<1>6. UNCHANGED <<now, schedule, start, stored, made, covered, missed>>
  BY DEF Observe
<1> HIDE DEF c
<1>7. c.step # "offering" /\ c.ticks = <<>> /\ c.observedAt < Latest
  BY <1>1, <1>4
<1> QED BY <1>3, <1>5, <1>6, <1>7, LocalStep

\* A crash loses the ticks that were still to be offered, and they stay due.
LEMMA CrashInv == ASSUME Inv, NEW p \in Schedulers, Crash(p) PROVE Inv'
<1>1. Idle \in Process /\ Idle.step = "idle" /\ Idle.ticks = <<>> /\ Idle.observedAt = 0
  BY InstantsFinite DEF Idle, Process, Instants
<1>2. crashes' \in 0..MaxCrashes /\ 0 < Latest
  BY BoundsAssumption DEF Crash, Inv, TicksAccounted, TypeOK, Latest
<1> QED BY <1>1, <1>2, LocalStep DEF Crash

\* What is forgotten in the queue has been made and covered all the same.
LEMMA FinishInv == ASSUME Inv, NEW t \in Instants, Finish(t) PROVE Inv'
<1>1. TypeOK' /\ Passed' = Passed
  BY DEF Inv, TicksAccounted, TypeOK, Passed, Finish
<1>2. TicksAccounted'
  BY <1>1 DEF Inv, TicksAccounted, Finish
<1>3. Clocks' /\ Begun' /\ Current' /\ Kept'
  BY DEF Inv, Clocks, Begun, Current, Kept, Offering, Finish
<1>4. Joined' /\ Filled'
  BY DEF Inv, Joined, Filled, Offering, Due, Represented, Finish
<1> QED BY <1>2, <1>3, <1>4 DEF Inv

\* Time passes, and what was observed stays as it was.
LEMMA TickInv == ASSUME Inv, Tick PROVE Inv'
<1>1. TypeOK' /\ Passed' = Passed /\ Clocks'
  BY BoundsAssumption DEF Inv, TicksAccounted, TypeOK, Passed, Clocks, Tick
<1>2. TicksAccounted'
  BY <1>1 DEF Inv, TicksAccounted, Tick
<1>3. Begun' /\ Current' /\ Kept'
  BY DEF Inv, Begun, Current, Kept, Offering, Tick
<1>4. Joined' /\ Filled'
  BY DEF Inv, Joined, Filled, Offering, Due, Represented, Tick
<1> QED BY <1>1, <1>2, <1>3, <1>4 DEF Inv

\* What is left of a sequence when its first element has been taken.
LEMMA TailOf ==
    ASSUME NEW S, NEW s \in Seq(S), s # <<>>
    PROVE  /\ Head(s) = s[1] /\ 1 \in DOMAIN s /\ Head(s) \in S /\ Tail(s) \in Seq(S)
           /\ \A n \in DOMAIN s : n # 1 => n - 1 \in DOMAIN Tail(s) /\ Tail(s)[n - 1] = s[n]
           /\ \A n \in DOMAIN Tail(s) : n + 1 \in DOMAIN s /\ Tail(s)[n] = s[n + 1]
           /\ Len(s) = 1 => Tail(s) = <<>>
<1> DEFINE r == Tail(s)
<1>1. Len(s) \in Nat /\ Len(s) >= 1 /\ DOMAIN s = 1..Len(s)
  OBVIOUS
<1>2. /\ r \in Seq(S) /\ Len(r) = Len(s) - 1
      /\ \A n \in 1..(Len(s) - 1) : r[n] = s[n + 1]
  OBVIOUS
<1> HIDE DEF r
<1>3. DOMAIN r = 1..(Len(s) - 1)
  BY <1>1, <1>2
<1>4. Head(s) = s[1] /\ Head(s) \in S /\ 1 \in DOMAIN s
  BY <1>1
<1>5. ASSUME NEW n \in DOMAIN s, n # 1 PROVE n - 1 \in DOMAIN r /\ r[n - 1] = s[n]
  <2>1. n - 1 \in 1..(Len(s) - 1) /\ (n - 1) + 1 = n
    BY <1>1, <1>5
  <2>2. r[n - 1] = s[(n - 1) + 1]
    BY <1>2, <2>1
  <2> QED BY <1>3, <2>1, <2>2
<1>6. Len(s) = 1 => r = <<>>
  BY <1>1, <1>2
<1>7. \A n \in DOMAIN r : n + 1 \in DOMAIN s /\ r[n] = s[n + 1]
  BY <1>1, <1>2, <1>3
<1>8. \A n \in DOMAIN s : n # 1 => n - 1 \in DOMAIN r /\ r[n - 1] = s[n]
  BY <1>5
<1>9. /\ Head(s) = s[1] /\ 1 \in DOMAIN s /\ Head(s) \in S /\ r \in Seq(S)
      /\ \A n \in DOMAIN s : n # 1 => n - 1 \in DOMAIN r /\ r[n - 1] = s[n]
      /\ \A n \in DOMAIN r : n + 1 \in DOMAIN s /\ r[n] = s[n + 1]
      /\ Len(s) = 1 => r = <<>>
  BY <1>2, <1>4, <1>6, <1>7, <1>8
<1> QED BY <1>9, Zenon DEF r

\* An offer turns a tick in hand into a task, or finds one that stands for it.
LEMMA OfferInv == ASSUME Inv, NEW p \in Schedulers, Offer(p) PROVE Inv'
<1> DEFINE o == process[p]
           r == Tail(o.ticks)
           tick == Head(o.ticks)
           from == IF missed = "coalesce" THEN o.firstDue ELSE tick
           c == [o EXCEPT !.ticks = r]
<1>1. /\ Offering(p) /\ o.ticks # <<>> /\ o.ticks \in Seq(Instants) /\ o \in Process
      /\ process' = [process EXCEPT ![p] = c]
      /\ UNCHANGED <<now, schedule, start, missed, crashes>>
  BY Numbers DEF Offer, Offering, Process
<1>2. /\ tick \in Instants /\ tick = o.ticks[1] /\ o.firstDue <= tick
      /\ tick <= o.observedAt
      /\ r \in Seq(Instants)
      /\ \A n \in DOMAIN o.ticks : n # 1 => n - 1 \in DOMAIN r /\ r[n - 1] = o.ticks[n]
      /\ \A n \in DOMAIN r : n + 1 \in DOMAIN o.ticks /\ r[n] = o.ticks[n + 1]
      /\ Len(o.ticks) = 1 => r = <<>>
  <2>1. \A n \in DOMAIN o.ticks : o.firstDue <= o.ticks[n] /\ o.ticks[n] <= o.observedAt
    BY DEF Inv, TicksAccounted, TypeOK
  <2>2. /\ tick = o.ticks[1] /\ 1 \in DOMAIN o.ticks /\ tick \in Instants
        /\ r \in Seq(Instants)
        /\ \A n \in DOMAIN o.ticks : n # 1 => n - 1 \in DOMAIN r /\ r[n - 1] = o.ticks[n]
        /\ \A n \in DOMAIN r : n + 1 \in DOMAIN o.ticks /\ r[n] = o.ticks[n + 1]
        /\ Len(o.ticks) = 1 => r = <<>>
    BY <1>1, TailOf
  <2> HIDE DEF o, r, tick
  <2> QED BY <2>1, <2>2
<1> HIDE DEF r
<1>3. /\ c \in Process /\ c.ticks = r /\ c.step = o.step
      /\ c.firstDue = o.firstDue /\ c.observedAt = o.observedAt
  <2> HIDE DEF o
  <2> QED BY <1>1, <1>2 DEF Process
<1>4. \A q \in Schedulers : process'[q] = IF q = p THEN c ELSE process[q]
  BY <1>1 DEF Inv, TicksAccounted, TypeOK
<1>5. /\ stored' \subseteq Instants /\ stored' \subseteq stored \cup {tick}
      /\ made' \in [Instants -> 0..MaxMade] /\ made'[tick] > 0
      /\ \A t \in Instants : made[t] > 0 => made'[t] > 0
      /\ covered \subseteq covered' /\ covered' \subseteq CronTicks
      /\ tick \in stored \/ {t \in CronTicks : from <= t /\ t <= tick} \subseteq covered'
  <2>1. stored \subseteq Instants /\ made \in [Instants -> 0..MaxMade] /\ covered \subseteq CronTicks
    BY DEF Inv, TicksAccounted, TypeOK
  <2>2. CASE tick \in stored
    <3>1. UNCHANGED <<stored, made, covered>>
      BY <2>2 DEF Offer
    <3>2. made[tick] > 0
      BY <2>2 DEF Inv, Kept
    <3> QED BY <2>1, <2>2, <3>1, <3>2
  <2>3. CASE tick \notin stored
    <3>1. /\ stored' = stored \cup {tick}
          /\ made' = [made EXCEPT ![tick] = IF @ < MaxMade THEN @ + 1 ELSE @]
          /\ covered' = covered \cup {t \in CronTicks : from <= t /\ t <= tick}
      BY <2>3 DEF Offer
    <3> HIDE DEF tick, from, o, c
    <3>2. made' \in [Instants -> 0..MaxMade] /\ made'[tick] > 0
      BY <1>2, <2>1, <3>1, BoundsAssumption
    <3>3. \A t \in Instants : made[t] > 0 => made'[t] > 0
      BY <1>2, <2>1, <3>1, BoundsAssumption
    <3> QED BY <1>2, <2>1, <3>1, <3>2, <3>3
  <2> QED BY <2>2, <2>3
<1> HIDE DEF o, tick, from, c
<1>6. TypeOK'
  <2>1. process' \in [Schedulers -> Process]
    BY <1>1, <1>3, <1>4, Numbers DEF Inv, TicksAccounted, TypeOK
  <2>2. \A q \in Schedulers : \A n \in DOMAIN process'[q].ticks :
           /\ process'[q].firstDue <= process'[q].ticks[n]
           /\ process'[q].ticks[n] <= process'[q].observedAt
    <3> TAKE q \in Schedulers
    <3>1. \A n \in DOMAIN process[q].ticks : /\ process[q].firstDue <= process[q].ticks[n]
                                             /\ process[q].ticks[n] <= process[q].observedAt
      BY DEF Inv, TicksAccounted, TypeOK
    <3>2. q = p => process[q] = o
      BY DEF o
    <3>3. CASE q # p
      BY <1>4, <3>1, <3>3
    <3>4. CASE q = p
      <4>1. process'[q] = c
        BY <1>4, <3>4
      <4>2. \A n \in DOMAIN o.ticks : o.firstDue <= o.ticks[n] /\ o.ticks[n] <= o.observedAt
        BY <3>1, <3>2, <3>4
      <4> QED BY <1>2, <1>3, <4>1, <4>2
    <3> QED BY <3>3, <3>4
  <2> QED BY <1>1, <1>5, <2>1, <2>2 DEF Inv, TicksAccounted, TypeOK, Process
<1>7. \A q \in Schedulers : Offering(q)' <=> Offering(q)
  BY <1>3, <1>4 DEF Offering, o
<1>8. \A q \in Schedulers : Due(q)' = Due(q)
  BY <1>3, <1>4 DEF Due, o
<1>9. ASSUME NEW q \in Schedulers, NEW t \in Instants, Represented(q, t)
      PROVE  Represented(q, t)'
  <2>1. CASE made[t] > 0
    BY <1>5, <2>1 DEF Represented
  <2>2. CASE q # p /\ \E n \in DOMAIN process[q].ticks : process[q].ticks[n] = t
    BY <1>4, <2>2 DEF Represented
  <2>3. CASE q = p /\ \E n \in DOMAIN o.ticks : o.ticks[n] = t
    <3>1. PICK n \in DOMAIN o.ticks : o.ticks[n] = t
      BY <2>3
    <3>2. process'[q].ticks = r
      BY <1>3, <1>4, <2>3
    <3>3. CASE n = 1
      BY <1>2, <1>5, <3>1, <3>3 DEF Represented
    <3>4. CASE n # 1
      BY <1>2, <3>1, <3>2, <3>4 DEF Represented
    <3> QED BY <3>3, <3>4
  <2> QED BY <1>9, <2>1, <2>2, <2>3 DEF Represented, o
<1>10. TicksAccounted'
  <2>1. Passed' = Passed /\ Passed \subseteq CronTicks
    BY <1>1 DEF Passed
  <2>2. missed' = "coalesce" => Passed' \subseteq covered'
    BY <1>1, <1>5, <2>1 DEF Inv, TicksAccounted
  <2>3. ASSUME missed = "backfill", NEW t \in Passed
        PROVE  \/ made'[t] > 0
               \/ Cardinality({u \in Passed : u > t /\ made'[u] > 0}) >= MaxBackfill
    <3> DEFINE S == {u \in Passed : u > t /\ made[u] > 0}
               T == {u \in Passed : u > t /\ made'[u] > 0}
    <3>1. S \subseteq T /\ T \subseteq CronTicks
      BY <1>5, <2>1, Numbers
    <3>2. Cardinality(S) <= Cardinality(T) /\ Cardinality(S) \in Nat /\ Cardinality(T) \in Nat
      BY <3>1, CountGrows
    <3>3. made[t] > 0 \/ Cardinality(S) >= MaxBackfill
      BY <2>3 DEF Inv, TicksAccounted
    <3> HIDE DEF S, T
    <3>4. made'[t] > 0 \/ Cardinality(T) >= MaxBackfill
      BY <1>5, <2>1, <2>3, <3>2, <3>3, Numbers, PolicyAssumption
    <3> QED BY <3>4 DEF T
  <2> QED BY <1>1, <1>6, <2>1, <2>2, <2>3 DEF TicksAccounted
<1>11. Clocks' /\ Begun' /\ Current'
  <2>1. schedule # Unset
    BY <1>1 DEF Inv, Begun
  <2> QED BY <1>1, <1>3, <1>4, <1>7, <2>1 DEF Inv, Clocks, Begun, Current, o
<1>12. Kept'
  BY <1>5, Numbers DEF Inv, Kept, TicksAccounted, TypeOK
<1>13. Joined'
  <2> SUFFICES ASSUME missed = "coalesce" PROVE Joined'
    BY <1>1 DEF Joined
  <2>1. from = o.firstDue /\ o.firstDue <= schedule /\ schedule \in Nat /\ o.firstDue \in Nat
    BY <1>1, Numbers DEF Inv, Begun, Current, from, o
  <2>2. ASSUME NEW t \in stored'
        PROVE  {u \in CronTicks : schedule <= u /\ u <= t} \subseteq covered'
    <3>1. CASE t \in stored
      BY <1>5, <3>1 DEF Inv, Joined
    <3>2. CASE t = tick /\ t \notin stored
      BY <1>5, <2>1, <3>2, Numbers
    <3> QED BY <1>5, <2>2, <3>1, <3>2
  <2>3. ASSUME NEW q \in Schedulers, Offering(q)
        PROVE  IF process'[q].ticks = <<>>
               THEN process'[q].firstDue = schedule => Due(q) \subseteq covered'
               ELSE Len(process'[q].ticks) = 1 /\ \A u \in Due(q) : u <= process'[q].ticks[1]
    <3>1. CASE q # p
      BY <1>4, <1>5, <2>3, <3>1 DEF Inv, Joined
    <3>2. CASE q = p
      <4>1. Len(o.ticks) = 1 /\ \A u \in Due(p) : u <= tick
        BY <1>1, <1>2, <2>3, <3>2 DEF Inv, Joined, o
      <4>2. process'[p].ticks = <<>> /\ process'[p].firstDue = o.firstDue
        BY <1>2, <1>3, <1>4, <4>1
      <4>3. ASSUME o.firstDue = schedule PROVE Due(p) \subseteq covered'
        <5>1. Due(p) \subseteq {u \in CronTicks : schedule <= u /\ u <= tick}
          BY <4>1, <4>3 DEF Due, o
        <5>2. CASE tick \in stored
          BY <1>5, <5>1, <5>2 DEF Inv, Joined
        <5>3. CASE tick \notin stored
          BY <1>5, <2>1, <4>3, <5>1, <5>3
        <5> QED BY <5>2, <5>3
      <4> QED BY <3>2, <4>2, <4>3
    <3> QED BY <3>1, <3>2
  <2> QED BY <1>1, <1>7, <1>8, <2>2, <2>3 DEF Joined
<1>14. Filled'
  <2> SUFFICES ASSUME missed = "backfill", NEW q \in Schedulers, Offering(q), NEW t \in Due(q)
               PROVE  \/ Represented(q, t)'
                      \/ Cardinality({u \in Due(q) : u > t /\ Represented(q, u)'}) >= MaxBackfill
    BY <1>1, <1>7, <1>8 DEF Filled
  <2> DEFINE S == {u \in Due(q) : u > t /\ Represented(q, u)}
             T == {u \in Due(q) : u > t /\ Represented(q, u)'}
  <2>1. S \subseteq T /\ T \subseteq CronTicks
    BY <1>9, Numbers
  <2>2. Cardinality(S) <= Cardinality(T) /\ Cardinality(S) \in Nat /\ Cardinality(T) \in Nat
    BY <2>1, CountGrows
  <2>3. Represented(q, t) \/ Cardinality(S) >= MaxBackfill
    BY DEF Inv, Filled
  <2>4. Represented(q, t) => Represented(q, t)'
    BY <1>9, Numbers
  <2> HIDE DEF S, T
  <2>5. Represented(q, t)' \/ Cardinality(T) >= MaxBackfill
    BY <2>2, <2>3, <2>4, PolicyAssumption
  <2> QED BY <2>5 DEF T
<1> QED BY <1>10, <1>11, <1>12, <1>13, <1>14 DEF Inv

\* Reading the cursor begins one, where nothing has been passed yet, or takes up
\* everything that is due from it on.
LEMMA ReadCursorInv == ASSUME Inv, NEW p \in Schedulers, ReadCursor(p) PROVE Inv'
<1> DEFINE o == process[p]
           at == o.observedAt
           initial == IF StartAt = Unset THEN Next_(at) ELSE StartAt
           cursor == IF schedule = Unset THEN initial ELSE schedule
           s == Selected(cursor, at)
           c == IF cursor > at THEN Idle
                ELSE [o EXCEPT !.step = "offering", !.firstDue = cursor, !.ticks = s]
<1>1. /\ process' = [process EXCEPT ![p] = c]
      /\ schedule' = cursor
      /\ start' = IF schedule = Unset THEN initial ELSE start
      /\ UNCHANGED <<now, stored, made, covered, missed, crashes>>
  BY DEF ReadCursor
<1>2. at \in Nat /\ at < Latest /\ o \in Process /\ at \in Instants
  BY Numbers DEF Inv, Clocks, Process
<1>3. /\ cursor \in Instants /\ cursor \in Nat
      /\ schedule # Unset => cursor = schedule
      /\ start' \in Instants /\ start' \in Nat /\ start' <= cursor
      /\ schedule = Unset => start' = cursor
  <2>1. initial \in Instants
    BY <1>2, Shown, StartAssumption
  <2> HIDE DEF initial
  <2> QED BY <1>1, <2>1, Numbers DEF Inv, Begun
<1>4. missed \in Policies
  BY DEF Inv, TicksAccounted, TypeOK
<1>5. ASSUME cursor <= at
      PROVE  LET D == {t \in CronTicks : cursor <= t /\ t <= at}
             IN /\ s \in Seq(Instants)
                /\ \A n \in DOMAIN s : cursor <= s[n] /\ s[n] <= at
                /\ missed = "coalesce" => Len(s) = 1 /\ \A u \in D : u <= s[1]
                /\ missed = "backfill" =>
                      \A t \in D :
                         \/ \E n \in DOMAIN s : s[n] = t
                         \/ Cardinality({u \in D : u > t /\ \E n \in DOMAIN s : s[n] = u})
                                >= MaxBackfill
  <2> HIDE DEF cursor, at
  <2> QED BY <1>2, <1>3, <1>4, <1>5, SelectedTicks
<1>6. Idle \in Process /\ Idle.step = "idle" /\ Idle.ticks = <<>> /\ Idle.observedAt = 0
      /\ 0 < Latest
  BY InstantsFinite, BoundsAssumption DEF Idle, Process, Instants, Latest
<1> HIDE DEF s, cursor, initial, at, o
<1>7. CASE cursor > at
  <2>1. c = Idle
    BY <1>7
  <2> HIDE DEF c
  <2>2. \A q \in Schedulers : process'[q] = IF q = p THEN Idle ELSE process[q]
    BY <1>1, <2>1 DEF Inv, TicksAccounted, TypeOK
  <2>3. CASE schedule # Unset
    <3>1. UNCHANGED <<schedule, start>>
      BY <1>1, <1>3, <2>3
    <3>2. crashes' \in 0..MaxCrashes
      BY <1>1 DEF Inv, TicksAccounted, TypeOK
    <3>3. Idle.step # "offering"
      BY <1>6
    <3> QED BY <1>1, <1>6, <2>1, <3>1, <3>2, <3>3, LocalStep
  <2>4. CASE schedule = Unset
    <3>1. /\ schedule' \in Instants /\ start' = schedule' /\ schedule' # Unset /\ stored = {}
          /\ \A q \in Schedulers : ~Offering(q)'
      BY <1>1, <1>3, <1>6, <2>2, <2>4, Numbers DEF Inv, Begun, Offering
    <3>2. Passed' = {}
      BY <3>1, Numbers DEF Passed
    <3>3. TypeOK'
      <4>1. process' \in [Schedulers -> Process]
        BY <1>1, <1>6, <2>1 DEF Inv, TicksAccounted, TypeOK, Process
      <4>2. \A q \in Schedulers : \A n \in DOMAIN process'[q].ticks :
               /\ process'[q].firstDue <= process'[q].ticks[n]
               /\ process'[q].ticks[n] <= process'[q].observedAt
        <5> TAKE q \in Schedulers
        <5>1. CASE q = p
          <6>1. process'[q].ticks = <<>>
            BY <1>6, <2>2, <5>1
          <6>2. DOMAIN process'[q].ticks = {}
            BY <6>1
          <6> QED BY <6>2
        <5>2. CASE q # p
          BY <2>2, <5>2 DEF Inv, TicksAccounted, TypeOK
        <5> QED BY <5>1, <5>2
      <4> QED BY <1>1, <1>3, <4>1, <4>2 DEF Inv, TicksAccounted, TypeOK, Process
    <3>4. Clocks' /\ Begun' /\ Current' /\ Kept'
      BY <1>1, <1>3, <1>6, <2>2, <3>1 DEF Inv, Clocks, Begun, Current, Kept
    <3>5. Joined' /\ Filled'
      BY <1>1, <3>1 DEF Joined, Filled
    <3> QED BY <3>2, <3>3, <3>4, <3>5 DEF Inv, TicksAccounted
  <2> QED BY <2>3, <2>4
<1>8. CASE cursor <= at
  <2> DEFINE D == {t \in CronTicks : cursor <= t /\ t <= at}
  <2>1. /\ s \in Seq(Instants)
        /\ \A n \in DOMAIN s : cursor <= s[n] /\ s[n] <= at
        /\ missed = "coalesce" => Len(s) = 1 /\ \A u \in D : u <= s[1]
        /\ missed = "backfill" =>
              \A t \in D :
                 \/ \E n \in DOMAIN s : s[n] = t
                 \/ Cardinality({u \in D : u > t /\ \E n \in DOMAIN s : s[n] = u}) >= MaxBackfill
    BY <1>5, <1>8
  <2>2. c = [o EXCEPT !.step = "offering", !.firstDue = cursor, !.ticks = s]
    BY <1>2, <1>3, <1>8
  <2> HIDE DEF c
  <2>3. /\ c \in Process /\ c.step = "offering" /\ c.firstDue = cursor /\ c.ticks = s
        /\ c.observedAt = at
    BY <1>2, <1>3, <2>1, <2>2 DEF Process, at
  <2>4. \A q \in Schedulers : process'[q] = IF q = p THEN c ELSE process[q]
    BY <1>1 DEF Inv, TicksAccounted, TypeOK
  <2>5. Due(p)' = D
    BY <2>3, <2>4 DEF Due
  <2>6. \A q \in Schedulers : q # p /\ Offering(q)' =>
           /\ Offering(q) /\ schedule # Unset /\ schedule' = schedule
           /\ Due(q)' = Due(q) /\ \A t \in Instants : Represented(q, t)' = Represented(q, t)
    BY <1>1, <1>3, <2>4 DEF Inv, Begun, Offering, Due, Represented
  <2>7. Passed' = Passed
    <3>1. CASE schedule # Unset
      BY <1>1, <1>3, <3>1 DEF Passed
    <3>2. CASE schedule = Unset
      <4>1. schedule' = start' /\ start' \in Nat
        BY <1>1, <1>3, <3>2
      <4> QED BY <3>2, <4>1, Numbers DEF Passed
    <3> QED BY <3>1, <3>2
  <2>8. TypeOK'
    <3>1. process' \in [Schedulers -> Process]
      BY <1>1, <2>3, Numbers DEF Inv, TicksAccounted, TypeOK, Process
    <3>2. \A q \in Schedulers : \A n \in DOMAIN process'[q].ticks :
             /\ process'[q].firstDue <= process'[q].ticks[n]
             /\ process'[q].ticks[n] <= process'[q].observedAt
      BY <2>1, <2>3, <2>4 DEF Inv, TicksAccounted, TypeOK
    <3> QED BY <1>1, <1>3, <3>1, <3>2 DEF Inv, TicksAccounted, TypeOK, Process
  <2>9. TicksAccounted'
    BY <1>1, <2>7, <2>8 DEF Inv, TicksAccounted
  <2>10. Clocks' /\ Begun' /\ Current' /\ Kept'
    BY <1>1, <1>2, <1>3, <1>8, <2>3, <2>4, Numbers DEF Inv, Clocks, Begun, Current, Kept, Offering
  <2>11. Joined'
    <3> SUFFICES ASSUME missed = "coalesce" PROVE Joined'
      BY <1>1 DEF Joined
    <3>1. \A t \in stored : {u \in CronTicks : schedule' <= u /\ u <= t} \subseteq covered
      BY <1>1, <1>3 DEF Inv, Joined, Begun
    <3>2. ASSUME NEW q \in Schedulers, Offering(q)'
          PROVE  IF process'[q].ticks = <<>>
                 THEN process'[q].firstDue = schedule' => Due(q)' \subseteq covered
                 ELSE Len(process'[q].ticks) = 1 /\ \A u \in Due(q)' : u <= process'[q].ticks[1]
      <4>1. CASE q = p
        BY <2>1, <2>3, <2>4, <2>5, <4>1
      <4>2. CASE q # p
        BY <2>4, <2>6, <3>2, <4>2 DEF Inv, Joined
      <4> QED BY <4>1, <4>2
    <3> QED BY <1>1, <3>1, <3>2 DEF Joined
  <2>12. Filled'
    <3> SUFFICES ASSUME missed = "backfill", NEW q \in Schedulers, Offering(q)', NEW t \in Due(q)'
                 PROVE  \/ Represented(q, t)'
                        \/ Cardinality({u \in Due(q)' : u > t /\ Represented(q, u)'}) >= MaxBackfill
      BY <1>1 DEF Filled
    <3>1. CASE q # p
      <4>1. {u \in Due(q)' : u > t /\ Represented(q, u)'}
            = {u \in Due(q) : u > t /\ Represented(q, u)}
        BY <2>6, <3>1, Numbers
      <4> QED BY <2>6, <3>1, <4>1, Numbers DEF Inv, Filled
    <3>2. CASE q = p
      <4> DEFINE S == {u \in D : u > t /\ \E n \in DOMAIN s : s[n] = u}
                 T == {u \in D : u > t /\ Represented(p, u)'}
      <4>1. \A u \in D : (\E n \in DOMAIN s : s[n] = u) => Represented(p, u)'
        BY <2>3, <2>4 DEF Represented
      <4>2. Cardinality(S) <= Cardinality(T) /\ Cardinality(S) \in Nat /\ Cardinality(T) \in Nat
        <5>1. S \subseteq T /\ T \subseteq CronTicks
          BY <4>1
        <5> QED BY <5>1, CountGrows
      <4>3. t \in D /\ ((\E n \in DOMAIN s : s[n] = t) \/ Cardinality(S) >= MaxBackfill)
        BY <2>1, <2>5, <3>2
      <4> HIDE DEF S, T
      <4>4. Represented(p, t)' \/ Cardinality(T) >= MaxBackfill
        BY <4>1, <4>2, <4>3, PolicyAssumption
      <4> QED BY <2>5, <3>2, <4>4 DEF T
    <3> QED BY <3>1, <3>2
  <2> QED BY <2>9, <2>10, <2>11, <2>12 DEF Inv
<1> QED BY <1>2, <1>3, <1>7, <1>8

\* The cursor moves only over ticks that the one who moves it has seen to.
LEMMA ConsumeInv == ASSUME Inv, NEW p \in Schedulers, Consume(p) PROVE Inv'
<1> DEFINE o == process[p]
           next == Next_(o.observedAt)
<1>1. /\ Offering(p) /\ o.ticks = <<>>
      /\ schedule' = Consumed(o.firstDue, next)
      /\ process' = [process EXCEPT ![p] = Idle]
      /\ UNCHANGED <<now, start, stored, made, covered, missed, crashes>>
  BY DEF Consume, Offering
<1>2. Idle \in Process /\ Idle.step # "offering" /\ Idle.ticks = <<>> /\ Idle.observedAt < Latest
  BY InstantsFinite, BoundsAssumption DEF Idle, Process, Instants, Latest
<1>3. /\ schedule # Unset /\ schedule \in Instants /\ start \in Instants /\ start <= schedule
      /\ start # Unset /\ start \in Nat /\ schedule \in Nat
  BY <1>1, Numbers DEF Inv, Begun
<1>4. /\ next \in Instants /\ next \in Nat /\ o.observedAt < next
      /\ \A t \in CronTicks : t < next => t <= o.observedAt
  <2>1. o.observedAt \in Nat /\ o.observedAt < Latest
    BY Numbers DEF Inv, Clocks
  <2>2. next \in Instants
    BY <2>1, Shown
  <2>3. /\ o.observedAt < next /\ next <= o.observedAt + Period
        /\ \A u \in Int : u % Period = 0 /\ u < next => u <= next - Period
    BY <2>1, NextAfter
  <2> HIDE DEF next
  <2> QED BY <2>1, <2>2, <2>3, Numbers, ClockAssumption DEF CronTicks
<1> HIDE DEF next
<1>5. CASE schedule' = schedule
  <2>1. crashes' \in 0..MaxCrashes
    BY <1>1 DEF Inv, TicksAccounted, TypeOK
  <2> QED BY <1>1, <1>2, <1>5, <2>1, LocalStep
<1>6. CASE schedule' # schedule
  <2>1. schedule = o.firstDue /\ schedule < next /\ schedule' = next
    BY <1>1, <1>6 DEF Consumed
  <2>2. \A q \in Schedulers :
           /\ process'[q] = IF q = p THEN Idle ELSE process[q]
           /\ Offering(q)' => q # p /\ Offering(q)
    BY <1>1, <1>2 DEF Inv, TicksAccounted, TypeOK, Offering
  <2>3. \A q \in Schedulers : Offering(q)' =>
           Due(q)' = Due(q) /\ \A t \in Instants : Represented(q, t)' = Represented(q, t)
    BY <1>1, <2>2 DEF Due, Represented
  <2>4. next # Unset
    BY <1>4, Numbers
  <2>5. Passed' = Passed \cup Due(p)
    <3>1. ASSUME NEW t \in CronTicks
          PROVE  start <= t /\ t < next
                 <=> (start <= t /\ t < schedule) \/ (schedule <= t /\ t <= o.observedAt)
      <4>1. t \in Nat /\ o.observedAt \in Nat
        BY Numbers
      <4> QED BY <1>3, <1>4, <2>1, <4>1
    <3> QED BY <1>1, <1>3, <2>1, <2>4, <3>1 DEF Passed, Due, o
  <2>6. TypeOK'
    <3>1. process' \in [Schedulers -> Process]
      BY <1>1, <1>2, Numbers DEF Inv, TicksAccounted, TypeOK, Process
    <3>2. \A q \in Schedulers : \A n \in DOMAIN process'[q].ticks :
             /\ process'[q].firstDue <= process'[q].ticks[n]
             /\ process'[q].ticks[n] <= process'[q].observedAt
      <4> TAKE q \in Schedulers
      <4>1. CASE q = p
        <5>1. process'[q].ticks = <<>>
          BY <1>2, <2>2, <4>1
        <5>2. DOMAIN process'[q].ticks = {}
          BY <5>1
        <5> QED BY <5>2
      <4>2. CASE q # p
        BY <2>2, <4>2 DEF Inv, TicksAccounted, TypeOK
      <4> QED BY <4>1, <4>2
    <3> QED BY <1>1, <1>4, <2>1, <3>1, <3>2 DEF Inv, TicksAccounted, TypeOK, Process
  <2>7. missed = "coalesce" => Passed' \subseteq covered
    <3> SUFFICES ASSUME missed = "coalesce" PROVE Due(p) \subseteq covered
      BY <2>5 DEF Inv, TicksAccounted
    <3> QED BY <1>1, <2>1 DEF Inv, Joined
  <2>8. ASSUME missed = "backfill", NEW t \in Passed'
        PROVE  \/ made[t] > 0
               \/ Cardinality({u \in Passed' : u > t /\ made[u] > 0}) >= MaxBackfill
    <3> DEFINE T == {u \in Passed' : u > t /\ made[u] > 0}
    <3>1. T \subseteq CronTicks
      BY DEF Passed
    <3>2. CASE t \in Passed
      <4> DEFINE S == {u \in Passed : u > t /\ made[u] > 0}
      <4>1. S \subseteq T
        BY <2>5
      <4>2. Cardinality(S) <= Cardinality(T) /\ Cardinality(S) \in Nat /\ Cardinality(T) \in Nat
        BY <3>1, <4>1, CountGrows
      <4>3. made[t] > 0 \/ Cardinality(S) >= MaxBackfill
        BY <2>8, <3>2 DEF Inv, TicksAccounted
      <4> HIDE DEF S, T
      <4>4. made[t] > 0 \/ Cardinality(T) >= MaxBackfill
        BY <4>2, <4>3, PolicyAssumption
      <4> QED BY <4>4 DEF T
    <3>3. CASE t \in Due(p)
      <4> DEFINE S == {u \in Due(p) : u > t /\ Represented(p, u)}
      <4>1. \A u \in Due(p) : Represented(p, u) <=> made[u] > 0
        BY <1>1 DEF Represented
      <4>2. S \subseteq T
        BY <2>5, <4>1
      <4>3. Cardinality(S) <= Cardinality(T) /\ Cardinality(S) \in Nat /\ Cardinality(T) \in Nat
        BY <3>1, <4>2, CountGrows
      <4>4. made[t] > 0 \/ Cardinality(S) >= MaxBackfill
        BY <1>1, <2>8, <3>3, <4>1 DEF Inv, Filled
      <4> HIDE DEF S, T
      <4>5. made[t] > 0 \/ Cardinality(T) >= MaxBackfill
        BY <4>3, <4>4, PolicyAssumption
      <4> QED BY <4>5 DEF T
    <3> QED BY <2>5, <2>8, <3>2, <3>3
  <2>9. TicksAccounted'
    BY <1>1, <2>6, <2>7, <2>8 DEF TicksAccounted
  <2>10. Clocks' /\ Kept'
    BY <1>1, <1>2, <2>2 DEF Inv, Clocks, Kept
  <2>11. Begun' /\ Current'
    <3>1. next >= schedule
      BY <1>3, <1>4, <2>1
    <3>2. \A q \in Schedulers : process[q].firstDue \in Nat
      BY Numbers
    <3> QED BY <1>1, <1>3, <1>4, <2>1, <2>2, <2>4, <3>1, <3>2 DEF Inv, Begun, Current
  <2>12. Joined'
    <3> SUFFICES ASSUME missed = "coalesce" PROVE Joined'
      BY <1>1 DEF Joined
    <3>1. ASSUME NEW t \in stored, NEW u \in CronTicks, next <= u, u <= t PROVE u \in covered
      <4>1. u \in Nat
        BY Numbers
      <4>2. schedule <= u
        BY <1>3, <1>4, <2>1, <3>1, <4>1
      <4> QED BY <3>1, <4>2 DEF Inv, Joined
    <3>2. ASSUME NEW q \in Schedulers, Offering(q)'
          PROVE  IF process'[q].ticks = <<>>
                 THEN process'[q].firstDue = schedule' => Due(q)' \subseteq covered
                 ELSE Len(process'[q].ticks) = 1 /\ \A u \in Due(q)' : u <= process'[q].ticks[1]
      <4>1. process'[q] = process[q] /\ Offering(q) /\ Due(q)' = Due(q)
        BY <2>2, <2>3, <3>2
      <4>2. process[q].firstDue # next
        BY <1>3, <1>4, <2>1, <4>1, Numbers DEF Inv, Current
      <4> QED BY <2>1, <4>1, <4>2 DEF Inv, Joined
    <3> QED BY <1>1, <2>1, <3>1, <3>2 DEF Joined
  <2>13. Filled'
    <3> SUFFICES ASSUME missed = "backfill", NEW q \in Schedulers, Offering(q)', NEW t \in Due(q)'
                 PROVE  \/ Represented(q, t)'
                        \/ Cardinality({u \in Due(q)' : u > t /\ Represented(q, u)'}) >= MaxBackfill
      BY <1>1 DEF Filled
    <3>1. {u \in Due(q)' : u > t /\ Represented(q, u)'}
          = {u \in Due(q) : u > t /\ Represented(q, u)}
      BY <2>3, Numbers
    <3> QED BY <2>2, <2>3, <3>1, Numbers DEF Inv, Filled
  <2> QED BY <2>9, <2>10, <2>11, <2>12, <2>13 DEF Inv
<1> QED BY <1>5, <1>6

-----------------------------------------------------------------------------
(* The theorems. *)

\* The invariant holds in every reachable state, for any schedulers, clocks and periods.
THEOREM SchedulerInvariant == Spec => []Inv
<1>1. Init => Inv
  BY InitInv
<1>2. Inv /\ [Next]_vars => Inv'
  <2> SUFFICES ASSUME Inv, [Next]_vars PROVE Inv'
    OBVIOUS
  <2>1. ASSUME NEW p \in Schedulers, Materialize(p) PROVE Inv'
    BY <2>1, ObserveInv, ReadCursorInv, OfferInv, ConsumeInv DEF Materialize
  <2>2. ASSUME NEW p \in Schedulers, Crash(p) PROVE Inv'
    BY <2>2, CrashInv
  <2>3. ASSUME NEW t \in Instants, Finish(t) PROVE Inv'
    BY <2>3, FinishInv
  <2>4. CASE Tick
    BY <2>4, TickInv
  <2>5. CASE UNCHANGED vars
    <3>1. TicksAccounted'
      BY <2>5 DEF vars, Inv, TicksAccounted, TypeOK, Passed
    <3>2. Clocks' /\ Begun' /\ Current' /\ Kept'
      BY <2>5 DEF vars, Inv, Clocks, Begun, Current, Kept, Offering
    <3>3. Joined' /\ Filled'
      BY <2>5 DEF vars, Inv, Joined, Filled, Offering, Due, Represented
    <3> QED BY <3>1, <3>2, <3>3 DEF Inv
  <2> QED BY <2>1, <2>2, <2>3, <2>4, <2>5 DEF Next
<1> QED BY <1>1, <1>2, PTL DEF Spec

\* No cron tick is lost between two schedulers or by a crash: what the cursor has
\* passed has its task, is represented by one, or has MaxBackfill newer ones.
THEOREM TicksAreAccounted == Spec => []TicksAccounted
<1>1. Inv => TicksAccounted
  BY DEF Inv
<1> QED BY <1>1, SchedulerInvariant, PTL
================================================================================
