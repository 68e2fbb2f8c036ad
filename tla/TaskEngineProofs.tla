--------------------------- MODULE TaskEngineProofs ---------------------------
(***************************************************************************)
(* The task engine keeps its indexes and its leases consistent and keeps   *)
(* its books, for any set of task ids, any settings, batch size, bounds.   *)
(*                                                                         *)
(* Most of the proof is about single keyspaces: a Lua helper or operation  *)
(* is an operator from a keyspace to a keyspace, and a lemma says what it  *)
(* keeps.  Sound is the part of the invariant that one keyspace has; Ready *)
(* is what is left of it inside a settlement, between the assignment of an *)
(* outcome and the completion policy; Ends relates the keyspaces before    *)
(* and after settlements, and Safe those before and after a sweep step or  *)
(* an operation that hands out no lease.                                   *)
(*                                                                         *)
(* The second half is about the books: attempts are charged once, a        *)
(* generation has one outcome, holds pin what they name and can be         *)
(* released, and everything that is kept after settlement has an expiry.   *)
(* Books is the part of that invariant that one keyspace has; the H of     *)
(* Books(s, H) are holders whose holds are being released, from the moment *)
(* their task is settled or removed until the end of that call.  Most      *)
(* helpers of the script only take entries out of the books: Fades says    *)
(* what such a step may take, and FadesBooks that the rest stays right.    *)
(* Keeps and Tidy relate the keyspaces before and after a step, for what   *)
(* the steps of a whole call must not do together.                         *)
(*                                                                         *)
(* The last part is the refinement: the engine implements TaskStateModel   *)
(* under the mapping of TaskLifecycle.  Sweeps says that every task moved  *)
(* as a sweep of the model may move it, Finishes the most common reason,   *)
(* that only settled tasks and holds went; Operates, that one task moved   *)
(* by an operation and the others not at all; Serves, that a call did one  *)
(* after the other.                                                        *)
(***************************************************************************)
EXTENDS TaskLifecycle, FiniteSetTheorems, TLAPS

\* The score that stands for absence is a number that no score can be.
USE DEF Out

-----------------------------------------------------------------------------
(* The wait list. *)

Entry(q, i) == \E n \in DOMAIN q : q[n] = i

\* Removing an id from wait (LREM) leaves a list of ids.
LEMMA LRemType ==
    ASSUME NEW q \in Seq(Ids), NEW S
    PROVE  LRem(q, S) \in Seq(Ids)
BY DEF LRem

\* Taking out the one entry that is in S leaves the others, each once.
LEMMA LRemEntries ==
    ASSUME NEW q \in Seq(Ids), IsInjective(q), NEW S,
           \A i, j \in S : Entry(q, i) /\ Entry(q, j) => i = j
    PROVE  /\ IsInjective(LRem(q, S))
           /\ \A i : Entry(LRem(q, S), i) <=> Entry(q, i) /\ i \notin S
<1>1. CASE \A n \in DOMAIN q : q[n] \notin S
  BY <1>1 DEF LRem, Entry
<1>2. CASE \E n \in DOMAIN q : q[n] \in S
  <2>1. PICK n \in DOMAIN q : q[n] \in S
    BY <1>2
  <2>2. n \in 1..Len(q) /\ Len(q) \in Nat /\ DOMAIN q = 1..Len(q)
    OBVIOUS
  <2>3. \A m \in DOMAIN q : q[m] \in S <=> m = n
    BY <2>1 DEF Entry, IsInjective
  <2>4. LRem(q, S) = [m \in 1..(Len(q) - 1) |-> IF m < n THEN q[m] ELSE q[m + 1]]
    <3>1. \A m \in DOMAIN q :
             (q[m] \in S /\ \A k \in 1..(m - 1) : q[k] \notin S) <=> m = n
      BY <2>2, <2>3
    <3>2. (CHOOSE m \in DOMAIN q : q[m] \in S /\ \A k \in 1..(m - 1) : q[k] \notin S) = n
      BY <3>1, <2>1
    <3> QED BY <3>2, <2>1 DEF LRem
  <2>5. IsInjective(LRem(q, S))
    BY <2>2, <2>4 DEF IsInjective
  <2>6. ASSUME NEW i PROVE Entry(LRem(q, S), i) <=> Entry(q, i) /\ i \notin S
    <3> DEFINE r == LRem(q, S)
    <3>1. ASSUME Entry(r, i) PROVE Entry(q, i) /\ i \notin S
      BY <3>1, <2>2, <2>3, <2>4 DEF Entry
    <3>2. ASSUME Entry(q, i), i \notin S PROVE Entry(r, i)
      <4>1. PICK m \in DOMAIN q : q[m] = i
        BY <3>2 DEF Entry
      <4>2. m # n
        BY <4>1, <3>2, <2>1
      <4>3. CASE m < n
        <5>1. m \in DOMAIN r /\ r[m] = i
          BY <4>1, <4>3, <2>2, <2>4
        <5> QED BY <5>1 DEF Entry
      <4>4. CASE m > n
        <5>1. m - 1 \in DOMAIN r /\ r[m - 1] = i
          BY <4>1, <4>4, <2>2, <2>4
        <5> QED BY <5>1 DEF Entry
      <4> QED BY <4>2, <4>3, <4>4, <2>2
    <3> QED BY <3>1, <3>2
  <2> QED BY <2>5, <2>6
<1> QED BY <1>1, <1>2

\* Pushing a batch of other ids (RPUSH) onto wait keeps every id listed once.
LEMMA ConcatEntries ==
    ASSUME NEW q \in Seq(Ids), NEW r \in Seq(Ids), IsInjective(q), IsInjective(r),
           \A i : ~(Entry(q, i) /\ Entry(r, i))
    PROVE  /\ IsInjective(q \o r)
           /\ \A i : Entry(q \o r, i) <=> Entry(q, i) \/ Entry(r, i)
<1> DEFINE c == q \o r
<1>1. /\ c \in Seq(Ids) /\ Len(c) = Len(q) + Len(r)
      /\ Len(q) \in Nat /\ Len(r) \in Nat
      /\ DOMAIN c = 1..(Len(q) + Len(r)) /\ DOMAIN q = 1..Len(q) /\ DOMAIN r = 1..Len(r)
  OBVIOUS
<1>2. /\ \A n \in DOMAIN q : n \in DOMAIN c /\ c[n] = q[n]
      /\ \A n \in DOMAIN r : n + Len(q) \in DOMAIN c /\ c[n + Len(q)] = r[n]
      /\ \A n \in DOMAIN c : n \in DOMAIN q \/ n - Len(q) \in DOMAIN r
      /\ \A n \in DOMAIN c : n \notin DOMAIN q => c[n] = r[n - Len(q)]
  BY <1>1
<1> HIDE DEF c
<1>3. \A i : Entry(c, i) <=> Entry(q, i) \/ Entry(r, i)
  <2>1. ASSUME NEW i, Entry(c, i) PROVE Entry(q, i) \/ Entry(r, i)
    BY <2>1, <1>1, <1>2 DEF Entry
  <2>2. ASSUME NEW i, Entry(q, i) PROVE Entry(c, i)
    BY <2>2, <1>1, <1>2 DEF Entry
  <2>3. ASSUME NEW i, Entry(r, i) PROVE Entry(c, i)
    BY <2>3, <1>1, <1>2 DEF Entry
  <2> QED BY <2>1, <2>2, <2>3
<1>4. IsInjective(c)
  <2> SUFFICES ASSUME NEW m \in DOMAIN c, NEW n \in DOMAIN c, c[m] = c[n]
               PROVE  m = n
    BY DEF IsInjective
  <2>1. CASE m \in DOMAIN q /\ n \in DOMAIN q
    BY <2>1, <1>2 DEF IsInjective
  <2>2. CASE m \notin DOMAIN q /\ n \notin DOMAIN q
    BY <2>2, <1>1, <1>2 DEF IsInjective
  <2>3. ASSUME NEW j \in DOMAIN q, NEW k \in DOMAIN c, k \notin DOMAIN q
        PROVE  c[j] # c[k]
    <3>1. Entry(q, c[j]) /\ Entry(r, c[k])
      BY <2>3, <1>2 DEF Entry
    <3> QED BY <3>1
  <2> QED BY <2>1, <2>2, <2>3
<1> QED BY <1>3, <1>4 DEF c

-----------------------------------------------------------------------------
(* MoveAll. *)

\* A keyspace stays one when its lists are given other lists.
LEMMA ListsType ==
    ASSUME NEW s \in Keyspace, NEW task \in [Ids -> TaskRecord],
           NEW wait \in Seq(Ids), NEW scheduled \in [Ids -> Score],
           NEW active \in [Ids -> Score], NEW success \in SUBSET Ids,
           NEW failed \in SUBSET Ids
    PROVE  [s EXCEPT !.task = task, !.wait = wait, !.scheduled = scheduled,
                     !.active = active, !.success = success,
                     !.failed = failed] \in Keyspace
BY ZenonT(60) DEF Keyspace

\* Writing currentList changes nothing else in a task's hash.
LEMMA Relisted ==
    ASSUME NEW t \in TaskRecord, NEW l \in Lists
    PROVE  /\ [t EXCEPT !.currentList = l] \in TaskRecord
           /\ [t EXCEPT !.currentList = l].currentList = l
           /\ [t EXCEPT !.currentList = l].generation = t.generation
           /\ [t EXCEPT !.currentList = l].outcome = t.outcome
           /\ [t EXCEPT !.currentList = l].config = t.config
BY DEF TaskRecord

\* A task's hash has the fields that the scripts read.
LEMMA TaskType ==
    ASSUME NEW s \in Keyspace, NEW i \in Ids
    PROVE  /\ s.task \in [Ids -> TaskRecord]
           /\ s.task[i] \in TaskRecord
           /\ s.task[i].currentList \in Lists
           /\ s.task[i].generation \in 0..MaxGen
BY DEF Keyspace, TaskRecord

\* What MoveAll may be asked: existing tasks, at most one of them in wait, and
\* a walk of the ones that go to wait.
CanMove(s, S, to, score, order) ==
    /\ s \in Keyspace
    /\ S \subseteq Ids
    /\ to \in [S -> Lists]
    /\ score \in Nat
    /\ order \in Seq(Ids)
    /\ IsInjective(order)
    /\ \A i \in Ids : Entry(order, i) <=> i \in S /\ to[i] = "wait"
    /\ \A i \in S : Exists(s, i)
    /\ \A i, j \in S : s.task[i].currentList = "wait" /\ s.task[j].currentList = "wait"
                         => i = j

\* What MoveAll leaves alone.
SameButLists(s, u) ==
    /\ u.now = s.now /\ u.generations = s.generations /\ u.lock = s.lock
    /\ u.result = s.result /\ u.published = s.published
    /\ u.deadLetter = s.deadLetter /\ u.taskExpiry = s.taskExpiry
    /\ u.resultExpiry = s.resultExpiry /\ u.terminalExpiry = s.terminalExpiry
    /\ u.deadLetterExpiry = s.deadLetterExpiry
    /\ u.retainedBy = s.retainedBy /\ u.retains = s.retains
    /\ u.continuations = s.continuations /\ u.cursor = s.cursor

\* moveToList: the tasks that are moved are in the list they were moved to and
\* in no other, and the lists of the other tasks do not change.
LEMMA MoveAllLists ==
    ASSUME NEW s, NEW S, NEW to, NEW score, NEW order,
           CanMove(s, S, to, score, order), Listed(s),
           NEW u, u = MoveAll(s, to, score, order)
    PROVE  /\ u \in Keyspace
           /\ SameButLists(s, u)
           /\ u.task = [i \in Ids |->
                 IF i \in S THEN [s.task[i] EXCEPT !.currentList = to[i]]
                            ELSE s.task[i]]
           /\ \A i \in Ids : u.active[i] = IF i \in S
                 THEN IF to[i] = "active" THEN score ELSE Out
                 ELSE s.active[i]
           /\ Listed(u)
<1> DEFINE Leaving(l) == {i \in S : LeavesList(s, i, l)}
           Entering(l) == {i \in S : to[i] = l}
           Rescored(z, l) ==
            [i \in Ids |-> IF i \in Entering(l) THEN score
                           ELSE IF i \in Leaving(l) THEN Out ELSE z[i]]
           task == [i \in Ids |->
              IF i \in S THEN [s.task[i] EXCEPT !.currentList = to[i]]
                         ELSE s.task[i]]
           wait == LRem(s.wait, Leaving("wait")) \o order
           scheduled == Rescored(s.scheduled, "scheduled")
           active == Rescored(s.active, "active")
           success == (s.success \ Leaving("success")) \cup Entering("success")
           failed == (s.failed \ Leaving("failed")) \cup Entering("failed")
<1>k. /\ s \in Keyspace /\ S \subseteq Ids /\ to \in [S -> Lists] /\ score \in Nat
      /\ order \in Seq(Ids) /\ IsInjective(order)
  BY DEF CanMove
<1>t. /\ s.wait \in Seq(Ids) /\ s.scheduled \in [Ids -> Score]
      /\ s.active \in [Ids -> Score] /\ s.success \subseteq Ids
      /\ s.failed \subseteq Ids /\ s.task \in [Ids -> TaskRecord]
  BY <1>k DEF Keyspace
<1>1. task \in [Ids -> TaskRecord]
  BY <1>k, <1>t, Relisted
<1>2. wait \in Seq(Ids)
  BY <1>k, <1>t, LRemType
<1>3. scheduled \in [Ids -> Score] /\ active \in [Ids -> Score]
  BY <1>k, <1>t DEF Score
<1>4. success \in SUBSET Ids /\ failed \in SUBSET Ids
  BY <1>k, <1>t
<1>5. u = [s EXCEPT !.task = task, !.wait = wait, !.scheduled = scheduled,
                  !.active = active, !.success = success, !.failed = failed]
  BY <1>k DEF MoveAll
\* Under Listed, currentList tells which list a task leaves.
<1>6. \A i \in S, l \in Lists \ {"none"} : i \in Leaving(l) <=> s.task[i].currentList = l
  BY <1>k, TaskType DEF LeavesList, Listed, CanMove
<1>7. \A i \in S : InList(s, i, "wait") <=> s.task[i].currentList = "wait"
  BY <1>k, TaskType DEF CanMove, Listed, Lists
<1>8. /\ IsInjective(wait)
      /\ \A i \in Ids : Entry(wait, i) <=>
            \/ i \in S /\ to[i] = "wait"
            \/ i \notin S /\ Entry(s.wait, i)
  <2> DEFINE W == Leaving("wait")
             q == LRem(s.wait, W)
  <2>1. \A i, j \in W : i = j
    BY <1>6 DEF CanMove, Lists
  <2>2. \A i \in S : Entry(s.wait, i) => i \in W
    BY <1>6, <1>7 DEF InList, Entry, Lists
  <2>3. /\ IsInjective(q)
        /\ \A i : Entry(q, i) <=> Entry(s.wait, i) /\ i \notin W
    BY <2>1, <1>t, LRemEntries DEF Listed
  <2>4. \A i : ~(Entry(q, i) /\ Entry(order, i))
    <3>1. \A i : Entry(order, i) => i \in Ids
      BY <1>k DEF Entry
    <3> QED BY <3>1, <2>2, <2>3 DEF CanMove
  <2>5. q \in Seq(Ids)
    BY <1>t, LRemType
  <2>6. /\ IsInjective(q \o order)
        /\ \A i : Entry(q \o order, i) <=> Entry(q, i) \/ Entry(order, i)
    BY <2>3, <2>4, <2>5, <1>k, ConcatEntries
  <2>7. W \subseteq S
    OBVIOUS
  <2> HIDE DEF q, W
  <2> QED BY <2>2, <2>3, <2>6, <2>7 DEF CanMove, q, W
<1>9. \A i \in Ids :
        /\ scheduled[i] = IF i \in S THEN IF to[i] = "scheduled" THEN score ELSE Out
                                      ELSE s.scheduled[i]
        /\ active[i] = IF i \in S THEN IF to[i] = "active" THEN score ELSE Out
                                   ELSE s.active[i]
        /\ i \in success <=> IF i \in S THEN to[i] = "success" ELSE i \in s.success
        /\ i \in failed <=> IF i \in S THEN to[i] = "failed" ELSE i \in s.failed
  <2> SUFFICES ASSUME NEW i \in Ids
               PROVE  /\ scheduled[i] = IF i \in S THEN IF to[i] = "scheduled" THEN score ELSE Out
                                      ELSE s.scheduled[i]
                      /\ active[i] = IF i \in S THEN IF to[i] = "active" THEN score ELSE Out
                                   ELSE s.active[i]
                      /\ i \in success <=> IF i \in S THEN to[i] = "success" ELSE i \in s.success
                      /\ i \in failed <=> IF i \in S THEN to[i] = "failed" ELSE i \in s.failed
    OBVIOUS
  <2>1. i \in S => /\ i \in Leaving("scheduled") <=> s.task[i].currentList = "scheduled"
                   /\ i \in Leaving("active") <=> s.task[i].currentList = "active"
                   /\ i \in Leaving("success") <=> s.task[i].currentList = "success"
                   /\ i \in Leaving("failed") <=> s.task[i].currentList = "failed"
    BY <1>6 DEF Lists
  <2>2. i \in S => /\ s.scheduled[i] # Out <=> s.task[i].currentList = "scheduled"
                   /\ s.active[i] # Out <=> s.task[i].currentList = "active"
                   /\ i \in s.success <=> s.task[i].currentList = "success"
                   /\ i \in s.failed <=> s.task[i].currentList = "failed"
    BY DEF Listed, CanMove, Lists, InList
  <2> QED BY <2>1, <2>2
<1> HIDE DEF task, wait, scheduled, active, success, failed, Leaving, Entering, Rescored
<1>10. /\ u.task = task /\ u.wait = wait /\ u.scheduled = scheduled
       /\ u.active = active /\ u.success = success /\ u.failed = failed
  BY <1>k, <1>5 DEF Keyspace
<1>11. SameButLists(s, u)
  BY <1>k, <1>5 DEF Keyspace, SameButLists
<1>12. u \in Keyspace
  <2>1. [s EXCEPT !.task = task, !.wait = wait, !.scheduled = scheduled,
                  !.active = active, !.success = success, !.failed = failed] \in Keyspace
    BY <1>k, <1>1, <1>2, <1>3, <1>4, ListsType, Zenon
  <2> QED BY <2>1, <1>5
<1>13. Listed(u)
  <2>1. IsInjective(u.wait)
    BY <1>8, <1>10
  <2>2. ASSUME NEW i \in Ids, NEW l \in Lists \ {"none"}
        PROVE  InList(u, i, l) <=> Exists(u, i) /\ u.task[i].currentList = l
    <3>1. Exists(u, i) <=> Exists(s, i)
      BY <1>10, <1>k, <1>t, Relisted DEF Exists, task
    <3>2. CASE i \in S
      <4>1. Exists(s, i) /\ to[i] \in Lists
        BY <3>2, <1>k DEF CanMove
      <4>2. u.task[i].currentList = to[i]
        <5>1. u.task[i] = [s.task[i] EXCEPT !.currentList = to[i]]
          BY <3>2, <1>10 DEF task
        <5>2. s.task[i] \in TaskRecord
          BY <1>t
        <5> QED BY <4>1, <5>1, <5>2, Relisted
      <4>3. InList(u, i, l) <=> to[i] = l
        BY <3>2, <1>8, <1>9, <1>10, <1>k DEF InList, Entry, Lists
      <4> QED BY <3>1, <4>1, <4>2, <4>3
    <3>3. CASE i \notin S
      <4>1. u.task[i] = s.task[i]
        BY <3>3, <1>10 DEF task
      <4>2. InList(u, i, l) <=> InList(s, i, l)
        BY <3>3, <1>8, <1>9, <1>10 DEF InList, Entry, Lists
      <4> QED BY <3>1, <4>1, <4>2 DEF Listed
    <3> QED BY <3>2, <3>3
  <2> QED BY <2>1, <2>2 DEF Listed
<1>14. \A i \in Ids : u.active[i] = IF i \in S
                 THEN IF to[i] = "active" THEN score ELSE Out
                 ELSE s.active[i]
  BY <1>9, <1>10
<1> QED BY <1>10, <1>11, <1>12, <1>13, <1>14 DEF task

-----------------------------------------------------------------------------
(* The inductive invariant, for one keyspace. *)

\* A lock key guards an attempt whose deadline is the lock's.
Guarded(s) ==
    \A i \in Ids : IsLocked(s, i) =>
        s.task[i].currentList = "active" /\ s.active[i] = s.lock[i].until

\* A settled task is neither leased nor waiting to be.  Between the assignment
\* of an outcome and the completion policy this is what is left of Placed.
Detached(s) ==
    \A i \in Ids : Exists(s, i) /\ Settled(s, i) =>
        ~IsLocked(s, i) /\ s.task[i].currentList # "wait"

Ready(s) == s \in Keyspace /\ Listed(s) /\ Guarded(s) /\ Detached(s)

Sound(s) == s \in Keyspace /\ Listed(s) /\ Guarded(s) /\ Placed(s)

TerminalLists == {"success", "failed", "none"}

\* The value that stands for a deleted task:<id>.
LEMMA NoTaskType ==
    /\ NoTask \in TaskRecord
    /\ NoTask.generation = 0
    /\ NoTask.currentList = "none"
    /\ NoTask.outcome = "open"
    /\ NoTask.attempt = 0 /\ NoTask.handlerFailureCount = 0 /\ NoTask.stalledAttemptCount = 0
<1>1. (CHOOSE c \in Configs : TRUE) \in Configs
  BY ConfigsAssumption
<1>2. 0 \in 0..MaxGen
  BY BoundsAssumption
<1> QED BY <1>1, <1>2 DEF NoTask, TaskRecord, Lists, Outcomes

\* A lock key holds a token and a deadline.
LEMMA LockType ==
    ASSUME NEW s \in Keyspace, NEW i \in Ids
    PROVE  /\ s.lock \in [Ids -> Lock]
           /\ s.lock[i].token \in 0..MaxLeases
           /\ s.lock[i].until \in Nat
           /\ s.active[i] \in Score
           /\ s.now \in Nat
BY DEF Keyspace, Lock

\* A lock is only ever on an existing task.
LEMMA LockedExists ==
    ASSUME NEW s, s \in Keyspace, Listed(s), Guarded(s), NEW i \in Ids, IsLocked(s, i)
    PROVE  Exists(s, i) /\ s.task[i].currentList = "active"
<1>1. s.active[i] # Out
  BY LockType DEF Guarded
<1> QED BY <1>1 DEF Listed, InList, Lists, Guarded

\* A sound keyspace is ready: its settled tasks are detached.
LEMMA SoundReady == ASSUME NEW s, Sound(s) PROVE Ready(s)
<1> SUFFICES ASSUME NEW i \in Ids, Exists(s, i), Settled(s, i)
             PROVE  ~IsLocked(s, i) /\ s.task[i].currentList # "wait"
  BY DEF Sound, Ready, Detached
<1> QED BY DEF Sound, Placed, Guarded

\* What stays of a keyspace when tasks are only moved, ended and deleted.
SameBase(s, u) ==
    /\ u.now = s.now /\ u.generations = s.generations /\ u.lock = s.lock
    /\ u.cursor = s.cursor

\* ZREM leaves an expiry index one.
LEMMA UnscheduleType ==
    ASSUME NEW index \in [Members -> Score], NEW M
    PROVE  Unschedule(index, M) \in [Members -> Score]
BY DEF Unschedule, Score

\* A keyspace stays one when its tasks and their expiries are other ones.
LEMMA TasksType ==
    ASSUME NEW s \in Keyspace, NEW task \in [Ids -> TaskRecord],
           NEW taskExpiry \in [Members -> Score], NEW terminalExpiry \in [Members -> Score]
    PROVE  [s EXCEPT !.task = task, !.taskExpiry = taskExpiry,
                     !.terminalExpiry = terminalExpiry] \in Keyspace
BY ZenonT(60) DEF Keyspace

\* What deleteTask does to the tasks of S: they have no record left, and the
\* other tasks, the locks and the holds are untouched.
Deleted(s, u, S) ==
    /\ Ready(u)
    /\ SameBase(s, u)
    /\ u.retains = s.retains /\ u.retainedBy = s.retainedBy
    /\ u.task = [i \in Ids |-> IF i \in S THEN NoTask ELSE s.task[i]]
    /\ \A i \in Ids \ S : u.active[i] = s.active[i]

\* deleteTask on tasks with a record and no lock.
LEMMA DeleteAllLists ==
    ASSUME NEW s, Ready(s), NEW S \in SUBSET Ids,
           \A i \in S : Exists(s, i) /\ ~IsLocked(s, i),
           \A i \in S : s.task[i].currentList = "wait" => S = {i},
           NEW u, u = DeleteAll(s, S)
    PROVE  Deleted(s, u, S)
<1> DEFINE to == [i \in S |-> "none"]
           v == MoveAll(s, to, 0, <<>>)
           task == [i \in Ids |-> IF i \in S THEN NoTask ELSE v.task[i]]
           taskExpiry == Unschedule(s.taskExpiry, CurrentOf(s, S))
           terminalExpiry == Unschedule(s.terminalExpiry, CurrentOf(s, S))
<1>1. s \in Keyspace /\ Listed(s)
  BY DEF Ready
<1>2. CanMove(s, S, to, 0, <<>>)
  <2>1. to \in [S -> Lists] /\ 0 \in Nat /\ <<>> \in Seq(Ids)
    BY DEF Lists
  <2>2. IsInjective(<<>>) /\ \A i \in Ids : ~Entry(<<>>, i)
    BY DEF IsInjective, Entry
  <2> QED BY <1>1, <2>1, <2>2 DEF CanMove
<1> HIDE DEF v
<1>3. /\ v \in Keyspace /\ SameButLists(s, v) /\ Listed(v)
      /\ v.task = [i \in Ids |->
            IF i \in S THEN [s.task[i] EXCEPT !.currentList = to[i]] ELSE s.task[i]]
      /\ \A i \in Ids : v.active[i] = IF i \in S
            THEN IF to[i] = "active" THEN 0 ELSE Out ELSE s.active[i]
  BY <1>1, <1>2, MoveAllLists DEF v
<1>4. u = [v EXCEPT !.task = task, !.taskExpiry = taskExpiry,
                    !.terminalExpiry = terminalExpiry]
  BY DEF DeleteAll, v
<1>5. /\ task \in [Ids -> TaskRecord]
      /\ taskExpiry \in [Members -> Score] /\ terminalExpiry \in [Members -> Score]
  <2>1. v.task \in [Ids -> TaskRecord]
    BY <1>3 DEF Keyspace
  <2>2. s.taskExpiry \in [Members -> Score] /\ s.terminalExpiry \in [Members -> Score]
    BY <1>1 DEF Keyspace
  <2> QED BY <2>1, <2>2, NoTaskType, UnscheduleType
<1>6. \A i \in Ids \ S : task[i] = s.task[i]
  BY <1>3
<1>7. task = [i \in Ids |-> IF i \in S THEN NoTask ELSE s.task[i]]
  BY <1>6
<1> HIDE DEF task, taskExpiry, terminalExpiry
<1>8. u \in Keyspace
  <2>1. [v EXCEPT !.task = task, !.taskExpiry = taskExpiry,
                  !.terminalExpiry = terminalExpiry] \in Keyspace
    BY <1>3, <1>5, TasksType, Zenon
  <2> QED BY <1>4, <2>1
<1>9. /\ u.task = task /\ u.wait = v.wait /\ u.scheduled = v.scheduled
      /\ u.active = v.active /\ u.success = v.success /\ u.failed = v.failed
      /\ u.now = v.now /\ u.generations = v.generations /\ u.lock = v.lock
      /\ u.cursor = v.cursor /\ u.retains = v.retains /\ u.retainedBy = v.retainedBy
  BY <1>3, <1>4 DEF Keyspace
<1>10. Listed(u)
  <2>1. IsInjective(u.wait)
    BY <1>3, <1>9 DEF Listed
  <2>2. ASSUME NEW i \in Ids, NEW l \in Lists \ {"none"}
        PROVE  InList(u, i, l) <=> Exists(u, i) /\ u.task[i].currentList = l
    <3>1. InList(u, i, l) <=> InList(v, i, l)
      BY <1>9 DEF InList
    <3>2. CASE i \in S
      <4>1. v.task[i].currentList = "none"
        <5>1. v.task[i] = [s.task[i] EXCEPT !.currentList = "none"]
          BY <1>3, <3>2
        <5> QED BY <1>1, <5>1, TaskType, Relisted DEF Lists
      <4>2. ~InList(v, i, l)
        BY <4>1, <1>3 DEF Listed
      <4>3. ~Exists(u, i)
        BY <3>2, <1>7, <1>9, NoTaskType DEF Exists
      <4> QED BY <3>1, <4>2, <4>3
    <3>3. CASE i \notin S
      <4>1. u.task[i] = v.task[i]
        BY <3>3, <1>3, <1>7, <1>9
      <4> QED BY <3>1, <4>1, <1>3 DEF Listed, Exists
    <3> QED BY <3>2, <3>3
  <2> QED BY <2>1, <2>2 DEF Listed
<1>11. u.lock = s.lock /\ \A i \in Ids \ S : u.active[i] = s.active[i] /\ u.task[i] = s.task[i]
  BY <1>3, <1>7, <1>9 DEF SameButLists
<1>12. Guarded(u)
  BY <1>11 DEF Ready, Guarded, IsLocked
<1>13. Detached(u)
  <2> SUFFICES ASSUME NEW i \in Ids, Exists(u, i), Settled(u, i)
               PROVE  ~IsLocked(u, i) /\ u.task[i].currentList # "wait"
    BY DEF Detached
  <2>1. i \notin S
    BY <1>7, <1>9, NoTaskType DEF Exists
  <2> QED BY <2>1, <1>11 DEF Ready, Detached, Exists, Settled, IsLocked
<1> QED BY <1>3, <1>7, <1>8, <1>9, <1>10, <1>11, <1>12, <1>13
        DEF Deleted, Ready, SameBase, SameButLists

-----------------------------------------------------------------------------
(* Completion policies and the release of holds. *)

SameLists(s, u) ==
    /\ u.task = s.task /\ u.wait = s.wait /\ u.scheduled = s.scheduled
    /\ u.active = s.active /\ u.success = s.success /\ u.failed = s.failed

\* Changes to results, holds and expiries leave a ready keyspace ready.
LEMMA SameListsReady ==
    ASSUME NEW s, Ready(s), NEW u, u \in Keyspace, SameLists(s, u), u.lock = s.lock
    PROVE  Ready(u)
<1>1. Listed(u)
  BY DEF Ready, SameLists, Listed, InList, Exists
<1>2. Guarded(u) /\ Detached(u)
  BY DEF Ready, SameLists, Guarded, Detached, IsLocked, Exists, Settled
<1> QED BY <1>1, <1>2 DEF Ready

\* A task that is over: deleted, or settled and out of the working lists.
Over(s, u, i) ==
    \/ u.task[i] = NoTask
    \/ /\ u.task[i].generation = s.task[i].generation
       /\ u.task[i].outcome = s.task[i].outcome
       /\ u.task[i].currentList \in TerminalLists

Kept(s, u, i) == u.task[i] = s.task[i] /\ u.active[i] = s.active[i]

\* From s to u nothing but settled tasks has been moved or deleted.
Ends(s, u) ==
    /\ Ready(u)
    /\ SameBase(s, u)
    /\ \A i \in Ids :
          Kept(s, u, i) \/ (Exists(s, i) /\ Settled(s, i) /\ Over(s, u, i))

\* Two settlements in a row are a settlement.
LEMMA EndsTransitive ==
    ASSUME NEW s, NEW u, NEW v, Ends(s, u), Ends(u, v)
    PROVE  Ends(s, v)
<1>1. SameBase(s, v) /\ Ready(v)
  BY DEF Ends, SameBase
<1>2. ASSUME NEW i \in Ids
      PROVE  Kept(s, v, i) \/ (Exists(s, i) /\ Settled(s, i) /\ Over(s, v, i))
  <2>1. CASE Kept(s, u, i)
    <3>1. CASE Kept(u, v, i)
      BY <2>1, <3>1 DEF Kept
    <3>2. CASE Exists(u, i) /\ Settled(u, i) /\ Over(u, v, i)
      BY <2>1, <3>2 DEF Kept, Exists, Settled, Over
    <3> QED BY <3>1, <3>2 DEF Ends
  <2>2. CASE Exists(s, i) /\ Settled(s, i) /\ Over(s, u, i)
    <3>1. CASE Kept(u, v, i)
      BY <2>2, <3>1 DEF Kept, Over
    <3>2. CASE Exists(u, i) /\ Settled(u, i) /\ Over(u, v, i)
      <4>1. u.task[i] # NoTask
        BY <3>2, NoTaskType DEF Exists
      <4> QED BY <2>2, <3>2, <4>1 DEF Over
    <3> QED BY <3>1, <3>2 DEF Ends
  <2> QED BY <2>1, <2>2 DEF Ends
<1> QED BY <1>1, <1>2 DEF Ends

\* applyCompletionPolicy ends every task it is given: the task is in a terminal
\* list or in none, or its record is gone.
LEMMA ApplyCompletionPolicyEnds ==
    ASSUME NEW s, Ready(s), NEW S \in SUBSET Ids,
           \A i \in S : Exists(s, i) /\ Settled(s, i),
           NEW u, u = ApplyCompletionPolicy(s, S)
    PROVE  Ends(s, u) /\ \A i \in S : Over(s, u, i)
<1> DEFINE target(i) == CASE Policy(s.task[i]) = "mark-as-success" -> "success"
                          [] Policy(s.task[i]) = "mark-as-failure" -> "failed"
                          [] OTHER -> "none"
           to == [i \in S |-> target(i)]
           gone == {i \in S : /\ Policy(s.task[i]) = "delete"
                              /\ ~HasRetentionHolds(s, Current(s, i))}
           v == MoveAll(s, to, 0, <<>>)
<1>1. s \in Keyspace /\ Listed(s)
  BY DEF Ready
<1>2. \A i \in S : ~IsLocked(s, i) /\ s.task[i].currentList # "wait"
  BY DEF Ready, Detached
<1>3. \A i \in S : target(i) \in TerminalLists
  BY DEF TerminalLists
<1>4. to \in [S -> Lists] /\ \A i \in S : to[i] \in TerminalLists
  BY <1>3 DEF TerminalLists, Lists
<1>5. u = DeleteAll(v, gone)
  BY DEF ApplyCompletionPolicy
<1> HIDE DEF v, to, target
<1>6. CanMove(s, S, to, 0, <<>>)
  <2>1. 0 \in Nat /\ <<>> \in Seq(Ids)
    OBVIOUS
  <2>2. IsInjective(<<>>) /\ \A i \in Ids : ~Entry(<<>>, i)
    BY DEF IsInjective, Entry
  <2>3. \A i \in S : to[i] # "wait"
    BY <1>4 DEF TerminalLists
  <2> QED BY <1>1, <1>2, <1>4, <2>1, <2>2, <2>3 DEF CanMove
<1>7. /\ v \in Keyspace /\ SameButLists(s, v) /\ Listed(v)
      /\ v.task = [i \in Ids |->
            IF i \in S THEN [s.task[i] EXCEPT !.currentList = to[i]] ELSE s.task[i]]
      /\ \A i \in Ids : v.active[i] = IF i \in S
            THEN IF to[i] = "active" THEN 0 ELSE Out ELSE s.active[i]
  BY <1>1, <1>6, MoveAllLists DEF v
<1>8. v.lock = s.lock /\ SameBase(s, v)
  BY <1>7 DEF SameButLists, SameBase
<1>9. \A i \in S : /\ v.task[i].generation = s.task[i].generation
                   /\ v.task[i].outcome = s.task[i].outcome
                   /\ v.task[i].currentList \in TerminalLists
  <2> TAKE i \in S
  <2>1. v.task[i] = [s.task[i] EXCEPT !.currentList = to[i]]
    BY <1>7
  <2>2. s.task[i] \in TaskRecord /\ to[i] \in Lists
    BY <1>1, <1>4, TaskType
  <2> QED BY <2>1, <2>2, <1>4, Relisted
<1>10. \A i \in Ids \ S : Kept(s, v, i)
  BY <1>7 DEF Kept
<1>11. Ready(v)
  <2>1. Guarded(v)
    BY <1>2, <1>8, <1>10 DEF Ready, Guarded, IsLocked, Kept
  <2>2. Detached(v)
    <3> SUFFICES ASSUME NEW i \in Ids, Exists(v, i), Settled(v, i)
                 PROVE  ~IsLocked(v, i) /\ v.task[i].currentList # "wait"
      BY DEF Detached
    <3>1. CASE i \in S
      BY <3>1, <1>2, <1>8, <1>9 DEF IsLocked, TerminalLists
    <3>2. CASE i \notin S
      BY <3>2, <1>8, <1>10 DEF Ready, Detached, Kept, Exists, Settled, IsLocked
    <3> QED BY <3>1, <3>2
  <2> QED BY <1>7, <2>1, <2>2 DEF Ready
<1>12. /\ gone \in SUBSET Ids
       /\ \A i \in gone : Exists(v, i) /\ ~IsLocked(v, i)
       /\ \A i \in gone : v.task[i].currentList # "wait"
  BY <1>2, <1>8, <1>9 DEF Exists, IsLocked, TerminalLists
<1>13. gone \subseteq S
  OBVIOUS
<1> HIDE DEF gone
<1>14. /\ Ready(u) /\ SameBase(v, u)
       /\ u.task = [i \in Ids |-> IF i \in gone THEN NoTask ELSE v.task[i]]
       /\ \A i \in Ids \ gone : u.active[i] = v.active[i]
  BY <1>5, <1>11, <1>12, DeleteAllLists DEF Deleted
<1>15. \A i \in S : Over(s, u, i)
  BY <1>9, <1>14 DEF Over
<1>16. \A i \in Ids \ S : Kept(s, u, i)
  BY <1>10, <1>13, <1>14 DEF Kept
<1>17. SameBase(s, u)
  BY <1>8, <1>14 DEF SameBase
<1> QED BY <1>14, <1>15, <1>16, <1>17 DEF Ends

\* releaseOwnedHolds ends settled tasks only, the ones whose last hold it took.
LEMMA ReleaseOwnedHoldsEnds ==
    ASSUME NEW s, Ready(s), NEW H, NEW P, P \subseteq s.retains,
           NEW u, u = ReleaseOwnedHolds(s, H, P)
    PROVE  Ends(s, u)
<1> DEFINE retains == s.retains \ P
           retainedBy == s.retainedBy \ {<<p[2], p[1]>> : p \in P}
           continuations == Continuations(s, H, P)
           v == [s EXCEPT !.retains = retains, !.retainedBy = retainedBy,
                          !.continuations = continuations]
           freed == {i \in Ids : /\ Exists(v, i)
                                 /\ Settled(v, i)
                                 /\ ~HasRetentionHolds(v, Current(v, i))
                                 /\ \E p \in P : p[2] = Current(v, i)}
<1>1. s \in Keyspace
  BY DEF Ready
<1>2. /\ retains \in SUBSET (Members \X Members)
      /\ retainedBy \in SUBSET (Members \X Members)
      /\ continuations \in [Members -> Score]
  BY <1>1 DEF Continuations, Keyspace, Score
<1>3. u = ApplyCompletionPolicy(v, freed)
  BY DEF ReleaseOwnedHolds
<1>4. /\ freed \in SUBSET Ids
      /\ \A i \in freed : Exists(v, i) /\ Settled(v, i)
  OBVIOUS
<1> HIDE DEF retains, retainedBy, continuations, freed
<1>5. v \in Keyspace
  BY <1>1, <1>2 DEF Keyspace
<1>6. SameLists(s, v) /\ SameBase(s, v)
  BY <1>1 DEF Keyspace, SameLists, SameBase
<1> HIDE DEF v
<1>7. Ready(v)
  BY <1>5, <1>6, SameListsReady DEF SameBase
<1>8. Ends(v, u)
  BY <1>3, <1>4, <1>7, ApplyCompletionPolicyEnds
<1>9. Ends(s, v)
  BY <1>6, <1>7 DEF Ends, SameLists, Kept
<1> QED BY <1>8, <1>9, EndsTransitive

\* The member of an existing task is one of the members, and its settings are
\* among the configured ones.
LEMMA CurrentType ==
    ASSUME NEW s \in Keyspace, NEW i \in Ids
    PROVE  /\ Exists(s, i) => Current(s, i) \in Members
           /\ s.task[i].outcome \in Outcomes
           /\ s.task[i].config \in TaskConfig
<1>1. s.task[i] \in TaskRecord
  BY TaskType
<1>2. s.task[i].generation \in 0..MaxGen /\ s.task[i].outcome \in Outcomes
      /\ s.task[i].config \in Configs
  BY <1>1 DEF TaskRecord
<1>3. Exists(s, i) => s.task[i].generation \in Gens
  BY <1>2, BoundsAssumption DEF Exists, Gens
<1> QED BY <1>2, <1>3, ConfigsAssumption DEF Current, Members

\* scheduleExpiry writes expiries only, whatever retention it is given.
LEMMA ScheduleExpiryType ==
    ASSUME NEW s \in Keyspace, NEW index \in [Members -> Score], NEW S \in SUBSET Ids
    PROVE  /\ ScheduleExpiry(s, index, S, LAMBDA c : c.deadLetterRetentionMs)
                  \in [Members -> Score]
           /\ ScheduleExpiry(s, index, S, LAMBDA c : c.resultRetentionMs)
                  \in [Members -> Score]
           /\ ScheduleExpiry(s, index, S, LAMBDA c : c.taskRecordRetentionMs)
                  \in [Members -> Score]
           /\ ScheduleExpiry(s, index, S, LAMBDA c : c.terminalIndexRetentionMs)
                  \in [Members -> Score]
<1>1. \A i \in Ids : /\ s.task[i].config.deadLetterRetentionMs \in Nat
                     /\ s.task[i].config.resultRetentionMs \in Nat
                     /\ s.task[i].config.taskRecordRetentionMs \in Nat
                     /\ s.task[i].config.terminalIndexRetentionMs \in Nat
  BY CurrentType DEF TaskConfig
<1>2. \A m \in Members : m[1] \in Ids
  BY DEF Members
<1>3. s.now \in Nat
  BY DEF Keyspace
<1> QED BY <1>1, <1>2, <1>3 DEF ScheduleExpiry, Score

\* A keyspace stays one when other results and dead letters are stored.
LEMMA ResultsType ==
    ASSUME NEW s \in Keyspace, NEW result \in SUBSET (Members \X Outcomes),
           NEW published \in SUBSET (Members \X Outcomes),
           NEW deadLetter \in SUBSET Members,
           NEW deadLetterExpiry \in [Members -> Score],
           NEW resultExpiry \in [Members -> Score]
    PROVE  [s EXCEPT !.result = result, !.published = published,
                     !.deadLetter = deadLetter,
                     !.deadLetterExpiry = deadLetterExpiry,
                     !.resultExpiry = resultExpiry] \in Keyspace
BY DEF Keyspace

\* persistTerminalResult and scheduleTerminalRetention write results, dead
\* letters and expiries, and touch neither tasks, lists nor locks.
LEMMA PersistTerminalResultEnds ==
    ASSUME NEW s, Ready(s), NEW S \in SUBSET Ids, \A i \in S : Exists(s, i),
           NEW u, u = PersistTerminalResult(s, S)
    PROVE  Ready(u) /\ SameLists(s, u) /\ SameBase(s, u) /\ u.retains = s.retains
<1> DEFINE entries == {<<Current(s, i), s.task[i].outcome>> : i \in S}
           failures == {i \in S : s.task[i].outcome = "failure"}
           result == s.result \cup entries
           published == s.published \cup entries
           deadLetter == s.deadLetter \cup CurrentOf(s, failures)
           deadLetterExpiry == ScheduleExpiry(s, s.deadLetterExpiry, failures,
                                   LAMBDA c : c.deadLetterRetentionMs)
           resultExpiry == ScheduleExpiry(s, s.resultExpiry, S,
                                   LAMBDA c : c.resultRetentionMs)
<1>1. s \in Keyspace
  BY DEF Ready
<1>2. /\ s.result \in SUBSET (Members \X Outcomes)
      /\ s.published \in SUBSET (Members \X Outcomes)
      /\ s.deadLetter \in SUBSET Members
      /\ s.deadLetterExpiry \in [Members -> Score]
      /\ s.resultExpiry \in [Members -> Score]
  BY <1>1 DEF Keyspace
<1>3. entries \in SUBSET (Members \X Outcomes)
  BY <1>1, CurrentType
<1>4. CurrentOf(s, failures) \in SUBSET Members
  BY <1>1, CurrentType DEF CurrentOf
<1>5. /\ result \in SUBSET (Members \X Outcomes)
      /\ published \in SUBSET (Members \X Outcomes)
      /\ deadLetter \in SUBSET Members
  BY <1>2, <1>3, <1>4
<1>6. deadLetterExpiry \in [Members -> Score]
  BY <1>1, <1>2, ScheduleExpiryType
<1>7. resultExpiry \in [Members -> Score]
  BY <1>1, <1>2, ScheduleExpiryType
<1>8. u = [s EXCEPT !.result = result, !.published = published,
                    !.deadLetter = deadLetter,
                    !.deadLetterExpiry = deadLetterExpiry,
                    !.resultExpiry = resultExpiry]
  BY DEF PersistTerminalResult
<1> HIDE DEF result, published, deadLetter, deadLetterExpiry, resultExpiry
<1>9. u \in Keyspace
  <2>1. [s EXCEPT !.result = result, !.published = published,
                  !.deadLetter = deadLetter,
                  !.deadLetterExpiry = deadLetterExpiry,
                  !.resultExpiry = resultExpiry] \in Keyspace
    BY <1>1, <1>5, <1>6, <1>7, ResultsType, Zenon
  <2> QED BY <2>1, <1>8
<1>10. SameLists(s, u) /\ SameBase(s, u) /\ u.retains = s.retains
  BY <1>1, <1>8 DEF Keyspace, SameLists, SameBase
<1> QED BY <1>9, <1>10, SameListsReady DEF SameBase

\* scheduleTerminalRetention writes expiries and nothing else.
LEMMA ScheduleTerminalRetentionEnds ==
    ASSUME NEW s, Ready(s), NEW S \in SUBSET Ids,
           NEW u, u = ScheduleTerminalRetention(s, S)
    PROVE  Ready(u) /\ SameLists(s, u) /\ SameBase(s, u) /\ u.retains = s.retains
<1> DEFINE marked == {i \in S : Policy(s.task[i]) \in {"mark-as-success", "mark-as-failure"}}
           taskExpiry == ScheduleExpiry(s, s.taskExpiry, S,
                             LAMBDA c : c.taskRecordRetentionMs)
           terminalExpiry == ScheduleExpiry(s, s.terminalExpiry, marked,
                             LAMBDA c : c.terminalIndexRetentionMs)
<1>1. s \in Keyspace
  BY DEF Ready
<1>2. s.taskExpiry \in [Members -> Score] /\ s.terminalExpiry \in [Members -> Score]
  BY <1>1 DEF Keyspace
<1>3. taskExpiry \in [Members -> Score]
  BY <1>1, <1>2, ScheduleExpiryType
<1>4. terminalExpiry \in [Members -> Score]
  BY <1>1, <1>2, ScheduleExpiryType
<1>5. u = [s EXCEPT !.taskExpiry = taskExpiry, !.terminalExpiry = terminalExpiry]
  BY DEF ScheduleTerminalRetention
<1> HIDE DEF taskExpiry, terminalExpiry
<1>6. u \in Keyspace
  BY ZenonT(60), <1>1, <1>3, <1>4, <1>5 DEF Keyspace
<1>7. SameLists(s, u) /\ SameBase(s, u) /\ u.retains = s.retains
  BY <1>1, <1>5 DEF Keyspace, SameLists, SameBase
<1> QED BY <1>6, <1>7, SameListsReady DEF SameBase

\* applyCompletionPolicy neither takes nor releases a hold.
LEMMA ApplyCompletionPolicyHolds ==
    ASSUME NEW s, Ready(s), NEW S, NEW u, u = ApplyCompletionPolicy(s, S)
    PROVE  u.retains = s.retains
<1> QED BY ZenonT(60) DEF ApplyCompletionPolicy, DeleteAll, MoveAll, Ready, Keyspace

\* settleTask ends the settled tasks of S, and at most other settled tasks with
\* them (the ones whose last hold it releases).
LEMMA SettleTaskEnds ==
    ASSUME NEW s, Ready(s), NEW S \in SUBSET Ids,
           \A i \in S : Exists(s, i) /\ Settled(s, i),
           NEW P, P \subseteq s.retains,
           NEW u, u = SettleTask(s, S, P)
    PROVE  Ends(s, u) /\ \A i \in S : Over(s, u, i)
<1> DEFINE v == PersistTerminalResult(s, S)
           w == ScheduleTerminalRetention(v, S)
           y == ApplyCompletionPolicy(w, S)
<1>1. u = ReleaseOwnedHolds(y, CurrentOf(s, S), P)
  BY DEF SettleTask
<1> HIDE DEF v, w, y
<1>2. Ready(v) /\ SameLists(s, v) /\ SameBase(s, v) /\ v.retains = s.retains
  BY PersistTerminalResultEnds DEF v
<1>3. Ready(w) /\ SameLists(v, w) /\ SameBase(v, w) /\ w.retains = v.retains
  BY <1>2, ScheduleTerminalRetentionEnds DEF w
<1>4. SameLists(s, w) /\ SameBase(s, w) /\ w.retains = s.retains
  BY <1>2, <1>3 DEF SameLists, SameBase
<1>5. Ends(s, w)
  BY <1>3, <1>4 DEF Ends, SameLists, Kept
<1>6. \A i \in S : Exists(w, i) /\ Settled(w, i)
  BY <1>4 DEF SameLists, Exists, Settled
<1>7. Ends(w, y) /\ \A i \in S : Over(w, y, i)
  BY <1>3, <1>6, ApplyCompletionPolicyEnds DEF y
<1>8. y.retains = w.retains
  BY <1>3, <1>6, ApplyCompletionPolicyHolds DEF y
<1>9. Ready(y) /\ P \subseteq y.retains
  BY <1>4, <1>7, <1>8 DEF Ends
<1>10. Ends(y, u)
  BY <1>1, <1>9, ReleaseOwnedHoldsEnds
<1>11. Ends(s, u)
  BY <1>5, <1>7, <1>10, EndsTransitive
<1>12. ASSUME NEW i \in S PROVE Over(s, u, i)
  <2>1. Over(s, y, i)
    BY <1>4, <1>7 DEF Over, SameLists
  <2>2. CASE Kept(y, u, i)
    BY <2>1, <2>2 DEF Over, Kept
  <2>3. CASE Exists(y, i) /\ Settled(y, i) /\ Over(y, u, i)
    <3>1. y.task[i] # NoTask
      BY <2>3, NoTaskType DEF Exists
    <3> QED BY <2>1, <2>3, <3>1 DEF Over
  <2> QED BY <1>10, <2>2, <2>3 DEF Ends
<1> QED BY <1>11, <1>12

\* What an operation or a sweep step may do to the locks: drop them, or leave
\* them on the generation they were taken for.
LocksKept(s, u) ==
    \A i \in Ids : IsLocked(u, i) =>
        /\ u.lock[i].token = s.lock[i].token
        /\ u.task[i].generation = s.task[i].generation

\* A step of the sweep, or of an operation: the keyspace stays sound and no
\* lock appears.
Safe(s, u) == Sound(u) /\ LocksKept(s, u)

\* A sweep's steps, and the operation after it, can be looked at one by one.
LEMMA SafeTransitive ==
    ASSUME NEW s, NEW u, NEW v, Safe(s, u), Safe(u, v)
    PROVE  Safe(s, v)
BY DEF Safe, LocksKept, IsLocked

\* If every task was in its place except the ones that have just been settled,
\* ending those puts everything in its place.
LEMMA EndsSound ==
    ASSUME NEW s, Ready(s), NEW S \in SUBSET Ids, NEW u, Ends(s, u),
           \A i \in S : Exists(s, i) /\ Settled(s, i) /\ Over(s, u, i),
           \A i \in Ids \ S : Exists(s, i) =>
              (Settled(s, i) <=> s.task[i].currentList \in TerminalLists)
    PROVE  Safe(s, u)
<1>1. Placed(u)
  <2> SUFFICES ASSUME NEW i \in Ids, Exists(u, i)
               PROVE  Settled(u, i) <=> u.task[i].currentList \in TerminalLists
    BY DEF Placed, TerminalLists
  <2>1. u.task[i] # NoTask
    BY NoTaskType DEF Exists
  <2>2. CASE Exists(s, i) /\ Settled(s, i) /\ Over(s, u, i)
    BY <2>1, <2>2 DEF Over, Settled
  <2>3. CASE Kept(s, u, i) /\ i \notin S
    BY <2>3 DEF Kept, Settled, Exists
  <2> QED BY <2>2, <2>3 DEF Ends
<1>2. LocksKept(s, u)
  <2> SUFFICES ASSUME NEW i \in Ids, IsLocked(u, i)
               PROVE  u.lock[i].token = s.lock[i].token /\ u.task[i].generation = s.task[i].generation
    BY DEF LocksKept
  <2>1. u.lock = s.lock /\ IsLocked(s, i)
    BY DEF Ends, SameBase, IsLocked
  <2>2. ~(Exists(s, i) /\ Settled(s, i))
    BY <2>1 DEF Ready, Detached
  <2> QED BY <2>1, <2>2 DEF Ends, Kept
<1> QED BY <1>1, <1>2 DEF Safe, Sound, Ends, Ready

-----------------------------------------------------------------------------
(* Moves between the working lists. *)

GuardedAt(s, i) ==
    IsLocked(s, i) => s.task[i].currentList = "active" /\ s.active[i] = s.lock[i].until

PlacedAt(s, i) ==
    Exists(s, i) => (Settled(s, i) <=> s.task[i].currentList \in TerminalLists)

\* moveToList of unsettled tasks to wait, scheduled or active.  They need not
\* have been in their places before: createTask moves a record that is in no
\* list yet, extendLock one whose lock has just been renewed.
CanRequeue(s, S, to, score, order) ==
    /\ CanMove(s, S, to, score, order)
    /\ Listed(s)
    /\ \A i \in S : ~Settled(s, i) /\ to[i] \notin TerminalLists
    /\ \A i \in S : IsLocked(s, i) => to[i] = "active" /\ score = s.lock[i].until
    /\ \A i \in Ids \ S : GuardedAt(s, i) /\ PlacedAt(s, i)

\* moveToList among the working lists: the result is sound, with the old locks.
LEMMA MoveWorking ==
    ASSUME NEW s, NEW S, NEW to, NEW score, NEW order,
           CanRequeue(s, S, to, score, order),
           NEW u, u = MoveAll(s, to, score, order)
    PROVE  /\ Safe(s, u)
           /\ u.lock = s.lock
           /\ u.task = [i \in Ids |->
                 IF i \in S THEN [s.task[i] EXCEPT !.currentList = to[i]]
                            ELSE s.task[i]]
           /\ \A i \in Ids : u.active[i] = IF i \in S
                 THEN IF to[i] = "active" THEN score ELSE Out
                 ELSE s.active[i]
<1>0. /\ CanMove(s, S, to, score, order) /\ Listed(s)
      /\ \A i \in S : ~Settled(s, i) /\ to[i] \notin TerminalLists
      /\ \A i \in S : IsLocked(s, i) => to[i] = "active" /\ score = s.lock[i].until
      /\ \A i \in Ids \ S : GuardedAt(s, i) /\ PlacedAt(s, i)
  BY DEF CanRequeue
<1>1. /\ u \in Keyspace /\ SameButLists(s, u) /\ Listed(u)
      /\ u.task = [i \in Ids |->
            IF i \in S THEN [s.task[i] EXCEPT !.currentList = to[i]] ELSE s.task[i]]
      /\ \A i \in Ids : u.active[i] = IF i \in S
            THEN IF to[i] = "active" THEN score ELSE Out ELSE s.active[i]
  BY <1>0, MoveAllLists
<1>2. u.lock = s.lock
  BY <1>1 DEF SameButLists
<1>3. \A i \in Ids \ S : u.task[i] = s.task[i] /\ u.active[i] = s.active[i]
  BY <1>1
<1>4. s \in Keyspace /\ S \subseteq Ids /\ \A i \in S : to[i] \in Lists
  BY <1>0 DEF CanMove
<1>5. \A i \in S : /\ u.task[i].currentList = to[i]
                   /\ u.task[i].generation = s.task[i].generation
                   /\ u.task[i].outcome = s.task[i].outcome
  <2> TAKE i \in S
  <2>1. u.task[i] = [s.task[i] EXCEPT !.currentList = to[i]]
    BY <1>1, <1>4
  <2>2. s.task[i] \in TaskRecord
    BY <1>4, TaskType
  <2> QED BY <2>1, <2>2, <1>4, Relisted
<1>6. Guarded(u)
  <2> SUFFICES ASSUME NEW i \in Ids, IsLocked(u, i)
               PROVE  u.task[i].currentList = "active" /\ u.active[i] = u.lock[i].until
    BY DEF Guarded
  <2>1. IsLocked(s, i)
    BY <1>2 DEF IsLocked
  <2>2. CASE i \in S
    BY ZenonT(60), <2>1, <2>2, <1>0, <1>1, <1>2, <1>5
  <2>3. CASE i \notin S
    BY <2>1, <2>3, <1>0, <1>2, <1>3 DEF GuardedAt
  <2> QED BY <2>2, <2>3
<1>7. Placed(u)
  <2> SUFFICES ASSUME NEW i \in Ids, Exists(u, i)
               PROVE  Settled(u, i) <=> u.task[i].currentList \in TerminalLists
    BY DEF Placed, TerminalLists
  <2>1. CASE i \in S
    BY <2>1, <1>0, <1>5 DEF Settled
  <2>2. CASE i \notin S
    BY <2>2, <1>0, <1>3 DEF PlacedAt, Settled, Exists
  <2> QED BY <2>1, <2>2
<1>8. LocksKept(s, u)
  BY <1>2, <1>3, <1>5 DEF LocksKept
<1> QED BY <1>1, <1>2, <1>6, <1>7, <1>8 DEF Safe, Sound

\* The same, as a step.
LEMMA RequeueSafe ==
    ASSUME NEW s, NEW S, NEW to, NEW score, NEW order,
           CanRequeue(s, S, to, score, order)
    PROVE  Safe(s, MoveAll(s, to, score, order))
BY MoveWorking

\* In a sound keyspace every task is guarded and placed.
LEMMA SoundAt ==
    ASSUME NEW s, Sound(s), NEW i \in Ids
    PROVE  GuardedAt(s, i) /\ PlacedAt(s, i)
BY DEF Sound, Guarded, Placed, GuardedAt, PlacedAt, TerminalLists

\* The walk of a batch lists the batch, each id once.
LEMMA WalkType ==
    ASSUME NEW R \in SUBSET Ids, NEW score, NEW q \in Walks(R, score)
    PROVE  /\ q \in Seq(Ids)
           /\ IsInjective(q)
           /\ \A i : Entry(q, i) <=> i \in R
<1>1. Cardinality(R) \in Nat
  BY IdsAssumption, FS_Subset, FS_CardinalityType
<1>2. q \in [1..Cardinality(R) -> R] /\ IsInjective(q) /\ Range(q) = R
  BY DEF Walks
<1>3. q \in [1..Cardinality(R) -> Ids]
  BY <1>2
<1>4. q \in Seq(Ids)
  BY <1>1, <1>3
<1> QED BY <1>2, <1>4 DEF Entry, Range

-----------------------------------------------------------------------------
(* The sweep. *)

\* syncDelayed moves due tasks from scheduled to wait.
LEMMA SyncDelayedSafe ==
    ASSUME NEW x, Sound(x.db), NEW y \in SyncDelayed(x)
    PROVE  Safe(x.db, y.db)
<1> DEFINE s == x.db
<1>0. PICK B \in DueBatches(s.scheduled, s.now, x.left) :
         \E q \in Walks(B, s.scheduled) :
            y = Swept(MoveAll(s, [i \in B |-> "wait"], 0, q), x.left, B)
  BY DEF SyncDelayed
<1>1. PICK q \in Walks(B, s.scheduled) :
         y = Swept(MoveAll(s, [i \in B |-> "wait"], 0, q), x.left, B)
  BY <1>0
<1> DEFINE to == [i \in B |-> "wait"]
           u == MoveAll(s, to, 0, q)
<1>2. y.db = u
  BY <1>1 DEF Swept
<1>3. s \in Keyspace /\ Listed(s)
  BY DEF Sound
<1>4. DOMAIN s.scheduled = Ids
  BY <1>3 DEF Keyspace
<1>5. B \subseteq Ids /\ \A i \in B : s.scheduled[i] # Out
  BY <1>4 DEF DueBatches
<1>6. \A i \in B : Exists(s, i) /\ s.task[i].currentList = "scheduled"
  BY <1>3, <1>5 DEF Listed, InList, Lists
<1>7. \A i \in B : ~Settled(s, i) /\ ~IsLocked(s, i)
  BY <1>5, <1>6, SoundAt DEF GuardedAt, PlacedAt, TerminalLists
<1>8. q \in Seq(Ids) /\ IsInjective(q) /\ \A i : Entry(q, i) <=> i \in B
  BY <1>5, WalkType
<1>9. to \in [B -> Lists] /\ 0 \in Nat /\ \A i \in B : to[i] = "wait"
  BY DEF Lists
<1> HIDE DEF s, to, u
<1>10. CanMove(s, B, to, 0, q)
  BY <1>3, <1>5, <1>6, <1>8, <1>9 DEF CanMove
<1>11. \A i \in Ids : GuardedAt(s, i) /\ PlacedAt(s, i)
  BY SoundAt DEF s
<1>12. \A i \in B : ~Settled(s, i) /\ to[i] \notin TerminalLists
  BY <1>7, <1>9 DEF TerminalLists
<1>13. \A i \in B : IsLocked(s, i) => to[i] = "active" /\ 0 = s.lock[i].until
  BY <1>7
<1>14. \A i \in Ids \ B : GuardedAt(s, i) /\ PlacedAt(s, i)
  BY <1>11
<1>15. CanRequeue(s, B, to, 0, q)
  BY <1>3, <1>10, <1>12, <1>13, <1>14 DEF CanRequeue
<1>16. Safe(s, u)
  BY <1>15, RequeueSafe DEF u
<1> QED BY <1>2, <1>16 DEF s

\* A first step need not leave everything in place if the second one does.
LEMMA LocksKeptSafe ==
    ASSUME NEW s, NEW u, NEW v, LocksKept(s, u), Safe(u, v)
    PROVE  Safe(s, v)
BY DEF Safe, LocksKept, IsLocked

\* A keyspace stays one when tasks and locks are given other values.
LEMMA TaskLockType ==
    ASSUME NEW s \in Keyspace, NEW task \in [Ids -> TaskRecord], NEW lock \in [Ids -> Lock]
    PROVE  [s EXCEPT !.task = task, !.lock = lock] \in Keyspace
BY ZenonT(60) DEF Keyspace

\* The absence of a lock is a lock value.
LEMMA NoLockType == NoLock \in Lock /\ NoLock.token = 0
BY BoundsAssumption DEF NoLock, Lock

\* The lists are still right when tasks keep their generation and currentList.
LEMMA ListedKept ==
    ASSUME NEW s, Listed(s), NEW u, u.wait = s.wait, u.scheduled = s.scheduled,
           u.active = s.active, u.success = s.success, u.failed = s.failed,
           \A i \in Ids : /\ u.task[i].generation = s.task[i].generation
                          /\ u.task[i].currentList = s.task[i].currentList
    PROVE  Listed(u)
BY DEF Listed, InList, Exists

\* failTask counts the stall and may set the outcome of a record.
LEMMA Stalled ==
    ASSUME NEW t \in TaskRecord, NEW n \in Nat, NEW o \in Outcomes
    PROVE  [t EXCEPT !.stalledAttemptCount = n, !.outcome = o] \in TaskRecord
BY DEF TaskRecord

\* The tasks of E stalled: every one was active without a lock.  The ones in S
\* are to be settled, the others wait again, in the order q.
CanStall(s, E, S, q) ==
    /\ E \in SUBSET Ids /\ S \in SUBSET E
    /\ \A i \in E : s.active[i] # Out /\ ~IsLocked(s, i)
    /\ q \in Seq(Ids) /\ IsInjective(q) /\ \A i : Entry(q, i) <=> i \in E \ S

\* failTask up to the settlement of S.
Stalling(s, E, S, q) ==
    LET u == [s EXCEPT !.task = [i \in Ids |->
                IF i \notin E THEN s.task[i]
                ELSE [s.task[i] EXCEPT
                        !.stalledAttemptCount = @ + 1,
                        !.outcome = IF i \in S THEN "failure" ELSE @]]]
    IN MoveAll(Unlock(u, E), [i \in E \ S |-> "wait"], 0, q)

\* Each of them is charged for the stall, and only the ones in S get an outcome.
Charges(s, v, E, S) ==
    /\ \A i \in Ids \ E : v.task[i] = s.task[i]
    /\ \A i \in E :
          LET t == s.task[i]
              r == v.task[i]
          IN /\ Exists(s, i) /\ ~Settled(s, i) /\ t.currentList = "active"
             /\ r \in TaskRecord
             /\ r.generation = t.generation /\ r.config = t.config
             /\ r.attempt = t.attempt
             /\ r.handlerFailureCount = t.handlerFailureCount
             /\ r.stalledAttemptCount = t.stalledAttemptCount + 1
             /\ i \in S => r.outcome = "failure"
             /\ i \notin S => r.outcome = t.outcome /\ r.currentList = "wait"

\* syncLocks up to the settlement: the tasks it fails are unlocked, charged and listed nowhere.
LEMMA StallingReady ==
    ASSUME NEW s, Sound(s), NEW E, NEW S, NEW q, CanStall(s, E, S, q),
           NEW v, v = Stalling(s, E, S, q)
    PROVE  /\ Ready(v) /\ LocksKept(s, v)
           /\ SameButLists([s EXCEPT !.lock = v.lock], v)
           /\ Charges(s, v, E, S)
           /\ \A i \in S : Exists(v, i) /\ Settled(v, i)
           /\ \A i \in Ids \ S : PlacedAt(v, i)
<1> DEFINE task == [i \in Ids |->
                IF i \notin E THEN s.task[i]
                ELSE [s.task[i] EXCEPT
                        !.stalledAttemptCount = @ + 1,
                        !.outcome = IF i \in S THEN "failure" ELSE @]]
           lock == [i \in Ids |-> IF i \in E THEN NoLock ELSE s.lock[i]]
           u == [s EXCEPT !.task = task, !.lock = lock]
           to == [i \in E \ S |-> "wait"]
<1>0. /\ E \in SUBSET Ids /\ S \in SUBSET E
      /\ \A i \in E : s.active[i] # Out /\ ~IsLocked(s, i)
      /\ q \in Seq(Ids) /\ IsInjective(q) /\ \A i : Entry(q, i) <=> i \in E \ S
  BY DEF CanStall
<1> USE <1>0
<1>1. s \in Keyspace /\ Listed(s)
  BY DEF Sound
<1>2. v = MoveAll(u, to, 0, q)
  <2>1. Unlock([s EXCEPT !.task = task], E) = u
    BY <1>1 DEF Unlock, Keyspace
  <2> QED BY <2>1 DEF Stalling
<1>3. \A i \in E : /\ task[i] \in TaskRecord
                   /\ task[i].generation = s.task[i].generation
                   /\ task[i].currentList = s.task[i].currentList
                   /\ task[i].outcome = IF i \in S THEN "failure" ELSE s.task[i].outcome
                   /\ task[i].config = s.task[i].config
                   /\ task[i].attempt = s.task[i].attempt
                   /\ task[i].handlerFailureCount = s.task[i].handlerFailureCount
                   /\ task[i].stalledAttemptCount = s.task[i].stalledAttemptCount + 1
  <2> TAKE i \in E
  <2>1. s.task[i] \in TaskRecord
    BY <1>1, TaskType
  <2> DEFINE o == IF i \in S THEN "failure" ELSE s.task[i].outcome
  <2>2. task[i] = [s.task[i] EXCEPT !.stalledAttemptCount = @ + 1, !.outcome = o]
    OBVIOUS
  <2>3. o \in Outcomes
    BY <2>1 DEF TaskRecord, Outcomes
  <2> HIDE DEF task, o
  <2> DEFINE n == s.task[i].stalledAttemptCount + 1
  <2>4. n \in Nat
    BY <2>1 DEF TaskRecord
  <2>5. task[i] = [s.task[i] EXCEPT !.stalledAttemptCount = n, !.outcome = o]
    BY <2>2
  <2> HIDE DEF n
  <2>6. task[i] \in TaskRecord
    <3>1. [s.task[i] EXCEPT !.stalledAttemptCount = n, !.outcome = o] \in TaskRecord
      BY <2>1, <2>3, <2>4, Stalled, Zenon
    <3> QED BY <3>1, <2>5
  <2>7. /\ task[i].generation = s.task[i].generation
        /\ task[i].currentList = s.task[i].currentList
        /\ task[i].outcome = o
        /\ task[i].config = s.task[i].config
        /\ task[i].attempt = s.task[i].attempt
        /\ task[i].handlerFailureCount = s.task[i].handlerFailureCount
        /\ task[i].stalledAttemptCount = n
    BY <2>1, <2>5 DEF TaskRecord
  <2> QED BY <2>6, <2>7 DEF o, n
<1>4. \A i \in Ids \ E : task[i] = s.task[i] /\ lock[i] = s.lock[i]
  OBVIOUS
<1>5. task \in [Ids -> TaskRecord] /\ lock \in [Ids -> Lock]
  <2>1. \A i \in Ids : task[i] \in TaskRecord
    BY <1>1, <1>3, <1>4, TaskType
  <2>2. \A i \in Ids : lock[i] \in Lock
    BY <1>1, LockType, NoLockType
  <2> QED BY <2>1, <2>2
<1>6. \A i \in E : Exists(s, i) /\ s.task[i].currentList = "active"
  BY <1>0, <1>1 DEF Listed, InList, Lists
<1>7. \A i \in E : lock[i].token = 0
  BY NoLockType
<1> HIDE DEF task, lock, u
<1>8. /\ u \in Keyspace /\ u.task = task /\ u.lock = lock
      /\ u.wait = s.wait /\ u.scheduled = s.scheduled /\ u.active = s.active
      /\ u.success = s.success /\ u.failed = s.failed /\ u.retains = s.retains
  <2>1. u = [s EXCEPT !.task = task, !.lock = lock]
    BY DEF u
  <2>2. u \in Keyspace
    <3>1. [s EXCEPT !.task = task, !.lock = lock] \in Keyspace
      BY <1>1, <1>5, TaskLockType, Zenon
    <3> QED BY <2>1, <3>1
  <2> QED BY <2>1, <2>2, <1>1 DEF Keyspace
<1>9. Listed(u)
  <2>1. \A i \in Ids : /\ u.task[i].generation = s.task[i].generation
                       /\ u.task[i].currentList = s.task[i].currentList
    BY <1>3, <1>4, <1>8
  <2> QED BY <2>1, <1>1, <1>8, ListedKept
<1>10. CanMove(u, E \ S, to, 0, q)
  <2>1. to \in [E \ S -> Lists] /\ \A i \in E \ S : to[i] = "wait"
    BY DEF Lists
  <2>2. \A i \in E : Exists(u, i) /\ u.task[i].currentList = "active"
    BY <1>3, <1>6, <1>8 DEF Exists
  <2> QED BY <1>8, <2>1, <2>2 DEF CanMove
<1>11. /\ v \in Keyspace /\ SameButLists(u, v) /\ Listed(v)
       /\ v.task = [i \in Ids |-> IF i \in E \ S
             THEN [u.task[i] EXCEPT !.currentList = to[i]] ELSE u.task[i]]
       /\ \A i \in Ids : v.active[i] = IF i \in E \ S
             THEN IF to[i] = "active" THEN 0 ELSE Out ELSE u.active[i]
  BY <1>2, <1>9, <1>10, MoveAllLists
<1>12. v.lock = lock /\ v.retains = s.retains
  BY <1>8, <1>11 DEF SameButLists
<1>13. \A i \in Ids \ E : v.task[i] = s.task[i] /\ v.active[i] = s.active[i]
  BY <1>4, <1>8, <1>11
<1>14. \A i \in E \ S : /\ v.task[i].currentList = "wait"
                        /\ v.task[i].outcome = s.task[i].outcome
  <2> TAKE i \in E \ S
  <2>1. v.task[i] = [task[i] EXCEPT !.currentList = "wait"]
    BY <1>8, <1>11
  <2>2. task[i] \in TaskRecord /\ task[i].outcome = s.task[i].outcome
    BY <1>3
  <2> QED BY <2>1, <2>2, Relisted DEF Lists
<1>15. \A i \in S : v.task[i] = task[i]
  BY <1>8, <1>11
<1>16. \A i \in E \ S : ~Settled(s, i)
  BY <1>6, SoundAt DEF PlacedAt, TerminalLists
<1>17. \A i \in S : Exists(v, i) /\ Settled(v, i) /\ v.task[i].currentList = "active"
  BY <1>3, <1>6, <1>15 DEF Exists, Settled
<1>18. \A i \in Ids \ S : PlacedAt(v, i)
  <2> SUFFICES ASSUME NEW i \in Ids \ S PROVE PlacedAt(v, i)
    OBVIOUS
  <2>1. CASE i \in E
    BY <2>1, <1>14, <1>16 DEF PlacedAt, Settled, TerminalLists
  <2>2. CASE i \notin E
    BY <2>2, <1>13, SoundAt DEF PlacedAt, Settled, Exists
  <2> QED BY <2>1, <2>2
<1>19. Guarded(v)
  <2> SUFFICES ASSUME NEW i \in Ids, IsLocked(v, i)
               PROVE  v.task[i].currentList = "active" /\ v.active[i] = v.lock[i].until
    BY DEF Guarded
  <2>1. i \notin E
    BY <1>7, <1>12 DEF IsLocked
  <2> QED BY <2>1, <1>4, <1>12, <1>13, SoundAt DEF GuardedAt, IsLocked
<1>20. Detached(v)
  <2> SUFFICES ASSUME NEW i \in Ids, Exists(v, i), Settled(v, i)
               PROVE  ~IsLocked(v, i) /\ v.task[i].currentList # "wait"
    BY DEF Detached
  <2>1. CASE i \in S
    BY <2>1, <1>7, <1>12, <1>17 DEF IsLocked
  <2>2. CASE i \notin S
    <3>1. v.task[i].currentList \in TerminalLists
      BY <2>2, <1>18 DEF PlacedAt
    <3> QED BY <3>1, <1>19 DEF TerminalLists, Guarded
  <2> QED BY <2>1, <2>2
<1>21. Ready(v)
  BY <1>11, <1>19, <1>20 DEF Ready
<1>22. LocksKept(s, v)
  <2> SUFFICES ASSUME NEW i \in Ids, IsLocked(v, i)
               PROVE  v.lock[i].token = s.lock[i].token /\ v.task[i].generation = s.task[i].generation
    BY DEF LocksKept
  <2>1. i \notin E
    BY <1>7, <1>12 DEF IsLocked
  <2> QED BY <2>1, <1>4, <1>12, <1>13
<1>23. \A i \in E : ~Settled(s, i)
  BY <1>0, <1>6, SoundAt DEF PlacedAt, TerminalLists
<1>24. ASSUME NEW i \in E \ S
       PROVE  /\ v.task[i] \in TaskRecord /\ v.task[i].generation = task[i].generation
              /\ v.task[i].config = task[i].config /\ v.task[i].attempt = task[i].attempt
              /\ v.task[i].handlerFailureCount = task[i].handlerFailureCount
              /\ v.task[i].stalledAttemptCount = task[i].stalledAttemptCount
  <2>1. v.task[i] = [task[i] EXCEPT !.currentList = "wait"]
    BY <1>0, <1>8, <1>11
  <2>2. task[i] \in TaskRecord
    BY <1>3
  <2> QED BY <2>1, <2>2 DEF TaskRecord, Lists
<1>25. Charges(s, v, E, S)
  <2>1. ASSUME NEW i \in S
        PROVE  /\ v.task[i] \in TaskRecord /\ v.task[i].outcome = "failure"
               /\ v.task[i].generation = s.task[i].generation
               /\ v.task[i].config = s.task[i].config /\ v.task[i].attempt = s.task[i].attempt
               /\ v.task[i].handlerFailureCount = s.task[i].handlerFailureCount
               /\ v.task[i].stalledAttemptCount = s.task[i].stalledAttemptCount + 1
    BY <1>0, <1>3, <1>15
  <2>2. ASSUME NEW i \in E \ S
        PROVE  /\ v.task[i] \in TaskRecord /\ v.task[i].outcome = s.task[i].outcome
               /\ v.task[i].currentList = "wait"
               /\ v.task[i].generation = s.task[i].generation
               /\ v.task[i].config = s.task[i].config /\ v.task[i].attempt = s.task[i].attempt
               /\ v.task[i].handlerFailureCount = s.task[i].handlerFailureCount
               /\ v.task[i].stalledAttemptCount = s.task[i].stalledAttemptCount + 1
    BY <1>3, <1>14, <1>24
  <2>3. \A i \in Ids \ E : v.task[i] = s.task[i]
    BY <1>13
  <2>4. \A i \in E : Exists(s, i) /\ ~Settled(s, i) /\ s.task[i].currentList = "active"
    BY <1>6, <1>23
  <2> QED BY <2>1, <2>2, <2>3, <2>4, Zenon DEF Charges
<1>26. SameButLists([s EXCEPT !.lock = v.lock], v)
  <2>1. SameButLists(u, v)
    BY <1>11
  <2> QED BY <2>1, <1>1, <1>12 DEF u, SameButLists, Keyspace
<1> QED BY <1>17, <1>18, <1>21, <1>22, <1>25, <1>26

\* failTask on attempts that stalled.
LEMMA StallAllSafe ==
    ASSUME NEW s, Sound(s), NEW E, NEW S, NEW q, CanStall(s, E, S, q),
           NEW P, P \subseteq s.retains,
           NEW y, y = StallAll(s, E, S, q, P)
    PROVE  Safe(s, y)
<1> DEFINE v == Stalling(s, E, S, q)
<1>1. y = SettleTask(v, S, P)
  BY DEF StallAll, Stalling
<1> HIDE DEF v
<1>2. /\ Ready(v) /\ LocksKept(s, v)
      /\ SameButLists([s EXCEPT !.lock = v.lock], v)
      /\ \A i \in S : Exists(v, i) /\ Settled(v, i)
      /\ \A i \in Ids \ S : PlacedAt(v, i)
  BY StallingReady DEF v
<1>3. S \in SUBSET Ids /\ P \subseteq v.retains
  BY <1>2 DEF CanStall, SameButLists, Sound, Keyspace
<1>4. Ends(v, y) /\ \A i \in S : Over(v, y, i)
  BY <1>1, <1>2, <1>3, SettleTaskEnds
<1>5. Safe(v, y)
  <2>1. \A i \in S : Exists(v, i) /\ Settled(v, i) /\ Over(v, y, i)
    BY <1>2, <1>4
  <2>2. \A i \in Ids \ S : Exists(v, i) =>
              (Settled(v, i) <=> v.task[i].currentList \in TerminalLists)
    BY <1>2 DEF PlacedAt
  <2> QED BY <1>2, <1>3, <1>4, <2>1, <2>2, EndsSound
<1> QED BY <1>2, <1>5, LocksKeptSafe

\* syncLocks ends the attempts whose deadline has passed and whose lock is gone.
LEMMA SyncLocksStep ==
    ASSUME NEW x, Sound(x.db), NEW y \in SyncLocks(x)
    PROVE  \E E, S, q, P :
              /\ CanStall(x.db, E, S, q) /\ S = {i \in E : OutOfStalls(x.db.task[i])}
              /\ P \subseteq x.db.retains /\ \A p \in P : p[1] \in CurrentOf(x.db, S)
              /\ y.db = StallAll(x.db, E, S, q, P)
<1> DEFINE s == x.db
           Ended(B) == {i \in B : ~IsLocked(s, i)}
           Exhausted(B) == {i \in Ended(B) : OutOfStalls(s.task[i])}
           Earlier(P, S) == \A i, j \in S : \A p \in s.retains :
              s.active[i] < s.active[j] /\ p[1] = Current(s, i) /\ p \notin P
                => ~\E r \in P : r[1] = Current(s, j)
           Released(B) ==
              {P \in Pops(s, CurrentOf(s, Exhausted(B)), x.left - Cardinality(B)) :
                   Earlier(P, Exhausted(B))}
           Walked(B, q) ==
              {[db |-> StallAll(s, Ended(B), Exhausted(B), q, P),
                left |-> x.left - Cardinality(B) - Cardinality(P)] : P \in Released(B)}
           Swept_(B) == UNION {Walked(B, q) : q \in Walks(Ended(B) \ Exhausted(B), s.active)}
<1>1. y \in UNION {Swept_(B) : B \in DueBatches(s.active, s.now, x.left)}
  BY DEF SyncLocks
<1> HIDE DEF Swept_
<1>2. PICK B \in DueBatches(s.active, s.now, x.left) : y \in Swept_(B)
  BY <1>1
<1> HIDE DEF Walked
<1> DEFINE E == Ended(B)
           S == Exhausted(B)
<1>3. PICK q \in Walks(E \ S, s.active) : y \in Walked(B, q)
  BY <1>2 DEF Swept_
<1> HIDE DEF Earlier
<1>4. PICK P \in Released(B) :
         y = [db |-> StallAll(s, E, S, q, P),
              left |-> x.left - Cardinality(B) - Cardinality(P)]
  BY <1>3, Zenon DEF Walked
<1>5. DOMAIN s.active = Ids
  BY DEF Sound, Keyspace
<1>6. B \subseteq Ids /\ \A i \in B : s.active[i] # Out
  BY <1>5 DEF DueBatches
<1>7. E \in SUBSET Ids /\ S \in SUBSET E /\ \A i \in E : s.active[i] # Out /\ ~IsLocked(s, i)
  BY <1>6
<1>8. /\ P \subseteq s.retains /\ \A p \in P : p[1] \in CurrentOf(s, S)
      /\ y.db = StallAll(s, E, S, q, P)
      /\ S = {i \in E : OutOfStalls(s.task[i])}
  BY <1>4 DEF Pops
<1> HIDE DEF s, E, S
<1>9. E \ S \in SUBSET Ids
  BY <1>7
<1>10. q \in Seq(Ids) /\ IsInjective(q) /\ \A i : Entry(q, i) <=> i \in E \ S
  BY <1>9, WalkType
<1>11. CanStall(s, E, S, q)
  BY <1>7, <1>10 DEF CanStall
<1> QED BY <1>8, <1>11 DEF s

\* syncLocks is safe: the attempts whose key is gone are the only ones it fails.
LEMMA SyncLocksSafe ==
    ASSUME NEW x, Sound(x.db), NEW y \in SyncLocks(x)
    PROVE  Safe(x.db, y.db)
BY SyncLocksStep, StallAllSafe

\* Ending settled tasks keeps a sound keyspace sound.
LEMMA EndsSafe ==
    ASSUME NEW s, Sound(s), NEW u, Ends(s, u)
    PROVE  Safe(s, u)
<1> DEFINE S == {}
<1>1. S \in SUBSET Ids /\ \A i \in S : Exists(s, i) /\ Settled(s, i) /\ Over(s, u, i)
  OBVIOUS
<1> HIDE DEF S
<1>2. Ready(s)
  BY SoundReady
<1>3. \A i \in Ids \ S : Exists(s, i) =>
              (Settled(s, i) <=> s.task[i].currentList \in TerminalLists)
  BY SoundAt DEF PlacedAt
<1> QED BY <1>1, <1>2, <1>3, EndsSound

\* syncRetentionContinuations releases more holds of one holder.
LEMMA SyncRetentionContinuationsSafe ==
    ASSUME NEW x, Sound(x.db), NEW y \in SyncRetentionContinuations(x)
    PROVE  Safe(x.db, y.db)
<1> DEFINE s == x.db
<1>1. CASE y = x
  BY <1>1 DEF Safe, LocksKept
<1>2. CASE \E h \in Members : \E P \in Pops(s, {h}, x.left) :
              y = Swept(ReleaseOwnedHolds(s, {h}, P), x.left, P)
  <2>1. PICK h \in Members : \E P \in Pops(s, {h}, x.left) :
              y = Swept(ReleaseOwnedHolds(s, {h}, P), x.left, P)
    BY <1>2
  <2>2. PICK P \in Pops(s, {h}, x.left) : y.db = ReleaseOwnedHolds(s, {h}, P)
    BY <2>1 DEF Swept
  <2>3. P \subseteq s.retains
    BY DEF Pops
  <2>4. Ends(s, y.db)
    BY <2>2, <2>3, SoundReady, ReleaseOwnedHoldsEnds
  <2> QED BY <2>4, EndsSafe
<1>3. y = x \/ \E h \in Members : \E P \in Pops(s, {h}, x.left) :
                   y = Swept(ReleaseOwnedHolds(s, {h}, P), x.left, P)
  BY Zenon DEF SyncRetentionContinuations
<1> QED BY <1>1, <1>2, <1>3

\* An expiry index stays one when a batch of it is postponed or dropped.
LEMMA PostponeType ==
    ASSUME NEW s \in Keyspace, NEW index \in [Members -> Score], NEW B, NEW held
    PROVE  Postpone(s, index, B, held) \in [Members -> Score]
BY DurationsAssumption DEF Postpone, Keyspace, Score

\* Steps that change neither tasks, lists nor locks.
LEMMA SameListsSafe ==
    ASSUME NEW s, Sound(s), NEW u, u \in Keyspace, SameLists(s, u), u.lock = s.lock
    PROVE  Safe(s, u)
<1>1. Listed(u) /\ Guarded(u) /\ Placed(u)
  BY DEF Sound, SameLists, Listed, InList, Exists, Guarded, IsLocked, Placed, Settled
<1>2. LocksKept(s, u)
  BY DEF LocksKept, SameLists
<1> QED BY <1>1, <1>2 DEF Safe, Sound

\* deleteTask on settled tasks.
LEMMA DeleteSettledSafe ==
    ASSUME NEW s, Sound(s), NEW S \in SUBSET Ids,
           \A i \in S : Exists(s, i) /\ Settled(s, i),
           NEW u, u = DeleteAll(s, S)
    PROVE  Safe(s, u)
<1>1. Ready(s)
  BY SoundReady
<1>2. \A i \in S : ~IsLocked(s, i) /\ s.task[i].currentList # "wait"
  BY <1>1 DEF Ready, Detached
<1>3. /\ Ready(u) /\ SameBase(s, u)
      /\ u.task = [i \in Ids |-> IF i \in S THEN NoTask ELSE s.task[i]]
      /\ \A i \in Ids \ S : u.active[i] = s.active[i]
  BY <1>1, <1>2, DeleteAllLists DEF Deleted
<1>4. Ends(s, u)
  BY <1>3 DEF Ends, Over, Kept
<1> QED BY <1>4, EndsSafe

\* syncTaskExpiry deletes expired records that no hold pins.
LEMMA SyncTaskExpirySafe ==
    ASSUME NEW x, Sound(x.db), NEW y \in SyncTaskExpiry(x)
    PROVE  Safe(x.db, y.db)
<1> DEFINE s == x.db
           Live(B) == {m \in B : IsCurrent(s, m) /\ Settled(s, m[1])}
           Held(B) == {m \in Live(B) : HasRetentionHolds(s, m)}
           Expire(B) ==
            [DeleteAll(s, {m[1] : m \in Live(B) \ Held(B)}) EXCEPT
                !.taskExpiry = Postpone(s, s.taskExpiry, B, Held(B))]
<1>1. PICK B \in DueBatches(s.taskExpiry, s.now, x.left) :
         y = Swept(Expire(B), x.left, B)
  BY Zenon DEF SyncTaskExpiry
<1> DEFINE S == {m[1] : m \in Live(B) \ Held(B)}
           u == DeleteAll(s, S)
           taskExpiry == Postpone(s, s.taskExpiry, B, Held(B))
<1>2. s \in Keyspace
  BY DEF Sound
<1>3. s.taskExpiry \in [Members -> Score]
  BY <1>2 DEF Keyspace
<1>4. B \subseteq Members
  BY <1>3 DEF DueBatches
<1>5. S \in SUBSET Ids
  BY <1>4 DEF Members
<1>6. \A i \in S : Exists(s, i) /\ Settled(s, i)
  BY <1>4 DEF IsCurrent, Exists, Members, Gens
<1>7. taskExpiry \in [Members -> Score]
  BY <1>2, <1>3, PostponeType
<1> HIDE DEF s, S, u, taskExpiry
<1>8. Sound(s)
  BY DEF s
<1>9. Safe(s, u)
  BY <1>5, <1>6, <1>8, DeleteSettledSafe DEF u
<1>10. y.db = [u EXCEPT !.taskExpiry = taskExpiry]
  BY <1>1 DEF u, S, s, taskExpiry, Swept
<1>11. u \in Keyspace
  BY <1>9 DEF Safe, Sound
<1>12. y.db \in Keyspace /\ SameLists(u, y.db) /\ y.db.lock = u.lock
  BY ZenonT(60), <1>7, <1>10, <1>11 DEF Keyspace, SameLists
<1>13. Safe(u, y.db)
  BY <1>9, <1>12, SameListsSafe DEF Safe
<1>14. Safe(s, y.db)
  BY <1>9, <1>13, SafeTransitive
<1> QED BY <1>14 DEF s

\* syncResultExpiry and syncDeadLetterExpiry change results and dead letters.
LEMMA SyncResultExpirySafe ==
    ASSUME NEW x, Sound(x.db), NEW y \in SyncResultExpiry(x)
    PROVE  Safe(x.db, y.db)
<1> DEFINE s == x.db
           Held(B) == {m \in B : HasRetentionHolds(s, m)}
           Expire(B) ==
            [s EXCEPT
                !.result = {r \in @ : r[1] \notin B \ Held(B)},
                !.resultExpiry = Postpone(s, @, B, Held(B))]
<1>1. PICK B \in DueBatches(s.resultExpiry, s.now, x.left) :
         y = Swept(Expire(B), x.left, B)
  BY Zenon DEF SyncResultExpiry
<1> DEFINE result == {r \in s.result : r[1] \notin B \ Held(B)}
           resultExpiry == Postpone(s, s.resultExpiry, B, Held(B))
<1>2. s \in Keyspace
  BY DEF Sound
<1>3. s.result \in SUBSET (Members \X Outcomes) /\ s.resultExpiry \in [Members -> Score]
  BY <1>2 DEF Keyspace
<1>4. result \in SUBSET (Members \X Outcomes)
  BY <1>3
<1>5. resultExpiry \in [Members -> Score]
  BY <1>2, <1>3, PostponeType
<1>6. y.db = [s EXCEPT !.result = result, !.resultExpiry = resultExpiry]
  BY <1>1 DEF Swept
<1> HIDE DEF s, result, resultExpiry, Held, Expire
<1>7. y.db \in Keyspace
  BY ZenonT(60), <1>2, <1>4, <1>5, <1>6 DEF Keyspace
<1>8. SameLists(s, y.db) /\ y.db.lock = s.lock
  BY <1>2, <1>6 DEF Keyspace, SameLists
<1>9. Sound(s)
  BY DEF s
<1>10. Safe(s, y.db)
  BY <1>7, <1>8, <1>9, SameListsSafe
<1> QED BY <1>10 DEF s

\* syncDeadLetterExpiry only forgets dead letters.
LEMMA SyncDeadLetterExpirySafe ==
    ASSUME NEW x, Sound(x.db), NEW y \in SyncDeadLetterExpiry(x)
    PROVE  Safe(x.db, y.db)
<1> DEFINE s == x.db
           Expire(B) == [s EXCEPT !.deadLetter = @ \ B,
                                  !.deadLetterExpiry = Unschedule(@, B)]
<1>1. PICK B \in DueBatches(s.deadLetterExpiry, s.now, x.left) :
         y = Swept(Expire(B), x.left, B)
  BY Zenon DEF SyncDeadLetterExpiry
<1> DEFINE deadLetter == s.deadLetter \ B
           deadLetterExpiry == Unschedule(s.deadLetterExpiry, B)
<1>2. s \in Keyspace
  BY DEF Sound
<1>3. s.deadLetter \in SUBSET Members /\ s.deadLetterExpiry \in [Members -> Score]
  BY <1>2 DEF Keyspace
<1>4. deadLetter \in SUBSET Members
  BY <1>3
<1>5. deadLetterExpiry \in [Members -> Score]
  BY <1>3, UnscheduleType
<1>6. y.db = [s EXCEPT !.deadLetter = deadLetter, !.deadLetterExpiry = deadLetterExpiry]
  BY <1>1 DEF Swept
<1> HIDE DEF deadLetter, deadLetterExpiry
<1>7. y.db \in Keyspace /\ SameLists(s, y.db) /\ y.db.lock = s.lock
  BY ZenonT(60), <1>2, <1>4, <1>5, <1>6 DEF Keyspace, SameLists
<1> QED BY <1>7, SameListsSafe

\* syncTerminalExpiry takes expired tasks off the terminal indexes, and off
\* nothing else: the tasks it touches are settled ones.
LEMMA SyncTerminalExpirySafe ==
    ASSUME NEW x, Sound(x.db), NEW y \in SyncTerminalExpiry(x)
    PROVE  Safe(x.db, y.db)
<1> DEFINE s == x.db
           Removed(B) == {i \in s.success \cup s.failed :
                             \E m \in B : m[1] = i /\ IsCurrent(s, m)}
           Expire(B) ==
            [s EXCEPT
                !.success = @ \ Removed(B),
                !.failed = @ \ Removed(B),
                !.task = [i \in Ids |->
                    IF i \in Removed(B) THEN Delisted(s.task[i]) ELSE s.task[i]],
                !.terminalExpiry = Unschedule(@, B)]
<1>1. PICK B \in DueBatches(s.terminalExpiry, s.now, x.left) :
         y = Swept(Expire(B), x.left, B)
  BY Zenon DEF SyncTerminalExpiry
<1> DEFINE R == Removed(B)
           u == y.db
           success == s.success \ R
           failed == s.failed \ R
           task == [i \in Ids |-> IF i \in R THEN Delisted(s.task[i]) ELSE s.task[i]]
           terminalExpiry == Unschedule(s.terminalExpiry, B)
<1>2. s \in Keyspace /\ Listed(s)
  BY DEF Sound
<1>3. /\ s.success \in SUBSET Ids /\ s.failed \in SUBSET Ids
      /\ s.terminalExpiry \in [Members -> Score]
  BY <1>2 DEF Keyspace
<1>4. R \subseteq s.success \cup s.failed /\ R \subseteq Ids
  BY <1>3
<1>5. \A i \in R : Exists(s, i) /\ s.task[i].currentList \in {"success", "failed"}
  BY <1>2, <1>4 DEF Listed, InList, Lists
<1>6. \A i \in R : task[i] = [s.task[i] EXCEPT !.currentList = "none"]
  BY <1>4 DEF Delisted
<1>7. \A i \in Ids \ R : task[i] = s.task[i]
  OBVIOUS
<1>8. \A i \in R : /\ task[i] \in TaskRecord
                   /\ task[i].currentList = "none"
                   /\ task[i].generation = s.task[i].generation
                   /\ task[i].outcome = s.task[i].outcome
  <2> TAKE i \in R
  <2>1. s.task[i] \in TaskRecord
    BY <1>2, <1>4, TaskType
  <2>2. task[i] = [s.task[i] EXCEPT !.currentList = "none"]
    BY <1>6
  <2>3. "none" \in Lists
    BY DEF Lists
  <2> HIDE DEF task
  <2> QED BY <2>1, <2>2, <2>3, Relisted
<1>9. /\ success \in SUBSET Ids /\ failed \in SUBSET Ids
      /\ task \in [Ids -> TaskRecord] /\ terminalExpiry \in [Members -> Score]
  BY <1>2, <1>3, <1>7, <1>8, TaskType, UnscheduleType
<1>10. u = [s EXCEPT !.success = success, !.failed = failed, !.task = task,
                     !.terminalExpiry = terminalExpiry]
  BY <1>1 DEF Swept
<1> HIDE DEF R, success, failed, task, terminalExpiry, u
<1>11. u \in Keyspace
  BY ZenonT(60), <1>2, <1>9, <1>10 DEF Keyspace
<1>12. /\ u.task = task /\ u.success = success /\ u.failed = failed
       /\ u.wait = s.wait /\ u.scheduled = s.scheduled /\ u.active = s.active
       /\ u.lock = s.lock
  BY <1>2, <1>10 DEF Keyspace
<1>13. Listed(u)
  <2>1. IsInjective(u.wait)
    BY <1>2, <1>12 DEF Listed
  <2>2. ASSUME NEW i \in Ids, NEW l \in Lists \ {"none"}
        PROVE  InList(u, i, l) <=> Exists(u, i) /\ u.task[i].currentList = l
    <3>1. CASE i \in R
      <4>1. u.task[i].currentList = "none"
        BY <3>1, <1>8, <1>12
      <4>2. ~InList(s, i, "wait") /\ ~InList(s, i, "scheduled") /\ ~InList(s, i, "active")
        BY <3>1, <1>2, <1>5 DEF Listed, Lists
      <4>3. ~InList(u, i, l)
        BY <3>1, <4>2, <1>12 DEF InList, Lists, success, failed
      <4> QED BY <4>1, <4>3
    <3>2. CASE i \notin R
      <4>1. InList(u, i, l) <=> InList(s, i, l)
        BY <3>2, <1>12 DEF InList, success, failed
      <4> QED BY <3>2, <4>1, <1>2, <1>7, <1>12 DEF Listed, Exists
    <3> QED BY <3>1, <3>2
  <2> QED BY <2>1, <2>2 DEF Listed
<1>14. Guarded(u)
  <2> SUFFICES ASSUME NEW i \in Ids, IsLocked(u, i)
               PROVE  u.task[i].currentList = "active" /\ u.active[i] = u.lock[i].until
    BY DEF Guarded
  <2>1. GuardedAt(s, i) /\ IsLocked(s, i)
    BY <1>12, SoundAt DEF IsLocked
  <2>2. i \notin R
    BY <2>1, <1>5 DEF GuardedAt
  <2> QED BY <2>1, <2>2, <1>7, <1>12 DEF GuardedAt
<1>15. Placed(u)
  <2> SUFFICES ASSUME NEW i \in Ids, Exists(u, i)
               PROVE  Settled(u, i) <=> u.task[i].currentList \in TerminalLists
    BY DEF Placed, TerminalLists
  <2>1. PlacedAt(s, i)
    BY SoundAt
  <2>2. CASE i \in R
    BY <2>1, <2>2, <1>5, <1>8, <1>12 DEF PlacedAt, Settled, TerminalLists
  <2>3. CASE i \notin R
    BY <2>1, <2>3, <1>7, <1>12 DEF PlacedAt, Settled, Exists
  <2> QED BY <2>2, <2>3
<1>16. LocksKept(s, u)
  BY <1>7, <1>8, <1>12 DEF LocksKept
<1> QED BY <1>11, <1>13, <1>14, <1>15, <1>16 DEF Safe, Sound, u

\* Whatever the budget lets a syncer do, it keeps the keyspace sound.
LEMMA SyncerSafe ==
    ASSUME NEW n, NEW x, Sound(x.db), NEW y \in Syncer(n, x)
    PROVE  Safe(x.db, y.db)
<1>1. CASE y = x
  BY <1>1 DEF Safe, LocksKept
<1>2. \/ y = x
      \/ y \in SyncDelayed(x)
      \/ y \in SyncLocks(x)
      \/ y \in SyncRetentionContinuations(x)
      \/ y \in SyncTaskExpiry(x)
      \/ y \in SyncResultExpiry(x)
      \/ y \in SyncTerminalExpiry(x)
      \/ y \in SyncDeadLetterExpiry(x)
  BY DEF Syncer
<1> QED BY <1>1, <1>2, SyncDelayedSafe, SyncLocksSafe,
           SyncRetentionContinuationsSafe, SyncTaskExpirySafe,
           SyncResultExpirySafe, SyncTerminalExpirySafe, SyncDeadLetterExpirySafe

\* syncAll keeps the keyspace sound, and takes no lock.
LEMMA SyncAllSafe ==
    ASSUME NEW s, Sound(s), NEW x \in SyncAll(s)
    PROVE  Safe(s, x.db)
<1> DEFINE AllSafe(X) == \A y \in X : Safe(s, y.db)
           Then(X, n) == UNION {Syncer(SyncerAt(s.cursor, n), y) : y \in X}
           X0 == Then({[db |-> s, left |-> Batch]}, 0)
           X3 == Then(Then(Then(X0, 1), 2), 3)
           X6 == Then(Then(Then(X3, 4), 5), 6)
<1>1. ASSUME NEW X, AllSafe(X), NEW n PROVE AllSafe(Then(X, n))
  <2> SUFFICES ASSUME NEW z \in Then(X, n) PROVE Safe(s, z.db)
    OBVIOUS
  <2>1. PICK y \in X : z \in Syncer(SyncerAt(s.cursor, n), y)
    OBVIOUS
  <2>2. Safe(s, y.db)
    BY <1>1
  <2>3. Safe(y.db, z.db)
    BY <2>1, <2>2, SyncerSafe DEF Safe
  <2> QED BY <2>2, <2>3, SafeTransitive
<1>2. AllSafe({[db |-> s, left |-> Batch]})
  BY DEF Safe, LocksKept
<1> HIDE DEF AllSafe, Then
<1>3. AllSafe(X6)
  <2>1. AllSafe(X0)
    BY <1>1, <1>2
  <2>2. AllSafe(X3)
    BY <1>1, <2>1
  <2> QED BY <1>1, <2>2
<1>4. PICK z \in X6 : x = [z EXCEPT !.db.cursor = NextCursor(s.cursor)]
  BY DEF SyncAll, Then
<1> HIDE DEF X6
<1>5. Safe(s, z.db)
  BY <1>3 DEF AllSafe
<1>6. z.db \in Keyspace /\ s.cursor \in 0..6
  BY <1>5 DEF Safe, Sound, Keyspace
<1>7. x.db = [z.db EXCEPT !.cursor = NextCursor(s.cursor)]
  BY <1>4
<1>8. NextCursor(s.cursor) \in 0..6
  BY <1>6 DEF NextCursor
<1>9. x.db \in Keyspace /\ SameLists(z.db, x.db) /\ x.db.lock = z.db.lock
  BY ZenonT(60), <1>6, <1>7, <1>8 DEF Keyspace, SameLists
<1>10. Safe(z.db, x.db)
  BY <1>5, <1>9, SameListsSafe DEF Safe
<1> QED BY <1>5, <1>10, SafeTransitive

-----------------------------------------------------------------------------
(* The operations. *)

\* Dropping locks leaves a ready keyspace ready.
LEMMA UnlockReady ==
    ASSUME NEW s, Ready(s), NEW S, NEW u, u = Unlock(s, S)
    PROVE  /\ Ready(u) /\ SameLists(s, u) /\ LocksKept(s, u)
           /\ u.retains = s.retains /\ u.retainedBy = s.retainedBy
           /\ u.generations = s.generations /\ u.now = s.now
           /\ u.lock = [i \in Ids |-> IF i \in S THEN NoLock ELSE s.lock[i]]
<1> DEFINE lock == [i \in Ids |-> IF i \in S THEN NoLock ELSE s.lock[i]]
<1>1. s \in Keyspace
  BY DEF Ready
<1>2. lock \in [Ids -> Lock]
  BY <1>1, LockType, NoLockType
<1>3. u = [s EXCEPT !.lock = lock]
  BY DEF Unlock
<1>4. \A i \in Ids : lock[i].token # 0 => i \notin S /\ lock[i] = s.lock[i]
  BY NoLockType
<1> HIDE DEF lock
<1>5. u \in Keyspace
  BY ZenonT(60), <1>1, <1>2, <1>3 DEF Keyspace
<1>6. /\ SameLists(s, u) /\ u.lock = lock
      /\ u.retains = s.retains /\ u.retainedBy = s.retainedBy
      /\ u.generations = s.generations /\ u.now = s.now
  BY <1>1, <1>3 DEF Keyspace, SameLists
<1>7. Listed(u)
  BY <1>6 DEF Ready, SameLists, Listed, InList, Exists
<1>8. Guarded(u) /\ Detached(u)
  BY <1>4, <1>6 DEF Ready, SameLists, Guarded, Detached, IsLocked, Exists, Settled
<1>9. LocksKept(s, u)
  BY <1>4, <1>6 DEF LocksKept, IsLocked, SameLists
<1> QED BY <1>5, <1>6, <1>7, <1>8, <1>9 DEF Ready, lock

\* deleteTask on an id that has no record changes nothing.
LEMMA DeleteMissing ==
    ASSUME NEW s, Ready(s), NEW i \in Ids, ~Exists(s, i), NEW u, u = DeleteAll(s, {i})
    PROVE  Deleted(s, u, {i})
<1> DEFINE S == {i}
           to == [j \in S |-> "none"]
           Leaving(l) == {j \in S : LeavesList(s, j, l)}
           Entering(l) == {j \in S : to[j] = l}
           Rescored(z, l) ==
            [j \in Ids |-> IF j \in Entering(l) THEN 0
                           ELSE IF j \in Leaving(l) THEN Out ELSE z[j]]
           task == [j \in Ids |-> IF j \in S THEN NoTask ELSE s.task[j]]
           taskExpiry == Unschedule(s.taskExpiry, CurrentOf(s, S))
           terminalExpiry == Unschedule(s.terminalExpiry, CurrentOf(s, S))
<1>1. s \in Keyspace /\ Listed(s)
  BY DEF Ready
<1>2. /\ s.wait \in Seq(Ids) /\ s.scheduled \in [Ids -> Score]
      /\ s.active \in [Ids -> Score] /\ s.task \in [Ids -> TaskRecord]
      /\ s.taskExpiry \in [Members -> Score] /\ s.terminalExpiry \in [Members -> Score]
  BY <1>1 DEF Keyspace
<1>3. /\ \A n \in DOMAIN s.wait : s.wait[n] # i
      /\ s.scheduled[i] = Out /\ s.active[i] = Out
      /\ i \notin s.success /\ i \notin s.failed
  BY <1>1 DEF Listed, InList, Lists
<1>4. LRem(s.wait, Leaving("wait")) \o <<>> = s.wait
  <2>1. LRem(s.wait, Leaving("wait")) = s.wait
    BY <1>3 DEF LRem
  <2> QED BY <1>2, <2>1
<1>5. Rescored(s.scheduled, "scheduled") = s.scheduled
  BY <1>2, <1>3
<1>6. Rescored(s.active, "active") = s.active
  BY <1>2, <1>3
<1>7. /\ (s.success \ Leaving("success")) \cup Entering("success") = s.success
      /\ (s.failed \ Leaving("failed")) \cup Entering("failed") = s.failed
  BY <1>3
<1>8. task \in [Ids -> TaskRecord] /\ taskExpiry \in [Members -> Score]
      /\ terminalExpiry \in [Members -> Score]
  BY <1>2, NoTaskType, UnscheduleType
<1>9. u = [MoveAll(s, to, 0, <<>>) EXCEPT
             !.task = [j \in Ids |-> IF j \in S THEN NoTask
                                     ELSE MoveAll(s, to, 0, <<>>).task[j]],
             !.taskExpiry = taskExpiry, !.terminalExpiry = terminalExpiry]
  BY DEF DeleteAll
<1> DEFINE moved == [j \in Ids |->
              IF j \in S THEN [s.task[j] EXCEPT !.currentList = to[j]] ELSE s.task[j]]
           v == [s EXCEPT !.task = moved, !.wait = s.wait, !.scheduled = s.scheduled,
                          !.active = s.active, !.success = s.success, !.failed = s.failed]
<1>10. MoveAll(s, to, 0, <<>>) = v
  BY <1>1, <1>4, <1>5, <1>6, <1>7 DEF MoveAll
<1>11. v.task = moved
  BY <1>1 DEF Keyspace
<1>12. [j \in Ids |-> IF j \in S THEN NoTask ELSE v.task[j]] = task
  BY <1>11
<1>13. u = [v EXCEPT !.task = task, !.taskExpiry = taskExpiry,
                     !.terminalExpiry = terminalExpiry]
  <2> HIDE DEF v, task, taskExpiry, terminalExpiry, to
  <2>1. u = [v EXCEPT !.task = [j \in Ids |-> IF j \in S THEN NoTask ELSE v.task[j]],
                      !.taskExpiry = taskExpiry, !.terminalExpiry = terminalExpiry]
    BY <1>9, <1>10, Zenon
  <2> QED BY <1>12, <2>1, Zenon
<1>14. \A j \in Ids : /\ Exists(s, j) => j # i /\ task[j] = s.task[j]
                      /\ task[j].generation = s.task[j].generation
                      /\ j # i => task[j] = s.task[j]
  BY NoTaskType DEF Exists
<1> HIDE DEF task, taskExpiry, terminalExpiry, moved
<1>15. /\ u.task = task /\ u.wait = s.wait /\ u.scheduled = s.scheduled
       /\ u.active = s.active /\ u.success = s.success /\ u.failed = s.failed
       /\ SameBase(s, u) /\ u.retains = s.retains /\ u.retainedBy = s.retainedBy
  BY ZenonT(60), <1>1, <1>13 DEF Keyspace, SameBase
<1>16. u \in Keyspace
  <2>1. u = [s EXCEPT !.task = task, !.taskExpiry = taskExpiry,
                      !.terminalExpiry = terminalExpiry]
    BY <1>1, <1>13 DEF Keyspace
  <2> HIDE DEF v
  <2> QED BY ZenonT(60), <1>1, <1>8, <2>1 DEF Keyspace
<1>17. Listed(u)
  <2>1. IsInjective(u.wait)
    BY <1>1, <1>15 DEF Listed
  <2>2. ASSUME NEW j \in Ids, NEW l \in Lists \ {"none"}
        PROVE  InList(u, j, l) <=> Exists(u, j) /\ u.task[j].currentList = l
    <3>1. InList(u, j, l) <=> InList(s, j, l)
      BY <1>15 DEF InList
    <3>2. InList(s, j, l) <=> Exists(s, j) /\ s.task[j].currentList = l
      BY <1>1 DEF Listed
    <3>3. CASE j = i
      BY <3>1, <3>2, <3>3, <1>14, <1>15 DEF Exists
    <3>4. CASE j # i
      BY <3>1, <3>2, <3>4, <1>14, <1>15 DEF Exists
    <3> QED BY <3>3, <3>4
  <2> QED BY <2>1, <2>2 DEF Listed
<1>18. Guarded(u) /\ Detached(u)
  <2>1. \A j \in Ids : IsLocked(s, j) => j # i
    BY <1>1, LockedExists DEF Ready
  <2>2. u.lock = s.lock
    BY <1>15 DEF SameBase
  <2>3. Guarded(u)
    BY <1>14, <1>15, <2>1, <2>2 DEF Ready, Guarded, IsLocked
  <2>4. Detached(u)
    <3> SUFFICES ASSUME NEW j \in Ids, Exists(u, j), Settled(u, j)
                 PROVE  ~IsLocked(u, j) /\ u.task[j].currentList # "wait"
      BY DEF Detached
    <3>1. j # i
      BY <1>14, <1>15 DEF Exists
    <3> QED BY <3>1, <1>14, <1>15, <2>2 DEF Ready, Detached, IsLocked, Exists, Settled
  <2> QED BY <2>3, <2>4
<1> QED BY <1>15, <1>16, <1>17, <1>18 DEF Deleted, Ready, task

\* deleteTask on an unlocked id, whether it has a record or not.
LEMMA DeleteOne ==
    ASSUME NEW s, Ready(s), NEW i \in Ids, ~IsLocked(s, i), NEW u, u = DeleteAll(s, {i})
    PROVE  Deleted(s, u, {i})
<1>1. CASE Exists(s, i)
  <2>1. {i} \in SUBSET Ids /\ \A j \in {i} : Exists(s, j) /\ ~IsLocked(s, j)
    BY <1>1
  <2>2. \A j \in {i} : s.task[j].currentList = "wait" => {i} = {j}
    OBVIOUS
  <2> QED BY <2>1, <2>2, DeleteAllLists, Zenon
<1>2. CASE ~Exists(s, i)
  BY <1>2, DeleteMissing
<1> QED BY <1>1, <1>2

\* acquireRetentionHold writes the two sides of a hold, and no more.
LEMMA AcquireRetentionHoldType ==
    ASSUME NEW s \in Keyspace, NEW h \in Members, NEW m \in Members,
           NEW u, u = AcquireRetentionHold(s, h, m)
    PROVE  u \in Keyspace /\ SameLists(s, u) /\ SameBase(s, u)
<1> DEFINE retainedBy == s.retainedBy \cup {<<m, h>>}
           retains == s.retains \cup {<<h, m>>}
<1>1. retainedBy \in SUBSET (Members \X Members) /\ retains \in SUBSET (Members \X Members)
  BY DEF Keyspace
<1>2. u = [s EXCEPT !.retainedBy = retainedBy, !.retains = retains]
  BY DEF AcquireRetentionHold
<1> HIDE DEF retainedBy, retains
<1> QED BY ZenonT(60), <1>1, <1>2 DEF Keyspace, SameLists, SameBase

\* The ready keyspace in which everything is placed is a sound one.
LEMMA ReadySound ==
    ASSUME NEW s, Ready(s), \A i \in Ids : PlacedAt(s, i)
    PROVE  Sound(s)
BY DEF Ready, Sound, Placed, PlacedAt, TerminalLists

\* Deleting one task leaves a sound keyspace, if the others were in place.
LEMMA DeletedSafe ==
    ASSUME NEW s, NEW i \in Ids, NEW u, Deleted(s, u, {i}), ~IsLocked(s, i),
           \A j \in Ids \ {i} : PlacedAt(s, j)
    PROVE  Safe(s, u) /\ ~Exists(u, i) /\ ~IsLocked(u, i)
<1>1. u.task[i] = NoTask /\ \A j \in Ids \ {i} : u.task[j] = s.task[j]
  BY DEF Deleted
<1>2. ~Exists(u, i)
  BY <1>1, NoTaskType DEF Exists
<1>3. u.lock = s.lock
  BY DEF Deleted, SameBase
<1>4. ASSUME NEW j \in Ids PROVE PlacedAt(u, j)
  <2>1. CASE j = i
    BY <1>2, <2>1 DEF PlacedAt
  <2>2. CASE j # i
    BY <1>1, <2>2 DEF PlacedAt, Exists, Settled
  <2> QED BY <2>1, <2>2
<1>5. Sound(u)
  BY <1>4, ReadySound DEF Deleted
<1>6. LocksKept(s, u)
  BY <1>1, <1>3 DEF LocksKept, IsLocked
<1> QED BY <1>2, <1>3, <1>5, <1>6 DEF Safe, IsLocked

\* createTask disposing of a settled generation: the id is free afterwards.
LEMMA ReplacedSafe ==
    ASSUME NEW s, Sound(s), NEW i \in Ids, Replaceable(s, i), NEW u, u = Replaced(s, i)
    PROVE  /\ Safe(s, u)
           /\ ~Exists(u, i) /\ ~IsLocked(u, i)
           /\ u.generations = s.generations /\ u.now = s.now
<1>0. Ready(s) /\ \A j \in Ids : PlacedAt(s, j)
  BY SoundReady, SoundAt
<1>1. CASE ~Exists(s, i)
  <2>1. u = s
    BY <1>1 DEF Replaced
  <2>2. ~IsLocked(s, i)
    BY <1>0, <1>1, LockedExists DEF Ready
  <2> QED BY <1>1, <2>1, <2>2 DEF Safe, LocksKept
<1>2. CASE Exists(s, i)
  <2> DEFINE v == DeleteAll(s, {i})
  <2>1. u = Unlock(v, {i})
    BY <1>2 DEF Replaced
  <2>2. ~IsLocked(s, i)
    BY <1>0, <1>2 DEF Replaceable, Ready, Detached
  <2> HIDE DEF v
  <2>3. Deleted(s, v, {i})
    BY <1>0, <2>2, DeleteOne DEF v
  <2>4. Safe(s, v) /\ ~Exists(v, i) /\ ~IsLocked(v, i)
    BY <1>0, <2>2, <2>3, DeletedSafe
  <2>5. Sound(v) /\ Ready(v)
    BY <2>4, SoundReady DEF Safe
  <2>6. /\ Ready(u) /\ SameLists(v, u) /\ LocksKept(v, u)
        /\ u.generations = v.generations /\ u.now = v.now
        /\ u.lock = [j \in Ids |-> IF j \in {i} THEN NoLock ELSE v.lock[j]]
    BY <2>1, <2>5, UnlockReady
  <2>7. \A j \in Ids : PlacedAt(u, j)
    BY <2>5, <2>6, SoundAt DEF SameLists, PlacedAt, Exists, Settled
  <2>8. Safe(v, u)
    BY <2>6, <2>7, ReadySound DEF Safe
  <2>9. Safe(s, u)
    BY <2>4, <2>8, SafeTransitive
  <2>10. ~Exists(u, i) /\ ~IsLocked(u, i)
    BY <2>4, <2>6, NoLockType DEF SameLists, Exists, IsLocked
  <2>11. u.generations = s.generations /\ u.now = s.now
    BY <2>3, <2>6 DEF Deleted, SameBase
  <2> QED BY <2>9, <2>10, <2>11
<1> QED BY <1>1, <1>2

\* What is true between the creation of a record and its first listing.
Fresh(s, i) ==
    /\ Ready(s)
    /\ Exists(s, i) /\ ~Settled(s, i) /\ ~IsLocked(s, i)
    /\ s.task[i].currentList = "none"
    /\ \A j \in Ids \ {i} : PlacedAt(s, j)

\* createTask's record is new: it is in no list, has no lock and no outcome.
LEMMA NewRecordFresh ==
    ASSUME NEW s, Sound(s), NEW i \in Ids, NEW c \in Configs,
           ~Exists(s, i), ~IsLocked(s, i), s.generations[i] < MaxGen,
           NEW u, u = NewRecord(s, i, c)
    PROVE  /\ Fresh(u, i) /\ LocksKept(s, u) /\ u.now = s.now
           /\ u.generations[i] = s.generations[i] + 1
<1> DEFINE g == s.generations[i] + 1
           generations == [s.generations EXCEPT ![i] = g]
           r == [NoTask EXCEPT !.generation = g, !.config = c]
           task == [s.task EXCEPT ![i] = r]
<1>1. s \in Keyspace /\ Ready(s)
  BY SoundReady DEF Sound
<1>2. /\ s.generations \in [Ids -> 0..MaxGen] /\ s.task \in [Ids -> TaskRecord]
      /\ g \in 1..MaxGen
  <2>1. s.generations \in [Ids -> 0..MaxGen]
    BY <1>1 DEF Keyspace
  <2>2. s.generations[i] \in 0..MaxGen
    BY <2>1
  <2> QED BY <1>1, <2>1, <2>2, BoundsAssumption, TaskType
<1>3. u = [s EXCEPT !.generations = generations, !.task = task]
  BY <1>1 DEF NewRecord, Keyspace
<1>4. r \in TaskRecord /\ r.generation = g /\ r.outcome = "open" /\ r.currentList = "none"
  <2> HIDE DEF g
  <2>1. g \in 0..MaxGen
    BY <1>2
  <2> QED BY <2>1, NoTaskType DEF TaskRecord
<1> HIDE DEF r
<1>5. generations \in [Ids -> 0..MaxGen] /\ task \in [Ids -> TaskRecord]
  BY <1>2, <1>4
<1>6. /\ task[i] = r /\ \A j \in Ids \ {i} : task[j] = s.task[j]
      /\ generations[i] = g
  BY <1>2
<1> HIDE DEF generations, task
<1>7. u \in Keyspace
  BY ZenonT(60), <1>1, <1>3, <1>5 DEF Keyspace
<1>8. /\ u.task = task /\ u.generations = generations /\ u.lock = s.lock
      /\ u.wait = s.wait /\ u.scheduled = s.scheduled /\ u.active = s.active
      /\ u.success = s.success /\ u.failed = s.failed /\ u.now = s.now
  BY <1>1, <1>3 DEF Keyspace
<1>9. Listed(u)
  <2>1. IsInjective(u.wait)
    BY <1>1, <1>8 DEF Ready, Listed
  <2>2. ASSUME NEW j \in Ids, NEW l \in Lists \ {"none"}
        PROVE  InList(u, j, l) <=> Exists(u, j) /\ u.task[j].currentList = l
    <3>1. InList(u, j, l) <=> InList(s, j, l)
      BY <1>8 DEF InList
    <3>2. InList(s, j, l) <=> Exists(s, j) /\ s.task[j].currentList = l
      BY <1>1 DEF Ready, Listed
    <3>3. CASE j = i
      BY <3>1, <3>2, <3>3, <1>4, <1>6, <1>8
    <3>4. CASE j # i
      BY <3>1, <3>2, <3>4, <1>6, <1>8 DEF Exists
    <3> QED BY <3>3, <3>4
  <2> QED BY <2>1, <2>2 DEF Listed
<1>10. ~IsLocked(u, i) /\ Exists(u, i) /\ ~Settled(u, i) /\ u.task[i].currentList = "none"
  <2>1. g # 0
    BY <1>2
  <2> QED BY <1>4, <1>6, <1>8, <2>1 DEF IsLocked, Exists, Settled
<1>11. Guarded(u)
  <2> SUFFICES ASSUME NEW j \in Ids, IsLocked(u, j)
               PROVE  u.task[j].currentList = "active" /\ u.active[j] = u.lock[j].until
    BY DEF Guarded
  <2> QED BY <1>1, <1>6, <1>8, <1>10 DEF Ready, Guarded, IsLocked
<1>12. Detached(u)
  <2> SUFFICES ASSUME NEW j \in Ids, Exists(u, j), Settled(u, j)
               PROVE  ~IsLocked(u, j) /\ u.task[j].currentList # "wait"
    BY DEF Detached
  <2> QED BY <1>1, <1>6, <1>8, <1>10 DEF Ready, Detached, IsLocked, Exists, Settled
<1>13. \A j \in Ids \ {i} : PlacedAt(u, j)
  BY <1>6, <1>8, SoundAt DEF PlacedAt, Exists, Settled
<1>14. LocksKept(s, u)
  BY <1>6, <1>8, <1>10 DEF LocksKept, IsLocked
<1> QED BY <1>6, <1>7, <1>8, <1>9, <1>10, <1>11, <1>12, <1>13, <1>14 DEF Fresh, Ready

\* moveToList of one unsettled task to wait or scheduled.
LEMMA MoveOneSafe ==
    ASSUME NEW s, s \in Keyspace, Listed(s), NEW i \in Ids, NEW l \in {"wait", "scheduled"},
           NEW score \in Nat, Exists(s, i), ~Settled(s, i), ~IsLocked(s, i),
           \A j \in Ids \ {i} : GuardedAt(s, j) /\ PlacedAt(s, j),
           NEW u, u = MoveToList(s, i, l, score)
    PROVE  Safe(s, u)
<1> DEFINE S == {i}
           to == [j \in S |-> l]
           order == IF l = "wait" THEN <<i>> ELSE <<>>
<1>1. u = MoveAll(s, to, score, order)
  BY DEF MoveToList
<1>2. /\ to \in [S -> Lists] /\ order \in Seq(Ids) /\ IsInjective(order)
      /\ \A j \in Ids : Entry(order, j) <=> j \in S /\ to[j] = "wait"
  BY DEF Lists, IsInjective, Entry
<1>3. \A j \in S : Exists(s, j) /\ ~Settled(s, j) /\ ~IsLocked(s, j) /\ to[j] \notin TerminalLists
  BY DEF TerminalLists
<1>4. S \subseteq Ids /\ \A j, k \in S : j = k
  OBVIOUS
<1>5. \A j \in Ids \ S : GuardedAt(s, j) /\ PlacedAt(s, j)
  OBVIOUS
<1> HIDE DEF S, to, order
<1>6. CanMove(s, S, to, score, order)
  BY <1>2, <1>3, <1>4 DEF CanMove
<1>7. \A j \in S : ~Settled(s, j) /\ to[j] \notin TerminalLists
  BY <1>3
<1>8. \A j \in S : IsLocked(s, j) => to[j] = "active" /\ score = s.lock[j].until
  BY <1>3
<1>9. CanRequeue(s, S, to, score, order)
  BY <1>5, <1>6, <1>7, <1>8 DEF CanRequeue
<1> QED BY <1>1, <1>9, RequeueSafe

\* createTask listing its new record.
LEMMA EnqueueSafe ==
    ASSUME NEW s, NEW i \in Ids, Fresh(s, i), NEW delay \in Nat, NEW u, u = Enqueue(s, i, delay)
    PROVE  Safe(s, u)
<1>1. /\ s \in Keyspace /\ Listed(s) /\ s.now \in Nat
      /\ \A j \in Ids \ {i} : GuardedAt(s, j) /\ PlacedAt(s, j)
  BY DEF Fresh, Ready, Guarded, GuardedAt, Keyspace
<1>2. Exists(s, i) /\ ~Settled(s, i) /\ ~IsLocked(s, i)
  BY DEF Fresh
<1>3. CASE delay > 0
  <2>1. u = MoveToList(s, i, "scheduled", s.now + delay) /\ s.now + delay \in Nat
    BY <1>1, <1>3 DEF Enqueue
  <2> QED BY <1>1, <1>2, <2>1, MoveOneSafe
<1>4. CASE ~(delay > 0)
  <2>1. u = MoveToList(s, i, "wait", 0)
    BY <1>4 DEF Enqueue
  <2> QED BY <1>1, <1>2, <2>1, MoveOneSafe
<1> QED BY <1>3, <1>4

\* A keyspace stays one when a task is another one.
LEMMA TaskSetType ==
    ASSUME NEW s \in Keyspace, NEW task \in [Ids -> TaskRecord]
    PROVE  [s EXCEPT !.task = task] \in Keyspace
BY DEF Keyspace

\* A keyspace in which only the record of i is another one, of the same
\* generation and in the same list.
Retouched(s, u, i) ==
    /\ u \in Keyspace
    /\ u.wait = s.wait /\ u.scheduled = s.scheduled /\ u.active = s.active
    /\ u.success = s.success /\ u.failed = s.failed
    /\ u.lock = s.lock /\ u.retains = s.retains /\ u.now = s.now
    /\ \A j \in Ids \ {i} : u.task[j] = s.task[j]
    /\ u.task[i].generation = s.task[i].generation
    /\ u.task[i].currentList = s.task[i].currentList

\* HSET on one task's hash.
LEMMA RetouchedTask ==
    ASSUME NEW s \in Keyspace, NEW i \in Ids, NEW r \in TaskRecord,
           r.generation = s.task[i].generation, r.currentList = s.task[i].currentList,
           NEW u, u = [s EXCEPT !.task = [s.task EXCEPT ![i] = r]]
    PROVE  Retouched(s, u, i) /\ u.task[i] = r
<1> DEFINE task == [s.task EXCEPT ![i] = r]
<1>1. s.task \in [Ids -> TaskRecord]
  BY DEF Keyspace
<1>2. /\ task \in [Ids -> TaskRecord]
      /\ task[i] = r /\ \A j \in Ids \ {i} : task[j] = s.task[j]
  BY <1>1
<1>3. u = [s EXCEPT !.task = task]
  OBVIOUS
<1> HIDE DEF task
<1>4. u \in Keyspace
  <2>1. [s EXCEPT !.task = task] \in Keyspace
    BY <1>2, TaskSetType, Zenon
  <2> QED BY <1>3, <2>1
<1>5. /\ u.wait = s.wait /\ u.scheduled = s.scheduled /\ u.active = s.active
      /\ u.success = s.success /\ u.failed = s.failed
      /\ u.lock = s.lock /\ u.retains = s.retains /\ u.now = s.now /\ u.task = task
  BY <1>3 DEF Keyspace
<1> QED BY <1>2, <1>4, <1>5 DEF Retouched

\* The lists and the locks of a sound keyspace stay right around such a task.
LEMMA RetouchedReady ==
    ASSUME NEW s, Ready(s), NEW i \in Ids, ~IsLocked(s, i),
           s.task[i].currentList # "wait", NEW u, Retouched(s, u, i)
    PROVE  Ready(u) /\ LocksKept(s, u)
<1>1. \A j \in Ids : /\ u.task[j].generation = s.task[j].generation
                     /\ u.task[j].currentList = s.task[j].currentList
  BY DEF Retouched
<1>2. Listed(u)
  BY <1>1, ListedKept DEF Ready, Retouched
<1>3. Guarded(u)
  BY <1>1 DEF Ready, Guarded, IsLocked, Retouched
<1>4. Detached(u)
  <2> SUFFICES ASSUME NEW j \in Ids, Exists(u, j), Settled(u, j)
               PROVE  ~IsLocked(u, j) /\ u.task[j].currentList # "wait"
    BY DEF Detached
  <2>1. CASE j = i
    BY <2>1, <1>1 DEF Retouched, IsLocked
  <2>2. CASE j # i
    BY <2>2 DEF Ready, Detached, Retouched, Exists, Settled, IsLocked
  <2> QED BY <2>1, <2>2
<1>5. LocksKept(s, u)
  BY <1>1 DEF LocksKept, Retouched
<1> QED BY <1>2, <1>3, <1>4, <1>5 DEF Ready, Retouched

\* What a worker finds that still holds its lock: a running attempt.
LEMMA OwnedActive ==
    ASSUME NEW s, Sound(s), NEW i \in Ids, IsLocked(s, i)
    PROVE  /\ Ready(s) /\ Exists(s, i) /\ ~Settled(s, i)
           /\ s.task[i].currentList = "active"
<1>1. Ready(s)
  BY SoundReady
<1>2. Exists(s, i) /\ s.task[i].currentList = "active"
  BY <1>1, LockedExists DEF Ready
<1> QED BY <1>1, <1>2, SoundAt DEF PlacedAt, TerminalLists

\* unlock, which every settlement and every retry begin with.
LEMMA UnlockedAttempt ==
    ASSUME NEW s, Sound(s), NEW i \in Ids, IsLocked(s, i), NEW u, u = Unlock(s, {i})
    PROVE  /\ Ready(u) /\ LocksKept(s, u) /\ u.retains = s.retains
           /\ Exists(u, i) /\ ~Settled(u, i) /\ ~IsLocked(u, i)
           /\ u.task = s.task /\ u.task[i].currentList = "active" /\ u.now = s.now
           /\ \A j \in Ids : PlacedAt(u, j)
<1>1. /\ Ready(s) /\ Exists(s, i) /\ ~Settled(s, i) /\ s.task[i].currentList = "active"
  BY OwnedActive
<1>2. /\ Ready(u) /\ SameLists(s, u) /\ LocksKept(s, u)
      /\ u.retains = s.retains /\ u.now = s.now
      /\ u.lock = [j \in Ids |-> IF j \in {i} THEN NoLock ELSE s.lock[j]]
  BY <1>1, UnlockReady
<1>3. ~IsLocked(u, i)
  BY <1>2, NoLockType DEF IsLocked
<1>4. \A j \in Ids : PlacedAt(u, j)
  BY <1>2, SoundAt DEF SameLists, PlacedAt, Exists, Settled
<1> QED BY <1>1, <1>2, <1>3, <1>4 DEF SameLists, Exists, Settled

\* Settling one attempt: once its lock is gone and its outcome is set,
\* settleTask puts the task, and whatever it retained, in place.
LEMMA SettleOneSafe ==
    ASSUME NEW s, Ready(s), NEW i \in Ids, ~IsLocked(s, i), Exists(s, i),
           s.task[i].currentList = "active", \A j \in Ids : PlacedAt(s, j),
           NEW u, Retouched(s, u, i), Settled(u, i),
           NEW P, P \subseteq s.retains
    PROVE  Safe(s, SettleTask(u, {i}, P))
<1> DEFINE S == {i}
           v == SettleTask(u, S, P)
<1>1. Ready(u) /\ LocksKept(s, u)
  BY RetouchedReady
<1>2. P \subseteq u.retains
  BY DEF Retouched
<1>3. S \in SUBSET Ids /\ \A j \in S : Exists(u, j) /\ Settled(u, j)
  BY DEF Retouched, Exists
<1>4. \A j \in Ids \ S : PlacedAt(u, j)
  BY DEF Retouched, PlacedAt, Exists, Settled
<1> HIDE DEF S, v
<1>5. Ends(u, v) /\ \A j \in S : Over(u, v, j)
  BY <1>1, <1>2, <1>3, SettleTaskEnds DEF v
<1>6. \A j \in S : Exists(u, j) /\ Settled(u, j) /\ Over(u, v, j)
  BY <1>3, <1>5
<1>7. \A j \in Ids \ S : Exists(u, j) =>
              (Settled(u, j) <=> u.task[j].currentList \in TerminalLists)
  BY <1>4 DEF PlacedAt
<1>8. Safe(u, v)
  BY <1>1, <1>3, <1>5, <1>6, <1>7, EndsSound
<1>9. Safe(s, v)
  BY <1>1, <1>8, LocksKeptSafe
<1> QED BY <1>9 DEF v, S

\* writeSuccess's settlement.
LEMMA WriteSuccessSafe ==
    ASSUME NEW s, Sound(s), NEW i \in Ids, IsLocked(s, i), NEW P, P \subseteq s.retains
    PROVE  Safe(s, SettleTask([Unlock(s, {i}) EXCEPT !.task[i].outcome = "success"], {i}, P))
<1> DEFINE u == Unlock(s, {i})
           r == [u.task[i] EXCEPT !.outcome = "success"]
           v == [u EXCEPT !.task[i].outcome = "success"]
<1>1. /\ Ready(u) /\ LocksKept(s, u) /\ u.retains = s.retains
      /\ Exists(u, i) /\ ~Settled(u, i) /\ ~IsLocked(u, i)
      /\ u.task[i].currentList = "active" /\ \A j \in Ids : PlacedAt(u, j)
  BY UnlockedAttempt
<1> HIDE DEF u
<1>2. u \in Keyspace /\ u.task[i] \in TaskRecord
  BY <1>1, TaskType DEF Ready
<1>3. v = [u EXCEPT !.task = [u.task EXCEPT ![i] = r]]
  BY <1>2 DEF Keyspace
<1>4. /\ r \in TaskRecord /\ r.outcome = "success"
      /\ r.generation = u.task[i].generation /\ r.currentList = u.task[i].currentList
  BY <1>2 DEF TaskRecord, Outcomes
<1> HIDE DEF r, v
<1>5. Retouched(u, v, i) /\ v.task[i] = r
  BY <1>2, <1>3, <1>4, RetouchedTask
<1>6. Settled(v, i)
  BY <1>4, <1>5 DEF Settled
<1>7. Safe(u, SettleTask(v, {i}, P))
  BY <1>1, <1>5, <1>6, SettleOneSafe
<1>8. Safe(s, SettleTask(v, {i}, P))
  BY <1>1, <1>7, LocksKeptSafe
<1> QED BY <1>8 DEF u, v

\* writeError counting the failure.
LEMMA HandlerFailureRetouched ==
    ASSUME NEW s, Sound(s), NEW i \in Ids, IsLocked(s, i), NEW u, u = Unlock(s, {i})
    PROVE  /\ Retouched(u, HandlerFailure(s, i), i)
           /\ HandlerFailure(s, i).task[i].outcome = s.task[i].outcome
<1> DEFINE v == HandlerFailure(s, i)
           n == u.task[i].handlerFailureCount + 1
           r == [u.task[i] EXCEPT !.handlerFailureCount = n]
<1>1. Ready(u) /\ u.task = s.task
  BY UnlockedAttempt
<1>2. u \in Keyspace /\ u.task[i] \in TaskRecord
  BY <1>1, TaskType DEF Ready
<1>3. v = [u EXCEPT !.task = [u.task EXCEPT ![i] = r]]
  BY <1>2 DEF HandlerFailure, Keyspace
<1>4. n \in Nat
  BY <1>2 DEF TaskRecord
<1> HIDE DEF n
<1>5. r \in TaskRecord
  BY <1>2, <1>4 DEF TaskRecord
<1>6. /\ r.outcome = u.task[i].outcome
      /\ r.generation = u.task[i].generation /\ r.currentList = u.task[i].currentList
  BY <1>2 DEF TaskRecord
<1> HIDE DEF r, v
<1>7. Retouched(u, v, i) /\ v.task[i] = r
  BY <1>2, <1>3, <1>5, <1>6, RetouchedTask
<1> QED BY <1>1, <1>6, <1>7 DEF v

\* writeError's settlement.
LEMMA WriteErrorTerminalSafe ==
    ASSUME NEW s, Sound(s), NEW i \in Ids, IsLocked(s, i), NEW P, P \subseteq s.retains
    PROVE  Safe(s, SettleTask([HandlerFailure(s, i) EXCEPT !.task[i].outcome = "failure"], {i}, P))
<1> DEFINE u == Unlock(s, {i})
           h == HandlerFailure(s, i)
           r == [h.task[i] EXCEPT !.outcome = "failure"]
           v == [h EXCEPT !.task[i].outcome = "failure"]
<1>1. /\ Ready(u) /\ LocksKept(s, u) /\ u.retains = s.retains
      /\ Exists(u, i) /\ ~Settled(u, i) /\ ~IsLocked(u, i)
      /\ u.task[i].currentList = "active" /\ \A j \in Ids : PlacedAt(u, j)
  BY UnlockedAttempt
<1>2. Retouched(u, h, i)
  BY HandlerFailureRetouched
<1> HIDE DEF u, h
<1>3. h \in Keyspace /\ h.task[i] \in TaskRecord
  BY <1>2, TaskType DEF Retouched
<1>4. v = [h EXCEPT !.task = [h.task EXCEPT ![i] = r]]
  BY <1>3 DEF Keyspace
<1>5. /\ r \in TaskRecord /\ r.outcome = "failure"
      /\ r.generation = h.task[i].generation /\ r.currentList = h.task[i].currentList
  BY <1>3 DEF TaskRecord, Outcomes
<1> HIDE DEF r, v
<1>6. Retouched(h, v, i) /\ v.task[i] = r
  BY <1>3, <1>4, <1>5, RetouchedTask
<1>7. Retouched(u, v, i)
  BY <1>2, <1>6 DEF Retouched
<1>8. Settled(v, i)
  BY <1>5, <1>6 DEF Settled
<1>9. Safe(u, SettleTask(v, {i}, P))
  BY <1>1, <1>7, <1>8, SettleOneSafe
<1>10. Safe(s, SettleTask(v, {i}, P))
  BY <1>1, <1>9, LocksKeptSafe
<1> QED BY <1>10 DEF h, v

\* writeError's retry.
LEMMA WriteErrorRetrySafe ==
    ASSUME NEW s, Sound(s), NEW i \in Ids, IsLocked(s, i), NEW l \in {"wait", "scheduled"},
           NEW score \in Nat
    PROVE  Safe(s, MoveToList(HandlerFailure(s, i), i, l, score))
<1> DEFINE u == Unlock(s, {i})
           h == HandlerFailure(s, i)
<1>1. /\ Ready(u) /\ LocksKept(s, u) /\ u.task = s.task
      /\ Exists(u, i) /\ ~Settled(u, i) /\ ~IsLocked(u, i)
      /\ u.task[i].currentList = "active" /\ \A j \in Ids : PlacedAt(u, j)
  BY UnlockedAttempt
<1>2. Retouched(u, h, i) /\ h.task[i].outcome = s.task[i].outcome
  BY HandlerFailureRetouched
<1> HIDE DEF u, h
<1>3. Ready(h) /\ LocksKept(u, h)
  BY <1>1, <1>2, RetouchedReady
<1>4. Exists(h, i) /\ ~Settled(h, i) /\ ~IsLocked(h, i)
  BY <1>1, <1>2 DEF Retouched, Exists, Settled, IsLocked
<1>5. \A j \in Ids \ {i} : GuardedAt(h, j) /\ PlacedAt(h, j)
  BY <1>1, <1>2, <1>3 DEF Ready, Guarded, GuardedAt, Retouched, PlacedAt, Exists, Settled
<1>6. h \in Keyspace /\ Listed(h)
  BY <1>3 DEF Ready
<1>7. Safe(h, MoveToList(h, i, l, score))
  BY <1>4, <1>5, <1>6, MoveOneSafe
<1>8. Safe(u, MoveToList(h, i, l, score))
  BY <1>3, <1>7, LocksKeptSafe
<1>9. Safe(s, MoveToList(h, i, l, score))
  BY <1>1, <1>8, LocksKeptSafe
<1> QED BY <1>9 DEF h

\* removeTask: the holds of the task are released, then it goes.
LEMMA RemoveTaskSafe ==
    ASSUME NEW s, Sound(s), NEW i \in Ids, ~IsLocked(s, i), NEW P, P \subseteq s.retains
    PROVE  Safe(s, DeleteAll(ReleaseOwnedHolds(s, {Current(s, i)}, P), {i}))
<1> DEFINE u == ReleaseOwnedHolds(s, {Current(s, i)}, P)
           v == DeleteAll(u, {i})
<1>1. Ends(s, u)
  BY SoundReady, ReleaseOwnedHoldsEnds
<1>2. Safe(s, u)
  BY <1>1, EndsSafe
<1> HIDE DEF u
<1>3. Sound(u) /\ Ready(u) /\ ~IsLocked(u, i)
  BY <1>1, <1>2, SoundReady DEF Safe, Ends, SameBase, IsLocked
<1>4. Deleted(u, v, {i})
  BY <1>3, DeleteOne
<1> HIDE DEF v
<1>5. Safe(u, v)
  BY <1>3, <1>4, DeletedSafe, SoundAt
<1>6. Safe(s, v)
  BY <1>2, <1>5, SafeTransitive
<1> QED BY <1>6 DEF u, v

\* What forceRemoveTask erases under the member is in no list.
LEMMA ForgetSafe ==
    ASSUME NEW s, Sound(s), NEW m \in Members
    PROVE  Safe(s, Forget(s, m)) /\ Forget(s, m).lock = s.lock
<1> DEFINE retainedBy == {p \in s.retainedBy : p[1] # m}
           result == {r \in s.result : r[1] # m}
           deadLetter == s.deadLetter \ {m}
           Cleared(index) == [index EXCEPT ![m] = Out]
           taskExpiry == Cleared(s.taskExpiry)
           resultExpiry == Cleared(s.resultExpiry)
           terminalExpiry == Cleared(s.terminalExpiry)
           deadLetterExpiry == Cleared(s.deadLetterExpiry)
           u == Forget(s, m)
<1>1. s \in Keyspace
  BY DEF Sound
<1>2. /\ s.retainedBy \in SUBSET (Members \X Members)
      /\ s.result \in SUBSET (Members \X Outcomes) /\ s.deadLetter \in SUBSET Members
      /\ s.taskExpiry \in [Members -> Score] /\ s.resultExpiry \in [Members -> Score]
      /\ s.terminalExpiry \in [Members -> Score] /\ s.deadLetterExpiry \in [Members -> Score]
  BY <1>1 DEF Keyspace
<1>3. /\ retainedBy \in SUBSET (Members \X Members)
      /\ result \in SUBSET (Members \X Outcomes) /\ deadLetter \in SUBSET Members
  BY <1>2
<1>4. /\ taskExpiry \in [Members -> Score] /\ resultExpiry \in [Members -> Score]
      /\ terminalExpiry \in [Members -> Score] /\ deadLetterExpiry \in [Members -> Score]
  BY <1>2 DEF Score
<1>5. u = [s EXCEPT !.retainedBy = retainedBy, !.result = result,
                    !.taskExpiry = taskExpiry, !.resultExpiry = resultExpiry,
                    !.terminalExpiry = terminalExpiry, !.deadLetter = deadLetter,
                    !.deadLetterExpiry = deadLetterExpiry]
  BY <1>1 DEF Forget, Keyspace
<1> HIDE DEF retainedBy, result, deadLetter, Cleared, taskExpiry, resultExpiry,
             terminalExpiry, deadLetterExpiry, u
<1>6. u \in Keyspace
  BY <1>1, <1>3, <1>4, <1>5 DEF Keyspace
<1>7. SameLists(s, u) /\ u.lock = s.lock
  BY <1>1, <1>5 DEF Keyspace, SameLists
<1> QED BY <1>6, <1>7, SameListsSafe DEF u

\* forceRemoveTask, which breaks the lock first.
LEMMA ForceRemoveTaskSafe ==
    ASSUME NEW s, Sound(s), NEW i \in Ids, Exists(s, i), NEW P, P \subseteq s.retains
    PROVE  LET m == Current(s, i)
           IN Safe(s, DeleteAll(Forget(ReleaseOwnedHolds(Unlock(s, {i}), {m}, P), m), {i}))
<1> DEFINE m == Current(s, i)
           u == Unlock(s, {i})
           v == ReleaseOwnedHolds(u, {m}, P)
           w == Forget(v, m)
           y == DeleteAll(w, {i})
<1>1. m \in Members
  BY CurrentType DEF Sound
<1>2. Ready(s)
  BY SoundReady
<1>3. /\ Ready(u) /\ SameLists(s, u) /\ LocksKept(s, u) /\ u.retains = s.retains
      /\ u.lock = [j \in Ids |-> IF j \in {i} THEN NoLock ELSE s.lock[j]]
  BY <1>2, UnlockReady
<1> HIDE DEF m, u
<1>4. \A j \in Ids : PlacedAt(u, j)
  BY <1>3, SoundAt DEF SameLists, PlacedAt, Exists, Settled
<1>5. Safe(s, u)
  BY <1>3, <1>4, ReadySound DEF Safe
<1>6. Ends(u, v)
  BY <1>3, ReleaseOwnedHoldsEnds
<1>7. Safe(u, v)
  BY <1>5, <1>6, EndsSafe DEF Safe
<1> HIDE DEF v
<1>8. Safe(v, w) /\ w.lock = v.lock
  BY <1>1, <1>7, ForgetSafe DEF Safe
<1> HIDE DEF w
<1>9. ~IsLocked(w, i)
  BY <1>3, <1>6, <1>8, NoLockType DEF Ends, SameBase, IsLocked
<1>10. Sound(w) /\ Ready(w)
  BY <1>8, SoundReady DEF Safe
<1>11. Deleted(w, y, {i})
  BY <1>9, <1>10, DeleteOne
<1> HIDE DEF y
<1>12. Safe(w, y)
  BY <1>9, <1>10, <1>11, DeletedSafe, SoundAt
<1>13. Safe(s, y)
  BY <1>5, <1>7, <1>8, <1>12, SafeTransitive
<1> QED BY <1>13 DEF m, u, v, w, y

\* A keyspace stays one when its locks are other ones.
LEMMA LockSetType ==
    ASSUME NEW s \in Keyspace, NEW lock \in [Ids -> Lock]
    PROVE  [s EXCEPT !.lock = lock] \in Keyspace
BY DEF Keyspace

\* extendLock: the lock and the score of the running attempt move together.
LEMMA ExtendLockSafe ==
    ASSUME NEW s, Sound(s), NEW i \in Ids, IsLocked(s, i), NEW until \in Nat
    PROVE  Safe(s, MoveToList([s EXCEPT !.lock[i].until = until], i, "active", until))
<1> DEFINE u == [s EXCEPT !.lock[i].until = until]
           r == [s.lock[i] EXCEPT !.until = until]
           lock == [s.lock EXCEPT ![i] = r]
           S == {i}
           to == [j \in S |-> "active"]
           v == MoveAll(u, to, until, <<>>)
<1>1. s \in Keyspace /\ s.lock \in [Ids -> Lock]
  BY DEF Sound, Keyspace
<1>2. Exists(s, i) /\ ~Settled(s, i) /\ s.task[i].currentList = "active"
  BY OwnedActive
<1>3. r \in Lock /\ r.token = s.lock[i].token /\ r.until = until
  BY <1>1 DEF Lock
<1>4. u = [s EXCEPT !.lock = lock]
  BY <1>1 DEF Keyspace
<1> HIDE DEF r, u
<1>5. /\ lock \in [Ids -> Lock] /\ lock[i] = r
      /\ \A j \in Ids \ {i} : lock[j] = s.lock[j]
  BY <1>1, <1>3
<1> HIDE DEF lock
<1>6. u \in Keyspace
  <2>1. [s EXCEPT !.lock = lock] \in Keyspace
    BY <1>1, <1>5, LockSetType, Zenon
  <2> QED BY <1>4, <2>1
<1>7. SameLists(s, u) /\ u.lock = lock
  BY <1>1, <1>4 DEF Keyspace, SameLists
<1>8. Listed(u)
  BY <1>7, ListedKept DEF Sound, SameLists
<1>9. \A j \in Ids \ S : GuardedAt(u, j) /\ PlacedAt(u, j)
  BY <1>5, <1>7, SoundAt DEF SameLists, GuardedAt, PlacedAt, IsLocked, Exists, Settled
<1>10. LocksKept(s, u)
  BY <1>3, <1>5, <1>7 DEF SameLists, LocksKept
<1>11. \A j \in S : /\ Exists(u, j) /\ ~Settled(u, j) /\ u.task[j].currentList = "active"
                    /\ to[j] = "active" /\ u.lock[j].until = until
  BY <1>2, <1>3, <1>5, <1>7 DEF SameLists, Exists, Settled
<1>12. CanMove(u, S, to, until, <<>>)
  <2>1. to \in [S -> Lists] /\ <<>> \in Seq(Ids) /\ S \subseteq Ids
    BY DEF Lists
  <2>2. IsInjective(<<>>) /\ \A j \in Ids : ~Entry(<<>>, j)
    BY DEF IsInjective, Entry
  <2> HIDE DEF S, to
  <2> QED BY <1>6, <1>11, <2>1, <2>2 DEF CanMove
<1>13. CanRequeue(u, S, to, until, <<>>)
  <2> HIDE DEF S, to
  <2> QED BY <1>8, <1>9, <1>11, <1>12 DEF CanRequeue, TerminalLists
<1>14. MoveToList(u, i, "active", until) = v
  BY DEF MoveToList
<1> HIDE DEF S, to, v
<1>15. Safe(u, v)
  BY <1>13, RequeueSafe DEF v
<1>16. Safe(s, v)
  BY <1>10, <1>15, LocksKeptSafe
<1> QED BY <1>14, <1>16 DEF u

\* removeLock: the attempt is given up and its task waits again.
LEMMA RemoveLockSafe ==
    ASSUME NEW s, Sound(s), NEW i \in Ids, IsLocked(s, i)
    PROVE  Safe(s, MoveToList(Unlock(s, {i}), i, "wait", 0))
<1> DEFINE u == Unlock(s, {i})
<1>1. /\ Ready(u) /\ LocksKept(s, u)
      /\ Exists(u, i) /\ ~Settled(u, i) /\ ~IsLocked(u, i)
      /\ \A j \in Ids : PlacedAt(u, j)
  BY UnlockedAttempt
<1> HIDE DEF u
<1>2. /\ u \in Keyspace /\ Listed(u)
      /\ \A j \in Ids \ {i} : GuardedAt(u, j) /\ PlacedAt(u, j)
  BY <1>1 DEF Ready, Guarded, GuardedAt
<1>3. Safe(u, MoveToList(u, i, "wait", 0))
  BY <1>1, <1>2, MoveOneSafe
<1>4. Safe(s, MoveToList(u, i, "wait", 0))
  BY <1>1, <1>3, LocksKeptSafe
<1> QED BY <1>4 DEF u

\* The first task in wait is waiting: nobody works on it.
LEMMA HeadOfWait ==
    ASSUME NEW s, Sound(s), s.wait # <<>>, NEW i, i = Head(s.wait)
    PROVE  /\ i \in Ids /\ Exists(s, i) /\ ~Settled(s, i) /\ ~IsLocked(s, i)
           /\ s.task[i].currentList = "wait"
<1>1. s.wait \in Seq(Ids)
  BY DEF Sound, Keyspace
<1>2. i \in Ids /\ Entry(s.wait, i)
  BY <1>1 DEF Entry
<1>3. Exists(s, i) /\ s.task[i].currentList = "wait"
  BY <1>2 DEF Sound, Listed, InList, Entry, Lists
<1> QED BY <1>2, <1>3, SoundAt DEF GuardedAt, PlacedAt, TerminalLists

\* lockTask: the task becomes active under a lock with the same deadline.
LEMMA LockTaskSound ==
    ASSUME NEW s, Sound(s), NEW i \in Ids, Exists(s, i), ~Settled(s, i), ~IsLocked(s, i),
           NEW k \in 0..MaxLeases, NEW t \in Nat, NEW u, u = LockTask(s, i, k, t)
    PROVE  /\ Sound(u)
           /\ u.lock[i].token = k
           /\ \A j \in Ids \ {i} : u.lock[j] = s.lock[j]
           /\ \A j \in Ids : u.task[j].generation = s.task[j].generation
<1> DEFINE S == {i}
           to == [j \in S |-> "active"]
           score == s.now + t
           v == MoveAll(s, to, score, <<>>)
           n == v.task[i].attempt + 1
           r == [v.task[i] EXCEPT !.attempt = n]
           task == [v.task EXCEPT ![i] = r]
           d == [token |-> k, until |-> score]
           lock == [v.lock EXCEPT ![i] = d]
<1>1. s \in Keyspace /\ Listed(s) /\ score \in Nat
  BY DEF Sound, Keyspace
<1>2. \A j \in S : Exists(s, j) /\ ~Settled(s, j) /\ ~IsLocked(s, j) /\ to[j] = "active"
  OBVIOUS
<1>3. CanMove(s, S, to, score, <<>>)
  <2>1. to \in [S -> Lists] /\ <<>> \in Seq(Ids) /\ S \subseteq Ids /\ \A j, l \in S : j = l
    BY DEF Lists
  <2>2. IsInjective(<<>>) /\ \A j \in Ids : ~Entry(<<>>, j)
    BY DEF IsInjective, Entry
  <2> HIDE DEF S, to, score
  <2> QED BY <1>1, <1>2, <2>1, <2>2 DEF CanMove
<1>4. CanRequeue(s, S, to, score, <<>>)
  <2> HIDE DEF S, to, score
  <2> QED BY <1>1, <1>2, <1>3, SoundAt DEF CanRequeue, TerminalLists
<1>5. /\ Safe(s, v) /\ v.lock = s.lock
      /\ v.task = [j \in Ids |->
            IF j \in S THEN [s.task[j] EXCEPT !.currentList = to[j]] ELSE s.task[j]]
      /\ \A j \in Ids : v.active[j] = IF j \in S
            THEN IF to[j] = "active" THEN score ELSE Out ELSE s.active[j]
  <2> HIDE DEF S, to, score
  <2> QED BY <1>4, MoveWorking
<1>6. u = [v EXCEPT !.task[i].attempt = @ + 1, !.lock[i] = d]
  BY DEF LockTask, MoveToList
<1>7. v.task[i] = [s.task[i] EXCEPT !.currentList = "active"] /\ v.active[i] = score
  BY <1>5
<1>8. \A j \in Ids \ {i} : v.task[j] = s.task[j] /\ v.active[j] = s.active[j]
  BY <1>5
<1> HIDE DEF v
<1>9. v \in Keyspace /\ Listed(v)
  BY <1>5 DEF Safe, Sound
<1>10. u = [v EXCEPT !.task = task, !.lock = lock]
  BY <1>6, <1>9 DEF Keyspace
<1>11. v.task \in [Ids -> TaskRecord] /\ v.lock \in [Ids -> Lock] /\ v.task[i] \in TaskRecord
  BY <1>9 DEF Keyspace
<1>12. s.task[i] \in TaskRecord /\ "active" \in Lists
  BY <1>1, TaskType DEF Lists
<1>13. /\ v.task[i].currentList = "active"
       /\ v.task[i].generation = s.task[i].generation
       /\ v.task[i].outcome = s.task[i].outcome
  BY <1>7, <1>12, Relisted
<1>14. n \in Nat
  BY <1>11 DEF TaskRecord
<1> HIDE DEF n
<1>15. /\ r \in TaskRecord /\ r.currentList = "active"
       /\ r.generation = s.task[i].generation /\ r.outcome = s.task[i].outcome
  BY <1>11, <1>13, <1>14 DEF TaskRecord
<1>16. d \in Lock /\ d.token = k /\ d.until = score
  BY <1>1 DEF Lock
<1> HIDE DEF r, d
<1>17. /\ task \in [Ids -> TaskRecord] /\ lock \in [Ids -> Lock]
       /\ task[i] = r /\ lock[i] = d
       /\ \A j \in Ids \ {i} : task[j] = s.task[j] /\ lock[j] = s.lock[j]
  BY <1>5, <1>8, <1>11, <1>15, <1>16
<1> HIDE DEF task, lock
<1>18. u \in Keyspace
  <2>1. [v EXCEPT !.task = task, !.lock = lock] \in Keyspace
    BY <1>9, <1>17, TaskLockType, Zenon
  <2> QED BY <1>10, <2>1
<1>19. /\ u.task = task /\ u.lock = lock
       /\ u.wait = v.wait /\ u.scheduled = v.scheduled /\ u.active = v.active
       /\ u.success = v.success /\ u.failed = v.failed
  BY <1>9, <1>10 DEF Keyspace
<1>20. Listed(u)
  <2>1. \A j \in Ids : /\ u.task[j].generation = v.task[j].generation
                       /\ u.task[j].currentList = v.task[j].currentList
    BY <1>8, <1>13, <1>15, <1>17, <1>19
  <2> QED BY <1>9, <1>19, <2>1, ListedKept
<1>21. ASSUME NEW j \in Ids PROVE GuardedAt(u, j) /\ PlacedAt(u, j)
  <2>1. CASE j = i
    BY <2>1, <1>7, <1>15, <1>16, <1>17, <1>19
       DEF GuardedAt, PlacedAt, Settled, TerminalLists
  <2>2. CASE j # i
    BY <2>2, <1>8, <1>17, <1>19, SoundAt
       DEF GuardedAt, PlacedAt, IsLocked, Exists, Settled
  <2> QED BY <2>1, <2>2
<1>22. Sound(u)
  BY <1>18, <1>20, <1>21 DEF Sound, Guarded, GuardedAt, Placed, PlacedAt, TerminalLists
<1>23. \A j \in Ids : u.task[j].generation = s.task[j].generation
  BY <1>15, <1>17, <1>19
<1> QED BY <1>16, <1>17, <1>19, <1>22, <1>23

\* A refused offer: the record goes and the generation number is taken back.
LEMMA TakeBackSafe ==
    ASSUME NEW s, NEW i \in Ids, Fresh(s, i), s.generations[i] > 0, NEW old, NEW h
    PROVE  Safe(s, TakeBack(s, old, i, h))
<1> DEFINE u == DeleteAll(s, {i})
           g == s.generations[i] - 1
           generations == [u.generations EXCEPT ![i] = g]
           v == TakeBack(s, old, i, h)
<1>1. /\ Ready(s) /\ ~IsLocked(s, i) /\ \A j \in Ids \ {i} : PlacedAt(s, j)
  BY DEF Fresh
<1>2. Deleted(s, u, {i})
  BY <1>1, DeleteOne
<1>3. Safe(s, u)
  BY <1>1, <1>2, DeletedSafe
<1> HIDE DEF u
<1>4. u \in Keyspace /\ u.generations = s.generations
  BY <1>2 DEF Deleted, Ready, SameBase
<1>5. u.generations \in [Ids -> 0..MaxGen]
  BY <1>4 DEF Keyspace
<1>6. g \in 0..MaxGen
  BY <1>4, <1>5, BoundsAssumption
<1>7. v = [u EXCEPT !.generations = generations]
  BY <1>4 DEF TakeBack, u, Keyspace
<1> HIDE DEF g
<1>8. generations \in [Ids -> 0..MaxGen]
  BY <1>5, <1>6
<1> HIDE DEF generations, v
<1>9. v \in Keyspace /\ SameLists(u, v) /\ v.lock = u.lock
  BY ZenonT(60), <1>4, <1>7, <1>8 DEF Keyspace, SameLists
<1>10. Safe(u, v)
  BY <1>3, <1>9, SameListsSafe DEF Safe
<1>11. Safe(s, v)
  BY <1>3, <1>10, SafeTransitive
<1> QED BY <1>11 DEF v

\* acquireRetentionHold on a record that createTask has just made.
LEMMA AcquireFresh ==
    ASSUME NEW s, NEW i \in Ids, Fresh(s, i), NEW h \in Members, NEW m \in Members,
           NEW u, u = AcquireRetentionHold(s, h, m)
    PROVE  Fresh(u, i) /\ LocksKept(s, u)
<1>1. u \in Keyspace /\ SameLists(s, u) /\ SameBase(s, u)
  BY AcquireRetentionHoldType DEF Fresh, Ready
<1>2. Ready(u)
  BY <1>1, SameListsReady DEF Fresh, SameBase
<1>3. LocksKept(s, u)
  BY <1>1 DEF SameLists, SameBase, LocksKept
<1> QED BY <1>1, <1>2, <1>3 DEF Fresh, SameLists, SameBase, PlacedAt, Exists, Settled, IsLocked

-----------------------------------------------------------------------------
(* The invariant. *)

\* The token of a lock names the last attempt that was handed out for the
\* task, and that attempt is of the stored generation.
Fenced(s, L) ==
    \A i \in Ids : IsLocked(s, i) =>
        LET k == s.lock[i].token
        IN /\ k \in DOMAIN L
           /\ L[k] = Current(s, i)
           /\ \A n \in DOMAIN L : n > k => L[n][1] # i

\* ExactlyOneIndex and LeaseBacked are kept together: removeFromCurrentLists
\* can trust currentList because of the one, and the owner of a lock finds its
\* task active, unsettled and of its generation only because of both.
Inv == Sound(db) /\ leases \in Seq(Members) /\ Fenced(db, leases)

\* Fencing survives a step that takes no lock.
LEMMA FencedKept ==
    ASSUME NEW s, NEW u, NEW L, Fenced(s, L), LocksKept(s, u)
    PROVE  Fenced(u, L)
BY DEF Fenced, LocksKept, IsLocked, Current

\* An operation that hands out no attempt.
LEMMA SafeInv ==
    ASSUME Inv, NEW s, Safe(db, s), Safe(s, db'), UNCHANGED leases
    PROVE  Inv'
<1>1. Safe(db, db')
  BY SafeTransitive
<1>2. Fenced(db', leases)
  BY <1>1, FencedKept DEF Safe, Inv
<1> QED BY <1>1, <1>2 DEF Safe, Inv

\* Doing nothing is safe.
LEMMA SafeRefl == ASSUME NEW s, Sound(s) PROVE Safe(s, s)
BY DEF Safe, LocksKept

\* What the token of a worker that still owns its lock says.
LEMMA OwnsLocked ==
    ASSUME NEW s, leases \in Seq(Members), NEW k \in DOMAIN leases, Owns(s, k)
    PROVE  leases[k][1] \in Ids /\ IsLocked(s, leases[k][1])
<1>1. k \in 1..Len(leases) /\ leases[k] \in Members
  OBVIOUS
<1> QED BY <1>1 DEF Owns, IsLockedBy, IsLocked, Members

\* An empty keyspace satisfies the invariant.
LEMMA InitInv == Init => Inv
<1> SUFFICES ASSUME Init PROVE Inv
  OBVIOUS
<1> DEFINE s == EmptyKeyspace
<1>1. 0 \in 0..MaxGen /\ 0 \in 0..MaxLeases /\ Out \in Score /\ NoTask \in TaskRecord
  BY BoundsAssumption, NoTaskType DEF Score
<1>2. NoLock \in Lock
  BY NoLockType
<1>3. EmptyKeyspace \in Keyspace
  BY <1>1, <1>2 DEF EmptyKeyspace, Keyspace
<1>4. Listed(s)
  BY NoTaskType DEF EmptyKeyspace, Listed, InList, Exists, IsInjective, Lists
<1>5. Guarded(s) /\ Placed(s) /\ Fenced(s, leases)
  BY NoTaskType, NoLockType DEF EmptyKeyspace, Guarded, Placed, Fenced, IsLocked, Exists
<1> QED BY <1>3, <1>4, <1>5 DEF Init, Inv, Sound

\* The operations that start with a sweep, one by one.
LEMMA SweepingInv ==
    ASSUME Inv, NEW x \in SyncAll(db), Sweeping(x)
    PROVE  Inv'
<1> DEFINE s == x.db
<1>1. Safe(db, s)
  BY SyncAllSafe DEF Inv
<1>2. Sound(s) /\ s \in Keyspace
  BY <1>1 DEF Safe, Sound
<1> HIDE DEF s
<1>3. CASE Maintain(x)
  <2>1. Safe(s, db') /\ UNCHANGED leases
    BY <1>2, <1>3, SafeRefl DEF Maintain, s
  <2> QED BY <1>1, <2>1, SafeInv
<1>4. ASSUME NEW i \in Ids, NEW c \in Configs, NEW d \in Delays, OfferNew(x, i, c, d)
      PROVE  Inv'
  <2> DEFINE u == Replaced(s, i)
             v == NewRecord(u, i, c)
  <2>1. /\ Replaceable(s, i) /\ s.generations[i] < MaxGen
        /\ db' = Enqueue(v, i, d) /\ UNCHANGED leases
    BY <1>4 DEF OfferNew, s
  <2>2. /\ Safe(s, u) /\ ~Exists(u, i) /\ ~IsLocked(u, i)
        /\ u.generations = s.generations
    BY <1>2, <2>1, ReplacedSafe
  <2> HIDE DEF u
  <2>3. Fresh(v, i) /\ LocksKept(u, v)
    BY <2>1, <2>2, NewRecordFresh DEF Safe
  <2> HIDE DEF v
  <2>4. d \in Nat
    BY DurationsAssumption
  <2>5. Safe(v, db')
    BY <2>1, <2>3, <2>4, EnqueueSafe
  <2>6. Safe(s, db')
    BY <2>2, <2>3, <2>5, LocksKeptSafe, SafeTransitive
  <2> QED BY <1>1, <2>1, <2>6, SafeInv
<1>5. ASSUME NEW i \in Ids, NEW h \in Members, OfferExisting(x, i, h)
      PROVE  Inv'
  <2>1. /\ Exists(s, i) /\ db' = AcquireRetentionHold(s, h, Current(s, i))
        /\ UNCHANGED leases
    BY <1>5 DEF OfferExisting, s
  <2>2. Current(s, i) \in Members
    BY <1>2, <2>1, CurrentType
  <2>3. db' \in Keyspace /\ SameLists(s, db') /\ SameBase(s, db')
    BY <1>2, <2>1, <2>2, AcquireRetentionHoldType
  <2>4. Safe(s, db')
    BY <1>2, <2>3, SameListsSafe DEF SameBase
  <2> QED BY <1>1, <2>1, <2>4, SafeInv
<1>6. ASSUME NEW i \in Ids, NEW h \in Members, NEW c \in Configs, NEW d \in Delays,
             OfferHeld(x, i, c, d, h)
      PROVE  Inv'
  <2> DEFINE old == Replaced(s, i)
             new == NewRecord(old, i, c)
             m == Current(new, i)
             held == AcquireRetentionHold(new, h, m)
  <2>1. /\ Replaceable(s, i) /\ s.generations[i] < MaxGen
        /\ \/ db' = Enqueue(held, i, d)
           \/ db' = TakeBack(new, old, i, h)
        /\ UNCHANGED leases
    BY <1>6 DEF OfferHeld, s
  <2>2. /\ Safe(s, old) /\ ~Exists(old, i) /\ ~IsLocked(old, i)
        /\ old.generations = s.generations
    BY <1>2, <2>1, ReplacedSafe
  <2> HIDE DEF old
  <2>3. /\ Fresh(new, i) /\ LocksKept(old, new)
        /\ new.generations[i] = old.generations[i] + 1
    BY <2>1, <2>2, NewRecordFresh DEF Safe
  <2>4. new.generations[i] > 0
    <3>1. old.generations[i] \in 0..MaxGen
      BY <2>2 DEF Safe, Sound, Keyspace
    <3> QED BY <2>3, <3>1
  <2> HIDE DEF new
  <2>5. m \in Members
    BY <2>3, CurrentType DEF Fresh, Ready
  <2>6. d \in Nat
    BY DurationsAssumption
  <2> HIDE DEF m, held
  <2>7. CASE db' = Enqueue(held, i, d)
    <3>1. Fresh(held, i) /\ LocksKept(new, held)
      BY <2>3, <2>5, AcquireFresh DEF held
    <3>2. Safe(held, db')
      BY <2>6, <2>7, <3>1, EnqueueSafe
    <3> QED BY <3>1, <3>2, <1>1, <2>1, <2>2, <2>3, LocksKeptSafe, SafeTransitive, SafeInv
  <2>8. CASE db' = TakeBack(new, old, i, h)
    <3>1. Safe(new, db')
      BY <2>3, <2>4, <2>8, TakeBackSafe
    <3> QED BY <3>1, <1>1, <2>1, <2>2, <2>3, LocksKeptSafe, SafeTransitive, SafeInv
  <2> QED BY <2>1, <2>7, <2>8
<1>7. ASSUME NEW t \in LockTimeouts, TakeTask(x, t)
      PROVE  Inv'
  <2> DEFINE i == Head(s.wait)
             k == Len(leases) + 1
  <2>1. s.wait # <<>> /\ Len(leases) < MaxLeases
    BY <1>7 DEF TakeTask, s
  <2>2. /\ i \in Ids /\ Exists(s, i) /\ ~Settled(s, i) /\ ~IsLocked(s, i)
    BY <1>2, <2>1, HeadOfWait
  <2>3. db' = LockTask(s, i, k, t) /\ leases' = Append(leases, Current(s, i))
    BY <1>7, <2>2 DEF TakeTask, s
  <2>4. leases \in Seq(Members) /\ Fenced(s, leases)
    BY <1>1, FencedKept DEF Inv, Safe
  <2>5. Len(leases) \in Nat /\ k \in 0..MaxLeases /\ k # 0 /\ t \in Nat
    BY <2>1, <2>4, BoundsAssumption, DurationsAssumption
  <2>6. Current(s, i) \in Members /\ Current(s, i)[1] = i
    BY <1>2, <2>2, CurrentType DEF Current
  <2> HIDE DEF i
  <2>7. /\ Sound(db')
        /\ db'.lock[i].token = k
        /\ \A j \in Ids \ {i} : db'.lock[j] = s.lock[j]
        /\ \A j \in Ids : db'.task[j].generation = s.task[j].generation
    BY <1>2, <2>2, <2>3, <2>5, LockTaskSound
  <2>8. /\ leases' \in Seq(Members) /\ Len(leases') = k
        /\ leases'[k] = Current(s, i)
        /\ \A n \in DOMAIN leases : n \in DOMAIN leases' /\ leases'[n] = leases[n] /\ n < k
        /\ \A n \in DOMAIN leases' : n = k \/ n \in DOMAIN leases
        /\ k \in DOMAIN leases'
    BY <2>3, <2>4, <2>5, <2>6
  <2>9. Fenced(db', leases')
    <3> SUFFICES ASSUME NEW j \in Ids, IsLocked(db', j)
                 PROVE  LET l == db'.lock[j].token
                        IN /\ l \in DOMAIN leases'
                           /\ leases'[l] = Current(db', j)
                           /\ \A n \in DOMAIN leases' : n > l => leases'[n][1] # j
      BY DEF Fenced
    <3> HIDE DEF k
    <3>1. CASE j = i
      <4>1. Current(db', i) = Current(s, i)
        BY <2>2, <2>7 DEF Current
      <4>2. \A n \in DOMAIN leases' : ~(n > k)
        <5>1. k \in Nat /\ DOMAIN leases' \subseteq Nat
          BY <2>5, <2>8
        <5> QED BY <5>1, <2>8
      <4> QED BY <3>1, <4>1, <4>2, <2>7, <2>8
    <3>2. CASE j # i
      <4>1. IsLocked(s, j) /\ db'.lock[j] = s.lock[j] /\ Current(db', j) = Current(s, j)
        BY <3>2, <2>7 DEF IsLocked, Current
      <4>2. leases'[k][1] # j
        BY <3>2, <2>6, <2>8
      <4> QED BY <4>1, <4>2, <2>4, <2>8 DEF Fenced
    <3> QED BY <3>1, <3>2
  <2> QED BY <2>7, <2>8, <2>9 DEF Inv
<1>8. ASSUME NEW k \in DOMAIN leases, WriteSuccess(x, k)
      PROVE  Inv'
  <2> DEFINE i == leases[k][1]
  <2>1. /\ Owns(s, k) /\ UNCHANGED leases
        /\ \E P \in Pops(s, {Current(s, i)}, x.left) :
              db' = SettleTask([Unlock(s, {i}) EXCEPT !.task[i].outcome = "success"], {i}, P)
    BY <1>8 DEF WriteSuccess, s
  <2>2. PICK P \in Pops(s, {Current(s, i)}, x.left) :
              db' = SettleTask([Unlock(s, {i}) EXCEPT !.task[i].outcome = "success"], {i}, P)
    BY <2>1
  <2>3. P \subseteq s.retains
    BY DEF Pops
  <2>4. i \in Ids /\ IsLocked(s, i)
    BY <2>1, OwnsLocked DEF Inv
  <2> HIDE DEF i
  <2>5. Safe(s, db')
    BY <1>2, <2>2, <2>3, <2>4, WriteSuccessSafe
  <2> QED BY <1>1, <2>1, <2>5, SafeInv
<1>9. ASSUME NEW k \in DOMAIN leases, NEW d \in RetryDelays,
             WriteErrorRetry(x, k, x.db.now + d)
      PROVE  Inv'
  <2> DEFINE i == leases[k][1]
             u == HandlerFailure(s, i)
             retryAt == s.now + d
  <2>1. /\ Owns(s, k) /\ UNCHANGED leases
        /\ \/ db' = MoveToList(u, i, "scheduled", retryAt)
           \/ db' = MoveToList(u, i, "wait", 0)
    BY <1>9 DEF WriteErrorRetry, s
  <2>2. i \in Ids /\ IsLocked(s, i)
    BY <2>1, OwnsLocked DEF Inv
  <2>3. retryAt \in Nat
    BY <1>2, DurationsAssumption DEF Keyspace
  <2> HIDE DEF i, retryAt
  <2>4. Safe(s, db')
    BY <1>2, <2>1, <2>2, <2>3, WriteErrorRetrySafe
  <2> QED BY <1>1, <2>1, <2>4, SafeInv
<1>10. ASSUME NEW k \in DOMAIN leases, WriteErrorTerminal(x, k)
       PROVE  Inv'
  <2> DEFINE i == leases[k][1]
  <2>1. /\ Owns(s, k) /\ UNCHANGED leases
        /\ \E P \in Pops(s, {Current(s, i)}, x.left) :
              db' = SettleTask([HandlerFailure(s, i) EXCEPT !.task[i].outcome = "failure"], {i}, P)
    BY <1>10 DEF WriteErrorTerminal, s
  <2>2. PICK P \in Pops(s, {Current(s, i)}, x.left) :
              db' = SettleTask([HandlerFailure(s, i) EXCEPT !.task[i].outcome = "failure"], {i}, P)
    BY <2>1
  <2>3. P \subseteq s.retains
    BY DEF Pops
  <2>4. i \in Ids /\ IsLocked(s, i)
    BY <2>1, OwnsLocked DEF Inv
  <2> HIDE DEF i
  <2>5. Safe(s, db')
    BY <1>2, <2>2, <2>3, <2>4, WriteErrorTerminalSafe
  <2> QED BY <1>1, <2>1, <2>5, SafeInv
<1>11. ASSUME NEW i \in Ids, RemoveTask(x, i)
       PROVE  Inv'
  <2>1. /\ ~IsLocked(s, i) /\ UNCHANGED leases
        /\ \E P \in Pops(s, {Current(s, i)}, x.left) :
              db' = DeleteAll(ReleaseOwnedHolds(s, {Current(s, i)}, P), {i})
    BY <1>11 DEF RemoveTask, s
  <2>2. PICK P \in Pops(s, {Current(s, i)}, x.left) :
              db' = DeleteAll(ReleaseOwnedHolds(s, {Current(s, i)}, P), {i})
    BY <2>1
  <2>3. P \subseteq s.retains
    BY DEF Pops
  <2>4. Safe(s, db')
    BY <1>2, <2>1, <2>2, <2>3, RemoveTaskSafe
  <2> QED BY <1>1, <2>1, <2>4, SafeInv
<1>12. ASSUME NEW i \in Ids, ForceRemoveTask(x, i)
       PROVE  Inv'
  <2> DEFINE m == Current(s, i)
  <2>1. /\ Exists(s, i) /\ UNCHANGED leases
        /\ \E P \in Pops(s, {m}, x.left) :
              db' = DeleteAll(Forget(ReleaseOwnedHolds(Unlock(s, {i}), {m}, P), m), {i})
    BY <1>12 DEF ForceRemoveTask, s
  <2>2. PICK P \in Pops(s, {m}, x.left) :
              db' = DeleteAll(Forget(ReleaseOwnedHolds(Unlock(s, {i}), {m}, P), m), {i})
    BY <2>1
  <2>3. P \subseteq s.retains
    BY DEF Pops
  <2>4. Safe(s, db')
    BY <1>2, <2>1, <2>2, <2>3, ForceRemoveTaskSafe
  <2> QED BY <1>1, <2>1, <2>4, SafeInv
<1> QED
  BY <1>3, <1>4, <1>5, <1>6, <1>7, <1>8, <1>9, <1>10, <1>11, <1>12 DEF Sweeping

\* The clock, and the lock keys that it takes away.
LEMMA TickInv ==
    ASSUME Inv, Tick
    PROVE  Inv'
<1> DEFINE now == db.now + 1
           lock == [i \in Ids |-> IF db.lock[i].until < now THEN NoLock ELSE db.lock[i]]
<1>1. db \in Keyspace
  BY DEF Inv, Sound
<1>2. db' = [db EXCEPT !.now = now, !.lock = lock] /\ UNCHANGED leases
  BY <1>1 DEF Tick, Keyspace
<1>3. now \in Nat /\ lock \in [Ids -> Lock]
  BY <1>1, LockType, NoLockType DEF Keyspace
<1>4. \A i \in Ids : lock[i].token # 0 => lock[i] = db.lock[i]
  BY NoLockType
<1> HIDE DEF now, lock
<1>5. db' \in Keyspace
  BY ZenonT(60), <1>1, <1>2, <1>3 DEF Keyspace
<1>6. SameLists(db, db') /\ db'.lock = lock
  BY <1>1, <1>2 DEF Keyspace, SameLists
<1>7. Listed(db') /\ Placed(db')
  BY <1>6 DEF Inv, Sound, SameLists, Listed, InList, Placed, Exists, Settled
<1>8. Guarded(db')
  BY <1>4, <1>6 DEF Inv, Sound, SameLists, Guarded, IsLocked
<1>9. LocksKept(db, db')
  BY <1>4, <1>6 DEF SameLists, LocksKept, IsLocked
<1>10. Safe(db, db') /\ Safe(db', db')
  BY <1>5, <1>7, <1>8, <1>9, SafeRefl DEF Safe, Sound
<1> QED BY <1>2, <1>10, SafeInv

\* Every step of the task engine keeps the invariant.
LEMMA NextInv == Inv /\ [Next]_vars => Inv'
<1> SUFFICES ASSUME Inv, [Next]_vars PROVE Inv'
  OBVIOUS
<1>1. CASE \E x \in SyncAll(db) : Sweeping(x)
  BY <1>1, SweepingInv
<1>2. ASSUME NEW k \in DOMAIN leases, NEW t \in LockTimeouts, ExtendLock(k, t)
      PROVE  Inv'
  <2> DEFINE i == leases[k][1]
             until == db.now + t
  <2>1. /\ Owns(db, k) /\ UNCHANGED leases
        /\ db' = MoveToList([db EXCEPT !.lock[i].until = until], i, "active", until)
    BY <1>2 DEF ExtendLock
  <2>2. i \in Ids /\ IsLocked(db, i)
    BY <2>1, OwnsLocked DEF Inv
  <2>3. until \in Nat
    BY DurationsAssumption DEF Inv, Sound, Keyspace
  <2> HIDE DEF i, until
  <2>4. Safe(db, db')
    BY <2>1, <2>2, <2>3, ExtendLockSafe DEF Inv
  <2> QED BY <2>1, <2>4, SafeInv, SafeRefl DEF Inv
<1>3. ASSUME NEW k \in DOMAIN leases, RemoveLock(k)
      PROVE  Inv'
  <2> DEFINE i == leases[k][1]
  <2>1. /\ Owns(db, k) /\ UNCHANGED leases
        /\ db' = MoveToList(Unlock(db, {i}), i, "wait", 0)
    BY <1>3 DEF RemoveLock
  <2>2. i \in Ids /\ IsLocked(db, i)
    BY <2>1, OwnsLocked DEF Inv
  <2> HIDE DEF i
  <2>3. Safe(db, db')
    BY <2>1, <2>2, RemoveLockSafe DEF Inv
  <2> QED BY <2>1, <2>3, SafeInv, SafeRefl DEF Inv
<1>4. CASE Tick
  BY <1>4, TickInv
<1>5. CASE UNCHANGED vars
  BY <1>5 DEF vars, Inv
<1> QED BY <1>1, <1>2, <1>3, <1>4, <1>5 DEF Next

\* The invariant holds of every behaviour of the task engine.
THEOREM Invariance == Spec => []Inv
<1>1. Init => Inv
  BY InitInv
<1>2. Inv /\ [Next]_vars => Inv'
  BY NextInv
<1> QED BY <1>1, <1>2, PTL DEF Spec

\* Every key of the keyspace always holds what its readers expect of it, for
\* any number of tasks, any batch size and any settings.
THEOREM TypeCorrect == Spec => []TypeOK
<1>1. Inv => TypeOK
  BY DEF Inv, TypeOK, Sound
<1> QED BY <1>1, Invariance, PTL

\* No operation and no sweep ever loses a task or lists it twice: currentList
\* tells where a task is, and an unsettled task is where it will be worked on.
THEOREM OneIndex == Spec => []ExactlyOneIndex
<1>1. Inv => ExactlyOneIndex
  BY DEF Inv, ExactlyOneIndex, Sound
<1> QED BY <1>1, Invariance, PTL

\* The fencing of attempts: a token that isLockedBy still accepts is the newest
\* one of the task, and the task is active, unsettled and of the generation
\* that was leased.
THEOREM LeasesFenced == Spec => []LeaseBacked
<1>1. Inv => LeaseBacked
  <2> SUFFICES ASSUME Inv, NEW i \in Ids, IsLocked(db, i)
               PROVE  LET k == db.lock[i].token
                      IN /\ k \in DOMAIN leases
                         /\ leases[k] = Current(db, i)
                         /\ db.task[i].currentList = "active"
                         /\ db.active[i] = db.lock[i].until
                         /\ \A n \in DOMAIN leases : n > k => leases[n][1] # i
    BY DEF LeaseBacked
  <2> QED BY DEF Inv, Sound, Guarded, Fenced
<1> QED BY <1>1, Invariance, PTL


-----------------------------------------------------------------------------
(* The books of one keyspace. *)

IsGiven(s, m) == m[2] <= s.generations[m[1]]

\* GenerationsGiven, for a keyspace.
Numbered(s) ==
    /\ \A i \in Ids : Exists(s, i) => s.task[i].generation = s.generations[i]
    /\ \A r \in s.result \cup s.published : IsGiven(s, r[1])
    /\ \A p \in s.retains \cup s.retainedBy : IsGiven(s, p[1]) /\ IsGiven(s, p[2])
    /\ \A m \in Members :
          \/ s.continuations[m] # Out \/ s.taskExpiry[m] # Out
          \/ s.resultExpiry[m] # Out \/ m \in s.deadLetter
          => IsGiven(s, m)

\* The rest of OneOutcome.
Told(s) ==
    /\ \A r, e \in s.published : r[1] = e[1] => r = e
    /\ s.result \subseteq s.published
    /\ \A i \in Ids : Exists(s, i) /\ Settled(s, i) =>
           <<Current(s, i), s.task[i].outcome>> \in s.published
    /\ \A i \in Ids : Exists(s, i) /\ ~Settled(s, i) =>
           \A e \in s.published : e[1] # Current(s, i)

\* HoldPinsRecord.
Pinned(s) ==
    \A p \in s.retainedBy : IsCurrent(s, p[1]) /\ <<p[2], p[1]>> \in s.retains

Side(P, m) == {p \in P : p[1] = m}

\* RelationshipsBounded.
Bounded(s) ==
    \A i \in Ids : Exists(s, i) =>
        LET cap == s.task[i].config.maxRelationships
        IN /\ Cardinality(Side(s.retains, Current(s, i))) <= cap
           /\ Cardinality(Side(s.retainedBy, Current(s, i))) <= cap

Live(s, m) == IsCurrent(s, m) /\ ~Settled(s, m[1])
Free(s, m) == Live(s, m) \/ s.continuations[m] # Out

\* The rest of HoldsReleasable, and that no release is queued for a holder that
\* may still take holds.
Releasable(s, H) == \A p \in s.retains : p[1] \in H \/ Free(s, p[1])
Resigned(s, H) == \A m \in Members \ H : s.continuations[m] # Out => ~Live(s, m)

\* RetentionScheduled.
RetentionSet(s) ==
    /\ \A i \in Ids : Exists(s, i) /\ Settled(s, i) => s.taskExpiry[Current(s, i)] # Out
    /\ \A r \in s.result : s.resultExpiry[r[1]] # Out
    /\ \A m \in s.deadLetter : s.deadLetterExpiry[m] # Out

\* AttemptChargedOnce, for a task that may have just been settled: the attempt
\* that still counts as running is the one of a task without an outcome.
Running(t) == t.currentList = "active" /\ t.outcome = "open"
ChargedOnce(t) ==
    t.handlerFailureCount + t.stalledAttemptCount
        <= t.attempt - (IF Running(t) \/ t.outcome = "success" THEN 1 ELSE 0)
Charged(s) == \A i \in Ids : Exists(s, i) => ChargedOnce(s.task[i])

Books(s, H) ==
    /\ Numbered(s) /\ Told(s) /\ Pinned(s) /\ Bounded(s)
    /\ Releasable(s, H) /\ Resigned(s, H) /\ RetentionSet(s) /\ Charged(s)

-----------------------------------------------------------------------------
(* Steps that only take out. *)

SameJob(t, r) ==
    r.generation = t.generation /\ r.outcome = t.outcome /\ r.config = t.config

TasksFade(s, u) ==
    \A i \in Ids : Exists(u, i) =>
        /\ SameJob(s.task[i], u.task[i])
        /\ ChargedOnce(s.task[i]) => ChargedOnce(u.task[i])

RecordsFade(s, u) ==
    /\ u.published = s.published
    /\ u.result \subseteq s.result
    /\ u.deadLetter \subseteq s.deadLetter
    /\ \A r \in u.result : s.resultExpiry[r[1]] # Out => u.resultExpiry[r[1]] # Out
    /\ \A m \in u.deadLetter : s.deadLetterExpiry[m] # Out => u.deadLetterExpiry[m] # Out
    /\ \A m \in Members : u.resultExpiry[m] # Out => s.resultExpiry[m] # Out

ExpiriesFade(s, u) ==
    /\ \A m \in Members : u.taskExpiry[m] # Out => s.taskExpiry[m] # Out
    /\ \A i \in Ids : /\ Exists(u, i) /\ Settled(u, i)
                      /\ s.taskExpiry[Current(s, i)] # Out
                      => u.taskExpiry[Current(s, i)] # Out

HoldsFade(s, u, H) ==
    /\ u.retains \subseteq s.retains
    /\ u.retainedBy \subseteq s.retainedBy
    /\ \A p \in u.retainedBy :
          /\ IsCurrent(s, p[1]) => IsCurrent(u, p[1])
          /\ <<p[2], p[1]>> \in s.retains => <<p[2], p[1]>> \in u.retains
          /\ \A r \in s.result : r[1] = p[1] => r \in u.result
    /\ \A p \in u.retains : Free(s, p[1]) => Free(u, p[1])
    /\ \A m \in Members : u.continuations[m] # Out =>
          \/ s.continuations[m] # Out
          \/ m \in H /\ \E p \in s.retains : p[1] = m

Fades(s, u, H) ==
    /\ u.generations = s.generations
    /\ TasksFade(s, u) /\ RecordsFade(s, u) /\ ExpiriesFade(s, u) /\ HoldsFade(s, u, H)

\* What a step leaves of a held generation: its number, and its result.
Keeps(s, u) ==
    /\ u.generations = s.generations
    /\ \A i \in Ids : Exists(u, i) => u.task[i].generation = s.task[i].generation
    /\ u.retainedBy \subseteq s.retainedBy
    /\ \A p \in u.retainedBy : \A r \in s.result : r[1] = p[1] => r \in u.result

\* And what a sweep leaves of it: a hold that it drops had no live holder.
Tidy(s, u) ==
    /\ Keeps(s, u)
    /\ \A m \in Members : Live(u, m) => Live(s, m)
    /\ \A p \in s.retainedBy \ u.retainedBy : ~Live(u, p[2])

\* Neither a sweep's steps nor a call's add up to more.
LEMMA KeepsTransitive ==
    ASSUME NEW s, NEW u, NEW v, Keeps(s, u), Keeps(u, v)
    PROVE  Keeps(s, v)
BY DEF Keeps, Exists

\* Two steps that tidy up make one.
LEMMA TidyTransitive ==
    ASSUME NEW s, s \in Keyspace, NEW u, NEW v, Tidy(s, u), Tidy(u, v)
    PROVE  Tidy(s, v)
<1>1. Keeps(s, v)
  BY KeepsTransitive DEF Tidy
<1>2. \A m \in Members : Live(v, m) => Live(s, m)
  BY DEF Tidy
<1>3. ASSUME NEW p \in s.retainedBy \ v.retainedBy PROVE ~Live(v, p[2])
  <2>1. p[2] \in Members
    BY DEF Keyspace
  <2> QED BY <2>1 DEF Tidy
<1> QED BY <1>1, <1>2, <1>3 DEF Tidy

\* An id and a number that is not 0.
LEMMA MemberType ==
    ASSUME NEW m \in Members
    PROVE  m[1] \in Ids /\ m[2] \in 1..MaxGen /\ m = <<m[1], m[2]>>
BY DEF Members, Gens

\* A generation that is current is the one of an existing record.
LEMMA CurrentMember ==
    ASSUME NEW s, NEW m \in Members
    PROVE  /\ IsCurrent(s, m) <=> m = Current(s, m[1])
           /\ IsCurrent(s, m) => Exists(s, m[1])
           /\ \A i : m = Current(s, i) => i = m[1] /\ IsCurrent(s, m) /\ Exists(s, i)
<1>1. m[1] \in Ids /\ m[2] \in 1..MaxGen /\ m = <<m[1], m[2]>>
  BY MemberType
<1>2. m[2] # 0
  BY <1>1
<1> QED BY <1>1, <1>2 DEF IsCurrent, Current, Exists

\* The relationships of a member are finitely many.
LEMMA SideFinite ==
    ASSUME NEW P, P \subseteq Members \X Members, NEW m
    PROVE  IsFiniteSet(Side(P, m)) /\ Cardinality(Side(P, m)) \in Nat
<1>1. IsFiniteSet(Gens)
  BY FS_Interval, BoundsAssumption DEF Gens
<1>2. IsFiniteSet(Members)
  BY <1>1, IdsAssumption, FS_Product DEF Members
<1>3. IsFiniteSet(Members \X Members)
  BY <1>2, FS_Product
<1>4. Side(P, m) \subseteq Members \X Members
  BY DEF Side
<1> QED BY <1>3, <1>4, FS_Subset, FS_CardinalityType

\* Taking relationships away makes none of the sides longer.
LEMMA SideShrinks ==
    ASSUME NEW P, P \subseteq Members \X Members, NEW Q, Q \subseteq P, NEW m
    PROVE  Cardinality(Side(Q, m)) <= Cardinality(Side(P, m))
<1>1. IsFiniteSet(Side(P, m)) /\ Side(Q, m) \subseteq Side(P, m)
  BY SideFinite DEF Side
<1> QED BY <1>1, FS_Subset

\* What is left of right books is right.
LEMMA FadesBooks ==
    ASSUME NEW s, s \in Keyspace, NEW H, Books(s, H), NEW u, Fades(s, u, H)
    PROVE  Books(u, H)
<1>0. /\ s.retains \subseteq Members \X Members /\ s.retainedBy \subseteq Members \X Members
      /\ s.result \subseteq Members \X Outcomes /\ s.published \subseteq Members \X Outcomes
      /\ s.deadLetter \subseteq Members
  BY DEF Keyspace
<1>1. Numbered(u)
  <2>1. \A m : IsGiven(u, m) <=> IsGiven(s, m)
    BY DEF Fades, IsGiven
  <2>2. \A i \in Ids : Exists(u, i) => u.task[i].generation = u.generations[i]
    BY DEF Books, Numbered, Fades, TasksFade, SameJob, Exists
  <2>3. \A r \in u.result \cup u.published : IsGiven(u, r[1])
    BY <2>1 DEF Books, Numbered, Fades, RecordsFade
  <2>4. \A p \in u.retains \cup u.retainedBy : IsGiven(u, p[1]) /\ IsGiven(u, p[2])
    BY <2>1 DEF Books, Numbered, Fades, HoldsFade
  <2>5. ASSUME NEW m \in Members,
               \/ u.continuations[m] # Out \/ u.taskExpiry[m] # Out
               \/ u.resultExpiry[m] # Out \/ m \in u.deadLetter
        PROVE  IsGiven(s, m)
    <3>1. CASE u.continuations[m] # Out
      BY <3>1 DEF Books, Numbered, Fades, HoldsFade
    <3>2. CASE u.taskExpiry[m] # Out
      BY <3>2 DEF Books, Numbered, Fades, ExpiriesFade
    <3>3. CASE u.resultExpiry[m] # Out \/ m \in u.deadLetter
      BY <3>3 DEF Books, Numbered, Fades, RecordsFade
    <3> QED BY <2>5, <3>1, <3>2, <3>3
  <2> QED BY <2>1, <2>2, <2>3, <2>4, <2>5 DEF Numbered
<1>2. \A i \in Ids : Exists(u, i) =>
         /\ Exists(s, i) /\ Current(u, i) = Current(s, i)
         /\ Settled(u, i) <=> Settled(s, i)
         /\ u.task[i].outcome = s.task[i].outcome /\ u.task[i].config = s.task[i].config
  BY DEF Fades, TasksFade, SameJob, Exists, Settled, Current
<1>3. Told(u)
  BY <1>2 DEF Books, Told, Fades, RecordsFade
<1>4. Pinned(u)
  BY DEF Books, Pinned, Fades, HoldsFade
<1>5. Bounded(u)
  <2> SUFFICES ASSUME NEW i \in Ids, Exists(u, i)
               PROVE  LET cap == u.task[i].config.maxRelationships
                      IN /\ Cardinality(Side(u.retains, Current(u, i))) <= cap
                         /\ Cardinality(Side(u.retainedBy, Current(u, i))) <= cap
    BY DEF Bounded
  <2> DEFINE cap == s.task[i].config.maxRelationships
             m == Current(s, i)
             a == Cardinality(Side(u.retains, m))
             b == Cardinality(Side(u.retainedBy, m))
             c == Cardinality(Side(s.retains, m))
             d == Cardinality(Side(s.retainedBy, m))
  <2>1. Exists(s, i) /\ Current(u, i) = m /\ u.task[i].config.maxRelationships = cap
    BY <1>2
  <2>2. c <= cap /\ d <= cap
    BY <2>1 DEF Books, Bounded
  <2>3. u.retains \subseteq s.retains /\ u.retainedBy \subseteq s.retainedBy
    BY DEF Fades, HoldsFade
  <2>4. a <= c /\ b <= d
    BY <1>0, <2>3, SideShrinks
  <2>5. a \in Nat /\ b \in Nat /\ c \in Nat /\ d \in Nat
    <3>1. u.retains \subseteq Members \X Members /\ u.retainedBy \subseteq Members \X Members
      BY <1>0, <2>3
    <3> QED BY <1>0, <3>1, SideFinite
  <2>6. cap \in Nat
    BY CurrentType DEF TaskConfig
  <2> HIDE DEF a, b, c, d, cap
  <2>7. a <= cap /\ b <= cap
    BY <2>2, <2>4, <2>5, <2>6
  <2> QED BY <2>1, <2>7 DEF a, b
<1>6. Releasable(u, H)
  BY DEF Books, Releasable, Fades, HoldsFade
<1>7. Resigned(u, H)
  <2> SUFFICES ASSUME NEW m \in Members \ H, u.continuations[m] # Out, Live(u, m)
               PROVE  FALSE
    BY DEF Resigned
  <2>1. s.continuations[m] # Out
    BY DEF Fades, HoldsFade
  <2>2. m[1] \in Ids /\ Exists(u, m[1]) /\ m = Current(u, m[1])
    BY CurrentMember, MemberType DEF Live
  <2>3. Live(s, m)
    BY <1>2, <2>2, CurrentMember DEF Live
  <2> QED BY <2>1, <2>3 DEF Books, Resigned
<1>8. RetentionSet(u)
  <2>1. \A i \in Ids : Exists(u, i) /\ Settled(u, i) => u.taskExpiry[Current(u, i)] # Out
    BY <1>2 DEF Books, RetentionSet, Fades, ExpiriesFade
  <2> QED BY <2>1 DEF Books, RetentionSet, Fades, RecordsFade
<1>9. Charged(u)
  BY <1>2 DEF Books, Charged, Fades, TasksFade
<1> QED BY <1>1, <1>3, <1>4, <1>5, <1>6, <1>7, <1>8, <1>9 DEF Books

\* And it is tidy, if the holders of what was dropped are gone or settled.
LEMMA FadesTidy ==
    ASSUME NEW s, NEW u, NEW H, Fades(s, u, H)
    PROVE  /\ Keeps(s, u)
           /\ \A m \in Members : Live(u, m) => Live(s, m)
           /\ (\A p \in s.retainedBy \ u.retainedBy : ~Live(u, p[2])) => Tidy(s, u)
<1>1. Keeps(s, u)
  BY DEF Fades, Keeps, TasksFade, SameJob, HoldsFade
<1>2. ASSUME NEW m \in Members, Live(u, m) PROVE Live(s, m)
  <2>1. m[1] \in Ids /\ Exists(u, m[1])
    BY <1>2, CurrentMember, MemberType DEF Live
  <2> QED BY <1>2, <2>1 DEF Fades, TasksFade, SameJob, Live, IsCurrent, Settled
<1> QED BY <1>1, <1>2 DEF Tidy

-----------------------------------------------------------------------------
(* Moving and deleting tasks. *)

\* What moving and deleting tasks leaves alone.
SameRecords(s, u) ==
    /\ u.generations = s.generations /\ u.now = s.now
    /\ u.result = s.result /\ u.published = s.published /\ u.resultExpiry = s.resultExpiry
    /\ u.deadLetter = s.deadLetter /\ u.deadLetterExpiry = s.deadLetterExpiry
    /\ u.retainedBy = s.retainedBy /\ u.retains = s.retains
    /\ u.continuations = s.continuations

\* The tasks of D are gone, the others are in other lists or charged for more.
Trimmed(s, u, D) ==
    /\ SameRecords(s, u)
    /\ \A i \in D : u.task[i] = NoTask
    /\ \A i \in Ids \ D : /\ SameJob(s.task[i], u.task[i])
                          /\ ChargedOnce(s.task[i]) => ChargedOnce(u.task[i])
    /\ \A m \in Members : u.taskExpiry[m] # Out => s.taskExpiry[m] # Out
    /\ \A i \in Ids \ D : /\ Exists(s, i) /\ Settled(s, i)
                          /\ s.taskExpiry[Current(s, i)] # Out
                          => u.taskExpiry[Current(s, i)] # Out

\* The generations of D are neither held nor, without a continuation, holders.
MayGo(s, D) ==
    \A i \in D :
        /\ \A p \in s.retainedBy : p[1] # Current(s, i)
        /\ \A p \in s.retains : p[1] = Current(s, i) =>
              Settled(s, i) \/ s.continuations[p[1]] # Out

\* deleteTask, and applyCompletionPolicy as a whole, only take out.
LEMMA TrimmedBooks ==
    ASSUME NEW s, s \in Keyspace, NEW H, Books(s, H), NEW D \in SUBSET Ids,
           MayGo(s, D), NEW u, Trimmed(s, u, D)
    PROVE  Books(u, H) /\ Tidy(s, u)
<1>0. s.retains \subseteq Members \X Members /\ s.retainedBy \subseteq Members \X Members
  BY DEF Keyspace
<1>1. \A i \in D : ~Exists(u, i)
  BY NoTaskType DEF Trimmed, Exists
<1>2. TasksFade(s, u)
  BY <1>1 DEF TasksFade, Trimmed
<1>3. RecordsFade(s, u)
  BY DEF RecordsFade, Trimmed, SameRecords
<1>4. ExpiriesFade(s, u)
  <2>1. \A i \in Ids : Exists(u, i) /\ Settled(u, i) =>
           i \notin D /\ Exists(s, i) /\ Settled(s, i)
    BY <1>1, <1>2 DEF TasksFade, SameJob, Exists, Settled
  <2> QED BY <2>1 DEF ExpiriesFade, Trimmed
<1>5. ASSUME NEW p \in u.retainedBy, IsCurrent(s, p[1]) PROVE IsCurrent(u, p[1])
  <2>1. p \in s.retainedBy /\ p[1] \in Members
    BY <1>0 DEF Trimmed, SameRecords
  <2>2. p[1] = Current(s, p[1][1]) /\ p[1][1] \in Ids /\ Exists(s, p[1][1])
    BY <1>5, <2>1, CurrentMember, MemberType
  <2>3. p[1][1] \notin D
    BY <2>1, <2>2 DEF MayGo
  <2>4. Exists(u, p[1][1])
    BY <2>2, <2>3 DEF Trimmed, SameJob, Exists
  <2> QED BY <1>5, <2>2, <2>4, <1>2 DEF TasksFade, SameJob, IsCurrent
<1>6. ASSUME NEW p \in u.retains, Free(s, p[1]) PROVE Free(u, p[1])
  <2>1. p \in s.retains /\ p[1] \in Members /\ u.continuations = s.continuations
    BY <1>0 DEF Trimmed, SameRecords
  <2>2. CASE s.continuations[p[1]] # Out
    BY <2>1, <2>2 DEF Free
  <2>3. CASE Live(s, p[1]) /\ s.continuations[p[1]] = Out
    <3>1. p[1] = Current(s, p[1][1]) /\ p[1][1] \in Ids /\ Exists(s, p[1][1])
      BY <2>3, <2>1, CurrentMember, MemberType DEF Live
    <3>2. p[1][1] \notin D
      BY <2>1, <2>3, <3>1 DEF MayGo, Live
    <3> QED BY <2>3, <3>1, <3>2, <1>2
            DEF Trimmed, TasksFade, SameJob, Live, Free, IsCurrent, Settled
  <2> QED BY <1>6, <2>2, <2>3 DEF Free
<1>7. HoldsFade(s, u, H)
  BY <1>5, <1>6 DEF HoldsFade, Trimmed, SameRecords
<1>8. Fades(s, u, H)
  BY <1>2, <1>3, <1>4, <1>7 DEF Fades, Trimmed, SameRecords
<1>9. s.retainedBy \ u.retainedBy = {}
  BY DEF Trimmed, SameRecords
<1> QED BY <1>8, <1>9, FadesBooks, FadesTidy

Fielded(s) == DOMAIN s = DOMAIN EmptyKeyspace

\* A keyspace has its fields.
LEMMA KeyspaceFields == ASSUME NEW s \in Keyspace PROVE Fielded(s)
BY DEF Keyspace, Fielded, EmptyKeyspace

\* moveToList writes currentList and the lists.
LEMMA MoveAllFields ==
    ASSUME NEW s, Fielded(s), NEW to, NEW score, NEW order,
           NEW u, u = MoveAll(s, to, score, order)
    PROVE  /\ SameRecords(s, u) /\ u.taskExpiry = s.taskExpiry /\ u.lock = s.lock
           /\ u.task = [i \in Ids |->
                 IF i \in DOMAIN to THEN [s.task[i] EXCEPT !.currentList = to[i]]
                                    ELSE s.task[i]]
           /\ Fielded(u)
BY DEF MoveAll, Fielded, EmptyKeyspace, SameRecords

\* deleteTask takes the records and the expiries of the records.
LEMMA DeleteAllFields ==
    ASSUME NEW s, Fielded(s), NEW S, NEW u, u = DeleteAll(s, S)
    PROVE  /\ SameRecords(s, u)
           /\ u.taskExpiry = Unschedule(s.taskExpiry, CurrentOf(s, S))
           /\ u.task = [i \in Ids |-> IF i \in S THEN NoTask ELSE s.task[i]]
           /\ Fielded(u)
<1> DEFINE to == [i \in S |-> "none"]
           v == MoveAll(s, to, 0, <<>>)
           task == [i \in Ids |-> IF i \in S THEN NoTask ELSE v.task[i]]
           taskExpiry == Unschedule(s.taskExpiry, CurrentOf(s, S))
           terminalExpiry == Unschedule(s.terminalExpiry, CurrentOf(s, S))
<1>1. /\ SameRecords(s, v) /\ Fielded(v)
      /\ v.task = [i \in Ids |->
            IF i \in DOMAIN to THEN [s.task[i] EXCEPT !.currentList = to[i]] ELSE s.task[i]]
  BY MoveAllFields
<1>2. u = [v EXCEPT !.task = task, !.taskExpiry = taskExpiry,
                    !.terminalExpiry = terminalExpiry]
  BY DEF DeleteAll
<1>3. task = [i \in Ids |-> IF i \in S THEN NoTask ELSE s.task[i]]
  BY <1>1
<1> HIDE DEF v, to, task, taskExpiry, terminalExpiry
<1>5. /\ u.task = task /\ u.taskExpiry = taskExpiry
      /\ SameRecords(v, u) /\ Fielded(u)
  BY <1>1, <1>2 DEF Fielded, EmptyKeyspace, SameRecords
<1> QED BY <1>1, <1>3, <1>5 DEF SameRecords, taskExpiry

Spent(t) == Running(t) \/ t.outcome = "success"

\* A task that no longer counts an attempt as running or successful has room
\* for one more charge.
LEMMA ChargeEased ==
    ASSUME NEW t \in TaskRecord, NEW r \in TaskRecord, ChargedOnce(t),
           r.attempt = t.attempt,
           \/ /\ r.handlerFailureCount + r.stalledAttemptCount
                    = t.handlerFailureCount + t.stalledAttemptCount
              /\ Spent(r) => Spent(t)
           \/ /\ r.handlerFailureCount + r.stalledAttemptCount
                    = t.handlerFailureCount + t.stalledAttemptCount + 1
              /\ Spent(t) /\ ~Spent(r)
    PROVE  ChargedOnce(r)
<1> DEFINE a == t.attempt
           f == t.handlerFailureCount + t.stalledAttemptCount
           g == r.handlerFailureCount + r.stalledAttemptCount
<1>1. a \in Nat /\ f \in Nat /\ g \in Nat
  BY DEF TaskRecord
<1>2. (Spent(t) => f <= a - 1) /\ (~Spent(t) => f <= a - 0)
  BY DEF ChargedOnce, Spent
<1>3. (Spent(r) /\ g <= a - 1 => ChargedOnce(r)) /\ (~Spent(r) /\ g <= a - 0 => ChargedOnce(r))
  BY DEF ChargedOnce, Spent
<1>4. (g = f /\ (Spent(r) => Spent(t))) \/ (g = f + 1 /\ Spent(t) /\ ~Spent(r))
  OBVIOUS
<1> HIDE DEF a, f, g
<1>5. CASE g = f /\ (Spent(r) => Spent(t))
  <2>1. CASE Spent(r)
    BY <1>2, <1>3, <1>5, <2>1
  <2>2. CASE ~Spent(r) /\ Spent(t)
    <3>1. g <= a - 0
      BY <1>1, <1>2, <1>5, <2>2
    <3> QED BY <3>1, <1>3, <2>2
  <2>3. CASE ~Spent(r) /\ ~Spent(t)
    BY <1>2, <1>3, <1>5, <2>3
  <2> QED BY <2>1, <2>2, <2>3
<1>6. CASE g = f + 1 /\ Spent(t) /\ ~Spent(r)
  <2>1. g <= a - 0
    BY <1>1, <1>2, <1>6
  <2> QED BY <2>1, <1>3, <1>6
<1> QED BY <1>4, <1>5, <1>6

\* Moving a task, other than to active, charges it for nothing.
LEMMA ChargedElsewhere ==
    ASSUME NEW t \in TaskRecord, NEW l \in Lists,
           l # "active" \/ t.currentList = "active"
    PROVE  /\ SameJob(t, [t EXCEPT !.currentList = l])
           /\ ChargedOnce(t) => ChargedOnce([t EXCEPT !.currentList = l])
<1> DEFINE r == [t EXCEPT !.currentList = l]
<1>1. /\ r \in TaskRecord /\ SameJob(t, r) /\ r.attempt = t.attempt
      /\ r.handlerFailureCount = t.handlerFailureCount
      /\ r.stalledAttemptCount = t.stalledAttemptCount /\ r.currentList = l
  BY DEF TaskRecord, SameJob
<1> HIDE DEF r
<1>2. Spent(r) => Spent(t)
  BY <1>1 DEF Spent, Running, SameJob
<1>3. ChargedOnce(t) => ChargedOnce(r)
  BY <1>1, <1>2, ChargeEased
<1> QED BY <1>1, <1>3 DEF r

\* applyCompletionPolicy moves settled tasks, and deletes those that no hold
\* keeps.
LEMMA ApplyCompletionPolicyBooks ==
    ASSUME NEW s, s \in Keyspace, NEW H, Books(s, H), NEW S \in SUBSET Ids,
           \A i \in S : Exists(s, i) /\ Settled(s, i),
           NEW u, u = ApplyCompletionPolicy(s, S)
    PROVE  Books(u, H) /\ Tidy(s, u) /\ SameRecords(s, u)
<1> DEFINE target(i) == CASE Policy(s.task[i]) = "mark-as-success" -> "success"
                          [] Policy(s.task[i]) = "mark-as-failure" -> "failed"
                          [] OTHER -> "none"
           to == [i \in S |-> target(i)]
           gone == {i \in S : /\ Policy(s.task[i]) = "delete"
                              /\ ~HasRetentionHolds(s, Current(s, i))}
           v == MoveAll(s, to, 0, <<>>)
<1>1. /\ gone \in SUBSET Ids /\ gone \subseteq S
      /\ \A i \in gone : ~HasRetentionHolds(s, Current(s, i))
  OBVIOUS
<1>2. \A i \in S : target(i) \in {"success", "failed", "none"}
  OBVIOUS
<1>3. DOMAIN to = S /\ \A i \in S : to[i] \in Lists /\ to[i] # "active"
  BY <1>2 DEF Lists
<1>4. u = DeleteAll(v, gone)
  BY DEF ApplyCompletionPolicy
<1> HIDE DEF v, to, target, gone
<1>5. /\ SameRecords(s, v) /\ v.taskExpiry = s.taskExpiry /\ Fielded(v)
      /\ v.task = [i \in Ids |->
            IF i \in S THEN [s.task[i] EXCEPT !.currentList = to[i]] ELSE s.task[i]]
  BY <1>3, KeyspaceFields, MoveAllFields DEF v
<1>6. /\ SameRecords(v, u)
      /\ u.taskExpiry = Unschedule(s.taskExpiry, CurrentOf(v, gone))
      /\ u.task = [i \in Ids |-> IF i \in gone THEN NoTask ELSE v.task[i]]
  BY <1>4, <1>5, DeleteAllFields
<1>7. SameRecords(s, u)
  BY <1>5, <1>6 DEF SameRecords
<1>8. ASSUME NEW i \in Ids \ gone
      PROVE  /\ SameJob(s.task[i], u.task[i])
             /\ ChargedOnce(s.task[i]) => ChargedOnce(u.task[i])
  <2>1. CASE i \in S
    <3>1. u.task[i] = [s.task[i] EXCEPT !.currentList = to[i]]
      BY <1>5, <1>6, <2>1
    <3>2. s.task[i] \in TaskRecord /\ to[i] \in Lists /\ to[i] # "active"
      BY <1>3, <2>1, TaskType
    <3> QED BY <3>1, <3>2, ChargedElsewhere
  <2>2. CASE i \notin S
    BY <1>5, <1>6, <2>2 DEF SameJob
  <2> QED BY <2>1, <2>2
<1>9. /\ \A m \in Members : u.taskExpiry[m] # Out => s.taskExpiry[m] # Out
      /\ \A i \in Ids \ gone : /\ Exists(s, i) /\ Settled(s, i)
                               /\ s.taskExpiry[Current(s, i)] # Out
                               => u.taskExpiry[Current(s, i)] # Out
  <2>1. \A m \in Members : u.taskExpiry[m] = IF m \in CurrentOf(v, gone) THEN Out ELSE s.taskExpiry[m]
    BY <1>6 DEF Unschedule
  <2>2. \A i \in Ids \ gone : Current(s, i) \notin CurrentOf(v, gone)
    BY DEF Current, CurrentOf
  <2> QED BY <2>1, <2>2, CurrentType
<1>10. Trimmed(s, u, gone)
  BY <1>1, <1>6, <1>7, <1>8, <1>9 DEF Trimmed
<1>11. MayGo(s, gone)
  BY <1>1 DEF MayGo, HasRetentionHolds
<1> QED BY <1>1, <1>7, <1>10, <1>11, TrimmedBooks

-----------------------------------------------------------------------------
(* The release of holds, and settlement. *)

\* What is left for the holders in H is queued.
Released(u, H) == \A p \in u.retains : p[1] \in H => u.continuations[p[1]] # Out

\* releaseOwnedHolds, in the middle of a call: the holders may still be live.
LEMMA ReleaseOwnedHoldsBooks ==
    ASSUME NEW s, s \in Keyspace, NEW H \in SUBSET Members, Books(s, H),
           NEW P, P \subseteq s.retains, \A p \in P : p[1] \in H,
           NEW u, u = ReleaseOwnedHolds(s, H, P)
    PROVE  /\ Books(u, H) /\ Released(u, H) /\ Keeps(s, u)
           /\ \A m \in Members : Live(u, m) => Live(s, m)
           /\ \A p \in s.retainedBy \ u.retainedBy : p[2] \in H
           /\ u.now = s.now
<1> DEFINE retains == s.retains \ P
           retainedBy == s.retainedBy \ {<<p[2], p[1]>> : p \in P}
           continuations == Continuations(s, H, P)
           v == [s EXCEPT !.retains = retains, !.retainedBy = retainedBy,
                          !.continuations = continuations]
           freed == {i \in Ids : /\ Exists(v, i)
                                 /\ Settled(v, i)
                                 /\ ~HasRetentionHolds(v, Current(v, i))
                                 /\ \E p \in P : p[2] = Current(v, i)}
<1>1. /\ s.retains \subseteq Members \X Members /\ s.retainedBy \subseteq Members \X Members
      /\ s.now \in Nat
  BY DEF Keyspace
<1>2. /\ retains \in SUBSET (Members \X Members)
      /\ retainedBy \in SUBSET (Members \X Members)
      /\ continuations \in [Members -> Score]
  BY <1>1 DEF Continuations, Keyspace, Score
<1>3. /\ \A m \in Members \ H : continuations[m] = s.continuations[m]
      /\ \A m \in H : (\E p \in retains : p[1] = m) => continuations[m] # Out
      /\ \A m \in H : (~\E p \in retains : p[1] = m) => continuations[m] = Out
  <2>1. \A m \in Members \ H : continuations[m] = s.continuations[m]
    BY DEF Continuations
  <2>2. ASSUME NEW m \in H, \E p \in retains : p[1] = m PROVE continuations[m] # Out
    <3>1. continuations[m] = s.now
      BY <2>2 DEF Continuations
    <3> QED BY <3>1, <1>1 DEF Out
  <2>3. ASSUME NEW m \in H, ~\E p \in retains : p[1] = m PROVE continuations[m] = Out
    BY <2>3 DEF Continuations
  <2> QED BY <2>1, <2>2, <2>3
<1>4. u = ApplyCompletionPolicy(v, freed)
  BY DEF ReleaseOwnedHolds
<1>5. freed \in SUBSET Ids /\ \A i \in freed : Exists(v, i) /\ Settled(v, i)
  OBVIOUS
<1>6. \A p \in s.retainedBy : p \in retainedBy <=> <<p[2], p[1]>> \notin P
  <2> SUFFICES ASSUME NEW p \in s.retainedBy
               PROVE  p \in {<<q[2], q[1]>> : q \in P} <=> <<p[2], p[1]>> \in P
    OBVIOUS
  <2>1. p = <<p[1], p[2]>>
    BY <1>1
  <2>2. \A q \in P : q = <<q[1], q[2]>>
    BY <1>1
  <2>3. ASSUME NEW q \in P, p = <<q[2], q[1]>> PROVE <<p[2], p[1]>> \in P
    <3>1. p[2] = q[1] /\ p[1] = q[2]
      BY <2>3
    <3> QED BY <3>1, <2>2
  <2>4. ASSUME <<p[2], p[1]>> \in P PROVE p \in {<<q[2], q[1]>> : q \in P}
    BY <2>1, <2>4
  <2> QED BY <2>3, <2>4
<1>7. retains \subseteq s.retains /\ retainedBy \subseteq s.retainedBy
  OBVIOUS
<1>8. \A p \in s.retains : p \in retains <=> p \notin P
  OBVIOUS
<1> HIDE DEF retains, retainedBy, continuations, freed
<1>9. v \in Keyspace
  BY <1>2 DEF Keyspace
<1>10. /\ v.retains = retains /\ v.retainedBy = retainedBy /\ v.continuations = continuations
       /\ v.task = s.task /\ v.generations = s.generations /\ v.now = s.now
       /\ v.result = s.result /\ v.published = s.published /\ v.deadLetter = s.deadLetter
       /\ v.taskExpiry = s.taskExpiry /\ v.resultExpiry = s.resultExpiry
       /\ v.deadLetterExpiry = s.deadLetterExpiry
  BY DEF Keyspace
<1> HIDE DEF v
<1>11. /\ TasksFade(s, v) /\ RecordsFade(s, v) /\ ExpiriesFade(s, v)
  BY <1>10 DEF TasksFade, SameJob, RecordsFade, ExpiriesFade
<1>12. \A m : (IsCurrent(v, m) <=> IsCurrent(s, m)) /\ (Live(v, m) <=> Live(s, m))
  BY <1>10 DEF IsCurrent, Live, Settled
<1>13. ASSUME NEW p \in v.retainedBy, <<p[2], p[1]>> \in s.retains
       PROVE  <<p[2], p[1]>> \in v.retains
  BY <1>6, <1>7, <1>8, <1>10, <1>13
<1>14. ASSUME NEW p \in v.retains, Free(s, p[1]) PROVE Free(v, p[1])
  <2>1. p[1] \in Members /\ p \in retains
    BY <1>2, <1>10
  <2>2. CASE p[1] \in H
    <3>1. continuations[p[1]] # Out
      BY <1>3, <2>1, <2>2
    <3> QED BY <3>1, <1>10 DEF Free
  <2>3. CASE p[1] \notin H
    BY <1>3, <1>10, <1>12, <1>14, <2>1, <2>3 DEF Free
  <2> QED BY <2>2, <2>3
<1>15. ASSUME NEW m \in Members, v.continuations[m] # Out
       PROVE  s.continuations[m] # Out \/ (m \in H /\ \E p \in s.retains : p[1] = m)
  <2>1. CASE m \notin H
    <3>1. v.continuations[m] = s.continuations[m]
      BY <1>3, <1>10, <2>1
    <3> QED BY <3>1, <1>15
  <2>2. CASE m \in H
    <3>1. \E p \in retains : p[1] = m
      BY <1>3, <1>10, <1>15, <2>2
    <3> QED BY <3>1, <1>7, <2>2
  <2> QED BY <2>1, <2>2
<1>16. HoldsFade(s, v, H)
  BY <1>7, <1>10, <1>12, <1>13, <1>14, <1>15 DEF HoldsFade
<1>17. Fades(s, v, H)
  BY <1>10, <1>11, <1>16 DEF Fades
<1>18. Books(v, H)
  BY <1>17, FadesBooks
<1>19. Books(u, H) /\ Tidy(v, u) /\ SameRecords(v, u)
  BY <1>4, <1>5, <1>9, <1>18, ApplyCompletionPolicyBooks
<1>20. Released(u, H)
  <2> SUFFICES ASSUME NEW p \in retains, p[1] \in H PROVE continuations[p[1]] # Out
    BY <1>10, <1>19 DEF Released, SameRecords
  <2> QED BY <1>3
<1>21. Keeps(s, u)
  BY <1>17, <1>19, FadesTidy, KeepsTransitive DEF Tidy
<1>22. \A m \in Members : Live(u, m) => Live(s, m)
  BY <1>12, <1>19 DEF Tidy
<1>23. \A p \in s.retainedBy \ u.retainedBy : p[2] \in H
  <2> SUFFICES ASSUME NEW p \in s.retainedBy, p \notin retainedBy PROVE p[2] \in H
    BY <1>10, <1>19 DEF SameRecords
  <2>1. <<p[2], p[1]>> \in P
    BY <1>6
  <2>2. <<p[2], p[1]>>[1] = p[2]
    OBVIOUS
  <2> QED BY <2>1, <2>2
<1>24. u.now = s.now
  BY <1>10, <1>19 DEF SameRecords
<1> QED BY <1>19, <1>20, <1>21, <1>22, <1>23, <1>24

\* The books are closed when no holder of H is live any more.
LEMMA BooksClosed ==
    ASSUME NEW u, NEW H, Books(u, H), Released(u, H), \A m \in H : ~Live(u, m)
    PROVE  Books(u, {})
BY DEF Books, Releasable, Resigned, Released, Free

\* And opened for any holders.
LEMMA BooksOpened ==
    ASSUME NEW u, Books(u, {}), NEW H
    PROVE  Books(u, H)
BY DEF Books, Releasable, Resigned

\* releaseOwnedHolds for holders that are no longer live.
LEMMA ReleaseSettledBooks ==
    ASSUME NEW s, s \in Keyspace, NEW H \in SUBSET Members, Books(s, H),
           \A m \in H : ~Live(s, m),
           NEW P, P \subseteq s.retains, \A p \in P : p[1] \in H,
           NEW u, u = ReleaseOwnedHolds(s, H, P)
    PROVE  Books(u, {}) /\ Tidy(s, u) /\ u.now = s.now
<1>1. /\ Books(u, H) /\ Released(u, H) /\ Keeps(s, u) /\ u.now = s.now
      /\ \A m \in Members : Live(u, m) => Live(s, m)
      /\ \A p \in s.retainedBy \ u.retainedBy : p[2] \in H
  BY ReleaseOwnedHoldsBooks
<1>2. \A m \in H : ~Live(u, m)
  BY <1>1
<1>3. Books(u, {})
  BY <1>1, <1>2, BooksClosed
<1>4. Tidy(s, u)
  BY <1>1, <1>2 DEF Tidy
<1> QED BY <1>1, <1>3, <1>4

Rescheduled(s, index, S, m, new) ==
    IF m \in CurrentOf(s, S) THEN new[m] # Out ELSE new[m] = index[m]

\* scheduleExpiry gives the current members of S a score, and no others.
LEMMA ScheduleExpiryScores ==
    ASSUME NEW s \in Keyspace, NEW index \in [Members -> Score], NEW S \in SUBSET Ids,
           \A i \in S : Exists(s, i), NEW m \in Members
    PROVE  /\ Rescheduled(s, index, S, m,
                  ScheduleExpiry(s, index, S, LAMBDA c : c.deadLetterRetentionMs))
           /\ Rescheduled(s, index, S, m,
                  ScheduleExpiry(s, index, S, LAMBDA c : c.resultRetentionMs))
           /\ Rescheduled(s, index, S, m,
                  ScheduleExpiry(s, index, S, LAMBDA c : c.taskRecordRetentionMs))
<1>1. m[1] \in Ids /\ m = <<m[1], m[2]>>
  BY MemberType
<1>2. m \in CurrentOf(s, S) <=> m[1] \in S /\ IsCurrent(s, m)
  BY <1>1 DEF CurrentOf, Current, IsCurrent
<1> DEFINE d == s.now + s.task[m[1]].config.deadLetterRetentionMs
           r == s.now + s.task[m[1]].config.resultRetentionMs
           t == s.now + s.task[m[1]].config.taskRecordRetentionMs
<1>3. d # Out /\ r # Out /\ t # Out
  <2>1. /\ s.task[m[1]].config.deadLetterRetentionMs \in Nat
        /\ s.task[m[1]].config.resultRetentionMs \in Nat
        /\ s.task[m[1]].config.taskRecordRetentionMs \in Nat
        /\ s.now \in Nat
    BY <1>1, CurrentType DEF TaskConfig, Keyspace
  <2> QED BY <2>1 DEF Out
<1>4. /\ ScheduleExpiry(s, index, S, LAMBDA c : c.deadLetterRetentionMs)[m] =
             IF m \in CurrentOf(s, S) THEN d ELSE index[m]
      /\ ScheduleExpiry(s, index, S, LAMBDA c : c.resultRetentionMs)[m] =
             IF m \in CurrentOf(s, S) THEN r ELSE index[m]
      /\ ScheduleExpiry(s, index, S, LAMBDA c : c.taskRecordRetentionMs)[m] =
             IF m \in CurrentOf(s, S) THEN t ELSE index[m]
  BY <1>2 DEF ScheduleExpiry
<1> HIDE DEF d, r, t
<1> QED BY <1>3, <1>4 DEF Rescheduled

\* What persistTerminalResult and scheduleTerminalRetention record of the
\* settled tasks in S.
Entries(v, S) == {<<Current(v, i), v.task[i].outcome>> : i \in S}
Recorded(v, w, S) ==
    /\ w.task = v.task /\ w.generations = v.generations /\ w.now = v.now
    /\ w.retainedBy = v.retainedBy /\ w.retains = v.retains
    /\ w.continuations = v.continuations
    /\ w.result = v.result \cup Entries(v, S)
    /\ w.published = v.published \cup Entries(v, S)
    /\ \A m \in w.deadLetter :
          m \in v.deadLetter \/ (m \in CurrentOf(v, S) /\ w.deadLetterExpiry[m] # Out)
    /\ \A m \in Members :
          /\ v.deadLetterExpiry[m] # Out => w.deadLetterExpiry[m] # Out
          /\ IF m \in CurrentOf(v, S)
             THEN w.resultExpiry[m] # Out /\ w.taskExpiry[m] # Out
             ELSE w.resultExpiry[m] = v.resultExpiry[m] /\ w.taskExpiry[m] = v.taskExpiry[m]

\* A settlement leaves its result, its outcome and its retention on record.
LEMMA SettlementRecorded ==
    ASSUME NEW v, Ready(v), NEW S \in SUBSET Ids, \A i \in S : Exists(v, i),
           NEW w, w = ScheduleTerminalRetention(PersistTerminalResult(v, S), S)
    PROVE  Ready(w) /\ Recorded(v, w, S)
<1> DEFINE u == PersistTerminalResult(v, S)
           failures == {i \in S : v.task[i].outcome = "failure"}
           result == v.result \cup Entries(v, S)
           published == v.published \cup Entries(v, S)
           deadLetter == v.deadLetter \cup CurrentOf(v, failures)
           deadLetterExpiry == ScheduleExpiry(v, v.deadLetterExpiry, failures,
                                   LAMBDA c : c.deadLetterRetentionMs)
           resultExpiry == ScheduleExpiry(v, v.resultExpiry, S,
                                   LAMBDA c : c.resultRetentionMs)
           marked == {i \in S : Policy(u.task[i]) \in {"mark-as-success", "mark-as-failure"}}
           taskExpiry == ScheduleExpiry(u, u.taskExpiry, S,
                             LAMBDA c : c.taskRecordRetentionMs)
           terminalExpiry == ScheduleExpiry(u, u.terminalExpiry, marked,
                             LAMBDA c : c.terminalIndexRetentionMs)
<1>1. /\ v \in Keyspace
      /\ v.deadLetterExpiry \in [Members -> Score] /\ v.resultExpiry \in [Members -> Score]
  BY DEF Ready, Keyspace
<1>2. Ready(u) /\ SameLists(v, u) /\ SameBase(v, u)
  BY PersistTerminalResultEnds
<1>3. Ready(w)
  BY <1>2, ScheduleTerminalRetentionEnds
<1>4. u = [v EXCEPT !.result = result, !.published = published,
                    !.deadLetter = deadLetter,
                    !.deadLetterExpiry = deadLetterExpiry,
                    !.resultExpiry = resultExpiry]
  BY DEF PersistTerminalResult, Entries
<1>5. w = [u EXCEPT !.taskExpiry = taskExpiry, !.terminalExpiry = terminalExpiry]
  BY DEF ScheduleTerminalRetention
<1>6. ASSUME NEW m \in Members
      PROVE  /\ Rescheduled(v, v.deadLetterExpiry, failures, m, deadLetterExpiry)
             /\ Rescheduled(v, v.resultExpiry, S, m, resultExpiry)
  <2>1. failures \in SUBSET Ids /\ \A i \in failures : Exists(v, i)
    OBVIOUS
  <2>2. Rescheduled(v, v.resultExpiry, S, m, resultExpiry)
    BY <1>1, ScheduleExpiryScores
  <2> HIDE DEF failures
  <2>3. Rescheduled(v, v.deadLetterExpiry, failures, m, deadLetterExpiry)
    BY <1>1, <2>1, ScheduleExpiryScores
  <2> QED BY <2>2, <2>3
<1>7. u \in Keyspace /\ u.taskExpiry \in [Members -> Score] /\ u.task = v.task
  BY <1>2 DEF Ready, Keyspace, SameLists
<1>8. ASSUME NEW m \in Members
      PROVE  Rescheduled(v, u.taskExpiry, S, m, taskExpiry)
  <2>1. CurrentOf(u, S) = CurrentOf(v, S) /\ \A i \in S : Exists(u, i)
    BY <1>7 DEF CurrentOf, Current, Exists
  <2>2. Rescheduled(u, u.taskExpiry, S, m, taskExpiry)
    BY <1>7, <2>1, ScheduleExpiryScores
  <2> QED BY <2>1, <2>2 DEF Rescheduled
<1>9. CurrentOf(v, failures) \subseteq CurrentOf(v, S)
  BY DEF CurrentOf
<1> HIDE DEF u, failures, result, published, deadLetterExpiry, resultExpiry,
             taskExpiry, terminalExpiry
<1>10. /\ u.result = result /\ u.published = published /\ u.deadLetter = deadLetter
       /\ u.deadLetterExpiry = deadLetterExpiry /\ u.resultExpiry = resultExpiry
       /\ u.taskExpiry = v.taskExpiry /\ u.task = v.task
       /\ u.generations = v.generations /\ u.now = v.now
       /\ u.retainedBy = v.retainedBy /\ u.retains = v.retains
       /\ u.continuations = v.continuations
  BY <1>1, <1>4 DEF Keyspace
<1>11. /\ w.result = u.result /\ w.published = u.published /\ w.deadLetter = u.deadLetter
       /\ w.deadLetterExpiry = u.deadLetterExpiry /\ w.resultExpiry = u.resultExpiry
       /\ w.taskExpiry = taskExpiry /\ w.task = u.task
       /\ w.generations = u.generations /\ w.now = u.now
       /\ w.retainedBy = u.retainedBy /\ w.retains = u.retains
       /\ w.continuations = u.continuations
  BY <1>5, <1>7 DEF Keyspace
<1>12. deadLetter \subseteq Members
  BY <1>10, <1>7 DEF Keyspace
<1>13. ASSUME NEW m \in w.deadLetter
       PROVE  m \in v.deadLetter \/ (m \in CurrentOf(v, S) /\ w.deadLetterExpiry[m] # Out)
  <2>1. m \in Members /\ (m \in v.deadLetter \/ m \in CurrentOf(v, failures))
    BY <1>10, <1>11, <1>12
  <2> QED BY <2>1, <1>6, <1>9, <1>10, <1>11 DEF Rescheduled
<1>14. ASSUME NEW m \in Members
       PROVE  /\ v.deadLetterExpiry[m] # Out => w.deadLetterExpiry[m] # Out
              /\ IF m \in CurrentOf(v, S)
                 THEN w.resultExpiry[m] # Out /\ w.taskExpiry[m] # Out
                 ELSE w.resultExpiry[m] = v.resultExpiry[m] /\ w.taskExpiry[m] = v.taskExpiry[m]
  BY <1>6, <1>8, <1>10, <1>11 DEF Rescheduled
<1> QED BY <1>3, <1>10, <1>11, <1>13, <1>14 DEF Recorded, result, published

\* A step that gives the tasks in S their outcome, and may move others.
Concludes(b, v, S) ==
    /\ SameRecords(b, v) /\ v.taskExpiry = b.taskExpiry
    /\ \A i \in S : /\ Exists(b, i) /\ ~Settled(b, i) /\ Settled(v, i)
                    /\ v.task[i].generation = b.task[i].generation
                    /\ v.task[i].config = b.task[i].config
    /\ \A i \in Ids \ S : SameJob(b.task[i], v.task[i])
    /\ Charged(v)

\* What settled tasks leave behind is in the books, and their holds are next.
LEMMA SettlementBooks ==
    ASSUME NEW b, b \in Keyspace, Books(b, {}), NEW S \in SUBSET Ids,
           NEW v, v \in Keyspace, Concludes(b, v, S),
           NEW w, Recorded(v, w, S)
    PROVE  Books(w, CurrentOf(b, S)) /\ Tidy(b, w)
<1> DEFINE H == CurrentOf(b, S)
<1>0. /\ b.retains \subseteq Members \X Members /\ b.retainedBy \subseteq Members \X Members
      /\ b.result \subseteq Members \X Outcomes /\ b.published \subseteq Members \X Outcomes
      /\ b.deadLetter \subseteq Members
  BY DEF Keyspace
<1>1. /\ w.generations = b.generations /\ w.retainedBy = b.retainedBy
      /\ w.retains = b.retains /\ w.continuations = b.continuations
  BY DEF Recorded, Concludes, SameRecords
<1>2. \A i \in Ids : /\ w.task[i].generation = b.task[i].generation
                     /\ w.task[i].config = b.task[i].config
                     /\ Current(v, i) = Current(b, i) /\ Current(w, i) = Current(b, i)
                     /\ Exists(w, i) <=> Exists(b, i)
  BY DEF Recorded, Concludes, SameJob, Current, Exists
<1>3. \A i \in S : Exists(b, i) /\ ~Settled(b, i) /\ Settled(w, i)
  BY DEF Concludes, Recorded, Settled
<1>4. \A i \in Ids \ S : w.task[i].outcome = b.task[i].outcome /\ (Settled(w, i) <=> Settled(b, i))
  BY DEF Concludes, Recorded, Settled, SameJob
<1>5. CurrentOf(v, S) = H /\ H \subseteq Members
  <2>1. CurrentOf(v, S) = H
    BY <1>2 DEF CurrentOf
  <2> QED BY <2>1, <1>3, CurrentType DEF CurrentOf
<1>6. \A e \in Entries(v, S) : \E i \in S : e = <<Current(b, i), w.task[i].outcome>>
  BY <1>2 DEF Entries, Recorded
<1>7. \A i \in S : <<Current(b, i), w.task[i].outcome>> \in Entries(v, S)
  BY <1>2 DEF Entries, Recorded
<1>8. w.result = b.result \cup Entries(v, S) /\ w.published = b.published \cup Entries(v, S)
  BY DEF Recorded, Concludes, SameRecords
<1>9. \A e \in Entries(v, S) : e[1] \in H
  BY <1>6 DEF CurrentOf
<1>10. \A i \in Ids : Current(b, i) \in H <=> i \in S
  BY DEF CurrentOf, Current
<1>11. /\ \A m \in w.deadLetter : m \in b.deadLetter \/ (m \in H /\ w.deadLetterExpiry[m] # Out)
       /\ \A m \in Members :
             /\ b.deadLetterExpiry[m] # Out => w.deadLetterExpiry[m] # Out
             /\ m \in H => w.resultExpiry[m] # Out /\ w.taskExpiry[m] # Out
             /\ m \notin H => /\ w.resultExpiry[m] = b.resultExpiry[m]
                              /\ w.taskExpiry[m] = b.taskExpiry[m]
  BY <1>5 DEF Recorded, Concludes, SameRecords
<1>12. \A m \in H : IsGiven(b, m)
  <2> SUFFICES ASSUME NEW i \in S PROVE IsGiven(b, Current(b, i))
    BY DEF CurrentOf
  <2>1. b.task[i].generation = b.generations[i] /\ b.generations[i] \in 0..MaxGen
    BY <1>3 DEF Books, Numbered, Keyspace
  <2> QED BY <2>1 DEF IsGiven, Current
<1> HIDE DEF H
<1>13. Numbered(w)
  <2>1. \A m : IsGiven(w, m) <=> IsGiven(b, m)
    BY <1>1 DEF IsGiven
  <2>2. \A i \in Ids : Exists(w, i) => w.task[i].generation = w.generations[i]
    BY <1>1, <1>2 DEF Books, Numbered
  <2>3. \A r \in w.result \cup w.published : IsGiven(w, r[1])
    BY <2>1, <1>8, <1>9, <1>12 DEF Books, Numbered
  <2>4. \A p \in w.retains \cup w.retainedBy : IsGiven(w, p[1]) /\ IsGiven(w, p[2])
    BY <2>1, <1>1 DEF Books, Numbered
  <2>5. ASSUME NEW m \in Members,
               \/ w.continuations[m] # Out \/ w.taskExpiry[m] # Out
               \/ w.resultExpiry[m] # Out \/ m \in w.deadLetter
        PROVE  IsGiven(b, m)
    <3>1. CASE m \in H
      BY <3>1, <1>12
    <3>2. CASE m \notin H
      BY <3>2, <2>5, <1>1, <1>11 DEF Books, Numbered
    <3> QED BY <3>1, <3>2
  <2> QED BY <2>1, <2>2, <2>3, <2>4, <2>5 DEF Numbered
<1>14. Told(w)
  <2>1. \A e \in b.published : e[1] \notin H
    <3> SUFFICES ASSUME NEW e \in b.published, NEW i \in S, e[1] = Current(b, i)
                 PROVE  FALSE
      BY DEF CurrentOf, H
    <3> QED BY <1>3 DEF Books, Told
  <2>2. ASSUME NEW r \in Entries(v, S), NEW e \in Entries(v, S), r[1] = e[1] PROVE r = e
    <3>1. PICK i \in S : r = <<Current(b, i), w.task[i].outcome>>
      BY <1>6
    <3>2. PICK j \in S : e = <<Current(b, j), w.task[j].outcome>>
      BY <1>6
    <3>3. i = j
      BY <3>1, <3>2, <2>2 DEF Current
    <3> QED BY <3>1, <3>2, <3>3
  <2>3. \A r, e \in w.published : r[1] = e[1] => r = e
    BY <2>1, <2>2, <1>8, <1>9 DEF Books, Told
  <2>4. w.result \subseteq w.published
    BY <1>8 DEF Books, Told
  <2>5. ASSUME NEW i \in Ids, Exists(w, i), Settled(w, i)
        PROVE  <<Current(w, i), w.task[i].outcome>> \in w.published
    <3>1. CASE i \in S
      BY <3>1, <1>2, <1>7, <1>8
    <3>2. CASE i \notin S
      BY <3>2, <2>5, <1>2, <1>4, <1>8 DEF Books, Told
    <3> QED BY <3>1, <3>2
  <2>6. ASSUME NEW i \in Ids, Exists(w, i), ~Settled(w, i), NEW e \in w.published
        PROVE  e[1] # Current(w, i)
    <3>1. i \notin S /\ Current(w, i) = Current(b, i) /\ Current(b, i) \notin H
      BY <2>6, <1>2, <1>3, <1>10
    <3>2. CASE e \in b.published
      BY <3>1, <3>2, <2>6, <1>2, <1>4 DEF Books, Told
    <3>3. CASE e \in Entries(v, S)
      BY <3>1, <3>3, <1>9
    <3> QED BY <3>2, <3>3, <1>8
  <2> QED BY <2>3, <2>4, <2>5, <2>6 DEF Told
<1>15. \A m \in Members : IsCurrent(w, m) <=> IsCurrent(b, m)
  BY <1>2, MemberType DEF IsCurrent
<1>16. Pinned(w)
  BY <1>0, <1>1, <1>15 DEF Books, Pinned
<1>17. Bounded(w)
  BY <1>1, <1>2 DEF Books, Bounded
<1>18. \A m \in Members : /\ Live(w, m) => Live(b, m)
                          /\ Live(b, m) => Live(w, m) \/ m \in H
  <2> SUFFICES ASSUME NEW m \in Members, IsCurrent(b, m)
               PROVE  /\ ~Settled(w, m[1]) => ~Settled(b, m[1])
                      /\ ~Settled(b, m[1]) => ~Settled(w, m[1]) \/ m \in H
    BY <1>15 DEF Live
  <2>1. m[1] \in Ids /\ m = Current(b, m[1])
    BY MemberType, CurrentMember
  <2> QED BY <2>1, <1>3, <1>4, <1>10
<1>19. Releasable(w, H)
  <2> SUFFICES ASSUME NEW p \in b.retains, p[1] \notin H PROVE Free(w, p[1])
    BY <1>1 DEF Releasable
  <2>1. p[1] \in Members /\ Free(b, p[1])
    BY <1>0 DEF Books, Releasable
  <2> QED BY <2>1, <1>1, <1>18 DEF Free
<1>20. Resigned(w, H)
  BY <1>1, <1>18 DEF Books, Resigned
<1>21. RetentionSet(w)
  <2>1. ASSUME NEW i \in Ids, Exists(w, i), Settled(w, i)
        PROVE  w.taskExpiry[Current(w, i)] # Out
    <3>1. Exists(b, i) /\ Current(w, i) = Current(b, i) /\ Current(b, i) \in Members
      BY <2>1, <1>2, CurrentType
    <3>2. CASE i \in S
      BY <3>1, <3>2, <1>10, <1>11
    <3>3. CASE i \notin S
      BY <2>1, <3>1, <3>3, <1>4, <1>10, <1>11 DEF Books, RetentionSet
    <3> QED BY <3>2, <3>3
  <2>2. ASSUME NEW r \in w.result PROVE w.resultExpiry[r[1]] # Out
    <3>1. CASE r[1] \in H
      BY <3>1, <1>5, <1>11
    <3>2. CASE r[1] \notin H
      <4>1. r \in b.result /\ r[1] \in Members
        BY <3>2, <1>0, <1>8, <1>9
      <4> QED BY <4>1, <3>2, <1>11 DEF Books, RetentionSet
    <3> QED BY <3>1, <3>2
  <2>3. ASSUME NEW m \in w.deadLetter PROVE w.deadLetterExpiry[m] # Out
    BY <1>0, <1>11 DEF Books, RetentionSet
  <2> QED BY <2>1, <2>2, <2>3 DEF RetentionSet
<1>22. Charged(w)
  BY DEF Recorded, Concludes, Charged, Exists
<1>23. Tidy(b, w)
  <2>1. Keeps(b, w)
    BY <1>1, <1>2, <1>8 DEF Keeps
  <2> QED BY <2>1, <1>1, <1>18 DEF Tidy
<1> QED BY <1>13, <1>14, <1>16, <1>17, <1>19, <1>20, <1>21, <1>22, <1>23 DEF Books, H

\* settleTask, on tasks that have just been given their outcome.
LEMMA SettleTaskBooks ==
    ASSUME NEW b, b \in Keyspace, Books(b, {}), NEW S \in SUBSET Ids,
           NEW v, Ready(v), Concludes(b, v, S),
           NEW P, P \subseteq v.retains, \A p \in P : p[1] \in CurrentOf(v, S),
           NEW y, y = SettleTask(v, S, P)
    PROVE  Books(y, {}) /\ Tidy(b, y) /\ y.now = b.now
<1> DEFINE w == ScheduleTerminalRetention(PersistTerminalResult(v, S), S)
           a == ApplyCompletionPolicy(w, S)
           H == CurrentOf(b, S)
<1>1. \A i \in S : /\ Exists(b, i) /\ Exists(v, i) /\ Settled(v, i)
                   /\ Current(v, i) = Current(b, i)
  BY DEF Concludes, Exists, Current
<1>2. CurrentOf(v, S) = H
  BY <1>1 DEF CurrentOf
<1>3. y = ReleaseOwnedHolds(a, H, P)
  BY <1>2 DEF SettleTask
<1> HIDE DEF w, a
<1>4. Ready(w) /\ Recorded(v, w, S)
  BY <1>1, SettlementRecorded DEF w
<1>5. Books(w, H) /\ Tidy(b, w)
  BY <1>4, SettlementBooks DEF Ready
<1>6. \A i \in S : Exists(w, i) /\ Settled(w, i)
  BY <1>1, <1>4 DEF Recorded, Exists, Settled
<1>7. w \in Keyspace /\ a \in Keyspace
  BY <1>4, <1>6, ApplyCompletionPolicyEnds DEF a, Ends, Ready
<1>8. Books(a, H) /\ Tidy(w, a) /\ SameRecords(w, a)
  BY <1>5, <1>6, <1>7, ApplyCompletionPolicyBooks DEF a
<1>9. H \in SUBSET Members
  BY <1>1, CurrentType DEF CurrentOf
<1>10. ASSUME NEW m \in H PROVE ~Live(a, m)
  <2>1. PICK i \in S : m = Current(b, i)
    BY DEF CurrentOf
  <2>2. m \in Members /\ m[1] = i
    BY <1>9, <2>1 DEF Current
  <2> QED BY <2>1, <2>2, <1>6, <1>8 DEF Tidy, Live
<1>11. P \subseteq a.retains /\ \A p \in P : p[1] \in H
  BY <1>2, <1>4, <1>8 DEF Recorded, SameRecords
<1> HIDE DEF H
<1>12. Books(y, {}) /\ Tidy(a, y) /\ y.now = a.now
  BY <1>3, <1>7, <1>8, <1>9, <1>10, <1>11, ReleaseSettledBooks
<1>13. Tidy(b, y)
  BY <1>5, <1>7, <1>8, <1>12, TidyTransitive
<1> QED BY <1>12, <1>13, <1>4, <1>8 DEF Recorded, Concludes, SameRecords

-----------------------------------------------------------------------------
(* The sweep. *)

\* Books that are right, and nothing dropped that somebody still holds.
InOrder(s, u) == Books(u, {}) /\ Tidy(s, u)

\* Two steps that keep the books make one.
LEMMA InOrderTransitive ==
    ASSUME NEW s, s \in Keyspace, NEW u, NEW v, InOrder(s, u), InOrder(u, v)
    PROVE  InOrder(s, v)
BY TidyTransitive DEF InOrder

\* Moving tasks, other than to active.
LEMMA RelistedBooks ==
    ASSUME NEW s, s \in Keyspace, Books(s, {}), NEW to, DOMAIN to \subseteq Ids,
           \A i \in DOMAIN to : /\ to[i] \in Lists
                                /\ to[i] # "active" \/ s.task[i].currentList = "active",
           NEW score, NEW order, NEW u, u = MoveAll(s, to, score, order)
    PROVE  InOrder(s, u) /\ SameRecords(s, u)
<1>1. /\ SameRecords(s, u) /\ u.taskExpiry = s.taskExpiry
      /\ u.task = [i \in Ids |->
            IF i \in DOMAIN to THEN [s.task[i] EXCEPT !.currentList = to[i]] ELSE s.task[i]]
  BY KeyspaceFields, MoveAllFields
<1>2. ASSUME NEW i \in Ids
      PROVE  /\ SameJob(s.task[i], u.task[i])
             /\ ChargedOnce(s.task[i]) => ChargedOnce(u.task[i])
  <2>1. CASE i \in DOMAIN to
    <3>1. u.task[i] = [s.task[i] EXCEPT !.currentList = to[i]]
      BY <1>1, <2>1
    <3>2. s.task[i] \in TaskRecord
      BY TaskType
    <3> QED BY <2>1, <3>1, <3>2, ChargedElsewhere
  <2>2. CASE i \notin DOMAIN to
    BY <1>1, <2>2 DEF SameJob
  <2> QED BY <2>1, <2>2
<1>3. Trimmed(s, u, {})
  BY <1>1, <1>2 DEF Trimmed
<1>4. MayGo(s, {})
  BY DEF MayGo
<1> QED BY <1>1, <1>3, <1>4, TrimmedBooks DEF InOrder

\* syncDelayed moves due tasks to wait.
LEMMA SyncDelayedBooks ==
    ASSUME NEW x, Sound(x.db), Books(x.db, {}), NEW y \in SyncDelayed(x)
    PROVE  InOrder(x.db, y.db)
<1> DEFINE s == x.db
<1>1. PICK B \in DueBatches(s.scheduled, s.now, x.left) :
         \E q \in Walks(B, s.scheduled) :
            y = Swept(MoveAll(s, [i \in B |-> "wait"], 0, q), x.left, B)
  BY DEF SyncDelayed
<1>2. PICK q \in Walks(B, s.scheduled) :
         y = Swept(MoveAll(s, [i \in B |-> "wait"], 0, q), x.left, B)
  BY <1>1
<1> DEFINE to == [i \in B |-> "wait"]
<1>3. y.db = MoveAll(s, to, 0, q)
  BY <1>2 DEF Swept
<1>4. s \in Keyspace /\ Books(s, {})
  BY DEF Sound
<1>5. DOMAIN to \subseteq Ids /\ \A i \in DOMAIN to : to[i] \in Lists /\ to[i] # "active"
  BY <1>4 DEF DueBatches, Keyspace, Lists
<1> HIDE DEF s, to
<1>6. InOrder(s, y.db)
  BY <1>3, <1>4, <1>5, RelistedBooks
<1> QED BY <1>6 DEF s

\* failTask charges a stalled attempt, and settles a task that has had its last.
LEMMA StallAllBooks ==
    ASSUME NEW s, Sound(s), Books(s, {}), NEW E, NEW S, NEW q, CanStall(s, E, S, q),
           NEW P, P \subseteq s.retains, \A p \in P : p[1] \in CurrentOf(s, S),
           NEW y, y = StallAll(s, E, S, q, P)
    PROVE  InOrder(s, y)
<1> DEFINE v == Stalling(s, E, S, q)
<1>1. y = SettleTask(v, S, P)
  BY DEF StallAll, Stalling
<1> HIDE DEF v
<1>2. /\ Ready(v) /\ SameButLists([s EXCEPT !.lock = v.lock], v)
      /\ Charges(s, v, E, S)
      /\ \A i \in S : Exists(v, i) /\ Settled(v, i)
  BY StallingReady DEF v
<1>3. s \in Keyspace /\ v \in Keyspace /\ E \in SUBSET Ids /\ S \in SUBSET E
  BY <1>2 DEF Sound, Ready, CanStall
<1>4. SameRecords(s, v) /\ v.taskExpiry = s.taskExpiry
  BY <1>2, <1>3 DEF SameButLists, SameRecords, Keyspace
<1>5. \A i \in Ids \ S : SameJob(s.task[i], v.task[i])
  BY <1>2, <1>3 DEF Charges, SameJob
<1>6. \A i \in S : /\ Exists(s, i) /\ ~Settled(s, i) /\ Settled(v, i)
                   /\ v.task[i].generation = s.task[i].generation
                   /\ v.task[i].config = s.task[i].config
  BY <1>2, <1>3 DEF Charges
<1>7. Charged(v)
  <2> SUFFICES ASSUME NEW i \in Ids, Exists(v, i) PROVE ChargedOnce(v.task[i])
    BY DEF Charged
  <2>1. CASE i \notin E
    BY <2>1, <1>2 DEF Charges, Books, Charged, Exists
  <2>2. CASE i \in E
    <3> DEFINE t == s.task[i]
               r == v.task[i]
    <3>1. t \in TaskRecord /\ r \in TaskRecord
      BY <1>2, <1>3, <2>2, TaskType DEF Charges
    <3>2. ChargedOnce(t) /\ Running(t)
      BY <1>2, <2>2 DEF Charges, Books, Charged, Settled, Running
    <3>3. ~Running(r) /\ r.outcome # "success"
      BY <1>2, <2>2 DEF Charges, Settled, Running
    <3>4. /\ r.attempt = t.attempt /\ r.handlerFailureCount = t.handlerFailureCount
          /\ r.stalledAttemptCount = t.stalledAttemptCount + 1
      BY <1>2, <2>2 DEF Charges
    <3> HIDE DEF t, r
    <3>5. r.handlerFailureCount + r.stalledAttemptCount
             = t.handlerFailureCount + t.stalledAttemptCount + 1
      BY <3>1, <3>4 DEF TaskRecord
    <3>6. ChargedOnce(r)
      BY <3>1, <3>2, <3>3, <3>4, <3>5, ChargeEased DEF Spent
    <3> QED BY <3>6 DEF r
  <2> QED BY <2>1, <2>2
<1>8. Concludes(s, v, S)
  BY <1>4, <1>5, <1>6, <1>7 DEF Concludes
<1>9. S \in SUBSET Ids /\ P \subseteq v.retains /\ CurrentOf(v, S) = CurrentOf(s, S)
  BY <1>3, <1>4, <1>6 DEF SameRecords, CurrentOf, Current
<1> QED BY <1>1, <1>2, <1>3, <1>8, <1>9, SettleTaskBooks DEF InOrder

\* syncLocks keeps the books: it charges a stall to the attempts that it ends, and to no other.
LEMMA SyncLocksBooks ==
    ASSUME NEW x, Sound(x.db), Books(x.db, {}), NEW y \in SyncLocks(x)
    PROVE  InOrder(x.db, y.db)
BY SyncLocksStep, StallAllBooks

\* syncRetentionContinuations goes on releasing the holds of a holder that is
\* no longer live.
LEMMA SyncRetentionContinuationsBooks ==
    ASSUME NEW x, Sound(x.db), Books(x.db, {}), NEW y \in SyncRetentionContinuations(x)
    PROVE  InOrder(x.db, y.db)
<1> DEFINE s == x.db
           queued == {m \in Members : s.continuations[m] # Out}
           oldest == {h \in queued : \A m \in queued :
                                        s.continuations[h] <= s.continuations[m]}
           Released_(h) == {Swept(ReleaseOwnedHolds(s, {h}, P), x.left, P) :
                              P \in Pops(s, {h}, x.left)}
<1>1. s \in Keyspace /\ Books(s, {})
  BY DEF Sound
<1>2. CASE queued = {}
  <2>1. y = x
    BY <1>2 DEF SyncRetentionContinuations
  <2>2. Tidy(x.db, x.db)
    BY DEF Tidy, Keeps
  <2> QED BY <2>1, <2>2 DEF InOrder
<1>3. CASE queued # {}
  <2>1. y \in UNION {Released_(h) : h \in oldest}
    BY <1>3 DEF SyncRetentionContinuations
  <2> HIDE DEF Released_
  <2>2. PICK h \in oldest : y \in Released_(h)
    BY <2>1
  <2>3. PICK P \in Pops(s, {h}, x.left) : y = Swept(ReleaseOwnedHolds(s, {h}, P), x.left, P)
    BY <2>2, Zenon DEF Released_
  <2>4. h \in Members /\ ~Live(s, h)
    BY <2>2, <1>1 DEF Books, Resigned
  <2>5. P \subseteq s.retains /\ \A p \in P : p[1] \in {h}
    BY <2>3 DEF Pops
  <2>6. y.db = ReleaseOwnedHolds(s, {h}, P)
    BY <2>3 DEF Swept
  <2>7. Books(s, {h})
    BY <1>1 DEF Books, Releasable, Resigned
  <2> HIDE DEF s
  <2>8. InOrder(s, y.db)
    BY <1>1, <2>4, <2>5, <2>6, <2>7, ReleaseSettledBooks DEF InOrder
  <2> QED BY <2>8 DEF s
<1> QED BY <1>2, <1>3

\* syncTaskExpiry deletes settled records that no hold keeps, and comes back to
\* the ones that one does.
LEMMA SyncTaskExpiryBooks ==
    ASSUME NEW x, Sound(x.db), Books(x.db, {}), NEW y \in SyncTaskExpiry(x)
    PROVE  InOrder(x.db, y.db)
<1> DEFINE s == x.db
           Live_(B) == {m \in B : IsCurrent(s, m) /\ Settled(s, m[1])}
           Held(B) == {m \in Live_(B) : HasRetentionHolds(s, m)}
           Expire(B) ==
            [DeleteAll(s, {m[1] : m \in Live_(B) \ Held(B)}) EXCEPT
                !.taskExpiry = Postpone(s, s.taskExpiry, B, Held(B))]
<1>1. PICK B \in DueBatches(s.taskExpiry, s.now, x.left) :
         y = Swept(Expire(B), x.left, B)
  BY Zenon DEF SyncTaskExpiry
<1> DEFINE D == {m[1] : m \in Live_(B) \ Held(B)}
           K == Held(B)
           v == DeleteAll(s, D)
           u == y.db
           taskExpiry == Postpone(s, s.taskExpiry, B, K)
<1>2. s \in Keyspace /\ Books(s, {})
  BY DEF Sound
<1>3. B \subseteq Members /\ \A m \in B : s.taskExpiry[m] # Out
  BY <1>2 DEF DueBatches, Keyspace
<1>4. u = [v EXCEPT !.taskExpiry = taskExpiry]
  BY <1>1 DEF Swept
<1>5. K \subseteq B /\ \A m \in B : IsCurrent(s, m) /\ Settled(s, m[1]) => m \in K \/ m[1] \in D
  OBVIOUS
<1>6. \A i \in D : \E m \in B : /\ m[1] = i /\ IsCurrent(s, m) /\ Settled(s, i)
                                /\ ~HasRetentionHolds(s, m)
  OBVIOUS
<1>7. v = DeleteAll(s, D)
  OBVIOUS
<1>8. \A m \in Members : taskExpiry[m] = IF m \in K THEN s.now + HoldRecheck
                                         ELSE IF m \in B THEN Out ELSE s.taskExpiry[m]
  BY DEF Postpone
<1>9. s.now + HoldRecheck # Out
  BY <1>2, DurationsAssumption DEF Keyspace, Out
<1> HIDE DEF s, D, K, v, u, taskExpiry
<1>10. /\ SameRecords(s, v) /\ Fielded(s)
       /\ v.task = [i \in Ids |-> IF i \in D THEN NoTask ELSE s.task[i]]
  BY <1>2, <1>7, KeyspaceFields, DeleteAllFields
<1>11. D \in SUBSET Ids /\ \A i \in D : /\ Settled(s, i)
                                        /\ ~HasRetentionHolds(s, Current(s, i))
  BY <1>3, <1>6, MemberType, CurrentMember
<1>12. Safe(s, v)
  <2>1. Sound(s)
    BY DEF s
  <2>2. \A i \in D : Exists(s, i) /\ Settled(s, i)
    BY <1>3, <1>6, CurrentMember
  <2> QED BY <1>7, <1>11, <2>1, <2>2, DeleteSettledSafe
<1>13. /\ SameRecords(s, u) /\ u.taskExpiry = taskExpiry
       /\ u.task = [i \in Ids |-> IF i \in D THEN NoTask ELSE s.task[i]]
  <2>1. v \in Keyspace
    BY <1>12 DEF Safe, Sound
  <2>2. SameRecords(v, u) /\ u.taskExpiry = taskExpiry /\ u.task = v.task
    BY <1>4, <2>1 DEF Keyspace, SameRecords
  <2> QED BY <1>10, <2>2 DEF SameRecords
<1>14. ASSUME NEW i \in Ids \ D, Exists(s, i), Settled(s, i), s.taskExpiry[Current(s, i)] # Out
       PROVE  taskExpiry[Current(s, i)] # Out
  <2>1. Current(s, i) \in Members /\ IsCurrent(s, Current(s, i)) /\ Current(s, i)[1] = i
    BY <1>2, <1>14, CurrentType DEF IsCurrent, Current
  <2>2. CASE Current(s, i) \in B
    BY <1>5, <1>8, <1>9, <1>14, <2>1, <2>2
  <2>3. CASE Current(s, i) \notin B
    <3>1. taskExpiry[Current(s, i)] = s.taskExpiry[Current(s, i)]
      BY <1>5, <1>8, <2>1, <2>3
    <3> QED BY <1>14, <3>1
  <2> QED BY <2>2, <2>3
<1>15. ASSUME NEW m \in Members, taskExpiry[m] # Out PROVE s.taskExpiry[m] # Out
  <2>1. CASE m \in B
    BY <1>3, <2>1
  <2>2. CASE m \notin B
    <3>1. taskExpiry[m] = s.taskExpiry[m]
      BY <1>5, <1>8, <2>2
    <3> QED BY <1>15, <3>1
  <2> QED BY <2>1, <2>2
<1>16. Trimmed(s, u, D)
  BY <1>11, <1>13, <1>14, <1>15 DEF Trimmed, SameJob
<1>17. MayGo(s, D)
  BY <1>11 DEF MayGo, HasRetentionHolds
<1>18. InOrder(s, u)
  BY <1>2, <1>11, <1>16, <1>17, TrimmedBooks DEF InOrder
<1> QED BY <1>18 DEF s, u

\* A step that forgets records, and not those of a held generation.
LEMMA RecordsFadeBooks ==
    ASSUME NEW s, s \in Keyspace, Books(s, {}), NEW u,
           u.generations = s.generations, u.task = s.task, u.taskExpiry = s.taskExpiry,
           u.retainedBy = s.retainedBy, u.retains = s.retains,
           u.continuations = s.continuations, RecordsFade(s, u),
           \A p \in s.retainedBy : \A r \in s.result : r[1] = p[1] => r \in u.result
    PROVE  InOrder(s, u)
<1>1. TasksFade(s, u) /\ ExpiriesFade(s, u)
  BY DEF TasksFade, ExpiriesFade, SameJob
<1>2. HoldsFade(s, u, {})
  BY DEF HoldsFade, IsCurrent, Free, Live, Settled
<1>3. Fades(s, u, {})
  BY <1>1, <1>2 DEF Fades
<1>4. s.retainedBy \ u.retainedBy = {}
  OBVIOUS
<1> QED BY <1>3, <1>4, FadesBooks, FadesTidy DEF InOrder

\* syncResultExpiry forgets results that no hold keeps.
LEMMA SyncResultExpiryBooks ==
    ASSUME NEW x, Sound(x.db), Books(x.db, {}), NEW y \in SyncResultExpiry(x)
    PROVE  InOrder(x.db, y.db)
<1> DEFINE s == x.db
           Held(B) == {m \in B : HasRetentionHolds(s, m)}
           Expire(B) ==
            [s EXCEPT
                !.result = {r \in @ : r[1] \notin B \ Held(B)},
                !.resultExpiry = Postpone(s, @, B, Held(B))]
<1>1. PICK B \in DueBatches(s.resultExpiry, s.now, x.left) :
         y = Swept(Expire(B), x.left, B)
  BY Zenon DEF SyncResultExpiry
<1> DEFINE u == y.db
           K == Held(B)
           result == {r \in s.result : r[1] \notin B \ K}
           resultExpiry == Postpone(s, s.resultExpiry, B, K)
<1>2. s \in Keyspace /\ Books(s, {}) /\ s.result \subseteq Members \X Outcomes
  BY DEF Sound, Keyspace
<1>3. B \subseteq Members /\ \A m \in B : s.resultExpiry[m] # Out
  BY <1>2 DEF DueBatches, Keyspace
<1>4. u = [s EXCEPT !.result = result, !.resultExpiry = resultExpiry]
  BY <1>1 DEF Swept
<1>5. K \subseteq B /\ \A m \in B : HasRetentionHolds(s, m) => m \in K
  OBVIOUS
<1>6. \A m \in Members : resultExpiry[m] = IF m \in K THEN s.now + HoldRecheck
                                           ELSE IF m \in B THEN Out ELSE s.resultExpiry[m]
  BY DEF Postpone
<1>7. s.now + HoldRecheck # Out
  BY <1>2, DurationsAssumption DEF Keyspace, Out
<1>8. result \subseteq s.result /\ \A r \in s.result : r \in result <=> r[1] \notin B \/ r[1] \in K
  OBVIOUS
<1> HIDE DEF s, K, u, result, resultExpiry
<1>9. /\ u.generations = s.generations /\ u.task = s.task /\ u.taskExpiry = s.taskExpiry
      /\ u.retainedBy = s.retainedBy /\ u.retains = s.retains
      /\ u.continuations = s.continuations /\ u.published = s.published
      /\ u.deadLetter = s.deadLetter /\ u.deadLetterExpiry = s.deadLetterExpiry
      /\ u.result = result /\ u.resultExpiry = resultExpiry
  BY <1>2, <1>4 DEF Keyspace
<1>10. ASSUME NEW p \in s.retainedBy, NEW r \in s.result, r[1] = p[1] PROVE r \in result
  <2>1. HasRetentionHolds(s, r[1])
    BY <1>10 DEF HasRetentionHolds
  <2> QED BY <1>5, <1>8, <2>1
<1>11. ASSUME NEW r \in result, s.resultExpiry[r[1]] # Out PROVE resultExpiry[r[1]] # Out
  <2>1. r[1] \in Members /\ (r[1] \notin B \/ r[1] \in K)
    BY <1>2, <1>8
  <2>2. CASE r[1] \in K
    BY <1>6, <1>7, <2>1, <2>2
  <2>3. CASE r[1] \notin K
    <3>1. resultExpiry[r[1]] = s.resultExpiry[r[1]]
      BY <1>6, <2>1, <2>3
    <3> QED BY <1>11, <3>1
  <2> QED BY <2>2, <2>3
<1>12. ASSUME NEW m \in Members, resultExpiry[m] # Out PROVE s.resultExpiry[m] # Out
  <2>1. CASE m \in B
    BY <1>3, <2>1
  <2>2. CASE m \notin B
    <3>1. resultExpiry[m] = s.resultExpiry[m]
      BY <1>5, <1>6, <2>2
    <3> QED BY <1>12, <3>1
  <2> QED BY <2>1, <2>2
<1>13. RecordsFade(s, u)
  BY <1>8, <1>9, <1>11, <1>12 DEF RecordsFade
<1>14. InOrder(s, u)
  BY <1>2, <1>9, <1>10, <1>13, RecordsFadeBooks
<1> QED BY <1>14 DEF s, u

\* syncDeadLetterExpiry forgets dead letters.
LEMMA SyncDeadLetterExpiryBooks ==
    ASSUME NEW x, Sound(x.db), Books(x.db, {}), NEW y \in SyncDeadLetterExpiry(x)
    PROVE  InOrder(x.db, y.db)
<1> DEFINE s == x.db
           Expire(B) == [s EXCEPT !.deadLetter = @ \ B,
                                  !.deadLetterExpiry = Unschedule(@, B)]
<1>1. PICK B \in DueBatches(s.deadLetterExpiry, s.now, x.left) :
         y = Swept(Expire(B), x.left, B)
  BY Zenon DEF SyncDeadLetterExpiry
<1> DEFINE u == y.db
           deadLetter == s.deadLetter \ B
           deadLetterExpiry == Unschedule(s.deadLetterExpiry, B)
<1>2. s \in Keyspace /\ Books(s, {}) /\ s.deadLetter \subseteq Members
  BY DEF Sound, Keyspace
<1>3. u = [s EXCEPT !.deadLetter = deadLetter, !.deadLetterExpiry = deadLetterExpiry]
  BY <1>1 DEF Swept
<1>4. /\ deadLetter \subseteq s.deadLetter
      /\ \A m \in deadLetter : deadLetterExpiry[m] = s.deadLetterExpiry[m]
  BY <1>2 DEF Unschedule
<1> HIDE DEF s, u, deadLetter, deadLetterExpiry
<1>5. /\ u.generations = s.generations /\ u.task = s.task /\ u.taskExpiry = s.taskExpiry
      /\ u.retainedBy = s.retainedBy /\ u.retains = s.retains
      /\ u.continuations = s.continuations /\ u.published = s.published
      /\ u.deadLetter = deadLetter /\ u.deadLetterExpiry = deadLetterExpiry
      /\ u.result = s.result /\ u.resultExpiry = s.resultExpiry
  BY <1>2, <1>3 DEF Keyspace
<1>6. RecordsFade(s, u)
  BY <1>4, <1>5 DEF RecordsFade
<1>7. InOrder(s, u)
  BY <1>2, <1>5, <1>6, RecordsFadeBooks
<1> QED BY <1>7 DEF s, u

\* syncTerminalExpiry takes settled tasks off their terminal list.
LEMMA SyncTerminalExpiryBooks ==
    ASSUME NEW x, Sound(x.db), Books(x.db, {}), NEW y \in SyncTerminalExpiry(x)
    PROVE  InOrder(x.db, y.db)
<1> DEFINE s == x.db
           Removed(B) == {i \in s.success \cup s.failed :
                             \E m \in B : m[1] = i /\ IsCurrent(s, m)}
           Expire(B) ==
            [s EXCEPT
                !.success = @ \ Removed(B),
                !.failed = @ \ Removed(B),
                !.task = [i \in Ids |->
                    IF i \in Removed(B) THEN Delisted(s.task[i]) ELSE s.task[i]],
                !.terminalExpiry = Unschedule(@, B)]
<1>1. PICK B \in DueBatches(s.terminalExpiry, s.now, x.left) :
         y = Swept(Expire(B), x.left, B)
  BY Zenon DEF SyncTerminalExpiry
<1> DEFINE u == y.db
           R == Removed(B)
           task == [i \in Ids |-> IF i \in R THEN Delisted(s.task[i]) ELSE s.task[i]]
<1>2. s \in Keyspace /\ Books(s, {})
  BY DEF Sound
<1>3. u = [s EXCEPT !.success = @ \ R, !.failed = @ \ R, !.task = task,
                    !.terminalExpiry = Unschedule(@, B)]
  BY <1>1 DEF Swept
<1> HIDE DEF s, u, R
<1>4. ASSUME NEW i \in Ids
      PROVE  /\ SameJob(s.task[i], task[i])
             /\ ChargedOnce(s.task[i]) => ChargedOnce(task[i])
  <2>1. CASE i \in R
    <3>1. task[i] = [s.task[i] EXCEPT !.currentList = "none"]
      BY <2>1 DEF Delisted
    <3>2. s.task[i] \in TaskRecord /\ "none" \in Lists
      BY <1>2, TaskType DEF Lists
    <3> QED BY <3>1, <3>2, ChargedElsewhere
  <2>2. CASE i \notin R
    BY <2>2 DEF SameJob
  <2> QED BY <2>1, <2>2
<1> HIDE DEF task
<1>5. SameRecords(s, u) /\ u.taskExpiry = s.taskExpiry /\ u.task = task
  BY <1>2, <1>3 DEF Keyspace, SameRecords
<1>6. Trimmed(s, u, {}) /\ MayGo(s, {})
  BY <1>4, <1>5 DEF Trimmed, MayGo
<1>7. InOrder(s, u)
  BY <1>2, <1>6, TrimmedBooks DEF InOrder
<1> QED BY <1>7 DEF s, u

\* A step that touches nothing in the books.
Idle(s, u) ==
    /\ u.task = s.task /\ u.generations = s.generations
    /\ u.result = s.result /\ u.published = s.published /\ u.deadLetter = s.deadLetter
    /\ u.taskExpiry = s.taskExpiry /\ u.resultExpiry = s.resultExpiry
    /\ u.deadLetterExpiry = s.deadLetterExpiry
    /\ u.retainedBy = s.retainedBy /\ u.retains = s.retains
    /\ u.continuations = s.continuations

\* What changes nothing on the books keeps them.
LEMMA IdleBooks ==
    ASSUME NEW s, s \in Keyspace, Books(s, {}), NEW u, Idle(s, u)
    PROVE  InOrder(s, u)
<1>1. RecordsFade(s, u)
  BY DEF Idle, RecordsFade
<1> QED BY <1>1, RecordsFadeBooks DEF Idle

\* Each syncer.
LEMMA SyncerBooks ==
    ASSUME NEW n, NEW x, Sound(x.db), Books(x.db, {}), NEW y \in Syncer(n, x)
    PROVE  InOrder(x.db, y.db)
<1>1. \/ y = x
      \/ y \in SyncDelayed(x)
      \/ y \in SyncLocks(x)
      \/ y \in SyncRetentionContinuations(x)
      \/ y \in SyncTaskExpiry(x)
      \/ y \in SyncResultExpiry(x)
      \/ y \in SyncTerminalExpiry(x)
      \/ y \in SyncDeadLetterExpiry(x)
  BY DEF Syncer
<1>2. CASE y = x
  BY <1>2 DEF InOrder, Tidy, Keeps
<1> QED BY <1>1, <1>2, SyncDelayedBooks, SyncLocksBooks,
           SyncRetentionContinuationsBooks, SyncTaskExpiryBooks,
           SyncResultExpiryBooks, SyncTerminalExpiryBooks, SyncDeadLetterExpiryBooks

\* syncAll.
LEMMA SyncAllBooks ==
    ASSUME NEW s, Sound(s), Books(s, {}), NEW x \in SyncAll(s)
    PROVE  InOrder(s, x.db)
<1> DEFINE All(X) == \A y \in X : Sound(y.db) /\ InOrder(s, y.db)
           Then(X, n) == UNION {Syncer(SyncerAt(s.cursor, n), y) : y \in X}
           X0 == Then({[db |-> s, left |-> Batch]}, 0)
           X3 == Then(Then(Then(X0, 1), 2), 3)
           X6 == Then(Then(Then(X3, 4), 5), 6)
<1>1. ASSUME NEW X, All(X), NEW n PROVE All(Then(X, n))
  <2> SUFFICES ASSUME NEW z \in Then(X, n) PROVE Sound(z.db) /\ InOrder(s, z.db)
    OBVIOUS
  <2>1. PICK y \in X : z \in Syncer(SyncerAt(s.cursor, n), y)
    OBVIOUS
  <2>2. Sound(y.db) /\ InOrder(s, y.db)
    BY <1>1
  <2>3. Safe(y.db, z.db)
    BY <2>1, <2>2, SyncerSafe
  <2>4. InOrder(y.db, z.db)
    BY <2>1, <2>2, SyncerBooks DEF InOrder
  <2>5. s \in Keyspace
    BY DEF Sound
  <2> QED BY <2>2, <2>3, <2>4, <2>5, InOrderTransitive DEF Safe
<1>2. All({[db |-> s, left |-> Batch]})
  BY DEF InOrder, Tidy, Keeps
<1> HIDE DEF All, Then
<1>3. All(X6)
  <2>1. All(X0)
    BY <1>1, <1>2
  <2>2. All(X3)
    BY <1>1, <2>1
  <2> QED BY <1>1, <2>2
<1>4. PICK z \in X6 : x = [z EXCEPT !.db.cursor = NextCursor(s.cursor)]
  BY DEF SyncAll, Then
<1> HIDE DEF X6
<1>5. Sound(z.db) /\ InOrder(s, z.db)
  BY <1>3 DEF All
<1>6. x.db = [z.db EXCEPT !.cursor = NextCursor(s.cursor)]
  BY <1>4
<1>7. Idle(z.db, x.db)
  BY <1>5, <1>6 DEF Sound, Keyspace, Idle
<1>8. InOrder(z.db, x.db)
  BY <1>5, <1>7, IdleBooks DEF InOrder, Sound
<1> QED BY <1>5, <1>8, InOrderTransitive DEF Sound

-----------------------------------------------------------------------------
(* The operations. *)

\* What an operation leaves of the holds that it finds, and whom it gives new
\* ones to.
Honours(s, u) ==
    /\ \A i \in Ids : s.generations[i] <= u.generations[i]
    /\ \A p \in s.retainedBy \cap u.retainedBy :
          \A r \in s.result : r[1] = p[1] => r \in u.result
    /\ \A p \in u.retainedBy \ s.retainedBy : Live(s, p[2])

Accounted(s, u) == Books(u, {}) /\ Honours(s, u)

\* What keeps the held records honours the holds.
LEMMA KeepsHonours ==
    ASSUME NEW s, s \in Keyspace, NEW u, Keeps(s, u)
    PROVE  Honours(s, u)
<1>1. \A i \in Ids : s.generations[i] \in Nat
  BY DEF Keyspace
<1> QED BY <1>1 DEF Keeps, Honours

\* What keeps the books accounts for what it changes.
LEMMA InOrderAccounted ==
    ASSUME NEW s, s \in Keyspace, NEW u, InOrder(s, u)
    PROVE  Accounted(s, u)
BY KeepsHonours DEF InOrder, Tidy, Accounted

\* Dropping lock keys is nothing to the books.
LEMMA UnlockBooks ==
    ASSUME NEW s, s \in Keyspace, Books(s, {}), NEW S, NEW u, u = Unlock(s, S)
    PROVE  InOrder(s, u) /\ Idle(s, u)
<1>1. Idle(s, u)
  BY DEF Unlock, Keyspace, Idle
<1> QED BY <1>1, IdleBooks

\* moveToList on one task.
LEMMA MoveOneBooks ==
    ASSUME NEW s, s \in Keyspace, Books(s, {}), NEW i \in Ids, NEW l \in Lists,
           l # "active" \/ s.task[i].currentList = "active", NEW score,
           NEW u, u = MoveToList(s, i, l, score)
    PROVE  InOrder(s, u)
<1> DEFINE to == [j \in {i} |-> l]
           order == IF l = "wait" THEN <<i>> ELSE <<>>
<1>1. u = MoveAll(s, to, score, order)
  BY DEF MoveToList
<1>2. DOMAIN to = {i} /\ \A j \in DOMAIN to : to[j] = l /\ j = i
  OBVIOUS
<1> HIDE DEF to, order
<1>3. \A j \in DOMAIN to : /\ to[j] \in Lists
                           /\ to[j] # "active" \/ s.task[j].currentList = "active"
  BY <1>2
<1> QED BY <1>1, <1>2, <1>3, RelistedBooks

Relisting(t, l) == [t EXCEPT !.currentList = l]

\* What moveToList writes of one task.
LEMMA MoveOneFields ==
    ASSUME NEW s, Fielded(s), NEW i \in Ids, NEW l, NEW score,
           NEW u, u = MoveToList(s, i, l, score)
    PROVE  /\ SameRecords(s, u) /\ u.taskExpiry = s.taskExpiry /\ u.lock = s.lock
           /\ u.task[i] = Relisting(s.task[i], l)
           /\ \A j \in Ids \ {i} : u.task[j] = s.task[j]
           /\ DOMAIN u.task = Ids /\ Fielded(u)
<1> DEFINE to == [j \in {i} |-> l]
           order == IF l = "wait" THEN <<i>> ELSE <<>>
<1>1. u = MoveAll(s, to, score, order)
  BY DEF MoveToList
<1>2. DOMAIN to = {i} /\ to[i] = l
  OBVIOUS
<1> HIDE DEF to, order
<1>3. /\ SameRecords(s, u) /\ u.taskExpiry = s.taskExpiry /\ u.lock = s.lock
      /\ u.task = [j \in Ids |->
            IF j \in DOMAIN to THEN [s.task[j] EXCEPT !.currentList = to[j]] ELSE s.task[j]]
      /\ Fielded(u)
  BY <1>1, MoveAllFields
<1>4. u.task[i] = [s.task[i] EXCEPT !.currentList = l]
  BY <1>2, <1>3
<1> QED BY <1>2, <1>3, <1>4 DEF Relisting

\* A step that rewrites one task, and leaves it the same job.
LEMMA OneTaskBooks ==
    ASSUME NEW s, s \in Keyspace, Books(s, {}), NEW i \in Ids, NEW u,
           SameRecords(s, u), u.taskExpiry = s.taskExpiry,
           \A j \in Ids \ {i} : u.task[j] = s.task[j],
           SameJob(s.task[i], u.task[i]),
           ChargedOnce(s.task[i]) => ChargedOnce(u.task[i])
    PROVE  InOrder(s, u)
<1>1. \A j \in Ids : /\ SameJob(s.task[j], u.task[j])
                     /\ ChargedOnce(s.task[j]) => ChargedOnce(u.task[j])
  BY DEF SameJob
<1>2. Trimmed(s, u, {}) /\ MayGo(s, {})
  BY <1>1 DEF Trimmed, MayGo
<1> QED BY <1>2, TrimmedBooks DEF InOrder

\* A new attempt is not charged yet.
LEMMA ChargedAttempt ==
    ASSUME NEW t \in TaskRecord, ~Running(t), t.outcome = "open", ChargedOnce(t),
           NEW r, r.attempt = t.attempt + 1,
           r.handlerFailureCount = t.handlerFailureCount,
           r.stalledAttemptCount = t.stalledAttemptCount
    PROVE  ChargedOnce(r)
<1> DEFINE a == t.attempt
           f == t.handlerFailureCount + t.stalledAttemptCount
           n == IF Running(r) \/ r.outcome = "success" THEN 1 ELSE 0
<1>1. a \in Nat /\ f \in Nat /\ n \in {0, 1}
  BY DEF TaskRecord
<1>2. f <= a - 0
  BY DEF ChargedOnce
<1> HIDE DEF a, f, n
<1>3. f <= (a + 1) - n
  BY <1>1, <1>2
<1> QED BY <1>3 DEF ChargedOnce, a, f, n

\* A task whose running attempt has ended with a failure is charged for it.
LEMMA ChargedFailure ==
    ASSUME NEW t \in TaskRecord, Running(t), ChargedOnce(t), NEW r \in TaskRecord,
           r.attempt = t.attempt, r.handlerFailureCount = t.handlerFailureCount + 1,
           r.stalledAttemptCount = t.stalledAttemptCount,
           ~Running(r), r.outcome # "success"
    PROVE  ChargedOnce(r)
<1>1. r.handlerFailureCount + r.stalledAttemptCount
         = t.handlerFailureCount + t.stalledAttemptCount + 1
  BY DEF TaskRecord
<1> QED BY <1>1, ChargeEased DEF Spent

\* lockTask, for a task that waits.
LEMMA LockTaskBooks ==
    ASSUME NEW s, s \in Keyspace, Books(s, {}), NEW i \in Ids, Exists(s, i),
           ~Settled(s, i), s.task[i].currentList = "wait",
           NEW k, NEW t, NEW u, u = LockTask(s, i, k, t)
    PROVE  InOrder(s, u)
<1> DEFINE v == MoveToList(s, i, "active", s.now + t)
           lock == [token |-> k, until |-> s.now + t]
           r == s.task[i]
           q == u.task[i]
<1>1. u = [v EXCEPT !.task[i].attempt = @ + 1, !.lock[i] = lock]
  BY DEF LockTask
<1> HIDE DEF v
<1>2. /\ SameRecords(s, v) /\ v.taskExpiry = s.taskExpiry
      /\ v.task[i] = Relisting(s.task[i], "active")
      /\ \A j \in Ids \ {i} : v.task[j] = s.task[j]
      /\ DOMAIN v.task = Ids /\ Fielded(v)
  BY KeyspaceFields, MoveOneFields DEF v
<1>3. /\ SameRecords(v, u) /\ u.taskExpiry = v.taskExpiry
      /\ u.task = [v.task EXCEPT ![i].attempt = @ + 1]
  BY <1>1, <1>2 DEF Fielded, EmptyKeyspace, SameRecords
<1>4. u.task[i] = [v.task[i] EXCEPT !.attempt = @ + 1] /\ \A j \in Ids \ {i} : u.task[j] = v.task[j]
  BY <1>2, <1>3
<1>5. r \in TaskRecord
  BY TaskType
<1>6. /\ q.generation = r.generation /\ q.outcome = r.outcome /\ q.config = r.config
      /\ q.attempt = r.attempt + 1 /\ q.handlerFailureCount = r.handlerFailureCount
      /\ q.stalledAttemptCount = r.stalledAttemptCount
  BY <1>2, <1>4, <1>5 DEF TaskRecord, Relisting
<1>7. ~Running(r) /\ r.outcome = "open" /\ ChargedOnce(r)
  BY DEF Running, Settled, Books, Charged
<1> HIDE DEF r, q
<1>8. ChargedOnce(q)
  BY <1>5, <1>6, <1>7, ChargedAttempt
<1>9. SameRecords(s, u) /\ u.taskExpiry = s.taskExpiry
  BY <1>2, <1>3 DEF SameRecords
<1>10. SameJob(r, q)
  BY <1>6 DEF SameJob
<1>11. \A j \in Ids \ {i} : u.task[j] = s.task[j]
  BY <1>2, <1>4
<1> QED BY <1>8, <1>9, <1>10, <1>11, OneTaskBooks DEF r, q

\* What an operation on a leased task finds.
LEMMA OwnedRunning ==
    ASSUME NEW s, Sound(s), Books(s, {}), NEW i \in Ids, IsLocked(s, i)
    PROVE  /\ s \in Keyspace /\ Exists(s, i) /\ ~Settled(s, i) /\ s.task[i] \in TaskRecord
           /\ Running(s.task[i]) /\ ChargedOnce(s.task[i])
<1>1. s \in Keyspace /\ Exists(s, i) /\ ~Settled(s, i) /\ s.task[i].currentList = "active"
  BY OwnedActive DEF Sound
<1> QED BY <1>1, TaskType DEF Running, Settled, Books, Charged

\* The failure that writeError counts.
LEMMA HandlerFailureFields ==
    ASSUME NEW s \in Keyspace, NEW i \in Ids, NEW u, u = HandlerFailure(s, i)
    PROVE  /\ SameRecords(s, u) /\ u.taskExpiry = s.taskExpiry /\ Fielded(u)
           /\ u.task = [s.task EXCEPT ![i].handlerFailureCount = @ + 1]
<1> DEFINE v == Unlock(s, {i})
<1>1. /\ SameRecords(s, v) /\ v.taskExpiry = s.taskExpiry /\ Fielded(v) /\ v.task = s.task
  BY KeyspaceFields DEF Unlock, Fielded, EmptyKeyspace, SameRecords
<1>2. u = [v EXCEPT !.task[i].handlerFailureCount = @ + 1]
  BY DEF HandlerFailure
<1> HIDE DEF v
<1>3. /\ SameRecords(v, u) /\ u.taskExpiry = v.taskExpiry /\ Fielded(u)
      /\ u.task = [v.task EXCEPT ![i].handlerFailureCount = @ + 1]
  BY <1>1, <1>2 DEF Fielded, EmptyKeyspace, SameRecords
<1> QED BY <1>1, <1>3 DEF SameRecords

\* writeError with a retry: the attempt ends, and is charged.
LEMMA WriteErrorRetryBooks ==
    ASSUME NEW s, Sound(s), Books(s, {}), NEW i \in Ids, IsLocked(s, i),
           NEW l \in {"wait", "scheduled"}, NEW score,
           NEW u, u = MoveToList(HandlerFailure(s, i), i, l, score)
    PROVE  InOrder(s, u)
<1> DEFINE v == HandlerFailure(s, i)
           t == s.task[i]
           r == u.task[i]
<1>1. s \in Keyspace /\ t \in TaskRecord /\ Running(t) /\ ChargedOnce(t)
  BY OwnedRunning
<1>0. u = MoveToList(v, i, l, score) /\ l \in Lists
  BY DEF Lists
<1> HIDE DEF v
<1>2. /\ SameRecords(s, v) /\ v.taskExpiry = s.taskExpiry /\ Fielded(v)
      /\ v.task = [s.task EXCEPT ![i].handlerFailureCount = @ + 1]
  BY <1>1, HandlerFailureFields DEF v
<1>3. /\ SameRecords(v, u) /\ u.taskExpiry = v.taskExpiry
      /\ u.task[i] = Relisting(v.task[i], l)
      /\ \A j \in Ids \ {i} : u.task[j] = v.task[j]
  <2>1. u = MoveToList(v, i, l, score) /\ Fielded(v)
    BY <1>0, <1>2
  <2>2. SameRecords(v, u)
    BY <2>1, MoveOneFields
  <2>3. u.taskExpiry = v.taskExpiry
    BY <2>1, MoveOneFields
  <2>4. u.task[i] = Relisting(v.task[i], l)
    BY <2>1, MoveOneFields
  <2>5. \A j \in Ids \ {i} : u.task[j] = v.task[j]
    BY <2>1, MoveOneFields
  <2> QED BY <2>2, <2>3, <2>4, <2>5
<1>4. v.task[i] = [t EXCEPT !.handlerFailureCount = @ + 1] /\ \A j \in Ids \ {i} : v.task[j] = s.task[j]
  <2>1. DOMAIN s.task = Ids
    BY <1>1 DEF Keyspace
  <2> QED BY <1>2, <2>1
<1> DEFINE q == [t EXCEPT !.handlerFailureCount = @ + 1]
<1>5. r = [q EXCEPT !.currentList = l]
  BY <1>3, <1>4 DEF Relisting
<1> HIDE DEF t, r
<1>8. /\ q.generation = t.generation /\ q.outcome = t.outcome /\ q.config = t.config
      /\ q.attempt = t.attempt /\ q.handlerFailureCount = t.handlerFailureCount + 1
      /\ q.stalledAttemptCount = t.stalledAttemptCount /\ q \in TaskRecord
  BY <1>1 DEF TaskRecord
<1> HIDE DEF q
<1>6. /\ r.generation = t.generation /\ r.outcome = t.outcome /\ r.config = t.config
      /\ r.attempt = t.attempt /\ r.handlerFailureCount = t.handlerFailureCount + 1
      /\ r.stalledAttemptCount = t.stalledAttemptCount /\ r.currentList = l
      /\ r \in TaskRecord
  BY <1>0, <1>5, <1>8 DEF TaskRecord
<1>7. ChargedOnce(r)
  BY <1>1, <1>6, ChargedFailure DEF Running
<1>9. SameRecords(s, u) /\ u.taskExpiry = s.taskExpiry
  BY <1>2, <1>3 DEF SameRecords
<1>10. SameJob(t, r)
  BY <1>6 DEF SameJob
<1>11. \A j \in Ids \ {i} : u.task[j] = s.task[j]
  BY <1>3, <1>4
<1> QED BY <1>1, <1>7, <1>9, <1>10, <1>11, OneTaskBooks DEF t, r

\* The settlement of one task whose outcome has just been set.
LEMMA SettleOneBooks ==
    ASSUME NEW s, s \in Keyspace, Books(s, {}), NEW i \in Ids, Exists(s, i), ~Settled(s, i),
           NEW v, Ready(v), SameRecords(s, v), v.taskExpiry = s.taskExpiry,
           \A j \in Ids \ {i} : v.task[j] = s.task[j],
           v.task[i].generation = s.task[i].generation,
           v.task[i].config = s.task[i].config,
           Settled(v, i), ChargedOnce(v.task[i]),
           NEW P, P \subseteq s.retains, \A p \in P : p[1] = Current(s, i)
    PROVE  InOrder(s, SettleTask(v, {i}, P))
<1> DEFINE S == {i}
           y == SettleTask(v, S, P)
<1>1. Charged(v)
  BY DEF Charged, Books, Exists
<1>2. Concludes(s, v, S)
  BY <1>1 DEF Concludes, SameJob
<1>3. P \subseteq v.retains /\ \A p \in P : p[1] \in CurrentOf(v, S)
  BY DEF SameRecords, CurrentOf, Current
<1>4. S \in SUBSET Ids
  OBVIOUS
<1> HIDE DEF S, y
<1>5. InOrder(s, y)
  BY <1>2, <1>3, <1>4, SettleTaskBooks DEF y, InOrder
<1> QED BY <1>5 DEF S, y

\* writeSuccess settles the task: the attempt now counts as successful.
LEMMA WriteSuccessBooks ==
    ASSUME NEW s, Sound(s), Books(s, {}), NEW i \in Ids, IsLocked(s, i),
           NEW P, P \subseteq s.retains, \A p \in P : p[1] = Current(s, i)
    PROVE  InOrder(s, SettleTask([Unlock(s, {i}) EXCEPT !.task[i].outcome = "success"], {i}, P))
<1> DEFINE u == Unlock(s, {i})
           t == s.task[i]
           r == [u.task[i] EXCEPT !.outcome = "success"]
           task == [u.task EXCEPT ![i] = r]
           v == [u EXCEPT !.task[i].outcome = "success"]
<1>1. /\ s \in Keyspace /\ Exists(s, i) /\ ~Settled(s, i)
      /\ t \in TaskRecord /\ Running(t) /\ ChargedOnce(t)
  BY OwnedRunning
<1>2. /\ Ready(u) /\ ~IsLocked(u, i) /\ u.task[i].currentList = "active" /\ u.task = s.task
  BY UnlockedAttempt
<1>3. Idle(s, u) /\ u.now = s.now
  BY <1>1 DEF Unlock, Keyspace, Idle
<1> HIDE DEF u
<1>4. u \in Keyspace /\ u.task[i] \in TaskRecord /\ DOMAIN u.task = Ids
  BY <1>2, TaskType DEF Ready, Keyspace
<1>5. v = [u EXCEPT !.task = task]
  BY <1>4 DEF Keyspace
<1>6. /\ r \in TaskRecord /\ r.outcome = "success"
      /\ r.generation = t.generation /\ r.config = t.config
      /\ r.attempt = t.attempt /\ r.handlerFailureCount = t.handlerFailureCount
      /\ r.stalledAttemptCount = t.stalledAttemptCount
      /\ r.currentList = u.task[i].currentList /\ r.generation = u.task[i].generation
  BY <1>2, <1>4 DEF TaskRecord, Outcomes
<1> HIDE DEF r, v, t
<1>7. Retouched(u, v, i) /\ v.task[i] = r
  BY <1>4, <1>5, <1>6, RetouchedTask DEF task
<1>8. Ready(v)
  BY <1>2, <1>7, RetouchedReady
<1>9. \A j \in Ids \ {i} : v.task[j] = s.task[j]
  BY <1>2, <1>7 DEF Retouched
<1> HIDE DEF task
<1>10. SameRecords(s, v) /\ v.taskExpiry = s.taskExpiry
  BY <1>3, <1>4, <1>5 DEF Keyspace, Idle, SameRecords
<1>11. r.handlerFailureCount + r.stalledAttemptCount
          = t.handlerFailureCount + t.stalledAttemptCount
  BY <1>6
<1>12. ChargedOnce(r)
  BY <1>1, <1>6, <1>11, ChargeEased DEF Spent
<1>13. Settled(v, i)
  BY <1>6, <1>7 DEF Settled
<1>14. v.task[i].generation = s.task[i].generation /\ v.task[i].config = s.task[i].config
  BY <1>6, <1>7 DEF t
<1>15. InOrder(s, SettleTask(v, {i}, P))
  BY <1>1, <1>7, <1>8, <1>9, <1>10, <1>12, <1>13, <1>14, SettleOneBooks
<1> QED BY <1>15 DEF u, v

\* writeError that settles the task: the attempt is charged as a failure.
LEMMA WriteErrorTerminalBooks ==
    ASSUME NEW s, Sound(s), Books(s, {}), NEW i \in Ids, IsLocked(s, i),
           NEW P, P \subseteq s.retains, \A p \in P : p[1] = Current(s, i)
    PROVE  InOrder(s, SettleTask([HandlerFailure(s, i) EXCEPT !.task[i].outcome = "failure"], {i}, P))
<1> DEFINE u == Unlock(s, {i})
           h == HandlerFailure(s, i)
           t == s.task[i]
           q == h.task[i]
           r == [q EXCEPT !.outcome = "failure"]
           task == [h.task EXCEPT ![i] = r]
           v == [h EXCEPT !.task[i].outcome = "failure"]
<1>1. /\ s \in Keyspace /\ Exists(s, i) /\ ~Settled(s, i)
      /\ t \in TaskRecord /\ Running(t) /\ ChargedOnce(t)
  BY OwnedRunning
<1>2. /\ Ready(u) /\ ~IsLocked(u, i) /\ u.task[i].currentList = "active" /\ u.task = s.task
  BY UnlockedAttempt
<1>3. Retouched(u, h, i)
  BY HandlerFailureRetouched
<1>4. /\ SameRecords(s, h) /\ h.taskExpiry = s.taskExpiry
      /\ h.task = [s.task EXCEPT ![i].handlerFailureCount = @ + 1]
  BY <1>1, HandlerFailureFields
<1>6. q = [t EXCEPT !.handlerFailureCount = @ + 1] /\ \A j \in Ids \ {i} : h.task[j] = s.task[j]
  <2>1. DOMAIN s.task = Ids
    BY <1>1 DEF Keyspace
  <2> QED BY <1>4, <2>1
<1> HIDE DEF u, h, t
<1>5. Ready(h) /\ ~IsLocked(h, i) /\ q.currentList = "active"
  <2>1. Ready(h)
    BY <1>2, <1>3, RetouchedReady
  <2> QED BY <2>1, <1>2, <1>3 DEF Retouched, IsLocked
<1> HIDE DEF q
<1>7. h \in Keyspace /\ DOMAIN h.task = Ids
  BY <1>5 DEF Ready, Keyspace
<1>8. /\ q \in TaskRecord /\ q.generation = t.generation /\ q.config = t.config
      /\ q.attempt = t.attempt /\ q.handlerFailureCount = t.handlerFailureCount + 1
      /\ q.stalledAttemptCount = t.stalledAttemptCount
  BY <1>1, <1>6 DEF TaskRecord
<1>9. v = [h EXCEPT !.task = task]
  BY <1>7 DEF Keyspace, q
<1>10. /\ r \in TaskRecord /\ r.outcome = "failure"
       /\ r.generation = q.generation /\ r.config = q.config
       /\ r.attempt = q.attempt /\ r.handlerFailureCount = q.handlerFailureCount
       /\ r.stalledAttemptCount = q.stalledAttemptCount
       /\ r.currentList = q.currentList
  BY <1>8 DEF TaskRecord, Outcomes
<1> HIDE DEF r, v
<1>11. Retouched(h, v, i) /\ v.task[i] = r
  BY <1>7, <1>9, <1>10, RetouchedTask DEF task, q
<1>12. Ready(v)
  BY <1>5, <1>11, RetouchedReady DEF q
<1>13. \A j \in Ids \ {i} : v.task[j] = s.task[j]
  BY <1>6, <1>11 DEF Retouched
<1> HIDE DEF task
<1>14. SameRecords(s, v) /\ v.taskExpiry = s.taskExpiry
  <2>1. SameRecords(h, v) /\ v.taskExpiry = h.taskExpiry
    BY <1>7, <1>9 DEF Keyspace, SameRecords
  <2> QED BY <2>1, <1>4 DEF SameRecords
<1>15. ChargedOnce(r)
  BY <1>1, <1>8, <1>10, ChargedFailure DEF Running
<1>16. Settled(v, i)
  BY <1>10, <1>11 DEF Settled
<1>17. v.task[i].generation = s.task[i].generation /\ v.task[i].config = s.task[i].config
  BY <1>8, <1>10, <1>11 DEF t
<1>18. InOrder(s, SettleTask(v, {i}, P))
  BY <1>1, <1>11, <1>12, <1>13, <1>14, <1>15, <1>16, <1>17, SettleOneBooks
<1> QED BY <1>18 DEF h, v

\* A generation that is replaced is settled and not held.
LEMMA ReplacedBooks ==
    ASSUME NEW s, Sound(s), Books(s, {}), NEW i \in Ids, Replaceable(s, i),
           NEW u, u = Replaced(s, i)
    PROVE  InOrder(s, u) /\ u.generations = s.generations
           /\ \A h \in Members : Live(s, h) => Live(u, h)
<1>1. s \in Keyspace
  BY DEF Sound
<1>2. CASE ~Exists(s, i)
  <2>1. u = s
    BY <1>2 DEF Replaced
  <2> QED BY <2>1 DEF InOrder, Tidy, Keeps
<1>3. CASE Exists(s, i)
  <2> DEFINE v == DeleteAll(s, {i})
  <2>1. u = Unlock(v, {i})
    BY <1>3 DEF Replaced
  <2>2. v = DeleteAll(s, {i})
    OBVIOUS
  <2>3. Settled(s, i) /\ \A p \in s.retainedBy : p[1] # Current(s, i)
    BY <1>3 DEF Replaceable, HasRetentionHolds
  <2> HIDE DEF v
  <2>4. /\ SameRecords(s, v)
        /\ v.taskExpiry = Unschedule(s.taskExpiry, CurrentOf(s, {i}))
        /\ v.task = [j \in Ids |-> IF j \in {i} THEN NoTask ELSE s.task[j]]
    BY <1>1, <2>2, KeyspaceFields, DeleteAllFields
  <2>5. Sound(v)
    BY <1>3, <2>2, <2>3, DeleteSettledSafe DEF Safe
  <2>6. \A m \in Members : v.taskExpiry[m] = IF m = Current(s, i) THEN Out ELSE s.taskExpiry[m]
    BY <2>4 DEF Unschedule, CurrentOf
  <2>7. \A j \in Ids \ {i} : Exists(s, j) =>
           Current(s, j) \in Members /\ Current(s, j) # Current(s, i)
    BY <1>1, CurrentType DEF Current
  <2>8. Trimmed(s, v, {i})
    BY <2>4, <2>6, <2>7 DEF Trimmed, SameJob
  <2>9. MayGo(s, {i})
    BY <2>3 DEF MayGo
  <2>10. InOrder(s, v)
    BY <1>1, <2>8, <2>9, TrimmedBooks DEF InOrder
  <2>11. InOrder(v, u) /\ Idle(v, u)
    BY <2>1, <2>5, <2>10, UnlockBooks DEF Sound, InOrder
  <2>12. InOrder(s, u) /\ u.generations = s.generations
    BY <1>1, <2>4, <2>10, <2>11, InOrderTransitive DEF Idle, SameRecords
  <2>13. ASSUME NEW h \in Members, Live(s, h) PROVE Live(u, h)
    <3>1. h[1] \in Ids /\ h[1] # i
      BY <2>3, <2>13, MemberType DEF Live
    <3>2. u.task[h[1]] = s.task[h[1]]
      BY <2>4, <2>11, <3>1 DEF Idle
    <3> QED BY <2>13, <3>2 DEF Live, IsCurrent, Settled
  <2> QED BY <2>12, <2>13
<1> QED BY <1>2, <1>3

\* Nothing is in the books yet of a new generation.
LEMMA NewRecordBooks ==
    ASSUME NEW s, s \in Keyspace, Books(s, {}), NEW i \in Ids, NEW c \in Configs,
           ~Exists(s, i), s.generations[i] < MaxGen, NEW u, u = NewRecord(s, i, c)
    PROVE  /\ Accounted(s, u)
           /\ u.retainedBy = s.retainedBy /\ u.retains = s.retains /\ u.result = s.result
           /\ ~IsGiven(s, Current(u, i)) /\ Current(u, i) \in Members
           /\ \A h \in Members : Live(s, h) => Live(u, h)
           /\ \A j \in Ids \ {i} : u.task[j] = s.task[j]
           /\ u.task[i].generation = s.generations[i] + 1
<1> DEFINE n == s.generations[i] + 1
           m == <<i, n>>
           r == [NoTask EXCEPT !.generation = n, !.config = c]
<1>0. /\ s.retains \subseteq Members \X Members /\ s.retainedBy \subseteq Members \X Members
      /\ s.result \subseteq Members \X Outcomes /\ s.published \subseteq Members \X Outcomes
      /\ DOMAIN s.task = Ids /\ DOMAIN s.generations = Ids
      /\ \A j \in Ids : s.generations[j] \in Nat
      /\ s.deadLetter \subseteq Members
  BY DEF Keyspace
<1>1. n \in Nat /\ n # 0 /\ n \in 1..MaxGen /\ s.generations[i] < n /\ s.generations[i] <= n
  BY <1>0, BoundsAssumption
<1>2. u = [s EXCEPT !.generations[i] = n, !.task[i] = r]
  BY DEF NewRecord
<1>3. /\ r.generation = n /\ r.config = c /\ r.outcome = "open" /\ r.currentList = "none"
      /\ r.attempt = 0 /\ r.handlerFailureCount = 0 /\ r.stalledAttemptCount = 0
  BY NoTaskType DEF NoTask
<1> HIDE DEF n, r
<1>4. /\ u.generations = [s.generations EXCEPT ![i] = n] /\ u.task = [s.task EXCEPT ![i] = r]
      /\ u.result = s.result /\ u.published = s.published /\ u.deadLetter = s.deadLetter
      /\ u.taskExpiry = s.taskExpiry /\ u.resultExpiry = s.resultExpiry
      /\ u.deadLetterExpiry = s.deadLetterExpiry
      /\ u.retainedBy = s.retainedBy /\ u.retains = s.retains
      /\ u.continuations = s.continuations
  BY <1>2 DEF Keyspace
<1>5. /\ u.task[i] = r /\ \A j \in Ids \ {i} : u.task[j] = s.task[j]
      /\ u.generations[i] = n /\ \A j \in Ids \ {i} : u.generations[j] = s.generations[j]
  BY <1>0, <1>4
<1>6. Current(u, i) = m /\ m \in Members /\ m[1] = i /\ m[2] = n
  BY <1>1, <1>3, <1>5 DEF Current, Members, Gens
<1>7. ~IsGiven(s, m)
  BY <1>0, <1>1, <1>6 DEF IsGiven
<1>8. Exists(u, i) /\ ~Settled(u, i)
  BY <1>1, <1>3, <1>5 DEF Exists, Settled
<1>9. \A j \in Ids : s.generations[j] <= u.generations[j]
  BY <1>0, <1>1, <1>5
<1>10. ASSUME NEW k \in Members, IsGiven(s, k) PROVE IsGiven(u, k)
  <2> DEFINE a == k[2]
             b == s.generations[k[1]]
             d == u.generations[k[1]]
  <2>1. a \in Nat /\ b \in Nat /\ d \in Nat /\ a <= b /\ b <= d
    BY <1>0, <1>1, <1>5, <1>9, <1>10, MemberType DEF IsGiven
  <2> HIDE DEF a, b, d
  <2>2. a <= d
    BY <2>1
  <2> QED BY <2>2 DEF IsGiven, a, d
<1>11. \A k \in Members : IsCurrent(s, k) => k[1] # i /\ IsCurrent(u, k)
  BY <1>5, CurrentMember, MemberType DEF IsCurrent
<1>12. \A k \in Members : Live(s, k) => Live(u, k)
  BY <1>5, <1>11, MemberType DEF Live, Settled
<1>13. \A k \in Members : Live(u, k) => k = m \/ Live(s, k)
  <2> SUFFICES ASSUME NEW k \in Members, Live(u, k), k[1] # i PROVE Live(s, k)
    BY <1>6, CurrentMember DEF Live
  <2> QED BY <1>5, MemberType DEF Live, IsCurrent, Settled
<1> HIDE DEF m
<1>14. Numbered(u)
  <2>1. \A j \in Ids : Exists(u, j) => u.task[j].generation = u.generations[j]
    BY <1>3, <1>5 DEF Books, Numbered, Exists
  <2>2. \A e \in u.result \cup u.published : IsGiven(u, e[1])
    BY <1>0, <1>4, <1>10 DEF Books, Numbered
  <2>3. \A p \in u.retains \cup u.retainedBy : IsGiven(u, p[1]) /\ IsGiven(u, p[2])
    BY <1>0, <1>4, <1>10 DEF Books, Numbered
  <2>4. \A k \in Members :
          \/ u.continuations[k] # Out \/ u.taskExpiry[k] # Out
          \/ u.resultExpiry[k] # Out \/ k \in u.deadLetter
          => IsGiven(u, k)
    BY <1>4, <1>10 DEF Books, Numbered
  <2> QED BY <2>1, <2>2, <2>3, <2>4 DEF Numbered
<1>15. Told(u)
  <2>1. \A e \in u.published : e[1] # m
    BY <1>4, <1>7 DEF Books, Numbered
  <2>2. \A j \in Ids \ {i} : /\ Current(u, j) = Current(s, j)
                             /\ Exists(u, j) <=> Exists(s, j)
                             /\ Settled(u, j) <=> Settled(s, j)
    BY <1>5 DEF Current, Exists, Settled
  <2>3. ASSUME NEW j \in Ids, Exists(u, j), Settled(u, j)
        PROVE  <<Current(u, j), u.task[j].outcome>> \in u.published
    BY <2>2, <2>3, <1>4, <1>5, <1>8 DEF Books, Told
  <2>4. ASSUME NEW j \in Ids, Exists(u, j), ~Settled(u, j), NEW e \in u.published
        PROVE  e[1] # Current(u, j)
    <3>1. CASE j = i
      BY <3>1, <2>1, <1>6
    <3>2. CASE j # i
      BY <3>2, <2>2, <2>4, <1>4 DEF Books, Told
    <3> QED BY <3>1, <3>2
  <2> QED BY <2>3, <2>4, <1>4 DEF Books, Told
<1>16. Pinned(u)
  BY <1>0, <1>4, <1>11 DEF Books, Pinned
<1>17. Bounded(u)
  <2> SUFFICES ASSUME NEW j \in Ids, Exists(u, j)
               PROVE  LET cap == u.task[j].config.maxRelationships
                      IN /\ Cardinality(Side(u.retains, Current(u, j))) <= cap
                         /\ Cardinality(Side(u.retainedBy, Current(u, j))) <= cap
    BY DEF Bounded
  <2>1. CASE j # i
    BY <2>1, <1>4, <1>5 DEF Books, Bounded, Exists, Current
  <2>2. CASE j = i
    <3>1. Side(u.retains, Current(u, j)) = {} /\ Side(u.retainedBy, Current(u, j)) = {}
      BY <2>2, <1>4, <1>6, <1>7 DEF Side, Books, Numbered
    <3>2. u.task[j].config.maxRelationships \in Nat
      BY <2>2, <1>3, <1>5, ConfigsAssumption DEF TaskConfig
    <3>3. Cardinality({}) = 0
      BY FS_EmptySet
    <3> QED BY <3>1, <3>2, <3>3
  <2> QED BY <2>1, <2>2
<1>18. Releasable(u, {})
  <2> SUFFICES ASSUME NEW p \in s.retains PROVE Free(u, p[1])
    BY <1>4 DEF Releasable
  <2>1. p[1] \in Members /\ Free(s, p[1])
    BY <1>0 DEF Books, Releasable
  <2> QED BY <2>1, <1>4, <1>12 DEF Free
<1>19. Resigned(u, {})
  <2> SUFFICES ASSUME NEW k \in Members, s.continuations[k] # Out, Live(u, k) PROVE FALSE
    BY <1>4 DEF Resigned
  <2>1. IsGiven(s, k) /\ ~Live(s, k)
    BY DEF Books, Numbered, Resigned
  <2> QED BY <2>1, <1>7, <1>13
<1>20. RetentionSet(u)
  <2>1. \A j \in Ids : Exists(u, j) /\ Settled(u, j) => u.taskExpiry[Current(u, j)] # Out
    BY <1>4, <1>5, <1>8 DEF Books, RetentionSet, Exists, Settled, Current
  <2> QED BY <2>1, <1>4 DEF Books, RetentionSet
<1>21. Charged(u)
  <2>1. ChargedOnce(r)
    BY <1>3 DEF ChargedOnce, Running
  <2> QED BY <2>1, <1>5 DEF Books, Charged, Exists
<1>22. Honours(s, u)
  BY <1>4, <1>9 DEF Honours
<1>23. Books(u, {})
  BY <1>14, <1>15, <1>16, <1>17, <1>18, <1>19, <1>20, <1>21 DEF Books
<1> QED BY <1>3, <1>4, <1>5, <1>6, <1>7, <1>12, <1>22, <1>23 DEF Accounted, n

\* One more relationship of m.
LEMMA SideGrows ==
    ASSUME NEW P, P \subseteq Members \X Members, NEW m \in Members, NEW k \in Members,
           NEW e, NEW cap \in Nat, e = <<m, k>>,
           Cardinality(Side(P, m)) < cap
    PROVE  /\ Cardinality(Side(P \cup {e}, m)) <= cap
           /\ \A j : j # m => Side(P \cup {e}, j) = Side(P, j)
<1> DEFINE S == Side(P, m)
<1>1. IsFiniteSet(S) /\ Cardinality(S) \in Nat
  BY SideFinite
<1>2. Side(P \cup {e}, m) = S \cup {e}
  BY DEF Side
<1>3. \A j : j # m => Side(P \cup {e}, j) = Side(P, j)
  BY DEF Side
<1>4. Cardinality(S) < cap
  OBVIOUS
<1> HIDE DEF S
<1>5. Cardinality(S \cup {e}) <= cap
  <2>1. Cardinality(S \cup {e}) = IF e \in S THEN Cardinality(S) ELSE Cardinality(S) + 1
    BY <1>1, FS_AddElement
  <2> DEFINE a == Cardinality(S)
             b == Cardinality(S \cup {e})
  <2>2. a \in Nat /\ a < cap /\ (b = a \/ b = a + 1)
    BY <1>1, <1>4, <2>1
  <2> HIDE DEF a, b
  <2>3. b <= cap
    BY <2>2
  <2> QED BY <2>3 DEF b
<1> QED BY <1>2, <1>3, <1>5

\* acquireRetentionHold, for a live holder that has room.
LEMMA AcquireRetentionHoldBooks ==
    ASSUME NEW s, s \in Keyspace, Books(s, {}), NEW h \in Members, Live(s, h),
           NEW m \in Members, IsCurrent(s, m), RoomForHold(s, h, m),
           NEW u, u = AcquireRetentionHold(s, h, m)
    PROVE  /\ Books(u, {})
           /\ u.retainedBy = s.retainedBy \cup {<<m, h>>}
           /\ u.result = s.result /\ u.generations = s.generations
<1>1. /\ s.retains \subseteq Members \X Members /\ s.retainedBy \subseteq Members \X Members
  BY DEF Keyspace
<1> DEFINE held == <<m, h>>
           holds == <<h, m>>
<1>2. /\ u.retainedBy = s.retainedBy \cup {held} /\ u.retains = s.retains \cup {holds}
      /\ u.task = s.task /\ u.generations = s.generations
      /\ u.result = s.result /\ u.published = s.published /\ u.deadLetter = s.deadLetter
      /\ u.taskExpiry = s.taskExpiry /\ u.resultExpiry = s.resultExpiry
      /\ u.deadLetterExpiry = s.deadLetterExpiry /\ u.continuations = s.continuations
  BY DEF AcquireRetentionHold, Keyspace
<1>3. held[1] = m /\ held[2] = h /\ holds[1] = h /\ holds[2] = m
  OBVIOUS
<1>4. ASSUME NEW k \in Members, IsCurrent(s, k) PROVE IsGiven(s, k)
  <2>1. k[1] \in Ids /\ Exists(s, k[1]) /\ k[2] = s.task[k[1]].generation
    BY <1>4, CurrentMember, MemberType DEF IsCurrent
  <2>2. s.generations[k[1]] \in Nat /\ s.task[k[1]].generation = s.generations[k[1]]
    BY <2>1 DEF Books, Numbered, Keyspace
  <2> QED BY <2>1, <2>2 DEF IsGiven
<1>5. IsGiven(s, h) /\ IsGiven(s, m)
  BY <1>4 DEF Live
<1>6. Numbered(u)
  <2>1. \A k : IsGiven(u, k) <=> IsGiven(s, k)
    BY <1>2 DEF IsGiven
  <2>2. \A p \in u.retains \cup u.retainedBy : IsGiven(s, p[1]) /\ IsGiven(s, p[2])
    BY <1>2, <1>3, <1>5 DEF Books, Numbered
  <2> QED BY <2>1, <2>2, <1>2 DEF Books, Numbered, Exists
<1>7. Told(u)
  BY <1>2 DEF Books, Told, Exists, Settled, Current
<1>8. \A k : (IsCurrent(u, k) <=> IsCurrent(s, k)) /\ (Live(u, k) <=> Live(s, k))
  BY <1>2 DEF IsCurrent, Live, Settled
<1>9. Pinned(u)
  <2> SUFFICES ASSUME NEW p \in u.retainedBy
               PROVE  IsCurrent(s, p[1]) /\ <<p[2], p[1]>> \in u.retains
    BY <1>8 DEF Pinned
  <2>1. CASE p = held
    BY <2>1, <1>2, <1>3
  <2>2. CASE p \in s.retainedBy
    BY <2>2, <1>2 DEF Books, Pinned
  <2> QED BY <2>1, <2>2, <1>2
<1> HIDE DEF held, holds
<1>10. ASSUME NEW k \in Members, IsCurrent(s, k)
       PROVE  s.task[k[1]].config.maxRelationships \in Nat
  BY MemberType, CurrentType DEF TaskConfig
<1>11. Bounded(u)
  <2> SUFFICES ASSUME NEW i \in Ids, Exists(s, i)
               PROVE  LET cap == s.task[i].config.maxRelationships
                      IN /\ Cardinality(Side(u.retains, Current(s, i))) <= cap
                         /\ Cardinality(Side(u.retainedBy, Current(s, i))) <= cap
    BY <1>2 DEF Bounded, Exists, Current
  <2> DEFINE k == Current(s, i)
             cap == s.task[i].config.maxRelationships
  <2>1. /\ Cardinality(Side(s.retains, k)) <= cap
        /\ Cardinality(Side(s.retainedBy, k)) <= cap
    BY DEF Books, Bounded
  <2>2. k \in Members /\ IsCurrent(s, k) /\ k[1] = i
    BY CurrentType DEF IsCurrent, Current
  <2>3. cap \in Nat
    BY <1>10, <2>2
  <2>4. k = h => Cardinality(Side(s.retains, k)) < cap
    BY <2>2 DEF RoomForHold, Side
  <2>5. k = m => Cardinality(Side(s.retainedBy, k)) < cap
    BY <2>2 DEF RoomForHold, Side
  <2> HIDE DEF k, cap
  <2>6. Cardinality(Side(u.retains, k)) <= cap
    <3>1. CASE k = h
      <4>1. Cardinality(Side(s.retains, h)) < cap /\ holds = <<h, m>>
        BY <2>4, <3>1 DEF holds
      <4>2. Cardinality(Side(s.retains \cup {holds}, h)) <= cap
        BY <1>1, <2>3, <4>1, SideGrows
      <4> QED BY <4>2, <3>1, <1>2
    <3>2. CASE k # h
      <4>1. Side(u.retains, k) = Side(s.retains, k)
        BY <3>2, <1>2, <1>3 DEF Side
      <4> QED BY <4>1, <2>1
    <3> QED BY <3>1, <3>2
  <2>7. Cardinality(Side(u.retainedBy, k)) <= cap
    <3>1. CASE k = m
      <4>1. Cardinality(Side(s.retainedBy, m)) < cap /\ held = <<m, h>>
        BY <2>5, <3>1 DEF held
      <4>2. Cardinality(Side(s.retainedBy \cup {held}, m)) <= cap
        BY <1>1, <2>3, <4>1, SideGrows
      <4> QED BY <4>2, <3>1, <1>2
    <3>2. CASE k # m
      <4>1. Side(u.retainedBy, k) = Side(s.retainedBy, k)
        BY <3>2, <1>2, <1>3 DEF Side
      <4> QED BY <4>1, <2>1
    <3> QED BY <3>1, <3>2
  <2> QED BY <2>6, <2>7 DEF k, cap
<1>12. Releasable(u, {})
  <2> SUFFICES ASSUME NEW p \in u.retains PROVE Free(u, p[1])
    BY DEF Releasable
  <2>1. CASE p = holds
    BY <2>1, <1>3, <1>8 DEF Free
  <2>2. CASE p \in s.retains
    BY <2>2, <1>2, <1>8 DEF Books, Releasable, Free
  <2> QED BY <2>1, <2>2, <1>2
<1>13. Resigned(u, {})
  BY <1>2, <1>8 DEF Books, Resigned
<1>14. RetentionSet(u) /\ Charged(u)
  BY <1>2 DEF Books, RetentionSet, Charged, Exists, Settled, Current
<1> QED BY <1>2, <1>6, <1>7, <1>9, <1>11, <1>12, <1>13, <1>14 DEF Books, held

\* A refused offer leaves the books as they were before its record.
LEMMA TakeBackBooks ==
    ASSUME NEW s, s \in Keyspace, Books(s, {}), NEW i \in Ids, NEW c \in Configs,
           ~Exists(s, i), s.generations[i] < MaxGen, NEW h,
           NEW new, new = NewRecord(s, i, c), NEW u, u = TakeBack(new, s, i, h)
    PROVE  InOrder(s, u)
<1> DEFINE v == DeleteAll(new, {i})
<1>1. u = [v EXCEPT !.generations[i] = @ - 1]
  BY DEF TakeBack
<1>2. /\ new.generations = [s.generations EXCEPT ![i] = @ + 1]
      /\ \A j \in Ids \ {i} : new.task[j] = s.task[j]
      /\ new.result = s.result /\ new.published = s.published
      /\ new.deadLetter = s.deadLetter
      /\ new.taskExpiry = s.taskExpiry /\ new.resultExpiry = s.resultExpiry
      /\ new.deadLetterExpiry = s.deadLetterExpiry
      /\ new.retainedBy = s.retainedBy /\ new.retains = s.retains
      /\ new.continuations = s.continuations /\ Fielded(new)
  BY KeyspaceFields DEF NewRecord, Keyspace, Fielded, EmptyKeyspace
<1>3. v = DeleteAll(new, {i})
  OBVIOUS
<1> HIDE DEF v
<1>4. /\ SameRecords(new, v)
      /\ v.taskExpiry = Unschedule(s.taskExpiry, CurrentOf(new, {i}))
      /\ v.task = [j \in Ids |-> IF j \in {i} THEN NoTask ELSE new.task[j]]
      /\ Fielded(v)
  BY <1>2, <1>3, DeleteAllFields
<1>5. /\ u.generations = [v.generations EXCEPT ![i] = @ - 1]
      /\ u.task = v.task /\ u.taskExpiry = v.taskExpiry
      /\ u.result = v.result /\ u.published = v.published /\ u.deadLetter = v.deadLetter
      /\ u.resultExpiry = v.resultExpiry /\ u.deadLetterExpiry = v.deadLetterExpiry
      /\ u.retainedBy = v.retainedBy /\ u.retains = v.retains
      /\ u.continuations = v.continuations
  BY <1>1, <1>4 DEF Fielded, EmptyKeyspace
<1>6. u.generations = s.generations
  <2>1. s.generations \in [Ids -> 0..MaxGen]
    BY DEF Keyspace
  <2>2. s.generations[i] \in Nat
    BY <2>1
  <2> QED BY <1>2, <1>4, <1>5, <2>1, <2>2 DEF SameRecords
<1>7. TasksFade(s, u)
  <2>1. ~Exists(u, i)
    BY <1>4, <1>5, NoTaskType DEF Exists
  <2> QED BY <2>1, <1>2, <1>4, <1>5 DEF TasksFade, SameJob
<1>8. RecordsFade(s, u)
  BY <1>2, <1>4, <1>5 DEF RecordsFade, SameRecords
<1>9. ExpiriesFade(s, u)
  <2>1. \A m \in Members : u.taskExpiry[m] =
           IF m = Current(new, i) THEN Out ELSE s.taskExpiry[m]
    BY <1>4, <1>5 DEF Unschedule, CurrentOf
  <2>2. \A j \in Ids : Exists(u, j) => j # i /\ Exists(s, j)
    BY <1>2, <1>4, <1>5, NoTaskType DEF Exists
  <2>3. \A j \in Ids : Exists(s, j) /\ j # i =>
           Current(s, j) \in Members /\ Current(s, j) # Current(new, i)
    BY CurrentType DEF Current
  <2> QED BY <2>1, <2>2, <2>3 DEF ExpiriesFade
<1>10. HoldsFade(s, u, {})
  <2>1. u.retainedBy = s.retainedBy /\ u.retains = s.retains /\ u.result = s.result
        /\ u.continuations = s.continuations
    BY <1>2, <1>4, <1>5 DEF SameRecords
  <2>2. ASSUME NEW m \in Members, IsCurrent(s, m)
        PROVE  IsCurrent(u, m) /\ (Settled(u, m[1]) <=> Settled(s, m[1]))
    <3>1. m[1] \in Ids /\ m[1] # i
      BY <2>2, CurrentMember, MemberType
    <3> QED BY <3>1, <2>2, <1>2, <1>4, <1>5 DEF IsCurrent, Settled
  <2>3. s.retains \subseteq Members \X Members /\ s.retainedBy \subseteq Members \X Members
    BY DEF Keyspace
  <2> QED BY <2>1, <2>2, <2>3 DEF HoldsFade, Free, Live
<1>11. Fades(s, u, {})
  BY <1>6, <1>7, <1>8, <1>9, <1>10 DEF Fades
<1>12. s.retainedBy \ u.retainedBy = {}
  BY <1>2, <1>4, <1>5 DEF SameRecords
<1> QED BY <1>11, <1>12, FadesBooks, FadesTidy DEF InOrder

\* enqueue keeps the books.
LEMMA EnqueueBooks ==
    ASSUME NEW s, s \in Keyspace, Books(s, {}), NEW i \in Ids, NEW delay,
           NEW u, u = Enqueue(s, i, delay)
    PROVE  InOrder(s, u)
<1>1. CASE delay > 0
  <2>1. u = MoveToList(s, i, "scheduled", s.now + delay) /\ "scheduled" \in Lists
    BY <1>1 DEF Enqueue, Lists
  <2> QED BY <2>1, MoveOneBooks
<1>2. CASE ~(delay > 0)
  <2>1. u = MoveToList(s, i, "wait", 0) /\ "wait" \in Lists
    BY <1>2 DEF Enqueue, Lists
  <2> QED BY <2>1, MoveOneBooks
<1> QED BY <1>1, <1>2

\* A call honours what it finds, if its steps do.
LEMMA AccountedAfter ==
    ASSUME NEW s \in Keyspace, NEW u, NEW v \in Keyspace, InOrder(s, u), Accounted(u, v)
    PROVE  Accounted(s, v)
<1>1. v.retainedBy \subseteq Members \X Members
  BY DEF Keyspace
<1> QED BY <1>1 DEF InOrder, Tidy, Keeps, Accounted, Honours

\* A step that accounts for what it changes still does so after one that keeps the books.
LEMMA AccountedBefore ==
    ASSUME NEW s, NEW u, NEW v, Accounted(s, u), InOrder(u, v)
    PROVE  Accounted(s, v)
BY DEF InOrder, Tidy, Keeps, Accounted, Honours

\* createTask starting a generation, without a holder.
LEMMA OfferNewBooks ==
    ASSUME NEW s, Sound(s), Books(s, {}), NEW i \in Ids, NEW c \in Configs, NEW d \in Nat,
           Replaceable(s, i), s.generations[i] < MaxGen,
           NEW w, w = Enqueue(NewRecord(Replaced(s, i), i, c), i, d)
    PROVE  Accounted(s, w)
<1> DEFINE u == Replaced(s, i)
           v == NewRecord(u, i, c)
<1>1. w = Enqueue(v, i, d) /\ v = NewRecord(u, i, c) /\ u = Replaced(s, i)
  OBVIOUS
<1> HIDE DEF u, v
<1>2. InOrder(s, u) /\ u.generations = s.generations
  BY <1>1, ReplacedBooks
<1>3. Sound(u) /\ ~Exists(u, i) /\ ~IsLocked(u, i)
  BY <1>1, ReplacedSafe DEF Safe
<1>4. s \in Keyspace /\ u \in Keyspace /\ Books(u, {})
  BY <1>2, <1>3 DEF Sound, InOrder
<1>5. Accounted(u, v)
  BY <1>1, <1>2, <1>3, <1>4, NewRecordBooks
<1>6. v \in Keyspace
  BY <1>1, <1>2, <1>3, NewRecordFresh DEF Fresh, Ready
<1>7. InOrder(v, w)
  BY <1>1, <1>5, <1>6, EnqueueBooks DEF Accounted
<1>8. Accounted(s, v)
  BY <1>2, <1>4, <1>5, <1>6, AccountedAfter
<1> QED BY <1>7, <1>8, AccountedBefore

\* createTask starting a generation that h retains, or taking it back.
LEMMA OfferHeldBooks ==
    ASSUME NEW s, Sound(s), Books(s, {}), NEW i \in Ids, NEW c \in Configs, NEW d \in Nat,
           NEW h \in Members, Live(s, h),
           Replaceable(s, i), s.generations[i] < MaxGen,
           NEW old, old = Replaced(s, i), NEW new, new = NewRecord(old, i, c),
           NEW m, m = Current(new, i)
    PROVE  /\ RoomForHold(new, h, m) =>
                 Accounted(s, Enqueue(AcquireRetentionHold(new, h, m), i, d))
           /\ Accounted(s, TakeBack(new, old, i, h))
<1>1. /\ InOrder(s, old) /\ old.generations = s.generations /\ Live(old, h)
  BY ReplacedBooks
<1>2. Sound(old) /\ ~Exists(old, i) /\ ~IsLocked(old, i)
  BY ReplacedSafe DEF Safe
<1>3. s \in Keyspace /\ old \in Keyspace /\ Books(old, {})
  BY <1>1, <1>2 DEF Sound, InOrder
<1>4. /\ Accounted(old, new) /\ new.retainedBy = old.retainedBy /\ new.result = old.result
      /\ m \in Members /\ Live(new, h)
  BY <1>1, <1>2, <1>3, NewRecordBooks
<1>5. Fresh(new, i)
  BY <1>1, <1>2, NewRecordFresh
<1>6. new \in Keyspace /\ IsCurrent(new, m)
  BY <1>5 DEF Fresh, Ready, IsCurrent, Current
<1>7. ASSUME RoomForHold(new, h, m)
      PROVE  Accounted(s, Enqueue(AcquireRetentionHold(new, h, m), i, d))
  <2> DEFINE u == AcquireRetentionHold(new, h, m)
             w == Enqueue(u, i, d)
  <2>1. u = AcquireRetentionHold(new, h, m) /\ w = Enqueue(u, i, d)
    OBVIOUS
  <2> HIDE DEF u, w
  <2>2. /\ Books(u, {}) /\ u.retainedBy = new.retainedBy \cup {<<m, h>>}
        /\ u.result = new.result /\ u.generations = new.generations
    BY <1>4, <1>6, <1>7, <2>1, AcquireRetentionHoldBooks DEF Accounted
  <2>3. \A p \in u.retainedBy \ old.retainedBy : p[2] = h
    BY <1>4, <2>2
  <2>4. Accounted(old, u)
    BY <1>1, <1>4, <2>2, <2>3 DEF Accounted, Honours
  <2>5. Fresh(u, i)
    BY <1>4, <1>5, <2>1, AcquireFresh
  <2>6. u \in Keyspace
    BY <2>5 DEF Fresh, Ready
  <2>7. InOrder(u, w)
    BY <2>1, <2>2, <2>6, EnqueueBooks
  <2>8. Accounted(s, u)
    BY <1>1, <1>3, <2>4, <2>6, AccountedAfter
  <2>9. Accounted(s, w)
    BY <2>7, <2>8, AccountedBefore
  <2> QED BY <2>9 DEF w, u
<1>8. Accounted(s, TakeBack(new, old, i, h))
  <2> DEFINE w == TakeBack(new, old, i, h)
  <2>1. InOrder(old, w)
    BY <1>1, <1>2, <1>3, TakeBackBooks
  <2> HIDE DEF w
  <2>2. InOrder(s, w)
    BY <1>1, <1>3, <2>1, InOrderTransitive
  <2>3. Accounted(s, w)
    BY <1>3, <2>2, InOrderAccounted
  <2> QED BY <2>3 DEF w
<1> QED BY <1>7, <1>8

\* createTask on an existing id, with a holder.
LEMMA OfferExistingBooks ==
    ASSUME NEW s, s \in Keyspace, Books(s, {}), NEW i \in Ids, Exists(s, i),
           NEW h \in Members, Live(s, h), RoomForHold(s, h, Current(s, i)),
           NEW u, u = AcquireRetentionHold(s, h, Current(s, i))
    PROVE  Accounted(s, u)
<1>1. Current(s, i) \in Members /\ IsCurrent(s, Current(s, i))
  BY CurrentType DEF IsCurrent, Current
<1>2. /\ Books(u, {}) /\ u.retainedBy = s.retainedBy \cup {<<Current(s, i), h>>}
      /\ u.result = s.result /\ u.generations = s.generations
  BY <1>1, AcquireRetentionHoldBooks
<1>3. \A p \in u.retainedBy \ s.retainedBy : p[2] = h
  BY <1>2
<1>4. \A j \in Ids : s.generations[j] \in Nat
  BY DEF Keyspace
<1> QED BY <1>2, <1>3, <1>4 DEF Accounted, Honours

\* What releaseOwnedHolds leaves of the task that it is called for: the task, or
\* nothing.
LEMMA ReleasedMember ==
    ASSUME NEW s, NEW i \in Ids, Exists(s, i), NEW a, a \in Keyspace, Keeps(s, a)
    PROVE  /\ Exists(a, i) => Current(a, i) = Current(s, i)
           /\ \A h \in Members : h[1] = i /\ IsCurrent(a, h) => h = Current(s, i)
<1>1. Exists(a, i) => Current(a, i) = Current(s, i)
  BY DEF Keeps, Current
<1>2. ASSUME NEW h \in Members, h[1] = i, IsCurrent(a, h) PROVE h = Current(s, i)
  BY <1>1, <1>2, CurrentMember
<1> QED BY <1>1, <1>2

\* removeTask: the holds of the task are released, then it goes; nobody holds it.
LEMMA RemoveTaskBooks ==
    ASSUME NEW s, Sound(s), Books(s, {}), NEW i \in Ids, Exists(s, i),
           NEW m, m = Current(s, i), ~HasRetentionHolds(s, m),
           NEW P, P \subseteq s.retains, \A p \in P : p[1] = m,
           NEW u, u = DeleteAll(ReleaseOwnedHolds(s, {m}, P), {i})
    PROVE  Accounted(s, u)
<1> DEFINE a == ReleaseOwnedHolds(s, {m}, P)
<1>1. a = ReleaseOwnedHolds(s, {m}, P) /\ u = DeleteAll(a, {i})
  OBVIOUS
<1> HIDE DEF a
<1>2. s \in Keyspace /\ m \in Members /\ m[1] = i
  BY CurrentType DEF Sound, Current
<1>3. Books(a, {m}) /\ Released(a, {m}) /\ Keeps(s, a)
  <2>1. {m} \in SUBSET Members /\ Books(s, {m}) /\ \A p \in P : p[1] \in {m}
    BY <1>2, BooksOpened
  <2> QED BY <1>1, <1>2, <2>1, ReleaseOwnedHoldsBooks
<1>4. a \in Keyspace
  BY <1>1, SoundReady, ReleaseOwnedHoldsEnds DEF Ends, Ready
<1>5. a.retains \subseteq Members \X Members /\ a.retainedBy \subseteq Members \X Members
  BY <1>4 DEF Keyspace
<1>6. \A h \in Members : h = Current(a, i) => h = m
  BY <1>3, <1>4, ReleasedMember, CurrentMember
<1>7. MayGo(a, {i})
  <2>1. \A p \in a.retainedBy : p[1] # Current(a, i)
    BY <1>3, <1>5, <1>6 DEF Keeps, HasRetentionHolds
  <2>2. \A p \in a.retains : p[1] = Current(a, i) => a.continuations[p[1]] # Out
    BY <1>3, <1>5, <1>6 DEF Released
  <2> QED BY <2>1, <2>2 DEF MayGo
<1>8. /\ SameRecords(a, u)
      /\ u.taskExpiry = Unschedule(a.taskExpiry, CurrentOf(a, {i}))
      /\ u.task = [j \in Ids |-> IF j \in {i} THEN NoTask ELSE a.task[j]]
  <2> DEFINE D == {i}
  <2>1. Fielded(a) /\ u = DeleteAll(a, D)
    BY <1>1, <1>4, KeyspaceFields
  <2> HIDE DEF D
  <2>2. /\ SameRecords(a, u)
        /\ u.taskExpiry = Unschedule(a.taskExpiry, CurrentOf(a, D))
        /\ u.task = [j \in Ids |-> IF j \in D THEN NoTask ELSE a.task[j]]
    BY <2>1, DeleteAllFields
  <2> QED BY <2>2 DEF D
<1>9. Trimmed(a, u, {i})
  <2>1. \A h \in Members : u.taskExpiry[h] = IF h = Current(a, i) THEN Out ELSE a.taskExpiry[h]
    BY <1>8 DEF Unschedule, CurrentOf
  <2>2. \A j \in Ids \ {i} : Exists(a, j) =>
           Current(a, j) \in Members /\ Current(a, j) # Current(a, i)
    BY <1>4, CurrentType DEF Current
  <2> QED BY <1>8, <2>1, <2>2 DEF Trimmed, SameJob
<1>10. Books(u, {m}) /\ Tidy(a, u)
  BY <1>3, <1>4, <1>7, <1>9, TrimmedBooks
<1>11. ~Live(u, m)
  BY <1>2, <1>8, MemberType, NoTaskType DEF Live, IsCurrent
<1>12. Released(u, {m})
  BY <1>3, <1>8 DEF Released, SameRecords
<1>13. Books(u, {})
  BY <1>10, <1>11, <1>12, BooksClosed
<1>14. Keeps(s, u)
  BY <1>3, <1>10, KeepsTransitive DEF Tidy
<1> QED BY <1>2, <1>13, <1>14, KeepsHonours DEF Accounted

\* What forceRemoveTask erases under the member.
LEMMA ForgetFields ==
    ASSUME NEW s \in Keyspace, NEW m \in Members, NEW u, u = Forget(s, m)
    PROVE  /\ u.task = s.task /\ u.generations = s.generations
           /\ u.published = s.published /\ u.result = {r \in s.result : r[1] # m}
           /\ u.deadLetter = s.deadLetter \ {m}
           /\ u.retains = s.retains /\ u.retainedBy = {p \in s.retainedBy : p[1] # m}
           /\ u.continuations = s.continuations
           /\ \A h \in Members :
                 /\ u.taskExpiry[h] = IF h = m THEN Out ELSE s.taskExpiry[h]
                 /\ u.resultExpiry[h] = IF h = m THEN Out ELSE s.resultExpiry[h]
                 /\ u.deadLetterExpiry[h] = IF h = m THEN Out ELSE s.deadLetterExpiry[h]
           /\ Fielded(u)
<1>1. /\ s.taskExpiry \in [Members -> Score] /\ s.resultExpiry \in [Members -> Score]
      /\ s.deadLetterExpiry \in [Members -> Score] /\ Fielded(s)
  BY KeyspaceFields DEF Keyspace
<1>2. /\ u.task = s.task /\ u.generations = s.generations
      /\ u.published = s.published /\ u.result = {r \in s.result : r[1] # m}
      /\ u.deadLetter = s.deadLetter \ {m}
      /\ u.retains = s.retains /\ u.retainedBy = {p \in s.retainedBy : p[1] # m}
      /\ u.continuations = s.continuations
      /\ u.taskExpiry = [s.taskExpiry EXCEPT ![m] = Out]
      /\ u.resultExpiry = [s.resultExpiry EXCEPT ![m] = Out]
      /\ u.deadLetterExpiry = [s.deadLetterExpiry EXCEPT ![m] = Out]
      /\ Fielded(u)
  BY <1>1 DEF Forget, Fielded, EmptyKeyspace
<1> QED BY <1>1, <1>2

\* forceRemoveTask: whatever is stored under the member goes, holds on it included.
LEMMA ForceRemoveTaskBooks ==
    ASSUME NEW s, Sound(s), Books(s, {}), NEW i \in Ids, Exists(s, i),
           NEW m, m = Current(s, i), NEW P, P \subseteq s.retains, \A p \in P : p[1] = m,
           NEW y, y = DeleteAll(Forget(ReleaseOwnedHolds(Unlock(s, {i}), {m}, P), m), {i})
    PROVE  Accounted(s, y)
<1> DEFINE u == Unlock(s, {i})
           a == ReleaseOwnedHolds(u, {m}, P)
           f == Forget(a, m)
<1>1. u = Unlock(s, {i}) /\ f = Forget(a, m)
  OBVIOUS
<1>2. y = DeleteAll(f, {i})
  OBVIOUS
<1>3. a = ReleaseOwnedHolds(u, {m}, P)
  OBVIOUS
<1> HIDE DEF u, a, f
<1>4. s \in Keyspace /\ m \in Members /\ m[1] = i
  BY CurrentType DEF Sound, Current
<1>5. InOrder(s, u) /\ Idle(s, u)
  BY <1>1, <1>4, UnlockBooks
<1>6. Ready(u)
  BY <1>1, SoundReady, UnlockReady
<1>7. u \in Keyspace /\ P \subseteq u.retains /\ Books(u, {m}) /\ Exists(u, i)
      /\ m = Current(u, i)
  BY <1>5, <1>6, BooksOpened DEF Ready, Idle, InOrder, Exists, Current
<1>8. Books(a, {m}) /\ Released(a, {m}) /\ Keeps(u, a)
  <2>1. {m} \in SUBSET Members /\ \A p \in P : p[1] \in {m}
    BY <1>4
  <2> QED BY <1>3, <1>7, <2>1, ReleaseOwnedHoldsBooks
<1>9. a \in Keyspace
  BY <1>3, <1>6, <1>7, ReleaseOwnedHoldsEnds DEF Ends, Ready
<1>10. \A h \in Members : (h[1] = i /\ IsCurrent(a, h)) \/ h = Current(a, i) => h = m
  BY <1>7, <1>8, <1>9, ReleasedMember, CurrentMember
<1>11. /\ f.task = a.task /\ f.generations = a.generations
       /\ f.published = a.published /\ f.result = {r \in a.result : r[1] # m}
       /\ f.deadLetter = a.deadLetter \ {m}
       /\ f.retains = a.retains /\ f.retainedBy = {p \in a.retainedBy : p[1] # m}
       /\ f.continuations = a.continuations
       /\ \A h \in Members :
             /\ f.taskExpiry[h] = IF h = m THEN Out ELSE a.taskExpiry[h]
             /\ f.resultExpiry[h] = IF h = m THEN Out ELSE a.resultExpiry[h]
             /\ f.deadLetterExpiry[h] = IF h = m THEN Out ELSE a.deadLetterExpiry[h]
       /\ Fielded(f)
  BY <1>1, <1>4, <1>9, ForgetFields
<1>12. /\ SameRecords(f, y)
       /\ y.taskExpiry = Unschedule(f.taskExpiry, CurrentOf(f, {i}))
       /\ y.task = [j \in Ids |-> IF j \in {i} THEN NoTask ELSE f.task[j]]
  BY <1>2, <1>11, DeleteAllFields
<1>13. y.task[i] = NoTask /\ \A j \in Ids \ {i} : y.task[j] = a.task[j]
  <2>1. f.task = a.task
    BY <1>11
  <2>2. y.task = [j \in Ids |-> IF j \in {i} THEN NoTask ELSE f.task[j]]
    BY <1>12
  <2>3. y.task = [j \in Ids |-> IF j \in {i} THEN NoTask ELSE a.task[j]]
    BY <2>1, <2>2
  <2>4. \A j \in Ids : y.task[j] = IF j \in {i} THEN NoTask ELSE a.task[j]
    BY <2>3
  <2>5. i \in Ids
    OBVIOUS
  <2> QED BY <2>4, <2>5
<1>14. ~Exists(y, i)
  BY <1>13, NoTaskType DEF Exists
<1>15. TasksFade(a, y)
  BY <1>13, <1>14 DEF TasksFade, SameJob
<1>16. a.result \subseteq Members \X Outcomes /\ a.deadLetter \subseteq Members
       /\ a.retains \subseteq Members \X Members /\ a.retainedBy \subseteq Members \X Members
  BY <1>9 DEF Keyspace
<1>17. RecordsFade(a, y)
  <2>1. y.published = a.published /\ y.result \subseteq a.result /\ y.deadLetter \subseteq a.deadLetter
    BY <1>11, <1>12 DEF SameRecords
  <2>2. \A r \in y.result : r[1] \in Members /\ r[1] # m
    <3>1. y.result = {r \in a.result : r[1] # m}
      BY <1>11, <1>12 DEF SameRecords
    <3> QED BY <1>16, <3>1
  <2>3. \A h \in y.deadLetter : h \in Members /\ h # m
    <3>1. y.deadLetter = a.deadLetter \ {m}
      BY <1>11, <1>12 DEF SameRecords
    <3> QED BY <1>16, <3>1
  <2>4. \A h \in Members :
           /\ y.resultExpiry[h] = IF h = m THEN Out ELSE a.resultExpiry[h]
           /\ y.deadLetterExpiry[h] = IF h = m THEN Out ELSE a.deadLetterExpiry[h]
    <3>1. y.resultExpiry = f.resultExpiry /\ y.deadLetterExpiry = f.deadLetterExpiry
      BY <1>12 DEF SameRecords
    <3> QED BY <1>11, <3>1
  <2> QED BY <2>1, <2>2, <2>3, <2>4 DEF RecordsFade
<1>18. ExpiriesFade(a, y)
  <2>1. \A h \in Members : y.taskExpiry[h] =
           IF h = Current(f, i) \/ h = m THEN Out ELSE a.taskExpiry[h]
    BY <1>11, <1>12 DEF Unschedule, CurrentOf
  <2>2. \A j \in Ids : Exists(y, j) => j # i /\ Exists(a, j)
    BY <1>13, <1>14 DEF Exists
  <2>3. \A j \in Ids : Exists(a, j) /\ j # i =>
           Current(a, j) \in Members /\ Current(a, j) # Current(f, i) /\ Current(a, j) # m
    BY <1>4, <1>9, CurrentType DEF Current
  <2> QED BY <2>1, <2>2, <2>3 DEF ExpiriesFade
<1>19. HoldsFade(a, y, {m})
  <2>1. /\ y.retains = a.retains /\ y.retainedBy = {p \in a.retainedBy : p[1] # m}
        /\ y.result = {r \in a.result : r[1] # m} /\ y.continuations = a.continuations
    BY <1>11, <1>12 DEF SameRecords
  <2>2. ASSUME NEW h \in Members, IsCurrent(a, h), h # m
        PROVE  IsCurrent(y, h) /\ (Settled(y, h[1]) <=> Settled(a, h[1]))
    <3>1. h[1] \in Ids /\ h[1] # i
      BY <1>10, <2>2, MemberType
    <3> QED BY <2>2, <3>1, <1>13 DEF IsCurrent, Settled
  <2>3. ASSUME NEW p \in y.retainedBy
        PROVE  /\ p \in a.retainedBy /\ p[1] \in Members /\ p[1] # m
               /\ \A r \in a.result : r[1] = p[1] => r \in y.result
    BY <1>16, <2>1
  <2>4. ASSUME NEW p \in y.retains, Free(a, p[1]) PROVE Free(y, p[1])
    <3>1. p \in a.retains /\ p[1] \in Members
      BY <1>16, <2>1
    <3>2. CASE a.continuations[p[1]] # Out
      BY <2>1, <3>2 DEF Free
    <3>3. CASE Live(a, p[1]) /\ p[1] # m
      BY <2>2, <3>1, <3>3 DEF Free, Live
    <3>4. CASE p[1] = m
      BY <1>8, <2>1, <3>1, <3>4 DEF Released, Free
    <3> QED BY <2>4, <3>2, <3>3, <3>4 DEF Free
  <2> QED BY <2>1, <2>2, <2>3, <2>4 DEF HoldsFade
<1>20. Fades(a, y, {m})
  BY <1>11, <1>12, <1>15, <1>17, <1>18, <1>19 DEF Fades, SameRecords
<1>21. Books(y, {m}) /\ Keeps(a, y)
  BY <1>8, <1>9, <1>20, FadesBooks, FadesTidy
<1>22. ~Live(y, m)
  BY <1>4, <1>14, CurrentMember DEF Live
<1>23. Released(y, {m})
  <2>1. y.retains = a.retains /\ y.continuations = a.continuations
    BY <1>11, <1>12 DEF SameRecords
  <2> QED BY <1>8, <2>1 DEF Released
<1>24. Books(y, {})
  BY <1>21, <1>22, <1>23, BooksClosed
<1>25. Keeps(s, y)
  BY <1>5, <1>8, <1>21, KeepsTransitive DEF InOrder, Tidy
<1> QED BY <1>4, <1>24, <1>25, KeepsHonours DEF Accounted

\* extendLock: the attempt goes on.
LEMMA ExtendLockBooks ==
    ASSUME NEW s, Sound(s), Books(s, {}), NEW i \in Ids, IsLocked(s, i), NEW until \in Nat,
           NEW y, y = MoveToList([s EXCEPT !.lock[i].until = until], i, "active", until)
    PROVE  InOrder(s, y)
<1> DEFINE u == [s EXCEPT !.lock[i].until = until]
           r == [s.lock[i] EXCEPT !.until = until]
           lock == [s.lock EXCEPT ![i] = r]
<1>1. s \in Keyspace /\ s.lock \in [Ids -> Lock] /\ s.task[i].currentList = "active"
  BY OwnedActive DEF Sound, Keyspace
<1>2. r \in Lock
  BY <1>1 DEF Lock
<1>3. u = [s EXCEPT !.lock = lock]
  BY <1>1 DEF Keyspace
<1>4. y = MoveToList(u, i, "active", until)
  OBVIOUS
<1> HIDE DEF r, u
<1>5. lock \in [Ids -> Lock]
  BY <1>1, <1>2
<1> HIDE DEF lock
<1>6. u \in Keyspace
  <2>1. [s EXCEPT !.lock = lock] \in Keyspace
    BY <1>1, <1>5, LockSetType, Zenon
  <2> QED BY <1>3, <2>1
<1>7. Idle(s, u)
  BY <1>1, <1>3 DEF Keyspace, Idle
<1>8. InOrder(s, u)
  BY <1>1, <1>7, IdleBooks
<1>9. InOrder(u, y)
  BY <1>1, <1>4, <1>6, <1>7, <1>8, MoveOneBooks DEF Idle, InOrder, Lists
<1> QED BY <1>1, <1>8, <1>9, InOrderTransitive

\* removeLock: the attempt is given up, and charged for nothing.
LEMMA RemoveLockBooks ==
    ASSUME NEW s, Sound(s), Books(s, {}), NEW i \in Ids, IsLocked(s, i),
           NEW y, y = MoveToList(Unlock(s, {i}), i, "wait", 0)
    PROVE  InOrder(s, y)
<1> DEFINE u == Unlock(s, {i})
<1>1. y = MoveToList(u, i, "wait", 0) /\ u = Unlock(s, {i})
  OBVIOUS
<1> HIDE DEF u
<1>2. s \in Keyspace
  BY DEF Sound
<1>3. InOrder(s, u)
  BY <1>1, <1>2, UnlockBooks
<1>4. u \in Keyspace
  BY <1>1, SoundReady, UnlockReady DEF Ready
<1>5. InOrder(u, y)
  BY <1>1, <1>3, <1>4, MoveOneBooks DEF InOrder, Lists
<1> QED BY <1>2, <1>3, <1>5, InOrderTransitive

-----------------------------------------------------------------------------
(* The invariant. *)

LeasesGiven(s, L) == \A k \in DOMAIN L : IsGiven(s, L[k])

\* Inv is needed throughout: an attempt that is charged is one that was running
\* (Placed, Guarded), and only a task without an outcome is settled.
Ledger == Inv /\ Books(db, {}) /\ LeasesGiven(db, leases)

\* A lease names a generation that was given out.
LeaseStep ==
    \/ UNCHANGED leases
    \/ \E m \in Members : IsGiven(db', m) /\ leases' = Append(leases, m)

\* An operation after its sweep.
LEMMA SweepAccounted ==
    ASSUME Inv, Inv', NEW s, InOrder(db, s), Accounted(s, db')
    PROVE  Accounted(db, db')
<1>1. db \in Keyspace /\ db' \in Keyspace
  BY DEF Inv, Sound
<1> QED BY <1>1, AccountedAfter

\* The operations that start with a sweep, one by one.
LEMMA SweepingAccounted ==
    ASSUME Inv, Inv', Books(db, {}), NEW x \in SyncAll(db), Sweeping(x)
    PROVE  Accounted(db, db') /\ LeaseStep
<1> DEFINE s == x.db
<1>1. Safe(db, s) /\ InOrder(db, s)
  BY SyncAllSafe, SyncAllBooks DEF Inv
<1>2. Sound(s) /\ s \in Keyspace /\ Books(s, {})
  BY <1>1 DEF Safe, Sound, InOrder
<1> HIDE DEF s
<1>3. CASE Maintain(x)
  <2>1. db' = s /\ UNCHANGED leases
    BY <1>3 DEF Maintain, s
  <2>2. Accounted(db, db')
    BY <1>1, <2>1, InOrderAccounted DEF Inv, Sound
  <2> QED BY <2>1, <2>2 DEF LeaseStep
<1>4. ASSUME NEW i \in Ids, NEW c \in Configs, NEW d \in Delays, OfferNew(x, i, c, d)
      PROVE  Accounted(db, db') /\ LeaseStep
  <2>1. /\ Replaceable(s, i) /\ s.generations[i] < MaxGen
        /\ db' = Enqueue(NewRecord(Replaced(s, i), i, c), i, d) /\ UNCHANGED leases
    BY <1>4 DEF OfferNew, s
  <2>2. d \in Nat
    BY DurationsAssumption
  <2>3. Accounted(s, db')
    BY <1>2, <2>1, <2>2, OfferNewBooks
  <2> QED BY <1>1, <2>1, <2>3, SweepAccounted DEF LeaseStep
<1>5. ASSUME NEW i \in Ids, NEW h \in Members, OfferExisting(x, i, h)
      PROVE  Accounted(db, db') /\ LeaseStep
  <2>1. /\ Exists(s, i) /\ Live(s, h) /\ RoomForHold(s, h, Current(s, i))
        /\ db' = AcquireRetentionHold(s, h, Current(s, i))
        /\ UNCHANGED leases
    BY <1>5 DEF OfferExisting, ValidateLiveHolder, Live, s
  <2>2. Accounted(s, db')
    BY <1>2, <2>1, OfferExistingBooks
  <2> QED BY <1>1, <2>1, <2>2, SweepAccounted DEF LeaseStep
<1>6. ASSUME NEW i \in Ids, NEW h \in Members, NEW c \in Configs, NEW d \in Delays,
             OfferHeld(x, i, c, d, h)
      PROVE  Accounted(db, db') /\ LeaseStep
  <2> DEFINE old == Replaced(s, i)
             new == NewRecord(old, i, c)
             m == Current(new, i)
  <2>1. /\ Replaceable(s, i) /\ s.generations[i] < MaxGen /\ Live(s, h)
        /\ \/ RoomForHold(new, h, m) /\ db' = Enqueue(AcquireRetentionHold(new, h, m), i, d)
           \/ db' = TakeBack(new, old, i, h)
        /\ UNCHANGED leases
    BY <1>6 DEF OfferHeld, ValidateLiveHolder, Live, s
  <2>2. d \in Nat
    BY DurationsAssumption
  <2>3. old = Replaced(s, i) /\ new = NewRecord(old, i, c) /\ m = Current(new, i)
    OBVIOUS
  <2> HIDE DEF old, new, m
  <2>4. /\ RoomForHold(new, h, m) =>
              Accounted(s, Enqueue(AcquireRetentionHold(new, h, m), i, d))
        /\ Accounted(s, TakeBack(new, old, i, h))
    BY <1>2, <2>1, <2>2, <2>3, OfferHeldBooks
  <2>5. Accounted(s, db')
    BY <2>1, <2>4
  <2> QED BY <1>1, <2>1, <2>5, SweepAccounted DEF LeaseStep
<1>7. ASSUME NEW t \in LockTimeouts, TakeTask(x, t)
      PROVE  Accounted(db, db') /\ LeaseStep
  <2> DEFINE i == Head(s.wait)
             k == Len(leases) + 1
  <2>1. s.wait # <<>>
    BY <1>7 DEF TakeTask, s
  <2>2. /\ i \in Ids /\ Exists(s, i) /\ ~Settled(s, i) /\ ~IsLocked(s, i)
        /\ s.task[i].currentList = "wait"
    BY <1>2, <2>1, HeadOfWait
  <2>3. db' = LockTask(s, i, k, t) /\ leases' = Append(leases, Current(s, i))
    BY <1>7, <2>2 DEF TakeTask, s
  <2> HIDE DEF i, k
  <2>4. InOrder(s, db')
    BY <1>2, <2>2, <2>3, LockTaskBooks
  <2>5. Current(s, i) \in Members /\ Current(s, i) = <<i, s.generations[i]>>
    BY <1>2, <2>2, CurrentType DEF Current, Books, Numbered
  <2>6. db'.generations = s.generations
    BY <2>4 DEF InOrder, Tidy, Keeps
  <2>7. s.generations[i] \in Nat
    BY <1>2, <2>2 DEF Keyspace
  <2>8. IsGiven(db', Current(s, i))
    BY <2>5, <2>6, <2>7 DEF IsGiven
  <2>9. Accounted(s, db')
    BY <1>2, <2>4, InOrderAccounted
  <2> QED BY <1>1, <2>3, <2>5, <2>8, <2>9, SweepAccounted DEF LeaseStep
<1>8. ASSUME NEW k \in DOMAIN leases, WriteSuccess(x, k)
      PROVE  Accounted(db, db') /\ LeaseStep
  <2> DEFINE i == leases[k][1]
  <2>1. /\ Owns(s, k) /\ UNCHANGED leases
        /\ \E P \in Pops(s, {Current(s, i)}, x.left) :
              db' = SettleTask([Unlock(s, {i}) EXCEPT !.task[i].outcome = "success"], {i}, P)
    BY <1>8 DEF WriteSuccess, s
  <2>2. PICK P \in Pops(s, {Current(s, i)}, x.left) :
              db' = SettleTask([Unlock(s, {i}) EXCEPT !.task[i].outcome = "success"], {i}, P)
    BY <2>1
  <2>3. P \subseteq s.retains /\ \A p \in P : p[1] = Current(s, i)
    BY DEF Pops
  <2>4. i \in Ids /\ IsLocked(s, i)
    BY <2>1, OwnsLocked DEF Inv
  <2> HIDE DEF i
  <2>5. InOrder(s, db')
    BY <1>2, <2>2, <2>3, <2>4, WriteSuccessBooks
  <2>6. Accounted(s, db')
    BY <1>2, <2>5, InOrderAccounted
  <2> QED BY <1>1, <2>1, <2>6, SweepAccounted DEF LeaseStep
<1>9. ASSUME NEW k \in DOMAIN leases, NEW d \in RetryDelays,
             WriteErrorRetry(x, k, x.db.now + d)
      PROVE  Accounted(db, db') /\ LeaseStep
  <2> DEFINE i == leases[k][1]
             u == HandlerFailure(s, i)
             retryAt == s.now + d
  <2>1. /\ Owns(s, k) /\ UNCHANGED leases
        /\ \/ db' = MoveToList(u, i, "scheduled", retryAt)
           \/ db' = MoveToList(u, i, "wait", 0)
    BY <1>9 DEF WriteErrorRetry, s
  <2>2. i \in Ids /\ IsLocked(s, i)
    BY <2>1, OwnsLocked DEF Inv
  <2> HIDE DEF i, retryAt
  <2>3. InOrder(s, db')
    <3>1. PICK l \in {"wait", "scheduled"}, score \in {0, retryAt} : db' = MoveToList(u, i, l, score)
      BY <2>1
    <3> QED BY <1>2, <2>2, <3>1, WriteErrorRetryBooks
  <2>4. Accounted(s, db')
    BY <1>2, <2>3, InOrderAccounted
  <2> QED BY <1>1, <2>1, <2>4, SweepAccounted DEF LeaseStep
<1>10. ASSUME NEW k \in DOMAIN leases, WriteErrorTerminal(x, k)
       PROVE  Accounted(db, db') /\ LeaseStep
  <2> DEFINE i == leases[k][1]
  <2>1. /\ Owns(s, k) /\ UNCHANGED leases
        /\ \E P \in Pops(s, {Current(s, i)}, x.left) :
              db' = SettleTask([HandlerFailure(s, i) EXCEPT !.task[i].outcome = "failure"], {i}, P)
    BY <1>10 DEF WriteErrorTerminal, s
  <2>2. PICK P \in Pops(s, {Current(s, i)}, x.left) :
              db' = SettleTask([HandlerFailure(s, i) EXCEPT !.task[i].outcome = "failure"], {i}, P)
    BY <2>1
  <2>3. P \subseteq s.retains /\ \A p \in P : p[1] = Current(s, i)
    BY DEF Pops
  <2>4. i \in Ids /\ IsLocked(s, i)
    BY <2>1, OwnsLocked DEF Inv
  <2> HIDE DEF i
  <2>5. InOrder(s, db')
    BY <1>2, <2>2, <2>3, <2>4, WriteErrorTerminalBooks
  <2>6. Accounted(s, db')
    BY <1>2, <2>5, InOrderAccounted
  <2> QED BY <1>1, <2>1, <2>6, SweepAccounted DEF LeaseStep
<1>11. ASSUME NEW i \in Ids, RemoveTask(x, i)
       PROVE  Accounted(db, db') /\ LeaseStep
  <2> DEFINE m == Current(s, i)
  <2>1. /\ Exists(s, i) /\ ~HasRetentionHolds(s, m) /\ UNCHANGED leases
        /\ \E P \in Pops(s, {m}, x.left) :
              db' = DeleteAll(ReleaseOwnedHolds(s, {m}, P), {i})
    BY <1>11 DEF RemoveTask, s
  <2>2. PICK P \in Pops(s, {m}, x.left) :
              db' = DeleteAll(ReleaseOwnedHolds(s, {m}, P), {i})
    BY <2>1
  <2>3. m = Current(s, i)
    OBVIOUS
  <2> HIDE DEF m
  <2>4. P \subseteq s.retains /\ \A p \in P : p[1] = m
    BY DEF Pops
  <2>5. Accounted(s, db')
    BY <1>2, <2>1, <2>2, <2>3, <2>4, RemoveTaskBooks
  <2> QED BY <1>1, <2>1, <2>5, SweepAccounted DEF LeaseStep
<1>12. ASSUME NEW i \in Ids, ForceRemoveTask(x, i)
       PROVE  Accounted(db, db') /\ LeaseStep
  <2> DEFINE m == Current(s, i)
  <2>1. /\ Exists(s, i) /\ UNCHANGED leases
        /\ \E P \in Pops(s, {m}, x.left) :
              db' = DeleteAll(Forget(ReleaseOwnedHolds(Unlock(s, {i}), {m}, P), m), {i})
    BY <1>12 DEF ForceRemoveTask, s
  <2>2. PICK P \in Pops(s, {m}, x.left) :
              db' = DeleteAll(Forget(ReleaseOwnedHolds(Unlock(s, {i}), {m}, P), m), {i})
    BY <2>1
  <2>3. m = Current(s, i)
    OBVIOUS
  <2> HIDE DEF m
  <2>4. P \subseteq s.retains /\ \A p \in P : p[1] = m
    BY DEF Pops
  <2>5. Accounted(s, db')
    BY <1>2, <2>1, <2>2, <2>3, <2>4, ForceRemoveTaskBooks
  <2> QED BY <1>1, <2>1, <2>5, SweepAccounted DEF LeaseStep
<1> QED
  BY <1>3, <1>4, <1>5, <1>6, <1>7, <1>8, <1>9, <1>10, <1>11, <1>12 DEF Sweeping

\* Redis' clock moves nothing but itself and the lock keys.
LEMMA TickAccounted ==
    ASSUME Inv, Books(db, {}), Tick
    PROVE  Accounted(db, db')
<1>1. db \in Keyspace
  BY DEF Inv, Sound
<1>2. Idle(db, db')
  BY <1>1 DEF Tick, Keyspace, Idle
<1>3. InOrder(db, db')
  BY <1>1, <1>2, IdleBooks
<1> QED BY <1>1, <1>3, InOrderAccounted

\* Every step keeps the books and honours the holds.
LEMMA NextAccounted ==
    ASSUME Inv, Inv', Books(db, {}), [Next]_vars
    PROVE  Accounted(db, db') /\ LeaseStep
<1>0. Sound(db) /\ db \in Keyspace
  BY DEF Inv, Sound
<1>1. CASE \E x \in SyncAll(db) : Sweeping(x)
  BY <1>1, SweepingAccounted
<1>2. ASSUME NEW k \in DOMAIN leases, NEW t \in LockTimeouts, ExtendLock(k, t)
      PROVE  Accounted(db, db') /\ LeaseStep
  <2> DEFINE i == leases[k][1]
             until == db.now + t
  <2>1. /\ Owns(db, k) /\ UNCHANGED leases
        /\ db' = MoveToList([db EXCEPT !.lock[i].until = until], i, "active", until)
    BY <1>2 DEF ExtendLock
  <2>2. i \in Ids /\ IsLocked(db, i)
    BY <2>1, OwnsLocked DEF Inv
  <2>3. until \in Nat
    BY <1>0, DurationsAssumption DEF Keyspace
  <2> HIDE DEF i, until
  <2>4. InOrder(db, db')
    BY <1>0, <2>1, <2>2, <2>3, ExtendLockBooks
  <2> QED BY <1>0, <2>1, <2>4, InOrderAccounted DEF LeaseStep
<1>3. ASSUME NEW k \in DOMAIN leases, RemoveLock(k)
      PROVE  Accounted(db, db') /\ LeaseStep
  <2> DEFINE i == leases[k][1]
  <2>1. /\ Owns(db, k) /\ UNCHANGED leases
        /\ db' = MoveToList(Unlock(db, {i}), i, "wait", 0)
    BY <1>3 DEF RemoveLock
  <2>2. i \in Ids /\ IsLocked(db, i)
    BY <2>1, OwnsLocked DEF Inv
  <2> HIDE DEF i
  <2>3. InOrder(db, db')
    BY <1>0, <2>1, <2>2, RemoveLockBooks
  <2> QED BY <1>0, <2>1, <2>3, InOrderAccounted DEF LeaseStep
<1>4. CASE Tick
  <2>1. UNCHANGED leases
    BY <1>4 DEF Tick
  <2> QED BY <1>4, <2>1, TickAccounted DEF LeaseStep
<1>5. CASE UNCHANGED vars
  <2>1. db' = db /\ UNCHANGED leases
    BY <1>5 DEF vars
  <2>2. InOrder(db, db')
    BY <2>1 DEF InOrder, Tidy, Keeps
  <2> QED BY <1>0, <2>1, <2>2, InOrderAccounted DEF LeaseStep
<1> QED BY <1>1, <1>2, <1>3, <1>4, <1>5 DEF Next

\* Generation numbers only grow, so leases stay given.
LEMMA LeasesStayGiven ==
    ASSUME Inv, Inv', LeasesGiven(db, leases), Honours(db, db'), LeaseStep
    PROVE  LeasesGiven(db', leases')
<1>1. /\ db \in Keyspace /\ db' \in Keyspace
      /\ leases \in Seq(Members) /\ leases' \in Seq(Members)
  BY DEF Inv, Sound
<1>2. ASSUME NEW k \in DOMAIN leases PROVE IsGiven(db', leases[k])
  <2> DEFINE m == leases[k]
  <2>1. m \in Members
    BY <1>1
  <2> HIDE DEF m
  <2>2. m[1] \in Ids /\ m[2] \in Nat
    BY <2>1, MemberType
  <2>3. db.generations[m[1]] \in Nat /\ db'.generations[m[1]] \in Nat
    BY <1>1, <2>2 DEF Keyspace
  <2>4. m[2] <= db.generations[m[1]]
    BY <1>2 DEF LeasesGiven, IsGiven, m
  <2>5. db.generations[m[1]] <= db'.generations[m[1]]
    BY <2>2 DEF Honours
  <2>6. m[2] <= db'.generations[m[1]]
    BY <2>2, <2>3, <2>4, <2>5
  <2> QED BY <2>6 DEF IsGiven, m
<1>3. CASE UNCHANGED leases
  BY <1>2, <1>3 DEF LeasesGiven
<1>4. ASSUME NEW m \in Members, IsGiven(db', m), leases' = Append(leases, m)
      PROVE  LeasesGiven(db', leases')
  <2>1. \A k \in DOMAIN leases' : leases'[k] = m \/ (k \in DOMAIN leases /\ leases'[k] = leases[k])
    BY <1>1, <1>4
  <2> QED BY <1>2, <1>4, <2>1 DEF LeasesGiven
<1> QED BY <1>3, <1>4 DEF LeaseStep

\* There is nothing in the books of an empty keyspace.
LEMMA InitLedger == Init => Ledger
<1> SUFFICES ASSUME Init PROVE Ledger
  OBVIOUS
<1>1. Inv
  BY InitInv
<1>2. /\ db.retains = {} /\ db.retainedBy = {} /\ db.result = {} /\ db.published = {}
      /\ db.deadLetter = {}
      /\ \A m \in Members : /\ db.continuations[m] = Out /\ db.taskExpiry[m] = Out
                            /\ db.resultExpiry[m] = Out
      /\ \A i \in Ids : ~Exists(db, i)
  BY NoTaskType DEF Init, EmptyKeyspace, Exists
<1>3. Books(db, {})
  BY <1>2 DEF Books, Numbered, Told, Pinned, Bounded, Releasable, Resigned, RetentionSet, Charged
<1>4. LeasesGiven(db, leases)
  BY DEF Init, LeasesGiven
<1> QED BY <1>1, <1>3, <1>4 DEF Ledger

\* Every step keeps the ledger, and honours the holds that it finds.
LEMMA NextLedger == Ledger /\ [Next]_vars => Ledger' /\ Honours(db, db')
<1> SUFFICES ASSUME Ledger, [Next]_vars PROVE Ledger' /\ Honours(db, db')
  OBVIOUS
<1>1. Inv /\ Inv'
  BY NextInv DEF Ledger
<1>2. Accounted(db, db') /\ LeaseStep
  BY <1>1, NextAccounted DEF Ledger
<1>3. LeasesGiven(db', leases')
  BY <1>1, <1>2, LeasesStayGiven DEF Ledger, Accounted
<1> QED BY <1>1, <1>2, <1>3 DEF Ledger, Accounted

\* The task engine keeps its books in every behaviour.
THEOREM LedgerKept == Spec => []Ledger
<1>1. Init => Ledger
  BY InitLedger
<1>2. Ledger /\ [Next]_vars => Ledger'
  BY NextLedger
<1> QED BY <1>1, <1>2, PTL DEF Spec

\* No attempt is charged twice: a late writeError and the sweep that declares the
\* same attempt stalled cannot both count it, whatever the interleaving.
THEOREM AttemptsChargedOnce == Spec => []AttemptChargedOnce
<1>1. Ledger => AttemptChargedOnce
  <2> SUFFICES ASSUME Ledger, NEW i \in Ids, Exists(db, i)
               PROVE  db.task[i].handlerFailureCount + db.task[i].stalledAttemptCount
                         <= db.task[i].attempt
                              - (IF \/ db.task[i].currentList = "active"
                                    \/ db.task[i].outcome = "success" THEN 1 ELSE 0)
    BY DEF AttemptChargedOnce
  <2>1. ChargedOnce(db.task[i])
    BY DEF Ledger, Books, Charged
  <2>2. db.task[i].currentList = "active" => db.task[i].outcome = "open"
    BY DEF Ledger, Inv, Sound, Placed, Settled
  <2> QED BY <2>1, <2>2 DEF ChargedOnce, Running
<1> QED BY <1>1, LedgerKept, PTL

\* A retained generation is there as long as anything retains it, and the hold
\* can be found from its holder: no deletion, expiry or replacement breaks one.
THEOREM HoldsPin == Spec => []HoldPinsRecord
<1>1. Ledger => HoldPinsRecord
  BY DEF Ledger, Books, Pinned, HoldPinsRecord
<1> QED BY <1>1, LedgerKept, PTL

\* Every hold can be released: its holder is unsettled, or the release is queued
\* for a later sweep, however the batch budget cut earlier releases off.  And
\* neither side of the relationships outgrows its cap.
THEOREM HoldsCanBeReleased == Spec => []HoldsReleasable
<1>1. Ledger => HoldsReleasable
  BY DEF Ledger, Books, Bounded, Side, Releasable, Free, Live, HoldsReleasable,
         RelationshipsBounded
<1> QED BY <1>1, LedgerKept, PTL

\* What is kept after settlement has an expiry, also when its expiry met a hold
\* and was postponed.
THEOREM RetentionIsScheduled == Spec => []RetentionScheduled
<1>1. Ledger => RetentionScheduled
  BY DEF Ledger, Books, RetentionSet, RetentionScheduled
<1> QED BY <1>1, LedgerKept, PTL

\* A generation has one outcome and its terminal event is published once, through
\* races of settlements with stalls, replacement and expiry; and no number that
\* anything is keyed by is given out a second time.
THEOREM OutcomesAreUnique == Spec => []OneOutcome
<1>1. Ledger => OneOutcome
  <2> SUFFICES ASSUME Ledger PROVE OneOutcome
    OBVIOUS
  <2>1. GenerationsGiven
    BY DEF Ledger, Books, Numbered, LeasesGiven, IsGiven, GenerationsGiven
  <2> QED BY <2>1 DEF Ledger, Books, Told, OneOutcome
<1> QED BY <1>1, LedgerKept, PTL

\* While a hold stands, the result it was taken for stays readable: neither the
\* expiry of results nor a removal takes it.
THEOREM HeldResultsAreKept == Spec => HeldResultKept
<1>1. Ledger /\ [Next]_vars =>
         [\A p \in db.retainedBy \cap db'.retainedBy :
            \A r \in db.result : r[1] = p[1] => r \in db'.result]_vars
  BY NextLedger DEF Honours
<1> QED BY <1>1, LedgerKept, PTL DEF Spec, HeldResultKept
-----------------------------------------------------------------------------
(* The life cycle that the engine implements: the model's side. *)

\* The engine's constants are parameters for the model.
LEMMA ModelParameters == Model!Parameters
<1>1. 0 \notin 1..MaxLeases /\ Gens \subseteq Nat \ {0}
  BY BoundsAssumption DEF Gens
<1>2. {c.maxStalledCount : c \in Configs} \subseteq Nat
  BY ConfigsAssumption DEF TaskConfig
<1> QED BY <1>1, <1>2 DEF Model!Parameters

\* A task of the model, whatever its lease tokens are.
ModelShape(A) ==
    [generation : Nat, state : Model!ExecutionStates, leaseToken : A,
     handlerFailureCount : Nat, stalledAttemptCount : Nat, maxStalledCount : Nat,
     retainedBy : SUBSET Members]

\* The model's task with these fields.
AsTask(g, state, token, failures, stalls, budget, holders) ==
    [generation |-> g, state |-> state, leaseToken |-> token,
     handlerFailureCount |-> failures, stalledAttemptCount |-> stalls,
     maxStalledCount |-> budget, retainedBy |-> holders]

\* What a sweep leaves of the task d, once it is due, stalled, or neither.
Leaves(d, u) ==
    \/ \E H \in SUBSET d.retainedBy : u = [d EXCEPT !.retainedBy = H]
    \/ Model!SettledTask(d) /\ u = Model!Absent

DueOf(t) == {t} \cup Model!promote(t) \cup Model!expire(t)

\* What is due for a task is a present task with the same holds.
LEMMA DueShape ==
    ASSUME NEW A, 0 \in A, NEW t \in ModelShape(A), Model!Present(t), NEW d \in DueOf(t)
    PROVE  d \in ModelShape(A) /\ Model!Present(d) /\ d.retainedBy = t.retainedBy
<1>1. CASE d = t
  BY <1>1
<1>2. CASE d \in Model!promote(t)
  BY <1>2 DEF Model!promote, Model!Present, ModelShape, Model!ExecutionStates
<1>3. CASE d \in Model!expire(t)
  <2>1. PICK st \in {"failed", "waiting"} :
           d = [t EXCEPT !.state = st, !.leaseToken = 0, !.stalledAttemptCount = @ + 1]
    BY <1>3 DEF Model!expire
  <2>2. t.stalledAttemptCount + 1 \in Nat
    BY DEF ModelShape
  <2> QED BY <2>1, <2>2 DEF Model!Present, ModelShape, Model!ExecutionStates
<1> QED BY <1>1, <1>2, <1>3 DEF DueOf

\* Releasing every hold of a task leaves one without.
LEMMA FreedShape ==
    ASSUME NEW A, NEW d \in ModelShape(A), NEW H \in SUBSET d.retainedBy,
           NEW u, u = [d EXCEPT !.retainedBy = H]
    PROVE  /\ u \in ModelShape(A) /\ u.retainedBy = H
           /\ u.generation = d.generation /\ u.state = d.state
           /\ u.stalledAttemptCount = d.stalledAttemptCount
           /\ u.maxStalledCount = d.maxStalledCount
BY DEF ModelShape

\* The model's sweep of a present task, spelled out.
LEMMA SweptIs ==
    ASSUME NEW A, 0 \in A, NEW t \in ModelShape(A), Model!Present(t), NEW u
    PROVE  u \in Model!Swept(t) <=> \E d \in DueOf(t) : Leaves(d, u)
<1> DEFINE freed == UNION {Model!Releases(d) : d \in DueOf(t)}
<1>1. u \in Model!Swept(t) <=> u \in freed \/ \E f \in freed : u \in Model!remove(f)
  BY DEF Model!Swept, DueOf
<1>2. ASSUME NEW d \in DueOf(t)
      PROVE  Model!Releases(d) = {[d EXCEPT !.retainedBy = H] : H \in SUBSET d.retainedBy}
  BY <1>2, DueShape DEF Model!Releases
<1>3. ASSUME NEW d \in DueOf(t), NEW f \in Model!Releases(d), u \in Model!remove(f)
      PROVE  Leaves(d, u)
  <2>1. PICK H \in SUBSET d.retainedBy : f = [d EXCEPT !.retainedBy = H]
    BY <1>2, <1>3
  <2>2. d \in ModelShape(A)
    BY DueShape
  <2>3. f.generation = d.generation /\ f.state = d.state
    BY <2>1, <2>2, FreedShape
  <2> QED BY <1>3, <2>3 DEF Model!remove, Model!SettledTask, Model!Present, Leaves
<1>4. ASSUME NEW d \in DueOf(t), Model!SettledTask(d), u = Model!Absent
      PROVE  \E f \in Model!Releases(d) : u \in Model!remove(f)
  <2> DEFINE f == [d EXCEPT !.retainedBy = {}]
  <2>1. d \in ModelShape(A)
    BY DueShape
  <2>2. f \in Model!Releases(d)
    BY <1>2, Zenon
  <2>3. {} \in SUBSET d.retainedBy
    OBVIOUS
  <2>4. f.generation = d.generation /\ f.state = d.state /\ f.retainedBy = {}
    BY <2>1, <2>3, FreedShape
  <2>5. u \in Model!remove(f)
    BY <1>4, <2>4 DEF Model!remove, Model!SettledTask, Model!Present
  <2> QED BY <2>2, <2>5
<1>5. ASSUME NEW d \in DueOf(t)
      PROVE  u \in Model!Releases(d) <=> \E H \in SUBSET d.retainedBy : u = [d EXCEPT !.retainedBy = H]
  BY <1>2
<1>6. ASSUME u \in Model!Swept(t) PROVE \E d \in DueOf(t) : Leaves(d, u)
  BY <1>1, <1>3, <1>5, <1>6 DEF Leaves
<1>7. ASSUME NEW d \in DueOf(t), Leaves(d, u) PROVE u \in Model!Swept(t)
  BY <1>1, <1>4, <1>5, <1>7 DEF Leaves
<1> QED BY <1>6, <1>7

\* A sweep finds nothing to do for an id that is not there.
LEMMA SweptAbsent == Model!Swept(Model!Absent) = {Model!Absent}
<1>1. Model!promote(Model!Absent) = {} /\ Model!expire(Model!Absent) = {}
      /\ Model!Releases(Model!Absent) = {Model!Absent} /\ Model!remove(Model!Absent) = {}
  BY DEF Model!promote, Model!expire, Model!Releases, Model!remove, Model!SettledTask,
         Model!Present, Model!Absent
<1> QED BY <1>1, Zenon DEF Model!Swept

\* One sweep after the other is a sweep.
LEMMA SweptTransitive ==
    ASSUME NEW A, 0 \in A, NEW t \in ModelShape(A), t = Model!Absent \/ Model!Present(t),
           NEW u, u \in Model!Swept(t), NEW v, v \in Model!Swept(u)
    PROVE  v \in Model!Swept(t)
<1>1. CASE t = Model!Absent
  BY <1>1, SweptAbsent
<1>2. CASE Model!Present(t)
  <2>1. PICK d \in DueOf(t) : Leaves(d, u)
    BY <1>2, SweptIs
  <2>2. d \in ModelShape(A) /\ Model!Present(d)
    BY <1>2, DueShape
  <2>3. CASE u = Model!Absent
    BY <2>3, SweptAbsent
  <2>4. ASSUME NEW H \in SUBSET d.retainedBy, u = [d EXCEPT !.retainedBy = H]
        PROVE  v \in Model!Swept(t)
    <3>1. /\ u \in ModelShape(A) /\ u.retainedBy = H /\ Model!Present(u)
          /\ u.generation = d.generation /\ u.state = d.state
          /\ u.stalledAttemptCount = d.stalledAttemptCount
          /\ u.maxStalledCount = d.maxStalledCount
      BY <2>2, <2>4, FreedShape DEF Model!Present
    <3>2. PICK e \in DueOf(u) : Leaves(e, v)
      BY <3>1, SweptIs
    \* What is due for u was due for d, and d is then t itself.
    <3>3. \E f \in DueOf(t) : Leaves(f, v)
      <4>1. CASE e = u
        <5>1. ASSUME NEW I \in SUBSET H, v = [u EXCEPT !.retainedBy = I]
              PROVE  Leaves(d, v)
          <6>1. I \in SUBSET d.retainedBy /\ v = [d EXCEPT !.retainedBy = I]
            BY <2>2, <2>4, <5>1 DEF ModelShape
          <6> QED BY <6>1 DEF Leaves
        <5>2. Model!SettledTask(u) => Model!SettledTask(d)
          BY <3>1 DEF Model!SettledTask, Model!Present
        <5> QED BY <3>1, <3>2, <4>1, <5>1, <5>2 DEF Leaves
      <4>2. CASE e \in Model!promote(u)
        <5> DEFINE f == [t EXCEPT !.state = "waiting"]
        <5>1. u.state \in {"delayed", "retry-scheduled"} /\ e = [u EXCEPT !.state = "waiting"]
          BY <4>2 DEF Model!promote
        <5>2. d = t
          BY <2>1, <2>2, <3>1, <5>1 DEF DueOf, Model!promote, Model!expire, ModelShape
        <5>3. f \in Model!promote(t)
          BY <1>2, <3>1, <5>1, <5>2 DEF Model!promote
        <5>4. e = [f EXCEPT !.retainedBy = H] /\ e.state = "waiting" /\ e.retainedBy = H
              /\ f.retainedBy = d.retainedBy
          BY <2>2, <2>4, <5>1, <5>2 DEF ModelShape
        <5>5. PICK I \in SUBSET H : v = [e EXCEPT !.retainedBy = I]
          BY <3>2, <5>4 DEF Leaves, Model!SettledTask
        <5>6. I \in SUBSET f.retainedBy /\ v = [f EXCEPT !.retainedBy = I]
          BY <2>2, <5>2, <5>4, <5>5 DEF ModelShape
        <5> HIDE DEF f
        <5> QED BY <5>3, <5>6 DEF Leaves, DueOf
      <4>3. CASE e \in Model!expire(u)
        <5> DEFINE st == IF u.stalledAttemptCount + 1 > u.maxStalledCount
                         THEN "failed" ELSE "waiting"
                   n == u.stalledAttemptCount + 1
                   f == [t EXCEPT !.state = st, !.leaseToken = 0, !.stalledAttemptCount = n]
        <5>1. u.state = "leased" /\ e = [u EXCEPT !.state = st, !.leaseToken = 0,
                                                  !.stalledAttemptCount = n]
          BY <4>3 DEF Model!expire
        <5>2. d = t
          BY <2>1, <2>2, <3>1, <5>1 DEF DueOf, Model!promote, Model!expire, ModelShape
        <5>3. f \in Model!expire(t)
          BY <1>2, <3>1, <5>1, <5>2 DEF Model!expire
        <5> HIDE DEF st, n
        <5>4. e = [f EXCEPT !.retainedBy = H] /\ e.retainedBy = H
              /\ f.retainedBy = d.retainedBy /\ f.state = st /\ e.state = st
              /\ f.generation = t.generation /\ e.generation = t.generation
          BY <2>2, <2>4, <5>1, <5>2 DEF ModelShape
        <5>5. ASSUME NEW I \in SUBSET H, v = [e EXCEPT !.retainedBy = I]
              PROVE  I \in SUBSET f.retainedBy /\ v = [f EXCEPT !.retainedBy = I]
          BY <2>2, <5>2, <5>4, <5>5 DEF ModelShape
        <5>6. Model!SettledTask(e) => Model!SettledTask(f)
          BY <5>4 DEF Model!SettledTask, Model!Present
        <5> HIDE DEF f
        <5>7. Leaves(f, v)
          BY <3>2, <5>4, <5>5, <5>6 DEF Leaves
        <5> QED BY <5>3, <5>7 DEF DueOf
      <4> QED BY <3>2, <4>1, <4>2, <4>3 DEF DueOf
    <3> QED BY <1>2, <3>3, SweptIs
  <2> QED BY <2>1, <2>3, <2>4 DEF Leaves
<1> QED BY <1>1, <1>2

\* A sweep may free a task of holds.
LEMMA FreedSwept ==
    ASSUME NEW A, 0 \in A, NEW g, NEW st, NEW k, NEW f, NEW n, NEW b, NEW H,
           NEW t, t = AsTask(g, st, k, f, n, b, H), t \in ModelShape(A), Model!Present(t),
           NEW I \in SUBSET H
    PROVE  AsTask(g, st, k, f, n, b, I) \in Model!Swept(t)
<1>1. AsTask(g, st, k, f, n, b, I) = [t EXCEPT !.retainedBy = I] /\ t.retainedBy = H
  BY DEF AsTask
<1>2. Leaves(t, AsTask(g, st, k, f, n, b, I))
  BY <1>1, Zenon DEF Leaves
<1>3. t \in DueOf(t)
  BY DEF DueOf
<1> QED BY <1>2, <1>3, SweptIs

\* A sweep may do to a task what is due.
LEMMA DueSwept ==
    ASSUME NEW A, 0 \in A, NEW t \in ModelShape(A), Model!Present(t), NEW d \in DueOf(t)
    PROVE  d \in Model!Swept(t)
<1>1. d \in ModelShape(A)
  BY DueShape
<1>2. d = [d EXCEPT !.retainedBy = d.retainedBy] /\ d.retainedBy \in SUBSET d.retainedBy
  BY <1>1 DEF ModelShape
<1>3. Leaves(d, d)
  BY <1>2 DEF Leaves
<1> QED BY <1>3, SweptIs

\* The model's operations, field by field.

\* A delayed task becomes due.
LEMMA Promotes ==
    ASSUME NEW g, g # 0, NEW st \in {"delayed", "retry-scheduled"},
           NEW k, NEW f, NEW n, NEW b, NEW H, NEW t, t = AsTask(g, st, k, f, n, b, H)
    PROVE  AsTask(g, "waiting", k, f, n, b, H) \in Model!promote(t)
<1>1. Model!Present(t) /\ t.state = st
  BY DEF Model!Present, AsTask
<1>2. [t EXCEPT !.state = "waiting"] = AsTask(g, "waiting", k, f, n, b, H)
  BY DEF AsTask
<1> QED BY <1>1, <1>2, Zenon DEF Model!promote

\* An attempt ends without a charge, or is handed out: its state and its token change.
Restated(t, state, token) == [t EXCEPT !.state = state, !.leaseToken = token]

\* Nothing else does.
LEMMA StateAndToken ==
    ASSUME NEW g, NEW st, NEW k, NEW f, NEW n, NEW b, NEW H,
           NEW t, t = AsTask(g, st, k, f, n, b, H), NEW state, NEW token
    PROVE  Restated(t, state, token) = AsTask(g, state, token, f, n, b, H)
<1> DEFINE t1 == [t EXCEPT !.state = state]
           t2 == [t1 EXCEPT !.leaseToken = token]
<1>1. Restated(t, state, token) = t2
  BY DEF Restated
<1>2. t1 = AsTask(g, state, k, f, n, b, H)
  BY DEF AsTask
<1> HIDE DEF t1
<1>3. t2 = AsTask(g, state, token, f, n, b, H)
  BY <1>2 DEF AsTask
<1> HIDE DEF t2
<1> QED BY <1>1, <1>3

\* An attempt stalls.
LEMMA Expires ==
    ASSUME NEW g, g # 0, NEW k, NEW f, NEW n, NEW b, NEW H,
           NEW t, t = AsTask(g, "leased", k, f, n, b, H),
           NEW state, state = IF n + 1 > b THEN "failed" ELSE "waiting"
    PROVE  AsTask(g, state, 0, f, n + 1, b, H) \in Model!expire(t)
<1> DEFINE t1 == [t EXCEPT !.state = state]
           t2 == [t1 EXCEPT !.leaseToken = 0]
           t3 == [t2 EXCEPT !.stalledAttemptCount = @ + 1]
<1>1. /\ Model!Present(t) /\ t.state = "leased"
      /\ t.stalledAttemptCount = n /\ t.maxStalledCount = b
  BY DEF Model!Present, AsTask
<1>2. [t EXCEPT !.state = state, !.leaseToken = 0, !.stalledAttemptCount = @ + 1] = t3
  OBVIOUS
<1>3. t1 = AsTask(g, state, k, f, n, b, H)
  BY DEF AsTask
<1> HIDE DEF t1
<1>4. t2 = AsTask(g, state, 0, f, n, b, H)
  BY <1>3 DEF AsTask
<1> HIDE DEF t2
<1>5. t3 = AsTask(g, state, 0, f, n + 1, b, H)
  BY <1>4 DEF AsTask
<1> HIDE DEF t3
<1>6. Model!expire(t) =
         {[t EXCEPT !.state = state, !.leaseToken = 0, !.stalledAttemptCount = @ + 1]}
  BY <1>1, Zenon DEF Model!expire
<1> QED BY <1>2, <1>5, <1>6, Zenon

\* An attempt fails.
LEMMA Fails ==
    ASSUME NEW g, g # 0, NEW k, NEW f, NEW n, NEW b, NEW H,
           NEW t, t = AsTask(g, "leased", k, f, n, b, H), NEW retry \in BOOLEAN,
           NEW state \in IF retry THEN {"retry-scheduled", "waiting"} ELSE {"failed"}
    PROVE  AsTask(g, state, 0, f + 1, n, b, H) \in Model!fail(t, k, retry)
<1> DEFINE t1 == [t EXCEPT !.state = state]
           t2 == [t1 EXCEPT !.leaseToken = 0]
           t3 == [t2 EXCEPT !.handlerFailureCount = @ + 1]
<1>1. Model!currentLease(t, k)
  BY DEF Model!currentLease, Model!Present, AsTask
<1>2. [t EXCEPT !.state = state, !.leaseToken = 0, !.handlerFailureCount = @ + 1] = t3
  OBVIOUS
<1>3. t1 = AsTask(g, state, k, f, n, b, H)
  BY DEF AsTask
<1> HIDE DEF t1
<1>4. t2 = AsTask(g, state, 0, f, n, b, H)
  BY <1>3 DEF AsTask
<1> HIDE DEF t2
<1>5. t3 = AsTask(g, state, 0, f + 1, n, b, H)
  BY <1>4 DEF AsTask
<1> HIDE DEF t3
<1>6. [t EXCEPT !.state = state, !.leaseToken = 0, !.handlerFailureCount = @ + 1]
         \in Model!fail(t, k, retry)
  BY <1>1, Zenon DEF Model!fail
<1> QED BY <1>2, <1>5, <1>6, Zenon

\* An attempt succeeds, or is given back.
LEMMA SucceedsOrGivesBack ==
    ASSUME NEW g, g # 0, NEW k, NEW f, NEW n, NEW b, NEW H,
           NEW t, t = AsTask(g, "leased", k, f, n, b, H)
    PROVE  /\ AsTask(g, "succeeded", 0, f, n, b, H) \in Model!succeed(t, k)
           /\ AsTask(g, "waiting", 0, f, n, b, H) \in Model!giveBack(t, k)
<1>1. Model!currentLease(t, k)
  BY DEF Model!currentLease, Model!Present, AsTask
<1>2. /\ Model!succeed(t, k) = {Restated(t, "succeeded", 0)}
      /\ Model!giveBack(t, k) = {Restated(t, "waiting", 0)}
  BY <1>1, Zenon DEF Model!succeed, Model!giveBack, Restated
<1> QED BY <1>2, StateAndToken

\* An attempt is handed out.
LEMMA Acquires ==
    ASSUME NEW g, g # 0, NEW j, NEW f, NEW n, NEW b, NEW H,
           NEW t, t = AsTask(g, "waiting", j, f, n, b, H), NEW k
    PROVE  AsTask(g, "leased", k, f, n, b, H) \in Model!acquire(t, k)
<1>1. Model!Present(t) /\ t.state = "waiting"
  BY DEF Model!Present, AsTask
<1>2. Model!acquire(t, k) = {Restated(t, "leased", k)}
  BY <1>1, Zenon DEF Model!acquire, Restated
<1> QED BY <1>2, StateAndToken

\* A task is retained by one more.
LEMMA Retains ==
    ASSUME NEW g, g # 0, NEW st, NEW k, NEW f, NEW n, NEW b, NEW H,
           NEW t, t = AsTask(g, st, k, f, n, b, H), NEW h
    PROVE  AsTask(g, st, k, f, n, b, H \cup {h}) \in Model!retain(t, h)
<1>1. Model!Present(t) /\ t.retainedBy = H
  BY DEF Model!Present, AsTask
<1>2. [t EXCEPT !.retainedBy = H \cup {h}] = AsTask(g, st, k, f, n, b, H \cup {h})
  BY DEF AsTask
<1>3. Model!retain(t, h) = {[t EXCEPT !.retainedBy = t.retainedBy \cup {h}]}
  BY <1>1, Zenon DEF Model!retain
<1> QED BY <1>1, <1>2, <1>3, Zenon

\* A task is offered where there was none.
LEMMA Offers ==
    ASSUME NEW g, NEW b, NEW st \in {"delayed", "waiting"}
    PROVE  AsTask(g, st, 0, 0, 0, b, {}) \in Model!offer(Model!Absent, g, b)
<1> DEFINE t1 == [Model!Absent EXCEPT !.generation = g]
           t2 == [t1 EXCEPT !.state = st]
           t3 == [t2 EXCEPT !.maxStalledCount = b]
<1>1. ~Model!Present(Model!Absent)
  BY DEF Model!Present, Model!Absent
<1>2. [Model!Absent EXCEPT !.generation = g, !.state = st, !.maxStalledCount = b] = t3
  OBVIOUS
<1>3. t1 = AsTask(g, "waiting", 0, 0, 0, 0, {})
  BY DEF AsTask, Model!Absent
<1> HIDE DEF t1
<1>4. t2 = AsTask(g, st, 0, 0, 0, 0, {})
  BY <1>3 DEF AsTask
<1> HIDE DEF t2
<1>5. t3 = AsTask(g, st, 0, 0, 0, b, {})
  BY <1>4 DEF AsTask
<1> HIDE DEF t3
<1>6. [Model!Absent EXCEPT !.generation = g, !.state = st, !.maxStalledCount = b]
         \in Model!offer(Model!Absent, g, b)
  BY <1>1, Zenon DEF Model!offer
<1> QED BY <1>2, <1>5, <1>6, Zenon

-----------------------------------------------------------------------------
(* The engine's side: one task through the refinement mapping. *)

Retainers(s, i) == {h \in Members : <<Current(s, i), h>> \in s.retainedBy}

\* The state that the mapping gives a task.
LEMMA StateIs ==
    ASSUME NEW s, s \in Keyspace, NEW i \in Ids
    PROVE  LET t == s.task[i]
               charges == t.handlerFailureCount + t.stalledAttemptCount
           IN /\ t.outcome = "success" => StateOf(s, i) = "succeeded"
              /\ t.outcome = "failure" => StateOf(s, i) = "failed"
              /\ t.outcome = "open" =>
                    /\ t.currentList = "wait" => StateOf(s, i) = "waiting"
                    /\ t.currentList = "active" => StateOf(s, i) = "leased"
                    /\ t.currentList = "scheduled" =>
                          StateOf(s, i) = IF charges > 0 THEN "retry-scheduled" ELSE "delayed"
              /\ StateOf(s, i) = "leased" <=> t.outcome = "open" /\ t.currentList = "active"
              /\ StateOf(s, i) \in Model!ExecutionStates
<1> DEFINE t == s.task[i]
<1>1. t.outcome \in Outcomes /\ t.currentList \in Lists
  BY TaskType DEF TaskRecord
<1>2. CASE t.outcome = "success"
  BY <1>2 DEF StateOf, Model!ExecutionStates
<1>3. CASE t.outcome = "failure"
  BY <1>3 DEF StateOf, Model!ExecutionStates
<1>4. CASE t.outcome = "open"
  <2>1. StateOf(s, i) = ExecutionState(s, i)
    BY <1>4 DEF StateOf
  <2>2. CASE t.currentList = "scheduled"
    BY <1>4, <2>1, <2>2 DEF ExecutionState, Model!ExecutionStates
  <2>3. CASE t.currentList \in Lists \ {"scheduled"}
    BY <1>4, <2>1, <2>3 DEF ExecutionState, Model!ExecutionStates, Lists
  <2> QED BY <1>1, <2>2, <2>3
<1> QED BY <1>1, <1>2, <1>3, <1>4 DEF Outcomes

\* A task with a record, as the model sees it.
LEMMA TaskOfShape ==
    ASSUME NEW s, s \in Keyspace, NEW i \in Ids, NEW L
    PROVE  /\ TaskOf(s, L, i) \in ModelShape({0, TokenOf(s, L, i)})
           /\ ~Exists(s, i) => TaskOf(s, L, i) = Model!Absent
           /\ Exists(s, i) <=> Model!Present(TaskOf(s, L, i))
           /\ Exists(s, i) => TaskOf(s, L, i) =
                 AsTask(s.task[i].generation, StateOf(s, i), TokenOf(s, L, i),
                        s.task[i].handlerFailureCount, s.task[i].stalledAttemptCount,
                        s.task[i].config.maxStalledCount, Retainers(s, i))
<1>1. s.task[i] \in TaskRecord /\ s.task[i].config \in TaskConfig
  BY TaskType, CurrentType
<1>2. StateOf(s, i) \in Model!ExecutionStates /\ Retainers(s, i) \in SUBSET Members
  BY StateIs DEF Retainers
<1>3. CASE Exists(s, i)
  <2>1. TaskOf(s, L, i) =
                 AsTask(s.task[i].generation, StateOf(s, i), TokenOf(s, L, i),
                        s.task[i].handlerFailureCount, s.task[i].stalledAttemptCount,
                        s.task[i].config.maxStalledCount, Retainers(s, i))
    BY <1>3 DEF TaskOf, Retainers, AsTask
  <2>2. /\ s.task[i].generation \in Nat /\ s.task[i].handlerFailureCount \in Nat
        /\ s.task[i].stalledAttemptCount \in Nat /\ s.task[i].config.maxStalledCount \in Nat
    BY <1>1, BoundsAssumption DEF TaskRecord, TaskConfig
  <2> QED BY <1>2, <1>3, <2>1, <2>2 DEF ModelShape, Model!Present, Exists, AsTask
<1>4. CASE ~Exists(s, i)
  <2>1. TaskOf(s, L, i) = Model!Absent
    BY <1>4 DEF TaskOf, Model!Absent
  <2> QED BY <1>4, <2>1 DEF Model!Absent, ModelShape, Model!ExecutionStates, Model!Present
<1> QED BY <1>3, <1>4

\* No task is locked in u that was not so in s, by the same token.
NoNewLock(s, u) == \A i \in Ids : IsLocked(u, i) => u.lock[i].token = s.lock[i].token

\* The tokens that were handed out for the member m, and the newest of some.
Handed(L, m) == {k \in DOMAIN L : L[k] = m}
NewestOf(K) == CHOOSE k \in K : \A n \in K : n <= k

\* The token that the mapping gives a leased task.
LEMMA TokenIs ==
    ASSUME NEW s, NEW L, NEW i
    PROVE  TokenOf(s, L, i) = IF StateOf(s, i) # "leased" THEN 0
                              ELSE IF IsLocked(s, i) THEN s.lock[i].token
                              ELSE NewestOf(Handed(L, Current(s, i)))
BY Zenon DEF TokenOf, Handed, NewestOf

\* The newest of some tokens is the one that none exceeds.
LEMMA NewestIs ==
    ASSUME NEW K \in SUBSET Nat, NEW k \in K, \A n \in K : n <= k
    PROVE  NewestOf(K) = k
<1>1. \A m \in K : (\A n \in K : n <= m) => m = k
  OBVIOUS
<1> QED BY <1>1 DEF NewestOf

\* The token of a lease is the task's also when the lock key has expired: it is
\* the newest one that was handed out for the generation.
LEMMA TokenKept ==
    ASSUME NEW s, NEW u, NEW L, L \in Seq(Members), Fenced(s, L), NoNewLock(s, u),
           NEW i \in Ids, u.task[i].generation = s.task[i].generation,
           StateOf(u, i) = StateOf(s, i)
    PROVE  TokenOf(u, L, i) = TokenOf(s, L, i)
<1> DEFINE handed == Handed(L, Current(s, i))
<1>1. Current(u, i) = Current(s, i)
  BY DEF Current
<1>2. CASE IsLocked(u, i)
  BY <1>2, TokenIs DEF NoNewLock, IsLocked
<1>3. CASE ~IsLocked(u, i) /\ ~IsLocked(s, i)
  BY <1>1, <1>3, TokenIs
<1>4. CASE ~IsLocked(u, i) /\ IsLocked(s, i)
  <2> DEFINE k == s.lock[i].token
  <2>1. k \in handed /\ \A n \in DOMAIN L : n > k => L[n][1] # i
    BY <1>4 DEF Fenced, Handed
  <2>2. DOMAIN L \subseteq Nat
    OBVIOUS
  <2>3. handed \in SUBSET Nat /\ \A n \in handed : n \in DOMAIN L /\ L[n][1] = i
    BY <2>2 DEF Current, Handed
  <2>4. \A n \in handed : n <= k
    BY <2>1, <2>2, <2>3
  <2> HIDE DEF k, handed
  <2>5. NewestOf(handed) = k
    BY <2>1, <2>3, <2>4, NewestIs
  <2> QED BY <1>1, <1>4, <2>5, TokenIs DEF handed, k
<1> QED BY <1>2, <1>3, <1>4

\* The same task: it may be listed elsewhere once it is settled.
SameTask(t, r) ==
    /\ SameJob(t, r)
    /\ r.handlerFailureCount = t.handlerFailureCount
    /\ r.stalledAttemptCount = t.stalledAttemptCount
    /\ t.outcome = "open" => r.currentList = t.currentList

\* The model sees of it only that it is held by others.
LEMMA SameTaskOf ==
    ASSUME NEW s, s \in Keyspace, NEW u, u \in Keyspace, NEW L, L \in Seq(Members),
           Fenced(s, L), NoNewLock(s, u),
           NEW i \in Ids, Exists(s, i), SameTask(s.task[i], u.task[i])
    PROVE  /\ Exists(u, i) /\ StateOf(u, i) = StateOf(s, i)
           /\ TaskOf(u, L, i) =
                 AsTask(s.task[i].generation, StateOf(s, i), TokenOf(s, L, i),
                        s.task[i].handlerFailureCount, s.task[i].stalledAttemptCount,
                        s.task[i].config.maxStalledCount, Retainers(u, i))
<1>1. Exists(u, i)
  BY DEF Exists, SameTask, SameJob
<1>2. StateOf(u, i) = StateOf(s, i)
  <2>1. s.task[i].outcome \in Outcomes
    BY CurrentType
  <2>2. CASE s.task[i].outcome = "open"
    BY <2>2 DEF StateOf, ExecutionState, SameTask, SameJob
  <2>3. CASE s.task[i].outcome \in {"success", "failure"}
    BY <2>3 DEF StateOf, SameTask, SameJob
  <2> QED BY <2>1, <2>2, <2>3 DEF Outcomes
<1>3. TokenOf(u, L, i) = TokenOf(s, L, i)
  BY <1>2, TokenKept DEF SameTask, SameJob
<1>4. TaskOf(u, L, i) =
         AsTask(u.task[i].generation, StateOf(u, i), TokenOf(u, L, i),
                u.task[i].handlerFailureCount, u.task[i].stalledAttemptCount,
                u.task[i].config.maxStalledCount, Retainers(u, i))
  BY <1>1, TaskOfShape
<1> QED BY <1>1, <1>2, <1>3, <1>4 DEF SameTask, SameJob

\* A step after which the model sees the same of every task.
LEMMA SameView ==
    ASSUME NEW s, s \in Keyspace, NEW u, u \in Keyspace, NEW L, L \in Seq(Members),
           Fenced(s, L), NoNewLock(s, u), NEW i \in Ids,
           ~Exists(s, i) => ~Exists(u, i),
           Exists(s, i) => /\ SameTask(s.task[i], u.task[i])
                           /\ Retainers(u, i) = Retainers(s, i)
    PROVE  TaskOf(u, L, i) = TaskOf(s, L, i)
<1>1. CASE ~Exists(s, i)
  BY <1>1, TaskOfShape
<1>2. CASE Exists(s, i)
  <2>1. TaskOf(s, L, i) =
            AsTask(s.task[i].generation, StateOf(s, i), TokenOf(s, L, i),
                   s.task[i].handlerFailureCount, s.task[i].stalledAttemptCount,
                   s.task[i].config.maxStalledCount, Retainers(s, i))
    BY <1>2, TaskOfShape
  <2>2. TaskOf(u, L, i) =
            AsTask(s.task[i].generation, StateOf(s, i), TokenOf(s, L, i),
                   s.task[i].handlerFailureCount, s.task[i].stalledAttemptCount,
                   s.task[i].config.maxStalledCount, Retainers(u, i))
    BY <1>2, SameTaskOf
  <2> QED BY <1>2, <2>1, <2>2
<1> QED BY <1>1, <1>2

-----------------------------------------------------------------------------
(* A sweep, as the model sees it. *)

Sweeps(s, u, L) == \A i \in Ids : TaskOf(u, L, i) \in Model!Swept(TaskOf(s, L, i))

\* Sweeps add up.
LEMMA SweepsTransitive ==
    ASSUME NEW s, s \in Keyspace, NEW L, NEW u, Sweeps(s, u, L), NEW v, Sweeps(u, v, L)
    PROVE  Sweeps(s, v, L)
<1> SUFFICES ASSUME NEW i \in Ids PROVE TaskOf(v, L, i) \in Model!Swept(TaskOf(s, L, i))
  BY DEF Sweeps
<1>1. /\ TaskOf(s, L, i) \in ModelShape({0, TokenOf(s, L, i)})
      /\ TaskOf(s, L, i) = Model!Absent \/ Model!Present(TaskOf(s, L, i))
  BY TaskOfShape
<1>2. /\ TaskOf(u, L, i) \in Model!Swept(TaskOf(s, L, i))
      /\ TaskOf(v, L, i) \in Model!Swept(TaskOf(u, L, i))
  BY DEF Sweeps
<1> QED BY <1>1, <1>2, SweptTransitive

\* A task to which a sweep does nothing, or that it frees of holds.
LEMMA SweepsKept ==
    ASSUME NEW s, s \in Keyspace, NEW u, u \in Keyspace, NEW L, L \in Seq(Members),
           Fenced(s, L), NoNewLock(s, u), NEW i \in Ids,
           ~Exists(s, i) => ~Exists(u, i),
           Exists(s, i) => /\ SameTask(s.task[i], u.task[i])
                           /\ Retainers(u, i) \subseteq Retainers(s, i)
    PROVE  TaskOf(u, L, i) \in Model!Swept(TaskOf(s, L, i))
<1> DEFINE t == TaskOf(s, L, i)
           A == {0, TokenOf(s, L, i)}
<1>1. 0 \in A /\ t \in ModelShape(A)
  BY TaskOfShape
<1>2. CASE ~Exists(s, i)
  BY <1>2, TaskOfShape, SweptAbsent
<1>3. CASE Exists(s, i)
  <2> DEFINE Held(H) == AsTask(s.task[i].generation, StateOf(s, i), TokenOf(s, L, i),
                               s.task[i].handlerFailureCount, s.task[i].stalledAttemptCount,
                               s.task[i].config.maxStalledCount, H)
  <2>1. TaskOf(u, L, i) = Held(Retainers(u, i))
    BY <1>3, SameTaskOf
  <2>2. t = Held(Retainers(s, i)) /\ Model!Present(t)
    BY <1>3, TaskOfShape
  <2> HIDE DEF t, A
  <2>3. Held(Retainers(u, i)) \in Model!Swept(t)
    BY <1>1, <1>3, <2>2, FreedSwept
  <2> QED BY <2>1, <2>3 DEF t
<1> QED BY <1>2, <1>3

\* From s to u nothing but settled tasks has been listed elsewhere or deleted, and
\* no hold is new.
Finishes(s, u) ==
    /\ u.retainedBy \subseteq s.retainedBy
    /\ \A i \in Ids :
          \/ u.task[i] = s.task[i]
          \/ /\ Exists(s, i) /\ Settled(s, i)
             /\ \/ u.task[i] = NoTask
                \/ \E l \in Lists : u.task[i] = [s.task[i] EXCEPT !.currentList = l]

\* Finishing goes on.
LEMMA FinishesTransitive ==
    ASSUME NEW s, s \in Keyspace, NEW u, u \in Keyspace, Finishes(s, u), NEW v, Finishes(u, v)
    PROVE  Finishes(s, v)
<1>1. v.retainedBy \subseteq s.retainedBy /\ v.retainedBy \subseteq u.retainedBy
  BY DEF Finishes
<1>2. ASSUME NEW i \in Ids
      PROVE  \/ v.task[i] = s.task[i]
             \/ /\ Exists(s, i) /\ Settled(s, i)
                /\ \/ v.task[i] = NoTask
                   \/ \E l \in Lists : v.task[i] = [s.task[i] EXCEPT !.currentList = l]
  <2>1. s.task[i] \in TaskRecord
    BY TaskType
  <2>2. CASE u.task[i] = s.task[i]
    <3>1. Exists(u, i) <=> Exists(s, i)
      BY <2>2 DEF Exists
    <3>2. Settled(u, i) <=> Settled(s, i)
      BY <2>2 DEF Settled
    <3>3. Current(u, i) = Current(s, i)
      BY <2>2 DEF Current
    <3> QED BY <2>2, <3>1, <3>2, <3>3 DEF Finishes
  <2>3. CASE Exists(s, i) /\ Settled(s, i) /\ u.task[i] = NoTask
    <3>1. v.task[i] = u.task[i]
      BY <2>3, NoTaskType DEF Finishes, Exists
    <3> QED BY <1>1, <2>3, <3>1
  <2>4. ASSUME Exists(s, i), Settled(s, i), NEW l \in Lists,
               u.task[i] = [s.task[i] EXCEPT !.currentList = l]
        PROVE  /\ Exists(s, i) /\ Settled(s, i)
               /\ \/ v.task[i] = NoTask
                  \/ \E k \in Lists : v.task[i] = [s.task[i] EXCEPT !.currentList = k]
    <3>1. Current(u, i) = Current(s, i)
      BY <2>1, <2>4 DEF Current, TaskRecord
    <3>2. CASE v.task[i] = u.task[i]
      BY <2>4, <3>2
    <3>3. CASE v.task[i] = NoTask
      BY <2>4, <3>1, <3>3
    <3>4. ASSUME NEW k \in Lists, v.task[i] = [u.task[i] EXCEPT !.currentList = k]
          PROVE  v.task[i] = [s.task[i] EXCEPT !.currentList = k]
      BY <2>1, <2>4, <3>4 DEF TaskRecord
    <3> QED BY <2>4, <3>2, <3>3, <3>4 DEF Finishes
  <2> QED BY <2>2, <2>3, <2>4 DEF Finishes
<1> QED BY <1>1, <1>2 DEF Finishes

\* Finishing is a sweep: settled tasks are released and removed.
LEMMA FinishesSweeps ==
    ASSUME NEW s, s \in Keyspace, NEW u, u \in Keyspace, NEW L, L \in Seq(Members),
           Fenced(s, L), NoNewLock(s, u), Finishes(s, u)
    PROVE  Sweeps(s, u, L)
<1> SUFFICES ASSUME NEW i \in Ids PROVE TaskOf(u, L, i) \in Model!Swept(TaskOf(s, L, i))
  BY DEF Sweeps
<1>1. s.task[i] \in TaskRecord
  BY TaskType
<1>2. ASSUME SameTask(s.task[i], u.task[i]), Exists(s, i) <=> Exists(u, i)
      PROVE  TaskOf(u, L, i) \in Model!Swept(TaskOf(s, L, i))
  <2>1. Exists(s, i) => Retainers(u, i) \subseteq Retainers(s, i)
    BY <1>2 DEF Retainers, Current, Finishes, SameTask, SameJob
  <2> QED BY <1>2, <2>1, SweepsKept
<1>3. CASE u.task[i] = s.task[i]
  BY <1>2, <1>3 DEF SameTask, SameJob, Exists
<1>4. ASSUME Exists(s, i), Settled(s, i), NEW l \in Lists,
             u.task[i] = [s.task[i] EXCEPT !.currentList = l]
      PROVE  SameTask(s.task[i], u.task[i]) /\ (Exists(s, i) <=> Exists(u, i))
  BY <1>1, <1>4 DEF SameTask, SameJob, Settled, Exists, TaskRecord
<1>5. CASE Exists(s, i) /\ Settled(s, i) /\ u.task[i] = NoTask
  <2> DEFINE t == TaskOf(s, L, i)
  <2>1. TaskOf(u, L, i) = Model!Absent
    BY <1>5, NoTaskType, TaskOfShape DEF Exists
  <2>2. StateOf(s, i) \in {"succeeded", "failed"}
    BY <1>5, StateIs, CurrentType DEF Settled, Outcomes
  <2>3. Model!SettledTask(t) /\ Model!Present(t)
    <3>1. t = AsTask(s.task[i].generation, StateOf(s, i), TokenOf(s, L, i),
                     s.task[i].handlerFailureCount, s.task[i].stalledAttemptCount,
                     s.task[i].config.maxStalledCount, Retainers(s, i))
      BY <1>5, TaskOfShape
    <3>2. Model!Present(t)
      BY <1>5, TaskOfShape
    <3> HIDE DEF t
    <3>3. t.state = StateOf(s, i)
      BY <3>1 DEF AsTask
    <3> QED BY <2>2, <3>2, <3>3 DEF Model!SettledTask
  <2>4. t \in ModelShape({0, TokenOf(s, L, i)})
    BY TaskOfShape
  <2> HIDE DEF t
  <2> QED BY <2>1, <2>3, <2>4, SweptIs DEF t, Leaves, DueOf
<1> QED BY <1>2, <1>3, <1>4, <1>5 DEF Finishes

-----------------------------------------------------------------------------
(* The sweep is the model's. *)

\* applyCompletionPolicy finishes settled tasks.
LEMMA ApplyCompletionPolicyFinishes ==
    ASSUME NEW s, s \in Keyspace, NEW S \in SUBSET Ids,
           \A i \in S : Exists(s, i) /\ Settled(s, i),
           NEW u, u = ApplyCompletionPolicy(s, S)
    PROVE  Finishes(s, u)
<1> DEFINE target(i) == CASE Policy(s.task[i]) = "mark-as-success" -> "success"
                          [] Policy(s.task[i]) = "mark-as-failure" -> "failed"
                          [] OTHER -> "none"
           to == [i \in S |-> target(i)]
           gone == {i \in S : /\ Policy(s.task[i]) = "delete"
                              /\ ~HasRetentionHolds(s, Current(s, i))}
           v == MoveAll(s, to, 0, <<>>)
<1>1. gone \subseteq S
  OBVIOUS
<1>2. \A i \in S : target(i) \in {"success", "failed", "none"}
  OBVIOUS
<1>3. DOMAIN to = S /\ \A i \in S : to[i] \in Lists
  BY <1>2 DEF Lists
<1>4. u = DeleteAll(v, gone)
  BY DEF ApplyCompletionPolicy
<1> HIDE DEF v, to, target, gone
<1>5. /\ SameRecords(s, v) /\ Fielded(v)
      /\ v.task = [i \in Ids |->
            IF i \in S THEN [s.task[i] EXCEPT !.currentList = to[i]] ELSE s.task[i]]
  BY <1>3, KeyspaceFields, MoveAllFields DEF v
<1>6. /\ SameRecords(v, u)
      /\ u.task = [i \in Ids |-> IF i \in gone THEN NoTask ELSE v.task[i]]
  BY <1>4, <1>5, DeleteAllFields
<1>7. u.retainedBy = s.retainedBy
  BY <1>5, <1>6 DEF SameRecords
<1>8. ASSUME NEW i \in S
      PROVE  \/ u.task[i] = NoTask
             \/ \E l \in Lists : u.task[i] = [s.task[i] EXCEPT !.currentList = l]
  <2>1. CASE i \in gone
    BY <1>6, <2>1
  <2>2. CASE i \notin gone
    <3>1. u.task[i] = [s.task[i] EXCEPT !.currentList = to[i]]
      BY <1>5, <1>6, <2>2
    <3> QED BY <1>3, <3>1
  <2> QED BY <2>1, <2>2
<1>9. \A i \in Ids \ S : u.task[i] = s.task[i]
  BY <1>1, <1>5, <1>6
<1> QED BY <1>7, <1>8, <1>9 DEF Finishes

\* releaseOwnedHolds finishes the settled tasks whose last hold it took.
LEMMA ReleaseOwnedHoldsFinishes ==
    ASSUME NEW s, Ready(s), NEW H, NEW P, P \subseteq s.retains,
           NEW u, u = ReleaseOwnedHolds(s, H, P)
    PROVE  Finishes(s, u)
<1> DEFINE retains == s.retains \ P
           retainedBy == s.retainedBy \ {<<p[2], p[1]>> : p \in P}
           continuations == Continuations(s, H, P)
           v == [s EXCEPT !.retains = retains, !.retainedBy = retainedBy,
                          !.continuations = continuations]
           freed == {i \in Ids : /\ Exists(v, i)
                                 /\ Settled(v, i)
                                 /\ ~HasRetentionHolds(v, Current(v, i))
                                 /\ \E p \in P : p[2] = Current(v, i)}
<1>1. s \in Keyspace
  BY DEF Ready
<1>2. /\ retains \in SUBSET (Members \X Members)
      /\ retainedBy \in SUBSET (Members \X Members) /\ retainedBy \subseteq s.retainedBy
      /\ continuations \in [Members -> Score]
  BY <1>1 DEF Continuations, Keyspace, Score
<1>3. u = ApplyCompletionPolicy(v, freed)
  BY DEF ReleaseOwnedHolds
<1>4. /\ freed \in SUBSET Ids
      /\ \A i \in freed : Exists(v, i) /\ Settled(v, i)
  OBVIOUS
<1> HIDE DEF retains, retainedBy, continuations, freed
<1>5. v \in Keyspace
  BY <1>1, <1>2 DEF Keyspace
<1>6. v.task = s.task /\ v.retainedBy \subseteq s.retainedBy
  BY <1>1, <1>2 DEF Keyspace
<1> HIDE DEF v
<1>7. Finishes(v, u)
  BY <1>3, <1>4, <1>5, ApplyCompletionPolicyFinishes
<1>8. Finishes(s, v)
  BY <1>6 DEF Finishes
<1> QED BY <1>1, <1>5, <1>7, <1>8, FinishesTransitive

\* settleTask finishes the tasks that it is given, and those that it frees.
LEMMA SettleTaskFinishes ==
    ASSUME NEW v, Ready(v), NEW S \in SUBSET Ids,
           \A i \in S : Exists(v, i) /\ Settled(v, i),
           NEW P, P \subseteq v.retains,
           NEW y, y = SettleTask(v, S, P)
    PROVE  Finishes(v, y) /\ Ends(v, y)
<1> DEFINE w == ScheduleTerminalRetention(PersistTerminalResult(v, S), S)
           a == ApplyCompletionPolicy(w, S)
<1>1. y = ReleaseOwnedHolds(a, CurrentOf(v, S), P)
  BY DEF SettleTask
<1> HIDE DEF w, a
<1>2. Ready(w) /\ Recorded(v, w, S)
  BY SettlementRecorded DEF w
<1>3. Finishes(v, w)
  BY <1>2 DEF Recorded, Finishes
<1>4. \A i \in S : Exists(w, i) /\ Settled(w, i)
  BY <1>2 DEF Recorded, Exists, Settled
<1>5. Finishes(w, a)
  BY <1>2, <1>4, ApplyCompletionPolicyFinishes DEF a, Ready
<1>6. Ready(a) /\ a.retains = w.retains
  BY <1>2, <1>4, ApplyCompletionPolicyEnds, ApplyCompletionPolicyHolds DEF a, Ends
<1>7. Finishes(a, y)
  BY <1>1, <1>2, <1>6, ReleaseOwnedHoldsFinishes DEF Recorded
<1>8. v \in Keyspace /\ w \in Keyspace /\ a \in Keyspace
  BY <1>2, <1>6 DEF Ready
<1>9. Ends(v, y)
  BY SettleTaskEnds
<1> QED BY <1>3, <1>5, <1>7, <1>8, <1>9, FinishesTransitive

\* A step that takes no lock takes none by another token.
LEMMA KeptNoNewLock == ASSUME NEW s, NEW u, LocksKept(s, u) PROVE NoNewLock(s, u)
BY DEF LocksKept, NoNewLock

\* A safe step that finishes tasks is a sweep.
LEMMA SafeFinishes ==
    ASSUME NEW s, Sound(s), NEW u, Safe(s, u), Finishes(s, u),
           NEW L, L \in Seq(Members), Fenced(s, L)
    PROVE  Sweeps(s, u, L)
BY KeptNoNewLock, FinishesSweeps DEF Safe, Sound

\* syncDelayed: due tasks wait.
LEMMA SyncDelayedSweeps ==
    ASSUME NEW x, Sound(x.db), NEW y \in SyncDelayed(x),
           NEW L, L \in Seq(Members), Fenced(x.db, L)
    PROVE  Sweeps(x.db, y.db, L)
<1> DEFINE s == x.db
<1>1. PICK B \in DueBatches(s.scheduled, s.now, x.left) :
         \E q \in Walks(B, s.scheduled) :
            y = Swept(MoveAll(s, [i \in B |-> "wait"], 0, q), x.left, B)
  BY DEF SyncDelayed
<1>2. PICK q \in Walks(B, s.scheduled) :
         y = Swept(MoveAll(s, [i \in B |-> "wait"], 0, q), x.left, B)
  BY <1>1
<1> DEFINE to == [i \in B |-> "wait"]
           u == y.db
<1>3. u = MoveAll(s, to, 0, q)
  BY <1>2 DEF Swept
<1>4. s \in Keyspace /\ Listed(s) /\ Sound(s)
  BY DEF Sound
<1>5. B \subseteq Ids /\ \A i \in B : s.scheduled[i] # Out
  BY <1>4 DEF DueBatches, Keyspace
<1>6. DOMAIN to = B /\ \A i \in B : to[i] = "wait"
  OBVIOUS
<1>7. Safe(s, u)
  BY SyncDelayedSafe
<1> HIDE DEF s, to, u
<1>8. SameRecords(s, u) /\ u.task = [i \in Ids |->
            IF i \in B THEN [s.task[i] EXCEPT !.currentList = to[i]] ELSE s.task[i]]
  BY <1>3, <1>4, <1>6, KeyspaceFields, MoveAllFields
<1>9. u \in Keyspace /\ NoNewLock(s, u)
  BY <1>7, KeptNoNewLock DEF Safe, Sound
<1> SUFFICES ASSUME NEW i \in Ids PROVE TaskOf(u, L, i) \in Model!Swept(TaskOf(s, L, i))
  BY DEF Sweeps, s, u
<1>10. Fenced(s, L)
  BY DEF s
<1>11. CASE i \notin B
  <2>1. u.task[i] = s.task[i] /\ u.retainedBy = s.retainedBy
    BY <1>8, <1>11 DEF SameRecords
  <2>2. Exists(u, i) <=> Exists(s, i)
    BY <2>1 DEF Exists
  <2>3. SameTask(s.task[i], u.task[i]) /\ Retainers(u, i) = Retainers(s, i)
    BY <2>1 DEF SameTask, SameJob, Retainers, Current
  <2> QED BY <1>4, <1>9, <1>10, <2>2, <2>3, SweepsKept
<1>12. CASE i \in B
  <2> DEFINE t == TaskOf(s, L, i)
  <2>1. Exists(s, i) /\ s.task[i].currentList = "scheduled"
    BY <1>4, <1>5, <1>12 DEF Listed, InList, Lists
  <2>2. s.task[i].outcome = "open"
    BY <1>4, <2>1, SoundAt DEF PlacedAt, TerminalLists, Settled
  <2>3. s.task[i] \in TaskRecord /\ u.task[i] = [s.task[i] EXCEPT !.currentList = "wait"]
    BY <1>4, <1>6, <1>8, <1>12, TaskType
  <2>4. /\ u.task[i].generation = s.task[i].generation /\ u.task[i].outcome = "open"
        /\ u.task[i].currentList = "wait" /\ u.task[i].config = s.task[i].config
        /\ u.task[i].handlerFailureCount = s.task[i].handlerFailureCount
        /\ u.task[i].stalledAttemptCount = s.task[i].stalledAttemptCount
    BY <2>2, <2>3 DEF TaskRecord
  <2>5. Retainers(u, i) = Retainers(s, i) /\ Exists(u, i)
    BY <1>8, <2>1, <2>4 DEF SameRecords, Retainers, Current, Exists
  <2>6. StateOf(s, i) \in {"delayed", "retry-scheduled"} /\ StateOf(u, i) = "waiting"
    BY <1>4, <1>9, <2>1, <2>2, <2>4, StateIs
  <2>7. TokenOf(s, L, i) = 0 /\ TokenOf(u, L, i) = 0
    BY <2>6, TokenIs
  <2>8. t = AsTask(s.task[i].generation, StateOf(s, i), 0,
                   s.task[i].handlerFailureCount, s.task[i].stalledAttemptCount,
                   s.task[i].config.maxStalledCount, Retainers(s, i))
    BY <1>4, <2>1, <2>7, TaskOfShape
  <2>9. TaskOf(u, L, i) =
            AsTask(s.task[i].generation, "waiting", 0,
                   s.task[i].handlerFailureCount, s.task[i].stalledAttemptCount,
                   s.task[i].config.maxStalledCount, Retainers(s, i))
    BY <1>9, <2>4, <2>5, <2>6, <2>7, TaskOfShape
  <2>10. t \in ModelShape({0, TokenOf(s, L, i)}) /\ Model!Present(t)
    BY <1>4, <2>1, TaskOfShape
  <2> HIDE DEF t
  <2>11. s.task[i].generation # 0
    BY <2>1 DEF Exists
  <2>12. TaskOf(u, L, i) \in DueOf(t)
    BY <2>6, <2>8, <2>9, <2>11, Promotes DEF DueOf
  <2> QED BY <2>10, <2>12, DueSwept DEF t
<1> QED BY <1>11, <1>12

\* failTask: a stalled attempt expires.
LEMMA StallingSweeps ==
    ASSUME NEW s, Sound(s), NEW E, NEW S, NEW q, CanStall(s, E, S, q),
           S = {i \in E : OutOfStalls(s.task[i])},
           NEW v, v = Stalling(s, E, S, q), NEW L, L \in Seq(Members), Fenced(s, L)
    PROVE  Sweeps(s, v, L)
<1>1. /\ Ready(v) /\ LocksKept(s, v) /\ Charges(s, v, E, S)
      /\ SameButLists([s EXCEPT !.lock = v.lock], v)
  BY StallingReady
<1>2. s \in Keyspace /\ v \in Keyspace /\ E \in SUBSET Ids /\ NoNewLock(s, v)
  BY <1>1, KeptNoNewLock DEF Sound, Ready, CanStall
<1>3. v.retainedBy = s.retainedBy
  BY <1>1, <1>2 DEF SameButLists, Keyspace
<1> SUFFICES ASSUME NEW i \in Ids PROVE TaskOf(v, L, i) \in Model!Swept(TaskOf(s, L, i))
  BY DEF Sweeps
<1>4. CASE i \notin E
  <2>1. v.task[i] = s.task[i]
    BY <1>1, <1>4 DEF Charges
  <2>2. Exists(v, i) <=> Exists(s, i)
    BY <2>1 DEF Exists
  <2>3. SameTask(s.task[i], v.task[i]) /\ Retainers(v, i) = Retainers(s, i)
    BY <1>3, <2>1 DEF SameTask, SameJob, Retainers, Current
  <2> QED BY <1>2, <2>2, <2>3, SweepsKept
<1>5. CASE i \in E
  <2> DEFINE t == TaskOf(s, L, i)
             r == v.task[i]
             st == IF i \in S THEN "failed" ELSE "waiting"
  <2>0. /\ Exists(s, i) /\ ~Settled(s, i) /\ s.task[i].currentList = "active"
        /\ r.generation = s.task[i].generation /\ r.config = s.task[i].config
        /\ r.handlerFailureCount = s.task[i].handlerFailureCount
        /\ r.stalledAttemptCount = s.task[i].stalledAttemptCount + 1
        /\ i \in S => r.outcome = "failure"
        /\ i \notin S => r.outcome = s.task[i].outcome /\ r.currentList = "wait"
    BY <1>1, <1>5 DEF Charges
  <2>1. s.task[i].outcome = "open" /\ (i \notin S => r.outcome = "open")
    BY <2>0 DEF Settled
  <2>2. Retainers(v, i) = Retainers(s, i) /\ Exists(v, i)
    BY <1>3, <2>0 DEF Retainers, Current, Exists
  <2>3. StateOf(s, i) = "leased" /\ StateOf(v, i) = st
    BY <1>2, <2>0, <2>1, StateIs
  <2>4. TokenOf(v, L, i) = 0
    BY <2>3, TokenIs
  <2>5. t = AsTask(s.task[i].generation, StateOf(s, i), TokenOf(s, L, i),
                   s.task[i].handlerFailureCount, s.task[i].stalledAttemptCount,
                   s.task[i].config.maxStalledCount, Retainers(s, i))
    BY <1>2, <2>0, TaskOfShape
  <2>6. TaskOf(v, L, i) =
            AsTask(s.task[i].generation, st, 0,
                   s.task[i].handlerFailureCount, s.task[i].stalledAttemptCount + 1,
                   s.task[i].config.maxStalledCount, Retainers(s, i))
    <3>1. TaskOf(v, L, i) =
            AsTask(r.generation, StateOf(v, i), TokenOf(v, L, i),
                   r.handlerFailureCount, r.stalledAttemptCount,
                   r.config.maxStalledCount, Retainers(v, i))
      BY <1>2, <2>2, TaskOfShape
    <3> HIDE DEF r, st
    <3> QED BY <2>0, <2>2, <2>3, <2>4, <3>1
  <2>7. t \in ModelShape({0, TokenOf(s, L, i)}) /\ Model!Present(t)
    BY <1>2, <2>0, TaskOfShape
  <2>8. i \in S <=> s.task[i].stalledAttemptCount + 1 > s.task[i].config.maxStalledCount
    BY <1>5 DEF OutOfStalls
  <2>9. s.task[i].generation # 0
    BY <2>0 DEF Exists
  <2> HIDE DEF t
  <2>10. TaskOf(v, L, i) \in Model!expire(t)
    BY <2>3, <2>5, <2>6, <2>8, <2>9, Expires
  <2>11. TaskOf(v, L, i) \in DueOf(t)
    BY <2>10 DEF DueOf
  <2> QED BY <2>7, <2>11, DueSwept DEF t
<1> QED BY <1>4, <1>5

\* syncLocks: stalled attempts expire, and the tasks that this fails are finished.
LEMMA SyncLocksSweeps ==
    ASSUME NEW x, Sound(x.db), NEW y \in SyncLocks(x),
           NEW L, L \in Seq(Members), Fenced(x.db, L)
    PROVE  Sweeps(x.db, y.db, L)
<1> DEFINE s == x.db
<1>1. PICK E, S, q, P :
              /\ CanStall(s, E, S, q) /\ S = {i \in E : OutOfStalls(s.task[i])}
              /\ P \subseteq s.retains /\ y.db = StallAll(s, E, S, q, P)
  BY SyncLocksStep
<1> DEFINE v == Stalling(s, E, S, q)
<1>2. y.db = SettleTask(v, S, P)
  BY <1>1 DEF StallAll, Stalling
<1>3. Sound(s) /\ Fenced(s, L)
  OBVIOUS
<1> HIDE DEF v, s
<1>4. /\ Ready(v) /\ LocksKept(s, v)
      /\ SameButLists([s EXCEPT !.lock = v.lock], v)
      /\ \A i \in S : Exists(v, i) /\ Settled(v, i)
  BY <1>1, <1>3, StallingReady DEF v
<1>5. S \in SUBSET Ids /\ P \subseteq v.retains /\ s \in Keyspace
  BY <1>1, <1>3, <1>4 DEF CanStall, SameButLists, Sound, Keyspace
<1>6. Finishes(v, y.db) /\ Ends(v, y.db)
  BY <1>2, <1>4, <1>5, SettleTaskFinishes
<1>7. v \in Keyspace /\ y.db \in Keyspace /\ NoNewLock(v, y.db)
  BY <1>4, <1>6 DEF Ready, Ends, SameBase, NoNewLock
<1>8. Fenced(v, L)
  BY <1>3, <1>4, FencedKept
<1>9. Sweeps(s, v, L)
  BY <1>1, <1>3, StallingSweeps DEF v
<1>10. Sweeps(v, y.db, L)
  BY <1>6, <1>7, <1>8, FinishesSweeps
<1> QED BY <1>5, <1>9, <1>10, SweepsTransitive DEF s

\* syncRetentionContinuations finishes tasks that were held.
LEMMA SyncRetentionContinuationsFinishes ==
    ASSUME NEW x, Sound(x.db), NEW y \in SyncRetentionContinuations(x)
    PROVE  Finishes(x.db, y.db)
<1> DEFINE s == x.db
<1>1. CASE y = x
  BY <1>1 DEF Finishes
<1>2. CASE \E h \in Members : \E P \in Pops(s, {h}, x.left) :
              y = Swept(ReleaseOwnedHolds(s, {h}, P), x.left, P)
  <2>1. PICK h \in Members : \E P \in Pops(s, {h}, x.left) :
              y = Swept(ReleaseOwnedHolds(s, {h}, P), x.left, P)
    BY <1>2
  <2>2. PICK P \in Pops(s, {h}, x.left) : y.db = ReleaseOwnedHolds(s, {h}, P)
    BY <2>1 DEF Swept
  <2>3. P \subseteq s.retains
    BY DEF Pops
  <2> QED BY <2>2, <2>3, SoundReady, ReleaseOwnedHoldsFinishes
<1>3. y = x \/ \E h \in Members : \E P \in Pops(s, {h}, x.left) :
                   y = Swept(ReleaseOwnedHolds(s, {h}, P), x.left, P)
  BY Zenon DEF SyncRetentionContinuations
<1> QED BY <1>1, <1>2, <1>3

\* syncTaskExpiry deletes settled records.
LEMMA SyncTaskExpiryFinishes ==
    ASSUME NEW x, Sound(x.db), NEW y \in SyncTaskExpiry(x)
    PROVE  Finishes(x.db, y.db)
<1> DEFINE s == x.db
           Live_(B) == {m \in B : IsCurrent(s, m) /\ Settled(s, m[1])}
           Held(B) == {m \in Live_(B) : HasRetentionHolds(s, m)}
           Expire(B) ==
            [DeleteAll(s, {m[1] : m \in Live_(B) \ Held(B)}) EXCEPT
                !.taskExpiry = Postpone(s, s.taskExpiry, B, Held(B))]
<1>1. PICK B \in DueBatches(s.taskExpiry, s.now, x.left) :
         y = Swept(Expire(B), x.left, B)
  BY Zenon DEF SyncTaskExpiry
<1> DEFINE D == {m[1] : m \in Live_(B) \ Held(B)}
           v == DeleteAll(s, D)
           taskExpiry == Postpone(s, s.taskExpiry, B, Held(B))
           u == y.db
<1>2. s \in Keyspace
  BY DEF Sound
<1>3. B \subseteq Members
  BY <1>2 DEF DueBatches, Keyspace
<1>4. u = [v EXCEPT !.taskExpiry = taskExpiry] /\ v = DeleteAll(s, D)
  BY <1>1 DEF Swept
<1>5. \A i \in D : \E m \in B : m[1] = i /\ IsCurrent(s, m) /\ Settled(s, i)
  OBVIOUS
<1> HIDE DEF s, D, v, u, taskExpiry
<1>6. /\ SameRecords(s, v) /\ Fielded(v)
      /\ v.task = [i \in Ids |-> IF i \in D THEN NoTask ELSE s.task[i]]
  BY <1>2, <1>4, KeyspaceFields, DeleteAllFields
<1>7. u.task = v.task /\ u.retainedBy = s.retainedBy
  BY <1>4, <1>6 DEF SameRecords, Fielded, EmptyKeyspace
<1>8. \A i \in D : Exists(s, i) /\ Settled(s, i)
  BY <1>3, <1>5, CurrentMember
<1>9. Finishes(s, u)
  BY <1>6, <1>7, <1>8 DEF Finishes
<1> QED BY <1>9 DEF s, u

\* syncResultExpiry and syncDeadLetterExpiry leave the tasks alone.
LEMMA SyncResultExpiryFinishes ==
    ASSUME NEW x, Sound(x.db), NEW y \in SyncResultExpiry(x)
    PROVE  Finishes(x.db, y.db)
<1> DEFINE s == x.db
           Held(B) == {m \in B : HasRetentionHolds(s, m)}
           Expire(B) ==
            [s EXCEPT
                !.result = {r \in @ : r[1] \notin B \ Held(B)},
                !.resultExpiry = Postpone(s, @, B, Held(B))]
<1>1. PICK B \in DueBatches(s.resultExpiry, s.now, x.left) :
         y = Swept(Expire(B), x.left, B)
  BY Zenon DEF SyncResultExpiry
<1>2. s \in Keyspace
  BY DEF Sound
<1>3. y.db = Expire(B)
  BY <1>1 DEF Swept
<1>4. y.db.task = s.task /\ y.db.retainedBy = s.retainedBy
  BY <1>2, <1>3 DEF Keyspace
<1> QED BY <1>4 DEF Finishes

\* A dead letter that expires is no task.
LEMMA SyncDeadLetterExpiryFinishes ==
    ASSUME NEW x, Sound(x.db), NEW y \in SyncDeadLetterExpiry(x)
    PROVE  Finishes(x.db, y.db)
<1> DEFINE s == x.db
           Expire(B) == [s EXCEPT !.deadLetter = @ \ B,
                                  !.deadLetterExpiry = Unschedule(@, B)]
<1>1. PICK B \in DueBatches(s.deadLetterExpiry, s.now, x.left) :
         y = Swept(Expire(B), x.left, B)
  BY Zenon DEF SyncDeadLetterExpiry
<1>2. s \in Keyspace
  BY DEF Sound
<1>3. y.db = Expire(B)
  BY <1>1 DEF Swept
<1>4. y.db.task = s.task /\ y.db.retainedBy = s.retainedBy
  BY <1>2, <1>3 DEF Keyspace
<1> QED BY <1>4 DEF Finishes

\* syncTerminalExpiry takes settled tasks off a list.
LEMMA SyncTerminalExpiryFinishes ==
    ASSUME NEW x, Sound(x.db), NEW y \in SyncTerminalExpiry(x)
    PROVE  Finishes(x.db, y.db)
<1> DEFINE s == x.db
           Removed(B) == {i \in s.success \cup s.failed :
                             \E m \in B : m[1] = i /\ IsCurrent(s, m)}
           Expire(B) ==
            [s EXCEPT
                !.success = @ \ Removed(B),
                !.failed = @ \ Removed(B),
                !.task = [i \in Ids |->
                    IF i \in Removed(B) THEN Delisted(s.task[i]) ELSE s.task[i]],
                !.terminalExpiry = Unschedule(@, B)]
<1>1. PICK B \in DueBatches(s.terminalExpiry, s.now, x.left) :
         y = Swept(Expire(B), x.left, B)
  BY Zenon DEF SyncTerminalExpiry
<1> DEFINE R == Removed(B)
           task == [i \in Ids |-> IF i \in R THEN Delisted(s.task[i]) ELSE s.task[i]]
           u == y.db
<1>2. s \in Keyspace /\ Listed(s) /\ Sound(s)
  BY DEF Sound
<1>3. R \subseteq s.success \cup s.failed /\ R \subseteq Ids
  BY <1>2 DEF Keyspace
<1>4. u = [s EXCEPT !.success = @ \ R, !.failed = @ \ R, !.task = task,
                    !.terminalExpiry = Unschedule(@, B)]
  BY <1>1 DEF Swept
<1> HIDE DEF s, u, R
<1>5. \A i \in R : Exists(s, i) /\ s.task[i].currentList \in {"success", "failed"}
  BY <1>2, <1>3 DEF Listed, InList, Lists
<1>6. \A i \in R : Settled(s, i)
  BY <1>2, <1>3, <1>5, SoundAt DEF PlacedAt, TerminalLists
<1>7. \A i \in Ids : task[i] = IF i \in R THEN [s.task[i] EXCEPT !.currentList = "none"]
                               ELSE s.task[i]
  BY DEF Delisted
<1> HIDE DEF task
<1>8. u.task = task /\ u.retainedBy = s.retainedBy
  BY <1>2, <1>4 DEF Keyspace
<1>9. "none" \in Lists
  BY DEF Lists
<1>10. Finishes(s, u)
  BY <1>5, <1>6, <1>7, <1>8, <1>9 DEF Finishes
<1> QED BY <1>10 DEF s, u

\* Each syncer.
LEMMA SyncerSweeps ==
    ASSUME NEW n, NEW x, Sound(x.db), NEW y \in Syncer(n, x),
           NEW L, L \in Seq(Members), Fenced(x.db, L)
    PROVE  Sweeps(x.db, y.db, L)
<1>1. CASE y = x
  BY <1>1, SafeRefl, SafeFinishes DEF Finishes
<1>2. \/ y = x
      \/ y \in SyncDelayed(x)
      \/ y \in SyncLocks(x)
      \/ y \in SyncRetentionContinuations(x)
      \/ y \in SyncTaskExpiry(x)
      \/ y \in SyncResultExpiry(x)
      \/ y \in SyncTerminalExpiry(x)
      \/ y \in SyncDeadLetterExpiry(x)
  BY DEF Syncer
<1>3. CASE Finishes(x.db, y.db)
  BY <1>3, SyncerSafe, SafeFinishes
<1> QED BY <1>1, <1>2, <1>3, SyncDelayedSweeps, SyncLocksSweeps,
           SyncRetentionContinuationsFinishes, SyncTaskExpiryFinishes,
           SyncResultExpiryFinishes, SyncTerminalExpiryFinishes, SyncDeadLetterExpiryFinishes

\* syncAll is a sweep of the model.
LEMMA SyncAllSweeps ==
    ASSUME NEW s, Sound(s), NEW x \in SyncAll(s), NEW L, L \in Seq(Members), Fenced(s, L)
    PROVE  Sweeps(s, x.db, L)
<1> DEFINE Right(u) == Safe(s, u) /\ Sweeps(s, u, L)
           AllRight(X) == \A y \in X : Right(y.db)
           Then(X, n) == UNION {Syncer(SyncerAt(s.cursor, n), y) : y \in X}
           X0 == Then({[db |-> s, left |-> Batch]}, 0)
           X3 == Then(Then(Then(X0, 1), 2), 3)
           X6 == Then(Then(Then(X3, 4), 5), 6)
<1>1. ASSUME NEW u, Right(u), NEW v, Safe(u, v), Sweeps(u, v, L) PROVE Right(v)
  BY <1>1, SafeTransitive, SweepsTransitive DEF Sound
<1>2. ASSUME NEW X, AllRight(X), NEW n PROVE AllRight(Then(X, n))
  <2> SUFFICES ASSUME NEW z \in Then(X, n) PROVE Right(z.db)
    OBVIOUS
  <2>1. PICK y \in X : z \in Syncer(SyncerAt(s.cursor, n), y)
    OBVIOUS
  <2>2. Right(y.db)
    BY <1>2
  <2>3. Sound(y.db) /\ Fenced(y.db, L)
    BY <2>2, FencedKept DEF Safe
  <2>4. Safe(y.db, z.db) /\ Sweeps(y.db, z.db, L)
    BY <2>1, <2>3, SyncerSafe, SyncerSweeps
  <2> HIDE DEF Right
  <2> QED BY <1>1, <2>2, <2>4
<1>3. Right(s)
  BY SafeRefl, SafeFinishes DEF Finishes
<1>4. AllRight({[db |-> s, left |-> Batch]})
  BY <1>3
<1> HIDE DEF AllRight, Then
<1>5. AllRight(X6)
  <2>1. AllRight(X0)
    BY <1>2, <1>4
  <2>2. AllRight(X3)
    BY <1>2, <2>1
  <2> QED BY <1>2, <2>2
<1>6. PICK z \in X6 : x = [z EXCEPT !.db.cursor = NextCursor(s.cursor)]
  BY DEF SyncAll, Then
<1> HIDE DEF X6
<1>7. Right(z.db)
  BY <1>5 DEF AllRight
<1>8. x.db = [z.db EXCEPT !.cursor = NextCursor(s.cursor)]
  BY <1>6
<1>9. z.db \in Keyspace
  BY <1>7 DEF Safe, Sound
<1>10. Finishes(z.db, x.db) /\ NoNewLock(z.db, x.db)
  BY <1>8, <1>9 DEF Keyspace, Finishes, NoNewLock
<1>11. Safe(s, x.db)
  BY SyncAllSafe
<1>12. Sweeps(z.db, x.db, L)
  BY <1>7, <1>9, <1>10, <1>11, FencedKept, FinishesSweeps DEF Safe, Sound
<1> QED BY <1>7, <1>12, SweepsTransitive DEF Sound

-----------------------------------------------------------------------------
(* An operation, as the model sees it. *)

\* From s and the leases L to u and M the model sees one operation, on i.
Operates(s, L, u, M, i) ==
    /\ TaskOf(u, M, i) \in Model!Operate(TaskOf(s, L, i))
    /\ \A j \in Ids \ {i} : TaskOf(u, M, j) = TaskOf(s, L, j)

\* The model's operations, by what they may make of a task.
LEMMA Operations ==
    ASSUME NEW t, NEW u
    PROVE  /\ u = Model!Absent => u \in Model!Operate(t)
           /\ \A g \in Gens, c \in Configs :
                 u \in Model!offer(t, g, c.maxStalledCount) => u \in Model!Operate(t)
           /\ \A g \in Gens, c \in Configs, h \in Members :
                 \A v \in Model!offer(t, g, c.maxStalledCount) :
                    u \in Model!retain(v, h) => u \in Model!Operate(t)
           /\ \A h \in Members : u \in Model!retain(t, h) => u \in Model!Operate(t)
           /\ \A k \in 1..MaxLeases :
                 \/ u \in Model!acquire(t, k) \/ u \in Model!succeed(t, k)
                 \/ u \in Model!fail(t, k, TRUE) \/ u \in Model!fail(t, k, FALSE)
                 \/ u \in Model!giveBack(t, k)
                 => u \in Model!Operate(t)
<1> DEFINE O == Model!Offered(t)
           R == Model!Retained(t)
           Q(k) == Model!Presented(t, k)
           Budgets == {c.maxStalledCount : c \in Configs}
<1>1. /\ \A w \in O : w \in Model!Operate(t)
      /\ \A w \in R : w \in Model!Operate(t)
      /\ Model!Absent \in Model!Operate(t)
      /\ \A k \in 1..MaxLeases : \A w \in Q(k) : w \in Model!Operate(t)
  BY DEF Model!Operate, Model!withdraw
<1>2. \A g \in Gens, b \in Budgets : \A w \in Model!offer(t, g, b) : w \in O
  BY DEF Model!Offered
<1>3. \A c \in Configs : c.maxStalledCount \in Budgets
  OBVIOUS
<1> HIDE DEF O, Budgets
<1>4. \A v \in O \cup {t}, h \in Members : \A w \in Model!retain(v, h) : w \in R
  BY DEF Model!Retained, O
<1>5. \A k : \A w : \/ w \in Model!acquire(t, k) \/ w \in Model!succeed(t, k)
                    \/ w \in Model!fail(t, k, TRUE) \/ w \in Model!fail(t, k, FALSE)
                    \/ w \in Model!giveBack(t, k)
                    => w \in Q(k)
  BY DEF Model!Presented
<1> HIDE DEF R, Q
<1>6. u = Model!Absent => u \in Model!Operate(t)
  BY <1>1
<1>7. \A g \in Gens, c \in Configs :
         u \in Model!offer(t, g, c.maxStalledCount) => u \in Model!Operate(t)
  BY <1>1, <1>2, <1>3
<1>8. \A g \in Gens, c \in Configs, h \in Members :
         \A v \in Model!offer(t, g, c.maxStalledCount) :
            u \in Model!retain(v, h) => u \in Model!Operate(t)
  BY <1>1, <1>2, <1>3, <1>4
<1>9. \A h \in Members : u \in Model!retain(t, h) => u \in Model!Operate(t)
  BY <1>1, <1>4
<1>10. \A k \in 1..MaxLeases :
         \/ u \in Model!acquire(t, k) \/ u \in Model!succeed(t, k)
         \/ u \in Model!fail(t, k, TRUE) \/ u \in Model!fail(t, k, FALSE)
         \/ u \in Model!giveBack(t, k)
         => u \in Model!Operate(t)
  BY <1>1, <1>5
<1> QED BY <1>6, <1>7, <1>8, <1>9, <1>10

\* A sweep may find nothing to do.
LEMMA SweepsRefl == ASSUME NEW s, s \in Keyspace, NEW L PROVE Sweeps(s, s, L)
<1> SUFFICES ASSUME NEW i \in Ids PROVE TaskOf(s, L, i) \in Model!Swept(TaskOf(s, L, i))
  BY DEF Sweeps
<1> DEFINE t == TaskOf(s, L, i)
<1>1. /\ t \in ModelShape({0, TokenOf(s, L, i)})
      /\ t = Model!Absent \/ Model!Present(t)
  BY TaskOfShape
<1> HIDE DEF t
<1>2. CASE t = Model!Absent
  BY <1>2, SweptAbsent DEF t
<1>3. CASE Model!Present(t)
  BY <1>1, <1>3, DueSwept DEF DueOf, t
<1> QED BY <1>1, <1>2, <1>3

\* A call that sweeps, operates on one task and sweeps is one of the model's.
LEMMA CallRefines ==
    ASSUME Inv, Inv', NEW s, s \in Keyspace, Sweeps(db, s, leases),
           NEW v, NEW i \in Ids, Operates(s, leases, v, leases', i),
           Sweeps(v, db', leases')
    PROVE  Model!Next
<1> DEFINE T(j) == TaskOf(db, leases, j)
           U(j) == TaskOf(db', leases', j)
<1>1. \A j \in Ids : ModelTasks[j] = T(j) /\ ModelTasks'[j] = U(j)
  BY DEF ModelTasks
<1>2. Model!Called(T(i), U(i))
  BY DEF Operates, Sweeps, Model!Called
<1>3. ASSUME NEW j \in Ids \ {i} PROVE U(j) \in Model!Swept(T(j))
  <2>1. TaskOf(s, leases, j) \in Model!Swept(T(j))
    BY DEF Sweeps
  <2>2. U(j) \in Model!Swept(TaskOf(s, leases, j))
    BY DEF Operates, Sweeps
  <2>3. /\ T(j) \in ModelShape({0, TokenOf(db, leases, j)})
        /\ T(j) = Model!Absent \/ Model!Present(T(j))
    BY TaskOfShape DEF Inv, Sound
  <2> HIDE DEF T, U
  <2> QED BY <2>1, <2>2, <2>3, SweptTransitive
<1> HIDE DEF T, U
<1> QED BY <1>1, <1>2, <1>3 DEF Model!Next

\* A call that only sweeps is one of the model's, unless there is nothing to sweep.
LEMMA SweepRefines ==
    ASSUME Inv, Inv', Sweeps(db, db', leases), UNCHANGED leases
    PROVE  Model!Next \/ ModelTasks' = ModelTasks
<1> DEFINE T(j) == TaskOf(db, leases, j)
           U(j) == TaskOf(db', leases, j)
<1>1. \A j \in Ids : ModelTasks[j] = T(j) /\ ModelTasks'[j] = U(j)
  BY DEF ModelTasks
<1>2. CASE Ids = {}
  BY <1>2 DEF ModelTasks
<1>3. ASSUME NEW i \in Ids PROVE Model!Next
  <2>1. \A j \in Ids : U(j) \in Model!Swept(T(j))
    BY DEF Sweeps
  <2>2. U(i) \in Model!Swept(U(i))
    BY SweepsRefl DEF Sweeps, Inv, Sound
  <2> HIDE DEF T, U
  <2>3. Model!Called(T(i), U(i))
    BY <2>1, <2>2 DEF Model!Called
  <2> QED BY <1>1, <2>1, <2>3 DEF Model!Next
<1> QED BY <1>2, <1>3

\* A step that the model does not see.
LEMMA Unseen ==
    ASSUME UNCHANGED leases, \A i \in Ids : TaskOf(db', leases, i) = TaskOf(db, leases, i)
    PROVE  ModelTasks' = ModelTasks
<1>1. \A i \in Ids : TaskOf(db', leases', i) = TaskOf(db, leases, i)
  OBVIOUS
<1> QED BY <1>1 DEF ModelTasks

\* From s to u the tasks other than i, and the holds on them, are the same.
Elsewhere(s, u, i) ==
    /\ \A j \in Ids \ {i} : u.task[j] = s.task[j]
    /\ \A p \in Members \X Members : p[1][1] # i => (p \in u.retainedBy <=> p \in s.retainedBy)

\* The model sees nothing of another task then.
LEMMA ElsewhereView ==
    ASSUME NEW s, s \in Keyspace, NEW u, u \in Keyspace, NEW L, L \in Seq(Members),
           Fenced(s, L), NoNewLock(s, u), NEW i, Elsewhere(s, u, i), NEW j \in Ids \ {i}
    PROVE  TaskOf(u, L, j) = TaskOf(s, L, j)
<1>1. u.task[j] = s.task[j]
  BY DEF Elsewhere
<1>2. Exists(u, j) <=> Exists(s, j)
  BY <1>1 DEF Exists
<1>3. CASE Exists(s, j)
  <2>1. Current(u, j) = Current(s, j) /\ Current(s, j) \in Members /\ Current(s, j)[1] = j
    BY <1>1, <1>3, CurrentType DEF Current
  <2>2. ASSUME NEW h \in Members
        PROVE  <<Current(u, j), h>> \in u.retainedBy <=> <<Current(s, j), h>> \in s.retainedBy
    BY <2>1 DEF Elsewhere
  <2>3. Retainers(u, j) = Retainers(s, j)
    BY <2>2 DEF Retainers
  <2>4. SameTask(s.task[j], u.task[j])
    BY <1>1 DEF SameTask, SameJob
  <2> QED BY <1>3, <2>3, <2>4, SameView
<1>4. CASE ~Exists(s, j)
  BY <1>2, <1>4, TaskOfShape
<1> QED BY <1>3, <1>4

\* What is sound keeps the view of the leases through a safe step.
LEMMA SafeView ==
    ASSUME NEW s, Sound(s), NEW u, Safe(s, u), NEW L, Fenced(s, L)
    PROVE  s \in Keyspace /\ u \in Keyspace /\ Fenced(u, L) /\ NoNewLock(s, u)
BY FencedKept, KeptNoNewLock DEF Safe, Sound

\* A locked task is leased, by the token of its lock.
LEMMA LeasedTask ==
    ASSUME NEW s, Sound(s), NEW i \in Ids, IsLocked(s, i), NEW L
    PROVE  /\ s.task[i].generation # 0 /\ s.lock[i].token \in 1..MaxLeases
           /\ TaskOf(s, L, i) =
                 AsTask(s.task[i].generation, "leased", s.lock[i].token,
                        s.task[i].handlerFailureCount, s.task[i].stalledAttemptCount,
                        s.task[i].config.maxStalledCount, Retainers(s, i))
<1>1. /\ s \in Keyspace /\ Exists(s, i) /\ s.task[i].outcome = "open"
      /\ s.task[i].currentList = "active"
  BY OwnedActive DEF Sound, Settled
<1>2. StateOf(s, i) = "leased"
  BY <1>1, StateIs
<1>3. TokenOf(s, L, i) = s.lock[i].token
  BY <1>2, TokenIs
<1>4. s.lock[i].token \in 1..MaxLeases
  BY <1>1, LockType, BoundsAssumption DEF IsLocked
<1> QED BY <1>1, <1>2, <1>3, <1>4, TaskOfShape DEF Exists

\* How an attempt may end: with a result, with a failure for good or for a retry,
\* or given back.
AttemptEnds(t, r) ==
    /\ r.generation = t.generation /\ r.config = t.config
    /\ r.stalledAttemptCount = t.stalledAttemptCount
    /\ \/ r.outcome = "success" /\ r.handlerFailureCount = t.handlerFailureCount
       \/ r.outcome = "failure" /\ r.handlerFailureCount = t.handlerFailureCount + 1
       \/ /\ r.outcome = "open" /\ r.currentList \in {"wait", "scheduled"}
          /\ r.handlerFailureCount = t.handlerFailureCount + 1
       \/ /\ r.outcome = "open" /\ r.currentList = "wait"
          /\ r.handlerFailureCount = t.handlerFailureCount

\* Each of them is an operation of the model.
LEMMA AttemptEndsOperates ==
    ASSUME NEW s, Sound(s), NEW L, L \in Seq(Members), Fenced(s, L),
           NEW i \in Ids, IsLocked(s, i),
           NEW u, u \in Keyspace, NoNewLock(s, u), u.retainedBy = s.retainedBy,
           \A j \in Ids \ {i} : u.task[j] = s.task[j],
           AttemptEnds(s.task[i], u.task[i])
    PROVE  Operates(s, L, u, L, i)
<1> DEFINE t == TaskOf(s, L, i)
           g == s.task[i].generation
           k == s.lock[i].token
           f == s.task[i].handlerFailureCount
           n == s.task[i].stalledAttemptCount
           b == s.task[i].config.maxStalledCount
           H == Retainers(s, i)
           r == u.task[i]
<1>1. s \in Keyspace
  BY DEF Sound
<1>2. /\ g # 0 /\ k \in 1..MaxLeases /\ t = AsTask(g, "leased", k, f, n, b, H)
  BY LeasedTask
<1>3. /\ Exists(u, i) /\ Retainers(u, i) = H /\ Current(u, i) = Current(s, i)
  BY <1>2 DEF AttemptEnds, Exists, Retainers, Current
<1>4. TaskOf(u, L, i) = AsTask(g, StateOf(u, i), TokenOf(u, L, i), r.handlerFailureCount, n, b, H)
  <2>1. TaskOf(u, L, i) =
            AsTask(r.generation, StateOf(u, i), TokenOf(u, L, i),
                   r.handlerFailureCount, r.stalledAttemptCount,
                   r.config.maxStalledCount, Retainers(u, i))
    BY <1>3, TaskOfShape
  <2> QED BY <1>3, <2>1 DEF AttemptEnds
<1>5. f \in Nat /\ n \in Nat
  BY <1>1, TaskType DEF TaskRecord
<1>6. r.handlerFailureCount \in Nat /\ r.stalledAttemptCount \in Nat
  BY TaskType DEF TaskRecord
<1>7. /\ r.outcome = "success" => StateOf(u, i) = "succeeded"
      /\ r.outcome = "failure" => StateOf(u, i) = "failed"
      /\ r.outcome = "open" /\ r.currentList = "wait" => StateOf(u, i) = "waiting"
      /\ r.outcome = "open" /\ r.currentList = "scheduled"
            /\ r.handlerFailureCount + r.stalledAttemptCount > 0
         => StateOf(u, i) = "retry-scheduled"
  BY StateIs
<1>8. StateOf(u, i) # "leased" => TokenOf(u, L, i) = 0
  BY TokenIs
<1> HIDE DEF t, k
<1>9. TaskOf(u, L, i) \in Model!Operate(t)
  <2>1. CASE r.outcome = "success" /\ r.handlerFailureCount = f
    <3>1. TaskOf(u, L, i) = AsTask(g, "succeeded", 0, f, n, b, H)
      BY <1>4, <1>7, <1>8, <2>1
    <3>2. TaskOf(u, L, i) \in Model!succeed(t, k)
      BY <1>2, <3>1, SucceedsOrGivesBack
    <3> QED BY <1>2, <3>2, Operations
  <2>2. CASE r.outcome = "open" /\ r.currentList = "wait" /\ r.handlerFailureCount = f
    <3>1. TaskOf(u, L, i) = AsTask(g, "waiting", 0, f, n, b, H)
      BY <1>4, <1>7, <1>8, <2>2
    <3>2. TaskOf(u, L, i) \in Model!giveBack(t, k)
      BY <1>2, <3>1, SucceedsOrGivesBack
    <3> QED BY <1>2, <3>2, Operations
  <2>3. CASE r.outcome = "failure" /\ r.handlerFailureCount = f + 1
    <3>1. TaskOf(u, L, i) = AsTask(g, "failed", 0, f + 1, n, b, H)
      BY <1>4, <1>7, <1>8, <2>3
    <3>2. TaskOf(u, L, i) \in Model!fail(t, k, FALSE)
      BY <1>2, <3>1, Fails
    <3> QED BY <1>2, <3>2, Operations
  <2>4. CASE /\ r.outcome = "open" /\ r.currentList \in {"wait", "scheduled"}
             /\ r.handlerFailureCount = f + 1
    <3> DEFINE state == StateOf(u, i)
    <3>1. r.handlerFailureCount + r.stalledAttemptCount > 0
      BY <1>5, <1>6, <2>4
    <3>2. state \in {"retry-scheduled", "waiting"}
      BY <1>7, <2>4, <3>1
    <3> HIDE DEF state
    <3>3. TaskOf(u, L, i) = AsTask(g, state, 0, f + 1, n, b, H)
      BY <1>4, <1>8, <2>4, <3>2 DEF state
    <3>4. TaskOf(u, L, i) \in Model!fail(t, k, TRUE)
      BY <1>2, <3>2, <3>3, Fails
    <3> QED BY <1>2, <3>4, Operations
  <2> QED BY <2>1, <2>2, <2>3, <2>4 DEF AttemptEnds
<1>10. Elsewhere(s, u, i)
  BY DEF Elsewhere
<1>11. \A j \in Ids \ {i} : TaskOf(u, L, j) = TaskOf(s, L, j)
  BY <1>1, <1>10, ElsewhereView
<1> QED BY <1>9, <1>11 DEF Operates, t

\* What follows the settlement of one attempt is a sweep.
LEMMA SettledOperates ==
    ASSUME NEW s, Sound(s), NEW L, L \in Seq(Members), Fenced(s, L),
           NEW i \in Ids, IsLocked(s, i),
           NEW v, Ready(v), LocksKept(s, v), v.retainedBy = s.retainedBy, v.retains = s.retains,
           \A j \in Ids \ {i} : v.task[j] = s.task[j],
           AttemptEnds(s.task[i], v.task[i]), Settled(v, i),
           NEW P, P \subseteq s.retains, NEW w, w = SettleTask(v, {i}, P)
    PROVE  Operates(s, L, v, L, i) /\ Sweeps(v, w, L)
<1>1. v \in Keyspace /\ NoNewLock(s, v) /\ Fenced(v, L)
  BY KeptNoNewLock, FencedKept DEF Ready
<1>2. Operates(s, L, v, L, i)
  BY <1>1, AttemptEndsOperates
<1>3. Exists(v, i)
  BY OwnedActive DEF Exists, AttemptEnds
<1>4. Finishes(v, w) /\ Ends(v, w)
  BY <1>3, SettleTaskFinishes
<1>5. w \in Keyspace /\ NoNewLock(v, w)
  BY <1>4 DEF Ends, Ready, SameBase, NoNewLock
<1> QED BY <1>1, <1>2, <1>4, <1>5, FinishesSweeps

\* writeSuccess: the attempt succeeds.
LEMMA WriteSuccessOperates ==
    ASSUME NEW s, Sound(s), NEW L, L \in Seq(Members), Fenced(s, L),
           NEW i \in Ids, IsLocked(s, i), NEW P, P \subseteq s.retains,
           NEW w, w = SettleTask([Unlock(s, {i}) EXCEPT !.task[i].outcome = "success"], {i}, P)
    PROVE  \E v : Operates(s, L, v, L, i) /\ Sweeps(v, w, L)
<1> DEFINE u == Unlock(s, {i})
           t == s.task[i]
           r == [u.task[i] EXCEPT !.outcome = "success"]
           v == [u EXCEPT !.task[i].outcome = "success"]
<1>1. /\ Ready(u) /\ LocksKept(s, u) /\ ~IsLocked(u, i)
      /\ u.task[i].currentList = "active" /\ u.task = s.task
  BY UnlockedAttempt
<1>2. u.retains = s.retains /\ u.retainedBy = s.retainedBy
  BY DEF Sound, Keyspace, Unlock
<1>0. w = SettleTask(v, {i}, P)
  OBVIOUS
<1> HIDE DEF u
<1>3. u \in Keyspace /\ u.task[i] \in TaskRecord
  BY <1>1, TaskType DEF Ready
<1>4. v = [u EXCEPT !.task = [u.task EXCEPT ![i] = r]]
  BY <1>3 DEF Keyspace
<1>5. /\ r \in TaskRecord /\ r.outcome = "success"
      /\ r.generation = u.task[i].generation /\ r.currentList = u.task[i].currentList
      /\ r.config = t.config /\ r.generation = t.generation
      /\ r.handlerFailureCount = t.handlerFailureCount
      /\ r.stalledAttemptCount = t.stalledAttemptCount
  BY <1>1, <1>3 DEF TaskRecord, Outcomes
<1> HIDE DEF r, v, t
<1>6. Retouched(u, v, i) /\ v.task[i] = r
  BY <1>3, <1>4, <1>5, RetouchedTask
<1>7. Ready(v) /\ LocksKept(u, v)
  BY <1>1, <1>6, RetouchedReady
<1>8. LocksKept(s, v)
  BY <1>1, <1>7 DEF LocksKept, IsLocked
<1>9. v.retainedBy = s.retainedBy /\ v.retains = s.retains
  BY <1>2, <1>3, <1>4 DEF Keyspace
<1>10. Settled(v, i) /\ AttemptEnds(s.task[i], v.task[i])
  BY <1>5, <1>6 DEF Settled, AttemptEnds, t
<1>11. \A j \in Ids \ {i} : v.task[j] = s.task[j]
  BY <1>1, <1>6 DEF Retouched
<1>12. Operates(s, L, v, L, i) /\ Sweeps(v, w, L)
  BY <1>0, <1>7, <1>8, <1>9, <1>10, <1>11, SettledOperates
<1> QED BY <1>12

\* writeError: what it leaves of the attempt before it moves or settles the task.
LEMMA HandlerFailureLeaves ==
    ASSUME NEW s, Sound(s), NEW i \in Ids, IsLocked(s, i), NEW h, h = HandlerFailure(s, i)
    PROVE  /\ Ready(h) /\ LocksKept(s, h) /\ ~IsLocked(h, i)
           /\ h.retainedBy = s.retainedBy /\ h.retains = s.retains
           /\ \A j \in Ids \ {i} : h.task[j] = s.task[j]
           /\ h.task[i] \in TaskRecord
           /\ h.task[i].generation = s.task[i].generation
           /\ h.task[i].config = s.task[i].config
           /\ h.task[i].outcome = "open" /\ h.task[i].currentList = "active"
           /\ h.task[i].handlerFailureCount = s.task[i].handlerFailureCount + 1
           /\ h.task[i].stalledAttemptCount = s.task[i].stalledAttemptCount
<1> DEFINE u == Unlock(s, {i})
           t == s.task[i]
<1>1. /\ Ready(u) /\ LocksKept(s, u) /\ ~IsLocked(u, i) /\ Settled(u, i) = FALSE
      /\ u.task[i].currentList = "active" /\ u.task = s.task
  BY UnlockedAttempt
<1>2. Retouched(u, h, i)
  BY HandlerFailureRetouched
<1>3. s \in Keyspace /\ t \in TaskRecord
  BY TaskType DEF Sound
<1>4. SameRecords(s, h) /\ h.task = [s.task EXCEPT ![i].handlerFailureCount = @ + 1]
  BY <1>3, HandlerFailureFields
<1>5. t.outcome = "open"
  BY <1>1 DEF Settled
<1> HIDE DEF u
<1>6. Ready(h) /\ LocksKept(u, h)
  BY <1>1, <1>2, RetouchedReady
<1>7. LocksKept(s, h) /\ ~IsLocked(h, i)
  BY <1>1, <1>2, <1>6 DEF LocksKept, IsLocked, Retouched
<1>8. h.task[i] = [t EXCEPT !.handlerFailureCount = @ + 1]
  <2>1. DOMAIN s.task = Ids
    BY <1>3 DEF Keyspace
  <2> QED BY <1>4, <2>1
<1>9. h.task[i].currentList = "active" /\ \A j \in Ids \ {i} : h.task[j] = s.task[j]
  BY <1>1, <1>2 DEF Retouched
<1>10. h.task[i] \in TaskRecord
  BY <1>6, TaskType DEF Ready
<1> HIDE DEF t
<1>11. /\ h.task[i].generation = t.generation /\ h.task[i].config = t.config
       /\ h.task[i].outcome = t.outcome
       /\ h.task[i].handlerFailureCount = t.handlerFailureCount + 1
       /\ h.task[i].stalledAttemptCount = t.stalledAttemptCount
  BY <1>3, <1>8 DEF TaskRecord
<1> QED BY <1>4, <1>5, <1>6, <1>7, <1>9, <1>10, <1>11 DEF SameRecords, t

\* writeError that settles the task: the attempt fails.
LEMMA WriteErrorTerminalOperates ==
    ASSUME NEW s, Sound(s), NEW L, L \in Seq(Members), Fenced(s, L),
           NEW i \in Ids, IsLocked(s, i), NEW P, P \subseteq s.retains,
           NEW w, w = SettleTask([HandlerFailure(s, i) EXCEPT !.task[i].outcome = "failure"], {i}, P)
    PROVE  \E v : Operates(s, L, v, L, i) /\ Sweeps(v, w, L)
<1> DEFINE h == HandlerFailure(s, i)
           t == s.task[i]
           r == [h.task[i] EXCEPT !.outcome = "failure"]
           v == [h EXCEPT !.task[i].outcome = "failure"]
<1>1. /\ Ready(h) /\ LocksKept(s, h) /\ ~IsLocked(h, i)
      /\ h.retainedBy = s.retainedBy /\ h.retains = s.retains
      /\ \A j \in Ids \ {i} : h.task[j] = s.task[j]
      /\ h.task[i] \in TaskRecord
      /\ h.task[i].generation = t.generation /\ h.task[i].config = t.config
      /\ h.task[i].currentList = "active"
      /\ h.task[i].handlerFailureCount = t.handlerFailureCount + 1
      /\ h.task[i].stalledAttemptCount = t.stalledAttemptCount
  BY HandlerFailureLeaves
<1>0. w = SettleTask(v, {i}, P)
  OBVIOUS
<1> HIDE DEF h
<1>2. h \in Keyspace
  BY <1>1 DEF Ready
<1>3. v = [h EXCEPT !.task = [h.task EXCEPT ![i] = r]]
  BY <1>2 DEF Keyspace
<1>4. /\ r \in TaskRecord /\ r.outcome = "failure"
      /\ r.generation = h.task[i].generation /\ r.currentList = h.task[i].currentList
      /\ r.config = h.task[i].config
      /\ r.handlerFailureCount = h.task[i].handlerFailureCount
      /\ r.stalledAttemptCount = h.task[i].stalledAttemptCount
  BY <1>1 DEF TaskRecord, Outcomes
<1> HIDE DEF r, v, t
<1>5. Retouched(h, v, i) /\ v.task[i] = r
  BY <1>2, <1>3, <1>4, RetouchedTask
<1>6. Ready(v) /\ LocksKept(h, v)
  BY <1>1, <1>5, RetouchedReady
<1>7. LocksKept(s, v)
  BY <1>1, <1>6 DEF LocksKept, IsLocked
<1>8. v.retainedBy = s.retainedBy /\ v.retains = s.retains
  BY <1>1, <1>2, <1>3 DEF Keyspace
<1>9. Settled(v, i) /\ AttemptEnds(s.task[i], v.task[i])
  BY <1>1, <1>4, <1>5 DEF Settled, AttemptEnds, t
<1>10. \A j \in Ids \ {i} : v.task[j] = s.task[j]
  BY <1>1, <1>5 DEF Retouched
<1>11. Operates(s, L, v, L, i) /\ Sweeps(v, w, L)
  BY <1>0, <1>6, <1>7, <1>8, <1>9, <1>10, SettledOperates
<1> QED BY <1>11

\* writeError with a retry: the attempt fails, and the task waits or is scheduled.
LEMMA WriteErrorRetryOperates ==
    ASSUME NEW s, Sound(s), NEW L, L \in Seq(Members), Fenced(s, L),
           NEW i \in Ids, IsLocked(s, i), NEW l \in {"wait", "scheduled"}, NEW score \in Nat,
           NEW w, w = MoveToList(HandlerFailure(s, i), i, l, score)
    PROVE  Operates(s, L, w, L, i)
<1> DEFINE h == HandlerFailure(s, i)
           t == s.task[i]
<1>1. /\ Ready(h) /\ h.retainedBy = s.retainedBy
      /\ \A j \in Ids \ {i} : h.task[j] = s.task[j]
      /\ h.task[i] \in TaskRecord
      /\ h.task[i].generation = t.generation /\ h.task[i].config = t.config
      /\ h.task[i].outcome = "open"
      /\ h.task[i].handlerFailureCount = t.handlerFailureCount + 1
      /\ h.task[i].stalledAttemptCount = t.stalledAttemptCount
  BY HandlerFailureLeaves
<1>2. Safe(s, w)
  BY WriteErrorRetrySafe
<1>3. w = MoveToList(h, i, l, score)
  OBVIOUS
<1> HIDE DEF h, t
<1>4. Fielded(h)
  BY <1>1, KeyspaceFields DEF Ready
<1>5. w.task[i] = Relisting(h.task[i], l)
  BY <1>3, <1>4, MoveOneFields
<1>6. \A j \in Ids \ {i} : w.task[j] = h.task[j]
  BY <1>3, <1>4, MoveOneFields
<1>7. SameRecords(h, w)
  BY <1>3, <1>4, MoveOneFields
<1>8. AttemptEnds(t, w.task[i])
  BY <1>1, <1>5 DEF Relisting, TaskRecord, AttemptEnds
<1>9. w \in Keyspace /\ NoNewLock(s, w)
  BY <1>2, SafeView
<1> QED BY <1>1, <1>6, <1>7, <1>8, <1>9, AttemptEndsOperates DEF SameRecords, t

\* removeLock: the attempt is given back.
LEMMA RemoveLockOperates ==
    ASSUME NEW s, Sound(s), NEW L, L \in Seq(Members), Fenced(s, L),
           NEW i \in Ids, IsLocked(s, i), NEW w, w = MoveToList(Unlock(s, {i}), i, "wait", 0)
    PROVE  Operates(s, L, w, L, i)
<1> DEFINE u == Unlock(s, {i})
           t == s.task[i]
<1>1. Ready(u) /\ u.task = s.task /\ ~Settled(u, i)
  BY UnlockedAttempt
<1>2. u.retainedBy = s.retainedBy
  BY DEF Sound, Keyspace, Unlock
<1>3. Safe(s, w)
  BY RemoveLockSafe
<1>4. w = MoveToList(u, i, "wait", 0)
  OBVIOUS
<1> HIDE DEF u, t
<1>5. Fielded(u)
  BY <1>1, KeyspaceFields DEF Ready
<1>6. w.task[i] = Relisting(u.task[i], "wait")
  BY <1>4, <1>5, MoveOneFields
<1>7. \A j \in Ids \ {i} : w.task[j] = u.task[j]
  BY <1>4, <1>5, MoveOneFields
<1>8. SameRecords(u, w)
  BY <1>4, <1>5, MoveOneFields
<1>9. t \in TaskRecord /\ t.outcome = "open"
  BY <1>1, TaskType DEF Sound, Settled, t
<1>10. AttemptEnds(t, w.task[i])
  BY <1>1, <1>6, <1>9 DEF Relisting, TaskRecord, AttemptEnds, t
<1>11. w \in Keyspace /\ NoNewLock(s, w)
  BY <1>3, SafeView
<1> QED BY <1>1, <1>2, <1>7, <1>8, <1>10, <1>11, AttemptEndsOperates DEF SameRecords, t

\* lockTask: an attempt is handed out.
LEMMA TakeTaskOperates ==
    ASSUME NEW s, Sound(s), NEW L, L \in Seq(Members), Fenced(s, L),
           NEW i \in Ids, Exists(s, i), ~Settled(s, i), ~IsLocked(s, i),
           s.task[i].currentList = "wait",
           NEW k, k = Len(L) + 1, k \in 1..MaxLeases, NEW t \in Nat,
           NEW w, w = LockTask(s, i, k, t), NEW M, M = Append(L, Current(s, i))
    PROVE  Operates(s, L, w, M, i)
<1> DEFINE q == MoveToList(s, i, "active", s.now + t)
           lock == [token |-> k, until |-> s.now + t]
           m == Current(s, i)
           r == s.task[i]
<1>1. /\ s \in Keyspace /\ r \in TaskRecord /\ r.outcome = "open"
      /\ m \in Members /\ m[1] = i /\ r.generation # 0
  BY TaskType, CurrentType DEF Sound, Settled, Current, Exists
<1>2. k \in 0..MaxLeases /\ k # 0
  OBVIOUS
<1>3. /\ Sound(w) /\ w.lock[i].token = k
      /\ \A j \in Ids \ {i} : w.lock[j] = s.lock[j]
      /\ \A j \in Ids : w.task[j].generation = s.task[j].generation
  BY <1>2, LockTaskSound
<1>4. w = [q EXCEPT !.task[i].attempt = @ + 1, !.lock[i] = lock]
  BY DEF LockTask
<1>5. s.now + t \in Nat
  BY <1>1 DEF Keyspace
<1> HIDE DEF q, lock
<1>6. /\ SameRecords(s, q) /\ q.task[i] = Relisting(s.task[i], "active")
      /\ \A j \in Ids \ {i} : q.task[j] = s.task[j]
      /\ DOMAIN q.task = Ids /\ Fielded(q)
  BY <1>1, KeyspaceFields, MoveOneFields DEF q
<1>7. w.task = [q.task EXCEPT ![i].attempt = @ + 1] /\ w.retainedBy = q.retainedBy
  BY <1>4, <1>6 DEF Fielded, EmptyKeyspace
<1>8. w.task[i] = [q.task[i] EXCEPT !.attempt = @ + 1] /\ \A j \in Ids \ {i} : w.task[j] = s.task[j]
  BY <1>6, <1>7
<1>9. /\ w.task[i].generation = r.generation /\ w.task[i].config = r.config
      /\ w.task[i].outcome = "open" /\ w.task[i].currentList = "active"
      /\ w.task[i].handlerFailureCount = r.handlerFailureCount
      /\ w.task[i].stalledAttemptCount = r.stalledAttemptCount
  <2> DEFINE a == q.task[i]
  <2>1. a = [r EXCEPT !.currentList = "active"] /\ w.task[i] = [a EXCEPT !.attempt = @ + 1]
    BY <1>6, <1>8 DEF Relisting
  <2> HIDE DEF a, r
  <2>2. /\ a \in TaskRecord /\ a.generation = r.generation /\ a.config = r.config
        /\ a.outcome = "open" /\ a.currentList = "active"
        /\ a.handlerFailureCount = r.handlerFailureCount
        /\ a.stalledAttemptCount = r.stalledAttemptCount
    BY <1>1, <2>1 DEF TaskRecord, Lists
  <2> QED BY <2>1, <2>2 DEF TaskRecord
<1>10. w.retainedBy = s.retainedBy
  BY <1>6, <1>7 DEF SameRecords
<1>11. IsLocked(w, i)
  BY <1>2, <1>3 DEF IsLocked
<1> HIDE DEF r
\* The task itself.
<1>12. Retainers(w, i) = Retainers(s, i)
  BY <1>9, <1>10 DEF Retainers, Current, r
<1>13. TaskOf(w, M, i) = AsTask(r.generation, "leased", k, r.handlerFailureCount,
                                r.stalledAttemptCount, r.config.maxStalledCount, Retainers(s, i))
  BY <1>3, <1>9, <1>11, <1>12, LeasedTask
<1>14. StateOf(s, i) = "waiting"
  BY <1>1, StateIs DEF r
<1>15. TaskOf(s, L, i) = AsTask(r.generation, "waiting", TokenOf(s, L, i), r.handlerFailureCount,
                                r.stalledAttemptCount, r.config.maxStalledCount, Retainers(s, i))
  BY <1>1, <1>14, TaskOfShape DEF r
<1>16. TaskOf(w, M, i) \in Model!Operate(TaskOf(s, L, i))
  <2> DEFINE a == TaskOf(s, L, i)
  <2> HIDE DEF a
  <2>1. TaskOf(w, M, i) \in Model!acquire(a, k)
    BY <1>1, <1>13, <1>15, Acquires DEF a
  <2> QED BY <2>1, Operations DEF a
\* The tokens of the others: the new lease is none of theirs.
<1>17. ASSUME NEW j \in Ids \ {i} PROVE TaskOf(w, M, j) = TaskOf(s, L, j)
  <2>1. w.task[j] = s.task[j] /\ w.lock[j] = s.lock[j]
    BY <1>3, <1>8
  <2>2. /\ StateOf(w, j) = StateOf(s, j) /\ Current(w, j) = Current(s, j)
        /\ IsLocked(w, j) <=> IsLocked(s, j)
        /\ Exists(w, j) <=> Exists(s, j)
    BY <2>1 DEF StateOf, ExecutionState, Current, IsLocked, Exists
  <2>3. Handed(M, Current(s, j)) = Handed(L, Current(s, j))
    <3>1. m # Current(s, j)
      BY <1>1 DEF Current
    <3>2. DOMAIN M = DOMAIN L \cup {k} /\ M[k] = m /\ k \notin DOMAIN L
      BY <1>1 DEF m
    <3>3. \A n \in DOMAIN L : M[n] = L[n]
      BY <1>1 DEF m
    <3> QED BY <3>1, <3>2, <3>3 DEF Handed
  <2>4. TokenOf(w, M, j) = TokenOf(s, L, j)
    BY <2>1, <2>2, <2>3, TokenIs
  <2>5. Retainers(w, j) = Retainers(s, j)
    BY <1>10, <2>2 DEF Retainers
  <2>6. CASE ~Exists(s, j)
    <3>1. TaskOf(s, L, j) = Model!Absent
      BY <1>1, <2>6, TaskOfShape
    <3>2. TaskOf(w, M, j) = Model!Absent
      BY <1>3, <2>2, <2>6, TaskOfShape DEF Sound
    <3> QED BY <3>1, <3>2
  <2>7. CASE Exists(s, j)
    <3>1. TaskOf(s, L, j) =
             AsTask(s.task[j].generation, StateOf(s, j), TokenOf(s, L, j),
                    s.task[j].handlerFailureCount, s.task[j].stalledAttemptCount,
                    s.task[j].config.maxStalledCount, Retainers(s, j))
      BY <1>1, <2>7, TaskOfShape
    <3>2. TaskOf(w, M, j) =
             AsTask(w.task[j].generation, StateOf(w, j), TokenOf(w, M, j),
                    w.task[j].handlerFailureCount, w.task[j].stalledAttemptCount,
                    w.task[j].config.maxStalledCount, Retainers(w, j))
      BY <1>3, <2>2, <2>7, TaskOfShape DEF Sound
    <3> QED BY <2>1, <2>2, <2>4, <2>5, <3>1, <3>2
  <2> QED BY <2>6, <2>7
<1> QED BY <1>16, <1>17 DEF Operates

\* What disposes of a settled generation, or of none, is a sweep.
LEMMA ReplacedSweeps ==
    ASSUME NEW s, Sound(s), NEW L, L \in Seq(Members), Fenced(s, L),
           NEW i \in Ids, Replaceable(s, i), NEW u, u = Replaced(s, i)
    PROVE  Sweeps(s, u, L)
<1>1. Safe(s, u)
  BY ReplacedSafe
<1>2. s \in Keyspace
  BY DEF Sound
<1>3. CASE ~Exists(s, i)
  BY <1>3, <1>2, SweepsRefl DEF Replaced
<1>4. CASE Exists(s, i)
  <2> DEFINE v == DeleteAll(s, {i})
  <2>1. u = Unlock(v, {i}) /\ Settled(s, i)
    BY <1>4 DEF Replaced, Replaceable
  <2> HIDE DEF v
  <2>2. /\ SameRecords(s, v) /\ Fielded(v)
        /\ v.task = [j \in Ids |-> IF j \in {i} THEN NoTask ELSE s.task[j]]
    BY <1>2, KeyspaceFields, DeleteAllFields DEF v
  <2>3. u.task = v.task /\ u.retainedBy = v.retainedBy
    BY <2>1, <2>2 DEF Unlock, Fielded, EmptyKeyspace
  <2>4. Finishes(s, u)
    BY <1>4, <2>1, <2>2, <2>3 DEF Finishes, SameRecords
  <2> QED BY <1>1, <2>4, SafeFinishes
<1> QED BY <1>3, <1>4

\* createTask: the new record, once it is listed.
LEMMA EnqueuedTask ==
    ASSUME NEW s, NEW i \in Ids, NEW c \in Configs, NEW d \in Nat,
           s.task[i].generation \in Gens, s.task[i].config = c, s.task[i].outcome = "open",
           s.task[i].handlerFailureCount = 0, s.task[i].stalledAttemptCount = 0,
           s.task[i] \in TaskRecord, Fielded(s),
           NEW w, w \in Keyspace, w = Enqueue(s, i, d), NEW L
    PROVE  /\ SameRecords(s, w) /\ Current(w, i) = Current(s, i)
           /\ \A j \in Ids \ {i} : w.task[j] = s.task[j]
           /\ \E st \in {"delayed", "waiting"} :
                 TaskOf(w, L, i) = AsTask(s.task[i].generation, st, 0, 0, 0, c.maxStalledCount,
                                          Retainers(w, i))
<1> DEFINE r == w.task[i]
<1>1. PICK l \in {"wait", "scheduled"} : \E score : w = MoveToList(s, i, l, score)
  BY DEF Enqueue
<1>2. PICK score : w = MoveToList(s, i, l, score)
  BY <1>1
<1>3. SameRecords(s, w)
  BY <1>2, MoveOneFields
<1>4. \A j \in Ids \ {i} : w.task[j] = s.task[j]
  BY <1>2, MoveOneFields
<1>5. r = Relisting(s.task[i], l)
  BY <1>2, MoveOneFields
<1>6. /\ r.generation = s.task[i].generation /\ r.config = c /\ r.outcome = "open"
      /\ r.handlerFailureCount = 0 /\ r.stalledAttemptCount = 0 /\ r.currentList = l
  BY <1>5 DEF Relisting, TaskRecord
<1>7. r.generation # 0
  BY <1>6 DEF Gens
<1>8. StateOf(w, i) \in {"delayed", "waiting"}
  BY <1>6, StateIs
<1>9. TokenOf(w, L, i) = 0
  BY <1>8, TokenIs
<1>10. TaskOf(w, L, i) = AsTask(r.generation, StateOf(w, i), TokenOf(w, L, i),
                                r.handlerFailureCount, r.stalledAttemptCount,
                                r.config.maxStalledCount, Retainers(w, i))
  BY <1>7, TaskOfShape DEF Exists
<1>11. TaskOf(w, L, i) = AsTask(s.task[i].generation, StateOf(w, i), 0, 0, 0, c.maxStalledCount,
                                Retainers(w, i))
  BY <1>6, <1>9, <1>10
<1> QED BY <1>3, <1>4, <1>6, <1>8, <1>11 DEF Current

\* createTask's new record, before it is listed.
LEMMA NewRecordTask ==
    ASSUME NEW s, Sound(s), Books(s, {}), NEW i \in Ids, NEW c \in Configs,
           ~Exists(s, i), s.generations[i] < MaxGen, NEW v, v = NewRecord(s, i, c)
    PROVE  /\ v.task[i].generation \in Gens /\ v.task[i].config = c /\ v.task[i].outcome = "open"
           /\ v.task[i].handlerFailureCount = 0 /\ v.task[i].stalledAttemptCount = 0
           /\ v.task[i] \in TaskRecord /\ Fielded(v)
           /\ v.retainedBy = s.retainedBy /\ Current(v, i) \in Members
           /\ \A p \in s.retainedBy : p[1] # Current(v, i)
           /\ \A j \in Ids \ {i} : v.task[j] = s.task[j]
<1> DEFINE g == s.generations[i] + 1
           r == [NoTask EXCEPT !.generation = g, !.config = c]
<1>1. s \in Keyspace
  BY DEF Sound
<1>2. /\ v.retainedBy = s.retainedBy /\ ~IsGiven(s, Current(v, i)) /\ Current(v, i) \in Members
      /\ \A j \in Ids \ {i} : v.task[j] = s.task[j]
  BY <1>1, NewRecordBooks
<1>3. \A p \in s.retainedBy : p[1] # Current(v, i)
  BY <1>2 DEF Books, Numbered
<1>4. g \in 1..MaxGen /\ g \in 0..MaxGen
  BY <1>1, BoundsAssumption DEF Keyspace
<1>5. v = [s EXCEPT !.generations[i] = g, !.task[i] = r]
  BY <1>1 DEF NewRecord, Keyspace
<1> HIDE DEF g
<1>6. /\ r.generation = g /\ r.config = c /\ r.outcome = "open"
      /\ r.handlerFailureCount = 0 /\ r.stalledAttemptCount = 0 /\ r \in TaskRecord
  BY <1>4, NoTaskType DEF TaskRecord
<1> HIDE DEF r
<1>7. v.task[i] = r
  BY <1>1, <1>5 DEF Keyspace
<1>8. Fielded(v)
  BY <1>1, <1>5, KeyspaceFields DEF Fielded
<1> QED BY <1>2, <1>3, <1>4, <1>6, <1>7, <1>8 DEF Gens

-----------------------------------------------------------------------------
(* The operations that make, retain or remove a record. *)

\* The model serves a call on i that goes from s and L to w and M.
Serves(s, L, w, M, i) ==
    \E u, v : /\ u \in Keyspace /\ Sweeps(s, u, L)
              /\ Operates(u, L, v, M, i) /\ Sweeps(v, w, M)

\* An operation and what follows from it are served.
LEMMA OperatesServes ==
    ASSUME NEW s, s \in Keyspace, NEW L, NEW v, NEW M, NEW i, Operates(s, L, v, M, i), NEW w
    PROVE  /\ Sweeps(v, w, M) => Serves(s, L, w, M, i)
           /\ v \in Keyspace => Serves(s, L, v, M, i)
BY SweepsRefl DEF Serves

\* So is one that comes after something is swept.
LEMMA SweepsServes ==
    ASSUME NEW s, s \in Keyspace, NEW L, NEW u, Sweeps(s, u, L), NEW w, NEW M, NEW i,
           Serves(u, L, w, M, i)
    PROVE  Serves(s, L, w, M, i)
<1>1. PICK x, v : /\ x \in Keyspace /\ Sweeps(u, x, L)
                  /\ Operates(x, L, v, M, i) /\ Sweeps(v, w, M)
  BY DEF Serves
<1>2. Sweeps(s, x, L)
  BY <1>1, SweepsTransitive
<1> QED BY <1>1, <1>2 DEF Serves

\* A call that is served is one of the model's.
LEMMA ServesRefines ==
    ASSUME Inv, Inv', NEW s, s \in Keyspace, Sweeps(db, s, leases),
           NEW i \in Ids, Serves(s, leases, db', leases', i)
    PROVE  Model!Next
<1>1. db \in Keyspace
  BY DEF Inv, Sound
<1>2. PICK u, v : /\ u \in Keyspace /\ Sweeps(s, u, leases)
                  /\ Operates(u, leases, v, leases', i) /\ Sweeps(v, db', leases')
  BY DEF Serves
<1>3. Sweeps(db, u, leases)
  BY <1>1, <1>2, SweepsTransitive
<1> QED BY <1>2, <1>3, CallRefines

\* createTask lists its new record v of i, made from u: an offer, which may come
\* with holds.
LEMMA OfferedTask ==
    ASSUME NEW u, u \in Keyspace, NEW L, L \in Seq(Members), Fenced(u, L),
           NEW i \in Ids, ~Exists(u, i), NEW c \in Configs, NEW d \in Nat,
           NEW v, v.task[i].generation \in Gens, v.task[i].config = c,
           v.task[i].outcome = "open", v.task[i].handlerFailureCount = 0,
           v.task[i].stalledAttemptCount = 0, v.task[i] \in TaskRecord, Fielded(v),
           Elsewhere(u, v, i),
           NEW w, w \in Keyspace, NoNewLock(u, w), w = Enqueue(v, i, d),
           \/ Retainers(v, i) = {}
           \/ \E h \in Members : Retainers(v, i) = {h}
    PROVE  Operates(u, L, w, L, i)
<1> DEFINE g == v.task[i].generation
           b == c.maxStalledCount
<1>0. /\ SameRecords(v, w) /\ Current(w, i) = Current(v, i)
      /\ \A j \in Ids \ {i} : w.task[j] = v.task[j]
      /\ \E st \in {"delayed", "waiting"} :
            TaskOf(w, L, i) = AsTask(g, st, 0, 0, 0, b, Retainers(w, i))
  BY EnqueuedTask
<1>1. /\ SameRecords(v, w) /\ Current(w, i) = Current(v, i)
      /\ \A j \in Ids \ {i} : w.task[j] = v.task[j]
  BY <1>0
<1>2. PICK st \in {"delayed", "waiting"} :
         TaskOf(w, L, i) = AsTask(g, st, 0, 0, 0, b, Retainers(w, i))
  BY <1>0
<1>3. Retainers(w, i) = Retainers(v, i)
  BY <1>1 DEF Retainers, SameRecords
<1>4. Elsewhere(u, w, i)
  BY <1>1 DEF Elsewhere, SameRecords
<1>5. \A j \in Ids \ {i} : TaskOf(w, L, j) = TaskOf(u, L, j)
  BY <1>4, ElsewhereView
<1>6. TaskOf(u, L, i) = Model!Absent
  BY TaskOfShape
<1>7. g \in Gens /\ g # 0
  BY DEF Gens
<1> HIDE DEF g
<1>8. AsTask(g, st, 0, 0, 0, b, {}) \in Model!offer(Model!Absent, g, b)
  BY Offers
<1> DEFINE t == TaskOf(w, L, i)
           o == AsTask(g, st, 0, 0, 0, b, {})
<1>9. t \in Model!Operate(Model!Absent)
  <2>1. CASE Retainers(v, i) = {}
    <3>1. t = o
      BY <1>2, <1>3, <2>1
    <3>2. t \in Model!offer(Model!Absent, g, b)
      BY <1>8, <3>1
    <3> HIDE DEF t, o
    <3> QED BY <1>7, <3>2, Operations
  <2>2. ASSUME NEW h \in Members, Retainers(v, i) = {h} PROVE t \in Model!Operate(Model!Absent)
    <3>1. t = AsTask(g, st, 0, 0, 0, b, {} \cup {h})
      BY <1>2, <1>3, <2>2
    <3>2. AsTask(g, st, 0, 0, 0, b, {} \cup {h}) \in Model!retain(o, h)
      BY <1>7, Retains
    <3>3. t \in Model!retain(o, h)
      BY <3>1, <3>2
    <3> HIDE DEF t, o
    <3>4. o \in Model!offer(Model!Absent, g, b)
      BY <1>8 DEF o
    <3> QED BY <1>7, <3>3, <3>4, Operations
  <2> QED BY <2>1, <2>2
<1> QED BY <1>5, <1>6, <1>9 DEF Operates

\* createTask, without a holder: it disposes of a settled generation, and offers.
LEMMA OfferNewServes ==
    ASSUME NEW s, Sound(s), Books(s, {}), NEW L, L \in Seq(Members), Fenced(s, L),
           NEW i \in Ids, NEW c \in Configs, NEW d \in Nat,
           Replaceable(s, i), s.generations[i] < MaxGen,
           NEW u, u = Replaced(s, i), NEW v, v = NewRecord(u, i, c), NEW w, w = Enqueue(v, i, d)
    PROVE  Serves(s, L, w, L, i)
<1>1. /\ Safe(s, u) /\ ~Exists(u, i) /\ ~IsLocked(u, i) /\ u.generations = s.generations
  BY ReplacedSafe
<1>2. Sound(u) /\ Books(u, {})
  BY <1>1, ReplacedBooks DEF Safe, InOrder
<1>3. Fresh(v, i) /\ LocksKept(u, v)
  BY <1>1, <1>2, NewRecordFresh
<1>4. Safe(u, w)
  BY <1>3, EnqueueSafe, LocksKeptSafe
<1>5. s \in Keyspace /\ u \in Keyspace /\ w \in Keyspace /\ Fenced(u, L) /\ NoNewLock(u, w)
  BY <1>1, <1>2, <1>4, SafeView
<1>6. /\ v.task[i].generation \in Gens /\ v.task[i].config = c /\ v.task[i].outcome = "open"
      /\ v.task[i].handlerFailureCount = 0 /\ v.task[i].stalledAttemptCount = 0
      /\ v.task[i] \in TaskRecord /\ Fielded(v)
      /\ v.retainedBy = u.retainedBy /\ Current(v, i) \in Members
      /\ \A p \in u.retainedBy : p[1] # Current(v, i)
      /\ \A j \in Ids \ {i} : v.task[j] = u.task[j]
  BY <1>1, <1>2, NewRecordTask
<1>7. Elsewhere(u, v, i)
  BY <1>6 DEF Elsewhere
<1>8. Retainers(v, i) = {}
  BY <1>6 DEF Retainers
<1>9. Operates(u, L, w, L, i)
  BY <1>1, <1>5, <1>6, <1>7, <1>8, OfferedTask
<1>10. Sweeps(s, u, L)
  BY ReplacedSweeps
<1> QED BY <1>5, <1>9, <1>10, OperatesServes, SweepsServes

\* createTask, with a holder that there is room for: the offer comes retained.
LEMMA OfferHeldServes ==
    ASSUME NEW s, Sound(s), Books(s, {}), NEW L, L \in Seq(Members), Fenced(s, L),
           NEW i \in Ids, NEW c \in Configs, NEW d \in Nat, NEW h \in Members,
           Replaceable(s, i), s.generations[i] < MaxGen,
           NEW old, old = Replaced(s, i), NEW new, new = NewRecord(old, i, c),
           NEW held, held = AcquireRetentionHold(new, h, Current(new, i)),
           NEW w, w = Enqueue(held, i, d)
    PROVE  Serves(s, L, w, L, i)
<1> DEFINE m == Current(new, i)
<1>1. /\ Safe(s, old) /\ ~Exists(old, i) /\ ~IsLocked(old, i) /\ old.generations = s.generations
  BY ReplacedSafe
<1>2. Sound(old) /\ Books(old, {})
  BY <1>1, ReplacedBooks DEF Safe, InOrder
<1>3. Fresh(new, i) /\ LocksKept(old, new)
  BY <1>1, <1>2, NewRecordFresh
<1>4. /\ new.task[i].generation \in Gens /\ new.task[i].config = c /\ new.task[i].outcome = "open"
      /\ new.task[i].handlerFailureCount = 0 /\ new.task[i].stalledAttemptCount = 0
      /\ new.task[i] \in TaskRecord
      /\ new.retainedBy = old.retainedBy /\ m \in Members
      /\ \A p \in old.retainedBy : p[1] # m
      /\ \A j \in Ids \ {i} : new.task[j] = old.task[j]
  BY <1>1, <1>2, NewRecordTask
<1>5. m[1] = i
  BY DEF Current
<1>6. new \in Keyspace
  BY <1>3 DEF Fresh, Ready
<1>7. /\ held \in Keyspace /\ held.task = new.task
      /\ held.retainedBy = new.retainedBy \cup {<<m, h>>}
  <2>1. held \in Keyspace /\ held.task = new.task
    BY <1>4, <1>6, AcquireRetentionHoldType DEF SameLists
  <2>2. held.retainedBy = new.retainedBy \cup {<<m, h>>}
    BY <1>6 DEF AcquireRetentionHold, Keyspace
  <2> QED BY <2>1, <2>2
<1>8. Fresh(held, i) /\ LocksKept(new, held)
  BY <1>3, <1>4, AcquireFresh
<1>9. Current(held, i) = m
  BY <1>7 DEF Current
<1> HIDE DEF m
<1>10. Safe(old, w)
  <2>1. Safe(held, w)
    BY <1>8, EnqueueSafe
  <2>2. Safe(new, w)
    BY <1>8, <2>1, LocksKeptSafe
  <2> QED BY <1>3, <2>2, LocksKeptSafe
<1>11. s \in Keyspace /\ old \in Keyspace /\ w \in Keyspace /\ Fenced(old, L) /\ NoNewLock(old, w)
  BY <1>1, <1>2, <1>10, SafeView
<1>12. Elsewhere(old, held, i)
  BY <1>4, <1>5, <1>7 DEF Elsewhere
<1>13. Retainers(held, i) = {h}
  BY <1>4, <1>7, <1>9 DEF Retainers
<1>14. Fielded(held)
  BY <1>7, KeyspaceFields
<1>15. Operates(old, L, w, L, i)
  BY <1>1, <1>4, <1>7, <1>11, <1>12, <1>13, <1>14, OfferedTask
<1>16. Sweeps(s, old, L)
  BY ReplacedSweeps
<1> QED BY <1>11, <1>15, <1>16, OperatesServes, SweepsServes

\* createTask, with a holder that there is no room for: what it replaced is gone,
\* and nothing else is seen to change.
LEMMA TakeBackSweeps ==
    ASSUME NEW s, Sound(s), Books(s, {}), NEW L, L \in Seq(Members), Fenced(s, L),
           NEW i \in Ids, NEW c \in Configs, NEW h,
           Replaceable(s, i), s.generations[i] < MaxGen,
           NEW old, old = Replaced(s, i), NEW new, new = NewRecord(old, i, c),
           NEW w, w = TakeBack(new, old, i, h)
    PROVE  Sweeps(s, w, L)
<1>1. /\ Safe(s, old) /\ ~Exists(old, i) /\ ~IsLocked(old, i) /\ old.generations = s.generations
  BY ReplacedSafe
<1>2. Sound(old) /\ Books(old, {})
  BY <1>1, ReplacedBooks DEF Safe, InOrder
<1>3. /\ Fresh(new, i) /\ LocksKept(old, new)
      /\ new.generations[i] = old.generations[i] + 1
  BY <1>1, <1>2, NewRecordFresh
<1>4. new.generations[i] > 0
  <2>1. old.generations[i] \in 0..MaxGen
    BY <1>2 DEF Sound, Keyspace
  <2> QED BY <1>3, <2>1
<1>5. Safe(old, w)
  BY <1>3, <1>4, TakeBackSafe, LocksKeptSafe
<1>6. s \in Keyspace /\ old \in Keyspace /\ w \in Keyspace /\ Fenced(old, L) /\ NoNewLock(old, w)
  BY <1>1, <1>2, <1>5, SafeView
<1>7. /\ Fielded(new) /\ new.retainedBy = old.retainedBy
      /\ \A j \in Ids \ {i} : new.task[j] = old.task[j]
  BY <1>1, <1>2, NewRecordTask
<1> DEFINE D == DeleteAll(new, {i})
<1>8. /\ D.retainedBy = new.retainedBy /\ Fielded(D)
      /\ D.task = [j \in Ids |-> IF j \in {i} THEN NoTask ELSE new.task[j]]
  BY <1>7, DeleteAllFields DEF SameRecords
<1>9. w = [D EXCEPT !.generations[i] = @ - 1]
  BY DEF TakeBack
<1> HIDE DEF D
<1>10. w.task = D.task /\ w.retainedBy = D.retainedBy
  BY <1>8, <1>9 DEF Fielded, EmptyKeyspace
<1>11. Elsewhere(old, w, i)
  BY <1>7, <1>8, <1>10 DEF Elsewhere
<1>12. ~Exists(w, i)
  BY <1>8, <1>10, NoTaskType DEF Exists
<1>13. \A j \in Ids : TaskOf(w, L, j) = TaskOf(old, L, j)
  <2>1. \A j \in Ids \ {i} : TaskOf(w, L, j) = TaskOf(old, L, j)
    BY <1>6, <1>11, ElsewhereView
  <2>2. TaskOf(w, L, i) = Model!Absent
    BY <1>6, <1>12, TaskOfShape
  <2>3. TaskOf(old, L, i) = Model!Absent
    BY <1>1, <1>6, TaskOfShape
  <2> QED BY <2>1, <2>2, <2>3
<1>14. Sweeps(s, old, L)
  BY ReplacedSweeps
<1> QED BY <1>13, <1>14 DEF Sweeps

\* createTask on an existing task, with a holder: it is retained once more.
LEMMA OfferExistingOperates ==
    ASSUME NEW s, Sound(s), NEW L, L \in Seq(Members), Fenced(s, L),
           NEW i \in Ids, Exists(s, i), NEW h \in Members,
           NEW w, w = AcquireRetentionHold(s, h, Current(s, i))
    PROVE  Operates(s, L, w, L, i) /\ w \in Keyspace
<1> DEFINE m == Current(s, i)
           t == TaskOf(s, L, i)
           r == s.task[i]
<1>1. s \in Keyspace /\ m \in Members /\ m[1] = i
  BY CurrentType DEF Sound, Current
<1>2. w \in Keyspace /\ SameLists(s, w) /\ w.lock = s.lock
  BY <1>1, AcquireRetentionHoldType DEF SameBase
<1>3. w.task = s.task /\ w.retainedBy = s.retainedBy \cup {<<m, h>>}
  BY <1>1, <1>2 DEF AcquireRetentionHold, Keyspace, SameLists
<1>4. NoNewLock(s, w)
  BY <1>2 DEF NoNewLock
<1>5. Elsewhere(s, w, i)
  BY <1>1, <1>3 DEF Elsewhere
<1>6. \A j \in Ids \ {i} : TaskOf(w, L, j) = TaskOf(s, L, j)
  BY <1>1, <1>2, <1>4, <1>5, ElsewhereView
<1>7. Current(w, i) = m
  BY <1>3 DEF Current
<1>8. Retainers(w, i) = Retainers(s, i) \cup {h}
  BY <1>3, <1>7 DEF Retainers
<1>9. SameTask(s.task[i], w.task[i])
  BY <1>3 DEF SameTask, SameJob
<1> HIDE DEF m
<1>10. TaskOf(w, L, i) =
          AsTask(r.generation, StateOf(s, i), TokenOf(s, L, i), r.handlerFailureCount,
                 r.stalledAttemptCount, r.config.maxStalledCount, Retainers(w, i))
  BY <1>1, <1>2, <1>4, <1>9, SameTaskOf
<1>11. t = AsTask(r.generation, StateOf(s, i), TokenOf(s, L, i), r.handlerFailureCount,
                  r.stalledAttemptCount, r.config.maxStalledCount, Retainers(s, i))
  BY <1>1, TaskOfShape
<1>12. r.generation # 0
  BY DEF Exists
<1> HIDE DEF r, t
<1>13. TaskOf(w, L, i) \in Model!retain(t, h)
  BY <1>8, <1>10, <1>11, <1>12, Retains
<1>14. TaskOf(w, L, i) \in Model!Operate(t)
  <2> DEFINE y == TaskOf(w, L, i)
  <2> HIDE DEF y
  <2>1. y \in Model!retain(t, h)
    BY <1>13 DEF y
  <2> QED BY <2>1, Operations DEF y
<1> QED BY <1>2, <1>6, <1>14 DEF Operates, t

\* A lease that is extended: the model sees nothing of its deadline.
LEMMA ExtendLockView ==
    ASSUME NEW s, Sound(s), NEW L, L \in Seq(Members), Fenced(s, L),
           NEW i \in Ids, IsLocked(s, i), NEW until \in Nat,
           NEW w, w = MoveToList([s EXCEPT !.lock[i].until = until], i, "active", until)
    PROVE  \A j \in Ids : TaskOf(w, L, j) = TaskOf(s, L, j)
<1> DEFINE u == [s EXCEPT !.lock[i].until = until]
<1>1. Safe(s, w)
  BY ExtendLockSafe
<1>2. s \in Keyspace /\ w \in Keyspace /\ NoNewLock(s, w)
  BY <1>1, SafeView
<1>3. s.task[i].currentList = "active" /\ s.task[i] \in TaskRecord
  BY <1>2, OwnedActive, TaskType
<1>4. u.task = s.task /\ u.retainedBy = s.retainedBy /\ Fielded(u)
  BY <1>2, KeyspaceFields DEF Keyspace, Fielded
<1>5. w = MoveToList(u, i, "active", until)
  OBVIOUS
<1> HIDE DEF u
<1>6. w.task[i] = Relisting(u.task[i], "active")
  BY <1>4, <1>5, MoveOneFields
<1>7. \A j \in Ids \ {i} : w.task[j] = u.task[j]
  BY <1>4, <1>5, MoveOneFields
<1>8. SameRecords(u, w)
  BY <1>4, <1>5, MoveOneFields
<1>9. w.task[i] = s.task[i]
  BY <1>3, <1>4, <1>6 DEF Relisting, TaskRecord
<1>10. \A j \in Ids : w.task[j] = s.task[j]
  BY <1>4, <1>7, <1>9
<1>11. w.retainedBy = s.retainedBy
  BY <1>4, <1>8 DEF SameRecords
<1> SUFFICES ASSUME NEW j \in Ids PROVE TaskOf(w, L, j) = TaskOf(s, L, j)
  OBVIOUS
<1>12. SameTask(s.task[j], w.task[j])
  BY <1>10 DEF SameTask, SameJob
<1>13. Retainers(w, j) = Retainers(s, j) /\ (Exists(w, j) <=> Exists(s, j))
  BY <1>10, <1>11 DEF Retainers, Current, Exists
<1> QED BY <1>2, <1>12, <1>13, SameView

\* Redis' clock: the token of a lease that has lapsed is the task's still.
LEMMA TickView ==
    ASSUME Inv, Tick
    PROVE  \A j \in Ids : TaskOf(db', leases, j) = TaskOf(db, leases, j)
<1>1. Inv' /\ UNCHANGED leases
  BY TickInv DEF Tick
<1>2. db \in Keyspace /\ db' \in Keyspace /\ leases \in Seq(Members) /\ Fenced(db, leases)
  BY <1>1 DEF Inv, Sound
<1>3. db'.task = db.task /\ db'.retainedBy = db.retainedBy
  BY <1>2 DEF Tick, Keyspace
<1>4. db'.lock = [i \in Ids |-> IF db.lock[i].until < db.now + 1 THEN NoLock ELSE db.lock[i]]
  BY <1>2 DEF Tick, Keyspace
<1>5. NoNewLock(db, db')
  BY <1>4, NoLockType DEF NoNewLock, IsLocked
<1> SUFFICES ASSUME NEW j \in Ids PROVE TaskOf(db', leases, j) = TaskOf(db, leases, j)
  OBVIOUS
<1>6. SameTask(db.task[j], db'.task[j])
  BY <1>3 DEF SameTask, SameJob
<1>7. Retainers(db', j) = Retainers(db, j) /\ (Exists(db', j) <=> Exists(db, j))
  BY <1>3 DEF Retainers, Current, Exists
<1> QED BY <1>2, <1>5, <1>6, <1>7, SameView

\* Deleting the record of i writes no other.
LEMMA DeleteOneFields ==
    ASSUME NEW s, Fielded(s), NEW i \in Ids, NEW u, u = DeleteAll(s, {i})
    PROVE  /\ SameRecords(s, u)
           /\ u.task[i] = NoTask /\ \A j \in Ids \ {i} : u.task[j] = s.task[j]
<1> DEFINE S == {i}
<1>1. u = DeleteAll(s, S)
  OBVIOUS
<1> HIDE DEF S
<1>2. SameRecords(s, u)
  BY <1>1, DeleteAllFields
<1>3. u.task = [j \in Ids |-> IF j \in S THEN NoTask ELSE s.task[j]]
  BY <1>1, DeleteAllFields
<1> QED BY <1>2, <1>3 DEF S

\* What is stored under one member is not a hold on another.
LEMMA ForgetHolds ==
    ASSUME NEW s \in Keyspace, NEW m \in Members, NEW u, u = Forget(s, m)
    PROVE  /\ u.task = s.task /\ Fielded(u)
           /\ \A p : p[1] # m => (p \in u.retainedBy <=> p \in s.retainedBy)
<1>1. u.task = s.task /\ Fielded(u)
  BY ForgetFields
<1>2. u.retainedBy = {p \in s.retainedBy : p[1] # m}
  BY ForgetFields
<1> QED BY <1>1, <1>2

\* A deletion at i is seen nowhere else, and neither is what goes before it when
\* the task is removed by force.
LEMMA DeletedElsewhere ==
    ASSUME NEW a, NEW i \in Ids, NEW f, Fielded(f), f.task = a.task,
           \A p : p[1][1] # i => (p \in f.retainedBy <=> p \in a.retainedBy),
           NEW w, w = DeleteAll(f, {i})
    PROVE  Elsewhere(a, w, i) /\ ~Exists(w, i)
<1>1. SameRecords(f, w)
  BY DeleteOneFields
<1>2. w.task[i] = NoTask /\ \A j \in Ids \ {i} : w.task[j] = f.task[j]
  BY DeleteOneFields
<1> QED BY <1>1, <1>2, NoTaskType DEF Elsewhere, SameRecords, Exists

\* What is deleted at i is withdrawn.
LEMMA WithdrawalOperates ==
    ASSUME NEW a, a \in Keyspace, NEW w, w \in Keyspace, NEW L, L \in Seq(Members),
           Fenced(a, L), NoNewLock(a, w), NEW i \in Ids, Elsewhere(a, w, i), ~Exists(w, i)
    PROVE  Operates(a, L, w, L, i)
<1>1. \A j \in Ids \ {i} : TaskOf(w, L, j) = TaskOf(a, L, j)
  BY ElsewhereView
<1> DEFINE y == TaskOf(w, L, i)
           t == TaskOf(a, L, i)
<1>2. y = Model!Absent
  BY TaskOfShape
<1> HIDE DEF y, t
<1>3. y \in Model!Operate(t)
  BY <1>2, Operations
<1> QED BY <1>1, <1>3 DEF Operates, y, t

\* removeTask: the holds that the task has are released, and it goes.
LEMMA RemoveTaskServes ==
    ASSUME NEW s, Sound(s), NEW L, L \in Seq(Members), Fenced(s, L),
           NEW i \in Ids, ~IsLocked(s, i), NEW P, P \subseteq s.retains,
           NEW a, a = ReleaseOwnedHolds(s, {Current(s, i)}, P), NEW w, w = DeleteAll(a, {i})
    PROVE  Serves(s, L, w, L, i)
<1>1. Ready(s)
  BY SoundReady
<1>2. Finishes(s, a)
  BY <1>1, ReleaseOwnedHoldsFinishes
<1>3. Ends(s, a)
  BY <1>1, ReleaseOwnedHoldsEnds
<1>4. Safe(s, a)
  BY <1>3, EndsSafe
<1>5. Sweeps(s, a, L)
  BY <1>2, <1>4, SafeFinishes
<1>6. Safe(s, w)
  BY RemoveTaskSafe
<1>7. /\ s \in Keyspace /\ w \in Keyspace /\ NoNewLock(s, w)
      /\ a \in Keyspace /\ Fenced(a, L)
  BY <1>4, <1>6, SafeView
<1>8. NoNewLock(a, w)
  BY <1>3, <1>7 DEF Ends, SameBase, NoNewLock
<1>9. Elsewhere(a, w, i) /\ ~Exists(w, i)
  BY <1>7, KeyspaceFields, DeletedElsewhere
<1>10. Operates(a, L, w, L, i)
  BY <1>7, <1>8, <1>9, WithdrawalOperates
<1> QED BY <1>5, <1>7, <1>10, OperatesServes, SweepsServes

\* removeTask by force: the lock goes as well, and what is stored under the member.
LEMMA ForceRemoveTaskServes ==
    ASSUME NEW s, Sound(s), NEW L, L \in Seq(Members), Fenced(s, L),
           NEW i \in Ids, Exists(s, i), NEW P, P \subseteq s.retains,
           NEW m, m = Current(s, i), NEW u, u = Unlock(s, {i}),
           NEW a, a = ReleaseOwnedHolds(u, {m}, P),
           NEW w, w = DeleteAll(Forget(a, m), {i})
    PROVE  Serves(s, L, w, L, i)
<1> DEFINE f == Forget(a, m)
<1>1. s \in Keyspace /\ m \in Members /\ m[1] = i
  BY CurrentType DEF Sound, Current
<1>2. Safe(s, w)
  BY ForceRemoveTaskSafe
<1>3. w \in Keyspace /\ NoNewLock(s, w) /\ Sound(w)
  BY <1>2, SafeView DEF Safe
<1>4. Ready(s)
  BY SoundReady
<1>5. Ready(u) /\ SameLists(s, u) /\ LocksKept(s, u)
  BY <1>4, UnlockReady
<1>6. /\ u.retainedBy = s.retainedBy /\ u.retains = s.retains
      /\ u.lock = [j \in Ids |-> IF j \in {i} THEN NoLock ELSE s.lock[j]]
  BY <1>1 DEF Unlock, Keyspace
<1>7. Finishes(u, a)
  BY <1>5, <1>6, ReleaseOwnedHoldsFinishes
<1>8. Ends(u, a)
  BY <1>5, <1>6, ReleaseOwnedHoldsEnds
<1>9. a \in Keyspace /\ a.lock = u.lock
  BY <1>8 DEF Ends, Ready, SameBase
<1>10. Finishes(s, u)
  BY <1>5, <1>6 DEF Finishes, SameLists
<1>11. Finishes(s, a)
  BY <1>1, <1>5, <1>7, <1>10, FinishesTransitive DEF Ready
<1>12. NoNewLock(s, a)
  BY <1>6, <1>9, NoLockType DEF NoNewLock, IsLocked
<1>13. Sweeps(s, a, L)
  BY <1>1, <1>9, <1>11, <1>12, FinishesSweeps
<1>14. Fenced(a, L)
  <2>1. \A j \in Ids : PlacedAt(u, j)
    BY <1>5, SoundAt DEF SameLists, PlacedAt, Exists, Settled
  <2>2. Safe(u, a)
    BY <1>5, <1>8, <2>1, ReadySound, EndsSafe
  <2> QED BY <1>5, <2>2, FencedKept DEF Safe
<1> HIDE DEF f
<1>15. Elsewhere(a, w, i) /\ ~Exists(w, i)
  <2>1. /\ f.task = a.task /\ Fielded(f)
        /\ \A p : p[1] # m => (p \in f.retainedBy <=> p \in a.retainedBy)
    <3>1. /\ a \in Keyspace /\ m \in Members /\ f = Forget(a, m)
      BY <1>1, <1>9 DEF f
    <3>2. f.task = a.task
      BY <3>1, ForgetHolds
    <3>3. Fielded(f)
      BY <3>1, ForgetHolds
    <3>4. \A p : p[1] # m => (p \in f.retainedBy <=> p \in a.retainedBy)
      BY <3>1, ForgetHolds
    <3> QED BY <3>2, <3>3, <3>4
  <2>2. w = DeleteAll(f, {i})
    BY DEF f
  <2> QED BY <1>1, <2>1, <2>2, DeletedElsewhere
<1>16. NoNewLock(a, w)
  <2> SUFFICES ASSUME NEW j \in Ids, IsLocked(w, j) PROVE w.lock[j].token = a.lock[j].token
    BY DEF NoNewLock
  <2>1. j # i
    BY <1>3, <1>15, LockedExists DEF Sound
  <2>2. a.lock[j] = s.lock[j]
    BY <1>6, <1>9, <2>1
  <2>3. w.lock[j].token = s.lock[j].token
    BY <1>3 DEF NoNewLock
  <2> QED BY <2>2, <2>3
<1>17. Operates(a, L, w, L, i)
  BY <1>3, <1>9, <1>14, <1>15, <1>16, WithdrawalOperates
<1> QED BY <1>1, <1>3, <1>9, <1>13, <1>17, OperatesServes, SweepsServes

-----------------------------------------------------------------------------
(* Every step of the engine is one of the model's, or none that it sees. *)

\* A script call that sweeps, and then operates.
LEMMA SweepingRefines ==
    ASSUME Ledger, Inv', NEW x \in SyncAll(db), Sweeping(x)
    PROVE  Model!Next \/ ModelTasks' = ModelTasks
<1> DEFINE s == x.db
           L == leases
<1>0. Inv /\ L \in Seq(Members)
  BY DEF Ledger, Inv
<1>1. Safe(db, s) /\ InOrder(db, s) /\ Fenced(db, L)
  BY SyncAllSafe, SyncAllBooks DEF Ledger, Inv
<1>2. /\ Sound(s) /\ s \in Keyspace /\ Books(s, {}) /\ Fenced(s, L)
  BY <1>1, FencedKept DEF Safe, Sound, InOrder
<1>s. Sweeps(db, s, L)
  BY <1>0, <1>1, SyncAllSweeps DEF Inv
<1> HIDE DEF s
\* It is enough that the model serves the operation.
<1>r. ASSUME NEW i \in Ids, Serves(s, L, db', leases', i) PROVE Model!Next
  BY <1>0, <1>2, <1>s, <1>r, ServesRefines
<1>3. CASE Maintain(x)
  <2>1. db' = s /\ UNCHANGED leases
    BY <1>3 DEF Maintain, s
  <2> QED BY <1>0, <1>s, <2>1, SweepRefines
<1>4. ASSUME NEW i \in Ids, NEW c \in Configs, NEW d \in Delays, OfferNew(x, i, c, d)
      PROVE  Model!Next
  <2>1. /\ Replaceable(s, i) /\ s.generations[i] < MaxGen
        /\ db' = Enqueue(NewRecord(Replaced(s, i), i, c), i, d) /\ UNCHANGED leases
    BY <1>4 DEF OfferNew, s
  <2>2. d \in Nat
    BY DurationsAssumption
  <2>3. Serves(s, L, db', L, i)
    BY <1>0, <1>2, <2>1, <2>2, OfferNewServes
  <2> QED BY <1>r, <2>1, <2>3
<1>5. ASSUME NEW i \in Ids, NEW h \in Members, OfferExisting(x, i, h)
      PROVE  Model!Next
  <2>1. /\ Exists(s, i) /\ db' = AcquireRetentionHold(s, h, Current(s, i)) /\ UNCHANGED leases
    BY <1>5 DEF OfferExisting, s
  <2>2. Operates(s, L, db', L, i) /\ db' \in Keyspace
    BY <1>0, <1>2, <2>1, OfferExistingOperates
  <2>3. Serves(s, L, db', L, i)
    BY <1>2, <2>2, OperatesServes
  <2> QED BY <1>r, <2>1, <2>3
<1>6. ASSUME NEW i \in Ids, NEW h \in Members, NEW c \in Configs, NEW d \in Delays,
             OfferHeld(x, i, c, d, h)
      PROVE  Model!Next \/ ModelTasks' = ModelTasks
  <2> DEFINE old == Replaced(s, i)
             new == NewRecord(old, i, c)
             held == AcquireRetentionHold(new, h, Current(new, i))
  <2>1. /\ Replaceable(s, i) /\ s.generations[i] < MaxGen
        /\ db' = Enqueue(held, i, d) \/ db' = TakeBack(new, old, i, h)
        /\ UNCHANGED leases
    BY <1>6 DEF OfferHeld, s
  <2>2. /\ old = Replaced(s, i) /\ new = NewRecord(old, i, c)
        /\ held = AcquireRetentionHold(new, h, Current(new, i))
    OBVIOUS
  <2>3. d \in Nat
    BY DurationsAssumption
  <2> HIDE DEF old, new, held
  <2>4. CASE db' = Enqueue(held, i, d)
    <3>1. Serves(s, L, db', L, i)
      BY <1>0, <1>2, <2>1, <2>2, <2>3, <2>4, OfferHeldServes
    <3> QED BY <1>r, <2>1, <3>1
  <2>5. CASE db' = TakeBack(new, old, i, h)
    <3>1. Sweeps(s, db', L)
      BY <1>0, <1>2, <2>1, <2>2, <2>5, TakeBackSweeps
    <3>2. Sweeps(db, db', L)
      BY <1>0, <1>s, <3>1, SweepsTransitive DEF Inv, Sound
    <3> QED BY <1>0, <2>1, <3>2, SweepRefines
  <2> QED BY <2>1, <2>4, <2>5
<1>7. ASSUME NEW t \in LockTimeouts, TakeTask(x, t)
      PROVE  Model!Next
  <2> DEFINE i == Head(s.wait)
             k == Len(L) + 1
  <2>1. s.wait # <<>> /\ Len(L) < MaxLeases
    BY <1>7 DEF TakeTask, s
  <2>2. /\ i \in Ids /\ Exists(s, i) /\ ~Settled(s, i) /\ ~IsLocked(s, i)
        /\ s.task[i].currentList = "wait"
    BY <1>2, <2>1, HeadOfWait
  <2>3. db' = LockTask(s, i, k, t) /\ leases' = Append(L, Current(s, i))
    BY <1>7, <2>2 DEF TakeTask, s
  <2>4. k = Len(L) + 1 /\ k \in 1..MaxLeases /\ t \in Nat
    BY <1>0, <2>1, BoundsAssumption, DurationsAssumption
  <2> HIDE DEF i, k
  <2>5. Operates(s, L, db', leases', i)
    BY <1>0, <1>2, <2>2, <2>3, <2>4, TakeTaskOperates
  <2>6. Serves(s, L, db', leases', i)
    BY <1>2, <2>5, OperatesServes DEF Inv, Sound
  <2> QED BY <1>r, <2>2, <2>6
<1>8. ASSUME NEW k \in DOMAIN leases, WriteSuccess(x, k)
      PROVE  Model!Next
  <2> DEFINE i == leases[k][1]
  <2>1. /\ Owns(s, k) /\ UNCHANGED leases
        /\ \E P \in Pops(s, {Current(s, i)}, x.left) :
              db' = SettleTask([Unlock(s, {i}) EXCEPT !.task[i].outcome = "success"], {i}, P)
    BY <1>8 DEF WriteSuccess, s
  <2>2. PICK P \in Pops(s, {Current(s, i)}, x.left) :
              db' = SettleTask([Unlock(s, {i}) EXCEPT !.task[i].outcome = "success"], {i}, P)
    BY <2>1
  <2>3. P \subseteq s.retains
    BY DEF Pops
  <2>4. i \in Ids /\ IsLocked(s, i)
    BY <1>0, <2>1, OwnsLocked
  <2> HIDE DEF i
  <2>5. \E v : Operates(s, L, v, L, i) /\ Sweeps(v, db', L)
    BY <1>0, <1>2, <2>2, <2>3, <2>4, WriteSuccessOperates
  <2>6. Serves(s, L, db', L, i)
    BY <1>2, <2>5, OperatesServes
  <2> QED BY <1>r, <2>1, <2>4, <2>6
<1>9. ASSUME NEW k \in DOMAIN leases, NEW d \in RetryDelays,
             WriteErrorRetry(x, k, x.db.now + d)
      PROVE  Model!Next
  <2> DEFINE i == leases[k][1]
             u == HandlerFailure(s, i)
             retryAt == s.now + d
  <2>1. /\ Owns(s, k) /\ UNCHANGED leases
        /\ \/ db' = MoveToList(u, i, "scheduled", retryAt)
           \/ db' = MoveToList(u, i, "wait", 0)
    BY <1>9 DEF WriteErrorRetry, s
  <2>2. i \in Ids /\ IsLocked(s, i)
    BY <1>0, <2>1, OwnsLocked
  <2>3. retryAt \in Nat
    BY <1>2, DurationsAssumption DEF Keyspace
  <2> HIDE DEF i, retryAt
  <2>4. PICK l \in {"wait", "scheduled"}, score \in Nat : db' = MoveToList(u, i, l, score)
    BY <2>1, <2>3
  <2>5. Operates(s, L, db', L, i)
    BY <1>0, <1>2, <2>2, <2>4, WriteErrorRetryOperates
  <2>6. Serves(s, L, db', L, i)
    BY <1>2, <2>5, OperatesServes DEF Inv, Sound
  <2> QED BY <1>r, <2>1, <2>2, <2>6
<1>10. ASSUME NEW k \in DOMAIN leases, WriteErrorTerminal(x, k)
       PROVE  Model!Next
  <2> DEFINE i == leases[k][1]
  <2>1. /\ Owns(s, k) /\ UNCHANGED leases
        /\ \E P \in Pops(s, {Current(s, i)}, x.left) :
              db' = SettleTask([HandlerFailure(s, i) EXCEPT !.task[i].outcome = "failure"], {i}, P)
    BY <1>10 DEF WriteErrorTerminal, s
  <2>2. PICK P \in Pops(s, {Current(s, i)}, x.left) :
              db' = SettleTask([HandlerFailure(s, i) EXCEPT !.task[i].outcome = "failure"], {i}, P)
    BY <2>1
  <2>3. P \subseteq s.retains
    BY DEF Pops
  <2>4. i \in Ids /\ IsLocked(s, i)
    BY <1>0, <2>1, OwnsLocked
  <2> HIDE DEF i
  <2>5. \E v : Operates(s, L, v, L, i) /\ Sweeps(v, db', L)
    BY <1>0, <1>2, <2>2, <2>3, <2>4, WriteErrorTerminalOperates
  <2>6. Serves(s, L, db', L, i)
    BY <1>2, <2>5, OperatesServes
  <2> QED BY <1>r, <2>1, <2>4, <2>6
<1>11. ASSUME NEW i \in Ids, RemoveTask(x, i)
       PROVE  Model!Next
  <2>1. /\ ~IsLocked(s, i) /\ UNCHANGED leases
        /\ \E P \in Pops(s, {Current(s, i)}, x.left) :
              db' = DeleteAll(ReleaseOwnedHolds(s, {Current(s, i)}, P), {i})
    BY <1>11 DEF RemoveTask, s
  <2>2. PICK P \in Pops(s, {Current(s, i)}, x.left) :
              db' = DeleteAll(ReleaseOwnedHolds(s, {Current(s, i)}, P), {i})
    BY <2>1
  <2>3. P \subseteq s.retains
    BY DEF Pops
  <2>4. Serves(s, L, db', L, i)
    BY <1>0, <1>2, <2>1, <2>2, <2>3, RemoveTaskServes
  <2> QED BY <1>r, <2>1, <2>4
<1>12. ASSUME NEW i \in Ids, ForceRemoveTask(x, i)
       PROVE  Model!Next
  <2> DEFINE m == Current(s, i)
  <2>1. /\ Exists(s, i) /\ UNCHANGED leases
        /\ \E P \in Pops(s, {m}, x.left) :
              db' = DeleteAll(Forget(ReleaseOwnedHolds(Unlock(s, {i}), {m}, P), m), {i})
    BY <1>12 DEF ForceRemoveTask, s
  <2>2. PICK P \in Pops(s, {m}, x.left) :
              db' = DeleteAll(Forget(ReleaseOwnedHolds(Unlock(s, {i}), {m}, P), m), {i})
    BY <2>1
  <2>3. P \subseteq s.retains
    BY DEF Pops
  <2>4. Serves(s, L, db', L, i)
    BY <1>0, <1>2, <2>1, <2>2, <2>3, ForceRemoveTaskServes
  <2> QED BY <1>r, <2>1, <2>4
<1> QED
  BY <1>3, <1>4, <1>5, <1>6, <1>7, <1>8, <1>9, <1>10, <1>11, <1>12 DEF Sweeping

\* Any step of the engine.
LEMMA NextRefines ==
    ASSUME Ledger, [Next]_vars
    PROVE  Model!Next \/ ModelTasks' = ModelTasks
<1>1. Inv /\ Inv'
  BY NextInv DEF Ledger
<1>2. /\ Sound(db) /\ db \in Keyspace /\ db' \in Keyspace
      /\ leases \in Seq(Members) /\ Fenced(db, leases)
  BY <1>1 DEF Inv, Sound
<1>3. CASE \E x \in SyncAll(db) : Sweeping(x)
  BY <1>1, <1>3, SweepingRefines
<1>4. ASSUME NEW k \in DOMAIN leases, NEW t \in LockTimeouts, ExtendLock(k, t)
      PROVE  ModelTasks' = ModelTasks
  <2> DEFINE i == leases[k][1]
             until == db.now + t
  <2>1. /\ Owns(db, k) /\ UNCHANGED leases
        /\ db' = MoveToList([db EXCEPT !.lock[i].until = until], i, "active", until)
    BY <1>4 DEF ExtendLock
  <2>2. i \in Ids /\ IsLocked(db, i)
    BY <1>2, <2>1, OwnsLocked
  <2>3. until \in Nat
    BY <1>2, DurationsAssumption DEF Keyspace
  <2> HIDE DEF i, until
  <2>4. \A j \in Ids : TaskOf(db', leases, j) = TaskOf(db, leases, j)
    BY <1>2, <2>1, <2>2, <2>3, ExtendLockView
  <2> QED BY <2>1, <2>4, Unseen
<1>5. ASSUME NEW k \in DOMAIN leases, RemoveLock(k)
      PROVE  Model!Next
  <2> DEFINE i == leases[k][1]
  <2>1. /\ Owns(db, k) /\ UNCHANGED leases
        /\ db' = MoveToList(Unlock(db, {i}), i, "wait", 0)
    BY <1>5 DEF RemoveLock
  <2>2. i \in Ids /\ IsLocked(db, i)
    BY <1>2, <2>1, OwnsLocked
  <2> HIDE DEF i
  <2>3. Operates(db, leases, db', leases, i)
    BY <1>2, <2>1, <2>2, RemoveLockOperates
  <2>4. Serves(db, leases, db', leases', i)
    BY <1>2, <2>1, <2>3, OperatesServes
  <2>5. Sweeps(db, db, leases)
    BY <1>2, SweepsRefl
  <2> QED BY <1>1, <1>2, <2>2, <2>4, <2>5, ServesRefines
<1>6. CASE Tick
  BY <1>1, <1>6, TickView, Unseen DEF Tick
<1>7. CASE UNCHANGED vars
  BY <1>7 DEF vars, ModelTasks
<1> QED BY <1>3, <1>4, <1>5, <1>6, <1>7 DEF Next

\* The task engine implements the life cycle of the tests' reference model: every
\* script call, with the sweep before it, the holds it releases and the late or
\* repeated token it may carry, moves each task by what the model allows, and a
\* step between calls moves none.
THEOREM EngineImplementsTaskModel == Spec => RefinesTaskModel
<1>1. Init => Model!Init
  <2> SUFFICES ASSUME Init PROVE Model!Init
    OBVIOUS
  <2>1. db \in Keyspace /\ \A i \in Ids : ~Exists(db, i)
    BY InitInv, NoTaskType DEF Init, EmptyKeyspace, Exists, Inv, Sound
  <2>2. \A i \in Ids : TaskOf(db, leases, i) = Model!Absent
    BY <2>1, TaskOfShape
  <2> QED BY <2>2 DEF Model!Init, ModelTasks
<1>2. Ledger /\ [Next]_vars => [Model!Next]_ModelTasks
  BY NextRefines
<1> QED BY <1>1, <1>2, LedgerKept, PTL DEF Spec, RefinesTaskModel, Model!Spec

================================================================================
