------------------------------ MODULE TaskHistory ------------------------------
(***************************************************************************)
(* The progress and lifecycle history of one task id: the stream that      *)
(* taskEngine.lua keeps per generation and trims to maxHistoryEntries, and *)
(* clients that page through it with cursors (src/TaskEngine.ts,           *)
(* src/TaskHistory.ts).                                                    *)
(*                                                                         *)
(* The task itself is reduced to what its history depends on: a lease is   *)
(* live, then due (its deadline has come, its lock key is still there) and *)
(* then gone, and the sweep that precedes most operations may have got     *)
(* round to this task or not.  TaskEngine has the rest.                    *)
(***************************************************************************)
EXTENDS Integers, Sequences, FiniteSets

CONSTANTS
    Readers,            \* clients that page through the history
    MaxHistoryEntries,  \* the cap of a generation's history
    Limit,              \* page size
    MaxGen,             \* bound: generations
    MaxLeases,          \* bound: attempts handed out
    MaxEntries          \* bound: entries ever appended

ASSUME SizesAssumption ==
    /\ MaxHistoryEntries \in Nat \ {0}
    /\ Limit \in Nat \ {0}
ASSUME BoundsAssumption == {MaxGen, MaxLeases, MaxEntries} \subseteq Nat

VARIABLES
    task,       \* the hash task:<id>, its lock key and its active score
    log,        \* the stream of the stored generation
    lastId,     \* the newest stream id; ids grow with Redis' clock
    given,      \* the hash of generations: the newest generation
    leases,     \* the attempt of every lease token ever handed out
    reader      \* what each reading client knows

vars == <<task, log, lastId, given, leases, reader>>

-----------------------------------------------------------------------------
(* The history of a stored task. *)

Terminal == {"failed", "completed"}      \* tags that end an attempt
Tags == {"created", "moved", "progress"} \cup Terminal

\* `by` is not stored: it is the attempt whose token wrote a progress entry.
Entry == [id : Nat, sequence : Nat, tag : Tags, generation : 1..MaxGen, attempt : Nat, by : Nat]

\* A task that does not exist has generation 0, and token 0 is no lock key.
NoTask == [generation |-> 0, list |-> "none", settled |-> FALSE, attempt |-> 0,
           token |-> 0, lease |-> "gone",
           sequence |-> 0, trimmed |-> 0, trimmedId |-> 0]

\* A keyspace: everything one script run changes.
Store == [task |-> task, log |-> log, lastId |-> lastId]

\* One append has at most one entry to evict; its id becomes the boundary.
Overfull(all) == Len(all) > MaxHistoryEntries
NewBoundary_Kept(all) == Head(Tail(all)).id
NewBoundary(all) == Head(all).id

\* appendHistory.
AppendHistory(s, tag, attempt, by) ==
    LET entry == [id |-> s.lastId + 1, sequence |-> s.task.sequence + 1,
                  tag |-> tag, generation |-> s.task.generation, attempt |-> attempt, by |-> by]
        all == Append(s.log, entry)
        full == Overfull(all)
    IN [task |-> [s.task EXCEPT
                    !.sequence = entry.sequence,
                    !.trimmed = IF full THEN entry.sequence - MaxHistoryEntries ELSE @,
                    !.trimmedId = IF full THEN NewBoundary(all) ELSE @],
        log |-> IF full THEN Tail(all) ELSE all,
        lastId |-> entry.id]

Publish(s, tag) == AppendHistory(s, tag, s.task.attempt, 0)

\* moveToList: a move is published under the attempt it belongs to.
Move(s, list, attempt) ==
    LET moved == [s EXCEPT !.task.list = list]
    IN IF s.task.list = list THEN moved ELSE AppendHistory(moved, "moved", attempt, 0)
MoveToList(s, list) == Move(s, list, s.task.attempt)

Unlock(s) == [s EXCEPT !.task.token = 0]
DeleteTask(s) == [MoveToList(s, "none") EXCEPT !.task = NoTask, !.log = <<>>]

\* Settlement, and the completion policy: kept in some list, or deleted.
Settle(s, tag) ==
    LET published == Publish([Unlock(s) EXCEPT !.task.settled = TRUE], tag)
    IN {MoveToList(published, l) : l \in {"none", "success"}}
           \cup {DeleteTask(MoveToList(published, "none"))}

\* failTask with a retry, now or later, or without.
FailTask(s) ==
    {MoveToList(Publish(Unlock(s), "failed"), l) : l \in {"wait", "scheduled"}}
        \cup Settle(s, "failed")

-----------------------------------------------------------------------------
(* The sweep, as far as it may have got with this task. *)

SyncLocks(s) ==
    IF s.task.list = "active" /\ s.task.lease = "gone" THEN FailTask(s) ELSE {s}
SyncDelayed(s) ==
    IF s.task.list = "scheduled" THEN {s, MoveToList(s, "wait")} ELSE {s}
SyncTaskExpiry(s) == IF s.task.settled THEN {s, DeleteTask(s)} ELSE {s}

SyncAll(s) ==
    LET Sweeps == {SyncLocks(s), SyncDelayed(s), SyncTaskExpiry(s), {s}}
    IN UNION Sweeps

-----------------------------------------------------------------------------
(* The operations. *)

Become(s) == task' = s.task /\ log' = s.log /\ lastId' = s.lastId

Maintain ==
    /\ \E s \in SyncAll(Store) : Become(s)
    /\ UNCHANGED <<given, leases, reader>>

\* createTask of an id that is free, or of one whose generation is settled.
OfferTask ==
    /\ given < MaxGen
    /\ \E s \in SyncAll(Store) :
        LET cleared == IF s.task.generation = 0 THEN s ELSE DeleteTask(s)
            new == [cleared EXCEPT !.task.generation = given + 1]
        IN /\ s.task.generation = 0 \/ s.task.settled
           /\ \E l \in {"wait", "scheduled"} :
                  Become(MoveToList(Publish(new, "created"), l))
    /\ given' = given + 1
    /\ UNCHANGED <<leases, reader>>

\* lockTask publishes the move under the attempt that it starts.
TakeTask ==
    /\ Len(leases) < MaxLeases
    /\ \E s \in SyncAll(Store) :
        /\ s.task.list = "wait"
        /\ Become([Move(s, "active", s.task.attempt + 1) EXCEPT
                     !.task.attempt = @ + 1,
                     !.task.token = Len(leases) + 1,
                     !.task.lease = "live"])
        /\ leases' = Append(leases, s.task.attempt + 1)
    /\ UNCHANGED <<given, reader>>

\* The lock key goes after its last millisecond; the deadline is reached first.
Age ==
    /\ task.token # 0
    /\ task' = IF task.lease = "live" THEN [task EXCEPT !.lease = "due"]
               ELSE [task EXCEPT !.lease = "gone", !.token = 0]
    /\ UNCHANGED <<log, lastId, given, leases, reader>>

ExtendLock(k) ==
    /\ task.token = k
    /\ Become([MoveToList(Store, "active") EXCEPT !.task.lease = "live"])
    /\ UNCHANGED <<given, leases, reader>>

RemoveLock(k) ==
    /\ task.token = k
    /\ Become(MoveToList(Unlock(Store), "wait"))
    /\ UNCHANGED <<given, leases, reader>>

Report(k) ==
    /\ \E s \in SyncAll(Store) :
        /\ s.task.token = k
        /\ \E t \in FailTask(s) \cup Settle(s, "completed") : Become(t)
    /\ UNCHANGED <<given, leases, reader>>

\* removeTask of a task without a lease, and forceRemoveTask of any.
RemoveTask ==
    /\ \E s \in SyncAll(Store) : s.task.generation # 0 /\ Become(DeleteTask(s))
    /\ UNCHANGED <<given, leases, reader>>

\* appendProgress does not sweep: it looks at the deadline itself.
MayAppend_AnyToken(k) == task.lease = "live" /\ task.list = "active"
MayAppend(k) ==
    /\ task.token = k
    /\ task.lease = "live"
    /\ task.list = "active"
    /\ ~task.settled
AppendProgress(k) ==
    /\ MayAppend(k)
    /\ Become(AppendHistory(Store, "progress", task.attempt, leases[k]))
    /\ UNCHANGED <<given, leases, reader>>

-----------------------------------------------------------------------------
(* Readers. *)

\* What readHistory answers: a page, or one of the errors of TaskHistory.ts.
Answers == {"ok", "unavailable", "expired", "invalid", "corrupt"}

NoCursor == [sequence |-> 0, id |-> -1]
Cursor(sequence, id) == [sequence |-> sequence, id |-> id]

\* after: the cursor that the next page starts from; saved: the cursor that the
\* client finds again when it crashes; seen and lost: the entries it was given,
\* and those that it was told are gone.
NewReader(g) == [generation |-> g, after |-> NoCursor, saved |-> NoCursor,
                 seen |-> {}, lost |-> {}, answer |-> "ok"]

\* What effectmq_readHistory says to a cursor of the stored generation.
Verdict(c) ==
    CASE c = NoCursor -> "ok"
      [] c # NoCursor /\ c.sequence > task.sequence -> "invalid"
      [] c # NoCursor /\ c.sequence < task.trimmed -> "expired"
      [] c # NoCursor /\ c.sequence = task.trimmed ->
             IF c.id = task.trimmedId THEN "ok" ELSE "invalid"
      [] OTHER ->
             IF \E n \in DOMAIN log : log[n].id = c.id /\ log[n].sequence = c.sequence
             THEN "ok" ELSE "invalid"

\* The boundary from which a reader without a cursor starts.
Boundary_Newest == Cursor(task.sequence, lastId)
Boundary == Cursor(task.trimmed, task.trimmedId)

\* XRANGE (id, COUNT Limit: the stream is in the order of its ids, and the page
\* begins with the first entry after the cursor's position.
PageAfter(c) ==
    LET first == CHOOSE k \in 1..(Len(log) + 1) :
                    \A n \in DOMAIN log : n >= k <=> log[n].id > c.id
        last == first + Limit - 1
    IN SubSeq(log, first, IF last < Len(log) THEN last ELSE Len(log))

\* The script's reply as the client's answer; disabled histories and foreign
\* schemas are left out.
HistoryReply(c) == IF task.generation # c.generation THEN "unavailable" ELSE Verdict(c.after)

\* decodeRecord: the entry must be one of the generation that was asked for.
DecodeRecord(entry, generation) ==
    IF entry.generation = generation /\ entry.sequence >= 1 THEN "ok" ELSE "corrupt"

\* The client checks that a page continues from where the server says it does.
Contiguous(page, sequence) ==
    \A n \in DOMAIN page : page[n].sequence = sequence + n

\* readHistory: one call of the script, and the client's checks of its page.
ReadHistory(r) ==
    LET c == reader[r]
        from == IF c.after = NoCursor THEN Boundary ELSE c.after
        page == PageAfter(from)
        last == page[Len(page)]
        readable == /\ \A n \in DOMAIN page : DecodeRecord(page[n], c.generation) = "ok"
                    /\ Contiguous(page, from.sequence)
        answer == IF HistoryReply(c) = "ok" /\ ~readable THEN "corrupt" ELSE HistoryReply(c)
        answered == [c EXCEPT !.answer = answer]
    IN /\ c.generation # 0
       /\ reader' = [reader EXCEPT ![r] =
            CASE answer = "expired" ->
                   [answered EXCEPT !.after = Boundary,
                                    !.lost = @ \cup (c.after.sequence + 1)..task.trimmed]
              [] answer = "ok" ->
                   [answered EXCEPT
                      !.after = IF page # <<>> THEN Cursor(last.sequence, last.id) ELSE from,
                      !.lost = IF c.after = NoCursor THEN 1..task.trimmed ELSE @,
                      !.seen = @ \cup {page[n].sequence : n \in DOMAIN page}]
              [] OTHER -> answered]
       /\ UNCHANGED <<task, log, lastId, given, leases>>

\* A client is handed a handle of the newest generation.
Follow(r) ==
    /\ given > reader[r].generation
    /\ reader' = [reader EXCEPT ![r] = NewReader(given)]
    /\ UNCHANGED <<task, log, lastId, given, leases>>

\* It stores the cursor that it has come to, or starts again from the stored one.
Save(r) ==
    /\ reader[r].after # NoCursor
    /\ reader' = [reader EXCEPT ![r].saved = reader[r].after]
    /\ UNCHANGED <<task, log, lastId, given, leases>>

Restart(r) ==
    LET c == reader[r]
        Known(S) == S \cap 1..c.saved.sequence
    IN /\ reader' = [reader EXCEPT ![r] =
              [c EXCEPT !.after = c.saved, !.seen = Known(@), !.lost = Known(@)]]
       /\ UNCHANGED <<task, log, lastId, given, leases>>

-----------------------------------------------------------------------------

Init ==
    /\ task = NoTask
    /\ log = <<>>
    /\ lastId = 0
    /\ given = 0
    /\ leases = <<>>
    /\ reader = [r \in Readers |-> NewReader(0)]

Operation ==
    \/ Maintain \/ OfferTask \/ TakeTask \/ Age \/ RemoveTask
    \/ \E k \in DOMAIN leases :
           ExtendLock(k) \/ RemoveLock(k) \/ Report(k) \/ AppendProgress(k)

Read(r) == ReadHistory(r) \/ Follow(r) \/ Save(r) \/ Restart(r)

Next == (lastId < MaxEntries /\ Operation) \/ \E r \in Readers : Read(r)

Spec == Init /\ [][Next]_vars

-----------------------------------------------------------------------------
(* Properties. *)

\* Everything has its type, and the history stays within its cap.
TypeOK ==
    /\ task \in [generation : 0..MaxGen, settled : BOOLEAN, attempt : Nat,
                 list : {"wait", "scheduled", "active", "success", "none"},
                 token : 0..MaxLeases, lease : {"live", "due", "gone"},
                 sequence : Nat, trimmed : Nat, trimmedId : Nat]
    /\ log \in Seq(Entry) /\ Len(log) <= MaxHistoryEntries
    /\ lastId \in Nat
    /\ given \in 0..MaxGen
    /\ leases \in Seq(Nat) /\ Len(leases) <= MaxLeases
    /\ reader \in [Readers ->
           [generation : 0..MaxGen,
            after : [sequence : Nat, id : Nat \cup {-1}],
            saved : [sequence : Nat, id : Nat \cup {-1}],
            seen : SUBSET Nat, lost : SUBSET Nat,
            answer : Answers]]

\* What assertHistory demands before every append holds of itself: the counters
\* agree with the stream, whose entries are the newest ones without a gap, and
\* the boundary is the id of the last entry that was evicted.
HistoryIntact ==
    /\ Len(log) = task.sequence - task.trimmed
    /\ \A n \in DOMAIN log :
           /\ log[n].sequence = task.trimmed + n
           /\ log[n].generation = task.generation
           /\ (IF n = 1 THEN task.trimmedId ELSE log[n - 1].id) < log[n].id
           /\ log[n].id <= lastId

\* The history is intact, and a cursor that it once gave out is not refused as foreign,
\* and no page skips an entry: however much was appended and trimmed since, the
\* reader can go on, or is told to go on from the earliest entry.
CursorsHonoured ==
    /\ TypeOK /\ HistoryIntact
    /\ \A r \in Readers : reader[r].answer \notin {"invalid", "corrupt"}

\* A reader that passes each cursor on, and after a crash the one it had saved,
\* was given every entry up to its cursor, except those it was told are lost.
PagesComplete ==
    \A r \in Readers :
        LET c == reader[r]
        IN c.seen \cup c.lost = 1..c.after.sequence /\ c.seen \cap c.lost = {}

\* Progress stands in the history under the attempt that reported it, and before
\* the entry that ends this attempt: a handler that has lost its lease, or whose
\* task was settled, adds nothing to what its successors report.
ProgressFenced ==
    \A n \in DOMAIN log : log[n].tag = "progress" =>
        /\ log[n].by = log[n].attempt
        /\ \A m \in 1..(n - 1) :
               log[m].tag \in Terminal => log[m].attempt < log[n].attempt
===============================================================================
