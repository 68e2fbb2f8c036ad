---------------------------- MODULE EventBroadcast ----------------------------
(***************************************************************************)
(* What an event queue promises its users (docs/events.md), with nothing   *)
(* of how it is stored: an event is owed to the subscriptions of the moment *)
(* it is emitted, each of them resolves its own obligation by acknowledging *)
(* it or by leaving, and the event has completed at the instant the last   *)
(* obligation is resolved, or expired at the instant of its deadline.      *)
(*                                                                         *)
(* Here everything happens on time.  EventEngine does most of it late, in  *)
(* bounded sweeps, and shows that nobody can tell.                         *)
(***************************************************************************)
EXTENDS Integers

CONSTANTS
    Events,             \* event ids
    Gens,               \* subscription generations
    Lifetimes,          \* the lifetimes an emission may ask for; Never for none
    Archive,            \* onCompletion is "archive", not "delete"
    ArchiveRetention,   \* archiveRetentionMs; Never for no end
    Never               \* the null of a duration or a time

VARIABLES now, members, event

vars == <<now, members, event>>

Absent ==
    [status |-> "absent", pending |-> {}, acknowledged |-> {}, waived |-> {},
     expiresAt |-> Never, settledAt |-> Never]

After(t, d) == IF d = Never THEN Never ELSE t + d

Reached(t, time) == t # Never /\ t <= time

\* g has resolved its obligation, in one way or the other.
Acknowledged(r, g) == [r EXCEPT !.pending = @ \ {g}, !.acknowledged = @ \cup {g}]
Waived(r, g) == [r EXCEPT !.pending = @ \ {g}, !.waived = @ \cup {g}]

\* A settled event, for as long as it is retained.
Retained(r, time) ==
    IF Archive /\ ~Reached(After(r.settledAt, ArchiveRetention), time) THEN r ELSE Absent

Close(r, status, at, time) ==
    Retained([r EXCEPT !.status = status, !.settledAt = at], time)

\* An active event whose obligations have just changed.
Judge(r, time) ==
    IF r.status = "active" /\ r.pending = {} THEN Close(r, "completed", time, time)
    ELSE IF r.status = "active" /\ Reached(r.expiresAt, time)
         THEN Close(r, "expired", r.expiresAt, time)
    ELSE IF r.status \in {"completed", "expired"} THEN Retained(r, time)
    ELSE r

Init ==
    /\ now = 0
    /\ members = {}
    /\ event = [e \in Events |-> Absent]

Subscribe(g) ==
    /\ members' = members \cup {g}
    /\ UNCHANGED <<now, event>>

\* A subscription that leaves waives all it still owes, at once.
Unsubscribe(g) ==
    /\ g \in members
    /\ members' = members \ {g}
    /\ event' = [e \in Events |->
           IF g \in event[e].pending /\ event[e].status = "active"
           THEN Judge(Waived(event[e], g), now)
           ELSE event[e]]
    /\ UNCHANGED now

Emit(e, ttl) ==
    /\ event[e] = Absent
    /\ event' = [event EXCEPT ![e] =
           Judge([Absent EXCEPT !.status = "active", !.pending = members,
                                !.expiresAt = After(now, ttl)], now)]
    /\ UNCHANGED <<now, members>>

Acknowledge(e, g) ==
    /\ event[e].status = "active"
    /\ g \in event[e].pending \cap members
    /\ event' = [event EXCEPT ![e] = Judge(Acknowledged(@, g), now)]
    /\ UNCHANGED <<now, members>>

\* Time passes: deadlines are met and retention ends.
Tick ==
    /\ now' = now + 1
    /\ event' = [e \in Events |-> Judge(event[e], now + 1)]
    /\ UNCHANGED members

Next ==
    \/ \E g \in Gens : Subscribe(g) \/ Unsubscribe(g)
    \/ \E e \in Events :
           \/ \E ttl \in Lifetimes : Emit(e, ttl)
           \/ \E g \in Gens : Acknowledge(e, g)
    \/ Tick

Spec == Init /\ [][Next]_vars
===============================================================================
