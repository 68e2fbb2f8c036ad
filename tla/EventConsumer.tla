---------------------------- MODULE EventConsumer ----------------------------
(***************************************************************************)
(* Consumers on top of the event engine: EventQueue.processOne, which      *)
(* takes a delivery, runs a handler against a heartbeat and acknowledges   *)
(* or releases it, and EventQueue.runMaintenance, the loop that sweeps.    *)
(* Both reach the engine through the client of EventEngine.ts, whose every *)
(* call may fail before or after its script has run (IndeterminateWrite),  *)
(* or run and answer with something that cannot be decoded.                *)
(*                                                                         *)
(* The engine's operations are those of EventEngine, run by somebody here: *)
(* a call is one step when it is answered at once, and a renewal, which    *)
(* may be overtaken by the end of its handler, is two, with the request on *)
(* its way in between.  `outcome` says for every delivery that was given   *)
(* out how the call that got it ended; nothing in the code reads it.       *)
(* `work` says which of the consumers run and which events are published   *)
(* with which lifetimes, so that an instance has many of the one or of the *)
(* other.                                                                  *)
(*                                                                         *)
(* Left out: the contents of events, and inputs that the client refuses    *)
(* before it calls.                                                        *)
(***************************************************************************)
EXTENDS EventEngine

CONSTANTS
    Consumers,      \* fibers that call processOne again and again
    LeaseMs,        \* options.leaseMs
    RetryDelayMs,   \* options.retryDelayMs
    Workloads,      \* bound: which consumers run, and what is published
    MaxFaults       \* bound: calls that fail, handlers that die, pauses

ASSUME OptionsAssumption ==
    /\ LeaseMs \in Nat \ {0, 1}
    /\ RetryDelayMs \in Nat
    /\ LeaseTimes = {LeaseMs} /\ Delays = {RetryDelayMs}
ASSUME WorkloadsAssumption ==
    Workloads \subseteq [crew : SUBSET Consumers, offers : SUBSET (Events \X Lifetimes)]

VARIABLES call, wire, outcome, loop, faults, work

consumers == <<call, wire, outcome, loop, faults, work>>
everything == <<vars, consumers>>

\* options.renewEveryMs when it is not given; it is always below LeaseMs.
RenewEveryMs_Late == LeaseMs
RenewEveryMs == IF LeaseMs < 3 THEN 1 ELSE LeaseMs \div 3

-----------------------------------------------------------------------------
(* Calls. *)

\* A call of processOne: its subscription, its delivery, and when its
\* heartbeat renews next (Out while a renewal is on its way).
Call ==
    [phase : {"idle", "taking", "handling", "releasing", "acknowledging"},
     g : 0..MaxGen, k : 0..MaxLeases, beat : Score]
Idle == [phase |-> "idle", g |-> 0, k |-> 0, beat |-> Out]
Outcomes ==
    {"running", "unclaimed", "handled", "true", "released", "failed", "indeterminate"}

In(c, phase) == call[c].phase = phase
Handling(c) == In(c, "handling")

\* Something the environment does to a call, of which there are so many.
Fault == faults < MaxFaults /\ faults' = faults + 1 /\ UNCHANGED work
NoFault == UNCHANGED <<faults, work>>

EndsAs(c, result) ==
    /\ call' = [call EXCEPT ![c] = Idle]
    /\ outcome' = IF call[c].k = 0 THEN outcome ELSE [outcome EXCEPT ![call[c].k] = result]

\* What acknowledge, renew and release do to the store when they refuse.
Refuses(k) == ~Holds(Normalize(db, {leases[k][1]}), k) /\ Get(leases[k][1])

\* Nothing reached the engine.
NotSent == UNCHANGED vars

-----------------------------------------------------------------------------
(* processOne. *)

\* With the subscription that its program made last, which may be gone.
Begin(c) ==
    /\ In(c, "idle") /\ c \in work.crew /\ handles # <<>>
    /\ call' = [call EXCEPT ![c] = [Idle EXCEPT !.phase = "taking", !.g = Len(handles)]]
    /\ UNCHANGED <<vars, wire, outcome, loop, faults, work>>

\* take with its answer: a delivery, null or SubscriptionMissing.
Taken(c) ==
    LET g == call[c].g
    IN /\ In(c, "taking")
       /\ \/ ~Registered(db, g) /\ NotSent
          \/ Take(g, LeaseMs)
       /\ IF leases' # leases
          THEN /\ call' = [call EXCEPT ![c].phase = "handling",
                                       ![c].k = Len(leases'), ![c].beat = db.now]
               /\ outcome' = Append(outcome, "running")
          ELSE /\ call' = [call EXCEPT ![c] = Idle]
               /\ UNCHANGED outcome
       /\ NoFault
       /\ UNCHANGED <<wire, loop>>

\* take without one that is of use: it was not sent, its reply is lost, or the
\* payload cannot be decoded.  A delivery that was leased stays so.
TakeFails(c) ==
    /\ In(c, "taking")
    /\ NotSent \/ Take(call[c].g, LeaseMs)
    /\ call' = [call EXCEPT ![c] = Idle]
    /\ outcome' = IF leases' # leases THEN Append(outcome, "unclaimed") ELSE outcome
    /\ Fault
    /\ UNCHANGED <<wire, loop>>

\* The heartbeat renews at once and then at a distance from each answer.  (At
\* the bound of the clock, when nothing is due any more, it fires all the same.)
Overdue(c) == Handling(c) /\ Reached(call[c].beat, db.now)
Beat(c) ==
    /\ Handling(c) /\ call[c].beat # Out
    /\ call[c].beat <= db.now \/ db.now = MaxTime
    /\ call' = [call EXCEPT ![c].beat = Out]
    /\ wire' = wire \cup {call[c].k}
    /\ UNCHANGED <<vars, outcome, loop, faults, work>>

\* A renewal arrives, whether or not its handler still runs; refused, it ends
\* the handler without a release.
Waiting(k) == {c \in Consumers : Handling(c) /\ call[c].k = k}
StopWaiting(k) ==
    /\ call' = [c \in Consumers |-> IF c \in Waiting(k) THEN Idle ELSE call[c]]
    /\ outcome' = IF Waiting(k) = {} THEN outcome ELSE [outcome EXCEPT ![k] = "failed"]
StopWaiting_Never(k) ==
    /\ call' = [c \in Consumers |-> IF c \in Waiting(k)
                                    THEN [call[c] EXCEPT !.beat = db.now + RenewEveryMs]
                                    ELSE call[c]]
    /\ UNCHANGED outcome
RenewalRefused_Ignored(k) == Refuses(k) /\ StopWaiting_Never(k)
RenewalRefused(k) == Refuses(k) /\ StopWaiting(k)
RenewalArrives(k) ==
    /\ k \in wire
    /\ wire' = wire \ {k}
    /\ \/ /\ Renew(k, LeaseMs)
          /\ call' = [c \in Consumers |-> IF c \in Waiting(k)
                         THEN [call[c] EXCEPT !.beat = db.now + RenewEveryMs]
                         ELSE call[c]]
          /\ UNCHANGED outcome
       \/ RenewalRefused(k)
    /\ NoFault
    /\ UNCHANGED loop

\* A failed renewal is not tried again: it ends the handler as well.
RenewalFails(k) ==
    /\ k \in wire
    /\ wire' = wire \ {k}
    /\ NotSent \/ Renew(k, LeaseMs)
    /\ StopWaiting(k)
    /\ Fault
    /\ UNCHANGED loop

\* The handler ends first; a renewal that is on its way stays there.
HandlerEnds(c, ok) ==
    /\ Handling(c)
    /\ call' = [call EXCEPT ![c].phase = IF ok THEN "acknowledging" ELSE "releasing",
                            ![c].beat = Out]
    /\ outcome' = IF ok THEN [outcome EXCEPT ![call[c].k] = "handled"] ELSE outcome
    /\ UNCHANGED <<vars, wire, loop, faults, work>>

\* The process dies, or the handler with a defect: nobody releases the delivery.
Dies(c) ==
    /\ ~In(c, "idle")
    /\ EndsAs(c, "indeterminate")
    /\ Fault
    /\ UNCHANGED <<vars, wire, loop>>

Released(c) ==
    /\ In(c, "releasing")
    /\ \/ Release(call[c].k, RetryDelayMs) /\ EndsAs(c, "released")
       \/ Refuses(call[c].k) /\ EndsAs(c, "failed")
    /\ NoFault
    /\ UNCHANGED <<wire, loop>>
ReleaseFails(c) ==
    /\ In(c, "releasing")
    /\ NotSent \/ Release(call[c].k, RetryDelayMs)
    /\ EndsAs(c, "failed")
    /\ Fault
    /\ UNCHANGED <<wire, loop>>

\* acknowledge answers `gone` for an event that is not kept: processOne fails.
Verdict_GoneIsFine(k) ==
    IF Normalize(db, {leases[k][1]}).event[leases[k][1]].status = "absent"
    THEN "true" ELSE "failed"
Verdict(k) == "failed"
Acknowledged(c) ==
    /\ In(c, "acknowledging")
    /\ \/ Acknowledge(call[c].k) /\ EndsAs(c, "true")
       \/ Refuses(call[c].k) /\ EndsAs(c, Verdict(call[c].k))
    /\ NoFault
    /\ UNCHANGED <<wire, loop>>
AcknowledgeFails(c) ==
    /\ In(c, "acknowledging")
    /\ NotSent \/ Acknowledge(call[c].k)
    /\ EndsAs(c, "indeterminate")
    /\ Fault
    /\ UNCHANGED <<wire, loop>>

-----------------------------------------------------------------------------
(* Everybody else. *)

\* runMaintenance sweeps and sleeps; a failed sweep ends the loop, which its
\* program starts again.
Maintained ==
    /\ loop = "sweeping" /\ loop' = "asleep"
    /\ Maintain
    /\ UNCHANGED <<call, wire, outcome, faults, work>>
MaintenanceFails ==
    /\ loop = "sweeping" /\ loop' = "ended"
    /\ NotSent \/ Maintain
    /\ Fault
    /\ UNCHANGED <<call, wire, outcome>>
RunMaintenance ==
    /\ loop \in {"asleep", "ended"} /\ loop' = "sweeping"
    /\ UNCHANGED <<vars, call, wire, outcome, faults, work>>

\* Publishers and subscribers.
Others ==
    /\ \/ \E n \in Names : Subscribe(n)
       \/ \E e \in Events, ttl \in Lifetimes : <<e, ttl>> \in work.offers /\ Emit(e, ttl)
       \/ \E g \in DOMAIN handles : Unsubscribe(g)
    /\ UNCHANGED consumers

\* Time passes while nobody is late, or while somebody is.
Late == wire # {} \/ \E c \in Consumers : Overdue(c)
Passes == ~Late /\ Tick /\ UNCHANGED consumers
Pauses == Late /\ Tick /\ Fault /\ UNCHANGED <<call, wire, outcome, loop>>

EInit ==
    /\ Init
    /\ call = [c \in Consumers |-> Idle]
    /\ wire = {}
    /\ outcome = <<>>
    /\ loop = "asleep"
    /\ faults = 0
    /\ work \in Workloads

\* What a consumer does of its own accord, and what happens to it.
Proceeds(c) == Begin(c) \/ Taken(c) \/ Beat(c) \/ Released(c) \/ Acknowledged(c)
Suffers(c) == TakeFails(c) \/ Dies(c) \/ ReleaseFails(c) \/ AcknowledgeFails(c)

ENext ==
    \/ \E c \in Consumers :
          \/ Proceeds(c)
          \/ Suffers(c)
          \/ \E ok \in BOOLEAN : HandlerEnds(c, ok)
    \/ \E k \in wire : RenewalArrives(k) \/ RenewalFails(k)
    \/ Maintained \/ MaintenanceFails \/ RunMaintenance
    \/ Others
    \/ Passes \/ Pauses

\* When a consumer has something to do.
CanProceed(c) ==
    \/ In(c, "idle") /\ c \in work.crew /\ handles # <<>>
    \/ Handling(c) /\ call[c].beat # Out /\ (call[c].beat <= db.now \/ db.now = MaxTime)
    \/ call[c].phase \in {"taking", "releasing", "acknowledging"}

\* Calls are answered, timers fire, and the program goes on calling processOne
\* and starts its maintenance loop again.  Handlers need not end.  (This is
\* weak fairness with the conditions written out.  Time passes only so often, and
\* a renewal that arrives has left the wire, so that the conditions say it all;
\* and the call of a consumer moves on for ever only if it proceeds for ever,
\* because what else changes it is bounded or answers one of its requests.)
ESpec == EInit /\ [][ENext]_everything
EFairSpec ==
    /\ ESpec
    /\ []<>(db.now = MaxTime \/ Late)
    /\ []<>(loop = "sweeping") /\ []<>(loop # "sweeping")
    /\ \A k \in 1..MaxLeases : []<>(k \notin wire)
    /\ \A c \in Consumers : []<>~CanProceed(c) \/ []<><<call'[c] # call[c]>>_everything

-----------------------------------------------------------------------------
(* Properties. *)

\* What processOne tells its caller is so.  At most one call returns true for
\* an event and a subscription, and then the record says so for as long as it
\* is kept; nothing is acknowledged whose handler had not succeeded under that
\* very lease; and a delivery that was released is free of the lease, even if
\* a renewal of it is still on its way.
OutcomesTruthful ==
    /\ call \in [Consumers -> Call]
    /\ outcome \in Seq(Outcomes) /\ Len(outcome) = Len(leases)
    /\ \A k \in DOMAIN leases :
          LET e == leases[k][1]
              r == db.event[e].recipients[leases[k][2]]
          IN /\ outcome[k] = "true" =>
                   /\ \/ db.event[e].status = "absent"
                      \/ r.status = "acknowledged" /\ r.token = k
                   /\ \A n \in DOMAIN leases \ {k} :
                         leases[n] = leases[k] => outcome[n] # "true"
             /\ r.status = "acknowledged" /\ r.token = k =>
                   outcome[k] \in {"true", "indeterminate"}
             /\ outcome[k] = "released" => r.token # k

\* While requests are answered at once a heartbeat keeps its lease: a handler
\* loses its delivery only to the event's deadline, to the end of its
\* subscription or to a pause.  (OptionsAssumption: renewals are closer than
\* the lease is long, and the first one does not wait.)
HeartbeatHolds ==
    \A c \in Consumers :
        LET e == leases[call[c].k][1]
        IN /\ Handling(c) /\ faults = 0
           /\ Registered(db, call[c].g)
           /\ Normal(db, e).status = "active"
           => Holds(db, call[c].k)

\* A handler whose delivery is no longer its own is interrupted.
ZombieStops ==
    \A c \in Consumers, k \in 1..MaxLeases :
        LET Runs == k \in DOMAIN leases /\ Handling(c) /\ call[c].k = k
        IN Runs /\ ~Holds(db, k) ~> ~Runs

\* However many wait for sweeps of a few at a time, each of each kind gets its
\* turn, also when the maintenance loop fails in between: an event whose deadline
\* has passed is settled, one whose archive is over is deleted, an obligation of
\* a removed subscription is waived, and then the subscription is forgotten.
\* Work that is examined without being retired would keep the rest out.
\* (P ~> ~P is []<>~P.)
BacklogClears ==
    LET Expiring(e) == db.event[e].status = "active" /\ Reached(db.event[e].expiresAt, db.now)
        Outlived(e) == Settled(db.event[e]) /\ Reached(db.event[e].archiveUntil, db.now)
        Waivable(e, g) == /\ db.event[e].status = "active" /\ g \in Pending(db.event[e])
                          /\ ~Registered(db, g)
    IN /\ \A e \in Events :
             /\ []<>~Expiring(e)
             /\ []<>~Outlived(e)
             /\ \A g \in Gens : []<>~Waivable(e, g)
       /\ \A g \in Gens : []<>(db.retired[g] = Out)
===============================================================================
