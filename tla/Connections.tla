------------------------------ MODULE Connections ------------------------------
(***************************************************************************)
(* The Redis boundary of effectmq: src/NodeRedisPool.ts opens one pool per *)
(* role when its layer is built, keeps a passive health record per role    *)
(* and closes the pools with the layer's scope; src/RedisPool.ts runs a    *)
(* script by digest and loads it again once when Redis does not know it;   *)
(* src/TaskEngine.ts calls every operation through that and classifies     *)
(* what comes back.                                                        *)
(*                                                                         *)
(* Everything a caller does not control is here: the server restarts or    *)
(* fails over with an empty script cache between any two commands, a       *)
(* connection breaks before or after its command was executed, node-redis  *)
(* emits `error` and `reconnecting` whenever it likes, a role fails to     *)
(* connect after others have, and the scope is closed at any time.  One    *)
(* script stands for all: a pool keeps a digest per source and they do not *)
(* interact.  Metrics, logs, counters and times of the health record are   *)
(* left out.                                                               *)
(***************************************************************************)
EXTENDS Integers, FiniteSets

CONSTANTS
    Callers,        \* fibers that call the engine
    CallRoles,      \* the roles they call it through
    Ops,            \* the operations they call
    Topologies,     \* the topologies a layer is configured with
    PoolSizes,      \* minimum and maximum of a configured pool
    Clustered,      \* values of cluster_enabled a server may have
    MaxCalls,       \* bound: calls begun
    MaxFaults       \* bound: crashes, flushes, breaks and events

Mutating == {"createTask", "takeTask", "writeSuccess", "writeError", "removeTask",
             "forceRemoveTask", "extendLock", "removeLock", "setSchedule",
             "consumeSchedule", "maintain", "appendProgress"}
Reading == {"getTask", "getGeneration", "getResult", "listTasks", "eventCursors",
            "readHistory"}
Leased == {"writeSuccess", "writeError", "extendLock", "removeLock", "appendProgress"}

ASSUME OpsAssumption == Ops \subseteq Mutating \cup Reading
ASSUME ConfigAssumption ==
    /\ Topologies \subseteq {"standalone", "sentinel", "cluster"}
    /\ CallRoles \subseteq {"producer", "worker", "maintenance"}
    /\ PoolSizes \subseteq Int \X Int
    /\ Clustered \subseteq BOOLEAN
ASSUME BoundsAssumption == {MaxCalls, MaxFaults} \subseteq Nat

VARIABLES
    server,     \* is it up, is it a cluster, does its cache hold the script
    scope,      \* the layer's scope, and why its build failed
    client,     \* the node-redis pool of each role
    listening,  \* are the pool's listeners installed
    fatal,      \* roles whose error event nobody listened to
    health,     \* the passive health record
    digests,    \* roles whose pool has cached the script's digest
    call,       \* the evalScript a caller is in, or its last one
    probe,      \* the readiness probe: progress, answer, was it disturbed
    subscriber, \* the dedicated pub/sub connection
    made, faults

vars == <<server, scope, client, listening, fatal, health, digests, call, probe,
          subscriber, made, faults>>
wires == <<server, call, probe, made, digests>>
layer == <<scope, client, listening, fatal>>

-----------------------------------------------------------------------------
Roles == {"producer", "worker", "maintenance"}
Order == [producer |-> 1, worker |-> 2, maintenance |-> 3]
Before(r) == {q \in Roles : Order[q] < Order[r]}
Health == {"disconnected", "connecting", "ready", "degraded"}
Open(r) == client[r] \notin {"none", "closed"}

\* net: what is on the wire, at the end the last answer; ran: how often the script
\* was executed; reloaded: this is the second attempt; cached: whether this call
\* loaded the script, and the cache was emptied after that; known: whether
\* transportPattern knows the wording of the error.
NoCall == [op |-> "none", role |-> "none", stage |-> "idle", net |-> "none",
           reloaded |-> FALSE, cached |-> "no", ran |-> 0, known |-> TRUE,
           outcome |-> "none"]
InFlight(c) == call[c].stage \in {"load", "invoke"}
Refusals == {"LEASE_LOST", "STORAGE_RELATIONSHIP_LIMIT", "ERR"}

Fault == faults < MaxFaults /\ faults' = faults + 1

-----------------------------------------------------------------------------
(* Building the layer: every role is connected before anything is exposed. *)

ValidPool(size) ==
    /\ size[1] >= 1
    /\ size[2] >= size[1]
    /\ size[2] <= 1000

Refused(topology, size) ==
    IF topology = "cluster" THEN "UnsupportedRedisTopology"
    ELSE IF topology = "standalone" /\ ~ValidPool(size)
         THEN "InvalidRedisConfiguration"
         ELSE "none"

Build(topology, size) ==
    /\ scope.state = "unbuilt"
    /\ scope' = LET why == Refused(topology, size)
                IN [state |-> IF why = "none" THEN "building" ELSE "over", failure |-> why]
    /\ UNCHANGED <<client, listening, fatal, wires, health, subscriber, faults>>

\* The listeners go on before connect: an error event without one is fatal.
Create_Deaf(r) ==
    /\ scope.state = "building"
    /\ client[r] = "none"
    /\ \A q \in Before(r) : client[q] = "ready"
    /\ client' = [client EXCEPT ![r] = "connecting"]
    /\ health' = [health EXCEPT ![r] = "connecting"]
    /\ UNCHANGED <<listening, scope, fatal, wires, subscriber, faults>>
Create(r) ==
    /\ scope.state = "building"
    /\ client[r] = "none"
    /\ \A q \in Before(r) : client[q] = "ready"
    /\ client' = [client EXCEPT ![r] = "connecting"]
    /\ listening' = listening \cup {r}
    /\ health' = [health EXCEPT ![r] = "connecting"]
    /\ UNCHANGED <<scope, fatal, wires, subscriber, faults>>

\* connect, then INFO cluster; the last role's success exposes the services.
Connected(r) ==
    /\ scope.state = "building"
    /\ client[r] = "connecting"
    /\ server.up
    /\ client' = [client EXCEPT ![r] = "ready"]
    /\ IF server.cluster
       THEN /\ scope' = [state |-> "closing", failure |-> "UnsupportedRedisTopology"]
            /\ UNCHANGED health
       ELSE /\ health' = [health EXCEPT ![r] = "ready"]
            /\ scope' = [scope EXCEPT !.state = IF r = "maintenance" THEN "open" ELSE @]
    /\ UNCHANGED <<listening, fatal, wires, subscriber, faults>>

ConnectFails(r) ==
    /\ scope.state = "building"
    /\ client[r] = "connecting"
    /\ Fault
    /\ scope' = [state |-> "closing", failure |-> "RedisError"]
    /\ UNCHANGED <<client, listening, fatal, wires, health, subscriber>>

\* The finalizers, last role first: the listeners come off, then the pool is
\* asked to close and, when that fails, destroyed.
Close ==
    /\ scope.state \in {"building", "open"}
    /\ scope' = [scope EXCEPT !.state = "closing"]
    /\ UNCHANGED <<client, listening, fatal, wires, health, subscriber, faults>>

LastOpen(r) == Open(r) /\ \A q \in Roles : Open(q) => q \in Before(r) \cup {r}

Unlisten(r) ==
    /\ scope.state = "closing"
    /\ LastOpen(r)
    /\ client[r] # "closing"
    /\ listening' = listening \ {r}
    /\ client' = [client EXCEPT ![r] = "closing"]
    /\ UNCHANGED <<scope, fatal, wires, health, subscriber, faults>>

Closed(r) ==
    /\ client[r] = "closing"
    /\ client' = [client EXCEPT ![r] = "closed"]
    /\ UNCHANGED <<scope, listening, fatal, wires, health, subscriber, faults>>

Over_Early ==
    /\ scope.state = "closing"
    /\ \E r \in Roles : client[r] = "closed"
    /\ scope' = [scope EXCEPT !.state = "over"]
    /\ UNCHANGED <<client, listening, fatal, wires, health, subscriber, faults>>
Over ==
    /\ scope.state = "closing"
    /\ \A r \in Roles : ~Open(r)
    /\ scope' = [scope EXCEPT !.state = "over"]
    /\ UNCHANGED <<client, listening, fatal, wires, health, subscriber, faults>>

-----------------------------------------------------------------------------
(* What the server, the network and node-redis do on their own. *)

Emptied == [c \in Callers |-> [call[c] EXCEPT !.cached = IF @ = "yes" THEN "emptied" ELSE @]]

Crash ==
    /\ server.up
    /\ Fault
    /\ server' = [server EXCEPT !.up = FALSE, !.loaded = FALSE]
    /\ call' = Emptied
    /\ UNCHANGED <<layer, health, digests, probe, subscriber, made>>

Restart ==
    /\ ~server.up
    /\ server' = [server EXCEPT !.up = TRUE]
    /\ UNCHANGED <<layer, health, digests, call, probe, subscriber, made, faults>>

\* SCRIPT FLUSH, or a failover to a replica that never loaded the script.
Flush ==
    /\ server.loaded
    /\ Fault
    /\ server' = [server EXCEPT !.loaded = FALSE]
    /\ call' = Emptied
    /\ UNCHANGED <<layer, health, digests, probe, subscriber, made>>

Noted(r, state) ==
    /\ health' = [health EXCEPT ![r] = state]
    /\ probe' = [probe EXCEPT !.disturbed = TRUE]

ErrorEvent(r) ==
    /\ Open(r)
    /\ Fault
    /\ IF r \in listening
       THEN Noted(r, "degraded") /\ UNCHANGED fatal
       ELSE fatal' = fatal \cup {[role |-> r, was |-> client[r]]} /\ UNCHANGED <<health, probe>>
    /\ UNCHANGED <<scope, client, listening, server, call, digests, subscriber, made>>

TopologyEvent(r) ==
    /\ Open(r)
    /\ r \in listening
    /\ Fault
    /\ Noted(r, "connecting")
    /\ UNCHANGED <<layer, server, call, digests, subscriber, made>>

-----------------------------------------------------------------------------
(* One call: evalScript, with the commands it sends one after the other. *)

Begin(c, op, r) ==
    /\ scope.state = "open"
    /\ ~InFlight(c)
    /\ made < MaxCalls
    /\ made' = made + 1
    /\ call' = [call EXCEPT ![c] =
                   [NoCall EXCEPT !.op = op, !.role = r, !.net = "sent",
                                  !.stage = IF r \in digests THEN "invoke" ELSE "load"]]
    /\ UNCHANGED <<layer, server, health, digests, probe, subscriber, faults>>

\* The server takes a command: SCRIPT LOAD, or EVALSHA, which executes nothing
\* when the digest is unknown and may refuse before it writes anything.
Serve(c) ==
    /\ InFlight(c)
    /\ call[c].net = "sent"
    /\ server.up
    /\ client[call[c].role] \in {"ready", "closing"}
    /\ \/ /\ call[c].stage = "load"
          /\ server' = [server EXCEPT !.loaded = TRUE]
          /\ call' = [call EXCEPT ![c].net = "ok", ![c].cached = "yes"]
       \/ /\ call[c].stage = "invoke"
          /\ UNCHANGED server
          /\ \/ ~server.loaded /\ call' = [call EXCEPT ![c].net = "NOSCRIPT"]
             \/ server.loaded /\ call' = [call EXCEPT ![c].net = "ok", ![c].ran = @ + 1]
             \/ /\ server.loaded
                /\ \E no \in Refusals :
                       /\ no = "LEASE_LOST" => call[c].op \in Leased
                       /\ no = "STORAGE_RELATIONSHIP_LIMIT" => call[c].op = "createTask"
                       /\ call' = [call EXCEPT ![c].net = no]
    /\ UNCHANGED <<layer, health, digests, probe, subscriber, made, faults>>

\* classifyRedisFailure: by what the diagnostic text says, in this order.
Classify(op, text, known) ==
    CASE text = "STORAGE_RELATIONSHIP_LIMIT" -> "RelationshipLimit"
      [] text = "LEASE_LOST" -> "LeaseLost"
      [] text = "transport" /\ known ->
             IF op \in Mutating THEN "IndeterminateCommit" ELSE "TransportFailure"
      [] OTHER -> "ScriptFailure"

Ended(k, outcome) == [k EXCEPT !.stage = "done", !.outcome = outcome]

Load_Cached(k) == [k EXCEPT !.stage = "invoke", !.net = "sent", !.reloaded = TRUE]
Load(k) == [k EXCEPT !.stage = "load", !.net = "sent", !.reloaded = TRUE]
Invoke(k) == [k EXCEPT !.stage = "invoke", !.net = "sent"]

Reloads_Always(k, text) == ~k.reloaded
Reloads(k, text) == text = "NOSCRIPT" /\ ~k.reloaded

\* A command failed: health notes it, whatever the failure; a digest that Redis
\* does not know is loaded again, once.
Failed(c, text, known) ==
    /\ Noted(call[c].role, "degraded")
    /\ call' = [call EXCEPT ![c] =
                   IF Reloads(@, text) THEN Load(@)
                   ELSE Ended([@ EXCEPT !.net = text, !.known = known], Classify(@.op, text, known))]
    /\ UNCHANGED digests

Succeeded_Sticky(r) == [health EXCEPT ![r] = IF @ = "degraded" THEN @ ELSE "ready"]
Succeeded(r) == [health EXCEPT ![r] = "ready"]

Receive(c) ==
    /\ InFlight(c)
    /\ \/ /\ call[c].net = "ok"
          /\ health' = Succeeded(call[c].role)
          /\ UNCHANGED probe
          /\ IF call[c].stage = "load"
             THEN /\ digests' = digests \cup {call[c].role}
                  /\ call' = [call EXCEPT ![c] = Invoke(@)]
             ELSE /\ call' = [call EXCEPT ![c] = Ended(@, "ok")]
                  /\ UNCHANGED digests
       \/ /\ call[c].net \in Refusals \cup {"NOSCRIPT"}
          /\ Failed(c, call[c].net, TRUE)
    /\ UNCHANGED <<layer, server, subscriber, made, faults>>

\* The connection breaks, or the pool is destroyed, under a command that may or
\* may not have been executed.
Break(c) ==
    /\ InFlight(c)
    /\ IF Open(call[c].role) THEN Fault ELSE UNCHANGED faults
    /\ \E known \in BOOLEAN : Failed(c, "transport", known)
    /\ UNCHANGED <<layer, server, subscriber, made>>

-----------------------------------------------------------------------------
(* Readiness: PING through the three pools, one after the other. *)

StartProbe ==
    /\ scope.state = "open"
    /\ probe.next = 0
    /\ probe' = [next |-> 1, answer |-> "none", disturbed |-> FALSE]
    /\ UNCHANGED <<layer, server, call, digests, made, health, subscriber, faults>>

Pong ==
    \E r \in Roles :
        /\ probe.next = Order[r]
        /\ client[r] = "ready"
        /\ server.up
        /\ health' = Succeeded(r)
        /\ probe' = IF r = "maintenance"
                    THEN [probe EXCEPT !.next = 0, !.answer = "ready"]
                    ELSE [probe EXCEPT !.next = @ + 1]
        /\ UNCHANGED <<layer, server, call, digests, made, subscriber, faults>>

PingFails ==
    \E r \in Roles :
        /\ probe.next = Order[r]
        /\ Fault
        /\ health' = [health EXCEPT ![r] = "degraded"]
        /\ probe' = [next |-> 0, answer |-> "none", disturbed |-> TRUE]
        /\ UNCHANGED <<layer, server, call, digests, made, subscriber>>

Snapshot == \A r \in Roles : health[r] = "ready"

-----------------------------------------------------------------------------
(* Pub/sub: a connection of its own, owned by the caller's scope, with a      *)
(* deferred that tells the subscriber when node-redis has given it up.        *)

Subscribe ==
    /\ scope.state = "open"
    /\ subscriber.state = "none"
    /\ subscriber' = [subscriber EXCEPT !.state = "connecting", !.open = TRUE]
    /\ UNCHANGED <<layer, wires, health, faults>>

Subscribed ==
    /\ subscriber.state = "connecting"
    /\ server.up
    /\ subscriber' = [subscriber EXCEPT !.state = "live"]
    /\ UNCHANGED <<layer, wires, health, faults>>

\* An error of a client that is still open is one it recovers from.
SubscriberGone ==
    /\ subscriber.open
    /\ subscriber.state \in {"connecting", "live"}
    /\ Fault
    /\ subscriber' = [subscriber EXCEPT !.open = FALSE, !.terminal = TRUE]
    /\ UNCHANGED <<layer, wires, health>>

\* The scope that owns the subscription ends, or connecting has failed.
Unsubscribe ==
    /\ subscriber.state \in {"connecting", "live"}
    /\ subscriber' = [subscriber EXCEPT !.state = "released", !.open = FALSE]
    /\ UNCHANGED <<layer, wires, health, faults>>

-----------------------------------------------------------------------------
Init ==
    /\ server \in [up : {TRUE}, cluster : Clustered, loaded : {FALSE}]
    /\ scope = [state |-> "unbuilt", failure |-> "none"]
    /\ client = [r \in Roles |-> "none"]
    /\ listening = {}
    /\ fatal = {}
    /\ health = [r \in Roles |-> "disconnected"]
    /\ digests = {}
    /\ call = [c \in Callers |-> NoCall]
    /\ probe = [next |-> 0, answer |-> "none", disturbed |-> FALSE]
    /\ subscriber = [state |-> "none", open |-> FALSE, terminal |-> FALSE]
    /\ made = 0
    /\ faults = 0

Layer ==
    \/ \E t \in Topologies, p \in PoolSizes : Build(t, p)
    \/ \E r \in Roles :
           Create(r) \/ Connected(r) \/ ConnectFails(r) \/ Unlisten(r) \/ Closed(r)
    \/ Close
    \/ Over

World ==
    \/ Crash \/ Restart \/ Flush
    \/ \E r \in Roles : ErrorEvent(r) \/ TopologyEvent(r)

Calling(c) ==
    \/ \E op \in Ops, r \in CallRoles : Begin(c, op, r)
    \/ Serve(c)
    \/ Receive(c)
    \/ Break(c)

\* An error event that nobody listens to ends the process.
Next ==
    /\ fatal = {}
    /\ \/ Layer
       \/ World
       \/ \E c \in Callers : Calling(c)
       \/ StartProbe \/ Pong \/ PingFails
       \/ Subscribe \/ Subscribed \/ SubscriberGone \/ Unsubscribe

Spec == Init /\ [][Next]_vars

-----------------------------------------------------------------------------
(* Properties. *)

TypeOK ==
    /\ server \in [up : BOOLEAN, cluster : BOOLEAN, loaded : BOOLEAN]
    /\ scope \in [state : {"unbuilt", "building", "open", "closing", "over"},
                  failure : {"none", "RedisError", "UnsupportedRedisTopology",
                             "InvalidRedisConfiguration"}]
    /\ client \in [Roles -> {"none", "connecting", "ready", "closing", "closed"}]
    /\ listening \subseteq Roles
    /\ fatal \subseteq [role : Roles, was : {"connecting", "ready", "closing"}]
    /\ health \in [Roles -> Health]
    /\ digests \subseteq Roles
    /\ call \in [Callers ->
           [op : Ops \cup {"none"}, role : Roles \cup {"none"},
            stage : {"idle", "load", "invoke", "done"},
            net : Refusals \cup {"none", "sent", "ok", "NOSCRIPT", "transport"},
            reloaded : BOOLEAN, cached : {"no", "yes", "emptied"}, ran : Nat,
            known : BOOLEAN,
            outcome : {"none", "ok", "LeaseLost", "RelationshipLimit", "ScriptFailure",
                       "TransportFailure", "IndeterminateCommit"}]]
    /\ probe \in [next : 0..3, answer : {"none", "ready"}, disturbed : BOOLEAN]
    /\ subscriber \in [state : {"none", "connecting", "live", "released"},
                       open : BOOLEAN, terminal : BOOLEAN]
    /\ {made, faults} \subseteq Nat

\* Whatever happens to the cache, the server and the connection, a call executes
\* its script at most once, and its caller can rely on what it is told: success
\* means executed; a lost lease, a relationship limit and a script failure mean
\* not executed; a broken connection leaves a write open and only a read is
\* called failed.  The exception is an error whose wording transportPattern does
\* not know: it is called a script failure although the write may be there.
CallsTruthful ==
    \A c \in Callers :
        LET k == call[c]
        IN /\ k.ran <= 1
           /\ k.outcome = "ok" => k.ran = 1
           /\ k.outcome \in {"LeaseLost", "RelationshipLimit"} => k.ran = 0
           /\ k.outcome = "ScriptFailure" /\ k.known => k.ran = 0
           /\ k.outcome = "TransportFailure" => k.op \in Reading

\* A digest that went stale while nobody looked (a restart, a flush, a failover)
\* costs a reload and not a failure: a call fails for an unknown script only when
\* the cache was emptied again after the call itself had loaded it.
MissesHealed ==
    \A c \in Callers :
        call[c].stage = "done" /\ call[c].net = "NOSCRIPT" => call[c].cached = "emptied"

\* The layer is all or nothing: it exposes its services with three pools that
\* are connected to a server that is no cluster, and whatever ended it, half
\* built or not, leaves no pool open and no listener installed.  An error event,
\* which would end the process, finds a listener at any time but one: between the
\* removal of the listeners and the end of a graceful close.  A subscriber that
\* node-redis has given up has been told.
ScopeSound ==
    /\ TypeOK
    /\ scope.state = "open" => ~server.cluster /\ \A r \in Roles : client[r] = "ready"
    /\ scope.state = "over" => listening = {} /\ \A r \in Roles : ~Open(r)
    /\ \A f \in fatal : f.was = "closing"
    /\ subscriber.state = "live" /\ ~subscriber.open => subscriber.terminal

\* The passive snapshot recovers by being probed: after a readiness probe that
\* answered true it is ready, whatever it had recorded before, unless something
\* went wrong since the probe began.
ProbeHeals ==
    probe.next = 0 /\ probe.answer = "ready" /\ ~probe.disturbed => Snapshot
===============================================================================
