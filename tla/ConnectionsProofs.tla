--------------------------- MODULE ConnectionsProofs ---------------------------
(***************************************************************************)
(* Proofs about Connections, for all callers, roles, operations, pool      *)
(* sizes and bounds.                                                       *)
(*                                                                         *)
(* The inductive invariant has one part for each thing that the four       *)
(* properties relate:                                                      *)
(*   Truthful   where a call is in evalScript, what is on the wire and how *)
(*              often its script was executed;                             *)
(*   Cached     what a call that loaded the script knows of the cache;     *)
(*   Layered    the pools a layer has at each point of its life, and which *)
(*              of them are listened to;                                   *)
(*   Probed     the roles that a readiness probe has already healed;       *)
(*   Told       a subscriber whose connection is gone.                     *)
(***************************************************************************)
EXTENDS Connections, TLAPS

-----------------------------------------------------------------------------
(* The invariant. *)

Calls ==
    [op : Ops \cup {"none"}, role : Roles \cup {"none"},
     stage : {"idle", "load", "invoke", "done"},
     net : Refusals \cup {"none", "sent", "ok", "NOSCRIPT", "transport"},
     reloaded : BOOLEAN, cached : {"no", "yes", "emptied"}, ran : Nat,
     known : BOOLEAN,
     outcome : {"none", "ok", "LeaseLost", "RelationshipLimit", "ScriptFailure",
                "TransportFailure", "IndeterminateCommit"}]

Truthful(k) ==
    /\ k.stage # "done" => k.outcome = "none"
    /\ k.stage # "idle" => k.op \in Ops /\ k.role \in Roles
    /\ k.stage = "idle" => k.ran = 0
    /\ k.stage = "load" => k.ran = 0 /\ k.net \in {"sent", "ok"}
    /\ k.stage = "invoke" =>
          /\ k.net \in Refusals \cup {"sent", "ok", "NOSCRIPT"}
          /\ k.ran = IF k.net = "ok" THEN 1 ELSE 0
    /\ k.stage = "done" =>
          /\ k.ran \in {0, 1}
          /\ k.outcome = "ok" => k.ran = 1
          /\ k.outcome \in {"LeaseLost", "RelationshipLimit"} => k.ran = 0
          /\ k.outcome = "ScriptFailure" /\ k.known => k.ran = 0
          /\ k.outcome = "TransportFailure" => k.op \in Reading

Cached(k) ==
    /\ k.cached = "yes" => server.loaded
    /\ k.stage = "load" /\ k.net = "ok" => k.cached # "no"
    /\ k.stage = "invoke" /\ k.reloaded => k.cached # "no"
    /\ k.stage = "invoke" /\ k.net = "NOSCRIPT" => k.cached # "yes"
    /\ k.stage = "done" /\ k.net = "NOSCRIPT" => k.cached = "emptied"

Layered ==
    /\ \A r \in Roles : client[r] \in {"connecting", "ready"} <=> r \in listening
    /\ scope.state = "unbuilt" => \A r \in Roles : client[r] = "none"
    /\ scope.state = "building" => \A r \in Roles :
          /\ client[r] \in {"none", "connecting", "ready"}
          /\ client[r] = "ready" => ~server.cluster
          /\ client[r] # "none" => \A q \in Before(r) : client[q] = "ready"
    /\ scope.state = "open" => ~server.cluster /\ \A r \in Roles : client[r] = "ready"
    /\ scope.state = "over" => \A r \in Roles : ~Open(r)
    /\ \A f \in fatal : f.was = "closing"

Probed ==
    /\ scope.state \in {"unbuilt", "building"} => probe.next = 0 /\ probe.answer = "none"
    /\ ~probe.disturbed =>
          \A r \in Roles :
              \/ Order[r] < probe.next
              \/ probe.next = 0 /\ probe.answer = "ready"
              => health[r] = "ready"

Told == subscriber.state \in {"connecting", "live"} /\ ~subscriber.open => subscriber.terminal

CallsSound ==
    /\ call \in [Callers -> Calls]
    /\ \A c \in Callers : Truthful(call[c]) /\ Cached(call[c])

Inv ==
    /\ TypeOK
    /\ CallsSound
    /\ Layered
    /\ Probed
    /\ Told

-----------------------------------------------------------------------------
(* The bounds, and the order in which the pools are opened and closed. *)

\* Faults are counted in whole numbers.
LEMMA FaultCounted == ASSUME TypeOK, Fault PROVE faults' \in Nat
  BY DEF TypeOK, Fault

\* The roles, and the order in which they are opened.
LEMMA RolesOrdered ==
    /\ Roles = {"producer", "worker", "maintenance"}
    /\ CallRoles \subseteq Roles
    /\ Order["producer"] = 1 /\ Order["worker"] = 2 /\ Order["maintenance"] = 3
    /\ Before("producer") = {}
    /\ Before("worker") = {"producer"}
    /\ Before("maintenance") = {"producer", "worker"}
<1>1. Order["producer"] = 1 /\ Order["worker"] = 2 /\ Order["maintenance"] = 3
  BY DEF Order
<1> QED
  BY <1>1, ConfigAssumption DEF Roles, Before

-----------------------------------------------------------------------------
(* A call, one step at a time. *)

\* classifyRedisFailure blames the transport for nothing that the server has said.
LEMMA ClassifyKnown ==
  ASSUME NEW op \in Ops, NEW text, NEW known \in BOOLEAN
  PROVE  LET o == Classify(op, text, known)
         IN /\ o \in {"LeaseLost", "RelationshipLimit", "ScriptFailure",
                      "TransportFailure", "IndeterminateCommit"}
            /\ o \in {"LeaseLost", "RelationshipLimit"} => text # "transport"
            /\ o = "ScriptFailure" /\ known => text # "transport"
            /\ o = "TransportFailure" => text = "transport" /\ op \in Reading
<1>1. op \in Mutating \cup Reading
  BY OpsAssumption
<1> QED
  BY <1>1 DEF Classify

\* A call that has ended is a call.
LEMMA EndedTyped ==
  ASSUME NEW k \in Calls,
         NEW o \in {"ok", "LeaseLost", "RelationshipLimit", "ScriptFailure",
                    "TransportFailure", "IndeterminateCommit"}
  PROVE  Ended(k, o) \in Calls
  BY DEF Ended, Calls

\* So is one whose script has run.
LEMMA ExecutedTyped ==
  ASSUME NEW k \in Calls
  PROVE  [k EXCEPT !.net = "ok", !.ran = 1] \in Calls
<1>1. [k EXCEPT !.net = "ok"] \in Calls
  BY DEF Calls
<1>2. ASSUME NEW u \in Calls PROVE [u EXCEPT !.ran = 1] \in Calls
  <2>1. 1 \in Nat
    OBVIOUS
  <2> QED
    BY <2>1, Zenon DEF Calls
<1> QED
  BY <1>1, <1>2

\* What Failed makes of a call: it is loaded again, or ended.
AfterFailure(k, text, known) ==
    IF Reloads(k, text) THEN Load(k)
    ELSE Ended([k EXCEPT !.net = text, !.known = known], Classify(k.op, text, known))

\* What evalScript does about a failure: it ends the call with the truth, or sends it again.
LEMMA FailureSound ==
  ASSUME NEW k \in Calls, Truthful(k), Cached(k),
         k.stage \in {"load", "invoke"},
         NEW known \in BOOLEAN,
         NEW text,
         \/ text = "transport"
         \/ /\ text \in Refusals \cup {"NOSCRIPT"}
            /\ k.net = text
  PROVE  LET u == AfterFailure(k, text, known)
         IN u \in Calls /\ Truthful(u) /\ Cached(u)
<1> DEFINE u == AfterFailure(k, text, known)
           o == Classify(k.op, text, known)
<1>1. k.op \in Ops /\ k.role \in Roles /\ k.ran \in {0, 1}
  BY DEF Truthful, Calls
<1>2. text # "transport" => k.ran = 0 /\ k.stage = "invoke"
  BY DEF Truthful, Refusals
<1>3. CASE Reloads(k, text)
  <2>1. u = [k EXCEPT !.stage = "load", !.net = "sent", !.reloaded = TRUE]
    BY <1>3 DEF AfterFailure, Load
  <2>2. text = "NOSCRIPT" /\ k.ran = 0 /\ k.outcome = "none"
    BY <1>2, <1>3 DEF Reloads, Truthful
  <2> QED
    BY <1>1, <2>1, <2>2 DEF Calls, Truthful, Cached
<1>4. CASE ~Reloads(k, text)
  <2>1. u = [k EXCEPT !.net = text, !.known = known, !.stage = "done", !.outcome = o]
    BY <1>4 DEF AfterFailure, Ended, Calls
  <2>2. /\ o \in {"LeaseLost", "RelationshipLimit", "ScriptFailure",
                  "TransportFailure", "IndeterminateCommit"}
        /\ o \in {"LeaseLost", "RelationshipLimit"} => text # "transport"
        /\ o = "ScriptFailure" /\ known => text # "transport"
        /\ o = "TransportFailure" => k.op \in Reading
    BY <1>1, ClassifyKnown
  <2>3. u \in Calls
    <3> DEFINE v == [k EXCEPT !.net = text, !.known = known]
    <3>1. text \in Refusals \cup {"none", "sent", "ok", "NOSCRIPT", "transport"}
      OBVIOUS
    <3>2. v \in Calls
      BY <3>1 DEF Calls
    <3>3. o \in {"LeaseLost", "RelationshipLimit", "ScriptFailure",
                  "TransportFailure", "IndeterminateCommit"}
      BY <2>2
    <3>4. u = Ended(v, o)
      BY <1>4 DEF AfterFailure
    <3> HIDE DEF o, u, v
    <3> QED
      BY <3>2, <3>3, <3>4, EndedTyped
  <2>4. u.stage = "done" /\ u.outcome = o /\ u.ran = k.ran /\ u.op = k.op /\ u.role = k.role
        /\ u.known = known /\ u.net = text /\ u.cached = k.cached
    BY <2>1 DEF Calls
  <2>5. Truthful(u)
    BY <1>1, <1>2, <2>2, <2>4 DEF Truthful
  <2>6. text = "NOSCRIPT" => k.cached = "emptied"
    <3> SUFFICES ASSUME text = "NOSCRIPT" PROVE k.cached = "emptied"
      OBVIOUS
    <3>1. k.stage = "invoke" /\ k.net = "NOSCRIPT" /\ k.reloaded
      BY <1>2, <1>4 DEF Reloads, Calls
    <3> QED
      BY <3>1 DEF Cached, Calls
  <2>7. Cached(u)
    BY <2>4, <2>6 DEF Cached
  <2> QED
    BY <2>3, <2>5, <2>7
<1> QED
  BY <1>3, <1>4

\* Without a command of its own, a call only sees the cache being filled or kept.
LEMMA CallsKept ==
  ASSUME CallsSound, UNCHANGED call, server.loaded => server'.loaded
  PROVE  CallsSound'
  BY DEF CallsSound, Cached, Truthful

\* A server that forgets its scripts leaves every call with what it knows.
LEMMA EmptiedSound ==
  ASSUME CallsSound, call' = Emptied, server'.loaded = FALSE
  PROVE  CallsSound'
<1> SUFFICES ASSUME NEW c \in Callers
             PROVE  call'[c] \in Calls /\ Truthful(call'[c]) /\ Cached(call[c])'
  BY DEF CallsSound, Emptied
<1>1. call'[c] = [call[c] EXCEPT !.cached = IF @ = "yes" THEN "emptied" ELSE @]
  BY DEF Emptied
<1>2. call[c] \in Calls /\ Truthful(call[c]) /\ Cached(call[c])
  BY DEF CallsSound
<1> QED
  BY <1>1, <1>2 DEF Calls, Truthful, Cached

\* A call that ends, or goes on, leaves the others alone.
LEMMA OneCallReplaced ==
  ASSUME CallsSound, NEW c \in Callers, NEW u, call' = [call EXCEPT ![c] = u],
         server' = server, u \in Calls, Truthful(u), Cached(u)
  PROVE  CallsSound'
  BY DEF CallsSound, Cached

\* A new call has run nothing.
LEMMA BeginSound ==
  ASSUME CallsSound, NEW c \in Callers, NEW op \in Ops, NEW r \in CallRoles, Begin(c, op, r)
  PROVE  CallsSound'
<1>1. server' = server /\ r \in Roles
  BY RolesOrdered DEF Begin, wires
<1>2. PICK s \in {"invoke", "load"} :
        call' = [call EXCEPT ![c] = [NoCall EXCEPT !.op = op, !.role = r, !.net = "sent",
                                                   !.stage = s]]
  BY DEF Begin
<1> DEFINE u == [NoCall EXCEPT !.op = op, !.role = r, !.net = "sent", !.stage = s]
<1>3. u \in Calls
  BY <1>1 DEF Calls, NoCall
<1>4. Truthful(u) /\ Cached(u)
  BY <1>1 DEF Truthful, Cached, NoCall
<1> HIDE DEF u
<1> QED
  BY <1>1, <1>2, <1>3, <1>4, OneCallReplaced DEF u

\* What the wire says is what the server did.
LEMMA ServeSound ==
  ASSUME TypeOK, CallsSound, NEW c \in Callers, Serve(c)
  PROVE  CallsSound'
<1>1. call[c] \in Calls /\ Truthful(call[c]) /\ Cached(call[c]) /\ call[c].net = "sent"
  BY DEF Serve, CallsSound
<1>2. CASE call[c].stage = "load"
  <2>1. server' = [server EXCEPT !.loaded = TRUE]
        /\ call' = [call EXCEPT ![c].net = "ok", ![c].cached = "yes"]
    BY <1>2 DEF Serve
  <2>2. server'.loaded = TRUE
    BY <2>1 DEF TypeOK
  <2>3. call'[c] = [call[c] EXCEPT !.net = "ok", !.cached = "yes"]
    BY <2>1 DEF CallsSound
  <2>4. call'[c] \in Calls /\ Truthful(call'[c]) /\ Cached(call[c])'
    BY <1>1, <1>2, <2>2, <2>3 DEF Calls, Truthful, Cached
  <2> QED
    BY <2>1, <2>2, <2>4 DEF CallsSound, Cached
<1>3. CASE call[c].stage = "invoke"
  <2>1. server' = server
    BY <1>3 DEF Serve
  <2>2. \/ ~server.loaded /\ call' = [call EXCEPT ![c].net = "NOSCRIPT"]
        \/ call' = [call EXCEPT ![c].net = "ok", ![c].ran = @ + 1]
        \/ \E no \in Refusals : call' = [call EXCEPT ![c].net = no]
    BY <1>3 DEF Serve
  <2>3. call[c].ran = 0
    BY <1>1, <1>3 DEF Truthful
  <2>4. call'[c] \in Calls /\ Truthful(call'[c]) /\ Cached(call[c])'
    <3>1. CASE ~server.loaded /\ call' = [call EXCEPT ![c].net = "NOSCRIPT"]
      <4>1. call'[c] = [call[c] EXCEPT !.net = "NOSCRIPT"]
        BY <3>1 DEF CallsSound
      <4> QED
        BY <1>1, <1>3, <2>1, <2>3, <3>1, <4>1 DEF Calls, Truthful, Cached
    <3>2. CASE call' = [call EXCEPT ![c].net = "ok", ![c].ran = @ + 1]
      <4>1. call'[c] = [call[c] EXCEPT !.net = "ok", !.ran = 1]
        BY <2>3, <3>2 DEF CallsSound
      <4>2. call'[c] \in Calls
        BY <1>1, <4>1, ExecutedTyped
      <4> QED
        <5>1. Truthful(call'[c])
          BY <1>1, <1>3, <4>1 DEF Calls, Truthful
        <5>2. Cached(call[c])'
          BY <1>1, <1>3, <2>1, <4>1 DEF Calls, Cached
        <5> QED
          BY <4>2, <5>1, <5>2
    <3>3. ASSUME NEW no \in Refusals, call' = [call EXCEPT ![c].net = no]
          PROVE  call'[c] \in Calls /\ Truthful(call'[c]) /\ Cached(call[c])'
      <4>1. call'[c] = [call[c] EXCEPT !.net = no]
        BY <3>3 DEF CallsSound
      <4>2. no \notin {"ok", "NOSCRIPT"}
        BY DEF Refusals
      <4> QED
        BY <1>1, <1>3, <2>1, <2>3, <4>1, <4>2 DEF Calls, Truthful, Cached
    <3> QED
      BY <2>2, <3>1, <3>2, <3>3
  <2>5. \A d \in Callers \ {c} : call'[d] = call[d]
    BY <2>2 DEF CallsSound
  <2>6. call' \in [Callers -> Calls]
    BY <2>2, <2>4, <2>5 DEF CallsSound
  <2> QED
    BY <2>1, <2>4, <2>5, <2>6 DEF CallsSound, Cached
<1> QED
  BY <1>2, <1>3 DEF Serve

\* A call that fails tells the truth, whether the server refused it or the connection broke.
LEMMA FailedSound ==
  ASSUME CallsSound, NEW c \in Callers, InFlight(c), server' = server, NEW known \in BOOLEAN,
         NEW text, Failed(c, text, known),
         \/ text = "transport"
         \/ text \in Refusals \cup {"NOSCRIPT"} /\ call[c].net = text
  PROVE  CallsSound'
<1>1. call' = [call EXCEPT ![c] = AfterFailure(call[c], text, known)]
  BY DEF Failed, AfterFailure
<1>2. call[c] \in Calls /\ Truthful(call[c]) /\ Cached(call[c])
  BY DEF CallsSound
<1>3. call[c].stage \in {"load", "invoke"}
  BY DEF InFlight
<1>4. LET u == AfterFailure(call[c], text, known)
      IN u \in Calls /\ Truthful(u) /\ Cached(u)
  BY <1>2, <1>3, FailureSound
<1> QED
  BY <1>1, <1>4, OneCallReplaced

\* A reply tells of the call that it belongs to.
LEMMA ReceiveSound ==
  ASSUME CallsSound, NEW c \in Callers, Receive(c)
  PROVE  CallsSound'
<1>1. server' = server /\ InFlight(c)
  BY DEF Receive
<1>2. call[c] \in Calls /\ Truthful(call[c]) /\ Cached(call[c])
  BY DEF CallsSound
<1>3. CASE call[c].net = "ok" /\ call[c].stage = "load"
  <2>1. call' = [call EXCEPT ![c] = Invoke(call[c])]
    BY <1>3 DEF Receive, Refusals
  <2>2. Invoke(call[c]) \in Calls /\ Truthful(Invoke(call[c])) /\ Cached(Invoke(call[c]))
    BY <1>2, <1>3 DEF Invoke, Calls, Truthful, Cached, Refusals
  <2> QED
    BY <1>1, <2>1, <2>2, OneCallReplaced
<1>4. CASE call[c].net = "ok" /\ call[c].stage = "invoke"
  <2>1. call' = [call EXCEPT ![c] = Ended(call[c], "ok")]
    BY <1>4 DEF Receive, Refusals
  <2> DEFINE u == Ended(call[c], "ok")
  <2>2. u \in Calls
    BY <1>2, EndedTyped
  <2>3. u.stage = "done" /\ u.outcome = "ok" /\ u.net = "ok" /\ u.ran = 1
        /\ u.op \in Ops /\ u.role \in Roles /\ u.cached = call[c].cached
    BY <1>2, <1>4 DEF Ended, Calls, Truthful
  <2> HIDE DEF u
  <2>4. Truthful(u) /\ Cached(u)
    BY <1>2, <2>3 DEF Truthful, Cached
  <2> QED
    BY <1>1, <2>1, <2>2, <2>4, OneCallReplaced DEF u
<1>5. CASE call[c].net \in Refusals \cup {"NOSCRIPT"}
  <2>1. Failed(c, call[c].net, TRUE)
    BY <1>5 DEF Receive, Refusals
  <2> QED
    BY <1>1, <1>5, <2>1, FailedSound
<1> QED
  BY <1>1, <1>3, <1>4, <1>5 DEF Receive, InFlight

\* A broken connection tells nothing of the script.
LEMMA BreakSound ==
  ASSUME CallsSound, NEW c \in Callers, Break(c)
  PROVE  CallsSound'
  BY FailedSound DEF Break

\* Every step keeps what is known of the calls.
LEMMA CallsStep ==
  ASSUME TypeOK, CallsSound, Next
  PROVE  CallsSound'
<1>1. CASE Layer
  BY <1>1, CallsKept DEF Layer, Build, Create, Connected, ConnectFails, Close, Unlisten,
     Closed, Over, wires
<1>2. CASE World
  <2>1. CASE Crash
    BY <2>1, EmptiedSound DEF Crash, TypeOK
  <2>2. CASE Flush
    BY <2>2, EmptiedSound DEF Flush, TypeOK
  <2>3. CASE Restart
    BY <2>3, CallsKept DEF Restart, TypeOK
  <2>4. CASE \E r \in Roles : ErrorEvent(r) \/ TopologyEvent(r)
    BY <2>4, CallsKept DEF ErrorEvent, TopologyEvent
  <2> QED
    BY <1>2, <2>1, <2>2, <2>3, <2>4 DEF World
<1>3. ASSUME NEW c \in Callers, Calling(c) PROVE CallsSound'
  BY <1>3, BeginSound, ServeSound, ReceiveSound, BreakSound DEF Calling
<1>4. CASE StartProbe \/ Pong \/ PingFails
  BY <1>4, CallsKept DEF StartProbe, Pong, PingFails
<1>5. CASE Subscribe \/ Subscribed \/ SubscriberGone \/ Unsubscribe
  BY <1>5, CallsKept DEF Subscribe, Subscribed, SubscriberGone, Unsubscribe, wires
<1> QED
  BY <1>1, <1>2, <1>3, <1>4, <1>5 DEF Next

-----------------------------------------------------------------------------
(* Types, but for the calls. *)

LayerTyped ==
    /\ server \in [up : BOOLEAN, cluster : BOOLEAN, loaded : BOOLEAN]
    /\ scope \in [state : {"unbuilt", "building", "open", "closing", "over"},
                  failure : {"none", "RedisError", "UnsupportedRedisTopology",
                             "InvalidRedisConfiguration"}]
    /\ client \in [Roles -> {"none", "connecting", "ready", "closing", "closed"}]
    /\ listening \subseteq Roles
    /\ fatal \subseteq [role : Roles, was : {"connecting", "ready", "closing"}]

UseTyped ==
    /\ health \in [Roles -> Health]
    /\ digests \subseteq Roles
    /\ probe \in [next : 0..3, answer : {"none", "ready"}, disturbed : BOOLEAN]
    /\ subscriber \in [state : {"none", "connecting", "live", "released"},
                       open : BOOLEAN, terminal : BOOLEAN]
    /\ {made, faults} \subseteq Nat

\* The type invariant is that of the layer, of its use and of the calls.
LEMMA TypeParts == TypeOK <=> LayerTyped /\ UseTyped /\ call \in [Callers -> Calls]
  BY DEF TypeOK, LayerTyped, UseTyped, Calls

\* Every step keeps the types of the layer.
LEMMA LayerTypedStep ==
  ASSUME TypeOK, Next
  PROVE  LayerTyped'
<1>1. LayerTyped
  BY TypeParts
<1>2. CASE Layer
  <2>1. ASSUME NEW t \in Topologies, NEW p \in PoolSizes, Build(t, p) PROVE LayerTyped'
    BY <1>1, <2>1 DEF LayerTyped, Build, Refused, wires
  <2>2. ASSUME NEW r \in Roles, Create(r) PROVE LayerTyped'
    BY <1>1, <2>2 DEF LayerTyped, Create, wires
  <2>3. ASSUME NEW r \in Roles, Connected(r) PROVE LayerTyped'
    BY <1>1, <2>3 DEF LayerTyped, Connected, wires
  <2>4. ASSUME NEW r \in Roles, ConnectFails(r) PROVE LayerTyped'
    BY <1>1, <2>4 DEF LayerTyped, ConnectFails, wires
  <2>5. ASSUME NEW r \in Roles, Unlisten(r) PROVE LayerTyped'
    BY <1>1, <2>5 DEF LayerTyped, Unlisten, wires
  <2>6. ASSUME NEW r \in Roles, Closed(r) PROVE LayerTyped'
    BY <1>1, <2>6 DEF LayerTyped, Closed, wires
  <2>7. CASE Close \/ Over
    BY <1>1, <2>7 DEF LayerTyped, Close, Over, wires
  <2> QED
    BY <1>2, <2>1, <2>2, <2>3, <2>4, <2>5, <2>6, <2>7 DEF Layer
<1>3. CASE World
  <2>1. CASE Crash \/ Restart \/ Flush
    BY <1>1, <2>1 DEF LayerTyped, Crash, Restart, Flush, layer
  <2>2. ASSUME NEW r \in Roles, ErrorEvent(r) PROVE LayerTyped'
    <3>1. client[r] \in {"connecting", "ready", "closing"}
      BY <1>1, <2>2 DEF LayerTyped, ErrorEvent, Open
    <3>2. fatal' \subseteq fatal \cup {[role |-> r, was |-> client[r]]}
      BY <2>2 DEF ErrorEvent
    <3> QED
      BY <1>1, <2>2, <3>1, <3>2 DEF LayerTyped, ErrorEvent
  <2>3. ASSUME NEW r \in Roles, TopologyEvent(r) PROVE LayerTyped'
    BY <1>1, <2>3 DEF LayerTyped, TopologyEvent, layer
  <2> QED
    BY <1>3, <2>1, <2>2, <2>3 DEF World
<1>4. ASSUME NEW c \in Callers, Calling(c) PROVE LayerTyped'
  <2>1. CASE Serve(c)
    BY <1>1, <2>1 DEF LayerTyped, Serve, layer
  <2> QED
    BY <1>1, <1>4, <2>1 DEF LayerTyped, Calling, Begin, Receive, Break, layer
<1>5. CASE StartProbe \/ Pong \/ PingFails
  BY <1>1, <1>5 DEF LayerTyped, StartProbe, Pong, PingFails, layer
<1>6. CASE Subscribe \/ Subscribed \/ SubscriberGone \/ Unsubscribe
  BY <1>1, <1>6 DEF LayerTyped, Subscribe, Subscribed, SubscriberGone, Unsubscribe, layer, wires
<1> QED
  BY <1>2, <1>3, <1>4, <1>5, <1>6 DEF Next

\* What is noted in a health record disturbs a probe that is under way.
LEMMA NotedTyped ==
  ASSUME UseTyped, NEW r \in Roles, NEW state \in Health, Noted(r, state)
  PROVE  /\ health' \in [Roles -> Health]
         /\ probe' \in [next : 0..3, answer : {"none", "ready"}, disturbed : BOOLEAN]
         /\ probe'.disturbed
  BY DEF UseTyped, Noted

\* Every step keeps the types of the health records and of the probe.
LEMMA UseTypedStep ==
  ASSUME TypeOK, CallsSound, Next
  PROVE  UseTyped'
<1>1. UseTyped
  BY TypeParts
<1>2. Fault => faults' \in Nat
  BY FaultCounted
<1>3. ASSUME NEW r \in Roles PROVE Succeeded(r) \in [Roles -> Health]
  BY <1>1 DEF UseTyped, Succeeded, Health
<1>4. CASE Layer
  <2>1. ASSUME NEW r \in Roles, ConnectFails(r) PROVE UseTyped'
    BY <1>1, <1>2, <2>1 DEF UseTyped, ConnectFails, wires
  <2>2. ASSUME NEW r \in Roles, Create(r) \/ Connected(r) PROVE UseTyped'
    <3>1. health' \in [Roles -> Health]
      BY <1>1, <2>2 DEF UseTyped, Create, Connected, Health
    <3> QED
      BY <1>1, <2>2, <3>1 DEF UseTyped, Create, Connected, wires
  <2> QED
    BY <1>1, <1>4, <2>1, <2>2 DEF UseTyped, Layer, Build, Unlisten, Closed, Close, Over, wires
<1>5. CASE World
  <2>1. CASE Crash \/ Restart \/ Flush
    BY <1>1, <1>2, <2>1 DEF UseTyped, Crash, Restart, Flush, layer
  <2>2. ASSUME NEW r \in Roles, ErrorEvent(r) \/ TopologyEvent(r) PROVE UseTyped'
    <3>1. /\ health' \in [Roles -> Health]
          /\ probe' \in [next : 0..3, answer : {"none", "ready"}, disturbed : BOOLEAN]
      BY <1>1, <2>2, NotedTyped DEF UseTyped, ErrorEvent, TopologyEvent, Health
    <3> QED
      BY <1>1, <1>2, <2>2, <3>1 DEF UseTyped, ErrorEvent, TopologyEvent
  <2> QED
    BY <1>5, <2>1, <2>2 DEF World
<1>6. ASSUME NEW c \in Callers, Calling(c) PROVE UseTyped'
  <2>1. ASSUME NEW op \in Ops, NEW r \in CallRoles, Begin(c, op, r) PROVE UseTyped'
    <3>1. made' \in Nat
      BY <1>1, <2>1 DEF UseTyped, Begin
    <3> QED
      BY <1>1, <2>1, <3>1 DEF UseTyped, Begin
  <2>2. CASE Serve(c)
    BY <1>1, <2>2 DEF UseTyped, Serve
  <2>3. InFlight(c) => call[c].role \in Roles
    BY DEF InFlight, CallsSound, Truthful
  <2>4. ASSUME NEW text, NEW known, InFlight(c), Failed(c, text, known)
        PROVE  /\ health' \in [Roles -> Health]
               /\ probe' \in [next : 0..3, answer : {"none", "ready"}, disturbed : BOOLEAN]
               /\ digests' = digests
    BY <1>1, <2>3, <2>4, NotedTyped DEF Failed, Health
  <2>5. CASE Receive(c)
    <3>1. CASE health' = Succeeded(call[c].role) /\ UNCHANGED probe
               /\ digests' \subseteq digests \cup {call[c].role}
      BY <1>1, <1>3, <2>3, <2>5, <3>1 DEF UseTyped, Receive
    <3>2. CASE Failed(c, call[c].net, TRUE)
      BY <1>1, <2>4, <2>5, <3>2 DEF UseTyped, Receive
    <3> QED
      BY <2>5, <3>1, <3>2 DEF Receive
  <2>6. CASE Break(c)
    BY <1>1, <1>2, <2>4, <2>6 DEF UseTyped, Break
  <2> QED
    BY <1>6, <2>1, <2>2, <2>5, <2>6 DEF Calling
<1>7. CASE StartProbe
  BY <1>1, <1>7 DEF UseTyped, StartProbe
<1>8. CASE Pong
  <2>1. PICK r \in Roles :
          /\ probe.next = Order[r]
          /\ health' = Succeeded(r)
          /\ probe' = IF r = "maintenance"
                      THEN [probe EXCEPT !.next = 0, !.answer = "ready"]
                      ELSE [probe EXCEPT !.next = @ + 1]
    BY <1>8 DEF Pong
  <2>2. r # "maintenance" => probe.next \in {1, 2}
    BY <2>1, RolesOrdered
  <2>3. probe' \in [next : 0..3, answer : {"none", "ready"}, disturbed : BOOLEAN]
    <3>1. CASE r = "maintenance"
      <4>1. probe' = [probe EXCEPT !.next = 0, !.answer = "ready"] /\ 0 \in 0..3
        BY <2>1, <3>1
      <4> QED
        BY <1>1, <4>1 DEF UseTyped
    <3>2. CASE r # "maintenance"
      <4>1. probe.next + 1 \in 0..3
        BY <2>2, <3>2
      <4>2. probe' = [probe EXCEPT !.next = probe.next + 1]
        BY <2>1, <3>2
      <4> QED
        BY <1>1, <4>1, <4>2 DEF UseTyped
    <3> QED
      BY <3>1, <3>2
  <2> QED
    BY <1>1, <1>3, <1>8, <2>1, <2>3 DEF UseTyped, Pong
<1>9. CASE PingFails
  BY <1>1, <1>2, <1>9 DEF UseTyped, PingFails, Health
<1>10. CASE Subscribe \/ Subscribed \/ Unsubscribe
  BY <1>1, <1>10 DEF UseTyped, Subscribe, Subscribed, Unsubscribe, wires
<1>11. CASE SubscriberGone
  BY <1>1, <1>2, <1>11 DEF UseTyped, SubscriberGone, wires
<1> QED
  BY <1>4, <1>5, <1>6, <1>7, <1>8, <1>9, <1>10, <1>11 DEF Next

-----------------------------------------------------------------------------
(* The life of the layer. *)

\* Every step keeps the roles in order and their listeners attached.
LEMMA LayeredStep ==
  ASSUME TypeOK, Layered, Next
  PROVE  Layered'
<1>1. LayerTyped
  BY TypeParts
<1>2. CASE Layer
  <2>1. ASSUME NEW t \in Topologies, NEW p \in PoolSizes, Build(t, p) PROVE Layered'
    BY <1>1, <2>1 DEF LayerTyped, Layered, Build, wires, Open
  <2>2. ASSUME NEW r \in Roles, Create(r) PROVE Layered'
    BY <1>1, <2>2, RolesOrdered DEF LayerTyped, Layered, Create, wires, Open
  <2>3. ASSUME NEW r \in Roles, Connected(r) PROVE Layered'
    BY <1>1, <2>3, RolesOrdered DEF LayerTyped, Layered, Connected, wires, Open
  <2>4. ASSUME NEW r \in Roles, ConnectFails(r) PROVE Layered'
    BY <1>1, <2>4 DEF LayerTyped, Layered, ConnectFails, wires, Open
  <2>5. ASSUME NEW r \in Roles, Unlisten(r) PROVE Layered'
    BY <1>1, <2>5 DEF LayerTyped, Layered, Unlisten, wires, Open
  <2>6. ASSUME NEW r \in Roles, Closed(r) PROVE Layered'
    BY <1>1, <2>6 DEF LayerTyped, Layered, Closed, wires, Open
  <2>7. CASE Close \/ Over
    BY <1>1, <2>7 DEF LayerTyped, Layered, Close, Over, wires, Open
  <2> QED
    BY <1>2, <2>1, <2>2, <2>3, <2>4, <2>5, <2>6, <2>7 DEF Layer
<1>3. CASE World
  <2>1. CASE Crash \/ Restart \/ Flush
    <3>1. server'.cluster = server.cluster
      BY <1>1, <2>1 DEF LayerTyped, Crash, Restart, Flush
    <3>2. UNCHANGED layer
      BY <2>1 DEF Crash, Restart, Flush
    <3> QED
      BY <3>1, <3>2 DEF Layered, layer, Open
  <2>2. ASSUME NEW r \in Roles, ErrorEvent(r) PROVE Layered'
    <3>1. r \notin listening => client[r] = "closing"
      BY <1>1, <2>2 DEF LayerTyped, Layered, ErrorEvent, Open
    <3>2. \A f \in fatal' : f.was = "closing"
      BY <2>2, <3>1 DEF Layered, ErrorEvent
    <3> QED
      BY <2>2, <3>2 DEF Layered, ErrorEvent, Open
  <2>3. ASSUME NEW r \in Roles, TopologyEvent(r) PROVE Layered'
    BY <2>3 DEF Layered, TopologyEvent, layer, Open
  <2> QED
    BY <1>3, <2>1, <2>2, <2>3 DEF World
<1>4. ASSUME NEW c \in Callers, Calling(c) PROVE Layered'
  <2>1. CASE Serve(c)
    BY <1>1, <2>1 DEF LayerTyped, Layered, Serve, layer, Open
  <2> QED
    BY <1>4, <2>1 DEF Layered, Calling, Begin, Receive, Break, layer, Open
<1>5. CASE StartProbe \/ Pong \/ PingFails
  BY <1>5 DEF Layered, StartProbe, Pong, PingFails, layer, Open
<1>6. CASE Subscribe \/ Subscribed \/ SubscriberGone \/ Unsubscribe
  BY <1>6 DEF Layered, Subscribe, Subscribed, SubscriberGone, Unsubscribe, layer, wires, Open
<1> QED
  BY <1>2, <1>3, <1>4, <1>5, <1>6 DEF Next

\* Every step keeps what the caller of the layer was told.
LEMMA ToldStep ==
  ASSUME TypeOK, Told, Next
  PROVE  Told'
<1>1. subscriber \in [state : {"none", "connecting", "live", "released"},
                      open : BOOLEAN, terminal : BOOLEAN]
  BY DEF TypeOK
<1>2. CASE Subscribe \/ Subscribed \/ SubscriberGone \/ Unsubscribe
  BY <1>1, <1>2 DEF Told, Subscribe, Subscribed, SubscriberGone, Unsubscribe
<1>3. subscriber' = subscriber => Told'
  BY DEF Told
<1> QED
  BY <1>2, <1>3 DEF Next, Layer, World, Calling, Build, Create, Connected, ConnectFails, Close,
     Unlisten, Closed, Over, Crash, Restart, Flush, ErrorEvent, TopologyEvent, Begin, Serve,
     Receive, Break, StartProbe, Pong, PingFails

-----------------------------------------------------------------------------
(* The readiness probe. *)

\* Once something went wrong, the probe promises nothing any more.
LEMMA DisturbedProbe ==
  ASSUME probe'.disturbed, scope'.state \notin {"unbuilt", "building"}
  PROVE  Probed'
  BY DEF Probed

\* What makes a role ready, or leaves the records alone, keeps the promise.
LEMMA HealthierProbe ==
  ASSUME TypeOK, Probed, probe' = probe,
         scope'.state \in {"unbuilt", "building"} => scope.state \in {"unbuilt", "building"},
         \A r \in Roles : health[r] = "ready" => health'[r] = "ready"
  PROVE  Probed'
  BY DEF Probed

\* While the layer is built nothing was probed yet.
LEMMA UnprobedLayer ==
  ASSUME TypeOK, probe' = probe, probe.next = 0, probe.answer = "none"
  PROVE  Probed'
<1>1. \A r \in Roles : ~(Order[r] < 0)
  BY RolesOrdered
<1> QED
  BY <1>1 DEF Probed

\* Every step keeps what a probe has healed so far.
LEMMA ProbedStep ==
  ASSUME TypeOK, CallsSound, Layered, Probed, Next
  PROVE  Probed'
<1>1. UseTyped /\ LayerTyped
  BY TypeParts
<1>2. ASSUME NEW r \in Roles
      PROVE  \A q \in Roles : health[q] = "ready" => Succeeded(r)[q] = "ready"
  BY <1>1 DEF UseTyped, Succeeded
<1>3. ASSUME NEW c \in Callers, InFlight(c)
      PROVE  call[c].role \in Roles
  BY <1>3 DEF InFlight, CallsSound, Truthful
<1>4. CASE Layer
  <2>1. CASE scope.state \in {"unbuilt", "building"}
    <3>1. probe.next = 0 /\ probe.answer = "none"
      BY <2>1 DEF Probed
    <3>2. probe' = probe
      BY <1>4 DEF Layer, Build, Create, Connected, ConnectFails, Close, Unlisten, Closed, Over,
         wires
    <3> QED
      BY <3>1, <3>2, UnprobedLayer
  <2>2. CASE scope.state \notin {"unbuilt", "building"}
    <3>1. probe' = probe /\ health' = health /\ scope'.state \notin {"unbuilt", "building"}
      BY <1>1, <1>4, <2>2 DEF LayerTyped, Layer, Build, Create, Connected, ConnectFails, Close,
         Unlisten, Closed, Over, wires
    <3> QED
      BY <3>1, HealthierProbe
  <2> QED
    BY <2>1, <2>2
<1>5. CASE Crash \/ Restart \/ Flush
  BY <1>5, HealthierProbe DEF Crash, Restart, Flush, layer
<1>6. ASSUME NEW r \in Roles, NEW state \in Health, Noted(r, state), scope' = scope
      PROVE  Probed'
  BY <1>1, <1>6 DEF UseTyped, Noted, Probed
<1>7. ASSUME NEW r \in Roles, ErrorEvent(r) \/ TopologyEvent(r)
      PROVE  Probed'
  <2>1. CASE Noted(r, "degraded") \/ Noted(r, "connecting")
    BY <1>6, <1>7, <2>1 DEF ErrorEvent, TopologyEvent, layer, Health
  <2>2. CASE UNCHANGED <<health, probe, scope>>
    BY <2>2, HealthierProbe
  <2> QED
    BY <1>7, <2>1, <2>2 DEF ErrorEvent, TopologyEvent
<1>8. ASSUME NEW c \in Callers, Calling(c)
      PROVE  Probed'
  <2>1. CASE Serve(c) \/ \E op \in Ops, r \in CallRoles : Begin(c, op, r)
    BY <2>1, HealthierProbe DEF Serve, Begin, layer
  <2>2. ASSUME NEW text, NEW known, InFlight(c), Failed(c, text, known), scope' = scope
        PROVE  Probed'
    BY <1>3, <1>6, <2>2 DEF Failed, Health
  <2>3. CASE Receive(c)
    <3>1. CASE health' = Succeeded(call[c].role) /\ UNCHANGED probe
      BY <1>2, <1>3, <2>3, <3>1, HealthierProbe DEF Receive, layer
    <3>2. CASE Failed(c, call[c].net, TRUE)
      BY <2>2, <2>3, <3>2 DEF Receive, layer
    <3> QED
      BY <2>3, <3>1, <3>2 DEF Receive
  <2>4. CASE Break(c)
    BY <2>2, <2>4 DEF Break, layer
  <2> QED
    BY <1>8, <2>1, <2>3, <2>4 DEF Calling
<1>9. CASE StartProbe
  <2>1. probe' = [next |-> 1, answer |-> "none", disturbed |-> FALSE] /\ scope' = scope
        /\ scope.state = "open"
    BY <1>9 DEF StartProbe, layer
  <2>2. \A r \in Roles : ~(Order[r] < 1)
    BY RolesOrdered
  <2> QED
    BY <2>1, <2>2 DEF Probed
<1>10. CASE Pong
  <2>1. PICK r \in Roles :
          /\ probe.next = Order[r]
          /\ health' = Succeeded(r)
          /\ probe' = IF r = "maintenance"
                      THEN [probe EXCEPT !.next = 0, !.answer = "ready"]
                      ELSE [probe EXCEPT !.next = @ + 1]
          /\ scope' = scope
    BY <1>10 DEF Pong, layer
  <2>2. probe.next \in 1..3 /\ scope.state \notin {"unbuilt", "building"}
    BY <2>1, RolesOrdered DEF Probed
  <2>3. health'[r] = "ready" /\ \A q \in Roles : health[q] = "ready" => health'[q] = "ready"
    BY <1>1, <1>2, <2>1 DEF UseTyped, Succeeded
  <2>4. probe'.disturbed = probe.disturbed
    BY <1>1, <2>1 DEF UseTyped
  <2>5. ~probe.disturbed => \A q \in Roles : Order[q] <= Order[r] => health'[q] = "ready"
    BY <2>1, <2>3, RolesOrdered DEF Probed
  <2>6. CASE r = "maintenance"
    BY <2>1, <2>2, <2>4, <2>5, <2>6, RolesOrdered DEF Probed
  <2>7. CASE r # "maintenance"
    <3>1. probe'.next = Order[r] + 1
      BY <1>1, <2>1, <2>7 DEF UseTyped
    <3>2. \A q \in Roles : Order[q] < Order[r] + 1 => Order[q] <= Order[r]
      BY RolesOrdered
    <3>3. probe'.next # 0
      BY <3>1, RolesOrdered
    <3> QED
      BY <2>1, <2>2, <2>4, <2>5, <3>1, <3>2, <3>3 DEF Probed
  <2> QED
    BY <2>6, <2>7
<1>11. CASE PingFails
  BY <1>11 DEF PingFails, Probed, layer
<1>12. CASE Subscribe \/ Subscribed \/ SubscriberGone \/ Unsubscribe
  BY <1>12, HealthierProbe DEF Subscribe, Subscribed, SubscriberGone, Unsubscribe, layer, wires
<1> QED
  BY <1>4, <1>5, <1>7, <1>8, <1>9, <1>10, <1>11, <1>12 DEF Next, World

-----------------------------------------------------------------------------
(* The invariant, and what follows from it. *)

\* At the beginning nothing is open and nobody has called.
LEMMA InitInv == Init => Inv
<1> SUFFICES ASSUME Init PROVE Inv
  OBVIOUS
<1>1. LayerTyped
  BY ConfigAssumption DEF Init, LayerTyped
<1>2. UseTyped
  BY DEF Init, UseTyped, Health
<1>3. CallsSound
  <2>1. NoCall \in Calls
    BY DEF NoCall, Calls
  <2>2. Truthful(NoCall) /\ Cached(NoCall)
    BY DEF NoCall, Truthful, Cached
  <2> QED
    BY <2>1, <2>2 DEF Init, CallsSound
<1>4. TypeOK
  BY <1>1, <1>2, <1>3, TypeParts DEF CallsSound
<1>5. Layered
  BY DEF Init, Layered, Open
<1>6. \A r \in Roles : ~(Order[r] < 0)
  BY RolesOrdered
<1>7. Probed /\ Told
  BY <1>6 DEF Init, Probed, Told
<1> QED
  BY <1>3, <1>4, <1>5, <1>7 DEF Inv

\* Every step keeps the invariant.
LEMMA StepInv == Inv /\ [Next]_vars => Inv'
<1>1. ASSUME Inv, Next PROVE Inv'
  <2>1. CallsSound'
    BY <1>1, CallsStep DEF Inv
  <2>2. LayerTyped' /\ UseTyped'
    BY <1>1, LayerTypedStep, UseTypedStep DEF Inv
  <2>3. TypeOK'
    BY <2>1, <2>2 DEF TypeOK, LayerTyped, UseTyped, CallsSound, Calls
  <2>4. Layered' /\ Probed' /\ Told'
    BY <1>1, LayeredStep, ProbedStep, ToldStep DEF Inv
  <2> QED
    BY <2>1, <2>3, <2>4 DEF Inv
<1>2. ASSUME Inv, UNCHANGED vars PROVE Inv'
  BY <1>2 DEF vars, Inv, TypeOK, CallsSound, Truthful, Cached, Layered, Open, Probed, Told
<1> QED
  BY <1>1, <1>2

\* The invariant, from which the properties follow, holds in every state.
THEOREM InvHolds == Spec => []Inv
  BY InitInv, StepInv, PTL DEF Spec

\* However the cache, the server and the connections behave, for any number of
\* callers and operations: a call of evalScript runs its script at most once, and
\* classifyRedisFailure tells its caller nothing that is not so.
THEOREM CallersTold == Spec => []CallsTruthful
<1>1. Inv => CallsTruthful
  <2> SUFFICES ASSUME Inv, NEW c \in Callers
               PROVE  LET k == call[c]
                      IN /\ k.ran <= 1
                         /\ k.outcome = "ok" => k.ran = 1
                         /\ k.outcome \in {"LeaseLost", "RelationshipLimit"} => k.ran = 0
                         /\ k.outcome = "ScriptFailure" /\ k.known => k.ran = 0
                         /\ k.outcome = "TransportFailure" => k.op \in Reading
    BY DEF CallsTruthful
  <2>1. call[c] \in Calls /\ Truthful(call[c])
    BY DEF Inv, CallsSound
  <2>2. call[c].ran \in {0, 1}
    BY <2>1 DEF Calls, Truthful
  <2>3. call[c].ran <= 1
    BY <2>2
  <2>4. CASE call[c].stage = "done"
    BY <2>1, <2>3, <2>4 DEF Truthful
  <2>5. CASE call[c].stage # "done"
    BY <2>1, <2>3, <2>5 DEF Truthful
  <2> QED
    BY <2>4, <2>5
<1> QED
  BY <1>1, InvHolds, PTL

\* A call of evalScript never fails for a digest that was stale when it began: an
\* unknown script is an error only when the cache was emptied after this very call
\* had filled it.
THEOREM StaleDigestsHealed == Spec => []MissesHealed
<1>1. Inv => MissesHealed
  BY DEF Inv, CallsSound, Cached, MissesHealed
<1> QED
  BY <1>1, InvHolds, PTL

\* The layer of NodeRedisPool is all or nothing, leaves no pool and no listener
\* behind, and can be ended by an error event only during a graceful close.
THEOREM LayerAllOrNothing == Spec => []ScopeSound
<1>1. Inv => ScopeSound
  <2> SUFFICES ASSUME Inv PROVE ScopeSound
    OBVIOUS
  <2>1. TypeOK /\ Layered /\ Told /\ LayerTyped
    BY TypeParts DEF Inv
  <2>2. scope.state = "over" => listening = {}
    BY <2>1 DEF Layered, LayerTyped, Open
  <2> QED
    BY <2>1, <2>2 DEF ScopeSound, Layered, Told
<1> QED
  BY <1>1, InvHolds, PTL

\* A readiness probe that answered true has left the passive health record ready,
\* whatever the order in which calls, events and the probe wrote to it.
THEOREM RecordHealed == Spec => []ProbeHeals
<1>1. Inv => ProbeHeals
  BY DEF Inv, Probed, ProbeHeals, Snapshot
<1> QED
  BY <1>1, InvHolds, PTL
================================================================================
