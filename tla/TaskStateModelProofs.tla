----------------------- MODULE TaskStateModelProofs -----------------------
(***************************************************************************)
(* The tests' reference model keeps its own invariants, for any number of  *)
(* tasks, tokens, holders and generations, also when its operations are    *)
(* put together as the engine performs them.  One lemma per operation,     *)
(* then their composition, then the invariant of the specification.        *)
(***************************************************************************)
EXTENDS TaskStateModel, TLAPS

\* The value that stands for a missing task satisfies the invariant.
LEMMA AbsentSound == Absent \in ModelTask /\ Invariant(Absent)
  BY DEF Invariant, Absent, ModelTask, Present, ExecutionStates

\* offer makes a task that satisfies it.
LEMMA OfferSound ==
  ASSUME Parameters, NEW t, NEW g \in Generations, NEW b \in StallBudgets, NEW u \in offer(t, g, b)
  PROVE  Invariant(u)
<1>1. PICK s \in {"delayed", "waiting"} :
        u = [Absent EXCEPT !.generation = g, !.state = s, !.maxStalledCount = b]
  BY DEF offer
<1>2. Absent \in ModelTask /\ Absent.leaseToken = NoToken
  BY AbsentSound DEF Absent
<1>3. u \in ModelTask
  BY <1>1, <1>2 DEF ModelTask, ExecutionStates
<1>4. u.leaseToken = NoToken /\ u.state # "leased"
  BY <1>1, <1>2 DEF ModelTask
<1> QED
  BY <1>3, <1>4 DEF Invariant

\* acquire keeps it.
LEMMA AcquireSound ==
  ASSUME Parameters, NEW t, Invariant(t), NEW k \in Tokens, NEW u \in acquire(t, k)
  PROVE  Invariant(u)
  BY DEF Parameters, Invariant, acquire, ModelTask, Present, ExecutionStates

\* renew keeps it.
LEMMA RenewSound ==
  ASSUME Parameters, NEW t, Invariant(t), NEW k \in Tokens, NEW u \in renew(t, k)
  PROVE  Invariant(u)
  BY DEF Invariant, renew

\* fail keeps it, whether the task is retried or settled.
LEMMA FailSound ==
  ASSUME Parameters, NEW t, Invariant(t), NEW k \in Tokens, NEW r \in BOOLEAN, NEW u \in fail(t, k, r)
  PROVE  Invariant(u)
<1>1. PICK s \in {"retry-scheduled", "waiting", "failed"} :
        u = [t EXCEPT !.state = s, !.leaseToken = NoToken, !.handlerFailureCount = @ + 1]
  BY DEF fail
<1>2. t \in ModelTask /\ t.handlerFailureCount + 1 \in Nat
  BY DEF Invariant, ModelTask
<1>3. u \in ModelTask
  BY <1>1, <1>2 DEF ModelTask, ExecutionStates
<1>4. u.leaseToken = NoToken /\ u.state # "leased"
  BY <1>1, <1>2 DEF ModelTask
<1> QED
  BY <1>3, <1>4 DEF Invariant

\* succeed keeps it.
LEMMA SucceedSound ==
  ASSUME Parameters, NEW t, Invariant(t), NEW k \in Tokens, NEW u \in succeed(t, k)
  PROVE  Invariant(u)
  BY DEF Invariant, succeed, currentLease, ModelTask, Present, ExecutionStates

\* expire keeps it: a stall is charged, or ends the task.
LEMMA ExpireSound ==
  ASSUME Parameters, NEW t, Invariant(t), NEW u \in expire(t)
  PROVE  Invariant(u)
<1>1. PICK s \in {"waiting", "failed"} :
        u = [t EXCEPT !.state = s, !.leaseToken = NoToken, !.stalledAttemptCount = @ + 1]
  BY DEF expire
<1>2. t \in ModelTask /\ t.stalledAttemptCount + 1 \in Nat
  BY DEF Invariant, ModelTask
<1>3. u \in ModelTask
  BY <1>1, <1>2 DEF ModelTask, ExecutionStates
<1>4. u.leaseToken = NoToken /\ u.state # "leased"
  BY <1>1, <1>2 DEF ModelTask
<1> QED
  BY <1>3, <1>4 DEF Invariant

\* retain keeps it.
LEMMA RetainSound ==
  ASSUME Parameters, NEW t, Invariant(t), NEW h \in Holders, NEW u \in retain(t, h)
  PROVE  Invariant(u)
  BY DEF Invariant, retain, ModelTask, Present, ExecutionStates

\* remove keeps it.
LEMMA RemoveSound ==
  ASSUME Parameters, NEW t, Invariant(t), NEW u \in remove(t)
  PROVE  Invariant(u)
  BY AbsentSound DEF remove

\* Withdrawing a task keeps it.
LEMMA WithdrawSound ==
  ASSUME Parameters, NEW t, Invariant(t), NEW u \in withdraw(t)
  PROVE  Invariant(u)
  BY AbsentSound DEF withdraw

\* Promoting a delayed task keeps it.
LEMMA PromoteSound ==
  ASSUME Parameters, NEW t, Invariant(t), NEW u \in promote(t)
  PROVE  Invariant(u)
  BY DEF Invariant, promote, ModelTask, Present, ExecutionStates

\* Giving an attempt back keeps it.
LEMMA GiveBackSound ==
  ASSUME Parameters, NEW t, Invariant(t), NEW k \in Tokens, NEW u \in giveBack(t, k)
  PROVE  Invariant(u)
  BY DEF Invariant, giveBack, currentLease, ModelTask, Present, ExecutionStates

\* Letting holds go keeps it.
LEMMA ReleasesSound ==
  ASSUME Parameters, NEW t, Invariant(t), NEW u \in Releases(t)
  PROVE  Invariant(u)
  BY DEF Invariant, Releases, ModelTask, Present, ExecutionStates

-----------------------------------------------------------------------------
\* So do the sweeps that come before an operation,
LEMMA SweptSound ==
  ASSUME Parameters, NEW t, Invariant(t), NEW u \in Swept(t)
  PROVE  Invariant(u)
<1> DEFINE due == {t} \cup promote(t) \cup expire(t)
           freed == UNION {Releases(v) : v \in due}
<1>1. ASSUME NEW v \in due PROVE Invariant(v)
  BY <1>1, PromoteSound, ExpireSound
<1>2. ASSUME NEW v \in freed PROVE Invariant(v)
  BY <1>1, <1>2, ReleasesSound
<1>3. CASE u \in freed
  BY <1>2, <1>3
<1>4. CASE \E v \in freed : u \in remove(v)
  BY <1>2, <1>4, RemoveSound
<1> QED
  BY <1>3, <1>4 DEF Swept

\* the operation itself,
LEMMA OperateSound ==
  ASSUME Parameters, NEW t, Invariant(t), NEW u \in Operate(t)
  PROVE  Invariant(u)
<1>1. ASSUME NEW v \in Offered(t) PROVE Invariant(v)
  BY OfferSound DEF Offered
<1>2. ASSUME NEW v \in Retained(t) PROVE Invariant(v)
  <2>1. PICK w \in Offered(t) \cup {t}, h \in Holders : v \in retain(w, h)
    BY DEF Retained
  <2> QED
    BY <1>1, <2>1, RetainSound
<1>3. ASSUME NEW k \in Tokens, NEW v \in Presented(t, k) PROVE Invariant(v)
  BY AcquireSound, RenewSound, FailSound, SucceedSound, GiveBackSound DEF Presented
<1>4. ASSUME NEW v \in remove(t) \cup withdraw(t) PROVE Invariant(v)
  BY RemoveSound, WithdrawSound
<1> QED
  BY <1>1, <1>2, <1>3, <1>4 DEF Operate

\* and what follows it.
LEMMA CalledSound ==
  ASSUME Parameters, NEW t, Invariant(t), NEW u, Called(t, u)
  PROVE  Invariant(u)
<1>1. PICK v \in Swept(t) :
        \/ u \in Operate(v)
        \/ u \in Swept(v)
        \/ \E w \in Operate(v) : u \in Swept(w)
  BY DEF Called
<1>2. Invariant(v) /\ \A w \in Operate(v) : Invariant(w)
  BY SweptSound, OperateSound
<1> QED
  BY <1>1, <1>2, SweptSound

(***************************************************************************)
(* What assertInvariants asserts after every operation of a property test  *)
(* holds of every behaviour of the model: a task is leased exactly while   *)
(* it has a token, and its counters and generation stay in their ranges.   *)
(* (TaskEngineProofs proves Parameters of the constants of the engine.)    *)
(***************************************************************************)
THEOREM ModelInvariant == ASSUME Parameters PROVE Spec => []Invariants
<1>1. Init => Invariants
  <2> SUFFICES ASSUME Init, NEW i \in Ids PROVE Invariant(tasks[i])
    BY DEF Invariants
  <2> QED
    BY AbsentSound DEF Init
<1>2. Invariants /\ [Next]_tasks => Invariants'
  <2> SUFFICES ASSUME Invariants, Next, NEW j \in Ids PROVE Invariant(tasks'[j])
    BY DEF Invariants, Invariant, Present
  <2>1. Invariant(tasks[j])
    BY DEF Invariants
  <2>2. \/ tasks'[j] = tasks[j]
        \/ Called(tasks[j], tasks'[j])
        \/ tasks'[j] \in Swept(tasks[j])
    BY DEF Next
  <2> QED
    BY <2>1, <2>2, CalledSound, SweptSound
<1> QED
  BY <1>1, <1>2, PTL DEF Spec
=============================================================================
