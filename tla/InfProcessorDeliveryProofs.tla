---------------------- MODULE InfProcessorDeliveryProofs ----------------------
(***************************************************************************)
(* What becomes of a task and of its results, for every value of the       *)
(* constants: a task that waits has not been forgotten (NoLostTask), a     *)
(* caller gets the results of one attempt (StreamFromOneAttempt), a stream *)
(* that ends in order was delivered whole (StreamIsWhole), and the task    *)
(* processor implements TaskService (CallsAreServed).  The proofs use what *)
(* InfProcessorProofs says of the copies of a task and of the streams kept *)
(* for an engine.                                                          *)
(***************************************************************************)
EXTENDS InfProcessorProofs, FiniteSetTheorems

(***************************************************************************)
(* Channels: what Append and Tail do to each element.                      *)
(***************************************************************************)
LEMMA AppendAt ==
  ASSUME NEW S, NEW q \in Seq(S), NEW e \in S
  PROVE  /\ Len(q) \in Nat /\ DOMAIN q = 1..Len(q)
         /\ Append(q, e) \in Seq(S) /\ Len(Append(q, e)) = Len(q) + 1
         /\ DOMAIN Append(q, e) = 1..(Len(q) + 1)
         /\ \A i \in 1..Len(q) : Append(q, e)[i] = q[i]
         /\ Append(q, e)[Len(q) + 1] = e
OBVIOUS

LEMMA TailAt ==
  ASSUME NEW S, NEW q \in Seq(S), q # <<>>
  PROVE  /\ Len(q) \in Nat /\ Len(q) >= 1 /\ DOMAIN q = 1..Len(q)
         /\ Head(q) = q[1] /\ Head(q) \in S
         /\ Tail(q) \in Seq(S) /\ Len(Tail(q)) = Len(q) - 1
         /\ DOMAIN Tail(q) = 1..(Len(q) - 1)
         /\ \A i \in 1..(Len(q) - 1) : Tail(q)[i] = q[i + 1]
<1>1. Len(q) \in Nat /\ Len(q) >= 1 /\ DOMAIN q = 1..Len(q)
  OBVIOUS
<1>2. Head(q) = q[1] /\ Head(q) \in S
  BY <1>1
<1>3. Tail(q) \in Seq(S) /\ Len(Tail(q)) = Len(q) - 1
  BY <1>1
<1>4. DOMAIN Tail(q) = 1..(Len(q) - 1)
  BY <1>3
<1>5. \A i \in 1..(Len(q) - 1) : Tail(q)[i] = q[i + 1]
  BY <1>1
<1> QED
  BY <1>1, <1>2, <1>3, <1>4, <1>5

\* What a queue holds is its head and what its tail holds.
LEMMA HeadOrTail ==
  ASSUME NEW S, NEW q \in Seq(S), q # <<>>
  PROVE  {q[i] : i \in DOMAIN q} \subseteq {Tail(q)[i] : i \in DOMAIN Tail(q)} \cup {Head(q)}
<1> SUFFICES ASSUME NEW i \in DOMAIN q
             PROVE  q[i] \in {Tail(q)[j] : j \in DOMAIN Tail(q)} \cup {Head(q)}
  OBVIOUS
<1>1. /\ Len(q) \in Nat /\ DOMAIN q = 1..Len(q) /\ Head(q) = q[1]
      /\ DOMAIN Tail(q) = 1..(Len(q) - 1)
      /\ \A j \in 1..(Len(q) - 1) : Tail(q)[j] = q[j + 1]
  BY TailAt
<1>2. CASE i = 1
  BY <1>1, <1>2
<1>3. CASE i # 1
  <2>1. i \in 1..Len(q) /\ i - 1 \in 1..(Len(q) - 1) /\ (i - 1) + 1 = i
    BY <1>1, <1>3
  <2>2. Tail(q)[i - 1] = q[i] /\ i - 1 \in DOMAIN Tail(q)
    BY <1>1, <2>1
  <2> QED
    BY <2>2
<1> QED
  BY <1>2, <1>3

LEMMA ChannelType ==
  ASSUME TypeOK, NEW t \in Tasks
  PROVE  /\ resultCh[t] \in Seq(Result) /\ Len(resultCh[t]) \in Nat
         /\ DOMAIN resultCh[t] = 1..Len(resultCh[t])
         /\ \A i \in 1..Len(resultCh[t]) : resultCh[t][i] \in Result
BY DEF TypeOK, ChTypeOK

\* writeResultToTask appends to the task's channel, or drops the result.
LEMMA WrittenOrNot ==
  ASSUME TypeOK, NEW u \in Tasks, NEW r \in Result, WriteResult(u, r)
  PROVE  /\ discarded \subseteq discarded'
         /\ \A t \in Tasks \ {u} : resultCh'[t] = resultCh[t]
         /\ \/ u \notin InProgress /\ resultCh'[u] = resultCh[u]
            \/ u \in discarded' /\ resultCh'[u] = resultCh[u]
            \/ u \in InProgress /\ resultCh'[u] = Append(resultCh[u], r)
BY DEF WriteResult, chVars, TypeOK, ChTypeOK

(***************************************************************************)
(* NoLostTask.  The invariant asks the same of a task whose goroutine      *)
(* writes a body, and of an engine's entry that its sender's handler is    *)
(* there.  A copy that the scheduler sends is not counted: the task is     *)
(* then assigned to the engine already, and what happens to the message    *)
(* does not matter.  A result other than an error is not counted either:   *)
(* after it the goroutine waits again.                                     *)
(***************************************************************************)
InTransit == Queued \cup timers \cup (IF run.pc = "send" THEN {} ELSE Held)

OnTheWay(t) == \E job \in InTransit : job[1] = t
HasError(t) == \E i \in DOMAIN resultCh[t] : resultCh[t][i].kind = "err"
ToldSoon(t) == \E c \in Conns : t \in pendingCancel[c]
OnEngine(t) ==
  engineID[t] # NoEngine /\ engines[TaskTenant[t]][engineID[t]] # NoEntry

Accounted(t) == OnTheWay(t) \/ HasError(t) \/ ToldSoon(t) \/ OnEngine(t)

AllAccounted ==
  \A t \in Tasks \ discarded : pc[t] \in {"waiting", "writing"} => Accounted(t)

SendersLive ==
  /\ \A tn \in Tenants, e \in Engines :
       engines[tn][e] # NoEntry => connState[engines[tn][e].sender] # "closed"
  /\ \A e \in Engines :
       serverSender[e] # NoConn =>
         connState[serverSender[e]] # "closed" /\ ~ConnLocal[serverSender[e]]

(***************************************************************************)
(* A step that concerns the tasks of X only: for the others a reason to    *)
(* wait may be replaced by the next one in the course of things.           *)
(***************************************************************************)
LEMMA OthersAccounted ==
  ASSUME AllAccounted, NEW X, discarded \subseteq discarded',
         \A t \in Tasks \ X :
           /\ pc'[t] \in {"waiting", "writing"} => pc[t] \in {"waiting", "writing"}
           /\ HasError(t) => HasError(t)'
           /\ ToldSoon(t) => ToldSoon(t)'
           /\ OnEngine(t) => OnEngine(t)' \/ ToldSoon(t)'
                             \/ pc'[t] \notin {"waiting", "writing"},
         \A job \in InTransit : job[1] \in X \/ job \in InTransit',
         \A t \in (Tasks \cap X) \ discarded' :
           pc'[t] \in {"waiting", "writing"} => Accounted(t)'
  PROVE  AllAccounted'
<1> SUFFICES ASSUME NEW t \in Tasks \ discarded', pc'[t] \in {"waiting", "writing"}
             PROVE  Accounted(t)'
  BY DEF AllAccounted
<1>1. CASE t \in X
  BY <1>1
<1>2. CASE t \notin X
  <2>1. Accounted(t)
    BY <1>2 DEF AllAccounted
  <2>2. OnTheWay(t) => OnTheWay(t)'
    BY <1>2 DEF OnTheWay
  <2> QED
    BY <1>2, <2>1, <2>2 DEF Accounted
<1> QED
  BY <1>1, <1>2

\* Steps that leave the goroutines and what they wait for alone.
LEMMA TransitOnly ==
  ASSUME AllAccounted, InTransit \subseteq InTransit',
         UNCHANGED <<pc, discarded, resultCh, pendingCancel, engineID, engines>>
  PROVE  AllAccounted'
<1>1. \A t \in Tasks : /\ HasError(t) => HasError(t)'
                       /\ ToldSoon(t) => ToldSoon(t)'
                       /\ OnEngine(t) => OnEngine(t)'
  BY DEF HasError, ToldSoon, OnEngine
<1> QED
  BY <1>1, OthersAccounted

\* An error reaches a task that waits, unless it is dropped.
LEMMA ErrorReaches ==
  ASSUME TypeOK, NEW u \in Tasks, WriteResult(u, ErrResult), pc' = pc
  PROVE  /\ discarded \subseteq discarded'
         /\ \A t \in Tasks : HasError(t) => HasError(t)'
         /\ u \notin discarded' /\ pc'[u] \in {"waiting", "writing"} => HasError(u)'
<1> DEFINE q == resultCh[u]
<1>1. q \in Seq(Result) /\ ErrResult \in Result
  BY ChannelType, ErrResultType
<1>2. /\ Len(q) \in Nat /\ DOMAIN q = 1..Len(q)
      /\ DOMAIN Append(q, ErrResult) = 1..(Len(q) + 1)
      /\ \A i \in 1..Len(q) : Append(q, ErrResult)[i] = q[i]
      /\ Append(q, ErrResult)[Len(q) + 1] = ErrResult
  BY <1>1, AppendAt
<1>3. ErrResult.kind = "err"
  BY DEF ErrResult
<1>4. /\ discarded \subseteq discarded'
      /\ \A t \in Tasks \ {u} : resultCh'[t] = resultCh[t]
      /\ \/ u \notin InProgress /\ resultCh'[u] = q
         \/ u \in discarded' /\ resultCh'[u] = q
         \/ u \in InProgress /\ resultCh'[u] = Append(q, ErrResult)
  BY <1>1, WrittenOrNot
<1>5. pc'[u] \in {"waiting", "writing"} => u \in InProgress
  BY DEF InProgress
<1>6. ASSUME resultCh'[u] = Append(q, ErrResult)
      PROVE  HasError(u)'
  <2>1. Len(q) + 1 \in DOMAIN resultCh'[u] /\ resultCh'[u][Len(q) + 1].kind = "err"
    BY <1>2, <1>3, <1>6
  <2> QED
    BY <2>1 DEF HasError
<1>7. \A t \in Tasks : resultCh'[t] = resultCh[t] => (HasError(t) => HasError(t)')
  BY DEF HasError
<1> QED
  BY <1>4, <1>5, <1>6, <1>7

(***************************************************************************)
(* The scheduler.                                                          *)
(***************************************************************************)
LEMMA ScheduleFailsAccounted ==
  ASSUME TypeOK, AllAccounted, run.job \in Job, ScheduleFails
  PROVE  AllAccounted'
<1>1. PICK u \in Tasks : u = run.job[1]
  BY DEF Job
<1>2. UNCHANGED <<pc, pendingCancel, engineID, engines, queue, timers>>
  BY DEF ScheduleFails, callVars, connVars, retryVars, tableVars
<1>3. WriteResult(u, ErrResult)
  BY <1>1 DEF ScheduleFails
<1>4. /\ discarded \subseteq discarded'
      /\ \A t \in Tasks : HasError(t) => HasError(t)'
      /\ u \notin discarded' /\ pc'[u] \in {"waiting", "writing"} => HasError(u)'
  BY <1>2, <1>3, ErrorReaches
<1>5. \A t \in Tasks : (ToldSoon(t) => ToldSoon(t)') /\ (OnEngine(t) => OnEngine(t)')
  BY <1>2 DEF ToldSoon, OnEngine
<1> DEFINE X == {u}
<1>6. \A job \in InTransit : job[1] \in X \/ job \in InTransit'
  BY <1>1, <1>2 DEF InTransit, Held, Queued
<1>7. \A t \in (Tasks \cap X) \ discarded' :
        pc'[t] \in {"waiting", "writing"} => Accounted(t)'
  BY <1>4 DEF Accounted
<1> QED
  BY <1>2, <1>4, <1>5, <1>6, <1>7, OthersAccounted

LEMMA RunAccounted ==
  ASSUME TypeOK, AllAccounted, RunStep
  PROVE  AllAccounted'
<1>1. run \in RunState /\ (run.pc # "dequeue" => run.job \in Job)
  BY DEF TypeOK, RunTypeOK
<1>2. ASSUME Queued' = Queued, timers' = timers, run'.pc # "send", run'.job = run.job,
             UNCHANGED <<pc, discarded, resultCh, pendingCancel, engineID, engines>>
      PROVE  AllAccounted'
  BY <1>2, TransitOnly DEF InTransit, Held
<1>3. CASE RunDequeue
  <2>1. queue \in Seq(Job) /\ queue # <<>> /\ queue' = Tail(queue)
    BY <1>3 DEF RunDequeue, TypeOK, QueueTypeOK
  <2>2. run'.pc = "route" /\ run'.job = Head(queue) /\ run.job = NoJob
    BY <1>1, <1>3 DEF RunDequeue, TypeOK, RunTypeOK, RunState
  <2>3. Head(queue) \in Job /\ Head(queue) # NoJob
    BY <2>1, TailAt, NullsAssumption
  <2>4. Held = {} /\ Held' = {Head(queue)}
    BY <2>2, <2>3 DEF Held
  <2>5. Queued \subseteq Queued' \cup {Head(queue)}
    BY <2>1, HeadOrTail DEF Queued
  <2>6. timers' = timers /\ UNCHANGED <<pc, discarded, resultCh, pendingCancel, engineID, engines>>
    BY <1>3 DEF RunDequeue, callVars, chVars, connVars, retryVars, tableVars
  <2>7. InTransit \subseteq InTransit'
    BY <2>2, <2>4, <2>5, <2>6 DEF InTransit
  <2> QED
    BY <2>6, <2>7, TransitOnly
<1>4. CASE RunRoute
  <2>1. CASE ScheduleFails
    BY <1>1, <1>4, <2>1, ScheduleFailsAccounted DEF RunRoute
  <2>2. CASE ~ScheduleFails
    <3>1. PICK ids : run' = [run EXCEPT !.pc = "choose", !.candidates = ids]
      BY <1>4, <2>2 DEF RunRoute
    <3>2. run'.pc # "send" /\ run'.job = run.job
      BY <1>1, <3>1 DEF RunState
    <3> QED
      BY <1>2, <1>4, <2>2, <3>2 DEF RunRoute, Queued, callVars, chVars, connVars, retryVars, tableVars
  <2> QED
    BY <2>1, <2>2
<1>5. CASE RunChoose
  <2>1. CASE ScheduleFails
    BY <1>1, <1>5, <2>1, ScheduleFailsAccounted DEF RunChoose
  <2>2. CASE ~ScheduleFails
    <3>1. PICK e : run' = [run EXCEPT !.pc = "assign", !.candidates = {}, !.engine = e]
      BY <1>5, <2>2 DEF RunChoose
    <3>2. run'.pc # "send" /\ run'.job = run.job
      BY <1>1, <3>1 DEF RunState
    <3> QED
      BY <1>2, <1>5, <2>2, <3>2 DEF RunChoose, Queued, callVars, chVars, connVars, retryVars, tableVars
  <2> QED
    BY <2>1, <2>2
<1>6. CASE RunAssign
  <2>0. PICK t \in Tasks : t = run.job[1]
    BY <1>1, <1>6 DEF RunAssign, Job
  <2> DEFINE X == {t}
  <2>1. run.job \in Job /\ t \in Tasks /\ t = run.job[1] /\ run.pc = "assign"
    BY <1>1, <1>6, <2>0 DEF RunAssign
  <2>2. UNCHANGED <<pc, discarded, resultCh, pendingCancel, engines, queue, timers>>
    BY <1>6 DEF RunAssign, callVars, chVars, connVars, tableVars
  <2>3. CASE engines[TaskTenant[t]][run.engine] # NoEntry
    <3>1. engineID' = [engineID EXCEPT ![t] = run.engine] /\ run.engine \in Engines
      BY <1>6, <2>1, <2>3 DEF RunAssign, TypeOK, RunTypeOK
    <3>2. OnEngine(t)'
      BY <2>1, <2>2, <2>3, <3>1, ConstantsAssumption DEF OnEngine, TypeOK, RetryTypeOK
    <3>3. \A s \in Tasks \ X : engineID'[s] = engineID[s]
      BY <3>1 DEF TypeOK, RetryTypeOK
    <3>4. \A s \in Tasks \ X : /\ HasError(s) => HasError(s)'
                               /\ ToldSoon(s) => ToldSoon(s)'
                               /\ OnEngine(s) => OnEngine(s)'
      BY <2>2, <3>3 DEF HasError, ToldSoon, OnEngine
    <3>5. \A job \in InTransit : job[1] \in X \/ job \in InTransit'
      BY <2>1, <2>2 DEF InTransit, Held, Queued
    <3>6. \A s \in (Tasks \cap X) \ discarded' :
            pc'[s] \in {"waiting", "writing"} => Accounted(s)'
      BY <3>2 DEF Accounted
    <3> QED
      BY <2>2, <3>4, <3>5, <3>6, OthersAccounted
  <2>4. CASE engines[TaskTenant[t]][run.engine] = NoEntry
    <3>1. run'.pc = "crashed" /\ run'.job = run.job /\ engineID' = engineID
      BY <1>1, <1>6, <2>1, <2>4 DEF RunAssign, RunState
    <3> QED
      BY <1>2, <2>2, <3>1 DEF Queued
  <2> QED
    BY <2>3, <2>4
<1>7. CASE RunSend
  <2>1. CASE ScheduleFails
    BY <1>1, <1>7, <2>1, ScheduleFailsAccounted DEF RunSend
  <2>2. CASE ~ScheduleFails
    <3>1. run.pc = "send" /\ run' = IdleRun
          /\ UNCHANGED <<queue, timers, pc, discarded, resultCh, pendingCancel, engineID, engines>>
      BY <1>7, <2>2 DEF RunSend, callVars, chVars, connVars, retryVars, tableVars
    <3>2. InTransit \subseteq InTransit'
      BY <3>1 DEF InTransit, Queued
    <3> QED
      BY <3>1, <3>2, TransitOnly
  <2> QED
    BY <2>1, <2>2
<1> QED
  BY <1>3, <1>4, <1>5, <1>6, <1>7 DEF RunStep

(***************************************************************************)
(* The tasks' goroutines and the timers.                                   *)
(***************************************************************************)

\* A step of t's goroutine after which t has a reason to wait or does not.
LEMMA OwnStepAccounted ==
  ASSUME TypeOK, AllAccounted, NEW t \in Tasks,
         UNCHANGED <<engines, pendingCancel, run, discarded>>,
         Queued \subseteq Queued', timers \subseteq timers',
         \A s \in Tasks \ {t} : /\ pc'[s] = pc[s] /\ resultCh'[s] = resultCh[s]
                                /\ engineID'[s] = engineID[s],
         t \notin discarded' /\ pc'[t] \in {"waiting", "writing"} => Accounted(t)'
  PROVE  AllAccounted'
<1> DEFINE X == {t}
<1>1. InTransit \subseteq InTransit'
  BY DEF InTransit, Held
<1>2. \A s \in Tasks \ X : /\ HasError(s) => HasError(s)'
                           /\ ToldSoon(s) => ToldSoon(s)'
                           /\ OnEngine(s) => OnEngine(s)'
  BY DEF HasError, ToldSoon, OnEngine
<1>3. \A s \in (Tasks \cap X) \ discarded' :
        pc'[s] \in {"waiting", "writing"} => Accounted(s)'
  OBVIOUS
<1> QED
  BY <1>1, <1>2, <1>3, OthersAccounted

\* Steps by which t stops waiting for good.
LEMMA EndAccounted ==
  ASSUME TypeOK, AllAccounted, NEW t \in Tasks, NEW v \in {"closing", "blocked", "done"},
         pc' = [pc EXCEPT ![t] = v],
         \A s \in Tasks \ {t} : resultCh'[s] = resultCh[s],
         UNCHANGED <<engines, pendingCancel, run, discarded, queue, timers, engineID>>
  PROVE  AllAccounted'
<1>1. pc'[t] = v /\ \A s \in Tasks \ {t} : pc'[s] = pc[s]
  BY DEF TypeOK, CallTypeOK
<1> QED
  BY <1>1, OwnStepAccounted DEF Queued

LEMMA LeaveAccounted ==
  ASSUME TypeOK, AllAccounted, NEW t \in Tasks, NEW o, Leave(t, o)
  PROVE  AllAccounted'
<1>1. \A s \in Tasks \ {t} : resultCh'[s] = resultCh[s]
  BY DEF Leave, TypeOK, ChTypeOK
<1> QED
  BY <1>1, EndAccounted DEF Leave, tableVars, connVars, retryVars

\* Taking a result other than an error from the channel leaves the errors.
LEMMA PopKeepsErrors ==
  ASSUME TypeOK, NEW t \in Tasks, Received(t), Pop(t), Head(resultCh[t]).kind # "err"
  PROVE  HasError(t) => HasError(t)'
<1> DEFINE q == resultCh[t]
<1>1. q \in Seq(Result) /\ q # <<>>
  BY DEF Received, TypeOK, ChTypeOK
<1>2. /\ Len(q) \in Nat /\ DOMAIN q = 1..Len(q) /\ Head(q) = q[1]
      /\ DOMAIN Tail(q) = 1..(Len(q) - 1)
      /\ \A i \in 1..(Len(q) - 1) : Tail(q)[i] = q[i + 1]
  BY <1>1, TailAt
<1>3. resultCh'[t] = Tail(q)
  BY DEF Pop, TypeOK, ChTypeOK
<1>4. ASSUME NEW i \in DOMAIN q, q[i].kind = "err"
      PROVE  i - 1 \in DOMAIN Tail(q) /\ Tail(q)[i - 1].kind = "err"
  <2>1. i \in 1..Len(q) /\ i # 1
    BY <1>2, <1>4
  <2>2. i - 1 \in 1..(Len(q) - 1) /\ (i - 1) + 1 = i
    BY <1>2, <2>1
  <2> QED
    BY <1>2, <1>4, <2>2
<1> QED
  BY <1>3, <1>4 DEF HasError

LEMMA OthersPop ==
  ASSUME TypeOK, NEW t \in Tasks, Pop(t)
  PROVE  \A s \in Tasks \ {t} : resultCh'[s] = resultCh[s]
BY DEF Pop, TypeOK, ChTypeOK

LEMMA EnqueueAccounted ==
  ASSUME TypeOK, AllAccounted, NEW t \in Tasks, Enqueue(t)
  PROVE  AllAccounted'
<1>1. queue \in Seq(Job) /\ <<t, 0>> \in Job
  BY ConstantsAssumption DEF TypeOK, QueueTypeOK, Job
<1>2. Queued' = Queued \cup {<<t, 0>>}
  BY <1>1, AppendElements DEF Enqueue, Queued
<1>3. Accounted(t)'
  <2>1. <<t, 0>> \in InTransit' /\ <<t, 0>>[1] = t
    BY <1>2 DEF InTransit
  <2> QED
    BY <2>1 DEF Accounted, OnTheWay
<1>4. \A s \in Tasks \ {t} : pc'[s] = pc[s]
  BY DEF Enqueue, TypeOK, CallTypeOK
<1>5. UNCHANGED <<engines, pendingCancel, run, discarded, timers, resultCh, engineID>>
  BY DEF Enqueue, tableVars, connVars, chVars, retryVars
<1> QED
  BY <1>2, <1>3, <1>4, <1>5, OwnStepAccounted

LEMMA RetryAccounted ==
  ASSUME TypeOK, AllAccounted, NEW t \in Tasks, Retry(t)
  PROVE  AllAccounted'
<1>1. timers' = timers \cup {<<t, retryCount[t] + 1>>}
      /\ UNCHANGED <<engines, pendingCancel, run, discarded, queue, pc>>
  BY DEF Retry, tableVars, connVars, callVars
<1>2. Accounted(t)'
  <2>1. <<t, retryCount[t] + 1>> \in InTransit' /\ <<t, retryCount[t] + 1>>[1] = t
    BY <1>1 DEF InTransit
  <2>2. \E job \in InTransit' : job[1] = t
    BY <2>1
  <2> QED
    BY <2>2 DEF Accounted, OnTheWay
<1>3. \A s \in Tasks \ {t} : resultCh'[s] = resultCh[s] /\ engineID'[s] = engineID[s]
  BY OthersPop DEF Retry, TypeOK, RetryTypeOK
<1> QED
  BY <1>1, <1>2, <1>3, OwnStepAccounted DEF Queued

LEMMA HandleNextAccounted ==
  ASSUME TypeOK, AllAccounted, NEW t \in Tasks, HandleNext(t)
  PROVE  AllAccounted'
<1>1. /\ UNCHANGED <<engines, pendingCancel, run, discarded, queue, timers, engineID>>
      /\ Received(t) /\ Pop(t) /\ Head(resultCh[t]).kind # "err" /\ pc[t] = "waiting"
  BY DEF HandleNext, Deliverable, IsError, IsRetriableError, Received, tableVars, connVars, retryVars
<1>2. \A s \in Tasks \ {t} : resultCh'[s] = resultCh[s] /\ pc'[s] = pc[s]
  BY <1>1, OthersPop DEF HandleNext, TypeOK, CallTypeOK
<1>3. HasError(t) => HasError(t)'
  BY <1>1, PopKeepsErrors
<1>4. /\ OnTheWay(t) => OnTheWay(t)'
      /\ ToldSoon(t) => ToldSoon(t)'
      /\ OnEngine(t) => OnEngine(t)'
  BY <1>1 DEF OnTheWay, InTransit, Queued, Held, ToldSoon, OnEngine
<1>5. t \notin discarded' => Accounted(t)'
  BY <1>1, <1>3, <1>4 DEF AllAccounted, Accounted
<1> QED
  BY <1>1, <1>2, <1>5, OwnStepAccounted DEF Queued

LEMMA TaskAccounted ==
  ASSUME TypeOK, AllAccounted, NEW t \in Tasks, TaskStep(t) \/ CtxDone(t)
  PROVE  AllAccounted'
<1>1. ASSUME UNCHANGED <<engines, pendingCancel, run, discarded, queue, timers, engineID, resultCh>>,
             \A s \in Tasks : pc'[s] \in {"waiting", "writing"} => pc[s] \in {"waiting", "writing"}
      PROVE  AllAccounted'
  BY <1>1 DEF AllAccounted, Accounted, OnTheWay, InTransit, Queued, Held, HasError, ToldSoon, OnEngine
<1>2. CASE Start(t) \/ CtxDone(t)
  BY <1>1, <1>2 DEF Start, CtxDone, TypeOK, CallTypeOK, tableVars, connVars, callVars, retryVars, chVars
<1>3. CASE Enqueue(t)
  BY <1>3, EnqueueAccounted
<1>4. CASE Retry(t)
  BY <1>4, RetryAccounted
<1>5. CASE \/ FinishOnCtxDone(t) \/ FinishOnOutOfOrder(t) \/ FinishOnError(t)
           \/ FinishOnForwardError(t)
  BY <1>5, LeaveAccounted DEF FinishOnCtxDone, FinishOnOutOfOrder, FinishOnError,
                              FinishOnForwardError, LeaveWithError
<1>6. CASE HandleSecondResponse(t)
  BY <1>6, EndAccounted, OthersPop DEF HandleSecondResponse, tableVars, connVars, retryVars
<1>7. CASE HandleLast(t)
  <2>1. CASE Leave(t, "complete")
    BY <2>1, LeaveAccounted
  <2>2. CASE ~Leave(t, "complete")
    <3>1. Pop(t) /\ pc' = [pc EXCEPT ![t] = "closing"]
          /\ UNCHANGED <<engines, pendingCancel, run, discarded, queue, timers, engineID>>
      BY <1>7, <2>2 DEF HandleLast, tableVars, connVars, retryVars
    <3> QED
      BY <3>1, EndAccounted, OthersPop
  <2> QED
    BY <2>1, <2>2
<1>8. CASE HandleNext(t)
  BY <1>8, HandleNextAccounted
<1>9. CASE BodyRead(t)
  <2>1. CASE Leave(t, "complete")
    BY <2>1, LeaveAccounted
  <2>2. CASE ~Leave(t, "complete")
    BY <1>1, <1>9, <2>2 DEF BodyRead, TypeOK, CallTypeOK, tableVars, connVars, callVars, retryVars, chVars
  <2> QED
    BY <2>1, <2>2
<1> QED
  BY <1>2, <1>3, <1>4, <1>5, <1>6, <1>7, <1>8, <1>9 DEF TaskStep

LEMMA TimerFireAccounted ==
  ASSUME TypeOK, AllAccounted, NEW job \in timers, TimerFire(job)
  PROVE  AllAccounted'
<1>1. queue \in Seq(Job) /\ job \in Job
  BY DEF TypeOK, QueueTypeOK
<1>2. Queued' = Queued \cup {job} /\ timers' = timers \ {job}
  BY <1>1, AppendElements DEF TimerFire, Queued
<1>3. UNCHANGED <<run, pc, discarded, resultCh, pendingCancel, engineID, engines>>
  BY DEF TimerFire, tableVars, connVars, callVars, chVars, retryVars
<1>4. InTransit \subseteq InTransit'
  BY <1>2, <1>3 DEF InTransit, Held
<1> QED
  BY <1>3, <1>4, TransitOnly

(***************************************************************************)
(* The stream handlers and the engines.                                    *)
(***************************************************************************)
LEMMA RemoveEngineAccounted ==
  ASSUME TypeOK, AllAccounted, NEW c \in Conns, HandlerFree(c), RemoveEngine(c),
         UNCHANGED <<queue, timers, callVars, ctxDone, retryVars, chVars, exec>>
  PROVE  AllAccounted'
<1> DEFINE e == ConnEngine[c]
<1>1. ConnTenant[c] \in Tenants /\ e \in Engines
  BY ConstantsAssumption
<1>2. \A tn \in Tenants, f \in Engines : f # e => engines'[tn][f] = engines[tn][f]
  BY <1>1 DEF RemoveEngine, TypeOK, TableTypeOK
<1>3. pendingCancel[c] = {}
  BY DEF HandlerFree
<1>4. pendingCancel'[c] = AssignedTo(e) /\ \A d \in Conns \ {c} : pendingCancel'[d] = pendingCancel[d]
  BY DEF RemoveEngine, TypeOK, ConnTypeOK
<1>5. UNCHANGED <<pc, discarded, resultCh, engineID>>
  BY DEF callVars, chVars, retryVars
<1>6. ASSUME NEW t \in Tasks, OnEngine(t), pc[t] \in {"waiting", "writing"}
      PROVE  OnEngine(t)' \/ ToldSoon(t)'
  <2>1. TaskTenant[t] \in Tenants /\ engineID[t] \in Engines
    BY <1>6, ConstantsAssumption DEF OnEngine, TypeOK, RetryTypeOK
  <2>2. CASE engineID[t] = e
    BY <1>4, <1>6, <2>2 DEF ToldSoon, AssignedTo, InProgress
  <2>3. CASE engineID[t] # e
    BY <1>2, <1>5, <1>6, <2>1, <2>3 DEF OnEngine
  <2> QED
    BY <2>2, <2>3
<1>7. \A t \in Tasks : (HasError(t) => HasError(t)') /\ (ToldSoon(t) => ToldSoon(t)')
  BY <1>3, <1>4, <1>5 DEF HasError, ToldSoon
<1>8. run'.pc = run.pc /\ run'.job = run.job
  BY DEF RemoveEngine, TypeOK, RunTypeOK, RunState
<1>9. InTransit' = InTransit
  BY <1>8 DEF InTransit, Queued, Held
<1> DEFINE X == {}
<1> QED
  BY <1>5, <1>6, <1>7, <1>9, OthersAccounted

LEMMA ConnAccounted ==
  ASSUME TypeOK, AllAccounted, NEW c \in Conns, ConnStep(c)
  PROVE  AllAccounted'
<1>1. ASSUME UNCHANGED <<engines, pendingCancel, run, discarded, queue, timers, engineID, resultCh, pc>>
      PROVE  AllAccounted'
  BY <1>1 DEF AllAccounted, Accounted, OnTheWay, InTransit, Queued, Held, HasError, ToldSoon, OnEngine
<1>2. ASSUME NEW s \in Statuses, EngineStatus(c, s)
      PROVE  AllAccounted'
  <2>1. UNCHANGED <<pendingCancel, run, discarded, queue, timers, engineID, resultCh, pc>>
    BY <1>2 DEF EngineStatus, callVars, retryVars, chVars
  <2>2. ConnTenant[c] \in Tenants /\ ConnEngine[c] \in Engines
        /\ [sender |-> StatusSender(c), ready |-> s.ready, models |-> s.models] # NoEntry
    BY StatusSenderType, ConstantsAssumption, NullsAssumption DEF Entry
  <2>3. \A tn \in Tenants, e \in Engines : engines[tn][e] # NoEntry => engines'[tn][e] # NoEntry
    BY <1>2, <2>2 DEF EngineStatus, TypeOK, TableTypeOK
  <2>4. \A t \in Tasks : OnEngine(t) => OnEngine(t)'
    BY <2>1, <2>3, ConstantsAssumption DEF OnEngine, TypeOK, RetryTypeOK
  <2> QED
    BY <2>1, <2>4 DEF AllAccounted, Accounted, OnTheWay, InTransit, Queued, Held, HasError, ToldSoon
<1>3. ASSUME NEW t \in Tasks, CancelTask(c, t)
      PROVE  AllAccounted'
  <2> DEFINE X == {t}
  <2>1. UNCHANGED <<engines, run, queue, timers, engineID, pc>> /\ WriteResult(t, ErrResult)
    BY <1>3 DEF CancelTask, tableVars, callVars, retryVars
  <2>2. /\ discarded \subseteq discarded'
        /\ \A s \in Tasks : HasError(s) => HasError(s)'
        /\ t \notin discarded' /\ pc'[t] \in {"waiting", "writing"} => HasError(t)'
    BY <2>1, ErrorReaches
  <2>3. \A s \in Tasks \ X : (ToldSoon(s) => ToldSoon(s)') /\ (OnEngine(s) => OnEngine(s)')
    BY <1>3, <2>1 DEF CancelTask, ToldSoon, OnEngine, TypeOK, ConnTypeOK
  <2>4. InTransit' = InTransit
    BY <2>1 DEF InTransit, Queued, Held
  <2>5. \A s \in (Tasks \cap X) \ discarded' :
          pc'[s] \in {"waiting", "writing"} => Accounted(s)'
    BY <2>2 DEF Accounted
  <2> QED
    BY <2>1, <2>2, <2>3, <2>4, <2>5, OthersAccounted
<1>4. CASE Break(c)
  BY <1>1, <1>4 DEF Break, tableVars, callVars, retryVars, chVars
<1>5. CASE Close(c) \/ Unreport(c)
  <2>1. CASE RemoveEngine(c)
    BY <1>5, <2>1, RemoveEngineAccounted DEF Close, Unreport
  <2>2. CASE ~RemoveEngine(c)
    BY <1>1, <1>5, <2>2 DEF Close, Unreport, tableVars, callVars, retryVars, chVars
  <2> QED
    BY <2>1, <2>2
<1> QED
  BY <1>2, <1>3, <1>4, <1>5 DEF ConnStep

\* A result that is appended leaves the errors before it.
LEMMA WriteKeepsErrors ==
  ASSUME TypeOK, NEW u \in Tasks, NEW r \in Result, WriteResult(u, r)
  PROVE  discarded \subseteq discarded' /\ \A t \in Tasks : HasError(t) => HasError(t)'
<1>1. resultCh[u] \in Seq(Result)
  BY ChannelType
<1>2. /\ DOMAIN resultCh[u] = 1..Len(resultCh[u]) /\ Len(resultCh[u]) \in Nat
      /\ DOMAIN Append(resultCh[u], r) = 1..(Len(resultCh[u]) + 1)
      /\ \A i \in 1..Len(resultCh[u]) : Append(resultCh[u], r)[i] = resultCh[u][i]
  BY <1>1, AppendAt
<1>3. resultCh'[u] = Append(resultCh[u], r) => (HasError(u) => HasError(u)')
  BY <1>2 DEF HasError
<1>4. \A t \in Tasks : resultCh'[t] = resultCh[t] => (HasError(t) => HasError(t)')
  BY DEF HasError
<1> QED
  BY <1>3, <1>4, WrittenOrNot

LEMMA ExecAccounted ==
  ASSUME TypeOK, AllAccounted, NEW x \in exec, ExecStep(x)
  PROVE  AllAccounted'
<1>1. UNCHANGED <<engines, pendingCancel, run, queue, timers, engineID, pc>>
  BY DEF ExecStep, Respond, SendEvent, Abort, tableVars, connVars, callVars, retryVars
<1>2. x.job[1] \in Tasks /\ x.job[2] \in 0..MaxRetryCount /\ x.next \in 0..NumChunks
  BY DEF TypeOK, ExecTypeOK, Execution, Job
<1>3. discarded \subseteq discarded' /\ \A t \in Tasks : HasError(t) => HasError(t)'
  <2>1. ASSUME NEW code \in {"ok", "unavailable", "internal", "other"}, Respond(x, code)
        PROVE  discarded \subseteq discarded' /\ \A t \in Tasks : HasError(t) => HasError(t)'
    <3>1. [kind |-> "http", code |-> code, idx |-> 0, attempt |-> x.job[2]] \in Result
      BY <1>2, ConstantsAssumption DEF Result
    <3> QED
      BY <1>2, <2>1, <3>1, WriteKeepsErrors DEF Respond
  <2>2. CASE SendEvent(x)
    <3>1. [kind |-> "sse", code |-> "none", idx |-> x.next, attempt |-> x.job[2]] \in Result
      BY <1>2 DEF Result
    <3> QED
      BY <1>2, <2>2, <3>1, WriteKeepsErrors DEF SendEvent
  <2>3. CASE Abort(x)
    BY <2>3 DEF Abort, chVars, HasError
  <2> QED
    BY <2>1, <2>2, <2>3 DEF ExecStep
<1>4. \A t \in Tasks : (ToldSoon(t) => ToldSoon(t)') /\ (OnEngine(t) => OnEngine(t)')
  BY <1>1 DEF ToldSoon, OnEngine
<1>5. InTransit' = InTransit
  BY <1>1 DEF InTransit, Queued, Held
<1> DEFINE X == {}
<1> QED
  BY <1>1, <1>3, <1>4, <1>5, OthersAccounted

LEMMA NextAccounted ==
  ASSUME TypeOK, AllAccounted, [Next]_vars
  PROVE  AllAccounted'
<1>1. CASE UNCHANGED vars
  <2>1. UNCHANGED <<engines, pendingCancel, run, discarded, queue, timers, engineID, resultCh, pc>>
    BY <1>1 DEF vars, tableVars, connVars, callVars, retryVars, chVars
  <2> QED
    BY <2>1 DEF AllAccounted, Accounted, OnTheWay, InTransit, Queued, Held, HasError, ToldSoon, OnEngine
<1> QED
  BY <1>1, RunAccounted, TaskAccounted, TimerFireAccounted, ConnAccounted, ExecAccounted
     DEF Next, Idle

(***************************************************************************)
(* A stream whose handler has returned is no sender any more: the handler  *)
(* takes out the one engine entry and the one task sender it can be kept   *)
(* in (SendersOK).                                                         *)
(***************************************************************************)
LEMMA StatusSenderLive ==
  ASSUME TypeOK, SendersLive, NEW c \in Conns, connState[c] # "closed"
  PROVE  /\ connState[StatusSender(c)] # "closed"
         /\ ~ConnLocal[c] => ~ConnLocal[StatusSender(c)]
BY ConstantsAssumption DEF StatusSender, SendersLive

LEMMA EngineStatusLive ==
  ASSUME TypeOK, SendersLive, NEW c \in Conns, NEW s \in Statuses, EngineStatus(c, s)
  PROVE  SendersLive'
<1> DEFINE entry == [sender |-> StatusSender(c), ready |-> s.ready, models |-> s.models]
<1>1. /\ ConnTenant[c] \in Tenants /\ ConnEngine[c] \in Engines /\ StatusSender(c) \in Conns
      /\ entry.sender = StatusSender(c)
  BY ConstantsAssumption, StatusSenderType
<1>2. connState[c] # "closed"
  BY DEF EngineStatus
<1>3. connState[StatusSender(c)] # "closed" /\ (~ConnLocal[c] => ~ConnLocal[StatusSender(c)])
  BY <1>2, StatusSenderLive
<1>4. \A d \in Conns : connState[d] # "closed" => connState'[d] # "closed"
  BY DEF EngineStatus, TypeOK, ConnTypeOK
<1>5. \A tn \in Tenants, e \in Engines :
        engines'[tn][e] = IF tn = ConnTenant[c] /\ e = ConnEngine[c] THEN entry ELSE engines[tn][e]
  BY <1>1 DEF EngineStatus, TypeOK, TableTypeOK
<1>6. \A tn \in Tenants, e \in Engines :
        engines[tn][e] # NoEntry => engines[tn][e].sender \in Conns
  BY DEF TypeOK, TableTypeOK, Entry
<1> HIDE DEF entry
<1>7. \A tn \in Tenants, e \in Engines :
        engines'[tn][e] # NoEntry => connState'[engines'[tn][e].sender] # "closed"
  BY <1>1, <1>3, <1>4, <1>5, <1>6 DEF SendersLive
<1>8. \A e \in Engines : serverSender[e] # NoConn => serverSender[e] \in Conns
  BY DEF TypeOK, ConnTypeOK
<1>9. \A e \in Engines : \/ serverSender'[e] = serverSender[e]
                         \/ ~ConnLocal[c] /\ serverSender'[e] = StatusSender(c)
  BY DEF EngineStatus, TypeOK, ConnTypeOK
<1>10. \A e \in Engines :
         serverSender'[e] # NoConn =>
           connState'[serverSender'[e]] # "closed" /\ ~ConnLocal[serverSender'[e]]
  BY <1>1, <1>3, <1>4, <1>8, <1>9 DEF SendersLive
<1> QED
  BY <1>7, <1>10 DEF SendersLive

LEMMA CloseLive ==
  ASSUME TypeOK, RightInv, SendersLive, NEW c \in Conns, Close(c)
  PROVE  SendersLive'
<1>1. ConnTenant[c] \in Tenants /\ ConnEngine[c] \in Engines
  BY ConstantsAssumption
<1>2. \A d \in Conns \ {c} : connState'[d] = connState[d]
  BY DEF Close, TypeOK, ConnTypeOK
<1>3. \A tn \in Tenants, e \in Engines :
        engines'[tn][e] # NoEntry =>
          engines'[tn][e] = engines[tn][e] /\ ~(tn = ConnTenant[c] /\ e = ConnEngine[c])
  <2>1. CASE RemoveEngine(c)
    BY <1>1, <2>1 DEF RemoveEngine, TypeOK, TableTypeOK
  <2>2. CASE ~RemoveEngine(c)
    BY <2>2 DEF Close, tableVars
  <2> QED
    BY <2>1, <2>2
<1>4. ASSUME NEW tn \in Tenants, NEW e \in Engines, engines'[tn][e] # NoEntry
      PROVE  connState'[engines'[tn][e].sender] # "closed"
  <2>1. engines[tn][e] # NoEntry /\ engines[tn][e].sender \in Conns
    BY <1>3, <1>4 DEF TypeOK, TableTypeOK, Entry
  <2>2. SenderOf(engines[tn][e].sender, tn, e)
    BY <2>1 DEF RightInv, SendersOK
  <2>3. engines[tn][e].sender # c
    BY <1>3, <1>4, <2>2 DEF SenderOf
  <2> QED
    BY <1>2, <1>3, <1>4, <2>1, <2>3 DEF SendersLive
<1>5. ASSUME NEW e \in Engines, serverSender'[e] # NoConn
      PROVE  connState'[serverSender'[e]] # "closed" /\ ~ConnLocal[serverSender'[e]]
  <2>1. serverSender'[e] = serverSender[e] /\ serverSender[e] \in Conns
        /\ (ConnLocal[c] \/ e # ConnEngine[c])
    BY <1>1, <1>5 DEF Close, TypeOK, ConnTypeOK
  <2>2. ConnEngine[serverSender[e]] = e /\ ~ConnLocal[serverSender[e]]
        /\ connState[serverSender[e]] # "closed"
    BY <1>5, <2>1 DEF RightInv, SendersOK, SendersLive
  <2>3. serverSender[e] # c
    BY <2>1, <2>2
  <2> QED
    BY <1>2, <2>1, <2>2, <2>3
<1> QED
  BY <1>4, <1>5 DEF SendersLive

LEMMA UnreportLive ==
  ASSUME TypeOK, SendersLive, NEW c \in Conns, Unreport(c)
  PROVE  SendersLive'
<1>1. ConnTenant[c] \in Tenants /\ ConnEngine[c] \in Engines /\ StatusSender(c) \in Conns
  BY ConstantsAssumption, StatusSenderType
<1>2. \A d \in Conns : connState[d] # "closed" => connState'[d] # "closed"
  BY DEF Unreport, TypeOK, ConnTypeOK
<1>3. connState[StatusSender(c)] # "closed" /\ ~ConnLocal[StatusSender(c)]
  BY StatusSenderLive DEF Unreport
<1>4. \A tn \in Tenants, e \in Engines :
        engines'[tn][e] # NoEntry => engines'[tn][e] = engines[tn][e]
  <2>1. CASE RemoveEngine(c)
    BY <1>1, <2>1 DEF RemoveEngine, TypeOK, TableTypeOK
  <2>2. CASE ~RemoveEngine(c)
    BY <2>2 DEF Unreport, tableVars
  <2> QED
    BY <2>1, <2>2
<1>5. \A tn \in Tenants, e \in Engines :
        engines[tn][e] # NoEntry => engines[tn][e].sender \in Conns
  BY DEF TypeOK, TableTypeOK, Entry
<1>6. \A tn \in Tenants, e \in Engines :
        engines'[tn][e] # NoEntry => connState'[engines'[tn][e].sender] # "closed"
  BY <1>2, <1>4, <1>5 DEF SendersLive
<1>7. \A e \in Engines : /\ serverSender[e] # NoConn => serverSender[e] \in Conns
                         /\ \/ serverSender'[e] = serverSender[e]
                            \/ serverSender'[e] = StatusSender(c)
  BY DEF Unreport, TypeOK, ConnTypeOK
<1>8. \A e \in Engines :
        serverSender'[e] # NoConn =>
          connState'[serverSender'[e]] # "closed" /\ ~ConnLocal[serverSender'[e]]
  BY <1>1, <1>2, <1>3, <1>7 DEF SendersLive
<1> QED
  BY <1>6, <1>8 DEF SendersLive

LEMMA NextLive ==
  ASSUME TypeOK, RightInv, SendersLive, [Next]_vars
  PROVE  SendersLive'
<1>1. ASSUME UNCHANGED <<engines, serverSender, connState>>
      PROVE  SendersLive'
  BY <1>1 DEF SendersLive
<1>2. ASSUME NEW c \in Conns, ConnStep(c)
      PROVE  SendersLive'
  <2>1. CASE \E s \in Statuses : EngineStatus(c, s)
    BY <2>1, EngineStatusLive
  <2>2. CASE \E t \in Tasks : CancelTask(c, t)
    BY <1>1, <2>2 DEF CancelTask, tableVars
  <2>3. CASE Break(c)
    <3>1. \A d \in Conns : connState[d] # "closed" => connState'[d] # "closed"
      BY <2>3 DEF Break, TypeOK, ConnTypeOK
    <3>2. UNCHANGED <<engines, serverSender>>
      BY <2>3 DEF Break, tableVars
    <3>3. \A tn \in Tenants, e \in Engines :
            engines[tn][e] # NoEntry => engines[tn][e].sender \in Conns
      BY DEF TypeOK, TableTypeOK, Entry
    <3>4. \A e \in Engines : serverSender[e] # NoConn => serverSender[e] \in Conns
      BY DEF TypeOK, ConnTypeOK
    <3> QED
      BY <3>1, <3>2, <3>3, <3>4 DEF SendersLive
  <2>4. CASE Close(c)
    BY <2>4, CloseLive
  <2>5. CASE Unreport(c)
    BY <2>5, UnreportLive
  <2> QED
    BY <1>2, <2>1, <2>2, <2>3, <2>4, <2>5 DEF ConnStep
<1>3. ASSUME NEW t \in Tasks, TaskStep(t) \/ CtxDone(t)
      PROVE  SendersLive'
  BY <1>1, <1>3 DEF TaskStep, CtxDone, Start, Enqueue, FinishOnCtxDone, FinishOnOutOfOrder,
              FinishOnError, FinishOnForwardError, Retry, HandleSecondResponse, HandleLast,
              HandleNext, BodyRead, Leave, LeaveWithError, tableVars, connVars
<1>4. CASE RunStep
  BY <1>1, <1>4 DEF RunStep, RunDequeue, RunRoute, RunChoose, RunAssign, RunSend, ScheduleFails,
                    tableVars, connVars
<1>5. ASSUME NEW job \in timers, TimerFire(job)
      PROVE  SendersLive'
  BY <1>1, <1>5 DEF TimerFire, tableVars, connVars
<1>6. ASSUME NEW x \in exec, ExecStep(x)
      PROVE  SendersLive'
  BY <1>1, <1>6 DEF ExecStep, Respond, SendEvent, Abort, tableVars, connVars
<1>7. CASE UNCHANGED vars
  BY <1>1, <1>7 DEF vars, tableVars, connVars
<1> QED
  BY <1>2, <1>3, <1>4, <1>5, <1>6, <1>7 DEF Next, Idle

LEMMA AccountedImplies ==
  ASSUME TypeOK, AllAccounted, SendersLive
  PROVE  NoLostTask
<1> SUFFICES ASSUME NEW t \in Tasks \ discarded, pc[t] = "waiting"
             PROVE  \/ \E n \in 0..MaxRetryCount : <<t, n>> \in Queued \cup timers \cup Held
                    \/ resultCh[t] # <<>>
                    \/ \E c \in Conns : t \in pendingCancel[c]
                    \/ /\ engineID[t] # NoEngine
                       /\ engines[TaskTenant[t]][engineID[t]] # NoEntry
                       /\ connState[engines[TaskTenant[t]][engineID[t]].sender] # "closed"
  BY DEF NoLostTask
<1>1. CASE OnTheWay(t)
  <2>1. PICK job \in Queued \cup timers \cup Held : job[1] = t
    BY <1>1 DEF OnTheWay, InTransit
  <2>2. job \in Job /\ job[2] \in 0..MaxRetryCount /\ job = <<job[1], job[2]>>
    BY <2>1, CopiesType
  <2> QED
    BY <2>1, <2>2
<1>2. CASE HasError(t)
  BY <1>2 DEF HasError
<1>3. CASE ToldSoon(t)
  BY <1>3 DEF ToldSoon
<1>4. CASE OnEngine(t)
  <2>1. TaskTenant[t] \in Tenants /\ engineID[t] \in Engines
    BY <1>4, ConstantsAssumption DEF OnEngine, TypeOK, RetryTypeOK
  <2> QED
    BY <1>4, <2>1 DEF OnEngine, SendersLive
<1> QED
  BY <1>1, <1>2, <1>3, <1>4 DEF AllAccounted, Accounted

(***************************************************************************)
(* A task that waits has a copy on its way, a result or a cancellation due *)
(* to it, or a registered engine whose stream handler is still there and   *)
(* will cancel it, however removals, retries and reconnections interleave  *)
(* with the scheduler; unless a result of it was dropped.                  *)
(***************************************************************************)
THEOREM TasksAreNotLost == Spec => []NoLostTask
<1>1. Init => AllAccounted /\ SendersLive
  BY DEF Init, AllAccounted, SendersLive
<1>2. TypeOK /\ RightInv /\ AllAccounted /\ SendersLive /\ [Next]_vars
        => AllAccounted' /\ SendersLive'
  BY NextAccounted, NextLive
<1>3. TypeOK /\ AllAccounted /\ SendersLive => NoLostTask
  BY AccountedImplies
<1> QED
  BY <1>1, <1>2, <1>3, TypeCorrect, RightInvariant, PTL DEF Spec

(***************************************************************************)
(* What a step is for one task: a step of its goroutine, a result written  *)
(* to its channel, or nothing.                                             *)
(***************************************************************************)
SameCall(t) ==
  /\ pc'[t] = pc[t] /\ client'[t] = client[t] /\ source'[t] = source[t]
  /\ nextResultIndex'[t] = nextResultIndex[t] /\ retryCount'[t] = retryCount[t]

Untouched(t) == SameCall(t) /\ resultCh'[t] = resultCh[t]

Wrote(t, r) == SameCall(t) /\ resultCh'[t] = Append(resultCh[t], r)

Response(x, code) ==
  [kind |-> "http", code |-> code, idx |-> 0, attempt |-> x.job[2]]
Event(x) == [kind |-> "sse", code |-> "none", idx |-> x.next, attempt |-> x.job[2]]
Codes == {"ok", "unavailable", "internal", "other"}

\* A result for t arrives: an error, or what an execution of t answers.
Arrives(t) ==
  \/ Wrote(t, ErrResult)
  \/ \E x \in exec :
       /\ x.job[1] = t
       /\ \/ \E code \in Codes : Respond(x, code) /\ Wrote(t, Response(x, code))
          \/ SendEvent(x) /\ Wrote(t, Event(x))

LEMMA ExecutionResults ==
  ASSUME TypeOK, NEW x \in exec
  PROVE  /\ x \in Execution /\ x.job \in Job /\ x.job[1] \in Tasks
         /\ x.job[2] \in 0..MaxRetryCount /\ x.next \in 0..NumChunks
         /\ \A code \in Codes : Response(x, code) \in Result
         /\ Event(x) \in Result
<1>1. /\ x \in Execution /\ x.job \in Job /\ x.job[1] \in Tasks
      /\ x.job[2] \in 0..MaxRetryCount /\ x.next \in 0..NumChunks
  BY DEF TypeOK, ExecTypeOK, Execution, Job
<1>2. \A code \in Codes : Response(x, code) \in Result
  BY <1>1, ConstantsAssumption DEF Response, Result, Codes
<1>3. Event(x) \in Result
  BY <1>1 DEF Event, Result
<1> QED
  BY <1>1, <1>2, <1>3

LEMMA WriteEffect ==
  ASSUME TypeOK, NEW u \in Tasks, NEW r \in Result, WriteResult(u, r),
         UNCHANGED <<callVars, retryCount>>, NEW t \in Tasks
  PROVE  Untouched(t) \/ (t = u /\ Wrote(t, r))
<1>1. SameCall(t)
  BY DEF SameCall, callVars
<1> QED
  BY <1>1, WrittenOrNot DEF Untouched, Wrote

LEMMA OtherTaskEffect ==
  ASSUME TypeOK, NEW s \in Tasks, TaskStep(s) \/ CtxDone(s), NEW t \in Tasks, t # s \/ CtxDone(s)
  PROVE  Untouched(t)
<1>1. CASE CtxDone(s)
  BY <1>1 DEF CtxDone, callVars, retryVars, chVars, Untouched, SameCall
<1>2. ASSUME NEW o, Leave(s, o), UNCHANGED <<nextResultIndex, source>>, t # s
      PROVE  Untouched(t)
  BY <1>2 DEF Leave, retryVars, Untouched, SameCall, TypeOK, CallTypeOK, ChTypeOK
<1>3. CASE t # s /\ (Start(s) \/ Enqueue(s) \/ Retry(s) \/ HandleSecondResponse(s))
  BY <1>3 DEF Start, Enqueue, Retry, HandleSecondResponse, Pop, callVars, retryVars, chVars,
              Untouched, SameCall, TypeOK, CallTypeOK, ChTypeOK, RetryTypeOK
<1>4. CASE t # s /\ (\/ FinishOnCtxDone(s) \/ FinishOnOutOfOrder(s) \/ FinishOnError(s)
                     \/ FinishOnForwardError(s))
  BY <1>2, <1>4 DEF FinishOnCtxDone, FinishOnOutOfOrder, FinishOnError, FinishOnForwardError,
                    LeaveWithError
<1>5. CASE t # s /\ HandleLast(s)
  BY <1>5 DEF HandleLast, Accept, Leave, Pop, retryVars, Untouched, SameCall,
              TypeOK, CallTypeOK, ChTypeOK
<1>6. CASE t # s /\ HandleNext(s)
  BY <1>6 DEF HandleNext, Accept, Pop, retryVars, Untouched, SameCall, TypeOK, CallTypeOK, ChTypeOK
<1>7. CASE t # s /\ BodyRead(s)
  <2>1. CASE Leave(s, "complete") /\ UNCHANGED <<nextResultIndex, source>>
    BY <1>2, <1>7, <2>1
  <2>2. CASE ~(Leave(s, "complete") /\ UNCHANGED <<nextResultIndex, source>>)
    BY <1>7, <2>2 DEF BodyRead, retryVars, chVars, Untouched, SameCall, TypeOK, CallTypeOK
  <2> QED
    BY <2>1, <2>2
<1> QED
  BY <1>1, <1>3, <1>4, <1>5, <1>6, <1>7 DEF TaskStep

LEMMA RunEffect ==
  ASSUME TypeOK, RunStep, NEW t \in Tasks
  PROVE  Untouched(t) \/ Wrote(t, ErrResult)
<1>1. UNCHANGED <<callVars, retryCount>>
  BY DEF RunStep, RunDequeue, RunRoute, RunChoose, RunAssign, RunSend, ScheduleFails, retryVars
<1>2. resultCh' = resultCh \/ ScheduleFails
  BY DEF RunStep, RunDequeue, RunRoute, RunChoose, RunAssign, RunSend, chVars
<1>3. CASE resultCh' = resultCh
  BY <1>1, <1>3 DEF Untouched, SameCall, callVars
<1>4. CASE ScheduleFails /\ run.job \in Job
  <2>1. run.job[1] \in Tasks /\ WriteResult(run.job[1], ErrResult)
    BY <1>4 DEF ScheduleFails, Job
  <2> QED
    BY <1>1, <2>1, ErrResultType, WriteEffect
<1>5. run.job \in Job \/ RunDequeue
  BY DEF RunStep, RunRoute, RunChoose, RunAssign, RunSend, TypeOK, RunTypeOK
<1> QED
  BY <1>2, <1>3, <1>4, <1>5 DEF RunDequeue, chVars

LEMMA ConnEffect ==
  ASSUME TypeOK, NEW c \in Conns, ConnStep(c), NEW t \in Tasks
  PROVE  Untouched(t) \/ Wrote(t, ErrResult)
<1>1. UNCHANGED <<callVars, retryCount>>
  BY DEF ConnStep, EngineStatus, CancelTask, Break, Close, Unreport, retryVars
<1>2. resultCh' = resultCh \/ \E u \in Tasks : WriteResult(u, ErrResult)
  BY DEF ConnStep, EngineStatus, CancelTask, Break, Close, Unreport, chVars
<1>3. CASE resultCh' = resultCh
  BY <1>1, <1>3 DEF Untouched, SameCall, callVars
<1> QED
  BY <1>1, <1>2, <1>3, ErrResultType, WriteEffect

LEMMA ExecEffect ==
  ASSUME TypeOK, NEW x \in exec, ExecStep(x), NEW t \in Tasks
  PROVE  Untouched(t) \/ Arrives(t)
<1>1. UNCHANGED <<callVars, retryCount>>
  BY DEF ExecStep, Respond, SendEvent, Abort, retryVars
<1>2. ASSUME NEW code \in Codes, Respond(x, code)
      PROVE  Untouched(t) \/ Arrives(t)
  <2>1. x.job[1] \in Tasks /\ Response(x, code) \in Result /\ WriteResult(x.job[1], Response(x, code))
    BY <1>2, ExecutionResults DEF Respond, Response
  <2>2. Untouched(t) \/ (t = x.job[1] /\ Wrote(t, Response(x, code)))
    BY <1>1, <2>1, WriteEffect
  <2> QED
    BY <1>2, <2>2 DEF Arrives
<1>3. CASE SendEvent(x)
  <2>1. x.job[1] \in Tasks /\ Event(x) \in Result /\ WriteResult(x.job[1], Event(x))
    BY <1>3, ExecutionResults DEF SendEvent, Event
  <2>2. Untouched(t) \/ (t = x.job[1] /\ Wrote(t, Event(x)))
    BY <1>1, <2>1, WriteEffect
  <2> QED
    BY <1>3, <2>2 DEF Arrives
<1>4. CASE Abort(x)
  BY <1>1, <1>4 DEF Abort, chVars, callVars, Untouched, SameCall
<1> QED
  BY <1>2, <1>3, <1>4 DEF ExecStep, Codes

LEMMA Effect ==
  ASSUME TypeOK, [Next]_vars, NEW t \in Tasks
  PROVE  TaskStep(t) \/ Untouched(t) \/ Arrives(t)
<1>1. CASE RunStep
  BY <1>1, RunEffect DEF Arrives
<1>2. ASSUME NEW s \in Tasks, TaskStep(s) \/ CtxDone(s)
      PROVE  TaskStep(t) \/ Untouched(t)
  BY <1>2, OtherTaskEffect
<1>3. ASSUME NEW job \in timers, TimerFire(job)
      PROVE  Untouched(t)
  BY <1>3 DEF TimerFire, callVars, retryVars, chVars, Untouched, SameCall
<1>4. ASSUME NEW c \in Conns, ConnStep(c)
      PROVE  Untouched(t) \/ Arrives(t)
  BY <1>4, ConnEffect DEF Arrives
<1>5. ASSUME NEW x \in exec, ExecStep(x)
      PROVE  Untouched(t) \/ Arrives(t)
  BY <1>5, ExecEffect
<1>6. CASE UNCHANGED vars
  BY <1>6 DEF vars, callVars, retryVars, chVars, Untouched, SameCall
<1> QED
  BY <1>1, <1>2, <1>3, <1>4, <1>5, <1>6 DEF Next, Idle

(***************************************************************************)
(* The invariants of the results.  In a channel an event has an index, and *)
(* a task with a target, which is never retried, has results of attempt 0. *)
(***************************************************************************)
ChannelOK(t) ==
  /\ \A i \in DOMAIN resultCh[t] :
       /\ resultCh[t][i].kind = "sse" => resultCh[t][i].idx # 0
       /\ TaskTarget[t] # NoEngine => resultCh[t][i].attempt = 0
  /\ TaskTarget[t] # NoEngine => retryCount[t] = 0 /\ source[t] \subseteq {0}

\* A caller that waits has got nothing; one that is done stays so, and has
\* the response only or all the events.
CallOK(t) ==
  /\ ~TaskForwarded[t] /\ client[t] = "waiting" => source[t] = {} /\ nextResultIndex[t] = 0
  /\ client[t] = "complete" => pc[t] = "done"
  /\ TaskStream[t] /\ (pc[t] = "closing" \/ client[t] = "complete") =>
       nextResultIndex[t] \in {1, NumChunks + 1}

(***************************************************************************)
(* A forwarded task is executed once and so is answered once: while a copy *)
(* of it is under way nothing has been answered, and while the response is *)
(* in the channel nothing has been passed on.                              *)
(***************************************************************************)
Responses(t) == {i \in DOMAIN resultCh[t] : resultCh[t][i].kind = "http"}

Unanswered(t) ==
  \/ pc[t] \in {"new", "enqueue"}
  \/ \E job \in Queued \cup timers \cup Held : job[1] = t
  \/ \E x \in exec : x.job[1] = t /\ x.next = 0

AnsweredOnce(t) ==
  TaskForwarded[t] =>
    /\ Unanswered(t) => nextResultIndex[t] = 0 /\ Responses(t) = {}
    /\ Responses(t) # {} => nextResultIndex[t] = 0
    /\ \A i, j \in Responses(t) : i = j

(***************************************************************************)
(* An event of an attempt comes after the response that opened the stream, *)
(* which is in the channel before it or has been passed on.                *)
(***************************************************************************)
Opens(r, a) == r.kind = "http" /\ r.code = "ok" /\ r.attempt = a

Opened(q, src, a) == a \in src \/ \E j \in DOMAIN q : Opens(q[j], a)

EventsFollow(q, src) ==
  \A i \in DOMAIN q :
    q[i].kind = "sse" => q[i].attempt \in src \/ \E j \in 1..i : Opens(q[j], q[i].attempt)

Live == {"new", "enqueue", "waiting", "writing"}

InSequence(t) ==
  t \notin discarded /\ pc[t] \in Live =>
    /\ EventsFollow(resultCh[t], source[t])
    /\ \A x \in exec : x.job[1] = t /\ x.next # 0 => Opened(resultCh[t], source[t], x.job[2])

FromOneAttempt(t) == t \notin discarded => \A a, b \in source[t] : a = b

(***************************************************************************)
(* Steps of a goroutine, by what they take from the channel.               *)
(***************************************************************************)
NothingTaken(t) ==
  /\ client'[t] = client[t] /\ source'[t] = source[t]
  /\ nextResultIndex'[t] = nextResultIndex[t]

\* Start, Enqueue or the end of a write.
Proceeds(t) ==
  /\ \/ pc[t] = "new" /\ pc'[t] = "enqueue"
     \/ pc[t] \in {"enqueue", "writing"} /\ pc'[t] = "waiting"
  /\ NothingTaken(t) /\ retryCount'[t] = retryCount[t] /\ resultCh'[t] = resultCh[t]

Retries(t) ==
  /\ pc[t] = "waiting" /\ pc'[t] = "waiting" /\ NothingTaken(t)
  /\ TaskTarget[t] = NoEngine /\ ~\E a : Opens(Head(resultCh[t]), a)
  /\ resultCh[t] # <<>> /\ resultCh'[t] = Tail(resultCh[t])

Blocks(t) ==
  /\ pc[t] = "waiting" /\ pc'[t] = "blocked" /\ NothingTaken(t) /\ client[t] # "waiting"
  /\ ~TaskForwarded[t] /\ retryCount'[t] = retryCount[t]
  /\ resultCh[t] # <<>> /\ resultCh'[t] = Tail(resultCh[t])

\* The goroutine returns with nothing more for the caller.
Returns(t) ==
  /\ pc[t] \in {"waiting", "closing"} /\ pc'[t] = "done" /\ resultCh'[t] = <<>>
  /\ source'[t] = source[t] /\ nextResultIndex'[t] = nextResultIndex[t]
  /\ retryCount'[t] = retryCount[t]
  /\ client'[t] = IF pc[t] = "closing" THEN "complete"
                  ELSE IF client[t] = "waiting" THEN "failed" ELSE "truncated"

\* A result is accepted.
Takes(t) ==
  LET r == Head(resultCh[t])
  IN  /\ pc[t] = "waiting" /\ resultCh[t] # <<>> /\ Deliverable(t, r)
      /\ nextResultIndex'[t] = nextResultIndex[t] + 1
      /\ source'[t] = source[t] \cup {r.attempt}
      /\ retryCount'[t] = retryCount[t]
      /\ \/ /\ pc'[t] = "done" /\ client'[t] = "complete" /\ resultCh'[t] = <<>>
            /\ IsLast(t, r)
         \/ /\ pc'[t] = "closing" /\ client'[t] = "responded" /\ IsLast(t, r)
            /\ r.kind = "http" /\ resultCh'[t] = Tail(resultCh[t])
         \/ /\ pc'[t] \in {"waiting", "writing"} /\ client'[t] = "responded"
            /\ ~IsLast(t, r) /\ resultCh'[t] = Tail(resultCh[t])

LEMMA OwnEffect ==
  ASSUME TypeOK, NEW t \in Tasks, TaskStep(t)
  PROVE  Proceeds(t) \/ Retries(t) \/ Blocks(t) \/ Returns(t) \/ Takes(t)
<1>1. CASE Start(t) \/ Enqueue(t)
  BY <1>1 DEF Start, Enqueue, Proceeds, NothingTaken, retryVars, chVars, TypeOK, CallTypeOK
<1>2. ASSUME LeaveWithError(t), pc[t] = "waiting", UNCHANGED <<nextResultIndex, source>>
      PROVE  Returns(t)
  BY <1>2 DEF LeaveWithError, Leave, Returns, retryVars, TypeOK, CallTypeOK, ChTypeOK
<1>3. CASE \/ FinishOnCtxDone(t) \/ FinishOnOutOfOrder(t) \/ FinishOnError(t)
           \/ FinishOnForwardError(t)
  BY <1>2, <1>3 DEF FinishOnCtxDone, FinishOnOutOfOrder, FinishOnError, FinishOnForwardError,
                    Received
<1>4. CASE Retry(t)
  <2>1. ~\E a : Opens(Head(resultCh[t]), a)
    BY <1>4 DEF Retry, CanRetry, IsRetriableError, Opens
  <2> QED
    BY <1>4, <2>1 DEF Retry, CanRetry, Received, Pop, Retries, NothingTaken, callVars, TypeOK, ChTypeOK
<1>5. CASE HandleSecondResponse(t)
  BY <1>5 DEF HandleSecondResponse, Received, Pop, Blocks, NothingTaken, retryVars, TypeOK, CallTypeOK, ChTypeOK
<1>6. CASE HandleLast(t)
  <2>1. CASE Leave(t, "complete")
    BY <1>6, <2>1 DEF HandleLast, Received, Accept, Leave, Takes, retryVars,
                      TypeOK, CallTypeOK, ChTypeOK
  <2>2. CASE ~Leave(t, "complete")
    <3>1. Head(resultCh[t]).kind = "http"
      BY <1>6, <2>2 DEF HandleLast, IsLast, HasBody
    <3> QED
      BY <1>6, <2>2, <3>1 DEF HandleLast, Received, Accept, Pop, Takes, retryVars,
                              TypeOK, CallTypeOK, ChTypeOK
  <2> QED
    BY <2>1, <2>2
<1>7. CASE HandleNext(t)
  <2>1. pc'[t] \in {"waiting", "writing"}
    BY <1>7 DEF HandleNext, TypeOK, CallTypeOK
  <2> QED
    BY <1>7, <2>1 DEF HandleNext, Received, Accept, Pop, Takes, retryVars,
                      TypeOK, CallTypeOK, ChTypeOK
<1>8. CASE BodyRead(t)
  <2>1. CASE Leave(t, "complete") /\ pc[t] = "closing" /\ UNCHANGED <<nextResultIndex, source>>
    BY <2>1 DEF Leave, Returns, retryVars, TypeOK, CallTypeOK, ChTypeOK
  <2>2. CASE /\ pc[t] = "writing" /\ pc' = [pc EXCEPT ![t] = "waiting"]
             /\ UNCHANGED <<client, nextResultIndex, source, retryVars, chVars>>
    BY <2>2 DEF Proceeds, NothingTaken, retryVars, chVars, TypeOK, CallTypeOK
  <2> QED
    BY <1>8, <2>1, <2>2 DEF BodyRead
<1> QED
  BY <1>1, <1>3, <1>4, <1>5, <1>6, <1>7, <1>8 DEF TaskStep

(***************************************************************************)
(* The channel.                                                            *)
(***************************************************************************)
LEMMA WroteChannel ==
  ASSUME TypeOK, NEW t \in Tasks, NEW r \in Result, Wrote(t, r), ChannelOK(t),
         r.kind = "sse" => r.idx # 0,
         TaskTarget[t] # NoEngine => r.attempt = 0
  PROVE  ChannelOK(t)'
<1> DEFINE q == resultCh[t]
<1>1. q \in Seq(Result)
  BY ChannelType
<1>2. /\ Len(q) \in Nat /\ DOMAIN q = 1..Len(q)
      /\ DOMAIN Append(q, r) = 1..(Len(q) + 1)
      /\ \A i \in 1..Len(q) : Append(q, r)[i] = q[i]
      /\ Append(q, r)[Len(q) + 1] = r
  BY <1>1, AppendAt
<1>3. \A i \in 1..(Len(q) + 1) : i \in 1..Len(q) \/ i = Len(q) + 1
  BY <1>2
<1>4. resultCh'[t] = Append(q, r) /\ retryCount'[t] = retryCount[t] /\ source'[t] = source[t]
  BY DEF Wrote, SameCall
<1>5. \A i \in DOMAIN Append(q, r) : Append(q, r)[i] = r \/ \E j \in DOMAIN q : Append(q, r)[i] = q[j]
  BY <1>2, <1>3
<1>6. ASSUME NEW i \in DOMAIN resultCh'[t]
      PROVE  /\ resultCh'[t][i].kind = "sse" => resultCh'[t][i].idx # 0
             /\ TaskTarget[t] # NoEngine => resultCh'[t][i].attempt = 0
  BY <1>4, <1>5, <1>6 DEF ChannelOK
<1> QED
  BY <1>4, <1>6 DEF ChannelOK

LEMMA TailChannel ==
  ASSUME TypeOK, NEW t \in Tasks, resultCh[t] # <<>>
  PROVE  \A i \in DOMAIN Tail(resultCh[t]) : \E j \in DOMAIN resultCh[t] :
           Tail(resultCh[t])[i] = resultCh[t][j] /\ j = i + 1
<1> DEFINE q == resultCh[t]
<1>1. q \in Seq(Result)
  BY ChannelType
<1>2. /\ Len(q) \in Nat /\ DOMAIN q = 1..Len(q) /\ DOMAIN Tail(q) = 1..(Len(q) - 1)
      /\ \A i \in 1..(Len(q) - 1) : Tail(q)[i] = q[i + 1]
  BY <1>1, TailAt
<1>3. \A i \in 1..(Len(q) - 1) : i + 1 \in 1..Len(q)
  BY <1>2
<1> QED
  BY <1>2, <1>3

LEMMA HeadChannel ==
  ASSUME TypeOK, NEW t \in Tasks, resultCh[t] # <<>>
  PROVE  /\ Head(resultCh[t]) = resultCh[t][1] /\ 1 \in DOMAIN resultCh[t]
         /\ Head(resultCh[t]) \in Result
<1>1. resultCh[t] \in Seq(Result)
  BY ChannelType
<1> QED
  BY <1>1, TailAt

LEMMA ChannelStep ==
  ASSUME TypeOK, CopyInv, [Next]_vars, NEW t \in Tasks, ChannelOK(t)
  PROVE  ChannelOK(t)'
<1>1. CASE Untouched(t)
  BY <1>1 DEF Untouched, SameCall, ChannelOK
<1>2. CASE Arrives(t)
  <2>1. CASE Wrote(t, ErrResult)
    BY <2>1, ErrResultType, WroteChannel DEF ErrResult
  <2>2. ASSUME NEW x \in exec, x.job[1] = t
        PROVE  TaskTarget[t] # NoEngine => x.job[2] = 0
    <3>1. x.job \in Copies /\ x.job[2] \in Nat
      BY ExecutionResults, ConstantsAssumption DEF Copies, Executed
    <3> QED
      BY <2>2, <3>1 DEF CopyInv, RetryBounded, ChannelOK
  <2>3. ASSUME NEW x \in exec, x.job[1] = t, NEW code \in Codes, Wrote(t, Response(x, code))
        PROVE  ChannelOK(t)'
    <3>1. Response(x, code) \in Result /\ Response(x, code).kind = "http"
          /\ Response(x, code).attempt = x.job[2]
      BY ExecutionResults DEF Response
    <3> QED
      BY <2>2, <2>3, <3>1, WroteChannel
  <2>4. ASSUME NEW x \in exec, x.job[1] = t, SendEvent(x), Wrote(t, Event(x))
        PROVE  ChannelOK(t)'
    <3>1. Event(x) \in Result /\ Event(x).attempt = x.job[2] /\ Event(x).idx = x.next /\ x.next # 0
      BY <2>4, ExecutionResults DEF Event, SendEvent
    <3> QED
      BY <2>2, <2>4, <3>1, WroteChannel
  <2> QED
    BY <1>2, <2>1, <2>3, <2>4 DEF Arrives
<1>3. CASE Proceeds(t)
  BY <1>3 DEF Proceeds, NothingTaken, ChannelOK
<1>4. CASE Returns(t)
  BY <1>4 DEF Returns, ChannelOK
<1>5. ASSUME resultCh[t] # <<>>, resultCh'[t] = Tail(resultCh[t])
      PROVE  \A i \in DOMAIN resultCh'[t] :
               /\ resultCh'[t][i].kind = "sse" => resultCh'[t][i].idx # 0
               /\ TaskTarget[t] # NoEngine => resultCh'[t][i].attempt = 0
  BY <1>5, TailChannel DEF ChannelOK
<1>6. CASE Retries(t)
  BY <1>5, <1>6 DEF Retries, ChannelOK
<1>7. CASE Blocks(t)
  BY <1>5, <1>7 DEF Blocks, NothingTaken, ChannelOK
<1>8. CASE Takes(t)
  <2>1. TaskTarget[t] # NoEngine => Head(resultCh[t]).attempt = 0
    BY <1>8, HeadChannel DEF Takes, ChannelOK
  <2>2. TaskTarget[t] # NoEngine => retryCount'[t] = 0 /\ source'[t] \subseteq {0}
    BY <1>8, <2>1 DEF Takes, ChannelOK
  <2>3. resultCh[t] # <<>> /\ (resultCh'[t] = <<>> \/ resultCh'[t] = Tail(resultCh[t]))
    BY <1>8 DEF Takes
  <2> QED
    BY <1>5, <2>2, <2>3 DEF ChannelOK
<1> QED
  BY <1>1, <1>2, <1>3, <1>4, <1>6, <1>7, <1>8, Effect, OwnEffect

(***************************************************************************)
(* The call.                                                               *)
(***************************************************************************)
LEMMA TakenIsDue ==
  ASSUME TypeOK, NEW t \in Tasks, CallOK(t), AnsweredOnce(t), Takes(t)
  PROVE  LET r == Head(resultCh[t])
         IN  /\ r \in Result
             /\ \/ r.kind = "http" /\ nextResultIndex[t] = 0
                \/ r.kind = "sse" /\ (r.idx = 0 \/ r.idx = nextResultIndex[t])
             /\ r.kind = "http" /\ ~TaskForwarded[t] => source[t] = {}
<1> DEFINE r == Head(resultCh[t])
<1>1. r = resultCh[t][1] /\ 1 \in DOMAIN resultCh[t] /\ r \in Result
  BY HeadChannel DEF Takes
<1>2. Deliverable(t, r)
  BY DEF Takes
<1>3. r.kind \in {"http", "sse"}
  BY <1>1, <1>2 DEF Deliverable, IsError, IsRetriableError, Result
<1>4. r.kind = "http" => nextResultIndex[t] = 0
  <2>1. r.kind = "http" => Responses(t) # {}
    BY <1>1 DEF Responses
  <2> QED
    BY <1>2, <2>1 DEF Deliverable, CallOK, AnsweredOnce
<1>5. r.kind = "http" /\ ~TaskForwarded[t] => source[t] = {}
  BY <1>2 DEF Deliverable, CallOK
<1>6. r.kind = "sse" => (r.idx = 0 \/ r.idx = nextResultIndex[t])
  BY <1>2 DEF Deliverable, OutOfOrder
<1> QED
  BY <1>1, <1>3, <1>4, <1>5, <1>6

LEMMA CallStep ==
  ASSUME TypeOK, [Next]_vars, NEW t \in Tasks, CallOK(t), AnsweredOnce(t)
  PROVE  CallOK(t)'
<1>1. CASE Untouched(t) \/ Arrives(t)
  BY <1>1 DEF Untouched, Arrives, Wrote, SameCall, CallOK
<1>2. CASE Proceeds(t) \/ Retries(t) \/ Blocks(t)
  BY <1>2 DEF Proceeds, Retries, Blocks, NothingTaken, CallOK
<1>3. CASE Returns(t)
  BY <1>3 DEF Returns, CallOK
<1>4. CASE Takes(t)
  <2> DEFINE r == Head(resultCh[t])
  <2>1. /\ nextResultIndex'[t] = nextResultIndex[t] + 1 /\ client'[t] \in {"complete", "responded"}
        /\ client'[t] = "complete" => pc'[t] = "done"
        /\ pc'[t] = "closing" \/ client'[t] = "complete" => IsLast(t, r)
    BY <1>4 DEF Takes
  <2>2. \/ r.kind = "http" /\ nextResultIndex[t] = 0
        \/ r.kind = "sse" /\ (r.idx = 0 \/ r.idx = nextResultIndex[t])
    BY <1>4, TakenIsDue
  <2>3. NumChunks \in Nat /\ NumChunks # 0 /\ nextResultIndex[t] \in Nat
    BY ConstantsAssumption DEF TypeOK, CallTypeOK
  <2>4. r.kind = "sse" /\ IsLast(t, r) => nextResultIndex[t] = NumChunks
    BY <2>2, <2>3 DEF IsLast
  <2>5. IsLast(t, r) => nextResultIndex'[t] \in {1, NumChunks + 1}
    BY <2>1, <2>2, <2>3, <2>4
  <2> QED
    BY <2>1, <2>5 DEF CallOK
<1> QED
  BY <1>1, <1>2, <1>3, <1>4, Effect, OwnEffect

(***************************************************************************)
(* The copies of a task with a target: none is made after the first.       *)
(***************************************************************************)
LEMMA RunUnanswered ==
  ASSUME TypeOK, RunStep, NEW t \in Tasks, Unanswered(t)'
  PROVE  Unanswered(t)
<1>1. run \in RunState /\ (run.pc # "dequeue" => run.job \in Job)
      /\ (run.pc = "dequeue" => run.job = NoJob)
  BY DEF TypeOK, RunTypeOK
<1>2. pc' = pc /\ timers' = timers
  BY DEF RunStep, RunDequeue, RunRoute, RunChoose, RunAssign, RunSend, ScheduleFails, callVars
<1>3. Queued' \cup Held' \subseteq Queued \cup Held
  <2>1. CASE RunDequeue
    <3>1. queue \in Seq(Job) /\ queue # <<>> /\ queue' = Tail(queue) /\ run'.job = Head(queue)
      BY <1>1, <2>1 DEF RunDequeue, TypeOK, QueueTypeOK, RunState
    <3>2. Head(queue) \in Queued
      <4>1. Head(queue) = queue[1] /\ 1 \in DOMAIN queue
        BY <3>1
      <4> QED
        BY <4>1 DEF Queued
    <3>3. Queued' \subseteq Queued
      <4>1. /\ DOMAIN queue = 1..Len(queue) /\ DOMAIN Tail(queue) = 1..(Len(queue) - 1)
            /\ \A i \in 1..(Len(queue) - 1) : Tail(queue)[i] = queue[i + 1]
            /\ Len(queue) \in Nat
        BY <3>1, TailAt
      <4>2. \A i \in 1..(Len(queue) - 1) : i + 1 \in 1..Len(queue)
        BY <4>1
      <4> QED
        BY <3>1, <4>1, <4>2 DEF Queued
    <3> QED
      BY <3>1, <3>2, <3>3 DEF Held
  <2>2. CASE ~RunDequeue
    <3>1. queue' = queue
      BY <2>2 DEF RunStep, RunRoute, RunChoose, RunAssign, RunSend, ScheduleFails
    <3>2. run'.job = run.job \/ run' = IdleRun
      BY <1>1, <2>2 DEF RunStep, RunRoute, RunChoose, RunAssign, RunSend, ScheduleFails, RunState
    <3> QED
      BY <3>1, <3>2 DEF Queued, Held, IdleRun
  <2> QED
    BY <2>1, <2>2
<1>4. ASSUME NEW x \in exec', x \notin exec
      PROVE  x.job \in Held
  <2>1. RunSend /\ x = [job |-> run.job, conn |-> Sender, next |-> 0]
    BY <1>4 DEF RunStep, RunDequeue, RunRoute, RunChoose, RunAssign, RunSend, ScheduleFails
  <2>2. x.job = run.job /\ run.job \in Job
    BY <1>1, <2>1 DEF RunSend
  <2> QED
    BY <2>2, NullsAssumption DEF Held
<1> QED
  BY <1>2, <1>3, <1>4 DEF Unanswered

LEMMA TaskUnanswered ==
  ASSUME TypeOK, NEW s \in Tasks, TaskStep(s) \/ CtxDone(s),
         NEW t \in Tasks, TaskTarget[t] # NoEngine, Unanswered(t)'
  PROVE  Unanswered(t)
<1>1. run' = run /\ exec' = exec
  BY DEF TaskStep, CtxDone, Start, Enqueue, FinishOnCtxDone, FinishOnOutOfOrder,
         FinishOnError, FinishOnForwardError, Retry, HandleSecondResponse, HandleLast,
         HandleNext, BodyRead, Leave, LeaveWithError
<1>2. CASE Enqueue(s)
  <2>1. queue \in Seq(Job) /\ <<s, 0>> \in Job
    BY ConstantsAssumption DEF TypeOK, QueueTypeOK, Job
  <2>2. Queued' = Queued \cup {<<s, 0>>} /\ timers' = timers
    BY <1>2, <2>1, AppendElements DEF Enqueue, Queued
  <2>3. pc[s] = "enqueue" /\ \A u \in Tasks \ {s} : pc'[u] = pc[u]
    BY <1>2 DEF Enqueue, TypeOK, CallTypeOK
  <2>4. <<s, 0>>[1] = s
    OBVIOUS
  <2> QED
    BY <1>1, <2>2, <2>3, <2>4 DEF Unanswered, Held
<1>3. CASE Retry(s)
  <2>1. timers' = timers \cup {<<s, retryCount[s] + 1>>} /\ queue' = queue /\ pc' = pc
        /\ TaskTarget[s] = NoEngine
    BY <1>3 DEF Retry, CanRetry, callVars
  <2>2. <<s, retryCount[s] + 1>>[1] = s
    OBVIOUS
  <2> QED
    BY <1>1, <2>1, <2>2 DEF Unanswered, Held, Queued
<1>4. CASE ~Enqueue(s) /\ ~Retry(s)
  <2>1. queue' = queue /\ timers' = timers
    BY <1>4 DEF TaskStep, CtxDone, Start, FinishOnCtxDone, FinishOnOutOfOrder,
                FinishOnError, FinishOnForwardError, HandleSecondResponse, HandleLast,
                HandleNext, BodyRead, Leave, LeaveWithError
  <2>2. pc'[t] \in {"new", "enqueue"} => pc[t] \in {"new", "enqueue"}
    <3>1. CASE t = s /\ TaskStep(s)
      BY <3>1, OwnEffect DEF Proceeds, Retries, Blocks, Returns, Takes
    <3>2. CASE t # s \/ CtxDone(s)
      BY <3>2, OtherTaskEffect DEF Untouched, SameCall
    <3> QED
      BY <3>1, <3>2
  <2> QED
    BY <1>1, <2>1, <2>2 DEF Unanswered, Held, Queued
<1> QED
  BY <1>2, <1>3, <1>4

LEMMA ExecUnanswered ==
  ASSUME TypeOK, NEW x \in exec, ExecStep(x)
  PROVE  /\ UNCHANGED <<pc, queue, timers, run, retryCount>>
         /\ \A y \in exec' : \/ y \in exec \ {x}
                             \/ y.job = x.job /\ y.next = x.next + 1 /\ y.next # 0
<1>1. UNCHANGED <<pc, queue, timers, run, retryCount>>
  BY DEF ExecStep, Respond, SendEvent, Abort, callVars, retryVars
<1>2. \A y \in exec' : y \in exec \ {x} \/ y = [x EXCEPT !.next = @ + 1]
  BY DEF ExecStep, Respond, SendEvent, Abort, Advance
<1>3. x \in Execution /\ x.next \in Nat
  BY ExecutionResults, ConstantsAssumption
<1>4. [x EXCEPT !.next = @ + 1].job = x.job /\ [x EXCEPT !.next = @ + 1].next = x.next + 1
      /\ x.next + 1 # 0
  BY <1>3 DEF Execution
<1> QED
  BY <1>1, <1>2, <1>4

LEMMA NextUnanswered ==
  ASSUME TypeOK, [Next]_vars, NEW t \in Tasks, TaskTarget[t] # NoEngine, Unanswered(t)'
  PROVE  Unanswered(t)
<1>1. ASSUME NEW job \in timers, TimerFire(job)
      PROVE  Unanswered(t)
  <2>1. queue \in Seq(Job) /\ job \in Job
    BY DEF TypeOK, QueueTypeOK
  <2>2. Queued' = Queued \cup {job} /\ timers' = timers \ {job}
    BY <1>1, <2>1, AppendElements DEF TimerFire, Queued
  <2>3. UNCHANGED <<pc, run, exec>>
    BY <1>1 DEF TimerFire, callVars
  <2> QED
    BY <2>2, <2>3 DEF Unanswered, Held
<1>2. ASSUME NEW c \in Conns, ConnStep(c)
      PROVE  Unanswered(t)
  <2>1. UNCHANGED <<pc, queue, timers>> /\ exec' \subseteq exec
    BY <1>2 DEF ConnStep, EngineStatus, CancelTask, Break, Close, Unreport, callVars
  <2>2. run'.job = run.job
    BY <1>2 DEF ConnStep, EngineStatus, CancelTask, Break, Close, Unreport, RemoveEngine,
                TypeOK, RunTypeOK, RunState
  <2> QED
    BY <2>1, <2>2 DEF Unanswered, Held, Queued
<1>3. ASSUME NEW x \in exec, ExecStep(x)
      PROVE  Unanswered(t)
  BY <1>3, ExecUnanswered DEF Unanswered, Held, Queued
<1>4. CASE UNCHANGED vars
  BY <1>4 DEF vars, callVars, Unanswered, Held, Queued
<1> QED
  BY <1>1, <1>2, <1>3, <1>4, RunUnanswered, TaskUnanswered DEF Next, Idle

\* The response of the only copy: no other is under way.
LEMMA LastAnswer ==
  ASSUME TypeOK, CopyInv, NEW x \in exec, NEW code \in Codes, Respond(x, code),
         retryCount[x.job[1]] = 0
  PROVE  /\ Unanswered(x.job[1])
         /\ \A t \in Tasks : t = x.job[1] => ~Unanswered(t)'
<1> DEFINE u == x.job[1]
<1>1. x.job \in Executed /\ x.job \in Copies /\ x.job \in Job /\ u \in Tasks
  BY ExecutionResults DEF Copies, Executed
<1>2. pc[u] \notin {"new", "enqueue"} /\ x.next = 0
  BY <1>1 DEF CopyInv, RetryBounded, Respond
<1>3. \A job \in Copies : job[1] = u => job = x.job
  <2>1. \A job \in Copies : job \in Job /\ job[1] \in Tasks /\ job[2] \in Nat
                            /\ job = <<job[1], job[2]>>
    BY CopiesType, ConstantsAssumption
  <2>2. \A job \in Copies : job[1] = u => job[2] = 0
    BY <2>1 DEF CopyInv, RetryBounded
  <2> QED
    BY <1>1, <2>1, <2>2
<1>4. ExecStep(x)
  BY DEF ExecStep, Codes
<1>5. /\ UNCHANGED <<pc, queue, timers, run, retryCount>>
      /\ \A y \in exec' : y \in exec \ {x} \/ y.next # 0
  BY <1>4, ExecUnanswered
<1>6. \A job \in Queued \cup timers \cup Held : job \in Copies /\ job # x.job
  BY <1>1 DEF Copies, CopyInv, CopiesAreDistinct
<1>7. \A y \in exec \ {x} : y.job \in Copies /\ y.job # x.job
  BY DEF Copies, Executed, CopyInv, CopiesAreDistinct
<1>8. ~Unanswered(u) \/ \E y \in exec : y.job[1] = u /\ y.next = 0
  BY <1>2
<1>9. Unanswered(u)
  BY <1>2 DEF Unanswered
<1>10. ASSUME NEW t \in Tasks, t = u
       PROVE  ~Unanswered(t)'
  <2>1. ~\E job \in Queued' \cup timers' \cup Held' : job[1] = t
    BY <1>3, <1>5, <1>6, <1>10 DEF Queued, Held
  <2>2. ~\E y \in exec' : y.job[1] = t /\ y.next = 0
    BY <1>3, <1>5, <1>7, <1>10
  <2> QED
    BY <1>2, <1>5, <1>10, <2>1, <2>2 DEF Unanswered
<1> QED
  BY <1>9, <1>10

\* What the responses in the channel are after Append and Tail.
LEMMA AppendResponses ==
  ASSUME TypeOK, NEW t \in Tasks, NEW r \in Result, resultCh'[t] = Append(resultCh[t], r)
  PROVE  /\ r.kind # "http" => Responses(t)' = Responses(t)
         /\ Responses(t) = {} => \A i, j \in Responses(t)' : i = j
<1> DEFINE q == resultCh[t]
<1>1. q \in Seq(Result)
  BY ChannelType
<1>2. /\ Len(q) \in Nat /\ DOMAIN q = 1..Len(q)
      /\ DOMAIN Append(q, r) = 1..(Len(q) + 1)
      /\ \A i \in 1..Len(q) : Append(q, r)[i] = q[i]
      /\ Append(q, r)[Len(q) + 1] = r
  BY <1>1, AppendAt
<1>3. \A i : i \in 1..(Len(q) + 1) <=> i \in 1..Len(q) \/ i = Len(q) + 1
  BY <1>2
<1>4. Responses(t)' = {i \in 1..(Len(q) + 1) : Append(q, r)[i].kind = "http"}
  BY <1>2 DEF Responses
<1>5. Responses(t) = {i \in 1..Len(q) : q[i].kind = "http"}
  BY <1>2 DEF Responses
<1> QED
  BY <1>2, <1>3, <1>4, <1>5

LEMMA AnsweredStep ==
  ASSUME TypeOK, CopyInv, [Next]_vars, NEW t \in Tasks,
         ChannelOK(t), CallOK(t), AnsweredOnce(t)
  PROVE  AnsweredOnce(t)'
<1> SUFFICES ASSUME TaskForwarded[t]
             PROVE  /\ Unanswered(t)' => nextResultIndex'[t] = 0 /\ Responses(t)' = {}
                    /\ Responses(t)' # {} => nextResultIndex'[t] = 0
                    /\ \A i, j \in Responses(t)' : i = j
  BY DEF AnsweredOnce
<1>1. TaskTarget[t] # NoEngine
  BY ConstantsAssumption
<1>2. Unanswered(t)' => Unanswered(t)
  BY <1>1, NextUnanswered
<1>3. /\ Unanswered(t) => nextResultIndex[t] = 0 /\ Responses(t) = {}
      /\ Responses(t) # {} => nextResultIndex[t] = 0
      /\ \A i, j \in Responses(t) : i = j
  BY DEF AnsweredOnce
<1>4. CASE nextResultIndex'[t] = nextResultIndex[t] /\ Responses(t)' \subseteq Responses(t)
  BY <1>2, <1>3, <1>4
<1>5. CASE Untouched(t) \/ Proceeds(t)
  BY <1>4, <1>5 DEF Untouched, SameCall, Proceeds, NothingTaken, Responses
<1>6. ASSUME NEW x \in exec, x.job[1] = t, NEW code \in Codes, Respond(x, code),
             Wrote(t, Response(x, code))
      PROVE  /\ ~Unanswered(t)' /\ nextResultIndex'[t] = 0
             /\ \A i, j \in Responses(t)' : i = j
  <2>1. retryCount[t] = 0
    BY <1>1 DEF ChannelOK
  <2>2. Unanswered(t) /\ ~Unanswered(t)'
    BY <1>6, <2>1, LastAnswer
  <2>3. Response(x, code) \in Result /\ resultCh'[t] = Append(resultCh[t], Response(x, code))
        /\ nextResultIndex'[t] = nextResultIndex[t]
    BY <1>6, ExecutionResults DEF Wrote, SameCall
  <2> QED
    BY <1>3, <2>2, <2>3, AppendResponses
<1>7. CASE Arrives(t)
  <2>1. CASE Wrote(t, ErrResult)
    <3>1. nextResultIndex'[t] = nextResultIndex[t] /\ resultCh'[t] = Append(resultCh[t], ErrResult)
          /\ ErrResult.kind # "http"
      BY <2>1 DEF Wrote, SameCall, ErrResult
    <3> QED
      BY <1>4, <3>1, ErrResultType, AppendResponses
  <2>2. ASSUME NEW x \in exec, Wrote(t, Event(x))
        PROVE  nextResultIndex'[t] = nextResultIndex[t] /\ Responses(t)' = Responses(t)
    <3>1. nextResultIndex'[t] = nextResultIndex[t] /\ resultCh'[t] = Append(resultCh[t], Event(x))
          /\ Event(x) \in Result /\ Event(x).kind # "http"
      BY <2>2, ExecutionResults DEF Wrote, SameCall, Event
    <3> QED
      BY <3>1, AppendResponses
  <2> QED
    BY <1>4, <1>6, <1>7, <2>1, <2>2 DEF Arrives
<1>8. ASSUME resultCh[t] # <<>>, resultCh'[t] = Tail(resultCh[t])
      PROVE  \A i \in Responses(t)' : i + 1 \in Responses(t) /\ i + 1 # 1 /\ i \in Nat
  <2>1. resultCh[t] \in Seq(Result)
    BY ChannelType
  <2>2. DOMAIN Tail(resultCh[t]) = 1..(Len(resultCh[t]) - 1) /\ Len(resultCh[t]) \in Nat
    BY <1>8, <2>1, TailAt
  <2>3. \A i \in 1..(Len(resultCh[t]) - 1) : i \in Nat /\ i + 1 # 1
    BY <2>2
  <2> QED
    BY <1>8, <2>2, <2>3, TailChannel DEF Responses
<1>9. CASE Retries(t) \/ Blocks(t)
  BY <1>1, <1>9 DEF Retries, Blocks
<1>10. CASE Returns(t)
  BY <1>4, <1>10 DEF Returns, Responses
<1>11. CASE Takes(t)
  <2> DEFINE r == Head(resultCh[t])
  <2>1. r = resultCh[t][1] /\ 1 \in DOMAIN resultCh[t]
    BY <1>11, HeadChannel DEF Takes
  <2>2. nextResultIndex[t] \in Nat
    BY DEF TypeOK, CallTypeOK
  <2>3. r.kind = "sse" => r.idx # 0
    BY <2>1 DEF ChannelOK
  <2>4. \/ r.kind = "http" /\ nextResultIndex[t] = 0
        \/ r.kind = "sse" /\ nextResultIndex[t] # 0
    BY <1>11, <2>3, TakenIsDue
  <2>5. r.kind = "http" => 1 \in Responses(t)
    BY <2>1 DEF Responses
  <2>6. ~Unanswered(t)
    BY <1>3, <2>4, <2>5
  <2>7. Responses(t)' = {}
    <3>1. CASE resultCh'[t] = <<>>
      BY <3>1 DEF Responses
    <3>2. CASE resultCh'[t] = Tail(resultCh[t])
      <4>1. \A i \in Responses(t)' : i + 1 \in Responses(t) /\ i + 1 # 1
        BY <1>8, <1>11, <3>2 DEF Takes
      <4> QED
        BY <1>3, <2>4, <2>5, <4>1
    <3> QED
      BY <1>11, <3>1, <3>2 DEF Takes
  <2> QED
    BY <1>2, <2>6, <2>7
<1> QED
  BY <1>5, <1>7, <1>9, <1>10, <1>11, Effect, OwnEffect

DeliveryInv == \A t \in Tasks : ChannelOK(t) /\ CallOK(t) /\ AnsweredOnce(t)

LEMMA DeliveryInvariant == Spec => []DeliveryInv
<1>1. Init => DeliveryInv
  <2> SUFFICES ASSUME Init, NEW t \in Tasks
               PROVE  ChannelOK(t) /\ CallOK(t) /\ AnsweredOnce(t)
    BY DEF DeliveryInv
  <2>1. /\ pc[t] = "new" /\ client[t] = "waiting" /\ nextResultIndex[t] = 0
        /\ resultCh[t] = <<>> /\ source[t] = {} /\ retryCount[t] = 0
    BY DEF Init
  <2>2. DOMAIN resultCh[t] = {}
    BY <2>1
  <2> QED
    BY <2>1, <2>2 DEF ChannelOK, CallOK, AnsweredOnce, Responses
<1>2. TypeOK /\ CopyInv /\ DeliveryInv /\ [Next]_vars => DeliveryInv'
  BY ChannelStep, CallStep, AnsweredStep DEF DeliveryInv
<1> QED
  BY <1>1, <1>2, TypeCorrect, CopiesCorrect, PTL DEF Spec

(***************************************************************************)
(* A streamed call that ends in order has had the response only, or the    *)
(* response and every event, whatever attempts they came from and whatever *)
(* was dropped before: the check of the result index lets no gap through.  *)
(***************************************************************************)
THEOREM StreamsAreWhole == Spec => []StreamIsWhole
<1>1. DeliveryInv => StreamIsWhole
  BY DEF DeliveryInv, CallOK, StreamIsWhole
<1> QED
  BY <1>1, DeliveryInvariant, PTL

(***************************************************************************)
(* The order of the responses and events in a channel, as it grows at one  *)
(* end and is emptied at the other.                                        *)
(***************************************************************************)
LEMMA AppendFollows ==
  ASSUME NEW q \in Seq(Result), NEW r \in Result, NEW src, EventsFollow(q, src),
         r.kind = "sse" => Opened(q, src, r.attempt)
  PROVE  /\ EventsFollow(Append(q, r), src)
         /\ \A a : Opened(q, src, a) \/ Opens(r, a) => Opened(Append(q, r), src, a)
<1> DEFINE p == Append(q, r)
<1>1. /\ Len(q) \in Nat /\ DOMAIN q = 1..Len(q) /\ DOMAIN p = 1..(Len(q) + 1)
      /\ \A i \in 1..Len(q) : p[i] = q[i]
      /\ p[Len(q) + 1] = r
  BY AppendAt
<1>2. \A i \in 1..(Len(q) + 1) : i \in 1..Len(q) \/ i = Len(q) + 1
  BY <1>1
<1>3. /\ \A i \in 1..Len(q) : i \in 1..(Len(q) + 1) /\ \A j \in 1..i : j \in 1..Len(q)
      /\ Len(q) + 1 \in 1..(Len(q) + 1)
  BY <1>1
<1> HIDE DEF p
<1>4. ASSUME NEW i \in DOMAIN p, p[i].kind = "sse"
      PROVE  p[i].attempt \in src \/ \E j \in 1..i : Opens(p[j], p[i].attempt)
  <2>1. CASE i \in 1..Len(q)
    BY <1>1, <1>3, <1>4, <2>1 DEF EventsFollow
  <2>2. CASE i = Len(q) + 1
    BY <1>1, <1>3, <1>4, <2>2 DEF Opened
  <2> QED
    BY <1>1, <1>2, <2>1, <2>2
<1>5. ASSUME NEW a, Opened(q, src, a) \/ Opens(r, a)
      PROVE  Opened(p, src, a)
  BY <1>1, <1>3, <1>5 DEF Opened
<1> QED
  BY <1>4, <1>5 DEF EventsFollow, p

LEMMA TailFollows ==
  ASSUME NEW q \in Seq(Result), q # <<>>, NEW src, NEW src2, src \subseteq src2,
         EventsFollow(q, src), \A a : Opens(Head(q), a) => a \in src2
  PROVE  /\ EventsFollow(Tail(q), src2)
         /\ \A a : Opened(q, src, a) => Opened(Tail(q), src2, a)
<1> DEFINE p == Tail(q)
<1>1. /\ Len(q) \in Nat /\ DOMAIN q = 1..Len(q) /\ DOMAIN p = 1..(Len(q) - 1)
      /\ \A i \in 1..(Len(q) - 1) : p[i] = q[i + 1]
      /\ Head(q) = q[1]
  BY TailAt
<1>2. /\ \A i \in 1..(Len(q) - 1) : i + 1 \in 1..Len(q)
      /\ \A i \in 1..(Len(q) - 1) : \A j \in 1..(i + 1) :
           j = 1 \/ (j - 1 \in 1..i /\ j - 1 \in 1..(Len(q) - 1) /\ (j - 1) + 1 = j)
      /\ \A j \in 1..Len(q) : j = 1 \/ (j - 1 \in 1..(Len(q) - 1) /\ (j - 1) + 1 = j)
  BY <1>1
<1> HIDE DEF p
<1>3. \A i \in DOMAIN p : i + 1 \in DOMAIN q /\ p[i] = q[i + 1]
  BY <1>1, <1>2
<1>4. ASSUME NEW i \in DOMAIN p, p[i].kind = "sse"
      PROVE  p[i].attempt \in src2 \/ \E j \in 1..i : Opens(p[j], p[i].attempt)
  <2> DEFINE a == p[i].attempt
  <2>1. a \in src \/ \E j \in 1..(i + 1) : Opens(q[j], a)
    BY <1>3, <1>4 DEF EventsFollow
  <2>2. ASSUME NEW j \in 1..(i + 1), Opens(q[j], a)
        PROVE  a \in src2 \/ \E k \in 1..i : Opens(p[k], a)
    <3>1. CASE j = 1
      BY <1>1, <2>2, <3>1
    <3>2. CASE j # 1
      <4>1. i \in 1..(Len(q) - 1)
        BY <1>1
      <4>2. j - 1 \in 1..i /\ p[j - 1] = q[j]
        BY <1>1, <1>2, <3>2, <4>1
      <4> QED
        BY <2>2, <4>2
    <3> QED
      BY <3>1, <3>2
  <2> QED
    BY <2>1, <2>2
<1>5. ASSUME NEW a, Opened(q, src, a)
      PROVE  Opened(p, src2, a)
  <2>1. ASSUME NEW j \in DOMAIN q, Opens(q[j], a)
        PROVE  Opened(p, src2, a)
    <3>1. CASE j = 1
      BY <1>1, <2>1, <3>1 DEF Opened
    <3>2. CASE j # 1
      <4>1. j - 1 \in DOMAIN p /\ p[j - 1] = q[j]
        BY <1>1, <1>2, <3>2
      <4> QED
        BY <2>1, <4>1 DEF Opened
    <3> QED
      BY <3>1, <3>2
  <2> QED
    BY <1>5, <2>1 DEF Opened
<1> QED
  BY <1>4, <1>5 DEF EventsFollow, p

\* The first thing in a channel cannot be an event of a stream not opened.
LEMMA HeadFollows ==
  ASSUME NEW q \in Seq(Result), q # <<>>, NEW src, EventsFollow(q, src), Head(q).kind = "sse"
  PROVE  Head(q).attempt \in src
<1>1. Head(q) = q[1] /\ 1 \in DOMAIN q
  BY TailAt
<1>2. \A j \in 1..1 : j = 1
  OBVIOUS
<1>3. ~Opens(q[1], q[1].attempt)
  BY <1>1 DEF Opens
<1> QED
  BY <1>1, <1>2, <1>3 DEF EventsFollow

\* A dropped result stays known: no step forgets it.
LEMMA DiscardedStays ==
  ASSUME TypeOK, [Next]_vars
  PROVE  discarded \subseteq discarded'
<1>1. ASSUME NEW t, NEW r, WriteResult(t, r)
      PROVE  discarded \subseteq discarded'
  BY <1>1 DEF WriteResult, chVars
<1>2. CASE RunStep
  BY <1>1, <1>2 DEF RunStep, RunDequeue, RunRoute, RunChoose, RunAssign, RunSend, ScheduleFails, chVars
<1>3. ASSUME NEW t \in Tasks, TaskStep(t) \/ CtxDone(t)
      PROVE  discarded' = discarded
  BY <1>3 DEF TaskStep, CtxDone, Start, Enqueue, FinishOnCtxDone, FinishOnOutOfOrder,
              FinishOnError, FinishOnForwardError, Retry, HandleSecondResponse, HandleLast,
              HandleNext, BodyRead, Leave, LeaveWithError, chVars
<1>4. ASSUME NEW job \in timers, TimerFire(job)
      PROVE  discarded' = discarded
  BY <1>4 DEF TimerFire, chVars
<1>5. ASSUME NEW c \in Conns, ConnStep(c)
      PROVE  discarded \subseteq discarded'
  BY <1>1, <1>5 DEF ConnStep, EngineStatus, CancelTask, Break, Close, Unreport, chVars
<1>6. ASSUME NEW x \in exec, ExecStep(x)
      PROVE  discarded \subseteq discarded'
  BY <1>1, <1>6 DEF ExecStep, Respond, SendEvent, Abort, chVars
<1>7. CASE UNCHANGED vars
  BY <1>7 DEF vars, chVars
<1> QED
  BY <1>2, <1>3, <1>4, <1>5, <1>6, <1>7 DEF Next, Idle

\* Only engines go on with an execution: in other steps none has advanced.
Settled == \A y \in exec' : y.next # 0 => y \in exec

LEMMA OtherStepsSettled ==
  ASSUME TypeOK, [Next]_vars
  PROVE  Settled \/ \E x \in exec : ExecStep(x)
<1>1. CASE RunStep
  <2>1. \/ exec' = exec
        \/ exec' = exec \cup {[job |-> run.job, conn |-> Sender, next |-> 0]}
    BY <1>1 DEF RunStep, RunDequeue, RunRoute, RunChoose, RunAssign, RunSend, ScheduleFails
  <2> QED
    BY <2>1 DEF Settled
<1>2. ASSUME NEW t \in Tasks, TaskStep(t) \/ CtxDone(t)
      PROVE  exec' = exec
  BY <1>2 DEF TaskStep, CtxDone, Start, Enqueue, FinishOnCtxDone, FinishOnOutOfOrder,
              FinishOnError, FinishOnForwardError, Retry, HandleSecondResponse, HandleLast,
              HandleNext, BodyRead, Leave, LeaveWithError
<1>3. ASSUME NEW job \in timers, TimerFire(job)
      PROVE  exec' = exec
  BY <1>3 DEF TimerFire
<1>4. ASSUME NEW c \in Conns, ConnStep(c)
      PROVE  exec' \subseteq exec
  <2>1. CASE Break(c)
    BY <2>1 DEF Break
  <2>2. CASE ~Break(c)
    <3>1. exec' = exec
      BY <1>4, <2>2 DEF ConnStep, EngineStatus, CancelTask, Close, Unreport
    <3> QED
      BY <3>1
  <2> QED
    BY <2>1, <2>2
<1>5. CASE UNCHANGED vars
  BY <1>5 DEF vars, Settled
<1> QED
  BY <1>1, <1>2, <1>3, <1>4, <1>5 DEF Next, Idle, Settled

\* What becomes of an execution that answers.
LEMMA Advanced ==
  ASSUME NEW x \in exec, NEW more \in BOOLEAN, Advance(x, more), x \in Execution
  PROVE  \A y \in exec' : y \in exec \/ (more /\ y.job = x.job)
<1>1. [x EXCEPT !.next = @ + 1].job = x.job
  BY DEF Execution
<1> QED
  BY <1>1 DEF Advance

LEMMA ExecInSequence ==
  ASSUME TypeOK, CopyInv, NEW x \in exec, ExecStep(x), NEW t \in Tasks, InSequence(t),
         t \notin discarded', pc'[t] \in Live
  PROVE  InSequence(t)'
<1> DEFINE q == resultCh[t]
           src == source[t]
<1>1. x \in Execution /\ x.job[1] \in Tasks
      /\ (\A code \in Codes : Response(x, code) \in Result) /\ Event(x) \in Result
  BY ExecutionResults
<1>2. pc'[t] = pc[t] /\ source'[t] = source[t] /\ discarded \subseteq discarded'
  <2>1. UNCHANGED <<callVars>>
    BY DEF ExecStep, Respond, SendEvent, Abort
  <2> QED
    BY <2>1, <1>1, WrittenOrNot
       DEF ExecStep, Respond, SendEvent, Abort, Response, Event, Codes, callVars, chVars
<1>3. /\ q \in Seq(Result) /\ EventsFollow(q, src)
      /\ \A y \in exec : y.job[1] = t /\ y.next # 0 => Opened(q, src, y.job[2])
  BY <1>2, ChannelType DEF InSequence
<1>4. ASSUME NEW r \in Result, WriteResult(x.job[1], r),
             x.job[1] = t /\ r.kind = "sse" => Opened(q, src, r.attempt),
             \A y \in exec' : \/ y \in exec
                              \/ y.job = x.job /\ (x.job[1] = t => Opened(q, src, x.job[2])
                                                                   \/ Opens(r, x.job[2]))
      PROVE  InSequence(t)'
  <2>1. CASE x.job[1] # t
    <3>1. resultCh'[t] = q
      BY <1>1, <1>4, <2>1, WrittenOrNot
    <3>2. \A y \in exec' : y.job[1] = t => y \in exec
      BY <1>4, <2>1
    <3> QED
      BY <1>2, <1>3, <3>1, <3>2 DEF InSequence
  <2>2. CASE x.job[1] = t
    <3>1. x.job \in Copies
      BY DEF Copies, Executed
    <3>2. pc[t] \notin {"new", "enqueue"}
      BY <2>2, <3>1 DEF CopyInv, RetryBounded
    <3>3. t \in InProgress
      BY <1>2, <3>2 DEF Live, InProgress
    <3>4. resultCh'[t] = Append(q, r)
      BY <1>1, <1>4, <2>2, <3>3, WrittenOrNot
    <3>5. /\ EventsFollow(Append(q, r), src)
          /\ \A a : Opened(q, src, a) \/ Opens(r, a) => Opened(Append(q, r), src, a)
      BY <1>3, <1>4, <2>2, AppendFollows
    <3> QED
      BY <1>2, <1>3, <1>4, <2>2, <3>4, <3>5 DEF InSequence
  <2> QED
    BY <2>1, <2>2
<1>5. ASSUME NEW code \in Codes, Respond(x, code)
      PROVE  InSequence(t)'
  <2> DEFINE r == Response(x, code)
             more == TaskStream[x.job[1]] /\ code = "ok"
  <2>1. r \in Result /\ WriteResult(x.job[1], r) /\ r.kind = "http" /\ r.code = code
        /\ r.attempt = x.job[2]
    BY <1>1, <1>5 DEF Respond, Response
  <2>2. \A y \in exec' : y \in exec \/ (code = "ok" /\ y.job = x.job)
    <3>1. more \in BOOLEAN /\ Advance(x, more)
      BY <1>1, <1>5, ConstantsAssumption DEF Respond
    <3> QED
      BY <1>1, <3>1, Advanced
  <2> QED
    BY <1>4, <2>1, <2>2 DEF Opens
<1>6. CASE SendEvent(x)
  <2> DEFINE r == Event(x)
             more == x.next < NumChunks
  <2>1. r \in Result /\ WriteResult(x.job[1], r) /\ r.attempt = x.job[2] /\ x.next # 0
    BY <1>1, <1>6 DEF SendEvent, Event
  <2>2. \A y \in exec' : y \in exec \/ y.job = x.job
    <3>1. more \in BOOLEAN /\ Advance(x, more)
      BY <1>6 DEF SendEvent
    <3> QED
      BY <1>1, <3>1, Advanced
  <2> QED
    BY <1>3, <1>4, <2>1, <2>2
<1>7. CASE Abort(x)
  BY <1>2, <1>3, <1>7 DEF Abort, chVars, InSequence
<1> QED
  BY <1>5, <1>6, <1>7 DEF ExecStep, Codes

LEMMA InSequenceStep ==
  ASSUME TypeOK, CopyInv, [Next]_vars, NEW t \in Tasks, CallOK(t), AnsweredOnce(t),
         InSequence(t)
  PROVE  InSequence(t)'
<1> SUFFICES ASSUME t \notin discarded', pc'[t] \in Live
             PROVE  InSequence(t)'
  BY DEF InSequence
<1> DEFINE q == resultCh[t]
           src == source[t]
<1>1. t \notin discarded /\ q \in Seq(Result)
  BY DiscardedStays, ChannelType
<1>2. CASE \E x \in exec : ExecStep(x)
  BY <1>2, ExecInSequence
<1>3. CASE Settled
  <2>1. ASSUME pc[t] \in Live, NEW q2, NEW src2, resultCh'[t] = q2, source'[t] = src2,
               EventsFollow(q, src) => EventsFollow(q2, src2)
                                       /\ \A a : Opened(q, src, a) => Opened(q2, src2, a)
        PROVE  InSequence(t)'
    BY <1>1, <1>3, <2>1 DEF InSequence, Settled
  <2>2. CASE Untouched(t) \/ Proceeds(t)
    BY <2>1, <2>2 DEF Untouched, SameCall, Proceeds, NothingTaken, Live
  <2>3. CASE Wrote(t, ErrResult)
    <3>1. ErrResult \in Result /\ ErrResult.kind # "sse" /\ pc[t] \in Live
          /\ resultCh'[t] = Append(q, ErrResult) /\ source'[t] = src
      BY <2>3, ErrResultType DEF Wrote, SameCall, ErrResult
    <3>2. EventsFollow(q, src) =>
            /\ EventsFollow(Append(q, ErrResult), src)
            /\ \A a : Opened(q, src, a) => Opened(Append(q, ErrResult), src, a)
      BY <1>1, <3>1, AppendFollows
    <3> QED
      BY <2>1, <3>1, <3>2
  <2>4. CASE Retries(t)
    <3>1. /\ pc[t] \in Live /\ q # <<>> /\ resultCh'[t] = Tail(q) /\ source'[t] = src
          /\ \A a : ~Opens(Head(q), a)
      BY <2>4 DEF Retries, NothingTaken, Live
    <3>2. EventsFollow(q, src) =>
            /\ EventsFollow(Tail(q), src)
            /\ \A a : Opened(q, src, a) => Opened(Tail(q), src, a)
      BY <1>1, <3>1, TailFollows
    <3> QED
      BY <2>1, <3>1, <3>2
  <2>5. CASE Blocks(t) \/ Returns(t)
    BY <2>5 DEF Blocks, Returns, Live
  <2>6. CASE Takes(t)
    <3> DEFINE src2 == src \cup {Head(q).attempt}
    <3>1. /\ pc[t] \in Live /\ q # <<>> /\ resultCh'[t] = Tail(q) /\ source'[t] = src2
      BY <2>6 DEF Takes, Live
    <3>2. EventsFollow(q, src) =>
            /\ EventsFollow(Tail(q), src2)
            /\ \A a : Opened(q, src, a) => Opened(Tail(q), src2, a)
      <4>1. src \subseteq src2 /\ \A a : Opens(Head(q), a) => a \in src2
        BY DEF Opens
      <4> QED
        BY <1>1, <3>1, <4>1, TailFollows
    <3> QED
      BY <2>1, <3>1, <3>2
  <2>7. CASE Arrives(t)
    BY <1>2, <2>3, <2>7 DEF Arrives, ExecStep, Codes
  <2> QED
    BY <2>2, <2>3, <2>4, <2>5, <2>6, <2>7, Effect, OwnEffect
<1> QED
  BY <1>2, <1>3, OtherStepsSettled

LEMMA FromOneAttemptStep ==
  ASSUME TypeOK, CopyInv, [Next]_vars, NEW t \in Tasks, ChannelOK(t), CallOK(t),
         AnsweredOnce(t), InSequence(t), FromOneAttempt(t)
  PROVE  FromOneAttempt(t)'
<1> SUFFICES ASSUME t \notin discarded'
             PROVE  \A a, b \in source'[t] : a = b
  BY DEF FromOneAttempt
<1>1. t \notin discarded /\ \A a, b \in source[t] : a = b
  BY DiscardedStays DEF FromOneAttempt
<1>2. CASE source'[t] = source[t]
  BY <1>1, <1>2
<1>3. CASE Takes(t)
  <2> DEFINE r == Head(resultCh[t])
  <2>1. resultCh[t] \in Seq(Result) /\ resultCh[t] # <<>> /\ pc[t] \in Live
        /\ source'[t] = source[t] \cup {r.attempt}
    BY <1>3, ChannelType DEF Takes, Live
  <2>2. CASE r.kind = "sse"
    <3>1. r.attempt \in source[t]
      BY <1>1, <2>1, <2>2, HeadFollows DEF InSequence
    <3> QED
      BY <1>1, <2>1, <3>1
  <2>3. CASE r.kind = "http" /\ ~TaskForwarded[t]
    <3>1. source[t] = {}
      BY <1>3, <2>3, TakenIsDue
    <3> QED
      BY <2>1, <3>1
  <2>4. CASE TaskForwarded[t]
    <3>1. TaskTarget[t] # NoEngine
      BY <2>4, ConstantsAssumption
    <3>2. source'[t] \subseteq {0}
      BY <3>1, ChannelStep DEF ChannelOK
    <3> QED
      BY <3>2
  <2> QED
    BY <1>3, <2>2, <2>3, <2>4, TakenIsDue
<1>4. Takes(t) \/ source'[t] = source[t]
  BY Effect, OwnEffect DEF Untouched, Arrives, Wrote, SameCall, Proceeds, Retries, Blocks,
                           Returns, NothingTaken
<1> QED
  BY <1>2, <1>3, <1>4

SourceInv == \A t \in Tasks : InSequence(t) /\ FromOneAttempt(t)

LEMMA SourceInvariant == Spec => []SourceInv
<1>1. Init => SourceInv
  <2> SUFFICES ASSUME Init, NEW t \in Tasks
               PROVE  InSequence(t) /\ FromOneAttempt(t)
    BY DEF SourceInv
  <2>1. resultCh[t] = <<>> /\ source[t] = {} /\ exec = {}
    BY DEF Init
  <2>2. DOMAIN resultCh[t] = {}
    BY <2>1
  <2> QED
    BY <2>1, <2>2 DEF InSequence, EventsFollow, FromOneAttempt
<1>2. TypeOK /\ CopyInv /\ DeliveryInv /\ SourceInv /\ [Next]_vars => SourceInv'
  BY InSequenceStep, FromOneAttemptStep DEF DeliveryInv, SourceInv
<1> QED
  BY <1>1, <1>2, TypeCorrect, CopiesCorrect, DeliveryInvariant, PTL DEF Spec

(***************************************************************************)
(* Two attempts of a streamed task may be executed at once and their       *)
(* results share the task's channel: what reaches the caller is of one     *)
(* attempt, unless a result was dropped.                                   *)
(***************************************************************************)
THEOREM StreamsHaveOneSource == Spec => []StreamFromOneAttempt
<1>1. SourceInv => StreamFromOneAttempt
  <2> SUFFICES ASSUME SourceInv, NEW t \in Tasks \ discarded
               PROVE  Cardinality(source[t]) <= 1
    BY DEF StreamFromOneAttempt
  <2>1. \A a, b \in source[t] : a = b
    BY DEF SourceInv, FromOneAttempt
  <2>2. CASE source[t] = {}
    BY <2>2, FS_EmptySet
  <2>3. ASSUME NEW a \in source[t]
        PROVE  Cardinality(source[t]) <= 1
    <3>1. source[t] = {a}
      BY <2>1, <2>3
    <3>2. Cardinality({a}) = 1
      BY FS_Singleton
    <3> QED
      BY <3>1, <3>2
  <2> QED
    BY <2>2, <2>3
<1> QED
  BY <1>1, SourceInvariant, PTL

(***************************************************************************)
(* The refinement of TaskService.  Where the goroutine is tells how far    *)
(* the call is: it is closing or done with the answer or the last event,   *)
(* and waits for more only if it has nothing yet or part of a stream.      *)
(***************************************************************************)
StageOK(t) ==
  /\ client[t] \in {"complete", "truncated", "failed"} <=> pc[t] = "done"
  /\ pc[t] \in {"new", "enqueue"} => client[t] = "waiting"
  /\ pc[t] \in {"writing", "closing", "blocked"} => client[t] = "responded"
  /\ client[t] = "waiting" => nextResultIndex[t] = 0 /\ source[t] = {}
  /\ client[t] = "responded" => nextResultIndex[t] # 0
  /\ client[t] = "responded" /\ pc[t] \in {"waiting", "writing"} =>
       TaskStream[t] /\ nextResultIndex[t] <= NumChunks

StageInv == \A t \in Tasks : StageOK(t)

(***************************************************************************)
(* A response is taken by a caller that has nothing; an event by one whose *)
(* stream has come to it, and it is of the attempt that opened the stream  *)
(* unless a result of the task was dropped.                                *)
(***************************************************************************)
LEMMA ResponseOrEvent ==
  ASSUME TypeOK, NEW t \in Tasks, ChannelOK(t), CallOK(t), AnsweredOnce(t), StageOK(t), Takes(t)
  PROVE  LET r == Head(resultCh[t])
         IN  /\ r \in Result
             /\ \/ /\ r.kind = "http" /\ client[t] = "waiting"
                   /\ nextResultIndex[t] = 0 /\ source[t] = {}
                \/ /\ r.kind = "sse" /\ client[t] = "responded"
                   /\ r.idx = nextResultIndex[t] /\ nextResultIndex[t] \in 1..NumChunks
<1> DEFINE r == Head(resultCh[t])
<1>1. /\ r \in Result
      /\ \/ r.kind = "http" /\ nextResultIndex[t] = 0
         \/ r.kind = "sse" /\ (r.idx = 0 \/ r.idx = nextResultIndex[t])
  BY TakenIsDue
<1>2. pc[t] = "waiting" /\ resultCh[t] # <<>>
  BY DEF Takes
<1>3. r.kind = "sse" => r.idx # 0
  BY <1>2, HeadChannel DEF ChannelOK
<1>4. client[t] \in {"waiting", "responded"} /\ nextResultIndex[t] \in Nat /\ NumChunks \in Nat
  BY <1>2, ConstantsAssumption DEF StageOK, TypeOK, CallTypeOK
<1>5. CASE r.kind = "http"
  <2>1. nextResultIndex[t] = 0
    BY <1>1, <1>5
  <2>2. client[t] = "waiting"
    BY <1>4, <2>1 DEF StageOK
  <2> QED
    BY <1>1, <1>5, <2>1, <2>2 DEF StageOK
<1>6. CASE r.kind = "sse"
  <2>1. r.idx = nextResultIndex[t] /\ nextResultIndex[t] # 0
    BY <1>1, <1>3, <1>6
  <2>2. client[t] = "responded" /\ nextResultIndex[t] <= NumChunks
    BY <1>2, <1>4, <2>1 DEF StageOK
  <2> QED
    BY <1>1, <1>4, <1>6, <2>1, <2>2
<1> QED
  BY <1>1, <1>5, <1>6

LEMMA StageStep ==
  ASSUME TypeOK, [Next]_vars, NEW t \in Tasks, ChannelOK(t), CallOK(t), AnsweredOnce(t),
         StageOK(t)
  PROVE  StageOK(t)'
<1>1. CASE Untouched(t) \/ Arrives(t)
  BY <1>1 DEF Untouched, Arrives, Wrote, SameCall, StageOK
<1>2. CASE Proceeds(t)
  BY <1>2 DEF Proceeds, NothingTaken, StageOK
<1>3. CASE Retries(t) \/ Blocks(t)
  BY <1>3 DEF Retries, Blocks, NothingTaken, StageOK, TypeOK, CallTypeOK
<1>4. CASE Returns(t)
  BY <1>4 DEF Returns, StageOK
<1>5. CASE Takes(t)
  <2> DEFINE r == Head(resultCh[t])
  <2>1. /\ nextResultIndex'[t] = nextResultIndex[t] + 1 /\ nextResultIndex[t] \in Nat
        /\ NumChunks \in Nat /\ NumChunks # 0
    BY <1>5, ConstantsAssumption DEF Takes, TypeOK, CallTypeOK
  <2>2. CASE pc'[t] = "done" /\ client'[t] = "complete"
    BY <2>2 DEF StageOK
  <2>3. CASE pc'[t] = "closing" /\ client'[t] = "responded"
    BY <2>1, <2>3 DEF StageOK
  <2>4. CASE pc'[t] \in {"waiting", "writing"} /\ client'[t] = "responded" /\ ~IsLast(t, r)
    <3>1. CASE r.kind = "http" /\ nextResultIndex[t] = 0
      <4>1. TaskStream[t] /\ nextResultIndex'[t] <= NumChunks
        BY <2>1, <2>4, <3>1 DEF IsLast
      <4> QED
        BY <2>1, <2>4, <4>1 DEF StageOK
    <3>2. CASE /\ r.kind = "sse" /\ client[t] = "responded"
               /\ r.idx = nextResultIndex[t] /\ nextResultIndex[t] \in 1..NumChunks
      <4>1. nextResultIndex[t] # NumChunks
        BY <2>4, <3>2 DEF IsLast
      <4>2. nextResultIndex'[t] <= NumChunks
        BY <2>1, <3>2, <4>1
      <4>3. TaskStream[t]
        BY <1>5, <3>2 DEF Takes, StageOK
      <4> QED
        BY <2>1, <2>4, <4>2, <4>3 DEF StageOK
    <3> QED
      BY <1>5, <3>1, <3>2, ResponseOrEvent
  <2> QED
    BY <1>5, <2>2, <2>3, <2>4 DEF Takes
<1> QED
  BY <1>1, <1>2, <1>3, <1>4, <1>5, Effect, OwnEffect

LEMMA StageInvariant == Spec => []StageInv
<1>1. Init => StageInv
  BY DEF Init, StageInv, StageOK
<1>2. TypeOK /\ DeliveryInv /\ StageInv /\ [Next]_vars => StageInv'
  BY StageStep DEF DeliveryInv, StageInv
<1> QED
  BY <1>1, <1>2, TypeCorrect, DeliveryInvariant, PTL DEF Spec

\* What the caller of a task sees changes in the steps of its goroutine only.
LEMMA CallsOfOthers ==
  ASSUME TypeOK, [Next]_vars
  PROVE  \/ \E t \in Tasks : TaskStep(t) /\ discarded' = discarded
         \/ UNCHANGED callVars /\ discarded \subseteq discarded'
<1>1. discarded \subseteq discarded'
  BY DiscardedStays
<1>2. ASSUME NEW t \in Tasks, TaskStep(t)
      PROVE  discarded' = discarded
  BY <1>2 DEF TaskStep, Start, Enqueue, FinishOnCtxDone, FinishOnOutOfOrder, FinishOnError,
              FinishOnForwardError, Retry, HandleSecondResponse, HandleLast, HandleNext,
              BodyRead, Leave, LeaveWithError, chVars
<1>3. CASE RunStep
  BY <1>1, <1>3 DEF RunStep, RunDequeue, RunRoute, RunChoose, RunAssign, RunSend, ScheduleFails
<1>4. ASSUME NEW t \in Tasks, CtxDone(t)
      PROVE  UNCHANGED callVars
  BY <1>4 DEF CtxDone
<1>5. ASSUME NEW job \in timers, TimerFire(job)
      PROVE  UNCHANGED callVars
  BY <1>5 DEF TimerFire
<1>6. ASSUME NEW c \in Conns, ConnStep(c)
      PROVE  UNCHANGED callVars
  BY <1>6 DEF ConnStep, EngineStatus, CancelTask, Break, Close, Unreport
<1>7. ASSUME NEW x \in exec, ExecStep(x)
      PROVE  UNCHANGED callVars
  BY <1>7 DEF ExecStep, Respond, SendEvent, Abort
<1>8. CASE UNCHANGED vars
  BY <1>8 DEF vars, callVars, chVars
<1>9. CASE \E t \in Tasks : TaskStep(t)
  BY <1>2, <1>9
<1>10. CASE ~\E t \in Tasks : TaskStep(t)
  <2>1. RunStep \/ UNCHANGED callVars
    BY <1>4, <1>5, <1>6, <1>7, <1>8, <1>10 DEF Next, Idle
  <2> QED
    BY <1>1, <1>3, <2>1
<1> QED
  BY <1>9, <1>10

(***************************************************************************)
(* Each step of a task's goroutine is a step of the promise, or none.      *)
(***************************************************************************)
Called == [t \in Tasks |-> CallStatus(t)]

LEMMA ServiceStep ==
  ASSUME TypeOK, TypeOK', [Next]_vars, NEW t \in Tasks, TaskStep(t), discarded' = discarded,
         ChannelOK(t), CallOK(t), AnsweredOnce(t), InSequence(t), StageOK(t)
  PROVE  [Service!Next]_<<Called, nextResultIndex, source, discarded>>
<1> USE DEF Service!Next
<1>1. ASSUME NEW u \in Tasks \ {t}
      PROVE  /\ CallStatus(u)' = CallStatus(u) /\ nextResultIndex'[u] = nextResultIndex[u]
             /\ source'[u] = source[u]
  BY OtherTaskEffect DEF Untouched, SameCall, CallStatus
<1>2. Called' = [Called EXCEPT ![t] = CallStatus(t)']
  BY <1>1 DEF Called
<1>3. nextResultIndex' = [nextResultIndex EXCEPT ![t] = nextResultIndex'[t]]
  BY <1>1 DEF TypeOK, CallTypeOK
<1>4. source' = [source EXCEPT ![t] = source'[t]]
  BY <1>1 DEF TypeOK, CallTypeOK
<1>5. Called[t] = CallStatus(t)
  BY DEF Called
<1>6. ASSUME NothingTaken(t), CallStatus(t)' = CallStatus(t)
      PROVE  UNCHANGED <<Called, nextResultIndex, source, discarded>>
  <2>1. nextResultIndex' = nextResultIndex /\ source' = source
    BY <1>3, <1>4, <1>6 DEF NothingTaken, TypeOK, CallTypeOK
  <2>2. \A u \in Tasks : CallStatus(u)' = CallStatus(u)
    BY <1>1, <1>6
  <2>3. Called' = Called
    BY <2>2 DEF Called
  <2> QED
    BY <2>1, <2>3
<1>7. CASE Proceeds(t)
  BY <1>6, <1>7 DEF Proceeds, NothingTaken, CallStatus
<1>8. CASE Retries(t)
  BY <1>6, <1>8 DEF Retries, NothingTaken, CallStatus
<1>9. CASE Blocks(t)
  BY <1>6, <1>9 DEF Blocks, NothingTaken, CallStatus
<1>10. CASE Returns(t)
  <2>1. UNCHANGED <<nextResultIndex, source, discarded>>
    BY <1>3, <1>4, <1>10 DEF Returns, TypeOK, CallTypeOK
  <2>2. \/ CallStatus(t) = "answered" /\ CallStatus(t)' = "complete"
        \/ CallStatus(t) = "waiting" /\ CallStatus(t)' = "failed"
        \/ CallStatus(t) = "streaming" /\ CallStatus(t)' = "truncated"
    BY <1>10 DEF Returns, CallStatus, StageOK, TypeOK, CallTypeOK
  <2>3. Service!Finish(t) \/ Service!Fail(t) \/ Service!CutOff(t)
    BY <1>2, <1>5, <2>2 DEF Service!Finish, Service!Fail, Service!CutOff, Called
  <2> QED
    BY <2>1, <2>3
<1>11. CASE Takes(t)
  <2> DEFINE r == Head(resultCh[t])
  <2>1. /\ r \in Result
        /\ \/ /\ r.kind = "http" /\ client[t] = "waiting"
              /\ nextResultIndex[t] = 0 /\ source[t] = {}
           \/ /\ r.kind = "sse" /\ client[t] = "responded"
              /\ r.idx = nextResultIndex[t] /\ nextResultIndex[t] \in 1..NumChunks
    BY <1>11, ResponseOrEvent
  <2>2. r.attempt \in 0..MaxRetryCount
    BY <2>1 DEF Result
  <2>3. /\ pc[t] = "waiting" /\ resultCh[t] # <<>>
        /\ nextResultIndex'[t] = nextResultIndex[t] + 1
        /\ source'[t] = source[t] \cup {r.attempt}
    BY <1>11 DEF Takes
  <2>4. \/ CallStatus(t)' = "complete" /\ IsLast(t, r)
        \/ CallStatus(t)' = "answered" /\ IsLast(t, r) /\ r.kind = "http"
        \/ CallStatus(t)' = "streaming" /\ ~IsLast(t, r)
    BY <1>11 DEF Takes, CallStatus
  <2>5. CASE r.kind = "http"
    <3>1. client[t] = "waiting" /\ nextResultIndex[t] = 0 /\ source[t] = {}
      BY <2>1, <2>5
    <3>2. Called[t] = "waiting"
      BY <1>5, <3>1 DEF CallStatus
    <3>3. CallStatus(t)' \in {"answered", "complete"} \cup
            (IF t \in {u \in Tasks : TaskStream[u]} THEN {"streaming"} ELSE {})
      BY <2>4, <2>5 DEF IsLast
    <3>4. nextResultIndex' = [nextResultIndex EXCEPT ![t] = 1]
      BY <1>3, <2>3, <3>1
    <3>5. source' = [source EXCEPT ![t] = {r.attempt}]
      BY <1>4, <2>3, <3>1
    <3>6. Service!Respond(t, r.attempt)
      BY <1>2, <3>2, <3>3, <3>4, <3>5 DEF Service!Respond, Called
    <3> QED
      BY <2>2, <3>6 DEF Service!Deliver
  <2>6. CASE r.kind = "sse"
    <3>1. client[t] = "responded" /\ r.idx = nextResultIndex[t]
          /\ nextResultIndex[t] \in 1..NumChunks /\ NumChunks \in Nat
      BY <2>1, <2>6, ConstantsAssumption
    <3>2. Called[t] = "streaming"
      BY <1>5, <2>3, <3>1 DEF CallStatus
    <3>3. r.attempt \in source[t] \/ t \in discarded
      <4>1. resultCh[t] \in Seq(Result) /\ pc[t] \in Live
        BY <2>3, ChannelType DEF Live
      <4> QED
        BY <2>3, <2>6, <4>1, HeadFollows DEF InSequence
    <3>4. IsLast(t, r) <=> nextResultIndex[t] = NumChunks
      BY <2>6, <3>1 DEF IsLast
    <3>5. CallStatus(t)' = IF nextResultIndex[t] = NumChunks THEN "complete" ELSE Called[t]
      BY <2>4, <2>6, <3>2, <3>4
    <3>6. /\ Called' = [Called EXCEPT ![t] = IF nextResultIndex[t] = NumChunks
                                             THEN "complete" ELSE @]
          /\ nextResultIndex' = [nextResultIndex EXCEPT ![t] = @ + 1]
          /\ source' = [source EXCEPT ![t] = @ \cup {r.attempt}]
      BY <1>2, <1>3, <1>4, <2>3, <3>5
    <3>7. Service!Continue(t, r.attempt)
      BY <3>1, <3>2, <3>3, <3>6 DEF Service!Continue, Called
    <3> QED
      BY <2>2, <3>7 DEF Service!Deliver
  <2> QED
    BY <2>1, <2>5, <2>6
<1> QED
  BY <1>7, <1>8, <1>9, <1>10, <1>11, OwnEffect

(***************************************************************************)
(* The task processor implements TaskService, for any tasks, engines,      *)
(* streams between servers, chunks, retries and sizes of its buffers: what *)
(* its callers see is what that module promises, at every step.            *)
(***************************************************************************)
THEOREM CallsServed == Spec => CallsAreServed
<1>1. Init => Service!Init
  BY DEF Init, Service!Init, CallStatus
<1>2. ASSUME TypeOK, TypeOK', DeliveryInv, SourceInv, StageInv, [Next]_vars
      PROVE  [Service!Next]_<<Called, nextResultIndex, source, discarded>>
  <2>1. CASE \E t \in Tasks : TaskStep(t) /\ discarded' = discarded
    BY <1>2, <2>1, ServiceStep DEF DeliveryInv, SourceInv, StageInv
  <2>2. CASE UNCHANGED callVars /\ discarded \subseteq discarded'
    <3>1. UNCHANGED <<Called, nextResultIndex, source>>
      BY <2>2 DEF callVars, Called, CallStatus
    <3> QED
      BY <2>2, <3>1 DEF Service!Next, Called
  <2> QED
    BY <1>2, <2>1, <2>2, CallsOfOthers
<1>3. TypeOK /\ TypeOK' /\ DeliveryInv /\ SourceInv /\ StageInv /\ [Next]_vars
        => [Service!Next]_<<[t \in Tasks |-> CallStatus(t)], nextResultIndex, source, discarded>>
  BY <1>2 DEF Called
<1> QED
  BY <1>1, <1>3, TypeCorrect, DeliveryInvariant, SourceInvariant, StageInvariant, PTL
     DEF Spec, CallsAreServed, Service!Spec, Service!promise

=============================================================================
