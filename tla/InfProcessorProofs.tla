------------------------- MODULE InfProcessorProofs -------------------------
(***************************************************************************)
(* Proofs about the task processor, for every value of its constants: that *)
(* the types are kept (TypeCorrect); the router agrees with the engine     *)
(* table (RouterConsistent); the copies of a task are distinct attempts,   *)
(* bounded in number (CopiesAreDistinct, RetryBounded); and a task is      *)
(* executed by an engine that it may go to (ExecutedByRightEngine).        *)
(***************************************************************************)
EXTENDS InfProcessor, TLAPS

(***************************************************************************)
(* Type correctness.  The lemmas give the type of what the actions compute;*)
(* an action then disturbs few of the conjuncts of TypeOK.                 *)
(***************************************************************************)
LEMMA RouteMapTypes ==
  ASSUME NEW rm \in RouteMap, NEW e \in Engines, NEW ms \in SUBSET Models
  PROVE  /\ AddOrUpdateEngine(rm, e, ms) \in RouteMap
         /\ DeleteEngine(rm, e) \in RouteMap
BY DEF RouteMap, AddOrUpdateEngine, DeleteEngine

\* GetEnginesForModel returns sets of engines.
LEMMA RoutedEngines ==
  ASSUME NEW rm \in RouteMap, NEW k \in Models, NEW ig \in SUBSET Engines,
         NEW ids \in GetEnginesForModel(rm, k, ig, DynamicModelLoading)
  PROVE  ids \in SUBSET Engines
BY DEF RouteMap, GetEnginesForModel, FewestModels

\* writeResultToTask keeps the channel within its buffer.
LEMMA WriteResultType ==
  ASSUME ChTypeOK, NEW t, NEW r \in Result, WriteResult(t, r)
  PROVE  ChTypeOK'
<1>1. CASE UNCHANGED chVars
  BY <1>1 DEF chVars, ChTypeOK
<1>2. CASE /\ t \in Tasks /\ Len(resultCh[t]) < BufSize
           /\ resultCh' = [resultCh EXCEPT ![t] = Append(@, r)]
           /\ UNCHANGED discarded
  <2>1. resultCh[t] \in Seq(Result)
    BY <1>2 DEF ChTypeOK
  <2>2. Append(resultCh[t], r) \in Seq(Result) /\ Len(Append(resultCh[t], r)) <= BufSize
    <3> DEFINE q == resultCh[t]
    <3>1. q \in Seq(Result) /\ Len(q) < BufSize
      BY <1>2, <2>1
    <3>2. Append(q, r) \in Seq(Result) /\ Len(Append(q, r)) = Len(q) + 1
      BY <3>1
    <3>3. Len(q) \in Nat
      BY <3>1
    <3> QED
      BY <3>1, <3>2, <3>3, ConstantsAssumption
  <2> QED
    BY <1>2, <2>2 DEF ChTypeOK
<1>3. CASE t \in Tasks /\ discarded' = discarded \cup {t} /\ UNCHANGED resultCh
  BY <1>3 DEF ChTypeOK
<1> QED
  BY <1>1, <1>2, <1>3 DEF WriteResult, InProgress

LEMMA ErrResultType == ErrResult \in Result
BY ConstantsAssumption DEF ErrResult, Result

LEMMA InitType == Init => TypeOK
<1> SUFFICES ASSUME Init PROVE TypeOK
  OBVIOUS
<1>1. TableTypeOK
  BY DEF Init, TableTypeOK, RouteMap, EmptyRouteMap
<1>2. ConnTypeOK
  BY DEF Init, ConnTypeOK
<1>3. RunTypeOK
  BY DEF Init, RunTypeOK, IdleRun, RunState
<1>4. QueueTypeOK
  BY ConstantsAssumption DEF Init, QueueTypeOK
<1>5. CallTypeOK /\ RetryTypeOK
  BY ConstantsAssumption DEF Init, CallTypeOK, RetryTypeOK
<1>6. ChTypeOK
  BY ConstantsAssumption DEF Init, ChTypeOK
<1>7. ExecTypeOK /\ ChosenOK
  BY DEF Init, ExecTypeOK, ChosenOK, IdleRun
<1> QED
  BY <1>1, <1>2, <1>3, <1>4, <1>5, <1>6, <1>7 DEF TypeOK

(***************************************************************************)
(* The scheduler's steps.                                                  *)
(***************************************************************************)
LEMMA ScheduleFailsType ==
  ASSUME TypeOK, ScheduleFails
  PROVE  TypeOK'
<1>1. ChTypeOK'
  BY WriteResultType, ErrResultType DEF ScheduleFails, TypeOK
<1>2. RunTypeOK'
  BY DEF ScheduleFails, RunTypeOK, IdleRun, RunState
<1>6. ChosenOK'
  BY DEF ScheduleFails, ChosenOK, IdleRun
<1>3. TableTypeOK' /\ ConnTypeOK'
  BY DEF ScheduleFails, TypeOK, tableVars, TableTypeOK, connVars, ConnTypeOK
<1>4. QueueTypeOK' /\ ExecTypeOK'
  BY DEF ScheduleFails, TypeOK, QueueTypeOK, ExecTypeOK
<1>5. CallTypeOK' /\ RetryTypeOK'
  BY DEF ScheduleFails, TypeOK, callVars, CallTypeOK, retryVars, RetryTypeOK
<1> QED
  BY <1>1, <1>2, <1>3, <1>4, <1>5, <1>6 DEF TypeOK

LEMMA RunDequeueType ==
  ASSUME TypeOK, RunDequeue
  PROVE  TypeOK'
<1>1. Head(queue) \in Job /\ Tail(queue) \in Seq(Job) /\ Len(Tail(queue)) <= QueueSize
  BY ConstantsAssumption DEF RunDequeue, TypeOK, QueueTypeOK
<1>2. RunTypeOK' /\ ChosenOK'
  BY <1>1 DEF RunDequeue, TypeOK, RunTypeOK, RunState, ChosenOK
<1>3. QueueTypeOK'
  BY <1>1 DEF RunDequeue, TypeOK, QueueTypeOK
<1>4. TableTypeOK' /\ ConnTypeOK'
  BY DEF RunDequeue, TypeOK, tableVars, TableTypeOK, connVars, ConnTypeOK
<1>5. CallTypeOK' /\ RetryTypeOK'
  BY DEF RunDequeue, TypeOK, callVars, CallTypeOK, retryVars, RetryTypeOK
<1>6. ChTypeOK' /\ ExecTypeOK'
  BY DEF RunDequeue, TypeOK, chVars, ChTypeOK, ExecTypeOK
<1> QED
  BY <1>2, <1>3, <1>4, <1>5, <1>6 DEF TypeOK

\* The steps that change the scheduler's own state only.
RunOnly == UNCHANGED <<tableVars, connVars, queue, timers, callVars, ctxDone, retryVars,
                       chVars, exec>>

LEMMA RunOnlyType ==
  ASSUME TypeOK, RunOnly, RunTypeOK', ChosenOK'
  PROVE  TypeOK'
<1>1. TableTypeOK' /\ ConnTypeOK'
  BY DEF RunOnly, TypeOK, tableVars, TableTypeOK, connVars, ConnTypeOK
<1>2. CallTypeOK' /\ RetryTypeOK'
  BY DEF RunOnly, TypeOK, callVars, CallTypeOK, retryVars, RetryTypeOK
<1>3. QueueTypeOK' /\ ChTypeOK' /\ ExecTypeOK'
  BY DEF RunOnly, TypeOK, chVars, ChTypeOK, QueueTypeOK, ExecTypeOK
<1> QED
  BY <1>1, <1>2, <1>3 DEF TypeOK

LEMMA RunRouteType ==
  ASSUME TypeOK, RunRoute
  PROVE  TypeOK'
<1>1. CASE EnginesForTask(run.job[1]) = {} /\ ScheduleFails
  BY <1>1, ScheduleFailsType
<1>2. ASSUME NEW ids \in EnginesForTask(run.job[1]), RunOnly,
             run' = [run EXCEPT !.pc = "choose", !.candidates = ids]
      PROVE  TypeOK'
  <2>1. run.job \in Job /\ run.job[1] \in Tasks
    BY DEF RunRoute, TypeOK, RunTypeOK, Job
  <2>2. ids \in SUBSET Engines
    <3>1. CASE TaskTarget[run.job[1]] # NoEngine
      BY <1>2, <2>1, <3>1, ConstantsAssumption DEF EnginesForTask
    <3>2. CASE TaskTarget[run.job[1]] = NoEngine
      <4>1. /\ routes[TaskTenant[run.job[1]]] \in RouteMap
            /\ TaskModel[run.job[1]] \in Models
            /\ ignored[run.job[1]] \in SUBSET Engines
        BY <2>1, ConstantsAssumption DEF TypeOK, TableTypeOK, RetryTypeOK
      <4> QED
        BY <1>2, <3>2, <4>1, RoutedEngines DEF EnginesForTask
    <3> QED
      BY <3>1, <3>2
  <2>3. RunTypeOK' /\ ChosenOK'
    BY <1>2, <2>1, <2>2 DEF TypeOK, RunTypeOK, RunState, ChosenOK
  <2> QED
    BY <1>2, <2>3, RunOnlyType
<1> QED
  BY <1>1, <1>2 DEF RunRoute, RunOnly

LEMMA RunChooseType ==
  ASSUME TypeOK, RunChoose
  PROVE  TypeOK'
<1>1. CASE ScheduleFails
  BY <1>1, ScheduleFailsType
<1>2. ASSUME NEW e \in MostPreferred(TaskTenant[run.job[1]], run.candidates), RunOnly,
             \A f \in run.candidates : engines[TaskTenant[run.job[1]]][f] # NoEntry,
             run' = [run EXCEPT !.pc = "assign", !.candidates = {}, !.engine = e]
      PROVE  TypeOK'
  <2>1. e \in Engines
    BY DEF MostPreferred, LeastLoaded, TypeOK, RunTypeOK, RunState
  <2>2. RunTypeOK'
    BY <1>2, <2>1 DEF RunChoose, TypeOK, RunTypeOK, RunState
  <2>3. ChosenOK'
    BY <1>2 DEF RunChoose, RunOnly, tableVars, MostPreferred, LeastLoaded, TypeOK,
       RunTypeOK, RunState, ChosenOK
  <2> QED
    BY <1>2, <2>2, <2>3, RunOnlyType
<1> QED
  BY <1>1, <1>2 DEF RunChoose, RunOnly

LEMMA RunAssignType ==
  ASSUME TypeOK, RunAssign
  PROVE  TypeOK'
<1>1. RunTypeOK' /\ ChosenOK'
  BY DEF RunAssign, TypeOK, RunTypeOK, RunState, ChosenOK, tableVars
<1>2. RetryTypeOK'
  BY DEF RunAssign, TypeOK, RunTypeOK, RetryTypeOK
<1>3. TableTypeOK' /\ ConnTypeOK'
  BY DEF RunAssign, TypeOK, tableVars, TableTypeOK, connVars, ConnTypeOK
<1>4. CallTypeOK' /\ QueueTypeOK'
  BY DEF RunAssign, TypeOK, callVars, CallTypeOK, QueueTypeOK
<1>5. ChTypeOK' /\ ExecTypeOK'
  BY DEF RunAssign, TypeOK, chVars, ChTypeOK, ExecTypeOK
<1> QED
  BY <1>1, <1>2, <1>3, <1>4, <1>5 DEF TypeOK

LEMMA SenderType ==
  ASSUME TypeOK, run.pc = "send"
  PROVE  Sender \in Conns
<1>1. CASE run.orphan # NoConn
  BY <1>1 DEF Sender, TypeOK, RunTypeOK, RunState
<1>2. CASE run.orphan = NoConn
  <2> DEFINE tn == TaskTenant[run.job[1]]
  <2>1. tn \in Tenants /\ run.engine \in Engines
    BY ConstantsAssumption DEF TypeOK, RunTypeOK, Job
  <2>2. engines[tn][run.engine] \in Entry
    BY <1>2, <2>1 DEF TypeOK, TableTypeOK, ChosenOK
  <2> QED
    BY <1>2, <2>2 DEF Sender, Entry
<1> QED
  BY <1>1, <1>2

LEMMA RunSendType ==
  ASSUME TypeOK, RunSend
  PROVE  TypeOK'
<1>1. CASE ScheduleFails
  BY <1>1, ScheduleFailsType
<1>2. CASE ~ScheduleFails
  <2>1. RunTypeOK' /\ ChosenOK'
    BY <1>2 DEF RunSend, RunTypeOK, IdleRun, RunState, ChosenOK
  <2>2. ExecTypeOK'
    <3>1. run.job \in Job /\ 0 \in 0..NumChunks
      BY ConstantsAssumption DEF RunSend, TypeOK, RunTypeOK
    <3>2. Sender \in Conns
      BY SenderType DEF RunSend
    <3> QED
      BY <1>2, <3>1, <3>2 DEF RunSend, TypeOK, ExecTypeOK, Execution
  <2>3. TableTypeOK' /\ ConnTypeOK'
    BY <1>2 DEF RunSend, TypeOK, tableVars, TableTypeOK, connVars, ConnTypeOK
  <2>4. CallTypeOK' /\ RetryTypeOK'
    BY <1>2 DEF RunSend, TypeOK, callVars, CallTypeOK, retryVars, RetryTypeOK
  <2>5. QueueTypeOK' /\ ChTypeOK'
    BY <1>2 DEF RunSend, TypeOK, chVars, ChTypeOK, QueueTypeOK
  <2> QED
    BY <2>1, <2>2, <2>3, <2>4, <2>5 DEF TypeOK
<1> QED
  BY <1>1, <1>2

(***************************************************************************)
(* The timers and the tasks' goroutines.  They leave the tables, the       *)
(* connections, the scheduler and the executions alone.                    *)
(***************************************************************************)
OthersUnchanged == UNCHANGED <<tableVars, connVars, run, exec>>

LEMMA TaskSideType ==
  ASSUME TypeOK, OthersUnchanged, QueueTypeOK', CallTypeOK', RetryTypeOK', ChTypeOK'
  PROVE  TypeOK'
<1>1. TableTypeOK' /\ ConnTypeOK'
  BY DEF OthersUnchanged, TypeOK, tableVars, TableTypeOK, connVars, ConnTypeOK
<1>2. RunTypeOK' /\ ChosenOK' /\ ExecTypeOK'
  BY DEF OthersUnchanged, TypeOK, tableVars, RunTypeOK, ChosenOK, ExecTypeOK
<1> QED
  BY <1>1, <1>2 DEF TypeOK

LEMMA AppendQueueType ==
  ASSUME TypeOK, NEW job \in Job, Len(queue) < QueueSize
  PROVE  Append(queue, job) \in Seq(Job) /\ Len(Append(queue, job)) <= QueueSize
<1>1. queue \in Seq(Job) /\ Len(queue) \in Nat
  BY DEF TypeOK, QueueTypeOK
<1>2. Append(queue, job) \in Seq(Job) /\ Len(Append(queue, job)) = Len(queue) + 1
  BY <1>1
<1> QED
  BY <1>1, <1>2, ConstantsAssumption

LEMMA TimerFireType ==
  ASSUME TypeOK, NEW job \in timers, TimerFire(job)
  PROVE  TypeOK'
<1>1. QueueTypeOK'
  BY AppendQueueType DEF TimerFire, TypeOK, QueueTypeOK
<1>2. CallTypeOK' /\ RetryTypeOK' /\ ChTypeOK'
  BY DEF TimerFire, TypeOK, callVars, CallTypeOK, retryVars, RetryTypeOK, chVars, ChTypeOK
<1> QED
  BY <1>1, <1>2, TaskSideType DEF TimerFire, OthersUnchanged

LEMMA CtxDoneType ==
  ASSUME TypeOK, NEW t \in Tasks, CtxDone(t)
  PROVE  TypeOK'
<1>1. QueueTypeOK' /\ CallTypeOK' /\ RetryTypeOK' /\ ChTypeOK'
  BY DEF CtxDone, TypeOK, callVars, CallTypeOK, retryVars, RetryTypeOK, chVars, ChTypeOK,
     QueueTypeOK
<1> QED
  BY <1>1, TaskSideType DEF CtxDone, OthersUnchanged

LEMMA StartType ==
  ASSUME TypeOK, NEW t \in Tasks, Start(t)
  PROVE  TypeOK'
<1>1. CallTypeOK'
  BY DEF Start, TypeOK, CallTypeOK
<1>2. QueueTypeOK' /\ RetryTypeOK' /\ ChTypeOK'
  BY DEF Start, TypeOK, retryVars, RetryTypeOK, chVars, ChTypeOK, QueueTypeOK
<1> QED
  BY <1>1, <1>2, TaskSideType DEF Start, OthersUnchanged

LEMMA EnqueueType ==
  ASSUME TypeOK, NEW t \in Tasks, Enqueue(t)
  PROVE  TypeOK'
<1>1. <<t, 0>> \in Job
  BY ConstantsAssumption DEF Job
<1>2. QueueTypeOK'
  BY <1>1, AppendQueueType DEF Enqueue, TypeOK, QueueTypeOK
<1>3. CallTypeOK'
  BY DEF Enqueue, TypeOK, CallTypeOK
<1>4. RetryTypeOK' /\ ChTypeOK'
  BY DEF Enqueue, TypeOK, retryVars, RetryTypeOK, chVars, ChTypeOK
<1> QED
  BY <1>2, <1>3, <1>4, TaskSideType DEF Enqueue, OthersUnchanged

\* A result taken from the channel, and the channel without it.
LEMMA ReceivedType ==
  ASSUME TypeOK, NEW t \in Tasks, Received(t)
  PROVE  /\ Head(resultCh[t]) \in Result
         /\ Pop(t) /\ discarded' = discarded => ChTypeOK'
<1> DEFINE q == resultCh[t]
<1>1. q \in Seq(Result) /\ q # <<>> /\ Len(q) <= BufSize
  BY DEF TypeOK, ChTypeOK, Received
<1>2. Head(q) \in Result /\ Tail(q) \in Seq(Result) /\ Len(Tail(q)) = Len(q) - 1
  BY <1>1
<1>3. Len(Tail(q)) <= BufSize
  <2>1. Len(q) \in Nat
    BY <1>1
  <2> QED
    BY <1>1, <1>2, <2>1, ConstantsAssumption
<1>4. ASSUME Pop(t), discarded' = discarded
      PROVE  ChTypeOK'
  BY <1>2, <1>3, <1>4 DEF Pop, TypeOK, ChTypeOK
<1> QED
  BY <1>2, <1>4

\* A goroutine that returns, with any outcome a caller can be left with.
LEMMA LeaveType ==
  ASSUME TypeOK, NEW t \in Tasks, NEW o \in {"complete", "truncated", "failed"}, Leave(t, o),
         nextResultIndex' \in [Tasks -> Nat],
         source' \in [Tasks -> SUBSET (0..MaxRetryCount)]
  PROVE  TypeOK'
<1>1. CallTypeOK'
  BY DEF Leave, TypeOK, CallTypeOK
<1>2. ChTypeOK'
  <2>1. <<>> \in Seq(Result) /\ Len(<<>>) <= BufSize
    BY ConstantsAssumption
  <2> QED
    BY <2>1 DEF Leave, TypeOK, ChTypeOK
<1>3. QueueTypeOK' /\ RetryTypeOK'
  BY DEF Leave, TypeOK, QueueTypeOK, retryVars, RetryTypeOK
<1> QED
  BY <1>1, <1>2, <1>3, TaskSideType DEF Leave, OthersUnchanged

LEMMA LeaveWithErrorType ==
  ASSUME TypeOK, NEW t \in Tasks, LeaveWithError(t), UNCHANGED <<nextResultIndex, source>>
  PROVE  TypeOK'
<1>1. nextResultIndex' \in [Tasks -> Nat] /\ source' \in [Tasks -> SUBSET (0..MaxRetryCount)]
  BY DEF TypeOK, CallTypeOK
<1> QED
  BY <1>1, LeaveType DEF LeaveWithError

LEMMA RetryType ==
  ASSUME TypeOK, NEW t \in Tasks, Retry(t)
  PROVE  TypeOK'
<1>1. retryCount[t] \in 0..MaxRetryCount /\ retryCount[t] + 1 \in 0..MaxRetryCount
  BY ConstantsAssumption DEF Retry, CanRetry, TypeOK, RetryTypeOK
<1>2. RetryTypeOK'
  BY <1>1 DEF Retry, TypeOK, RetryTypeOK
<1>3. QueueTypeOK'
  BY <1>1 DEF Retry, TypeOK, QueueTypeOK, Job
<1>4. ChTypeOK'
  BY ReceivedType DEF Retry
<1>5. CallTypeOK'
  BY DEF Retry, TypeOK, callVars, CallTypeOK
<1> QED
  BY <1>2, <1>3, <1>4, <1>5, TaskSideType DEF Retry, OthersUnchanged

LEMMA HandleSecondResponseType ==
  ASSUME TypeOK, NEW t \in Tasks, HandleSecondResponse(t)
  PROVE  TypeOK'
<1>1. ChTypeOK'
  BY ReceivedType DEF HandleSecondResponse
<1>2. CallTypeOK'
  BY DEF HandleSecondResponse, TypeOK, CallTypeOK
<1>3. QueueTypeOK' /\ RetryTypeOK'
  BY DEF HandleSecondResponse, TypeOK, QueueTypeOK, retryVars, RetryTypeOK
<1> QED
  BY <1>1, <1>2, <1>3, TaskSideType DEF HandleSecondResponse, OthersUnchanged

LEMMA AcceptType ==
  ASSUME TypeOK, NEW t \in Tasks, NEW r \in Result, Accept(t, r)
  PROVE  /\ nextResultIndex' \in [Tasks -> Nat]
         /\ source' \in [Tasks -> SUBSET (0..MaxRetryCount)]
BY DEF Accept, TypeOK, CallTypeOK, Result

LEMMA HandleLastType ==
  ASSUME TypeOK, NEW t \in Tasks, HandleLast(t)
  PROVE  TypeOK'
<1> DEFINE r == Head(resultCh[t])
<1>1. r \in Result
  BY ReceivedType DEF HandleLast
<1>2. /\ nextResultIndex' \in [Tasks -> Nat]
      /\ source' \in [Tasks -> SUBSET (0..MaxRetryCount)]
  BY <1>1, AcceptType DEF HandleLast
<1>3. CASE Leave(t, "complete")
  BY <1>2, <1>3, LeaveType
<1>4. CASE ~Leave(t, "complete")
  <2>1. ChTypeOK'
    BY <1>4, ReceivedType DEF HandleLast
  <2>2. CallTypeOK'
    BY <1>2, <1>4 DEF HandleLast, TypeOK, CallTypeOK
  <2>3. QueueTypeOK' /\ RetryTypeOK'
    BY <1>4 DEF HandleLast, TypeOK, QueueTypeOK, retryVars, RetryTypeOK
  <2> QED
    BY <1>4, <2>1, <2>2, <2>3, TaskSideType DEF HandleLast, OthersUnchanged
<1> QED
  BY <1>3, <1>4

LEMMA HandleNextType ==
  ASSUME TypeOK, NEW t \in Tasks, HandleNext(t)
  PROVE  TypeOK'
<1>1. Head(resultCh[t]) \in Result
  BY ReceivedType DEF HandleNext
<1>2. /\ nextResultIndex' \in [Tasks -> Nat]
      /\ source' \in [Tasks -> SUBSET (0..MaxRetryCount)]
  BY <1>1, AcceptType DEF HandleNext
<1>3. ChTypeOK'
  BY ReceivedType DEF HandleNext
<1>4. CallTypeOK'
  BY <1>2 DEF HandleNext, TypeOK, CallTypeOK
<1>5. QueueTypeOK' /\ RetryTypeOK'
  BY DEF HandleNext, TypeOK, QueueTypeOK, retryVars, RetryTypeOK
<1> QED
  BY <1>3, <1>4, <1>5, TaskSideType DEF HandleNext, OthersUnchanged

LEMMA BodyReadType ==
  ASSUME TypeOK, NEW t \in Tasks, BodyRead(t)
  PROVE  TypeOK'
<1>1. CASE Leave(t, "complete") /\ UNCHANGED <<nextResultIndex, source>>
  <2>1. nextResultIndex' \in [Tasks -> Nat] /\ source' \in [Tasks -> SUBSET (0..MaxRetryCount)]
    BY <1>1 DEF TypeOK, CallTypeOK
  <2> QED
    BY <1>1, <2>1, LeaveType
<1>2. CASE ~(Leave(t, "complete") /\ UNCHANGED <<nextResultIndex, source>>)
  <2>1. CallTypeOK'
    BY <1>2 DEF BodyRead, TypeOK, CallTypeOK
  <2>2. QueueTypeOK' /\ RetryTypeOK' /\ ChTypeOK'
    BY <1>2 DEF BodyRead, TypeOK, QueueTypeOK, retryVars, RetryTypeOK, chVars, ChTypeOK
  <2> QED
    BY <1>2, <2>1, <2>2, TaskSideType DEF BodyRead, OthersUnchanged
<1> QED
  BY <1>1, <1>2

LEMMA TaskStepType ==
  ASSUME TypeOK, NEW t \in Tasks, TaskStep(t)
  PROVE  TypeOK'
<1>1. CASE Start(t)
  BY <1>1, StartType
<1>2. CASE Enqueue(t)
  BY <1>2, EnqueueType
<1>3. CASE FinishOnCtxDone(t)
  BY <1>3, LeaveWithErrorType DEF FinishOnCtxDone
<1>4. CASE FinishOnOutOfOrder(t)
  BY <1>4, LeaveWithErrorType DEF FinishOnOutOfOrder
<1>5. CASE FinishOnError(t)
  BY <1>5, LeaveWithErrorType DEF FinishOnError
<1>6. CASE FinishOnForwardError(t)
  BY <1>6, LeaveWithErrorType DEF FinishOnForwardError
<1>7. CASE Retry(t)
  BY <1>7, RetryType
<1>8. CASE HandleSecondResponse(t)
  BY <1>8, HandleSecondResponseType
<1>9. CASE HandleLast(t)
  BY <1>9, HandleLastType
<1>10. CASE HandleNext(t)
  BY <1>10, HandleNextType
<1>11. CASE BodyRead(t)
  BY <1>11, BodyReadType
<1> QED
  BY <1>1, <1>2, <1>3, <1>4, <1>5, <1>6, <1>7, <1>8, <1>9, <1>10, <1>11 DEF TaskStep

(***************************************************************************)
(* The stream handlers.                                                    *)
(***************************************************************************)
LEMMA StatusSenderType ==
  ASSUME TypeOK, NEW c \in Conns
  PROVE  StatusSender(c) \in Conns
BY ConstantsAssumption DEF StatusSender, TypeOK, ConnTypeOK

LEMMA EngineStatusType ==
  ASSUME TypeOK, NEW c \in Conns, NEW s \in Statuses, EngineStatus(c, s)
  PROVE  TypeOK'
<1> DEFINE tn == ConnTenant[c]
           e == ConnEngine[c]
           entry == [sender |-> StatusSender(c), ready |-> s.ready, models |-> s.models]
<1>1. tn \in Tenants /\ e \in Engines /\ s.ready \in BOOLEAN /\ s.models \in SUBSET Models
  BY ConstantsAssumption
<1>2. entry \in Entry /\ entry # NoEntry
  BY <1>1, StatusSenderType, NullsAssumption DEF Entry
<1>3. TableTypeOK'
  <2>1. engines' \in [Tenants -> [Engines -> Entry \cup {NoEntry}]]
    BY <1>1, <1>2 DEF EngineStatus, TypeOK, TableTypeOK
  <2>2. routes' \in [Tenants -> RouteMap]
    BY <1>1, RouteMapTypes DEF EngineStatus, TypeOK, TableTypeOK
  <2> QED
    BY <2>1, <2>2 DEF TableTypeOK
<1>4. ConnTypeOK'
  BY StatusSenderType, <1>1 DEF EngineStatus, TypeOK, ConnTypeOK
<1>5. RunTypeOK' /\ ChosenOK'
  <2>1. RunTypeOK'
    BY DEF EngineStatus, TypeOK, RunTypeOK
  <2>2. \A x \in Tenants, f \in Engines : engines[x][f] # NoEntry => engines'[x][f] # NoEntry
    BY <1>1, <1>2 DEF EngineStatus, TypeOK, TableTypeOK
  <2>3. run.pc \in {"assign", "send"} => TaskTenant[run.job[1]] \in Tenants /\ run.engine \in Engines
    BY ConstantsAssumption DEF TypeOK, RunTypeOK, Job
  <2>4. ChosenOK'
    BY <2>2, <2>3 DEF EngineStatus, TypeOK, ChosenOK
  <2> QED
    BY <2>1, <2>4
<1>6. QueueTypeOK' /\ CallTypeOK' /\ RetryTypeOK'
  BY DEF EngineStatus, TypeOK, QueueTypeOK, callVars, CallTypeOK, retryVars, RetryTypeOK
<1>7. ChTypeOK' /\ ExecTypeOK'
  BY DEF EngineStatus, TypeOK, chVars, ChTypeOK, ExecTypeOK
<1> QED
  BY <1>3, <1>4, <1>5, <1>6, <1>7 DEF TypeOK

\* RemoveEngine leaves the scheduler a pointer to the sender it had.
LEMMA RemoveEngineType ==
  ASSUME TypeOK, NEW c \in Conns, RemoveEngine(c)
  PROVE  TableTypeOK' /\ RunTypeOK' /\ ChosenOK' /\ pendingCancel' \in [Conns -> SUBSET Tasks]
<1> DEFINE tn == ConnTenant[c]
           e == ConnEngine[c]
<1>1. tn \in Tenants /\ e \in Engines
  BY ConstantsAssumption
<1>2. TableTypeOK'
  <2>1. engines' \in [Tenants -> [Engines -> Entry \cup {NoEntry}]]
    BY <1>1 DEF RemoveEngine, TypeOK, TableTypeOK
  <2>2. routes' \in [Tenants -> RouteMap]
    BY <1>1, RouteMapTypes DEF RemoveEngine, TypeOK, TableTypeOK
  <2> QED
    BY <2>1, <2>2 DEF TableTypeOK
<1>3. pendingCancel' \in [Conns -> SUBSET Tasks]
  BY DEF RemoveEngine, TypeOK, ConnTypeOK, AssignedTo, InProgress
<1>4. CASE HeldByScheduler(c)
  <2>1. engines[tn][e].sender \in Conns
    BY <1>1, <1>4 DEF HeldByScheduler, TypeOK, TableTypeOK, Entry
  <2>2. run' = [run EXCEPT !.orphan = engines[tn][e].sender]
    BY <1>4 DEF RemoveEngine
  <2>3. RunTypeOK' /\ ChosenOK'
    BY <2>1, <2>2, ConstantsAssumption DEF TypeOK, RunTypeOK, RunState, ChosenOK
  <2> QED
    BY <1>2, <1>3, <2>3
<1>5. CASE ~HeldByScheduler(c)
  <2>1. run' = run
    BY <1>5 DEF RemoveEngine
  <2>2. \A x \in Tenants, f \in Engines :
          ~(x = tn /\ f = e) => engines'[x][f] = engines[x][f]
    BY <1>1 DEF RemoveEngine, TypeOK, TableTypeOK
  <2>3. run.pc \in {"assign", "send"} => TaskTenant[run.job[1]] \in Tenants /\ run.engine \in Engines
    BY ConstantsAssumption DEF TypeOK, RunTypeOK, Job
  <2>4. ChosenOK'
    BY <1>5, <2>1, <2>2, <2>3 DEF HeldByScheduler, TypeOK, ChosenOK
  <2>5. RunTypeOK'
    BY <2>1 DEF TypeOK, RunTypeOK
  <2> QED
    BY <1>2, <1>3, <2>4, <2>5
<1> QED
  BY <1>4, <1>5

LEMMA CancelTaskType ==
  ASSUME TypeOK, NEW c \in Conns, NEW t \in Tasks, CancelTask(c, t)
  PROVE  TypeOK'
<1>1. ChTypeOK'
  BY WriteResultType, ErrResultType DEF CancelTask, TypeOK
<1>2. ConnTypeOK'
  BY DEF CancelTask, TypeOK, ConnTypeOK
<1>3. TableTypeOK' /\ RunTypeOK' /\ ChosenOK'
  BY DEF CancelTask, TypeOK, tableVars, TableTypeOK, RunTypeOK, ChosenOK
<1>4. QueueTypeOK' /\ CallTypeOK' /\ RetryTypeOK' /\ ExecTypeOK'
  BY DEF CancelTask, TypeOK, QueueTypeOK, callVars, CallTypeOK, retryVars, RetryTypeOK, ExecTypeOK
<1> QED
  BY <1>1, <1>2, <1>3, <1>4 DEF TypeOK

LEMMA BreakType ==
  ASSUME TypeOK, NEW c \in Conns, Break(c)
  PROVE  TypeOK'
<1>1. ConnTypeOK' /\ ExecTypeOK'
  BY DEF Break, TypeOK, ConnTypeOK, ExecTypeOK
<1>2. TableTypeOK' /\ RunTypeOK' /\ ChosenOK'
  BY DEF Break, TypeOK, tableVars, TableTypeOK, RunTypeOK, ChosenOK
<1>3. QueueTypeOK' /\ CallTypeOK' /\ RetryTypeOK' /\ ChTypeOK'
  BY DEF Break, TypeOK, QueueTypeOK, callVars, CallTypeOK, retryVars, RetryTypeOK, chVars, ChTypeOK
<1> QED
  BY <1>1, <1>2, <1>3 DEF TypeOK

\* What Close and Unreport have in common.
LEMMA HandlerEndType ==
  ASSUME TypeOK, NEW c \in Conns,
         connState' = [connState EXCEPT ![c] = "closed"] \/ connState' = [connState EXCEPT ![c] = "unreported"],
         RemoveEngine(c) \/ UNCHANGED <<pendingCancel, tableVars, run>>,
         serverSender' \in [Engines -> Conns \cup {NoConn}],
         UNCHANGED <<queue, timers, callVars, ctxDone, retryVars, chVars, exec>>
  PROVE  TypeOK'
<1>1. TableTypeOK' /\ RunTypeOK' /\ ChosenOK' /\ pendingCancel' \in [Conns -> SUBSET Tasks]
  <2>1. CASE RemoveEngine(c)
    BY <2>1, RemoveEngineType
  <2>2. CASE UNCHANGED <<pendingCancel, tableVars, run>>
    BY <2>2 DEF TypeOK, tableVars, TableTypeOK, RunTypeOK, ChosenOK, ConnTypeOK
  <2> QED
    BY <2>1, <2>2
<1>2. ConnTypeOK'
  BY <1>1 DEF TypeOK, ConnTypeOK
<1>3. QueueTypeOK' /\ CallTypeOK' /\ RetryTypeOK'
  BY DEF TypeOK, QueueTypeOK, callVars, CallTypeOK, retryVars, RetryTypeOK
<1>4. ChTypeOK' /\ ExecTypeOK'
  BY DEF TypeOK, chVars, ChTypeOK, ExecTypeOK
<1> QED
  BY <1>1, <1>2, <1>3, <1>4 DEF TypeOK

LEMMA CloseType ==
  ASSUME TypeOK, NEW c \in Conns, Close(c)
  PROVE  TypeOK'
<1>1. serverSender' \in [Engines -> Conns \cup {NoConn}]
  BY DEF Close, TypeOK, ConnTypeOK
<1> QED
  BY <1>1, HandlerEndType DEF Close

LEMMA UnreportType ==
  ASSUME TypeOK, NEW c \in Conns, Unreport(c)
  PROVE  TypeOK'
<1>1. serverSender' \in [Engines -> Conns \cup {NoConn}]
  BY StatusSenderType DEF Unreport, TypeOK, ConnTypeOK
<1> QED
  BY <1>1, HandlerEndType DEF Unreport

(***************************************************************************)
(* The engines.                                                            *)
(***************************************************************************)
ExecOnly == UNCHANGED <<tableVars, connVars, run, queue, timers, callVars, ctxDone, retryVars>>

LEMMA ExecSideType ==
  ASSUME TypeOK, ExecOnly, ChTypeOK', ExecTypeOK'
  PROVE  TypeOK'
<1>1. TableTypeOK' /\ ConnTypeOK' /\ RunTypeOK' /\ ChosenOK'
  BY DEF ExecOnly, TypeOK, tableVars, TableTypeOK, connVars, ConnTypeOK, RunTypeOK, ChosenOK
<1>2. QueueTypeOK' /\ CallTypeOK' /\ RetryTypeOK'
  BY DEF ExecOnly, TypeOK, QueueTypeOK, callVars, CallTypeOK, retryVars, RetryTypeOK
<1> QED
  BY <1>1, <1>2 DEF TypeOK

LEMMA AdvanceType ==
  ASSUME TypeOK, NEW x \in exec, x.next < NumChunks
  PROVE  [x EXCEPT !.next = @ + 1] \in Execution
<1>1. x \in Execution
  BY DEF TypeOK, ExecTypeOK
<1>2. x.next + 1 \in 0..NumChunks
  BY <1>1, ConstantsAssumption DEF Execution
<1> QED
  BY <1>1, <1>2 DEF Execution

LEMMA ExecStepType ==
  ASSUME TypeOK, NEW x \in exec, ExecStep(x)
  PROVE  TypeOK'
<1>1. x \in Execution /\ x.job[1] \in Tasks /\ x.job[2] \in 0..MaxRetryCount
  BY DEF TypeOK, ExecTypeOK, Execution, Job
<1>2. ASSUME NEW code \in {"ok", "unavailable", "internal", "other"}, Respond(x, code)
      PROVE  TypeOK'
  <2>1. [kind |-> "http", code |-> code, idx |-> 0, attempt |-> x.job[2]] \in Result
    BY <1>1, ConstantsAssumption DEF Result
  <2>2. ChTypeOK'
    BY <1>2, <2>1, WriteResultType DEF Respond, TypeOK
  <2>3. ExecTypeOK'
    <3>1. [x EXCEPT !.next = @ + 1] \in Execution
      BY <1>2, ConstantsAssumption, AdvanceType DEF Respond
    <3> QED
      BY <1>2, <3>1 DEF Respond, Advance, TypeOK, ExecTypeOK
  <2> QED
    BY <1>2, <2>2, <2>3, ExecSideType DEF Respond, ExecOnly
<1>3. CASE SendEvent(x)
  <2>1. [kind |-> "sse", code |-> "none", idx |-> x.next, attempt |-> x.job[2]] \in Result
    BY <1>1 DEF Result, Execution
  <2>2. ChTypeOK'
    BY <1>3, <2>1, WriteResultType DEF SendEvent, TypeOK
  <2>3. ExecTypeOK'
    <3>1. CASE x.next < NumChunks
      BY <1>3, <3>1, AdvanceType DEF SendEvent, Advance, TypeOK, ExecTypeOK
    <3>2. CASE ~(x.next < NumChunks)
      BY <1>3, <3>2 DEF SendEvent, Advance, TypeOK, ExecTypeOK
    <3> QED
      BY <3>1, <3>2
  <2> QED
    BY <1>3, <2>2, <2>3, ExecSideType DEF SendEvent, ExecOnly
<1>4. CASE Abort(x)
  <2>1. ChTypeOK' /\ ExecTypeOK'
    BY <1>4 DEF Abort, TypeOK, chVars, ChTypeOK, ExecTypeOK
  <2> QED
    BY <1>4, <2>1, ExecSideType DEF Abort, ExecOnly
<1> QED
  BY <1>2, <1>3, <1>4 DEF ExecStep

LEMMA StutterType ==
  ASSUME TypeOK, UNCHANGED vars
  PROVE  TypeOK'
<1>1. ExecOnly /\ ChTypeOK' /\ ExecTypeOK'
  BY DEF vars, ExecOnly, TypeOK, chVars, ChTypeOK, ExecTypeOK
<1> QED
  BY <1>1, ExecSideType

LEMMA NextType ==
  ASSUME TypeOK, [Next]_vars
  PROVE  TypeOK'
<1>1. CASE RunStep
  BY <1>1, RunDequeueType, RunRouteType, RunChooseType, RunAssignType, RunSendType DEF RunStep
<1>2. ASSUME NEW t \in Tasks, TaskStep(t) \/ CtxDone(t)
      PROVE  TypeOK'
  BY <1>2, TaskStepType, CtxDoneType
<1>3. ASSUME NEW job \in timers, TimerFire(job)
      PROVE  TypeOK'
  BY <1>3, TimerFireType
<1>4. ASSUME NEW c \in Conns, ConnStep(c)
      PROVE  TypeOK'
  BY <1>4, EngineStatusType, CancelTaskType, BreakType, CloseType, UnreportType DEF ConnStep
<1>5. ASSUME NEW x \in exec, ExecStep(x)
      PROVE  TypeOK'
  BY <1>5, ExecStepType
<1>6. CASE UNCHANGED vars
  BY <1>6, StutterType
<1> QED
  BY <1>1, <1>2, <1>3, <1>4, <1>5, <1>6 DEF Next, Idle

(***************************************************************************)
(* Every variable keeps its type; in particular the queue and the result   *)
(* channels stay within their buffers (taskQueueSize and                   *)
(* taskResultBufferSize), and no task is retried more than maxRetryCount   *)
(* times.                                                                  *)
(***************************************************************************)
THEOREM TypeCorrect == Spec => []TypeOK
<1>1. TypeOK /\ [Next]_vars => TypeOK'
  BY NextType
<1> QED
  BY <1>1, InitType, PTL DEF Spec
-----------------------------------------------------------------------------
(***************************************************************************)
(* RouterConsistent.  It is inductive: the two functions that write the    *)
(* engine table write the tenant's route map in the same critical section. *)
(***************************************************************************)
LEMMA EngineStatusRouter ==
  ASSUME TypeOK, RouterConsistent, NEW c \in Conns, NEW s \in Statuses, EngineStatus(c, s)
  PROVE  RouterConsistent'
<1> DEFINE tn == ConnTenant[c]
           e == ConnEngine[c]
           entry == [sender |-> StatusSender(c), ready |-> s.ready, models |-> s.models]
<1>1. tn \in Tenants /\ e \in Engines
  BY ConstantsAssumption
<1>2. s.ready \in BOOLEAN /\ s.models \in SUBSET Models /\ entry \in Entry
  BY ConstantsAssumption, StatusSenderType DEF Entry
<1>3. engines' = [engines EXCEPT ![tn][e] = entry]
  BY DEF EngineStatus
<1>4. \A u \in Tenants, f \in Engines :
        engines'[u][f] = IF u = tn /\ f = e THEN entry ELSE engines[u][f]
  BY <1>1, <1>3 DEF TypeOK, TableTypeOK
<1>5. \A u \in Tenants : u # tn => routes'[u] = routes[u]
  BY <1>1 DEF EngineStatus, TypeOK, TableTypeOK
<1>6. routes'[tn] = IF s.ready THEN AddOrUpdateEngine(routes[tn], e, s.models)
                               ELSE DeleteEngine(routes[tn], e)
  BY <1>1 DEF EngineStatus, TypeOK, TableTypeOK
<1>7. entry # NoEntry /\ entry.ready = s.ready /\ entry.models = s.models
  BY <1>2, NullsAssumption
<1> HIDE DEF entry, tn, e
<1>8. ReadyEngines(tn)' = IF s.ready THEN ReadyEngines(tn) \cup {e} ELSE ReadyEngines(tn) \ {e}
  BY <1>1, <1>2, <1>4, <1>7 DEF ReadyEngines
<1>9. \A f \in Engines : f # e => engines'[tn][f] = engines[tn][f]
  BY <1>1, <1>4
<1>10. engines'[tn][e] = entry
  BY <1>1, <1>4
<1>11. routes[tn].engines = ReadyEngines(tn)
       /\ \A k \in Models : routes[tn].m[k] = {f \in ReadyEngines(tn) : k \in engines[tn][f].models}
  BY <1>1 DEF RouterConsistent
<1>12. routes'[tn].engines = ReadyEngines(tn)'
  BY <1>6, <1>8, <1>11, <1>2 DEF AddOrUpdateEngine, DeleteEngine
<1>13. ASSUME NEW k \in Models
       PROVE  routes'[tn].m[k] = {f \in ReadyEngines(tn)' : k \in engines'[tn][f].models}
  <2>1. routes'[tn].m[k] = IF s.ready /\ k \in s.models THEN routes[tn].m[k] \cup {e}
                                                        ELSE routes[tn].m[k] \ {e}
    BY <1>6, <1>2 DEF AddOrUpdateEngine, DeleteEngine
  <2>2. ReadyEngines(tn) \subseteq Engines
    BY DEF ReadyEngines
  <2> QED
    BY <2>1, <2>2, <1>1, <1>2, <1>7, <1>8, <1>9, <1>10, <1>11
<1>14. ASSUME NEW u \in Tenants, u # tn
       PROVE  ReadyEngines(u)' = ReadyEngines(u) /\ \A f \in Engines : engines'[u][f] = engines[u][f]
  BY <1>4, <1>14 DEF ReadyEngines
<1>15. ASSUME NEW u \in Tenants, u # tn
       PROVE  /\ routes'[u].engines = ReadyEngines(u)'
              /\ \A k \in Models :
                   routes'[u].m[k] = {f \in ReadyEngines(u)' : k \in engines'[u][f].models}
  BY <1>5, <1>14, <1>15 DEF RouterConsistent, ReadyEngines
<1> QED
  BY <1>12, <1>13, <1>15 DEF RouterConsistent

LEMMA RemoveEngineRouter ==
  ASSUME TypeOK, RouterConsistent, NEW c \in Conns, RemoveEngine(c)
  PROVE  RouterConsistent'
<1> DEFINE tn == ConnTenant[c]
           e == ConnEngine[c]
<1>1. tn \in Tenants /\ e \in Engines
  BY ConstantsAssumption
<1>2. \A u \in Tenants, f \in Engines :
        engines'[u][f] = IF u = tn /\ f = e THEN NoEntry ELSE engines[u][f]
  BY <1>1 DEF RemoveEngine, TypeOK, TableTypeOK
<1>3. \A u \in Tenants : routes'[u] = IF u = tn THEN DeleteEngine(routes[u], e) ELSE routes[u]
  BY <1>1 DEF RemoveEngine, TypeOK, TableTypeOK
<1> HIDE DEF tn, e
<1>4. ASSUME NEW u \in Tenants
      PROVE  ReadyEngines(u)' = IF u = tn THEN ReadyEngines(u) \ {e} ELSE ReadyEngines(u)
  BY <1>1, <1>2 DEF ReadyEngines
<1>5. ASSUME NEW u \in Tenants
      PROVE  /\ routes'[u].engines = ReadyEngines(u)'
             /\ \A k \in Models :
                  routes'[u].m[k] = {f \in ReadyEngines(u)' : k \in engines'[u][f].models}
  <2>1. CASE u = tn
    <3>1. routes'[u].engines = routes[u].engines \ {e}
          /\ \A k \in Models : routes'[u].m[k] = routes[u].m[k] \ {e}
      <4>1. routes'[u] = DeleteEngine(routes[u], e)
        BY <2>1, <1>3
      <4>2. routes'[u] = [m |-> [k \in Models |-> routes[u].m[k] \ {e}],
                          engines |-> routes[u].engines \ {e}]
        BY <4>1 DEF DeleteEngine
      <4> QED
        BY <4>2
    <3>2. ReadyEngines(u)' = ReadyEngines(u) \ {e} /\ ReadyEngines(u) \subseteq Engines
      BY <2>1, <1>4 DEF ReadyEngines
    <3>3. \A f \in Engines : f # e => engines'[u][f] = engines[u][f]
      BY <2>1, <1>2
    <3> QED
      BY <3>1, <3>2, <3>3 DEF RouterConsistent
  <2>2. CASE u # tn
    BY <2>2, <1>2, <1>3, <1>4 DEF RouterConsistent, ReadyEngines
  <2> QED
    BY <2>1, <2>2
<1> QED
  BY <1>5 DEF RouterConsistent

LEMMA SameTablesRouter ==
  ASSUME RouterConsistent, UNCHANGED tableVars
  PROVE  RouterConsistent'
BY DEF tableVars, RouterConsistent, ReadyEngines

LEMMA NextRouter ==
  ASSUME TypeOK, RouterConsistent, [Next]_vars
  PROVE  RouterConsistent'
<1>1. ASSUME RunStep PROVE UNCHANGED tableVars
  BY <1>1 DEF RunStep, RunDequeue, RunRoute, RunChoose, RunAssign, RunSend, ScheduleFails
<1>2. ASSUME NEW t \in Tasks, TaskStep(t) \/ CtxDone(t)
      PROVE  UNCHANGED tableVars
  BY <1>2 DEF TaskStep, CtxDone, Start, Enqueue, FinishOnCtxDone, FinishOnOutOfOrder,
              FinishOnError, FinishOnForwardError, Retry, HandleSecondResponse, HandleLast,
              HandleNext, BodyRead, Leave, LeaveWithError
<1>3. ASSUME NEW job \in timers, TimerFire(job)
      PROVE  UNCHANGED tableVars
  BY <1>3 DEF TimerFire
<1>4. ASSUME NEW c \in Conns, ConnStep(c)
      PROVE  RouterConsistent'
  <2>1. CASE \E s \in Statuses : EngineStatus(c, s)
    BY <2>1, EngineStatusRouter
  <2>2. CASE (\E t \in Tasks : CancelTask(c, t)) \/ Break(c)
    BY <2>2, SameTablesRouter DEF CancelTask, Break
  <2>3. CASE Close(c) \/ Unreport(c)
    BY <2>3, RemoveEngineRouter, SameTablesRouter DEF Close, Unreport
  <2> QED
    BY <1>4, <2>1, <2>2, <2>3 DEF ConnStep
<1>5. ASSUME NEW x \in exec, ExecStep(x)
      PROVE  UNCHANGED tableVars
  BY <1>5 DEF ExecStep, Respond, SendEvent, Abort
<1>6. CASE UNCHANGED vars
  BY <1>6, SameTablesRouter DEF vars
<1> QED
  BY <1>1, <1>2, <1>3, <1>4, <1>5, <1>6, SameTablesRouter DEF Next, Idle

(***************************************************************************)
(* Whatever the order in which streams register and remove engines, a      *)
(* tenant's map routes each model to exactly the tenant's ready engines    *)
(* that reported it last.                                                  *)
(***************************************************************************)
THEOREM RouterCorrect == Spec => []RouterConsistent
<1>1. Init => RouterConsistent
  BY DEF Init, RouterConsistent, ReadyEngines, EmptyRouteMap
<1>2. TypeOK /\ RouterConsistent /\ [Next]_vars => RouterConsistent'
  BY NextRouter
<1> QED
  BY <1>1, <1>2, TypeCorrect, PTL DEF Spec

(***************************************************************************)
(* CopiesAreDistinct and RetryBounded.  Neither is inductive alone: that a *)
(* retry's new copy differs from all others needs the bound on the         *)
(* attempts of the copies that exist, and that a first copy does needs     *)
(* that a task which was not queued yet has none.                          *)
(***************************************************************************)
CopyInv == CopiesAreDistinct /\ RetryBounded

\* What the queue holds after Append and Tail.
LEMMA AppendElements ==
  ASSUME NEW S, NEW q \in Seq(S), NEW e \in S
  PROVE  {Append(q, e)[i] : i \in DOMAIN Append(q, e)} = {q[i] : i \in DOMAIN q} \cup {e}
<1>1. DOMAIN Append(q, e) = 1..(Len(q) + 1) /\ DOMAIN q = 1..Len(q) /\ Len(q) \in Nat
  OBVIOUS
<1>2. \A i \in 1..Len(q) : Append(q, e)[i] = q[i]
  OBVIOUS
<1>3. Append(q, e)[Len(q) + 1] = e
  OBVIOUS
<1>4. \A i \in 1..(Len(q) + 1) : i \in 1..Len(q) \/ i = Len(q) + 1
  BY <1>1
<1>5. Len(q) + 1 \in 1..(Len(q) + 1) /\ 1..Len(q) \subseteq 1..(Len(q) + 1)
  BY <1>1
<1> QED
  BY <1>1, <1>2, <1>3, <1>4, <1>5

LEMMA AppendDistinct ==
  ASSUME NEW S, NEW q \in Seq(S), NEW e \in S,
         \A i, j \in DOMAIN q : i # j => q[i] # q[j],
         e \notin {q[i] : i \in DOMAIN q}
  PROVE  \A i, j \in DOMAIN Append(q, e) : i # j => Append(q, e)[i] # Append(q, e)[j]
<1>1. DOMAIN Append(q, e) = 1..(Len(q) + 1) /\ DOMAIN q = 1..Len(q) /\ Len(q) \in Nat
  OBVIOUS
<1>2. \A i \in 1..Len(q) : Append(q, e)[i] = q[i]
  OBVIOUS
<1>3. Append(q, e)[Len(q) + 1] = e
  OBVIOUS
<1>4. \A i \in 1..(Len(q) + 1) : i \in 1..Len(q) \/ i = Len(q) + 1
  BY <1>1
<1>5. \A i \in 1..Len(q) : q[i] # e
  BY <1>1
<1> QED
  BY <1>1, <1>2, <1>3, <1>4, <1>5

LEMMA TailElements ==
  ASSUME NEW S, NEW q \in Seq(S), q # <<>>,
         \A i, j \in DOMAIN q : i # j => q[i] # q[j]
  PROVE  /\ Head(q) \in {q[i] : i \in DOMAIN q}
         /\ {Tail(q)[i] : i \in DOMAIN Tail(q)} \subseteq {q[i] : i \in DOMAIN q} \ {Head(q)}
         /\ \A i, j \in DOMAIN Tail(q) : i # j => Tail(q)[i] # Tail(q)[j]
<1>1. DOMAIN q = 1..Len(q) /\ Len(q) \in Nat /\ Len(q) # 0
  OBVIOUS
<1>2. Head(q) = q[1] /\ 1 \in DOMAIN q
  BY <1>1
<1>3. Tail(q) \in Seq(S) /\ Len(Tail(q)) = Len(q) - 1
  BY <1>1
<1>4. DOMAIN Tail(q) = 1..(Len(q) - 1)
  BY <1>3
<1>5. \A i \in 1..(Len(q) - 1) : Tail(q)[i] = q[i + 1] /\ i + 1 \in DOMAIN q /\ i + 1 # 1
  BY <1>1
<1>6. \A i, j \in 1..(Len(q) - 1) : i # j => i + 1 # j + 1
  BY <1>1
<1> QED
  BY <1>2, <1>4, <1>5, <1>6

\* Copies are jobs.
LEMMA CopiesType ==
  ASSUME TypeOK
  PROVE  /\ Queued \subseteq Job /\ timers \subseteq Job /\ Held \subseteq Job
         /\ Executed \subseteq Job
         /\ \A job \in Job : job[1] \in Tasks /\ job[2] \in 0..MaxRetryCount
                             /\ job = <<job[1], job[2]>>
         /\ \A job \in Copies : job \in Job /\ job[1] \in Tasks
<1>1. Queued \subseteq Job
  BY DEF TypeOK, QueueTypeOK, Queued
<1>2. timers \subseteq Job
  BY DEF TypeOK, QueueTypeOK
<1>3. Held \subseteq Job
  BY DEF TypeOK, RunTypeOK, Held
<1>4. Executed \subseteq Job
  BY DEF TypeOK, ExecTypeOK, Executed, Execution
<1>5. \A job \in Job : job[1] \in Tasks /\ job[2] \in 0..MaxRetryCount
                       /\ job = <<job[1], job[2]>>
  BY DEF Job
<1> QED
  BY <1>1, <1>2, <1>3, <1>4, <1>5 DEF Copies

\* Steps that make no copy: what was held or executed may only go away.
LEMMA NoNewCopy ==
  ASSUME TypeOK, CopyInv, queue' = queue, timers' = timers, retryCount' = retryCount,
         Held' \subseteq Held, Executed' \subseteq Executed,
         \A x, y \in exec' : x.job = y.job => x = y,
         \A t \in Tasks : pc'[t] \in {"new", "enqueue"} => pc[t] \in {"new", "enqueue"}
  PROVE  CopyInv'
<1>1. Queued' = Queued
  BY DEF Queued
<1>2. Copies' \subseteq Copies
  BY <1>1 DEF Copies
<1>3. CopiesAreDistinct'
  BY <1>1 DEF CopyInv, CopiesAreDistinct
<1>4. \A job \in Copies : job[1] \in Tasks
  BY CopiesType
<1>5. RetryBounded'
  BY <1>2, <1>4 DEF CopyInv, RetryBounded
<1> QED
  BY <1>3, <1>5 DEF CopyInv

\* The scheduler moves a copy from the queue to its hands and to an engine.
LEMMA RunCopies ==
  ASSUME TypeOK, CopyInv, RunStep
  PROVE  CopyInv'
<1>1. CASE RunDequeue
  <2>1. queue \in Seq(Job) /\ queue # <<>>
        /\ (\A i, j \in DOMAIN queue : i # j => queue[i] # queue[j])
    BY <1>1 DEF RunDequeue, TypeOK, QueueTypeOK, CopyInv, CopiesAreDistinct
  <2>2. run'.job = Head(queue) /\ queue' = Tail(queue)
    BY <1>1 DEF RunDequeue, TypeOK, RunTypeOK, RunState
  <2>3. Held' \subseteq {Head(queue)} /\ exec' = exec /\ timers' = timers
    BY <1>1, <2>2 DEF RunDequeue, Held
  <2>4. /\ Head(queue) \in Queued /\ Queued' \subseteq Queued \ {Head(queue)}
        /\ \A i, j \in DOMAIN queue' : i # j => queue'[i] # queue'[j]
    BY <2>1, <2>2, TailElements DEF Queued
  <2>5. CopiesAreDistinct'
    BY <2>3, <2>4 DEF CopyInv, CopiesAreDistinct, Executed
  <2>6. Copies' \subseteq Copies /\ retryCount' = retryCount /\ pc' = pc
    BY <1>1, <2>3, <2>4 DEF Copies, Executed, RunDequeue, callVars, retryVars
  <2> QED
    BY <2>5, <2>6 DEF CopyInv, RetryBounded
<1>2. ASSUME queue' = queue, timers' = timers, exec' = exec, retryCount' = retryCount,
             pc' = pc, Held' \subseteq Held
      PROVE  CopyInv'
  BY <1>2, NoNewCopy DEF Executed, CopyInv, CopiesAreDistinct
<1>3. run' = IdleRun => Held' \subseteq Held
  BY DEF Held, IdleRun
<1>4. ASSUME ScheduleFails PROVE CopyInv'
  BY <1>2, <1>3, <1>4 DEF ScheduleFails, callVars, retryVars
<1>5. CASE RunRoute
  <2>1. ASSUME NEW ids \in EnginesForTask(run.job[1]),
               run' = [run EXCEPT !.pc = "choose", !.candidates = ids]
        PROVE  Held' \subseteq Held
    BY <2>1 DEF Held, TypeOK, RunTypeOK, RunState
  <2> QED
    BY <1>2, <1>4, <1>5, <2>1 DEF RunRoute, callVars, retryVars
<1>6. CASE RunChoose
  <2>1. ASSUME NEW e, run' = [run EXCEPT !.pc = "assign", !.candidates = {}, !.engine = e]
        PROVE  Held' \subseteq Held
    BY <2>1 DEF Held, TypeOK, RunTypeOK, RunState
  <2> QED
    BY <1>2, <1>4, <1>6, <2>1 DEF RunChoose, callVars, retryVars
<1>7. CASE RunAssign
  <2>1. Held' \subseteq Held
    BY <1>7 DEF RunAssign, Held, TypeOK, RunTypeOK, RunState
  <2> QED
    BY <1>2, <1>7, <2>1 DEF RunAssign, callVars
<1>8. CASE RunSend
  <2>1. CASE ScheduleFails
    BY <1>4, <2>1
  <2>2. ASSUME exec' = exec \cup {[job |-> run.job, conn |-> Sender, next |-> 0]} \/ exec' = exec,
               run' = IdleRun,
               UNCHANGED <<tableVars, connVars, queue, timers, callVars, ctxDone, retryVars, chVars>>
        PROVE  CopyInv'
    <3>1. run.job \in Held
      BY <1>8, NullsAssumption DEF RunSend, TypeOK, RunTypeOK, Held
    <3>2. Held' = {} /\ Queued' = Queued /\ timers' = timers /\ queue' = queue
      BY <2>2 DEF Held, IdleRun, Queued
    <3>3. Executed' \subseteq Executed \cup {run.job}
      BY <2>2 DEF Executed
    <3>4. run.job \notin Queued \cup timers \cup Executed
      BY <3>1 DEF CopyInv, CopiesAreDistinct
    <3>5. ASSUME NEW x \in exec', NEW y \in exec', x.job = y.job
          PROVE  x = y
      BY <2>2, <3>4, <3>5 DEF CopyInv, CopiesAreDistinct, Executed
    <3>6. CopiesAreDistinct'
      BY <3>2, <3>3, <3>4, <3>5 DEF CopyInv, CopiesAreDistinct
    <3>7. Copies' \subseteq Copies /\ retryCount' = retryCount /\ pc' = pc
      BY <2>2, <3>1, <3>2, <3>3 DEF Copies, callVars, retryVars
    <3> QED
      BY <3>6, <3>7 DEF CopyInv, RetryBounded
  <2> QED
    BY <1>8, <2>1, <2>2 DEF RunSend
<1> QED
  BY <1>1, <1>5, <1>6, <1>7, <1>8 DEF RunStep

\* A copy that exists nowhere else is put in the queue.
LEMMA EnqueuedCopy ==
  ASSUME TypeOK, CopyInv, NEW job \in Job, job \notin Queued \cup Held \cup Executed,
         queue' = Append(queue, job), timers' \subseteq timers \ {job},
         run' = run, exec' = exec
  PROVE  CopiesAreDistinct' /\ Copies' \subseteq Copies \cup {job}
<1>1. queue \in Seq(Job) /\ (\A i, j \in DOMAIN queue : i # j => queue[i] # queue[j])
  BY DEF TypeOK, QueueTypeOK, CopyInv, CopiesAreDistinct
<1>2. Queued' = Queued \cup {job}
  BY <1>1, AppendElements DEF Queued
<1>3. \A i, j \in DOMAIN queue' : i # j => queue'[i] # queue'[j]
  BY <1>1, AppendDistinct DEF Queued
<1>4. Held' = Held /\ Executed' = Executed
  BY DEF Held, Executed
<1> QED
  BY <1>2, <1>3, <1>4 DEF CopyInv, CopiesAreDistinct, Copies

LEMMA EnqueueCopies ==
  ASSUME TypeOK, CopyInv, NEW t \in Tasks, Enqueue(t)
  PROVE  CopyInv'
<1>1. <<t, 0>> \in Job
  BY ConstantsAssumption DEF Job
<1>2. <<t, 0>> \notin Copies
  BY DEF Enqueue, CopyInv, RetryBounded
<1>3. CopiesAreDistinct' /\ Copies' \subseteq Copies \cup {<<t, 0>>}
  BY <1>1, <1>2, EnqueuedCopy DEF Enqueue, Copies
<1>4. retryCount' = retryCount /\ pc' = [pc EXCEPT ![t] = "waiting"]
  BY DEF Enqueue, retryVars
<1>5. retryCount[t] >= 0
  BY ConstantsAssumption DEF TypeOK, RetryTypeOK
<1>6. ASSUME NEW job \in Copies'
      PROVE  job[2] <= retryCount'[job[1]] /\ pc'[job[1]] \notin {"new", "enqueue"}
  <2>1. CASE job \in Copies
    <3>1. job[1] \in Tasks
      BY <2>1, CopiesType
    <3> QED
      BY <2>1, <3>1, <1>4 DEF CopyInv, RetryBounded, TypeOK, CallTypeOK
  <2>2. CASE job = <<t, 0>>
    BY <2>2, <1>4, <1>5 DEF TypeOK, CallTypeOK
  <2> QED
    BY <1>3, <2>1, <2>2
<1> QED
  BY <1>3, <1>4, <1>6 DEF CopyInv, RetryBounded

LEMMA TimerFireCopies ==
  ASSUME TypeOK, CopyInv, NEW job \in timers, TimerFire(job)
  PROVE  CopyInv'
<1>1. job \in Job /\ job \in Copies /\ job \notin Queued \cup Held \cup Executed
  BY CopiesType DEF CopyInv, CopiesAreDistinct, Copies
<1>2. CopiesAreDistinct' /\ Copies' \subseteq Copies
  BY <1>1, EnqueuedCopy DEF TimerFire
<1>3. retryCount' = retryCount /\ pc' = pc
  BY DEF TimerFire, callVars, retryVars
<1> QED
  BY <1>2, <1>3 DEF CopyInv, RetryBounded

\* The copy a retry makes carries an attempt that no other copy has.
LEMMA RetryCopies ==
  ASSUME TypeOK, CopyInv, NEW t \in Tasks, Retry(t)
  PROVE  CopyInv'
<1> DEFINE job == <<t, retryCount[t] + 1>>
<1>1. retryCount[t] \in Nat /\ retryCount[t] < MaxRetryCount
  BY ConstantsAssumption DEF Retry, CanRetry, TypeOK, RetryTypeOK
<1>2. job \notin Copies
  BY <1>1 DEF CopyInv, RetryBounded
<1>3. /\ retryCount' = [retryCount EXCEPT ![t] = retryCount[t] + 1]
      /\ timers' = timers \cup {job} /\ queue' = queue /\ run' = run /\ exec' = exec /\ pc' = pc
  BY DEF Retry, callVars
<1> HIDE DEF job
<1>4. Queued' = Queued /\ Held' = Held /\ Executed' = Executed
  BY <1>3 DEF Queued, Held, Executed
<1>5. CopiesAreDistinct'
  BY <1>2, <1>3, <1>4 DEF CopyInv, CopiesAreDistinct, Copies
<1>6. Copies' = Copies \cup {job}
  BY <1>3, <1>4 DEF Copies
<1>7. \A u \in Tasks : retryCount[u] <= retryCount'[u] /\ retryCount'[u] <= MaxRetryCount
                       /\ retryCount[u] \in Nat /\ retryCount'[u] \in Nat
  BY <1>1, <1>3, ConstantsAssumption DEF TypeOK, RetryTypeOK, CopyInv, RetryBounded
<1>8. ASSUME NEW j \in Copies'
      PROVE  j[2] <= retryCount'[j[1]] /\ pc'[j[1]] \notin {"new", "enqueue"}
  <2>1. CASE j \in Copies
    <3>1. j[1] \in Tasks /\ j[2] \in Nat
      BY <2>1, CopiesType, ConstantsAssumption
    <3> QED
      BY <2>1, <3>1, <1>3, <1>7 DEF CopyInv, RetryBounded
  <2>2. CASE j = job
    <3>1. pc[t] = "waiting"
      BY DEF Retry, Received
    <3> QED
      BY <2>2, <3>1, <1>1, <1>3 DEF job, TypeOK, RetryTypeOK
  <2> QED
    BY <1>6, <2>1, <2>2
<1> QED
  BY <1>5, <1>7, <1>8 DEF CopyInv, RetryBounded

LEMMA TaskCopies ==
  ASSUME TypeOK, CopyInv, NEW t \in Tasks, TaskStep(t) \/ CtxDone(t)
  PROVE  CopyInv'
<1>1. CASE Enqueue(t)
  BY <1>1, EnqueueCopies
<1>2. CASE Retry(t)
  BY <1>2, RetryCopies
<1>3. ASSUME queue' = queue, timers' = timers, run' = run, exec' = exec,
             retryCount' = retryCount,
             \/ pc' = pc
             \/ \E v \in {"waiting", "writing", "closing", "blocked", "done"} :
                  pc' = [pc EXCEPT ![t] = v]
             \/ pc[t] = "new" /\ pc' = [pc EXCEPT ![t] = "enqueue"]
      PROVE  CopyInv'
  <2>1. \A u \in Tasks : pc'[u] \in {"new", "enqueue"} => pc[u] \in {"new", "enqueue"}
    BY <1>3 DEF TypeOK, CallTypeOK
  <2>2. Held' = Held /\ Executed' = Executed
    BY <1>3 DEF Held, Executed
  <2> QED
    BY <1>3, <2>1, <2>2, NoNewCopy DEF CopyInv, CopiesAreDistinct
<1>4. ASSUME NEW outcome, Leave(t, outcome) PROVE CopyInv'
  BY <1>3, <1>4 DEF Leave, retryVars
<1>5. CASE \/ FinishOnCtxDone(t) \/ FinishOnOutOfOrder(t) \/ FinishOnError(t)
           \/ FinishOnForwardError(t)
  BY <1>4, <1>5 DEF FinishOnCtxDone, FinishOnOutOfOrder, FinishOnError, FinishOnForwardError,
                    LeaveWithError
<1>6. CASE Start(t) \/ CtxDone(t) \/ HandleSecondResponse(t)
  BY <1>3, <1>6 DEF Start, CtxDone, HandleSecondResponse, callVars, retryVars
<1>7. CASE HandleLast(t) \/ BodyRead(t)
  BY <1>3, <1>4, <1>7 DEF HandleLast, BodyRead, retryVars
<1>8. CASE HandleNext(t)
  <2>1. pc' = [pc EXCEPT ![t] = "writing"] \/ pc' = [pc EXCEPT ![t] = "waiting"]
    BY <1>8 DEF HandleNext
  <2> QED
    BY <1>3, <1>8, <2>1 DEF HandleNext, retryVars
<1> QED
  BY <1>1, <1>2, <1>5, <1>6, <1>7, <1>8 DEF TaskStep

LEMMA ConnCopies ==
  ASSUME TypeOK, CopyInv, NEW c \in Conns, ConnStep(c)
  PROVE  CopyInv'
<1>1. ASSUME queue' = queue, timers' = timers, retryCount' = retryCount, pc' = pc,
             Held' = Held, exec' \subseteq exec
      PROVE  CopyInv'
  BY <1>1, NoNewCopy DEF Executed, CopyInv, CopiesAreDistinct
<1>2. run' = run => Held' = Held
  BY DEF Held
<1>3. ASSUME RemoveEngine(c) PROVE Held' = Held
  BY <1>3 DEF RemoveEngine, Held, TypeOK, RunTypeOK, RunState
<1>4. ASSUME NEW s \in Statuses, EngineStatus(c, s) PROVE CopyInv'
  BY <1>1, <1>2, <1>4 DEF EngineStatus, callVars, retryVars
<1>5. ASSUME NEW t \in Tasks, CancelTask(c, t) PROVE CopyInv'
  BY <1>1, <1>2, <1>5 DEF CancelTask, callVars, retryVars
<1>6. CASE Break(c)
  BY <1>1, <1>2, <1>6 DEF Break, callVars, retryVars
<1>7. CASE Close(c) \/ Unreport(c)
  BY <1>1, <1>2, <1>3, <1>7 DEF Close, Unreport, callVars, retryVars
<1> QED
  BY <1>4, <1>5, <1>6, <1>7 DEF ConnStep

LEMMA ExecCopies ==
  ASSUME TypeOK, CopyInv, NEW x \in exec, ExecStep(x)
  PROVE  CopyInv'
<1> DEFINE next == [x EXCEPT !.next = @ + 1]
<1>1. next.job = x.job
  BY DEF TypeOK, ExecTypeOK, Execution
<1>2. /\ queue' = queue /\ timers' = timers /\ retryCount' = retryCount
      /\ pc' = pc /\ run' = run
  BY DEF ExecStep, Respond, SendEvent, Abort, callVars, retryVars
<1>3. exec' \subseteq (exec \ {x}) \cup {next}
  BY DEF ExecStep, Respond, SendEvent, Abort, Advance
<1> HIDE DEF next
<1>4. Executed' \subseteq Executed
  BY <1>1, <1>3 DEF Executed
<1>5. \A y, z \in exec' : y.job = z.job => y = z
  BY <1>1, <1>3 DEF CopyInv, CopiesAreDistinct
<1> QED
  BY <1>2, <1>4, <1>5, NoNewCopy DEF Held

LEMMA NextCopies ==
  ASSUME TypeOK, CopyInv, [Next]_vars
  PROVE  CopyInv'
<1>1. CASE UNCHANGED vars
  BY <1>1, NoNewCopy DEF vars, callVars, retryVars, Held, Executed, CopyInv, CopiesAreDistinct
<1> QED
  BY <1>1, RunCopies, TaskCopies, TimerFireCopies, ConnCopies, ExecCopies DEF Next, Idle

LEMMA CopiesCorrect == Spec => []CopyInv
<1>1. Init => CopyInv
  BY ConstantsAssumption DEF Init, CopyInv, CopiesAreDistinct, RetryBounded, Copies, Queued,
     Held, Executed, IdleRun
<1>2. TypeOK /\ CopyInv /\ [Next]_vars => CopyInv'
  BY NextCopies
<1> QED
  BY <1>1, <1>2, TypeCorrect, PTL DEF Spec

(***************************************************************************)
(* No attempt of a task is queued, held or executed twice at once, however *)
(* retries, late timers and slow engines interleave.                       *)
(***************************************************************************)
THEOREM AttemptsAreDistinct == Spec => []CopiesAreDistinct
<1>1. CopyInv => CopiesAreDistinct
  BY DEF CopyInv
<1> QED
  BY <1>1, CopiesCorrect, PTL

(***************************************************************************)
(* A task is retried at most maxRetryCount times and no copy of it is an   *)
(* attempt beyond those.                                                   *)
(***************************************************************************)
THEOREM RetriesAreBounded == Spec => []RetryBounded
<1>1. CopyInv => RetryBounded
  BY DEF CopyInv
<1> QED
  BY <1>1, CopiesCorrect, PTL
-----------------------------------------------------------------------------
(***************************************************************************)
(* ExecutedByRightEngine.  A job passes from routing to choosing to sending*)
(* in separate critical sections; what is carried along is that the engine *)
(* is the task's target, if it has one, and that the stream kept for an    *)
(* engine of a tenant, in the engine table, in the task exchanger or in    *)
(* the scheduler's hands, is a stream of that engine and tenant.           *)
(***************************************************************************)
\* A sender is a stream of the engine it is kept for.
SenderOf(c, tn, e) == ConnTenant[c] = tn /\ ConnEngine[c] = e

SendersOK ==
  /\ \A tn \in Tenants, e \in Engines :
       engines[tn][e] # NoEntry => SenderOf(engines[tn][e].sender, tn, e)
  /\ \A e \in Engines : serverSender[e] # NoConn => ConnEngine[serverSender[e]] = e

\* The scheduler has chosen among the engines the task may go to.
ChoiceOK ==
  LET t == run.job[1]
  IN  /\ run.pc \in {"dequeue", "route", "choose"} => run.orphan = NoConn
      /\ run.pc = "choose" /\ TaskTarget[t] # NoEngine => run.candidates \subseteq {TaskTarget[t]}
      /\ run.pc \in {"assign", "send"} =>
           /\ TaskTarget[t] \in {NoEngine, run.engine}
           /\ run.orphan # NoConn => SenderOf(run.orphan, TaskTenant[t], run.engine)

RightInv == SendersOK /\ ChoiceOK /\ ExecutedByRightEngine

\* Steps that leave the tables, the task senders and the scheduler alone.
LEMMA SameSenders ==
  ASSUME RightInv, UNCHANGED <<engines, serverSender, run>>,
         \A x \in exec' : \E y \in exec : x.job = y.job /\ x.conn = y.conn
  PROVE  RightInv'
<1>1. SendersOK' /\ ChoiceOK'
  BY DEF RightInv, SendersOK, ChoiceOK
<1>2. ExecutedByRightEngine'
  BY DEF RightInv, ExecutedByRightEngine
<1> QED
  BY <1>1, <1>2 DEF RightInv

LEMMA CandidatesOfTarget ==
  ASSUME NEW t \in Tasks, TaskTarget[t] # NoEngine, NEW ids \in EnginesForTask(t)
  PROVE  ids \subseteq {TaskTarget[t]}
BY DEF EnginesForTask

LEMMA PreferredIsCandidate ==
  ASSUME NEW tn \in Tenants, NEW ids, NEW e \in MostPreferred(tn, ids)
  PROVE  e \in ids
BY DEF MostPreferred, LeastLoaded

\* What the scheduler sends to is a stream of the engine it chose.
LEMMA SenderRight ==
  ASSUME TypeOK, RightInv, run.pc = "send"
  PROVE  /\ SenderOf(Sender, TaskTenant[run.job[1]], run.engine)
         /\ TaskTarget[run.job[1]] \in {NoEngine, run.engine}
<1>1. TaskTarget[run.job[1]] \in {NoEngine, run.engine}
  BY DEF RightInv, ChoiceOK
<1>2. CASE run.orphan # NoConn
  BY <1>1, <1>2 DEF RightInv, ChoiceOK, Sender
<1>3. CASE run.orphan = NoConn
  <2>1. TaskTenant[run.job[1]] \in Tenants /\ run.engine \in Engines
    BY ConstantsAssumption DEF TypeOK, RunTypeOK, Job
  <2>2. engines[TaskTenant[run.job[1]]][run.engine] # NoEntry
    BY <1>3 DEF TypeOK, ChosenOK
  <2> QED
    BY <1>1, <1>3, <2>1, <2>2 DEF RightInv, SendersOK, Sender
<1> QED
  BY <1>2, <1>3

LEMMA RunRight ==
  ASSUME TypeOK, RightInv, RunStep
  PROVE  RightInv'
<1>1. ASSUME UNCHANGED <<engines, serverSender>>, exec' = exec, ChoiceOK'
      PROVE  RightInv'
  <2>1. SendersOK'
    BY <1>1 DEF RightInv, SendersOK
  <2>2. ExecutedByRightEngine'
    BY <1>1 DEF RightInv, ExecutedByRightEngine
  <2> QED
    BY <1>1, <2>1, <2>2 DEF RightInv
<1>2. run' = IdleRun => ChoiceOK'
  BY DEF ChoiceOK, IdleRun
<1>3. ASSUME ScheduleFails PROVE RightInv'
  BY <1>1, <1>2, <1>3 DEF ScheduleFails, tableVars, connVars
<1>4. run \in RunState
  BY DEF TypeOK, RunTypeOK
<1>5. CASE RunDequeue
  <2>1. run'.pc = "route" /\ run'.orphan = run.orphan
    BY <1>4, <1>5 DEF RunDequeue, RunState
  <2>2. ChoiceOK'
    BY <1>5, <2>1 DEF RunDequeue, RightInv, ChoiceOK
  <2> QED
    BY <1>1, <1>5, <2>2 DEF RunDequeue, tableVars, connVars
<1>6. CASE RunRoute
  <2>1. ASSUME NEW ids \in EnginesForTask(run.job[1]),
               run' = [run EXCEPT !.pc = "choose", !.candidates = ids]
        PROVE  ChoiceOK'
    <3>1. run.job[1] \in Tasks
      BY <1>6 DEF RunRoute, TypeOK, RunTypeOK, Job
    <3>2. run'.pc = "choose" /\ run'.job = run.job /\ run'.candidates = ids /\ run'.orphan = run.orphan
      BY <1>4, <2>1 DEF RunState
    <3>3. run.orphan = NoConn
      BY <1>6 DEF RunRoute, RightInv, ChoiceOK
    <3> QED
      BY <3>1, <3>2, <3>3, CandidatesOfTarget DEF ChoiceOK
  <2> QED
    BY <1>1, <1>3, <1>6, <2>1 DEF RunRoute, tableVars, connVars
<1>7. CASE RunChoose
  <2>1. ASSUME NEW e \in MostPreferred(TaskTenant[run.job[1]], run.candidates),
               run' = [run EXCEPT !.pc = "assign", !.candidates = {}, !.engine = e]
        PROVE  ChoiceOK'
    <3>1. run.job[1] \in Tasks
      BY <1>7 DEF RunChoose, TypeOK, RunTypeOK, Job
    <3>2. e \in run.candidates
      BY <3>1, PreferredIsCandidate, ConstantsAssumption
    <3>3. TaskTarget[run.job[1]] \in {NoEngine, e} /\ run.orphan = NoConn
      BY <1>7, <3>2 DEF RunChoose, RightInv, ChoiceOK
    <3>4. run'.pc = "assign" /\ run'.job = run.job /\ run'.engine = e /\ run'.orphan = run.orphan
      BY <1>4, <2>1 DEF RunState
    <3> QED
      BY <3>3, <3>4 DEF ChoiceOK
  <2> QED
    BY <1>1, <1>3, <1>7, <2>1 DEF RunChoose, tableVars, connVars
<1>8. CASE RunAssign
  <2>1. run'.pc \in {"send", "crashed"} /\ run'.job = run.job /\ run'.engine = run.engine
        /\ run'.orphan = run.orphan
    BY <1>4, <1>8 DEF RunAssign, RunState
  <2>2. ChoiceOK'
    BY <1>8, <2>1 DEF RunAssign, RightInv, ChoiceOK
  <2> QED
    BY <1>1, <1>8, <2>2 DEF RunAssign, tableVars, connVars
<1>9. CASE RunSend
  <2>1. CASE ScheduleFails
    BY <2>1, <1>3
  <2>2. CASE ~ScheduleFails
    <3>1. run' = IdleRun /\ UNCHANGED <<engines, serverSender>>
      BY <1>9, <2>2 DEF RunSend, tableVars, connVars
    <3>2. SendersOK' /\ ChoiceOK'
      BY <3>1, <1>2 DEF RightInv, SendersOK
    <3>3. ASSUME NEW x \in exec'
          PROVE  ConnTenant[x.conn] = TaskTenant[x.job[1]]
                 /\ TaskTarget[x.job[1]] \in {NoEngine, ConnEngine[x.conn]}
      <4>1. CASE x \in exec
        BY <4>1 DEF RightInv, ExecutedByRightEngine
      <4>2. CASE x \notin exec
        <5>1. x = [job |-> run.job, conn |-> Sender, next |-> 0]
          BY <1>9, <2>2, <4>2, <3>3 DEF RunSend
        <5>2. x.job = run.job /\ x.conn = Sender
          BY <5>1
        <5> QED
          BY <1>9, <5>2, SenderRight DEF RunSend, SenderOf
      <4> QED
        BY <4>1, <4>2
    <3> QED
      BY <3>2, <3>3 DEF RightInv, ExecutedByRightEngine
  <2> QED
    BY <2>1, <2>2
<1> QED
  BY <1>5, <1>6, <1>7, <1>8, <1>9 DEF RunStep

(***************************************************************************)
(* The stream handlers.                                                    *)
(***************************************************************************)

\* A remote engine's streams are all of its tenant.
LEMMA StatusSenderRight ==
  ASSUME TypeOK, SendersOK, NEW c \in Conns
  PROVE  SenderOf(StatusSender(c), ConnTenant[c], ConnEngine[c])
<1>1. ConnEngine[c] \in Engines
  BY ConstantsAssumption
<1>2. StatusSender(c) \in Conns
  BY StatusSenderType
<1>3. ConnEngine[StatusSender(c)] = ConnEngine[c]
  BY <1>1 DEF StatusSender, SendersOK
<1> QED
  BY <1>2, <1>3, ConstantsAssumption DEF SenderOf

\* Writing an engine's entry and task sender with one of its streams.
LEMMA EngineStatusRight ==
  ASSUME TypeOK, RightInv, NEW c \in Conns, NEW s \in Statuses, EngineStatus(c, s)
  PROVE  RightInv'
<1> DEFINE tn == ConnTenant[c]
           e == ConnEngine[c]
           entry == [sender |-> StatusSender(c), ready |-> s.ready, models |-> s.models]
<1>1. tn \in Tenants /\ e \in Engines
  BY ConstantsAssumption
<1>2. SenderOf(StatusSender(c), tn, e)
  BY StatusSenderRight DEF RightInv
<1>3. entry.sender = StatusSender(c)
  OBVIOUS
<1>4. engines' = [engines EXCEPT ![tn][e] = entry]
  BY DEF EngineStatus
<1>5. \A u \in Tenants, f \in Engines :
        engines'[u][f] = IF u = tn /\ f = e THEN entry ELSE engines[u][f]
  BY <1>1, <1>4 DEF TypeOK, TableTypeOK
<1>6. \A f \in Engines : serverSender'[f] = serverSender[f]
                         \/ (f = e /\ serverSender'[f] = StatusSender(c))
  BY <1>1 DEF EngineStatus, TypeOK, ConnTypeOK
<1> HIDE DEF entry
<1>7. \A u \in Tenants, f \in Engines :
        engines'[u][f] # NoEntry => SenderOf(engines'[u][f].sender, u, f)
  BY <1>2, <1>3, <1>5 DEF RightInv, SendersOK
<1>8. \A f \in Engines : serverSender'[f] # NoConn => ConnEngine[serverSender'[f]] = f
  BY <1>2, <1>6 DEF RightInv, SendersOK, SenderOf
<1>9. SendersOK'
  BY <1>7, <1>8 DEF SendersOK
<1>10. ChoiceOK' /\ ExecutedByRightEngine'
  BY DEF EngineStatus, RightInv, ChoiceOK, ExecutedByRightEngine
<1> QED
  BY <1>9, <1>10 DEF RightInv

\* The handler takes the engine out; its sender may be left to the scheduler.
LEMMA RemoveEngineRight ==
  ASSUME TypeOK, RightInv, NEW c \in Conns, RemoveEngine(c)
  PROVE  /\ \A u \in Tenants, f \in Engines :
              engines'[u][f] # NoEntry => SenderOf(engines'[u][f].sender, u, f)
         /\ ChoiceOK'
<1>1. ConnTenant[c] \in Tenants /\ ConnEngine[c] \in Engines
  BY ConstantsAssumption
<1>2. \A u \in Tenants, f \in Engines :
        engines'[u][f] = IF u = ConnTenant[c] /\ f = ConnEngine[c] THEN NoEntry ELSE engines[u][f]
  BY <1>1 DEF RemoveEngine, TypeOK, TableTypeOK
<1>3. \A u \in Tenants, f \in Engines :
        engines'[u][f] # NoEntry => SenderOf(engines'[u][f].sender, u, f)
  BY <1>2 DEF RightInv, SendersOK
<1>4. CASE HeldByScheduler(c)
  <2> DEFINE entry == engines[ConnTenant[c]][ConnEngine[c]]
  <2>1. run' = [run EXCEPT !.orphan = entry.sender]
    BY <1>4 DEF RemoveEngine
  <2>2. run'.pc = run.pc /\ run'.job = run.job /\ run'.engine = run.engine
        /\ run'.orphan = entry.sender
    BY <2>1 DEF TypeOK, RunTypeOK, RunState
  <2>3. SenderOf(entry.sender, ConnTenant[c], ConnEngine[c])
    BY <1>1, <1>4 DEF HeldByScheduler, RightInv, SendersOK
  <2>4. /\ run.pc \in {"assign", "send"}
        /\ TaskTenant[run.job[1]] = ConnTenant[c]
        /\ run.engine = ConnEngine[c]
    BY <1>4 DEF HeldByScheduler
  <2>5. TaskTarget[run.job[1]] \in {NoEngine, run.engine}
    BY <2>4 DEF RightInv, ChoiceOK
  <2> HIDE DEF entry
  <2>6. ChoiceOK'
    BY <2>2, <2>3, <2>4, <2>5 DEF ChoiceOK
  <2> QED
    BY <1>3, <2>6
<1>5. CASE ~HeldByScheduler(c)
  BY <1>3, <1>5 DEF RemoveEngine, RightInv, ChoiceOK
<1> QED
  BY <1>4, <1>5

LEMMA HandlerEndRight ==
  ASSUME TypeOK, RightInv, NEW c \in Conns, exec' = exec,
         RemoveEngine(c) \/ UNCHANGED <<engines, run>>,
         \A f \in Engines : \/ serverSender'[f] \in {serverSender[f], NoConn}
                            \/ f = ConnEngine[c] /\ serverSender'[f] = StatusSender(c)
  PROVE  RightInv'
<1>1. /\ \A u \in Tenants, f \in Engines :
           engines'[u][f] # NoEntry => SenderOf(engines'[u][f].sender, u, f)
      /\ ChoiceOK'
  <2>1. CASE RemoveEngine(c)
    BY <2>1, RemoveEngineRight
  <2>2. CASE UNCHANGED <<engines, run>>
    BY <2>2 DEF RightInv, SendersOK, ChoiceOK
  <2> QED
    BY <2>1, <2>2
<1>2. ConnEngine[StatusSender(c)] = ConnEngine[c]
  BY StatusSenderRight DEF RightInv, SenderOf
<1>3. \A f \in Engines : serverSender'[f] # NoConn => ConnEngine[serverSender'[f]] = f
  BY <1>2 DEF RightInv, SendersOK
<1>4. SendersOK'
  BY <1>1, <1>3 DEF SendersOK
<1>5. ExecutedByRightEngine'
  BY DEF RightInv, ExecutedByRightEngine
<1> QED
  BY <1>1, <1>4, <1>5 DEF RightInv

LEMMA ConnStepRight ==
  ASSUME TypeOK, RightInv, NEW c \in Conns, ConnStep(c)
  PROVE  RightInv'
<1>1. CASE \E s \in Statuses : EngineStatus(c, s)
  BY <1>1, EngineStatusRight
<1>2. CASE \E t \in Tasks : CancelTask(c, t)
  BY <1>2, SameSenders DEF CancelTask, tableVars
<1>3. CASE Break(c)
  BY <1>3, SameSenders DEF Break, tableVars
<1>4. CASE Close(c)
  <2>1. RemoveEngine(c) \/ UNCHANGED <<engines, run>>
    BY <1>4 DEF Close, tableVars
  <2>2. \A f \in Engines : serverSender'[f] \in {serverSender[f], NoConn}
    BY <1>4 DEF Close, TypeOK, ConnTypeOK
  <2> QED
    BY <1>4, <2>1, <2>2, HandlerEndRight DEF Close
<1>5. CASE Unreport(c)
  <2>1. RemoveEngine(c) \/ UNCHANGED <<engines, run>>
    BY <1>5 DEF Unreport, tableVars
  <2>2. \A f \in Engines : \/ serverSender'[f] \in {serverSender[f], NoConn}
                           \/ f = ConnEngine[c] /\ serverSender'[f] = StatusSender(c)
    BY <1>5 DEF Unreport, TypeOK, ConnTypeOK
  <2> QED
    BY <1>5, <2>1, <2>2, HandlerEndRight DEF Unreport
<1> QED
  BY <1>1, <1>2, <1>3, <1>4, <1>5 DEF ConnStep

\* An execution stays the job and the stream it was started with.
LEMMA ExecStepRight ==
  ASSUME TypeOK, RightInv, NEW x \in exec, ExecStep(x)
  PROVE  RightInv'
<1>1. UNCHANGED <<engines, serverSender, run>>
  BY DEF ExecStep, Respond, SendEvent, Abort, tableVars, connVars
<1>2. x \in Execution
  BY DEF TypeOK, ExecTypeOK
<1>3. \A y \in exec' : y \in exec \/ y = [x EXCEPT !.next = @ + 1]
  BY DEF ExecStep, Respond, SendEvent, Abort, Advance
<1>4. [x EXCEPT !.next = @ + 1].job = x.job /\ [x EXCEPT !.next = @ + 1].conn = x.conn
  BY <1>2 DEF Execution
<1> QED
  BY <1>1, <1>3, <1>4, SameSenders

LEMMA NextRight ==
  ASSUME TypeOK, RightInv, [Next]_vars
  PROVE  RightInv'
<1>1. ASSUME NEW t \in Tasks, TaskStep(t) \/ CtxDone(t)
      PROVE  RightInv'
  <2>1. UNCHANGED <<engines, serverSender, run, exec>>
    BY <1>1 DEF TaskStep, CtxDone, Start, Enqueue, FinishOnCtxDone, FinishOnOutOfOrder,
                FinishOnError, FinishOnForwardError, Retry, HandleSecondResponse, HandleLast,
                HandleNext, BodyRead, Leave, LeaveWithError, tableVars, connVars
  <2> QED
    BY <2>1, SameSenders
<1>2. ASSUME NEW job \in timers, TimerFire(job)
      PROVE  RightInv'
  BY <1>2, SameSenders DEF TimerFire, tableVars, connVars
<1>3. CASE UNCHANGED vars
  BY <1>3, SameSenders DEF vars, tableVars, connVars
<1> QED
  BY <1>1, <1>2, <1>3, RunRight, ConnStepRight, ExecStepRight DEF Next, Idle

LEMMA RightInvariant == Spec => []RightInv
<1>1. Init => RightInv
  BY DEF Init, IdleRun, RightInv, SendersOK, ChoiceOK, ExecutedByRightEngine
<1>2. TypeOK /\ RightInv /\ [Next]_vars => RightInv'
  BY NextRight
<1> QED
  BY <1>1, <1>2, TypeCorrect, PTL DEF Spec

(***************************************************************************)
(* Whatever engines come and go while a task is scheduled, the engine that *)
(* executes it belongs to the task's tenant and is its target, if it has   *)
(* one.                                                                    *)
(***************************************************************************)
THEOREM RightEngines == Spec => []ExecutedByRightEngine
<1>1. RightInv => ExecutedByRightEngine
  BY DEF RightInv
<1> QED
  BY <1>1, RightInvariant, PTL

=============================================================================
