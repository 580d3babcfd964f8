---------------------------- MODULE InfProcessor ----------------------------
(***************************************************************************)
(* The task processor P of one server, server/internal/infprocessor: it    *)
(* queues inference tasks, routes each one to an engine of its tenant,     *)
(* sends it on the engine's stream and hands the results that come back on *)
(* that stream to the goroutine waiting for them.                          *)
(*                                                                         *)
(* The processes are                                                       *)
(*   - the scheduler, the one loop of Run: RunDequeue, RunRoute, RunChoose,*)
(*     RunAssign, RunSend;                                                 *)
(*   - one goroutine per task, sendTask's or the task receiver's, in       *)
(*     enqueueAndProcessTask: Start, Enqueue, Handle..., Finish...;        *)
(*   - the retry timers, goroutines of time.AfterFunc: TimerFire;          *)
(*   - one stream handler per connection, which registers an engine on its *)
(*     first status and removes it when the stream ends;                   *)
(*   - the engines, which execute what they are sent (engine/internal/     *)
(*     processor) and answer on the stream the task came from.             *)
(*                                                                         *)
(* Each action is one critical section of P.mu or one channel operation,   *)
(* with the local computation that follows it.                             *)
(***************************************************************************)
EXTENDS Router, Sequences

CONSTANTS
  Tenants, Tasks,
  Conns,           \* connections: a stream from an engine (local), or a stream
                   \* from another server that reports an engine of its own
  NoEngine, NoConn, NoEntry, NoJob,
  ConnEngine, ConnTenant, ConnLocal,    \* attributes of a connection
  TaskTenant, TaskModel, TaskTarget,    \* attributes of a task; TaskTarget
  TaskStream, TaskForwarded,            \* is NoEngine when there is none
  MayCancel,       \* the tasks whose caller may give up
  DynamicModelLoading,
  Statuses,        \* the [ready, models] an engine may report
  MaxRetryCount,   \* maxRetryCount
  QueueSize,       \* taskQueueSize
  BufSize,         \* taskResultBufferSize
  NumChunks        \* server sent events of a streamed response

(***************************************************************************)
(* An engine makes up a new ID for every stream it opens (run in           *)
(* engine/internal/processor), so a local engine has one connection.       *)
(* Servers reconnect to each other: connections of one remote engine are   *)
(* successive streams of the server it is connected to.                    *)
(***************************************************************************)
ASSUME ConstantsAssumption ==
  /\ NoEngine \notin Engines /\ NoConn \notin Conns
  /\ ConnEngine \in [Conns -> Engines]
  /\ ConnTenant \in [Conns -> Tenants]
  /\ ConnLocal \in [Conns -> BOOLEAN]
  /\ \A c, d \in Conns :
       c # d /\ ConnEngine[c] = ConnEngine[d]
         => ConnTenant[c] = ConnTenant[d] /\ ~ConnLocal[c] /\ ~ConnLocal[d]
  /\ TaskTenant \in [Tasks -> Tenants]
  /\ TaskModel \in [Tasks -> Models]
  /\ TaskTarget \in [Tasks -> Engines \cup {NoEngine}]
  /\ TaskStream \in [Tasks -> BOOLEAN]
  /\ TaskForwarded \in [Tasks -> BOOLEAN]
  /\ \A t \in Tasks : TaskForwarded[t] => TaskTarget[t] # NoEngine
  /\ MayCancel \subseteq Tasks
  /\ DynamicModelLoading \in BOOLEAN
  /\ Statuses \subseteq [ready : BOOLEAN, models : SUBSET Models]
  /\ MaxRetryCount \in Nat /\ QueueSize \in Nat \ {0}
  /\ BufSize \in Nat \ {0} /\ NumChunks \in Nat \ {0}

(***************************************************************************)
(* A job is one copy of a task on its way to an engine: the task and the   *)
(* retryCount it had when the copy was made.  The code passes the pointer  *)
(* to the task; the number only tells the copies apart.                    *)
(***************************************************************************)
Job == Tasks \X (0..MaxRetryCount)

Entry == [sender : Conns, ready : BOOLEAN, models : SUBSET Models]

ASSUME NullsAssumption == NoEntry \notin Entry /\ NoJob \notin Job

\* resultOrError: an HTTP response, a server sent event, or an error.
ErrResult == [kind |-> "err", code |-> "none", idx |-> 0, attempt |-> 0]
Result ==
  [kind : {"http", "sse", "err"},
   code : {"none", "ok", "unavailable", "internal", "other"},
   idx : 0..NumChunks, attempt : 0..MaxRetryCount]

Execution == [job : Job, conn : Conns, next : 0..NumChunks]

RunState ==
  [pc : {"dequeue", "route", "choose", "assign", "send", "crashed"},
   job : Job \cup {NoJob}, candidates : SUBSET Engines,
   engine : Engines \cup {NoEngine}, orphan : Conns \cup {NoConn}]

IdleRun == [pc |-> "dequeue", job |-> NoJob, candidates |-> {},
            engine |-> NoEngine, orphan |-> NoConn]

VARIABLES
  engines,         \* P.engines: per tenant and engine ID, the entry if any
  routes,          \* the router's map of each tenant
  connState,       \* idle: nothing was received; open; broken: the stream has
                   \* gone, its handler has not noticed; closed; unreported:
                   \* the other server has lost the engine
  serverSender,    \* taskexchanger's E.taskSenders: per remote engine, the
                   \* stream its server's task sender writes to, if there is one
  pendingCancel,   \* per connection, the tasks its handler is about to tell
                   \* that their engine was removed
  run,             \* the scheduler's program counter and local variables
  queue,           \* taskQueue.tasks
  timers,          \* the jobs waiting for retryDelay
  pc,              \* the goroutine of each task
  client,          \* what the caller of the task has got so far
  ctxDone,         \* the tasks whose context is done
  engineID, ignored, retryCount, nextResultIndex, resultCh, \* fields of task
  discarded,       \* the tasks that had a result dropped on a full buffer
  source,          \* the attempts whose results reached the caller
  exec             \* the executions engines are busy with

tableVars == <<engines, routes>>
connVars == <<connState, pendingCancel, serverSender>>
retryVars == <<engineID, ignored, retryCount>>
callVars == <<pc, client, nextResultIndex, source>>
chVars == <<resultCh, discarded>>
vars == <<tableVars, connVars, run, queue, timers, callVars, ctxDone,
          retryVars, chVars, exec>>

TableTypeOK ==
  /\ engines \in [Tenants -> [Engines -> Entry \cup {NoEntry}]]
  /\ routes \in [Tenants -> RouteMap]

ConnTypeOK ==
  /\ connState \in [Conns -> {"idle", "open", "unreported", "broken", "closed"}]
  /\ pendingCancel \in [Conns -> SUBSET Tasks]
  /\ serverSender \in [Engines -> Conns \cup {NoConn}]

RunTypeOK ==
  /\ run \in RunState
  /\ IF run.pc = "dequeue" THEN run.job = NoJob ELSE run.job \in Job
  /\ run.pc \in {"assign", "send"} => run.engine \in Engines

\* The engine the scheduler has chosen is registered, or was removed since.
ChosenOK ==
  run.pc \in {"assign", "send"} /\ run.orphan = NoConn
    => engines[TaskTenant[run.job[1]]][run.engine] # NoEntry

QueueTypeOK ==
  /\ queue \in Seq(Job) /\ Len(queue) <= QueueSize
  /\ timers \subseteq Job

CallTypeOK ==
  /\ pc \in [Tasks -> {"new", "enqueue", "waiting", "writing", "closing",
                       "blocked", "done"}]
  /\ client \in [Tasks -> {"waiting", "responded", "complete", "truncated", "failed"}]
  /\ nextResultIndex \in [Tasks -> Nat]
  /\ source \in [Tasks -> SUBSET (0..MaxRetryCount)]
  /\ ctxDone \subseteq Tasks

RetryTypeOK ==
  /\ engineID \in [Tasks -> Engines \cup {NoEngine}]
  /\ ignored \in [Tasks -> SUBSET Engines]
  /\ retryCount \in [Tasks -> 0..MaxRetryCount]

ChTypeOK ==
  /\ resultCh \in [Tasks -> Seq(Result)]
  /\ \A t \in Tasks : Len(resultCh[t]) <= BufSize
  /\ discarded \subseteq Tasks

ExecTypeOK == exec \subseteq Execution

TypeOK ==
  /\ TableTypeOK /\ ConnTypeOK /\ RunTypeOK /\ ChosenOK /\ QueueTypeOK
  /\ CallTypeOK /\ RetryTypeOK /\ ChTypeOK /\ ExecTypeOK

Init ==
  /\ engines = [tn \in Tenants |-> [e \in Engines |-> NoEntry]]
  /\ routes = [tn \in Tenants |-> EmptyRouteMap]
  /\ connState = [c \in Conns |-> "idle"]
  /\ pendingCancel = [c \in Conns |-> {}]
  /\ serverSender = [e \in Engines |-> NoConn]
  /\ run = IdleRun
  /\ queue = <<>> /\ timers = {}
  /\ pc = [t \in Tasks |-> "new"]
  /\ client = [t \in Tasks |-> "waiting"]
  /\ ctxDone = {}
  /\ engineID = [t \in Tasks |-> NoEngine]
  /\ ignored = [t \in Tasks |-> {}]
  /\ retryCount = [t \in Tasks |-> 0]
  /\ nextResultIndex = [t \in Tasks |-> 0]
  /\ resultCh = [t \in Tasks |-> <<>>]
  /\ discarded = {}
  /\ source = [t \in Tasks |-> {}]
  /\ exec = {}

\* The keys of P.inProgressTasksByID.
InProgress == {t \in Tasks : pc[t] \notin {"new", "done"}}

\* A bug: the result is written whether or not the buffer has room.
WriteResultUnchecked(t, r) ==
  /\ resultCh' = [resultCh EXCEPT ![t] = IF t \in InProgress THEN Append(@, r) ELSE @]
  /\ UNCHANGED discarded

(***************************************************************************)
(* writeResultToTask: the result goes to the task's buffered channel; it   *)
(* is dropped when the task is not in progress or the buffer is full.      *)
(***************************************************************************)
WriteResult(t, r) ==
  \/ /\ t \notin InProgress
     /\ UNCHANGED chVars
  \/ /\ t \in InProgress
     /\ Len(resultCh[t]) < BufSize
     /\ resultCh' = [resultCh EXCEPT ![t] = Append(@, r)]
     /\ UNCHANGED discarded
  \/ /\ t \in InProgress
     /\ Len(resultCh[t]) >= BufSize
     /\ discarded' = discarded \cup {t}
     /\ UNCHANGED resultCh
-----------------------------------------------------------------------------
(***************************************************************************)
(* The scheduler.                                                          *)
(***************************************************************************)
RunDequeue ==
  /\ run.pc = "dequeue"
  /\ queue # <<>>
  /\ run' = [run EXCEPT !.pc = "route", !.job = Head(queue)]
  /\ queue' = Tail(queue)
  /\ UNCHANGED <<tableVars, connVars, timers, callVars, ctxDone, retryVars, chVars, exec>>

\* A bug: the target engine is forgotten.
EnginesForAnyTask(t) ==
  GetEnginesForModel(routes[TaskTenant[t]], TaskModel[t], ignored[t], DynamicModelLoading)

\* getEnginesForTask: the target engine, or what the tenant's map returns.
EnginesForTask(t) ==
  IF TaskTarget[t] # NoEngine
  THEN {{TaskTarget[t]}}
  ELSE GetEnginesForModel(routes[TaskTenant[t]], TaskModel[t], ignored[t], DynamicModelLoading)

\* scheduleTask returned an error: Run writes it to the task.
ScheduleFails ==
  /\ WriteResult(run.job[1], ErrResult)
  /\ run' = IdleRun
  /\ UNCHANGED <<tableVars, connVars, queue, timers, callVars, ctxDone, retryVars, exec>>

RunRoute ==
  /\ run.pc = "route"
  /\ \/ \E ids \in EnginesForTask(run.job[1]) :
          /\ run' = [run EXCEPT !.pc = "choose", !.candidates = ids]
          /\ UNCHANGED <<tableVars, connVars, queue, timers, callVars, ctxDone,
                         retryVars, chVars, exec>>
     \/ EnginesForTask(run.job[1]) = {} /\ ScheduleFails

(***************************************************************************)
(* findMostPreferredtEngine: an error if one of the candidates has gone    *)
(* since it was routed; otherwise an engine with the fewest tasks in       *)
(* progress, among the local ones if there are any.                        *)
(***************************************************************************)
Load(e) == Cardinality({t \in InProgress : engineID[t] = e})

LeastLoaded(S) == {e \in S : \A f \in S : Load(e) <= Load(f)}

MostPreferred(tn, ids) ==
  LET local == {e \in ids : ConnLocal[engines[tn][e].sender]}
  IN  LeastLoaded(IF local # {} THEN local ELSE ids)

RunChoose ==
  /\ run.pc = "choose"
  /\ LET entries == engines[TaskTenant[run.job[1]]]
     IN  \/ /\ \A e \in run.candidates : entries[e] # NoEntry
            /\ \E e \in MostPreferred(TaskTenant[run.job[1]], run.candidates) :
                 run' = [run EXCEPT !.pc = "assign", !.candidates = {}, !.engine = e]
            /\ UNCHANGED <<tableVars, connVars, queue, timers, callVars, ctxDone,
                           retryVars, chVars, exec>>
         \/ /\ \E e \in run.candidates : entries[e] = NoEntry
            /\ ScheduleFails

(***************************************************************************)
(* assignTaskToEngine looks the engine up again.  If it has gone, P.mu is  *)
(* unlocked twice, by the return path and by the deferred call: the Go     *)
(* runtime ends the process.                                               *)
(***************************************************************************)
RunAssign ==
  /\ run.pc = "assign"
  /\ IF engines[TaskTenant[run.job[1]]][run.engine] # NoEntry
     THEN /\ engineID' = [engineID EXCEPT ![run.job[1]] = run.engine]
          /\ run' = [run EXCEPT !.pc = "send"]
     ELSE /\ run' = [run EXCEPT !.pc = "crashed"]
          /\ UNCHANGED engineID
  /\ UNCHANGED <<tableVars, connVars, queue, timers, callVars, ctxDone, ignored,
                 retryCount, chVars, exec>>

(***************************************************************************)
(* engine.taskSender.Send, outside the lock.  The scheduler holds a        *)
(* pointer to the engine: if the engine was removed since, the pointer     *)
(* still leads to the sender it had (run.orphan), even when an engine of   *)
(* that ID has come back.  A stream that broke may take the message and    *)
(* lose it; so does the stream of a server that no longer has the engine.  *)
(***************************************************************************)
Sender ==
  IF run.orphan # NoConn
  THEN run.orphan
  ELSE engines[TaskTenant[run.job[1]]][run.engine].sender

RunSend ==
  /\ run.pc = "send"
  /\ \/ /\ connState[Sender] # "closed"
        /\ exec' = IF connState[Sender] = "open"
                   THEN exec \cup {[job |-> run.job, conn |-> Sender, next |-> 0]}
                   ELSE exec
        /\ run' = IdleRun
        /\ UNCHANGED <<tableVars, connVars, queue, timers, callVars, ctxDone,
                       retryVars, chVars>>
     \/ /\ connState[Sender] # "open"
        /\ ScheduleFails
-----------------------------------------------------------------------------
(***************************************************************************)
(* The goroutine of a task, enqueueAndProcessTask.  It puts the task in    *)
(* the in-progress map and then in the queue, which blocks on a full one.  *)
(***************************************************************************)
Start(t) ==
  /\ pc[t] = "new"
  /\ pc' = [pc EXCEPT ![t] = "enqueue"]
  /\ UNCHANGED <<tableVars, connVars, run, queue, timers, client, nextResultIndex,
                 source, ctxDone, retryVars, chVars, exec>>

Enqueue(t) ==
  /\ pc[t] = "enqueue"
  /\ Len(queue) < QueueSize
  /\ queue' = Append(queue, <<t, 0>>)
  /\ pc' = [pc EXCEPT ![t] = "waiting"]
  /\ UNCHANGED <<tableVars, connVars, run, timers, client, nextResultIndex, source,
                 ctxDone, retryVars, chVars, exec>>

\* A bug: the timer is a ticker that nobody stops.
TimerTick(job) ==
  /\ job \in timers
  /\ Len(queue) < QueueSize
  /\ queue' = Append(queue, job)
  /\ UNCHANGED <<tableVars, connVars, run, timers, callVars, ctxDone, retryVars, chVars, exec>>

\* time.AfterFunc(retryDelay, Enqueue): it runs even if the task has ended.
TimerFire(job) ==
  /\ job \in timers
  /\ Len(queue) < QueueSize
  /\ timers' = timers \ {job}
  /\ queue' = Append(queue, job)
  /\ UNCHANGED <<tableVars, connVars, run, callVars, ctxDone, retryVars, chVars, exec>>

\* The caller's context is cancelled or times out.
CtxDone(t) ==
  /\ t \in (InProgress \cap MayCancel) \ ctxDone
  /\ ctxDone' = ctxDone \cup {t}
  /\ UNCHANGED <<tableVars, connVars, run, queue, timers, callVars, retryVars, chVars, exec>>

(***************************************************************************)
(* The goroutine returns: the deferred function takes the task out of the  *)
(* map and drains its channel, and closing the body writer ends the body.  *)
(* A caller that has its response sees the body end, one that has not gets *)
(* the error.                                                              *)
(***************************************************************************)
Leave(t, outcome) ==
  /\ pc' = [pc EXCEPT ![t] = "done"]
  /\ resultCh' = [resultCh EXCEPT ![t] = <<>>]
  /\ client' = [client EXCEPT ![t] = outcome]
  /\ UNCHANGED <<tableVars, connVars, run, queue, timers, ctxDone, retryVars,
                 discarded, exec>>

LeaveWithError(t) ==
  Leave(t, IF client[t] = "waiting" THEN "failed" ELSE "truncated")

\* A bug: the context is looked at only before the first result.
FinishEarlyOnCtxDone(t) ==
  /\ pc[t] = "waiting"
  /\ t \in ctxDone
  /\ retryCount[t] = 0
  /\ LeaveWithError(t)
  /\ UNCHANGED <<nextResultIndex, source>>

FinishOnCtxDone(t) ==
  /\ pc[t] = "waiting"
  /\ t \in ctxDone
  /\ LeaveWithError(t)
  /\ UNCHANGED <<nextResultIndex, source>>

Received(t) == pc[t] = "waiting" /\ resultCh[t] # <<>>
Pop(t) == resultCh' = [resultCh EXCEPT ![t] = Tail(@)]

\* A bug: an index ahead of the expected one is let through.
BehindOrder(t, r) == r.kind # "err" /\ r.idx # 0 /\ r.idx < nextResultIndex[t]

\* A result that is neither the first nor the one expected ends the task.
OutOfOrder(t, r) == r.kind # "err" /\ r.idx # 0 /\ r.idx # nextResultIndex[t]

FinishOnOutOfOrder(t) ==
  /\ Received(t)
  /\ OutOfOrder(t, Head(resultCh[t]))
  /\ LeaveWithError(t)
  /\ UNCHANGED <<nextResultIndex, source>>

\* Errors of writeTaskResultToHTTPRespCh and of the scheduler or RemoveEngine.
\* A forwarded result is passed on whatever its code.
IsRetriableError(t, r) ==
  r.kind = "err" \/ (r.code = "unavailable" /\ ~TaskForwarded[t])
IsError(t, r) ==
  IsRetriableError(t, r) \/ (r.code = "internal" /\ ~TaskForwarded[t])

\* canRetry, but for the time limit, which may have passed at any retry.
CanRetry(t, r) ==
  /\ IsRetriableError(t, r)
  /\ TaskTarget[t] = NoEngine
  /\ retryCount[t] < MaxRetryCount

\* A bug: retryCount is not incremented.
RetryUncounted(t) ==
  /\ Received(t)
  /\ nextResultIndex[t] = 0
  /\ CanRetry(t, Head(resultCh[t]))
  /\ Pop(t)
  /\ ignored' = [ignored EXCEPT ![t] = @ \cup ({engineID[t]} \ {NoEngine})]
  /\ engineID' = [engineID EXCEPT ![t] = NoEngine]
  /\ timers' = timers \cup {<<t, retryCount[t] + 1>>}
  /\ UNCHANGED <<tableVars, connVars, run, queue, callVars, ctxDone, retryCount,
                 discarded, exec>>

(***************************************************************************)
(* A failure before the first result: the engine is put on the ignore list,*)
(* the task is unassigned and a new copy will be queued after retryDelay.  *)
(***************************************************************************)
Retry(t) ==
  /\ Received(t)
  /\ nextResultIndex[t] = 0
  /\ CanRetry(t, Head(resultCh[t]))
  /\ Pop(t)
  /\ retryCount' = [retryCount EXCEPT ![t] = @ + 1]
  /\ ignored' = [ignored EXCEPT ![t] = @ \cup ({engineID[t]} \ {NoEngine})]
  /\ engineID' = [engineID EXCEPT ![t] = NoEngine]
  /\ timers' = timers \cup {<<t, retryCount[t] + 1>>}
  /\ UNCHANGED <<tableVars, connVars, run, queue, callVars, ctxDone, discarded, exec>>

FinishOnError(t) ==
  /\ Received(t)
  /\ IsError(t, Head(resultCh[t]))
  /\ LeaveWithError(t)
  /\ UNCHANGED <<nextResultIndex, source>>

(***************************************************************************)
(* isTaskCompleted.  A stream that is answered with "service unavailable"  *)
(* is not complete: only a forwarded one gets this far with that code.     *)
(***************************************************************************)
IsLast(t, r) ==
  IF r.kind = "http"
  THEN ~TaskStream[t] \/ r.code \in {"internal", "other"}
  ELSE r.idx = NumChunks

Accept(t, r) ==
  /\ nextResultIndex' = [nextResultIndex EXCEPT ![t] = @ + 1]
  /\ source' = [source EXCEPT ![t] = @ \cup {r.attempt}]

(***************************************************************************)
(* A result is handed to the caller.  The response goes to respCh, which   *)
(* is unbuffered and read once: a second response is never taken and the   *)
(* goroutine stays there for good.  A body is written to a pipe and the    *)
(* write lasts until the caller has read it ("writing", or "closing" when  *)
(* it is the last); the response that opens a stream and its last event    *)
(* have no body.                                                           *)
(***************************************************************************)
HasBody(t, r) ==
  IF r.kind = "http" THEN ~TaskStream[t] \/ r.code # "ok" ELSE r.idx # NumChunks

\* A bug: a second response is skipped and the task goes on.
SkipSecondResponse(t) ==
  /\ Received(t)
  /\ LET r == Head(resultCh[t])
     IN  /\ r.kind = "http" /\ ~IsError(t, r)
         /\ ~TaskForwarded[t] /\ client[t] # "waiting"
  /\ Pop(t)
  /\ UNCHANGED <<tableVars, connVars, run, queue, timers, callVars, ctxDone, retryVars,
                 discarded, exec>>

HandleSecondResponse(t) ==
  /\ Received(t)
  /\ LET r == Head(resultCh[t])
     IN  /\ r.kind = "http" /\ ~IsError(t, r)
         /\ ~TaskForwarded[t] /\ client[t] # "waiting"
  /\ Pop(t)
  /\ pc' = [pc EXCEPT ![t] = "blocked"]
  /\ UNCHANGED <<tableVars, connVars, run, queue, timers, client, nextResultIndex,
                 source, ctxDone, retryVars, discarded, exec>>

Deliverable(t, r) ==
  /\ ~IsError(t, r) /\ ~OutOfOrder(t, r)
  /\ r.kind = "http" => (TaskForwarded[t] \/ client[t] = "waiting")

\* The result ends the task, at once or when its body is written.
HandleLast(t) ==
  /\ Received(t)
  /\ LET r == Head(resultCh[t])
     IN  /\ Deliverable(t, r) /\ IsLast(t, r)
         /\ Accept(t, r)
         /\ \/ /\ HasBody(t, r) /\ ~TaskForwarded[t]
               /\ Pop(t)
               /\ pc' = [pc EXCEPT ![t] = "closing"]
               /\ client' = [client EXCEPT ![t] = "responded"]
               /\ UNCHANGED <<tableVars, connVars, run, queue, timers, ctxDone,
                              retryVars, discarded, exec>>
            \/ /\ ~HasBody(t, r) \/ TaskForwarded[t]
               /\ Leave(t, "complete")

\* More results are to come.
HandleNext(t) ==
  /\ Received(t)
  /\ LET r == Head(resultCh[t])
     IN  /\ Deliverable(t, r) /\ ~IsLast(t, r)
         /\ Accept(t, r)
         /\ pc' = [pc EXCEPT ![t] = IF HasBody(t, r) /\ ~TaskForwarded[t]
                                    THEN "writing" ELSE "waiting"]
  /\ Pop(t)
  /\ client' = [client EXCEPT ![t] = "responded"]
  /\ UNCHANGED <<tableVars, connVars, run, queue, timers, ctxDone, retryVars,
                 discarded, exec>>

\* The stream to the server that forwarded the task is broken.
FinishOnForwardError(t) ==
  /\ Received(t)
  /\ TaskForwarded[t]
  /\ Head(resultCh[t]).kind # "err"
  /\ LeaveWithError(t)
  /\ UNCHANGED <<nextResultIndex, source>>

\* The caller has read the body, or closed it.
BodyRead(t) ==
  \/ /\ pc[t] = "writing"
     /\ pc' = [pc EXCEPT ![t] = "waiting"]
     /\ UNCHANGED <<tableVars, connVars, run, queue, timers, client, nextResultIndex,
                    source, ctxDone, retryVars, chVars, exec>>
  \/ /\ pc[t] = "closing"
     /\ Leave(t, "complete")
     /\ UNCHANGED <<nextResultIndex, source>>
-----------------------------------------------------------------------------
(***************************************************************************)
(* Stream handlers.  A handler tells the tasks of a removed engine before  *)
(* it does anything else; those of other servers' streams do so under the  *)
(* task exchanger's mutex, one at a time.                                  *)
(***************************************************************************)
HandlerFree(c) ==
  \A d \in Conns : d = c \/ (~ConnLocal[c] /\ ~ConnLocal[d]) => pendingCancel[d] = {}

(***************************************************************************)
(* AddOrUpdateEngineStatus: the engine and, under the same lock, the router*)
(* are updated.  The sender is the stream the status came on, except that  *)
(* the task sender of another server keeps the stream it was made with     *)
(* (AddOrUpdateServerStatus) until RemoveServer.                           *)
(***************************************************************************)
StatusSender(c) ==
  IF ConnLocal[c] \/ serverSender[ConnEngine[c]] = NoConn
  THEN c
  ELSE serverSender[ConnEngine[c]]

\* A server opens a stream again only after it lost the one before.
Supersedes(c) ==
  \A d \in Conns \ {c} : ConnEngine[d] = ConnEngine[c] => connState[d] \in {"idle", "broken", "closed"}

EngineStatus(c, s) ==
  /\ connState[c] \in {"idle", "open"}
  /\ Supersedes(c)
  /\ HandlerFree(c)
  /\ connState' = [connState EXCEPT ![c] = "open"]
  /\ serverSender' = IF ConnLocal[c]
                     THEN serverSender
                     ELSE [serverSender EXCEPT ![ConnEngine[c]] = StatusSender(c)]
  /\ engines' = [engines EXCEPT ![ConnTenant[c]][ConnEngine[c]] =
                   [sender |-> StatusSender(c), ready |-> s.ready, models |-> s.models]]
  /\ routes' = [routes EXCEPT ![ConnTenant[c]] =
                  IF s.ready THEN AddOrUpdateEngine(@, ConnEngine[c], s.models)
                             ELSE DeleteEngine(@, ConnEngine[c])]
  /\ UNCHANGED <<pendingCancel, run, queue, timers, callVars, ctxDone, retryVars,
                 chVars, exec>>

(***************************************************************************)
(* RemoveEngine.  Under the lock the tasks assigned to the engine are      *)
(* collected and the engine is dropped; the tasks are told afterwards, one *)
(* by one, outside the lock (CancelTask).                                  *)
(***************************************************************************)
HeldByScheduler(c) ==
  /\ run.pc \in {"assign", "send"}
  /\ TaskTenant[run.job[1]] = ConnTenant[c]
  /\ run.engine = ConnEngine[c]
  /\ run.orphan = NoConn
  /\ engines[ConnTenant[c]][ConnEngine[c]] # NoEntry

\* A bug: a task with a result, which cannot be retried, is left out.
UnansweredAssignedTo(e) ==
  {t \in InProgress : engineID[t] = e /\ nextResultIndex[t] = 0}

\* A bug: a task that was retried is left out.
NewlyAssignedTo(e) == {t \in InProgress : engineID[t] = e /\ retryCount[t] = 0}

AssignedTo(e) == {t \in InProgress : engineID[t] = e}

RemoveEngine(c) ==
  /\ pendingCancel' = [pendingCancel EXCEPT ![c] = AssignedTo(ConnEngine[c])]
  /\ engines' = [engines EXCEPT ![ConnTenant[c]][ConnEngine[c]] = NoEntry]
  /\ routes' = [routes EXCEPT ![ConnTenant[c]] = DeleteEngine(@, ConnEngine[c])]
  /\ run' = IF HeldByScheduler(c)
            THEN [run EXCEPT !.orphan = engines[ConnTenant[c]][ConnEngine[c]].sender]
            ELSE run

CancelTask(c, t) ==
  /\ t \in pendingCancel[c]
  /\ pendingCancel' = [pendingCancel EXCEPT ![c] = @ \ {t}]
  /\ WriteResult(t, ErrResult)
  /\ UNCHANGED <<tableVars, connState, serverSender, run, queue, timers, callVars,
                 ctxDone, retryVars, exec>>

\* The stream breaks: what engines still compute for it is lost.
Break(c) ==
  /\ connState[c] = "open"
  /\ connState' = [connState EXCEPT ![c] = "broken"]
  /\ exec' = {x \in exec : x.conn # c}
  /\ UNCHANGED <<tableVars, pendingCancel, serverSender, run, queue, timers, callVars,
                 ctxDone, retryVars, chVars>>

(***************************************************************************)
(* The handler returns.  The deferred call removes the engine; for another *)
(* server RemoveServer drops its task sender and the engine it reports, by *)
(* whatever stream it was reported, and does nothing if there is none.     *)
(***************************************************************************)
Close(c) ==
  /\ connState[c] = "broken"
  /\ HandlerFree(c)
  /\ connState' = [connState EXCEPT ![c] = "closed"]
  /\ IF ConnLocal[c] \/ engines[ConnTenant[c]][ConnEngine[c]] # NoEntry
     THEN RemoveEngine(c)
     ELSE UNCHANGED <<pendingCancel, tableVars, run>>
  /\ serverSender' = IF ConnLocal[c]
                     THEN serverSender
                     ELSE [serverSender EXCEPT ![ConnEngine[c]] = NoConn]
  /\ UNCHANGED <<queue, timers, callVars, ctxDone, retryVars, chVars, exec>>

(***************************************************************************)
(* addOrUpdateEngines: a status of the other server lists the engine no    *)
(* more; it has gone for good, while results it had sent may still come.   *)
(***************************************************************************)
Unreport(c) ==
  /\ ~ConnLocal[c]
  /\ connState[c] = "open"
  /\ HandlerFree(c)
  /\ connState' = [connState EXCEPT ![c] = "unreported"]
  /\ IF engines[ConnTenant[c]][ConnEngine[c]] # NoEntry
     THEN RemoveEngine(c)
     ELSE UNCHANGED <<pendingCancel, tableVars, run>>
  /\ serverSender' = [serverSender EXCEPT ![ConnEngine[c]] = StatusSender(c)]
  /\ UNCHANGED <<queue, timers, callVars, ctxDone, retryVars, chVars, exec>>
-----------------------------------------------------------------------------
(***************************************************************************)
(* The engines.  An execution answers with one HTTP response, index 0; a   *)
(* streamed one goes on with its events, 1 to NumChunks, the last of which *)
(* ends it.  It may also stop without a word, when reading the runtime's   *)
(* response fails.                                                         *)
(***************************************************************************)
Advance(x, more) ==
  exec' = (exec \ {x}) \cup (IF more THEN {[x EXCEPT !.next = @ + 1]} ELSE {})

Respond(x, code) ==
  /\ x.next = 0
  /\ WriteResult(x.job[1], [kind |-> "http", code |-> code, idx |-> 0, attempt |-> x.job[2]])
  /\ Advance(x, TaskStream[x.job[1]] /\ code = "ok")
  /\ UNCHANGED <<tableVars, connVars, run, queue, timers, callVars, ctxDone, retryVars>>

SendEvent(x) ==
  /\ x.next # 0
  /\ WriteResult(x.job[1], [kind |-> "sse", code |-> "none", idx |-> x.next, attempt |-> x.job[2]])
  /\ Advance(x, x.next < NumChunks)
  /\ UNCHANGED <<tableVars, connVars, run, queue, timers, callVars, ctxDone, retryVars>>

Abort(x) ==
  /\ exec' = exec \ {x}
  /\ UNCHANGED <<tableVars, connVars, run, queue, timers, callVars, ctxDone, retryVars, chVars>>
-----------------------------------------------------------------------------
Up == run.pc # "crashed"

RunStep == RunDequeue \/ RunRoute \/ RunChoose \/ RunAssign \/ RunSend

TaskStep(t) ==
  \/ Start(t) \/ Enqueue(t)
  \/ FinishOnCtxDone(t) \/ FinishOnOutOfOrder(t) \/ FinishOnError(t)
  \/ FinishOnForwardError(t)
  \/ Retry(t) \/ HandleSecondResponse(t) \/ HandleLast(t) \/ HandleNext(t) \/ BodyRead(t)

ConnStep(c) ==
  \/ \E s \in Statuses : EngineStatus(c, s)
  \/ \E t \in Tasks : CancelTask(c, t)
  \/ Break(c) \/ Close(c) \/ Unreport(c)

ExecStep(x) ==
  \/ \E code \in {"ok", "unavailable", "internal", "other"} : Respond(x, code)
  \/ SendEvent(x)
  \/ Abort(x)

\* The process has ended, or every task has: no step is due.
Idle ==
  /\ ~Up \/ \A t \in Tasks : pc[t] \in {"done", "blocked"}
  /\ UNCHANGED vars

Next ==
  \/ /\ Up
     /\ \/ RunStep
        \/ \E t \in Tasks : TaskStep(t) \/ CtxDone(t)
        \/ \E job \in timers : TimerFire(job)
        \/ \E c \in Conns : ConnStep(c)
        \/ \E x \in exec : ExecStep(x)
  \/ Idle

Spec == Init /\ [][Next]_vars

(***************************************************************************)
(* Goroutines that can run do run: the scheduler, the tasks', the timers'  *)
(* and the handlers'.  A handler notices a broken stream, and a caller     *)
(* reads the body of its response or closes it.  Nothing is assumed of     *)
(* engines, which may never answer, of connections, or of a caller's       *)
(* patience.                                                               *)
(***************************************************************************)
Fairness ==
  /\ WF_vars(Up /\ RunStep)
  /\ \A t \in Tasks : WF_vars(Up /\ TaskStep(t))
  /\ \A job \in Job : WF_vars(Up /\ TimerFire(job))
  /\ \A c \in Conns : WF_vars(Up /\ Close(c))
  /\ \A c \in Conns, t \in Tasks : WF_vars(Up /\ CancelTask(c, t))

FairSpec == Spec /\ Fairness
-----------------------------------------------------------------------------
(***************************************************************************)
(* The router and the engine table are two structures kept in step by hand *)
(* (AddOrUpdateEngineStatus and RemoveEngine): under P.mu a tenant's map   *)
(* routes a model to exactly the ready engines of the tenant whose last    *)
(* status listed it, whatever order streams registered and removed the     *)
(* engine in.                                                              *)
(***************************************************************************)
ReadyEngines(tn) ==
  {e \in Engines : engines[tn][e] # NoEntry /\ engines[tn][e].ready}

RouterConsistent ==
  \A tn \in Tenants :
    /\ routes[tn].engines = ReadyEngines(tn)
    /\ \A k \in Models :
         routes[tn].m[k] = {e \in ReadyEngines(tn) : k \in engines[tn][e].models}

(***************************************************************************)
(* A task is queued again by its timers while other copies of it may still *)
(* be queued, held by the scheduler or executed.  No two copies are the    *)
(* same attempt, so each attempt is dispatched at most once.               *)
(***************************************************************************)
Held == {run.job} \ {NoJob}
Queued == {queue[i] : i \in DOMAIN queue}
Executed == {x.job : x \in exec}

CopiesAreDistinct ==
  /\ \A i, j \in DOMAIN queue : i # j => queue[i] # queue[j]
  /\ Queued \cap timers = {}
  /\ Held \cap (Queued \cup timers \cup Executed) = {}
  /\ Executed \cap (Queued \cup timers) = {}
  /\ \A x, y \in exec : x.job = y.job => x = y

(***************************************************************************)
(* canRetry bounds the work a task can cause: no copy of it carries an     *)
(* attempt beyond its retryCount, which never exceeds maxRetryCount, and   *)
(* none exists before the task was first queued.  With CopiesAreDistinct:  *)
(* at most maxRetryCount + 1 dispatches per task.                          *)
(***************************************************************************)
Copies == Queued \cup timers \cup Held \cup Executed

RetryBounded ==
  /\ \A t \in Tasks : retryCount[t] <= MaxRetryCount
  /\ \A job \in Copies :
       job[2] <= retryCount[job[1]] /\ pc[job[1]] \notin {"new", "enqueue"}

(***************************************************************************)
(* A task that waits has not been forgotten: a copy of it is on its way, a *)
(* result or a cancellation is due to it, or it is assigned to a registered*)
(* engine whose stream handler is still there and will cancel it.          *)
(* The exception is a task that had a result dropped because its buffer    *)
(* was full (writeResultToTask).                                           *)
(***************************************************************************)
NoLostTask ==
  \A t \in Tasks \ discarded :
    pc[t] = "waiting" =>
      \/ \E n \in 0..MaxRetryCount : <<t, n>> \in Queued \cup timers \cup Held
      \/ resultCh[t] # <<>>
      \/ \E c \in Conns : t \in pendingCancel[c]
      \/ /\ engineID[t] # NoEngine
         /\ engines[TaskTenant[t]][engineID[t]] # NoEntry
         /\ connState[engines[TaskTenant[t]][engineID[t]].sender] # "closed"

(***************************************************************************)
(* Two attempts of a streamed task may be executed at once and their       *)
(* results share the task's channel, marked with the task's ID only.  The  *)
(* caller still gets the chunks of one attempt, unless results were        *)
(* dropped on the way.                                                     *)
(***************************************************************************)
StreamFromOneAttempt ==
  \A t \in Tasks \ discarded : Cardinality(source[t]) <= 1

(***************************************************************************)
(* A stream that ends in order was delivered whole: the check of the       *)
(* result index lets no gap through, even when results were dropped or     *)
(* come from several attempts.                                             *)
(***************************************************************************)
StreamIsWhole ==
  \A t \in Tasks :
    TaskStream[t] /\ client[t] = "complete"
      => nextResultIndex[t] \in {1, NumChunks + 1}

\* What the caller of a task sees of it, for the promise of TaskService.
CallStatus(t) ==
  IF client[t] # "responded" THEN client[t]
  ELSE IF pc[t] = "closing" THEN "answered" ELSE "streaming"

Service == INSTANCE TaskService WITH
  Streamed <- {t \in Tasks : TaskStream[t]}, Attempts <- 0..MaxRetryCount,
  call <- [t \in Tasks |-> CallStatus(t)], results <- nextResultIndex,
  from <- source, lossy <- discarded

(***************************************************************************)
(* The task processor implements TaskService.  Through retries, duplicate  *)
(* copies, dropped results, engines and servers that go, a call fails with *)
(* nothing delivered or is answered by one attempt; a stream gets its      *)
(* events in order, from the attempt that opened it, and ends complete     *)
(* with the last one only, or the caller sees it cut off.                  *)
(***************************************************************************)
CallsAreServed == Service!Spec

(***************************************************************************)
(* A task is executed only by engines of its tenant, and by its target     *)
(* engine if it has one: routing, choosing, assigning and sending happen   *)
(* in separate critical sections between which engines come and go, and    *)
(* assigned tasks are cancelled by engine ID alone.                        *)
(***************************************************************************)
ExecutedByRightEngine ==
  \A x \in exec :
    /\ ConnTenant[x.conn] = TaskTenant[x.job[1]]
    /\ TaskTarget[x.job[1]] \in {NoEngine, ConnEngine[x.conn]}

(***************************************************************************)
(* The loss of an engine reaches its tasks: one that waits for an engine   *)
(* that is no longer registered stops waiting for it.  The exceptions are  *)
(* the dropped result and the end of the process.                          *)
(***************************************************************************)
Orphaned(t, e) ==
  pc[t] = "waiting" /\ engineID[t] = e /\ engines[TaskTenant[t]][e] = NoEntry

LossOfEngineIsNoticed ==
  \A t \in Tasks, e \in Engines :
    Orphaned(t, e) ~> (~Orphaned(t, e) \/ t \in discarded \/ ~Up)

(***************************************************************************)
(* The server's shutdown says "Wait until all in-flight tasks complete"    *)
(* (server/cmd/run.go) and polls NumInProgressTasks: a task whose caller   *)
(* has gone leaves the in-progress map.  It holds of tasks that are not    *)
(* streamed.                                                               *)
(***************************************************************************)
CancelledTaskLeaves ==
  \A t \in Tasks : t \in ctxDone ~> (pc[t] = "done" \/ ~Up)
-----------------------------------------------------------------------------
(***************************************************************************)
(* What the repository says and the code does not do.                      *)
(***************************************************************************)

(***************************************************************************)
(* "Check again if the engine still exists as it might have been just      *)
(* removed" (infprocessor.go:159): an engine removed while a task is being *)
(* scheduled is an error of that task, not the end of the server.          *)
(***************************************************************************)
RemovedEngineIsTolerated == run.pc # "crashed"

=============================================================================
