---------------------------- MODULE ServerShutdown ----------------------------
(***************************************************************************)
(* How the server ends: run of server/cmd/run.go, from SIGTERM to the exit *)
(* of the process, with what it depends on: the endpoints that Kubernetes  *)
(* publishes, the local engines that are told to go away                   *)
(* (sendTaskToEngines of infprocessor.go), and the other servers, which    *)
(* learn from the task exchanger that no engine is here any more.          *)
(*                                                                         *)
(* The three sleeps have one length, GracefulShutdownDelay, which is 0 by  *)
(* default and is meant to be long enough for what each of them waits for: *)
(* DelaySuffices.  Tasks come from clients and from other servers; how     *)
(* they are executed is abstracted to their end.                           *)
(***************************************************************************)
EXTENDS Naturals

CONSTANTS LocalEngines,
          ClientTasks, PeerTasks,   \* tasks by where they come from
          DelaySuffices

ASSUME ServerShutdownAssumption == DelaySuffices \in BOOLEAN /\ ClientTasks \cap PeerTasks = {}

VARIABLES
  server,      \* how far run has come
  endpoint,    \* new clients, and engines that connect, are sent here
  goAwayTask,  \* by engine: the GoAway task
  runner,      \* by engine: whether a stream of its is open here
  announced,   \* the other servers believe that there are engines here
  request      \* by task: before, inProgress, answered, or cut by the exit

shutdownVars == <<server, endpoint, goAwayTask, runner, announced, request>>

ServerTasks == ClientTasks \cup PeerTasks

ShutdownTypeOK ==
  /\ server \in {"serving", "endpoints", "goAway", "reconnect", "statuses", "drain",
                 "stopping", "exited", "failed"}
  /\ endpoint \in BOOLEAN /\ announced \in BOOLEAN
  /\ goAwayTask \in [LocalEngines -> {"none", "queued", "delivered", "answered", "canceled"}]
  /\ runner \in [LocalEngines -> {"here", "leaving", "away"}]
  /\ request \in [ServerTasks -> {"before", "inProgress", "answered", "cut"}]

ShutdownInit ==
  /\ server = "serving" /\ endpoint = TRUE /\ announced = TRUE
  /\ goAwayTask = [e \in LocalEngines |-> "none"] /\ runner = [e \in LocalEngines |-> "here"]
  /\ request = [t \in ServerTasks |-> "before"]

Up == server \notin {"exited", "failed"}
-----------------------------------------------------------------------------
(***************************************************************************)
(* run.                                                                    *)
(***************************************************************************)
Moves(from, to) == server = from /\ server' = to

GotSignal ==
  /\ Moves("serving", "endpoints")
  /\ UNCHANGED <<endpoint, goAwayTask, runner, announced, request>>

\* The first sleep, then a GoAway task to each local engine.
SendGoAwayTasks ==
  /\ Moves("endpoints", "goAway") /\ (DelaySuffices => ~endpoint)
  /\ goAwayTask' = [e \in LocalEngines |-> IF runner[e] = "here" THEN "queued" ELSE "none"]
  /\ UNCHANGED <<endpoint, runner, announced, request>>

\* The timeout cancels the tasks, and so does the error of one (errgroup),
\* whose engine is gone: a task that is in the queue then is not sent any more.
GoAwayFails ==
  /\ Moves("goAway", "reconnect")
  /\ \E e \in LocalEngines :
       /\ goAwayTask[e] \in {"queued", "delivered"}
       /\ \E gone \in {{}, {e}} :
            /\ goAwayTask' = [d \in LocalEngines |-> IF d \in gone THEN "none"
                             ELSE IF goAwayTask[d] = "queued" THEN "canceled" ELSE goAwayTask[d]]
            /\ runner' = [d \in LocalEngines |-> IF d \in gone THEN "away" ELSE runner[d]]
  /\ UNCHANGED <<endpoint, announced, request>>

GoAwaySucceeds ==
  /\ Moves("goAway", "reconnect")
  /\ \A e \in LocalEngines : goAwayTask[e] \in {"none", "answered"}
  /\ UNCHANGED <<endpoint, goAwayTask, runner, announced, request>>

\* The second sleep, then te.StartGracefulShutdown.
StopExchange ==
  /\ Moves("reconnect", "statuses")
  /\ DelaySuffices => \A e \in LocalEngines : goAwayTask[e] # "delivered"
  /\ UNCHANGED <<endpoint, goAwayTask, runner, announced, request>>

\* The third sleep.
StartToDrain ==
  /\ Moves("statuses", "drain") /\ (DelaySuffices => ~announced)
  /\ UNCHANGED <<endpoint, goAwayTask, runner, announced, request>>

NoTaskIn(S) == \A t \in S : request[t] # "inProgress"

\* A bug: the tasks of other servers are not waited for.
NoTaskOfClients == NoTaskIn(ClientTasks)

\* NumInProgressTasks.
NoInProgressTask == NoTaskIn(ServerTasks)

TasksAreDrained ==
  /\ Moves("drain", "stopping") /\ NoInProgressTask
  /\ UNCHANGED <<endpoint, goAwayTask, runner, announced, request>>

Exit(how) ==
  /\ server' = how
  /\ request' = [t \in ServerTasks |-> IF request[t] = "inProgress" THEN "cut" ELSE request[t]]

\* The graceful stop of the worker service waits for the engines' streams.
GracefulStop ==
  /\ server = "stopping" /\ \A e \in LocalEngines : runner[e] = "away"
  /\ Exit("exited")
  /\ UNCHANGED <<endpoint, goAwayTask, runner, announced>>

\* errCh: a component ends with an error.  After the signal nobody reads it.
ComponentFails ==
  /\ server = "serving" /\ Exit("failed")
  /\ UNCHANGED <<endpoint, goAwayTask, runner, announced>>

ServerStep ==
  SendGoAwayTasks \/ GoAwaySucceeds \/ StopExchange \/ StartToDrain \/ TasksAreDrained \/ GracefulStop
-----------------------------------------------------------------------------
(***************************************************************************)
(* Kubernetes, the engines, the other servers and the clients.             *)
(***************************************************************************)
EndpointsUpdated ==
  /\ Up /\ server # "serving" /\ endpoint /\ endpoint' = FALSE
  /\ UNCHANGED <<server, goAwayTask, runner, announced, request>>

GoAwayIsDelivered(e) ==
  /\ Up /\ goAwayTask[e] = "queued"
  /\ goAwayTask' = [goAwayTask EXCEPT ![e] = "delivered"]
  /\ UNCHANGED <<server, endpoint, runner, announced, request>>

\* The engine answers and starts another runner, which connects to a server
\* that the endpoints name; this one's stream is closed when its tasks are done.
EngineAnswers(e) ==
  /\ Up /\ goAwayTask[e] = "delivered"
  /\ goAwayTask' = [goAwayTask EXCEPT ![e] = "answered"]
  /\ \/ runner' = [runner EXCEPT ![e] = "leaving"]
     \/ endpoint /\ UNCHANGED runner
  /\ UNCHANGED <<server, endpoint, announced, request>>

EngineLeaves(e) ==
  /\ Up /\ runner[e] = "leaving" /\ runner' = [runner EXCEPT ![e] = "away"]
  /\ UNCHANGED <<server, endpoint, goAwayTask, announced, request>>

\* Once the exchanger is shut down it reports no engine as ready.
StatusesAreSent ==
  /\ Up /\ announced /\ server \in {"statuses", "drain", "stopping"} /\ announced' = FALSE
  /\ UNCHANGED <<server, endpoint, goAwayTask, runner, request>>

Arrives(t) == request[t] = "before" /\ request' = [request EXCEPT ![t] = "inProgress"]

ClientSends(t) ==
  /\ Up /\ endpoint /\ Arrives(t)
  /\ UNCHANGED <<server, endpoint, goAwayTask, runner, announced>>

\* A task that another server has sent on is received and enqueued here.
PeerSends(t) ==
  /\ Up /\ announced /\ Arrives(t)
  /\ UNCHANGED <<server, endpoint, goAwayTask, runner, announced>>

TaskIsAnswered(t) ==
  /\ Up /\ request[t] = "inProgress" /\ request' = [request EXCEPT ![t] = "answered"]
  /\ UNCHANGED <<server, endpoint, goAwayTask, runner, announced>>

EngineStep(e) == GoAwayIsDelivered(e) \/ EngineAnswers(e) \/ EngineLeaves(e)

ShutdownNext ==
  \/ GotSignal \/ GoAwayFails \/ ComponentFails \/ ServerStep
  \/ EndpointsUpdated \/ StatusesAreSent
  \/ \E e \in LocalEngines : EngineStep(e)
  \/ \E t \in ClientTasks : ClientSends(t)
  \/ \E t \in PeerTasks : PeerSends(t)
  \/ \E t \in ServerTasks : TaskIsAnswered(t)

\* run goes on, engines and tasks come to an end, and what the sleeps wait
\* for happens.
ShutdownFairness ==
  /\ WF_shutdownVars(ServerStep) /\ WF_shutdownVars(EndpointsUpdated) /\ WF_shutdownVars(StatusesAreSent)
  /\ \A e \in LocalEngines : WF_shutdownVars(EngineStep(e))
  /\ \A t \in ServerTasks : WF_shutdownVars(TaskIsAnswered(t))

ShutdownSpec == ShutdownInit /\ [][ShutdownNext]_shutdownVars /\ ShutdownFairness
-----------------------------------------------------------------------------
(***************************************************************************)
(* After a signal the process ends, and cuts no task, its own or another   *)
(* server's, when the delay is as long as it is meant to be (run.go 296-   *)
(* 341).  The exception: an engine whose GoAway was canceled because that  *)
(* of another engine failed keeps its stream, and the graceful stop of the *)
(* worker service waits for it for ever.                                   *)
(***************************************************************************)
ShutdownIsClean ==
  server = "endpoints" ~>
    \/ server = "exited" /\ \A t \in ServerTasks : request[t] # "cut"
    \/ \E e \in LocalEngines : goAwayTask[e] = "canceled"

===============================================================================
