---------------------------- MODULE EngineRunner ----------------------------
(***************************************************************************)
(* The processor of an engine, engine/internal/processor: it keeps one     *)
(* stream to a server open, through a runner, and starts another runner    *)
(* when that one ends or is told to go away.                               *)
(*                                                                         *)
(* The processes are                                                       *)
(*   - the main goroutine of engine/cmd/run.go, which starts the shutdown; *)
(*   - the loop of Start, which creates runners: Receive, Count, Check;    *)
(*   - per runner, its own goroutine (run, runInternal), the status loop   *)
(*     (sendEngineStatusPeriodically), the dispatch loop (processTasks)    *)
(*     and one goroutine per task.                                         *)
(*                                                                         *)
(* P.mu is taken by each action that reads or writes what it guards; only  *)
(* StartGracefulShutdown keeps it while it waits.  The manager's context   *)
(* ends with the process.  Runners are slots: an engine makes up an ID per *)
(* runner, and the slot of one that is over is free for the next.          *)
(***************************************************************************)
EXTENDS FiniteSets, Naturals, Sequences

CONSTANTS Runners,
          Tasks,      \* what servers send; each task is sent once
          GoAways,    \* the GoAway tasks,
          Heartbeats  \* and the heartbeats among them

ASSUME TasksAssumption ==
  GoAways \subseteq Tasks /\ Heartbeats \subseteq Tasks /\ GoAways \cap Heartbeats = {}

VARIABLES
  main,            \* up; notify: in StartGracefulShutdown; delay; exited
  start,           \* the loop of Start: wait, count, check
  first,           \* the goroutine that triggers the first runner waits
  lastErr,         \* P.lastErr: none or error
  active,          \* P.activeEngines: no, added, connected
  runner,          \* the goroutine of run
  runErr,          \* the runners whose runInternal failed
  status,          \* the status loop
  dispatch,        \* the dispatch loop
  goAway,          \* the runners whose goAwayCh is closed
  stream,          \* none; open; silent: the server has gone without a sign;
                   \* broken
  told,            \* the last status the server got: none, ready, notReady
  inbox,           \* the tasks received on the stream and not dispatched yet
  inflight,        \* the tasks whose goroutine runs
  sent, answered   \* the tasks servers have sent, and got an answer to

tableVars == <<lastErr, active>>
loopVars == <<status, dispatch>>
taskVars == <<goAway, inbox, inflight, sent, answered>>
streamVars == <<stream, told>>
vars == <<main, start, first, tableVars, runner, runErr, loopVars, streamVars, taskVars>>

\* The two loops of a runner run while runInternal waits for them.
LoopsHaveRun ==
  \A r \in Runners :
    status[r] # "off" \/ dispatch[r] # "off" => runner[r] \in {"serving", "stopping"}

ControlTypeOK ==
  /\ main \in {"up", "notify", "delay", "exited"}
  /\ start \in {"wait", "count", "check"}
  /\ first \in BOOLEAN
  /\ lastErr \in {"none", "error"}
  /\ active \in [Runners -> {"no", "added", "connected"}]
  /\ runner \in [Runners -> {"free", "starting", "connect", "serving", "stopping",
                             "leaving", "retrying"}]
  /\ runErr \subseteq Runners
  /\ status \in [Runners -> {"off", "report", "sendReady", "sendNotReady", "update",
                             "select", "final", "error", "nil"}]
  /\ dispatch \in [Runners -> {"off", "select", "goAway", "signal", "delay", "drain",
                               "error", "nil"}]

StreamTypeOK ==
  /\ goAway \subseteq Runners
  /\ stream \in [Runners -> {"none", "open", "silent", "broken"}]
  /\ told \in [Runners -> {"none", "ready", "notReady"}]
  /\ inbox \in [Runners -> Seq(Tasks)]
  /\ inflight \in [Runners -> SUBSET Tasks]
  /\ sent \subseteq Tasks /\ answered \subseteq Tasks

TypeOK == ControlTypeOK /\ StreamTypeOK /\ LoopsHaveRun

Init ==
  /\ main = "up" /\ start = "wait" /\ first = TRUE
  /\ lastErr = "none"
  /\ active = [r \in Runners |-> "no"]
  /\ runner = [r \in Runners |-> "free"] /\ runErr = {}
  /\ status = [r \in Runners |-> "off"] /\ dispatch = [r \in Runners |-> "off"]
  /\ goAway = {}
  /\ stream = [r \in Runners |-> "none"] /\ told = [r \in Runners |-> "none"]
  /\ inbox = [r \in Runners |-> <<>>] /\ inflight = [r \in Runners |-> {}]
  /\ sent = {} /\ answered = {}

MuFree == main # "notify"
IsShutdown == main # "up"
CtxDone(r) == runner[r] = "stopping"      \* runInternal has called cancel
-----------------------------------------------------------------------------
(***************************************************************************)
(* Start.  It takes a signal from any goroutine that waits to send one on  *)
(* runnerCreationCh, looks at the number of active engines and at the      *)
(* shutdown flag, and starts a runner.                                     *)
(***************************************************************************)
Receive ==
  /\ start = "wait"
  /\ start' = "count"
  /\ \/ /\ first
        /\ first' = FALSE
        /\ UNCHANGED <<runner, dispatch>>
     \/ \E r \in Runners :        \* after retryInterval
          /\ runner[r] = "retrying"
          /\ runner' = [runner EXCEPT ![r] = "free"]
          /\ UNCHANGED <<first, dispatch>>
     \/ \E r \in Runners :
          /\ dispatch[r] = "signal"
          /\ dispatch' = [dispatch EXCEPT ![r] = "delay"]
          /\ UNCHANGED <<first, runner>>
  /\ UNCHANGED <<main, tableVars, runErr, status, streamVars, taskVars>>

Count ==
  /\ start = "count"
  /\ MuFree
  /\ start' = IF \E r \in Runners : active[r] # "no" THEN "wait" ELSE "check"
  /\ UNCHANGED <<main, first, tableVars, runner, runErr, loopVars, streamVars, taskVars>>

Check ==
  /\ start = "check"
  /\ MuFree
  /\ start' = "wait"
  /\ IF IsShutdown
     THEN UNCHANGED runner
     ELSE \E r \in Runners : /\ runner[r] = "free"
                             /\ runner' = [runner EXCEPT ![r] = "starting"]
  /\ UNCHANGED <<main, first, tableVars, runErr, loopVars, streamVars, taskVars>>
-----------------------------------------------------------------------------
(***************************************************************************)
(* run and runInternal.                                                    *)
(***************************************************************************)
AddActive(r) ==
  /\ runner[r] = "starting"
  /\ MuFree
  /\ active' = [active EXCEPT ![r] = "added"]
  /\ runner' = [runner EXCEPT ![r] = "connect"]
  /\ UNCHANGED <<main, start, first, lastErr, runErr, loopVars, streamVars, taskVars>>

\* The client or the stream cannot be made, or the two loops start.
Connect(r) ==
  /\ runner[r] = "connect"
  /\ \/ /\ runner' = [runner EXCEPT ![r] = "leaving"]
        /\ runErr' = runErr \cup {r}
        /\ UNCHANGED <<loopVars, stream>>
     \/ /\ runner' = [runner EXCEPT ![r] = "serving"]
        /\ status' = [status EXCEPT ![r] = "report"]
        /\ dispatch' = [dispatch EXCEPT ![r] = "select"]
        /\ stream' = [stream EXCEPT ![r] = "open"]
        /\ UNCHANGED runErr
  /\ UNCHANGED <<main, start, first, tableVars, told, taskVars>>

\* The first error of the two loops ends the run, nil or not.
FirstError(r) ==
  /\ runner[r] = "serving"
  /\ runner' = [runner EXCEPT ![r] = "stopping"]
  /\ \/ /\ status[r] \in {"error", "nil"}
        /\ runErr' = IF status[r] = "error" THEN runErr \cup {r} ELSE runErr
        /\ status' = [status EXCEPT ![r] = "off"]
        /\ UNCHANGED dispatch
     \/ /\ dispatch[r] \in {"error", "nil"}
        /\ runErr' = IF dispatch[r] = "error" THEN runErr \cup {r} ELSE runErr
        /\ dispatch' = [dispatch EXCEPT ![r] = "off"]
        /\ UNCHANGED status
  /\ UNCHANGED <<main, start, first, tableVars, streamVars, taskVars>>

\* The deferred calls of runInternal close the stream.
CloseStream(r) ==
  /\ runner' = [runner EXCEPT ![r] = "leaving"]
  /\ status' = [status EXCEPT ![r] = "off"]
  /\ dispatch' = [dispatch EXCEPT ![r] = "off"]
  /\ stream' = [stream EXCEPT ![r] = "none"]
  /\ told' = [told EXCEPT ![r] = "none"]
  /\ goAway' = goAway \ {r}
  /\ inbox' = [inbox EXCEPT ![r] = <<>>]
  /\ inflight' = [inflight EXCEPT ![r] = {}]
  /\ UNCHANGED <<main, start, first, tableVars, runErr, sent, answered>>

\* A bug: the dispatch loop is waited for, even if it ended first.
WaitForDispatch(r) ==
  /\ runner[r] = "stopping"
  /\ dispatch[r] \in {"error", "nil"}
  /\ CloseStream(r)

\* What the second error is does not matter.
SecondError(r) ==
  /\ runner[r] = "stopping"
  /\ status[r] \in {"error", "nil"} \/ dispatch[r] \in {"error", "nil"}
  /\ CloseStream(r)

RemoveActiveEngine(r, err) ==
  /\ active' = [active EXCEPT ![r] = "no"]
  /\ lastErr' = err

\* A bug: the runner ends without asking for another one.
LeaveForGood(r) ==
  /\ runner[r] = "leaving"
  /\ MuFree
  /\ RemoveActiveEngine(r, "none")
  /\ runErr' = runErr \ {r}
  /\ runner' = [runner EXCEPT ![r] = IF r \in runErr THEN "retrying" ELSE "free"]
  /\ UNCHANGED <<main, start, first, loopVars, streamVars, taskVars>>

\* The err that run passes is that of GenerateID, which is nil.
Leave(r) ==
  /\ runner[r] = "leaving"
  /\ MuFree
  /\ RemoveActiveEngine(r, "none")
  /\ runErr' = runErr \ {r}
  /\ runner' = [runner EXCEPT ![r] = "retrying"]
  /\ UNCHANGED <<main, start, first, loopVars, streamVars, taskVars>>
-----------------------------------------------------------------------------
(***************************************************************************)
(* sendEngineStatusPeriodically.  The status is computed under P.mu and    *)
(* then sent, and the engine is marked as connected.                       *)
(***************************************************************************)
SetStatus(r, s) == status' = [status EXCEPT ![r] = s]

\* A bug: the shutdown is not looked at.
ReportAlwaysReady(r) ==
  /\ status[r] = "report"
  /\ MuFree
  /\ SetStatus(r, "sendReady")
  /\ UNCHANGED <<main, start, first, tableVars, runner, runErr, dispatch, streamVars, taskVars>>

Report(r) ==
  /\ status[r] = "report"
  /\ MuFree
  /\ SetStatus(r, IF IsShutdown THEN "sendNotReady" ELSE "sendReady")
  /\ UNCHANGED <<main, start, first, tableVars, runner, runErr, dispatch, streamVars, taskVars>>

\* What is sent to a server that has gone is lost.
SendStatus(r, s) ==
  told' = IF stream[r] = "open" THEN [told EXCEPT ![r] = s] ELSE told

Send(r) ==
  /\ status[r] \in {"sendReady", "sendNotReady"}
  /\ IF stream[r] = "broken"
     THEN SetStatus(r, "error") /\ UNCHANGED told
     ELSE /\ SetStatus(r, "update")
          /\ SendStatus(r, IF status[r] = "sendReady" THEN "ready" ELSE "notReady")
  /\ UNCHANGED <<main, start, first, tableVars, runner, runErr, dispatch, stream, taskVars>>

\* A bug: an engine that was removed is put back.
UpdateOrAddActive(r) ==
  /\ status[r] = "update"
  /\ MuFree
  /\ active' = [active EXCEPT ![r] = "connected"]
  /\ lastErr' = "none"
  /\ SetStatus(r, "select")
  /\ UNCHANGED <<main, start, first, runner, runErr, dispatch, streamVars, taskVars>>

\* updateActiveEngine: nothing is done for an engine that was removed.
UpdateActive(r) ==
  /\ status[r] = "update"
  /\ MuFree
  /\ IF active[r] = "no"
     THEN UNCHANGED <<active, lastErr>>
     ELSE active' = [active EXCEPT ![r] = "connected"] /\ lastErr' = "none"
  /\ SetStatus(r, "select")
  /\ UNCHANGED <<main, start, first, runner, runErr, dispatch, streamVars, taskVars>>

\* The timer, which a ready case preempts, the end of the stream or of the run.
Select(r) ==
  /\ status[r] = "select"
  /\ \/ stream[r] # "broken" /\ ~CtxDone(r) /\ SetStatus(r, "report")
     \/ stream[r] = "broken" /\ SetStatus(r, "nil")
     \/ CtxDone(r) /\ SetStatus(r, "final")
  /\ UNCHANGED <<main, start, first, tableVars, runner, runErr, dispatch, streamVars, taskVars>>

(***************************************************************************)
(* The last status, after the run was cancelled.  Only here is the time of *)
(* the last heartbeat looked at; whatever comes of it is the second error  *)
(* of the run.                                                             *)
(***************************************************************************)
Final(r) ==
  /\ status[r] = "final"
  /\ MuFree
  /\ SetStatus(r, "error")
  /\ SendStatus(r, "notReady")
  /\ UNCHANGED <<main, start, first, tableVars, runner, runErr, dispatch, stream, taskVars>>
-----------------------------------------------------------------------------
(***************************************************************************)
(* processTasks.                                                           *)
(***************************************************************************)
SetDispatch(r, d) == dispatch' = [dispatch EXCEPT ![r] = d]

Dispatch(r) ==
  /\ dispatch[r] = "select"
  /\ inbox[r] # <<>>
  /\ inbox' = [inbox EXCEPT ![r] = Tail(@)]
  /\ inflight' = [inflight EXCEPT ![r] = @ \cup {Head(inbox[r])}]
  /\ UNCHANGED <<main, start, first, tableVars, runner, runErr, loopVars, streamVars,
                 goAway, sent, answered>>

\* Recv has failed, goAwayCh is closed or the context is done.
StopDispatch(r) ==
  /\ dispatch[r] = "select"
  /\ \/ stream[r] = "broken" /\ inbox[r] = <<>> /\ SetDispatch(r, "error")
     \/ r \in goAway /\ SetDispatch(r, "goAway")
     \/ CtxDone(r) /\ SetDispatch(r, "drain")
  /\ UNCHANGED <<main, start, first, tableVars, runner, runErr, status, streamVars, taskVars>>

\* Make room for a new runner before the end of this one.
RemoveForGoAway(r) ==
  /\ dispatch[r] = "goAway"
  /\ MuFree
  /\ RemoveActiveEngine(r, "none")
  /\ SetDispatch(r, "signal")
  /\ UNCHANGED <<main, start, first, runner, runErr, status, streamVars, taskVars>>

\* A bug: after the tasks have ended the loop goes on.
DrainAndGoOn(r) ==
  /\ dispatch[r] \in {"delay", "drain"}
  /\ inflight[r] = {}
  /\ SetDispatch(r, IF dispatch[r] = "delay" THEN "select" ELSE "nil")
  /\ UNCHANGED <<main, start, first, tableVars, runner, runErr, status, streamVars, taskVars>>

\* wg.Wait, after goAwayDelay for a go-away.
Drain(r) ==
  /\ dispatch[r] \in {"delay", "drain"}
  /\ inflight[r] = {}
  /\ SetDispatch(r, "nil")
  /\ UNCHANGED <<main, start, first, tableVars, runner, runErr, status, streamVars, taskVars>>

(***************************************************************************)
(* A task ends.  Its answer is lost on a broken or silent stream; a GoAway *)
(* closes goAwayCh when the answer could be sent.                          *)
(***************************************************************************)
TaskEnds(r, t) ==
  /\ t \in inflight[r]
  /\ t \in Heartbeats => MuFree
  /\ inflight' = [inflight EXCEPT ![r] = @ \ {t}]
  /\ answered' = IF stream[r] = "open" THEN answered \cup {t} ELSE answered
  /\ goAway' = IF t \in GoAways /\ stream[r] # "broken" THEN goAway \cup {r} ELSE goAway
  /\ UNCHANGED <<main, start, first, tableVars, runner, runErr, loopVars, streamVars,
                 inbox, sent>>
-----------------------------------------------------------------------------
(***************************************************************************)
(* Servers and the network.  A server sends requests to an engine that is  *)
(* ready, heartbeats to any it knows, and at its own shutdown one GoAway.  *)
(***************************************************************************)
GoAwayUnderWay(r) ==
  \/ r \in goAway
  \/ \E t \in GoAways : t \in inflight[r] \/ \E i \in DOMAIN inbox[r] : inbox[r][i] = t

ServerSends(r, t) ==
  /\ stream[r] = "open"
  /\ t \notin sent
  /\ IF t \in GoAways \cup Heartbeats THEN told[r] # "none" ELSE told[r] = "ready"
  /\ t \in GoAways => ~GoAwayUnderWay(r)
  /\ sent' = sent \cup {t}
  /\ inbox' = [inbox EXCEPT ![r] = Append(@, t)]
  /\ UNCHANGED <<main, start, first, tableVars, runner, runErr, loopVars, streamVars,
                 goAway, inflight, answered>>

\* The stream breaks, and may take with it what the engine has not read.
Break(r) ==
  /\ stream[r] \in {"open", "silent"}
  /\ stream' = [stream EXCEPT ![r] = "broken"]
  /\ \E n \in 0..Len(inbox[r]) : inbox' = [inbox EXCEPT ![r] = SubSeq(@, 1, n)]
  /\ UNCHANGED <<main, start, first, tableVars, runner, runErr, loopVars, told, goAway,
                 inflight, sent, answered>>

\* The server goes without a sign: nothing comes and sends do not fail.
FallSilent(r) ==
  /\ stream[r] = "open"
  /\ stream' = [stream EXCEPT ![r] = "silent"]
  /\ UNCHANGED <<main, start, first, tableVars, runner, runErr, loopVars, told, taskVars>>
-----------------------------------------------------------------------------
(***************************************************************************)
(* The shutdown: the flag is set and a status loop is notified, all of it  *)
(* under P.mu.  Then the process waits for GracefulShutdownDelay and ends. *)
(***************************************************************************)
StartGracefulShutdown ==
  /\ main = "up"
  /\ main' = "notify"
  /\ UNCHANGED <<start, first, tableVars, runner, runErr, loopVars, streamVars, taskVars>>

Notify(r) ==
  /\ main = "notify"
  /\ status[r] = "select"
  /\ main' = "delay"
  /\ SetStatus(r, "report")
  /\ UNCHANGED <<start, first, tableVars, runner, runErr, dispatch, streamVars, taskVars>>

Exit ==
  /\ main = "delay"
  /\ main' = "exited"
  /\ UNCHANGED <<start, first, tableVars, runner, runErr, loopVars, streamVars, taskVars>>
-----------------------------------------------------------------------------
StartStep == Receive \/ Count \/ Check
RunnerStep(r) ==
  \/ AddActive(r) \/ Connect(r) \/ FirstError(r) \/ SecondError(r) \/ Leave(r)
StatusStep(r) == Report(r) \/ Send(r) \/ UpdateActive(r) \/ Select(r) \/ Final(r)
DispatchStep(r) == Dispatch(r) \/ StopDispatch(r) \/ RemoveForGoAway(r) \/ Drain(r)
Environment(r) ==
  Break(r) \/ FallSilent(r) \/ \E t \in Tasks : ServerSends(r, t)

\* The process has ended, or waits for its shutdown to be noticed.
Idle == main \in {"notify", "exited"} /\ UNCHANGED vars

Next ==
  \/ /\ main # "exited"
     /\ \/ StartStep
        \/ \E r \in Runners :
             \/ RunnerStep(r) \/ StatusStep(r) \/ DispatchStep(r)
             \/ Environment(r)
             \/ \E t \in Tasks : TaskEnds(r, t)
        \/ StartGracefulShutdown \/ (\E r \in Runners : Notify(r)) \/ Exit
  \/ Idle

Spec == Init /\ [][Next]_vars

(***************************************************************************)
(* Goroutines that can run do run, timers fire.  A task may take for ever  *)
(* while its stream is up; one whose run was cancelled ends.  Nothing is   *)
(* assumed of servers, connections, or how long the process has.           *)
(***************************************************************************)
Fairness ==
  /\ WF_vars(main # "exited" /\ StartStep)
  /\ \A r \in Runners :
       /\ WF_vars(main # "exited" /\ RunnerStep(r))
       /\ WF_vars(main # "exited" /\ StatusStep(r))
       /\ WF_vars(main # "exited" /\ DispatchStep(r))
       /\ WF_vars(Notify(r))
       /\ \A t \in Tasks : WF_vars(main # "exited" /\ CtxDone(r) /\ TaskEnds(r, t))

FairSpec == Spec /\ Fairness
-----------------------------------------------------------------------------
(***************************************************************************)
(* The engine never stays without a runner: while the process is up, there *)
(* is one that has not gone away, or a request for one that Start will not *)
(* refuse.  Start drops a request when the table of active engines is not  *)
(* empty, so an entry must always be that of a runner that will ask again: *)
(* the status loop of a runner that went away must not bring its entry     *)
(* back.                                                                   *)
(***************************************************************************)
GoneAway(r) == dispatch[r] \in {"signal", "delay"}

WillAsk(r) == runner[r] # "free" /\ dispatch[r] # "delay"

RunnerIsDue ==
  main = "up" => first \/ start # "wait" \/ \E r \in Runners : WillAsk(r)

EntryHasRunner ==
  \A r \in Runners :
    active[r] # "no" =>
      runner[r] \in {"connect", "serving", "stopping", "leaving"} /\ ~GoneAway(r)

(***************************************************************************)
(* Start counts active engines before the runner it started has registered *)
(* (the TODO in Start), so two may run at once; but never more than one    *)
(* and one for each go-away, since only those ask for a runner before they *)
(* end.                                                                    *)
(***************************************************************************)
Requests ==
  Cardinality({r \in Runners : runner[r] # "free"})
  + Cardinality({r \in Runners : dispatch[r] = "signal"})
  + (IF first THEN 1 ELSE 0) + (IF start # "wait" THEN 1 ELSE 0)

RunnersAreBounded == Requests <= 1 + Cardinality(GoAways \cap sent)

(***************************************************************************)
(* An engine without an entry in the table tries to connect again, unless  *)
(* it shuts down: no interleaving of failures, go-aways and requests that  *)
(* Start refuses leaves it idle.                                           *)
(***************************************************************************)
EngineReturns ==
  (\A r \in Runners : active[r] = "no")
    ~> ((\E r \in Runners : active[r] # "no") \/ main # "up")

(***************************************************************************)
(* A run whose stream breaks ends, and with it the stream: whichever loop  *)
(* notices first, the other one is told, sends its error on the unbuffered *)
(* channel and has somebody to receive it, also in the middle of a go-away *)
(* with tasks in flight.                                                   *)
(***************************************************************************)
BrokenStreamIsLeft ==
  \A r \in Runners : stream[r] = "broken" ~> (stream[r] # "broken" \/ main # "up")

(***************************************************************************)
(* "Set ready to false if the shutdown is initiated so that the engine     *)
(* will not receive new tasks" (processor.go:822): once the notification   *)
(* was taken, by whichever loop, the servers at the other end of all       *)
(* streams learn it for good, also of a runner that starts late or a       *)
(* status that was computed before.                                        *)
(***************************************************************************)
ShutdownIsReported ==
  main = "delay"
    ~> [](main = "exited" \/ \A r \in Runners : stream[r] = "open" => told[r] # "ready")
-----------------------------------------------------------------------------
(***************************************************************************)
(* What the repository says and the code does not do.                      *)
(***************************************************************************)

(***************************************************************************)
(* "Notify the runner to force the status update with ready=false"         *)
(* (processor.go:960), on the way to "the delay before shutting down the   *)
(* engine" (config.go:553): the shutdown gets past the notification.       *)
(***************************************************************************)
ShutdownProceeds == main = "notify" ~> main # "notify"

=============================================================================
