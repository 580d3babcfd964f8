--------------------------- MODULE RuntimeManager ---------------------------
(***************************************************************************)
(* The runtime manager of an engine, engine/internal/runtime/manager.go:   *)
(* which models run in the cluster, who waits for one of them, and at      *)
(* which addresses they are served.                                        *)
(*                                                                         *)
(* RunStateMachine is one loop that takes an event and processes it to the *)
(* end, so that each handler is one action.  The channel of events has no  *)
(* buffer and every sender is a goroutine of its own: the events that wait *)
(* to be received are a set.  A handler sends on the wait channels of its  *)
(* callers, which have no buffer either; when nobody receives, the loop is *)
(* stuck.  When a handler returns an error the process exits, and what     *)
(* starts in its place knows nothing but the cluster.                      *)
(*                                                                         *)
(* A base model is a StatefulSet; its service is one address.  An adapter  *)
(* is a fine-tuned model that is loaded into pods of its base model (vLLM  *)
(* with dynamic LoRA loading); its addresses are pods.  A pod that comes   *)
(* back has its name, and another IP.                                      *)
(***************************************************************************)
EXTENDS FiniteSets, Naturals, SequencesExt

CONSTANTS Models, Adapters, BaseOf,
          Pods, Owner,      \* the pods and the base model they run
          Calls, NoCall,    \* PullModel is called at most once per call
          Configs,          \* the model configurations of the model manager
          NoRuntime, NoPod,
          ReadinessCheckMaxRetryCount,
          MaxIPs,           \* bound: how often a pod comes up
          MaxDisturbances   \* bound: how often a StatefulSet gets worse

Names == Models \cup Adapters
NoConfig == 0

ASSUME RuntimeAssumption ==
  /\ Models \cap Adapters = {}
  /\ BaseOf \in [Adapters -> Models] /\ Owner \in [Pods -> Models]
  /\ NoCall \notin Calls /\ NoPod \notin Pods
  /\ Configs \subseteq Nat \ {NoConfig}
  /\ ReadinessCheckMaxRetryCount \in Nat /\ MaxIPs \in Nat /\ MaxDisturbances \in Nat

VARIABLES
  runtimes,      \* what the manager knows of each model
  events,        \* the events that goroutines try to send
  inProgress,    \* updateInProgressPodNames
  loop,          \* run, stuck, failed or panicked
  scalers,       \* the models that are registered with the autoscaler
  calls,         \* the calls of PullModel
  sts,           \* the StatefulSets
  ip, up,        \* the last IP of each pod, the pods that run
  loaded,        \* the adapters that the vLLM of a pod has loaded
  config,        \* the configuration of each base model at the model manager
  disturbances

managerVars == <<runtimes, events, inProgress, loop, scalers>>
podVars == <<ip, up, loaded>>
clusterVars == <<sts, podVars, config, disturbances>>
rmVars == <<managerVars, calls, clusterVars>>

Addr == [pod : Pods \cup {NoPod}, ip : 0..MaxIPs]
Service == [pod |-> NoPod, ip |-> 0]
Waiters == {"none", "reconciler", "rebalancer"}
Reasons == {"", "Unschedulable", "unreachable", "deleted"}

PullEvent(m, c) == [type |-> "pull", model |-> m, call |-> c]
DeleteEvent(m) == [type |-> "delete", model |-> m]
UpdateEvent(m) == [type |-> "update", model |-> m]
ReconcileEvent(m) == [type |-> "reconcile", model |-> m]
ReadinessEvent(m, a, p, n, w) ==
  [type |-> "readiness", model |-> m, addr |-> a, pod |-> p, retry |-> n, waiter |-> w]
PullStatusEvent(m, a, w) == [type |-> "pullStatus", model |-> m, addr |-> a, waiter |-> w]
StatusUpdateEvent(a, added, removed, w) ==
  [type |-> "statusUpdate", addr |-> a, added |-> added, removed |-> removed, waiter |-> w]
LoadEvent(m, a) == [type |-> "load", model |-> m, addr |-> a]

PullEvents == {PullEvent(m, c) : m \in Names, c \in Calls \cup {NoCall}}
Event ==
  PullEvents
    \cup {DeleteEvent(m) : m \in Names}
    \cup {UpdateEvent(m) : m \in Names}
    \cup {ReconcileEvent(m) : m \in Models}
    \cup {ReadinessEvent(m, a, p, n, w) : m \in Names, a \in Addr, p \in Pods \cup {NoPod},
                                          n \in 0..ReadinessCheckMaxRetryCount, w \in Waiters}
    \cup {PullStatusEvent(m, a, w) : m \in Adapters, a \in Addr, w \in Waiters}
    \cup {StatusUpdateEvent(a, x, y, w) : a \in Addr, x \in SUBSET Adapters,
                                          y \in SUBSET Adapters, w \in Waiters}
    \cup {LoadEvent(m, a) : m \in Adapters, a \in Addr}

Runtime == [lora : BOOLEAN, ready : BOOLEAN, mci : Configs \cup {NoConfig},
            waitChs : Seq(Calls), lastErr : Reasons, pending : Seq(PullEvents),
            addrs : SUBSET Addr]

ASSUME NoRuntimeAssumption == NoRuntime \notin Runtime

\* Types, and that what is not there has no details.
RuntimeTypeOK ==
  /\ runtimes \in [Names -> Runtime \cup {NoRuntime}]
  /\ events \subseteq Event
  /\ inProgress \subseteq Pods
  /\ loop \in {"run", "stuck", "failed", "panicked"}
  /\ scalers \subseteq Models
  /\ calls \in [Calls -> {"idle", "sending", "waiting", "ok", "err", "gone"}]
  /\ sts \in [Models -> [phase : {"none", "zero", "pending", "unschedulable", "ready"},
                         mci : Configs \cup {NoConfig}]]
  /\ ip \in [Pods -> 0..MaxIPs] /\ up \subseteq Pods /\ loaded \in [Pods -> SUBSET Adapters]
  /\ config \in [Models -> Configs]
  /\ disturbances \in 0..MaxDisturbances

NewPending(isLoRA, mci, waitChs) ==
  [lora |-> isLoRA, ready |-> FALSE, mci |-> mci, waitChs |-> waitChs, lastErr |-> "",
   pending |-> <<>>, addrs |-> {}]

NoSts == [phase |-> "none", mci |-> NoConfig]

RuntimeInit ==
  /\ runtimes = [m \in Names |-> NoRuntime]
  /\ events = {} /\ inProgress = {} /\ loop = "run" /\ scalers = {}
  /\ calls = [c \in Calls |-> "idle"]
  /\ sts = [m \in Models |-> NoSts]
  /\ ip = [p \in Pods |-> 0] /\ up = {} /\ loaded = [p \in Pods |-> {}]
  /\ config \in [Models -> Configs]
  /\ disturbances = 0

Known(m) == runtimes[m] # NoRuntime
PodAddr(p) == [pod |-> p, ip |-> ip[p]]
Lives(a) == a.pod \in up /\ a.ip = ip[a.pod]
-----------------------------------------------------------------------------
(***************************************************************************)
(* runtime.closeWaitChs and the calls it answers.  A reason is sent to     *)
(* each waiter in turn: the first one that has gone, or that has no        *)
(* channel (a request of PullModelUnblocked), blocks the loop for good,    *)
(* and those behind it are not answered.                                   *)
(***************************************************************************)
Gone(c) == c = NoCall \/ calls[c] = "gone"

WaitersOf(rt) == rt.waitChs \o [i \in DOMAIN rt.pending |-> rt.pending[i].call]

Blocks(rt, reason) ==
  reason # "" /\ \E i \in DOMAIN WaitersOf(rt) : Gone(WaitersOf(rt)[i])

Reached(rt, reason) ==
  LET w == WaitersOf(rt)
  IN {w[i] : i \in {j \in DOMAIN w : reason # "" => \A k \in 1..j : ~Gone(w[k])}}

\* A bug: the channels are closed, and the reason is not sent.
AnsweredWhenReady(rt, reason) ==
  [c \in Calls |-> IF c \in Reached(rt, reason) /\ calls[c] # "gone" /\ reason = ""
                     THEN "ok" ELSE calls[c]]

Answered(rt, reason) ==
  [c \in Calls |-> IF c \in Reached(rt, reason) /\ calls[c] # "gone"
                     THEN IF reason = "" THEN "ok" ELSE "err"
                     ELSE calls[c]]

\* What closeWaitChs does to a runtime, the calls and the loop.
CloseWaitChs(m, rt, reason) ==
  /\ calls' = Answered(rt, reason)
  /\ IF Blocks(rt, reason)
       THEN loop' = "stuck" /\ runtimes' = [runtimes EXCEPT ![m] = rt]
       ELSE /\ UNCHANGED loop
            /\ runtimes' = [runtimes EXCEPT ![m] =
                 [rt EXCEPT !.waitChs = <<>>, !.pending = <<>>, !.lastErr = reason]]

\* A bug: the waiters are not told.
DropUnanswered(m) ==
  runtimes' = [runtimes EXCEPT ![m] = NoRuntime] /\ UNCHANGED <<calls, loop>>

\* deleteRuntimeUnlocked: the pending requests go back to the loop, the
\* waiters get an error.
DropRuntime(m) ==
  LET rt == [runtimes[m] EXCEPT !.pending = <<>>]
  IN /\ calls' = Answered(rt, "deleted")
     /\ IF Blocks(rt, "deleted")
          THEN loop' = "stuck" /\ runtimes' = [runtimes EXCEPT ![m] = rt]
          ELSE UNCHANGED loop /\ runtimes' = [runtimes EXCEPT ![m] = NoRuntime]

Requeued(m) == ToSet(runtimes[m].pending)

\* One answer: the caller has it, or has given up.
Tell(c, answer) == IF Gone(c) THEN calls ELSE [calls EXCEPT ![c] = answer]

\* Deploy(m) is deployRuntime with update = false: a StatefulSet that is
\* there stays as it is.
Deploy(m) ==
  /\ sts' = IF sts[m].phase = "none"
              THEN [sts EXCEPT ![m] = [phase |-> "pending", mci |-> config[m]]]
              ELSE sts
  /\ scalers' = scalers \cup {m}

Fails == loop' = "failed" /\ UNCHANGED <<runtimes, events, inProgress, scalers, calls, clusterVars>>
-----------------------------------------------------------------------------
(***************************************************************************)
(* processPullModelEvent.                                                  *)
(***************************************************************************)
PullIsReady(e) ==
  /\ Known(e.model) /\ runtimes[e.model].ready
  /\ calls' = Tell(e.call, "ok")
  /\ events' = events \ {e}
  /\ UNCHANGED <<runtimes, inProgress, loop, scalers, clusterVars>>

\* The last error is sent with the mutex held: the caller may have left.
PullHasFailed(e) ==
  /\ Known(e.model) /\ ~runtimes[e.model].ready /\ runtimes[e.model].lastErr # ""
  /\ events' = events \ {e}
  /\ \/ e.call = NoCall /\ UNCHANGED <<calls, loop>>
     \/ e.call # NoCall /\ ~Gone(e.call) /\ calls' = Tell(e.call, "err") /\ UNCHANGED loop
     \/ e.call # NoCall /\ calls' = [calls EXCEPT ![e.call] = "gone"] /\ loop' = "stuck"
  /\ UNCHANGED <<runtimes, inProgress, scalers, clusterVars>>

PullIsInProgress(e) ==
  /\ Known(e.model) /\ ~runtimes[e.model].ready /\ runtimes[e.model].lastErr = ""
  /\ runtimes' = [runtimes EXCEPT ![e.model].waitChs =
                    IF e.call = NoCall THEN @ ELSE Append(@, e.call)]
  /\ calls' = Tell(e.call, "waiting")
  /\ events' = events \ {e}
  /\ UNCHANGED <<inProgress, loop, scalers, clusterVars>>

NewWaitChs(c) == IF c = NoCall THEN <<>> ELSE <<c>>

PullNewModel(e) ==
  /\ e.model \in Models /\ ~Known(e.model)
  /\ runtimes' = [runtimes EXCEPT ![e.model] =
                    NewPending(FALSE, config[e.model], NewWaitChs(e.call))]
  /\ Deploy(e.model)
  /\ calls' = Tell(e.call, "waiting")
  /\ events' = (events \ {e}) \cup {ReconcileEvent(e.model)}
  /\ UNCHANGED <<inProgress, loop, podVars, config, disturbances>>

\* The request of an adapter waits in the runtime of a base model that is not
\* ready, which is deployed if need be.
PullNeedsBase(e) ==
  LET b == BaseOf[e.model]
      br == IF Known(b) THEN runtimes[b] ELSE NewPending(FALSE, config[b], <<>>)
  IN /\ e.model \in Adapters /\ ~Known(e.model) /\ ~br.ready
     /\ runtimes' = [runtimes EXCEPT ![b] = [br EXCEPT !.pending = Append(@, e)]]
     /\ calls' = Tell(e.call, "waiting")
     /\ IF Known(b)
          THEN events' = events \ {e} /\ UNCHANGED <<sts, scalers>>
          ELSE Deploy(b) /\ events' = (events \ {e}) \cup {ReconcileEvent(b)}
     /\ UNCHANGED <<inProgress, loop, podVars, config, disturbances>>

\* selectTarget takes a pod with an IP; the puller there starts to pull.
PullNewAdapter(e) ==
  LET b == BaseOf[e.model]
      targets == {p \in up : Owner[p] = b}
  IN /\ e.model \in Adapters /\ ~Known(e.model) /\ Known(b) /\ runtimes[b].ready
     /\ IF targets = {} THEN Fails
        ELSE \E p \in targets :
          /\ runtimes' = [runtimes EXCEPT ![e.model] =
                            NewPending(TRUE, NoConfig, NewWaitChs(e.call))]
          /\ calls' = Tell(e.call, "waiting")
          /\ events' = (events \ {e}) \cup {PullStatusEvent(e.model, PodAddr(p), "none")}
          /\ UNCHANGED <<inProgress, loop, scalers, clusterVars>>

ProcessPullModelEvent(e) ==
  /\ e.type = "pull"
  /\ \/ PullIsReady(e) \/ PullHasFailed(e) \/ PullIsInProgress(e)
     \/ PullNewModel(e) \/ PullNeedsBase(e) \/ PullNewAdapter(e)
-----------------------------------------------------------------------------
(***************************************************************************)
(* processDeleteModelEvent.  The runtime of an adapter is deleted here;    *)
(* that of a StatefulSet when the manager hears that it is gone.           *)
(***************************************************************************)
DeleteAdapter(e) ==
  LET m == e.model
      addrs == runtimes[m].addrs
  IN /\ Known(m) /\ runtimes[m].lora
     /\ IF \E a \in addrs : ~Lives(a) \/ m \notin loaded[a.pod] THEN Fails
        ELSE /\ loaded' = [p \in Pods |-> IF \E a \in addrs : a.pod = p
                                            THEN loaded[p] \ {m} ELSE loaded[p]]
             /\ DropRuntime(m)
             /\ events' = (events \ {e}) \cup Requeued(m)
             /\ UNCHANGED <<inProgress, scalers, sts, ip, up, config, disturbances>>

DeleteModelRuntime(e) ==
  /\ Known(e.model) /\ ~runtimes[e.model].lora
  /\ sts' = [sts EXCEPT ![e.model] = NoSts]
  /\ events' = (events \ {e})
                 \cup (IF sts[e.model].phase = "none" THEN {} ELSE {ReconcileEvent(e.model)})
  /\ UNCHANGED <<runtimes, inProgress, loop, scalers, calls, podVars, config, disturbances>>

ProcessDeleteModelEvent(e) ==
  /\ e.type = "delete"
  /\ \/ /\ ~Known(e.model)
        /\ events' = events \ {e}
        /\ UNCHANGED <<runtimes, inProgress, loop, scalers, calls, clusterVars>>
     \/ DeleteAdapter(e)
     \/ DeleteModelRuntime(e)

\* processUpdateModelEvent: a StatefulSet is applied again when the
\* configuration is not the one the manager has noted.
IsOutdated(m) ==
  /\ Known(m) /\ runtimes[m].mci # NoConfig
  /\ runtimes[m].mci # config[m]

ProcessUpdateModelEvent(e) ==
  LET m == e.model
  IN /\ e.type = "update"
     /\ IF m \in Models /\ IsOutdated(m)
          THEN /\ sts' = [sts EXCEPT ![m] = [phase |-> IF @.phase = "none" THEN "pending" ELSE @.phase,
                                             mci |-> config[m]]]
               /\ runtimes' = [runtimes EXCEPT ![m].mci = config[m]]
               /\ events' = (events \ {e}) \cup {ReconcileEvent(m)}
          ELSE events' = events \ {e} /\ UNCHANGED <<sts, runtimes>>
     /\ UNCHANGED <<inProgress, loop, scalers, calls, podVars, config, disturbances>>
-----------------------------------------------------------------------------
\* A bug: the autoscaler is not told.
ReconcileGoneButScaled(e) ==
  /\ sts[e.model].phase = "none"
  /\ IF Known(e.model)
       THEN DropRuntime(e.model) /\ events' = (events \ {e}) \cup Requeued(e.model)
       ELSE events' = events \ {e} /\ UNCHANGED <<runtimes, calls, loop>>
  /\ UNCHANGED <<inProgress, scalers, clusterVars>>

(***************************************************************************)
(* processReconcileStatefulSetEvent.                                       *)
(***************************************************************************)
ReconcileGone(e) ==
  /\ sts[e.model].phase = "none"
  /\ IF Known(e.model)
       THEN DropRuntime(e.model) /\ events' = (events \ {e}) \cup Requeued(e.model)
       ELSE events' = events \ {e} /\ UNCHANGED <<runtimes, calls, loop>>
  /\ scalers' = IF loop' = "stuck" THEN scalers ELSE scalers \ {e.model}
  /\ UNCHANGED <<inProgress, clusterVars>>

\* The runtime that the rest of the handler works on.
Reconciled(m) ==
  IF Known(m) THEN runtimes[m] ELSE NewPending(FALSE, sts[m].mci, <<>>)

ReconcileFound(e) ==
  LET m == e.model
      rt == Reconciled(m)
  IN /\ sts[m].phase # "none"
     /\ scalers' = IF Known(m) THEN scalers ELSE scalers \cup {m}
     /\ \/ /\ rt.ready
           /\ runtimes' = [runtimes EXCEPT ![m] = [rt EXCEPT !.ready = (sts[m].phase # "zero")]]
           /\ events' = events \ {e}
           /\ UNCHANGED <<calls, loop>>
        \/ /\ ~rt.ready /\ sts[m].phase = "unschedulable"
           /\ CloseWaitChs(m, rt, "Unschedulable")
           /\ events' = events \ {e}
        \/ /\ ~rt.ready /\ sts[m].phase \in {"zero", "pending"}
           /\ runtimes' = [runtimes EXCEPT ![m] = rt]
           /\ events' = events \ {e}
           /\ UNCHANGED <<calls, loop>>
        \/ /\ ~rt.ready /\ sts[m].phase = "ready"
           /\ runtimes' = [runtimes EXCEPT ![m] = rt]
           /\ events' = (events \ {e}) \cup {ReadinessEvent(m, Service, NoPod, 0, "none")}
           /\ UNCHANGED <<calls, loop>>
     /\ UNCHANGED <<inProgress, clusterVars>>

ProcessReconcileStatefulSetEvent(e) ==
  /\ e.type = "reconcile"
  /\ ReconcileGone(e) \/ ReconcileFound(e)
-----------------------------------------------------------------------------
(***************************************************************************)
(* processReadinessCheckEvent.  The event of a retry has no pod.           *)
(***************************************************************************)
Reachable(m, a) == IF a = Service THEN m \in Models /\ sts[m].phase = "ready" ELSE Lives(a)

\* becomeReady: the runtime starts with a new set of addresses.
BecomeReady(rt, a) == [rt EXCEPT !.ready = TRUE, !.addrs = {a}]

CheckIsMoot(e) ==
  /\ ~Known(e.model)
  /\ events' = events \ {e}
  /\ inProgress' = inProgress \ {e.pod}
  /\ UNCHANGED <<runtimes, loop, scalers, calls, clusterVars>>

CheckPasses(e) ==
  LET rt == BecomeReady(runtimes[e.model], e.addr)
  IN /\ Known(e.model) /\ Reachable(e.model, e.addr)
     /\ inProgress' = inProgress \ {e.pod}
     /\ events' = (events \ {e}) \cup Requeued(e.model)
     /\ CloseWaitChs(e.model, [rt EXCEPT !.pending = <<>>], "")
     /\ UNCHANGED <<scalers, clusterVars>>

RetryOf(e) == ReadinessEvent(e.model, e.addr, NoPod, e.retry + 1, e.waiter)

CheckIsRetried(e) ==
  /\ Known(e.model) /\ e.retry < ReadinessCheckMaxRetryCount
  /\ events' = (events \ {e}) \cup {RetryOf(e)}
  /\ UNCHANGED <<runtimes, inProgress, loop, scalers, calls, clusterVars>>

\* A bug: a runtime that cannot be reached stays.
CheckFailsForGood(e) ==
  /\ Known(e.model) /\ e.retry >= ReadinessCheckMaxRetryCount
  /\ CloseWaitChs(e.model, runtimes[e.model], "unreachable")
  /\ events' = events \ {e}
  /\ inProgress' = inProgress \ {e.pod}
  /\ UNCHANGED <<scalers, clusterVars>>

CheckFails(e) ==
  /\ Known(e.model) /\ e.retry >= ReadinessCheckMaxRetryCount
  /\ CloseWaitChs(e.model, runtimes[e.model], "unreachable")
  /\ IF Blocks(runtimes[e.model], "unreachable")
       THEN events' = events \ {e} /\ UNCHANGED inProgress
       ELSE /\ events' = (events \ {e}) \cup {DeleteEvent(e.model)}
            /\ inProgress' = inProgress \ {e.pod}
  /\ UNCHANGED <<scalers, clusterVars>>

ProcessReadinessCheckEvent(e) ==
  /\ e.type = "readiness"
  /\ CheckIsMoot(e) \/ CheckPasses(e) \/ CheckIsRetried(e) \/ CheckFails(e)
-----------------------------------------------------------------------------
(***************************************************************************)
(* processLoRAAdapterPullStatusCheckEvent.  The error goes to whoever made *)
(* the event wait channel: a rebalancer reads it, a pull does not.         *)
(***************************************************************************)
PullCheckFails(e) ==
  /\ IF e.waiter = "none"
       THEN loop' = "stuck" /\ inProgress' = inProgress \cup {e.addr.pod}
       ELSE inProgress' = inProgress \ {e.addr.pod} /\ UNCHANGED loop
  /\ events' = events \ {e}
  /\ UNCHANGED <<runtimes, scalers, calls, clusterVars>>

\* A bug: the event is not sent again.
PullCheckOnce(e) ==
  /\ Lives(e.addr)
  /\ inProgress' = inProgress \cup {e.addr.pod}
  /\ events' = events \ {e}
  /\ UNCHANGED <<runtimes, loop, scalers, calls, clusterVars>>

\* Not pulled yet, or it cannot be loaded: the same event is sent again.
PullCheckAgain(e) ==
  /\ Lives(e.addr)
  /\ inProgress' = inProgress \cup {e.addr.pod}
  /\ UNCHANGED <<runtimes, events, loop, scalers, calls, clusterVars>>

PullCheckLoads(e) ==
  /\ Lives(e.addr)
  /\ inProgress' = inProgress \cup {e.addr.pod}
  /\ loaded' = [loaded EXCEPT ![e.addr.pod] = @ \cup {e.model}]
  /\ events' = (events \ {e})
                 \cup {ReadinessEvent(e.model, e.addr, e.addr.pod, 0, e.waiter)}
  /\ UNCHANGED <<runtimes, loop, scalers, calls, sts, ip, up, config, disturbances>>

ProcessLoRAAdapterPullStatusCheckEvent(e) ==
  /\ e.type = "pullStatus"
  /\ PullCheckFails(e) \/ PullCheckAgain(e) \/ PullCheckLoads(e)

\* processLoadLoRAAdapterEvent: an error of the puller ends the process.
ProcessLoadLoRAAdapterEvent(e) ==
  /\ e.type = "load"
  /\ IF ~Lives(e.addr) THEN Fails
     ELSE /\ events' = (events \ {e}) \cup {PullStatusEvent(e.model, e.addr, "rebalancer")}
          /\ UNCHANGED <<runtimes, inProgress, loop, scalers, calls, clusterVars>>
-----------------------------------------------------------------------------
(***************************************************************************)
(* processLoRAAdapterStatusUpdateEvent.  Added adapters whose runtime is   *)
(* being created are tried again, in an event with them alone.  The        *)
(* address set of a runtime that is not ready is nil: it panics when an    *)
(* address is to be removed from it.                                       *)
(***************************************************************************)
\* The runtime of m after addr was added to it.
AfterAdd(m, a) ==
  LET new == BecomeReady(NewPending(TRUE, NoConfig, <<>>), a)
  IN CASE ~Known(m) -> new
       [] Known(m) /\ runtimes[m].ready -> [runtimes[m] EXCEPT !.addrs = @ \cup {a}]
       [] OTHER -> runtimes[m]

NeedRetry(e) == {m \in e.added : Known(m) /\ ~runtimes[m].ready}

Panics(e) == \E m \in e.removed : Known(m) /\ ~runtimes[m].ready

\* A bug: a runtime outlives its last address.
NoRuntimes(e) == {}

\* Nobody waits for one of these: they are ready.
RemovedRuntimes(e) ==
  {m \in e.removed : Known(m) /\ runtimes[m].addrs \subseteq {e.addr}}

ProcessLoRAAdapterStatusUpdateEvent(e) ==
  LET retry == StatusUpdateEvent(e.addr, NeedRetry(e), {}, e.waiter)
  IN /\ e.type = "statusUpdate"
     /\ IF Panics(e)
          THEN loop' = "panicked" /\ UNCHANGED <<runtimes, events>>
          ELSE /\ runtimes' = [m \in Names |->
                    CASE m \in RemovedRuntimes(e) -> NoRuntime
                      [] m \in e.removed /\ Known(m) /\ m \notin RemovedRuntimes(e)
                           -> [runtimes[m] EXCEPT !.addrs = @ \ {e.addr}]
                      [] m \in e.added \ e.removed -> AfterAdd(m, e.addr)
                      [] OTHER -> runtimes[m]]
               /\ events' = (events \ {e})
                              \cup (IF NeedRetry(e) = {} THEN {} ELSE {retry})
               /\ UNCHANGED loop
     /\ UNCHANGED <<inProgress, scalers, calls, clusterVars>>

\* RunStateMachine.
RunStateMachine(e) ==
  /\ loop = "run" /\ e \in events
  /\ \/ ProcessPullModelEvent(e)
     \/ ProcessDeleteModelEvent(e)
     \/ ProcessUpdateModelEvent(e)
     \/ ProcessReconcileStatefulSetEvent(e)
     \/ ProcessReadinessCheckEvent(e)
     \/ ProcessLoRAAdapterPullStatusCheckEvent(e)
     \/ ProcessLoRAAdapterStatusUpdateEvent(e)
     \/ ProcessLoadLoRAAdapterEvent(e)

-----------------------------------------------------------------------------
(***************************************************************************)
(* The callers: PullModel sends its event and cannot be cancelled until    *)
(* the loop has it; then it waits for the answer or the end of its         *)
(* context.                                                                *)
(***************************************************************************)
PullModel(c, m) ==
  /\ calls[c] = "idle"
  /\ calls' = [calls EXCEPT ![c] = "sending"]
  /\ events' = events \cup {PullEvent(m, c)}
  /\ UNCHANGED <<runtimes, inProgress, loop, scalers, clusterVars>>

CallerLeaves(c) ==
  /\ calls[c] = "waiting"
  /\ calls' = [calls EXCEPT ![c] = "gone"]
  /\ UNCHANGED <<managerVars, clusterVars>>

\* PullModelUnblocked, DeleteModel, UpdateModel.
Request(e) ==
  /\ e \notin events
  /\ events' = events \cup {e}
  /\ UNCHANGED <<runtimes, inProgress, loop, scalers, calls, clusterVars>>

(***************************************************************************)
(* The cluster.  The controller watches the StatefulSets and calls         *)
(* Reconcile when one changes.                                             *)
(***************************************************************************)
StsPhase(m, from, to) ==
  /\ sts[m].phase \in from
  /\ sts' = [sts EXCEPT ![m].phase = to]
  /\ events' = events \cup {ReconcileEvent(m)}
  /\ UNCHANGED <<runtimes, inProgress, loop, scalers, calls, podVars, config>>

StsProgress(m) ==
  /\ \/ StsPhase(m, {"pending", "unschedulable"}, "ready")
     \/ StsPhase(m, {"zero"}, "pending")
  /\ UNCHANGED disturbances

StsDisturbed(m) ==
  /\ disturbances < MaxDisturbances
  /\ disturbances' = disturbances + 1
  /\ \/ StsPhase(m, {"pending"}, "unschedulable")
     \/ StsPhase(m, {"ready"}, "pending")
     \/ m \in scalers /\ StsPhase(m, {"ready"}, "zero")

ConfigChanges(m) ==
  /\ \E new \in Configs : config[m] < new /\ config' = [config EXCEPT ![m] = new]
  /\ UNCHANGED <<managerVars, calls, sts, podVars, disturbances>>

PodStarts(p) ==
  /\ p \notin up /\ sts[Owner[p]].phase # "none" /\ ip[p] < MaxIPs
  /\ up' = up \cup {p}
  /\ ip' = [ip EXCEPT ![p] = @ + 1]
  /\ loaded' = [loaded EXCEPT ![p] = {}]
  /\ UNCHANGED <<managerVars, calls, sts, config, disturbances>>

PodStops(p) ==
  /\ p \in up
  /\ up' = up \ {p}
  /\ loaded' = [loaded EXCEPT ![p] = {}]
  /\ UNCHANGED <<managerVars, calls, sts, ip, config, disturbances>>

(***************************************************************************)
(* The process exits: after an error of a handler, a panic, or for any     *)
(* other reason.  Its calls end with it.  The controller of the one that   *)
(* replaces it reconciles every StatefulSet there is.                      *)
(***************************************************************************)
ManagerRestarts ==
  /\ runtimes' = [m \in Names |-> NoRuntime]
  /\ events' = {ReconcileEvent(m) : m \in {n \in Models : sts[n].phase # "none"}}
  /\ inProgress' = {} /\ loop' = "run" /\ scalers' = {}
  /\ calls' = [c \in Calls |-> IF calls[c] \in {"sending", "waiting"} THEN "gone" ELSE calls[c]]
  /\ UNCHANGED clusterVars

HasExited == loop \in {"failed", "panicked"}

Cluster ==
  \/ \E m \in Models : StsProgress(m) \/ StsDisturbed(m) \/ ConfigChanges(m)
  \/ \E p \in Pods : PodStarts(p) \/ PodStops(p)

Callers ==
  \E c \in Calls : CallerLeaves(c) \/ \E m \in Names : PullModel(c, m)
-----------------------------------------------------------------------------
(***************************************************************************)
(* Nobody is forgotten: a caller of PullModel that the loop has not        *)
(* answered has its event under way, or is among the waiters of a runtime  *)
(* that is not ready, or of the base model its adapter needs (manager.go   *)
(* 301-432, 162-179, runtime.go 195-211).  A runtime that became ready, or *)
(* was deleted, with a waiter left behind would make it wait until its     *)
(* context ends.                                                           *)
(***************************************************************************)
IsWaitedOn(c) ==
  \/ \E m \in Names : PullEvent(m, c) \in events
  \/ \E m \in Names : Known(m) /\ ~runtimes[m].ready /\ c \in ToSet(WaitersOf(runtimes[m]))

WaiterIsKnown ==
  \A c \in Calls : calls[c] \in {"sending", "waiting"} /\ ~HasExited => IsWaitedOn(c)

(***************************************************************************)
(* The autoscaler scales exactly the StatefulSets that have a runtime:     *)
(* none runs unscaled, and none is scaled after its deletion (deployRuntime*)
(* and the two branches of processReconcileStatefulSetEvent).              *)
(***************************************************************************)
RuntimeIsAutoscaled ==
  ~HasExited => scalers = {m \in Models : Known(m)}

(***************************************************************************)
(* What changes in the cluster is noticed: as long as a runtime is not     *)
(* ready although its StatefulSet is, or is there although its StatefulSet *)
(* is gone, an event about it is under way.  Nothing else would wake those *)
(* who wait (manager.go 577-763).                                          *)
(***************************************************************************)
IsAbout(e, m) ==
  e.type \in {"reconcile", "readiness", "delete"} /\ e.model = m

ClusterIsFollowed ==
  \A m \in Models :
    /\ loop = "run" /\ Known(m)
    /\ \/ sts[m].phase = "none"
       \/ sts[m].phase = "ready" /\ ~runtimes[m].ready
    => \E e \in events : IsAbout(e, m)

(***************************************************************************)
(* An adapter that is not loaded yet is being loaded: a check of its pull  *)
(* or of its readiness is under way, or its deletion (manager.go 413-431,  *)
(* 719-832).                                                               *)
(***************************************************************************)
AdapterIsWorkedOn ==
  \A m \in Adapters :
    loop = "run" /\ Known(m) /\ ~runtimes[m].ready =>
      \E e \in events : e.type \in {"pullStatus", "readiness", "delete"} /\ e.model = m

(***************************************************************************)
(* A ready runtime has an address, or GetLLMAddress would fail for a model *)
(* that is reported ready; nobody waits for it to become ready             *)
(* (manager.go 193-210, 839-923; runtime.go 213-224).                      *)
(***************************************************************************)
ReadyIsServed ==
  \A m \in Names :
    Known(m) /\ runtimes[m].ready => runtimes[m].addrs # {} /\ runtimes[m].waitChs = <<>>

=============================================================================
