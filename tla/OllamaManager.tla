----------------------------- MODULE OllamaManager -----------------------------
(***************************************************************************)
(* The manager of an Ollama runtime that loads models dynamically          *)
(* (engine/internal/runtime/ollama_manager.go): one stateful set serves    *)
(* all models.                                                             *)
(*                                                                         *)
(* PullModel runs in the goroutine of each task that needs a model; it may *)
(* wait for the runtime and then for somebody else's pull of the model,    *)
(* each time on a channel of its own.  The reconciler, and the deletion of *)
(* models, close these channels.  The mutex makes the steps below atomic;  *)
(* it is also held while a model is deleted over HTTP, with retries.       *)
(***************************************************************************)
EXTENDS FiniteSets, Naturals

CONSTANTS OllamaModels,
          PullCalls,              \* calls of PullModel; each waits on channels of its own
          ModelOfCall,
          MaxStsChanges           \* bound: what happens to the stateful set

ASSUME OllamaAssumption ==
  /\ ModelOfCall \in [PullCalls -> OllamaModels]
  /\ MaxStsChanges \in Nat

VARIABLES
  sts,          \* the stateful set: gone, zero, pending, unschedulable or ready
  stsChanges,   \* bound
  runtimeReady, \* m.runtime.ready
  runtimeChs,   \* m.runtime.waitChs: the calls whose channel it holds
  models,       \* m.models: is it ready, and whose channels its waitChs holds
  closedChs,    \* the calls whose model channel is closed
  mu,           \* what the mutex is held for: free, a model's deletion, or stuck
  pullCall,     \* how far each call is
  panicked      \* a channel has been closed twice

ollamaVars == <<sts, stsChanges, runtimeReady, runtimeChs, models, closedChs, mu, pullCall, panicked>>

Missing == [known |-> FALSE, ready |-> FALSE, waitChs |-> {}]
Pulling0 == [known |-> TRUE, ready |-> FALSE, waitChs |-> {}]

OllamaTypeOK ==
  /\ sts \in {"gone", "zero", "pending", "unschedulable", "ready"} /\ stsChanges \in 0..MaxStsChanges
  /\ runtimeReady \in BOOLEAN /\ runtimeChs \subseteq PullCalls
  /\ models \in [OllamaModels -> [known : BOOLEAN, ready : BOOLEAN, waitChs : SUBSET PullCalls]]
  /\ closedChs \subseteq PullCalls
  /\ mu \in {"free", "stuck"} \cup OllamaModels
  /\ pullCall \in [PullCalls -> {"none", "waitRuntime", "runtimeClosed", "waitModel", "modelClosed",
                                 "pull", "show", "shown", "ok", "failed"}]
  /\ panicked \in BOOLEAN

OllamaInit ==
  /\ sts = "pending" /\ stsChanges = 0
  /\ runtimeReady = FALSE /\ runtimeChs = {}
  /\ models = [m \in OllamaModels |-> Missing] /\ closedChs = {}
  /\ mu = "free" /\ pullCall = [c \in PullCalls |-> "none"] /\ panicked = FALSE

Locks == mu = "free" /\ ~panicked
Goes(c, to) == pullCall' = [pullCall EXCEPT ![c] = to]
-----------------------------------------------------------------------------
(***************************************************************************)
(* PullModel, with the runtime ready: wait for the pull that is under way, *)
(* or begin one.                                                           *)
(***************************************************************************)
PullOrWait(c) ==
  LET m == ModelOfCall[c] IN
  IF ~models[m].known
    THEN models' = [models EXCEPT ![m] = Pulling0] /\ Goes(c, "pull")
    ELSE IF models[m].ready
    THEN Goes(c, "ok") /\ UNCHANGED models
    ELSE models' = [models EXCEPT ![m].waitChs = @ \cup {c}] /\ Goes(c, "waitModel")

PullModel(c) ==
  /\ Locks /\ pullCall[c] = "none"
  /\ IF runtimeReady
       THEN PullOrWait(c) /\ UNCHANGED runtimeChs
       ELSE runtimeChs' = runtimeChs \cup {c} /\ Goes(c, "waitRuntime") /\ UNCHANGED models
  /\ UNCHANGED <<sts, stsChanges, runtimeReady, closedChs, mu, panicked>>

\* After the runtime's channel was closed, the runtime may be gone again.
ResumeWithRuntime(c) ==
  /\ Locks /\ pullCall[c] = "runtimeClosed"
  /\ IF runtimeReady THEN PullOrWait(c) ELSE Goes(c, "failed") /\ UNCHANGED models
  /\ UNCHANGED <<sts, stsChanges, runtimeReady, runtimeChs, closedChs, mu, panicked>>

\* After the model's channel was closed, the model may be gone, or not ready:
\* the call pulls it itself.
ResumeWithModel(c) ==
  LET m == ModelOfCall[c] IN
  /\ Locks /\ pullCall[c] = "modelClosed"
  /\ IF models[m].ready THEN Goes(c, "ok") ELSE Goes(c, "pull")
  /\ models' = IF models[m].known THEN models ELSE [models EXCEPT ![m] = Pulling0]
  /\ UNCHANGED <<sts, stsChanges, runtimeReady, runtimeChs, closedChs, mu, panicked>>

\* The puller takes the request, or does not.  A call that fails leaves the
\* model as it is.
SendPull(c) ==
  /\ pullCall[c] = "pull" /\ \E to \in {"show", "failed"} : Goes(c, to)
  /\ UNCHANGED <<sts, stsChanges, runtimeReady, runtimeChs, models, closedChs, mu, panicked>>

\* Show is retried until Ollama has the model.
ShowModel(c) ==
  /\ pullCall[c] = "show" /\ sts = "ready" /\ Goes(c, "shown")
  /\ UNCHANGED <<sts, stsChanges, runtimeReady, runtimeChs, models, closedChs, mu, panicked>>

CallerLeaves(c) ==
  /\ pullCall[c] \in {"waitRuntime", "waitModel"} /\ Goes(c, "failed")
  /\ UNCHANGED <<sts, stsChanges, runtimeReady, runtimeChs, models, closedChs, mu, panicked>>

\* close(ch) of the models' channels chs; the calls that wait there go on.
CloseChs(chs, calls) ==
  /\ closedChs' = closedChs \cup chs
  /\ panicked' = (panicked \/ chs \cap closedChs # {})
  /\ pullCall' = [c \in PullCalls |->
       IF c \in chs /\ calls[c] = "waitModel" THEN "modelClosed" ELSE calls[c]]

\* The waiters' channels stay in waitChs.
BecomeReady(c) ==
  LET m == ModelOfCall[c]
      ends == [pullCall EXCEPT ![c] = "ok"]
  IN /\ Locks /\ pullCall[c] = "shown"
     /\ IF models[m].known /\ ~models[m].ready
          THEN CloseChs(models[m].waitChs, ends) /\ models' = [models EXCEPT ![m].ready = TRUE]
          ELSE pullCall' = ends /\ UNCHANGED <<models, closedChs, panicked>>
     /\ UNCHANGED <<sts, stsChanges, runtimeReady, runtimeChs, mu>>
-----------------------------------------------------------------------------
\* DeleteModel, up to the request to Ollama; nothing happens to a model that
\* is not known, or without the runtime.
DeleteModel(m) ==
  /\ Locks /\ runtimeReady /\ models[m].known
  /\ IF models[m].ready THEN UNCHANGED <<closedChs, panicked, pullCall>>
                        ELSE CloseChs(models[m].waitChs, pullCall)
  /\ models' = [models EXCEPT ![m] = Missing]
  /\ mu' = m
  /\ UNCHANGED <<sts, stsChanges, runtimeReady, runtimeChs>>

\* It is retried until Ollama answers.
ModelDeleted ==
  /\ mu \in OllamaModels /\ sts = "ready"
  /\ mu' = "free"
  /\ UNCHANGED <<sts, stsChanges, runtimeReady, runtimeChs, models, closedChs, pullCall, panicked>>
-----------------------------------------------------------------------------
\* A bug: the models are swept away with their waiters.
CleanupOnlyModels(callsNow) ==
  /\ models' = [m \in OllamaModels |-> Missing]
  /\ pullCall' = callsNow /\ UNCHANGED <<closedChs, panicked>>

(***************************************************************************)
(* Reconcile.                                                              *)
(***************************************************************************)
CleanupModels(calls) ==
  /\ CloseChs(UNION {models[m].waitChs : m \in OllamaModels}, calls)
  /\ models' = [m \in OllamaModels |-> Missing]

RuntimeClosedFor(chs) ==
  [c \in PullCalls |-> IF c \in chs /\ pullCall[c] = "waitRuntime"
                         THEN "runtimeClosed" ELSE pullCall[c]]
WithRuntimeClosed == RuntimeClosedFor(runtimeChs)

\* The runtime is deleted, and deployed again.
ReconcileDeleted ==
  /\ Locks /\ sts = "gone"
  /\ runtimeReady' = FALSE /\ runtimeChs' = {}
  /\ CleanupModels(WithRuntimeClosed)
  /\ sts' = "pending"
  /\ UNCHANGED <<stsChanges, mu>>

\* Only the models' waiters are told that the runtime is scaled to zero.
ReconcileScaledToZero ==
  /\ Locks /\ sts = "zero" /\ runtimeReady
  /\ runtimeReady' = FALSE /\ CleanupModels(pullCall)
  /\ UNCHANGED <<sts, stsChanges, runtimeChs, mu>>

\* The reason is sent on each channel in turn, which a call that has left does
\* not receive: there the reconciler waits for ever, with the mutex.
ReconcileUnschedulable ==
  LET waiting == {c \in runtimeChs : pullCall[c] = "waitRuntime"}
  IN /\ Locks /\ sts = "unschedulable" /\ ~runtimeReady /\ runtimeChs # {}
     /\ IF waiting = runtimeChs
          THEN runtimeChs' = {} /\ pullCall' = WithRuntimeClosed /\ UNCHANGED mu
          ELSE /\ mu' = "stuck" /\ UNCHANGED runtimeChs
               /\ \E first \in SUBSET waiting : pullCall' = RuntimeClosedFor(first)
     /\ UNCHANGED <<sts, stsChanges, runtimeReady, models, closedChs, panicked>>

ReconcileReady ==
  /\ Locks /\ sts = "ready" /\ ~runtimeReady
  /\ runtimeReady' = TRUE /\ runtimeChs' = {} /\ pullCall' = WithRuntimeClosed
  /\ UNCHANGED <<sts, stsChanges, models, closedChs, mu, panicked>>

\* Kubernetes and the autoscaler.
StsChanges ==
  /\ stsChanges < MaxStsChanges /\ stsChanges' = stsChanges + 1
  /\ \/ sts \in {"pending", "unschedulable"} /\ sts' = "ready"
     \/ sts = "pending" /\ sts' = "unschedulable"
     \/ sts = "ready" /\ sts' \in {"gone", "zero"}
     \/ sts = "zero" /\ sts' = "pending"
  /\ UNCHANGED <<runtimeReady, runtimeChs, models, closedChs, mu, pullCall, panicked>>

OllamaReconcile == ReconcileDeleted \/ ReconcileScaledToZero \/ ReconcileUnschedulable \/ ReconcileReady

OllamaNext ==
  \/ \E c \in PullCalls : \/ PullModel(c) \/ ResumeWithRuntime(c) \/ ResumeWithModel(c)
                          \/ SendPull(c) \/ ShowModel(c) \/ BecomeReady(c) \/ CallerLeaves(c)
  \/ \E m \in OllamaModels : DeleteModel(m)
  \/ ModelDeleted \/ OllamaReconcile \/ StsChanges

OllamaSpec == OllamaInit /\ [][OllamaNext]_ollamaVars
-----------------------------------------------------------------------------
(***************************************************************************)
(* Nobody is forgotten: a call that waits for the runtime waits on a       *)
(* channel that the runtime, which is not ready, still holds; one that     *)
(* waits for a model is held by the model, which is still being pulled     *)
(* and neither deleted nor swept away (ollama_manager.go 81-88, 135-143,   *)
(* 172-181, 249-256, 284-346).                                             *)
(***************************************************************************)
NoWaiterIsForgotten ==
  \A c \in PullCalls :
    /\ pullCall[c] = "waitRuntime" => c \in runtimeChs /\ ~runtimeReady
    /\ pullCall[c] = "waitModel" /\ ~panicked =>
         LET e == models[ModelOfCall[c]] IN e.known /\ ~e.ready /\ c \in e.waitChs /\ c \notin closedChs

(***************************************************************************)
(* No channel is closed twice, which panics: "waitChs is used when the     *)
(* model is not ready." (ollama_manager.go:55).                            *)
(***************************************************************************)
ChannelsAreClosedOnce == ~panicked

===============================================================================
