----------------------------- MODULE PartsProofs -----------------------------
(***************************************************************************)
(* Theorems about the components of the engine that are modelled on their  *)
(* own, one section for each, and about all the components side by side:   *)
(* no step of any of them leaves the types.                                *)
(***************************************************************************)
EXTENDS MCParts, ServerPartsProofs

(***************************************************************************)
(* The Ollama manager, for any calls and models.                           *)
(*                                                                         *)
(* The inductive invariant.  A model holds only the channels of calls for  *)
(* it, and a call that has not yet come to wait for its model has a        *)
(* channel that no model holds and nobody has closed; so the channel is    *)
(* open when it begins to wait there, and what is closed for one model     *)
(* wakes nobody who waits for another.                                     *)
(***************************************************************************)
WaitsForRuntime ==
  \A c \in PullCalls : pullCall[c] = "waitRuntime" => c \in runtimeChs /\ ~runtimeReady

WaitsForModel ==
  \A c \in PullCalls :
    pullCall[c] = "waitModel" /\ ~panicked =>
      /\ models[ModelOfCall[c]].known /\ ~models[ModelOfCall[c]].ready
      /\ c \in models[ModelOfCall[c]].waitChs /\ c \notin closedChs

ChannelsAreOfModel ==
  \A m \in OllamaModels : \A c \in models[m].waitChs : ModelOfCall[c] = m

NewChannelIsOpen ==
  \A c \in PullCalls :
    pullCall[c] \in {"none", "waitRuntime", "runtimeClosed"} =>
      c \notin closedChs /\ \A m \in OllamaModels : c \notin models[m].waitChs

OllamaInv ==
  OllamaTypeOK /\ WaitsForRuntime /\ WaitsForModel /\ ChannelsAreOfModel /\ NewChannelIsOpen

LEMMA InitOllama == OllamaInit => OllamaInv
<1>1. Missing \in [known : BOOLEAN, ready : BOOLEAN, waitChs : SUBSET PullCalls]
  BY DEF Missing
<1>2. ASSUME OllamaInit PROVE OllamaTypeOK
  <2>1. models \in [OllamaModels -> [known : BOOLEAN, ready : BOOLEAN, waitChs : SUBSET PullCalls]]
    BY <1>1, <1>2 DEF OllamaInit
  <2>2. stsChanges \in 0..MaxStsChanges
    BY <1>2, OllamaAssumption DEF OllamaInit
  <2> QED
    BY <1>2, <2>1, <2>2 DEF OllamaInit, OllamaTypeOK
<1>3. ASSUME OllamaInit PROVE WaitsForRuntime /\ WaitsForModel
  BY <1>3 DEF OllamaInit, WaitsForRuntime, WaitsForModel
<1>4. ASSUME OllamaInit PROVE ChannelsAreOfModel /\ NewChannelIsOpen
  <2>1. \A m \in OllamaModels : models[m].waitChs = {}
    BY <1>4 DEF OllamaInit, Missing
  <2> QED
    BY <1>4, <2>1 DEF OllamaInit, ChannelsAreOfModel, NewChannelIsOpen
<1> QED
  BY <1>2, <1>3, <1>4 DEF OllamaInv

LEMMA OllamaUnchanged ==
  ASSUME OllamaInv, UNCHANGED ollamaVars
  PROVE  OllamaInv'
BY DEF OllamaInv, ollamaVars, OllamaTypeOK, WaitsForRuntime, WaitsForModel, ChannelsAreOfModel,
       NewChannelIsOpen

\* The entries of models that the actions write.
LEMMA EntriesOfModels ==
  ASSUME OllamaInv, NEW m \in OllamaModels
  PROVE  /\ [models EXCEPT ![m] = Pulling0] \in [OllamaModels -> [known : BOOLEAN, ready : BOOLEAN, waitChs : SUBSET PullCalls]]
         /\ [models EXCEPT ![m] = Missing] \in [OllamaModels -> [known : BOOLEAN, ready : BOOLEAN, waitChs : SUBSET PullCalls]]
         /\ [models EXCEPT ![m].ready = TRUE] \in [OllamaModels -> [known : BOOLEAN, ready : BOOLEAN, waitChs : SUBSET PullCalls]]
         /\ \A c \in PullCalls : [models EXCEPT ![m].waitChs = @ \cup {c}] \in [OllamaModels -> [known : BOOLEAN, ready : BOOLEAN, waitChs : SUBSET PullCalls]]
<1>1. models \in [OllamaModels -> [known : BOOLEAN, ready : BOOLEAN, waitChs : SUBSET PullCalls]]
  BY DEF OllamaInv, OllamaTypeOK
<1>2. /\ Missing \in [known : BOOLEAN, ready : BOOLEAN, waitChs : SUBSET PullCalls]
      /\ Pulling0 \in [known : BOOLEAN, ready : BOOLEAN, waitChs : SUBSET PullCalls]
  BY DEF Missing, Pulling0
<1> QED
  BY <1>1, <1>2

\* A call that comes to its model pulls it, or waits on its open channel.
LEMMA PullOrWaitKeeps ==
  ASSUME OllamaInv, ~panicked, NEW c \in PullCalls, pullCall[c] \in {"none", "runtimeClosed"},
         PullOrWait(c),
         UNCHANGED <<sts, stsChanges, runtimeReady, runtimeChs, closedChs, mu, panicked>>
  PROVE  OllamaInv'
<1> DEFINE m == ModelOfCall[c]
<1>0. m \in OllamaModels
  BY OllamaAssumption
<1>1. CASE /\ ~models[m].known /\ models' = [models EXCEPT ![m] = Pulling0]
           /\ pullCall' = [pullCall EXCEPT ![c] = "pull"]
  <2>1. OllamaTypeOK'
    BY <1>0, <1>1, EntriesOfModels DEF OllamaInv, OllamaTypeOK
  <2> QED
    BY <1>0, <1>1, <2>1
       DEF OllamaInv, OllamaTypeOK, WaitsForRuntime, WaitsForModel, ChannelsAreOfModel,
           NewChannelIsOpen, Pulling0
<1>2. CASE pullCall' = [pullCall EXCEPT ![c] = "ok"] /\ UNCHANGED models
  BY <1>2 DEF OllamaInv, OllamaTypeOK, WaitsForRuntime, WaitsForModel, ChannelsAreOfModel,
              NewChannelIsOpen
<1>3. CASE /\ models[m].known /\ ~models[m].ready
           /\ models' = [models EXCEPT ![m].waitChs = @ \cup {c}]
           /\ pullCall' = [pullCall EXCEPT ![c] = "waitModel"]
  <2>1. OllamaTypeOK'
    BY <1>0, <1>3, EntriesOfModels DEF OllamaInv, OllamaTypeOK
  <2>2. models'[m] = [models[m] EXCEPT !.waitChs = @ \cup {c}]
        /\ \A n \in OllamaModels : n # m => models'[n] = models[n]
    BY <1>0, <1>3 DEF OllamaInv, OllamaTypeOK
  <2>3. /\ models'[m].waitChs = models[m].waitChs \cup {c}
        /\ models'[m].known = models[m].known /\ models'[m].ready = models[m].ready
    BY <1>0, <2>2 DEF OllamaInv, OllamaTypeOK
  <2>4. c \notin closedChs
    BY DEF OllamaInv, NewChannelIsOpen
  <2>5. WaitsForModel'
    BY <1>3, <2>2, <2>3, <2>4 DEF OllamaInv, OllamaTypeOK, WaitsForModel
  <2>6. ChannelsAreOfModel' /\ NewChannelIsOpen' /\ WaitsForRuntime'
    BY <1>0, <1>3, <2>2, <2>3
       DEF OllamaInv, OllamaTypeOK, WaitsForRuntime, ChannelsAreOfModel, NewChannelIsOpen
  <2> QED
    BY <2>1, <2>5, <2>6 DEF OllamaInv
<1> QED
  BY <1>1, <1>2, <1>3 DEF PullOrWait, Goes

LEMMA PullKeeps ==
  ASSUME OllamaInv, NEW c \in PullCalls, PullModel(c)
  PROVE  OllamaInv'
<1>1. CASE runtimeReady /\ PullOrWait(c) /\ UNCHANGED runtimeChs
  BY <1>1, PullOrWaitKeeps DEF PullModel, Locks
<1>2. CASE /\ ~runtimeReady /\ runtimeChs' = runtimeChs \cup {c} /\ UNCHANGED models
           /\ pullCall' = [pullCall EXCEPT ![c] = "waitRuntime"]
  BY <1>2 DEF PullModel, OllamaInv, OllamaTypeOK, WaitsForRuntime, WaitsForModel,
              ChannelsAreOfModel, NewChannelIsOpen
<1> QED
  BY <1>1, <1>2 DEF PullModel, Goes

\* A step of a call that waits for nobody changes nothing else.
LEMMA CallGoes ==
  ASSUME OllamaInv, NEW c \in PullCalls, NEW to \in {"pull", "show", "shown", "ok", "failed"},
         pullCall' = [pullCall EXCEPT ![c] = to],
         UNCHANGED <<sts, stsChanges, runtimeReady, runtimeChs, models, closedChs, mu, panicked>>
  PROVE  OllamaInv'
BY DEF OllamaInv, OllamaTypeOK, WaitsForRuntime, WaitsForModel, ChannelsAreOfModel, NewChannelIsOpen

LEMMA ResumeKeeps ==
  ASSUME OllamaInv, NEW c \in PullCalls, ResumeWithRuntime(c) \/ ResumeWithModel(c)
  PROVE  OllamaInv'
<1>0. ModelOfCall[c] \in OllamaModels
  BY OllamaAssumption
<1>1. CASE ResumeWithRuntime(c)
  <2>1. CASE PullOrWait(c)
    BY <1>1, <2>1, PullOrWaitKeeps DEF ResumeWithRuntime, Locks
  <2>2. CASE pullCall' = [pullCall EXCEPT ![c] = "failed"] /\ UNCHANGED models
    BY <1>1, <2>2, CallGoes DEF ResumeWithRuntime
  <2> QED
    BY <1>1, <2>1, <2>2 DEF ResumeWithRuntime, Goes
<1>2. CASE ResumeWithModel(c)
  <2>1. PICK to \in {"pull", "ok"} : pullCall' = [pullCall EXCEPT ![c] = to]
    BY <1>2 DEF ResumeWithModel, Goes
  <2>2. UNCHANGED <<sts, stsChanges, runtimeReady, runtimeChs, closedChs, mu, panicked>>
        /\ ~panicked
    BY <1>2 DEF ResumeWithModel, Locks
  <2>3. CASE UNCHANGED models
    BY <2>1, <2>2, <2>3, CallGoes
  <2>4. CASE ~models[ModelOfCall[c]].known
             /\ models' = [models EXCEPT ![ModelOfCall[c]] = Pulling0]
    <3>1. OllamaTypeOK'
      BY <1>0, <2>1, <2>2, <2>4, EntriesOfModels DEF OllamaInv, OllamaTypeOK
    <3> QED
      BY <1>0, <2>1, <2>2, <2>4, <3>1
         DEF OllamaInv, OllamaTypeOK, WaitsForRuntime, WaitsForModel, ChannelsAreOfModel,
             NewChannelIsOpen, Pulling0
  <2> QED
    BY <1>2, <2>3, <2>4 DEF ResumeWithModel
<1> QED
  BY <1>1, <1>2

LEMMA LoneStepKeeps ==
  ASSUME OllamaInv, NEW c \in PullCalls, SendPull(c) \/ ShowModel(c) \/ CallerLeaves(c)
  PROVE  OllamaInv'
BY CallGoes DEF SendPull, ShowModel, CallerLeaves, Goes

\* A model becomes ready and closes the channels that it holds.
LEMMA BecomeReadyKeeps ==
  ASSUME OllamaInv, NEW c \in PullCalls, BecomeReady(c)
  PROVE  OllamaInv'
<1> DEFINE m == ModelOfCall[c]
           ends == [pullCall EXCEPT ![c] = "ok"]
<1>0. m \in OllamaModels
  BY OllamaAssumption
<1>1. UNCHANGED <<sts, stsChanges, runtimeReady, runtimeChs, mu>>
  BY DEF BecomeReady
<1>2. CASE pullCall' = ends /\ UNCHANGED <<models, closedChs, panicked>>
  BY <1>1, <1>2, CallGoes
<1>3. CASE CloseChs(models[m].waitChs, ends) /\ models' = [models EXCEPT ![m].ready = TRUE]
  <2>1. /\ models'[m] = [models[m] EXCEPT !.ready = TRUE]
        /\ \A n \in OllamaModels : n # m => models'[n] = models[n]
    BY <1>0, <1>3 DEF OllamaInv, OllamaTypeOK
  <2>2. \A n \in OllamaModels : models'[n].waitChs = models[n].waitChs
    BY <1>0, <2>1 DEF OllamaInv, OllamaTypeOK
  <2>3. models[m].waitChs \subseteq PullCalls /\ ends \in [PullCalls -> {"none", "waitRuntime",
          "runtimeClosed", "waitModel", "modelClosed", "pull", "show", "shown", "ok", "failed"}]
    BY <1>0 DEF OllamaInv, OllamaTypeOK
  <2>4. /\ closedChs' = closedChs \cup models[m].waitChs
        /\ pullCall' = [d \in PullCalls |->
             IF d \in models[m].waitChs /\ ends[d] = "waitModel" THEN "modelClosed" ELSE ends[d]]
    BY <1>3 DEF CloseChs
  <2>5. panicked' \in BOOLEAN /\ (panicked => panicked')
    BY <1>3 DEF CloseChs, OllamaInv, OllamaTypeOK
  <2>6. OllamaTypeOK'
    BY <1>0, <1>1, <1>3, <2>3, <2>4, <2>5, EntriesOfModels DEF OllamaInv, OllamaTypeOK
  <2>7. \A d \in PullCalls : \/ pullCall'[d] = pullCall[d] /\ (d # c)
                             \/ pullCall'[d] \in {"ok", "modelClosed"}
    BY <2>4 DEF OllamaInv, OllamaTypeOK
  <2>8. ASSUME NEW d \in PullCalls, pullCall'[d] = "waitModel", ~panicked'
        PROVE  /\ ModelOfCall[d] # m /\ pullCall[d] = "waitModel"
               /\ models[ModelOfCall[d]].known /\ ~models[ModelOfCall[d]].ready
               /\ d \in models[ModelOfCall[d]].waitChs /\ d \notin closedChs
    <3>1. pullCall[d] = "waitModel" /\ d # c
      BY <2>7, <2>8
    <3>2. d \notin models[m].waitChs
      BY <2>4, <2>8, <3>1
    <3> QED
      BY <2>5, <2>8, <3>1, <3>2 DEF OllamaInv, WaitsForModel
  <2>9. WaitsForModel'
    <3>1. ASSUME NEW d \in PullCalls, pullCall'[d] = "waitModel", ~panicked'
          PROVE  /\ models'[ModelOfCall[d]].known /\ ~models'[ModelOfCall[d]].ready
                 /\ d \in models'[ModelOfCall[d]].waitChs /\ d \notin closedChs'
      <4>1. ModelOfCall[d] \in OllamaModels
        BY OllamaAssumption
      <4>2. d \notin models[m].waitChs
        BY <1>0, <2>8, <3>1 DEF OllamaInv, ChannelsAreOfModel
      <4> QED
        BY <2>1, <2>4, <2>8, <3>1, <4>1, <4>2
    <3> QED
      BY <3>1 DEF WaitsForModel
  <2>10. WaitsForRuntime' /\ ChannelsAreOfModel'
    BY <1>1, <2>2, <2>7 DEF OllamaInv, WaitsForRuntime, ChannelsAreOfModel
  <2>11. NewChannelIsOpen'
    BY <1>0, <2>2, <2>4, <2>7 DEF OllamaInv, NewChannelIsOpen
  <2> QED
    BY <2>6, <2>9, <2>10, <2>11 DEF OllamaInv
<1> QED
  BY <1>2, <1>3 DEF BecomeReady

LEMMA DeleteModelKeeps ==
  ASSUME OllamaInv, NEW m \in OllamaModels, DeleteModel(m)
  PROVE  OllamaInv'
<1>1. /\ models' = [models EXCEPT ![m] = Missing] /\ mu' = m
      /\ UNCHANGED <<sts, stsChanges, runtimeReady, runtimeChs>>
      /\ ~panicked
  BY DEF DeleteModel, Locks
<1>2. /\ \A n \in OllamaModels : n # m => models'[n] = models[n]
      /\ models'[m].waitChs = {}
  BY <1>1 DEF OllamaInv, OllamaTypeOK, Missing
<1>3. CASE models[m].ready /\ UNCHANGED <<closedChs, panicked, pullCall>>
  <2>1. OllamaTypeOK'
    BY <1>1, <1>3, EntriesOfModels DEF OllamaInv, OllamaTypeOK
  <2> QED
    BY <1>1, <1>2, <1>3, <2>1, OllamaAssumption
       DEF OllamaInv, WaitsForRuntime, WaitsForModel, ChannelsAreOfModel, NewChannelIsOpen
<1>4. CASE ~models[m].ready /\ CloseChs(models[m].waitChs, pullCall)
  <2>1. /\ closedChs' = closedChs \cup models[m].waitChs
        /\ pullCall' = [d \in PullCalls |->
             IF d \in models[m].waitChs /\ pullCall[d] = "waitModel" THEN "modelClosed" ELSE pullCall[d]]
        /\ panicked' \in BOOLEAN
    BY <1>4 DEF CloseChs, OllamaInv, OllamaTypeOK
  <2>2. models[m].waitChs \subseteq PullCalls
    BY DEF OllamaInv, OllamaTypeOK
  <2>3. OllamaTypeOK'
    BY <1>1, <2>1, <2>2, EntriesOfModels DEF OllamaInv, OllamaTypeOK
  <2>4. \A d \in PullCalls : pullCall'[d] = pullCall[d] \/ pullCall'[d] = "modelClosed"
    BY <2>1
  <2>5. WaitsForRuntime' /\ ChannelsAreOfModel' /\ NewChannelIsOpen'
    BY <1>1, <1>2, <2>1, <2>4
       DEF OllamaInv, WaitsForRuntime, ChannelsAreOfModel, NewChannelIsOpen
  <2>6. ASSUME NEW d \in PullCalls, pullCall'[d] = "waitModel"
        PROVE  /\ models'[ModelOfCall[d]].known /\ ~models'[ModelOfCall[d]].ready
               /\ d \in models'[ModelOfCall[d]].waitChs /\ d \notin closedChs'
    <3>1. pullCall[d] = "waitModel" /\ d \notin models[m].waitChs
      BY <2>1, <2>6
    <3>2. ModelOfCall[d] # m /\ ModelOfCall[d] \in OllamaModels
      BY <1>1, <3>1, OllamaAssumption DEF OllamaInv, WaitsForModel
    <3> QED
      BY <1>1, <1>2, <2>1, <3>1, <3>2 DEF OllamaInv, WaitsForModel
  <2> QED
    BY <2>3, <2>5, <2>6 DEF OllamaInv, WaitsForModel
<1> QED
  BY <1>3, <1>4 DEF DeleteModel

\* All models are swept away; their channels are closed.
LEMMA CleanupKeeps ==
  ASSUME OllamaInv, NEW calls,
         calls = pullCall \/ calls = WithRuntimeClosed,
         CleanupModels(calls),
         \A c \in PullCalls : calls[c] # "waitRuntime" \/ c \in runtimeChs',
         ~panicked, runtimeReady' = FALSE, runtimeChs' \subseteq PullCalls,
         sts' \in {"gone", "zero", "pending", "unschedulable", "ready"}, UNCHANGED <<stsChanges, mu>>
  PROVE  OllamaInv'
<1> DEFINE chs == UNION {models[m].waitChs : m \in OllamaModels}
<1>1. /\ closedChs' = closedChs \cup chs
      /\ models' = [m \in OllamaModels |-> Missing]
      /\ pullCall' = [c \in PullCalls |->
           IF c \in chs /\ calls[c] = "waitModel" THEN "modelClosed" ELSE calls[c]]
      /\ panicked' \in BOOLEAN
  BY DEF CleanupModels, CloseChs, OllamaInv, OllamaTypeOK
<1>2. chs \subseteq PullCalls /\ \A m \in OllamaModels : models[m].waitChs \subseteq chs
  BY DEF OllamaInv, OllamaTypeOK
<1>3. \A c \in PullCalls : \/ calls[c] = pullCall[c]
                           \/ pullCall[c] = "waitRuntime" /\ calls[c] = "runtimeClosed"
  BY DEF WithRuntimeClosed, RuntimeClosedFor
<1>4. Missing \in [known : BOOLEAN, ready : BOOLEAN, waitChs : SUBSET PullCalls]
  BY DEF Missing
<1>5. OllamaTypeOK'
  BY <1>1, <1>2, <1>3, <1>4 DEF OllamaInv, OllamaTypeOK
<1>6. \A c \in PullCalls : calls[c] = "waitModel" => c \in chs
  BY <1>2, <1>3, OllamaAssumption DEF OllamaInv, WaitsForModel
<1>7. WaitsForModel'
  BY <1>1, <1>6 DEF WaitsForModel
<1>8. WaitsForRuntime'
  BY <1>1 DEF WaitsForRuntime
<1>9. ChannelsAreOfModel'
  BY <1>1 DEF ChannelsAreOfModel, Missing
<1>10. \A c \in PullCalls : pullCall[c] \in {"none", "waitRuntime", "runtimeClosed"} => c \notin chs
  BY DEF OllamaInv, NewChannelIsOpen
<1>11. NewChannelIsOpen'
  BY <1>1, <1>3, <1>10 DEF OllamaInv, NewChannelIsOpen, Missing
<1> QED
  BY <1>5, <1>7, <1>8, <1>9, <1>11 DEF OllamaInv

LEMMA ReconcileKeeps ==
  ASSUME OllamaInv, OllamaReconcile
  PROVE  OllamaInv'
<1>1. CASE ReconcileDeleted
  <2>1. \A c \in PullCalls : WithRuntimeClosed[c] # "waitRuntime"
    BY DEF WithRuntimeClosed, RuntimeClosedFor, OllamaInv, WaitsForRuntime
  <2> QED
    BY <1>1, <2>1, CleanupKeeps DEF ReconcileDeleted, Locks
<1>2. CASE ReconcileScaledToZero
  <2>1. \A c \in PullCalls : pullCall[c] # "waitRuntime"
    BY <1>2 DEF ReconcileScaledToZero, OllamaInv, WaitsForRuntime
  <2> QED
    BY <1>2, <2>1, CleanupKeeps DEF ReconcileScaledToZero, Locks, OllamaInv, OllamaTypeOK
<1>3. CASE ReconcileUnschedulable
  <2>1. PICK chs \in SUBSET PullCalls : pullCall' = RuntimeClosedFor(chs)
    BY <1>3 DEF ReconcileUnschedulable, WithRuntimeClosed, OllamaInv, OllamaTypeOK
  <2>2. /\ UNCHANGED <<sts, stsChanges, runtimeReady, models, closedChs, panicked>>
        /\ mu' = "stuck" \/ mu' = mu
        /\ runtimeChs' = runtimeChs \/ (runtimeChs' = {} /\ pullCall' = WithRuntimeClosed)
    BY <1>3 DEF ReconcileUnschedulable
  <2>3. \A c \in PullCalls : \/ pullCall'[c] = pullCall[c]
                             \/ pullCall[c] = "waitRuntime" /\ pullCall'[c] = "runtimeClosed"
    BY <2>1 DEF RuntimeClosedFor
  <2>4. OllamaTypeOK'
    BY <2>1, <2>2, <2>3 DEF OllamaInv, OllamaTypeOK, RuntimeClosedFor
  <2>5. WaitsForRuntime'
    <3>1. CASE runtimeChs' = runtimeChs
      BY <2>2, <2>3, <3>1 DEF OllamaInv, WaitsForRuntime
    <3>2. CASE pullCall' = WithRuntimeClosed
      BY <2>2, <3>2 DEF OllamaInv, WaitsForRuntime, WithRuntimeClosed, RuntimeClosedFor
    <3> QED
      BY <2>2, <3>1, <3>2
  <2> QED
    BY <2>2, <2>3, <2>4, <2>5
       DEF OllamaInv, WaitsForModel, ChannelsAreOfModel, NewChannelIsOpen
<1>4. CASE ReconcileReady
  BY <1>4 DEF ReconcileReady, WithRuntimeClosed, RuntimeClosedFor, OllamaInv, OllamaTypeOK,
              WaitsForRuntime, WaitsForModel, ChannelsAreOfModel, NewChannelIsOpen
<1> QED
  BY <1>1, <1>2, <1>3, <1>4 DEF OllamaReconcile

LEMMA OllamaStep ==
  ASSUME OllamaInv, [OllamaNext]_ollamaVars
  PROVE  OllamaInv'
<1>1. ASSUME NEW c \in PullCalls,
             \/ PullModel(c) \/ ResumeWithRuntime(c) \/ ResumeWithModel(c)
             \/ SendPull(c) \/ ShowModel(c) \/ BecomeReady(c) \/ CallerLeaves(c)
      PROVE  OllamaInv'
  BY <1>1, PullKeeps, ResumeKeeps, LoneStepKeeps, BecomeReadyKeeps
<1>2. CASE \E m \in OllamaModels : DeleteModel(m)
  BY <1>2, DeleteModelKeeps
<1>3. CASE ModelDeleted
  BY <1>3 DEF ModelDeleted, OllamaInv, OllamaTypeOK, WaitsForRuntime, WaitsForModel,
              ChannelsAreOfModel, NewChannelIsOpen
<1>4. CASE OllamaReconcile
  BY <1>4, ReconcileKeeps
<1>5. CASE StsChanges
  BY <1>5, OllamaAssumption
     DEF StsChanges, OllamaInv, OllamaTypeOK, WaitsForRuntime, WaitsForModel,
         ChannelsAreOfModel, NewChannelIsOpen
<1>6. CASE UNCHANGED ollamaVars
  BY <1>6, OllamaUnchanged
<1> QED
  BY <1>1, <1>2, <1>3, <1>4, <1>5, <1>6 DEF OllamaNext

(***************************************************************************)
(* For any calls and models, a call of PullModel that waits, for the       *)
(* runtime or for its model, is held by what it waits for, which is under  *)
(* way, and nobody has closed its channel (ollama_manager.go 81-88,        *)
(* 135-143, 172-181, 249-256, 284-346).                                    *)
(***************************************************************************)
THEOREM OllamaWaiters == OllamaSpec => []NoWaiterIsForgotten
<1>1. OllamaInv => NoWaiterIsForgotten
  BY DEF OllamaInv, WaitsForRuntime, WaitsForModel, NoWaiterIsForgotten
<1> QED
  BY <1>1, InitOllama, OllamaStep, PTL DEF OllamaSpec
-----------------------------------------------------------------------------
(***************************************************************************)
(* The puller, for any models and files, and any number of failures.       *)
(*                                                                         *)
(* The inductive invariant.  What is being written belongs to a model that *)
(* is not complete, so no file of a complete one is truncated again; the   *)
(* files of the model in work that are no longer listed are whole; and a   *)
(* fine-tuned model is in work only when its base model is complete.       *)
(***************************************************************************)
VolumeShape ==
  /\ completed \subseteq Models /\ pullCh \in Seq(Models)
  /\ files = [m \in Models |-> files[m]]
  /\ \A m \in Models : files[m] \in [FilesOf(m) -> {"absent", "partial", "whole"}]
  /\ \A m \in Models : bucket[m] \subseteq Optional[m]

ModelsInWork ==
  \/ todo = <<>>
  \/ \E m \in Models : todo = ToDownload(m)
  \/ \E m \in DOMAIN BaseModelOf : todo = <<m>> /\ BaseModelOf[m] \in completed

StageIsOfHead ==
  /\ stage # "check" => todo # <<>>
  /\ stage = "modelfile" => Head(todo) \in completed
  /\ writing # NoFile => stage = "files" /\ writing \in listed
  /\ stage = "files" =>
       /\ listed \subseteq FilesOf(Head(todo)) /\ Head(todo) \notin completed
       /\ \A f \in Required[Head(todo)] \cup bucket[Head(todo)] :
            f \in listed \/ files[Head(todo)][f] = "whole"

PullerInv == VolumeShape /\ ModelsInWork /\ StageIsOfHead /\ CompletedIsWhole

\* A pull begins with a model that needs no other.
LEMMA FirstToDownload ==
  ASSUME NEW m \in Models
  PROVE  /\ ToDownload(m) # <<>> /\ Head(ToDownload(m)) \in Models \ DOMAIN BaseModelOf
         /\ m \notin DOMAIN BaseModelOf => ToDownload(m) = <<m>>
         /\ m \in DOMAIN BaseModelOf =>
              ToDownload(m) = <<BaseModelOf[m], m>> /\ Head(ToDownload(m)) = BaseModelOf[m]
BY PullerAssumption DEF ToDownload

\* What is in work, and that its base model is complete.
LEMMA HeadInWork ==
  ASSUME ModelsInWork, todo # <<>>
  PROVE  /\ Head(todo) \in Models
         /\ Head(todo) \in DOMAIN BaseModelOf => BaseModelOf[Head(todo)] \in completed
<1>1. CASE \E m \in Models : todo = ToDownload(m)
  BY <1>1, FirstToDownload
<1>2. CASE \E m \in DOMAIN BaseModelOf : todo = <<m>> /\ BaseModelOf[m] \in completed
  BY <1>2, PullerAssumption
<1> QED
  BY <1>1, <1>2 DEF ModelsInWork

\* What is left of a pull when its first model is complete.
LEMMA RestInWork ==
  ASSUME ModelsInWork, todo # <<>>, Head(todo) \in completed
  PROVE  \/ Tail(todo) = <<>>
         \/ \E m \in DOMAIN BaseModelOf : Tail(todo) = <<m>> /\ BaseModelOf[m] \in completed
<1>1. ASSUME NEW m \in Models, todo = ToDownload(m)
      PROVE  \/ Tail(todo) = <<>>
             \/ m \in DOMAIN BaseModelOf /\ Tail(todo) = <<m>> /\ BaseModelOf[m] \in completed
  <2>1. CASE m \in DOMAIN BaseModelOf
    <3>1. todo = <<BaseModelOf[m], m>> /\ Head(todo) = BaseModelOf[m]
      BY <1>1, <2>1, FirstToDownload
    <3>2. Tail(todo) = <<m>>
      BY <3>1
    <3> QED
      BY <2>1, <3>1, <3>2
  <2>2. CASE m \notin DOMAIN BaseModelOf
    <3>1. todo = <<m>>
      BY <1>1, <2>2, FirstToDownload
    <3> QED
      BY <3>1
  <2> QED
    BY <2>1, <2>2
<1>2. CASE \E m \in DOMAIN BaseModelOf : todo = <<m>> /\ BaseModelOf[m] \in completed
  BY <1>2
<1> QED
  BY <1>1, <1>2 DEF ModelsInWork

LEMMA PreloadedQueue ==
  ASSUME NEW s \in Preloaded
  PROVE  s \in Seq(Models)
<1>1. CASE s = <<>>
  BY <1>1, EmptySeq
<1>2. CASE s = <<PreloadedModel>>
  BY <1>2, PullerAssumption
<1> QED
  BY <1>1, <1>2 DEF Preloaded

LEMMA InitPuller == PullerInit => PullerInv
<1> SUFFICES ASSUME PullerInit PROVE PullerInv
  OBVIOUS
<1>1. completed = {} /\ stage = "check" /\ writing = NoFile
  BY DEF PullerInit
<1>2. pullCh \in Seq(Models)
  BY PreloadedQueue DEF PullerInit
<1>3. files = [m \in Models |-> [f \in FilesOf(m) |-> "absent"]]
  BY DEF PullerInit
<1>4. VolumeShape
  BY <1>1, <1>2, <1>3 DEF PullerInit, VolumeShape
<1>5. ModelsInWork
  BY PullerAssumption DEF PullerInit, ModelsInWork
<1> QED
  BY <1>1, <1>4, <1>5 DEF PullerInv, StageIsOfHead, CompletedIsWhole

LEMMA PullerUnchanged ==
  ASSUME PullerInv, UNCHANGED <<pullVars, files, completed, bucket>>, pullCh' \in Seq(Models)
  PROVE  PullerInv'
BY DEF PullerInv, pullVars, VolumeShape, ModelsInWork, StageIsOfHead, CompletedIsWhole

LEMMA RequestKeeps ==
  ASSUME PullerInv, NEW m \in Models, PullRequest(m)
  PROVE  PullerInv'
<1>1. pullCh' \in Seq(Models)
  BY DEF PullRequest, PullerInv, VolumeShape
<1> QED
  BY <1>1, PullerUnchanged DEF PullRequest, volumeVars

LEMMA ProcessKeeps ==
  ASSUME PullerInv, ProcessPullRequest
  PROVE  PullerInv'
<1>1. todo = <<>> /\ pullCh # <<>> /\ todo' = ToDownload(Head(pullCh)) /\ pullCh' = Tail(pullCh)
      /\ UNCHANGED <<stage, listed, writing, volumeVars, bucket>>
  BY DEF ProcessPullRequest
<1>2. Head(pullCh) \in Models /\ Tail(pullCh) \in Seq(Models)
  BY <1>1 DEF PullerInv, VolumeShape
<1>3. stage = "check" /\ writing = NoFile
  BY <1>1 DEF PullerInv, StageIsOfHead
<1>4. ModelsInWork'
  BY <1>1, <1>2 DEF ModelsInWork
<1>5. VolumeShape' /\ CompletedIsWhole'
  BY <1>1, <1>2 DEF volumeVars, PullerInv, VolumeShape, CompletedIsWhole
<1> QED
  BY <1>1, <1>3, <1>4, <1>5 DEF PullerInv, StageIsOfHead

LEMMA CheckKeeps ==
  ASSUME PullerInv, CheckCompletion
  PROVE  PullerInv'
<1>1. /\ todo # <<>> /\ stage = "check"
      /\ UNCHANGED <<pullCh, todo, writing, volumeVars, bucket>>
  BY DEF CheckCompletion
<1>2. VolumeShape' /\ ModelsInWork' /\ CompletedIsWhole'
  BY <1>1 DEF volumeVars, PullerInv, VolumeShape, ModelsInWork, CompletedIsWhole
<1>3. writing = NoFile
  BY <1>1 DEF PullerInv, StageIsOfHead
<1>4. CASE Head(todo) \in completed /\ stage' = "modelfile"
  BY <1>1, <1>2, <1>3, <1>4 DEF volumeVars, PullerInv, StageIsOfHead
<1>5. CASE Head(todo) \notin completed /\ stage' = "files" /\ listed' = FilesOf(Head(todo))
  <2>1. Head(todo) \in Models
    BY <1>1, HeadInWork DEF PullerInv
  <2>2. Required[Head(todo)] \cup bucket[Head(todo)] \subseteq FilesOf(Head(todo))
    BY <2>1 DEF PullerInv, VolumeShape, FilesOf
  <2> QED
    BY <1>1, <1>2, <1>3, <1>5, <2>2 DEF volumeVars, PullerInv, StageIsOfHead
<1> QED
  BY <1>4, <1>5 DEF CheckCompletion

\* A file of the model in work changes: no complete model is touched.
LEMMA FileChanges ==
  ASSUME PullerInv, stage = "files", NEW f \in listed, NEW st \in {"absent", "partial", "whole"},
         files' = [files EXCEPT ![Head(todo)][f] = st],
         UNCHANGED <<pullCh, todo, stage, completed, bucket>>
  PROVE  /\ VolumeShape' /\ ModelsInWork' /\ CompletedIsWhole'
         /\ files'[Head(todo)][f] = st
         /\ \A g \in FilesOf(Head(todo)) : g # f => files'[Head(todo)][g] = files[Head(todo)][g]
<1> DEFINE m == Head(todo)
<1>1. todo # <<>> /\ m \notin completed /\ f \in FilesOf(m)
  BY DEF PullerInv, StageIsOfHead
<1>2. m \in Models
  BY <1>1, HeadInWork DEF PullerInv
<1>3. files = [n \in Models |-> files[n]] /\ files[m] \in [FilesOf(m) -> {"absent", "partial", "whole"}]
  BY <1>2 DEF PullerInv, VolumeShape
<1>4. /\ files'[m] = [files[m] EXCEPT ![f] = st]
      /\ \A n \in Models : n # m => files'[n] = files[n]
      /\ files' = [n \in Models |-> files'[n]]
  BY <1>2, <1>3
<1>5. /\ files'[m] \in [FilesOf(m) -> {"absent", "partial", "whole"}]
      /\ files'[m][f] = st /\ \A g \in FilesOf(m) : g # f => files'[m][g] = files[m][g]
  BY <1>1, <1>3, <1>4
<1>6. VolumeShape'
  BY <1>4, <1>5 DEF PullerInv, VolumeShape
<1>7. CompletedIsWhole'
  <2>1. \A n \in completed : n \in Models /\ files'[n] = files[n]
    BY <1>1, <1>4 DEF PullerInv, VolumeShape
  <2> QED
    BY <2>1 DEF PullerInv, CompletedIsWhole
<1> QED
  BY <1>5, <1>6, <1>7 DEF PullerInv, ModelsInWork

LEMMA CreateKeeps ==
  ASSUME PullerInv, CreateFile
  PROVE  PullerInv'
<1>1. /\ stage = "files" /\ writing' \in listed
      /\ files' = [files EXCEPT ![Head(todo)][writing'] = "partial"]
      /\ UNCHANGED <<pullCh, todo, stage, listed, completed, bucket>>
  BY DEF CreateFile
<1>2. /\ VolumeShape' /\ ModelsInWork' /\ CompletedIsWhole'
      /\ \A g \in FilesOf(Head(todo)) : g # writing' => files'[Head(todo)][g] = files[Head(todo)][g]
  <2>1. PICK f \in listed : f = writing'
    BY <1>1
  <2> QED
    BY <1>1, <2>1, FileChanges
<1>3. todo # <<>> /\ Head(todo) \in Models
  BY <1>1, HeadInWork DEF PullerInv, StageIsOfHead
<1>4. Required[Head(todo)] \cup bucket[Head(todo)] \subseteq FilesOf(Head(todo))
  BY <1>3 DEF PullerInv, VolumeShape, FilesOf
<1> QED
  BY <1>1, <1>2, <1>4 DEF PullerInv, StageIsOfHead

LEMMA DownloadKeeps ==
  ASSUME PullerInv, DownloadFile
  PROVE  PullerInv'
<1> DEFINE m == Head(todo)
           st == IF writing \in Required[m] \cup bucket[m] THEN "whole" ELSE "absent"
<1>1. /\ writing # NoFile /\ files' = [files EXCEPT ![m][writing] = st]
      /\ listed' = listed \ {writing} /\ writing' = NoFile
      /\ UNCHANGED <<pullCh, todo, stage, completed, bucket>>
  BY DEF DownloadFile
<1>2. stage = "files" /\ writing \in listed
  BY <1>1 DEF PullerInv, StageIsOfHead
<1>3. st \in {"absent", "partial", "whole"}
  OBVIOUS
<1>4. /\ VolumeShape' /\ ModelsInWork' /\ CompletedIsWhole'
      /\ files'[m][writing] = st
      /\ \A g \in FilesOf(m) : g # writing => files'[m][g] = files[m][g]
  <2> HIDE DEF st
  <2> QED
    BY <1>1, <1>2, <1>3, FileChanges
<1>5. todo # <<>> /\ m \in Models
  BY <1>2, HeadInWork DEF PullerInv, StageIsOfHead
<1>6. Required[m] \cup bucket[m] \subseteq FilesOf(m)
  BY <1>5 DEF PullerInv, VolumeShape, FilesOf
<1>7. \A f \in Required[m] \cup bucket[m] : f \in listed' \/ files'[m][f] = "whole"
  <2>1. ASSUME NEW f \in Required[m] \cup bucket[m], f \notin listed' PROVE files'[m][f] = "whole"
    <3>1. CASE f = writing
      BY <1>4, <2>1, <3>1
    <3>2. CASE f # writing
      <4>1. f \notin listed /\ f \in FilesOf(m)
        BY <1>1, <1>6, <2>1, <3>2
      <4> QED
        BY <1>2, <1>4, <2>1, <3>2, <4>1 DEF PullerInv, StageIsOfHead
    <3> QED
      BY <3>1, <3>2
  <2> QED
    BY <2>1
<1>8. StageIsOfHead'
  BY <1>1, <1>2, <1>7 DEF PullerInv, StageIsOfHead
<1> QED
  BY <1>4, <1>8 DEF PullerInv

LEMMA IndicateKeeps ==
  ASSUME PullerInv, IndicateCompletion
  PROVE  PullerInv'
<1>1. /\ stage = "files" /\ listed = {}
      /\ completed' = completed \cup {Head(todo)} /\ stage' = "modelfile"
      /\ UNCHANGED <<pullCh, todo, listed, writing, files, bucket>>
  BY DEF IndicateCompletion
<1>2. todo # <<>> /\ writing = NoFile
  BY <1>1 DEF PullerInv, StageIsOfHead
<1>3. Head(todo) \in Models /\ (Head(todo) \in DOMAIN BaseModelOf => BaseModelOf[Head(todo)] \in completed)
  BY <1>2, HeadInWork DEF PullerInv
<1>4. VolumeShape' /\ ModelsInWork'
  BY <1>1, <1>3 DEF PullerInv, VolumeShape, ModelsInWork
<1>5. StageIsOfHead'
  BY <1>1, <1>2 DEF StageIsOfHead
<1>6. \A f \in Required[Head(todo)] \cup bucket[Head(todo)] : files[Head(todo)][f] = "whole"
  BY <1>1 DEF PullerInv, StageIsOfHead
<1>7. CompletedIsWhole'
  BY <1>1, <1>3, <1>6 DEF PullerInv, CompletedIsWhole
<1> QED
  BY <1>4, <1>5, <1>7 DEF PullerInv

LEMMA ModelfileKeeps ==
  ASSUME PullerInv, CreateModelfile
  PROVE  PullerInv'
<1>1. /\ stage = "modelfile" /\ todo' = Tail(todo) /\ stage' = "check"
      /\ UNCHANGED <<pullCh, listed, writing, files, completed, bucket>>
  BY DEF CreateModelfile
<1>2. todo # <<>> /\ Head(todo) \in completed /\ writing = NoFile
  BY <1>1 DEF PullerInv, StageIsOfHead
<1>3. ModelsInWork'
  BY <1>1, <1>2, RestInWork DEF PullerInv, ModelsInWork
<1>4. VolumeShape' /\ CompletedIsWhole'
  BY <1>1 DEF PullerInv, VolumeShape, CompletedIsWhole
<1> QED
  BY <1>1, <1>2, <1>3, <1>4 DEF PullerInv, StageIsOfHead

LEMMA RestartKeeps ==
  ASSUME PullerInv, PullerRestarts
  PROVE  PullerInv'
<1>1. pullCh' \in Seq(Models)
  <2>1. PICK s \in Preloaded : pullCh' = s
    BY DEF PullerRestarts
  <2> QED
    BY <2>1, PreloadedQueue
<1>2. ModelsInWork'
  BY PullerAssumption DEF PullerRestarts, ModelsInWork
<1>3. VolumeShape' /\ CompletedIsWhole'
  BY <1>1 DEF PullerRestarts, volumeVars, PullerInv, VolumeShape, CompletedIsWhole
<1> QED
  BY <1>2, <1>3 DEF PullerRestarts, PullerInv, StageIsOfHead

LEMMA PullerStep ==
  ASSUME PullerInv, [PullerNext]_pullerVars
  PROVE  PullerInv'
<1>1. CASE Pull
  BY <1>1, ProcessKeeps, CheckKeeps, CreateKeeps, DownloadKeeps, IndicateKeeps, ModelfileKeeps,
     RestartKeeps DEF Pull
<1>2. CASE PullFails \/ UNCHANGED pullerVars
  <2>1. pullCh' \in Seq(Models)
    BY <1>2 DEF PullFails, pullerVars, PullerInv, VolumeShape
  <2> QED
    BY <1>2, <2>1, PullerUnchanged DEF PullFails, pullerVars, volumeVars
<1>3. CASE \E m \in Models : PullRequest(m)
  BY <1>3, RequestKeeps
<1> QED
  BY <1>1, <1>2, <1>3 DEF PullerNext

(***************************************************************************)
(* Whatever attempts fail, and wherever the process is restarted, a model  *)
(* with a completion indication file is there in full, with its base model *)
(* (modeldownloader.go 80-148, puller.go 131-160).                         *)
(***************************************************************************)
THEOREM CompletionIsTrue == PullerSpec => []CompletedIsWhole
<1>1. PullerInv => CompletedIsWhole
  BY DEF PullerInv
<1> QED
  BY <1>1, InitPuller, PullerStep, PTL DEF PullerSpec
-----------------------------------------------------------------------------
(***************************************************************************)
(* Deployed pods (RuntimePod), for any number of replicas and changes.     *)
(*                                                                         *)
(* The inductive invariant.  A pod that pulls on its own has come past the *)
(* puller with its models, and to its runtime with what that names.  One   *)
(* that does not was created beside a first pod that was ready: on the     *)
(* shared volume, so that the models are there until the claim goes with   *)
(* all pods, or on another one, and then the set has been moved.           *)
(***************************************************************************)
PodShape ==
  /\ deployment \in Deployments /\ template \in Volumes /\ moved \in BOOLEAN
  /\ podAt \in [Indexes -> Stages] /\ podVolume \in [Indexes -> Volumes]
  /\ ownFiles \in [Indexes -> SUBSET Content] /\ sharedFiles \subseteq Content

PullersHavePulled ==
  \A i \in Indexes :
    podAt[i] \in {"init", "runtime", "ready"} /\ ~Daemon /\ Pulls(i) =>
      \A m \in Range(ModelAndBase) : Pulled(m) \in FilesIn(i)

PullersHaveNamed ==
  \A i \in Indexes : podAt[i] \in {"runtime", "ready"} /\ Pulls(i) => Named \subseteq FilesIn(i)

SharedIsPulled ==
  \A i \in Indexes :
    i # 0 /\ Running(i) /\ podVolume[i] = "shared" => moved \/ Named \subseteq sharedFiles

MoveIsNoted == template = "shared" /\ Running(0) /\ podVolume[0] # "shared" => moved

PodInv == PodShape /\ PullersHavePulled /\ PullersHaveNamed /\ SharedIsPulled /\ MoveIsNoted

LEMMA FirstIndex == 0 \in Indexes /\ Indexes \subseteq Nat
BY RuntimePodAssumption DEF Indexes

LEMMA ModelsOfDeployment ==
  /\ Range(ModelAndBase) = IF deployment.model = "tuned" THEN {"base", "tuned"}
                           ELSE IF deployment.model = "base" THEN {"base"} ELSE {}
  /\ \A k \in DOMAIN ModelAndBase : ModelAndBase[k] \in {"base", "tuned"}
BY DEF ModelAndBase, Range

\* What a runtime names is what its init containers have seen to, if the
\* puller has pulled the models or is a daemon.
LEMMA NamedIsThere ==
  ASSUME deployment \in Deployments, NEW F, InitContainerEnds(deployment, F),
         ~Daemon => \A m \in Range(ModelAndBase) : Pulled(m) \in F
  PROVE  Named \subseteq F
<1>1. /\ deployment.runtime \in {"vllm", "sglang", "triton", "ollama"}
      /\ deployment.model \in {"base", "tuned", "none"}
      /\ deployment.adapter => deployment.model = "tuned"
      /\ deployment.runtime \in {"sglang", "triton"} => deployment.model = "base" /\ ~deployment.dynamic
      /\ deployment.runtime = "vllm" => deployment.model # "none" /\ ~(deployment.adapter /\ deployment.dynamic)
      /\ deployment.runtime = "ollama" => (deployment.dynamic <=> deployment.model = "none")
  BY DEF Deployments
<1>2. CASE deployment.model = "none"
  BY <1>2 DEF Named
<1>3. CASE deployment.model # "none" /\ deployment.runtime = "ollama"
  <2>1. ~Daemon
    BY <1>1, <1>3 DEF Daemon
  <2>2. \A m \in Range(ModelAndBase) : Pulled(m) \in F => Created(m) \in F
    BY <1>3, <2>1 DEF InitContainerEnds, Daemon
  <2> QED
    BY <1>3, <2>1, <2>2 DEF Named
<1>4. CASE deployment.model # "none" /\ deployment.runtime # "ollama" /\ deployment.adapter
  <2>1. ~Daemon
    BY <1>1, <1>4 DEF Daemon
  <2> QED
    BY <1>4, <2>1 DEF Named
<1>5. CASE deployment.model # "none" /\ deployment.runtime # "ollama" /\ ~deployment.adapter
  <2>1. Pulled(deployment.model) \in F
    <3>1. CASE deployment.dynamic
      <4>1. deployment.runtime = "vllm"
        BY <1>1, <1>5, <3>1
      <4> QED
        BY <3>1, <4>1 DEF InitContainerEnds
    <3>2. CASE ~deployment.dynamic
      <4>1. deployment.model \in Range(ModelAndBase)
        BY <1>1, <1>5, ModelsOfDeployment
      <4> QED
        BY <3>2, <4>1 DEF Daemon
    <3> QED
      BY <3>1, <3>2
  <2> QED
    BY <1>5, <2>1 DEF Named
<1> QED
  BY <1>2, <1>3, <1>4, <1>5

LEMMA InitPod == PodInit => PodInv
<1> SUFFICES ASSUME PodInit PROVE PodInv
  OBVIOUS
<1>1. PodShape
  BY DEF PodInit, PodShape, Stages
<1>2. \A i \in Indexes : podAt[i] = "none"
  BY DEF PodInit
<1> QED
  BY <1>1, <1>2, FirstIndex
     DEF PodInv, PullersHavePulled, PullersHaveNamed, SharedIsPulled, MoveIsNoted, Running

\* A container writes to the volume of its pod.
LEMMA WritingKeeps ==
  ASSUME PodInv, NEW i \in Indexes, NEW c \in Content, Write(i, c),
         UNCHANGED <<deployment, template, podAt, podVolume, moved>>
  PROVE  PodInv'
<1>1. PodShape'
  BY DEF PodInv, PodShape, Write
<1>2. sharedFiles \subseteq sharedFiles' /\ \A j \in Indexes : ownFiles[j] \subseteq ownFiles'[j]
  BY DEF PodInv, PodShape, Write
<1>3. \A j \in Indexes : FilesIn(j) \subseteq FilesIn(j)' /\ (Pulls(j)' <=> Pulls(j))
                         /\ (Running(j)' <=> Running(j))
  BY <1>2 DEF FilesIn, Pulls, Running
<1>4. ModelAndBase' = ModelAndBase /\ Named' = Named /\ (Daemon' <=> Daemon)
  BY DEF ModelAndBase, Named, Daemon
<1>5. PullersHavePulled'
  BY <1>3, <1>4 DEF PodInv, PullersHavePulled
<1>6. PullersHaveNamed'
  BY <1>3, <1>4 DEF PodInv, PullersHaveNamed
<1>7. SharedIsPulled'
  BY <1>2, <1>3, <1>4 DEF PodInv, SharedIsPulled
<1>8. MoveIsNoted'
  BY <1>3, FirstIndex DEF PodInv, MoveIsNoted
<1> QED
  BY <1>1, <1>5, <1>6, <1>7, <1>8 DEF PodInv

LEMMA PullingKeeps ==
  ASSUME PodInv, NEW i \in Indexes, PullerPulls(i)
  PROVE  PodInv'
<1>1. PICK k \in DOMAIN ModelAndBase : Write(i, Pulled(ModelAndBase[k]))
  BY DEF PullerPulls
<1>2. Pulled(ModelAndBase[k]) \in Content
  BY ModelsOfDeployment DEF Pulled, Content
<1> QED
  BY <1>1, <1>2, WritingKeeps DEF PullerPulls

LEMMA CreatingKeeps ==
  ASSUME PodInv, NEW i \in Indexes, OllamaCreates(i)
  PROVE  PodInv'
<1>1. PICK m \in Range(ModelAndBase) : Write(i, Created(m))
  BY DEF OllamaCreates
<1>2. Created(m) \in Content
  BY ModelsOfDeployment DEF Created, Content
<1> QED
  BY <1>1, <1>2, WritingKeeps DEF OllamaCreates

\* A pod comes to its next container.
LEMMA EnteringKeeps ==
  ASSUME PodInv, NEW i \in Indexes, NEW container \in {"init", "runtime", "ready"},
         Running(i), Enter(i, container),
         UNCHANGED <<deployment, template, podVolume, ownFiles, sharedFiles>>, moved' \in BOOLEAN,
         ~Daemon /\ Pulls(i) => \A m \in Range(ModelAndBase) : Pulled(m) \in FilesIn(i),
         container # "init" /\ Pulls(i) => Named \subseteq FilesIn(i),
         moved /\ ~moved' => Named \subseteq sharedFiles /\ podVolume[0] = "shared"
  PROVE  PodInv'
<1>1. PodShape'
  BY DEF PodInv, PodShape, Enter, Stages
<1>2. podAt'[i] = container /\ \A j \in Indexes : j # i => podAt'[j] = podAt[j]
  BY DEF PodInv, PodShape, Enter
<1>3. \A j \in Indexes : FilesIn(j)' = FilesIn(j) /\ (Pulls(j)' <=> Pulls(j))
  BY DEF FilesIn, Pulls
<1>4. \A j \in Indexes : Running(j)' <=> Running(j)
  BY <1>2 DEF Running
<1>5. ModelAndBase' = ModelAndBase /\ Named' = Named /\ (Daemon' <=> Daemon)
  BY DEF ModelAndBase, Named, Daemon
<1>6. PullersHavePulled'
  BY <1>2, <1>3, <1>5 DEF PodInv, PullersHavePulled
<1>7. PullersHaveNamed'
  BY <1>2, <1>3, <1>5 DEF PodInv, PullersHaveNamed
<1>8. SharedIsPulled'
  BY <1>4, <1>5 DEF PodInv, PodShape, SharedIsPulled
<1>9. MoveIsNoted'
  BY <1>4, FirstIndex DEF PodInv, PodShape, MoveIsNoted
<1> QED
  BY <1>1, <1>6, <1>7, <1>8, <1>9 DEF PodInv

LEMMA PullerDoneKeeps ==
  ASSUME PodInv, NEW i \in Indexes, PullerDone(i)
  PROVE  PodInv'
<1>1. /\ Running(i) /\ Enter(i, "init")
      /\ UNCHANGED <<deployment, template, podVolume, ownFiles, sharedFiles, moved>>
      /\ ~Daemon /\ Pulls(i) => \A m \in Range(ModelAndBase) : Pulled(m) \in FilesIn(i)
  BY DEF PullerDone, Running
<1> QED
  BY <1>1, EnteringKeeps DEF PodInv, PodShape

LEMMA StartKeeps ==
  ASSUME PodInv, NEW i \in Indexes, RuntimeStarts(i)
  PROVE  PodInv'
<1>1. /\ podAt[i] = "init" /\ Enter(i, "runtime") /\ InitContainerEnds(deployment, FilesIn(i))
      /\ UNCHANGED <<deployment, template, podVolume, ownFiles, sharedFiles, moved>>
  BY DEF RuntimeStarts
<1>2. ~Daemon /\ Pulls(i) => \A m \in Range(ModelAndBase) : Pulled(m) \in FilesIn(i)
  BY <1>1 DEF PodInv, PullersHavePulled
<1>3. Pulls(i) => Named \subseteq FilesIn(i)
  BY <1>1, <1>2, NamedIsThere DEF PodInv, PodShape
<1>4. Running(i)
  BY <1>1 DEF Running
<1> QED
  BY <1>1, <1>2, <1>3, <1>4, EnteringKeeps DEF PodInv, PodShape

LEMMA ReadyKeeps ==
  ASSUME PodInv, NEW i \in Indexes, PodGetsReady(i)
  PROVE  PodInv'
<1>1. /\ podAt[i] = "runtime" /\ Enter(i, "ready") /\ Named \subseteq FilesIn(i)
      /\ UNCHANGED <<deployment, template, podVolume, ownFiles, sharedFiles>>
      /\ moved' \in BOOLEAN
  BY DEF PodGetsReady
<1>2. ~Daemon /\ Pulls(i) => \A m \in Range(ModelAndBase) : Pulled(m) \in FilesIn(i)
  BY <1>1 DEF PodInv, PullersHavePulled
<1>3. moved /\ ~moved' => Named \subseteq sharedFiles /\ podVolume[0] = "shared"
  BY <1>1 DEF PodGetsReady, FilesIn
<1>4. Running(i)
  BY <1>1 DEF Running
<1> QED
  BY <1>1, <1>2, <1>3, <1>4, EnteringKeeps

\* A pod that shares its volume is created when the first one is ready.
LEMMA AppearingKeeps ==
  ASSUME PodInv, NEW i \in Indexes, PodAppears(i)
  PROVE  PodInv'
<1>1. /\ podAt[i] = "none" /\ Enter(i, "puller") /\ podVolume' = [podVolume EXCEPT ![i] = template]
      /\ \A j \in 0..(i - 1) : podAt[j] = "ready"
      /\ UNCHANGED <<deployment, template, ownFiles, sharedFiles, moved>>
  BY DEF PodAppears
<1>2. PodShape'
  BY <1>1 DEF PodInv, PodShape, Enter, Stages
<1>3. /\ podAt'[i] = "puller" /\ podVolume'[i] = template
      /\ \A j \in Indexes : j # i => podAt'[j] = podAt[j] /\ podVolume'[j] = podVolume[j]
  BY <1>1 DEF PodInv, PodShape, Enter
<1>4. \A j \in Indexes : j # i => FilesIn(j)' = FilesIn(j) /\ (Pulls(j)' <=> Pulls(j))
                                  /\ (Running(j)' <=> Running(j))
  BY <1>1, <1>3 DEF FilesIn, Pulls, Running
<1>5. ModelAndBase' = ModelAndBase /\ Named' = Named /\ (Daemon' <=> Daemon)
  BY <1>1 DEF ModelAndBase, Named, Daemon
<1>6. PullersHavePulled'
  BY <1>3, <1>4, <1>5 DEF PodInv, PullersHavePulled
<1>7. PullersHaveNamed'
  BY <1>3, <1>4, <1>5 DEF PodInv, PullersHaveNamed
<1>8. MoveIsNoted'
  <2>1. CASE i = 0
    BY <1>1, <1>3, <2>1 DEF MoveIsNoted
  <2>2. CASE i # 0
    BY <1>1, <1>3, <1>4, <2>2, FirstIndex DEF PodInv, MoveIsNoted
  <2> QED
    BY <2>1, <2>2
<1>9. ASSUME i # 0, template = "shared"
      PROVE  moved \/ Named \subseteq sharedFiles
  <2>1. podAt[0] = "ready" /\ 0 \in Indexes
    BY <1>1, <1>9, FirstIndex
  <2>2. Running(0) /\ Pulls(0)
    BY <2>1 DEF Running, Pulls
  <2>3. Named \subseteq FilesIn(0)
    BY <2>1, <2>2 DEF PodInv, PullersHaveNamed
  <2> QED
    BY <1>9, <2>2, <2>3 DEF PodInv, MoveIsNoted, FilesIn
<1>10. SharedIsPulled'
  <2> SUFFICES ASSUME NEW j \in Indexes, j # 0, Running(j)', podVolume'[j] = "shared"
               PROVE  moved' \/ Named' \subseteq sharedFiles'
    BY DEF SharedIsPulled
  <2>1. CASE j = i
    BY <1>1, <1>3, <1>5, <1>9, <2>1
  <2>2. CASE j # i
    BY <1>1, <1>3, <1>4, <1>5, <2>2 DEF PodInv, SharedIsPulled
  <2> QED
    BY <2>1, <2>2
<1> QED
  BY <1>2, <1>6, <1>7, <1>8, <1>10 DEF PodInv

\* Pods go.
LEMMA GoingKeeps ==
  ASSUME PodInv, NEW S, Gone(S), UNCHANGED <<deployment, template, podVolume, sharedFiles, moved>>
  PROVE  PodInv'
<1>1. PodShape'
  BY DEF PodInv, PodShape, Gone, Stages
<1>2. \A j \in Indexes : podAt'[j] # "none" => podAt'[j] = podAt[j] /\ ownFiles'[j] = ownFiles[j]
  BY DEF PodInv, PodShape, Gone
<1>3. \A j \in Indexes : Pulls(j)' <=> Pulls(j)
  BY DEF Pulls
<1>4. \A j \in Indexes : Running(j)' => Running(j) /\ FilesIn(j)' = FilesIn(j)
  BY <1>2 DEF Running, FilesIn
<1>5. ModelAndBase' = ModelAndBase /\ Named' = Named /\ (Daemon' <=> Daemon)
  BY DEF ModelAndBase, Named, Daemon
<1>6. PullersHavePulled'
  BY <1>2, <1>3, <1>4, <1>5 DEF PodInv, PullersHavePulled, Running
<1>7. PullersHaveNamed'
  BY <1>2, <1>3, <1>4, <1>5 DEF PodInv, PullersHaveNamed, Running
<1>8. SharedIsPulled'
  BY <1>4, <1>5 DEF PodInv, SharedIsPulled
<1>9. MoveIsNoted'
  BY <1>4, FirstIndex DEF PodInv, MoveIsNoted
<1> QED
  BY <1>1, <1>6, <1>7, <1>8, <1>9 DEF PodInv

\* All pods go, and with them the claim.
LEMMA ReplacementKeeps ==
  ASSUME PodInv, SetIsReplaced
  PROVE  PodInv'
<1>1. PodShape'
  BY DEF PodInv, PodShape, SetIsReplaced, Gone, Stages
<1>2. \A j \in Indexes : podAt'[j] = "none"
  BY DEF SetIsReplaced, Gone
<1> QED
  BY <1>1, <1>2, FirstIndex
     DEF PodInv, PullersHavePulled, PullersHaveNamed, SharedIsPulled, MoveIsNoted, Running

LEMMA ReconfigurationKeeps ==
  ASSUME PodInv, VolumeIsReconfigured
  PROVE  PodInv'
<1>1. /\ template' \in {"emptyDir", "shared"} /\ moved' = (moved \/ template' = "shared")
      /\ UNCHANGED <<deployment, podAt, podVolume, ownFiles, sharedFiles>>
  BY DEF VolumeIsReconfigured
<1>2. PodShape'
  BY <1>1 DEF PodInv, PodShape, Volumes
<1>3. /\ \A j \in Indexes : FilesIn(j)' = FilesIn(j) /\ (Pulls(j)' <=> Pulls(j))
                            /\ (Running(j)' <=> Running(j))
      /\ ModelAndBase' = ModelAndBase /\ Named' = Named /\ (Daemon' <=> Daemon)
  BY <1>1 DEF FilesIn, Pulls, Running, ModelAndBase, Named, Daemon
<1>4. PullersHavePulled' /\ PullersHaveNamed'
  BY <1>1, <1>3 DEF PodInv, PullersHavePulled, PullersHaveNamed
<1>5. SharedIsPulled' /\ MoveIsNoted'
  BY <1>1, <1>3 DEF PodInv, SharedIsPulled, MoveIsNoted
<1> QED
  BY <1>2, <1>4, <1>5 DEF PodInv

LEMMA PodStep == PodInv /\ [PodNext]_podVars => PodInv'
<1> SUFFICES ASSUME PodInv, [PodNext]_podVars PROVE PodInv'
  OBVIOUS
<1>1. ASSUME NEW i \in Indexes, PullerPulls(i) \/ OllamaCreates(i)
      PROVE  PodInv'
  BY <1>1, PullingKeeps, CreatingKeeps
<1>2. ASSUME NEW i \in Indexes, PullerDone(i) \/ RuntimeStarts(i) \/ PodGetsReady(i)
      PROVE  PodInv'
  BY <1>2, PullerDoneKeeps, StartKeeps, ReadyKeeps
<1>3. ASSUME NEW i \in Indexes, PodAppears(i)
      PROVE  PodInv'
  BY <1>3, AppearingKeeps
<1>4. ASSUME NEW i \in Indexes, PodIsDeleted(i)
      PROVE  PodInv'
  BY <1>4, GoingKeeps DEF PodIsDeleted
<1>5. ASSUME NEW n \in 0..NumPods, SetIsScaled(n)
      PROVE  PodInv'
  BY <1>5, GoingKeeps DEF SetIsScaled
<1>6. CASE SetIsReplaced \/ VolumeIsReconfigured
  BY <1>6, ReplacementKeeps, ReconfigurationKeeps
<1>7. CASE UNCHANGED podVars
  BY <1>7 DEF podVars, PodInv, PodShape, PullersHavePulled, PullersHaveNamed, SharedIsPulled,
     MoveIsNoted, Running, Pulls, FilesIn, Named, ModelAndBase, Daemon
<1> QED
  BY <1>1, <1>2, <1>3, <1>4, <1>5, <1>6, <1>7 DEF PodNext

(***************************************************************************)
(* For any number of replicas and any changes of the set, a runtime is     *)
(* started with every model it names on its volume, with the exception of  *)
(* a set that is being moved to a shared volume (client.go 189-231,        *)
(* pull.go 34-37, vllm_client.go 225-240).                                 *)
(***************************************************************************)
THEOREM RuntimesHaveModels == PodSpec => []RuntimeHasItsModel
<1>1. PodInv => RuntimeHasItsModel
  <2> SUFFICES ASSUME PodInv, NEW i \in Indexes, podAt[i] \in {"runtime", "ready"}
               PROVE  Named \subseteq FilesIn(i) \/ (moved /\ i > 0 /\ podVolume[i] = "shared")
    BY DEF RuntimeHasItsModel
  <2>1. CASE Pulls(i)
    BY <2>1 DEF PodInv, PullersHaveNamed
  <2>2. CASE ~Pulls(i)
    <3>1. i > 0 /\ i # 0 /\ podVolume[i] = "shared"
      BY <2>2, FirstIndex DEF Pulls, ForcePull
    <3>2. Running(i)
      BY DEF Running
    <3> QED
      BY <3>1, <3>2 DEF PodInv, SharedIsPulled, FilesIn
  <2> QED
    BY <2>1, <2>2
<1> QED
  BY <1>1, InitPod, PodStep, PTL DEF PodSpec
-----------------------------------------------------------------------------
(***************************************************************************)
(* Requests to the pods of a runtime (RuntimeRequests), for any tasks,     *)
(* pods, number of attempts and duration of the blacklist.                 *)
(*                                                                         *)
(* The inductive invariant.  What has answered a task all the time can be  *)
(* picked and answers now; unless nothing has, or a blacklisting was       *)
(* forgotten, the task has failed at as many addresses as it has made      *)
(* attempts, all of them blacklisted and none of them among the first, and *)
(* the address it tries now is another one.                                *)
(***************************************************************************)
AttemptRecord ==
  [at : {"pull", "get", "do", "blacklist", "done"}, attempt : Nat, addr : Pods \cup {0},
   status : HttpStatuses]

RequestShape ==
  /\ llm \in {"absent", "pending", "ready"} /\ addresses \subseteq Pods
  /\ llm # "ready" => addresses = {}
  /\ blacklisted \in [Pods -> Nat] /\ nextTarget \in Nat
  /\ attempts \in [RuntimeTasks -> AttemptRecord]
  /\ \A t \in RuntimeTasks : /\ At1(t, "pull") => attempts[t].attempt = 0
                             /\ At1(t, "do") \/ At1(t, "blacklist") => attempts[t].addr \in Pods
  /\ answering \in [RuntimeTasks -> SUBSET Pods] /\ forgotten \in [RuntimeTasks -> BOOLEAN]

AnsweringCanBePicked ==
  \A t \in RuntimeTasks : Trying(t) => answering[t] \subseteq Candidates /\ answering[t] \subseteq live

\* The addresses at which the task has failed.
FailedAt(t, S) ==
  /\ S \subseteq Pods /\ IsFiniteSet(S) /\ Cardinality(S) = attempts[t].attempt
  /\ S \cap answering[t] = {} /\ \A a \in S : blacklisted[a] > 0
  /\ At1(t, "do") \/ At1(t, "blacklist") => attempts[t].addr \notin S
  /\ At1(t, "blacklist") => attempts[t].addr \notin answering[t]

AttemptsAreDistinct ==
  \A t \in RuntimeTasks :
    Trying(t) /\ ~forgotten[t] /\ answering[t] # {} => \E S \in SUBSET Pods : FailedAt(t, S)

RequestInv == RequestShape /\ AnsweringCanBePicked /\ AttemptsAreDistinct /\ LivePodIsReached

\* The address that the round robin picks is one of those it picks from.
LEMMA NthIsMember ==
  ASSUME NEW S, S \subseteq Nat, IsFiniteSet(S), NEW i \in Nat, i < Cardinality(S)
  PROVE  Nth(S, i) \in S
<1> DEFINE Below(a) == {b \in S : b < a}
           T == {a \in S : Cardinality(Below(a)) >= i}
<1>1. \A a \in S : Below(a) \subseteq S /\ IsFiniteSet(Below(a)) /\ Cardinality(Below(a)) \in Nat
  BY FS_Subset, FS_CardinalityType
<1>2. T # {}
  <2>1. S # {} /\ Cardinality(S) \in Nat
    BY FS_EmptySet, FS_CardinalityType
  <2>2. PICK x \in S : \A y \in S : y <= x
    BY <2>1, LargestOfFinite
  <2>3. Below(x) = S \ {x}
    <3>1. ASSUME NEW y \in S PROVE y < x <=> y # x
      <4>1. y \in Nat /\ x \in Nat /\ y <= x
        BY <2>2
      <4> QED
        BY <4>1
    <3> QED
      BY <3>1
  <2>4. Cardinality(Below(x)) = Cardinality(S) - 1
    BY <2>3, FS_RemoveElement
  <2>5. Cardinality(Below(x)) >= i
    BY <2>1, <2>4
  <2> QED
    BY <2>5
<1>3. PICK a \in T : \A y \in T : a <= y
  <2>1. T \subseteq S /\ IsFiniteSet(T)
    BY FS_Subset
  <2> HIDE DEF T
  <2> QED
    BY <1>2, <2>1, SmallestOfFinite
<1>4. Cardinality(Below(a)) = i
  <2> SUFFICES ASSUME Cardinality(Below(a)) > i PROVE FALSE
    BY <1>1
  <2>1. Below(a) # {} /\ Below(a) \subseteq Nat /\ IsFiniteSet(Below(a)) /\ Cardinality(Below(a)) \in Nat
    <3>1. Cardinality(Below(a)) # 0 /\ Cardinality(Below(a)) \in Nat
      BY <1>1
    <3> QED
      BY <1>1, <3>1, FS_EmptySet
  <2>2. PICK m \in Below(a) : \A y \in Below(a) : y <= m
    <3> HIDE DEF Below
    <3> QED
      BY <2>1, LargestOfFinite
  <2>3. Below(m) = Below(a) \ {m} /\ m \in S /\ m < a
    <3>1. m \in S /\ m < a /\ m \in Nat /\ a \in Nat
      BY <2>2
    <3>2. ASSUME NEW y \in S PROVE y < m <=> y < a /\ y # m
      <4>1. y \in Nat /\ (y < a => y <= m)
        BY <2>2
      <4> QED
        BY <3>1, <4>1
    <3> QED
      BY <3>1, <3>2
  <2>4. Cardinality(Below(m)) = Cardinality(Below(a)) - 1
    <3> HIDE DEF Below
    <3> QED
      BY <2>1, <2>3, FS_RemoveElement
  <2>5. Cardinality(Below(m)) >= i
    BY <2>1, <2>4
  <2>6. m \in T
    BY <2>3, <2>5
  <2>7. a <= m /\ a \in Nat /\ m \in Nat
    BY <1>3, <2>3, <2>6
  <2> QED
    BY <2>3, <2>7
<1> QED
  BY <1>3, <1>4 DEF Nth

LEMMA FailedStays ==
  ASSUME NEW t \in RuntimeTasks, NEW S \in SUBSET Pods, FailedAt(t, S),
         attempts'[t] = attempts[t], answering'[t] \subseteq answering[t],
         \A a \in Pods : blacklisted[a] > 0 => blacklisted'[a] > 0
  PROVE  FailedAt(t, S)'
BY DEF FailedAt, At1

\* The manager, a pod or the clock moves.
LEMMA ElsewhereKeeps ==
  ASSUME RequestInv, RequestShape', UNCHANGED attempts,
         \A t \in RuntimeTasks : /\ answering'[t] \subseteq answering[t]
                                 /\ forgotten[t] => forgotten'[t],
         \A t \in RuntimeTasks :
           Trying(t) => answering'[t] \subseteq Candidates' /\ answering'[t] \subseteq live',
         \A t \in RuntimeTasks :
           Trying(t) /\ ~forgotten'[t] => \A a \in Pods : blacklisted[a] > 0 => blacklisted'[a] > 0
  PROVE  RequestInv'
<1>1. \A t \in RuntimeTasks : Trying(t)' <=> Trying(t)
  BY DEF Trying
<1>2. AnsweringCanBePicked'
  BY <1>1 DEF AnsweringCanBePicked
<1>3. AttemptsAreDistinct'
  <2> SUFFICES ASSUME NEW t \in RuntimeTasks, Trying(t), ~forgotten'[t], answering'[t] # {}
               PROVE  \E S \in SUBSET Pods : FailedAt(t, S)'
    BY <1>1 DEF AttemptsAreDistinct
  <2>1. PICK S \in SUBSET Pods : FailedAt(t, S)
    BY DEF RequestInv, AttemptsAreDistinct
  <2> QED
    BY <2>1, FailedStays
<1>4. LivePodIsReached'
  BY DEF RequestInv, LivePodIsReached
<1> QED
  BY <1>2, <1>3, <1>4 DEF RequestInv

\* A task makes a step.
LEMMA TaskKeeps ==
  ASSUME RequestInv, RequestShape', NEW t \in RuntimeTasks,
         \A u \in RuntimeTasks : u # t => attempts'[u] = attempts[u],
         \A u \in RuntimeTasks : u # t => answering'[u] \subseteq answering[u],
         UNCHANGED forgotten,
         \A a \in Pods : blacklisted[a] > 0 => blacklisted'[a] > 0,
         \A u \in RuntimeTasks :
           Trying(u)' => answering'[u] \subseteq Candidates' /\ answering'[u] \subseteq live',
         Trying(t)' /\ ~forgotten[t] /\ answering'[t] # {} => \E S \in SUBSET Pods : FailedAt(t, S)',
         Cardinality(Pods) <= RuntimeRequestMaxRetries =>
           (attempts'[t].at = "done" /\ attempts'[t].attempt > 0 /\ attempts'[t].status = 500
            => forgotten[t] \/ answering'[t] = {})
  PROVE  RequestInv'
<1>1. AnsweringCanBePicked'
  BY DEF AnsweringCanBePicked
<1>2. AttemptsAreDistinct'
  <2> SUFFICES ASSUME NEW u \in RuntimeTasks, Trying(u)', ~forgotten[u], answering'[u] # {}
               PROVE  \E S \in SUBSET Pods : FailedAt(u, S)'
    BY DEF AttemptsAreDistinct
  <2>1. CASE u = t
    BY <2>1
  <2>2. CASE u # t
    <3>1. PICK S \in SUBSET Pods : FailedAt(u, S)
      BY <2>2 DEF RequestInv, AttemptsAreDistinct, Trying
    <3> QED
      BY <2>2, <3>1, FailedStays
  <2> QED
    BY <2>1, <2>2
<1>3. LivePodIsReached'
  <2> SUFFICES ASSUME Cardinality(Pods) <= RuntimeRequestMaxRetries, NEW u \in RuntimeTasks,
                      attempts'[u].at = "done", attempts'[u].attempt > 0, attempts'[u].status = 500
               PROVE  forgotten[u] \/ answering'[u] = {}
    BY DEF LivePodIsReached
  <2>1. CASE u = t
    BY <2>1
  <2>2. CASE u # t
    BY <2>2 DEF RequestInv, LivePodIsReached
  <2> QED
    BY <2>1, <2>2
<1> QED
  BY <1>1, <1>2, <1>3 DEF RequestInv

LEMMA InitRequests == RequestInit => RequestInv
<1> SUFFICES ASSUME RequestInit PROVE RequestInv
  OBVIOUS
<1>1. \A t \in RuntimeTasks : attempts[t] = NewTask
  BY DEF RequestInit
<1>2. RequestShape
  <2>1. NewTask \in AttemptRecord
    BY DEF NewTask, HttpStatuses, AttemptRecord
  <2>2. attempts \in [RuntimeTasks -> AttemptRecord]
    BY <2>1 DEF RequestInit
  <2>3. blacklisted \in [Pods -> Nat] /\ answering \in [RuntimeTasks -> SUBSET Pods]
        /\ forgotten \in [RuntimeTasks -> BOOLEAN]
    BY DEF RequestInit
  <2> QED
    BY <1>1, <2>2, <2>3 DEF RequestInit, RequestShape, At1, NewTask
<1>3. \A t \in RuntimeTasks : ~Trying(t) /\ attempts[t].at # "done"
  BY <1>1 DEF Trying, NewTask
<1> QED
  BY <1>2, <1>3 DEF RequestInv, AnsweringCanBePicked, AttemptsAreDistinct, LivePodIsReached

LEMMA CandidatesOfShape ==
  ASSUME RequestShape
  PROVE  /\ Candidates \subseteq addresses /\ Candidates \subseteq Pods /\ Candidates \subseteq Nat
         /\ IsFiniteSet(Pods) /\ IsFiniteSet(Candidates) /\ IsFiniteSet(addresses)
         /\ Cardinality(Candidates) \in Nat /\ Cardinality(addresses) \in Nat
         /\ Candidates # {} => Cardinality(Candidates) # 0
         /\ RuntimeRequestMaxRetries \in Nat \ {0} /\ BlacklistDuration \in Nat \ {0}
<1>1. Candidates \subseteq addresses /\ addresses \subseteq Pods /\ Pods \subseteq Nat /\ IsFiniteSet(Pods)
  BY RuntimeRequestsAssumption DEF RequestShape, Candidates
<1>2. IsFiniteSet(Candidates) /\ IsFiniteSet(addresses)
  BY <1>1, FS_Subset
<1> QED
  BY <1>1, <1>2, FS_CardinalityType, FS_EmptySet, RuntimeRequestsAssumption

LEMMA AttemptChanges ==
  ASSUME RequestShape, NEW t \in RuntimeTasks, NEW r \in AttemptRecord,
         attempts' = [attempts EXCEPT ![t] = r]
  PROVE  /\ attempts'[t] = r /\ \A u \in RuntimeTasks : u # t => attempts'[u] = attempts[u]
         /\ attempts' \in [RuntimeTasks -> AttemptRecord]
BY DEF RequestShape, AttemptRecord

LEMMA AttemptIsAnswered ==
  ASSUME RequestShape, NEW t \in RuntimeTasks, NEW status \in HttpStatuses, Answer(t, status)
  PROVE  /\ attempts'[t].at = "done" /\ attempts'[t].status = status
         /\ attempts'[t].attempt = attempts[t].attempt
         /\ \A u \in RuntimeTasks : u # t => attempts'[u] = attempts[u]
         /\ attempts' \in [RuntimeTasks -> AttemptRecord]
<1> DEFINE r == [attempts[t] EXCEPT !.at = "done", !.status = status, !.addr = 0]
<1>1. attempts[t] \in AttemptRecord
  BY DEF RequestShape, AttemptRecord
<1>2. /\ r \in AttemptRecord /\ r.at = "done" /\ r.status = status
      /\ r.attempt = attempts[t].attempt
  BY <1>1 DEF AttemptRecord
<1>3. attempts' = [attempts EXCEPT ![t] = r]
  BY DEF Answer
<1> HIDE DEF r
<1> QED
  BY <1>2, <1>3, AttemptChanges

LEMMA TaskGoesOn ==
  ASSUME RequestShape, NEW t \in RuntimeTasks, NEW at \in {"get", "do", "blacklist"}, GoTo(t, at)
  PROVE  /\ attempts'[t].at = at /\ attempts'[t].addr = attempts[t].addr
         /\ attempts'[t].attempt = attempts[t].attempt
         /\ \A u \in RuntimeTasks : u # t => attempts'[u] = attempts[u]
         /\ attempts' \in [RuntimeTasks -> AttemptRecord]
<1> DEFINE r == [attempts[t] EXCEPT !.at = at]
<1>1. attempts[t] \in AttemptRecord
  BY DEF RequestShape, AttemptRecord
<1>2. /\ r \in AttemptRecord /\ r.at = at /\ r.addr = attempts[t].addr
      /\ r.attempt = attempts[t].attempt
  BY <1>1 DEF AttemptRecord
<1>3. attempts' = [attempts EXCEPT ![t] = r]
  BY DEF GoTo
<1> HIDE DEF r
<1> QED
  BY <1>2, <1>3, AttemptChanges

\* A task that has its answer, and did not get it for a failed attempt.
LEMMA AnswerKeeps ==
  ASSUME RequestInv, NEW t \in RuntimeTasks, NEW status \in HttpStatuses, Answer(t, status),
         UNCHANGED <<llm, addrSetVars, live, answering, forgotten>>,
         attempts[t].attempt = 0 \/ status # 500 \/ answering[t] = {}
  PROVE  RequestInv'
<1>1. /\ attempts'[t].at = "done" /\ attempts'[t].status = status
      /\ attempts'[t].attempt = attempts[t].attempt
      /\ \A u \in RuntimeTasks : u # t => attempts'[u] = attempts[u]
      /\ attempts' \in [RuntimeTasks -> AttemptRecord]
  BY AttemptIsAnswered DEF RequestInv
<1>2. ~Trying(t)' /\ ~At1(t, "pull")' /\ ~At1(t, "do")' /\ ~At1(t, "blacklist")'
  BY <1>1 DEF Trying, At1
<1>3. RequestShape'
  BY <1>1, <1>2 DEF RequestInv, RequestShape, AttemptRecord, At1, addrSetVars
<1>4. Candidates' = Candidates
  BY DEF Candidates, addrSetVars
<1>5. \A u \in RuntimeTasks :
        Trying(u)' => answering'[u] \subseteq Candidates' /\ answering'[u] \subseteq live'
  BY <1>1, <1>2, <1>4 DEF RequestInv, AnsweringCanBePicked, Trying
<1> QED
  BY <1>1, <1>2, <1>3, <1>5, TaskKeeps DEF addrSetVars

LEMMA PullFirstKeeps ==
  ASSUME RequestInv, NEW t \in RuntimeTasks, PullFirst(t)
  PROVE  RequestInv'
<1>1. /\ At1(t, "pull") /\ attempts[t].attempt = 0
      /\ UNCHANGED <<llm, addresses, blacklisted, nextTarget, live, forgotten>>
  BY DEF PullFirst, RequestInv, RequestShape, addrSetVars
<1>2. Candidates' = Candidates /\ Candidates \subseteq Pods
  BY <1>1, CandidatesOfShape DEF Candidates, RequestInv
<1>3. CASE /\ llm = "ready" /\ GoTo(t, "get")
           /\ answering' = [answering EXCEPT ![t] = Candidates \cap live]
  <2>1. /\ attempts'[t].at = "get" /\ attempts'[t].attempt = 0
        /\ \A u \in RuntimeTasks : u # t => attempts'[u] = attempts[u]
        /\ attempts' \in [RuntimeTasks -> AttemptRecord]
    BY <1>1, <1>3, TaskGoesOn DEF RequestInv
  <2>2. attempts'[t].at = "get" /\ attempts'[t].attempt = 0
    BY <2>1
  <2>3. answering' \in [RuntimeTasks -> SUBSET Pods] /\ answering'[t] = Candidates \cap live
        /\ \A u \in RuntimeTasks : u # t => answering'[u] = answering[u]
    BY <1>2, <1>3 DEF RequestInv, RequestShape
  <2>4. RequestShape'
    BY <1>1, <2>1, <2>2, <2>3 DEF RequestInv, RequestShape, At1, AttemptRecord
  <2>5. FailedAt(t, {})'
    BY <2>2, FS_EmptySet DEF FailedAt, At1
  <2>6. \A u \in RuntimeTasks :
           Trying(u)' => answering'[u] \subseteq Candidates' /\ answering'[u] \subseteq live'
    BY <1>1, <1>2, <2>1, <2>3 DEF RequestInv, AnsweringCanBePicked, Trying
  <2>7. {} \in SUBSET Pods
    OBVIOUS
  <2> QED
    BY <1>1, <2>1, <2>2, <2>3, <2>4, <2>5, <2>6, <2>7, TaskKeeps
<1>4. CASE UNCHANGED answering /\ \E status \in {500, 503} : Answer(t, status)
  <2>1. PICK status \in HttpStatuses : Answer(t, status)
    BY <1>4 DEF HttpStatuses
  <2> QED
    BY <1>1, <1>4, <2>1, AnswerKeeps DEF addrSetVars
<1> QED
  BY <1>3, <1>4 DEF PullFirst

LEMMA GetKeeps ==
  ASSUME RequestInv, NEW t \in RuntimeTasks, GetLLMAddress(t)
  PROVE  RequestInv'
<1>1. /\ At1(t, "get") /\ Trying(t)
      /\ UNCHANGED <<llm, addresses, blacklisted, live, answering, forgotten>>
  BY DEF GetLLMAddress, At1, Trying
<1>2. answering[t] \subseteq Candidates /\ answering[t] \subseteq live
  BY <1>1 DEF RequestInv, AnsweringCanBePicked
<1>3. CASE llm # "ready" \/ Candidates = {}
  <2>1. Answer(t, 500) /\ UNCHANGED nextTarget
    BY <1>3 DEF GetLLMAddress
  <2>2. answering[t] = {}
    BY <1>2, <1>3, CandidatesOfShape DEF RequestInv, RequestShape
  <2>3. 500 \in HttpStatuses
    BY DEF HttpStatuses
  <2> QED
    BY <1>1, <2>1, <2>2, <2>3, AnswerKeeps DEF addrSetVars
<1>4. CASE llm = "ready" /\ Candidates # {}
  <2> DEFINE n == Cardinality(Candidates)
             a == Nth(Candidates, nextTarget % n)
             r == [attempts[t] EXCEPT !.at = "do", !.addr = a]
  <2>1. /\ attempts' = [attempts EXCEPT ![t] = r]
        /\ nextTarget' = IF Cardinality(addresses) = 1 THEN nextTarget ELSE (nextTarget + 1) % n
    BY <1>4 DEF GetLLMAddress
  <2>2. n \in Nat \ {0} /\ Candidates \subseteq Nat /\ IsFiniteSet(Candidates) /\ nextTarget \in Nat
        /\ Candidates \subseteq Pods
    BY <1>4, CandidatesOfShape DEF RequestInv, RequestShape
  <2>3. nextTarget % n \in Nat /\ nextTarget % n < n /\ nextTarget' \in Nat
    <3> HIDE DEF n
    <3> QED
      BY <2>1, <2>2
  <2>4. a \in Candidates
    BY <2>2, <2>3, NthIsMember
  <2> HIDE DEF a
  <2>5. attempts[t] \in AttemptRecord
    BY DEF RequestInv, RequestShape
  <2>6. /\ r \in AttemptRecord /\ r.at = "do" /\ r.addr = a /\ r.attempt = attempts[t].attempt
    BY <2>2, <2>4, <2>5 DEF AttemptRecord
  <2> HIDE DEF r
  <2>7. /\ attempts'[t] = r /\ \A u \in RuntimeTasks : u # t => attempts'[u] = attempts[u]
        /\ attempts' \in [RuntimeTasks -> AttemptRecord]
    BY <2>1, <2>6, AttemptChanges DEF RequestInv
  <2>8. RequestShape'
    BY <1>1, <2>2, <2>3, <2>4, <2>6, <2>7 DEF RequestInv, RequestShape, At1
  <2>9. Candidates' = Candidates
    BY <1>1 DEF Candidates
  <2>10. \A u \in RuntimeTasks :
           Trying(u)' => answering'[u] \subseteq Candidates' /\ answering'[u] \subseteq live'
    BY <1>1, <1>2, <2>7, <2>9 DEF RequestInv, AnsweringCanBePicked, Trying
  <2>11. ASSUME ~forgotten[t], answering[t] # {}
         PROVE  \E S \in SUBSET Pods : FailedAt(t, S)'
    <3>1. PICK S \in SUBSET Pods : FailedAt(t, S)
      BY <1>1, <2>11 DEF RequestInv, AttemptsAreDistinct
    <3>2. CASE Cardinality(addresses) = 1
      <4>1. PICK x : addresses = {x}
        BY <3>2, CandidatesOfShape, FS_Singleton DEF RequestInv
      <4>2. a = x /\ answering[t] = {x}
        BY <1>2, <2>4, <2>11, <4>1, CandidatesOfShape DEF RequestInv
      <4>3. a \notin S
        BY <3>1, <4>2 DEF FailedAt
      <4> QED
        BY <1>1, <2>6, <2>7, <3>1, <4>3 DEF FailedAt, At1
    <3>3. CASE Cardinality(addresses) # 1
      <4>1. blacklisted[a] = 0
        BY <2>4, <3>3 DEF Candidates
      <4>2. a \notin S
        BY <3>1, <4>1 DEF FailedAt
      <4> QED
        BY <1>1, <2>6, <2>7, <3>1, <4>2 DEF FailedAt, At1
    <3> QED
      BY <3>2, <3>3
  <2> QED
    BY <1>1, <2>6, <2>7, <2>8, <2>10, <2>11, TaskKeeps
<1> QED
  BY <1>3, <1>4

LEMMA DoKeeps ==
  ASSUME RequestInv, NEW t \in RuntimeTasks, DoRequest(t)
  PROVE  RequestInv'
<1>1. /\ At1(t, "do") /\ Trying(t)
      /\ UNCHANGED <<llm, addrSetVars, live, answering, forgotten>>
  BY DEF DoRequest, At1, Trying
<1>2. ASSUME NEW status \in {200, 400, 503}, Answer(t, status)
      PROVE  RequestInv'
  <2>1. status \in HttpStatuses /\ status # 500
    BY DEF HttpStatuses
  <2> QED
    BY <1>1, <1>2, <2>1, AnswerKeeps
<1>3. CASE attempts[t].addr \notin live /\ GoTo(t, "blacklist")
  <2>1. /\ attempts'[t].at = "blacklist" /\ attempts'[t].addr = attempts[t].addr
        /\ attempts'[t].attempt = attempts[t].attempt
        /\ \A u \in RuntimeTasks : u # t => attempts'[u] = attempts[u]
        /\ attempts' \in [RuntimeTasks -> AttemptRecord]
    BY <1>3, TaskGoesOn DEF RequestInv
  <2>2. attempts[t].addr \in Pods
    BY <1>1 DEF RequestInv, RequestShape
  <2>3. RequestShape'
    BY <1>1, <2>1, <2>2 DEF RequestInv, RequestShape, At1, addrSetVars
  <2>4. Candidates' = Candidates
    BY <1>1 DEF Candidates, addrSetVars
  <2>5. \A u \in RuntimeTasks :
          Trying(u)' => answering'[u] \subseteq Candidates' /\ answering'[u] \subseteq live'
    BY <1>1, <2>1, <2>4 DEF RequestInv, AnsweringCanBePicked, Trying
  <2>6. attempts[t].addr \notin answering[t]
    BY <1>1, <1>3 DEF RequestInv, AnsweringCanBePicked
  <2>7. ASSUME ~forgotten[t], answering[t] # {}
        PROVE  \E S \in SUBSET Pods : FailedAt(t, S)'
    <3>1. PICK S \in SUBSET Pods : FailedAt(t, S)
      BY <1>1, <2>7 DEF RequestInv, AttemptsAreDistinct
    <3>2. FailedAt(t, S)'
      BY <1>1, <2>1, <2>6, <3>1 DEF FailedAt, At1, addrSetVars
    <3> QED
      BY <3>2
  <2> QED
    BY <1>1, <2>1, <2>3, <2>5, <2>7, TaskKeeps DEF addrSetVars
<1> QED
  BY <1>2, <1>3 DEF DoRequest

\* The address at which a task has failed joins those at which it has failed
\* before; when they are all, none is left that has answered.
LEMMA BlacklistKeeps ==
  ASSUME RequestInv, NEW t \in RuntimeTasks, BlacklistLLMAddress(t)
  PROVE  RequestInv'
<1> DEFINE n == attempts[t].attempt + 1
           a == attempts[t].addr
           r == IF llm # "ready" \/ n >= RuntimeRequestMaxRetries
                THEN [at |-> "done", attempt |-> n, addr |-> 0, status |-> 500]
                ELSE [attempts[t] EXCEPT !.at = "get", !.attempt = n]
<1>1. /\ At1(t, "blacklist") /\ Trying(t)
      /\ UNCHANGED <<llm, addresses, nextTarget, live, forgotten>> /\ Watch
      /\ attempts' = [attempts EXCEPT ![t] = r]
      /\ blacklisted' = IF llm = "ready" THEN [blacklisted EXCEPT ![a] = BlacklistDuration]
                                         ELSE blacklisted
  BY DEF BlacklistLLMAddress, At1, Trying
<1>2. attempts[t] \in AttemptRecord /\ attempts[t].attempt \in Nat /\ n \in Nat /\ a \in Pods
  BY <1>1 DEF RequestInv, RequestShape, AttemptRecord
<1>3. /\ r \in AttemptRecord /\ r.attempt = n /\ (r.at = "done" \/ r.at = "get")
      /\ r.at = "done" => llm # "ready" \/ n >= RuntimeRequestMaxRetries
  <2> HIDE DEF n
  <2>1. CASE llm # "ready" \/ n >= RuntimeRequestMaxRetries
    BY <1>2, <2>1 DEF AttemptRecord, HttpStatuses
  <2>2. CASE ~(llm # "ready" \/ n >= RuntimeRequestMaxRetries)
    BY <1>2, <2>2 DEF AttemptRecord
  <2> QED
    BY <2>1, <2>2
<1> HIDE DEF r
<1>4. /\ attempts'[t] = r /\ \A u \in RuntimeTasks : u # t => attempts'[u] = attempts[u]
      /\ attempts' \in [RuntimeTasks -> AttemptRecord]
  BY <1>1, <1>3, AttemptChanges DEF RequestInv
<1>5. /\ blacklisted' \in [Pods -> Nat]
      /\ \A b \in Pods : blacklisted[b] > 0 => blacklisted'[b] > 0
      /\ llm = "ready" => blacklisted'[a] > 0
  BY <1>1, <1>2, CandidatesOfShape DEF RequestInv, RequestShape
<1>6. /\ answering' \in [RuntimeTasks -> SUBSET Pods]
      /\ \A u \in RuntimeTasks :
           answering'[u] \subseteq answering[u] /\ answering'[u] \subseteq Candidates' /\ answering'[u] \subseteq live'
  BY <1>1 DEF Watch, RequestInv, RequestShape
<1>7. RequestShape'
  BY <1>1, <1>3, <1>4, <1>5, <1>6 DEF RequestInv, RequestShape, At1
<1>8. ASSUME ~forgotten[t], answering'[t] # {}
      PROVE  llm = "ready" /\ \E S \in SUBSET Pods : FailedAt(t, S)'
  <2>1. answering[t] # {} /\ answering[t] \subseteq Candidates
    BY <1>1, <1>6, <1>8 DEF RequestInv, AnsweringCanBePicked
  <2>2. llm = "ready"
    BY <2>1, CandidatesOfShape DEF RequestInv, RequestShape
  <2>3. PICK S \in SUBSET Pods : FailedAt(t, S)
    BY <1>1, <1>8, <2>1 DEF RequestInv, AttemptsAreDistinct
  <2>4. IsFiniteSet(S) /\ Cardinality(S) = attempts[t].attempt /\ a \notin S /\ a \notin answering[t]
        /\ S \cap answering[t] = {} /\ \A b \in S : blacklisted[b] > 0
    BY <1>1, <2>3 DEF FailedAt
  <2>5. IsFiniteSet(S \cup {a}) /\ Cardinality(S \cup {a}) = n
    BY <2>4, FS_AddElement
  <2>6. (S \cup {a}) \cap answering'[t] = {} /\ \A b \in S \cup {a} : blacklisted'[b] > 0
    BY <1>2, <1>5, <1>6, <2>2, <2>4
  <2>7. PICK F \in SUBSET Pods : F = S \cup {a}
    BY <1>2
  <2>8. IsFiniteSet(F) /\ Cardinality(F) = n /\ F \cap answering'[t] = {}
        /\ \A b \in F : blacklisted'[b] > 0
    BY <2>5, <2>6, <2>7
  <2>9. FailedAt(t, F)'
    BY <1>3, <1>4, <2>8 DEF FailedAt, At1
  <2> QED
    BY <2>2, <2>9
<1>9. ASSUME Cardinality(Pods) <= RuntimeRequestMaxRetries, r.at = "done", ~forgotten[t]
      PROVE  answering'[t] = {}
  <2> SUFFICES ASSUME answering'[t] # {} PROVE FALSE
    OBVIOUS
  <2>1. llm = "ready" /\ n >= RuntimeRequestMaxRetries
    BY <1>3, <1>8, <1>9
  <2>2. PICK S \in SUBSET Pods : FailedAt(t, S)'
    BY <1>8, <1>9
  <2>3. Cardinality(S) = n /\ S \cap answering'[t] = {}
    BY <1>3, <1>4, <2>2 DEF FailedAt
  <2>4. S = Pods
    <3>1. IsFiniteSet(Pods) /\ Cardinality(Pods) \in Nat /\ Cardinality(S) <= Cardinality(Pods)
          /\ (Cardinality(Pods) = Cardinality(S) => Pods = S)
      BY CandidatesOfShape, FS_Subset, FS_CardinalityType DEF RequestInv
    <3>2. RuntimeRequestMaxRetries \in Nat
      BY RuntimeRequestsAssumption
    <3> HIDE DEF n
    <3> QED
      BY <1>2, <1>9, <2>1, <2>3, <3>1, <3>2
  <2> QED
    BY <1>6, <2>3, <2>4
<1> QED
  BY <1>1, <1>3, <1>4, <1>5, <1>6, <1>7, <1>8, <1>9, TaskKeeps

\* A runtime that became ready anew has nothing blacklisted.
LEMMA ReadyAnewKeeps ==
  ASSUME RequestInv, NEW a \in Pods, RuntimeIsReady(a)
  PROVE  RequestInv'
<1>1. /\ llm' = "ready" /\ addresses' = {a} /\ blacklisted' = [b \in Pods |-> 0] /\ nextTarget' = 0
      /\ UNCHANGED <<live, attempts>> /\ Watch
      /\ forgotten' = [t \in RuntimeTasks |-> forgotten[t] \/ Trying(t)]
  BY DEF RuntimeIsReady, Forget
<1>2. /\ answering' \in [RuntimeTasks -> SUBSET Pods]
      /\ \A u \in RuntimeTasks :
           answering'[u] \subseteq answering[u] /\ answering'[u] \subseteq Candidates' /\ answering'[u] \subseteq live'
  BY <1>1 DEF Watch, RequestInv, RequestShape
<1>3. forgotten' \in [RuntimeTasks -> BOOLEAN]
      /\ \A u \in RuntimeTasks : (forgotten[u] => forgotten'[u]) /\ (Trying(u) => forgotten'[u])
  BY <1>1 DEF RequestInv, RequestShape, Trying
<1>4. RequestShape'
  BY <1>1, <1>2, <1>3 DEF RequestInv, RequestShape, At1
<1> QED
  BY <1>1, <1>2, <1>3, <1>4, ElsewhereKeeps

LEMMA AddressesKeep ==
  ASSUME RequestInv,
         \/ \E a \in Pods : AddAddress(a) \/ RemoveAddress(a)
         \/ RuntimeGoes \/ PodComesOrGoes
  PROVE  RequestInv'
<1>1. /\ llm' \in {"absent", "pending", "ready"} /\ addresses' \subseteq Pods
      /\ llm' # "ready" => addresses' = {}
      /\ UNCHANGED <<blacklisted, nextTarget, attempts, forgotten>> /\ Watch
  BY DEF AddAddress, RemoveAddress, RuntimeGoes, PodComesOrGoes, addrSetVars, RequestInv, RequestShape
<1>2. /\ answering' \in [RuntimeTasks -> SUBSET Pods]
      /\ \A u \in RuntimeTasks :
           answering'[u] \subseteq answering[u] /\ answering'[u] \subseteq Candidates' /\ answering'[u] \subseteq live'
  BY <1>1 DEF Watch, RequestInv, RequestShape
<1>3. RequestShape'
  BY <1>1, <1>2 DEF RequestInv, RequestShape, At1
<1> QED
  BY <1>1, <1>2, <1>3, ElsewhereKeeps

LEMMA ClockKeeps ==
  ASSUME RequestInv, ClockTicks
  PROVE  RequestInv'
<1>1. /\ blacklisted' = [a \in Pods |-> IF blacklisted[a] = 0 THEN 0 ELSE blacklisted[a] - 1]
      /\ UNCHANGED <<llm, addresses, nextTarget, live, attempts, answering>>
  BY DEF ClockTicks
<1>2. blacklisted \in [Pods -> Nat]
  BY DEF RequestInv, RequestShape
<1>3. blacklisted' \in [Pods -> Nat] /\ \A a \in Pods : blacklisted[a] = 0 => blacklisted'[a] = 0
  BY <1>1, <1>2
<1>4. forgotten' \in [RuntimeTasks -> BOOLEAN] /\ \A u \in RuntimeTasks : forgotten[u] => forgotten'[u]
  BY DEF ClockTicks, Forget, RequestInv, RequestShape, Trying
<1>5. ASSUME NEW u \in RuntimeTasks, Trying(u), ~forgotten'[u], NEW a \in Pods, blacklisted[a] > 0
      PROVE  blacklisted'[a] > 0
  <2>1. blacklisted[a] # 1
    BY <1>5 DEF ClockTicks, Forget
  <2>2. blacklisted'[a] = IF blacklisted[a] = 0 THEN 0 ELSE blacklisted[a] - 1
    BY <1>1
  <2> QED
    BY <1>2, <1>5, <2>1, <2>2
<1>6. Candidates \subseteq Candidates'
  BY <1>1, <1>3 DEF Candidates, RequestInv, RequestShape
<1>7. RequestShape'
  BY <1>1, <1>3, <1>4 DEF RequestInv, RequestShape, At1
<1>8. \A u \in RuntimeTasks :
        Trying(u) => answering'[u] \subseteq Candidates' /\ answering'[u] \subseteq live'
  BY <1>1, <1>6 DEF RequestInv, AnsweringCanBePicked
<1> QED
  BY <1>1, <1>4, <1>5, <1>7, <1>8, ElsewhereKeeps

LEMMA RequestUnchanged ==
  ASSUME RequestInv, UNCHANGED runtimeRequestVars
  PROVE  RequestInv'
BY DEF runtimeRequestVars, addrSetVars, RequestInv, RequestShape, AnsweringCanBePicked,
       AttemptsAreDistinct, LivePodIsReached, FailedAt, Candidates, Trying, At1

LEMMA RequestStep == RequestInv /\ [RequestNext]_runtimeRequestVars => RequestInv'
<1> SUFFICES ASSUME RequestInv, [RequestNext]_runtimeRequestVars PROVE RequestInv'
  OBVIOUS
<1>1. ASSUME NEW t \in RuntimeTasks,
             PullFirst(t) \/ GetLLMAddress(t) \/ DoRequest(t) \/ BlacklistLLMAddress(t)
      PROVE  RequestInv'
  BY <1>1, PullFirstKeeps, GetKeeps, DoKeeps, BlacklistKeeps
<1>2. ASSUME NEW a \in Pods, RuntimeIsReady(a)
      PROVE  RequestInv'
  BY <1>2, ReadyAnewKeeps
<1>3. CASE \/ \E a \in Pods : AddAddress(a) \/ RemoveAddress(a)
           \/ RuntimeGoes \/ PodComesOrGoes
  BY <1>3, AddressesKeep
<1>4. CASE ClockTicks
  BY <1>4, ClockKeeps
<1>5. CASE UNCHANGED runtimeRequestVars
  BY <1>5, RequestUnchanged
<1> QED
  BY <1>1, <1>2, <1>3, <1>4, <1>5 DEF RequestNext

(***************************************************************************)
(* For any tasks and pods, no more than attempts, a task that gives up for *)
(* its failed requests had no pod that it could pick and that answered all *)
(* the time, unless a blacklisting was forgotten meanwhile                 *)
(* (runtime.go 72-125, processor.go 587-632).                              *)
(***************************************************************************)
THEOREM TasksReachLivePods == RequestSpec => []LivePodIsReached
<1>1. RequestInv => LivePodIsReached
  BY DEF RequestInv
<1> QED
  BY <1>1, InitRequests, RequestStep, PTL DEF RequestSpec
-----------------------------------------------------------------------------
(***************************************************************************)
(* The drifted pod updater, for any number of replicas, failures and       *)
(* changes.                                                                *)
(*                                                                         *)
(* The inductive invariant.  In the first change of the template the       *)
(* updater does nothing before it knows of the change, so no pod of the    *)
(* first revision is created any more; the pod that it has taken, as long  *)
(* as it is ready, is one of these, and the last of them: it is the only   *)
(* one that can be chosen again.                                           *)
(***************************************************************************)
DriftShape ==
  /\ set \in SetRecord /\ scales \in Nat
  /\ pods \in [Ordinals -> PodRecord]
  /\ \A i \in Ordinals : pods[i].revision <= set.updateRevision
  /\ doomed \subseteq Ordinals /\ taken \subseteq Ordinals
  /\ set0 = NotKnown \/ (set0 \in SetRecord /\ set0.updateRevision <= set.updateRevision)

InFirstChange == scales = 0 /\ set.updateRevision <= 2

PodsAreOfSet ==
  /\ set0 = NotKnown \/ set0.replicas = set.replicas
  /\ \A i \in Ordinals : Exists(i) => i < set.replicas
  /\ \A i \in taken : i < set.replicas

\* Nothing is created or taken while the first revision is the only one.
Begun ==
  \/ doomed # {} \/ taken # {}
  \/ \E i \in Ordinals : pods[i].terminating \/ pods[i].revision = 2 \/ (i < set.replicas /\ ~Exists(i))

BegunWithSecond ==
  Begun => set.updateRevision = 2 /\ (set0 = NotKnown \/ set0.updateRevision = 2)

TakenIsLast ==
  \A i \in taken :
    pods[i].state = "ready" =>
      pods[i].revision = 1 /\ \A j \in Ordinals : j > i => pods[j].revision # 1

OneTaken == \A i, j \in taken : i = j

DriftInv ==
  /\ DriftShape
  /\ InFirstChange => PodsAreOfSet /\ BegunWithSecond /\ TakenIsLast /\ OneTaken

LEMMA LargestOfSet ==
  ASSUME NEW n \in Nat, NEW S \in SUBSET (0..n), S # {}
  PROVE  Max(S) \in S /\ \A y \in S : y <= Max(S)
<1>1. S \subseteq Nat /\ IsFiniteSet(S)
  <2>1. IsFiniteSet(0..n)
    BY FS_Interval
  <2>2. IsFiniteSet(S)
    BY <2>1, FS_Subset
  <2>3. 0..n \subseteq Nat
    OBVIOUS
  <2> QED
    BY <2>2, <2>3
<1>2. PICK x \in S : \A y \in S : y <= x
  BY <1>1, LargestOfFinite
<1>3. \A y \in S : x >= y
  BY <1>1, <1>2
<1> QED
  BY <1>1, <1>2, <1>3 DEF Max

LEMMA SetTypes ==
  ASSUME DriftShape
  PROVE  /\ set.replicas \in 1..MaxReplicas /\ set.updateRevision \in Nat /\ MaxReplicas \in Nat \ {0}
         /\ set0 # NotKnown => set0.replicas \in 1..MaxReplicas /\ set0.updateRevision \in Nat
         /\ Ordinals \subseteq Nat /\ Ordinals \subseteq 0..MaxReplicas
         /\ \A i \in Ordinals : pods[i].state \in {"none", "starting", "ready", "unschedulable", "crashLooping"}
                                /\ pods[i].revision \in Nat /\ pods[i].terminating \in BOOLEAN
         /\ \A i \in Ordinals : ~Exists(i) => pods[i] = NoPodThere
<1>1. /\ set.replicas \in 1..MaxReplicas /\ set.updateRevision \in Nat /\ MaxReplicas \in Nat \ {0}
      /\ set0 # NotKnown => set0.replicas \in 1..MaxReplicas /\ set0.updateRevision \in Nat
  BY DriftAssumption DEF DriftShape, SetRecord, Revisions
<1>2. Ordinals \subseteq Nat /\ Ordinals \subseteq 0..MaxReplicas
  BY DriftAssumption DEF Ordinals
<1>3. ASSUME NEW i \in Ordinals
      PROVE  /\ pods[i].state \in {"none", "starting", "ready", "unschedulable", "crashLooping"}
             /\ pods[i].revision \in Nat /\ pods[i].terminating \in BOOLEAN
             /\ ~Exists(i) => pods[i] = NoPodThere
  <2>1. pods[i] \in PodRecord
    BY DEF DriftShape
  <2>2. CASE pods[i] = NoPodThere
    BY <2>2 DEF NoPodThere
  <2>3. CASE pods[i] \in [state : {"starting", "ready", "unschedulable", "crashLooping"},
                          revision : Revisions, terminating : BOOLEAN]
    BY <2>3, DriftAssumption DEF Exists, Revisions
  <2> QED
    BY <2>1, <2>2, <2>3 DEF PodRecord
<1> QED
  BY <1>1, <1>2, <1>3

LEMMA InitDrift == DriftInit => DriftInv
<1> SUFFICES ASSUME DriftInit PROVE DriftInv
  OBVIOUS
<1>1. set \in SetRecord /\ set.updateRevision = 1 /\ set.replicas \in Nat /\ set0 = NotKnown
      /\ scales = 0 /\ doomed = {} /\ taken = {}
  BY DriftAssumption DEF DriftInit, SetRecord, Revisions
<1>2. \A i \in Ordinals :
        pods[i] = IF i < set.replicas THEN [state |-> "ready", revision |-> 1, terminating |-> FALSE]
                                      ELSE NoPodThere
  BY DEF DriftInit
<1>3. pods \in [Ordinals -> PodRecord]
  BY DriftAssumption DEF DriftInit, PodRecord, Revisions
<1>4. DriftShape
  <2>1. \A i \in Ordinals : pods[i].revision <= 1
    BY <1>2 DEF NoPodThere
  <2> QED
    BY <1>1, <1>3, <2>1 DEF DriftShape
<1>5. \A i \in Ordinals : /\ Exists(i) <=> i < set.replicas
                          /\ ~pods[i].terminating /\ pods[i].revision # 2
  BY <1>2 DEF Exists, NoPodThere
<1> QED
  BY <1>1, <1>4, <1>5 DEF DriftInv, PodsAreOfSet, BegunWithSecond, Begun, TakenIsLast, OneTaken

\* Another state of a pod, or another pod of its name.
LEMMA PodChanges ==
  ASSUME DriftInv, NEW i \in Ordinals, NEW p \in PodRecord, pods' = [pods EXCEPT ![i] = p],
         p.revision <= set.updateRevision,
         UNCHANGED <<set, set0, scales>>, taken' \subseteq taken, doomed' \subseteq doomed,
         InFirstChange =>
           /\ p.state # "none" => i < set.replicas
           /\ p.state = "ready" => i \notin taken' \/ (pods[i].state = "ready" /\ p.revision = pods[i].revision)
           /\ p.revision = 1 => pods[i].revision = 1
           /\ p.terminating \/ p.revision = 2 \/ p.state = "none" => Begun
  PROVE  DriftInv'
<1>1. DriftShape'
  <2>1. pods' \in [Ordinals -> PodRecord]
    BY DEF DriftInv, DriftShape
  <2>2. \A j \in Ordinals : pods'[j].revision <= set'.updateRevision
    BY DEF DriftInv, DriftShape
  <2> QED
    BY <2>1, <2>2 DEF DriftInv, DriftShape
<1>2. pods'[i] = p /\ \A j \in Ordinals : j # i => pods'[j] = pods[j]
  BY DEF DriftInv, DriftShape
<1>3. SUFFICES ASSUME InFirstChange
               PROVE  PodsAreOfSet' /\ BegunWithSecond' /\ TakenIsLast' /\ OneTaken'
  BY <1>1 DEF DriftInv, InFirstChange
<1>4. PodsAreOfSet /\ BegunWithSecond /\ TakenIsLast /\ OneTaken
  BY <1>3 DEF DriftInv
<1>5. PodsAreOfSet'
  BY <1>2, <1>3, <1>4 DEF PodsAreOfSet, Exists
<1>6. Begun' => Begun
  <2>1. \A j \in Ordinals : j # i =>
          (Exists(j)' <=> Exists(j)) /\ pods'[j].terminating = pods[j].terminating
                                    /\ pods'[j].revision = pods[j].revision
    BY <1>2 DEF Exists
  <2>2. Exists(i)' <=> p.state # "none"
    BY <1>2 DEF Exists
  <2>3. (doomed' # {} => doomed # {}) /\ (taken' # {} => taken # {})
    OBVIOUS
  <2>4. ASSUME NEW j \in Ordinals,
               pods'[j].terminating \/ pods'[j].revision = 2 \/ (j < set.replicas /\ ~Exists(j)')
        PROVE  Begun
    <3>1. CASE j = i
      BY <1>2, <1>3, <2>2, <2>4, <3>1
    <3>2. CASE j # i
      BY <2>1, <2>4, <3>2 DEF Begun
    <3> QED
      BY <3>1, <3>2
  <2> QED
    BY <2>3, <2>4 DEF Begun
<1>7. BegunWithSecond'
  BY <1>4, <1>6 DEF BegunWithSecond
<1>8. TakenIsLast'
  <2>1. ASSUME NEW a \in taken', pods'[a].state = "ready"
        PROVE  /\ a \in taken /\ a \in Ordinals /\ pods[a].state = "ready"
               /\ pods'[a].revision = pods[a].revision
    <3>1. a \in taken /\ a \in Ordinals
      BY DEF DriftInv, DriftShape
    <3> QED
      BY <1>2, <1>3, <2>1, <3>1
  <2>2. \A j \in Ordinals : pods'[j].revision = 1 => pods[j].revision = 1
    BY <1>2, <1>3
  <2> QED
    BY <1>4, <2>1, <2>2 DEF TakenIsLast
<1> QED
  BY <1>4, <1>5, <1>7, <1>8 DEF OneTaken

\* What concerns neither the pods nor what is known of the set.
LEMMA DriftUnchanged ==
  ASSUME DriftInv, UNCHANGED <<set, set0, scales, pods, doomed, taken>>
  PROVE  DriftInv'
BY DEF DriftInv, DriftShape, InFirstChange, PodsAreOfSet, BegunWithSecond, Begun, TakenIsLast,
       OneTaken, Exists

\* A pod of the set, with another state or on its way out.
LEMMA PodsOfRecord ==
  ASSUME DriftShape, NEW i \in Ordinals, Exists(i)
  PROVE  /\ \A s \in {"starting", "ready", "unschedulable", "crashLooping"} :
              LET p == [pods[i] EXCEPT !.state = s] IN
              /\ p \in PodRecord /\ p.state = s
              /\ p.revision = pods[i].revision /\ p.terminating = pods[i].terminating
         /\ LET p == [pods[i] EXCEPT !.terminating = TRUE] IN
              /\ p \in PodRecord /\ p.state = pods[i].state /\ p.revision = pods[i].revision
<1>1. pods[i] \in [state : {"starting", "ready", "unschedulable", "crashLooping"},
                   revision : Revisions, terminating : BOOLEAN]
  BY DEF DriftShape, PodRecord, NoPodThere, Exists
<1> QED
  BY <1>1 DEF PodRecord

LEMMA CreationKeeps ==
  ASSUME DriftInv, NEW i \in Ordinals, PodIsCreated(i)
  PROVE  DriftInv'
<1> DEFINE p == [state |-> "starting", revision |-> set.updateRevision, terminating |-> FALSE]
<1>1. pods' = [pods EXCEPT ![i] = p] /\ i < set.replicas /\ ~Exists(i)
      /\ UNCHANGED <<set, set0, scales, taken, doomed>>
  BY DEF PodIsCreated, setVars, updaterVars
<1>2. p \in PodRecord
  BY DEF DriftInv, DriftShape, SetRecord, PodRecord
<1>3. /\ p.state = "starting" /\ p.revision = set.updateRevision /\ p.terminating = FALSE
      /\ p.revision <= set.updateRevision
  <2>1. set.updateRevision \in Nat
    BY SetTypes DEF DriftInv
  <2> QED
    BY <2>1
<1>4. Begun
  BY <1>1 DEF Begun
<1>5. InFirstChange => p.revision # 1
  BY <1>3, <1>4 DEF DriftInv, BegunWithSecond
<1> HIDE DEF p
<1> QED
  BY <1>1, <1>2, <1>3, <1>4, <1>5, PodChanges

LEMMA ScaledDownKeeps ==
  ASSUME DriftInv, NEW i \in Ordinals, PodIsScaledDown(i)
  PROVE  DriftInv'
<1> DEFINE p == [pods[i] EXCEPT !.terminating = TRUE]
<1>1. i >= set.replicas /\ Exists(i) /\ UNCHANGED <<set, set0, scales, taken, doomed>>
  BY DEF PodIsScaledDown, setVars, updaterVars
<1>2. pods' = [pods EXCEPT ![i] = p]
  BY DEF PodIsScaledDown
<1>3. p \in PodRecord /\ p.revision <= set.updateRevision
  BY <1>1, PodsOfRecord DEF DriftInv, DriftShape
<1>4. ~InFirstChange
  <2>1. i \in Nat /\ set.replicas \in Nat
    BY SetTypes DEF DriftInv
  <2> QED
    BY <1>1, <2>1 DEF DriftInv, PodsAreOfSet
<1> HIDE DEF p
<1> QED
  BY <1>1, <1>2, <1>3, <1>4, PodChanges

\* The pod of a name is gone, in a change that has begun.
LEMMA PodGoes ==
  ASSUME DriftInv, NEW i \in Ordinals, pods' = [pods EXCEPT ![i] = NoPodThere], Begun,
         doomed' \subseteq doomed, UNCHANGED <<set, set0, scales, taken>>
  PROVE  DriftInv'
<1> DEFINE p == NoPodThere
<1>1. p \in PodRecord /\ p.state = "none" /\ p.revision # 1
  BY DEF NoPodThere, PodRecord
<1>2. pods' = [pods EXCEPT ![i] = p] /\ taken' \subseteq taken
  OBVIOUS
<1>3. p.state # "ready" /\ p.revision <= set.updateRevision
  <2>1. p.revision = 0 /\ set.updateRevision \in Nat
    BY SetTypes DEF DriftInv, NoPodThere
  <2> QED
    BY <1>1, <2>1
<1> HIDE DEF p
<1> QED
  BY <1>1, <1>2, <1>3, PodChanges

LEMMA TerminationKeeps ==
  ASSUME DriftInv, NEW i \in Ordinals, PodTerminates(i)
  PROVE  DriftInv'
<1>1. pods' = [pods EXCEPT ![i] = NoPodThere] /\ pods[i].terminating
      /\ UNCHANGED <<set, set0, scales, taken, doomed>>
  BY DEF PodTerminates, setVars, updaterVars
<1>2. Begun
  BY <1>1 DEF Begun
<1> QED
  BY <1>1, <1>2, PodGoes

LEMMA StateKeeps ==
  ASSUME DriftInv, NEW i \in Ordinals, PodBecomesReady(i) \/ PodCrashes(i) \/ PodFails(i)
  PROVE  DriftInv'
<1>1. PICK st \in {"starting", "ready", "unschedulable", "crashLooping"} :
        /\ pods' = [pods EXCEPT ![i] = [pods[i] EXCEPT !.state = st]]
        /\ Exists(i) /\ taken' \subseteq taken /\ (st = "ready" => i \notin taken')
        /\ UNCHANGED <<set, set0, scales, doomed>>
  BY DEF PodBecomesReady, PodCrashes, PodFails, setVars, updaterVars, Exists
<1> DEFINE p == [pods[i] EXCEPT !.state = st]
<1>2. /\ p \in PodRecord /\ p.state = st
      /\ p.revision = pods[i].revision /\ p.terminating = pods[i].terminating
      /\ p.revision <= set.updateRevision
  BY <1>1, PodsOfRecord DEF DriftInv, DriftShape
<1>3. InFirstChange => i < set.replicas
  BY <1>1 DEF DriftInv, PodsAreOfSet
<1>4. p.terminating \/ p.revision = 2 => Begun
  BY <1>2 DEF Begun
<1>5. pods' = [pods EXCEPT ![i] = p] /\ p.state # "none"
  BY <1>1, <1>2
<1> HIDE DEF p
<1> QED
  BY <1>1, <1>2, <1>3, <1>4, <1>5, PodChanges

LEMMA DeletionKeeps ==
  ASSUME DriftInv, NEW i \in Ordinals, DeleteDriftedPod(i)
  PROVE  DriftInv'
<1>1. i \in doomed /\ doomed' \subseteq doomed /\ UNCHANGED <<set, set0, scales, taken>>
  BY DEF DeleteDriftedPod, setVars
<1>2. Begun
  BY <1>1 DEF Begun
<1>3. CASE Exists(i)
  <2> DEFINE p == [pods[i] EXCEPT !.terminating = TRUE]
  <2>1. pods' = [pods EXCEPT ![i] = p]
    BY <1>3 DEF DeleteDriftedPod
  <2>2. /\ p \in PodRecord /\ p.state = pods[i].state /\ p.revision = pods[i].revision
        /\ p.revision <= set.updateRevision
    BY <1>3, PodsOfRecord DEF DriftInv, DriftShape
  <2>3. InFirstChange => i < set.replicas
    BY <1>3 DEF DriftInv, PodsAreOfSet
  <2> HIDE DEF p
  <2> QED
    BY <1>1, <1>2, <2>1, <2>2, <2>3, PodChanges
<1>4. CASE ~Exists(i)
  <2>1. pods' = [pods EXCEPT ![i] = NoPodThere]
    BY <1>4, SetTypes DEF DeleteDriftedPod, DriftInv, DriftShape
  <2> QED
    BY <1>1, <1>2, <2>1, PodGoes
<1> QED
  BY <1>3, <1>4

LEMMA TemplateKeeps ==
  ASSUME DriftInv, TemplateChanges
  PROVE  DriftInv'
<1>1. /\ set' = [set EXCEPT !.updateRevision = @ + 1] /\ set.updateRevision < MaxRevision
      /\ UNCHANGED <<set0, scales, pods, doomed, taken>>
  BY DEF TemplateChanges, updaterVars
<1>2. set.updateRevision \in Nat /\ MaxRevision \in Nat /\ set \in SetRecord
  BY SetTypes, DriftAssumption DEF DriftInv, DriftShape
<1>3. /\ set'.updateRevision = set.updateRevision + 1 /\ set'.replicas = set.replicas
      /\ set' \in SetRecord
  BY <1>1, <1>2 DEF SetRecord, Revisions
<1>4. set0 = NotKnown \/ set0.updateRevision \in Nat
  BY SetTypes DEF DriftInv
<1>5. DriftShape'
  <2>1. \A i \in Ordinals : pods'[i].revision <= set'.updateRevision
    BY <1>1, <1>2, <1>3, SetTypes DEF DriftInv, DriftShape
  <2> QED
    BY <1>1, <1>2, <1>3, <1>4, <2>1 DEF DriftInv, DriftShape
<1>6. ASSUME InFirstChange'
      PROVE  PodsAreOfSet' /\ BegunWithSecond' /\ TakenIsLast' /\ OneTaken'
  <2>1. InFirstChange /\ set.updateRevision # 2
    BY <1>1, <1>2, <1>3, <1>6 DEF InFirstChange
  <2>2. ~Begun
    BY <2>1 DEF DriftInv, BegunWithSecond
  <2>3. ~Begun'
    BY <1>1, <1>3, <2>2 DEF Begun, Exists
  <2>4. taken' = {}
    BY <1>1, <2>2 DEF Begun
  <2>5. PodsAreOfSet'
    BY <1>1, <1>3, <2>1 DEF DriftInv, PodsAreOfSet, Exists
  <2> QED
    BY <2>3, <2>4, <2>5 DEF BegunWithSecond, TakenIsLast, OneTaken
<1> QED
  BY <1>5, <1>6 DEF DriftInv

LEMMA ScalingKeeps ==
  ASSUME DriftInv, Scaled
  PROVE  DriftInv'
<1>1. scales' = scales + 1 /\ scales \in Nat /\ UNCHANGED <<set0, pods, doomed, taken>>
  BY DEF Scaled, updaterVars, DriftInv, DriftShape
<1>2. set' \in SetRecord /\ set'.updateRevision = set.updateRevision
  BY DEF Scaled, DriftInv, DriftShape, SetRecord
<1> QED
  BY <1>1, <1>2 DEF DriftInv, DriftShape, InFirstChange

\* The updater learns of the set as it is, or starts anew.
LEMMA ViewKeeps ==
  ASSUME DriftInv, Reconcile \/ UpdaterRestarts
  PROVE  DriftInv'
<1>1. /\ set0' = NotKnown \/ set0' = set
      /\ doomed' \subseteq doomed /\ UNCHANGED <<set, scales, pods, taken>>
  BY DEF Reconcile, UpdaterRestarts, setVars
<1>2. set.updateRevision \in Nat
  BY SetTypes DEF DriftInv
<1>3. DriftShape'
  BY <1>1, <1>2 DEF DriftInv, DriftShape
<1>4. Begun' => Begun
  BY <1>1 DEF Begun, Exists
<1> QED
  BY <1>1, <1>3, <1>4
     DEF DriftInv, InFirstChange, PodsAreOfSet, BegunWithSecond, TakenIsLast, OneTaken, Exists

\* With the first change known, what has drifted is of the first revision.
LEMMA DriftedAreFirst ==
  ASSUME DriftInv, InFirstChange, set0 # NotKnown, Drifted # {}
  PROVE  /\ set.updateRevision = 2 /\ set0.updateRevision = 2 /\ set0.replicas = set.replicas
         /\ Drifted = {i \in Ordinals : pods[i].revision = 1}
         /\ \A i \in Drifted : Exists(i) /\ i < set.replicas
<1>1. PodsAreOfSet /\ BegunWithSecond /\ DriftShape
  BY DEF DriftInv
<1>2. /\ set0.replicas = set.replicas /\ set0.updateRevision <= set.updateRevision
      /\ set.updateRevision \in Nat /\ set0.updateRevision \in Nat /\ set0.updateRevision # 0
      /\ set.updateRevision <= 2
  BY <1>1, DriftAssumption DEF PodsAreOfSet, DriftShape, SetRecord, Revisions, InFirstChange
<1>3. ASSUME NEW i \in Ordinals
      PROVE  /\ pods[i].revision \in {0, 1, 2} /\ (pods[i].revision = 0 <=> ~Exists(i))
             /\ (pods[i].revision = 2 => set.updateRevision = 2 /\ set0.updateRevision = 2)
  <2>1. pods[i] = NoPodThere \/ (pods[i].revision \in Nat \ {0} /\ pods[i].state # "none")
    BY <1>1, DriftAssumption DEF DriftShape, PodRecord, Revisions
  <2>2. pods[i].revision \in Nat /\ pods[i].revision <= set.updateRevision
    BY <1>1, SetTypes DEF DriftShape
  <2>3. pods[i].revision = 0 <=> ~Exists(i)
    BY <2>1 DEF Exists, NoPodThere
  <2> QED
    BY <1>1, <1>2, <2>2, <2>3 DEF BegunWithSecond, Begun
<1>4. PICK d \in Ordinals : Exists(d) /\ pods[d].revision # set0.updateRevision /\ HasMajorChange(d)
  BY DEF Drifted
<1>5. set0.updateRevision = 2 /\ set.updateRevision = 2 /\ pods[d].revision = 1
  BY <1>2, <1>3, <1>4
<1>6. revised[1] # revised[2]
  BY <1>4, <1>5 DEF HasMajorChange
<1>7. \A i \in Ordinals : i \in Drifted <=> pods[i].revision = 1
  BY <1>3, <1>5, <1>6 DEF Drifted, HasMajorChange
<1>8. \A i \in Drifted : i \in Ordinals /\ Exists(i) /\ i < set.replicas
  BY <1>1 DEF Drifted, PodsAreOfSet
<1> QED
  BY <1>2, <1>5, <1>7, <1>8

\* When as many pods are ready as there are replicas, they all are.
LEMMA AllAreReady ==
  ASSUME DriftInv, InFirstChange, Cardinality(Ready) = set.replicas
  PROVE  Ready = 0..(set.replicas - 1)
<1>1. PodsAreOfSet /\ DriftShape
  BY DEF DriftInv
<1>2. set.replicas \in Nat \ {0} /\ Ordinals \subseteq Nat
  BY <1>1, SetTypes
<1>3. \A i \in Ready : i \in Ordinals /\ i < set.replicas
  BY <1>1 DEF Ready, PodsAreOfSet, Exists
<1> DEFINE n == set.replicas - 1
<1>4. n \in Nat /\ n - 0 + 1 = set.replicas /\ 0 <= n
  BY <1>2
<1>5. \A i \in Ready : i \in 0..n
  <2> SUFFICES ASSUME NEW i \in Ready PROVE i \in 0..n
    OBVIOUS
  <2>1. i \in Nat /\ i < set.replicas
    BY <1>2, <1>3
  <2> QED
    BY <1>2, <2>1
<1> HIDE DEF n
<1>6. IsFiniteSet(0..n) /\ Cardinality(0..n) = set.replicas
  BY <1>4, FS_Interval
<1>7. Ready = 0..n
  BY <1>5, <1>6, FS_Subset
<1> QED
  BY <1>7 DEF n

LEMMA DecidedArePods ==
  ASSUME DriftShape, Drifted # {}, NEW D \in Decision, D # {}
  PROVE  D \subseteq Ordinals
<1>1. /\ MaxReplicas \in Nat /\ Drifted \in SUBSET Ordinals /\ Deletable \in SUBSET Ordinals
      /\ Drifted \in SUBSET (0..MaxReplicas) /\ Deletable \in SUBSET (0..MaxReplicas)
  BY SetTypes DEF Drifted, Deletable
<1>2. ASSUME NEW S, S = Drifted \/ S = Deletable, D = ChooseDeletionCandidate(S)
      PROVE  D \subseteq Ordinals
  <2>1. S \in SUBSET (0..MaxReplicas) /\ S \in SUBSET Ordinals /\ S # {}
    BY <1>1, <1>2 DEF ChooseDeletionCandidate
  <2>2. Max(S) \in S
    BY <1>1, <2>1, LargestOfSet
  <2> QED
    BY <1>2, <2>1, <2>2 DEF ChooseDeletionCandidate
<1>3. \/ D = Drifted \/ D = ChooseDeletionCandidate(Drifted) \/ D = ChooseDeletionCandidate(Deletable)
      \/ \E i \in Drifted : D = {i}
  BY DEF Decision
<1> QED
  BY <1>1, <1>2, <1>3

\* Whoever is taken in a round is the last of the pods of the first
\* revision; if another one was taken before, it was this one.
LEMMA TakenInRound ==
  ASSUME DriftInv, InFirstChange, DeleteDriftedPods
  PROVE  \/ taken' = taken
         \/ \E j \in Drifted : taken' = {j} /\ \A i \in Drifted : i <= j
<1>1. PodsAreOfSet /\ TakenIsLast /\ OneTaken /\ DriftShape
  BY DEF DriftInv
<1>2. /\ set0 # NotKnown /\ Drifted # {} /\ doomed' # {} /\ doomed' \in Decision
      /\ taken' = taken \cup {i \in doomed' : InService(i)}
  BY DEF DeleteDriftedPods
<1>3. /\ set.updateRevision = 2 /\ set0.updateRevision = 2 /\ set0.replicas = set.replicas
      /\ Drifted = {i \in Ordinals : pods[i].revision = 1}
      /\ \A i \in Drifted : Exists(i) /\ i < set.replicas
  BY <1>2, DriftedAreFirst
<1>4. /\ set.replicas \in Nat \ {0} /\ Ordinals \subseteq Nat /\ taken \subseteq Ordinals
      /\ Drifted \subseteq Ordinals /\ Ordinals \subseteq 0..MaxReplicas /\ MaxReplicas \in Nat
  BY <1>1, <1>3, SetTypes DEF DriftShape
<1>5. CASE set.replicas = 1
  <2>1. \A i \in Ordinals : i < set.replicas <=> i = 0
    BY <1>4, <1>5
  <2>2. Drifted = {0}
    BY <1>2, <1>3, <1>4, <2>1
  <2>3. taken \subseteq {0}
    BY <1>1, <1>4, <2>1 DEF PodsAreOfSet
  <2>4. doomed' = {0}
    BY <1>2, <1>3, <1>5, <2>2 DEF Decision
  <2>5. taken' = taken \/ taken' = {0}
    BY <1>2, <2>3, <2>4
  <2>6. 0 <= 0
    OBVIOUS
  <2> QED
    BY <2>2, <2>5, <2>6
<1>6. CASE set.replicas # 1 /\ Cardinality(Ready) = set.replicas
  <2> DEFINE j == Max(Drifted)
  <2>1. j \in Drifted /\ \A i \in Drifted : i <= j
    BY <1>2, <1>4, LargestOfSet
  <2>2. doomed' = {j}
    BY <1>2, <1>3, <1>6 DEF Decision, ChooseDeletionCandidate
  <2> HIDE DEF j
  <2>3. ASSUME NEW a \in taken PROVE a = j
    <3>1. a \in Ordinals /\ a < set.replicas /\ a \in Nat
      BY <1>1, <1>4 DEF PodsAreOfSet
    <3>2. a \in Ready
      BY <1>4, <1>6, <3>1, AllAreReady
    <3>3. pods[a].revision = 1 /\ \A i \in Ordinals : i > a => pods[i].revision # 1
      BY <1>1, <3>2 DEF TakenIsLast, Ready
    <3>4. a \in Drifted /\ ~(j > a)
      BY <1>3, <2>1, <3>1, <3>3
    <3> QED
      BY <1>4, <2>1, <3>1, <3>4
  <2>4. taken' = taken \/ taken' = {j}
    BY <1>2, <2>2, <2>3
  <2> QED
    BY <2>1, <2>4
<1>7. CASE set.replicas # 1 /\ Cardinality(Ready) # set.replicas
  <2>1. ASSUME NEW i \in doomed' PROVE i \notin Ready
    <3>1. CASE Cardinality(Ready) = set.replicas - 1
      BY <1>2, <1>3, <1>7, <2>1, <3>1 DEF Decision
    <3>2. CASE Cardinality(Ready) # set.replicas - 1
      <4>1. doomed' = ChooseDeletionCandidate(Deletable)
        BY <1>2, <1>3, <1>7, <3>2 DEF Decision
      <4>2. Deletable # {} /\ i = Max(Deletable)
        BY <1>2, <2>1, <4>1 DEF ChooseDeletionCandidate
      <4>3. Deletable \in SUBSET (0..MaxReplicas)
        BY <1>4 DEF Deletable
      <4>4. i \in Deletable
        BY <1>4, <4>2, <4>3, LargestOfSet
      <4> QED
        BY <4>4 DEF Deletable, Ready
    <3> QED
      BY <3>1, <3>2
  <2>2. \A i \in doomed' : i \in Ordinals => ~InService(i)
    BY <2>1 DEF InService, Ready
  <2>3. doomed' \subseteq Ordinals
    BY <1>1, <1>2, DecidedArePods
  <2>4. taken' = taken
    BY <1>2, <2>2, <2>3
  <2> QED
    BY <2>4
<1> QED
  BY <1>5, <1>6, <1>7

\* The updater decides; what it decides on are pods.
LEMMA DecisionKeeps ==
  ASSUME DriftInv, DeleteDriftedPods
  PROVE  DriftInv'
<1>1. DriftShape
  BY DEF DriftInv
<1>2. /\ set0 # NotKnown /\ Drifted # {} /\ doomed' # {} /\ doomed' \in Decision
      /\ taken' = taken \cup {i \in doomed' : InService(i)}
      /\ UNCHANGED <<set, scales, set0, pods>>
  BY DEF DeleteDriftedPods, setVars
<1>3. doomed' \subseteq Ordinals
  BY <1>1, <1>2, DecidedArePods
<1>4. taken' \subseteq Ordinals
  BY <1>1, <1>2, <1>3 DEF DriftShape
<1>5. DriftShape'
  BY <1>1, <1>2, <1>3, <1>4 DEF DriftShape
<1>6. ASSUME InFirstChange
      PROVE  PodsAreOfSet' /\ BegunWithSecond' /\ TakenIsLast' /\ OneTaken'
  <2>1. PodsAreOfSet /\ BegunWithSecond /\ TakenIsLast /\ OneTaken
    BY <1>6 DEF DriftInv
  <2>2. /\ set.updateRevision = 2 /\ set0.updateRevision = 2
        /\ Drifted = {i \in Ordinals : pods[i].revision = 1}
        /\ \A i \in Drifted : Exists(i) /\ i < set.replicas
    BY <1>2, <1>6, DriftedAreFirst
  <2>3. BegunWithSecond'
    BY <1>2, <2>2 DEF BegunWithSecond
  <2>4. CASE taken' = taken
    <3>1. PodsAreOfSet'
      BY <1>2, <2>1, <2>4 DEF PodsAreOfSet, Exists
    <3>2. TakenIsLast'
      BY <1>2, <2>1, <2>4 DEF TakenIsLast
    <3>3. OneTaken'
      BY <2>1, <2>4 DEF OneTaken
    <3> QED
      BY <2>3, <3>1, <3>2, <3>3
  <2>5. ASSUME NEW j \in Drifted, taken' = {j}, \A i \in Drifted : i <= j
        PROVE  PodsAreOfSet' /\ TakenIsLast' /\ OneTaken'
    <3>1. \A i \in Ordinals : i > j => i \notin Drifted
      <4> SUFFICES ASSUME NEW i \in Drifted, i > j, i \in Ordinals PROVE FALSE
        OBVIOUS
      <4>1. i \in Nat /\ j \in Nat /\ i <= j
        BY <1>1, <2>2, <2>5, SetTypes
      <4> QED
        BY <4>1
    <3>2. pods[j].revision = 1 /\ \A i \in Ordinals : i > j => pods[i].revision # 1
      BY <2>2, <3>1
    <3>3. TakenIsLast'
      BY <1>2, <2>5, <3>2 DEF TakenIsLast
    <3>4. PodsAreOfSet'
      BY <1>2, <2>1, <2>2, <2>5 DEF PodsAreOfSet, Exists
    <3>5. OneTaken'
      BY <2>5 DEF OneTaken
    <3> QED
      BY <3>3, <3>4, <3>5
  <2> QED
    BY <1>6, <2>3, <2>4, <2>5, TakenInRound
<1>7. InFirstChange' => InFirstChange
  BY <1>2 DEF InFirstChange
<1> QED
  BY <1>5, <1>6, <1>7 DEF DriftInv

LEMMA DriftStep == DriftInv /\ [DriftNext]_driftVars => DriftInv'
<1> SUFFICES ASSUME DriftInv, [DriftNext]_driftVars PROVE DriftInv'
  OBVIOUS
<1>1. CASE TemplateChanges
  BY <1>1, TemplateKeeps
<1>2. CASE Scaled
  BY <1>2, ScalingKeeps
<1>3. CASE StatefulSetController
  BY <1>3, CreationKeeps, ScaledDownKeeps, TerminationKeeps DEF StatefulSetController
<1>4. ASSUME NEW i \in Ordinals, PodBecomesReady(i) \/ PodCrashes(i) \/ PodFails(i)
      PROVE  DriftInv'
  BY <1>4, StateKeeps
<1>5. ASSUME NEW i \in Ordinals, ManagerUpdatesPod(i) \/ ManagerHasUpdatedPod(i)
      PROVE  DriftInv'
  BY <1>5, DriftUnchanged DEF ManagerUpdatesPod, ManagerHasUpdatedPod, setVars, updaterVars
<1>6. ASSUME NEW i \in Ordinals, DeleteDriftedPod(i)
      PROVE  DriftInv'
  BY <1>6, DeletionKeeps
<1>7. CASE Reconcile \/ UpdaterRestarts
  BY <1>7, ViewKeeps
<1>8. CASE DeleteDriftedPods
  BY <1>8, DecisionKeeps
<1>9. CASE UNCHANGED driftVars
  BY <1>9, DriftUnchanged DEF driftVars, setVars, updaterVars
<1> QED
  BY <1>1, <1>2, <1>3, <1>4, <1>5, <1>6, <1>7, <1>8, <1>9 DEF DriftNext

(***************************************************************************)
(* In the first change of the template, and while nobody scales, at most   *)
(* one pod is taken out of service at a time, whatever fails and whenever  *)
(* the updater is replaced (drifted_pod_updater.go 172-247).               *)
(***************************************************************************)
THEOREM OnePodIsTaken == DriftSpec => []UpdaterTakesOne
<1>1. DriftInv => UpdaterTakesOne
  <2> SUFFICES ASSUME DriftInv, scales = 0, set.updateRevision <= 2
               PROVE  Cardinality(taken) <= 1
    BY DEF UpdaterTakesOne
  <2>1. OneTaken
    BY DEF DriftInv, InFirstChange
  <2>2. CASE taken = {}
    BY <2>2, FS_EmptySet
  <2>3. CASE taken # {}
    <3>1. PICK j \in taken : TRUE
      BY <2>3
    <3>2. taken = {j}
      BY <2>1, <3>1 DEF OneTaken
    <3> QED
      BY <3>2, FS_Singleton
  <2> QED
    BY <2>2, <2>3
<1> QED
  BY <1>1, InitDrift, DriftStep, PTL DEF DriftSpec

-----------------------------------------------------------------------------
(***************************************************************************)
(* Sums.  A fold is a recursive function on the subsets of a finite set.   *)
(* What is shown of it by induction elsewhere is shown here of a smallest  *)
(* set for which it does not hold.                                         *)
(***************************************************************************)
LEMMA SmallestSubset ==
  ASSUME NEW S, IsFiniteSet(S), NEW F, F \subseteq SUBSET S, F # {}
  PROVE  \E T \in F : \A U \in F : U \subseteq T => U = T
<1>1. F \subseteq FiniteSubsetsOf(S)
  BY FS_FiniteSubsetsOfFinite
<1>2. PICK T \in F : \A U \in F : ~(<<U, T>> \in StrictSubsetOrdering(S))
  BY <1>1, FS_StrictSubsetOrderingWellFounded, WFMin
<1> QED
  BY <1>2 DEF StrictSubsetOrdering

\* The fold that SumFunctionOnSet is made of.
Pick(s) == CHOOSE x \in s : TRUE

IsSum(f, T, g) ==
  g = [s \in SUBSET T |-> IF s = {} THEN 0 ELSE f[Pick(s)] + g[s \ {Pick(s)}]]

SumOf(f, T) == CHOOSE g : IsSum(f, T, g)

LEMMA PickIsMember == \A s : s # {} => Pick(s) \in s
BY DEF Pick

LEMMA SumsAgree ==
  ASSUME NEW f, NEW S, IsFiniteSet(S), NEW g, NEW h, NEW T, T \subseteq S,
         IsSum(f, S, g), IsSum(f, T, h)
  PROVE  h[T] = g[T]
<1> DEFINE F == {U \in SUBSET T : h[U] # g[U]}
<1>1. CASE F = {}
  BY <1>1
<1>2. CASE F # {}
  <2>1. IsFiniteSet(T) /\ F \subseteq SUBSET T
    BY FS_Subset
  <2>2. PICK U \in F : \A V \in F : V \subseteq U => V = U
    <3> HIDE DEF F
    <3> QED
      BY <1>2, <2>1, SmallestSubset
  <2>3. U \in SUBSET T /\ U \in SUBSET S /\ h[U] # g[U]
    OBVIOUS
  <2>4. /\ h[U] = IF U = {} THEN 0 ELSE f[Pick(U)] + h[U \ {Pick(U)}]
        /\ g[U] = IF U = {} THEN 0 ELSE f[Pick(U)] + g[U \ {Pick(U)}]
    BY <2>3 DEF IsSum
  <2>5. U # {} /\ Pick(U) \in U
    BY <2>3, <2>4, PickIsMember
  <2>6. h[U \ {Pick(U)}] = g[U \ {Pick(U)}]
    BY <2>2, <2>3, <2>5
  <2> QED
    BY <2>3, <2>4, <2>5, <2>6
<1> QED
  BY <1>1, <1>2

LEMMA SumExists ==
  ASSUME NEW f, NEW S, IsFiniteSet(S)
  PROVE  IsSum(f, S, SumOf(f, S))
<1> DEFINE F == {T \in SUBSET S : ~IsSum(f, T, SumOf(f, T))}
<1>1. CASE F = {}
  BY <1>1
<1>2. CASE F # {}
  <2>1. F \subseteq SUBSET S
    OBVIOUS
  <2>2. PICK T \in F : \A U \in F : U \subseteq T => U = T
    <3> HIDE DEF F
    <3> QED
      BY <1>2, <2>1, SmallestSubset
  <2>3. T \in SUBSET S /\ ~IsSum(f, T, SumOf(f, T))
    OBVIOUS
  <2>4. ASSUME NEW U \in SUBSET T, U # T
        PROVE  IsSum(f, U, SumOf(f, U))
    BY <2>2, <2>3, <2>4
  <2> DEFINE RestOf(s) == s \ {Pick(s)}
             g == [s \in SUBSET T |-> IF s = {} THEN 0
                                      ELSE f[Pick(s)] + SumOf(f, RestOf(s))[RestOf(s)]]
  <2>5. ASSUME NEW s \in SUBSET T, s # {}
        PROVE  g[RestOf(s)] = SumOf(f, RestOf(s))[RestOf(s)]
    <3> DEFINE u == RestOf(s)
    <3>1. u \in SUBSET T /\ u # T
      BY <2>5, PickIsMember
    <3>2. IsSum(f, u, SumOf(f, u))
      BY <3>1, <2>4
    <3>3. SumOf(f, u)[u] = IF u = {} THEN 0 ELSE f[Pick(u)] + SumOf(f, u)[RestOf(u)]
      <4> HIDE DEF u
      <4>1. u \in SUBSET u
        OBVIOUS
      <4> QED
        BY <3>2, <4>1 DEF IsSum
    <3>4. CASE u = {}
      BY <3>1, <3>3, <3>4
    <3>5. CASE u # {}
      <4>1. RestOf(u) \in SUBSET u /\ RestOf(u) # T
        BY <3>1
      <4>2. IsSum(f, RestOf(u), SumOf(f, RestOf(u)))
        BY <4>1, <3>1, <2>4
      <4>3. IsFiniteSet(u)
        BY <3>1, <2>3, FS_Subset
      <4>4. SumOf(f, RestOf(u))[RestOf(u)] = SumOf(f, u)[RestOf(u)]
        <5> HIDE DEF u, RestOf
        <5> QED
          BY <3>2, <4>1, <4>2, <4>3, SumsAgree
      <4>5. g[u] = f[Pick(u)] + SumOf(f, RestOf(u))[RestOf(u)]
        <5> HIDE DEF u, RestOf
        <5> QED
          BY <3>1, <3>5
      <4> QED
        BY <3>3, <3>5, <4>4, <4>5
    <3> QED
      BY <3>4, <3>5
  <2>6. IsSum(f, T, g)
    <3>1. g = [s \in SUBSET T |-> IF s = {} THEN 0 ELSE f[Pick(s)] + g[RestOf(s)]]
      <4>1. \A s \in SUBSET T : s # {} => g[RestOf(s)] = SumOf(f, RestOf(s))[RestOf(s)]
        BY <2>5
      <4> DEFINE a(s) == IF s = {} THEN 0 ELSE f[Pick(s)] + SumOf(f, RestOf(s))[RestOf(s)]
                 b(s) == IF s = {} THEN 0 ELSE f[Pick(s)] + g[RestOf(s)]
      <4>2. \A s \in SUBSET T : a(s) = b(s)
        <5> HIDE DEF g, RestOf
        <5> QED
          BY <4>1
      <4>3. g = [s \in SUBSET T |-> a(s)]
        OBVIOUS
      <4> HIDE DEF a, b, g
      <4>4. g = [s \in SUBSET T |-> b(s)]
        BY <4>2, <4>3
      <4> QED
        BY <4>4 DEF b
    <3> HIDE DEF g
    <3> QED
      BY <3>1 DEF IsSum
  <2>7. IsSum(f, T, SumOf(f, T))
    <3> HIDE DEF g
    <3> QED
      BY <2>6 DEF SumOf
  <2> QED
    BY <2>3, <2>7
<1> QED
  BY <1>1, <1>2

LEMMA SumIsFold ==
  ASSUME NEW f, NEW S
  PROVE  SumFunctionOnSet(f, S) = SumOf(f, S)[S]
BY DEF SumFunctionOnSet, FoldFunctionOnSet, MapThenFoldSet, SumOf, IsSum, Pick

\* A sum is what is picked first and the sum of the rest.
LEMMA SumStep ==
  ASSUME NEW f, NEW S, IsFiniteSet(S)
  PROVE  SumFunctionOnSet(f, S) =
           IF S = {} THEN 0 ELSE f[Pick(S)] + SumFunctionOnSet(f, S \ {Pick(S)})
<1> DEFINE T == S \ {Pick(S)}
<1>1. IsSum(f, S, SumOf(f, S)) /\ S \in SUBSET S
  BY SumExists
<1>2. SumOf(f, S)[S] = IF S = {} THEN 0 ELSE f[Pick(S)] + SumOf(f, S)[T]
  BY <1>1 DEF IsSum
<1>3. T \subseteq S /\ IsFiniteSet(T)
  BY FS_Subset
<1>4. SumOf(f, T)[T] = SumOf(f, S)[T]
  <2> HIDE DEF T
  <2> QED
    BY <1>1, <1>3, SumExists, SumsAgree
<1> QED
  BY <1>2, <1>4, SumIsFold

LEMMA SumIsInt ==
  ASSUME NEW f, NEW S, IsFiniteSet(S), \A x \in S : f[x] \in Int
  PROVE  SumFunctionOnSet(f, S) \in Int
<1> DEFINE F == {T \in SUBSET S : SumFunctionOnSet(f, T) \notin Int}
<1>1. CASE F = {}
  BY <1>1
<1>2. CASE F # {}
  <2>1. PICK T \in F : \A U \in F : U \subseteq T => U = T
    <3>1. F \subseteq SUBSET S
      OBVIOUS
    <3> HIDE DEF F
    <3> QED
      BY <1>2, <3>1, SmallestSubset
  <2>2. T \in SUBSET S /\ IsFiniteSet(T) /\ SumFunctionOnSet(f, T) \notin Int
    BY FS_Subset
  <2>3. T # {} /\ Pick(T) \in T
    <3>1. T = {} => SumFunctionOnSet(f, T) = 0
      BY <2>2, SumStep
    <3> QED
      BY <2>2, <3>1, PickIsMember
  <2>4. SumFunctionOnSet(f, T \ {Pick(T)}) \in Int
    BY <2>1, <2>2, <2>3
  <2>5. SumFunctionOnSet(f, T) = f[Pick(T)] + SumFunctionOnSet(f, T \ {Pick(T)})
    BY <2>2, <2>3, SumStep
  <2> QED
    BY <2>2, <2>3, <2>4, <2>5
<1> QED
  BY <1>1, <1>2

\* The order does not matter.
LEMMA SumOfAny ==
  ASSUME NEW f, NEW S, IsFiniteSet(S), \A x \in S : f[x] \in Int, NEW z \in S
  PROVE  SumFunctionOnSet(f, S) = f[z] + SumFunctionOnSet(f, S \ {z})
<1> DEFINE Sum(T) == SumFunctionOnSet(f, T)
           F == {T \in SUBSET S : \E y \in T : Sum(T) # f[y] + Sum(T \ {y})}
<1>1. CASE F = {}
  BY <1>1
<1>2. CASE F # {}
  <2>1. PICK T \in F : \A U \in F : U \subseteq T => U = T
    <3>1. F \subseteq SUBSET S
      OBVIOUS
    <3> HIDE DEF F
    <3> QED
      BY <1>2, <3>1, SmallestSubset
  <2>2. T \in SUBSET S /\ IsFiniteSet(T)
    BY FS_Subset
  <2>3. PICK y \in T : Sum(T) # f[y] + Sum(T \ {y})
    OBVIOUS
  <2> DEFINE x == Pick(T)
  <2>4. x \in T /\ Sum(T) = f[x] + Sum(T \ {x})
    BY <2>2, <2>3, SumStep, PickIsMember
  <2>5. x # y
    BY <2>3, <2>4
  <2>6. ASSUME NEW U \in SUBSET T, U # T, NEW v \in U
        PROVE  Sum(U) = f[v] + Sum(U \ {v})
    BY <2>1, <2>2, <2>6
  <2> DEFINE Others == T \ {x, y}
  <2>7. /\ Sum(T \ {x}) = f[y] + Sum(Others)
        /\ Sum(T \ {y}) = f[x] + Sum(Others)
    <3>1. (T \ {x}) \ {y} = Others /\ (T \ {y}) \ {x} = Others
      OBVIOUS
    <3> HIDE DEF x, Others, Sum
    <3> QED
      BY <2>4, <2>5, <2>6, <3>1
  <2>8. f[x] \in Int /\ f[y] \in Int /\ Sum(Others) \in Int
    <3>1. Others \subseteq S /\ IsFiniteSet(Others)
      BY <2>2, FS_Subset
    <3> HIDE DEF Others
    <3> QED
      BY <2>2, <2>4, <3>1, SumIsInt
  <2> HIDE DEF Sum, Others, x
  <2> QED
    BY <2>3, <2>4, <2>7, <2>8
<1> QED
  BY <1>1, <1>2

LEMMA SumOfNone == \A f : SumFunctionOnSet(f, {}) = 0
BY FS_EmptySet, SumStep

LEMMA SumWith ==
  ASSUME NEW f, NEW S, IsFiniteSet(S), NEW z, z \notin S, \A x \in S \cup {z} : f[x] \in Int
  PROVE  SumFunctionOnSet(f, S \cup {z}) = f[z] + SumFunctionOnSet(f, S)
<1>1. IsFiniteSet(S \cup {z}) /\ (S \cup {z}) \ {z} = S /\ z \in S \cup {z}
  BY FS_AddElement
<1> QED
  BY <1>1, SumOfAny

\* A sum of numbers is none of them less.
LEMMA SumIsNat ==
  ASSUME NEW f, NEW S, IsFiniteSet(S), \A x \in S : f[x] \in Nat
  PROVE  SumFunctionOnSet(f, S) \in Nat
<1> DEFINE F == {T \in SUBSET S : SumFunctionOnSet(f, T) \notin Nat}
<1>1. CASE F = {}
  BY <1>1
<1>2. CASE F # {}
  <2>1. PICK T \in F : \A U \in F : U \subseteq T => U = T
    <3>1. F \subseteq SUBSET S
      OBVIOUS
    <3> HIDE DEF F
    <3> QED
      BY <1>2, <3>1, SmallestSubset
  <2>2. T \in SUBSET S /\ IsFiniteSet(T) /\ SumFunctionOnSet(f, T) \notin Nat
    BY FS_Subset
  <2>3. T # {} /\ Pick(T) \in T
    <3>1. T = {} => SumFunctionOnSet(f, T) = 0
      BY <2>2, SumStep
    <3> QED
      BY <2>2, <3>1, PickIsMember
  <2>4. SumFunctionOnSet(f, T \ {Pick(T)}) \in Nat
    BY <2>1, <2>2, <2>3
  <2>5. SumFunctionOnSet(f, T) = f[Pick(T)] + SumFunctionOnSet(f, T \ {Pick(T)})
    BY <2>2, <2>3, SumStep
  <2> QED
    BY <2>2, <2>3, <2>4, <2>5
<1> QED
  BY <1>1, <1>2

LEMMA SumIsZero ==
  ASSUME NEW f, NEW S, IsFiniteSet(S), \A x \in S : f[x] \in Nat,
         SumFunctionOnSet(f, S) <= 0, NEW z \in S
  PROVE  f[z] = 0
<1>1. IsFiniteSet(S \ {z}) /\ \A x \in S : f[x] \in Int
  BY FS_Subset
<1>2. SumFunctionOnSet(f, S \ {z}) \in Nat
  BY <1>1, SumIsNat
<1>3. SumFunctionOnSet(f, S) = f[z] + SumFunctionOnSet(f, S \ {z})
  BY <1>1, SumOfAny
<1> QED
  BY <1>2, <1>3
-----------------------------------------------------------------------------
(***************************************************************************)
(* The window.  Slot(k) is the bucket of k seconds before the last one.    *)
(***************************************************************************)
LoadAt(s) == IF s < 0 THEN 0 ELSE load[s]

Slot(k) == IF k <= lastIndex THEN lastIndex - k ELSE lastIndex - k + BucketNum

NothingAdded ==
  lastUpdatedAt = -1 =>
    /\ lastIndex = 0 /\ \A i \in 0..(BucketNum - 1) : buckets[i] = 0
    /\ \A s \in 0..second : load[s] = 0

RingIsLoad ==
  lastUpdatedAt # -1 =>
    /\ \A k \in 0..(BucketNum - 1) : buckets[Slot(k)] = LoadAt(lastUpdatedAt - k)
    /\ \A s \in lastUpdatedAt..second : load[s] = buckets[lastIndex]

WindowInv == WindowTypeOK /\ NothingAdded /\ RingIsLoad

LEMMA ModOnce ==
  ASSUME NEW a \in Nat, NEW n \in Nat, n > 0, a < 2 * n
  PROVE  a % n = IF a < n THEN a ELSE a - n
<1> DEFINE q == a \div n
           r == a % n
<1>1. q \in Int /\ r \in 0..(n - 1) /\ a = n * q + r
  OBVIOUS
<1> HIDE DEF q, r
<1>2. q < 2
  <2>1. ASSUME q >= 2 PROVE FALSE
    <3>1. n * q >= n * 2
      BY <1>1, <2>1
    <3> QED
      BY <1>1, <3>1
  <2> QED
    BY <1>1, <2>1
<1>3. q > -1
  <2>1. ASSUME q <= -1 PROVE FALSE
    <3>1. n * q <= n * (-1)
      BY <1>1, <2>1
    <3> QED
      BY <1>1, <3>1
  <2> QED
    BY <1>1, <2>1
<1>4. CASE q = 0
  <2>1. r = a
    BY <1>1, <1>4
  <2> QED
    BY <1>1, <2>1 DEF r
<1>5. CASE q = 1
  <2>1. r = a - n
    BY <1>1, <1>5
  <2> QED
    BY <1>1, <2>1 DEF r
<1> QED
  BY <1>1, <1>2, <1>3, <1>4, <1>5

LEMMA SlotInRing ==
  ASSUME WindowTypeOK, NEW k \in 0..(BucketNum - 1)
  PROVE  /\ Slot(k) \in 0..(BucketNum - 1) /\ buckets[Slot(k)] \in Nat
         /\ \A m \in 0..(BucketNum - 1) : Slot(m) = Slot(k) => m = k
BY WindowAssumption DEF WindowTypeOK, Slot

\* What adding does to the ring, with the distance that idx has gone.
LEMMA AddToRing ==
  ASSUME WindowInv, NEW v \in {-1, 1}, InFlight + v \in 0..MaxInFlight,
         load' = [load EXCEPT ![second] = @ + v], WindowAdd(v), UNCHANGED second
  PROVE  WindowInv'
<1> DEFINE d == second - lastUpdatedAt
           lastVal == buckets[lastIndex]
           idx == (lastIndex + d) % BucketNum
           Ring == 0..(BucketNum - 1)
<1>1. /\ BucketNum \in Nat /\ BucketNum > 0 /\ MaxInFlight \in Nat /\ MaxSeconds \in Nat
      /\ second \in Nat /\ lastUpdatedAt \in Int /\ lastIndex \in Ring /\ second \in 0..second
      /\ second <= MaxSeconds /\ lastUpdatedAt <= second /\ lastUpdatedAt >= -1
      /\ buckets \in [Ring -> 0..MaxInFlight] /\ load \in [0..second -> 0..MaxInFlight]
  BY WindowAssumption DEF WindowInv, WindowTypeOK
<1>2. /\ lastUpdatedAt' = second /\ second' = second
      /\ load' \in [0..second -> 0..MaxInFlight]
      /\ load'[second] = load[second] + v
      /\ \A s \in 0..second : s # second => load'[s] = load[s]
  <2>1. load[second] + v \in 0..MaxInFlight
    BY DEF InFlight
  <2> QED
    BY <1>1, <2>1 DEF WindowAdd
<1>3. CASE lastUpdatedAt = -1
  <2>1. /\ lastIndex = 0 /\ \A i \in Ring : buckets[i] = 0
        /\ \A s \in 0..second : load[s] = 0
    BY <1>3 DEF WindowInv, NothingAdded
  <2>2. v \in 0..MaxInFlight /\ load'[second] = v
    BY <1>1, <1>2, <2>1 DEF InFlight
  <2>3. buckets' = [buckets EXCEPT ![0] = v] /\ lastIndex' = 0
    BY <1>3, <2>1 DEF WindowAdd
  <2>4. WindowTypeOK'
    BY <1>1, <1>2, <2>2, <2>3 DEF WindowTypeOK
  <2>5. ASSUME NEW k \in Ring
        PROVE  buckets'[Slot(k)'] = LoadAt(lastUpdatedAt - k)'
    <3>1. Slot(k)' = IF k <= 0 THEN 0 ELSE BucketNum - k
      BY <1>1, <2>3 DEF Slot
    <3>2. CASE k = 0
      BY <1>1, <1>2, <2>2, <2>3, <3>1, <3>2 DEF LoadAt
    <3>3. CASE k # 0
      <4>1. Slot(k)' \in Ring /\ Slot(k)' # 0
        BY <1>1, <3>1, <3>3
      <4>2. buckets'[Slot(k)'] = 0
        BY <1>1, <2>1, <2>3, <4>1
      <4>3. LoadAt(lastUpdatedAt - k)' = 0
        BY <1>1, <1>2, <2>1, <3>3 DEF LoadAt
      <4> QED
        BY <4>2, <4>3
    <3> QED
      BY <3>2, <3>3
  <2>6. \A s \in second..second : load'[s] = buckets'[lastIndex']
    BY <1>1, <2>2, <2>3
  <2> QED
    BY <1>1, <1>2, <2>4, <2>5, <2>6 DEF WindowInv, RingIsLoad, NothingAdded
<1>4. CASE lastUpdatedAt # -1
  <2>1. /\ \A k \in Ring : buckets[Slot(k)] = LoadAt(lastUpdatedAt - k)
        /\ \A s \in lastUpdatedAt..second : load[s] = lastVal
        /\ lastUpdatedAt >= 0 /\ lastVal = load[second] /\ d \in 0..second
    BY <1>1, <1>4 DEF WindowInv, RingIsLoad
  <2>2. lastVal + v \in 0..MaxInFlight /\ lastVal \in 0..MaxInFlight /\ load'[second] = lastVal + v
    BY <1>1, <1>2, <2>1 DEF InFlight
  <2>3. /\ lastIndex' \in Ring /\ buckets' \in [Ring -> 0..MaxInFlight]
        /\ buckets'[lastIndex'] = lastVal + v
        /\ \A k \in 1..(BucketNum - 1) :
             buckets'[Slot(k)'] = IF k < d THEN lastVal ELSE buckets[Slot(k - d)]
    <3>1. CASE d = 0
      <4>1. buckets' = [buckets EXCEPT ![lastIndex] = @ + v] /\ lastIndex' = lastIndex
        BY <1>4, <3>1 DEF WindowAdd
      <4>2. buckets' \in [Ring -> 0..MaxInFlight] /\ buckets'[lastIndex] = lastVal + v
        BY <1>1, <2>2, <4>1
      <4>3. ASSUME NEW k \in 1..(BucketNum - 1)
            PROVE  buckets'[Slot(k)'] = buckets[Slot(k - d)] /\ ~(k < d)
        <5>1. Slot(k)' = Slot(k) /\ Slot(k) \in Ring /\ Slot(k) # lastIndex /\ k - d = k
          BY <1>1, <3>1, <4>1 DEF Slot
        <5> QED
          BY <1>1, <3>1, <4>1, <5>1
      <4> QED
        BY <1>1, <4>1, <4>2, <4>3
    <3>2. CASE d > BucketNum
      <4>1. lastIndex' = 0 /\ buckets' = [i \in DOMAIN buckets |-> IF i = 0 THEN lastVal + v ELSE lastVal]
        BY <1>1, <1>4, <3>2 DEF WindowAdd
      <4>2. \A k \in 1..(BucketNum - 1) : Slot(k)' \in Ring /\ Slot(k)' # 0 /\ k < d
        BY <1>1, <3>2, <4>1 DEF Slot
      <4> QED
        BY <1>1, <2>2, <4>1, <4>2
    <3>3. CASE d > 0 /\ d <= BucketNum
      <4>1. /\ lastIndex' = idx
            /\ buckets' = [i \in DOMAIN buckets |->
                  IF i = idx THEN lastVal + v
                  ELSE IF i \in Between(idx) THEN lastVal ELSE buckets[i]]
        BY <1>1, <1>4, <3>3 DEF WindowAdd
      <4>2. idx = IF lastIndex + d < BucketNum THEN lastIndex + d ELSE lastIndex + d - BucketNum
        <5> DEFINE a == lastIndex + d
        <5>1. a \in Nat /\ a < 2 * BucketNum
          BY <1>1, <2>1, <3>3
        <5>3. idx = a % BucketNum
          OBVIOUS
        <5> HIDE DEF a, idx, d
        <5>2. a % BucketNum = IF a < BucketNum THEN a ELSE a - BucketNum
          BY <1>1, <5>1, ModOnce
        <5>4. idx = IF a < BucketNum THEN a ELSE a - BucketNum
          BY <5>2, <5>3, Zenon
        <5> QED
          BY <1>1, <5>1, <5>4 DEF a, d
      <4> HIDE DEF idx
      <4>3. idx \in Ring /\ d \in Nat
        BY <1>1, <2>1, <3>3, <4>2
      <4> HIDE DEF d
      <4>4. ASSUME NEW k \in 1..(BucketNum - 1)
            PROVE  buckets'[Slot(k)'] = IF k < d THEN lastVal ELSE buckets[Slot(k - d)]
        <5>1. Slot(k)' = IF k <= idx THEN idx - k ELSE idx - k + BucketNum
          BY <4>1 DEF Slot
        <5>2. Slot(k)' \in Ring /\ Slot(k)' # idx
          BY <1>1, <4>3, <5>1
        <5>3. CASE k < d
          <6> DEFINE i == IF k <= idx THEN idx - k ELSE idx - k + BucketNum
          <6>1. CASE idx > lastIndex
            <7>1. i \in (lastIndex + 1)..(idx - 1)
              BY <1>1, <3>3, <4>2, <4>3, <5>3, <6>1
            <7> QED
              BY <1>1, <4>1, <5>1, <5>2, <5>3, <6>1, <7>1 DEF Between
          <6>2. CASE ~(idx > lastIndex)
            <7>1. i \in (lastIndex + 1)..(BucketNum - 1) \/ i \in 0..(idx - 1)
              BY <1>1, <3>3, <4>2, <4>3, <5>3, <6>2
            <7> QED
              BY <1>1, <4>1, <5>1, <5>2, <5>3, <6>2, <7>1 DEF Between
          <6> QED
            BY <6>1, <6>2
        <5>4. CASE ~(k < d)
          <6>1. Slot(k)' \notin Between(idx) /\ Slot(k)' = Slot(k - d)
            BY <1>1, <3>3, <4>2, <4>3, <5>1, <5>4 DEF Between, Slot
          <6> QED
            BY <1>1, <4>1, <5>2, <5>4, <6>1
        <5> QED
          BY <5>3, <5>4
      <4>5. buckets' \in [Ring -> 0..MaxInFlight] /\ buckets'[idx] = lastVal + v
        BY <1>1, <2>2, <4>1, <4>3
      <4> QED
        BY <4>1, <4>3, <4>4, <4>5
    <3> QED
      <4>1. d = 0 \/ d > BucketNum \/ (d > 0 /\ d <= BucketNum)
        BY <1>1, <2>1
      <4> QED
        BY <4>1, <3>1, <3>2, <3>3
  <2>4. WindowTypeOK'
    BY <1>1, <1>2, <2>3 DEF WindowTypeOK
  <2>5. ASSUME NEW k \in Ring
        PROVE  buckets'[Slot(k)'] = LoadAt(lastUpdatedAt - k)'
    <3>1. LoadAt(lastUpdatedAt - k)' = IF second - k < 0 THEN 0 ELSE load'[second - k]
      BY <1>2 DEF LoadAt
    <3>2. CASE k = 0
      <4>1. lastIndex' \in 0..(BucketNum - 1)
        BY <2>3
      <4>2. Slot(k)' = lastIndex'
        <5>1. Slot(k)' = IF k <= lastIndex' THEN lastIndex' - k ELSE lastIndex' - k + BucketNum
          BY DEF Slot
        <5> QED
          BY <1>1, <3>2, <4>1, <5>1
      <4> QED
        BY <1>1, <2>2, <2>3, <3>1, <3>2, <4>2
    <3>3. CASE k # 0 /\ k < d
      <4>1. second - k \in lastUpdatedAt..second /\ second - k # second /\ second - k \in 0..second
        BY <1>1, <2>1, <3>3
      <4>2. load'[second - k] = lastVal
        BY <1>2, <2>1, <4>1
      <4>3. k \in 1..(BucketNum - 1)
        BY <1>1, <3>3
      <4> QED
        BY <1>1, <2>3, <3>1, <3>3, <4>1, <4>2, <4>3
    <3>4. CASE k # 0 /\ ~(k < d)
      <4>1. k \in 1..(BucketNum - 1) /\ k - d \in Ring /\ lastUpdatedAt - (k - d) = second - k
        BY <1>1, <2>1, <3>4
      <4>2. buckets'[Slot(k)'] = LoadAt(second - k)
        BY <2>1, <2>3, <3>4, <4>1
      <4>3. second - k >= 0 => second - k \in 0..second /\ second - k # second
        BY <1>1, <4>1
      <4> QED
        BY <1>2, <3>1, <4>2, <4>3 DEF LoadAt
    <3> QED
      BY <3>2, <3>3, <3>4
  <2>6. \A s \in second..second : load'[s] = buckets'[lastIndex']
    BY <1>1, <2>2, <2>3
  <2> QED
    BY <1>1, <1>2, <2>4, <2>5, <2>6 DEF WindowInv, RingIsLoad, NothingAdded
<1> QED
  BY <1>3, <1>4

LEMMA SecondPassesInRing ==
  ASSUME WindowInv, SecondPasses
  PROVE  WindowInv'
<1>1. /\ BucketNum \in Nat /\ BucketNum > 0 /\ MaxInFlight \in Nat /\ MaxSeconds \in Nat
      /\ second \in Nat /\ lastUpdatedAt \in Int /\ second' = second + 1
      /\ second < MaxSeconds /\ lastUpdatedAt <= second /\ lastUpdatedAt >= -1
      /\ load \in [0..second -> 0..MaxInFlight]
  BY WindowAssumption DEF WindowInv, WindowTypeOK, SecondPasses
<1>2. /\ load' \in [0..second' -> 0..MaxInFlight] /\ load'[second'] = load[second]
      /\ \A s \in 0..second : load'[s] = load[s]
  BY <1>1 DEF SecondPasses, InFlight
<1>3. UNCHANGED <<buckets, lastIndex, lastUpdatedAt>>
  BY DEF SecondPasses
<1>4. WindowTypeOK'
  BY <1>1, <1>2, <1>3 DEF WindowInv, WindowTypeOK
<1>5. NothingAdded'
  <2>1. \A s \in 0..second' : s \in 0..second \/ s = second'
    BY <1>1
  <2> QED
    BY <1>1, <1>2, <1>3, <2>1 DEF WindowInv, NothingAdded
<1>6. ASSUME lastUpdatedAt # -1
      PROVE  /\ \A k \in 0..(BucketNum - 1) : buckets'[Slot(k)'] = LoadAt(lastUpdatedAt - k)'
             /\ \A s \in lastUpdatedAt..second' : load'[s] = buckets'[lastIndex']
  <2>1. /\ \A k \in 0..(BucketNum - 1) : buckets[Slot(k)] = LoadAt(lastUpdatedAt - k)
        /\ \A s \in lastUpdatedAt..second : load[s] = buckets[lastIndex]
    BY <1>6 DEF WindowInv, RingIsLoad
  <2>2. ASSUME NEW k \in 0..(BucketNum - 1)
        PROVE  Slot(k)' = Slot(k) /\ LoadAt(lastUpdatedAt - k)' = LoadAt(lastUpdatedAt - k)
    <3>1. lastUpdatedAt - k < 0 \/ lastUpdatedAt - k \in 0..second
      BY <1>1
    <3> QED
      BY <1>2, <1>3, <3>1 DEF Slot, LoadAt
  <2>3. ASSUME NEW s \in lastUpdatedAt..second'
        PROVE  load'[s] = buckets[lastIndex]
    <3>1. (s \in lastUpdatedAt..second /\ s \in 0..second) \/ s = second'
      BY <1>1, <1>6
    <3>2. load[second] = buckets[lastIndex]
      BY <1>1, <2>1
    <3> QED
      BY <1>2, <2>1, <3>1, <3>2
  <2> QED
    BY <1>3, <2>1, <2>2, <2>3
<1> QED
  BY <1>3, <1>4, <1>5, <1>6 DEF WindowInv, RingIsLoad

LEMMA SumOfZeros ==
  ASSUME NEW f, NEW S, IsFiniteSet(S), \A x \in S : f[x] = 0
  PROVE  SumFunctionOnSet(f, S) = 0
<1> DEFINE F == {T \in SUBSET S : SumFunctionOnSet(f, T) # 0}
<1>1. CASE F = {}
  BY <1>1
<1>2. CASE F # {}
  <2>1. PICK T \in F : \A U \in F : U \subseteq T => U = T
    <3>1. F \subseteq SUBSET S
      OBVIOUS
    <3> HIDE DEF F
    <3> QED
      BY <1>2, <3>1, SmallestSubset
  <2>2. T \in SUBSET S /\ IsFiniteSet(T) /\ SumFunctionOnSet(f, T) # 0
    BY FS_Subset
  <2>3. T # {} /\ Pick(T) \in T /\ f[Pick(T)] = 0
    BY <2>2, SumOfNone, PickIsMember
  <2>4. SumFunctionOnSet(f, T \ {Pick(T)}) = 0
    BY <2>1, <2>2, <2>3
  <2> QED
    BY <2>2, <2>3, <2>4, SumStep
<1> QED
  BY <1>1, <1>2

Slots(n) == {Slot(k) : k \in 1..n}

\* The seconds that the window of n seconds before the last one is made of.
Seconds(n) == {s \in (lastUpdatedAt - n)..(second - 1) : s >= 0}

\* Since the last addition the load has not changed,
LEMMA LoadSinceLast ==
  ASSUME WindowInv, lastUpdatedAt # -1, NEW n \in 0..(second - lastUpdatedAt)
  PROVE  SumFunctionOnSet(load, (second - n)..(second - 1)) = buckets[lastIndex] * n
<1> DEFINE Latest(m) == (second - m)..(second - 1)
           F == {m \in 0..(second - lastUpdatedAt) : SumFunctionOnSet(load, Latest(m)) # buckets[lastIndex] * m}
<1>1. /\ second \in Nat /\ lastUpdatedAt \in Nat /\ lastUpdatedAt <= second
      /\ buckets[lastIndex] \in Nat /\ \A s \in 0..second : load[s] \in Int
      /\ \A s \in lastUpdatedAt..second : load[s] = buckets[lastIndex]
  BY WindowAssumption DEF WindowInv, WindowTypeOK, RingIsLoad
<1>2. CASE F = {}
  BY <1>2
<1>3. CASE F # {}
  <2>1. PICK m \in F : \A i \in F : m <= i
    <3>1. F \subseteq Nat
      BY <1>1
    <3> HIDE DEF F
    <3> QED
      BY <1>3, <3>1, SmallestNumber
  <2>2. m \in Nat /\ m <= second - lastUpdatedAt /\ SumFunctionOnSet(load, Latest(m)) # buckets[lastIndex] * m
    BY <1>1
  <2>3. m # 0
    <3>1. Latest(0) = {}
      BY <1>1
    <3>2. SumFunctionOnSet(load, Latest(0)) = 0
      BY <3>1, SumOfNone
    <3>3. buckets[lastIndex] * 0 = 0
      BY <1>1
    <3> HIDE DEF Latest
    <3> QED
      BY <2>2, <3>2, <3>3
  <2> DEFINE z == second - m
  <2>4. SumFunctionOnSet(load, Latest(m - 1)) = buckets[lastIndex] * (m - 1)
    <3>1. m - 1 \in 0..(second - lastUpdatedAt) /\ ~(m <= m - 1)
      BY <1>1, <2>2, <2>3
    <3> HIDE DEF Latest
    <3> QED
      BY <2>1, <3>1
  <2>5. /\ Latest(m) = Latest(m - 1) \cup {z} /\ z \notin Latest(m - 1)
        /\ z \in lastUpdatedAt..second
        /\ Latest(m) \subseteq 0..second
    BY <1>1, <2>2, <2>3
  <2>6. IsFiniteSet(Latest(m - 1))
    BY <1>1, <2>2, FS_Interval
  <2>7. SumFunctionOnSet(load, Latest(m)) = load[z] + SumFunctionOnSet(load, Latest(m - 1))
    <3>1. \A x \in Latest(m - 1) \cup {z} : load[x] \in Int
      BY <1>1, <2>5
    <3> HIDE DEF Latest, z
    <3> QED
      BY <2>5, <2>6, <3>1, SumWith
  <2>8. load[z] = buckets[lastIndex]
    BY <1>1, <2>5
  <2>9. buckets[lastIndex] + buckets[lastIndex] * (m - 1) = buckets[lastIndex] * m
    <3> DEFINE b == buckets[lastIndex]
    <3>1. b \in Int /\ m \in Int
      BY <1>1, <2>2
    <3> HIDE DEF b
    <3>2. b + b * (m - 1) = b * m
      BY <3>1
    <3> QED
      BY <3>2 DEF b
  <2> HIDE DEF Latest, z
  <2> QED
    BY <2>2, <2>4, <2>7, <2>8, <2>9
<1> QED
  BY <1>2, <1>3

\* and before it the ring has what it was.
LEMMA LoadOfSlots ==
  ASSUME WindowInv, lastUpdatedAt # -1, NEW n \in 0..(BucketNum - 1)
  PROVE  /\ SumFunctionOnSet(load, Seconds(n)) =
              buckets[lastIndex] * (second - lastUpdatedAt) + SumFunctionOnSet(buckets, Slots(n))
         /\ IsFiniteSet(Slots(n))
<1> DEFINE Since == buckets[lastIndex] * (second - lastUpdatedAt)
           Agrees(m) == SumFunctionOnSet(load, Seconds(m)) = Since + SumFunctionOnSet(buckets, Slots(m))
           F == {m \in 0..(BucketNum - 1) : ~Agrees(m)}
<1>1. /\ second \in Nat /\ lastUpdatedAt \in Nat /\ lastUpdatedAt <= second
      /\ BucketNum \in Nat /\ BucketNum > 0
      /\ buckets[lastIndex] \in Nat /\ \A s \in 0..second : load[s] \in Int
      /\ \A k \in 0..(BucketNum - 1) : buckets[Slot(k)] = LoadAt(lastUpdatedAt - k)
  BY WindowAssumption DEF WindowInv, WindowTypeOK, RingIsLoad
<1>6. \A k \in 0..(BucketNum - 1) : buckets[Slot(k)] \in Nat
  BY SlotInRing DEF WindowInv
<1>2. Since \in Int
  BY <1>1
<1>3. ASSUME NEW m \in 0..(BucketNum - 1)
      PROVE  /\ IsFiniteSet(Slots(m)) /\ \A i \in Slots(m) : buckets[i] \in Int
             /\ IsFiniteSet(Seconds(m)) /\ Seconds(m) \subseteq 0..second
  <2>1. IsFiniteSet(1..m) /\ IsFiniteSet(0..second)
    <3>1. 1 \in Int /\ m \in Int /\ 0 \in Int /\ second \in Int
      BY <1>1
    <3> QED
      BY <3>1, FS_Interval
  <2>2. IsFiniteSet(Slots(m))
    <3>1. \A k \in 1..m : k \in 0..(BucketNum - 1)
      BY <1>1
    <3>2. Slots(m) \subseteq 0..(BucketNum - 1)
      BY <3>1, SlotInRing DEF Slots, WindowInv
    <3>3. IsFiniteSet(0..(BucketNum - 1))
      <4>1. 0 \in Int /\ BucketNum - 1 \in Int
        BY <1>1
      <4> QED
        BY <4>1, FS_Interval
    <3> QED
      BY <3>2, <3>3, FS_Subset
  <2>3. Seconds(m) \subseteq 0..second
    BY <1>1 DEF Seconds
  <2>4. \A i \in Slots(m) : buckets[i] \in Int
    <3>1. 1..m \subseteq 0..(BucketNum - 1)
      BY <1>1
    <3> QED
      BY <1>6, <3>1 DEF Slots
  <2> QED
    BY <2>1, <2>2, <2>3, <2>4, FS_Subset
<1>4. CASE F = {}
  BY <1>3, <1>4
<1>5. CASE F # {}
  <2>1. PICK m \in F : \A i \in F : m <= i
    <3>1. F \subseteq Nat
      BY <1>1
    <3> HIDE DEF F
    <3> QED
      BY <1>5, <3>1, SmallestNumber
  <2>2. m \in Nat /\ m < BucketNum /\ ~Agrees(m)
    BY <1>1
  <2>3. m # 0
    <3>1. Seconds(0) = (second - (second - lastUpdatedAt))..(second - 1)
      BY <1>1 DEF Seconds
    <3>2. SumFunctionOnSet(load, Seconds(0)) = Since
      <4>1. second - lastUpdatedAt \in 0..(second - lastUpdatedAt)
        BY <1>1
      <4> QED
        BY <3>1, <4>1, LoadSinceLast
    <3>3. SumFunctionOnSet(buckets, Slots(0)) = 0
      <4>1. Slots(0) = {}
        BY DEF Slots
      <4> QED
        BY <4>1, SumOfNone
    <3> HIDE DEF Since
    <3> QED
      BY <1>2, <2>2, <3>2, <3>3
  <2> DEFINE z == lastUpdatedAt - m
             i == Slot(m)
  <2> HIDE DEF Since
  <2>4. m - 1 \in 0..(BucketNum - 1) /\ m \in 0..(BucketNum - 1) /\ ~(m <= m - 1)
    BY <1>1, <2>2, <2>3
  <2>5. Agrees(m - 1)
    <3> HIDE DEF Agrees
    <3> QED
      BY <2>1, <2>4
  <2>6. Slots(m) = Slots(m - 1) \cup {i} /\ i \notin Slots(m - 1)
    <3>1. 1..m = 1..(m - 1) \cup {m} /\ m \notin 1..(m - 1)
      BY <2>2, <2>3
    <3>2. \A k \in 1..(m - 1) : Slot(k) # i
      <4>1. \A k \in 1..(m - 1) : k \in 0..(BucketNum - 1)
        BY <1>1, <2>2
      <4> QED
        BY <2>4, <3>1, <4>1, SlotInRing DEF WindowInv
    <3> QED
      BY <3>1, <3>2 DEF Slots
  <2>7. SumFunctionOnSet(buckets, Slots(m)) = buckets[i] + SumFunctionOnSet(buckets, Slots(m - 1))
    <3> HIDE DEF i
    <3> QED
      BY <1>3, <2>4, <2>6, SumWith
  <2>8. SumFunctionOnSet(load, Seconds(m)) = buckets[i] + SumFunctionOnSet(load, Seconds(m - 1))
    <3>1. CASE z < 0
      <4>1. Seconds(m) = Seconds(m - 1)
        BY <1>1, <2>2, <3>1 DEF Seconds
      <4>2. buckets[i] = 0
        BY <1>1, <2>4, <3>1 DEF LoadAt
      <4>3. SumFunctionOnSet(load, Seconds(m - 1)) \in Int
        BY <1>1, <1>3, <2>4, SumIsInt
      <4> QED
        BY <4>1, <4>2, <4>3
    <3>2. CASE ~(z < 0)
      <4>1. Seconds(m) = Seconds(m - 1) \cup {z} /\ z \notin Seconds(m - 1)
        <5>1. \A s \in Int : /\ s >= lastUpdatedAt - m <=> s >= lastUpdatedAt - (m - 1) \/ s = z
                             /\ s = z => s <= second - 1 /\ s >= 0 /\ ~(s >= lastUpdatedAt - (m - 1))
          BY <1>1, <2>2, <2>3, <3>2
        <5>2. \A j \in Int : \A s : s \in Seconds(j) <=>
                  s \in Int /\ s >= lastUpdatedAt - j /\ s <= second - 1 /\ s >= 0
          BY <1>1 DEF Seconds
        <5>3. m \in Int /\ m - 1 \in Int /\ z \in Int
          BY <1>1, <2>2
        <5> HIDE DEF z
        <5>4. \A s : s \in Seconds(m) <=> s \in Seconds(m - 1) \/ s = z
          BY <5>1, <5>2, <5>3
        <5> QED
          BY <5>1, <5>2, <5>3, <5>4
      <4>2. load[z] = buckets[i]
        BY <1>1, <2>4, <3>2 DEF LoadAt
      <4>3. \A x \in Seconds(m - 1) \cup {z} : load[x] \in Int
        BY <1>1, <1>3, <2>4, <4>1
      <4> HIDE DEF z, i
      <4> QED
        BY <1>3, <2>4, <4>1, <4>2, <4>3, SumWith
    <3> QED
      BY <3>1, <3>2
  <2>9. /\ buckets[i] \in Nat
        /\ SumFunctionOnSet(load, Seconds(m - 1)) \in Int
        /\ SumFunctionOnSet(buckets, Slots(m - 1)) \in Int
    BY <1>1, <1>3, <1>6, <2>4, SumIsInt
  <2> HIDE DEF i
  <2> QED
    BY <1>2, <2>2, <2>5, <2>7, <2>8, <2>9
<1> QED
  BY <1>4, <1>5

\* What average adds up.
LEMMA TotalIsLoad ==
  ASSUME WindowInv
  PROVE  AverageIsExact
<1> DEFINE d == second - lastUpdatedAt
           idx == (lastIndex + d) % BucketNum
           last == IF lastUpdatedAt = second THEN second ELSE second - 1
           window == {s \in (last - BucketNum + 1)..last : s >= 0}
           old == IF idx < lastIndex THEN idx..(lastIndex - 1)
                  ELSE idx..(BucketNum - 1) \cup 0..(lastIndex - 1)
<1>1. /\ second \in Nat /\ lastUpdatedAt \in Int /\ lastUpdatedAt <= second /\ lastUpdatedAt >= -1
      /\ BucketNum \in Nat /\ BucketNum > 0 /\ lastIndex \in 0..(BucketNum - 1)
      /\ buckets[lastIndex] \in Nat
      /\ \A s \in 0..second : load[s] \in Int
      /\ \A i \in 0..(BucketNum - 1) : buckets[i] \in Int
  BY WindowAssumption DEF WindowInv, WindowTypeOK
<1>2. SUFFICES WindowTotal = SumFunctionOnSet(load, window)
  BY DEF AverageIsExact
<1>3. IsFiniteSet(window) /\ window \subseteq 0..second
  <2>1. window \subseteq 0..second
    BY <1>1
  <2>2. IsFiniteSet(0..second)
    <3>1. 0 \in Int /\ second \in Int
      BY <1>1
    <3> QED
      BY <3>1, FS_Interval
  <2> HIDE DEF window
  <2> QED
    BY <2>1, <2>2, FS_Subset
<1>4. CASE lastUpdatedAt = -1
  <2>1. \A s \in window : load[s] = 0
    BY <1>3, <1>4 DEF WindowInv, NothingAdded
  <2>2. SumFunctionOnSet(load, window) = 0
    <3> HIDE DEF window
    <3> QED
      BY <1>3, <2>1, SumOfZeros
  <2> QED
    BY <1>4, <2>2 DEF WindowTotal
<1>5. CASE lastUpdatedAt # -1 /\ d >= BucketNum
  <2>1. window = (second - BucketNum)..(second - 1) /\ BucketNum \in 0..(second - lastUpdatedAt)
    BY <1>1, <1>5
  <2>2. SumFunctionOnSet(load, window) = buckets[lastIndex] * BucketNum
    BY <1>5, <2>1, LoadSinceLast
  <2>3. WindowTotal = buckets[lastIndex] * BucketNum
    BY <1>5 DEF WindowTotal
  <2> HIDE DEF window
  <2> QED
    BY <2>2, <2>3
<1>6. CASE lastUpdatedAt # -1 /\ ~(d >= BucketNum)
  <2>1. d \in Nat /\ d < BucketNum /\ lastUpdatedAt \in Nat
    BY <1>1, <1>6
  <2>2. WindowTotal = buckets[lastIndex] * d + SumFunctionOnSet(buckets, old)
    BY <1>6 DEF WindowTotal
  <2>3. idx = IF lastIndex + d < BucketNum THEN lastIndex + d ELSE (lastIndex + d) - BucketNum
    <3> DEFINE a == lastIndex + d
    <3>1. a \in Nat /\ a < 2 * BucketNum
      BY <1>1, <2>1
    <3>2. idx = a % BucketNum
      OBVIOUS
    <3> HIDE DEF a, idx, d
    <3>3. a % BucketNum = IF a < BucketNum THEN a ELSE a - BucketNum
      BY <1>1, <3>1, ModOnce
    <3>4. idx = IF a < BucketNum THEN a ELSE a - BucketNum
      BY <3>2, <3>3, Zenon
    <3> QED
      BY <1>1, <3>1, <3>4 DEF a, d
  <2> HIDE DEF idx
  <2>4. CASE d = 0
    <3> DEFINE n == BucketNum - 1
    <3>1. n \in 0..(BucketNum - 1) /\ lastUpdatedAt = second /\ last = second
      BY <1>1, <2>4
    <3>2. old = Slots(n) \cup {lastIndex} /\ lastIndex \notin Slots(n)
      <4>1. old = 0..(BucketNum - 1)
        <5>1. idx = lastIndex
          BY <1>1, <2>3, <2>4
        <5>2. idx..(BucketNum - 1) \cup 0..(idx - 1) = 0..(BucketNum - 1) /\ ~(idx < lastIndex)
          BY <1>1, <5>1
        <5> HIDE DEF idx
        <5> QED
          BY <5>1, <5>2
      <4>2. \A k \in 1..n : Slot(k) \in 0..(BucketNum - 1) /\ Slot(k) # lastIndex
        BY <1>1 DEF Slot
      <4>3. ASSUME NEW i \in 0..(BucketNum - 1), i # lastIndex
            PROVE  \E k \in 1..n : i = Slot(k)
        <5> DEFINE k == IF i < lastIndex THEN lastIndex - i ELSE lastIndex - i + BucketNum
        <5>1. k \in 1..n /\ i = Slot(k)
          BY <1>1, <4>3 DEF Slot
        <5> QED
          BY <5>1
      <4> HIDE DEF old, n
      <4> QED
        BY <1>1, <4>1, <4>2, <4>3 DEF Slots
    <3>3. window = Seconds(n) \cup {second} /\ second \notin Seconds(n)
      BY <1>1, <3>1 DEF Seconds
    <3> HIDE DEF n, old, window
    <3>4. /\ SumFunctionOnSet(load, Seconds(n)) =
               buckets[lastIndex] * (second - lastUpdatedAt) + SumFunctionOnSet(buckets, Slots(n))
          /\ IsFiniteSet(Slots(n))
      BY <1>6, <3>1, LoadOfSlots
    <3>5. SumFunctionOnSet(load, window) = load[second] + SumFunctionOnSet(load, Seconds(n))
      <4>1. IsFiniteSet(Seconds(n)) /\ \A x \in Seconds(n) \cup {second} : load[x] \in Int
        BY <1>1, <1>3, <3>3, FS_Subset
      <4> QED
        BY <3>3, <4>1, SumWith
    <3>6. \A x \in Slots(n) \cup {lastIndex} : buckets[x] \in Int
      <4>1. \A k \in 1..n : k \in 0..(BucketNum - 1)
        BY <1>1 DEF n
      <4>2. \A k \in 1..n : Slot(k) \in 0..(BucketNum - 1)
        BY <4>1, SlotInRing DEF WindowInv
      <4> QED
        BY <1>1, <4>2 DEF Slots
    <3>7. SumFunctionOnSet(buckets, old) = buckets[lastIndex] + SumFunctionOnSet(buckets, Slots(n))
      BY <3>2, <3>4, <3>6, SumWith
    <3>8. load[second] = buckets[lastIndex]
      BY <1>1, <1>6, <3>1 DEF WindowInv, RingIsLoad
    <3>9. SumFunctionOnSet(buckets, Slots(n)) \in Int /\ buckets[lastIndex] * (second - lastUpdatedAt) = 0
      BY <1>1, <3>1, <3>4, <3>6, SumIsInt
    <3>10. buckets[lastIndex] * d = 0
      BY <1>1, <2>4
    <3> HIDE DEF d
    <3> QED
      BY <1>1, <2>2, <3>4, <3>5, <3>7, <3>8, <3>9, <3>10
  <2>5. CASE d # 0
    <3> DEFINE n == BucketNum - d
    <3>1. n \in 0..(BucketNum - 1)
      BY <1>1, <2>1, <2>5
    <3>2. old = Slots(n)
      <4>1. \A k \in 1..n : Slot(k) \in old
        BY <1>1, <2>1, <2>3, <2>5 DEF Slot
      <4>2. ASSUME NEW i \in old
            PROVE  \E k \in 1..n : i = Slot(k)
        <5> DEFINE k == IF i < lastIndex THEN lastIndex - i ELSE lastIndex - i + BucketNum
        <5>1. k \in 1..n /\ i = Slot(k)
          BY <1>1, <2>1, <2>3, <2>5 DEF Slot
        <5> QED
          BY <5>1
      <4> HIDE DEF old, n
      <4> QED
        BY <4>1, <4>2 DEF Slots
    <3>3. window = Seconds(n)
      BY <1>1, <2>1, <2>5 DEF Seconds
    <3>4. SumFunctionOnSet(load, Seconds(n)) =
            buckets[lastIndex] * (second - lastUpdatedAt) + SumFunctionOnSet(buckets, Slots(n))
      <4> HIDE DEF n
      <4> QED
        BY <1>6, <3>1, LoadOfSlots
    <3> HIDE DEF old, window, n
    <3> QED
      BY <2>2, <3>2, <3>3, <3>4
  <2> QED
    BY <2>4, <2>5
<1> QED
  BY <1>4, <1>5, <1>6

-----------------------------------------------------------------------------
(***************************************************************************)
(* The scaler.                                                             *)
(***************************************************************************)
LEMMA CeilIsNat ==
  ASSUME NEW a \in Nat, NEW b \in Nat, b > 0
  PROVE  CeilDiv(a, b) \in Nat /\ (CeilDiv(a, b) = 0 => a = 0)
<1> DEFINE c == a + b - 1
           q == c \div b
           r == c % b
<1>1. c \in Nat /\ (a # 0 => c >= b)
  OBVIOUS
<1>2. CeilDiv(a, b) = q
  BY DEF CeilDiv
<1> HIDE DEF c
<1>3. q \in Int /\ r \in 0..(b - 1) /\ c = b * q + r
  BY <1>1
<1> HIDE DEF q, r
<1>4. q > -1
  <2>1. ASSUME q <= -1 PROVE FALSE
    <3>1. b * q <= b * (-1)
      BY <1>3, <2>1
    <3> QED
      BY <1>1, <1>3, <3>1
  <2> QED
    BY <1>3, <2>1
<1>5. q = 0 => a = 0
  BY <1>1, <1>3
<1> QED
  BY <1>2, <1>3, <1>4, <1>5

LEMMA FloorIsNat ==
  ASSUME NEW a \in Nat, NEW b \in Nat
  PROVE  /\ (a * b) \div 100 \in Nat
         /\ b <= 100 => (a * b) \div 100 <= a
<1> DEFINE c == a * b
<1>1. c \in Nat /\ (b <= 100 => c <= a * 100)
  OBVIOUS
<1> HIDE DEF c
<1>2. c \div 100 \in Nat /\ (b <= 100 => c \div 100 <= a)
  BY <1>1
<1> QED
  BY <1>2 DEF c

LEMMA FreeNumber ==
  ASSUME ScaleTypeOK, Unused # {}
  PROVE  Min(Unused) \in Scalers /\ ~goroutines[Min(Unused)].running
<1>1. Unused \subseteq Nat /\ Unused \subseteq Scalers
  BY ScaleAssumption DEF Unused
<1>2. PICK g \in Unused : \A h \in Unused : g <= h
  BY <1>1, SmallestNumber
<1>3. Min(Unused) \in Unused
  BY <1>2 DEF Min
<1> QED
  BY <1>1, <1>3 DEF Unused

LEMMA DesiredIsNat ==
  ASSUME ScaleTypeOK, WindowInv
  PROVE  /\ WindowTotal \in Nat
         /\ DesiredReplicas \in Nat
         /\ DesiredReplicas = 0 => WindowTotal = 0
<1> DEFINE last == IF lastUpdatedAt = second THEN second ELSE second - 1
           window == {s \in (last - BucketNum + 1)..last : s >= 0}
<1>1. /\ second \in Nat /\ \A s \in 0..second : load[s] \in Nat
      /\ lastUpdatedAt \in Int /\ lastUpdatedAt <= second
      /\ BucketNum \in Nat /\ BucketNum > 0 /\ readyReplicas \in Nat
  BY WindowAssumption, ScaleAssumption DEF WindowInv, WindowTypeOK, ScaleTypeOK, ReplicaCounts
<1>2. WindowTotal = SumFunctionOnSet(load, window)
  BY TotalIsLoad DEF AverageIsExact
<1>3. window \subseteq 0..second
  BY <1>1
<1>4. IsFiniteSet(0..second)
  <2>1. 0 \in Int /\ second \in Int
    BY <1>1
  <2> QED
    BY <2>1, FS_Interval
<1>5. WindowTotal \in Nat
  <2> HIDE DEF window
  <2> QED
    BY <1>1, <1>2, <1>3, <1>4, FS_Subset, SumIsNat
<1> DEFINE b == BucketNum * Largest(readyReplicas, 1) * ScaleTargetValue
<1>6. b \in Nat /\ b > 0
  <2>1. Largest(readyReplicas, 1) \in Nat /\ Largest(readyReplicas, 1) > 0
    BY <1>1 DEF Largest
  <2>2. \A i, j \in Nat : i > 0 /\ j > 0 => i * j \in Nat /\ i * j > 0
    OBVIOUS
  <2>3. ScaleTargetValue \in Nat /\ ScaleTargetValue > 0
    BY ScaleAssumption
  <2> DEFINE i == BucketNum * Largest(readyReplicas, 1)
  <2>4. i \in Nat /\ i > 0
    BY <1>1, <2>1, <2>2
  <2> HIDE DEF i
  <2>5. i * ScaleTargetValue \in Nat /\ i * ScaleTargetValue > 0
    BY <2>2, <2>3, <2>4
  <2> QED
    BY <2>5 DEF i
<1>7. DesiredReplicas = CeilDiv(WindowTotal, b)
  BY DEF DesiredReplicas
<1> HIDE DEF b
<1> QED
  BY <1>5, <1>6, <1>7, CeilIsNat

\* What a scaling asks for.
LEMMA AskedReplicas ==
  ASSUME ScaleTypeOK, WindowInv, specReplicas # NoSts0, NEW since \in Int
  PROVE  LET n == WithinBounds(DesiredReplicas)
             new == Limited(Graced(n, since))
         IN  /\ n \in Nat /\ new \in ReplicaCounts
             /\ new = 0 => n = 0 /\ second - since >= ScaleToZeroGracePeriod
             /\ n = 0 => WindowTotal = 0
<1> DEFINE d == DesiredReplicas
           n == WithinBounds(d)
           gr == Graced(n, since)
           new == Limited(gr)
           down == (readyReplicas * MaxScaleDownRate) \div 100
           top == Largest(DeployedReplicas, MaxScale)
           up == CeilDiv(Largest(1, readyReplicas) * MaxScaleUpRate, 100)
<1>1. /\ d \in Nat /\ (d = 0 => WindowTotal = 0)
      /\ MinScale \in Nat /\ MaxScale \in Nat /\ (MaxScale # 0 => MinScale <= MaxScale)
      /\ second \in Nat /\ ScaleToZeroGracePeriod \in Nat
      /\ MaxScaleUpRate \in Nat /\ MaxScaleUpRate > 0 /\ MaxScaleDownRate \in Nat
      /\ readyReplicas \in ReplicaCounts /\ specReplicas \in ReplicaCounts
      /\ DeployedReplicas \in Nat
  BY DesiredIsNat, WindowAssumption, ScaleAssumption DEF WindowInv, WindowTypeOK, ScaleTypeOK
<1>2. /\ top \in Nat /\ MaxScale <= top
      /\ ReplicaCounts = IF MaxScale > 0 /\ MaxScaleDownRate <= 100 THEN 0..top ELSE Nat
      /\ readyReplicas \in Nat /\ specReplicas \in Nat
      /\ (MaxScale > 0 /\ MaxScaleDownRate <= 100 => readyReplicas <= top)
  BY <1>1 DEF Largest, ReplicaCounts
<1>3. down \in Nat /\ (MaxScaleDownRate <= 100 => down <= readyReplicas)
  BY <1>1, <1>2, FloorIsNat
<1>4. up \in Nat /\ up > 0
  <2> DEFINE l == Largest(1, readyReplicas)
             a == l * MaxScaleUpRate
  <2>1. l \in Nat /\ l > 0
    BY <1>2 DEF Largest
  <2> HIDE DEF l
  <2>2. a \in Nat /\ a > 0
    BY <1>1, <2>1
  <2> HIDE DEF a
  <2>3. CeilDiv(a, 100) \in Nat /\ CeilDiv(a, 100) # 0
    BY <2>2, CeilIsNat
  <2> QED
    BY <2>3 DEF a, l
<1> HIDE DEF d, up, down, top
<1>5. /\ n \in Nat /\ (MaxScale > 0 => n <= MaxScale)
      /\ (n = 0 => d = 0)
  BY <1>1 DEF WithinBounds, Largest, Smallest
<1> HIDE DEF n
<1>6. /\ gr \in Nat /\ (MaxScale > 0 => gr <= MaxScale)
      /\ gr = 0 => n = 0 /\ second - since >= ScaleToZeroGracePeriod
  BY <1>1, <1>5 DEF Graced
<1> HIDE DEF gr
<1>7. new = IF gr < specReplicas THEN Largest(gr, down)
            ELSE IF gr > specReplicas THEN Smallest(gr, up) ELSE gr
  BY DEF Limited, down, up
<1> HIDE DEF new
<1>8. /\ new \in Nat /\ (new = 0 => gr = 0)
      /\ (MaxScale > 0 /\ MaxScaleDownRate <= 100 => new <= top)
  BY <1>1, <1>2, <1>3, <1>4, <1>6, <1>7 DEF Largest, Smallest
<1>9. new \in ReplicaCounts
  BY <1>2, <1>8
<1> QED
  BY <1>1, <1>5, <1>6, <1>8, <1>9 DEF n, gr, new, d

LEMMA ScaleTypeInit == AutoscalerInit => ScaleTypeOK /\ WindowInv
<1> SUFFICES ASSUME AutoscalerInit PROVE ScaleTypeOK /\ WindowInv
  OBVIOUS
<1>1. WindowInv
  <2>1. WindowTypeOK
    BY WindowAssumption DEF AutoscalerInit, WindowInit, WindowTypeOK
  <2> QED
    BY <2>1, WindowAssumption DEF AutoscalerInit, WindowInit, WindowInv, NothingAdded, RingIsLoad
<1>2. 0 \in ReplicaCounts
  BY ScaleAssumption DEF ReplicaCounts, Largest
<1>3. -1 \in -1..MaxSeconds
  BY WindowAssumption
<1> QED
  BY <1>1, <1>2, <1>3 DEF AutoscalerInit, ScaleTypeOK, WindowInv

LEMMA ScaleTypeNext == ScaleTypeOK /\ WindowInv /\ [AutoscalerNext]_autoscalerVars => ScaleTypeOK' /\ WindowInv'
<1> SUFFICES ASSUME ScaleTypeOK, WindowInv, [AutoscalerNext]_autoscalerVars
             PROVE  ScaleTypeOK' /\ WindowInv'
  OBVIOUS
<1> USE DEF ScaleTypeOK
<1>1. CASE LoadChanges /\ UNCHANGED scaleVars
  <2>1. PICK v \in {-1, 1} : /\ InFlight + v \in 0..MaxInFlight
                             /\ load' = [load EXCEPT ![second] = @ + v]
                             /\ WindowAdd(v)
                             /\ UNCHANGED second
    BY <1>1 DEF LoadChanges
  <2>2. WindowInv'
    BY <2>1, AddToRing
  <2> QED
    BY <1>1, <2>2 DEF WindowInv, scaleVars
<1>2. CASE Passes
  <2>1. WindowInv'
    BY <1>2, SecondPassesInRing DEF Passes
  <2> QED
    BY <1>2, <2>1 DEF WindowInv, scaleVars, Passes
<1>3. ASSUME UNCHANGED windowVars PROVE WindowInv'
  BY <1>3 DEF windowVars, WindowInv, WindowTypeOK, NothingAdded, RingIsLoad, Slot, LoadAt
<1>4. DeployedReplicas \in ReplicaCounts /\ 0 \in ReplicaCounts /\ ReplicaCounts \subseteq Nat
  BY ScaleAssumption DEF ReplicaCounts, Largest
<1>5. CASE Register
  <2>1. Min(Unused) \in Scalers
    BY <1>5, FreeNumber DEF Register
  <2> HIDE DEF ScaleTypeOK
  <2>2. goroutines' \in [Scalers -> [running : BOOLEAN, lastTransitToZero : -1..MaxSeconds,
                                 scaledAt : -1..MaxSeconds, newReplicas : ReplicaCounts \cup {-1}]]
    BY <1>5, <2>1 DEF Register, ScaleTypeOK
  <2> QED
    BY <1>3, <1>4, <1>5, <2>1, <2>2 DEF Register, ScaleTypeOK, WindowInv
<1>6. CASE StsIsDeleted
  BY <1>3, <1>4, <1>6 DEF StsIsDeleted, WindowInv
<1>7. CASE Unregister
  BY <1>3, <1>7 DEF Unregister, WindowInv
<1>8. CASE DeployedAgain
  BY <1>3, <1>4, <1>8 DEF DeployedAgain, WindowInv
<1>9. CASE PodsFollow
  <2>1. readyReplicas \in ReplicaCounts /\ specReplicas \in ReplicaCounts
    BY <1>9 DEF PodsFollow
  <2>2. readyReplicas' \in ReplicaCounts
    BY <1>9, <2>1, ScaleAssumption DEF PodsFollow, ReplicaCounts, Largest
  <2> QED
    BY <1>3, <1>9, <2>2 DEF PodsFollow, WindowInv
<1>10. CASE ScalerStarts
  BY <1>3, <1>10 DEF ScalerStarts, WindowInv
<1>11. ASSUME NEW g \in Scalers, Scale(g)
       PROVE  ScaleTypeOK' /\ WindowInv'
  <2> DEFINE n == WithinBounds(DesiredReplicas)
             since == IF n # 0 THEN -1
                      ELSE IF goroutines[g].lastTransitToZero = -1 THEN second
                      ELSE goroutines[g].lastTransitToZero
             new == Limited(Graced(n, since))
  <2>1. /\ specReplicas # NoSts0 /\ UNCHANGED <<windowVars, started, registered, specReplicas, readyReplicas>>
        /\ goroutines' = [goroutines EXCEPT
             ![g].lastTransitToZero = since, ![g].scaledAt = second,
             ![g].newReplicas = IF new = specReplicas THEN -1 ELSE new]
        /\ slept' = IF new = 0 /\ new # specReplicas /\ g = registered
                      THEN {[since |-> since, at |-> second]} ELSE slept
    BY <1>11 DEF Scale
  <2>2. /\ second \in 0..MaxSeconds /\ goroutines[g].lastTransitToZero \in -1..MaxSeconds
        /\ since \in -1..MaxSeconds /\ since \in Int
    BY WindowAssumption DEF WindowTypeOK
  <2>3. /\ new \in ReplicaCounts
        /\ new = 0 => n = 0
    <3> HIDE DEF since
    <3> QED
      BY <2>1, <2>2, AskedReplicas
  <2>4. n = 0 => since \in 0..MaxSeconds
    BY <2>2
  <2> HIDE DEF n, since, new
  <2>5. goroutines' \in [Scalers -> [running : BOOLEAN, lastTransitToZero : -1..MaxSeconds,
                                 scaledAt : -1..MaxSeconds, newReplicas : ReplicaCounts \cup {-1}]]
    <3> DEFINE x == IF new = specReplicas THEN -1 ELSE new
               G == [running : BOOLEAN, lastTransitToZero : -1..MaxSeconds,
                     scaledAt : -1..MaxSeconds, newReplicas : ReplicaCounts \cup {-1}]
    <3>1. second \in -1..MaxSeconds /\ x \in ReplicaCounts \cup {-1}
      BY <2>2, <2>3
    <3>2. goroutines' = [goroutines EXCEPT ![g].lastTransitToZero = since, ![g].scaledAt = second,
                                           ![g].newReplicas = x]
      BY <2>1
    <3> HIDE DEF x
    <3>3. goroutines \in [Scalers -> G]
      OBVIOUS
    <3>4. ASSUME NEW h \in Scalers PROVE goroutines'[h] \in G
      <4>1. CASE h # g
        BY <3>2, <3>3, <4>1
      <4>2. CASE h = g
        <5>1. goroutines'[g] = [[[goroutines[g] EXCEPT !.lastTransitToZero = since]
                                   EXCEPT !.scaledAt = second] EXCEPT !.newReplicas = x]
          BY <3>2, <3>3
        <5>2. [goroutines[g] EXCEPT !.lastTransitToZero = since] \in G
          BY <2>2, <3>3
        <5> HIDE DEF G
        <5> QED
          BY <2>2, <3>1, <4>2, <5>1, <5>2 DEF G
      <4> QED
        BY <4>1, <4>2
    <3> HIDE DEF G
    <3>5. goroutines' \in [Scalers -> G]
      BY <3>2, <3>3, <3>4
    <3> QED
      BY <3>5 DEF G
  <2>6. slept' \subseteq [since : 0..MaxSeconds, at : 0..MaxSeconds]
    BY <2>1, <2>2, <2>3, <2>4
  <2> QED
    BY <1>3, <2>1, <2>5, <2>6 DEF WindowInv
<1>12. ASSUME NEW g \in Scalers, ScaleFindsNothing(g)
       PROVE  ScaleTypeOK' /\ WindowInv'
  <2>1. second \in -1..MaxSeconds
    BY WindowAssumption DEF WindowTypeOK
  <2>2. goroutines' \in [Scalers -> [running : BOOLEAN, lastTransitToZero : -1..MaxSeconds,
                                 scaledAt : -1..MaxSeconds, newReplicas : ReplicaCounts \cup {-1}]]
    BY <1>12, <2>1 DEF ScaleFindsNothing
  <2> QED
    BY <1>3, <1>12, <2>2 DEF ScaleFindsNothing, WindowInv
<1>13. ASSUME NEW g \in Scalers, ScaleTo(g)
       PROVE  ScaleTypeOK' /\ WindowInv'
  <2>1. goroutines[g].newReplicas \in ReplicaCounts
    BY <1>13 DEF ScaleTo
  <2>2. goroutines' \in [Scalers -> [running : BOOLEAN, lastTransitToZero : -1..MaxSeconds,
                                 scaledAt : -1..MaxSeconds, newReplicas : ReplicaCounts \cup {-1}]]
    BY <1>13 DEF ScaleTo
  <2> QED
    BY <1>3, <1>13, <2>1, <2>2 DEF ScaleTo, WindowInv
<1>14. CASE UNCHANGED autoscalerVars
  BY <1>3, <1>14 DEF autoscalerVars, scaleVars, WindowInv
<1> QED
  BY <1>1, <1>2, <1>5, <1>6, <1>7, <1>8, <1>9, <1>10, <1>11, <1>12, <1>13, <1>14 DEF AutoscalerNext

(***************************************************************************)
(* For any window, rates and registrations: the ring of the metrics keeps  *)
(* its place, and where a maximum is configured and the rate of scaling    *)
(* down is no more than one, neither a scaler nor a deployment asks for    *)
(* more replicas than the larger of the two bounds (metrics/client.go      *)
(* 97-143, builtin.go 150-222).                                            *)
(***************************************************************************)
THEOREM AutoscalerTypeOK == AutoscalerSpec => []ScaleTypeOK
<1>1. AutoscalerSpec => [](ScaleTypeOK /\ WindowInv)
  BY ScaleTypeInit, ScaleTypeNext, PTL DEF AutoscalerSpec
<1> QED
  BY <1>1, PTL

(***************************************************************************)
(* However long the window is and whichever seconds bring no update, what  *)
(* the scaler divides is the sum of what was in flight at the end of each  *)
(* second of the window, and of nothing older: the buckets of seconds that *)
(* bring no update get what the last one left (metrics/client.go 97-185).  *)
(***************************************************************************)
THEOREM AverageOfLoad == AutoscalerSpec => []AverageIsExact
<1>1. AutoscalerSpec => [](ScaleTypeOK /\ WindowInv)
  BY ScaleTypeInit, ScaleTypeNext, PTL DEF AutoscalerSpec
<1>2. WindowInv => AverageIsExact
  BY TotalIsLoad
<1> QED
  BY <1>1, <1>2, PTL

IdleFor(l, from, to) == \A s \in Largest(0, from - BucketNum + 1)..(to - 1) : l[s] = 0

\* g has been started if it remembers a second, and has not missed one since.
ScalerOK(g) ==
  /\ ~goroutines[g].running => goroutines[g].lastTransitToZero = -1
  /\ goroutines[g].lastTransitToZero <= goroutines[g].scaledAt
  /\ goroutines[g].scaledAt <= second
  /\ goroutines[g].lastTransitToZero # -1 => started /\ second - 1 <= goroutines[g].scaledAt
  /\ g = registered /\ specReplicas # NoSts0 /\ goroutines[g].lastTransitToZero # -1
       => IdleFor(load, goroutines[g].lastTransitToZero, goroutines[g].scaledAt)

SleptWell ==
  \A z \in slept :
    /\ z.at <= second /\ z.at - z.since >= ScaleToZeroGracePeriod
    /\ IdleFor(load, z.since, z.at)

ScalerInv ==
  /\ registered # 0 => goroutines[registered].running
  /\ \A g \in Scalers : ScalerOK(g)
  /\ SleptWell

\* What has been stays.
LEMMA IdleStays ==
  ASSUME WindowInv, NEW from \in Int, NEW to \in Int, to <= second,
         \A s \in 0..second : s < second => load'[s] = load[s]
  PROVE  IdleFor(load, from, to) = IdleFor(load', from, to)
<1>1. BucketNum \in Nat /\ second \in Nat
  BY WindowAssumption DEF WindowInv, WindowTypeOK
<1>2. \A s \in Largest(0, from - BucketNum + 1)..(to - 1) : s \in 0..second /\ s < second
  BY <1>1 DEF Largest
<1> QED
  BY <1>2 DEF IdleFor

LEMMA ScaleIsIdle ==
  ASSUME ScaleTypeOK, WindowInv, ScalerInv, BucketNum > 1, NEW g \in Scalers,
         CanScale(g), specReplicas # NoSts0, g = registered, WindowTotal = 0,
         NEW since, since = IF goroutines[g].lastTransitToZero = -1 THEN second
                            ELSE goroutines[g].lastTransitToZero
  PROVE  IdleFor(load, since, second)
<1> DEFINE last == IF lastUpdatedAt = second THEN second ELSE second - 1
           window == {s \in (last - BucketNum + 1)..last : s >= 0}
           t == goroutines[g].lastTransitToZero
           at == goroutines[g].scaledAt
<1>1. /\ second \in Nat /\ \A s \in 0..second : load[s] \in Nat
      /\ lastUpdatedAt \in Int /\ lastUpdatedAt <= second
      /\ BucketNum \in Nat /\ BucketNum > 1 /\ t \in Int /\ t >= -1 /\ at \in Int
      /\ at < second /\ t <= at
  BY WindowAssumption DEF WindowInv, WindowTypeOK, ScaleTypeOK, CanScale, ScalerInv, ScalerOK
<1>2. SumFunctionOnSet(load, window) = 0
  BY TotalIsLoad DEF AverageIsExact
<1>3. window \subseteq 0..second
  BY <1>1
<1>4. IsFiniteSet(0..second)
  <2>1. 0 \in Int /\ second \in Int
    BY <1>1
  <2> QED
    BY <2>1, FS_Interval
<1>5. \A s \in window : load[s] = 0
  <2> HIDE DEF window
  <2>1. IsFiniteSet(window) /\ \A s \in window : load[s] \in Nat
    BY <1>1, <1>3, <1>4, FS_Subset
  <2>2. SumFunctionOnSet(load, window) <= 0
    BY <1>2
  <2> QED
    BY <2>1, <2>2, SumIsZero
<1>6. ASSUME NEW s \in Int, s >= 0, s >= second - BucketNum + 1, s <= second - 1
      PROVE  load[s] = 0
  <2>1. s \in window
    BY <1>1, <1>6
  <2> QED
    BY <1>5, <2>1
<1>7. SUFFICES ASSUME NEW s \in Int, s >= 0, s >= since - BucketNum + 1, s <= second - 1
               PROVE  load[s] = 0
  <2>1. since \in Int
    BY <1>1
  <2> QED
    BY <1>1, <1>7, <2>1 DEF IdleFor, Largest
<1>8. CASE t = -1
  BY <1>1, <1>6, <1>7, <1>8
<1>9. CASE t # -1
  <2>1. second - 1 <= at /\ IdleFor(load, t, at) /\ since = t
    BY <1>9 DEF ScalerInv, ScalerOK
  <2>2. CASE s = second - 1
    BY <1>1, <1>6, <1>7, <2>2
  <2>3. CASE s # second - 1
    <3>1. s \in Largest(0, t - BucketNum + 1)..(at - 1)
      BY <1>1, <1>7, <2>1, <2>3 DEF Largest
    <3> QED
      BY <2>1, <3>1 DEF IdleFor
  <2> QED
    BY <2>2, <2>3
<1> QED
  BY <1>8, <1>9

LEMMA ScalerInit == AutoscalerInit => ScalerInv
<1> SUFFICES ASSUME AutoscalerInit PROVE ScalerInv
  OBVIOUS
<1>1. \A g \in Scalers : /\ goroutines[g].lastTransitToZero = -1 /\ goroutines[g].scaledAt = -1
                         /\ second = 0
  BY DEF AutoscalerInit, WindowInit
<1>2. registered = 0 /\ slept = {}
  BY DEF AutoscalerInit
<1> QED
  BY <1>1, <1>2 DEF ScalerInv, ScalerOK, SleptWell

LEMMA ScalerNext ==
  ASSUME BucketNum > 1, ScaleTypeOK, WindowInv, ScalerInv, [AutoscalerNext]_autoscalerVars
  PROVE  ScalerInv'
<1>1. /\ second \in Nat /\ BucketNum \in Nat /\ NoSts0 \notin Nat /\ 0 \notin Scalers
      /\ started \in BOOLEAN /\ registered \in Scalers \cup {0}
      /\ \A g \in Scalers : /\ goroutines[g].lastTransitToZero \in Int
                            /\ goroutines[g].scaledAt \in Int
                            /\ goroutines[g].lastTransitToZero >= -1
      /\ \A z \in slept : z.since \in Int /\ z.at \in Int
      /\ DOMAIN goroutines = Scalers
  BY WindowAssumption, ScaleAssumption DEF WindowInv, WindowTypeOK, ScaleTypeOK
<1>2. \A g \in Scalers : ScalerOK(g)
  BY DEF ScalerInv
\* A step that leaves the scalers alone.
<1>3. ASSUME UNCHANGED <<registered, goroutines, slept>>,
             second' \in Int, second <= second', started => started',
             \A s \in 0..second : s < second => load'[s] = load[s],
             registered # 0 /\ specReplicas' # NoSts0 => specReplicas # NoSts0,
             \A g \in Scalers : goroutines[g].lastTransitToZero # -1 => second' - 1 <= goroutines[g].scaledAt
      PROVE  ScalerInv'
  <2>1. ASSUME NEW g \in Scalers PROVE ScalerOK(g)'
    <3> DEFINE t == goroutines[g].lastTransitToZero
               at == goroutines[g].scaledAt
    <3>1. t \in Int /\ at \in Int /\ at <= second
      BY <1>1, <1>2 DEF ScalerOK
    <3>2. IdleFor(load, t, at) => IdleFor(load', t, at)
      <4> HIDE DEF t, at
      <4> QED
        BY <1>3, <3>1, IdleStays
    <3>3. at <= second'
      BY <1>1, <1>3, <3>1
    <3>4. g = registered => registered # 0
      BY <1>1
    <3> QED
      BY <1>2, <1>3, <3>2, <3>3, <3>4 DEF ScalerOK
  <2>2. ASSUME NEW z \in slept
        PROVE  z.at <= second' /\ z.at - z.since >= ScaleToZeroGracePeriod /\ IdleFor(load', z.since, z.at)
    <3>1. z.since \in Int /\ z.at \in Int /\ z.at <= second
      BY <1>1 DEF ScalerInv, SleptWell
    <3>2. IdleFor(load, z.since, z.at) = IdleFor(load', z.since, z.at)
      BY <1>3, <3>1, IdleStays
    <3> QED
      BY <1>1, <1>3, <3>1, <3>2 DEF ScalerInv, SleptWell
  <2>3. SleptWell'
    BY <1>3, <2>2 DEF SleptWell
  <2>4. registered' # 0 => goroutines'[registered'].running
    BY <1>3 DEF ScalerInv
  <2> QED
    BY <1>3, <2>1, <2>3, <2>4 DEF ScalerInv
<1>4. CASE LoadChanges /\ UNCHANGED scaleVars
  <2>1. UNCHANGED <<registered, goroutines, slept, started, specReplicas, second>>
    BY <1>4 DEF LoadChanges, scaleVars
  <2>2. \A s \in 0..second : s < second => load'[s] = load[s]
    BY <1>1, <1>4 DEF LoadChanges, WindowInv, WindowTypeOK
  <2> QED
    BY <1>1, <1>2, <1>3, <2>1, <2>2 DEF ScalerOK
<1>5. CASE Passes
  <2>1. /\ UNCHANGED <<registered, goroutines, slept, started, specReplicas>>
        /\ second' = second + 1
    BY <1>5 DEF Passes, SecondPasses, scaleVars
  <2>2. \A s \in 0..second : s < second => load'[s] = load[s]
    BY <1>1, <1>5 DEF Passes, SecondPasses
  <2>3. ASSUME NEW g \in Scalers, goroutines[g].lastTransitToZero # -1
        PROVE  second' - 1 <= goroutines[g].scaledAt
    <3>1. started /\ goroutines[g].running
      BY <1>2, <2>3 DEF ScalerOK
    <3>2. ~(goroutines[g].scaledAt < second)
      BY <1>5, <3>1 DEF Passes, CanScale
    <3> QED
      BY <1>1, <2>1, <3>2
  <2>4. second' \in Int /\ second <= second'
    BY <1>1, <2>1
  <2> QED
    BY <1>3, <2>1, <2>2, <2>3, <2>4
\* A step that leaves the window alone.
<1>6. ASSUME UNCHANGED windowVars, UNCHANGED slept PROVE SleptWell'
  BY <1>6 DEF windowVars, SleptWell, ScalerInv, IdleFor
<1>7. ASSUME UNCHANGED windowVars, NEW from, NEW to PROVE IdleFor(load', from, to) = IdleFor(load, from, to)
  BY <1>7 DEF windowVars
<1>8. CASE Register
  <2> DEFINE n == Min(Unused)
  <2>1. n \in Scalers /\ ~goroutines[n].running
    BY <1>8, FreeNumber DEF Register
  <2>2. /\ goroutines' = [goroutines EXCEPT ![n].running = TRUE] /\ registered' = n
        /\ UNCHANGED <<windowVars, started, slept>>
    BY <1>8 DEF Register
  <2> HIDE DEF n
  <2>3. /\ goroutines'[n].running /\ goroutines'[n].lastTransitToZero = goroutines[n].lastTransitToZero
        /\ goroutines'[n].scaledAt = goroutines[n].scaledAt
        /\ \A g \in Scalers : g # n => goroutines'[g] = goroutines[g]
    BY <1>1, <2>1, <2>2 DEF ScaleTypeOK
  <2>4. ASSUME NEW g \in Scalers PROVE ScalerOK(g)'
    BY <1>2, <2>1, <2>2, <2>3 DEF ScalerOK, windowVars
  <2> QED
    BY <1>6, <2>2, <2>3, <2>4 DEF ScalerInv
<1>9. CASE StsIsDeleted \/ DeployedAgain \/ PodsFollow \/ ScalerStarts \/ UNCHANGED autoscalerVars
  <2>1. /\ UNCHANGED <<windowVars, registered, goroutines, slept>>
        /\ started => started'
        /\ specReplicas' # NoSts0 => specReplicas # NoSts0
    BY <1>9 DEF StsIsDeleted, DeployedAgain, PodsFollow, ScalerStarts, autoscalerVars, scaleVars
  <2> QED
    BY <1>1, <1>2, <1>3, <2>1 DEF windowVars, ScalerOK
<1>10. CASE Unregister
  <2>1. registered' = 0 /\ UNCHANGED <<windowVars, started, goroutines, specReplicas, slept>>
    BY <1>10 DEF Unregister
  <2>2. ASSUME NEW g \in Scalers PROVE ScalerOK(g)'
    BY <1>1, <1>2, <2>1 DEF ScalerOK, windowVars
  <2> QED
    BY <1>6, <2>1, <2>2 DEF ScalerInv
<1>11. ASSUME NEW g \in Scalers, Scale(g) PROVE ScalerInv'
  <2> DEFINE n == WithinBounds(DesiredReplicas)
             since == IF n # 0 THEN -1
                      ELSE IF goroutines[g].lastTransitToZero = -1 THEN second
                      ELSE goroutines[g].lastTransitToZero
             new == Limited(Graced(n, since))
  <2>1. /\ CanScale(g) /\ specReplicas # NoSts0
        /\ UNCHANGED <<windowVars, started, registered, specReplicas, readyReplicas>>
        /\ goroutines' = [goroutines EXCEPT
             ![g].lastTransitToZero = since, ![g].scaledAt = second,
             ![g].newReplicas = IF new = specReplicas THEN -1 ELSE new]
        /\ slept' = IF new = 0 /\ new # specReplicas /\ g = registered
                      THEN {[since |-> since, at |-> second]} ELSE slept
    BY <1>11 DEF Scale
  <2>2. since \in Int /\ since <= second /\ (since # -1 => n = 0)
    BY <1>1, <1>2 DEF ScalerOK
  <2>3. /\ new = 0 => n = 0 /\ second - since >= ScaleToZeroGracePeriod
        /\ n = 0 => WindowTotal = 0
    <3> HIDE DEF since
    <3> QED
      BY <2>1, <2>2, AskedReplicas
  <2>4. ASSUME n = 0, g = registered PROVE IdleFor(load, since, second)
    <3>1. since = IF goroutines[g].lastTransitToZero = -1 THEN second
                  ELSE goroutines[g].lastTransitToZero
      BY <2>4
    <3> HIDE DEF since, n
    <3> QED
      BY <2>1, <2>3, <2>4, <3>1, ScaleIsIdle
  <2> HIDE DEF n, since, new
  <2>5. /\ goroutines'[g].running = goroutines[g].running
        /\ goroutines'[g].lastTransitToZero = since
        /\ goroutines'[g].scaledAt = second
        /\ \A h \in Scalers : h # g => goroutines'[h] = goroutines[h]
        /\ DOMAIN goroutines' = Scalers
    <3>1. goroutines \in [Scalers -> [running : BOOLEAN, lastTransitToZero : -1..MaxSeconds,
                                 scaledAt : -1..MaxSeconds, newReplicas : ReplicaCounts \cup {-1}]]
      BY DEF ScaleTypeOK
    <3> DEFINE x == IF new = specReplicas THEN -1 ELSE new
    <3> HIDE DEF x
    <3>2. goroutines' = [goroutines EXCEPT ![g].lastTransitToZero = since, ![g].scaledAt = second,
                                           ![g].newReplicas = x]
      BY <2>1 DEF x
    <3> QED
      BY <3>1, <3>2
  <2>6. ScalerOK(g)'
    <3>1. started /\ goroutines[g].running /\ started' = started /\ second' = second
      BY <2>1 DEF CanScale, windowVars
    <3>2. g = registered' /\ since # -1 => IdleFor(load', since, second)
      BY <1>7, <2>1, <2>2, <2>4
    <3> QED
      BY <1>1, <2>2, <2>5, <3>1, <3>2 DEF ScalerOK
  <2>7. ASSUME NEW h \in Scalers, h # g PROVE ScalerOK(h)'
    BY <1>2, <1>7, <2>1, <2>5, <2>7 DEF ScalerOK, windowVars
  <2>8. SleptWell'
    <3>1. CASE new = 0 /\ new # specReplicas /\ g = registered
      <4>1. IdleFor(load', since, second)
        BY <1>7, <2>1, <2>3, <2>4, <3>1
      <4>2. slept' = {[since |-> since, at |-> second]} /\ second' = second
        BY <2>1, <3>1 DEF windowVars
      <4> QED
        BY <1>1, <2>3, <3>1, <4>1, <4>2 DEF SleptWell
    <3>2. CASE ~(new = 0 /\ new # specReplicas /\ g = registered)
      BY <1>6, <2>1, <3>2
    <3> QED
      BY <3>1, <3>2
  <2>9. registered' # 0 => goroutines'[registered'].running
    BY <1>1, <2>1, <2>5 DEF ScalerInv
  <2> QED
    BY <2>6, <2>7, <2>8, <2>9 DEF ScalerInv
<1>12. ASSUME NEW g \in Scalers, ScaleFindsNothing(g) PROVE ScalerInv'
  <2>1. /\ CanScale(g) /\ specReplicas = NoSts0 /\ goroutines' = [goroutines EXCEPT ![g].scaledAt = second]
        /\ UNCHANGED <<windowVars, started, registered, specReplicas, slept>>
    BY <1>12 DEF ScaleFindsNothing
  <2>2. ASSUME NEW h \in Scalers
        PROVE  /\ goroutines'[h].running = goroutines[h].running
               /\ goroutines'[h].lastTransitToZero = goroutines[h].lastTransitToZero
               /\ goroutines'[h].scaledAt = IF h = g THEN second ELSE goroutines[h].scaledAt
    BY <2>1 DEF ScaleTypeOK
  <2>3. ASSUME NEW h \in Scalers PROVE ScalerOK(h)'
    BY <1>1, <1>2, <2>1, <2>2 DEF ScalerOK, windowVars
  <2>4. registered' # 0 => goroutines'[registered'].running
    BY <1>1, <2>1, <2>2 DEF ScalerInv
  <2> QED
    BY <1>6, <2>1, <2>3, <2>4 DEF ScalerInv
<1>13. ASSUME NEW g \in Scalers, ScaleTo(g) PROVE ScalerInv'
  <2>1. /\ goroutines' = [goroutines EXCEPT ![g].newReplicas = -1]
        /\ specReplicas' # NoSts0 => specReplicas # NoSts0
        /\ UNCHANGED <<windowVars, started, registered, slept>>
    BY <1>13 DEF ScaleTo
  <2>2. ASSUME NEW h \in Scalers
        PROVE  /\ goroutines'[h].running = goroutines[h].running
               /\ goroutines'[h].lastTransitToZero = goroutines[h].lastTransitToZero
               /\ goroutines'[h].scaledAt = goroutines[h].scaledAt
    BY <2>1 DEF ScaleTypeOK
  <2>3. ASSUME NEW h \in Scalers PROVE ScalerOK(h)'
    BY <1>2, <1>7, <2>1, <2>2 DEF ScalerOK, windowVars
  <2>4. registered' # 0 => goroutines'[registered'].running
    BY <1>1, <2>1, <2>2 DEF ScalerInv
  <2> QED
    BY <1>6, <2>1, <2>3, <2>4 DEF ScalerInv
<1> QED
  BY <1>4, <1>5, <1>8, <1>9, <1>10, <1>11, <1>12, <1>13 DEF AutoscalerNext

(***************************************************************************)
(* With a window longer than the period of the scaler, and whatever the    *)
(* bounds, the rates, the grace period and the registrations: the last pod *)
(* of a model is taken away only when nothing was in flight since the      *)
(* window before the grace period began (builtin.go 176-222).  With a      *)
(* window of one period it does not hold: a request that comes and goes    *)
(* between two periods is in no average that the scaler reads.             *)
(***************************************************************************)
THEOREM SleepsWhenIdle ==
  ASSUME BucketNum > 1
  PROVE  AutoscalerSpec => []SleepsOnlyWhenIdle
<1> DEFINE SInv == ScaleTypeOK /\ WindowInv /\ ScalerInv
<1>1. AutoscalerInit => SInv
  BY ScaleTypeInit, ScalerInit
<1>2. SInv /\ [AutoscalerNext]_autoscalerVars => SInv'
  BY ScaleTypeNext, ScalerNext
<1>3. SInv => SleepsOnlyWhenIdle
  BY DEF ScalerInv, SleptWell, IdleFor, SleepsOnlyWhenIdle
<1> QED
  BY <1>1, <1>2, <1>3, PTL DEF AutoscalerSpec

-----------------------------------------------------------------------------
(***************************************************************************)
(* The types of all the parts.  What the invariants of the sections above  *)
(* leave open is shown here, component by component.                       *)
(***************************************************************************)
\* The puller.
LEMMA ModelsToDownload ==
  ASSUME NEW m \in Models
  PROVE  ToDownload(m) \in Seq(Models) /\ <<m>> \in Seq(Models)
<1>1. CASE m \in DOMAIN BaseModelOf
  <2>1. BaseModelOf[m] \in Models
    BY <1>1, PullerAssumption
  <2>2. <<BaseModelOf[m], m>> \in Seq(Models) /\ <<m>> \in Seq(Models)
    BY <2>1
  <2> QED
    BY <1>1, <2>2 DEF ToDownload
<1>2. CASE m \notin DOMAIN BaseModelOf
  BY <1>2 DEF ToDownload
<1> QED
  BY <1>1, <1>2

LEMMA PreloadedFits ==
  ASSUME NEW s \in Preloaded
  PROVE  Len(s) <= QueueLength
<1>1. CASE s = <<>>
  <2>1. Len(s) = 0
    BY <1>1
  <2> QED
    BY <2>1, PullerAssumption
<1>2. CASE s = <<PreloadedModel>>
  <2>1. Len(s) = 1
    BY <1>2
  <2> QED
    BY <2>1, PullerAssumption
<1> QED
  BY <1>1, <1>2 DEF Preloaded

LEMMA InitPullerTypes == PullerInit => PullerTypeOK
<1> SUFFICES ASSUME PullerInit PROVE PullerTypeOK
  OBVIOUS
<1>1. PullerInv
  BY InitPuller
<1>2. Len(pullCh) <= QueueLength
  BY PreloadedFits DEF PullerInit
<1>3. todo \in Seq(Models)
  <2>1. ToDownload(PreloadedModel) \in Seq(Models)
    BY PullerAssumption, ModelsToDownload
  <2> QED
    BY <2>1 DEF PullerInit
<1> QED
  BY <1>1, <1>2, <1>3, PullerAssumption DEF PullerInit, PullerTypeOK, PullerInv, VolumeShape

LEMMA PullerTypeStep ==
  ASSUME PullerInv, PullerTypeOK, [PullerNext]_pullerVars
  PROVE  PullerTypeOK'
<1>1. PullerInv'
  BY PullerStep
<1>2. todo' \in Seq(Models)
  <2>1. \A m \in Models : ToDownload(m) \in Seq(Models) /\ <<m>> \in Seq(Models)
    BY ModelsToDownload
  <2>2. DOMAIN BaseModelOf \subseteq Models
    BY PullerAssumption
  <2>3. ModelsInWork'
    BY <1>1 DEF PullerInv
  <2>4. CASE todo' = <<>>
    BY <2>4, EmptySeq
  <2>5. CASE \E m \in Models : todo' = ToDownload(m)
    BY <2>1, <2>5
  <2>6. CASE \E m \in DOMAIN BaseModelOf : todo' = <<m>>
    BY <2>1, <2>2, <2>6
  <2> QED
    BY <2>3, <2>4, <2>5, <2>6 DEF ModelsInWork
<1>3. todo # <<>> => Head(todo) \in Models
  BY DEF PullerTypeOK
<1>4. \A m \in Models : FilesOf(m) \subseteq AllFiles
  BY DEF AllFiles
<1>5. /\ daemonMode' \in BOOLEAN /\ puller' \in {"running", "failed", "ended"}
      /\ Len(pullCh') <= QueueLength /\ stage' \in {"check", "files", "modelfile"}
      /\ listed' \subseteq AllFiles /\ writing' \in AllFiles \cup {NoFile}
      /\ modelfiles' \subseteq Models /\ accepted' \subseteq Models
      /\ pullerFailures' \in 0..MaxPullerFailures
  <2> USE DEF PullerTypeOK, pullVars, volumeVars
  <2>1. CASE ProcessPullRequest
    <3>1. Len(Tail(pullCh)) <= QueueLength
      BY <2>1, PullerAssumption DEF ProcessPullRequest
    <3> QED
      BY <2>1, <3>1 DEF ProcessPullRequest
  <2>2. CASE CheckCompletion
    BY <1>3, <1>4, <2>2 DEF CheckCompletion
  <2>3. CASE CreateFile
    BY <2>3 DEF CreateFile
  <2>4. CASE DownloadFile
    BY <2>4 DEF DownloadFile
  <2>5. CASE IndicateCompletion
    BY <2>5 DEF IndicateCompletion
  <2>6. CASE CreateModelfile
    BY <2>6, PullerAssumption DEF CreateModelfile
  <2>7. CASE PullerRestarts
    <3>1. Len(pullCh') <= QueueLength
      BY <2>7, PreloadedFits DEF PullerRestarts
    <3> QED
      BY <2>7, <3>1 DEF PullerRestarts
  <2>8. CASE PullFails
    BY <2>8, PullerAssumption DEF PullFails
  <2>9. ASSUME NEW m \in Models, PullRequest(m)
        PROVE  Len(pullCh') <= QueueLength /\ accepted' \subseteq Models
    BY <2>9, PullerAssumption DEF PullRequest
  <2>10. CASE UNCHANGED pullerVars
    BY <2>10 DEF pullerVars
  <2>11. CASE \E m \in Models : PullRequest(m)
    BY <2>9, <2>11 DEF PullRequest
  <2> QED
    BY <2>1, <2>2, <2>3, <2>4, <2>5, <2>6, <2>7, <2>8, <2>10, <2>11 DEF PullerNext, Pull
<1> QED
  BY <1>1, <1>2, <1>5 DEF PullerTypeOK, PullerInv, VolumeShape

\* The pods.
LEMMA PodTypeStep ==
  ASSUME PodInv, PodTypeOK, [PodNext]_podVars
  PROVE  PodTypeOK'
<1>1. PodShape'
  BY PodStep DEF PodInv
<1>2. wanted' \in 0..NumPods /\ setChanges' \in 0..MaxSetChanges
  <2> USE RuntimePodAssumption DEF PodTypeOK
  <2>1. ASSUME NEW i \in Indexes,
               \/ PullerPulls(i) \/ PullerDone(i) \/ OllamaCreates(i) \/ RuntimeStarts(i)
               \/ PodGetsReady(i) \/ PodAppears(i)
        PROVE  UNCHANGED <<wanted, setChanges>>
    BY <2>1 DEF PullerPulls, PullerDone, OllamaCreates, RuntimeStarts, PodGetsReady, PodAppears
  <2>2. ASSUME SetChange PROVE setChanges' \in 0..MaxSetChanges
    BY <2>2 DEF SetChange
  <2>3. CASE \E i \in Indexes : PodIsDeleted(i)
    BY <2>2, <2>3 DEF PodIsDeleted
  <2>4. CASE \E n \in 0..NumPods : SetIsScaled(n)
    BY <2>2, <2>4 DEF SetIsScaled
  <2>5. CASE SetIsReplaced \/ VolumeIsReconfigured
    BY <2>2, <2>5 DEF SetIsReplaced, VolumeIsReconfigured
  <2>6. CASE UNCHANGED podVars
    BY <2>6 DEF podVars
  <2> QED
    BY <2>1, <2>3, <2>4, <2>5, <2>6 DEF PodNext
<1> QED
  BY <1>1, <1>2 DEF PodShape, PodTypeOK

\* The drifted pod updater.  The contents of all revisions so far are there.
DriftTypes == DriftTypeOK /\ revised \in [1..set.updateRevision -> Contents]

LEMMA InitDriftTypes == DriftInit => DriftTypes
<1> SUFFICES ASSUME DriftInit PROVE DriftTypes
  OBVIOUS
<1>1. DriftInv
  BY InitDrift
<1>2. set.updateRevision = 1 /\ 1..1 = {1} /\ 1 \in Revisions
  BY DriftAssumption DEF DriftInit, Revisions
<1>3. revised \in [1..set.updateRevision -> Contents]
  BY <1>2, DriftAssumption DEF DriftInit
<1>4. revised \in UNION {[1..n -> Contents] : n \in Revisions}
  BY <1>2, <1>3
<1> QED
  BY <1>1, <1>3, <1>4, DriftAssumption DEF DriftInit, DriftInv, DriftShape, DriftTypeOK, DriftTypes

LEMMA DriftTypeStep ==
  ASSUME DriftInv, DriftTypes, [DriftNext]_driftVars
  PROVE  DriftTypes'
<1>1. DriftShape' /\ DriftShape
  BY DriftStep DEF DriftInv
<1>2. set'.updateRevision \in Revisions /\ set.updateRevision \in Revisions
  BY <1>1 DEF DriftShape, SetRecord
<1>3. revised' \in [1..set'.updateRevision -> Contents]
  <2> DEFINE n == set.updateRevision
  <2>1. CASE TemplateChanges
    <3>1. set'.updateRevision = n + 1 /\ n \in Nat
      BY <1>1, <1>2, <2>1 DEF TemplateChanges, DriftShape, SetRecord, Revisions
    <3>2. PICK c \in Contents : revised' = [r \in 1..(n + 1) |-> IF r = n + 1 THEN c ELSE revised[r]]
      BY <2>1 DEF TemplateChanges
    <3>3. \A r \in 1..(n + 1) : r # n + 1 => r \in 1..n
      BY <3>1
    <3>4. revised \in [1..n -> Contents]
      BY DEF DriftTypes
    <3> HIDE DEF n
    <3> QED
      BY <3>1, <3>2, <3>3, <3>4
  <2>2. CASE Scaled
    BY <1>1, <2>2 DEF Scaled, DriftShape, SetRecord, DriftTypes
  <2>3. CASE UNCHANGED <<revised, set>>
    BY <2>3 DEF DriftTypes
  <2>4. TemplateChanges \/ Scaled \/ UNCHANGED <<revised, set>>
    BY DEF DriftNext, StatefulSetController, PodIsCreated, PodIsScaledDown, PodTerminates,
           PodBecomesReady, PodCrashes, PodFails, ManagerUpdatesPod, ManagerHasUpdatedPod,
           DeleteDriftedPod, Reconcile, DeleteDriftedPods, UpdaterRestarts, driftVars, setVars
  <2> QED
    BY <2>1, <2>2, <2>3, <2>4
<1>4. revised' \in UNION {[1..n -> Contents] : n \in Revisions}
  BY <1>2, <1>3
<1>5. podFailures' \in 0..MaxPodFailures /\ updating' \subseteq Ordinals /\ scales' \in 0..MaxScales
  <2> USE DriftAssumption DEF DriftTypes, DriftTypeOK, setVars, updaterVars
  <2>1. CASE TemplateChanges
    BY <2>1 DEF TemplateChanges
  <2>2. CASE Scaled
    BY <2>2 DEF Scaled
  <2>3. CASE StatefulSetController
    BY <2>3 DEF StatefulSetController, PodIsCreated, PodIsScaledDown, PodTerminates
  <2>4. ASSUME NEW i \in Ordinals, PodBecomesReady(i) \/ PodCrashes(i) \/ DeleteDriftedPod(i)
        PROVE  UNCHANGED <<podFailures, updating, scales>>
    BY <2>4 DEF PodBecomesReady, PodCrashes, DeleteDriftedPod
  <2>5. ASSUME NEW i \in Ordinals, PodFails(i) \/ ManagerUpdatesPod(i) \/ ManagerHasUpdatedPod(i)
        PROVE  podFailures' \in 0..MaxPodFailures /\ updating' \subseteq Ordinals /\ scales' = scales
    BY <2>5 DEF PodFails, ManagerUpdatesPod, ManagerHasUpdatedPod
  <2>6. CASE Reconcile \/ DeleteDriftedPods \/ UpdaterRestarts
    BY <2>6 DEF Reconcile, DeleteDriftedPods, UpdaterRestarts
  <2>7. CASE UNCHANGED driftVars
    BY <2>7 DEF driftVars
  <2> QED
    BY <2>1, <2>2, <2>3, <2>4, <2>5, <2>6, <2>7 DEF DriftNext
<1> QED
  BY <1>1, <1>3, <1>4, <1>5 DEF DriftShape, DriftTypes, DriftTypeOK

\* The requests to the pods of a runtime.  A task that has used all its
\* attempts is answered.
AttemptsAreLeft ==
  \A t \in RuntimeTasks : ~At1(t, "done") => attempts[t].attempt < RuntimeRequestMaxRetries

RequestTypes == RequestTypeOK /\ AttemptsAreLeft

TaskRecord ==
  [at : {"pull", "get", "do", "blacklist", "done"}, attempt : 0..RuntimeRequestMaxRetries,
   addr : Pods \cup {0}, status : HttpStatuses]

LEMMA InitRequestTypes == RequestInit => RequestTypes
<1> SUFFICES ASSUME RequestInit PROVE RequestTypes
  OBVIOUS
<1>1. NewTask \in TaskRecord
  BY RuntimeRequestsAssumption DEF NewTask, TaskRecord, HttpStatuses
<1>2. 0 \in 0..Cardinality(Pods)
  <2>1. Cardinality(Pods) \in Nat
    BY RuntimeRequestsAssumption, FS_CardinalityType
  <2> QED
    BY <2>1
<1>3. AttemptsAreLeft
  BY RuntimeRequestsAssumption DEF RequestInit, NewTask, AttemptsAreLeft
<1>4. blacklisted \in [Pods -> 0..BlacklistDuration] /\ podChanges \in 0..MaxPodChanges
  BY RuntimeRequestsAssumption DEF RequestInit
<1>5. attempts \in [RuntimeTasks -> TaskRecord]
  BY <1>1 DEF RequestInit
<1> QED
  BY <1>2, <1>3, <1>4, <1>5 DEF RequestInit, RequestTypeOK, RequestTypes, TaskRecord

LEMMA TaskTypeStep ==
  ASSUME RequestInv, RequestTypes, NEW t \in RuntimeTasks,
         PullFirst(t) \/ GetLLMAddress(t) \/ DoRequest(t) \/ BlacklistLLMAddress(t)
  PROVE  /\ attempts' \in [RuntimeTasks -> TaskRecord] /\ AttemptsAreLeft'
         /\ blacklisted' \in [Pods -> 0..BlacklistDuration] /\ nextTarget' \in 0..Cardinality(Pods)
         /\ podChanges' \in 0..MaxPodChanges /\ live' \subseteq Pods
<1>0. /\ RequestShape /\ attempts[t] \in TaskRecord /\ attempts \in [RuntimeTasks -> TaskRecord]
      /\ blacklisted \in [Pods -> 0..BlacklistDuration] /\ nextTarget \in 0..Cardinality(Pods)
      /\ podChanges \in 0..MaxPodChanges /\ live \subseteq Pods
      /\ RuntimeRequestMaxRetries \in Nat \ {0} /\ BlacklistDuration \in Nat \ {0}
  BY RuntimeRequestsAssumption DEF RequestInv, RequestTypes, RequestTypeOK, TaskRecord
\* Whatever its record becomes, it is one of a task, and attempts are left.
<1>1. ASSUME NEW r \in TaskRecord, attempts' = [attempts EXCEPT ![t] = r],
             r.at # "done" => r.attempt < RuntimeRequestMaxRetries
      PROVE  attempts' \in [RuntimeTasks -> TaskRecord] /\ AttemptsAreLeft'
  BY <1>0, <1>1 DEF RequestTypes, AttemptsAreLeft, At1
<1>2. \A status \in HttpStatuses : [attempts[t] EXCEPT !.at = "done", !.status = status, !.addr = 0] \in TaskRecord
  BY <1>0 DEF TaskRecord
<1>3. ASSUME NEW status \in HttpStatuses, Answer(t, status)
      PROVE  attempts' \in [RuntimeTasks -> TaskRecord] /\ AttemptsAreLeft'
  <2>1. [attempts[t] EXCEPT !.at = "done", !.status = status, !.addr = 0].at = "done"
    BY <1>0 DEF TaskRecord
  <2> QED
    BY <1>0, <1>1, <1>2, <1>3, <2>1 DEF Answer
<1>4. ASSUME NEW at \in {"get", "do", "blacklist"}, ~At1(t, "done"), GoTo(t, at)
      PROVE  attempts' \in [RuntimeTasks -> TaskRecord] /\ AttemptsAreLeft'
  <2> DEFINE r == [attempts[t] EXCEPT !.at = at]
  <2>1. r \in TaskRecord /\ r.attempt = attempts[t].attempt
    BY <1>0 DEF TaskRecord
  <2>2. attempts' = [attempts EXCEPT ![t] = r]
    BY <1>0, <1>4 DEF GoTo
  <2>3. r.attempt < RuntimeRequestMaxRetries
    BY <1>4, <2>1 DEF RequestTypes, AttemptsAreLeft
  <2> HIDE DEF r
  <2> QED
    BY <1>1, <2>1, <2>2, <2>3
<1>5. {200, 400, 500, 503} \subseteq HttpStatuses
  BY DEF HttpStatuses
<1>6. CASE PullFirst(t)
  <2>1. ~At1(t, "done")
    BY <1>6 DEF PullFirst, At1
  <2> QED
    BY <1>0, <1>3, <1>4, <1>5, <1>6, <2>1 DEF PullFirst, addrSetVars
<1>7. CASE DoRequest(t)
  <2>1. ~At1(t, "done")
    BY <1>7 DEF DoRequest, At1
  <2> QED
    BY <1>0, <1>3, <1>4, <1>5, <1>7, <2>1 DEF DoRequest, addrSetVars
<1>8. CASE GetLLMAddress(t)
  <2>1. CASE llm # "ready" \/ Candidates = {}
    BY <1>0, <1>3, <1>5, <1>8, <2>1 DEF GetLLMAddress
  <2>2. CASE llm = "ready" /\ Candidates # {}
    <3> DEFINE n == Cardinality(Candidates)
               a == Nth(Candidates, nextTarget % n)
               r == [attempts[t] EXCEPT !.at = "do", !.addr = a]
    <3>1. /\ n \in Nat /\ n # 0 /\ IsFiniteSet(Candidates) /\ Candidates \subseteq Nat
          /\ Candidates \subseteq Pods /\ IsFiniteSet(Pods)
      BY <1>0, <2>2, CandidatesOfShape
    <3>2. n <= Cardinality(Pods) /\ Cardinality(Pods) \in Nat
      BY <3>1, FS_Subset, FS_CardinalityType
    <3>3. nextTarget \in Nat
      BY <1>0, <3>2
    <3>4. /\ attempts' = [attempts EXCEPT ![t] = r]
          /\ nextTarget' \in {nextTarget, (nextTarget + 1) % n}
          /\ UNCHANGED <<blacklisted, live, podChanges>>
      BY <1>0, <1>8, <2>2 DEF GetLLMAddress
    <3>5. ~At1(t, "done")
      BY <1>8 DEF GetLLMAddress, At1
    <3> HIDE DEF n
    <3>6. (nextTarget % n) \in Nat /\ (nextTarget % n) < n /\ ((nextTarget + 1) % n) \in 0..(n - 1)
      BY <3>1, <3>3
    <3>7. a \in Pods
      BY <3>1, <3>6, NthIsMember DEF n
    <3> HIDE DEF a
    <3>8. r \in TaskRecord /\ r.attempt = attempts[t].attempt
      BY <1>0, <3>7 DEF TaskRecord
    <3>9. r.attempt < RuntimeRequestMaxRetries
      BY <3>5, <3>8 DEF RequestTypes, AttemptsAreLeft
    <3> HIDE DEF r
    <3>10. attempts' \in [RuntimeTasks -> TaskRecord] /\ AttemptsAreLeft'
      BY <1>1, <3>4, <3>8, <3>9
    <3>11. nextTarget' \in 0..Cardinality(Pods)
      BY <1>0, <3>1, <3>2, <3>4, <3>6
    <3> QED
      BY <1>0, <3>4, <3>10, <3>11
  <2> QED
    BY <2>1, <2>2 DEF RequestShape
<1>9. CASE BlacklistLLMAddress(t)
  <2> DEFINE n == attempts[t].attempt + 1
             r == IF llm # "ready" \/ n >= RuntimeRequestMaxRetries
                  THEN [at |-> "done", attempt |-> n, addr |-> 0, status |-> 500]
                  ELSE [attempts[t] EXCEPT !.at = "get", !.attempt = n]
  <2>1. n \in 0..RuntimeRequestMaxRetries
    BY <1>0, <1>9 DEF BlacklistLLMAddress, RequestTypes, AttemptsAreLeft, At1, TaskRecord
  <2>2. attempts' = [attempts EXCEPT ![t] = r]
    BY <1>0, <1>9 DEF BlacklistLLMAddress
  <2> HIDE DEF n
  <2>5. attempts' \in [RuntimeTasks -> TaskRecord] /\ AttemptsAreLeft'
    <3>3. CASE llm # "ready" \/ n >= RuntimeRequestMaxRetries
      <4>1. r \in TaskRecord /\ r.at = "done"
        BY <1>5, <2>1, <3>3 DEF TaskRecord
      <4> HIDE DEF r
      <4> QED
        BY <1>1, <2>2, <4>1
    <3>4. CASE ~(llm # "ready" \/ n >= RuntimeRequestMaxRetries)
      <4>1. r \in TaskRecord /\ r.attempt = n
        BY <1>0, <2>1, <3>4 DEF TaskRecord
      <4>2. r.attempt < RuntimeRequestMaxRetries
        BY <1>0, <2>1, <3>4, <4>1
      <4> HIDE DEF r
      <4> QED
        BY <1>1, <2>2, <4>1, <4>2
    <3> QED
      BY <3>3, <3>4
  <2>6. blacklisted' \in [Pods -> 0..BlacklistDuration]
    <3>1. BlacklistDuration \in 0..BlacklistDuration
      BY <1>0
    <3>2. [blacklisted EXCEPT ![attempts[t].addr] = BlacklistDuration] \in [Pods -> 0..BlacklistDuration]
      BY <1>0, <3>1
    <3> QED
      BY <1>0, <1>9, <3>2 DEF BlacklistLLMAddress
  <2> QED
    BY <1>0, <1>9, <2>5, <2>6 DEF BlacklistLLMAddress
<1> QED
  BY <1>6, <1>7, <1>8, <1>9

LEMMA RequestTypeStep ==
  ASSUME RequestInv, RequestTypes, [RequestNext]_runtimeRequestVars
  PROVE  RequestTypes'
<1>1. RequestShape'
  BY RequestStep DEF RequestInv
<1>2. /\ attempts' \in [RuntimeTasks -> TaskRecord] /\ AttemptsAreLeft'
      /\ blacklisted' \in [Pods -> 0..BlacklistDuration] /\ nextTarget' \in 0..Cardinality(Pods)
      /\ podChanges' \in 0..MaxPodChanges /\ live' \subseteq Pods
  <2>0. /\ attempts \in [RuntimeTasks -> TaskRecord] /\ live \subseteq Pods
        /\ blacklisted \in [Pods -> 0..BlacklistDuration] /\ nextTarget \in 0..Cardinality(Pods)
        /\ podChanges \in 0..MaxPodChanges
        /\ BlacklistDuration \in Nat /\ MaxPodChanges \in Nat /\ Cardinality(Pods) \in Nat
    BY RuntimeRequestsAssumption, FS_CardinalityType DEF RequestTypes, RequestTypeOK, TaskRecord
  <2>1. ASSUME UNCHANGED attempts PROVE AttemptsAreLeft'
    BY <2>1 DEF RequestTypes, AttemptsAreLeft, At1
  <2>2. ASSUME PodChange PROVE podChanges' \in 0..MaxPodChanges
    BY <2>0, <2>2 DEF PodChange
  <2>3. CASE \E a \in Pods : RuntimeIsReady(a)
    <3>1. blacklisted' \in [Pods -> 0..BlacklistDuration] /\ nextTarget' = 0
      BY <2>0, <2>3 DEF RuntimeIsReady
    <3> QED
      BY <2>0, <2>1, <2>2, <2>3, <3>1 DEF RuntimeIsReady
  <2>4. CASE \/ \E a \in Pods : AddAddress(a) \/ RemoveAddress(a)
             \/ RuntimeGoes \/ PodComesOrGoes
    BY <2>0, <2>1, <2>2, <2>4 DEF AddAddress, RemoveAddress, RuntimeGoes, PodComesOrGoes, addrSetVars
  <2>5. CASE ClockTicks
    <3>1. \A a \in Pods : (IF blacklisted[a] = 0 THEN 0 ELSE blacklisted[a] - 1) \in 0..BlacklistDuration
      BY <2>0
    <3>2. blacklisted' \in [Pods -> 0..BlacklistDuration]
      BY <2>5, <3>1 DEF ClockTicks
    <3> QED
      BY <2>0, <2>1, <2>5, <3>2 DEF ClockTicks
  <2>6. CASE UNCHANGED runtimeRequestVars
    BY <2>0, <2>1, <2>6 DEF runtimeRequestVars, addrSetVars
  <2> QED
    BY <2>3, <2>4, <2>5, <2>6, TaskTypeStep DEF RequestNext
<1> QED
  BY <1>1, <1>2 DEF RequestShape, RequestTypes, RequestTypeOK, TaskRecord

\* The deployments.  A volume claim is applied for a model that has one.
DeployTypes ==
  /\ DeployTypeOK
  /\ deploy = [d \in Deployers |-> deploy[d]]
  /\ \A d \in Deployers : deploy[d].at = "volumeClaim" => deploy[d].model \in SharedVolume

LEMMA InitDeployTypes == DeployInit => DeployTypes
BY DeploymentAssumption DEF DeployInit, DeployTypeOK, DeployTypes, Deployers, Idle

LEMMA DeployTypeStep ==
  ASSUME DeployTypes, [DeployNext]_deployVars
  PROVE  DeployTypes'
<1> DEFINE Work == [model : DeployedModels, at : {"get", "sts", "service", "volumeClaim"}, update : BOOLEAN]
           WorkOf(w) == w = Idle \/ (w \in Work /\ (w.at = "volumeClaim" => w.model \in SharedVolume))
           Objects == /\ statefulSet' \in [DeployedModels -> 1..MaxConfigs \cup {NoSts}]
                      /\ service' \subseteq DeployedModels /\ volumeClaim' \subseteq SharedVolume
           Process == /\ modelManager' \subseteq DeployedModels
                      /\ engine' \in {"running", "failed"} /\ config' \in 1..MaxConfigs
                      /\ updater' = NotListed \/ updater' \in SUBSET DeployedModels
                      /\ deployFailures' \in 0..MaxDeployFailures
           Work1 == deploy' = [d \in Deployers |-> deploy'[d]] /\ \A d \in Deployers : WorkOf(deploy'[d])
<1>0. /\ deploy = [d \in Deployers |-> deploy[d]] /\ \A d \in Deployers : WorkOf(deploy[d])
      /\ "manager" \in Deployers /\ "updater" \in Deployers
      /\ Idle.at = "idle"
  BY DEF DeployTypes, DeployTypeOK, Deployers, Idle
<1>1. ASSUME Objects, Process, Work1 PROVE DeployTypes'
  <2>1. \A d \in Deployers : deploy'[d].at = "volumeClaim" => deploy'[d].model \in SharedVolume
    BY <1>0, <1>1
  <2> QED
    BY <1>1, <2>1 DEF DeployTypes, DeployTypeOK
<1>2. ASSUME NEW d \in Deployers, NEW w, WorkOf(w), deploy' = [deploy EXCEPT ![d] = w] PROVE Work1
  BY <1>0, <1>2
<1>3. ASSUME UNCHANGED deploy PROVE Work1
  BY <1>0, <1>3
<1>4. ASSUME NEW d \in Deployers, NEW m \in DeployedModels, NEW update \in BOOLEAN, Begin(d, m, update)
      PROVE  Work1
  <2>1. WorkOf([model |-> m, at |-> "get", update |-> update])
    OBVIOUS
  <2> HIDE DEF WorkOf, Work1
  <2> QED
    BY <1>2, <1>4, <2>1 DEF Begin
<1>5. ASSUME NEW d \in Deployers, NEW at \in {"sts", "service", "volumeClaim"}, deploy[d].at # "idle",
             at = "volumeClaim" => deploy[d].model \in SharedVolume, Proceed(d, at)
      PROVE  Work1
  <2>1. deploy[d] \in Work
    BY <1>0, <1>5
  <2>2. WorkOf([deploy[d] EXCEPT !.at = at])
    BY <1>5, <2>1
  <2>3. deploy' = [deploy EXCEPT ![d] = [deploy[d] EXCEPT !.at = at]]
    BY <1>0, <1>5 DEF Proceed
  <2> HIDE DEF WorkOf, Work1
  <2> QED
    BY <1>2, <2>2, <2>3
<1>6. ASSUME NEW d \in Deployers, Finish(d) PROVE Work1
  <2>1. WorkOf(Idle)
    OBVIOUS
  <2> HIDE DEF WorkOf, Work1
  <2> QED
    BY <1>2, <1>6, <2>1 DEF Finish
<1>7. ASSUME NEW d \in Deployers, deploy[d].at # "idle"
      PROVE  deploy[d].model \in DeployedModels
  BY <1>0, <1>7
<1>8. ASSUME deploy' = [d \in Deployers |-> Idle] PROVE Work1
  BY <1>8
<1>9. /\ statefulSet \in [DeployedModels -> 1..MaxConfigs \cup {NoSts}]
      /\ service \subseteq DeployedModels /\ volumeClaim \subseteq SharedVolume
      /\ modelManager \subseteq DeployedModels
      /\ engine \in {"running", "failed"} /\ config \in 1..MaxConfigs
      /\ updater = NotListed \/ updater \in SUBSET DeployedModels
      /\ deployFailures \in 0..MaxDeployFailures
      /\ MaxConfigs \in Nat \ {0} /\ MaxDeployFailures \in Nat
      /\ SharedVolume \subseteq DeployedModels
  BY DeploymentAssumption DEF DeployTypes, DeployTypeOK
<1> HIDE DEF Work1, WorkOf, Work
<1> USE DEF objectVars
<1>10. ASSUME NEW d \in Deployers, GetStatefulSet(d) PROVE DeployTypes'
  <2>1. deploy[d].at = "get"
    BY <1>10 DEF GetStatefulSet, At0
  <2>2. Work1
    BY <1>5, <1>6, <1>10, <2>1 DEF GetStatefulSet
  <2> QED
    BY <1>1, <1>9, <1>10, <2>2 DEF GetStatefulSet
<1>11. ASSUME NEW d \in Deployers, ApplyStatefulSet(d) PROVE DeployTypes'
  <2>1. deploy[d].at = "sts"
    BY <1>11 DEF ApplyStatefulSet, At0
  <2>2. Work1
    BY <1>5, <1>11, <2>1 DEF ApplyStatefulSet
  <2> QED
    BY <1>1, <1>9, <1>11, <2>2 DEF ApplyStatefulSet
<1>12. ASSUME NEW d \in Deployers, ApplyService(d) PROVE DeployTypes'
  <2>1. deploy[d].at = "service" /\ deploy[d].model \in DeployedModels
    BY <1>7, <1>12 DEF ApplyService, At0
  <2>2. Work1
    BY <1>5, <1>6, <1>12, <2>1 DEF ApplyService
  <2> QED
    BY <1>1, <1>9, <1>12, <2>1, <2>2 DEF ApplyService
<1>13. ASSUME NEW d \in Deployers, ApplyVolumeClaim(d) PROVE DeployTypes'
  <2>1. deploy[d].at = "volumeClaim" /\ deploy[d].model \in SharedVolume
    BY <1>13 DEF ApplyVolumeClaim, At0, DeployTypes
  <2>2. Work1
    BY <1>6, <1>13 DEF ApplyVolumeClaim
  <2> QED
    BY <1>1, <1>9, <1>13, <2>1, <2>2 DEF ApplyVolumeClaim
<1>14. ASSUME NEW m \in DeployedModels, ManagerDeploys(m) PROVE DeployTypes'
  <2>1. Work1
    BY <1>0, <1>4, <1>14 DEF ManagerDeploys
  <2> QED
    BY <1>1, <1>9, <1>14, <2>1 DEF ManagerDeploys
<1>15. ASSUME NEW m \in DeployedModels, DeleteRuntime(m) \/ ModelIsRemoved(m) PROVE DeployTypes'
  <2>1. Work1
    BY <1>3, <1>15 DEF DeleteRuntime, ModelIsRemoved
  <2> QED
    BY <1>1, <1>9, <1>15, <2>1 DEF DeleteRuntime, ModelIsRemoved
<1>16. CASE UpdaterLists
  <2>1. Work1
    BY <1>3, <1>16 DEF UpdaterLists
  <2> QED
    BY <1>1, <1>9, <1>16, <2>1 DEF UpdaterLists
<1>17. CASE UpdaterDeploys
  <2>1. PICK m \in updater : m \in modelManager /\ Begin("updater", m, TRUE) /\ updater' = updater \ {m}
    BY <1>17 DEF UpdaterDeploys
  <2>2. Work1
    BY <1>0, <1>4, <1>9, <2>1
  <2>3. updater' \in SUBSET DeployedModels
    BY <1>9, <1>17, <2>1 DEF UpdaterDeploys
  <2> QED
    BY <1>1, <1>9, <1>17, <2>2, <2>3 DEF UpdaterDeploys
<1>18. CASE UpdaterFails
  <2>1. Work1
    BY <1>8, <1>18 DEF UpdaterFails, EngineEnds
  <2> QED
    BY <1>1, <1>9, <1>18, <2>1 DEF UpdaterFails, EngineEnds
<1>19. CASE DeployFails
  <2>1. Work1
    BY <1>8, <1>19 DEF DeployFails, EngineEnds
  <2> QED
    BY <1>1, <1>9, <1>19, <2>1 DEF DeployFails, EngineEnds
<1>20. CASE EngineRestarts
  <2>1. Work1
    BY <1>3, <1>20 DEF EngineRestarts
  <2> QED
    BY <1>1, <1>9, <1>20, <2>1 DEF EngineRestarts
<1>21. CASE UNCHANGED deployVars
  <2>1. Work1
    BY <1>3, <1>21 DEF deployVars
  <2> QED
    BY <1>1, <1>9, <1>21, <2>1 DEF deployVars
<1> QED
  BY <1>10, <1>11, <1>12, <1>13, <1>14, <1>15, <1>16, <1>17, <1>18, <1>19, <1>20, <1>21
     DEF DeployNext, Deploys, Updates
-----------------------------------------------------------------------------
(***************************************************************************)
(* The parts side by side: the one that moves keeps its invariant, and the *)
(* others stay at rest.                                                    *)
(***************************************************************************)
PartsInv ==
  /\ IF part = "exchange" THEN ExchangeTypeOK ELSE ExchangeAtRest
  /\ IF part = "rate" THEN RateInv ELSE RateAtRest
  /\ IF part = "drift" THEN DriftInv /\ DriftTypes ELSE DriftAtRest
  /\ IF part = "autoscaler" THEN ScaleTypeOK /\ WindowInv ELSE AutoscalerAtRest
  /\ IF part = "http" THEN HttpTypeInv ELSE HttpAtRest
  /\ IF part = "puller" THEN PullerInv /\ PullerTypeOK ELSE PullerAtRest
  /\ OllamaInv
  /\ IF part = "deploy" THEN DeployTypes ELSE DeployAtRest
  /\ IF part = "events" THEN EventInv ELSE EventsAtRest
  /\ IF part = "requests" THEN RequestInv /\ RequestTypes ELSE RequestsAtRest
  /\ IF part = "pods" THEN PodInv /\ PodTypeOK ELSE PodsAtRest
  /\ IF part = "shutdown" THEN ShutdownTypeOK ELSE ShutdownAtRest

LEMMA InitParts == PartsInit => PartsInv
<1> SUFFICES ASSUME PartsInit PROVE PartsInv
  OBVIOUS
<1>1. RateInit => RateInv
  BY InitRate
<1>2. DriftInit => DriftInv /\ DriftTypes
  BY InitDrift, InitDriftTypes
<1>3. PullerInit => PullerInv /\ PullerTypeOK
  BY InitPuller, InitPullerTypes
<1>4. RequestInit => RequestInv /\ RequestTypes
  BY InitRequests, InitRequestTypes
<1>5. PodInit => PodInv /\ PodTypeOK
  <2>1. PodInit => wanted \in 0..NumPods /\ setChanges \in 0..MaxSetChanges
    BY RuntimePodAssumption DEF PodInit
  <2> QED
    BY <2>1, InitPod DEF PodInv, PodShape, PodTypeOK
<1>6. ExchangeInit => ExchangeTypeOK
  BY InitExchangeType
<1>7. HttpInit => HttpTypeInv
  BY InitHttpTypes
<1>8. /\ AutoscalerInit => ScaleTypeOK /\ WindowInv
      /\ OllamaInit => OllamaInv
      /\ DeployInit => DeployTypes
      /\ EventInit => EventInv
      /\ ShutdownInit => ShutdownTypeOK
  BY ScaleTypeInit, InitOllama, InitDeployTypes, EventInitInv, InitShutdownTypes
<1> QED
  BY <1>1, <1>2, <1>3, <1>4, <1>5, <1>6, <1>7, <1>8, Zenon DEF PartsInit, PartsInv

\* What is at rest does not change.
LEMMA RestIsKept ==
  /\ UNCHANGED exchangeVars => (ExchangeAtRest <=> ExchangeAtRest')
  /\ UNCHANGED rateVars => (RateAtRest <=> RateAtRest')
  /\ UNCHANGED driftVars => (DriftAtRest <=> DriftAtRest')
  /\ UNCHANGED autoscalerVars => (AutoscalerAtRest <=> AutoscalerAtRest')
  /\ UNCHANGED httpVars => (HttpAtRest <=> HttpAtRest')
  /\ UNCHANGED pullerVars => (PullerAtRest <=> PullerAtRest')
  /\ UNCHANGED deployVars => (DeployAtRest <=> DeployAtRest')
  /\ UNCHANGED eventVars => (EventsAtRest <=> EventsAtRest')
  /\ UNCHANGED runtimeRequestVars => (RequestsAtRest <=> RequestsAtRest')
  /\ UNCHANGED podVars => (PodsAtRest <=> PodsAtRest')
  /\ UNCHANGED shutdownVars => (ShutdownAtRest <=> ShutdownAtRest')
<1>1. UNCHANGED exchangeVars => (ExchangeAtRest <=> ExchangeAtRest')
  BY DEF exchangeVars, localVars, receiverVars, streamVars, remoteVars, ExchangeAtRest
<1>2. UNCHANGED rateVars => (RateAtRest <=> RateAtRest')
  BY DEF rateVars, RateAtRest
<1>3. UNCHANGED driftVars => (DriftAtRest <=> DriftAtRest')
  BY DEF driftVars, setVars, updaterVars, DriftAtRest
<1>4. UNCHANGED autoscalerVars => (AutoscalerAtRest <=> AutoscalerAtRest')
  BY DEF autoscalerVars, windowVars, scaleVars, AutoscalerAtRest, WindowInit
<1>5. UNCHANGED httpVars => (HttpAtRest <=> HttpAtRest')
  BY DEF httpVars, requestVars, cacheVars, HttpAtRest
<1>6. UNCHANGED pullerVars => (PullerAtRest <=> PullerAtRest')
  BY DEF pullerVars, pullVars, volumeVars, PullerAtRest
<1>7. UNCHANGED deployVars => (DeployAtRest <=> DeployAtRest')
  BY DEF deployVars, objectVars, DeployAtRest
<1>8. UNCHANGED eventVars => (EventsAtRest <=> EventsAtRest')
  BY DEF eventVars, EventsAtRest
<1>9. UNCHANGED runtimeRequestVars => (RequestsAtRest <=> RequestsAtRest')
  BY DEF runtimeRequestVars, addrSetVars, RequestsAtRest
<1>10. UNCHANGED podVars => (PodsAtRest <=> PodsAtRest')
  BY DEF podVars, PodsAtRest
<1>11. UNCHANGED shutdownVars => (ShutdownAtRest <=> ShutdownAtRest')
  BY DEF shutdownVars, ShutdownAtRest
<1> QED
  BY <1>1, <1>2, <1>3, <1>4, <1>5, <1>6, <1>7, <1>8, <1>9, <1>10, <1>11

LEMMA PartsStep == PartsInv /\ [PartsNext]_partsVars => PartsInv'
<1> SUFFICES ASSUME PartsInv, [PartsNext]_partsVars PROVE PartsInv'
  OBVIOUS
<1>1. /\ part' = part
      /\ IF part = "exchange" THEN [ExchangeNext]_exchangeVars ELSE UNCHANGED exchangeVars
      /\ IF part = "rate" THEN [RateNext]_rateVars ELSE UNCHANGED rateVars
      /\ IF part = "drift" THEN [DriftNext]_driftVars ELSE UNCHANGED driftVars
      /\ IF part = "autoscaler" THEN [AutoscalerNext]_autoscalerVars ELSE UNCHANGED autoscalerVars
      /\ IF part = "http" THEN [HttpNext]_httpVars ELSE UNCHANGED httpVars
      /\ IF part = "puller" THEN [PullerNext]_pullerVars ELSE UNCHANGED pullerVars
      /\ [OllamaNext]_ollamaVars
      /\ IF part = "deploy" THEN [DeployNext]_deployVars ELSE UNCHANGED deployVars
      /\ IF part = "events" THEN [EventNext]_eventVars ELSE UNCHANGED eventVars
      /\ IF part = "requests" THEN [RequestNext]_runtimeRequestVars ELSE UNCHANGED runtimeRequestVars
      /\ IF part = "pods" THEN [PodNext]_podVars ELSE UNCHANGED podVars
      /\ IF part = "shutdown" THEN [ShutdownNext]_shutdownVars ELSE UNCHANGED shutdownVars
  <2>1. CASE PartsNext
    BY <2>1, Zenon DEF PartsNext
  <2>2. CASE UNCHANGED partsVars
    BY <2>2 DEF partsVars
  <2> QED
    BY <2>1, <2>2
<1>2. IF part = "exchange" THEN ExchangeTypeOK' ELSE ExchangeAtRest'
  BY <1>1, ExchangeTypeStep, RestIsKept, Zenon DEF PartsInv
<1>3. IF part = "rate" THEN RateInv' ELSE RateAtRest'
  BY <1>1, RateStep, RestIsKept, Zenon DEF PartsInv
<1>4. IF part = "drift" THEN DriftInv' /\ DriftTypes' ELSE DriftAtRest'
  BY <1>1, DriftStep, DriftTypeStep, RestIsKept, Zenon DEF PartsInv
<1>5. IF part = "autoscaler" THEN ScaleTypeOK' /\ WindowInv' ELSE AutoscalerAtRest'
  BY <1>1, ScaleTypeNext, RestIsKept, Zenon DEF PartsInv
<1>6. IF part = "http" THEN HttpTypeInv' ELSE HttpAtRest'
  BY <1>1, HttpTypeStep, RestIsKept, Zenon DEF PartsInv
<1>7. IF part = "puller" THEN PullerInv' /\ PullerTypeOK' ELSE PullerAtRest'
  BY <1>1, PullerStep, PullerTypeStep, RestIsKept, Zenon DEF PartsInv
<1>8. OllamaInv'
  BY <1>1, OllamaStep, Zenon DEF PartsInv
<1>9. IF part = "deploy" THEN DeployTypes' ELSE DeployAtRest'
  BY <1>1, DeployTypeStep, RestIsKept, Zenon DEF PartsInv
<1>10. IF part = "events" THEN EventInv' ELSE EventsAtRest'
  BY <1>1, EventNextInv, RestIsKept, Zenon DEF PartsInv
<1>11. IF part = "requests" THEN RequestInv' /\ RequestTypes' ELSE RequestsAtRest'
  BY <1>1, RequestStep, RequestTypeStep, RestIsKept, Zenon DEF PartsInv
<1>12. IF part = "pods" THEN PodInv' /\ PodTypeOK' ELSE PodsAtRest'
  BY <1>1, PodStep, PodTypeStep, RestIsKept, Zenon DEF PartsInv
<1>13. IF part = "shutdown" THEN ShutdownTypeOK' ELSE ShutdownAtRest'
  BY <1>1, ShutdownTypeStep, RestIsKept, Zenon DEF PartsInv
<1> QED
  BY <1>1, <1>2, <1>3, <1>4, <1>5, <1>6, <1>7, <1>8, <1>9, <1>10, <1>11, <1>12, <1>13, Zenon
     DEF PartsInv

\* A part at rest is in a state of its own.
LEMMA RestIsTyped ==
  /\ ExchangeAtRest => ExchangeTypeOK
  /\ RateAtRest => RateTypeOK
  /\ DriftAtRest => DriftTypeOK
  /\ AutoscalerAtRest => ScaleTypeOK
  /\ HttpAtRest => HttpTypeOK
  /\ PullerAtRest => PullerTypeOK
  /\ DeployAtRest => DeployTypeOK
  /\ EventsAtRest => EventTypeOK
  /\ RequestsAtRest => RequestTypeOK
  /\ PodsAtRest => PodTypeOK
  /\ ShutdownAtRest => ShutdownTypeOK
<1>1. ASSUME ExchangeAtRest PROVE ExchangeTypeOK
  <2>1. cache \in Statuses
    BY <1>1 DEF ExchangeAtRest, NoStatuses, Statuses
  <2>2. table \in [Engines -> [status : Status \cup {NoEngine}, srv : Streams \cup {0}]]
    BY <1>1 DEF ExchangeAtRest, NothingHeld
  <2>3. inTransit \in [Streams -> Seq(ServerStatus)]
    BY <1>1, EmptySeq DEF ExchangeAtRest
  <2>4. changes \in 0..MaxLocalChanges
    BY <1>1, ExchangeAssumption DEF ExchangeAtRest
  <2> QED
    BY <1>1, <2>1, <2>2, <2>3, <2>4 DEF ExchangeAtRest, ExchangeTypeOK
<1>2. ASSUME RateAtRest PROVE RateTypeOK
  BY <1>2, RateAssumption, EmptySeq DEF RateAtRest, RateTypeOK
<1>3. ASSUME DriftAtRest PROVE DriftTypeOK
  <2>1. set \in SetRecord /\ set0 \in SetRecord /\ 1 \in Revisions /\ 1..1 = {1}
    BY <1>3, DriftAssumption DEF DriftAtRest, SetRecord, Revisions
  <2>2. revised \in [1..1 -> Contents]
    BY <1>3, <2>1, DriftAssumption DEF DriftAtRest
  <2>3. pods \in [Ordinals -> PodRecord]
    <3>1. [state |-> "ready", revision |-> 1, terminating |-> FALSE] \in PodRecord /\ NoPodThere \in PodRecord
      BY <2>1 DEF PodRecord
    <3> QED
      BY <1>3, <3>1 DEF DriftAtRest
  <2>4. revised \in UNION {[1..n -> Contents] : n \in Revisions}
    BY <2>1, <2>2
  <2> QED
    BY <1>3, <2>1, <2>3, <2>4, DriftAssumption DEF DriftAtRest, DriftTypeOK
<1>4. ASSUME AutoscalerAtRest PROVE ScaleTypeOK
  <2>1. AutoscalerInit
    BY <1>4 DEF AutoscalerAtRest, AutoscalerInit
  <2> QED
    BY <2>1, ScaleTypeInit
<1>5. ASSUME HttpAtRest PROVE HttpTypeOK
  <2>1. CreateChatCompletion \in Handlers /\ Len(CreateChatCompletion) \in Nat
    BY StepsOfHandlers DEF Handlers
  <2>2. \A r \in Requests : route[r] = CreateChatCompletion /\ step[r] = Len(CreateChatCompletion) + 1
    BY <1>5 DEF HttpAtRest
  <2>3. \A r \in Requests : step[r] \in 1..(Len(route[r]) + 1)
    BY <2>1, <2>2
  <2>4. route \in [Requests -> Handlers]
    BY <1>5, <2>1 DEF HttpAtRest
  <2>5. activation0 \in ModelRecord /\ activatedAt \in 0..MaxModelChanges
    BY <1>5, HttpAssumption DEF HttpAtRest, ModelRecord
  <2>6. /\ reply \in [Requests -> Codes \cup {0}] /\ usage \in [Requests -> Codes \cup {0}]
        /\ lookup \in [Requests -> {"none", "asking", "asked", "got", "activated"}]
        /\ body \in [Requests -> {"none", "whole", "cut", "cutAndError"}]
        /\ model \in [Requests -> ModelRecord \cup {NoEntry}]
    BY <1>5 DEF HttpAtRest, Codes
  <2> QED
    BY <1>5, <2>3, <2>4, <2>5, <2>6 DEF HttpAtRest, HttpTypeOK
<1>6. ASSUME PullerAtRest PROVE PullerTypeOK
  <2>1. /\ pullCh \in Seq(Models) /\ Len(pullCh) <= QueueLength /\ todo \in Seq(Models)
        /\ pullerFailures \in 0..MaxPullerFailures
    BY <1>6, EmptySeq, PullerAssumption DEF PullerAtRest
  <2>2. \A m \in Models : files[m] \in [FilesOf(m) -> {"absent", "partial", "whole"}]
                          /\ bucket[m] \subseteq Optional[m]
    BY <1>6 DEF PullerAtRest
  <2> QED
    BY <1>6, <2>1, <2>2 DEF PullerAtRest, PullerTypeOK
<1>7. ASSUME DeployAtRest PROVE DeployTypeOK
  BY <1>7, DeploymentAssumption DEF DeployAtRest, DeployTypeOK
<1>8. ASSUME EventsAtRest PROVE EventTypeOK
  <2>1. written = <<>> /\ toRead = <<>> /\ Len(data) = 0 /\ scan = "ended"
    BY <1>8 DEF EventsAtRest
  <2>2. written \in ByteStreams
    <3>1. 0 \in 0..MaxStreamLength /\ <<>> \in [1..0 -> {R, N, X}]
      BY EventStreamAssumption
    <3> QED
      BY <2>1, <3>1 DEF ByteStreams
  <2>3. IsSuffix(toRead, written)
    <3> DEFINE d == <<>>
    <3>1. d \in Seq(Bytes) /\ Len(d) = 0
      BY EmptySeq
    <3>2. toRead = d /\ written = d
      BY <2>1
    <3> HIDE DEF d
    <3>3. Len(d) <= Len(d) /\ 1..Len(d) = {}
      BY <3>1
    <3> QED
      BY <3>1, <3>2, <3>3, SuffixIs
  <2> QED
    BY <2>1, <2>2, <2>3, EventStreamAssumption DEF EventTypeOK
<1>9. ASSUME RequestsAtRest PROVE RequestTypeOK
  <2>1. [at |-> "done", attempt |-> 0, addr |-> 0, status |-> 200] \in TaskRecord
    BY RuntimeRequestsAssumption DEF TaskRecord, HttpStatuses
  <2>2. attempts \in [RuntimeTasks -> TaskRecord]
    BY <1>9, <2>1 DEF RequestsAtRest
  <2>3. 0 \in 0..Cardinality(Pods)
    <3>1. Cardinality(Pods) \in Nat
      BY RuntimeRequestsAssumption, FS_CardinalityType
    <3> QED
      BY <3>1
  <2>4. blacklisted \in [Pods -> 0..BlacklistDuration] /\ podChanges \in 0..MaxPodChanges
    BY <1>9, RuntimeRequestsAssumption DEF RequestsAtRest
  <2> QED
    BY <1>9, <2>2, <2>3, <2>4 DEF RequestsAtRest, RequestTypeOK, TaskRecord
<1>10. ASSUME PodsAtRest PROVE PodTypeOK
  <2>1. deployment \in Deployments
    BY <1>10 DEF PodsAtRest, Deployments
  <2>2. template \in Volumes /\ podVolume \in [Indexes -> Volumes]
    BY <1>10 DEF PodsAtRest, Volumes
  <2>3. podAt \in [Indexes -> Stages] /\ ownFiles \in [Indexes -> SUBSET Content]
    BY <1>10 DEF PodsAtRest, Stages
  <2>4. wanted \in 0..NumPods /\ setChanges \in 0..MaxSetChanges
    BY <1>10, RuntimePodAssumption DEF PodsAtRest
  <2>5. sharedFiles \subseteq Content /\ moved \in BOOLEAN
    BY <1>10 DEF PodsAtRest
  <2> QED
    BY <2>1, <2>2, <2>3, <2>4, <2>5 DEF PodTypeOK
<1>11. ASSUME ShutdownAtRest PROVE ShutdownTypeOK
  BY <1>11 DEF ShutdownAtRest, ShutdownTypeOK
<1> QED
  BY <1>1, <1>2, <1>3, <1>4, <1>5, <1>6, <1>7, <1>8, <1>9, <1>10, <1>11

(***************************************************************************)
(* Types, of every component and whatever the values of all the constants: *)
(* no step of the code leaves its states.  Among what that says: the queue *)
(* of the puller keeps its length, a request to a runtime its number of    *)
(* attempts and the address set an index within it, the ring of the        *)
(* metrics its place, and the buffer of the scanner its size.              *)
(***************************************************************************)
THEOREM PartsTypes == PartsSpec => []PartsTypeOK
<1>1. PartsInv => PartsTypeOK
  <2> SUFFICES ASSUME PartsInv PROVE PartsTypeOK
    OBVIOUS
  <2>1. ExchangeTypeOK /\ HttpTypeOK /\ ScaleTypeOK /\ ShutdownTypeOK
    BY RestIsTyped DEF PartsInv, HttpTypeInv
  <2>2. RateTypeOK /\ DriftTypeOK /\ PullerTypeOK
    BY RestIsTyped DEF PartsInv, RateInv, DriftTypes
  <2>3. OllamaTypeOK /\ DeployTypeOK /\ RequestTypeOK /\ PodTypeOK
    BY RestIsTyped DEF PartsInv, OllamaInv, DeployTypes, RequestTypes
  <2>4. EventTypeOK
    BY RestIsTyped, EventInvTyped DEF PartsInv
  <2> QED
    BY <2>1, <2>2, <2>3, <2>4 DEF PartsTypeOK
<1> QED
  BY <1>1, InitParts, PartsStep, PTL DEF PartsSpec

=============================================================================
