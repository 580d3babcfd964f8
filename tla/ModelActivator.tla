--------------------------- MODULE ModelActivator ---------------------------
(***************************************************************************)
(* The runtime manager with the two controllers of the engine that change  *)
(* models without a task: the activator (model_activator.go), which pulls, *)
(* updates and deletes models as the model manager lists them, and the     *)
(* updater (updater.go), which applies every StatefulSet once after the    *)
(* engine has started.                                                     *)
(***************************************************************************)
EXTENDS RuntimeManager

CONSTANTS PreloadedModels, Parallelism

VARIABLES
  activation,  \* the activation status of a model; absent: not listed
  act,         \* what the activator does about a model
  upd, updConfig   \* the same for the updater, and the configuration it read

activatorVars == <<activation, act, upd, updConfig>>
vars == <<rmVars, activatorVars>>

Activations == {"unspecified", "active", "inactive", "absent"}

TypeOK ==
  /\ RuntimeTypeOK
  /\ activation \in [Names -> Activations]
  /\ act \in [Names -> {"idle", "pull", "pulling", "update", "updating", "delete", "deleting"}]
  /\ upd \in [Models -> {"done", "listed", "read"}]
  /\ updConfig \in [Models -> Configs \cup {NoConfig}]

Init ==
  /\ RuntimeInit
  /\ activation \in [Names -> {"unspecified", "active"}]
  /\ act = [m \in Names |-> "idle"]
  /\ upd = [m \in Models |-> "done"] /\ updConfig = [m \in Models |-> NoConfig]
-----------------------------------------------------------------------------
\* A base model stays for its active fine-tuned models.
IsNeeded(m) == \E a \in Adapters : BaseOf[a] = m /\ activation[a] = "active"

ActivationStep(m) ==
  CASE activation[m] = "absent" -> IF Known(m) THEN "delete" ELSE "idle"
    [] activation[m] # "absent" /\ (m \in PreloadedModels \/ activation[m] = "active") -> "pull"
    [] activation[m] = "inactive" /\ m \notin PreloadedModels /\ ~IsNeeded(m) -> "delete"
    [] OTHER -> "idle"

\* reconcileModelActivation, once the last one has ended.
ReconcileModelActivation ==
  /\ \A m \in Names : act[m] = "idle"
  /\ act' = [m \in Names |-> ActivationStep(m)]
  /\ UNCHANGED <<rmVars, activation, upd, updConfig>>

Busy == {m \in Names : act[m] \in {"pulling", "update", "updating", "deleting"}}

\* A step of the goroutine of m: it sends a request,
ActivatorSends(m) ==
  /\ \/ act[m] = "pull" /\ Cardinality(Busy) < Parallelism
        /\ Request(PullEvent(m, NoCall)) /\ act' = [act EXCEPT ![m] = "pulling"]
     \/ act[m] = "update"
        /\ Request(UpdateEvent(m)) /\ act' = [act EXCEPT ![m] = "updating"]
     \/ act[m] = "delete" /\ Cardinality(Busy) < Parallelism
        /\ Request(DeleteEvent(m)) /\ act' = [act EXCEPT ![m] = "deleting"]
  /\ UNCHANGED <<activation, upd, updConfig>>

\* and goes on when the loop has taken it (a pull) or is done with it.
ActivatorGoesOn(m) ==
  /\ \/ act[m] = "pulling" /\ PullEvent(m, NoCall) \notin events
        /\ act' = [act EXCEPT ![m] = "update"]
     \/ act[m] = "updating" /\ UpdateEvent(m) \notin events /\ loop = "run"
        /\ act' = [act EXCEPT ![m] = "idle"]
     \/ act[m] = "deleting" /\ DeleteEvent(m) \notin events /\ loop = "run"
        /\ act' = [act EXCEPT ![m] = "idle"]
  /\ UNCHANGED <<rmVars, activation, upd, updConfig>>

\* Somebody changes the activation of a model, or deletes it.
ActivationChanges(m) ==
  /\ \/ activation[m] = "active" /\ activation' = [activation EXCEPT ![m] = "inactive"]
     \/ activation[m] = "inactive" /\ activation' = [activation EXCEPT ![m] = "absent"]
  /\ UNCHANGED <<rmVars, act, upd, updConfig>>
-----------------------------------------------------------------------------
(***************************************************************************)
(* Updater.Start reads the model of each StatefulSet it has listed and     *)
(* applies the StatefulSet with it, next to the loop of the manager.       *)
(***************************************************************************)
UpdaterReads(m) ==
  /\ upd[m] = "listed"
  /\ upd' = [upd EXCEPT ![m] = "read"]
  /\ updConfig' = [updConfig EXCEPT ![m] = config[m]]
  /\ UNCHANGED <<rmVars, activation, act>>

UpdaterDeploys(m) ==
  /\ upd[m] = "read"
  /\ upd' = [upd EXCEPT ![m] = "done"]
  /\ updConfig' = [updConfig EXCEPT ![m] = NoConfig]
  /\ sts' = [sts EXCEPT ![m] = [phase |-> IF @.phase = "none" THEN "pending" ELSE @.phase,
                                mci |-> updConfig[m]]]
  /\ events' = events \cup {ReconcileEvent(m)}
  /\ UNCHANGED <<runtimes, inProgress, loop, scalers, calls, podVars, config, disturbances,
                 activation, act>>

Restart ==
  /\ ManagerRestarts
  /\ act' = [m \in Names |-> "idle"]
  /\ upd' = [m \in Models |-> IF sts[m].phase = "none" THEN "done" ELSE "listed"]
  /\ updConfig' = [m \in Models |-> NoConfig]
  /\ UNCHANGED activation

Handles(e) == RunStateMachine(e) /\ UNCHANGED activatorVars
Environment == (Cluster \/ Callers) /\ UNCHANGED activatorVars

Activator ==
  \/ ReconcileModelActivation
  \/ \E m \in Names : ActivatorSends(m) \/ ActivatorGoesOn(m) \/ ActivationChanges(m)

Updater == \E m \in Models : UpdaterReads(m) \/ UpdaterDeploys(m)

Next == (\E e \in events : Handles(e)) \/ Environment \/ Activator \/ Updater \/ Restart

Spec == Init /\ [][Next]_vars

(***************************************************************************)
(* The goroutines that wait to send are served in the order in which they  *)
(* came; what ends the process makes it start again; a StatefulSet becomes *)
(* ready unless it is disturbed again.                                     *)
(***************************************************************************)
Fairness ==
  /\ \A e \in Event : WF_vars(Handles(e))
  /\ \A m \in Models : WF_vars(StsProgress(m) /\ UNCHANGED activatorVars)
  /\ WF_vars(HasExited /\ Restart)

LiveSpec == Spec /\ Fairness
-----------------------------------------------------------------------------
(***************************************************************************)
(* A call of PullModel is answered, or its context ends (manager.go        *)
(* 950-968), whatever becomes of the StatefulSet meanwhile: it is never    *)
(* ready, is deleted or scaled to zero.  Only a stuck loop keeps it.       *)
(***************************************************************************)
PullIsAnswered ==
  \A c \in Calls :
    calls[c] = "sending" ~> calls[c] \in {"ok", "err", "gone"} \/ loop = "stuck"

=============================================================================
