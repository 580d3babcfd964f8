------------------------------ MODULE Deployment ------------------------------
(***************************************************************************)
(* How runtimes are brought to the cluster: deployRuntime and              *)
(* DeleteRuntime of the runtime clients (engine/internal/runtime/client.go)*)
(* and the updater that deploys every runtime again when the engine starts *)
(* (updater.go).                                                           *)
(*                                                                         *)
(* A runtime is three objects, applied one by one: a stateful set, its     *)
(* service, and for some a volume claim that the replicas share.  The      *)
(* manager's event loop and the updater deploy side by side.  An error of  *)
(* either ends the engine's process, which Kubernetes starts again, maybe  *)
(* with another configuration.  What the objects contain is abstracted to  *)
(* the version of the configuration they were built from.                  *)
(***************************************************************************)
EXTENDS FiniteSets, Naturals

CONSTANTS DeployedModels, SharedVolume,  \* the models whose replicas share a volume
          NoSts, NotListed,
          MaxConfigs,                    \* bound: versions of the configuration
          MaxDeployFailures              \* bound

ASSUME DeploymentAssumption ==
  /\ SharedVolume \subseteq DeployedModels /\ NoSts \notin Nat
  /\ MaxConfigs \in Nat \ {0} /\ MaxDeployFailures \in Nat

VARIABLES
  statefulSet,    \* the configuration it was applied with, or NoSts
  service, volumeClaim,   \* the models that have these objects
  modelManager,   \* the models that the model manager knows
  engine,         \* the process: running or failed
  config,         \* the configuration it has read
  updater,        \* what it has still to deploy: a set; NotListed before it has listed
  deploy,         \* the deployRuntime under way of the manager and of the updater
  deployFailures  \* bound

objectVars == <<statefulSet, service, volumeClaim>>
deployVars == <<objectVars, modelManager, engine, config, updater, deploy, deployFailures>>

Deployers == {"manager", "updater"}
Idle == [model |-> "none", at |-> "idle", update |-> FALSE]
Deployed(m) == statefulSet[m] # NoSts

DeployTypeOK ==
  /\ statefulSet \in [DeployedModels -> 1..MaxConfigs \cup {NoSts}]
  /\ service \subseteq DeployedModels /\ volumeClaim \subseteq SharedVolume
  /\ modelManager \subseteq DeployedModels
  /\ engine \in {"running", "failed"} /\ config \in 1..MaxConfigs
  /\ updater = NotListed \/ updater \in SUBSET DeployedModels
  /\ \A d \in Deployers :
       \/ deploy[d] = Idle
       \/ deploy[d] \in [model : DeployedModels, at : {"get", "sts", "service", "volumeClaim"},
                         update : BOOLEAN]
  /\ deployFailures \in 0..MaxDeployFailures

DeployInit ==
  /\ statefulSet = [m \in DeployedModels |-> NoSts] /\ service = {} /\ volumeClaim = {}
  /\ modelManager = DeployedModels /\ engine = "running" /\ config = 1
  /\ updater = NotListed /\ deploy = [d \in Deployers |-> Idle] /\ deployFailures = 0
-----------------------------------------------------------------------------
At0(d, at) == engine = "running" /\ deploy[d].at = at
Begin(d, m, update) == deploy' = [deploy EXCEPT ![d] = [model |-> m, at |-> "get", update |-> update]]
Proceed(d, at) == deploy' = [deploy EXCEPT ![d].at = at]
Finish(d) == deploy' = [deploy EXCEPT ![d] = Idle]

\* The manager deploys to pull a model, or to update it.
ManagerDeploys(m) ==
  /\ At0("manager", "idle") /\ m \in modelManager
  /\ \E update \in BOOLEAN : Begin("manager", m, update)
  /\ UNCHANGED <<objectVars, modelManager, engine, config, updater, deployFailures>>

UpdaterLists ==
  /\ engine = "running" /\ updater = NotListed
  /\ updater' = {m \in DeployedModels : Deployed(m)}
  /\ UNCHANGED <<objectVars, modelManager, engine, config, deploy, deployFailures>>

\* A bug: stateful sets that exist are left alone.
UpdaterDeploysMissing ==
  /\ At0("updater", "idle") /\ updater # NotListed
  /\ \E m \in updater :
       /\ m \in modelManager
       /\ Begin("updater", m, FALSE) /\ updater' = updater \ {m}
  /\ UNCHANGED <<objectVars, modelManager, engine, config, deployFailures>>

UpdaterDeploys ==
  /\ At0("updater", "idle") /\ updater # NotListed
  /\ \E m \in updater :
       /\ m \in modelManager
       /\ Begin("updater", m, TRUE) /\ updater' = updater \ {m}
  /\ UNCHANGED <<objectVars, modelManager, engine, config, deployFailures>>

\* deployRuntime.  Without update an existing stateful set is all it looks at.
GetStatefulSet(d) ==
  /\ At0(d, "get")
  /\ IF Deployed(deploy[d].model) /\ ~deploy[d].update THEN Finish(d) ELSE Proceed(d, "sts")
  /\ UNCHANGED <<objectVars, modelManager, engine, config, updater, deployFailures>>

ApplyStatefulSet(d) ==
  /\ At0(d, "sts") /\ Proceed(d, "service")
  /\ statefulSet' = [statefulSet EXCEPT ![deploy[d].model] = config]
  /\ UNCHANGED <<service, volumeClaim, modelManager, engine, config, updater, deployFailures>>

\* These are owned by the stateful set and collected when it is gone.
ApplyService(d) ==
  LET m == deploy[d].model IN
  /\ At0(d, "service")
  /\ service' = IF Deployed(m) THEN service \cup {m} ELSE service
  /\ IF m \in SharedVolume THEN Proceed(d, "volumeClaim") ELSE Finish(d)
  /\ UNCHANGED <<statefulSet, volumeClaim, modelManager, engine, config, updater, deployFailures>>

ApplyVolumeClaim(d) ==
  LET m == deploy[d].model IN
  /\ At0(d, "volumeClaim") /\ Finish(d)
  /\ volumeClaim' = IF Deployed(m) THEN volumeClaim \cup {m} ELSE volumeClaim
  /\ UNCHANGED <<statefulSet, service, modelManager, engine, config, updater, deployFailures>>

\* By the manager, between two deployments of its own; the cluster collects
\* what the stateful set owns.
DeleteRuntime(m) ==
  /\ At0("manager", "idle") /\ Deployed(m)
  /\ statefulSet' = [statefulSet EXCEPT ![m] = NoSts]
  /\ service' = service \ {m} /\ volumeClaim' = volumeClaim \ {m}
  /\ UNCHANGED <<modelManager, engine, config, updater, deploy, deployFailures>>
-----------------------------------------------------------------------------
EngineEnds == engine' = "failed" /\ deploy' = [d \in Deployers |-> Idle]

\* A request to the cluster fails, or the process is killed.
DeployFails ==
  /\ engine = "running" /\ deployFailures < MaxDeployFailures
  /\ deployFailures' = deployFailures + 1 /\ EngineEnds
  /\ UNCHANGED <<objectVars, modelManager, config, updater>>

\* The updater asks the model manager for a model that is not there any more.
UpdaterFails ==
  /\ At0("updater", "idle") /\ updater # NotListed /\ \E m \in updater : m \notin modelManager
  /\ EngineEnds
  /\ UNCHANGED <<objectVars, modelManager, config, updater, deployFailures>>

EngineRestarts ==
  /\ engine = "failed" /\ engine' = "running"
  /\ config' \in {c \in config..(config + 1) : c <= MaxConfigs}
  /\ updater' = NotListed
  /\ UNCHANGED <<objectVars, modelManager, deploy, deployFailures>>

ModelIsRemoved(m) ==
  /\ m \in modelManager /\ modelManager' = modelManager \ {m}
  /\ UNCHANGED <<objectVars, engine, config, updater, deploy, deployFailures>>

Deploys(d) == GetStatefulSet(d) \/ ApplyStatefulSet(d) \/ ApplyService(d) \/ ApplyVolumeClaim(d)
Updates == UpdaterLists \/ UpdaterDeploys \/ UpdaterFails

DeployNext ==
  \/ \E d \in Deployers : Deploys(d)
  \/ \E m \in DeployedModels : ManagerDeploys(m) \/ DeleteRuntime(m) \/ ModelIsRemoved(m)
  \/ Updates \/ DeployFails \/ EngineRestarts

DeploySpec == DeployInit /\ [][DeployNext]_deployVars

\* A deployment goes on, the updater works through its list, and the process
\* is started again.
DeployFairness ==
  /\ \A d \in Deployers : WF_deployVars(Deploys(d))
  /\ WF_deployVars(Updates) /\ WF_deployVars(EngineRestarts)
-----------------------------------------------------------------------------
(***************************************************************************)
(* Whatever part of a runtime a failed deployment has left behind, and     *)
(* whatever the manager, which leaves an existing stateful set alone, and  *)
(* the updater do to it together, it is whole in the end and follows the   *)
(* last configuration.  The exception: a model is removed while its        *)
(* runtime is there, then the updater fails at each start of the engine,   *)
(* until somebody deletes the runtime (client.go 521-576, updater.go       *)
(* 60-97).                                                                 *)
(***************************************************************************)
Whole(m) ==
  statefulSet[m] = config /\ m \in service /\ (m \in SharedVolume => m \in volumeClaim)

RuntimesAreDeployed ==
  \/ <>[](\A m \in DeployedModels :
          Deployed(m) /\ (\A d \in Deployers : deploy[d].model # m) => Whole(m))
  \/ <>[](\E m \in DeployedModels : Deployed(m) /\ m \notin modelManager)

===============================================================================
