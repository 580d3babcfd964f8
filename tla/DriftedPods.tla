----------------------------- MODULE DriftedPods -----------------------------
(***************************************************************************)
(* The drifted pod updater, engine/internal/runtime/drifted_pod_updater.go,*)
(* and the StatefulSet it works on.  With the OnDelete strategy Kubernetes *)
(* keeps the pods when the template of a StatefulSet changes; the updater  *)
(* deletes those that differ in substance, one at a time, and Kubernetes   *)
(* creates them again.                                                     *)
(*                                                                         *)
(* Every 30 seconds Run works on what Reconcile has noted of the           *)
(* StatefulSet.  It lists the pods, decides, and deletes by name: between  *)
(* any two of these steps the cluster moves.  A pod that is being deleted  *)
(* stays ready until it has finished its requests (the preStop hook).      *)
(***************************************************************************)
EXTENDS Naturals, FiniteSets, FiniteSetsExt

CONSTANTS MaxReplicas,
          Contents,         \* what the pod specs of the revisions say
          MaxRevision,      \* bound: the revisions of the template
          MaxPodFailures,   \* bound: pods that fail, restarts of the engine
          MaxScales,        \* bound: changes of the number of replicas
          NotKnown

ASSUME DriftAssumption ==
  /\ MaxReplicas \in Nat \ {0} /\ MaxRevision \in Nat \ {0} /\ Contents # {}
  /\ MaxPodFailures \in Nat /\ MaxScales \in Nat

Ordinals == 0..(MaxReplicas - 1)
Revisions == 1..MaxRevision

VARIABLES
  set,         \* the StatefulSet: replicas, updateRevision and template
  revised,     \* the contents of the revisions so far
  pods,        \* the pods by ordinal
  set0,        \* what the updater knows of the StatefulSet
  doomed,      \* the pods that the updater has decided to delete
  updating,    \* GetUpdateInProgressPodNames
  taken,       \* history: the ready pods it has decided to delete, until they are back
  podFailures, scales

setVars == <<set, revised, scales>>
updaterVars == <<set0, doomed>>
driftVars == <<setVars, pods, updaterVars, updating, taken, podFailures>>

NoPodThere == [state |-> "none", revision |-> 0, terminating |-> FALSE]
PodRecord == [state : {"starting", "ready", "unschedulable", "crashLooping"},
              revision : Revisions, terminating : BOOLEAN] \cup {NoPodThere}
SetRecord == [replicas : 1..MaxReplicas, updateRevision : Revisions]

DriftTypeOK ==
  /\ set \in SetRecord /\ set0 \in SetRecord \cup {NotKnown}
  /\ revised \in UNION {[1..n -> Contents] : n \in Revisions}
  /\ pods \in [Ordinals -> PodRecord]
  /\ doomed \subseteq Ordinals /\ updating \subseteq Ordinals /\ taken \subseteq Ordinals
  /\ podFailures \in 0..MaxPodFailures /\ scales \in 0..MaxScales

\* A StatefulSet whose pods run; which of the contents is its first makes no
\* difference.
DriftInit ==
  /\ set \in [replicas : 1..MaxReplicas, updateRevision : {1}]
  /\ revised = [r \in {1} |-> CHOOSE c \in Contents : TRUE]
  /\ pods = [i \in Ordinals |-> IF i < set.replicas
                                 THEN [state |-> "ready", revision |-> 1, terminating |-> FALSE]
                                 ELSE NoPodThere]
  /\ set0 = NotKnown /\ doomed = {} /\ updating = {} /\ taken = {}
  /\ podFailures = 0 /\ scales = 0

Exists(i) == pods[i].state # "none"
InService(i) == pods[i].state = "ready" /\ ~pods[i].terminating /\ i \notin updating
-----------------------------------------------------------------------------
(***************************************************************************)
(* The cluster.                                                            *)
(***************************************************************************)
\* deployRuntime applies a template: the same in substance, or another.
TemplateChanges ==
  /\ set.updateRevision < MaxRevision
  /\ \E c \in Contents :
       revised' = [r \in 1..(set.updateRevision + 1) |->
                     IF r = set.updateRevision + 1 THEN c ELSE revised[r]]
  /\ set' = [set EXCEPT !.updateRevision = @ + 1]
  /\ UNCHANGED <<scales, pods, updaterVars, updating, taken, podFailures>>

Scaled ==
  /\ scales < MaxScales /\ scales' = scales + 1
  /\ \E n \in 1..MaxReplicas : n # set.replicas /\ set' = [set EXCEPT !.replicas = n]
  /\ UNCHANGED <<revised, pods, updaterVars, updating, taken, podFailures>>

\* Pods are created in their order, each when those before it are ready.
PodIsCreated(i) ==
  /\ i < set.replicas /\ ~Exists(i)
  /\ \A j \in 0..(i - 1) : pods[j].state = "ready"
  /\ pods' = [pods EXCEPT ![i] =
       [state |-> "starting", revision |-> set.updateRevision, terminating |-> FALSE]]
  /\ UNCHANGED <<setVars, updaterVars, updating, taken, podFailures>>

PodIsScaledDown(i) ==
  /\ i >= set.replicas /\ Exists(i) /\ ~pods[i].terminating
  /\ \A j \in Ordinals : j > i => ~Exists(j)
  /\ pods' = [pods EXCEPT ![i].terminating = TRUE]
  /\ UNCHANGED <<setVars, updaterVars, updating, taken, podFailures>>

PodTerminates(i) ==
  /\ pods[i].terminating
  /\ pods' = [pods EXCEPT ![i] = NoPodThere]
  /\ UNCHANGED <<setVars, updaterVars, updating, taken, podFailures>>

\* Models are loaded, by the pod or by the manager (updating).
PodBecomesReady(i) ==
  /\ Exists(i) /\ pods[i].state # "ready"
  /\ pods' = [pods EXCEPT ![i].state = "ready"]
  /\ taken' = taken \ {i}
  /\ UNCHANGED <<setVars, updaterVars, updating, podFailures>>

PodCrashes(i) ==
  /\ pods[i].state = "starting"
  /\ pods' = [pods EXCEPT ![i].state = "crashLooping"]
  /\ UNCHANGED <<setVars, updaterVars, updating, taken, podFailures>>

PodFails(i) ==
  /\ podFailures < MaxPodFailures /\ podFailures' = podFailures + 1
  /\ Exists(i)
  /\ \E s \in {"starting", "unschedulable", "crashLooping"} : pods' = [pods EXCEPT ![i].state = s]
  /\ UNCHANGED <<setVars, updaterVars, updating, taken>>

ManagerUpdatesPod(i) ==
  /\ Exists(i) /\ i \notin updating /\ podFailures < MaxPodFailures
  /\ podFailures' = podFailures + 1
  /\ updating' = updating \cup {i}
  /\ UNCHANGED <<setVars, pods, updaterVars, taken>>

ManagerHasUpdatedPod(i) ==
  /\ i \in updating /\ updating' = updating \ {i}
  /\ UNCHANGED <<setVars, pods, updaterVars, taken, podFailures>>
-----------------------------------------------------------------------------
(***************************************************************************)
(* The updater.                                                            *)
(***************************************************************************)
Reconcile ==
  /\ set0 # set /\ set0' = set
  /\ UNCHANGED <<setVars, pods, doomed, updating, taken, podFailures>>

\* hasMajorChangeToPodSpec: with what Kubernetes has filled in removed, and
\* whatever the version of the engine's image, the contents differ.
HasMajorChange(i) == revised[pods[i].revision] # revised[set0.updateRevision]

Drifted == {i \in Ordinals : /\ Exists(i) /\ pods[i].revision # set0.updateRevision
                             /\ HasMajorChange(i)}
Ready == {i \in Ordinals : pods[i].state = "ready"} \ updating
\* A bug: pods that cannot start are waited for.
NoneDeletable == {}

Deletable == {i \in Drifted : pods[i].state \in {"unschedulable", "crashLooping"}}

ChooseDeletionCandidate(S) == IF S = {} THEN {} ELSE {Max(S)}

\* A bug: a pod that is ready may be taken while another one is not.
DecisionOfAny ==
  IF set0.replicas = 1 THEN {Drifted}
  ELSE IF Cardinality(Ready) >= set0.replicas - 1 THEN {{i} : i \in Drifted}
  ELSE {ChooseDeletionCandidate(Deletable)}

\* The pods that deleteDriftedPods deletes, given what it sees: every way to
\* decide, as only the first pod of a list in no order is taken.
Decision ==
  IF set0.replicas = 1 THEN {Drifted}
  ELSE IF Cardinality(Ready) = set0.replicas THEN {ChooseDeletionCandidate(Drifted)}
  ELSE IF Cardinality(Ready) = set0.replicas - 1
    THEN IF Drifted \subseteq Ready THEN {{}} ELSE {{i} : i \in Drifted \ Ready}
  ELSE {ChooseDeletionCandidate(Deletable)}

DeleteDriftedPods ==
  /\ set0 # NotKnown /\ doomed = {} /\ Drifted # {}
  /\ doomed' \in Decision /\ doomed' # {}
  /\ taken' = taken \cup {i \in doomed' : InService(i)}
  /\ UNCHANGED <<setVars, pods, set0, updating, podFailures>>

\* The pod that has this name now.
DeleteDriftedPod(i) ==
  /\ i \in doomed /\ doomed' = doomed \ {i}
  /\ pods' = IF Exists(i) THEN [pods EXCEPT ![i].terminating = TRUE] ELSE pods
  /\ UNCHANGED <<setVars, set0, updating, taken, podFailures>>

\* An error ends the engine; another one is elected.
UpdaterRestarts ==
  /\ podFailures < MaxPodFailures /\ podFailures' = podFailures + 1
  /\ set0' = NotKnown /\ doomed' = {} /\ updating' = {}
  /\ UNCHANGED <<setVars, pods, taken>>

StatefulSetController ==
  \E i \in Ordinals : PodIsCreated(i) \/ PodIsScaledDown(i) \/ PodTerminates(i)

DriftNext ==
  \/ TemplateChanges \/ Scaled \/ StatefulSetController
  \/ \E i \in Ordinals :
       \/ PodBecomesReady(i) \/ PodCrashes(i) \/ PodFails(i)
       \/ ManagerUpdatesPod(i) \/ ManagerHasUpdatedPod(i) \/ DeleteDriftedPod(i)
  \/ Reconcile \/ DeleteDriftedPods \/ UpdaterRestarts

DriftSpec == DriftInit /\ [][DriftNext]_driftVars

(***************************************************************************)
(* Kubernetes works on the StatefulSet and the updater ticks.  A pod that  *)
(* has the contents of the template becomes ready; of one that has not, it *)
(* is only expected that its start succeeds or fails.                      *)
(***************************************************************************)
HasTemplate(i) == Exists(i) /\ revised[pods[i].revision] = revised[set.updateRevision]

DriftFairness ==
  /\ \A i \in Ordinals :
       /\ WF_driftVars(PodIsCreated(i)) /\ WF_driftVars(PodIsScaledDown(i))
       /\ WF_driftVars(PodTerminates(i)) /\ WF_driftVars(HasTemplate(i) /\ PodBecomesReady(i))
       /\ WF_driftVars(pods[i].state = "starting" /\ (PodBecomesReady(i) \/ PodCrashes(i)))
       /\ WF_driftVars(ManagerHasUpdatedPod(i)) /\ WF_driftVars(DeleteDriftedPod(i))
  /\ WF_driftVars(Reconcile) /\ WF_driftVars(DeleteDriftedPods)
-----------------------------------------------------------------------------
(***************************************************************************)
(* As long as nobody scales the StatefulSet, the updater keeps at most one *)
(* of its replicas out of service in a change of the template, whatever    *)
(* pods fail on their own and however late its view is: it never takes a   *)
(* second ready pod before the first one is back                           *)
(* (drifted_pod_updater.go 172-247).  It is the template's second change   *)
(* that makes a difference: if it comes while a pod is being deleted, that *)
(* pod still counts as ready (pod_helper.go 21), and the last of the pods  *)
(* that have drifted is another one now.                                   *)
(***************************************************************************)
UpdaterTakesOne == scales = 0 /\ set.updateRevision <= 2 => Cardinality(taken) <= 1

(***************************************************************************)
(* When the template and the pods are left alone, in the end no pod is     *)
(* drifted and every replica is ready: pods that can never be scheduled or *)
(* start do not block the update (drifted_pod_updater.go 213-260).         *)
(***************************************************************************)
DriftedPodsGo == <>[](\A i \in Ordinals : i < set.replicas => HasTemplate(i) /\ InService(i))

=============================================================================
