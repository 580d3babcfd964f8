------------------------------ MODULE RuntimePod ------------------------------
(***************************************************************************)
(* What the runtime clients of the engine deploy for a model, and how its  *)
(* pods start: the pod template and the volume that deployRuntime builds   *)
(* (engine/internal/runtime/client.go) from the parameters of the vLLM,    *)
(* SGLang, Triton and Ollama clients, and the pull command of the puller   *)
(* (engine/cmd/pull.go), which runs as an init container, or as a sidecar  *)
(* in daemon mode.                                                         *)
(*                                                                         *)
(* The model is a base model, or a fine-tuned one of a base model.  The    *)
(* stateful set is as Kubernetes runs it: pods are created in order, each  *)
(* when the ones before it are ready, and init containers run one by one.  *)
(* The command line of a runtime is abstracted to the models it names, a   *)
(* volume to the models that have been pulled to it (completed.txt) and    *)
(* that "ollama create" has made of them.                                  *)
(***************************************************************************)
EXTENDS Naturals, Sequences, Functions

CONSTANTS NumPods,          \* bound: replicas
          MaxSetChanges     \* bound: scalings, deletions, redeployments, configurations

ASSUME RuntimePodAssumption == NumPods \in Nat \ {0} /\ MaxSetChanges \in Nat

VARIABLES
  deployment,      \* what is deployed, or NothingDeployed
  template,        \* the volume of its pod template
  wanted,          \* its replicas
  podAt,           \* by ordinal: the container that the pod has come to
  podVolume,       \* by ordinal: the kind of the volume that the pod has
  ownFiles,        \* by ordinal: what its own volume has
  sharedFiles,     \* what the claim that the replicas share has
  setChanges,      \* bound
  moved            \* history: the claim is new to a set whose first pod had an empty dir

podVars == <<deployment, template, wanted, podAt, podVolume, ownFiles, sharedFiles, setChanges,
             moved>>

Indexes == 0..(NumPods - 1)
Volumes == {"emptyDir", "perPod", "shared"}   \* no volume configured; volume claim templates; a claim
Content == [kind : {"pulled", "created"}, model : {"base", "tuned"}]
Stages == {"none", "puller", "init", "runtime", "ready"}

\* What the clients deploy.  SGLang and Triton serve base models only, and an
\* adapter is no deployment of its own when vLLM loads adapters dynamically.
\* Without a model, Ollama loads models dynamically.
Deployments ==
  {d \in [runtime : {"vllm", "sglang", "triton", "ollama"}, model : {"base", "tuned", "none"},
          adapter : BOOLEAN, dynamic : BOOLEAN] :
     /\ d.adapter => d.model = "tuned"
     /\ d.runtime \in {"sglang", "triton"} => d.model = "base" /\ ~d.dynamic
     /\ d.runtime = "vllm" => d.model # "none" /\ ~(d.adapter /\ d.dynamic)
     /\ d.runtime = "ollama" => (d.dynamic <=> d.model = "none")}

PodTypeOK ==
  /\ deployment \in Deployments /\ template \in Volumes /\ wanted \in 0..NumPods
  /\ podAt \in [Indexes -> Stages] /\ podVolume \in [Indexes -> Volumes]
  /\ ownFiles \in [Indexes -> SUBSET Content] /\ sharedFiles \subseteq Content
  /\ setChanges \in 0..MaxSetChanges /\ moved \in BOOLEAN

PodInit ==
  /\ deployment \in Deployments /\ template \in Volumes /\ wanted \in 1..NumPods
  /\ podAt = [i \in Indexes |-> "none"] /\ podVolume = [i \in Indexes |-> template]
  /\ ownFiles = [i \in Indexes |-> {}] /\ sharedFiles = {} /\ setChanges = 0
  /\ moved = FALSE
-----------------------------------------------------------------------------
Pulled(m) == [kind |-> "pulled", model |-> m]
Created(m) == [kind |-> "created", model |-> m]
ModelAndBase == IF deployment.model = "tuned" THEN <<"base", "tuned">>
                ELSE IF deployment.model = "base" THEN <<"base">> ELSE <<>>

\* A bug: only pods without a configured volume pull on their own.
ForcePullIfEmpty(volume) == volume = "emptyDir"

\* The flag that deployRuntime gives the puller: replicas that do not share
\* their volume pull on their own.
ForcePull(volume) == volume # "shared"

Daemon == deployment.dynamic
Pulls(i) == i = 0 \/ ForcePull(podVolume[i])   \* pull.go: any other index is skipped

FilesIn(i) == IF podVolume[i] = "shared" THEN sharedFiles ELSE ownFiles[i]
Write(i, c) ==
  IF podVolume[i] = "shared" THEN sharedFiles' = sharedFiles \cup {c} /\ UNCHANGED ownFiles
  ELSE ownFiles' = [ownFiles EXCEPT ![i] = @ \cup {c}] /\ UNCHANGED sharedFiles

\* What the container of the runtime names on its command line.
Named ==
  LET d == deployment IN
  IF d.model = "none" THEN {}
  ELSE IF d.runtime = "ollama" THEN {Created(m) : m \in Range(ModelAndBase)}
  ELSE IF d.adapter THEN {Pulled(m) : m \in Range(ModelAndBase)}
  ELSE {Pulled(d.model)}
-----------------------------------------------------------------------------
(***************************************************************************)
(* The containers of a pod.                                                *)
(***************************************************************************)
Enter(i, container) == podAt' = [podAt EXCEPT ![i] = container]
Running(i) == podAt[i] # "none"

\* The puller pulls the base model, then the model, each unless it is there;
\* the daemon goes on when other containers have started.
PullerPulls(i) ==
  /\ IF Daemon THEN Running(i) ELSE podAt[i] = "puller"
  /\ Pulls(i)
  /\ \E k \in DOMAIN ModelAndBase :
       /\ \A j \in 1..(k - 1) : Pulled(ModelAndBase[j]) \in FilesIn(i)
       /\ Pulled(ModelAndBase[k]) \notin FilesIn(i)
       /\ Write(i, Pulled(ModelAndBase[k]))
  /\ UNCHANGED <<deployment, template, wanted, podAt, podVolume, setChanges, moved>>

\* The init container after the puller starts when it has succeeded; a
\* sidecar only has to be started.
PullerDone(i) ==
  /\ podAt[i] = "puller"
  /\ Daemon \/ ~Pulls(i) \/ \A m \in Range(ModelAndBase) : Pulled(m) \in FilesIn(i)
  /\ Enter(i, "init")
  /\ UNCHANGED <<deployment, template, wanted, podVolume, ownFiles, sharedFiles, setChanges, moved>>

\* ollama-init: "ollama create" of each model that has a modelfile.
OllamaCreates(i) ==
  /\ podAt[i] = "init" /\ deployment.runtime = "ollama" /\ ~deployment.dynamic
  /\ \E m \in Range(ModelAndBase) :
       Pulled(m) \in FilesIn(i) /\ Created(m) \notin FilesIn(i) /\ Write(i, Created(m))
  /\ UNCHANGED <<deployment, template, wanted, podAt, podVolume, setChanges, moved>>

\* The second init container, where there is one: pull-waiter of vLLM's
\* dynamic adapter loading, and ollama-init.
InitContainerEnds(d, content) ==
  CASE d.runtime = "vllm" /\ d.dynamic -> Pulled(d.model) \in content
    [] d.runtime = "ollama" /\ ~d.dynamic ->
         \A m \in Range(ModelAndBase) : Pulled(m) \in content => Created(m) \in content
    [] OTHER -> TRUE

RuntimeStarts(i) ==
  /\ podAt[i] = "init" /\ InitContainerEnds(deployment, FilesIn(i)) /\ Enter(i, "runtime")
  /\ UNCHANGED <<deployment, template, wanted, podVolume, ownFiles, sharedFiles, setChanges, moved>>

\* A runtime without its model ends with an error and is started again.
PodGetsReady(i) ==
  /\ podAt[i] = "runtime" /\ Named \subseteq FilesIn(i) /\ Enter(i, "ready")
  /\ moved' = (moved /\ ~(i = 0 /\ podVolume[0] = "shared"))
  /\ UNCHANGED <<deployment, template, wanted, podVolume, ownFiles, sharedFiles, setChanges>>
-----------------------------------------------------------------------------
(***************************************************************************)
(* The stateful set.                                                       *)
(***************************************************************************)
SetChange == setChanges < MaxSetChanges /\ setChanges' = setChanges + 1

PodAppears(i) ==
  /\ i < wanted /\ podAt[i] = "none" /\ \A j \in 0..(i - 1) : podAt[j] = "ready"
  /\ Enter(i, "puller") /\ podVolume' = [podVolume EXCEPT ![i] = template]
  /\ UNCHANGED <<deployment, template, wanted, ownFiles, sharedFiles, setChanges, moved>>

\* An empty dir goes with its pod; a claim stays.
Gone(S) ==
  /\ podAt' = [i \in Indexes |-> IF i \in S THEN "none" ELSE podAt[i]]
  /\ ownFiles' = [i \in Indexes |-> IF i \in S /\ podVolume[i] = "emptyDir" THEN {} ELSE ownFiles[i]]

\* By the drifted pod updater, by a node that fails, or to be moved.
PodIsDeleted(i) ==
  /\ Running(i) /\ SetChange /\ Gone({i})
  /\ UNCHANGED <<deployment, template, wanted, podVolume, sharedFiles, moved>>

SetIsScaled(n) ==
  /\ n # wanted /\ SetChange /\ wanted' = n /\ Gone({i \in Indexes : i >= n})
  /\ UNCHANGED <<deployment, template, podVolume, sharedFiles, moved>>

\* DeleteRuntime, and the model is pulled again: the shared claim is owned by
\* the stateful set, the claims of its pods are not.
SetIsReplaced ==
  /\ SetChange /\ Gone(Indexes) /\ sharedFiles' = {} /\ moved' = FALSE
  /\ UNCHANGED <<deployment, template, wanted, podVolume>>

\* The updater applies another configuration: the template changes at once,
\* a pod with its next creation.  Claim templates cannot be changed.
VolumeIsReconfigured ==
  /\ template # "perPod" /\ SetChange
  /\ template' \in {"emptyDir", "shared"} \ {template}
  /\ moved' = (moved \/ template' = "shared")
  /\ UNCHANGED <<deployment, wanted, podAt, podVolume, ownFiles, sharedFiles>>

PodNext ==
  \/ \E i \in Indexes :
       \/ PullerPulls(i) \/ PullerDone(i) \/ OllamaCreates(i) \/ RuntimeStarts(i)
       \/ PodGetsReady(i) \/ PodAppears(i) \/ PodIsDeleted(i)
  \/ \E n \in 0..NumPods : SetIsScaled(n)
  \/ SetIsReplaced \/ VolumeIsReconfigured

PodSpec == PodInit /\ [][PodNext]_podVars
-----------------------------------------------------------------------------
(***************************************************************************)
(* A runtime is started with every model it names on its volume, whatever  *)
(* the kind of the volume and whichever pods were deleted, scaled or       *)
(* started again before.  Three pieces of code keep this together: the     *)
(* flag that makes a replica pull on its own (client.go 189-231), the      *)
(* index that decides otherwise (pull.go 34-37), and the container that    *)
(* waits for the daemon (vllm_client.go 225-240).  The exception is a set  *)
(* that is moved to a shared volume: until its first pod is created again  *)
(* and is ready, the others skip the pull though nobody has pulled to the  *)
(* claim.                                                                  *)
(***************************************************************************)
RuntimeHasItsModel ==
  \A i \in Indexes :
    podAt[i] \in {"runtime", "ready"} =>
      \/ Named \subseteq FilesIn(i)
      \/ moved /\ i > 0 /\ podVolume[i] = "shared"

===============================================================================
