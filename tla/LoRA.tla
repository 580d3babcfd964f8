-------------------------------- MODULE LoRA --------------------------------
(***************************************************************************)
(* The runtime manager with dynamic LoRA loading: the reconciler           *)
(* (lora_reconciler.go), which asks the vLLM of each pod for its adapters  *)
(* and reports what has changed to the manager, and the rebalancer         *)
(* (lora_rebalancer.go), which has every adapter loaded in every pod.      *)
(*                                                                         *)
(* Both are told of pods by a controller, and have a loop that asks pods   *)
(* one after the other without their mutex; the answers are applied later. *)
(* A report or a load is an event of the manager: the loop that sent it    *)
(* waits until the event is closed.                                        *)
(***************************************************************************)
EXTENDS RuntimeManager

CONSTANTS NoStatus,
          MaxRequests   \* bound: the requests of other clients of the manager

\* Every pod has come up once when the engine starts.
ASSUME LoRAAssumption == MaxIPs >= 1 /\ MaxRequests \in Nat

VARIABLES
  recPods,   \* podsByName of the reconciler: pod and lstatus
  recScan,   \* what getLoRALoadingStatus has returned, until it is applied
  recTodo,   \* the updates that run has still to send
  podEvents, \* the pods that the controllers have to reconcile
  balPods,   \* podsByName of the rebalancer
  balTodo,   \* the loads that run has still to ask for
  requests

loraVars == <<recPods, recScan, recTodo, podEvents, balPods, balTodo, requests>>
vars == <<rmVars, loraVars>>

\* A pod that is not known has the address NoAddr; no scan is under way.
NoAddr == Service
PodStatus == [addr : Addr, adapters : (SUBSET Adapters) \cup {NoStatus}]
Unknown == [addr |-> NoAddr, adapters |-> NoStatus]
Update == [addr : Addr, added : SUBSET Adapters, removed : SUBSET Adapters]
NoScan == {}

TypeOK ==
  /\ RuntimeTypeOK
  /\ recPods \in [Pods -> PodStatus]
  /\ recScan \in {NoScan} \cup {{s} : s \in [Pods -> PodStatus]}
  /\ recTodo \subseteq Update
  /\ podEvents \subseteq Pods
  /\ balPods \in [Pods -> Addr]
  /\ balTodo \subseteq [model : Adapters, addr : Addr]
  /\ requests \in 0..MaxRequests

\* The engine has started in a cluster in which base models and their pods run;
\* the controllers of the pods have run, that of the StatefulSets has not.
Init ==
  /\ runtimes = [m \in Names |-> NoRuntime]
  /\ inProgress = {} /\ loop = "run" /\ scalers = {}
  /\ calls = [c \in Calls |-> "idle"]
  /\ config \in [Models -> Configs]
  /\ sts = [m \in Models |-> [phase |-> "ready", mci |-> config[m]]]
  /\ events = {ReconcileEvent(m) : m \in Models}
  /\ ip = [p \in Pods |-> 1] /\ up = Pods /\ loaded = [p \in Pods |-> {}]
  /\ disturbances = 0
  /\ recPods = [p \in Pods |-> [addr |-> PodAddr(p), adapters |-> NoStatus]]
  /\ recScan = NoScan /\ recTodo = {}
  /\ podEvents = {}
  /\ balPods = [p \in Pods |-> PodAddr(p)] /\ balTodo = {}
  /\ requests = 0

\* A loop waits while an event it has sent is under way.
Waiting(w) ==
  \E e \in events : \/ e.type \in {"readiness", "pullStatus", "statusUpdate"} /\ e.waiter = w
                    \/ e.type = "load" /\ w = "rebalancer"
-----------------------------------------------------------------------------
(***************************************************************************)
(* Reconcile of both: a pod that is gone is deleted, with its adapters; a  *)
(* pod that is ready is added.  The reconciler keeps the pod it knows by   *)
(* that name, the rebalancer takes the new one.                            *)
(***************************************************************************)
PodReconciled(p) ==
  /\ p \in podEvents
  /\ podEvents' = podEvents \ {p}
  /\ IF p \in up
       THEN /\ recPods' = IF recPods[p] # Unknown THEN recPods
                          ELSE [recPods EXCEPT ![p] = [addr |-> PodAddr(p), adapters |-> NoStatus]]
            /\ balPods' = [balPods EXCEPT ![p] = PodAddr(p)]
            /\ UNCHANGED events
       ELSE /\ recPods' = [recPods EXCEPT ![p] = Unknown]
            /\ balPods' = [balPods EXCEPT ![p] = NoAddr]
            /\ events' = IF recPods[p] = Unknown THEN events
                         ELSE events \cup
                           {StatusUpdateEvent(recPods[p].addr, {},
                              IF recPods[p].adapters = NoStatus THEN {} ELSE recPods[p].adapters,
                              "none")}
  /\ UNCHANGED <<runtimes, inProgress, loop, scalers, calls, clusterVars, recScan, recTodo,
                 balTodo, requests>>

\* The status of a pod, or nothing when its vLLM does not answer.
Listed(s) ==
  IF Lives(s.addr) THEN [s EXCEPT !.adapters = loaded[s.addr.pod]] ELSE Unknown

\* getLoRALoadingStatus: the pods that are known when it starts.
RecScans ==
  /\ recScan = NoScan /\ recTodo = {} /\ ~Waiting("reconciler")
  /\ recScan' = {[p \in Pods |-> Listed(recPods[p])]}
  /\ UNCHANGED <<rmVars, recPods, recTodo, podEvents, balPods, balTodo, requests>>

\* updateLoRALoadingStatusForPod.
Adapters0(s) == IF s.adapters = NoStatus THEN {} ELSE s.adapters

UpdateFor(old, new) ==
  [addr |-> IF new = Unknown THEN old.addr ELSE new.addr,
   added |-> Adapters0(new) \ Adapters0(old),
   removed |-> Adapters0(old) \ Adapters0(new)]

HasUpdate(old, new) ==
  IF new = Unknown THEN old.adapters # NoStatus
  ELSE old.adapters = NoStatus \/ old.adapters # new.adapters

\* updateLoRALoadingStatus: what was scanned replaces what is known.
RecApplies ==
  \E new \in recScan :
    /\ recTodo' = {UpdateFor(recPods[p], new[p]) :
                     p \in {q \in Pods : recPods[q] # Unknown /\ HasUpdate(recPods[q], new[q])}}
    /\ recPods' = new
    /\ recScan' = NoScan
    /\ UNCHANGED <<rmVars, podEvents, balPods, balTodo, requests>>

\* run: one update after the other.
RecSends ==
  \E u \in recTodo :
    /\ ~Waiting("reconciler") /\ loop = "run"
    /\ recTodo' = recTodo \ {u}
    /\ events' = events \cup {StatusUpdateEvent(u.addr, u.added, u.removed, "reconciler")}
    /\ UNCHANGED <<runtimes, inProgress, loop, scalers, calls, clusterVars, recPods, recScan,
                   podEvents, balPods, balTodo, requests>>
-----------------------------------------------------------------------------
\* LoRARebalancer.run: buildStatusMap and rebalance, per base model.
BalStatuses == {a \in {balPods[p] : p \in Pods} : a # NoAddr /\ Lives(a)}

Missing ==
  {l \in [model : Adapters, addr : BalStatuses] :
     /\ l.model \notin loaded[l.addr.pod]
     /\ \E a \in BalStatuses : Owner[a.pod] = Owner[l.addr.pod] /\ l.model \in loaded[a.pod]}

BalScans ==
  /\ balTodo = {} /\ ~Waiting("rebalancer")
  /\ balTodo' = Missing
  /\ UNCHANGED <<rmVars, recPods, recScan, recTodo, podEvents, balPods, requests>>

BalLoads ==
  \E l \in balTodo :
    /\ ~Waiting("rebalancer") /\ loop = "run"
    /\ balTodo' = balTodo \ {l}
    /\ events' = events \cup {LoadEvent(l.model, l.addr)}
    /\ UNCHANGED <<runtimes, inProgress, loop, scalers, calls, clusterVars, recPods, recScan,
                   recTodo, podEvents, balPods, requests>>
-----------------------------------------------------------------------------
\* The controllers watch the pods; those of a new process see every pod.
PodChanges ==
  \E p \in Pods :
    /\ PodStarts(p) \/ PodStops(p)
    /\ podEvents' = podEvents \cup {p}
    /\ UNCHANGED <<recPods, recScan, recTodo, balPods, balTodo, requests>>

StsChanges ==
  /\ \E m \in Models : StsProgress(m) \/ StsDisturbed(m)
  /\ UNCHANGED loraVars

\* Callers, and the activator, which deletes an adapter that is inactive.
ApiCalls ==
  \/ Callers /\ UNCHANGED loraVars
  \/ /\ requests < MaxRequests /\ requests' = requests + 1
     /\ \E a \in Adapters : Known(a) /\ Request(DeleteEvent(a))
     /\ UNCHANGED <<recPods, recScan, recTodo, podEvents, balPods, balTodo>>

\* What a restart loses does not depend on its cause.
Restart ==
  /\ HasExited /\ ManagerRestarts
  /\ recPods' = [p \in Pods |-> Unknown] /\ recScan' = NoScan /\ recTodo' = {}
  /\ podEvents' = up
  /\ balPods' = [p \in Pods |-> NoAddr] /\ balTodo' = {}
  /\ UNCHANGED requests

Handles(e) == RunStateMachine(e) /\ UNCHANGED loraVars
Reconciler == RecScans \/ RecApplies \/ RecSends \/ \E p \in Pods : PodReconciled(p)
Rebalancer == BalScans \/ BalLoads

Next ==
  \/ \E e \in events : Handles(e)
  \/ Reconciler \/ Rebalancer
  \/ PodChanges \/ StsChanges \/ ApiCalls
  \/ Restart

Spec == Init /\ [][Next]_vars
-----------------------------------------------------------------------------
(***************************************************************************)
(* What the code says of itself.                                           *)
(*                                                                         *)
(* "The following fields are only used when the runtime is ready"          *)
(* (runtime.go 159): the address set, which is nil before, is not used by  *)
(* an update about a pod that a pending runtime knows nothing of.          *)
(***************************************************************************)
AddressesAreUsedWhenReady == loop # "panicked"

=============================================================================
