------------------------------ MODULE LoRAProofs ------------------------------
(***************************************************************************)
(* The runtime manager with dynamic LoRA loading, for any adapters, pods   *)
(* and calls: the reconciler and the rebalancer tell the manager what they *)
(* have seen of the pods, however late, in events that keep its invariant. *)
(***************************************************************************)
EXTENDS LoRA, RuntimeManagerProofs

IInv == ManagerInv /\ TypeOK

\* The state of the reconciler and of the rebalancer alone.
LoopsTypeOK ==
  /\ recPods \in [Pods -> PodStatus]
  /\ recScan \in {NoScan} \cup {{s} : s \in [Pods -> PodStatus]}
  /\ recTodo \subseteq Update
  /\ podEvents \subseteq Pods
  /\ balPods \in [Pods -> Addr]
  /\ balTodo \subseteq [model : Adapters, addr : Addr]
  /\ requests \in 0..MaxRequests

LEMMA IInvParts == /\ IInv <=> ManagerInv /\ LoopsTypeOK
                   /\ IInv' <=> ManagerInv' /\ LoopsTypeOK'
BY DEF IInv, TypeOK, LoopsTypeOK, ManagerInv

LEMMA LoRATypes ==
  /\ NoAddr \in Addr /\ Unknown \in PodStatus
  /\ \A a \in Addr : [addr |-> a, adapters |-> NoStatus] \in PodStatus
  /\ \A s \in PodStatus : /\ s.addr \in Addr /\ s.adapters \in (SUBSET Adapters) \cup {NoStatus}
                          /\ Adapters0(s) \subseteq Adapters
<1>1. NoAddr \in Addr
  BY RuntimeAssumption DEF NoAddr, Service, Addr
<1>2. /\ Unknown \in PodStatus
      /\ \A a \in Addr : [addr |-> a, adapters |-> NoStatus] \in PodStatus
  BY <1>1 DEF Unknown, PodStatus
<1>3. ASSUME NEW s \in PodStatus
      PROVE  /\ s.addr \in Addr /\ s.adapters \in (SUBSET Adapters) \cup {NoStatus}
             /\ Adapters0(s) \subseteq Adapters
  <2>1. s.addr \in Addr /\ s.adapters \in (SUBSET Adapters) \cup {NoStatus}
    BY DEF PodStatus
  <2> QED
    BY <2>1 DEF Adapters0
<1> QED
  BY <1>1, <1>2, <1>3

LEMMA PodAddrType ==
  ASSUME RuntimeTypeOK, NEW p \in Pods
  PROVE  PodAddr(p) \in Addr
BY DEF RuntimeTypeOK, PodAddr, Addr

LEMMA InitIInv == Init => IInv
<1> SUFFICES ASSUME Init PROVE IInv
  OBVIOUS
<1> USE RuntimeAssumption
<1>1. /\ runtimes = [m \in Names |-> NoRuntime] /\ inProgress = {} /\ loop = "run" /\ scalers = {}
      /\ calls = [c \in Calls |-> "idle"] /\ config \in [Models -> Configs]
      /\ sts = [m \in Models |-> [phase |-> "ready", mci |-> config[m]]]
      /\ events = {ReconcileEvent(m) : m \in Models} /\ disturbances = 0
      /\ ip = [p \in Pods |-> 1] /\ up = Pods /\ loaded = [p \in Pods |-> {}]
  BY DEF Init
<1>2. RuntimeTypeOK
  <2>1. events \subseteq Event
    BY <1>1, NewEvents
  <2>2. ip \in [Pods -> 0..MaxIPs]
    BY <1>1, LoRAAssumption
  <2>3. sts \in [Models -> [phase : {"none", "zero", "pending", "unschedulable", "ready"},
                            mci : Configs \cup {NoConfig}]]
    BY <1>1
  <2> QED
    BY <1>1, <2>1, <2>2, <2>3 DEF RuntimeTypeOK
<1>3. \A m \in Names : ~Known(m)
  BY <1>1 DEF Known
<1>4. /\ KindsAreKept /\ ReadyIsServed /\ ClusterIsFollowed /\ DeletionIsHeard /\ PullGoesOn
      /\ RuntimeIsAutoscaled
  BY <1>1, <1>3 DEF KindsAreKept, ReadyIsServed, ClusterIsFollowed, DeletionIsHeard, PullGoesOn,
                    RuntimeIsAutoscaled, Names
<1>5. PullsAreOfPods /\ WaiterIsKnown
  BY <1>1 DEF PullsAreOfPods, WaiterIsKnown, ReconcileEvent
<1>6. LoopsTypeOK
  BY <1>2, LoRATypes, PodAddrType, LoRAAssumption DEF Init, LoopsTypeOK
<1> QED
  BY <1>2, <1>4, <1>5, <1>6, IInvParts DEF ManagerInv

\* One event of a loop.
LEMMA SendsOne ==
  ASSUME ManagerInv, NEW e \in Event, e.type # "pullStatus", events' = events \cup {e},
         UNCHANGED <<runtimes, inProgress, loop, scalers, calls, clusterVars>>
  PROVE  ManagerInv'
<1> DEFINE sent == {e}
<1>1. sent \in SUBSET Event /\ (\A x \in sent : x.type # "pullStatus") /\ events' = events \cup sent
  OBVIOUS
<1> HIDE DEF sent
<1> QED
  BY <1>1, SendingKeepsManagerInv

LEMMA ReconcilerKeepsIInv ==
  ASSUME IInv, Reconciler
  PROVE  IInv'
<1>1. ManagerInv /\ LoopsTypeOK /\ RuntimeTypeOK
  BY IInvParts DEF ManagerInv
<1>2. CASE RecScans
  <2>1. \A p \in Pods : Listed(recPods[p]) \in PodStatus
    <3> SUFFICES ASSUME NEW p \in Pods PROVE Listed(recPods[p]) \in PodStatus
      OBVIOUS
    <3>1. recPods[p] \in PodStatus /\ up \subseteq Pods /\ loaded \in [Pods -> SUBSET Adapters]
      BY <1>1 DEF LoopsTypeOK, RuntimeTypeOK
    <3>2. Lives(recPods[p].addr) => loaded[recPods[p].addr.pod] \subseteq Adapters
      BY <3>1 DEF Lives
    <3> QED
      BY <3>1, <3>2, LoRATypes DEF Listed, PodStatus
  <2>2. LoopsTypeOK'
    BY <1>1, <1>2, <2>1 DEF RecScans, LoopsTypeOK
  <2> QED
    BY <1>1, <1>2, <2>2, IInvParts, StutterKeepsManagerInv DEF RecScans
<1>3. CASE RecApplies
  <2>1. PICK new \in recScan :
          /\ recTodo' = {UpdateFor(recPods[p], new[p]) :
                           p \in {q \in Pods : recPods[q] # Unknown /\ HasUpdate(recPods[q], new[q])}}
          /\ recPods' = new /\ recScan' = NoScan
          /\ UNCHANGED <<rmVars, podEvents, balPods, balTodo, requests>>
    BY <1>3 DEF RecApplies
  <2>2. new \in [Pods -> PodStatus]
    BY <1>1, <2>1 DEF LoopsTypeOK, NoScan
  <2>3. \A s, t \in PodStatus : UpdateFor(s, t) \in Update
    BY LoRATypes DEF UpdateFor, Update
  <2>4. recTodo' \subseteq Update
    <3> SUFFICES ASSUME NEW p \in Pods PROVE UpdateFor(recPods[p], new[p]) \in Update
      BY <2>1
    <3>1. recPods[p] \in PodStatus /\ new[p] \in PodStatus
      BY <1>1, <2>2 DEF LoopsTypeOK
    <3> QED
      BY <2>3, <3>1
  <2>5. LoopsTypeOK'
    BY <1>1, <2>1, <2>2, <2>4 DEF LoopsTypeOK
  <2> QED
    BY <1>1, <2>1, <2>5, IInvParts, StutterKeepsManagerInv
<1>4. CASE RecSends
  <2>1. PICK u \in recTodo :
          /\ recTodo' = recTodo \ {u}
          /\ events' = events \cup {StatusUpdateEvent(u.addr, u.added, u.removed, "reconciler")}
          /\ UNCHANGED <<runtimes, inProgress, loop, scalers, calls, clusterVars, recPods, recScan,
                         podEvents, balPods, balTodo, requests>>
    BY <1>4 DEF RecSends
  <2>2. u.addr \in Addr /\ u.added \in SUBSET Adapters /\ u.removed \in SUBSET Adapters
    BY <1>1, <2>1 DEF LoopsTypeOK, Update
  <2>3. StatusUpdateEvent(u.addr, u.added, u.removed, "reconciler") \in Event
    <3>1. "reconciler" \in Waiters
      BY DEF Waiters
    <3> QED
      BY <2>2, <3>1, NewEvents
  <2>4. StatusUpdateEvent(u.addr, u.added, u.removed, "reconciler").type # "pullStatus"
    BY DEF StatusUpdateEvent
  <2>5. ManagerInv'
    BY <1>1, <2>1, <2>3, <2>4, SendsOne
  <2>6. LoopsTypeOK'
    BY <1>1, <2>1 DEF LoopsTypeOK
  <2> QED
    BY <2>5, <2>6, IInvParts
<1>5. ASSUME NEW p \in Pods, PodReconciled(p)
      PROVE  IInv'
  <2> DEFINE gone == IF recPods[p].adapters = NoStatus THEN {} ELSE recPods[p].adapters
             e == StatusUpdateEvent(recPods[p].addr, {}, gone, "none")
  <2>1. /\ podEvents' = podEvents \ {p}
        /\ recPods' \in {recPods, [recPods EXCEPT ![p] = Unknown],
                         [recPods EXCEPT ![p] = [addr |-> PodAddr(p), adapters |-> NoStatus]]}
        /\ balPods' \in {[balPods EXCEPT ![p] = PodAddr(p)], [balPods EXCEPT ![p] = NoAddr]}
        /\ UNCHANGED events \/ events' = events \cup {e}
        /\ UNCHANGED <<runtimes, inProgress, loop, scalers, calls, clusterVars, recScan, recTodo,
                       balTodo, requests>>
    BY <1>5 DEF PodReconciled
  <2>2. recPods[p] \in PodStatus
    BY <1>1 DEF LoopsTypeOK
  <2>3. e \in Event /\ e.type # "pullStatus"
    <3>1. recPods[p].addr \in Addr /\ gone \in SUBSET Adapters /\ {} \in SUBSET Adapters
      BY <2>2, LoRATypes DEF Adapters0
    <3>2. "none" \in Waiters
      BY DEF Waiters
    <3>3. e.type = "statusUpdate"
      BY DEF StatusUpdateEvent
    <3> HIDE DEF gone
    <3>4. e \in Event
      BY <3>1, <3>2, NewEvents
    <3> QED
      BY <3>3, <3>4
  <2> HIDE DEF e
  <2>4. ManagerInv'
    BY <1>1, <2>1, <2>3, SendsOne, StutterKeepsManagerInv DEF rmVars, managerVars
  <2>5. LoopsTypeOK'
    BY <1>1, <2>1, LoRATypes, PodAddrType DEF LoopsTypeOK
  <2> QED
    BY <2>4, <2>5, IInvParts
<1> QED
  BY <1>2, <1>3, <1>4, <1>5 DEF Reconciler

LEMMA RebalancerKeepsIInv ==
  ASSUME IInv, Rebalancer
  PROVE  IInv'
<1>1. ManagerInv /\ LoopsTypeOK
  BY IInvParts
<1>2. CASE BalScans
  <2>1. BalStatuses \subseteq Addr
    BY <1>1 DEF BalStatuses, LoopsTypeOK
  <2>2. Missing \subseteq [model : Adapters, addr : Addr]
    BY <2>1 DEF Missing
  <2>3. LoopsTypeOK'
    BY <1>1, <1>2, <2>2 DEF BalScans, LoopsTypeOK
  <2> QED
    BY <1>1, <1>2, <2>3, IInvParts, StutterKeepsManagerInv DEF BalScans
<1>3. CASE BalLoads
  <2>1. PICK l \in balTodo :
          /\ balTodo' = balTodo \ {l}
          /\ events' = events \cup {LoadEvent(l.model, l.addr)}
          /\ UNCHANGED <<runtimes, inProgress, loop, scalers, calls, clusterVars, recPods, recScan,
                         recTodo, podEvents, balPods, requests>>
    BY <1>3 DEF BalLoads
  <2>2. LoadEvent(l.model, l.addr) \in Event
    BY <1>1, <2>1, NewEvents DEF LoopsTypeOK
  <2>3. LoadEvent(l.model, l.addr).type # "pullStatus"
    BY DEF LoadEvent
  <2>4. ManagerInv'
    BY <1>1, <2>1, <2>2, <2>3, SendsOne
  <2>5. LoopsTypeOK'
    BY <1>1, <2>1 DEF LoopsTypeOK
  <2> QED
    BY <2>4, <2>5, IInvParts
<1> QED
  BY <1>2, <1>3 DEF Rebalancer

LEMMA NextIInv == IInv /\ [Next]_vars => IInv'
<1> SUFFICES ASSUME IInv, [Next]_vars PROVE IInv'
  OBVIOUS
<1>1. ManagerInv /\ LoopsTypeOK /\ RuntimeTypeOK
  BY IInvParts DEF ManagerInv
<1>2. ASSUME UNCHANGED loraVars
      PROVE  LoopsTypeOK'
  BY <1>1, <1>2 DEF loraVars, LoopsTypeOK
<1>3. ASSUME NEW e \in events, Handles(e)
      PROVE  IInv'
  BY <1>1, <1>2, <1>3, IInvParts, HandlersKeepManagerInv DEF Handles
<1>4. CASE PodChanges
  <2>1. Cluster
    BY <1>4 DEF PodChanges, Cluster
  <2>2. LoopsTypeOK'
    BY <1>1, <1>4 DEF PodChanges, LoopsTypeOK
  <2> QED
    BY <1>1, <2>1, <2>2, IInvParts, OthersKeepManagerInv
<1>5. CASE StsChanges
  BY <1>1, <1>2, <1>5, IInvParts, OthersKeepManagerInv DEF StsChanges, Cluster
<1>6. CASE ApiCalls
  <2>1. CASE Callers /\ UNCHANGED loraVars
    BY <1>1, <1>2, <2>1, IInvParts, OthersKeepManagerInv
  <2>2. ASSUME NEW a \in Adapters, requests < MaxRequests, requests' = requests + 1,
               Request(DeleteEvent(a)),
               UNCHANGED <<recPods, recScan, recTodo, podEvents, balPods, balTodo>>
        PROVE  IInv'
    <3>1. DeleteEvent(a) \in Event
      BY NewEvents DEF Names
    <3>2. DeleteEvent(a).type # "pullStatus"
      BY DEF DeleteEvent
    <3>3. ManagerInv'
      BY <1>1, <2>2, <3>1, <3>2, SendsOne DEF Request
    <3>4. LoopsTypeOK'
      BY <1>1, <2>2, LoRAAssumption DEF LoopsTypeOK
    <3> QED
      BY <3>3, <3>4, IInvParts
  <2> QED
    BY <1>6, <2>1, <2>2 DEF ApiCalls
<1>7. CASE Restart
  <2>1. ManagerInv'
    BY <1>1, <1>7, OthersKeepManagerInv DEF Restart
  <2>2. up \subseteq Pods
    BY <1>1 DEF RuntimeTypeOK
  <2>3. LoopsTypeOK'
    BY <1>1, <1>7, <2>2, LoRATypes DEF Restart, LoopsTypeOK
  <2> QED
    BY <2>1, <2>3, IInvParts
<1>8. CASE UNCHANGED vars
  BY <1>1, <1>2, <1>8, IInvParts, StutterKeepsManagerInv DEF vars
<1> QED
  BY <1>3, <1>4, <1>5, <1>6, <1>7, <1>8, ReconcilerKeepsIInv, RebalancerKeepsIInv DEF Next

LEMMA IInvHolds == Spec => []IInv
BY InitIInv, NextIInv, PTL DEF Spec
-----------------------------------------------------------------------------
\* Types: also of what the reconciler and the rebalancer have seen of the pods.
THEOREM LoRATypeCorrect == Spec => []TypeOK
<1>1. IInv => TypeOK
  BY DEF IInv
<1> QED
  BY <1>1, IInvHolds, PTL

(***************************************************************************)
(* An adapter that is not loaded yet has a check of its pull or of its     *)
(* readiness under way, or its deletion (manager.go 413-431, 719-832),     *)
(* whatever the reconciler and the rebalancer report of its pods.          *)
(***************************************************************************)
THEOREM PullsGoOn == Spec => []AdapterIsWorkedOn
<1>1. IInv => AdapterIsWorkedOn
  BY GoesOnIsWorkedOn DEF IInv, ManagerInv
<1> QED
  BY <1>1, IInvHolds, PTL

(***************************************************************************)
(* A ready runtime has an address, and nobody waits for it (manager.go     *)
(* 193-210, 839-923), although pods go, come back and are reported late.   *)
(***************************************************************************)
THEOREM ReadyHasAddress == Spec => []ReadyIsServed
<1>1. IInv => ReadyIsServed
  BY DEF IInv, ManagerInv
<1> QED
  BY <1>1, IInvHolds, PTL

=============================================================================
