------------------------- MODULE ModelActivatorProofs -------------------------
(***************************************************************************)
(* The runtime manager with the activator and the updater, for any models, *)
(* calls and configurations: a step of either is a request, a change of    *)
(* its own state, or a StatefulSet that is applied, so that the invariant  *)
(* of the manager carries over to the whole.                               *)
(***************************************************************************)
EXTENDS ModelActivator, RuntimeManagerProofs

(***************************************************************************)
(* The inductive invariant: that of the manager, and that the updater      *)
(* applies what it has read.                                               *)
(***************************************************************************)
UpdaterHasRead == \A m \in Models : upd[m] = "read" => updConfig[m] \in Configs

IInv == ManagerInv /\ TypeOK /\ UpdaterHasRead

LEMMA InitIInv == Init => IInv
<1> SUFFICES ASSUME Init PROVE IInv
  OBVIOUS
<1> USE RuntimeAssumption
<1>1. RuntimeInit
  BY DEF Init
<1>2. RuntimeTypeOK
  BY <1>1 DEF RuntimeInit, RuntimeTypeOK, NoSts
<1>3. \A m \in Names : ~Known(m)
  BY <1>1 DEF RuntimeInit, Known
<1>4. /\ KindsAreKept /\ ReadyIsServed /\ ClusterIsFollowed /\ DeletionIsHeard /\ PullGoesOn
      /\ RuntimeIsAutoscaled
  BY <1>1, <1>3 DEF KindsAreKept, ReadyIsServed, ClusterIsFollowed, DeletionIsHeard, PullGoesOn,
                    RuntimeIsAutoscaled, Names, RuntimeInit
<1>5. PullsAreOfPods /\ WaiterIsKnown
  BY <1>1 DEF RuntimeInit, PullsAreOfPods, WaiterIsKnown
<1>6. TypeOK /\ UpdaterHasRead
  BY <1>2 DEF Init, TypeOK, Activations, UpdaterHasRead
<1> QED
  BY <1>2, <1>4, <1>5, <1>6 DEF IInv, ManagerInv

\* The state of the clients alone.
ClientsTypeOK ==
  /\ activation \in [Names -> Activations]
  /\ act \in [Names -> {"idle", "pull", "pulling", "update", "updating", "delete", "deleting"}]
  /\ upd \in [Models -> {"done", "listed", "read"}]
  /\ updConfig \in [Models -> Configs \cup {NoConfig}]
  /\ UpdaterHasRead

LEMMA IInvParts == /\ IInv <=> ManagerInv /\ ClientsTypeOK
                   /\ IInv' <=> ManagerInv' /\ ClientsTypeOK'
BY DEF IInv, TypeOK, ClientsTypeOK, ManagerInv

LEMMA ActivatorKeepsIInv ==
  ASSUME IInv, Activator
  PROVE  IInv'
<1>1. ManagerInv /\ ClientsTypeOK
  BY IInvParts
<1>2. UNCHANGED <<upd, updConfig>>
  BY DEF Activator, ReconcileModelActivation, ActivatorSends, ActivatorGoesOn, ActivationChanges
<1>3. CASE ReconcileModelActivation
  <2>1. \A m \in Names : ActivationStep(m) \in {"idle", "pull", "delete"}
    BY DEF ActivationStep
  <2>2. ClientsTypeOK'
    BY <1>1, <1>2, <1>3, <2>1 DEF ReconcileModelActivation, ClientsTypeOK, UpdaterHasRead
  <2> QED
    BY <1>1, <1>3, <2>2, IInvParts, StutterKeepsManagerInv DEF ReconcileModelActivation
<1>4. ASSUME NEW m \in Names, ActivatorSends(m)
      PROVE  IInv'
  <2>1. PICK e \in {PullEvent(m, NoCall), UpdateEvent(m), DeleteEvent(m)} :
          /\ Request(e) /\ UNCHANGED activation
          /\ \E s \in {"pulling", "updating", "deleting"} : act' = [act EXCEPT ![m] = s]
    BY <1>4 DEF ActivatorSends
  <2>2. e \in Event /\ e.type # "pullStatus"
    <3>1. PullEvent(m, NoCall) \in Event /\ UpdateEvent(m) \in Event /\ DeleteEvent(m) \in Event
      BY NewEvents
    <3>2. /\ PullEvent(m, NoCall).type = "pull" /\ UpdateEvent(m).type = "update"
          /\ DeleteEvent(m).type = "delete"
      BY DEF PullEvent, UpdateEvent, DeleteEvent
    <3> QED
      BY <3>1, <3>2
  <2>3. ManagerInv'
    <3> DEFINE sent == {e}
    <3>1. sent \in SUBSET Event /\ \A x \in sent : x.type # "pullStatus"
      BY <2>2
    <3>2. events' = events \cup sent /\ UNCHANGED <<runtimes, inProgress, loop, scalers, calls, clusterVars>>
      BY <2>1 DEF Request
    <3> HIDE DEF sent
    <3> QED
      BY <1>1, <3>1, <3>2, SendingKeepsManagerInv
  <2>4. ClientsTypeOK'
    BY <1>1, <1>2, <2>1 DEF ClientsTypeOK, UpdaterHasRead
  <2> QED
    BY <2>3, <2>4, IInvParts
<1>5. ASSUME NEW m \in Names, ActivatorGoesOn(m)
      PROVE  IInv'
  <2>1. ClientsTypeOK'
    BY <1>1, <1>2, <1>5 DEF ActivatorGoesOn, ClientsTypeOK, UpdaterHasRead
  <2> QED
    BY <1>1, <1>5, <2>1, IInvParts, StutterKeepsManagerInv DEF ActivatorGoesOn
<1>6. ASSUME NEW m \in Names, ActivationChanges(m)
      PROVE  IInv'
  <2>1. ClientsTypeOK'
    BY <1>1, <1>2, <1>6 DEF ActivationChanges, ClientsTypeOK, UpdaterHasRead, Activations
  <2> QED
    BY <1>1, <1>6, <2>1, IInvParts, StutterKeepsManagerInv DEF ActivationChanges
<1> QED
  BY <1>3, <1>4, <1>5, <1>6 DEF Activator

LEMMA UpdaterKeepsIInv ==
  ASSUME IInv, Updater
  PROVE  IInv'
<1>1. ManagerInv /\ ClientsTypeOK /\ RuntimeTypeOK
  BY IInvParts DEF ManagerInv
<1>2. ASSUME NEW m \in Models, UpdaterReads(m)
      PROVE  IInv'
  <2>1. config[m] \in Configs
    BY <1>1, Typed
  <2>2. ClientsTypeOK'
    BY <1>1, <1>2, <2>1 DEF UpdaterReads, ClientsTypeOK, UpdaterHasRead
  <2> QED
    BY <1>1, <1>2, <2>2, IInvParts, StutterKeepsManagerInv DEF UpdaterReads
<1>3. ASSUME NEW m \in Models, UpdaterDeploys(m)
      PROVE  IInv'
  <2> DEFINE s == [phase |-> IF sts[m].phase = "none" THEN "pending" ELSE sts[m].phase,
                   mci |-> updConfig[m]]
  <2>1. /\ sts' = [sts EXCEPT ![m] = s] /\ events' = events \cup {ReconcileEvent(m)}
        /\ UNCHANGED <<runtimes, inProgress, loop, scalers, calls>>
        /\ UNCHANGED <<ip, up, loaded, config, disturbances, activation, act>>
    BY <1>3 DEF UpdaterDeploys, podVars
  <2>2. s \in [phase : {"none", "zero", "pending", "unschedulable", "ready"},
               mci : Configs \cup {NoConfig}] /\ s.phase # "none"
    BY <1>1, <1>3, Typed DEF ClientsTypeOK
  <2> HIDE DEF s
  <2>3. RuntimeTypeOK'
    <3>1. sts' \in [Models -> [phase : {"none", "zero", "pending", "unschedulable", "ready"},
                               mci : Configs \cup {NoConfig}]]
      BY <1>1, <2>1, <2>2, Typed
    <3>2. events' \subseteq Event
      BY <1>1, <2>1, NewEvents DEF RuntimeTypeOK
    <3> QED
      BY <1>1, <2>1, <3>1, <3>2 DEF RuntimeTypeOK
  <2>4. ManagerInv'
    BY <1>1, <2>1, <2>2, <2>3, ApplyingKeepsManagerInv
  <2>5. ClientsTypeOK'
    BY <1>1, <1>3 DEF UpdaterDeploys, ClientsTypeOK, UpdaterHasRead
  <2> QED
    BY <2>4, <2>5, IInvParts
<1> QED
  BY <1>2, <1>3 DEF Updater

LEMMA NextIInv == IInv /\ [Next]_vars => IInv'
<1> SUFFICES ASSUME IInv, [Next]_vars PROVE IInv'
  OBVIOUS
<1>1. ManagerInv /\ ClientsTypeOK
  BY IInvParts
<1>2. ASSUME UNCHANGED activatorVars
      PROVE  ClientsTypeOK'
  BY <1>1, <1>2 DEF activatorVars, ClientsTypeOK, UpdaterHasRead
<1>3. ASSUME NEW e \in events, Handles(e)
      PROVE  IInv'
  BY <1>1, <1>2, <1>3, IInvParts, HandlersKeepManagerInv DEF Handles
<1>4. CASE Environment
  BY <1>1, <1>2, <1>4, IInvParts, OthersKeepManagerInv DEF Environment
<1>5. CASE Restart
  <2>1. ManagerInv'
    BY <1>1, <1>5, OthersKeepManagerInv DEF Restart
  <2>2. ClientsTypeOK'
    BY <1>1, <1>5 DEF Restart, ClientsTypeOK, UpdaterHasRead
  <2> QED
    BY <2>1, <2>2, IInvParts
<1>6. CASE UNCHANGED vars
  BY <1>1, <1>2, <1>6, IInvParts, StutterKeepsManagerInv DEF vars
<1> QED
  BY <1>3, <1>4, <1>5, <1>6, ActivatorKeepsIInv, UpdaterKeepsIInv DEF Next

LEMMA IInvHolds == Spec => []IInv
BY InitIInv, NextIInv, PTL DEF Spec
-----------------------------------------------------------------------------
\* Types: the state of the manager, of the cluster and of its clients.
THEOREM ActivatorTypeCorrect == Spec => []TypeOK
<1>1. IInv => TypeOK
  BY DEF IInv
<1> QED
  BY <1>1, IInvHolds, PTL

(***************************************************************************)
(* Nobody is forgotten: a caller of PullModel that has no answer has its   *)
(* event under way, or is among the waiters of a runtime that is not ready *)
(* (manager.go 301-432), whatever the order in which the events of all     *)
(* models are processed, StatefulSets change and callers leave.            *)
(***************************************************************************)
THEOREM CallersAreKnown == Spec => []WaiterIsKnown
<1>1. IInv => WaiterIsKnown
  BY DEF IInv, ManagerInv
<1> QED
  BY <1>1, IInvHolds, PTL

(***************************************************************************)
(* The autoscaler scales exactly the StatefulSets that have a runtime      *)
(* (manager.go 577-670), also when the deletion of a runtime gets stuck.   *)
(***************************************************************************)
THEOREM ScalersAreRuntimes == Spec => []RuntimeIsAutoscaled
<1>1. IInv => RuntimeIsAutoscaled
  BY DEF IInv, ManagerInv
<1> QED
  BY <1>1, IInvHolds, PTL

(***************************************************************************)
(* A runtime that is not ready although its StatefulSet is, or is there    *)
(* although its StatefulSet is gone, has an event under way (manager.go    *)
(* 577-763), although the updater applies StatefulSets beside the loop.    *)
(***************************************************************************)
THEOREM ChangesAreHeard == Spec => []ClusterIsFollowed
<1>1. IInv => ClusterIsFollowed
  BY DEF IInv, ManagerInv
<1> QED
  BY <1>1, IInvHolds, PTL

=============================================================================
