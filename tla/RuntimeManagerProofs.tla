------------------------- MODULE RuntimeManagerProofs -------------------------
(***************************************************************************)
(* The handlers of the runtime manager, for any models, pods, calls and    *)
(* configurations: what each event that RunStateMachine processes does to  *)
(* the invariants.  The modules that compose the manager with its clients  *)
(* (ModelActivator, LoRA) take these lemmas for their own steps.           *)
(***************************************************************************)
EXTENDS RuntimeManager, SequenceTheorems, TLAPS

(***************************************************************************)
(* The inductive invariants.                                               *)
(*                                                                         *)
(* The runtimes of the adapters are those that are loaded into a pod; all  *)
(* others are StatefulSets.                                                *)
(***************************************************************************)
KindsAreKept == \A m \in Names : Known(m) => (runtimes[m].lora <=> m \in Adapters)

\* An adapter is pulled by a pod, not by a service.
PullsAreOfPods == \A e \in events : e.type = "pullStatus" => e.addr.pod \in Pods

\* A runtime whose StatefulSet was deleted hears of it: an event that is only
\* about the model, such as a check of its readiness, would not do.
DeletionIsHeard ==
  \A m \in Models :
    loop = "run" /\ Known(m) /\ sts[m].phase = "none" => ReconcileEvent(m) \in events

\* An adapter that is not loaded has the event of its own pull: the one that a
\* rebalancer waits for ends with an error when the pod goes.
OwnEvent(e, m) ==
  /\ e.type \in {"pullStatus", "readiness", "delete"} /\ e.model = m
  /\ e.type # "delete" => e.waiter = "none"

PullGoesOn ==
  \A m \in Adapters :
    loop = "run" /\ Known(m) /\ ~runtimes[m].ready => \E e \in events : OwnEvent(e, m)
-----------------------------------------------------------------------------
(***************************************************************************)
(* Events: each type has fields of its own.                                *)
(***************************************************************************)
LEMMA EventsByType ==
  ASSUME NEW e \in Event
  PROVE  /\ e.type = "pull" => /\ e \in PullEvents /\ e.model \in Names
                               /\ e.call \in Calls \cup {NoCall} /\ e = PullEvent(e.model, e.call)
         /\ e.type = "delete" => e.model \in Names /\ e = DeleteEvent(e.model)
         /\ e.type = "update" => e.model \in Names /\ e = UpdateEvent(e.model)
         /\ e.type = "reconcile" => e.model \in Models /\ e = ReconcileEvent(e.model)
         /\ e.type = "readiness" => /\ e.model \in Names /\ e.addr \in Addr
                                    /\ e.pod \in Pods \cup {NoPod}
                                    /\ e.retry \in 0..ReadinessCheckMaxRetryCount
                                    /\ e.waiter \in Waiters
                                    /\ e = ReadinessEvent(e.model, e.addr, e.pod, e.retry, e.waiter)
         /\ e.type = "pullStatus" => /\ e.model \in Adapters /\ e.addr \in Addr
                                     /\ e.waiter \in Waiters
                                     /\ e = PullStatusEvent(e.model, e.addr, e.waiter)
         /\ e.type = "statusUpdate" => /\ e.addr \in Addr /\ e.added \subseteq Adapters
                                       /\ e.removed \subseteq Adapters /\ e.waiter \in Waiters
         /\ e.type = "load" => e.model \in Adapters /\ e.addr \in Addr
<1> USE DEF PullEvent, DeleteEvent, UpdateEvent, ReconcileEvent, ReadinessEvent, PullStatusEvent,
            StatusUpdateEvent, LoadEvent
<1>1. CASE e \in PullEvents
  BY <1>1 DEF PullEvents
<1>2. CASE e \in {DeleteEvent(m) : m \in Names} \cup {UpdateEvent(m) : m \in Names}
                   \cup {ReconcileEvent(m) : m \in Models}
  BY <1>2
<1>3. CASE e \in {ReadinessEvent(m, a, p, n, w) : m \in Names, a \in Addr, p \in Pods \cup {NoPod},
                                          n \in 0..ReadinessCheckMaxRetryCount, w \in Waiters}
  BY <1>3
<1>4. CASE e \in {PullStatusEvent(m, a, w) : m \in Adapters, a \in Addr, w \in Waiters}
  BY <1>4
<1>5. CASE e \in {StatusUpdateEvent(a, x, y, w) : a \in Addr, x \in SUBSET Adapters,
                                          y \in SUBSET Adapters, w \in Waiters}
  BY <1>5
<1>6. CASE e \in {LoadEvent(m, a) : m \in Adapters, a \in Addr}
  BY <1>6
<1> QED
  BY <1>1, <1>2, <1>3, <1>4, <1>5, <1>6 DEF Event

LEMMA NewEvents ==
  /\ \A m \in Names, c \in Calls \cup {NoCall} :
       PullEvent(m, c) \in PullEvents /\ PullEvent(m, c) \in Event
  /\ \A m \in Names : DeleteEvent(m) \in Event /\ UpdateEvent(m) \in Event
  /\ \A m \in Models : ReconcileEvent(m) \in Event
  /\ \A m \in Names, a \in Addr, p \in Pods \cup {NoPod}, n \in 0..ReadinessCheckMaxRetryCount,
        w \in Waiters : ReadinessEvent(m, a, p, n, w) \in Event
  /\ \A m \in Adapters, a \in Addr, w \in Waiters : PullStatusEvent(m, a, w) \in Event
  /\ \A a \in Addr, x, y \in SUBSET Adapters, w \in Waiters : StatusUpdateEvent(a, x, y, w) \in Event
  /\ \A m \in Adapters, a \in Addr : LoadEvent(m, a) \in Event
BY DEF Event, PullEvents
-----------------------------------------------------------------------------
(***************************************************************************)
(* Waiters.                                                                *)
(***************************************************************************)
\* Those of a runtime are its own and those whose request is pending.
LEMMA WaitersAre ==
  ASSUME NEW rt \in Runtime
  PROVE  /\ WaitersOf(rt) \in Seq(Calls \cup {NoCall})
         /\ \A c \in Calls : c \in ToSet(WaitersOf(rt)) <=>
              c \in ToSet(rt.waitChs) \/ \E i \in DOMAIN rt.pending : rt.pending[i].call = c
<1> DEFINE calls0 == [i \in DOMAIN rt.pending |-> rt.pending[i].call]
<1>1. rt.waitChs \in Seq(Calls) /\ rt.pending \in Seq(PullEvents)
  BY DEF Runtime
<1>2. \A x \in PullEvents : x.call \in Calls \cup {NoCall}
  BY DEF PullEvents, PullEvent
<1>3. rt.pending \in [1..Len(rt.pending) -> PullEvents] /\ Len(rt.pending) \in Nat
  BY <1>1
<1>4. calls0 \in [1..Len(rt.pending) -> Calls \cup {NoCall}]
  BY <1>2, <1>3
<1>5. calls0 \in Seq(Calls \cup {NoCall}) /\ Len(calls0) = Len(rt.pending)
  BY <1>3, <1>4, SeqDef
<1>6. rt.waitChs \in Seq(Calls \cup {NoCall})
  BY <1>1
<1>7. WaitersOf(rt) = rt.waitChs \o calls0
  BY DEF WaitersOf
<1>8. Len(WaitersOf(rt)) = Len(rt.waitChs) + Len(calls0)
      /\ WaitersOf(rt) \in Seq(Calls \cup {NoCall})
  BY <1>5, <1>6, <1>7
<1>9. \A i \in 1..Len(rt.waitChs) : WaitersOf(rt)[i] = rt.waitChs[i]
  BY <1>5, <1>6, <1>7
<1>10. \A i \in 1..Len(calls0) : WaitersOf(rt)[Len(rt.waitChs) + i] = calls0[i]
  BY <1>5, <1>6, <1>7
<1>11. ASSUME NEW c \in Calls, c \in ToSet(WaitersOf(rt))
       PROVE  c \in ToSet(rt.waitChs) \/ \E i \in DOMAIN rt.pending : rt.pending[i].call = c
  <2>1. PICK k \in 1..Len(WaitersOf(rt)) : WaitersOf(rt)[k] = c
    BY <1>8, <1>11 DEF ToSet
  <2>2. CASE k <= Len(rt.waitChs)
    BY <2>1, <2>2, <1>6, <1>9 DEF ToSet
  <2>3. CASE k > Len(rt.waitChs)
    <3>1. k - Len(rt.waitChs) \in 1..Len(calls0)
      BY <2>3, <1>5, <1>6, <1>8
    <3>2. WaitersOf(rt)[Len(rt.waitChs) + (k - Len(rt.waitChs))] = calls0[k - Len(rt.waitChs)]
      BY <3>1, <1>10
    <3>3. Len(rt.waitChs) + (k - Len(rt.waitChs)) = k
      BY <1>6
    <3> QED
      BY <2>1, <3>1, <3>2, <3>3, <1>3, <1>5
  <2> QED
    BY <2>2, <2>3, <1>6
<1>12. ASSUME NEW c \in Calls, c \in ToSet(rt.waitChs)
       PROVE  c \in ToSet(WaitersOf(rt))
  <2>1. PICK k \in 1..Len(rt.waitChs) : rt.waitChs[k] = c
    BY <1>6, <1>12 DEF ToSet
  <2>2. k \in 1..Len(WaitersOf(rt)) /\ WaitersOf(rt)[k] = c
    BY <2>1, <1>5, <1>6, <1>8, <1>9
  <2>3. DOMAIN WaitersOf(rt) = 1..Len(WaitersOf(rt))
    BY <1>8
  <2> QED
    BY <2>2, <2>3 DEF ToSet
<1>13. ASSUME NEW i \in DOMAIN rt.pending
       PROVE  rt.pending[i].call \in ToSet(WaitersOf(rt))
  <2>1. i \in 1..Len(calls0)
    BY <1>3, <1>5
  <2>2. Len(rt.waitChs) + i \in 1..Len(WaitersOf(rt))
    BY <2>1, <1>5, <1>6, <1>8
  <2>3. WaitersOf(rt)[Len(rt.waitChs) + i] = calls0[i] /\ calls0[i] = rt.pending[i].call
    BY <2>1, <1>10
  <2>4. DOMAIN WaitersOf(rt) = 1..Len(WaitersOf(rt))
    BY <1>8
  <2> HIDE DEF calls0
  <2> QED
    BY <2>2, <2>3, <2>4 DEF ToSet
<1> QED
  BY <1>8, <1>11, <1>12, <1>13

\* Without a reason, or when nobody has gone, every waiter is answered.
LEMMA AllAreReached ==
  ASSUME NEW rt \in Runtime, NEW reason, ~Blocks(rt, reason)
  PROVE  Reached(rt, reason) = ToSet(WaitersOf(rt))
<1> DEFINE w == WaitersOf(rt)
<1>1. w \in Seq(Calls \cup {NoCall})
  BY WaitersAre
<1>2. \A j \in DOMAIN w : reason # "" => \A k \in 1..j : ~Gone(w[k])
  <2>1. \A j \in DOMAIN w : \A k \in 1..j : k \in DOMAIN w
    BY <1>1
  <2>2. reason # "" => \A k \in DOMAIN w : ~Gone(w[k])
    BY DEF Blocks
  <2> HIDE DEF w
  <2> QED
    BY <2>1, <2>2
<1>3. {j \in DOMAIN w : reason # "" => \A k \in 1..j : ~Gone(w[k])} = DOMAIN w
  BY <1>2
<1> QED
  BY <1>3 DEF Reached, ToSet

\* A waiter whose channel was not closed, or whose error was not read, waits on.
LEMMA CloseAnswers ==
  ASSUME RuntimeTypeOK, NEW m \in Names, NEW rt \in Runtime, NEW reason \in Reasons,
         CloseWaitChs(m, rt, reason)
  PROVE  /\ calls' \in [Calls -> {"idle", "sending", "waiting", "ok", "err", "gone"}]
         /\ runtimes' \in [Names -> Runtime \cup {NoRuntime}]
         /\ loop' \in {loop, "stuck"}
         /\ \A n \in Names : n # m => runtimes'[n] = runtimes[n]
         /\ runtimes'[m] \in Runtime
         /\ runtimes'[m].ready = rt.ready /\ runtimes'[m].lora = rt.lora
         /\ runtimes'[m].addrs = rt.addrs /\ runtimes'[m].waitChs \in {rt.waitChs, <<>>}
         /\ \A c \in Calls : calls'[c] \in {"sending", "waiting"} => calls'[c] = calls[c]
         /\ \A c \in Calls : calls'[c] \in {"sending", "waiting"} /\ c \in ToSet(WaitersOf(rt))
                               => c \in ToSet(WaitersOf(runtimes'[m]))
<1> DEFINE closed == [rt EXCEPT !.waitChs = <<>>, !.pending = <<>>, !.lastErr = reason]
<1>1. runtimes \in [Names -> Runtime \cup {NoRuntime}]
      /\ calls \in [Calls -> {"idle", "sending", "waiting", "ok", "err", "gone"}]
  BY DEF RuntimeTypeOK
<1>2. /\ closed \in Runtime /\ closed.ready = rt.ready /\ closed.lora = rt.lora
      /\ closed.addrs = rt.addrs /\ closed.waitChs = <<>>
  BY EmptySeq DEF Runtime
<1>3. calls' = Answered(rt, reason)
  BY DEF CloseWaitChs
<1>4. \/ Blocks(rt, reason) /\ loop' = "stuck" /\ runtimes' = [runtimes EXCEPT ![m] = rt]
      \/ ~Blocks(rt, reason) /\ loop' = loop /\ runtimes' = [runtimes EXCEPT ![m] = closed]
  BY DEF CloseWaitChs
<1>5. calls' \in [Calls -> {"idle", "sending", "waiting", "ok", "err", "gone"}]
  BY <1>1, <1>3 DEF Answered
<1>6. \A c \in Calls : calls'[c] \in {"sending", "waiting"} =>
                         calls'[c] = calls[c] /\ c \notin Reached(rt, reason)
  BY <1>1, <1>3 DEF Answered
<1>7. ASSUME NEW c \in Calls, calls'[c] \in {"sending", "waiting"}, c \in ToSet(WaitersOf(rt))
      PROVE  c \in ToSet(WaitersOf(runtimes'[m]))
  <2>1. Blocks(rt, reason)
    BY <1>6, <1>7, AllAreReached
  <2> QED
    BY <2>1, <1>1, <1>4, <1>7
<1> HIDE DEF closed
<1> QED
  BY <1>1, <1>2, <1>4, <1>5, <1>6, <1>7

LEMMA DropAnswers ==
  ASSUME RuntimeTypeOK, NEW m \in Names, Known(m), DropRuntime(m)
  PROVE  /\ calls' \in [Calls -> {"idle", "sending", "waiting", "ok", "err", "gone"}]
         /\ runtimes' \in [Names -> Runtime \cup {NoRuntime}]
         /\ \A n \in Names : n # m => runtimes'[n] = runtimes[n]
         /\ \/ loop' = loop /\ runtimes'[m] = NoRuntime
            \/ /\ loop' = "stuck" /\ runtimes'[m] \in Runtime
               /\ runtimes'[m] = [runtimes[m] EXCEPT !.pending = <<>>]
         /\ Requeued(m) \subseteq PullEvents
         /\ \A c \in Calls : calls'[c] \in {"sending", "waiting"} => calls'[c] = calls[c]
         /\ \A c \in Calls : calls'[c] \in {"sending", "waiting"}
                             /\ c \in ToSet(WaitersOf(runtimes[m]))
                               => \/ \E n \in Names : PullEvent(n, c) \in Requeued(m)
                                  \/ runtimes'[m] # NoRuntime /\ c \in ToSet(WaitersOf(runtimes'[m]))
<1> DEFINE rt == [runtimes[m] EXCEPT !.pending = <<>>]
<1>1. runtimes \in [Names -> Runtime \cup {NoRuntime}] /\ runtimes[m] \in Runtime
      /\ calls \in [Calls -> {"idle", "sending", "waiting", "ok", "err", "gone"}]
  BY DEF RuntimeTypeOK, Known
<1>2. rt \in Runtime /\ rt.waitChs = runtimes[m].waitChs
  BY <1>1, EmptySeq DEF Runtime
<1>3. calls' = Answered(rt, "deleted")
  BY DEF DropRuntime
<1>4. \/ Blocks(rt, "deleted") /\ loop' = "stuck" /\ runtimes' = [runtimes EXCEPT ![m] = rt]
      \/ /\ ~Blocks(rt, "deleted") /\ loop' = loop
         /\ runtimes' = [runtimes EXCEPT ![m] = NoRuntime]
  BY DEF DropRuntime
<1>5. calls' \in [Calls -> {"idle", "sending", "waiting", "ok", "err", "gone"}]
  BY <1>1, <1>3 DEF Answered
<1>6. \A c \in Calls : calls'[c] \in {"sending", "waiting"} =>
                         calls'[c] = calls[c] /\ c \notin Reached(rt, "deleted")
  BY <1>1, <1>3 DEF Answered
<1>7. runtimes[m].pending \in Seq(PullEvents)
  BY <1>1 DEF Runtime
<1>8. Requeued(m) \subseteq PullEvents
  BY <1>7 DEF Requeued, ToSet
<1>9. ASSUME NEW c \in Calls, calls'[c] \in {"sending", "waiting"},
             c \in ToSet(WaitersOf(runtimes[m]))
      PROVE  \/ \E n \in Names : PullEvent(n, c) \in Requeued(m)
             \/ runtimes'[m] # NoRuntime /\ c \in ToSet(WaitersOf(runtimes'[m]))
  <2>1. CASE c \in ToSet(runtimes[m].waitChs)
    <3>1. c \in ToSet(WaitersOf(rt))
      BY <2>1, <1>2, WaitersAre
    <3>2. Blocks(rt, "deleted")
      BY <3>1, <1>2, <1>6, <1>9, AllAreReached
    <3>3. runtimes'[m] = rt
      BY <3>2, <1>1, <1>4
    <3> HIDE DEF rt
    <3> QED
      BY <3>1, <3>3, <1>2, NoRuntimeAssumption
  <2>2. CASE \E i \in DOMAIN runtimes[m].pending : runtimes[m].pending[i].call = c
    <3>1. PICK i \in DOMAIN runtimes[m].pending : runtimes[m].pending[i].call = c
      BY <2>2
    <3>2. runtimes[m].pending[i] \in Requeued(m) /\ runtimes[m].pending[i] \in PullEvents
      BY <3>1, <1>7 DEF Requeued, ToSet
    <3>3. PICK n \in Names : runtimes[m].pending[i] = PullEvent(n, c)
      BY <3>1, <3>2 DEF PullEvents, PullEvent
    <3> QED
      BY <3>2, <3>3
  <2> QED
    BY <2>1, <2>2, <1>1, <1>9, WaitersAre
<1> HIDE DEF rt
<1>10. /\ runtimes' \in [Names -> Runtime \cup {NoRuntime}]
       /\ \A n \in Names : n # m => runtimes'[n] = runtimes[n]
       /\ \/ loop' = loop /\ runtimes'[m] = NoRuntime
          \/ loop' = "stuck" /\ runtimes'[m] \in Runtime /\ runtimes'[m] = rt
  BY <1>1, <1>2, <1>4
<1> QED
  BY <1>5, <1>6, <1>8, <1>9, <1>10 DEF rt

LEMMA RuntimeUpdates ==
  ASSUME NEW rt \in Runtime
  PROVE  /\ \A b \in BOOLEAN : [rt EXCEPT !.ready = b] \in Runtime
         /\ [rt EXCEPT !.pending = <<>>] \in Runtime
         /\ \A k \in Configs \cup {NoConfig} : [rt EXCEPT !.mci = k] \in Runtime
         /\ \A A \in SUBSET Addr : [rt EXCEPT !.addrs = A] \in Runtime
         /\ \A a \in Addr : BecomeReady(rt, a) \in Runtime
         /\ \A e \in PullEvents : [rt EXCEPT !.pending = Append(@, e)] \in Runtime
         /\ \A c \in Calls : [rt EXCEPT !.waitChs = Append(@, c)] \in Runtime
<1>1. <<>> \in Seq(PullEvents) /\ rt.pending \in Seq(PullEvents) /\ rt.waitChs \in Seq(Calls)
  BY EmptySeq DEF Runtime
<1>2. \A e \in PullEvents : Append(rt.pending, e) \in Seq(PullEvents)
  BY <1>1
<1>3. \A c \in Calls : Append(rt.waitChs, c) \in Seq(Calls)
  BY <1>1
<1>4. \A e \in PullEvents : [rt EXCEPT !.pending = Append(@, e)] \in Runtime
  BY <1>2 DEF Runtime
<1>5. \A c \in Calls : [rt EXCEPT !.waitChs = Append(@, c)] \in Runtime
  BY <1>3 DEF Runtime
<1>6. /\ \A b \in BOOLEAN : [rt EXCEPT !.ready = b] \in Runtime
      /\ [rt EXCEPT !.pending = <<>>] \in Runtime
      /\ \A k \in Configs \cup {NoConfig} : [rt EXCEPT !.mci = k] \in Runtime
      /\ \A A \in SUBSET Addr : [rt EXCEPT !.addrs = A] \in Runtime
  BY <1>1 DEF Runtime
<1>7. \A a \in Addr : BecomeReady(rt, a) \in Runtime
  BY DEF Runtime, BecomeReady
<1> QED
  BY <1>4, <1>5, <1>6, <1>7

LEMMA NewRuntimes ==
  ASSUME NEW isLoRA \in BOOLEAN, NEW k \in Configs \cup {NoConfig},
         NEW c \in Calls \cup {NoCall}
  PROVE  /\ NewPending(isLoRA, k, NewWaitChs(c)) \in Runtime
         /\ NewPending(isLoRA, k, <<>>) \in Runtime
BY DEF Runtime, NewPending, NewWaitChs, Reasons
-----------------------------------------------------------------------------
(***************************************************************************)
(* Types.                                                                  *)
(***************************************************************************)
Statuses == {"idle", "sending", "waiting", "ok", "err", "gone"}

LEMMA PullEventsAre == PullEvents \subseteq Event
BY DEF Event

LEMMA Typed ==
  RuntimeTypeOK =>
    /\ runtimes \in [Names -> Runtime \cup {NoRuntime}]
    /\ events \subseteq Event /\ inProgress \subseteq Pods
    /\ calls \in [Calls -> Statuses]
    /\ sts \in [Models -> [phase : {"none", "zero", "pending", "unschedulable", "ready"},
                           mci : Configs \cup {NoConfig}]]
    /\ config \in [Models -> Configs]
    /\ \A m \in Names : Known(m) => runtimes[m] \in Runtime
    /\ \A m \in Names : Known(m) => ToSet(runtimes[m].pending) \subseteq PullEvents
<1> SUFFICES ASSUME RuntimeTypeOK
             PROVE  \A m \in Names : Known(m) => /\ runtimes[m] \in Runtime
                                                 /\ ToSet(runtimes[m].pending) \subseteq PullEvents
  BY DEF RuntimeTypeOK, Statuses
<1> SUFFICES ASSUME NEW m \in Names, Known(m)
             PROVE  runtimes[m] \in Runtime /\ ToSet(runtimes[m].pending) \subseteq PullEvents
  OBVIOUS
<1>1. runtimes[m] \in Runtime
  BY DEF RuntimeTypeOK, Known
<1>2. runtimes[m].pending \in Seq(PullEvents)
  BY <1>1 DEF Runtime
<1> QED
  BY <1>1, <1>2 DEF ToSet

LEMMA TellTypes ==
  ASSUME RuntimeTypeOK, NEW c \in Calls \cup {NoCall}, NEW answer \in Statuses
  PROVE  /\ Tell(c, answer) \in [Calls -> Statuses]
         /\ \A k \in Calls : k # c => Tell(c, answer)[k] = calls[k]
         /\ c \in Calls => Tell(c, answer)[c] \in {answer, "gone"}
BY Typed, RuntimeAssumption DEF Tell, Gone

LEMMA DeployTypes ==
  ASSUME RuntimeTypeOK, NEW m \in Models, Deploy(m)
  PROVE  /\ sts' \in [Models -> [phase : {"none", "zero", "pending", "unschedulable", "ready"},
                                 mci : Configs \cup {NoConfig}]]
         /\ scalers' \subseteq Models
BY DEF RuntimeTypeOK, Deploy

LEMMA PullKeepsTypes ==
  ASSUME RuntimeTypeOK, NEW e \in events, ProcessPullModelEvent(e)
  PROVE  RuntimeTypeOK'
<1>1. /\ e \in Event /\ e.model \in Names /\ e.call \in Calls \cup {NoCall} /\ e \in PullEvents
      /\ BaseOf \in [Adapters -> Models] /\ Names = Models \cup Adapters /\ NoCall \notin Calls
      /\ events \ {e} \subseteq Event
  BY EventsByType, RuntimeAssumption DEF RuntimeTypeOK, ProcessPullModelEvent, Names
<1>2. CASE PullIsReady(e)
  BY <1>1, <1>2, TellTypes DEF PullIsReady, RuntimeTypeOK, Statuses, clusterVars, podVars
<1>3. CASE PullHasFailed(e)
  <2>1. calls' \in [Calls -> Statuses]
    BY <1>1, <1>3, TellTypes, Typed DEF PullHasFailed, Statuses
  <2> QED
    BY <1>1, <1>3, <2>1 DEF PullHasFailed, RuntimeTypeOK, Statuses, clusterVars, podVars
<1>4. CASE PullIsInProgress(e)
  <2>1. runtimes[e.model] \in Runtime
    BY <1>1, <1>4, Typed DEF PullIsInProgress
  <2>2. CASE e.call = NoCall
    <3>1. runtimes' = runtimes
      BY <1>4, <2>1, <2>2, Typed DEF PullIsInProgress, Runtime
    <3> QED
      BY <1>1, <1>4, <3>1, TellTypes DEF PullIsInProgress, RuntimeTypeOK, Statuses, clusterVars, podVars
  <2>3. CASE e.call # NoCall
    <3> DEFINE rt == runtimes[e.model]
    <3>1. runtimes' = [runtimes EXCEPT ![e.model] = [rt EXCEPT !.waitChs = Append(@, e.call)]]
      BY <1>4, <2>3 DEF PullIsInProgress
    <3>2. [rt EXCEPT !.waitChs = Append(@, e.call)] \in Runtime
      BY <1>1, <2>1, <2>3, RuntimeUpdates
    <3> HIDE DEF rt
    <3>3. runtimes' \in [Names -> Runtime \cup {NoRuntime}]
      BY <1>1, <3>1, <3>2, Typed
    <3> QED
      BY <1>1, <1>4, <3>3, TellTypes DEF PullIsInProgress, RuntimeTypeOK, Statuses, clusterVars, podVars
  <2> QED
    BY <2>2, <2>3
<1>5. CASE PullNewModel(e)
  <2>1. e.model \in Models /\ config[e.model] \in Configs
    BY <1>5, Typed DEF PullNewModel
  <2>2. runtimes' \in [Names -> Runtime \cup {NoRuntime}]
    BY <1>1, <1>5, <2>1, Typed, NewRuntimes DEF PullNewModel
  <2>3. events' \subseteq Event
    BY <1>1, <1>5, <2>1, NewEvents DEF PullNewModel
  <2>4. calls' \in [Calls -> Statuses]
    BY <1>1, <1>5, TellTypes DEF PullNewModel, Statuses
  <2> QED
    BY <1>5, <2>1, <2>2, <2>3, <2>4, DeployTypes DEF PullNewModel, RuntimeTypeOK, Statuses, podVars
<1>6. CASE PullNeedsBase(e)
  <2> DEFINE b == BaseOf[e.model]
             br == IF Known(b) THEN runtimes[b] ELSE NewPending(FALSE, config[b], <<>>)
  <2>1. e.model \in Adapters /\ b \in Models /\ b \in Names /\ config[b] \in Configs
    BY <1>1, <1>6, Typed DEF PullNeedsBase
  <2>2. br \in Runtime
    BY <2>1, Typed, NewRuntimes
  <2>3. runtimes' = [runtimes EXCEPT ![b] = [br EXCEPT !.pending = Append(@, e)]]
    BY <1>6 DEF PullNeedsBase
  <2> HIDE DEF br
  <2>4. [br EXCEPT !.pending = Append(@, e)] \in Runtime
    BY <1>1, <2>2, RuntimeUpdates
  <2>5. runtimes' \in [Names -> Runtime \cup {NoRuntime}]
    BY <2>1, <2>3, <2>4, Typed
  <2>6. events' \subseteq Event
    BY <1>1, <1>6, <2>1, NewEvents DEF PullNeedsBase
  <2>7. calls' \in [Calls -> Statuses]
    BY <1>1, <1>6, TellTypes DEF PullNeedsBase, Statuses
  <2>8. /\ sts' \in [Models -> [phase : {"none", "zero", "pending", "unschedulable", "ready"},
                                mci : Configs \cup {NoConfig}]]
        /\ scalers' \subseteq Models
    BY <1>6, <2>1, DeployTypes DEF PullNeedsBase, RuntimeTypeOK
  <2> QED
    BY <1>6, <2>5, <2>6, <2>7, <2>8 DEF PullNeedsBase, RuntimeTypeOK, Statuses, podVars
<1>7. CASE PullNewAdapter(e)
  <2> DEFINE b == BaseOf[e.model]
             targets == {p \in up : Owner[p] = b}
  <2>1. CASE targets = {}
    BY <1>7, <2>1 DEF PullNewAdapter, Fails, RuntimeTypeOK, clusterVars, podVars
  <2>2. CASE targets # {}
    <3>1. PICK p \in targets :
            /\ runtimes' = [runtimes EXCEPT ![e.model] =
                              NewPending(TRUE, NoConfig, NewWaitChs(e.call))]
            /\ calls' = Tell(e.call, "waiting")
            /\ events' = (events \ {e}) \cup {PullStatusEvent(e.model, PodAddr(p), "none")}
            /\ UNCHANGED <<inProgress, loop, scalers, clusterVars>>
      BY <1>7, <2>2 DEF PullNewAdapter
    <3>2. PodAddr(p) \in Addr /\ e.model \in Adapters
      BY <1>7, <3>1 DEF PodAddr, Addr, RuntimeTypeOK, PullNewAdapter
    <3>3. runtimes' \in [Names -> Runtime \cup {NoRuntime}]
      BY <1>1, <3>1, Typed, NewRuntimes
    <3>4. events' \subseteq Event
      BY <1>1, <3>1, <3>2, NewEvents DEF Waiters
    <3>5. calls' \in [Calls -> Statuses]
      BY <1>1, <3>1, TellTypes DEF Statuses
    <3> QED
      BY <3>1, <3>3, <3>4, <3>5 DEF RuntimeTypeOK, Statuses, clusterVars, podVars
  <2> QED
    BY <2>1, <2>2
<1> QED
  BY <1>2, <1>3, <1>4, <1>5, <1>6, <1>7 DEF ProcessPullModelEvent

LEMMA DeleteKeepsTypes ==
  ASSUME RuntimeTypeOK, KindsAreKept, NEW e \in events, ProcessDeleteModelEvent(e)
  PROVE  RuntimeTypeOK'
<1>1. e \in Event /\ e.model \in Names /\ events \ {e} \subseteq Event
  BY EventsByType DEF RuntimeTypeOK, ProcessDeleteModelEvent
<1>2. CASE /\ ~Known(e.model)
           /\ events' = events \ {e}
           /\ UNCHANGED <<runtimes, inProgress, loop, scalers, calls, clusterVars>>
  BY <1>1, <1>2 DEF RuntimeTypeOK, clusterVars, podVars
<1>3. CASE DeleteAdapter(e)
  <2> DEFINE addrs == runtimes[e.model].addrs
  <2>1. CASE \E a \in addrs : ~Lives(a) \/ e.model \notin loaded[a.pod]
    BY <1>3, <2>1 DEF DeleteAdapter, Fails, RuntimeTypeOK, clusterVars, podVars
  <2>2. CASE ~\E a \in addrs : ~Lives(a) \/ e.model \notin loaded[a.pod]
    <3>1. /\ loaded' = [p \in Pods |-> IF \E a \in addrs : a.pod = p
                                         THEN loaded[p] \ {e.model} ELSE loaded[p]]
          /\ DropRuntime(e.model) /\ Known(e.model)
          /\ events' = (events \ {e}) \cup Requeued(e.model)
          /\ UNCHANGED <<inProgress, scalers, sts, ip, up, config, disturbances>>
      BY <1>3, <2>2 DEF DeleteAdapter
    <3>2. loaded' \in [Pods -> SUBSET Adapters]
      BY <3>1 DEF RuntimeTypeOK
    <3>3. events' \subseteq Event
      BY <1>1, <3>1, DropAnswers, PullEventsAre
    <3>4. /\ calls' \in [Calls -> Statuses] /\ runtimes' \in [Names -> Runtime \cup {NoRuntime}]
          /\ loop' \in {loop, "stuck"}
      BY <1>1, <3>1, DropAnswers DEF Statuses
    <3> QED
      BY <3>1, <3>2, <3>3, <3>4 DEF RuntimeTypeOK, Statuses
  <2> QED
    BY <2>1, <2>2
<1>4. CASE DeleteModelRuntime(e)
  <2>1. NoSts \in [phase : {"none", "zero", "pending", "unschedulable", "ready"},
                   mci : Configs \cup {NoConfig}]
    BY DEF NoSts
  <2>2. sts' \in [Models -> [phase : {"none", "zero", "pending", "unschedulable", "ready"},
                             mci : Configs \cup {NoConfig}]]
    BY <1>4, <2>1, Typed DEF DeleteModelRuntime
  <2>3. e.model \in Models
    BY <1>1, <1>4 DEF KindsAreKept, DeleteModelRuntime, Names
  <2>4. events' \subseteq Event
    BY <1>1, <1>4, <2>3, NewEvents DEF DeleteModelRuntime
  <2> QED
    BY <1>4, <2>2, <2>4 DEF DeleteModelRuntime, RuntimeTypeOK, podVars
<1> QED
  BY <1>2, <1>3, <1>4 DEF ProcessDeleteModelEvent

LEMMA UpdateKeepsTypes ==
  ASSUME RuntimeTypeOK, NEW e \in events, ProcessUpdateModelEvent(e)
  PROVE  RuntimeTypeOK'
<1> DEFINE m == e.model
<1>1. e \in Event /\ m \in Names /\ events \ {e} \subseteq Event
  BY EventsByType DEF RuntimeTypeOK, ProcessUpdateModelEvent
<1>2. CASE m \in Models /\ IsOutdated(m)
  <2>1. config[m] \in Configs /\ runtimes[m] \in Runtime
    BY <1>1, <1>2, Typed DEF IsOutdated
  <2>2. /\ sts' = [sts EXCEPT ![m] = [phase |-> IF @.phase = "none" THEN "pending" ELSE @.phase,
                                      mci |-> config[m]]]
        /\ runtimes' = [runtimes EXCEPT ![m] = [@ EXCEPT !.mci = config[m]]]
        /\ events' = (events \ {e}) \cup {ReconcileEvent(m)}
        /\ UNCHANGED <<inProgress, loop, scalers, calls, podVars, config, disturbances>>
    BY <1>2 DEF ProcessUpdateModelEvent
  <2>3. sts' \in [Models -> [phase : {"none", "zero", "pending", "unschedulable", "ready"},
                             mci : Configs \cup {NoConfig}]]
    BY <1>2, <2>1, <2>2, Typed
  <2>4. [runtimes[m] EXCEPT !.mci = config[m]] \in Runtime
    BY <2>1, RuntimeUpdates
  <2>5. runtimes' \in [Names -> Runtime \cup {NoRuntime}]
    BY <1>1, <2>2, <2>4, Typed
  <2>6. events' \subseteq Event
    BY <1>1, <1>2, <2>2, NewEvents
  <2> HIDE DEF m
  <2> QED
    BY <2>2, <2>3, <2>5, <2>6 DEF RuntimeTypeOK, podVars
<1>3. CASE ~(m \in Models /\ IsOutdated(m))
  BY <1>1, <1>3 DEF ProcessUpdateModelEvent, RuntimeTypeOK, podVars
<1> QED
  BY <1>2, <1>3

LEMMA ReconcileKeepsTypes ==
  ASSUME RuntimeTypeOK, NEW e \in events, ProcessReconcileStatefulSetEvent(e)
  PROVE  RuntimeTypeOK'
<1> DEFINE m == e.model
           rt == Reconciled(m)
<1>1. /\ e \in Event /\ m \in Models /\ m \in Names /\ events \ {e} \subseteq Event
  BY EventsByType DEF RuntimeTypeOK, ProcessReconcileStatefulSetEvent, Names
<1>2. CASE ReconcileGone(e)
  <2>1. CASE Known(m)
    <3>1. /\ DropRuntime(m) /\ events' = (events \ {e}) \cup Requeued(m)
          /\ UNCHANGED <<inProgress, clusterVars>> /\ scalers' \in {scalers, scalers \ {m}}
      BY <1>2, <2>1 DEF ReconcileGone
    <3>2. /\ calls' \in [Calls -> Statuses] /\ runtimes' \in [Names -> Runtime \cup {NoRuntime}]
          /\ loop' \in {loop, "stuck"} /\ Requeued(m) \subseteq PullEvents
      BY <1>1, <2>1, <3>1, DropAnswers DEF Statuses
    <3>3. events' \subseteq Event
      BY <1>1, <3>1, <3>2, PullEventsAre
    <3> HIDE DEF m
    <3> QED
      BY <3>1, <3>2, <3>3 DEF RuntimeTypeOK, Statuses, clusterVars, podVars
  <2>2. CASE ~Known(m)
    BY <1>1, <1>2, <2>2 DEF ReconcileGone, RuntimeTypeOK, clusterVars, podVars
  <2> QED
    BY <2>1, <2>2
<1>3. CASE ReconcileFound(e)
  <2>1. rt \in Runtime
    BY <1>1, Typed, NewRuntimes DEF Reconciled
  <2>2. /\ sts[m].phase # "none"
        /\ scalers' = IF Known(m) THEN scalers ELSE scalers \cup {m}
        /\ UNCHANGED <<inProgress, clusterVars>>
    BY <1>3 DEF ReconcileFound
  <2>3. \/ /\ rt.ready
           /\ runtimes' = [runtimes EXCEPT ![m] = [rt EXCEPT !.ready = (sts[m].phase # "zero")]]
           /\ events' = events \ {e}
           /\ UNCHANGED <<calls, loop>>
        \/ /\ ~rt.ready /\ sts[m].phase = "unschedulable"
           /\ CloseWaitChs(m, rt, "Unschedulable")
           /\ events' = events \ {e}
        \/ /\ ~rt.ready /\ sts[m].phase \in {"zero", "pending"}
           /\ runtimes' = [runtimes EXCEPT ![m] = rt]
           /\ events' = events \ {e}
           /\ UNCHANGED <<calls, loop>>
        \/ /\ ~rt.ready /\ sts[m].phase = "ready"
           /\ runtimes' = [runtimes EXCEPT ![m] = rt]
           /\ events' = (events \ {e}) \cup {ReadinessEvent(m, Service, NoPod, 0, "none")}
           /\ UNCHANGED <<calls, loop>>
    BY <1>3 DEF ReconcileFound
  <2>4. Service \in Addr /\ 0 \in 0..ReadinessCheckMaxRetryCount
    BY RuntimeAssumption DEF Service, Addr
  <2>5. ReadinessEvent(m, Service, NoPod, 0, "none") \in Event
    BY <1>1, <2>4, NewEvents DEF Waiters
  <2> HIDE DEF m, rt
  <2>6. [rt EXCEPT !.ready = (sts[m].phase # "zero")] \in Runtime
    BY <2>1, RuntimeUpdates
  <2>7. /\ calls' \in [Calls -> Statuses] /\ runtimes' \in [Names -> Runtime \cup {NoRuntime}]
        /\ loop' \in {loop, "stuck"} /\ events' \subseteq Event
    BY <1>1, <2>1, <2>3, <2>5, <2>6, Typed, CloseAnswers DEF Statuses, Reasons
  <2>8. scalers' \subseteq Models
    BY <1>1, <2>2 DEF RuntimeTypeOK
  <2> QED
    BY <2>2, <2>7, <2>8 DEF RuntimeTypeOK, Statuses, clusterVars, podVars
<1> QED
  BY <1>2, <1>3 DEF ProcessReconcileStatefulSetEvent

LEMMA ReadinessKeepsTypes ==
  ASSUME RuntimeTypeOK, NEW e \in events, ProcessReadinessCheckEvent(e)
  PROVE  RuntimeTypeOK'
<1> DEFINE m == e.model
<1>1. /\ e \in Event /\ m \in Names /\ events \ {e} \subseteq Event
      /\ e.addr \in Addr /\ e.retry \in 0..ReadinessCheckMaxRetryCount /\ e.waiter \in Waiters
  BY EventsByType DEF RuntimeTypeOK, ProcessReadinessCheckEvent
<1>2. CASE CheckIsMoot(e)
  BY <1>1, <1>2 DEF CheckIsMoot, RuntimeTypeOK, clusterVars, podVars
<1>3. CASE CheckPasses(e)
  <2> DEFINE rt == [BecomeReady(runtimes[m], e.addr) EXCEPT !.pending = <<>>]
  <2>1. /\ Known(m) /\ inProgress' = inProgress \ {e.pod}
        /\ events' = (events \ {e}) \cup Requeued(m)
        /\ CloseWaitChs(m, rt, "") /\ UNCHANGED <<scalers, clusterVars>>
    BY <1>3 DEF CheckPasses
  <2>2. runtimes[m] \in Runtime /\ Requeued(m) \subseteq PullEvents
    BY <1>1, <2>1, Typed DEF Requeued
  <2>3. rt \in Runtime
    BY <1>1, <2>2, RuntimeUpdates
  <2>4. events' \subseteq Event
    BY <1>1, <2>1, <2>2, PullEventsAre
  <2> HIDE DEF rt, m
  <2>5. /\ calls' \in [Calls -> Statuses] /\ runtimes' \in [Names -> Runtime \cup {NoRuntime}]
        /\ loop' \in {loop, "stuck"}
    BY <1>1, <2>1, <2>3, CloseAnswers DEF Statuses, Reasons
  <2> QED
    BY <2>1, <2>4, <2>5 DEF RuntimeTypeOK, Statuses, clusterVars, podVars
<1>4. CASE CheckIsRetried(e)
  <2>1. e.retry + 1 \in 0..ReadinessCheckMaxRetryCount
    BY <1>1, <1>4, RuntimeAssumption DEF CheckIsRetried
  <2>2. RetryOf(e) \in Event
    BY <1>1, <2>1, NewEvents DEF RetryOf
  <2> QED
    BY <1>1, <1>4, <2>2 DEF CheckIsRetried, RuntimeTypeOK, clusterVars, podVars
<1>5. CASE CheckFails(e)
  <2>1. /\ Known(m) /\ CloseWaitChs(m, runtimes[m], "unreachable")
        /\ events' \subseteq (events \ {e}) \cup {DeleteEvent(m)}
        /\ inProgress' \in {inProgress, inProgress \ {e.pod}}
        /\ UNCHANGED <<scalers, clusterVars>>
    BY <1>5 DEF CheckFails
  <2>2. runtimes[m] \in Runtime
    BY <1>1, <2>1, Typed
  <2>3. events' \subseteq Event
    BY <1>1, <2>1, NewEvents
  <2> HIDE DEF m
  <2>4. /\ calls' \in [Calls -> Statuses] /\ runtimes' \in [Names -> Runtime \cup {NoRuntime}]
        /\ loop' \in {loop, "stuck"}
    BY <1>1, <2>1, <2>2, CloseAnswers DEF Statuses, Reasons
  <2> QED
    BY <2>1, <2>3, <2>4 DEF RuntimeTypeOK, Statuses, clusterVars, podVars
<1> QED
  BY <1>2, <1>3, <1>4, <1>5 DEF ProcessReadinessCheckEvent

LEMMA LoRAEventsKeepTypes ==
  ASSUME RuntimeTypeOK, PullsAreOfPods, NEW e \in events,
         ProcessLoRAAdapterPullStatusCheckEvent(e) \/ ProcessLoadLoRAAdapterEvent(e)
  PROVE  RuntimeTypeOK'
<1>1. /\ e \in Event /\ e.model \in Adapters /\ events \ {e} \subseteq Event /\ e.addr \in Addr
      /\ e.type = "pullStatus" => e.waiter \in Waiters
  BY EventsByType DEF RuntimeTypeOK, ProcessLoRAAdapterPullStatusCheckEvent,
                      ProcessLoadLoRAAdapterEvent
<1>2. up \subseteq Pods /\ (Lives(e.addr) => e.addr.pod \in Pods)
  BY DEF RuntimeTypeOK, Lives
<1>3. ASSUME ProcessLoRAAdapterPullStatusCheckEvent(e)
      PROVE  e.type = "pullStatus" /\ (PullCheckFails(e) \/ PullCheckAgain(e) \/ PullCheckLoads(e))
  BY <1>3 DEF ProcessLoRAAdapterPullStatusCheckEvent
<1>4. CASE PullCheckAgain(e)
  BY <1>1, <1>2, <1>4 DEF PullCheckAgain, RuntimeTypeOK, clusterVars, podVars
<1>5. CASE e.type = "pullStatus" /\ PullCheckLoads(e)
  <2>1. ReadinessEvent(e.model, e.addr, e.addr.pod, 0, e.waiter) \in Event
    <3>1. e.addr.pod \in Pods \cup {NoPod} /\ 0 \in 0..ReadinessCheckMaxRetryCount
          /\ e.model \in Names
      BY <1>1, <1>2, <1>5, RuntimeAssumption DEF PullCheckLoads, Names
    <3> QED
      BY <1>1, <1>5, <3>1, NewEvents
  <2>2. loaded' \in [Pods -> SUBSET Adapters]
    BY <1>1, <1>5 DEF PullCheckLoads, RuntimeTypeOK
  <2> QED
    BY <1>1, <1>2, <1>5, <2>1, <2>2 DEF PullCheckLoads, RuntimeTypeOK
<1>6. CASE ProcessLoadLoRAAdapterEvent(e)
  <2>1. PullStatusEvent(e.model, e.addr, "rebalancer") \in Event
    BY <1>1, NewEvents DEF Waiters
  <2> QED
    BY <1>1, <1>6, <2>1 DEF ProcessLoadLoRAAdapterEvent, Fails, RuntimeTypeOK, clusterVars, podVars
<1>7. CASE e.type = "pullStatus" /\ PullCheckFails(e)
  BY <1>1, <1>7 DEF PullsAreOfPods, PullCheckFails, RuntimeTypeOK, clusterVars, podVars
<1> QED
  BY <1>3, <1>4, <1>5, <1>6, <1>7

LEMMA StatusUpdateKeepsTypes ==
  ASSUME RuntimeTypeOK, NEW e \in events, ProcessLoRAAdapterStatusUpdateEvent(e)
  PROVE  RuntimeTypeOK'
<1> DEFINE retry == StatusUpdateEvent(e.addr, NeedRetry(e), {}, e.waiter)
<1>1. /\ e \in Event /\ events \ {e} \subseteq Event /\ e.addr \in Addr
      /\ e.added \subseteq Adapters /\ e.removed \subseteq Adapters /\ e.waiter \in Waiters
  BY EventsByType DEF RuntimeTypeOK, ProcessLoRAAdapterStatusUpdateEvent
<1>2. CASE Panics(e)
  BY <1>2 DEF ProcessLoRAAdapterStatusUpdateEvent, RuntimeTypeOK, clusterVars, podVars
<1>3. CASE ~Panics(e)
  <2>1. /\ runtimes' = [m \in Names |->
              CASE m \in RemovedRuntimes(e) -> NoRuntime
                [] m \in e.removed /\ Known(m) /\ m \notin RemovedRuntimes(e)
                     -> [runtimes[m] EXCEPT !.addrs = @ \ {e.addr}]
                [] m \in e.added \ e.removed -> AfterAdd(m, e.addr)
                [] OTHER -> runtimes[m]]
        /\ events' = (events \ {e}) \cup (IF NeedRetry(e) = {} THEN {} ELSE {retry})
        /\ UNCHANGED <<loop, inProgress, scalers, calls, clusterVars>>
    BY <1>3 DEF ProcessLoRAAdapterStatusUpdateEvent
  <2>2. ASSUME NEW m \in Names
        PROVE  AfterAdd(m, e.addr) \in Runtime \cup {NoRuntime}
    <3> DEFINE new == BecomeReady(NewPending(TRUE, NoConfig, <<>>), e.addr)
    <3>1. new \in Runtime
      BY <1>1, NewRuntimes, RuntimeUpdates
    <3>2. ASSUME Known(m)
          PROVE  [runtimes[m] EXCEPT !.addrs = @ \cup {e.addr}] \in Runtime
      <4>1. runtimes[m] \in Runtime /\ runtimes[m].addrs \cup {e.addr} \in SUBSET Addr
        BY <1>1, <3>2, Typed DEF Runtime
      <4> QED
        BY <4>1, RuntimeUpdates
    <3>3. runtimes[m] \in Runtime \cup {NoRuntime}
      BY Typed
    <3> HIDE DEF new
    <3> QED
      BY <3>1, <3>2, <3>3 DEF AfterAdd, new
  <2>3. ASSUME NEW m \in Names, Known(m)
        PROVE  [runtimes[m] EXCEPT !.addrs = @ \ {e.addr}] \in Runtime
    <3>1. runtimes[m] \in Runtime /\ runtimes[m].addrs \ {e.addr} \in SUBSET Addr
      BY <2>3, Typed DEF Runtime
    <3> QED
      BY <3>1, RuntimeUpdates
  <2>4. runtimes' \in [Names -> Runtime \cup {NoRuntime}]
    BY <2>1, <2>2, <2>3, Typed
  <2>5. retry \in Event
    BY <1>1, NewEvents DEF NeedRetry
  <2>6. events' \subseteq Event
    BY <1>1, <2>1, <2>5
  <2> HIDE DEF retry
  <2> QED
    BY <2>1, <2>4, <2>6 DEF RuntimeTypeOK, clusterVars, podVars
<1> QED
  BY <1>2, <1>3

LEMMA HandlersKeepTypes ==
  ASSUME RuntimeTypeOK, KindsAreKept, PullsAreOfPods, NEW e, RunStateMachine(e)
  PROVE  RuntimeTypeOK'
<1>1. e \in events
  BY DEF RunStateMachine
<1> QED
  BY <1>1, PullKeepsTypes, DeleteKeepsTypes, UpdateKeepsTypes, ReconcileKeepsTypes,
     ReadinessKeepsTypes, LoRAEventsKeepTypes, StatusUpdateKeepsTypes DEF RunStateMachine

LEMMA ClusterKeepsTypes ==
  ASSUME RuntimeTypeOK, Cluster
  PROVE  RuntimeTypeOK'
<1>1. \A m \in Models : ReconcileEvent(m) \in Event
  BY NewEvents
<1>2. ASSUME NEW m \in Models,
             NEW from \in SUBSET {"none", "zero", "pending", "unschedulable", "ready"},
             NEW to \in {"none", "zero", "pending", "unschedulable", "ready"},
             StsPhase(m, from, to), disturbances' \in 0..MaxDisturbances
      PROVE  RuntimeTypeOK'
  <2>1. sts' \in [Models -> [phase : {"none", "zero", "pending", "unschedulable", "ready"},
                             mci : Configs \cup {NoConfig}]]
    BY <1>2, Typed DEF StsPhase
  <2> QED
    BY <1>1, <1>2, <2>1 DEF StsPhase, RuntimeTypeOK, podVars
<1>3. ASSUME NEW m \in Models, StsProgress(m)
      PROVE  RuntimeTypeOK'
  <2>1. disturbances' \in 0..MaxDisturbances
    BY <1>3 DEF StsProgress, RuntimeTypeOK
  <2> QED
    BY <1>2, <1>3, <2>1 DEF StsProgress
<1>4. ASSUME NEW m \in Models, StsDisturbed(m)
      PROVE  RuntimeTypeOK'
  <2>1. disturbances' \in 0..MaxDisturbances
    BY <1>4, RuntimeAssumption DEF StsDisturbed, RuntimeTypeOK
  <2> QED
    BY <1>2, <1>4, <2>1 DEF StsDisturbed
<1>5. ASSUME NEW m \in Models, ConfigChanges(m)
      PROVE  RuntimeTypeOK'
  BY <1>5 DEF ConfigChanges, RuntimeTypeOK, managerVars, podVars
<1>6. ASSUME NEW p \in Pods, PodStarts(p)
      PROVE  RuntimeTypeOK'
  <2>1. ip' \in [Pods -> 0..MaxIPs] /\ up' \subseteq Pods /\ loaded' \in [Pods -> SUBSET Adapters]
    BY <1>6, RuntimeAssumption DEF PodStarts, RuntimeTypeOK
  <2> QED
    BY <1>6, <2>1 DEF PodStarts, RuntimeTypeOK, managerVars
<1>7. ASSUME NEW p \in Pods, PodStops(p)
      PROVE  RuntimeTypeOK'
  <2>1. up' \subseteq Pods /\ loaded' \in [Pods -> SUBSET Adapters]
    BY <1>7 DEF PodStops, RuntimeTypeOK
  <2> QED
    BY <1>7, <2>1 DEF PodStops, RuntimeTypeOK, managerVars
<1> QED
  BY <1>3, <1>4, <1>5, <1>6, <1>7 DEF Cluster

LEMMA ClientsKeepTypes ==
  ASSUME RuntimeTypeOK
  PROVE  /\ Callers => RuntimeTypeOK'
         /\ \A e \in Event : Request(e) => RuntimeTypeOK'
         /\ ManagerRestarts => RuntimeTypeOK'
<1>1. ASSUME NEW c \in Calls, CallerLeaves(c)
      PROVE  RuntimeTypeOK'
  BY <1>1 DEF CallerLeaves, RuntimeTypeOK, managerVars, clusterVars, podVars
<1>2. ASSUME NEW c \in Calls, NEW m \in Names, PullModel(c, m)
      PROVE  RuntimeTypeOK'
  <2>1. PullEvent(m, c) \in Event
    BY NewEvents
  <2> QED
    BY <1>2, <2>1 DEF PullModel, RuntimeTypeOK, clusterVars, podVars
<1>3. ASSUME NEW e \in Event, Request(e)
      PROVE  RuntimeTypeOK'
  BY <1>3 DEF Request, RuntimeTypeOK, clusterVars, podVars
<1>4. ASSUME ManagerRestarts
      PROVE  RuntimeTypeOK'
  <2>1. events' \subseteq Event
    BY <1>4, NewEvents DEF ManagerRestarts
  <2>2. /\ runtimes' \in [Names -> Runtime \cup {NoRuntime}] /\ inProgress' \subseteq Pods
        /\ loop' = "run" /\ scalers' \subseteq Models /\ UNCHANGED clusterVars
    BY <1>4 DEF ManagerRestarts
  <2>3. calls' \in [Calls -> Statuses]
    BY <1>4, Typed DEF ManagerRestarts, Statuses
  <2> QED
    BY <2>1, <2>2, <2>3 DEF RuntimeTypeOK, Statuses, clusterVars, podVars
<1> QED
  BY <1>1, <1>2, <1>3, <1>4 DEF Callers
-----------------------------------------------------------------------------
(***************************************************************************)
(* What the runtimes are, and that a ready one is served.                  *)
(***************************************************************************)
Well(m, rt) == (rt.lora <=> m \in Adapters) /\ (rt.ready => rt.addrs # {} /\ rt.waitChs = <<>>)

LEMMA AllWell == KindsAreKept /\ ReadyIsServed <=> \A m \in Names : Known(m) => Well(m, runtimes[m])
BY DEF KindsAreKept, ReadyIsServed, Well

\* A handler changes the runtime of one model at a time.
LEMMA OneChanges ==
  ASSUME KindsAreKept, ReadyIsServed, NEW m \in Names,
         \A n \in Names : n # m => runtimes'[n] = runtimes[n],
         runtimes'[m] # NoRuntime => Well(m, runtimes'[m])
  PROVE  (KindsAreKept /\ ReadyIsServed)'
BY DEF KindsAreKept, ReadyIsServed, Well, Known

LEMMA NoneChanges ==
  ASSUME KindsAreKept, ReadyIsServed, UNCHANGED runtimes
  PROVE  (KindsAreKept /\ ReadyIsServed)'
BY DEF KindsAreKept, ReadyIsServed, Known

LEMMA PullKeepsWell ==
  ASSUME RuntimeTypeOK, KindsAreKept, ReadyIsServed, NEW e \in events, ProcessPullModelEvent(e)
  PROVE  (KindsAreKept /\ ReadyIsServed)'
<1>1. /\ e.model \in Names /\ Names = Models \cup Adapters /\ Models \cap Adapters = {}
      /\ BaseOf \in [Adapters -> Models] /\ e.call \in Calls \cup {NoCall}
      /\ runtimes \in [Names -> Runtime \cup {NoRuntime}]
  BY EventsByType, RuntimeAssumption DEF RuntimeTypeOK, ProcessPullModelEvent, Names
<1>2. CASE PullIsReady(e) \/ PullHasFailed(e)
  BY <1>2, NoneChanges DEF PullIsReady, PullHasFailed
<1>3. CASE PullIsInProgress(e)
  <2>1. Known(e.model) /\ ~runtimes[e.model].ready /\ runtimes[e.model] \in Runtime
    BY <1>1, <1>3, Typed DEF PullIsInProgress
  <2>2. PICK chs : runtimes' = [runtimes EXCEPT ![e.model] = [@ EXCEPT !.waitChs = chs]]
    BY <1>3 DEF PullIsInProgress
  <2>3. runtimes'[e.model] = [runtimes[e.model] EXCEPT !.waitChs = chs]
        /\ \A n \in Names : n # e.model => runtimes'[n] = runtimes[n]
    BY <1>1, <2>2
  <2>4. Well(e.model, runtimes'[e.model])
    BY <1>1, <2>1, <2>3 DEF Well, KindsAreKept, Runtime
  <2> QED
    BY <1>1, <2>3, <2>4, OneChanges
<1>4. CASE PullNewModel(e)
  <2>1. /\ e.model \in Models /\ \A n \in Names : n # e.model => runtimes'[n] = runtimes[n]
        /\ runtimes'[e.model] = NewPending(FALSE, config[e.model], NewWaitChs(e.call))
    BY <1>1, <1>4 DEF PullNewModel
  <2>2. Well(e.model, runtimes'[e.model])
    <3> DEFINE new == NewPending(FALSE, config[e.model], NewWaitChs(e.call))
    <3>1. ~new.lora /\ ~new.ready
      BY DEF NewPending
    <3> HIDE DEF new
    <3>2. runtimes'[e.model] = new
      BY <2>1 DEF new
    <3> QED
      BY <1>1, <2>1, <3>1, <3>2 DEF Well
  <2> QED
    BY <1>1, <2>1, <2>2, OneChanges
<1>5. CASE PullNeedsBase(e)
  <2> DEFINE b == BaseOf[e.model]
             br == IF Known(b) THEN runtimes[b] ELSE NewPending(FALSE, config[b], <<>>)
  <2>1. /\ e.model \in Adapters /\ ~br.ready
        /\ runtimes' = [runtimes EXCEPT ![b] = [br EXCEPT !.pending = Append(@, e)]]
    BY <1>5 DEF PullNeedsBase
  <2>2. b \in Models /\ b \in Names /\ b \notin Adapters /\ config[b] \in Configs
    BY <1>1, <2>1, Typed
  <2>3. br \in Runtime /\ ~br.lora
    BY <1>1, <2>2, Typed, NewRuntimes DEF KindsAreKept, NewPending
  <2> HIDE DEF br, b
  <2>4. /\ \A n \in Names : n # b => runtimes'[n] = runtimes[n]
        /\ runtimes'[b] = [br EXCEPT !.pending = Append(@, e)]
    BY <1>1, <2>1, <2>2
  <2>5. Well(b, runtimes'[b])
    BY <2>1, <2>2, <2>3, <2>4 DEF Well, Runtime
  <2> QED
    BY <2>2, <2>4, <2>5, OneChanges
<1>6. CASE PullNewAdapter(e)
  <2>1. CASE UNCHANGED runtimes
    BY <2>1, NoneChanges
  <2>2. CASE runtimes' = [runtimes EXCEPT ![e.model] = NewPending(TRUE, NoConfig, NewWaitChs(e.call))]
    <3>1. /\ e.model \in Adapters /\ \A n \in Names : n # e.model => runtimes'[n] = runtimes[n]
          /\ runtimes'[e.model] = NewPending(TRUE, NoConfig, NewWaitChs(e.call))
      BY <1>1, <1>6, <2>2 DEF PullNewAdapter
    <3>2. Well(e.model, runtimes'[e.model])
      <4> DEFINE new == NewPending(TRUE, NoConfig, NewWaitChs(e.call))
      <4>1. new.lora /\ ~new.ready
        BY DEF NewPending
      <4> HIDE DEF new
      <4>2. runtimes'[e.model] = new
        BY <3>1 DEF new
      <4> QED
        BY <1>1, <3>1, <4>1, <4>2 DEF Well
    <3> QED
      BY <1>1, <3>1, <3>2, OneChanges
  <2> QED
    BY <1>6, <2>1, <2>2 DEF PullNewAdapter, Fails
<1> QED
  BY <1>2, <1>3, <1>4, <1>5, <1>6 DEF ProcessPullModelEvent

LEMMA DropKeepsWell ==
  ASSUME RuntimeTypeOK, KindsAreKept, ReadyIsServed, NEW m \in Names, Known(m), DropRuntime(m)
  PROVE  (KindsAreKept /\ ReadyIsServed)'
<1>1. runtimes[m] \in Runtime /\ Well(m, runtimes[m])
  BY Typed, AllWell
<1>2. /\ \A n \in Names : n # m => runtimes'[n] = runtimes[n]
      /\ runtimes'[m] \in {NoRuntime, [runtimes[m] EXCEPT !.pending = <<>>]}
  BY DropAnswers
<1>3. Well(m, [runtimes[m] EXCEPT !.pending = <<>>])
  BY <1>1 DEF Well, Runtime
<1> QED
  BY <1>2, <1>3, OneChanges

LEMMA CloseKeepsWell ==
  ASSUME RuntimeTypeOK, KindsAreKept, ReadyIsServed, NEW m \in Names, NEW rt \in Runtime,
         Well(m, rt), NEW reason \in Reasons, CloseWaitChs(m, rt, reason)
  PROVE  (KindsAreKept /\ ReadyIsServed)'
<1>1. Well(m, runtimes'[m])
  BY CloseAnswers DEF Well
<1> QED
  BY <1>1, CloseAnswers, OneChanges

LEMMA OtherHandlersKeepWell ==
  ASSUME RuntimeTypeOK, KindsAreKept, ReadyIsServed, NEW e \in events,
         \/ ProcessDeleteModelEvent(e) \/ ProcessUpdateModelEvent(e)
         \/ ProcessReconcileStatefulSetEvent(e) \/ ProcessReadinessCheckEvent(e)
         \/ ProcessLoRAAdapterPullStatusCheckEvent(e) \/ ProcessLoadLoRAAdapterEvent(e)
  PROVE  (KindsAreKept /\ ReadyIsServed)'
<1> DEFINE m == e.model
<1>1. /\ m \in Names /\ (e.type = "reconcile" => m \in Models)
      /\ runtimes \in [Names -> Runtime \cup {NoRuntime}]
      /\ Names = Models \cup Adapters /\ Models \cap Adapters = {}
  BY EventsByType, RuntimeAssumption
     DEF RuntimeTypeOK, ProcessDeleteModelEvent, ProcessUpdateModelEvent, Names,
         ProcessReconcileStatefulSetEvent, ProcessReadinessCheckEvent,
         ProcessLoRAAdapterPullStatusCheckEvent, ProcessLoadLoRAAdapterEvent
<1>2. CASE UNCHANGED runtimes
  BY <1>2, NoneChanges
<1>3. ASSUME Known(m)
      PROVE  runtimes[m] \in Runtime /\ Well(m, runtimes[m])
  BY <1>1, <1>3, Typed, AllWell
<1>4. ASSUME ProcessDeleteModelEvent(e)
      PROVE  UNCHANGED runtimes \/ (Known(m) /\ DropRuntime(m))
  BY <1>4 DEF ProcessDeleteModelEvent, DeleteAdapter, DeleteModelRuntime, Fails
<1>5. ASSUME ProcessUpdateModelEvent(e), ~UNCHANGED runtimes
      PROVE  (KindsAreKept /\ ReadyIsServed)'
  <2>1. /\ Known(m) /\ runtimes' = [runtimes EXCEPT ![m] = [@ EXCEPT !.mci = config[m]]]
    BY <1>5 DEF ProcessUpdateModelEvent, IsOutdated
  <2>2. Well(m, [runtimes[m] EXCEPT !.mci = config[m]])
    BY <1>3, <2>1 DEF Well, Runtime
  <2> HIDE DEF m
  <2>3. runtimes'[m] = [runtimes[m] EXCEPT !.mci = config[m]]
        /\ \A n \in Names : n # m => runtimes'[n] = runtimes[n]
    BY <1>1, <2>1
  <2> QED
    BY <1>1, <2>2, <2>3, OneChanges
<1>6. CASE ReconcileGone(e)
  BY <1>1, <1>2, <1>6, DropKeepsWell DEF ReconcileGone
<1>7. CASE e.type = "reconcile" /\ ReconcileFound(e)
  <2> DEFINE rt == Reconciled(m)
  <2>1. rt \in Runtime /\ Well(m, rt)
    <3>1. CASE Known(m)
      BY <1>3, <3>1 DEF Reconciled
    <3>2. CASE ~Known(m)
      <4>1. ~rt.ready /\ ~rt.lora
        BY <3>2 DEF Reconciled, NewPending
      <4>2. rt \in Runtime
        BY <1>1, <1>7, Typed, NewRuntimes DEF Reconciled
      <4> HIDE DEF rt
      <4> QED
        BY <1>1, <1>7, <4>1, <4>2 DEF Well
    <3> QED
      BY <3>1, <3>2
  <2>2. \/ runtimes' = [runtimes EXCEPT ![m] = [rt EXCEPT !.ready = (sts[m].phase # "zero")]] /\ rt.ready
        \/ CloseWaitChs(m, rt, "Unschedulable")
        \/ runtimes' = [runtimes EXCEPT ![m] = rt]
    BY <1>7 DEF ReconcileFound
  <2> HIDE DEF m, rt
  <2>3. CASE CloseWaitChs(m, rt, "Unschedulable")
    BY <1>1, <2>1, <2>3, CloseKeepsWell DEF Reasons
  <2>4. CASE runtimes' = [runtimes EXCEPT ![m] = rt]
    BY <1>1, <2>1, <2>4, OneChanges
  <2>5. CASE /\ runtimes' = [runtimes EXCEPT ![m] = [rt EXCEPT !.ready = (sts[m].phase # "zero")]]
             /\ rt.ready
    <3>1. Well(m, [rt EXCEPT !.ready = (sts[m].phase # "zero")])
      BY <2>1, <2>5 DEF Well, Runtime
    <3>2. runtimes'[m] = [rt EXCEPT !.ready = (sts[m].phase # "zero")]
          /\ \A n \in Names : n # m => runtimes'[n] = runtimes[n]
      BY <1>1, <2>5
    <3> QED
      BY <1>1, <3>1, <3>2, OneChanges
  <2> QED
    BY <2>2, <2>3, <2>4, <2>5
<1>8. CASE CheckPasses(e)
  <2> DEFINE rt == [BecomeReady(runtimes[m], e.addr) EXCEPT !.pending = <<>>]
  <2>1. Known(m) /\ CloseWaitChs(m, rt, "")
    BY <1>8 DEF CheckPasses
  <2>2. rt.ready /\ rt.addrs = {e.addr} /\ (rt.lora <=> m \in Adapters)
    BY <1>3, <2>1 DEF BecomeReady, Well, Runtime
  <2> HIDE DEF rt
  <2>3. runtimes' = [runtimes EXCEPT ![m] = [rt EXCEPT !.waitChs = <<>>, !.pending = <<>>, !.lastErr = ""]]
    BY <2>1 DEF CloseWaitChs, Blocks
  <2>4. /\ \A n \in Names : n # m => runtimes'[n] = runtimes[n]
        /\ runtimes'[m] = [rt EXCEPT !.waitChs = <<>>, !.pending = <<>>, !.lastErr = ""]
    BY <1>1, <2>3
  <2>5. Well(m, [rt EXCEPT !.waitChs = <<>>, !.pending = <<>>, !.lastErr = ""])
    <3>1. rt = [BecomeReady(runtimes[m], e.addr) EXCEPT !.pending = <<>>] /\ runtimes[m] \in Runtime
      BY <1>3, <2>1 DEF rt
    <3> QED
      BY <2>2, <3>1 DEF Well, Runtime, BecomeReady
  <2> QED
    BY <1>1, <2>4, <2>5, OneChanges
<1>9. CASE CheckFails(e)
  <2>1. Known(m) /\ CloseWaitChs(m, runtimes[m], "unreachable")
    BY <1>9 DEF CheckFails
  <2> QED
    BY <1>1, <1>3, <2>1, CloseKeepsWell DEF Reasons
<1> QED
  BY <1>1, <1>2, <1>4, <1>5, <1>6, <1>7, <1>8, <1>9, DropKeepsWell
     DEF ProcessReconcileStatefulSetEvent, ProcessReadinessCheckEvent, CheckIsMoot, CheckIsRetried,
         ProcessLoRAAdapterPullStatusCheckEvent, PullCheckFails, PullCheckAgain, PullCheckLoads,
         ProcessLoadLoRAAdapterEvent, Fails

\* An update leaves a runtime that is not ready alone, and drops none but ready
\* ones; only adapters are concerned.
LEMMA UpdatedRuntimes ==
  ASSUME RuntimeTypeOK, NEW e \in events, ProcessLoRAAdapterStatusUpdateEvent(e), ~Panics(e)
  PROVE  /\ \A m \in Models : runtimes'[m] = runtimes[m]
         /\ \A m \in Names : Known(m) /\ ~runtimes[m].ready => runtimes'[m] = runtimes[m]
         /\ \A m \in Names : runtimes'[m] # NoRuntime /\ ~runtimes'[m].ready => runtimes'[m] = runtimes[m]
         /\ \A m \in Names : Known(m) => \/ runtimes'[m] \in {runtimes[m], NoRuntime}
                                         \/ \E A \in SUBSET Addr :
                                              /\ runtimes'[m] = [runtimes[m] EXCEPT !.addrs = A]
                                              /\ A # {}
         /\ \A m \in Names : ~Known(m) =>
              \/ runtimes'[m] = NoRuntime
              \/ m \in Adapters /\ runtimes'[m] = BecomeReady(NewPending(TRUE, NoConfig, <<>>), e.addr)
<1>1. /\ e.addr \in Addr /\ e.added \subseteq Adapters /\ e.removed \subseteq Adapters
      /\ Names = Models \cup Adapters /\ Models \cap Adapters = {}
  BY EventsByType, RuntimeAssumption DEF RuntimeTypeOK, ProcessLoRAAdapterStatusUpdateEvent, Names
<1>2. runtimes' = [m \in Names |->
              CASE m \in RemovedRuntimes(e) -> NoRuntime
                [] m \in e.removed /\ Known(m) /\ m \notin RemovedRuntimes(e)
                     -> [runtimes[m] EXCEPT !.addrs = @ \ {e.addr}]
                [] m \in e.added \ e.removed -> AfterAdd(m, e.addr)
                [] OTHER -> runtimes[m]]
  BY DEF ProcessLoRAAdapterStatusUpdateEvent
<1>3. \A m \in Names : m \notin e.removed /\ m \notin e.added => runtimes'[m] = runtimes[m]
  BY <1>2 DEF RemovedRuntimes
<1>4. \A m \in e.removed : Known(m) => runtimes[m].ready
  BY DEF Panics
<1>5. ASSUME NEW m \in Names, m \in e.removed, Known(m)
      PROVE  \/ runtimes'[m] = NoRuntime
             \/ \E A \in SUBSET Addr : /\ runtimes'[m] = [runtimes[m] EXCEPT !.addrs = A]
                                       /\ A # {}
  <2>1. runtimes[m] \in Runtime
    BY <1>5, Typed
  <2>2. CASE m \in RemovedRuntimes(e)
    BY <1>2, <1>5, <2>2
  <2>3. CASE m \notin RemovedRuntimes(e)
    <3>1. runtimes'[m] = [runtimes[m] EXCEPT !.addrs = @ \ {e.addr}]
      BY <1>2, <1>5, <2>3
    <3>2. runtimes[m].addrs \ {e.addr} # {} /\ runtimes[m].addrs \ {e.addr} \in SUBSET Addr
      BY <1>5, <2>1, <2>3 DEF RemovedRuntimes, Runtime
    <3> QED
      BY <3>1, <3>2
  <2> QED
    BY <2>2, <2>3
<1>6. ASSUME NEW m \in Names, m \notin e.removed, m \in e.added
      PROVE  runtimes'[m] = AfterAdd(m, e.addr)
  BY <1>2, <1>6 DEF RemovedRuntimes
<1>7. ASSUME NEW m \in Names, m \in e.removed, ~Known(m)
      PROVE  runtimes'[m] = NoRuntime
  BY <1>2, <1>7 DEF RemovedRuntimes, Known
<1>8. ASSUME NEW m \in Names, Known(m), ~runtimes[m].ready
      PROVE  runtimes'[m] = runtimes[m]
  BY <1>3, <1>4, <1>6, <1>8 DEF AfterAdd
<1>9. ASSUME NEW m \in Names, Known(m), runtimes[m].ready, m \notin e.removed
      PROVE  \/ runtimes'[m] = runtimes[m]
             \/ \E A \in SUBSET Addr : /\ runtimes'[m] = [runtimes[m] EXCEPT !.addrs = A]
                                       /\ A # {}
  <2>1. CASE m \notin e.added
    BY <1>3, <1>9, <2>1
  <2>2. CASE m \in e.added
    <3>1. runtimes'[m] = [runtimes[m] EXCEPT !.addrs = @ \cup {e.addr}]
      BY <1>6, <1>9, <2>2 DEF AfterAdd
    <3>2. /\ runtimes[m].addrs \cup {e.addr} # {}
          /\ runtimes[m].addrs \cup {e.addr} \in SUBSET Addr
      BY <1>1, <1>9, Typed DEF Runtime
    <3> QED
      BY <3>1, <3>2
  <2> QED
    BY <2>1, <2>2
<1>10. ASSUME NEW m \in Names, ~Known(m)
       PROVE  \/ runtimes'[m] = NoRuntime
              \/ /\ m \in Adapters
                 /\ runtimes'[m] = BecomeReady(NewPending(TRUE, NoConfig, <<>>), e.addr)
  BY <1>1, <1>3, <1>6, <1>7, <1>10 DEF AfterAdd, Known
<1>11. ASSUME NEW m \in Names, Known(m)
       PROVE  \/ runtimes'[m] \in {runtimes[m], NoRuntime}
              \/ \E A \in SUBSET Addr : /\ runtimes'[m] = [runtimes[m] EXCEPT !.addrs = A]
                                        /\ A # {}
  BY <1>5, <1>8, <1>9, <1>11
<1>12. ASSUME NEW m \in Names, runtimes'[m] # NoRuntime, ~runtimes'[m].ready
       PROVE  runtimes'[m] = runtimes[m]
  <2>1. CASE Known(m)
    <3>1. CASE runtimes[m].ready
      <4>1. runtimes[m] \in Runtime
        BY <2>1, Typed
      <4> QED
        BY <1>11, <1>12, <2>1, <3>1, <4>1 DEF Runtime
    <3> QED
      BY <1>8, <2>1, <3>1
  <2>2. CASE ~Known(m)
    BY <1>10, <1>12, <2>2 DEF BecomeReady, NewPending
  <2> QED
    BY <2>1, <2>2
<1>13. \A m \in Models : m \in Names /\ m \notin e.removed /\ m \notin e.added
  BY <1>1
<1> QED
  BY <1>3, <1>8, <1>10, <1>11, <1>12, <1>13

LEMMA HandlersKeepWell ==
  ASSUME RuntimeTypeOK, KindsAreKept, ReadyIsServed, NEW e, RunStateMachine(e)
  PROVE  (KindsAreKept /\ ReadyIsServed)'
<1>1. e \in events
  BY DEF RunStateMachine
<1>2. ASSUME ProcessLoRAAdapterStatusUpdateEvent(e)
      PROVE  (KindsAreKept /\ ReadyIsServed)'
  <2>1. CASE Panics(e)
    BY <1>2, <2>1, NoneChanges DEF ProcessLoRAAdapterStatusUpdateEvent
  <2>2. CASE ~Panics(e)
    <3>1. ASSUME NEW m \in Names, runtimes'[m] # NoRuntime, Known(m)
          PROVE  Well(m, runtimes'[m])
      <4>1. Well(m, runtimes[m]) /\ runtimes[m] \in Runtime
        BY <3>1, Typed, AllWell
      <4> QED
        BY <1>1, <1>2, <2>2, <3>1, <4>1, UpdatedRuntimes DEF Well, Runtime
    <3>2. ASSUME NEW m \in Names, runtimes'[m] # NoRuntime, ~Known(m)
          PROVE  Well(m, runtimes'[m])
      <4> DEFINE new == BecomeReady(NewPending(TRUE, NoConfig, <<>>), e.addr)
      <4>1. m \in Adapters /\ runtimes'[m] = new
        BY <1>1, <1>2, <2>2, <3>2, UpdatedRuntimes
      <4>2. new.lora /\ new.addrs # {} /\ new.waitChs = <<>>
        BY DEF BecomeReady, NewPending
      <4> HIDE DEF new
      <4> QED
        BY <4>1, <4>2 DEF Well
    <3> QED
      BY <3>1, <3>2 DEF KindsAreKept, ReadyIsServed, Well, Known
  <2> QED
    BY <2>1, <2>2
<1> QED
  BY <1>1, <1>2, PullKeepsWell, OtherHandlersKeepWell DEF RunStateMachine

LEMMA ClientsKeepWell ==
  ASSUME KindsAreKept, ReadyIsServed,
         Cluster \/ Callers \/ ManagerRestarts \/ \E e \in Event : Request(e)
  PROVE  (KindsAreKept /\ ReadyIsServed)'
<1>1. CASE ManagerRestarts
  BY <1>1 DEF ManagerRestarts, KindsAreKept, ReadyIsServed, Known
<1>2. CASE Cluster \/ Callers \/ \E e \in Event : Request(e)
  <2>1. UNCHANGED runtimes
    BY <1>2 DEF Cluster, Callers, Request, StsProgress, StsDisturbed, StsPhase, ConfigChanges,
                PodStarts, PodStops, CallerLeaves, PullModel, managerVars
  <2> QED
    BY <2>1, NoneChanges
<1> QED
  BY <1>1, <1>2
-----------------------------------------------------------------------------
(***************************************************************************)
(* The events of a handler: what it sends, and that it takes none but its  *)
(* own.                                                                    *)
(***************************************************************************)
LEMMA PullTypes == \A x \in PullEvents : x.type = "pull"
BY DEF PullEvents, PullEvent

LEMMA HandlersSend ==
  ASSUME RuntimeTypeOK, KindsAreKept, NEW e, RunStateMachine(e)
  PROVE  /\ e \in events
         /\ \A x \in events : x # e => x \in events'
         /\ \A x \in events' : x \in events \/ x.type # "pullStatus" \/ x.addr.pod \in up
<1>1. e \in events /\ e \in Event
  BY DEF RunStateMachine, RuntimeTypeOK
<1> USE DEF PullEvent, ReconcileEvent, ReadinessEvent, DeleteEvent, StatusUpdateEvent
<1>2. ASSUME ProcessPullModelEvent(e)
      PROVE  /\ \A x \in events : x # e => x \in events'
             /\ \A x \in events' : x \in events \/ x.type # "pullStatus" \/ x.addr.pod \in up
  <2>1. CASE PullNewAdapter(e)
    <3>1. \/ UNCHANGED events
          \/ \E p \in up : events' = (events \ {e}) \cup {PullStatusEvent(e.model, PodAddr(p), "none")}
      BY <2>1 DEF PullNewAdapter, Fails
    <3>2. \A p \in up : PullStatusEvent(e.model, PodAddr(p), "none").addr.pod = p
      BY DEF PullStatusEvent, PodAddr
    <3> QED
      BY <3>1, <3>2
  <2>2. CASE PullNewModel(e) \/ PullNeedsBase(e)
    <3>1. PICK m : \/ events' = events \ {e}
                   \/ events' = (events \ {e}) \cup {ReconcileEvent(m)}
      BY <2>2 DEF PullNewModel, PullNeedsBase
    <3> QED
      BY <3>1
  <2>3. CASE PullIsReady(e) \/ PullHasFailed(e) \/ PullIsInProgress(e)
    BY <2>3 DEF PullIsReady, PullHasFailed, PullIsInProgress
  <2> QED
    BY <1>2, <2>1, <2>2, <2>3 DEF ProcessPullModelEvent
<1>3. ASSUME NEW m \in Names, Known(m)
      PROVE  \A x \in Requeued(m) : x.type # "pullStatus"
  BY <1>3, Typed, PullTypes DEF Requeued
<1>4. ASSUME ProcessDeleteModelEvent(e)
      PROVE  /\ \A x \in events : x # e => x \in events'
             /\ \A x \in events' : x \in events \/ x.type # "pullStatus" \/ x.addr.pod \in up
  <2>1. e.model \in Names
    BY <1>1, <1>4, EventsByType DEF ProcessDeleteModelEvent
  <2>2. CASE DeleteAdapter(e)
    <3>1. Known(e.model)
      BY <2>2 DEF DeleteAdapter
    <3>2. UNCHANGED events \/ events' = (events \ {e}) \cup Requeued(e.model)
      BY <2>2 DEF DeleteAdapter, Fails
    <3> QED
      BY <1>3, <2>1, <3>1, <3>2
  <2> QED
    BY <1>4, <2>2 DEF ProcessDeleteModelEvent, DeleteModelRuntime
<1>5. ASSUME ProcessUpdateModelEvent(e)
      PROVE  /\ \A x \in events : x # e => x \in events'
             /\ \A x \in events' : x \in events \/ x.type # "pullStatus" \/ x.addr.pod \in up
  BY <1>5 DEF ProcessUpdateModelEvent
<1>6. ASSUME ProcessReconcileStatefulSetEvent(e)
      PROVE  /\ \A x \in events : x # e => x \in events'
             /\ \A x \in events' : x \in events \/ x.type # "pullStatus" \/ x.addr.pod \in up
  <2>1. e.model \in Names
    BY <1>1, <1>6, EventsByType DEF ProcessReconcileStatefulSetEvent, Names
  <2>2. CASE ReconcileGone(e)
    BY <1>3, <2>1, <2>2 DEF ReconcileGone
  <2> QED
    BY <1>6, <2>2 DEF ProcessReconcileStatefulSetEvent, ReconcileFound
<1>7. ASSUME ProcessReadinessCheckEvent(e)
      PROVE  /\ \A x \in events : x # e => x \in events'
             /\ \A x \in events' : x \in events \/ x.type # "pullStatus" \/ x.addr.pod \in up
  <2>1. e.model \in Names
    BY <1>1, <1>7, EventsByType DEF ProcessReadinessCheckEvent
  <2>2. CASE CheckPasses(e)
    BY <1>3, <2>1, <2>2 DEF CheckPasses
  <2> QED
    BY <1>7, <2>2 DEF ProcessReadinessCheckEvent, CheckIsMoot, CheckIsRetried, RetryOf, CheckFails
<1>8. ASSUME ProcessLoRAAdapterPullStatusCheckEvent(e)
      PROVE  /\ \A x \in events : x # e => x \in events'
             /\ \A x \in events' : x \in events \/ x.type # "pullStatus" \/ x.addr.pod \in up
  BY <1>8 DEF ProcessLoRAAdapterPullStatusCheckEvent, PullCheckFails, PullCheckAgain, PullCheckLoads
<1>9. ASSUME ProcessLoRAAdapterStatusUpdateEvent(e)
      PROVE  /\ \A x \in events : x # e => x \in events'
             /\ \A x \in events' : x \in events \/ x.type # "pullStatus" \/ x.addr.pod \in up
  <2>1. events' \subseteq events \cup {StatusUpdateEvent(e.addr, NeedRetry(e), {}, e.waiter)}
        /\ \A x \in events : x # e => x \in events'
    BY <1>9 DEF ProcessLoRAAdapterStatusUpdateEvent
  <2> QED
    BY <2>1
<1>10. ASSUME ProcessLoadLoRAAdapterEvent(e)
       PROVE  /\ \A x \in events : x # e => x \in events'
              /\ \A x \in events' : x \in events \/ x.type # "pullStatus" \/ x.addr.pod \in up
  <2>1. \/ UNCHANGED events
        \/ Lives(e.addr) /\ events' = (events \ {e}) \cup {PullStatusEvent(e.model, e.addr, "rebalancer")}
    BY <1>10 DEF ProcessLoadLoRAAdapterEvent, Fails
  <2>2. Lives(e.addr) => e.addr.pod \in up
    BY DEF Lives
  <2>3. PullStatusEvent(e.model, e.addr, "rebalancer").addr = e.addr
    BY DEF PullStatusEvent
  <2> QED
    BY <2>1, <2>2, <2>3
<1> QED
  BY <1>1, <1>2, <1>4, <1>5, <1>6, <1>7, <1>8, <1>9, <1>10 DEF RunStateMachine

LEMMA HandlersKeepPods ==
  ASSUME RuntimeTypeOK, KindsAreKept, PullsAreOfPods, NEW e, RunStateMachine(e)
  PROVE  PullsAreOfPods'
<1>1. up \subseteq Pods
  BY DEF RuntimeTypeOK
<1> QED
  BY <1>1, HandlersSend DEF PullsAreOfPods

LEMMA ClientsKeepPods ==
  ASSUME PullsAreOfPods,
         Cluster \/ Callers \/ ManagerRestarts \/ \E e : e.type # "pullStatus" /\ Request(e)
  PROVE  PullsAreOfPods'
<1>1. \A x \in events' : x \in events \/ x.type # "pullStatus"
  BY DEF Cluster, Callers, ManagerRestarts, Request, StsProgress, StsDisturbed, StsPhase,
         ConfigChanges, PodStarts, PodStops, CallerLeaves, PullModel, managerVars,
         ReconcileEvent, PullEvent
<1> QED
  BY <1>1 DEF PullsAreOfPods
-----------------------------------------------------------------------------
(***************************************************************************)
(* The autoscaler.                                                         *)
(***************************************************************************)
\* A call that joins the waiters of a runtime.
LEMMA Joined ==
  ASSUME RuntimeTypeOK, NEW e \in events, e.type = "pull", PullIsInProgress(e)
  PROVE  /\ e.model \in Names /\ \A n \in Names : n # e.model => runtimes'[n] = runtimes[n]
         /\ runtimes'[e.model] \in Runtime /\ ~runtimes'[e.model].ready
         /\ runtimes'[e.model].pending = runtimes[e.model].pending
         /\ runtimes'[e.model].waitChs =
              IF e.call = NoCall THEN runtimes[e.model].waitChs
              ELSE Append(runtimes[e.model].waitChs, e.call)
<1> DEFINE m == e.model
           rt == runtimes[m]
           chs == IF e.call = NoCall THEN rt.waitChs ELSE Append(rt.waitChs, e.call)
<1>1. m \in Names /\ e.call \in Calls \cup {NoCall}
  BY EventsByType DEF RuntimeTypeOK
<1>2. runtimes \in [Names -> Runtime \cup {NoRuntime}] /\ rt \in Runtime /\ ~rt.ready
  BY <1>1, Typed DEF PullIsInProgress
<1>3. runtimes' = [runtimes EXCEPT ![m] = [rt EXCEPT !.waitChs = chs]]
  BY DEF PullIsInProgress
<1>4. rt.waitChs \in Seq(Calls)
  BY <1>2 DEF Runtime
<1>5. chs \in Seq(Calls)
  BY <1>1, <1>4
<1> HIDE DEF chs, rt
<1>6. /\ [rt EXCEPT !.waitChs = chs] \in Runtime /\ ~[rt EXCEPT !.waitChs = chs].ready
      /\ [rt EXCEPT !.waitChs = chs].pending = rt.pending
      /\ [rt EXCEPT !.waitChs = chs].waitChs = chs
  BY <1>2, <1>5 DEF Runtime
<1>7. runtimes'[m] = [rt EXCEPT !.waitChs = chs] /\ \A n \in Names : n # m => runtimes'[n] = runtimes[n]
  BY <1>1, <1>2, <1>3
<1> QED
  BY <1>1, <1>6, <1>7 DEF chs, rt

\* A handler that neither makes nor drops the runtime of a base model.
LEMMA SameScalers ==
  ASSUME RuntimeIsAutoscaled, ~HasExited, UNCHANGED scalers,
         \A m \in Models : Known(m) <=> runtimes'[m] # NoRuntime
  PROVE  RuntimeIsAutoscaled'
BY DEF RuntimeIsAutoscaled, Known

LEMMA HandlersKeepScalers ==
  ASSUME RuntimeTypeOK, KindsAreKept, RuntimeIsAutoscaled, NEW e, RunStateMachine(e)
  PROVE  RuntimeIsAutoscaled'
<1>1. /\ e \in events /\ e \in Event /\ ~HasExited /\ loop = "run"
      /\ scalers = {m \in Models : Known(m)}
      /\ runtimes \in [Names -> Runtime \cup {NoRuntime}]
      /\ Names = Models \cup Adapters /\ Models \cap Adapters = {}
      /\ BaseOf \in [Adapters -> Models]
  BY RuntimeAssumption DEF RunStateMachine, HasExited, RuntimeTypeOK, RuntimeIsAutoscaled, Names
<1>2. CASE UNCHANGED <<runtimes, scalers>>
  BY <1>1, <1>2, SameScalers DEF Known
<1>3. CASE ProcessPullModelEvent(e)
  <2>1. e.model \in Names /\ e.call \in Calls \cup {NoCall}
    BY <1>1, <1>3, EventsByType DEF ProcessPullModelEvent
  <2>2. CASE PullIsReady(e) \/ PullHasFailed(e)
    BY <1>2, <2>2 DEF PullIsReady, PullHasFailed
  <2>3. CASE PullIsInProgress(e)
    <3>1. e.type = "pull" /\ Known(e.model) /\ UNCHANGED scalers
      BY <1>3, <2>3 DEF ProcessPullModelEvent, PullIsInProgress
    <3> QED
      BY <1>1, <2>3, <3>1, Joined, SameScalers, NoRuntimeAssumption DEF Known
  <2>4. CASE PullNewModel(e)
    <3>1. /\ e.model \in Models /\ scalers' = scalers \cup {e.model} /\ UNCHANGED loop
          /\ runtimes' = [runtimes EXCEPT ![e.model] = NewPending(FALSE, config[e.model], NewWaitChs(e.call))]
      BY <2>4 DEF PullNewModel, Deploy
    <3>2. NewPending(FALSE, config[e.model], NewWaitChs(e.call)) \in Runtime
      <4>1. config[e.model] \in Configs \cup {NoConfig}
        BY <3>1, Typed
      <4> QED
        BY <2>1, <4>1, NewRuntimes
    <3> QED
      BY <1>1, <3>1, <3>2, NoRuntimeAssumption DEF RuntimeIsAutoscaled, Known
  <2>5. CASE PullNeedsBase(e)
    <3> DEFINE b == BaseOf[e.model]
               br == IF Known(b) THEN runtimes[b] ELSE NewPending(FALSE, config[b], <<>>)
    <3>1. /\ e.model \in Adapters /\ UNCHANGED loop
          /\ runtimes' = [runtimes EXCEPT ![b] = [br EXCEPT !.pending = Append(@, e)]]
          /\ scalers' = IF Known(b) THEN scalers ELSE scalers \cup {b}
      BY <2>5 DEF PullNeedsBase, Deploy
    <3>2. b \in Models /\ b \in Names /\ config[b] \in Configs
      BY <1>1, <3>1, Typed
    <3>3. br \in Runtime
      BY <3>2, Typed, NewRuntimes
    <3>4. e \in PullEvents
      BY <1>1, <1>3, EventsByType DEF ProcessPullModelEvent
    <3> HIDE DEF b, br
    <3>5. [br EXCEPT !.pending = Append(@, e)] # NoRuntime
      BY <3>3, <3>4, RuntimeUpdates, NoRuntimeAssumption
    <3> QED
      BY <1>1, <3>1, <3>2, <3>5 DEF RuntimeIsAutoscaled, Known
  <2>6. CASE PullNewAdapter(e)
    <3>1. /\ e.model \in Adapters /\ UNCHANGED scalers
          /\ \A n \in Names : n # e.model => runtimes'[n] = runtimes[n]
      BY <1>1, <2>6 DEF PullNewAdapter, Fails
    <3> QED
      BY <1>1, <3>1, SameScalers DEF Known
  <2> QED
    BY <1>3, <2>2, <2>3, <2>4, <2>5, <2>6 DEF ProcessPullModelEvent
<1>4. CASE ProcessDeleteModelEvent(e)
  <2>1. CASE DeleteAdapter(e)
    <3>1. e.model \in Adapters /\ e.model \in Names /\ UNCHANGED scalers /\ Known(e.model)
      BY <1>1, <1>4, <2>1, EventsByType DEF ProcessDeleteModelEvent, DeleteAdapter, KindsAreKept, Fails
    <3>2. \A n \in Names : n # e.model => runtimes'[n] = runtimes[n]
      BY <2>1, <3>1, DropAnswers DEF DeleteAdapter, Fails
    <3> QED
      BY <1>1, <3>1, <3>2, SameScalers DEF Known
  <2> QED
    BY <1>2, <1>4, <2>1 DEF ProcessDeleteModelEvent, DeleteModelRuntime
<1>5. CASE ProcessUpdateModelEvent(e)
  <2>1. e.model \in Names /\ UNCHANGED scalers
    BY <1>1, <1>5, EventsByType DEF ProcessUpdateModelEvent
  <2>2. CASE e.model \in Models /\ IsOutdated(e.model)
    <3>1. /\ runtimes' = [runtimes EXCEPT ![e.model] = [@ EXCEPT !.mci = config[e.model]]]
          /\ Known(e.model)
      BY <1>5, <2>2 DEF ProcessUpdateModelEvent, IsOutdated
    <3>2. [runtimes[e.model] EXCEPT !.mci = config[e.model]] \in Runtime
      <4>1. runtimes[e.model] \in Runtime /\ config[e.model] \in Configs \cup {NoConfig}
        BY <2>1, <2>2, <3>1, Typed
      <4> QED
        BY <4>1, RuntimeUpdates
    <3> QED
      BY <1>1, <2>1, <3>1, <3>2, SameScalers, NoRuntimeAssumption DEF Known
  <2>3. CASE ~(e.model \in Models /\ IsOutdated(e.model))
    BY <1>2, <1>5, <2>3 DEF ProcessUpdateModelEvent
  <2> QED
    BY <2>2, <2>3
<1>6. CASE ProcessReconcileStatefulSetEvent(e)
  <2> DEFINE m == e.model
             rt == Reconciled(m)
  <2>1. m \in Models /\ m \in Names
    BY <1>1, <1>6, EventsByType DEF ProcessReconcileStatefulSetEvent
  <2>2. CASE ReconcileGone(e) /\ Known(m)
    <3>1. DropRuntime(m) /\ scalers' = IF loop' = "stuck" THEN scalers ELSE scalers \ {m}
      BY <2>2 DEF ReconcileGone
    <3>2. /\ \A n \in Names : n # m => runtimes'[n] = runtimes[n]
          /\ \/ loop' = "run" /\ runtimes'[m] = NoRuntime
             \/ loop' = "stuck" /\ runtimes'[m] # NoRuntime
      BY <1>1, <2>1, <2>2, <3>1, DropAnswers, NoRuntimeAssumption
    <3> HIDE DEF m
    <3> QED
      BY <1>1, <2>1, <2>2, <3>1, <3>2 DEF RuntimeIsAutoscaled, Known
  <2>3. CASE ReconcileGone(e) /\ ~Known(m)
    <3>1. UNCHANGED runtimes /\ scalers' = scalers \ {m}
      BY <1>1, <2>3 DEF ReconcileGone
    <3> QED
      BY <1>1, <1>2, <2>3, <3>1
  <2>4. CASE ReconcileFound(e)
    <3>1. rt \in Runtime
      BY <1>1, <2>1, Typed, NewRuntimes DEF Reconciled
    <3>2. /\ scalers' = IF Known(m) THEN scalers ELSE scalers \cup {m}
          /\ \/ runtimes' = [runtimes EXCEPT ![m] = [rt EXCEPT !.ready = (sts[m].phase # "zero")]]
             \/ CloseWaitChs(m, rt, "Unschedulable")
             \/ runtimes' = [runtimes EXCEPT ![m] = rt]
      BY <2>4 DEF ReconcileFound
    <3> HIDE DEF m, rt
    <3>3. /\ \A n \in Names : n # m => runtimes'[n] = runtimes[n]
          /\ runtimes'[m] \in Runtime
      <4>1. CASE CloseWaitChs(m, rt, "Unschedulable")
        BY <2>1, <3>1, <4>1, CloseAnswers DEF Reasons
      <4>2. [rt EXCEPT !.ready = (sts[m].phase # "zero")] \in Runtime
        BY <3>1, RuntimeUpdates
      <4> QED
        BY <1>1, <2>1, <3>1, <3>2, <4>1, <4>2
    <3> QED
      BY <1>1, <2>1, <3>2, <3>3, NoRuntimeAssumption DEF RuntimeIsAutoscaled, Known
  <2> QED
    BY <1>6, <2>2, <2>3, <2>4 DEF ProcessReconcileStatefulSetEvent
<1>7. CASE ProcessReadinessCheckEvent(e)
  <2> DEFINE m == e.model
             rt == [BecomeReady(runtimes[m], e.addr) EXCEPT !.pending = <<>>]
  <2>1. m \in Names /\ UNCHANGED scalers /\ e.addr \in Addr
    BY <1>1, <1>7, EventsByType
       DEF ProcessReadinessCheckEvent, CheckIsMoot, CheckPasses, CheckIsRetried, CheckFails
  <2>2. CASE UNCHANGED runtimes
    BY <1>2, <2>1, <2>2
  <2>3. ASSUME Known(m), \E rt1 \in Runtime, reason \in Reasons : CloseWaitChs(m, rt1, reason)
        PROVE  RuntimeIsAutoscaled'
    <3>1. runtimes'[m] \in Runtime /\ \A n \in Names : n # m => runtimes'[n] = runtimes[n]
      BY <2>1, <2>3, CloseAnswers
    <3> HIDE DEF m
    <3> QED
      BY <1>1, <2>1, <2>3, <3>1, SameScalers, NoRuntimeAssumption DEF Known
  <2>4. CASE CheckPasses(e)
    <3>1. Known(m) /\ CloseWaitChs(m, rt, "")
      BY <2>4 DEF CheckPasses
    <3>2. rt \in Runtime
      BY <2>1, <3>1, Typed, RuntimeUpdates
    <3> QED
      BY <2>3, <3>1, <3>2 DEF Reasons
  <2>5. CASE CheckFails(e)
    <3>1. Known(m) /\ CloseWaitChs(m, runtimes[m], "unreachable")
      BY <2>5 DEF CheckFails
    <3> QED
      BY <2>1, <2>3, <3>1, Typed DEF Reasons
  <2> QED
    BY <1>7, <2>2, <2>4, <2>5 DEF ProcessReadinessCheckEvent, CheckIsMoot, CheckIsRetried
<1>8. CASE ProcessLoRAAdapterPullStatusCheckEvent(e) \/ ProcessLoadLoRAAdapterEvent(e)
  BY <1>2, <1>8 DEF ProcessLoRAAdapterPullStatusCheckEvent, PullCheckFails, PullCheckAgain,
                    PullCheckLoads, ProcessLoadLoRAAdapterEvent, Fails
<1>9. CASE ProcessLoRAAdapterStatusUpdateEvent(e)
  <2>1. UNCHANGED scalers
    BY <1>9 DEF ProcessLoRAAdapterStatusUpdateEvent
  <2>2. CASE Panics(e)
    BY <1>2, <1>9, <2>1, <2>2 DEF ProcessLoRAAdapterStatusUpdateEvent
  <2>3. CASE ~Panics(e)
    BY <1>1, <1>9, <2>1, <2>3, UpdatedRuntimes, SameScalers DEF Known
  <2> QED
    BY <2>2, <2>3
<1> QED
  BY <1>3, <1>4, <1>5, <1>6, <1>7, <1>8, <1>9 DEF RunStateMachine

LEMMA ClientsKeepScalers ==
  ASSUME RuntimeIsAutoscaled,
         Cluster \/ Callers \/ ManagerRestarts \/ \E e \in Event : Request(e)
  PROVE  RuntimeIsAutoscaled'
<1>1. CASE ManagerRestarts
  BY <1>1, RuntimeAssumption DEF ManagerRestarts, RuntimeIsAutoscaled, Known, Names
<1>2. CASE Cluster \/ Callers \/ \E e \in Event : Request(e)
  <2>1. UNCHANGED <<runtimes, scalers, loop>>
    BY <1>2 DEF Cluster, Callers, Request, StsProgress, StsDisturbed, StsPhase, ConfigChanges,
                PodStarts, PodStops, CallerLeaves, PullModel, managerVars
  <2> QED
    BY <2>1 DEF RuntimeIsAutoscaled, Known, HasExited
<1> QED
  BY <1>1, <1>2
-----------------------------------------------------------------------------
(***************************************************************************)
(* Those who wait.                                                         *)
(***************************************************************************)
LEMMA MoreWaiters ==
  ASSUME NEW rt \in Runtime, NEW new \in Runtime, NEW c \in Calls, NEW k \in Calls
  PROVE  /\ new.pending = rt.pending /\ new.waitChs = Append(rt.waitChs, k)
              /\ (c = k \/ c \in ToSet(WaitersOf(rt))) => c \in ToSet(WaitersOf(new))
         /\ new.pending = rt.pending /\ new.waitChs = rt.waitChs
              /\ c \in ToSet(WaitersOf(rt)) => c \in ToSet(WaitersOf(new))
<1>1. ASSUME new.waitChs = Append(rt.waitChs, k)
      PROVE  \A x \in Calls : x = k \/ x \in ToSet(rt.waitChs) => x \in ToSet(new.waitChs)
  <2>1. rt.waitChs \in Seq(Calls)
    BY DEF Runtime
  <2>2. /\ DOMAIN rt.waitChs = 1..Len(rt.waitChs) /\ Len(rt.waitChs) \in Nat
        /\ DOMAIN new.waitChs = 1..(Len(rt.waitChs) + 1)
        /\ new.waitChs[Len(rt.waitChs) + 1] = k
        /\ \A i \in 1..Len(rt.waitChs) : new.waitChs[i] = rt.waitChs[i]
    BY <1>1, <2>1
  <2>3. /\ Len(rt.waitChs) + 1 \in DOMAIN new.waitChs
        /\ \A i \in DOMAIN rt.waitChs : i \in DOMAIN new.waitChs
    BY <2>2
  <2> QED
    BY <2>2, <2>3 DEF ToSet
<1> QED
  BY <1>1, WaitersAre

LEMMA MorePending ==
  ASSUME NEW rt \in Runtime, NEW e \in PullEvents, NEW c \in Calls,
         c = e.call \/ c \in ToSet(WaitersOf(rt))
  PROVE  c \in ToSet(WaitersOf([rt EXCEPT !.pending = Append(@, e)]))
<1> DEFINE new == [rt EXCEPT !.pending = Append(@, e)]
<1>1. rt.pending \in Seq(PullEvents)
  BY DEF Runtime
<1>2. new \in Runtime /\ new.waitChs = rt.waitChs /\ new.pending = Append(rt.pending, e)
  BY RuntimeUpdates DEF Runtime
<1> HIDE DEF new
<1>3. /\ DOMAIN rt.pending = 1..Len(rt.pending) /\ Len(rt.pending) \in Nat
      /\ DOMAIN new.pending = 1..(Len(rt.pending) + 1)
      /\ new.pending[Len(rt.pending) + 1] = e
      /\ \A i \in 1..Len(rt.pending) : new.pending[i] = rt.pending[i]
  BY <1>1, <1>2
<1>4. /\ Len(rt.pending) + 1 \in DOMAIN new.pending
      /\ \A i \in DOMAIN rt.pending : i \in DOMAIN new.pending /\ new.pending[i] = rt.pending[i]
  BY <1>3
<1>5. \A x \in Calls : x \in ToSet(WaitersOf(new)) <=>
        x \in ToSet(new.waitChs) \/ \E i \in DOMAIN new.pending : new.pending[i].call = x
  BY <1>2, WaitersAre
<1>6. ASSUME c = e.call
      PROVE  c \in ToSet(WaitersOf(new))
  <2>1. \E i \in DOMAIN new.pending : new.pending[i].call = c
    BY <1>3, <1>4, <1>6
  <2> QED
    BY <1>5, <2>1
<1>7. ASSUME c \in ToSet(WaitersOf(rt))
      PROVE  c \in ToSet(WaitersOf(new))
  <2>1. c \in ToSet(new.waitChs) \/ \E i \in DOMAIN new.pending : new.pending[i].call = c
    BY <1>2, <1>4, <1>7, WaitersAre
  <2> QED
    BY <1>5, <2>1
<1> QED
  BY <1>6, <1>7 DEF new

LEMMA FirstWaiter ==
  ASSUME NEW isLoRA \in BOOLEAN, NEW k \in Configs \cup {NoConfig}, NEW c \in Calls
  PROVE  /\ NewPending(isLoRA, k, NewWaitChs(c)) \in Runtime
         /\ ~NewPending(isLoRA, k, NewWaitChs(c)).ready
         /\ c \in ToSet(WaitersOf(NewPending(isLoRA, k, NewWaitChs(c))))
<1> DEFINE new == NewPending(isLoRA, k, NewWaitChs(c))
<1>1. new \in Runtime
  BY NewRuntimes
<1>2. ~new.ready /\ new.waitChs = <<c>>
  BY RuntimeAssumption DEF NewPending, NewWaitChs
<1>3. c \in ToSet(<<c>>)
  BY DEF ToSet
<1> HIDE DEF new
<1>4. c \in ToSet(WaitersOf(new))
  BY <1>1, <1>2, <1>3, WaitersAre
<1> QED
  BY <1>1, <1>2, <1>4 DEF new

LEMMA StaysWaitedOn ==
  ASSUME NEW c \in Calls, IsWaitedOn(c), NEW e,
         \A x \in events : x # e => x \in events',
         e.type = "pull" => e.call # c,
         \A n \in Names : Known(n) /\ ~runtimes[n].ready /\ c \in ToSet(WaitersOf(runtimes[n])) =>
           \/ runtimes'[n] = runtimes[n]
           \/ /\ runtimes'[n] # NoRuntime /\ ~runtimes'[n].ready
              /\ c \in ToSet(WaitersOf(runtimes'[n]))
           \/ \E k \in Names : PullEvent(k, c) \in events'
  PROVE  IsWaitedOn(c)'
<1>1. CASE \E m \in Names : PullEvent(m, c) \in events
  <2>1. PICK m \in Names : PullEvent(m, c) \in events
    BY <1>1
  <2>2. PullEvent(m, c) # e
    BY DEF PullEvent
  <2> QED
    BY <2>1, <2>2 DEF IsWaitedOn
<1>2. CASE \E n \in Names : Known(n) /\ ~runtimes[n].ready /\ c \in ToSet(WaitersOf(runtimes[n]))
  BY <1>2 DEF IsWaitedOn, Known
<1> QED
  BY <1>1, <1>2 DEF IsWaitedOn

LEMMA PullKeepsWaiters ==
  ASSUME RuntimeTypeOK, KindsAreKept, WaiterIsKnown, NEW e, RunStateMachine(e),
         ProcessPullModelEvent(e), NEW c \in Calls,
         calls'[c] \in {"sending", "waiting"}, ~HasExited'
  PROVE  IsWaitedOn(c)'
<1> DEFINE m == e.model
<1>1. /\ e \in events /\ e \in Event /\ ~HasExited /\ e.type = "pull" /\ e \in PullEvents
      /\ m \in Names /\ e.call \in Calls \cup {NoCall} /\ e = PullEvent(m, e.call)
      /\ runtimes \in [Names -> Runtime \cup {NoRuntime}]
      /\ Names = Models \cup Adapters /\ Models \cap Adapters = {}
      /\ BaseOf \in [Adapters -> Models] /\ NoCall \notin Calls
  BY EventsByType, RuntimeAssumption
     DEF RunStateMachine, HasExited, RuntimeTypeOK, Names, ProcessPullModelEvent
<1>2. \A x \in events : x # e => x \in events'
  BY HandlersSend
<1>3. ASSUME c # e.call, calls[c] \in {"sending", "waiting"},
             \A n \in Names : Known(n) /\ ~runtimes[n].ready =>
               \/ runtimes'[n] = runtimes[n]
               \/ /\ runtimes'[n] # NoRuntime /\ ~runtimes'[n].ready
                  /\ c \in ToSet(WaitersOf(runtimes[n])) => c \in ToSet(WaitersOf(runtimes'[n]))
      PROVE  IsWaitedOn(c)'
  <2>1. IsWaitedOn(c)
    BY <1>1, <1>3 DEF WaiterIsKnown
  <2> QED
    BY <1>2, <1>3, <2>1, StaysWaitedOn
<1>4. ASSUME UNCHANGED calls \/ \E answer \in Statuses : calls' = Tell(e.call, answer), c # e.call
      PROVE  calls[c] \in {"sending", "waiting"}
  BY <1>1, <1>4, TellTypes
<1>5. CASE PullIsReady(e)
  <2>1. calls' = Tell(e.call, "ok") /\ UNCHANGED runtimes
    BY <1>5 DEF PullIsReady
  <2>2. c # e.call
    BY <1>1, <2>1, TellTypes DEF Statuses
  <2> QED
    BY <1>3, <1>4, <2>1, <2>2 DEF Statuses
<1>6. CASE PullHasFailed(e)
  <2>1. /\ UNCHANGED runtimes
        /\ \/ e.call = NoCall /\ UNCHANGED calls
           \/ calls' = Tell(e.call, "err")
           \/ calls' = [calls EXCEPT ![e.call] = "gone"] /\ e.call # NoCall
    BY <1>6 DEF PullHasFailed
  <2>2. c # e.call /\ calls[c] \in {"sending", "waiting"}
    BY <1>1, <2>1, TellTypes, Typed DEF Statuses
  <2> QED
    BY <1>3, <2>1, <2>2
<1>7. CASE PullIsInProgress(e)
  <2>1. /\ Known(m) /\ ~runtimes[m].ready /\ runtimes[m] \in Runtime
        /\ calls' = Tell(e.call, "waiting")
    BY <1>1, <1>7, Typed DEF PullIsInProgress
  <2>2. /\ \A n \in Names : n # e.model => runtimes'[n] = runtimes[n]
        /\ runtimes'[m] \in Runtime /\ ~runtimes'[m].ready
        /\ runtimes'[m].pending = runtimes[m].pending
        /\ runtimes'[m].waitChs = IF e.call = NoCall THEN runtimes[m].waitChs
                                  ELSE Append(runtimes[m].waitChs, e.call)
    BY <1>1, <1>7, Joined
  <2>3. CASE c = e.call
    <3>1. c \in ToSet(WaitersOf(runtimes'[m]))
      BY <1>1, <2>1, <2>2, <2>3, MoreWaiters
    <3> QED
      BY <1>1, <2>2, <3>1, NoRuntimeAssumption DEF IsWaitedOn, Known
  <2>4. CASE c # e.call
    <3>1. c \in ToSet(WaitersOf(runtimes[m])) => c \in ToSet(WaitersOf(runtimes'[m]))
      BY <1>1, <2>1, <2>2, MoreWaiters
    <3>2. calls[c] \in {"sending", "waiting"}
      BY <1>4, <2>1, <2>4 DEF Statuses
    <3> QED
      BY <1>3, <2>2, <2>4, <3>1, <3>2, NoRuntimeAssumption
  <2> QED
    BY <2>3, <2>4
<1>8. ASSUME ~Known(m), calls' = Tell(e.call, "waiting"),
             \A n \in Names : n # m => runtimes'[n] = runtimes[n],
             \E isLoRA \in BOOLEAN, k \in Configs \cup {NoConfig} :
               runtimes'[m] = NewPending(isLoRA, k, NewWaitChs(e.call))
      PROVE  IsWaitedOn(c)'
  <2>1. CASE c = e.call
    <3>1. /\ runtimes'[m] \in Runtime /\ ~runtimes'[m].ready
          /\ c \in ToSet(WaitersOf(runtimes'[m]))
      BY <1>8, <2>1, FirstWaiter
    <3> QED
      BY <1>1, <3>1, NoRuntimeAssumption DEF IsWaitedOn, Known
  <2>2. CASE c # e.call
    <3>1. calls[c] \in {"sending", "waiting"}
      BY <1>4, <1>8, <2>2 DEF Statuses
    <3> QED
      BY <1>3, <1>8, <2>2, <3>1
  <2> QED
    BY <2>1, <2>2
<1>9. CASE PullNewModel(e)
  <2>1. m \in Models /\ config[m] \in Configs
    BY <1>9, Typed DEF PullNewModel
  <2> QED
    BY <1>1, <1>8, <1>9, <2>1 DEF PullNewModel
<1>10. CASE PullNeedsBase(e)
  <2> DEFINE b == BaseOf[m]
             br == IF Known(b) THEN runtimes[b] ELSE NewPending(FALSE, config[b], <<>>)
             br2 == [br EXCEPT !.pending = Append(@, e)]
  <2>1. /\ m \in Adapters /\ ~br.ready /\ calls' = Tell(e.call, "waiting")
        /\ runtimes' = [runtimes EXCEPT ![b] = br2]
    BY <1>10 DEF PullNeedsBase
  <2>2. b \in Models /\ b \in Names /\ config[b] \in Configs
    BY <1>1, <2>1, Typed
  <2>3. br \in Runtime /\ br2 \in Runtime
    BY <1>1, <2>2, Typed, NewRuntimes, RuntimeUpdates
  <2>4. (Known(b) => br = runtimes[b])
    OBVIOUS
  <2> HIDE DEF br
  <2>5. ~br2.ready
    BY <2>1, <2>3 DEF Runtime
  <2>6. c = e.call \/ c \in ToSet(WaitersOf(br)) => c \in ToSet(WaitersOf(br2))
    BY <1>1, <2>3, MorePending
  <2> HIDE DEF b, br2
  <2>7. runtimes'[b] = br2 /\ \A n \in Names : n # b => runtimes'[n] = runtimes[n]
    BY <1>1, <2>1, <2>2
  <2>8. CASE c = e.call
    BY <2>2, <2>3, <2>5, <2>6, <2>7, <2>8, NoRuntimeAssumption DEF IsWaitedOn, Known
  <2>9. CASE c # e.call
    <3>1. calls[c] \in {"sending", "waiting"}
      BY <1>4, <2>1, <2>9 DEF Statuses
    <3> QED
      BY <1>3, <2>3, <2>4, <2>5, <2>6, <2>7, <2>9, <3>1, NoRuntimeAssumption
  <2> QED
    BY <2>8, <2>9
<1>11. CASE PullNewAdapter(e)
  <2>1. loop' # "failed"
    BY DEF HasExited
  <2>2. /\ ~Known(m) /\ calls' = Tell(e.call, "waiting")
        /\ runtimes' = [runtimes EXCEPT ![m] = NewPending(TRUE, NoConfig, NewWaitChs(e.call))]
    BY <1>11, <2>1 DEF PullNewAdapter, Fails
  <2> QED
    BY <1>1, <1>8, <2>2
<1> QED
  BY <1>5, <1>6, <1>7, <1>9, <1>10, <1>11 DEF ProcessPullModelEvent

LEMMA OtherHandlersKeepWaiters ==
  ASSUME RuntimeTypeOK, KindsAreKept, WaiterIsKnown, NEW e, RunStateMachine(e),
         ~ProcessPullModelEvent(e), NEW c \in Calls,
         calls'[c] \in {"sending", "waiting"}, ~HasExited'
  PROVE  IsWaitedOn(c)'
<1> DEFINE m == e.model
<1>1. /\ e \in events /\ e \in Event /\ ~HasExited
      /\ runtimes \in [Names -> Runtime \cup {NoRuntime}]
  BY DEF RunStateMachine, HasExited, RuntimeTypeOK
<1>2. \A x \in events : x # e => x \in events'
  BY HandlersSend
<1>3. ASSUME e.type # "pull", calls'[c] = calls[c],
             \A n \in Names : Known(n) /\ ~runtimes[n].ready /\ c \in ToSet(WaitersOf(runtimes[n])) =>
               \/ runtimes'[n] = runtimes[n]
               \/ /\ runtimes'[n] # NoRuntime /\ ~runtimes'[n].ready
                  /\ c \in ToSet(WaitersOf(runtimes'[n]))
               \/ \E k \in Names : PullEvent(k, c) \in events'
      PROVE  IsWaitedOn(c)'
  <2>1. IsWaitedOn(c)
    BY <1>1, <1>3 DEF WaiterIsKnown
  <2> QED
    BY <1>2, <1>3, <2>1, StaysWaitedOn
<1>4. ASSUME e.type # "pull", UNCHANGED <<runtimes, calls>>
      PROVE  IsWaitedOn(c)'
  BY <1>3, <1>4
<1>5. ASSUME e.type # "pull", m \in Names, Known(m), DropRuntime(m),
             events' = (events \ {e}) \cup Requeued(m)
      PROVE  IsWaitedOn(c)'
  <2>1. runtimes[m] \in Runtime
    BY <1>1, <1>5, Typed
  <2>2. /\ calls'[c] = calls[c] /\ \A n \in Names : n # m => runtimes'[n] = runtimes[n]
        /\ c \in ToSet(WaitersOf(runtimes[m])) =>
             \/ \E n \in Names : PullEvent(n, c) \in Requeued(m)
             \/ runtimes'[m] # NoRuntime /\ c \in ToSet(WaitersOf(runtimes'[m]))
        /\ runtimes'[m] \in {NoRuntime, [runtimes[m] EXCEPT !.pending = <<>>]}
    BY <1>5, DropAnswers
  <2>3. runtimes'[m] # NoRuntime /\ ~runtimes[m].ready => ~runtimes'[m].ready
    BY <2>1, <2>2 DEF Runtime
  <2> HIDE DEF m
  <2> QED
    BY <1>3, <1>5, <2>2, <2>3
<1>6. ASSUME e.type # "pull", m \in Names, NEW rt \in Runtime, NEW reason \in Reasons,
             CloseWaitChs(m, rt, reason),
             Known(m) /\ ~runtimes[m].ready /\ c \in ToSet(WaitersOf(runtimes[m])) =>
               \/ ~rt.ready /\ c \in ToSet(WaitersOf(rt))
               \/ \E k \in Names : PullEvent(k, c) \in events'
      PROVE  IsWaitedOn(c)'
  <2>1. /\ calls'[c] = calls[c] /\ \A n \in Names : n # m => runtimes'[n] = runtimes[n]
        /\ runtimes'[m] \in Runtime /\ runtimes'[m].ready = rt.ready
        /\ c \in ToSet(WaitersOf(rt)) => c \in ToSet(WaitersOf(runtimes'[m]))
    BY <1>6, CloseAnswers
  <2> HIDE DEF m
  <2> QED
    BY <1>3, <1>6, <2>1, NoRuntimeAssumption
<1>7. CASE ProcessDeleteModelEvent(e)
  <2>1. e.type # "pull" /\ m \in Names
    BY <1>1, <1>7, EventsByType DEF ProcessDeleteModelEvent
  <2>2. CASE DeleteAdapter(e)
    <3>1. /\ loop' # "failed" /\ Known(m)
      BY <2>2 DEF HasExited, DeleteAdapter
    <3>2. DropRuntime(m) /\ events' = (events \ {e}) \cup Requeued(m)
      BY <2>2, <3>1 DEF DeleteAdapter, Fails
    <3> QED
      BY <1>5, <2>1, <3>1, <3>2
  <2> QED
    BY <1>4, <1>7, <2>1, <2>2 DEF ProcessDeleteModelEvent, DeleteModelRuntime
<1>8. CASE ProcessUpdateModelEvent(e)
  <2>1. e.type # "pull" /\ m \in Names /\ UNCHANGED calls
    BY <1>1, <1>8, EventsByType DEF ProcessUpdateModelEvent
  <2>2. CASE m \in Models /\ IsOutdated(m)
    <3>1. Known(m) /\ runtimes' = [runtimes EXCEPT ![m] = [@ EXCEPT !.mci = config[m]]]
      BY <1>8, <2>2 DEF ProcessUpdateModelEvent, IsOutdated
    <3>2. config[m] \in Configs \cup {NoConfig} /\ runtimes[m] \in Runtime
      BY <2>1, <2>2, <3>1, Typed
    <3> DEFINE new == [runtimes[m] EXCEPT !.mci = config[m]]
    <3>3. new \in Runtime /\ new.ready = runtimes[m].ready
      BY <3>2 DEF Runtime
    <3>4. new.pending = runtimes[m].pending /\ new.waitChs = runtimes[m].waitChs
      BY <3>2 DEF Runtime
    <3> HIDE DEF new
    <3>5. c \in ToSet(WaitersOf(runtimes[m])) => c \in ToSet(WaitersOf(new))
      BY <3>2, <3>3, <3>4, MoreWaiters
    <3>6. runtimes'[m] = new /\ \A n \in Names : n # m => runtimes'[n] = runtimes[n]
      BY <1>1, <2>1, <3>1 DEF new
    <3> HIDE DEF m
    <3> QED
      BY <1>3, <2>1, <3>3, <3>5, <3>6, NoRuntimeAssumption
  <2>3. CASE ~(m \in Models /\ IsOutdated(m))
    BY <1>4, <1>8, <2>1, <2>3 DEF ProcessUpdateModelEvent
  <2> QED
    BY <2>2, <2>3
<1>9. CASE ProcessReconcileStatefulSetEvent(e)
  <2> DEFINE rt == Reconciled(m)
  <2>1. e.type # "pull" /\ m \in Names /\ m \in Models
    BY <1>1, <1>9, EventsByType DEF ProcessReconcileStatefulSetEvent, Names
  <2>2. CASE ReconcileGone(e)
    BY <1>4, <1>5, <2>1, <2>2 DEF ReconcileGone
  <2>3. CASE ReconcileFound(e)
    <3>1. rt \in Runtime
      BY <2>1, Typed, NewRuntimes DEF Reconciled
    <3>2. Known(m) => rt = runtimes[m]
      BY DEF Reconciled
    <3>3. \/ /\ rt.ready /\ UNCHANGED calls
             /\ runtimes' = [runtimes EXCEPT ![m] = [rt EXCEPT !.ready = (sts[m].phase # "zero")]]
          \/ CloseWaitChs(m, rt, "Unschedulable")
          \/ runtimes' = [runtimes EXCEPT ![m] = rt] /\ UNCHANGED calls
      BY <2>3 DEF ReconcileFound
    <3> HIDE DEF m, rt
    <3>4. CASE CloseWaitChs(m, rt, "Unschedulable")
      BY <1>6, <2>1, <3>1, <3>2, <3>4 DEF Reasons, m
    <3>5. CASE runtimes' = [runtimes EXCEPT ![m] = rt] /\ UNCHANGED calls
      <4>1. \A n \in Names : Known(n) => runtimes'[n] = runtimes[n]
        BY <1>1, <2>1, <3>2, <3>5
      <4> QED
        BY <1>3, <2>1, <3>5, <4>1
    <3>6. CASE /\ rt.ready /\ UNCHANGED calls
               /\ runtimes' = [runtimes EXCEPT ![m] = [rt EXCEPT !.ready = (sts[m].phase # "zero")]]
      <4>1. \A n \in Names : Known(n) /\ ~runtimes[n].ready => runtimes'[n] = runtimes[n]
        BY <1>1, <2>1, <3>2, <3>6
      <4> QED
        BY <1>3, <2>1, <3>6, <4>1
    <3> QED
      BY <3>3, <3>4, <3>5, <3>6
  <2> QED
    BY <1>9, <2>2, <2>3 DEF ProcessReconcileStatefulSetEvent
<1>10. CASE ProcessReadinessCheckEvent(e)
  <2>1. e.type # "pull" /\ m \in Names /\ e.addr \in Addr
    BY <1>1, <1>10, EventsByType DEF ProcessReadinessCheckEvent
  <2>2. CASE CheckPasses(e)
    <3> DEFINE rt == [BecomeReady(runtimes[m], e.addr) EXCEPT !.pending = <<>>]
    <3>1. /\ Known(m) /\ CloseWaitChs(m, rt, "")
          /\ events' = (events \ {e}) \cup Requeued(m)
      BY <2>2 DEF CheckPasses
    <3>2. runtimes[m] \in Runtime
      BY <2>1, <3>1, Typed
    <3>3. rt \in Runtime /\ rt.waitChs = runtimes[m].waitChs
      <4>1. BecomeReady(runtimes[m], e.addr) \in Runtime
        BY <2>1, <3>2, RuntimeUpdates
      <4>2. BecomeReady(runtimes[m], e.addr).waitChs = runtimes[m].waitChs
        BY <3>2 DEF BecomeReady, Runtime
      <4> QED
        BY <4>1, <4>2, RuntimeUpdates DEF Runtime
    <3> HIDE DEF rt
    <3>4. Reached(rt, "") = ToSet(WaitersOf(rt)) /\ calls' = Answered(rt, "")
      BY <3>1, <3>3, AllAreReached DEF Blocks, CloseWaitChs
    <3>5. c \notin ToSet(WaitersOf(rt)) /\ calls'[c] = calls[c]
      BY <3>4 DEF Answered
    <3>6. /\ \A n \in Names : n # m => runtimes'[n] = runtimes[n]
      BY <2>1, <3>1, <3>3, CloseAnswers DEF Reasons
    <3>7. ASSUME c \in ToSet(WaitersOf(runtimes[m]))
          PROVE  \E k \in Names : PullEvent(k, c) \in events'
      <4>1. c \notin ToSet(runtimes[m].waitChs)
        BY <3>3, <3>5, WaitersAre
      <4>2. PICK i \in DOMAIN runtimes[m].pending : runtimes[m].pending[i].call = c
        BY <3>2, <3>7, <4>1, WaitersAre
      <4>3. runtimes[m].pending[i] \in Requeued(m)
        BY <4>2 DEF Requeued, ToSet
      <4>4. runtimes[m].pending[i] \in PullEvents
        BY <2>1, <3>1, <4>3, Typed DEF Requeued
      <4> DEFINE x == runtimes[m].pending[i]
      <4> HIDE DEF x
      <4>5. PICK k \in Names, c2 \in Calls \cup {NoCall} : x = PullEvent(k, c2)
        BY <4>4 DEF PullEvents, x
      <4>6. c2 = c
        BY <4>2, <4>5 DEF PullEvent, x
      <4> QED
        BY <3>1, <4>3, <4>5, <4>6 DEF x
    <3> HIDE DEF m
    <3> QED
      BY <1>3, <2>1, <3>5, <3>6, <3>7
  <2>3. CASE CheckFails(e)
    <3>1. Known(m) /\ CloseWaitChs(m, runtimes[m], "unreachable")
      BY <2>3 DEF CheckFails
    <3>2. runtimes[m] \in Runtime /\ "unreachable" \in Reasons
      BY <2>1, <3>1, Typed DEF Reasons
    <3> QED
      BY <1>6, <2>1, <3>1, <3>2
  <2> QED
    BY <1>4, <1>10, <2>1, <2>2, <2>3 DEF ProcessReadinessCheckEvent, CheckIsMoot, CheckIsRetried
<1>11. CASE ProcessLoRAAdapterPullStatusCheckEvent(e) \/ ProcessLoadLoRAAdapterEvent(e)
  BY <1>4, <1>11 DEF ProcessLoRAAdapterPullStatusCheckEvent, PullCheckFails, PullCheckAgain,
                     PullCheckLoads, ProcessLoadLoRAAdapterEvent, Fails
<1>12. CASE ProcessLoRAAdapterStatusUpdateEvent(e)
  <2>1. e.type # "pull" /\ UNCHANGED calls
    BY <1>12 DEF ProcessLoRAAdapterStatusUpdateEvent
  <2>2. ~Panics(e)
    BY <1>12 DEF ProcessLoRAAdapterStatusUpdateEvent, HasExited
  <2>3. \A n \in Names : Known(n) /\ ~runtimes[n].ready => runtimes'[n] = runtimes[n]
    BY <1>1, <1>12, <2>2, UpdatedRuntimes
  <2> QED
    BY <1>3, <2>1, <2>3
<1> QED
  BY <1>7, <1>8, <1>9, <1>10, <1>11, <1>12 DEF RunStateMachine

LEMMA HandlersKeepWaiters ==
  ASSUME RuntimeTypeOK, KindsAreKept, WaiterIsKnown, NEW e, RunStateMachine(e)
  PROVE  WaiterIsKnown'
<1> SUFFICES ASSUME NEW c \in Calls, calls'[c] \in {"sending", "waiting"}, ~HasExited'
             PROVE  IsWaitedOn(c)'
  BY DEF WaiterIsKnown
<1> QED
  BY PullKeepsWaiters, OtherHandlersKeepWaiters

LEMMA ClientsKeepWaiters ==
  ASSUME RuntimeTypeOK, WaiterIsKnown,
         Cluster \/ Callers \/ ManagerRestarts \/ \E e \in Event : Request(e)
  PROVE  WaiterIsKnown'
<1>1. CASE ManagerRestarts
  BY <1>1 DEF ManagerRestarts, WaiterIsKnown
<1>2. ASSUME UNCHANGED <<runtimes, loop>>, events \subseteq events', NEW c \in Calls,
             calls'[c] = calls[c], calls[c] \in {"sending", "waiting"}, ~HasExited'
      PROVE  IsWaitedOn(c)'
  BY <1>2 DEF WaiterIsKnown, HasExited, IsWaitedOn, Known
<1>3. CASE Cluster \/ \E e \in Event : Request(e)
  <2>1. UNCHANGED <<runtimes, loop, calls>> /\ events \subseteq events'
    BY <1>3 DEF Cluster, Request, StsProgress, StsDisturbed, StsPhase, ConfigChanges,
                PodStarts, PodStops, managerVars
  <2> QED
    BY <1>2, <2>1 DEF WaiterIsKnown
<1>4. CASE Callers
  <2>1. PICK c \in Calls : CallerLeaves(c) \/ \E m \in Names : PullModel(c, m)
    BY <1>4 DEF Callers
  <2>2. UNCHANGED <<runtimes, loop>> /\ events \subseteq events'
        /\ \A k \in Calls : k # c => calls'[k] = calls[k]
    BY <2>1, Typed DEF CallerLeaves, PullModel, managerVars
  <2>3. calls'[c] = "gone" \/ \E m \in Names : PullEvent(m, c) \in events'
    BY <2>1, Typed DEF CallerLeaves, PullModel
  <2> QED
    BY <1>2, <2>2, <2>3 DEF WaiterIsKnown, IsWaitedOn
<1> QED
  BY <1>1, <1>3, <1>4
-----------------------------------------------------------------------------
(***************************************************************************)
(* What changes in the cluster is noticed.                                 *)
(***************************************************************************)
FollowedAt(m) ==
  loop = "run" /\ Known(m) =>
    /\ sts[m].phase = "none" => ReconcileEvent(m) \in events
    /\ sts[m].phase = "ready" /\ ~runtimes[m].ready => \E x \in events : IsAbout(x, m)

LEMMA AllFollowed ==
  /\ ClusterIsFollowed /\ DeletionIsHeard <=> \A m \in Models : FollowedAt(m)
  /\ (ClusterIsFollowed /\ DeletionIsHeard)' <=> \A m \in Models : FollowedAt(m)'
<1>1. \A m \in Models : IsAbout(ReconcileEvent(m), m)
  BY DEF IsAbout, ReconcileEvent
<1> QED
  BY <1>1 DEF ClusterIsFollowed, DeletionIsHeard, FollowedAt

\* A step that does not touch a runtime or its StatefulSet, and takes no event
\* about it.
LEMMA StillFollowed ==
  ASSUME NEW m, FollowedAt(m), loop' = "run" => loop = "run",
         runtimes'[m] # NoRuntime => Known(m) /\ (runtimes[m].ready => runtimes'[m].ready),
         sts'[m].phase = sts[m].phase,
         \A x \in events : IsAbout(x, m) => x \in events'
  PROVE  FollowedAt(m)'
<1>1. IsAbout(ReconcileEvent(m), m)
  BY DEF IsAbout, ReconcileEvent
<1> QED
  BY <1>1 DEF FollowedAt, Known, IsAbout

\* A step that has the StatefulSet reconciled.
LEMMA ReconciledIsFollowed ==
  ASSUME NEW m, ReconcileEvent(m) \in events'
  PROVE  FollowedAt(m)'
BY DEF FollowedAt, IsAbout, ReconcileEvent

LEMMA PullKeepsFollowed ==
  ASSUME RuntimeTypeOK, KindsAreKept, NEW e, RunStateMachine(e), ProcessPullModelEvent(e),
         NEW m \in Models, FollowedAt(m)
  PROVE  FollowedAt(m)'
<1>1. /\ e \in events /\ e.type = "pull" /\ loop = "run"
      /\ e.model \in Names /\ e.call \in Calls \cup {NoCall}
      /\ Names = Models \cup Adapters /\ Models \cap Adapters = {}
      /\ BaseOf \in [Adapters -> Models] /\ m \in Names
      /\ runtimes \in [Names -> Runtime \cup {NoRuntime}]
      /\ DOMAIN sts = Models
  BY EventsByType, RuntimeAssumption
     DEF RunStateMachine, ProcessPullModelEvent, RuntimeTypeOK, Names
<1>2. \A x \in events : IsAbout(x, m) => x \in events'
  BY <1>1, HandlersSend DEF IsAbout
<1>3. ASSUME runtimes'[m] # NoRuntime => Known(m) /\ (runtimes[m].ready => runtimes'[m].ready),
             sts'[m].phase = sts[m].phase
      PROVE  FollowedAt(m)'
  BY <1>1, <1>2, <1>3, StillFollowed
<1>4. CASE PullIsReady(e) \/ PullHasFailed(e)
  <2>1. UNCHANGED <<runtimes, sts>>
    BY <1>4 DEF PullIsReady, PullHasFailed, clusterVars
  <2> QED
    BY <1>3, <2>1 DEF Known
<1>5. CASE PullIsInProgress(e)
  <2>1. UNCHANGED sts /\ Known(e.model) /\ ~runtimes[e.model].ready
    BY <1>5 DEF PullIsInProgress, clusterVars
  <2>2. /\ \A n \in Names : n # e.model => runtimes'[n] = runtimes[n]
    BY <1>1, <1>5, Joined
  <2> QED
    BY <1>1, <1>3, <2>1, <2>2 DEF Known
<1>6. CASE PullNewModel(e)
  <2>1. /\ e.model \in Models
        /\ sts' = IF sts[e.model].phase = "none"
                    THEN [sts EXCEPT ![e.model] = [phase |-> "pending", mci |-> config[e.model]]]
                    ELSE sts
        /\ runtimes' = [runtimes EXCEPT ![e.model] = NewPending(FALSE, config[e.model], NewWaitChs(e.call))]
        /\ ReconcileEvent(e.model) \in events'
    BY <1>6 DEF PullNewModel, Deploy
  <2>2. CASE m = e.model
    BY <2>1, <2>2, ReconciledIsFollowed
  <2>3. CASE m # e.model
    BY <1>1, <1>3, <2>1, <2>3 DEF Known
  <2> QED
    BY <2>2, <2>3
<1>7. CASE PullNeedsBase(e)
  <2> DEFINE b == BaseOf[e.model]
             br == IF Known(b) THEN runtimes[b] ELSE NewPending(FALSE, config[b], <<>>)
             new == [br EXCEPT !.pending = Append(@, e)]
  <2>1. /\ e.model \in Adapters /\ runtimes' = [runtimes EXCEPT ![b] = new]
        /\ IF Known(b) THEN UNCHANGED sts ELSE Deploy(b) /\ ReconcileEvent(b) \in events'
    BY <1>7 DEF PullNeedsBase
  <2>2. b \in Models /\ b \in Names
    BY <1>1, <2>1
  <2>3. CASE Known(b)
    <3>1. runtimes[b] \in Runtime
      BY <2>2, <2>3, Typed
    <3>2. new.ready = runtimes[b].ready
      BY <2>3, <3>1 DEF Runtime
    <3> HIDE DEF new
    <3> QED
      BY <1>1, <1>3, <2>1, <2>2, <2>3, <3>2 DEF Known
  <2>4. CASE ~Known(b)
    <3>1. CASE m = b
      BY <2>1, <2>4, <3>1, ReconciledIsFollowed
    <3>2. CASE m # b
      <4>1. sts'[m] = sts[m]
        BY <1>1, <2>1, <2>4, <3>2 DEF Deploy
      <4> QED
        BY <1>1, <1>3, <2>1, <3>2, <4>1 DEF Known
    <3> QED
      BY <3>1, <3>2
  <2> QED
    BY <2>3, <2>4
<1>8. CASE PullNewAdapter(e)
  <2>1. /\ e.model \in Adapters /\ UNCHANGED sts
        /\ \A n \in Names : n # e.model => runtimes'[n] = runtimes[n]
    BY <1>1, <1>8 DEF PullNewAdapter, Fails, clusterVars
  <2>2. m # e.model
    BY <1>1, <2>1
  <2> QED
    BY <1>1, <1>3, <2>1, <2>2 DEF Known
<1> QED
  BY <1>4, <1>5, <1>6, <1>7, <1>8 DEF ProcessPullModelEvent

LEMMA OtherHandlersKeepFollowed ==
  ASSUME RuntimeTypeOK, KindsAreKept, NEW e, RunStateMachine(e), ~ProcessPullModelEvent(e),
         NEW n \in Models, FollowedAt(n)
  PROVE  FollowedAt(n)'
<1>1. /\ e \in events /\ e \in Event /\ loop = "run"
      /\ Names = Models \cup Adapters /\ Models \cap Adapters = {} /\ n \in Names
      /\ runtimes \in [Names -> Runtime \cup {NoRuntime}]
      /\ DOMAIN sts = Models
  BY RuntimeAssumption DEF RunStateMachine, RuntimeTypeOK, Names
<1>2. \A x \in events : x # e => x \in events'
  BY HandlersSend
<1>3. ASSUME runtimes'[n] # NoRuntime => Known(n) /\ (runtimes[n].ready => runtimes'[n].ready),
             sts'[n].phase = sts[n].phase, ~IsAbout(e, n)
      PROVE  FollowedAt(n)'
  BY <1>1, <1>2, <1>3, StillFollowed
<1>4. ASSUME runtimes'[n] = NoRuntime \/ loop' # "run"
      PROVE  FollowedAt(n)'
  BY <1>4 DEF FollowedAt, Known
<1>5. CASE ProcessDeleteModelEvent(e)
  <2>1. e.type = "delete" /\ e.model \in Names /\ e = DeleteEvent(e.model)
    BY <1>1, <1>5, EventsByType DEF ProcessDeleteModelEvent
  <2>2. CASE ~Known(e.model) /\ UNCHANGED <<runtimes, sts>>
    BY <1>3, <1>4, <2>2 DEF IsAbout, Known
  <2>3. CASE DeleteAdapter(e)
    <3>1. e.model \in Adapters /\ UNCHANGED sts /\ Known(e.model)
      BY <1>1, <1>5, <2>1, <2>3 DEF DeleteAdapter, KindsAreKept, Fails, clusterVars
    <3>2. \A k \in Names : k # e.model => runtimes'[k] = runtimes[k]
      BY <2>1, <2>3, <3>1, DropAnswers DEF DeleteAdapter, Fails
    <3>3. n # e.model
      BY <1>1, <3>1
    <3> QED
      BY <1>1, <1>3, <3>1, <3>2, <3>3 DEF IsAbout, Known
  <2>4. CASE DeleteModelRuntime(e)
    <3>1. /\ sts' = [sts EXCEPT ![e.model] = NoSts] /\ UNCHANGED <<runtimes, loop>>
          /\ sts[e.model].phase # "none" => ReconcileEvent(e.model) \in events'
          /\ Known(e.model)
      BY <2>4 DEF DeleteModelRuntime
    <3>2. CASE n = e.model
      <4>1. ReconcileEvent(n) # e
        BY <2>1 DEF ReconcileEvent
      <4>2. ReconcileEvent(n) \in events'
        BY <1>1, <1>2, <3>1, <3>2, <4>1 DEF FollowedAt
      <4> QED
        BY <4>2, ReconciledIsFollowed
    <3>3. CASE n # e.model
      BY <1>1, <1>3, <3>1, <3>3 DEF IsAbout, Known
    <3> QED
      BY <3>2, <3>3
  <2> QED
    BY <1>5, <2>2, <2>3, <2>4 DEF ProcessDeleteModelEvent, clusterVars
<1>6. CASE ProcessUpdateModelEvent(e)
  <2>1. e.model \in Names /\ ~IsAbout(e, n)
    BY <1>1, <1>6, EventsByType DEF ProcessUpdateModelEvent, IsAbout
  <2>2. CASE e.model \in Models /\ IsOutdated(e.model)
    <3>1. /\ runtimes' = [runtimes EXCEPT ![e.model] = [@ EXCEPT !.mci = config[e.model]]]
          /\ sts' = [sts EXCEPT ![e.model] =
                       [phase |-> IF @.phase = "none" THEN "pending" ELSE @.phase,
                        mci |-> config[e.model]]]
          /\ ReconcileEvent(e.model) \in events'
      BY <1>6, <2>2 DEF ProcessUpdateModelEvent
    <3>2. CASE n = e.model
      BY <3>1, <3>2, ReconciledIsFollowed
    <3>3. CASE n # e.model
      BY <1>1, <1>3, <2>1, <3>1, <3>3 DEF Known
    <3> QED
      BY <3>2, <3>3
  <2>3. CASE ~(e.model \in Models /\ IsOutdated(e.model))
    <3>1. UNCHANGED <<runtimes, sts>>
      BY <1>6, <2>3 DEF ProcessUpdateModelEvent
    <3> QED
      BY <1>3, <2>1, <3>1 DEF Known
  <2> QED
    BY <2>2, <2>3
<1>7. CASE ProcessReconcileStatefulSetEvent(e)
  <2> DEFINE m == e.model
             rt == Reconciled(m)
  <2>1. m \in Models /\ m \in Names /\ e.type = "reconcile"
    BY <1>1, <1>7, EventsByType DEF ProcessReconcileStatefulSetEvent
  <2>2. CASE ReconcileGone(e)
    <3>1. UNCHANGED sts
      BY <2>2 DEF ReconcileGone, clusterVars
    <3>2. CASE Known(m)
      <4>1. DropRuntime(m)
        BY <2>2, <3>2 DEF ReconcileGone
      <4>2. /\ \A k \in Names : k # m => runtimes'[k] = runtimes[k]
            /\ runtimes'[m] = NoRuntime \/ loop' = "stuck"
        BY <2>1, <3>2, <4>1, DropAnswers
      <4> QED
        BY <1>1, <1>3, <1>4, <3>1, <4>2 DEF IsAbout, Known
    <3>3. CASE ~Known(m)
      <4>1. UNCHANGED runtimes
        BY <2>2, <3>3 DEF ReconcileGone
      <4> QED
        BY <1>3, <1>4, <3>1, <3>3, <4>1 DEF IsAbout, Known
    <3> QED
      BY <3>2, <3>3
  <2>3. CASE ReconcileFound(e)
    <3>1. rt \in Runtime
      BY <1>1, <2>1, Typed, NewRuntimes DEF Reconciled
    <3>2. /\ UNCHANGED sts /\ sts[m].phase # "none"
          /\ \/ /\ runtimes' = [runtimes EXCEPT ![m] = [rt EXCEPT !.ready = (sts[m].phase # "zero")]]
                /\ rt.ready
             \/ sts[m].phase = "unschedulable" /\ CloseWaitChs(m, rt, "Unschedulable")
             \/ sts[m].phase \in {"zero", "pending"} /\ runtimes' = [runtimes EXCEPT ![m] = rt]
             \/ /\ sts[m].phase = "ready" /\ runtimes' = [runtimes EXCEPT ![m] = rt]
                /\ ReadinessEvent(m, Service, NoPod, 0, "none") \in events'
      BY <2>3 DEF ReconcileFound, clusterVars
    <3>3. IsAbout(ReadinessEvent(m, Service, NoPod, 0, "none"), m)
      BY DEF IsAbout, ReadinessEvent
    <3>4. sts[m].phase = "ready" => [rt EXCEPT !.ready = (sts[m].phase # "zero")].ready
      BY <3>1 DEF Runtime
    <3> HIDE DEF m, rt
    <3>5. \A k \in Names : k # m => runtimes'[k] = runtimes[k]
      BY <1>1, <2>1, <3>1, <3>2, CloseAnswers DEF Reasons
    <3>6. CASE n # m
      BY <1>1, <1>3, <3>2, <3>5, <3>6 DEF IsAbout, Known, m
    <3>7. CASE n = m /\ sts[m].phase = "ready"
      <4>1. runtimes'[m].ready \/ \E x \in events' : IsAbout(x, m)
        BY <1>1, <2>1, <3>2, <3>3, <3>4, <3>7
      <4> QED
        BY <3>2, <3>7, <4>1 DEF FollowedAt, IsAbout
    <3>8. CASE n = m /\ sts[m].phase # "ready"
      BY <3>2, <3>8 DEF FollowedAt
    <3> QED
      BY <3>6, <3>7, <3>8
  <2> QED
    BY <1>7, <2>2, <2>3 DEF ProcessReconcileStatefulSetEvent
<1>8. CASE ProcessReadinessCheckEvent(e)
  <2> DEFINE m == e.model
             rt == [BecomeReady(runtimes[m], e.addr) EXCEPT !.pending = <<>>]
  <2>1. m \in Names /\ e.type = "readiness" /\ e.addr \in Addr /\ UNCHANGED sts
    BY <1>1, <1>8, EventsByType
       DEF ProcessReadinessCheckEvent, CheckIsMoot, CheckPasses, CheckIsRetried, CheckFails, clusterVars
  <2>2. n # m => ~IsAbout(e, n)
    BY DEF IsAbout
  <2>3. CASE CheckIsMoot(e)
    BY <1>3, <1>4, <2>1, <2>2, <2>3 DEF CheckIsMoot, Known
  <2>4. CASE CheckPasses(e)
    <3>1. Known(m) /\ CloseWaitChs(m, rt, "")
      BY <2>4 DEF CheckPasses
    <3>2. rt \in Runtime /\ rt.ready
      <4>1. runtimes[m] \in Runtime
        BY <2>1, <3>1, Typed
      <4>2. BecomeReady(runtimes[m], e.addr) \in Runtime /\ BecomeReady(runtimes[m], e.addr).ready
        BY <2>1, <4>1, RuntimeUpdates DEF BecomeReady, Runtime
      <4> QED
        BY <4>2, RuntimeUpdates DEF Runtime
    <3>3. /\ \A k \in Names : k # m => runtimes'[k] = runtimes[k]
          /\ runtimes'[m].ready
      BY <2>1, <3>1, <3>2, CloseAnswers DEF Reasons
    <3>4. e # ReconcileEvent(n)
      BY <2>1 DEF ReconcileEvent
    <3>5. CASE n = m
      BY <1>1, <1>2, <2>1, <3>1, <3>3, <3>4, <3>5 DEF FollowedAt, IsAbout
    <3> HIDE DEF m
    <3>6. CASE n # m
      BY <1>1, <1>3, <2>1, <2>2, <3>3, <3>6 DEF Known
    <3> QED
      BY <3>5, <3>6
  <2>5. CASE CheckIsRetried(e)
    <3>1. UNCHANGED <<runtimes, loop>> /\ RetryOf(e) \in events' /\ Known(m)
      BY <2>5 DEF CheckIsRetried
    <3>2. IsAbout(RetryOf(e), m)
      BY DEF RetryOf, ReadinessEvent, IsAbout
    <3>3. e # ReconcileEvent(n)
      BY <2>1 DEF ReconcileEvent
    <3>4. CASE n = m
      BY <1>1, <1>2, <2>1, <3>1, <3>2, <3>3, <3>4 DEF FollowedAt, IsAbout
    <3>5. CASE n # m
      BY <1>1, <1>3, <2>1, <2>2, <3>1, <3>5 DEF Known
    <3> QED
      BY <3>4, <3>5
  <2>6. CASE CheckFails(e)
    <3>1. /\ Known(m) /\ CloseWaitChs(m, runtimes[m], "unreachable")
          /\ Blocks(runtimes[m], "unreachable") \/ DeleteEvent(m) \in events'
      BY <2>6 DEF CheckFails
    <3>2. runtimes[m] \in Runtime /\ "unreachable" \in Reasons
      BY <2>1, <3>1, Typed DEF Reasons
    <3>3. /\ \A k \in Names : k # m => runtimes'[k] = runtimes[k]
          /\ runtimes'[m].ready = runtimes[m].ready
      BY <2>1, <3>1, <3>2, CloseAnswers
    <3>4. loop' = "stuck" \/ DeleteEvent(m) \in events'
      BY <3>1 DEF CloseWaitChs
    <3>5. e # ReconcileEvent(n) /\ IsAbout(DeleteEvent(m), m)
      BY <2>1 DEF ReconcileEvent, DeleteEvent, IsAbout
    <3> HIDE DEF m
    <3>6. CASE n = m
      BY <1>1, <1>2, <2>1, <3>1, <3>4, <3>5, <3>6 DEF FollowedAt, IsAbout
    <3>7. CASE n # m
      BY <1>1, <1>3, <2>1, <2>2, <3>3, <3>7 DEF Known
    <3> QED
      BY <3>6, <3>7
  <2> QED
    BY <1>8, <2>3, <2>4, <2>5, <2>6 DEF ProcessReadinessCheckEvent
<1>9. CASE ProcessLoRAAdapterPullStatusCheckEvent(e) \/ ProcessLoadLoRAAdapterEvent(e)
  <2>1. /\ UNCHANGED <<runtimes, sts>> /\ e.type \in {"pullStatus", "load"}
    BY <1>9 DEF ProcessLoRAAdapterPullStatusCheckEvent, PullCheckFails, PullCheckAgain,
                PullCheckLoads, ProcessLoadLoRAAdapterEvent, Fails, clusterVars
  <2> QED
    BY <1>3, <2>1 DEF IsAbout, Known
<1>10. CASE ProcessLoRAAdapterStatusUpdateEvent(e)
  <2>1. e.type = "statusUpdate" /\ UNCHANGED sts
    BY <1>10 DEF ProcessLoRAAdapterStatusUpdateEvent, clusterVars
  <2>2. runtimes'[n] = runtimes[n]
    BY <1>1, <1>10, UpdatedRuntimes DEF ProcessLoRAAdapterStatusUpdateEvent
  <2> QED
    BY <1>3, <2>1, <2>2 DEF IsAbout, Known
<1> QED
  BY <1>5, <1>6, <1>7, <1>8, <1>9, <1>10 DEF RunStateMachine

LEMMA HandlersKeepFollowed ==
  ASSUME RuntimeTypeOK, KindsAreKept, ClusterIsFollowed, DeletionIsHeard, NEW e, RunStateMachine(e)
  PROVE  (ClusterIsFollowed /\ DeletionIsHeard)'
BY AllFollowed, PullKeepsFollowed, OtherHandlersKeepFollowed

LEMMA ClientsKeepFollowed ==
  ASSUME RuntimeTypeOK, ClusterIsFollowed, DeletionIsHeard,
         Cluster \/ Callers \/ ManagerRestarts \/ \E e : Request(e)
  PROVE  (ClusterIsFollowed /\ DeletionIsHeard)'
<1>1. DOMAIN sts = Models /\ Models \subseteq Names
  BY DEF RuntimeTypeOK, Names
<1> SUFFICES ASSUME NEW m \in Models, FollowedAt(m) PROVE FollowedAt(m)'
  BY AllFollowed
<1>2. CASE ManagerRestarts
  BY <1>1, <1>2 DEF ManagerRestarts, FollowedAt, Known
<1>3. ASSUME NEW k \in Models, NEW from, NEW to, StsPhase(k, from, to)
      PROVE  FollowedAt(m)'
  <2>1. /\ UNCHANGED <<runtimes, loop>> /\ events \subseteq events'
        /\ ReconcileEvent(k) \in events' /\ sts' = [sts EXCEPT ![k].phase = to]
    BY <1>3 DEF StsPhase
  <2>2. CASE m = k
    BY <2>1, <2>2, ReconciledIsFollowed
  <2>3. CASE m # k
    <3>1. sts'[m] = sts[m]
      BY <1>1, <2>1, <2>3
    <3> QED
      BY <2>1, <3>1, StillFollowed DEF Known
  <2> QED
    BY <2>2, <2>3
<1>4. CASE \E k \in Models : StsProgress(k) \/ StsDisturbed(k)
  BY <1>3, <1>4 DEF StsProgress, StsDisturbed
<1>5. CASE \/ Callers \/ \E e : Request(e)
           \/ \E k \in Models : ConfigChanges(k)
           \/ \E p \in Pods : PodStarts(p) \/ PodStops(p)
  <2>1. UNCHANGED <<runtimes, loop, sts>> /\ events \subseteq events'
    BY <1>5 DEF Callers, CallerLeaves, PullModel, Request, ConfigChanges, PodStarts, PodStops,
                managerVars, clusterVars
  <2> QED
    BY <2>1, StillFollowed DEF Known
<1> QED
  BY <1>2, <1>4, <1>5 DEF Cluster
-----------------------------------------------------------------------------
(***************************************************************************)
(* An adapter that is not loaded yet is being loaded.                      *)
(***************************************************************************)
WorkedOnAt(m) ==
  loop = "run" /\ Known(m) /\ ~runtimes[m].ready => \E x \in events : OwnEvent(x, m)

LEMMA AllWorkedOn ==
  /\ PullGoesOn <=> \A m \in Adapters : WorkedOnAt(m)
  /\ PullGoesOn' <=> \A m \in Adapters : WorkedOnAt(m)'
BY DEF PullGoesOn, WorkedOnAt

LEMMA GoesOnIsWorkedOn == PullGoesOn => AdapterIsWorkedOn
BY DEF PullGoesOn, OwnEvent, AdapterIsWorkedOn

\* A step that neither makes a runtime that waits nor takes its event.
LEMMA StillWorkedOn ==
  ASSUME NEW m, WorkedOnAt(m), loop' = "run" => loop = "run",
         runtimes'[m] # NoRuntime /\ ~runtimes'[m].ready => Known(m) /\ ~runtimes[m].ready,
         \A x \in events : OwnEvent(x, m) => x \in events'
  PROVE  WorkedOnAt(m)'
BY DEF WorkedOnAt, Known, OwnEvent

\* A step that leaves an event that works on it.
LEMMA NewlyWorkedOn ==
  ASSUME NEW m, NEW x \in events', OwnEvent(x, m)
  PROVE  WorkedOnAt(m)'
BY DEF WorkedOnAt, OwnEvent

LEMMA PullKeepsWorking ==
  ASSUME RuntimeTypeOK, KindsAreKept, NEW e, RunStateMachine(e), ProcessPullModelEvent(e),
         NEW n \in Adapters, WorkedOnAt(n)
  PROVE  WorkedOnAt(n)'
<1>1. /\ e \in events /\ e.type = "pull" /\ loop = "run"
      /\ e.model \in Names /\ e.call \in Calls \cup {NoCall}
      /\ Names = Models \cup Adapters /\ Models \cap Adapters = {}
      /\ BaseOf \in [Adapters -> Models] /\ n \in Names
      /\ runtimes \in [Names -> Runtime \cup {NoRuntime}]
  BY EventsByType, RuntimeAssumption
     DEF RunStateMachine, ProcessPullModelEvent, RuntimeTypeOK, Names
<1>2. \A x \in events : OwnEvent(x, n) => x \in events'
  BY <1>1, HandlersSend DEF OwnEvent
<1>3. ASSUME runtimes'[n] # NoRuntime /\ ~runtimes'[n].ready => Known(n) /\ ~runtimes[n].ready
      PROVE  WorkedOnAt(n)'
  BY <1>1, <1>2, <1>3, StillWorkedOn
<1>4. CASE PullIsReady(e) \/ PullHasFailed(e)
  BY <1>3, <1>4 DEF PullIsReady, PullHasFailed, Known
<1>5. CASE PullIsInProgress(e)
  <2>1. Known(e.model) /\ ~runtimes[e.model].ready
    BY <1>5 DEF PullIsInProgress
  <2>2. \A k \in Names : k # e.model => runtimes'[k] = runtimes[k]
    BY <1>1, <1>5, Joined
  <2> QED
    BY <1>1, <1>3, <2>1, <2>2 DEF Known
<1>6. CASE PullNewModel(e) \/ PullNeedsBase(e)
  <2>1. PICK b \in Models : \E rt : runtimes' = [runtimes EXCEPT ![b] = rt]
    BY <1>1, <1>6 DEF PullNewModel, PullNeedsBase
  <2>2. n # b
    BY <1>1
  <2>3. runtimes'[n] = runtimes[n]
    BY <1>1, <2>1, <2>2
  <2> QED
    BY <1>3, <2>3 DEF Known
<1>7. CASE PullNewAdapter(e)
  <2>1. CASE Fails
    BY <1>3, <2>1 DEF Fails, Known
  <2>2. CASE ~Fails
    <3>1. PICK p \in up : /\ runtimes' = [runtimes EXCEPT ![e.model] =
                                NewPending(TRUE, NoConfig, NewWaitChs(e.call))]
                          /\ PullStatusEvent(e.model, PodAddr(p), "none") \in events'
      BY <1>7, <2>2 DEF PullNewAdapter
    <3>2. OwnEvent(PullStatusEvent(e.model, PodAddr(p), "none"), e.model)
      BY DEF OwnEvent, PullStatusEvent
    <3>3. CASE n = e.model
      BY <3>1, <3>2, <3>3, NewlyWorkedOn
    <3>4. CASE n # e.model
      BY <1>1, <1>3, <3>1, <3>4 DEF Known
    <3> QED
      BY <3>3, <3>4
  <2> QED
    BY <2>1, <2>2
<1> QED
  BY <1>4, <1>5, <1>6, <1>7 DEF ProcessPullModelEvent

LEMMA OtherHandlersKeepWorking ==
  ASSUME RuntimeTypeOK, KindsAreKept, NEW e, RunStateMachine(e), ~ProcessPullModelEvent(e),
         NEW n \in Adapters, WorkedOnAt(n)
  PROVE  WorkedOnAt(n)'
<1>1. /\ e \in events /\ e \in Event /\ loop = "run"
      /\ Names = Models \cup Adapters /\ Models \cap Adapters = {} /\ n \in Names
      /\ runtimes \in [Names -> Runtime \cup {NoRuntime}]
  BY RuntimeAssumption DEF RunStateMachine, RuntimeTypeOK, Names
<1>2. \A x \in events : x # e => x \in events'
  BY HandlersSend
<1>3. ASSUME runtimes'[n] # NoRuntime /\ ~runtimes'[n].ready => Known(n) /\ ~runtimes[n].ready,
             ~OwnEvent(e, n)
      PROVE  WorkedOnAt(n)'
  BY <1>1, <1>2, <1>3, StillWorkedOn
<1>4. ASSUME runtimes'[n] = NoRuntime \/ loop' # "run"
      PROVE  WorkedOnAt(n)'
  BY <1>4 DEF WorkedOnAt, Known
<1>5. CASE ProcessDeleteModelEvent(e)
  <2>1. e.model \in Names
    BY <1>1, <1>5, EventsByType DEF ProcessDeleteModelEvent
  <2>2. CASE ~Known(e.model) /\ UNCHANGED runtimes
    BY <1>3, <1>4, <2>2 DEF OwnEvent, Known
  <2>3. CASE DeleteAdapter(e)
    <3>1. CASE Fails
      BY <1>4, <3>1 DEF Fails
    <3>2. CASE ~Fails
      <4>1. DropRuntime(e.model) /\ Known(e.model)
        BY <2>3, <3>2 DEF DeleteAdapter
      <4>2. /\ \A k \in Names : k # e.model => runtimes'[k] = runtimes[k]
            /\ runtimes'[e.model] = NoRuntime \/ loop' = "stuck"
        BY <2>1, <4>1, DropAnswers
      <4> QED
        BY <1>1, <1>3, <1>4, <4>2 DEF OwnEvent, Known
    <3> QED
      BY <3>1, <3>2
  <2>4. CASE DeleteModelRuntime(e)
    <3>1. UNCHANGED runtimes /\ Known(e.model) /\ ~runtimes[e.model].lora
      BY <2>4 DEF DeleteModelRuntime
    <3>2. n # e.model
      BY <2>1, <3>1 DEF KindsAreKept
    <3> QED
      BY <1>3, <3>1, <3>2 DEF OwnEvent, Known
  <2> QED
    BY <1>5, <2>2, <2>3, <2>4 DEF ProcessDeleteModelEvent
<1>6. CASE ProcessUpdateModelEvent(e)
  <2>1. ~OwnEvent(e, n)
    BY <1>6 DEF ProcessUpdateModelEvent, OwnEvent
  <2>2. \/ UNCHANGED runtimes
        \/ e.model \in Models
           /\ runtimes' = [runtimes EXCEPT ![e.model] = [@ EXCEPT !.mci = config[e.model]]]
    BY <1>6 DEF ProcessUpdateModelEvent
  <2>3. e.model \in Models => n # e.model
    BY <1>1
  <2> QED
    BY <1>1, <1>3, <2>1, <2>2, <2>3 DEF Known
<1>7. CASE ProcessReconcileStatefulSetEvent(e)
  <2> DEFINE m == e.model
             rt == Reconciled(m)
  <2>1. m \in Models /\ m \in Names /\ n # m /\ ~OwnEvent(e, n)
    BY <1>1, <1>7, EventsByType DEF ProcessReconcileStatefulSetEvent, OwnEvent
  <2>2. CASE ReconcileGone(e)
    <3>1. UNCHANGED runtimes \/ (Known(m) /\ DropRuntime(m))
      BY <2>2 DEF ReconcileGone
    <3>2. \A k \in Names : k # m => runtimes'[k] = runtimes[k]
      BY <2>1, <3>1, DropAnswers
    <3> QED
      BY <1>1, <1>3, <2>1, <3>2 DEF Known
  <2>3. CASE ReconcileFound(e)
    <3>1. rt \in Runtime
      BY <1>1, <2>1, Typed, NewRuntimes DEF Reconciled
    <3>2. \/ \E new : runtimes' = [runtimes EXCEPT ![m] = new]
          \/ CloseWaitChs(m, rt, "Unschedulable")
      BY <2>3 DEF ReconcileFound
    <3>3. \A k \in Names : k # m => runtimes'[k] = runtimes[k]
      BY <1>1, <2>1, <3>1, <3>2, CloseAnswers DEF Reasons
    <3> QED
      BY <1>1, <1>3, <2>1, <3>3 DEF Known
  <2> QED
    BY <1>7, <2>2, <2>3 DEF ProcessReconcileStatefulSetEvent
<1>8. CASE ProcessReadinessCheckEvent(e)
  <2> DEFINE m == e.model
             rt == [BecomeReady(runtimes[m], e.addr) EXCEPT !.pending = <<>>]
  <2>1. m \in Names /\ e.type = "readiness" /\ e.addr \in Addr
    BY <1>1, <1>8, EventsByType DEF ProcessReadinessCheckEvent
  <2>2. n # m => ~OwnEvent(e, n)
    BY DEF OwnEvent
  <2>3. CASE CheckIsMoot(e)
    BY <1>3, <1>4, <2>1, <2>2, <2>3 DEF CheckIsMoot, Known
  <2>4. CASE CheckPasses(e)
    <3>1. Known(m) /\ CloseWaitChs(m, rt, "")
      BY <2>4 DEF CheckPasses
    <3>2. rt \in Runtime /\ rt.ready
      <4>1. runtimes[m] \in Runtime
        BY <2>1, <3>1, Typed
      <4>2. BecomeReady(runtimes[m], e.addr) \in Runtime /\ BecomeReady(runtimes[m], e.addr).ready
        BY <2>1, <4>1, RuntimeUpdates DEF BecomeReady, Runtime
      <4> QED
        BY <4>2, RuntimeUpdates DEF Runtime
    <3>3. /\ \A k \in Names : k # m => runtimes'[k] = runtimes[k]
          /\ runtimes'[m].ready
      BY <2>1, <3>1, <3>2, CloseAnswers DEF Reasons
    <3>4. CASE n = m
      BY <3>3, <3>4 DEF WorkedOnAt
    <3> HIDE DEF m
    <3>5. CASE n # m
      BY <1>1, <1>3, <2>2, <3>3, <3>5 DEF Known
    <3> QED
      BY <3>4, <3>5
  <2>5. CASE CheckIsRetried(e)
    <3>1. UNCHANGED <<runtimes, loop>> /\ RetryOf(e) \in events' /\ Known(m)
      BY <2>5 DEF CheckIsRetried
    <3>2. OwnEvent(e, n) => OwnEvent(RetryOf(e), n)
      BY <2>1 DEF RetryOf, ReadinessEvent, OwnEvent
    <3>3. CASE OwnEvent(e, n)
      BY <3>1, <3>2, <3>3, NewlyWorkedOn
    <3>4. CASE ~OwnEvent(e, n)
      BY <1>3, <3>1, <3>4 DEF Known
    <3> QED
      BY <3>3, <3>4
  <2>6. CASE CheckFails(e)
    <3>1. /\ Known(m) /\ CloseWaitChs(m, runtimes[m], "unreachable")
          /\ Blocks(runtimes[m], "unreachable") \/ DeleteEvent(m) \in events'
      BY <2>6 DEF CheckFails
    <3>2. runtimes[m] \in Runtime /\ "unreachable" \in Reasons
      BY <2>1, <3>1, Typed DEF Reasons
    <3>3. \A k \in Names : k # m => runtimes'[k] = runtimes[k]
      BY <2>1, <3>1, <3>2, CloseAnswers
    <3>4. loop' = "stuck" \/ DeleteEvent(m) \in events'
      BY <3>1 DEF CloseWaitChs
    <3>5. OwnEvent(DeleteEvent(m), m)
      BY DEF DeleteEvent, OwnEvent
    <3> HIDE DEF m
    <3>6. CASE n = m
      BY <1>4, <3>4, <3>5, <3>6, NewlyWorkedOn
    <3>7. CASE n # m
      BY <1>1, <1>3, <2>2, <3>3, <3>7 DEF Known
    <3> QED
      BY <3>6, <3>7
  <2> QED
    BY <1>8, <2>3, <2>4, <2>5, <2>6 DEF ProcessReadinessCheckEvent
<1>9. CASE ProcessLoRAAdapterPullStatusCheckEvent(e)
  <2>1. UNCHANGED runtimes /\ e.type = "pullStatus"
    BY <1>9 DEF ProcessLoRAAdapterPullStatusCheckEvent, PullCheckFails, PullCheckAgain, PullCheckLoads
  <2>2. CASE ~OwnEvent(e, n)
    BY <1>3, <2>1, <2>2 DEF Known
  <2>3. CASE OwnEvent(e, n)
    <3>1. e.waiter = "none" /\ e.model = n
      BY <2>1, <2>3 DEF OwnEvent
    <3>2. CASE PullCheckFails(e)
      BY <1>4, <3>1, <3>2 DEF PullCheckFails
    <3>3. CASE PullCheckAgain(e)
      BY <1>1, <2>3, <3>3, NewlyWorkedOn DEF PullCheckAgain
    <3>4. CASE PullCheckLoads(e)
      <4>1. ReadinessEvent(e.model, e.addr, e.addr.pod, 0, e.waiter) \in events'
        BY <3>4 DEF PullCheckLoads
      <4>2. OwnEvent(ReadinessEvent(e.model, e.addr, e.addr.pod, 0, e.waiter), n)
        BY <3>1 DEF ReadinessEvent, OwnEvent
      <4> QED
        BY <4>1, <4>2, NewlyWorkedOn
    <3> QED
      BY <1>9, <3>2, <3>3, <3>4 DEF ProcessLoRAAdapterPullStatusCheckEvent
  <2> QED
    BY <2>2, <2>3
<1>10. CASE ProcessLoadLoRAAdapterEvent(e)
  BY <1>3, <1>10 DEF ProcessLoadLoRAAdapterEvent, Fails, OwnEvent, Known
<1>11. CASE ProcessLoRAAdapterStatusUpdateEvent(e)
  <2>1. ~OwnEvent(e, n)
    BY <1>11 DEF ProcessLoRAAdapterStatusUpdateEvent, OwnEvent
  <2>2. CASE Panics(e)
    BY <1>4, <1>11, <2>2 DEF ProcessLoRAAdapterStatusUpdateEvent
  <2>3. CASE ~Panics(e)
    <3>1. runtimes'[n] # NoRuntime /\ ~runtimes'[n].ready => runtimes'[n] = runtimes[n]
      BY <1>1, <1>11, <2>3, UpdatedRuntimes
    <3> QED
      BY <1>3, <2>1, <3>1 DEF Known
  <2> QED
    BY <2>2, <2>3
<1> QED
  BY <1>5, <1>6, <1>7, <1>8, <1>9, <1>10, <1>11 DEF RunStateMachine

LEMMA HandlersKeepWorking ==
  ASSUME RuntimeTypeOK, KindsAreKept, PullGoesOn, NEW e, RunStateMachine(e)
  PROVE  PullGoesOn'
BY AllWorkedOn, PullKeepsWorking, OtherHandlersKeepWorking

LEMMA ClientsKeepWorking ==
  ASSUME PullGoesOn, Cluster \/ Callers \/ ManagerRestarts \/ \E e : Request(e)
  PROVE  PullGoesOn'
<1>1. CASE ManagerRestarts
  BY <1>1 DEF ManagerRestarts, PullGoesOn, Known, Names
<1>2. CASE Cluster \/ Callers \/ \E e : Request(e)
  <2>1. UNCHANGED <<runtimes, loop>> /\ events \subseteq events'
    BY <1>2 DEF Cluster, Callers, Request, StsProgress, StsDisturbed, StsPhase, ConfigChanges,
                PodStarts, PodStops, CallerLeaves, PullModel, managerVars
  <2> QED
    BY <2>1, AllWorkedOn, StillWorkedOn DEF Known
<1> QED
  BY <1>1, <1>2
-----------------------------------------------------------------------------
(***************************************************************************)
(* The inductive invariant of the manager, and its steps: the handlers,    *)
(* the cluster and the callers, and what a client of the manager does to   *)
(* it, which is to send events.                                            *)
(***************************************************************************)
ManagerInv ==
  /\ RuntimeTypeOK /\ KindsAreKept /\ PullsAreOfPods
  /\ ReadyIsServed /\ RuntimeIsAutoscaled /\ WaiterIsKnown
  /\ ClusterIsFollowed /\ DeletionIsHeard /\ PullGoesOn

LEMMA HandlersKeepManagerInv ==
  ASSUME ManagerInv, NEW e, RunStateMachine(e)
  PROVE  ManagerInv'
BY HandlersKeepTypes, HandlersKeepPods, HandlersKeepWell, HandlersKeepScalers, HandlersKeepWaiters,
   HandlersKeepFollowed, HandlersKeepWorking DEF ManagerInv

LEMMA OthersKeepManagerInv ==
  ASSUME ManagerInv, Cluster \/ Callers \/ ManagerRestarts
  PROVE  ManagerInv'
BY ClusterKeepsTypes, ClientsKeepTypes, ClientsKeepPods, ClientsKeepWell, ClientsKeepScalers,
   ClientsKeepWaiters, ClientsKeepFollowed, ClientsKeepWorking DEF ManagerInv

LEMMA StutterKeepsManagerInv ==
  ASSUME ManagerInv, UNCHANGED rmVars
  PROVE  ManagerInv'
<1>1. UNCHANGED <<runtimes, events, inProgress, loop, scalers, calls, sts, ip, up, loaded, config,
                  disturbances>>
  BY DEF rmVars, managerVars, clusterVars, podVars
<1> QED
  BY <1>1 DEF ManagerInv, RuntimeTypeOK, KindsAreKept, PullsAreOfPods, ReadyIsServed,
     RuntimeIsAutoscaled, WaiterIsKnown, ClusterIsFollowed, DeletionIsHeard, PullGoesOn,
     Known, HasExited, IsWaitedOn, IsAbout, OwnEvent

\* Events that are sent, once or again; none of them is the check of a pull.
LEMMA SendingKeepsManagerInv ==
  ASSUME ManagerInv, NEW sent \in SUBSET Event, \A x \in sent : x.type # "pullStatus",
         events' = events \cup sent,
         UNCHANGED <<runtimes, inProgress, loop, scalers, calls, clusterVars>>
  PROVE  ManagerInv'
<1>1. UNCHANGED <<runtimes, inProgress, loop, scalers, calls, sts, ip, up, loaded, config,
                  disturbances>>
  BY DEF clusterVars, podVars
<1>2. RuntimeTypeOK'
  BY <1>1 DEF ManagerInv, RuntimeTypeOK
<1>3. (KindsAreKept /\ ReadyIsServed /\ RuntimeIsAutoscaled)'
  BY <1>1 DEF ManagerInv, KindsAreKept, ReadyIsServed, RuntimeIsAutoscaled, Known, HasExited
<1>4. PullsAreOfPods'
  BY DEF ManagerInv, PullsAreOfPods
<1>5. WaiterIsKnown'
  BY <1>1 DEF ManagerInv, WaiterIsKnown, IsWaitedOn, Known, HasExited
<1>6. (ClusterIsFollowed /\ DeletionIsHeard)'
  <2>1. \A m \in Models : FollowedAt(m)
    BY AllFollowed DEF ManagerInv
  <2>2. \A m \in Models : FollowedAt(m)'
    BY <1>1, <2>1, StillFollowed DEF Known
  <2> QED
    BY <2>2, AllFollowed
<1>7. PullGoesOn'
  BY <1>1, AllWorkedOn, StillWorkedOn DEF ManagerInv, Known
<1> QED
  BY <1>2, <1>3, <1>4, <1>5, <1>6, <1>7 DEF ManagerInv

\* A StatefulSet that is applied next to the loop of the manager, which is told.
LEMMA ApplyingKeepsManagerInv ==
  ASSUME ManagerInv, NEW m \in Models, NEW s, s.phase # "none",
         sts' = [sts EXCEPT ![m] = s], RuntimeTypeOK',
         events' = events \cup {ReconcileEvent(m)},
         UNCHANGED <<runtimes, inProgress, loop, scalers, calls>>
  PROVE  ManagerInv'
<1>1. DOMAIN sts = Models
  BY DEF ManagerInv, RuntimeTypeOK
<1>2. (KindsAreKept /\ ReadyIsServed /\ RuntimeIsAutoscaled)'
  BY DEF ManagerInv, KindsAreKept, ReadyIsServed, RuntimeIsAutoscaled, Known, HasExited
<1>3. PullsAreOfPods'
  BY DEF ManagerInv, PullsAreOfPods, ReconcileEvent
<1>4. WaiterIsKnown'
  BY DEF ManagerInv, WaiterIsKnown, IsWaitedOn, Known, HasExited
<1>5. (ClusterIsFollowed /\ DeletionIsHeard)'
  <2>1. \A n \in Models : FollowedAt(n)
    BY AllFollowed DEF ManagerInv
  <2>2. ASSUME NEW n \in Models, n # m PROVE FollowedAt(n)'
    <3>1. sts'[n] = sts[n]
      BY <1>1, <2>2
    <3> QED
      BY <2>1, <2>2, <3>1, StillFollowed DEF Known
  <2>3. FollowedAt(m)'
    BY ReconciledIsFollowed
  <2> QED
    BY <2>2, <2>3, AllFollowed
<1>6. PullGoesOn'
  BY AllWorkedOn, StillWorkedOn DEF ManagerInv, Known
<1> QED
  BY <1>2, <1>3, <1>4, <1>5, <1>6 DEF ManagerInv
=============================================================================
