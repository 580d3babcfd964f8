----------------------------- MODULE TaskExchange -----------------------------
(***************************************************************************)
(* How a server learns of the engines that are connected to another one:   *)
(* server/internal/taskexchanger and the handler of the internal service   *)
(* (server/internal/server/internal_server.go).                            *)
(*                                                                         *)
(* The local server has a task receiver for the remote one: a client that  *)
(* keeps a stream open and reports the engines that are connected here.    *)
(* The remote server has a handler per stream and a task sender per server *)
(* pod, which enters what is reported in the engine table of its task      *)
(* processor; tasks for these engines are sent on the stream that the      *)
(* table names.  The other direction is the same with the roles exchanged. *)
(*                                                                         *)
(* The handlers, the reconciler of pods and the receiver's loops run side  *)
(* by side; E.mu and the receiver's mu make each step below atomic.  A     *)
(* stream that breaks loses what was not received.  It is left to the      *)
(* network whether the remote end of a broken stream notices before the    *)
(* receiver dials again (retryInterval): LateHandlers.                     *)
(***************************************************************************)
EXTENDS FiniteSets, Naturals, Sequences

CONSTANTS Engines, EngineStates, NoEngine, NoSender,
          Streams,        \* bound: the streams in the order they are dialled
          MaxLocalChanges,  \* bound: the changes of the local engines
          LateHandlers    \* BOOLEAN

\* A taskSender; version is a history variable, that of the last status.
Sender == [srv : Streams, activeEngines : SUBSET Engines, version : 0..(MaxLocalChanges + 1)]

ASSUME ExchangeAssumption ==
  /\ NoEngine \notin EngineStates /\ NoSender \notin Sender
  /\ Streams \subseteq Nat \ {0} /\ LateHandlers \in BOOLEAN
  /\ MaxLocalChanges \in Nat

VARIABLES
  localEngines,   \* P.LocalEngines at the local server
  changes,        \* bound, and the version of localEngines
  pod,            \* the remote server's pod: noIP, running, terminating, gone
  receiver,       \* none, dialing, up, stopping: the goroutine of run
  marked,         \* isShutdown of the receiver
  cache,          \* engineStatuses of the receiver
  shutdown,       \* StartGracefulShutdown has been called
  stream,         \* idle, open or closed
  inTransit,      \* the statuses sent on a stream and not received
  handler,        \* ProcessTasksInternal of a stream: none, reading, registered
  sender,         \* the task sender of the local server at the remote one
  table           \* the engine table of the remote server

localVars == <<localEngines, changes, pod, shutdown>>
receiverVars == <<receiver, marked, cache>>
streamVars == <<stream, inTransit>>
remoteVars == <<handler, sender, table>>
exchangeVars == <<localVars, receiverVars, streamVars, remoteVars>>

Status == [state : EngineStates, ready : BOOLEAN]
Statuses == [Engines -> Status \cup {NoEngine}]
\* A ServerStatus; version is a history variable, of what localEngines was.
ServerStatus == [engines : Statuses, version : 0..(MaxLocalChanges + 1)]
NoStatuses == [e \in Engines |-> NoEngine]
NothingHeld == [e \in Engines |-> [status |-> NoEngine, srv |-> 0]]

ExchangeTypeOK ==
  /\ localEngines \in [Engines -> EngineStates \cup {NoEngine}]
  /\ changes \in 0..MaxLocalChanges
  /\ pod \in {"noIP", "running", "terminating", "gone"}
  /\ receiver \in {"none", "dialing", "up", "stopping"}
  /\ marked \in BOOLEAN /\ cache \in Statuses /\ shutdown \in BOOLEAN
  /\ stream \in [Streams -> {"idle", "open", "closed"}]
  /\ inTransit \in [Streams -> Seq(ServerStatus)]
  /\ handler \in [Streams -> {"none", "reading", "registered"}]
  /\ sender \in Sender \cup {NoSender}
  /\ table \in [Engines -> [status : Status \cup {NoEngine}, srv : Streams \cup {0}]]

ExchangeInit ==
  /\ localEngines \in [Engines -> EngineStates \cup {NoEngine}]
  /\ changes = 0 /\ pod = "noIP" /\ shutdown = FALSE
  /\ receiver = "none" /\ marked = FALSE /\ cache = NoStatuses
  /\ stream = [s \in Streams |-> "idle"] /\ inTransit = [s \in Streams |-> <<>>]
  /\ handler = [s \in Streams |-> "none"]
  /\ sender = NoSender /\ table = NothingHeld

OpenStreams == {s \in Streams : stream[s] = "open"}
-----------------------------------------------------------------------------
(***************************************************************************)
(* The local server.  Reconcile creates a receiver for a pod that has an   *)
(* IP and is not being terminated, unless there is one, and stops the      *)
(* receiver of a pod that is gone.                                         *)
(***************************************************************************)
CreateTaskReceiver ==
  /\ pod = "running" /\ receiver = "none"
  /\ receiver' = "dialing" /\ marked' = FALSE /\ cache' = NoStatuses
  /\ UNCHANGED <<localVars, streamVars, remoteVars>>

\* The receiver leaves taskReceivers; its goroutine has its context cancelled.
DeleteTaskReceiver ==
  /\ pod = "gone" /\ receiver \in {"dialing", "up"}
  /\ receiver' = IF receiver = "up" THEN "stopping" ELSE "none"
  /\ UNCHANGED <<marked, cache, localVars, streamVars, remoteVars>>

\* A bug: what the last stream was told counts as told.
DialWithOldCache ==
  /\ receiver = "dialing" /\ pod \in {"running", "terminating"}
  /\ LateHandlers \/ \A s \in Streams : handler[s] = "none"
  /\ \E s \in Streams :
       /\ stream[s] = "idle" /\ \A t \in Streams : stream[t] = "idle" => s <= t
       /\ stream' = [stream EXCEPT ![s] = "open"]
       /\ handler' = [handler EXCEPT ![s] = "reading"]
  /\ receiver' = "up"
  /\ UNCHANGED <<marked, cache, localVars, inTransit, sender, table>>

\* runInternal opens the next stream and clears the cache.
Dial ==
  /\ receiver = "dialing" /\ pod \in {"running", "terminating"}
  /\ LateHandlers \/ \A s \in Streams : handler[s] = "none"
  /\ \E s \in Streams :
       /\ stream[s] = "idle" /\ \A t \in Streams : stream[t] = "idle" => s <= t
       /\ stream' = [stream EXCEPT ![s] = "open"]
       /\ handler' = [handler EXCEPT ![s] = "reading"]
  /\ receiver' = "up" /\ cache' = NoStatuses
  /\ UNCHANGED <<marked, localVars, inTransit, sender, table>>

\* buildStatuses: every local engine, as ready as this server is.
BuildStatuses(ready) ==
  [e \in Engines |-> IF localEngines[e] = NoEngine THEN NoEngine
                     ELSE [state |-> localEngines[e], ready |-> ready /\ ~marked]]

\* needStatusUpdateForAllTenants compares with what was sent last.
NeedStatusUpdate(new) == new # cache

\* A bug: statuses are sent side by side and overtake each other.
SendServerStatusUnordered(ready) ==
  LET new == BuildStatuses(ready)
      status == [engines |-> new, version |-> changes + 1]
  IN /\ NeedStatusUpdate(new)
     /\ cache' = new
     /\ \E s \in OpenStreams :
          \/ inTransit' = [inTransit EXCEPT ![s] = Append(@, status)]
          \/ inTransit' = [inTransit EXCEPT ![s] = <<status>> \o @]

\* sendServerStatus, when something differs from what was sent last.
SendServerStatus(ready) ==
  LET new == BuildStatuses(ready)
  IN /\ NeedStatusUpdate(new)
     /\ cache' = new
     /\ \E s \in OpenStreams :
          inTransit' = [inTransit EXCEPT ![s] = Append(@, [engines |-> new, version |-> changes + 1])]

ReportStatus ==
  /\ receiver = "up" /\ SendServerStatus(TRUE)
  /\ UNCHANGED <<receiver, marked, localVars, stream, remoteVars>>

\* Send or Recv fails: the run ends and is retried.
NoticeBrokenStream ==
  /\ receiver = "up" /\ OpenStreams = {}
  /\ receiver' = "dialing"
  /\ UNCHANGED <<marked, cache, localVars, streamVars, remoteVars>>

\* A stopped receiver reports that no engine is ready,
ReportNotReady ==
  /\ receiver = "stopping" /\ SendServerStatus(FALSE)
  /\ UNCHANGED <<receiver, marked, localVars, stream, remoteVars>>

\* and closes its stream.  It is not created again: the pod is gone.
StopReceiver ==
  /\ receiver = "stopping" /\ (~NeedStatusUpdate(BuildStatuses(FALSE)) \/ OpenStreams = {})
  /\ receiver' = "none"
  /\ stream' = [s \in Streams |-> IF stream[s] = "open" THEN "closed" ELSE stream[s]]
  /\ UNCHANGED <<marked, cache, localVars, inTransit, remoteVars>>

\* E.StartGracefulShutdown marks the receivers there are.
StartExchangeShutdown ==
  /\ ~shutdown /\ shutdown' = TRUE
  /\ marked' = (marked \/ receiver \in {"dialing", "up"})
  /\ UNCHANGED <<localEngines, changes, pod, receiver, cache, streamVars, remoteVars>>
-----------------------------------------------------------------------------
(***************************************************************************)
(* The remote server.                                                      *)
(***************************************************************************)
\* AddOrUpdateServerStatus: the task sender of a pod keeps the stream it was
\* created with.
AddOrUpdateServerStatus(s, status) ==
  LET srv == IF sender = NoSender THEN s ELSE sender.srv
      old == IF sender = NoSender THEN {} ELSE sender.activeEngines
      new == {e \in Engines : status.engines[e] # NoEngine}
  IN /\ sender' = [srv |-> srv, activeEngines |-> new, version |-> status.version]
     /\ table' = [e \in Engines |->
          CASE e \in new -> [status |-> status.engines[e], srv |-> srv]
            [] e \in old \ new -> NothingHeld[e]
            [] OTHER -> table[e]]

\* An iteration of the handler.
ReceiveStatus(s) ==
  /\ handler[s] # "none" /\ stream[s] = "open" /\ inTransit[s] # <<>>
  /\ AddOrUpdateServerStatus(s, Head(inTransit[s]))
  /\ handler' = [handler EXCEPT ![s] = "registered"]
  /\ inTransit' = [inTransit EXCEPT ![s] = Tail(@)]
  /\ UNCHANGED <<localVars, receiverVars, stream>>

\* A bug: the engines stay in the table.
RemoveOnlyServer == sender' = NoSender /\ UNCHANGED table

RemoveServer ==
  /\ sender' = NoSender
  /\ table' = [e \in Engines |-> IF sender # NoSender /\ e \in sender.activeEngines
                                   THEN NothingHeld[e] ELSE table[e]]

\* The handler of a stream that is over returns; it removes the server if it
\* has received a status.
HandlerReturns(s) ==
  /\ handler[s] # "none" /\ stream[s] = "closed"
  /\ handler' = [handler EXCEPT ![s] = "none"]
  /\ inTransit' = [inTransit EXCEPT ![s] = <<>>]
  /\ IF handler[s] = "registered" THEN RemoveServer ELSE UNCHANGED <<sender, table>>
  /\ UNCHANGED <<localVars, receiverVars, stream>>
-----------------------------------------------------------------------------
\* Engines connect, disconnect and report.
LocalEnginesChange ==
  /\ changes < MaxLocalChanges /\ changes' = changes + 1
  /\ \E e \in Engines, new \in EngineStates \cup {NoEngine} :
       localEngines[e] # new /\ localEngines' = [localEngines EXCEPT ![e] = new]
  /\ UNCHANGED <<pod, shutdown, receiverVars, streamVars, remoteVars>>

PodProceeds ==
  /\ \/ pod = "noIP" /\ pod' = "running"
     \/ pod = "running" /\ pod' = "terminating"
     \/ pod = "terminating" /\ pod' = "gone"
  /\ UNCHANGED <<localEngines, changes, shutdown, receiverVars, streamVars, remoteVars>>

StreamBreaks ==
  /\ \E s \in OpenStreams : stream' = [stream EXCEPT ![s] = "closed"]
  /\ UNCHANGED <<localVars, receiverVars, inTransit, remoteVars>>

Receiver ==
  \/ CreateTaskReceiver \/ DeleteTaskReceiver \/ Dial \/ ReportStatus
  \/ NoticeBrokenStream \/ ReportNotReady \/ StopReceiver

ExchangeNext ==
  \/ Receiver \/ StartExchangeShutdown
  \/ \E s \in Streams : ReceiveStatus(s) \/ HandlerReturns(s)
  \/ LocalEnginesChange \/ PodProceeds \/ StreamBreaks

ExchangeSpec == ExchangeInit /\ [][ExchangeNext]_exchangeVars

\* The loops of the receiver run until they end, the handlers receive what
\* arrives, and the connection of a stream that is over is closed.
ExchangeFairness ==
  /\ WF_exchangeVars(CreateTaskReceiver) /\ WF_exchangeVars(DeleteTaskReceiver)
  /\ WF_exchangeVars(Dial) /\ WF_exchangeVars(ReportStatus) /\ WF_exchangeVars(NoticeBrokenStream)
  /\ WF_exchangeVars(ReportNotReady) /\ WF_exchangeVars(StopReceiver)
  /\ \A s \in Streams : WF_exchangeVars(ReceiveStatus(s)) /\ WF_exchangeVars(HandlerReturns(s))
-----------------------------------------------------------------------------
(***************************************************************************)
(* The remote table holds what the local engines have been at some time,   *)
(* and never goes back to an older report: neither a stream that was       *)
(* replaced nor a retry brings one back (task_receiver.go 137-243,         *)
(* task_sender.go 47-76).                                                  *)
(***************************************************************************)
EnginesHeld == INSTANCE Mirror WITH
  now <- changes + 1, held <- IF sender = NoSender THEN 0 ELSE sender.version

TableMirrorsEngines == EnginesHeld!Spec

(***************************************************************************)
(* Every engine of the other server in the table belongs to its task       *)
(* sender, is reached on the sender's stream, and goes when the handler of *)
(* that stream returns: no task is sent to an engine that nobody would     *)
(* remove (task_sender.go 47-81, internal_server.go 99-117).               *)
(***************************************************************************)
TableIsOwned ==
  \A e \in Engines :
    table[e].srv # 0 =>
      /\ sender # NoSender /\ e \in sender.activeEngines /\ table[e].srv = sender.srv
      /\ handler[sender.srv] = "registered"

(***************************************************************************)
(* When the engines and the network come to rest, the remote table is what *)
(* the receiver reports, on the open stream; without a stream it is empty. *)
(* A status is sent only when it differs from the last one, so one that is *)
(* lost, or undone by the end of an older stream, is never repaired.       *)
(***************************************************************************)
TableIsRight ==
  IF receiver = "up" /\ OpenStreams # {}
    THEN \A e \in Engines :
           /\ table[e].status = BuildStatuses(TRUE)[e]
           /\ table[e].srv # 0 => stream[table[e].srv] = "open"
    ELSE table = NothingHeld

TableConverges == <>[]TableIsRight

=============================================================================
