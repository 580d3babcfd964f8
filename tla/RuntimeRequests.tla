--------------------------- MODULE RuntimeRequests ---------------------------
(***************************************************************************)
(* How the engine sends a task's request to a pod of the model's runtime:  *)
(* sendHTTPRequestToRuntime of the processor                               *)
(* (engine/internal/processor/processor.go), which picks an address,       *)
(* blacklists it when the request fails and tries again, and the address   *)
(* set of a runtime (engine/internal/runtime/runtime.go), from which       *)
(* several tasks pick at once while pods come and go.                      *)
(*                                                                         *)
(* Addresses are numbers in the order in which the code sorts them.  Time  *)
(* is what is left of each blacklisting.  What the request and the         *)
(* response say is abstracted: the response is an HTTP status.             *)
(***************************************************************************)
EXTENDS FiniteSetsExt, Naturals

CONSTANTS
  Pods,                      \* the addresses of the model's runtime, in their order
  RuntimeTasks,
  RuntimeRequestMaxRetries,  \* 3 in the code
  BlacklistDuration,         \* in ticks of the clock
  MaxPodChanges              \* bound

ASSUME RuntimeRequestsAssumption ==
  /\ Pods \subseteq Nat /\ IsFiniteSet(Pods)
  /\ RuntimeRequestMaxRetries \in Nat \ {0} /\ BlacklistDuration \in Nat \ {0}
  /\ MaxPodChanges \in Nat

VARIABLES
  llm,         \* the manager's record of the runtime: absent, pending or ready
  addresses, blacklisted, nextTarget,   \* its address set; blacklisted: ticks that are left
  live,        \* the pods that answer
  attempts,    \* by task: where it is, its attempts and the address of the last one
  podChanges,  \* bound
  \* History, of each task since its first attempt: the addresses that it could
  \* pick and that answered all the time, and whether a blacklisting was forgotten.
  answering, forgotten

addrSetVars == <<addresses, blacklisted, nextTarget>>
runtimeRequestVars == <<llm, addrSetVars, live, attempts, podChanges, answering, forgotten>>

NewTask == [at |-> "pull", attempt |-> 0, addr |-> 0, status |-> 0]
HttpStatuses == {0, 200, 400, 500, 503}

RequestTypeOK ==
  /\ llm \in {"absent", "pending", "ready"}
  /\ addresses \subseteq Pods /\ live \subseteq Pods
  /\ blacklisted \in [Pods -> 0..BlacklistDuration] /\ nextTarget \in 0..Cardinality(Pods)
  /\ attempts \in [RuntimeTasks ->
       [at : {"pull", "get", "do", "blacklist", "done"}, attempt : 0..RuntimeRequestMaxRetries,
        addr : Pods \cup {0}, status : HttpStatuses]]
  /\ podChanges \in 0..MaxPodChanges
  /\ answering \in [RuntimeTasks -> SUBSET Pods] /\ forgotten \in [RuntimeTasks -> BOOLEAN]

RequestInit ==
  /\ llm = "ready" /\ addresses \in (SUBSET Pods) \ {{}}   \* the pods that have become ready so far
  /\ blacklisted = [a \in Pods |-> 0] /\ nextTarget = 0
  /\ live \in SUBSET Pods
  /\ attempts = [t \in RuntimeTasks |-> NewTask] /\ podChanges = 0
  /\ answering = [t \in RuntimeTasks |-> {}] /\ forgotten = [t \in RuntimeTasks |-> FALSE]
-----------------------------------------------------------------------------
(***************************************************************************)
(* A task.                                                                 *)
(***************************************************************************)
At1(t, at) == attempts[t].at = at
GoTo(t, at) == attempts' = [attempts EXCEPT ![t].at = at]
Answer(t, status) ==
  attempts' = [attempts EXCEPT ![t] = [@ EXCEPT !.at = "done", !.status = status, !.addr = 0]]

\* A bug: the blacklist is not looked at.
AllAddresses == addresses

\* runtimeAddressSet.get: a single address is returned even if it is blacklisted.
Candidates ==
  IF Cardinality(addresses) = 1 THEN addresses ELSE {a \in addresses : blacklisted[a] = 0}
Nth(S, i) == CHOOSE a \in S : Cardinality({b \in S : b < a}) = i

\* What a task can no longer pick, or does not answer, has not been there all the time.
Watch == answering' = [t \in RuntimeTasks |-> answering[t] \cap Candidates' \cap live']

\* sendRequestToRuntime: the model is pulled first.
PullFirst(t) ==
  /\ At1(t, "pull")
  /\ \/ /\ llm = "ready" /\ GoTo(t, "get")
        /\ answering' = [answering EXCEPT ![t] = Candidates \cap live]
     \/ /\ \E status \in {500, 503} : Answer(t, status)   \* the pull fails, or is canceled
        /\ UNCHANGED answering
  /\ UNCHANGED <<llm, addrSetVars, live, podChanges, forgotten>>

GetLLMAddress(t) ==
  /\ At1(t, "get")
  /\ IF llm # "ready" \/ Candidates = {}
     THEN Answer(t, 500) /\ UNCHANGED nextTarget
     ELSE LET n == Cardinality(Candidates) IN
          /\ attempts' = [attempts EXCEPT ![t] =
               [@ EXCEPT !.at = "do", !.addr = Nth(Candidates, nextTarget % n)]]
          /\ nextTarget' = IF Cardinality(addresses) = 1 THEN nextTarget ELSE (nextTarget + 1) % n
  /\ UNCHANGED <<llm, addresses, blacklisted, live, podChanges, answering, forgotten>>

\* buildRequest and Do.  A request that a pod has accepted fails when the pod
\* goes away; one that the task's context cancels is answered 503.
DoRequest(t) ==
  /\ At1(t, "do")
  /\ \/ attempts[t].addr \in live /\ \E status \in {200, 400} : Answer(t, status)
     \/ attempts[t].addr \notin live /\ GoTo(t, "blacklist")
     \/ Answer(t, 503)
  /\ UNCHANGED <<llm, addrSetVars, live, podChanges, answering, forgotten>>

BlacklistLLMAddress(t) ==
  /\ At1(t, "blacklist")
  /\ LET n == attempts[t].attempt + 1 IN
       attempts' = [attempts EXCEPT ![t] =
         IF llm # "ready" \/ n >= RuntimeRequestMaxRetries
         THEN [at |-> "done", attempt |-> n, addr |-> 0, status |-> 500]
         ELSE [@ EXCEPT !.at = "get", !.attempt = n]]
  /\ blacklisted' = IF llm = "ready" THEN [blacklisted EXCEPT ![attempts[t].addr] = BlacklistDuration]
                                     ELSE blacklisted
  /\ UNCHANGED <<llm, addresses, nextTarget, live, podChanges, forgotten>> /\ Watch
-----------------------------------------------------------------------------
(***************************************************************************)
(* The manager, the pods and the clock.                                    *)
(***************************************************************************)
Trying(t) == attempts[t].at \notin {"pull", "done"}
Forget == forgotten' = [t \in RuntimeTasks |-> forgotten[t] \/ Trying(t)]
PodChange == podChanges < MaxPodChanges /\ podChanges' = podChanges + 1

\* A readiness check has succeeded: a new address set, without its blacklist.
RuntimeIsReady(a) ==
  /\ PodChange /\ llm' = "ready" /\ addresses' = {a}
  /\ blacklisted' = [b \in Pods |-> 0] /\ nextTarget' = 0
  /\ UNCHANGED <<live, attempts>> /\ Watch /\ Forget

AddAddress(a) ==
  /\ PodChange /\ llm = "ready" /\ a \notin addresses /\ addresses' = addresses \cup {a}
  /\ UNCHANGED <<llm, blacklisted, nextTarget, live, attempts, forgotten>> /\ Watch

RemoveAddress(a) ==
  /\ PodChange /\ llm = "ready" /\ a \in addresses /\ addresses # {a}
  /\ addresses' = addresses \ {a}
  /\ UNCHANGED <<llm, blacklisted, nextTarget, live, attempts, forgotten>> /\ Watch

\* The runtime is deleted, or its stateful set has no ready pod any more.
RuntimeGoes ==
  /\ PodChange /\ llm' \in {"absent", "pending"} /\ addresses' = {}
  /\ UNCHANGED <<blacklisted, nextTarget, live, attempts, forgotten>> /\ Watch

PodComesOrGoes ==
  /\ PodChange /\ live' \in SUBSET Pods /\ live' # live
  /\ UNCHANGED <<llm, addrSetVars, attempts, forgotten>> /\ Watch

\* get drops what has expired, which it sees at its next call at the latest.
ClockTicks ==
  /\ blacklisted' = [a \in Pods |-> IF blacklisted[a] = 0 THEN 0 ELSE blacklisted[a] - 1]
  /\ IF \E a \in Pods : blacklisted[a] = 1 THEN Forget ELSE UNCHANGED forgotten
  /\ UNCHANGED <<llm, addresses, nextTarget, live, attempts, podChanges, answering>>

RequestNext ==
  \/ \E t \in RuntimeTasks :
       PullFirst(t) \/ GetLLMAddress(t) \/ DoRequest(t) \/ BlacklistLLMAddress(t)
  \/ \E a \in Pods : RuntimeIsReady(a) \/ AddAddress(a) \/ RemoveAddress(a)
  \/ RuntimeGoes \/ PodComesOrGoes \/ ClockTicks

RequestSpec == RequestInit /\ [][RequestNext]_runtimeRequestVars
-----------------------------------------------------------------------------
(***************************************************************************)
(* A task is not given up while a pod could have served it: with no more   *)
(* addresses than attempts, a task that is answered 500 for its requests   *)
(* did not have an address that it could pick and that answered from its   *)
(* first attempt to its last.  The attempts of other tasks move the round  *)
(* robin meanwhile, and only the blacklist keeps a task from trying one    *)
(* dead pod again and again; the exception is a blacklisting that is       *)
(* forgotten, after 10 seconds or because the runtime became ready anew    *)
(* (runtime.go 72-125, processor.go 587-632).                              *)
(***************************************************************************)
LivePodIsReached ==
  Cardinality(Pods) <= RuntimeRequestMaxRetries =>
    \A t \in RuntimeTasks :
      attempts[t].at = "done" /\ attempts[t].attempt > 0 /\ attempts[t].status = 500
      => forgotten[t] \/ answering[t] = {}

===============================================================================
