------------------------------- MODULE MCParts -------------------------------
(***************************************************************************)
(* The components that are modelled on their own, side by side in one      *)
(* instance.  They share no state here, so that nothing is gained from     *)
(* their interleavings: one of them moves, and the others are at rest, in  *)
(* a state in which they have nothing to do.                               *)
(***************************************************************************)
EXTENDS TaskExchange, RateLimiter, DriftedPods, Autoscaler, HTTPHandlers,
        Puller, OllamaManager, Deployment, EventStream, RuntimeRequests, RuntimePod,
        ServerShutdown, TLC

VARIABLE part   \* the component that moves

MCHandlersOf ==
  LET r == CHOOSE q \in Requests : TRUE
  IN [q \in Requests |-> IF q = r THEN Handlers ELSE {Tokenize}]

CONSTANTS base, tuned, weights, adapter, merges   \* of the models that are pulled
MCBaseOfModel == tuned :> base
MCRequired == base :> {weights} @@ tuned :> {adapter}
MCOptional == base :> {merges} @@ tuned :> {}

CONSTANTS c1, c2, c3, m1, m2                      \* the calls of PullModel
MCModelOfCall == [c \in PullCalls |-> IF c = c3 THEN m2 ELSE m1]

partsVars == <<part, exchangeVars, rateVars, driftVars, autoscalerVars, httpVars,
               pullerVars, ollamaVars, deployVars, eventVars, runtimeRequestVars, podVars,
               shutdownVars>>
-----------------------------------------------------------------------------
ExchangeAtRest ==   \* no pod of another server
  /\ localEngines = [e \in Engines |-> NoEngine]
  /\ changes = 0 /\ pod = "noIP" /\ shutdown = FALSE
  /\ receiver = "none" /\ marked = FALSE /\ cache = NoStatuses
  /\ stream = [s \in Streams |-> "idle"] /\ inTransit = [s \in Streams |-> <<>>]
  /\ handler = [s \in Streams |-> "none"]
  /\ sender = NoSender /\ table = NothingHeld

RateAtRest ==
  storeType = "redis" /\ ticks = 0 /\ tat = -1 /\ grants = <<>> /\ retryAt = -1

DriftAtRest ==   \* a stateful set whose pods are up to date
  /\ set = [replicas |-> 1, updateRevision |-> 1] /\ set0 = set
  /\ revised = [r \in {1} |-> CHOOSE c \in Contents : TRUE]
  /\ pods = [i \in Ordinals |-> IF i = 0 THEN [state |-> "ready", revision |-> 1, terminating |-> FALSE]
                                         ELSE NoPodThere]
  /\ doomed = {} /\ updating = {} /\ taken = {} /\ podFailures = 0 /\ scales = 0

AutoscalerAtRest ==   \* nothing is registered
  /\ WindowInit /\ started = TRUE /\ registered = 0
  /\ goroutines = [g \in Scalers |->
       [running |-> FALSE, lastTransitToZero |-> -1, scaledAt |-> -1, newReplicas |-> -1]]
  /\ specReplicas = NoSts0 /\ readyReplicas = 0 /\ slept = {}

HttpAtRest ==   \* all requests have been answered
  /\ route = [r \in Requests |-> CreateChatCompletion]
  /\ step = [r \in Requests |-> Len(CreateChatCompletion) + 1]
  /\ lookup = [r \in Requests |-> "none"] /\ model = [r \in Requests |-> NoEntry]
  /\ reply = [r \in Requests |-> 200] /\ usage = [r \in Requests |-> 200]
  /\ body = [r \in Requests |-> "whole"]
  /\ gauge = {} /\ gaveTask = Requests
  /\ modelCache = NoEntry /\ cacheLock = NoRequest
  /\ activation0 = [version |-> 0, active |-> TRUE, onDemand |-> FALSE] /\ activatedAt = 0

PullerAtRest ==   \* a daemon without requests
  /\ daemonMode = TRUE /\ puller = "running" /\ pullCh = <<>> /\ todo = <<>>
  /\ stage = "check" /\ listed = {} /\ writing = NoFile
  /\ files = [m \in Models |-> [f \in FilesOf(m) |-> "absent"]]
  /\ completed = {} /\ modelfiles = {} /\ bucket = [m \in Models |-> {}]
  /\ accepted = {} /\ pullerFailures = 0

DeployAtRest ==   \* nothing to deploy
  /\ statefulSet = [m \in DeployedModels |-> NoSts] /\ service = {} /\ volumeClaim = {}
  /\ modelManager = DeployedModels /\ engine = "running" /\ config = 1
  /\ updater = {} /\ deploy = [d \in Deployers |-> Idle] /\ deployFailures = 0

EventsAtRest ==
  written = <<>> /\ toRead = <<>> /\ data = <<>> /\ events = <<>> /\ scan = "ended"

RequestsAtRest ==   \* every task has been answered
  /\ llm = "absent" /\ addresses = {} /\ blacklisted = [a \in Pods |-> 0] /\ nextTarget = 0
  /\ live = {} /\ podChanges = 0
  /\ attempts = [t \in RuntimeTasks |-> [at |-> "done", attempt |-> 0, addr |-> 0, status |-> 200]]
  /\ answering = [t \in RuntimeTasks |-> {}] /\ forgotten = [t \in RuntimeTasks |-> FALSE]

PodsAtRest ==   \* scaled to zero
  /\ deployment = [runtime |-> "vllm", model |-> "base", adapter |-> FALSE, dynamic |-> FALSE]
  /\ template = "emptyDir" /\ wanted = 0
  /\ podAt = [i \in Indexes |-> "none"] /\ podVolume = [i \in Indexes |-> template]
  /\ ownFiles = [i \in Indexes |-> {}] /\ sharedFiles = {} /\ setChanges = 0
  /\ moved = FALSE

ShutdownAtRest ==   \* the process has ended
  /\ server = "exited" /\ endpoint = FALSE /\ announced = FALSE
  /\ goAwayTask = [e \in LocalEngines |-> "answered"] /\ runner = [e \in LocalEngines |-> "away"]
  /\ request = [t \in ServerTasks |-> "answered"]

PartsInit ==
  /\ part \in {"exchange", "rate", "drift", "autoscaler", "http", "puller", "ollama", "deploy",
               "events", "requests", "pods", "shutdown"}
  /\ IF part = "exchange" THEN ExchangeInit ELSE ExchangeAtRest
  /\ IF part = "rate" THEN RateInit ELSE RateAtRest
  /\ IF part = "drift" THEN DriftInit ELSE DriftAtRest
  /\ IF part = "autoscaler" THEN AutoscalerInit ELSE AutoscalerAtRest
  /\ IF part = "http" THEN HttpInit ELSE HttpAtRest
  /\ IF part = "puller" THEN PullerInit ELSE PullerAtRest
  /\ OllamaInit
  /\ IF part = "deploy" THEN DeployInit ELSE DeployAtRest
  /\ IF part = "events" THEN EventInit ELSE EventsAtRest
  /\ IF part = "requests" THEN RequestInit ELSE RequestsAtRest
  /\ IF part = "pods" THEN PodInit ELSE PodsAtRest
  /\ IF part = "shutdown" THEN ShutdownInit ELSE ShutdownAtRest

PartsNext ==
  /\ UNCHANGED part
  /\ IF part = "exchange" THEN ExchangeNext ELSE UNCHANGED exchangeVars
  /\ IF part = "rate" THEN RateNext ELSE UNCHANGED rateVars
  /\ IF part = "drift" THEN DriftNext ELSE UNCHANGED driftVars
  /\ IF part = "autoscaler" THEN AutoscalerNext ELSE UNCHANGED autoscalerVars
  /\ IF part = "http" THEN HttpNext ELSE UNCHANGED httpVars
  /\ IF part = "puller" THEN PullerNext ELSE UNCHANGED pullerVars
  /\ IF part = "ollama" THEN OllamaNext ELSE UNCHANGED ollamaVars
  /\ IF part = "deploy" THEN DeployNext ELSE UNCHANGED deployVars
  /\ IF part = "events" THEN EventNext ELSE UNCHANGED eventVars
  /\ IF part = "requests" THEN RequestNext ELSE UNCHANGED runtimeRequestVars
  /\ IF part = "pods" THEN PodNext ELSE UNCHANGED podVars
  /\ IF part = "shutdown" THEN ShutdownNext ELSE UNCHANGED shutdownVars

\* What is at rest has no fair action that is enabled.
PartsSpec ==
  /\ PartsInit /\ [][PartsNext]_partsVars
  /\ ExchangeFairness /\ DriftFairness /\ HttpFairness /\ PullerFairness /\ DeployFairness
  /\ ShutdownFairness

(***************************************************************************)
(* The variables of every component keep their types.                      *)
(***************************************************************************)
PartsTypeOK ==
  /\ ExchangeTypeOK /\ RateTypeOK /\ DriftTypeOK /\ ScaleTypeOK /\ HttpTypeOK
  /\ PullerTypeOK /\ OllamaTypeOK /\ DeployTypeOK /\ EventTypeOK
  /\ RequestTypeOK /\ PodTypeOK /\ ShutdownTypeOK

=============================================================================
