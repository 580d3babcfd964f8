----------------------------- MODULE HTTPHandlers -----------------------------
(***************************************************************************)
(* The handlers of the server's HTTP API, server/internal/server, and the  *)
(* model cache they share (model_cache.go).                                *)
(*                                                                         *)
(* The six handlers are written to one pattern: each is a sequence of      *)
(* steps, and of each step it is stated here with which status codes it    *)
(* can end the request.  Requests run side by side; what they share is the *)
(* cache, whose mutex is held while the model manager is asked, and the    *)
(* gauge of active requests.                                               *)
(***************************************************************************)
EXTENDS Naturals, FiniteSets, Sequences

CONSTANTS Requests, HandlersOf,   \* the handlers that each request may be for
          NoRequest, NoEntry,
          MaxModelChanges         \* bound: the changes of the model's activation

VARIABLES
  route,       \* the handler of each request, its step in it, and where it is
  step,        \*   in checkModelAvailability
  lookup,
  model,       \* what GetModel has returned to a request
  reply,       \* the status the client has seen; 0: none yet
  usage,       \* the status in the usage record; 0: not recorded
  body,        \* what the client has of the body
  gauge,       \* the requests that the active requests gauge counts
  gaveTask,    \* the requests whose task has been sent
  modelCache, cacheLock,
  activation0, \* the model at the model manager
  activatedAt  \* history: the model's version at the last ActivateModel that returned

requestVars == <<route, step, reply, usage, body, gauge, gaveTask>>
cacheVars == <<lookup, model, modelCache, cacheLock, activation0, activatedAt>>
httpVars == <<requestVars, cacheVars>>

Step(name, codes) == [name |-> name, codes |-> codes]
Intercept == Step("intercept", {401, 500})
Limit == Step("limit", {429})
Check == Step("check", {400, 500})
Available == Step("available", {})
\* The task's error, or that the client has gone; then the answer's own status.
Send == Step("send", {499, 500})
StatusStep == Step("status", {400, 503})
Count == Step("count", {})

\* Errors after the status has been written: the body, or the write.
Relay == Step("relay", {500})

CreateChatCompletion ==
  <<Intercept, Limit, Check, Count, Available, Step("rag", {400, 500}), Send, StatusStep, Relay>>
CreateCompletion == <<Intercept, Limit, Check, Count, Available, Send, StatusStep, Relay>>
CreateEmbedding == <<Intercept, Limit, Check, Count, Available, Send, StatusStep, Relay>>
CreateModelResponse == <<Intercept, Limit, Check, Count, Available, Send, StatusStep, Relay>>
\* No limit is taken, and a stream is not implemented.
CreateAudioTranscription ==
  <<Intercept, Step("check", {400, 500, 501}), Count, Available, Send, StatusStep, Relay>>
\* No gauge.
Tokenize == <<Intercept, Limit, Check, Available, Send, StatusStep, Relay>>

Handlers == {CreateChatCompletion, CreateCompletion, CreateEmbedding, CreateModelResponse,
             CreateAudioTranscription, Tokenize}

ASSUME HttpAssumption ==
  /\ \A r \in Requests : HandlersOf[r] \subseteq Handlers
  /\ MaxModelChanges \in Nat /\ NoRequest \notin Requests

Codes == {200, 400, 401, 429, 499, 500, 501, 503}
ModelRecord == [version : 0..MaxModelChanges, active : BOOLEAN, onDemand : BOOLEAN]
Done(r) == step[r] > Len(route[r])
At(r, name) == ~Done(r) /\ route[r][step[r]].name = name

HttpTypeOK ==
  /\ route \in [Requests -> Handlers]
  /\ \A r \in Requests : step[r] \in 1..(Len(route[r]) + 1)
  /\ lookup \in [Requests -> {"none", "asking", "asked", "got", "activated"}]
  /\ model \in [Requests -> ModelRecord \cup {NoEntry}]
  /\ reply \in [Requests -> Codes \cup {0}] /\ usage \in [Requests -> Codes \cup {0}]
  /\ body \in [Requests -> {"none", "whole", "cut", "cutAndError"}]
  /\ gauge \subseteq Requests /\ gaveTask \subseteq Requests
  /\ modelCache \in ModelRecord \cup {NoEntry} /\ cacheLock \in Requests \cup {NoRequest}
  /\ activation0 \in ModelRecord /\ activatedAt \in 0..MaxModelChanges

HttpInit ==
  /\ route \in {h \in [Requests -> Handlers] : \A r \in Requests : h[r] \in HandlersOf[r]}
  /\ step = [r \in Requests |-> 1]
  /\ lookup = [r \in Requests |-> "none"] /\ model = [r \in Requests |-> NoEntry]
  /\ reply = [r \in Requests |-> 0] /\ usage = [r \in Requests |-> 0]
  /\ body = [r \in Requests |-> "none"]
  /\ gauge = {} /\ gaveTask = {}
  /\ modelCache = NoEntry /\ cacheLock = NoRequest
  /\ activation0 \in [version : {0}, active : BOOLEAN, onDemand : BOOLEAN]
  /\ activatedAt = 0
-----------------------------------------------------------------------------
(***************************************************************************)
(* The handler goes on, or returns: then its deferred calls count it out   *)
(* and add the usage record, which says 200 unless httpError has set it.   *)
(***************************************************************************)
GoOn(r) == step' = [step EXCEPT ![r] = @ + 1]

Return(r, recorded) ==
  /\ step' = [step EXCEPT ![r] = Len(route[r]) + 1]
  /\ usage' = [usage EXCEPT ![r] = recorded]
  /\ gauge' = gauge \ {r}

\* A bug: the usage record does not know of the error.
HttpErrorUnrecorded(r, code) ==
  /\ Return(r, 200)
  /\ reply' = [reply EXCEPT ![r] = IF @ = 0 THEN code ELSE @]
  /\ UNCHANGED <<route, gaveTask>>

\* httpError.  Only the first status of a response counts.
HttpError(r, code) ==
  /\ Return(r, code)
  /\ reply' = [reply EXCEPT ![r] = IF @ = 0 THEN code ELSE @]
  /\ UNCHANGED <<route, gaveTask>>

\* Steps that do nothing but succeed or fail.
Simple(r) ==
  /\ \E n \in {"limit", "check", "rag"} : At(r, n)
  /\ \/ GoOn(r) /\ UNCHANGED <<route, reply, usage, body, gauge, gaveTask>>
     \/ \E c \in route[r][step[r]].codes : HttpError(r, c) /\ UNCHANGED body
  /\ UNCHANGED cacheVars

\* A request that is not authenticated leaves no usage record.
InterceptHTTPRequest(r) ==
  /\ At(r, "intercept")
  /\ \/ GoOn(r) /\ UNCHANGED <<route, reply, usage, body, gauge, gaveTask>>
     \/ \E c \in route[r][step[r]].codes :
          /\ Return(r, 0) /\ reply' = [reply EXCEPT ![r] = c]
          /\ UNCHANGED <<route, body, gaveTask>>
  /\ UNCHANGED cacheVars

\* Its error goes to the client, by http.Error.
LimiterFails(r) ==
  /\ At(r, "limit")
  /\ Return(r, 200) /\ reply' = [reply EXCEPT ![r] = 500]
  /\ UNCHANGED <<route, body, gaveTask, cacheVars>>

UpdateRequest(r) ==
  /\ At(r, "count") /\ GoOn(r)
  /\ gauge' = gauge \cup {r}
  /\ UNCHANGED <<route, reply, usage, body, gaveTask, cacheVars>>

SendTask(r) ==
  /\ At(r, "send")
  /\ \/ GoOn(r) /\ gaveTask' = gaveTask \cup {r} /\ UNCHANGED <<route, reply, usage, body, gauge>>
     \/ \E c \in route[r][step[r]].codes : HttpError(r, c) /\ UNCHANGED body
  /\ UNCHANGED cacheVars

CheckStatus(r) ==
  /\ At(r, "status")
  /\ \/ GoOn(r) /\ reply' = [reply EXCEPT ![r] = 200] /\ UNCHANGED <<route, usage, body, gauge, gaveTask>>
     \/ \E c \in route[r][step[r]].codes : HttpError(r, c) /\ UNCHANGED body
  /\ UNCHANGED cacheVars

\* The body ends (also when the task has failed since: it is just shorter), or
\* cannot be read, scanned or written to the end.
RelayBody(r) ==
  /\ At(r, "relay")
  /\ \/ /\ \E b \in {"whole", "cut"} : body' = [body EXCEPT ![r] = b]
        /\ Return(r, 200) /\ UNCHANGED <<route, reply, gaveTask>>
     \/ /\ body' = [body EXCEPT ![r] = "cutAndError"]
        /\ \E c \in route[r][step[r]].codes : HttpError(r, c)
  /\ UNCHANGED cacheVars
-----------------------------------------------------------------------------
(***************************************************************************)
(* checkModelAvailability and the cache.  modelCache.GetModel holds the    *)
(* mutex from the lookup to the answer of the model manager.               *)
(***************************************************************************)
IsNimModel(r) ==
  /\ At(r, "available") /\ lookup[r] = "none" /\ GoOn(r)
  /\ UNCHANGED <<route, reply, usage, body, gauge, gaveTask, cacheVars>>

\* A bug: the mutex is not held while the model manager is asked.
GetModelUnlocked(r) ==
  /\ At(r, "available") /\ lookup[r] = "none" /\ cacheLock = NoRequest
  /\ \/ /\ modelCache # NoEntry
        /\ model' = [model EXCEPT ![r] = modelCache] /\ lookup' = [lookup EXCEPT ![r] = "got"]
        /\ UNCHANGED modelCache
     \/ /\ modelCache' = NoEntry
        /\ lookup' = [lookup EXCEPT ![r] = "asking"] /\ UNCHANGED model
  /\ UNCHANGED <<requestVars, cacheLock, activation0, activatedAt>>

\* An entry may be younger or older than the period.
GetModel(r) ==
  /\ At(r, "available") /\ lookup[r] = "none" /\ cacheLock = NoRequest
  /\ \/ /\ modelCache # NoEntry
        /\ model' = [model EXCEPT ![r] = modelCache] /\ lookup' = [lookup EXCEPT ![r] = "got"]
        /\ UNCHANGED <<modelCache, cacheLock>>
     \/ /\ modelCache' = NoEntry /\ cacheLock' = r
        /\ lookup' = [lookup EXCEPT ![r] = "asking"] /\ UNCHANGED model
  /\ UNCHANGED <<requestVars, activation0, activatedAt>>

ModelManagerAnswers(r) ==
  /\ lookup[r] = "asking"
  /\ \/ /\ lookup' = [lookup EXCEPT ![r] = "asked"] /\ model' = [model EXCEPT ![r] = activation0]
        /\ UNCHANGED <<requestVars, cacheLock>>
     \/ /\ \E c \in {400, 500} : HttpError(r, c)
        /\ lookup' = [lookup EXCEPT ![r] = "none"] /\ cacheLock' = NoRequest
        /\ UNCHANGED <<body, model>>
  /\ UNCHANGED <<modelCache, activation0, activatedAt>>

AddModelToCache(r) ==
  /\ lookup[r] = "asked" /\ lookup' = [lookup EXCEPT ![r] = "got"]
  /\ modelCache' = model[r] /\ cacheLock' = NoRequest
  /\ UNCHANGED <<requestVars, model, activation0, activatedAt>>

Forgets(r) ==
  lookup' = [lookup EXCEPT ![r] = "none"] /\ model' = [model EXCEPT ![r] = NoEntry]

CheckModelAvailability(r) ==
  /\ lookup[r] = "got" /\ Forgets(r)
  /\ \/ model[r].active /\ GoOn(r) /\ UNCHANGED <<route, reply, usage, gauge, gaveTask>>
     \/ ~model[r].active /\ ~model[r].onDemand /\ HttpError(r, 400)
  /\ UNCHANGED <<body, modelCache, cacheLock, activation0, activatedAt>>

\* ActivateModel: the request, and then the cache.
ActivateModel(r) ==
  /\ lookup[r] = "got" /\ ~model[r].active /\ model[r].onDemand
  /\ \/ /\ activation0.version < MaxModelChanges
        /\ activation0' = [activation0 EXCEPT !.version = @ + 1, !.active = TRUE]
        /\ lookup' = [lookup EXCEPT ![r] = "activated"]
        /\ model' = [model EXCEPT ![r] = activation0']
        /\ UNCHANGED <<route, step, reply, usage, gauge, gaveTask>>
     \/ HttpError(r, 500) /\ Forgets(r) /\ UNCHANGED activation0
  /\ UNCHANGED <<body, modelCache, cacheLock, activatedAt>>

RemoveModelFromCache(r) ==
  /\ lookup[r] = "activated" /\ cacheLock = NoRequest
  /\ modelCache' = NoEntry
  /\ activatedAt' = IF model[r].version > activatedAt THEN model[r].version ELSE activatedAt
  /\ Forgets(r) /\ GoOn(r)
  /\ UNCHANGED <<route, reply, usage, body, gauge, gaveTask, cacheLock, activation0>>

\* Somebody else activates or deactivates the model.
ModelChanges ==
  /\ activation0.version < MaxModelChanges
  /\ activation0' = [activation0 EXCEPT !.version = @ + 1, !.active = ~@]
  /\ UNCHANGED <<requestVars, lookup, model, modelCache, cacheLock, activatedAt>>

Serves(r) ==
  \/ InterceptHTTPRequest(r) \/ Simple(r) \/ LimiterFails(r) \/ UpdateRequest(r)
  \/ IsNimModel(r) \/ GetModel(r) \/ ModelManagerAnswers(r) \/ AddModelToCache(r)
  \/ CheckModelAvailability(r) \/ ActivateModel(r) \/ RemoveModelFromCache(r)
  \/ SendTask(r) \/ CheckStatus(r) \/ RelayBody(r)

HttpNext == ModelChanges \/ \E r \in Requests : Serves(r)

HttpSpec == HttpInit /\ [][HttpNext]_httpVars

HttpFairness == \A r \in Requests : WF_httpVars(Serves(r))
-----------------------------------------------------------------------------
(***************************************************************************)
(* Once ActivateModel has returned to a request, no later request of this  *)
(* server is judged by a model that was read before the activation, as     *)
(* this could refuse it or activate the model again (model_cache.go        *)
(* 83-123, completions.go 346-383).                                        *)
(***************************************************************************)
CacheKnowsActivation == modelCache # NoEntry => modelCache.version >= activatedAt

\* The usage record of a request that has ended, and what its client has seen.
RecordIsTrue(r) ==
  \/ usage[r] = reply[r]
  \/ reply[r] = 200 /\ body[r] = "cutAndError" /\ usage[r] = 500
  \/ /\ r \notin gaveTask
     /\ \/ reply[r] = 500 /\ usage[r] = 200
        \/ reply[r] \in {401, 500} /\ usage[r] = 0

Accounted(r) == r \notin gauge /\ cacheLock # r /\ RecordIsTrue(r)

(***************************************************************************)
(* Every request ends and releases the cache, whatever fails on its way;   *)
(* it is then counted out, and its usage record says what the client has   *)
(* seen or, when the status was already written, that it failed.  The      *)
(* exceptions come before the task: an error of the limiter is recorded as *)
(* a success, and a request that is not authenticated leaves no record     *)
(* (completions.go 49-75 and 398-401).                                     *)
(***************************************************************************)
RequestsAreAccounted == <>[](\A r \in Requests : Done(r) /\ Accounted(r))

=============================================================================
