-------------------------------- MODULE Puller --------------------------------
(***************************************************************************)
(* The puller of a runtime pod: the command "pull" (engine/cmd/pull.go),   *)
(* engine/internal/puller and engine/internal/modeldownloader.             *)
(*                                                                         *)
(* As an init container it pulls one model and ends; as a daemon, beside   *)
(* an Ollama that loads models dynamically, it takes requests over HTTP    *)
(* into a bounded queue.  What is downloaded survives it on the volume,    *)
(* the queue does not, and Kubernetes starts it again when it fails.       *)
(* A file is created first and written then, so it may be there in part.   *)
(***************************************************************************)
EXTENDS FiniteSets, Naturals, Sequences

CONSTANTS Models, BaseModelOf,      \* of each fine-tuned model
          Required, Optional,       \* the files of each model
          WithModelfile,            \* the models that Ollama needs a modelfile for
          PreloadedModel,           \* --model-id
          NoFile,
          QueueLength,
          MaxPullerFailures         \* bound

ASSUME PullerAssumption ==
  /\ BaseModelOf \in [DOMAIN BaseModelOf -> Models \ DOMAIN BaseModelOf]
  /\ DOMAIN BaseModelOf \subseteq Models /\ WithModelfile \subseteq Models
  /\ \A m \in Models : Required[m] \cap Optional[m] = {} /\ NoFile \notin Required[m] \cup Optional[m]
  /\ PreloadedModel \in Models
  /\ QueueLength \in Nat \ {0} /\ MaxPullerFailures \in Nat

VARIABLES
  daemonMode,    \* --daemon-mode
  puller,        \* the process: running, failed or ended
  pullCh,        \* the queue of the daemon
  todo,          \* the models that the current Pull has still to download
  stage,         \* of the first of these: check, files or modelfile
  listed,        \*   its files that are still to be downloaded
  writing,       \*   and the one that is being written
  files,         \* on the volume: absent, partial or whole
  completed,     \* the models with a completion indication file
  modelfiles,    \* the models with a modelfile for Ollama
  bucket,        \* the optional files that the bucket has
  accepted,      \* the requests that this process has answered with 202
  pullerFailures \* bound

pullVars == <<todo, stage, listed, writing>>
volumeVars == <<files, completed, modelfiles>>
pullerVars == <<daemonMode, puller, pullCh, pullVars, volumeVars, bucket, accepted, pullerFailures>>

FilesOf(m) == Required[m] \cup Optional[m]
AllFiles == UNION {FilesOf(m) : m \in Models}

PullerTypeOK ==
  /\ daemonMode \in BOOLEAN /\ puller \in {"running", "failed", "ended"}
  /\ pullCh \in Seq(Models) /\ Len(pullCh) <= QueueLength
  /\ todo \in Seq(Models) /\ stage \in {"check", "files", "modelfile"}
  /\ listed \subseteq AllFiles /\ writing \in AllFiles \cup {NoFile}
  /\ \A m \in Models : files[m] \in [FilesOf(m) -> {"absent", "partial", "whole"}]
  /\ completed \subseteq Models /\ modelfiles \subseteq Models /\ accepted \subseteq Models
  /\ \A m \in Models : bucket[m] \subseteq Optional[m]
  /\ pullerFailures \in 0..MaxPullerFailures

\* A fine-tuned model is pulled after its base model.
ToDownload(m) == IF m \in DOMAIN BaseModelOf THEN <<BaseModelOf[m], m>> ELSE <<m>>

\* A daemon may have a model to begin with; the others pull it at once.
Preloaded == IF daemonMode THEN {<<>>, <<PreloadedModel>>} ELSE {<<>>}

PullerInit ==
  /\ daemonMode \in BOOLEAN /\ puller = "running"
  /\ pullCh \in Preloaded
  /\ todo = IF daemonMode THEN <<>> ELSE ToDownload(PreloadedModel)
  /\ stage = "check" /\ listed = {} /\ writing = NoFile
  /\ files = [m \in Models |-> [f \in FilesOf(m) |-> "absent"]]
  /\ completed = {} /\ modelfiles = {}
  /\ bucket \in [Models -> SUBSET UNION {Optional[m] : m \in Models}]
  /\ \A m \in Models : bucket[m] \subseteq Optional[m]
  /\ accepted = {} /\ pullerFailures = 0
-----------------------------------------------------------------------------
\* POST /pull, when the queue has room; otherwise it is answered with 429.
PullRequest(m) ==
  /\ daemonMode /\ puller = "running" /\ Len(pullCh) < QueueLength
  /\ pullCh' = Append(pullCh, m) /\ accepted' = accepted \cup {m}
  /\ UNCHANGED <<daemonMode, puller, pullVars, volumeVars, bucket, pullerFailures>>

ProcessPullRequest ==
  /\ puller = "running" /\ todo = <<>> /\ pullCh # <<>>
  /\ todo' = ToDownload(Head(pullCh)) /\ pullCh' = Tail(pullCh)
  /\ UNCHANGED <<daemonMode, puller, stage, listed, writing, volumeVars, bucket, accepted, pullerFailures>>

\* A bug: nothing more is done for a model that is complete.
CheckAndSkip ==
  /\ puller = "running" /\ todo # <<>> /\ stage = "check"
  /\ IF Head(todo) \in completed
       THEN /\ todo' = Tail(todo) /\ UNCHANGED <<stage, listed>>
            /\ puller' = IF todo' = <<>> /\ ~daemonMode THEN "ended" ELSE puller
       ELSE stage' = "files" /\ listed' = FilesOf(Head(todo)) /\ UNCHANGED <<todo, puller>>
  /\ UNCHANGED <<daemonMode, pullCh, writing, volumeVars, bucket, accepted, pullerFailures>>

\* download: a model that has its completion indication file is not downloaded again.
CheckCompletion ==
  /\ puller = "running" /\ todo # <<>> /\ stage = "check"
  /\ IF Head(todo) \in completed
       THEN stage' = "modelfile" /\ UNCHANGED listed
       ELSE stage' = "files" /\ listed' = FilesOf(Head(todo))
  /\ UNCHANGED <<daemonMode, puller, pullCh, todo, writing, volumeVars, bucket, accepted, pullerFailures>>

\* os.Create truncates what an earlier attempt has left.
CreateFile ==
  /\ puller = "running" /\ stage = "files" /\ writing = NoFile
  /\ writing' \in listed
  /\ files' = [files EXCEPT ![Head(todo)][writing'] = "partial"]
  /\ UNCHANGED <<daemonMode, puller, pullCh, todo, stage, listed, completed, modelfiles,
                 bucket, accepted, pullerFailures>>

\* An optional file that the bucket does not have is removed again.
DownloadFile ==
  /\ puller = "running" /\ writing # NoFile
  /\ LET m == Head(todo) IN
     files' = [files EXCEPT ![m][writing] =
                 IF writing \in Required[m] \cup bucket[m] THEN "whole" ELSE "absent"]
  /\ listed' = listed \ {writing} /\ writing' = NoFile
  /\ UNCHANGED <<daemonMode, puller, pullCh, todo, stage, completed, modelfiles,
                 bucket, accepted, pullerFailures>>

\* A bug: the indication does not wait for the files.
IndicateEarly ==
  /\ puller = "running" /\ stage = "files" /\ writing = NoFile
  /\ completed' = completed \cup {Head(todo)} /\ stage' = "modelfile"
  /\ UNCHANGED <<daemonMode, puller, pullCh, todo, listed, writing, files, modelfiles,
                 bucket, accepted, pullerFailures>>

IndicateCompletion ==
  /\ puller = "running" /\ stage = "files" /\ listed = {}
  /\ completed' = completed \cup {Head(todo)} /\ stage' = "modelfile"
  /\ UNCHANGED <<daemonMode, puller, pullCh, todo, listed, writing, files, modelfiles,
                 bucket, accepted, pullerFailures>>

\* The end of pullBaseModel and of pullFineTunedModel.
CreateModelfile ==
  /\ puller = "running" /\ stage = "modelfile"
  /\ modelfiles' = modelfiles \cup ({Head(todo)} \cap WithModelfile)
  /\ todo' = Tail(todo) /\ stage' = "check"
  /\ puller' = IF todo' = <<>> /\ ~daemonMode THEN "ended" ELSE puller
  /\ UNCHANGED <<daemonMode, pullCh, listed, writing, files, completed, bucket, accepted, pullerFailures>>

\* Any call fails, or the process is killed.
PullFails ==
  /\ puller = "running" /\ pullerFailures < MaxPullerFailures
  /\ puller' = "failed" /\ pullerFailures' = pullerFailures + 1
  /\ UNCHANGED <<daemonMode, pullCh, pullVars, volumeVars, bucket, accepted>>

PullerRestarts ==
  /\ puller = "failed" /\ puller' = "running"
  /\ pullCh' \in Preloaded
  /\ todo' = IF daemonMode THEN <<>> ELSE ToDownload(PreloadedModel)
  /\ stage' = "check" /\ listed' = {} /\ writing' = NoFile /\ accepted' = {}
  /\ UNCHANGED <<daemonMode, volumeVars, bucket, pullerFailures>>

Pull ==
  \/ ProcessPullRequest \/ CheckCompletion \/ CreateFile \/ DownloadFile
  \/ IndicateCompletion \/ CreateModelfile \/ PullerRestarts

PullerNext == Pull \/ PullFails \/ \E m \in Models : PullRequest(m)

PullerSpec == PullerInit /\ [][PullerNext]_pullerVars

\* The process goes on, and Kubernetes restarts it.
PullerFairness == WF_pullerVars(Pull)
-----------------------------------------------------------------------------
(***************************************************************************)
(* A completion indication file is found, by the next start of the puller  *)
(* and by Ollama's loop, only beside a model that is there in full, with   *)
(* its base model; whatever attempts have failed and left files in part    *)
(* (modeldownloader.go 80-148, puller.go 131-160).                         *)
(***************************************************************************)
CompletedIsWhole ==
  \A m \in completed :
    /\ \A f \in Required[m] \cup bucket[m] : files[m][f] = "whole"
    /\ m \in DOMAIN BaseModelOf => BaseModelOf[m] \in completed

(***************************************************************************)
(* When nothing fails any more, every request that this process has        *)
(* answered with 202 is carried out to the end, with the modelfile that    *)
(* Ollama loads the model by, although earlier attempts may have left the  *)
(* work half done; the init container succeeds (server.go 48-69 and        *)
(* 117-133, puller.go 55-160).                                             *)
(***************************************************************************)
Usable(m) == m \in completed /\ (m \in WithModelfile => m \in modelfiles)

PullsComplete ==
  <>[](IF daemonMode THEN \A m \in accepted : Usable(m)
                     ELSE puller = "ended" /\ Usable(PreloadedModel))

===============================================================================
