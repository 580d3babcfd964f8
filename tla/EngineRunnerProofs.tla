-------------------------- MODULE EngineRunnerProofs --------------------------
(***************************************************************************)
(* Type correctness of the engine processor, that it never stays without a *)
(* runner and that it never has more than it was asked for, for any number *)
(* of runners and tasks.                                                   *)
(***************************************************************************)
EXTENDS EngineRunner, FiniteSetTheorems, TLAPS

LEMMA InitType == Init => TypeOK
BY TasksAssumption DEF Init, TypeOK, ControlTypeOK, StreamTypeOK, LoopsHaveRun

LEMMA StartType ==
  ASSUME TypeOK, StartStep
  PROVE  TypeOK'
<1>1. CASE Receive
  <2>1. ControlTypeOK'
    BY <1>1 DEF Receive, tableVars, TypeOK, ControlTypeOK
  <2>2. StreamTypeOK'
    BY <1>1 DEF Receive, streamVars, taskVars, TypeOK, StreamTypeOK
  <2>3. LoopsHaveRun'
    BY <1>1 DEF Receive, tableVars, TypeOK, ControlTypeOK, LoopsHaveRun
  <2> QED
    BY <2>1, <2>2, <2>3 DEF TypeOK
<1>2. CASE Count
  BY <1>2 DEF Count, TypeOK, ControlTypeOK, StreamTypeOK, LoopsHaveRun, tableVars, loopVars, streamVars, taskVars
<1>3. CASE Check
  <2>1. ControlTypeOK'
    BY <1>3 DEF Check, tableVars, loopVars, TypeOK, ControlTypeOK
  <2>2. StreamTypeOK'
    BY <1>3 DEF Check, streamVars, taskVars, TypeOK, StreamTypeOK
  <2>3. LoopsHaveRun'
    BY <1>3 DEF Check, tableVars, loopVars, TypeOK, ControlTypeOK, LoopsHaveRun
  <2> QED
    BY <2>1, <2>2, <2>3 DEF TypeOK
<1> QED
  BY <1>1, <1>2, <1>3 DEF StartStep

LEMMA RunnerType ==
  ASSUME TypeOK, NEW r \in Runners, RunnerStep(r)
  PROVE  TypeOK'
<1>1. CASE AddActive(r)
  BY <1>1 DEF AddActive, TypeOK, ControlTypeOK, StreamTypeOK, LoopsHaveRun, loopVars, streamVars, taskVars
<1>2. CASE Connect(r)
  <2>1. ControlTypeOK'
    BY <1>2 DEF Connect, tableVars, loopVars, TypeOK, ControlTypeOK
  <2>2. StreamTypeOK'
    BY <1>2 DEF Connect, taskVars, TypeOK, StreamTypeOK
  <2>3. LoopsHaveRun'
    BY <1>2 DEF Connect, tableVars, loopVars, TypeOK, ControlTypeOK, LoopsHaveRun
  <2> QED
    BY <2>1, <2>2, <2>3 DEF TypeOK
<1>3. CASE FirstError(r)
  <2>1. ControlTypeOK'
    BY <1>3 DEF FirstError, tableVars, TypeOK, ControlTypeOK
  <2>2. StreamTypeOK'
    BY <1>3 DEF FirstError, streamVars, taskVars, TypeOK, StreamTypeOK
  <2>3. LoopsHaveRun'
    BY <1>3 DEF FirstError, tableVars, TypeOK, ControlTypeOK, LoopsHaveRun
  <2> QED
    BY <2>1, <2>2, <2>3 DEF TypeOK
<1>4. CASE SecondError(r)
  BY <1>4 DEF SecondError, CloseStream, TypeOK, ControlTypeOK, StreamTypeOK, LoopsHaveRun, tableVars
<1>5. CASE Leave(r)
  BY <1>5 DEF Leave, RemoveActiveEngine, TypeOK, ControlTypeOK, StreamTypeOK, LoopsHaveRun, loopVars, streamVars, taskVars
<1> QED
  BY <1>1, <1>2, <1>3, <1>4, <1>5 DEF RunnerStep

LEMMA StatusType ==
  ASSUME TypeOK, NEW r \in Runners, StatusStep(r)
  PROVE  TypeOK'
<1>1. CASE Report(r)
  BY <1>1 DEF Report, SetStatus, TypeOK, ControlTypeOK, StreamTypeOK, LoopsHaveRun, tableVars, streamVars, taskVars
<1>2. CASE Send(r)
  <2>1. ControlTypeOK'
    BY <1>2 DEF Send, SendStatus, SetStatus, tableVars, TypeOK, ControlTypeOK
  <2>2. StreamTypeOK'
    BY <1>2 DEF Send, SendStatus, SetStatus, taskVars, TypeOK, StreamTypeOK
  <2>3. LoopsHaveRun'
    BY <1>2 DEF Send, SendStatus, SetStatus, tableVars, TypeOK, ControlTypeOK, LoopsHaveRun
  <2> QED
    BY <2>1, <2>2, <2>3 DEF TypeOK
<1>3. CASE UpdateActive(r)
  <2>1. ControlTypeOK'
    BY <1>3 DEF UpdateActive, SetStatus, TypeOK, ControlTypeOK
  <2>2. StreamTypeOK'
    BY <1>3 DEF UpdateActive, SetStatus, streamVars, taskVars, TypeOK, StreamTypeOK
  <2>3. LoopsHaveRun'
    BY <1>3 DEF UpdateActive, SetStatus, TypeOK, ControlTypeOK, LoopsHaveRun
  <2> QED
    BY <2>1, <2>2, <2>3 DEF TypeOK
<1>4. CASE Select(r)
  <2>1. ControlTypeOK'
    BY <1>4 DEF Select, SetStatus, tableVars, TypeOK, ControlTypeOK
  <2>2. StreamTypeOK'
    BY <1>4 DEF Select, SetStatus, streamVars, taskVars, TypeOK, StreamTypeOK
  <2>3. LoopsHaveRun'
    BY <1>4 DEF Select, SetStatus, tableVars, TypeOK, ControlTypeOK, LoopsHaveRun
  <2> QED
    BY <2>1, <2>2, <2>3 DEF TypeOK
<1>5. CASE Final(r)
  <2>1. ControlTypeOK'
    BY <1>5 DEF Final, SendStatus, SetStatus, tableVars, TypeOK, ControlTypeOK
  <2>2. StreamTypeOK'
    BY <1>5 DEF Final, SendStatus, SetStatus, taskVars, TypeOK, StreamTypeOK
  <2>3. LoopsHaveRun'
    BY <1>5 DEF Final, SendStatus, SetStatus, tableVars, TypeOK, ControlTypeOK, LoopsHaveRun
  <2> QED
    BY <2>1, <2>2, <2>3 DEF TypeOK
<1> QED
  BY <1>1, <1>2, <1>3, <1>4, <1>5 DEF StatusStep

LEMMA DispatchType ==
  ASSUME TypeOK, NEW r \in Runners, DispatchStep(r)
  PROVE  TypeOK'
<1>1. CASE Dispatch(r)
  <2>1. inbox[r] \in Seq(Tasks) /\ Head(inbox[r]) \in Tasks /\ Tail(inbox[r]) \in Seq(Tasks)
    BY <1>1 DEF Dispatch, TypeOK, StreamTypeOK
  <2> QED
    BY <1>1, <2>1 DEF Dispatch, TypeOK, ControlTypeOK, StreamTypeOK, LoopsHaveRun, tableVars, loopVars, streamVars
<1>2. CASE StopDispatch(r)
  <2>1. ControlTypeOK'
    BY <1>2 DEF StopDispatch, SetDispatch, tableVars, TypeOK, ControlTypeOK
  <2>2. StreamTypeOK'
    BY <1>2 DEF StopDispatch, SetDispatch, streamVars, taskVars, TypeOK, StreamTypeOK
  <2>3. LoopsHaveRun'
    BY <1>2 DEF StopDispatch, SetDispatch, tableVars, TypeOK, ControlTypeOK, LoopsHaveRun
  <2> QED
    BY <2>1, <2>2, <2>3 DEF TypeOK
<1>3. CASE RemoveForGoAway(r)
  BY <1>3 DEF RemoveForGoAway, RemoveActiveEngine, SetDispatch, TypeOK, ControlTypeOK, StreamTypeOK, LoopsHaveRun,
              streamVars, taskVars
<1>4. CASE Drain(r)
  BY <1>4 DEF Drain, SetDispatch, TypeOK, ControlTypeOK, StreamTypeOK, LoopsHaveRun, tableVars, streamVars, taskVars
<1> QED
  BY <1>1, <1>2, <1>3, <1>4 DEF DispatchStep

LEMMA TaskEndsType ==
  ASSUME TypeOK, NEW r \in Runners, NEW t \in Tasks, TaskEnds(r, t)
  PROVE  TypeOK'
BY DEF TaskEnds, TypeOK, ControlTypeOK, StreamTypeOK, LoopsHaveRun, tableVars, loopVars, streamVars

LEMMA EnvironmentType ==
  ASSUME TypeOK, NEW r \in Runners, Environment(r)
  PROVE  TypeOK'
<1>1. ASSUME NEW t \in Tasks, ServerSends(r, t)
      PROVE  TypeOK'
  <2>1. Append(inbox[r], t) \in Seq(Tasks)
    BY DEF TypeOK, StreamTypeOK
  <2> QED
    BY <1>1, <2>1 DEF ServerSends, TypeOK, ControlTypeOK, StreamTypeOK, LoopsHaveRun, tableVars, loopVars, streamVars
<1>2. CASE Break(r)
  <2>1. PICK n \in 0..Len(inbox[r]) : inbox' = [inbox EXCEPT ![r] = SubSeq(@, 1, n)]
    BY <1>2 DEF Break
  <2>2. SubSeq(inbox[r], 1, n) \in Seq(Tasks)
    BY <2>1 DEF TypeOK, StreamTypeOK
  <2> QED
    BY <1>2, <2>1, <2>2 DEF Break, TypeOK, ControlTypeOK, StreamTypeOK, LoopsHaveRun, tableVars, loopVars
<1>3. CASE FallSilent(r)
  BY <1>3 DEF FallSilent, TypeOK, ControlTypeOK, StreamTypeOK, LoopsHaveRun, tableVars, loopVars, taskVars
<1> QED
  BY <1>1, <1>2, <1>3 DEF Environment

LEMMA NextType ==
  ASSUME TypeOK, [Next]_vars
  PROVE  TypeOK'
<1>1. CASE StartGracefulShutdown \/ Exit
  BY <1>1 DEF StartGracefulShutdown, Exit, TypeOK, ControlTypeOK, StreamTypeOK, LoopsHaveRun, tableVars, loopVars,
              streamVars, taskVars
<1>2. ASSUME NEW r \in Runners, Notify(r)
      PROVE  TypeOK'
  BY <1>2 DEF Notify, SetStatus, TypeOK, ControlTypeOK, StreamTypeOK, LoopsHaveRun, tableVars, streamVars, taskVars
<1>3. CASE UNCHANGED vars
  BY <1>3 DEF vars, TypeOK, ControlTypeOK, StreamTypeOK, LoopsHaveRun, tableVars, loopVars, streamVars, taskVars
<1> QED
  BY <1>1, <1>2, <1>3, StartType, RunnerType, StatusType, DispatchType, TaskEndsType,
     EnvironmentType DEF Next, Idle

(***************************************************************************)
(* Every variable keeps its type, and the two loops of a runner run only   *)
(* while runInternal waits for them.                                       *)
(***************************************************************************)
THEOREM RunnerTypeCorrect == Spec => []TypeOK
<1>1. TypeOK /\ [Next]_vars => TypeOK'
  BY NextType
<1> QED
  BY <1>1, InitType, PTL DEF Spec

(***************************************************************************)
(* RunnerIsDue.  Start refuses a request when the table is not empty, so   *)
(* the proof rests on what an entry says of its runner (EntryHasRunner).   *)
(***************************************************************************)
DueInv == RunnerIsDue /\ EntryHasRunner

\* Steps that keep the table and all that a runner may still ask for.
LEMMA SameRunners ==
  ASSUME DueInv, UNCHANGED <<active, start, first>>, main' = "up" => main = "up",
         NEW r \in Runners, TypeOK,
         \A s \in Runners \ {r} : runner'[s] = runner[s] /\ dispatch'[s] = dispatch[s],
         runner[r] # "free" => runner'[r] # "free",
         dispatch'[r] = "delay" => dispatch[r] = "delay",
         active[r] # "no" =>
           runner'[r] \in {"connect", "serving", "stopping", "leaving"} /\ ~GoneAway(r)'
  PROVE  DueInv'
<1>1. EntryHasRunner'
  BY DEF DueInv, EntryHasRunner, GoneAway
<1>2. RunnerIsDue'
  BY DEF DueInv, RunnerIsDue, WillAsk
<1> QED
  BY <1>1, <1>2 DEF DueInv

LEMMA StartDue ==
  ASSUME TypeOK, DueInv, StartStep
  PROVE  DueInv'
<1>1. CASE Receive
  <2>1. start' = "count"
    BY <1>1 DEF Receive
  <2>2. ASSUME NEW r \in Runners, active'[r] # "no"
        PROVE  runner'[r] \in {"connect", "serving", "stopping", "leaving"} /\ ~GoneAway(r)'
    <3>1. runner[r] \in {"connect", "serving", "stopping", "leaving"} /\ ~GoneAway(r)
      BY <1>1, <2>2 DEF Receive, tableVars, DueInv, EntryHasRunner
    <3>2. runner'[r] = runner[r] /\ dispatch'[r] = dispatch[r]
      BY <1>1, <3>1 DEF Receive, GoneAway, TypeOK, ControlTypeOK
    <3> QED
      BY <3>1, <3>2 DEF GoneAway
  <2> QED
    BY <2>1, <2>2 DEF DueInv, RunnerIsDue, EntryHasRunner
<1>2. CASE Count
  <2>1. UNCHANGED <<active, runner, dispatch, main, first>>
    BY <1>2 DEF Count, tableVars, loopVars
  <2>2. EntryHasRunner'
    BY <2>1 DEF DueInv, EntryHasRunner, GoneAway
  <2>3. CASE \E r \in Runners : active[r] # "no"
    <3>1. \E r \in Runners : WillAsk(r)
      BY <2>3 DEF DueInv, EntryHasRunner, GoneAway, WillAsk
    <3> QED
      BY <2>1, <2>2, <3>1 DEF DueInv, RunnerIsDue, WillAsk
  <2>4. CASE ~\E r \in Runners : active[r] # "no"
    BY <1>2, <2>2, <2>4 DEF Count, DueInv, RunnerIsDue
  <2> QED
    BY <2>3, <2>4
<1>3. CASE Check
  <2>1. UNCHANGED <<active, dispatch, main, first>>
    BY <1>3 DEF Check, tableVars, loopVars
  <2>2. CASE IsShutdown
    <3>1. main' # "up" /\ runner' = runner
      BY <1>3, <2>1, <2>2 DEF Check, IsShutdown
    <3> QED
      BY <2>1, <3>1 DEF DueInv, RunnerIsDue, EntryHasRunner, GoneAway
  <2>3. CASE ~IsShutdown
    <3>1. PICK r \in Runners : runner[r] = "free" /\ runner' = [runner EXCEPT ![r] = "starting"]
      BY <1>3, <2>3 DEF Check
    <3>2. dispatch[r] = "off" /\ runner'[r] = "starting"
      BY <3>1 DEF TypeOK, ControlTypeOK, LoopsHaveRun
    <3>3. RunnerIsDue'
      BY <2>1, <3>2 DEF RunnerIsDue, WillAsk
    <3>4. EntryHasRunner'
      BY <2>1, <3>1 DEF DueInv, EntryHasRunner, GoneAway, TypeOK, ControlTypeOK
    <3> QED
      BY <3>3, <3>4 DEF DueInv
  <2> QED
    BY <2>2, <2>3
<1> QED
  BY <1>1, <1>2, <1>3 DEF StartStep

LEMMA RunnerDue ==
  ASSUME TypeOK, DueInv, NEW r \in Runners, RunnerStep(r)
  PROVE  DueInv'
<1>1. CASE AddActive(r)
  <2>1. dispatch[r] = "off" /\ runner'[r] = "connect" /\ UNCHANGED <<dispatch, main, start, first>>
    BY <1>1 DEF AddActive, TypeOK, ControlTypeOK, LoopsHaveRun, loopVars
  <2>2. \A s \in Runners \ {r} : runner'[s] = runner[s] /\ active'[s] = active[s]
    BY <1>1 DEF AddActive, TypeOK, ControlTypeOK
  <2>3. EntryHasRunner'
    BY <2>1, <2>2 DEF DueInv, EntryHasRunner, GoneAway
  <2>4. RunnerIsDue'
    BY <2>1 DEF RunnerIsDue, WillAsk
  <2> QED
    BY <2>3, <2>4 DEF DueInv
<1>2. CASE Connect(r)
  <2>1. dispatch[r] = "off"
    BY <1>2 DEF Connect, TypeOK, ControlTypeOK, LoopsHaveRun
  <2>2. runner'[r] \in {"leaving", "serving"} /\ dispatch'[r] \in {"off", "select"}
    BY <1>2, <2>1 DEF Connect, loopVars, TypeOK, ControlTypeOK
  <2>3. \A s \in Runners \ {r} : runner'[s] = runner[s] /\ dispatch'[s] = dispatch[s]
    BY <1>2 DEF Connect, loopVars, TypeOK, ControlTypeOK
  <2> QED
    BY <1>2, <2>2, <2>3, SameRunners DEF Connect, tableVars, GoneAway
<1>3. CASE FirstError(r)
  <2>1. runner'[r] = "stopping" /\ dispatch'[r] \in {dispatch[r], "off"}
    BY <1>3 DEF FirstError, TypeOK, ControlTypeOK
  <2>2. \A s \in Runners \ {r} : runner'[s] = runner[s] /\ dispatch'[s] = dispatch[s]
    BY <1>3 DEF FirstError, TypeOK, ControlTypeOK
  <2> QED
    BY <1>3, <2>1, <2>2, SameRunners DEF FirstError, tableVars, GoneAway, DueInv, EntryHasRunner
<1>4. CASE SecondError(r)
  <2>1. runner'[r] = "leaving" /\ dispatch'[r] = "off"
    BY <1>4 DEF SecondError, CloseStream, TypeOK, ControlTypeOK
  <2>2. \A s \in Runners \ {r} : runner'[s] = runner[s] /\ dispatch'[s] = dispatch[s]
    BY <1>4 DEF SecondError, CloseStream, TypeOK, ControlTypeOK
  <2> QED
    BY <1>4, <2>1, <2>2, SameRunners DEF SecondError, CloseStream, tableVars, GoneAway
<1>5. CASE Leave(r)
  <2>1. runner'[r] = "retrying" /\ active'[r] = "no" /\ dispatch[r] = "off"
        /\ UNCHANGED <<dispatch, main, start, first>>
    BY <1>5 DEF Leave, RemoveActiveEngine, TypeOK, ControlTypeOK, LoopsHaveRun, loopVars
  <2>2. \A s \in Runners \ {r} : runner'[s] = runner[s] /\ active'[s] = active[s]
    BY <1>5 DEF Leave, RemoveActiveEngine, TypeOK, ControlTypeOK
  <2>3. EntryHasRunner'
    BY <2>1, <2>2 DEF DueInv, EntryHasRunner, GoneAway
  <2>4. RunnerIsDue'
    BY <2>1 DEF RunnerIsDue, WillAsk
  <2> QED
    BY <2>3, <2>4 DEF DueInv
<1> QED
  BY <1>1, <1>2, <1>3, <1>4, <1>5 DEF RunnerStep

LEMMA StatusDue ==
  ASSUME TypeOK, DueInv, NEW r \in Runners, StatusStep(r)
  PROVE  DueInv'
<1>1. UNCHANGED <<runner, dispatch, main, start, first>>
  BY DEF StatusStep, Report, Send, UpdateActive, Select, Final, loopVars
<1>2. \A s \in Runners : active'[s] # "no" => active[s] # "no"
  BY DEF StatusStep, Report, Send, UpdateActive, Select, Final, tableVars, TypeOK, ControlTypeOK
<1> QED
  BY <1>1, <1>2 DEF DueInv, RunnerIsDue, WillAsk, EntryHasRunner, GoneAway

LEMMA DispatchDue ==
  ASSUME TypeOK, DueInv, NEW r \in Runners, DispatchStep(r)
  PROVE  DueInv'
<1>1. CASE RemoveForGoAway(r)
  <2>1. dispatch'[r] = "signal" /\ active'[r] = "no" /\ UNCHANGED <<runner, main, start, first>>
    BY <1>1 DEF RemoveForGoAway, RemoveActiveEngine, SetDispatch, TypeOK, ControlTypeOK
  <2>2. \A s \in Runners \ {r} : dispatch'[s] = dispatch[s] /\ active'[s] = active[s]
    BY <1>1 DEF RemoveForGoAway, RemoveActiveEngine, SetDispatch, TypeOK, ControlTypeOK
  <2>3. EntryHasRunner'
    BY <2>1, <2>2 DEF DueInv, EntryHasRunner, GoneAway
  <2>4. runner[r] # "free"
    BY <1>1 DEF RemoveForGoAway, TypeOK, ControlTypeOK, LoopsHaveRun
  <2>5. RunnerIsDue'
    BY <2>1, <2>4 DEF RunnerIsDue, WillAsk
  <2> QED
    BY <2>3, <2>5 DEF DueInv
<1>2. CASE ~RemoveForGoAway(r)
  <2>1. UNCHANGED <<active, runner, main, start, first>>
    BY <1>2 DEF DispatchStep, Dispatch, StopDispatch, Drain, tableVars
  <2>2. \A s \in Runners \ {r} : dispatch'[s] = dispatch[s]
    BY <1>2 DEF DispatchStep, Dispatch, StopDispatch, Drain, SetDispatch, loopVars,
                TypeOK, ControlTypeOK
  <2>3. dispatch'[r] = dispatch[r] \/ dispatch'[r] \in {"error", "goAway", "drain", "nil"}
    BY <1>2 DEF DispatchStep, Dispatch, StopDispatch, Drain, SetDispatch, loopVars,
                TypeOK, ControlTypeOK
  <2> QED
    BY <2>1, <2>2, <2>3, SameRunners DEF DueInv, EntryHasRunner, GoneAway
<1> QED
  BY <1>1, <1>2

LEMMA NextDue ==
  ASSUME TypeOK, DueInv, [Next]_vars
  PROVE  DueInv'
<1>1. ASSUME UNCHANGED <<active, runner, dispatch, start, first>>, main' = "up" => main = "up"
      PROVE  DueInv'
  BY <1>1 DEF DueInv, RunnerIsDue, WillAsk, EntryHasRunner, GoneAway
<1>2. ASSUME NEW r \in Runners, NEW t \in Tasks, TaskEnds(r, t)
      PROVE  DueInv'
  BY <1>1, <1>2 DEF TaskEnds, tableVars, loopVars
<1>3. ASSUME NEW r \in Runners, Environment(r)
      PROVE  DueInv'
  BY <1>1, <1>3 DEF Environment, ServerSends, Break, FallSilent, tableVars, loopVars
<1>4. ASSUME NEW r \in Runners, Notify(r)
      PROVE  DueInv'
  BY <1>1, <1>4 DEF Notify, tableVars
<1>5. CASE StartGracefulShutdown \/ Exit
  BY <1>1, <1>5 DEF StartGracefulShutdown, Exit, tableVars, loopVars
<1>6. CASE UNCHANGED vars
  BY <1>1, <1>6 DEF vars, tableVars, loopVars
<1> QED
  BY <1>2, <1>3, <1>4, <1>5, <1>6, StartDue, RunnerDue, StatusDue, DispatchDue DEF Next, Idle

(***************************************************************************)
(* While the process is up a runner that will ask for its successor runs,  *)
(* or a request for one is on its way, and no entry of the table outlives  *)
(* the runner it stands for.                                               *)
(***************************************************************************)
THEOREM NeverWithoutRunner == Spec => [](RunnerIsDue /\ EntryHasRunner)
<1>1. Init => DueInv
  BY DEF Init, DueInv, RunnerIsDue, EntryHasRunner
<1>2. TypeOK /\ DueInv /\ [Next]_vars => DueInv'
  BY NextDue
<1>3. DueInv => RunnerIsDue /\ EntryHasRunner
  BY DEF DueInv
<1> QED
  BY <1>1, <1>2, <1>3, RunnerTypeCorrect, PTL DEF Spec

(***************************************************************************)
(* RunnersAreBounded.  It is not inductive: a GoAway that is on its way to *)
(* the dispatch loop of a runner, or that the loop has seen, will become a *)
(* request for another runner.  The invariant counts the runners of which  *)
(* this is so (Pending) with the requests.  A GoAway adds at most one to   *)
(* the count, when it is sent; later steps pass the one on.                *)
(***************************************************************************)
Alive == {r \in Runners : runner[r] # "free"}
Signals == {r \in Runners : dispatch[r] = "signal"}
Pending ==
  {r \in Runners : dispatch[r] = "goAway" \/ (dispatch[r] = "select" /\ GoAwayUnderWay(r))}

Counted ==
  Cardinality(Alive) + Cardinality(Signals) + Cardinality(Pending)
    + (IF first THEN 1 ELSE 0) + (IF start # "wait" THEN 1 ELSE 0)

\* A runner that does not serve has no stream, and nothing left of one.
QuietOutside ==
  \A r \in Runners :
    runner[r] \notin {"serving", "stopping"} =>
      inbox[r] = <<>> /\ inflight[r] = {} /\ r \notin goAway /\ stream[r] = "none"

BoundInv ==
  /\ QuietOutside
  /\ IsFiniteSet(Alive) /\ IsFiniteSet(sent)
  /\ Counted <= 1 + Cardinality(GoAways \cap sent)

LEMMA CountTypes ==
  ASSUME TypeOK, IsFiniteSet(Alive), IsFiniteSet(sent)
  PROVE  /\ Signals \subseteq Alive /\ Pending \subseteq Alive
         /\ IsFiniteSet(Signals) /\ IsFiniteSet(Pending) /\ IsFiniteSet(GoAways \cap sent)
         /\ Cardinality(Alive) \in Nat /\ Cardinality(Signals) \in Nat
         /\ Cardinality(Pending) \in Nat /\ Cardinality(GoAways \cap sent) \in Nat
<1>1. Signals \subseteq Alive /\ Pending \subseteq Alive
  BY DEF Signals, Pending, Alive, TypeOK, LoopsHaveRun
<1>2. IsFiniteSet(Signals) /\ IsFiniteSet(Pending) /\ IsFiniteSet(GoAways \cap sent)
  BY <1>1, FS_Subset
<1> QED
  BY <1>1, <1>2, FS_CardinalityType

\* Steps that make no request.
LEMMA NoMoreRequests ==
  ASSUME TypeOK, BoundInv, QuietOutside', UNCHANGED <<first, sent>>,
         Alive' \subseteq Alive, Signals' \subseteq Signals, Pending' \subseteq Pending,
         start' # "wait" => start # "wait"
  PROVE  BoundInv'
<1>1. IsFiniteSet(Alive) /\ IsFiniteSet(sent)
  BY DEF BoundInv
<1>2. /\ IsFiniteSet(Signals) /\ IsFiniteSet(Pending)
      /\ Cardinality(Alive) \in Nat /\ Cardinality(Signals) \in Nat
      /\ Cardinality(Pending) \in Nat /\ Cardinality(GoAways \cap sent) \in Nat
  BY <1>1, CountTypes
<1>3. /\ IsFiniteSet(Alive') /\ Cardinality(Alive') <= Cardinality(Alive)
      /\ IsFiniteSet(Signals') /\ Cardinality(Signals') <= Cardinality(Signals)
      /\ IsFiniteSet(Pending') /\ Cardinality(Pending') <= Cardinality(Pending)
  BY <1>1, <1>2, FS_Subset
<1>4. /\ Cardinality(Alive') \in Nat /\ Cardinality(Signals') \in Nat
      /\ Cardinality(Pending') \in Nat
  BY <1>3, FS_CardinalityType
<1>5. Counted' <= Counted
  BY <1>2, <1>3, <1>4 DEF Counted
<1>6. Counted \in Nat /\ Counted' \in Nat
  BY <1>2, <1>4 DEF Counted
<1>7. Counted' <= 1 + Cardinality(GoAways \cap sent')
  BY <1>2, <1>5, <1>6 DEF BoundInv
<1> QED
  BY <1>1, <1>3, <1>7 DEF BoundInv

\* What makes no GoAway known to a dispatch loop adds nothing to Pending.
LEMMA PendingShrinks ==
  ASSUME \A r \in Runners :
           /\ dispatch'[r] = "goAway" => r \in Pending
           /\ dispatch'[r] = "select" /\ GoAwayUnderWay(r)' => r \in Pending
  PROVE  Pending' \subseteq Pending
BY DEF Pending

LEMMA SameQueues ==
  ASSUME UNCHANGED <<inbox, inflight, goAway>>
  PROVE  /\ \A r \in Runners : GoAwayUnderWay(r)' = GoAwayUnderWay(r)
         /\ \A r \in Runners :
              (inbox[r] = <<>> /\ inflight[r] = {} /\ r \notin goAway) =>
              (inbox'[r] = <<>> /\ inflight'[r] = {} /\ r \notin goAway')
BY DEF GoAwayUnderWay

LEMMA StartBounded ==
  ASSUME TypeOK, BoundInv, StartStep
  PROVE  BoundInv'
<1>1. IsFiniteSet(Alive) /\ IsFiniteSet(sent) /\ Counted <= 1 + Cardinality(GoAways \cap sent)
  BY DEF BoundInv
<1>2. /\ IsFiniteSet(Signals) /\ IsFiniteSet(Pending)
      /\ Cardinality(Alive) \in Nat /\ Cardinality(Signals) \in Nat
      /\ Cardinality(Pending) \in Nat /\ Cardinality(GoAways \cap sent) \in Nat
  BY <1>1, CountTypes
<1>3. UNCHANGED <<inbox, inflight, goAway, stream, sent>>
  BY DEF StartStep, Receive, Count, Check, streamVars, taskVars
<1>4. \A r \in Runners : GoAwayUnderWay(r)' = GoAwayUnderWay(r)
  BY <1>3, SameQueues
<1>5. QuietOutside'
  <2>1. \A r \in Runners : runner[r] \in {"serving", "stopping"} =>
          runner'[r] \in {"serving", "stopping"}
    BY DEF StartStep, Receive, Count, Check, TypeOK, ControlTypeOK
  <2> QED
    BY <1>3, <2>1 DEF BoundInv, QuietOutside
<1>6. CASE Count
  <2>1. UNCHANGED <<first, runner, dispatch>> /\ start # "wait"
    BY <1>6 DEF Count, loopVars
  <2> QED
    BY <1>3, <1>4, <1>5, <2>1, NoMoreRequests DEF Alive, Signals, Pending
<1>7. CASE Check
  <2>1. UNCHANGED <<first, dispatch>> /\ start # "wait" /\ start' = "wait"
    BY <1>7 DEF Check, loopVars
  <2>2. CASE runner' = runner
    BY <1>3, <1>4, <1>5, <2>1, <2>2, NoMoreRequests DEF Alive, Signals, Pending
  <2>3. CASE runner' # runner
    <3>1. PICK r \in Runners : runner[r] = "free" /\ runner' = [runner EXCEPT ![r] = "starting"]
      BY <1>7, <2>3 DEF Check
    <3>2. Alive' = Alive \cup {r} /\ r \notin Alive
      BY <3>1 DEF Alive, TypeOK, ControlTypeOK
    <3>3. IsFiniteSet(Alive') /\ Cardinality(Alive') = Cardinality(Alive) + 1
      BY <1>1, <3>2, FS_AddElement
    <3>4. Signals' = Signals /\ Pending' = Pending
      BY <1>4, <2>1 DEF Signals, Pending
    <3>5. Counted' = Counted
      BY <1>2, <2>1, <3>3, <3>4 DEF Counted
    <3> QED
      BY <1>1, <1>3, <1>5, <3>3, <3>5 DEF BoundInv
  <2> QED
    BY <2>2, <2>3
<1>8. CASE Receive
  <2>0. start = "wait" /\ start' = "count"
    BY <1>8 DEF Receive
  <2>1. CASE first /\ first' = FALSE /\ UNCHANGED <<runner, dispatch>>
    <3>1. Alive' = Alive /\ Signals' = Signals /\ Pending' = Pending
      BY <1>4, <2>1 DEF Alive, Signals, Pending
    <3>2. Counted' = Counted
      BY <1>2, <2>0, <2>1, <3>1 DEF Counted
    <3> QED
      BY <1>1, <1>3, <1>5, <3>1, <3>2 DEF BoundInv
  <2>2. ASSUME NEW r \in Runners, runner[r] = "retrying", UNCHANGED <<first, dispatch>>,
               runner' = [runner EXCEPT ![r] = "free"]
        PROVE  BoundInv'
    <3>1. Alive' = Alive \ {r} /\ r \in Alive
      BY <2>2 DEF Alive, TypeOK, ControlTypeOK
    <3>2. IsFiniteSet(Alive') /\ Cardinality(Alive') = Cardinality(Alive) - 1
      BY <1>1, <3>1, FS_RemoveElement
    <3>3. Signals' = Signals /\ Pending' = Pending
      BY <1>4, <2>2 DEF Signals, Pending
    <3>4. Counted' = Counted
      BY <1>2, <2>0, <2>2, <3>2, <3>3 DEF Counted
    <3> QED
      BY <1>1, <1>3, <1>5, <3>2, <3>4 DEF BoundInv
  <2>3. ASSUME NEW r \in Runners, dispatch[r] = "signal", UNCHANGED <<first, runner>>,
               dispatch' = [dispatch EXCEPT ![r] = "delay"]
        PROVE  BoundInv'
    <3>1. Signals' = Signals \ {r} /\ r \in Signals
      BY <2>3 DEF Signals, TypeOK, ControlTypeOK
    <3>2. Cardinality(Signals') = Cardinality(Signals) - 1
      BY <1>2, <3>1, FS_RemoveElement
    <3>3. Alive' = Alive
      BY <2>3 DEF Alive
    <3>4. Pending' = Pending
      BY <1>4, <2>3 DEF Pending, TypeOK, ControlTypeOK
    <3>5. Counted' = Counted
      BY <1>2, <2>0, <2>3, <3>2, <3>3, <3>4 DEF Counted
    <3> QED
      BY <1>1, <1>3, <1>5, <3>3, <3>5 DEF BoundInv
  <2> QED
    BY <1>8, <2>1, <2>2, <2>3 DEF Receive
<1> QED
  BY <1>6, <1>7, <1>8 DEF StartStep

LEMMA RunnerBounded ==
  ASSUME TypeOK, BoundInv, NEW r \in Runners, RunnerStep(r)
  PROVE  BoundInv'
<1>1. UNCHANGED <<first, sent, start>>
  BY DEF RunnerStep, AddActive, Connect, FirstError, SecondError, CloseStream, Leave, taskVars
<1>2. /\ \A s \in Runners \ {r} : runner'[s] = runner[s] /\ dispatch'[s] = dispatch[s]
      /\ runner[r] # "free"
  BY DEF RunnerStep, AddActive, Connect, FirstError, SecondError, CloseStream, Leave, loopVars,
         TypeOK, ControlTypeOK, LoopsHaveRun
<1>3. Alive' \subseteq Alive
  BY <1>2 DEF Alive
<1>4. ASSUME UNCHANGED <<inbox, inflight, goAway>>, dispatch'[r] \in {dispatch[r], "off"},
             runner[r] \notin {"serving", "stopping"} \/ runner'[r] \in {"serving", "stopping"},
             stream' = stream
      PROVE  BoundInv'
  <2>1. \A s \in Runners : GoAwayUnderWay(s)' = GoAwayUnderWay(s)
    BY <1>4, SameQueues
  <2>2. Signals' \subseteq Signals /\ Pending' \subseteq Pending
    BY <1>2, <1>4, <2>1 DEF Signals, Pending
  <2>3. QuietOutside'
    BY <1>2, <1>4 DEF BoundInv, QuietOutside
  <2> QED
    BY <1>1, <1>3, <2>2, <2>3, NoMoreRequests
<1>5. CASE AddActive(r) \/ Leave(r)
  BY <1>4, <1>5 DEF AddActive, Leave, loopVars, streamVars, taskVars
<1>6. CASE FirstError(r)
  <2>1. runner'[r] = "stopping" /\ dispatch'[r] \in {dispatch[r], "off"}
    BY <1>6 DEF FirstError, TypeOK, ControlTypeOK
  <2> QED
    BY <1>4, <1>6, <2>1 DEF FirstError, streamVars, taskVars
<1>7. CASE SecondError(r)
  <2>1. /\ runner'[r] = "leaving" /\ dispatch'[r] = "off" /\ stream'[r] = "none"
        /\ inbox'[r] = <<>> /\ inflight'[r] = {} /\ goAway' = goAway \ {r}
        /\ \A s \in Runners \ {r} : /\ inbox'[s] = inbox[s] /\ inflight'[s] = inflight[s]
                                    /\ stream'[s] = stream[s]
    BY <1>7 DEF SecondError, CloseStream, TypeOK, ControlTypeOK, StreamTypeOK
  <2>2. \A s \in Runners \ {r} : GoAwayUnderWay(s)' = GoAwayUnderWay(s)
    BY <2>1 DEF GoAwayUnderWay
  <2>3. Signals' \subseteq Signals /\ Pending' \subseteq Pending
    BY <1>2, <2>1, <2>2 DEF Signals, Pending
  <2>4. QuietOutside'
    BY <1>2, <2>1 DEF BoundInv, QuietOutside
  <2> QED
    BY <1>1, <1>3, <2>3, <2>4, NoMoreRequests
<1>8. CASE Connect(r)
  <2>1. runner[r] = "connect" /\ UNCHANGED <<inbox, inflight, goAway>>
        /\ inbox[r] = <<>> /\ inflight[r] = {} /\ r \notin goAway /\ stream[r] = "none"
    BY <1>8 DEF Connect, taskVars, BoundInv, QuietOutside
  <2>2. ~GoAwayUnderWay(r)
    BY <2>1 DEF GoAwayUnderWay
  <2>3. \A s \in Runners : GoAwayUnderWay(s)' = GoAwayUnderWay(s)
    BY <2>1, SameQueues
  <2>4. dispatch'[r] \in {dispatch[r], "select"}
    BY <1>8 DEF Connect, loopVars, TypeOK, ControlTypeOK
  <2>5. Signals' \subseteq Signals /\ Pending' \subseteq Pending
    BY <1>2, <2>2, <2>3, <2>4 DEF Signals, Pending
  <2>6. /\ \A s \in Runners \ {r} : stream'[s] = stream[s]
        /\ runner'[r] = "serving" \/ stream' = stream
    BY <1>8 DEF Connect, TypeOK, ControlTypeOK, StreamTypeOK
  <2>7. QuietOutside'
    BY <1>2, <2>1, <2>6 DEF BoundInv, QuietOutside
  <2> QED
    BY <1>1, <1>3, <2>5, <2>7, NoMoreRequests
<1> QED
  BY <1>5, <1>6, <1>7, <1>8 DEF RunnerStep

LEMMA DispatchBounded ==
  ASSUME TypeOK, BoundInv, NEW r \in Runners, DispatchStep(r)
  PROVE  BoundInv'
<1>1. UNCHANGED <<runner, first, start, sent, stream, goAway>>
  BY DEF DispatchStep, Dispatch, StopDispatch, RemoveForGoAway, Drain, streamVars, taskVars
<1>2. Alive' = Alive
  BY <1>1 DEF Alive
<1>3. dispatch[r] # "off" /\ runner[r] \in {"serving", "stopping"}
  BY DEF DispatchStep, Dispatch, StopDispatch, RemoveForGoAway, Drain, TypeOK, LoopsHaveRun
<1>4. \A s \in Runners \ {r} : /\ inbox'[s] = inbox[s] /\ inflight'[s] = inflight[s]
                               /\ dispatch'[s] = dispatch[s]
  BY DEF DispatchStep, Dispatch, StopDispatch, RemoveForGoAway, Drain, SetDispatch, taskVars,
         loopVars, TypeOK, ControlTypeOK, StreamTypeOK
<1>5. \A s \in Runners \ {r} : GoAwayUnderWay(s)' = GoAwayUnderWay(s)
  BY <1>1, <1>4 DEF GoAwayUnderWay
<1>6. QuietOutside'
  BY <1>1, <1>3, <1>4 DEF BoundInv, QuietOutside
<1>7. ASSUME dispatch'[r] # "signal", r \in Pending' => r \in Pending
      PROVE  BoundInv'
  <2>1. Signals' \subseteq Signals /\ Pending' \subseteq Pending
    BY <1>4, <1>5, <1>7 DEF Signals, Pending
  <2> QED
    BY <1>1, <1>2, <1>6, <2>1, NoMoreRequests
<1>8. CASE Dispatch(r)
  <2>1. dispatch[r] = "select" /\ dispatch' = dispatch
    BY <1>8 DEF Dispatch, loopVars
  <2>2. inbox[r] \in Seq(Tasks) /\ inbox[r] # <<>>
    BY <1>8 DEF Dispatch, TypeOK, StreamTypeOK
  <2>3. inbox'[r] = Tail(inbox[r]) /\ inflight'[r] = inflight[r] \cup {Head(inbox[r])}
    BY <1>8 DEF Dispatch, TypeOK, StreamTypeOK
  <2>4. /\ Head(inbox[r]) = inbox[r][1] /\ 1 \in DOMAIN inbox[r]
        /\ \A i \in DOMAIN Tail(inbox[r]) :
             i + 1 \in DOMAIN inbox[r] /\ Tail(inbox[r])[i] = inbox[r][i + 1]
    BY <2>2
  <2>5. GoAwayUnderWay(r)' => GoAwayUnderWay(r)
    BY <1>1, <2>3, <2>4 DEF GoAwayUnderWay
  <2> QED
    BY <1>7, <2>1, <2>5 DEF Pending
<1>9. CASE StopDispatch(r) \/ Drain(r)
  <2>1. /\ dispatch'[r] \in {"error", "drain", "nil", "goAway"}
        /\ dispatch'[r] = "goAway" => dispatch[r] = "select" /\ r \in goAway
    BY <1>9 DEF StopDispatch, Drain, SetDispatch, TypeOK, ControlTypeOK
  <2> QED
    BY <1>7, <2>1 DEF Pending, GoAwayUnderWay
<1>10. CASE RemoveForGoAway(r)
  <2>1. dispatch[r] = "goAway" /\ dispatch'[r] = "signal"
    BY <1>10 DEF RemoveForGoAway, SetDispatch, TypeOK, ControlTypeOK
  <2>2. Signals' = Signals \cup {r} /\ r \notin Signals
    BY <1>4, <2>1 DEF Signals
  <2>3. Pending' = Pending \ {r} /\ r \in Pending
    BY <1>4, <1>5, <2>1 DEF Pending
  <2>4. IsFiniteSet(Alive) /\ IsFiniteSet(sent) /\ Counted <= 1 + Cardinality(GoAways \cap sent)
    BY DEF BoundInv
  <2>5. /\ IsFiniteSet(Signals) /\ IsFiniteSet(Pending)
        /\ Cardinality(Alive) \in Nat /\ Cardinality(Signals) \in Nat
        /\ Cardinality(Pending) \in Nat
    BY <2>4, CountTypes
  <2>6. Cardinality(Signals') = Cardinality(Signals) + 1
    BY <2>2, <2>5, FS_AddElement
  <2>7. Cardinality(Pending') = Cardinality(Pending) - 1
    BY <2>3, <2>5, FS_RemoveElement
  <2>8. Counted' = Counted
    BY <1>1, <1>2, <2>5, <2>6, <2>7 DEF Counted
  <2> QED
    BY <1>1, <1>2, <1>6, <2>4, <2>8 DEF BoundInv
<1> QED
  BY <1>8, <1>9, <1>10 DEF DispatchStep

LEMMA ServerSendsBounded ==
  ASSUME TypeOK, BoundInv, NEW r \in Runners, NEW t \in Tasks, ServerSends(r, t)
  PROVE  BoundInv'
<1>1. UNCHANGED <<runner, dispatch, first, start, stream, goAway, inflight>>
  BY DEF ServerSends, loopVars, streamVars
<1>2. Alive' = Alive /\ Signals' = Signals
  BY <1>1 DEF Alive, Signals
<1>3. inbox'[r] = Append(inbox[r], t) /\ \A s \in Runners \ {r} : inbox'[s] = inbox[s]
  BY DEF ServerSends, TypeOK, StreamTypeOK
<1>4. inbox[r] \in Seq(Tasks)
  BY DEF TypeOK, StreamTypeOK
<1>5. \A i \in DOMAIN Append(inbox[r], t) :
        Append(inbox[r], t)[i] = t \/ (i \in DOMAIN inbox[r] /\ Append(inbox[r], t)[i] = inbox[r][i])
  BY <1>4
<1>6. \A s \in Runners \ {r} : GoAwayUnderWay(s)' = GoAwayUnderWay(s)
  BY <1>1, <1>3 DEF GoAwayUnderWay
<1>7. t \notin GoAways => (GoAwayUnderWay(r)' => GoAwayUnderWay(r))
  BY <1>1, <1>3, <1>5 DEF GoAwayUnderWay
<1>8. QuietOutside'
  <2>1. runner[r] \in {"serving", "stopping"}
    BY DEF ServerSends, BoundInv, QuietOutside
  <2> QED
    BY <1>1, <1>3, <2>1 DEF BoundInv, QuietOutside
<1>9. IsFiniteSet(Alive) /\ IsFiniteSet(sent) /\ Counted <= 1 + Cardinality(GoAways \cap sent)
  BY DEF BoundInv
<1>10. /\ IsFiniteSet(Signals) /\ IsFiniteSet(Pending) /\ IsFiniteSet(GoAways \cap sent)
       /\ Cardinality(Alive) \in Nat /\ Cardinality(Signals) \in Nat
       /\ Cardinality(Pending) \in Nat /\ Cardinality(GoAways \cap sent) \in Nat
  BY <1>9, CountTypes
<1>11. sent' = sent \cup {t} /\ t \notin sent
  BY DEF ServerSends
<1>12. IsFiniteSet(sent')
  BY <1>9, <1>11, FS_AddElement
<1>13. CASE t \in GoAways
  <2>1. GoAways \cap sent' = (GoAways \cap sent) \cup {t} /\ t \notin GoAways \cap sent
    BY <1>11, <1>13
  <2>2. Cardinality(GoAways \cap sent') = Cardinality(GoAways \cap sent) + 1
    BY <1>10, <2>1, FS_AddElement
  <2>3. Pending' \subseteq Pending \cup {r}
    BY <1>1, <1>6 DEF Pending
  <2>4. IsFiniteSet(Pending \cup {r}) /\ Cardinality(Pending \cup {r}) <= Cardinality(Pending) + 1
        /\ Cardinality(Pending \cup {r}) \in Nat
    <3>1. /\ IsFiniteSet(Pending \cup {r})
          /\ \/ Cardinality(Pending \cup {r}) = Cardinality(Pending)
             \/ Cardinality(Pending \cup {r}) = Cardinality(Pending) + 1
      BY <1>10, FS_AddElement
    <3> QED
      BY <1>10, <3>1
  <2>5. IsFiniteSet(Pending') /\ Cardinality(Pending') <= Cardinality(Pending \cup {r})
    BY <2>3, <2>4, FS_Subset
  <2>6. Cardinality(Pending') \in Nat
    BY <2>5, FS_CardinalityType
  <2>7. Counted' <= Counted + 1 /\ Counted \in Nat /\ Counted' \in Nat
    BY <1>1, <1>2, <1>10, <2>4, <2>5, <2>6 DEF Counted
  <2>8. Counted' <= 1 + Cardinality(GoAways \cap sent')
    BY <1>9, <1>10, <2>2, <2>7
  <2> QED
    BY <1>2, <1>8, <1>9, <1>12, <2>8 DEF BoundInv
<1>14. CASE t \notin GoAways
  <2>1. GoAways \cap sent' = GoAways \cap sent
    BY <1>11, <1>14
  <2>2. Pending' \subseteq Pending
    BY <1>1, <1>6, <1>7, <1>14 DEF Pending
  <2>3. Cardinality(Pending') <= Cardinality(Pending) /\ IsFiniteSet(Pending')
    BY <1>10, <2>2, FS_Subset
  <2>4. Cardinality(Pending') \in Nat
    BY <2>3, FS_CardinalityType
  <2>5. Counted' <= Counted /\ Counted \in Nat /\ Counted' \in Nat
    BY <1>1, <1>2, <1>10, <2>3, <2>4 DEF Counted
  <2>6. Counted' <= 1 + Cardinality(GoAways \cap sent')
    BY <1>9, <1>10, <2>1, <2>5
  <2> QED
    BY <1>2, <1>8, <1>9, <1>12, <2>6 DEF BoundInv
<1> QED
  BY <1>13, <1>14

LEMMA BreakBounded ==
  ASSUME TypeOK, BoundInv, NEW r \in Runners, Break(r)
  PROVE  BoundInv'
<1>1. UNCHANGED <<runner, dispatch, first, start, sent, goAway, inflight>>
  BY DEF Break, loopVars
<1>2. PICK n \in 0..Len(inbox[r]) : inbox' = [inbox EXCEPT ![r] = SubSeq(@, 1, n)]
  BY DEF Break
<1>3. inbox[r] \in Seq(Tasks) /\ Len(inbox[r]) \in Nat /\ n \in Nat /\ n <= Len(inbox[r])
  BY <1>2 DEF TypeOK, StreamTypeOK
<1>4. inbox'[r] = SubSeq(inbox[r], 1, n) /\ \A s \in Runners \ {r} : inbox'[s] = inbox[s]
  BY <1>2 DEF TypeOK, StreamTypeOK
<1>5. \A i \in DOMAIN SubSeq(inbox[r], 1, n) :
        i \in DOMAIN inbox[r] /\ SubSeq(inbox[r], 1, n)[i] = inbox[r][i]
  BY <1>3
<1>6. GoAwayUnderWay(r)' => GoAwayUnderWay(r)
  BY <1>1, <1>4, <1>5 DEF GoAwayUnderWay
<1>7. \A s \in Runners \ {r} : GoAwayUnderWay(s)' = GoAwayUnderWay(s)
  BY <1>1, <1>4 DEF GoAwayUnderWay
<1>8. Alive' = Alive /\ Signals' = Signals /\ Pending' \subseteq Pending
  BY <1>1, <1>6, <1>7 DEF Alive, Signals, Pending
<1>9. runner[r] \in {"serving", "stopping"} /\ \A s \in Runners \ {r} : stream'[s] = stream[s]
  BY DEF Break, BoundInv, QuietOutside, TypeOK, StreamTypeOK
<1>10. QuietOutside'
  BY <1>1, <1>4, <1>9 DEF BoundInv, QuietOutside
<1> QED
  BY <1>1, <1>8, <1>10, NoMoreRequests

LEMMA TaskEndsBounded ==
  ASSUME TypeOK, BoundInv, NEW r \in Runners, NEW t \in Tasks, TaskEnds(r, t)
  PROVE  BoundInv'
<1>1. UNCHANGED <<runner, dispatch, first, start, sent, stream, inbox>>
  BY DEF TaskEnds, loopVars, streamVars
<1>2. /\ inflight'[r] = inflight[r] \ {t} /\ t \in inflight[r]
      /\ \A s \in Runners \ {r} : inflight'[s] = inflight[s]
      /\ goAway' = goAway \/ (t \in GoAways /\ goAway' = goAway \cup {r})
  BY DEF TaskEnds, TypeOK, StreamTypeOK
<1>3. \A s \in Runners : GoAwayUnderWay(s)' => GoAwayUnderWay(s)
  BY <1>1, <1>2 DEF GoAwayUnderWay
<1>4. Alive' = Alive /\ Signals' = Signals /\ Pending' \subseteq Pending
  BY <1>1, <1>3 DEF Alive, Signals, Pending
<1>5. runner[r] \in {"serving", "stopping"}
  BY <1>2 DEF BoundInv, QuietOutside
<1>6. QuietOutside'
  BY <1>1, <1>2, <1>5 DEF BoundInv, QuietOutside
<1> QED
  BY <1>1, <1>4, <1>6, NoMoreRequests

LEMMA NextBounded ==
  ASSUME TypeOK, BoundInv, [Next]_vars
  PROVE  BoundInv'
<1>1. ASSUME UNCHANGED <<runner, dispatch, first, start, sent, inbox, inflight, goAway>>,
             \A r \in Runners : stream[r] = "none" => stream'[r] = "none"
      PROVE  BoundInv'
  <2>1. \A s \in Runners : GoAwayUnderWay(s)' = GoAwayUnderWay(s)
    BY <1>1, SameQueues
  <2>2. Alive' = Alive /\ Signals' = Signals /\ Pending' = Pending
    BY <1>1, <2>1 DEF Alive, Signals, Pending
  <2>3. QuietOutside'
    BY <1>1 DEF BoundInv, QuietOutside
  <2> QED
    BY <1>1, <2>2, <2>3, NoMoreRequests
<1>2. ASSUME NEW r \in Runners, StatusStep(r)
      PROVE  BoundInv'
  BY <1>1, <1>2 DEF StatusStep, Report, Send, UpdateActive, Select, Final, taskVars, streamVars
<1>3. ASSUME NEW r \in Runners, FallSilent(r)
      PROVE  BoundInv'
  BY <1>1, <1>3 DEF FallSilent, loopVars, taskVars, TypeOK, StreamTypeOK
<1>4. ASSUME NEW r \in Runners, Notify(r)
      PROVE  BoundInv'
  BY <1>1, <1>4 DEF Notify, taskVars, streamVars
<1>5. CASE StartGracefulShutdown \/ Exit
  BY <1>1, <1>5 DEF StartGracefulShutdown, Exit, loopVars, taskVars, streamVars
<1>6. CASE UNCHANGED vars
  BY <1>1, <1>6 DEF vars, loopVars, taskVars, streamVars
<1> QED
  BY <1>2, <1>3, <1>4, <1>5, <1>6, StartBounded, RunnerBounded, DispatchBounded,
     ServerSendsBounded, BreakBounded, TaskEndsBounded DEF Next, Idle, Environment

(***************************************************************************)
(* The runners, the requests for one and the signal of the start are       *)
(* never more than one and one for each GoAway that was sent, however      *)
(* failures, GoAways and the counting of active engines interleave.        *)
(***************************************************************************)
THEOREM RunnersBounded == Spec => []RunnersAreBounded
<1>1. Init => BoundInv
  <2> SUFFICES ASSUME Init
               PROVE  BoundInv
    OBVIOUS
  <2>1. QuietOutside
    BY DEF Init, QuietOutside
  <2>2. Alive = {} /\ Signals = {} /\ Pending = {} /\ GoAways \cap sent = {} /\ sent = {}
    BY DEF Init, Alive, Signals, Pending
  <2>3. first /\ start = "wait"
    BY DEF Init
  <2> QED
    BY <2>1, <2>2, <2>3, FS_EmptySet DEF BoundInv, Counted
<1>2. TypeOK /\ BoundInv /\ [Next]_vars => BoundInv'
  BY NextBounded
<1>3. TypeOK /\ BoundInv => RunnersAreBounded
  <2> SUFFICES ASSUME TypeOK, BoundInv
               PROVE  RunnersAreBounded
    OBVIOUS
  <2>1. IsFiniteSet(Alive) /\ IsFiniteSet(sent) /\ Counted <= 1 + Cardinality(GoAways \cap sent)
    BY DEF BoundInv
  <2>2. /\ Cardinality(Alive) \in Nat /\ Cardinality(Signals) \in Nat
        /\ Cardinality(Pending) \in Nat /\ Cardinality(GoAways \cap sent) \in Nat
    BY <2>1, CountTypes
  <2>3. Requests = Cardinality(Alive) + Cardinality(Signals)
                   + (IF first THEN 1 ELSE 0) + (IF start # "wait" THEN 1 ELSE 0)
    BY DEF Requests, Alive, Signals
  <2> QED
    BY <2>1, <2>2, <2>3 DEF Counted, RunnersAreBounded
<1> QED
  BY <1>1, <1>2, <1>3, RunnerTypeCorrect, PTL DEF Spec

=============================================================================
