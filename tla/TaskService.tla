----------------------------- MODULE TaskService -----------------------------
(***************************************************************************)
(* What the task processor promises to the callers of its tasks, whatever  *)
(* engines, streams between servers and retries do: a call fails with      *)
(* nothing delivered, or it is answered by one attempt.  The answer of a   *)
(* task that is not streamed is all of it; a stream goes on with its       *)
(* events, one by one and from the attempt that opened it, and is complete *)
(* only at the last of them; otherwise the caller sees it cut off.  Only a *)
(* task that had a result dropped may mix attempts, still without a gap.   *)
(***************************************************************************)
EXTENDS Naturals

CONSTANTS Tasks, Streamed, NumChunks, Attempts

VARIABLES call,     \* what the caller of each task sees
          results,  \* how many results it was given: the response, then events
          from,     \* the attempts they are from
          lossy     \* the tasks that had a result dropped

promise == <<call, results, from, lossy>>

Init ==
  /\ call = [t \in Tasks |-> "waiting"]
  /\ results = [t \in Tasks |-> 0]
  /\ from = [t \in Tasks |-> {}]
  /\ lossy = {}

\* The first result.  An answer ends the call at once or when it was read; a
\* stream may be answered too, with an error.
Respond(t, a) ==
  /\ call[t] = "waiting"
  /\ \E s \in {"answered", "complete"} \cup (IF t \in Streamed THEN {"streaming"} ELSE {}) :
       call' = [call EXCEPT ![t] = s]
  /\ results' = [results EXCEPT ![t] = 1]
  /\ from' = [from EXCEPT ![t] = {a}]

\* The next event of a stream.
Continue(t, a) ==
  /\ call[t] = "streaming"
  /\ a \in from[t] \/ t \in lossy
  /\ results[t] <= NumChunks
  /\ call' = [call EXCEPT ![t] = IF results[t] = NumChunks THEN "complete" ELSE @]
  /\ results' = [results EXCEPT ![t] = @ + 1]
  /\ from' = [from EXCEPT ![t] = @ \cup {a}]

Deliver(t) == \E a \in Attempts : Respond(t, a) \/ Continue(t, a)

\* The caller has read the answer.
Finish(t) == call[t] = "answered" /\ call' = [call EXCEPT ![t] = "complete"]

Fail(t) == call[t] = "waiting" /\ call' = [call EXCEPT ![t] = "failed"]

CutOff(t) == call[t] = "streaming" /\ call' = [call EXCEPT ![t] = "truncated"]

Next ==
  \/ \E t \in Tasks : Deliver(t) /\ UNCHANGED lossy
  \/ \E t \in Tasks : (Finish(t) \/ Fail(t) \/ CutOff(t)) /\ UNCHANGED <<results, from, lossy>>
  \/ lossy \subseteq lossy' /\ UNCHANGED <<call, results, from>>

Spec == Init /\ [][Next]_promise
=============================================================================
