----------------------------- MODULE MetricsWindow -----------------------------
(***************************************************************************)
(* The metric that the autoscaler works with, engine/internal/metrics:     *)
(* the number of requests in flight of a model, averaged over a window.    *)
(* The window is a ring of one bucket per second, which is brought up to   *)
(* date when a request starts or ends; what lies between is filled in with *)
(* the value that was last.                                                *)
(***************************************************************************)
EXTENDS Integers, FiniteSetsExt, Functions

CONSTANTS BucketNum,     \* the window in seconds
          MaxSeconds,    \* bound: the length of a run
          MaxInFlight    \* bound

ASSUME WindowAssumption ==
  BucketNum \in Nat \ {0} /\ MaxSeconds \in Nat /\ MaxInFlight \in Nat

VARIABLES
  second,          \* the time
  buckets, lastIndex,
  lastUpdatedAt,   \* -1: nothing has been added
  load             \* history: the requests in flight at the end of each second

windowVars == <<second, buckets, lastIndex, lastUpdatedAt, load>>

WindowTypeOK ==
  /\ second \in 0..MaxSeconds
  /\ buckets \in [0..(BucketNum - 1) -> 0..MaxInFlight]
  /\ lastIndex \in 0..(BucketNum - 1) /\ lastUpdatedAt \in -1..second
  /\ load \in [0..second -> 0..MaxInFlight]

WindowInit ==
  /\ second = 0 /\ load = [s \in {0} |-> 0]
  /\ buckets = [i \in 0..(BucketNum - 1) |-> 0] /\ lastIndex = 0 /\ lastUpdatedAt = -1

InFlight == load[second]

\* A bug: the ring has an end.
BetweenForward(idx) == (lastIndex + 1)..(idx - 1)

\* The buckets strictly between the last one and idx, around the ring.
Between(idx) ==
  IF idx > lastIndex THEN (lastIndex + 1)..(idx - 1)
  ELSE (lastIndex + 1)..(BucketNum - 1) \cup 0..(idx - 1)

\* windowBucket.add at the present second.
WindowAdd(v) ==
  LET d == second - lastUpdatedAt
      lastVal == buckets[lastIndex]
      idx == (lastIndex + d) % BucketNum
  IN /\ lastUpdatedAt' = second
     /\ IF lastUpdatedAt = -1
          THEN buckets' = [buckets EXCEPT ![0] = v] /\ UNCHANGED lastIndex
        ELSE IF d = 0
          THEN buckets' = [buckets EXCEPT ![lastIndex] = @ + v] /\ UNCHANGED lastIndex
        ELSE IF d > BucketNum
          THEN /\ lastIndex' = 0
               /\ buckets' = [i \in DOMAIN buckets |-> IF i = 0 THEN lastVal + v ELSE lastVal]
        ELSE /\ lastIndex' = idx
             /\ buckets' = [i \in DOMAIN buckets |->
                  IF i = idx THEN lastVal + v
                  ELSE IF i \in Between(idx) THEN lastVal ELSE buckets[i]]

\* windowBucket.average, times BucketNum.
WindowTotal ==
  LET d == second - lastUpdatedAt
      idx == (lastIndex + d) % BucketNum
      old == IF idx < lastIndex THEN idx..(lastIndex - 1)
             ELSE idx..(BucketNum - 1) \cup 0..(lastIndex - 1)
  IN IF lastUpdatedAt = -1 THEN 0
     ELSE IF d >= BucketNum THEN buckets[lastIndex] * BucketNum
     ELSE buckets[lastIndex] * d + SumFunctionOnSet(buckets, old)

\* A request starts (Add 1) or ends (Add -1); then the next second begins.
LoadChanges ==
  \E v \in {-1, 1} :
    /\ InFlight + v \in 0..MaxInFlight
    /\ load' = [load EXCEPT ![second] = @ + v]
    /\ WindowAdd(v)
    /\ UNCHANGED second

SecondPasses ==
  /\ second < MaxSeconds /\ second' = second + 1
  /\ load' = [s \in 0..second' |-> IF s = second' THEN InFlight ELSE load[s]]
  /\ UNCHANGED <<buckets, lastIndex, lastUpdatedAt>>

(***************************************************************************)
(* The ring holds what the load has been: the average is that of the last  *)
(* seconds of the window, the present one included if something has been   *)
(* added in it, whenever requests came and however long none did           *)
(* (metrics/client.go 97-185).                                             *)
(***************************************************************************)
AverageIsExact ==
  LET last == IF lastUpdatedAt = second THEN second ELSE second - 1
  IN WindowTotal =
       SumFunctionOnSet(load, {s \in (last - BucketNum + 1)..last : s >= 0})

=============================================================================
