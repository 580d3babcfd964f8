------------------------------ MODULE Autoscaler ------------------------------
(***************************************************************************)
(* The builtin autoscaler, engine/internal/autoscaler/builtin.go, for one  *)
(* runtime.  Register starts a goroutine that scales the StatefulSet in    *)
(* every period by the number of its requests in flight.  The goroutine    *)
(* works on the scaler of Register; the map has a copy of it that is made  *)
(* before the goroutine sets cancel, so that Unregister stops nothing.     *)
(*                                                                         *)
(* A period is a second; to read and to write the StatefulSet are two      *)
(* requests.  Rates are in percent.                                        *)
(***************************************************************************)
EXTENDS MetricsWindow

CONSTANTS ScaleTargetValue, MinScale, MaxScale, MaxScaleUpRate, MaxScaleDownRate,
          ScaleToZeroGracePeriod,
          DeployedReplicas,    \* the replicas that a deployment asks for
          Scalers,             \* bound: the registrations, by number
          NoSts0

ASSUME ScaleAssumption ==
  /\ ScaleTargetValue \in Nat \ {0} /\ MinScale \in Nat /\ MaxScale \in Nat
  /\ MaxScale # 0 => MinScale <= MaxScale
  /\ MaxScaleUpRate \in Nat \ {0} /\ MaxScaleDownRate \in Nat \ {0}
  /\ ScaleToZeroGracePeriod \in Nat /\ DeployedReplicas \in Nat
  /\ Scalers \subseteq Nat \ {0} /\ NoSts0 \notin Nat

VARIABLES
  started,      \* startCh is closed: this engine leads
  registered,   \* the scaler that is in the map; 0: none
  goroutines,   \* the scalers by number
  specReplicas, \* of the StatefulSet; NoSts0 when there is none
  readyReplicas,
  slept         \* history: what the last scaling to zero was based on

scaleVars == <<started, registered, goroutines, specReplicas, readyReplicas, slept>>
autoscalerVars == <<windowVars, scaleVars>>

CeilDiv(a, b) == (a + b - 1) \div b
Largest(a, b) == IF a > b THEN a ELSE b
Smallest(a, b) == IF a < b THEN a ELSE b

\* Without a maximum, or with a rate by which to scale down makes more of what
\* is ready, there is no bound.
ReplicaCounts ==
  IF MaxScale > 0 /\ MaxScaleDownRate <= 100 THEN 0..Largest(DeployedReplicas, MaxScale) ELSE Nat

ScaleTypeOK ==
  /\ WindowTypeOK
  /\ started \in BOOLEAN /\ registered \in Scalers \cup {0}
  /\ goroutines \in [Scalers -> [running : BOOLEAN, lastTransitToZero : -1..MaxSeconds,
                                 scaledAt : -1..MaxSeconds, newReplicas : ReplicaCounts \cup {-1}]]
  /\ specReplicas \in ReplicaCounts \cup {NoSts0} /\ readyReplicas \in ReplicaCounts
  /\ slept \subseteq [since : 0..MaxSeconds, at : 0..MaxSeconds]

AutoscalerInit ==
  /\ WindowInit
  /\ started \in BOOLEAN /\ registered = 0
  /\ goroutines = [g \in Scalers |->
       [running |-> FALSE, lastTransitToZero |-> -1, scaledAt |-> -1, newReplicas |-> -1]]
  /\ specReplicas = NoSts0 /\ readyReplicas = 0 /\ slept = {}

Unused == {g \in Scalers : ~goroutines[g].running}
-----------------------------------------------------------------------------
\* The manager deploys a runtime that it does not know and registers it; for
\* one that is registered Register does nothing.
Register ==
  /\ specReplicas = NoSts0 /\ registered = 0 /\ Unused # {}
  /\ specReplicas' = DeployedReplicas
  /\ registered' = Min(Unused)
  /\ goroutines' = [goroutines EXCEPT ![Min(Unused)].running = TRUE]
  /\ UNCHANGED <<windowVars, started, readyReplicas, slept>>

StsIsDeleted ==
  /\ specReplicas # NoSts0
  /\ specReplicas' = NoSts0 /\ readyReplicas' = 0
  /\ UNCHANGED <<windowVars, started, registered, goroutines, slept>>

\* It hears that the StatefulSet is gone and unregisters it,
Unregister ==
  /\ specReplicas = NoSts0 /\ registered # 0
  /\ registered' = 0
  /\ UNCHANGED <<windowVars, started, goroutines, specReplicas, readyReplicas, slept>>

\* and applies it again, with the replicas of its configuration.
DeployedAgain ==
  /\ specReplicas \notin {NoSts0, DeployedReplicas}
  /\ specReplicas' = DeployedReplicas
  /\ UNCHANGED <<windowVars, started, registered, goroutines, readyReplicas, slept>>

PodsFollow ==
  /\ specReplicas # NoSts0 /\ readyReplicas # specReplicas
  /\ readyReplicas' = IF readyReplicas < specReplicas THEN readyReplicas + 1 ELSE readyReplicas - 1
  /\ UNCHANGED <<windowVars, started, registered, goroutines, specReplicas, slept>>

ScalerStarts ==
  /\ ~started /\ started' = TRUE
  /\ UNCHANGED <<windowVars, registered, goroutines, specReplicas, readyReplicas, slept>>
-----------------------------------------------------------------------------
(***************************************************************************)
(* scale.                                                                  *)
(***************************************************************************)
DesiredReplicas ==
  CeilDiv(WindowTotal, BucketNum * Largest(readyReplicas, 1) * ScaleTargetValue)

WithinBounds(n) ==
  IF MaxScale > 0 THEN Smallest(Largest(MinScale, n), MaxScale) ELSE Largest(MinScale, n)

\* A bug: no grace period.
Ungraced(n, since) == n

\* Zero is one for the grace period, from the first time that it is zero.
Graced(n, since) == IF n = 0 /\ second - since < ScaleToZeroGracePeriod THEN 1 ELSE n

Limited(n) ==
  IF n < specReplicas THEN Largest(n, (readyReplicas * MaxScaleDownRate) \div 100)
  ELSE IF n > specReplicas
    THEN Smallest(n, CeilDiv(Largest(1, readyReplicas) * MaxScaleUpRate, 100))
  ELSE n

CanScale(g) ==
  started /\ goroutines[g].running /\ goroutines[g].newReplicas = -1 /\ goroutines[g].scaledAt < second

Scale(g) ==
  LET n == WithinBounds(DesiredReplicas)
      since == IF n # 0 THEN -1
               ELSE IF goroutines[g].lastTransitToZero = -1 THEN second
               ELSE goroutines[g].lastTransitToZero
      new == Limited(Graced(n, since))
  IN /\ CanScale(g) /\ specReplicas # NoSts0
     /\ goroutines' = [goroutines EXCEPT
          ![g].lastTransitToZero = since, ![g].scaledAt = second,
          ![g].newReplicas = IF new = specReplicas THEN -1 ELSE new]
     /\ slept' = IF new = 0 /\ new # specReplicas /\ g = registered
                   THEN {[since |-> since, at |-> second]} ELSE slept
     /\ UNCHANGED <<windowVars, started, registered, specReplicas, readyReplicas>>

ScaleFindsNothing(g) ==
  /\ CanScale(g) /\ specReplicas = NoSts0
  /\ goroutines' = [goroutines EXCEPT ![g].scaledAt = second]
  /\ UNCHANGED <<windowVars, started, registered, specReplicas, readyReplicas, slept>>

\* The scale subresource is written whatever has happened since.
ScaleTo(g) ==
  /\ goroutines[g].newReplicas # -1
  /\ specReplicas' = IF specReplicas = NoSts0 THEN NoSts0 ELSE goroutines[g].newReplicas
  /\ goroutines' = [goroutines EXCEPT ![g].newReplicas = -1]
  /\ UNCHANGED <<windowVars, started, registered, readyReplicas, slept>>

\* The goroutines keep their period.
Passes ==
  /\ SecondPasses
  /\ \A g \in Scalers : ~CanScale(g) /\ goroutines[g].newReplicas = -1
  /\ UNCHANGED scaleVars

AutoscalerNext ==
  \/ LoadChanges /\ UNCHANGED scaleVars
  \/ Passes
  \/ Register \/ StsIsDeleted \/ Unregister \/ DeployedAgain \/ PodsFollow \/ ScalerStarts
  \/ \E g \in Scalers : Scale(g) \/ ScaleFindsNothing(g) \/ ScaleTo(g)

AutoscalerSpec == AutoscalerInit /\ [][AutoscalerNext]_autoscalerVars
-----------------------------------------------------------------------------
(***************************************************************************)
(* The scaler that is registered takes the last pod away only from a model *)
(* that has had no request in flight at the end of any second since the    *)
(* window before the grace period began: a request that the average still  *)
(* contains starts the grace period again (builtin.go 176-222,             *)
(* metrics/client.go 97-185).  A scaler that should have stopped keeps     *)
(* nothing of the kind.                                                    *)
(***************************************************************************)
SleepsOnlyWhenIdle ==
  \A z \in slept :
    /\ z.at - z.since >= ScaleToZeroGracePeriod
    /\ \A s \in Largest(0, z.since - BucketNum + 1)..(z.at - 1) : load[s] = 0

=============================================================================
