------------------------------ MODULE RateLimiter ------------------------------
(***************************************************************************)
(* The rate limiter of the server's HTTP API, server/internal/rate: the    *)
(* generic cell rate algorithm on one key, in memory (store.go) or in      *)
(* Redis (gcra_ratelimit.lua).  Keys do not share state, and each take is  *)
(* atomic.                                                                 *)
(*                                                                         *)
(* Time is counted in ticks.  The script adds the microseconds of the      *)
(* second to the seconds; the store in memory adds the microseconds since  *)
(* the epoch, less the seconds (store.go 154): its clock is the time twice,*)
(* once in whole seconds.                                                  *)
(***************************************************************************)
EXTENDS Naturals, Integers, FiniteSets, Sequences

CONSTANTS TicksPerSecond,
          Interval,     \* intervalSec: ticks per token
          Burst,
          MaxTicks      \* bound: the length of a run

ASSUME RateAssumption ==
  /\ TicksPerSecond \in Nat \ {0} /\ Interval \in Nat \ {0} /\ Burst \in Nat \ {0}
  /\ MaxTicks \in Nat

VARIABLES
  storeType,   \* redis or memory
  ticks,       \* the time
  tat,         \* the theoretical arrival time that is stored; -1: none
  grants,      \* the times at which a token was granted
  retryAt      \* what the last refusal promised, on the store's clock; -1: none

rateVars == <<storeType, ticks, tat, grants, retryAt>>

Clock(t) ==
  IF storeType = "memory" THEN (t \div TicksPerSecond) * TicksPerSecond + t ELSE t

RateTypeOK ==
  /\ storeType \in {"redis", "memory"}
  /\ ticks \in 0..MaxTicks
  /\ tat \in Int /\ grants \in Seq(0..MaxTicks) /\ retryAt \in Int

RateInit ==
  /\ storeType \in {"redis", "memory"}
  /\ ticks = 0 /\ tat = -1 /\ grants = <<>> /\ retryAt = -1

BurstOffset == Burst * Interval

\* A bug: time in which nothing was taken is saved up.
NewTatWithoutNow == tat + Interval

\* The later of the stored time and now, and one token more.
NewTat == (IF tat > Clock(ticks) THEN tat ELSE Clock(ticks)) + Interval
Slack == Clock(ticks) - (NewTat - BurstOffset)

Take ==
  \/ /\ Slack >= 0
     /\ tat' = NewTat
     /\ grants' = Append(grants, ticks) /\ retryAt' = -1
     /\ UNCHANGED <<storeType, ticks>>
  \/ /\ Slack < 0
     /\ retryAt' = Clock(ticks) - Slack
     /\ UNCHANGED <<storeType, ticks, tat, grants>>

\* SETEX: Redis forgets a key once its reset time is over.
KeyExpires ==
  /\ storeType = "redis" /\ tat # -1 /\ tat <= ticks
  /\ tat' = -1
  /\ UNCHANGED <<storeType, ticks, grants, retryAt>>

TimePasses ==
  /\ ticks < MaxTicks /\ ticks' = ticks + 1
  /\ UNCHANGED <<storeType, tat, grants, retryAt>>

RateNext == Take \/ KeyExpires \/ TimePasses

RateSpec == RateInit /\ [][RateNext]_rateVars
-----------------------------------------------------------------------------
(***************************************************************************)
(* In no period does a key get more than the burst and what the period     *)
(* brings, on the clock of the store, and whoever is refused and waits as  *)
(* long as the answer says gets a token (store.go 147-176).                *)
(***************************************************************************)
RateIsKept ==
  /\ \A i, j \in DOMAIN grants :
       i <= j => j - i + 1 <= Burst + (Clock(grants[j]) - Clock(grants[i])) \div Interval
  /\ retryAt # -1 /\ Clock(ticks) >= retryAt => Slack >= 0

=============================================================================
