-------------------------- MODULE ServerPartsProofs --------------------------
(***************************************************************************)
(* Theorems about the components of the server that are modelled on their  *)
(* own, and about the stream of events that server and engine read: one    *)
(* section for each, after the facts about finite sets of numbers that     *)
(* these sections and PartsProofs share.                                   *)
(***************************************************************************)
EXTENDS HTTPHandlers, RateLimiter, TaskExchange, EventStream, ServerShutdown, Integers,
        SequenceTheorems, FiniteSetTheorems, WellFoundedInduction, TLAPS

(***************************************************************************)
(* Finite sets of numbers, and sets of numbers at all.                     *)
(***************************************************************************)
\* A finite set of numbers has a largest and a smallest one.
LEMMA LargestOfFinite ==
  ASSUME NEW S, S \subseteq Nat, IsFiniteSet(S), S # {}
  PROVE  \E x \in S : \A y \in S : y <= x
<1> DEFINE From(y) == {x \in S : x >= y}
           T == {From(y) : y \in S}
<1>1. T \subseteq FiniteSubsetsOf(S) /\ T # {}
  <2>1. \A y \in S : From(y) \in SUBSET S /\ IsFiniteSet(From(y))
    BY FS_Subset
  <2> QED
    BY <2>1 DEF FiniteSubsetsOf
<1>2. \E t \in T : \A u \in T : ~(<<u, t>> \in StrictSubsetOrdering(S))
  <2> HIDE DEF T
  <2> QED
    BY <1>1, FS_StrictSubsetOrderingWellFounded, WFMin
<1>3. PICK x \in S : \A y \in S : ~(<<From(y), From(x)>> \in StrictSubsetOrdering(S))
  BY <1>2
<1>4. ASSUME NEW y \in S, y > x PROVE FALSE
  <2>1. From(y) \subseteq From(x) /\ x \in From(x) /\ x \notin From(y)
    <3>1. x \in Nat /\ y \in Nat /\ y > x
      BY <1>4
    <3>2. x >= x /\ ~(x >= y) /\ \A z \in S : z >= y => z >= x
      <4> SUFFICES ASSUME NEW z \in S PROVE x >= x /\ ~(x >= y) /\ (z >= y => z >= x)
        BY <1>3
      <4>1. z \in Nat
        OBVIOUS
      <4> QED
        BY <3>1, <4>1
    <3> QED
      BY <3>2
  <2>2. From(y) \in SUBSET S /\ From(x) \in SUBSET S
    OBVIOUS
  <2> HIDE DEF From
  <2> QED
    BY <1>3, <2>1, <2>2 DEF StrictSubsetOrdering
<1> QED
  BY <1>4

LEMMA SmallestOfFinite ==
  ASSUME NEW S, S \subseteq Nat, IsFiniteSet(S), S # {}
  PROVE  \E x \in S : \A y \in S : x <= y
<1> DEFINE UpTo(y) == {x \in S : x <= y}
           T == {UpTo(y) : y \in S}
<1>1. T \subseteq FiniteSubsetsOf(S) /\ T # {}
  <2>1. \A y \in S : UpTo(y) \in SUBSET S /\ IsFiniteSet(UpTo(y))
    BY FS_Subset
  <2> QED
    BY <2>1 DEF FiniteSubsetsOf
<1>2. \E t \in T : \A u \in T : ~(<<u, t>> \in StrictSubsetOrdering(S))
  <2> HIDE DEF T
  <2> QED
    BY <1>1, FS_StrictSubsetOrderingWellFounded, WFMin
<1>3. PICK x \in S : \A y \in S : ~(<<UpTo(y), UpTo(x)>> \in StrictSubsetOrdering(S))
  BY <1>2
<1>4. ASSUME NEW y \in S, y < x PROVE FALSE
  <2>1. UpTo(y) \subseteq UpTo(x) /\ x \in UpTo(x) /\ x \notin UpTo(y)
    <3>1. x \in Nat /\ y \in Nat /\ y < x
      BY <1>4
    <3>2. x <= x /\ ~(x <= y) /\ \A z \in S : z <= y => z <= x
      <4> SUFFICES ASSUME NEW z \in S PROVE x <= x /\ ~(x <= y) /\ (z <= y => z <= x)
        BY <1>3
      <4>1. z \in Nat
        OBVIOUS
      <4> QED
        BY <3>1, <4>1
    <3> QED
      BY <3>2
  <2>2. UpTo(y) \in SUBSET S /\ UpTo(x) \in SUBSET S
    OBVIOUS
  <2> HIDE DEF UpTo
  <2> QED
    BY <1>3, <2>1, <2>2 DEF StrictSubsetOrdering
<1> QED
  BY <1>4

\* Any set of numbers has a smallest one.
LEMMA SmallestNumber ==
  ASSUME NEW F, F \subseteq Nat, F # {}
  PROVE  \E n \in F : \A m \in F : n <= m
<1>1. PICK k \in F : TRUE
  OBVIOUS
<1> DEFINE G == F \cap 0..k
<1>2. k \in G /\ G \subseteq Nat
  BY <1>1
<1>3. IsFiniteSet(G)
  <2>1. IsFiniteSet(0..k)
    BY <1>1, FS_Interval
  <2> QED
    BY <2>1, FS_Subset
<1>4. PICK n \in G : \A m \in G : n <= m
  <2> HIDE DEF G
  <2> QED
    BY <1>2, <1>3, SmallestOfFinite
<1>5. \A m \in F : m \notin G => m > k
  BY <1>1
<1>6. n \in Nat /\ k \in Nat /\ n <= k
  BY <1>1, <1>4
<1> QED
  BY <1>4, <1>5, <1>6

-----------------------------------------------------------------------------
(***************************************************************************)
(* The model cache (HTTPHandlers), for any requests.                       *)
(*                                                                         *)
(* The inductive invariant.  A request that asks the model manager, or has *)
(* its answer and has not yet cached it, holds the mutex; an activation    *)
(* takes the mutex before it returns, so that no answer older than it is   *)
(* on its way to the cache.                                                *)
(***************************************************************************)
CacheTypeOK ==
  /\ lookup \in [Requests -> {"none", "asking", "asked", "got", "activated"}]
  /\ model \in [Requests -> ModelRecord \cup {NoEntry}]
  /\ modelCache \in ModelRecord \cup {NoEntry}
  /\ activation0 \in ModelRecord /\ activatedAt \in 0..MaxModelChanges

AskedUnderLock == \A r \in Requests : lookup[r] \in {"asking", "asked"} => cacheLock = r

AnswerIsCurrent ==
  \A r \in Requests : lookup[r] = "asked" => model[r] \in ModelRecord /\ activatedAt <= model[r].version

ActivationIsPast ==
  /\ activatedAt <= activation0.version
  /\ \A r \in Requests :
       lookup[r] = "activated" => model[r] \in ModelRecord /\ model[r].version <= activation0.version

CacheInv ==
  CacheTypeOK /\ AskedUnderLock /\ AnswerIsCurrent /\ ActivationIsPast /\ CacheKnowsActivation
-----------------------------------------------------------------------------
LEMMA RecordVersions ==
  /\ \A m \in ModelRecord : m.version \in Nat /\ m.version \in 0..MaxModelChanges
  /\ MaxModelChanges \in Nat
BY HttpAssumption DEF ModelRecord

\* A change of the model is a record of the next version.
LEMMA NextVersion ==
  ASSUME activation0 \in ModelRecord, activation0.version < MaxModelChanges, NEW active \in BOOLEAN,
         activation0' = [activation0 EXCEPT !.version = @ + 1, !.active = active]
  PROVE  /\ activation0' \in ModelRecord /\ activation0'.version = activation0.version + 1
         /\ activation0.version \in Nat
<1>1. activation0.version \in 0..MaxModelChanges /\ MaxModelChanges \in Nat
  BY HttpAssumption DEF ModelRecord
<1>2. activation0.version + 1 \in 0..MaxModelChanges
  BY <1>1
<1>3. activation0' \in ModelRecord /\ activation0'.version = activation0.version + 1
  BY <1>2 DEF ModelRecord
<1> QED
  BY <1>1, <1>3

LEMMA InitCache == HttpInit => CacheInv
<1> SUFFICES ASSUME HttpInit PROVE CacheInv
  OBVIOUS
<1>1. activation0 \in ModelRecord /\ activation0.version = 0
  BY HttpAssumption DEF HttpInit, ModelRecord
<1>2. CacheTypeOK
  BY <1>1, HttpAssumption DEF HttpInit, CacheTypeOK
<1> QED
  BY <1>1, <1>2
     DEF HttpInit, CacheInv, AskedUnderLock, AnswerIsCurrent, ActivationIsPast, CacheKnowsActivation

LEMMA CacheUnchanged ==
  ASSUME CacheInv, UNCHANGED cacheVars
  PROVE  CacheInv'
BY DEF CacheInv, cacheVars, CacheTypeOK, AskedUnderLock, AnswerIsCurrent, ActivationIsPast,
       CacheKnowsActivation

\* A request looks the model up.
LEMMA CacheLookup ==
  ASSUME CacheInv, NEW r \in Requests, GetModel(r)
  PROVE  CacheInv'
<1>1. CacheTypeOK'
  BY DEF CacheInv, CacheTypeOK, GetModel
<1>2. cacheLock = NoRequest /\ \A q \in Requests : lookup[q] \notin {"asking", "asked"}
  BY HttpAssumption DEF GetModel, CacheInv, AskedUnderLock
<1>3. AskedUnderLock'
  BY <1>2 DEF GetModel, CacheInv, CacheTypeOK, AskedUnderLock
<1>4. AnswerIsCurrent' /\ ActivationIsPast' /\ CacheKnowsActivation'
  BY <1>2 DEF GetModel, CacheInv, CacheTypeOK, AnswerIsCurrent, ActivationIsPast,
     CacheKnowsActivation
<1> QED
  BY <1>1, <1>3, <1>4 DEF CacheInv

\* The model manager answers to the request that holds the mutex.
LEMMA CacheAnswer ==
  ASSUME CacheInv, NEW r \in Requests, ModelManagerAnswers(r)
  PROVE  CacheInv'
<1>1. CASE /\ lookup' = [lookup EXCEPT ![r] = "asked"] /\ model' = [model EXCEPT ![r] = activation0]
           /\ UNCHANGED cacheLock
  BY <1>1 DEF ModelManagerAnswers, CacheInv, CacheTypeOK, AskedUnderLock, AnswerIsCurrent,
     ActivationIsPast, CacheKnowsActivation
<1>2. CASE lookup' = [lookup EXCEPT ![r] = "none"] /\ cacheLock' = NoRequest /\ UNCHANGED model
  BY <1>2 DEF ModelManagerAnswers, CacheInv, CacheTypeOK, AskedUnderLock, AnswerIsCurrent,
     ActivationIsPast, CacheKnowsActivation
<1> QED
  BY <1>1, <1>2 DEF ModelManagerAnswers

LEMMA CacheAdd ==
  ASSUME CacheInv, NEW r \in Requests, AddModelToCache(r)
  PROVE  CacheInv'
BY DEF AddModelToCache, CacheInv, CacheTypeOK, AskedUnderLock, AnswerIsCurrent,
       ActivationIsPast, CacheKnowsActivation

LEMMA CacheJudge ==
  ASSUME CacheInv, NEW r \in Requests, CheckModelAvailability(r)
  PROVE  CacheInv'
BY DEF CheckModelAvailability, Forgets, CacheInv, CacheTypeOK, AskedUnderLock, AnswerIsCurrent,
       ActivationIsPast, CacheKnowsActivation

\* The model manager activates the model; the cache does not know yet.
LEMMA CacheActivate ==
  ASSUME CacheInv, NEW r \in Requests, ActivateModel(r)
  PROVE  CacheInv'
<1>1. CASE /\ activation0.version < MaxModelChanges
           /\ activation0' = [activation0 EXCEPT !.version = @ + 1, !.active = TRUE]
           /\ lookup' = [lookup EXCEPT ![r] = "activated"]
           /\ model' = [model EXCEPT ![r] = activation0']
  <2>1. /\ activation0' \in ModelRecord /\ activation0'.version = activation0.version + 1
        /\ activation0.version \in Nat
    BY <1>1, NextVersion DEF CacheInv, CacheTypeOK
  <2>2. UNCHANGED <<modelCache, cacheLock, activatedAt>>
    BY DEF ActivateModel
  <2>3. CacheTypeOK'
    BY <1>1, <2>1, <2>2 DEF CacheInv, CacheTypeOK
  <2>4. AskedUnderLock' /\ AnswerIsCurrent' /\ CacheKnowsActivation'
    BY <1>1, <2>2 DEF CacheInv, CacheTypeOK, AskedUnderLock, AnswerIsCurrent, CacheKnowsActivation
  <2>5. activatedAt' <= activation0'.version
    BY <2>1, <2>2, HttpAssumption DEF CacheInv, CacheTypeOK, ActivationIsPast
  <2>6. ASSUME NEW q \in Requests, lookup'[q] = "activated"
        PROVE  model'[q] \in ModelRecord /\ model'[q].version <= activation0'.version
    <3>1. CASE q = r
      BY <1>1, <2>1, <3>1 DEF CacheInv, CacheTypeOK
    <3>2. CASE q # r
      <4>1. model'[q] = model[q] /\ lookup[q] = "activated"
        BY <1>1, <2>6, <3>2 DEF CacheInv, CacheTypeOK
      <4> QED
        BY <2>1, <4>1, RecordVersions DEF CacheInv, ActivationIsPast
    <3> QED
      BY <3>1, <3>2
  <2> QED
    BY <2>3, <2>4, <2>5, <2>6 DEF CacheInv, ActivationIsPast
<1>2. CASE Forgets(r) /\ UNCHANGED activation0
  BY <1>2 DEF ActivateModel, Forgets, CacheInv, CacheTypeOK, AskedUnderLock, AnswerIsCurrent,
     ActivationIsPast, CacheKnowsActivation
<1> QED
  BY <1>1, <1>2 DEF ActivateModel

\* ActivateModel returns when the cache has been cleared under the mutex.
LEMMA CacheRemove ==
  ASSUME CacheInv, NEW r \in Requests, RemoveModelFromCache(r)
  PROVE  CacheInv'
<1>1. /\ lookup[r] = "activated" /\ cacheLock = NoRequest /\ modelCache' = NoEntry
      /\ lookup' = [lookup EXCEPT ![r] = "none"] /\ model' = [model EXCEPT ![r] = NoEntry]
      /\ UNCHANGED <<cacheLock, activation0>>
  BY DEF RemoveModelFromCache, Forgets
<1>2. \A q \in Requests : lookup[q] \notin {"asking", "asked"}
  BY <1>1, HttpAssumption DEF CacheInv, AskedUnderLock
<1>3. model[r] \in ModelRecord /\ model[r].version <= activation0.version
  BY <1>1 DEF CacheInv, ActivationIsPast
<1>4. activatedAt' \in 0..MaxModelChanges /\ activatedAt' <= activation0.version
  BY <1>3, RecordVersions DEF RemoveModelFromCache, CacheInv, CacheTypeOK, ActivationIsPast
<1> QED
  BY <1>1, <1>2, <1>4 DEF CacheInv, CacheTypeOK, AskedUnderLock, AnswerIsCurrent,
     ActivationIsPast, CacheKnowsActivation

\* Somebody else changes the model.
LEMMA CacheModelChanges ==
  ASSUME CacheInv, ModelChanges
  PROVE  CacheInv'
<1>1. /\ activation0' \in ModelRecord /\ activation0'.version = activation0.version + 1
      /\ activation0.version \in Nat
  <2>1. activation0.active \in BOOLEAN
    BY DEF CacheInv, CacheTypeOK, ModelRecord
  <2> QED
    BY <2>1, NextVersion DEF ModelChanges, CacheInv, CacheTypeOK
<1>2. UNCHANGED <<lookup, model, modelCache, cacheLock, activatedAt>>
  BY DEF ModelChanges
<1>3. ActivationIsPast'
  BY <1>1, <1>2, RecordVersions DEF CacheInv, CacheTypeOK, ActivationIsPast
<1> QED
  BY <1>1, <1>2, <1>3 DEF CacheInv, CacheTypeOK, AskedUnderLock, AnswerIsCurrent,
     CacheKnowsActivation

LEMMA CacheStep ==
  ASSUME CacheInv, [HttpNext]_httpVars
  PROVE  CacheInv'
<1>1. CASE ModelChanges
  BY <1>1, CacheModelChanges
<1>2. ASSUME NEW r \in Requests, Serves(r)
      PROVE  CacheInv'
  <2>1. CASE \/ InterceptHTTPRequest(r) \/ Simple(r) \/ LimiterFails(r) \/ UpdateRequest(r)
             \/ IsNimModel(r) \/ SendTask(r) \/ CheckStatus(r) \/ RelayBody(r)
    <3>1. UNCHANGED cacheVars
      BY <2>1 DEF InterceptHTTPRequest, Simple, LimiterFails, UpdateRequest, IsNimModel, SendTask,
         CheckStatus, RelayBody
    <3> QED
      BY <3>1, CacheUnchanged
  <2>2. CASE \/ GetModel(r) \/ ModelManagerAnswers(r) \/ AddModelToCache(r)
             \/ CheckModelAvailability(r) \/ ActivateModel(r) \/ RemoveModelFromCache(r)
    BY <2>2, CacheLookup, CacheAnswer, CacheAdd, CacheJudge, CacheActivate, CacheRemove
  <2> QED
    BY <1>2, <2>1, <2>2 DEF Serves
<1>3. CASE UNCHANGED httpVars
  BY <1>3, CacheUnchanged DEF httpVars
<1> QED
  BY <1>1, <1>2, <1>3 DEF HttpNext

(***************************************************************************)
(* However requests that look up, cache and activate a model interleave,   *)
(* what the cache holds is never older than the last activation that has   *)
(* returned (model_cache.go 83-123).                                       *)
(***************************************************************************)
THEOREM CacheIsCurrent == HttpSpec => []CacheKnowsActivation
<1>1. CacheInv => CacheKnowsActivation
  BY DEF CacheInv
<1> QED
  BY <1>1, InitCache, CacheStep, PTL DEF HttpSpec
-----------------------------------------------------------------------------
(***************************************************************************)
(* The rate limiter, for any rate, burst and clock.                        *)
(*                                                                         *)
(* The inductive invariant.  Every token granted since the i-th has moved  *)
(* the theoretical arrival time on by an interval, from the clock of that  *)
(* grant at least; a refusal has promised the time at which the stored     *)
(* arrival time will again leave room in the burst.                        *)
(***************************************************************************)
Reached == IF tat > Clock(ticks) THEN tat ELSE Clock(ticks)

GrantsAreCounted ==
  \A i \in 1..Len(grants) : Clock(grants[i]) + (Len(grants) - i + 1) * Interval <= Reached

GrantsAreInRate ==
  \A i, j \in 1..Len(grants) :
    i <= j => (j - i + 1) * Interval <= Burst * Interval + (Clock(grants[j]) - Clock(grants[i]))

RetryIsOfArrival == retryAt # -1 => tat = -1 \/ retryAt = tat + Interval - BurstOffset

RateInv == RateTypeOK /\ GrantsAreCounted /\ GrantsAreInRate /\ RetryIsOfArrival

\* Arithmetic.
LEMMA ProductsGrow ==
  ASSUME NEW a \in Int, NEW b \in Int, NEW n \in Nat \ {0}, a <= b
  PROVE  a * n <= b * n /\ (a + 1) * n = a * n + n /\ a * n \in Int
OBVIOUS

LEMMA ProductIsPositive ==
  ASSUME NEW a \in Int, NEW n \in Nat \ {0}, a * n > 0
  PROVE  a > 0
OBVIOUS

LEMMA Division ==
  ASSUME NEW d \in Int, NEW n \in Nat \ {0}
  PROVE  /\ d \div n \in Int
         /\ (d \div n) * n <= d /\ d < (d \div n) * n + n
OBVIOUS

\* As many intervals as fit into a period are not more than its quotient.
LEMMA FitsInPeriod ==
  ASSUME NEW k \in Int, NEW d \in Int, NEW n \in Nat \ {0}, k * n <= d
  PROVE  k <= d \div n
<1> DEFINE q == d \div n
<1>1. q \in Int /\ d < q * n + n
  BY Division
<1> HIDE DEF q
<1>2. k * n < (q + 1) * n
  BY <1>1
<1>3. (q + 1 - k) * n = (q + 1) * n - k * n
  BY <1>1
<1>4. q + 1 - k > 0
  <2>1. (q + 1 - k) * n > 0
    BY <1>1, <1>2, <1>3
  <2> QED
    BY <1>1, <2>1, ProductIsPositive
<1>5. k <= q
  BY <1>1, <1>4
<1> QED
  BY <1>5 DEF q

\* The clock of a store does not go back.
LEMMA ClockGrows ==
  ASSUME NEW t \in Nat, NEW u \in Nat, t <= u
  PROVE  Clock(t) \in Nat /\ Clock(t) <= Clock(u)
<1> DEFINE p == t \div TicksPerSecond
           q == u \div TicksPerSecond
<1>1. TicksPerSecond \in Nat \ {0}
  BY RateAssumption
<1>2. p \in Int /\ q \in Int /\ p * TicksPerSecond <= t /\ u < q * TicksPerSecond + TicksPerSecond
      /\ t < p * TicksPerSecond + TicksPerSecond
  BY <1>1, Division
<1>2a. p * TicksPerSecond <= u
  BY <1>1, <1>2
<1>3. p <= q
  BY <1>1, <1>2, <1>2a, FitsInPeriod
<1>4. 0 * TicksPerSecond <= t
  BY <1>1
<1>5. 0 <= p
  BY <1>1, <1>4, FitsInPeriod
<1> HIDE DEF p, q
<1>6. p * TicksPerSecond <= q * TicksPerSecond /\ p * TicksPerSecond \in Nat
  BY <1>1, <1>2, <1>3, <1>5
<1>7. q * TicksPerSecond \in Int
  BY <1>1, <1>2
<1>8. p * TicksPerSecond + t <= q * TicksPerSecond + u /\ p * TicksPerSecond + t \in Nat
  BY <1>6, <1>7
<1> QED
  BY <1>8 DEF Clock, p, q

LEMMA ClockOfGrants ==
  ASSUME RateTypeOK
  PROVE  /\ Clock(ticks) \in Nat /\ ticks \in Nat /\ Reached \in Int /\ Clock(ticks) <= Reached
         /\ \A i \in 1..Len(grants) : grants[i] \in Nat /\ Clock(grants[i]) \in Nat
         /\ Len(grants) \in Nat /\ BurstOffset \in Nat /\ Interval <= BurstOffset
         /\ Interval \in Nat \ {0}
<1>1. ticks \in Nat /\ \A i \in 1..Len(grants) : grants[i] \in Nat
  BY RateAssumption DEF RateTypeOK
<1>2. Clock(ticks) \in Nat
  BY <1>1, ClockGrows
<1>3. \A i \in 1..Len(grants) : Clock(grants[i]) \in Nat
  BY <1>1, ClockGrows
<1>4. Burst \in Nat \ {0} /\ Interval \in Nat \ {0}
  BY RateAssumption
<1>5. 1 * Interval <= Burst * Interval /\ Burst * Interval \in Int
  BY <1>4, ProductsGrow
<1>6. BurstOffset \in Nat /\ Interval <= BurstOffset
  BY <1>4, <1>5 DEF BurstOffset
<1>7. Reached \in Int /\ Clock(ticks) <= Reached
  BY <1>2 DEF Reached, RateTypeOK
<1> QED
  BY <1>1, <1>2, <1>3, <1>4, <1>6, <1>7 DEF RateTypeOK

LEMMA InitRate == RateInit => RateInv
<1> SUFFICES ASSUME RateInit PROVE RateInv
  OBVIOUS
<1>1. grants = <<>> /\ Len(grants) = 0 /\ grants \in Seq(0..MaxTicks)
  BY EmptySeq DEF RateInit
<1>2. RateTypeOK
  BY <1>1, RateAssumption DEF RateInit, RateTypeOK
<1> QED
  BY <1>1, <1>2 DEF RateInit, RateInv, GrantsAreCounted, GrantsAreInRate, RetryIsOfArrival

\* What has been granted stays counted as long as the clock goes on, and the
\* arrival time is not forgotten before it is past.
LEMMA NothingGranted ==
  ASSUME RateInv, Reached' \in Int, Reached <= Reached', UNCHANGED <<storeType, grants>>
  PROVE  GrantsAreCounted' /\ GrantsAreInRate'
<1>1. \A i \in 1..Len(grants) : Clock(grants[i])' = Clock(grants[i])
  BY DEF Clock
<1>2. /\ Reached \in Int /\ Len(grants) \in Nat
      /\ \A i \in 1..Len(grants) : Clock(grants[i]) \in Nat
      /\ \A i \in 1..Len(grants) : (Len(grants) - i + 1) * Interval \in Int
  BY ClockOfGrants DEF RateInv
<1>3. GrantsAreCounted'
  BY <1>1, <1>2 DEF RateInv, GrantsAreCounted
<1>4. GrantsAreInRate'
  BY <1>1 DEF RateInv, GrantsAreInRate
<1> QED
  BY <1>3, <1>4

LEMMA TokenGranted ==
  ASSUME RateInv, Slack >= 0,
         tat' = NewTat, grants' = Append(grants, ticks), retryAt' = -1, UNCHANGED <<storeType, ticks>>
  PROVE  RateInv'
<1> DEFINE n == Len(grants)
<1>1. /\ Clock(ticks) \in Nat /\ ticks \in Nat /\ Reached \in Int /\ Clock(ticks) <= Reached
      /\ \A i \in 1..n : grants[i] \in Nat /\ Clock(grants[i]) \in Nat
      /\ n \in Nat /\ BurstOffset \in Nat /\ Interval \in Nat \ {0}
  BY ClockOfGrants DEF RateInv
<1>2. NewTat = Reached + Interval /\ NewTat <= Clock(ticks) + BurstOffset
  BY <1>1 DEF NewTat, Reached, Slack
<1>3. ticks \in 0..MaxTicks /\ grants \in Seq(0..MaxTicks)
  BY DEF RateInv, RateTypeOK
<1>4. /\ Len(grants') = n + 1 /\ grants'[n + 1] = ticks
      /\ \A i \in 1..n : grants'[i] = grants[i]
      /\ grants' \in Seq(0..MaxTicks)
  BY <1>3
<1>5. RateTypeOK'
  BY <1>1, <1>2, <1>4 DEF RateInv, RateTypeOK
<1>6. Reached' = NewTat
  <2>1. Clock(ticks)' = Clock(ticks)
    BY DEF Clock
  <2> QED
    BY <1>1, <1>2, <2>1 DEF Reached
<1>7. /\ Clock(grants'[n + 1]) = Clock(ticks)
      /\ \A i \in 1..n : Clock(grants'[i]) = Clock(grants[i])
  BY <1>4
<1> HIDE DEF n
<1>8. ASSUME NEW i \in 1..(n + 1)
      PROVE  Clock(grants'[i]) \in Nat /\ Clock(grants'[i]) + ((n + 1) - i + 1) * Interval <= NewTat
  <2>1. CASE i = n + 1
    <3>1. (n + 1) - i + 1 = 1
      BY <1>1, <2>1
    <3>2. ((n + 1) - i + 1) * Interval = Interval
      BY <1>1, <3>1
    <3>3. Clock(grants'[i]) = Clock(ticks)
      BY <1>7, <2>1
    <3>4. Clock(ticks) + Interval <= NewTat /\ Clock(ticks) \in Nat
      BY <1>1, <1>2
    <3> QED
      BY <3>2, <3>3, <3>4
  <2>2. CASE i \in 1..n
    <3>1. Clock(grants[i]) + (n - i + 1) * Interval <= Reached
      BY <2>2 DEF RateInv, GrantsAreCounted, n
    <3>2. n - i + 1 \in Int /\ (n + 1) - i + 1 = (n - i + 1) + 1
      BY <1>1
    <3>3. ((n + 1) - i + 1) * Interval = (n - i + 1) * Interval + Interval
          /\ (n - i + 1) * Interval \in Int
      BY <1>1, <3>2, ProductsGrow
    <3>4. Clock(grants'[i]) = Clock(grants[i]) /\ Clock(grants[i]) \in Nat
      BY <1>1, <1>7, <2>2
    <3> QED
      BY <1>1, <1>2, <3>1, <3>3, <3>4
  <2>3. i = n + 1 \/ i \in 1..n
    BY <1>1
  <2> QED
    BY <2>1, <2>2, <2>3
<1>9. GrantsAreCounted'
  BY <1>4, <1>6, <1>8 DEF GrantsAreCounted, Clock
<1>10. ASSUME NEW i \in 1..(n + 1), NEW j \in 1..(n + 1), i <= j
       PROVE  (j - i + 1) * Interval <= Burst * Interval + (Clock(grants'[j]) - Clock(grants'[i]))
  <2>1. CASE j = n + 1
    <3>1. Clock(grants'[i]) \in Nat /\ Clock(grants'[i]) + (j - i + 1) * Interval <= NewTat
      BY <1>8, <2>1
    <3>2. (j - i + 1) * Interval \in Int /\ NewTat \in Int
      BY <1>1, <1>2
    <3>3. Clock(grants'[j]) = Clock(ticks)
      BY <1>7, <2>1
    <3>4. NewTat <= Clock(ticks) + Burst * Interval /\ Burst * Interval \in Int
      BY <1>1, <1>2 DEF BurstOffset
    <3> DEFINE x == Clock(grants'[i])
               w == (j - i + 1) * Interval
               b == Burst * Interval
               now == Clock(ticks)
    <3>5. x \in Nat /\ w \in Int /\ b \in Int /\ now \in Nat /\ NewTat \in Int
          /\ x + w <= NewTat /\ NewTat <= now + b /\ Clock(grants'[j]) = now
      BY <1>1, <3>1, <3>2, <3>3, <3>4
    <3> HIDE DEF x, w, b, now
    <3>6. w <= b + (now - x)
      BY <3>5
    <3> QED
      BY <3>5, <3>6 DEF x, w, b
  <2>2. CASE j \in 1..n
    <3>1. i \in 1..n
      BY <1>1, <1>10, <2>2
    <3> QED
      BY <1>7, <1>10, <2>2, <3>1 DEF RateInv, GrantsAreInRate, n
  <2>3. j = n + 1 \/ j \in 1..n
    BY <1>1
  <2> QED
    BY <2>1, <2>2, <2>3
<1>11. GrantsAreInRate'
  BY <1>4, <1>10 DEF GrantsAreInRate, Clock
<1> QED
  BY <1>5, <1>9, <1>11 DEF RateInv, RetryIsOfArrival

\* Whoever is refused finds an arrival time that is ahead of the clock.
LEMMA TokenRefused ==
  ASSUME RateInv, Slack < 0, retryAt' = Clock(ticks) - Slack, UNCHANGED <<storeType, ticks, tat, grants>>
  PROVE  RateInv'
<1>1. /\ Clock(ticks) \in Nat /\ BurstOffset \in Nat /\ Interval <= BurstOffset
      /\ Interval \in Nat \ {0} /\ tat \in Int /\ Reached \in Int
  BY ClockOfGrants DEF RateInv, RateTypeOK
<1>2. NewTat \in Int /\ retryAt' = NewTat - BurstOffset
  BY <1>1 DEF Slack, NewTat
<1>3. tat > Clock(ticks)
  BY <1>1 DEF Slack, NewTat
<1>4. NewTat = tat + Interval
  BY <1>3 DEF NewTat
<1>5. BurstOffset' = BurstOffset
  BY DEF BurstOffset
<1>6. RetryIsOfArrival' /\ RateTypeOK'
  BY <1>1, <1>2, <1>4, <1>5 DEF RateInv, RateTypeOK, RetryIsOfArrival
<1>7. Reached' = Reached
  BY DEF Reached, Clock
<1>8. GrantsAreCounted' /\ GrantsAreInRate'
  BY <1>1, <1>7, NothingGranted
<1> QED
  BY <1>6, <1>8 DEF RateInv

LEMMA TimeKeeps ==
  ASSUME RateInv, TimePasses
  PROVE  RateInv'
<1>1. ticks \in Nat /\ ticks' = ticks + 1 /\ ticks' \in 0..MaxTicks /\ UNCHANGED <<storeType, tat, grants, retryAt>>
  BY RateAssumption DEF TimePasses, RateInv, RateTypeOK
<1>2. Clock(ticks) \in Nat /\ Clock(ticks') \in Nat /\ Clock(ticks) <= Clock(ticks')
  <2> DEFINE t == ticks
             u == ticks'
  <2>1. t \in Nat /\ u \in Nat /\ t <= u
    BY <1>1
  <2> HIDE DEF t, u
  <2>2. Clock(t) \in Nat /\ Clock(t) <= Clock(u) /\ Clock(u) \in Nat
    BY <2>1, ClockGrows
  <2> QED
    BY <2>2 DEF t, u
<1>3. Clock(ticks)' = Clock(ticks')
  BY <1>1 DEF Clock
<1>4. Reached' \in Int /\ Reached <= Reached'
  BY <1>1, <1>2, <1>3 DEF Reached, RateInv, RateTypeOK
<1>5. GrantsAreCounted' /\ GrantsAreInRate'
  BY <1>1, <1>4, NothingGranted
<1>6. RateTypeOK' /\ RetryIsOfArrival'
  BY <1>1 DEF RateInv, RateTypeOK, RetryIsOfArrival, BurstOffset
<1> QED
  BY <1>5, <1>6 DEF RateInv

LEMMA ExpiryKeeps ==
  ASSUME RateInv, KeyExpires
  PROVE  RateInv'
<1>1. /\ storeType = "redis" /\ tat <= ticks /\ tat' = -1 /\ ticks \in Nat
      /\ UNCHANGED <<storeType, ticks, grants, retryAt>>
  BY RateAssumption DEF KeyExpires, RateInv, RateTypeOK
<1>2. Clock(ticks) = ticks /\ Clock(ticks)' = ticks
  BY <1>1 DEF Clock
<1>3. Reached = ticks /\ Reached' = ticks
  BY <1>1, <1>2 DEF Reached, RateInv, RateTypeOK
<1>4. GrantsAreCounted' /\ GrantsAreInRate'
  BY <1>1, <1>3, NothingGranted
<1>5. RateTypeOK' /\ RetryIsOfArrival'
  BY <1>1 DEF RateInv, RateTypeOK, RetryIsOfArrival
<1> QED
  BY <1>4, <1>5 DEF RateInv

LEMMA RateStep ==
  ASSUME RateInv, [RateNext]_rateVars
  PROVE  RateInv'
<1>1. CASE Take
  BY <1>1, TokenGranted, TokenRefused DEF Take
<1>2. CASE KeyExpires \/ TimePasses
  BY <1>2, ExpiryKeeps, TimeKeeps
<1>3. CASE UNCHANGED rateVars
  <2>1. Reached' = Reached
    BY <1>3 DEF Reached, Clock, rateVars
  <2>2. Reached \in Int
    BY ClockOfGrants DEF RateInv
  <2>3. GrantsAreCounted' /\ GrantsAreInRate'
    BY <1>3, <2>1, <2>2, NothingGranted DEF rateVars
  <2> QED
    BY <1>3, <2>3 DEF rateVars, RateInv, RateTypeOK, RetryIsOfArrival, BurstOffset
<1> QED
  BY <1>1, <1>2, <1>3 DEF RateNext

LEMMA RateInvIsEnough == RateInv => RateIsKept
<1> SUFFICES ASSUME RateInv PROVE RateIsKept
  OBVIOUS
<1>1. /\ Clock(ticks) \in Nat /\ BurstOffset \in Nat /\ Interval <= BurstOffset
      /\ Interval \in Nat \ {0} /\ tat \in Int /\ retryAt \in Int /\ Burst \in Nat
      /\ DOMAIN grants = 1..Len(grants) /\ Len(grants) \in Nat
      /\ \A i \in 1..Len(grants) : Clock(grants[i]) \in Nat
  BY ClockOfGrants, RateAssumption DEF RateInv, RateTypeOK
<1>2. ASSUME NEW i \in 1..Len(grants), NEW j \in 1..Len(grants), i <= j
      PROVE  j - i + 1 <= Burst + (Clock(grants[j]) - Clock(grants[i])) \div Interval
  <2> DEFINE d == Clock(grants[j]) - Clock(grants[i])
             k == j - i + 1
  <2>1. d \in Int /\ k \in Int
    BY <1>1
  <2>2. k * Interval <= Burst * Interval + d
    BY <1>2 DEF RateInv, GrantsAreInRate
  <2> HIDE DEF d, k
  <2>3. (k - Burst) * Interval = k * Interval - Burst * Interval
    BY <1>1, <2>1
  <2>4. k * Interval \in Int /\ Burst * Interval \in Int
    BY <1>1, <2>1
  <2>5. (k - Burst) * Interval <= d
    BY <2>1, <2>2, <2>3, <2>4
  <2>6. k - Burst <= d \div Interval
    <3>1. k - Burst \in Int
      BY <1>1, <2>1
    <3> QED
      BY <1>1, <2>1, <2>5, <3>1, FitsInPeriod
  <2>7. d \div Interval \in Int
    BY <1>1, <2>1, Division
  <2> QED
    BY <1>1, <2>1, <2>6, <2>7 DEF d, k
<1>3. ASSUME retryAt # -1, Clock(ticks) >= retryAt PROVE Slack >= 0
  <2>1. CASE tat > Clock(ticks)
    <3>1. retryAt = tat + Interval - BurstOffset
      BY <1>1, <1>3, <2>1 DEF RateInv, RetryIsOfArrival
    <3> QED
      BY <1>1, <1>3, <2>1, <3>1 DEF Slack, NewTat
  <2>2. CASE ~(tat > Clock(ticks))
    BY <1>1, <2>2 DEF Slack, NewTat
  <2> QED
    BY <2>1, <2>2
<1> QED
  BY <1>1, <1>2, <1>3 DEF RateIsKept

(***************************************************************************)
(* For any rate and burst, and on the clock of either store, a key gets no *)
(* more than the burst and what the period brings, and whoever waits as    *)
(* long as the answer says gets a token (store.go 147-176).                *)
(***************************************************************************)
THEOREM RateOfGrants == RateSpec => []RateIsKept
BY InitRate, RateStep, RateInvIsEnough, PTL DEF RateSpec
-----------------------------------------------------------------------------
(***************************************************************************)
(* The task exchanger, for any engines, streams and states: the types, the *)
(* owner of each row of the table, and the refinement of EnginesHeld.      *)
(***************************************************************************)
-----------------------------------------------------------------------------
(***************************************************************************)
(* Types.                                                                  *)
(***************************************************************************)
LEMMA BuiltStatuses ==
  ASSUME ExchangeTypeOK, NEW ready \in BOOLEAN
  PROVE  BuildStatuses(ready) \in Statuses
BY DEF ExchangeTypeOK, BuildStatuses, Statuses, Status

LEMMA SentType ==
  ASSUME ExchangeTypeOK, NEW ready \in BOOLEAN, SendServerStatus(ready)
  PROVE  cache' \in Statuses /\ inTransit' \in [Streams -> Seq(ServerStatus)]
<1>1. BuildStatuses(ready) \in Statuses
  BY BuiltStatuses
<1> DEFINE status == [engines |-> BuildStatuses(ready), version |-> changes + 1]
<1>2. status \in ServerStatus
  BY <1>1, ExchangeAssumption DEF ExchangeTypeOK, ServerStatus
<1>3. cache' \in Statuses
  BY <1>1 DEF SendServerStatus
<1>4. PICK s \in Streams : inTransit' = [inTransit EXCEPT ![s] = Append(@, status)]
  BY DEF SendServerStatus, OpenStreams
<1>5. Append(inTransit[s], status) \in Seq(ServerStatus)
  BY <1>2 DEF ExchangeTypeOK
<1>6. inTransit' \in [Streams -> Seq(ServerStatus)]
  BY <1>4, <1>5 DEF ExchangeTypeOK
<1> QED
  BY <1>3, <1>6

LEMMA ReceivedType ==
  ASSUME ExchangeTypeOK, NEW s \in Streams, ReceiveStatus(s)
  PROVE  ExchangeTypeOK' /\ sender' \in Sender
<1> DEFINE status == Head(inTransit[s])
<1>1. status \in ServerStatus /\ Tail(inTransit[s]) \in Seq(ServerStatus)
  BY DEF ExchangeTypeOK, ReceiveStatus
<1>2. status.engines \in Statuses /\ status.version \in 0..(MaxLocalChanges + 1)
  BY <1>1 DEF ServerStatus
<1>3. sender' \in Sender
  BY <1>2 DEF ExchangeTypeOK, ReceiveStatus, AddOrUpdateServerStatus, Sender
<1>4. table' \in [Engines -> [status : Status \cup {NoEngine}, srv : Streams \cup {0}]]
  <2> DEFINE srv == IF sender = NoSender THEN s ELSE sender.srv
             old == IF sender = NoSender THEN {} ELSE sender.activeEngines
             new == {e \in Engines : status.engines[e] # NoEngine}
             entry(e) == CASE e \in new -> [status |-> status.engines[e], srv |-> srv]
                           [] e \in old \ new -> NothingHeld[e]
                           [] OTHER -> table[e]
  <2>1. srv \in Streams
    BY DEF ExchangeTypeOK, Sender
  <2>2. table' = [e \in Engines |-> entry(e)]
    BY DEF ReceiveStatus, AddOrUpdateServerStatus
  <2>3. ASSUME NEW e \in Engines
        PROVE  entry(e) \in [status : Status \cup {NoEngine}, srv : Streams \cup {0}]
    <3>1. status.engines[e] \in Status \cup {NoEngine}
      BY <1>2 DEF Statuses
    <3>2. NothingHeld[e] = [status |-> NoEngine, srv |-> 0]
      BY DEF NothingHeld
    <3>3. table[e] \in [status : Status \cup {NoEngine}, srv : Streams \cup {0}]
      BY DEF ExchangeTypeOK
    <3> HIDE DEF srv, old, new
    <3> QED
      BY <2>1, <3>1, <3>2, <3>3
  <2> HIDE DEF entry
  <2> QED
    BY <2>2, <2>3
<1>5. /\ handler' \in [Streams -> {"none", "reading", "registered"}]
      /\ inTransit' \in [Streams -> Seq(ServerStatus)]
  BY <1>1 DEF ExchangeTypeOK, ReceiveStatus
<1> QED
  BY <1>3, <1>4, <1>5 DEF ExchangeTypeOK, ReceiveStatus, localVars, receiverVars

LEMMA ReturnedType ==
  ASSUME ExchangeTypeOK, NEW s \in Streams, HandlerReturns(s)
  PROVE  ExchangeTypeOK'
<1>1. /\ sender' \in Sender \cup {NoSender}
      /\ table' \in [Engines -> [status : Status \cup {NoEngine}, srv : Streams \cup {0}]]
  <2>1. \A e \in Engines :
          NothingHeld[e] \in [status : Status \cup {NoEngine}, srv : Streams \cup {0}]
    BY DEF NothingHeld
  <2>2. CASE handler[s] = "registered"
    BY <2>1, <2>2 DEF HandlerReturns, RemoveServer, ExchangeTypeOK
  <2>3. CASE handler[s] # "registered"
    BY <2>3 DEF HandlerReturns, ExchangeTypeOK
  <2> QED
    BY <2>2, <2>3
<1>2. /\ handler' \in [Streams -> {"none", "reading", "registered"}]
      /\ inTransit' \in [Streams -> Seq(ServerStatus)]
  <2>1. <<>> \in Seq(ServerStatus)
    OBVIOUS
  <2> QED
    BY <2>1 DEF HandlerReturns, ExchangeTypeOK
<1> QED
  BY <1>1, <1>2 DEF ExchangeTypeOK, HandlerReturns, localVars, receiverVars

LEMMA ReceiverType ==
  ASSUME ExchangeTypeOK, Receiver
  PROVE  ExchangeTypeOK'
<1>1. NoStatuses \in Statuses
  BY DEF NoStatuses, Statuses
<1>2. CASE CreateTaskReceiver
  BY <1>1, <1>2 DEF CreateTaskReceiver, ExchangeTypeOK, localVars, streamVars, remoteVars
<1>3. CASE DeleteTaskReceiver
  BY <1>3 DEF DeleteTaskReceiver, ExchangeTypeOK, localVars, streamVars, remoteVars
<1>4. CASE Dial
  BY <1>1, <1>4 DEF Dial, ExchangeTypeOK, localVars
<1>5. CASE ReportStatus
  BY <1>5, SentType DEF ReportStatus, ExchangeTypeOK, localVars, remoteVars
<1>6. CASE NoticeBrokenStream
  BY <1>6 DEF NoticeBrokenStream, ExchangeTypeOK, localVars, streamVars, remoteVars
<1>7. CASE ReportNotReady
  BY <1>7, SentType DEF ReportNotReady, ExchangeTypeOK, localVars, remoteVars
<1>8. CASE StopReceiver
  BY <1>8 DEF StopReceiver, ExchangeTypeOK, localVars, remoteVars
<1> QED
  BY <1>2, <1>3, <1>4, <1>5, <1>6, <1>7, <1>8 DEF Receiver

LEMMA ExchangeTypeStep ==
  ASSUME ExchangeTypeOK, [ExchangeNext]_exchangeVars
  PROVE  ExchangeTypeOK'
<1>1. CASE Receiver
  BY <1>1, ReceiverType
<1>2. CASE StartExchangeShutdown
  BY <1>2 DEF StartExchangeShutdown, ExchangeTypeOK, streamVars, remoteVars
<1>3. CASE \E s \in Streams : ReceiveStatus(s) \/ HandlerReturns(s)
  BY <1>3, ReceivedType, ReturnedType
<1>4. CASE LocalEnginesChange
  BY <1>4, ExchangeAssumption
     DEF LocalEnginesChange, ExchangeTypeOK, receiverVars, streamVars, remoteVars
<1>5. CASE PodProceeds
  BY <1>5 DEF PodProceeds, ExchangeTypeOK, receiverVars, streamVars, remoteVars
<1>6. CASE StreamBreaks
  BY <1>6 DEF StreamBreaks, OpenStreams, ExchangeTypeOK, localVars, receiverVars, remoteVars
<1>7. CASE UNCHANGED exchangeVars
  BY <1>7 DEF exchangeVars, localVars, receiverVars, streamVars, remoteVars, ExchangeTypeOK
<1> QED
  BY <1>1, <1>2, <1>3, <1>4, <1>5, <1>6, <1>7 DEF ExchangeNext

LEMMA InitExchangeType == ExchangeInit => ExchangeTypeOK
<1> SUFFICES ASSUME ExchangeInit PROVE ExchangeTypeOK
  OBVIOUS
<1>1. cache \in Statuses
  BY DEF ExchangeInit, NoStatuses, Statuses
<1>2. table \in [Engines -> [status : Status \cup {NoEngine}, srv : Streams \cup {0}]]
  BY DEF ExchangeInit, NothingHeld
<1>3. inTransit \in [Streams -> Seq(ServerStatus)]
  BY DEF ExchangeInit
<1>4. changes \in 0..MaxLocalChanges
  BY ExchangeAssumption DEF ExchangeInit
<1>5. /\ stream \in [Streams -> {"idle", "open", "closed"}]
      /\ handler \in [Streams -> {"none", "reading", "registered"}]
  BY DEF ExchangeInit
<1>6. /\ localEngines \in [Engines -> EngineStates \cup {NoEngine}]
      /\ pod \in {"noIP", "running", "terminating", "gone"}
      /\ receiver \in {"none", "dialing", "up", "stopping"}
      /\ marked \in BOOLEAN /\ shutdown \in BOOLEAN
      /\ sender \in Sender \cup {NoSender}
  BY DEF ExchangeInit
<1> QED
  BY <1>1, <1>2, <1>3, <1>4, <1>5, <1>6 DEF ExchangeTypeOK

(***************************************************************************)
(* The variables of both servers keep their types.                         *)
(***************************************************************************)
THEOREM ExchangeTypeCorrect == ExchangeSpec => []ExchangeTypeOK
BY InitExchangeType, ExchangeTypeStep, PTL DEF ExchangeSpec

-----------------------------------------------------------------------------
(***************************************************************************)
(* Ownership.  TableIsOwned is inductive once it is known that the handler *)
(* of the sender's stream has not returned, and that a stream has no       *)
(* handler before it is dialled: Dial cannot take the sender's handler     *)
(* over, and a handler that returns without having received anything is    *)
(* not the sender's.                                                       *)
(***************************************************************************)
SenderIsRegistered == sender # NoSender => handler[sender.srv] = "registered"
IdleUnhandled == \A s \in Streams : stream[s] = "idle" => handler[s] = "none"

Owned == ExchangeTypeOK /\ SenderIsRegistered /\ IdleUnhandled /\ TableIsOwned

LEMMA OwnedReceive ==
  ASSUME Owned, NEW s \in Streams, ReceiveStatus(s)
  PROVE  SenderIsRegistered' /\ IdleUnhandled' /\ TableIsOwned'
<1> DEFINE status == Head(inTransit[s])
           srv == IF sender = NoSender THEN s ELSE sender.srv
           old == IF sender = NoSender THEN {} ELSE sender.activeEngines
           new == {e \in Engines : status.engines[e] # NoEngine}
<1>1. /\ sender' = [srv |-> srv, activeEngines |-> new, version |-> status.version]
      /\ table' = [e \in Engines |->
           CASE e \in new -> [status |-> status.engines[e], srv |-> srv]
             [] e \in old \ new -> NothingHeld[e]
             [] OTHER -> table[e]]
  BY DEF ReceiveStatus, AddOrUpdateServerStatus
<1>2. sender' # NoSender
  BY ReceivedType, ExchangeAssumption DEF Owned
<1>3. srv \in Streams
  BY DEF Owned, ExchangeTypeOK, Sender
<1>4. handler'[srv] = "registered"
  BY <1>3 DEF Owned, ExchangeTypeOK, SenderIsRegistered, ReceiveStatus
<1>5. SenderIsRegistered'
  BY <1>1, <1>4 DEF SenderIsRegistered
<1>6. IdleUnhandled'
  BY DEF Owned, IdleUnhandled, ExchangeTypeOK, ReceiveStatus
<1>7. ASSUME NEW e \in Engines, table'[e].srv # 0
      PROVE  e \in new /\ table'[e].srv = srv
  <2>1. e \notin old => table[e].srv = 0
    BY DEF Owned, TableIsOwned
  <2>2. NothingHeld[e].srv = 0
    BY DEF NothingHeld
  <2> HIDE DEF new, old, srv
  <2> QED
    BY <1>1, <1>7, <2>1, <2>2
<1>8. TableIsOwned'
  BY <1>1, <1>2, <1>4, <1>7 DEF TableIsOwned
<1> QED
  BY <1>5, <1>6, <1>8

LEMMA OwnedReturn ==
  ASSUME Owned, NEW s \in Streams, HandlerReturns(s)
  PROVE  SenderIsRegistered' /\ IdleUnhandled' /\ TableIsOwned'
<1>1. IdleUnhandled'
  BY DEF Owned, IdleUnhandled, ExchangeTypeOK, HandlerReturns
<1>2. CASE handler[s] = "registered"
  <2>1. sender' = NoSender /\ table' = [e \in Engines |->
          IF sender # NoSender /\ e \in sender.activeEngines THEN NothingHeld[e] ELSE table[e]]
    BY <1>2 DEF HandlerReturns, RemoveServer
  <2>2. \A e \in Engines : table'[e].srv = 0
    BY <2>1 DEF Owned, TableIsOwned, NothingHeld
  <2> QED
    BY <1>1, <2>1, <2>2 DEF SenderIsRegistered, TableIsOwned
<1>3. CASE handler[s] # "registered"
  <2>1. UNCHANGED <<sender, table>> /\ handler' = [handler EXCEPT ![s] = "none"]
    BY <1>3 DEF HandlerReturns
  <2>2. sender # NoSender => sender.srv \in Streams /\ handler'[sender.srv] = "registered"
    BY <1>3, <2>1 DEF Owned, SenderIsRegistered, ExchangeTypeOK, Sender
  <2> QED
    BY <1>1, <2>1, <2>2 DEF Owned, SenderIsRegistered, TableIsOwned
<1> QED
  BY <1>2, <1>3

LEMMA OwnedDial ==
  ASSUME Owned, Dial
  PROVE  SenderIsRegistered' /\ IdleUnhandled' /\ TableIsOwned'
<1>1. PICK s \in Streams :
        /\ stream[s] = "idle"
        /\ stream' = [stream EXCEPT ![s] = "open"]
        /\ handler' = [handler EXCEPT ![s] = "reading"]
  BY DEF Dial
<1>2. UNCHANGED <<sender, table>>
  BY DEF Dial
<1>3. IdleUnhandled'
  BY <1>1 DEF Owned, IdleUnhandled, ExchangeTypeOK
<1>4. sender # NoSender => sender.srv \in Streams /\ sender.srv # s
  BY <1>1 DEF Owned, SenderIsRegistered, IdleUnhandled, ExchangeTypeOK, Sender
<1>5. sender # NoSender => handler'[sender.srv] = "registered"
  BY <1>1, <1>4 DEF Owned, SenderIsRegistered, ExchangeTypeOK
<1> QED
  BY <1>2, <1>3, <1>5 DEF Owned, SenderIsRegistered, TableIsOwned

LEMMA OwnedStep ==
  ASSUME Owned, [ExchangeNext]_exchangeVars
  PROVE  Owned'
<1>1. ExchangeTypeOK'
  BY ExchangeTypeStep DEF Owned
<1>2. ASSUME UNCHANGED remoteVars, \A s \in Streams : stream'[s] = "idle" => stream[s] = "idle"
      PROVE  Owned'
  BY <1>1, <1>2 DEF remoteVars, Owned, SenderIsRegistered, IdleUnhandled, TableIsOwned
<1>3. CASE Receiver
  <2>1. CASE Dial
    BY <1>1, <2>1, OwnedDial DEF Owned
  <2>2. CASE StopReceiver
    BY <1>2, <2>2 DEF StopReceiver
  <2>3. CASE ~Dial /\ ~StopReceiver
    BY <1>2, <1>3, <2>3 DEF Receiver, CreateTaskReceiver, DeleteTaskReceiver, ReportStatus,
       NoticeBrokenStream, ReportNotReady, streamVars
  <2> QED
    BY <2>1, <2>2, <2>3
<1>4. CASE \E s \in Streams : ReceiveStatus(s) \/ HandlerReturns(s)
  BY <1>1, <1>4, OwnedReceive, OwnedReturn DEF Owned
<1>5. CASE StreamBreaks
  BY <1>2, <1>5 DEF StreamBreaks, OpenStreams, Owned, ExchangeTypeOK
<1>6. CASE StartExchangeShutdown \/ LocalEnginesChange \/ PodProceeds \/ UNCHANGED exchangeVars
  BY <1>2, <1>6 DEF StartExchangeShutdown, LocalEnginesChange, PodProceeds, exchangeVars, streamVars
<1> QED
  BY <1>3, <1>4, <1>5, <1>6 DEF ExchangeNext

LEMMA InitOwned == ExchangeInit => Owned
BY InitExchangeType DEF ExchangeInit, Owned, SenderIsRegistered, IdleUnhandled, TableIsOwned, NothingHeld

(***************************************************************************)
(* Every engine of another server in the table belongs to the task sender  *)
(* and goes when the handler of the sender's stream returns, however late  *)
(* the handlers of broken streams are.                                     *)
(***************************************************************************)
THEOREM TableOwned == ExchangeSpec => []TableIsOwned
<1>1. Owned => TableIsOwned
  BY DEF Owned
<1> QED
  BY <1>1, InitOwned, OwnedStep, PTL DEF ExchangeSpec

-----------------------------------------------------------------------------
(***************************************************************************)
(* The refinement.  A table that holds version v of the local engines may  *)
(* be overwritten by what is in transit on the open stream, so that has to *)
(* be of version v or later, in order: the receiver dials only when no     *)
(* stream is open, and what it sends is of the present version.            *)
(***************************************************************************)
OneStream ==
  /\ \A s, t \in Streams : stream[s] = "open" /\ stream[t] = "open" => s = t
  /\ receiver \in {"none", "dialing"} => \A s \in Streams : stream[s] # "open"

NothingFromTheFuture ==
  /\ sender # NoSender => sender.version <= changes + 1
  /\ \A s \in Streams : \A i \in 1..Len(inTransit[s]) : inTransit[s][i].version <= changes + 1

IdleEmpty == \A s \in Streams : stream[s] = "idle" => inTransit[s] = <<>>

InOrder ==
  \A s \in Streams : stream[s] = "open" =>
    \A i \in 1..Len(inTransit[s]) :
      /\ sender # NoSender => sender.version <= inTransit[s][i].version
      /\ \A j \in i..Len(inTransit[s]) : inTransit[s][i].version <= inTransit[s][j].version

Ordered == ExchangeTypeOK /\ OneStream /\ NothingFromTheFuture /\ IdleEmpty /\ InOrder

\* The versions are numbers.
LEMMA Versions ==
  ASSUME ExchangeTypeOK
  PROVE  /\ changes \in Nat
         /\ sender # NoSender => sender.version \in Nat
         /\ \A s \in Streams : /\ inTransit[s] \in Seq(ServerStatus)
                               /\ Len(inTransit[s]) \in Nat
                               /\ \A i \in 1..Len(inTransit[s]) : inTransit[s][i].version \in Nat
<1>1. \A status \in ServerStatus : status.version \in Nat
  BY ExchangeAssumption DEF ServerStatus
<1>2. \A s \in Streams : inTransit[s] \in Seq(ServerStatus)
  BY DEF ExchangeTypeOK
<1>3. \A s \in Streams : \A i \in 1..Len(inTransit[s]) : inTransit[s][i] \in ServerStatus
  BY <1>2
<1>4. changes \in Nat /\ (sender # NoSender => sender.version \in Nat)
  BY ExchangeAssumption DEF ExchangeTypeOK, Sender
<1> QED
  BY <1>1, <1>2, <1>3, <1>4

\* What is sent is of the present version, and last.
LEMMA OrderedSend ==
  ASSUME Ordered, NEW ready \in BOOLEAN, SendServerStatus(ready),
         UNCHANGED <<changes, stream, sender>>
  PROVE  NothingFromTheFuture' /\ IdleEmpty' /\ InOrder'
<1> DEFINE status == [engines |-> BuildStatuses(ready), version |-> changes + 1]
<1>1. PICK s \in OpenStreams : inTransit' = [inTransit EXCEPT ![s] = Append(@, status)]
  BY DEF SendServerStatus
<1>2. s \in Streams /\ stream[s] = "open"
  BY DEF OpenStreams
<1>3. status \in ServerStatus
  <2>1. BuildStatuses(ready) \in Statuses
    BY BuiltStatuses DEF Ordered
  <2>2. changes + 1 \in 0..(MaxLocalChanges + 1)
    BY ExchangeAssumption DEF Ordered, ExchangeTypeOK
  <2> QED
    BY <2>1, <2>2 DEF ServerStatus
<1>4. \A t \in Streams : t # s => inTransit'[t] = inTransit[t]
  BY <1>1 DEF Ordered, ExchangeTypeOK
<1>5. inTransit'[s] = Append(inTransit[s], status)
  BY <1>1, <1>2 DEF Ordered, ExchangeTypeOK
<1>6. status.version = changes + 1
  OBVIOUS
<1> DEFINE n == Len(inTransit[s])
<1> HIDE DEF status
<1>7. n \in Nat /\ inTransit[s] \in Seq(ServerStatus)
  BY <1>2, Versions DEF Ordered
<1>8. /\ Len(inTransit'[s]) = n + 1
      /\ inTransit'[s][n + 1].version = changes + 1
      /\ \A i \in 1..n : inTransit'[s][i] = inTransit[s][i]
  BY <1>3, <1>5, <1>6, <1>7
<1> HIDE DEF n
<1>9. /\ \A i \in 1..(n + 1) : inTransit'[s][i].version <= changes + 1
      /\ \A i \in 1..n : inTransit'[s][i].version \in Nat
  <2>1. \A i \in 1..n : inTransit[s][i].version <= changes + 1
    BY <1>2 DEF Ordered, NothingFromTheFuture, n
  <2>2. \A i \in 1..n : inTransit[s][i].version \in Nat
    BY <1>2, Versions DEF Ordered, n
  <2>3. changes + 1 <= changes + 1
    BY Versions DEF Ordered
  <2>4. \A i \in 1..(n + 1) : i \in 1..n \/ i = n + 1
    BY <1>7
  <2> QED
    BY <1>8, <2>1, <2>2, <2>3, <2>4
<1>10. NothingFromTheFuture'
  BY <1>4, <1>8, <1>9 DEF Ordered, NothingFromTheFuture
<1>11. IdleEmpty'
  BY <1>2, <1>4 DEF Ordered, IdleEmpty
<1>12. ASSUME NEW i \in 1..(n + 1)
       PROVE  /\ sender # NoSender => sender.version <= inTransit'[s][i].version
              /\ \A j \in i..(n + 1) : inTransit'[s][i].version <= inTransit'[s][j].version
  <2>1. CASE i = n + 1
    <3>1. \A j \in i..(n + 1) : j = i
      BY <2>1, <1>7
    <3>2. inTransit'[s][i].version = changes + 1 /\ changes \in Nat
      BY <2>1, <1>8, Versions DEF Ordered
    <3> QED
      BY <3>1, <3>2 DEF Ordered, NothingFromTheFuture
  <2>2. CASE i \in 1..n
    <3>1. /\ sender # NoSender => sender.version <= inTransit[s][i].version
          /\ \A j \in i..n : inTransit[s][i].version <= inTransit[s][j].version
      BY <1>2, <2>2 DEF Ordered, InOrder, n
    <3>2. \A j \in i..(n + 1) : j = n + 1 \/ (j \in i..n /\ j \in 1..n)
      BY <1>7, <2>2
    <3> QED
      BY <1>8, <1>9, <2>2, <3>1, <3>2
  <2> QED
    BY <1>7, <2>1, <2>2
<1>13. InOrder'
  BY <1>4, <1>8, <1>12 DEF Ordered, InOrder
<1> QED
  BY <1>10, <1>11, <1>13

\* What is received is of a version no older than the table's, and what
\* remains is no older than that.
LEMMA OrderedReceive ==
  ASSUME Ordered, NEW s \in Streams, ReceiveStatus(s)
  PROVE  /\ OneStream' /\ NothingFromTheFuture' /\ IdleEmpty' /\ InOrder'
         /\ sender' # NoSender /\ sender'.version \in Nat /\ sender'.version <= changes + 1
         /\ sender # NoSender => sender.version <= sender'.version
<1> DEFINE q == inTransit[s]
           n == Len(q)
<1>1. /\ q \in Seq(ServerStatus) /\ n \in Nat
      /\ \A i \in 1..n : q[i].version \in Nat
  BY Versions DEF Ordered
<1>2. q # <<>> /\ stream[s] = "open" /\ UNCHANGED <<stream, receiver, changes>>
  BY DEF ReceiveStatus, localVars, receiverVars
<1>3. n > 0 /\ Head(q) = q[1]
  BY <1>1, <1>2
<1>4. sender'.version = q[1].version
  BY <1>3 DEF ReceiveStatus, AddOrUpdateServerStatus
<1>5. sender' # NoSender
  BY ReceivedType, ExchangeAssumption DEF Ordered
<1>6. /\ \A t \in Streams : t # s => inTransit'[t] = inTransit[t]
      /\ inTransit'[s] = Tail(q)
  BY DEF Ordered, ExchangeTypeOK, ReceiveStatus
<1>7. Len(Tail(q)) = n - 1 /\ \A i \in 1..(n - 1) : Tail(q)[i] = q[i + 1]
  BY <1>1, <1>2
<1>8. /\ \A i \in 1..n : q[i].version <= changes + 1
      /\ \A i \in 1..n : \A j \in i..n : q[i].version <= q[j].version
      /\ sender # NoSender => \A i \in 1..n : sender.version <= q[i].version
  BY <1>2 DEF Ordered, NothingFromTheFuture, InOrder
<1> HIDE DEF q, n
<1>9. 1 \in 1..n /\ \A i \in 1..(n - 1) : i + 1 \in 1..n
  BY <1>1, <1>3
<1>10. NothingFromTheFuture'
  <2>1. \A i \in 1..Len(inTransit'[s]) : inTransit'[s][i].version <= changes + 1
    BY <1>6, <1>7, <1>8, <1>9
  <2>2. sender'.version <= changes + 1
    BY <1>4, <1>8, <1>9
  <2> QED
    BY <1>2, <1>6, <2>1, <2>2 DEF Ordered, NothingFromTheFuture
<1>11. OneStream' /\ IdleEmpty'
  BY <1>2, <1>6 DEF Ordered, OneStream, IdleEmpty
<1>12. \A i \in 1..(n - 1) :
         /\ q[1].version <= q[i + 1].version
         /\ \A j \in i..(n - 1) : q[i + 1].version <= q[j + 1].version
  <2>1. \A i \in 1..(n - 1) : i + 1 \in 1..n /\ i + 1 \in 1..n
                             /\ \A j \in i..(n - 1) : j + 1 \in (i + 1)..n
    BY <1>1
  <2> QED
    BY <1>1, <1>8, <1>9, <2>1
<1>13. \A t \in Streams : stream[t] = "open" => t = s
  BY <1>2 DEF Ordered, OneStream
<1>14. \A i \in 1..(n - 1) : \A j \in i..(n - 1) : j \in 1..(n - 1)
  BY <1>1
<1>15. InOrder'
  <2>1. ASSUME NEW i \in 1..(n - 1)
        PROVE  /\ sender'.version <= Tail(q)[i].version
               /\ \A j \in i..(n - 1) : Tail(q)[i].version <= Tail(q)[j].version
    BY <1>4, <1>7, <1>12, <1>14
  <2>2. \A i \in 1..Len(inTransit'[s]) :
          /\ sender'.version <= inTransit'[s][i].version
          /\ \A j \in i..Len(inTransit'[s]) :
               inTransit'[s][i].version <= inTransit'[s][j].version
    BY <1>6, <1>7, <2>1
  <2> QED
    BY <1>2, <1>13, <2>2 DEF InOrder
<1> QED
  BY <1>1, <1>4, <1>5, <1>8, <1>9, <1>10, <1>11, <1>15

LEMMA OrderedReturn ==
  ASSUME Ordered, NEW s \in Streams, HandlerReturns(s)
  PROVE  OneStream' /\ NothingFromTheFuture' /\ IdleEmpty' /\ InOrder'
<1>1. UNCHANGED <<stream, receiver, changes>> /\ stream[s] = "closed"
  BY DEF HandlerReturns, localVars, receiverVars
<1>2. sender' = sender \/ sender' = NoSender
  BY DEF HandlerReturns, RemoveServer
<1>3. /\ \A t \in Streams : t # s => inTransit'[t] = inTransit[t]
      /\ inTransit'[s] = <<>>
  BY DEF Ordered, ExchangeTypeOK, HandlerReturns
<1>4. 1..Len(inTransit'[s]) = {}
  BY <1>3
<1>5. OneStream' /\ IdleEmpty'
  BY <1>1, <1>3 DEF Ordered, OneStream, IdleEmpty
<1>6. NothingFromTheFuture'
  BY <1>1, <1>2, <1>3, <1>4 DEF Ordered, NothingFromTheFuture
<1>7. InOrder'
  BY <1>1, <1>2, <1>3 DEF Ordered, InOrder
<1> QED
  BY <1>5, <1>6, <1>7

\* A stream is dialled when none is open, and nothing is in transit on it.
LEMMA OrderedDial ==
  ASSUME Ordered, Dial
  PROVE  OneStream' /\ NothingFromTheFuture' /\ IdleEmpty' /\ InOrder'
<1>1. PICK s \in Streams : stream[s] = "idle" /\ stream' = [stream EXCEPT ![s] = "open"]
  BY DEF Dial
<1>2. UNCHANGED <<changes, inTransit, sender>> /\ receiver = "dialing" /\ receiver' = "up"
  BY DEF Dial, localVars
<1>3. \A t \in Streams : t # s => stream'[t] = stream[t] /\ stream[t] # "open"
  BY <1>1, <1>2 DEF Ordered, OneStream, ExchangeTypeOK
<1>4. stream'[s] = "open" /\ inTransit[s] = <<>> /\ 1..Len(inTransit[s]) = {}
  BY <1>1 DEF Ordered, IdleEmpty, ExchangeTypeOK
<1>5. OneStream'
  BY <1>2, <1>3 DEF OneStream
<1>6. NothingFromTheFuture'
  BY <1>2 DEF Ordered, NothingFromTheFuture
<1>7. IdleEmpty'
  BY <1>2, <1>3, <1>4 DEF Ordered, IdleEmpty
<1>8. InOrder'
  BY <1>2, <1>3, <1>4 DEF InOrder
<1> QED
  BY <1>5, <1>6, <1>7, <1>8

\* A stream that is not open any more has no order to keep.
LEMMA OrderedClose ==
  ASSUME Ordered, UNCHANGED <<inTransit, sender>>,
         changes' = changes \/ changes' = changes + 1,
         receiver' \in {"none", "dialing"} =>
           receiver \in {"none", "dialing"} \/ \A s \in Streams : stream'[s] # "open",
         \A s \in Streams : stream'[s] = stream[s] \/ (stream[s] = "open" /\ stream'[s] = "closed")
  PROVE  OneStream' /\ NothingFromTheFuture' /\ IdleEmpty' /\ InOrder'
<1>1. OneStream' /\ IdleEmpty'
  BY DEF Ordered, OneStream, IdleEmpty
<1>2. NothingFromTheFuture'
  BY Versions DEF Ordered, NothingFromTheFuture
<1>3. InOrder'
  BY DEF Ordered, InOrder
<1> QED
  BY <1>1, <1>2, <1>3

LEMMA OrderedReceiver ==
  ASSUME Ordered, Receiver
  PROVE  OneStream' /\ NothingFromTheFuture' /\ IdleEmpty' /\ InOrder'
<1>1. CASE Dial
  BY <1>1, OrderedDial
<1>2. CASE ReportStatus \/ ReportNotReady
  <2>1. UNCHANGED <<changes, stream, sender, receiver>>
    BY <1>2 DEF ReportStatus, ReportNotReady, localVars, remoteVars
  <2>2. OneStream'
    BY <2>1 DEF Ordered, OneStream
  <2>3. SendServerStatus(TRUE) \/ SendServerStatus(FALSE)
    BY <1>2 DEF ReportStatus, ReportNotReady
  <2> QED
    BY <2>1, <2>2, <2>3, OrderedSend
<1>3. CASE CreateTaskReceiver \/ DeleteTaskReceiver
  <2>1. /\ UNCHANGED <<inTransit, sender, changes, stream>>
        /\ receiver' \in {"none", "dialing"} => receiver \in {"none", "dialing"}
    BY <1>3 DEF CreateTaskReceiver, DeleteTaskReceiver, localVars, streamVars, remoteVars
  <2> QED
    BY <2>1, OrderedClose
<1>4. CASE NoticeBrokenStream
  <2>1. /\ UNCHANGED <<inTransit, sender, changes, stream>>
        /\ \A s \in Streams : stream'[s] # "open"
    BY <1>4 DEF NoticeBrokenStream, OpenStreams, localVars, streamVars, remoteVars
  <2> QED
    BY <2>1, OrderedClose
<1>5. CASE StopReceiver
  <2>1. /\ UNCHANGED <<inTransit, sender, changes>>
        /\ \A s \in Streams : IF stream[s] = "open" THEN stream'[s] = "closed"
                                                    ELSE stream'[s] = stream[s]
    BY <1>5 DEF StopReceiver, localVars, remoteVars
  <2>2. \A s \in Streams : stream'[s] # "open"
    BY <2>1
  <2> QED
    BY <2>1, <2>2, OrderedClose
<1> QED
  BY <1>1, <1>2, <1>3, <1>4, <1>5 DEF Receiver

LEMMA OrderedStep ==
  ASSUME Ordered, [ExchangeNext]_exchangeVars
  PROVE  Ordered'
<1>1. ExchangeTypeOK'
  BY ExchangeTypeStep DEF Ordered
<1>2. CASE Receiver
  BY <1>1, <1>2, OrderedReceiver DEF Ordered
<1>3. CASE \E s \in Streams : ReceiveStatus(s) \/ HandlerReturns(s)
  BY <1>1, <1>3, OrderedReceive, OrderedReturn DEF Ordered
<1>4. CASE StreamBreaks
  <2>1. PICK s \in Streams : stream[s] = "open" /\ stream' = [stream EXCEPT ![s] = "closed"]
    BY <1>4 DEF StreamBreaks, OpenStreams
  <2>2. \A t \in Streams : stream'[t] = stream[t] \/ (stream[t] = "open" /\ stream'[t] = "closed")
    BY <2>1 DEF Ordered, ExchangeTypeOK
  <2>3. UNCHANGED <<inTransit, sender, changes, receiver>>
    BY <1>4 DEF StreamBreaks, localVars, receiverVars, remoteVars
  <2> QED
    BY <1>1, <2>2, <2>3, OrderedClose DEF Ordered
<1>5. CASE StartExchangeShutdown \/ LocalEnginesChange \/ PodProceeds \/ UNCHANGED exchangeVars
  <2>1. UNCHANGED <<inTransit, sender, stream, receiver>>
    BY <1>5 DEF StartExchangeShutdown, LocalEnginesChange, PodProceeds, exchangeVars,
       localVars, receiverVars, streamVars, remoteVars
  <2>2. changes' = changes \/ changes' = changes + 1
    BY <1>5 DEF StartExchangeShutdown, LocalEnginesChange, PodProceeds, exchangeVars, localVars
  <2> QED
    BY <1>1, <2>1, <2>2, OrderedClose DEF Ordered
<1> QED
  BY <1>2, <1>3, <1>4, <1>5 DEF ExchangeNext

LEMMA InitOrdered == ExchangeInit => Ordered
<1> SUFFICES ASSUME ExchangeInit PROVE Ordered
  OBVIOUS
<1>1. \A s \in Streams : stream[s] = "idle" /\ inTransit[s] = <<>> /\ 1..Len(inTransit[s]) = {}
  BY DEF ExchangeInit
<1>2. sender = NoSender
  BY DEF ExchangeInit
<1> QED
  BY <1>1, <1>2, InitExchangeType
     DEF Ordered, OneStream, NothingFromTheFuture, IdleEmpty, InOrder

held == IF sender = NoSender THEN 0 ELSE sender.version

\* Every step of the exchange is a step of Mirror, or none.
LEMMA MirrorStep ==
  ASSUME Ordered, [ExchangeNext]_exchangeVars
  PROVE  [EnginesHeld!Next]_<<changes + 1, held>>
<1> USE DEF EnginesHeld!Next, held
<1>1. held \in Nat /\ changes \in Nat
  BY Versions DEF Ordered
<1>2. CASE UNCHANGED <<changes, sender>>
  BY <1>2
<1>3. CASE \E s \in Streams : ReceiveStatus(s)
  <2>1. UNCHANGED changes
    BY <1>3 DEF ReceiveStatus, localVars
  <2>2. held' \in Nat /\ held' <= changes + 1 /\ (sender # NoSender => held <= held')
    BY <1>3, OrderedReceive
  <2>3. held' = held \/ held' \in (held + 1)..(changes + 1)
    BY <1>1, <2>2
  <2> QED
    BY <2>1, <2>3 DEF EnginesHeld!CatchesUp
<1>4. CASE \E s \in Streams : HandlerReturns(s)
  <2>1. UNCHANGED changes /\ (sender' = sender \/ sender' = NoSender)
    BY <1>4 DEF HandlerReturns, RemoveServer, localVars
  <2> QED
    BY <2>1 DEF EnginesHeld!Loses
<1>5. CASE LocalEnginesChange
  BY <1>1, <1>5 DEF LocalEnginesChange, remoteVars, EnginesHeld!SourceChanges
<1>6. CASE Receiver
  BY <1>2, <1>6 DEF Receiver, CreateTaskReceiver, DeleteTaskReceiver, Dial, ReportStatus,
     NoticeBrokenStream, ReportNotReady, StopReceiver, localVars, remoteVars
<1>7. CASE StartExchangeShutdown \/ PodProceeds \/ StreamBreaks \/ UNCHANGED exchangeVars
  BY <1>2, <1>7 DEF StartExchangeShutdown, PodProceeds, StreamBreaks, exchangeVars,
     localVars, remoteVars
<1> QED
  BY <1>3, <1>4, <1>5, <1>6, <1>7 DEF ExchangeNext

(***************************************************************************)
(* The exchange implements Mirror: what the remote server holds of the     *)
(* engines never goes back to an older report, whatever streams break and  *)
(* however late their handlers return.                                     *)
(***************************************************************************)
THEOREM ExchangeMirrorsEngines == ExchangeSpec => TableMirrorsEngines
<1>1. ExchangeInit => EnginesHeld!Init
  BY DEF ExchangeInit, EnginesHeld!Init
<1>2. Ordered /\ [ExchangeNext]_exchangeVars => [EnginesHeld!Next]_<<changes + 1, held>>
  BY MirrorStep
<1> QED
  BY <1>1, <1>2, InitOrdered, OrderedStep, PTL
     DEF ExchangeSpec, TableMirrorsEngines, EnginesHeld!Spec, held
-----------------------------------------------------------------------------
(***************************************************************************)
(* The scanner of server sent events (EventStream), for any stream, any    *)
(* buffer and any chunks in which the stream arrives.                      *)
(***************************************************************************)
LEMMA MaxOfSet ==
  ASSUME NEW n \in Nat, NEW S \in SUBSET (1..n), S # {}
  PROVE  Max(S) \in S
<1> DEFINE G == {n - x : x \in S}
<1>1. \A x \in S : x \in Nat /\ n - x \in Nat
  BY SMT
<1>2. G \subseteq Nat /\ G # {}
  BY <1>1
<1>3. PICK d \in G : \A e \in G : d <= e
  <2> HIDE DEF G
  <2> QED
    BY <1>2, SmallestNumber
<1>4. PICK x \in S : d = n - x
  BY <1>3
<1>5. ASSUME NEW y \in S PROVE x >= y
  <2>1. n - x <= n - y /\ x \in Nat /\ y \in Nat
    BY <1>1, <1>3, <1>4
  <2> QED
    BY <2>1
<1> QED
  BY <1>4, <1>5 DEF Max

LEMMA MaxOfInterval ==
  ASSUME NEW k \in Nat
  PROVE  Max(1..(k + 1)) = k + 1
<1>1. k + 1 \in 1..(k + 1) /\ \A y \in 1..(k + 1) : k + 1 >= y
  OBVIOUS
<1>2. ASSUME NEW x \in 1..(k + 1), \A y \in 1..(k + 1) : x >= y PROVE x = k + 1
  BY <1>1, <1>2
<1>3. Max(1..(k + 1)) \in 1..(k + 1) /\ \A y \in 1..(k + 1) : Max(1..(k + 1)) >= y
  BY <1>1 DEF Max
<1> QED
  BY <1>2, <1>3

\* The function of a fold from the left, for what is folded a step at a time.
LeftFold(h, z, T, g) ==
  g = [s \in SUBSET T |-> IF s = {} THEN z ELSE h[Max(s)][g[s \ {Max(s)}]]]

LEMMA LeftFoldExists ==
  ASSUME NEW n \in Nat, NEW A, NEW z \in A, NEW h \in [1..n -> [A -> A]]
  PROVE  \E g \in [SUBSET (1..n) -> A] : LeftFold(h, z, 1..n, g)
<1> DEFINE Folds(k) == \E g \in [SUBSET (1..k) -> A] : LeftFold(h, z, 1..k, g)
           F == {k \in 0..n : ~Folds(k)}
<1>1. CASE F = {}
  <2>1. n \in 0..n
    OBVIOUS
  <2> HIDE DEF Folds
  <2>2. Folds(n)
    BY <1>1, <2>1
  <2> QED
    BY <2>2 DEF Folds
<1>2. CASE F # {}
  <2>1. PICK k \in F : \A i \in F : k <= i
    <3>1. F \subseteq Nat
      OBVIOUS
    <3> HIDE DEF F
    <3> QED
      BY <1>2, <3>1, SmallestNumber
  <2>2. k \in 0..n /\ ~Folds(k)
    OBVIOUS
  <2>3. k # 0
    <3> DEFINE g == [s \in SUBSET (1..0) |-> z]
    <3>1. g \in [SUBSET (1..0) -> A]
      OBVIOUS
    <3>2. 1..0 = {}
      OBVIOUS
    <3>3. \A s \in SUBSET (1..0) : s = {}
      BY <3>2
    <3>4. LeftFold(h, z, 1..0, g)
      BY <3>3 DEF LeftFold
    <3>5. Folds(0)
      <4> HIDE DEF g
      <4> QED
        BY <3>1, <3>4
    <3> QED
      BY <2>2, <3>5
  <2>4. k - 1 \in 0..n /\ k \in 1..n /\ (k - 1) + 1 = k /\ ~(k <= k - 1)
    BY <2>2, <2>3
  <2>5. Folds(k - 1)
    <3> HIDE DEF Folds
    <3> QED
      BY <2>1, <2>4
  <2>6. PICK f \in [SUBSET (1..(k - 1)) -> A] : LeftFold(h, z, 1..(k - 1), f)
    BY <2>5
  <2> DEFINE g == [s \in SUBSET (1..k) |-> IF k \in s THEN h[k][f[s \ {k}]] ELSE f[s]]
  <2>7. ASSUME NEW s \in SUBSET (1..k)
        PROVE  /\ s \ {k} \in SUBSET (1..(k - 1))
               /\ k \notin s => s \in SUBSET (1..(k - 1))
               /\ k \in s => Max(s) = k
               /\ s # {} => Max(s) \in s
    <3>1. k \in s => Max(s) = k
      <4>1. ASSUME k \in s, NEW x \in s, \A y \in s : x >= y PROVE x = k
        BY <2>4, <4>1
      <4>2. k \in s => \A y \in s : k >= y
        BY <2>4
      <4> QED
        BY <4>1, <4>2 DEF Max
    <3>2. s # {} => Max(s) \in s
      <4>1. k \in Nat
        BY <2>4
      <4> QED
        BY <4>1, MaxOfSet
    <3>3. s \ {k} \in SUBSET (1..(k - 1))
      BY <2>4
    <3> QED
      BY <3>1, <3>2, <3>3
  <2>8. g \in [SUBSET (1..k) -> A]
    BY <2>4, <2>6, <2>7
  <2>9. ASSUME NEW s \in SUBSET (1..k)
        PROVE  g[s] = IF s = {} THEN z ELSE h[Max(s)][g[s \ {Max(s)}]]
    <3>1. CASE k \in s
      <4>1. g[s] = h[k][f[s \ {k}]] /\ Max(s) = k
        BY <2>7, <3>1
      <4>2. g[s \ {k}] = f[s \ {k}]
        BY <2>7
      <4> HIDE DEF g
      <4> QED
        BY <3>1, <4>1, <4>2
    <3>2. CASE k \notin s
      <4>1. s \in SUBSET (1..(k - 1)) /\ g[s] = f[s]
        BY <2>7, <3>2
      <4>2. f[s] = IF s = {} THEN z ELSE h[Max(s)][f[s \ {Max(s)}]]
        BY <2>6, <4>1 DEF LeftFold
      <4>3. g[s \ {Max(s)}] = f[s \ {Max(s)}]
        BY <2>7, <3>2
      <4> HIDE DEF g
      <4> QED
        BY <4>1, <4>2, <4>3
    <3> QED
      BY <3>1, <3>2
  <2>10. LeftFold(h, z, 1..k, g)
    <3> DEFINE b(s) == IF s = {} THEN z ELSE h[Max(s)][g[s \ {Max(s)}]]
    <3>1. g = [s \in SUBSET (1..k) |-> b(s)]
      <4>1. g = [s \in SUBSET (1..k) |-> g[s]]
        OBVIOUS
      <4> HIDE DEF g
      <4> QED
        BY <2>9, <4>1
    <3> HIDE DEF g
    <3> QED
      BY <3>1 DEF LeftFold
  <2> HIDE DEF g
  <2> QED
    BY <2>2, <2>8, <2>10
<1> QED
  BY <1>1, <1>2
-----------------------------------------------------------------------------
Bytes == {R, N, X}

ScanState == [done : Seq(Seq(Bytes)), line : Seq(Bytes)]

\* A byte of the reference's scan.
ScanByte(acc, b) ==
  LET line == Append(acc.line, b) IN
  IF Blank(line)
    THEN [done |-> Append(acc.done, SubSeq(line, 1, Len(line) - BlankLength(line))), line |-> <<>>]
    ELSE [done |-> acc.done, line |-> line]

NoBytes == [done |-> <<>>, line |-> <<>>]

IsScan(s, g) ==
  g = [S \in SUBSET DOMAIN s |->
         IF S = {} THEN NoBytes ELSE ScanByte(g[S \ {Max(S)}], s[Max(S)])]

\* The reference's state after k bytes.
Scanned(s, k) == (CHOOSE g : IsScan(s, g))[1..k]

LEMMA ByteByByteIsScan ==
  ASSUME NEW s
  PROVE  ByteByByte(s) =
           LET last == (CHOOSE g : IsScan(s, g))[DOMAIN s]
           IN IF last.line = <<>> THEN last.done ELSE Append(last.done, last.line)
BY DEF ByteByByte, FoldLeft, MapThenFoldSet, IsScan, ScanByte, NoBytes

LEMMA ScanByteType ==
  ASSUME NEW acc \in ScanState, NEW b \in Bytes
  PROVE  ScanByte(acc, b) \in ScanState
<1> DEFINE line == Append(acc.line, b)
           cut == SubSeq(line, 1, Len(line) - BlankLength(line))
<1>1. acc.done \in Seq(Seq(Bytes)) /\ acc.line \in Seq(Bytes) /\ line \in Seq(Bytes)
  BY AppendProperties DEF ScanState
<1>2. cut \in Seq(Bytes)
  <2> HIDE DEF line
  <2>1. Len(line) \in Nat /\ BlankLength(line) \in {2, 4}
    BY <1>1, LenProperties DEF BlankLength
  <2>2. \A i \in 1..(Len(line) - BlankLength(line)) : line[i] \in Bytes
    <3>1. \A i \in 1..(Len(line) - BlankLength(line)) : i \in 1..Len(line)
      BY <2>1
    <3> QED
      BY <1>1, <3>1, ElementOfSeq
  <2> QED
    BY <2>1, <2>2, SubSeqProperties
<1> HIDE DEF cut
<1>3. Append(acc.done, cut) \in Seq(Seq(Bytes))
  BY <1>1, <1>2, AppendProperties
<1>4. <<>> \in Seq(Bytes)
  BY EmptySeq
<1> HIDE DEF line
<1>5. ScanByte(acc, b) = IF Blank(line) THEN [done |-> Append(acc.done, cut), line |-> <<>>]
                         ELSE [done |-> acc.done, line |-> line]
  BY DEF ScanByte, line, cut
<1> QED
  BY <1>1, <1>3, <1>4, <1>5 DEF ScanState

LEMMA ScanSteps ==
  ASSUME NEW s \in Seq(Bytes)
  PROVE  /\ \A k \in 0..Len(s) : Scanned(s, k) \in ScanState
         /\ Scanned(s, 0) = NoBytes
         /\ \A k \in 0..(Len(s) - 1) : Scanned(s, k + 1) = ScanByte(Scanned(s, k), s[k + 1])
         /\ ByteByByte(s) = IF Scanned(s, Len(s)).line = <<>> THEN Scanned(s, Len(s)).done
                            ELSE Append(Scanned(s, Len(s)).done, Scanned(s, Len(s)).line)
<1> DEFINE n == Len(s)
           h == [i \in 1..n |-> [acc \in ScanState |-> ScanByte(acc, s[i])]]
           c == CHOOSE g : IsScan(s, g)
<1>1. n \in Nat /\ DOMAIN s = 1..n /\ \A i \in 1..n : s[i] \in Bytes
  BY LenProperties, ElementOfSeq
<1>2. NoBytes \in ScanState
  <2>1. <<>> \in Seq(Bytes) /\ <<>> \in Seq(Seq(Bytes))
    BY EmptySeq
  <2> QED
    BY <2>1 DEF NoBytes, ScanState
<1>3. h \in [1..n -> [ScanState -> ScanState]]
  BY <1>1, ScanByteType
<1>4. \A i \in 1..n : \A acc \in ScanState : h[i][acc] = ScanByte(acc, s[i])
  OBVIOUS
<1>5. \E g : IsScan(s, g)
  <2> HIDE DEF h, n
  <2>1. PICK g \in [SUBSET (1..n) -> ScanState] : LeftFold(h, NoBytes, 1..n, g)
    BY <1>1, <1>2, <1>3, LeftFoldExists
  <2> DEFINE a(S) == IF S = {} THEN NoBytes ELSE h[Max(S)][g[S \ {Max(S)}]]
             b(S) == IF S = {} THEN NoBytes ELSE ScanByte(g[S \ {Max(S)}], s[Max(S)])
  <2>2. ASSUME NEW S \in SUBSET (1..n), S # {} PROVE Max(S) \in 1..n /\ S \ {Max(S)} \in SUBSET (1..n)
    BY <1>1, <2>2, MaxOfSet
  <2>3. \A S \in SUBSET (1..n) : a(S) = b(S)
    BY <1>4, <2>1, <2>2
  <2>4. g = [S \in SUBSET (1..n) |-> a(S)]
    BY <2>1 DEF LeftFold
  <2> HIDE DEF a
  <2>5. g = [S \in SUBSET (1..n) |-> b(S)]
    BY <2>3, <2>4
  <2>6. IsScan(s, g)
    BY <1>1, <2>5 DEF IsScan
  <2> QED
    BY <2>6
<1>6. IsScan(s, c)
  BY <1>5
<1> HIDE DEF h, c, n
<1>7. \A k \in 0..n : Scanned(s, k) = c[1..k]
  BY DEF Scanned, c
<1>8. \A S \in SUBSET (1..n) : c[S] = IF S = {} THEN NoBytes ELSE ScanByte(c[S \ {Max(S)}], s[Max(S)])
  BY <1>1, <1>6 DEF IsScan
<1>9. c[1..0] = NoBytes
  <2>1. 1..0 = {} /\ 1..0 \in SUBSET (1..n)
    BY SMT
  <2> QED
    BY <1>8, <2>1
<1>10. ASSUME NEW k \in 0..(n - 1) PROVE c[1..(k + 1)] = ScanByte(c[1..k], s[k + 1])
  <2>1. k \in Nat /\ 1..(k + 1) \in SUBSET (1..n) /\ 1..(k + 1) # {} /\ (1..(k + 1)) \ {k + 1} = 1..k
    BY <1>1
  <2>2. Max(1..(k + 1)) = k + 1
    BY <2>1, MaxOfInterval
  <2> QED
    BY <1>8, <2>1, <2>2
<1>11. \A k \in 0..n : c[1..k] \in ScanState
  <2> DEFINE F == {k \in 0..n : c[1..k] \notin ScanState}
  <2>1. ASSUME F # {} PROVE FALSE
    <3>1. PICK k \in F : \A i \in F : k <= i
      <4>1. F \subseteq Nat
        BY <1>1
      <4> HIDE DEF F
      <4> QED
        BY <2>1, <4>1, SmallestNumber
    <3>2. k \in 0..n /\ k # 0 /\ c[1..k] \notin ScanState
      BY <1>2, <1>9, <3>1
    <3>3. k - 1 \in 0..(n - 1) /\ k - 1 \in 0..n /\ (k - 1) + 1 = k /\ k \in 1..n /\ ~(k <= k - 1)
      BY <1>1, <3>2
    <3>4. c[1..(k - 1)] \in ScanState
      BY <3>1, <3>3
    <3>5. c[1..k] = ScanByte(c[1..(k - 1)], s[k])
      BY <1>10, <3>3
    <3> QED
      BY <1>1, <3>2, <3>3, <3>4, <3>5, ScanByteType
  <2> QED
    BY <2>1
<1>12. ByteByByte(s) = IF c[1..n].line = <<>> THEN c[1..n].done ELSE Append(c[1..n].done, c[1..n].line)
  BY <1>1, ByteByByteIsScan DEF c
<1>13. \A k \in 0..(n - 1) : k \in 0..n /\ k + 1 \in 0..n
  BY <1>1
<1>14. 0 \in 0..n /\ n \in 0..n
  BY <1>1
<1>15. /\ \A k \in 0..n : Scanned(s, k) \in ScanState
       /\ Scanned(s, 0) = NoBytes
       /\ \A k \in 0..(n - 1) : Scanned(s, k + 1) = ScanByte(Scanned(s, k), s[k + 1])
       /\ ByteByByte(s) = IF Scanned(s, n).line = <<>> THEN Scanned(s, n).done
                          ELSE Append(Scanned(s, n).done, Scanned(s, n).line)
  BY <1>7, <1>9, <1>10, <1>11, <1>12, <1>13, <1>14
<1> QED
  BY <1>15 DEF n
-----------------------------------------------------------------------------
(***************************************************************************)
(* Delimiters.                                                             *)
(***************************************************************************)
DelimAt(s, i, d) == i \in 1..(Len(s) - Len(d) + 1) /\ SubSeq(s, i, i + Len(d) - 1) = d

LEMMA BytesOfSubSeq ==
  ASSUME NEW s \in Seq(Bytes), NEW i \in 1..(Len(s) + 1), NEW j \in 0..Len(s), i <= j + 1
  PROVE  /\ SubSeq(s, i, j) \in Seq(Bytes) /\ Len(SubSeq(s, i, j)) = j - i + 1
         /\ \A k \in 1..(j - i + 1) : SubSeq(s, i, j)[k] = s[i + k - 1]
<1>1. Len(s) \in Nat
  BY LenProperties
<1>2. i \in Int /\ j \in Int /\ \A k \in i..j : k \in 1..Len(s)
  BY <1>1
<1>3. \A k \in i..j : s[k] \in Bytes
  BY <1>2, ElementOfSeq
<1>4. (IF i <= j THEN j - i + 1 ELSE 0) = j - i + 1
  BY <1>1
<1> QED
  BY <1>2, <1>3, <1>4, SubSeqProperties

LEMMA Delimiters ==
  /\ \A d \in {<<R, R>>, <<N, N>>, <<R, N, R, N>>, <<N, N, N, N>>} : d \in Seq(Bytes) /\ Len(d) \in {2, 4}
  /\ Len(<<R, R>>) = 2 /\ Len(<<N, N>>) = 2 /\ Len(<<R, N, R, N>>) = 4 /\ Len(<<N, N, N, N>>) = 4
  /\ R # N
BY DEF Bytes, R, N, X

LEMMA BytesAtDelim ==
  ASSUME NEW s \in Seq(Bytes), NEW i \in Nat, NEW d \in Seq(Bytes), Len(d) \in {2, 4}
  PROVE  DelimAt(s, i, d) <=> i >= 1 /\ i + Len(d) <= Len(s) + 1 /\ \A k \in 1..Len(d) : s[i + k - 1] = d[k]
<1> DEFINE t == SubSeq(s, i, i + Len(d) - 1)
<1>1. Len(s) \in Nat /\ Len(d) \in Nat
  BY LenProperties
<1>2. i \in 1..(Len(s) - Len(d) + 1) <=> i >= 1 /\ i + Len(d) <= Len(s) + 1
  BY <1>1
<1>3. ASSUME i >= 1, i + Len(d) <= Len(s) + 1
      PROVE  t = d <=> \A k \in 1..Len(d) : s[i + k - 1] = d[k]
  <2>1. /\ i \in 1..(Len(s) + 1) /\ i + Len(d) - 1 \in 0..Len(s) /\ i <= (i + Len(d) - 1) + 1
        /\ (i + Len(d) - 1) - i + 1 = Len(d)
    BY <1>1, <1>3
  <2>2. t \in Seq(Bytes) /\ Len(t) = Len(d) /\ \A k \in 1..Len(d) : t[k] = s[i + k - 1]
    BY <2>1, BytesOfSubSeq
  <2> HIDE DEF t
  <2>3. t = d <=> \A k \in 1..Len(d) : t[k] = d[k]
    BY <2>2, SeqEqual
  <2> QED
    BY <2>2, <2>3
<1>4. DelimAt(s, i, d) <=> i \in 1..(Len(s) - Len(d) + 1) /\ t = d
  BY DEF DelimAt
<1> HIDE DEF t
<1> QED
  BY <1>2, <1>3, <1>4

LEMMA BytesAt ==
  ASSUME NEW s \in Seq(Bytes), NEW i \in Nat
  PROVE  /\ DelimAt(s, i, <<R, R>>) <=> i >= 1 /\ i + 1 <= Len(s) /\ s[i] = R /\ s[i + 1] = R
         /\ DelimAt(s, i, <<N, N>>) <=> i >= 1 /\ i + 1 <= Len(s) /\ s[i] = N /\ s[i + 1] = N
         /\ DelimAt(s, i, <<R, N, R, N>>) <=>
              i >= 1 /\ i + 3 <= Len(s) /\ s[i] = R /\ s[i + 1] = N /\ s[i + 2] = R /\ s[i + 3] = N
         /\ DelimAt(s, i, <<N, N, N, N>>) => DelimAt(s, i, <<N, N>>)
<1>1. Len(s) \in Nat
  BY LenProperties
<1>2. ASSUME NEW d \in Seq(Bytes), Len(d) = 2
      PROVE  DelimAt(s, i, d) <=> i >= 1 /\ i + 1 <= Len(s) /\ s[i] = d[1] /\ s[i + 1] = d[2]
  <2>1. DelimAt(s, i, d) <=> i >= 1 /\ i + Len(d) <= Len(s) + 1 /\ \A k \in 1..Len(d) : s[i + k - 1] = d[k]
    BY <1>2, BytesAtDelim
  <2>2. 1..Len(d) = {1, 2} /\ (i + Len(d) <= Len(s) + 1 <=> i + 1 <= Len(s))
    BY <1>1, <1>2
  <2>3. i + 1 - 1 = i /\ i + 2 - 1 = i + 1
    OBVIOUS
  <2>4. (\A k \in {1, 2} : s[i + k - 1] = d[k]) <=> s[i] = d[1] /\ s[i + 1] = d[2]
    BY <2>3
  <2> QED
    BY <2>1, <2>2, <2>4
<1>3. ASSUME NEW d \in Seq(Bytes), Len(d) = 4
      PROVE  DelimAt(s, i, d) <=> /\ i >= 1 /\ i + 3 <= Len(s) /\ s[i] = d[1] /\ s[i + 1] = d[2]
                             /\ s[i + 2] = d[3] /\ s[i + 3] = d[4]
  <2>1. DelimAt(s, i, d) <=> i >= 1 /\ i + Len(d) <= Len(s) + 1 /\ \A k \in 1..Len(d) : s[i + k - 1] = d[k]
    BY <1>3, BytesAtDelim
  <2>2. 1..Len(d) = {1, 2, 3, 4} /\ (i + Len(d) <= Len(s) + 1 <=> i + 3 <= Len(s))
    BY <1>1, <1>3
  <2>3. i + 1 - 1 = i /\ i + 2 - 1 = i + 1 /\ i + 3 - 1 = i + 2 /\ i + 4 - 1 = i + 3
    OBVIOUS
  <2>4. (\A k \in {1, 2, 3, 4} : s[i + k - 1] = d[k]) <=>
          s[i] = d[1] /\ s[i + 1] = d[2] /\ s[i + 2] = d[3] /\ s[i + 3] = d[4]
    BY <2>3
  <2> QED
    BY <2>1, <2>2, <2>4
<1>4. DelimAt(s, i, <<R, R>>) <=> i >= 1 /\ i + 1 <= Len(s) /\ s[i] = R /\ s[i + 1] = R
  <2> DEFINE d == <<R, R>>
  <2>1. d \in Seq(Bytes) /\ Len(d) = 2 /\ d[1] = R /\ d[2] = R
    BY Delimiters
  <2> HIDE DEF d
  <2>2. DelimAt(s, i, d) <=> i >= 1 /\ i + 1 <= Len(s) /\ s[i] = R /\ s[i + 1] = R
    BY <1>2, <2>1
  <2> QED
    BY <2>2 DEF d
<1>5. DelimAt(s, i, <<N, N>>) <=> i >= 1 /\ i + 1 <= Len(s) /\ s[i] = N /\ s[i + 1] = N
  <2> DEFINE d == <<N, N>>
  <2>1. d \in Seq(Bytes) /\ Len(d) = 2 /\ d[1] = N /\ d[2] = N
    BY Delimiters
  <2> HIDE DEF d
  <2>2. DelimAt(s, i, d) <=> i >= 1 /\ i + 1 <= Len(s) /\ s[i] = N /\ s[i + 1] = N
    BY <1>2, <2>1
  <2> QED
    BY <2>2 DEF d
<1>6. DelimAt(s, i, <<R, N, R, N>>) <=>
        i >= 1 /\ i + 3 <= Len(s) /\ s[i] = R /\ s[i + 1] = N /\ s[i + 2] = R /\ s[i + 3] = N
  <2> DEFINE d == <<R, N, R, N>>
  <2>1. d \in Seq(Bytes) /\ Len(d) = 4 /\ d[1] = R /\ d[2] = N /\ d[3] = R /\ d[4] = N
    BY Delimiters
  <2> HIDE DEF d
  <2>2. DelimAt(s, i, d) <=>
          i >= 1 /\ i + 3 <= Len(s) /\ s[i] = R /\ s[i + 1] = N /\ s[i + 2] = R /\ s[i + 3] = N
    BY <1>3, <2>1
  <2> QED
    BY <2>2 DEF d
<1>7. DelimAt(s, i, <<N, N, N, N>>) => i >= 1 /\ i + 1 <= Len(s) /\ s[i] = N /\ s[i + 1] = N
  <2> DEFINE d == <<N, N, N, N>>
  <2>1. d \in Seq(Bytes) /\ Len(d) = 4 /\ d[1] = N /\ d[2] = N
    BY Delimiters
  <2> HIDE DEF d
  <2>2. DelimAt(s, i, d) => i >= 1 /\ i + 3 <= Len(s) /\ s[i] = N /\ s[i + 1] = N
    BY <1>3, <2>1
  <2>3. DelimAt(s, i, d) => i >= 1 /\ i + 1 <= Len(s) /\ s[i] = N /\ s[i + 1] = N
    BY <1>1, <2>2
  <2> QED
    BY <2>3 DEF d
<1> QED
  BY <1>4, <1>5, <1>6, <1>7

LEMMA IndexFinds ==
  ASSUME NEW s \in Seq(Bytes), NEW d, Len(d) \in {2, 4}
  PROVE  /\ Index(s, d) \in Nat
         /\ Index(s, d) = 0 => \A i \in Nat : ~DelimAt(s, i, d)
         /\ Index(s, d) # 0 => DelimAt(s, Index(s, d), d) /\ \A i \in Nat : DelimAt(s, i, d) => Index(s, d) <= i
<1> DEFINE at == {i \in 1..(Len(s) - Len(d) + 1) : SubSeq(s, i, i + Len(d) - 1) = d}
<1>1. Len(s) \in Nat
  BY LenProperties
<1>2. \A i : i \in at <=> DelimAt(s, i, d)
  BY DEF DelimAt
<1>3. at \subseteq Nat \ {0}
  BY <1>1
<1>4. Index(s, d) = IF at = {} THEN 0 ELSE CHOOSE i \in at : \A j \in at : i <= j
  BY DEF Index
<1> HIDE DEF at
<1>5. at # {} => \E i \in at : \A j \in at : i <= j
  BY <1>3, SmallestNumber
<1>6. at # {} => Index(s, d) \in at /\ \A j \in at : Index(s, d) <= j
  BY <1>4, <1>5
<1>7. at = {} => Index(s, d) = 0 /\ \A i : ~DelimAt(s, i, d)
  BY <1>2, <1>4
<1>8. at # {} => /\ Index(s, d) \in Nat /\ Index(s, d) # 0 /\ DelimAt(s, Index(s, d), d)
                 /\ \A i : DelimAt(s, i, d) => Index(s, d) <= i
  BY <1>2, <1>3, <1>6
<1> QED
  BY <1>7, <1>8

\* The choice of a delimiter, one after the other.
Sooner(s, d, e) == IF Earlier(s, d, e) THEN e ELSE d

IsChoice(s, g) ==
  g = [S \in SUBSET DOMAIN Delims |->
         IF S = {} THEN Delims[1] ELSE Sooner(s, g[S \ {Max(S)}], Delims[Max(S)])]

LEMMA FirstDelimIsChoice ==
  ASSUME NEW s
  PROVE  FirstDelim(s) = (CHOOSE g : IsChoice(s, g))[DOMAIN Delims]
BY DEF FirstDelim, FoldLeft, MapThenFoldSet, IsChoice, Sooner

LEMMA FirstDelimSteps ==
  ASSUME NEW s
  PROVE  FirstDelim(s) =
           Sooner(s, Sooner(s, Sooner(s, Sooner(s, <<R, R>>, <<R, R>>), <<N, N>>), <<R, N, R, N>>),
                  <<N, N, N, N>>)
<1> DEFINE A == {Delims[i] : i \in 1..4}
           h == [i \in 1..4 |-> [d \in A |-> Sooner(s, d, Delims[i])]]
           z == Delims[1]
<1>1. /\ DOMAIN Delims = 1..4 /\ Delims[1] = <<R, R>> /\ Delims[2] = <<N, N>>
      /\ Delims[3] = <<R, N, R, N>> /\ Delims[4] = <<N, N, N, N>>
  BY DEF Delims
<1>2. z \in A
  OBVIOUS
<1>3. h \in [1..4 -> [A -> A]]
  BY DEF Sooner
<1>4. \A i \in 1..4 : \A d \in A : h[i][d] = Sooner(s, d, Delims[i])
  OBVIOUS
<1> HIDE DEF A, h, z
<1>5. PICK g \in [SUBSET (1..4) -> A] : LeftFold(h, z, 1..4, g)
  BY <1>2, <1>3, LeftFoldExists
<1>6. IsChoice(s, g)
  <2> DEFINE a(S) == IF S = {} THEN z ELSE h[Max(S)][g[S \ {Max(S)}]]
             b(S) == IF S = {} THEN Delims[1] ELSE Sooner(s, g[S \ {Max(S)}], Delims[Max(S)])
  <2>1. ASSUME NEW S \in SUBSET (1..4), S # {} PROVE Max(S) \in 1..4 /\ S \ {Max(S)} \in SUBSET (1..4)
    BY <2>1, MaxOfSet
  <2>2. \A S \in SUBSET (1..4) : a(S) = b(S)
    BY <1>4, <1>5, <2>1 DEF z
  <2>3. g = [S \in SUBSET (1..4) |-> a(S)]
    BY <1>5 DEF LeftFold
  <2> HIDE DEF a
  <2>4. g = [S \in SUBSET (1..4) |-> b(S)]
    BY <2>2, <2>3
  <2> QED
    BY <1>1, <2>4 DEF IsChoice
<1> DEFINE c == CHOOSE f : IsChoice(s, f)
<1>7. IsChoice(s, c)
  BY <1>6
<1> HIDE DEF c
<1>8. \A S \in SUBSET (1..4) : c[S] = IF S = {} THEN Delims[1] ELSE Sooner(s, c[S \ {Max(S)}], Delims[Max(S)])
  BY <1>1, <1>7 DEF IsChoice
<1>9. ASSUME NEW k \in 0..3 PROVE c[1..(k + 1)] = Sooner(s, c[1..k], Delims[k + 1])
  <2>1. k \in Nat /\ 1..(k + 1) \in SUBSET (1..4) /\ 1..(k + 1) # {} /\ (1..(k + 1)) \ {k + 1} = 1..k
    OBVIOUS
  <2>2. Max(1..(k + 1)) = k + 1
    BY <2>1, MaxOfInterval
  <2> QED
    BY <1>8, <2>1, <2>2
<1>10. c[1..0] = Delims[1]
  <2>1. 1..0 = {} /\ 1..0 \in SUBSET (1..4)
    BY SMT
  <2> QED
    BY <1>8, <2>1
<1>11. /\ c[1..1] = Sooner(s, c[1..0], Delims[1]) /\ c[1..2] = Sooner(s, c[1..1], Delims[2])
       /\ c[1..3] = Sooner(s, c[1..2], Delims[3]) /\ c[1..4] = Sooner(s, c[1..3], Delims[4])
  <2>1. 0 \in 0..3 /\ 1 \in 0..3 /\ 2 \in 0..3 /\ 3 \in 0..3 /\ 0 + 1 = 1 /\ 1 + 1 = 2 /\ 2 + 1 = 3 /\ 3 + 1 = 4
    OBVIOUS
  <2> QED
    BY <1>9, <2>1
<1>12. FirstDelim(s) = c[1..4]
  BY <1>1, FirstDelimIsChoice DEF c
<1> QED
  BY <1>1, <1>10, <1>11, <1>12

\* split takes a delimiter that begins no later than any other.
LEMMA FirstDelimBegins ==
  ASSUME NEW s \in Seq(Bytes)
  PROVE  LET d == FirstDelim(s) IN
         /\ d \in {<<R, R>>, <<N, N>>, <<R, N, R, N>>}
         /\ \A e \in {<<R, R>>, <<N, N>>, <<R, N, R, N>>} :
              Index(s, e) # 0 => Index(s, d) # 0 /\ Index(s, d) <= Index(s, e)
<1> DEFINE i1 == Index(s, <<R, R>>)
           i2 == Index(s, <<N, N>>)
           i3 == Index(s, <<R, N, R, N>>)
           i4 == Index(s, <<N, N, N, N>>)
<1>1. i1 \in Nat /\ i2 \in Nat /\ i3 \in Nat /\ i4 \in Nat
  BY Delimiters, IndexFinds
<1>2. i4 # 0 => i2 # 0 /\ i2 <= i4
  <2>1. i4 # 0 => DelimAt(s, i4, <<N, N, N, N>>)
    BY Delimiters, IndexFinds
  <2> HIDE DEF i4
  <2>2. i4 # 0 => DelimAt(s, i4, <<N, N>>)
    BY <1>1, <2>1, BytesAt
  <2> QED
    BY <1>1, <2>2, Delimiters, IndexFinds
<1> DEFINE d2 == Sooner(s, <<R, R>>, <<N, N>>)
           d3 == Sooner(s, d2, <<R, N, R, N>>)
           d4 == Sooner(s, d3, <<N, N, N, N>>)
<1>3. Sooner(s, <<R, R>>, <<R, R>>) = <<R, R>>
  BY DEF Sooner
<1>4. FirstDelim(s) = d4
  BY <1>3, FirstDelimSteps
<1>5. /\ d2 \in {<<R, R>>, <<N, N>>} /\ Index(s, d2) \in Nat
      /\ i1 # 0 => Index(s, d2) # 0 /\ Index(s, d2) <= i1
      /\ i2 # 0 => Index(s, d2) # 0 /\ Index(s, d2) <= i2
  BY <1>1 DEF Sooner, Earlier
<1> HIDE DEF d2
<1>6. /\ d3 \in {<<R, R>>, <<N, N>>, <<R, N, R, N>>} /\ Index(s, d3) \in Nat
      /\ i1 # 0 => Index(s, d3) # 0 /\ Index(s, d3) <= i1
      /\ i2 # 0 => Index(s, d3) # 0 /\ Index(s, d3) <= i2
      /\ i3 # 0 => Index(s, d3) # 0 /\ Index(s, d3) <= i3
  BY <1>1, <1>5 DEF Sooner, Earlier
<1> HIDE DEF d3
<1>7. d4 = d3
  BY <1>1, <1>2, <1>6 DEF Sooner, Earlier
<1> QED
  BY <1>4, <1>6, <1>7
-----------------------------------------------------------------------------
LEMMA SuffixIs ==
  ASSUME NEW d \in Seq(Bytes), NEW s \in Seq(Bytes)
  PROVE  IsSuffix(d, s) <=> Len(d) <= Len(s) /\ \A k \in 1..Len(d) : d[Len(d) - k + 1] = s[Len(s) - k + 1]
<1> DEFINE rd == Reverse(d)
           rs == Reverse(s)
<1>1. Len(d) \in Nat /\ Len(s) \in Nat
  BY LenProperties
<1>2. /\ rd = [i \in 1..Len(d) |-> d[(Len(d) - i) + 1]]
      /\ rs = [i \in 1..Len(s) |-> s[(Len(s) - i) + 1]]
  BY DEF Reverse
<1>3. /\ \A i \in 1..Len(d) : (Len(d) - i) + 1 \in 1..Len(d)
      /\ \A i \in 1..Len(s) : (Len(s) - i) + 1 \in 1..Len(s)
  BY <1>1
<1>4. /\ \A i \in 1..Len(d) : d[(Len(d) - i) + 1] \in Bytes
      /\ \A i \in 1..Len(s) : s[(Len(s) - i) + 1] \in Bytes
  BY <1>3, ElementOfSeq
<1>5. /\ rd \in Seq(Bytes) /\ Len(rd) = Len(d)
      /\ rs \in Seq(Bytes) /\ Len(rs) = Len(s)
  BY <1>1, <1>2, <1>4
<1> HIDE DEF rd, rs
<1>6. ASSUME Len(d) <= Len(s)
      PROVE  SubSeq(rd, 1, Len(rd)) = SubSeq(rs, 1, Len(rd)) <=>
               \A k \in 1..Len(d) : d[Len(d) - k + 1] = s[Len(s) - k + 1]
  <2> DEFINE t == SubSeq(rs, 1, Len(rd))
  <2>1. SubSeq(rd, 1, Len(rd)) = rd
    BY <1>5, SubSeqFull
  <2>2. 1 \in 1..(Len(rs) + 1) /\ Len(rd) \in 0..Len(rs) /\ 1 <= Len(rd) + 1 /\ Len(rd) - 1 + 1 = Len(d)
    BY <1>1, <1>5, <1>6
  <2>3. t \in Seq(Bytes) /\ Len(t) = Len(d) /\ \A k \in 1..Len(d) : t[k] = rs[1 + k - 1]
    BY <1>5, <2>2, BytesOfSubSeq
  <2> HIDE DEF t
  <2>4. rd = t <=> \A k \in 1..Len(d) : rd[k] = t[k]
    BY <1>5, <2>3, SeqEqual
  <2>5. ASSUME NEW k \in 1..Len(d)
        PROVE  rd[k] = d[Len(d) - k + 1] /\ t[k] = s[Len(s) - k + 1]
    <3>1. /\ k \in 1..Len(s) /\ 1 + k - 1 = k
          /\ (Len(d) - k) + 1 = Len(d) - k + 1 /\ (Len(s) - k) + 1 = Len(s) - k + 1
      BY <1>1, <1>6
    <3> QED
      BY <1>2, <2>3, <3>1
  <2> DEFINE Agree(k)   == rd[k] = t[k]
             Matches(k) == d[Len(d) - k + 1] = s[Len(s) - k + 1]
  <2>9. \A k \in 1..Len(d) : Agree(k) <=> Matches(k)
    BY <2>5
  <2>6. (\A k \in 1..Len(d) : rd[k] = t[k]) <=> \A k \in 1..Len(d) : d[Len(d) - k + 1] = s[Len(s) - k + 1]
    <3>1. (\A k \in 1..Len(d) : Agree(k)) <=> \A k \in 1..Len(d) : Matches(k)
      <4> HIDE DEF Agree, Matches
      <4> QED
        BY <2>9
    <3> QED
      BY <3>1, Zenon
  <2>7. (SubSeq(rd, 1, Len(rd)) = t) <=> (rd = t)
    BY <2>1
  <2>8. t = SubSeq(rs, 1, Len(rd))
    BY DEF t
  <2> QED
    BY <2>4, <2>6, <2>7, <2>8
<1>7. IsSuffix(d, s) <=> Len(rd) <= Len(rs) /\ SubSeq(rd, 1, Len(rd)) = SubSeq(rs, 1, Len(rd))
  BY DEF IsSuffix, IsPrefix, rd, rs
<1> QED
  BY <1>5, <1>6, <1>7

\* A blank line ends where a delimiter does.
LEMMA BlankIs ==
  ASSUME NEW s \in Seq(Bytes)
  PROVE  /\ Blank(s) <=> \/ Len(s) >= 2 /\ s[Len(s)] = R /\ s[Len(s) - 1] = R
                         \/ Len(s) >= 2 /\ s[Len(s)] = N /\ s[Len(s) - 1] = N
                         \/ /\ Len(s) >= 4 /\ s[Len(s)] = N /\ s[Len(s) - 1] = R
                            /\ s[Len(s) - 2] = N /\ s[Len(s) - 3] = R
         /\ BlankLength(s) = IF /\ Len(s) >= 4 /\ s[Len(s)] = N /\ s[Len(s) - 1] = R
                                /\ s[Len(s) - 2] = N /\ s[Len(s) - 3] = R
                               THEN 4 ELSE 2
<1>1. Len(s) \in Nat
  BY LenProperties
<1>2. ASSUME NEW d \in Seq(Bytes), Len(d) = 2
      PROVE  IsSuffix(d, s) <=> Len(s) >= 2 /\ s[Len(s)] = d[2] /\ s[Len(s) - 1] = d[1]
  <2>1. IsSuffix(d, s) <=> Len(d) <= Len(s) /\ \A k \in 1..Len(d) : d[Len(d) - k + 1] = s[Len(s) - k + 1]
    BY SuffixIs
  <2>2. 1..Len(d) = {1, 2} /\ Len(s) - 1 + 1 = Len(s) /\ Len(s) - 2 + 1 = Len(s) - 1
    BY <1>1, <1>2
  <2>3. Len(d) - 1 + 1 = 2 /\ Len(d) - 2 + 1 = 1
    BY <1>2
  <2>4. (\A k \in {1, 2} : d[Len(d) - k + 1] = s[Len(s) - k + 1]) <=> d[2] = s[Len(s)] /\ d[1] = s[Len(s) - 1]
    BY <2>2, <2>3
  <2> QED
    BY <1>1, <1>2, <2>1, <2>2, <2>4
<1>3. ASSUME NEW d \in Seq(Bytes), Len(d) = 4
      PROVE  IsSuffix(d, s) <=> /\ Len(s) >= 4 /\ s[Len(s)] = d[4] /\ s[Len(s) - 1] = d[3]
                                /\ s[Len(s) - 2] = d[2] /\ s[Len(s) - 3] = d[1]
  <2>1. IsSuffix(d, s) <=> Len(d) <= Len(s) /\ \A k \in 1..Len(d) : d[Len(d) - k + 1] = s[Len(s) - k + 1]
    BY SuffixIs
  <2>2. /\ 1..Len(d) = {1, 2, 3, 4} /\ Len(s) - 1 + 1 = Len(s) /\ Len(s) - 2 + 1 = Len(s) - 1
        /\ Len(s) - 3 + 1 = Len(s) - 2 /\ Len(s) - 4 + 1 = Len(s) - 3
    BY <1>1, <1>3
  <2>3. Len(d) - 1 + 1 = 4 /\ Len(d) - 2 + 1 = 3 /\ Len(d) - 3 + 1 = 2 /\ Len(d) - 4 + 1 = 1
    BY <1>3
  <2>4. (\A k \in {1, 2, 3, 4} : d[Len(d) - k + 1] = s[Len(s) - k + 1]) <=>
          d[4] = s[Len(s)] /\ d[3] = s[Len(s) - 1] /\ d[2] = s[Len(s) - 2] /\ d[1] = s[Len(s) - 3]
    BY <2>2, <2>3
  <2> QED
    BY <1>1, <1>3, <2>1, <2>2, <2>4
<1>4. IsSuffix(<<R, R>>, s) <=> Len(s) >= 2 /\ s[Len(s)] = R /\ s[Len(s) - 1] = R
  <2> DEFINE d == <<R, R>>
  <2>1. d \in Seq(Bytes) /\ Len(d) = 2 /\ d[1] = R /\ d[2] = R
    BY Delimiters
  <2> HIDE DEF d
  <2>2. IsSuffix(d, s) <=> Len(s) >= 2 /\ s[Len(s)] = R /\ s[Len(s) - 1] = R
    BY <1>2, <2>1
  <2> QED
    BY <2>2 DEF d
<1>5. IsSuffix(<<N, N>>, s) <=> Len(s) >= 2 /\ s[Len(s)] = N /\ s[Len(s) - 1] = N
  <2> DEFINE d == <<N, N>>
  <2>1. d \in Seq(Bytes) /\ Len(d) = 2 /\ d[1] = N /\ d[2] = N
    BY Delimiters
  <2> HIDE DEF d
  <2>2. IsSuffix(d, s) <=> Len(s) >= 2 /\ s[Len(s)] = N /\ s[Len(s) - 1] = N
    BY <1>2, <2>1
  <2> QED
    BY <2>2 DEF d
<1>6. IsSuffix(<<R, N, R, N>>, s) <=>
        /\ Len(s) >= 4 /\ s[Len(s)] = N /\ s[Len(s) - 1] = R /\ s[Len(s) - 2] = N /\ s[Len(s) - 3] = R
  <2> DEFINE d == <<R, N, R, N>>
  <2>1. d \in Seq(Bytes) /\ Len(d) = 4 /\ d[1] = R /\ d[2] = N /\ d[3] = R /\ d[4] = N
    BY Delimiters
  <2> HIDE DEF d
  <2>2. IsSuffix(d, s) <=>
          /\ Len(s) >= 4 /\ s[Len(s)] = N /\ s[Len(s) - 1] = R /\ s[Len(s) - 2] = N /\ s[Len(s) - 3] = R
    BY <1>3, <2>1
  <2> QED
    BY <2>2 DEF d
<1> QED
  BY <1>4, <1>5, <1>6 DEF Blank, BlankLength

\* The bytes up to the j-th.
LEMMA BlankUpTo ==
  ASSUME NEW s \in Seq(Bytes), NEW j \in 1..Len(s)
  PROVE  /\ Blank(SubSeq(s, 1, j)) <=> \/ j >= 2 /\ s[j] = R /\ s[j - 1] = R
                                       \/ j >= 2 /\ s[j] = N /\ s[j - 1] = N
                                       \/ j >= 4 /\ s[j] = N /\ s[j - 1] = R /\ s[j - 2] = N /\ s[j - 3] = R
         /\ BlankLength(SubSeq(s, 1, j)) =
              IF j >= 4 /\ s[j] = N /\ s[j - 1] = R /\ s[j - 2] = N /\ s[j - 3] = R THEN 4 ELSE 2
<1> DEFINE t == SubSeq(s, 1, j)
<1>1. Len(s) \in Nat /\ j \in Nat /\ j >= 1 /\ j <= Len(s)
  BY LenProperties
<1>2. t \in Seq(Bytes) /\ Len(t) = j /\ \A k \in 1..j : t[k] = s[k]
  <2>1. 1 \in 1..(Len(s) + 1) /\ j \in 0..Len(s) /\ 1 <= j + 1 /\ j - 1 + 1 = j
    BY <1>1
  <2>2. t \in Seq(Bytes) /\ Len(t) = j /\ \A k \in 1..j : t[k] = s[1 + k - 1]
    BY <2>1, BytesOfSubSeq
  <2>3. \A k \in 1..j : 1 + k - 1 = k
    BY <1>1
  <2> QED
    BY <2>2, <2>3
<1> HIDE DEF t
<1>3. /\ t[j] = s[j]
      /\ j >= 2 => t[j - 1] = s[j - 1]
      /\ j >= 4 => t[j - 1] = s[j - 1] /\ t[j - 2] = s[j - 2] /\ t[j - 3] = s[j - 3]
  BY <1>1, <1>2
<1>4. /\ Blank(t) <=> \/ j >= 2 /\ t[j] = R /\ t[j - 1] = R
                      \/ j >= 2 /\ t[j] = N /\ t[j - 1] = N
                      \/ j >= 4 /\ t[j] = N /\ t[j - 1] = R /\ t[j - 2] = N /\ t[j - 3] = R
      /\ BlankLength(t) = IF j >= 4 /\ t[j] = N /\ t[j - 1] = R /\ t[j - 2] = N /\ t[j - 3] = R
                            THEN 4 ELSE 2
  BY <1>2, BlankIs
<1> QED
  BY <1>3, <1>4 DEF t

\* A delimiter that ends with the j-th byte.
LEMMA PairBefore ==
  ASSUME NEW s \in Seq(Bytes), NEW j \in 1..Len(s), j >= 2, s[j] = s[j - 1], s[j] \in {R, N}
  PROVE  \E i \in Nat : i = j - 1 /\ \E e \in {<<R, R>>, <<N, N>>} : DelimAt(s, i, e)
<1> DEFINE i == j - 1
<1>1. Len(s) \in Nat
  BY LenProperties
<1>2. i \in Nat /\ i >= 1 /\ i + 1 = j /\ i + 1 <= Len(s) /\ s[i + 1] = s[i]
  BY <1>1
<1> HIDE DEF i
<1>3. DelimAt(s, i, <<R, R>>) \/ DelimAt(s, i, <<N, N>>)
  BY <1>2, BytesAt
<1> QED
  BY <1>2, <1>3 DEF i

LEMMA FourBefore ==
  ASSUME NEW s \in Seq(Bytes), NEW j \in 1..Len(s), j >= 4,
         s[j] = N, s[j - 1] = R, s[j - 2] = N, s[j - 3] = R
  PROVE  \E i \in Nat : i = j - 3 /\ DelimAt(s, i, <<R, N, R, N>>)
<1> DEFINE i == j - 3
<1>1. Len(s) \in Nat
  BY LenProperties
<1>2. i \in Nat /\ i >= 1 /\ i + 3 = j /\ i + 3 <= Len(s) /\ i + 1 = j - 2 /\ i + 2 = j - 1
  BY <1>1
<1>3. s[i] = R /\ s[i + 1] = N /\ s[i + 2] = R /\ s[i + 3] = N
  BY <1>2
<1> HIDE DEF i
<1>4. DelimAt(s, i, <<R, N, R, N>>)
  BY <1>2, <1>3, BytesAt
<1> QED
  BY <1>2, <1>4 DEF i

\* Where split finds nothing, no line is blank,
LEMMA NoEventNoBlank ==
  ASSUME NEW s \in Seq(Bytes), ~HasEvent(s), NEW j \in 1..Len(s)
  PROVE  ~Blank(SubSeq(s, 1, j))
<1>1. Len(s) \in Nat /\ j \in Nat /\ j >= 1 /\ j <= Len(s)
  BY LenProperties
<1>2. \A e \in {<<R, R>>, <<N, N>>, <<R, N, R, N>>} : Index(s, e) = 0
  BY FirstDelimBegins DEF HasEvent
<1>3. ASSUME NEW e \in {<<R, R>>, <<N, N>>, <<R, N, R, N>>}, NEW i \in Nat
      PROVE  ~DelimAt(s, i, e)
  <2>1. Len(e) \in {2, 4}
    BY Delimiters
  <2>2. Index(s, e) = 0
    BY <1>2
  <2> QED
    BY <2>1, <2>2, IndexFinds
<1>4. ASSUME j >= 2, s[j] = s[j - 1], s[j] \in {R, N} PROVE FALSE
  BY <1>1, <1>3, <1>4, PairBefore
<1>5. ASSUME j >= 4, s[j] = N, s[j - 1] = R, s[j - 2] = N, s[j - 3] = R PROVE FALSE
  BY <1>1, <1>3, <1>5, FourBefore
<1> QED
  BY <1>1, <1>4, <1>5, BlankUpTo

\* and the delimiter that it finds ends the first one.
LEMMA EventIsFirstBlank ==
  ASSUME NEW s \in Seq(Bytes), HasEvent(s)
  PROVE  LET d == FirstDelim(s)
             pos == Index(s, d)
             m == pos + Len(d) - 1
         IN  /\ pos \in Nat /\ pos >= 1 /\ Len(d) \in {2, 4} /\ m \in 1..Len(s)
             /\ \A j \in 1..(m - 1) : ~Blank(SubSeq(s, 1, j))
             /\ Blank(SubSeq(s, 1, m)) /\ BlankLength(SubSeq(s, 1, m)) = Len(d)
<1> DEFINE d == FirstDelim(s)
           pos == Index(s, d)
           m == pos + Len(d) - 1
<1>1. Len(s) \in Nat
  BY LenProperties
<1>2. /\ d \in {<<R, R>>, <<N, N>>, <<R, N, R, N>>} /\ pos # 0
      /\ \A e \in {<<R, R>>, <<N, N>>, <<R, N, R, N>>} : Index(s, e) # 0 => pos <= Index(s, e)
  BY FirstDelimBegins DEF HasEvent
<1> HIDE DEF d
<1>3. Len(d) \in {2, 4} /\ pos \in Nat /\ DelimAt(s, pos, d)
  BY <1>2, Delimiters, IndexFinds
<1>4. \A e \in {<<R, R>>, <<N, N>>, <<R, N, R, N>>} : \A i \in Nat : DelimAt(s, i, e) => pos <= i
  <2> SUFFICES ASSUME NEW e \in {<<R, R>>, <<N, N>>, <<R, N, R, N>>}, NEW i \in Nat, DelimAt(s, i, e)
               PROVE  pos <= i
    OBVIOUS
  <2> HIDE DEF pos
  <2>1. Index(s, e) \in Nat /\ Index(s, e) # 0 /\ Index(s, e) <= i
    BY Delimiters, IndexFinds
  <2>2. pos <= Index(s, e)
    BY <1>2, <2>1
  <2>3. pos \in Nat
    BY <1>3
  <2> HIDE DEF pos
  <2>4. \A a, b, f \in Nat : a <= b /\ b <= f => a <= f
    OBVIOUS
  <2> QED
    BY <2>1, <2>2, <2>3, <2>4
<1> HIDE DEF pos
\* What is at pos.
<1>5. \/ /\ d = <<R, R>> /\ Len(d) = 2 /\ pos + 1 <= Len(s) /\ s[pos] = R /\ s[pos + 1] = R
      \/ /\ d = <<N, N>> /\ Len(d) = 2 /\ pos + 1 <= Len(s) /\ s[pos] = N /\ s[pos + 1] = N
      \/ /\ d = <<R, N, R, N>> /\ Len(d) = 4 /\ pos + 3 <= Len(s)
         /\ s[pos] = R /\ s[pos + 1] = N /\ s[pos + 2] = R /\ s[pos + 3] = N
  <2>1. CASE d = <<R, R>>
    BY <1>3, <2>1, BytesAt, Delimiters
  <2>2. CASE d = <<N, N>>
    BY <1>3, <2>2, BytesAt, Delimiters
  <2>3. CASE d = <<R, N, R, N>>
    BY <1>3, <2>3, BytesAt, Delimiters
  <2> QED
    BY <1>2, <2>1, <2>2, <2>3
<1>9. m = (pos + Len(d)) - 1 /\ (Len(d) = 2 => m = pos + 1) /\ (Len(d) = 4 => m = pos + 3)
  <2>1. pos \in Nat /\ Len(d) \in Nat
    BY <1>3
  <2>2. m = (pos + Len(d)) - 1
    BY <2>1
  <2> HIDE DEF m
  <2>3. Len(d) = 2 => m = pos + 1
    BY <2>1, <2>2
  <2>4. Len(d) = 4 => m = pos + 3
    BY <2>1, <2>2
  <2> QED
    BY <2>2, <2>3, <2>4
<1> HIDE DEF m
<1>6. pos >= 1 /\ m \in 1..Len(s) /\ m \in Nat
  <2>1. pos >= 1
    BY <1>3, <1>2 DEF pos
  <2> QED
    BY <1>1, <1>3, <1>5, <1>9, <2>1
<1>7. ASSUME NEW j \in 1..(m - 1) PROVE ~Blank(SubSeq(s, 1, j))
  <2>1. j \in Nat /\ j >= 1 /\ j <= Len(s) /\ j <= m - 1 /\ j \in 1..Len(s)
    BY <1>1, <1>6
  <2>4. ASSUME j >= 2, s[j] = s[j - 1], s[j] \in {R, N} PROVE FALSE
    <3>1. PICK i \in Nat, e \in {<<R, R>>, <<N, N>>} : i = j - 1 /\ DelimAt(s, i, e)
      BY <2>1, <2>4, PairBefore
    <3>2. pos <= j - 1
      BY <1>4, <3>1
    <3>3. d = <<R, N, R, N>> /\ (j = pos + 1 \/ j = pos + 2)
      BY <1>1, <1>3, <1>5, <1>9, <2>1, <3>2
    <3>4. s[pos] # s[pos + 1] /\ s[pos + 1] # s[pos + 2]
      <4>1. d # <<R, R>> /\ d # <<N, N>>
        BY <3>3, Delimiters
      <4> QED
        BY <1>5, <4>1, Delimiters
    <3>5. (pos + 1) - 1 = pos /\ (pos + 2) - 1 = pos + 1
      BY <1>3
    <3> QED
      BY <2>4, <3>3, <3>4, <3>5
  <2>5. ASSUME j >= 4, s[j] = N, s[j - 1] = R, s[j - 2] = N, s[j - 3] = R PROVE FALSE
    <3>1. PICK i \in Nat : i = j - 3 /\ DelimAt(s, i, <<R, N, R, N>>)
      BY <2>1, <2>5, FourBefore
    <3>2. pos <= j - 3
      BY <1>4, <3>1
    <3> QED
      BY <1>3, <1>9, <2>1, <3>2
  <2> QED
    BY <2>1, <2>4, <2>5, BlankUpTo
<1>8. Blank(SubSeq(s, 1, m)) /\ BlankLength(SubSeq(s, 1, m)) = Len(d)
  <2>1. CASE d = <<R, R>> \/ d = <<N, N>>
    <3>1. Len(d) = 2 /\ m = pos + 1 /\ m - 1 = pos /\ m >= 2
      <4>1. Len(d) = 2
        BY <2>1, Delimiters
      <4> QED
        BY <1>3, <1>6, <1>9, <4>1
    <3>2. s[m] = s[m - 1] /\ s[m] \in {R, N}
      <4>1. s[pos] = s[pos + 1] /\ s[pos] \in {R, N}
        BY <1>5, <3>1
      <4> QED
        BY <3>1, <4>1
    <3>3. ~(m >= 4 /\ s[m] = N /\ s[m - 1] = R /\ s[m - 2] = N /\ s[m - 3] = R)
      BY <3>2, Delimiters
    <3> QED
      BY <1>6, <3>1, <3>2, <3>3, BlankUpTo
  <2>2. CASE d = <<R, N, R, N>>
    <3>1. /\ Len(d) = 4 /\ m = pos + 3 /\ m >= 4
          /\ m - 1 = pos + 2 /\ m - 2 = pos + 1 /\ m - 3 = pos
      <4>1. Len(d) = 4
        BY <2>2, Delimiters
      <4> QED
        BY <1>3, <1>6, <1>9, <4>1
    <3>2. s[m] = N /\ s[m - 1] = R /\ s[m - 2] = N /\ s[m - 3] = R
      BY <1>5, <3>1
    <3> QED
      BY <1>6, <3>1, <3>2, BlankUpTo
  <2> QED
    BY <1>2, <2>1, <2>2
<1> QED
  BY <1>3, <1>6, <1>7, <1>8 DEF pos, d, m
-----------------------------------------------------------------------------
(***************************************************************************)
(* The reference's scan of the bytes from one place of the stream on.      *)
(***************************************************************************)
Follows(s, c, t) == t \in Seq(Bytes) /\ c + Len(t) <= Len(s) /\ \A k \in 1..Len(t) : s[c + k] = t[k]

\* The bytes up to the next one.
LEMMA NextByte ==
  ASSUME NEW t \in Seq(Bytes), NEW k \in Nat, k + 1 <= Len(t)
  PROVE  /\ SubSeq(t, 1, k) \in Seq(Bytes) /\ Len(SubSeq(t, 1, k)) = k
         /\ \A i \in 1..k : SubSeq(t, 1, k)[i] = t[i]
         /\ Append(SubSeq(t, 1, k), t[k + 1]) = SubSeq(t, 1, k + 1)
<1> DEFINE u == SubSeq(t, 1, k)
           v == SubSeq(t, 1, k + 1)
           w == Append(u, t[k + 1])
<1>1. Len(t) \in Nat /\ k + 1 \in 1..Len(t) /\ t[k + 1] \in Bytes
  <2>1. Len(t) \in Nat /\ k + 1 \in 1..Len(t)
    BY LenProperties
  <2> QED
    BY <2>1, ElementOfSeq
<1>2. u \in Seq(Bytes) /\ Len(u) = k /\ \A i \in 1..k : u[i] = t[i]
  <2>1. 1 \in 1..(Len(t) + 1) /\ k \in 0..Len(t) /\ 1 <= k + 1 /\ k - 1 + 1 = k
    BY <1>1
  <2>2. u \in Seq(Bytes) /\ Len(u) = k /\ \A i \in 1..k : u[i] = t[1 + i - 1]
    BY <2>1, BytesOfSubSeq
  <2> HIDE DEF u
  <2>3. \A i \in 1..k : 1 + i - 1 = i
    OBVIOUS
  <2> QED
    BY <2>2, <2>3
<1>3. v \in Seq(Bytes) /\ Len(v) = k + 1 /\ \A i \in 1..(k + 1) : v[i] = t[i]
  <2>1. 1 \in 1..(Len(t) + 1) /\ k + 1 \in 0..Len(t) /\ 1 <= (k + 1) + 1 /\ (k + 1) - 1 + 1 = k + 1
    BY <1>1
  <2>2. v \in Seq(Bytes) /\ Len(v) = k + 1 /\ \A i \in 1..(k + 1) : v[i] = t[1 + i - 1]
    BY <2>1, BytesOfSubSeq
  <2> HIDE DEF v
  <2>3. \A i \in 1..(k + 1) : 1 + i - 1 = i
    OBVIOUS
  <2> QED
    BY <2>2, <2>3
<1> HIDE DEF u, v
<1>4. w \in Seq(Bytes) /\ Len(w) = k + 1 /\ w[k + 1] = t[k + 1] /\ \A i \in 1..k : w[i] = t[i]
  BY <1>1, <1>2, AppendProperties
<1> HIDE DEF w
<1>5. w = v
  <2>1. \A i \in 1..(k + 1) : w[i] = v[i]
    BY <1>3, <1>4
  <2> QED
    BY <1>3, <1>4, <2>1, SeqEqual
<1> QED
  BY <1>2, <1>5 DEF u, v, w

\* As long as no blank line ends, the line grows.
LEMMA ScanLine ==
  ASSUME NEW s \in Seq(Bytes), NEW c \in Nat, NEW t, Follows(s, c, t), Scanned(s, c).line = <<>>,
         NEW m \in 0..Len(t), \A j \in 1..m : ~Blank(SubSeq(t, 1, j))
  PROVE  Scanned(s, c + m) = [done |-> Scanned(s, c).done, line |-> SubSeq(t, 1, m)]
<1> DEFINE Line(k) == [done |-> Scanned(s, c).done, line |-> SubSeq(t, 1, k)]
           F == {k \in 0..m : Scanned(s, c + k) # Line(k)}
<1>1. /\ t \in Seq(Bytes) /\ Len(t) \in Nat /\ Len(s) \in Nat /\ m \in Nat /\ m <= Len(t) /\ c + Len(t) <= Len(s)
      /\ \A k \in 1..Len(t) : s[c + k] = t[k]
  BY LenProperties DEF Follows
<1>2. Scanned(s, c + 0) = Line(0)
  <2>1. c \in 0..Len(s) /\ c + 0 = c
    BY <1>1
  <2>2. Scanned(s, c) \in ScanState
    BY <2>1, ScanSteps
  <2>3. SubSeq(t, 1, 0) = <<>>
    <3>1. 1 \in 1..(Len(t) + 1) /\ 0 \in 0..Len(t) /\ 1 <= 0 + 1 /\ 0 - 1 + 1 = 0
      BY <1>1
    <3>2. SubSeq(t, 1, 0) \in Seq(Bytes) /\ Len(SubSeq(t, 1, 0)) = 0
      BY <1>1, <3>1, BytesOfSubSeq
    <3> QED
      BY <3>2, EmptySeq
  <2> QED
    BY <2>1, <2>2, <2>3 DEF ScanState
<1>3. ASSUME NEW k \in Nat, k + 1 <= m, Scanned(s, c + k) = Line(k)
      PROVE  Scanned(s, c + (k + 1)) = Line(k + 1)
  <2>1. /\ c + k \in 0..(Len(s) - 1) /\ c + (k + 1) = (c + k) + 1 /\ k + 1 \in 1..Len(t)
        /\ k + 1 \in 1..m /\ k + 1 <= Len(t)
    BY <1>1, <1>3
  <2>2. Scanned(s, (c + k) + 1) = ScanByte(Scanned(s, c + k), s[(c + k) + 1])
    BY <2>1, ScanSteps
  <2>3. s[(c + k) + 1] = t[k + 1]
    BY <1>1, <2>1
  <2>4. Append(SubSeq(t, 1, k), t[k + 1]) = SubSeq(t, 1, k + 1) /\ ~Blank(SubSeq(t, 1, k + 1))
    BY <1>1, <2>1, NextByte
  <2>5. ScanByte(Line(k), t[k + 1]) = Line(k + 1)
    BY <2>4 DEF ScanByte
  <2> QED
    BY <1>3, <2>1, <2>2, <2>3, <2>5
<1> HIDE DEF Line
<1>4. ASSUME F # {} PROVE FALSE
  <2>1. PICK k \in F : \A i \in F : k <= i
    <3>1. F \subseteq Nat
      BY <1>1
    <3> HIDE DEF F
    <3> QED
      BY <1>4, <3>1, SmallestNumber
  <2>2. k \in 0..m /\ k # 0 /\ Scanned(s, c + k) # Line(k)
    BY <1>2, <2>1
  <2>3. k - 1 \in Nat /\ k - 1 \in 0..m /\ (k - 1) + 1 = k /\ (k - 1) + 1 <= m /\ ~(k <= k - 1)
    BY <1>1, <2>2
  <2>4. Scanned(s, c + (k - 1)) = Line(k - 1)
    BY <2>1, <2>3
  <2>5. Scanned(s, c + ((k - 1) + 1)) = Line((k - 1) + 1)
    BY <1>3, <2>3, <2>4
  <2> QED
    BY <2>2, <2>3, <2>5
<1>5. m \in 0..m
  BY <1>1
<1> QED
  BY <1>4, <1>5 DEF Line

\* Where the bytes have an event, the reference returns it with the last byte of
\* its delimiter.
LEMMA ScanEvent ==
  ASSUME NEW s \in Seq(Bytes), NEW c \in Nat, NEW t, Follows(s, c, t), Scanned(s, c).line = <<>>, HasEvent(t)
  PROVE  LET pos == Index(t, FirstDelim(t))
             m == pos + Len(FirstDelim(t)) - 1
         IN  /\ pos \in Nat /\ m \in 1..Len(t) /\ pos + Len(FirstDelim(t)) = m + 1
             /\ Scanned(s, c + m) = [done |-> Append(Scanned(s, c).done, SubSeq(t, 1, pos - 1)), line |-> <<>>]
<1> DEFINE d == FirstDelim(t)
           pos == Index(t, d)
           m == pos + Len(d) - 1
<1>1. /\ t \in Seq(Bytes) /\ Len(t) \in Nat /\ Len(s) \in Nat /\ c + Len(t) <= Len(s)
      /\ \A k \in 1..Len(t) : s[c + k] = t[k]
  BY LenProperties DEF Follows
<1>2. /\ pos \in Nat /\ pos >= 1 /\ Len(d) \in {2, 4} /\ m \in 1..Len(t)
      /\ \A j \in 1..(m - 1) : ~Blank(SubSeq(t, 1, j))
      /\ Blank(SubSeq(t, 1, m)) /\ BlankLength(SubSeq(t, 1, m)) = Len(d)
  BY <1>1, EventIsFirstBlank
<1> HIDE DEF d, pos
<1>3. pos + Len(d) = m + 1 /\ m - Len(d) = pos - 1 /\ pos - 1 \in Nat /\ pos - 1 < m
  BY <1>2
<1> HIDE DEF m
<1>4. /\ m - 1 \in Nat /\ m - 1 \in 0..Len(t) /\ (m - 1) + 1 = m /\ m \in Nat /\ m <= Len(t)
      /\ c + (m - 1) \in 0..(Len(s) - 1) /\ (c + (m - 1)) + 1 = c + m
  BY <1>1, <1>2
<1>5. Scanned(s, c + (m - 1)) = [done |-> Scanned(s, c).done, line |-> SubSeq(t, 1, m - 1)]
  <2> DEFINE i == m - 1
  <2>1. i \in 0..Len(t) /\ \A j \in 1..i : ~Blank(SubSeq(t, 1, j))
    BY <1>2, <1>4
  <2> HIDE DEF i
  <2>2. Scanned(s, c + i) = [done |-> Scanned(s, c).done, line |-> SubSeq(t, 1, i)]
    BY <2>1, ScanLine
  <2> QED
    BY <2>2 DEF i
<1>6. Scanned(s, c + m) = ScanByte(Scanned(s, c + (m - 1)), t[m])
  <2>1. Scanned(s, (c + (m - 1)) + 1) = ScanByte(Scanned(s, c + (m - 1)), s[(c + (m - 1)) + 1])
    BY <1>4, ScanSteps
  <2>2. s[c + m] = t[m]
    BY <1>1, <1>2
  <2> QED
    BY <1>4, <2>1, <2>2
<1>7. Append(SubSeq(t, 1, m - 1), t[m]) = SubSeq(t, 1, m)
  <2>1. Append(SubSeq(t, 1, m - 1), t[(m - 1) + 1]) = SubSeq(t, 1, (m - 1) + 1)
    BY <1>1, <1>4, NextByte
  <2> QED
    BY <1>4, <2>1
<1> DEFINE v == SubSeq(t, 1, m)
<1>8. v \in Seq(Bytes) /\ Len(v) = m /\ \A i \in 1..m : v[i] = t[i]
  <2>1. 1 \in 1..(Len(t) + 1) /\ m \in 0..Len(t) /\ 1 <= m + 1 /\ m - 1 + 1 = m
    BY <1>1, <1>4
  <2>2. v \in Seq(Bytes) /\ Len(v) = m /\ \A i \in 1..m : v[i] = t[1 + i - 1]
    BY <1>1, <2>1, BytesOfSubSeq
  <2> HIDE DEF v
  <2>3. \A i \in 1..m : 1 + i - 1 = i
    BY <1>4
  <2> QED
    BY <2>2, <2>3
<1>9. SubSeq(v, 1, Len(v) - Len(d)) = SubSeq(t, 1, pos - 1)
  <2> HIDE DEF v
  <2>1. (pos - 1) + 1 <= Len(v) /\ (pos - 1) + 1 <= Len(t)
    BY <1>3, <1>4, <1>8
  <2> DEFINE a == SubSeq(v, 1, pos - 1)
             b == SubSeq(t, 1, pos - 1)
  <2>2. /\ a \in Seq(Bytes) /\ Len(a) = pos - 1 /\ \A i \in 1..(pos - 1) : a[i] = v[i]
        /\ b \in Seq(Bytes) /\ Len(b) = pos - 1 /\ \A i \in 1..(pos - 1) : b[i] = t[i]
    BY <1>1, <1>3, <1>8, <2>1, NextByte
  <2>3. \A i \in 1..(pos - 1) : v[i] = t[i]
    <3>1. \A i \in 1..(pos - 1) : i \in 1..m
      BY <1>3, <1>4
    <3> QED
      BY <1>8, <3>1, Zenon
  <2> HIDE DEF a, b
  <2>4. a = b
    BY <2>2, <2>3, SeqEqual
  <2>5. Len(v) - Len(d) = pos - 1
    BY <1>3, <1>8
  <2> QED
    BY <2>4, <2>5 DEF a, b
<1>10. ScanByte(Scanned(s, c + (m - 1)), t[m]) =
         [done |-> Append(Scanned(s, c).done, SubSeq(v, 1, Len(v) - Len(d))), line |-> <<>>]
  <2>1. Blank(v) /\ BlankLength(v) = Len(d) /\ Append(SubSeq(t, 1, m - 1), t[m]) = v
    BY <1>2, <1>7 DEF v
  <2> HIDE DEF v
  <2> DEFINE acc == Scanned(s, c + (m - 1))
             b == t[m]
             old == SubSeq(t, 1, m - 1)
  <2>4. acc = [done |-> Scanned(s, c).done, line |-> old] /\ Append(old, b) = v
    BY <1>5, <2>1
  <2> HIDE DEF acc, b, old
  <2>2. acc.done = Scanned(s, c).done /\ Append(acc.line, b) = v
    BY <2>4
  <2> HIDE DEF acc, b
  <2>3. ScanByte(acc, b) = [done |-> Append(acc.done, SubSeq(v, 1, Len(v) - BlankLength(v))), line |-> <<>>]
    BY <2>1, <2>2 DEF ScanByte
  <2> QED
    BY <2>1, <2>2, <2>3 DEF acc, b
<1> QED
  BY <1>2, <1>3, <1>6, <1>9, <1>10 DEF m, pos, d
-----------------------------------------------------------------------------
\* What the reference has returned it keeps.
Begins(p, q) == Len(p) <= Len(q) /\ \A k \in 1..Len(p) : p[k] = q[k]

LEMMA BeginsIsPrefix ==
  ASSUME NEW p \in Seq(Seq(Bytes)), NEW q \in Seq(Seq(Bytes)), Begins(p, q)
  PROVE  IsPrefix(p, q)
<1> DEFINE n == Len(p)
           u == SubSeq(q, 1, n)
<1>1. Len(p) \in Nat /\ Len(q) \in Nat /\ n <= Len(q) /\ \A k \in 1..n : p[k] = q[k]
  BY LenProperties DEF Begins
<1>2. 1 \in Int /\ n \in Int /\ \A k \in 1..n : q[k] \in Seq(Bytes)
  <2>1. \A k \in 1..n : k \in 1..Len(q)
    BY <1>1
  <2> QED
    BY <1>1, <2>1, ElementOfSeq
<1>3. /\ u \in Seq(Seq(Bytes)) /\ Len(u) = IF 1 <= n THEN n - 1 + 1 ELSE 0
      /\ \A i \in 1..(n - 1 + 1) : u[i] = q[1 + i - 1]
  <2> HIDE DEF n
  <2> QED
    BY <1>2, SubSeqProperties
<1>4. SubSeq(p, 1, Len(p)) = p
  BY SubSeqFull
<1> HIDE DEF u, n
<1>5. Len(u) = n
  BY <1>1, <1>3 DEF n
<1>6. \A i \in 1..n : u[i] = p[i]
  <2>1. \A i \in 1..n : 1 + i - 1 = i /\ i \in 1..(n - 1 + 1)
    BY <1>2
  <2> QED
    BY <1>1, <1>3, <2>1
<1>7. u = p
  BY <1>3, <1>5, <1>6, SeqEqual DEF n
<1> QED
  BY <1>1, <1>4, <1>7 DEF IsPrefix, u, n

\* A line that is long stays so until it ends, and loses a delimiter at most.
Rest(acc, done, b) ==
  /\ Begins(done, acc.done)
  /\ \/ Len(acc.done) = Len(done) /\ Len(acc.line) >= b
     \/ Len(acc.done) > Len(done) /\ Len(acc.done[Len(done) + 1]) + 4 > b

LEMMA BeginsAppend ==
  ASSUME NEW p \in Seq(Seq(Bytes)), NEW q \in Seq(Seq(Bytes)), NEW e \in Seq(Bytes), Begins(p, q)
  PROVE  /\ Append(q, e) \in Seq(Seq(Bytes)) /\ Begins(p, Append(q, e)) /\ Len(Append(q, e)) = Len(q) + 1
         /\ Len(Append(q, e)) > Len(p)
         /\ Append(q, e)[Len(q) + 1] = e
         /\ Len(q) > Len(p) => Append(q, e)[Len(p) + 1] = q[Len(p) + 1]
<1> DEFINE r == Append(q, e)
<1>1. /\ Len(p) \in Nat /\ Len(q) \in Nat /\ Len(p) <= Len(q) /\ \A k \in 1..Len(p) : p[k] = q[k]
  BY LenProperties DEF Begins
<1>2. /\ r \in Seq(Seq(Bytes)) /\ Len(r) = Len(q) + 1 /\ r[Len(q) + 1] = e
      /\ \A i \in 1..Len(q) : r[i] = q[i]
  BY AppendProperties
<1> HIDE DEF r
<1>3. \A k \in 1..Len(p) : p[k] = r[k]
  BY <1>1, <1>2
<1>4. Len(q) > Len(p) => Len(p) + 1 \in 1..Len(q)
  BY <1>1
<1>5. Len(p) <= Len(r) /\ Len(r) > Len(p)
  BY <1>1, <1>2
<1> QED
  BY <1>2, <1>3, <1>4, <1>5 DEF Begins, r

LEMMA RestByte ==
  ASSUME NEW acc \in ScanState, NEW b \in Bytes, NEW done \in Seq(Seq(Bytes)), NEW n \in Nat,
         Rest(acc, done, n)
  PROVE  Rest(ScanByte(acc, b), done, n)
<1> DEFINE line == Append(acc.line, b)
           k == Len(line) - BlankLength(line)
           cut == SubSeq(line, 1, k)
<1>1. /\ acc.done \in Seq(Seq(Bytes)) /\ acc.line \in Seq(Bytes) /\ line \in Seq(Bytes)
      /\ Len(acc.line) \in Nat /\ Len(line) = Len(acc.line) + 1 /\ Len(line) \in Nat
      /\ Len(done) \in Nat /\ Len(acc.done) \in Nat
  BY AppendProperties, LenProperties DEF ScanState
<1> HIDE DEF line
<1>2. Begins(done, acc.done)
  BY DEF Rest
<1>3. CASE Blank(line)
  <2>1. BlankLength(line) \in {2, 4} /\ BlankLength(line) <= Len(line)
    BY <1>1, <1>3, BlankIs
  <2>2. k \in Nat /\ k + 1 <= Len(line) /\ k + 4 >= Len(line)
    BY <1>1, <2>1
  <2> HIDE DEF k
  <2>3. cut \in Seq(Bytes) /\ Len(cut) = k
    BY <1>1, <2>2, NextByte
  <2> HIDE DEF cut
  <2>4. /\ Begins(done, Append(acc.done, cut)) /\ Len(Append(acc.done, cut)) > Len(done)
        /\ Append(acc.done, cut)[Len(acc.done) + 1] = cut
        /\ Len(acc.done) > Len(done) => Append(acc.done, cut)[Len(done) + 1] = acc.done[Len(done) + 1]
    BY <1>1, <1>2, <2>3, BeginsAppend
  <2>5. Len(Append(acc.done, cut)[Len(done) + 1]) + 4 > n
    <3>1. CASE Len(acc.done) = Len(done) /\ Len(acc.line) >= n
      <4>1. Append(acc.done, cut)[Len(done) + 1] = cut
        BY <2>4, <3>1
      <4>2. Len(cut) + 4 > n
        BY <1>1, <2>2, <2>3, <3>1
      <4> QED
        BY <4>1, <4>2
    <3>2. CASE Len(acc.done) > Len(done) /\ Len(acc.done[Len(done) + 1]) + 4 > n
      BY <2>4, <3>2
    <3> QED
      BY <3>1, <3>2 DEF Rest
  <2>6. ScanByte(acc, b) = [done |-> Append(acc.done, cut), line |-> <<>>]
    BY <1>3 DEF ScanByte, line, cut, k
  <2> DEFINE now == Append(acc.done, cut)
  <2> HIDE DEF now
  <2>7. ScanByte(acc, b).done = now
    BY <2>6 DEF now
  <2> QED
    BY <2>4, <2>5, <2>7 DEF Rest, now
<1>4. CASE ~Blank(line)
  <2>1. ScanByte(acc, b) = [done |-> acc.done, line |-> line]
    BY <1>4 DEF ScanByte, line
  <2>2. ScanByte(acc, b).done = acc.done /\ ScanByte(acc, b).line = line
    BY <2>1
  <2>3. Len(acc.line) >= n => Len(line) >= n
    BY <1>1
  <2> QED
    BY <2>2, <2>3 DEF Rest
<1> QED
  BY <1>3, <1>4

LEMMA RestOfStream ==
  ASSUME NEW s \in Seq(Bytes), NEW c \in 0..Len(s), NEW n \in Nat, Len(Scanned(s, c).line) >= n
  PROVE  /\ Scanned(s, c).done \in Seq(Seq(Bytes))
         /\ IsPrefix(Scanned(s, c).done, ByteByByte(s))
         /\ n > 0 => Len(ByteByByte(s)[Len(Scanned(s, c).done) + 1]) + 4 > n
<1> DEFINE done == Scanned(s, c).done
           line == Scanned(s, c).line
           F == {k \in c..Len(s) : ~Rest(Scanned(s, k), done, n)}
<1>1. Len(s) \in Nat /\ c \in Nat /\ c <= Len(s)
  BY LenProperties
<1>2. \A k \in 0..Len(s) : Scanned(s, k) \in ScanState
  BY ScanSteps
<1>3. done \in Seq(Seq(Bytes)) /\ line \in Seq(Bytes) /\ Len(done) \in Nat
  BY <1>2, LenProperties DEF ScanState
<1>4. Rest(Scanned(s, c), done, n)
  BY <1>3 DEF Rest, Begins
<1> HIDE DEF done, line
<1>5. ASSUME F # {} PROVE FALSE
  <2>1. PICK k \in F : \A i \in F : k <= i
    <3>1. F \subseteq Nat
      BY <1>1
    <3> HIDE DEF F
    <3> QED
      BY <1>5, <3>1, SmallestNumber
  <2>2. k \in c..Len(s) /\ k # c /\ ~Rest(Scanned(s, k), done, n)
    BY <1>4, <2>1
  <2>3. /\ k - 1 \in c..Len(s) /\ k - 1 \in 0..(Len(s) - 1) /\ k - 1 \in 0..Len(s)
        /\ (k - 1) + 1 = k /\ k \in 1..Len(s) /\ ~(k <= k - 1)
    BY <1>1, <2>2
  <2>4. Rest(Scanned(s, k - 1), done, n)
    BY <2>1, <2>3
  <2>5. Scanned(s, (k - 1) + 1) = ScanByte(Scanned(s, k - 1), s[(k - 1) + 1])
    BY <2>3, ScanSteps
  <2>6. s[k] \in Bytes
    BY <2>3, ElementOfSeq
  <2>7. Scanned(s, k - 1) \in ScanState
    BY <1>2, <2>3
  <2>8. Rest(ScanByte(Scanned(s, k - 1), s[k]), done, n)
    BY <1>3, <2>4, <2>6, <2>7, RestByte
  <2> QED
    BY <2>2, <2>3, <2>5, <2>8
<1> DEFINE last == Scanned(s, Len(s))
           all == ByteByByte(s)
<1>6. Rest(last, done, n)
  <2>1. Len(s) \in c..Len(s)
    BY <1>1
  <2> QED
    BY <1>5, <2>1
<1>7. last \in ScanState /\ all = IF last.line = <<>> THEN last.done ELSE Append(last.done, last.line)
  <2>1. Len(s) \in 0..Len(s)
    BY <1>1
  <2> QED
    BY <1>2, <2>1, ScanSteps
<1> HIDE DEF last, all
<1>8. /\ last.done \in Seq(Seq(Bytes)) /\ last.line \in Seq(Bytes) /\ Len(last.done) \in Nat
      /\ Len(last.line) \in Nat /\ Begins(done, last.done)
  BY <1>6, <1>7, LenProperties DEF ScanState, Rest
<1>9. CASE last.line = <<>>
  <2>1. all = last.done /\ Len(last.line) = 0
    BY <1>7, <1>9
  <2>2. n > 0 => Len(all[Len(done) + 1]) + 4 > n
    BY <1>6, <2>1 DEF Rest
  <2> QED
    BY <1>3, <1>8, <2>1, <2>2, BeginsIsPrefix DEF done, all
<1>10. CASE last.line # <<>>
  <2>1. all = Append(last.done, last.line)
    BY <1>7, <1>10
  <2>2. /\ all \in Seq(Seq(Bytes)) /\ Begins(done, all) /\ all[Len(last.done) + 1] = last.line
        /\ Len(last.done) > Len(done) => all[Len(done) + 1] = last.done[Len(done) + 1]
    BY <1>3, <1>8, <2>1, BeginsAppend
  <2>3. Len(all[Len(done) + 1]) + 4 > n
    <3>1. CASE Len(last.done) = Len(done) /\ Len(last.line) >= n
      BY <1>8, <2>2, <3>1
    <3>2. CASE Len(last.done) > Len(done) /\ Len(last.done[Len(done) + 1]) + 4 > n
      BY <2>2, <3>2
    <3> QED
      BY <1>6, <3>1, <3>2 DEF Rest
  <2> QED
    BY <1>3, <2>2, <2>3, BeginsIsPrefix DEF done, all
<1> QED
  BY <1>9, <1>10
-----------------------------------------------------------------------------
(***************************************************************************)
(* The scanner reads the stream from the place the reference has reached   *)
(* when it has just returned an event.                                     *)
(***************************************************************************)
\* The buffer begins c bytes into the stream, and what is to come follows it.
BufferAt(c) ==
  /\ Follows(written, c, data) /\ Follows(written, c + Len(data), toRead)
  /\ c + Len(data) + Len(toRead) = Len(written)
  /\ Scanned(written, c) = [done |-> events, line |-> <<>>]

RestToRead(e) == Follows(written, e, toRead) /\ e + Len(toRead) = Len(written)

EventInv ==
  /\ written \in ByteStreams /\ written \in Seq(Bytes) /\ Len(data) \in Nat /\ Len(data) <= BufferSize
  /\ scan \in {"reading", "ended", "tooLong"}
  /\ \E e \in Nat : RestToRead(e)
  /\ scan # "ended" => \E c \in Nat : BufferAt(c)
  /\ scan = "tooLong" => ~HasEvent(data) /\ Len(data) = BufferSize
  /\ scan = "ended" => events = ByteByByte(written)

LEMMA EventInitInv == EventInit => EventInv
<1> SUFFICES ASSUME EventInit PROVE EventInv
  OBVIOUS
<1>1. BufferSize \in Nat
  BY EventStreamAssumption
<1>2. written \in ByteStreams /\ toRead = written /\ data = <<>> /\ events = <<>> /\ scan = "reading"
  BY DEF EventInit
<1>3. written \in Seq(Bytes)
  <2>1. PICK n \in 0..MaxStreamLength : written \in [1..n -> {R, N, X}]
    BY <1>2 DEF ByteStreams
  <2>2. n \in Nat
    BY EventStreamAssumption
  <2> QED
    BY <2>1, <2>2 DEF Bytes
<1>4. Len(written) \in Nat /\ data \in Seq(Bytes) /\ Len(data) = 0
  BY <1>2, <1>3, LenProperties
<1>5. Follows(written, 0, written) /\ Follows(written, 0, data)
  BY <1>3, <1>4 DEF Follows
<1>6. RestToRead(0)
  BY <1>2, <1>4, <1>5 DEF RestToRead
<1>7. BufferAt(0)
  <2>1. Scanned(written, 0) = [done |-> <<>>, line |-> <<>>]
    BY <1>3, ScanSteps DEF NoBytes
  <2>2. 0 + Len(data) = 0 /\ 0 + Len(data) + Len(toRead) = Len(written)
    BY <1>2, <1>4
  <2> QED
    BY <1>2, <1>5, <2>1, <2>2 DEF BufferAt
<1> QED
  BY <1>1, <1>2, <1>3, <1>4, <1>6, <1>7 DEF EventInv

\* A part of bytes that are in the stream.
LEMMA FollowsPart ==
  ASSUME NEW s \in Seq(Bytes), NEW c \in Nat, NEW t, Follows(s, c, t), NEW i \in Nat, i <= Len(t)
  PROVE  /\ SubSeq(t, 1, i) \in Seq(Bytes) /\ Len(SubSeq(t, 1, i)) = i /\ Follows(s, c, SubSeq(t, 1, i))
         /\ SubSeq(t, i + 1, Len(t)) \in Seq(Bytes) /\ Len(SubSeq(t, i + 1, Len(t))) = Len(t) - i
         /\ Follows(s, c + i, SubSeq(t, i + 1, Len(t)))
<1> DEFINE u == SubSeq(t, 1, i)
           v == SubSeq(t, i + 1, Len(t))
<1>1. /\ t \in Seq(Bytes) /\ Len(t) \in Nat /\ Len(s) \in Nat /\ c + Len(t) <= Len(s)
      /\ \A k \in 1..Len(t) : s[c + k] = t[k]
  BY LenProperties DEF Follows
<1>2. u \in Seq(Bytes) /\ Len(u) = i /\ \A k \in 1..i : u[k] = t[k]
  <2>1. 1 \in 1..(Len(t) + 1) /\ i \in 0..Len(t) /\ 1 <= i + 1 /\ i - 1 + 1 = i
    BY <1>1
  <2>2. u \in Seq(Bytes) /\ Len(u) = i /\ \A k \in 1..i : u[k] = t[1 + k - 1]
    BY <1>1, <2>1, BytesOfSubSeq
  <2> HIDE DEF u
  <2>3. \A k \in 1..i : 1 + k - 1 = k
    OBVIOUS
  <2> QED
    BY <2>2, <2>3
<1>3. v \in Seq(Bytes) /\ Len(v) = Len(t) - i /\ \A k \in 1..(Len(t) - i) : v[k] = t[i + k]
  <2>1. /\ i + 1 \in 1..(Len(t) + 1) /\ Len(t) \in 0..Len(t) /\ i + 1 <= Len(t) + 1
        /\ Len(t) - (i + 1) + 1 = Len(t) - i
    BY <1>1
  <2>2. v \in Seq(Bytes) /\ Len(v) = Len(t) - i /\ \A k \in 1..(Len(t) - i) : v[k] = t[(i + 1) + k - 1]
    BY <1>1, <2>1, BytesOfSubSeq
  <2> HIDE DEF v
  <2>3. \A k \in 1..(Len(t) - i) : (i + 1) + k - 1 = i + k
    BY <1>1
  <2> QED
    BY <2>2, <2>3
<1> HIDE DEF u, v
<1>4. Follows(s, c, u)
  <2>1. c + i <= Len(s) /\ \A k \in 1..i : k \in 1..Len(t)
    BY <1>1
  <2> QED
    BY <1>1, <1>2, <2>1 DEF Follows
<1>5. Follows(s, c + i, v)
  <2>1. (c + i) + (Len(t) - i) <= Len(s)
    BY <1>1
  <2>2. \A k \in 1..(Len(t) - i) : i + k \in 1..Len(t) /\ c + (i + k) = (c + i) + k
    BY <1>1
  <2>3. \A k \in 1..(Len(t) - i) : s[(c + i) + k] = v[k]
    BY <1>1, <1>3, <2>2
  <2> QED
    BY <1>3, <2>1, <2>3 DEF Follows
<1> QED
  BY <1>2, <1>3, <1>4, <1>5 DEF u, v

LEMMA FollowsBoth ==
  ASSUME NEW s \in Seq(Bytes), NEW c \in Nat, NEW t, NEW u, Follows(s, c, t), Follows(s, c + Len(t), u)
  PROVE  t \o u \in Seq(Bytes) /\ Len(t \o u) = Len(t) + Len(u) /\ Follows(s, c, t \o u)
<1> DEFINE w == t \o u
<1>1. /\ t \in Seq(Bytes) /\ u \in Seq(Bytes) /\ Len(t) \in Nat /\ Len(u) \in Nat /\ Len(s) \in Nat
      /\ (c + Len(t)) + Len(u) <= Len(s)
      /\ \A k \in 1..Len(t) : s[c + k] = t[k]
      /\ \A k \in 1..Len(u) : s[(c + Len(t)) + k] = u[k]
  BY LenProperties DEF Follows
<1>2. /\ w \in Seq(Bytes) /\ Len(w) = Len(t) + Len(u)
      /\ \A k \in 1..(Len(t) + Len(u)) : w[k] = IF k <= Len(t) THEN t[k] ELSE u[k - Len(t)]
  BY <1>1, ConcatProperties
<1> HIDE DEF w
<1>3. ASSUME NEW k \in 1..(Len(t) + Len(u)) PROVE s[c + k] = w[k]
  <2>1. CASE k <= Len(t)
    <3>1. k \in 1..Len(t)
      BY <1>1, <2>1
    <3> QED
      BY <1>1, <1>2, <2>1, <3>1
  <2>2. CASE ~(k <= Len(t))
    <3>1. k - Len(t) \in 1..Len(u) /\ (c + Len(t)) + (k - Len(t)) = c + k
      BY <1>1, <2>2
    <3>2. s[(c + Len(t)) + (k - Len(t))] = u[k - Len(t)]
      BY <1>1, <3>1
    <3> QED
      BY <1>2, <2>2, <3>1, <3>2
  <2> QED
    BY <2>1, <2>2
<1>4. c + (Len(t) + Len(u)) <= Len(s)
  BY <1>1
<1> QED
  BY <1>2, <1>3, <1>4 DEF Follows, w

LEMMA SplitKeeps ==
  ASSUME EventInv, SplitEvent
  PROVE  EventInv'
<1> DEFINE d == FirstDelim(data)
           pos == Index(data, d)
           m == pos + Len(d) - 1
<1>1. /\ scan = "reading" /\ HasEvent(data)
      /\ events' = Append(events, SubSeq(data, 1, pos - 1))
      /\ data' = SubSeq(data, pos + Len(d), Len(data))
      /\ toRead' = toRead /\ written' = written /\ scan' = scan
  BY DEF SplitEvent
<1>2. /\ written \in ByteStreams /\ written \in Seq(Bytes) /\ Len(data) \in Nat /\ Len(data) <= BufferSize
      /\ BufferSize \in Nat
  BY EventStreamAssumption DEF EventInv
<1>3. PICK c \in Nat : BufferAt(c)
  BY <1>1 DEF EventInv
<1>4. /\ Follows(written, c, data) /\ Follows(written, c + Len(data), toRead)
      /\ c + Len(data) + Len(toRead) = Len(written) /\ data \in Seq(Bytes) /\ toRead \in Seq(Bytes)
      /\ Len(toRead) \in Nat /\ Len(written) \in Nat
      /\ Scanned(written, c).done = events /\ Scanned(written, c).line = <<>>
  BY <1>2, <1>3, LenProperties DEF BufferAt, Follows
<1>5. /\ pos \in Nat /\ m \in 1..Len(data) /\ pos + Len(d) = m + 1
      /\ Scanned(written, c + m) = [done |-> Append(events, SubSeq(data, 1, pos - 1)), line |-> <<>>]
  BY <1>1, <1>2, <1>4, ScanEvent
<1> HIDE DEF d, pos, m
<1>6. m \in Nat /\ m <= Len(data) /\ c + m \in Nat /\ (c + m) + (Len(data) - m) = c + Len(data)
  BY <1>2, <1>5
<1>7. data' = SubSeq(data, m + 1, Len(data))
  BY <1>1, <1>5 DEF pos, d
<1>8. data' \in Seq(Bytes) /\ Len(data') = Len(data) - m /\ Follows(written, c + m, data')
  BY <1>2, <1>4, <1>6, <1>7, FollowsPart
<1>9. PICK p \in Nat : p = c + m
  BY <1>6
<1>12. BufferAt(p)'
  <2>1. p + Len(data') = c + Len(data)
    BY <1>6, <1>8, <1>9
  <2>2. events' = Append(events, SubSeq(data, 1, pos - 1))
    BY <1>1 DEF pos, d
  <2>3. /\ Follows(written, p, data') /\ Follows(written, p + Len(data'), toRead)
        /\ p + Len(data') + Len(toRead) = Len(written)
        /\ Scanned(written, p) = [done |-> events', line |-> <<>>]
    BY <1>4, <1>5, <1>8, <1>9, <2>1, <2>2
  <2> QED
    BY <1>1, <2>3 DEF BufferAt
<1>10. Len(data') \in Nat /\ Len(data') <= BufferSize
  BY <1>2, <1>6, <1>8
<1>11. \E e \in Nat : RestToRead(e)'
  <2>1. PICK e \in Nat : RestToRead(e)
    BY DEF EventInv
  <2>2. RestToRead(e)'
    BY <1>1, <2>1 DEF RestToRead
  <2> QED
    BY <2>2
<1> QED
  BY <1>1, <1>2, <1>10, <1>11, <1>12 DEF EventInv

LEMMA ReadKeeps ==
  ASSUME EventInv, ReadChunk
  PROVE  EventInv'
<1>1. PICK n \in 1..Len(toRead) :
        /\ Len(data) + n <= BufferSize
        /\ data' = data \o SubSeq(toRead, 1, n) /\ toRead' = SubSeq(toRead, n + 1, Len(toRead))
  BY DEF ReadChunk
<1>2. scan = "reading" /\ written' = written /\ events' = events /\ scan' = scan
  BY DEF ReadChunk
<1>3. /\ written \in ByteStreams /\ written \in Seq(Bytes) /\ Len(data) \in Nat /\ Len(data) <= BufferSize
      /\ BufferSize \in Nat
  BY EventStreamAssumption DEF EventInv
<1>4. PICK c \in Nat : BufferAt(c)
  BY <1>2 DEF EventInv
<1>5. /\ Follows(written, c, data) /\ Follows(written, c + Len(data), toRead)
      /\ c + Len(data) + Len(toRead) = Len(written) /\ data \in Seq(Bytes) /\ toRead \in Seq(Bytes)
      /\ Len(toRead) \in Nat /\ Len(written) \in Nat
      /\ Scanned(written, c) = [done |-> events, line |-> <<>>]
  BY <1>3, <1>4, LenProperties DEF BufferAt, Follows
<1>6. n \in Nat /\ n <= Len(toRead) /\ c + Len(data) \in Nat
  BY <1>3, <1>5
<1> DEFINE u == SubSeq(toRead, 1, n)
<1>7. /\ u \in Seq(Bytes) /\ Len(u) = n /\ Follows(written, c + Len(data), u)
      /\ toRead' \in Seq(Bytes) /\ Len(toRead') = Len(toRead) - n
      /\ Follows(written, (c + Len(data)) + n, toRead')
  BY <1>1, <1>3, <1>5, <1>6, FollowsPart
<1>8. data' = data \o u
  BY <1>1
<1> HIDE DEF u
<1>9. Len(data') = Len(data) + n /\ Follows(written, c, data')
  <2>1. Len(data \o u) = Len(data) + Len(u) /\ Follows(written, c, data \o u)
    <3>1. written \in Seq(Bytes) /\ Follows(written, c, data) /\ Follows(written, c + Len(data), u)
      BY <1>3, <1>5, <1>7
    <3> QED
      BY <3>1, FollowsBoth, Zenon
  <2> QED
    BY <1>7, <1>8, <2>1
<1> DEFINE k == Len(data')
           l == Len(toRead')
<1>10. c + k = (c + Len(data)) + n /\ (c + k) + l = Len(written) /\ c + k \in Nat
  <2>1. k = Len(data) + n /\ l = Len(toRead) - n
    BY <1>7, <1>9
  <2> DEFINE a == Len(data)
             b == Len(toRead)
  <2>2. a \in Nat /\ b \in Nat /\ n \in Nat /\ n <= b /\ (c + a) + b = Len(written)
    BY <1>3, <1>5, <1>6
  <2>3. k = a + n /\ l = b - n
    BY <2>1
  <2> HIDE DEF k, l, a, b
  <2>4. c + k = (c + a) + n /\ (c + k) + l = (c + a) + b /\ c + k \in Nat
    BY <2>2, <2>3
  <2> QED
    BY <2>2, <2>4 DEF a, b
<1>11. BufferAt(c)'
  <2>1. BufferAt(c)' <=> /\ Follows(written', c, data') /\ Follows(written', c + Len(data'), toRead')
                         /\ c + Len(data') + Len(toRead') = Len(written')
                         /\ Scanned(written', c) = [done |-> events', line |-> <<>>]
    BY DEF BufferAt
  <2> QED
    BY <1>2, <1>5, <1>7, <1>9, <1>10, <2>1
<1>12. PICK e \in Nat : e = c + Len(data')
  BY <1>10
<1>15. RestToRead(e)'
  <2>1. Follows(written, e, toRead') /\ e + Len(toRead') = Len(written)
    BY <1>7, <1>10, <1>12
  <2> QED
    BY <1>2, <2>1 DEF RestToRead
<1>13. Len(data') \in Nat /\ Len(data') <= BufferSize
  BY <1>1, <1>3, <1>6, <1>9
<1>14. \E f \in Nat : RestToRead(f)'
  BY <1>15
<1> QED
  BY <1>2, <1>3, <1>11, <1>13, <1>14 DEF EventInv
-----------------------------------------------------------------------------
\* When the bytes hold no event, the reference has read them into its line.
LEMMA NoEventRead ==
  ASSUME NEW s \in Seq(Bytes), NEW c \in Nat, NEW t, Follows(s, c, t), Scanned(s, c).line = <<>>, ~HasEvent(t)
  PROVE  Scanned(s, c + Len(t)) = [done |-> Scanned(s, c).done, line |-> t]
<1> DEFINE m == Len(t)
<1>1. t \in Seq(Bytes) /\ m \in Nat
  BY LenProperties DEF Follows
<1>2. \A j \in 1..m : ~Blank(SubSeq(t, 1, j))
  BY <1>1, NoEventNoBlank
<1>3. SubSeq(t, 1, m) = t
  BY <1>1, SubSeqFull
<1> HIDE DEF m
<1>4. m \in 0..Len(t)
  BY <1>1 DEF m
<1>5. Scanned(s, c + m) = [done |-> Scanned(s, c).done, line |-> SubSeq(t, 1, m)]
  BY <1>2, <1>4, ScanLine
<1> QED
  BY <1>3, <1>5 DEF m

LEMMA EndKeeps ==
  ASSUME EventInv, StreamEnds
  PROVE  EventInv'
<1>1. /\ scan = "reading" /\ ~HasEvent(data) /\ toRead = <<>>
      /\ scan' = "ended" /\ data' = <<>>
      /\ events' = (IF data = <<>> THEN events ELSE Append(events, data))
      /\ toRead' = toRead /\ written' = written
  BY DEF StreamEnds
<1>2. written \in ByteStreams /\ written \in Seq(Bytes) /\ BufferSize \in Nat
  BY EventStreamAssumption DEF EventInv
<1>3. PICK c \in Nat : BufferAt(c)
  BY <1>1 DEF EventInv
<1>4. /\ Follows(written, c, data) /\ data \in Seq(Bytes) /\ Len(data) \in Nat
      /\ Scanned(written, c).done = events /\ Scanned(written, c).line = <<>>
      /\ c + Len(data) + Len(toRead) = Len(written)
  BY <1>3, LenProperties DEF BufferAt, Follows
<1>5. Len(written) = c + Len(data)
  <2>1. Len(toRead) = 0
    BY <1>1
  <2> QED
    BY <1>4, <2>1
<1>6. Scanned(written, c + Len(data)) = [done |-> events, line |-> data]
  <2>1. Scanned(written, c + Len(data)) = [done |-> Scanned(written, c).done, line |-> data]
    BY <1>1, <1>2, <1>4, NoEventRead
  <2> QED
    BY <1>4, <2>1
<1>7. ByteByByte(written) = IF data = <<>> THEN events ELSE Append(events, data)
  <2>1. Scanned(written, Len(written)).line = data /\ Scanned(written, Len(written)).done = events
    BY <1>5, <1>6
  <2> QED
    BY <1>2, <2>1, ScanSteps
<1>8. PICK e \in Nat : RestToRead(e)
  BY DEF EventInv
<1>9. RestToRead(e)'
  BY <1>1, <1>8 DEF RestToRead
<1>10. Len(data') = 0
  BY <1>1
<1> QED
  BY <1>1, <1>2, <1>7, <1>9, <1>10 DEF EventInv

LEMMA EventNextInv == EventInv /\ [EventNext]_eventVars => EventInv'
<1> SUFFICES ASSUME EventInv, [EventNext]_eventVars PROVE EventInv'
  OBVIOUS
<1>1. CASE SplitEvent
  BY <1>1, SplitKeeps
<1>2. CASE ReadChunk
  BY <1>2, ReadKeeps
<1>3. CASE EventTooLong
  <2>1. /\ scan = "reading" /\ ~HasEvent(data) /\ Len(data) = BufferSize /\ scan' = "tooLong"
        /\ toRead' = toRead /\ written' = written /\ data' = data /\ events' = events
    BY <1>3 DEF EventTooLong
  <2>2. PICK c \in Nat, e \in Nat : BufferAt(c) /\ RestToRead(e)
    BY <2>1 DEF EventInv
  <2>3. BufferAt(c)' /\ RestToRead(e)'
    BY <2>1, <2>2 DEF BufferAt, RestToRead
  <2>4. ~HasEvent(data')
    BY <2>1
  <2> QED
    BY <2>1, <2>3, <2>4 DEF EventInv
<1>4. CASE StreamEnds
  BY <1>4, EndKeeps
<1>5. CASE UNCHANGED eventVars
  <2>1. toRead' = toRead /\ written' = written /\ data' = data /\ events' = events /\ scan' = scan
    BY <1>5 DEF eventVars
  <2>2. PICK e \in Nat : RestToRead(e)
    BY DEF EventInv
  <2>3. RestToRead(e)'
    BY <2>1, <2>2 DEF RestToRead
  <2>4. scan # "ended" => \E c \in Nat : BufferAt(c)'
    <3>1. ASSUME scan # "ended" PROVE \E c \in Nat : BufferAt(c)'
      <4>1. PICK c \in Nat : BufferAt(c)
        BY <3>1 DEF EventInv
      <4>2. BufferAt(c)'
        BY <2>1, <4>1 DEF BufferAt
      <4> QED
        BY <4>2
    <3> QED
      BY <3>1
  <2>5. HasEvent(data') = HasEvent(data) /\ ByteByByte(written') = ByteByByte(written)
    BY <2>1
  <2> QED
    BY <2>1, <2>3, <2>4, <2>5 DEF EventInv
<1> QED
  BY <1>1, <1>2, <1>3, <1>4, <1>5 DEF EventNext

LEMMA EventInvAlways == EventSpec => []EventInv
<1> QED
  BY EventInitInv, EventNextInv, PTL DEF EventSpec

LEMMA EventInvTyped == EventInv => EventTypeOK
<1> SUFFICES ASSUME EventInv PROVE EventTypeOK
  OBVIOUS
<1>1. written \in Seq(Bytes) /\ Len(written) \in Nat
  BY LenProperties DEF EventInv
<1>2. PICK e \in Nat : RestToRead(e)
  BY DEF EventInv
<1>3. /\ toRead \in Seq(Bytes) /\ Len(toRead) \in Nat /\ e + Len(toRead) = Len(written)
      /\ \A k \in 1..Len(toRead) : written[e + k] = toRead[k]
  BY <1>2, LenProperties DEF RestToRead, Follows
<1>4. ASSUME NEW k \in 1..Len(toRead)
      PROVE  toRead[Len(toRead) - k + 1] = written[Len(written) - k + 1]
  <2> DEFINE i == (Len(toRead) - k) + 1
           a == Len(toRead)
           b == Len(written)
  <2>1. i \in 1..a /\ a - k + 1 = i /\ b - k + 1 = e + i
    <3>1. i = (a - k) + 1 /\ a \in Nat /\ b \in Nat /\ e + a = b /\ k \in 1..a
      BY <1>1, <1>3
    <3> HIDE DEF i, a, b
    <3> QED
      BY <3>1
  <2> HIDE DEF i
  <2> QED
    BY <1>3, <2>1
<1>5. IsSuffix(toRead, written)
  <2>1. Len(toRead) <= Len(written)
    BY <1>1, <1>3
  <2> QED
    BY <1>1, <1>3, <1>4, <2>1, SuffixIs
<1> QED
  BY <1>5 DEF EventTypeOK, EventInv

\* The buffer never outgrows its limit, and what has not arrived yet is the end
\* of the stream (scanner.go 13-26).
THEOREM EventStreamTypeOK == EventSpec => []EventTypeOK
<1> QED
  BY EventInvTyped, EventInvAlways, PTL

\* For every limit of the buffer and every stream, however the network cuts it:
\* the scanner returns the events of the stream in their order, all of them when
\* it reaches the end, and when it gives up the next event would not have fitted
\* with its delimiter (scanner.go 28-60).
THEOREM EventsOfStream == EventSpec => []EventsOfAnyChunking
<1>1. EventInv => EventsOfAnyChunking
  <2> SUFFICES ASSUME EventInv PROVE EventsOfAnyChunking
    OBVIOUS
  <2> DEFINE all == ByteByByte(written)
  <2>1. written \in Seq(Bytes) /\ Len(written) \in Nat
    BY LenProperties DEF EventInv
  <2>2. scan = "ended" => events = all
    BY DEF EventInv
  <2>3. ASSUME scan \in {"reading", "tooLong"}
        PROVE  IsPrefix(events, all) /\ (scan = "tooLong" => Len(all[Len(events) + 1]) + 4 > BufferSize)
    <3>1. PICK c \in Nat : BufferAt(c)
      BY <2>3 DEF EventInv
    <3>2. /\ Follows(written, c, data) /\ data \in Seq(Bytes) /\ Len(data) \in Nat /\ c + Len(data) <= Len(written)
          /\ Scanned(written, c).done = events /\ Scanned(written, c).line = <<>>
      BY <3>1, LenProperties DEF BufferAt, Follows
    <3>3. c \in 0..Len(written) /\ Len(<<>>) >= 0
      BY <2>1, <3>2
    <3>4. IsPrefix(events, all)
      <4>1. Len(Scanned(written, c).line) >= 0
        BY <3>2, <3>3
      <4> QED
        BY <2>1, <3>2, <3>3, <4>1, RestOfStream
    <3>5. ASSUME scan = "tooLong" PROVE Len(all[Len(events) + 1]) + 4 > BufferSize
      <4>1. ~HasEvent(data) /\ Len(data) = BufferSize /\ BufferSize \in Nat /\ BufferSize > 0
        BY <3>5, EventStreamAssumption DEF EventInv
      <4> DEFINE e == c + Len(data)
      <4>2. e \in 0..Len(written)
        BY <2>1, <3>2
      <4>3. Scanned(written, e) = [done |-> events, line |-> data]
        <5>1. Scanned(written, e) = [done |-> Scanned(written, c).done, line |-> data]
          BY <2>1, <3>2, <4>1, NoEventRead
        <5> QED
          BY <3>2, <5>1
      <4> HIDE DEF e
      <4>4. Scanned(written, e).done = events /\ Len(Scanned(written, e).line) >= BufferSize
        BY <4>1, <4>3
      <4> QED
        BY <2>1, <4>1, <4>2, <4>4, RestOfStream
    <3> QED
      BY <3>4, <3>5
  <2> HIDE DEF all
  <2>4. scan = "tooLong" => Len(all[Len(events) + 1]) + 4 > BufferSize
    BY <2>3
  <2>5. scan \in {"reading", "tooLong"} => IsPrefix(events, all)
    BY <2>3
  <2> QED
    BY <2>2, <2>4, <2>5 DEF EventsOfAnyChunking, all
<1> QED
  BY <1>1, EventInvAlways, PTL
-----------------------------------------------------------------------------
(***************************************************************************)
(* The types of the handlers' variables (HTTPHandlers).  A request that    *)
(* looks a model up stays at that step, and has the record it looks at.    *)
(***************************************************************************)
HttpTypeInv ==
  /\ HttpTypeOK
  /\ step = [r \in Requests |-> step[r]]
  /\ \A r \in Requests :
       /\ lookup[r] # "none" => At(r, "available")
       /\ lookup[r] \in {"asked", "got", "activated"} => model[r] \in ModelRecord

\* What the handlers' steps look like.
LEMMA StepsOfHandlers ==
  ASSUME NEW h \in Handlers
  PROVE  /\ Len(h) \in Nat
         /\ \A k \in 1..Len(h) : h[k].codes \subseteq Codes
<1> USE DEF Step, Intercept, Limit, Check, Available, Send, StatusStep, Count, Relay, Codes
<1>1. CASE h = CreateChatCompletion
  <2>1. /\ Len(h) = 9
        /\ h[1].codes \subseteq Codes /\ h[2].codes \subseteq Codes /\ h[3].codes \subseteq Codes
        /\ h[4].codes \subseteq Codes /\ h[5].codes \subseteq Codes /\ h[6].codes \subseteq Codes
        /\ h[7].codes \subseteq Codes /\ h[8].codes \subseteq Codes /\ h[9].codes \subseteq Codes
    BY <1>1 DEF CreateChatCompletion
  <2>2. 1..9 = {1, 2, 3, 4, 5, 6, 7, 8, 9}
    OBVIOUS
  <2> QED
    BY <2>1, <2>2
<1>2. CASE h \in {CreateCompletion, CreateEmbedding, CreateModelResponse}
  <2>1. /\ Len(h) = 8
        /\ h[1].codes \subseteq Codes /\ h[2].codes \subseteq Codes /\ h[3].codes \subseteq Codes
        /\ h[4].codes \subseteq Codes /\ h[5].codes \subseteq Codes /\ h[6].codes \subseteq Codes
        /\ h[7].codes \subseteq Codes /\ h[8].codes \subseteq Codes
    BY <1>2 DEF CreateCompletion, CreateEmbedding, CreateModelResponse
  <2>2. 1..8 = {1, 2, 3, 4, 5, 6, 7, 8}
    OBVIOUS
  <2> QED
    BY <2>1, <2>2
<1>3. CASE h = CreateAudioTranscription
  BY <1>3 DEF CreateAudioTranscription
<1>4. CASE h = Tokenize
  BY <1>4 DEF Tokenize
<1> QED
  BY <1>1, <1>2, <1>3, <1>4 DEF Handlers

LEMMA InitHttpTypes == HttpInit => HttpTypeInv
<1> SUFFICES ASSUME HttpInit PROVE HttpTypeInv
  OBVIOUS
<1>1. route \in [Requests -> Handlers] /\ \A r \in Requests : Len(route[r]) \in Nat
  BY StepsOfHandlers DEF HttpInit
<1>2. \A r \in Requests : step[r] \in 1..(Len(route[r]) + 1)
  BY <1>1 DEF HttpInit
<1>3. activation0 \in ModelRecord /\ activatedAt \in 0..MaxModelChanges
  BY HttpAssumption DEF HttpInit, ModelRecord
<1>4. HttpTypeOK
  BY <1>1, <1>2, <1>3 DEF HttpInit, HttpTypeOK, ModelRecord, Codes
<1> QED
  BY <1>4 DEF HttpTypeInv, HttpInit

\* A request at a step goes on to the next one, or returns from it.
LEMMA RequestMoves ==
  ASSUME HttpTypeInv, NEW r \in Requests, ~Done(r), UNCHANGED route,
         GoOn(r) \/ \E c : Return(r, c)
  PROVE  /\ step' = [q \in Requests |-> step'[q]]
         /\ \A q \in Requests : step'[q] \in 1..(Len(route'[q]) + 1)
         /\ \A q \in Requests \ {r} : \A n \in {"available"} : At(q, n) => At(q, n)'
         /\ \A c \in Codes \cup {0} :
              Return(r, c) => usage' \in [Requests -> Codes \cup {0}] /\ gauge' \subseteq Requests
<1>1. Len(route[r]) \in Nat /\ step[r] \in 1..(Len(route[r]) + 1) /\ step[r] <= Len(route[r])
  BY StepsOfHandlers DEF HttpTypeInv, HttpTypeOK, Done
<1>2. step[r] + 1 \in 1..(Len(route[r]) + 1) /\ Len(route[r]) + 1 \in 1..(Len(route[r]) + 1)
  BY <1>1
<1>3. PICK n \in 1..(Len(route[r]) + 1) : step' = [step EXCEPT ![r] = n]
  BY <1>2 DEF GoOn, Return
<1>4. /\ step' = [q \in Requests |-> step'[q]]
      /\ \A q \in Requests : step'[q] = IF q = r THEN n ELSE step[q]
  BY <1>3 DEF HttpTypeInv
<1>5. \A q \in Requests : step'[q] \in 1..(Len(route'[q]) + 1)
  BY <1>3, <1>4 DEF HttpTypeInv, HttpTypeOK
<1>6. \A q \in Requests \ {r} : At(q, "available") => At(q, "available")'
  BY <1>4 DEF At, Done
<1>7. ASSUME NEW c \in Codes \cup {0}, Return(r, c)
      PROVE  usage' \in [Requests -> Codes \cup {0}] /\ gauge' \subseteq Requests
  BY <1>7 DEF Return, HttpTypeInv, HttpTypeOK
<1> QED
  BY <1>4, <1>5, <1>6, <1>7

LEMMA ErrorIsTyped ==
  ASSUME HttpTypeInv, NEW r \in Requests, NEW c \in Codes, HttpError(r, c)
  PROVE  reply' \in [Requests -> Codes \cup {0}]
BY DEF HttpError, HttpTypeInv, HttpTypeOK

\* The steps that leave the cache alone.
LEMMA PlainStepTypes ==
  ASSUME HttpTypeInv, NEW r \in Requests,
         \/ InterceptHTTPRequest(r) \/ Simple(r) \/ LimiterFails(r) \/ UpdateRequest(r)
         \/ IsNimModel(r) \/ SendTask(r) \/ CheckStatus(r) \/ RelayBody(r)
  PROVE  HttpTypeInv'
<1>1. /\ UNCHANGED <<route, cacheVars>>
      /\ \E n \in {"limit", "check", "rag", "intercept", "count", "available", "send", "status", "relay"} :
           At(r, n) /\ (n = "available" => lookup[r] = "none")
  BY DEF InterceptHTTPRequest, Simple, LimiterFails, UpdateRequest, IsNimModel, SendTask,
         CheckStatus, RelayBody, HttpError
<1>2. ~Done(r) /\ lookup[r] = "none"
  BY <1>1 DEF HttpTypeInv, At
<1>3. route[r][step[r]].codes \subseteq Codes /\ {200, 500} \subseteq Codes
  <2>1. route[r] \in Handlers /\ step[r] \in 1..Len(route[r])
    <3>1. Len(route[r]) \in Nat /\ step[r] \in 1..(Len(route[r]) + 1) /\ route[r] \in Handlers
      BY StepsOfHandlers DEF HttpTypeInv, HttpTypeOK
    <3> QED
      BY <1>2, <3>1 DEF Done
  <2> QED
    BY <2>1, StepsOfHandlers DEF Codes
<1>4. PICK c \in Codes \cup {0} :
        /\ \/ GoOn(r) /\ UNCHANGED usage /\ gauge' \in {gauge, gauge \cup {r}}
           \/ Return(r, c)
        /\ reply' \in [Requests -> Codes \cup {0}]
        /\ body' \in [Requests -> {"none", "whole", "cut", "cutAndError"}]
        /\ gaveTask' \subseteq Requests
  <2> DEFINE W(c) == /\ \/ GoOn(r) /\ UNCHANGED usage /\ gauge' \in {gauge, gauge \cup {r}}
                        \/ Return(r, c)
                     /\ reply' \in [Requests -> Codes \cup {0}]
                     /\ body' \in [Requests -> {"none", "whole", "cut", "cutAndError"}]
                     /\ gaveTask' \subseteq Requests
  <2> SUFFICES \E c \in Codes \cup {0} : W(c)
    OBVIOUS
  <2>0. /\ reply \in [Requests -> Codes \cup {0}] /\ gaveTask \subseteq Requests
        /\ body \in [Requests -> {"none", "whole", "cut", "cutAndError"}]
        /\ 200 \in Codes /\ 500 \in Codes /\ 0 \in Codes \cup {0}
    BY <1>3 DEF HttpTypeInv, HttpTypeOK
  <2>1. CASE InterceptHTTPRequest(r)
    <3>1. CASE GoOn(r) /\ UNCHANGED <<route, reply, usage, body, gauge, gaveTask>>
      BY <2>0, <3>1
    <3>2. CASE \E c \in route[r][step[r]].codes :
                 /\ Return(r, 0) /\ reply' = [reply EXCEPT ![r] = c]
                 /\ UNCHANGED <<route, body, gaveTask>>
      BY <1>3, <2>0, <3>2
    <3> QED
      BY <2>1, <3>1, <3>2 DEF InterceptHTTPRequest
  <2>2. ASSUME NEW c \in route[r][step[r]].codes, HttpError(r, c), body' \in {body, [body EXCEPT ![r] = "cutAndError"]}
        PROVE  \E d \in Codes \cup {0} : W(d)
    <3>1. c \in Codes /\ Return(r, c) /\ UNCHANGED gaveTask
      BY <1>3, <2>2 DEF HttpError
    <3>2. reply' \in [Requests -> Codes \cup {0}]
      BY <2>2, <3>1, ErrorIsTyped
    <3>3. W(c)
      BY <2>0, <2>2, <3>1, <3>2
    <3> QED
      BY <3>1, <3>3
  <2>3. CASE Simple(r)
    <3>1. CASE GoOn(r) /\ UNCHANGED <<route, reply, usage, body, gauge, gaveTask>>
      BY <2>0, <3>1
    <3> QED
      BY <2>2, <2>3, <3>1 DEF Simple
  <2>4. CASE LimiterFails(r)
    BY <2>0, <2>4 DEF LimiterFails
  <2>5. CASE UpdateRequest(r)
    BY <2>0, <2>5 DEF UpdateRequest
  <2>6. CASE IsNimModel(r)
    BY <2>0, <2>6 DEF IsNimModel
  <2>7. CASE SendTask(r)
    <3>1. CASE GoOn(r) /\ gaveTask' = gaveTask \cup {r} /\ UNCHANGED <<route, reply, usage, body, gauge>>
      BY <2>0, <3>1
    <3> QED
      BY <2>2, <2>7, <3>1 DEF SendTask
  <2>8. CASE CheckStatus(r)
    <3>1. CASE GoOn(r) /\ reply' = [reply EXCEPT ![r] = 200] /\ UNCHANGED <<route, usage, body, gauge, gaveTask>>
      BY <2>0, <3>1
    <3> QED
      BY <2>2, <2>8, <3>1 DEF CheckStatus
  <2>9. CASE RelayBody(r)
    <3>1. CASE /\ \E b \in {"whole", "cut"} : body' = [body EXCEPT ![r] = b]
               /\ Return(r, 200) /\ UNCHANGED <<route, reply, gaveTask>>
      BY <2>0, <3>1
    <3>2. CASE /\ body' = [body EXCEPT ![r] = "cutAndError"]
               /\ \E c \in route[r][step[r]].codes : HttpError(r, c)
      BY <2>2, <3>2
    <3> QED
      BY <2>9, <3>1, <3>2 DEF RelayBody
  <2> QED
    BY <2>1, <2>3, <2>4, <2>5, <2>6, <2>7, <2>8, <2>9
<1>5. /\ step' = [q \in Requests |-> step'[q]]
      /\ \A q \in Requests : step'[q] \in 1..(Len(route'[q]) + 1)
      /\ \A q \in Requests \ {r} : At(q, "available") => At(q, "available")'
      /\ Return(r, c) => usage' \in [Requests -> Codes \cup {0}] /\ gauge' \subseteq Requests
  BY <1>1, <1>2, <1>4, RequestMoves
<1>6. usage' \in [Requests -> Codes \cup {0}] /\ gauge' \subseteq Requests
  BY <1>4, <1>5 DEF HttpTypeInv, HttpTypeOK
<1>7. HttpTypeOK'
  BY <1>1, <1>4, <1>5, <1>6 DEF HttpTypeInv, HttpTypeOK, cacheVars
<1>8. \A q \in Requests : /\ lookup'[q] # "none" => At(q, "available")'
                          /\ lookup'[q] \in {"asked", "got", "activated"} => model'[q] \in ModelRecord
  BY <1>1, <1>2, <1>5 DEF HttpTypeInv, cacheVars
<1> QED
  BY <1>5, <1>7, <1>8 DEF HttpTypeInv

\* Looking a model up, and what is learned from it.
LEMMA LookupTypes ==
  ASSUME HttpTypeInv, NEW r \in Requests,
         \/ GetModel(r) \/ ModelManagerAnswers(r) \/ AddModelToCache(r)
         \/ CheckModelAvailability(r) \/ ActivateModel(r) \/ RemoveModelFromCache(r)
  PROVE  HttpTypeInv'
<1>1. At(r, "available") /\ ~Done(r)
  BY DEF GetModel, ModelManagerAnswers, AddModelToCache, CheckModelAvailability, ActivateModel,
         RemoveModelFromCache, HttpTypeInv, At
<1>2. {400, 500} \subseteq Codes /\ Codes \subseteq Codes \cup {0}
  BY DEF Codes
<1>3. ASSUME UNCHANGED <<route, body, gaveTask>>,
             \/ UNCHANGED <<step, reply, usage, gauge>>
             \/ GoOn(r) /\ UNCHANGED <<reply, usage, gauge>>
             \/ \E c \in {400, 500} : HttpError(r, c),
             UNCHANGED step \/ lookup'[r] = "none",
             \A q \in Requests \ {r} : lookup'[q] = lookup[q] /\ model'[q] = model[q],
             lookup'[r] \in {"asked", "got", "activated"} => model'[r] \in ModelRecord,
             lookup' \in [Requests -> {"none", "asking", "asked", "got", "activated"}],
             lookup'[r] # "none" => lookup[r] # "none" \/ UNCHANGED step,
             model' \in [Requests -> ModelRecord \cup {NoEntry}],
             modelCache' \in ModelRecord \cup {NoEntry}, cacheLock' \in Requests \cup {NoRequest},
             activation0' \in ModelRecord, activatedAt' \in 0..MaxModelChanges
      PROVE  HttpTypeInv'
  <2>1. CASE UNCHANGED <<step, reply, usage, gauge>>
    <3>1. HttpTypeOK'
      BY <1>3, <2>1 DEF HttpTypeInv, HttpTypeOK
    <3>2. \A q \in Requests : At(q, "available")' <=> At(q, "available")
      BY <1>3, <2>1 DEF At, Done
    <3>3. \A q \in Requests : /\ lookup'[q] # "none" => At(q, "available")'
                              /\ lookup'[q] \in {"asked", "got", "activated"} => model'[q] \in ModelRecord
      BY <1>1, <1>3, <3>2 DEF HttpTypeInv
    <3> QED
      BY <2>1, <3>1, <3>3 DEF HttpTypeInv
  <2>2. ASSUME \/ GoOn(r) /\ UNCHANGED <<reply, usage, gauge>>
               \/ \E c \in {400, 500} : HttpError(r, c),
               lookup'[r] = "none"
        PROVE  HttpTypeInv'
    <3>1. PICK c \in Codes \cup {0} : /\ \/ GoOn(r) /\ UNCHANGED <<usage, gauge>>
                                        \/ Return(r, c)
                                     /\ reply' \in [Requests -> Codes \cup {0}]
      <4>1. CASE GoOn(r) /\ UNCHANGED <<reply, usage, gauge>>
        BY <1>2, <4>1 DEF HttpTypeInv, HttpTypeOK
      <4>2. ASSUME NEW c \in {400, 500}, HttpError(r, c)
            PROVE  c \in Codes \cup {0} /\ Return(r, c) /\ reply' \in [Requests -> Codes \cup {0}]
        <5>1. c \in Codes /\ c \in Codes \cup {0}
          BY <1>2
        <5>2. reply' \in [Requests -> Codes \cup {0}]
          BY <4>2, <5>1, ErrorIsTyped
        <5> QED
          BY <4>2, <5>1, <5>2 DEF HttpError
      <4> QED
        BY <2>2, <4>1, <4>2
    <3>2. /\ step' = [q \in Requests |-> step'[q]]
          /\ \A q \in Requests : step'[q] \in 1..(Len(route'[q]) + 1)
          /\ \A q \in Requests \ {r} : At(q, "available") => At(q, "available")'
          /\ Return(r, c) => usage' \in [Requests -> Codes \cup {0}] /\ gauge' \subseteq Requests
      BY <1>1, <1>3, <3>1, RequestMoves
    <3>3. usage' \in [Requests -> Codes \cup {0}] /\ gauge' \subseteq Requests
      BY <3>1, <3>2 DEF HttpTypeInv, HttpTypeOK
    <3>4. HttpTypeOK'
      BY <1>3, <3>1, <3>2, <3>3 DEF HttpTypeInv, HttpTypeOK
    <3>5. \A q \in Requests : /\ lookup'[q] # "none" => At(q, "available")'
                              /\ lookup'[q] \in {"asked", "got", "activated"} => model'[q] \in ModelRecord
      BY <1>3, <2>2, <3>2 DEF HttpTypeInv
    <3> QED
      BY <3>2, <3>4, <3>5 DEF HttpTypeInv
  <2>3. CASE UNCHANGED step
    <3>1. GoOn(r) \/ (\E c \in {400, 500} : HttpError(r, c)) => step'[r] # step[r]
      <4>1. Len(route[r]) \in Nat /\ step[r] \in Nat /\ step[r] <= Len(route[r]) /\ r \in DOMAIN step
        BY <1>1, StepsOfHandlers DEF HttpTypeInv, HttpTypeOK, Done
      <4> QED
        BY <4>1 DEF GoOn, HttpError, Return
    <3> QED
      BY <1>3, <2>1, <2>3, <3>1
  <2> QED
    BY <1>3, <2>1, <2>2, <2>3
<1>4. /\ lookup \in [Requests -> {"none", "asking", "asked", "got", "activated"}]
      /\ model \in [Requests -> ModelRecord \cup {NoEntry}]
      /\ lookup[r] \in {"asked", "got", "activated"} => model[r] \in ModelRecord
      /\ modelCache \in ModelRecord \cup {NoEntry} /\ cacheLock \in Requests \cup {NoRequest}
      /\ activation0 \in ModelRecord /\ activatedAt \in 0..MaxModelChanges
  BY DEF HttpTypeInv, HttpTypeOK
<1> USE DEF requestVars
<1>5. CASE GetModel(r)
  BY <1>1, <1>3, <1>4, <1>5 DEF GetModel
<1>6. CASE ModelManagerAnswers(r)
  <2>1. CASE /\ lookup' = [lookup EXCEPT ![r] = "asked"] /\ model' = [model EXCEPT ![r] = activation0]
             /\ UNCHANGED <<requestVars, cacheLock>>
    BY <1>3, <1>4, <1>6, <2>1 DEF ModelManagerAnswers
  <2>2. CASE /\ \E c \in {400, 500} : HttpError(r, c)
             /\ lookup' = [lookup EXCEPT ![r] = "none"] /\ cacheLock' = NoRequest
             /\ UNCHANGED <<body, model>>
    <3>1. UNCHANGED <<route, gaveTask>>
      BY <2>2 DEF HttpError
    <3> QED
      BY <1>3, <1>4, <1>6, <2>2, <3>1 DEF ModelManagerAnswers
  <2> QED
    BY <1>6, <2>1, <2>2 DEF ModelManagerAnswers
<1>7. CASE AddModelToCache(r)
  BY <1>3, <1>4, <1>7 DEF AddModelToCache
<1>8. CASE CheckModelAvailability(r)
  <2>1. UNCHANGED <<route, gaveTask>>
    BY <1>8 DEF CheckModelAvailability, HttpError
  <2>2. lookup' = [lookup EXCEPT ![r] = "none"] /\ model' = [model EXCEPT ![r] = NoEntry]
    BY <1>8 DEF CheckModelAvailability, Forgets
  <2> QED
    BY <1>3, <1>4, <1>8, <2>1, <2>2 DEF CheckModelAvailability
<1>9. CASE ActivateModel(r)
  <2>1. CASE /\ activation0.version < MaxModelChanges
             /\ activation0' = [activation0 EXCEPT !.version = @ + 1, !.active = TRUE]
             /\ lookup' = [lookup EXCEPT ![r] = "activated"]
             /\ model' = [model EXCEPT ![r] = activation0']
             /\ UNCHANGED <<route, step, reply, usage, gauge, gaveTask>>
    <3>1. activation0' \in ModelRecord
      BY <1>4, <2>1, NextVersion
    <3> QED
      BY <1>3, <1>4, <1>9, <2>1, <3>1 DEF ActivateModel
  <2>2. CASE HttpError(r, 500) /\ Forgets(r) /\ UNCHANGED activation0
    <3>1. UNCHANGED <<route, gaveTask>>
      BY <2>2 DEF HttpError
    <3>2. lookup' = [lookup EXCEPT ![r] = "none"] /\ model' = [model EXCEPT ![r] = NoEntry]
      BY <2>2 DEF Forgets
    <3> QED
      BY <1>3, <1>4, <1>9, <2>2, <3>1, <3>2 DEF ActivateModel
  <2> QED
    BY <1>9, <2>1, <2>2 DEF ActivateModel
<1>10. CASE RemoveModelFromCache(r)
  <2>1. activatedAt' \in 0..MaxModelChanges
    BY <1>4, <1>10 DEF RemoveModelFromCache, ModelRecord
  <2>2. lookup' = [lookup EXCEPT ![r] = "none"] /\ model' = [model EXCEPT ![r] = NoEntry]
    BY <1>10 DEF RemoveModelFromCache, Forgets
  <2> QED
    BY <1>3, <1>4, <1>10, <2>1, <2>2 DEF RemoveModelFromCache
<1> QED
  BY <1>5, <1>6, <1>7, <1>8, <1>9, <1>10

LEMMA HttpTypeStep == HttpTypeInv /\ [HttpNext]_httpVars => HttpTypeInv'
<1> SUFFICES ASSUME HttpTypeInv, [HttpNext]_httpVars PROVE HttpTypeInv'
  OBVIOUS
<1>1. CASE ModelChanges
  <2>1. activation0' \in ModelRecord
    <3>1. activation0 \in ModelRecord
      BY DEF HttpTypeInv, HttpTypeOK
    <3>2. activation0.active \in BOOLEAN
      BY <3>1 DEF ModelRecord
    <3> QED
      BY <1>1, <3>1, <3>2, NextVersion DEF ModelChanges
  <2>2. \A r \in Requests : At(r, "available")' <=> At(r, "available")
    BY <1>1 DEF ModelChanges, requestVars, At, Done
  <2> QED
    BY <1>1, <2>1, <2>2 DEF ModelChanges, requestVars, HttpTypeInv, HttpTypeOK
<1>2. CASE UNCHANGED httpVars
  <2>1. \A r \in Requests : At(r, "available")' <=> At(r, "available")
    BY <1>2 DEF httpVars, requestVars, At, Done
  <2> QED
    BY <1>2, <2>1 DEF httpVars, requestVars, cacheVars, HttpTypeInv, HttpTypeOK
<1>3. ASSUME NEW r \in Requests, Serves(r) PROVE HttpTypeInv'
  BY <1>3, PlainStepTypes, LookupTypes DEF Serves
<1> QED
  BY <1>1, <1>2, <1>3 DEF HttpNext
-----------------------------------------------------------------------------
(***************************************************************************)
(* The account of a request (HTTPHandlers).  Until its handler returns it  *)
(* has no usage record and no body, its status is written just before the  *)
(* body is relayed, and its task is given away just before the status; who *)
(* holds the mutex of the cache is looking a model up.                     *)
(***************************************************************************)
Underway(r) ==
  /\ usage[r] = 0 /\ body[r] = "none"
  /\ reply[r] = IF At(r, "relay") THEN 200 ELSE 0
  /\ r \in gaveTask => At(r, "status") \/ At(r, "relay")

AccountOf(r) == IF Done(r) THEN r \notin gauge /\ RecordIsTrue(r) ELSE Underway(r)

LockOfLookup == \A r \in Requests : cacheLock = r => lookup[r] \in {"asking", "asked"}

AccountInv == LockOfLookup /\ \A r \in Requests : AccountOf(r)

\* A handler ends with the task, its status and its body, in this order.
Ends(h) ==
  \A k \in 1..Len(h) :
    /\ h[k].name # "relay" =>
         /\ k + 1 \in 1..Len(h)
         /\ h[k + 1].name = "relay" <=> h[k].name = "status"
         /\ h[k + 1].name = "status" <=> h[k].name = "send"
    /\ h[k].name = "relay" => h[k].codes = {500}
    /\ h[k].name = "intercept" => h[k].codes = {401, 500}

LEMMA EndsOfHandlers ==
  ASSUME NEW h \in Handlers
  PROVE  Ends(h) /\ Len(h) \in Nat /\ Len(h) >= 1 /\ h[1].name = "intercept"
<1> USE DEF Step, Intercept, Limit, Check, Available, Send, StatusStep, Count, Relay
<1>1. CASE h = CreateChatCompletion
  <2>1. /\ Len(h) = 9
        /\ h[1] = Intercept /\ h[2] = Limit /\ h[3] = Check /\ h[4] = Count /\ h[5] = Available
        /\ h[6].name = "rag" /\ h[7] = Send /\ h[8] = StatusStep /\ h[9] = Relay
    BY <1>1 DEF CreateChatCompletion
  <2>2. 1..9 = {1, 2, 3, 4, 5, 6, 7, 8, 9}
    OBVIOUS
  <2> QED
    BY <2>1, <2>2 DEF Ends
<1>2. CASE h \in {CreateCompletion, CreateEmbedding, CreateModelResponse}
  <2>1. h = CreateCompletion
    BY <1>2 DEF CreateCompletion, CreateEmbedding, CreateModelResponse
  <2>2. /\ Len(h) = 8
        /\ h[1] = Intercept /\ h[2] = Limit /\ h[3] = Check /\ h[4] = Count /\ h[5] = Available
        /\ h[6] = Send /\ h[7] = StatusStep /\ h[8] = Relay
    BY <2>1 DEF CreateCompletion
  <2>3. 1..8 = {1, 2, 3, 4, 5, 6, 7, 8}
    OBVIOUS
  <2> QED
    BY <2>2, <2>3 DEF Ends
<1>3. CASE h = CreateAudioTranscription
  <2>1. /\ Len(h) = 7
        /\ h[1] = Intercept /\ h[2].name = "check" /\ h[3] = Count /\ h[4] = Available
        /\ h[5] = Send /\ h[6] = StatusStep /\ h[7] = Relay
    BY <1>3 DEF CreateAudioTranscription
  <2>2. 1..7 = {1, 2, 3, 4, 5, 6, 7}
    OBVIOUS
  <2> QED
    BY <2>1, <2>2 DEF Ends
<1>4. CASE h = Tokenize
  <2>1. /\ Len(h) = 7
        /\ h[1] = Intercept /\ h[2] = Limit /\ h[3] = Check /\ h[4] = Available
        /\ h[5] = Send /\ h[6] = StatusStep /\ h[7] = Relay
    BY <1>4 DEF Tokenize
  <2>2. 1..7 = {1, 2, 3, 4, 5, 6, 7}
    OBVIOUS
  <2> QED
    BY <2>1, <2>2 DEF Ends
<1> QED
  BY <1>1, <1>2, <1>3, <1>4 DEF Handlers

\* Where a request is after a step of its handler.
LEMMA Moved ==
  ASSUME HttpTypeInv, NEW r \in Requests, ~Done(r), UNCHANGED route
  PROVE  /\ step[r] \in 1..Len(route[r]) /\ route[r] \in Handlers
         /\ GoOn(r) /\ ~At(r, "relay") =>
              /\ ~Done(r)'
              /\ At(r, "relay")' <=> At(r, "status")
              /\ At(r, "status")' <=> At(r, "send")
         /\ \A c : Return(r, c) =>
              /\ Done(r)' /\ r \notin gauge' /\ usage'[r] = c
              /\ \A q \in Requests \ {r} : usage'[q] = usage[q] /\ (q \in gauge' <=> q \in gauge)
         /\ GoOn(r) \/ (\E c : Return(r, c)) =>
              \A q \in Requests \ {r} : step'[q] = step[q]
<1>1. Len(route[r]) \in Nat /\ step[r] \in 1..(Len(route[r]) + 1) /\ step[r] <= Len(route[r])
      /\ route[r] \in Handlers
  BY StepsOfHandlers DEF HttpTypeInv, HttpTypeOK, Done
<1>2. step[r] \in 1..Len(route[r])
  BY <1>1
<1>3. Ends(route[r])
  BY <1>1, EndsOfHandlers
<1>4. \A n : step' = [step EXCEPT ![r] = n] =>
        step'[r] = n /\ \A q \in Requests \ {r} : step'[q] = step[q]
  BY DEF HttpTypeInv
<1>5. ASSUME GoOn(r), ~At(r, "relay")
      PROVE  /\ ~Done(r)'
             /\ At(r, "relay")' <=> At(r, "status")
             /\ At(r, "status")' <=> At(r, "send")
  <2>1. step'[r] = step[r] + 1 /\ route'[r][step'[r]] = route[r][step[r] + 1]
    BY <1>4, <1>5 DEF GoOn
  <2>2. route[r][step[r]].name # "relay"
    BY <1>5 DEF At
  <2>3. /\ step[r] + 1 \in 1..Len(route[r])
        /\ route[r][step[r] + 1].name = "relay" <=> route[r][step[r]].name = "status"
        /\ route[r][step[r] + 1].name = "status" <=> route[r][step[r]].name = "send"
    BY <1>2, <1>3, <2>2 DEF Ends
  <2>4. ~Done(r)'
    BY <1>1, <2>1, <2>3 DEF Done
  <2> QED
    BY <2>1, <2>3, <2>4 DEF At
<1>6. ASSUME NEW c, Return(r, c)
      PROVE  /\ Done(r)' /\ r \notin gauge' /\ usage'[r] = c
             /\ \A q \in Requests \ {r} : usage'[q] = usage[q] /\ (q \in gauge' <=> q \in gauge)
  <2>1. step'[r] = Len(route[r]) + 1
    BY <1>4, <1>6 DEF Return
  <2>2. Done(r)'
    BY <1>1, <2>1 DEF Done
  <2> QED
    BY <1>6, <2>2 DEF Return, HttpTypeInv, HttpTypeOK
<1> QED
  BY <1>1, <1>2, <1>4, <1>5, <1>6 DEF GoOn, Return

\* A step of r's handler leaves the accounts of the others.
LEMMA OthersAccounts ==
  ASSUME HttpTypeInv, AccountInv, NEW r \in Requests, UNCHANGED route,
         \A q \in Requests \ {r} :
           /\ step'[q] = step[q] /\ usage'[q] = usage[q] /\ reply'[q] = reply[q]
           /\ body'[q] = body[q] /\ (q \in gauge' <=> q \in gauge)
           /\ q \in gaveTask' <=> q \in gaveTask,
         AccountOf(r)'
  PROVE  \A q \in Requests : AccountOf(q)'
<1> SUFFICES ASSUME NEW q \in Requests \ {r} PROVE AccountOf(q)'
  OBVIOUS
<1>1. AccountOf(q)
  BY DEF AccountInv
<1>2. (Done(q)' <=> Done(q)) /\ \A n : At(q, n)' <=> At(q, n)
  BY DEF Done, At
<1> QED
  BY <1>1, <1>2 DEF AccountOf, Underway, RecordIsTrue

\* The handler goes on.
LEMMA AccountGoesOn ==
  ASSUME HttpTypeInv, AccountInv, NEW r \in Requests, ~Done(r), ~At(r, "relay"),
         GoOn(r), UNCHANGED <<route, usage, body>>,
         reply' = IF At(r, "status") THEN [reply EXCEPT ![r] = 200] ELSE reply,
         gaveTask' = IF At(r, "send") THEN gaveTask \cup {r} ELSE gaveTask,
         gauge' = gauge \/ gauge' = gauge \cup {r}
  PROVE  \A q \in Requests : AccountOf(q)'
<1>1. Underway(r)
  BY DEF AccountInv, AccountOf
<1>2. /\ ~Done(r)'
      /\ At(r, "relay")' <=> At(r, "status")
      /\ At(r, "status")' <=> At(r, "send")
      /\ \A q \in Requests \ {r} : step'[q] = step[q]
  BY Moved
<1>3. reply'[r] = IF At(r, "status") THEN 200 ELSE 0
  BY <1>1 DEF Underway, HttpTypeInv, HttpTypeOK
<1>4. r \in gaveTask' => At(r, "send") \/ At(r, "status")
  BY <1>1 DEF Underway
<1>5. Underway(r)'
  BY <1>1, <1>2, <1>3, <1>4 DEF Underway
<1>6. AccountOf(r)'
  BY <1>2, <1>5 DEF AccountOf
<1>7. \A q \in Requests \ {r} :
        /\ usage'[q] = usage[q] /\ reply'[q] = reply[q] /\ body'[q] = body[q]
        /\ (q \in gauge' <=> q \in gauge) /\ (q \in gaveTask' <=> q \in gaveTask)
  BY DEF HttpTypeInv, HttpTypeOK
<1> QED
  BY <1>2, <1>6, <1>7, OthersAccounts

\* The handler returns: with a usage record of code and a reply that agree.
LEMMA AccountReturns ==
  ASSUME HttpTypeInv, AccountInv, NEW r \in Requests, ~Done(r), NEW code, NEW shown, NEW end,
         Return(r, code), UNCHANGED <<route, gaveTask>>,
         reply' = [reply EXCEPT ![r] = shown], body' = [body EXCEPT ![r] = end],
         \/ code = shown
         \/ shown = 200 /\ end = "cutAndError" /\ code = 500
         \/ r \notin gaveTask /\ shown = 500 /\ code = 200
         \/ r \notin gaveTask /\ shown \in {401, 500} /\ code = 0
  PROVE  \A q \in Requests : AccountOf(q)'
<1>1. /\ Done(r)' /\ r \notin gauge' /\ usage'[r] = code
      /\ \A q \in Requests \ {r} :
           /\ usage'[q] = usage[q] /\ (q \in gauge' <=> q \in gauge)
           /\ step'[q] = step[q]
  BY Moved
<1>2. /\ reply'[r] = shown /\ body'[r] = end
      /\ \A q \in Requests \ {r} : reply'[q] = reply[q] /\ body'[q] = body[q]
  BY DEF HttpTypeInv, HttpTypeOK
<1>3. RecordIsTrue(r)'
  BY <1>1, <1>2 DEF RecordIsTrue
<1>4. AccountOf(r)'
  BY <1>1, <1>3 DEF AccountOf
<1> QED
  BY <1>1, <1>2, <1>4, OthersAccounts

\* The handler returns by httpError, before anything was written or while the
\* body is relayed.
LEMMA AccountErrs ==
  ASSUME HttpTypeInv, AccountInv, NEW r \in Requests, ~Done(r), NEW c \in Codes, HttpError(r, c),
         \/ ~At(r, "relay") /\ UNCHANGED body
         \/ At(r, "relay") /\ c = 500 /\ body' = [body EXCEPT ![r] = "cutAndError"]
  PROVE  \A q \in Requests : AccountOf(q)'
<1>1. Underway(r)
  BY DEF AccountInv, AccountOf
<1>2. Return(r, c) /\ UNCHANGED <<route, gaveTask>>
  BY DEF HttpError
<1>3. CASE ~At(r, "relay") /\ UNCHANGED body
  <2>1. reply' = [reply EXCEPT ![r] = c]
    BY <1>1, <1>3 DEF HttpError, Underway
  <2>2. body' = [body EXCEPT ![r] = body[r]]
    BY <1>3 DEF HttpTypeInv, HttpTypeOK
  <2> QED
    BY <1>2, <2>1, <2>2, AccountReturns
<1>4. CASE At(r, "relay") /\ c = 500 /\ body' = [body EXCEPT ![r] = "cutAndError"]
  <2>1. reply' = [reply EXCEPT ![r] = 200]
    BY <1>1, <1>4 DEF HttpError, Underway
  <2> QED
    BY <1>2, <1>4, <2>1, AccountReturns
<1> QED
  BY <1>3, <1>4

\* Where a request is, it is not elsewhere, and it has the codes of its step.
LEMMA PlacesDiffer ==
  ASSUME HttpTypeInv, NEW r \in Requests, NEW n, At(r, n)
  PROVE  /\ ~Done(r)
         /\ \A m : At(r, m) => m = n
         /\ route[r][step[r]].codes \subseteq Codes
         /\ n = "relay" => route[r][step[r]].codes = {500}
         /\ n = "intercept" => route[r][step[r]].codes = {401, 500}
<1>1. ~Done(r) /\ \A m : At(r, m) => m = n
  BY DEF At
<1>2. route[r] \in Handlers /\ step[r] \in 1..Len(route[r])
  <2>1. route[r] \in Handlers /\ step[r] \in 1..(Len(route[r]) + 1)
    BY DEF HttpTypeInv, HttpTypeOK
  <2>2. Len(route[r]) \in Nat
    BY <2>1, StepsOfHandlers
  <2> QED
    BY <1>1, <2>1, <2>2 DEF Done
<1>3. route[r][step[r]].codes \subseteq Codes
  BY <1>2, StepsOfHandlers
<1>4. Ends(route[r])
  BY <1>2, EndsOfHandlers
<1> QED
  BY <1>1, <1>2, <1>3, <1>4 DEF Ends, At

\* The steps before and after the model is looked up.
LEMMA PlainStepAccounts ==
  ASSUME HttpTypeInv, AccountInv, NEW r \in Requests,
         \/ InterceptHTTPRequest(r) \/ Simple(r) \/ LimiterFails(r) \/ UpdateRequest(r)
         \/ IsNimModel(r) \/ SendTask(r) \/ CheckStatus(r) \/ RelayBody(r)
  PROVE  \A q \in Requests : AccountOf(q)'
<1>1. ~Done(r) => Underway(r)
  BY DEF AccountInv, AccountOf
<1>2. body = [body EXCEPT ![r] = body[r]] /\ reply = [reply EXCEPT ![r] = reply[r]]
  BY DEF HttpTypeInv, HttpTypeOK
<1>3. CASE InterceptHTTPRequest(r)
  <2>1. ~Done(r) /\ ~At(r, "relay") /\ ~At(r, "status") /\ ~At(r, "send")
        /\ route[r][step[r]].codes = {401, 500}
    BY <1>3, PlacesDiffer DEF InterceptHTTPRequest
  <2>2. CASE GoOn(r) /\ UNCHANGED <<route, reply, usage, body, gauge, gaveTask>>
    BY <2>1, <2>2, AccountGoesOn
  <2>3. ASSUME NEW c \in {401, 500}, Return(r, 0), reply' = [reply EXCEPT ![r] = c],
               UNCHANGED <<route, body, gaveTask>>
        PROVE  \A q \in Requests : AccountOf(q)'
    <3>1. r \notin gaveTask
      BY <1>1, <2>1 DEF Underway
    <3> QED
      BY <1>2, <2>1, <2>3, <3>1, AccountReturns
  <2> QED
    BY <1>3, <2>1, <2>2, <2>3 DEF InterceptHTTPRequest
<1>4. CASE Simple(r)
  <2>1. ~Done(r) /\ ~At(r, "relay") /\ ~At(r, "status") /\ ~At(r, "send")
        /\ route[r][step[r]].codes \subseteq Codes
    <3>1. PICK n \in {"limit", "check", "rag"} : At(r, n)
      BY <1>4 DEF Simple
    <3> QED
      BY <3>1, PlacesDiffer
  <2>2. CASE GoOn(r) /\ UNCHANGED <<route, reply, usage, body, gauge, gaveTask>>
    BY <2>1, <2>2, AccountGoesOn
  <2> QED
    BY <1>4, <2>1, <2>2, AccountErrs DEF Simple
<1>5. CASE LimiterFails(r)
  <2>1. ~Done(r) /\ ~At(r, "relay") /\ ~At(r, "status")
    BY <1>5, PlacesDiffer DEF LimiterFails
  <2>2. r \notin gaveTask
    BY <1>1, <2>1 DEF Underway
  <2> QED
    BY <1>2, <1>5, <2>1, <2>2, AccountReturns DEF LimiterFails
<1>6. CASE UpdateRequest(r) \/ IsNimModel(r)
  <2>1. ~Done(r) /\ ~At(r, "relay") /\ ~At(r, "status") /\ ~At(r, "send")
    BY <1>6, PlacesDiffer DEF UpdateRequest, IsNimModel
  <2> QED
    BY <1>6, <2>1, AccountGoesOn DEF UpdateRequest, IsNimModel
<1>7. CASE SendTask(r)
  <2>1. ~Done(r) /\ ~At(r, "relay") /\ ~At(r, "status") /\ At(r, "send")
        /\ route[r][step[r]].codes \subseteq Codes
    BY <1>7, PlacesDiffer DEF SendTask
  <2>2. CASE /\ GoOn(r) /\ gaveTask' = gaveTask \cup {r}
             /\ UNCHANGED <<route, reply, usage, body, gauge>>
    BY <2>1, <2>2, AccountGoesOn
  <2> QED
    BY <1>7, <2>1, <2>2, AccountErrs DEF SendTask
<1>8. CASE CheckStatus(r)
  <2>1. ~Done(r) /\ ~At(r, "relay") /\ At(r, "status") /\ ~At(r, "send")
        /\ route[r][step[r]].codes \subseteq Codes
    BY <1>8, PlacesDiffer DEF CheckStatus
  <2>2. CASE /\ GoOn(r) /\ reply' = [reply EXCEPT ![r] = 200]
             /\ UNCHANGED <<route, usage, body, gauge, gaveTask>>
    BY <2>1, <2>2, AccountGoesOn
  <2> QED
    BY <1>8, <2>1, <2>2, AccountErrs DEF CheckStatus
<1>9. CASE RelayBody(r)
  <2>1. ~Done(r) /\ At(r, "relay") /\ route[r][step[r]].codes = {500} /\ 500 \in Codes
    BY <1>9, PlacesDiffer DEF RelayBody, Codes
  <2>2. reply[r] = 200
    BY <1>1, <2>1 DEF Underway
  <2>3. ASSUME NEW b \in {"whole", "cut"}, body' = [body EXCEPT ![r] = b], Return(r, 200),
               UNCHANGED <<route, reply, gaveTask>>
        PROVE  \A q \in Requests : AccountOf(q)'
    <3>1. reply' = [reply EXCEPT ![r] = 200]
      BY <1>2, <2>2, <2>3
    <3> QED
      BY <2>1, <2>3, <3>1, AccountReturns
  <2>4. CASE /\ body' = [body EXCEPT ![r] = "cutAndError"]
             /\ \E c \in route[r][step[r]].codes : HttpError(r, c)
    <3>1. HttpError(r, 500)
      BY <2>1, <2>4
    <3> QED
      BY <2>1, <2>4, <3>1, AccountErrs
  <2>5. \/ /\ \E b \in {"whole", "cut"} : body' = [body EXCEPT ![r] = b]
           /\ Return(r, 200) /\ UNCHANGED <<route, reply, gaveTask>>
        \/ /\ body' = [body EXCEPT ![r] = "cutAndError"]
           /\ \E c \in route[r][step[r]].codes : HttpError(r, c)
    BY <1>9 DEF RelayBody
  <2> QED
    BY <2>3, <2>4, <2>5
<1> QED
  BY <1>3, <1>4, <1>5, <1>6, <1>7, <1>8, <1>9

\* Nothing of what a request shows, records or is counted in changes.
LEMMA AccountsUnchanged ==
  ASSUME AccountInv, UNCHANGED requestVars
  PROVE  \A q \in Requests : AccountOf(q)'
<1> SUFFICES ASSUME NEW q \in Requests PROVE AccountOf(q)'
  OBVIOUS
<1>1. (Done(q)' <=> Done(q)) /\ \A n : At(q, n)' <=> At(q, n)
  BY DEF requestVars, Done, At
<1> QED
  BY <1>1 DEF AccountInv, AccountOf, Underway, RecordIsTrue, requestVars

\* Looking a model up, and what is learned from it.
LEMMA LookupAccounts ==
  ASSUME HttpTypeInv, AccountInv, NEW r \in Requests,
         \/ GetModel(r) \/ ModelManagerAnswers(r) \/ AddModelToCache(r)
         \/ CheckModelAvailability(r) \/ ActivateModel(r) \/ RemoveModelFromCache(r)
  PROVE  \A q \in Requests : AccountOf(q)'
<1>1. At(r, "available")
  BY DEF GetModel, ModelManagerAnswers, AddModelToCache, CheckModelAvailability, ActivateModel,
         RemoveModelFromCache, HttpTypeInv
<1>2. ~Done(r) /\ ~At(r, "relay") /\ ~At(r, "status") /\ ~At(r, "send")
  BY <1>1, PlacesDiffer
<1>3. \/ UNCHANGED requestVars
      \/ GoOn(r) /\ UNCHANGED <<route, reply, usage, body, gauge, gaveTask>>
      \/ \E c \in {400, 500} : HttpError(r, c) /\ UNCHANGED body
  BY DEF GetModel, ModelManagerAnswers, AddModelToCache, CheckModelAvailability, ActivateModel,
         RemoveModelFromCache, requestVars
<1>4. CASE GoOn(r) /\ UNCHANGED <<route, reply, usage, body, gauge, gaveTask>>
  BY <1>2, <1>4, AccountGoesOn
<1>5. CASE \E c \in {400, 500} : HttpError(r, c) /\ UNCHANGED body
  <2>1. {400, 500} \subseteq Codes
    BY DEF Codes
  <2> QED
    BY <1>2, <1>5, <2>1, AccountErrs
<1> QED
  BY <1>3, <1>4, <1>5, AccountsUnchanged

\* The mutex is released by the step that ends the question.
LEMMA LockOfLookupStep ==
  ASSUME HttpTypeInv, LockOfLookup, [HttpNext]_httpVars
  PROVE  LockOfLookup'
<1>1. lookup \in [Requests -> {"none", "asking", "asked", "got", "activated"}]
      /\ NoRequest \notin Requests
  BY HttpAssumption DEF HttpTypeInv, HttpTypeOK
<1>2. CASE UNCHANGED <<lookup, cacheLock>>
  BY <1>2 DEF LockOfLookup
<1>3. ASSUME NEW r \in Requests, Serves(r), ~UNCHANGED <<lookup, cacheLock>> PROVE LockOfLookup'
  <2>1. \/ GetModel(r) \/ ModelManagerAnswers(r) \/ AddModelToCache(r)
        \/ CheckModelAvailability(r) \/ ActivateModel(r) \/ RemoveModelFromCache(r)
    BY <1>3 DEF Serves, InterceptHTTPRequest, Simple, LimiterFails, UpdateRequest, IsNimModel,
       SendTask, CheckStatus, RelayBody, cacheVars
  <2>2. CASE GetModel(r)
    BY <1>1, <2>2 DEF GetModel, LockOfLookup
  <2>3. CASE ModelManagerAnswers(r)
    BY <1>1, <2>3 DEF ModelManagerAnswers, LockOfLookup
  <2>4. CASE AddModelToCache(r)
    BY <1>1, <2>4 DEF AddModelToCache, LockOfLookup
  <2>5. CASE CheckModelAvailability(r)
    BY <1>1, <2>5 DEF CheckModelAvailability, Forgets, LockOfLookup
  <2>6. CASE ActivateModel(r)
    BY <1>1, <2>6 DEF ActivateModel, Forgets, LockOfLookup
  <2>7. CASE RemoveModelFromCache(r)
    BY <1>1, <2>7 DEF RemoveModelFromCache, Forgets, LockOfLookup
  <2> QED
    BY <2>1, <2>2, <2>3, <2>4, <2>5, <2>6, <2>7
<1> QED
  BY <1>2, <1>3 DEF HttpNext, ModelChanges, httpVars, cacheVars

LEMMA InitAccounts == HttpInit => AccountInv
<1> SUFFICES ASSUME HttpInit PROVE AccountInv
  OBVIOUS
<1>1. LockOfLookup
  BY HttpAssumption DEF HttpInit, LockOfLookup
<1>2. ASSUME NEW r \in Requests PROVE AccountOf(r)
  <2>1. route[r] \in Handlers /\ step[r] = 1
    BY <1>2 DEF HttpInit
  <2>2. ~Done(r) /\ At(r, "intercept")
    BY <2>1, EndsOfHandlers DEF Done, At
  <2>3. ~At(r, "relay") /\ usage[r] = 0 /\ body[r] = "none" /\ reply[r] = 0 /\ r \notin gaveTask
    BY <2>2 DEF HttpInit, At
  <2> QED
    BY <2>2, <2>3 DEF AccountOf, Underway
<1> QED
  BY <1>1, <1>2 DEF AccountInv

LEMMA AccountStep == HttpTypeInv /\ AccountInv /\ [HttpNext]_httpVars => AccountInv'
<1> SUFFICES ASSUME HttpTypeInv, AccountInv, [HttpNext]_httpVars PROVE AccountInv'
  OBVIOUS
<1>1. LockOfLookup'
  BY LockOfLookupStep DEF AccountInv
<1>2. CASE ModelChanges \/ UNCHANGED httpVars
  <2>1. UNCHANGED requestVars
    BY <1>2 DEF ModelChanges, httpVars
  <2> QED
    BY <1>1, <2>1, AccountsUnchanged DEF AccountInv
<1>3. ASSUME NEW r \in Requests, Serves(r) PROVE AccountInv'
  <2>1. \A q \in Requests : AccountOf(q)'
    BY <1>3, PlainStepAccounts, LookupAccounts DEF Serves
  <2> QED
    BY <1>1, <2>1 DEF AccountInv
<1> QED
  BY <1>2, <1>3 DEF HttpNext

(***************************************************************************)
(* However requests interleave and wherever a handler fails, a request     *)
(* that has ended is counted out, does not hold the mutex of the cache,    *)
(* and its usage record says what its client has seen or that it failed,   *)
(* but for the two exceptions before the task (completions.go 49-75 and    *)
(* 398-401): the safety half of RequestsAreAccounted.                      *)
(***************************************************************************)
THEOREM AccountsAreTrue == HttpSpec => [](\A r \in Requests : Done(r) => Accounted(r))
<1>1. ASSUME HttpTypeInv, AccountInv PROVE \A r \in Requests : Done(r) => Accounted(r)
  <2> SUFFICES ASSUME NEW r \in Requests, Done(r) PROVE Accounted(r)
    OBVIOUS
  <2>1. r \notin gauge /\ RecordIsTrue(r)
    BY <1>1 DEF AccountInv, AccountOf
  <2>2. lookup[r] = "none"
    BY <1>1 DEF HttpTypeInv, At
  <2>3. cacheLock # r
    BY <1>1, <2>2 DEF AccountInv, LockOfLookup
  <2> QED
    BY <2>1, <2>3 DEF Accounted
<1> QED
  BY <1>1, InitHttpTypes, HttpTypeStep, InitAccounts, AccountStep, PTL DEF HttpSpec
-----------------------------------------------------------------------------
(***************************************************************************)
(* The types of the shutdown (ServerShutdown).                             *)
(***************************************************************************)
LEMMA InitShutdownTypes == ShutdownInit => ShutdownTypeOK
BY DEF ShutdownInit, ShutdownTypeOK

LEMMA ShutdownTypeStep == ShutdownTypeOK /\ [ShutdownNext]_shutdownVars => ShutdownTypeOK'
<1> SUFFICES ASSUME ShutdownTypeOK, [ShutdownNext]_shutdownVars PROVE ShutdownTypeOK'
  OBVIOUS
<1> USE DEF ShutdownTypeOK
<1>1. CASE GotSignal
  BY <1>1 DEF GotSignal, Moves
<1>2. CASE GoAwayFails
  BY <1>2 DEF GoAwayFails, Moves
<1>3. CASE ComponentFails
  BY <1>3 DEF ComponentFails, Exit
<1>4. CASE ServerStep
  BY <1>4 DEF ServerStep, SendGoAwayTasks, GoAwaySucceeds, StopExchange, StartToDrain,
              TasksAreDrained, GracefulStop, Moves, Exit
<1>5. CASE EndpointsUpdated \/ StatusesAreSent
  BY <1>5 DEF EndpointsUpdated, StatusesAreSent
<1>6. ASSUME NEW e \in LocalEngines, EngineStep(e) PROVE ShutdownTypeOK'
  BY <1>6 DEF EngineStep, GoAwayIsDelivered, EngineAnswers, EngineLeaves
<1>7. ASSUME NEW t \in ServerTasks, ClientSends(t) \/ PeerSends(t) \/ TaskIsAnswered(t)
      PROVE  ShutdownTypeOK'
  BY <1>7 DEF ClientSends, PeerSends, TaskIsAnswered, Arrives
<1>8. CASE UNCHANGED shutdownVars
  BY <1>8 DEF shutdownVars
<1> QED
  BY <1>1, <1>2, <1>3, <1>4, <1>5, <1>6, <1>7, <1>8 DEF ShutdownNext, ServerTasks

=============================================================================
