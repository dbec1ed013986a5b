------------------------ MODULE ProviderRouterProofs -----------------------
(***************************************************************************)
(* Theorems about ProviderRouter, for any providers, limits and number of  *)
(* calls: the cap of the adaptive limiters and the escalation of cooldowns.*)
(* The first two need not know which provider a call is with: one not       *)
(* registered has no entry to change.  Then the books: what the limiters    *)
(* and the router count is what the calls hold, and no queued call sleeps  *)
(* beside a free place.                                                    *)
(***************************************************************************)
EXTENDS ProviderRouter, FiniteSetTheorems, TLAPS

-----------------------------------------------------------------------------
(* The limiters.                                                           *)

LimiterInv ==
    /\ inUse \in [Providers -> Nat]
    /\ limit \in [Providers -> Nat]
    /\ AbsoluteCap

LEMMA FloorIsPositive ==
    ASSUME NEW p \in Providers
    PROVE  Floor[p] \in Nat \ {0} /\ HardMax(p) \in Nat /\ Floor[p] <= HardMax(p)
BY RouterAssumption DEF RouterAssumption, HardMax

LEMMA LimitersKept ==
    ASSUME LimiterInv, UNCHANGED limiters
    PROVE  LimiterInv'
BY DEF LimiterInv, AbsoluteCap, limiters

\* A place is taken only below the limit, which the step leaves alone.
LEMMA PlaceTaken ==
    ASSUME LimiterInv, NEW c, NEW p, NEW waited, Take(c, p, waited)
    PROVE  LimiterInv'
<1>1. inUse' = [inUse EXCEPT ![p] = @ + 1] /\ limit' = limit
  BY DEF Take
<1>2. CASE p \in Providers
  <2>1. inUse[p] < limit[p]
    BY DEF Take
  <2>2. inUse' \in [Providers -> Nat]
    BY <1>1, <1>2 DEF LimiterInv
  <2>3. ASSUME NEW q \in Providers PROVE inUse'[q] <= limit[q]
    BY <1>1, <1>2, <2>1 DEF LimiterInv, AbsoluteCap
  <2> QED BY <1>1, <2>2, <2>3 DEF LimiterInv, AbsoluteCap
<1>3. CASE p \notin Providers
  <2>1. inUse' = inUse
    BY <1>1, <1>3 DEF LimiterInv
  <2> QED BY <1>1, <2>1, LimitersKept DEF limiters
<1> QED BY <1>2, <1>3

\* A release takes the count down before, or as far as, the limit.
LEMMA PlaceReleased ==
    ASSUME LimiterInv, NEW c, NEW rateLimited \in BOOLEAN, Release(c, rateLimited)
    PROVE  LimiterInv'
<1> DEFINE p == at[c]
           room == IF rateLimited THEN Most(Floor[p], limit[p] - 1)
                   ELSE IF saturated[c] THEN Least(HardMax(p), limit[p] + 1) ELSE limit[p]
<1>1. /\ inUse' = [inUse EXCEPT ![p] = Most(0, inUse[p] - 1)]
      /\ limit' = [limit EXCEPT ![p] = room]
  BY DEF Release
<1>2. CASE p \in Providers
  <2>1. /\ inUse[p] \in Nat /\ limit[p] \in Floor[p] .. HardMax(p)
        /\ inUse[p] <= limit[p] /\ limit[p] \in Nat
    BY <1>2 DEF LimiterInv, AbsoluteCap
  <2>2. /\ Most(0, inUse[p] - 1) \in Nat
        /\ room \in Nat /\ room \in Floor[p] .. HardMax(p)
        /\ Most(0, inUse[p] - 1) <= room
    <3>1. CASE rateLimited
      BY <1>2, <2>1, <3>1, FloorIsPositive DEF Most
    <3>2. CASE ~rateLimited /\ saturated[c]
      BY <1>2, <2>1, <3>2, FloorIsPositive DEF Most, Least
    <3>3. CASE ~rateLimited /\ ~saturated[c]
      BY <1>2, <2>1, <3>3, FloorIsPositive DEF Most
    <3> QED BY <3>1, <3>2, <3>3
  <2> HIDE DEF p, room
  <2>3. inUse' \in [Providers -> Nat] /\ limit' \in [Providers -> Nat]
    BY <1>1, <2>2 DEF LimiterInv
  <2>4. ASSUME NEW q \in Providers
        PROVE  inUse'[q] <= limit'[q] /\ limit'[q] \in Floor[q] .. HardMax(q)
    <3>1. CASE q = p
      BY <1>1, <2>2, <3>1 DEF LimiterInv
    <3>2. CASE q # p
      BY <1>1, <3>2 DEF LimiterInv, AbsoluteCap
    <3> QED BY <3>1, <3>2
  <2> QED BY <2>3, <2>4 DEF LimiterInv, AbsoluteCap, HardMax
<1>3. CASE p \notin Providers
  <2>1. inUse' = inUse /\ limit' = limit
    BY <1>1, <1>3 DEF LimiterInv
  <2> QED BY <2>1, LimitersKept DEF limiters
<1> QED BY <1>2, <1>3

LEMMA LimitersStep ==
    ASSUME LimiterInv, [Next]_vars
    PROVE  LimiterInv'
<1>1. CASE UNCHANGED vars
  BY <1>1, LimitersKept DEF vars
<1>2. ASSUME NEW c \in Calls,
             \/ Start(c) \/ WaitForProvider(c) \/ WakeUp(c) \/ GiveUp(c)
             \/ CancelQueued(c) \/ CancelSleeping(c) \/ BudgetEnds(c)
      PROVE  LimiterInv'
  <2>1. UNCHANGED limiters
    BY <1>2 DEF Start, WaitForProvider, WakeUp, GiveUp, CancelQueued, CancelSleeping,
                BudgetEnds
  <2> QED BY <2>1, LimitersKept
<1>3. ASSUME NEW c \in Calls, Route(c) PROVE LimiterInv'
  <2>1. PICK p \in Selectable(c) : Take(c, p, FALSE) \/ Queue(c, p)
    BY <1>3 DEF Route
  <2>2. CASE Take(c, p, FALSE)
    BY <2>2, PlaceTaken
  <2>3. CASE Queue(c, p)
    BY <2>3, LimitersKept DEF Queue
  <2> QED BY <2>1, <2>2, <2>3
<1>4. ASSUME NEW c \in Calls, LookAgain(c) PROVE LimiterInv'
  <2>1. CASE Take(c, at[c], TRUE)
    BY <2>1, PlaceTaken
  <2>2. CASE Queue(c, at[c])
    BY <2>2, LimitersKept DEF Queue
  <2> QED BY <1>4, <2>1, <2>2 DEF LookAgain
<1>5. ASSUME NEW c \in Calls, Answered(c) \/ Failed(c) \/ CancelRunning(c)
      PROVE  LimiterInv'
  <2>1. PICK rateLimited \in BOOLEAN : Release(c, rateLimited)
    BY <1>5 DEF Answered, Failed, CancelRunning, LeaveProvider
  <2> QED BY <2>1, PlaceReleased
<1>6. ASSUME NEW p \in Providers, CooldownEnds(p) PROVE LimiterInv'
  BY <1>6, LimitersKept DEF CooldownEnds
<1> QED BY <1>1, <1>2, <1>3, <1>4, <1>5, <1>6 DEF Next, Proceed, Exchange, Cancel

\* "At most `limit` calls run at once", and the limit keeps between the floor
\* and the headroom (_AdaptiveLimiter), however releases and cuts interleave.
THEOREM AbsoluteCapHolds == Spec => []AbsoluteCap
<1>1. Init => LimiterInv
  BY FloorIsPositive, RouterAssumption
  DEF RouterAssumption, Init, LimiterInv, AbsoluteCap
<1>2. LimiterInv /\ [Next]_vars => LimiterInv'
  BY LimitersStep
<1>3. LimiterInv => AbsoluteCap
  BY DEF LimiterInv
<1> QED BY <1>1, <1>2, <1>3, PTL DEF Spec

-----------------------------------------------------------------------------
(* The record of outcomes.                                                 *)

Healths == [streak : 0 .. DegradeAfter, state : {"clean", "cooling", "elapsed"},
            canary : BOOLEAN, trips : 0 .. Trips]

\* What a record may be: a probe is outstanding only after a cooldown.
Sound(h) == h \in Healths /\ (h.canary => h.state = "elapsed")

\* What may become of it: no trip while it cools.
Follows(h, g) == Sound(g) /\ (g.trips > h.trips => h.state # "cooling")

HealthInv ==
    /\ health \in [Providers -> Healths]
    /\ \A p \in Providers : Sound(health[p])

HealthStep == \A p \in Providers : Follows(health[p], health'[p])

LEMMA SoundStays ==
    ASSUME NEW h, Sound(h)
    PROVE  Follows(h, h)
BY RouterAssumption DEF RouterAssumption, Follows, Sound, Healths

\* One entry changes, and follows.
LEMMA OneEntry ==
    ASSUME HealthInv, NEW p, NEW g,
           health' = [health EXCEPT ![p] = g],
           p \in Providers => Follows(health[p], g)
    PROVE  HealthInv' /\ HealthStep
<1>1. health' \in [Providers -> Healths]
  BY DEF HealthInv, Follows, Sound
<1>2. ASSUME NEW q \in Providers PROVE Follows(health[q], health'[q])
  <2>1. CASE q = p
    BY <2>1 DEF HealthInv
  <2>2. CASE q # p
    <3>1. health'[q] = health[q]
      BY <2>2 DEF HealthInv
    <3> QED BY <3>1, SoundStays DEF HealthInv
  <2> QED BY <2>1, <2>2
<1> QED BY <1>1, <1>2 DEF HealthInv, HealthStep, Follows

LEMMA HealthKept ==
    ASSUME HealthInv, UNCHANGED health
    PROVE  HealthInv' /\ HealthStep
BY SoundStays DEF HealthInv, HealthStep

\* A cooldown escalates for a record that was not cooling.
LEMMA TripFollows ==
    ASSUME NEW h, Sound(h), NEW n \in 0 .. DegradeAfter, h.state # "cooling"
    PROVE  Follows(h, Tripped([h EXCEPT !.streak = n]))
<1> DEFINE failed == [h EXCEPT !.streak = n]
           g == [failed EXCEPT !.state = "cooling", !.canary = FALSE,
                               !.trips = NextTrip(failed.trips)]
<1>1. failed \in Healths
  BY DEF Sound, Healths
<1>2. NextTrip(failed.trips) \in 0 .. Trips
  BY <1>1, RouterAssumption DEF RouterAssumption, Healths, NextTrip
<1> HIDE DEF failed
<1>3. g \in Healths
  BY <1>1, <1>2 DEF Healths
<1>4. g.canary = FALSE
  BY <1>1 DEF Healths
<1>5. Tripped(failed) = g
  BY DEF Tripped
<1> HIDE DEF g
<1>6. Follows(h, g)
  BY <1>3, <1>4 DEF Follows, Sound
<1> QED BY <1>5, <1>6 DEF failed

LEMMA StreakFollows ==
    ASSUME NEW h, Sound(h), NEW n \in 0 .. DegradeAfter
    PROVE  Follows(h, [h EXCEPT !.streak = n])
BY RouterAssumption DEF RouterAssumption, Follows, Sound, Healths

LEMMA FailureFollows ==
    ASSUME HealthInv, NEW p, NEW rateLimited \in BOOLEAN, RecordFailure(p, rateLimited)
    PROVE  HealthInv' /\ HealthStep
<1> DEFINE n == Least(DegradeAfter, health[p].streak + 1)
           failed == [health[p] EXCEPT !.streak = n]
           trips == \/ failed.canary
                    \/ failed.state # "cooling" /\ (rateLimited \/ n = DegradeAfter)
           g == IF trips THEN Tripped(failed) ELSE failed
<1>1. health' = [health EXCEPT ![p] = g]
  BY DEF RecordFailure
<1>2. ASSUME p \in Providers PROVE Follows(health[p], g)
  <2>1. Sound(health[p])
    BY <1>2 DEF HealthInv
  <2>2. n \in 0 .. DegradeAfter
    BY <2>1, RouterAssumption DEF RouterAssumption, Sound, Healths, Least
  <2>3. failed.canary = health[p].canary /\ failed.state = health[p].state
    BY <2>1 DEF Sound, Healths
  <2>4. CASE trips
    <3>1. health[p].state # "cooling"
      BY <2>1, <2>3, <2>4 DEF Sound
    <3> HIDE DEF n
    <3> QED BY <2>1, <2>2, <2>4, <3>1, TripFollows
  <2>5. CASE ~trips
    <3> HIDE DEF n
    <3> QED BY <2>1, <2>2, <2>5, StreakFollows
  <2> QED BY <2>4, <2>5
<1> HIDE DEF g
<1> QED BY <1>1, <1>2, OneEntry

LEMMA SuccessFollows ==
    ASSUME HealthInv, NEW p, RecordSuccess(p)
    PROVE  HealthInv' /\ HealthStep
<1> DEFINE g == IF health[p].canary
                THEN [streak |-> 0, state |-> "clean", canary |-> FALSE, trips |-> 0]
                ELSE [health[p] EXCEPT !.streak = 0]
<1>1. health' = [health EXCEPT ![p] = g]
  BY DEF RecordSuccess
<1>2. ASSUME p \in Providers PROVE Follows(health[p], g)
  <2>1. Sound(health[p]) /\ 0 \in 0 .. DegradeAfter
    BY <1>2, RouterAssumption DEF HealthInv, RouterAssumption
  <2>2. CASE health[p].canary
    BY <2>1, <2>2, RouterAssumption DEF RouterAssumption, Follows, Sound, Healths
  <2>3. CASE ~health[p].canary
    BY <2>1, <2>3, StreakFollows
  <2> QED BY <2>2, <2>3
<1> HIDE DEF g
<1> QED BY <1>1, <1>2, OneEntry

LEMMA HealthNext ==
    ASSUME HealthInv, [Next]_vars
    PROVE  HealthInv' /\ HealthStep
<1>1. CASE UNCHANGED vars
  BY <1>1, HealthKept DEF vars
<1>2. ASSUME NEW c \in Calls,
             \/ Start(c) \/ WaitForProvider(c) \/ WakeUp(c) \/ GiveUp(c) \/ LookAgain(c)
             \/ Cancel(c) \/ BudgetEnds(c)
      PROVE  HealthInv' /\ HealthStep
  <2>1. UNCHANGED health
    BY <1>2 DEF Start, WaitForProvider, WakeUp, GiveUp, LookAgain, Cancel, CancelRunning,
                CancelQueued, CancelSleeping, BudgetEnds
  <2> QED BY <2>1, HealthKept
<1>3. ASSUME NEW c \in Calls, Route(c) PROVE HealthInv' /\ HealthStep
  <2>1. PICK p \in Selectable(c) : health' = Canaried(p, health)
    BY <1>3 DEF Route
  <2>2. CASE health[p].state # "elapsed"
    BY <2>1, <2>2, HealthKept DEF Canaried
  <2>3. CASE health[p].state = "elapsed"
    <3>1. health' = [health EXCEPT ![p] = [health[p] EXCEPT !.canary = TRUE]]
      BY <2>1, <2>3 DEF Canaried
    <3>2. ASSUME p \in Providers
          PROVE  Follows(health[p], [health[p] EXCEPT !.canary = TRUE])
      BY <2>3, <3>2, RouterAssumption
      DEF RouterAssumption, HealthInv, Follows, Sound, Healths
    <3> QED BY <3>1, <3>2, OneEntry
  <2> QED BY <2>2, <2>3
<1>4. ASSUME NEW c \in Calls, Answered(c) PROVE HealthInv' /\ HealthStep
  BY <1>4, SuccessFollows DEF Answered
<1>5. ASSUME NEW c \in Calls, Failed(c) PROVE HealthInv' /\ HealthStep
  <2>1. PICK rateLimited \in BOOLEAN : RecordFailure(at[c], rateLimited)
    BY <1>5 DEF Failed
  <2> QED BY <2>1, FailureFollows
<1>6. ASSUME NEW p \in Providers, CooldownEnds(p) PROVE HealthInv' /\ HealthStep
  <2>1. health' = [health EXCEPT ![p] = [health[p] EXCEPT !.state = "elapsed"]]
    BY <1>6 DEF CooldownEnds
  <2>2. Follows(health[p], [health[p] EXCEPT !.state = "elapsed"])
    BY <1>6, RouterAssumption DEF RouterAssumption, HealthInv, Follows, Sound, Healths
  <2> QED BY <2>1, <2>2, OneEntry
<1> QED BY <1>1, <1>2, <1>3, <1>4, <1>5, <1>6 DEF Next, Proceed, Exchange

\* The invariant of the record of outcomes.
THEOREM HealthInvariant == Spec => []HealthInv
<1>1. Init => HealthInv
  BY RouterAssumption DEF RouterAssumption, Init, HealthInv, Sound, Healths
<1>2. HealthInv /\ [Next]_vars => HealthInv'
  BY HealthNext
<1> QED BY <1>1, <1>2, PTL DEF Spec

\* A probe is outstanding only for a provider whose cooldown has elapsed
\* (IntentRouter.select), whatever order late answers come in.
THEOREM CanaryOnProbationHolds == Spec => []CanaryOnProbation
<1>1. HealthInv => CanaryOnProbation
  BY DEF HealthInv, CanaryOnProbation, Sound
<1> QED BY <1>1, HealthInvariant, PTL

\* "One trip per window" (record_failure): no burst of failures escalates a
\* cooldown that runs, for any number of calls.
THEOREM OneTripPerWindowHolds == Spec => OneTripPerWindow
<1> DEFINE NoTrip == \A p \in Providers :
                        health'[p].trips > health[p].trips => health[p].state # "cooling"
<1>1. HealthInv /\ [Next]_vars => [NoTrip]_vars
  BY HealthNext DEF HealthStep, Follows
<1>2. OneTripPerWindow <=> [][NoTrip]_vars
  BY DEF OneTripPerWindow
<1> HIDE DEF NoTrip
<1> QED BY <1>1, <1>2, HealthInvariant, PTL DEF Spec
-----------------------------------------------------------------------------
(* The bookkeeping of the calls.                                           *)

Held == {"queued", "woken", "running"}

CallTyped ==
    /\ inflight \in [Providers -> Nat]
    /\ phase \in [Calls -> Held \union {"idle", "selecting", "sleeping", "returned",
                                       "raised", "cancelled"}]
    /\ at \in [Calls -> Providers \union {NoProvider}]
    /\ saturated \in [Calls -> BOOLEAN]
    /\ excluded \in [Calls -> SUBSET Providers]
    /\ tries \in [Calls -> 0 .. MaxAttempts]
    /\ late \in [Calls -> BOOLEAN]

\* A call is with a provider exactly while it queues or runs.
Placed == \A c \in Calls : at[c] \in Providers <=> phase[c] \in Held

CallInv == CallTyped /\ Placed /\ CountsAreBacked /\ NoLostWakeup

LEMMA WithFinite ==
    ASSUME NEW p, NEW phases
    PROVE  IsFiniteSet(With(p, phases)) /\ Cardinality(With(p, phases)) \in Nat
<1>1. With(p, phases) \subseteq Calls
  BY DEF With
<1> QED BY <1>1, FS_Subset, FS_CardinalityType, RouterAssumption DEF RouterAssumption

\* All other calls stay where they are, but that some may have been notified.
Apart(c) ==
    /\ at' \in [Calls -> Providers \union {NoProvider}]
    /\ DOMAIN phase' = Calls
    /\ \A d \in Calls \ {c} :
          /\ at'[d] = at[d]
          /\ phase'[d] = phase[d] \/ (phase[d] = "queued" /\ phase'[d] = "woken")

\* How the calls a provider has change when one call moves.
LEMMA OneMoves ==
    ASSUME NEW c \in Calls, Apart(c), NEW p, NEW phases,
           phases = {"running"} \/ phases = Held
    PROVE  /\ c \notin With(p, phases) /\ c \in With(p, phases)' =>
                 Cardinality(With(p, phases))' = Cardinality(With(p, phases)) + 1
           /\ c \in With(p, phases) /\ c \notin With(p, phases)' =>
                 Cardinality(With(p, phases))' = Cardinality(With(p, phases)) - 1
           /\ (c \in With(p, phases) <=> c \in With(p, phases)') =>
                 Cardinality(With(p, phases))' = Cardinality(With(p, phases))
<1>1. \A d \in Calls \ {c} : d \in With(p, phases) <=> d \in With(p, phases)'
  BY DEF Apart, With, Held
<1>2. With(p, phases) \subseteq Calls /\ With(p, phases)' \subseteq Calls
  BY DEF With
<1>3. Cardinality(With(p, phases))' = Cardinality(With(p, phases)')
  OBVIOUS
<1>4. ASSUME c \notin With(p, phases), c \in With(p, phases)'
      PROVE  Cardinality(With(p, phases))' = Cardinality(With(p, phases)) + 1
  <2>1. With(p, phases)' = With(p, phases) \union {c}
    BY <1>1, <1>2, <1>4
  <2> QED BY <1>3, <1>4, <2>1, WithFinite, FS_AddElement
<1>5. ASSUME c \in With(p, phases), c \notin With(p, phases)'
      PROVE  Cardinality(With(p, phases))' = Cardinality(With(p, phases)) - 1
  <2>1. With(p, phases)' = With(p, phases) \ {c}
    BY <1>1, <1>2, <1>5
  <2> QED BY <1>3, <1>5, <2>1, WithFinite, FS_RemoveElement
<1>6. ASSUME c \in With(p, phases) <=> c \in With(p, phases)'
      PROVE  Cardinality(With(p, phases))' = Cardinality(With(p, phases))
  <2>1. With(p, phases)' = With(p, phases)
    BY <1>1, <1>2, <1>6
  <2> QED BY <1>3, <2>1
<1> QED BY <1>4, <1>5, <1>6

\* A provider whose limiter counts a running call has at least that call.
LEMMA RunningIsCounted ==
    ASSUME CallInv, NEW c \in Calls, NEW p \in Providers, at[c] = p
    PROVE  /\ phase[c] = "running" => inUse[p] >= 1
           /\ phase[c] \in Held => inflight[p] >= 1
<1>1. ASSUME NEW phases, phase[c] \in phases PROVE Cardinality(With(p, phases)) >= 1
  <2>1. c \in With(p, phases)
    BY <1>1 DEF With
  <2> QED BY <2>1, WithFinite, FS_EmptySet
<1>2. phase[c] = "running" => inUse[p] >= 1
  BY <1>1 DEF CallInv, CountsAreBacked
<1>3. phase[c] \in Held => inflight[p] >= 1
  <2>1. inflight[p] >= Cardinality(With(p, Held)) /\ inflight[p] \in Nat
    BY DEF CallInv, CountsAreBacked, CallTyped, Held
  <2>2. Cardinality(With(p, Held)) \in Nat
    BY WithFinite
  <2> QED BY <1>1, <2>1, <2>2
<1> QED BY <1>2, <1>3

Runs(c, p) == at[c] = p /\ phase[c] = "running"
Holds(c, p) == at[c] = p /\ phase[c] \in Held

\* Counts that follow the call that moves keep the books.
LEMMA BooksKept ==
    ASSUME CallInv, inUse \in [Providers -> Nat], NEW c \in Calls, Apart(c), CallTyped',
           at'[c] \in Providers <=> phase'[c] \in Held,
           \A p \in Providers :
              /\ Runs(c, p)' /\ ~Runs(c, p) => inUse'[p] = inUse[p] + 1
              /\ Runs(c, p) /\ ~Runs(c, p)' => inUse'[p] = inUse[p] - 1
              /\ (Runs(c, p) <=> Runs(c, p)') => inUse'[p] = inUse[p],
           \A p \in Providers :
              /\ Holds(c, p)' /\ ~Holds(c, p) => inflight'[p] = inflight[p] + 1
              /\ Holds(c, p) /\ ~Holds(c, p)' => inflight'[p] >= inflight[p] - 1
              /\ (Holds(c, p) <=> Holds(c, p)') => inflight'[p] = inflight[p],
           NoLostWakeup'
    PROVE  CallInv'
<1>1. Placed'
  <2>1. ASSUME NEW d \in Calls \ {c} PROVE at'[d] \in Providers <=> phase'[d] \in Held
    BY DEF Apart, CallInv, Placed, Held
  <2> QED BY <2>1 DEF Placed
<1>2. ASSUME NEW p \in Providers PROVE inUse'[p] = Cardinality(With(p, {"running"}))'
  <2>1. inUse[p] = Cardinality(With(p, {"running"})) /\ inUse[p] \in Nat
    BY DEF CallInv, CountsAreBacked
  <2>2. /\ c \in With(p, {"running"}) <=> Runs(c, p)
        /\ c \in With(p, {"running"})' <=> Runs(c, p)'
    BY DEF With, Runs
  <2> QED BY <2>1, <2>2, OneMoves
<1>3. ASSUME NEW p \in Providers PROVE inflight'[p] >= Cardinality(With(p, Held))'
  <2>1. /\ inflight[p] >= Cardinality(With(p, Held))
        /\ inflight[p] \in Nat /\ inflight'[p] \in Nat
    BY DEF CallInv, CountsAreBacked, Held, CallTyped
  <2>2. /\ c \in With(p, Held) <=> Holds(c, p)
        /\ c \in With(p, Held)' <=> Holds(c, p)'
    BY DEF With, Holds
  <2>3. Cardinality(With(p, Held)) \in Nat
    BY WithFinite
  <2> QED BY <2>1, <2>2, <2>3, OneMoves
<1>4. CountsAreBacked'
  BY <1>2, <1>3 DEF CountsAreBacked, Held
<1> QED BY <1>1, <1>4 DEF CallInv

-----------------------------------------------------------------------------
(* The steps.                                                              *)

\* A step that is with no provider before or after.
LEMMA AwayFromProviders ==
    ASSUME CallInv, LimiterInv, NEW c \in Calls,
           NEW to \in {"idle", "selecting", "sleeping", "returned", "raised", "cancelled"},
           phase[c] \notin Held, phase' = [phase EXCEPT ![c] = to],
           UNCHANGED <<inflight, limiters, at>>, CallTyped'
    PROVE  CallInv'
<1>1. phase'[c] = to /\ to \notin Held /\ at'[c] = at[c] /\ at[c] \notin Providers
  BY DEF CallInv, CallTyped, Placed, Held
<1>2. Apart(c)
  BY DEF Apart, CallInv, CallTyped
<1>3. \A p \in Providers : ~Holds(c, p) /\ ~Holds(c, p)' /\ ~Runs(c, p) /\ ~Runs(c, p)'
  BY <1>1 DEF Holds, Runs
<1>4. NoLostWakeup'
  <2>1. \A d \in Calls : phase'[d] = "queued" => phase[d] = "queued"
    BY <1>1, <1>2 DEF Apart, Held
  <2> QED BY <2>1 DEF NoLostWakeup, CallInv, limiters
<1>5. inUse' = inUse /\ inflight' = inflight
  BY DEF limiters
<1> QED BY <1>1, <1>2, <1>3, <1>4, <1>5, BooksKept DEF LimiterInv

\* Whom a call may select is registered.
LEMMA SelectableAreProviders ==
    ASSUME NEW c \in Calls
    PROVE  Selectable(c) \subseteq Providers
<1>1. Candidates(c) \subseteq Providers
  BY RouterAssumption DEF RouterAssumption, Candidates
<1>2. Admissible(c) \subseteq Candidates(c)
  BY DEF Admissible
<1>3. Healthy(c) \subseteq Providers /\ CanaryChoice(c) \subseteq Providers
  BY <1>1, <1>2 DEF Healthy, CanaryChoice
<1>4. HealthyChoice(c) \subseteq Healthy(c)
  BY DEF HealthyChoice
<1> QED BY <1>3, <1>4 DEF Selectable

\* A call that comes to a limiter, or looks at it again, runs or queues.
LEMMA AdmittedOrQueued ==
    ASSUME CallInv, LimiterInv,
           NEW c \in Calls, NEW p \in Providers, NEW waited \in BOOLEAN,
           at' = [at EXCEPT ![c] = p],
           Take(c, p, waited) \/ Queue(c, p),
           phase[c] # "running",
           \/ phase[c] \in Held /\ at[c] = p /\ UNCHANGED inflight
           \/ phase[c] \notin Held /\ inflight' = [inflight EXCEPT ![p] = @ + 1],
           excluded' \in [Calls -> SUBSET Providers],
           tries' \in [Calls -> 0 .. MaxAttempts],
           late' = late
    PROVE  CallInv'
<1>1. PICK to \in {"running", "queued"} :
         /\ phase' = [phase EXCEPT ![c] = to]
         /\ to = "running" => Take(c, p, waited)
         /\ to = "queued" => Queue(c, p)
  BY DEF Take, Queue
<1>2. phase'[c] = to /\ to \in Held /\ at'[c] = p /\ p # NoProvider
  BY <1>1, RouterAssumption DEF CallInv, CallTyped, Held, RouterAssumption
<1>3. Apart(c)
  BY <1>1 DEF Apart, CallInv, CallTyped
<1>4. saturated' \in [Calls -> BOOLEAN]
  <2>1. CASE to = "running"
    <3>1. saturated' = [saturated EXCEPT ![c] = waited \/ inUse[p] + 1 >= limit[p]]
      BY <1>1, <2>1 DEF Take
    <3>2. (waited \/ inUse[p] + 1 >= limit[p]) \in BOOLEAN
      OBVIOUS
    <3> QED BY <3>1, <3>2 DEF CallInv, CallTyped
  <2>2. CASE to = "queued"
    BY <1>1, <2>2 DEF Queue, CallInv, CallTyped
  <2> QED BY <2>1, <2>2
<1>5. inflight' \in [Providers -> Nat]
  BY DEF CallInv, CallTyped
<1>6. phase' \in [Calls -> Held \union {"idle", "selecting", "sleeping", "returned",
                                       "raised", "cancelled"}]
  BY <1>1, <1>2 DEF CallInv, CallTyped
<1>7. CallTyped'
  BY <1>3, <1>4, <1>5, <1>6 DEF CallTyped, CallInv, Apart
<1>8. ASSUME NEW q \in Providers
      PROVE  /\ Runs(c, q)' /\ ~Runs(c, q) => inUse'[q] = inUse[q] + 1
             /\ Runs(c, q) /\ ~Runs(c, q)' => inUse'[q] = inUse[q] - 1
             /\ (Runs(c, q) <=> Runs(c, q)') => inUse'[q] = inUse[q]
  <2>1. ~Runs(c, q) /\ (Runs(c, q)' <=> q = p /\ to = "running")
    BY <1>2 DEF Runs
  <2>2. CASE to = "running"
    BY <1>1, <2>1, <2>2 DEF Take, LimiterInv
  <2>3. CASE to = "queued"
    BY <1>1, <2>1, <2>3 DEF Queue, limiters
  <2> QED BY <2>2, <2>3
<1>9. ASSUME NEW q \in Providers
      PROVE  /\ Holds(c, q)' /\ ~Holds(c, q) => inflight'[q] = inflight[q] + 1
             /\ Holds(c, q) /\ ~Holds(c, q)' => inflight'[q] >= inflight[q] - 1
             /\ (Holds(c, q) <=> Holds(c, q)') => inflight'[q] = inflight[q]
  <2>1. Holds(c, q)' <=> q = p
    BY <1>2 DEF Holds
  <2>2. CASE phase[c] \in Held /\ at[c] = p /\ UNCHANGED inflight
    <3>1. Holds(c, q) <=> q = p
      BY <2>2 DEF Holds
    <3> QED BY <2>1, <2>2, <3>1
  <2>3. CASE phase[c] \notin Held /\ inflight' = [inflight EXCEPT ![p] = @ + 1]
    <3>1. ~Holds(c, q)
      BY <2>3 DEF Holds
    <3> QED BY <2>1, <2>3, <3>1 DEF CallInv, CallTyped
  <2> QED BY <2>2, <2>3
<1>10. NoLostWakeup'
  <2> SUFFICES ASSUME NEW d \in Calls, phase'[d] = "queued"
               PROVE  inUse'[at'[d]] >= limit'[at'[d]]
    BY DEF NoLostWakeup
  <2>1. CASE d = c
    <3>1. to = "queued" /\ at'[d] = p
      BY <1>2, <2>1
    <3>2. inUse[p] >= limit[p] /\ inUse' = inUse /\ limit' = limit
      BY <1>1, <3>1 DEF Queue, limiters
    <3> QED BY <3>1, <3>2, Zenon
  <2>2. CASE d # c
    <3>1. phase[d] = "queued" /\ at'[d] = at[d] /\ at[d] \in Providers
      BY <1>3, <2>2 DEF Apart, CallInv, Placed, Held
    <3>2. inUse[at[d]] >= limit[at[d]]
      BY <3>1 DEF CallInv, NoLostWakeup
    <3>3. limit' = limit /\ inUse'[at[d]] \in Nat /\ inUse'[at[d]] >= inUse[at[d]]
      <4>1. CASE to = "running"
        BY <1>1, <3>1, <4>1 DEF Take, LimiterInv
      <4>2. CASE to = "queued"
        BY <1>1, <3>1, <4>2 DEF Queue, limiters, LimiterInv
      <4> QED BY <4>1, <4>2
    <3> QED BY <3>1, <3>2, <3>3 DEF LimiterInv
  <2> QED BY <2>1, <2>2
<1> QED BY <1>2, <1>3, <1>7, <1>8, <1>9, <1>10, BooksKept DEF LimiterInv

\* A call that ends frees its place, is taken off the router's count, and
\* notifies every call that queues for the provider.
LEMMA ProviderLeft ==
    ASSUME CallInv, LimiterInv, NEW c \in Calls, NEW rateLimited \in BOOLEAN,
           NEW next \in {"selecting", "returned", "cancelled"},
           phase[c] = "running", LeaveProvider(c, rateLimited, next),
           excluded' \in [Calls -> SUBSET Providers], UNCHANGED <<tries, late>>
    PROVE  CallInv'
<1> DEFINE p == at[c]
           moved == [phase EXCEPT ![c] = next]
<1>1. /\ at' = [at EXCEPT ![c] = NoProvider]
      /\ phase' = NotifyAll(p, moved)
      /\ saturated' = [saturated EXCEPT ![c] = FALSE]
      /\ inflight' = [inflight EXCEPT ![p] = Most(0, inflight[p] - 1)]
      /\ inUse' = [inUse EXCEPT ![p] = Most(0, inUse[p] - 1)]
  BY DEF LeaveProvider, Release
<1>2. p \in Providers /\ NoProvider \notin Providers
  BY RouterAssumption DEF CallInv, Placed, Held, RouterAssumption
<1>3. inUse[p] >= 1 /\ inflight[p] >= 1 /\ inUse[p] \in Nat /\ inflight[p] \in Nat
  BY <1>2, RunningIsCounted DEF LimiterInv, CallInv, CallTyped, Held
<1>4. Most(0, inUse[p] - 1) = inUse[p] - 1 /\ Most(0, inflight[p] - 1) = inflight[p] - 1
  BY <1>3 DEF Most
<1>5. phase' = [d \in Calls |-> IF moved[d] = "queued" /\ at[d] = p THEN "woken"
                                ELSE moved[d]]
  BY <1>1 DEF NotifyAll
<1>6. phase'[c] = next /\ next \notin Held /\ at'[c] = NoProvider
  BY <1>1, <1>5 DEF CallInv, CallTyped, Held
<1>7. \A d \in Calls \ {c} : moved[d] = phase[d] /\ at'[d] = at[d]
  BY <1>1 DEF CallInv, CallTyped
<1>8. \A d \in Calls \ {c} :
         phase'[d] = IF phase[d] = "queued" /\ at[d] = p THEN "woken" ELSE phase[d]
  BY <1>5, <1>7
<1> HIDE DEF p, moved
<1>9. Apart(c)
  <2>1. at' \in [Calls -> Providers \union {NoProvider}] /\ DOMAIN phase' = Calls
    BY <1>1, <1>5 DEF CallInv, CallTyped
  <2> QED BY <1>7, <1>8, <2>1 DEF Apart
<1>10. CallTyped'
  <2>1. inflight' \in [Providers -> Nat]
    <3>1. Most(0, inflight[p] - 1) \in Nat
      BY <1>3, <1>4
    <3> QED BY <1>1, <3>1 DEF CallInv, CallTyped
  <2>2. saturated' \in [Calls -> BOOLEAN]
    BY <1>1 DEF CallInv, CallTyped
  <2>3. phase' \in [Calls -> Held \union {"idle", "selecting", "sleeping", "returned",
                                         "raised", "cancelled"}]
    <3>1. ASSUME NEW d \in Calls
          PROVE  phase'[d] \in Held \union {"idle", "selecting", "sleeping", "returned",
                                         "raised", "cancelled"}
      BY <1>6, <1>8 DEF CallInv, CallTyped, Held
    <3>2. phase' = [d \in Calls |-> phase'[d]]
      BY <1>5
    <3> QED BY <3>1, <3>2
  <2> QED BY <1>9, <2>1, <2>2, <2>3 DEF CallTyped, CallInv, Apart
<1>11. ASSUME NEW q \in Providers
       PROVE  /\ ~Runs(c, q)' /\ (Runs(c, q) <=> q = p)
              /\ ~Holds(c, q)' /\ (Holds(c, q) <=> q = p)
  BY <1>2, <1>6 DEF Runs, Holds, Held, p
<1>12. ASSUME NEW q \in Providers
       PROVE  /\ q = p => inUse'[q] = inUse[q] - 1 /\ inflight'[q] = inflight[q] - 1
              /\ q # p => inUse'[q] = inUse[q] /\ inflight'[q] = inflight[q]
  BY <1>1, <1>4 DEF LimiterInv, CallInv, CallTyped
<1>13. NoLostWakeup'
  <2> SUFFICES ASSUME NEW d \in Calls, phase'[d] = "queued"
               PROVE  inUse'[at'[d]] >= limit'[at'[d]]
    BY DEF NoLostWakeup
  <2>1. d # c
    BY <1>6 DEF Held
  <2>2. phase[d] = "queued" /\ at[d] # p /\ at'[d] = at[d]
    BY <1>7, <1>8, <2>1
  <2>3. at[d] \in Providers
    BY <2>2 DEF CallInv, Placed, Held
  <2>4. limit'[at[d]] = limit[at[d]]
    BY <2>2, <2>3 DEF LeaveProvider, Release, p, LimiterInv
  <2> QED BY <1>12, <2>2, <2>3, <2>4 DEF CallInv, NoLostWakeup
<1>14. at'[c] \in Providers <=> phase'[c] \in Held
  BY <1>2, <1>6
<1> QED
  BY <1>3, <1>9, <1>10, <1>11, <1>12, <1>13, <1>14, BooksKept
  DEF LimiterInv, CallInv, CallTyped

\* A call cancelled in the queue leaves its router's count behind.
LEMMA QueueLeft ==
    ASSUME CallInv, LimiterInv, NEW c \in Calls, CancelQueued(c)
    PROVE  CallInv'
<1>1. /\ phase[c] \in {"queued", "woken"}
      /\ phase' = [phase EXCEPT ![c] = "cancelled"]
      /\ at' = [at EXCEPT ![c] = NoProvider]
      /\ UNCHANGED <<inflight, limit, inUse, saturated, excluded, tries, late>>
  BY DEF CancelQueued, limiters
<1>2. phase'[c] = "cancelled" /\ at'[c] = NoProvider /\ at[c] \in Providers
  BY <1>1 DEF CallInv, CallTyped, Placed, Held
<1>3. Apart(c)
  BY <1>1 DEF Apart, CallInv, CallTyped
<1>4. CallTyped'
  BY <1>1 DEF CallInv, CallTyped
<1>5. at'[c] \in Providers <=> phase'[c] \in Held
  BY <1>2, RouterAssumption DEF RouterAssumption, Held
<1>6. \A q \in Providers : ~Runs(c, q) /\ ~Runs(c, q)' /\ ~Holds(c, q)'
  BY <1>1, <1>2 DEF Runs, Holds, Held
<1>7. ASSUME NEW q \in Providers
      PROVE  inflight'[q] >= inflight[q] - 1 /\ inflight'[q] = inflight[q]
  BY <1>1 DEF CallInv, CallTyped
<1>8. NoLostWakeup'
  <2>1. \A d \in Calls : phase'[d] = "queued" => phase[d] = "queued" /\ at'[d] = at[d]
    BY <1>1, <1>2, <1>3 DEF Apart
  <2> QED BY <1>1, <2>1 DEF CallInv, NoLostWakeup
<1> QED BY <1>1, <1>3, <1>4, <1>5, <1>6, <1>7, <1>8, BooksKept DEF LimiterInv

LEMMA CallNext ==
    ASSUME CallInv, LimiterInv, [Next]_vars
    PROVE  CallInv'
<1> USE DEF CallInv
<1>1. CASE UNCHANGED vars
  BY <1>1 DEF vars, limiters, call, CallTyped, Placed, CountsAreBacked, NoLostWakeup, With
<1>2. ASSUME NEW c \in Calls,
             Start(c) \/ WaitForProvider(c) \/ WakeUp(c) \/ GiveUp(c) \/ CancelSleeping(c)
      PROVE  CallInv'
  <2>1. PICK to \in {"selecting", "sleeping", "raised", "cancelled"} :
           phase' = [phase EXCEPT ![c] = to]
    BY <1>2 DEF Start, WaitForProvider, WakeUp, GiveUp, CancelSleeping
  <2>2. phase[c] \notin Held /\ UNCHANGED <<inflight, limiters, at, saturated, tries, late>>
    BY <1>2 DEF Start, WaitForProvider, WakeUp, GiveUp, CancelSleeping, Held
  <2>3. excluded' = excluded \/ excluded' = [excluded EXCEPT ![c] = {}]
    BY <1>2 DEF Start, WaitForProvider, WakeUp, GiveUp, CancelSleeping
  <2>4. CallTyped'
    BY <2>1, <2>2, <2>3 DEF CallTyped
  <2> QED BY <2>1, <2>2, <2>4, AwayFromProviders
<1>3. ASSUME NEW c \in Calls, BudgetEnds(c) PROVE CallInv'
  BY <1>3 DEF BudgetEnds, limiters, call, CallTyped, Placed, CountsAreBacked, NoLostWakeup,
              With
<1>4. ASSUME NEW p \in Providers, CooldownEnds(p) PROVE CallInv'
  BY <1>4 DEF CooldownEnds, limiters, call, CallTyped, Placed, CountsAreBacked, NoLostWakeup,
              With
<1>5. ASSUME NEW c \in Calls, Route(c) PROVE CallInv'
  <2>1. PICK p \in Selectable(c) :
           /\ inflight' = [inflight EXCEPT ![p] = @ + 1]
           /\ at' = [at EXCEPT ![c] = p]
           /\ Take(c, p, FALSE) \/ Queue(c, p)
    BY <1>5 DEF Route
  <2>2. p \in Providers /\ phase[c] \notin Held /\ phase[c] # "running"
    BY <1>5, SelectableAreProviders DEF Route, Held
  <2>3. Least(MaxAttempts, tries[c] + 1) \in 0 .. MaxAttempts
    BY RouterAssumption DEF RouterAssumption, CallTyped, Least
  <2>4. tries' \in [Calls -> 0 .. MaxAttempts] /\ excluded' = excluded /\ late' = late
    BY <1>5, <2>3 DEF Route, CallTyped
  <2> QED BY <2>1, <2>2, <2>4, AdmittedOrQueued DEF CallTyped
<1>6. ASSUME NEW c \in Calls, LookAgain(c) PROVE CallInv'
  <2>1. /\ phase[c] \in Held /\ phase[c] # "running" /\ at[c] \in Providers
        /\ at' = [at EXCEPT ![c] = at[c]]
    BY <1>6 DEF LookAgain, Held, Placed, CallTyped
  <2>2. /\ Take(c, at[c], TRUE) \/ Queue(c, at[c])
        /\ UNCHANGED <<inflight, excluded, tries, late>>
    BY <1>6 DEF LookAgain
  <2>3. PICK waited \in BOOLEAN : Take(c, at[c], waited) \/ Queue(c, at[c])
    BY <2>2
  <2> QED BY <2>1, <2>2, <2>3, AdmittedOrQueued DEF CallTyped
<1>7. ASSUME NEW c \in Calls, Answered(c) \/ Failed(c) \/ CancelRunning(c) PROVE CallInv'
  <2>1. PICK rateLimited \in BOOLEAN, next \in {"selecting", "returned", "cancelled"} :
           LeaveProvider(c, rateLimited, next)
    BY <1>7 DEF Answered, Failed, CancelRunning
  <2>2. phase[c] = "running" /\ UNCHANGED <<tries, late>>
    BY <1>7 DEF Answered, Failed, CancelRunning
  <2>3. at[c] \in Providers
    BY <2>2 DEF Placed, Held
  <2>4. excluded' \in [Calls -> SUBSET Providers]
    <3>1. excluded' = excluded \/ excluded' = [excluded EXCEPT ![c] = @ \union {at[c]}]
      BY <1>7 DEF Answered, Failed, CancelRunning
    <3> QED BY <2>3, <3>1 DEF CallTyped
  <2> QED BY <2>1, <2>2, <2>4, ProviderLeft
<1>8. ASSUME NEW c \in Calls, CancelQueued(c) PROVE CallInv'
  BY <1>8, QueueLeft
<1> QED BY <1>1, <1>2, <1>3, <1>4, <1>5, <1>6, <1>7, <1>8 DEF Next, Proceed, Exchange, Cancel

\* The invariant of the pool.
THEOREM PoolInvariant == Spec => [](LimiterInv /\ HealthInv /\ CallInv)
<1>1. Init => LimiterInv
  BY FloorIsPositive, RouterAssumption
  DEF RouterAssumption, Init, LimiterInv, AbsoluteCap
<1>2. Init => CallInv
  <2> SUFFICES ASSUME Init PROVE CallInv
    OBVIOUS
  <2>1. CallTyped /\ Placed /\ NoLostWakeup
    BY RouterAssumption DEF RouterAssumption, Init, CallTyped, Placed, NoLostWakeup, Held
  <2>2. ASSUME NEW p \in Providers, NEW phases, "idle" \notin phases
        PROVE  Cardinality(With(p, phases)) = 0
    <3>1. With(p, phases) = {}
      BY <2>2 DEF Init, With
    <3> QED BY <3>1, FS_EmptySet
  <2>3. CountsAreBacked
    BY <2>2 DEF Init, CountsAreBacked
  <2> QED BY <2>1, <2>3 DEF CallInv
<1>3. LimiterInv /\ HealthInv /\ CallInv /\ [Next]_vars
         => (LimiterInv /\ HealthInv /\ CallInv)'
  BY LimitersStep, HealthNext, CallNext
<1> QED BY <1>1, <1>2, <1>3, HealthInvariant, PTL DEF Spec

\* The bookkeeping of the pool (llm_pool._invoke, _AdaptiveLimiter and
\* IntentRouter): through every failure, cancellation and late answer, for any
\* number of calls, a limiter counts the calls that run and no others, the
\* router never counts too few, and a probe is outstanding only on probation.
THEOREM PoolInOrderHolds == Spec => []PoolInOrder
<1>1. LimiterInv /\ HealthInv /\ CallInv => PoolInOrder
  BY DEF LimiterInv, HealthInv, CallInv, PoolInOrder, RouterTypeOK, CallTyped, Healths, Held,
         CanaryOnProbation, Sound
<1> QED BY <1>1, PoolInvariant, PTL

\* No lost wake-up (_AdaptiveLimiter.acquire and release): a call sleeps in a
\* limiter's queue only while the limiter is full.
THEOREM NoLostWakeupHolds == Spec => []NoLostWakeup
<1>1. CallInv => NoLostWakeup
  BY DEF CallInv
<1> QED BY <1>1, PoolInvariant, PTL
=============================================================================
