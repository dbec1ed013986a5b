--------------------------- MODULE ProviderRouter ---------------------------
(***************************************************************************)
(* The provider pool (llm/llm_pool.py) with its intent router              *)
(* (llm/router.py) and the adaptive limiter of each provider.              *)
(*                                                                         *)
(* A routed call selects a provider, queues for its limiter, runs, reports *)
(* its outcome to the router, and tries another provider or waits for one  *)
(* until its budget is spent.  A call that names its provider touches none *)
(* of this state (no limiter, a health of its own) and is left out.        *)
(* Everything between two awaits is one step; cooldowns and budgets run    *)
(* out at any moment.                                                      *)
(***************************************************************************)
EXTENDS Integers, Sequences, FiniteSets, SequencesExt

CONSTANTS
    Calls,          \* calls of the pool
    Providers,      \* registered providers that serve the intent
    NoProvider,     \* no provider
    Order,          \* the preferred order of the intent, <<>> for none
    Spread,         \* the intent is in spread mode
    Capped,         \* providers that publish a cap
    Deadlined,      \* providers whose client ends every exchange by itself
    Floor,          \* provider -> the floor of its limiter (its cap, if it has one)
    Headroom,       \* _DYNAMIC_HEADROOM
    MaxAttempts,    \* tries a call may wait for whatever its budget
    DegradeAfter,   \* DEGRADE_AFTER_FAILURES
    Trips           \* cooldown_count beyond which the cooldown is longest (bound)

ASSUME RouterAssumption ==
    /\ IsFiniteSet(Calls)
    /\ NoProvider \notin Providers
    /\ ToSet(Order) \subseteq Providers
    /\ Spread \in BOOLEAN
    /\ Capped \subseteq Providers
    /\ Deadlined \subseteq Providers
    /\ Floor \in [Providers -> Nat \ {0}]
    /\ Headroom \in Nat
    /\ MaxAttempts \in Nat
    /\ DegradeAfter \in Nat \ {0}
    /\ Trips \in Nat

VARIABLES
    health,     \* provider -> its _Health for the intent
    inflight,   \* provider -> the router's in-flight count
    limit,      \* provider -> the limiter's limit
    inUse,      \* provider -> the limiter's in_flight
    phase,      \* call -> where it is
    at,         \* call -> the provider it is with
    saturated,  \* call -> acquire() found the limiter full
    excluded,   \* call -> providers that failed it
    tries,      \* call -> its tries, up to MaxAttempts
    late        \* call -> its budget is spent

limiters == <<limit, inUse>>
call == <<phase, at, saturated, excluded, tries>>
vars == <<health, inflight, limiters, call, late>>

HardMax(p) == Floor[p] + Headroom

Init ==
    /\ health = [p \in Providers |->
                    [streak |-> 0, state |-> "clean", canary |-> FALSE, trips |-> 0]]
    /\ inflight = [p \in Providers |-> 0]
    /\ limit = Floor
    /\ inUse = [p \in Providers |-> 0]
    /\ phase = [c \in Calls |-> "idle"]
    /\ at = [c \in Calls |-> NoProvider]
    /\ saturated = [c \in Calls |-> FALSE]
    /\ excluded = [c \in Calls |-> {}]
    /\ tries = [c \in Calls |-> 0]
    /\ late = [c \in Calls |-> FALSE]

-----------------------------------------------------------------------------
(* Selection.  A preferred order is authoritative for candidacy.           *)

Candidates(c) == (IF Order = <<>> THEN Providers ELSE ToSet(Order)) \ excluded[c]

AtCapacity(p) == p \in Capped /\ inflight[p] >= Floor[p]

\* Admission is a preference: when all are saturated, all are candidates.
Admissible(c) ==
    LET free == {p \in Candidates(c) : ~AtCapacity(p)}
    IN IF free # {} THEN free ELSE Candidates(c)

Healthy(c) == {p \in Admissible(c) : health[p].state = "clean"}

\* The first in order; any of them without an order (a weighted choice), and
\* in spread mode for a call that has not failed yet (the rotation).
HealthyChoice(c) ==
    IF Order = <<>> \/ (Spread /\ excluded[c] = {}) THEN Healthy(c)
    ELSE {p \in Healthy(c) : \E i \in DOMAIN Order :
             Order[i] = p /\ \A j \in 1 .. i - 1 : Order[j] \notin Healthy(c)}

\* The longest elapsed: times are abstracted, so any elapsed one.
CanaryChoice(c) == {p \in Admissible(c) : health[p].state = "elapsed"}

Selectable(c) == IF Healthy(c) # {} THEN HealthyChoice(c) ELSE CanaryChoice(c)

Canaried(p, h) ==
    IF h[p].state = "elapsed" THEN [h EXCEPT ![p].canary = TRUE] ELSE h

-----------------------------------------------------------------------------
(* The limiter: acquire() and release() never suspend on the condition's   *)
(* lock, so each is a part of its caller's step.                           *)

Take(c, p, waited) ==
    /\ inUse[p] < limit[p]
    /\ inUse' = [inUse EXCEPT ![p] = @ + 1]
    /\ phase' = [phase EXCEPT ![c] = "running"]
    /\ saturated' = [saturated EXCEPT ![c] = waited \/ inUse[p] + 1 >= limit[p]]
    /\ UNCHANGED limit

Queue(c, p) ==
    /\ inUse[p] >= limit[p]
    /\ phase' = [phase EXCEPT ![c] = "queued"]
    /\ UNCHANGED <<limiters, saturated>>

Least(a, b) == IF a < b THEN a ELSE b
Most(a, b) == IF a < b THEN b ELSE a

\* phases: the phases after the caller's own move, to which the wake-up adds.
NotifyUnlessFull(p, phases) ==
    [d \in Calls |-> IF phases[d] = "queued" /\ at[d] = p /\ inUse[p] < limit[p]
                     THEN "woken" ELSE phases[d]]

NotifyAll(p, phases) ==
    [d \in Calls |-> IF phases[d] = "queued" /\ at[d] = p THEN "woken" ELSE phases[d]]

Release(c, rateLimited) ==
    LET p == at[c] IN
    /\ inUse' = [inUse EXCEPT ![p] = Most(0, @ - 1)]
    /\ limit' = [limit EXCEPT ![p] =
          IF rateLimited THEN Most(Floor[p], @ - 1)
          ELSE IF saturated[c] THEN Least(HardMax(p), @ + 1) ELSE @]

\* The end of _invoke: the limiter is released and the router told.
LeaveProvider(c, rateLimited, next) ==
    /\ Release(c, rateLimited)
    /\ inflight' = [inflight EXCEPT ![at[c]] = Most(0, @ - 1)]
    /\ phase' = NotifyAll(at[c], [phase EXCEPT ![c] = next])
    /\ at' = [at EXCEPT ![c] = NoProvider]
    /\ saturated' = [saturated EXCEPT ![c] = FALSE]

-----------------------------------------------------------------------------
(* The router's record of outcomes.                                        *)

NextTrip(n) == IF n < Trips THEN n + 1 ELSE n

Tripped(h) == [h EXCEPT !.state = "cooling", !.canary = FALSE, !.trips = NextTrip(@)]

RecordSuccess(p) ==
    health' = [health EXCEPT ![p] =
        IF @.canary THEN [streak |-> 0, state |-> "clean", canary |-> FALSE, trips |-> 0]
        ELSE [@ EXCEPT !.streak = 0]]

RecordFailureEveryTime(p, rateLimited) ==
    LET streak == Least(DegradeAfter, health[p].streak + 1)
        failed == [health[p] EXCEPT !.streak = streak]
    IN health' = [health EXCEPT ![p] =
          IF failed.canary \/ rateLimited \/ streak = DegradeAfter
          THEN Tripped(failed) ELSE failed]

\* A failed canary cools again; another failure trips a provider that is not
\* cooling when it is a rate limit or one in a row too many.
RecordFailure(p, rateLimited) ==
    LET streak == Least(DegradeAfter, health[p].streak + 1)
        failed == [health[p] EXCEPT !.streak = streak]
    IN health' = [health EXCEPT ![p] =
          IF \/ failed.canary
             \/ failed.state # "cooling" /\ (rateLimited \/ streak = DegradeAfter)
          THEN Tripped(failed) ELSE failed]

-----------------------------------------------------------------------------
(* Routed calls.                                                           *)

Start(c) ==
    /\ phase[c] = "idle"
    /\ phase' = [phase EXCEPT ![c] = "selecting"]
    /\ UNCHANGED <<health, inflight, limiters, at, saturated, excluded, tries, late>>

Route(c) ==
    /\ phase[c] = "selecting"
    /\ \E p \in Selectable(c) :
          /\ health' = Canaried(p, health)
          /\ inflight' = [inflight EXCEPT ![p] = @ + 1]
          /\ at' = [at EXCEPT ![c] = p]
          /\ Take(c, p, FALSE) \/ Queue(c, p)
    /\ tries' = [tries EXCEPT ![c] = Least(MaxAttempts, @ + 1)]
    /\ UNCHANGED <<excluded, late>>

MayWaitAlways(c) == Order # <<>> \/ Providers # {}

MayWait(c) == (Order # <<>> \/ Providers # {}) /\ (~late[c] \/ tries[c] < MaxAttempts)

WaitForProvider(c) ==
    /\ phase[c] = "selecting"
    /\ Selectable(c) = {}
    /\ MayWait(c)
    /\ phase' = [phase EXCEPT ![c] = "sleeping"]
    /\ UNCHANGED <<health, inflight, limiters, at, saturated, excluded, tries, late>>

\* After the sleep the providers that failed this call may be tried again.
WakeUp(c) ==
    /\ phase[c] = "sleeping"
    /\ phase' = [phase EXCEPT ![c] = "selecting"]
    /\ excluded' = [excluded EXCEPT ![c] = {}]
    /\ UNCHANGED <<health, inflight, limiters, at, saturated, tries, late>>

GiveUp(c) ==
    /\ phase[c] = "selecting"
    /\ Selectable(c) = {}
    /\ ~MayWait(c)
    /\ phase' = [phase EXCEPT ![c] = "raised"]
    /\ UNCHANGED <<health, inflight, limiters, at, saturated, excluded, tries, late>>

\* A waiter that was notified looks again; another call may have come first.
LookAgain(c) ==
    /\ phase[c] = "woken"
    /\ Take(c, at[c], TRUE) \/ Queue(c, at[c])
    /\ UNCHANGED <<health, inflight, at, excluded, tries, late>>

Answered(c) ==
    /\ phase[c] = "running"
    /\ LeaveProvider(c, FALSE, "returned")
    /\ RecordSuccess(at[c])
    /\ UNCHANGED <<excluded, tries, late>>

Failed(c) ==
    /\ phase[c] = "running"
    /\ \E rateLimited \in BOOLEAN :
          /\ LeaveProvider(c, rateLimited, "selecting")
          /\ RecordFailure(at[c], rateLimited)
    /\ excluded' = [excluded EXCEPT ![c] = @ \union {at[c]}]
    /\ UNCHANGED <<tries, late>>

CancelRunningLeaks(c) ==
    /\ phase[c] = "running"
    /\ phase' = [phase EXCEPT ![c] = "cancelled"]
    /\ at' = [at EXCEPT ![c] = NoProvider]
    /\ UNCHANGED <<health, inflight, limiters, saturated, excluded, tries, late>>

\* A cancelled call reports nothing to the router's health; the limiter takes
\* its end for a clean one.
CancelRunning(c) ==
    /\ phase[c] = "running"
    /\ LeaveProvider(c, FALSE, "cancelled")
    /\ UNCHANGED <<health, excluded, tries, late>>

\* A call cancelled in the limiter's queue is still outside the try block.
CancelQueued(c) ==
    /\ phase[c] \in {"queued", "woken"}
    /\ phase' = [phase EXCEPT ![c] = "cancelled"]
    /\ at' = [at EXCEPT ![c] = NoProvider]
    /\ UNCHANGED <<health, inflight, limiters, saturated, excluded, tries, late>>

CancelSleeping(c) ==
    /\ phase[c] = "sleeping"
    /\ phase' = [phase EXCEPT ![c] = "cancelled"]
    /\ UNCHANGED <<health, inflight, limiters, at, saturated, excluded, tries, late>>

-----------------------------------------------------------------------------
CooldownEnds(p) ==
    /\ health[p].state = "cooling"
    /\ health' = [health EXCEPT ![p].state = "elapsed"]
    /\ UNCHANGED <<inflight, limiters, call, late>>

BudgetEnds(c) ==
    /\ ~late[c]
    /\ phase[c] \in {"selecting", "sleeping", "queued", "woken", "running"}
    /\ late' = [late EXCEPT ![c] = TRUE]
    /\ UNCHANGED <<health, inflight, limiters, call>>

Proceed(c) ==
    \/ Route(c) \/ WaitForProvider(c) \/ WakeUp(c) \/ GiveUp(c) \/ LookAgain(c)

\* The end of an exchange that was not cancelled.
Exchange(c) == Answered(c) \/ Failed(c)

Cancel(c) == CancelRunning(c) \/ CancelQueued(c) \/ CancelSleeping(c)

Next ==
    \/ \E c \in Calls :
          Start(c) \/ Proceed(c) \/ Exchange(c) \/ Cancel(c) \/ BudgetEnds(c)
    \/ \E p \in Providers : CooldownEnds(p)

Spec == Init /\ [][Next]_vars

\* The event loop runs every task that can run, and time passes.  The pool sets
\* no deadline on an exchange, and its budget is looked at between two tries
\* only: an exchange is sure to end where the client bounds it (the idle and the
\* total limit of a stream, the timeout of a request), and with a provider
\* whose client does not, such as the local CLI, it may hang for ever.
FairSpec ==
    /\ Spec
    /\ \A c \in Calls :
          /\ WF_vars(Proceed(c)) /\ WF_vars(BudgetEnds(c))
          /\ WF_vars(at[c] \in Deadlined /\ Exchange(c))
    /\ \A p \in Providers : WF_vars(CooldownEnds(p))

-----------------------------------------------------------------------------
With(p, phases) == {c \in Calls : at[c] = p /\ phase[c] \in phases}

RouterTypeOK ==
    /\ health \in [Providers -> [streak : 0 .. DegradeAfter,
                                 state : {"clean", "cooling", "elapsed"},
                                 canary : BOOLEAN, trips : 0 .. Trips]]
    /\ inflight \in [Providers -> Nat]
    /\ limit \in [Providers -> Nat]
    /\ inUse \in [Providers -> Nat]
    /\ phase \in [Calls -> {"idle", "selecting", "sleeping", "queued", "woken", "running",
                            "returned", "raised", "cancelled"}]
    /\ at \in [Calls -> Providers \union {NoProvider}]
    /\ saturated \in [Calls -> BOOLEAN]
    /\ excluded \in [Calls -> SUBSET Providers]
    /\ tries \in [Calls -> 0 .. MaxAttempts]
    /\ late \in [Calls -> BOOLEAN]

\* "At most `limit` calls run at once": also when the limit falls while calls
\* run, and the limit keeps between the cap and the headroom.
AbsoluteCap ==
    \A p \in Providers :
       /\ inUse[p] <= limit[p]
       /\ limit[p] \in Floor[p] .. HardMax(p)

\* The limiter's count is the number of routed calls that run, through every
\* failure and cancellation, and the router never counts too few.
CountsAreBacked ==
    \A p \in Providers :
       /\ inUse[p] = Cardinality(With(p, {"running"}))
       /\ inflight[p] >= Cardinality(With(p, {"queued", "woken", "running"}))

\* A probe is outstanding only for a provider whose cooldown has elapsed: no
\* late answer of an older call can leave a clean provider on probation.
CanaryOnProbation == \A p \in Providers : health[p].canary => health[p].state = "elapsed"

\* The bookkeeping of the pool.
PoolInOrder == RouterTypeOK /\ AbsoluteCap /\ CountsAreBacked /\ CanaryOnProbation

\* No lost wake-up: a call sleeps in a limiter's queue only while it is full.
NoLostWakeup ==
    \A c \in Calls : phase[c] = "queued" => inUse[at[c]] >= limit[at[c]]

\* "One trip per window": however many calls fail in a burst, the cooldown of a
\* provider is not escalated while it runs.
OneTripPerWindow ==
    [][\A p \in Providers :
          health'[p].trips > health[p].trips => health[p].state # "cooling"]_vars

\* Every call ends, even when all providers keep failing, unless it stays for
\* ever with one provider that bounds no exchange, in its queue or in a call to
\* it: a hung exchange holds up the calls of its own provider and no other.
EveryRoutedCallEnds ==
    \A c \in Calls :
       phase[c] # "idle" ~>
          \/ phase[c] \in {"returned", "raised", "cancelled"}
          \/ \E p \in Providers \ Deadlined : [](at[c] = p)
=============================================================================
