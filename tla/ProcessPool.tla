---------------------------- MODULE ProcessPool -----------------------------
(***************************************************************************)
(* The admission of language-model calls in one process                    *)
(* (src/saddle/llm/pool.py): a cap on calls in flight, admission one at a  *)
(* time under a lock with a pause while host memory is short, batches with *)
(* a cooldown, and a fairness gate per tenant around each unit of work.    *)
(*                                                                         *)
(* A unit of work (a stage's coroutine) enters its tenant's gate and then  *)
(* makes its calls, together when it gathers several (the two critics of   *)
(* council._run_critiques).  The tasks run on one event loop: what lies    *)
(* between two awaits is one step.  A memory reading is "low" (below the   *)
(* resume mark), "mid" or "high" (at or above the ceiling) and may be any  *)
(* of them each time.  waited counts the polls of the task that holds the  *)
(* admission lock.  A task may be cancelled wherever it awaits.            *)
(***************************************************************************)
EXTENDS Integers, FiniteSets

CONSTANTS
    Tenants, Units, Requests,
    TenantOf,     \* unit -> its tenant
    UnitOf,       \* call -> the unit that makes it
    MaxProcs,     \* _MAX_PROCS
    TenantCap,    \* pool.tenant_max_concurrency
    BatchLow, BatchHigh, BatchThreshold,   \* batch sizes and where they switch
    MaxWait       \* polls before the memory deadline (_MEM_WAIT_DEADLINE_S)

ASSUME PoolAssumption ==
    /\ IsFiniteSet(Units)
    /\ IsFiniteSet(Requests)
    /\ TenantOf \in [Units -> Tenants]
    /\ UnitOf \in [Requests -> Units]
    /\ MaxProcs \in Nat \ {0}
    /\ TenantCap \in Nat \ {0}
    /\ BatchLow \in Nat \ {0}
    /\ BatchHigh \in Nat \ {0}
    /\ BatchThreshold \in Nat
    /\ MaxWait \in Nat \ {0}

VARIABLES
    unit,       \* unit -> outside the gate, waiting for it, or inside
    call,       \* call -> where its task is
    free,       \* tenant -> free permits of its fairness semaphore
    semaphore,  \* free permits of the hard cap
    active,     \* admitted calls, as the pool counts them
    batch,      \* calls admitted since the last cooldown
    waited,     \* polls of the task in the memory loop
    paused      \* history: memory was seen high and not yet low again

admissionVars == <<unit, call, free, semaphore, active, batch, waited, paused>>

-----------------------------------------------------------------------------
\* "idle": not started; "slot", "lock": awaiting the semaphore, the lock;
\* "memory", "cooldown": asleep with the lock; "in": running; "done": ended.
Levels == {"low", "mid", "high"}

Holding == {"lock", "memory", "cooldown", "in"}   \* has a hard-cap permit
Admitted == {"cooldown", "in"}                    \* is counted in active
Deciding == {"memory", "cooldown"}                \* has the admission lock

At(S) == {c \in Requests : call[c] \in S}
CallsOf(u) == {c \in Requests : UnitOf[c] = u}
Inside(t) == {u \in Units : unit[u] = "inside" /\ TenantOf[u] = t}

BatchSize(n) == IF n < BatchThreshold THEN BatchLow ELSE BatchHigh

PoolInit ==
    /\ unit = [u \in Units |-> "outside"]
    /\ call = [c \in Requests |-> "idle"]
    /\ free = [t \in Tenants |-> TenantCap]
    /\ semaphore = MaxProcs
    /\ active = 0
    /\ batch = 0
    /\ waited = 0
    /\ paused = FALSE

Move(c, from, to) ==
    /\ call[c] = from
    /\ call' = [call EXCEPT ![c] = to]

-----------------------------------------------------------------------------
(* The tenant gate around a unit of work.                                  *)
poolVars == <<semaphore, active, batch, waited, paused>>

Arrive(u) ==
    /\ unit[u] = "outside"
    /\ unit' = [unit EXCEPT ![u] = "waiting"]
    /\ UNCHANGED <<call, free, poolVars>>

EnterGate(u) ==
    /\ unit[u] = "waiting"
    /\ free[TenantOf[u]] > 0
    /\ free' = [free EXCEPT ![TenantOf[u]] = @ - 1]
    /\ unit' = [unit EXCEPT ![u] = "inside"]
    /\ call' = [c \in Requests |-> IF UnitOf[c] = u THEN "slot" ELSE call[c]]
    /\ UNCHANGED poolVars

\* Mutant: a cancelled wait returns a permit it never had.
CancelReturnsPermit(u) ==
    /\ unit[u] = "waiting"
    /\ unit' = [unit EXCEPT ![u] = "outside"]
    /\ free' = [free EXCEPT ![TenantOf[u]] = @ + 1]
    /\ UNCHANGED <<call, poolVars>>

CancelArrival(u) ==
    /\ unit[u] = "waiting"
    /\ unit' = [unit EXCEPT ![u] = "outside"]
    /\ UNCHANGED <<call, free, poolVars>>

\* Mutant: a unit that leaves keeps its permit.
LeaveKeepsPermit(u) ==
    /\ unit[u] = "inside"
    /\ \A c \in CallsOf(u) : call[c] = "done"
    /\ unit' = [unit EXCEPT ![u] = "outside"]
    /\ call' = [c \in Requests |-> IF UnitOf[c] = u THEN "idle" ELSE call[c]]
    /\ UNCHANGED <<free, poolVars>>

LeaveGate(u) ==
    /\ unit[u] = "inside"
    /\ \A c \in CallsOf(u) : call[c] = "done"
    /\ unit' = [unit EXCEPT ![u] = "outside"]
    /\ free' = [free EXCEPT ![TenantOf[u]] = @ + 1]
    /\ call' = [c \in Requests |-> IF UnitOf[c] = u THEN "idle" ELSE call[c]]
    /\ UNCHANGED poolVars

-----------------------------------------------------------------------------
\* Mutant: a call that finds no permit goes on all the same.
TakeSlotUnchecked(c) ==
    /\ Move(c, "slot", "lock")
    /\ semaphore' = IF semaphore > 0 THEN semaphore - 1 ELSE 0
    /\ UNCHANGED <<unit, free, active, batch, waited, paused>>

(* ProcessPool.acquire: the hard-cap permit, then the lock.                *)
TakeSlot(c) ==
    /\ Move(c, "slot", "lock")
    /\ semaphore > 0
    /\ semaphore' = semaphore - 1
    /\ UNCHANGED <<unit, free, active, batch, waited, paused>>

(* Count the call; a full batch is followed by a cooldown under the lock.  *)
Admit(c, from) ==
    /\ active' = active + 1
    /\ IF batch + 1 >= BatchSize(active + 1)
       THEN batch' = 0 /\ Move(c, from, "cooldown")
       ELSE batch' = batch + 1 /\ Move(c, from, "in")
    /\ waited' = 0
    /\ UNCHANGED <<unit, free, semaphore>>

Reading(level) ==
    paused' = IF level = "mid" THEN paused ELSE level = "high"

TakeLock(c, level) ==
    /\ call[c] = "lock"
    /\ At(Deciding) = {}
    /\ Reading(level)
    /\ IF level = "high"
       THEN /\ Move(c, "lock", "memory")
            /\ waited' = 0
            /\ UNCHANGED <<unit, free, semaphore, active, batch>>
       ELSE Admit(c, "lock")

(* Every poll ends the wait below the ceiling, not below the resume mark.  *)
PollMemory(c, level) ==
    /\ call[c] = "memory"
    /\ Reading(level)
    /\ IF level = "high"
       THEN /\ waited + 1 < MaxWait
            /\ waited' = waited + 1
            /\ UNCHANGED <<unit, call, free, semaphore, active, batch>>
       ELSE Admit(c, "memory")

\* Mutant: the deadline keeps the permit.
DeadlineKeepsPermit(c) ==
    /\ waited + 1 = MaxWait
    /\ Reading("high")
    /\ Move(c, "memory", "done")
    /\ waited' = 0
    /\ UNCHANGED <<unit, free, semaphore, active, batch>>

(* Still high at the deadline: raise, and hand the permit back.            *)
MemoryDeadline(c) ==
    /\ waited + 1 = MaxWait
    /\ Reading("high")
    /\ Move(c, "memory", "done")
    /\ semaphore' = semaphore + 1
    /\ waited' = 0
    /\ UNCHANGED <<unit, free, active, batch>>

CooledDown(c) ==
    /\ Move(c, "cooldown", "in")
    /\ UNCHANGED <<unit, free, poolVars>>

(* release: the call returned, failed or was cancelled.                    *)
Release(c) ==
    /\ Move(c, "in", "done")
    /\ active' = active - 1
    /\ semaphore' = semaphore + 1
    /\ UNCHANGED <<unit, free, batch, waited, paused>>

(* Cancelled before admission: asyncio withdraws a waiter of the semaphore *)
(* itself; after it, acquire hands the permit back.                        *)
CancelWaiting(c) ==
    /\ Move(c, "slot", "done")
    /\ UNCHANGED <<unit, free, poolVars>>

CancelHolding(c) ==
    /\ call[c] \in {"lock", "memory"}
    /\ call' = [call EXCEPT ![c] = "done"]
    /\ semaphore' = semaphore + 1
    /\ waited' = IF call[c] = "memory" THEN 0 ELSE waited
    /\ UNCHANGED <<unit, free, active, batch, paused>>

\* Mutant: the admission is not undone.
CancelKeepsCount(c) ==
    /\ Move(c, "cooldown", "done")
    /\ semaphore' = semaphore + 1
    /\ UNCHANGED <<unit, free, active, batch, waited, paused>>

(* Cancelled in the cooldown: also undo the admission.                     *)
CancelCooldown(c) ==
    /\ Move(c, "cooldown", "done")
    /\ active' = active - 1
    /\ semaphore' = semaphore + 1
    /\ UNCHANGED <<unit, free, batch, waited, paused>>

WaitForMemory(c) ==
    MemoryDeadline(c) \/ \E level \in Levels : PollMemory(c, level)

Acquire(c) ==
    \/ TakeSlot(c)
    \/ \E level \in Levels : TakeLock(c, level)
    \/ WaitForMemory(c)
    \/ CooledDown(c)

CancelRequest(c) == CancelWaiting(c) \/ CancelHolding(c) \/ CancelCooldown(c)

Gate(u) == Arrive(u) \/ EnterGate(u) \/ CancelArrival(u) \/ LeaveGate(u)

PoolNext ==
    \/ \E u \in Units : Gate(u)
    \/ \E c \in Requests : Acquire(c) \/ Release(c) \/ CancelRequest(c)

PoolSpec == PoolInit /\ [][PoolNext]_admissionVars

(* asyncio wakes the waiters of a semaphore and of a lock in order, sleeps *)
(* end, and every call is bounded by its client's timeout.                 *)
Fairness ==
    /\ \A u \in Units : SF_admissionVars(EnterGate(u)) /\ WF_admissionVars(LeaveGate(u))
    /\ \A c \in Requests :
         /\ SF_admissionVars(TakeSlot(c))
         /\ SF_admissionVars(\E level \in Levels : TakeLock(c, level))
         /\ WF_admissionVars(WaitForMemory(c))
         /\ WF_admissionVars(CooledDown(c))
         /\ WF_admissionVars(Release(c))

PoolFairSpec == PoolSpec /\ Fairness

-----------------------------------------------------------------------------
\* The type of the variables.
TypeOK ==
    /\ unit \in [Units -> {"outside", "waiting", "inside"}]
    /\ call \in [Requests -> {"idle", "slot", "done"} \cup Holding]
    /\ free \in [Tenants -> 0 .. TenantCap]
    /\ semaphore \in 0 .. MaxProcs
    /\ active \in 0 .. MaxProcs
    /\ batch \in Nat
    /\ waited \in 0 .. MaxWait - 1
    /\ paused \in BOOLEAN

\* "Any exit that is NOT the normal return must hand the slot back, or the
\* pool permanently shrinks by one": every hard-cap permit is free or held by
\* a call, and active counts the admitted calls, through every raise,
\* cancellation and release.
NoSlotStranded ==
    /\ semaphore + Cardinality(At(Holding)) = MaxProcs
    /\ active = Cardinality(At(Admitted))

\* The same for the permits of a tenant's gate.
NoPermitStranded ==
    \A t \in Tenants : free[t] + Cardinality(Inside(t)) = TenantCap

\* Both: no exit of a call or of a unit of work loses or doubles a permit.
PermitsInOrder == NoSlotStranded /\ NoPermitStranded

\* The host-safety ceiling: never more than MaxProcs calls run.
HostCap == Cardinality(At({"in"})) <= MaxProcs

\* Nobody waits for ever, however long memory stays short: a unit that
\* arrives at its gate leaves again ("admission waits, but it does NOT wait
\* forever").
EveryUnitLeaves ==
    \A u \in Units : unit[u] = "waiting" ~> unit[u] = "outside"
=============================================================================
