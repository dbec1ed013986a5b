--------------------------- MODULE LlmCallProofs ----------------------------
(***************************************************************************)
(* Theorems about the two things a language-model call passes through.     *)
(*                                                                         *)
(* Admission, for any finite sets of units and requests and any caps: no   *)
(* permit of the hard cap or of a tenant's gate is ever stranded, so the   *)
(* host-safety ceiling holds and a quiet pool has its full capacity.       *)
(*                                                                         *)
(* The chain of providers, for any chain, any gates and any number of      *)
(* calls: the circuit breaker, whose two arrays are moved only by an       *)
(* attempt that ends and by the end of a cooldown, and the calls.          *)
(***************************************************************************)
EXTENDS ProcessPool, Failover, FiniteSetTheorems, TLAPS

-----------------------------------------------------------------------------
(* Admission.                                                              *)

CallStates == {"idle", "slot", "done"} \cup Holding

\* What a call in state x holds, and counts for in active.
Permits(x) == IF x \in Holding THEN 1 ELSE 0
Counts(x) == IF x \in Admitted THEN 1 ELSE 0

\* The types the proof needs; the upper bounds of TypeOK follow from them and
\* the counting.
Typed ==
    /\ unit \in [Units -> {"outside", "waiting", "inside"}]
    /\ call \in [Requests -> CallStates]
    /\ free \in [Tenants -> Nat]
    /\ semaphore \in Nat
    /\ active \in Int
    /\ batch \in Nat
    /\ waited \in 0 .. MaxWait - 1
    /\ paused \in BOOLEAN

\* No call of a unit outside its gate holds anything.
OutsideIdle ==
    \A c \in Requests : unit[UnitOf[c]] # "inside" => call[c] = "idle"

PoolInv == Typed /\ OutsideIdle /\ NoSlotStranded /\ NoPermitStranded

-----------------------------------------------------------------------------
(* Any set of calls, and the units inside a gate, are finite sets.         *)
LEMMA AtFinite ==
  ASSUME NEW S
  PROVE  IsFiniteSet(At(S)) /\ Cardinality(At(S)) \in Nat
<1>1. At(S) \subseteq Requests
  BY DEF At
<1> QED
  BY <1>1, FS_Subset, FS_CardinalityType, PoolAssumption DEF PoolAssumption

LEMMA InsideFinite ==
  ASSUME NEW t
  PROVE  IsFiniteSet(Inside(t)) /\ Cardinality(Inside(t)) \in Nat
<1>1. Inside(t) \subseteq Units
  BY DEF Inside
<1> QED
  BY <1>1, FS_Subset, FS_CardinalityType, PoolAssumption DEF PoolAssumption

(* How the number of calls in some state changes when one call moves.      *)
LEMMA MoveCounts ==
  ASSUME Typed, NEW c \in Requests, NEW to,
         call' = [call EXCEPT ![c] = to], NEW S
  PROVE  Cardinality(At(S))' =
           Cardinality(At(S)) + (IF to \in S THEN 1 ELSE 0)
                              - (IF call[c] \in S THEN 1 ELSE 0)
<1>1. CASE call[c] \in S /\ to \notin S
  <2>1. At(S)' = At(S) \ {c} /\ c \in At(S)
    BY <1>1 DEF At, Typed
  <2> QED BY <1>1, <2>1, FS_RemoveElement, AtFinite
<1>2. CASE call[c] \notin S /\ to \in S
  <2>1. At(S)' = At(S) \cup {c} /\ c \notin At(S)
    BY <1>2 DEF At, Typed
  <2> QED BY <1>2, <2>1, FS_AddElement, AtFinite
<1>3. CASE call[c] \in S <=> to \in S
  <2>1. At(S)' = At(S)
    BY <1>3 DEF At, Typed
  <2>2. Cardinality(At(S))' = Cardinality(At(S)')
    OBVIOUS
  <2> QED BY <1>3, <2>1, <2>2, AtFinite
<1> QED BY <1>1, <1>2, <1>3

(* A step that moves one call of a unit inside its gate and keeps the      *)
(* counters in step with the move keeps the invariant.                     *)
LEMMA CallStep ==
  ASSUME PoolInv, NEW c \in Requests, NEW to \in CallStates,
         call[c] # "idle",
         call' = [call EXCEPT ![c] = to],
         UNCHANGED <<unit, free>>,
         semaphore' = semaphore + Permits(call[c]) - Permits(to),
         active' = active + Counts(to) - Counts(call[c]),
         semaphore' \in Nat,
         batch' \in Nat, waited' \in 0 .. MaxWait - 1, paused' \in BOOLEAN
  PROVE  PoolInv'
<1>1. Typed'
  BY DEF PoolInv, Typed
<1>2. OutsideIdle'
  BY PoolAssumption DEF PoolAssumption, PoolInv, Typed, OutsideIdle
<1>3. NoSlotStranded'
  <2>1. Cardinality(At(Holding))' =
          Cardinality(At(Holding)) + Permits(to) - Permits(call[c])
    BY MoveCounts DEF PoolInv, Permits
  <2>2. Cardinality(At(Admitted))' =
          Cardinality(At(Admitted)) + Counts(to) - Counts(call[c])
    BY MoveCounts DEF PoolInv, Counts
  <2>3. /\ Cardinality(At(Holding)) \in Nat
        /\ Cardinality(At(Admitted)) \in Nat
        /\ MaxProcs \in Nat
    BY AtFinite, PoolAssumption DEF PoolAssumption
  <2>4. /\ Permits(to) \in Int /\ Permits(call[c]) \in Int
        /\ Counts(to) \in Int /\ Counts(call[c]) \in Int
    BY DEF Permits, Counts
  <2>5. /\ semaphore + Cardinality(At(Holding)) = MaxProcs
        /\ active = Cardinality(At(Admitted))
        /\ semaphore \in Int /\ active \in Int
    BY DEF PoolInv, NoSlotStranded, Typed
  <2>6. semaphore' + Cardinality(At(Holding))' = MaxProcs
    BY <2>1, <2>3, <2>4, <2>5
  <2>7. active' = Cardinality(At(Admitted))'
    BY <2>2, <2>3, <2>4, <2>5
  <2> QED BY <2>6, <2>7 DEF NoSlotStranded
<1>4. NoPermitStranded'
  BY DEF PoolInv, NoPermitStranded, Inside
<1> QED BY <1>1, <1>2, <1>3, <1>4 DEF PoolInv

(* A step that sets the calls of one unit aside (idle, waiting for a slot  *)
(* or done) leaves the counts of the pool alone.                           *)
LEMMA UnitStep ==
  ASSUME PoolInv, NEW u \in Units, NEW to \in {"idle", "slot"},
         \A c \in CallsOf(u) : call[c] \in {"idle", "done"},
         call' = [c \in Requests |-> IF UnitOf[c] = u THEN to ELSE call[c]],
         UNCHANGED poolVars
  PROVE  NoSlotStranded'
<1>1. At(Holding)' = At(Holding) /\ At(Admitted)' = At(Admitted)
  BY DEF At, Holding, Admitted, CallsOf, PoolInv, Typed
<1> QED BY <1>1 DEF PoolInv, NoSlotStranded, poolVars

(* The invariant holds initially.                                          *)
LEMMA PoolInvInit == PoolInit => PoolInv
<1> SUFFICES ASSUME PoolInit PROVE PoolInv
  OBVIOUS
<1> USE PoolAssumption DEF PoolAssumption, PoolInit
<1>1. Typed
  <2>1. call \in [Requests -> CallStates]
    BY DEF CallStates
  <2>2. waited \in 0 .. MaxWait - 1
    OBVIOUS
  <2>3. free \in [Tenants -> Nat]
    OBVIOUS
  <2>4. unit \in [Units -> {"outside", "waiting", "inside"}]
    OBVIOUS
  <2>5. semaphore \in Nat /\ active \in Int /\ batch \in Nat
    OBVIOUS
  <2>6. paused \in BOOLEAN
    OBVIOUS
  <2> QED BY <2>1, <2>2, <2>3, <2>4, <2>5, <2>6 DEF Typed
<1>7. OutsideIdle
  BY DEF OutsideIdle
<1>2. At(Holding) = {} /\ At(Admitted) = {}
  BY DEF At, Holding, Admitted
<1>3. \A t \in Tenants : Inside(t) = {}
  BY DEF Inside
<1>4. Cardinality({}) = 0
  BY FS_EmptySet
<1>5. NoSlotStranded
  BY <1>2, <1>4 DEF NoSlotStranded
<1>6. NoPermitStranded
  BY <1>3, <1>4 DEF NoPermitStranded
<1> QED
  BY <1>1, <1>5, <1>6, <1>7 DEF PoolInv

(* Every step keeps the invariant.                                         *)
LEMMA PoolInvNext == PoolInv /\ [PoolNext]_admissionVars => PoolInv'
<1> SUFFICES ASSUME PoolInv, [PoolNext]_admissionVars PROVE PoolInv'
  OBVIOUS
<1> USE PoolAssumption DEF PoolAssumption
<1>0. /\ semaphore \in Nat /\ active \in Int /\ batch \in Nat
      /\ waited \in 0 .. MaxWait - 1 /\ paused \in BOOLEAN
  BY DEF PoolInv, Typed
<1>1. ASSUME NEW u \in Units, Arrive(u) \/ CancelArrival(u) PROVE PoolInv'
  <2> USE <1>1 DEF Arrive, CancelArrival, poolVars
  <2>1. \A t \in Tenants : Inside(t)' = Inside(t)
    BY DEF Inside, PoolInv, Typed
  <2>2. Typed'
    BY DEF PoolInv, Typed
  <2>3. OutsideIdle'
    BY DEF PoolInv, Typed, OutsideIdle
  <2>4. NoSlotStranded'
    BY DEF PoolInv, NoSlotStranded, At
  <2>5. NoPermitStranded'
    BY <2>1 DEF PoolInv, NoPermitStranded
  <2> QED BY <2>2, <2>3, <2>4, <2>5 DEF PoolInv
<1>2. ASSUME NEW u \in Units, EnterGate(u) PROVE PoolInv'
  <2> USE <1>2 DEF EnterGate
  <2>1. Typed'
    BY DEF PoolInv, Typed, poolVars, CallStates
  <2>2. OutsideIdle'
    BY DEF PoolInv, Typed, OutsideIdle
  <2>3. NoSlotStranded'
    <3>1. \A c \in CallsOf(u) : call[c] \in {"idle", "done"}
      BY DEF CallsOf, PoolInv, OutsideIdle
    <3> QED BY <3>1, UnitStep
  <2>4. ASSUME NEW t \in Tenants
        PROVE  free'[t] + Cardinality(Inside(t)') = TenantCap
    <3>1. free[t] + Cardinality(Inside(t)) = TenantCap /\ free[t] \in Int
      BY DEF PoolInv, NoPermitStranded, Typed
    <3>2. CASE t = TenantOf[u]
      <4>1. Inside(t)' = Inside(t) \cup {u} /\ u \notin Inside(t)
        BY <3>2 DEF Inside, PoolInv, Typed
      <4>2. Cardinality(Inside(t)') = Cardinality(Inside(t)) + 1
        BY <4>1, FS_AddElement, InsideFinite
      <4>3. free'[t] = free[t] - 1
        BY <3>2 DEF PoolInv, Typed
      <4> QED BY <3>1, <4>2, <4>3, InsideFinite
    <3>3. CASE t # TenantOf[u]
      <4>1. Inside(t)' = Inside(t) /\ free'[t] = free[t]
        BY <3>3 DEF Inside, PoolInv, Typed
      <4> QED BY <3>1, <4>1
    <3> QED BY <3>2, <3>3
  <2> QED
    BY <2>1, <2>2, <2>3, <2>4 DEF PoolInv, NoPermitStranded
<1>3. ASSUME NEW u \in Units, LeaveGate(u) PROVE PoolInv'
  <2> USE <1>3 DEF LeaveGate
  <2>1. Typed'
    BY DEF PoolInv, Typed, poolVars, CallStates
  <2>2. OutsideIdle'
    BY DEF PoolInv, Typed, OutsideIdle
  <2>3. NoSlotStranded'
    BY UnitStep
  <2>4. ASSUME NEW t \in Tenants
        PROVE  free'[t] + Cardinality(Inside(t)') = TenantCap
    <3>1. free[t] + Cardinality(Inside(t)) = TenantCap /\ free[t] \in Int
      BY DEF PoolInv, NoPermitStranded, Typed
    <3>2. CASE t = TenantOf[u]
      <4>1. Inside(t)' = Inside(t) \ {u} /\ u \in Inside(t)
        BY <3>2 DEF Inside, PoolInv, Typed
      <4>2. Cardinality(Inside(t)') = Cardinality(Inside(t)) - 1
        BY <4>1, FS_RemoveElement, InsideFinite
      <4>3. free'[t] = free[t] + 1
        BY <3>2 DEF PoolInv, Typed
      <4> QED BY <3>1, <4>2, <4>3, InsideFinite
    <3>3. CASE t # TenantOf[u]
      <4>1. Inside(t)' = Inside(t) /\ free'[t] = free[t]
        BY <3>3 DEF Inside, PoolInv, Typed
      <4> QED BY <3>1, <4>1
    <3> QED BY <3>2, <3>3
  <2> QED
    BY <2>1, <2>2, <2>3, <2>4 DEF PoolInv, NoPermitStranded
<1>4. ASSUME NEW c \in Requests, TakeSlot(c) PROVE PoolInv'
  <2>1. /\ "lock" \in CallStates
        /\ Permits(call[c]) = 0 /\ Permits("lock") = 1
        /\ Counts(call[c]) = 0 /\ Counts("lock") = 0
    BY <1>4 DEF TakeSlot, Move, CallStates, Holding, Admitted,
      Permits, Counts
  <2>3. /\ call[c] # "idle"
        /\ call' = [call EXCEPT ![c] = "lock"]
        /\ UNCHANGED <<unit, free>>
    BY <1>4 DEF TakeSlot, Move
  <2>4. /\ semaphore' = semaphore + Permits(call[c]) - Permits("lock")
        /\ active' = active + Counts("lock") - Counts(call[c])
    BY <1>4, <2>1, <1>0 DEF TakeSlot, Move
  <2>5. /\ semaphore' \in Nat /\ batch' \in Nat
        /\ waited' \in 0 .. MaxWait - 1 /\ paused' \in BOOLEAN
    BY <1>4, <1>0 DEF TakeSlot, Move
  <2> QED BY <2>1, <2>3, <2>4, <2>5, CallStep
<1>5. ASSUME NEW c \in Requests, NEW from \in {"lock", "memory"},
             Admit(c, from), paused' \in BOOLEAN
      PROVE  PoolInv'
  <2>1. PICK to \in {"cooldown", "in"} :
          call[c] = from /\ call' = [call EXCEPT ![c] = to]
    BY <1>5 DEF Admit, Move
  <2>2. batch' \in Nat /\ waited' \in 0 .. MaxWait - 1
    BY <1>5 DEF Admit, PoolInv, Typed
  <2>3. /\ to \in CallStates
        /\ Permits(call[c]) = 1 /\ Permits(to) = 1
        /\ Counts(call[c]) = 0 /\ Counts(to) = 1
    BY <2>1 DEF CallStates, Holding, Admitted,
      Permits, Counts
  <2>4. call[c] # "idle" /\ UNCHANGED <<unit, free>>
    BY <1>5, <2>1 DEF Admit
  <2>5. /\ semaphore' = semaphore + Permits(call[c]) - Permits(to)
        /\ active' = active + Counts(to) - Counts(call[c])
        /\ semaphore' \in Nat
    BY <1>5, <2>3, <1>0 DEF Admit
  <2> QED BY <1>5, <2>1, <2>2, <2>3, <2>4, <2>5, CallStep
<1>6. ASSUME NEW c \in Requests, NEW level \in Levels, TakeLock(c, level)
      PROVE  PoolInv'
  <2>1. paused' \in BOOLEAN
    BY <1>6 DEF TakeLock, Reading, PoolInv, Typed
  <2>2. CASE level = "high"
    <3>1. /\ "memory" \in CallStates
          /\ Permits(call[c]) = 1 /\ Permits("memory") = 1
          /\ Counts(call[c]) = 0 /\ Counts("memory") = 0
      BY <1>6, <2>2 DEF TakeLock, Move, CallStates, Holding, Admitted,
        Permits, Counts
    <3>2. 0 \in 0 .. MaxWait - 1
      OBVIOUS
    <3> QED
      BY <1>6, <2>1, <2>2, <3>1, <3>2, <1>0, CallStep DEF TakeLock, Move
  <2>3. CASE level # "high"
    BY <1>6, <2>1, <2>3, <1>5 DEF TakeLock
  <2> QED BY <2>2, <2>3
<1>7. ASSUME NEW c \in Requests, NEW level \in Levels, PollMemory(c, level)
      PROVE  PoolInv'
  <2>1. paused' \in BOOLEAN
    BY <1>7 DEF PollMemory, Reading, PoolInv, Typed
  <2>2. CASE level = "high"
    BY <1>7, <2>1, <2>2
      DEF PollMemory, PoolInv, Typed, OutsideIdle, NoSlotStranded,
          NoPermitStranded, At, Inside
  <2>3. CASE level # "high"
    BY <1>7, <2>1, <2>3, <1>5 DEF PollMemory
  <2> QED BY <2>2, <2>3
<1>8. ASSUME NEW c \in Requests, MemoryDeadline(c) PROVE PoolInv'
  <2>1. /\ "done" \in CallStates
        /\ Permits(call[c]) = 1 /\ Permits("done") = 0
        /\ Counts(call[c]) = 0 /\ Counts("done") = 0
    BY <1>8 DEF MemoryDeadline, Move, CallStates, Holding, Admitted,
      Permits, Counts
  <2>2. 0 \in 0 .. MaxWait - 1
    OBVIOUS
  <2>3. /\ call[c] # "idle"
        /\ call' = [call EXCEPT ![c] = "done"]
        /\ UNCHANGED <<unit, free>>
    BY <1>8 DEF MemoryDeadline, Reading, Move
  <2>4. /\ semaphore' = semaphore + Permits(call[c]) - Permits("done")
        /\ active' = active + Counts("done") - Counts(call[c])
    BY <1>8, <2>1, <1>0 DEF MemoryDeadline, Reading, Move
  <2>5. /\ semaphore' \in Nat /\ batch' \in Nat
        /\ waited' \in 0 .. MaxWait - 1 /\ paused' \in BOOLEAN
    BY <1>8, <1>0, <2>2 DEF MemoryDeadline, Reading, Move
  <2> QED BY <2>1, <2>3, <2>4, <2>5, CallStep
<1>9. ASSUME NEW c \in Requests, CooledDown(c) PROVE PoolInv'
  <2>1. /\ "in" \in CallStates
        /\ Permits(call[c]) = 1 /\ Permits("in") = 1
        /\ Counts(call[c]) = 1 /\ Counts("in") = 1
    BY <1>9 DEF CooledDown, Move, CallStates, Holding, Admitted,
      Permits, Counts
  <2>3. /\ call[c] # "idle"
        /\ call' = [call EXCEPT ![c] = "in"]
        /\ UNCHANGED <<unit, free>>
    BY <1>9 DEF CooledDown, Move, poolVars
  <2>4. /\ semaphore' = semaphore + Permits(call[c]) - Permits("in")
        /\ active' = active + Counts("in") - Counts(call[c])
    BY <1>9, <2>1, <1>0 DEF CooledDown, Move, poolVars
  <2>5. /\ semaphore' \in Nat /\ batch' \in Nat
        /\ waited' \in 0 .. MaxWait - 1 /\ paused' \in BOOLEAN
    BY <1>9, <1>0 DEF CooledDown, Move, poolVars
  <2> QED BY <2>1, <2>3, <2>4, <2>5, CallStep
<1>10. ASSUME NEW c \in Requests, Release(c) \/ CancelCooldown(c) PROVE PoolInv'
  <2>1. /\ "done" \in CallStates
        /\ Permits(call[c]) = 1 /\ Permits("done") = 0
        /\ Counts(call[c]) = 1 /\ Counts("done") = 0
    BY <1>10 DEF Release, CancelCooldown, Move, CallStates, Holding, Admitted,
      Permits, Counts
  <2> QED
    BY <1>10, <2>1, <1>0, CallStep DEF Release, CancelCooldown, Move
<1>11. ASSUME NEW c \in Requests, CancelWaiting(c) PROVE PoolInv'
  <2>1. /\ "done" \in CallStates
        /\ Permits(call[c]) = 0 /\ Permits("done") = 0
        /\ Counts(call[c]) = 0 /\ Counts("done") = 0
    BY <1>11 DEF CancelWaiting, Move, CallStates, Holding, Admitted,
      Permits, Counts
  <2>3. /\ call[c] # "idle"
        /\ call' = [call EXCEPT ![c] = "done"]
        /\ UNCHANGED <<unit, free>>
    BY <1>11 DEF CancelWaiting, Move, poolVars
  <2>4. /\ semaphore' = semaphore + Permits(call[c]) - Permits("done")
        /\ active' = active + Counts("done") - Counts(call[c])
    BY <1>11, <2>1, <1>0 DEF CancelWaiting, Move, poolVars
  <2>5. /\ semaphore' \in Nat /\ batch' \in Nat
        /\ waited' \in 0 .. MaxWait - 1 /\ paused' \in BOOLEAN
    BY <1>11, <1>0 DEF CancelWaiting, Move, poolVars
  <2> QED BY <2>1, <2>3, <2>4, <2>5, CallStep
<1>12. ASSUME NEW c \in Requests, CancelHolding(c) PROVE PoolInv'
  <2>1. /\ "done" \in CallStates
        /\ Permits(call[c]) = 1 /\ Permits("done") = 0
        /\ Counts(call[c]) = 0 /\ Counts("done") = 0
    BY <1>12 DEF CancelHolding, CallStates, Holding, Admitted,
      Permits, Counts
  <2>2. waited' \in 0 .. MaxWait - 1
    BY <1>12 DEF CancelHolding, PoolInv, Typed
  <2>3. /\ call[c] # "idle"
        /\ call' = [call EXCEPT ![c] = "done"]
        /\ UNCHANGED <<unit, free>>
    BY <1>12 DEF CancelHolding
  <2>4. /\ semaphore' = semaphore + Permits(call[c]) - Permits("done")
        /\ active' = active + Counts("done") - Counts(call[c])
    BY <1>12, <2>1, <1>0 DEF CancelHolding
  <2>5. /\ semaphore' \in Nat /\ batch' \in Nat
        /\ waited' \in 0 .. MaxWait - 1 /\ paused' \in BOOLEAN
    BY <1>12, <1>0, <2>2 DEF CancelHolding
  <2> QED BY <2>1, <2>3, <2>4, <2>5, CallStep
<1>13. CASE UNCHANGED admissionVars
  BY <1>13 DEF admissionVars, PoolInv, Typed, OutsideIdle, NoSlotStranded,
    NoPermitStranded, At, Inside
<1> QED
  BY <1>1, <1>2, <1>3, <1>4, <1>6, <1>7, <1>8, <1>9, <1>10, <1>11, <1>12,
     <1>13 DEF PoolNext, Gate, Acquire, WaitForMemory, CancelRequest

(* The invariant holds of every behaviour.                                 *)
THEOREM PoolInvariant == PoolSpec => []PoolInv
  BY PoolInvInit, PoolInvNext, PTL DEF PoolSpec

-----------------------------------------------------------------------------
(* No permit of the hard cap or of a tenant's gate is stranded: every exit *)
(* of acquire, the memory deadline and every cancellation included, hands  *)
(* it back, once.                                                          *)
THEOREM PermitsInOrderHolds == PoolSpec => []PermitsInOrder
<1>1. PoolInv => PermitsInOrder
  BY DEF PoolInv, PermitsInOrder
<1> QED BY <1>1, PoolInvariant, PTL

(* Hence the ceiling itself: no more than MaxProcs calls run.              *)
THEOREM HostCapHolds == PoolSpec => []HostCap
<1>1. PoolInv => HostCap
  <2> SUFFICES ASSUME PoolInv PROVE HostCap
    OBVIOUS
  <2>1. At({"in"}) \subseteq At(Holding)
    BY DEF At, Holding
  <2>2. Cardinality(At({"in"})) <= Cardinality(At(Holding))
    BY <2>1, AtFinite, FS_Subset
  <2>3. /\ Cardinality(At({"in"})) \in Nat
        /\ Cardinality(At(Holding)) \in Nat
    BY AtFinite
  <2>4. semaphore + Cardinality(At(Holding)) = MaxProcs /\ semaphore \in Nat
    BY DEF PoolInv, Typed, NoSlotStranded
  <2> QED BY <2>2, <2>3, <2>4 DEF HostCap
<1> QED BY <1>1, PoolInvariant, PTL

(* The type invariant, with the bounds the counting gives.                 *)
THEOREM PoolTyped == PoolSpec => []TypeOK
<1>1. PoolInv => TypeOK
  <2> SUFFICES ASSUME PoolInv PROVE TypeOK
    OBVIOUS
  <2> USE PoolAssumption DEF PoolAssumption, PoolInv, Typed
  <2>1. Cardinality(At(Admitted)) <= Cardinality(At(Holding))
    <3>1. At(Admitted) \subseteq At(Holding)
      BY DEF At, Admitted, Holding
    <3> QED BY <3>1, AtFinite, FS_Subset
  <2>2. /\ Cardinality(At(Admitted)) \in Nat
        /\ Cardinality(At(Holding)) \in Nat
    BY AtFinite
  <2>3. semaphore \in 0 .. MaxProcs /\ active \in 0 .. MaxProcs
    BY <2>1, <2>2 DEF NoSlotStranded
  <2>4. ASSUME NEW t \in Tenants PROVE free[t] \in 0 .. TenantCap
    <3>1. free[t] \in Nat /\ Cardinality(Inside(t)) \in Nat
      BY InsideFinite
    <3> QED BY <3>1 DEF NoPermitStranded
  <2>5. free \in [Tenants -> 0 .. TenantCap]
    BY <2>4
  <2>6. call \in [Requests -> {"idle", "slot", "done"} \cup Holding]
    BY DEF CallStates
  <2> QED BY <2>3, <2>5, <2>6 DEF TypeOK
<1> QED BY <1>1, PoolInvariant, PTL
-----------------------------------------------------------------------------
(* The chain of providers.                                                 *)

BreakerTypeOK ==
    /\ fails \in [Links -> 0 .. Threshold]
    /\ open \in [Links -> BOOLEAN]

BreakerInv == BreakerTypeOK /\ OpenOnlyWhileFailing

\* A success closes the breaker with the count it resets (_record_success).
LEMMA SuccessCloses ==
    ASSUME BreakerInv, NEW i \in Links, RecordSuccess(i)
    PROVE  BreakerInv'
<1>1. BreakerTypeOK'
  BY FailoverAssumption DEF FailoverAssumption, BreakerInv, BreakerTypeOK, RecordSuccess
<1>2. ASSUME NEW j \in Links, open'[j] PROVE fails'[j] = Threshold
  <2>1. j # i
    BY <1>2 DEF BreakerInv, BreakerTypeOK, RecordSuccess
  <2>2. open[j] /\ fails'[j] = fails[j]
    BY <1>2, <2>1 DEF BreakerInv, BreakerTypeOK, RecordSuccess
  <2> QED BY <2>2 DEF BreakerInv, OpenOnlyWhileFailing
<1> QED BY <1>1, <1>2 DEF BreakerInv, OpenOnlyWhileFailing

\* A failure opens it only with the count at its threshold, and one that comes
\* while it is open leaves the count there (_record_failure).
LEMMA FailureCounts ==
    ASSUME BreakerInv, NEW i \in Links, RecordFailure(i)
    PROVE  BreakerInv'
<1> DEFINE count == IF fails[i] < Threshold THEN fails[i] + 1 ELSE Threshold
<1>1. count \in 0 .. Threshold /\ (fails[i] = Threshold => count = Threshold)
      /\ (count >= Threshold => count = Threshold)
  BY FailoverAssumption DEF FailoverAssumption, BreakerInv, BreakerTypeOK
<1>2. fails' = [fails EXCEPT ![i] = count]
      /\ open' = [open EXCEPT ![i] = @ \/ (Threshold > 0 /\ count >= Threshold)]
  BY DEF RecordFailure
<1> HIDE DEF count
<1>3. fails' \in [Links -> 0 .. Threshold]
  BY <1>1, <1>2 DEF BreakerInv, BreakerTypeOK
<1>4. open' \in [Links -> BOOLEAN]
  BY <1>2 DEF BreakerInv, BreakerTypeOK
<1>5. ASSUME NEW j \in Links, open'[j] PROVE fails'[j] = Threshold
  <2>1. CASE j = i
    <3>1. open[i] \/ count >= Threshold
      BY <1>2, <1>5, <2>1 DEF BreakerInv, BreakerTypeOK
    <3>2. count = Threshold
      BY <1>1, <3>1 DEF BreakerInv, OpenOnlyWhileFailing
    <3> QED BY <1>2, <2>1, <3>2 DEF BreakerInv, BreakerTypeOK
  <2>2. CASE j # i
    <3>1. open[j] /\ fails'[j] = fails[j]
      BY <1>2, <1>5, <2>2 DEF BreakerInv, BreakerTypeOK
    <3> QED BY <3>1 DEF BreakerInv, OpenOnlyWhileFailing
  <2> QED BY <2>1, <2>2
<1> QED BY <1>3, <1>4, <1>5 DEF BreakerInv, BreakerTypeOK, OpenOnlyWhileFailing

LEMMA BreakerKept ==
    ASSUME BreakerInv, UNCHANGED breaker
    PROVE  BreakerInv'
BY DEF BreakerInv, BreakerTypeOK, OpenOnlyWhileFailing, breaker

\* An attempt that fails tells the breaker, or it is a racer's or the call's
\* own fault and does not (_record_failure's one call).
LEMMA FailedAttempt ==
    ASSUME BreakerInv, NEW c \in Calls, NEW i \in Links, NEW exchange, NEW words,
           AttemptFails(c, i, exchange, words)
    PROVE  BreakerInv'
<1>1. CASE c \in Races
  BY <1>1, BreakerKept DEF AttemptFails, RacerFails
<1>2. CASE c \notin Races /\ RoutesPast(exchange, words)
  <2>1. RecordFailure(i)
    BY <1>2 DEF AttemptFails, MoveOn
  <2> QED BY <2>1, FailureCounts
<1>3. CASE c \notin Races /\ ~RoutesPast(exchange, words)
  BY <1>3, BreakerKept DEF AttemptFails, Raise
<1> QED BY <1>1, <1>2, <1>3

LEMMA EndedAttempt ==
    ASSUME BreakerInv, NEW c \in Calls, NEW i \in Links, AttemptEnds(c, i)
    PROVE  BreakerInv'
<1>1. CASE Answered(c, i)
  <2>1. CASE c \in Races
    BY <1>1, <2>1, BreakerKept DEF Answered
  <2>2. CASE c \notin Races
    BY <1>1, <2>2, SuccessCloses DEF Answered
  <2> QED BY <2>1, <2>2
<1>2. CASE Failed(c, i)
  <2>1. PICK exchange \in ExchangesOf(Style(i)) \ {"text"}, words \in Words :
          IF Retries(Style(i), exchange, exchanges[c][i])
          THEN UNCHANGED breaker
          ELSE AttemptFails(c, i, exchange, words)
    BY <1>2 DEF Failed
  <2>2. CASE Retries(Style(i), exchange, exchanges[c][i])
    BY <2>1, <2>2, BreakerKept
  <2>3. CASE ~Retries(Style(i), exchange, exchanges[c][i])
    BY <2>1, <2>3, FailedAttempt
  <2> QED BY <2>2, <2>3
<1>3. CASE NotJson(c, i)
  BY <1>3, FailedAttempt DEF NotJson
<1>4. CASE Deadline(c, i)
  BY <1>4, FailedAttempt DEF Deadline
<1> QED BY <1>1, <1>2, <1>3, <1>4 DEF AttemptEnds

\* The invariant of the breaker under every interleaving of the calls.
THEOREM BreakerInvariant == Spec => []BreakerInv
<1>1. Init => BreakerInv
  BY FailoverAssumption
  DEF FailoverAssumption, Init, BreakerInv, BreakerTypeOK, OpenOnlyWhileFailing
<1>2. BreakerInv /\ [Next]_vars => BreakerInv'
  <2> SUFFICES ASSUME BreakerInv, [Next]_vars PROVE BreakerInv'
    OBVIOUS
  <2>1. CASE UNCHANGED vars
    BY <2>1, BreakerKept DEF vars
  <2>2. ASSUME NEW c \in Calls, Begin(c) \/ Loop(c) \/ Cancel(c) PROVE BreakerInv'
    <3>1. UNCHANGED breaker
      BY <2>2 DEF Begin, Loop, LookOn, Attempt, SecondPass, GiveUp, Cancel
    <3> QED BY <3>1, BreakerKept
  <2>3. ASSUME NEW c \in Calls, NEW i \in Links, Enter(c, i) \/ Unwind(c, i) PROVE BreakerInv'
    <3>1. UNCHANGED breaker
      BY <2>3 DEF Enter, Unwind
    <3> QED BY <3>1, BreakerKept
  <2>4. ASSUME NEW c \in Calls, NEW i \in Links, AttemptEnds(c, i) PROVE BreakerInv'
    BY <2>4, EndedAttempt
  <2>5. ASSUME NEW i \in Links, CooldownEnds(i) PROVE BreakerInv'
    <3>1. fails' = fails /\ open' = [open EXCEPT ![i] = FALSE]
      BY <2>5 DEF CooldownEnds
    <3>2. open' \in [Links -> BOOLEAN]
      BY <3>1 DEF BreakerInv, BreakerTypeOK
    <3>3. \A j \in Links : open'[j] => open[j]
      BY <3>1 DEF BreakerInv, BreakerTypeOK
    <3> QED BY <3>1, <3>2, <3>3 DEF BreakerInv, BreakerTypeOK, OpenOnlyWhileFailing
  <2> QED BY <2>1, <2>2, <2>3, <2>4, <2>5 DEF Next
<1> QED BY <1>1, <1>2, PTL DEF Spec

\* While the breaker shuts a provider out, it has failed Threshold times in a
\* row with no success since (FallbackCaller), for any chain and any calls.
THEOREM OpenOnlyWhileFailingHolds == Spec => []OpenOnlyWhileFailing
<1>1. BreakerInv => OpenOnlyWhileFailing
  BY DEF BreakerInv
<1> QED BY <1>1, BreakerInvariant, PTL
-----------------------------------------------------------------------------
(* The calls.                                                              *)

Stages == {"idle", "queued", "running", "unwinding"}
Phases == {"idle", "looking", "waiting"} \union Ended

\* Link i lies behind a chain call: it was left out or asked in this pass.
Behind(p, l, i) == i < l \/ (p = "waiting" /\ i = l)

CallTyped(c) ==
    /\ phase[c] \in Phases
    /\ pass[c] \in {1, 2} /\ link[c] \in 1 .. Len(Chain) + 1
    /\ round[c] \in 0 .. Rounds[c]
    /\ at[c] \in [Links -> Stages] /\ exchanges[c] \in [Links -> 0 .. 3]
    /\ attempts[c] \in [Links -> 0 .. 2]

\* A race asks every link once.
RaceState(c) ==
    /\ phase[c] # "looking"
    /\ phase[c] # "idle" => \A i \in Links : attempts[c][i] = 1

\* A chain call has at most the link it looks at under way.
OneUnderWay(c) ==
    /\ \A i \in Links : i # link[c] => at[c][i] = "idle"
    /\ phase[c] \in {"idle", "looking"} => \A i \in Links : at[c][i] = "idle"
    /\ phase[c] = "waiting" => link[c] \in Links

\* It asks a link at most once a pass, and leaves none behind unasked without
\* saying so.
AsksInOrder(c) ==
    /\ pass[c] = 2 => skipped[c]
    /\ phase[c] \in {"looking", "waiting"} =>
         \A i \in Links :
            /\ attempts[c][i] <=
                 IF Behind(phase[c], link[c], i) THEN pass[c] ELSE pass[c] - 1
            /\ ~skipped[c] /\ Behind(phase[c], link[c], i) => attempts[c][i] >= 1
    /\ phase[c] = "failed" /\ ~skipped[c] =>
         \A i \in Links : attempts[c][i] >= 1

CallOK(c) ==
    /\ CallTyped(c)
    /\ skipped[c] \in BOOLEAN
    /\ c \in Races => RaceState(c)
    /\ c \notin Races => OneUnderWay(c) /\ AsksInOrder(c)

CallDomains ==
    /\ phase = [c \in Calls |-> phase[c]] /\ pass = [c \in Calls |-> pass[c]]
    /\ link = [c \in Calls |-> link[c]] /\ skipped = [c \in Calls |-> skipped[c]]
    /\ round = [c \in Calls |-> round[c]] /\ at = [c \in Calls |-> at[c]]
    /\ exchanges = [c \in Calls |-> exchanges[c]]
    /\ attempts = [c \in Calls |-> attempts[c]]

CallInv == CallDomains /\ \A c \in Calls : CallOK(c)

\* A step of call c leaves the others as they are.
OnlyCall(c) ==
    /\ CallDomains'
    /\ \A d \in Calls \ {c} :
         /\ phase'[d] = phase[d] /\ pass'[d] = pass[d] /\ link'[d] = link[d]
         /\ skipped'[d] = skipped[d] /\ round'[d] = round[d] /\ at'[d] = at[d]
         /\ exchanges'[d] = exchanges[d] /\ attempts'[d] = attempts[d]

LEMMA OneCall ==
    ASSUME CallInv, NEW c \in Calls, OnlyCall(c), CallOK(c)'
    PROVE  CallInv'
<1>1. ASSUME NEW d \in Calls, d # c PROVE CallOK(d)'
  <2>1. /\ phase'[d] = phase[d] /\ pass'[d] = pass[d] /\ link'[d] = link[d]
        /\ skipped'[d] = skipped[d] /\ round'[d] = round[d] /\ at'[d] = at[d]
        /\ exchanges'[d] = exchanges[d] /\ attempts'[d] = attempts[d]
    BY <1>1 DEF OnlyCall
  <2>2. CallOK(d)
    BY DEF CallInv
  <2> QED
    BY <2>1, <2>2, Zenon DEF CallOK, CallTyped, RaceState, OneUnderWay, AsksInOrder
<1> QED BY <1>1 DEF CallInv, OnlyCall

LEMMA ChainLength == Len(Chain) \in Nat /\ Links = 1 .. Len(Chain)
BY FailoverAssumption DEF FailoverAssumption, Links

\* A caller goes on only after its first or second exchange.
LEMMA FewExchanges ==
    ASSUME NEW style, NEW exchange, NEW n \in 0 .. 3, Retries(style, exchange, n)
    PROVE  n + 1 \in 0 .. 3
BY DEF Retries, StreamRetries, PostRetries, KimiRetries, DeepSeekRetries

LEMMA BeginOK ==
    ASSUME CallInv, NEW c \in Calls, Begin(c)
    PROVE  CallInv'
<1>1. OnlyCall(c)
  BY DEF Begin, CallInv, CallDomains, OnlyCall
<1>2. CallTyped(c)
  BY DEF CallInv, CallOK
<1>3. /\ pass'[c] = 1 /\ link'[c] = 1 /\ skipped'[c] = FALSE
      /\ exchanges' = exchanges
  BY DEF Begin, CallInv, CallDomains
<1>4. round'[c] \in 0 .. Rounds[c]
  <2>1. round[c] \in 0 .. Rounds[c] /\ Rounds[c] \in Nat
    BY <1>2, FailoverAssumption DEF FailoverAssumption, CallTyped
  <2> QED BY <2>1 DEF Begin, CallInv, CallDomains
<1>5. CASE c \in Races
  <2>1. /\ phase'[c] = "waiting" /\ at'[c] = [i \in Links |-> "queued"]
        /\ attempts'[c] = [i \in Links |-> 1]
    BY <1>5 DEF Begin, CallInv, CallDomains
  <2>2. CallTyped(c)' /\ RaceState(c)'
    BY <1>2, <1>3, <1>4, <2>1, ChainLength DEF CallTyped, Phases, Stages, RaceState
  <2> QED BY <1>1, <1>3, <1>5, <2>2, OneCall DEF CallOK
<1>6. CASE c \notin Races
  <2>1. /\ phase'[c] = "looking" /\ at'[c] = [i \in Links |-> "idle"]
        /\ attempts'[c] = [i \in Links |-> 0]
    BY <1>6 DEF Begin, CallInv, CallDomains, Nobody
  <2>2. CallTyped(c)'
    BY <1>2, <1>3, <1>4, <2>1, ChainLength DEF CallTyped, Phases, Stages
  <2>3. OneUnderWay(c)' /\ AsksInOrder(c)'
    BY <1>3, <2>1, ChainLength DEF OneUnderWay, AsksInOrder, Behind
  <2> QED BY <1>1, <1>3, <1>6, <2>2, <2>3, OneCall DEF CallOK
<1> QED BY <1>5, <1>6

LEMMA LoopOK ==
    ASSUME CallInv, NEW c \in Calls, Loop(c)
    PROVE  CallInv'
<1>1. CallOK(c) /\ CallDomains
  BY DEF CallInv
<1>2. phase[c] = "looking" /\ c \notin Races
  BY <1>1 DEF Loop, LookOn, Attempt, SecondPass, GiveUp, CallOK, RaceState
<1>3. CallTyped(c) /\ skipped[c] \in BOOLEAN /\ OneUnderWay(c) /\ AsksInOrder(c)
  BY <1>1, <1>2 DEF CallOK
<1>4. /\ pass[c] \in {1, 2} /\ link[c] \in Nat
      /\ \A i \in Links :
           /\ i \in Nat /\ attempts[c][i] \in 0 .. 2
           /\ attempts[c][i] <= IF i < link[c] THEN pass[c] ELSE pass[c] - 1
  <2>1. \A i \in Links :
          attempts[c][i] <= IF Behind(phase[c], link[c], i) THEN pass[c] ELSE pass[c] - 1
    BY <1>2, <1>3 DEF AsksInOrder
  <2>2. \A i \in Links : Behind(phase[c], link[c], i) <=> i < link[c]
    BY <1>2 DEF Behind
  <2>3. /\ pass[c] \in {1, 2} /\ link[c] \in Nat
        /\ \A i \in Links : i \in Nat /\ attempts[c][i] \in 0 .. 2
    BY <1>3, ChainLength DEF CallTyped
  <2> QED BY <2>1, <2>2, <2>3
<1>5. ~skipped[c] => \A i \in Links : i < link[c] => attempts[c][i] >= 1
  BY <1>2, <1>3 DEF AsksInOrder, Behind
<1> SUFFICES OnlyCall(c) /\ CallTyped(c)' /\ skipped'[c] \in BOOLEAN
             /\ OneUnderWay(c)' /\ AsksInOrder(c)'
  BY <1>2, OneCall DEF CallOK
<1>6. CASE LookOn(c)
  <2>1. OnlyCall(c)
    BY <1>1, <1>6 DEF LookOn, tasks, CallDomains, OnlyCall
  <2>2. /\ link[c] \in Links /\ link'[c] = link[c] + 1
        /\ UNCHANGED <<phase, pass, round, at, exchanges, attempts>>
    BY <1>1, <1>6 DEF LookOn, tasks, CallDomains
  <2>3. skipped'[c] = (skipped[c] \/ pass[c] = 1)
    BY <1>1, <1>6 DEF LookOn, CallDomains
  <2>4. skipped'[c]
    BY <1>3, <2>3 DEF AsksInOrder, CallTyped
  <2>5. skipped'[c] \in BOOLEAN
    BY <2>3
  <2>6. CallTyped(c)'
    BY <1>3, <2>2, ChainLength DEF CallTyped
  <2>7. OneUnderWay(c)'
    BY <1>2, <1>3, <2>2 DEF OneUnderWay
  <2>8. \A i \in Links :
          attempts'[c][i] <= IF i < link'[c] THEN pass'[c] ELSE pass'[c] - 1
    BY <1>4, <2>2
  <2>9. AsksInOrder(c)'
    BY <1>2, <2>2, <2>4, <2>8 DEF AsksInOrder, Behind
  <2> QED BY <2>1, <2>5, <2>6, <2>7, <2>9
<1>7. CASE Attempt(c)
  <2>1. OnlyCall(c)
    BY <1>1, <1>7 DEF Attempt, CallDomains, OnlyCall
  <2>2. /\ link[c] \in Links /\ phase'[c] = "waiting"
        /\ at'[c] = [at[c] EXCEPT ![link[c]] = "queued"]
        /\ attempts'[c] = [attempts[c] EXCEPT ![link[c]] = attempts[c][link[c]] + 1]
        /\ UNCHANGED <<pass, link, skipped, round, exchanges>>
    BY <1>1, <1>7 DEF Attempt, CallDomains
  <2>3. at'[c] \in [Links -> Stages]
        /\ \A i \in Links : i # link[c] => at'[c][i] = "idle"
    BY <1>2, <1>3, <2>2 DEF Stages, CallTyped, OneUnderWay
  <2>4. attempts[c][link[c]] + 1 \in 0 .. 2 /\ attempts[c][link[c]] + 1 <= pass[c]
    BY <1>4, <2>2
  <2>5. attempts'[c] \in [Links -> 0 .. 2]
    BY <1>3, <2>2, <2>4 DEF CallTyped
  <2>6. \A i \in Links :
          attempts'[c][i] = IF i = link[c] THEN attempts[c][i] + 1
                                           ELSE attempts[c][i]
    BY <1>3, <2>2 DEF CallTyped
  <2>7. CallTyped(c)'
    BY <1>3, <2>2, <2>3, <2>5 DEF CallTyped, Phases
  <2>8. OneUnderWay(c)'
    BY <2>2, <2>3 DEF OneUnderWay
  <2>9. \A i \in Links :
          attempts'[c][i] <= IF i < link[c] \/ i = link[c] THEN pass[c] ELSE pass[c] - 1
    BY <1>4, <2>4, <2>6
  <2>10. ~skipped[c] =>
           \A i \in Links : i < link[c] \/ i = link[c] => attempts'[c][i] >= 1
    BY <1>4, <1>5, <2>6
  <2>11. AsksInOrder(c)'
    BY <1>3, <2>2, <2>9, <2>10 DEF AsksInOrder, Behind
  <2> QED BY <1>3, <2>1, <2>2, <2>7, <2>8, <2>11
<1>8. CASE SecondPass(c)
  <2>1. OnlyCall(c)
    BY <1>1, <1>8 DEF SecondPass, tasks, CallDomains, OnlyCall
  <2>2. /\ link[c] \notin Links /\ pass[c] = 1 /\ skipped[c]
        /\ pass'[c] = 2 /\ link'[c] = 1
        /\ UNCHANGED <<phase, skipped, round, at, exchanges, attempts>>
    BY <1>1, <1>8 DEF SecondPass, tasks, CallDomains
  <2>3. CallTyped(c)'
    BY <1>3, <2>2, ChainLength DEF CallTyped
  <2>4. OneUnderWay(c)'
    BY <1>2, <1>3, <2>2 DEF OneUnderWay
  <2>5. AsksInOrder(c)'
    BY <1>2, <1>3, <2>2, ChainLength DEF AsksInOrder, CallTyped, Behind
  <2> QED BY <1>3, <2>1, <2>2, <2>3, <2>4, <2>5
<1>9. CASE GiveUp(c)
  <2>1. OnlyCall(c)
    BY <1>1, <1>9 DEF GiveUp, tasks, CallDomains, OnlyCall
  <2>2. /\ link[c] \notin Links /\ (pass[c] = 2 \/ ~skipped[c])
        /\ phase'[c] = "failed"
        /\ UNCHANGED <<pass, link, skipped, round, at, exchanges, attempts>>
    BY <1>1, <1>9 DEF GiveUp, tasks, CallDomains
  <2>3. CallTyped(c)'
    BY <1>3, <2>2 DEF CallTyped, Phases, Ended
  <2>4. OneUnderWay(c)'
    BY <1>2, <1>3, <2>2 DEF OneUnderWay
  <2>5. AsksInOrder(c)'
    BY <1>2, <1>3, <2>2, ChainLength DEF AsksInOrder, CallTyped, Behind
  <2> QED BY <1>3, <2>1, <2>2, <2>3, <2>4, <2>5
<1> QED BY <1>6, <1>7, <1>8, <1>9 DEF Loop

\* A step that leaves the loop's variables and the history alone keeps what
\* they say; the state of the attempts must still fit.
LEMMA LoopKept ==
    ASSUME NEW c \in Calls, CallOK(c), UNCHANGED <<loop, attempts>>,
           at'[c] \in [Links -> Stages], exchanges'[c] \in [Links -> 0 .. 3],
           c \notin Races =>
             \A i \in Links : at[c][i] = "idle" => at'[c][i] = "idle"
    PROVE  CallOK(c)'
<1>1. CallTyped(c)' /\ skipped'[c] \in BOOLEAN
  BY DEF CallOK, CallTyped, loop
<1>2. CASE c \in Races
  <2>1. RaceState(c)'
    BY <1>2 DEF CallOK, RaceState, loop
  <2> QED BY <1>1, <1>2, <2>1 DEF CallOK
<1>3. CASE c \notin Races
  <2>1. OneUnderWay(c)'
    BY <1>3 DEF CallOK, OneUnderWay, loop
  <2>2. AsksInOrder(c)'
    BY <1>3, Zenon DEF CallOK, AsksInOrder, loop
  <2> QED BY <1>1, <1>3, <2>1, <2>2 DEF CallOK
<1> QED BY <1>2, <1>3

LEMMA GateOK ==
    ASSUME CallInv, NEW c \in Calls, NEW i \in Links, Enter(c, i) \/ Unwind(c, i)
    PROVE  CallInv'
<1>1. CallOK(c) /\ CallDomains /\ CallTyped(c)
  BY DEF CallInv, CallOK
<1>2. PICK stage \in {"running", "idle"} : at' = [at EXCEPT ![c][i] = stage]
  BY DEF Enter, Unwind
<1>3. at[c][i] \in {"queued", "unwinding"} /\ UNCHANGED <<loop, attempts>>
  BY DEF Enter, Unwind
<1>4. exchanges' = exchanges \/ exchanges' = [exchanges EXCEPT ![c][i] = 1]
  BY DEF Enter, Unwind
<1>5. OnlyCall(c)
  BY <1>1, <1>2, <1>3, <1>4 DEF CallDomains, OnlyCall, loop
<1>6. at'[c] = [at[c] EXCEPT ![i] = stage]
  BY <1>1, <1>2 DEF CallDomains
<1>7. at'[c] \in [Links -> Stages]
  BY <1>1, <1>6 DEF CallTyped, Stages
<1>8. exchanges'[c] \in [Links -> 0 .. 3]
  BY <1>1, <1>4 DEF CallTyped, CallDomains
<1>9. \A j \in Links : at[c][j] = "idle" => at'[c][j] = "idle"
  BY <1>1, <1>3, <1>6 DEF CallTyped
<1> QED BY <1>1, <1>3, <1>5, <1>7, <1>8, <1>9, LoopKept, OneCall

\* A call that ends leaves at most what it had under way, unwinding.
LEMMA EndOK ==
    ASSUME NEW c \in Calls, CallOK(c), phase[c] # "idle",
           phase'[c] \in Ended, phase'[c] = "failed" => c \in Races,
           UNCHANGED <<pass, link, skipped, round, attempts>>,
           at'[c] \in [Links -> Stages], exchanges'[c] \in [Links -> 0 .. 3],
           c \notin Races =>
             \A i \in Links : at[c][i] = "idle" => at'[c][i] = "idle"
    PROVE  CallOK(c)'
<1>1. CallTyped(c)' /\ skipped'[c] \in BOOLEAN
  BY DEF CallOK, CallTyped, Phases
<1>2. CASE c \in Races
  <2>1. RaceState(c)'
    BY <1>2 DEF CallOK, RaceState, Ended
  <2> QED BY <1>1, <1>2, <2>1 DEF CallOK
<1>3. CASE c \notin Races
  <2>1. OneUnderWay(c)'
    BY <1>3 DEF CallOK, OneUnderWay, Ended
  <2>2. phase'[c] \notin {"looking", "waiting", "failed"}
    BY <1>3 DEF Ended
  <2>3. AsksInOrder(c)'
    BY <1>3, <2>2 DEF CallOK, AsksInOrder
  <2> QED BY <1>1, <1>3, <2>1, <2>3 DEF CallOK
<1> QED BY <1>2, <1>3

LEMMA CancelOK ==
    ASSUME CallInv, NEW c \in Calls, Cancel(c)
    PROVE  CallInv'
<1>1. CallOK(c) /\ CallDomains /\ CallTyped(c)
  BY DEF CallInv, CallOK
<1>2. OnlyCall(c)
  BY <1>1 DEF Cancel, CallDomains, OnlyCall
<1>3. /\ phase[c] = "waiting" /\ phase'[c] = "cancelled"
      /\ at'[c] = [j \in Links |->
                     IF at[c][j] = "running" THEN "unwinding" ELSE "idle"]
      /\ exchanges'[c] = [j \in Links |-> 0]
      /\ UNCHANGED <<pass, link, skipped, round, attempts>>
  BY <1>1 DEF Cancel, CallDomains, NoExchange
<1>4. at'[c] \in [Links -> Stages] /\ exchanges'[c] \in [Links -> 0 .. 3]
  BY <1>3 DEF Stages
<1>5. \A i \in Links : at[c][i] = "idle" => at'[c][i] = "idle"
  BY <1>3
<1>6. phase'[c] \in Ended /\ phase'[c] # "failed" /\ phase[c] # "idle"
  BY <1>3 DEF Ended
<1> QED BY <1>1, <1>2, <1>3, <1>4, <1>5, <1>6, EndOK, OneCall

LEMMA AnsweredOK ==
    ASSUME CallInv, NEW c \in Calls, NEW i \in Links, Answered(c, i)
    PROVE  CallInv'
<1>1. CallOK(c) /\ CallDomains /\ CallTyped(c)
  BY DEF CallInv, CallOK
<1>2. /\ phase[c] = "waiting" /\ phase'[c] = "returned"
      /\ exchanges'[c] = [j \in Links |-> 0]
      /\ UNCHANGED <<pass, link, skipped, round, attempts>>
  BY <1>1 DEF Answered, CallDomains, NoExchange
<1>3. PICK stages \in [Links -> Stages] :
        /\ at' = [at EXCEPT ![c] = stages]
        /\ c \notin Races => \A j \in Links : at[c][j] = "idle" => stages[j] = "idle"
  <2>1. CASE c \in Races
    <3>1. at' = [at EXCEPT ![c] = [j \in Links |->
                   IF j # i /\ at[c][j] = "running" THEN "unwinding" ELSE "idle"]]
      BY <2>1 DEF Answered, WinRace
    <3>2. [j \in Links |-> IF j # i /\ at[c][j] = "running"
                           THEN "unwinding" ELSE "idle"] \in [Links -> Stages]
      BY DEF Stages
    <3> QED BY <2>1, <3>1, <3>2
  <2>2. CASE c \notin Races
    <3>1. at' = [at EXCEPT ![c] = [at[c] EXCEPT ![i] = "idle"]]
      BY <2>2 DEF Answered
    <3>2. /\ [at[c] EXCEPT ![i] = "idle"] \in [Links -> Stages]
          /\ \A j \in Links : at[c][j] = "idle" =>
               [at[c] EXCEPT ![i] = "idle"][j] = "idle"
      BY <1>1 DEF CallTyped, Stages
    <3> QED BY <3>1, <3>2
  <2> QED BY <2>1, <2>2
<1>4. at'[c] = stages
  BY <1>1, <1>3 DEF CallDomains
<1>5. OnlyCall(c)
  BY <1>1, <1>3 DEF Answered, CallDomains, OnlyCall
<1>6. exchanges'[c] \in [Links -> 0 .. 3]
  BY <1>2
<1>7. phase'[c] \in Ended /\ phase'[c] # "failed" /\ phase[c] # "idle"
  BY <1>2 DEF Ended
<1> QED BY <1>1, <1>2, <1>3, <1>4, <1>5, <1>6, <1>7, EndOK, OneCall

\* An attempt that fails: of a race, one racer less; of a chain, the loop goes
\* on behind the link just asked, or the call ends.
LEMMA AttemptFailsOK ==
    ASSUME CallInv, NEW c \in Calls, NEW i \in Links, NEW exchange, NEW words,
           at[c][i] = "running", phase[c] = "waiting",
           AttemptFails(c, i, exchange, words)
    PROVE  CallInv'
<1>1. CallOK(c) /\ CallDomains /\ CallTyped(c)
  BY DEF CallInv, CallOK
<1>2. /\ at'[c] = [at[c] EXCEPT ![i] = "idle"]
      /\ exchanges'[c] = [exchanges[c] EXCEPT ![i] = 0]
      /\ attempts' = attempts
  BY <1>1 DEF AttemptFails, CallDomains
<1>3. /\ at'[c] \in [Links -> Stages] /\ exchanges'[c] \in [Links -> 0 .. 3]
      /\ \A j \in Links : at[c][j] = "idle" => at'[c][j] = "idle"
  BY <1>1, <1>2 DEF CallTyped, Stages
<1>4. CASE c \in Races
  <2>1. RacerFails(c, i)
    BY <1>4 DEF AttemptFails
  <2>2. OnlyCall(c)
    BY <1>1, <2>1 DEF RacerFails, AttemptFails, CallDomains, OnlyCall
  <2>3. CASE InFlight(c) = {i}
    <3>1. phase'[c] = "failed" /\ UNCHANGED <<pass, link, skipped, round>>
      BY <1>1, <2>1, <2>3 DEF RacerFails, CallDomains
    <3>2. phase'[c] \in Ended /\ phase[c] # "idle"
      BY <3>1 DEF Ended
    <3> QED BY <1>1, <1>2, <1>3, <1>4, <2>2, <3>1, <3>2, EndOK, OneCall
  <2>4. CASE InFlight(c) # {i}
    <3>1. phase'[c] = phase[c] /\ UNCHANGED <<pass, link, skipped, round>>
      BY <1>1, <2>1, <2>4 DEF RacerFails, CallDomains
    <3>2. CallTyped(c)' /\ skipped'[c] \in BOOLEAN /\ RaceState(c)'
      BY <1>1, <1>2, <1>3, <1>4, <3>1 DEF CallOK, CallTyped, RaceState
    <3> QED BY <1>4, <2>2, <3>2, OneCall DEF CallOK
  <2> QED BY <2>3, <2>4
<1>5. CASE c \notin Races /\ ~RoutesPast(exchange, words)
  <2>1. Raise(c)
    BY <1>5 DEF AttemptFails
  <2>2. OnlyCall(c)
    BY <1>1, <2>1 DEF Raise, AttemptFails, CallDomains, OnlyCall
  <2>3. phase'[c] = "raised" /\ UNCHANGED <<pass, link, skipped, round>>
    BY <1>1, <2>1 DEF Raise, CallDomains
  <2>4. phase'[c] \in Ended /\ phase'[c] # "failed" /\ phase[c] # "idle"
    BY <2>3 DEF Ended
  <2> QED BY <1>1, <1>2, <1>3, <2>2, <2>3, <2>4, EndOK, OneCall
<1>6. CASE c \notin Races /\ RoutesPast(exchange, words)
  <2>1. MoveOn(c, i)
    BY <1>6 DEF AttemptFails
  <2>2. OnlyCall(c)
    BY <1>1, <2>1 DEF MoveOn, AttemptFails, CallDomains, OnlyCall
  <2>3. /\ phase'[c] = "looking" /\ link'[c] = link[c] + 1
        /\ UNCHANGED <<pass, skipped, round>>
    BY <1>1, <2>1 DEF MoveOn, CallDomains
  <2>4. OneUnderWay(c) /\ AsksInOrder(c) /\ skipped[c] \in BOOLEAN
    BY <1>1, <1>6 DEF CallOK
  <2>5. i = link[c] /\ link[c] \in Links
    BY <2>4 DEF OneUnderWay
  <2>6. \A j \in Links : at'[c][j] = "idle"
    BY <1>1, <1>2, <2>4, <2>5 DEF OneUnderWay, CallTyped
  <2>7. CallTyped(c)'
    BY <1>1, <1>2, <1>3, <2>3, <2>5, ChainLength DEF CallTyped, Phases
  <2>8. OneUnderWay(c)'
    BY <2>3, <2>6 DEF OneUnderWay
  <2>9. \A j \in Links : Behind("looking", link[c] + 1, j)
                           <=> Behind("waiting", link[c], j)
    BY <1>1, ChainLength DEF Behind, CallTyped
  <2>10. AsksInOrder(c)'
    BY <1>2, <2>3, <2>4, <2>9, Zenon DEF AsksInOrder
  <2> QED BY <1>6, <2>2, <2>3, <2>4, <2>7, <2>8, <2>10, OneCall DEF CallOK
<1> QED BY <1>4, <1>5, <1>6

LEMMA AttemptEndsOK ==
    ASSUME CallInv, NEW c \in Calls, NEW i \in Links, AttemptEnds(c, i)
    PROVE  CallInv'
<1>1. CASE Answered(c, i)
  BY <1>1, AnsweredOK
<1>2. CASE NotJson(c, i) \/ Deadline(c, i)
  BY <1>2, AttemptFailsOK DEF NotJson, Deadline
<1>3. CASE Failed(c, i)
  <2>1. at[c][i] = "running" /\ phase[c] = "waiting"
    BY <1>3 DEF Failed
  <2>2. PICK exchange \in ExchangesOf(Style(i)) \ {"text"}, words \in Words :
          IF Retries(Style(i), exchange, exchanges[c][i])
          THEN /\ exchanges' = [exchanges EXCEPT ![c][i] = @ + 1]
               /\ UNCHANGED <<breaker, loop, at, attempts>>
          ELSE AttemptFails(c, i, exchange, words)
    BY <1>3 DEF Failed
  <2>3. CASE Retries(Style(i), exchange, exchanges[c][i])
    <3>1. CallOK(c) /\ CallDomains /\ CallTyped(c)
      BY DEF CallInv, CallOK
    <3>2. /\ exchanges' = [exchanges EXCEPT ![c][i] = exchanges[c][i] + 1]
          /\ UNCHANGED <<loop, at, attempts>>
      BY <2>2, <2>3
    <3>3. OnlyCall(c)
      BY <3>1, <3>2 DEF CallDomains, OnlyCall, loop
    <3>4. exchanges[c][i] + 1 \in 0 .. 3
      BY <2>3, <3>1, FewExchanges DEF CallTyped
    <3>5. exchanges'[c] = [exchanges[c] EXCEPT ![i] = exchanges[c][i] + 1]
      BY <3>1, <3>2 DEF CallDomains
    <3>6. exchanges'[c] \in [Links -> 0 .. 3] /\ at'[c] \in [Links -> Stages]
          /\ at' = at
      BY <3>1, <3>2, <3>4, <3>5 DEF CallTyped
    <3> QED BY <3>1, <3>2, <3>3, <3>6, LoopKept, OneCall
  <2>4. CASE ~Retries(Style(i), exchange, exchanges[c][i])
    BY <2>1, <2>2, <2>4, AttemptFailsOK
  <2> QED BY <2>3, <2>4
<1> QED BY <1>1, <1>2, <1>3 DEF AttemptEnds

\* The invariant of the calls under every interleaving.
THEOREM CallInvariant == Spec => []CallInv
<1>1. Init => CallInv
  <2> SUFFICES ASSUME Init PROVE CallDomains /\ \A c \in Calls : CallOK(c)
    BY DEF CallInv
  <2>1. CallDomains
    BY DEF Init, CallDomains
  <2> SUFFICES ASSUME NEW c \in Calls PROVE CallOK(c)
    BY <2>1
  <2>2. /\ phase[c] = "idle" /\ pass[c] = 1 /\ link[c] = 1 /\ skipped[c] = FALSE
        /\ round[c] = 0 /\ at[c] = [i \in Links |-> "idle"]
        /\ exchanges[c] = [i \in Links |-> 0]
        /\ attempts[c] = [i \in Links |-> 0]
    BY DEF Init, Nobody, NoExchange
  <2>3. 0 \in 0 .. Rounds[c]
    BY FailoverAssumption DEF FailoverAssumption
  <2>4. CallTyped(c)
    BY <2>2, <2>3, ChainLength DEF CallTyped, Phases, Stages
  <2>5. RaceState(c) /\ OneUnderWay(c) /\ AsksInOrder(c)
    BY <2>2 DEF RaceState, OneUnderWay, AsksInOrder
  <2> QED BY <2>2, <2>4, <2>5 DEF CallOK
<1>2. CallInv /\ [Next]_vars => CallInv'
  <2> SUFFICES ASSUME CallInv, [Next]_vars PROVE CallInv'
    OBVIOUS
  <2>1. ASSUME NEW c \in Calls, Begin(c) \/ Loop(c) \/ Cancel(c) PROVE CallInv'
    BY <2>1, BeginOK, LoopOK, CancelOK
  <2>2. ASSUME NEW c \in Calls, NEW i \in Links,
               Enter(c, i) \/ AttemptEnds(c, i) \/ Unwind(c, i)
        PROVE  CallInv'
    BY <2>2, GateOK, AttemptEndsOK
  <2>3. CASE UNCHANGED <<loop, tasks>>
    <3>1. CallDomains'
      BY <2>3 DEF CallInv, CallDomains, loop, tasks
    <3>2. ASSUME NEW c \in Calls PROVE CallOK(c)'
      <4>1. CallOK(c) /\ CallTyped(c)
        BY DEF CallInv, CallOK
      <4> QED BY <2>3, <4>1, LoopKept DEF tasks, CallTyped
    <3> QED BY <3>1, <3>2 DEF CallInv
  <2>4. ASSUME NEW i \in Links, CooldownEnds(i) PROVE UNCHANGED <<loop, tasks>>
    BY <2>4 DEF CooldownEnds
  <2>5. CASE UNCHANGED vars
    BY <2>3, <2>5 DEF vars
  <2> QED BY <2>1, <2>2, <2>3, <2>4, <2>5 DEF Next
<1> QED BY <1>1, <1>2, PTL DEF Spec

\* A chain call holds or awaits one gate at a time, and none while it looks
\* on; "all callers failed" comes after all were asked, or with a link left
\* out (FallbackCaller, RaceCaller), for any chain, gates and calls.
THEOREM CallsInOrderHolds == Spec => []CallsInOrder
<1>1. BreakerInv /\ CallInv => CallsInOrder
  <2> SUFFICES ASSUME BreakerInv, CallInv PROVE CallsInOrder
    OBVIOUS
  <2>1. FailoverTypeOK
    <3>1. \A c \in Calls : CallTyped(c) /\ skipped[c] \in BOOLEAN
      BY DEF CallInv, CallOK
    <3>2. /\ phase \in [Calls -> Phases] /\ pass \in [Calls -> {1, 2}]
          /\ link \in [Calls -> 1 .. Len(Chain) + 1]
          /\ at \in [Calls -> [Links -> Stages]]
          /\ exchanges \in [Calls -> [Links -> 0 .. 3]]
          /\ attempts \in [Calls -> [Links -> 0 .. 2]]
          /\ \A c \in Calls : round[c] \in 0 .. Rounds[c]
      BY <3>1 DEF CallInv, CallDomains, CallTyped
    <3>3. skipped \in [Calls -> BOOLEAN]
      BY <3>1 DEF CallInv, CallDomains
    <3> QED
      BY <3>2, <3>3 DEF FailoverTypeOK, BreakerInv, BreakerTypeOK, Phases, Stages
  <2>2. OneGatePerCall
    <3> SUFFICES ASSUME NEW c \in Calls \ Races
                 PROVE  /\ Cardinality({i \in Links : at[c][i] # "idle"}) <= 1
                        /\ phase[c] = "looking" => at[c] = Nobody
      BY DEF OneGatePerCall
    <3>1. OneUnderWay(c) /\ CallTyped(c)
      BY DEF CallInv, CallOK
    <3>2. {i \in Links : at[c][i] # "idle"} \subseteq {link[c]}
      BY <3>1 DEF OneUnderWay
    <3>3. Cardinality({i \in Links : at[c][i] # "idle"}) <= Cardinality({link[c]})
      BY <3>2, FS_Singleton, FS_Subset
    <3>4. phase[c] = "looking" => at[c] = Nobody
      BY <3>1 DEF OneUnderWay, CallTyped, Nobody
    <3> QED BY <3>3, <3>4, FS_Singleton
  <2>3. GivesUpAfterAll
    <3> SUFFICES ASSUME NEW c \in Calls, phase[c] = "failed", ~skipped[c],
                        NEW i \in Links
                 PROVE  attempts[c][i] >= 1
      BY DEF GivesUpAfterAll
    <3>1. CASE c \in Races
      BY <3>1 DEF CallInv, CallOK, RaceState
    <3>2. CASE c \notin Races
      BY <3>2 DEF CallInv, CallOK, AsksInOrder
    <3> QED BY <3>1, <3>2
  <2> QED BY <2>1, <2>2, <2>3 DEF CallsInOrder
<1> QED BY <1>1, CallInvariant, BreakerInvariant, PTL
=============================================================================
