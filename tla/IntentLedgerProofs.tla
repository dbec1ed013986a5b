------------------------- MODULE IntentLedgerProofs -------------------------
(***************************************************************************)
(* Theorems about the fork ledger and the live goal, for any messages and  *)
(* any number of prompts: they implement the commitment, the verdicts on   *)
(* the agent's actions are never silent about a departure, and a citation  *)
(* names one choice for ever.                                              *)
(***************************************************************************)
EXTENDS IntentLedger, SelectionProofs

-----------------------------------------------------------------------------
(* The greatest of finitely many numbers, which names the standing pick and *)
(* the newest open fork.                                                   *)

LEMMA GreatestExists ==
    ASSUME NEW n \in Nat, NEW S \in SUBSET (1 .. n), S # {}
    PROVE  \E x \in S : \A y \in S : y <= x
<1> DEFINE Bounds == {k \in Nat : \A y \in S : y <= k}
<1>1. n \in Bounds
  OBVIOUS
<1>2. PICK k \in Bounds : \A b \in Bounds : k <= b
  BY <1>1, LeastOf
<1>3. k \in S
  <2> SUFFICES ASSUME k \notin S PROVE FALSE
    OBVIOUS
  <2>1. \A y \in S : y <= k /\ y # k /\ y \in Nat /\ y >= 1
    BY <1>2
  <2>2. k \in Nat \ {0}
    <3>1. PICK y \in S : TRUE
      OBVIOUS
    <3>2. k \in Nat
      BY <1>2
    <3> QED BY <2>1, <3>1, <3>2
  <2>3. k - 1 \in Nat /\ \A y \in S : y <= k - 1
    BY <2>1, <2>2
  <2>4. k - 1 \in Bounds
    BY <2>3
  <2> QED BY <1>2, <2>2, <2>4
<1> QED BY <1>2, <1>3

-----------------------------------------------------------------------------
(* The shape of the ledger.                                                *)

Statuses == {"open", "resolved", "superseded"}

Rows == [pn : Nat, seq : Nat \ {0}, status : Statuses,
         labels : {ParseFork(m).labels : m \in Offers},
         best : {ParseFork(m).best : m \in Offers}, from : Nat]

PickLabels == {ResolveSelection(f, r).label : f \in Rows, r \in Replies}
Bindings == [fork : Nat, label : PickLabels, from : Nat]

LogTyped ==
    /\ log \in Seq(Agents \union Users)
    /\ cursor \in 0 .. Len(log) /\ pos \in 0 .. Len(log)
    /\ hook \in {"idle", "replay", "live", "goal", "done"}
    /\ prompt \in Users \union {NoPrompt}
    /\ hook # "idle" => prompt \in Users

RowsTyped ==
    /\ exchange \in Nat
    /\ forks \in Seq(Rows)
    /\ bindings \in Seq(Bindings)
    /\ \A f \in DOMAIN forks : forks[f].pn \in 0 .. exchange
    /\ \A i \in DOMAIN bindings : bindings[i].fork \in DOMAIN forks
    /\ proposal \in 0 .. Len(forks)

ShapeInv == LogTyped /\ RowsTyped

\* The standing pick is a pick, of a fork that has not been superseded.
LEMMA LivePickStands ==
    ASSUME RowsTyped
    PROVE  /\ LiveBinding = 0 => LiveFork = 0
           /\ LiveBinding # 0 => /\ LiveBinding \in DOMAIN bindings
                                 /\ LiveFork = bindings[LiveBinding].fork
                                 /\ LiveFork \in DOMAIN forks \ Superseded
                                 /\ LiveFork # 0
<1> DEFINE standing == {i \in DOMAIN BoundForks : BoundForks[i] \notin Superseded}
<1>1. /\ DOMAIN BoundForks = DOMAIN bindings
      /\ \A i \in DOMAIN bindings : BoundForks[i] = bindings[i].fork
  BY DEF BoundForks
<1>2. DOMAIN bindings = 1 .. Len(bindings) /\ Len(bindings) \in Nat
  BY DEF RowsTyped
<1>3. LiveBinding = IF standing = {} THEN 0 ELSE Max(standing)
  BY DEF LiveBinding, C!LivePick, C!Max, Max
<1>4. LiveFork = IF LiveBinding = 0 THEN 0 ELSE BoundForks[LiveBinding]
  BY DEF LiveFork, C!LiveFork, LiveBinding
<1>5. CASE standing = {}
  BY <1>3, <1>4, <1>5
<1>6. CASE standing # {}
  <2>1. standing \in SUBSET (1 .. Len(bindings))
    BY <1>1, <1>2
  <2>2. \E x \in standing : \A y \in standing : y <= x
    BY <1>2, <1>6, <2>1, GreatestExists
  <2>3. \E x \in standing : \A y \in standing : x >= y
    BY <1>2, <2>1, <2>2
  <2>4. Max(standing) \in standing
    BY <2>3 DEF Max
  <2>5. LiveBinding \in standing /\ LiveBinding # 0
    BY <1>2, <1>3, <1>6, <2>1, <2>4
  <2>6. DOMAIN forks = 1 .. Len(forks) /\ Len(forks) \in Nat
    BY DEF RowsTyped
  <2> HIDE DEF standing
  <2>7. LiveBinding \in DOMAIN bindings /\ BoundForks[LiveBinding] \notin Superseded
    BY <1>1, <2>5 DEF standing
  <2> QED BY <1>1, <1>4, <2>5, <2>6, <2>7 DEF RowsTyped
<1> QED BY <1>5, <1>6

-----------------------------------------------------------------------------
(* What a step does to the ledger and the question: every one is one of    *)
(* these, or leaves both alone.                                            *)

Offered(m) ==
    /\ m \in Offers /\ IsFork(m)
    /\ AddFork(m)
    /\ UNCHANGED <<exchange, bindings, proposal>>

Picked(f, reply) ==
    /\ f \in OpenForks /\ reply \in Replies
    /\ ResolveSelection(forks[f], reply).made
    /\ exchange' = exchange + 1
    /\ \E at \in Nat : Bind(f, ResolveSelection(forks[f], reply).label, at)
    /\ forks' = forks \/ forks' = [forks EXCEPT ![f].status = "resolved"]
    /\ UNCHANGED proposal

Said == exchange' \in {exchange, exchange + 1} /\ UNCHANGED <<forks, bindings, proposal>>

Questioned ==
    /\ proposal' = 0 \/ (LiveFork # 0 /\ proposal' = LiveFork)
    /\ UNCHANGED ledger

Retired ==
    /\ proposal # 0 /\ proposal = LiveFork
    /\ forks' = [forks EXCEPT ![LiveFork].status = "superseded"]
    /\ proposal' \in {0, proposal}
    /\ UNCHANGED <<exchange, bindings>>

LedgerStep ==
    \/ \E m \in Offers : Offered(m)
    \/ \E f \in OpenForks, reply \in Replies : Picked(f, reply)
    \/ Said \/ Questioned \/ Retired

LEMMA NewestIsOpen ==
    ASSUME RowsTyped, OpenForks # {}
    PROVE  Newest(OpenForks) \in OpenForks
<1>1. DOMAIN forks = 1 .. Len(forks) /\ Len(forks) \in Nat
  BY DEF RowsTyped
<1>2. OpenForks \in SUBSET (1 .. Len(forks))
  BY <1>1 DEF OpenForks, WithStatus
<1>3. \E x \in OpenForks : \A y \in OpenForks : y <= x
  BY <1>1, <1>2, GreatestExists
<1> QED BY <1>3 DEF Newest

LEMMA UserObserved ==
    ASSUME RowsTyped, NEW reply \in Replies, NEW at \in Nat, NEW resolves \in BOOLEAN,
           ObserveUser(reply, at, resolves), UNCHANGED proposal
    PROVE  LedgerStep
<1> DEFINE f == Newest(OpenForks)
           pick == IF OpenForks = {} THEN NoPick ELSE ResolveSelection(forks[f], reply)
<1>1. CASE pick.made
  <2>1. OpenForks # {}
    BY <1>1 DEF NoPick
  <2>2. f \in OpenForks /\ pick = ResolveSelection(forks[f], reply)
    BY <2>1, NewestIsOpen
  <2>3. /\ Bind(f, pick.label, at) /\ exchange' = exchange + 1
        /\ forks' = forks \/ forks' = [forks EXCEPT ![f].status = "resolved"]
    BY <1>1 DEF ObserveUser
  <2> HIDE DEF f, pick
  <2>4. Picked(f, reply)
    BY <1>1, <2>2, <2>3 DEF Picked
  <2> QED BY <2>2, <2>4 DEF LedgerStep
<1>2. CASE ~pick.made
  <2>1. UNCHANGED <<forks, bindings>> /\ exchange' = exchange + 1
    BY <1>2 DEF ObserveUser
  <2> QED BY <2>1 DEF LedgerStep, Said
<1> QED BY <1>1, <1>2

LEMMA StepsOfTheLedger ==
    ASSUME ShapeInv, [Next]_vars
    PROVE  LedgerStep
<1> DEFINE event == log[pos + 1]
<1>1. RowsTyped /\ TRUE \in BOOLEAN /\ FALSE \in BOOLEAN
  BY DEF ShapeInv
<1>2. CASE UNCHANGED <<ledger, proposal>>
  BY <1>2 DEF ledger, Said, LedgerStep
<1>3. CASE UNCHANGED vars
  BY <1>2, <1>3 DEF vars
<1>4. CASE AgentSpeaks \/ Submit \/ ParkCursor \/ ReplayThrows \/ Deliver \/ Kill
  BY <1>2, <1>4 DEF AgentSpeaks, Submit, ParkCursor, ReplayThrows, Deliver, Kill
<1>5. ASSUME pos < Len(log)
      PROVE  event \in Agents \union Users /\ pos + 1 \in Nat
  BY <1>5 DEF ShapeInv, LogTyped
<1>6. ASSUME pos < Len(log), event.by = "user"
      PROVE  event.text \in Replies
  <2>1. event \notin Agents
    <3> HIDE DEF event
    <3> QED BY <1>6 DEF Agents
  <2> HIDE DEF event
  <2> QED BY <1>5, <1>6, <2>1 DEF Users
<1>7. ASSUME hook = "live"
      PROVE  prompt.text \in Replies /\ Len(log) + 1 \in Nat
  BY <1>7 DEF ShapeInv, LogTyped, Users
<1>8. CASE ReplayNext
  <2>1. pos < Len(log) /\ UNCHANGED proposal
    BY <1>8 DEF ReplayNext
  <2>2. CASE event.by = "agent"
    <3>1. ObserveAgent(event.text)
      BY <1>8, <2>2 DEF ReplayNext
    <3>2. event.text \in Offers
      <4> HIDE DEF event
      <4>1. event \notin Users
        BY <2>2 DEF Users
      <4> QED BY <1>5, <2>1, <4>1 DEF Agents
    <3> HIDE DEF event
    <3>3. CASE IsFork(event.text)
      BY <2>1, <3>1, <3>2, <3>3 DEF ObserveAgent, Offered, LedgerStep
    <3>4. CASE ~IsFork(event.text)
      BY <2>1, <3>1, <3>4 DEF ObserveAgent, Said, LedgerStep
    <3> QED BY <3>3, <3>4
  <2>3. CASE event.by # "agent"
    <3>1. event.by = "user"
      <4> HIDE DEF event
      <4> QED BY <1>5, <2>1, <2>3 DEF Agents, Users
    <3>2. ObserveUser(event.text, pos + 1, TRUE)
      BY <1>8, <2>3 DEF ReplayNext
    <3>3. event.text \in Replies /\ pos + 1 \in Nat
      BY <1>5, <1>6, <2>1, <3>1
    <3> HIDE DEF event
    <3> QED BY <1>1, <2>1, <3>2, <3>3, UserObserved
  <2> QED BY <2>2, <2>3
<1>9. CASE ObserveLive
  <2>1. hook = "live" /\ UNCHANGED proposal /\ ObserveUser(prompt.text, Len(log) + 1, TRUE)
    BY <1>9 DEF ObserveLive
  <2> QED BY <1>1, <1>7, <2>1, UserObserved
<1>10. CASE KillBetweenRows
  <2>1. UNCHANGED proposal
    BY <1>10 DEF KillBetweenRows
  <2>2. CASE hook = "live" /\ ObserveUser(prompt.text, Len(log) + 1, FALSE)
    BY <1>1, <1>7, <2>1, <2>2, UserObserved
  <2>3. CASE pos < Len(log) /\ event.by = "user"
             /\ ObserveUser(event.text, pos + 1, FALSE)
    <3>1. event.text \in Replies /\ pos + 1 \in Nat
      BY <1>5, <1>6, <2>3
    <3> HIDE DEF event
    <3> QED BY <1>1, <2>1, <2>3, <3>1, UserObserved
  <2> QED BY <1>10, <2>2, <2>3 DEF KillBetweenRows
<1>11. CASE LiveGoal
  <2> USE DEF GoalEnds, Pending, ledger, LedgerStep
  <2>1. CASE DropStale \/ ProposeRetirement \/ KeepCommitted \/ NothingToDo
    BY <2>1 DEF DropStale, ProposeRetirement, KeepCommitted, NothingToDo, Questioned, Said
  <2>2. CASE RetireCommitted
    BY <2>2 DEF RetireCommitted, Retired
  <2> QED BY <1>11, <2>1, <2>2 DEF LiveGoal
<1> QED BY <1>3, <1>4, <1>8, <1>9, <1>10, <1>11 DEF Next

-----------------------------------------------------------------------------
(* The shape is kept.                                                      *)

\* A new status for one row leaves the rest of the ledger as it is.
LEMMA OneStatus ==
    ASSUME forks \in Seq(Rows), NEW f \in DOMAIN forks, NEW status \in Statuses,
           forks' = [forks EXCEPT ![f].status = status]
    PROVE  /\ forks' \in Seq(Rows)
           /\ DOMAIN forks' = DOMAIN forks /\ Len(forks') = Len(forks)
           /\ \A g \in DOMAIN forks :
                 /\ forks'[g].pn = forks[g].pn /\ forks'[g].seq = forks[g].seq
                 /\ forks'[g].labels = forks[g].labels /\ forks'[g].best = forks[g].best
                 /\ forks'[g].status = IF g = f THEN status ELSE forks[g].status
<1> DEFINE row == [forks[f] EXCEPT !.status = status]
<1>1. forks[f] \in Rows /\ DOMAIN forks = 1 .. Len(forks)
  OBVIOUS
<1>2. /\ row \in Rows /\ row.pn = forks[f].pn /\ row.seq = forks[f].seq
      /\ row.labels = forks[f].labels /\ row.best = forks[f].best /\ row.status = status
  BY <1>1 DEF Rows
<1> HIDE DEF row
<1>3. forks' = [forks EXCEPT ![f] = row]
  BY DEF row
<1>4. forks' \in Seq(Rows) /\ Len(forks') = Len(forks) /\ DOMAIN forks' = DOMAIN forks
  BY <1>1, <1>2, <1>3
<1>5. \A g \in DOMAIN forks : forks'[g] = IF g = f THEN row ELSE forks[g]
  BY <1>1, <1>3
<1> QED BY <1>2, <1>4, <1>5

\* A fork offered becomes the last row.
LEMMA OneRow ==
    ASSUME ShapeInv, NEW m, Offered(m)
    PROVE  /\ forks' \in Seq(Rows) /\ Len(forks') = Len(forks) + 1
           /\ DOMAIN forks' = DOMAIN forks \union {Len(forks) + 1}
           /\ \A g \in DOMAIN forks : forks'[g] = forks[g]
           /\ forks'[Len(forks) + 1].pn = exchange
           /\ forks'[Len(forks) + 1].seq = NextSeq(exchange)
           /\ forks'[Len(forks) + 1].status = "open"
           /\ forks'[Len(forks) + 1].labels = ParseFork(m).labels
           /\ forks'[Len(forks) + 1].best = ParseFork(m).best
           /\ NextSeq(exchange) \in Nat \ {0}
<1> DEFINE row == [pn |-> exchange, seq |-> NextSeq(exchange), status |-> "open",
                   labels |-> ParseFork(m).labels, best |-> ParseFork(m).best,
                   from |-> pos + 1]
<1>1. /\ DOMAIN forks = 1 .. Len(forks) /\ Len(forks) \in Nat /\ forks \in Seq(Rows)
      /\ pos + 1 \in Nat /\ exchange \in Nat
  BY DEF ShapeInv, LogTyped, RowsTyped
<1>2. NextSeq(exchange) \in Nat \ {0}
  <2>1. {f \in DOMAIN forks : forks[f].pn = exchange} \subseteq 1 .. Len(forks)
    BY <1>1
  <2>2. IsFiniteSet(1 .. Len(forks))
    BY <1>1, FS_Interval
  <2>3. Cardinality({f \in DOMAIN forks : forks[f].pn = exchange}) \in Nat
    BY <2>1, <2>2, FS_Subset, FS_CardinalityType
  <2> QED BY <2>3 DEF NextSeq
<1>3. /\ row \in Rows /\ row.pn = exchange /\ row.seq = NextSeq(exchange)
      /\ row.status = "open" /\ row.labels = ParseFork(m).labels
      /\ row.best = ParseFork(m).best
  BY <1>1, <1>2 DEF Rows, Statuses, Offered
<1>4. forks' = Append(forks, row)
  BY DEF Offered, AddFork
<1> HIDE DEF row
<1>5. /\ forks' \in Seq(Rows) /\ Len(forks') = Len(forks) + 1
      /\ forks'[Len(forks) + 1] = row /\ \A g \in DOMAIN forks : forks'[g] = forks[g]
  BY <1>1, <1>3, <1>4
<1>6. DOMAIN forks' = DOMAIN forks \union {Len(forks) + 1}
  BY <1>1, <1>5
<1> QED BY <1>2, <1>3, <1>5, <1>6

\* A pick becomes the last binding, and at most resolves its fork.
LEMMA OnePick ==
    ASSUME RowsTyped, NEW f \in OpenForks, NEW reply \in Replies, Picked(f, reply)
    PROVE  /\ f \in DOMAIN forks /\ f # 0
           /\ bindings' \in Seq(Bindings) /\ Len(bindings') = Len(bindings) + 1
           /\ DOMAIN bindings' = DOMAIN bindings \union {Len(bindings) + 1}
           /\ \A i \in DOMAIN bindings : bindings'[i] = bindings[i]
           /\ bindings'[Len(bindings) + 1].fork = f
           /\ bindings'[Len(bindings) + 1].label = ResolveSelection(forks[f], reply).label
           /\ forks' \in Seq(Rows)
           /\ DOMAIN forks' = DOMAIN forks /\ Len(forks') = Len(forks)
           /\ \A g \in DOMAIN forks :
                 /\ forks'[g].pn = forks[g].pn /\ forks'[g].seq = forks[g].seq
                 /\ forks'[g].labels = forks[g].labels /\ forks'[g].best = forks[g].best
                 /\ \/ forks'[g].status = forks[g].status
                    \/ g = f /\ forks'[g].status = "resolved"
<1>1. /\ f \in DOMAIN forks /\ forks \in Seq(Rows) /\ bindings \in Seq(Bindings)
      /\ DOMAIN forks = 1 .. Len(forks) /\ Len(forks) \in Nat
      /\ DOMAIN bindings = 1 .. Len(bindings) /\ Len(bindings) \in Nat
  BY DEF RowsTyped, OpenForks, WithStatus
<1>2. f \in Nat \ {0} /\ forks[f] \in Rows
  BY <1>1
<1>3. ResolveSelection(forks[f], reply).label \in PickLabels
  BY <1>2 DEF PickLabels
<1>4. PICK at \in Nat : Bind(f, ResolveSelection(forks[f], reply).label, at)
  BY DEF Picked
<1> DEFINE label == ResolveSelection(forks[f], reply).label
           pick == [fork |-> f, label |-> label, from |-> at]
<1>5. pick \in Bindings /\ pick.fork = f /\ pick.label = label
  BY <1>2, <1>3 DEF Bindings
<1>6. bindings' = Append(bindings, pick)
  BY <1>4 DEF Bind
<1> HIDE DEF pick, label
<1>7. /\ bindings' \in Seq(Bindings) /\ Len(bindings') = Len(bindings) + 1
      /\ bindings'[Len(bindings) + 1] = pick
      /\ \A i \in DOMAIN bindings : bindings'[i] = bindings[i]
  BY <1>1, <1>5, <1>6
<1>8. DOMAIN bindings' = DOMAIN bindings \union {Len(bindings) + 1}
  BY <1>1, <1>7
<1>9. /\ bindings'[Len(bindings) + 1].fork = f
      /\ bindings'[Len(bindings) + 1].label = ResolveSelection(forks[f], reply).label
  BY <1>5, <1>7 DEF label
<1>10. /\ forks' \in Seq(Rows) /\ DOMAIN forks' = DOMAIN forks /\ Len(forks') = Len(forks)
       /\ \A g \in DOMAIN forks :
              /\ forks'[g].pn = forks[g].pn /\ forks'[g].seq = forks[g].seq
              /\ forks'[g].labels = forks[g].labels /\ forks'[g].best = forks[g].best
              /\ \/ forks'[g].status = forks[g].status
                 \/ g = f /\ forks'[g].status = "resolved"
  <2>1. CASE forks' = forks
    BY <1>1, <2>1
  <2>2. CASE forks' = [forks EXCEPT ![f].status = "resolved"]
    <3>1. "resolved" \in Statuses
      BY DEF Statuses
    <3>2. /\ forks' \in Seq(Rows)
          /\ DOMAIN forks' = DOMAIN forks /\ Len(forks') = Len(forks)
          /\ \A g \in DOMAIN forks :
                /\ forks'[g].pn = forks[g].pn /\ forks'[g].seq = forks[g].seq
                /\ forks'[g].labels = forks[g].labels /\ forks'[g].best = forks[g].best
                /\ forks'[g].status = IF g = f THEN "resolved" ELSE forks[g].status
      BY <1>1, <2>2, <3>1, OneStatus
    <3> QED BY <3>2
  <2> QED BY <2>1, <2>2 DEF Picked
<1> QED BY <1>1, <1>2, <1>7, <1>8, <1>9, <1>10

LEMMA RowsStep ==
    ASSUME ShapeInv, LedgerStep
    PROVE  RowsTyped'
<1>1. /\ RowsTyped /\ DOMAIN forks = 1 .. Len(forks) /\ Len(forks) \in Nat
      /\ DOMAIN bindings = 1 .. Len(bindings) /\ Len(bindings) \in Nat
      /\ forks \in Seq(Rows) /\ bindings \in Seq(Bindings) /\ exchange \in Nat
      /\ \A f \in DOMAIN forks : forks[f].pn \in 0 .. exchange
      /\ \A i \in DOMAIN bindings : bindings[i].fork \in DOMAIN forks
      /\ proposal \in 0 .. Len(forks)
  BY DEF ShapeInv, RowsTyped
<1>2. LiveFork \in 0 .. Len(forks) /\ (LiveFork # 0 => LiveFork \in DOMAIN forks)
  BY <1>1, LivePickStands
<1>3. ASSUME NEW m \in Offers, Offered(m) PROVE RowsTyped'
  <2>1. UNCHANGED <<exchange, bindings, proposal>>
    BY <1>3 DEF Offered
  <2>2. /\ forks' \in Seq(Rows) /\ Len(forks') = Len(forks) + 1
        /\ DOMAIN forks' = DOMAIN forks \union {Len(forks) + 1}
        /\ \A g \in DOMAIN forks : forks'[g] = forks[g]
        /\ forks'[Len(forks) + 1].pn = exchange
    BY <1>3, OneRow
  <2>3. \A f \in DOMAIN forks' : forks'[f].pn \in 0 .. exchange'
    BY <1>1, <2>1, <2>2
  <2>4. \A i \in DOMAIN bindings' : bindings'[i].fork \in DOMAIN forks'
    BY <1>1, <2>1, <2>2
  <2> QED BY <1>1, <2>1, <2>2, <2>3, <2>4 DEF RowsTyped
<1>4. ASSUME NEW f \in OpenForks, NEW reply \in Replies, Picked(f, reply) PROVE RowsTyped'
  <2>1. exchange' = exchange + 1 /\ proposal' = proposal
    BY <1>4 DEF Picked
  <2>2. /\ f \in DOMAIN forks
        /\ bindings' \in Seq(Bindings)
        /\ DOMAIN bindings' = DOMAIN bindings \union {Len(bindings) + 1}
        /\ \A i \in DOMAIN bindings : bindings'[i] = bindings[i]
        /\ bindings'[Len(bindings) + 1].fork = f
        /\ forks' \in Seq(Rows) /\ DOMAIN forks' = DOMAIN forks /\ Len(forks') = Len(forks)
        /\ \A g \in DOMAIN forks : forks'[g].pn = forks[g].pn
    BY <1>1, <1>4, OnePick
  <2>3. \A g \in DOMAIN forks' : forks'[g].pn \in 0 .. exchange'
    BY <1>1, <2>1, <2>2
  <2>4. \A i \in DOMAIN bindings' : bindings'[i].fork \in DOMAIN forks'
    BY <1>1, <2>2
  <2> QED BY <1>1, <2>1, <2>2, <2>3, <2>4 DEF RowsTyped
<1>5. CASE Said
  BY <1>1, <1>5 DEF Said, RowsTyped
<1>6. CASE Questioned
  BY <1>1, <1>2, <1>6 DEF Questioned, ledger, RowsTyped
<1>7. CASE Retired
  <2>1. LiveFork \in DOMAIN forks /\ "superseded" \in Statuses
    BY <1>2, <1>7 DEF Retired, Statuses
  <2>2. /\ forks' \in Seq(Rows) /\ DOMAIN forks' = DOMAIN forks /\ Len(forks') = Len(forks)
        /\ \A g \in DOMAIN forks : forks'[g].pn = forks[g].pn
    BY <1>1, <1>7, <2>1, OneStatus DEF Retired
  <2>3. exchange' = exchange /\ bindings' = bindings /\ proposal' \in {0, proposal}
    BY <1>7 DEF Retired
  <2> QED BY <1>1, <2>2, <2>3 DEF RowsTyped
<1> QED BY <1>3, <1>4, <1>5, <1>6, <1>7 DEF LedgerStep

LEMMA LogStep ==
    ASSUME ShapeInv, [Next]_vars
    PROVE  LogTyped'
<1> USE DEF ShapeInv, LogTyped
<1>0. log \in Seq(Agents \union Users) /\ Len(log) \in Nat
  OBVIOUS
<1>1. CASE UNCHANGED vars
  BY <1>1 DEF vars, progress
<1>2. CASE AgentSpeaks \/ Deliver
  <2>1. PICK e \in Agents \union Users : log' = Append(log, e)
    BY <1>2 DEF AgentSpeaks, Deliver
  <2>2. log' \in Seq(Agents \union Users) /\ Len(log') = Len(log) + 1
    BY <1>0, <2>1
  <2> QED BY <1>0, <1>2, <2>2 DEF AgentSpeaks, Deliver, progress
<1>3. CASE Submit
  BY <1>3 DEF Submit
<1>4. CASE ReplayNext
  BY <1>4 DEF ReplayNext
<1>5. CASE ParkCursor \/ ReplayThrows \/ ObserveLive \/ Kill \/ KillBetweenRows
  BY <1>5 DEF ParkCursor, ReplayThrows, ObserveLive, Kill, KillBetweenRows
<1>6. CASE LiveGoal
  BY <1>6 DEF LiveGoal, DropStale, ProposeRetirement, RetireCommitted, KeepCommitted,
              NothingToDo, GoalEnds
<1> QED BY <1>1, <1>2, <1>3, <1>4, <1>5, <1>6 DEF Next

THEOREM ShapeInvariant == Spec => []ShapeInv
<1>1. Init => ShapeInv
  <2> SUFFICES ASSUME Init PROVE ShapeInv
    OBVIOUS
  <2>1. forks = <<>> /\ bindings = <<>> /\ log = <<>> /\ proposal = 0 /\ exchange = 0
    BY DEF Init
  <2>2. LogTyped
    BY <2>1 DEF Init, LogTyped
  <2>3. RowsTyped
    BY <2>1 DEF RowsTyped
  <2> QED BY <2>2, <2>3 DEF ShapeInv
<1>2. ShapeInv /\ [Next]_vars => ShapeInv'
  BY StepsOfTheLedger, RowsStep, LogStep DEF ShapeInv
<1> QED BY <1>1, <1>2, PTL DEF Spec

-----------------------------------------------------------------------------
(* The commitment.                                                         *)

LEMMA ForksOfBindings ==
    ASSUME NEW rows \in Seq(Bindings),
           NEW ps, ps = [i \in DOMAIN rows |-> rows[i].fork]
    PROVE  /\ ps \in Seq(Nat) /\ Len(ps) = Len(rows)
           /\ DOMAIN ps = DOMAIN rows
           /\ \A i \in DOMAIN rows : ps[i] = rows[i].fork
<1>1. /\ DOMAIN rows = 1 .. Len(rows) /\ Len(rows) \in Nat
      /\ \A i \in DOMAIN rows : rows[i].fork \in Nat
  <2>1. \A i \in DOMAIN rows : rows[i] \in Bindings
    OBVIOUS
  <2>2. \A b \in Bindings : b.fork \in Nat
    BY DEF Bindings
  <2> QED BY <2>1, <2>2
<1>2. ps = [i \in 1 .. Len(rows) |-> rows[i].fork]
  BY <1>1
<1> QED BY <1>1, <1>2

LEMMA PicksAreUserPicks ==
    ASSUME RowsTyped, RowsTyped',
           NEW f \in OpenForks, NEW reply \in Replies, Picked(f, reply)
    PROVE  C!UserPicks
<1>1. /\ f \in DOMAIN forks /\ f # 0 /\ UNCHANGED proposal
      /\ Len(bindings') = Len(bindings) + 1
      /\ \A i \in DOMAIN bindings : bindings'[i] = bindings[i]
      /\ bindings'[Len(bindings) + 1].fork = f
      /\ DOMAIN forks' = DOMAIN forks
      /\ \A g \in DOMAIN forks :
            \/ forks'[g].status = forks[g].status
            \/ g = f /\ forks'[g].status = "resolved"
  BY OnePick DEF Picked
<1>2. f \in Nat /\ f \notin Superseded /\ forks[f].status = "open"
  BY <1>1 DEF OpenForks, Superseded, WithStatus, RowsTyped
<1>3. Superseded' = Superseded
  BY <1>1, <1>2 DEF Superseded, WithStatus
<1>4. /\ BoundForks \in Seq(Nat) /\ Len(BoundForks) = Len(bindings)
      /\ DOMAIN BoundForks = DOMAIN bindings
      /\ \A i \in DOMAIN bindings : BoundForks[i] = bindings[i].fork
  BY ForksOfBindings DEF BoundForks, RowsTyped
<1>5. /\ BoundForks' \in Seq(Nat) /\ Len(BoundForks') = Len(bindings')
      /\ DOMAIN BoundForks' = DOMAIN bindings'
      /\ \A i \in DOMAIN bindings' : BoundForks'[i] = bindings'[i].fork
  BY ForksOfBindings DEF BoundForks, RowsTyped
<1>6. Len(BoundForks') = Len(BoundForks) + 1 /\ Len(BoundForks) \in Nat
  BY <1>1, <1>4, <1>5
<1>7. BoundForks'[Len(BoundForks')] = f
  <2>1. Len(bindings) + 1 \in DOMAIN BoundForks'
    BY <1>1, <1>4, <1>5, <1>6
  <2> QED BY <1>1, <1>4, <1>5, <1>6, <2>1
<1>8. \A i \in 1 .. Len(BoundForks) : BoundForks'[i] = BoundForks[i]
  <2>1. \A i \in 1 .. Len(BoundForks) : i \in DOMAIN bindings /\ i \in DOMAIN bindings'
    BY <1>4, <1>5, <1>6
  <2> QED BY <1>1, <1>4, <1>5, <2>1
<1> HIDE DEF BoundForks
<1>9. BoundForks' = Append(BoundForks, f)
  BY <1>2, <1>4, <1>5, <1>6, <1>7, <1>8
<1>10. BoundForks' # <<>>
  BY <1>5, <1>6
<1> QED BY <1>1, <1>2, <1>3, <1>7, <1>9, <1>10 DEF C!UserPicks

LEMMA LedgerImplements ==
    ASSUME ShapeInv, RowsTyped', LedgerStep
    PROVE  [C!Next]_(C!vars)
<1> USE DEF C!Next, C!vars, ShapeInv
<1>1. C!Live = LiveFork
  BY DEF C!Live, LiveFork
<1>2. ASSUME NEW m \in Offers, Offered(m) PROVE UNCHANGED C!vars
  <2>1. /\ DOMAIN forks' = DOMAIN forks \union {Len(forks) + 1}
        /\ \A g \in DOMAIN forks : forks'[g] = forks[g]
        /\ forks'[Len(forks) + 1].status = "open"
        /\ UNCHANGED <<bindings, proposal>>
    BY <1>2, OneRow DEF Offered
  <2>2. Superseded' = Superseded
    BY <2>1 DEF Superseded, WithStatus
  <2> QED BY <2>1, <2>2 DEF BoundForks
<1>3. ASSUME NEW f \in OpenForks, NEW reply \in Replies, Picked(f, reply) PROVE C!UserPicks
  BY <1>3, PicksAreUserPicks
<1>4. CASE Said
  BY <1>4 DEF Said, BoundForks, Superseded, WithStatus
<1>5. CASE Questioned
  <2>1. BoundForks' = BoundForks /\ Superseded' = Superseded
    BY <1>5 DEF Questioned, ledger, BoundForks, Superseded, WithStatus
  <2> QED BY <1>1, <1>5, <2>1 DEF Questioned, C!Ask, C!Withdraw
<1>6. CASE Retired
  <2>1. LiveFork \in DOMAIN forks /\ LiveFork # 0 /\ proposal = LiveFork
    BY <1>6, LivePickStands DEF Retired
  <2>2. DOMAIN forks' = DOMAIN forks
        /\ \A g \in DOMAIN forks :
              forks'[g].status = IF g = LiveFork THEN "superseded" ELSE forks[g].status
    BY <1>6, <2>1, OneStatus DEF Retired, RowsTyped, Statuses
  <2>3. Superseded' = Superseded \union {LiveFork}
    BY <2>1, <2>2 DEF Superseded, WithStatus
  <2>4. BoundForks' = BoundForks /\ proposal' \in {0, proposal}
    BY <1>6 DEF Retired, BoundForks
  <2> QED BY <1>1, <2>1, <2>3, <2>4 DEF C!UserRetires
<1> QED BY <1>2, <1>3, <1>4, <1>5, <1>6 DEF LedgerStep

\* The ledger and the live goal implement the commitment (dialog_store,
\* livegoal_turn): the goal the agent is held to changes only by the user's
\* word, and is retired only after a question about that very pick.
THEOREM CommitmentImplemented == Spec => CommitmentHolds
<1>1. Init => C!Init
  <2> SUFFICES ASSUME Init PROVE C!Init
    OBVIOUS
  <2>1. forks = <<>> /\ bindings = <<>> /\ proposal = 0
    BY DEF Init
  <2>2. BoundForks = <<>> /\ Superseded = {}
    BY <2>1 DEF BoundForks, Superseded, WithStatus
  <2> QED BY <2>1, <2>2 DEF C!Init
<1>2. ShapeInv /\ ShapeInv' /\ [Next]_vars => [C!Next]_(C!vars)
  BY StepsOfTheLedger, LedgerImplements DEF ShapeInv
<1> QED BY <1>1, <1>2, ShapeInvariant, PTL DEF Spec, CommitmentHolds, C!Spec

\* "A real contradiction is never downgraded to a silent UNKNOWN"
\* (dialog.check_action): in every ledger that can come about, an action that
\* departs from the standing pick is surfaced; following it by citation is not.
THEOREM NeverSilentHolds == Spec => []NeverSilent
<1>1. ShapeInv => NeverSilent
  <2> SUFFICES ASSUME ShapeInv, LiveBinding # 0 PROVE NeverSilent
    BY DEF NeverSilent
  <2> DEFINE picked == bindings[LiveBinding].label
  <2>1. LiveFork # 0
    BY LivePickStands DEF ShapeInv
  <2>2. ASSUME NEW action \in Actions, Departs(action) PROVE Verdict(action).surface
    <3>1. CASE action.fork # 0
      <4>1. action = [fork |-> action.fork, label |-> action.label]
        BY DEF Actions
      <4>2. action.fork # LiveFork \/ action.label # picked
        BY <2>2, <3>1, <4>1 DEF Departs
      <4>3. Verdict(action) = CiteVerdict(forks, LiveFork, picked, action)
        BY <3>1 DEF Verdict
      <4> QED BY <4>2, <4>3 DEF CiteVerdict, Loud
    <3>2. CASE action.fork = 0
      <4>1. action.label \in ToSet(forks[LiveFork].labels) /\ action.label # picked
        BY <2>2, <3>2 DEF Departs
      <4>2. LiveFork \in Carriers(forks, OpenForks, LiveFork, action.label)
        BY <4>1 DEF Carriers
      <4>3. Verdict(action) = LabelVerdict(forks, OpenForks, LiveFork, picked, action.label)
        BY <3>2 DEF Verdict
      <4>4. LabelVerdict(forks, OpenForks, LiveFork, picked, action.label)
              \in {Loud("drift"), Loud("unknown")}
        BY <4>1, <4>2 DEF LabelVerdict
      <4> QED BY <4>3, <4>4 DEF Loud
    <3> QED BY <3>1, <3>2
  <2>3. ~Verdict([fork |-> LiveFork, label |-> picked]).surface
    BY <2>1 DEF Verdict, CiteVerdict, Quiet
  <2> QED BY <2>2, <2>3 DEF NeverSilent
<1> QED BY <1>1, ShapeInvariant, PTL

-----------------------------------------------------------------------------
(* The numbers of forks.                                                   *)

SamePn(pn) == {g \in DOMAIN forks : forks[g].pn = pn}

\* No number is given twice, because the counter is the count.
Numbered ==
    /\ \A f, g \in DOMAIN forks :
          forks[f].pn = forks[g].pn /\ forks[f].seq = forks[g].seq => f = g
    /\ \A f \in DOMAIN forks : forks[f].seq <= Cardinality(SamePn(forks[f].pn))

LEMMA SamePnFinite ==
    ASSUME RowsTyped, NEW pn
    PROVE  IsFiniteSet(SamePn(pn)) /\ Cardinality(SamePn(pn)) \in Nat
<1>1. Len(forks) \in Nat /\ SamePn(pn) \subseteq 1 .. Len(forks)
  BY DEF RowsTyped, SamePn
<1>2. IsFiniteSet(1 .. Len(forks))
  BY <1>1, FS_Interval
<1> QED BY <1>1, <1>2, FS_Subset, FS_CardinalityType

LEMMA NumbersKept ==
    ASSUME Numbered, DOMAIN forks' = DOMAIN forks,
           \A g \in DOMAIN forks :
              forks'[g].pn = forks[g].pn /\ forks'[g].seq = forks[g].seq
    PROVE  Numbered'
<1>1. \A pn : SamePn(pn)' = SamePn(pn)
  BY DEF SamePn
<1>2. \A f \in DOMAIN forks' :
         forks'[f].seq <= Cardinality({g \in DOMAIN forks' : forks'[g].pn = forks'[f].pn})
  BY <1>1 DEF Numbered, SamePn
<1> QED BY <1>2 DEF Numbered, SamePn

LEMMA NumbersStep ==
    ASSUME ShapeInv, Numbered, LedgerStep
    PROVE  Numbered'
<1>1. RowsTyped
  BY DEF ShapeInv
<1>2. ASSUME NEW m \in Offers, Offered(m) PROVE Numbered'
  <2> DEFINE k == Len(forks) + 1
  <2>1. /\ DOMAIN forks' = DOMAIN forks \union {k}
        /\ \A g \in DOMAIN forks : forks'[g] = forks[g]
        /\ forks'[k].pn = exchange /\ forks'[k].seq = NextSeq(exchange)
    BY <1>2, OneRow
  <2>2. k \notin DOMAIN forks
    BY <1>1 DEF RowsTyped
  <2>3. NextSeq(exchange) = Cardinality(SamePn(exchange)) + 1
    BY DEF NextSeq, SamePn
  <2> HIDE DEF k
  <2>4. /\ \A g \in DOMAIN forks : forks[g].seq \in Nat
        /\ \A g \in DOMAIN forks : forks[g].pn = exchange => forks[g].seq < forks'[k].seq
    <3>1. ASSUME NEW g \in DOMAIN forks PROVE forks[g].seq \in Nat
      <4>1. forks[g] \in Rows
        BY <1>1 DEF RowsTyped
      <4> QED BY <4>1 DEF Rows
    <3> QED BY <1>1, <2>1, <2>3, <3>1, SamePnFinite DEF Numbered
  <2>5. \A f, g \in DOMAIN forks' :
           forks'[f].pn = forks'[g].pn /\ forks'[f].seq = forks'[g].seq => f = g
    <3> SUFFICES ASSUME NEW f \in DOMAIN forks', NEW g \in DOMAIN forks',
                        forks'[f].pn = forks'[g].pn, forks'[f].seq = forks'[g].seq
                 PROVE  f = g
      OBVIOUS
    <3>1. CASE f = k /\ g # k
      BY <2>1, <2>4, <3>1
    <3>2. CASE f # k /\ g = k
      BY <2>1, <2>4, <3>2
    <3>3. CASE f # k /\ g # k
      BY <2>1, <3>3 DEF Numbered
    <3> QED BY <3>1, <3>2, <3>3
  <2>6. ASSUME NEW f \in DOMAIN forks'
        PROVE  forks'[f].seq <=
                 Cardinality({g \in DOMAIN forks' : forks'[g].pn = forks'[f].pn})
    <3> DEFINE Mine == {g \in DOMAIN forks' : forks'[g].pn = forks'[f].pn}
    <3> SUFFICES forks'[f].seq <= Cardinality(Mine)
      OBVIOUS
    <3>1. CASE forks'[f].pn = exchange
      <4>1. Mine = SamePn(exchange) \union {k} /\ k \notin SamePn(exchange)
        BY <2>1, <2>2, <3>1 DEF SamePn
      <4> HIDE DEF Mine
      <4>2. Cardinality(Mine) = Cardinality(SamePn(exchange)) + 1
        BY <1>1, <4>1, SamePnFinite, FS_AddElement
      <4>3. CASE f = k
        BY <1>1, <2>1, <2>3, <4>2, <4>3, SamePnFinite
      <4>4. CASE f # k
        <5>1. f \in DOMAIN forks /\ forks'[f].seq = forks[f].seq /\ forks[f].pn = exchange
          BY <2>1, <3>1, <4>4
        <5>2. forks[f].seq <= Cardinality(SamePn(exchange))
          BY <5>1 DEF Numbered
        <5> QED BY <1>1, <2>4, <4>2, <5>1, <5>2, SamePnFinite
      <4> QED BY <4>3, <4>4
    <3>2. CASE forks'[f].pn # exchange
      <4>1. f \in DOMAIN forks /\ forks'[f] = forks[f]
        BY <2>1, <3>2
      <4>2. Mine = SamePn(forks[f].pn)
        BY <2>1, <3>2, <4>1 DEF SamePn
      <4> HIDE DEF Mine
      <4> QED BY <4>1, <4>2 DEF Numbered
    <3> QED BY <3>1, <3>2
  <2> QED BY <2>5, <2>6 DEF Numbered, SamePn
<1>3. ASSUME NEW f \in OpenForks, NEW reply \in Replies, Picked(f, reply) PROVE Numbered'
  <2>1. /\ DOMAIN forks' = DOMAIN forks
        /\ \A g \in DOMAIN forks :
              forks'[g].pn = forks[g].pn /\ forks'[g].seq = forks[g].seq
    BY <1>1, <1>3, OnePick
  <2> QED BY <2>1, NumbersKept
<1>4. CASE Said \/ Questioned
  BY <1>4, NumbersKept DEF Said, Questioned, ledger
<1>5. CASE Retired
  <2>1. LiveFork \in DOMAIN forks
    BY <1>1, <1>5, LivePickStands DEF Retired
  <2>2. /\ DOMAIN forks' = DOMAIN forks
        /\ \A g \in DOMAIN forks :
              forks'[g].pn = forks[g].pn /\ forks'[g].seq = forks[g].seq
    BY <1>1, <1>5, <2>1, OneStatus DEF Retired, RowsTyped, Statuses
  <2> QED BY <2>2, NumbersKept
<1> QED BY <1>2, <1>3, <1>4, <1>5 DEF LedgerStep

-----------------------------------------------------------------------------
(* The options of forks, and the picks.                                    *)

\* What a fork's options must be, whoever made it.
Choice(labels, best) ==
    /\ labels \in Seq(Labels) /\ labels # <<>>
    /\ Cardinality(ToSet(labels)) = Len(labels)
    /\ best \in ToSet(labels) \union {NoLabel}

\* The places of the options are those of different labels.
LEMMA OfIs ==
    ASSUME NEW lines \in Seq(Lines), NEW kind
    PROVE  /\ Of(lines, kind) \in SUBSET DOMAIN lines
           /\ \A i, j \in Of(lines, kind) : lines[i].label = lines[j].label => i = j
<1>1. DOMAIN lines = 1 .. Len(lines) /\ Len(lines) \in Nat
  BY SeqIs
<1>2. ASSUME NEW i \in Of(lines, kind), NEW j \in Of(lines, kind),
             lines[i].label = lines[j].label
      PROVE  i = j
  <2>1. ~(i < j) /\ ~(j < i)
    BY <1>2 DEF Of
  <2>2. i \in Nat /\ j \in Nat
    BY <1>1 DEF Of
  <2> QED BY <2>1, <2>2
<1> QED BY <1>2 DEF Of

\* What parse_options makes of a message that is a fork.
LEMMA OptionsAre ==
    ASSUME NEW message, message.lines \in Seq(Lines), IsFork(message)
    PROVE  \E places \in SUBSET DOMAIN message.lines :
              /\ ParseOptions(message) = Members(message.lines, places)
              /\ \A i, j \in places : message.lines[i].label = message.lines[j].label => i = j
<1> DEFINE lines == message.lines
           alpha == Of(lines, Letters)
           digit == Of(lines, Digits)
           group == IF Cardinality(alpha) >= Cardinality(digit) THEN alpha ELSE digit
<1>1. ParseOptions(message) = Members(lines, group)
  BY DEF IsFork, ParseOptions
<1>2. /\ alpha \in SUBSET DOMAIN lines /\ digit \in SUBSET DOMAIN lines
      /\ \A i, j \in alpha : lines[i].label = lines[j].label => i = j
      /\ \A i, j \in digit : lines[i].label = lines[j].label => i = j
  BY OfIs
<1>3. group = alpha \/ group = digit
  OBVIOUS
<1> HIDE DEF group, alpha, digit
<1>4. group \in SUBSET DOMAIN lines /\ \A i, j \in group : lines[i].label = lines[j].label => i = j
  BY <1>2, <1>3
<1> QED BY <1>1, <1>4

\* A message that is a fork offers a choice: options of different labels, of
\* which it recommends one or none.
LEMMA ParsesToChoices ==
    ASSUME NEW message, message.lines \in Seq(Lines), IsFork(message)
    PROVE  Choice(ParseFork(message).labels, ParseFork(message).best)
<1> DEFINE lines == message.lines
           options == ParseOptions(message)
           labels == [i \in DOMAIN options |-> options[i].label]
<1>1. PICK places \in SUBSET DOMAIN lines :
         /\ options = Members(lines, places)
         /\ \A i, j \in places : lines[i].label = lines[j].label => i = j
  BY OptionsAre
<1>2. options # <<>>
  BY DEF IsFork
<1>3. options \in Seq(Lines) /\ Len(options) = Cardinality(places) /\ Cardinality(places) \in Nat
  BY <1>1, MembersAre
<1>4. lines \in Seq(Lines) /\ DOMAIN lines = 1 .. Len(lines) /\ Len(lines) \in Nat
  BY SeqIs
<1>5. /\ DOMAIN options = 1 .. Cardinality(places)
      /\ \A k \in 1 .. Cardinality(places) :
            Nth(places, k) \in places /\ options[k] = lines[Nth(places, k)]
  BY <1>1, <1>4, NthIs DEF Members
<1> HIDE DEF options
<1> DEFINE n == Cardinality(places)
<1>6. n \in Nat /\ DOMAIN options = 1 .. n /\ \A k \in 1 .. n : options[k].label \in Labels
  <2>1. \A k \in 1 .. n : options[k] \in Lines
    BY <1>3, <1>5
  <2> QED BY <1>3, <1>5, <2>1 DEF Lines
<1>7. labels \in Seq(Labels) /\ Len(labels) = n /\ DOMAIN labels = 1 .. n
  <2>1. labels = [k \in 1 .. n |-> labels[k]] /\ \A k \in 1 .. n : labels[k] \in Labels
    BY <1>6
  <2>2. DOMAIN labels = 1 .. n
    BY <1>6
  <2> HIDE DEF labels, n
  <2> QED BY <1>6, <2>1, <2>2, IsSeq
<1>8. IsInjective(labels)
  <2>1. ASSUME NEW k \in 1 .. n, NEW l \in 1 .. n, labels[k] = labels[l]
        PROVE  k = l
    <3>1. options[k].label = options[l].label
      BY <1>6, <2>1
    <3>2. Nth(places, k) = Nth(places, l)
      BY <1>1, <1>5, <3>1
    <3> QED BY <1>4, <3>2, NthOnce
  <2> HIDE DEF labels, n
  <2> QED BY <1>7, <2>1 DEF IsInjective
<1>9. labels # <<>>
  <2>1. n # 0
    BY <1>2, <1>3
  <2> HIDE DEF labels, n
  <2> QED BY <1>7, <2>1
<1>10. Cardinality(ToSet(labels)) = Len(labels)
  <2> HIDE DEF labels
  <2> QED BY <1>7, <1>8, SetOfList
<1>11. \A k \in 1 .. n : options[k].label \in ToSet(labels)
  BY <1>6 DEF ToSet
<1>12. Recommended(options, message) \in ToSet(labels) \union {NoLabel}
  <2> DEFINE marked == Marked(options)
  <2>1. marked \in SUBSET (1 .. n)
    BY <1>6 DEF Marked
  <2>2. CASE marked # {}
    <3> HIDE DEF marked, n
    <3>1. marked \in SUBSET Nat
      BY <1>6, <2>1
    <3>2. \E m \in marked : \A y \in marked : m <= y
      BY <2>2, <3>1, LeastOf
    <3>3. Min(marked) \in marked
      BY <3>2 DEF Min
    <3>4. Recommended(options, message) = options[Min(marked)].label
      BY <2>2 DEF Recommended, marked
    <3> HIDE DEF labels
    <3> QED BY <1>11, <2>1, <3>3, <3>4
  <2>3. CASE marked = {} /\ message.favours \in {options[i].label : i \in DOMAIN options}
    <3>1. Recommended(options, message) = message.favours
      BY <2>3 DEF Recommended
    <3> HIDE DEF labels, marked
    <3> QED BY <1>6, <1>11, <2>3, <3>1
  <2>4. CASE marked = {} /\ message.favours \notin {options[i].label : i \in DOMAIN options}
    BY <2>4 DEF Recommended
  <2> QED BY <2>2, <2>3, <2>4
<1>13. ParseFork(message).labels = labels /\ ParseFork(message).best = Recommended(options, message)
  BY DEF ParseFork, options
<1> HIDE DEF labels
<1> QED BY <1>7, <1>9, <1>10, <1>12, <1>13 DEF Choice

ChoicesInv ==
    /\ \A f \in DOMAIN forks : Choice(forks[f].labels, forks[f].best)
    /\ \A i \in DOMAIN bindings :
          bindings[i].label \in ToSet(forks[bindings[i].fork].labels)
    /\ \A f \in DOMAIN forks \ OpenForks : \E i \in DOMAIN bindings : bindings[i].fork = f

\* A pick that is made is one of the options offered.
LEMMA PicksAnOption ==
    ASSUME NEW fork, Choice(fork.labels, fork.best), NEW reply,
           ResolveSelection(fork, reply).made
    PROVE  ResolveSelection(fork, reply).label \in ToSet(fork.labels)
<1> DEFINE labels == fork.labels
           chosen == CASE reply.kind = "label"    -> IF reply.label \in ToSet(labels)
                                                     THEN reply.label ELSE NoLabel
                       [] reply.kind = "position" -> IF reply.n \in DOMAIN labels
                                                     THEN labels[reply.n] ELSE NoLabel
                       [] reply.kind = "last"     -> Last(labels)
                       [] reply.kind = "defer"    -> fork.best
                       [] OTHER                   -> NoLabel
<1>1. ResolveSelection(fork, reply) = Pick(chosen)
  BY DEF ResolveSelection, Pick, NoPick
<1>2. chosen # NoLabel /\ ResolveSelection(fork, reply).label = chosen
  <2> HIDE DEF chosen
  <2>1. Pick(chosen).made = (chosen # NoLabel)
    BY DEF Pick
  <2>2. Pick(chosen).label = chosen
    BY DEF Pick
  <2>3. Pick(chosen).made
    BY <1>1
  <2> QED BY <1>1, <2>1, <2>2, <2>3
<1>3. \A n \in DOMAIN labels : labels[n] \in ToSet(labels)
  BY DEF ToSet
<1>4. Last(labels) \in ToSet(labels)
  <2>1. Len(labels) \in DOMAIN labels
    BY DEF Choice
  <2> QED BY <1>3, <2>1 DEF Last
<1>5. fork.best \in ToSet(labels) \union {NoLabel}
  BY DEF Choice
<1> HIDE DEF labels
<1>6. chosen \in ToSet(labels)
  BY <1>2, <1>3, <1>4, <1>5
<1> HIDE DEF chosen
<1> QED BY <1>2, <1>6 DEF labels

LEMMA ChoicesStep ==
    ASSUME ShapeInv, ChoicesInv, LedgerStep
    PROVE  ChoicesInv'
<1>1. /\ RowsTyped
      /\ DOMAIN bindings = 1 .. Len(bindings) /\ Len(bindings) \in Nat
      /\ DOMAIN forks = 1 .. Len(forks) /\ Len(forks) \in Nat
      /\ \A i \in DOMAIN bindings : bindings[i].fork \in DOMAIN forks
  BY DEF ShapeInv, RowsTyped
<1>2. ASSUME NEW m \in Offers, Offered(m) PROVE ChoicesInv'
  <2> DEFINE k == Len(forks) + 1
  <2>1. /\ DOMAIN forks' = DOMAIN forks \union {k}
        /\ \A g \in DOMAIN forks : forks'[g] = forks[g]
        /\ forks'[k].labels = ParseFork(m).labels /\ forks'[k].best = ParseFork(m).best
        /\ forks'[k].status = "open" /\ bindings' = bindings
    BY <1>2, OneRow DEF Offered
  <2>2. k \notin DOMAIN forks
    BY <1>1
  <2> HIDE DEF k
  <2>3. Choice(ParseFork(m).labels, ParseFork(m).best)
    BY <1>2, LedgerAssumption, ParsesToChoices DEF LedgerAssumption, Offered
  <2>4. \A f \in DOMAIN forks' : Choice(forks'[f].labels, forks'[f].best)
    BY <2>1, <2>3 DEF ChoicesInv
  <2>5. \A i \in DOMAIN bindings' :
           bindings'[i].label \in ToSet(forks'[bindings'[i].fork].labels)
    BY <1>1, <2>1 DEF ChoicesInv
  <2>6. ASSUME NEW f \in DOMAIN forks', f \notin OpenForks'
        PROVE  \E i \in DOMAIN bindings' : bindings'[i].fork = f
    <3>1. f \in DOMAIN forks \ OpenForks
      BY <2>1, <2>6 DEF OpenForks, WithStatus
    <3> QED BY <2>1, <3>1 DEF ChoicesInv
  <2> QED BY <2>4, <2>5, <2>6 DEF ChoicesInv
<1>3. ASSUME NEW f \in OpenForks, NEW reply \in Replies, Picked(f, reply) PROVE ChoicesInv'
  <2> DEFINE k == Len(bindings) + 1
  <2>1. /\ f \in DOMAIN forks
        /\ DOMAIN bindings' = DOMAIN bindings \union {k}
        /\ \A i \in DOMAIN bindings : bindings'[i] = bindings[i]
        /\ bindings'[k].fork = f
        /\ bindings'[k].label = ResolveSelection(forks[f], reply).label
        /\ DOMAIN forks' = DOMAIN forks
        /\ \A g \in DOMAIN forks :
              /\ forks'[g].labels = forks[g].labels /\ forks'[g].best = forks[g].best
              /\ \/ forks'[g].status = forks[g].status
                 \/ g = f /\ forks'[g].status = "resolved"
    BY <1>1, <1>3, OnePick
  <2> HIDE DEF k
  <2>2. bindings'[k].label \in ToSet(forks[f].labels)
    <3>1. Choice(forks[f].labels, forks[f].best) /\ ResolveSelection(forks[f], reply).made
      BY <1>3, <2>1 DEF ChoicesInv, Picked
    <3> QED BY <2>1, <3>1, PicksAnOption
  <2>3. \A g \in DOMAIN forks' : Choice(forks'[g].labels, forks'[g].best)
    BY <2>1 DEF ChoicesInv
  <2>4. ASSUME NEW i \in DOMAIN bindings'
        PROVE  bindings'[i].label \in ToSet(forks'[bindings'[i].fork].labels)
    <3>1. CASE i = k
      BY <2>1, <2>2, <3>1
    <3>2. CASE i # k
      BY <1>1, <2>1, <3>2 DEF ChoicesInv
    <3> QED BY <3>1, <3>2
  <2>5. ASSUME NEW g \in DOMAIN forks', g \notin OpenForks'
        PROVE  \E i \in DOMAIN bindings' : bindings'[i].fork = g
    <3>1. CASE g = f
      BY <2>1, <3>1
    <3>2. CASE g # f
      <4>1. g \in DOMAIN forks \ OpenForks
        BY <2>1, <2>5, <3>2 DEF OpenForks, WithStatus
      <4> QED BY <2>1, <4>1 DEF ChoicesInv
    <3> QED BY <3>1, <3>2
  <2> QED BY <2>3, <2>4, <2>5 DEF ChoicesInv
<1>4. CASE Said \/ Questioned
  BY <1>4 DEF Said, Questioned, ledger, ChoicesInv, OpenForks, WithStatus
<1>5. CASE Retired
  <2>1. /\ LiveFork \in DOMAIN forks
        /\ \E i \in DOMAIN bindings : bindings[i].fork = LiveFork
    BY <1>1, <1>5, LivePickStands DEF Retired
  <2>2. /\ DOMAIN forks' = DOMAIN forks /\ bindings' = bindings
        /\ \A g \in DOMAIN forks :
              /\ forks'[g].labels = forks[g].labels /\ forks'[g].best = forks[g].best
              /\ forks'[g].status = IF g = LiveFork THEN "superseded" ELSE forks[g].status
    BY <1>1, <1>5, <2>1, OneStatus DEF Retired, RowsTyped, Statuses
  <2>3. /\ \A g \in DOMAIN forks' : Choice(forks'[g].labels, forks'[g].best)
        /\ \A i \in DOMAIN bindings' :
              bindings'[i].label \in ToSet(forks'[bindings'[i].fork].labels)
    BY <1>1, <2>2 DEF ChoicesInv
  <2>4. ASSUME NEW g \in DOMAIN forks', g \notin OpenForks'
        PROVE  \E i \in DOMAIN bindings' : bindings'[i].fork = g
    <3>1. CASE g = LiveFork
      BY <2>1, <2>2, <3>1
    <3>2. CASE g # LiveFork
      <4>1. g \in DOMAIN forks \ OpenForks
        BY <2>2, <2>4, <3>2 DEF OpenForks, WithStatus
      <4> QED BY <2>2, <4>1 DEF ChoicesInv
    <3> QED BY <3>1, <3>2
  <2> QED BY <2>3, <2>4 DEF ChoicesInv
<1> QED BY <1>2, <1>3, <1>4, <1>5 DEF LedgerStep

\* The ledger is in order (dialog_store): whatever is replayed again or cut
\* short, a citation names one choice, a binding picks an option that was
\* offered, and no fork is resolved or retired that nobody picked.
THEOREM LedgerInOrderHolds == Spec => []LedgerInOrder
<1>1. Init => Numbered /\ ChoicesInv
  BY DEF Init, Numbered, ChoicesInv
<1>2. ShapeInv /\ Numbered /\ ChoicesInv /\ [Next]_vars => (Numbered /\ ChoicesInv)'
  BY StepsOfTheLedger, NumbersStep, ChoicesStep
<1>3. ShapeInv /\ Numbered /\ ChoicesInv => LedgerInOrder
  <2> SUFFICES ASSUME ShapeInv, Numbered, ChoicesInv PROVE LedgerInOrder
    OBVIOUS
  <2>1. LedgerTypeOK
    <3>1. ASSUME NEW f \in DOMAIN forks
          PROVE  /\ forks[f].status \in {"open", "resolved", "superseded"}
                 /\ forks[f].pn \in 0 .. exchange /\ forks[f].seq \in Nat \ {0}
      <4>1. forks[f] \in Rows /\ forks[f].pn \in 0 .. exchange
        BY DEF ShapeInv, RowsTyped
      <4> QED BY <4>1 DEF Rows, Statuses
    <3>2. ASSUME NEW f \in DOMAIN forks
          PROVE  /\ ToSet(forks[f].labels) \subseteq Labels
                 /\ forks[f].best \in ToSet(forks[f].labels) \union {NoLabel}
      <4>1. Choice(forks[f].labels, forks[f].best)
        BY DEF ChoicesInv
      <4> QED BY <4>1 DEF Choice, ToSet
    <3> QED BY <3>1, <3>2 DEF LedgerTypeOK, ShapeInv, LogTyped, RowsTyped
  <2>2. CitationsAreUnique
    BY DEF CitationsAreUnique, Numbered, ChoicesInv, Choice
  <2>3. PicksAreOffered
    <3>1. ASSUME NEW f \in DOMAIN forks \ OpenForks PROVE f \in ToSet(BoundForks)
      <4>1. PICK i \in DOMAIN bindings : bindings[i].fork = f
        BY DEF ChoicesInv
      <4>2. i \in DOMAIN BoundForks /\ BoundForks[i] = f
        BY <4>1 DEF BoundForks
      <4> QED BY <4>2 DEF ToSet
    <3> QED BY <3>1 DEF PicksAreOffered, ChoicesInv
  <2> QED BY <2>1, <2>2, <2>3 DEF LedgerInOrder
<1> QED BY <1>1, <1>2, <1>3, ShapeInvariant, PTL DEF Spec
=============================================================================
