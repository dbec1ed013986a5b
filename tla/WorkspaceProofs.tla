--------------------------- MODULE WorkspaceProofs ---------------------------
(***************************************************************************)
(* Theorems about the backlog, the doctrine gate and the files the gate    *)
(* reads, for any sessions, asks, projects, directories, grants, clerks    *)
(* and limits.                                                             *)
(***************************************************************************)
EXTENDS Workspace, SelectionProofs

-----------------------------------------------------------------------------
(* The inductive invariant of the backlog: the table, then each session.   *)

Wish == [ask : Asks, project : Projects]
Row == [ask : Asks, project : Projects, intake : 1 .. MaxIntakes, seq : Nat,
        status : Statuses]
Stages == {"idle", "classify", "apply", "itemize", "audit", "route", "save", "record",
           "siblings"}

Table(f) == f = [s \in Sessions |-> f[s]]

\* A row is known by its intake, which has a place, and its turn in it.
TableInv ==
    /\ rows \in Seq(Row)
    /\ rank \in Seq(1 .. MaxIntakes) /\ IsInjective(rank)
    /\ \A i \in Ids : rows[i].intake <= Len(rank)
    /\ \A i, j \in Ids : rows[i].intake = rows[j].intake /\ rows[i].seq = rows[j].seq => i = j

FormInv ==
    /\ scope \in [Sessions -> SUBSET Siblings] /\ stage \in [Sessions -> Stages]
    /\ Table(shown) /\ Table(word) /\ Table(herald) /\ Table(items) /\ Table(audits)
    /\ Table(named)
    /\ prompts \in 0 .. MaxPrompts /\ spoils \in 0 .. MaxSpoils

\* What the classifier was shown are todos on file, and the word left to apply
\* is about them; outside of "apply" none is left.
LedgerInv(s) ==
    /\ DOMAIN shown[s] \subseteq Ids /\ \A i \in DOMAIN shown[s] : IsTodo(i)
    /\ DOMAIN word[s] \subseteq DOMAIN shown[s]
    /\ \A i \in DOMAIN word[s] : word[s][i] \in Statuses
    /\ stage[s] # "apply" => DOMAIN word[s] = {}
    /\ herald[s] \subseteq Ids

Repeats(list, ask) == {k \in DOMAIN list : list[k].ask = ask}

ItemsInv(s) ==
    /\ items[s] \in Seq(Wish)
    /\ stage[s] \in {"audit", "route", "save"} =>
         /\ AsksOf(items[s]) = named[s]
         /\ \A ask \in Asks : Cardinality(Repeats(items[s], ask)) <= MaxReply

SessionsInv == \A s \in Sessions : LedgerInv(s) /\ ItemsInv(s)

BacklogInv == TableInv /\ FormInv /\ SessionsInv

-----------------------------------------------------------------------------
(* The table.                                                              *)

LEMMA LimitsAre ==
    /\ Ambient \in Projects /\ Projects \ {Ambient} = Siblings
    /\ \A ask \in Asks : KindOf(ask) \in TodoKinds \cup {"context"}
    /\ MaxPrompts \in Nat /\ MaxIntakes \in Nat /\ MaxReply \in Nat /\ MaxAudits \in Nat
    /\ CandidateCap \in Nat \ {0} /\ MaxSpoils \in Nat
BY BacklogAssumption DEF BacklogAssumption, Projects

LEMMA IdsAre ==
    ASSUME TableInv
    PROVE  /\ Len(rows) \in Nat /\ Ids = 1 .. Len(rows) /\ IsFiniteSet(Ids)
           /\ \A i \in Ids : /\ rows[i] \in Row
                             /\ rows[i].intake \in Nat /\ rows[i].seq \in Nat
           /\ Len(rank) \in Nat /\ DOMAIN rank = 1 .. Len(rank)
           /\ \A k \in 1 .. Len(rank) : rank[k] \in 1 .. MaxIntakes
<1>1. Len(rows) \in Nat /\ Ids = 1 .. Len(rows)
  BY DEF TableInv, Ids
<1>2. IsFiniteSet(Ids)
  BY <1>1, FS_Interval
<1>3. \A i \in Ids : rows[i] \in Row
  BY <1>1 DEF TableInv, Ids
<1>4. \A i \in Ids : rows[i].intake \in Nat /\ rows[i].seq \in Nat
  BY <1>3, LimitsAre DEF Row
<1>5. /\ Len(rank) \in Nat /\ DOMAIN rank = 1 .. Len(rank)
      /\ \A k \in 1 .. Len(rank) : rank[k] \in 1 .. MaxIntakes
  <2>1. rank \in Seq(1 .. MaxIntakes)
    BY DEF TableInv
  <2> QED BY <2>1, SeqIs
<1> QED BY <1>1, <1>2, <1>3, <1>4, <1>5

\* The rows are one line, from the newest to the oldest.
LEMMA NewerIsALine ==
    ASSUME TableInv
    PROVE  /\ \A i \in Ids : ~Newer(i, i)
           /\ \A i, j \in Ids : i # j => Newer(i, j) \/ Newer(j, i)
           /\ \A i, j, k \in Ids : Newer(i, j) /\ Newer(j, k) => Newer(i, k)
<1>1. \A i \in Ids : rows[i].intake \in Nat /\ rows[i].seq \in Nat
  BY IdsAre
<1>2. \A i, j \in Ids : rows[i].intake = rows[j].intake /\ rows[i].seq = rows[j].seq => i = j
  BY DEF TableInv
<1>3. \A i, j \in Ids : i # j => Newer(i, j) \/ Newer(j, i)
  BY <1>1, <1>2 DEF Newer
<1>4. \A i, j, k \in Ids : Newer(i, j) /\ Newer(j, k) => Newer(i, k)
  BY <1>1 DEF Newer
<1>5. \A i \in Ids : ~Newer(i, i)
  BY <1>1 DEF Newer
<1> QED BY <1>3, <1>4, <1>5

\* The oldest candidate has all the others before it, so they fit the cap.
LEMMA CandidatesFit ==
    ASSUME TableInv
    PROVE  /\ Candidates \subseteq Ids /\ \A i \in Candidates : IsTodo(i)
           /\ Cardinality(Candidates) \in Nat
           /\ Cardinality(Candidates) <= CandidateCap
<1> DEFINE before(i) == {j \in Listed : Newer(j, i)}
           age(i) == Cardinality(before(i))
<1>1. IsFiniteSet(Ids) /\ Listed \subseteq Ids /\ Candidates \subseteq Listed
  BY IdsAre DEF Listed, Candidates
<1>2. IsFiniteSet(Listed) /\ IsFiniteSet(Candidates)
  BY <1>1, FS_Subset
<1>3. \A i \in Candidates : IsTodo(i)
  BY <1>1 DEF Listed
<1>4. Cardinality(Candidates) \in Nat /\ CandidateCap \in Nat \ {0}
  BY <1>2, FS_CardinalityType, LimitsAre
<1>5. ASSUME NEW i \in Ids
      PROVE  IsFiniteSet(before(i)) /\ age(i) \in Nat
  <2>1. before(i) \in SUBSET Listed
    OBVIOUS
  <2> QED BY <1>2, <2>1, FS_Subset, FS_CardinalityType
<1>6. \A i \in Candidates : age(i) < CandidateCap
  BY DEF Candidates
<1> HIDE DEF age
<1>7. CASE Candidates = {}
  BY <1>4, <1>7, <1>1, <1>3, FS_EmptySet
<1>8. CASE Candidates # {}
  <2> DEFINE Spare == {CandidateCap - age(i) : i \in Candidates}
  <2>1. Spare \in SUBSET Nat /\ Spare # {}
    <3>1. ASSUME NEW i \in Candidates PROVE CandidateCap - age(i) \in Nat
      <4>1. age(i) \in Nat /\ age(i) < CandidateCap
        BY <1>1, <1>5, <1>6
      <4> QED BY <1>4, <4>1
    <3> QED BY <1>8, <3>1
  <2>2. PICK m \in Candidates : \A i \in Candidates : CandidateCap - age(m) <= CandidateCap - age(i)
    <3>1. \E n \in Spare : \A y \in Spare : n <= y
      <4> HIDE DEF Spare
      <4> QED BY <2>1, LeastOf
    <3> QED BY <3>1
  <2>3. m \in Ids /\ m \in Listed /\ age(m) \in Nat /\ age(m) < CandidateCap
    BY <1>1, <1>5, <1>6
  <2>4. ASSUME NEW i \in Candidates, i # m
        PROVE  Newer(i, m)
    <3>1. SUFFICES ASSUME Newer(m, i) PROVE FALSE
      BY <1>1, <2>3, <2>4, NewerIsALine
    <3>2. i \in Ids /\ age(i) \in Nat /\ age(i) <= age(m)
      <4>1. i \in Ids /\ age(i) \in Nat
        BY <1>1, <1>5
      <4> QED BY <1>4, <2>2, <2>3, <4>1
    <3>3. before(m) \cup {m} \in SUBSET before(i) /\ m \notin before(m)
      BY <1>1, <2>3, <3>1, <3>2, NewerIsALine
    <3>4. Cardinality(before(m) \cup {m}) = age(m) + 1 /\ Cardinality(before(m) \cup {m}) <= age(i)
      BY <1>5, <2>3, <3>2, <3>3, FS_AddElement, FS_Subset DEF age
    <3> QED BY <2>3, <3>2, <3>4
  <2>5. Candidates \ {m} \in SUBSET before(m)
    BY <1>1, <2>4
  <2>6. Cardinality(Candidates \ {m}) = Cardinality(Candidates) - 1
    BY <1>2, FS_RemoveElement
  <2>7. Cardinality(Candidates \ {m}) <= age(m)
    BY <1>5, <2>3, <2>5, FS_Subset DEF age
  <2> QED BY <1>1, <1>3, <1>4, <2>3, <2>6, <2>7
<1> QED BY <1>7, <1>8

\* An intake that still finds a place is one of those the instance allows.
LEMMA PlaceIsLeft ==
    ASSUME TableInv, NEW place \in (1 .. MaxIntakes) \ ToSet(rank)
    PROVE  /\ Len(rank) + 1 \in 1 .. MaxIntakes
           /\ Append(rank, place) \in Seq(1 .. MaxIntakes) /\ IsInjective(Append(rank, place))
           /\ Len(Append(rank, place)) = Len(rank) + 1
<1> DEFINE more == Append(rank, place)
           n == Len(rank) + 1
<1>1. rank \in Seq(1 .. MaxIntakes) /\ Len(rank) \in Nat /\ DOMAIN rank = 1 .. Len(rank)
  BY DEF TableInv
<1>2. more \in Seq(1 .. MaxIntakes) /\ Len(more) = n
  BY <1>1
<1>3. \A k \in 1 .. Len(rank) : rank[k] # place
  BY <1>1 DEF ToSet
<1>4. \A k \in 1 .. n : more[k] = IF k = n THEN place ELSE rank[k]
  BY <1>1
<1>5. \A a, b \in 1 .. Len(rank) : rank[a] = rank[b] => a = b
  BY <1>1 DEF TableInv, IsInjective
<1>6. more \in [1 .. n -> 1 .. MaxIntakes] /\ DOMAIN more = 1 .. n
  <2> HIDE DEF more, n
  <2> QED BY <1>2, SeqIs
<1>7. IsInjective(more)
  <2>1. \A a, b \in 1 .. n : more[a] = more[b] => a = b
    BY <1>1, <1>3, <1>4, <1>5
  <2> QED BY <1>6, <2>1 DEF IsInjective
<1> HIDE DEF more
<1>8. IsFiniteSet(1 .. MaxIntakes) /\ Cardinality(1 .. MaxIntakes) = MaxIntakes
  <2>1. 1 \in Int /\ MaxIntakes \in Int /\ MaxIntakes \in Nat
    BY LimitsAre
  <2>2. /\ IsFiniteSet(1 .. MaxIntakes)
        /\ Cardinality(1 .. MaxIntakes) = IF 1 > MaxIntakes THEN 0 ELSE MaxIntakes - 1 + 1
    BY <2>1, FS_Interval
  <2> QED BY <2>1, <2>2
<1>9. Cardinality(1 .. n) = n
  <2>1. 1 \in Int /\ n \in Int /\ n \in Nat /\ n >= 1
    BY <1>1
  <2>2. Cardinality(1 .. n) = IF 1 > n THEN 0 ELSE n - 1 + 1
    BY <2>1, FS_Interval
  <2> QED BY <2>1, <2>2
<1>10. Cardinality(1 .. n) <= Cardinality(1 .. MaxIntakes)
  <2>1. more \in Injection(1 .. n, 1 .. MaxIntakes)
    BY <1>6, <1>7 DEF Injection
  <2> HIDE DEF n
  <2> QED BY <1>8, <2>1, FS_Injection
<1>11. n \in 1 .. MaxIntakes
  BY <1>1, <1>8, <1>9, <1>10, LimitsAre
<1> QED BY <1>2, <1>7, <1>11 DEF more

\* A step leaves on file what is there: a row changes its status at most.
Kept ==
    \A i \in Ids : /\ i \in Ids' /\ rows'[i].ask = rows[i].ask
                   /\ rows'[i].project = rows[i].project

LEMMA QuietTable ==
    ASSUME TableInv, UNCHANGED <<rows, rank>>
    PROVE  TableInv' /\ Kept
BY DEF TableInv, Kept, Ids

LEMMA CloseKeepsTable ==
    ASSUME TableInv, NEW i \in Ids, NEW w \in Statuses,
           rows' = [rows EXCEPT ![i].status = w], rank' = rank
    PROVE  TableInv' /\ Kept
<1> DEFINE closed == [rows[i] EXCEPT !.status = w]
<1>1. /\ Len(rows) \in Nat /\ Ids = 1 .. Len(rows) /\ DOMAIN rows = 1 .. Len(rows)
      /\ \A j \in Ids : rows[j] \in Row
  BY IdsAre DEF Ids
<1>2. /\ closed \in Row /\ closed.ask = rows[i].ask /\ closed.project = rows[i].project
      /\ closed.intake = rows[i].intake /\ closed.seq = rows[i].seq
  <2>1. rows[i] \in Row
    BY <1>1
  <2> QED BY <2>1 DEF Row
<1>3. rows' = [rows EXCEPT ![i] = closed]
  OBVIOUS
<1> HIDE DEF closed
<1>4. /\ rows' = [j \in 1 .. Len(rows) |-> rows'[j]] /\ rows'[i] = closed
      /\ \A j \in Ids : j # i => rows'[j] = rows[j]
  BY <1>1, <1>3
<1>5. \A j \in 1 .. Len(rows) : rows'[j] \in Row
  BY <1>1, <1>2, <1>4
<1>6. rows' \in Seq(Row) /\ Len(rows') = Len(rows) /\ Ids' = Ids
  <2>1. rows' \in Seq(Row)
    BY <1>1, <1>4, <1>5, IsSeq
  <2>2. DOMAIN rows' = 1 .. Len(rows)
    BY <1>4
  <2> QED BY <1>1, <2>1, <2>2 DEF Ids
<1>7. \A j \in Ids : /\ rows'[j].ask = rows[j].ask /\ rows'[j].project = rows[j].project
                     /\ rows'[j].intake = rows[j].intake /\ rows'[j].seq = rows[j].seq
  BY <1>2, <1>4
<1> QED BY <1>6, <1>7 DEF TableInv, Kept

LEMMA SaveKeepsTable ==
    ASSUME TableInv, NEW s \in Sessions, items[s] \in Seq(Wish), Save(s)
    PROVE  TableInv' /\ Kept
<1> DEFINE n == Len(rank) + 1
           more == NewRows(s, n)
           L == Len(items[s])
<1>1. /\ Len(rows) \in Nat /\ Ids = 1 .. Len(rows) /\ DOMAIN rows = 1 .. Len(rows)
      /\ \A j \in Ids : rows[j] \in Row /\ rows[j].intake \in Nat /\ rows[j].intake <= Len(rank)
      /\ Len(rank) \in Nat
  BY IdsAre DEF Ids, TableInv
<1>2. PICK place \in (1 .. MaxIntakes) \ ToSet(rank) : rank' = Append(rank, place)
  BY DEF Save
<1>3. /\ n \in 1 .. MaxIntakes /\ rank' \in Seq(1 .. MaxIntakes) /\ IsInjective(rank')
      /\ Len(rank') = n
  BY <1>2, PlaceIsLeft
<1>4. /\ L \in Nat /\ DOMAIN items[s] = 1 .. L
      /\ \A k \in 1 .. L : items[s][k].ask \in Asks /\ items[s][k].project \in Projects
  <2>1. L \in Nat /\ DOMAIN items[s] = 1 .. L /\ \A k \in 1 .. L : items[s][k] \in Wish
    BY SeqIs
  <2> QED BY <2>1 DEF Wish
<1>5. /\ more = [k \in 1 .. L |-> more[k]]
      /\ \A k \in 1 .. L : more[k] \in Row /\ more[k].intake = n /\ more[k].seq = k
  <2>1. more = [k \in 1 .. L |-> [ask |-> items[s][k].ask, project |-> items[s][k].project,
                                  intake |-> n, seq |-> k, status |-> "open"]]
    BY <1>4 DEF NewRows
  <2>2. ASSUME NEW k \in 1 .. L
        PROVE  more[k] \in Row /\ more[k].intake = n /\ more[k].seq = k
    <3>1. "open" \in Statuses /\ k \in Nat
      BY DEF Statuses
    <3> HIDE DEF more, n
    <3> QED BY <1>3, <1>4, <2>1, <2>2, <3>1 DEF Row
  <2> HIDE DEF more
  <2> QED BY <2>1, <2>2
<1> HIDE DEF more, L
<1>6. more \in Seq(Row) /\ Len(more) = L /\ rows \in Seq(Row)
  BY <1>4, <1>5 DEF TableInv
<1>7. rows' = rows \o more
  BY DEF Save, more
<1>8. rows' \in Seq(Row) /\ Len(rows') = Len(rows) + L /\ Ids' = 1 .. Len(rows) + L
  <2>1. /\ rows \o more \in Seq(Row) /\ Len(rows \o more) = Len(rows) + Len(more)
        /\ DOMAIN (rows \o more) = 1 .. Len(rows) + Len(more)
    BY <1>6, ConcatIs
  <2> QED BY <1>6, <1>7, <2>1 DEF Ids
<1>9. /\ \A i \in Ids : i \in Ids' /\ rows'[i] = rows[i]
      /\ \A i \in Ids' \ Ids : i - Len(rows) \in 1 .. L /\ rows'[i] = more[i - Len(rows)]
  BY <1>1, <1>4, <1>6, <1>7, <1>8, ConcatIs
<1>10. \A i \in Ids' \ Ids : rows'[i].intake = n /\ rows'[i].seq = i - Len(rows)
  BY <1>5, <1>9
<1>11. \A i \in Ids' : rows'[i].intake <= n
  BY <1>1, <1>3, <1>9, <1>10
<1>12. ASSUME NEW i \in Ids', NEW j \in Ids',
              rows'[i].intake = rows'[j].intake, rows'[i].seq = rows'[j].seq
       PROVE  i = j
  <2>1. i \in Ids <=> j \in Ids
    <3>1. \A k \in Ids : rows'[k].intake \in Nat /\ rows'[k].intake < n
      BY <1>1, <1>9
    <3> QED BY <1>3, <1>10, <1>12, <3>1
  <2>2. CASE i \in Ids /\ j \in Ids
    BY <1>9, <1>12, <2>2 DEF TableInv
  <2>3. CASE i \notin Ids /\ j \notin Ids
    BY <1>1, <1>8, <1>10, <1>12, <2>3
  <2> QED BY <2>1, <2>2, <2>3
<1> QED BY <1>3, <1>8, <1>9, <1>11, <1>12 DEF TableInv, Kept

-----------------------------------------------------------------------------
(* The sessions.                                                           *)

Same(t) ==
    /\ stage'[t] = stage[t] /\ shown'[t] = shown[t] /\ word'[t] = word[t]
    /\ herald'[t] = herald[t] /\ items'[t] = items[t] /\ named'[t] = named[t]

LEMMA OthersKeep ==
    ASSUME Kept, NEW t \in Sessions, LedgerInv(t), ItemsInv(t), Same(t)
    PROVE  LedgerInv(t)' /\ ItemsInv(t)'
<1>1. Ids \subseteq Ids' /\ \A i \in Ids : IsTodo(i) => IsTodo(i)'
  BY DEF Kept, IsTodo
<1>2. LedgerInv(t)'
  <2>1. DOMAIN shown'[t] \subseteq Ids' /\ herald'[t] \subseteq Ids'
    BY <1>1 DEF LedgerInv, Same
  <2>2. \A i \in DOMAIN shown'[t] : IsTodo(i)'
    BY <1>1 DEF LedgerInv, Same
  <2>3. /\ DOMAIN word'[t] \subseteq DOMAIN shown'[t]
        /\ \A i \in DOMAIN word'[t] : word'[t][i] \in Statuses
        /\ stage'[t] # "apply" => DOMAIN word'[t] = {}
    BY DEF LedgerInv, Same
  <2> QED BY <2>1, <2>2, <2>3 DEF LedgerInv
<1>3. ItemsInv(t)'
  BY DEF ItemsInv, Same, AsksOf, Repeats
<1> QED BY <1>2, <1>3

\* What a step of one session has to show.
Steps(s) ==
    /\ TableInv' /\ Kept /\ FormInv'
    /\ \A t \in Sessions \ {s} : Same(t)
    /\ LedgerInv(s)' /\ ItemsInv(s)'

LEMMA StepKeepsBacklog ==
    ASSUME BacklogInv, NEW s \in Sessions, Steps(s)
    PROVE  BacklogInv'
<1>1. ASSUME NEW t \in Sessions
      PROVE  LedgerInv(t)' /\ ItemsInv(t)'
  <2>1. CASE t = s
    BY <2>1 DEF Steps
  <2>2. CASE t # s
    BY <2>2, OthersKeep DEF Steps, BacklogInv, SessionsInv
  <2> QED BY <2>1, <2>2
<1> QED BY <1>1 DEF Steps, BacklogInv, SessionsInv

LEMMA StageTurns ==
    ASSUME FormInv, NEW s \in Sessions, NEW v \in Stages, stage' = [stage EXCEPT ![s] = v]
    PROVE  /\ stage' \in [Sessions -> Stages] /\ stage'[s] = v
           /\ \A t \in Sessions \ {s} : stage'[t] = stage[t]
BY DEF FormInv

LEMMA SpoilCounts ==
    ASSUME FormInv, Spoil
    PROVE  spoils' \in 0 .. MaxSpoils
BY LimitsAre DEF FormInv, Spoil

LEMMA PromptCounts ==
    ASSUME FormInv, prompts < MaxPrompts, prompts' = prompts + 1
    PROVE  prompts' \in 0 .. MaxPrompts
BY LimitsAre DEF FormInv

\* A session whose list is left alone, or is no longer being decomposed.
LEMMA ItemsKeep ==
    ASSUME NEW s \in Sessions, ItemsInv(s), items'[s] = items[s],
           stage'[s] \notin {"audit", "route", "save"}
    PROVE  ItemsInv(s)'
BY DEF ItemsInv

\* A session whose word is all applied and whose snapshot is left alone.
LEMMA LedgerKeeps ==
    ASSUME Kept, NEW s \in Sessions, LedgerInv(s), stage[s] # "apply", stage'[s] # "apply",
           shown'[s] = shown[s], word'[s] = word[s], herald'[s] = herald[s]
    PROVE  LedgerInv(s)'
<1>1. Ids \subseteq Ids' /\ \A i \in Ids : IsTodo(i) => IsTodo(i)'
  BY DEF Kept, IsTodo
<1> QED BY <1>1 DEF LedgerInv

LEMMA NothingLeft == DOMAIN Empty = {}
BY DEF Empty

\* A session that forgets what its ledger and its itemizer held.
LEMMA ForgetsAll ==
    ASSUME NEW s \in Sessions, shown'[s] = Empty, word'[s] = Empty, herald'[s] = {},
           items'[s] = <<>>, stage'[s] = "idle"
    PROVE  LedgerInv(s)' /\ ItemsInv(s)'
<1>1. LedgerInv(s)'
  BY NothingLeft DEF LedgerInv
<1>2. ItemsInv(s)'
  BY DEF ItemsInv
<1> QED BY <1>1, <1>2

LEMMA PromptStep ==
    ASSUME BacklogInv, NEW s \in Sessions, Prompt(s)
    PROVE  Steps(s)
<1> DEFINE snapshot == [i \in Candidates |-> rows[i].status]
           next == IF Candidates = {} THEN "itemize" ELSE "classify"
<1>1. TableInv /\ FormInv /\ LedgerInv(s) /\ ItemsInv(s)
  BY DEF BacklogInv, SessionsInv
<1>2. TableInv' /\ Kept
  BY <1>1, QuietTable DEF Prompt
<1>3. /\ stage[s] = "idle" /\ prompts < MaxPrompts /\ prompts' = prompts + 1
      /\ shown' = [shown EXCEPT ![s] = snapshot] /\ stage' = [stage EXCEPT ![s] = next]
      /\ UNCHANGED <<rows, rank, scope, word, herald, items, audits, named, spoils>>
  BY DEF Prompt
<1>4. next \in {"itemize", "classify"} /\ next \in Stages /\ DOMAIN snapshot = Candidates
  BY DEF Stages
<1> HIDE DEF next, snapshot
<1>5. /\ stage' \in [Sessions -> Stages] /\ stage'[s] = next
      /\ \A t \in Sessions \ {s} : stage'[t] = stage[t]
  BY <1>1, <1>3, <1>4, StageTurns
<1>6. /\ Table(shown') /\ shown'[s] = snapshot
      /\ \A t \in Sessions \ {s} : shown'[t] = shown[t]
  <2>1. Table(shown)
    BY <1>1 DEF FormInv
  <2> QED BY <1>3, <2>1 DEF Table
<1>7. FormInv'
  BY <1>1, <1>3, <1>5, <1>6, PromptCounts DEF FormInv
<1>8. LedgerInv(s)'
  <2>1. Candidates \subseteq Ids /\ \A i \in Candidates : IsTodo(i)
    BY <1>1, CandidatesFit
  <2>2. Ids' = Ids /\ \A i \in Ids : IsTodo(i)' <=> IsTodo(i)
    BY <1>3 DEF Ids, IsTodo
  <2>3. DOMAIN word[s] = {} /\ herald[s] \subseteq Ids
    BY <1>1, <1>3 DEF LedgerInv
  <2> QED BY <1>3, <1>4, <1>6, <2>1, <2>2, <2>3 DEF LedgerInv
<1>9. ItemsInv(s)'
  BY <1>1, <1>3, <1>4, <1>5, ItemsKeep
<1>10. \A t \in Sessions \ {s} : Same(t)
  BY <1>3, <1>5, <1>6 DEF Same
<1> QED BY <1>2, <1>7, <1>8, <1>9, <1>10 DEF Steps

\* The classifier is done: its snapshot is gone, and nothing is left to apply.
LEMMA LedgerIsDone ==
    ASSUME FormInv, NEW s \in Sessions, LedgerEnds(s)
    PROVE  /\ stage' \in [Sessions -> Stages] /\ stage'[s] = "itemize"
           /\ Table(shown') /\ shown'[s] = Empty
           /\ \A t \in Sessions \ {s} : stage'[t] = stage[t] /\ shown'[t] = shown[t]
<1>1. "itemize" \in Stages
  BY DEF Stages
<1>2. stage' = [stage EXCEPT ![s] = "itemize"] /\ shown' = [shown EXCEPT ![s] = Empty]
  BY DEF LedgerEnds
<1>3. /\ stage' \in [Sessions -> Stages] /\ stage'[s] = "itemize"
      /\ \A t \in Sessions \ {s} : stage'[t] = stage[t]
  BY <1>1, <1>2, StageTurns
<1>4. /\ Table(shown') /\ shown'[s] = Empty
      /\ \A t \in Sessions \ {s} : shown'[t] = shown[t]
  <2>1. Table(shown)
    BY DEF FormInv
  <2> QED BY <1>2, <2>1 DEF Table
<1> QED BY <1>3, <1>4

LEMMA ClassifyStep ==
    ASSUME BacklogInv, NEW s \in Sessions, Classify(s)
    PROVE  Steps(s)
<1>1. TableInv /\ FormInv /\ LedgerInv(s) /\ ItemsInv(s)
  BY DEF BacklogInv, SessionsInv
<1>2. TableInv' /\ Kept
  BY <1>1, QuietTable DEF Classify
<1>0. PICK acted \in SUBSET DOMAIN shown[s] :
         \E said \in [acted -> Dispositions] :
            /\ word' = [word EXCEPT ![s] = [i \in acted |-> Target(said[i])]]
            /\ IF acted = {} THEN LedgerEnds(s) ELSE
                 stage' = [stage EXCEPT ![s] = "apply"] /\ UNCHANGED shown
  BY DEF Classify
<1>3. PICK said \in [acted -> Dispositions] :
         /\ word' = [word EXCEPT ![s] = [i \in acted |-> Target(said[i])]]
         /\ IF acted = {} THEN LedgerEnds(s) ELSE
              stage' = [stage EXCEPT ![s] = "apply"] /\ UNCHANGED shown
  BY <1>0
<1>4. /\ stage[s] = "classify"
      /\ UNCHANGED <<rows, rank, scope, herald, items, audits, named, prompts, spoils>>
  BY DEF Classify
<1> DEFINE closures == [i \in acted |-> Target(said[i])]
<1>5. DOMAIN closures = acted /\ \A i \in acted : closures[i] \in Statuses
  <2>1. \A i \in acted : said[i] \in {"done", "dropped", "superseded", "reopen"}
    BY BacklogAssumption DEF BacklogAssumption
  <2> QED BY <2>1 DEF Target, Statuses
<1> HIDE DEF closures
<1>6. /\ Table(word') /\ word'[s] = closures
      /\ \A t \in Sessions \ {s} : word'[t] = word[t]
  <2>1. word' = [word EXCEPT ![s] = closures]
    BY <1>3 DEF closures
  <2>2. Table(word)
    BY <1>1 DEF FormInv
  <2> QED BY <2>1, <2>2 DEF Table
<1>7. /\ stage' \in [Sessions -> Stages] /\ Table(shown')
      /\ \A t \in Sessions \ {s} : stage'[t] = stage[t] /\ shown'[t] = shown[t]
      /\ \/ acted = {} /\ stage'[s] = "itemize" /\ shown'[s] = Empty
         \/ stage'[s] = "apply" /\ shown'[s] = shown[s]
  <2>1. CASE acted = {}
    BY <1>1, <1>3, <2>1, LedgerIsDone
  <2>2. CASE acted # {}
    <3>1. stage' = [stage EXCEPT ![s] = "apply"] /\ shown' = shown /\ "apply" \in Stages
      BY <1>3, <2>2 DEF Stages
    <3> QED BY <1>1, <3>1, StageTurns DEF FormInv
  <2> QED BY <2>1, <2>2
<1>8. FormInv'
  BY <1>1, <1>4, <1>6, <1>7 DEF FormInv
<1>9. LedgerInv(s)'
  <2>1. Ids' = Ids /\ \A i \in Ids : IsTodo(i)' <=> IsTodo(i)
    BY <1>4 DEF Ids, IsTodo
  <2>2. /\ DOMAIN shown[s] \subseteq Ids /\ \A i \in DOMAIN shown[s] : IsTodo(i)
        /\ herald[s] \subseteq Ids
    BY <1>1 DEF LedgerInv
  <2>3. CASE acted = {} /\ stage'[s] = "itemize" /\ shown'[s] = Empty
    BY <1>4, <1>5, <1>6, <2>1, <2>2, <2>3, NothingLeft DEF LedgerInv
  <2>4. CASE stage'[s] = "apply" /\ shown'[s] = shown[s]
    BY <1>4, <1>5, <1>6, <2>1, <2>2, <2>4 DEF LedgerInv
  <2> QED BY <1>7, <2>3, <2>4
<1>10. ItemsInv(s)'
  BY <1>1, <1>4, <1>7, ItemsKeep
<1>11. \A t \in Sessions \ {s} : Same(t)
  BY <1>4, <1>6, <1>7 DEF Same
<1> QED BY <1>2, <1>8, <1>9, <1>10, <1>11 DEF Steps

LEMMA ClassifyFailsStep ==
    ASSUME BacklogInv, NEW s \in Sessions, ClassifyFails(s)
    PROVE  Steps(s)
<1>1. TableInv /\ FormInv /\ LedgerInv(s) /\ ItemsInv(s)
  BY DEF BacklogInv, SessionsInv
<1>2. TableInv' /\ Kept
  BY <1>1, QuietTable DEF ClassifyFails
<1>3. /\ stage[s] = "classify" /\ Spoil /\ LedgerEnds(s)
      /\ UNCHANGED <<rows, rank, scope, word, herald, items, audits, named, prompts>>
  BY DEF ClassifyFails
<1>4. /\ stage' \in [Sessions -> Stages] /\ stage'[s] = "itemize"
      /\ Table(shown') /\ shown'[s] = Empty
      /\ \A t \in Sessions \ {s} : stage'[t] = stage[t] /\ shown'[t] = shown[t]
  BY <1>1, <1>3, LedgerIsDone
<1>5. FormInv'
  BY <1>1, <1>3, <1>4, SpoilCounts DEF FormInv
<1>6. LedgerInv(s)'
  <2>1. DOMAIN word[s] = {} /\ herald[s] \subseteq Ids /\ Ids' = Ids
    BY <1>1, <1>3 DEF LedgerInv, Ids
  <2> QED BY <1>3, <1>4, <2>1, NothingLeft DEF LedgerInv
<1>7. ItemsInv(s)'
  BY <1>1, <1>3, <1>4, ItemsKeep
<1>8. \A t \in Sessions \ {s} : Same(t)
  BY <1>3, <1>4 DEF Same
<1> QED BY <1>2, <1>5, <1>6, <1>7, <1>8 DEF Steps

LEMMA ApplyStep ==
    ASSUME BacklogInv, NEW s \in Sessions, Apply(s)
    PROVE  Steps(s)
<1>1. TableInv /\ FormInv /\ LedgerInv(s) /\ ItemsInv(s)
  BY DEF BacklogInv, SessionsInv
<1>2. PICK i \in DOMAIN word[s] :
         /\ \/ shown[s][i] # word[s][i] /\ Close(s, i)
            \/ Skip(s, i)
            \/ shown[s][i] # word[s][i] /\ WriteFails(s, i)
         /\ word' = [word EXCEPT ![s] = Without(@, i)]
         /\ IF DOMAIN word[s] = {i} THEN LedgerEnds(s) ELSE UNCHANGED <<stage, shown>>
  BY DEF Apply
<1>3. stage[s] = "apply" /\ UNCHANGED <<rank, scope, items, audits, named, prompts>>
  BY DEF Apply
<1>4. /\ i \in Ids /\ IsTodo(i) /\ word[s][i] \in Statuses
      /\ DOMAIN shown[s] \subseteq Ids /\ DOMAIN word[s] \subseteq DOMAIN shown[s]
      /\ herald[s] \subseteq Ids
  BY <1>1, <1>2 DEF LedgerInv
<1>5. /\ TableInv' /\ Kept /\ spoils' \in 0 .. MaxSpoils
      /\ Table(herald') /\ herald'[s] \subseteq Ids
      /\ \A t \in Sessions \ {s} : herald'[t] = herald[t]
  <2>1. Table(herald) /\ spoils \in 0 .. MaxSpoils
    BY <1>1 DEF FormInv
  <2>2. CASE Close(s, i)
    <3>1. /\ rows' = [rows EXCEPT ![i].status = word[s][i]] /\ spoils' = spoils
          /\ herald' = [herald EXCEPT ![s] = @ \cup {i}]
      BY <2>2 DEF Close
    <3>2. TableInv' /\ Kept
      BY <1>1, <1>3, <1>4, <3>1, CloseKeepsTable
    <3>3. /\ Table(herald') /\ herald'[s] = herald[s] \cup {i}
          /\ \A t \in Sessions \ {s} : herald'[t] = herald[t]
      BY <2>1, <3>1 DEF Table
    <3> QED BY <1>4, <2>1, <3>1, <3>2, <3>3
  <2>3. CASE Skip(s, i)
    BY <1>1, <1>3, <1>4, <2>1, <2>3, QuietTable DEF Skip
  <2>4. CASE WriteFails(s, i)
    BY <1>1, <1>3, <1>4, <2>1, <2>4, QuietTable, SpoilCounts DEF WriteFails
  <2> QED BY <1>2, <2>2, <2>3, <2>4
<1>6. /\ Table(word') /\ word'[s] = Without(word[s], i)
      /\ \A t \in Sessions \ {s} : word'[t] = word[t]
  <2>1. Table(word)
    BY <1>1 DEF FormInv
  <2> QED BY <1>2, <2>1 DEF Table
<1>7. /\ DOMAIN word'[s] = DOMAIN word[s] \ {i}
      /\ \A j \in DOMAIN word'[s] : word'[s][j] \in Statuses
  BY <1>1, <1>6 DEF LedgerInv, Without
<1>8. /\ stage' \in [Sessions -> Stages] /\ Table(shown')
      /\ \A t \in Sessions \ {s} : stage'[t] = stage[t] /\ shown'[t] = shown[t]
      /\ \/ DOMAIN word[s] = {i} /\ stage'[s] = "itemize" /\ shown'[s] = Empty
         \/ stage'[s] = "apply" /\ shown'[s] = shown[s]
  <2>1. CASE DOMAIN word[s] = {i}
    BY <1>1, <1>2, <2>1, LedgerIsDone
  <2>2. CASE DOMAIN word[s] # {i}
    BY <1>1, <1>2, <1>3, <2>2 DEF FormInv
  <2> QED BY <2>1, <2>2
<1>9. FormInv'
  BY <1>1, <1>3, <1>5, <1>6, <1>8 DEF FormInv
<1>10. LedgerInv(s)'
  <2>1. Ids \subseteq Ids' /\ \A j \in Ids : IsTodo(j) => IsTodo(j)'
    BY <1>5 DEF Kept, IsTodo
  <2>2. \A j \in DOMAIN shown[s] : IsTodo(j)
    BY <1>1 DEF LedgerInv
  <2>3. CASE DOMAIN word[s] = {i} /\ stage'[s] = "itemize" /\ shown'[s] = Empty
    <3>1. DOMAIN word'[s] = {} /\ herald'[s] \subseteq Ids'
      BY <1>5, <1>7, <2>1, <2>3
    <3> QED BY <2>3, <3>1, NothingLeft DEF LedgerInv
  <2>4. CASE stage'[s] = "apply" /\ shown'[s] = shown[s]
    <3>1. DOMAIN word'[s] \subseteq DOMAIN shown'[s] /\ herald'[s] \subseteq Ids'
      BY <1>4, <1>5, <1>7, <2>1, <2>4
    <3>2. DOMAIN shown'[s] \subseteq Ids' /\ \A j \in DOMAIN shown'[s] : IsTodo(j)'
      BY <1>4, <2>1, <2>2, <2>4
    <3> QED BY <1>7, <2>4, <3>1, <3>2 DEF LedgerInv
  <2> QED BY <1>8, <2>3, <2>4
<1>11. ItemsInv(s)'
  BY <1>1, <1>3, <1>8, ItemsKeep
<1>12. \A t \in Sessions \ {s} : Same(t)
  BY <1>3, <1>5, <1>6, <1>8 DEF Same
<1> QED BY <1>5, <1>9, <1>10, <1>11, <1>12 DEF Steps

-----------------------------------------------------------------------------
(* What a list of wishes names, and how often.                             *)

\* An extracted reply: its wishes are those it names, each for this project.
LEMMA ExtractedIs ==
    ASSUME NEW asks \in Seq(Asks)
    PROVE  /\ Extracted(asks) \in Seq(Wish) /\ Len(Extracted(asks)) = Len(asks)
           /\ AsksOf(Extracted(asks)) = ToSet(asks)
           /\ \A k \in 1 .. Len(asks) : Extracted(asks)[k].ask = asks[k]
<1> DEFINE list == Extracted(asks)
<1>1. Len(asks) \in Nat /\ DOMAIN asks = 1 .. Len(asks) /\ \A k \in 1 .. Len(asks) : asks[k] \in Asks
  BY SeqIs
<1>2. list = [k \in 1 .. Len(asks) |-> [ask |-> asks[k], project |-> Ambient]]
  BY <1>1 DEF Extracted
<1>3. \A k \in 1 .. Len(asks) : list[k] \in Wish /\ list[k].ask = asks[k]
  BY <1>1, <1>2, LimitsAre DEF Wish
<1>4. list = [k \in 1 .. Len(asks) |-> list[k]] /\ DOMAIN list = 1 .. Len(asks)
  BY <1>2
<1> HIDE DEF list
<1>5. list \in Seq(Wish) /\ Len(list) = Len(asks)
  BY <1>1, <1>3, <1>4, IsSeq
<1>6. AsksOf(list) = ToSet(asks)
  BY <1>1, <1>3, <1>4 DEF AsksOf, ToSet
<1> QED BY <1>3, <1>5, <1>6 DEF list

LEMMA RepliesAre ==
    ASSUME NEW asks \in Replies
    PROVE  asks \in Seq(Asks) /\ Len(asks) \in 0 .. MaxReply
<1>1. CASE asks = <<>>
  BY <1>1, LimitsAre
<1>2. ASSUME NEW n \in 1 .. MaxReply, asks \in [1 .. n -> Asks]
      PROVE  asks \in Seq(Asks) /\ Len(asks) \in 0 .. MaxReply
  <2>1. n \in Nat /\ n \in 0 .. MaxReply /\ asks = [k \in 1 .. n |-> asks[k]]
        /\ \A k \in 1 .. n : asks[k] \in Asks
    BY <1>2, LimitsAre
  <2> QED BY <2>1, IsSeq
<1> QED BY <1>1, <1>2 DEF Replies

\* A list repeats a wish at most as often as it is long.
LEMMA RepeatsFit ==
    ASSUME NEW list \in Seq(Wish), NEW ask
    PROVE  /\ IsFiniteSet(Repeats(list, ask)) /\ Cardinality(Repeats(list, ask)) \in Nat
           /\ Cardinality(Repeats(list, ask)) <= Len(list)
<1>1. Len(list) \in Nat /\ Repeats(list, ask) \in SUBSET (1 .. Len(list))
  BY DEF Repeats
<1>2. IsFiniteSet(1 .. Len(list)) /\ Cardinality(1 .. Len(list)) = Len(list)
  <2>1. 1 \in Int /\ Len(list) \in Int /\ Len(list) \in Nat
    BY <1>1
  <2>2. /\ IsFiniteSet(1 .. Len(list))
        /\ Cardinality(1 .. Len(list)) = IF 1 > Len(list) THEN 0 ELSE Len(list) - 1 + 1
    BY <2>1, FS_Interval
  <2> QED BY <2>1, <2>2
<1>3. /\ IsFiniteSet(Repeats(list, ask))
      /\ Cardinality(Repeats(list, ask)) <= Cardinality(1 .. Len(list))
  BY <1>1, <1>2, FS_Subset
<1> QED BY <1>2, <1>3, FS_CardinalityType

\* What an audit appends is what it names and the list does not, no more often
\* than the audit names it.
LEMMA NovelIs ==
    ASSUME NEW list \in Seq(Wish), NEW missed \in Replies
    PROVE  /\ Novel(list, missed) \in Seq(Asks) /\ Len(Novel(list, missed)) \in 0 .. MaxReply
           /\ ToSet(Novel(list, missed)) = ToSet(missed) \ AsksOf(list)
<1> DEFINE places == {k \in DOMAIN missed : missed[k] \notin AsksOf(list)}
           novel == Novel(list, missed)
<1>1. missed \in Seq(Asks) /\ Len(missed) \in 0 .. MaxReply /\ Len(missed) \in Nat
      /\ DOMAIN missed = 1 .. Len(missed)
  BY RepliesAre, SeqIs, LimitsAre
<1>2. places \in SUBSET DOMAIN missed /\ novel = Members(missed, places)
  BY DEF Novel
<1>3. \A x : x \in ToSet(missed) \ AsksOf(list) <=> \E i \in places : x = missed[i]
  BY DEF ToSet
<1> HIDE DEF places, novel
<1>4. /\ Cardinality(places) \in Nat
      /\ novel \in [1 .. Cardinality(places) -> {missed[i] : i \in places}]
      /\ novel \in Seq(Asks) /\ Len(novel) = Cardinality(places)
      /\ \A i \in places : \E k \in 1 .. Cardinality(places) : novel[k] = missed[i]
  BY <1>1, <1>2, MembersAre
<1>5. ToSet(novel) = {missed[i] : i \in places}
  BY <1>4 DEF ToSet
<1>6. ToSet(novel) = ToSet(missed) \ AsksOf(list)
  BY <1>3, <1>5
<1>7. Cardinality(places) <= Len(missed)
  <2>1. places \in SUBSET (1 .. Len(missed))
    BY <1>1, <1>2
  <2>2. IsFiniteSet(1 .. Len(missed)) /\ Cardinality(1 .. Len(missed)) = Len(missed)
    <3>1. 1 \in Int /\ Len(missed) \in Int
      BY <1>1
    <3>2. /\ IsFiniteSet(1 .. Len(missed))
          /\ Cardinality(1 .. Len(missed)) = IF 1 > Len(missed) THEN 0 ELSE Len(missed) - 1 + 1
      BY <3>1, FS_Interval
    <3> QED BY <1>1, <3>2
  <2> QED BY <2>1, <2>2, FS_Subset
<1>8. Len(novel) \in 0 .. MaxReply
  BY <1>1, <1>4, <1>7, LimitsAre
<1> QED BY <1>4, <1>6, <1>8 DEF novel

\* The merged list names both, and repeats a wish only as often as one of them.
LEMMA MergedIs ==
    ASSUME NEW list \in Seq(Wish), NEW novel \in Seq(Asks), Len(novel) \in 0 .. MaxReply,
           ToSet(novel) \cap AsksOf(list) = {},
           \A ask \in Asks : Cardinality(Repeats(list, ask)) <= MaxReply
    PROVE  /\ list \o Extracted(novel) \in Seq(Wish)
           /\ AsksOf(list \o Extracted(novel)) = AsksOf(list) \cup ToSet(novel)
           /\ \A ask \in Asks :
                 Cardinality(Repeats(list \o Extracted(novel), ask)) <= MaxReply
<1> DEFINE more == Extracted(novel)
           all == list \o more
           m == Len(list)
           n == Len(novel)
<1>1. /\ more \in Seq(Wish) /\ Len(more) = n /\ AsksOf(more) = ToSet(novel)
      /\ DOMAIN more = 1 .. n /\ DOMAIN list = 1 .. m /\ m \in Nat /\ n \in Nat
  BY ExtractedIs, SeqIs
<1> HIDE DEF more
<1>2. /\ all \in Seq(Wish) /\ DOMAIN all = 1 .. m + n
      /\ \A k \in 1 .. m : all[k] = list[k]
      /\ \A k \in 1 .. m + n : k > m => k - m \in 1 .. n /\ all[k] = more[k - m]
  BY <1>1, ConcatIs
<1> HIDE DEF all, m, n
<1>3. \A k \in 1 .. n : m + k \in 1 .. m + n /\ m + k > m /\ (m + k) - m = k
  BY <1>1
<1>4. \A k \in 1 .. m : k \in 1 .. m + n
  BY <1>1
<1>5. AsksOf(all) = AsksOf(list) \cup AsksOf(more)
  <2>1. ASSUME NEW x \in AsksOf(all) PROVE x \in AsksOf(list) \cup AsksOf(more)
    <3>1. PICK k \in 1 .. m + n : x = all[k].ask
      BY <1>2 DEF AsksOf
    <3>2. CASE k > m
      BY <1>1, <1>2, <3>1, <3>2 DEF AsksOf
    <3>3. CASE ~(k > m)
      <4>1. k \in 1 .. m
        BY <1>1, <3>3
      <4> QED BY <1>1, <1>2, <3>1, <4>1 DEF AsksOf
    <3> QED BY <3>2, <3>3
  <2>2. AsksOf(list) \subseteq AsksOf(all)
    BY <1>1, <1>2, <1>4 DEF AsksOf
  <2>3. ASSUME NEW x \in AsksOf(more) PROVE x \in AsksOf(all)
    <3>1. PICK k \in 1 .. n : x = more[k].ask
      BY <1>1 DEF AsksOf
    <3>2. all[m + k] = more[k] /\ m + k \in DOMAIN all
      BY <1>2, <1>3
    <3> QED BY <3>1, <3>2 DEF AsksOf
  <2> QED BY <2>1, <2>2, <2>3
<1>6. ASSUME NEW ask \in Asks
      PROVE  Cardinality(Repeats(all, ask)) <= MaxReply
  <2>1. CASE ask \in AsksOf(list)
    <3>1. \A k \in 1 .. n : more[k].ask # ask
      BY <1>1, <2>1 DEF AsksOf
    <3>2. Repeats(all, ask) = Repeats(list, ask)
      <4>1. ASSUME NEW k \in 1 .. m + n, all[k].ask = ask PROVE k \in 1 .. m
        <5>1. ~(k > m)
          BY <1>2, <3>1, <4>1
        <5> QED BY <1>1, <5>1
      <4> QED BY <1>1, <1>2, <1>4, <4>1 DEF Repeats
    <3> QED BY <3>2
  <2>2. CASE ask \notin AsksOf(list)
    <3>1. \A k \in 1 .. m : list[k].ask # ask
      BY <1>1, <2>2 DEF AsksOf
    <3>2. Repeats(all, ask) \in SUBSET (m + 1 .. m + n)
      <4>1. ASSUME NEW k \in 1 .. m + n, all[k].ask = ask PROVE k \in m + 1 .. m + n
        <5>1. k \notin 1 .. m
          BY <1>2, <3>1, <4>1
        <5> QED BY <1>1, <5>1
      <4> QED BY <1>2, <4>1 DEF Repeats
    <3>3. IsFiniteSet(m + 1 .. m + n) /\ Cardinality(m + 1 .. m + n) = n
      <4>1. m + 1 \in Int /\ m + n \in Int
        BY <1>1
      <4>2. /\ IsFiniteSet(m + 1 .. m + n)
            /\ Cardinality(m + 1 .. m + n) = IF m + 1 > m + n THEN 0 ELSE (m + n) - (m + 1) + 1
        BY <4>1, FS_Interval
      <4> QED BY <1>1, <4>2
    <3>4. /\ IsFiniteSet(Repeats(all, ask))
          /\ Cardinality(Repeats(all, ask)) <= Cardinality(m + 1 .. m + n)
      BY <3>2, <3>3, FS_Subset
    <3>5. Cardinality(Repeats(all, ask)) \in Nat /\ n \in 0 .. MaxReply
      BY <3>4, FS_CardinalityType DEF n
    <3> QED BY <3>3, <3>4, <3>5, LimitsAre
  <2> QED BY <2>1, <2>2
<1> QED BY <1>1, <1>2, <1>5, <1>6 DEF all, more

-----------------------------------------------------------------------------
(* The steps of the itemizer.                                              *)

LEMMA SettledIs ==
    ASSUME NEW list
    PROVE  Settled(list) \in {"save", "route"}
BY DEF Settled

LEMMA TrivialStep ==
    ASSUME BacklogInv, NEW s \in Sessions, Trivial(s)
    PROVE  Steps(s)
<1>1. TableInv /\ FormInv /\ LedgerInv(s) /\ ItemsInv(s)
  BY DEF BacklogInv, SessionsInv
<1>2. /\ stage[s] = "itemize" /\ stage' = [stage EXCEPT ![s] = "siblings"]
      /\ UNCHANGED <<rows, rank, scope, memory, prompts, spoils>> /\ "siblings" \in Stages
  BY DEF Trivial, Stages
<1>3. TableInv' /\ Kept
  BY <1>1, <1>2, QuietTable
<1>4. /\ stage' \in [Sessions -> Stages] /\ stage'[s] = "siblings"
      /\ \A t \in Sessions \ {s} : stage'[t] = stage[t]
  BY <1>1, <1>2, StageTurns
<1>5. FormInv'
  BY <1>1, <1>2, <1>4 DEF FormInv, memory
<1>6. LedgerInv(s)' /\ ItemsInv(s)'
  BY <1>1, <1>2, <1>3, <1>4, LedgerKeeps, ItemsKeep DEF memory
<1>7. \A t \in Sessions \ {s} : Same(t)
  BY <1>2, <1>4 DEF Same, memory
<1> QED BY <1>3, <1>5, <1>6, <1>7 DEF Steps

LEMMA ItemizeStep ==
    ASSUME BacklogInv, NEW s \in Sessions, Itemize(s)
    PROVE  Steps(s)
<1>1. TableInv /\ FormInv /\ LedgerInv(s) /\ ItemsInv(s)
  BY DEF BacklogInv, SessionsInv
<1>2. PICK asks \in Replies :
         /\ items' = [items EXCEPT ![s] = Extracted(asks)]
         /\ named' = [named EXCEPT ![s] = ToSet(asks)]
         /\ stage' = [stage EXCEPT ![s] = IF MaxAudits > 0 THEN "audit"
                                          ELSE Settled(Extracted(asks))]
  BY DEF Itemize
<1>3. /\ stage[s] = "itemize"
      /\ UNCHANGED <<rows, rank, scope, shown, word, herald, audits, prompts, spoils>>
  BY DEF Itemize
<1>4. TableInv' /\ Kept
  BY <1>1, <1>3, QuietTable
<1> DEFINE next == IF MaxAudits > 0 THEN "audit" ELSE Settled(Extracted(asks))
<1>5. next \in {"audit", "route", "save"} /\ next \in Stages
  BY SettledIs DEF Stages
<1>6. stage' = [stage EXCEPT ![s] = next]
  BY <1>2
<1> HIDE DEF next
<1>7. /\ stage' \in [Sessions -> Stages] /\ stage'[s] = next
      /\ \A t \in Sessions \ {s} : stage'[t] = stage[t]
  BY <1>1, <1>5, <1>6, StageTurns
<1>8. /\ Table(items') /\ items'[s] = Extracted(asks)
      /\ Table(named') /\ named'[s] = ToSet(asks)
      /\ \A t \in Sessions \ {s} : items'[t] = items[t] /\ named'[t] = named[t]
  <2>1. Table(items) /\ Table(named)
    BY <1>1 DEF FormInv
  <2> QED BY <1>2, <2>1 DEF Table
<1>9. FormInv'
  BY <1>1, <1>3, <1>7, <1>8 DEF FormInv
<1>10. LedgerInv(s)'
  BY <1>1, <1>3, <1>4, <1>5, <1>7, LedgerKeeps
<1>11. ItemsInv(s)'
  <2>1. asks \in Seq(Asks) /\ Len(asks) \in 0 .. MaxReply
    BY RepliesAre
  <2>2. /\ items'[s] \in Seq(Wish) /\ Len(items'[s]) = Len(asks)
        /\ AsksOf(items'[s]) = named'[s]
    BY <1>8, <2>1, ExtractedIs
  <2>3. ASSUME NEW ask \in Asks
        PROVE  Cardinality(Repeats(items'[s], ask)) <= MaxReply
    <3>1. /\ Cardinality(Repeats(items'[s], ask)) \in Nat
          /\ Cardinality(Repeats(items'[s], ask)) <= Len(items'[s])
      BY <2>2, RepeatsFit
    <3> QED BY <2>1, <2>2, <3>1, LimitsAre
  <2> QED BY <2>2, <2>3 DEF ItemsInv
<1>12. \A t \in Sessions \ {s} : Same(t)
  BY <1>3, <1>7, <1>8 DEF Same
<1> QED BY <1>4, <1>9, <1>10, <1>11, <1>12 DEF Steps

LEMMA AuditStep ==
    ASSUME BacklogInv, NEW s \in Sessions, Audit(s)
    PROVE  Steps(s)
<1>1. TableInv /\ FormInv /\ LedgerInv(s) /\ ItemsInv(s)
  BY DEF BacklogInv, SessionsInv
<1>2. PICK missed \in Replies, complete \in BOOLEAN :
         LET novel == Novel(items[s], missed)
             list == items[s] \o Extracted(novel)
             last == novel = <<>> \/ audits[s].run + 1 = MaxAudits
         IN /\ items' = [items EXCEPT ![s] = list]
            /\ audits' = [audits EXCEPT ![s] = [run |-> @.run + 1,
                                                clean |-> complete /\ novel = <<>>]]
            /\ named' = [named EXCEPT ![s] = @ \cup ToSet(missed)]
            /\ stage' = [stage EXCEPT ![s] = IF last THEN Settled(list) ELSE @]
  BY DEF Audit
<1>3. /\ stage[s] = "audit"
      /\ UNCHANGED <<rows, rank, scope, shown, word, herald, prompts, spoils>>
  BY DEF Audit
<1>4. TableInv' /\ Kept
  BY <1>1, <1>3, QuietTable
<1> DEFINE novel == Novel(items[s], missed)
           list == items[s] \o Extracted(novel)
           next == IF novel = <<>> \/ audits[s].run + 1 = MaxAudits THEN Settled(list)
                   ELSE stage[s]
<1>5. next \in {"audit", "route", "save"} /\ next \in Stages
  BY <1>3, SettledIs DEF Stages
<1>6. /\ items' = [items EXCEPT ![s] = list]
      /\ named' = [named EXCEPT ![s] = named[s] \cup ToSet(missed)]
      /\ stage' = [stage EXCEPT ![s] = next]
      /\ audits' = [audits EXCEPT ![s] = [run |-> audits[s].run + 1,
                                          clean |-> complete /\ novel = <<>>]]
  BY <1>2
<1> HIDE DEF next, list, novel
<1>7. /\ stage' \in [Sessions -> Stages] /\ stage'[s] = next
      /\ \A t \in Sessions \ {s} : stage'[t] = stage[t]
  BY <1>1, <1>5, <1>6, StageTurns
<1>8. /\ Table(items') /\ items'[s] = list
      /\ Table(named') /\ named'[s] = named[s] \cup ToSet(missed)
      /\ \A t \in Sessions \ {s} : items'[t] = items[t] /\ named'[t] = named[t]
  <2>1. Table(items) /\ Table(named)
    BY <1>1 DEF FormInv
  <2> QED BY <1>6, <2>1 DEF Table
<1>9. Table(audits')
  <2>1. Table(audits)
    BY <1>1 DEF FormInv
  <2> QED BY <1>6, <2>1 DEF Table
<1>10. FormInv'
  BY <1>1, <1>3, <1>7, <1>8, <1>9 DEF FormInv
<1>11. LedgerInv(s)'
  BY <1>1, <1>3, <1>4, <1>5, <1>7, LedgerKeeps
<1>12. ItemsInv(s)'
  <2>1. /\ items[s] \in Seq(Wish) /\ AsksOf(items[s]) = named[s]
        /\ \A ask \in Asks : Cardinality(Repeats(items[s], ask)) <= MaxReply
    BY <1>1, <1>3 DEF ItemsInv
  <2>2. /\ novel \in Seq(Asks) /\ Len(novel) \in 0 .. MaxReply
        /\ ToSet(novel) = ToSet(missed) \ AsksOf(items[s])
    BY <2>1, NovelIs DEF novel
  <2>3. /\ list \in Seq(Wish) /\ AsksOf(list) = AsksOf(items[s]) \cup ToSet(novel)
        /\ \A ask \in Asks : Cardinality(Repeats(list, ask)) <= MaxReply
    BY <2>1, <2>2, MergedIs DEF list
  <2>4. AsksOf(list) = named[s] \cup ToSet(missed)
    BY <2>1, <2>2, <2>3
  <2> QED BY <1>8, <2>3, <2>4 DEF ItemsInv
<1>13. \A t \in Sessions \ {s} : Same(t)
  BY <1>3, <1>7, <1>8 DEF Same
<1> QED BY <1>4, <1>10, <1>11, <1>12, <1>13 DEF Steps

LEMMA RouteStep ==
    ASSUME BacklogInv, NEW s \in Sessions, Route(s)
    PROVE  Steps(s)
<1>1. TableInv /\ FormInv /\ LedgerInv(s) /\ ItemsInv(s)
  BY DEF BacklogInv, SessionsInv
<1>2. PICK to \in [Tasks(items[s]) -> Projects] :
         items' = [items EXCEPT ![s] =
             [k \in DOMAIN @ |-> IF k \in DOMAIN to THEN [@[k] EXCEPT !.project = to[k]]
                                 ELSE @[k]]]
  BY DEF Route
<1>3. /\ stage[s] = "route" /\ stage' = [stage EXCEPT ![s] = "save"] /\ "save" \in Stages
      /\ UNCHANGED <<rows, rank, scope, shown, word, herald, audits, named, prompts, spoils>>
  BY DEF Route, Stages
<1>4. TableInv' /\ Kept
  BY <1>1, <1>3, QuietTable
<1>5. /\ stage' \in [Sessions -> Stages] /\ stage'[s] = "save"
      /\ \A t \in Sessions \ {s} : stage'[t] = stage[t]
  BY <1>1, <1>3, StageTurns
<1> DEFINE old == items[s]
           sent(k) == [old[k] EXCEPT !.project = to[k]]
           new == [k \in DOMAIN old |-> IF k \in DOMAIN to THEN sent(k) ELSE old[k]]
<1>6. /\ Table(items') /\ items'[s] = new
      /\ \A t \in Sessions \ {s} : items'[t] = items[t]
  <2>1. Table(items)
    BY <1>1 DEF FormInv
  <2>2. items' = [items EXCEPT ![s] = new]
    BY <1>2
  <2> HIDE DEF new
  <2> QED BY <2>1, <2>2 DEF Table
<1>7. /\ old \in Seq(Wish) /\ Len(old) \in Nat /\ DOMAIN old = 1 .. Len(old)
      /\ \A k \in 1 .. Len(old) : old[k] \in Wish
      /\ AsksOf(old) = named[s]
      /\ \A ask \in Asks : Cardinality(Repeats(old, ask)) <= MaxReply
  <2>1. old \in Seq(Wish)
    BY <1>1 DEF ItemsInv
  <2> QED BY <1>1, <1>3, <2>1, SeqIs DEF ItemsInv
<1> HIDE DEF old
<1>8. ASSUME NEW k \in 1 .. Len(old)
      PROVE  new[k] \in Wish /\ new[k].ask = old[k].ask
  <2>1. old[k] \in Wish /\ k \in DOMAIN old
    BY <1>7
  <2>2. k \in DOMAIN to => sent(k) \in Wish /\ sent(k).ask = old[k].ask
    <3>1. k \in DOMAIN to => to[k] \in Projects
      OBVIOUS
    <3> QED BY <2>1, <3>1 DEF Wish
  <2> HIDE DEF sent
  <2> QED BY <2>1, <2>2
<1>9. new = [k \in 1 .. Len(old) |-> new[k]] /\ DOMAIN new = 1 .. Len(old)
  BY <1>7
<1> HIDE DEF new
<1>10. ItemsInv(s)'
  <2>1. new \in Seq(Wish)
    BY <1>7, <1>8, <1>9, IsSeq
  <2>2. AsksOf(new) = AsksOf(old)
    BY <1>7, <1>8, <1>9 DEF AsksOf
  <2>3. \A ask \in Asks : Repeats(new, ask) = Repeats(old, ask)
    BY <1>7, <1>8, <1>9 DEF Repeats
  <2> QED BY <1>3, <1>6, <1>7, <2>1, <2>2, <2>3 DEF ItemsInv
<1>11. FormInv'
  BY <1>1, <1>3, <1>5, <1>6 DEF FormInv
<1>12. LedgerInv(s)'
  BY <1>1, <1>3, <1>4, <1>5, LedgerKeeps
<1>13. \A t \in Sessions \ {s} : Same(t)
  BY <1>3, <1>5, <1>6 DEF Same
<1> QED BY <1>4, <1>10, <1>11, <1>12, <1>13 DEF Steps

\* The end of the stage, whether it failed or was recorded.
LEMMA EndsStep ==
    ASSUME BacklogInv, NEW s \in Sessions, ItemizeEnds(s), stage[s] # "apply",
           UNCHANGED <<rows, rank, shown, word, herald, prompts>>,
           scope' \in [Sessions -> SUBSET Siblings], spoils' \in 0 .. MaxSpoils
    PROVE  Steps(s)
<1>1. TableInv /\ FormInv /\ LedgerInv(s) /\ ItemsInv(s)
  BY DEF BacklogInv, SessionsInv
<1>2. TableInv' /\ Kept
  BY <1>1, QuietTable
<1>3. /\ stage' = [stage EXCEPT ![s] = "siblings"] /\ "siblings" \in Stages
      /\ items' = [items EXCEPT ![s] = <<>>] /\ audits' = [audits EXCEPT ![s] = NoAudit]
      /\ named' = [named EXCEPT ![s] = {}]
  BY DEF ItemizeEnds, Stages
<1>4. /\ stage' \in [Sessions -> Stages] /\ stage'[s] = "siblings"
      /\ \A t \in Sessions \ {s} : stage'[t] = stage[t]
  BY <1>1, <1>3, StageTurns
<1>5. /\ Table(items') /\ items'[s] = <<>> /\ Table(named')
      /\ \A t \in Sessions \ {s} : items'[t] = items[t] /\ named'[t] = named[t]
  <2>1. Table(items) /\ Table(named)
    BY <1>1 DEF FormInv
  <2> QED BY <1>3, <2>1 DEF Table
<1>6. Table(audits')
  <2>1. Table(audits)
    BY <1>1 DEF FormInv
  <2> QED BY <1>3, <2>1 DEF Table
<1>7. FormInv'
  BY <1>1, <1>4, <1>5, <1>6 DEF FormInv
<1>8. LedgerInv(s)'
  BY <1>1, <1>2, <1>4, LedgerKeeps
<1>9. ItemsInv(s)'
  BY <1>4, <1>5 DEF ItemsInv
<1>10. \A t \in Sessions \ {s} : Same(t)
  BY <1>4, <1>5 DEF Same
<1> QED BY <1>2, <1>7, <1>8, <1>9, <1>10 DEF Steps

LEMMA ItemizeFailsStep ==
    ASSUME BacklogInv, NEW s \in Sessions, ItemizeFails(s)
    PROVE  Steps(s)
<1>1. FormInv
  BY DEF BacklogInv
<1>2. /\ stage[s] # "apply" /\ Spoil /\ ItemizeEnds(s)
      /\ UNCHANGED <<rows, rank, scope, shown, word, herald, prompts>>
  BY DEF ItemizeFails
<1>3. scope' \in [Sessions -> SUBSET Siblings] /\ spoils' \in 0 .. MaxSpoils
  BY <1>1, <1>2, SpoilCounts DEF FormInv
<1> QED BY <1>2, <1>3, EndsStep

LEMMA RecordScopesStep ==
    ASSUME BacklogInv, NEW s \in Sessions, RecordScopes(s)
    PROVE  Steps(s)
<1>1. FormInv /\ ItemsInv(s)
  BY DEF BacklogInv, SessionsInv
<1>2. /\ stage[s] # "apply" /\ ItemizeEnds(s)
      /\ UNCHANGED <<rows, rank, shown, word, herald, prompts>>
  BY DEF RecordScopes
<1>3. Routed(items[s]) \subseteq Siblings
  <2>1. items[s] \in Seq(Wish)
    BY <1>1 DEF ItemsInv
  <2>2. \A k \in DOMAIN items[s] : items[s][k] \in Wish
    BY <2>1
  <2>3. \A k \in DOMAIN items[s] : items[s][k].project \in Projects
    BY <2>2 DEF Wish
  <2> QED BY <2>3, LimitsAre DEF Routed
<1>4. scope' \in [Sessions -> SUBSET Siblings] /\ spoils' \in 0 .. MaxSpoils
  <2>1. CASE scope' = [scope EXCEPT ![s] = Routed(items[s])] /\ UNCHANGED spoils
    BY <1>1, <1>3, <2>1 DEF FormInv
  <2>2. CASE Spoil /\ UNCHANGED scope
    BY <1>1, <2>2, SpoilCounts DEF FormInv
  <2> QED BY <2>1, <2>2 DEF RecordScopes
<1> QED BY <1>2, <1>4, EndsStep

LEMMA SaveStep ==
    ASSUME BacklogInv, NEW s \in Sessions, Save(s)
    PROVE  Steps(s)
<1>1. TableInv /\ FormInv /\ LedgerInv(s) /\ ItemsInv(s)
  BY DEF BacklogInv, SessionsInv
<1>2. /\ stage[s] = "save" /\ stage' = [stage EXCEPT ![s] = "record"] /\ "record" \in Stages
      /\ UNCHANGED <<scope, memory, prompts, spoils>>
  BY DEF Save, Stages
<1>3. TableInv' /\ Kept
  BY <1>1, SaveKeepsTable DEF ItemsInv
<1>4. /\ stage' \in [Sessions -> Stages] /\ stage'[s] = "record"
      /\ \A t \in Sessions \ {s} : stage'[t] = stage[t]
  BY <1>1, <1>2, StageTurns
<1>5. FormInv'
  BY <1>1, <1>2, <1>4 DEF FormInv, memory
<1>6. LedgerInv(s)' /\ ItemsInv(s)'
  BY <1>1, <1>2, <1>3, <1>4, LedgerKeeps, ItemsKeep DEF memory
<1>7. \A t \in Sessions \ {s} : Same(t)
  BY <1>2, <1>4 DEF Same, memory
<1> QED BY <1>3, <1>5, <1>6, <1>7 DEF Steps

\* The end of the hook, whether it spoke or was killed.
LEMMA ForgetStep ==
    ASSUME BacklogInv, NEW s \in Sessions, Forget(s),
           UNCHANGED <<rows, rank, scope, prompts>>, spoils' \in 0 .. MaxSpoils
    PROVE  Steps(s)
<1>1. TableInv /\ FormInv
  BY DEF BacklogInv
<1>2. TableInv' /\ Kept
  BY <1>1, QuietTable
<1>3. /\ stage' = [stage EXCEPT ![s] = "idle"] /\ "idle" \in Stages
      /\ shown' = [shown EXCEPT ![s] = Empty] /\ word' = [word EXCEPT ![s] = Empty]
      /\ herald' = [herald EXCEPT ![s] = {}] /\ items' = [items EXCEPT ![s] = <<>>]
      /\ audits' = [audits EXCEPT ![s] = NoAudit] /\ named' = [named EXCEPT ![s] = {}]
  BY DEF Forget, Stages
<1>4. /\ stage' \in [Sessions -> Stages] /\ stage'[s] = "idle"
      /\ \A t \in Sessions \ {s} : stage'[t] = stage[t]
  BY <1>1, <1>3, StageTurns
<1>5. /\ Table(shown) /\ Table(word) /\ Table(herald) /\ Table(items) /\ Table(audits)
      /\ Table(named)
  BY <1>1 DEF FormInv
<1>6. /\ Table(shown') /\ shown'[s] = Empty /\ Table(word') /\ word'[s] = Empty
      /\ Table(herald') /\ herald'[s] = {}
      /\ \A t \in Sessions \ {s} :
            shown'[t] = shown[t] /\ word'[t] = word[t] /\ herald'[t] = herald[t]
  BY <1>3, <1>5 DEF Table
<1>7. /\ Table(items') /\ items'[s] = <<>> /\ Table(audits') /\ Table(named')
      /\ \A t \in Sessions \ {s} : items'[t] = items[t] /\ named'[t] = named[t]
  BY <1>3, <1>5 DEF Table
<1>8. FormInv'
  BY <1>1, <1>4, <1>6, <1>7 DEF FormInv
<1>9. LedgerInv(s)' /\ ItemsInv(s)'
  BY <1>4, <1>6, <1>7, ForgetsAll
<1>10. \A t \in Sessions \ {s} : Same(t)
  BY <1>4, <1>6, <1>7 DEF Same
<1> QED BY <1>2, <1>8, <1>9, <1>10 DEF Steps

LEMMA DeliverStep ==
    ASSUME BacklogInv, NEW s \in Sessions, Deliver(s) \/ Kill(s)
    PROVE  Steps(s)
<1>1. FormInv
  BY DEF BacklogInv
<1>2. CASE Deliver(s)
  BY <1>1, <1>2, ForgetStep DEF Deliver, FormInv
<1>3. CASE Kill(s)
  BY <1>1, <1>3, ForgetStep, SpoilCounts DEF Kill
<1> QED BY <1>2, <1>3

-----------------------------------------------------------------------------
(* The invariant and what it says.                                         *)

LEMMA BacklogStutters ==
    ASSUME BacklogInv, UNCHANGED <<rows, rank, scope, stage, memory, spoils>>,
           prompts' \in 0 .. MaxPrompts
    PROVE  BacklogInv'
<1>1. TableInv' /\ Kept
  BY QuietTable DEF BacklogInv
<1>2. FormInv'
  BY DEF BacklogInv, FormInv, memory
<1>3. \A t \in Sessions : Same(t)
  BY DEF Same, memory
<1> QED BY <1>1, <1>2, <1>3, OthersKeep DEF BacklogInv, SessionsInv

LEMMA NextKeepsBacklog ==
    ASSUME BacklogInv, Next
    PROVE  BacklogInv'
<1>1. ASSUME NEW s \in Sessions, Ledger(s) \/ Intake(s) \/ Kill(s)
      PROVE  Steps(s)
  <2>1. CASE Ledger(s)
    BY <2>1, PromptStep, ClassifyStep, ClassifyFailsStep, ApplyStep DEF Ledger
  <2>2. CASE Intake(s)
    BY <2>2, TrivialStep, ItemizeStep, AuditStep, RouteStep, ItemizeFailsStep, SaveStep,
       RecordScopesStep, DeliverStep DEF Intake
  <2> QED BY <1>1, <2>1, <2>2, DeliverStep
<1>2. CASE Rest
  BY <1>2, BacklogStutters DEF Rest, vars, memory, BacklogInv, FormInv
<1> QED BY <1>1, <1>2, StepKeepsBacklog DEF Next

LEMMA BacklogStarts ==
    ASSUME Init
    PROVE  BacklogInv
<1>1. TableInv
  <2>1. Ids = {} /\ rank \in Seq(1 .. MaxIntakes) /\ rows \in Seq(Row)
    BY DEF Init, Ids
  <2>2. IsInjective(rank)
    BY DEF Init, IsInjective
  <2> QED BY <2>1, <2>2 DEF TableInv
<1>2. FormInv
  <2>1. 0 \in 0 .. MaxPrompts /\ 0 \in 0 .. MaxSpoils /\ "idle" \in Stages
    BY LimitsAre DEF Stages
  <2>2. scope \in [Sessions -> SUBSET Siblings] /\ stage \in [Sessions -> Stages]
        /\ prompts \in 0 .. MaxPrompts /\ spoils \in 0 .. MaxSpoils
    BY <2>1 DEF Init
  <2>3. /\ Table(shown) /\ Table(word) /\ Table(herald) /\ Table(items) /\ Table(audits)
        /\ Table(named)
    BY DEF Init, Table
  <2> QED BY <2>2, <2>3 DEF FormInv
<1>3. ASSUME NEW s \in Sessions
      PROVE  LedgerInv(s) /\ ItemsInv(s)
  <2>1. LedgerInv(s)
    BY NothingLeft DEF Init, LedgerInv
  <2>2. ItemsInv(s)
    BY DEF Init, ItemsInv
  <2> QED BY <2>1, <2>2
<1> QED BY <1>1, <1>2, <1>3 DEF BacklogInv, SessionsInv

LEMMA BacklogIsInOrder ==
    ASSUME BacklogInv
    PROVE  BacklogInOrder
<1>1. TableInv /\ FormInv /\ \A s \in Sessions : LedgerInv(s) /\ ItemsInv(s)
  BY DEF BacklogInv, SessionsInv
<1>2. BacklogTypeOK
  BY <1>1 DEF BacklogTypeOK, TableInv, FormInv, LedgerInv, Row, Stages
<1>3. MergedIsNamed
  BY <1>1 DEF MergedIsNamed, ItemsInv, Repeats
<1> QED BY <1>1, <1>2, <1>3, CandidatesFit DEF BacklogInOrder

\* The closures of a session are the only steps that move a todo.
LEMMA MovesAreTheUsers ==
    ASSUME BacklogInv, Next
    PROVE  UserMoves
<1>1. TableInv /\ FormInv /\ \A s \in Sessions : LedgerInv(s) /\ ItemsInv(s)
  BY DEF BacklogInv, SessionsInv
<1>2. rows' = rows => UserMoves
  BY DEF UserMoves
<1>3. ASSUME NEW s \in Sessions, Ledger(s)
      PROVE  UserMoves
  <2>1. CASE Prompt(s) \/ Classify(s) \/ ClassifyFails(s)
    BY <1>2, <2>1 DEF Prompt, Classify, ClassifyFails
  <2>2. CASE Apply(s)
    <3>1. PICK i \in DOMAIN word[s] :
             \/ shown[s][i] # word[s][i] /\ Close(s, i)
             \/ Skip(s, i)
             \/ shown[s][i] # word[s][i] /\ WriteFails(s, i)
      BY <2>2 DEF Apply
    <3>2. CASE Skip(s, i) \/ WriteFails(s, i)
      BY <1>2, <3>2 DEF Skip, WriteFails
    <3>3. CASE shown[s][i] # word[s][i] /\ Close(s, i)
      <4>1. i \in Ids /\ IsTodo(i)
        BY <1>1, <3>1 DEF LedgerInv
      <4>2. /\ rows' = [rows EXCEPT ![i].status = word[s][i]]
            /\ herald' = [herald EXCEPT ![s] = @ \cup {i}]
        BY <3>3 DEF Close
      <4>3. /\ rows'[i].status = word[s][i]
            /\ \A j \in Ids : j # i => rows'[j] = rows[j]
        <5>1. rows[i] \in Row /\ i \in DOMAIN rows
          BY <1>1, <4>1, IdsAre DEF Ids
        <5>2. rows'[i] = [rows[i] EXCEPT !.status = word[s][i]]
              /\ \A j \in Ids : j # i => rows'[j] = rows[j]
          BY <4>2, <5>1 DEF Ids
        <5> QED BY <5>1, <5>2 DEF Row
      <4>4. i \in herald'[s]
        BY <1>1, <4>2 DEF FormInv, Table
      <4> QED BY <2>2, <3>1, <3>3, <4>1, <4>3, <4>4 DEF UserMoves, IsTodo, Apply
    <3> QED BY <3>1, <3>2, <3>3
  <2> QED BY <1>3, <2>1, <2>2 DEF Ledger
<1>4. ASSUME NEW s \in Sessions, Intake(s)
      PROVE  UserMoves
  <2>1. CASE Save(s)
    <3> DEFINE more == NewRows(s, Len(rank) + 1)
    <3>1. rows \in Seq(Row) /\ DOMAIN rows = 1 .. Len(rows) /\ Len(rows) \in Nat
      BY <1>1, SeqIs DEF TableInv
    <3>2. rows' = rows \o more
      BY <2>1 DEF Save
    <3>3. items[s] \in Seq(Wish) /\ DOMAIN more = 1 .. Len(items[s]) /\ Len(items[s]) \in Nat
      BY <1>1 DEF ItemsInv, NewRows
    <3>4. Len(more) = Len(items[s])
      <4>1. more = [k \in 1 .. Len(items[s]) |-> more[k]]
        BY <3>3 DEF NewRows
      <4> HIDE DEF more
      <4> QED BY <3>3, <4>1, IsSeq
    <3> HIDE DEF more
    <3>5. \A i \in Ids : rows'[i] = rows[i]
      BY <3>1, <3>2, <3>3, <3>4 DEF Ids
    <3> QED BY <3>5 DEF UserMoves
  <2>2. CASE Trivial(s) \/ Itemize(s) \/ Audit(s) \/ Route(s)
    BY <1>2, <2>2 DEF Trivial, Itemize, Audit, Route
  <2>3. CASE ItemizeFails(s) \/ RecordScopes(s) \/ Deliver(s)
    BY <1>2, <2>3 DEF ItemizeFails, RecordScopes, Deliver
  <2> QED BY <1>4, <2>1, <2>2, <2>3 DEF Intake
<1>5. ASSUME NEW s \in Sessions, Kill(s)
      PROVE  UserMoves
  BY <1>2, <1>5 DEF Kill
<1>6. CASE Rest
  BY <1>2, <1>6 DEF Rest, vars
<1> QED BY <1>3, <1>4, <1>5, <1>6 DEF Next

\* Commands and clerks leave the backlog alone.
LEMMA WorkKeepsBacklog ==
    ASSUME BacklogInv, [WorkNext]_<<vars, fenceVars>>
    PROVE  BacklogInv' /\ [UserMoves]_vars
<1>1. CASE Next
  BY <1>1, NextKeepsBacklog, MovesAreTheUsers
<1>2. CASE Acts
  <2>1. UserMoves /\ UNCHANGED <<rows, rank, scope, stage, memory, spoils>>
    BY <1>2 DEF Acts, UserMoves
  <2>2. prompts' \in 0 .. MaxPrompts
    BY <1>2, PromptCounts DEF Acts, BacklogInv
  <2> QED BY <2>1, <2>2, BacklogStutters
<1>3. CASE UNCHANGED vars
  BY <1>3, BacklogStutters DEF vars, memory, BacklogInv, FormInv
<1> QED BY <1>1, <1>2, <1>3 DEF WorkNext

\* A todo moves only by the user's word about it, whoever else is at work on
\* the project (item_ledger.py:193).
THEOREM UserMovesTodosHolds == WorkSpec => UserMovesTodos
<1>1. WorkInit => BacklogInv
  BY BacklogStarts DEF WorkInit
<1>2. BacklogInv /\ [WorkNext]_<<vars, fenceVars>> => BacklogInv' /\ [UserMoves]_vars
  BY WorkKeepsBacklog
<1> QED BY <1>1, <1>2, PTL DEF WorkSpec, UserMovesTodos

\* The backlog and the intakes in progress are in order (intake.py:431,
\* store.py:160, item_ledger.py:77).
THEOREM BacklogInOrderHolds == WorkSpec => []BacklogInOrder
<1>1. WorkInit => BacklogInv
  BY BacklogStarts DEF WorkInit
<1>2. BacklogInv /\ [WorkNext]_<<vars, fenceVars>> => BacklogInv'
  BY WorkKeepsBacklog
<1>3. BacklogInv => BacklogInOrder
  BY BacklogIsInOrder
<1> QED BY <1>1, <1>2, <1>3, PTL DEF WorkSpec

-----------------------------------------------------------------------------
(* The rules.                                                              *)

\* Which of the four rules a set of acts can break, and of what kind they are.
LEMMA RulesAre ==
    /\ DOMAIN Rules = 1 .. 4
    /\ \A act : Triggers(Rules[1], act) <=>
                   act.verb \in {"edit", "write", "create"} /\ "path" \in act.target.facets
    /\ \A act : Triggers(Rules[2], act) <=>
                   act.verb = "delete" /\ "path" \in act.target.facets
    /\ \A act : \A k \in {3, 4} : Triggers(Rules[k], act) <=>
                   act.verb = "delete" /\ "code" \in act.target.facets
    /\ Rules[1].kind = "scope_fence" /\ Rules[2].kind = "scope_fence"
    /\ Rules[3].kind = "require_evidence" /\ Rules[4].kind = "predicate"
    /\ Rules[1].severity = "warn" /\ \A k \in 2 .. 4 : Rules[k].severity = "block"
<1>1. DOMAIN Rules = 1 .. 4
  BY DEF Rules
<1>2. /\ Rules[1] = [id |-> "stay-in-project-focus", kind |-> "scope_fence",
                     verbs |-> {"edit", "write", "create"}, facet |-> "path",
                     severity |-> "warn"]
      /\ Rules[2] = [id |-> "no-cross-project-delete", kind |-> "scope_fence",
                     verbs |-> {"delete"}, facet |-> "path", severity |-> "block"]
      /\ Rules[3] = [id |-> "no-unwired-delete", kind |-> "require_evidence",
                     verbs |-> {"delete"}, facet |-> "code", severity |-> "block"]
      /\ Rules[4] = [id |-> "disposition-coherent", kind |-> "predicate",
                     verbs |-> {"delete"}, facet |-> "code", severity |-> "block"]
  BY DEF Rules
<1>3. \A k \in 2 .. 4 : k = 2 \/ k = 3 \/ k = 4
  OBVIOUS
<1> QED BY <1>1, <1>2, <1>3 DEF Triggers

\* Of the rules, two are about scope.
LEMMA ScopeRulesAre ==
    /\ Rules[1].id \in ScopeFenceRuleIds /\ Rules[2].id \in ScopeFenceRuleIds
    /\ Rules[3].id \notin ScopeFenceRuleIds /\ Rules[4].id \notin ScopeFenceRuleIds
<1>1. /\ Rules[1].id = "stay-in-project-focus" /\ Rules[2].id = "no-cross-project-delete"
      /\ Rules[3].id = "no-unwired-delete" /\ Rules[4].id = "disposition-coherent"
  BY DEF Rules
<1>2. \A k \in 1 .. 4 : k = 1 \/ k = 2 \/ k = 3 \/ k = 4
  OBVIOUS
<1>3. {k \in DOMAIN Rules : Rules[k].kind = "scope_fence"} = {1, 2}
  BY <1>2, RulesAre
<1>4. ScopeFenceRuleIds = {Rules[1].id, Rules[2].id}
  BY <1>3 DEF ScopeFenceRuleIds
<1> QED BY <1>1, <1>4

Against(act, roots) ==
    {k \in DOMAIN Rules : Triggers(Rules[k], act) /\ ~Satisfied(Rules[k], act, roots)}

\* What it takes to break each of the rules.
LEMMA BreaksRules ==
    ASSUME NEW act, NEW roots
    PROVE  /\ Against(act, roots) \subseteq 1 .. 4
           /\ 1 \in Against(act, roots) <=>
                /\ act.verb \in {"edit", "write", "create"} /\ "path" \in act.target.facets
                /\ ~act.evidence.cross /\ ~Inside(roots, act.target)
                /\ ~Under(Scratch, act.target.dir)
           /\ 2 \in Against(act, roots) <=>
                /\ act.verb = "delete" /\ "path" \in act.target.facets
                /\ ~act.evidence.cross /\ ~Inside(roots, act.target)
           /\ 3 \in Against(act, roots) <=>
                /\ act.verb = "delete" /\ "code" \in act.target.facets
                /\ act.evidence.disposition = "none"
           /\ 4 \in Against(act, roots) <=>
                /\ act.verb = "delete" /\ "code" \in act.target.facets
                /\ act.evidence.disposition # "named"
<1>1. 1 \in 1 .. 4 /\ 2 \in 1 .. 4 /\ 3 \in 1 .. 4 /\ 4 \in 1 .. 4
  OBVIOUS
<1>2. \A k \in 1 .. 2 : Satisfied(Rules[k], act, roots) <=>
         \/ act.evidence.cross \/ Inside(roots, act.target)
         \/ act.verb # "delete" /\ Under(Scratch, act.target.dir)
  <2>1. ASSUME NEW k \in 1 .. 2 PROVE Rules[k].kind = "scope_fence"
    <3>1. k = 1 \/ k = 2
      OBVIOUS
    <3> QED BY <3>1, RulesAre
  <2> QED BY <2>1 DEF Satisfied
<1>3. Satisfied(Rules[3], act, roots) <=> act.evidence.disposition # "none"
  BY RulesAre DEF Satisfied
<1>4. Satisfied(Rules[4], act, roots) <=> act.evidence.disposition = "named"
  BY RulesAre DEF Satisfied
<1>5. Against(act, roots) \subseteq 1 .. 4
  BY RulesAre DEF Against
<1>6. \A k \in 1 .. 4 : k \in Against(act, roots) <=>
         Triggers(Rules[k], act) /\ ~Satisfied(Rules[k], act, roots)
  BY RulesAre DEF Against
<1>7. 1 \in 1 .. 2 /\ 2 \in 1 .. 2
  OBVIOUS
<1> QED BY <1>1, <1>2, <1>3, <1>4, <1>5, <1>6, <1>7, RulesAre

LEMMA LeastIs ==
    ASSUME NEW S \in SUBSET Nat, S # {}
    PROVE  Min(S) \in S /\ \A y \in S : Min(S) <= y
<1>1. \E m \in S : \A y \in S : m <= y
  BY LeastOf
<1> QED BY <1>1 DEF Min

\* The verdict on one act: the warning alone lets it pass, and a block is a
\* rule of scope if the delete leaves the scope.
LEMMA EvaluateIs ==
    ASSUME NEW act, NEW roots
    PROVE  /\ Evaluate(act, roots).allowed <=> Against(act, roots) \cap 2 .. 4 = {}
           /\ Evaluate(act, roots).warned <=> Against(act, roots) # {}
           /\ ~Evaluate(act, roots).allowed =>
                (Evaluate(act, roots).rule \in ScopeFenceRuleIds <=> 2 \in Against(act, roots))
<1> DEFINE against == Against(act, roots)
           blocks == {k \in against : Rules[k].severity = "block"}
           deciding == IF blocks = {} THEN against ELSE blocks
           verdict == [allowed |-> blocks = {}, warned |-> against # {},
                       rule |-> IF against = {} THEN "none" ELSE Rules[Min(deciding)].id]
<1>1. Evaluate(act, roots) = verdict
  BY DEF Evaluate, Against
<1>2. against \subseteq 1 .. 4
  BY BreaksRules
<1> HIDE DEF against
<1>3. \A k \in 1 .. 4 : k \in 2 .. 4 <=> Rules[k].severity = "block"
  <2>1. \A k \in 1 .. 4 : k = 1 \/ k \in 2 .. 4
    OBVIOUS
  <2>2. 1 \notin 2 .. 4
    OBVIOUS
  <2> QED BY <2>1, <2>2, RulesAre
<1>4. blocks = against \cap 2 .. 4
  BY <1>2, <1>3
<1> HIDE DEF blocks
<1>5. blocks # {} => (Rules[Min(blocks)].id \in ScopeFenceRuleIds <=> 2 \in against)
  <2>1. SUFFICES ASSUME blocks # {}
                 PROVE  Rules[Min(blocks)].id \in ScopeFenceRuleIds <=> 2 \in against
    OBVIOUS
  <2>2. \A k \in blocks : k \in Nat /\ (k = 2 \/ k = 3 \/ k = 4)
    BY <1>4
  <2>3. Min(blocks) \in blocks /\ \A y \in blocks : Min(blocks) <= y
    <3>1. blocks \in SUBSET Nat
      BY <2>2
    <3> QED BY <2>1, <3>1, LeastIs
  <2>4. 2 \in against <=> 2 \in blocks
    BY <1>4
  <2>5. Min(blocks) = 2 <=> 2 \in blocks
    BY <2>2, <2>3
  <2> QED BY <2>2, <2>3, <2>4, <2>5, ScopeRulesAre
<1>6. /\ verdict.allowed = (blocks = {}) /\ verdict.warned = (against # {})
      /\ blocks # {} => verdict.rule = Rules[Min(blocks)].id
  BY <1>4
<1> HIDE DEF verdict
<1> QED BY <1>1, <1>4, <1>5, <1>6 DEF against

LEMMA GuardDecidesHolds == GuardDecides
<1> SUFFICES ASSUME NEW verb \in {"edit", "delete"}, NEW target \in Targets,
                    NEW said \in Evidence, NEW roots \in Scopes
             PROVE  Evaluate([verb |-> verb, target |-> target, evidence |-> said],
                             roots).allowed <=>
                       (verb = "delete" =>
                          /\ said.cross \/ Inside(roots, target) \/ "path" \notin target.facets
                          /\ "code" \in target.facets => said.disposition = "named")
  BY DEF GuardDecides, IsCode
<1> DEFINE act == [verb |-> verb, target |-> target, evidence |-> said]
<1>1. act.verb = verb /\ act.target = target /\ act.evidence = said
  OBVIOUS
<1> HIDE DEF act
<1>2. /\ Against(act, roots) \subseteq 1 .. 4
      /\ 2 \in Against(act, roots) <=>
            /\ verb = "delete" /\ "path" \in target.facets
            /\ ~said.cross /\ ~Inside(roots, target)
      /\ 3 \in Against(act, roots) <=>
            /\ verb = "delete" /\ "code" \in target.facets /\ said.disposition = "none"
      /\ 4 \in Against(act, roots) <=>
            /\ verb = "delete" /\ "code" \in target.facets /\ said.disposition # "named"
  BY <1>1, BreaksRules
<1>3. \A k : k \in 2 .. 4 <=> k = 2 \/ k = 3 \/ k = 4
  OBVIOUS
<1>4. Evaluate(act, roots).allowed <=> Against(act, roots) \cap 2 .. 4 = {}
  BY EvaluateIs
<1>5. Evaluate(act, roots).allowed <=>
         2 \notin Against(act, roots) /\ 3 \notin Against(act, roots)
         /\ 4 \notin Against(act, roots)
  BY <1>3, <1>4
<1>6. Evaluate(act, roots).allowed <=>
         (verb = "delete" =>
            /\ said.cross \/ Inside(roots, target) \/ "path" \notin target.facets
            /\ "code" \in target.facets => said.disposition = "named")
  BY <1>2, <1>5
<1> QED BY <1>6 DEF act

-----------------------------------------------------------------------------
(* What a tool call is read to do, and the verdict on it.                  *)

ToolAct == [verb : {"edit", "write", "delete"}, target : Files, evidence : {NoEvidence}]
ReadAct == [verb : {"none", "write", "delete"}, target : Files, evidence : {NoEvidence}]

LEMMA FilesAre ==
    ASSUME NEW target \in Files
    PROVE  /\ "path" \in target.facets /\ [target EXCEPT !.facets = {"path"}] \in Files
           /\ target.dir \in Dirs
<1>1. target \in Targets /\ "path" \in target.facets
  BY DEF Files
<1>2. [target EXCEPT !.facets = {"path"}] \in Targets
      /\ "path" \in [target EXCEPT !.facets = {"path"}].facets
  BY <1>1 DEF Targets
<1>3. target.dir \in Dirs
  BY <1>1 DEF Targets
<1> QED BY <1>1, <1>2, <1>3 DEF Files

LEMMA DoingIs ==
    ASSUME NEW verb, NEW target \in Files
    PROVE  /\ verb \in {"none", "write", "delete"} => Doing(verb, target) \in ReadAct
           /\ verb \in {"edit", "write", "delete"} => Doing(verb, target) \in ToolAct
           /\ Doing(verb, target).verb = verb /\ Doing(verb, target).target = target
BY DEF Doing, ReadAct, ToolAct

LEMMA CommandsAre ==
    ASSUME NEW call \in Calls
    PROVE  /\ call.tool \in {"edit", "write", "bash", "read"}
           /\ call.tool \in {"edit", "write"} => call.parts[1].target \in Files
           /\ call.tool = "bash" => call.parts \in Seq(Parts)
<1>1. CASE call \in [tool : {"edit", "write"},
                     parts : [1 .. 1 -> [does : {"none"}, target : Files, glued : {FALSE}]]]
  <2>1. /\ call.tool \in {"edit", "write"}
        /\ call.parts \in [1 .. 1 -> [does : {"none"}, target : Files, glued : {FALSE}]]
    BY <1>1
  <2>2. call.parts[1] \in [does : {"none"}, target : Files, glued : {FALSE}]
    <3> DEFINE P == [does : {"none"}, target : Files, glued : {FALSE}]
    <3>1. call.parts \in [1 .. 1 -> P]
      BY <2>1
    <3>2. 1 \in 1 .. 1
      OBVIOUS
    <3> HIDE DEF P
    <3>3. call.parts[1] \in P
      BY <3>1, <3>2
    <3> QED BY <3>3 DEF P
  <2>3. call.parts[1].target \in Files
    BY <2>2
  <2> QED BY <2>1, <2>3
<1>2. CASE call \in [tool : {"bash"}, parts : UNION {[1 .. n -> Parts] : n \in 0 .. MaxParts}]
  <2>1. call.tool = "bash" /\ call.parts \in UNION {[1 .. n -> Parts] : n \in 0 .. MaxParts}
    BY <1>2
  <2>2. PICK n \in 0 .. MaxParts : call.parts \in [1 .. n -> Parts]
    BY <2>1
  <2>3. /\ n \in Nat /\ call.parts = [k \in 1 .. n |-> call.parts[k]]
        /\ \A k \in 1 .. n : call.parts[k] \in Parts
    BY <2>2, FenceAssumption DEF FenceAssumption
  <2>4. call.parts \in Seq(Parts)
    BY <2>3, IsSeq
  <2> QED BY <2>1, <2>4
<1>3. CASE call \in {[tool |-> "read", parts |-> <<>>]}
  BY <1>3
<1> QED BY <1>1, <1>2, <1>3 DEF Calls

LEMMA PartsAre ==
    ASSUME NEW part \in Parts
    PROVE  part.target \in Files
BY DEF Parts

\* A command is read as acts on files, by their verbs; what it only reads and
\* what it writes to scratch is left out.
LEMMA BashActionsAre ==
    ASSUME NEW parts \in Seq(Parts)
    PROVE  BashActions(parts) \in Seq(ToolAct)
<1> DEFINE redirects == {k \in DOMAIN parts : parts[k].does = ">"}
           out == Members(parts, redirects)
           rest == Members(parts, DOMAIN parts \ redirects)
           read(k) == Doing(VerbOf(rest[HeadOf(rest, k)].does),
                            IF rest[k].glued THEN [rest[k].target EXCEPT !.facets = {"path"}]
                            ELSE rest[k].target)
           writes == [k \in DOMAIN out |-> Doing("write", out[k].target)]
           reads == [k \in DOMAIN rest |-> read(k)]
           all == writes \o reads
           places == {k \in DOMAIN all : all[k].verb # "none" /\ ~IsSink(all[k])}
<1>1. BashActions(parts) = Members(all, places)
  BY DEF BashActions
<1>2. /\ redirects \in SUBSET DOMAIN parts
      /\ DOMAIN parts \ redirects \in SUBSET DOMAIN parts
  OBVIOUS
<1> HIDE DEF redirects
<1>3. out \in Seq(Parts) /\ rest \in Seq(Parts)
  BY <1>2, MembersAre
<1> HIDE DEF out, rest
<1>4. /\ DOMAIN out = 1 .. Len(out) /\ Len(out) \in Nat
      /\ DOMAIN rest = 1 .. Len(rest) /\ Len(rest) \in Nat
      /\ \A k \in 1 .. Len(out) : out[k] \in Parts
      /\ \A k \in 1 .. Len(rest) : rest[k] \in Parts
  BY <1>3, SeqIs
<1>5. writes \in Seq(ReadAct)
  <2>1. ASSUME NEW k \in 1 .. Len(out) PROVE writes[k] \in ReadAct
    <3>1. writes[k] = Doing("write", out[k].target) /\ out[k].target \in Files
      BY <1>4, PartsAre
    <3> HIDE DEF writes
    <3> QED BY <3>1, DoingIs
  <2>2. writes = [k \in 1 .. Len(out) |-> writes[k]]
    BY <1>4
  <2> HIDE DEF writes
  <2> QED BY <1>4, <2>1, <2>2, IsSeq
<1>6. reads \in Seq(ReadAct)
  <2>1. ASSUME NEW k \in 1 .. Len(rest) PROVE reads[k] \in ReadAct
    <3> DEFINE verb == VerbOf(rest[HeadOf(rest, k)].does)
               target == IF rest[k].glued THEN [rest[k].target EXCEPT !.facets = {"path"}]
                         ELSE rest[k].target
    <3>1. reads[k] = Doing(verb, target)
      BY <1>4
    <3>2. verb \in {"none", "write", "delete"}
      BY DEF VerbOf
    <3>3. target \in Files
      <4>1. rest[k].target \in Files
        BY <1>4, PartsAre
      <4> QED BY <4>1, FilesAre
    <3> HIDE DEF reads, verb, target
    <3> QED BY <3>1, <3>2, <3>3, DoingIs
  <2>2. reads = [k \in 1 .. Len(rest) |-> reads[k]]
    BY <1>4
  <2> HIDE DEF reads
  <2> QED BY <1>4, <2>1, <2>2, IsSeq
<1> HIDE DEF writes, reads
<1>7. all \in Seq(ReadAct)
  BY <1>5, <1>6, ConcatIs
<1> HIDE DEF all
<1>8. \A k \in DOMAIN all : all[k] \in ReadAct
  BY <1>7
<1>9. places \in SUBSET DOMAIN all /\ \A k \in places : all[k] \in ToolAct
  BY <1>8 DEF ReadAct, ToolAct
<1> HIDE DEF places
<1>10. /\ Cardinality(places) \in Nat
       /\ Members(all, places) \in [1 .. Cardinality(places) -> {all[i] : i \in places}]
  BY <1>7, <1>9, MembersAre
<1>11. Members(all, places) \in [1 .. Cardinality(places) -> ToolAct]
  BY <1>9, <1>10
<1>12. Members(all, places) \in Seq(ToolAct)
  BY <1>10, <1>11
<1> QED BY <1>1, <1>12

LEMMA CallActs ==
    ASSUME NEW call \in Calls
    PROVE  ActionsFromTool(call) \in Seq(ToolAct)
<1>1. CASE call.tool = "read"
  BY <1>1 DEF ActionsFromTool
<1>2. CASE call.tool = "bash"
  <2>1. ActionsFromTool(call) = BashActions(call.parts)
    BY <1>2 DEF ActionsFromTool
  <2> QED BY <1>2, <2>1, CommandsAre, BashActionsAre
<1>3. CASE call.tool \in {"edit", "write"}
  <2>1. ActionsFromTool(call) = <<Doing(call.tool, call.parts[1].target)>>
    BY <1>3 DEF ActionsFromTool
  <2>2. Doing(call.tool, call.parts[1].target) \in ToolAct
    BY <1>3, CommandsAre, DoingIs
  <2> HIDE DEF ToolAct
  <2> QED BY <2>1, <2>2
<1> QED BY <1>1, <1>2, <1>3, CommandsAre

LEMMA ActsAre ==
    ASSUME NEW acts \in Deeds
    PROVE  /\ acts \in Seq(ToolAct) /\ DOMAIN acts = 1 .. Len(acts)
           /\ \A k \in DOMAIN acts : acts[k] \in ToolAct
<1>1. acts \in Seq(ToolAct)
  BY CallActs DEF Deeds
<1> QED BY <1>1, SeqIs

Stray(act, roots) == ~Inside(roots, act.target)

\* The verdict on an act of a tool, which brings no evidence.
LEMMA ToolVerdict ==
    ASSUME NEW act \in ToolAct, NEW roots
    PROVE  /\ ~Evaluate(act, roots).allowed <=>
                act.verb = "delete" /\ (Stray(act, roots) \/ IsCode(act))
           /\ Evaluate(act, roots).warned <=>
                \/ ~Evaluate(act, roots).allowed
                \/ act.verb # "delete" /\ Stray(act, roots) /\ ~Under(Scratch, act.target.dir)
           /\ ~Evaluate(act, roots).allowed =>
                (Evaluate(act, roots).rule \in ScopeFenceRuleIds <=> Stray(act, roots))
<1>1. /\ act.verb \in {"edit", "write", "delete"} /\ "path" \in act.target.facets
      /\ ~act.evidence.cross /\ act.evidence.disposition = "none"
  <2>1. /\ act.verb \in {"edit", "write", "delete"} /\ act.target \in Files
        /\ act.evidence = NoEvidence
    BY DEF ToolAct
  <2>2. "path" \in act.target.facets
    BY <2>1, FilesAre
  <2>3. ~NoEvidence.cross
    BY DEF NoEvidence
  <2>4. NoEvidence.disposition = "none"
    BY DEF NoEvidence
  <2> QED BY <2>1, <2>2, <2>3, <2>4
<1>2. /\ Against(act, roots) \subseteq 1 .. 4
      /\ 1 \in Against(act, roots) <=>
           act.verb # "delete" /\ Stray(act, roots) /\ ~Under(Scratch, act.target.dir)
      /\ 2 \in Against(act, roots) <=> act.verb = "delete" /\ Stray(act, roots)
      /\ 3 \in Against(act, roots) <=> act.verb = "delete" /\ IsCode(act)
      /\ 4 \in Against(act, roots) <=> act.verb = "delete" /\ IsCode(act)
  BY <1>1, BreaksRules DEF Stray, IsCode
<1>3. \A k : k \in 2 .. 4 <=> k = 2 \/ k = 3 \/ k = 4
  OBVIOUS
<1>4. \A k \in 1 .. 4 : k = 1 \/ k = 2 \/ k = 3 \/ k = 4
  OBVIOUS
<1>5. Against(act, roots) \cap 2 .. 4 = {} <=>
         2 \notin Against(act, roots) /\ 3 \notin Against(act, roots)
         /\ 4 \notin Against(act, roots)
  BY <1>3
<1>6. Against(act, roots) # {} <=>
         \/ 1 \in Against(act, roots) \/ 2 \in Against(act, roots)
         \/ 3 \in Against(act, roots) \/ 4 \in Against(act, roots)
  BY <1>2, <1>4
<1>7. ~Evaluate(act, roots).allowed <=>
         act.verb = "delete" /\ (Stray(act, roots) \/ IsCode(act))
  BY <1>2, <1>5, EvaluateIs
<1>8. Evaluate(act, roots).warned <=>
         \/ ~Evaluate(act, roots).allowed
         \/ act.verb # "delete" /\ Stray(act, roots) /\ ~Under(Scratch, act.target.dir)
  BY <1>2, <1>6, <1>7, EvaluateIs
<1>9. ~Evaluate(act, roots).allowed =>
         (Evaluate(act, roots).rule \in ScopeFenceRuleIds <=> Stray(act, roots))
  BY <1>2, <1>7, EvaluateIs
<1> QED BY <1>7, <1>8, <1>9

-----------------------------------------------------------------------------
(* The answer of the hook.                                                 *)

Blocked(acts, roots) ==
    {k \in DOMAIN acts : ~Evaluate(acts[k], roots).allowed}
Warned(acts, roots) ==
    {k \in DOMAIN acts : Evaluate(acts[k], roots).warned}

LEMMA PlacesAre ==
    ASSUME NEW acts \in Deeds, NEW S \in SUBSET DOMAIN acts, S # {}
    PROVE  Min(S) \in S /\ \A y \in S : Min(S) <= y
<1>1. S \in SUBSET Nat
  BY ActsAre
<1> QED BY <1>1, LeastIs

\* The first act that blocks decides, else the first that warns.
LEMMA GateIs ==
    ASSUME NEW acts \in Deeds, NEW roots
    PROVE  LET verdict == GateToolCall(acts, roots)
           IN /\ Blocked(acts, roots) = {} <=> verdict.allowed
              /\ Blocked(acts, roots) = {} => (Warned(acts, roots) = {} <=> ~verdict.warned)
              /\ Blocked(acts, roots) # {} =>
                   (verdict.rule \in ScopeFenceRuleIds <=>
                       Stray(acts[Min(Blocked(acts, roots))], roots))
<1> DEFINE verdicts == [k \in DOMAIN acts |-> Evaluate(acts[k], roots)]
           blocked == {k \in DOMAIN acts : ~verdicts[k].allowed}
           warned == {k \in DOMAIN acts : verdicts[k].warned}
           verdict == GateToolCall(acts, roots)
<1>1. verdict = IF blocked # {} THEN verdicts[Min(blocked)]
                ELSE IF warned # {} THEN verdicts[Min(warned)]
                ELSE [allowed |-> TRUE, warned |-> FALSE, rule |-> "none"]
  BY DEF GateToolCall
<1>2. \A k \in DOMAIN acts : acts[k] \in ToolAct /\ verdicts[k] = Evaluate(acts[k], roots)
  BY ActsAre
<1>3. blocked = Blocked(acts, roots) /\ warned = Warned(acts, roots)
  BY <1>2 DEF Blocked, Warned
<1>4. blocked \in SUBSET DOMAIN acts /\ warned \in SUBSET DOMAIN acts
  OBVIOUS
<1>5. /\ blocked # {} => Min(blocked) \in blocked
      /\ warned # {} => Min(warned) \in warned
  <2> HIDE DEF blocked, warned
  <2> QED BY <1>4, PlacesAre
<1>6. \A k \in DOMAIN acts : (k \in blocked <=> ~Evaluate(acts[k], roots).allowed)
                             /\ (k \in warned <=> Evaluate(acts[k], roots).warned)
  BY <1>2
<1> HIDE DEF verdicts, verdict, blocked, warned
<1>7. CASE blocked # {}
  <2>1. verdict = Evaluate(acts[Min(blocked)], roots) /\ Min(blocked) \in DOMAIN acts
    BY <1>1, <1>2, <1>4, <1>5, <1>7
  <2>2. acts[Min(blocked)] \in ToolAct /\ ~Evaluate(acts[Min(blocked)], roots).allowed
    BY <1>2, <1>5, <1>6, <1>7, <2>1
  <2>3. verdict.rule \in ScopeFenceRuleIds <=> Stray(acts[Min(blocked)], roots)
    BY <2>1, <2>2, ToolVerdict
  <2>4. ~verdict.allowed
    BY <2>1, <2>2
  <2> QED BY <1>3, <1>7, <2>3, <2>4 DEF verdict
<1>8. CASE blocked = {} /\ warned # {}
  <2>1. verdict = Evaluate(acts[Min(warned)], roots) /\ Min(warned) \in DOMAIN acts
    BY <1>1, <1>2, <1>4, <1>5, <1>8
  <2>2. verdict.allowed /\ verdict.warned
    BY <1>5, <1>6, <1>8, <2>1
  <2> QED BY <1>3, <1>8, <2>2 DEF verdict
<1>9. CASE blocked = {} /\ warned = {}
  <2>1. verdict = [allowed |-> TRUE, warned |-> FALSE, rule |-> "none"]
    BY <1>1, <1>9
  <2>2. verdict.allowed /\ ~verdict.warned
    BY <2>1
  <2> QED BY <1>3, <1>9, <2>2 DEF verdict
<1> QED BY <1>7, <1>8, <1>9

LEMMA AnswerIs ==
    ASSUME NEW acts \in Deeds, NEW roots, NEW held
    PROVE  LET answer == Answer(acts, roots, held)
           IN /\ answer = "pass" <=> Blocked(acts, roots) = {} /\ Warned(acts, roots) = {}
              /\ answer \in {"deny", "granted"} <=> Blocked(acts, roots) # {}
              /\ answer = "granted" <=>
                   /\ Blocked(acts, roots) # {}
                   /\ Stray(acts[Min(Blocked(acts, roots))], roots)
                   /\ AuthorizeTool(acts, held)
<1> DEFINE verdict == GateToolCall(acts, roots)
           sanctioned == AuthorizeTool(acts, held)
           stray == Stray(acts[Min(Blocked(acts, roots))], roots)
<1>1. /\ Blocked(acts, roots) = {} <=> verdict.allowed
      /\ Blocked(acts, roots) = {} => (Warned(acts, roots) = {} <=> ~verdict.warned)
      /\ Blocked(acts, roots) # {} => (verdict.rule \in ScopeFenceRuleIds <=> stray)
  BY GateIs
<1>2. Answer(acts, roots, held) =
         CASE verdict.allowed /\ ~verdict.warned -> "pass"
           [] verdict.allowed /\ verdict.warned -> IF sanctioned THEN "notice" ELSE "alert"
           [] ~verdict.allowed ->
                IF verdict.rule \in ScopeFenceRuleIds /\ sanctioned THEN "granted" ELSE "deny"
  BY DEF Answer
<1> HIDE DEF verdict, sanctioned, stray
<1>3. CASE Blocked(acts, roots) # {}
  <2>1. Answer(acts, roots, held) =
           IF verdict.rule \in ScopeFenceRuleIds /\ sanctioned THEN "granted" ELSE "deny"
    BY <1>1, <1>2, <1>3
  <2> QED BY <1>1, <1>3, <2>1 DEF stray, sanctioned
<1>4. CASE Blocked(acts, roots) = {}
  <2>1. Answer(acts, roots, held) =
           IF ~verdict.warned THEN "pass" ELSE IF sanctioned THEN "notice" ELSE "alert"
    BY <1>1, <1>2, <1>4
  <2> QED BY <1>1, <1>4, <2>1
<1> QED BY <1>3, <1>4

\* Which acts of a call block it, and which are at least warned of.
LEMMA ActsBlock ==
    ASSUME NEW acts \in Deeds, NEW roots, NEW k \in DOMAIN acts
    PROVE  LET act == acts[k]
           IN /\ act.verb \in {"edit", "write", "delete"}
              /\ k \in Blocked(acts, roots) <=>
                    act.verb = "delete" /\ (Stray(act, roots) \/ IsCode(act))
              /\ k \in Warned(acts, roots) <=>
                   \/ k \in Blocked(acts, roots)
                   \/ act.verb # "delete" /\ Stray(act, roots) /\ ~Under(Scratch, act.target.dir)
<1>1. acts[k] \in ToolAct
  BY ActsAre
<1>2. acts[k].verb \in {"edit", "write", "delete"}
  BY <1>1 DEF ToolAct
<1> QED BY <1>1, <1>2, ToolVerdict DEF Blocked, Warned

LEMMA GrantsCover ==
    ASSUME NEW acts \in Deeds, NEW roots \in Scopes, NEW grants,
           AuthorizeTool(acts, grants), NEW k \in DOMAIN acts,
           Stray(acts[k], roots)
    PROVE  \A dir \in {Root, acts[k].target.dir} :
              \E r \in AuthorizedRoots(grants) : Under(r, dir)
<1> DEFINE act == acts[k]
<1>1. Under(Root, act.target.dir) \/ IsAuthorized(act.target, grants)
  BY DEF AuthorizeTool
<1>2. ~Under(Root, act.target.dir)
  BY DEF Stray, Inside, Scopes
<1> HIDE DEF act
<1>3. /\ \E r \in AuthorizedRoots(grants) : Under(r, Root)
      /\ \E r \in AuthorizedRoots(grants) : Under(r, act.target.dir)
  BY <1>1, <1>2 DEF IsAuthorized
<1> QED BY <1>3 DEF act

\* What an agent grants itself opens nothing.
LEMMA OwnGrantsDoNotCount ==
    ASSUME NEW acts, NEW roots, NEW grants
    PROVE  Answer(acts, roots, grants) = Answer(acts, roots, {g \in grants : g.user})
<1> DEFINE users == {g \in grants : g.user}
<1>1. AuthorizedRoots(users) = AuthorizedRoots(grants)
  <2>1. {h \in users : h.mine /\ h.user} = {h \in grants : h.mine /\ h.user}
    OBVIOUS
  <2> QED BY <2>1 DEF AuthorizedRoots
<1> HIDE DEF users
<1>2. \A target : IsAuthorized(target, users) <=> IsAuthorized(target, grants)
  BY <1>1 DEF IsAuthorized
<1>3. AuthorizeTool(acts, users) <=> AuthorizeTool(acts, grants)
  BY <1>2 DEF AuthorizeTool
<1>4. AuthorizeTool(acts, users) = AuthorizeTool(acts, grants)
  BY <1>3 DEF AuthorizeTool
<1> QED BY <1>4 DEF Answer, users

LEMMA JustifiedHolds ==
    ASSUME NEW acts \in Deeds, NEW roots \in Scopes, NEW grants
    PROVE  Justified(acts, roots, grants)
<1> DEFINE answer == Answer(acts, roots, grants)
           stray(k) == ~Inside(roots, acts[k].target)
           by_user == UNION {g.roots : g \in {h \in grants : h.user /\ h.mine}}
           blocked == Blocked(acts, roots)
           first == Min(blocked)
<1>1. by_user = AuthorizedRoots(grants)
  <2>1. {h \in grants : h.user /\ h.mine} = {h \in grants : h.mine /\ h.user}
    OBVIOUS
  <2> QED BY <2>1 DEF AuthorizedRoots
<1>2. /\ answer = "pass" <=> blocked = {} /\ Warned(acts, roots) = {}
      /\ answer \in {"deny", "granted"} <=> blocked # {}
      /\ answer = "granted" <=> blocked # {} /\ stray(first) /\ AuthorizeTool(acts, grants)
  BY AnswerIs DEF Stray
<1>3. \A k \in DOMAIN acts :
         /\ acts[k].verb \in {"edit", "write", "delete"}
         /\ k \in blocked <=> acts[k].verb = "delete" /\ (stray(k) \/ IsCode(acts[k]))
         /\ k \in Warned(acts, roots) <=>
              \/ k \in blocked
              \/ acts[k].verb # "delete" /\ stray(k) /\ ~Under(Scratch, acts[k].target.dir)
  BY ActsBlock DEF Stray
<1>4. blocked \subseteq DOMAIN acts /\ \A k \in DOMAIN acts : k \in Nat
  BY ActsAre DEF Blocked
<1>5. blocked # {} => first \in blocked /\ \A y \in blocked : first <= y
  BY <1>4, PlacesAre
<1>6. AuthorizeTool(acts, grants) => \A k \in DOMAIN acts : stray(k) =>
         \A dir \in {Root, acts[k].target.dir} : \E r \in by_user : Under(r, dir)
  <2> SUFFICES ASSUME AuthorizeTool(acts, grants), NEW k \in DOMAIN acts, stray(k)
               PROVE  \A dir \in {Root, acts[k].target.dir} : \E r \in by_user : Under(r, dir)
    OBVIOUS
  <2>1. Stray(acts[k], roots)
    BY DEF Stray
  <2> QED BY <1>1, <2>1, GrantsCover
<1>7. answer = Answer(acts, roots, {g \in grants : g.user})
  BY OwnGrantsDoNotCount
<1> HIDE DEF answer, stray, by_user, blocked, first
<1>8. answer = "deny" => \E k \in Deletes(acts) : stray(k) \/ IsCode(acts[k])
  BY <1>2, <1>3, <1>4, <1>5 DEF Deletes
<1>9. ASSUME answer # "deny", NEW k \in Deletes(acts)
      PROVE  /\ stray(k) => \A dir \in {Root, acts[k].target.dir} :
                              \E r \in by_user : Under(r, dir)
             /\ IsCode(acts[k]) => \E j \in Deletes(acts) : j <= k /\ stray(j)
  <2>1. k \in DOMAIN acts /\ acts[k].verb = "delete" /\ k \in Nat
    BY <1>4 DEF Deletes
  <2>2. stray(k) \/ IsCode(acts[k]) => k \in blocked /\ answer = "granted"
    BY <1>2, <1>3, <1>9, <2>1
  <2>3. stray(k) => \A dir \in {Root, acts[k].target.dir} : \E r \in by_user : Under(r, dir)
    BY <1>2, <1>6, <2>1, <2>2
  <2>4. ASSUME IsCode(acts[k])
        PROVE  \E j \in Deletes(acts) : j <= k /\ stray(j)
    <3>1. k \in blocked /\ stray(first) /\ first \in blocked /\ first <= k
      BY <1>2, <1>5, <2>2, <2>4
    <3>2. first \in Deletes(acts)
      BY <1>3, <1>4, <3>1 DEF Deletes
    <3> QED BY <3>1, <3>2
  <2> QED BY <2>3, <2>4
<1>10. answer = "pass" => \A k \in DOMAIN acts : ~stray(k) \/ Under(Scratch, acts[k].target.dir)
  BY <1>2, <1>3
<1>11. /\ answer = "deny" => \E k \in Deletes(acts) : stray(k) \/ IsCode(acts[k])
       /\ answer # "deny" => \A k \in Deletes(acts) :
            /\ stray(k) => \A dir \in {Root, acts[k].target.dir} :
                              \E r \in by_user : Under(r, dir)
            /\ IsCode(acts[k]) => \E j \in Deletes(acts) : j <= k /\ stray(j)
       /\ answer = "pass" => \A k \in DOMAIN acts :
            ~stray(k) \/ Under(Scratch, acts[k].target.dir)
       /\ answer = Answer(acts, roots, {g \in grants : g.user})
  BY <1>7, <1>8, <1>9, <1>10
<1> QED BY <1>11 DEF Justified, answer, stray, by_user

LEMMA NarrowerIsStricterHolds == NarrowerIsStricter
<1> SUFFICES ASSUME NEW acts \in Deeds, NEW roots \in Scopes,
                    Answer(acts, {Root}, {}) = "pass"
             PROVE  Answer(acts, roots, {}) = "pass"
  BY DEF NarrowerIsStricter
<1>1. Blocked(acts, {Root}) = {} /\ Warned(acts, {Root}) = {}
  BY AnswerIs
<1>2. \A act : Stray(act, roots) => Stray(act, {Root})
  BY DEF Stray, Inside, Scopes
<1>3. Blocked(acts, roots) = {} /\ Warned(acts, roots) = {}
  <2>1. ASSUME NEW k \in DOMAIN acts
        PROVE  k \notin Blocked(acts, roots) /\ k \notin Warned(acts, roots)
    <3>1. k \notin Blocked(acts, {Root}) /\ k \notin Warned(acts, {Root})
      BY <1>1
    <3> DEFINE act == acts[k]
    <3>2. /\ k \in Blocked(acts, roots) <=>
               act.verb = "delete" /\ (Stray(act, roots) \/ IsCode(act))
          /\ k \in Warned(acts, roots) <=>
               \/ k \in Blocked(acts, roots)
               \/ act.verb # "delete" /\ Stray(act, roots) /\ ~Under(Scratch, act.target.dir)
      BY ActsBlock
    <3>3. /\ k \in Blocked(acts, {Root}) <=>
               act.verb = "delete" /\ (Stray(act, {Root}) \/ IsCode(act))
          /\ k \in Warned(acts, {Root}) <=>
               \/ k \in Blocked(acts, {Root})
               \/ act.verb # "delete" /\ Stray(act, {Root}) /\ ~Under(Scratch, act.target.dir)
      BY ActsBlock
    <3> HIDE DEF act
    <3> QED BY <1>2, <3>1, <3>2, <3>3
  <2> QED BY <2>1 DEF Blocked, Warned
<1> QED BY <1>3, AnswerIs

LEMMA NothingFaulty ==
    ASSUME NEW roots \in Scopes, NEW grants
    PROVE  <<roots, grants>> \notin Faulty
<1>1. ASSUME NEW others \in Scopes PROVE Faults(others) = {}
  BY JustifiedHolds DEF Faults
<1> QED BY <1>1 DEF Faulty

-----------------------------------------------------------------------------
(* The files the gate reads.                                               *)

IsGrantJob(job) ==
    /\ job = [file |-> "grants", at |-> job.at, copy |-> job.copy, adds |-> job.adds]
    /\ job.at \in {"loaded", "staged"} /\ job.copy \subseteq Offers
Named(roots) == \A slug \in DOMAIN roots : roots[slug] \in Clones /\ SlugOf(roots[slug]) = slug

IsRegistryJob(job) ==
    /\ job = [file |-> "registry", copy |-> job.copy, slug |-> job.slug]
    /\ Named(job.copy)

\* Whoever writes over whom, the grants are on offer and the names are those of
\* clones.
HandsInv ==
    /\ hand = [c \in Clerks |-> hand[c]]
    /\ \A c \in Clerks : hand[c] = NoHand \/ IsGrantJob(hand[c]) \/ IsRegistryJob(hand[c])
    /\ granted \subseteq Offers /\ staged \subseteq SUBSET Offers
    /\ Named(known)

\* Each file has one clerk at most, who holds it as it is, with his change.
AloneInv ==
    /\ \A c, d \in Clerks : hand[c] # NoHand /\ hand[c].file = hand[d].file => c = d
    /\ granted = meant.grants /\ DOMAIN known = meant.slugs
    /\ \A c \in Clerks : hand[c].file = "grants" =>
         /\ hand[c].copy = IF hand[c].adds = {} THEN {} ELSE granted \cup hand[c].adds
         /\ hand[c].at = "staged" => staged = {hand[c].copy}
    /\ \A c \in Clerks : hand[c].file = "registry" =>
         DOMAIN hand[c].copy = DOMAIN known \cup {hand[c].slug}

FilesInv ==
    /\ HandsInv /\ meant = [grants |-> meant.grants, slugs |-> meant.slugs]
    /\ clash \in BOOLEAN /\ (~clash => AloneInv)

LEMMA JobsDiffer ==
    /\ NoHand.file = "none"
    /\ \A job : IsGrantJob(job) => job.file = "grants" /\ job # NoHand
    /\ \A job : IsRegistryJob(job) => job.file = "registry" /\ job # NoHand
BY DEF NoHand, IsGrantJob, IsRegistryJob

LEMMA FilesStart ==
    ASSUME FenceInit
    PROVE  FilesInv
<1>1. HandsInv
  <2>1. Named(NoRoots)
    BY DEF Named, NoRoots
  <2> QED BY <2>1 DEF FenceInit, HandsInv
<1>2. AloneInv
  BY JobsDiffer DEF FenceInit, AloneInv, NoRoots
<1> QED BY <1>1, <1>2 DEF FenceInit, FilesInv

\* A clerk loads a file; if another is at work on it, they clash.
LEMMA TakesKeeps ==
    ASSUME FilesInv, NEW c \in Clerks, NEW job, Takes(c, job),
           IsGrantJob(job) \/ IsRegistryJob(job),
           job.file = "grants" =>
             job.copy = (IF job.adds = {} THEN {} ELSE granted \cup job.adds)
             /\ job.at = "loaded",
           job.file = "registry" => DOMAIN job.copy = DOMAIN known \cup {job.slug}
    PROVE  FilesInv'
<1>1. /\ hand[c] = NoHand /\ hand' = [hand EXCEPT ![c] = job]
      /\ clash' = (clash \/ \E d \in Clerks : hand[d].file = job.file)
      /\ UNCHANGED <<granted, staged, known, moved, meant>>
  BY DEF Takes
<1>2. /\ hand' = [d \in Clerks |-> hand'[d]] /\ hand'[c] = job
      /\ \A d \in Clerks \ {c} : hand'[d] = hand[d]
  BY <1>1 DEF FilesInv, HandsInv
<1>3. HandsInv'
  BY <1>1, <1>2 DEF FilesInv, HandsInv
<1>4. clash' \in BOOLEAN
  BY <1>1 DEF FilesInv
<1>5. ASSUME ~clash' PROVE AloneInv'
  <2>1. AloneInv /\ \A d \in Clerks : hand[d].file # job.file
    BY <1>1, <1>5 DEF FilesInv
  <2>2. job # NoHand /\ (job.file = "grants" \/ job.file = "registry")
    BY JobsDiffer
  <2>3. \A d, e \in Clerks : hand'[d] # NoHand /\ hand'[d].file = hand'[e].file => d = e
    BY <1>2, <2>1, <2>2 DEF AloneInv
  <2>4. \A d \in Clerks : hand'[d].file = "grants" =>
          /\ hand'[d].copy = IF hand'[d].adds = {} THEN {} ELSE granted' \cup hand'[d].adds
          /\ hand'[d].at = "staged" => staged' = {hand'[d].copy}
    BY <1>1, <1>2, <2>1 DEF AloneInv
  <2>5. \A d \in Clerks : hand'[d].file = "registry" =>
          DOMAIN hand'[d].copy = DOMAIN known' \cup {hand'[d].slug}
    BY <1>1, <1>2, <2>1 DEF AloneInv
  <2>6. granted' = meant'.grants /\ DOMAIN known' = meant'.slugs
    BY <1>1, <2>1 DEF AloneInv
  <2> QED BY <2>3, <2>4, <2>5, <2>6 DEF AloneInv
<1> QED BY <1>1, <1>3, <1>4, <1>5 DEF FilesInv

LEMMA LearntIs ==
    ASSUME NEW roots, NEW dir \in Clones, Named(roots)
    PROVE  /\ DOMAIN Learnt(roots, dir) = DOMAIN roots \cup {SlugOf(dir)}
           /\ Named(Learnt(roots, dir))
BY DEF Learnt, Named

LEMMA CommandKeeps ==
    ASSUME FilesInv, NEW c \in Clerks, Command(c)
    PROVE  FilesInv'
<1>1. ASSUME NEW offer \in Offers, Granting(c, offer)
      PROVE  FilesInv'
  <2> DEFINE job == [file |-> "grants", at |-> "loaded", copy |-> granted \cup {offer},
                     adds |-> {offer}]
  <2>1. IsGrantJob(job)
    BY DEF IsGrantJob, FilesInv, HandsInv
  <2>2. /\ job.file = "grants" /\ job.at = "loaded"
        /\ job.copy = IF job.adds = {} THEN {} ELSE granted \cup job.adds
    OBVIOUS
  <2>3. Takes(c, job)
    BY <1>1 DEF Granting
  <2> HIDE DEF job
  <2> QED BY <2>1, <2>2, <2>3, TakesKeeps
<1>2. CASE Revoking(c)
  <2> DEFINE job == [file |-> "grants", at |-> "loaded", copy |-> {}, adds |-> {}]
  <2>1. IsGrantJob(job)
    BY DEF IsGrantJob
  <2>2. /\ job.file = "grants" /\ job.at = "loaded"
        /\ job.copy = IF job.adds = {} THEN {} ELSE granted \cup job.adds
    OBVIOUS
  <2>3. Takes(c, job)
    BY <1>2 DEF Revoking
  <2> HIDE DEF job
  <2> QED BY <2>1, <2>2, <2>3, TakesKeeps
<1>3. ASSUME NEW dir \in Clones, Registering(c, dir)
      PROVE  FilesInv'
  <2> DEFINE job == [file |-> "registry", copy |-> Learnt(known, dir), slug |-> SlugOf(dir)]
  <2>1. /\ job.file = "registry" /\ job.copy = Learnt(known, dir) /\ job.slug = SlugOf(dir)
        /\ job = [file |-> "registry", copy |-> job.copy, slug |-> job.slug]
        /\ Takes(c, job)
    BY <1>3 DEF Registering
  <2> HIDE DEF job
  <2>2. DOMAIN Learnt(known, dir) = DOMAIN known \cup {SlugOf(dir)} /\ Named(Learnt(known, dir))
    BY LearntIs DEF FilesInv, HandsInv
  <2>3. IsRegistryJob(job)
    BY <2>1, <2>2 DEF IsRegistryJob
  <2> QED BY <2>1, <2>2, <2>3, TakesKeeps
<1> QED BY <1>1, <1>2, <1>3 DEF Command

\* The hands once one clerk has put his down.
LEMMA HandsDown ==
    ASSUME FilesInv, NEW c \in Clerks, hand' = [hand EXCEPT ![c] = NoHand]
    PROVE  /\ hand' = [d \in Clerks |-> hand'[d]] /\ hand'[c] = NoHand
           /\ \A d \in Clerks \ {c} : hand'[d] = hand[d]
           /\ NoHand.file = "none"
           /\ AloneInv /\ hand[c] # NoHand =>
                 \A d \in Clerks \ {c} : hand[d].file # hand[c].file
<1>1. hand = [d \in Clerks |-> hand[d]]
  BY DEF FilesInv, HandsInv
<1>2. /\ hand' = [d \in Clerks |-> hand'[d]] /\ hand'[c] = NoHand
      /\ \A d \in Clerks \ {c} : hand'[d] = hand[d]
  <2> HIDE DEF NoHand
  <2> QED BY <1>1
<1>3. AloneInv /\ hand[c] # NoHand => \A d \in Clerks \ {c} : hand[d].file # hand[c].file
  BY DEF AloneInv
<1> QED BY <1>2, <1>3, JobsDiffer

LEMMA StageKeeps ==
    ASSUME FilesInv, NEW c \in Clerks, Stage(c)
    PROVE  FilesInv'
<1>1. /\ hand[c].file = "grants" /\ staged' = {hand[c].copy}
      /\ hand' = [hand EXCEPT ![c].at = "staged"]
      /\ UNCHANGED <<granted, known, moved, meant, clash>>
  BY DEF Stage
<1>2. IsGrantJob(hand[c])
  <2>1. hand[c] = NoHand \/ IsGrantJob(hand[c]) \/ IsRegistryJob(hand[c])
    BY DEF FilesInv, HandsInv
  <2> QED BY <1>1, <2>1, JobsDiffer
<1> DEFINE job == [hand[c] EXCEPT !.at = "staged"]
<1>3. /\ IsGrantJob(job) /\ job.file = "grants" /\ job.at = "staged"
      /\ job.copy = hand[c].copy /\ job.adds = hand[c].adds
  BY <1>2 DEF IsGrantJob
<1>4. hand' = [hand EXCEPT ![c] = job]
  BY <1>1
<1> HIDE DEF job
<1>5. /\ hand' = [d \in Clerks |-> hand'[d]] /\ hand'[c] = job
      /\ \A d \in Clerks \ {c} : hand'[d] = hand[d]
  BY <1>4 DEF FilesInv, HandsInv
<1>6. HandsInv'
  <2>1. staged' \subseteq SUBSET Offers
    BY <1>1, <1>2 DEF IsGrantJob
  <2> QED BY <1>1, <1>3, <1>5, <2>1 DEF FilesInv, HandsInv
<1>7. ASSUME AloneInv PROVE AloneInv'
  <2>1. hand[c] # NoHand /\ \A d \in Clerks \ {c} : hand[d].file # "grants"
    BY <1>1, <1>2, <1>7, JobsDiffer DEF AloneInv
  <2>2. \A d \in Clerks : hand'[d].file = hand[d].file /\ (hand'[d] = NoHand <=> hand[d] = NoHand)
    BY <1>1, <1>3, <1>5, <2>1, JobsDiffer
  <2>3. \A d, e \in Clerks : hand'[d] # NoHand /\ hand'[d].file = hand'[e].file => d = e
    BY <1>7, <2>2 DEF AloneInv
  <2>4. \A d \in Clerks : hand'[d].file = "grants" =>
          /\ hand'[d].copy = IF hand'[d].adds = {} THEN {} ELSE granted' \cup hand'[d].adds
          /\ hand'[d].at = "staged" => staged' = {hand'[d].copy}
    BY <1>1, <1>3, <1>5, <1>7, <2>1, <2>2 DEF AloneInv
  <2>5. \A d \in Clerks : hand'[d].file = "registry" =>
          DOMAIN hand'[d].copy = DOMAIN known' \cup {hand'[d].slug}
    BY <1>1, <1>3, <1>5, <1>7 DEF AloneInv
  <2> QED BY <1>1, <1>7, <2>3, <2>4, <2>5 DEF AloneInv
<1> QED BY <1>1, <1>6, <1>7 DEF FilesInv

LEMMA PublishKeeps ==
    ASSUME FilesInv, NEW c \in Clerks, Publish(c)
    PROVE  FilesInv'
<1>1. /\ hand[c].file = "grants" /\ hand[c].at = "staged"
      /\ granted' = (IF staged = {} THEN granted ELSE UNION staged) /\ staged' = {}
      /\ meant' = [meant EXCEPT !.grants = IF hand[c].adds = {} THEN {}
                                           ELSE @ \cup hand[c].adds]
      /\ hand' = [hand EXCEPT ![c] = NoHand] /\ UNCHANGED <<known, moved, clash>>
  BY DEF Publish
<1>2. hand[c] # NoHand
  BY <1>1, JobsDiffer
<1>3. /\ hand' = [d \in Clerks |-> hand'[d]] /\ hand'[c] = NoHand
      /\ \A d \in Clerks \ {c} : hand'[d] = hand[d]
      /\ NoHand.file = "none"
      /\ AloneInv => \A d \in Clerks \ {c} : hand[d].file # "grants"
  BY <1>1, <1>2, HandsDown
<1>4. /\ meant' = [grants |-> meant'.grants, slugs |-> meant'.slugs]
      /\ meant'.slugs = meant.slugs
      /\ meant'.grants = IF hand[c].adds = {} THEN {} ELSE meant.grants \cup hand[c].adds
  <2>1. meant = [grants |-> meant.grants, slugs |-> meant.slugs]
    BY DEF FilesInv
  <2> QED BY <1>1, <2>1
<1>5. HandsInv'
  <2>1. granted' \subseteq Offers /\ staged' \subseteq SUBSET Offers
    BY <1>1 DEF FilesInv, HandsInv
  <2> QED BY <1>1, <1>3, <2>1 DEF FilesInv, HandsInv
<1>6. ASSUME AloneInv PROVE AloneInv'
  <2>1. granted' = meant'.grants
    <3>1. /\ hand[c].copy = IF hand[c].adds = {} THEN {} ELSE granted \cup hand[c].adds
          /\ staged = {hand[c].copy} /\ granted = meant.grants
      BY <1>1, <1>6 DEF AloneInv
    <3>2. UNION staged = hand[c].copy /\ staged # {}
      BY <3>1
    <3> QED BY <1>1, <1>4, <3>1, <3>2
  <2>2. \A d, e \in Clerks : hand'[d] # NoHand /\ hand'[d].file = hand'[e].file => d = e
    <3>1. \A d \in Clerks : hand[d] # NoHand => hand[d].file # "none"
      BY JobsDiffer DEF FilesInv, HandsInv
    <3> QED BY <1>3, <1>6, <3>1 DEF AloneInv
  <2>3. \A d \in Clerks : hand'[d].file # "grants"
    BY <1>3, <1>6
  <2>4. \A d \in Clerks : hand'[d].file = "registry" =>
          DOMAIN hand'[d].copy = DOMAIN known' \cup {hand'[d].slug}
    BY <1>1, <1>3, <1>6 DEF AloneInv
  <2>5. DOMAIN known' = meant'.slugs
    BY <1>1, <1>4, <1>6 DEF AloneInv
  <2> QED BY <2>1, <2>2, <2>3, <2>4, <2>5 DEF AloneInv
<1> QED BY <1>1, <1>4, <1>5, <1>6 DEF FilesInv

LEMMA RegisterKeeps ==
    ASSUME FilesInv, NEW c \in Clerks, Register(c)
    PROVE  FilesInv'
<1>1. /\ hand[c].file = "registry" /\ known' = hand[c].copy
      /\ meant' = [meant EXCEPT !.slugs = @ \cup {hand[c].slug}]
      /\ hand' = [hand EXCEPT ![c] = NoHand] /\ UNCHANGED <<granted, staged, moved, clash>>
  BY DEF Register
<1>2. hand[c] # NoHand /\ IsRegistryJob(hand[c])
  <2>1. hand[c] = NoHand \/ IsGrantJob(hand[c]) \/ IsRegistryJob(hand[c])
    BY DEF FilesInv, HandsInv
  <2> QED BY <1>1, <2>1, JobsDiffer
<1>3. /\ hand' = [d \in Clerks |-> hand'[d]] /\ hand'[c] = NoHand
      /\ \A d \in Clerks \ {c} : hand'[d] = hand[d]
      /\ NoHand.file = "none"
      /\ AloneInv => \A d \in Clerks \ {c} : hand[d].file # "registry"
  BY <1>1, <1>2, HandsDown
<1>4. /\ meant' = [grants |-> meant'.grants, slugs |-> meant'.slugs]
      /\ meant'.grants = meant.grants /\ meant'.slugs = meant.slugs \cup {hand[c].slug}
  <2>1. meant = [grants |-> meant.grants, slugs |-> meant.slugs]
    BY DEF FilesInv
  <2> QED BY <1>1, <2>1
<1>5. HandsInv'
  <2>1. Named(known')
    BY <1>1, <1>2 DEF IsRegistryJob
  <2> QED BY <1>1, <1>3, <2>1 DEF FilesInv, HandsInv
<1>6. ASSUME AloneInv PROVE AloneInv'
  <2>1. DOMAIN known' = meant'.slugs
    BY <1>1, <1>4, <1>6 DEF AloneInv
  <2>2. \A d, e \in Clerks : hand'[d] # NoHand /\ hand'[d].file = hand'[e].file => d = e
    <3>1. \A d \in Clerks : hand[d] # NoHand => hand[d].file # "none"
      BY JobsDiffer DEF FilesInv, HandsInv
    <3> QED BY <1>3, <1>6, <3>1 DEF AloneInv
  <2>3. \A d \in Clerks : hand'[d].file # "registry"
    BY <1>3, <1>6
  <2>4. \A d \in Clerks : hand'[d].file = "grants" =>
          /\ hand'[d].copy = IF hand'[d].adds = {} THEN {} ELSE granted' \cup hand'[d].adds
          /\ hand'[d].at = "staged" => staged' = {hand'[d].copy}
    BY <1>1, <1>3, <1>6 DEF AloneInv
  <2>5. granted' = meant'.grants
    BY <1>1, <1>4, <1>6 DEF AloneInv
  <2> QED BY <2>1, <2>2, <2>3, <2>4, <2>5 DEF AloneInv
<1> QED BY <1>1, <1>4, <1>5, <1>6 DEF FilesInv

LEMMA FilesStutter ==
    ASSUME FilesInv, UNCHANGED <<granted, staged, known, hand, meant, clash>>
    PROVE  FilesInv'
<1>1. HandsInv'
  BY DEF FilesInv, HandsInv
<1>2. AloneInv => AloneInv'
  BY DEF AloneInv
<1> QED BY <1>1, <1>2 DEF FilesInv

LEMMA WorkKeepsFiles ==
    ASSUME FilesInv, [WorkNext]_<<vars, fenceVars>>
    PROVE  FilesInv'
<1>1. CASE UNCHANGED fenceVars
  BY <1>1, FilesStutter DEF fenceVars
<1>2. ASSUME NEW c \in Clerks, Command(c) PROVE FilesInv'
  BY <1>2, CommandKeeps
<1>3. ASSUME NEW dir \in Clones, MoveAway(dir) PROVE FilesInv'
  BY <1>3, FilesStutter DEF MoveAway
<1>4. ASSUME NEW c \in Clerks, Finishes(c) PROVE FilesInv'
  BY <1>4, StageKeeps, PublishKeeps, RegisterKeeps DEF Finishes
<1> QED BY <1>1, <1>2, <1>3, <1>4 DEF WorkNext, Acts

LEMMA FilesAreInOrder ==
    ASSUME FilesInv
    PROVE  FilesInOrder
BY DEF FilesInv, HandsInv, AloneInv, Named, FilesInOrder

LEMMA FenceIsUp ==
    ASSUME BacklogInv, FilesInv
    PROVE  FenceHolds
<1>1. ASSUME NEW s \in Sessions
      PROVE  RootsOf(s) \in Scopes
  <2>1. RootsOf(s) = {Root} \cup {known[slug] : slug \in scope[s] \cap DOMAIN known}
    BY DEF RootsOf, ActiveRoots
  <2>2. \A slug \in DOMAIN known : known[slug] \in Clones
    BY DEF FilesInv, HandsInv, Named
  <2> QED BY <2>1, <2>2 DEF Scopes
<1>2. GuardDecides /\ NarrowerIsStricter
  BY GuardDecidesHolds, NarrowerIsStricterHolds
<1>3. \A s \in Sessions : <<RootsOf(s), granted>> \notin Faulty
  BY <1>1, NothingFaulty
<1> QED BY <1>1, <1>2, <1>3 DEF FenceHolds

\* The backlog, the doctrine gate and the files the gate reads are in order
\* together: whatever the sessions, the commands and the other projects do, the
\* gate refuses and lets pass what the rules and the user's grants say
\* (doctrine_hook.py:735, crossproject.py:117, registry.py:65).
THEOREM WorkspaceInOrderHolds == WorkSpec => []WorkspaceInOrder
<1> DEFINE Inv == BacklogInv /\ FilesInv
<1>1. WorkInit => Inv
  BY BacklogStarts, FilesStart DEF WorkInit
<1>2. Inv /\ [WorkNext]_<<vars, fenceVars>> => Inv'
  BY WorkKeepsBacklog, WorkKeepsFiles
<1>3. Inv => WorkspaceInOrder
  BY BacklogIsInOrder, FilesAreInOrder, FenceIsUp DEF WorkspaceInOrder
<1> HIDE DEF Inv
<1> QED BY <1>1, <1>2, <1>3, PTL DEF WorkSpec
=============================================================================
