--------------------------- MODULE KnowledgeBase ---------------------------
(***************************************************************************)
(* The design knowledge base of one project (dkb.py): the lessons, which   *)
(* are retired and never deleted, the references, a cache that is bounded  *)
(* by eviction, and the designs.  Every operation is one transaction; the  *)
(* insertion of a reference and the eviction it calls for are two.         *)
(*                                                                         *)
(* The cache is kept in the order of eviction, coldest first: the rows     *)
(* never recalled in the order they came, then the others in the order of  *)
(* their last recall.  A fresh row is therefore the first to go when the   *)
(* other rows of a full cache have been recalled.                          *)
(***************************************************************************)
EXTENDS Selection, Sequences, SequencesExt

CONSTANTS Titles,   \* of lessons, as normalized
          Topics,   \* of references; each is remembered once at most
          CacheMax, \* SADDLE_KB_CACHE_MAX; a value of 0 or less is no cap
          TitleLimit \* the rows from which a harvest reads the titles, 1000

ASSUME CacheAssumption == CacheMax \in Nat \ {0} /\ TitleLimit \in Nat \ {0}

VARIABLES lessons, \* the active lessons of each title
          unused,  \* the references never recalled
          recent,  \* the references recalled
          designs  \* the design table, oldest first

knowledgeVars == <<lessons, unused, recent>>
baseVars == <<lessons, unused, recent, designs>>

Cache == unused \o recent

KnowledgeInit ==
    /\ lessons = [t \in Titles |-> 0] /\ unused = <<>> /\ recent = <<>> /\ designs = <<>>

OnFile == {t \in Titles : lessons[t] > 0}

\* The rows, of any kind, that are too old for the list of a harvest.
Unlisted ==
    LET active == SumFunction(lessons) + Len(Cache) IN
    IF active > TitleLimit THEN active - TitleLimit ELSE 0

\* What a harvest may know of the titles: it misses one all of whose rows are
\* among those.  Which rows are the oldest is left open.
Listed == {known \in SUBSET OnFile : SumFunctionOnSet(lessons, OnFile \ known) <= Unlisted}

AddLesson(title) == lessons' = [lessons EXCEPT ![title] = @ + 1]

\* retire_knowledge: the row stays, and counts no longer.
Retire(title) ==
    /\ lessons[title] > 0
    /\ lessons' = [lessons EXCEPT ![title] = @ - 1]
    /\ UNCHANGED <<unused, recent, designs>>

\* The first transaction of add_knowledge for a reference.
InsertReference(topic) ==
    /\ unused' = Append(unused, topic)
    /\ UNCHANGED <<lessons, recent, designs>>

\* What is left of a list, in its order.
Left(list, gone) == Members(list, {k \in DOMAIN list : list[k] \notin gone})
Purge(gone) ==
    /\ unused' = Left(unused, gone) /\ recent' = Left(recent, gone)
    /\ UNCHANGED <<lessons, designs>>

\* Mutant of Overflow: the row just added is not counted.
OverflowBefore(list) == IF Len(list) > CacheMax + 1 THEN Len(list) - CacheMax - 1 ELSE 0

Overflow(list) == IF Len(list) > CacheMax THEN Len(list) - CacheMax ELSE 0

Coldest(list) == {list[k] : k \in 1 .. Overflow(list)}

\* The second: the expired rows go, and the coldest over the cap, an overflow
\* that is counted with the expired rows still there.
Evict == \E expired \in SUBSET ToSet(Cache) : Purge(expired \cup Coldest(Cache))

\* `saddle kb gc` counts the overflow once the expired rows are gone.
Cleanup ==
    \E expired \in SUBSET ToSet(Cache) :
        Purge(expired \cup Coldest(Left(Cache, expired)))

\* search_knowledge: what it returns is now what was recalled last, in any
\* order; one recall stands for those that follow one another in a step.
Recall ==
    \E found \in SUBSET ToSet(Cache) : \E order \in SetToSeqs(found) :
        unused' = Left(unused, found) /\ recent' = Left(recent, found) \o order

AddDesign(design) == designs' = Append(designs, design)
=============================================================================
