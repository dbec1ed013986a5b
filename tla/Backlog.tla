------------------------------ MODULE Backlog ------------------------------
(***************************************************************************)
(* The user's requests from prompt to todo list: the intake decomposition  *)
(* (intake.py: itemize, audit for coverage, route, save), the raised-item  *)
(* ledger that lets only the user's word close or reopen a todo            *)
(* (item_ledger.py), the table both write (store.py) and the turn's active *)
(* scope set (focus.py), driven by the intake hooks of several sessions of *)
(* one project over one database.                                          *)
(*                                                                         *)
(* An ask is a model value: two wordings that `_norm` folds are one ask.   *)
(* The kind of an ask is what the itemizer calls it, the same in each      *)
(* reply.  Time is the number of an intake; its id, a random one, is the   *)
(* place `ORDER BY intake_id` gives it among the others.                   *)
(***************************************************************************)
EXTENDS Selection, Sequences, SequencesExt

CONSTANTS Sessions,     \* the coding agent's sessions in the project
          Ambient,      \* the project
          Siblings,     \* the other projects in the registry
          Asks,         \* what the user may ask for
          KindOf(_),    \* the itemizer's word for an ask
          Dispositions, \* the closures the classifier returns
          MaxPrompts,   \* bound: prompts the user submits
          MaxIntakes,   \* bound: prompts that are decomposed, the others trivial
          MaxReply,     \* bound: items of one reply
          MaxAudits,    \* SADDLE_HOOK_MAX_AUDITS
          Limit,        \* the LIMIT of list_items
          CandidateCap, \* CANDIDATE_CAP
          MaxSpoils     \* bound: kills and failures that are not the model's

Statuses == {"open", "done", "dropped", "superseded"}
TodoKinds == {"task", "directive"}
Target(disposition) == IF disposition = "reopen" THEN "open" ELSE disposition

ASSUME BacklogAssumption ==
    /\ Ambient \notin Siblings
    /\ \A ask \in Asks : KindOf(ask) \in TodoKinds \cup {"context"}
    /\ Dispositions \subseteq {"done", "dropped", "superseded", "reopen"}
    /\ MaxPrompts \in Nat /\ MaxIntakes \in Nat /\ MaxReply \in Nat /\ MaxAudits \in Nat
    /\ Limit \in Nat \ {0} /\ CandidateCap \in Nat \ {0} /\ MaxSpoils \in Nat

VARIABLES rows,    \* the item table, in the order of insertion
          rank,    \* the place of each intake's random id
          scope,   \* a session's active-scope marker: sibling asks on file
          stage,   \* where a session's hook is
          shown,   \* the snapshot of the backlog its classifier was given
          word,    \* the closures its classifier read out of the prompt
          herald,  \* the todos it will name as changed
          items,   \* the items it extracted from its prompt so far
          audits,  \* [run: audits of this prompt, clean: the last found nothing]
          named,   \* what any reply named for this prompt
          prompts, \* prompts submitted
          spoils   \* kills and failures so far

vars == <<rows, rank, scope, stage, shown, word, herald, items, audits, named,
          prompts, spoils>>
memory == <<shown, word, herald, items, audits, named>>

Projects == {Ambient} \cup Siblings
Ids == DOMAIN rows
Empty == <<>>
NoAudit == [run |-> 0, clean |-> FALSE]

-----------------------------------------------------------------------------
(* The table.                                                               *)

\* Mutant of IsTodo: the project is not part of the query.
IsTodoOfAnyProject(i) == KindOf(rows[i].ask) \in TodoKinds

IsTodo(i) == KindOf(rows[i].ask) \in TodoKinds /\ rows[i].project = Ambient

\* ORDER BY intake_id, seq: the order of random ids, then of the message.
Before(i, j) ==
    \/ rank[rows[i].intake] < rank[rows[j].intake]
    \/ rows[i].intake = rows[j].intake /\ rows[i].seq < rows[j].seq

Listed ==
    {i \in Ids : IsTodo(i) /\ Cardinality({j \in Ids : IsTodo(j) /\ Before(j, i)}) < Limit}

\* Newest first; the items of one intake share a time and keep their order.
Newer(i, j) ==
    \/ rows[i].intake > rows[j].intake
    \/ rows[i].intake = rows[j].intake /\ rows[i].seq < rows[j].seq

Candidates ==
    {i \in Listed : Cardinality({j \in Listed : Newer(j, i)}) < CandidateCap}

-----------------------------------------------------------------------------
Init ==
    /\ rows = <<>> /\ rank = <<>>
    /\ scope = [s \in Sessions |-> {}]
    /\ stage = [s \in Sessions |-> "idle"]
    /\ shown = [s \in Sessions |-> Empty]
    /\ word = [s \in Sessions |-> Empty]
    /\ herald = [s \in Sessions |-> {}]
    /\ items = [s \in Sessions |-> <<>>]
    /\ audits = [s \in Sessions |-> NoAudit]
    /\ named = [s \in Sessions |-> {}]
    /\ prompts = 0 /\ spoils = 0

Spoil == spoils < MaxSpoils /\ spoils' = spoils + 1

(* The ledger stage.                                                        *)

\* UserPromptSubmit: the ledger reads the backlog before this prompt adds to
\* it, and asks the classifier only when there is something to close.
Prompt(s) ==
    /\ stage[s] = "idle" /\ prompts < MaxPrompts
    /\ prompts' = prompts + 1
    /\ LET seen == Candidates IN
         /\ shown' = [shown EXCEPT ![s] = [i \in seen |-> rows[i].status]]
         /\ stage' = [stage EXCEPT ![s] = IF seen = {} THEN "itemize" ELSE "classify"]
    /\ UNCHANGED <<rows, rank, scope, word, herald, items, audits, named, spoils>>

\* Without closures left to apply the snapshot is gone and itemizing begins.
LedgerEnds(s) ==
    /\ stage' = [stage EXCEPT ![s] = "itemize"]
    /\ shown' = [shown EXCEPT ![s] = Empty]

\* The closures in the reply: one disposition per item, of listed items only.
Classify(s) ==
    /\ stage[s] = "classify"
    /\ \E acted \in SUBSET DOMAIN shown[s] :
         \E said \in [acted -> Dispositions] :
            /\ word' = [word EXCEPT ![s] = [i \in acted |-> Target(said[i])]]
            /\ IF acted = {} THEN LedgerEnds(s) ELSE
                 stage' = [stage EXCEPT ![s] = "apply"] /\ UNCHANGED shown
    /\ UNCHANGED <<rows, rank, scope, herald, items, audits, named, prompts, spoils>>

ClassifyFails(s) ==
    /\ stage[s] = "classify" /\ Spoil /\ LedgerEnds(s)
    /\ UNCHANGED <<rows, rank, scope, word, herald, items, audits, named, prompts>>

Without(f, x) == [y \in DOMAIN f \ {x} |-> f[y]]

\* One closure at a time, each its own commit.  The status compared is the
\* snapshot's; the update is unconditional.
Close(s, i) ==
    /\ rows' = [rows EXCEPT ![i].status = word[s][i]]
    /\ herald' = [herald EXCEPT ![s] = @ \cup {i}]
    /\ UNCHANGED spoils

Skip(s, i) ==
    /\ shown[s][i] = word[s][i]
    /\ UNCHANGED <<rows, herald, spoils>>

WriteFails(s, i) == Spoil /\ UNCHANGED <<rows, herald>>

Apply(s) ==
    /\ stage[s] = "apply"
    /\ \E i \in DOMAIN word[s] :
         /\ \/ shown[s][i] # word[s][i] /\ Close(s, i)
            \/ Skip(s, i)
            \/ shown[s][i] # word[s][i] /\ WriteFails(s, i)
         /\ word' = [word EXCEPT ![s] = Without(@, i)]
         /\ IF DOMAIN word[s] = {i} THEN LedgerEnds(s) ELSE UNCHANGED <<stage, shown>>
    /\ UNCHANGED <<rank, scope, items, audits, named, prompts>>

-----------------------------------------------------------------------------
(* The itemize stage.                                                       *)

AsksOf(list) == {list[k].ask : k \in DOMAIN list}
Extracted(asks) == [k \in DOMAIN asks |-> [ask |-> asks[k], project |-> Ambient]]
Replies == {<<>>} \cup UNION {[1 .. n -> Asks] : n \in 1 .. MaxReply}
Tasks(list) == {k \in DOMAIN list : KindOf(list[k].ask) = "task"}

\* Where a list goes once the audit is over: the router reads tasks only.
Settled(list) == IF Tasks(list) = {} THEN "save" ELSE "route"

Trivial(s) ==
    /\ stage[s] = "itemize"
    /\ stage' = [stage EXCEPT ![s] = "siblings"]
    /\ UNCHANGED <<rows, rank, scope, memory, prompts, spoils>>

Decomposing == {s \in Sessions : stage[s] \in {"audit", "route", "save"}}

Itemize(s) ==
    /\ stage[s] = "itemize"
    /\ Len(rank) + Cardinality(Decomposing) < MaxIntakes
    /\ \E asks \in Replies :
         /\ items' = [items EXCEPT ![s] = Extracted(asks)]
         /\ named' = [named EXCEPT ![s] = ToSet(asks)]
         /\ stage' = [stage EXCEPT ![s] = IF MaxAudits > 0 THEN "audit"
                                          ELSE Settled(Extracted(asks))]
    /\ UNCHANGED <<rows, rank, scope, shown, word, herald, audits, prompts, spoils>>

\* Mutant of Novel: the auditor is believed that everything it names is new.
NovelUnseen(list, missed) == missed

\* What the auditor missed is appended unless its ask is already there.
Novel(list, missed) ==
    Members(missed, {k \in DOMAIN missed : missed[k] \notin AsksOf(list)})

Audit(s) ==
    /\ stage[s] = "audit"
    /\ \E missed \in Replies, complete \in BOOLEAN :
         LET novel == Novel(items[s], missed)
             list == items[s] \o Extracted(novel)
             last == novel = <<>> \/ audits[s].run + 1 = MaxAudits
         IN /\ items' = [items EXCEPT ![s] = list]
            /\ audits' = [audits EXCEPT ![s] = [run |-> @.run + 1,
                                                clean |-> complete /\ novel = <<>>]]
            /\ named' = [named EXCEPT ![s] = @ \cup ToSet(missed)]
            /\ stage' = [stage EXCEPT ![s] = IF last THEN Settled(list) ELSE @]
    /\ UNCHANGED <<rows, rank, scope, shown, word, herald, prompts, spoils>>

\* A task may be stamped with a sibling; focus, outside and unclassified
\* tasks stay with the ambient project.
Route(s) ==
    /\ stage[s] = "route"
    /\ \E to \in [Tasks(items[s]) -> Projects] :
         items' = [items EXCEPT ![s] =
             [k \in DOMAIN @ |-> IF k \in DOMAIN to THEN [@[k] EXCEPT !.project = to[k]]
                                 ELSE @[k]]]
    /\ stage' = [stage EXCEPT ![s] = "save"]
    /\ UNCHANGED <<rows, rank, scope, shown, word, herald, audits, named, prompts, spoils>>

ItemizeEnds(s) ==
    /\ stage' = [stage EXCEPT ![s] = "siblings"]
    /\ items' = [items EXCEPT ![s] = <<>>]
    /\ audits' = [audits EXCEPT ![s] = NoAudit]
    /\ named' = [named EXCEPT ![s] = {}]

\* The deadline, a provider failure or an unreadable reply ends the stage:
\* nothing of the prompt is kept.
ItemizeFails(s) ==
    /\ stage[s] \in {"itemize", "audit", "route"} /\ Spoil /\ ItemizeEnds(s)
    /\ UNCHANGED <<rows, rank, scope, shown, word, herald, prompts>>

\* save_intake: the intake and all its items in one transaction.
NewRows(s, number) ==
    [k \in DOMAIN items[s] |->
        [ask |-> items[s][k].ask, project |-> items[s][k].project,
         intake |-> number, seq |-> k, status |-> "open"]]

Save(s) ==
    /\ stage[s] = "save"
    /\ rows' = rows \o NewRows(s, Len(rank) + 1)
    /\ \E place \in (1 .. MaxIntakes) \ ToSet(rank) : rank' = Append(rank, place)
    /\ stage' = [stage EXCEPT ![s] = "record"]
    /\ UNCHANGED <<scope, memory, prompts, spoils>>

\* The marker is replaced as a whole by the siblings this turn routes to.
Routed(list) == {list[k].project : k \in DOMAIN list} \ {Ambient}

RecordScopes(s) ==
    /\ stage[s] = "record"
    /\ \/ scope' = [scope EXCEPT ![s] = Routed(items[s])] /\ UNCHANGED spoils
       \/ Spoil /\ UNCHANGED scope
    /\ ItemizeEnds(s)
    /\ UNCHANGED <<rows, rank, shown, word, herald, prompts>>

-----------------------------------------------------------------------------
Forget(s) ==
    /\ stage' = [stage EXCEPT ![s] = "idle"]
    /\ shown' = [shown EXCEPT ![s] = Empty]
    /\ word' = [word EXCEPT ![s] = Empty]
    /\ herald' = [herald EXCEPT ![s] = {}]
    /\ items' = [items EXCEPT ![s] = <<>>]
    /\ audits' = [audits EXCEPT ![s] = NoAudit]
    /\ named' = [named EXCEPT ![s] = {}]

\* Every sibling on file gets its own history check; then the hook speaks.
Deliver(s) ==
    /\ stage[s] = "siblings" /\ Forget(s)
    /\ UNCHANGED <<rows, rank, scope, prompts, spoils>>

Kill(s) ==
    /\ stage[s] # "idle" /\ Spoil /\ Forget(s)
    /\ UNCHANGED <<rows, rank, scope, prompts>>

Rest ==
    /\ prompts = MaxPrompts /\ \A s \in Sessions : stage[s] = "idle"
    /\ UNCHANGED vars

Ledger(s) == Prompt(s) \/ Classify(s) \/ ClassifyFails(s) \/ Apply(s)
Intake(s) ==
    \/ Trivial(s) \/ Itemize(s) \/ Audit(s) \/ Route(s) \/ ItemizeFails(s)
    \/ Save(s) \/ RecordScopes(s) \/ Deliver(s)

Next == (\E s \in Sessions : Ledger(s) \/ Intake(s) \/ Kill(s)) \/ Rest

Spec == Init /\ [][Next]_vars
-----------------------------------------------------------------------------
(* Properties.                                                              *)

BacklogTypeOK ==
    /\ rows \in Seq([ask : Asks, project : Projects, intake : 1 .. MaxIntakes,
                     seq : Nat, status : Statuses])
    /\ rank \in Seq(1 .. MaxIntakes) /\ IsInjective(rank)
    /\ scope \in [Sessions -> SUBSET Siblings]
    /\ stage \in [Sessions -> {"idle", "classify", "apply", "itemize", "audit",
                               "route", "save", "record", "siblings"}]
    /\ \A s \in Sessions :
         /\ DOMAIN shown[s] \subseteq Ids
         /\ DOMAIN word[s] \subseteq DOMAIN shown[s]
         /\ herald[s] \subseteq Ids
    /\ prompts \in 0 .. MaxPrompts /\ spoils \in 0 .. MaxSpoils

\* What the audit merges is what every reply named: a pass that names nothing
\* new takes nothing away, and an ask named again by a later reply is not
\* extracted again (it is repeated only as often as one reply repeats it).
MergedIsNamed ==
    \A s \in Sessions : stage[s] \in {"audit", "route", "save"} =>
        /\ AsksOf(items[s]) = named[s]
        /\ \A ask \in Asks :
             Cardinality({k \in DOMAIN items[s] : items[s][k].ask = ask}) <= MaxReply

\* The backlog and the intakes in progress are in order (intake.py:431,
\* store.py:160, item_ledger.py:77): the classifier weighs at most
\* CANDIDATE_CAP todos of this project, and the decomposition keeps every ask
\* that a reply named, once however often the auditors name it.
BacklogInOrder == BacklogTypeOK /\ Cardinality(Candidates) <= CandidateCap /\ MergedIsNamed

\* A todo moves only by the user's word about it, read out of a prompt whose
\* classifier saw the todo in another status, and the session that moved it
\* will say so; a sibling's todos, and asks that are no todos, never move from
\* here (item_ledger.py:193).  With another session in between, the word still
\* is the user's, though the status it was compared with is not the latest.
UserMoves ==
    \A i \in Ids : rows'[i].status # rows[i].status =>
         /\ rows[i].project = Ambient /\ KindOf(rows[i].ask) \in TodoKinds
         /\ \E s \in Sessions :
              /\ stage[s] = "apply" /\ i \in DOMAIN word[s]
              /\ word[s][i] = rows'[i].status /\ shown[s][i] # rows'[i].status
              /\ i \in herald'[s]

UserMovesTodos == [][UserMoves]_vars
=============================================================================
