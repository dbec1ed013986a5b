--------------------------- MODULE DesignPipeline ---------------------------
(***************************************************************************)
(* How a design comes to be on file: the orchestration of a prompt         *)
(* (orchestrator.py: promote the standing rules, fold the asks into goals, *)
(* design each goal), the design stage (design.py: draft, audit and        *)
(* revise, index, harvest, save), the round-trip of an agent's own         *)
(* approach with its council (mcp_server.py, council.py, design.py), and   *)
(* the memory tools, in several sessions over one knowledge base.          *)
(*                                                                         *)
(* A session works at one job; the job is a record of what the functions   *)
(* hold in their locals.  What a model replies is a choice.                *)
(***************************************************************************)
EXTENDS KnowledgeBase, StandingRules

CONSTANTS Asks,       \* design-worthy asks of a prompt
          MaxGoals,   \* bound: goals in the reply of the fold
          MaxAudits,  \* max_audits
          MaxLessons, \* bound: entries in the reply of the harvest
          Surfaces,   \* the surfaces a design may declare
          MinSites,   \* surface_min_sites
          MinQuorum,  \* min_quorum
          Callers,    \* the providers that may have a caller
          FamilyOf(_),
          Preference, \* cfg members, then the priority, then the other names
          KindsOf(_), \* the jobs a session is given
          PromptsOf(_), \* what its prompts decompose into
          MaxJobs,    \* bound: jobs begun, of the sessions and the user
          MaxSpoils   \* bound: spoils

ASSUME PipelineAssumption ==
    /\ MaxGoals \in Nat /\ MaxAudits \in Nat /\ MaxLessons \in Nat
    /\ MinSites \in Nat /\ MinQuorum \in 1 .. 2 /\ {} \in Surfaces
    /\ \A s \in Sessions : PromptsOf(s) \subseteq
            [asks : SUBSET Asks, said : SUBSET Rules, dry : BOOLEAN]
    /\ IsFiniteSet(Sessions) /\ Sessions # {} /\ IsFiniteSet(Asks)
    /\ Preference \in Seq(Callers) /\ ToSet(Preference) = Callers
    /\ MaxJobs \in Nat /\ MaxSpoils \in Nat

VARIABLES job,   \* what each session is doing
          begun, \* jobs begun
          spoils \* steps spoilt so far: writes and jobs cut short by a failure
                 \* or a kill, titles read from a list that was too short

pipelineVars == <<job, begun, spoils>>

NoJob == [kind |-> "none", stage |-> "idle", dry |-> FALSE, asks |-> {}, said |-> {},
          goals |-> <<>>, done |-> {}, surface |-> {}, verdict |-> "none",
          audits |-> 0, flawed |-> FALSE, entries |-> <<>>, known |-> {},
          body |-> "draft", panel |-> {}, forks |-> FALSE, topic |-> {}]

PipelineInit == job = [s \in Sessions |-> NoJob] /\ begun = 0 /\ spoils = 0

At(s, kinds, stage) == job[s].kind \in kinds /\ job[s].stage = stage
Become(s, changes) ==
    job' = [job EXCEPT ![s] = [f \in DOMAIN @ |-> IF f \in DOMAIN changes
                                                  THEN changes[f] ELSE @[f]]]
GoTo(s, stage) == Become(s, [stage |-> stage])
JobEnds(s) == job' = [job EXCEPT ![s] = NoJob]
Start(s, kind) ==
    job[s].stage = "idle" /\ kind \in KindsOf(s) /\ begun < MaxJobs /\ begun' = begun + 1

\* An error that propagates out of the job, or the end of its process.  What
\* the job did to the base and the rules stays.
Abandon(s) ==
    /\ job[s].stage # "idle" /\ spoils < MaxSpoils
    /\ spoils' = spoils + 1
    /\ JobEnds(s) /\ DropLock(s)
    /\ UNCHANGED <<baseVars, begun>>

-----------------------------------------------------------------------------
(* The orchestration of a prompt.                                           *)

\* decompose has itemized the prompt, and the durability classifier has said
\* which directives are standing rules: none, when it fails.
Orchestrate(s) ==
    /\ Start(s, "orchestrate")
    /\ \E prompt \in PromptsOf(s) :
         Become(s, [kind |-> "orchestrate", stage |-> "rules", asks |-> prompt.asks,
                    said |-> prompt.said, dry |-> prompt.dry])
    /\ UNCHANGED <<baseVars, ruleVars, spoils>>

\* One rule after the other; one that cannot be written is passed over.
Promote(s) ==
    /\ At(s, {"orchestrate"}, "rules")
    /\ \E rule \in job[s].said :
         \/ /\ BeginPromote(s, rule)
            /\ Become(s, [stage |-> "write", said |-> job[s].said \ {rule}])
         \/ Promoted(s, rule) /\ Become(s, [said |-> job[s].said \ {rule}])
    /\ UNCHANGED <<baseVars, begun, spoils>>

Written(s) ==
    /\ job[s].stage = "write"
    /\ EndWrite(s) /\ GoTo(s, "rules")
    /\ UNCHANGED <<baseVars, begun, spoils>>

\* Before the file is truncated, or after.
PromoteFails(s) ==
    /\ spoils < MaxSpoils /\ spoils' = spoils + 1
    /\ \/ /\ At(s, {"orchestrate"}, "rules")
          /\ \E rule \in job[s].said : Become(s, [said |-> job[s].said \ {rule}])
       \/ job[s].stage = "write" /\ GoTo(s, "rules")
    /\ DropLock(s)
    /\ UNCHANGED <<baseVars, begun>>

Alone(asks) == [k \in 1 .. Cardinality(asks) |-> {SetToSeq(asks)[k]}]
Replied(asks) == UNION {[1 .. n -> SUBSET asks] : n \in 0 .. MaxGoals}

\* Mutant of Folded: the reply is taken for complete.
FoldedAsReplied(asks, reply) == reply

\* What the reply leaves uncovered becomes goals of its own.
Folded(asks, reply) == reply \o Alone(asks \ UNION ToSet(reply))

Draw(s, goals) == Become(s, [stage |-> "draft", goals |-> goals, said |-> {}])

\* A single ask is its own goal.  The caller may have asked for the goals
\* only, run_designs=False.
Fold(s) ==
    /\ At(s, {"orchestrate"}, "rules") /\ job[s].said = {}
    /\ LET asks == job[s].asks IN
         \/ JobEnds(s)
         \/ Cardinality(asks) = 1 /\ Draw(s, <<asks>>)
         \/ /\ Cardinality(asks) > 1
            /\ \E reply \in Replied(asks) : Draw(s, Folded(asks, reply))
    /\ UNCHANGED <<baseVars, ruleVars, begun, spoils>>

-----------------------------------------------------------------------------
(* The design of one goal.                                                  *)

\* Diagnosis, surface, retrieval and the first body; without code to parse
\* the surface is empty.
Draft(s) ==
    /\ job[s].stage = "draft"
    /\ \E surface \in Surfaces :
         Become(s, [stage |-> IF MaxAudits = 0 THEN "index" ELSE "audit",
                    surface |-> surface])
    /\ Recall
    /\ UNCHANGED <<lessons, designs, ruleVars, begun, spoils>>

\* The issues are answered with a new body, and no audit has seen that yet.
Revise(s) ==
    Become(s, [stage |-> IF job[s].audits + 1 = MaxAudits THEN "index" ELSE "audit",
               audits |-> job[s].audits + 1, flawed |-> TRUE, verdict |-> "none"])

\* "unnamed": flagged, and nothing named to act on.
Audit(s) ==
    /\ job[s].stage = "audit"
    /\ \/ \E verdict \in {"clean", "unnamed"} :
            Become(s, [stage |-> "index", verdict |-> verdict])
       \/ Revise(s)
    /\ UNCHANGED <<baseVars, ruleVars, begun, spoils>>

Index(s) ==
    /\ job[s].stage = "index"
    /\ GoTo(s, IF job[s].flawed THEN "harvest" ELSE "save")
    /\ UNCHANGED <<baseVars, ruleVars, begun, spoils>>

AfterLessons(s) ==
    IF job[s].kind = "harvest" THEN JobEnds(s)
    ELSE Become(s, [stage |-> "save", entries |-> <<>>, known |-> {}])

\* The titles on file are read once, when the entries are known.
Harvest(s) ==
    /\ job[s].stage = "harvest"
    /\ \/ AfterLessons(s) /\ UNCHANGED spoils
       \/ \E n \in 1 .. MaxLessons : \E entries \in [1 .. n -> Titles], known \in Listed :
            /\ Become(s, [stage |-> "file", entries |-> entries, known |-> known])
            /\ \/ known = OnFile /\ UNCHANGED spoils
               \/ known # OnFile /\ spoils < MaxSpoils /\ spoils' = spoils + 1
    /\ UNCHANGED <<baseVars, ruleVars, begun>>

\* Mutant of Learn: the titles filed in this reply are not remembered.
LearnEach(s, title) ==
    AddLesson(title) /\ Become(s, [entries |-> Tail(job[s].entries)])

Learn(s, title) ==
    /\ AddLesson(title)
    /\ Become(s, [entries |-> Tail(job[s].entries), known |-> job[s].known \cup {title}])

\* One lesson at a time, each its own transaction, whether the design is to be
\* kept or not.
File(s) ==
    /\ job[s].stage = "file"
    /\ IF job[s].entries = <<>> THEN AfterLessons(s) /\ UNCHANGED lessons
       ELSE LET title == Head(job[s].entries) IN
            IF title \in job[s].known
            THEN Become(s, [entries |-> Tail(job[s].entries)]) /\ UNCHANGED lessons
            ELSE Learn(s, title)
    /\ UNCHANGED <<unused, recent, designs, ruleVars, begun, spoils>>

Design(s, status, by) ==
    [status |-> status, by |-> by, verdict |-> job[s].verdict, forks |-> job[s].forks,
     surface |-> job[s].surface, trail |-> "none"]

NextGoal(s) ==
    LET left == Tail(job[s].goals) IN
    IF left = <<>> THEN JobEnds(s)
    ELSE Become(s, [stage |-> "draft", goals |-> left,
                    done |-> job[s].done \cup Head(job[s].goals),
                    verdict |-> "none", audits |-> 0, flawed |-> FALSE])

\* A dry run, persist=False, saves nothing.
Save(s) ==
    /\ job[s].stage = "save"
    /\ IF job[s].dry THEN UNCHANGED designs
       ELSE AddDesign(Design(s, IF job[s].verdict = "clean" THEN "final" ELSE "flagged",
                             "saddle"))
    /\ NextGoal(s)
    /\ UNCHANGED <<knowledgeVars, ruleVars, begun, spoils>>

-----------------------------------------------------------------------------
(* The round-trip of an agent's approach.                                   *)

Propose(s) ==
    /\ \E kind \in {"propose", "council"} :
         Start(s, kind) /\ Become(s, [kind |-> kind, stage |-> "triage"])
    /\ UNCHANGED <<baseVars, ruleVars, spoils>>

\* Without the council the draft goes to the single audit, if the agent
\* proposed; if it asked for the council itself, that is the answer.
SingleAudit(s) ==
    IF job[s].kind = "propose"
    THEN Become(s, [stage |-> "floor", body |-> "draft", panel |-> {}, forks |-> FALSE])
    ELSE JobEnds(s)

\* No code, or a surface too small for a panel unless one was asked for.
Triage(s) ==
    /\ job[s].stage = "triage"
    /\ \/ SingleAudit(s)
       \/ \E surface \in Surfaces :
            IF job[s].kind = "propose" /\ Cardinality(surface) < MinSites
            THEN SingleAudit(s) ELSE GoTo(s, "seat")
    /\ UNCHANGED <<baseVars, ruleVars, begun, spoils>>

\* The first two of the places k in the list of the callers.
FirstTwo(places) ==
    {Preference[k] : k \in {k \in places : Cardinality({j \in places : j < k}) < 2}}

Places(available) == {k \in DOMAIN Preference : Preference[k] \in available}

\* Mutant of Critics: two callers, of whatever family.
CriticsOfAnyFamily(available) == FirstTwo(Places(available))

\* The first caller of each family, in the order of preference, two at most.
Critics(available) ==
    FirstTwo({k \in Places(available) :
                 \A j \in Places(available) :
                     j < k => FamilyOf(Preference[j]) # FamilyOf(Preference[k])})

Seat(s) ==
    /\ job[s].stage = "seat"
    /\ \E available \in SUBSET Callers :
         IF Cardinality(Critics(available)) < 2 THEN SingleAudit(s)
         ELSE Become(s, [stage |-> "critique", panel |-> Critics(available)])
    /\ UNCHANGED <<baseVars, ruleVars, begun, spoils>>

\* A critic that is late or fails is dropped; a quorum goes on.
Critique(s) ==
    /\ job[s].stage = "critique"
    /\ \E got \in SUBSET job[s].panel :
         IF Cardinality(got) < MinQuorum THEN SingleAudit(s) ELSE GoTo(s, "synthesize")
    /\ UNCHANGED <<baseVars, ruleVars, begun, spoils>>

Synthesized(s, forks) ==
    Become(s, [stage |-> "floor", body |-> "synthesis", forks |-> forks])

\* A conflict in the first synthesis is given one more pass; a synthesis that
\* is nothing but the conflict falls back on the single audit.
Synthesize(s) ==
    /\ job[s].stage \in {"synthesize", "reconcile"}
    /\ \E forks \in BOOLEAN :
         IF forks /\ job[s].stage = "synthesize" THEN GoTo(s, "reconcile")
         ELSE SingleAudit(s) \/ Synthesized(s, forks)
    /\ UNCHANGED <<baseVars, ruleVars, begun, spoils>>

\* Mutant of Floor: a clean audit settles the synthesis, conflict or not.
FloorDecides(s) ==
    /\ job[s].stage = "floor"
    /\ \E verdict \in {"clean", "unnamed", "issues"} :
         IF verdict = "issues" THEN JobEnds(s)
         ELSE Become(s, [stage |-> "settle", verdict |-> verdict])
    /\ Recall
    /\ UNCHANGED <<lessons, designs, ruleVars, begun, spoils>>

\* audit_proposal: a verdict that names no issue is not held to have one.
Floor(s) ==
    /\ job[s].stage = "floor"
    /\ \E verdict \in {"clean", "unnamed", "issues"} :
         IF verdict = "issues" \/ job[s].forks THEN JobEnds(s)
         ELSE Become(s, [stage |-> "settle", verdict |-> verdict])
    /\ Recall
    /\ UNCHANGED <<lessons, designs, ruleVars, begun, spoils>>

Settle(s) ==
    /\ job[s].stage = "settle"
    /\ \E surface \in Surfaces :
         AddDesign([Design(s, "final",
                           IF job[s].body = "draft" THEN "converged" ELSE "council")
                      EXCEPT !.surface = surface])
    /\ JobEnds(s)
    /\ UNCHANGED <<knowledgeVars, ruleVars, begun, spoils>>

-----------------------------------------------------------------------------
(* The memory tools, and the turn end's harvest of the flaws it caught.     *)

Remember(s) ==
    /\ Start(s, "remember")
    /\ \E topic \in Topics \ ToSet(Cache) :
         InsertReference(topic) /\ Become(s, [kind |-> "remember", stage |-> "evict"])
    /\ UNCHANGED <<ruleVars, spoils>>

Bounded(s) ==
    /\ job[s].stage = "evict"
    /\ Evict /\ JobEnds(s)
    /\ UNCHANGED <<ruleVars, begun, spoils>>

HarvestTurn(s) ==
    /\ Start(s, "harvest")
    /\ Become(s, [kind |-> "harvest", stage |-> "harvest"])
    /\ UNCHANGED <<baseVars, ruleVars, spoils>>

Orchestration(s) == Promote(s) \/ Written(s) \/ Fold(s)
DesignFor(s) == Draft(s) \/ Audit(s) \/ Index(s) \/ Harvest(s) \/ File(s) \/ Save(s)
RoundTrip(s) ==
    Triage(s) \/ Seat(s) \/ Critique(s) \/ Synthesize(s) \/ Floor(s) \/ Settle(s)

\* What a session does once it has a job.
Work(s) == Orchestration(s) \/ DesignFor(s) \/ RoundTrip(s) \/ Bounded(s)
Begin(s) == Orchestrate(s) \/ Propose(s) \/ Remember(s) \/ HarvestTurn(s)

\* The user, on the command line.
Curate ==
    /\ \/ (Cleanup \/ \E title \in Titles : Retire(title)) /\ UNCHANGED ruleVars
       \/ (\E rule \in Rules : BeginDemote(User, rule)) /\ UNCHANGED baseVars
    /\ UNCHANGED pipelineVars

\* `saddle directives --add`, a job of its own.
AddRule ==
    /\ begun < MaxJobs /\ begun' = begun + 1
    /\ \E rule \in Rules : BeginPromote(User, rule)
    /\ UNCHANGED <<baseVars, job, spoils>>

Curated == EndWrite(User) /\ UNCHANGED <<baseVars, pipelineVars>>

CurateFails ==
    /\ writer = {User} /\ DropLock(User)
    /\ spoils < MaxSpoils /\ spoils' = spoils + 1
    /\ UNCHANGED <<baseVars, job, begun>>
=============================================================================
