---------------------------- MODULE ScopeFence ----------------------------
(***************************************************************************)
(* The doctrine gate in front of every tool call (doctrine.py): the rules, *)
(* what a tool call is read to do, and the answer of the hook, which lets  *)
(* the user's cross-project grants (crossproject.py) override the rules of *)
(* scope.  With it the two files it reads, the grants and the registry of  *)
(* projects (registry.py), each loaded and saved as a whole by processes   *)
(* that do not exclude each other.                                         *)
(*                                                                         *)
(* A path is the directory that holds it and whether it is code; a bare    *)
(* name is a path of the focus project, as `_within` resolves it.  Rules   *)
(* that a policy adds are left out.                                        *)
(***************************************************************************)
EXTENDS Selection, Sequences, SequencesExt

CONSTANTS Dirs,      \* directories
          Root,      \* the focus project's
          Below,     \* <<outer, inner>>: a directory within another
          Scratch,   \* the system's temp tree
          Clones,    \* the directories of the other projects
          SlugOf(_), \* the name the registry gives a directory
          Offers,    \* grants: [roots, user: cli or bootstrap, mine: the tenant]
          Clerks,    \* processes that write one of the two files
          MaxParts   \* bound: parts of a shell command

ASSUME FenceAssumption ==
    /\ Root \in Dirs /\ Scratch \in Dirs /\ Clones \subseteq Dirs \ {Root, Scratch}
    /\ Below \subseteq Dirs \X Dirs
    /\ Offers \subseteq [roots : SUBSET Dirs, user : BOOLEAN, mine : BOOLEAN]
    /\ MaxParts \in Nat \ {0}

Under(outer, dir) == outer = dir \/ <<outer, dir>> \in Below

-----------------------------------------------------------------------------
(* The rules.  `evidence` is what the caller of `saddle guard` submits; a   *)
(* tool call has none.                                                      *)

Rules == <<
    [id |-> "stay-in-project-focus", kind |-> "scope_fence",
     verbs |-> {"edit", "write", "create"}, facet |-> "path", severity |-> "warn"],
    [id |-> "no-cross-project-delete", kind |-> "scope_fence",
     verbs |-> {"delete"}, facet |-> "path", severity |-> "block"],
    [id |-> "no-unwired-delete", kind |-> "require_evidence",
     verbs |-> {"delete"}, facet |-> "code", severity |-> "block"],
    [id |-> "disposition-coherent", kind |-> "predicate",
     verbs |-> {"delete"}, facet |-> "code", severity |-> "block"]>>

ScopeFenceRuleIds == {Rules[k].id : k \in {j \in DOMAIN Rules : Rules[j].kind = "scope_fence"}}

\* No disposition, one that lacks its companion fact, a coherent one.
Dispositions3 == {"none", "bare", "named"}
NoEvidence == [cross |-> FALSE, disposition |-> "none"]
Evidence == [cross : BOOLEAN, disposition : Dispositions3]

\* A symbol is code and no path; a file of code is both.
Targets == [dir : Dirs, facets : {{"path"}, {"path", "code"}, {"code"}}]
Triggers(rule, act) == act.verb \in rule.verbs /\ rule.facet \in act.target.facets

Inside(roots, target) == \E r \in roots : Under(r, target.dir)

Satisfied(rule, act, roots) ==
    CASE rule.kind = "scope_fence" ->
           \/ act.evidence.cross \/ Inside(roots, act.target)
           \/ act.verb # "delete" /\ Under(Scratch, act.target.dir)
      [] rule.kind = "require_evidence" -> act.evidence.disposition # "none"
      [] rule.kind = "predicate" -> act.evidence.disposition = "named"

\* The first block decides; a warning only when nothing blocks.
Evaluate(act, roots) ==
    LET against == {k \in DOMAIN Rules :
                       Triggers(Rules[k], act) /\ ~Satisfied(Rules[k], act, roots)}
        blocks == {k \in against : Rules[k].severity = "block"}
        deciding == IF blocks = {} THEN against ELSE blocks
    IN [allowed |-> blocks = {},
        warned |-> against # {},
        rule |-> IF against = {} THEN "none" ELSE Rules[Min(deciding)].id]

-----------------------------------------------------------------------------
(* What a tool call does.  A shell command is a sequence of parts: a        *)
(* program with an operand, or a redirection of output.  `glued` is a       *)
(* separator written against the operand, which shlex leaves there: the     *)
(* next program and its operand are read as operands of this one, and the   *)
(* operand it sticks to loses its suffix.                                   *)

Programs == {"rm", "tee", "cat"}
Files == {target \in Targets : "path" \in target.facets}
Parts == [does : Programs, target : Files, glued : BOOLEAN]
         \cup [does : {">"}, target : Files, glued : {FALSE}]
Calls ==
    [tool : {"edit", "write"}, parts : [1 .. 1 -> [does : {"none"}, target : Files,
                                                   glued : {FALSE}]]]
    \cup [tool : {"bash"}, parts : UNION {[1 .. n -> Parts] : n \in 0 .. MaxParts}]
    \cup {[tool |-> "read", parts |-> <<>>]}

VerbOf(program) == CASE program = "rm" -> "delete" [] program = "cat" -> "none" [] OTHER -> "write"
Doing(verb, target) == [verb |-> verb, target |-> target, evidence |-> NoEvidence]

\* A write to scratch or to a device is no write to a project.
IsSink(act) == act.verb = "write" /\ Under(Scratch, act.target.dir)

\* The program whose operand the k-th part's operand is read to be.
HeadOf(parts, k) ==
    CHOOSE h \in 1 .. k : /\ \A j \in h .. k - 1 : parts[j].glued
                          /\ h = 1 \/ ~parts[h - 1].glued

\* Redirections come first, wherever in the command they stand.
BashActions(parts) ==
    LET redirects == {k \in DOMAIN parts : parts[k].does = ">"}
        out == Members(parts, redirects)
        rest == Members(parts, DOMAIN parts \ redirects)
        read(k) == Doing(VerbOf(rest[HeadOf(rest, k)].does),
                         IF rest[k].glued THEN [rest[k].target EXCEPT !.facets = {"path"}]
                         ELSE rest[k].target)
        all == [k \in DOMAIN out |-> Doing("write", out[k].target)]
               \o [k \in DOMAIN rest |-> read(k)]
    IN Members(all, {k \in DOMAIN all : all[k].verb # "none" /\ ~IsSink(all[k])})

ActionsFromTool(call) ==
    CASE call.tool = "read" -> <<>>
      [] call.tool = "bash" -> BashActions(call.parts)
      [] OTHER -> <<Doing(call.tool, call.parts[1].target)>>

\* What a call amounts to: its acts, which the gate and the grants judge.
Deeds == {ActionsFromTool(call) : call \in Calls}

\* The first action that blocks decides, else the first that warns.
GateToolCall(acts, roots) ==
    LET verdicts == [k \in DOMAIN acts |-> Evaluate(acts[k], roots)]
        blocked == {k \in DOMAIN acts : ~verdicts[k].allowed}
        warned == {k \in DOMAIN acts : verdicts[k].warned}
    IN IF blocked # {} THEN verdicts[Min(blocked)]
       ELSE IF warned # {} THEN verdicts[Min(warned)]
       ELSE [allowed |-> TRUE, warned |-> FALSE, rule |-> "none"]

-----------------------------------------------------------------------------
(* Grants and the hook's answer.                                            *)

\* Mutant of AuthorizedRoots: the agent may grant itself.
AuthorizedRootsOfAll(held) == UNION {g.roots : g \in {h \in held : h.mine}}

\* Only what the user issued counts, for the tenant at hand.
AuthorizedRoots(held) == UNION {g.roots : g \in {h \in held : h.mine /\ h.user}}

IsAuthorized(target, held) ==
    LET roots == AuthorizedRoots(held)
    IN /\ \E r \in roots : Under(r, Root)
       /\ \E r \in roots : Under(r, target.dir)

\* Every target out of the focus is granted, wherever else the turn may work.
AuthorizeTool(acts, held) ==
    /\ acts # <<>>
    /\ \A k \in DOMAIN acts : \/ Under(Root, acts[k].target.dir)
                              \/ IsAuthorized(acts[k].target, held)

\* An edit that a rule of scope warns of goes through, as a notice or loudly;
\* a call that a rule of scope blocks goes through as a whole if it is granted.
Answer(acts, roots, held) ==
    LET verdict == GateToolCall(acts, roots)
        sanctioned == AuthorizeTool(acts, held)
    IN CASE verdict.allowed /\ ~verdict.warned -> "pass"
         [] verdict.allowed /\ verdict.warned -> IF sanctioned THEN "notice" ELSE "alert"
         [] ~verdict.allowed ->
              IF verdict.rule \in ScopeFenceRuleIds /\ sanctioned THEN "granted" ELSE "deny"

-----------------------------------------------------------------------------
(* The files.  A grant or a revocation (the `cross-project` command) and a  *)
(* registration (every intake, of whichever project) load the file, change  *)
(* the copy and replace the file.  The grants are staged under one name for *)
(* all processes, so a process may publish what another staged, or find its *)
(* own gone and fail; the registry is staged under a name of its own.       *)

VARIABLES granted, \* cross_project.json
          staged,  \* its temporary file: {the grants in it}, or {} when there is none
          known,   \* projects.json: slug -> directory
          moved,   \* directories that no longer exist
          hand,    \* clerk -> its job and the copy it loaded
          meant,   \* history: the grants and names the clerks' jobs should leave
          clash    \* history: two clerks were at work on a file at once

fenceVars == <<granted, staged, known, moved, hand, meant, clash>>

NoHand == [file |-> "none"]
NoRoots == <<>>

FenceInit ==
    /\ granted = {} /\ staged = {}
    /\ known = NoRoots /\ moved = {}
    /\ hand = [c \in Clerks |-> NoHand]
    /\ meant = [grants |-> {}, slugs |-> {}] /\ clash = FALSE

Takes(c, job) ==
    /\ hand[c] = NoHand
    /\ hand' = [hand EXCEPT ![c] = job]
    /\ clash' = (clash \/ \E d \in Clerks : hand[d].file = job.file)
    /\ UNCHANGED <<granted, staged, known, moved, meant>>

\* Mutant of Granting: the new grant replaces the others.
GrantingAlone(c, offer) ==
    Takes(c, [file |-> "grants", at |-> "loaded", copy |-> {offer}, adds |-> {offer}])

Granting(c, offer) ==
    Takes(c, [file |-> "grants", at |-> "loaded", copy |-> granted \cup {offer},
              adds |-> {offer}])

\* revoke_all saves the empty file whatever it loaded.
Revoking(c) == Takes(c, [file |-> "grants", at |-> "loaded", copy |-> {}, adds |-> {}])

Stage(c) ==
    /\ hand[c].file = "grants" /\ hand[c].at = "loaded"
    /\ staged' = {hand[c].copy}
    /\ hand' = [hand EXCEPT ![c].at = "staged"]
    /\ UNCHANGED <<granted, known, moved, meant, clash>>

Publish(c) ==
    /\ hand[c].file = "grants" /\ hand[c].at = "staged"
    /\ granted' = IF staged = {} THEN granted ELSE UNION staged
    /\ staged' = {}
    /\ meant' = [meant EXCEPT !.grants = IF hand[c].adds = {} THEN {} ELSE @ \cup hand[c].adds]
    /\ hand' = [hand EXCEPT ![c] = NoHand]
    /\ UNCHANGED <<known, moved, clash>>

\* A name on file keeps its directory unless that directory is gone.
Learnt(roots, dir) ==
    LET slug == SlugOf(dir) IN
    [s \in DOMAIN roots \cup {slug} |->
        IF s = slug /\ (s \notin DOMAIN roots \/ roots[s] \in moved) THEN dir ELSE roots[s]]

Registering(c, dir) ==
    /\ dir \in Clones \ moved
    /\ Takes(c, [file |-> "registry", copy |-> Learnt(known, dir), slug |-> SlugOf(dir)])

Register(c) ==
    /\ hand[c].file = "registry"
    /\ known' = hand[c].copy
    /\ meant' = [meant EXCEPT !.slugs = @ \cup {hand[c].slug}]
    /\ hand' = [hand EXCEPT ![c] = NoHand]
    /\ UNCHANGED <<granted, staged, moved, clash>>

\* The user moves a project away.
MoveAway(dir) ==
    /\ dir \in Clones \ moved
    /\ moved' = moved \cup {dir}
    /\ UNCHANGED <<granted, staged, known, hand, meant, clash>>

Command(c) ==
    \/ \E offer \in Offers : Granting(c, offer)
    \/ Revoking(c)
    \/ \E dir \in Clones : Registering(c, dir)

Finishes(c) == Stage(c) \/ Publish(c) \/ Register(c)

\* The roots a session may work in: the focus, and those of the projects its
\* turn put in scope, as far as the registry knows them.
ActiveRoots(slugs) == {Root} \cup {known[s] : s \in slugs \cap DOMAIN known}

-----------------------------------------------------------------------------
(* Properties.                                                              *)

Scopes == {roots \in SUBSET (Clones \cup {Root}) : Root \in roots}
Deletes(acts) == {k \in DOMAIN acts : acts[k].verb = "delete"}
IsCode(act) == "code" \in act.target.facets

\* The guard in front of a single action (`saddle guard`, doctrine.py:430):
\* an edit is never refused, a delete passes when it stays in scope or says it
\* crosses on purpose, and, of code, when its disposition is coherent.
GuardDecides ==
    \A verb \in {"edit", "delete"}, target \in Targets, said \in Evidence, roots \in Scopes :
        LET act == [verb |-> verb, target |-> target, evidence |-> said] IN
        Evaluate(act, roots).allowed <=>
            verb = "delete" =>
                /\ said.cross \/ Inside(roots, target) \/ "path" \notin target.facets
                /\ IsCode(act) => said.disposition = "named"

\* The hook's answer to any call, in any scope, under any grants
\* (doctrine_hook.py:735): a refusal has its delete; what is deleted out of
\* scope is granted by the user, who granted the focus too; no grant saves the
\* code of a call that stays in scope, or that comes to the code before it
\* comes to a delete out of scope; no edit is refused, and none leaves the scope
\* unseen; and what an agent grants itself counts for nothing.  This is what
\* the code gives, and less than it says: that a code-safety rule "is NEVER
\* overridden by a grant" (doctrine_hook.py:749) fails for a call whose first
\* refused act is a granted delete out of scope, of code or before code, since
\* only the rule that refused first is looked at.
Justified(acts, roots, grants) ==
    LET answer == Answer(acts, roots, grants)
        stray(k) == ~Inside(roots, acts[k].target)
        by_user == UNION {g.roots : g \in {h \in grants : h.user /\ h.mine}}
    IN /\ answer = "deny" => \E k \in Deletes(acts) : stray(k) \/ IsCode(acts[k])
       /\ answer # "deny" => \A k \in Deletes(acts) :
            /\ stray(k) => \A dir \in {Root, acts[k].target.dir} :
                              \E r \in by_user : Under(r, dir)
            /\ IsCode(acts[k]) => \E j \in Deletes(acts) : j <= k /\ stray(j)
       /\ answer = "pass" => \A k \in DOMAIN acts :
            ~stray(k) \/ Under(Scratch, acts[k].target.dir)
       /\ answer = Answer(acts, roots, {g \in grants : g.user})

\* The focus alone, to which the gate falls back when it cannot read the scope
\* of the turn (doctrine_hook.py:717), lets no more pass unremarked than any
\* scope that might have been read.  (Under a grant it may: a delete it takes
\* for a stray one is granted, one in scope has the code rules to face.)
NarrowerIsStricter ==
    \A acts \in Deeds, roots \in Scopes :
        Answer(acts, {Root}, {}) = "pass" => Answer(acts, roots, {}) = "pass"

Faults(roots) ==
    {<<roots, grants>> : grants \in {some \in SUBSET Offers :
        \E acts \in Deeds : ~Justified(acts, roots, some)}}
Faulty == UNION {Faults(roots) : roots \in Scopes}

\* A registered name is that of its directory, whoever writes over whom and
\* whatever moves (registry.py:65); and as long as no two processes were at work
\* on one file at once, the grants on file are those the user issued since the
\* last revocation, and the names are those registered (crossproject.py:117).
FilesInOrder ==
    /\ \A slug \in DOMAIN known : SlugOf(known[slug]) = slug
    /\ ~clash /\ (\A c \in Clerks : hand[c] = NoHand) =>
          granted = meant.grants /\ DOMAIN known = meant.slugs
=============================================================================
