--------------------------- MODULE StandingRules ---------------------------
(***************************************************************************)
(* The standing rules of a project (llm/policy.py): a list in an overlay   *)
(* file that `promote_directive` and `demote_directive` read, truncate and *)
(* rewrite under a file lock, and that `directives` reads without it.  The *)
(* sessions and the command line are processes of their own; a write that  *)
(* fails and a process that dies lose the lock and leave the file as it is.*)
(***************************************************************************)
EXTENDS FiniteSets

CONSTANTS Sessions, \* the processes that orchestrate
          User,     \* the command line, which promotes and demotes
          Rules     \* the rules a user may state

ASSUME UserAssumption == User \notin Sessions

Writers == Sessions \cup {User}

VARIABLES file,     \* what the overlay file says; an unreadable one says {}
          writer,   \* who holds the lock and has truncated the file: {} or {w}
          buffer,   \* what the writer is about to write
          standing, \* ghost: the rules promoted and not demoted since
          cut       \* ghost: a write was cut short

ruleVars == <<file, writer, buffer, standing, cut>>

RulesInit ==
    /\ file = {} /\ writer = {} /\ buffer = {}
    /\ standing = {} /\ cut = FALSE

\* Mutant of MayWrite: there is no lock around the read, change and write.
MayWriteUnlocked(w) == writer \subseteq Writers

MayWrite(w) == writer = {}

\* The lock is taken, the file read and truncated.
Truncate(w, rules) ==
    /\ MayWrite(w)
    /\ writer' = {w} /\ buffer' = rules /\ file' = {}
    /\ UNCHANGED cut

BeginPromote(s, rule) ==
    /\ rule \notin file
    /\ Truncate(s, file \cup {rule}) /\ standing' = standing \cup {rule}

\* A rule that is there already is not written again.
Promoted(s, rule) == MayWrite(s) /\ rule \in file /\ UNCHANGED ruleVars

BeginDemote(w, rule) ==
    /\ rule \in file
    /\ Truncate(w, file \ {rule}) /\ standing' = standing \ {rule}

\* Mutant of EndWrite: the lock is not given back.
EndWriteLocked(w) ==
    /\ writer = {w}
    /\ file' = buffer /\ buffer' = {}
    /\ UNCHANGED <<writer, standing, cut>>

EndWrite(w) ==
    /\ writer = {w}
    /\ file' = buffer /\ writer' = {} /\ buffer' = {}
    /\ UNCHANGED <<standing, cut>>

\* The end of process w, or of its write, wherever it is.
DropLock(w) ==
    IF writer = {w} THEN /\ writer' = {} /\ buffer' = {} /\ cut' = TRUE
                         /\ UNCHANGED <<file, standing>>
                    ELSE UNCHANGED ruleVars

RulesTypeOK ==
    /\ file \subseteq Rules /\ buffer \subseteq Rules /\ standing \subseteq Rules
    /\ \E w \in Writers : writer \subseteq {w}
    /\ cut \in BOOLEAN

\* "a cross-process lock so two concurrent promotions can't lose-update each
\* other" (policy.py:297), nor a demotion: until a write is cut short, every
\* rule that stands is in the file or about to be written back to it.
RulesSafe == cut \/ standing \subseteq file \cup buffer
=============================================================================
