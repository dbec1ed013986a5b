------------------------------- MODULE Dialog -------------------------------
(***************************************************************************)
(* What saddle reads in the dialog (dialog.py, ids.py): a choice the agent *)
(* offers, the user's pick, and the verdict on an action of the agent's    *)
(* against the pick that stands.  Pure definitions; IntentLedger runs them.*)
(***************************************************************************)
EXTENDS Selection, Sequences, SequencesExt

\* Labels of options: one letter, or a number.
Letters == {"a", "b"}
Digits == {"1", "2"}
Labels == Letters \union Digits
NoLabel == "none"

\* An agent's message, as far as it is read: its labelled lines (each with a
\* label and whether its text is marked as recommended), whether its framing
\* line asks for a decision, and the label its prose recommends.
-----------------------------------------------------------------------------
Lines == [label : Labels, recommended : BOOLEAN]

\* Where each label of a kind comes first.
Of(lines, kind) ==
    {i \in DOMAIN lines : /\ lines[i].label \in kind
                          /\ \A j \in DOMAIN lines : j < i => lines[j].label # lines[i].label}

\* The larger of the lettered and the numbered group, the lettered one when
\* they are even; a bare numbered list is prose, not a choice.
ParseOptions(message) ==
    LET alpha == Of(message.lines, Letters)
        digit == Of(message.lines, Digits)
        group == IF Cardinality(alpha) >= Cardinality(digit) THEN alpha ELSE digit
    IN IF Cardinality(group) < 2 \/ (group = digit /\ ~message.framed)
       THEN <<>>
       ELSE Members(message.lines, group)

Marked(options) == {i \in DOMAIN options : options[i].recommended}

\* Mutant of Recommended: the prose may recommend what is not offered.
RecommendedUnchecked(options, message) ==
    IF Marked(options) # {} THEN options[Min(Marked(options))].label ELSE message.favours

\* The option marked in its own text, or else the one the prose recommends.
Recommended(options, message) ==
    IF Marked(options) # {} THEN options[Min(Marked(options))].label
    ELSE IF message.favours \in {options[i].label : i \in DOMAIN options}
         THEN message.favours ELSE NoLabel

IsFork(message) == ParseOptions(message) # <<>>

\* A fork, before the store numbers it.
ParseFork(message) ==
    LET options == ParseOptions(message)
    IN [labels |-> [i \in DOMAIN options |-> options[i].label],
        best |-> Recommended(options, message)]

-----------------------------------------------------------------------------
(* The user's reply: a label, a position, the last one, "your call", or no *)
(* pick at all.                                                            *)

NoPick == [made |-> FALSE, label |-> NoLabel]
Pick(label) == [made |-> label # NoLabel, label |-> label]

\* An unresolved reply binds nothing, so it is like no pick here; the ledger
\* keeps it, and asks.
ResolveSelection(fork, reply) ==
    CASE reply.kind = "label"    -> Pick(IF reply.label \in ToSet(fork.labels)
                                         THEN reply.label ELSE NoLabel)
      [] reply.kind = "position" -> Pick(IF reply.n \in DOMAIN fork.labels
                                         THEN fork.labels[reply.n] ELSE NoLabel)
      [] reply.kind = "last"     -> Pick(Last(fork.labels))
      [] reply.kind = "defer"    -> Pick(fork.best)
      [] OTHER                   -> NoPick

-----------------------------------------------------------------------------
(* check_action: the agent cites a fork and an option of it, or names a    *)
(* bare label.  forks is the ledger, bound the fork of the standing pick   *)
(* and picked its option, open the forks still open.                       *)

Quiet(status) == [status |-> status, surface |-> FALSE]
Loud(status) == [status |-> status, surface |-> TRUE]

\* A citation counts only when it names a fork of the ledger.
CiteVerdict(forks, bound, picked, choice) ==
    IF choice.fork # bound THEN Loud("drift")
    ELSE IF choice.label = picked THEN Quiet("aligned") ELSE Loud("drift")

OpenCarriers(forks, open, bound, label) ==
    {f \in open : label \in ToSet(forks[f].labels)}

\* The committed fork is always among those a bare label may refer to.
Carriers(forks, open, bound, label) ==
    {f \in open \union {bound} : label \in ToSet(forks[f].labels)}

LabelVerdict(forks, open, bound, picked, label) ==
    LET carriers == Carriers(forks, open, bound, label) IN
    CASE carriers = {}                          -> Quiet("unknown")
      [] carriers = {bound} /\ label = picked   -> Quiet("aligned")
      [] carriers = {bound} /\ label # picked   -> Loud("drift")
      [] OTHER                                  -> Loud("unknown")
=============================================================================
