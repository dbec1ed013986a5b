----------------------------- MODULE MCBacklog -----------------------------
(* An instance of Workspace: a task, a standing rule and a remark; two      *)
(* clones of a sibling project, one within the other.                       *)
EXTENDS Workspace, TLC

CONSTANTS Fix, Rule, Remark, Clone, Nested, Tmp

KindOfAsk(ask) == CASE ask = Fix -> "task" [] ask = Rule -> "directive" [] ask = Remark -> "context"

SlugOfDir(dir) == CHOOSE slug \in Siblings : TRUE
Nesting == {<<Clone, Nested>>}

\* The user's grant of both projects, and the agent's of its own.
SomeOffers == {[roots |-> {Root, Clone}, user |-> TRUE, mine |-> TRUE],
               [roots |-> {Root, Nested}, user |-> FALSE, mine |-> TRUE]}

WorkSymmetry == Permutations(Sessions) \cup Permutations(Clerks)
=============================================================================
