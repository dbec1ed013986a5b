---------------------------- MODULE MCDesignLoop ----------------------------
(* An instance of DesignLoop: three callers of two families.               *)
EXTENDS DesignLoop, TLC

CONSTANTS Lead, Opus, Sonnet, Glm

Family(caller) == IF caller = Glm THEN "zhipu" ELSE "anthropic"
Order == <<Opus, Sonnet, Glm>>
KindsOfSession(s) == {"orchestrate"} \cup
    IF s = Lead THEN {} ELSE {"propose", "council", "remember", "harvest", "converge"}

Plain(asks, said, dry) == [asks |-> asks, said |-> said, dry |-> dry]
PromptsOfSession(s) ==
    {Plain({}, Rules, FALSE)} \cup
    IF s = Lead THEN {Plain(Asks, {}, TRUE), Plain({CHOOSE a \in Asks : TRUE}, {}, FALSE)} ELSE {}
NoneOrTwo == {{}, Sites}
=============================================================================
