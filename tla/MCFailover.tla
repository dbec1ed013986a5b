----------------------------- MODULE MCFailover -----------------------------
(* Instances of Failover for TLC: the local agent leads, MiniMax follows; *)
(* Kimi has no credentials and DeepSeek is switched off.                  *)
EXTENDS Failover

CONSTANTS c1, c2, r1

MCPriority == <<"claude_agent", "deepseek_flash", "minimax", "kimi">>
MCBuilt == {"claude_agent", "minimax", "deepseek_flash"}
MCStyleOf == [p \in MCBuilt |->
    CASE p = "claude_agent" -> "agent" [] p = "minimax" -> "stream" [] OTHER -> "deepseek"]
MCRounds == [c \in Calls |-> IF c = c1 THEN 2 ELSE 1]
MCCap == [p \in MCBuilt |-> 1]
=============================================================================
