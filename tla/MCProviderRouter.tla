-------------------------- MODULE MCProviderRouter --------------------------
(* An instance of ProviderRouter: MiniMax and the local claude CLI in       *)
(* spread mode, one slot each to begin with.                                *)
EXTENDS ProviderRouter

CONSTANTS minimax, claude

MCOrder == <<claude, minimax>>
MCFloor == [p \in Providers |-> 1]
=============================================================================
