---------------------------- MODULE MCDesignGate ----------------------------
(* Instances of DesignGate for TLC.  The slots are interchangeable; the    *)
(* turn bound ends every behaviour.                                        *)
EXTENDS DesignGate, TLC

Slots == Permutations(Edits)
=============================================================================
