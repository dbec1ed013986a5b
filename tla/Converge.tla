------------------------------ MODULE Converge ------------------------------
(***************************************************************************)
(* The convergence loop (converge.py): a coder is driven round by round    *)
(* against the completeness surface of a design, and a gate re-reads the   *)
(* code after each of its turns.  The gate is a filter of the surface: the *)
(* declared sites that the code, as it is now, leaves open.  Others edit   *)
(* the same code meanwhile.                                                *)
(***************************************************************************)
EXTENDS Naturals, FiniteSets, Sequences, SequencesExt

CONSTANTS Drivers,     \* who may run the loop
          Sites,       \* the code sites a surface may name
          MaxRounds,   \* max_rounds, at least 1
          StallRepeat, \* stall_repeat, at least 2
          TurnRetries  \* turn_retries

ASSUME ConvergeAssumption ==
    MaxRounds \in Nat \ {0} /\ StallRepeat \in Nat \ {0, 1} /\ TurnRetries \in Nat

VARIABLES open, \* the sites the code leaves open now, {} while nobody looks
          drive \* the loop of each driver

convergeVars == <<open, drive>>

NoDrive == [phase |-> "idle", design |-> 0, surface |-> {}, gaps |-> {}, round |-> 0,
            tries |-> 0, history |-> <<>>, fresh |-> FALSE, outcome |-> "none"]

Outcomes == {"none", "converged", "already_satisfied", "stalled", "exhausted",
             "no_surface", "coder_failed", "coder_unavailable"}
OkOutcomes == {"converged", "already_satisfied"}

ConvergeInit == open = {} /\ drive = [s \in Drivers |-> NoDrive]

Driving == {s \in Drivers : drive[s].phase # "idle"}

Gate(s) == drive[s].surface \cap open

\* The outcome is settled; what is left is to write it on the design.
Halt(s, outcome, gaps) ==
    drive' = [drive EXCEPT ![s].phase = "report", ![s].outcome = outcome, ![s].gaps = gaps]

Converging(s, design, surface) ==
    /\ drive[s].phase = "idle"
    /\ drive' = [drive EXCEPT ![s].phase = "gate", ![s].design = design,
                              ![s].surface = surface]
    /\ IF Driving = {} THEN open' \in SUBSET Sites ELSE UNCHANGED open

FirstGate(s) ==
    /\ drive[s].phase = "gate"
    /\ \/ drive[s].surface = {} /\ Halt(s, "no_surface", {})
       \/ drive[s].surface # {} /\ Gate(s) = {}
          /\ drive' = [drive EXCEPT ![s].phase = "report", ![s].fresh = TRUE,
                                    ![s].outcome = "already_satisfied"]
       \/ Gate(s) # {}
          /\ drive' = [drive EXCEPT ![s].phase = "connect", ![s].gaps = Gate(s),
                                    ![s].fresh = TRUE]
    /\ UNCHANGED open

Connect(s) ==
    /\ drive[s].phase = "connect"
    /\ drive' = [drive EXCEPT ![s].phase = "turn", ![s].round = 1]
    /\ UNCHANGED open

ConnectFails(s) ==
    /\ drive[s].phase = "connect"
    /\ Halt(s, "coder_unavailable", drive[s].gaps)
    /\ UNCHANGED open

\* A turn edits the code as the coder likes, and so does one that crashes.
Turn(s) ==
    /\ drive[s].phase = "turn"
    /\ open' \in SUBSET Sites
    /\ drive' = [drive EXCEPT ![s].phase = "regate", ![s].fresh = FALSE]

\* Mutant of CrashedTurn: the loop is over with the gaps it had.
CrashedTurnExhausts(s) ==
    /\ drive[s].phase = "turn"
    /\ open' \in SUBSET Sites
    /\ drive' = [drive EXCEPT ![s].phase = "report", ![s].fresh = FALSE,
                              ![s].outcome = "exhausted"]

CrashedTurn(s) ==
    /\ drive[s].phase = "turn"
    /\ open' \in SUBSET Sites
    /\ IF drive[s].tries < TurnRetries
       THEN drive' = [drive EXCEPT ![s].tries = @ + 1, ![s].fresh = FALSE]
       ELSE drive' = [drive EXCEPT ![s].phase = "report", ![s].fresh = FALSE,
                                   ![s].outcome = "coder_failed"]

Occurrences(list, x) == Cardinality({k \in DOMAIN list : list[k] = x})

Regate(s) ==
    /\ drive[s].phase = "regate"
    /\ LET after == Gate(s)
           history == Append(drive[s].history, after)
           outcome == IF after = {} THEN "converged"
                      ELSE IF Occurrences(history, after) >= StallRepeat THEN "stalled"
                      ELSE IF drive[s].round = MaxRounds THEN "exhausted"
                      ELSE "none"
       IN drive' = [drive EXCEPT
              ![s].phase = IF outcome = "none" THEN "turn" ELSE "report",
              ![s].round = IF outcome = "none" THEN @ + 1 ELSE @,
              ![s].tries = 0, ![s].fresh = TRUE, ![s].gaps = after,
              ![s].history = history, ![s].outcome = outcome]
    /\ UNCHANGED open

DriveEnds(s) ==
    /\ drive' = [drive EXCEPT ![s] = NoDrive]
    /\ open' = IF Driving \subseteq {s} THEN {} ELSE open

\* The agents, and the user, edit the code whenever they like.
EditCode == Driving # {} /\ open' \in SUBSET Sites /\ UNCHANGED drive

Drive(s) == FirstGate(s) \/ Connect(s) \/ Turn(s) \/ Regate(s)

ConvergeTypeOK ==
    /\ open \subseteq Sites
    /\ \A s \in Drivers :
         /\ drive[s].phase \in {"idle", "gate", "connect", "turn", "regate", "report"}
         /\ drive[s].surface \subseteq Sites /\ drive[s].gaps \subseteq drive[s].surface
         /\ drive[s].round \in 0 .. MaxRounds /\ drive[s].tries \in 0 .. TurnRetries
         /\ drive[s].outcome \in Outcomes

\* "your own claim that the work is done is never trusted" (converge.py:89):
\* a run that ends well had a surface, and the gate found nothing open after
\* the coder's last edit; one that ends badly names what the gate found open
\* after that edit, unless the coder crashed in the turn.
VerdictIsGated ==
    \A s \in Drivers : drive[s].phase = "report" =>
        /\ drive[s].outcome \in OkOutcomes =>
             drive[s].surface # {} /\ drive[s].gaps = {} /\ drive[s].fresh
        /\ drive[s].outcome \notin OkOutcomes \cup {"no_surface"} => drive[s].gaps # {}
        /\ drive[s].fresh \/ drive[s].outcome \in {"no_surface", "coder_failed"}
        /\ drive[s].outcome = "stalled" =>
             Occurrences(drive[s].history, drive[s].gaps) >= StallRepeat
=============================================================================
