----------------------------- MODULE Commitment -----------------------------
(***************************************************************************)
(* What the pick ledger and the live goal promise together: the goal the   *)
(* agent is held to is the user's latest pick that the user has not        *)
(* retired.  It changes only by the user's word.  It is retired only after *)
(* the user was asked about that very pick while it stood, and a retired   *)
(* pick never stands again; the one before it does.                        *)
(***************************************************************************)
EXTENDS Naturals, Sequences, FiniteSetsExt

VARIABLES
    picks,      \* the forks the user has picked an option of, in order; never 0
    retired,    \* those the user has retired
    asked       \* the fork whose retirement the user is asked about, or 0

vars == <<picks, retired, asked>>

\* The position of the standing pick, 0 for none.
LivePick(ps, gone) ==
    LET standing == {i \in DOMAIN ps : ps[i] \notin gone}
    IN IF standing = {} THEN 0 ELSE Max(standing)

LiveFork(ps, gone) == IF LivePick(ps, gone) = 0 THEN 0 ELSE ps[LivePick(ps, gone)]
Live == LiveFork(picks, retired)

Init == picks = <<>> /\ retired = {} /\ asked = 0

UserPicks ==
    /\ picks' # <<>> /\ picks'[Len(picks')] \in Nat \ ({0} \union retired)
    /\ picks' = Append(picks, picks'[Len(picks')])
    /\ UNCHANGED <<retired, asked>>

Ask == Live # 0 /\ asked' = Live /\ UNCHANGED <<picks, retired>>

Withdraw == asked' = 0 /\ UNCHANGED <<picks, retired>>

\* The question may outlive the answer, when its file cannot be removed.
UserRetires ==
    /\ Live # 0 /\ asked = Live
    /\ retired' = retired \union {Live}
    /\ asked' \in {0, asked}
    /\ UNCHANGED picks

Next == UserPicks \/ Ask \/ Withdraw \/ UserRetires

Spec == Init /\ [][Next]_vars
=============================================================================
