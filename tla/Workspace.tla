----------------------------- MODULE Workspace -----------------------------
(***************************************************************************)
(* The sessions of a project at their requests (Backlog) beside the        *)
(* commands and the other projects that write what the doctrine gate reads *)
(* (ScopeFence).  A command of the user, a prompt in another project and   *)
(* the removal of a project each count against the prompts of the instance.*)
(***************************************************************************)
EXTENDS Backlog, ScopeFence

WorkInit == Init /\ FenceInit

\* The gate reads the scope on file for the session of the call.
RootsOf(s) == ActiveRoots(scope[s])

Acts ==
    /\ prompts < MaxPrompts /\ prompts' = prompts + 1
    /\ \/ \E c \in Clerks : Command(c)
       \/ \E dir \in Clones : MoveAway(dir)
    /\ UNCHANGED <<rows, rank, scope, stage, memory, spoils>>

WorkNext ==
    \/ Next /\ UNCHANGED fenceVars
    \/ Acts
    \/ (\E c \in Clerks : Finishes(c)) /\ UNCHANGED vars

WorkSpec == WorkInit /\ [][WorkNext]_<<vars, fenceVars>>
-----------------------------------------------------------------------------
(* Properties.                                                              *)

\* What a session's calls are judged by are its focus and directories of the
\* projects its turn was routed to, and the gate judges every call by them, and
\* by the grants on file, as the rules say.
FenceHolds ==
    /\ GuardDecides /\ NarrowerIsStricter
    /\ \A s \in Sessions :
         /\ RootsOf(s) \in Scopes
         /\ <<RootsOf(s), granted>> \notin Faulty

\* The backlog, the gate and the files the gate reads are in order together.
WorkspaceInOrder == BacklogInOrder /\ FenceHolds /\ FilesInOrder
=============================================================================
