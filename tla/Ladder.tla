------------------------------- MODULE Ladder -------------------------------
(***************************************************************************)
(* crates/checks/src/ladder.rs: the one place skip-propagation is decided. *)
(*                                                                         *)
(* The raw results of an agent are a function from the rungs that were     *)
(* judged to their statuses; a rung outside its domain was not asked, which *)
(* is not the same as skipped.  The ladder turns them into rows.           *)
(***************************************************************************)
EXTENDS Integers

Rungs    == 1 .. 7
Statuses == {"pass", "fail", "error", "refused", "unclaimed", "unprobeable", "skipped"}

\* Mutant: a rung depends on the one below, whatever it asks.
DependsOn_numeric == <<0, 1, 2, 3, 4, 5, 6>>

\* The rung that each rung needs to have passed, 0 for none: documents 1 to 5,
\* services 6 on 4, reputation 7 on 1.
DependsOn == <<0, 1, 2, 3, 4, 4, 1>>

\* Why a row is skipped: the rung that stopped it, and its status.
NoStop == <<0, "none">>
Row(status)   == [status |-> status, because |-> NoStop]
Skipped(stop) == [status |-> "skipped", because |-> stop]
Rows == [status : Statuses, because : {NoStop} \cup (Rungs \X Statuses)]

\* stopper_by_rung: what stops the rungs that depend on this one.
Stopper(raw) ==
    LET stopped[r \in 0 .. 7] ==
            IF r \notin DOMAIN raw THEN NoStop
            ELSE IF stopped[DependsOn[r]] # NoStop THEN stopped[DependsOn[r]]
            ELSE IF raw[r] # "pass" THEN <<r, raw[r]>>
            ELSE NoStop
    IN  stopped

RunLadder(raw) ==
    LET stopped == Stopper(raw)
    IN  [r \in DOMAIN raw |->
            IF stopped[DependsOn[r]] # NoStop
            THEN Skipped(stopped[DependsOn[r]]) ELSE Row(raw[r])]
=============================================================================
