---------------------------- MODULE SweepClosing ----------------------------
(***************************************************************************)
(* SweepRun with one history variable, for what the closing of a run       *)
(* records: `calm` says that nothing has disturbed the run so far, that    *)
(* is, no two processes worked on it at once and no acknowledgement was    *)
(* lost.                                                                   *)
(***************************************************************************)
EXTENDS SweepRun

VARIABLE calm

closingVars == <<vars, calm>>

\* No cap, or one that leaves nobody out; a session that has not started has none.
Uncapped(s) == cap[s] = 0 \/ cap[s] >= Discovered

\* A step of a session, and what it does to the calm.
Noted(step) ==
    /\ step
    /\ calm' = (calm /\ Cardinality({s \in Sessions : Alive(s)'}) <= 1
                     /\ ~(\E s \in Sessions : WriteCommitsUnacknowledged(s)))

ClosingInit == Init /\ calm = TRUE

ClosingNext == \E s \in Sessions : Noted(SessionStep(s))

ClosingSpec == ClosingInit /\ [][ClosingNext]_closingVars

\* What the closing of a run records: the totals of the last manifest add up to
\* the population it names, even of sessions that overlap, as long as none of them
\* has a cap (main.rs:1095).  And of a run that nothing disturbed: the manifest
\* agrees with the row, and whenever the count of agents is recorded it is the
\* number of agents that have rows at that moment (main.rs:1326, 1441).
CloseIsExact ==
    [][/\ (\A s \in Sessions : Uncapped(s)') => ManifestTallies'
       /\ calm' => /\ ManifestMatchesRow'
                   /\ row'.agent_count # row.agent_count
                        => row'.agent_count = Cardinality(snaps')]_closingVars

-----------------------------------------------------------------------------
(* What makes it so.                                                       *)

\* Until it has closed, what a session has found, has in hand or has counted is
\* the population it means to sweep, each agent in one place only.
Tallied(s) ==
    /\ pc[s] \in {"idle", "opened"} =>
          todo[s] \cup current[s] \cup swept[s] \cup unreadable[s] \cup unwritable[s] = {}
    /\ pc[s] = "idle" => already[s] = {}
    /\ cap[s] = 0 <=> pc[s] = "idle"
    /\ pc[s] \in {"sweeping", "closed"} => current[s] = {}
    /\ pc[s] = "closed" => todo[s] = {}
    /\ pc[s] \in {"sweeping", "writing", "exporting", "closed"} =>
          /\ Scope(cap[s]) \ already[s] =
                todo[s] \cup current[s] \cup swept[s] \cup unreadable[s] \cup unwritable[s]
          /\ todo[s] \cap (current[s] \cup swept[s] \cup unreadable[s] \cup unwritable[s]) = {}
          /\ current[s] \cap (swept[s] \cup unreadable[s] \cup unwritable[s]) = {}
          /\ swept[s] \cap (unreadable[s] \cup unwritable[s]) = {}
          /\ unreadable[s] \cap unwritable[s] = {}

\* While nothing disturbs a run, what has rows is what the session at work has
\* found, swept, or just written; and the manifest has no totals but of a
\* session that closed the run and is gone.
CalmOf(s) ==
    /\ pc[s] \in {"opened", "sweeping", "writing", "closed"} => snaps = already[s] \cup swept[s]
    /\ pc[s] = "exporting" => snaps = already[s] \cup swept[s] \cup current[s]
    /\ pc[s] \in {"sweeping", "writing", "exporting", "closed"} => manifest.swept = Null
    /\ pc[s] = "closed" /\ row.status = "finished" => row.agent_count = TotalSwept(s)

ClosingInv ==
    /\ \A s \in Sessions : Tallied(s)
    /\ (\A s \in Sessions : Uncapped(s)) => ManifestTallies
    /\ row.status = "none" => snaps = {} /\ \A s \in Sessions : pc[s] = "idle"
    /\ calm =>
          /\ \A s, t \in Sessions : Alive(s) /\ Alive(t) => s = t
          /\ ManifestMatchesRow
          /\ \A s \in Sessions : CalmOf(s)

=============================================================================
