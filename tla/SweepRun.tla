------------------------------ MODULE SweepRun ------------------------------
(***************************************************************************)
(* The life of ONE census run (a row of the table runs) under the sweeper  *)
(* processes that work on it: the one that opens it and the ones that      *)
(* resume it (SWEEP_RESUME).  crates/sweeper/src/{main,store,export}.rs.   *)
(*                                                                         *)
(* A session is a process.  It reads the run, enumerates the ids at the    *)
(* pinned block, and for each id that had no row when it looked either     *)
(* counts it unreadable, or writes its rows in one transaction that is     *)
(* retried while the error is transient, and then its export file.  Beside *)
(* the main task a watchdog task may mark the run stalled and end the      *)
(* process; an error that leaves sweep() marks it failed.                  *)
(*                                                                         *)
(* Counters are kept as the sets of agents they count.  When the watchdog  *)
(* decides to fire is the subject of StallWatchdog; here it may fire at    *)
(* any time.                                                               *)
(***************************************************************************)
EXTENDS Integers, FiniteSets

CONSTANTS
    Sessions,      \* the sweeper processes that may work on the run
    Discovered,    \* how many agents exist at the pinned block (ids 0..Discovered-1)
    Caps,          \* values of SWEEP_MAX_AGENTS; a cap >= Discovered caps nothing
    MaxAttempts,   \* store::MAX_ATTEMPTS
    Faults,        \* the faults the environment may produce, see FaultKinds
    Overlap        \* may a session start while another one is alive?

FaultKinds == {"rpc",       \* a chain read fails
               "db",        \* a statement or transaction fails and has no effect
               "bad_data",  \* the database refuses this agent's rows for good
               "lost_ack",  \* a transaction commits and the acknowledgement is lost
               "disk",      \* an export file or the manifest cannot be written
               "crash",     \* the process is killed
               "watchdog"}  \* the watchdog decides to stop the run

ASSUME SweepAssumption ==
    /\ Discovered \in Nat
    /\ Caps \subseteq Nat \ {0}
    /\ MaxAttempts \in Nat \ {0}
    /\ Faults \subseteq FaultKinds
    /\ Overlap \in BOOLEAN
    /\ IsFiniteSet(Sessions)

VARIABLES
    row,         \* the run's row: status, agent_count, whether failure_reason is set
    snaps,       \* agents with a snapshot, an archive and all their check results
    files,       \* agents with an export file under data/<run_id>/
    manifest,    \* the manifest.json last written
    pc,          \* of each session: where its main task is
    cap,         \* SWEEP_MAX_AGENTS
    already,     \* swept_agent_ids, read when the run was loaded
    todo,        \* ids the stream has not yielded yet
    current,     \* the agent in hand, at most one
    attempt,     \* attempts of retry_transient on it
    swept,       \* agents counted as swept,
    unreadable,  \* unreadable,
    unwritable,  \* and unwritable
    watchdog     \* the watchdog task

db     == <<row, snaps>>
disk   == <<files, manifest>>
loaded == <<cap, already>>
work   == <<todo, current, attempt>>
tally  == <<swept, unreadable, unwritable>>
vars   == <<db, disk, pc, loaded, work, tally, watchdog>>

Agents == 0 .. Discovered - 1

Null == -1     \* an SQL NULL, a JSON null

\* The ids a session means to sweep: the first n of the enumeration.
Scope(n) == {a \in Agents : a < n}

Fault(f) == f \in Faults

-----------------------------------------------------------------------------
Phases == {"idle", "opened", "sweeping", "writing", "exporting", "closed",
           "erring", "exited"}

Count == Nat \cup {Null}

TypeOK ==
    /\ row \in [status : {"none", "running", "finished", "stalled", "failed"},
                agent_count : Count,
                failure_reason : BOOLEAN]
    /\ snaps \in SUBSET Agents
    /\ files \in SUBSET Agents
    /\ manifest \in [planned : Count, swept : Count, unreadable : Count, unwritable : Count]
    /\ pc \in [Sessions -> Phases]
    /\ cap \in [Sessions -> Nat]
    /\ attempt \in [Sessions -> 1 .. MaxAttempts]
    /\ watchdog \in [Sessions -> {"off", "armed", "fired"}]
    /\ already \in [Sessions -> SUBSET Agents]
    /\ todo \in [Sessions -> SUBSET Agents]
    /\ current \in [Sessions -> SUBSET Agents]
    /\ swept \in [Sessions -> SUBSET Agents]
    /\ unreadable \in [Sessions -> SUBSET Agents]
    /\ unwritable \in [Sessions -> SUBSET Agents]

NoManifest == [planned |-> Null, swept |-> Null, unreadable |-> Null, unwritable |-> Null]

Init ==
    /\ row = [status |-> "none", agent_count |-> Null, failure_reason |-> FALSE]
    /\ snaps = {}
    /\ files = {}
    /\ manifest = NoManifest
    /\ pc = [s \in Sessions |-> "idle"]
    /\ cap = [s \in Sessions |-> 0]
    /\ attempt = [s \in Sessions |-> 1]
    /\ watchdog = [s \in Sessions |-> "off"]
    /\ already = [s \in Sessions |-> {}]
    /\ todo = already /\ current = already
    /\ swept = already /\ unreadable = already /\ unwritable = already

-----------------------------------------------------------------------------
(* Steps of a session.                                                     *)

Alive(s) == pc[s] \notin {"idle", "exited"}

Goto(s, phase) == pc' = [pc EXCEPT ![s] = phase]

\* The weekly script runs one sweeper at a time; nothing in the sweeper itself
\* keeps a second process from resuming a run that is still being swept.
MayStart(s) ==
    /\ pc[s] = "idle"
    /\ Overlap \/ \A t \in Sessions : ~Alive(t)

\* CURRENT_RUN is set and the watchdog starts.
StartSession(s) ==
    /\ Goto(s, "opened")
    /\ watchdog' = [watchdog EXCEPT ![s] = "armed"]
    /\ \E n \in Caps : cap' = [cap EXCEPT ![s] = n]
    /\ UNCHANGED <<disk, work, tally>>

\* A fresh run: open_run inserts the row.
OpenRun(s) ==
    /\ MayStart(s)
    /\ row.status = "none"
    /\ row' = [row EXCEPT !.status = "running"]
    /\ StartSession(s)
    /\ UNCHANGED <<snaps, already>>

\* Mutant: the ids already swept are not read.
ResumeRun_forgets(s) ==
    /\ MayStart(s)
    /\ row.status # "none"
    /\ StartSession(s)
    /\ UNCHANGED <<db, already>>

\* SWEEP_RESUME: load_run looks at no status and changes none; the ids that
\* already have a row are read now and used after the enumeration.
ResumeRun(s) ==
    /\ MayStart(s)
    /\ row.status # "none"
    /\ already' = [already EXCEPT ![s] = snaps]
    /\ StartSession(s)
    /\ UNCHANGED db

\* enumerate_agent_ids, the cap, the resume filter, the first manifest, the
\* registration pre-pass (whose failure is not fatal).
Enumerate(s) ==
    /\ pc[s] = "opened"
    /\ todo' = [todo EXCEPT ![s] = Scope(cap[s]) \ already[s]]
    /\ manifest' = [NoManifest EXCEPT !.planned = Cardinality(Scope(cap[s]))]
    /\ Goto(s, "sweeping")
    /\ UNCHANGED <<db, files, loaded, current, attempt, tally, watchdog>>

\* `?` leaves sweep() for the error boundary of main().
Abort(s) ==
    /\ Goto(s, "erring")
    /\ UNCHANGED <<db, disk, loaded, work, tally, watchdog>>

\* The enumeration fails, or the first manifest cannot be written.
EnumerateFails(s) ==
    /\ pc[s] = "opened"
    /\ Fault("rpc") \/ Fault("disk")
    /\ Abort(s)

\* snapshot() or the reputation read fails: counted, never recorded.
Unreadable(s) ==
    /\ pc[s] = "sweeping"
    /\ Fault("rpc")
    /\ \E a \in todo[s] :
         /\ todo' = [todo EXCEPT ![s] = @ \ {a}]
         /\ unreadable' = [unreadable EXCEPT ![s] = @ \cup {a}]
    /\ UNCHANGED <<db, disk, pc, loaded, current, attempt, swept, unwritable, watchdog>>

\* The stream is unordered: any remaining id may be the next one in hand.
TakeAgent(s) ==
    /\ pc[s] = "sweeping"
    /\ \E a \in todo[s] :
         /\ todo' = [todo EXCEPT ![s] = @ \ {a}]
         /\ current' = [current EXCEPT ![s] = {a}]
    /\ attempt' = [attempt EXCEPT ![s] = 1]
    /\ Goto(s, "writing")
    /\ UNCHANGED <<db, disk, loaded, tally, watchdog>>

\* Db::write_agent commits: three inserts, one transaction.  The primary key
\* (run, agent) lets it commit only when there is no row yet.
Commits(s) ==
    /\ pc[s] = "writing"
    /\ current[s] \cap snaps = {}
    /\ snaps' = snaps \cup current[s]

WriteCommits(s) ==
    /\ Commits(s)
    /\ Goto(s, "exporting")
    /\ UNCHANGED <<row, disk, loaded, work, tally, watchdog>>

\* What the loop does with an error that retry_transient gives back.
GiveUp(s) ==
    /\ Goto(s, "sweeping")
    /\ current' = [current EXCEPT ![s] = {}]
    /\ unwritable' = [unwritable EXCEPT ![s] = @ \cup current[s]]
    /\ UNCHANGED <<todo, attempt, swept, unreadable>>

\* Mutant: `attempt >= MAX_ATTEMPTS` is not tested.
RetryOrGiveUp_forever(s) ==
    /\ attempt' = [attempt EXCEPT ![s] = IF @ < MaxAttempts THEN @ + 1 ELSE 1]
    /\ UNCHANGED <<pc, todo, current, tally>>

\* retry_transient after a transient error.
RetryOrGiveUp(s) ==
    \/ /\ attempt[s] < MaxAttempts
       /\ attempt' = [attempt EXCEPT ![s] = @ + 1]
       /\ UNCHANGED <<pc, todo, current, tally>>
    \/ /\ attempt[s] >= MaxAttempts
       /\ GiveUp(s)

\* A transient error; the transaction rolled back.
WriteFailsTransiently(s) ==
    /\ pc[s] = "writing"
    /\ Fault("db")
    /\ RetryOrGiveUp(s)
    /\ UNCHANGED <<db, disk, loaded, watchdog>>

\* A transient error (Io) at the commit, which the server did carry out.
WriteCommitsUnacknowledged(s) ==
    /\ Commits(s)
    /\ Fault("lost_ack")
    /\ RetryOrGiveUp(s)
    /\ UNCHANGED <<row, disk, loaded, watchdog>>

\* A permanent error: the data is refused, or the row exists (SQLSTATE 23505).
WriteRefused(s) ==
    /\ pc[s] = "writing"
    /\ Fault("bad_data") \/ current[s] \subseteq snaps
    /\ GiveUp(s)
    /\ UNCHANGED <<db, disk, loaded, watchdog>>

\* export::write_agent, only after the commit; then the agent counts as swept.
Export(s) ==
    /\ pc[s] = "exporting"
    /\ files' = files \cup current[s]
    /\ swept' = [swept EXCEPT ![s] = @ \cup current[s]]
    /\ current' = [current EXCEPT ![s] = {}]
    /\ Goto(s, "sweeping")
    /\ UNCHANGED <<db, manifest, loaded, todo, attempt, unreadable, unwritable, watchdog>>

\* The file cannot be written: the error ends the sweep, not the agent.
ExportFails(s) ==
    /\ pc[s] = "exporting"
    /\ Fault("disk")
    /\ Abort(s)

StreamDone(s) == pc[s] = "sweeping" /\ todo[s] = {}

TotalSwept(s) == Cardinality(already[s]) + Cardinality(swept[s])

\* Mutant: the guard on the cap is missing, as before it was written.
CloseRun_capped(s) ==
    /\ StreamDone(s)
    /\ row' = [row EXCEPT !.status = "finished", !.agent_count = TotalSwept(s)]
    /\ Goto(s, "closed")
    /\ UNCHANGED <<snaps, disk, loaded, work, tally, watchdog>>

\* store::close_run.  It looks at no status and leaves failure_reason alone.
CloseRun(s) ==
    /\ StreamDone(s)
    /\ cap[s] >= Discovered
    /\ row' = [row EXCEPT !.status = "finished", !.agent_count = TotalSwept(s)]
    /\ Goto(s, "closed")
    /\ UNCHANGED <<snaps, disk, loaded, work, tally, watchdog>>

\* store::fail_run.
FailRun(status) == row' = [row EXCEPT !.status = status, !.failure_reason = TRUE]

\* A capped session closes the run as stalled: a truncated sweep is no census.
ClosePartial(s) ==
    /\ StreamDone(s)
    /\ cap[s] < Discovered
    /\ FailRun("stalled")
    /\ Goto(s, "closed")
    /\ UNCHANGED <<snaps, disk, loaded, work, tally, watchdog>>

\* The closing UPDATE fails.
CloseFails(s) ==
    /\ StreamDone(s)
    /\ Fault("db")
    /\ Abort(s)

\* The last manifest, with the totals; then sweep() and the process return.
FinalManifest(s) ==
    /\ pc[s] = "closed"
    /\ manifest' = [planned    |-> Cardinality(Scope(cap[s])),
                    swept      |-> TotalSwept(s),
                    unreadable |-> Cardinality(unreadable[s]),
                    unwritable |-> Cardinality(unwritable[s])]
    /\ Goto(s, "exited")
    /\ UNCHANGED <<db, files, loaded, work, tally, watchdog>>

FinalManifestFails(s) ==
    /\ pc[s] = "closed"
    /\ Fault("disk")
    /\ Abort(s)

\* An UPDATE of the row that may fail, in which case only the log knows.
TryFailRun(status) == FailRun(status) \/ (Fault("db") /\ UNCHANGED row)

\* The error boundary of main(): mark the run failed, best effort, and return.
ErrorBoundary(s) ==
    /\ pc[s] = "erring"
    /\ TryFailRun("failed")
    /\ Goto(s, "exited")
    /\ UNCHANGED <<snaps, disk, loaded, work, tally, watchdog>>

-----------------------------------------------------------------------------
(* The watchdog task of the same process, and the end of the process.      *)

\* fail_run(stalled); the main task keeps running until the process exits.
WatchdogFires(s) ==
    /\ Fault("watchdog")
    /\ Alive(s)
    /\ watchdog[s] = "armed"
    /\ TryFailRun("stalled")
    /\ watchdog' = [watchdog EXCEPT ![s] = "fired"]
    /\ UNCHANGED <<snaps, disk, pc, loaded, work, tally>>

Dies(s) ==
    /\ Alive(s)
    /\ Goto(s, "exited")
    /\ UNCHANGED <<db, disk, loaded, work, tally, watchdog>>

\* std::process::exit(75).
WatchdogExits(s) == watchdog[s] = "fired" /\ Dies(s)

\* The task timeout of the job, the out-of-memory killer, Ctrl-C.
Crash(s) == Fault("crash") /\ Dies(s)

-----------------------------------------------------------------------------
MainStep(s) ==
    \/ Enumerate(s) \/ EnumerateFails(s)
    \/ Unreadable(s) \/ TakeAgent(s)
    \/ WriteCommits(s) \/ WriteFailsTransiently(s)
    \/ WriteCommitsUnacknowledged(s) \/ WriteRefused(s)
    \/ Export(s) \/ ExportFails(s)
    \/ CloseRun(s) \/ ClosePartial(s) \/ CloseFails(s)
    \/ FinalManifest(s) \/ FinalManifestFails(s)
    \/ ErrorBoundary(s)

SessionStep(s) ==
    \/ OpenRun(s) \/ ResumeRun(s)
    \/ MainStep(s)
    \/ WatchdogFires(s) \/ WatchdogExits(s)
    \/ Crash(s)

Next == \E s \in Sessions : SessionStep(s)

Spec == Init /\ [][Next]_vars

\* A process that lives keeps executing its main task, and one that called
\* exit() ends.
Fairness == \A s \in Sessions : WF_vars(MainStep(s)) /\ WF_vars(WatchdogExits(s))

FairSpec == Spec /\ Fairness
-----------------------------------------------------------------------------
(* What the run promises.                                                  *)

\* "No orphan JSON file can exist for an agent the database rejected"
\* (main.rs:1365): whatever fails, is killed or is resumed, every export file
\* has its rows.
FileHasRow == files \subseteq snaps

\* agent_count never claims an agent that has no rows, even when two sessions
\* work on the run or acknowledgements are lost.
NeverOverstates ==
    row.status = "finished" => row.agent_count <= Cardinality(snaps)

\* "A truncated sweep is not a census, and must never be able to look like
\* one" (main.rs:1409): of a finished run, every agent on the chain has its
\* rows or was counted absent by one session that went through all of them.
FinishedIsCensus ==
    row.status = "finished" =>
        \E s \in Sessions :
            Agents \subseteq snaps \cup unreadable[s] \cup unwritable[s]

\* "already_swept.len() + swept + unreadable + unwritable == planned holds
\* whether this is a fresh run or a resumed one" (main.rs:1095): the totals of
\* a closing manifest add up to the population it names.
ManifestTallies ==
    manifest.swept # Null =>
        manifest.swept + manifest.unreadable + manifest.unwritable = manifest.planned

\* "Rewrite the manifest so the downloadable artefact matches the rows"
\* (main.rs:1441): no stale manifest with totals stands beside a finished run.
ManifestMatchesRow ==
    (manifest.swept # Null /\ row.status = "finished") => manifest.swept = row.agent_count

\* What a run may claim, whatever fails, is killed, resumed or overlaps: no file
\* and no count without rows, and 'finished' of a census only.
RunIsHonest == FileHasRow /\ NeverOverstates /\ FinishedIsCensus

\* What makes it inductive.  Of a session: the agents it
\* found, took or swept are kept apart, what it found or swept has rows, and
\* while it works every agent of its scope is in one of its sets.
SessionInv(s) ==
    /\ pc[s] \in {"idle", "opened"} => todo[s] = {} /\ swept[s] = {}
    /\ pc[s] \in {"idle", "opened", "sweeping"} => current[s] = {}
    /\ already[s] \subseteq snaps
    /\ swept[s] \subseteq snaps
    /\ already[s] \cap (todo[s] \cup current[s] \cup swept[s]) = {}
    /\ pc[s] = "exporting" => current[s] \subseteq snaps
    /\ pc[s] \in {"sweeping", "writing", "exporting"} =>
           Scope(cap[s]) \subseteq
               already[s] \cup todo[s] \cup current[s]
               \cup swept[s] \cup unreadable[s] \cup unwritable[s]

IInv ==
    /\ \A s \in Sessions : SessionInv(s)
    /\ FileHasRow
    /\ FinishedIsCensus
    /\ NeverOverstates

\* "A persistently failing write can never stall the run indefinitely"
\* (store.rs:477): a session that starts comes to an end.
SessionEnds == \A s \in Sessions : Alive(s) ~> pc[s] = "exited"
=============================================================================
