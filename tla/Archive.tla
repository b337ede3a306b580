------------------------------ MODULE Archive -------------------------------
(***************************************************************************)
(* What happens to a run after its sweep: the rung-2 rows of old runs are  *)
(* re-judged when the checker learns the word `refused` (backfill-refused),*)
(* deltas are computed and recomputed (delta, recompute-deltas), figures   *)
(* counted once (findings), the run is exported (export-run) and loaded    *)
(* into somebody's own database (import-run).                              *)
(*                                                                         *)
(* Runs are numbered by started_at.  A run's rows are a function from the  *)
(* agents it has to their rung-2 row [status, code, reason]; `observed` is *)
(* history, what was seen of each agent when the run was swept.  The tools *)
(* are run one at a time; any of them may be killed between two of its     *)
(* statements.                                                             *)
(***************************************************************************)
EXTENDS Checks, Naturals, Functions

CONSTANTS
    LastRun,        \* how many runs there will be
    Agents,
    Observations,   \* what may be seen of each agent: outcomes of the form of Checks!Outcome
    Chunk,          \* agents per UPDATE (CHUNK, 5000)
    MaxCrashes      \* bound on the kills

Runs == 1 .. LastRun

\* Only a request has a status, and none that failed but for its redirects; the
\* errors of a fetch are no words of rung 2's own.
ASSUME ArchiveAssumption ==
    /\ LastRun \in Nat \ {0} /\ Chunk \in Nat \ {0} /\ MaxCrashes \in Nat
    /\ \A a \in Agents : \A o \in Observations[a] :
          /\ o.asked \in BOOLEAN
          /\ o.asked => o.scheme \in {"http", "ipfs"}
          /\ o.status # 0 => o.asked /\ o.error \in {"none", "too_many_redirects"}
          /\ o.error \notin {"declined", "payment_required"}

VARIABLES
    checker,        \* "old" or "new": the build that is deployed
    observed, rows, status, stamp, deltas, findings,
    file,           \* data/<run 1>/: [rows, stamp], the agents' files and the manifest
    copy,           \* the run in a reader's database: [present, stamp, rows, findings]
    tool, crashes,
    rejudged,       \* history: the runs a backfill has gone through
    interrupted     \* history: a backfill or a recomputation has to be run again

database == <<checker, observed, rows, status, stamp, deltas, findings>>
vars == <<database, file, copy, tool, crashes, rejudged, interrupted>>

-----------------------------------------------------------------------------
(* Rows, and what each build makes of an observation.                      *)

Judged(s, o, reason) == [status |-> s, code |-> o.status, reason |-> reason]

\* resolvable, as it is.
Fresh(o) == Judged(Resolvable(o), o, Reason(o))

\* resolvable, before `refused`: a decline was the agent's failure, and
\* robots.txt ours.
Former(o) ==
    CASE Reason(o) = "declined" -> Judged("fail", o, "http_status")
      [] Reason(o) = "payment_required" -> Judged("fail", o, "payment_required")
      [] CouldNotAsk(Reason(o)) -> Judged("error", o, Reason(o))
      [] OTHER -> Fresh(o)

By(build, o) == IF build = "new" THEN Fresh(o) ELSE Former(o)

-----------------------------------------------------------------------------
(* delta::compute over rung 2, and what is stored of it.                   *)

NoChurn == {"refused", "error"}

Shared(before, after) == DOMAIN before \cap DOMAIN after
Newly(before, after) ==
    {a \in Shared(before, after) : before[a].status # "pass" /\ after[a].status = "pass"
                                       /\ before[a].status \notin NoChurn}
Stopped(before, after) ==
    {a \in Shared(before, after) : before[a].status = "pass" /\ after[a].status # "pass"
                                       /\ after[a].status \notin NoChurn}

Compute(before, after) ==
    [sizes |-> <<Cardinality(DOMAIN before), Cardinality(DOMAIN after)>>,
     registered |-> Cardinality(DOMAIN after \ DOMAIN before),
     disappeared |-> Cardinality(DOMAIN before \ DOMAIN after),
     newly |-> Cardinality(Newly(before, after)),
     stopped |-> Cardinality(Stopped(before, after)),
     flips |-> [pair \in {<<before[a].status, after[a].status>> : a \in Shared(before, after)} |->
                    Cardinality({a \in Shared(before, after) :
                        <<before[a].status, after[a].status>> = pair /\ pair[1] # pair[2]})]]

\* The delta of a run against an earlier one, with both builds.
Delta(new, old) ==
    {[previous |-> old, counts |-> Compute(rows[old], rows[new]),
      stamps |-> <<stamp[old], stamp[new]>>]}

\* Mutant: who was refused was reached.
Figure_reached(judged) == Cardinality({a \in DOMAIN judged : judged[a].status \notin {"fail", "error"}})

\* ls_run_findings, as far as it reads rung 2: the agents that resolve.
Figure(judged) == Cardinality({a \in DOMAIN judged : judged[a].status = "pass"})

-----------------------------------------------------------------------------
NoRows == <<>>
NoFile == [rows |-> NoRows, stamp |-> "old"]
NoCopy == [present |-> FALSE, stamp |-> "old", rows |-> NoRows, findings |-> {}]
Idle == [name |-> "none"]

Init ==
    /\ checker = "old"
    /\ observed = [r \in Runs |-> NoRows] /\ rows = [r \in Runs |-> NoRows]
    /\ status = [r \in Runs |-> "absent"] /\ stamp = [r \in Runs |-> "old"]
    /\ deltas = [r \in Runs |-> {}] /\ findings = [r \in Runs |-> {}]
    /\ file = NoFile /\ copy = NoCopy
    /\ tool = Idle /\ crashes = 0 /\ rejudged = {} /\ interrupted = FALSE

Quiet == tool = Idle

\* What a sweep may see, of the agents it gets to.
Sightings ==
    UNION {{seen \in [S -> UNION Range(Observations)] : \A a \in S : seen[a] \in Observations[a]} :
              S \in (SUBSET Agents) \ {{}}}

\* A sweep, complete or not, by the build of the day; it leaves the files of
\* its agents and a manifest beside its rows (SweepRun).
Sweep ==
    /\ Quiet
    /\ \E r \in Runs, seen \in Sightings :
        /\ \A s \in Runs : status[s] = "absent" <=> s >= r
        /\ observed' = [observed EXCEPT ![r] = seen]
        /\ rows' = [rows EXCEPT ![r] = [a \in DOMAIN seen |-> By(checker, seen[a])]]
        /\ \E how \in {"finished", "failed"} : status' = [status EXCEPT ![r] = how]
        /\ stamp' = [stamp EXCEPT ![r] = checker]
        /\ file' = IF r = 1 THEN [rows |-> rows'[1], stamp |-> checker] ELSE file
    /\ UNCHANGED <<checker, deltas, findings, copy, tool, crashes, rejudged, interrupted>>

Deploy ==
    /\ Quiet /\ checker = "old" /\ checker' = "new"
    /\ UNCHANGED <<observed, rows, status, stamp, deltas, findings,
                   file, copy, tool, crashes, rejudged, interrupted>>

Finished == {r \in Runs : status[r] = "finished"}
WithResults == {r \in Runs : rows[r] # NoRows}
Newest(set) == CHOOSE r \in set : \A s \in set : s <= r

-----------------------------------------------------------------------------
(* delta: the two newest finished runs of the chain, if there are two.     *)

WriteDelta ==
    /\ Quiet /\ Cardinality(Finished) >= 2
    /\ LET new == Newest(Finished)
           old == Newest(Finished \ {new})
       IN  deltas' = [deltas EXCEPT ![new] = Delta(new, old)]
    /\ UNCHANGED <<checker, observed, rows, status, stamp, findings,
                   file, copy, tool, crashes, rejudged, interrupted>>

(* findings: the newest finished run, or every run that has results.       *)
WriteFindings ==
    /\ Quiet
    /\ \E which \in {WithResults, WithResults \cap {r \in Finished : \A s \in Finished : s <= r}} :
        /\ which # {}
        /\ findings' = [r \in Runs |-> IF r \in which THEN {Figure(rows[r])} ELSE findings[r]]
    /\ UNCHANGED <<checker, observed, rows, status, stamp, deltas,
                   file, copy, tool, crashes, rejudged, interrupted>>

-----------------------------------------------------------------------------
(* backfill-refused --apply, of every run, from the oldest.                *)

\* Mutant: only what the agent was blamed for is looked at again.
Rejudge_fail(row) ==
    CASE row.status = "fail" /\ DeclinedUs(row.code) /\ row.reason = "http_status" -> "declined"
      [] row.status = "fail" /\ DeclinedUs(row.code) /\ row.reason # "http_status" -> "keep"
      [] OTHER -> "unchanged"

Rejudge(row) ==
    CASE row.status = "fail" /\ DeclinedUs(row.code) /\ row.reason = "http_status" -> "declined"
      [] row.status = "fail" /\ DeclinedUs(row.code) /\ row.reason # "http_status" -> "keep"
      [] row.status = "error" /\ CouldNotAsk(row.reason) -> "keep"
      [] OTHER -> "unchanged"

Candidates(r, verdict) == {a \in DOMAIN rows[r] : Rejudge(rows[r][a]) = verdict}

\* The candidates of a run are read once, before the first of them is marked.
ReadRun(r) ==
    tool' = [name |-> "backfill", run |-> r, declined |-> Candidates(r, "declined"),
             keep |-> Candidates(r, "keep"),
             moved |-> \E a \in DOMAIN rows[r] : Rejudge(rows[r][a]) # "unchanged"]

StartBackfill ==
    /\ Quiet /\ checker = "new" /\ WithResults # {}
    /\ ReadRun(CHOOSE r \in WithResults : \A s \in WithResults : r <= s)
    /\ interrupted' = TRUE
    /\ UNCHANGED <<database, file, copy, crashes, rejudged>>

Backfilling == tool.name = "backfill"

\* mark_rung2_refused: one chunk, those with a new reason first.
Mark ==
    /\ Backfilling /\ tool.declined \cup tool.keep # {}
    /\ LET todo == IF tool.declined # {} THEN tool.declined ELSE tool.keep
       IN  \E chunk \in SUBSET todo :
            /\ Cardinality(chunk) = IF Cardinality(todo) < Chunk THEN Cardinality(todo) ELSE Chunk
            /\ rows' = [rows EXCEPT ![tool.run] = [a \in DOMAIN @ |->
                    CASE a \notin chunk -> @[a]
                      [] a \in chunk /\ tool.declined = {} -> [@[a] EXCEPT !.status = "refused"]
                      [] OTHER -> [@[a] EXCEPT !.status = "refused", !.reason = "declined"]]]
            /\ tool' = [tool EXCEPT !.declined = @ \ chunk, !.keep = @ \ chunk]
    /\ UNCHANGED <<checker, observed, status, stamp, deltas, findings,
                   file, copy, crashes, rejudged, interrupted>>

\* restamp_checker where something moved, and on to the next run; after the
\* last one, the deltas.
RunDone ==
    /\ Backfilling /\ tool.declined \cup tool.keep = {}
    /\ stamp' = IF tool.moved THEN [stamp EXCEPT ![tool.run] = "new"] ELSE stamp
    /\ rejudged' = rejudged \cup {tool.run}
    /\ LET later == {r \in WithResults : r > tool.run}
       IN  IF later = {}
           THEN tool' = [name |-> "recompute", left |-> {r \in Runs : deltas[r] # {}}]
           ELSE ReadRun(CHOOSE r \in later : \A s \in later : r <= s)
    /\ UNCHANGED <<checker, observed, rows, status, deltas, findings,
                   file, copy, crashes, interrupted>>

-----------------------------------------------------------------------------
(* recompute::all, by the backfill or by recompute-deltas --apply.         *)

StartRecompute ==
    /\ Quiet /\ \E r \in Runs : deltas[r] # {}
    /\ tool' = [name |-> "recompute", left |-> {r \in Runs : deltas[r] # {}}]
    /\ UNCHANGED <<database, file, copy, crashes, rejudged, interrupted>>

\* Mutant: only the deltas whose own run was judged by another build.
Stale_own(r) == \A d \in deltas[r] : stamp[r] # d.stamps[2]

\* Every delta is computed again, whichever of its two runs moved.
Stale(r) == TRUE

Recompute ==
    /\ tool.name = "recompute" /\ tool.left # {}
    /\ \E r \in tool.left :
        /\ deltas' = IF Stale(r)
                     THEN [deltas EXCEPT ![r] = UNION {Delta(r, d.previous) : d \in @}] ELSE deltas
        /\ tool' = [tool EXCEPT !.left = @ \ {r}]
    /\ UNCHANGED <<checker, observed, rows, status, stamp, findings,
                   file, copy, crashes, rejudged, interrupted>>

Recomputed ==
    /\ tool.name = "recompute" /\ tool.left = {}
    /\ tool' = Idle /\ interrupted' = FALSE
    /\ UNCHANGED <<database, file, copy, crashes, rejudged>>

-----------------------------------------------------------------------------
(* export-run of run 1, over what its sweep left, and import-run of it.     *)

\* Mutant: the directory is cleared before it is written again.
StartExport_clears ==
    /\ Quiet /\ checker = "new" /\ status[1] = "finished"
    /\ file' = [file EXCEPT !.rows = NoRows]
    /\ tool' = [name |-> "export", left |-> DOMAIN rows[1]]
    /\ UNCHANGED <<database, copy, crashes, rejudged, interrupted>>

StartExport ==
    /\ Quiet /\ checker = "new" /\ status[1] = "finished"
    /\ tool' = [name |-> "export", left |-> DOMAIN rows[1]]
    /\ UNCHANGED <<database, file, copy, crashes, rejudged, interrupted>>

ExportAgent ==
    /\ tool.name = "export"
    /\ \E a \in tool.left :
        /\ file' = [file EXCEPT !.rows = [b \in DOMAIN @ \cup {a} |-> IF b = a THEN rows[1][a] ELSE @[b]]]
        /\ tool' = [tool EXCEPT !.left = @ \ {a}]
    /\ UNCHANGED <<database, copy, crashes, rejudged, interrupted>>

ExportManifest ==
    /\ tool.name = "export" /\ tool.left = {}
    /\ file' = [file EXCEPT !.stamp = stamp[1]]
    /\ tool' = Idle
    /\ UNCHANGED <<database, copy, crashes, rejudged, interrupted>>

\* import-run: every file is parsed before anything is written, a run that is
\* there is refused unless --replace, and all of it is one transaction: what
\* this step does is its commit.  The figures come after.
Loaded == [present |-> TRUE, stamp |-> file.stamp, rows |-> file.rows, findings |-> {}]

Import ==
    /\ Quiet /\ file # NoFile
    /\ \E replace \in BOOLEAN : copy.present => replace
    /\ copy' = Loaded
    /\ tool' = [name |-> "import"]
    /\ UNCHANGED <<database, file, crashes, rejudged, interrupted>>

CountImported ==
    /\ tool.name = "import"
    /\ copy' = [copy EXCEPT !.findings = {Figure(copy.rows)}]
    /\ tool' = Idle
    /\ UNCHANGED <<database, file, crashes, rejudged, interrupted>>

\* The tool is killed, or a statement fails, between two statements.
Crash ==
    /\ ~Quiet /\ crashes < MaxCrashes
    /\ tool' = Idle /\ crashes' = crashes + 1
    /\ UNCHANGED <<database, file, copy, rejudged, interrupted>>

Work == \/ Mark \/ RunDone \/ Recompute \/ Recomputed
        \/ ExportAgent \/ ExportManifest \/ CountImported
Next ==
    \/ Sweep \/ Deploy \/ WriteDelta \/ WriteFindings
    \/ StartBackfill \/ StartRecompute \/ StartExport \/ Import
    \/ Work \/ Crash

Spec == Init /\ [][Next]_vars

\* A tool that is running goes on, and who sees a backfill interrupted runs
\* it again.
FairSpec == Spec /\ WF_vars(Work) /\ SF_vars(StartBackfill /\ interrupted)

-----------------------------------------------------------------------------
(* Properties.                                                             *)

\* A row is always what one of the two builds says of its observation, never
\* half of each, a pass never moves, and where a backfill has been through,
\* a re-judged row is the one a fresh sweep would write (backfill-refused.rs).
RejudgedIsFresh ==
    \A r \in Runs, a \in Agents :
        /\ a \in DOMAIN rows[r] <=> a \in DOMAIN observed[r]
        /\ a \in DOMAIN rows[r] =>
            /\ rows[r][a] \in {Former(observed[r][a]), Fresh(observed[r][a])}
            /\ r \in rejudged => rows[r][a] = Fresh(observed[r][a])

\* The figures counted once still are what counting them again would give,
\* through every re-judgment, in the database and in a reader's copy of the
\* run (findings.rs: these numbers stop changing the moment a sweep closes).
FindingsStand ==
    /\ \A r \in Runs : findings[r] \subseteq {Figure(rows[r])}
    /\ copy.findings \subseteq {Figure(copy.rows)}

\* Whatever was interrupted, in the end every stored delta says what its two
\* runs say now, and by which builds (recompute.rs).
DeltasSettle ==
    <>[](\A r \in Runs : \A d \in deltas[r] : deltas[r] = Delta(r, d.previous))

\* What a reader loads is the run, all of its agents and each of them judged
\* by a build of ours, even when a second export over the first was cut short.
CopyIsARun ==
    copy.present =>
        /\ DOMAIN copy.rows = DOMAIN observed[1]
        /\ \A a \in DOMAIN copy.rows :
               copy.rows[a] \in {Former(observed[1][a]), Fresh(observed[1][a])}

=============================================================================
