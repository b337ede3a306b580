--------------------------- MODULE StallWatchdog ---------------------------
(***************************************************************************)
(* The watchdog task of a sweeper process (spawn_stall_watchdog and        *)
(* project_finish of crates/sweeper/src/main.rs) beside the main task it   *)
(* watches.  It wakes up every Poll units, counts the rows of the run and  *)
(* decides whether the sweep is stalled (nothing written for a while) or   *)
(* hopeless (at the observed rate it misses the deadline).                 *)
(*                                                                         *)
(* Time is discrete and counted from the start of the process.  Within one *)
(* instant any number of rows may be written.  What the watchdog then does *)
(* to the row of the run is in SweepRun (WatchdogFires, WatchdogExits).    *)
(***************************************************************************)
EXTENDS Integers

CONSTANTS
    Poll,        \* the sleep between two looks at the row count
    Late,        \* a look comes at most this much later than it is due
    Stall,       \* stall_timeout_secs
    Grace,       \* startup_grace_secs, never shorter than Stall
    MinSample,   \* throughput_sample_secs
    Confirm,     \* DEFAULT_THROUGHPUT_CONFIRM_SECS
    Deadline,    \* deadline_secs
    Observes,    \* what watchdog_observe_only may return
    Planned,     \* agents in scope
    OldRows,     \* how many rows the run may have already: more than 0 on a resume
    Startup,     \* bound: enumeration and minter pre-pass take at most this
    MaxGap,      \* bound: a sweep that is not hung writes a row this often
    WatchFaults, \* "hang": the main task hangs; "db": a count fails
    Horizon      \* bound: how long the process is watched

ASSUME WatchdogAssumption ==
    /\ {Poll, Stall, Grace, MinSample, Confirm, Deadline, Planned} \subseteq Nat \ {0}
    /\ {Late, Startup, MaxGap, Horizon} \subseteq Nat
    /\ Grace >= Stall
    /\ OldRows \subseteq 0 .. Planned
    /\ Observes \subseteq BOOLEAN
    /\ WatchFaults \subseteq {"hang", "db"}

VARIABLES
    observe,      \* is the watchdog in observe-only mode?
    resumed,      \* did the run have rows when the process started?
    now,
    main,         \* where the main task is
    target,       \* the atomic the main task sets once agents start to land
    rows,         \* rows of the run, swept_count
    lastRow,      \* when the last one was written (history)
    sweepFrom,    \* when the agents' stream started (history)
    wake,         \* when the last look ended and the next sleep began
    lastCount,    \* last_count
    lastChange,   \* last_change
    sample,       \* the throughput sample: when it opened, and at how many rows
    hopeless,     \* hopeless_since
    lastFine,     \* the last look that saw no hopeless rate (history)
    blind,        \* has a count failed? (history)
    verdict       \* why the process was stopped, if it was

process   == <<observe, resumed>>
mainVars  == <<main, target, rows, lastRow, sweepFrom>>
watchVars == <<wake, lastCount, lastChange, sample, hopeless, lastFine, blind>>
watchedVars == <<process, now, mainVars, watchVars, verdict>>

None == -1
NoSample == [at |-> None, count |-> None]

WatchTypeOK ==
    /\ observe \in Observes /\ resumed \in BOOLEAN
    /\ now \in 0 .. Horizon
    /\ main \in {"starting", "sweeping", "hung", "done"}
    /\ target \in {0, Planned}
    /\ rows \in 0 .. Planned
    /\ lastRow \in 0 .. now
    /\ sweepFrom \in {None} \cup 0 .. now
    /\ wake \in 0 .. now
    /\ lastCount \in {None} \cup 0 .. rows
    /\ lastChange \in 0 .. now
    /\ sample \in [at : {None} \cup 0 .. now, count : {None} \cup 1 .. rows]
    /\ hopeless \in {None} \cup 0 .. now
    /\ lastFine \in 0 .. now
    /\ blind \in BOOLEAN
    /\ verdict \in {"none", "stall", "slow"}

WatchInit ==
    /\ observe \in Observes
    /\ now = 0
    /\ main = "starting"
    /\ target = 0
    /\ rows \in OldRows
    /\ resumed = (rows > 0)
    /\ lastRow = 0
    /\ sweepFrom = None
    /\ wake = 0
    /\ lastCount = None
    /\ lastChange = 0
    /\ sample = NoSample
    /\ hopeless = None
    /\ lastFine = 0
    /\ blind = FALSE
    /\ verdict = "none"

OnWatch == main # "done" /\ verdict = "none"

-----------------------------------------------------------------------------
(* Time, and the main task.                                                *)

\* The watchdog task is not kept waiting for more than Late, and a main task
\* that does not hang keeps to Startup and MaxGap.
Tick ==
    /\ OnWatch
    /\ now < Horizon
    /\ now < wake + Poll + Late
    /\ main = "starting" => now < Startup
    /\ main = "sweeping" => now < lastRow + MaxGap \/ now < sweepFrom + MaxGap
    /\ now' = now + 1
    /\ UNCHANGED <<process, mainVars, watchVars, verdict>>

\* The enumeration and the minter pre-pass are over: the target is published.
StartSweeping ==
    /\ OnWatch
    /\ main = "starting"
    /\ main' = "sweeping"
    /\ target' = Planned
    /\ sweepFrom' = now
    /\ UNCHANGED <<process, now, rows, lastRow, watchVars, verdict>>

WriteRow ==
    /\ OnWatch
    /\ main = "sweeping"
    /\ rows < Planned
    /\ rows' = rows + 1
    /\ lastRow' = now
    /\ UNCHANGED <<process, now, main, target, sweepFrom, watchVars, verdict>>

\* The stream is exhausted; agents that could not be read or written have no row.
Finish ==
    /\ OnWatch
    /\ main = "sweeping"
    /\ main' = "done"
    /\ UNCHANGED <<process, now, target, rows, lastRow, sweepFrom, watchVars, verdict>>

\* Sockets died, a call never returns.
Hang ==
    /\ OnWatch
    /\ "hang" \in WatchFaults
    /\ main \in {"starting", "sweeping"}
    /\ main' = "hung"
    /\ UNCHANGED <<process, now, target, rows, lastRow, sweepFrom, watchVars, verdict>>

-----------------------------------------------------------------------------
(* One look of the watchdog.                                               *)

Due == OnWatch /\ now >= wake + Poll

\* The sample opens at the first look that finds a row.
Sample ==
    IF rows > 0 /\ sample = NoSample THEN [at |-> now, count |-> rows] ELSE sample

\* project_finish(..) is Some(p) and p.misses(deadline), without the division:
\* now + remaining / (written / secs) > Deadline.
Misses ==
    LET secs      == now - Sample.at
        written   == rows - Sample.count
        remaining == target - rows
    IN  /\ Sample # NoSample
        /\ target > 0
        /\ secs >= MinSample
        /\ written > 0
        /\ now * written + (IF remaining > 0 THEN remaining ELSE 0) * secs > Deadline * written

\* Mutant: a recovery does not restart the clock.
HopelessSince_sticky == IF Misses /\ hopeless = None THEN now ELSE hopeless

\* hopeless_since after this look.
HopelessSince ==
    IF ~Misses THEN None ELSE IF hopeless = None THEN now ELSE hopeless

TooSlow == Misses /\ now - HopelessSince >= Confirm

\* Mutant: there is no startup grace, as before the 2026-08 census.
Window_no_grace == Stall

\* Before the first row the sweep is starting up.
Window == IF rows = 0 THEN Grace ELSE Stall

Silent == rows = lastCount /\ now - lastChange >= Window

\* What every look that reads the count leaves behind.
Judge ==
    /\ sample' = Sample
    /\ wake' = now
    /\ lastFine' = IF Misses THEN lastFine ELSE now
    /\ UNCHANGED <<process, now, mainVars, blind>>

Stop(why) == verdict' = why /\ UNCHANGED <<lastCount, lastChange>>

\* fail_run(stalled), exit(75).
PollTooSlow ==
    /\ Due /\ TooSlow /\ ~observe
    /\ Judge
    /\ hopeless' = HopelessSince
    /\ Stop("slow")

\* Observe only: the clock restarts and the rest of the look is skipped.
PollWouldStop ==
    /\ Due /\ TooSlow /\ observe
    /\ Judge
    /\ hopeless' = None
    /\ UNCHANGED <<lastCount, lastChange, verdict>>

PollProgress ==
    /\ Due /\ ~TooSlow /\ rows # lastCount
    /\ Judge
    /\ hopeless' = HopelessSince
    /\ lastCount' = rows
    /\ lastChange' = now
    /\ UNCHANGED verdict

\* fail_run(stalled), exit(75): this branch does not look at `observe`.
PollStalled ==
    /\ Due /\ ~TooSlow /\ Silent
    /\ Judge
    /\ hopeless' = HopelessSince
    /\ Stop("stall")

\* Mutant: a look that saw nothing new moves last_change all the same.
PollQuiet_refreshes ==
    /\ Due /\ ~TooSlow /\ rows = lastCount /\ ~Silent
    /\ Judge
    /\ hopeless' = HopelessSince
    /\ lastChange' = now
    /\ UNCHANGED <<lastCount, verdict>>

PollQuiet ==
    /\ Due /\ ~TooSlow /\ rows = lastCount /\ ~Silent
    /\ Judge
    /\ hopeless' = HopelessSince
    /\ UNCHANGED <<lastCount, lastChange, verdict>>

\* The count cannot be read: keep watching.
PollBlind ==
    /\ Due
    /\ "db" \in WatchFaults
    /\ wake' = now
    /\ blind' = TRUE
    /\ UNCHANGED <<process, now, mainVars>>
    /\ UNCHANGED <<lastCount, lastChange, sample, hopeless, lastFine, verdict>>

MainTask == StartSweeping \/ WriteRow \/ Finish \/ Hang

Look == PollTooSlow \/ PollWouldStop \/ PollProgress \/ PollStalled \/ PollQuiet \/ PollBlind

WatchNext == Tick \/ MainTask \/ Look

WatchSpec == WatchInit /\ [][WatchNext]_watchedVars
-----------------------------------------------------------------------------
(* What the watchdog promises.                                             *)

\* "no agent written for {}s (stall timeout {}s)" (main.rs:456): a process
\* stopped as stalled really wrote nothing for the whole window.
StallIsSilence ==
    verdict = "stall" => now - lastRow >= Window

\* "The startup grace exists to cover exactly that stretch" (main.rs:338), from
\* the start to the first row: it does so when the run has no row yet.
FreshSurvives == ~resumed /\ verdict = "stall" => main = "hung"

\* "well below 'nobody notices until tomorrow'" (main.rs:104): as long as the
\* count can be read, nothing stays silent past the window and two looks; in
\* observe mode every other look may be spent on reporting a rate instead, which
\* makes it four.
SilenceEnds ==
    OnWatch /\ ~blind =>
        now - lastRow < Window + (IF observe THEN 4 ELSE 2) * (Poll + Late)

\* "only a CONTINUOUS stretch of hopelessness counts" (main.rs:423): no look of
\* the last Confirm units found the rate good enough, or too young to judge.
SlowIsConfirmed == verdict = "slow" => now - lastFine >= Confirm

\* A hopeless run is stopped once it has been hopeless for that long: it cannot
\* be "alive and hopeless at the same time" (main.rs:194) for longer.
HopelessEnds ==
    OnWatch /\ ~blind /\ ~observe => now - lastFine < Confirm + 2 * (Poll + Late)

\* No process is stopped without cause, and none is left without hope.
StopsAreJustified == StallIsSilence /\ SlowIsConfirmed
WaitsAreBounded == SilenceEnds /\ HopelessEnds

\* What makes the promises inductive: the last change seen is not older than the
\* last row, and the clock of hopelessness not older than the last fine look.
ClocksInv ==
    /\ lastCount <= rows
    /\ lastCount = rows => lastRow <= lastChange
    /\ hopeless # None => lastFine <= hopeless
    /\ StallIsSilence
    /\ SlowIsConfirmed

\* What a look that only reported a rate has cost; never two in a row, for it
\* clears hopeless_since.
Skipped == IF observe /\ hopeless = None THEN Poll + Late ELSE 0

\* What the last look found, of a watchdog that can read.
LookInv ==
    OnWatch /\ ~blind =>
        /\ now <= wake + Poll + Late
        /\ IF lastCount = rows
              THEN /\ lastChange <= lastRow + (IF observe THEN 2 ELSE 1) * (Poll + Late)
                   /\ wake - lastChange < Window + Skipped
              ELSE wake <= lastRow + Skipped
        /\ ~observe =>
              IF hopeless = None
                 THEN wake = lastFine
                 ELSE /\ hopeless <= lastFine + Poll + Late
                      /\ wake - hopeless < Confirm

\* "watchdogs are in OBSERVE ONLY mode - nothing will be stopped" (main.rs:349).
ObserveStopsNothing == observe => verdict = "none"
=============================================================================
