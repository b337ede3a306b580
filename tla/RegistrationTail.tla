-------------------------- MODULE RegistrationTail --------------------------
(***************************************************************************)
(* The registration tail of one chain (crates/sweeper/src/tail.rs and      *)
(* bin/tail.rs): pollers that record the agents minted since the last      *)
(* census, beside the chain, the census runs, and one another.  A row of   *)
(* the tail is retired when a census run that swept its agent is closed,   *)
(* or by a later tick of a poller.                                         *)
(*                                                                         *)
(* Agent ids are contiguous from 0.  A block is named by the number of     *)
(* agents minted in it; the runs are numbered in the order in which they   *)
(* start.                                                                  *)
(***************************************************************************)
EXTENDS Integers, Sequences

CONSTANTS
    Pollers,        \* tail processes
    MaxRuns,        \* bound: census runs
    MaxMinted,      \* bound: agents minted
    Cap,            \* TAIL_MAX_IDS_PER_TICK
    MaxFaults,      \* bound: failed calls, stale head reads, crashes
    Unreadable,     \* ids whose snapshot fails every time it is read
    CensusMisses    \* may a census leave an agent out that could be read later?

ASSUME TailAssumption ==
    /\ MaxRuns \in Nat
    /\ MaxMinted \in Nat
    /\ Cap \in Nat \ {0}
    /\ MaxFaults \in Nat
    /\ Unreadable \subseteq Nat
    /\ CensusMisses \in BOOLEAN

VARIABLES
    onChain,     \* agents on the chain
    status,      \* of each run: not started, running, closed, closed and superseded
    pin,         \* its pinned block
    snaps,       \* the agents it has rows of, once it is finished
    finished,    \* the finished runs in the order of finished_at
    cursor,      \* registration_tail_cursor.highest_agent_id
    tail,        \* registration_tail: of each recorded id, its discovery_block
    retired,     \* the recorded ids whose superseded_by_run is set
    pc,          \* where each poller is in poll_chain
    block,       \* the block its tick is pinned to
    next,        \* the next id it reads,
    last,        \* the last one it planned,
    goal,        \* and the cursor it has earned
    adopted,     \* the highest id taken as baseline without a census (history)
    faults       \* how many calls have failed

census  == <<status, pin, snaps, finished>>
table   == <<cursor, tail, retired>>
plan    == <<block, next, last, goal>>
vars    == <<onChain, census, table, pc, plan, adopted, faults>>

None == -1

Runs     == 1 .. MaxRuns
AgentIds == 0 .. MaxMinted - 1

TickOK ==
    /\ pc \in [Pollers -> {"idle", "looking", "planning", "reading", "advancing"}]
    /\ block \in [Pollers -> 0 .. MaxMinted]
    /\ next \in [Pollers -> 0 .. MaxMinted]
    /\ last \in [Pollers -> AgentIds \cup {None}]
    /\ goal \in [Pollers -> AgentIds \cup {None}]

TypeOK ==
    /\ onChain \in 0 .. MaxMinted
    /\ status \in [Runs -> {"none", "running", "closing", "closed"}]
    /\ pin \in [Runs -> 0 .. MaxMinted]
    /\ snaps \in [Runs -> SUBSET AgentIds]
    /\ finished \in Seq(Runs)
    /\ cursor \in AgentIds \cup {None}
    /\ DOMAIN tail \subseteq AgentIds /\ tail \in [DOMAIN tail -> 0 .. MaxMinted]
    /\ retired \subseteq DOMAIN tail
    /\ TickOK
    /\ adopted \in AgentIds \cup {None}
    /\ faults \in 0 .. MaxFaults

Init ==
    /\ onChain = 0
    /\ status = [r \in Runs |-> "none"]
    /\ pin = [r \in Runs |-> 0]
    /\ snaps = [r \in Runs |-> {}]
    /\ finished = <<>>
    /\ cursor = None
    /\ tail = [id \in {} |-> 0]
    /\ retired = {}
    /\ pc = [p \in Pollers |-> "idle"]
    /\ block = [p \in Pollers |-> 0]
    /\ next = block
    /\ last = [p \in Pollers |-> None]
    /\ goal = last
    /\ adopted = None
    /\ faults = 0

-----------------------------------------------------------------------------
(* The chain and the census.                                               *)

Mint ==
    /\ onChain < MaxMinted
    /\ onChain' = onChain + 1
    /\ UNCHANGED <<census, table, pc, plan, adopted, faults>>

StartRun(r) ==
    /\ status[r] = "none"
    /\ r > 1 => status[r - 1] # "none"
    /\ status' = [status EXCEPT ![r] = "running"]
    /\ pin' = [pin EXCEPT ![r] = onChain]
    /\ UNCHANGED <<onChain, snaps, finished, table, pc, plan, adopted, faults>>

\* The agents a run may leave out: those it cannot read, and perhaps one more
\* (SweepRun counts it unreadable or unwritable).
MayMiss(r) ==
    {Unreadable} \cup (IF CensusMisses THEN {Unreadable \cup {a} : a \in 0 .. pin[r] - 1} ELSE {})

\* close_run, first half: the run becomes a finished census.
FinishRun(r) ==
    /\ status[r] = "running"
    /\ status' = [status EXCEPT ![r] = "closing"]
    /\ \E missed \in MayMiss(r) : snaps' = [snaps EXCEPT ![r] = (0 .. pin[r] - 1) \ missed]
    /\ finished' = Append(finished, r)
    /\ UNCHANGED <<onChain, pin, table, pc, plan, adopted, faults>>

\* supersede_tail.
Supersede(r) == retired' = retired \cup (DOMAIN tail \cap snaps[r])

\* A call fails, or an answer is stale.
Fault == faults < MaxFaults /\ faults' = faults + 1

\* close_run, second half; a failure of it is logged and forgotten.
SupersedeOnClose(r) ==
    /\ status[r] = "closing"
    /\ status' = [status EXCEPT ![r] = "closed"]
    /\ \/ Supersede(r) /\ UNCHANGED faults
       \/ Fault /\ UNCHANGED retired
    /\ UNCHANGED <<onChain, pin, snaps, finished, cursor, tail, pc, plan, adopted>>

-----------------------------------------------------------------------------
(* One tick of a poller: poll_chain.                                       *)

Goto(p, step) == pc' = [pc EXCEPT ![p] = step]

\* The tick is over, and its locals are gone.
Return(p) ==
    /\ Goto(p, "idle")
    /\ block' = [block EXCEPT ![p] = 0]
    /\ next' = [next EXCEPT ![p] = 0]
    /\ last' = [last EXCEPT ![p] = None]
    /\ goal' = [goal EXCEPT ![p] = None]

IsFinished(r) == status[r] \in {"closing", "closed"}

\* latest_finished_run orders by started_at.
LatestFinished(r) == IsFinished(r) /\ \A s \in Runs : IsFinished(s) => s <= r

\* Mutant: the backstop is missing.
Backstop_none(p) ==
    /\ pc[p] = "idle"
    /\ Goto(p, "looking")
    /\ UNCHANGED <<onChain, census, table, plan, adopted, faults>>

\* Retire what the newest finished run covers, in case its closing did not.
Backstop(p) ==
    /\ pc[p] = "idle"
    /\ \/ \E r \in Runs : LatestFinished(r) /\ Supersede(r) /\ UNCHANGED faults
       \/ (\A r \in Runs : ~IsFinished(r)) /\ UNCHANGED <<retired, faults>>
       \/ Fault /\ UNCHANGED retired
    /\ Goto(p, "looking")
    /\ UNCHANGED <<onChain, census, cursor, tail, plan, adopted>>

\* pinned_block and highest_agent_id; a lagging node has seen fewer agents.
ReadHead(p) ==
    /\ pc[p] = "looking"
    /\ \/ block' = [block EXCEPT ![p] = onChain] /\ UNCHANGED faults
       \/ onChain > 0 /\ block' = [block EXCEPT ![p] = onChain - 1] /\ Fault
    /\ Goto(p, "planning")
    /\ UNCHANGED <<onChain, census, table, next, last, goal, adopted>>

\* census_high_water: the highest agent of the run that finished last.
HighWater(h) ==
    IF finished = <<>> \/ snaps[finished[Len(finished)]] = {}
       THEN h = None
       ELSE LET swept == snaps[finished[Len(finished)]]
            IN  h \in swept /\ \A a \in swept : a <= h

\* The greater of the cursor and the census; None is less than every id.  The
\* two are read in one step here: neither is invalidated by what comes between.
Known(k) == \E h \in AgentIds \cup {None} : HighWater(h) /\ k = (IF cursor >= h THEN cursor ELSE h)

\* Nothing on the chain.
PlanNothing(p) ==
    /\ pc[p] = "planning"
    /\ block[p] = 0
    /\ Return(p)
    /\ UNCHANGED <<onChain, census, table, adopted, faults>>

\* No baseline: adopt the head, record nothing.
PlanAdopt(p) ==
    /\ pc[p] = "planning"
    /\ block[p] > 0
    /\ Known(None)
    /\ goal' = [goal EXCEPT ![p] = block[p] - 1]
    /\ adopted' = IF adopted >= block[p] - 1 THEN adopted ELSE block[p] - 1
    /\ Goto(p, "advancing")
    /\ UNCHANGED <<onChain, census, table, block, next, last, faults>>

\* Nothing new: the cursor takes over what the census knows.
PlanCaughtUp(p) ==
    /\ pc[p] = "planning"
    /\ block[p] > 0
    /\ \E k \in AgentIds :
         /\ Known(k)
         /\ k >= block[p] - 1
         /\ goal' = [goal EXCEPT ![p] = k]
    /\ Goto(p, "advancing")
    /\ UNCHANGED <<onChain, census, table, block, next, last, adopted, faults>>

\* (known + 1..=head).take(cap).
LastPlanned(p, k) == IF k + Cap < block[p] - 1 THEN k + Cap ELSE block[p] - 1

\* Mutant: the plan's cursor is used, not that of the last id read.
PlanIds_prepaid(p) ==
    /\ pc[p] = "planning"
    /\ \E k \in AgentIds :
         /\ Known(k)
         /\ k < block[p] - 1
         /\ next' = [next EXCEPT ![p] = k + 1]
         /\ last' = [last EXCEPT ![p] = LastPlanned(p, k)]
         /\ goal' = [goal EXCEPT ![p] = LastPlanned(p, k)]
    /\ Goto(p, "reading")
    /\ UNCHANGED <<onChain, census, table, block, adopted, faults>>

\* The ids above what is known, at most Cap of them.
PlanIds(p) ==
    /\ pc[p] = "planning"
    /\ \E k \in AgentIds :
         /\ Known(k)
         /\ k < block[p] - 1
         /\ next' = [next EXCEPT ![p] = k + 1]
         /\ last' = [last EXCEPT ![p] = LastPlanned(p, k)]
    /\ goal' = [goal EXCEPT ![p] = None]
    /\ Goto(p, "reading")
    /\ UNCHANGED <<onChain, census, table, block, adopted, faults>>

\* Mutant: a later sighting replaces the first.
Record_upserts(p) ==
    /\ tail' = [id \in DOMAIN tail \cup {next[p]} |-> IF id = next[p] THEN block[p] ELSE tail[id]]
    /\ retired' = retired \ {next[p]}

\* record_tail: the first sighting is kept.
Record(p) ==
    /\ tail' = [id \in DOMAIN tail \cup {next[p]} |->
                  IF id \in DOMAIN tail THEN tail[id] ELSE block[p]]
    /\ UNCHANGED retired

ReadAgent(p) ==
    /\ pc[p] = "reading"
    /\ next[p] <= last[p]
    /\ next[p] \notin Unreadable
    /\ Record(p)
    /\ goal' = [goal EXCEPT ![p] = next[p]]
    /\ next' = [next EXCEPT ![p] = @ + 1]
    /\ UNCHANGED <<onChain, census, cursor, pc, block, last, adopted, faults>>

\* What follows the loop: the cursor moves only if an id was read.
Settle(p) ==
    \/ goal[p] = None /\ Return(p)
    \/ goal[p] # None /\ Goto(p, "advancing") /\ UNCHANGED plan

AllRead(p) ==
    /\ pc[p] = "reading"
    /\ next[p] > last[p]
    /\ Settle(p)
    /\ UNCHANGED <<onChain, census, table, adopted, faults>>

\* The id cannot be read now, or never.
CannotRead(p) == (next[p] \in Unreadable /\ UNCHANGED faults) \/ Fault

\* The snapshot or the insert fails: the tick stops at this id.
ReadFails(p) ==
    /\ pc[p] = "reading"
    /\ next[p] <= last[p]
    /\ CannotRead(p)
    /\ Settle(p)
    /\ UNCHANGED <<onChain, census, table, adopted>>

\* advance_tail_cursor: GREATEST, in SQL.
Advance(p) ==
    /\ pc[p] = "advancing"
    /\ cursor' = IF cursor >= goal[p] THEN cursor ELSE goal[p]
    /\ Return(p)
    /\ UNCHANGED <<onChain, census, tail, retired, adopted, faults>>

\* Any other error ends the tick, and so does a crash.
Abandon(p) ==
    /\ pc[p] # "idle"
    /\ Fault
    /\ Return(p)
    /\ UNCHANGED <<onChain, census, table, adopted>>

Poll(p) ==
    \/ Backstop(p) \/ ReadHead(p)
    \/ PlanNothing(p) \/ PlanAdopt(p) \/ PlanCaughtUp(p) \/ PlanIds(p)
    \/ ReadAgent(p) \/ AllRead(p) \/ ReadFails(p)
    \/ Advance(p)

Next ==
    \/ Mint
    \/ \E r \in Runs : StartRun(r) \/ FinishRun(r) \/ SupersedeOnClose(r)
    \/ \E p \in Pollers : Poll(p) \/ Abandon(p)

Spec == Init /\ [][Next]_vars

\* The scheduler, or the loop, starts tick after tick.
FairSpec == Spec /\ \A p \in Pollers : WF_vars(Poll(p))
-----------------------------------------------------------------------------
(* What the tail promises.                                                 *)

\* An id the tail need not record: it has, or a census went past it, or it was
\* there when the tail began without a census.
Accounted(id) ==
    \/ id \in DOMAIN tail
    \/ id <= adopted
    \/ \E r \in Runs : IsFinished(r) /\ \E a \in snaps[r] : id <= a

\* "The cursor may only advance past ids that are actually stored"
\* (bin/tail.rs:233): no id up to the cursor is forgotten, whatever fails and
\* however many pollers race.
CursorIsBacked == \A id \in 0 .. cursor : Accounted(id)

\* What makes it inductive: a poller's own progress is backed too.
PollerInv(p) ==
    /\ pc[p] = "reading" => \A id \in 0 .. next[p] - 1 : Accounted(id)
    /\ pc[p] \in {"reading", "advancing"} => \A id \in 0 .. goal[p] : Accounted(id)

TailInv ==
    /\ CursorIsBacked
    /\ \A p \in Pollers : PollerInv(p)
    /\ \A i \in 1 .. Len(finished) : IsFinished(finished[i])

\* "Never backward" (tail.rs:220).
CursorForward == [][cursor' >= cursor]_vars

\* "The FIRST sighting is the one kept" (tail.rs:189), and a retired row stays
\* retired.
SightingKept ==
    [][/\ retired \subseteq retired'
       /\ \A id \in DOMAIN tail : id \in DOMAIN tail' /\ tail'[id] = tail[id]]_vars

\* The tail only grows: nothing it said is taken back, however pollers race.
TailOnlyGrows == CursorForward /\ SightingKept

\* What a registrant can find: a row of the tail, or check results.
Findable(id) ==
    \/ id \in DOMAIN tail
    \/ id <= adopted
    \/ \E r \in Runs : IsFinished(r) /\ id \in snaps[r]

\* A finished census went past it and left it out.
Missed(id) == \E r \in Runs : IsFinished(r) /\ id \notin snaps[r] /\ \E a \in snaps[r] : id < a

Found(id) == (onChain > id) ~> (Findable(id) \/ Missed(id))

\* "Picked up over the following ticks, in id order" (bin/tail.rs:50): whatever
\* fails in between, every agent that does not come after an unreadable one is
\* found, or a census that saw it has left it out.
ReachableFound == \A id \in {i \in AgentIds : \A u \in Unreadable : i < u} : Found(id)

Checked(id) == \E r \in Runs : IsFinished(r) /\ id \in snaps[r]

\* "A missed supersede is a temporary display bug rather than a permanent wrong
\* state" (bin/tail.rs:171): a row whose agent has been swept is retired.
SweptIsRetired ==
    \A id \in AgentIds : (id \in DOMAIN tail /\ Checked(id)) ~> id \in retired

\* Every registrant arrives: in the tail or a census, and then in the census alone.
EveryoneArrives == ReachableFound /\ SweptIsRetired
=============================================================================
