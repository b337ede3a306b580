----------------------------- MODULE IngestLoop -----------------------------
(***************************************************************************)
(* The indexer's block-follow loop for one chain (crates/indexer/src/      *)
(* ingest.rs run_batch and fetch_logs, store.rs load_cursor and            *)
(* write_batch), beside a chain that grows and reorganises between any two *)
(* of its calls.  More than one process may follow the same chain, as when *)
(* a deployment starts the new one before the old one has stopped.         *)
(*                                                                         *)
(* Every block has one registry event; the version of a block names the    *)
(* fork it is on, so it stands for the block's hash and for its event.     *)
(* The back-off between attempts only takes time and has no state here.    *)
(***************************************************************************)
EXTENDS Integers, FiniteSets

CONSTANTS
    Procs,           \* indexer processes
    Deploy,          \* chains.deploy_block
    Confirmations,   \* chains.confirmations
    Batch,           \* INDEXER_BLOCK_BATCH
    LastBlock,       \* bound: the chain stops growing here
    MaxReorg,        \* the deepest reorganisation
    MaxVersion,      \* bound: forks per block
    MaxFaults        \* bound: failed calls, lost connections and crashes

ASSUME IngestAssumption ==
    /\ Deploy \in Nat
    /\ Confirmations \in Nat
    /\ Batch \in Nat \ {0}
    /\ LastBlock \in Nat
    /\ MaxReorg \in Nat
    /\ MaxVersion \in Nat
    /\ MaxFaults \in Nat

None == -1

VARIABLES
    head,      \* the chain's newest block
    version,   \* of each block, the fork it is on
    cursor,    \* indexer_cursor.last_block
    rows,      \* raw_events: the block, the event, and the hash stored with it
    pc,        \* where each process is in run_batch
    from,      \* from_block
    to,        \* to_block
    stack,     \* the ranges fetch_logs has still to ask for
    logs,      \* what it has got: <<block, version>>
    headers,   \* the headers read: <<block, version>>
    faults     \* how many calls have failed

chain == <<head, version>>
db    == <<cursor, rows>>
batch == <<from, to, stack, logs, headers>>
vars  == <<chain, db, pc, batch, faults>>

Blocks == 0 .. LastBlock
Versions == 0 .. MaxVersion

TypeOK ==
    /\ head \in Blocks
    /\ version \in [Blocks -> Versions]
    /\ cursor \in {None} \cup Blocks
    /\ rows \in SUBSET [block : Blocks, event : Versions, hash : Versions]
    /\ pc \in [Procs -> {"idle", "asking", "fetching", "writing"}]
    /\ from \in [Procs -> Nat]
    /\ to \in [Procs -> 0 .. head]
    /\ stack \in [Procs -> SUBSET (Nat \X Nat)]
    /\ logs \in [Procs -> SUBSET (Blocks \X Versions)]
    /\ headers \in [Procs -> SUBSET (Blocks \X Versions)]
    /\ faults \in 0 .. MaxFaults

Init ==
    /\ head = 0
    /\ version = [b \in Blocks |-> 0]
    /\ cursor = None
    /\ rows = {}
    /\ pc = [p \in Procs |-> "idle"]
    /\ from = [p \in Procs |-> 0]
    /\ to = [p \in Procs |-> 0]
    /\ stack = [p \in Procs |-> {}]
    /\ logs = stack /\ headers = stack
    /\ faults = 0

-----------------------------------------------------------------------------
(* The chain.                                                              *)

Mine ==
    /\ head < LastBlock
    /\ head' = head + 1
    /\ UNCHANGED <<version, db, pc, batch, faults>>

\* The newest d blocks are replaced by a fork that is as long.
Reorg ==
    /\ \E d \in 1 .. MaxReorg :
         /\ d <= head
         /\ \A b \in head - d + 1 .. head : version[b] < MaxVersion
         /\ version' = [b \in Blocks |->
                          IF b \in head - d + 1 .. head THEN version[b] + 1 ELSE version[b]]
    /\ UNCHANGED <<head, db, pc, batch, faults>>

-----------------------------------------------------------------------------
(* run_batch.                                                              *)

Goto(p, step) == pc' = [pc EXCEPT ![p] = step]

\* resume_from(load_cursor()).
ResumeFrom == IF cursor = None THEN Deploy ELSE cursor + 1

LoadCursor(p) ==
    /\ pc[p] = "idle"
    /\ from' = [from EXCEPT ![p] = ResumeFrom]
    /\ Goto(p, "asking")
    /\ UNCHANGED <<chain, db, to, stack, logs, headers, faults>>

\* head.saturating_sub(confirmations).
SafeHead == IF head > Confirmations THEN head - Confirmations ELSE 0

\* Mutant: `from_block >= safe_head` is idle.
Behind_strict(p) == from[p] < SafeHead

Behind(p) == from[p] <= SafeHead

\* Caught up: Progress::Idle.
CaughtUp(p) ==
    /\ pc[p] = "asking"
    /\ ~Behind(p)
    /\ Goto(p, "idle")
    /\ UNCHANGED <<chain, db, batch, faults>>

\* (from_block + batch).min(safe_head).
LastOf(p) == IF from[p] + Batch < SafeHead THEN from[p] + Batch ELSE SafeHead

PlanRange(p) ==
    /\ pc[p] = "asking"
    /\ Behind(p)
    /\ to' = [to EXCEPT ![p] = LastOf(p)]
    /\ stack' = [stack EXCEPT ![p] = {<<from[p], LastOf(p)>>}]
    /\ logs' = [logs EXCEPT ![p] = {}]
    /\ headers' = [headers EXCEPT ![p] = {}]
    /\ Goto(p, "fetching")
    /\ UNCHANGED <<chain, db, from, faults>>

\* get_logs answers for one range; the order of the ranges has no effect.
GetLogs(p) ==
    /\ pc[p] = "fetching"
    /\ \E r \in stack[p] :
         /\ stack' = [stack EXCEPT ![p] = @ \ {r}]
         /\ logs' = [logs EXCEPT ![p] = @ \cup {<<b, version[b]>> : b \in r[1] .. r[2]}]
    /\ UNCHANGED <<chain, db, pc, from, to, headers, faults>>

\* Mutant: the middle block is in neither half.
SplitRange_gap(p) ==
    /\ pc[p] = "fetching"
    /\ \E r \in stack[p] :
         /\ r[1] < r[2]
         /\ LET mid == r[1] + (r[2] - r[1]) \div 2
            IN  stack' = [stack EXCEPT ![p] =
                            (@ \ {r}) \cup {<<mid + 1, r[2]>>, <<r[1], mid - 1>>}]
    /\ UNCHANGED <<chain, db, pc, from, to, logs, headers, faults>>

\* The provider finds the range too large: ask for its halves.
SplitRange(p) ==
    /\ pc[p] = "fetching"
    /\ \E r \in stack[p] :
         /\ r[1] < r[2]
         /\ LET mid == r[1] + (r[2] - r[1]) \div 2
            IN  stack' = [stack EXCEPT ![p] =
                            (@ \ {r}) \cup {<<mid + 1, r[2]>>, <<r[1], mid>>}]
    /\ UNCHANGED <<chain, db, pc, from, to, logs, headers, faults>>

HeaderOf(p, b) == {h \in headers[p] : h[1] = b}

\* get_block_by_number, once per distinct block: whatever is there now.
GetHeader(p) ==
    /\ pc[p] = "fetching"
    /\ stack[p] = {}
    /\ \E l \in logs[p] :
         /\ HeaderOf(p, l[1]) = {}
         /\ headers' = [headers EXCEPT ![p] = @ \cup {<<l[1], version[l[1]]>>}]
    /\ UNCHANGED <<chain, db, pc, from, to, stack, logs, faults>>

\* Decoding, and the transaction is begun.
BeginWrite(p) ==
    /\ pc[p] = "fetching"
    /\ stack[p] = {}
    /\ \A l \in logs[p] : HeaderOf(p, l[1]) # {}
    /\ Goto(p, "writing")
    /\ UNCHANGED <<chain, db, batch, faults>>

\* The rows of this batch that are not there yet: ON CONFLICT DO NOTHING on
\* the transaction and the index of the event.
NewRows(p) ==
    {r \in [block : Blocks, event : Versions, hash : Versions] :
        /\ <<r.block, r.event>> \in logs[p]
        /\ <<r.block, r.hash>> \in headers[p]
        /\ \A old \in rows : <<old.block, old.event>> # <<r.block, r.event>>}

\* Mutant: the cursor moves outside the transaction that writes the rows.
Commit_cursor_first(p) ==
    /\ pc[p] = "writing"
    /\ \/ rows' = rows \cup NewRows(p) /\ UNCHANGED faults
       \/ faults < MaxFaults /\ faults' = faults + 1 /\ UNCHANGED rows
    /\ cursor' = to[p]
    /\ Goto(p, "idle")
    /\ UNCHANGED <<chain, batch>>

\* write_batch: the rows and the cursor, in one transaction.  A commit whose
\* acknowledgement is lost looks the same: the cursor is read again.
Commit(p) ==
    /\ pc[p] = "writing"
    /\ rows' = rows \cup NewRows(p)
    /\ cursor' = to[p]
    /\ Goto(p, "idle")
    /\ UNCHANGED <<chain, batch, faults>>

\* A failed call, a rolled back transaction, or a crash and a restart: the
\* attempt is forgotten, and the next one starts from the cursor.
Fail(p) ==
    /\ pc[p] # "idle"
    /\ faults < MaxFaults
    /\ faults' = faults + 1
    /\ Goto(p, "idle")
    /\ UNCHANGED <<chain, db, batch>>

Step(p) ==
    \/ LoadCursor(p) \/ CaughtUp(p) \/ PlanRange(p)
    \/ GetLogs(p) \/ SplitRange(p) \/ GetHeader(p)
    \/ BeginWrite(p) \/ Commit(p)

Next == Mine \/ Reorg \/ \E p \in Procs : Step(p) \/ Fail(p)

Spec == Init /\ [][Next]_vars

\* The loop never returns: it always makes its next call.
FairSpec == Spec /\ \A p \in Procs : WF_vars(Step(p))
-----------------------------------------------------------------------------
(* What the index promises.                                                *)

\* "Silently skipping blocks" (ingest.rs:10): every block up to the cursor has
\* the event it has on the chain.
NoGap ==
    \A b \in Deploy .. cursor : \E r \in rows : r.block = b /\ r.event = version[b]

\* "True on-chain provenance" (indexer README): every row is on the canonical
\* chain and carries the hash of the block its event is in.
NoGhost == \A r \in rows : r.event = version[r.block] /\ r.hash = r.event

\* The index is the chain: nothing left out, nothing that is not there.
IndexIsChain == NoGap /\ NoGhost

\* What makes it inductive, when the buffer is as deep as a reorganisation:
\* everything a process has fetched is out of a reorganisation's reach, every
\* block of its range is fetched or still asked for, and all before is covered.
CoveredTo(last) ==
    \A b \in Deploy .. last : \E r \in rows : r.block = b /\ r.event = version[b]

Settled(S) == \A l \in S : l[1] <= SafeHead /\ l[2] = version[l[1]]

BatchInv(p) ==
    /\ pc[p] # "idle" =>
         /\ from[p] <= Deploy \/ from[p] <= SafeHead + 1
         /\ CoveredTo(from[p] - 1)
    /\ pc[p] \in {"fetching", "writing"} =>
         /\ to[p] <= SafeHead
         /\ Settled(logs[p]) /\ Settled(headers[p])
         /\ \A r \in stack[p] : r[2] <= to[p]
         /\ \A b \in from[p] .. to[p] :
              \/ <<b, version[b]>> \in logs[p]
              \/ \E r \in stack[p] : b \in r[1] .. r[2]
    /\ pc[p] = "writing" =>
         /\ stack[p] = {}
         /\ \A l \in logs[p] : HeaderOf(p, l[1]) # {}

IngestInv ==
    /\ \A p \in Procs : BatchInv(p)
    /\ \A r \in rows : r.block <= SafeHead
    /\ cursor <= SafeHead
    /\ NoGap
    /\ NoGhost

\* "Falling behind" (main.rs:55): the cursor reaches every block that gets deep
\* enough.
Follows ==
    \A b \in Deploy .. LastBlock - Confirmations : (head >= b + Confirmations) ~> (cursor >= b)

\* The rows as the abstract log sees them.
Log == INSTANCE EventLog WITH
    First   <- Deploy,
    covered <- IF cursor = None THEN Deploy - 1 ELSE cursor,
    log     <- {<<r.block, r.event>> : r \in rows}

\* The loop implements the abstract log.
ImplementsLog == Log!Spec
=============================================================================
