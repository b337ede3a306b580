----------------------------- MODULE ChainReads -----------------------------
(***************************************************************************)
(* What a census asks of one chain at its pinned block before the first    *)
(* agent (chain/src/registry.rs, called from sweeper/src/main.rs): how     *)
(* many agents there are, which transaction registered each of them, and   *)
(* who sent it.  Every call may be throttled, time out, fail, or answer    *)
(* with something alloy cannot decode, whose message then carries the      *)
(* whole body: what decides is which words the message spells.             *)
(***************************************************************************)
EXTENDS Integers, Sequences, FiniteSets, FiniteSetsExt

CONSTANTS
    Registered,     \* the events of the registry: a set of [id, block, tx]
    Sender,         \* [transactions -> addresses]
    Pinned, Deploy, \* the blocks the reads stop and start at
    Spells429,      \* the ids whose revert data contains "429"
    MaxLogs,        \* the provider's cap on one answer to eth_getLogs
    LogWindowBlocks, GrowAfter, \* LOG_WINDOW_BLOCKS, LogWindow::GROW_AFTER
    MaxRetries,     \* MAX_THROTTLE_RETRIES
    MaxTrouble      \* bound on the provider's other failures

Ids == {r.id : r \in Registered}

ASSUME ChainReadsAssumption ==
    /\ Pinned \in Nat /\ Deploy \in Nat \ {0} /\ MaxLogs \in Nat \ {0}
    /\ LogWindowBlocks \in Nat \ {0} /\ GrowAfter \in Nat \ {0}
    /\ MaxRetries \in Nat /\ MaxTrouble \in Nat
    /\ IsFiniteSet(Registered)
    /\ \A r \in Registered :
          r.id \in Nat /\ r.block \in Nat /\ r.block >= Deploy /\ r.tx \in DOMAIN Sender
    /\ \A r \in Registered : r.id > 0 =>      \* minted one after the other
           \E q \in Registered : q.id = r.id - 1 /\ q.block <= r.block

VARIABLES
    stage,          \* where the sweep is
    lo, hi,         \* find_boundary's bracket
    retry,        \* of the call under way
    ids,            \* enumerate_agent_ids
    from, window,   \* registrations: its next block, its LogWindow
    registrations,  \* [ids -> [tx, block]]
    minters,        \* [transactions -> sender, or "none"]
    refused,        \* history: the window of each refused query
    trouble         \* how much more of it the provider may make

reads == <<stage, lo, hi, retry, ids, from, window, registrations, minters, refused, trouble>>

LogWindow == [current |-> LogWindowBlocks, ceiling |-> LogWindowBlocks, ok |-> 0]

ReadInit ==
    /\ stage = "zero" /\ lo = 0 /\ hi = 0 /\ retry = 0 /\ ids = {}
    /\ from = Deploy /\ window = LogWindow
    /\ registrations = <<>> /\ minters = <<>>
    /\ refused = <<>> /\ trouble = MaxTrouble

-----------------------------------------------------------------------------
(* What an error is.  A message either is a decode failure or not, and     *)
(* spells "429" and "execution reverted" or not.                           *)

Message == [decode : BOOLEAN, spells429 : BOOLEAN, reverted : BOOLEAN]

is_undecodable(e) == e.decode

is_throttled(e) == ~is_undecodable(e) /\ e.spells429

\* Mutant: a body that echoes the words is taken for the answer "no".
is_revert_echo(e) == e.reverted /\ ~is_throttled(e)

is_revert(e) == e.reverted /\ ~is_undecodable(e) /\ ~is_throttled(e)

exists_at(id) == \E r \in Registered : r.id = id /\ r.block <= Pinned

\* A provider may append the revert's data, which holds the id, or not.
Reverts(id) == {e \in Message : /\ e.reverted /\ ~e.decode
                                /\ e.spells429 => id \in Spells429}

\* Throttled, dropped, or an answer with any bytes that does not decode.
Failures == {e \in Message : e.decode \/ ~e.reverted}

-----------------------------------------------------------------------------
(* exists(id, block) through retry_throttled_with.                         *)

\* The id find_boundary, or the assertion after it, asks about.
Asked == CASE stage = "zero" -> 0
           [] stage = "double" -> hi
           [] stage = "bisect" -> lo + (hi - lo) \div 2
           [] stage = "lo_exists" -> lo
           [] stage = "hi_absent" -> hi

Asking == stage \in {"zero", "double", "bisect", "lo_exists", "hi_absent"}

\* Once the bracket is one wide, lo and hi are asserted again.
Bisecting(l, h) == IF h - l > 1 THEN "bisect" ELSE "lo_exists"

Empty == ids' = {} /\ stage' = "scan" /\ UNCHANGED <<lo, hi>>

\* highest_agent_id and find_boundary, with the answer to the id asked about.
Learn(there) ==
    /\ retry' = 0
    /\ \/ stage = "zero" /\ ~there /\ Empty
       \/ stage = "zero" /\ there /\ stage' = "double" /\ hi' = lo + 1 /\ UNCHANGED <<lo, ids>>
       \/ stage = "double" /\ there /\ lo' = hi /\ hi' = 2 * hi /\ UNCHANGED <<stage, ids>>
       \/ stage = "double" /\ ~there /\ stage' = Bisecting(lo, hi) /\ UNCHANGED <<lo, hi, ids>>
       \/ /\ stage = "bisect"
          /\ lo' = IF there THEN Asked ELSE lo
          /\ hi' = IF there THEN hi ELSE Asked
          /\ stage' = Bisecting(lo', hi') /\ UNCHANGED ids
       \/ /\ stage = "lo_exists"
          /\ stage' = IF there THEN "hi_absent" ELSE "bailed"
          /\ UNCHANGED <<lo, hi, ids>>
       \/ /\ stage = "hi_absent" /\ ~there
          /\ stage' = "scan" /\ ids' = 0 .. lo /\ UNCHANGED <<lo, hi>>
       \/ stage = "hi_absent" /\ there /\ stage' = "bailed" /\ UNCHANGED <<lo, hi, ids>>

scanning == <<from, window, registrations, minters, refused>>

Bail == stage' = "bailed" /\ UNCHANGED <<lo, hi, retry, ids>>

\* An error: retried, an answer, or the end of the sweep.
Judge(e) ==
    \/ /\ is_throttled(e) /\ retry < MaxRetries
       /\ retry' = retry + 1 /\ UNCHANGED <<stage, lo, hi, ids>>
    \/ ~(is_throttled(e) /\ retry < MaxRetries) /\ is_revert(e) /\ Learn(FALSE)
    \/ ~(is_throttled(e) /\ retry < MaxRetries) /\ ~is_revert(e) /\ Bail

Answer ==
    /\ Asking /\ UNCHANGED <<scanning, trouble>>
    /\ \/ exists_at(Asked) /\ Learn(TRUE)
       \/ ~exists_at(Asked) /\ \E e \in Reverts(Asked) : Judge(e)

Fail ==
    /\ Asking /\ trouble > 0 /\ trouble' = trouble - 1 /\ UNCHANGED scanning
    /\ \E e \in Failures : Judge(e)

\* The call never returns, and the timeout makes that an error.
TimeOut ==
    /\ Asking /\ trouble > 0 /\ trouble' = trouble - 1 /\ UNCHANGED scanning
    /\ \/ retry < MaxRetries /\ retry' = retry + 1 /\ UNCHANGED <<stage, lo, hi, ids>>
       \/ retry >= MaxRetries /\ Bail

-----------------------------------------------------------------------------
(* registrations(from_block, to_block).                                    *)

\* Mutant: the ceiling does not come down with the window.
on_failure_oscillates(w) == [w EXCEPT !.ok = 0, !.current = Max({@ \div 2, 1})]

on_failure(w) ==
    [current |-> Max({w.current \div 2, 1}), ok |-> 0,
     ceiling |-> IF w.current >= w.ceiling THEN Max({w.ceiling \div 2, 1}) ELSE w.ceiling]

on_success(w) ==
    IF w.current >= w.ceiling THEN w
    ELSE IF w.ok + 1 >= GrowAfter
         THEN [w EXCEPT !.current = Min({2 * w.current, w.ceiling}), !.ok = 0]
         ELSE [w EXCEPT !.ok = @ + 1]

To == Min({from + window.current - 1, Pinned})

Events(a, b) == {r \in Registered : r.block \in a .. b}

\* The earliest event of an id wins.
Merged(out, events) ==
    [i \in DOMAIN out \cup {r.id : r \in events} |->
        LET seen == {[tx |-> r.tx, block |-> r.block] : r \in {q \in events : q.id = i}}
                        \cup (IF i \in DOMAIN out THEN {out[i]} ELSE {})
        IN  CHOOSE r \in seen : \A q \in seen : r.block <= q.block]

ScanAnswer ==
    /\ stage = "scan" /\ from <= Pinned /\ Cardinality(Events(from, To)) <= MaxLogs
    /\ registrations' = Merged(registrations, Events(from, To))
    /\ window' = on_success(window) /\ from' = To + 1
    /\ UNCHANGED <<stage, lo, hi, retry, ids, minters, refused, trouble>>

\* A refused single block ends the scan; the sweep goes on without minters.
ScanRefused ==
    /\ stage = "scan" /\ from <= Pinned
    /\ \/ Cardinality(Events(from, To)) > MaxLogs /\ UNCHANGED trouble
       \/ trouble > 0 /\ trouble' = trouble - 1
    /\ refused' = Append(refused, window.current)
    /\ \/ /\ window.current > 1 /\ window' = on_failure(window)
          /\ UNCHANGED <<stage, registrations>>
       \/ /\ window.current <= 1 /\ UNCHANGED window
          /\ registrations' = <<>> /\ stage' = "minters"
    /\ UNCHANGED <<lo, hi, retry, ids, from, minters>>

ScanEnd ==
    /\ stage = "scan" /\ from > Pinned /\ stage' = "minters"
    /\ UNCHANGED <<lo, hi, retry, ids, scanning, trouble>>

-----------------------------------------------------------------------------
(* The minters, until their budget runs out.                               *)

Wanted == {registrations[i].tx : i \in DOMAIN registrations}

\* entry(..).or_insert(..): what is there stays.
OrInsert(map, key, value) ==
    [x \in DOMAIN map \cup {key} |-> IF x \in DOMAIN map THEN map[x] ELSE value]

\* tx_sender: the sender, or none when the node does not say or fails.
Resolve(tx) ==
    /\ stage = "minters" /\ tx \in Wanted \ DOMAIN minters
    /\ \/ minters' = OrInsert(minters, tx, Sender[tx]) /\ UNCHANGED trouble
       \/ trouble > 0 /\ trouble' = trouble - 1 /\ minters' = OrInsert(minters, tx, "none")
    /\ UNCHANGED <<stage, lo, hi, retry, ids, from, window, registrations, refused>>

\* All are resolved, or take_until(budget) ends the stream.  The ids and
\* their registrations go into the rows of the run, the rest is forgotten.
MintersEnd ==
    /\ stage = "minters" /\ stage' = "read"
    /\ lo' = 0 /\ hi' = 0 /\ from' = Deploy /\ window' = LogWindow
    /\ minters' = <<>> /\ refused' = <<>> /\ trouble' = MaxTrouble
    /\ UNCHANGED <<retry, ids, registrations>>

\* The columns of an agent's snapshot that these reads give.
minted(i) == IF i \in DOMAIN registrations THEN registrations[i].block ELSE 0

minter(i) == IF i \in DOMAIN registrations /\ registrations[i].tx \in DOMAIN minters
             THEN minters[registrations[i].tx] ELSE "none"

ReadNext ==
    \/ Answer \/ Fail \/ TimeOut
    \/ ScanAnswer \/ ScanRefused \/ ScanEnd
    \/ \E tx \in DOMAIN Sender : Resolve(tx)
    \/ MintersEnd

-----------------------------------------------------------------------------
Earliest(i) == Min({r.block : r \in {q \in Registered : q.id = i}})

\* What was read is what the chain says at the pinned block, whatever the
\* provider did in between: every agent that exists and no other
\* (registry.rs:555, "a wrong census that looks like a correct one"), each
\* with the block of its first event or none at all, and with the sender of
\* that transaction or none.
ReadIsExact ==
    /\ stage \in {"scan", "minters", "read"} => ids = {i \in Ids : exists_at(i)}
    /\ stage \in {"minters", "read"} => \A i \in ids :
          /\ minted(i) = IF registrations = <<>> THEN 0 ELSE Earliest(i)
          /\ minter(i) \in {"none"} \cup
                {Sender[r.tx] : r \in {q \in Registered : q.id = i /\ q.block = Earliest(i)}}

\* registry.rs:447, "each distinct limit is paid for exactly once per run": no
\* window that was refused is ever asked for again.
RefusedOnce == \A i, j \in DOMAIN refused : i # j => refused[i] # refused[j]

=============================================================================
