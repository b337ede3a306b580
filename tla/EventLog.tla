------------------------------ MODULE EventLog ------------------------------
(***************************************************************************)
(* What an event indexer promises: a log of the canonical events of a      *)
(* chain up to a block, extended a range at a time, with no gap, nothing   *)
(* from an abandoned fork, and nothing the chain can still take back.      *)
(* IngestLoop is shown to implement it, also with more than one writer.    *)
(***************************************************************************)
EXTENDS Integers

CONSTANTS First,      \* the first block of interest
          LastBlock   \* bound: the chain ends here

VARIABLES version,    \* of each block, which fork it belongs to
          covered,    \* the last block the log covers
          log         \* the events recorded: <<block, version>>

Blocks == 0 .. LastBlock

EventsOf(lo, hi) == {<<b, version[b]>> : b \in lo .. hi}

Init ==
    /\ version \in [Blocks -> Nat]
    /\ covered = First - 1
    /\ log = {}

\* A whole range enters the log and moves its end, in one step.
Extend ==
    /\ \E hi \in Blocks :
         /\ hi > covered
         /\ covered' = hi
         /\ log' = log \cup EventsOf(covered + 1, hi)
    /\ UNCHANGED version

\* A writer that started earlier ends later: the end moves back, the log stays.
Rewind ==
    /\ covered' \in Blocks
    /\ covered' < covered
    /\ UNCHANGED <<version, log>>

\* The chain may replace blocks, but none that is in the log.
Fork ==
    /\ version' \in [Blocks -> Nat]
    /\ \A e \in log : version'[e[1]] = version[e[1]]
    /\ UNCHANGED <<covered, log>>

Next == Extend \/ Rewind \/ Fork

Spec == Init /\ [][Next]_<<version, covered, log>>
=============================================================================
