-------------------------- MODULE MCStallWatchdog --------------------------
(***************************************************************************)
(* Instances of StallWatchdog for TLC; one unit of time is one poll.       *)
(***************************************************************************)
EXTENDS StallWatchdog
=============================================================================
