---------------------------- MODULE MCSpotCheck ----------------------------
(***************************************************************************)
(* An instance of SpotCheck for TLC.                                       *)
(***************************************************************************)
EXTENDS SpotCheck

CONSTANTS h1, none

At(owner, host) == [owner |-> owner, host |-> host]

\* The first agent comes to name a host, the second, already there, is burned.
MCWorld == [a \in 1 .. 2 |->
    IF a = 1 THEN <<At("held", none), At("held", h1)>> ELSE <<At("held", h1), At("zero", h1)>>]

MCClientQuotas == {[limit |-> 2, window |-> 3]}
MCHostQuotas == {[limit |-> 1, window |-> 2], [limit |-> 2, window |-> 6]}
=============================================================================
