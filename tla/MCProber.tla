------------------------------ MODULE MCProber ------------------------------
(***************************************************************************)
(* Instances of Prober for TLC.                                            *)
(***************************************************************************)
EXTENDS Prober, TLC

\* Nothing but a worker's place in a queue tells workers or hosts apart.
ProberSymmetry == Permutations(Workers) \cup Permutations(Hosts)
=============================================================================
