---------------------------- MODULE MCIngestLoop ----------------------------
(***************************************************************************)
(* Instances of IngestLoop for TLC.                                        *)
(***************************************************************************)
EXTENDS IngestLoop
=============================================================================
