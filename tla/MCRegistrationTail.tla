------------------------- MODULE MCRegistrationTail -------------------------
(***************************************************************************)
(* Instances of RegistrationTail for TLC.                                  *)
(***************************************************************************)
EXTENDS RegistrationTail
=============================================================================
