----------------------------- MODULE MCSweepRun -----------------------------
(***************************************************************************)
(* An instance of SweepRun for TLC, with the history of SweepClosing.      *)
(***************************************************************************)
EXTENDS SweepClosing

\* To bound the run, a cap is only tried where nothing else disturbs it.
Watched(step) ==
    /\ Noted(step)
    /\ calm' \/ \A s \in Sessions : Uncapped(s)'

\* Sessions are interchangeable, so that one of them may open every run.
Opener == CHOOSE s \in Sessions : TRUE

MCNext == \E s \in Sessions : (row.status = "none" => s = Opener) /\ Watched(SessionStep(s))

MCSpec ==
    /\ ClosingInit /\ [][MCNext]_closingVars
    /\ \A s \in Sessions :
          WF_closingVars(Watched(MainStep(s))) /\ WF_closingVars(Watched(WatchdogExits(s)))
=============================================================================
