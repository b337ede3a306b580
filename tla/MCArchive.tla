----------------------------- MODULE MCArchive ------------------------------
(***************************************************************************)
(* Instances of Archive for TLC: the outcomes the two builds and the       *)
(* backfill tell apart.                                                    *)
(***************************************************************************)
EXTENDS Archive, TLC

Answer(code) == [Outcome("http") EXCEPT !.asked = TRUE, !.status = code]
Failure(why) == [Outcome("http") EXCEPT !.asked = TRUE, !.error = why]

\* One agent sits behind a rate limit, the other behind a robots.txt.
CONSTANTS a1, a2
MCObservations ==
    (a1 :> {Answer(200), Answer(429)}) @@ (a2 :> {Answer(200), Failure("robots_disallowed")})
=============================================================================
