----------------------------- MODULE MCLivePass -----------------------------
(* Two URLs of one host, so that a budget of one leaves one of them out; an *)
(* agent that declares both, whose ladder may be anything, one that shares a *)
(* URL with it, one without a URL to ask and one without a document.         *)
EXTENDS LivePass, TLC

\* Raw results of which the given rungs failed; without rung 1, rung 7 is not asked.
Failing(rungs) ==
    [r \in 1 .. 5 \cup (IF 1 \in rungs THEN {} ELSE {7}) |->
        IF r \in rungs THEN "fail" ELSE "pass"]

Ladders ==
    {Failing(rungs) : rungs \in SUBSET {1, 2, 4}}
    \cup {(2 :> "refused" @@ 5 :> "unclaimed" @@ 7 :> "error") @@ Failing({4})}

MCRaw == <<Ladders, {Failing({5})}, {Failing({7})}, {Failing({})}>>

\* An entry of `services`, and what an endpoint can be.
Entry6(scheme, url) ==
    [text |-> TRUE, blank |-> FALSE, scheme |-> scheme, triple |-> FALSE, email |-> FALSE, url |-> url]
Plain == Entry6("none", 0)
Array(entries) == [form |-> "array", entries |-> entries]

MCArchived == <<
    [services |-> Array(<<Entry6("https", 1), Entry6("http", 2), Plain>>),
     endpoints |-> Array(<<Entry6("mailto", 0)>>)],
    [services |-> NullField, endpoints |-> Array(<<Entry6("https", 2), Entry6("https", 2)>>)],
    [services |-> Array(<<[Plain EXCEPT !.triple = TRUE], [Plain EXCEPT !.email = TRUE],
                          Entry6("mailto", 0), [Plain EXCEPT !.text = FALSE],
                          [Plain EXCEPT !.blank = TRUE]>>),
     endpoints |-> Array(<<Entry6("https", 1)>>)],
    [services |-> [form |-> "other", entries |-> <<>>], endpoints |-> Array(<<Entry6("http", 1)>>)]>>

\* A payment challenge, an address nobody could reach, no permission, no answer.
MCResponses ==
    {[error |-> "none", status |-> 402]}
    \cup {[error |-> e, status |-> 0] : e \in {"ssrf_blocked", "robots_unavailable", "timeout"}}

MCHostOf   == <<"host", "host">>
MCHashRank == <<2, 1>>
=============================================================================
