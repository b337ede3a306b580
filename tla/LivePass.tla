------------------------------ MODULE LivePass ------------------------------
(***************************************************************************)
(* Rung 6 as a second pass over a finished run:                            *)
(* crates/sweeper/src/bin/liveness.rs, with checks::live and the statements *)
(* of crates/sweeper/src/store.rs it is built on.                          *)
(*                                                                         *)
(* The sweep has judged rungs 1 to 5 and 7 of every agent.  A pass reads    *)
(* what the agents declared, chooses a sample of the URLs within a budget   *)
(* per host, asks those that endpoint_probes does not know yet, and then    *)
(* writes or removes the rung-6 row of every agent.  It may be killed       *)
(* anywhere, run again with another budget, or run twice at once.           *)
(*                                                                         *)
(* URLs and agents are numbers in the order the code sorts them.  An        *)
(* observation is an error, or the status of an answer.                     *)
(***************************************************************************)
EXTENDS Live, FiniteSetsExt, Functions

CONSTANTS
    Passes,        \* processes
    NAgents,
    NUrls,
    Raw,           \* of each agent: the raw results the sweep may have had for it
    Archived,      \* of each agent: the document archived for it
    Responses,     \* what may be observed at a URL
    HostOf,
    HashRank,      \* the place of a URL in the order of fnv1a
    Budgets,       \* the values of RUNG6_HOST_BUDGET
    Concurrency,
    MaxStarts      \* bounds how many passes begin

Agents == 1 .. NAgents
Urls   == 1 .. NUrls
ASSUME LivePassAssumption ==
    /\ {NAgents, NUrls, MaxStarts} \subseteq Nat
    /\ Concurrency \in Nat \ {0} /\ Budgets \subseteq Nat
    /\ IsFiniteSet(Budgets)
    /\ Responses \subseteq [error : STRING, status : Nat]
    /\ DOMAIN Archived = Agents
    /\ \A a \in Agents : Probeable(Archived[a]) \subseteq Urls
    /\ HashRank \in [Urls -> Urls] /\ DOMAIN HostOf = Urls
    /\ \A u, v \in Urls : HashRank[u] = HashRank[v] => u = v
    /\ \A a \in Agents : \A raw \in Raw[a] :
          /\ DOMAIN raw = 1 .. 5 \cup (IF raw[1] = "pass" THEN {7} ELSE {})
          /\ \A r \in DOMAIN raw : raw[r] \in Statuses \ {"skipped"}
          /\ raw[4] \in {"pass", "fail"}

HasServices == {a \in Agents : HasEntries(Archived[a])}
Declares == [a \in Agents |-> Probeable(Archived[a])]

VARIABLES
    rows,      \* check_results: of each agent, the rungs that have a row
    probes,    \* endpoint_probes: the URLs that have a row, and what was seen
    stamp,     \* whose versions the run carries: "sweep" or "liveness"
    pc,        \* of each pass
    budget,
    todo,      \* the URLs to ask that were not asked yet
    flying,    \* asked, not answered
    view,      \* observations: endpoint_probes as it was read before judging
    left,      \* the agents that remain to be judged
    starts,    \* how many passes began
    company,   \* passes that did not have the run to themselves (history)
    torn,      \* passes that could not write some row (history)
    widest     \* the largest budget of a pass so far (history)

passVars == <<pc, budget, todo, flying, view, left>>
history  == <<company, torn, widest>>
vars     == <<rows, probes, stamp, passVars, starts, history>>

Observations == UNION {[D -> Responses] : D \in SUBSET Urls}

TypeOK ==
    /\ \A a \in Agents : DOMAIN rows[a] \subseteq Rungs /\ Range(rows[a]) \subseteq Rows
    /\ probes \in Observations
    /\ stamp \in {"sweep", "liveness"}
    /\ pc \in [Passes -> {"off", "probing", "judging"}]
    /\ budget \in [Passes -> Budgets \cup {0}]
    /\ todo \in [Passes -> SUBSET Urls]
    /\ flying \in [Passes -> SUBSET Urls]
    /\ \A p \in Passes : Cardinality(flying[p]) <= Concurrency
    /\ view \in [Passes -> Observations]
    /\ left \in [Passes -> SUBSET Agents]
    /\ starts \in 0 .. MaxStarts
    /\ company \in SUBSET Passes /\ torn \in SUBSET Passes
    /\ widest \in Budgets \cup {0}

Nothing == [u \in {} |-> Unanswered]

\* The sweep has assembled the ladder of every agent.
Init ==
    /\ \E raw \in [Agents -> UNION {Raw[a] : a \in Agents}] :
         /\ \A a \in Agents : raw[a] \in Raw[a]
         /\ rows = [a \in Agents |-> RunLadder(raw[a])]
    /\ probes = Nothing
    /\ stamp = "sweep"
    /\ pc = [p \in Passes |-> "off"]
    /\ budget = [p \in Passes |-> 0]
    /\ todo = [p \in Passes |-> {}] /\ flying = todo /\ left = todo
    /\ view = [p \in Passes |-> Nothing]
    /\ starts = 0
    /\ company = {} /\ torn = {} /\ widest = 0

-----------------------------------------------------------------------------
Rung4(a) == rows[a][4].status

\* declared_by_agent: the document of an agent is read only if it conforms.
Declared == {a \in HasServices : Rung4(a) = "pass"}
Distinct == UNION {Declares[a] : a \in Declared}

Before(u, urls) == {v \in urls : HostOf[v] = HostOf[u] /\ HashRank[v] < HashRank[u]}

\* The sample: of each host, the first URLs in the order of their hashes.
Selected(b) == {u \in Distinct : Cardinality(Before(u, Distinct)) < b}

\* Mutant: the budget is spent on what is left to ask.
ToAsk_afresh(b) ==
    LET unasked == Distinct \ DOMAIN probes
    IN  {u \in unasked : Cardinality(Before(u, unasked)) < b}

\* The checkpoint: what already has a row is not asked.
ToAsk(b) == Selected(b) \ DOMAIN probes

Running == {p \in Passes : pc[p] # "off"}

Start(p) ==
    /\ pc[p] = "off"
    /\ starts < MaxStarts
    /\ \E b \in Budgets :
         /\ budget' = [budget EXCEPT ![p] = b]
         /\ todo' = [todo EXCEPT ![p] = ToAsk(b)]
         /\ widest' = IF b > widest THEN b ELSE widest
    /\ pc' = [pc EXCEPT ![p] = "probing"]
    /\ starts' = starts + 1
    /\ company' = IF Running = {} THEN {} ELSE company \cup Running \cup {p}
    /\ torn' = torn \cap Running
    /\ UNCHANGED <<rows, probes, stamp, flying, view, left>>

Room(p) == Cardinality(flying[p]) < Concurrency

\* buffer_unordered: the next URL in order is asked when there is room.
Ask(p) ==
    /\ pc[p] = "probing"
    /\ todo[p] # {}
    /\ Room(p)
    /\ todo' = [todo EXCEPT ![p] = @ \ {Min(todo[p])}]
    /\ flying' = [flying EXCEPT ![p] = @ \cup {Min(todo[p])}]
    /\ UNCHANGED <<rows, probes, stamp, pc, budget, view, left, starts, history>>

With(u, obs) == [v \in DOMAIN probes \cup {u} |-> IF v = u THEN obs ELSE probes[v]]

\* ON CONFLICT DO NOTHING: the first answer is kept.
RecordProbe(u, obs) ==
    probes' = IF u \in DOMAIN probes THEN probes ELSE With(u, obs)

\* Mutant: a probe that could not be recorded is asked again at once.
RecordFails_again(p, u) ==
    /\ UNCHANGED probes
    /\ todo' = [todo EXCEPT ![p] = @ \cup {u}]

\* record_probe fails, or the URL has a NUL and is recorded under its escaped
\* form, which no lookup asks for: there is no row for it.
RecordFails(p, u) ==
    /\ UNCHANGED probes
    /\ UNCHANGED todo

Answer(p) ==
    /\ pc[p] = "probing"
    /\ \E u \in flying[p] :
         /\ flying' = [flying EXCEPT ![p] = @ \ {u}]
         /\ \/ (\E obs \in Responses : RecordProbe(u, obs)) /\ UNCHANGED todo
            \/ RecordFails(p, u)
    /\ UNCHANGED <<rows, stamp, pc, budget, view, left, starts, history>>

\* probed_urls, read again.
Observed == probes

\* The stream is over: read the observations.
Load(p) ==
    /\ pc[p] = "probing"
    /\ todo[p] = {} /\ flying[p] = {}
    /\ view' = [view EXCEPT ![p] = Observed]
    /\ left' = [left EXCEPT ![p] = Agents]
    /\ pc' = [pc EXCEPT ![p] = "judging"]
    /\ UNCHANGED <<rows, probes, stamp, budget, todo, flying, starts, history>>
-----------------------------------------------------------------------------
(* The verdict, and the row it becomes.                                    *)

\* What the pass observed of the URLs an agent declares.
ObservedOf(a, observed) == {observed[u] : u \in Declares[a] \cap DOMAIN observed}

\* rung4_as_read: a status that rung 4 never has reads as skipped.
Rung4AsRead(status) ==
    IF status \in {"pass", "fail", "error", "unclaimed", "unprobeable"} THEN status ELSE "skipped"

\* What the pass makes of an agent, as a set: no row at all, or the row.
Judged(a, observed) ==
    LET ladder(result) ==
            {RunLadder([r \in {4, 6} |-> IF r = 4 THEN Rung4AsRead(Rung4(a)) ELSE result])[6]}
    IN  IF a \in Declared
        THEN IF Declares[a] = {} THEN ladder("unprobeable")
             ELSE IF ObservedOf(a, observed) = {} THEN {}
             ELSE ladder(Verdict({SeenAt(obs) : obs \in ObservedOf(a, observed)}))
        ELSE IF Rung4(a) = "pass" THEN {} ELSE ladder("unprobeable")

WithoutRung6(a) == Restrict(rows[a], DOMAIN rows[a] \ {6})

\* clear_rung6, or replace_rung6: remove the row, insert the new one.
Replace(a, judged) ==
    rows' = [rows EXCEPT ![a] =
                IF judged = {} THEN WithoutRung6(a)
                ELSE [r \in DOMAIN rows[a] \cup {6} |->
                         IF r = 6 THEN CHOOSE row \in judged : TRUE ELSE rows[a][r]]]

Judge(p) ==
    /\ pc[p] = "judging"
    /\ left[p] # {}
    /\ LET a == Min(left[p])
       IN  /\ left' = [left EXCEPT ![p] = @ \ {a}]
           /\ \/ Replace(a, Judged(a, view[p])) /\ UNCHANGED torn
              \/ torn' = torn \cup {p} /\ UNCHANGED rows     \* the row cannot be written
    /\ UNCHANGED <<probes, stamp, pc, budget, todo, flying, view, starts, company, widest>>

\* The process is gone, and what it had in mind with it.
Gone(p) ==
    /\ pc' = [pc EXCEPT ![p] = "off"]
    /\ budget' = [budget EXCEPT ![p] = 0]
    /\ todo' = [todo EXCEPT ![p] = {}]
    /\ flying' = [flying EXCEPT ![p] = {}]
    /\ view' = [view EXCEPT ![p] = Nothing]
    /\ left' = [left EXCEPT ![p] = {}]

Restamp(p) ==
    /\ pc[p] = "judging"
    /\ left[p] = {}
    /\ stamp' = "liveness"
    /\ Gone(p)
    /\ UNCHANGED <<rows, probes, starts, history>>

\* A read fails, or the process is killed.
Crash(p) ==
    /\ pc[p] # "off"
    /\ Gone(p)
    /\ UNCHANGED <<rows, probes, stamp, starts, history>>

Work(p) == Ask(p) \/ Answer(p) \/ Load(p) \/ Judge(p) \/ Restamp(p)

Next == \E p \in Passes : Start(p) \/ Work(p) \/ Crash(p)

Spec == Init /\ [][Next]_vars

\* A pass that is not killed goes on: every request is bounded by its timeout,
\* every statement by the connection's.
FairSpec == Spec /\ \A p \in Passes : WF_vars(Work(p))
-----------------------------------------------------------------------------
(* What the pass and the ladder promise.                                   *)

\* The three tracks of ladder.rs:21-37: documents 1 to 5, services 6 on 4,
\* reputation 7 on 1 alone.
Track == {<<1, 2>>, <<2, 3>>, <<3, 4>>, <<4, 5>>, <<4, 6>>, <<1, 7>>}

\* "every rung that *depends* on it is `Skipped` - never `Fail`" (ladder.rs:4),
\* of the rows two programs wrote: a row is skipped exactly when the agent has a
\* row of the rung it depends on, and that one did not pass.
SkippedIffStopped ==
    \A a \in Agents : \A r \in DOMAIN rows[a] :
        rows[a][r].status = "skipped" <=>
            \E edge \in Track :
                /\ edge[2] = r /\ edge[1] \in DOMAIN rows[a]
                /\ rows[a][edge[1]].status # "pass"

\* "Propagate the ORIGINAL stopper" (ladder.rs:109): what the sweep wrote on a
\* skipped row is a rung that was judged and did not pass.
OriginalStopper ==
    \A a \in Agents : \A r \in DOMAIN rows[a] \ {6} :
        rows[a][r].status = "skipped" =>
            LET stop == rows[a][r].because
            IN  /\ stop[1] \in DOMAIN rows[a] /\ stop[1] < r
                /\ rows[a][stop[1]].status = stop[2]
                /\ stop[2] \notin {"pass", "skipped"}

\* "Distinct URLs probed per host before the rest are left alone"
\* (liveness.rs:47): however many passes ran, were killed or ran together, the
\* URLs of a host that were asked are no more than the largest budget.
BudgetKept ==
    LET Asked == DOMAIN probes \cup UNION {flying[p] : p \in Passes}
    IN  \A u \in Asked :
            Cardinality({v \in Asked : HostOf[v] = HostOf[u]}) <= widest

\* "sends no request it has already sent" (liveness.rs:27): a pass that has the
\* run to itself never asks a URL that has an observation.
AskedOnce ==
    \A p \in Passes \ company : flying[p] \cap DOMAIN probes = {}

\* No answer, no verdict: whatever was killed, lost or ran together, a verdict of
\* rung 6 rests on an observation that says so and is still there.
VerdictIsBacked ==
    \A a \in Agents :
        6 \in DOMAIN rows[a] =>
            LET status == rows[a][6].status
                seen == ObservedOf(a, probes)
                answers == {obs.status : obs \in {o \in seen : o.error = "none"}}
                errors == {obs.error : obs \in seen}
            IN  /\ status = "pass" => \E code \in answers : Success(code) \/ code = 402
                /\ status = "fail" =>
                       \/ "ssrf_blocked" \in errors
                       \/ \E code \in answers \ {0} : ~Success(code) /\ ~DeclinedUs(code)
                /\ status = "refused" =>
                       \/ \E error \in errors : CouldNotAsk(error)
                       \/ \E code \in answers : DeclinedUs(code) /\ code # 402
                /\ status = "error" => seen # {}

\* The order of checks::live, "pass > fail > refused > error" (rung6_live.rs:402).
Strength == [live |-> <<4, "pass">>, not_live |-> <<3, "fail">>,
             refused |-> <<2, "refused">>, our_error |-> <<1, "error">>]

\* What the rung-6 row of an agent should be, from all that was ever observed.
Deserved(a) ==
    LET seen == {Strength[SeenAt(obs)] : obs \in ObservedOf(a, probes)}
        best == CHOOSE s \in seen : \A t \in seen : t[1] <= s[1]
    IN  IF Rung4(a) # "pass" THEN {Skipped(<<4, Rung4(a)>>)}
        ELSE IF a \notin HasServices THEN {}
        ELSE IF Declares[a] = {} THEN {Row("unprobeable")}
        ELSE IF seen = {} THEN {}
        ELSE {Row(best[2])}

\* A pass that had the run to itself and could write its rows leaves every agent
\* with the row it deserves, or with none where nothing was asked; and the run
\* says who judged it (store.rs:1102).
PassSettles ==
    [][\A p \in Passes :
          pc[p] = "judging" /\ pc'[p] = "off" /\ left[p] = {} /\ stamp' = "liveness"
             /\ p \notin company \cup torn
          => \A a \in Agents :
                 {rows[a][r] : r \in DOMAIN rows[a] \cap {6}} = Deserved(a)]_vars

\* A pass that is not killed comes to an end.
PassEnds == \A p \in Passes : pc[p] # "off" ~> pc[p] = "off"

\* The rows keep their types, and the ladder holds across the rows of two programs.
LadderKept == TypeOK /\ SkippedIffStopped /\ OriginalStopper

\* What was asked stays within the budget and is not asked again, and what was
\* observed is what verdicts rest on.
ProbesKept == BudgetKept /\ AskedOnce /\ VerdictIsBacked
=============================================================================
