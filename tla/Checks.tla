------------------------------- MODULE Checks -------------------------------
(***************************************************************************)
(* crates/checks: the rungs that judge one agent from what was read of it, *)
(* as pure functions.  Rung 6 is in LivePass, the ladder in Ladder.        *)
(*                                                                         *)
(* An outcome is what the prober saw of an agent's URI:                    *)
(*   scheme     the raw label of the resolver, "" for no URI               *)
(*   asked      a request URL was set                                      *)
(*   status     the HTTP status, 0 for none                                *)
(*   error      what kept it from an answer, "none" for nothing            *)
(*   body       what was kept of the document                              *)
(* A body is [kept, whole, json, doc]; a document is the sequence of its   *)
(* `registrations`, <<>> also for one that has none, or none as an array.  *)
(***************************************************************************)
EXTENDS Ladder, FiniteSets, Sequences

NoDocument == <<>>
NoBody == [kept |-> FALSE, whole |-> TRUE, json |-> FALSE, doc |-> NoDocument]

Outcome(scheme) ==
    [scheme |-> scheme, asked |-> FALSE, status |-> 0, error |-> "none", body |-> NoBody]

Success(code) == code \in 200 .. 299

-----------------------------------------------------------------------------
(* refusal.rs: the origin is there and declined.                           *)

DeclinedUs(code)   == code \in {401, 402, 407, 429, 503}
CouldNotAsk(error) == error \in {"robots_disallowed", "robots_unavailable"}

-----------------------------------------------------------------------------
(* The rungs.                                                              *)

ZeroAddress == "0x0"

\* Mutant: any owner will do.
Registered_any(owner) == "pass"

Registered(owner) == IF owner = ZeroAddress THEN "fail" ELSE "pass"

\* FetchOutcome::scheme_bucket: a malformed data: or ipfs:// URI carries the
\* label of a good one, and only what was done with it tells them apart.
SchemeBucket(o) ==
    CASE o.scheme = "" -> "empty"
      [] o.scheme # "" /\ o.asked -> o.scheme
      [] o.scheme = "data" /\ ~o.asked /\ (o.body.kept \/ o.error # "none") -> "data"
      [] OTHER -> "unsupported"

\* The reason rung 2 writes into its evidence, "none" for a pass.
Reason(o) ==
    LET bucket == SchemeBucket(o)
    IN  CASE bucket = "empty" -> "no_uri"
          [] bucket = "unsupported" -> "unsupported_scheme"
          [] bucket \notin {"empty", "unsupported"} ->
               CASE o.error # "none" -> o.error
                 [] o.error = "none" /\ bucket = "data" -> "none"
                 [] o.error = "none" /\ bucket # "data" ->
                      CASE o.status = 0 -> "no_response"
                        [] Success(o.status) -> "none"
                        [] o.status = 402 -> "payment_required"
                        [] DeclinedUs(o.status) /\ o.status # 402 -> "declined"
                        [] OTHER -> "http_status"

\* What each reason is a fact about: the agent, the origin, or us.
Resolvable(o) ==
    CASE Reason(o) = "none" -> "pass"
      [] Reason(o) \in {"no_uri", "unsupported_scheme", "ssrf_blocked", "http_status"} -> "fail"
      [] CouldNotAsk(Reason(o)) \/ Reason(o) \in {"payment_required", "declined"} -> "refused"
      [] OTHER -> "error"

\* A body we cut short is not judged, nor one we do not have.
Parseable(o) ==
    CASE ~o.body.whole \/ ~o.body.kept -> "error"
      [] o.body.whole /\ o.body.kept /\ o.body.json -> "pass"
      [] OTHER -> "fail"

\* The document rung 3 hands on: none unless it parsed, Null in its place.
Document(o) == IF Parseable(o) = "pass" THEN o.body.doc ELSE NoDocument

\* An entry of `registrations`: its agentId or Absent, and its agentRegistry,
\* "missing", "malformed" (not three parts) or "triple".
Absent == -1

Entry(id, form, namespace, chain, address) ==
    [agentId |-> id, form |-> form, namespace |-> namespace, chain |-> chain, address |-> address]

MustViolations(doc) ==
    {<<i, "agentId">> : i \in {j \in DOMAIN doc : doc[j].agentId = Absent}}
        \cup {<<i, "agentRegistry">> : i \in {j \in DOMAIN doc : doc[j].form = "missing"}}

Conformant(doc) == IF MustViolations(doc) = {} THEN "pass" ELSE "fail"

\* evaluate_entry: the parts of an entry that agree with the chain.
Agreements(e, actual) ==
    {part \in {"agent", "namespace", "chain", "address"} :
        CASE part = "agent" -> e.agentId = actual.agent
          [] part = "namespace" -> e.form = "triple" /\ e.namespace = "eip155"
          [] part = "chain" -> e.form = "triple" /\ e.chain = actual.chain
          [] part = "address" -> e.form = "triple" /\ e.address = actual.registry}

\* The entry reported: the highest score, the first of equals.
Best(doc, actual) ==
    CHOOSE i \in DOMAIN doc :
        \A j \in DOMAIN doc :
            LET si == Cardinality(Agreements(doc[i], actual))
                sj == Cardinality(Agreements(doc[j], actual))
            IN  si > sj \/ (si = sj /\ i <= j)

\* Mutant: the first entry speaks for the document.
Bound_first(doc, actual) ==
    IF doc = <<>> THEN "unclaimed"
    ELSE IF Cardinality(Agreements(doc[1], actual)) = 4 THEN "pass" ELSE "fail"

Bound(doc, actual) ==
    IF doc = <<>> THEN "unclaimed"
    ELSE IF Cardinality(Agreements(doc[Best(doc, actual)], actual)) = 4 THEN "pass" ELSE "fail"

\* Rung 7 asks whether anybody left feedback, where there is a registry to ask.
Attested(available, clients) ==
    CASE ~available -> "error"
      [] available /\ clients = {} -> "fail"
      [] OTHER -> "pass"

-----------------------------------------------------------------------------
(* assemble_ladder (sweep) and ladder (spot check): rungs 1 to 5 always,   *)
(* whatever was learnt, 6 never, and 7 when it was asked; then the ladder. *)

NotAsked == "not asked"

Assemble(owner, o, actual, rung7) ==
    LET raw == <<Registered(owner), Resolvable(o), Parseable(o),
                 Conformant(Document(o)), Bound(Document(o), actual)>>
        asked == IF rung7 = NotAsked THEN 1 .. 5 ELSE (1 .. 5) \cup {7}
    IN  RunLadder([r \in asked |-> IF r = 7 THEN rung7 ELSE raw[r]])
=============================================================================
