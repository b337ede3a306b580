----------------------------- MODULE AgentCheck -----------------------------
(***************************************************************************)
(* The check of one agent, from the reads of the chain to its ladder: the  *)
(* resolution of its URI, the fetch with its gateways, hops and guards,    *)
(* the feedback read, and the rows.  Two programs do it, the census (the   *)
(* stream of sweep) and the spot check of the API (post); `caller` says    *)
(* which.  The prober's queues are in Prober; here a request is one step   *)
(* whose answer the network chooses.                                       *)
(*                                                                         *)
(* `cause` is history: what really put an end to the fetch.  The code does *)
(* not keep it; it has to say the right thing about it in rung 2.          *)
(***************************************************************************)
EXTENDS Checks, Integers

CONSTANTS
    Gateways,       \* how many IPFS gateways are configured
    MaxRedirects,   \* hops followed after the first request (3 in the code)
    Codes,          \* the statuses a server answers with
    Documents,      \* what a document's `registrations` may be
    Actual          \* [agent, chain, registry]: the truth rung 5 compares with

ASSUME CheckAssumption ==
    /\ Gateways \in Nat \ {0} /\ MaxRedirects \in Nat
    /\ Codes \subseteq 100 .. 599
    /\ Documents \subseteq Seq([agentId : Int, form : {"missing", "malformed", "triple"},
                                namespace : STRING, chain : Int, address : STRING])

VARIABLES caller, owner, uri, registry, pc, gateway, hop, out, cause, clients

checkVars == <<caller, owner, uri, registry, pc, gateway, hop, out, cause, clients>>
chain == <<caller, owner, uri, registry>>

-----------------------------------------------------------------------------
(* URIs, as resolve tells them apart.  The fields of a data: URI are those *)
(* decode_data_uri looks at, in its order.                                 *)

DataUri == [form : {"data"}, comma : BOOLEAN, base64 : BOOLEAN, raw : BOOLEAN,
            decodes : BOOLEAN, enc : {"none", "gzip", "zstd"}, inflates : BOOLEAN]
Uri == DataUri \cup [form : {"blank", "json", "ipfs", "ipfs_empty", "http", "other"}]

Decode(u) ==
    CASE ~u.comma -> "malformed"
      [] u.comma /\ ~u.base64 -> "plain"
      [] u.comma /\ u.base64 /\ u.raw -> "base64_claimed_but_raw_json"
      [] u.comma /\ u.base64 /\ ~u.raw ->
           CASE ~u.decodes -> "malformed"
             [] u.decodes /\ u.enc = "none" -> "base64"
             [] u.decodes /\ u.enc = "gzip" -> IF u.inflates THEN "compressed" ELSE "malformed"
             [] OTHER -> "unsupported_compression"

\* What comes off the wire or out of a data: URI: all of it, or its first part.
Body == [kept : {TRUE}, whole : BOOLEAN, json : {FALSE}, doc : {NoDocument}]
            \cup [kept : {TRUE}, whole : BOOLEAN, json : {TRUE}, doc : Documents]

-----------------------------------------------------------------------------
(* The two ladders, from what each program has in hand.                    *)

Unread == {"no answer"}

Feedback(read) ==
    IF read = Unread THEN NotAsked ELSE Attested(registry, IF registry THEN read ELSE {})

\* The census leaves an agent out when its feedback could not be read, so
\* that read is never Unread here.
CensusRows(o, read) ==
    Assemble(owner, o, Actual, IF Registered(owner) = "pass" THEN Feedback(read) ELSE NotAsked)

\* existence_from_owner, kept apart from rung 1 on purpose.
Held == owner # ZeroAddress

\* The spot check fetches nothing for a token nobody holds, and drops rung 7
\* where the census drops the agent.
SpotRows(o, read) ==
    IF Held THEN Assemble(owner, o, Actual, Feedback(read))
    ELSE Assemble(owner, Outcome(""), Actual, NotAsked)

\* What the program writes, or answers, once it has judged.
results == IF caller = "census" THEN CensusRows(out, clients) ELSE SpotRows(out, clients)

-----------------------------------------------------------------------------
CheckInit ==
    /\ caller \in {"census", "spot"} /\ owner \in {ZeroAddress, "someone"}
    /\ uri \in Uri /\ registry \in BOOLEAN
    /\ pc = "snapshot" /\ gateway = 0 /\ hop = 0
    /\ out = Outcome("") /\ cause = "none" /\ clients = {}

Goto(label) == pc' = label

\* The fetch is over with this outcome, for this cause.
Ends(o, why) == out' = o /\ cause' = why /\ Goto("feedback")

\* The snapshot could not be read: the census goes on without the agent, the
\* spot check answers 500.
SnapshotFails ==
    /\ pc = "snapshot" /\ Goto("left_out")
    /\ UNCHANGED <<chain, gateway, hop, out, cause, clients>>

Snapshot ==
    /\ pc = "snapshot"
    /\ IF caller = "spot" /\ ~Held THEN Goto("judge") ELSE Goto("resolve")
    /\ UNCHANGED <<chain, gateway, hop, out, cause, clients>>

\* Prober::fetch for what needs no request.
ResolveInline ==
    /\ pc = "resolve" /\ uri.form \in {"blank", "json", "ipfs_empty", "other", "data"}
    /\ LET kind == IF uri.form = "data" THEN Decode(uri) ELSE uri.form
       IN  CASE kind = "blank" -> Ends(Outcome(""), "no_uri")
             [] kind = "ipfs_empty" -> Ends(Outcome("ipfs"), "unsupported")
             [] kind = "other" -> Ends(Outcome("unknown"), "unsupported")
             [] kind = "malformed" -> Ends(Outcome("data"), "unsupported")
             [] kind = "unsupported_compression" ->
                  Ends([Outcome("data") EXCEPT !.error = "unsupported_compression"], "our_codec")
             [] OTHER -> \E b \in Body : Ends([Outcome("data") EXCEPT !.body = b], "success")
    /\ UNCHANGED <<chain, gateway, hop, clients>>

\* The request URL is recorded once, before anything can go wrong.
Request(scheme) ==
    /\ out' = [Outcome(scheme) EXCEPT !.asked = TRUE]
    /\ hop' = 0 /\ Goto("validate")

ResolveHttp ==
    /\ pc = "resolve" /\ uri.form = "http" /\ Request("http")
    /\ UNCHANGED <<chain, gateway, cause, clients>>

ResolveIpfs ==
    /\ pc = "resolve" /\ uri.form = "ipfs" /\ gateway' = 1 /\ Request("ipfs")
    /\ UNCHANGED <<chain, cause, clients>>

\* fetch_ipfs_chain: a gateway that answered 2xx speaks for the document; of
\* the others nothing is said, whatever the last of them did.
\* Mutant: the last gateway's answer stands.
Answered_last(o, why) ==
    IF uri.form # "ipfs" \/ Success(o.status) \/ gateway = Gateways
    THEN Ends(o, IF uri.form # "ipfs" \/ Success(o.status) THEN why ELSE "all_gateways")
         /\ UNCHANGED <<gateway, hop>>
    ELSE gateway' = gateway + 1 /\ Request("ipfs") /\ UNCHANGED cause

Answered(o, why) ==
    IF uri.form # "ipfs" \/ Success(o.status)
    THEN Ends(o, why) /\ UNCHANGED <<gateway, hop>>
    ELSE IF gateway < Gateways
         THEN gateway' = gateway + 1 /\ Request("ipfs") /\ UNCHANGED cause
         ELSE /\ Ends([Outcome("ipfs") EXCEPT !.asked = TRUE, !.error = "ipfs_all_gateways_failed"],
                      "all_gateways")
              /\ UNCHANGED <<gateway, hop>>

Failed(error, why) == Answered([out EXCEPT !.error = error], why)

\* netguard: the name has an address, and every address is public.
HopAllowed ==
    /\ pc = "validate"
    /\ Goto(IF hop = 0 THEN "robots" ELSE "send")
    /\ UNCHANGED <<chain, gateway, hop, out, cause, clients>>

HopBlocked ==
    /\ pc = "validate"
    /\ \E why \in {"not_public", "no_address"} : Failed("ssrf_blocked", why)
    /\ UNCHANGED <<chain, clients>>

\* robots.txt, asked about the first hop only.
RobotsAllow ==
    /\ pc = "robots" /\ Goto("send")
    /\ UNCHANGED <<chain, gateway, hop, out, cause, clients>>

RobotsRefuse ==
    /\ pc = "robots"
    /\ \E error \in {"robots_disallowed", "robots_unavailable"} : Failed(error, "no_permission")
    /\ UNCHANGED <<chain, clients>>

SendFails ==
    /\ pc = "send"
    /\ \E error \in {"timeout", "connection_failed"} : Failed(error, "our_network")
    /\ UNCHANGED <<chain, clients>>

Redirects(code) == code \in 300 .. 399

\* A redirect with a Location that joins, within the limit: the next hop.
\* Mutant: the hops are not counted.
Follow_forever ==
    /\ hop < MaxRedirects /\ Goto("validate")
    /\ UNCHANGED <<gateway, hop, out, cause>>

Follow ==
    /\ hop < MaxRedirects
    /\ hop' = hop + 1 /\ Goto("validate")
    /\ UNCHANGED <<gateway, out, cause>>

Redirected ==
    /\ pc = "send" /\ \E code \in Codes : Redirects(code)
    /\ Follow
    /\ UNCHANGED <<chain, clients>>

BadLocation ==
    /\ pc = "send" /\ hop < MaxRedirects /\ \E code \in Codes : Redirects(code)
    /\ Failed("bad_redirect_location", "our_redirects")
    /\ UNCHANGED <<chain, clients>>

\* What a final status is about: the document, the origin declining, the agent.
Meaning(code) ==
    CASE Success(code) -> "success"
      [] DeclinedUs(code) -> "declined"
      [] OTHER -> "answered"

\* The terminal response.  A redirect is one at the last hop, and at any hop
\* when it names no Location.
Terminal ==
    /\ pc = "send"
    /\ \E code \in Codes, b \in Body :
         LET o == [out EXCEPT !.status = code, !.body = b]
         IN  IF Redirects(code)
             THEN Answered([o EXCEPT !.error = "too_many_redirects"], "our_redirects")
             ELSE Answered(o, Meaning(code))
    /\ UNCHANGED <<chain, clients>>

\* The feedback read of rung 7: for a held token, where there is a registry.
ReadFeedback ==
    /\ pc = "feedback" /\ Goto("judge")
    /\ IF Registered(owner) = "pass" /\ registry
       THEN clients' \in SUBSET {"client"} ELSE clients' = {}
    /\ UNCHANGED <<chain, gateway, hop, out, cause>>

\* It fails: the census goes on without the agent, the spot check without the rung.
FeedbackFails ==
    /\ pc = "feedback" /\ Registered(owner) = "pass" /\ registry
    /\ clients' = Unread
    /\ Goto(IF caller = "census" THEN "left_out" ELSE "judged")
    /\ UNCHANGED <<chain, gateway, hop, out, cause>>

Judge ==
    /\ pc = "judge" /\ Goto("judged")
    /\ UNCHANGED <<chain, gateway, hop, out, cause, clients>>

CheckNext ==
    \/ Snapshot \/ SnapshotFails
    \/ ResolveInline \/ ResolveHttp \/ ResolveIpfs
    \/ HopAllowed \/ HopBlocked \/ RobotsAllow \/ RobotsRefuse
    \/ SendFails \/ Redirected \/ BadLocation \/ Terminal
    \/ ReadFeedback \/ FeedbackFails \/ Judge

\* Every request has a total timeout, so the one task goes on.
CheckSpec == CheckInit /\ [][CheckNext]_checkVars /\ WF_checkVars(CheckNext)

-----------------------------------------------------------------------------
(* Properties.                                                             *)

TypeOK ==
    /\ uri \in Uri /\ gateway \in 0 .. Gateways /\ hop \in 0 .. MaxRedirects
    /\ clients \in (SUBSET {"client"}) \cup {Unread}

\* Rung 2 says `pass` only of a document we have, `fail` only for something
\* the agent published or its server answered, `refused` only when the origin
\* declined, and `error` only for what was ours, however many gateways, hops
\* and guards lie between (checks/src/rung2_resolvable.rs, probe/src/fetch.rs).
JustBlame ==
    pc = "judged" /\ Held =>
        results[2].status =
            CASE cause = "success" -> "pass"
              [] cause \in {"no_uri", "unsupported", "not_public", "no_address", "answered"} -> "fail"
              [] cause \in {"no_permission", "declined"} -> "refused"
              [] cause \in {"our_codec", "our_network", "our_redirects", "all_gateways"} -> "error"

\* Rungs 3 to 5 speak of the agent only from the whole document it serves:
\* what stands in for a document that was not read never surfaces, and a
\* bound agent is named in full by one entry (assemble_ladder, rung5_bound.rs).
JudgedOnTheDocument ==
    pc = "judged" =>
        LET says(r, statuses) == results[r].status \in statuses
        IN  /\ says(3, {"pass", "fail"}) => Held /\ cause = "success" /\ out.body.whole
            /\ says(4, {"pass", "fail"}) \/ says(5, {"pass", "fail", "unclaimed"}) =>
                   out.body.json /\ says(3, {"pass"})
            /\ says(4, {"pass"}) => \A i \in DOMAIN out.body.doc : out.body.doc[i].agentId # Absent
            /\ says(5, {"pass"}) =>
                   \E i \in DOMAIN out.body.doc :
                       /\ out.body.doc[i].agentId = Actual.agent
                       /\ out.body.doc[i].chain = Actual.chain
                       /\ out.body.doc[i].address = Actual.registry
            /\ says(5, {"fail"}) =>
                   \A i \in DOMAIN out.body.doc : Cardinality(Agreements(out.body.doc[i], Actual)) < 4

\* The two programs give an agent the same rows for the same observation,
\* but for the rung one of them did not ask about (spot_check.rs says that a
\* spot check answers "what would the census say").
SpotAgreesWithCensus ==
    pc = "judged" /\ cause # "none" =>
        LET census == CensusRows(out, clients)
            spot == SpotRows(out, clients)
        IN  /\ \A r \in 1 .. 5 : census[r] = spot[r]
            /\ \A r \in DOMAIN results : r \in DOMAIN census => results[r] = census[r]

\* Whatever the network answers, the check comes to an end.
CheckEnds == <>(pc \in {"judged", "left_out"})

=============================================================================
