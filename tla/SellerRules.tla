----------------------------- MODULE SellerRules -----------------------------
(***************************************************************************)
(* The rules of the Seller Census, as operators: who a seller is, what a   *)
(* catalog's answer is worth, what one probe of a resource sees and what   *)
(* rungs 2, 3 and 7 make of it, what a payee's transfers say (rung 6), and *)
(* what moved between two sweeps.                                          *)
(*                                                                         *)
(* An address is a record [who, shape, mixed]: whose it is, "hex" (0x and  *)
(* 40 digits), "zero", "base58" or "odd", and whether it is written in     *)
(* mixed case.  An option is a set of at most one element.                 *)
(***************************************************************************)
EXTENDS Integers, FiniteSets, FiniteSetsExt, Sequences, SequencesExt

-----------------------------------------------------------------------------
(* network.rs and identity.rs                                              *)

Base == "eip155:8453"

\* The friendly names are folded into the CAIP-2 ones; any other stays.
canonical(name) ==
    CASE name \in {"base", "base-mainnet"} -> Base
      [] name \in {"solana", "solana-mainnet"} -> "solana:5eykt"
      [] OTHER -> name

same(a, b) == canonical(a) = canonical(b)

\* A name without a namespace it knows has no known encoding.
encoding(name) ==
    CASE canonical(name) \in {Base, "eip155:137"} -> "evm"
      [] canonical(name) = "solana:5eykt" -> "solana"
      [] OTHER -> "opaque"

\* The encoding of an address read back from the database, by its shape.
encoding_of(a) == IF a.shape \in {"hex", "zero"} THEN "evm" ELSE "opaque"

normalize_pay_to(a, enc) ==
    CASE enc = "evm" -> IF a.shape = "hex" THEN {[a EXCEPT !.mixed = FALSE]} ELSE {}
      [] enc = "solana" -> IF a.shape = "odd" THEN {} ELSE {a}
      [] enc = "opaque" -> {a}

\* A resource is [host, path]; the host is "" when the URL names none.
SellerId(l) ==
    {[pay_to |-> a, host |-> l.resource.host] :
        a \in {b \in normalize_pay_to(l.pay_to, encoding(l.network)) : l.resource.host # ""}}

-----------------------------------------------------------------------------
(* catalog.rs: the union, and the listings that name no seller.            *)

assemble(listings) ==
    LET named == UNION {SellerId(l) : l \in ToSet(listings)} IN
    [sellers |-> [s \in named |->
                     {l.resource : l \in {k \in ToSet(listings) : s \in SellerId(k)}}],
     rejected |-> SelectSeq(listings, LAMBDA l : SellerId(l) = {})]

\* What the catalog said of a resource and a payee: its first listing.
ClaimFor(listings, s, resource) ==
    LET about == SelectSeq(listings, LAMBDA l : s \in SellerId(l) /\ l.resource = resource) IN
    IF about = <<>> THEN {} ELSE {about[1]}

\* resources.first() of a sorted set.
FirstResource(resources) ==
    CHOOSE r \in resources : \A q \in resources : r.path <= q.path

-----------------------------------------------------------------------------
(* fetcher.rs.  What comes over the wire is [code, allows_post, body,     *)
(* accepts]: code 0 is no answer at all, body is "none", "not_json",       *)
(* "no_accepts" or "accepts", and accepts the requirements of the last.    *)

CatalogDeclines == {401, 402, 403, 407, 429, 503}

\* CatalogFetcher::get
CatalogOutcome(robots, code) ==
    IF robots # "allowed" \/ code \in CatalogDeclines THEN "refused"
    ELSE IF code \in 200 .. 299 THEN "fetched" ELSE "error"

NotPermitted == [kind |-> "not_permitted", code |-> 0, body |-> "none", accepts |-> <<>>]
ProbeFailed == [kind |-> "probe_failed", code |-> 0, body |-> "none", accepts |-> <<>>]

\* Only the body of a 402 is read.
Response(wire) ==
    IF wire.code = 0 THEN ProbeFailed
    ELSE [kind |-> "response", code |-> wire.code,
          body |-> IF wire.code = 402 THEN wire.body ELSE "none",
          accepts |-> IF wire.code = 402 THEN wire.accepts ELSE <<>>]

\* SellerProber::probe: a GET, and one POST where a 405 allows it.
Escalates(server) == server.get.code = 405 /\ server.get.allows_post
probe(server) ==
    IF server.robots # "allowed" THEN NotPermitted
    ELSE IF Escalates(server) THEN Response(server.post) ELSE Response(server.get)

-----------------------------------------------------------------------------
(* quote.rs, reachable.rs, consistent.rs                                   *)

\* parse_requirement: a requirement that lacks a field, or whose addresses
\* the encoding refuses, is none.
parse_requirement(r, enc) ==
    {[r EXCEPT !.pay_to = p, !.asset = a] :
        p \in {q \in normalize_pay_to(r.pay_to, enc) : r.whole},
        a \in normalize_pay_to(r.asset, enc)}

\* The requirements of a body that are this seller's, and why there are none.
Mine(s, accepts, enc) ==
    LET Own(r) == \E q \in parse_requirement(r, enc) : q.pay_to = s.pay_to
        Parsed(r) == CHOOSE q \in parse_requirement(r, enc) : TRUE
        own == SelectSeq(accepts, Own)
    IN  [i \in DOMAIN own |-> Parsed(own[i])]

Malformed(s, seen, enc) ==
    IF seen.body = "none" THEN "no_body"
    ELSE IF seen.body # "accepts" THEN seen.body
    ELSE IF seen.accepts = <<>> THEN "no_requirements"
    ELSE IF \E r \in ToSet(seen.accepts) : parse_requirement(r, enc) = {}
         THEN "incomplete_requirement"
    ELSE "not_this_sellers_pay_to"

Answer(status, reason) == [status |-> status, reason |-> reason]

declined_us(code) == code \in {401, 407, 429, 503}

reachable(seen) ==
    CASE seen.kind = "not_permitted" -> Answer("refused", "robots")
      [] seen.kind = "probe_failed" -> Answer("error", "probe_failed")
      [] declined_us(seen.code) -> Answer("refused", "declined")
      [] OTHER -> Answer("pass", "")

requirements(s, seen, enc) ==
    IF reachable(seen).status = "pass" /\ seen.body = "accepts"
    THEN Mine(s, seen.accepts, enc) ELSE <<>>

\* Mutant: whatever is not a 402 does not quote.
quotes_unguarded(s, seen, enc) ==
    IF seen.code # 402 THEN Answer("fail", "http")
    ELSE IF requirements(s, seen, enc) # <<>> THEN Answer("pass", "")
    ELSE Answer("fail", Malformed(s, seen, enc))

quotes(s, seen, enc) ==
    IF reachable(seen).status # "pass" THEN Answer("skipped", "rung_2_not_pass")
    ELSE IF seen.code # 402 THEN Answer("fail", "http")
    ELSE IF requirements(s, seen, enc) # <<>> THEN Answer("pass", "")
    ELSE Answer("fail", Malformed(s, seen, enc))

\* The asset a listing claims is read as an EVM address whatever its network.
claimed_asset(l) == normalize_pay_to(l.asset, "evm")

\* consistent::judge: any requirement that agrees in all three is enough;
\* otherwise the nearest one says what differs.
consistent(claim, quoted) ==
    LET Agrees(r) == /\ r.amount = claim.amount
                     /\ {r.asset} = claimed_asset(claim)
                     /\ same(r.network, claim.network)
    IN  IF quoted = <<>> THEN Answer("skipped", "rung_3_not_pass")
        ELSE IF claim.amount = 0 \/ claimed_asset(claim) = {} THEN Answer("unprobed", "nothing_claimed")
        ELSE IF \E r \in ToSet(quoted) : Agrees(r) THEN Answer("pass", "")
        ELSE Answer("fail", "diverges")

-----------------------------------------------------------------------------
(* settled.rs: one tally per payee, fed window by window.                  *)

NoTally == [settlements |-> 0, payers |-> {}, first |-> 0, last |-> 0, ours |-> 0, self |-> 0]

Counted(payee, ours, found) == {t \in found : t.from # ours /\ t.from # payee}

absorb(tally, payee, ours, found) ==
    LET kept == Counted(payee, ours, found)
        blocks == {t.block : t \in kept}
        old == IF tally.settlements = 0 THEN {} ELSE {tally.first, tally.last}
    IN  [settlements |-> tally.settlements + Cardinality(kept),
         payers |-> tally.payers \cup {t.from : t \in kept},
         first |-> IF old \cup blocks = {} THEN 0 ELSE Min(old \cup blocks),
         last |-> IF old \cup blocks = {} THEN 0 ELSE Max(old \cup blocks),
         ours |-> tally.ours + Cardinality({t \in found : t.from = ours}),
         self |-> tally.self + Cardinality({t \in found : t.from = payee /\ t.from # ours})]

finish(tally) ==
    IF tally.settlements = 0 THEN Answer("fail", "no_settlement_in_window")
    ELSE Answer("pass", "")

-----------------------------------------------------------------------------
(* delta.rs.  The rows of a sweep are a function from <<seller, rung>>.    *)

NOT_CHURN == <<"refused", "error", "unprobed">>

SellersOf(rows) == {k[1] : k \in DOMAIN rows}

\* The transitions of a rung: who was asked in both sweeps and moved.
Moved(before, after, rung) ==
    {s \in SellersOf(after) : /\ <<s, rung>> \in DOMAIN before \cap DOMAIN after
                              /\ before[<<s, rung>>].status # after[<<s, rung>>].status}

\* The kind a transition is excluded under: the first of NOT_CHURN that
\* either side is; 0 when it is churn.
Excluded(from, to) ==
    LET hits == {i \in DOMAIN NOT_CHURN : NOT_CHURN[i] \in {from, to}} IN
    IF hits = {} THEN 0 ELSE Min(hits)

compute(before, after) ==
    LET moved == Moved(before, after, 2)
        From(s) == before[<<s, 2>>].status
        To(s) == after[<<s, 2>>].status
        Under(i) == Cardinality({s \in moved : Excluded(From(s), To(s)) = i})
    IN  [appeared |-> Cardinality(SellersOf(after) \ SellersOf(before)),
         disappeared |-> Cardinality(SellersOf(before) \ SellersOf(after)),
         came_back |-> Cardinality({s \in moved : To(s) = "pass" /\ Excluded(From(s), To(s)) = 0}),
         went_dark |-> Cardinality({s \in moved : From(s) = "pass" /\ Excluded(From(s), To(s)) = 0}),
         excluded |-> <<Under(1), Under(2), Under(3)>>]
=============================================================================
