----------------------------- MODULE SellerWeek -----------------------------
(***************************************************************************)
(* The weekly sweep of the Seller Census: seller-sweep.sh runs             *)
(* seller-crawl, seller-probe, seller-settle, seller-delta and             *)
(* seller-heartbeat, each a process of its own that finds the week's run   *)
(* in the database, and stops at the first that fails.                     *)
(*                                                                         *)
(* A process may be killed between two of its statements (Crash), and a    *)
(* sweep whose crawl had finished may be taken up again by hand from its   *)
(* probe stage (Resume).  The catalog of a week does not move while it is  *)
(* paged through; it is served a page at a time and may decline, fail or   *)
(* answer nonsense at any page.                                            *)
(***************************************************************************)
EXTENDS SellerRules

CONSTANTS
    LastWeek,       \* how many weeks
    Catalogs,       \* what the catalog may list: sequences of listings
    Page,           \* BAZAAR_PAGE, 100
    MaxPages,       \* MAX_PAGES, 500
    Servers(_),     \* what the server behind a resource may do when probed
    PerHostBudget,  \* PER_HOST_BUDGET, 500
    HostConcurrency,\* HOST_CONCURRENCY, 8
    Transfers,      \* the token's transfers: [id, from, to, block]
    Heads,          \* where the chain's head may be when a scan begins
    Lookback,       \* DEFAULT_LOOKBACK_BLOCKS, 3,900,000
    WindowBlocks,   \* WINDOW_BLOCKS, 10,000
    Shopper,        \* SHOPPER_WALLET
    Before(_, _),   \* the order of payees (population_for_run: ORDER BY host, pay_to)
    MaxCrashes      \* bound on kills and failing statements

\* What may be listed, and who may be paid for it.
Listings == UNION {ToSet(c) : c \in Catalogs}
Addresses == {s.pay_to : s \in UNION {SellerId(l) : l \in Listings}}

ASSUME SellerWeekAssumption ==
    /\ \A c \in Catalogs : c \in Seq(ToSet(c))
    /\ LastWeek \in Nat \ {0} /\ Page \in Nat \ {0} /\ MaxPages \in Nat \ {0}
    /\ PerHostBudget \in Nat /\ HostConcurrency \in Nat \ {0}
    /\ Lookback \in Nat \ {0} /\ WindowBlocks \in Nat \ {0} /\ MaxCrashes \in Nat
    /\ Heads \in SUBSET Nat /\ IsFiniteSet(Transfers) /\ \A t \in Transfers : t.block \in Nat
    /\ \A a, b, c \in Addresses :
          /\ ~ Before(a, a)
          /\ a = b \/ Before(a, b) \/ Before(b, a)
          /\ Before(a, b) /\ Before(b, c) => Before(a, c)

VARIABLES
    week,           \* the newest run (latest_run)
    catalog,        \* external: what the catalog listed each week
    run,            \* seller_runs: [status, attempted] of each week
    population,     \* seller_population and seller_rejected_listings of each week
    rows,           \* seller_check_results of each week, by <<seller, rung>>
    deltas,         \* seller_run_deltas, by week
    pinged,         \* the weeks that pinged the monitor
    stage,          \* the binary the script is in
    crawl,          \* seller-crawl's locals
    lane,           \* seller-probe's lanes, by host
    scan,           \* seller-settle's locals
    crashes

tables == <<run, population, rows, deltas>>
vars == <<week, catalog, tables, pinged, stage, crawl, lane, scan, crashes>>

-----------------------------------------------------------------------------
NoCrawl == [offset |-> 0, pages |-> 0, listings |-> <<>>, complete |-> TRUE, total |-> -1]
NoScan == [from |-> 0, to |-> 0, next |-> 0, tallies |-> <<>>, left |-> {}]
NoPopulation == [sellers |-> <<>>, rejected |-> <<>>, claims |-> <<>>]

Sellers(w) == DOMAIN population[w].sellers
Hosts(w) == {s.host : s \in Sellers(w)}

\* A host's sellers in the order they are visited: the i-th has i - 1 before it.
Queue(w, h) ==
    LET here == {s \in Sellers(w) : s.host = h}
        Ahead(s) == {r \in here : Before(r.pay_to, s.pay_to)}
    IN  [i \in 1 .. Cardinality(here) |-> CHOOSE s \in here : Cardinality(Ahead(s)) = i - 1]

\* INSERT .. ON CONFLICT DO UPDATE.
Upserted(table, keys, row) ==
    [k \in DOMAIN table \cup keys |-> IF k \in keys THEN row ELSE table[k]]

Put(s, rung, answer) == rows' = [rows EXCEPT ![week] = Upserted(@, {<<s, rung>>}, answer)]

Init ==
    /\ week = 0
    /\ catalog = <<>>
    /\ run = <<>>
    /\ population = <<>>
    /\ rows = <<>>
    /\ deltas = <<>>
    /\ pinged = {}
    /\ stage = "idle"
    /\ crawl = NoCrawl
    /\ lane = <<>>
    /\ scan = NoScan
    /\ crashes = 0

-----------------------------------------------------------------------------
(* seller-crawl                                                            *)

\* open_run, clear_run, record_rungs_attempted.
StartWeek ==
    /\ stage = "idle" /\ week < LastWeek
    /\ week' = week + 1
    /\ \E c \in Catalogs : catalog' = Append(catalog, c)
    /\ run' = Append(run, [status |-> "running", attempted |-> {1}])
    /\ population' = Append(population, NoPopulation)
    /\ rows' = Append(rows, <<>>)
    /\ stage' = "crawl"
    /\ crawl' = NoCrawl
    /\ UNCHANGED <<deltas, pinged, lane, scan, crashes>>

Items(offset) ==
    LET all == catalog[week] IN
    SubSeq(all, offset + 1, IF offset + Page < Len(all) THEN offset + Page ELSE Len(all))

\* A page that was read: its listings, and the total if the catalog names one.
PageRead(total) ==
    LET page == Items(crawl.offset)
        known == IF total = -1 THEN crawl.total ELSE total
        everything == known # -1 /\ crawl.offset + Page >= known
    IN  /\ crawl' = [crawl EXCEPT !.offset = @ + Page, !.pages = @ + 1,
                                  !.listings = @ \o page, !.total = known]
        /\ stage' = IF everything \/ page = <<>> THEN "write" ELSE "crawl"

\* Mutant: a page that was lost is taken for the end of the list.
PageLost_is_the_end ==
    /\ crawl' = [crawl EXCEPT !.offset = @ + Page, !.pages = @ + 1]
    /\ stage' = "write"

\* A page that was declined, lost or not understood ends the crawl.
PageLost ==
    /\ crawl' = [crawl EXCEPT !.offset = @ + Page, !.pages = @ + 1, !.complete = FALSE]
    /\ stage' = "write"

PageCap ==
    /\ crawl' = [crawl EXCEPT !.complete = FALSE]
    /\ stage' = "write"

FetchPage ==
    /\ stage = "crawl"
    /\ IF crawl.pages >= MaxPages THEN PageCap
       ELSE \E robots \in {"allowed", "unavailable"}, code \in {0, 200, 429}, readable \in BOOLEAN :
                IF CatalogOutcome(robots, code) = "fetched" /\ readable
                THEN \E total \in {-1, Len(catalog[week])} : PageRead(total)
                ELSE PageLost
    /\ UNCHANGED <<week, catalog, tables, pinged, lane, scan, crashes>>

\* write_population: one transaction.
WritePopulation ==
    /\ stage = "write"
    /\ LET found == assemble(crawl.listings) IN
       /\ population' = [population EXCEPT ![week] =
              [sellers |-> found.sellers, rejected |-> found.rejected, claims |-> crawl.listings]]
       /\ rows' = [rows EXCEPT ![week] =
              Upserted(@, (DOMAIN found.sellers) \X {1}, Answer("pass", ""))]
    /\ stage' = "close"
    /\ UNCHANGED <<week, catalog, run, deltas, pinged, crawl, lane, scan, crashes>>

\* close_run; a crawl that is not complete exits non-zero and stops the script.
CloseRun ==
    /\ stage = "close"
    /\ run' = [run EXCEPT ![week].status = IF crawl.complete THEN "finished" ELSE "failed"]
    /\ stage' = IF crawl.complete THEN "probe" ELSE "idle"
    /\ crawl' = NoCrawl
    /\ UNCHANGED <<week, catalog, population, rows, deltas, pinged, lane, scan, crashes>>

-----------------------------------------------------------------------------
(* seller-probe: hosts in parallel, a host's sellers one after another.    *)

NotBegun == [at |-> "queued", index |-> 0, seen |-> <<>>]

\* The rungs are recorded before anything is asked; an empty population is
\* an error.
StartProbe ==
    /\ stage = "probe"
    /\ IF Sellers(week) = {}
       THEN stage' = "idle" /\ UNCHANGED <<run, lane>>
       ELSE /\ run' = [run EXCEPT ![week].attempted = @ \cup {2, 3, 7}]
            /\ lane' = [h \in Hosts(week) |-> NotBegun]
            /\ stage' = "probing"
    /\ UNCHANGED <<week, catalog, population, rows, deltas, pinged, crawl, scan, crashes>>

Current(h) == Queue(week, h)[lane[h].index]
Resource(s) == FirstResource(population[week].sellers[s])

\* Go on to the next seller of the host, if there is one.
Onward(h) ==
    lane' = [lane EXCEPT ![h] =
                IF lane[h].index < Len(Queue(week, h))
                THEN [at |-> "next", index |-> @.index + 1, seen |-> <<>>]
                ELSE [at |-> "done", index |-> 0, seen |-> <<>>]]

Admit(h) ==
    /\ lane[h].at = "queued"
    /\ Cardinality({g \in DOMAIN lane : lane[g].at \notin {"queued", "done", "failed"}})
           < HostConcurrency
    /\ lane' = [lane EXCEPT ![h] = [at |-> "next", index |-> 1, seen |-> <<>>]]
    /\ UNCHANGED rows

\* Past the budget nothing is asked, and both rows say so.
OverBudget(h) ==
    /\ lane[h].at \in {"next", "budget"} /\ lane[h].index > PerHostBudget
    /\ IF lane[h].at = "next"
       THEN /\ Put(Current(h), 2, Answer("unprobed", "host_budget"))
            /\ lane' = [lane EXCEPT ![h].at = "budget"]
       ELSE Put(Current(h), 3, Answer("unprobed", "host_budget")) /\ Onward(h)

Probe(h) ==
    /\ lane[h].at = "next" /\ lane[h].index <= PerHostBudget
    /\ \E server \in Servers(Resource(Current(h))) :
           lane' = [lane EXCEPT ![h].at = "reachable", ![h].seen = <<probe(server)>>]
    /\ UNCHANGED rows

WriteReachable(h) ==
    /\ lane[h].at = "reachable"
    /\ Put(Current(h), 2, reachable(lane[h].seen[1]))
    /\ lane' = [lane EXCEPT ![h].at = "quotes"]

WriteQuotes(h) ==
    /\ lane[h].at = "quotes"
    /\ LET s == Current(h) IN
       Put(s, 3, quotes(s, lane[h].seen[1], encoding_of(s.pay_to)))
    /\ lane' = [lane EXCEPT ![h].at = "consistent"]

\* claims_for: what the crawl stored with rung 1.  No claim, no row.
WriteConsistent(h) ==
    /\ lane[h].at = "consistent"
    /\ LET s == Current(h)
           claim == ClaimFor(population[week].claims, s, Resource(s))
       IN  IF claim = {} THEN UNCHANGED rows
           ELSE \E c \in claim :
               Put(s, 7, consistent(c, requirements(s, lane[h].seen[1], encoding_of(s.pay_to))))
    /\ Onward(h)

\* A statement of a lane fails: the lane ends, the others go on.
LaneFails(h) ==
    /\ lane[h].at \in {"budget", "reachable", "quotes", "consistent"}
    /\ crashes < MaxCrashes
    /\ lane' = [lane EXCEPT ![h] = [at |-> "failed", index |-> 0, seen |-> <<>>]]
    /\ UNCHANGED rows

LaneSteps(h) ==
    Admit(h) \/ OverBudget(h) \/ Probe(h) \/ WriteReachable(h) \/ WriteQuotes(h) \/ WriteConsistent(h)

LaneStep(h) ==
    /\ stage = "probing"
    /\ \/ LaneSteps(h) /\ UNCHANGED crashes
       \/ LaneFails(h) /\ crashes' = crashes + 1
    /\ UNCHANGED <<week, catalog, run, population, deltas, pinged, stage, crawl, scan>>

\* Mutant: the errors of the lanes are dropped with their results.
Fails_unseen(lanes) == FALSE

Fails(lanes) == \E h \in DOMAIN lanes : lanes[h].at = "failed"

\* The lanes are collected; one failure fails the binary.  Without an RPC
\* endpoint the script goes on without rung 6.
EndProbe ==
    /\ stage = "probing"
    /\ \A h \in DOMAIN lane : lane[h].at \in {"done", "failed"}
    /\ stage' \in (IF Fails(lane) THEN {"idle"} ELSE {"settle", "delta"})
    /\ lane' = <<>>
    /\ UNCHANGED <<week, catalog, tables, pinged, crawl, scan, crashes>>

-----------------------------------------------------------------------------
(* seller-settle                                                           *)

Payees(w) == {s.pay_to : s \in {r \in Sellers(w) : encoding_of(r.pay_to) = "evm"}}

\* The head is read once.
StartSettle ==
    /\ stage = "settle"
    /\ \E head \in Heads :
           LET from == IF head > Lookback THEN head - Lookback ELSE 0 IN
           scan' = [from |-> from, to |-> head, next |-> from,
                    tallies |-> [p \in Payees(week) |-> NoTally], left |-> Sellers(week)]
    /\ stage' = "scanning"
    /\ UNCHANGED <<week, catalog, tables, pinged, crawl, lane, crashes>>

WindowEnd(start, to) ==
    IF start + WindowBlocks - 1 < to THEN start + WindowBlocks - 1 ELSE to

\* transfers_batched over one window, absorbed and dropped.
ScanWindow ==
    /\ stage = "scanning" /\ scan.next <= scan.to
    /\ LET end == WindowEnd(scan.next, scan.to)
           found == {t \in Transfers : t.block \in scan.next .. end}
       IN  scan' = [scan EXCEPT
               !.next = end + 1,
               !.tallies = [p \in DOMAIN @ |->
                   absorb(@[p], p.who, Shopper, {t \in found : t.to = p.who})]]
    /\ UNCHANGED <<week, catalog, tables, pinged, stage, crawl, lane, crashes>>

Settled(s) ==
    IF encoding_of(s.pay_to) # "evm" THEN Answer("unprobed", "out_of_scope_network")
    ELSE finish(scan.tallies[s.pay_to])

WriteSettled ==
    /\ stage = "scanning" /\ scan.next > scan.to /\ scan.left # {}
    /\ LET s == CHOOSE x \in scan.left : TRUE IN
           /\ Put(s, 6, Settled(s))
           /\ scan' = [scan EXCEPT !.left = @ \ {s}]
    /\ UNCHANGED <<week, catalog, run, population, deltas, pinged, stage, crawl, lane, crashes>>

\* Rung 6 is recorded as attempted after its rows.
EndSettle ==
    /\ stage = "scanning" /\ scan.next > scan.to /\ scan.left = {}
    /\ run' = [run EXCEPT ![week].attempted = @ \cup {6}]
    /\ stage' = "delta"
    /\ scan' = NoScan
    /\ UNCHANGED <<week, catalog, population, rows, deltas, pinged, crawl, lane, crashes>>

-----------------------------------------------------------------------------
(* seller-delta and seller-heartbeat                                       *)

\* Mutant: any earlier run will do.
Previous_whatever(w) == 1 .. w - 1

\* previous_run: the latest finished one before this.
Previous(w) == {v \in 1 .. w - 1 : run[v].status = "finished"}

WriteDelta ==
    /\ stage = "delta"
    /\ IF Previous(week) = {} THEN UNCHANGED deltas
       ELSE LET v == Max(Previous(week)) IN
            deltas' = Upserted(deltas, {week},
                          [previous |-> v, counts |-> compute(rows[v], rows[week]),
                           method_changed |-> run[v].attempted # run[week].attempted])
    /\ stage' = "heartbeat"
    /\ UNCHANGED <<week, catalog, run, population, rows, pinged, crawl, lane, scan, crashes>>

\* The newest finished run must be recent enough; a resumed sweep may be old.
Heartbeat ==
    /\ stage = "heartbeat"
    /\ \E recent \in BOOLEAN :
           pinged' = IF recent /\ \E v \in 1 .. week : run[v].status = "finished"
                                                       /\ run[v].attempted # {}
                     THEN pinged \cup {week} ELSE pinged
    /\ stage' = "idle"
    /\ UNCHANGED <<week, catalog, tables, crawl, lane, scan, crashes>>

-----------------------------------------------------------------------------
Halt == stage' = "idle" /\ crawl' = NoCrawl /\ lane' = <<>> /\ scan' = NoScan

Crash ==
    /\ stage # "idle" /\ crashes < MaxCrashes
    /\ crashes' = crashes + 1
    /\ Halt
    /\ UNCHANGED <<week, catalog, tables, pinged>>

\* Somebody runs the rest of a sweep that stopped after its crawl.
Resume ==
    /\ stage = "idle" /\ week > 0 /\ run[week].status = "finished" /\ week \notin pinged
    /\ crashes > 0
    /\ stage' = "probe"
    /\ UNCHANGED <<week, catalog, tables, pinged, crawl, lane, scan, crashes>>

Next ==
    \/ StartWeek \/ FetchPage \/ WritePopulation \/ CloseRun
    \/ StartProbe \/ (\E h \in DOMAIN lane : LaneStep(h)) \/ EndProbe
    \/ StartSettle \/ ScanWindow \/ WriteSettled \/ EndSettle
    \/ WriteDelta \/ Heartbeat
    \/ Crash \/ Resume

Spec == Init /\ [][Next]_vars

-----------------------------------------------------------------------------
Listed(w) == assemble(catalog[w])
Stored(w) == [sellers |-> population[w].sellers, rejected |-> population[w].rejected]

\* A run is finished only when the whole catalog was read: its sellers are all
\* stored, each with all its resources, and every listing that names no seller
\* is kept among the rejected (seller-crawl.rs: the page loop, close_run).
FinishedIsWhole == \A w \in 1 .. week : run[w].status = "finished" => Stored(w) = Listed(w)

Probed(w) == w \in pinged \/ (w = week /\ stage \in {"settle", "scanning", "delta", "heartbeat"})

\* Once a probe pass is over, the three rows of a seller, written one by one and
\* possibly over those of a pass that was killed, say the same of it: no quote
\* is held against a server that did not answer, no comparison is made with a
\* quote there was not, and a seller past the budget was asked nothing.
RowsAgree ==
    \A w \in 1 .. week : Probed(w) =>
        \A s \in Sellers(w) :
            LET status(rung) == rows[w][<<s, rung>>].status IN
            /\ {<<s, 2>>, <<s, 3>>} \subseteq DOMAIN rows[w]
            /\ status(2) = "unprobed" <=> status(3) = "unprobed"
            /\ status(2) \in {"refused", "error"} <=> status(3) = "skipped"
            /\ <<s, 7>> \in DOMAIN rows[w] =>
                   /\ status(2) # "unprobed"
                   /\ status(7) = "skipped" <=> status(3) # "pass"

\* What the scan has made of a payee when it is over is what the blocks from
\* the window's start to the pinned head say of it, each transfer once
\* (seller-settle.rs: the windows; settled.rs: Tally).
SettledIsExact ==
    (stage = "scanning" /\ scan.next > scan.to) =>
        \A p \in DOMAIN scan.tallies :
            LET seen == {t \in Transfers : t.to = p.who /\ t.block \in scan.from .. scan.to}
                theirs == {t \in seen : t.from \notin {Shopper, p.who}}
                tally == scan.tallies[p]
            IN  /\ tally.settlements = Cardinality(theirs)
                /\ tally.ours + tally.self + tally.settlements = Cardinality(seen)
                /\ tally.payers = {t.from : t \in theirs}
                /\ theirs # {} => \A t \in theirs : t.block \in tally.first .. tally.last

\* A sweep is compared with a finished one, so that what it reports as
\* appeared and disappeared is what the two catalogs differ in and never what
\* a crawl of ours failed to read; and every seller whose rung 2 moved is
\* counted once, as churn or under one exclusion.
DeltaIsTheWorlds ==
    \A w \in DOMAIN deltas :
        LET d == deltas[w]  counts == d.counts
            sellers(v) == DOMAIN Listed(v).sellers
        IN  /\ counts.appeared = Cardinality(sellers(w) \ sellers(d.previous))
            /\ counts.disappeared = Cardinality(sellers(d.previous) \ sellers(w))
            /\ (w \in pinged \/ (w = week /\ stage = "heartbeat")) =>
                   counts.came_back + counts.went_dark
                       + counts.excluded[1] + counts.excluded[2] + counts.excluded[3]
                       = Cardinality(Moved(rows[d.previous], rows[w], 2))

\* The monitor is pinged only for a sweep that stored what it set out to:
\* every seller was asked, or its row says it was not.
PingIsEarned ==
    \A w \in pinged :
        /\ run[w].status = "finished" /\ {2, 3, 7} \subseteq run[w].attempted
        /\ \A s \in Sellers(w), rung \in {2, 3} : <<s, rung>> \in DOMAIN rows[w]

\* What is written down of a seller is coherent, and its settlements are exact.
RowsAreRight == RowsAgree /\ SettledIsExact
=============================================================================
