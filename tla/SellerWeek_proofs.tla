-------------------------- MODULE SellerWeek_proofs -------------------------
(***************************************************************************)
(* The weekly sweep of the Seller Census, for any weeks, catalogs, page    *)
(* sizes and caps, servers, budgets and transfers, any number of lanes,    *)
(* and any number of kills, failing statements and resumed sweeps: a       *)
(* finished run is the whole of its catalog (WholeInv); the scan counts    *)
(* each transfer once (ScanInv); the rows of a seller say the same of it   *)
(* once a probe pass is over, and only such a sweep is pinged for          *)
(* (RowsInv); and a delta is what two catalogs differ in (DeltaInv).       *)
(***************************************************************************)
EXTENDS SellerWeek, SequenceTheorems, FiniteSetTheorems, WellFoundedInduction, TLAPS

-----------------------------------------------------------------------------
(* Sequences and records, whatever their elements.                         *)

IsSeq(s, n) == (\E S : s \in Seq(S)) /\ Len(s) = n

Has(x, fields) == x = [f \in fields |-> x[f]]

Longer(s, e) == Append(s, e)

Changed(s, w, e) == [s EXCEPT ![w] = e]

\* One more at the end.
LEMMA Appended ==
    ASSUME NEW n \in Nat, NEW s, IsSeq(s, n), NEW e
    PROVE  /\ IsSeq(Longer(s, e), n + 1)
           /\ \A i \in 1 .. n : Longer(s, e)[i] = s[i]
           /\ Longer(s, e)[n + 1] = e
  <1>1. PICK S : s \in Seq(S)
    BY DEF IsSeq
  <1>2. s \in Seq(S \cup {e})
    BY <1>1, SeqMonotonic
  <1>3. Append(s, e) \in Seq(S \cup {e}) /\ Len(Append(s, e)) = n + 1
    BY <1>2 DEF IsSeq
  <1>4. QED
    BY <1>2, <1>3 DEF IsSeq, Longer

\* One changed.
LEMMA Replaced ==
    ASSUME NEW n \in Nat, NEW s, IsSeq(s, n), NEW w \in 1 .. n, NEW e
    PROVE  /\ IsSeq(Changed(s, w, e), n)
           /\ Changed(s, w, e)[w] = e
           /\ \A i \in 1 .. n : i # w => Changed(s, w, e)[i] = s[i]
  <1>1. PICK S : s \in Seq(S)
    BY DEF IsSeq
  <1>2. s \in Seq(S \cup {e}) /\ w \in 1 .. Len(s)
    BY <1>1, SeqMonotonic DEF IsSeq
  <1>3. /\ [s EXCEPT ![w] = e] \in Seq(S \cup {e})
        /\ Len([s EXCEPT ![w] = e]) = Len(s)
        /\ \A j \in 1 .. Len(s) : [s EXCEPT ![w] = e][j] = IF j = w THEN e ELSE s[j]
    BY <1>2, ExceptSeq
  <1>4. QED
    BY <1>2, <1>3 DEF IsSeq, Changed

\* The first n of a sequence, or all of it.
Upto(all, n) == SubSeq(all, 1, IF n < Len(all) THEN n ELSE Len(all))

\* A page appended to the pages before it is a longer start of the catalog.
LEMMA PagesJoin ==
    ASSUME NEW S, NEW all \in Seq(S), NEW offset \in Nat, NEW page \in Nat \ {0}
    PROVE  LET next == SubSeq(all, offset + 1,
                              IF offset + page < Len(all) THEN offset + page ELSE Len(all))
           IN  /\ Upto(all, offset) \o next = Upto(all, offset + page)
               /\ next = <<>> => offset >= Len(all)
               /\ offset >= Len(all) => Upto(all, offset) = all
  <1> DEFINE upto(n) == Upto(all, n)
             last == IF offset + page < Len(all) THEN offset + page ELSE Len(all)
             next == SubSeq(all, offset + 1, last)
  <1> USE DEF Upto
  <1> SUFFICES /\ upto(offset) \o next = upto(offset + page)
               /\ next = <<>> => offset >= Len(all)
               /\ offset >= Len(all) => upto(offset) = all
    OBVIOUS
  <1>1. Len(all) \in Nat /\ SubSeq(all, 1, Len(all)) = all
    BY LenProperties, SubSeqFull
  <1>2. offset >= Len(all) => upto(offset) = all
    <2>1. offset >= Len(all) => ~(offset < Len(all))
      BY <1>1
    <2>2. QED
      BY <1>1, <2>1
  <1>3. CASE offset < Len(all)
    <2>1. /\ last \in Nat /\ offset <= last /\ last <= Len(all) /\ offset + 1 <= last
          /\ 1 \in 1 .. Len(all) + 1 /\ offset \in 0 .. Len(all) /\ last \in offset .. Len(all)
      BY <1>1, <1>3
    <2>2. SubSeq(all, 1, offset) \o SubSeq(all, offset + 1, last) = SubSeq(all, 1, last)
      <3> HIDE DEF last
      <3>1. 1 - 1 = 0
        OBVIOUS
      <3>2. QED
        BY <2>1, <3>1, ConcatAdjacentSubSeq
    <2>3. upto(offset) = SubSeq(all, 1, offset) /\ upto(offset + page) = SubSeq(all, 1, last)
      BY <1>3
    <2>4. Len(next) = last - (offset + 1) + 1 /\ Len(next) # 0
      <3> HIDE DEF last
      <3>1. \A i \in offset + 1 .. last : all[i] \in S
        BY <2>1, ElementOfSeq
      <3>2. offset + 1 \in Int /\ last \in Int
        BY <2>1
      <3>3. Len(next) = last - (offset + 1) + 1
        BY <2>1, <3>1, <3>2, SubSeqProperties
      <3>4. QED
        BY <2>1, <3>3
    <2>5. next # <<>>
      <3> HIDE DEF next
      <3>1. QED
        BY <2>4, EmptySeq
    <2>6. QED
      BY <1>2, <2>2, <2>3, <2>5
  <1>4. CASE offset >= Len(all)
    <2>1. last = Len(all) /\ upto(offset + page) = all
      <3>1. ~(offset + page < Len(all))
        BY <1>1, <1>4
      <3>2. QED
        BY <1>1, <3>1
    <2>2. next = <<>>
      <3>1. offset + 1 \in Int /\ Len(all) \in Int /\ Len(all) < offset + 1
        BY <1>1, <1>4
      <3>2. SubSeq(all, offset + 1, Len(all)) = <<>>
        BY <3>1, SubSeqEmpty
      <3>3. QED
        BY <2>1, <3>2
    <2>3. upto(offset) \o next = all
      <3> HIDE DEF next, upto
      <3>1. QED
        BY <1>2, <1>4, <2>2, ConcatEmptySeq
    <2>4. QED
      BY <1>2, <1>4, <2>1, <2>3
  <1>5. offset < Len(all) \/ offset >= Len(all)
    BY <1>1
  <1> HIDE DEF upto, next
  <1>6. QED
    BY <1>3, <1>4, <1>5

-----------------------------------------------------------------------------
(* The invariant.                                                          *)

RunFields == {"status", "attempted"}
CrawlFields == {"offset", "pages", "listings", "complete", "total"}

Tables ==
    /\ week \in Nat
    /\ IsSeq(catalog, week) /\ \A w \in 1 .. week : catalog[w] \in Seq(Listings)
    /\ IsSeq(run, week) /\ \A w \in 1 .. week : Has(run[w], RunFields)
    /\ IsSeq(population, week)

\* What the crawl has in hand is the catalog up to its offset, and when it
\* is complete, all of it, until that is stored.
Crawling ==
    /\ Has(crawl, CrawlFields)
    /\ stage # "idle" => week \in 1 .. week
    /\ stage \in {"crawl", "write", "close"} => run[week].status = "running"
    /\ stage = "crawl" => /\ crawl.complete /\ crawl.offset \in Nat
                          /\ crawl.total \in {-1, Len(catalog[week])}
                          /\ crawl.listings = Upto(catalog[week], crawl.offset)
    /\ (stage = "write" /\ crawl.complete) => crawl.listings = catalog[week]
    /\ (stage = "close" /\ crawl.complete) => Stored(week) = Listed(week)

WholeInv == Tables /\ Crawling /\ FinishedIsWhole

LEMMA CatalogTyped == \A c \in Catalogs : c \in Seq(Listings)
  <1> SUFFICES ASSUME NEW c \in Catalogs PROVE c \in Seq(Listings)
    OBVIOUS
  <1>1. c \in Seq(ToSet(c)) /\ ToSet(c) \subseteq Listings
    BY SellerWeekAssumption DEF Listings
  <1>2. QED
    BY <1>1, SeqMonotonic

LEMMA NoCrawlHas == Has(NoCrawl, CrawlFields)
  BY DEF Has, NoCrawl, CrawlFields

LEMMA WholeInit == Init => WholeInv
  <1> SUFFICES ASSUME Init PROVE WholeInv
    OBVIOUS
  <1>1. IsSeq(<<>>, 0)
    BY EmptySeq DEF IsSeq
  <1>2. Tables
    BY <1>1 DEF Init, Tables
  <1>3. Crawling
    BY NoCrawlHas DEF Init, Crawling
  <1>4. QED
    BY <1>2, <1>3 DEF Init, WholeInv, FinishedIsWhole

\* A step that is none of the crawl's changes no status and no population.
LEMMA AsideKeeps ==
    ASSUME WholeInv, UNCHANGED <<week, catalog, population>>, crawl' \in {crawl, NoCrawl},
           IsSeq(run', week),
           \A w \in 1 .. week : Has(run'[w], RunFields) /\ run'[w].status = run[w].status,
           stage' \notin {"crawl", "write", "close"},
           stage' # "idle" => week \in 1 .. week
    PROVE  WholeInv'
  <1>1. Tables'
    BY DEF WholeInv, Tables
  <1>2. Crawling'
    BY NoCrawlHas DEF WholeInv, Crawling
  <1>3. FinishedIsWhole'
    BY DEF WholeInv, FinishedIsWhole, Stored, Listed
  <1>4. QED
    BY <1>1, <1>2, <1>3 DEF WholeInv

LEMMA StartWeekKeeps == ASSUME WholeInv, StartWeek PROVE WholeInv'
  <1> DEFINE fresh == [status |-> "running", attempted |-> {1}]
  <1>1. PICK c \in Catalogs : catalog' = Longer(catalog, c)
    BY DEF StartWeek, Longer
  <1>2. week \in Nat /\ week' = week + 1 /\ week' \in Nat /\ week' \in 1 .. week'
    BY DEF StartWeek, WholeInv, Tables
  <1> HIDE DEF fresh
  <1>a. /\ IsSeq(catalog, week) /\ IsSeq(run, week) /\ IsSeq(population, week)
        /\ run' = Longer(run, fresh) /\ population' = Longer(population, NoPopulation)
    BY DEF StartWeek, WholeInv, Tables, Longer, fresh
  <1>3. /\ IsSeq(catalog', week') /\ catalog'[week'] = c
        /\ \A w \in 1 .. week : catalog'[w] = catalog[w]
    BY <1>1, <1>2, <1>a, Appended
  <1>4. /\ IsSeq(run', week') /\ run'[week'] = fresh
        /\ \A w \in 1 .. week : run'[w] = run[w]
    BY <1>2, <1>a, Appended
  <1>5. /\ IsSeq(population', week')
        /\ \A w \in 1 .. week : population'[w] = population[w]
    BY <1>2, <1>a, Appended
  <1>6. \A w \in 1 .. week' : w \in 1 .. week \/ w = week'
    BY <1>2
  <1>7. c \in Seq(Listings) /\ Len(c) \in Nat
    BY CatalogTyped, LenProperties
  <1>8. Has(fresh, RunFields) /\ fresh.status = "running"
    BY DEF Has, RunFields, fresh
  <1>9. Tables'
    <2>1. \A w \in 1 .. week' : catalog'[w] \in Seq(Listings)
      BY <1>3, <1>6, <1>7 DEF WholeInv, Tables
    <2>2. \A w \in 1 .. week' : Has(run'[w], RunFields)
      BY <1>4, <1>6, <1>8 DEF WholeInv, Tables
    <2>3. QED
      BY <1>2, <1>3, <1>4, <1>5, <2>1, <2>2 DEF Tables
  <1>10. Crawling'
    <2>1. Upto(c, 0) = <<>>
      <3>1. (IF 0 < Len(c) THEN 0 ELSE Len(c)) = 0
        BY <1>7
      <3>2. QED
        BY <3>1, SubSeqEmpty DEF Upto
    <2>2. stage' = "crawl" /\ crawl' = NoCrawl
      BY DEF StartWeek
    <2>3. /\ crawl'.complete /\ crawl'.offset = 0 /\ crawl'.total = -1 /\ crawl'.listings = <<>>
      BY <2>2 DEF NoCrawl
    <2>4. QED
      BY <1>2, <1>3, <1>4, <1>8, <2>1, <2>2, <2>3, NoCrawlHas DEF Crawling
  <1>11. FinishedIsWhole'
    <2> SUFFICES ASSUME NEW w \in 1 .. week', run'[w].status = "finished"
                 PROVE  Stored(w)' = Listed(w)'
      BY DEF FinishedIsWhole
    <2>1. w \in 1 .. week
      BY <1>4, <1>6, <1>8
    <2>2. QED
      BY <1>3, <1>4, <1>5, <2>1 DEF WholeInv, FinishedIsWhole, Stored, Listed
  <1>12. QED
    BY <1>9, <1>10, <1>11 DEF WholeInv

LEMMA FetchPageKeeps == ASSUME WholeInv, FetchPage PROVE WholeInv'
  <1> DEFINE all == catalog[week]
  <1>1. /\ UNCHANGED <<week, catalog, run, population>> /\ stage = "crawl"
        /\ week \in 1 .. week /\ run[week].status = "running"
        /\ Has(crawl, CrawlFields) /\ crawl.offset \in Nat
        /\ crawl.total \in {-1, Len(all)} /\ crawl.listings = Upto(all, crawl.offset)
        /\ crawl.complete /\ all \in Seq(Listings) /\ Len(all) \in Nat /\ Page \in Nat \ {0}
    BY SellerWeekAssumption, LenProperties DEF FetchPage, tables, WholeInv, Crawling, Tables
  <1>2. Tables' /\ FinishedIsWhole'
    BY <1>1 DEF WholeInv, Tables, FinishedIsWhole, Stored, Listed
  <1>3. CASE PageCap \/ PageLost
    <2>1. Has(crawl', CrawlFields) /\ ~crawl'.complete
      BY <1>1, <1>3 DEF PageCap, PageLost, Has, CrawlFields
    <2>2. stage' = "write"
      BY <1>3 DEF PageCap, PageLost
    <2>3. QED
      BY <1>1, <1>2, <2>1, <2>2 DEF WholeInv, Crawling
  <1>4. CASE \E total \in {-1, Len(all)} : PageRead(total)
    <2>1. PICK total \in {-1, Len(all)} : PageRead(total)
      BY <1>4
    <2> DEFINE page == Items(crawl.offset)
               known == IF total = -1 THEN crawl.total ELSE total
               everything == known # -1 /\ crawl.offset + Page >= known
    <2>2. /\ crawl' = [crawl EXCEPT !.offset = @ + Page, !.pages = @ + 1,
                                    !.listings = @ \o page, !.total = known]
          /\ stage' = IF everything \/ page = <<>> THEN "write" ELSE "crawl"
      BY <2>1 DEF PageRead
    <2>3. known \in {-1, Len(all)}
      BY <1>1
    <2>4. /\ Upto(all, crawl.offset) \o page = Upto(all, crawl.offset + Page)
          /\ page = <<>> => crawl.offset >= Len(all)
      <3> HIDE DEF all
      <3>1. page = SubSeq(all, crawl.offset + 1,
                          IF crawl.offset + Page < Len(all) THEN crawl.offset + Page ELSE Len(all))
        BY DEF Items, all
      <3> HIDE DEF page
      <3>2. all \in Seq(Listings) /\ crawl.offset \in Nat /\ Page \in Nat \ {0}
        BY <1>1
      <3>3. LET next == SubSeq(all, crawl.offset + 1,
                               IF crawl.offset + Page < Len(all) THEN crawl.offset + Page ELSE Len(all))
            IN  /\ Upto(all, crawl.offset) \o next = Upto(all, crawl.offset + Page)
                /\ next = <<>> => crawl.offset >= Len(all)
        BY <3>2, PagesJoin, Zenon
      <3>4. QED
        BY <3>1, <3>3, Zenon
    <2>5. crawl.offset + Page \in Nat
      BY <1>1
    <2>6. crawl.offset + Page >= Len(all) => Upto(all, crawl.offset + Page) = all
      BY <1>1, <2>5, PagesJoin
    <2>7. stage' = "write" => crawl.offset + Page >= Len(all)
      <3>1. CASE everything
        BY <1>1, <2>3, <3>1
      <3>2. CASE page = <<>>
        BY <1>1, <2>4, <3>2
      <3>3. QED
        BY <2>2, <3>1, <3>2
    <2> HIDE DEF page, known, everything
    <2>8. /\ Has(crawl', CrawlFields) /\ crawl'.complete = crawl.complete
          /\ crawl'.offset = crawl.offset + Page /\ crawl'.total = known
          /\ crawl'.listings = crawl.listings \o page
      BY <1>1, <2>2 DEF Has, CrawlFields
    <2>9. crawl'.listings = Upto(all, crawl.offset + Page)
      BY <1>1, <2>4, <2>8
    <2>10. stage' \in {"crawl", "write"}
      BY <2>2
    <2>11. Crawling'
      BY <1>1, <2>3, <2>5, <2>6, <2>7, <2>8, <2>9, <2>10 DEF Crawling
    <2>12. QED
      BY <1>2, <2>11 DEF WholeInv
  <1>5. QED
    BY <1>3, <1>4 DEF FetchPage

LEMMA WritePopulationKeeps == ASSUME WholeInv, WritePopulation PROVE WholeInv'
  <1> DEFINE found == assemble(crawl.listings)
             stored == [sellers |-> found.sellers, rejected |-> found.rejected,
                        claims |-> crawl.listings]
  <1>1. /\ UNCHANGED <<week, catalog, run, crawl>> /\ stage = "write" /\ stage' = "close"
        /\ week \in 1 .. week /\ week \in Nat /\ run[week].status = "running"
        /\ crawl.complete => crawl.listings = catalog[week]
        /\ population' = Changed(population, week, stored)
    BY DEF WritePopulation, WholeInv, Crawling, Tables, Changed
  <1>2. /\ IsSeq(population', week) /\ population'[week] = stored
        /\ \A w \in 1 .. week : w # week => population'[w] = population[w]
    <2> HIDE DEF stored
    <2>1. IsSeq(population, week)
      BY DEF WholeInv, Tables
    <2>2. week \in Nat /\ week \in 1 .. week /\ population' = Changed(population, week, stored)
      BY <1>1
    <2>3. QED
      BY <2>1, <2>2, Replaced
  <1>3. [sellers |-> stored.sellers, rejected |-> stored.rejected] = assemble(crawl.listings)
    BY DEF assemble
  <1> HIDE DEF stored
  <1>4. Tables'
    BY <1>1, <1>2 DEF WholeInv, Tables
  <1>5. Crawling'
    BY <1>1, <1>2, <1>3 DEF WholeInv, Crawling, Stored, Listed
  <1>6. FinishedIsWhole'
    BY <1>1, <1>2 DEF WholeInv, FinishedIsWhole, Stored, Listed
  <1>7. QED
    BY <1>4, <1>5, <1>6 DEF WholeInv

LEMMA CloseRunKeeps == ASSUME WholeInv, CloseRun PROVE WholeInv'
  <1> DEFINE how == IF crawl.complete THEN "finished" ELSE "failed"
             closed == [run[week] EXCEPT !.status = how]
  <1>1. /\ UNCHANGED <<week, catalog, population>> /\ stage = "close" /\ crawl' = NoCrawl
        /\ week \in 1 .. week /\ week \in Nat /\ Has(run[week], RunFields)
        /\ crawl.complete => Stored(week) = Listed(week)
        /\ run' = Changed(run, week, closed)
        /\ stage' \in {"probe", "idle"}
    BY DEF CloseRun, WholeInv, Crawling, Tables, Changed
  <1>2. Has(closed, RunFields) /\ closed.status = how
    <2> HIDE DEF how
    <2>1. QED
      BY <1>1 DEF Has, RunFields
  <1>3. /\ IsSeq(run', week) /\ run'[week] = closed
        /\ \A w \in 1 .. week : w # week => run'[w] = run[w]
    <2> HIDE DEF closed
    <2>1. IsSeq(run, week)
      BY DEF WholeInv, Tables
    <2>2. QED
      BY <1>1, <2>1, Replaced
  <1> HIDE DEF closed
  <1>4. Tables'
    BY <1>1, <1>2, <1>3 DEF WholeInv, Tables
  <1>5. Crawling'
    BY <1>1, NoCrawlHas DEF Crawling
  <1>6. FinishedIsWhole'
    <2>1. run'[week].status = "finished" => Stored(week) = Listed(week)
      BY <1>1, <1>2, <1>3
    <2>2. QED
      BY <1>1, <1>3, <2>1 DEF WholeInv, FinishedIsWhole, Stored, Listed
  <1>7. QED
    BY <1>4, <1>5, <1>6 DEF WholeInv

\* The two statements that say what a run attempted.
Attempts(rungs) == run' = [run EXCEPT ![week].attempted = @ \cup rungs]

LEMMA AttemptsKeeps ==
    ASSUME WholeInv, week \in 1 .. week, NEW rungs, Attempts(rungs)
    PROVE  /\ IsSeq(run', week)
           /\ \A w \in 1 .. week : Has(run'[w], RunFields) /\ run'[w].status = run[w].status
  <1> DEFINE more == [run[week] EXCEPT !.attempted = @ \cup rungs]
  <1>1. /\ week \in Nat /\ week \in 1 .. week /\ Has(run[week], RunFields)
        /\ run' = Changed(run, week, more)
    BY DEF WholeInv, Tables, Changed, Attempts
  <1>2. Has(more, RunFields) /\ more.status = run[week].status
    BY <1>1 DEF Has, RunFields
  <1> HIDE DEF more
  <1>3. /\ IsSeq(run', week) /\ run'[week] = more
        /\ \A w \in 1 .. week : w # week => run'[w] = run[w]
    <2>1. IsSeq(run, week)
      BY DEF WholeInv, Tables
    <2>2. QED
      BY <1>1, <2>1, Replaced
  <1>4. QED
    BY <1>1, <1>2, <1>3 DEF WholeInv, Tables

LEMMA WholeStep == ASSUME WholeInv, [Next]_vars PROVE WholeInv'
  <1>1. /\ IsSeq(run, week)
        /\ \A w \in 1 .. week : Has(run[w], RunFields)
        /\ stage # "idle" => week \in 1 .. week
    BY DEF WholeInv, Tables, Crawling
  <1>2. ASSUME UNCHANGED <<week, catalog, population, run>>, crawl' \in {crawl, NoCrawl},
               stage' \notin {"crawl", "write", "close"},
               stage' # "idle" => week \in 1 .. week
        PROVE  WholeInv'
    BY <1>1, <1>2, AsideKeeps
  <1>3. CASE StartProbe
    <2>1. /\ UNCHANGED <<week, catalog, population, crawl>> /\ week \in 1 .. week
          /\ stage' \in {"idle", "probing"}
          /\ run' = run \/ Attempts({2, 3, 7})
      BY <1>1, <1>3 DEF StartProbe, Attempts
    <2>2. CASE run' = run
      BY <1>2, <2>1, <2>2
    <2>3. CASE Attempts({2, 3, 7})
      BY <2>1, <2>3, AttemptsKeeps, AsideKeeps
    <2>4. QED
      BY <2>1, <2>2, <2>3
  <1>4. ASSUME NEW h \in DOMAIN lane, LaneStep(h) PROVE WholeInv'
    BY <1>1, <1>2, <1>4 DEF LaneStep
  <1>5. CASE EndProbe
    BY <1>1, <1>2, <1>5 DEF EndProbe, tables
  <1>6. CASE StartSettle
    BY <1>1, <1>2, <1>6 DEF StartSettle, tables
  <1>7. CASE ScanWindow
    BY <1>1, <1>2, <1>7 DEF ScanWindow, tables
  <1>8. CASE WriteSettled
    BY <1>1, <1>2, <1>8 DEF WriteSettled
  <1>9. CASE EndSettle
    <2>1. /\ UNCHANGED <<week, catalog, population, crawl>> /\ week \in 1 .. week
          /\ stage' = "delta"
          /\ Attempts({6})
      BY <1>1, <1>9 DEF EndSettle, Attempts
    <2>2. QED
      BY <2>1, AttemptsKeeps, AsideKeeps
  <1>10. CASE WriteDelta
    BY <1>1, <1>2, <1>10 DEF WriteDelta
  <1>11. CASE Heartbeat
    BY <1>2, <1>11 DEF Heartbeat, tables
  <1>12. CASE Crash
    BY <1>2, <1>12 DEF Crash, Halt, tables
  <1>13. CASE Resume
    <2>1. week \in 1 .. week
      BY <1>13 DEF Resume, WholeInv, Tables
    <2>2. QED
      BY <1>2, <1>13, <2>1 DEF Resume, tables
  <1>14. CASE UNCHANGED vars
    <2>1. UNCHANGED <<week, catalog, run, population, crawl, stage>>
      BY <1>14 DEF vars, tables
    <2>2. Tables' /\ Crawling' /\ FinishedIsWhole'
      BY <2>1 DEF WholeInv, Tables, Crawling, FinishedIsWhole, Stored, Listed
    <2>3. QED
      BY <2>2 DEF WholeInv
  <1>15. QED
    BY <1>3, <1>4, <1>5, <1>6, <1>7, <1>8, <1>9, <1>10, <1>11, <1>12, <1>13, <1>14,
       StartWeekKeeps, FetchPageKeeps, WritePopulationKeeps, CloseRunKeeps DEF Next

\* A run of the Seller Census is `finished` only when everything its catalog
\* listed is stored: no page that was declined, lost or never asked for goes
\* unnoticed, whatever is killed and whoever takes the sweep up again.
THEOREM FinishedRunsAreWhole == Spec => []FinishedIsWhole
  <1>1. WholeInv => FinishedIsWhole
    BY DEF WholeInv
  <1>2. QED
    BY <1>1, WholeInit, WholeStep, PTL DEF Spec

-----------------------------------------------------------------------------
(* Numbers.                                                                *)

LEMMA LeastNat ==
    ASSUME NEW T \in SUBSET Nat, T # {} PROVE \E x \in T : \A y \in T : x <= y
  <1>1. PICK x \in T : \A y \in T : ~ (<<y, x>> \in OpToRel(<, Nat))
    BY NatLessThanWellFounded, WFMin
  <1>2. \A y \in T : ~(y < x)
    BY <1>1 DEF OpToRel
  <1>3. QED
    BY <1>2

\* A finite set of numbers has a greatest.
LEMMA FiniteMax ==
    ASSUME NEW S \in SUBSET Int, IsFiniteSet(S), S # {}
    PROVE  \E x \in S : \A y \in S : y <= x
  <1> DEFINE Good(T) == \E x \in T : \A y \in T : y <= x
             Bad == {n \in Nat : \E T \in SUBSET Int :
                        IsFiniteSet(T) /\ T # {} /\ Cardinality(T) = n /\ ~ Good(T)}
  <1>1. Bad = {}
    <2> SUFFICES ASSUME Bad # {} PROVE FALSE
      OBVIOUS
    <2>1. PICK n \in Bad : \A m \in Bad : n <= m
      <3>1. Bad \in SUBSET Nat
        OBVIOUS
      <3> HIDE DEF Bad
      <3>2. QED
        BY <3>1, LeastNat
    <2>2. PICK T \in SUBSET Int : IsFiniteSet(T) /\ T # {} /\ Cardinality(T) = n /\ ~ Good(T)
      OBVIOUS
    <2>3. PICK x \in T : TRUE
      BY <2>2
    <2> DEFINE U == T \ {x}
    <2>4. IsFiniteSet(U) /\ Cardinality(U) = n - 1 /\ Cardinality(U) \in Nat
      BY <2>2, <2>3, FS_RemoveElement, FS_CardinalityType
    <2>5. U # {}
      BY <2>2
    <2>6. Good(U)
      <3> HIDE DEF Good
      <3>1. n \in Nat /\ n - 1 \in Nat
        BY <2>4
      <3>2. n - 1 \notin Bad
        BY <2>1, <3>1
      <3>3. QED
        BY <2>4, <2>5, <3>1, <3>2
    <2>7. PICK u \in U : \A y \in U : y <= u
      BY <2>6
    <2>8. CASE x <= u
      BY <2>2, <2>7, <2>8
    <2>9. CASE u <= x
      <3>1. \A y \in T : y <= x
        <4>1. \A y \in U : y <= x
          BY <2>7, <2>9
        <4>2. QED
          BY <4>1
      <3>2. QED
        BY <2>2, <3>1
    <2>10. QED
      BY <2>8, <2>9
  <1>2. Cardinality(S) \in Nat
    BY FS_CardinalityType
  <1> HIDE DEF Good
  <1>3. Good(S)
    BY <1>1, <1>2
  <1>4. QED
    BY <1>3 DEF Good

LEMMA MaxIs ==
    ASSUME NEW S \in SUBSET Int, IsFiniteSet(S), S # {}
    PROVE  Max(S) \in S /\ \A y \in S : y <= Max(S)
  <1>1. \E x \in S : \A y \in S : x >= y
    BY FiniteMax
  <1>2. QED
    BY <1>1 DEF Max

LEMMA MinIs ==
    ASSUME NEW S \in SUBSET Nat, S # {}
    PROVE  Min(S) \in S /\ \A y \in S : Min(S) <= y
  BY LeastNat DEF Min

-----------------------------------------------------------------------------
(* Rung 6: what the scan has made of a payee.                              *)

TallyFields == {"settlements", "payers", "first", "last", "ours", "self"}
ScanFields == {"from", "to", "next", "tallies", "left"}

Seen(p, from, last) == {t \in Transfers : t.to = p.who /\ t.block \in from .. last}

Theirs(p, seen) == {t \in seen : t.from \notin {Shopper, p.who}}

\* A tally says what the transfers `seen` say of the payee.
Tallied(tally, p, seen) ==
    /\ Has(tally, TallyFields)
    /\ tally.settlements = Cardinality(Theirs(p, seen))
    /\ tally.ours \in Nat /\ tally.self \in Nat
    /\ tally.ours + tally.self + tally.settlements = Cardinality(seen)
    /\ tally.payers = {t.from : t \in Theirs(p, seen)}
    /\ tally.first \in Nat /\ tally.last \in Nat
    /\ \A t \in Theirs(p, seen) : tally.first <= t.block /\ t.block <= tally.last

LEMMA SeenIs ==
    ASSUME NEW p, NEW from, NEW last
    PROVE  /\ IsFiniteSet(Seen(p, from, last)) /\ Cardinality(Seen(p, from, last)) \in Nat
           /\ \A t \in Seen(p, from, last) : t.block \in Nat
  <1>1. Seen(p, from, last) \in SUBSET Transfers
    BY DEF Seen
  <1>2. IsFiniteSet(Seen(p, from, last))
    BY <1>1, SellerWeekAssumption, FS_Subset
  <1>3. QED
    BY <1>1, <1>2, SellerWeekAssumption, FS_CardinalityType

\* Two disjoint finite sets.
LEMMA DisjointUnion ==
    ASSUME NEW S, NEW T, IsFiniteSet(S), IsFiniteSet(T), S \cap T = {}
    PROVE  /\ IsFiniteSet(S \cup T)
           /\ Cardinality(S \cup T) = Cardinality(S) + Cardinality(T)
           /\ Cardinality(S) \in Nat /\ Cardinality(T) \in Nat
  <1>1. Cardinality(S) \in Nat /\ Cardinality(T) \in Nat
    BY FS_CardinalityType
  <1>2. Cardinality(S \cap T) = 0
    BY FS_EmptySet
  <1>3. /\ IsFiniteSet(S \cup T)
        /\ Cardinality(S \cup T) = Cardinality(S) + Cardinality(T) - Cardinality(S \cap T)
    BY FS_Union
  <1>4. QED
    BY <1>1, <1>2, <1>3

\* Every transfer of a window is the shopper's, the payee's own or a settlement.
LEMMA WindowParts ==
    ASSUME NEW who, NEW found, IsFiniteSet(found)
    PROVE  LET ours == {t \in found : t.from = Shopper}
               self == {t \in found : t.from = who /\ t.from # Shopper}
               kept == Counted(who, Shopper, found)
           IN  /\ IsFiniteSet(kept)
               /\ Cardinality(ours) \in Nat /\ Cardinality(self) \in Nat
               /\ Cardinality(kept) \in Nat
               /\ Cardinality(ours) + Cardinality(self) + Cardinality(kept) = Cardinality(found)
  <1> DEFINE ours == {t \in found : t.from = Shopper}
             self == {t \in found : t.from = who /\ t.from # Shopper}
             kept == Counted(who, Shopper, found)
             most == ours \cup self
  <1>1. ours \in SUBSET found /\ self \in SUBSET found /\ kept \in SUBSET found
    BY DEF Counted
  <1>2. /\ found = most \cup kept /\ most \cap kept = {} /\ ours \cap self = {}
    BY DEF Counted
  <1> HIDE DEF ours, self, kept
  <1>3. IsFiniteSet(ours) /\ IsFiniteSet(self) /\ IsFiniteSet(kept)
    BY <1>1, FS_Subset
  <1>4. /\ IsFiniteSet(most) /\ Cardinality(most) = Cardinality(ours) + Cardinality(self)
        /\ Cardinality(ours) \in Nat /\ Cardinality(self) \in Nat
    BY <1>2, <1>3, DisjointUnion
  <1> HIDE DEF most
  <1>5. Cardinality(found) = Cardinality(most) + Cardinality(kept) /\ Cardinality(kept) \in Nat
    BY <1>2, <1>3, <1>4, DisjointUnion
  <1>6. Cardinality(ours) + Cardinality(self) + Cardinality(kept) = Cardinality(found)
    BY <1>4, <1>5
  <1>7. QED
    BY <1>3, <1>4, <1>5, <1>6 DEF ours, self, kept

\* One window more, each transfer once.
LEMMA Absorbed ==
    ASSUME NEW p, NEW seen, NEW found, NEW tally, Tallied(tally, p, seen),
           IsFiniteSet(seen), IsFiniteSet(found), seen \cap found = {},
           \A t \in seen \cup found : t.block \in Nat
    PROVE  Tallied(absorb(tally, p.who, Shopper, found), p, seen \cup found)
  <1> DEFINE kept == Counted(p.who, Shopper, found)
             theirs == Theirs(p, seen)
             ours == {t \in found : t.from = Shopper}
             self == {t \in found : t.from = p.who /\ t.from # Shopper}
             blocks == {t.block : t \in kept}
             old == IF tally.settlements = 0 THEN {} ELSE {tally.first, tally.last}
             U == old \cup blocks
             next == absorb(tally, p.who, Shopper, found)
  <1>1. /\ kept = Theirs(p, found) /\ Theirs(p, seen \cup found) = theirs \cup kept
        /\ theirs \cap kept = {} /\ theirs \in SUBSET seen /\ kept \in SUBSET found
    BY DEF Counted, Theirs
  <1>2. /\ next.settlements = tally.settlements + Cardinality(kept)
        /\ next.payers = tally.payers \cup {t.from : t \in kept}
        /\ next.ours = tally.ours + Cardinality(ours)
        /\ next.self = tally.self + Cardinality(self)
        /\ Has(next, TallyFields)
    BY DEF absorb, Has, TallyFields
  <1>a. /\ U = {} => next.first = 0 /\ next.last = 0
        /\ U # {} => next.first = Min(U) /\ next.last = Max(U)
    BY DEF absorb
  <1> HIDE DEF next
  <1>3. /\ IsFiniteSet(kept) /\ Cardinality(kept) \in Nat
        /\ Cardinality(ours) \in Nat /\ Cardinality(self) \in Nat
        /\ Cardinality(ours) + Cardinality(self) + Cardinality(kept) = Cardinality(found)
    BY WindowParts
  <1> HIDE DEF kept, ours, self
  <1>4. IsFiniteSet(theirs) /\ Cardinality(theirs) \in Nat
    BY <1>1, FS_Subset, FS_CardinalityType
  <1>5. /\ tally.settlements = Cardinality(theirs) /\ tally.ours \in Nat /\ tally.self \in Nat
        /\ tally.ours + tally.self + tally.settlements = Cardinality(seen)
        /\ tally.payers = {t.from : t \in theirs} /\ tally.first \in Nat /\ tally.last \in Nat
        /\ \A t \in theirs : tally.first <= t.block /\ t.block <= tally.last
    BY DEF Tallied
  <1>6. Cardinality(seen \cup found) = Cardinality(seen) + Cardinality(found)
    BY DisjointUnion
  <1> HIDE DEF theirs
  <1>7. next.settlements = Cardinality(theirs \cup kept)
    <2>1. Cardinality(theirs \cup kept) = Cardinality(theirs) + Cardinality(kept)
      BY <1>1, <1>3, <1>4, DisjointUnion
    <2>2. QED
      BY <1>2, <1>5, <2>1
  <1>8. next.ours + next.self + next.settlements = Cardinality(seen \cup found)
    BY <1>2, <1>3, <1>4, <1>5, <1>6
  <1>9. next.payers = {t.from : t \in theirs \cup kept}
    BY <1>2, <1>5
  <1>10. U \in SUBSET Nat /\ U \in SUBSET Int /\ IsFiniteSet(U)
    <2>1. \A t \in kept : t.block \in Nat
      BY <1>1
    <2>2. blocks \subseteq Nat /\ old \subseteq Nat
      BY <1>5, <2>1
    <2>3. IsFiniteSet(blocks)
      <3> DEFINE f == [t \in kept |-> t.block]
      <3>1. f \in Surjection(kept, blocks)
        BY DEF Surjection
      <3> HIDE DEF f, blocks
      <3>2. QED
        BY <1>3, <3>1, FS_Surjection
    <2>4. IsFiniteSet(old)
      <3>1. IsFiniteSet({tally.first} \cup {tally.last})
        BY FS_Singleton, FS_Union
      <3>2. {tally.first} \cup {tally.last} = {tally.first, tally.last}
        OBVIOUS
      <3>3. QED
        BY <3>1, <3>2, FS_EmptySet
    <2> HIDE DEF blocks, old
    <2>5. IsFiniteSet(U)
      BY <2>3, <2>4, FS_Union
    <2>6. QED
      BY <2>2, <2>5
  <1>11. U # {} => /\ Min(U) \in U /\ Max(U) \in U
                   /\ \A b \in U : Min(U) <= b /\ b <= Max(U)
    <2> HIDE DEF U
    <2>1. QED
      BY <1>10, MinIs, MaxIs
  <1>12. next.first \in Nat /\ next.last \in Nat
    <2> HIDE DEF U
    <2>1. CASE U = {}
      BY <1>a, <2>1
    <2>2. CASE U # {}
      BY <1>a, <1>10, <1>11, <2>2
    <2>3. QED
      BY <2>1, <2>2
  <1>13. ASSUME NEW t \in theirs \cup kept PROVE next.first <= t.block /\ t.block <= next.last
    <2>1. CASE t \in kept
      <3>1. t.block \in U
        BY <2>1
      <3> HIDE DEF U
      <3>2. QED
        BY <1>a, <1>11, <3>1
    <2>2. CASE t \in theirs
      <3>1. theirs # {}
        BY <2>2
      <3>2. tally.settlements # 0
        BY <1>4, <1>5, <3>1, FS_EmptySet
      <3>3. tally.first \in U /\ tally.last \in U
        BY <3>2
      <3>4. tally.first <= t.block /\ t.block <= tally.last /\ tally.first \in Nat /\ tally.last \in Nat
        BY <1>5, <2>2
      <3>5. t.block \in Nat
        BY <1>1, <2>2
      <3> HIDE DEF U
      <3>6. /\ next.first <= tally.first /\ tally.last <= next.last
            /\ next.first \in Nat /\ next.last \in Nat
        BY <1>a, <1>11, <1>12, <3>3
      <3>7. QED
        BY <3>4, <3>5, <3>6
    <2>3. QED
      BY <2>1, <2>2
  <1>14. Theirs(p, seen \cup found) = theirs \cup kept
    BY <1>1
  <1>15. next.ours \in Nat /\ next.self \in Nat
    BY <1>2, <1>3, <1>5
  <1>16. Tallied(next, p, seen \cup found)
    BY <1>2, <1>7, <1>8, <1>9, <1>12, <1>13, <1>14, <1>15 DEF Tallied
  <1>17. QED
    BY <1>16 DEF next

\* While the windows are read, every tally is of the blocks read so far.
ScanInv ==
    stage = "scanning" =>
        /\ Has(scan, ScanFields)
        /\ scan.from \in Nat /\ scan.to \in Nat /\ scan.next \in Nat
        /\ scan.from <= scan.next /\ scan.next <= scan.to + 1
        /\ \A p \in DOMAIN scan.tallies :
              Tallied(scan.tallies[p], p, Seen(p, scan.from, scan.next - 1))

LEMMA ScanStarts == ASSUME StartSettle PROVE ScanInv'
  <1>1. PICK head \in Heads :
           LET from == IF head > Lookback THEN head - Lookback ELSE 0 IN
           scan' = [from |-> from, to |-> head, next |-> from,
                    tallies |-> [p \in Payees(week) |-> NoTally], left |-> Sellers(week)]
    BY DEF StartSettle
  <1> DEFINE from == IF head > Lookback THEN head - Lookback ELSE 0
  <1>2. head \in Nat /\ from \in Nat /\ from <= head + 1
    BY SellerWeekAssumption
  <1>3. /\ scan'.from = from /\ scan'.to = head /\ scan'.next = from
        /\ scan'.tallies = [p \in Payees(week) |-> NoTally] /\ Has(scan', ScanFields)
    BY <1>1 DEF Has, ScanFields
  <1> HIDE DEF from
  <1>4. ASSUME NEW p PROVE Tallied(NoTally, p, Seen(p, from, from - 1))
    <2>1. Seen(p, from, from - 1) = {}
      BY <1>2 DEF Seen
    <2>2. Tallied(NoTally, p, {})
      BY FS_EmptySet DEF Tallied, Theirs, NoTally, Has, TallyFields
    <2>3. QED
      BY <2>1, <2>2
  <1>5. \A p \in DOMAIN scan'.tallies :
            Tallied(scan'.tallies[p], p, Seen(p, scan'.from, scan'.next - 1))
    BY <1>3, <1>4
  <1>6. scan'.from <= scan'.next /\ scan'.next <= scan'.to + 1
    BY <1>2, <1>3
  <1>7. QED
    BY <1>2, <1>3, <1>5, <1>6 DEF ScanInv

LEMMA ScanGoesOn == ASSUME ScanInv, ScanWindow PROVE ScanInv'
  <1> DEFINE end == WindowEnd(scan.next, scan.to)
             found == {t \in Transfers : t.block \in scan.next .. end}
  <1>1. /\ Has(scan, ScanFields)
        /\ scan.from \in Nat /\ scan.to \in Nat /\ scan.next \in Nat
        /\ scan.from <= scan.next /\ scan.next <= scan.to
        /\ \A p \in DOMAIN scan.tallies :
              Tallied(scan.tallies[p], p, Seen(p, scan.from, scan.next - 1))
    BY DEF ScanInv, ScanWindow
  <1>2. scan' = [scan EXCEPT
               !.next = end + 1,
               !.tallies = [p \in DOMAIN @ |->
                   absorb(@[p], p.who, Shopper, {t \in found : t.to = p.who})]]
    BY DEF ScanWindow
  <1>3. end \in Nat /\ scan.next <= end /\ end <= scan.to
    <2>1. WindowBlocks \in Nat \ {0}
      BY SellerWeekAssumption
    <2>2. QED
      BY <1>1, <2>1 DEF WindowEnd
  <1>4. \A p : {t \in found : t.to = p.who} = Seen(p, scan.next, end)
    BY DEF Seen
  <1> HIDE DEF end, found
  <1>5. /\ scan'.from = scan.from /\ scan'.to = scan.to /\ scan'.next = end + 1
        /\ scan'.tallies = [p \in DOMAIN scan.tallies |->
               absorb(scan.tallies[p], p.who, Shopper, {t \in found : t.to = p.who})]
        /\ Has(scan', ScanFields)
    BY <1>1, <1>2 DEF Has, ScanFields
  <1>6. ASSUME NEW p \in DOMAIN scan.tallies
        PROVE  Tallied(scan'.tallies[p], p, Seen(p, scan.from, end))
    <2> DEFINE seen == Seen(p, scan.from, scan.next - 1)
               more == Seen(p, scan.next, end)
    <2>1. seen \cup more = Seen(p, scan.from, end) /\ seen \cap more = {}
      <3>1. \A b \in Nat : /\ b \in scan.from .. scan.next - 1 \/ b \in scan.next .. end
                                <=> b \in scan.from .. end
                           /\ ~ (b \in scan.from .. scan.next - 1 /\ b \in scan.next .. end)
        BY <1>1, <1>3
      <3>2. \A t \in Transfers : t.block \in Nat
        BY SellerWeekAssumption
      <3>3. QED
        BY <3>1, <3>2 DEF Seen
    <2>2. scan'.tallies[p] = absorb(scan.tallies[p], p.who, Shopper, more)
      BY <1>4, <1>5
    <2>3. /\ IsFiniteSet(seen) /\ IsFiniteSet(more) /\ \A t \in seen \cup more : t.block \in Nat
          /\ Tallied(scan.tallies[p], p, seen)
      BY <1>1, SeenIs
    <2> HIDE DEF seen, more
    <2>4. Tallied(absorb(scan.tallies[p], p.who, Shopper, more), p, seen \cup more)
      BY <2>1, <2>3, Absorbed
    <2>5. QED
      BY <2>1, <2>2, <2>4
  <1>7. \A p \in DOMAIN scan'.tallies :
            Tallied(scan'.tallies[p], p, Seen(p, scan'.from, scan'.next - 1))
    <2>1. scan'.next - 1 = end /\ DOMAIN scan'.tallies = DOMAIN scan.tallies
      BY <1>3, <1>5
    <2>2. QED
      BY <1>5, <1>6, <2>1
  <1>8. scan'.next \in Nat /\ scan'.from <= scan'.next /\ scan'.next <= scan'.to + 1
    BY <1>1, <1>3, <1>5
  <1>9. QED
    BY <1>1, <1>5, <1>7, <1>8 DEF ScanInv

LEMMA ScanStep == ASSUME ScanInv, [Next]_vars PROVE ScanInv'
  <1>1. CASE stage' # "scanning"
    BY <1>1 DEF ScanInv
  <1>2. CASE stage' = stage /\ scan' = scan
    BY <1>2 DEF ScanInv
  <1>3. CASE StartWeek \/ FetchPage \/ WritePopulation \/ CloseRun \/ StartProbe \/ EndProbe
             \/ EndSettle \/ WriteDelta \/ Heartbeat \/ Crash \/ Resume
    <2>1. stage' # "scanning"
      BY <1>3 DEF StartWeek, FetchPage, PageCap, PageRead, PageLost, WritePopulation, CloseRun,
            StartProbe, EndProbe, EndSettle, WriteDelta, Heartbeat, Crash, Halt, Resume
    <2>2. QED
      BY <1>1, <2>1
  <1>4. CASE \E h \in DOMAIN lane : LaneStep(h)
    BY <1>2, <1>4 DEF LaneStep
  <1>5. CASE WriteSettled
    <2>1. /\ stage' = stage
          /\ \E left : scan' = [scan EXCEPT !.left = left]
      BY <1>5 DEF WriteSettled
    <2>2. PICK left : scan' = [scan EXCEPT !.left = left]
      BY <2>1
    <2>3. Has(scan, ScanFields)
      BY <1>5 DEF WriteSettled, ScanInv
    <2>4. /\ scan'.from = scan.from /\ scan'.to = scan.to /\ scan'.next = scan.next
          /\ scan'.tallies = scan.tallies /\ Has(scan', ScanFields)
      BY <2>2, <2>3 DEF Has, ScanFields
    <2>5. QED
      BY <1>5, <2>1, <2>4 DEF ScanInv
  <1>6. CASE UNCHANGED vars
    BY <1>2, <1>6 DEF vars
  <1>7. QED
    BY <1>3, <1>4, <1>5, <1>6, ScanStarts, ScanGoesOn DEF Next

LEMMA ScanIsExact == ScanInv => SettledIsExact
  <1> SUFFICES ASSUME ScanInv, stage = "scanning", scan.next > scan.to,
                      NEW p \in DOMAIN scan.tallies
               PROVE  LET seen == {t \in Transfers : t.to = p.who /\ t.block \in scan.from .. scan.to}
                          theirs == {t \in seen : t.from \notin {Shopper, p.who}}
                          tally == scan.tallies[p]
                      IN  /\ tally.settlements = Cardinality(theirs)
                          /\ tally.ours + tally.self + tally.settlements = Cardinality(seen)
                          /\ tally.payers = {t.from : t \in theirs}
                          /\ theirs # {} => \A t \in theirs : t.block \in tally.first .. tally.last
    BY DEF SettledIsExact
  <1> DEFINE tally == scan.tallies[p]
             seen == Seen(p, scan.from, scan.to)
             theirs == Theirs(p, seen)
  <1>1. scan.next - 1 = scan.to
    BY DEF ScanInv
  <1>2. Tallied(tally, p, seen)
    BY <1>1 DEF ScanInv
  <1>3. \A t \in theirs : t.block \in Nat
    BY SeenIs DEF Theirs
  <1>4. \A t \in theirs : t.block \in tally.first .. tally.last
    <2> HIDE DEF theirs, tally, seen
    <2>1. /\ tally.first \in Nat /\ tally.last \in Nat
          /\ \A t \in theirs : tally.first <= t.block /\ t.block <= tally.last
      BY <1>2 DEF Tallied, theirs
    <2>2. QED
      BY <1>3, <2>1
  <1>5. /\ seen = {t \in Transfers : t.to = p.who /\ t.block \in scan.from .. scan.to}
        /\ theirs = {t \in seen : t.from \notin {Shopper, p.who}}
    BY DEF Seen, Theirs
  <1> HIDE DEF seen, tally
  <1>6. /\ tally.settlements = Cardinality(theirs)
        /\ tally.ours + tally.self + tally.settlements = Cardinality(seen)
        /\ tally.payers = {t.from : t \in theirs}
    BY <1>2 DEF Tallied
  <1> HIDE DEF theirs
  <1>7. QED
    BY <1>4, <1>5, <1>6 DEF tally

-----------------------------------------------------------------------------
(* The sellers of a catalog and the order they are visited in.             *)

SellerIds == UNION {SellerId(l) : l \in Listings}

LEMMA SellerIdIs ==
    ASSUME NEW l
    PROVE  /\ IsFiniteSet(SellerId(l))
           /\ \A s \in SellerId(l) : s = [pay_to |-> s.pay_to, host |-> s.host]
  <1> DEFINE As == {b \in normalize_pay_to(l.pay_to, encoding(l.network)) : l.resource.host # ""}
             f == [a \in As |-> [pay_to |-> a, host |-> l.resource.host]]
  <1>1. encoding(l.network) \in {"evm", "solana", "opaque"}
    BY DEF encoding
  <1>2. \E a : normalize_pay_to(l.pay_to, encoding(l.network)) \subseteq {a}
    BY <1>1 DEF normalize_pay_to
  <1>3. IsFiniteSet(As)
    <2>1. PICK a : As \in SUBSET {a}
      BY <1>2
    <2> HIDE DEF As
    <2>2. QED
      BY <2>1, FS_Singleton, FS_Subset
  <1>4. SellerId(l) = {[pay_to |-> a, host |-> l.resource.host] : a \in As}
    BY DEF SellerId
  <1> HIDE DEF As
  <1>5. f \in Surjection(As, SellerId(l))
    BY <1>4 DEF Surjection
  <1> HIDE DEF f
  <1>6. IsFiniteSet(SellerId(l))
    BY <1>3, <1>5, FS_Surjection
  <1>7. QED
    BY <1>4, <1>6

LEMMA ListedIs ==
    ASSUME NEW c \in Seq(Listings)
    PROVE  /\ IsFiniteSet(DOMAIN assemble(c).sellers)
           /\ DOMAIN assemble(c).sellers \subseteq SellerIds
  <1> DEFINE Named == {SellerId(l) : l \in ToSet(c)}
             f == [i \in 1 .. Len(c) |-> SellerId(c[i])]
  <1>1. DOMAIN assemble(c).sellers = UNION Named
    BY DEF assemble
  <1>2. ToSet(c) = {c[i] : i \in 1 .. Len(c)} /\ Len(c) \in Nat /\ ToSet(c) \subseteq Listings
    BY DEF ToSet
  <1>3. f \in Surjection(1 .. Len(c), Named)
    BY <1>2 DEF Surjection
  <1>4. IsFiniteSet(Named)
    <2> HIDE DEF f, Named
    <2>1. IsFiniteSet(1 .. Len(c))
      BY <1>2, FS_Interval
    <2>2. QED
      BY <1>3, <2>1, FS_Surjection
  <1>5. \A T \in Named : IsFiniteSet(T)
    BY SellerIdIs
  <1>6. UNION Named \subseteq SellerIds
    BY <1>2 DEF SellerIds
  <1> HIDE DEF Named
  <1>7. QED
    BY <1>1, <1>4, <1>5, <1>6, FS_UNION

\* A host's sellers, those that are visited before s, and how many.
Here(w, h) == {s \in Sellers(w) : s.host = h}
Ahead(w, h, s) == {r \in Here(w, h) : Before(r.pay_to, s.pay_to)}

Census(w) == IsFiniteSet(Sellers(w)) /\ Sellers(w) \subseteq SellerIds

\* Of two sellers of a host, one is ahead of the other.
LEMMA OneIsAhead ==
    ASSUME NEW w, NEW h, Sellers(w) \subseteq SellerIds, NEW r \in Here(w, h), NEW s \in Here(w, h)
    PROVE  /\ r \notin Ahead(w, h, r)
           /\ r # s => r \in Ahead(w, h, s) \/ s \in Ahead(w, h, r)
           /\ r \in Ahead(w, h, s) => Ahead(w, h, r) \subseteq Ahead(w, h, s)
  <1>1. \A x \in Here(w, h) : /\ x.pay_to \in Addresses /\ x.host = h
                              /\ x = [pay_to |-> x.pay_to, host |-> x.host]
    BY SellerIdIs DEF Here, SellerIds, Addresses
  <1>2. \A a, b, c \in Addresses :
          /\ ~ Before(a, a)
          /\ a = b \/ Before(a, b) \/ Before(b, a)
          /\ Before(a, b) /\ Before(b, c) => Before(a, c)
    BY SellerWeekAssumption
  <1>3. r \notin Ahead(w, h, r)
    BY <1>1, <1>2 DEF Ahead
  <1>4. ASSUME r # s PROVE r \in Ahead(w, h, s) \/ s \in Ahead(w, h, r)
    <2>1. r.pay_to # s.pay_to
      BY <1>1, <1>4
    <2>2. QED
      BY <1>1, <1>2, <2>1 DEF Ahead
  <1>5. ASSUME r \in Ahead(w, h, s) PROVE Ahead(w, h, r) \subseteq Ahead(w, h, s)
    BY <1>1, <1>2, <1>5 DEF Ahead
  <1>6. QED
    BY <1>3, <1>4, <1>5

\* Every seller of a host has one place in its queue.
LEMMA QueueIs ==
    ASSUME NEW w, NEW h, Census(w)
    PROVE  /\ Cardinality(Here(w, h)) \in Nat
           /\ Queue(w, h) \in [1 .. Cardinality(Here(w, h)) -> Here(w, h)]
           /\ Len(Queue(w, h)) = Cardinality(Here(w, h))
           /\ \A s \in Here(w, h) : \E i \in 1 .. Cardinality(Here(w, h)) : Queue(w, h)[i] = s
           /\ \A i, j \in 1 .. Cardinality(Here(w, h)) :
                 Queue(w, h)[i] = Queue(w, h)[j] => i = j
  <1> DEFINE H == Here(w, h)
             n == Cardinality(H)
             q == Queue(w, h)
             A(s) == Ahead(w, h, s)
             rank == [s \in H |-> Cardinality(A(s))]
  <1>1. IsFiniteSet(H) /\ n \in Nat /\ Sellers(w) \subseteq SellerIds
    <2>1. H \in SUBSET Sellers(w)
      BY DEF Here
    <2>2. QED
      BY <2>1, FS_Subset, FS_CardinalityType DEF Census
  <1>2. \A s \in H : /\ A(s) \in SUBSET H /\ IsFiniteSet(A(s)) /\ Cardinality(A(s)) \in Nat
                     /\ s \notin A(s)
    <2>1. \A s \in H : A(s) \in SUBSET H /\ s \notin A(s)
      BY <1>1, OneIsAhead DEF Ahead
    <2> HIDE DEF A, H
    <2>2. QED
      BY <1>1, <2>1, FS_Subset, FS_CardinalityType
  <1>3. \A r, s \in H : /\ r # s => r \in A(s) \/ s \in A(r)
                        /\ r \in A(s) => A(r) \subseteq A(s)
    BY <1>1, OneIsAhead
  <1>4. q = [i \in 1 .. n |-> CHOOSE s \in H : Cardinality(A(s)) = i - 1]
    BY DEF Queue, Here, Ahead
  <1> HIDE DEF H, A, q
  <1>5. ASSUME NEW r \in H, NEW s \in H, r \in A(s)
        PROVE  Cardinality(A(r)) < Cardinality(A(s))
    <2>1. A(r) \in SUBSET A(s) /\ A(r) # A(s)
      BY <1>2, <1>3, <1>5
    <2>2. Cardinality(A(r)) <= Cardinality(A(s)) /\ Cardinality(A(r)) # Cardinality(A(s))
      BY <1>2, <2>1, FS_Subset
    <2>3. QED
      BY <1>2, <2>2
  <1>6. ASSUME NEW r \in H, NEW s \in H, Cardinality(A(r)) = Cardinality(A(s)) PROVE r = s
    BY <1>2, <1>3, <1>5, <1>6
  <1>7. ASSUME NEW s \in H PROVE Cardinality(A(s)) \in 0 .. n - 1
    <2>1. A(s) # H
      BY <1>2
    <2>2. Cardinality(A(s)) <= n /\ Cardinality(A(s)) # n
      BY <1>1, <1>2, <2>1, FS_Subset
    <2>3. QED
      BY <1>1, <1>2, <2>2
  <1>8. rank \in Injection(H, 0 .. n - 1)
    <2>1. rank \in [H -> 0 .. n - 1]
      BY <1>7
    <2>2. \A r, s \in H : rank[r] = rank[s] => r = s
      BY <1>6
    <2>3. QED
      BY <2>1, <2>2 DEF Injection, IsInjective
  <1>9. IsFiniteSet(0 .. n - 1) /\ Cardinality(0 .. n - 1) = n
    <2>1. 0 \in Int /\ n - 1 \in Int
      BY <1>1
    <2>2. /\ IsFiniteSet(0 .. n - 1)
          /\ Cardinality(0 .. n - 1) = IF 0 > n - 1 THEN 0 ELSE n - 1 - 0 + 1
      BY <2>1, FS_Interval
    <2> HIDE DEF n
    <2>3. QED
      BY <1>1, <2>2
  <1>10. rank \in Surjection(H, 0 .. n - 1)
    <2> HIDE DEF n, rank
    <2>1. QED
      BY <1>8, <1>9, FS_Injection DEF n
  <1>11. ASSUME NEW i \in 1 .. n PROVE q[i] \in H /\ Cardinality(A(q[i])) = i - 1
    <2>1. i - 1 \in 0 .. n - 1
      BY <1>1
    <2>2. \E s \in H : Cardinality(A(s)) = i - 1
      BY <1>10, <2>1 DEF Surjection
    <2>3. q[i] = CHOOSE s \in H : Cardinality(A(s)) = i - 1
      BY <1>4
    <2>4. QED
      BY <2>2, <2>3
  <1>12. ASSUME NEW s \in H PROVE \E i \in 1 .. n : q[i] = s
    <2>1. Cardinality(A(s)) + 1 \in 1 .. n /\ (Cardinality(A(s)) + 1) - 1 = Cardinality(A(s))
      BY <1>1, <1>7
    <2>2. PICK i \in 1 .. n : i - 1 = Cardinality(A(s))
      BY <2>1
    <2>3. q[i] = s
      BY <1>6, <1>11, <2>2
    <2>4. QED
      BY <2>3
  <1>13. \A i, j \in 1 .. n : q[i] = q[j] => i = j
    <2> SUFFICES ASSUME NEW i \in 1 .. n, NEW j \in 1 .. n, q[i] = q[j] PROVE i = j
      OBVIOUS
    <2>1. i - 1 = j - 1
      BY <1>11
    <2>2. QED
      BY <1>1, <2>1
  <1>14. q \in [1 .. n -> H]
    BY <1>4, <1>11
  <1>15. Len(q) = n
    <2> HIDE DEF n
    <2>1. QED
      BY <1>1, <1>14
  <1>16. QED
    BY <1>1, <1>12, <1>13, <1>14, <1>15 DEF H, q

-----------------------------------------------------------------------------
(* The rules of rungs 2, 3 and 7.                                          *)

\* What is read of a server is a body only where it asked to be paid.
Plain(seen) == seen.code # 402 => seen.body # "accepts"

LEMMA ProbeIs == ASSUME NEW server PROVE Plain(probe(server))
  <1>1. \A wire : Plain(Response(wire))
    BY DEF Plain, Response, ProbeFailed
  <1>2. Plain(NotPermitted)
    BY DEF Plain, NotPermitted
  <1>3. QED
    BY <1>1, <1>2 DEF probe

\* The three answers of one seller, from one probe, say the same of it.
LEMMA RulesAgree ==
    ASSUME NEW seen, Plain(seen), NEW s, NEW enc, NEW claim
    PROVE  LET two == reachable(seen).status
               three == quotes(s, seen, enc).status
               seven == consistent(claim, requirements(s, seen, enc)).status
           IN  /\ two \in {"pass", "refused", "error"}
               /\ three \in {"pass", "fail", "skipped"}
               /\ two \in {"refused", "error"} <=> three = "skipped"
               /\ seven = "skipped" <=> three # "pass"
  <1> DEFINE two == reachable(seen).status
             three == quotes(s, seen, enc).status
             quoted == requirements(s, seen, enc)
             seven == consistent(claim, quoted).status
  <1>1. two \in {"pass", "refused", "error"}
    BY DEF reachable, Answer
  <1>2. seven = "skipped" <=> quoted = <<>>
    <2> HIDE DEF quoted
    <2>1. QED
      BY DEF consistent, Answer
  <1>3. three = IF two # "pass" THEN "skipped"
                ELSE IF seen.code = 402 /\ quoted # <<>> THEN "pass" ELSE "fail"
    <2> HIDE DEF quoted
    <2>1. QED
      BY DEF quotes, Answer, quoted
  <1>4. two # "pass" \/ seen.code # 402 => quoted = <<>>
    BY DEF requirements, Plain
  <1> HIDE DEF two, three, quoted, seven
  <1>5. /\ three \in {"pass", "fail", "skipped"}
        /\ two \in {"refused", "error"} <=> three = "skipped"
        /\ seven = "skipped" <=> three # "pass"
    BY <1>1, <1>2, <1>3, <1>4
  <1>6. QED
    BY <1>1, <1>5 DEF two, three, quoted, seven

-----------------------------------------------------------------------------
(* What the rows of a sweep say of its sellers.  A table is what rows[w]   *)
(* holds, a place in it <<seller, rung>>.                                  *)

Says(table, s, rung, status) ==
    <<s, rung>> \in DOMAIN table /\ table[<<s, rung>>].status = status

\* What RowsAgree says of one seller.
Coherent(table, s) ==
    LET status(rung) == table[<<s, rung>>].status IN
    /\ {<<s, 2>>, <<s, 3>>} \subseteq DOMAIN table
    /\ status(2) = "unprobed" <=> status(3) = "unprobed"
    /\ status(2) \in {"refused", "error"} <=> status(3) = "skipped"
    /\ <<s, 7>> \in DOMAIN table =>
           /\ status(2) # "unprobed"
           /\ status(7) = "skipped" <=> status(3) # "pass"

\* The two tables say the same of a seller's probe.
Alike(table, other, s) ==
    \A rung \in {2, 3, 7} :
        /\ <<s, rung>> \in DOMAIN table <=> <<s, rung>> \in DOMAIN other
        /\ <<s, rung>> \in DOMAIN table => table[<<s, rung>>] = other[<<s, rung>>]

\* Who can ever be held to a claim: the same in every pass over a week.
Claimed(w) ==
    {s \in Sellers(w) :
        /\ ClaimFor(population[w].claims, s, FirstResource(population[w].sellers[s])) # {}
        /\ \E i \in DOMAIN Queue(w, s.host) : i <= PerHostBudget /\ Queue(w, s.host)[i] = s}

Rung2 == {"pass", "refused", "error", "unprobed"}

\* The rows of a finished crawl, whatever passes were made over it since.
TableOK(table, sellers, claimed) ==
    /\ DOMAIN table \subseteq sellers \X {1, 2, 3, 6, 7}
    /\ sellers \X {1} \subseteq DOMAIN table
    /\ \A s \in sellers : /\ <<s, 2>> \in DOMAIN table => table[<<s, 2>>].status \in Rung2
                          /\ <<s, 7>> \in DOMAIN table => s \in claimed

\* Each seller has one place in the queue.
IsQueue(q) ==
    /\ Len(q) \in Nat /\ DOMAIN q = 1 .. Len(q)
    /\ \A i, j \in DOMAIN q : q[i] = q[j] => i = j

\* Those before the one in hand.
Behind(table, q, i) == \A j \in 1 .. i - 1 : Coherent(table, q[j])

\* A lane: all it is done with are coherent, and what it has written of the
\* seller in hand is what its one probe says.
LaneOK(table, l, q) ==
    LET s == q[l.index]  seen == l.seen[1] IN
    /\ Has(l, {"at", "index", "seen"})
    /\ l.at \in {"next", "budget", "reachable", "quotes", "consistent"} =>
           l.index \in DOMAIN q /\ Behind(table, q, l.index)
    /\ l.at = "done" => \A j \in DOMAIN q : Coherent(table, q[j])
    /\ l.at = "budget" => l.index > PerHostBudget /\ Says(table, s, 2, "unprobed")
    /\ l.at \in {"reachable", "quotes", "consistent"} => l.index <= PerHostBudget /\ Plain(seen)
    /\ l.at \in {"quotes", "consistent"} => Says(table, s, 2, reachable(seen).status)
    /\ l.at = "consistent" => Says(table, s, 3, quotes(s, seen, encoding_of(s.pay_to)).status)

Rows ==
    /\ IsSeq(rows, week)
    /\ stage \in {"crawl", "write"} => rows[week] = <<>>
    /\ stage = "close" => DOMAIN rows[week] = Sellers(week) \X {1}
    /\ \A w \in 1 .. week :
          run[w].status = "finished" => TableOK(rows[w], Sellers(w), Claimed(w))

Late == {"probing", "settle", "scanning", "delta", "heartbeat"}

\* A sweep goes past its crawl only when that finished, and is pinged for last.
Stages ==
    /\ pinged \subseteq 1 .. week
    /\ stage # "idle" => week \notin pinged
    /\ stage \in Late \cup {"probe"} => run[week].status = "finished"
    /\ stage \in Late => {2, 3, 7} \subseteq run[week].attempted
    /\ \A w \in pinged : run[w].status = "finished" /\ {2, 3, 7} \subseteq run[w].attempted
    /\ stage = "scanning" => scan.left \subseteq Sellers(week)

Agreed == \A w \in 1 .. week : Probed(w) => \A s \in Sellers(w) : Coherent(rows[w], s)

Lanes ==
    stage = "probing" =>
        /\ lane = [h \in Hosts(week) |-> lane[h]]
        /\ \A h \in Hosts(week) : LaneOK(rows[week], lane[h], Queue(week, h))

\* The crawl, the scan, the rows and the lanes that write them, together inductive.
RowsInv == WholeInv /\ ScanInv /\ Rows /\ Stages /\ Agreed /\ Lanes

-----------------------------------------------------------------------------
(* One row is written.                                                     *)

With(table, s, rung, answer) == Upserted(table, {<<s, rung>>}, answer)

LEMMA WithIsAlike ==
    ASSUME NEW table, NEW s, NEW rung, NEW answer, NEW r, r # s \/ rung = 6
    PROVE  Alike(table, With(table, s, rung, answer), r)
  <1> DEFINE new == With(table, s, rung, answer)
  <1>1. ASSUME NEW n \in {2, 3, 7} PROVE <<r, n>> # <<s, rung>>
    OBVIOUS
  <1>2. /\ DOMAIN new = DOMAIN table \cup {<<s, rung>>}
        /\ \A k \in DOMAIN table : k # <<s, rung>> => new[k] = table[k]
    BY DEF With, Upserted
  <1> HIDE DEF new
  <1>3. ASSUME NEW n \in {2, 3, 7}
        PROVE  /\ <<r, n>> \in DOMAIN table <=> <<r, n>> \in DOMAIN new
               /\ <<r, n>> \in DOMAIN table => table[<<r, n>>] = new[<<r, n>>]
    BY <1>1, <1>2
  <1>4. QED
    BY <1>3 DEF Alike, new

LEMMA AlikeCohere ==
    ASSUME NEW table, NEW other, NEW s, Alike(table, other, s), Coherent(table, s)
    PROVE  Coherent(other, s)
  <1>1. /\ <<s, 2>> \in DOMAIN table /\ <<s, 3>> \in DOMAIN table
        /\ <<s, 2>> \in DOMAIN other /\ <<s, 3>> \in DOMAIN other
        /\ other[<<s, 2>>] = table[<<s, 2>>] /\ other[<<s, 3>>] = table[<<s, 3>>]
        /\ <<s, 7>> \in DOMAIN other => /\ <<s, 7>> \in DOMAIN table
                                        /\ other[<<s, 7>>] = table[<<s, 7>>]
    BY DEF Alike, Coherent
  <1>2. QED
    BY <1>1 DEF Coherent

\* A seller past the budget, both of whose rows say so, and who was never asked.
LEMMA UnaskedCoheres ==
    ASSUME NEW table, NEW s, Says(table, s, 2, "unprobed"), Says(table, s, 3, "unprobed"),
           <<s, 7>> \notin DOMAIN table
    PROVE  Coherent(table, s)
  BY DEF Says, Coherent

\* A seller whose rows are those of one probe.
LEMMA AskedCoheres ==
    ASSUME NEW table, NEW s, NEW seen, Plain(seen), NEW enc,
           Says(table, s, 2, reachable(seen).status), Says(table, s, 3, quotes(s, seen, enc).status),
           <<s, 7>> \in DOMAIN table =>
               \E claim : Says(table, s, 7, consistent(claim, requirements(s, seen, enc)).status)
    PROVE  Coherent(table, s)
  <1> DEFINE two == reachable(seen).status
             three == quotes(s, seen, enc).status
             seven(claim) == consistent(claim, requirements(s, seen, enc)).status
  <1>1. /\ two \in {"pass", "refused", "error"}
        /\ three \in {"pass", "fail", "skipped"}
        /\ two \in {"refused", "error"} <=> three = "skipped"
        /\ \A claim : seven(claim) = "skipped" <=> three # "pass"
    BY RulesAgree
  <1>2. /\ <<s, 2>> \in DOMAIN table /\ <<s, 3>> \in DOMAIN table
        /\ table[<<s, 2>>].status = two /\ table[<<s, 3>>].status = three
        /\ <<s, 7>> \in DOMAIN table => \E claim : table[<<s, 7>>].status = seven(claim)
    BY DEF Says
  <1> HIDE DEF two, three, seven
  <1>3. QED
    BY <1>1, <1>2 DEF Coherent

LEMMA WithIsOK ==
    ASSUME NEW table, NEW sellers, NEW claimed, TableOK(table, sellers, claimed),
           NEW s \in sellers, NEW rung \in {2, 3, 6, 7}, NEW answer,
           rung = 2 => answer.status \in Rung2, rung = 7 => s \in claimed
    PROVE  TableOK(With(table, s, rung, answer), sellers, claimed)
  <1> DEFINE new == With(table, s, rung, answer)
  <1>1. /\ DOMAIN new = DOMAIN table \cup {<<s, rung>>} /\ new[<<s, rung>>] = answer
        /\ \A k \in DOMAIN table : k # <<s, rung>> => new[k] = table[k]
    BY DEF With, Upserted
  <1> HIDE DEF new
  <1>2. DOMAIN new \subseteq sellers \X {1, 2, 3, 6, 7} /\ sellers \X {1} \subseteq DOMAIN new
    BY <1>1 DEF TableOK
  <1>3. ASSUME NEW r \in sellers, <<r, 2>> \in DOMAIN new PROVE new[<<r, 2>>].status \in Rung2
    <2>1. CASE <<r, 2>> = <<s, rung>>
      BY <1>1, <2>1
    <2>2. CASE <<r, 2>> # <<s, rung>>
      BY <1>1, <1>3, <2>2 DEF TableOK
    <2>3. QED
      BY <2>1, <2>2
  <1>4. ASSUME NEW r \in sellers, <<r, 7>> \in DOMAIN new PROVE r \in claimed
    BY <1>1, <1>4 DEF TableOK
  <1>5. QED
    BY <1>2, <1>3, <1>4 DEF TableOK, new

-----------------------------------------------------------------------------
(* One lane takes one step.                                                *)

LEMMA LaneAlike ==
    ASSUME NEW table, NEW other, NEW l, NEW q, IsQueue(q), LaneOK(table, l, q),
           \A j \in DOMAIN q : Alike(table, other, q[j])
    PROVE  LaneOK(other, l, q)
  <1>1. \A j \in DOMAIN q : Coherent(table, q[j]) => Coherent(other, q[j])
    BY AlikeCohere
  <1>2. ASSUME l.index \in DOMAIN q, Behind(table, q, l.index) PROVE Behind(other, q, l.index)
    <2>1. PICK i \in Nat : i = l.index /\ 1 .. i - 1 \subseteq DOMAIN q
      BY <1>2 DEF IsQueue
    <2>2. QED
      BY <1>1, <1>2, <2>1 DEF Behind
  <1>3. ASSUME l.index \in DOMAIN q, NEW rung \in {2, 3}, NEW status,
               Says(table, q[l.index], rung, status)
        PROVE  Says(other, q[l.index], rung, status)
    <2>1. Alike(table, other, q[l.index])
      BY <1>3
    <2>2. QED
      BY <1>3, <2>1 DEF Alike, Says
  <1>4. QED
    BY <1>1, <1>2, <1>3 DEF LaneOK

LEMMA StillBehind ==
    ASSUME NEW table, NEW q, IsQueue(q), NEW i \in DOMAIN q, Behind(table, q, i),
           NEW rung, NEW answer
    PROVE  Behind(With(table, q[i], rung, answer), q, i)
  <1> DEFINE new == With(table, q[i], rung, answer)
  <1> SUFFICES ASSUME NEW j \in 1 .. i - 1 PROVE Coherent(new, q[j])
    BY DEF Behind
  <1>1. j \in DOMAIN q /\ j # i
    BY DEF IsQueue
  <1>2. q[j] # q[i]
    BY <1>1 DEF IsQueue
  <1>3. Alike(table, new, q[j])
    BY <1>2, WithIsAlike
  <1>4. Coherent(table, q[j])
    BY DEF Behind
  <1> HIDE DEF new
  <1>5. QED
    BY <1>3, <1>4, AlikeCohere

\* What Onward makes of a lane.
Onwards(l, q) ==
    IF l.index < Len(q) THEN [at |-> "next", index |-> l.index + 1, seen |-> <<>>]
    ELSE [at |-> "done", index |-> 0, seen |-> <<>>]

LEMMA OnwardsOK ==
    ASSUME NEW table, NEW l, NEW q, IsQueue(q), l.index \in DOMAIN q,
           Behind(table, q, l.index), Coherent(table, q[l.index])
    PROVE  LaneOK(table, Onwards(l, q), q)
  <1>1. PICK i \in Nat : i = l.index /\ i >= 1 /\ i <= Len(q)
    BY DEF IsQueue
  <1>2. Len(q) \in Nat /\ DOMAIN q = 1 .. Len(q)
    BY DEF IsQueue
  <1>3. \A j \in 1 .. i : Coherent(table, q[j])
    BY <1>1 DEF Behind
  <1>4. CASE i < Len(q)
    <2>1. i + 1 \in DOMAIN q /\ (i + 1) - 1 = i
      BY <1>1, <1>2, <1>4
    <2> DEFINE more == [at |-> "next", index |-> i + 1, seen |-> <<>>]
    <2>2. Has(more, {"at", "index", "seen"}) /\ more.at = "next" /\ more.index = i + 1
      BY DEF Has
    <2>3. Behind(table, q, i + 1)
      BY <1>3, <2>1 DEF Behind
    <2>4. Onwards(l, q) = more
      BY <1>1, <1>4 DEF Onwards
    <2> HIDE DEF more
    <2>5. LaneOK(table, more, q)
      BY <2>1, <2>2, <2>3 DEF LaneOK
    <2>6. QED
      BY <2>4, <2>5
  <1>5. CASE ~ (i < Len(q))
    <2>1. DOMAIN q = 1 .. i
      BY <1>1, <1>2, <1>5
    <2> DEFINE done == [at |-> "done", index |-> 0, seen |-> <<>>]
    <2>2. Has(done, {"at", "index", "seen"}) /\ done.at = "done"
      BY DEF Has
    <2>3. Onwards(l, q) = done
      BY <1>1, <1>5 DEF Onwards
    <2> HIDE DEF done
    <2>4. LaneOK(table, done, q)
      BY <1>3, <2>1, <2>2 DEF LaneOK
    <2>5. QED
      BY <2>3, <2>4
  <1>6. QED
    BY <1>4, <1>5

LaneFields == {"at", "index", "seen"}
Then(l, at) == [l EXCEPT !.at = at]

LEMMA ThenIs ==
    ASSUME NEW l, Has(l, LaneFields), NEW at
    PROVE  /\ Has(Then(l, at), LaneFields)
           /\ Then(l, at).at = at /\ Then(l, at).index = l.index /\ Then(l, at).seen = l.seen
  BY DEF Has, LaneFields, Then

\* What is written of the seller in hand is there, and what was stays.
LEMMA WrittenOfOne ==
    ASSUME NEW table, NEW s, NEW rung, NEW answer, NEW old, old # rung
    PROVE  /\ Says(With(table, s, rung, answer), s, rung, answer.status)
           /\ \A status : Says(table, s, old, status)
                              => Says(With(table, s, rung, answer), s, old, status)
           /\ <<s, old>> \notin DOMAIN table
                  => <<s, old>> \notin DOMAIN With(table, s, rung, answer)
  <1>1. <<s, old>> # <<s, rung>>
    OBVIOUS
  <1>2. QED
    BY <1>1 DEF With, Upserted, Says

LEMMA NotAskedYet ==
    ASSUME NEW table, NEW l, NEW q, IsQueue(q), LaneOK(table, l, q),
           l.at = "next", l.index > PerHostBudget, NEW answer, answer.status = "unprobed"
    PROVE  LaneOK(With(table, q[l.index], 2, answer), Then(l, "budget"), q)
  <1> DEFINE s == q[l.index]
             new == With(table, s, 2, answer)
             m == Then(l, "budget")
  <1>1. Has(l, LaneFields) /\ l.index \in DOMAIN q /\ Behind(table, q, l.index)
    BY DEF LaneOK, LaneFields
  <1>2. Behind(new, q, l.index)
    BY <1>1, StillBehind
  <1>3. Says(new, s, 2, "unprobed")
    <2>1. 2 # 3
      OBVIOUS
    <2>2. QED
      BY <2>1, WrittenOfOne
  <1>4. Has(m, LaneFields) /\ m.at = "budget" /\ m.index = l.index
    BY <1>1, ThenIs
  <1> HIDE DEF new, m
  <1>5. LaneOK(new, m, q)
    BY <1>1, <1>2, <1>3, <1>4 DEF LaneOK, LaneFields
  <1>6. QED
    BY <1>5 DEF new, m

LEMMA NeverAsked ==
    ASSUME NEW table, NEW l, NEW q, IsQueue(q), LaneOK(table, l, q), l.at = "budget",
           <<q[l.index], 7>> \notin DOMAIN table, NEW answer, answer.status = "unprobed"
    PROVE  LaneOK(With(table, q[l.index], 3, answer), Onwards(l, q), q)
  <1> DEFINE s == q[l.index]
             new == With(table, s, 3, answer)
  <1>1. /\ l.index \in DOMAIN q /\ Behind(table, q, l.index) /\ Says(table, s, 2, "unprobed")
    BY DEF LaneOK
  <1>2. Behind(new, q, l.index)
    BY <1>1, StillBehind
  <1>3. Says(new, s, 3, "unprobed") /\ Says(new, s, 2, "unprobed")
    <2>1. 2 # 3
      OBVIOUS
    <2>2. QED
      BY <1>1, <2>1, WrittenOfOne
  <1>4. <<s, 7>> \notin DOMAIN new
    <2>1. 7 # 3
      OBVIOUS
    <2>2. QED
      BY <2>1, WrittenOfOne
  <1> HIDE DEF new
  <1>5. Coherent(new, s)
    BY <1>3, <1>4, UnaskedCoheres
  <1>6. LaneOK(new, Onwards(l, q), q)
    BY <1>1, <1>2, <1>5, OnwardsOK
  <1>7. QED
    BY <1>6 DEF new

LEMMA Asked ==
    ASSUME NEW table, NEW l, NEW q, LaneOK(table, l, q), l.at = "next", l.index <= PerHostBudget,
           NEW m, Has(m, LaneFields), m.at = "reachable", m.index = l.index, Plain(m.seen[1])
    PROVE  LaneOK(table, m, q)
  <1>1. l.index \in DOMAIN q /\ Behind(table, q, l.index)
    BY DEF LaneOK
  <1>2. QED
    BY <1>1 DEF LaneOK, LaneFields

LEMMA ReachableIsWritten ==
    ASSUME NEW table, NEW l, NEW q, IsQueue(q), LaneOK(table, l, q), l.at = "reachable"
    PROVE  LaneOK(With(table, q[l.index], 2, reachable(l.seen[1])), Then(l, "quotes"), q)
  <1> DEFINE s == q[l.index]
             seen == l.seen[1]
             new == With(table, s, 2, reachable(seen))
             m == Then(l, "quotes")
  <1>1. /\ Has(l, LaneFields) /\ l.index \in DOMAIN q /\ Behind(table, q, l.index)
        /\ l.index <= PerHostBudget /\ Plain(seen)
    BY DEF LaneOK, LaneFields
  <1>2. Behind(new, q, l.index)
    BY <1>1, StillBehind
  <1>3. Says(new, s, 2, reachable(seen).status)
    <2>1. 2 # 3
      OBVIOUS
    <2>2. QED
      BY <2>1, WrittenOfOne
  <1>4. Has(m, LaneFields) /\ m.at = "quotes" /\ m.index = l.index /\ m.seen = l.seen
    BY <1>1, ThenIs
  <1> HIDE DEF new, m
  <1>5. LaneOK(new, m, q)
    BY <1>1, <1>2, <1>3, <1>4 DEF LaneOK, LaneFields
  <1>6. QED
    BY <1>5 DEF new, m

LEMMA QuotesAreWritten ==
    ASSUME NEW table, NEW l, NEW q, IsQueue(q), LaneOK(table, l, q), l.at = "quotes"
    PROVE  LaneOK(With(table, q[l.index], 3,
                       quotes(q[l.index], l.seen[1], encoding_of(q[l.index].pay_to))),
                  Then(l, "consistent"), q)
  <1> DEFINE s == q[l.index]
             seen == l.seen[1]
             answer == quotes(s, seen, encoding_of(s.pay_to))
             new == With(table, s, 3, answer)
             m == Then(l, "consistent")
  <1>1. /\ Has(l, LaneFields) /\ l.index \in DOMAIN q /\ Behind(table, q, l.index)
        /\ l.index <= PerHostBudget /\ Plain(seen)
        /\ Says(table, s, 2, reachable(seen).status)
    BY DEF LaneOK, LaneFields
  <1> HIDE DEF answer
  <1>2. Behind(new, q, l.index)
    BY <1>1, StillBehind
  <1>3. Says(new, s, 3, answer.status) /\ Says(new, s, 2, reachable(seen).status)
    <2>1. 2 # 3
      OBVIOUS
    <2>2. QED
      BY <1>1, <2>1, WrittenOfOne
  <1>4. Has(m, LaneFields) /\ m.at = "consistent" /\ m.index = l.index /\ m.seen = l.seen
    BY <1>1, ThenIs
  <1> HIDE DEF new, m
  <1>5. LaneOK(new, m, q)
    BY <1>1, <1>2, <1>3, <1>4 DEF LaneOK, LaneFields, answer
  <1>6. QED
    BY <1>5 DEF new, m, answer

LEMMA NothingIsClaimed ==
    ASSUME NEW table, NEW l, NEW q, IsQueue(q), LaneOK(table, l, q), l.at = "consistent",
           <<q[l.index], 7>> \notin DOMAIN table
    PROVE  LaneOK(table, Onwards(l, q), q)
  <1> DEFINE s == q[l.index]
             seen == l.seen[1]
             enc == encoding_of(s.pay_to)
  <1>1. /\ l.index \in DOMAIN q /\ Behind(table, q, l.index) /\ Plain(seen)
        /\ Says(table, s, 2, reachable(seen).status)
        /\ Says(table, s, 3, quotes(s, seen, enc).status)
    BY DEF LaneOK
  <1> HIDE DEF enc
  <1>2. Coherent(table, s)
    BY <1>1, AskedCoheres
  <1>3. QED
    BY <1>1, <1>2, OnwardsOK

LEMMA ConsistentIsWritten ==
    ASSUME NEW table, NEW l, NEW q, IsQueue(q), LaneOK(table, l, q), l.at = "consistent", NEW claim
    PROVE  LaneOK(With(table, q[l.index], 7,
                       consistent(claim, requirements(q[l.index], l.seen[1],
                                                      encoding_of(q[l.index].pay_to)))),
                  Onwards(l, q), q)
  <1> DEFINE s == q[l.index]
             seen == l.seen[1]
             enc == encoding_of(s.pay_to)
             answer == consistent(claim, requirements(s, seen, enc))
             new == With(table, s, 7, answer)
  <1>1. /\ l.index \in DOMAIN q /\ Behind(table, q, l.index) /\ Plain(seen)
        /\ Says(table, s, 2, reachable(seen).status)
        /\ Says(table, s, 3, quotes(s, seen, enc).status)
    BY DEF LaneOK
  <1> HIDE DEF answer, enc
  <1>2. Behind(new, q, l.index)
    BY <1>1, StillBehind
  <1>3. /\ Says(new, s, 2, reachable(seen).status)
        /\ Says(new, s, 3, quotes(s, seen, enc).status)
        /\ Says(new, s, 7, answer.status)
    <2>1. 2 # 7 /\ 3 # 7
      OBVIOUS
    <2>2. Says(new, s, 2, reachable(seen).status) /\ Says(new, s, 7, answer.status)
      BY <1>1, <2>1, WrittenOfOne
    <2>3. Says(new, s, 3, quotes(s, seen, enc).status)
      BY <1>1, <2>1, WrittenOfOne
    <2>4. QED
      BY <2>2, <2>3
  <1> HIDE DEF new
  <1>4. \E c : Says(new, s, 7, consistent(c, requirements(s, seen, enc)).status)
    BY <1>3 DEF answer
  <1>5. Coherent(new, s)
    BY <1>1, <1>3, <1>4, AskedCoheres
  <1>6. LaneOK(new, Onwards(l, q), q)
    BY <1>1, <1>2, <1>5, OnwardsOK
  <1>7. QED
    BY <1>6 DEF new, answer, enc

-----------------------------------------------------------------------------
(* The lanes of a probe pass.                                              *)

LEMMA CensusIs ==
    ASSUME WholeInv, NEW w \in 1 .. week, run[w].status = "finished"
    PROVE  Census(w) /\ Sellers(w) = DOMAIN Listed(w).sellers
  <1>1. Stored(w) = Listed(w) /\ catalog[w] \in Seq(Listings)
    BY DEF WholeInv, FinishedIsWhole, Tables
  <1>2. Sellers(w) = DOMAIN Listed(w).sellers
    BY <1>1 DEF Stored, Sellers
  <1>3. QED
    BY <1>1, <1>2, ListedIs DEF Census, Listed

\* A seller's lane is its host's, and its place in the queue its own.
LEMMA HostQueue ==
    ASSUME NEW w, NEW h \in Hosts(w), Census(w)
    PROVE  /\ IsQueue(Queue(w, h)) /\ 1 \in DOMAIN Queue(w, h)
           /\ \A i \in DOMAIN Queue(w, h) :
                 Queue(w, h)[i] \in Sellers(w) /\ Queue(w, h)[i].host = h
           /\ \A s \in Sellers(w) :
                 s.host = h => \E i \in DOMAIN Queue(w, h) : Queue(w, h)[i] = s
  <1> DEFINE H == Here(w, h)
             n == Cardinality(H)
             q == Queue(w, h)
  <1>1. /\ n \in Nat /\ q \in [1 .. n -> H] /\ Len(q) = n
        /\ \A s \in H : \E i \in 1 .. n : q[i] = s
        /\ \A i, j \in 1 .. n : q[i] = q[j] => i = j
    BY QueueIs
  <1>2. \E s : s \in H
    BY DEF Hosts, Here
  <1>3. \A s \in H : s \in Sellers(w) /\ s.host = h
    BY DEF Here
  <1>4. \A s \in Sellers(w) : s.host = h => s \in H
    BY DEF Here
  <1> HIDE DEF n, q, H
  <1>5. DOMAIN q = 1 .. n /\ 1 \in 1 .. n
    BY <1>1, <1>2
  <1>6. IsQueue(q)
    BY <1>1, <1>5 DEF IsQueue
  <1>7. QED
    BY <1>1, <1>3, <1>4, <1>5, <1>6 DEF q

\* What a step of lane h does to the rows of the week and to the lane.
Goes(h, table) ==
    /\ \/ rows' = rows /\ table = rows[week]
       \/ rows' = Changed(rows, week, table)
    /\ TableOK(table, Sellers(week), Claimed(week))
    /\ \A s \in Sellers(week) : s.host # h => Alike(rows[week], table, s)
    /\ lane' = [g \in DOMAIN lane |-> IF g = h THEN lane'[h] ELSE lane[g]]
    /\ LaneOK(table, lane'[h], Queue(week, h))

Probing(h) ==
    /\ week \in 1 .. week
    /\ h \in Hosts(week) /\ lane = [g \in Hosts(week) |-> lane[g]]
    /\ IsQueue(Queue(week, h)) /\ 1 \in DOMAIN Queue(week, h)
    /\ \A i \in DOMAIN Queue(week, h) :
          Queue(week, h)[i] \in Sellers(week) /\ Queue(week, h)[i].host = h
    /\ LaneOK(rows[week], lane[h], Queue(week, h)) /\ Has(lane[h], LaneFields)
    /\ TableOK(rows[week], Sellers(week), Claimed(week))

LEMMA ProbingIs ==
    ASSUME RowsInv, stage = "probing", NEW h \in DOMAIN lane
    PROVE  Probing(h)
  <1>1. week \in 1 .. week /\ run[week].status = "finished"
    BY DEF RowsInv, WholeInv, Crawling, Stages, Late
  <1>2. /\ lane = [g \in Hosts(week) |-> lane[g]] /\ h \in Hosts(week)
        /\ LaneOK(rows[week], lane[h], Queue(week, h))
    BY DEF RowsInv, Lanes
  <1>3. Census(week)
    BY <1>1, CensusIs DEF RowsInv
  <1>4. TableOK(rows[week], Sellers(week), Claimed(week))
    BY <1>1 DEF RowsInv, Rows
  <1>5. Has(lane[h], LaneFields)
    BY <1>2 DEF LaneOK, LaneFields
  <1>6. QED
    BY <1>1, <1>2, <1>3, <1>4, <1>5, HostQueue DEF Probing

\* A step that writes nothing.
LEMMA GoesQuietly ==
    ASSUME NEW h, Probing(h), rows' = rows, NEW m, lane' = [lane EXCEPT ![h] = m],
           LaneOK(rows[week], m, Queue(week, h))
    PROVE  Goes(h, rows[week])
  <1>1. \A s : Alike(rows[week], rows[week], s)
    BY DEF Alike
  <1>2. h \in DOMAIN lane /\ lane'[h] = m
    BY DEF Probing
  <1>3. lane' = [g \in DOMAIN lane |-> IF g = h THEN lane'[h] ELSE lane[g]]
    BY <1>2
  <1>4. QED
    BY <1>1, <1>2, <1>3 DEF Goes, Probing

\* A step that writes one row of the seller in hand.
LEMMA GoesWriting ==
    ASSUME NEW h, Probing(h), NEW i \in DOMAIN Queue(week, h), NEW rung \in {2, 3, 7}, NEW answer,
           Put(Queue(week, h)[i], rung, answer),
           rung = 2 => answer.status \in Rung2,
           rung = 7 => Queue(week, h)[i] \in Claimed(week),
           NEW m, lane' = [lane EXCEPT ![h] = m],
           LaneOK(With(rows[week], Queue(week, h)[i], rung, answer), m, Queue(week, h))
    PROVE  Goes(h, With(rows[week], Queue(week, h)[i], rung, answer))
  <1> DEFINE s == Queue(week, h)[i]
             new == With(rows[week], s, rung, answer)
  <1>1. s \in Sellers(week) /\ s.host = h
    BY DEF Probing
  <1>2. rows' = Changed(rows, week, new)
    BY DEF Put, With, Changed
  <1>3. TableOK(new, Sellers(week), Claimed(week))
    <2>1. TableOK(rows[week], Sellers(week), Claimed(week)) /\ rung \in {2, 3, 6, 7}
      BY DEF Probing
    <2> HIDE DEF s
    <2>2. QED
      BY <1>1, <2>1, WithIsOK DEF s
  <1>4. \A r \in Sellers(week) : r.host # h => Alike(rows[week], new, r)
    BY <1>1, WithIsAlike
  <1>5. h \in DOMAIN lane /\ lane'[h] = m
    BY DEF Probing
  <1>6. lane' = [g \in DOMAIN lane |-> IF g = h THEN lane'[h] ELSE lane[g]]
    BY <1>5
  <1> HIDE DEF new
  <1>7. Goes(h, new)
    BY <1>2, <1>3, <1>4, <1>5, <1>6 DEF Goes, new
  <1>8. QED
    BY <1>7 DEF new

LEMMA OneLaneGoes ==
    ASSUME NEW h, Probing(h), LaneSteps(h) \/ LaneFails(h)
    PROVE  \E table : Goes(h, table)
  <1> DEFINE l == lane[h]
             q == Queue(week, h)
             i == l.index
             t == rows[week]
  <1>1. /\ IsQueue(q) /\ LaneOK(t, l, q) /\ Has(l, LaneFields)
        /\ l.at \in {"next", "budget", "reachable", "quotes", "consistent"} => i \in DOMAIN q
        /\ Current(h) = q[i]
    BY DEF Probing, LaneOK, Current
  <1>2. /\ PerHostBudget \in Nat
        /\ i \in DOMAIN q => i \in Nat
    BY <1>1, SellerWeekAssumption DEF IsQueue
  <1>a. \A at : [lane EXCEPT ![h].at = at] = [lane EXCEPT ![h] = Then(l, at)]
    BY DEF Then
  <1>b. Onward(h) => lane' = [lane EXCEPT ![h] = Onwards(l, q)]
    <2>1. CASE i < Len(q)
      <3>1. [lane EXCEPT ![h] = [at |-> "next", index |-> @.index + 1, seen |-> <<>>]]
              = [lane EXCEPT ![h] = Onwards(l, q)]
        BY <2>1 DEF Onwards
      <3>2. QED
        BY <2>1, <3>1 DEF Onward
    <2>2. CASE ~ (i < Len(q))
      BY <2>2 DEF Onward, Onwards
    <2>3. QED
      BY <2>1, <2>2
  <1>3. CASE Admit(h)
    <2> DEFINE m == [at |-> "next", index |-> 1, seen |-> <<>>]
    <2>1. lane' = [lane EXCEPT ![h] = m] /\ rows' = rows /\ 1 \in DOMAIN q
      BY <1>3 DEF Admit, Probing
    <2>2. Has(m, LaneFields) /\ m.at = "next" /\ m.index = 1
      BY DEF Has, LaneFields
    <2>3. Behind(t, q, 1)
      BY DEF Behind
    <2> HIDE DEF m, q, t
    <2>4. LaneOK(t, m, q)
      BY <2>1, <2>2, <2>3 DEF LaneOK, LaneFields
    <2>5. QED
      BY <2>1, <2>4, GoesQuietly DEF q, t
  <1>4. CASE OverBudget(h)
    <2> DEFINE none == Answer("unprobed", "host_budget")
    <2>1. none.status = "unprobed" /\ none.status \in Rung2
      BY DEF Answer, Rung2
    <2>2. l.at \in {"next", "budget"} /\ i > PerHostBudget /\ i \in DOMAIN q
      BY <1>1, <1>4 DEF OverBudget
    <2>3. CASE l.at = "next"
      <3>1. Put(q[i], 2, none) /\ lane' = [lane EXCEPT ![h] = Then(l, "budget")]
        BY <1>1, <1>4, <1>a, <2>3 DEF OverBudget
      <3> HIDE DEF none
      <3>2. LaneOK(With(t, q[i], 2, none), Then(l, "budget"), q)
        BY <1>1, <2>1, <2>2, <2>3, NotAskedYet
      <3>3. 2 \in {2, 3, 7} /\ 2 # 7
        OBVIOUS
      <3>4. Goes(h, With(t, q[i], 2, none))
        BY <2>1, <2>2, <3>1, <3>2, <3>3, GoesWriting, Zenon
      <3>5. QED
        BY <3>4
    <2>4. CASE l.at = "budget"
      <3>1. Put(q[i], 3, none) /\ lane' = [lane EXCEPT ![h] = Onwards(l, q)]
        BY <1>1, <1>4, <1>b, <2>4 DEF OverBudget
      <3>2. <<q[i], 7>> \notin DOMAIN t
        <4>1. q[i] \in Sellers(week) /\ q[i].host = h
          BY <2>2 DEF Probing
        <4>2. q[i] \notin Claimed(week)
          <5> SUFFICES ASSUME NEW j \in DOMAIN Queue(week, q[i].host), j <= PerHostBudget,
                              Queue(week, q[i].host)[j] = q[i]
                       PROVE  FALSE
            BY DEF Claimed
          <5>1. j \in DOMAIN q /\ q[j] = q[i]
            BY <4>1
          <5>2. j = i
            BY <1>1, <2>2, <5>1 DEF IsQueue
          <5>3. QED
            BY <1>2, <2>2, <5>2
        <4>3. QED
          BY <4>1, <4>2 DEF Probing, TableOK
      <3> HIDE DEF none
      <3>3. LaneOK(With(t, q[i], 3, none), Onwards(l, q), q)
        BY <1>1, <2>1, <2>4, <3>2, NeverAsked
      <3>4. 3 \in {2, 3, 7} /\ 3 # 2 /\ 3 # 7
        OBVIOUS
      <3>5. Goes(h, With(t, q[i], 3, none))
        BY <2>2, <3>1, <3>3, <3>4, GoesWriting, Zenon
      <3>6. QED
        BY <3>5
    <2>5. QED
      BY <2>2, <2>3, <2>4
  <1>5. CASE Probe(h)
    <2>1. PICK server :
              lane' = [lane EXCEPT ![h].at = "reachable", ![h].seen = <<probe(server)>>]
      BY <1>5 DEF Probe
    <2> DEFINE m == [l EXCEPT !.at = "reachable", !.seen = <<probe(server)>>]
    <2>2. lane' = [lane EXCEPT ![h] = m] /\ rows' = rows
      BY <1>5, <2>1 DEF Probe
    <2>3. /\ Has(m, LaneFields) /\ m.at = "reachable" /\ m.index = i
          /\ m.seen[1] = probe(server)
      BY <1>1 DEF Has, LaneFields
    <2>4. Plain(m.seen[1])
      BY <2>3, ProbeIs
    <2>5. l.at = "next" /\ i <= PerHostBudget
      BY <1>5 DEF Probe
    <2> HIDE DEF m
    <2>6. LaneOK(t, m, q)
      BY <1>1, <2>3, <2>4, <2>5, Asked
    <2>7. QED
      BY <2>2, <2>6, GoesQuietly
  <1>6. CASE WriteReachable(h)
    <2> DEFINE answer == reachable(l.seen[1])
    <2>1. /\ l.at = "reachable" /\ i \in DOMAIN q /\ Put(q[i], 2, answer)
          /\ lane' = [lane EXCEPT ![h] = Then(l, "quotes")]
      BY <1>1, <1>6, <1>a DEF WriteReachable
    <2>2. LaneOK(With(t, q[i], 2, answer), Then(l, "quotes"), q)
      BY <1>1, <2>1, ReachableIsWritten
    <2>3. answer.status \in Rung2
      BY DEF reachable, Answer, Rung2
    <2> HIDE DEF answer
    <2>4. 2 \in {2, 3, 7} /\ 2 # 7
      OBVIOUS
    <2>5. Goes(h, With(t, q[i], 2, answer))
      BY <2>1, <2>2, <2>3, <2>4, GoesWriting, Zenon
    <2>6. QED
      BY <2>5
  <1>7. CASE WriteQuotes(h)
    <2> DEFINE answer == quotes(q[i], l.seen[1], encoding_of(q[i].pay_to))
    <2>1. /\ l.at = "quotes" /\ i \in DOMAIN q /\ Put(q[i], 3, answer)
          /\ lane' = [lane EXCEPT ![h] = Then(l, "consistent")]
      BY <1>1, <1>7, <1>a DEF WriteQuotes
    <2>2. LaneOK(With(t, q[i], 3, answer), Then(l, "consistent"), q)
      BY <1>1, <2>1, QuotesAreWritten
    <2> HIDE DEF answer
    <2>3. 3 \in {2, 3, 7} /\ 3 # 2 /\ 3 # 7
      OBVIOUS
    <2>4. Goes(h, With(t, q[i], 3, answer))
      BY <2>1, <2>2, <2>3, GoesWriting, Zenon
    <2>5. QED
      BY <2>4
  <1>8. CASE WriteConsistent(h)
    <2> DEFINE claim == ClaimFor(population[week].claims, q[i], Resource(q[i]))
               answer(c) == consistent(c, requirements(q[i], l.seen[1], encoding_of(q[i].pay_to)))
    <2>1. /\ l.at = "consistent" /\ i \in DOMAIN q
          /\ lane' = [lane EXCEPT ![h] = Onwards(l, q)]
          /\ claim = {} => rows' = rows
          /\ claim # {} => \E c : Put(q[i], 7, answer(c))
      BY <1>1, <1>8, <1>b DEF WriteConsistent
    <2>2. i <= PerHostBudget
      BY <2>1 DEF Probing, LaneOK
    <2>3. q[i] \in Sellers(week) /\ q[i].host = h
      BY <2>1 DEF Probing
    <2>4. q[i] \in Claimed(week) <=> claim # {}
      BY <2>1, <2>2, <2>3 DEF Claimed, Resource
    <2>5. CASE claim = {}
      <3>1. <<q[i], 7>> \notin DOMAIN t
        BY <2>3, <2>4, <2>5 DEF Probing, TableOK
      <3>2. LaneOK(t, Onwards(l, q), q)
        BY <1>1, <2>1, <3>1, NothingIsClaimed
      <3>3. QED
        BY <2>1, <2>5, <3>2, GoesQuietly
    <2>6. CASE claim # {}
      <3>1. PICK c : Put(q[i], 7, answer(c))
        BY <2>1, <2>6
      <3>2. LaneOK(With(t, q[i], 7, answer(c)), Onwards(l, q), q)
        BY <1>1, <2>1, ConsistentIsWritten
      <3>3. q[i] \in Claimed(week)
        BY <2>4, <2>6
      <3> HIDE DEF answer, claim
      <3>4. 7 \in {2, 3, 7} /\ 7 # 2
        OBVIOUS
      <3>5. Goes(h, With(t, q[i], 7, answer(c)))
        BY <2>1, <3>1, <3>2, <3>3, <3>4, GoesWriting, Zenon
      <3>6. QED
        BY <3>5
    <2>7. QED
      BY <2>5, <2>6
  <1>9. CASE LaneFails(h)
    <2> DEFINE m == [at |-> "failed", index |-> 0, seen |-> <<>>]
    <2>1. lane' = [lane EXCEPT ![h] = m] /\ rows' = rows
      BY <1>9 DEF LaneFails
    <2>2. Has(m, LaneFields) /\ m.at = "failed"
      BY DEF Has, LaneFields
    <2> HIDE DEF m
    <2>3. LaneOK(t, m, q)
      BY <2>2 DEF LaneOK, LaneFields
    <2>4. QED
      BY <2>1, <2>3, GoesQuietly
  <1>10. QED
    BY <1>3, <1>4, <1>5, <1>6, <1>7, <1>8, <1>9 DEF LaneSteps

-----------------------------------------------------------------------------
(* Every step.                                                             *)

\* What is derived of a week changes with its population only.
LEMMA SameCrawl ==
    ASSUME NEW w, population'[w] = population[w]
    PROVE  /\ Sellers(w)' = Sellers(w) /\ Hosts(w)' = Hosts(w)
           /\ \A h : Queue(w, h)' = Queue(w, h)
           /\ Claimed(w)' = Claimed(w)
  <1>1. Sellers(w)' = Sellers(w)
    BY DEF Sellers
  <1>2. Hosts(w)' = Hosts(w)
    BY <1>1 DEF Hosts
  <1>3. \A h : Queue(w, h)' = Queue(w, h)
    BY <1>1 DEF Queue
  <1>4. Claimed(w)' = Claimed(w)
    BY <1>1, <1>3 DEF Claimed
  <1>5. QED
    BY <1>1, <1>2, <1>3, <1>4

LEMMA RowsInit == Init => RowsInv
  <1> SUFFICES ASSUME Init PROVE RowsInv
    OBVIOUS
  <1>1. IsSeq(<<>>, 0)
    BY EmptySeq DEF IsSeq
  <1>2. Rows
    BY <1>1 DEF Init, Rows
  <1>3. Stages /\ Agreed /\ Lanes /\ ScanInv
    BY DEF Init, Stages, Late, Agreed, Lanes, ScanInv
  <1>4. QED
    BY <1>2, <1>3, WholeInit DEF RowsInv

\* A step that leaves every row and every status as it is.
LEMMA RowsStand ==
    ASSUME Rows, UNCHANGED <<week, population, rows>>,
           \A w \in 1 .. week : run'[w].status = run[w].status,
           stage' \notin {"crawl", "write", "close"}
    PROVE  Rows'
  <1>1. ASSUME NEW w \in 1 .. week, run'[w].status = "finished"
        PROVE  TableOK(rows'[w], Sellers(w)', Claimed(w)')
    BY <1>1, SameCrawl DEF Rows
  <1>2. QED
    BY <1>1 DEF Rows

LEMMA AgreedStands ==
    ASSUME Agreed, UNCHANGED <<week, population, rows>>,
           \A w \in 1 .. week : Probed(w)' => Probed(w)
    PROVE  Agreed'
  <1>1. ASSUME NEW w \in 1 .. week, Probed(w)', NEW s \in Sellers(w)'
        PROVE  Coherent(rows'[w], s)
    BY <1>1, SameCrawl DEF Agreed
  <1>2. QED
    BY <1>1 DEF Agreed

LEMMA StartWeekRows == ASSUME RowsInv, StartWeek PROVE Rows' /\ Stages' /\ Agreed' /\ Lanes'
  <1> DEFINE fresh == [status |-> "running", attempted |-> {1}]
  <1>1. /\ week \in Nat /\ week' = week + 1 /\ stage = "idle" /\ stage' = "crawl"
        /\ UNCHANGED pinged
    BY DEF StartWeek, RowsInv, WholeInv, Tables
  <1>2. /\ IsSeq(run, week) /\ IsSeq(population, week) /\ IsSeq(rows, week)
        /\ run' = Longer(run, fresh) /\ population' = Longer(population, NoPopulation)
        /\ rows' = Longer(rows, <<>>)
    BY DEF StartWeek, RowsInv, WholeInv, Tables, Rows, Longer
  <1> HIDE DEF fresh
  <1>3. /\ IsSeq(run', week') /\ run'[week'] = fresh
        /\ \A w \in 1 .. week : run'[w] = run[w]
    BY <1>1, <1>2, Appended
  <1>4. \A w \in 1 .. week : population'[w] = population[w]
    BY <1>1, <1>2, Appended
  <1>5. /\ IsSeq(rows', week') /\ rows'[week'] = <<>>
        /\ \A w \in 1 .. week : rows'[w] = rows[w]
    BY <1>1, <1>2, Appended
  <1>6. \A w \in 1 .. week' : w \in 1 .. week \/ w = week'
    BY <1>1
  <1>7. fresh.status = "running"
    BY DEF fresh
  <1>8. Rows'
    <2>1. ASSUME NEW w \in 1 .. week', run'[w].status = "finished"
          PROVE  TableOK(rows'[w], Sellers(w)', Claimed(w)')
      <3>1. w \in 1 .. week
        BY <1>3, <1>6, <1>7, <2>1
      <3>2. QED
        BY <1>3, <1>4, <1>5, <2>1, <3>1, SameCrawl DEF RowsInv, Rows
    <2>2. QED
      BY <1>1, <1>5, <2>1 DEF Rows
  <1>9. pinged \subseteq 1 .. week
    BY DEF RowsInv, Stages
  <1>10. Stages'
    <2>1. week' \notin pinged /\ pinged \subseteq 1 .. week'
      BY <1>1, <1>9
    <2>2. QED
      BY <1>1, <1>3, <1>9, <2>1 DEF RowsInv, Stages, Late
  <1>11. Agreed'
    <2>1. ASSUME NEW w \in 1 .. week', Probed(w)', NEW s \in Sellers(w)'
          PROVE  Coherent(rows'[w], s)
      <3>1. w \in pinged /\ w \in 1 .. week
        BY <1>1, <1>9, <2>1 DEF Probed
      <3>2. QED
        BY <1>4, <1>5, <2>1, <3>1, SameCrawl DEF RowsInv, Agreed, Probed
    <2>2. QED
      BY <2>1 DEF Agreed
  <1>12. QED
    BY <1>1, <1>8, <1>10, <1>11 DEF Lanes

LEMMA FetchPageRows == ASSUME RowsInv, FetchPage PROVE Rows' /\ Stages' /\ Agreed' /\ Lanes'
  <1>1. /\ UNCHANGED <<week, run, population, rows, pinged>>
        /\ stage = "crawl" /\ stage' \in {"crawl", "write"}
    BY DEF FetchPage, PageCap, PageRead, PageLost, tables
  <1>2. Rows'
    <2>1. ASSUME NEW w \in 1 .. week, run'[w].status = "finished"
          PROVE  TableOK(rows'[w], Sellers(w)', Claimed(w)')
      BY <1>1, <2>1, SameCrawl DEF RowsInv, Rows
    <2>2. QED
      BY <1>1, <2>1 DEF RowsInv, Rows
  <1>3. Agreed'
    BY <1>1, AgreedStands DEF RowsInv, Probed
  <1>4. QED
    BY <1>1, <1>2, <1>3 DEF RowsInv, Stages, Late, Lanes

LEMMA WritePopulationRows ==
    ASSUME RowsInv, WritePopulation PROVE Rows' /\ Stages' /\ Agreed' /\ Lanes'
  <1> DEFINE found == assemble(crawl.listings)
             stored == [sellers |-> found.sellers, rejected |-> found.rejected,
                        claims |-> crawl.listings]
             table == Upserted(rows[week], (DOMAIN found.sellers) \X {1}, Answer("pass", ""))
  <1>1. /\ UNCHANGED <<week, run, pinged>> /\ stage = "write" /\ stage' = "close"
        /\ week \in 1 .. week /\ week \in Nat /\ run[week].status = "running"
        /\ rows[week] = <<>> /\ IsSeq(rows, week) /\ IsSeq(population, week) /\ week \notin pinged
    BY DEF WritePopulation, RowsInv, WholeInv, Crawling, Tables, Rows, Stages
  <1>2. rows' = Changed(rows, week, table) /\ population' = Changed(population, week, stored)
    BY DEF WritePopulation, Changed
  <1>3. DOMAIN table = (DOMAIN found.sellers) \X {1}
    BY <1>1 DEF Upserted
  <1>4. stored.sellers = found.sellers
    OBVIOUS
  <1> HIDE DEF found, stored, table
  <1>5. /\ IsSeq(rows', week) /\ rows'[week] = table
        /\ \A w \in 1 .. week : w # week => rows'[w] = rows[w]
    BY <1>1, <1>2, Replaced
  <1>6. /\ population'[week] = stored
        /\ \A w \in 1 .. week : w # week => population'[w] = population[w]
    BY <1>1, <1>2, Replaced
  <1>7. Rows'
    <2>1. ASSUME NEW w \in 1 .. week, run'[w].status = "finished"
          PROVE  TableOK(rows'[w], Sellers(w)', Claimed(w)')
      <3>1. w # week /\ run[w].status = "finished"
        BY <1>1, <2>1
      <3>2. QED
        BY <1>5, <1>6, <3>1, SameCrawl DEF RowsInv, Rows
    <2>2. DOMAIN rows'[week] = Sellers(week)' \X {1}
      BY <1>1, <1>3, <1>4, <1>5, <1>6 DEF Sellers
    <2>3. QED
      BY <1>1, <1>5, <2>1, <2>2 DEF Rows
  <1>8. Agreed'
    <2>1. ASSUME NEW w \in 1 .. week, Probed(w)', NEW s \in Sellers(w)'
          PROVE  Coherent(rows'[w], s)
      <3>1. w \in pinged /\ w # week
        BY <1>1, <2>1 DEF Probed
      <3>2. QED
        BY <1>5, <1>6, <2>1, <3>1, SameCrawl DEF RowsInv, Agreed, Probed
    <2>2. QED
      BY <1>1, <2>1 DEF Agreed
  <1>9. QED
    BY <1>1, <1>7, <1>8 DEF RowsInv, Stages, Late, Lanes

LEMMA CloseRunRows == ASSUME RowsInv, CloseRun PROVE Rows' /\ Stages' /\ Agreed' /\ Lanes'
  <1> DEFINE status == IF crawl.complete THEN "finished" ELSE "failed"
             closed == [run[week] EXCEPT !.status = status]
  <1>1. /\ UNCHANGED <<week, population, rows, pinged>> /\ stage = "close"
        /\ stage' \in {"probe", "idle"} /\ (stage' = "probe" => crawl.complete)
        /\ week \in 1 .. week /\ week \in Nat /\ IsSeq(run, week) /\ week \notin pinged
        /\ Has(run[week], RunFields) /\ DOMAIN rows[week] = Sellers(week) \X {1}
        /\ run' = Changed(run, week, closed)
    BY DEF CloseRun, RowsInv, WholeInv, Crawling, Tables, Rows, Stages, Changed
  <1>2. closed.status = status
    BY <1>1 DEF Has, RunFields
  <1>3. stage' = "probe" => status = "finished"
    BY <1>1
  <1> HIDE DEF closed, status
  <1>4. /\ IsSeq(run', week) /\ run'[week] = closed
        /\ \A w \in 1 .. week : w # week => run'[w] = run[w]
    BY <1>1, Replaced
  <1>5. Rows'
    <2>1. TableOK(rows[week], Sellers(week), Claimed(week))
      BY <1>1 DEF TableOK
    <2>2. ASSUME NEW w \in 1 .. week, run'[w].status = "finished"
          PROVE  TableOK(rows'[w], Sellers(w)', Claimed(w)')
      <3>1. TableOK(rows[w], Sellers(w), Claimed(w))
        BY <1>4, <2>1, <2>2 DEF RowsInv, Rows
      <3>2. QED
        BY <1>1, <3>1, SameCrawl
    <2>3. QED
      BY <1>1, <2>2 DEF RowsInv, Rows
  <1>6. Stages'
    <2>1. \A w \in pinged : w \in 1 .. week /\ w # week
      BY <1>1 DEF RowsInv, Stages
    <2>2. QED
      BY <1>1, <1>2, <1>3, <1>4, <2>1 DEF RowsInv, Stages, Late
  <1>7. Agreed'
    BY <1>1, AgreedStands DEF RowsInv, Probed
  <1>8. QED
    BY <1>1, <1>5, <1>6, <1>7 DEF Lanes

LEMMA AttemptsGrow ==
    ASSUME WholeInv, week \in 1 .. week, NEW rungs, Attempts(rungs)
    PROVE  /\ rungs \subseteq run'[week].attempted
           /\ \A w \in 1 .. week : /\ run'[w].status = run[w].status
                                   /\ run[w].attempted \subseteq run'[w].attempted
  <1> DEFINE more == [run[week] EXCEPT !.attempted = @ \cup rungs]
  <1>1. /\ week \in Nat /\ week \in 1 .. week /\ Has(run[week], RunFields) /\ IsSeq(run, week)
        /\ run' = Changed(run, week, more)
    BY DEF WholeInv, Tables, Changed, Attempts
  <1>2. more.attempted = run[week].attempted \cup rungs /\ more.status = run[week].status
    BY <1>1 DEF Has, RunFields
  <1> HIDE DEF more
  <1>3. run'[week] = more /\ \A w \in 1 .. week : w # week => run'[w] = run[w]
    BY <1>1, Replaced
  <1>4. QED
    BY <1>1, <1>2, <1>3

LEMMA StartProbeRows == ASSUME RowsInv, StartProbe PROVE Rows' /\ Stages' /\ Agreed' /\ Lanes'
  <1>1. /\ UNCHANGED <<week, population, rows, pinged, scan>> /\ stage = "probe"
        /\ week \in 1 .. week /\ run[week].status = "finished" /\ week \notin pinged
        /\ pinged \subseteq 1 .. week
    BY DEF StartProbe, RowsInv, WholeInv, Crawling, Stages
  <1>2. CASE Sellers(week) = {}
    <2>1. run' = run /\ stage' = "idle"
      BY <1>2 DEF StartProbe
    <2>2. Rows' /\ Agreed'
      BY <1>1, <2>1, RowsStand, AgreedStands DEF RowsInv, Probed
    <2>3. QED
      BY <1>1, <2>1, <2>2 DEF RowsInv, Stages, Late, Lanes
  <1>3. CASE Sellers(week) # {}
    <2>1. Attempts({2, 3, 7}) /\ stage' = "probing" /\ lane' = [h \in Hosts(week) |-> NotBegun]
      BY <1>3 DEF StartProbe, Attempts
    <2>2. /\ {2, 3, 7} \subseteq run'[week].attempted
          /\ \A w \in 1 .. week : /\ run'[w].status = run[w].status
                                  /\ run[w].attempted \subseteq run'[w].attempted
      BY <1>1, <2>1, AttemptsGrow DEF RowsInv
    <2>3. Rows' /\ Agreed'
      BY <1>1, <2>1, <2>2, RowsStand, AgreedStands DEF RowsInv, Probed
    <2>4. Stages'
      BY <1>1, <2>1, <2>2 DEF RowsInv, Stages, Late
    <2>5. Lanes'
      <3>1. \A table, q : LaneOK(table, NotBegun, q)
        BY DEF LaneOK, NotBegun, Has
      <3>2. Hosts(week)' = Hosts(week)
        BY <1>1 DEF Hosts, Sellers
      <3>3. QED
        BY <2>1, <3>1, <3>2 DEF Lanes
    <2>6. QED
      BY <2>3, <2>4, <2>5
  <1>4. QED
    BY <1>2, <1>3

LEMMA LaneStepRows ==
    ASSUME RowsInv, NEW h \in DOMAIN lane, LaneStep(h)
    PROVE  Rows' /\ Stages' /\ Agreed' /\ Lanes'
  <1>1. /\ UNCHANGED <<week, run, population, pinged, stage, scan>> /\ stage = "probing"
        /\ LaneSteps(h) \/ LaneFails(h)
    BY DEF LaneStep
  <1>2. Probing(h)
    BY <1>1, ProbingIs
  <1>3. PICK table : Goes(h, table)
    BY <1>1, <1>2, OneLaneGoes
  <1>4. /\ week \in 1 .. week /\ week \in Nat /\ IsSeq(rows, week) /\ week \notin pinged
    BY <1>1, <1>2 DEF RowsInv, WholeInv, Tables, Rows, Probing, Stages
  <1>5. /\ IsSeq(rows', week) /\ rows'[week] = table
        /\ \A w \in 1 .. week : w # week => rows'[w] = rows[w]
    <2>1. CASE rows' = rows /\ table = rows[week]
      BY <1>4, <2>1
    <2>2. CASE rows' = Changed(rows, week, table)
      BY <1>4, <2>2, Replaced
    <2>3. QED
      BY <1>3, <2>1, <2>2 DEF Goes
  <1>6. Rows'
    <2>1. ASSUME NEW w \in 1 .. week, run'[w].status = "finished"
          PROVE  TableOK(rows'[w], Sellers(w)', Claimed(w)')
      <3>1. TableOK(rows'[w], Sellers(w), Claimed(w))
        BY <1>1, <1>3, <1>5, <2>1 DEF RowsInv, Rows, Goes
      <3>2. QED
        BY <1>1, <3>1, SameCrawl
    <2>2. QED
      BY <1>1, <1>5, <2>1 DEF Rows
  <1>7. Agreed'
    <2>1. ASSUME NEW w \in 1 .. week, Probed(w)', NEW s \in Sellers(w)'
          PROVE  Coherent(rows'[w], s)
      <3>1. w \in pinged /\ w # week
        BY <1>1, <1>4, <2>1 DEF Probed
      <3>2. QED
        BY <1>1, <1>5, <2>1, <3>1, SameCrawl DEF RowsInv, Agreed, Probed
    <2>2. QED
      BY <1>1, <2>1 DEF Agreed
  <1>8. Lanes'
    <2>1. /\ lane = [g \in Hosts(week) |-> lane[g]]
          /\ \A g \in Hosts(week) : LaneOK(rows[week], lane[g], Queue(week, g))
      BY <1>1 DEF RowsInv, Lanes
    <2>2. /\ lane' = [g \in DOMAIN lane |-> IF g = h THEN lane'[h] ELSE lane[g]]
          /\ LaneOK(table, lane'[h], Queue(week, h))
          /\ \A s \in Sellers(week) : s.host # h => Alike(rows[week], table, s)
      BY <1>3 DEF Goes
    <2>3. DOMAIN lane = Hosts(week)
      BY <2>1
    <2>4. /\ lane' = [g \in Hosts(week) |-> lane'[g]]
          /\ \A g \in Hosts(week) : g # h => lane'[g] = lane[g]
      BY <2>2, <2>3
    <2>5. Census(week)
      <3>1. run[week].status = "finished"
        BY <1>1 DEF RowsInv, Stages, Late
      <3>2. QED
        BY <1>4, <3>1, CensusIs DEF RowsInv
    <2>6. ASSUME NEW g \in Hosts(week) PROVE LaneOK(table, lane'[g], Queue(week, g))
      <3>1. CASE g = h
        BY <2>2, <3>1
      <3>2. CASE g # h
        <4>1. IsQueue(Queue(week, g))
          BY <2>5, HostQueue
        <4>2. \A j \in DOMAIN Queue(week, g) : Alike(rows[week], table, Queue(week, g)[j])
          BY <2>2, <2>5, <3>2, HostQueue
        <4>3. LaneOK(rows[week], lane'[g], Queue(week, g))
          BY <2>1, <2>4, <3>2
        <4>4. QED
          BY <4>1, <4>2, <4>3, LaneAlike
      <3>3. QED
        BY <3>1, <3>2
    <2>7. population'[week] = population[week] /\ week' = week
      BY <1>1
    <2>8. Hosts(week)' = Hosts(week) /\ \A g : Queue(week, g)' = Queue(week, g)
      BY <2>7, SameCrawl
    <2>9. QED
      BY <1>5, <2>4, <2>6, <2>7, <2>8 DEF Lanes
  <1>9. Stages'
    <2>1. Sellers(week)' = Sellers(week)
      BY <1>1 DEF Sellers
    <2>2. QED
      BY <1>1, <2>1 DEF RowsInv, Stages
  <1>10. QED
    BY <1>6, <1>7, <1>8, <1>9

\* Every lane is done: every seller has been gone through.
LEMMA EndProbeRows == ASSUME RowsInv, EndProbe PROVE Rows' /\ Stages' /\ Agreed' /\ Lanes'
  <1>1. /\ UNCHANGED <<week, population, run, rows, pinged, scan>> /\ stage = "probing"
        /\ stage' \in {"idle", "settle", "delta"}
        /\ \A h \in DOMAIN lane : lane[h].at \in {"done", "failed"}
        /\ stage' # "idle" => ~ Fails(lane)
    BY DEF EndProbe, tables
  <1>2. week \in 1 .. week /\ run[week].status = "finished"
    BY <1>1 DEF RowsInv, WholeInv, Crawling, Stages, Late
  <1>3. Rows'
    BY <1>1, RowsStand DEF RowsInv
  <1>4. Agreed'
    <2>1. ASSUME stage' # "idle", NEW s \in Sellers(week) PROVE Coherent(rows[week], s)
      <3>1. s.host \in Hosts(week) /\ DOMAIN lane = Hosts(week)
        BY <1>1 DEF Hosts, RowsInv, Lanes
      <3>2. lane[s.host].at = "done"
        BY <1>1, <2>1, <3>1 DEF Fails
      <3>3. LaneOK(rows[week], lane[s.host], Queue(week, s.host))
        BY <1>1, <3>1 DEF RowsInv, Lanes
      <3>4. \A j \in DOMAIN Queue(week, s.host) : Coherent(rows[week], Queue(week, s.host)[j])
        BY <3>2, <3>3 DEF LaneOK
      <3>5. Census(week)
        BY <1>2, CensusIs DEF RowsInv
      <3>6. \E j \in DOMAIN Queue(week, s.host) : Queue(week, s.host)[j] = s
        BY <3>1, <3>5, HostQueue
      <3>7. QED
        BY <3>4, <3>6
    <2>2. ASSUME NEW w \in 1 .. week, Probed(w)', NEW s \in Sellers(w)'
          PROVE  Coherent(rows'[w], s)
      <3>1. s \in Sellers(w)
        BY <1>1, <2>2, SameCrawl
      <3>2. CASE w \in pinged
        BY <1>1, <3>1, <3>2 DEF RowsInv, Agreed, Probed
      <3>3. CASE w \notin pinged
        BY <1>1, <2>1, <2>2, <3>1, <3>3 DEF Probed
      <3>4. QED
        BY <3>2, <3>3
    <2>3. QED
      BY <1>1, <2>2 DEF Agreed
  <1>5. QED
    BY <1>1, <1>3, <1>4 DEF RowsInv, Stages, Late, Lanes

LEMMA WriteSettledRows ==
    ASSUME RowsInv, WriteSettled PROVE Rows' /\ Stages' /\ Agreed' /\ Lanes'
  <1> DEFINE s == CHOOSE x \in scan.left : TRUE
             table == With(rows[week], s, 6, Settled(s))
  <1>1. /\ UNCHANGED <<week, run, population, pinged, stage>> /\ stage = "scanning"
        /\ scan' = [scan EXCEPT !.left = @ \ {s}] /\ scan.left # {}
        /\ rows' = Changed(rows, week, table)
    BY DEF WriteSettled, Put, With, Changed
  <1>2. s \in scan.left /\ s \in Sellers(week)
    BY <1>1 DEF RowsInv, Stages
  <1>3. /\ week \in 1 .. week /\ week \in Nat /\ IsSeq(rows, week) /\ Has(scan, ScanFields)
        /\ TableOK(rows[week], Sellers(week), Claimed(week))
    BY <1>1 DEF RowsInv, WholeInv, Tables, Crawling, Rows, Stages, Late, ScanInv
  <1>4. \A r : Alike(rows[week], table, r)
    BY WithIsAlike
  <1>5. TableOK(table, Sellers(week), Claimed(week))
    <2>1. 6 \in {2, 3, 6, 7} /\ 6 # 2 /\ 6 # 7
      OBVIOUS
    <2> HIDE DEF s
    <2>2. QED
      BY <1>2, <1>3, <2>1, WithIsOK, Zenon
  <1> HIDE DEF table, s
  <1>6. /\ IsSeq(rows', week) /\ rows'[week] = table
        /\ \A w \in 1 .. week : w # week => rows'[w] = rows[w]
    BY <1>1, <1>3, Replaced
  <1>7. Rows'
    <2>1. ASSUME NEW w \in 1 .. week, run'[w].status = "finished"
          PROVE  TableOK(rows'[w], Sellers(w)', Claimed(w)')
      <3>1. TableOK(rows'[w], Sellers(w), Claimed(w))
        BY <1>1, <1>5, <1>6, <2>1 DEF RowsInv, Rows
      <3>2. QED
        BY <1>1, <3>1, SameCrawl
    <2>2. QED
      BY <1>1, <1>6, <2>1 DEF Rows
  <1>8. Agreed'
    <2>1. ASSUME NEW w \in 1 .. week, Probed(w)', NEW r \in Sellers(w)'
          PROVE  Coherent(rows'[w], r)
      <3>1. Coherent(rows[w], r)
        BY <1>1, <2>1, SameCrawl DEF RowsInv, Agreed, Probed
      <3>2. Alike(rows[w], rows'[w], r)
        BY <1>4, <1>6 DEF Alike
      <3>3. QED
        BY <3>1, <3>2, AlikeCohere
    <2>2. QED
      BY <1>1, <2>1 DEF Agreed
  <1>9. Stages'
    <2>1. scan'.left \subseteq scan.left
      BY <1>1, <1>3 DEF Has, ScanFields
    <2>2. Sellers(week)' = Sellers(week)
      BY <1>1 DEF Sellers
    <2>3. QED
      BY <1>1, <2>1, <2>2 DEF RowsInv, Stages
  <1>10. QED
    BY <1>1, <1>7, <1>8, <1>9 DEF Lanes

\* The steps after the probe pass that write no row.
LEMMA RestRows ==
    ASSUME RowsInv,
           StartSettle \/ ScanWindow \/ EndSettle \/ WriteDelta \/ Heartbeat \/ Crash \/ Resume
               \/ UNCHANGED vars
    PROVE  Rows' /\ Stages' /\ Agreed' /\ Lanes'
  <1>1. pinged \subseteq 1 .. week /\ (stage # "idle" => week \in 1 .. week)
    BY DEF RowsInv, WholeInv, Crawling, Stages
  <1>2. ASSUME UNCHANGED <<week, population, rows, run, pinged>>,
               stage' \notin {"crawl", "write", "close", "probing"},
               stage' # "idle" => week \notin pinged,
               stage' \in Late \cup {"probe"} => run[week].status = "finished",
               stage' \in Late => stage \in Late,
               stage' \in {"settle", "scanning", "delta", "heartbeat"}
                   => stage \in {"settle", "scanning", "delta", "heartbeat"},
               stage' = "scanning" => scan'.left \subseteq Sellers(week)
        PROVE  Rows' /\ Stages' /\ Agreed' /\ Lanes'
    <2>1. Rows'
      BY <1>2, RowsStand DEF RowsInv
    <2>2. Agreed'
      BY <1>2, AgreedStands DEF RowsInv, Probed
    <2>3. Sellers(week)' = Sellers(week)
      BY <1>2 DEF Sellers
    <2>4. Stages'
      BY <1>2, <2>3 DEF RowsInv, Stages
    <2>5. QED
      BY <1>2, <2>1, <2>2, <2>4 DEF Lanes
  <1>3. CASE StartSettle
    <2>1. /\ UNCHANGED <<week, population, rows, run, pinged>>
          /\ stage = "settle" /\ stage' = "scanning" /\ scan'.left = Sellers(week)
      BY <1>3 DEF StartSettle, tables
    <2>2. QED
      BY <1>2, <2>1 DEF RowsInv, Stages, Late
  <1>4. CASE ScanWindow
    <2>1. /\ UNCHANGED <<week, population, rows, run, pinged, stage>> /\ stage = "scanning"
      BY <1>4 DEF ScanWindow, tables
    <2>2. scan'.left = scan.left
      BY <1>4 DEF ScanWindow, RowsInv, ScanInv, Has, ScanFields
    <2>3. QED
      BY <1>2, <2>1, <2>2 DEF RowsInv, Stages, Late
  <1>5. CASE EndSettle
    <2>1. /\ UNCHANGED <<week, population, rows, pinged>> /\ Attempts({6})
          /\ stage = "scanning" /\ stage' = "delta"
      BY <1>5 DEF EndSettle, Attempts
    <2>2. \A w \in 1 .. week : /\ run'[w].status = run[w].status
                               /\ run[w].attempted \subseteq run'[w].attempted
      BY <1>1, <2>1, AttemptsGrow DEF RowsInv
    <2>3. Rows' /\ Agreed'
      BY <2>1, <2>2, RowsStand, AgreedStands DEF RowsInv, Probed
    <2>4. Stages'
      BY <1>1, <2>1, <2>2 DEF RowsInv, Stages, Late
    <2>5. QED
      BY <2>1, <2>3, <2>4 DEF Lanes
  <1>6. CASE WriteDelta
    <2>1. /\ UNCHANGED <<week, population, rows, run, pinged>>
          /\ stage = "delta" /\ stage' = "heartbeat"
      BY <1>6 DEF WriteDelta
    <2>2. QED
      BY <1>2, <2>1 DEF RowsInv, Stages, Late
  <1>7. CASE Heartbeat
    <2>1. /\ UNCHANGED <<week, population, rows, run>> /\ stage = "heartbeat" /\ stage' = "idle"
          /\ pinged' \in {pinged, pinged \cup {week}}
      BY <1>7 DEF Heartbeat, tables
    <2>2. run[week].status = "finished" /\ {2, 3, 7} \subseteq run[week].attempted
      BY <2>1 DEF RowsInv, Stages, Late
    <2>3. Rows' /\ Agreed'
      BY <2>1, RowsStand, AgreedStands DEF RowsInv, Probed
    <2>4. Stages'
      BY <1>1, <2>1, <2>2 DEF RowsInv, Stages, Late
    <2>5. QED
      BY <2>1, <2>3, <2>4 DEF Lanes
  <1>8. CASE Crash
    <2>1. UNCHANGED <<week, population, rows, run, pinged>> /\ stage' = "idle"
      BY <1>8 DEF Crash, Halt, tables
    <2>2. QED
      BY <1>2, <2>1 DEF Late
  <1>9. CASE Resume
    <2>1. /\ UNCHANGED <<week, population, rows, run, pinged>> /\ stage' = "probe"
          /\ week \notin pinged /\ run[week].status = "finished"
      BY <1>9 DEF Resume, tables
    <2>2. QED
      BY <1>2, <2>1 DEF Late
  <1>10. CASE UNCHANGED vars
    <2>1. UNCHANGED <<week, population, rows, run, pinged, stage, lane, scan>>
      BY <1>10 DEF vars, tables
    <2>2. /\ Sellers(week)' = Sellers(week) /\ Hosts(week)' = Hosts(week)
          /\ \A h : Queue(week, h)' = Queue(week, h)
      BY <2>1 DEF Sellers, Hosts, Queue
    <2>3. Rows'
      <3>1. ASSUME NEW w \in 1 .. week, run'[w].status = "finished"
            PROVE  TableOK(rows'[w], Sellers(w)', Claimed(w)')
        BY <2>1, <3>1, SameCrawl DEF RowsInv, Rows
      <3>2. QED
        BY <2>1, <2>2, <3>1 DEF RowsInv, Rows
    <2>4. Agreed'
      BY <2>1, AgreedStands DEF RowsInv, Probed
    <2>5. Stages' /\ Lanes'
      BY <2>1, <2>2 DEF RowsInv, Stages, Late, Lanes
    <2>6. QED
      BY <2>3, <2>4, <2>5
  <1>11. QED
    BY <1>3, <1>4, <1>5, <1>6, <1>7, <1>8, <1>9, <1>10

LEMMA RowsStep == ASSUME RowsInv, [Next]_vars PROVE RowsInv'
  <1>1. WholeInv' /\ ScanInv'
    BY WholeStep, ScanStep DEF RowsInv
  <1>2. Rows' /\ Stages' /\ Agreed' /\ Lanes'
    <2>1. CASE Next
      BY <2>1, StartWeekRows, FetchPageRows, WritePopulationRows, CloseRunRows, StartProbeRows,
         LaneStepRows, EndProbeRows, WriteSettledRows, RestRows DEF Next
    <2>2. CASE UNCHANGED vars
      BY <2>2, RestRows
    <2>3. QED
      BY <2>1, <2>2
  <1>3. QED
    BY <1>1, <1>2 DEF RowsInv

\* Once a probe pass is over, the rows of every seller, written one by one and
\* possibly over those of a pass that was killed, say the same of it, and what
\* the scan has made of a payee is exact, whatever is killed, however many
\* lanes run at once and whoever takes the sweep up again.
THEOREM EveryRowIsRight == Spec => []RowsAreRight
  <1>1. RowsInv => RowsAreRight
    <2>1. Agreed => RowsAgree
      BY DEF Agreed, RowsAgree, Coherent
    <2>2. QED
      BY <2>1, ScanIsExact DEF RowsInv, RowsAreRight
  <1>2. QED
    BY <1>1, RowsInit, RowsStep, PTL DEF Spec

\* The monitor is pinged only for a sweep whose crawl finished, whose rungs are
\* recorded as attempted and every one of whose sellers has its rows.
THEOREM PingsAreEarned == Spec => []PingIsEarned
  <1>1. RowsInv => PingIsEarned
    <2> SUFFICES ASSUME RowsInv, NEW w \in pinged
                 PROVE  /\ run[w].status = "finished" /\ {2, 3, 7} \subseteq run[w].attempted
                        /\ \A s \in Sellers(w), rung \in {2, 3} : <<s, rung>> \in DOMAIN rows[w]
      BY DEF PingIsEarned
    <2>1. /\ w \in 1 .. week /\ run[w].status = "finished"
          /\ {2, 3, 7} \subseteq run[w].attempted
      BY DEF RowsInv, Stages
    <2>2. \A s \in Sellers(w) : Coherent(rows[w], s)
      BY <2>1 DEF RowsInv, Agreed, Probed
    <2>3. \A s \in Sellers(w), rung \in {2, 3} : <<s, rung>> \in DOMAIN rows[w]
      BY <2>2 DEF Coherent
    <2>4. QED
      BY <2>1, <2>3
  <1>2. QED
    BY <1>1, RowsInit, RowsStep, PTL DEF Spec

-----------------------------------------------------------------------------
(* What a sweep is compared with.                                          *)

LEMMA TableSellers ==
    ASSUME NEW table, NEW sellers, NEW claimed, TableOK(table, sellers, claimed)
    PROVE  SellersOf(table) = sellers
  <1>1. DOMAIN table \subseteq sellers \X {1, 2, 3, 6, 7} /\ sellers \X {1} \subseteq DOMAIN table
    BY DEF TableOK
  <1>2. ASSUME NEW s \in SellersOf(table) PROVE s \in sellers
    BY <1>1, <1>2 DEF SellersOf
  <1>3. ASSUME NEW s \in sellers PROVE s \in SellersOf(table)
    <2>1. <<s, 1>> \in DOMAIN table /\ <<s, 1>>[1] = s
      BY <1>1
    <2>2. QED
      BY <2>1 DEF SellersOf
  <1>4. QED
    BY <1>2, <1>3

\* Two of the statuses of rung 2 that differ fall under one exclusion.
LEMMA ExcludedIs ==
    ASSUME NEW from \in Rung2, NEW to \in Rung2, from # to
    PROVE  Excluded(from, to) \in {1, 2, 3}
  <1> DEFINE hits == {i \in DOMAIN NOT_CHURN : NOT_CHURN[i] \in {from, to}}
  <1>1. /\ DOMAIN NOT_CHURN = {1, 2, 3}
        /\ NOT_CHURN[1] = "refused" /\ NOT_CHURN[2] = "error" /\ NOT_CHURN[3] = "unprobed"
    BY DEF NOT_CHURN
  <1>2. from \in {"refused", "error", "unprobed"} \/ to \in {"refused", "error", "unprobed"}
    BY DEF Rung2
  <1>3. hits # {} /\ hits \in SUBSET {1, 2, 3} /\ hits \in SUBSET Nat
    BY <1>1, <1>2
  <1> HIDE DEF hits
  <1>4. Min(hits) \in hits
    BY <1>3, MinIs
  <1>5. Excluded(from, to) = IF hits = {} THEN 0 ELSE Min(hits)
    BY DEF Excluded, hits
  <1>6. QED
    BY <1>3, <1>4, <1>5

\* Every seller whose rung 2 moved is counted once.
LEMMA EachIsCountedOnce ==
    ASSUME NEW before, NEW after, NEW S, NEW T, NEW C, NEW D,
           TableOK(before, S, C), TableOK(after, T, D), IsFiniteSet(T)
    PROVE  LET counts == compute(before, after) IN
           /\ counts.appeared = Cardinality(T \ S)
           /\ counts.disappeared = Cardinality(S \ T)
           /\ counts.came_back + counts.went_dark
                + counts.excluded[1] + counts.excluded[2] + counts.excluded[3]
                  = Cardinality(Moved(before, after, 2))
  <1> DEFINE moved == Moved(before, after, 2)
             from(s) == before[<<s, 2>>].status
             to(s) == after[<<s, 2>>].status
             under(i) == {s \in moved : Excluded(from(s), to(s)) = i}
             back == {s \in moved : to(s) = "pass" /\ Excluded(from(s), to(s)) = 0}
             dark == {s \in moved : from(s) = "pass" /\ Excluded(from(s), to(s)) = 0}
             counts == compute(before, after)
  <1>1. SellersOf(before) = S /\ SellersOf(after) = T
    BY TableSellers
  <1>2. ASSUME NEW s \in moved PROVE s \in T /\ Excluded(from(s), to(s)) \in {1, 2, 3}
    <2>1. /\ s \in T /\ <<s, 2>> \in DOMAIN before /\ <<s, 2>> \in DOMAIN after
          /\ from(s) # to(s)
      BY <1>1, <1>2 DEF Moved
    <2>2. s \in S
      BY <2>1 DEF TableOK
    <2>3. from(s) \in Rung2 /\ to(s) \in Rung2
      BY <2>1, <2>2 DEF TableOK
    <2>4. QED
      BY <2>1, <2>3, ExcludedIs
  <1>3. /\ counts.appeared = Cardinality(T \ S) /\ counts.disappeared = Cardinality(S \ T)
        /\ counts.came_back = Cardinality(back) /\ counts.went_dark = Cardinality(dark)
        /\ counts.excluded[1] = Cardinality(under(1))
        /\ counts.excluded[2] = Cardinality(under(2))
        /\ counts.excluded[3] = Cardinality(under(3))
    BY <1>1 DEF compute
  <1> HIDE DEF counts
  <1>4. IsFiniteSet(moved)
    <2>1. moved \in SUBSET T
      BY <1>2
    <2> HIDE DEF moved
    <2>2. QED
      BY <2>1, FS_Subset
  <1> HIDE DEF moved
  <1>5. back = {} /\ dark = {}
    BY <1>2
  <1>6. /\ moved = (under(1) \cup under(2)) \cup under(3)
        /\ under(1) \cap under(2) = {} /\ (under(1) \cup under(2)) \cap under(3) = {}
    BY <1>2
  <1>7. IsFiniteSet(under(1)) /\ IsFiniteSet(under(2)) /\ IsFiniteSet(under(3))
    <2>1. \A i : under(i) \in SUBSET moved
      OBVIOUS
    <2> HIDE DEF under
    <2>2. QED
      BY <1>4, <2>1, FS_Subset
  <1> HIDE DEF under, back, dark
  <1>8. /\ IsFiniteSet(under(1) \cup under(2))
        /\ Cardinality(under(1) \cup under(2)) = Cardinality(under(1)) + Cardinality(under(2))
        /\ Cardinality(under(1)) \in Nat /\ Cardinality(under(2)) \in Nat
    BY <1>6, <1>7, DisjointUnion
  <1>9. /\ Cardinality(moved) = Cardinality(under(1) \cup under(2)) + Cardinality(under(3))
        /\ Cardinality(under(3)) \in Nat
    BY <1>6, <1>7, <1>8, DisjointUnion
  <1>10. Cardinality(back) = 0 /\ Cardinality(dark) = 0
    BY <1>5, FS_EmptySet
  <1>11. counts.came_back + counts.went_dark
           + counts.excluded[1] + counts.excluded[2] + counts.excluded[3] = Cardinality(moved)
    BY <1>3, <1>8, <1>9, <1>10
  <1>12. QED
    BY <1>3, <1>11 DEF counts, moved

\* A run that is finished stays so.
LEMMA FinishedStays ==
    ASSUME WholeInv, [Next]_vars, NEW w \in 1 .. week, run[w].status = "finished"
    PROVE  run'[w].status = "finished"
  <1>1. /\ week \in Nat /\ IsSeq(run, week) /\ (stage # "idle" => week \in 1 .. week)
        /\ stage = "close" => run[week].status = "running"
    BY DEF WholeInv, Tables, Crawling
  <1>2. CASE StartWeek
    <2>1. \E fresh : run' = Longer(run, fresh)
      BY <1>2 DEF StartWeek, Longer
    <2>2. QED
      BY <1>1, <2>1, Appended
  <1>3. CASE CloseRun
    <2>1. /\ \E closed : run' = Changed(run, week, closed)
          /\ w # week
      BY <1>1, <1>3 DEF CloseRun, Changed
    <2>2. QED
      BY <1>1, <2>1, Replaced
  <1>4. CASE StartProbe \/ EndSettle
    <2>1. run' = run \/ \E rungs : Attempts(rungs)
      BY <1>4 DEF StartProbe, EndSettle, Attempts
    <2>2. week \in 1 .. week
      BY <1>1, <1>4 DEF StartProbe, EndSettle
    <2>3. QED
      BY <2>1, <2>2, AttemptsKeeps
  <1>5. ASSUME NEW h \in DOMAIN lane, LaneStep(h) PROVE run' = run
    BY <1>5 DEF LaneStep
  <1>6. CASE FetchPage \/ WritePopulation \/ EndProbe \/ StartSettle \/ ScanWindow
             \/ WriteSettled \/ WriteDelta \/ Heartbeat \/ Crash \/ Resume \/ UNCHANGED vars
    BY <1>6 DEF FetchPage, WritePopulation, EndProbe, StartSettle, ScanWindow, WriteSettled,
       WriteDelta, Heartbeat, Crash, Resume, tables, vars
  <1>7. QED
    BY <1>2, <1>3, <1>4, <1>5, <1>6 DEF Next

Compared(w) == w \in pinged \/ (w = week /\ stage = "heartbeat")

\* A delta tells the catalogs of two finished sweeps apart, and once its sweep is compared
\* counts each seller whose rung 2 moved.
DeltaOK(w, d) ==
    LET counts == d.counts
        sellers(v) == DOMAIN Listed(v).sellers
    IN  /\ w \in 1 .. week /\ d.previous \in Previous(w)
        /\ counts.appeared = Cardinality(sellers(w) \ sellers(d.previous))
        /\ counts.disappeared = Cardinality(sellers(d.previous) \ sellers(w))
        /\ Compared(w) =>
               counts.came_back + counts.went_dark
                   + counts.excluded[1] + counts.excluded[2] + counts.excluded[3]
                   = Cardinality(Moved(rows[d.previous], rows[w], 2))

\* The rows, and what was compared of them.
DeltaInv == RowsInv /\ \A w \in DOMAIN deltas : DeltaOK(w, deltas[w])

\* A delta is of the rows and the catalogs as they stay.
LEMMA PastStands ==
    ASSUME RowsInv, [Next]_vars
    PROVE  /\ week \in Nat /\ week' \in {week, week + 1}
           /\ \A v \in 1 .. week : catalog'[v] = catalog[v]
           /\ \A v \in 1 .. week : v # week \/ Compared(v) => rows'[v] = rows[v]
           /\ \A v \in 1 .. week : run[v].status = "finished" => run'[v].status = "finished"
           /\ ~ WriteDelta => /\ deltas' = deltas
                              /\ \A v \in 1 .. week : Compared(v)' => Compared(v)
  <1>1. /\ week \in Nat /\ IsSeq(catalog, week) /\ IsSeq(rows, week)
        /\ stage # "idle" => week \in 1 .. week /\ week \notin pinged
        /\ pinged \subseteq 1 .. week
    BY DEF RowsInv, WholeInv, Tables, Rows, Crawling, Stages
  <1>2. \A v \in 1 .. week : run[v].status = "finished" => run'[v].status = "finished"
    BY FinishedStays DEF RowsInv
  <1>3. ASSUME UNCHANGED <<week, catalog, deltas, pinged>>, stage' # "heartbeat",
               stage \notin {"idle", "heartbeat"}, NEW table, rows' = Changed(rows, week, table)
        PROVE  /\ week' = week
               /\ \A v \in 1 .. week : catalog'[v] = catalog[v]
               /\ \A v \in 1 .. week : v # week \/ Compared(v) => rows'[v] = rows[v]
               /\ deltas' = deltas /\ \A v \in 1 .. week : Compared(v)' => Compared(v)
    <2>1. \A v \in 1 .. week : v # week => rows'[v] = rows[v]
      BY <1>1, <1>3, Replaced
    <2>2. \A v : Compared(v) => v # week
      BY <1>1, <1>3 DEF Compared
    <2>3. QED
      BY <1>3, <2>1, <2>2 DEF Compared
  <1>4. CASE StartWeek
    <2>1. PICK c \in Catalogs : catalog' = Longer(catalog, c)
      BY <1>4 DEF StartWeek, Longer
    <2>2. /\ rows' = Longer(rows, <<>>) /\ week' = week + 1 /\ UNCHANGED <<deltas, pinged>>
          /\ stage' = "crawl"
      BY <1>4 DEF StartWeek, Longer
    <2>3. \A v \in 1 .. week : catalog'[v] = catalog[v] /\ rows'[v] = rows[v]
      BY <1>1, <2>1, <2>2, Appended
    <2>4. \A v \in 1 .. week : Compared(v)' => Compared(v)
      BY <2>2 DEF Compared
    <2>5. QED
      BY <1>1, <1>2, <2>2, <2>3, <2>4
  <1>5. CASE WritePopulation
    <2>1. \E table : rows' = Changed(rows, week, table)
      BY <1>5 DEF WritePopulation, Changed
    <2>2. /\ UNCHANGED <<week, catalog, deltas, pinged>> /\ stage' # "heartbeat"
          /\ stage \notin {"idle", "heartbeat"}
      BY <1>5 DEF WritePopulation
    <2>3. QED
      BY <1>1, <1>2, <1>3, <2>1, <2>2
  <1>6. ASSUME NEW h \in DOMAIN lane, LaneStep(h)
        PROVE  /\ week' = week
               /\ \A v \in 1 .. week : catalog'[v] = catalog[v]
               /\ \A v \in 1 .. week : v # week \/ Compared(v) => rows'[v] = rows[v]
               /\ deltas' = deltas /\ \A v \in 1 .. week : Compared(v)' => Compared(v)
    <2>1. /\ UNCHANGED <<week, catalog, deltas, pinged>> /\ stage' = stage
          /\ stage = "probing"
          /\ LaneSteps(h) \/ LaneFails(h)
      BY <1>6 DEF LaneStep
    <2>2. \E table : Goes(h, table)
      BY <2>1, ProbingIs, OneLaneGoes
    <2>3. CASE rows' = rows
      BY <2>1, <2>3 DEF Compared
    <2>4. CASE \E table : rows' = Changed(rows, week, table)
      BY <1>3, <2>1, <2>4
    <2>5. QED
      BY <2>2, <2>3, <2>4 DEF Goes
  <1>7. CASE WriteSettled
    <2>1. \E table : rows' = Changed(rows, week, table)
      BY <1>7 DEF WriteSettled, Put, Changed
    <2>2. UNCHANGED <<week, catalog, deltas, pinged, stage>> /\ stage = "scanning"
      BY <1>7 DEF WriteSettled
    <2>3. QED
      BY <1>1, <1>2, <1>3, <2>1, <2>2
  <1>8. CASE WriteDelta
    BY <1>1, <1>2, <1>8 DEF WriteDelta
  <1>9. CASE Heartbeat
    <2>1. /\ UNCHANGED <<week, catalog, rows, deltas>> /\ stage = "heartbeat" /\ stage' = "idle"
          /\ pinged' \in {pinged, pinged \cup {week}}
      BY <1>9 DEF Heartbeat, tables
    <2>2. \A v \in 1 .. week : Compared(v)' => Compared(v)
      BY <2>1 DEF Compared
    <2>3. QED
      BY <1>1, <1>2, <2>1, <2>2
  <1>10. CASE FetchPage \/ CloseRun \/ StartProbe \/ EndProbe \/ StartSettle \/ ScanWindow
             \/ EndSettle \/ Crash \/ Resume \/ UNCHANGED vars
    <2>1. /\ UNCHANGED <<week, catalog, rows, deltas, pinged>>
          /\ stage' = stage \/ stage' # "heartbeat"
      BY <1>10 DEF FetchPage, PageCap, PageRead, PageLost, CloseRun, StartProbe, EndProbe,
            StartSettle, ScanWindow, EndSettle, Crash, Halt, Resume, tables, vars
    <2>2. \A v \in 1 .. week : Compared(v)' => Compared(v)
      BY <2>1 DEF Compared
    <2>3. QED
      BY <1>1, <1>2, <2>1, <2>2
  <1>11. QED
    BY <1>1, <1>2, <1>4, <1>5, <1>6, <1>7, <1>8, <1>9, <1>10 DEF Next

LEMMA WriteDeltaIs ==
    ASSUME DeltaInv, WriteDelta, NEW w, w \in DOMAIN deltas' PROVE DeltaOK(w, deltas[w])'
  <1>1. /\ UNCHANGED <<week, catalog, run, population, rows, pinged>>
        /\ stage = "delta" /\ stage' = "heartbeat" /\ week \in Nat /\ week \in 1 .. week
        /\ run[week].status = "finished" /\ week \notin pinged
    BY DEF WriteDelta, DeltaInv, RowsInv, WholeInv, Tables, Crawling, Stages, Late
  <1>2. \A v : Listed(v)' = Listed(v) /\ Previous(v)' = Previous(v)
    BY <1>1 DEF Listed, Previous
  <1>3. CASE w # week \/ Previous(week) = {}
    <2>1. w \in DOMAIN deltas /\ deltas'[w] = deltas[w]
      BY <1>3 DEF WriteDelta, Upserted
    <2>2. DeltaOK(w, deltas[w])
      BY <2>1 DEF DeltaInv
    <2>3. w # week
      BY <1>3, <2>2 DEF DeltaOK
    <2>a. Compared(w)' => Compared(w)
      BY <1>1, <2>3 DEF Compared
    <2>4. QED
      BY <1>1, <1>2, <2>1, <2>2, <2>a DEF DeltaOK
  <1>4. CASE w = week /\ Previous(week) # {}
    <2>a. PICK v : v = Max(Previous(week))
      OBVIOUS
    <2> DEFINE counts == compute(rows[v], rows[week])
    <2>1. deltas'[week].previous = v /\ deltas'[week].counts = counts
      BY <1>4, <2>a DEF WriteDelta, Upserted
    <2>2. v \in Previous(week)
      <3>1. Previous(week) \in SUBSET (1 .. week - 1) /\ Previous(week) \in SUBSET Int
        BY <1>1 DEF Previous
      <3>2. IsFiniteSet(1 .. week - 1)
        BY <1>1, FS_Interval
      <3>3. IsFiniteSet(Previous(week))
        BY <3>1, <3>2, FS_Subset
      <3>4. QED
        BY <1>4, <2>a, <3>1, <3>3, MaxIs
    <2>3. v \in 1 .. week /\ v # week /\ run[v].status = "finished"
      BY <1>1, <2>2 DEF Previous
    <2>4. /\ TableOK(rows[v], Sellers(v), Claimed(v))
          /\ TableOK(rows[week], Sellers(week), Claimed(week))
      BY <1>1, <2>3 DEF DeltaInv, RowsInv, Rows
    <2>5. /\ Census(week) /\ Sellers(week) = DOMAIN Listed(week).sellers
          /\ Sellers(v) = DOMAIN Listed(v).sellers
      BY <1>1, <2>3, CensusIs DEF DeltaInv, RowsInv
    <2> HIDE DEF counts
    <2>6. /\ counts.appeared = Cardinality(Sellers(week) \ Sellers(v))
          /\ counts.disappeared = Cardinality(Sellers(v) \ Sellers(week))
          /\ counts.came_back + counts.went_dark
               + counts.excluded[1] + counts.excluded[2] + counts.excluded[3]
                 = Cardinality(Moved(rows[v], rows[week], 2))
      <3>1. IsFiniteSet(Sellers(week))
        BY <2>5 DEF Census
      <3>2. QED
        BY <2>4, <3>1, EachIsCountedOnce DEF counts
    <2>7. Listed(week)' = Listed(week) /\ Listed(v)' = Listed(v) /\ v \in Previous(week)'
      <3>1. Previous(week)' = Previous(week)
        BY <1>1 DEF Previous
      <3>2. QED
        BY <1>1, <1>2, <2>2, <3>1
    <2>8. deltas[week]'.previous = v /\ deltas[week]'.counts = counts
      BY <1>1, <2>1
    <2>9. DeltaOK(week, deltas[week])'
      BY <1>1, <2>5, <2>6, <2>7, <2>8 DEF DeltaOK
    <2>10. QED
      BY <1>1, <1>4, <2>9
  <1>5. QED
    BY <1>3, <1>4

\* A sweep is compared with a finished one, so what it reports as appeared and
\* disappeared is what the two catalogs differ in, never what a crawl of ours
\* failed to read; and every seller whose rung 2 moved is counted once.
THEOREM DeltasAreOfTheWorld == Spec => []DeltaIsTheWorlds
  <1>1. Init => DeltaInv
    BY RowsInit DEF Init, DeltaInv
  <1>2. ASSUME DeltaInv, [Next]_vars PROVE DeltaInv'
    <2>1. RowsInv'
      BY <1>2, RowsStep DEF DeltaInv
    <2>2. CASE WriteDelta
      BY <1>2, <2>1, <2>2, WriteDeltaIs DEF DeltaInv
    <2>3. CASE ~ WriteDelta
      <3>1. /\ week \in Nat /\ week' \in {week, week + 1} /\ deltas' = deltas
            /\ \A v \in 1 .. week : catalog'[v] = catalog[v]
            /\ \A v \in 1 .. week : v # week \/ Compared(v) => rows'[v] = rows[v]
            /\ \A v \in 1 .. week : Compared(v)' => Compared(v)
            /\ \A v \in 1 .. week : run[v].status = "finished" => run'[v].status = "finished"
        BY <1>2, <2>3, PastStands DEF DeltaInv
      <3>2. ASSUME NEW w \in DOMAIN deltas PROVE DeltaOK(w, deltas[w])'
        <4>1. DeltaOK(w, deltas[w])
          BY <1>2 DEF DeltaInv
        <4>2. PICK p : p = deltas[w].previous
          OBVIOUS
        <4>3. w \in 1 .. week /\ p \in 1 .. w - 1 /\ p \in Previous(w)
          BY <4>1, <4>2 DEF DeltaOK, Previous
        <4>4. w \in 1 .. week' /\ p \in 1 .. week /\ p # week
          BY <3>1, <4>3
        <4>5. Listed(w)' = Listed(w) /\ Listed(p)' = Listed(p)
          BY <3>1, <4>3, <4>4 DEF Listed
        <4>6. Compared(w)' => Compared(w) /\ rows'[w] = rows[w] /\ rows'[p] = rows[p]
          BY <3>1, <4>3, <4>4
        <4>7. p \in Previous(w)'
          BY <3>1, <4>3, <4>4 DEF Previous
        <4>8. QED
          BY <3>1, <4>1, <4>2, <4>4, <4>5, <4>6, <4>7 DEF DeltaOK
      <3>3. QED
        BY <2>1, <3>1, <3>2 DEF DeltaInv
    <2>4. QED
      BY <2>2, <2>3
  <1>3. DeltaInv => DeltaIsTheWorlds
    BY DEF DeltaInv, DeltaOK, DeltaIsTheWorlds, Compared
  <1>4. QED
    BY <1>1, <1>2, <1>3, PTL DEF Spec
=============================================================================
