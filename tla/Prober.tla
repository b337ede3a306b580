------------------------------- MODULE Prober -------------------------------
(***************************************************************************)
(* The one HTTP client of a sweep: crates/probe/src/{fetch,robots}.rs.     *)
(*                                                                         *)
(* Workers fetch documents concurrently.  A fetch asks the robots.txt of   *)
(* its origin first (fetched once per origin and shared), follows          *)
(* redirects, and sends every request, robots.txt included, through        *)
(* guarded_send: a permit of the host, a slot in the host's cadence, a     *)
(* global permit, and then the exchange, which an origin may end with      *)
(* Retry-After.  Both semaphores are fair.                                 *)
(*                                                                         *)
(* Time is discrete; a timer is the time it still has to run, so an        *)
(* Instant in the past is 0.  A gateway chain for ipfs:// is one worker    *)
(* that fetches several times.                                             *)
(***************************************************************************)
EXTENDS Integers, FiniteSets, Sequences

CONSTANTS
    Workers,             \* the tasks that fetch
    Hosts,
    PerHostCap,          \* PER_HOST_CAP
    GlobalCap,           \* global_concurrency()
    HostDelay,           \* host_delay(); 0 is no cadence
    RetryAfters,         \* the values origins send
    MaxRetryAfter,       \* MAX_HONOURED_RETRY_AFTER
    TotalTimeout,        \* total_timeout
    MaxRedirects,        \* MAX_REDIRECTS
    MaxRobotsRedirects   \* MAX_ROBOTS_REDIRECTS

ASSUME ProberAssumption ==
    /\ IsFiniteSet(Workers)
    /\ {PerHostCap, GlobalCap, TotalTimeout} \subseteq Nat \ {0}
    /\ {HostDelay, MaxRetryAfter, MaxRedirects, MaxRobotsRedirects} \subseteq Nat
    /\ RetryAfters \subseteq Nat

VARIABLES
    pc,         \* of each worker: where it is
    asking,     \* is the request in hand for the document or for robots.txt?
    origin,     \* the host the fetch set out for
    url,        \* the host of the current hop
    hop,        \* how many redirects were followed
    wait,       \* time to sleep until the claimed slot, or the exchange's timeout
    rules,      \* of each host: its entry of the robots cache
    queue,      \* the workers waiting for a permit of the host, first come first served
    nextStart,  \* next_start
    gqueue,     \* the workers waiting for a global permit, first come first served
    recent,     \* how many requests started at most 0, 1, ... units ago (history)
    quiet,      \* how long the host asked us to stay away, from now (history)
    ahead,      \* workers that had a slot already when the host asked (history)
    waited      \* how long a worker has waited for a global permit (history)

fetchVars == <<asking, origin, url, hop>>
laneVars  == <<queue, nextStart>>
history   == <<recent, quiet, ahead, waited>>
vars      == <<pc, fetchVars, wait, rules, laneVars, gqueue, history>>

Places == {"idle", "robots", "queued", "slot", "global", "flight"}
Rules  == {"unknown", "fetching", "open", "restricted", "unavailable"}
None   == "none"
Larger(m, n) == IF m > n THEN m ELSE n

TypeOK ==
    /\ pc \in [Workers -> Places]
    /\ asking \in [Workers -> {"document", "robots"}]
    /\ origin \in [Workers -> Hosts \cup {None}]
    /\ url \in [Workers -> Hosts \cup {None}]
    /\ hop \in [Workers -> 0 .. Larger(MaxRedirects, MaxRobotsRedirects)]
    /\ wait \in [Workers -> Nat]
    /\ rules \in [Hosts -> Rules]
    /\ queue \in [Hosts -> Seq(Workers)]
    /\ nextStart \in [Hosts -> Nat]
    /\ gqueue \in Seq(Workers)
    /\ recent \in [Hosts -> [0 .. HostDelay - 1 -> Nat]]
    /\ quiet \in [Hosts -> 0 .. MaxRetryAfter]
    /\ ahead \in SUBSET Workers
    /\ waited \in [Workers -> Nat]

Init ==
    /\ pc = [w \in Workers |-> "idle"]
    /\ asking = [w \in Workers |-> "document"]
    /\ origin = [w \in Workers |-> None] /\ url = origin
    /\ hop = [w \in Workers |-> 0]
    /\ wait = hop /\ waited = hop
    /\ rules = [h \in Hosts |-> "unknown"]
    /\ queue = [h \in Hosts |-> <<>>]
    /\ gqueue = <<>>
    /\ nextStart = [h \in Hosts |-> 0]
    /\ quiet = nextStart
    /\ recent = [h \in Hosts |-> [age \in 0 .. HostDelay - 1 |-> 0]]
    /\ ahead = {}

Goto(w, place) == pc' = [pc EXCEPT ![w] = place]

-----------------------------------------------------------------------------
(* fetch_http and check_robots.                                            *)

\* A fetch whose first hop netguard lets pass; any other is over at once.
Fetch(w) ==
    /\ pc[w] = "idle"
    /\ \E h \in Hosts :
         /\ origin' = [origin EXCEPT ![w] = h]
         /\ url' = [url EXCEPT ![w] = h]
    /\ Goto(w, "robots")
    /\ UNCHANGED <<asking, hop, wait, rules, laneVars, gqueue, history>>

\* The fetch is over: fetch_http returns an outcome, whatever it is.
Return(w) ==
    /\ origin' = [origin EXCEPT ![w] = None]
    /\ url' = [url EXCEPT ![w] = None]
    /\ hop' = [hop EXCEPT ![w] = 0]
    /\ Goto(w, "idle")
    /\ UNCHANGED <<asking, rules>>

\* The OnceCell of the origin is set; its worker goes on with its document.
Learn(w, r) ==
    /\ rules' = [rules EXCEPT ![origin[w]] = r]
    /\ asking' = [asking EXCEPT ![w] = "document"]
    /\ url' = [url EXCEPT ![w] = origin[w]]
    /\ hop' = [hop EXCEPT ![w] = 0]
    /\ Goto(w, "robots")
    /\ UNCHANGED origin

\* guarded_send begins: wait for a permit of the host.
Enqueue(w, h) ==
    /\ Goto(w, "queued")
    /\ queue' = [queue EXCEPT ![h] = Append(@, w)]

\* get_or_init: the first worker fetches the rules, the others wait for them.
FetchRobots(w) ==
    /\ pc[w] = "robots"
    /\ rules[url[w]] = "unknown"
    /\ rules' = [rules EXCEPT ![url[w]] = "fetching"]
    /\ asking' = [asking EXCEPT ![w] = "robots"]
    /\ Enqueue(w, url[w])
    /\ UNCHANGED <<origin, url, hop, wait, nextStart, gqueue, history>>

\* netguard refuses the first hop of robots.txt.
RobotsBlocked(w) ==
    /\ pc[w] = "robots"
    /\ rules[url[w]] = "unknown"
    /\ Learn(w, "unavailable")
    /\ UNCHANGED <<wait, laneVars, gqueue, history>>

\* apply_rules; a restricted host may allow the path or not.
Permitted(w) ==
    /\ pc[w] = "robots"
    /\ rules[url[w]] \in {"open", "restricted"}
    /\ Enqueue(w, url[w])
    /\ UNCHANGED <<fetchVars, wait, rules, nextStart, gqueue, history>>

Refused(w) ==
    /\ pc[w] = "robots"
    /\ rules[url[w]] \in {"restricted", "unavailable"}
    /\ Return(w)
    /\ UNCHANGED <<wait, laneVars, gqueue, history>>
-----------------------------------------------------------------------------
(* guarded_send.                                                           *)

Holders(h) == {w \in Workers : url[w] = h /\ pc[w] \in {"slot", "global", "flight"}}

\* Mutant: the global permit is taken before the slot, and kept while sleeping.
InFlight_or_asleep == {w \in Workers : pc[w] \in {"slot", "flight"}}

\* Who holds a global permit.
InFlight == {w \in Workers : pc[w] = "flight"}

MayClaim(w) ==
    /\ pc[w] = "queued"
    /\ queue[url[w]] # <<>>
    /\ Head(queue[url[w]]) = w
    /\ Cardinality(Holders(url[w])) < PerHostCap

\* Mutant: the next slot is counted from now, not from the slot that was claimed.
ClaimNextStart_from_now(w) ==
    /\ wait' = [wait EXCEPT ![w] = nextStart[url[w]]]
    /\ nextStart' = [nextStart EXCEPT ![url[w]] = HostDelay]

\* claim_next_start: max(now, next_start) is this worker's, and the next slot is
\* a delay later.
ClaimNextStart(w) ==
    /\ wait' = [wait EXCEPT ![w] = nextStart[url[w]]]
    /\ nextStart' = [nextStart EXCEPT ![url[w]] = @ + HostDelay]

\* A permit of the host, and a slot in its cadence.
ClaimSlot(w) ==
    /\ MayClaim(w)
    /\ ClaimNextStart(w)
    /\ queue' = [queue EXCEPT ![url[w]] = Tail(@)]
    /\ Goto(w, "slot")
    /\ UNCHANGED <<fetchVars, rules, gqueue, history>>

Awake(w) == pc[w] = "slot" /\ wait[w] = 0

\* The slot has come: now for a global permit.
Wake(w) ==
    /\ Awake(w)
    /\ gqueue' = Append(gqueue, w)
    /\ Goto(w, "global")
    /\ UNCHANGED <<fetchVars, wait, rules, laneVars, history>>

MayDial(w) ==
    /\ pc[w] = "global"
    /\ gqueue # <<>>
    /\ Head(gqueue) = w
    /\ Cardinality(InFlight) < GlobalCap

\* The request is sent; the timeout begins here.
Dial(w) ==
    /\ MayDial(w)
    /\ gqueue' = Tail(gqueue)
    /\ wait' = [wait EXCEPT ![w] = TotalTimeout]
    /\ recent' = [recent EXCEPT ![url[w]] = [age \in 0 .. HostDelay - 1 |-> @[age] + 1]]
    /\ waited' = [waited EXCEPT ![w] = 0]
    /\ ahead' = ahead \ {w}
    /\ Goto(w, "flight")
    /\ UNCHANGED <<fetchVars, rules, laneVars, quiet>>

\* Mutant: back_off sets the next start instead of raising it.
BackOff_sets(h, backoff) ==
    nextStart' = [nextStart EXCEPT ![h] = backoff]

\* back_off: never shortens a wait.
BackOff(h, backoff) ==
    nextStart' = [nextStart EXCEPT ![h] = Larger(@, backoff)]

\* A 429 or 503 with Retry-After, honoured before the permits are given back.
RetryAfter(w) ==
    \E secs \in RetryAfters :
        LET h == url[w]
            backoff == IF secs < MaxRetryAfter THEN secs ELSE MaxRetryAfter
        IN  /\ BackOff(h, backoff)
            /\ quiet' = [quiet EXCEPT ![h] = Larger(@, backoff)]
            /\ ahead' = ahead \cup {v \in Holders(h) : pc[v] # "flight"}
            /\ UNCHANGED <<recent, waited>>

NoRetryAfter == UNCHANGED <<nextStart, history>>

MaxHops(w) == IF asking[w] = "robots" THEN MaxRobotsRedirects ELSE MaxRedirects

\* The exchange is over: the timeout is disarmed, the permits are given back.
Exchanged(w) ==
    /\ pc[w] = "flight"
    /\ wait' = [wait EXCEPT ![w] = 0]
    /\ UNCHANGED gqueue

\* A 3xx that is followed to a host that netguard lets pass.
Redirected(w) ==
    /\ Exchanged(w)
    /\ hop[w] < MaxHops(w)
    /\ \E h \in Hosts : url' = [url EXCEPT ![w] = h] /\ Enqueue(w, h)
    /\ hop' = [hop EXCEPT ![w] = @ + 1]
    /\ NoRetryAfter
    /\ UNCHANGED <<asking, origin, rules>>

\* The document's last answer, or none: the connection fails, the timeout
\* strikes, netguard refuses the next hop.
Answered(w) ==
    /\ Exchanged(w)
    /\ asking[w] = "document"
    /\ Return(w)
    /\ RetryAfter(w) \/ NoRetryAfter
    /\ UNCHANGED queue

\* Mutant: a robots.txt that cannot be had leaves the cell as it is.
RobotsAnswered_forgets(w) ==
    /\ Exchanged(w)
    /\ asking[w] = "robots"
    /\ \/ Learn(w, "restricted") \/ Learn(w, "open")
       \/ Return(w)
    /\ NoRetryAfter
    /\ UNCHANGED queue

\* robots.txt: a 2xx restricts, a 4xx (429 too) does not, the rest, a failure
\* included, is unavailable.
RobotsAnswered(w) ==
    /\ Exchanged(w)
    /\ asking[w] = "robots"
    /\ \/ Learn(w, "restricted") /\ NoRetryAfter
       \/ /\ Learn(w, "open") \/ Learn(w, "unavailable")
          /\ RetryAfter(w) \/ NoRetryAfter
    /\ UNCHANGED queue
-----------------------------------------------------------------------------
\* Sleeps, permits and timeouts are punctual.
Urgent ==
    \E w \in Workers :
        Awake(w) \/ MayClaim(w) \/ MayDial(w) \/ (pc[w] = "flight" /\ wait[w] = 0)

Less(n) == IF n > 0 THEN n - 1 ELSE 0

Tick ==
    /\ ~Urgent
    /\ wait' = [w \in Workers |-> Less(wait[w])]
    /\ nextStart' = [h \in Hosts |-> Less(nextStart[h])]
    /\ quiet' = [h \in Hosts |-> Less(quiet[h])]
    /\ recent' = [h \in Hosts |-> [age \in 0 .. HostDelay - 1 |->
                                      IF age = 0 THEN 0 ELSE recent[h][age - 1]]]
    /\ waited' = [w \in Workers |-> IF pc[w] = "global" THEN waited[w] + 1 ELSE 0]
    /\ UNCHANGED <<pc, fetchVars, rules, queue, gqueue, ahead>>

Continue(w) ==
    \/ FetchRobots(w) \/ RobotsBlocked(w) \/ Permitted(w) \/ Refused(w)
    \/ ClaimSlot(w) \/ Wake(w) \/ Dial(w)
    \/ Redirected(w) \/ Answered(w) \/ RobotsAnswered(w)

Next ==
    \/ \E w \in Workers : Fetch(w) \/ Continue(w)
    \/ Tick

Spec == Init /\ [][Next]_vars
-----------------------------------------------------------------------------
(* What the prober promises.                                               *)

\* "every waiting task takes a distinct, already-reserved slot rather than
\* racing for the same one" (fetch.rs:744): slots of one host are a delay apart,
\* and so is the next one from all of them.
SlotsApart ==
    \A v \in Workers :
        pc[v] = "slot" =>
            /\ wait[v] + HostDelay <= nextStart[url[v]]
            /\ \A w \in Workers \ {v} :
                   pc[w] = "slot" /\ url[w] = url[v]
                       => wait[v] >= wait[w] + HostDelay \/ wait[w] >= wait[v] + HostDelay

\* "so it is in force for every request still queued behind this one on the same
\* host" (fetch.rs:801): while a host wants to be left alone, the only requests
\* it sees are those that had a slot before it asked.
QuietIsKept ==
    [][\A w \in Workers :
          pc[w] = "global" /\ pc'[w] = "flight" /\ quiet[url[w]] > 0 => w \in ahead]_vars

\* What makes the two inductive: the next slot of a host is never within its quiet
\* time, nor is one claimed since it asked.
QuietInv ==
    /\ \A h \in Hosts : quiet[h] <= nextStart[h]
    /\ \A w \in Workers \ ahead :
          /\ pc[w] = "slot" => quiet[url[w]] <= wait[w]
          /\ pc[w] = "global" => quiet[url[w]] = 0

\* How many requests to the host started less than a delay ago.
Started(h) == IF HostDelay = 0 THEN 0 ELSE recent[h][HostDelay - 1]

\* However long its workers waited for global permits, a host sees at most one
\* request more than its permits within a delay.
BurstBounded == \A h \in Hosts : Started(h) <= PerHostCap + 1

\* "would let one rate-limited host throttle the whole sweep instead of only
\* itself" (fetch.rs:731), which must not be: once its slot has come, a worker
\* waits for exchanges only, each of them bounded by the timeout, and never for
\* somebody's sleep.
GlobalWaitBounded ==
    \A w \in Workers : waited[w] <= TotalTimeout * (Cardinality(Workers) - 1)

\* "concurrent first-lookups for the same origin share one fetch" (robots.rs:104):
\* one worker at most asks for the rules of an origin, and they never change.
RobotsOnce ==
    /\ \A v, w \in Workers :
          asking[v] = "robots" /\ asking[w] = "robots" /\ origin[v] = origin[w] => v = w
    /\ \A h \in Hosts :
          rules[h] = "fetching" <=> \E w \in Workers : asking[w] = "robots" /\ origin[w] = h

\* Where a worker is tells what it has in hand.
Placed ==
    \A w \in Workers :
        /\ pc[w] # "idle" => origin[w] \in Hosts /\ url[w] \in Hosts
        /\ pc[w] \in {"idle", "robots"} => asking[w] = "document"
        /\ pc[w] = "robots" => url[w] = origin[w]

\* s lists the members of S, each of them once.
Lists(s, S) ==
    /\ s \in Seq(Workers)
    /\ \A i \in 1 .. Len(s) : s[i] \in S
    /\ \A w \in S : \E i \in 1 .. Len(s) : s[i] = w
    /\ \A i, j \in 1 .. Len(s) : s[i] = s[j] => i = j

QueuedAt(h) == {w \in Workers : pc[w] = "queued" /\ url[w] = h}
Waiting == {w \in Workers : pc[w] = "global"}

\* Those who wait for a permit are in its queue, and nobody else is.
HostLines == queue \in [Hosts -> Seq(Workers)] /\ \A h \in Hosts : Lists(queue[h], QueuedAt(h))
GlobalLine == Lists(gqueue, Waiting)

\* A worker waits only for what somebody is about to give: the permits of the
\* host, the global ones and the rules of an origin are never all held by workers
\* that wait for each other.
NobodyStuck ==
    (\E w \in Workers : pc[w] # "idle") =>
        \E w \in Workers :
            \/ pc[w] = "flight"
            \/ pc[w] = "slot"
            \/ MayClaim(w) \/ MayDial(w)
            \/ pc[w] = "robots" /\ rules[url[w]] # "fetching"

\* What a host and a worker have to bear is bounded, however full the sweep is.
LoadBounded == BurstBounded /\ GlobalWaitBounded

\* Nobody asks twice for the rules of an origin, and nobody waits for ever.
NobodyWaitsInVain == RobotsOnce /\ NobodyStuck
=============================================================================
