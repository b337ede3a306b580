---------------------------- MODULE Prober_proofs ----------------------------
(***************************************************************************)
(* What is proved of Prober, for any number of workers and hosts and any   *)
(* limits: the slots of a host stay apart, a Retry-After is kept, the      *)
(* rules of an origin are asked for once, nobody waits in a circle, and    *)
(* what a host sees and a worker waits is bounded.                         *)
(*                                                                         *)
(* Seven invariants, each kept by every step: Timed (types and places),    *)
(* SlotsApart, QuietInv, RobotsOnce, the lists of those who wait, BurstInv *)
(* and WaitInv; one lemma for each, with one step per action.              *)
(***************************************************************************)
EXTENDS Prober, FiniteSetTheorems, TLAPS
USE ProberAssumption DEF vars, fetchVars, laneVars, history, Goto

\* The part of TypeOK that the proofs need, with Placed.
Timed ==
    /\ pc \in [Workers -> Places]
    /\ asking \in [Workers -> {"document", "robots"}]
    /\ origin \in [Workers -> Hosts \cup {None}]
    /\ url \in [Workers -> Hosts \cup {None}]
    /\ wait \in [Workers -> Nat]
    /\ rules \in [Hosts -> Rules]
    /\ nextStart \in [Hosts -> Nat]
    /\ quiet \in [Hosts -> Nat]
    /\ ahead \in SUBSET Workers
    /\ Placed

\* The later of two instants.
LEMMA LargerNat ==
    ASSUME NEW m \in Nat, NEW n \in Nat
    PROVE  Larger(m, n) \in Nat /\ m <= Larger(m, n) /\ n <= Larger(m, n)
  BY DEF Larger

\* What a Retry-After of h does to its cadence.
BackedOff(w, h) ==
    \E b \in Nat :
        /\ nextStart' = [nextStart EXCEPT ![h] = Larger(nextStart[h], b)]
        /\ quiet' = [quiet EXCEPT ![h] = Larger(quiet[h], b)]
        /\ ahead' = ahead \cup {v \in Holders(h) : pc[v] # "flight"}

\* RetryAfter does that, with whatever the host asked for, cut to the maximum.
LEMMA Answer ==
    ASSUME Timed, NEW w \in Workers, url[w] \in Hosts, RetryAfter(w)
    PROVE  BackedOff(w, url[w])
<1>1. PICK secs \in RetryAfters :
        LET backoff == IF secs < MaxRetryAfter THEN secs ELSE MaxRetryAfter
        IN  /\ BackOff(url[w], backoff)
            /\ quiet' = [quiet EXCEPT ![url[w]] = Larger(@, backoff)]
            /\ ahead' = ahead \cup {v \in Holders(url[w]) : pc[v] # "flight"}
            /\ UNCHANGED <<recent, waited>>
  BY DEF RetryAfter
<1> DEFINE b == IF secs < MaxRetryAfter THEN secs ELSE MaxRetryAfter
<1>2. b \in Nat
  BY DEF b
<1>3. nextStart' = [nextStart EXCEPT ![url[w]] = Larger(nextStart[url[w]], b)]
  BY <1>1 DEF BackOff, Timed, b
<1>4. quiet' = [quiet EXCEPT ![url[w]] = Larger(quiet[url[w]], b)]
  BY <1>1 DEF Timed, b
<1>5. ahead' = ahead \cup {v \in Holders(url[w]) : pc[v] # "flight"}
  BY <1>1
<1> HIDE DEF b
<1> QED
  BY <1>2, <1>3, <1>4, <1>5 DEF BackedOff

\* It keeps the types.
LEMMA BackedOffTyped ==
    ASSUME Timed, NEW w \in Workers, url[w] \in Hosts, BackedOff(w, url[w])
    PROVE  /\ nextStart' \in [Hosts -> Nat]
           /\ quiet' \in [Hosts -> Nat]
           /\ ahead' \in SUBSET Workers
<1>1. PICK b \in Nat :
        /\ nextStart' = [nextStart EXCEPT ![url[w]] = Larger(nextStart[url[w]], b)]
        /\ quiet' = [quiet EXCEPT ![url[w]] = Larger(quiet[url[w]], b)]
        /\ ahead' = ahead \cup {v \in Holders(url[w]) : pc[v] # "flight"}
  BY DEF BackedOff
<1>2. nextStart[url[w]] \in Nat /\ quiet[url[w]] \in Nat
  BY DEF Timed
<1>3. Larger(nextStart[url[w]], b) \in Nat /\ Larger(quiet[url[w]], b) \in Nat
  BY <1>2, LargerNat
<1> QED
  BY <1>1, <1>3 DEF Timed, Holders

\* Every step keeps the types, whoever takes it.
LEMMA TimedStep == ASSUME Timed, [Next]_vars PROVE Timed'
<1> USE DEF Timed, Placed, Places, Rules, None
<1>1. ASSUME NEW w \in Workers, Fetch(w) PROVE Timed'
  BY <1>1 DEF Fetch
<1>2. ASSUME NEW w \in Workers, FetchRobots(w) PROVE Timed'
  BY <1>2 DEF FetchRobots, Enqueue
<1>3. ASSUME NEW w \in Workers, RobotsBlocked(w) PROVE Timed'
  BY <1>3 DEF RobotsBlocked, Learn
<1>4. ASSUME NEW w \in Workers, Permitted(w) PROVE Timed'
  BY <1>4 DEF Permitted, Enqueue
<1>5. ASSUME NEW w \in Workers, Refused(w) PROVE Timed'
  BY <1>5 DEF Refused, Return
<1>6. ASSUME NEW w \in Workers, ClaimSlot(w) PROVE Timed'
  BY <1>6, SMTT(20) DEF ClaimSlot, MayClaim, ClaimNextStart
<1>7. ASSUME NEW w \in Workers, Wake(w) PROVE Timed'
  BY <1>7 DEF Wake, Awake
<1>8. ASSUME NEW w \in Workers, Dial(w) PROVE Timed'
  BY <1>8 DEF Dial, MayDial
<1>9. ASSUME NEW w \in Workers, Redirected(w) PROVE Timed'
  BY <1>9 DEF Redirected, Exchanged, Enqueue, NoRetryAfter
<1>10. ASSUME NEW w \in Workers, Answered(w) PROVE Timed'
  <2>1. pc[w] = "flight" /\ url[w] \in Hosts /\ origin[w] \in Hosts
    BY <1>10 DEF Answered, Exchanged
  <2>2. /\ nextStart' \in [Hosts -> Nat]
        /\ quiet' \in [Hosts -> Nat]
        /\ ahead' \in SUBSET Workers
    <3>1. CASE RetryAfter(w)
      BY <2>1, <3>1, Answer, BackedOffTyped
    <3>2. CASE NoRetryAfter
      BY <3>2 DEF NoRetryAfter
    <3> QED
      BY <1>10, <3>1, <3>2 DEF Answered
  <2> QED
    BY <1>10, <2>1, <2>2 DEF Answered, Exchanged, Return
<1>11. ASSUME NEW w \in Workers, RobotsAnswered(w) PROVE Timed'
  <2>1. pc[w] = "flight" /\ url[w] \in Hosts /\ origin[w] \in Hosts
    BY <1>11 DEF RobotsAnswered, Exchanged
  <2>2. /\ nextStart' \in [Hosts -> Nat]
        /\ quiet' \in [Hosts -> Nat]
        /\ ahead' \in SUBSET Workers
    <3>1. CASE RetryAfter(w)
      BY <2>1, <3>1, Answer, BackedOffTyped
    <3>2. CASE NoRetryAfter
      BY <3>2 DEF NoRetryAfter
    <3> QED
      BY <1>11, <3>1, <3>2 DEF RobotsAnswered
  <2> QED
    BY <1>11, <2>1, <2>2 DEF RobotsAnswered, Exchanged, Learn
<1>12. ASSUME Tick PROVE Timed'
  BY <1>12 DEF Tick, Less
<1>13. ASSUME UNCHANGED vars PROVE Timed'
  BY <1>13
<1> QED
  BY <1>1, <1>2, <1>3, <1>4, <1>5, <1>6, <1>7, <1>8, <1>9, <1>10, <1>11, <1>12, <1>13
  DEF Next, Continue

\* Every step keeps the slots of a host apart.
LEMMA SlotsStep == ASSUME Timed, SlotsApart, [Next]_vars PROVE SlotsApart'
<1> USE DEF Timed, Placed, Places, Rules, None, SlotsApart
<1>1. ASSUME NEW w \in Workers, Fetch(w) PROVE SlotsApart'
  BY <1>1 DEF Fetch
<1>2. ASSUME NEW w \in Workers, FetchRobots(w) PROVE SlotsApart'
  BY <1>2 DEF FetchRobots, Enqueue
<1>3. ASSUME NEW w \in Workers, RobotsBlocked(w) PROVE SlotsApart'
  BY <1>3 DEF RobotsBlocked, Learn
<1>4. ASSUME NEW w \in Workers, Permitted(w) PROVE SlotsApart'
  BY <1>4 DEF Permitted, Enqueue
<1>5. ASSUME NEW w \in Workers, Refused(w) PROVE SlotsApart'
  BY <1>5 DEF Refused, Return
<1>6. ASSUME NEW w \in Workers, ClaimSlot(w) PROVE SlotsApart'
  <2>1. /\ pc[w] = "queued" /\ url[w] \in Hosts /\ url' = url
        /\ pc' = [pc EXCEPT ![w] = "slot"]
        /\ wait' = [wait EXCEPT ![w] = nextStart[url[w]]]
        /\ nextStart' = [nextStart EXCEPT ![url[w]] = nextStart[url[w]] + HostDelay]
    BY <1>6 DEF ClaimSlot, MayClaim, ClaimNextStart
  <2>2. HostDelay \in Nat /\ nextStart[url[w]] \in Nat
    BY <2>1
  <2>3. \A v \in Workers \ {w} : pc'[v] = "slot" => pc[v] = "slot" /\ wait'[v] = wait[v]
    BY <2>1
  <2>4. pc'[w] = "slot" /\ wait'[w] = nextStart[url[w]]
    BY <2>1
  <2>5. nextStart'[url[w]] = nextStart[url[w]] + HostDelay
    BY <2>1
  <2>6. \A h \in Hosts \ {url[w]} : nextStart'[h] = nextStart[h]
    BY <2>1
  <2>7. ASSUME NEW v \in Workers \ {w}, pc'[v] = "slot"
        PROVE  /\ wait'[v] + HostDelay <= nextStart'[url'[v]]
               /\ url[v] = url[w] => wait'[w] >= wait'[v] + HostDelay
    <3>1. pc[v] = "slot" /\ wait'[v] = wait[v] /\ url[v] \in Hosts
      BY <2>3, <2>7
    <3>2. wait[v] + HostDelay <= nextStart[url[v]] /\ wait[v] \in Nat /\ nextStart[url[v]] \in Nat
      BY <3>1
    <3> QED
      BY <2>1, <2>2, <2>4, <2>5, <2>6, <3>1, <3>2
  <2>8. \A u, v \in Workers \ {w} :
          pc'[u] = "slot" /\ pc'[v] = "slot" /\ url[u] = url[v] /\ u # v
            => wait'[v] >= wait'[u] + HostDelay \/ wait'[u] >= wait'[v] + HostDelay
    BY <2>3
  <2> QED
    BY <2>1, <2>2, <2>4, <2>5, <2>7, <2>8
<1>7. ASSUME NEW w \in Workers, Wake(w) PROVE SlotsApart'
  BY <1>7 DEF Wake, Awake
<1>8. ASSUME NEW w \in Workers, Dial(w) PROVE SlotsApart'
  BY <1>8 DEF Dial, MayDial
<1>9. ASSUME NEW w \in Workers, Redirected(w) PROVE SlotsApart'
  BY <1>9 DEF Redirected, Exchanged, Enqueue, NoRetryAfter
<1>10. ASSUME NEW w \in Workers, Answered(w) PROVE SlotsApart'
  <2>1. pc[w] = "flight" /\ url[w] \in Hosts /\ origin[w] \in Hosts
    BY <1>10 DEF Answered, Exchanged
  <2>2. CASE RetryAfter(w)
    <3>1. PICK b \in Nat :
            /\ nextStart' = [nextStart EXCEPT ![url[w]] = Larger(nextStart[url[w]], b)]
            /\ quiet' = [quiet EXCEPT ![url[w]] = Larger(quiet[url[w]], b)]
            /\ ahead' = ahead \cup {v \in Holders(url[w]) : pc[v] # "flight"}
      BY <2>1, <2>2, Answer DEF BackedOff
    <3> QED
      BY <1>10, <2>1, <3>1, LargerNat DEF Answered, Exchanged, Return, Larger, Holders
  <2>3. CASE NoRetryAfter
    BY <1>10, <2>1, <2>3 DEF Answered, Exchanged, Return, NoRetryAfter
  <2> QED
    BY <1>10, <2>2, <2>3 DEF Answered
<1>11. ASSUME NEW w \in Workers, RobotsAnswered(w) PROVE SlotsApart'
  <2>1. pc[w] = "flight" /\ url[w] \in Hosts /\ origin[w] \in Hosts
    BY <1>11 DEF RobotsAnswered, Exchanged
  <2>2. CASE RetryAfter(w)
    <3>1. PICK b \in Nat :
            /\ nextStart' = [nextStart EXCEPT ![url[w]] = Larger(nextStart[url[w]], b)]
            /\ quiet' = [quiet EXCEPT ![url[w]] = Larger(quiet[url[w]], b)]
            /\ ahead' = ahead \cup {v \in Holders(url[w]) : pc[v] # "flight"}
      BY <2>1, <2>2, Answer DEF BackedOff
    <3> QED
      BY <1>11, <2>1, <3>1, LargerNat DEF RobotsAnswered, Exchanged, Learn, Larger, Holders
  <2>3. CASE NoRetryAfter
    BY <1>11, <2>1, <2>3 DEF RobotsAnswered, Exchanged, Learn, NoRetryAfter
  <2> QED
    BY <1>11, <2>2, <2>3 DEF RobotsAnswered
<1>12. ASSUME Tick PROVE SlotsApart'
  <2>1. pc' = pc /\ url' = url
    BY <1>12 DEF Tick
  <2>2. ASSUME NEW v \in Workers, pc[v] = "slot"
        PROVE  wait[v] \in Nat /\ wait'[v] = wait[v] - 1 /\ url[v] \in Hosts
    <3>1. wait[v] \in Nat /\ wait[v] # 0
      BY <1>12, <2>2 DEF Tick, Urgent, Awake
    <3> QED
      BY <1>12, <2>2, <3>1 DEF Tick, Less
  <2>3. ASSUME NEW v \in Workers, pc[v] = "slot"
        PROVE  wait'[v] + HostDelay <= nextStart'[url[v]]
    <3>1. wait[v] + HostDelay <= nextStart[url[v]] /\ nextStart[url[v]] \in Nat /\ HostDelay \in Nat
      BY <2>2, <2>3
    <3>2. nextStart'[url[v]] = Less(nextStart[url[v]])
      BY <1>12, <2>2, <2>3 DEF Tick
    <3> QED
      BY <2>2, <2>3, <3>1, <3>2 DEF Less
  <2>4. ASSUME NEW u \in Workers, NEW v \in Workers, u # v,
               pc[u] = "slot", pc[v] = "slot", url[u] = url[v]
        PROVE  wait'[v] >= wait'[u] + HostDelay \/ wait'[u] >= wait'[v] + HostDelay
    <3>1. wait[v] >= wait[u] + HostDelay \/ wait[u] >= wait[v] + HostDelay
      BY <2>4
    <3>2. /\ wait'[v] = wait[v] - 1 /\ wait'[u] = wait[u] - 1
          /\ wait[u] \in Nat /\ wait[v] \in Nat /\ HostDelay \in Nat
      BY <2>2, <2>4
    <3> QED
      BY <3>1, <3>2
  <2> QED
    BY <2>1, <2>3, <2>4
<1>13. ASSUME UNCHANGED vars PROVE SlotsApart'
  BY <1>13
<1> QED
  BY <1>1, <1>2, <1>3, <1>4, <1>5, <1>6, <1>7, <1>8, <1>9, <1>10, <1>11, <1>12, <1>13
  DEF Next, Continue

\* Every step keeps the next slots out of the quiet time.
LEMMA QuietStep == ASSUME Timed, QuietInv, [Next]_vars PROVE QuietInv'
<1> USE DEF Timed, Placed, Places, Rules, None, QuietInv
<1>1. ASSUME NEW w \in Workers, Fetch(w) PROVE QuietInv'
  BY <1>1 DEF Fetch
<1>2. ASSUME NEW w \in Workers, FetchRobots(w) PROVE QuietInv'
  BY <1>2 DEF FetchRobots, Enqueue
<1>3. ASSUME NEW w \in Workers, RobotsBlocked(w) PROVE QuietInv'
  BY <1>3 DEF RobotsBlocked, Learn
<1>4. ASSUME NEW w \in Workers, Permitted(w) PROVE QuietInv'
  BY <1>4 DEF Permitted, Enqueue
<1>5. ASSUME NEW w \in Workers, Refused(w) PROVE QuietInv'
  BY <1>5 DEF Refused, Return
<1>6. ASSUME NEW w \in Workers, ClaimSlot(w) PROVE QuietInv'
  BY <1>6 DEF ClaimSlot, MayClaim, ClaimNextStart
<1>7. ASSUME NEW w \in Workers, Wake(w) PROVE QuietInv'
  BY <1>7 DEF Wake, Awake
<1>8. ASSUME NEW w \in Workers, Dial(w) PROVE QuietInv'
  BY <1>8 DEF Dial, MayDial
<1>9. ASSUME NEW w \in Workers, Redirected(w) PROVE QuietInv'
  BY <1>9 DEF Redirected, Exchanged, Enqueue, NoRetryAfter
<1>10. ASSUME NEW w \in Workers, Answered(w) PROVE QuietInv'
  <2>1. pc[w] = "flight" /\ url[w] \in Hosts /\ origin[w] \in Hosts
    BY <1>10 DEF Answered, Exchanged
  <2>2. CASE RetryAfter(w)
    <3>1. PICK b \in Nat :
            /\ nextStart' = [nextStart EXCEPT ![url[w]] = Larger(nextStart[url[w]], b)]
            /\ quiet' = [quiet EXCEPT ![url[w]] = Larger(quiet[url[w]], b)]
            /\ ahead' = ahead \cup {v \in Holders(url[w]) : pc[v] # "flight"}
      BY <2>1, <2>2, Answer DEF BackedOff
    <3> QED
      BY <1>10, <2>1, <3>1, LargerNat DEF Answered, Exchanged, Return, Larger, Holders
  <2>3. CASE NoRetryAfter
    BY <1>10, <2>1, <2>3 DEF Answered, Exchanged, Return, NoRetryAfter
  <2> QED
    BY <1>10, <2>2, <2>3 DEF Answered
<1>11. ASSUME NEW w \in Workers, RobotsAnswered(w) PROVE QuietInv'
  <2>1. pc[w] = "flight" /\ url[w] \in Hosts /\ origin[w] \in Hosts
    BY <1>11 DEF RobotsAnswered, Exchanged
  <2>2. CASE RetryAfter(w)
    <3>1. PICK b \in Nat :
            /\ nextStart' = [nextStart EXCEPT ![url[w]] = Larger(nextStart[url[w]], b)]
            /\ quiet' = [quiet EXCEPT ![url[w]] = Larger(quiet[url[w]], b)]
            /\ ahead' = ahead \cup {v \in Holders(url[w]) : pc[v] # "flight"}
      BY <2>1, <2>2, Answer DEF BackedOff
    <3> QED
      BY <1>11, <2>1, <3>1, LargerNat DEF RobotsAnswered, Exchanged, Learn, Larger, Holders
  <2>3. CASE NoRetryAfter
    BY <1>11, <2>1, <2>3 DEF RobotsAnswered, Exchanged, Learn, NoRetryAfter
  <2> QED
    BY <1>11, <2>2, <2>3 DEF RobotsAnswered
<1>12. ASSUME Tick PROVE QuietInv'
  BY <1>12 DEF Tick, Less, Urgent, Awake
<1>13. ASSUME UNCHANGED vars PROVE QuietInv'
  BY <1>13
<1> QED
  BY <1>1, <1>2, <1>3, <1>4, <1>5, <1>6, <1>7, <1>8, <1>9, <1>10, <1>11, <1>12, <1>13
  DEF Next, Continue

\* Every step keeps one worker at most at the rules of an origin.
LEMMA RobotsStep == ASSUME Timed, RobotsOnce, [Next]_vars PROVE RobotsOnce'
<1> USE DEF Timed, Placed, Places, Rules, None, RobotsOnce
<1>1. ASSUME NEW w \in Workers, Fetch(w) PROVE RobotsOnce'
  BY <1>1 DEF Fetch
<1>2. ASSUME NEW w \in Workers, FetchRobots(w) PROVE RobotsOnce'
  <2>1. /\ origin' = origin /\ origin[w] = url[w] /\ url[w] \in Hosts
        /\ rules[url[w]] = "unknown"
        /\ rules' = [rules EXCEPT ![url[w]] = "fetching"]
        /\ asking' = [asking EXCEPT ![w] = "robots"]
    BY <1>2 DEF FetchRobots
  <2>2. \A v \in Workers : asking[v] = "robots" => origin[v] # origin[w]
    BY <2>1
  <2>3. \A v \in Workers \ {w} : asking'[v] = asking[v]
    BY <2>1
  <2>4. asking'[w] = "robots"
    BY <2>1
  <2>5. \A h \in Hosts \ {url[w]} : rules'[h] = rules[h]
    BY <2>1
  <2>6. rules'[url[w]] = "fetching"
    BY <2>1
  <2>7. \A u, v \in Workers :
          asking'[u] = "robots" /\ asking'[v] = "robots" /\ origin'[u] = origin'[v] => u = v
    BY <2>1, <2>2, <2>3
  <2>8. ASSUME NEW h \in Hosts
        PROVE  rules'[h] = "fetching" <=> \E v \in Workers : asking'[v] = "robots" /\ origin'[v] = h
    <3>1. CASE h = url[w]
      BY <2>1, <2>4, <2>6, <3>1
    <3>2. CASE h # url[w]
      BY <2>1, <2>2, <2>3, <2>5, <3>2
    <3> QED
      BY <3>1, <3>2
  <2> QED
    BY <2>7, <2>8
<1>3. ASSUME NEW w \in Workers, RobotsBlocked(w) PROVE RobotsOnce'
  BY <1>3 DEF RobotsBlocked, Learn
<1>4. ASSUME NEW w \in Workers, Permitted(w) PROVE RobotsOnce'
  BY <1>4 DEF Permitted, Enqueue
<1>5. ASSUME NEW w \in Workers, Refused(w) PROVE RobotsOnce'
  BY <1>5 DEF Refused, Return
<1>6. ASSUME NEW w \in Workers, ClaimSlot(w) PROVE RobotsOnce'
  BY <1>6 DEF ClaimSlot, MayClaim, ClaimNextStart
<1>7. ASSUME NEW w \in Workers, Wake(w) PROVE RobotsOnce'
  BY <1>7 DEF Wake, Awake
<1>8. ASSUME NEW w \in Workers, Dial(w) PROVE RobotsOnce'
  BY <1>8 DEF Dial, MayDial
<1>9. ASSUME NEW w \in Workers, Redirected(w) PROVE RobotsOnce'
  BY <1>9 DEF Redirected, Exchanged, Enqueue, NoRetryAfter
<1>10. ASSUME NEW w \in Workers, Answered(w) PROVE RobotsOnce'
  BY <1>10 DEF Answered, Exchanged, Return
<1>11. ASSUME NEW w \in Workers, RobotsAnswered(w) PROVE RobotsOnce'
  BY <1>11 DEF RobotsAnswered, Exchanged, Learn
<1>12. ASSUME Tick PROVE RobotsOnce'
  BY <1>12 DEF Tick, Less, Urgent, Awake
<1>13. ASSUME UNCHANGED vars PROVE RobotsOnce'
  BY <1>13
<1> QED
  BY <1>1, <1>2, <1>3, <1>4, <1>5, <1>6, <1>7, <1>8, <1>9, <1>10, <1>11, <1>12, <1>13
  DEF Next, Continue

\* In every state the types fit.
LEMMA Times == Spec => []Timed
<1>1. Init => Timed
  BY DEF Init, Timed, Placed, Places, Rules, None
<1> QED
  BY <1>1, TimedStep, PTL DEF Spec

\* "every waiting task takes a distinct, already-reserved slot rather than
\* racing for the same one" (fetch.rs:744): slots of one host are a delay apart.
THEOREM SlotsStayApart == Spec => []SlotsApart
<1>1. Init => SlotsApart
  BY DEF Init, SlotsApart
<1> QED
  BY <1>1, SlotsStep, Times, PTL DEF Spec

\* In every state the next slots are out of the quiet time.
LEMMA QuietStands == Spec => []QuietInv
<1>1. Init => QuietInv
  BY DEF Init, QuietInv
<1> QED
  BY <1>1, QuietStep, Times, PTL DEF Spec

\* "so it is in force for every request still queued behind this one on the same
\* host" (fetch.rs:801): within the quiet time of a host, only workers that had a
\* slot before it asked send their request.
THEOREM RetryAfterIsKept == Spec => QuietIsKept
<1>1. ASSUME Timed, QuietInv
      PROVE  \A w \in Workers :
                pc[w] = "global" /\ pc'[w] = "flight" /\ quiet[url[w]] > 0 => w \in ahead
  BY <1>1 DEF QuietInv, Timed, Placed
<1> QED
  BY <1>1, QuietStands, Times, PTL DEF Spec, QuietIsKept

\* "concurrent first-lookups for the same origin share one fetch"
\* (robots.rs:104): no two workers ask for the rules of one origin.
THEOREM RulesFetchedOnce == Spec => []RobotsOnce
<1>1. Init => RobotsOnce
  BY DEF Init, RobotsOnce
<1> QED
  BY <1>1, RobotsStep, Times, PTL DEF Spec
\* Somebody joins a queue at its end.
LEMMA Joins ==
    ASSUME NEW s, NEW S, NEW w \in Workers, Lists(s, S), w \notin S
    PROVE  Lists(Append(s, w), S \cup {w})
<1> DEFINE t == Append(s, w)
<1>1. /\ t \in Seq(Workers) /\ Len(t) = Len(s) + 1 /\ Len(s) \in Nat
      /\ \A i \in 1 .. Len(s) : t[i] = s[i]
      /\ t[Len(s) + 1] = w
  BY DEF Lists
<1> HIDE DEF t
<1>2. \A i \in 1 .. Len(t) : i \in 1 .. Len(s) \/ i = Len(s) + 1
  BY <1>1
<1>3. \A i \in 1 .. Len(t) : t[i] \in S \cup {w}
  BY <1>1, <1>2 DEF Lists
<1>4. \A v \in S \cup {w} : \E i \in 1 .. Len(t) : t[i] = v
  BY <1>1 DEF Lists
<1>5. \A i, j \in 1 .. Len(t) : t[i] = t[j] => i = j
  BY <1>1, <1>2 DEF Lists
<1> QED
  BY <1>1, <1>3, <1>4, <1>5 DEF Lists, t

\* The first one leaves it.
LEMMA Leaves ==
    ASSUME NEW s, NEW S, Lists(s, S), s # <<>>
    PROVE  Head(s) \in S /\ Lists(Tail(s), S \ {Head(s)})
<1> DEFINE t == Tail(s)
<1>1. /\ t \in Seq(Workers) /\ Len(t) = Len(s) - 1 /\ Len(s) \in Nat /\ Len(s) >= 1
      /\ \A i \in 1 .. Len(t) : t[i] = s[i + 1]
      /\ Head(s) = s[1]
  BY DEF Lists
<1> HIDE DEF t
<1>2. \A i \in 1 .. Len(t) : i + 1 \in 1 .. Len(s) /\ i + 1 # 1
  BY <1>1
<1>3. Head(s) \in S
  BY <1>1 DEF Lists
<1>4. \A i \in 1 .. Len(t) : t[i] \in S \ {Head(s)}
  BY <1>1, <1>2 DEF Lists
<1>5. ASSUME NEW v \in S \ {Head(s)}
      PROVE  \E i \in 1 .. Len(t) : t[i] = v
  <2>1. PICK j \in 1 .. Len(s) : s[j] = v
    BY DEF Lists
  <2>2. j # 1 /\ j - 1 \in 1 .. Len(t) /\ (j - 1) + 1 = j
    BY <1>1, <1>5, <2>1
  <2> QED
    BY <1>1, <2>1, <2>2
<1>6. \A i, j \in 1 .. Len(t) : t[i] = t[j] => i = j
  BY <1>1, <1>2, SMTT(20) DEF Lists
<1> QED
  BY <1>1, <1>3, <1>4, <1>5, <1>6 DEF Lists, t

LEMMA Empty == Lists(<<>>, {})
  BY DEF Lists

\* Where somebody waits, somebody is first.
LEMMA SomebodyFirst ==
    ASSUME NEW s, NEW S, Lists(s, S), S # {}
    PROVE  s # <<>> /\ Head(s) \in S
<1>1. s # <<>>
  BY DEF Lists
<1> QED
  BY <1>1, Leaves

\* A worker joins the queue of a host.
LEMMA Enqueued ==
    ASSUME Timed, HostLines, NEW w \in Workers, pc[w] # "queued",
           NEW h \in Hosts, Enqueue(w, h), url' = [url EXCEPT ![w] = h]
    PROVE  HostLines'
<1>1. pc' = [pc EXCEPT ![w] = "queued"]
  BY DEF Enqueue
<1>2. w \notin QueuedAt(h) /\ Lists(queue[h], QueuedAt(h))
  BY DEF QueuedAt, HostLines
<1>3. Lists(Append(queue[h], w), QueuedAt(h) \cup {w})
  BY <1>2, Joins
<1>4. queue' = [queue EXCEPT ![h] = Append(queue[h], w)]
  BY DEF Enqueue
<1>5. queue' \in [Hosts -> Seq(Workers)]
  BY <1>3, <1>4 DEF HostLines, Lists
<1>6. ASSUME NEW g \in Hosts PROVE Lists(queue[g], QueuedAt(g))'
  <2>1. QueuedAt(g)' = IF g = h THEN QueuedAt(h) \cup {w} ELSE QueuedAt(g)
    BY <1>1 DEF QueuedAt, Timed
  <2>2. queue'[g] = IF g = h THEN Append(queue[h], w) ELSE queue[g]
    BY <1>4 DEF HostLines
  <2>3. Lists(queue[g], QueuedAt(g))
    BY DEF HostLines
  <2>4. Lists(queue'[g], QueuedAt(g)')
    BY <1>3, <2>1, <2>2, <2>3
  <2> QED
    BY <2>4 DEF Lists
<1> QED
  BY <1>5, <1>6 DEF HostLines

\* Steps that leave the queues of the hosts, or the global one, alone.
LEMMA HostsAlone ==
    ASSUME Timed, HostLines, queue' = queue,
           \A v \in Workers : pc'[v] = "queued" <=> pc[v] = "queued",
           \A v \in Workers : pc[v] = "queued" => url'[v] = url[v]
    PROVE  HostLines'
<1>1. ASSUME NEW g \in Hosts PROVE Lists(queue[g], QueuedAt(g))'
  <2>1. QueuedAt(g)' = QueuedAt(g)
    BY DEF QueuedAt
  <2>2. Lists(queue'[g], QueuedAt(g)')
    BY <2>1 DEF HostLines
  <2> QED
    BY <2>2 DEF Lists
<1>2. queue' \in [Hosts -> Seq(Workers)]
  BY DEF HostLines
<1> QED
  BY <1>1, <1>2 DEF HostLines

\* The same of the global queue.
LEMMA GlobalAlone ==
    ASSUME Timed, GlobalLine, gqueue' = gqueue,
           \A v \in Workers : pc'[v] = "global" <=> pc[v] = "global"
    PROVE  GlobalLine'
<1>1. Waiting' = Waiting
  BY DEF Waiting
<1> QED
  BY <1>1 DEF GlobalLine, Lists

\* Every step keeps the queues.
LEMMA LinesStep ==
    ASSUME Timed, HostLines, GlobalLine, [Next]_vars
    PROVE  HostLines' /\ GlobalLine'
<1> USE DEF Timed, Placed, Places, None
<1>1. ASSUME NEW w \in Workers, Fetch(w) PROVE HostLines' /\ GlobalLine'
  <2>1. /\ queue' = queue /\ gqueue' = gqueue
        /\ pc[w] \in {"idle", "robots", "flight"}
        /\ pc' \in {[pc EXCEPT ![w] = "idle"], [pc EXCEPT ![w] = "robots"]}
        /\ \A v \in Workers \ {w} : url'[v] = url[v]
    BY <1>1 DEF Fetch
  <2> QED
    BY <2>1, HostsAlone, GlobalAlone
<1>2. ASSUME NEW w \in Workers, FetchRobots(w) PROVE HostLines' /\ GlobalLine'
  <2>1. /\ pc[w] = "robots" /\ url[w] \in Hosts /\ Enqueue(w, url[w])
        /\ url' = [url EXCEPT ![w] = url[w]] /\ gqueue' = gqueue
        /\ pc' = [pc EXCEPT ![w] = "queued"]
    BY <1>2 DEF FetchRobots, Enqueue
  <2> QED
    BY <2>1, Enqueued, GlobalAlone
<1>3. ASSUME NEW w \in Workers, RobotsBlocked(w) PROVE HostLines' /\ GlobalLine'
  <2>1. /\ queue' = queue /\ gqueue' = gqueue
        /\ pc[w] \in {"idle", "robots", "flight"}
        /\ pc' \in {[pc EXCEPT ![w] = "idle"], [pc EXCEPT ![w] = "robots"]}
        /\ \A v \in Workers \ {w} : url'[v] = url[v]
    BY <1>3 DEF RobotsBlocked, Learn
  <2> QED
    BY <2>1, HostsAlone, GlobalAlone
<1>4. ASSUME NEW w \in Workers, Permitted(w) PROVE HostLines' /\ GlobalLine'
  <2>1. /\ pc[w] = "robots" /\ url[w] \in Hosts /\ Enqueue(w, url[w])
        /\ url' = [url EXCEPT ![w] = url[w]] /\ gqueue' = gqueue
        /\ pc' = [pc EXCEPT ![w] = "queued"]
    BY <1>4 DEF Permitted, Enqueue
  <2> QED
    BY <2>1, Enqueued, GlobalAlone
<1>5. ASSUME NEW w \in Workers, Refused(w) PROVE HostLines' /\ GlobalLine'
  <2>1. /\ queue' = queue /\ gqueue' = gqueue
        /\ pc[w] \in {"idle", "robots", "flight"}
        /\ pc' \in {[pc EXCEPT ![w] = "idle"], [pc EXCEPT ![w] = "robots"]}
        /\ \A v \in Workers \ {w} : url'[v] = url[v]
    BY <1>5 DEF Refused, Return
  <2> QED
    BY <2>1, HostsAlone, GlobalAlone
<1>6. ASSUME NEW w \in Workers, ClaimSlot(w) PROVE HostLines' /\ GlobalLine'
  <2>1. /\ pc[w] = "queued" /\ url[w] \in Hosts /\ url' = url /\ gqueue' = gqueue
        /\ queue[url[w]] # <<>> /\ Head(queue[url[w]]) = w
        /\ queue' = [queue EXCEPT ![url[w]] = Tail(queue[url[w]])]
        /\ pc' = [pc EXCEPT ![w] = "slot"]
    BY <1>6 DEF ClaimSlot, MayClaim
  <2>2. Lists(Tail(queue[url[w]]), QueuedAt(url[w]) \ {w})
    BY <2>1, Leaves DEF HostLines
  <2>3. queue' \in [Hosts -> Seq(Workers)]
    BY <2>1, <2>2 DEF HostLines, Lists
  <2>4. ASSUME NEW g \in Hosts PROVE Lists(queue[g], QueuedAt(g))'
    <3>1. QueuedAt(g)' = IF g = url[w] THEN QueuedAt(g) \ {w} ELSE QueuedAt(g)
      BY <2>1 DEF QueuedAt
    <3>2. queue'[g] = IF g = url[w] THEN Tail(queue[g]) ELSE queue[g]
      BY <2>1 DEF HostLines
    <3>3. Lists(queue[g], QueuedAt(g))
      BY DEF HostLines
    <3>4. Lists(queue'[g], QueuedAt(g)')
      BY <2>2, <3>1, <3>2, <3>3
    <3> QED
      BY <3>4 DEF Lists
  <2>5. GlobalLine'
    BY <2>1, GlobalAlone
  <2> QED
    BY <2>3, <2>4, <2>5 DEF HostLines
<1>7. ASSUME NEW w \in Workers, Wake(w) PROVE HostLines' /\ GlobalLine'
  <2>1. /\ pc[w] = "slot" /\ url' = url /\ queue' = queue
        /\ gqueue' = Append(gqueue, w) /\ pc' = [pc EXCEPT ![w] = "global"]
    BY <1>7 DEF Wake, Awake
  <2>2. w \notin Waiting /\ Waiting' = Waiting \cup {w}
    BY <2>1 DEF Waiting
  <2>3. Lists(gqueue', Waiting')
    BY <2>1, <2>2, Joins DEF GlobalLine
  <2>4. GlobalLine'
    BY <2>3 DEF GlobalLine, Lists
  <2> QED
    BY <2>1, <2>4, HostsAlone
<1>8. ASSUME NEW w \in Workers, Dial(w) PROVE HostLines' /\ GlobalLine'
  <2>1. /\ pc[w] = "global" /\ url' = url /\ queue' = queue
        /\ gqueue # <<>> /\ Head(gqueue) = w
        /\ gqueue' = Tail(gqueue) /\ pc' = [pc EXCEPT ![w] = "flight"]
    BY <1>8 DEF Dial, MayDial
  <2>2. Waiting' = Waiting \ {w}
    BY <2>1 DEF Waiting
  <2>3. Lists(gqueue', Waiting')
    BY <2>1, <2>2, Leaves DEF GlobalLine
  <2>4. GlobalLine'
    BY <2>3 DEF GlobalLine, Lists
  <2> QED
    BY <2>1, <2>4, HostsAlone
<1>9. ASSUME NEW w \in Workers, Redirected(w) PROVE HostLines' /\ GlobalLine'
  <2>1. PICK h \in Hosts : url' = [url EXCEPT ![w] = h] /\ Enqueue(w, h)
    BY <1>9 DEF Redirected
  <2>2. pc[w] = "flight" /\ gqueue' = gqueue /\ pc' = [pc EXCEPT ![w] = "queued"]
    BY <1>9, <2>1 DEF Redirected, Exchanged, Enqueue
  <2> QED
    BY <2>1, <2>2, Enqueued, GlobalAlone
<1>10. ASSUME NEW w \in Workers, Answered(w) PROVE HostLines' /\ GlobalLine'
  <2>1. /\ queue' = queue /\ gqueue' = gqueue
        /\ pc[w] \in {"idle", "robots", "flight"}
        /\ pc' \in {[pc EXCEPT ![w] = "idle"], [pc EXCEPT ![w] = "robots"]}
        /\ \A v \in Workers \ {w} : url'[v] = url[v]
    BY <1>10 DEF Answered, Exchanged, Return
  <2> QED
    BY <2>1, HostsAlone, GlobalAlone
<1>11. ASSUME NEW w \in Workers, RobotsAnswered(w) PROVE HostLines' /\ GlobalLine'
  <2>1. /\ queue' = queue /\ gqueue' = gqueue
        /\ pc[w] \in {"idle", "robots", "flight"}
        /\ pc' \in {[pc EXCEPT ![w] = "idle"], [pc EXCEPT ![w] = "robots"]}
        /\ \A v \in Workers \ {w} : url'[v] = url[v]
    BY <1>11 DEF RobotsAnswered, Exchanged, Learn
  <2> QED
    BY <2>1, HostsAlone, GlobalAlone
<1>12. ASSUME Tick \/ UNCHANGED vars PROVE HostLines' /\ GlobalLine'
  <2>1. queue' = queue /\ gqueue' = gqueue /\ pc' = pc /\ url' = url
    BY <1>12 DEF Tick
  <2> QED
    BY <2>1, HostsAlone, GlobalAlone
<1> QED
  BY <1>1, <1>2, <1>3, <1>4, <1>5, <1>6, <1>7, <1>8, <1>9, <1>10, <1>11, <1>12
  DEF Next, Continue

\* In every state those who wait are in line.
LEMMA Queues == Spec => [](HostLines /\ GlobalLine)
<1>1. Init => HostLines /\ GlobalLine
  BY DEF Init, HostLines, GlobalLine, Lists, QueuedAt, Waiting
<1>2. ASSUME Timed, HostLines /\ GlobalLine, [Next]_vars PROVE (HostLines /\ GlobalLine)'
  BY <1>2, LinesStep
<1> QED
  BY <1>1, <1>2, Times, PTL DEF Spec

\* The permits of a host, the global ones and the cells of the robots cache are
\* never all held by workers that wait for one another: while anybody is at work,
\* somebody can go on.
THEOREM SomebodyGoesOn == Spec => []NobodyStuck
<1>1. ASSUME Timed, HostLines, GlobalLine, RobotsOnce
      PROVE  NobodyStuck
  <2> USE <1>1 DEF Timed, Placed, Places, None
  <2>1. CASE \E w \in Workers : pc[w] \in {"flight", "slot"}
    BY <2>1 DEF NobodyStuck
  <2>2. ASSUME \A w \in Workers : pc[w] \notin {"flight", "slot"}, Waiting # {}
        PROVE  NobodyStuck
    <3>1. gqueue # <<>> /\ Head(gqueue) \in Waiting
      BY <2>2, SomebodyFirst DEF GlobalLine
    <3>2. InFlight = {}
      BY <2>2 DEF InFlight
    <3>3. Cardinality(InFlight) < GlobalCap
      BY <3>2, FS_EmptySet
    <3>4. Head(gqueue) \in Workers /\ MayDial(Head(gqueue))
      BY <3>1, <3>3 DEF MayDial, Waiting
    <3> QED
      BY <3>4 DEF NobodyStuck
  <2>3. ASSUME \A w \in Workers : pc[w] \notin {"flight", "slot", "global"},
               NEW w \in Workers, pc[w] = "queued"
        PROVE  NobodyStuck
    <3>1. url[w] \in Hosts /\ w \in QueuedAt(url[w])
      BY <2>3 DEF QueuedAt
    <3>2. queue[url[w]] # <<>> /\ Head(queue[url[w]]) \in QueuedAt(url[w])
      BY <3>1, SomebodyFirst DEF HostLines
    <3>3. Holders(url[w]) = {}
      BY <2>3 DEF Holders
    <3>4. Cardinality(Holders(url[w])) < PerHostCap
      BY <3>3, FS_EmptySet
    <3>5. Head(queue[url[w]]) \in Workers /\ MayClaim(Head(queue[url[w]]))
      BY <3>2, <3>4 DEF MayClaim, QueuedAt
    <3> QED
      BY <3>5 DEF NobodyStuck
  <2>4. ASSUME \A w \in Workers : pc[w] \in {"idle", "robots"}
        PROVE  NobodyStuck
    <3>1. \A w \in Workers : asking[w] = "document"
      BY <2>4
    <3>2. \A w \in Workers : pc[w] = "robots" => rules[url[w]] # "fetching"
      BY <3>1 DEF RobotsOnce
    <3> QED
      BY <2>4, <3>2 DEF NobodyStuck
  <2> QED
    BY <2>1, <2>2, <2>3, <2>4 DEF Waiting
<1> QED
  BY <1>1, Times, Queues, RulesFetchedOnce, PTL

\* One worker at most asks for the rules of an origin, and there is always a worker
\* that can go on.
THEOREM NobodyInVain == Spec => []NobodyWaitsInVain
  BY RulesFetchedOnce, SomebodyGoesOn, PTL DEF NobodyWaitsInVain
-----------------------------------------------------------------------------
(* What a host has to bear.                                                *)

\* Workers whose slot at h has come and who have not sent their request yet.
Undialled(h) == {w \in Workers : pc[w] = "global" /\ url[w] = h}

\* Requests to h of the last `age` units, and those that may start at any moment.
Load(h, age) == recent[h][age] + Cardinality(Undialled(h))

\* A slot that comes within the delay, taken or not, finds room for its request.
BurstAt(h) ==
    /\ Cardinality(Holders(h)) <= PerHostCap
    /\ \A age \in 0 .. HostDelay - 1 :
          /\ Load(h, age) <= PerHostCap + 1
          /\ nextStart[h] + age < HostDelay => Load(h, age) <= PerHostCap
          /\ \A v \in Workers :
                pc[v] = "slot" /\ url[v] = h /\ wait[v] + age < HostDelay
                    => Load(h, age) <= PerHostCap

\* At no age has a host been asked for more than its permits and one.
BurstInv ==
    /\ recent \in [Hosts -> [0 .. HostDelay - 1 -> Nat]]
    /\ \A h \in Hosts : BurstAt(h)

\* The steps that are no concern of slots, dials or time.
Aside ==
    /\ UNCHANGED <<recent, waited, gqueue>>
    /\ \A v \in Workers :
          /\ pc'[v] \in {"slot", "global", "flight"}
                => pc'[v] = pc[v] /\ url'[v] = url[v] /\ wait'[v] = wait[v]
          /\ pc[v] \in {"slot", "global"} => pc'[v] = pc[v]
    /\ \A h \in Hosts : nextStart'[h] \in Nat /\ nextStart[h] <= nextStart'[h]

LEMMA Asides ==
    ASSUME Timed, [Next]_vars
    PROVE  \/ Aside \/ Tick
           \/ \E w \in Workers : ClaimSlot(w) \/ Wake(w) \/ Dial(w)
<1> USE DEF Timed, Placed, Places
<1>1. ASSUME NEW w \in Workers, Fetch(w) PROVE Aside
  BY <1>1 DEF Fetch, Aside
<1>2. ASSUME NEW w \in Workers, FetchRobots(w) PROVE Aside
  BY <1>2 DEF FetchRobots, Enqueue, Aside
<1>3. ASSUME NEW w \in Workers, RobotsBlocked(w) PROVE Aside
  BY <1>3 DEF RobotsBlocked, Learn, Aside
<1>4. ASSUME NEW w \in Workers, Permitted(w) PROVE Aside
  BY <1>4 DEF Permitted, Enqueue, Aside
<1>5. ASSUME NEW w \in Workers, Refused(w) PROVE Aside
  BY <1>5 DEF Refused, Return, Aside
<1>6. ASSUME NEW w \in Workers, Redirected(w) PROVE Aside
  BY <1>6 DEF Redirected, Exchanged, Enqueue, NoRetryAfter, Aside
<1>7. ASSUME NEW w \in Workers, pc[w] = "flight", RetryAfter(w) \/ NoRetryAfter
      PROVE  /\ UNCHANGED <<recent, waited>>
             /\ \A h \in Hosts : nextStart'[h] \in Nat /\ nextStart[h] <= nextStart'[h]
  <2>1. CASE RetryAfter(w)
    <3>1. PICK b \in Nat :
            nextStart' = [nextStart EXCEPT ![url[w]] = Larger(nextStart[url[w]], b)]
      BY <1>7, <2>1, Answer DEF BackedOff
    <3>2. url[w] \in Hosts /\ nextStart[url[w]] \in Nat
      BY <1>7
    <3>3. /\ Larger(nextStart[url[w]], b) \in Nat
          /\ nextStart[url[w]] <= Larger(nextStart[url[w]], b)
      BY <3>2, LargerNat
    <3>4. UNCHANGED <<recent, waited>>
      BY <2>1 DEF RetryAfter
    <3> QED
      BY <3>1, <3>2, <3>3, <3>4
  <2>2. CASE NoRetryAfter
    BY <2>2 DEF NoRetryAfter
  <2> QED
    BY <1>7, <2>1, <2>2
<1>8. ASSUME NEW w \in Workers, Answered(w) PROVE Aside
  <2>1. pc[w] = "flight" /\ (RetryAfter(w) \/ NoRetryAfter)
    BY <1>8 DEF Answered, Exchanged
  <2> QED
    BY <1>7, <1>8, <2>1 DEF Answered, Exchanged, Return, Aside
<1>9. ASSUME NEW w \in Workers, RobotsAnswered(w) PROVE Aside
  <2>1. pc[w] = "flight" /\ (RetryAfter(w) \/ NoRetryAfter)
    BY <1>9 DEF RobotsAnswered, Exchanged
  <2> QED
    BY <1>7, <1>9, <2>1 DEF RobotsAnswered, Exchanged, Learn, Aside
<1>10. ASSUME UNCHANGED vars PROVE Aside
  BY <1>10 DEF Aside
<1> QED
  BY <1>1, <1>2, <1>3, <1>4, <1>5, <1>6, <1>8, <1>9, <1>10 DEF Next, Continue

\* Sets of workers can be counted.
LEMMA Counts ==
    ASSUME NEW S \in SUBSET Workers
    PROVE  /\ IsFiniteSet(S) /\ Cardinality(S) \in Nat
           /\ \A T \in SUBSET S : Cardinality(T) \in Nat /\ Cardinality(T) <= Cardinality(S)
<1>1. IsFiniteSet(S)
  BY FS_Subset
<1>2. \A T \in SUBSET S : IsFiniteSet(T) /\ Cardinality(T) <= Cardinality(S)
  BY <1>1, FS_Subset
<1> QED
  BY <1>1, <1>2, FS_CardinalityType

\* Whoever has not dialled yet holds a permit of the host.
LEMMA UndialledHolds ==
    ASSUME NEW h
    PROVE  /\ Undialled(h) \in SUBSET Holders(h) /\ Holders(h) \in SUBSET Workers
           /\ Undialled(h) \in SUBSET Workers
  BY DEF Undialled, Holders
\* Every step keeps the bursts of every host bounded.
LEMMA BurstStep ==
    ASSUME Timed, SlotsApart, BurstInv, [Next]_vars
    PROVE  BurstInv'
<1> USE DEF Timed, Placed, Places, None
<1>1. CASE Aside
  <2>1. ASSUME NEW h \in Hosts PROVE BurstAt(h)'
    <3>1. Undialled(h)' = Undialled(h) /\ Holders(h)' \in SUBSET Holders(h)
      BY <1>1 DEF Aside, Undialled, Holders
    <3>2. Cardinality(Holders(h)') <= Cardinality(Holders(h)) /\ Cardinality(Holders(h)) \in Nat
          /\ Cardinality(Holders(h)') \in Nat
      BY <3>1, Counts, UndialledHolds
    <3>3. \A age \in 0 .. HostDelay - 1 : Load(h, age)' = Load(h, age)
      BY <1>1, <3>1 DEF Aside, Load
    <3>4. ASSUME NEW age \in 0 .. HostDelay - 1, nextStart'[h] + age < HostDelay
          PROVE  Load(h, age) <= PerHostCap
      BY <1>1, <3>4 DEF Aside, BurstInv, BurstAt
    <3>5. ASSUME NEW age \in 0 .. HostDelay - 1, NEW v \in Workers,
                 pc'[v] = "slot", url'[v] = h, wait'[v] + age < HostDelay
          PROVE  Load(h, age) <= PerHostCap
      BY <1>1, <3>5 DEF Aside, BurstInv, BurstAt
    <3>6. Cardinality(Holders(h)') <= PerHostCap
      BY <3>2 DEF BurstInv, BurstAt
    <3>7. \A age \in 0 .. HostDelay - 1 : Load(h, age) <= PerHostCap + 1
      BY DEF BurstInv, BurstAt
    <3> QED
      BY <3>3, <3>4, <3>5, <3>6, <3>7 DEF BurstAt
  <2> QED
    BY <1>1, <2>1 DEF BurstInv, Aside
<1>2. ASSUME NEW w \in Workers, ClaimSlot(w) PROVE BurstInv'
  <2>1. /\ pc[w] = "queued" /\ url[w] \in Hosts /\ url' = url /\ recent' = recent
        /\ pc' = [pc EXCEPT ![w] = "slot"]
        /\ wait' = [wait EXCEPT ![w] = nextStart[url[w]]]
        /\ nextStart' = [nextStart EXCEPT ![url[w]] = nextStart[url[w]] + HostDelay]
        /\ Cardinality(Holders(url[w])) < PerHostCap
    BY <1>2 DEF ClaimSlot, MayClaim, ClaimNextStart
  <2>2. ASSUME NEW h \in Hosts PROVE BurstAt(h)'
    <3>1. Undialled(h)' = Undialled(h)
      BY <2>1 DEF Undialled
    <3>2. \A age \in 0 .. HostDelay - 1 : Load(h, age)' = Load(h, age)
      BY <2>1, <3>1 DEF Load
    <3>3. Cardinality(Holders(h)') <= PerHostCap
      <4>1. CASE h = url[w]
        <5>1. Holders(h)' = Holders(h) \cup {w} /\ w \notin Holders(h)
          BY <2>1, <4>1 DEF Holders
        <5>2. IsFiniteSet(Holders(h)) /\ Cardinality(Holders(h)) \in Nat
          BY Counts, UndialledHolds
        <5>3. Cardinality(Holders(h)') = Cardinality(Holders(h)) + 1
          BY <5>1, <5>2, FS_AddElement
        <5> QED
          BY <2>1, <4>1, <5>2, <5>3
      <4>2. CASE h # url[w]
        <5>1. Holders(h)' = Holders(h)
          BY <2>1, <4>2 DEF Holders
        <5> QED
          BY <5>1 DEF BurstInv, BurstAt
      <4> QED
        BY <4>1, <4>2
    <3>4. ASSUME NEW age \in 0 .. HostDelay - 1, nextStart'[h] + age < HostDelay
          PROVE  Load(h, age) <= PerHostCap
      BY <2>1, <3>4 DEF BurstInv, BurstAt
    <3>5. ASSUME NEW age \in 0 .. HostDelay - 1, NEW v \in Workers,
                 pc'[v] = "slot", url[v] = h, wait'[v] + age < HostDelay
          PROVE  Load(h, age) <= PerHostCap
      BY <2>1, <3>5 DEF BurstInv, BurstAt
    <3> QED
      BY <2>1, <3>2, <3>3, <3>4, <3>5 DEF BurstInv, BurstAt
  <2> QED
    BY <2>1, <2>2 DEF BurstInv
<1>3. ASSUME NEW w \in Workers, Wake(w) PROVE BurstInv'
  <2>1. /\ pc[w] = "slot" /\ wait[w] = 0 /\ url[w] \in Hosts
        /\ url' = url /\ recent' = recent /\ wait' = wait /\ nextStart' = nextStart
        /\ pc' = [pc EXCEPT ![w] = "global"]
    BY <1>3 DEF Wake, Awake
  <2>2. ASSUME NEW h \in Hosts PROVE BurstAt(h)'
    <3>1. Holders(h)' = Holders(h)
      BY <2>1 DEF Holders
    <3>2. CASE h = url[w]
      <4>1. Undialled(h)' = Undialled(h) \cup {w} /\ w \notin Undialled(h)
        BY <2>1, <3>2 DEF Undialled
      <4>2. /\ Cardinality(Undialled(h)') = Cardinality(Undialled(h)) + 1
            /\ Cardinality(Undialled(h)) \in Nat
        BY <4>1, Counts, UndialledHolds, FS_AddElement
      <4>3. \A age \in 0 .. HostDelay - 1 :
               Load(h, age)' = Load(h, age) + 1 /\ Load(h, age) \in Nat
        <5>1. \A age \in 0 .. HostDelay - 1 : recent[h][age] \in Nat
          BY DEF BurstInv
        <5> QED
          BY <2>1, <4>2, <5>1 DEF Load
      <4>4. \A age \in 0 .. HostDelay - 1 : Load(h, age) <= PerHostCap
        BY <2>1, <3>2 DEF BurstInv, BurstAt
      <4>5. nextStart[h] >= HostDelay
        BY <2>1, <3>2 DEF SlotsApart
      <4>6. ASSUME NEW v \in Workers, pc'[v] = "slot", url[v] = h PROVE wait[v] >= HostDelay
        BY <2>1, <3>2, <4>6 DEF SlotsApart
      <4>7. Cardinality(Holders(h)') <= PerHostCap
        BY <3>1 DEF BurstInv, BurstAt
      <4>8. ASSUME NEW age \in 0 .. HostDelay - 1
            PROVE  Load(h, age)' <= PerHostCap + 1 /\ ~(nextStart'[h] + age < HostDelay)
        BY <2>1, <4>3, <4>4, <4>5, <4>8
      <4>9. ASSUME NEW age \in 0 .. HostDelay - 1, NEW v \in Workers, pc'[v] = "slot", url[v] = h
            PROVE  ~(wait'[v] + age < HostDelay)
        BY <2>1, <4>6, <4>9
      <4> QED
        BY <2>1, <4>7, <4>8, <4>9 DEF BurstAt
    <3>3. CASE h # url[w]
      <4>1. Undialled(h)' = Undialled(h)
        BY <2>1, <3>3 DEF Undialled
      <4>2. \A age \in 0 .. HostDelay - 1 : Load(h, age)' = Load(h, age)
        BY <2>1, <4>1 DEF Load
      <4> QED
        BY <2>1, <3>1, <4>2 DEF BurstInv, BurstAt
    <3> QED
      BY <3>2, <3>3
  <2> QED
    BY <2>1, <2>2 DEF BurstInv
<1>4. ASSUME NEW w \in Workers, Dial(w) PROVE BurstInv'
  <2>1. /\ pc[w] = "global" /\ url[w] \in Hosts /\ url' = url /\ nextStart' = nextStart
        /\ pc' = [pc EXCEPT ![w] = "flight"] /\ wait' = [wait EXCEPT ![w] = TotalTimeout]
        /\ recent' = [recent EXCEPT ![url[w]] = [age \in 0 .. HostDelay - 1 |->
                                                    recent[url[w]][age] + 1]]
    BY <1>4 DEF Dial, MayDial, BurstInv
  <2>2. recent' \in [Hosts -> [0 .. HostDelay - 1 -> Nat]]
    <3>1. [age \in 0 .. HostDelay - 1 |-> recent[url[w]][age] + 1] \in [0 .. HostDelay - 1 -> Nat]
      <4>1. recent[url[w]] \in [0 .. HostDelay - 1 -> Nat]
        BY <2>1 DEF BurstInv
      <4> QED
        BY <4>1
    <3> QED
      BY <2>1, <3>1, Zenon DEF BurstInv
  <2>3. ASSUME NEW h \in Hosts PROVE BurstAt(h)'
    <3>1. Holders(h)' = Holders(h)
      BY <2>1 DEF Holders
    <3>2. \A age \in 0 .. HostDelay - 1 : Load(h, age)' = Load(h, age)
      <4>1. CASE h = url[w]
        <5>1. Undialled(h)' = Undialled(h) \ {w} /\ w \in Undialled(h)
          BY <2>1, <4>1 DEF Undialled
        <5>2. /\ Cardinality(Undialled(h)') = Cardinality(Undialled(h)) - 1
              /\ Cardinality(Undialled(h)) \in Nat
          BY <5>1, Counts, UndialledHolds, FS_RemoveElement
        <5>3. \A age \in 0 .. HostDelay - 1 :
                 recent'[h][age] = recent[h][age] + 1 /\ recent[h][age] \in Nat
          BY <2>1, <4>1 DEF BurstInv
        <5> QED
          BY <5>2, <5>3 DEF Load
      <4>2. CASE h # url[w]
        <5>1. Undialled(h)' = Undialled(h) /\ recent'[h] = recent[h]
          BY <2>1, <4>2 DEF Undialled, BurstInv
        <5> QED
          BY <5>1 DEF Load
      <4> QED
        BY <4>1, <4>2
    <3> QED
      BY <2>1, <3>1, <3>2 DEF BurstInv, BurstAt
  <2> QED
    BY <2>2, <2>3 DEF BurstInv
<1>5. CASE Tick
  <2>1. /\ pc' = pc /\ url' = url
        /\ recent' = [h \in Hosts |-> [age \in 0 .. HostDelay - 1 |->
                                         IF age = 0 THEN 0 ELSE recent[h][age - 1]]]
    BY <1>5 DEF Tick
  <2>2. recent' \in [Hosts -> [0 .. HostDelay - 1 -> Nat]]
    <3>1. ASSUME NEW h \in Hosts, NEW age \in 0 .. HostDelay - 1
          PROVE  (IF age = 0 THEN 0 ELSE recent[h][age - 1]) \in Nat
      BY DEF BurstInv
    <3> QED
      BY <2>1, <3>1
  <2>3. ASSUME NEW h \in Hosts PROVE BurstAt(h)'
    <3>1. Holders(h)' = Holders(h) /\ Undialled(h)' = Undialled(h)
      BY <2>1 DEF Holders, Undialled
    <3>2. /\ Cardinality(Undialled(h)) \in Nat /\ Cardinality(Holders(h)) \in Nat
          /\ Cardinality(Undialled(h)) <= Cardinality(Holders(h))
      BY Counts, UndialledHolds
    <3>3. Cardinality(Holders(h)) <= PerHostCap
      BY DEF BurstInv, BurstAt
    <3>4. \A age \in 0 .. HostDelay - 1 :
             /\ age = 0 => Load(h, age)' <= PerHostCap
             /\ age # 0 => age - 1 \in 0 .. HostDelay - 1 /\ Load(h, age)' = Load(h, age - 1)
      BY <2>1, <3>1, <3>2, <3>3 DEF Load
    <3>5. ASSUME NEW age \in 0 .. HostDelay - 1
          PROVE  Load(h, age)' <= PerHostCap + 1
      <4>1. CASE age = 0
        <5>1. Load(h, age)' = Cardinality(Undialled(h))
          BY <2>1, <3>1, <3>2, <4>1 DEF Load
        <5> QED
          BY <3>2, <3>3, <5>1
      <4>2. CASE age # 0
        BY <3>4, <4>2 DEF BurstInv, BurstAt
      <4> QED
        BY <4>1, <4>2
    <3>6. ASSUME NEW age \in 0 .. HostDelay - 1, nextStart'[h] + age < HostDelay
          PROVE  Load(h, age)' <= PerHostCap
      <4>1. CASE age = 0
        BY <3>4, <4>1
      <4>2. CASE age # 0
        <5>1. nextStart[h] + (age - 1) < HostDelay
          BY <1>5, <3>6, <4>2 DEF Tick, Less
        <5> QED
          BY <3>4, <4>2, <5>1 DEF BurstInv, BurstAt
      <4> QED
        BY <4>1, <4>2
    <3>7. ASSUME NEW age \in 0 .. HostDelay - 1, NEW v \in Workers,
                 pc[v] = "slot", url[v] = h, wait'[v] + age < HostDelay
          PROVE  Load(h, age)' <= PerHostCap
      <4>1. CASE age = 0
        BY <3>4, <4>1
      <4>2. CASE age # 0
        <5>1. wait[v] + (age - 1) < HostDelay
          BY <1>5, <3>7, <4>2 DEF Tick, Less
        <5> QED
          BY <3>4, <3>7, <4>2, <5>1 DEF BurstInv, BurstAt
      <4> QED
        BY <4>1, <4>2
    <3> QED
      BY <2>1, <3>1, <3>3, <3>5, <3>6, <3>7 DEF BurstAt
  <2> QED
    BY <2>2, <2>3 DEF BurstInv
<1> QED
  BY <1>1, <1>2, <1>3, <1>4, <1>5, Asides

\* However long its workers waited for global permits, a host sees at most one
\* request more than its permits within a delay.
THEOREM BurstsAreBounded == Spec => []BurstBounded
<1>1. Init => BurstInv
  <2> SUFFICES ASSUME Init PROVE BurstInv
    OBVIOUS
  <2>1. recent \in [Hosts -> [0 .. HostDelay - 1 -> Nat]]
    BY DEF Init
  <2>2. ASSUME NEW h \in Hosts PROVE BurstAt(h)
    <3>1. Holders(h) = {} /\ Undialled(h) = {}
      BY DEF Init, Holders, Undialled
    <3>2. \A age \in 0 .. HostDelay - 1 : Load(h, age) = 0
      BY <3>1, FS_EmptySet DEF Load, Init
    <3> QED
      BY <3>1, <3>2, FS_EmptySet DEF BurstAt
  <2> QED
    BY <2>1, <2>2 DEF BurstInv
<1>2. Timed /\ SlotsApart /\ BurstInv /\ [Next]_vars => BurstInv'
  BY BurstStep
<1>3. ASSUME BurstInv PROVE BurstBounded
  <2>1. ASSUME NEW h \in Hosts PROVE Started(h) <= PerHostCap + 1
    <3>1. CASE HostDelay = 0
      BY <3>1 DEF Started
    <3>2. CASE HostDelay # 0
      <4>1. HostDelay - 1 \in 0 .. HostDelay - 1 /\ recent[h][HostDelay - 1] \in Nat
        BY <1>3, <3>2 DEF BurstInv
      <4>2. Load(h, HostDelay - 1) <= PerHostCap + 1 /\ Cardinality(Undialled(h)) \in Nat
        BY <1>3, <4>1, Counts, UndialledHolds DEF BurstInv, BurstAt
      <4> QED
        BY <3>2, <4>1, <4>2 DEF Started, Load
    <3> QED
      BY <3>1, <3>2
  <2> QED
    BY <2>1 DEF BurstBounded
<1> QED
  BY <1>1, <1>2, <1>3, Times, SlotsStayApart, PTL DEF Spec
-----------------------------------------------------------------------------
(* What a worker has to bear.                                              *)

\* A queue is as long as the set it lists, at most.
LEMMA QueueLength ==
    ASSUME NEW S \in SUBSET Workers, NEW s, Lists(s, S)
    PROVE  Len(s) \in Nat /\ Len(s) <= Cardinality(S)
<1>1. Len(s) \in Nat /\ s \in [1 .. Len(s) -> S]
  BY DEF Lists
<1>2. s \in Injection(1 .. Len(s), S)
  BY <1>1 DEF Lists, Injection, IsInjective
<1>3. IsFiniteSet(S)
  BY Counts
<1>4. Cardinality(1 .. Len(s)) <= Cardinality(S)
  BY <1>2, <1>3, FS_Injection
<1>5. Cardinality(1 .. Len(s)) = Len(s)
  <2>1. 1 \in Int /\ Len(s) \in Int
    BY <1>1
  <2>2. Cardinality(1 .. Len(s)) = IF 1 > Len(s) THEN 0 ELSE Len(s) - 1 + 1
    BY <2>1, FS_Interval, Zenon
  <2> QED
    BY <1>1, <2>2
<1> QED
  BY <1>1, <1>4, <1>5

\* Timeouts add up.
LEMMA Timeouts ==
    ASSUME NEW m \in Int, NEW n \in Int
    PROVE  /\ TotalTimeout * m \in Int
           /\ TotalTimeout * (m + 1) = TotalTimeout * m + TotalTimeout
           /\ m <= n => TotalTimeout * m <= TotalTimeout * n
<1>1. TotalTimeout \in Nat
  OBVIOUS
<1>2. TotalTimeout * (m + 1) = TotalTimeout * m + TotalTimeout
  BY <1>1, SMT
<1>3. ASSUME m <= n PROVE TotalTimeout * m <= TotalTimeout * n
  <2>1. PICK d \in Nat : n = m + d
    BY <1>3
  <2>2. TotalTimeout * n = TotalTimeout * m + TotalTimeout * d
    BY <1>1, <2>1, SMT
  <2>3. TotalTimeout * d \in Nat
    BY <1>1, <2>1, SMT
  <2> QED
    BY <1>1, <2>2, <2>3, SMT
<1> QED
  BY <1>1, <1>2, <1>3

\* What all the other workers together can keep one waiting.
Bound == TotalTimeout * (Cardinality(Workers) - 1)

\* How long the i-th in the global queue has waited, and the exchanges of those
\* before it.
Owed(i) == waited[gqueue[i]] + TotalTimeout * (i - 1)

\* What is still ahead of a worker in the queue, and what has been waited for,
\* is no more than a timeout for each of the others.
WaitInv ==
    /\ waited \in [Workers -> Nat]
    /\ \A w \in Workers : pc[w] # "global" => waited[w] = 0
    /\ \A f \in InFlight : wait[f] <= TotalTimeout
    /\ \A i \in 1 .. Len(gqueue) :
          /\ Owed(i) <= Bound
          /\ \A f \in InFlight : Owed(i) + wait[f] <= Bound

\* The queue holds workers, and nobody in it has dialled.
LEMMA GlobalQueue ==
    ASSUME Timed, GlobalLine
    PROVE  /\ gqueue \in Seq(Workers) /\ Len(gqueue) \in Nat
           /\ \A i \in 1 .. Len(gqueue) : gqueue[i] \in Workers /\ pc[gqueue[i]] = "global"
           /\ \A w \in Workers : pc[w] = "global" => \E i \in 1 .. Len(gqueue) : gqueue[i] = w
  BY DEF GlobalLine, Lists, Waiting

\* Every step keeps the waits bounded.
LEMMA WaitStep ==
    ASSUME Timed, GlobalLine, WaitInv, [Next]_vars
    PROVE  WaitInv'
<1> USE DEF Timed, Placed, Places, None
<1>0. /\ Bound \in Int /\ TotalTimeout \in Nat
      /\ \A i \in 1 .. Len(gqueue) : Owed(i) \in Int /\ waited[gqueue[i]] \in Nat
  <2>1. Cardinality(Workers) - 1 \in Int
    BY Counts
  <2>2. Bound \in Int
    BY <2>1, Timeouts DEF Bound
  <2>3. ASSUME NEW i \in 1 .. Len(gqueue)
        PROVE  Owed(i) \in Int /\ waited[gqueue[i]] \in Nat
    <3>1. waited[gqueue[i]] \in Nat
      BY GlobalQueue DEF WaitInv
    <3>2. i - 1 \in Int
      OBVIOUS
    <3>3. TotalTimeout * (i - 1) \in Int
      BY <3>2, Timeouts
    <3> QED
      BY <3>1, <3>3 DEF Owed
  <2> QED
    BY <2>2, <2>3
<1>1. CASE Aside \/ \E w \in Workers : ClaimSlot(w)
  <2>1. /\ waited' = waited /\ gqueue' = gqueue
        /\ \A v \in Workers : pc[v] = "global" => pc'[v] = "global"
        /\ \A v \in Workers : pc'[v] = "flight" => pc[v] = "flight" /\ wait'[v] = wait[v]
        /\ \A v \in Workers : pc'[v] = "global" => pc[v] = "global"
    BY <1>1 DEF Aside, ClaimSlot, MayClaim, ClaimNextStart
  <2>2. \A f \in InFlight' : f \in InFlight /\ wait'[f] = wait[f]
    BY <2>1 DEF InFlight
  <2>3. \A i \in 1 .. Len(gqueue) : Owed(i)' = Owed(i)
    BY <2>1 DEF Owed
  <2> QED
    BY <2>1, <2>2, <2>3 DEF WaitInv
<1>2. ASSUME NEW w \in Workers, Wake(w) PROVE WaitInv'
  <2>1. /\ pc[w] = "slot" /\ waited' = waited /\ wait' = wait
        /\ gqueue' = Append(gqueue, w) /\ pc' = [pc EXCEPT ![w] = "global"]
    BY <1>2 DEF Wake, Awake
  <2>2. InFlight' = InFlight /\ InFlight \in SUBSET Workers
    BY <2>1 DEF InFlight
  <2>n. PICK n \in Nat : n = Len(gqueue)
    BY GlobalQueue
  <2>3. /\ n \in Nat /\ Len(gqueue') = n + 1 /\ gqueue'[n + 1] = w
        /\ \A i \in 1 .. n : gqueue'[i] = gqueue[i]
    BY <2>1, <2>n, GlobalQueue
  <2>4. /\ n <= Cardinality(Waiting) /\ Waiting \in SUBSET Workers
        /\ IsFiniteSet(Waiting) /\ Cardinality(Waiting) \in Nat
    <3>1. Waiting \in SUBSET Workers
      BY DEF Waiting
    <3> QED
      BY <2>n, <3>1, QueueLength, Counts DEF GlobalLine
  <2>5. n + 1 <= Cardinality(Workers) /\ Cardinality(Workers) \in Nat
    <3>1. w \notin Waiting /\ Waiting \cup {w} \in SUBSET Workers
      BY <2>1, <2>4 DEF Waiting
    <3>2. Cardinality(Waiting \cup {w}) = Cardinality(Waiting) + 1
      BY <2>4, <3>1, FS_AddElement
    <3>3. Cardinality(Waiting \cup {w}) <= Cardinality(Workers) /\ Cardinality(Workers) \in Nat
      BY <3>1, Counts
    <3> QED
      BY <2>3, <2>4, <3>2, <3>3
  <2>6. ASSUME NEW f \in InFlight PROVE n + 2 <= Cardinality(Workers)
    <3>1. /\ w \notin Waiting /\ f \notin Waiting /\ f # w /\ f \in Workers
          /\ (Waiting \cup {w}) \cup {f} \in SUBSET Workers
      BY <2>1, <2>4, <2>6 DEF Waiting, InFlight
    <3>2. /\ IsFiniteSet(Waiting \cup {w})
          /\ Cardinality(Waiting \cup {w}) = Cardinality(Waiting) + 1
      BY <2>4, <3>1, FS_AddElement
    <3>3. Cardinality((Waiting \cup {w}) \cup {f}) = Cardinality(Waiting \cup {w}) + 1
      BY <3>1, <3>2, FS_AddElement
    <3>4. Cardinality((Waiting \cup {w}) \cup {f}) <= Cardinality(Workers)
      BY <3>1, Counts
    <3> QED
      BY <2>3, <2>4, <2>5, <3>2, <3>3, <3>4
  <2>7. Owed(n + 1)' = TotalTimeout * n
    <3>1. waited[w] = 0
      BY <2>1 DEF WaitInv
    <3>2. (n + 1) - 1 = n /\ TotalTimeout * n \in Int
      BY <2>3, Timeouts
    <3>3. Owed(n + 1)' = waited'[gqueue'[n + 1]] + TotalTimeout * ((n + 1) - 1)
      BY Zenon DEF Owed
    <3> QED
      BY <2>1, <2>3, <3>1, <3>2, <3>3
  <2>8. TotalTimeout * n <= Bound
    <3>1. n <= Cardinality(Workers) - 1 /\ Cardinality(Workers) - 1 \in Int
      BY <2>3, <2>5
    <3> QED
      BY <2>3, <3>1, Timeouts DEF Bound
  <2>9. ASSUME NEW f \in InFlight PROVE TotalTimeout * n + wait[f] <= Bound
    <3>1. n + 1 <= Cardinality(Workers) - 1 /\ Cardinality(Workers) - 1 \in Int /\ n + 1 \in Int
      BY <2>3, <2>5, <2>6
    <3>2. TotalTimeout * (n + 1) <= Bound
      BY <3>1, Timeouts DEF Bound
    <3>3. TotalTimeout * (n + 1) = TotalTimeout * n + TotalTimeout /\ TotalTimeout * n \in Int
      BY <2>3, Timeouts
    <3>4. wait[f] <= TotalTimeout /\ wait[f] \in Nat
      BY <2>2, <2>9 DEF WaitInv
    <3> QED
      BY <1>0, <3>2, <3>3, <3>4
  <2>10. \A i \in 1 .. n : Owed(i)' = Owed(i)
    BY <2>1, <2>3, Zenon DEF Owed
  <2>11. ASSUME NEW i \in 1 .. n + 1
         PROVE  Owed(i)' <= Bound /\ \A f \in InFlight : Owed(i)' + wait[f] <= Bound
    <3>1. CASE i \in 1 .. n
      <4>1. Owed(i) <= Bound /\ \A f \in InFlight : Owed(i) + wait[f] <= Bound
        BY <2>n, <3>1 DEF WaitInv
      <4> QED
        BY <2>10, <3>1, <4>1
    <3>2. CASE i = n + 1
      <4>1. Owed(i)' = TotalTimeout * n
        BY <2>7, <3>2
      <4> QED
        BY <2>8, <2>9, <4>1
    <3> QED
      BY <2>3, <3>1, <3>2
  <2>12. Bound' = Bound
    BY DEF Bound
  <2> QED
    BY <2>1, <2>2, <2>3, <2>11, <2>12 DEF WaitInv
<1>3. ASSUME NEW w \in Workers, Dial(w) PROVE WaitInv'
  <2>1. /\ pc[w] = "global" /\ gqueue # <<>> /\ gqueue' = Tail(gqueue)
        /\ Head(gqueue) = w /\ pc' = [pc EXCEPT ![w] = "flight"]
        /\ wait' = [wait EXCEPT ![w] = TotalTimeout] /\ waited' = [waited EXCEPT ![w] = 0]
    BY <1>3 DEF Dial, MayDial
  <2>2. /\ Len(gqueue) \in Nat /\ Len(gqueue') = Len(gqueue) - 1 /\ gqueue[1] = w
        /\ \A i \in 1 .. Len(gqueue') : gqueue'[i] = gqueue[i + 1] /\ i + 1 \in 1 .. Len(gqueue)
    BY <2>1, GlobalQueue
  <2>3. \A i \in 1 .. Len(gqueue') : gqueue'[i] # w /\ gqueue'[i] \in Workers
    <3>1. ASSUME NEW i \in 1 .. Len(gqueue') PROVE gqueue[i + 1] # gqueue[1]
      <4>1. i + 1 \in 1 .. Len(gqueue) /\ 1 \in 1 .. Len(gqueue) /\ i + 1 # 1
        BY <2>2
      <4> QED
        BY <4>1 DEF GlobalLine, Lists
    <3>2. \A i \in 1 .. Len(gqueue) : gqueue[i] \in Workers
      BY GlobalQueue
    <3>3. ASSUME NEW i \in 1 .. Len(gqueue') PROVE gqueue'[i] # w /\ gqueue'[i] \in Workers
      <4>1. gqueue'[i] = gqueue[i + 1] /\ i + 1 \in 1 .. Len(gqueue)
        BY <2>2
      <4>2. gqueue[i + 1] # w
        BY <2>2, <3>1
      <4> QED
        BY <3>2, <4>1, <4>2
    <3> QED
      BY <3>3
  <2>4. ASSUME NEW i \in 1 .. Len(gqueue')
        PROVE  /\ Owed(i)' + TotalTimeout = Owed(i + 1) /\ Owed(i)' \in Int
    <3>1. waited'[gqueue'[i]] = waited[gqueue[i + 1]] /\ waited[gqueue[i + 1]] \in Nat
      BY <1>0, <2>1, <2>2, <2>3 DEF WaitInv
    <3>2. i - 1 \in Int /\ (i - 1) + 1 = (i + 1) - 1
      OBVIOUS
    <3>3. /\ TotalTimeout * ((i - 1) + 1) = TotalTimeout * (i - 1) + TotalTimeout
          /\ TotalTimeout * (i - 1) \in Int
      BY <3>2, Timeouts
    <3>4. Owed(i)' = waited'[gqueue'[i]] + TotalTimeout * (i - 1)
      BY Zenon DEF Owed
    <3>5. Owed(i + 1) = waited[gqueue[i + 1]] + TotalTimeout * ((i - 1) + 1)
      BY <3>2, Zenon DEF Owed
    <3> DEFINE p == TotalTimeout * (i - 1)
               q == TotalTimeout * ((i - 1) + 1)
    <3>6. p \in Int /\ q = p + TotalTimeout
      BY <3>3
    <3> HIDE DEF p, q
    <3>7. Owed(i)' = waited'[gqueue'[i]] + p /\ Owed(i + 1) = waited[gqueue[i + 1]] + q
      BY <3>4, <3>5 DEF p, q
    <3>8. PICK a \in Nat : a = waited[gqueue[i + 1]] /\ a = waited'[gqueue'[i]]
      BY <3>1
    <3>9. Owed(i)' = a + p /\ Owed(i + 1) = a + q
      BY <3>7, <3>8, Zenon
    <3>10. a + p \in Int /\ (a + p) + TotalTimeout = a + q
      BY <3>6
    <3> QED
      BY <3>9, <3>10, Zenon
  <2>5. \A i \in 1 .. Len(gqueue') :
           Owed(i + 1) <= Bound /\ \A f \in InFlight : Owed(i + 1) + wait[f] <= Bound
    BY <2>2 DEF WaitInv
  <2>6. \A f \in InFlight' : wait'[f] <= TotalTimeout /\ wait'[f] \in Nat
    BY <2>1 DEF InFlight, WaitInv
  <2>7. ASSUME NEW i \in 1 .. Len(gqueue')
        PROVE  Owed(i)' <= Bound /\ \A f \in InFlight' : Owed(i)' + wait'[f] <= Bound
    BY <1>0, <2>4, <2>5, <2>6
  <2>8. waited' \in [Workers -> Nat] /\ \A v \in Workers : pc'[v] # "global" => waited'[v] = 0
    BY <2>1 DEF WaitInv
  <2>9. Bound' = Bound
    BY DEF Bound
  <2> QED
    BY <2>6, <2>7, <2>8, <2>9 DEF WaitInv
<1>4. CASE Tick
  <2>1. /\ pc' = pc /\ gqueue' = gqueue
        /\ wait' = [w \in Workers |-> Less(wait[w])]
        /\ waited' = [w \in Workers |-> IF pc[w] = "global" THEN waited[w] + 1 ELSE 0]
    BY <1>4 DEF Tick
  <2>2. InFlight' = InFlight /\ InFlight \in SUBSET Workers
    BY <2>1 DEF InFlight
  <2>3. \A f \in InFlight : wait[f] \in Nat /\ wait[f] # 0 /\ wait'[f] = wait[f] - 1
    BY <1>4, <2>1 DEF Tick, Urgent, InFlight, Less
  <2>4. ASSUME NEW i \in 1 .. Len(gqueue)
        PROVE  Owed(i)' = Owed(i) + 1
    <3>1. waited'[gqueue[i]] = waited[gqueue[i]] + 1
      BY <2>1, GlobalQueue DEF WaitInv
    <3>2. i - 1 \in Int
      OBVIOUS
    <3>3. TotalTimeout * (i - 1) \in Int
      BY <3>2, Timeouts, Zenon
    <3> DEFINE p == TotalTimeout * (i - 1)
    <3>4. Owed(i) = waited[gqueue[i]] + p /\ Owed(i)' = waited'[gqueue'[i]] + p
      BY Zenon DEF Owed
    <3>5. p \in Int
      BY <3>3
    <3> HIDE DEF p
    <3>6. PICK a \in Nat : a = waited[gqueue[i]]
      BY <1>0
    <3>7. Owed(i) = a + p /\ Owed(i)' = (a + 1) + p
      BY <2>1, <3>1, <3>4, <3>6, Zenon
    <3>8. (a + 1) + p = (a + p) + 1
      BY <3>5
    <3> QED
      BY <3>7, <3>8, Zenon
  <2>5. ASSUME NEW i \in 1 .. Len(gqueue)
        PROVE  InFlight # {}
    <3>1. gqueue # <<>> /\ Head(gqueue) = gqueue[1] /\ 1 \in 1 .. Len(gqueue)
      BY GlobalQueue
    <3>2. Head(gqueue) \in Workers /\ pc[Head(gqueue)] = "global"
      BY <3>1, GlobalQueue
    <3>3. ~(Cardinality(InFlight) < GlobalCap)
      BY <1>4, <3>1, <3>2 DEF Tick, Urgent, MayDial
    <3>4. InFlight = {} => Cardinality(InFlight) = 0
      BY FS_EmptySet
    <3>5. 0 < GlobalCap
      OBVIOUS
    <3> QED
      BY <3>3, <3>4, <3>5
  <2>6. ASSUME NEW i \in 1 .. Len(gqueue)
        PROVE  Owed(i)' <= Bound /\ \A f \in InFlight : Owed(i)' + wait'[f] <= Bound
    <3>1. PICK g \in InFlight : TRUE
      BY <2>5
    <3>2. \A f \in InFlight : Owed(i) + wait[f] <= Bound
      BY DEF WaitInv
    <3>3. Owed(i) + wait[g] <= Bound /\ wait[g] \in Nat /\ wait[g] # 0
      BY <2>3, <3>1, <3>2
    <3>4. Owed(i)' = Owed(i) + 1 /\ Owed(i) \in Int /\ Bound \in Int
      BY <1>0, <2>4
    <3>5. Owed(i)' <= Bound
      BY <3>3, <3>4
    <3>6. ASSUME NEW f \in InFlight PROVE Owed(i)' + wait'[f] <= Bound
      <4>1. Owed(i) + wait[f] <= Bound /\ wait[f] \in Nat /\ wait'[f] = wait[f] - 1
        BY <2>3, <3>2
      <4>2. Owed(i)' + wait'[f] = (Owed(i) + 1) + (wait[f] - 1)
        BY <3>4, <4>1, Zenon
      <4> DEFINE o == Owed(i)
                 t == wait[f]
      <4>3. o \in Int /\ t \in Int /\ o + t <= Bound
        BY <3>4, <4>1
      <4>4. Owed(i)' + wait'[f] = (o + 1) + (t - 1)
        BY <4>2
      <4> HIDE DEF o, t
      <4>5. (o + 1) + (t - 1) = o + t
        BY <4>3
      <4> QED
        BY <4>3, <4>4, <4>5
    <3> QED
      BY <3>5, <3>6
  <2>7. waited' \in [Workers -> Nat] /\ \A v \in Workers : pc'[v] # "global" => waited'[v] = 0
    BY <2>1 DEF WaitInv
  <2>8. \A f \in InFlight : wait'[f] <= TotalTimeout
    <3>1. \A f \in InFlight : wait[f] <= TotalTimeout
      BY DEF WaitInv
    <3>2. ASSUME NEW f \in InFlight PROVE wait'[f] <= TotalTimeout
      <4>1. wait[f] \in Nat /\ wait'[f] = wait[f] - 1 /\ wait[f] <= TotalTimeout
        BY <2>3, <3>1
      <4> QED
        BY <1>0, <4>1
    <3> QED
      BY <3>2
  <2>9. Bound' = Bound
    BY DEF Bound
  <2> QED
    BY <2>1, <2>2, <2>6, <2>7, <2>8, <2>9 DEF WaitInv
<1> QED
  BY <1>1, <1>2, <1>3, <1>4, Asides

\* "would let one rate-limited host throttle the whole sweep instead of only
\* itself" (fetch.rs:731), which must not be: a worker whose slot has come waits
\* for the exchanges of the others only, one timeout each.
THEOREM WaitsAreBounded == Spec => []GlobalWaitBounded
<1>1. Init => WaitInv
  BY DEF Init, WaitInv, InFlight
<1>2. Timed /\ GlobalLine /\ WaitInv /\ [Next]_vars => WaitInv'
  BY WaitStep
<1>3. ASSUME Timed, GlobalLine, WaitInv PROVE GlobalWaitBounded
  <2>1. ASSUME NEW w \in Workers PROVE waited[w] <= Bound
    <3>1. waited[w] \in Nat /\ Bound \in Int
      <4>1. Cardinality(Workers) - 1 \in Int
        BY Counts
      <4>2. Bound \in Int
        BY <4>1, Timeouts, Zenon DEF Bound
      <4> QED
        BY <1>3, <4>2 DEF WaitInv
    <3>2. CASE pc[w] = "global"
      <4>1. PICK i \in 1 .. Len(gqueue) : gqueue[i] = w
        BY <1>3, <3>2, GlobalQueue
      <4>2. Owed(i) <= Bound
        BY <1>3 DEF WaitInv
      <4>3. TotalTimeout * (i - 1) \in Nat
        BY <1>3, GlobalQueue, SMT
      <4> QED
        BY <3>1, <4>1, <4>2, <4>3 DEF Owed
    <3>3. CASE pc[w] # "global"
      <4>1. {w} \in SUBSET Workers /\ Cardinality({w}) = 1
        BY FS_Singleton
      <4>2. Cardinality(Workers) \in Nat /\ 1 <= Cardinality(Workers)
        BY <4>1, Counts
      <4>3. Bound \in Nat
        BY <4>2, SMT DEF Bound
      <4>4. waited[w] = 0
        BY <1>3, <3>3 DEF WaitInv
      <4> QED
        BY <4>3, <4>4
    <3> QED
      BY <3>2, <3>3
  <2> QED
    BY <2>1 DEF GlobalWaitBounded, Bound
<1> QED
  BY <1>1, <1>2, <1>3, Times, Queues, PTL DEF Spec

\* What a host and a worker have to bear is bounded, however full the sweep is.
THEOREM LoadIsBounded == Spec => []LoadBounded
  BY BurstsAreBounded, WaitsAreBounded, PTL DEF LoadBounded
=============================================================================
