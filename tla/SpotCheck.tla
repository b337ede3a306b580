----------------------------- MODULE SpotCheck ------------------------------
(***************************************************************************)
(* POST /api/agents/{chain}/{id}/spot-check of one process of the API      *)
(* (routes/spot_check.rs): requests that charge the two sliding-window     *)
(* limiters, share the lazily connected chain clients, pin a block and     *)
(* read the registry at it, and send at most one document request.  What   *)
(* the rungs then say is AgentCheck's.                                     *)
(*                                                                         *)
(* Time is a clock.  try_acquire(key, Instant::now()) takes its stamp      *)
(* before the mutex, so another request may go first, and the clock may    *)
(* move by at most Skew, in between.  Every `.await` may last for ever;    *)
(* the timeout layer (api/src/main.rs) drops the handler at Deadline, and  *)
(* a client that goes away drops it at any time.                           *)
(***************************************************************************)
EXTENDS Integers, Sequences, FiniteSets, FiniteSetsExt, Functions

CONSTANTS
    Requests,       \* a set 1 .. N: how many requests there will be
    Clients, Agents, Hosts,
    World,          \* [Agents -> Seq of [owner, host]]: an agent, block by block
    NoHost,         \* host of a URI that sends no request: data:, empty, garbage
    ClientQuotas, HostQuotas,   \* PER_CLIENT_QUOTAS, PER_HOST_QUOTAS: [limit, window]
    MaxTracked,     \* MAX_TRACKED_KEYS
    Skew, Deadline, \* bound on a preempted thread; the 45 s of the timeout layer
    LastArrival     \* bound on the clock at which requests arrive

Blocks == 1 .. Min({Len(World[a]) : a \in Agents})
Limiters == {"client", "host"}
Keys == [client |-> Clients, host |-> Hosts]
Quotas == [client |-> ClientQuotas, host |-> HostQuotas]

ASSUME SpotCheckAssumption ==
    /\ \A l \in Limiters :
        /\ IsFiniteSet(Quotas[l]) /\ Quotas[l] # {}
        /\ \A q \in Quotas[l] : q.limit \in Nat \ {0} /\ q.window \in Nat \ {0}
    /\ MaxTracked \in Nat /\ Skew \in Nat /\ Deadline \in Nat /\ LastArrival \in Nat
    /\ NoHost \notin Hosts /\ Clients # {} /\ 1 \in Blocks
    /\ \A a \in Agents, b \in Blocks : World[a][b].host \in Hosts \cup {NoHost}

VARIABLES
    now, head,
    hits,           \* [Limiters -> [tracked keys -> Seq(stamp)]]
    connected,      \* the clients of the chain are in the cache
    lock,           \* holder of the mutex around the cache, or 0
    pc, local,      \* of each request: where it is, and its handler's locals
    sent,           \* history: the document requests, each with its locals
    admitted,       \* history: [Limiters -> [Keys -> Seq(real time of an admission)]]
    promise         \* history: [Limiters -> [Keys -> the time a refusal named]]

limits == <<hits, admitted, promise>>
vars == <<now, head, limits, connected, lock, pc, local, sent>>

Forever == LastArrival + Deadline + 1

\* The locals of a handler that is not running.
NoLocals == [client |-> CHOOSE c \in Clients : TRUE, agent |-> CHOOSE a \in Agents : TRUE,
             since |-> 0, stamp |-> 0, block |-> 0, owner |-> "none", host |-> NoHost]

Init ==
    /\ now = 0 /\ head = 1
    /\ hits = [l \in Limiters |-> <<>>]
    /\ connected = FALSE /\ lock = 0
    /\ pc = [r \in Requests |-> "idle"]
    /\ local = [r \in Requests |-> NoLocals] /\ sent = {}
    /\ admitted = [l \in Limiters |-> [k \in Keys[l] |-> <<>>]]
    /\ promise = [l \in Limiters |-> [k \in Keys[l] |-> Forever]]

-----------------------------------------------------------------------------
(* RateLimiter.                                                            *)

\* Instant::duration_since saturates.
Age(t, at) == IF t < at THEN 0 ELSE t - at

\* Mutant: hits are forgotten after the shortest window.
longest_window_shortest(l) == Min({q.window : q \in Quotas[l]})

longest_window(l) == Max({q.window : q \in Quotas[l]})

\* Above MAX_TRACKED_KEYS, the keys whose newest hit is too old are dropped.
Swept(tracked, longest, t) ==
    IF Cardinality(DOMAIN tracked) > MaxTracked
    THEN [k \in {k \in DOMAIN tracked :
                     tracked[k] # <<>> /\ Age(t, tracked[k][Len(tracked[k])]) < longest}
              |-> tracked[k]]
    ELSE tracked

\* pop_front for as long as the first is too old.
Kept(times, longest, t) ==
    LET fresh == {i \in DOMAIN times : Age(t, times[i]) < longest}
    IN  IF fresh = {} THEN <<>> ELSE SubSeq(times, Min(fresh), Len(times))

\* Where in the queue the hits of a window are.
InWindow(times, q, t) == {i \in DOMAIN times : Age(t, times[i]) < q.window}

Binding(times, l, t) == {q \in Quotas[l] : Cardinality(InWindow(times, q, t)) >= q.limit}

\* The hit that has to leave the window, and how long that takes.
Remaining(times, q, t) ==
    LET in_window == InWindow(times, q, t)
        blocker == CHOOSE i \in in_window :
                       Cardinality({j \in in_window : j >= i}) = q.limit
    IN  q.window - Age(t, times[blocker])

Wait(times, l, t) == Max({Remaining(times, q, t) : q \in Binding(times, l, t)})

\* try_acquire after its sweep: what is tracked of k, with k's entry made.
Tracked(l, k, t) ==
    LET longest == longest_window(l)
        swept == Swept(hits[l], longest, t)
        times == IF k \in DOMAIN swept THEN Kept(swept[k], longest, t) ELSE <<>>
    IN  [j \in DOMAIN swept \cup {k} |-> IF j = k THEN times ELSE swept[j]]

-----------------------------------------------------------------------------
(* One request.                                                            *)

Goto(r, where) == pc' = [pc EXCEPT ![r] = where] /\ UNCHANGED local

\* The answer, of whatever status, ends the handler and its locals.
Reply(r) == /\ pc' = [pc EXCEPT ![r] = "done"]
            /\ local' = [local EXCEPT ![r] = NoLocals]

\* Mutant: a refusal counts against the caller too.
TryAcquire_counted(r, l, k, where) ==
    LET t == local[r].stamp
        tracked == Tracked(l, k, t)
        times == tracked[k]
    IN  /\ hits' = [hits EXCEPT ![l] = [tracked EXCEPT ![k] = Append(@, t)]]
        /\ IF Binding(times, l, t) = {}
           THEN /\ admitted' = [admitted EXCEPT ![l][k] = Append(@, now)]
                /\ promise' = [promise EXCEPT ![l][k] = Forever]
                /\ Goto(r, where)
           ELSE /\ promise' = [promise EXCEPT ![l][k] = Min({@, now + Wait(times, l, t)})]
                /\ Reply(r) /\ UNCHANGED admitted

\* try_acquire for r under the mutex, with the stamp r took before; an
\* admitted request goes on to `where`, a refused one is answered 429.
TryAcquire(r, l, k, where) ==
    LET t == local[r].stamp
        tracked == Tracked(l, k, t)
        times == tracked[k]
    IN  /\ IF Binding(times, l, t) = {}
           THEN /\ hits' = [hits EXCEPT ![l] = [tracked EXCEPT ![k] = Append(@, t)]]
                /\ admitted' = [admitted EXCEPT ![l][k] = Append(@, now)]
                /\ promise' = [promise EXCEPT ![l][k] = Forever]
                /\ Goto(r, where)
           ELSE /\ hits' = [hits EXCEPT ![l] = tracked]
                /\ promise' = [promise EXCEPT ![l][k] = Min({@, now + Wait(times, l, t)})]
                /\ Reply(r) /\ UNCHANGED admitted

\* The next request, in time.
Comes(r) == pc[r] = "idle" /\ now <= LastArrival /\ \A q \in Requests : q < r => pc[q] # "idle"

\* A path that does not parse is answered (400) before anything is charged.
Malformed(r) ==
    /\ Comes(r) /\ Reply(r)
    /\ UNCHANGED <<now, head, limits, connected, lock, sent>>

Arrive(r) ==
    /\ Comes(r)
    /\ pc' = [pc EXCEPT ![r] = "client"]
    /\ \E c \in Clients, a \in Agents :
        local' = [local EXCEPT ![r] = [NoLocals EXCEPT !.client = c, !.agent = a,
                                                       !.since = now, !.stamp = now]]
    /\ UNCHANGED <<now, head, limits, connected, lock, sent>>

ChargeClient(r) ==
    /\ pc[r] = "client"
    /\ TryAcquire(r, "client", local[r].client, "clients")
    /\ UNCHANGED <<now, head, connected, lock, sent>>

\* clients(): the mutex is held over the look into the cache and, where the
\* chain is not in it, over the database read and the connects.
TakeClients(r) ==
    /\ pc[r] = "clients" /\ lock = 0
    /\ IF connected THEN Goto(r, "pin") /\ UNCHANGED lock
                    ELSE Goto(r, "connecting") /\ lock' = r
    /\ UNCHANGED <<now, head, limits, connected, sent>>

\* Connected, or 404, 503 or 500: no such chain, none configured, no connection.
Connect(r) ==
    /\ pc[r] = "connecting" /\ lock' = 0
    /\ \/ connected' = TRUE /\ Goto(r, "pin")
       \/ Reply(r) /\ UNCHANGED connected
    /\ UNCHANGED <<now, head, limits, sent>>

\* pinned_block, or 500.
Pin(r) ==
    /\ pc[r] = "pin"
    /\ \/ /\ local' = [local EXCEPT ![r].block = head]
          /\ pc' = [pc EXCEPT ![r] = "snapshot"]
       \/ Reply(r)
    /\ UNCHANGED <<now, head, limits, connected, lock, sent>>

\* Mutant: a second look at the chain, at its head of now.
ReadAt_latest(r) == World[local[r].agent][head]

ReadAt(r) == World[local[r].agent][local[r].block]

\* exists and snapshot, both at the pinned block, rung 1, the gate and, before
\* the host's budget, its stamp.  No such token is a 404, a failed read a 500,
\* and an agent nobody holds is answered without a request.
Snapshot(r) ==
    /\ pc[r] = "snapshot"
    /\ \/ /\ ReadAt(r).owner = "held"
          /\ pc' = [pc EXCEPT ![r] = IF ReadAt(r).host = NoHost THEN "fetching" ELSE "host"]
          /\ local' = [local EXCEPT ![r].owner = ReadAt(r).owner, ![r].host = ReadAt(r).host,
                                    ![r].stamp = now]
       \/ Reply(r)
    /\ UNCHANGED <<now, head, limits, connected, lock, sent>>

\* Who is admitted sends its request at once.
ChargeHost(r) ==
    /\ pc[r] = "host"
    /\ TryAcquire(r, "host", local[r].host, "fetching")
    /\ sent' = IF pc'[r] = "fetching" THEN sent \cup {<<r, local[r]>>} ELSE sent
    /\ UNCHANGED <<now, head, connected, lock>>

\* The document came or did not, the feedback was read or was not, and the
\* rungs are judged.
Answer(r) ==
    /\ pc[r] = "fetching" /\ Reply(r)
    /\ UNCHANGED <<now, head, limits, connected, lock, sent>>

-----------------------------------------------------------------------------
(* The handler is dropped, and with it the guard of the mutex.             *)

AtAwait(r) == pc[r] \in {"clients", "connecting", "pin", "snapshot", "fetching"}

Drop(r) ==
    /\ Reply(r)
    /\ lock' = IF lock = r THEN 0 ELSE lock
    /\ UNCHANGED <<now, head, limits, connected, sent>>

Overdue(r) == AtAwait(r) /\ now - local[r].since >= Deadline

TimesOut(r) == Overdue(r) /\ Drop(r)

Disconnect(r) == AtAwait(r) /\ Drop(r)

-----------------------------------------------------------------------------
Tick ==
    /\ now < LastArrival + Deadline
    /\ \A r \in Requests : pc[r] \in {"client", "host"} => now - local[r].stamp < Skew
    /\ \A r \in Requests : ~Overdue(r)
    /\ now' = now + 1
    /\ UNCHANGED <<head, limits, connected, lock, pc, local, sent>>

NewBlock ==
    /\ head + 1 \in Blocks /\ head' = head + 1
    /\ UNCHANGED <<now, limits, connected, lock, pc, local, sent>>

Next ==
    \/ Tick \/ NewBlock
    \/ \E r \in Requests :
        \/ Malformed(r) \/ Arrive(r) \/ TakeClients(r) \/ Connect(r) \/ Pin(r) \/ Snapshot(r)
        \/ Answer(r) \/ ChargeClient(r) \/ ChargeHost(r)
        \/ TimesOut(r) \/ Disconnect(r)

Spec == Init /\ [][Next]_vars

-----------------------------------------------------------------------------
(* Properties.                                                             *)

TypeOK ==
    /\ now \in Nat /\ head \in Blocks
    /\ \A l \in Limiters : /\ DOMAIN hits[l] \subseteq Keys[l]
                           /\ \A k \in DOMAIN hits[l] : hits[l][k] \in Seq(Nat)
    /\ connected \in BOOLEAN /\ lock \in Requests \cup {0}
    /\ pc \in [Requests -> {"idle", "client", "clients", "connecting", "pin", "snapshot",
                            "host", "fetching", "done"}]
    /\ local \in [Requests -> [client : Clients, agent : Agents, since : Nat, stamp : Nat,
                               block : Nat, owner : {"none", "zero", "held"},
                               host : Hosts \cup {NoHost}]]

\* No client and no host is granted more than its quota in any stretch of
\* time as long as a window, less what a preempted thread loses between its
\* stamp and the mutex: neither the expiry of old hits nor the sweep of the
\* key map loses a limit that is in force (spot_check.rs, PER_HOST_QUOTAS).
WindowKept ==
    \A l \in Limiters : \A k \in Keys[l] : \A q \in Quotas[l] :
        LET times == admitted[l][k]
        IN  \A i \in DOMAIN times :
                i + q.limit \in DOMAIN times => times[i + q.limit] - times[i] >= q.window - Skew

\* A document request is sent only for an agent that somebody held at the
\* block the request was pinned to, to the host its URI had at that block,
\* and never without a charge to that host's budget.
ProbeIsWarranted ==
    /\ \A probe \in sent :
        LET at == World[probe[2].agent][probe[2].block]
        IN  at.owner = "held" /\ at.host = probe[2].host
    /\ \A h \in Hosts :
        Cardinality({probe \in sent : probe[2].host = h}) <= Len(admitted["host"][h])

\* Who waits for as long as a 429 said, while nobody else of the same key is
\* granted anything, is not refused again (try_acquire: a refusal records
\* nothing and names the wait of every quota that binds); Skew longer, because
\* overtaken stamps leave the queue out of order, and a hit before the one that
\* was waited for may be younger than it.
RetryIsHonest ==
    [][\A r \in Requests :
        /\ (pc[r] = "client" /\ pc'[r] = "done")
              => local[r].stamp < promise["client"][local[r].client] + Skew
        /\ (pc[r] = "host" /\ pc'[r] = "done")
              => local[r].stamp < promise["host"][local[r].host] + Skew]_vars
=============================================================================
