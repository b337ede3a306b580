-------------------------- MODULE SpotCheck_proofs --------------------------
(***************************************************************************)
(* For any number of requests, clients, hosts and blocks, and any quotas,  *)
(* skew and timeouts: the document request of a spot check is sent for an  *)
(* agent somebody held at the pinned block and is charged to its host's    *)
(* budget; no window of a limiter is exceeded; and who waits as a 429 said *)
(* finds room.                                                             *)
(*                                                                         *)
(* The limiters are proved in two parts.  The first is about one queue of  *)
(* stamps and the history of its key's admissions: Trails says that the    *)
(* queue is the tail of the admissions, each stamp within the skew of its  *)
(* admission, and that what expiry and the sweep of the key map took away  *)
(* is out of the longest window.  The second carries that, and that every  *)
(* promise of a refusal is kept from its time on, through the steps of the *)
(* requests (LimitInv).                                                    *)
(***************************************************************************)
EXTENDS SpotCheck, FiniteSetTheorems, WellFoundedInduction, TLAPS

-----------------------------------------------------------------------------
(* The locals of a handler, as a function of their names.                  *)

Fields == {"client", "agent", "since", "stamp", "block", "owner", "host"}

Shaped(x) == x = [f \in Fields |-> x[f]]

\* What the request that `x` are the locals of has read at its pinned block.
AtPinned(x) == LET at == World[x.agent][x.block] IN at.owner = "held" /\ at.host = x.host

ProbesTo(h) == {probe \in sent : probe[2].host = h}

\* The handlers and what each of them has read.
LocalsOK ==
    /\ local = [r \in Requests |-> local[r]]
    /\ \A r \in Requests : Shaped(local[r])
    /\ pc = [r \in Requests |-> pc[r]]

\* Who is about to charge a host has read what it charges it for.
Backed == \A r \in Requests : pc[r] = "host" => AtPinned(local[r])

\* The log of what was granted to each key.
ChargesOK ==
    /\ admitted = [l \in Limiters |-> admitted[l]]
    /\ \A l \in Limiters : /\ admitted[l] = [k \in Keys[l] |-> admitted[l][k]]
                           /\ \A k \in Keys[l] : admitted[l][k] \in Seq(Nat)
    /\ now \in Nat

\* No host is sent more than it was charged for.
SentOK == /\ IsFiniteSet(sent)
          /\ \A probe \in sent : AtPinned(probe[2])
          /\ \A h \in Hosts : Cardinality(ProbesTo(h)) <= Len(admitted["host"][h])

\* What a handler has in hand is warranted by the block it is pinned to.
WarrantInv == LocalsOK /\ Backed /\ ChargesOK /\ SentOK

LEMMA NoLocalsShaped == Shaped(NoLocals)
  BY DEF Shaped, NoLocals, Fields

\* Each field of a handler's locals may be set without losing the others.
LEMMA SetField ==
    ASSUME NEW x, Shaped(x), NEW f \in Fields, NEW v
    PROVE  LET y == [x EXCEPT ![f] = v]
           IN  Shaped(y) /\ y[f] = v /\ \A g \in Fields : g # f => y[g] = x[g]
  BY DEF Shaped

LEMMA WarrantInit == Init => WarrantInv
  <1> SUFFICES ASSUME Init PROVE WarrantInv
    OBVIOUS
  <1>1. LocalsOK
    <2>1. \A r \in Requests : local[r] = NoLocals
      BY DEF Init
    <2>2. QED
      BY <2>1, NoLocalsShaped DEF Init, LocalsOK
  <1>2. Backed
    BY DEF Init, Backed
  <1>3. ChargesOK
    BY DEF Init, ChargesOK
  <1>4. SentOK
    <2>1. IsFiniteSet({}) /\ Cardinality({}) = 0
      BY FS_EmptySet
    <2>2. ASSUME NEW h \in Hosts PROVE ProbesTo(h) = {} /\ admitted["host"][h] = <<>>
      BY DEF Init, ProbesTo, Limiters, Keys
    <2>3. sent = {} /\ Len(<<>>) = 0
      BY DEF Init
    <2>4. QED
      BY <2>1, <2>2, <2>3 DEF SentOK
  <1>5. QED
    BY <1>1, <1>2, <1>3, <1>4 DEF WarrantInv

-----------------------------------------------------------------------------
(* Steps.                                                                  *)

\* What one request's step does to its own place and locals.
Moves(r) ==
    /\ \E where : pc' = [pc EXCEPT ![r] = where]
    /\ \E x : Shaped(x) /\ local' = [local EXCEPT ![r] = x]
    /\ pc'[r] = "host" => AtPinned(local'[r])

\* Such a step keeps the locals, and who is about to charge a host.
LEMMA MoveKeeps ==
    ASSUME WarrantInv, NEW r \in Requests, Moves(r)
    PROVE  LocalsOK' /\ Backed'
  <1>1. PICK where : pc' = [pc EXCEPT ![r] = where]
    BY DEF Moves
  <1>2. PICK x : Shaped(x) /\ local' = [local EXCEPT ![r] = x]
    BY DEF Moves
  <1>3. local'[r] = x /\ \A q \in Requests : q # r => local'[q] = local[q]
    BY <1>2 DEF WarrantInv, LocalsOK
  <1>4. \A q \in Requests : q # r => pc'[q] = pc[q]
    BY <1>1 DEF WarrantInv, LocalsOK
  <1>5. LocalsOK'
    <2>1. local' = [q \in Requests |-> local'[q]] /\ pc' = [q \in Requests |-> pc'[q]]
      BY <1>1, <1>2 DEF WarrantInv, LocalsOK
    <2>2. \A q \in Requests : Shaped(local'[q])
      BY <1>2, <1>3 DEF WarrantInv, LocalsOK
    <2>3. QED
      BY <2>1, <2>2 DEF LocalsOK, Shaped
  <1>6. Backed'
    BY <1>3, <1>4 DEF Moves, WarrantInv, Backed, AtPinned
  <1>7. QED
    BY <1>5, <1>6

\* Nothing is charged and nothing is sent.
LEMMA NothingSent ==
    ASSUME WarrantInv, UNCHANGED <<admitted, sent>>, now' \in Nat
    PROVE  ChargesOK' /\ SentOK'
  BY DEF WarrantInv, ChargesOK, SentOK, ProbesTo, AtPinned

\* An answer ends a handler.
LEMMA ReplyMoves == ASSUME WarrantInv, NEW r \in Requests, Reply(r) PROVE Moves(r)
  <1>1. pc'[r] = "done"
    BY DEF Reply, WarrantInv, LocalsOK
  <1>2. QED
    BY <1>1, NoLocalsShaped DEF Reply, Moves

\* To go on anywhere but to the charge of a host is always safe.
LEMMA GotoMoves ==
    ASSUME WarrantInv, NEW r \in Requests, NEW where, Goto(r, where), where # "host"
    PROVE  Moves(r)
  <1>1. pc'[r] = where
    BY DEF Goto, WarrantInv, LocalsOK
  <1>2. Shaped(local[r]) /\ local' = [local EXCEPT ![r] = local[r]]
    BY DEF Goto, WarrantInv, LocalsOK
  <1>3. QED
    BY <1>1, <1>2 DEF Goto, Moves

LEMMA ArriveMoves == ASSUME WarrantInv, NEW r \in Requests, Arrive(r) PROVE Moves(r)
  <1>1. PICK c \in Clients, a \in Agents :
            local' = [local EXCEPT ![r] = [NoLocals EXCEPT !.client = c, !.agent = a,
                                                           !.since = now, !.stamp = now]]
    BY DEF Arrive
  <1>2. Shaped([NoLocals EXCEPT !.client = c, !.agent = a, !.since = now, !.stamp = now])
    BY NoLocalsShaped DEF Shaped, Fields
  <1>3. pc' = [pc EXCEPT ![r] = "client"] /\ pc'[r] = "client"
    BY DEF Arrive, WarrantInv, LocalsOK
  <1>4. QED
    BY <1>1, <1>2, <1>3 DEF Moves

LEMMA PinMoves == ASSUME WarrantInv, NEW r \in Requests, Pin(r) PROVE Moves(r)
  <1>1. CASE Reply(r)
    BY <1>1, ReplyMoves
  <1>2. CASE /\ local' = [local EXCEPT ![r].block = head]
             /\ pc' = [pc EXCEPT ![r] = "snapshot"]
    <2>1. Shaped(local[r])
      BY DEF WarrantInv, LocalsOK
    <2>2. Shaped([local[r] EXCEPT !.block = head])
      BY <2>1 DEF Shaped, Fields
    <2>3. local' = [local EXCEPT ![r] = [local[r] EXCEPT !.block = head]]
      BY <1>2
    <2>4. pc'[r] = "snapshot"
      BY <1>2 DEF WarrantInv, LocalsOK
    <2>5. QED
      BY <1>2, <2>2, <2>3, <2>4 DEF Moves
  <1>3. QED
    BY <1>1, <1>2 DEF Pin

\* The host a handler goes on to charge is the one of the pinned block, and
\* somebody held the agent there.
LEMMA SnapshotMoves == ASSUME WarrantInv, NEW r \in Requests, Snapshot(r) PROVE Moves(r)
  <1>1. CASE Reply(r)
    BY <1>1, ReplyMoves
  <1>2. CASE ~ Reply(r)
    <2> DEFINE at == World[local[r].agent][local[r].block]
               x == [local[r] EXCEPT !.owner = at.owner, !.host = at.host, !.stamp = now]
    <2>1. /\ at.owner = "held"
          /\ pc' = [pc EXCEPT ![r] = IF at.host = NoHost THEN "fetching" ELSE "host"]
          /\ local' = [local EXCEPT ![r].owner = at.owner, ![r].host = at.host, ![r].stamp = now]
      BY <1>2 DEF Snapshot, ReadAt
    <2>2. Shaped(local[r]) /\ local = [q \in Requests |-> local[q]]
      BY DEF WarrantInv, LocalsOK
    <2>3. Shaped(x)
      BY <2>2 DEF Shaped, Fields
    <2>4. x.host = at.host /\ x.agent = local[r].agent /\ x.block = local[r].block
      BY <2>2 DEF Shaped, Fields
    <2>5. local' = [local EXCEPT ![r] = x]
      BY <2>1, <2>2
    <2>6. AtPinned(x)
      BY <2>1, <2>4 DEF AtPinned
    <2>7. local'[r] = x
      BY <2>2, <2>5
    <2> HIDE DEF x
    <2>8. AtPinned(local'[r])
      BY <2>6, <2>7
    <2>9. QED
      BY <2>1, <2>3, <2>5, <2>8 DEF Moves
  <1>3. QED
    BY <1>1, <1>2

\* try_acquire, whose admission goes on to anywhere but a charge.
LEMMA AcquireKeeps ==
    ASSUME WarrantInv, NEW r \in Requests, NEW l \in Limiters, NEW k, NEW where,
           where # "host", TryAcquire(r, l, k, where)
    PROVE  /\ Moves(r)
           /\ \/ admitted' = admitted
              \/ admitted' = [admitted EXCEPT ![l][k] = Append(@, now)] /\ Goto(r, where)
           /\ pc'[r] \in {where, "done"}
           /\ (pc'[r] = where /\ where # "done") => admitted' = [admitted EXCEPT ![l][k] = Append(@, now)]
  <1>1. CASE Binding(Tracked(l, k, local[r].stamp)[k], l, local[r].stamp) = {}
    <2>1. admitted' = [admitted EXCEPT ![l][k] = Append(@, now)] /\ Goto(r, where)
      BY <1>1 DEF TryAcquire
    <2>2. pc'[r] = where
      BY <2>1 DEF Goto, WarrantInv, LocalsOK
    <2>3. QED
      BY <2>1, <2>2, GotoMoves
  <1>2. CASE Binding(Tracked(l, k, local[r].stamp)[k], l, local[r].stamp) # {}
    <2>1. admitted' = admitted /\ Reply(r)
      BY <1>2 DEF TryAcquire
    <2>2. pc'[r] = "done"
      BY <2>1 DEF Reply, WarrantInv, LocalsOK
    <2>3. QED
      BY <2>1, <2>2, ReplyMoves
  <1>3. QED
    BY <1>1, <1>2

\* An admission is one entry more for its key, and no other changes.
LEMMA AppendKeeps ==
    ASSUME ChargesOK, NEW l \in Limiters, NEW k, now' = now,
           admitted' = [admitted EXCEPT ![l][k] = Append(@, now)]
    PROVE  /\ ChargesOK'
           /\ \A h \in Hosts : Len(admitted'["host"][h]) >= Len(admitted["host"][h])
           /\ (l = "host" /\ k \in Hosts) =>
                Len(admitted'["host"][k]) = Len(admitted["host"][k]) + 1
  <1> USE DEF ChargesOK
  <1>1. \A m \in Limiters : m # l => admitted'[m] = admitted[m]
    OBVIOUS
  <1>2. admitted'[l] = [admitted[l] EXCEPT ![k] = Append(@, now)]
    OBVIOUS
  <1>3. \A j \in Keys[l] : j # k => admitted'[l][j] = admitted[l][j]
    BY <1>2
  <1>4. k \in Keys[l] => /\ admitted'[l][k] = Append(admitted[l][k], now)
                         /\ admitted[l][k] \in Seq(Nat)
    BY <1>2
  <1>5. k \in Keys[l] => /\ admitted'[l][k] \in Seq(Nat)
                         /\ Len(admitted'[l][k]) = Len(admitted[l][k]) + 1
    BY <1>4
  <1>6. ChargesOK'
    <2>1. admitted' = [m \in Limiters |-> admitted'[m]]
      OBVIOUS
    <2>2. admitted'[l] = [j \in Keys[l] |-> admitted'[l][j]]
      BY <1>2
    <2>3. \A j \in Keys[l] : admitted'[l][j] \in Seq(Nat)
      BY <1>3, <1>5
    <2>4. QED
      BY <1>1, <2>1, <2>2, <2>3
  <1>7. Keys["host"] = Hosts /\ "host" \in Limiters
    BY DEF Keys, Limiters
  <1>8. ASSUME NEW h \in Hosts PROVE Len(admitted'["host"][h]) >= Len(admitted["host"][h])
    <2>1. admitted["host"][h] \in Seq(Nat) /\ Len(admitted["host"][h]) \in Nat
      BY <1>7
    <2>2. \/ admitted'["host"][h] = admitted["host"][h]
          \/ Len(admitted'["host"][h]) = Len(admitted["host"][h]) + 1
      BY <1>1, <1>3, <1>5, <1>7
    <2>3. QED
      BY <2>1, <2>2
  <1>9. QED
    BY <1>5, <1>6, <1>7, <1>8

LEMMA ChargeClientKeeps ==
    ASSUME WarrantInv, NEW r \in Requests, ChargeClient(r) PROVE WarrantInv'
  <1>1. "client" \in Limiters /\ TryAcquire(r, "client", local[r].client, "clients")
    BY DEF ChargeClient, Limiters
  <1>2. Moves(r)
    BY <1>1, AcquireKeeps
  <1>3. \/ admitted' = admitted
        \/ admitted' = [admitted EXCEPT !["client"][local[r].client] = Append(@, now)]
    BY <1>1, AcquireKeeps
  <1>4. now' = now /\ sent' = sent
    BY DEF ChargeClient
  <1>5. CASE admitted' = admitted
    BY <1>2, <1>4, <1>5, MoveKeeps, NothingSent DEF WarrantInv, ChargesOK
  <1>6. CASE admitted' = [admitted EXCEPT !["client"][local[r].client] = Append(@, now)]
    <2>1. ChargesOK' /\ admitted'["host"] = admitted["host"]
      BY <1>1, <1>4, <1>6, AppendKeeps DEF WarrantInv, ChargesOK, Limiters
    <2>2. SentOK'
      BY <1>4, <2>1 DEF WarrantInv, SentOK, ProbesTo, AtPinned
    <2>3. QED
      BY <1>2, <2>1, <2>2, MoveKeeps DEF WarrantInv
  <1>7. QED
    BY <1>3, <1>5, <1>6

LEMMA ChargeHostKeeps ==
    ASSUME WarrantInv, NEW r \in Requests, ChargeHost(r) PROVE WarrantInv'
  <1> DEFINE k == local[r].host
  <1>1. /\ "host" \in Limiters /\ TryAcquire(r, "host", k, "fetching")
        /\ pc[r] = "host" /\ now' = now
        /\ sent' = IF pc'[r] = "fetching" THEN sent \cup {<<r, local[r]>>} ELSE sent
    BY DEF ChargeHost, Limiters
  <1>2. /\ Moves(r)
        /\ admitted' = admitted \/ admitted' = [admitted EXCEPT !["host"][k] = Append(@, now)]
        /\ pc'[r] \in {"fetching", "done"}
        /\ pc'[r] = "fetching" => admitted' = [admitted EXCEPT !["host"][k] = Append(@, now)]
    <2>1. "fetching" # "host" /\ "fetching" # "done"
      OBVIOUS
    <2> HIDE DEF k
    <2>2. QED
      BY <1>1, <2>1, AcquireKeeps
  <1>3. AtPinned(local[r])
    BY <1>1 DEF WarrantInv, Backed
  <1>4. LocalsOK' /\ Backed'
    BY <1>2, MoveKeeps
  <1>5. /\ ChargesOK'
        /\ \A h \in Hosts : Len(admitted'["host"][h]) >= Len(admitted["host"][h])
    <2>1. CASE admitted' = admitted
      <3>1. \A h \in Hosts : Len(admitted["host"][h]) \in Nat
        BY DEF WarrantInv, ChargesOK, Limiters, Keys
      <3>2. QED
        BY <1>1, <2>1, <3>1 DEF WarrantInv, ChargesOK
    <2>2. CASE admitted' = [admitted EXCEPT !["host"][k] = Append(@, now)]
      BY <1>1, <2>2, AppendKeeps DEF WarrantInv
    <2>3. QED
      BY <1>2, <2>1, <2>2
  <1>6. \A h \in Hosts : /\ Len(admitted["host"][h]) \in Nat /\ Len(admitted'["host"][h]) \in Nat
                         /\ IsFiniteSet(ProbesTo(h)) /\ Cardinality(ProbesTo(h)) \in Nat
    <2>1. \A h \in Hosts : Len(admitted["host"][h]) \in Nat /\ Len(admitted'["host"][h]) \in Nat
      BY <1>5 DEF WarrantInv, ChargesOK, Limiters, Keys
    <2>2. \A h \in Hosts : IsFiniteSet(ProbesTo(h))
      BY FS_Subset DEF WarrantInv, SentOK, ProbesTo
    <2>3. QED
      BY <2>1, <2>2, FS_CardinalityType
  <1>7. SentOK'
    <2>1. CASE pc'[r] = "fetching"
      <3> DEFINE new == <<r, local[r]>>
      <3>1. sent' = sent \cup {new} /\ admitted' = [admitted EXCEPT !["host"][k] = Append(@, now)]
        BY <1>1, <1>2, <2>1
      <3>2. IsFiniteSet(sent')
        BY <3>1, FS_AddElement DEF WarrantInv, SentOK
      <3>3. \A probe \in sent' : AtPinned(probe[2])
        BY <1>3, <3>1 DEF WarrantInv, SentOK
      <3>4. ASSUME NEW h \in Hosts
            PROVE  Cardinality(ProbesTo(h)') <= Len(admitted'["host"][h])
        <4>1. Cardinality(ProbesTo(h)) <= Len(admitted["host"][h])
          BY DEF WarrantInv, SentOK
        <4>2. CASE h = k
          <5>1. ProbesTo(h)' = ProbesTo(h) \cup {new}
            BY <3>1, <4>2 DEF ProbesTo
          <5>2. Cardinality(ProbesTo(h)') <= Cardinality(ProbesTo(h)) + 1
            <6> HIDE DEF new
            <6>1. Cardinality(ProbesTo(h) \cup {new})
                    = IF new \in ProbesTo(h) THEN Cardinality(ProbesTo(h))
                                             ELSE Cardinality(ProbesTo(h)) + 1
              BY <1>6, FS_AddElement
            <6>2. QED
              BY <1>6, <5>1, <6>1
          <5>3. Len(admitted'["host"][h]) = Len(admitted["host"][h]) + 1
            BY <1>1, <3>1, <4>2, AppendKeeps DEF WarrantInv
          <5>4. Cardinality(ProbesTo(h)') \in Nat
            BY <1>6, <5>1, FS_AddElement, FS_CardinalityType
          <5>5. QED
            BY <1>6, <4>1, <5>2, <5>3, <5>4
        <4>3. CASE h # k
          <5>1. ProbesTo(h)' = ProbesTo(h)
            BY <3>1, <4>3 DEF ProbesTo
          <5>2. QED
            BY <1>5, <1>6, <4>1, <5>1
        <4>4. QED
          BY <4>2, <4>3
      <3>5. QED
        BY <3>2, <3>3, <3>4 DEF SentOK, AtPinned
    <2>2. CASE pc'[r] # "fetching"
      <3>1. sent' = sent
        BY <1>1, <2>2
      <3>2. \A h \in Hosts : Cardinality(ProbesTo(h)) <= Len(admitted'["host"][h])
        BY <1>5, <1>6 DEF WarrantInv, SentOK
      <3>3. QED
        BY <3>1, <3>2 DEF WarrantInv, SentOK, ProbesTo, AtPinned
    <2>3. QED
      BY <2>1, <2>2
  <1>8. QED
    BY <1>4, <1>5, <1>7 DEF WarrantInv

\* A step that neither charges nor sends is safe when its request moves safely.
LEMMA MoveOnly ==
    ASSUME WarrantInv, NEW r \in Requests, Moves(r), UNCHANGED <<now, admitted, sent>>
    PROVE  WarrantInv'
  BY MoveKeeps, NothingSent DEF WarrantInv, ChargesOK

LEMMA WarrantStep == ASSUME WarrantInv, [Next]_vars PROVE WarrantInv'
  <1>1. ASSUME UNCHANGED <<pc, local, admitted, sent>>, now' \in Nat PROVE WarrantInv'
    <2>1. LocalsOK' /\ Backed'
      BY <1>1 DEF WarrantInv, LocalsOK, Backed, Shaped, AtPinned
    <2>2. QED
      BY <1>1, <2>1, NothingSent DEF WarrantInv
  <1>2. CASE Tick
    BY <1>1, <1>2 DEF Tick, limits, WarrantInv, ChargesOK
  <1>3. CASE NewBlock
    BY <1>1, <1>3 DEF NewBlock, limits, WarrantInv, ChargesOK
  <1>4. ASSUME NEW r \in Requests, Malformed(r) PROVE WarrantInv'
    BY <1>4, ReplyMoves, MoveOnly DEF Malformed, limits
  <1>5. ASSUME NEW r \in Requests, Arrive(r) PROVE WarrantInv'
    BY <1>5, ArriveMoves, MoveOnly DEF Arrive, limits
  <1>6. ASSUME NEW r \in Requests, TakeClients(r) PROVE WarrantInv'
    <2>1. Goto(r, "pin") \/ Goto(r, "connecting")
      BY <1>6 DEF TakeClients
    <2>2. Moves(r)
      BY <2>1, GotoMoves
    <2>3. QED
      BY <1>6, <2>2, MoveOnly DEF TakeClients, limits
  <1>7. ASSUME NEW r \in Requests, Connect(r) PROVE WarrantInv'
    <2>1. Goto(r, "pin") \/ Reply(r)
      BY <1>7 DEF Connect
    <2>2. Moves(r)
      BY <2>1, GotoMoves, ReplyMoves
    <2>3. QED
      BY <1>7, <2>2, MoveOnly DEF Connect, limits
  <1>8. ASSUME NEW r \in Requests, Pin(r) PROVE WarrantInv'
    BY <1>8, PinMoves, MoveOnly DEF Pin, limits
  <1>9. ASSUME NEW r \in Requests, Snapshot(r) PROVE WarrantInv'
    BY <1>9, SnapshotMoves, MoveOnly DEF Snapshot, limits
  <1>10. ASSUME NEW r \in Requests, Answer(r) PROVE WarrantInv'
    BY <1>10, ReplyMoves, MoveOnly DEF Answer, limits
  <1>11. ASSUME NEW r \in Requests, TimesOut(r) \/ Disconnect(r) PROVE WarrantInv'
    <2>1. Drop(r)
      BY <1>11 DEF TimesOut, Disconnect
    <2>2. QED
      BY <2>1, ReplyMoves, MoveOnly DEF Drop, limits
  <1>12. CASE UNCHANGED vars
    BY <1>1, <1>12 DEF vars, limits, WarrantInv, ChargesOK
  <1>13. QED
    BY <1>2, <1>3, <1>4, <1>5, <1>6, <1>7, <1>8, <1>9, <1>10, <1>11, <1>12,
       ChargeClientKeeps, ChargeHostKeeps DEF Next

\* A document request is sent only for an agent somebody held at the block
\* the request was pinned to, to the host its URI had there, and there are
\* never more of them to a host than its budget was charged for, whatever
\* requests are dropped, time out or race for the limiters.
THEOREM ProbesAreWarranted == Spec => []ProbeIsWarranted
  <1>1. WarrantInv => ProbeIsWarranted
    BY DEF WarrantInv, SentOK, AtPinned, ProbesTo, ProbeIsWarranted
  <1>2. QED
    BY <1>1, WarrantInit, WarrantStep, PTL DEF Spec
-----------------------------------------------------------------------------
(* Numbers.                                                                *)

LEMMA LeastNat ==
    ASSUME NEW T \in SUBSET Nat, T # {} PROVE \E x \in T : \A y \in T : x <= y
  <1>1. PICK x \in T : \A y \in T : ~ (<<y, x>> \in OpToRel(<, Nat))
    BY NatLessThanWellFounded, WFMin
  <1>2. \A y \in T : ~(y < x)
    BY <1>1 DEF OpToRel
  <1>3. QED
    BY <1>2

\* A finite set of numbers has a greatest.
LEMMA FiniteMax ==
    ASSUME NEW S \in SUBSET Int, IsFiniteSet(S), S # {}
    PROVE  \E x \in S : \A y \in S : y <= x
  <1> DEFINE Good(T) == \E x \in T : \A y \in T : y <= x
             Bad == {n \in Nat : \E T \in SUBSET Int :
                        IsFiniteSet(T) /\ T # {} /\ Cardinality(T) = n /\ ~ Good(T)}
  <1>1. Bad = {}
    <2> SUFFICES ASSUME Bad # {} PROVE FALSE
      OBVIOUS
    <2>1. PICK n \in Bad : \A m \in Bad : n <= m
      <3>1. Bad \in SUBSET Nat
        OBVIOUS
      <3> HIDE DEF Bad
      <3>2. QED
        BY <3>1, LeastNat
    <2>2. PICK T \in SUBSET Int : IsFiniteSet(T) /\ T # {} /\ Cardinality(T) = n /\ ~ Good(T)
      OBVIOUS
    <2>3. PICK x \in T : TRUE
      BY <2>2
    <2> DEFINE U == T \ {x}
    <2>4. IsFiniteSet(U) /\ Cardinality(U) = n - 1 /\ Cardinality(U) \in Nat
      BY <2>2, <2>3, FS_RemoveElement, FS_CardinalityType
    <2>5. U # {}
      BY <2>2
    <2>6. Good(U)
      <3> HIDE DEF Good
      <3>1. n \in Nat /\ n - 1 \in Nat
        BY <2>4
      <3>2. n - 1 \notin Bad
        BY <2>1, <3>1
      <3>3. QED
        BY <2>4, <2>5, <3>1, <3>2
    <2>7. PICK u \in U : \A y \in U : y <= u
      BY <2>6
    <2>8. CASE x <= u
      BY <2>2, <2>7, <2>8
    <2>9. CASE u <= x
      <3>1. \A y \in T : y <= x
        <4>1. \A y \in U : y <= x
          BY <2>7, <2>9
        <4>2. QED
          BY <4>1
      <3>2. QED
        BY <2>2, <3>1
    <2>10. QED
      BY <2>8, <2>9
  <1>2. Cardinality(S) \in Nat
    BY FS_CardinalityType
  <1> HIDE DEF Good
  <1>3. Good(S)
    BY <1>1, <1>2
  <1>4. QED
    BY <1>3 DEF Good

LEMMA MaxIs ==
    ASSUME NEW S \in SUBSET Int, IsFiniteSet(S), S # {}
    PROVE  Max(S) \in S /\ \A y \in S : y <= Max(S)
  <1>1. \E x \in S : \A y \in S : x >= y
    BY FiniteMax
  <1>2. QED
    BY <1>1 DEF Max

LEMMA MinIs ==
    ASSUME NEW S \in SUBSET Nat, S # {}
    PROVE  Min(S) \in S /\ \A y \in S : Min(S) <= y
  BY LeastNat DEF Min

LEMMA MinOfTwo == ASSUME NEW x \in Int, NEW y \in Int PROVE Min({x, y}) = IF x <= y THEN x ELSE y
  BY DEF Min

\* Of at least n positions, one has exactly n from it on.
LEMMA FromTheEnd ==
    ASSUME NEW S \in SUBSET Nat, IsFiniteSet(S), NEW n \in Nat \ {0}, Cardinality(S) >= n
    PROVE  \E b \in S : Cardinality({j \in S : j >= b}) = n
  <1> DEFINE From(i) == {j \in S : j >= i}
             K == {i \in S : Cardinality(From(i)) >= n}
  <1>1. \A T \in SUBSET S : IsFiniteSet(T) /\ Cardinality(T) \in Nat
    BY FS_Subset, FS_CardinalityType
  <1>2. S # {}
    BY FS_EmptySet
  <1>3. K # {}
    <2>1. PICK x \in S : \A y \in S : x <= y
      BY <1>2, LeastNat
    <2>2. From(x) = S
      BY <2>1
    <2>3. QED
      BY <2>2
  <1>4. PICK b \in K : \A y \in K : y <= b
    <2>1. IsFiniteSet(K) /\ K \in SUBSET Int
      <3>1. K \in SUBSET S
        OBVIOUS
      <3> HIDE DEF K
      <3>2. QED
        BY <1>1, <3>1
    <2> HIDE DEF K
    <2>2. QED
      BY <1>3, <2>1, FiniteMax
  <1>5. b \in S /\ Cardinality(From(b)) >= n /\ Cardinality(From(b)) \in Nat
    BY <1>1
  <1>6. ASSUME Cardinality(From(b)) > n PROVE FALSE
    <2> DEFINE R == From(b) \ {b}
    <2>1. IsFiniteSet(From(b)) /\ b \in From(b)
      BY <1>1, <1>5
    <2>2. Cardinality(R) = Cardinality(From(b)) - 1
      BY <2>1, FS_RemoveElement
    <2>3. Cardinality(R) >= n
      BY <1>5, <1>6, <2>2
    <2>4. R # {}
      BY <2>3, FS_EmptySet
    <2>5. PICK c \in R : \A y \in R : c <= y
      <3>1. R \in SUBSET Nat
        OBVIOUS
      <3> HIDE DEF R
      <3>2. QED
        BY <2>4, <3>1, LeastNat
    <2>6. c \in S /\ c \in Nat /\ b \in Nat /\ c > b
      BY <1>5, <2>5
    <2>7. From(c) = R
      <3>1. ASSUME NEW j \in S PROVE j >= c <=> j >= b /\ j # b
        <4>1. j >= b /\ j # b => j \in R
          OBVIOUS
        <4>2. QED
          BY <2>5, <2>6, <4>1
      <3>2. QED
        BY <3>1
    <2>8. c \in K
      BY <2>3, <2>6, <2>7
    <2>9. QED
      BY <1>4, <2>6, <2>8
  <1>7. Cardinality(From(b)) = n
    <2> HIDE DEF From
    <2>1. QED
      BY <1>5, <1>6
  <1>8. QED
    BY <1>5, <1>7

-----------------------------------------------------------------------------
(* One queue of hits, H, and the admissions A that it is what is left of.  *)

\* Where the i-th of the last g of a things is among them.
LEMMA Inside ==
    ASSUME NEW a \in Nat, NEW g \in Nat, g <= a, NEW i \in 1 .. g
    PROVE  a - g + i \in 1 .. a /\ \A j \in 1 .. g : i <= j => a - g + i <= a - g + j
  OBVIOUS

LEMMA Shifted ==
    ASSUME NEW a \in Nat, NEW h \in Nat, NEW g \in Nat, NEW m \in Nat, NEW i \in Nat,
           a - g = a - h + m
    PROVE  a - g + i = a - h + (m + i)
  OBVIOUS

LEMMA OldIsOut ==
    ASSUME NEW a \in Nat, NEW n \in Nat, NEW w \in Nat, NEW longest \in Nat, NEW s \in Nat,
           w <= longest, a + longest <= n + s
    PROVE  ~ (n - a < w - s)
  OBVIOUS

LEMMA Longest ==
    ASSUME NEW l \in Limiters
    PROVE  /\ longest_window(l) \in Nat
           /\ \A q \in Quotas[l] : /\ q.limit \in Nat \ {0} /\ q.window \in Nat \ {0}
                                   /\ q.window <= longest_window(l)
  <1> DEFINE S == {q.window : q \in Quotas[l]}
  <1>1. /\ IsFiniteSet(Quotas[l]) /\ Quotas[l] # {}
        /\ \A q \in Quotas[l] : q.limit \in Nat \ {0} /\ q.window \in Nat \ {0}
    BY SpotCheckAssumption
  <1>2. S \in SUBSET Int /\ S # {} /\ S \subseteq Nat
    <2>1. \A q \in Quotas[l] : q.window \in Nat /\ q.window \in Int
      BY <1>1
    <2>2. S \subseteq Nat /\ S \subseteq Int
      BY <2>1
    <2>3. S # {}
      BY <1>1
    <2>4. QED
      BY <2>2, <2>3
  <1>3. IsFiniteSet(S)
    <2> DEFINE f == [q \in Quotas[l] |-> q.window]
    <2>1. f \in Surjection(Quotas[l], S)
      BY DEF Surjection
    <2> HIDE DEF f, S
    <2>2. QED
      BY <1>1, <2>1, FS_Surjection
  <1>4. longest_window(l) = Max(S)
    BY DEF longest_window
  <1> HIDE DEF S
  <1>5. Max(S) \in S /\ \A y \in S : y <= Max(S)
    BY <1>2, <1>3, MaxIs
  <1>6. QED
    BY <1>1, <1>2, <1>4, <1>5 DEF S

\* Admissions, in the order of time, up to now.
Log(A, n) ==
    /\ A \in Seq(Nat)
    /\ \A i \in 1 .. Len(A) : A[i] <= n
    /\ \A i, j \in 1 .. Len(A) : i <= j => A[i] <= A[j]

\* The queue is the tail of the stamps of the admissions, and what it lost is
\* too old for every quota.
Trails(l, H, A, n) ==
    /\ H \in Seq(Nat) /\ Len(H) <= Len(A)
    /\ \A i \in 1 .. Len(H) :
          /\ H[i] <= A[Len(A) - Len(H) + i]
          /\ A[Len(A) - Len(H) + i] <= H[i] + Skew
    /\ \A i \in 1 .. Len(A) - Len(H) : A[i] + longest_window(l) <= n + Skew

\* What is left of a queue when the first m hits are too old.
LEMMA TrailSuffix ==
    ASSUME NEW l \in Limiters, NEW H, NEW A, NEW n \in Nat, Log(A, n), Trails(l, H, A, n),
           NEW m \in 0 .. Len(H),
           \A i \in 1 .. m : A[Len(A) - Len(H) + i] + longest_window(l) <= n + Skew
    PROVE  Trails(l, SubSeq(H, m + 1, Len(H)), A, n)
  <1> DEFINE G == SubSeq(H, m + 1, Len(H))
  <1>1. H \in Seq(Nat) /\ Len(H) \in Nat /\ Len(A) \in Nat /\ Len(H) <= Len(A)
    BY DEF Log, Trails
  <1>2. G \in Seq(Nat) /\ Len(G) = Len(H) - m /\ \A i \in 1 .. Len(H) - m : G[i] = H[m + i]
    BY <1>1
  <1>3. Len(G) \in Nat /\ Len(G) <= Len(A)
    <2> HIDE DEF G
    <2>1. m \in Nat /\ m <= Len(H)
      BY <1>1
    <2>2. QED
      BY <1>1, <1>2, <2>1
  <1>4. Len(A) - Len(G) = Len(A) - Len(H) + m
    <2> HIDE DEF G
    <2>1. m \in Nat
      BY <1>1
    <2>2. QED
      BY <1>1, <1>2, <2>1
  <1> HIDE DEF G
  <1>5. ASSUME NEW i \in 1 .. Len(G)
        PROVE  /\ G[i] <= A[Len(A) - Len(G) + i]
               /\ A[Len(A) - Len(G) + i] <= G[i] + Skew
    <2>1. m + i \in 1 .. Len(H) /\ G[i] = H[m + i]
      BY <1>1, <1>2
    <2>2. Len(A) - Len(G) + i = Len(A) - Len(H) + (m + i)
      <3>1. m \in Nat /\ i \in Nat
        BY <1>1
      <3>2. QED
        BY <1>1, <1>3, <1>4, <3>1, Shifted
    <2>3. QED
      BY <2>1, <2>2 DEF Trails
  <1>6. ASSUME NEW i \in 1 .. Len(A) - Len(G)
        PROVE  A[i] + longest_window(l) <= n + Skew
    <2>1. CASE i <= Len(A) - Len(H)
      BY <1>1, <2>1 DEF Trails
    <2>2. CASE i > Len(A) - Len(H)
      <3>1. i - (Len(A) - Len(H)) \in 1 .. m
        BY <1>1, <1>4, <2>2
      <3>2. Len(A) - Len(H) + (i - (Len(A) - Len(H))) = i
        BY <1>1
      <3>3. QED
        BY <3>1, <3>2
    <2>3. QED
      BY <1>1, <2>1, <2>2
  <1>7. Trails(l, G, A, n)
    BY <1>2, <1>3, <1>5, <1>6 DEF Trails
  <1>8. QED
    BY <1>7 DEF G

\* Ages only grow.
LEMMA TrailLater ==
    ASSUME NEW l \in Limiters, NEW H, NEW A, NEW n \in Nat, NEW later \in Nat, n <= later,
           Log(A, n), Trails(l, H, A, n)
    PROVE  Log(A, later) /\ Trails(l, H, A, later)
  <1>1. /\ A \in Seq(Nat) /\ \A i \in 1 .. Len(A) : A[i] \in Nat
        /\ H \in Seq(Nat) /\ Len(H) <= Len(A) /\ Len(H) \in Nat /\ Len(A) \in Nat
        /\ longest_window(l) \in Nat /\ Skew \in Nat
    BY Longest, SpotCheckAssumption DEF Log, Trails
  <1>2. Log(A, later)
    BY <1>1 DEF Log
  <1>3. \A i \in 1 .. Len(A) - Len(H) : i \in 1 .. Len(A)
    BY <1>1
  <1>4. \A i \in 1 .. Len(A) - Len(H) : A[i] + longest_window(l) <= later + Skew
    BY <1>1, <1>3 DEF Trails
  <1>5. QED
    BY <1>2, <1>4 DEF Trails

\* An admission goes to the end of both.
LEMMA TrailAppend ==
    ASSUME NEW l \in Limiters, NEW H, NEW A, NEW n \in Nat, Log(A, n), Trails(l, H, A, n),
           NEW t \in Nat, t <= n, n <= t + Skew
    PROVE  Log(Append(A, n), n) /\ Trails(l, Append(H, t), Append(A, n), n)
  <1> DEFINE B == Append(A, n)
             G == Append(H, t)
  <1>1. A \in Seq(Nat) /\ H \in Seq(Nat) /\ Len(A) \in Nat /\ Len(H) \in Nat /\ Len(H) <= Len(A)
    BY DEF Log, Trails
  <1>2. /\ B \in Seq(Nat) /\ Len(B) = Len(A) + 1 /\ B[Len(A) + 1] = n
        /\ \A i \in 1 .. Len(A) : B[i] = A[i]
    BY <1>1
  <1>3. /\ G \in Seq(Nat) /\ Len(G) = Len(H) + 1 /\ G[Len(H) + 1] = t
        /\ \A i \in 1 .. Len(H) : G[i] = H[i]
    BY <1>1
  <1> HIDE DEF B, G
  <1>4. Log(B, n)
    <2>1. \A i \in 1 .. Len(B) : i \in 1 .. Len(A) \/ i = Len(A) + 1
      BY <1>1, <1>2
    <2>2. ASSUME NEW i \in 1 .. Len(B) PROVE B[i] <= n
      <3>1. CASE i = Len(A) + 1
        BY <1>2, <3>1
      <3>2. CASE i \in 1 .. Len(A)
        BY <1>2, <3>2 DEF Log
      <3>3. QED
        BY <2>1, <3>1, <3>2
    <2>3. ASSUME NEW i \in 1 .. Len(B), NEW j \in 1 .. Len(B), i <= j PROVE B[i] <= B[j]
      <3>1. CASE j = Len(A) + 1
        BY <1>2, <2>2, <3>1
      <3>2. CASE j \in 1 .. Len(A)
        <4>1. i \in 1 .. Len(A)
          BY <1>1, <2>3, <3>2
        <4>2. QED
          BY <1>2, <2>3, <3>2, <4>1 DEF Log
      <3>3. QED
        BY <2>1, <3>1, <3>2
    <2>4. QED
      BY <1>2, <2>2, <2>3 DEF Log
  <1>5. Len(B) - Len(G) = Len(A) - Len(H)
    BY <1>1, <1>2, <1>3
  <1>6. ASSUME NEW i \in 1 .. Len(G)
        PROVE  G[i] <= B[Len(B) - Len(G) + i] /\ B[Len(B) - Len(G) + i] <= G[i] + Skew
    <2>1. CASE i = Len(H) + 1
      <3>1. Len(A) - Len(H) + i = Len(A) + 1
        BY <1>1, <2>1
      <3>2. QED
        BY <1>2, <1>3, <1>5, <2>1, <3>1
    <2>2. CASE i \in 1 .. Len(H)
      <3>1. Len(A) - Len(H) + i \in 1 .. Len(A)
        BY <1>1, <2>2
      <3>2. QED
        BY <1>2, <1>3, <1>5, <2>2, <3>1 DEF Trails
    <2>3. QED
      BY <1>1, <1>3, <2>1, <2>2
  <1>7. ASSUME NEW i \in 1 .. Len(B) - Len(G)
        PROVE  B[i] + longest_window(l) <= n + Skew
    <2>1. i \in 1 .. Len(A) - Len(H) /\ i \in 1 .. Len(A)
      BY <1>1, <1>5
    <2>2. QED
      BY <1>2, <2>1 DEF Trails
  <1>8. Trails(l, G, B, n)
    BY <1>1, <1>2, <1>3, <1>6, <1>7 DEF Trails
  <1>9. QED
    BY <1>4, <1>8 DEF B, G

\* pop_front takes the first hits, and each of them is too old.
LEMMA KeptIs ==
    ASSUME NEW H \in Seq(Nat), NEW longest, NEW t
    PROVE  \E m \in 0 .. Len(H) :
              /\ Kept(H, longest, t) = SubSeq(H, m + 1, Len(H))
              /\ \A i \in 1 .. m : ~ (Age(t, H[i]) < longest)
  <1> DEFINE fresh == {i \in DOMAIN H : Age(t, H[i]) < longest}
  <1>1. DOMAIN H = 1 .. Len(H) /\ Len(H) \in Nat
    OBVIOUS
  <1>2. Kept(H, longest, t) = IF fresh = {} THEN <<>> ELSE SubSeq(H, Min(fresh), Len(H))
    BY DEF Kept
  <1>3. CASE fresh = {}
    <2>1. SubSeq(H, Len(H) + 1, Len(H)) = <<>>
      BY <1>1
    <2>2. \A i \in 1 .. Len(H) : ~ (Age(t, H[i]) < longest)
      BY <1>1, <1>3
    <2>3. Len(H) \in 0 .. Len(H)
      BY <1>1
    <2> HIDE DEF fresh
    <2>4. QED
      BY <1>2, <1>3, <2>1, <2>2, <2>3
  <1>4. CASE fresh # {}
    <2>1. fresh \in SUBSET Nat
      BY <1>1
    <2>2. Min(fresh) \in fresh /\ \A y \in fresh : Min(fresh) <= y
      <3> HIDE DEF fresh
      <3>1. QED
        BY <1>4, <2>1, MinIs
    <2>3. Min(fresh) \in 1 .. Len(H)
      BY <1>1, <2>2
    <2>4. PICK m \in 0 .. Len(H) : m + 1 = Min(fresh)
      <3>1. Min(fresh) - 1 \in 0 .. Len(H) /\ (Min(fresh) - 1) + 1 = Min(fresh)
        <4> HIDE DEF fresh
        <4>1. QED
          BY <1>1, <2>3
      <3> HIDE DEF fresh
      <3>2. QED
        BY <3>1
    <2>5. \A i \in 1 .. m : ~ (Age(t, H[i]) < longest)
      <3> SUFFICES ASSUME NEW i \in 1 .. m PROVE i \in DOMAIN H /\ i \notin fresh
        OBVIOUS
      <3> HIDE DEF fresh
      <3>1. i \in DOMAIN H /\ i < Min(fresh) /\ Min(fresh) \in Nat
        BY <1>1, <2>3, <2>4
      <3>2. QED
        BY <2>2, <3>1
    <2> HIDE DEF fresh
    <2>6. QED
      BY <1>2, <1>4, <2>4, <2>5
  <1>5. QED
    BY <1>3, <1>4

\* What is too old at a stamp is out of every window, and its admission too,
\* but for what a preempted thread loses.
LEMMA TooOld ==
    ASSUME NEW l \in Limiters, NEW h \in Nat, NEW a \in Nat, NEW t \in Nat, NEW n \in Nat,
           a <= h + Skew, t <= n, ~ (Age(t, h) < longest_window(l))
    PROVE  a + longest_window(l) <= n + Skew
  <1>1. longest_window(l) \in Nat /\ longest_window(l) > 0 /\ Skew \in Nat
    <2>1. PICK q \in Quotas[l] : TRUE
      BY SpotCheckAssumption
    <2>2. QED
      BY <2>1, Longest, SpotCheckAssumption
  <1>2. t - h >= longest_window(l)
    BY <1>1 DEF Age
  <1>3. QED
    BY <1>1, <1>2

\* What a queue, or a key's absence, amounts to.
Queue(tracked, k) == IF k \in DOMAIN tracked THEN tracked[k] ELSE <<>>

\* G is H without first hits that are too old.
Trims(l, H, G, A, n) ==
    \E m \in 0 .. Len(H) :
        /\ G = SubSeq(H, m + 1, Len(H))
        /\ \A i \in 1 .. m : A[Len(A) - Len(H) + i] + longest_window(l) <= n + Skew

\* The sweep and the expiry of one call take, of every queue, first hits that
\* are too old, and never reach what a window still counts.
LEMMA CallKeeps ==
    ASSUME NEW l \in Limiters, NEW k, NEW j, NEW A, NEW t \in Nat, NEW n \in Nat, t <= n,
           Log(A, n), Trails(l, Queue(hits[l], j), A, n)
    PROVE  Trims(l, Queue(hits[l], j), Queue(Tracked(l, k, t), j), A, n)
  <1> DEFINE H == Queue(hits[l], j)
             longest == longest_window(l)
             swept == Swept(hits[l], longest, t)
             S == Queue(swept, j)
             G == Queue(Tracked(l, k, t), j)
             Gone(m) == \A i \in 1 .. m : A[Len(A) - Len(H) + i] + longest <= n + Skew
  <1>1. /\ H \in Seq(Nat) /\ Len(H) \in Nat /\ A \in Seq(Nat) /\ Len(A) \in Nat
        /\ Len(H) <= Len(A)
        /\ \A i \in 1 .. Len(H) : A[Len(A) - Len(H) + i] <= H[i] + Skew
    BY DEF Log, Trails
  <1>2. \A i \in 1 .. Len(H) : /\ Len(A) - Len(H) + i \in 1 .. Len(A)
                               /\ A[Len(A) - Len(H) + i] \in Nat /\ H[i] \in Nat
    <2> HIDE DEF H
    <2>1. ASSUME NEW i \in 1 .. Len(H) PROVE Len(A) - Len(H) + i \in 1 .. Len(A)
      BY <1>1, Inside
    <2>2. (\A i \in 1 .. Len(A) : A[i] \in Nat) /\ (\A i \in 1 .. Len(H) : H[i] \in Nat)
      BY <1>1
    <2>3. QED
      BY <2>1, <2>2
  <1>3. S = H \/ (S = <<>> /\ Gone(Len(H)))
    <2>1. CASE j \notin DOMAIN hits[l]
      <3>1. j \notin DOMAIN swept
        BY <2>1 DEF Swept
      <3>2. QED
        BY <2>1, <3>1 DEF Queue
    <2>2. CASE j \in DOMAIN hits[l] /\ j \in DOMAIN swept
      <3>1. swept[j] = hits[l][j]
        BY <2>2 DEF Swept
      <3>2. QED
        BY <2>2, <3>1 DEF Queue
    <2>3. CASE j \in DOMAIN hits[l] /\ j \notin DOMAIN swept
      <3>1. H = hits[l][j] /\ S = <<>>
        BY <2>3 DEF Queue
      <3>2. H = <<>> \/ ~ (Age(t, H[Len(H)]) < longest)
        BY <2>3, <3>1 DEF Swept
      <3> HIDE DEF S, swept
      <3>3. CASE H = <<>>
        BY <3>1, <3>3
      <3>4. CASE H # <<>> /\ ~ (Age(t, H[Len(H)]) < longest)
        <4> HIDE DEF H
        <4>1. Len(H) \in 1 .. Len(H)
          BY <1>1, <3>4
        <4>2. A[Len(A)] + longest <= n + Skew
          <5>1. Len(A) - Len(H) + Len(H) = Len(A)
            BY <1>1
          <5>2. /\ A[Len(A)] <= H[Len(H)] + Skew /\ A[Len(A)] \in Nat /\ H[Len(H)] \in Nat
            BY <1>1, <1>2, <4>1, <5>1
          <5>3. QED
            BY <3>4, <5>2, TooOld
        <4>3. ASSUME NEW i \in 1 .. Len(H)
              PROVE  A[Len(A) - Len(H) + i] + longest <= n + Skew
          <5>1. Len(A) - Len(H) + i \in 1 .. Len(A) /\ Len(A) \in 1 .. Len(A)
            BY <1>1, <1>2
          <5>2. A[Len(A) - Len(H) + i] <= A[Len(A)]
            BY <5>1 DEF Log
          <5>3. A[Len(A)] \in Nat /\ longest \in Nat /\ Skew \in Nat
            BY <1>1, <5>1, Longest, SpotCheckAssumption
          <5>4. QED
            BY <1>2, <4>2, <5>2, <5>3
        <4>4. QED
          BY <3>1, <4>3
      <3>5. QED
        BY <3>2, <3>3, <3>4
    <2>4. QED
      BY <2>1, <2>2, <2>3
  <1>4. G = S \/ G = Kept(S, longest, t)
    <2>1. CASE j # k
      BY <2>1 DEF Tracked, Queue
    <2>2. CASE j = k
      <3>1. G = IF k \in DOMAIN swept THEN Kept(swept[k], longest, t) ELSE <<>>
        BY <2>2 DEF Tracked, Queue
      <3>2. QED
        BY <2>2, <3>1 DEF Queue
    <2>3. QED
      BY <2>1, <2>2
  <1>5. ASSUME S = <<>> PROVE G = <<>>
    <2>1. Kept(<<>>, longest, t) = <<>>
      BY DEF Kept
    <2>2. QED
      BY <1>4, <1>5, <2>1
  <1> HIDE DEF S, G, H, swept
  <1>6. CASE S = <<>> /\ Gone(Len(H))
    <2>1. SubSeq(H, Len(H) + 1, Len(H)) = <<>> /\ Len(H) \in 0 .. Len(H)
      BY <1>1
    <2>2. QED
      BY <1>5, <1>6, <2>1 DEF G, H, Trims
  <1>7. CASE S = H /\ G = S
    <2>1. SubSeq(H, 1, Len(H)) = H /\ 0 \in 0 .. Len(H)
      BY <1>1
    <2>2. QED
      BY <1>7, <2>1 DEF G, H, Trims
  <1>8. CASE S = H /\ G = Kept(S, longest, t)
    <2>1. PICK m \in 0 .. Len(H) :
             /\ G = SubSeq(H, m + 1, Len(H))
             /\ \A i \in 1 .. m : ~ (Age(t, H[i]) < longest)
      BY <1>1, <1>8, KeptIs
    <2>2. ASSUME NEW i \in 1 .. m
          PROVE  A[Len(A) - Len(H) + i] + longest <= n + Skew
      <3>1. i \in 1 .. Len(H)
        BY <1>1
      <3>2. QED
        BY <1>1, <1>2, <2>1, <3>1, TooOld
    <2>3. QED
      BY <2>1, <2>2 DEF G, H, Trims
  <1>9. QED
    BY <1>3, <1>4, <1>6, <1>7, <1>8

LEMMA SeqIs ==
    ASSUME NEW G \in Seq(Nat)
    PROVE  Len(G) \in Nat /\ DOMAIN G = 1 .. Len(G) /\ \A i \in 1 .. Len(G) : G[i] \in Nat
  OBVIOUS

\* The stamp of an admission younger than a window, less the skew, is in it.
LEMMA YoungIsInside ==
    ASSUME NEW a \in Nat, NEW b \in Nat, NEW h \in Nat, NEW w \in Nat \ {0},
           NEW t \in Nat, NEW n \in Nat,
           n - a < w - Skew, a <= b, b <= h + Skew, t <= n
    PROVE  Age(t, h) < w
  <1>1. Skew \in Nat
    BY SpotCheckAssumption
  <1>2. t < h + w
    BY <1>1
  <1>3. QED
    BY <1>2 DEF Age

\* A window holds a number of the queue's positions.
LEMMA WindowCounts ==
    ASSUME NEW G \in Seq(Nat), NEW q, NEW t
    PROVE  /\ InWindow(G, q, t) \in SUBSET (1 .. Len(G)) /\ Len(G) \in Nat
           /\ IsFiniteSet(InWindow(G, q, t)) /\ Cardinality(InWindow(G, q, t)) \in Nat
  <1>1. Len(G) \in Nat /\ DOMAIN G = 1 .. Len(G)
    OBVIOUS
  <1>2. IsFiniteSet(1 .. Len(G))
    BY <1>1, FS_Interval
  <1>3. InWindow(G, q, t) \in SUBSET (1 .. Len(G))
    BY <1>1 DEF InWindow
  <1>4. QED
    BY <1>1, <1>2, <1>3, FS_Subset, FS_CardinalityType

\* The last L of a numbers are among the last g of them, from a place on.
LEMMA LastOf ==
    ASSUME NEW a \in Nat, NEW g \in Nat, NEW i \in Nat, NEW L \in Nat \ {0},
           g <= a, i + L = a + 1, i > a - g
    PROVE  \E first \in 1 .. g :
              /\ g - first + 1 = L
              /\ \A j \in first .. g : j \in 1 .. g /\ a - g + j \in 1 .. a /\ i <= a - g + j
  <1>1. i - (a - g) \in 1 .. g /\ g - (i - (a - g)) + 1 = L
    OBVIOUS
  <1>2. \A j \in i - (a - g) .. g : j \in 1 .. g /\ a - g + j \in 1 .. a /\ i <= a - g + j
    OBVIOUS
  <1>3. QED
    BY <1>1, <1>2

\* Where less than a quota's limit of hits is in its window, the admission that
\* is as many back as the limit is older than the window, less the skew.
LEMMA RoomMeansSpaced ==
    ASSUME NEW l \in Limiters, NEW q \in Quotas[l], NEW G, NEW A, NEW t \in Nat, NEW n \in Nat,
           t <= n, Log(A, n), Trails(l, G, A, n),
           Cardinality(InWindow(G, q, t)) < q.limit,
           NEW i \in 1 .. Len(A), i + q.limit = Len(A) + 1
    PROVE  n - A[i] >= q.window - Skew
  <1>1. /\ q.limit \in Nat \ {0} /\ q.window \in Nat \ {0} /\ q.window <= longest_window(l)
        /\ longest_window(l) \in Nat /\ Skew \in Nat
    BY Longest, SpotCheckAssumption
  <1>2. /\ A \in Seq(Nat) /\ Len(A) \in Nat /\ G \in Seq(Nat) /\ Len(G) \in Nat
        /\ Len(G) <= Len(A) /\ A[i] \in Nat
    BY DEF Log, Trails
  <1>3. SUFFICES ASSUME n - A[i] < q.window - Skew PROVE FALSE
    BY <1>1, <1>2
  <1>4. i > Len(A) - Len(G)
    <2> SUFFICES ASSUME i <= Len(A) - Len(G) PROVE FALSE
      BY <1>2
    <2>1. i \in 1 .. Len(A) - Len(G)
      BY <1>2
    <2>2. A[i] + longest_window(l) <= n + Skew
      BY <2>1 DEF Trails
    <2>3. QED
      BY <1>1, <1>2, <1>3, <2>2, OldIsOut
  <1>5. PICK first \in 1 .. Len(G) :
          /\ Len(G) - first + 1 = q.limit
          /\ \A j \in first .. Len(G) :
                /\ j \in 1 .. Len(G) /\ Len(A) - Len(G) + j \in 1 .. Len(A)
                /\ i <= Len(A) - Len(G) + j
    <2> DEFINE a == Len(A)
               g == Len(G)
               L == q.limit
    <2>1. a \in Nat /\ g \in Nat /\ i \in Nat /\ L \in Nat \ {0}
      BY <1>1, <1>2
    <2>2. g <= a /\ i + L = a + 1 /\ i > a - g
      BY <1>2, <1>4
    <2>3. \E first \in 1 .. g :
             /\ g - first + 1 = L
             /\ \A j \in first .. g : j \in 1 .. g /\ a - g + j \in 1 .. a /\ i <= a - g + j
      <3> HIDE DEF a, g, L
      <3>1. QED
        BY <2>1, <2>2, LastOf
    <2>4. QED
      BY <2>3
  <1> DEFINE last == first .. Len(G)
  <1>6. last \subseteq InWindow(G, q, t)
    <2> SUFFICES ASSUME NEW j \in first .. Len(G) PROVE j \in InWindow(G, q, t)
      OBVIOUS
    <2>1. j \in 1 .. Len(G) /\ j \in DOMAIN G /\ G[j] \in Nat
      BY <1>2, <1>5, SeqIs
    <2>2. Len(A) - Len(G) + j \in 1 .. Len(A) /\ i <= Len(A) - Len(G) + j
      BY <1>5
    <2>3. A[i] <= A[Len(A) - Len(G) + j] /\ A[Len(A) - Len(G) + j] \in Nat
      BY <1>2, <2>2, SeqIs DEF Log
    <2>4. A[Len(A) - Len(G) + j] <= G[j] + Skew
      BY <2>1 DEF Trails
    <2>6. Age(t, G[j]) < q.window
      BY <1>1, <1>2, <1>3, <2>1, <2>3, <2>4, YoungIsInside
    <2>7. QED
      BY <2>1, <2>6 DEF InWindow
  <1>7. Cardinality(last) = q.limit
    <2>1. first \in Int /\ Len(G) \in Int /\ ~ (first > Len(G))
      BY <1>2, <1>5
    <2>2. QED
      BY <1>5, <2>1, FS_Interval
  <1>8. IsFiniteSet(InWindow(G, q, t)) /\ Cardinality(InWindow(G, q, t)) \in Nat
    BY <1>2, WindowCounts
  <1>9. Cardinality(last) <= Cardinality(InWindow(G, q, t))
    <2> HIDE DEF last
    <2>1. QED
      BY <1>6, <1>8, FS_Subset
  <1>10. QED
    BY <1>1, <1>7, <1>8, <1>9

\* Windows that are kept stay kept when an admission finds room.
Spaced(l, A) ==
    \A q \in Quotas[l] : \A i \in DOMAIN A :
        i + q.limit \in DOMAIN A => A[i + q.limit] - A[i] >= q.window - Skew

LEMMA AdmissionIsSpaced ==
    ASSUME NEW l \in Limiters, NEW G, NEW A, NEW t \in Nat, NEW n \in Nat, t <= n,
           Log(A, n), Trails(l, G, A, n), Binding(G, l, t) = {}, Spaced(l, A)
    PROVE  Spaced(l, Append(A, n))
  <1> DEFINE B == Append(A, n)
  <1>1. /\ A \in Seq(Nat) /\ Len(A) \in Nat /\ DOMAIN A = 1 .. Len(A)
        /\ DOMAIN B = 1 .. Len(A) + 1 /\ B[Len(A) + 1] = n
        /\ \A i \in 1 .. Len(A) : B[i] = A[i]
    BY DEF Log
  <1> SUFFICES ASSUME NEW q \in Quotas[l], NEW i \in DOMAIN B, i + q.limit \in DOMAIN B
               PROVE  B[i + q.limit] - B[i] >= q.window - Skew
    BY DEF Spaced
  <1>2. q.limit \in Nat \ {0}
    BY Longest
  <1> HIDE DEF B
  <1>3. i \in 1 .. Len(A)
    BY <1>1, <1>2
  <1>4. CASE i + q.limit \in 1 .. Len(A)
    BY <1>1, <1>3, <1>4 DEF Spaced
  <1>5. CASE i + q.limit = Len(A) + 1
    <2>1. Cardinality(InWindow(G, q, t)) < q.limit
      <3>1. ~ (Cardinality(InWindow(G, q, t)) >= q.limit)
        BY DEF Binding
      <3>2. Cardinality(InWindow(G, q, t)) \in Nat
        BY WindowCounts DEF Trails
      <3>3. QED
        BY <1>2, <3>1, <3>2
    <2>2. n - A[i] >= q.window - Skew
      BY <1>3, <1>5, <2>1, RoomMeansSpaced
    <2>3. QED
      BY <1>1, <1>3, <1>5, <2>2
  <1>6. QED
    BY <1>1, <1>2, <1>4, <1>5
-----------------------------------------------------------------------------
(* Who waits.                                                              *)

\* What is left of a queue holds no more of a window than the queue did.
LEMMA ClearSuffix ==
    ASSUME NEW l \in Limiters, NEW H \in Seq(Nat), NEW m \in 0 .. Len(H), NEW t,
           Binding(H, l, t) = {}
    PROVE  Binding(SubSeq(H, m + 1, Len(H)), l, t) = {}
  <1> DEFINE G == SubSeq(H, m + 1, Len(H))
  <1>1. /\ Len(H) \in Nat /\ m \in Nat /\ DOMAIN H = 1 .. Len(H)
        /\ G \in Seq(Nat) /\ DOMAIN G = 1 .. Len(H) - m
        /\ \A i \in 1 .. Len(H) - m : G[i] = H[m + i]
    OBVIOUS
  <1> HIDE DEF G
  <1> SUFFICES ASSUME NEW q \in Quotas[l], Cardinality(InWindow(G, q, t)) >= q.limit
               PROVE  FALSE
    BY DEF Binding, G
  <1> DEFINE S == {i \in InWindow(H, q, t) : i > m}
             f == [i \in S |-> i - m]
  <1>2. f \in Surjection(S, InWindow(G, q, t))
    <2>1. ASSUME NEW i \in S PROVE i - m \in InWindow(G, q, t)
      <3>1. i \in 1 .. Len(H) /\ i > m /\ Age(t, H[i]) < q.window
        BY <1>1 DEF InWindow
      <3>2. i - m \in 1 .. Len(H) - m /\ m + (i - m) = i
        BY <1>1, <3>1
      <3>3. G[i - m] = H[i]
        BY <1>1, <3>2
      <3>4. QED
        BY <1>1, <3>1, <3>2, <3>3 DEF InWindow
    <2>2. ASSUME NEW j \in InWindow(G, q, t) PROVE \E i \in S : i - m = j
      <3>1. j \in 1 .. Len(H) - m /\ G[j] = H[m + j] /\ Age(t, G[j]) < q.window
        BY <1>1 DEF InWindow
      <3>2. m + j \in 1 .. Len(H) /\ m + j > m /\ (m + j) - m = j
        BY <1>1, <3>1
      <3>3. m + j \in S
        BY <1>1, <3>1, <3>2 DEF InWindow
      <3>4. QED
        BY <3>2, <3>3
    <2> HIDE DEF S
    <2>3. f \in [S -> InWindow(G, q, t)]
      BY <2>1
    <2>4. QED
      BY <2>2, <2>3 DEF Surjection
  <1>3. /\ IsFiniteSet(InWindow(H, q, t)) /\ Cardinality(InWindow(H, q, t)) \in Nat
        /\ IsFiniteSet(InWindow(G, q, t)) /\ Cardinality(InWindow(G, q, t)) \in Nat
    BY <1>1, WindowCounts
  <1>4. /\ IsFiniteSet(S) /\ Cardinality(S) \in Nat
        /\ Cardinality(S) <= Cardinality(InWindow(H, q, t))
    <2>1. S \in SUBSET InWindow(H, q, t)
      OBVIOUS
    <2> HIDE DEF S
    <2>2. QED
      BY <1>3, <2>1, FS_Subset, FS_CardinalityType
  <1>5. Cardinality(InWindow(G, q, t)) <= Cardinality(S)
    <2> HIDE DEF S, f
    <2>1. QED
      BY <1>2, <1>4, FS_Surjection
  <1>6. ~ (Cardinality(InWindow(H, q, t)) >= q.limit) /\ q.limit \in Nat
    BY Longest DEF Binding
  <1> HIDE DEF S
  <1>7. QED
    BY <1>3, <1>4, <1>5, <1>6

\* A hit that is not younger than the one to wait for, but for the skew, is out
\* of the window after the wait, and the skew.
LEMMA OutByThen ==
    ASSUME NEW n \in Nat, NEW t \in Nat, NEW t0 \in Nat, NEW b \in Nat, NEW h \in Nat,
           NEW w \in Nat \ {0}, t0 <= n, h <= b + Skew, h <= n,
           t >= n + (w - Age(t0, b)) + Skew
    PROVE  ~ (Age(t, h) < w)
  <1>1. Skew \in Nat
    BY SpotCheckAssumption
  <1>2. t >= h + w
    <2>1. CASE t0 < b
      BY <1>1, <2>1 DEF Age
    <2>2. CASE ~ (t0 < b)
      BY <1>1, <2>2 DEF Age
    <2>3. QED
      BY <2>1, <2>2
  <1>3. QED
    BY <1>2 DEF Age

\* A stamp before another in the queue is not much later than that one.
LEMMA Overtaken ==
    ASSUME NEW h \in Nat, NEW a \in Nat, NEW b \in Nat, NEW g \in Nat, NEW n \in Nat,
           h <= a, a <= b, b <= g + Skew, a <= n
    PROVE  h <= g + Skew /\ h <= n
  BY SpotCheckAssumption

\* What binding quotas ask to wait.
LEMMA RemainingIs ==
    ASSUME NEW l \in Limiters, NEW G \in Seq(Nat), NEW t \in Nat, NEW q \in Binding(G, l, t)
    PROVE  \E b \in InWindow(G, q, t) :
              /\ Cardinality({j \in InWindow(G, q, t) : j >= b}) = q.limit
              /\ Remaining(G, q, t) = q.window - Age(t, G[b])
              /\ Remaining(G, q, t) \in Nat
  <1> DEFINE in_window == InWindow(G, q, t)
             Blocks0(b) == Cardinality({j \in in_window : j >= b}) = q.limit
             blocker == CHOOSE b \in in_window : Blocks0(b)
  <1>1. /\ q \in Quotas[l] /\ q.limit \in Nat \ {0} /\ q.window \in Nat \ {0}
        /\ Cardinality(in_window) >= q.limit
    BY Longest DEF Binding
  <1>2. in_window \in SUBSET Nat /\ in_window \in SUBSET (1 .. Len(G)) /\ IsFiniteSet(in_window)
    BY WindowCounts
  <1>3. \E b \in in_window : Blocks0(b)
    <2> HIDE DEF in_window
    <2>1. QED
      BY <1>1, <1>2, FromTheEnd
  <1>4. blocker \in in_window /\ Blocks0(blocker)
    <2> HIDE DEF in_window, Blocks0
    <2>1. QED
      BY <1>3
  <1>5. Remaining(G, q, t) = q.window - Age(t, G[blocker])
    BY DEF Remaining
  <1>6. Age(t, G[blocker]) < q.window /\ G[blocker] \in Nat
    BY <1>2, <1>4, SeqIs DEF InWindow
  <1>7. Age(t, G[blocker]) \in Nat
    BY <1>6 DEF Age
  <1> HIDE DEF blocker
  <1>8. Remaining(G, q, t) \in Nat
    BY <1>1, <1>5, <1>6, <1>7
  <1>9. QED
    BY <1>4, <1>5, <1>8

\* The longest of them.
LEMMA WaitIs ==
    ASSUME NEW l \in Limiters, NEW G \in Seq(Nat), NEW t \in Nat, Binding(G, l, t) # {}
    PROVE  /\ Wait(G, l, t) \in Nat
           /\ \A q \in Binding(G, l, t) : Remaining(G, q, t) <= Wait(G, l, t)
  <1> DEFINE B == Binding(G, l, t)
             S == {Remaining(G, q, t) : q \in B}
             f == [q \in B |-> Remaining(G, q, t)]
  <1>1. IsFiniteSet(B)
    BY SpotCheckAssumption, FS_Subset DEF Binding
  <1>2. \A q \in B : Remaining(G, q, t) \in Nat
    BY RemainingIs
  <1>3. S \in SUBSET Int /\ S \in SUBSET Nat /\ S # {}
    <2> HIDE DEF B
    <2>1. S \subseteq Nat /\ S \subseteq Int
      BY <1>2
    <2>2. QED
      BY <2>1 DEF B
  <1>4. IsFiniteSet(S)
    <2>1. f \in Surjection(B, S)
      BY DEF Surjection
    <2> HIDE DEF f, S, B
    <2>2. QED
      BY <1>1, <2>1, FS_Surjection
  <1>5. Wait(G, l, t) = Max(S)
    BY DEF Wait
  <1> HIDE DEF S
  <1>6. Max(S) \in S /\ \A y \in S : y <= Max(S)
    BY <1>3, <1>4, MaxIs
  <1>7. \A q \in B : Remaining(G, q, t) \in S
    BY DEF S
  <1>8. QED
    BY <1>3, <1>5, <1>6, <1>7

\* Who comes back when a refusal said, and the skew later, finds room for itself.
LEMMA WaitIsEnough ==
    ASSUME NEW l \in Limiters, NEW G, NEW A, NEW n \in Nat, NEW t0 \in Nat, NEW t \in Nat,
           t0 <= n, Log(A, n), Trails(l, G, A, n), Binding(G, l, t0) # {},
           t >= n + Wait(G, l, t0) + Skew
    PROVE  Binding(G, l, t) = {}
  <1>1. /\ A \in Seq(Nat) /\ G \in Seq(Nat) /\ Len(A) \in Nat /\ Len(G) \in Nat
        /\ Len(G) <= Len(A) /\ Skew \in Nat
    BY SpotCheckAssumption DEF Log, Trails
  <1>2. /\ Wait(G, l, t0) \in Nat
        /\ \A q \in Binding(G, l, t0) : Remaining(G, q, t0) <= Wait(G, l, t0)
    BY <1>1, WaitIs
  <1>3. t >= t0
    BY <1>1, <1>2
  <1> SUFFICES ASSUME NEW q \in Quotas[l], Cardinality(InWindow(G, q, t)) >= q.limit
               PROVE  FALSE
    BY DEF Binding
  <1>4. q.limit \in Nat \ {0} /\ q.window \in Nat \ {0}
    BY Longest
  <1>5. \A i \in 1 .. Len(G) : G[i] \in Nat /\ i \in DOMAIN G
    BY <1>1, SeqIs
  <1>6. /\ InWindow(G, q, t) \in SUBSET (1 .. Len(G))
        /\ IsFiniteSet(InWindow(G, q, t)) /\ Cardinality(InWindow(G, q, t)) \in Nat
        /\ InWindow(G, q, t0) \in SUBSET (1 .. Len(G))
        /\ IsFiniteSet(InWindow(G, q, t0)) /\ Cardinality(InWindow(G, q, t0)) \in Nat
    BY <1>1, WindowCounts
  <1>7. InWindow(G, q, t) \subseteq InWindow(G, q, t0)
    <2> SUFFICES ASSUME NEW i \in InWindow(G, q, t) PROVE Age(t0, G[i]) < q.window
      BY DEF InWindow
    <2>1. Age(t, G[i]) < q.window /\ G[i] \in Nat
      BY <1>5, <1>6 DEF InWindow
    <2>2. QED
      BY <1>3, <1>4, <2>1 DEF Age
  <1>8. q \in Binding(G, l, t0)
    <2>1. Cardinality(InWindow(G, q, t)) <= Cardinality(InWindow(G, q, t0))
      BY <1>6, <1>7, FS_Subset
    <2>2. Cardinality(InWindow(G, q, t0)) >= q.limit
      BY <1>4, <1>6, <2>1
    <2>3. QED
      BY <2>2 DEF Binding
  <1>9. PICK b \in InWindow(G, q, t0) :
           /\ Cardinality({j \in InWindow(G, q, t0) : j >= b}) = q.limit
           /\ Remaining(G, q, t0) = q.window - Age(t0, G[b])
           /\ Remaining(G, q, t0) \in Nat
    BY <1>1, <1>8, RemainingIs
  <1>10. t >= n + (q.window - Age(t0, G[b])) + Skew
    <2>1. Remaining(G, q, t0) <= Wait(G, l, t0)
      BY <1>2, <1>8
    <2>2. t >= n + Remaining(G, q, t0) + Skew
      BY <1>1, <1>2, <1>9, <2>1
    <2>3. QED
      BY <1>9, <2>2
  <1> DEFINE From == {j \in InWindow(G, q, t0) : j >= b}
  <1>11. InWindow(G, q, t) \subseteq From \ {b}
    <2> SUFFICES ASSUME NEW j \in InWindow(G, q, t), j <= b PROVE FALSE
      <3>1. \A j \in InWindow(G, q, t) : j \in Nat /\ b \in Nat
        BY <1>6
      <3>2. QED
        BY <1>7, <3>1
    <2> DEFINE d == Len(A) - Len(G)
    <2>1. j \in 1 .. Len(G) /\ b \in 1 .. Len(G) /\ G[j] \in Nat /\ G[b] \in Nat
      BY <1>5, <1>6
    <2>2. d + j \in 1 .. Len(A) /\ d + b \in 1 .. Len(A) /\ d + j <= d + b
      BY <1>1, <2>1, Inside
    <2>3. A[d + j] \in Nat /\ A[d + b] \in Nat /\ A[d + j] <= A[d + b] /\ A[d + j] <= n
      BY <1>1, <2>2, SeqIs DEF Log
    <2>4. G[j] <= A[d + j] /\ A[d + b] <= G[b] + Skew
      BY <2>1 DEF Trails
    <2>8. PICK x \in Nat, y \in Nat : x <= y /\ x <= n /\ G[j] <= x /\ y <= G[b] + Skew
      BY <2>3, <2>4
    <2> HIDE DEF d
    <2>5. G[j] <= G[b] + Skew /\ G[j] <= n
      BY <2>1, <2>8, Overtaken
    <2>6. ~ (Age(t, G[j]) < q.window)
      BY <1>4, <1>10, <2>1, <2>5, OutByThen
    <2>7. QED
      BY <2>6 DEF InWindow
  <1>12. IsFiniteSet(From) /\ Cardinality(From \ {b}) = q.limit - 1 /\ IsFiniteSet(From \ {b})
    <2>1. IsFiniteSet(From) /\ b \in From
      <3>1. b \in Nat /\ From \in SUBSET InWindow(G, q, t0)
        BY <1>6
      <3>2. b \in From
        BY <3>1
      <3> HIDE DEF From
      <3>3. QED
        BY <1>6, <3>1, <3>2, FS_Subset
    <2>2. Cardinality(From) = q.limit
      BY <1>9
    <2> HIDE DEF From
    <2>3. QED
      BY <2>1, <2>2, FS_RemoveElement
  <1> HIDE DEF From
  <1>13. Cardinality(InWindow(G, q, t)) <= q.limit - 1
    BY <1>11, <1>12, FS_Subset
  <1>14. QED
    BY <1>4, <1>6, <1>13
-----------------------------------------------------------------------------
(* The limiters, while requests run.                                       *)

\* The queue of a key holds what the log of its grants has within the windows, and
\* the log keeps the quotas.
QueuesOK ==
    /\ now \in Nat /\ now <= LastArrival + Deadline
    /\ hits = [l \in Limiters |-> hits[l]]
    /\ \A l \in Limiters : \A k \in Keys[l] :
          /\ Log(admitted[l][k], now)
          /\ Trails(l, Queue(hits[l], k), admitted[l][k], now)
          /\ Spaced(l, admitted[l][k])

\* Who comes at the time a refusal named, or later, finds room.
PromisesOK ==
    /\ promise = [l \in Limiters |-> promise[l]]
    /\ \A l \in Limiters :
          /\ promise[l] = [k \in Keys[l] |-> promise[l][k]]
          /\ \A k \in Keys[l] :
                /\ promise[l][k] \in Nat
                /\ \A t \in Nat :
                      t >= promise[l][k] + Skew /\ t <= LastArrival + Deadline
                         => Binding(Queue(hits[l], k), l, t) = {}

\* Where a handler may still ask for a host to charge.
Early == {"client", "clients", "connecting", "pin", "snapshot"}

\* A handler about to charge has a stamp that is not older than the skew.
PlaceOK(r) ==
    /\ pc[r] \in {"client", "host"} =>
          local[r].stamp \in Nat /\ local[r].stamp <= now /\ now <= local[r].stamp + Skew
    /\ pc[r] = "client" => local[r].client \in Clients
    /\ pc[r] \in Early => local[r].agent \in Agents
    /\ pc[r] = "snapshot" => local[r].block \in Blocks
    /\ pc[r] = "host" => local[r].host \in Hosts

PlacesOK == head \in Blocks /\ \A r \in Requests : PlaceOK(r)

LimitInv == WarrantInv /\ QueuesOK /\ PromisesOK /\ PlacesOK

\* A call of the limiter, under its mutex, for a request whose stamp is fresh.
LEMMA CallOK ==
    ASSUME LimitInv, NEW r \in Requests, NEW l \in Limiters, NEW k \in Keys[l], NEW where,
           TryAcquire(r, l, k, where), now' = now,
           local[r].stamp \in Nat, local[r].stamp <= now, now <= local[r].stamp + Skew
    PROVE  QueuesOK' /\ PromisesOK'
  <1> DEFINE t == local[r].stamp
             tracked == Tracked(l, k, t)
             G == Queue(tracked, k)
             A == admitted[l][k]
  <1>1. /\ now \in Nat /\ Skew \in Nat /\ LastArrival \in Nat /\ Deadline \in Nat
        /\ now <= LastArrival + Deadline
    BY SpotCheckAssumption DEF LimitInv, QueuesOK
  <1>2. k \in DOMAIN tracked /\ G = tracked[k]
    BY DEF Tracked, Queue
  <1>3. tracked = [j \in DOMAIN tracked |-> tracked[j]]
    BY DEF Tracked
  \* Every queue of this limiter loses first hits that are too old.
  <1>4. ASSUME NEW j \in Keys[l]
        PROVE  /\ Log(admitted[l][j], now)
               /\ Trails(l, Queue(tracked, j), admitted[l][j], now)
               /\ \A at : Binding(Queue(hits[l], j), l, at) = {}
                             => Binding(Queue(tracked, j), l, at) = {}
    <2> DEFINE H == Queue(hits[l], j)
    <2>1. Log(admitted[l][j], now) /\ Trails(l, H, admitted[l][j], now)
      BY DEF LimitInv, QueuesOK
    <2>2. PICK m \in 0 .. Len(H) :
             /\ Queue(tracked, j) = SubSeq(H, m + 1, Len(H))
             /\ \A i \in 1 .. m : admitted[l][j][Len(admitted[l][j]) - Len(H) + i]
                                     + longest_window(l) <= now + Skew
      <3>1. t \in Nat /\ t <= now
        OBVIOUS
      <3> HIDE DEF t
      <3>2. Trims(l, H, Queue(tracked, j), admitted[l][j], now)
        BY <1>1, <2>1, <3>1, CallKeeps
      <3> HIDE DEF H, tracked
      <3>3. QED
        BY <3>2 DEF Trims
    <2>3. H \in Seq(Nat)
      BY <2>1 DEF Trails
    <2> HIDE DEF H, tracked
    <2>4. Trails(l, Queue(tracked, j), admitted[l][j], now)
      BY <1>1, <2>1, <2>2, TrailSuffix
    <2>5. \A at : Binding(H, l, at) = {} => Binding(Queue(tracked, j), l, at) = {}
      BY <2>2, <2>3, ClearSuffix
    <2>6. QED
      BY <2>1, <2>4, <2>5 DEF H
  <1>5. /\ hits = [x \in Limiters |-> hits[x]]
        /\ admitted = [x \in Limiters |-> admitted[x]]
        /\ admitted[l] = [j \in Keys[l] |-> admitted[l][j]]
        /\ promise = [x \in Limiters |-> promise[x]]
        /\ promise[l] = [j \in Keys[l] |-> promise[l][j]]
    BY DEF LimitInv, QueuesOK, PromisesOK, WarrantInv, ChargesOK
  \* What one key's queue, its admissions and its promise have to be afterwards.
  <1> DEFINE After(x, j) ==
                /\ Log(admitted'[x][j], now)
                /\ Trails(x, Queue(hits'[x], j), admitted'[x][j], now)
                /\ Spaced(x, admitted'[x][j])
             Kept1(x, j) ==
                /\ promise'[x][j] \in Nat
                /\ \A at \in Nat :
                      at >= promise'[x][j] + Skew /\ at <= LastArrival + Deadline
                         => Binding(Queue(hits'[x], j), x, at) = {}
  <1>6. ASSUME NEW x \in Limiters, x # l, NEW j \in Keys[x],
               hits'[x] = hits[x], admitted'[x] = admitted[x], promise'[x] = promise[x]
        PROVE  After(x, j) /\ Kept1(x, j)
    BY <1>6 DEF LimitInv, QueuesOK, PromisesOK
  <1>7. ASSUME NEW j \in Keys[l], admitted'[l][j] = admitted[l][j], promise'[l][j] = promise[l][j],
               Queue(hits'[l], j) = Queue(tracked, j)
        PROVE  After(l, j) /\ Kept1(l, j)
    <2> HIDE DEF tracked
    <2>1. Spaced(l, admitted[l][j])
      BY DEF LimitInv, QueuesOK
    <2>2. /\ promise[l][j] \in Nat
          /\ \A at \in Nat : at >= promise[l][j] + Skew /\ at <= LastArrival + Deadline
                                => Binding(Queue(hits[l], j), l, at) = {}
      BY DEF LimitInv, PromisesOK
    <2>3. QED
      BY <1>4, <1>7, <2>1, <2>2
  <1>8. CASE Binding(G, l, t) = {}
    <2> DEFINE new == [tracked EXCEPT ![k] = Append(@, t)]
    <2>1. /\ hits' = [hits EXCEPT ![l] = new]
          /\ admitted' = [admitted EXCEPT ![l][k] = Append(@, now)]
          /\ promise' = [promise EXCEPT ![l][k] = Forever]
      BY <1>2, <1>8 DEF TryAcquire
    <2>2. Queue(new, k) = Append(G, t) /\ \A j \in Keys[l] : j # k => Queue(new, j) = Queue(tracked, j)
      <3> HIDE DEF tracked
      <3>1. QED
        BY <1>2, <1>3 DEF Queue
    <2> HIDE DEF new, tracked
    <2>3. /\ hits' = [x \in Limiters |-> hits'[x]] /\ hits'[l] = new
          /\ \A x \in Limiters : x # l => /\ hits'[x] = hits[x] /\ admitted'[x] = admitted[x]
                                          /\ promise'[x] = promise[x]
          /\ promise' = [x \in Limiters |-> promise'[x]]
      BY <1>5, <2>1
    <2>4. /\ admitted'[l][k] = Append(A, now) /\ promise'[l][k] = Forever
          /\ promise'[l] = [j \in Keys[l] |-> promise'[l][j]]
          /\ \A j \in Keys[l] : j # k => /\ admitted'[l][j] = admitted[l][j]
                                         /\ promise'[l][j] = promise[l][j]
      BY <1>5, <2>1
    <2>5. After(l, k)
      <3>1. Log(A, now) /\ Trails(l, G, A, now) /\ Spaced(l, A)
        BY <1>4 DEF LimitInv, QueuesOK
      <3>2. Log(Append(A, now), now) /\ Trails(l, Append(G, t), Append(A, now), now)
        BY <1>1, <3>1, TrailAppend
      <3>3. Spaced(l, Append(A, now))
        BY <1>1, <1>8, <3>1, AdmissionIsSpaced
      <3>4. QED
        BY <2>2, <2>3, <2>4, <3>2, <3>3
    <2>6. Kept1(l, k)
      <3>1. Forever \in Nat /\ LastArrival + Deadline < Forever
        BY <1>1 DEF Forever
      <3>2. \A at \in Nat : ~ (at >= Forever + Skew /\ at <= LastArrival + Deadline)
        BY <1>1, <3>1
      <3>3. QED
        BY <2>4, <3>1, <3>2
    <2> HIDE DEF After, Kept1
    <2>7. \A j \in Keys[l] : After(l, j) /\ Kept1(l, j)
      BY <1>7, <2>2, <2>3, <2>4, <2>5, <2>6
    <2>8. \A x \in Limiters : \A j \in Keys[x] : After(x, j) /\ Kept1(x, j)
      BY <1>6, <2>3, <2>7
    <2>9. QueuesOK'
      BY <1>1, <2>3, <2>8 DEF QueuesOK, After
    <2>10. \A x \in Limiters : promise'[x] = [j \in Keys[x] |-> promise'[x][j]]
      BY <2>3, <2>4 DEF LimitInv, PromisesOK
    <2>11. QED
      BY <2>3, <2>8, <2>9, <2>10 DEF PromisesOK, Kept1
  <1>9. CASE Binding(G, l, t) # {}
    <2> DEFINE named == now + Wait(G, l, t)
    <2>1. /\ hits' = [hits EXCEPT ![l] = tracked]
          /\ admitted' = admitted
          /\ promise' = [promise EXCEPT ![l][k] = Min({@, named})]
      BY <1>2, <1>9 DEF TryAcquire
    <2> HIDE DEF tracked, named
    <2>2. /\ hits' = [x \in Limiters |-> hits'[x]] /\ hits'[l] = tracked
          /\ \A x \in Limiters : x # l => /\ hits'[x] = hits[x] /\ promise'[x] = promise[x]
          /\ promise' = [x \in Limiters |-> promise'[x]]
      BY <1>5, <2>1
    <2>3. /\ promise'[l][k] = Min({promise[l][k], named})
          /\ promise'[l] = [j \in Keys[l] |-> promise'[l][j]]
          /\ \A j \in Keys[l] : j # k => promise'[l][j] = promise[l][j]
      BY <1>5, <2>1
    <2>4. named \in Nat /\ promise[l][k] \in Nat
      <3>1. G \in Seq(Nat)
        BY <1>4 DEF Trails
      <3>2. Wait(G, l, t) \in Nat
        BY <1>9, <3>1, WaitIs
      <3>3. QED
        BY <1>1, <3>2 DEF LimitInv, PromisesOK, named
    <2>5. promise'[l][k] = promise[l][k] \/ promise'[l][k] = named
      BY <2>3, <2>4, MinOfTwo
    <2>6. Spaced(l, A) /\ Log(A, now) /\ Trails(l, G, A, now)
      BY <1>4 DEF LimitInv, QueuesOK
    <2>7. ASSUME promise'[l][k] = promise[l][k] PROVE After(l, k) /\ Kept1(l, k)
      <3>1. admitted'[l][k] = admitted[l][k] /\ Queue(hits'[l], k) = Queue(tracked, k)
        BY <2>1, <2>2
      <3> HIDE DEF After, Kept1
      <3>2. QED
        BY <1>7, <2>7, <3>1
    <2>8. ASSUME promise'[l][k] = named PROVE After(l, k) /\ Kept1(l, k)
      <3>1. \A at \in Nat : at >= named + Skew => Binding(G, l, at) = {}
        BY <1>1, <1>9, <2>6, WaitIsEnough DEF named
      <3>2. Queue(hits'[l], k) = G
        BY <2>2
      <3>3. After(l, k)
        BY <2>1, <2>6, <3>2
      <3>4. Kept1(l, k)
        <4>1. promise'[l][k] + Skew = named + Skew /\ promise'[l][k] \in Nat
          BY <2>4, <2>8
        <4>2. QED
          BY <3>1, <3>2, <4>1
      <3>5. QED
        BY <3>3, <3>4
    <2>9. After(l, k) /\ Kept1(l, k)
      <3> HIDE DEF After, Kept1
      <3>1. QED
        BY <2>5, <2>7, <2>8
    <2> HIDE DEF After, Kept1
    <2>10. \A j \in Keys[l] : After(l, j) /\ Kept1(l, j)
      BY <1>7, <2>1, <2>2, <2>3, <2>9
    <2>11. \A x \in Limiters : \A j \in Keys[x] : After(x, j) /\ Kept1(x, j)
      BY <1>6, <2>1, <2>2, <2>10
    <2>12. QueuesOK'
      BY <1>1, <2>2, <2>11 DEF QueuesOK, After
    <2>13. \A x \in Limiters : promise'[x] = [j \in Keys[x] |-> promise'[x][j]]
      BY <2>2, <2>3 DEF LimitInv, PromisesOK
    <2>14. QED
      BY <2>2, <2>11, <2>12, <2>13 DEF PromisesOK, Kept1
  <1>10. QED
    BY <1>8, <1>9

\* One request moves and is in a place it may be in; the others stay.
LEMMA PlacesMove ==
    ASSUME WarrantInv, PlacesOK, NEW r \in Requests, Moves(r), UNCHANGED <<now, head>>,
           PlaceOK(r)'
    PROVE  PlacesOK'
  <1>1. \A q \in Requests : q # r => pc'[q] = pc[q] /\ local'[q] = local[q]
    BY DEF Moves, WarrantInv, LocalsOK
  <1>2. ASSUME NEW q \in Requests, q # r PROVE PlaceOK(q)'
    BY <1>1, <1>2 DEF PlacesOK, PlaceOK
  <1>3. QED
    BY <1>2 DEF PlacesOK

\* Who has answered is nowhere, and who goes on within a handler keeps its agent.
LEMMA ReplyPlace == ASSUME WarrantInv, NEW r \in Requests, Reply(r) PROVE PlaceOK(r)'
  <1>1. pc'[r] = "done"
    BY DEF Reply, WarrantInv, LocalsOK
  <1>2. QED
    BY <1>1 DEF PlaceOK, Early

LEMMA GotoPlace ==
    ASSUME WarrantInv, PlacesOK, NEW r \in Requests, pc[r] \in Early,
           NEW where \in {"clients", "connecting", "pin"}, Goto(r, where)
    PROVE  PlaceOK(r)'
  <1>1. pc'[r] = where /\ local'[r] = local[r]
    BY DEF Goto, WarrantInv, LocalsOK
  <1>2. QED
    BY <1>1 DEF PlacesOK, PlaceOK, Early

LEMMA ArrivePlace == ASSUME LimitInv, NEW r \in Requests, Arrive(r) PROVE PlaceOK(r)'
  <1>1. PICK c \in Clients, a \in Agents :
            local' = [local EXCEPT ![r] = [NoLocals EXCEPT !.client = c, !.agent = a,
                                                           !.since = now, !.stamp = now]]
    BY DEF Arrive
  <1>2. pc'[r] = "client" /\ now' = now
    BY DEF Arrive, LimitInv, WarrantInv, LocalsOK
  <1>3. local'[r].client = c /\ local'[r].agent = a /\ local'[r].stamp = now
    BY <1>1, NoLocalsShaped DEF LimitInv, WarrantInv, LocalsOK, Shaped, Fields
  <1>4. now \in Nat /\ now <= now + Skew
    BY SpotCheckAssumption DEF LimitInv, QueuesOK
  <1>5. QED
    BY <1>2, <1>3, <1>4 DEF PlaceOK

LEMMA PinPlace == ASSUME LimitInv, NEW r \in Requests, Pin(r) PROVE PlaceOK(r)'
  <1>1. CASE Reply(r)
    BY <1>1, ReplyPlace DEF LimitInv
  <1>2. CASE /\ local' = [local EXCEPT ![r].block = head]
             /\ pc' = [pc EXCEPT ![r] = "snapshot"]
    <2>1. pc'[r] = "snapshot" /\ pc[r] = "pin"
      BY <1>2 DEF Pin, LimitInv, WarrantInv, LocalsOK
    <2>2. local'[r].block = head /\ local'[r].agent = local[r].agent
      BY <1>2 DEF LimitInv, WarrantInv, LocalsOK, Shaped, Fields
    <2>3. QED
      BY <2>1, <2>2 DEF LimitInv, PlacesOK, PlaceOK, Early
  <1>3. QED
    BY <1>1, <1>2 DEF Pin

LEMMA SnapshotPlace == ASSUME LimitInv, NEW r \in Requests, Snapshot(r) PROVE PlaceOK(r)'
  <1> DEFINE at == World[local[r].agent][local[r].block]
  <1>1. CASE Reply(r)
    BY <1>1, ReplyPlace DEF LimitInv
  <1>2. CASE ~ Reply(r)
    <2>1. /\ pc' = [pc EXCEPT ![r] = IF at.host = NoHost THEN "fetching" ELSE "host"]
          /\ local' = [local EXCEPT ![r].owner = at.owner, ![r].host = at.host, ![r].stamp = now]
          /\ pc[r] = "snapshot" /\ now' = now
      BY <1>2 DEF Snapshot, ReadAt
    <2>2. local'[r].host = at.host /\ local'[r].stamp = now
      <3> DEFINE x == [local[r] EXCEPT !.owner = at.owner, !.host = at.host, !.stamp = now]
      <3>1. Shaped(local[r]) /\ local = [q \in Requests |-> local[q]]
        BY DEF LimitInv, WarrantInv, LocalsOK
      <3>2. local' = [local EXCEPT ![r] = x]
        BY <2>1, <3>1
      <3>3. x.host = at.host /\ x.stamp = now
        BY <3>1 DEF Shaped, Fields
      <3>4. local'[r] = x
        BY <3>1, <3>2
      <3> HIDE DEF x
      <3>5. QED
        BY <3>3, <3>4
    <2>3. at.host \in Hosts \cup {NoHost}
      BY <2>1, SpotCheckAssumption DEF LimitInv, PlacesOK, PlaceOK, Early
    <2>4. now \in Nat /\ now <= now + Skew
      BY SpotCheckAssumption DEF LimitInv, QueuesOK
    <2>5. pc'[r] = IF at.host = NoHost THEN "fetching" ELSE "host"
      BY <2>1 DEF LimitInv, WarrantInv, LocalsOK
    <2> HIDE DEF at
    <2>6. CASE at.host = NoHost
      BY <2>5, <2>6 DEF PlaceOK, Early
    <2>7. CASE at.host # NoHost
      BY <2>1, <2>2, <2>3, <2>4, <2>5, <2>7 DEF PlaceOK, Early
    <2>8. QED
      BY <2>6, <2>7
  <1>3. QED
    BY <1>1, <1>2

-----------------------------------------------------------------------------
LEMMA LimitInit == Init => LimitInv
  <1> SUFFICES ASSUME Init PROVE LimitInv
    OBVIOUS
  <1>1. LastArrival \in Nat /\ Deadline \in Nat /\ Skew \in Nat
    BY SpotCheckAssumption
  <1>2. ASSUME NEW l \in Limiters, NEW k \in Keys[l]
        PROVE  Queue(hits[l], k) = <<>> /\ admitted[l][k] = <<>> /\ promise[l][k] = Forever
    <2>1. hits[l] = <<>>
      BY DEF Init
    <2>2. Queue(<<>>, k) = <<>>
      BY DEF Queue
    <2>3. QED
      BY <2>1, <2>2 DEF Init
  <1>3. QueuesOK
    <2>1. ASSUME NEW l \in Limiters
          PROVE  Log(<<>>, 0) /\ Trails(l, <<>>, <<>>, 0) /\ Spaced(l, <<>>)
      <3>1. Log(<<>>, 0) /\ Spaced(l, <<>>)
        BY DEF Log, Spaced
      <3>2. Trails(l, <<>>, <<>>, 0)
        BY DEF Trails
      <3>3. QED
        BY <3>1, <3>2
    <2>2. now = 0 /\ now \in Nat /\ now <= LastArrival + Deadline
      BY <1>1 DEF Init
    <2>3. hits = [l \in Limiters |-> hits[l]]
      BY DEF Init
    <2>4. QED
      BY <1>2, <2>1, <2>2, <2>3 DEF QueuesOK
  <1>4. PromisesOK
    <2>1. /\ Forever \in Nat
          /\ \A t \in Nat : ~ (t >= Forever + Skew /\ t <= LastArrival + Deadline)
      BY <1>1 DEF Forever
    <2>2. /\ promise = [l \in Limiters |-> promise[l]]
          /\ \A l \in Limiters : promise[l] = [k \in Keys[l] |-> promise[l][k]]
      BY DEF Init
    <2>3. QED
      BY <1>2, <2>1, <2>2 DEF PromisesOK
  <1>5. PlacesOK
    <2>1. head \in Blocks /\ \A r \in Requests : pc[r] = "idle"
      BY SpotCheckAssumption DEF Init
    <2>2. QED
      BY <2>1 DEF PlacesOK, PlaceOK, Early
  <1>6. QED
    BY <1>3, <1>4, <1>5, WarrantInit DEF LimitInv

\* Time passes over the queues, and a promise does not change with it.
LEMMA LimitsRest ==
    ASSUME LimitInv, UNCHANGED limits, now' \in Nat, now <= now', now' <= LastArrival + Deadline
    PROVE  QueuesOK' /\ PromisesOK'
  <1>1. hits' = hits /\ admitted' = admitted /\ promise' = promise
    BY DEF limits
  <1>2. ASSUME NEW l \in Limiters, NEW k \in Keys[l]
        PROVE  /\ Log(admitted[l][k], now')
               /\ Trails(l, Queue(hits[l], k), admitted[l][k], now')
               /\ Spaced(l, admitted[l][k])
    <2>1. /\ now \in Nat /\ Log(admitted[l][k], now) /\ Spaced(l, admitted[l][k])
          /\ Trails(l, Queue(hits[l], k), admitted[l][k], now)
      BY DEF LimitInv, QueuesOK
    <2>2. QED
      BY <2>1, TrailLater
  <1>3. QueuesOK'
    BY <1>1, <1>2 DEF LimitInv, QueuesOK
  <1>4. PromisesOK'
    BY <1>1 DEF LimitInv, PromisesOK
  <1>5. QED
    BY <1>3, <1>4

\* The steps of one request that do not call a limiter.
LEMMA MoveLimits ==
    ASSUME LimitInv, NEW r \in Requests, Moves(r), PlaceOK(r)', UNCHANGED <<now, head, limits>>
    PROVE  QueuesOK' /\ PromisesOK' /\ PlacesOK'
  <1>1. now' \in Nat /\ now <= now' /\ now' <= LastArrival + Deadline
    BY DEF LimitInv, QueuesOK
  <1>2. QED
    BY <1>1, LimitsRest, PlacesMove DEF LimitInv

LEMMA LimitStep == ASSUME LimitInv, [Next]_vars PROVE LimitInv'
  <1>1. WarrantInv'
    BY WarrantStep DEF LimitInv
  <1>2. WarrantInv /\ PlacesOK /\ now \in Nat /\ now <= LastArrival + Deadline
    BY DEF LimitInv, QueuesOK
  <1> SUFFICES QueuesOK' /\ PromisesOK' /\ PlacesOK'
    BY <1>1 DEF LimitInv
  <1>3. CASE Tick
    <2>1. /\ now' = now + 1 /\ now < LastArrival + Deadline /\ UNCHANGED <<limits, head, pc, local>>
          /\ \A r \in Requests : pc[r] \in {"client", "host"} => now - local[r].stamp < Skew
      BY <1>3 DEF Tick
    <2>2. now' \in Nat /\ now <= now' /\ now' <= LastArrival + Deadline
      BY <1>2, <2>1, SpotCheckAssumption
    <2>3. ASSUME NEW r \in Requests PROVE PlaceOK(r)'
      <3>1. pc[r] \in {"client", "host"} =>
               local[r].stamp \in Nat /\ local[r].stamp <= now' /\ now' <= local[r].stamp + Skew
        BY <1>2, <2>1, SpotCheckAssumption DEF PlacesOK, PlaceOK
      <3>2. QED
        BY <1>2, <2>1, <3>1 DEF PlacesOK, PlaceOK
    <2>4. PlacesOK'
      BY <1>2, <2>1, <2>3 DEF PlacesOK
    <2>5. QED
      BY <2>1, <2>2, <2>4, LimitsRest
  <1>4. CASE NewBlock
    <2>1. head' \in Blocks /\ UNCHANGED <<now, limits, pc, local>>
      BY <1>4 DEF NewBlock
    <2>2. PlacesOK'
      BY <1>2, <2>1 DEF PlacesOK, PlaceOK
    <2>3. QED
      BY <1>2, <2>1, <2>2, LimitsRest
  <1>5. ASSUME NEW r \in Requests, Malformed(r) PROVE QueuesOK' /\ PromisesOK' /\ PlacesOK'
    BY <1>2, <1>5, ReplyMoves, ReplyPlace, MoveLimits DEF Malformed
  <1>6. ASSUME NEW r \in Requests, Arrive(r) PROVE QueuesOK' /\ PromisesOK' /\ PlacesOK'
    BY <1>2, <1>6, ArriveMoves, ArrivePlace, MoveLimits DEF Arrive
  <1>7. ASSUME NEW r \in Requests, TakeClients(r) PROVE QueuesOK' /\ PromisesOK' /\ PlacesOK'
    <2>1. (Goto(r, "pin") \/ Goto(r, "connecting")) /\ pc[r] \in Early
      BY <1>7 DEF TakeClients, Early
    <2>2. Moves(r) /\ PlaceOK(r)'
      BY <1>2, <2>1, GotoMoves, GotoPlace
    <2>3. QED
      BY <1>7, <2>2, MoveLimits DEF TakeClients
  <1>8. ASSUME NEW r \in Requests, Connect(r) PROVE QueuesOK' /\ PromisesOK' /\ PlacesOK'
    <2>1. (Goto(r, "pin") \/ Reply(r)) /\ pc[r] \in Early
      BY <1>8 DEF Connect, Early
    <2>2. Moves(r) /\ PlaceOK(r)'
      BY <1>2, <2>1, GotoMoves, GotoPlace, ReplyMoves, ReplyPlace
    <2>3. QED
      BY <1>8, <2>2, MoveLimits DEF Connect
  <1>9. ASSUME NEW r \in Requests, Pin(r) PROVE QueuesOK' /\ PromisesOK' /\ PlacesOK'
    BY <1>2, <1>9, PinMoves, PinPlace, MoveLimits DEF Pin
  <1>10. ASSUME NEW r \in Requests, Snapshot(r) PROVE QueuesOK' /\ PromisesOK' /\ PlacesOK'
    BY <1>2, <1>10, SnapshotMoves, SnapshotPlace, MoveLimits DEF Snapshot
  <1>11. ASSUME NEW r \in Requests, Answer(r) PROVE QueuesOK' /\ PromisesOK' /\ PlacesOK'
    BY <1>2, <1>11, ReplyMoves, ReplyPlace, MoveLimits DEF Answer
  <1>12. ASSUME NEW r \in Requests, TimesOut(r) \/ Disconnect(r)
         PROVE  QueuesOK' /\ PromisesOK' /\ PlacesOK'
    <2>1. Drop(r)
      BY <1>12 DEF TimesOut, Disconnect
    <2>2. QED
      BY <1>2, <2>1, ReplyMoves, ReplyPlace, MoveLimits DEF Drop
  <1>13. ASSUME NEW r \in Requests, ChargeClient(r) PROVE QueuesOK' /\ PromisesOK' /\ PlacesOK'
    <2> DEFINE k == local[r].client
    <2>1. /\ "client" \in Limiters /\ TryAcquire(r, "client", k, "clients")
          /\ pc[r] = "client" /\ now' = now /\ head' = head
      BY <1>13 DEF ChargeClient, Limiters
    <2>2. /\ k \in Keys["client"] /\ local[r].stamp \in Nat
          /\ local[r].stamp <= now /\ now <= local[r].stamp + Skew
      BY <1>2, <2>1 DEF PlacesOK, PlaceOK, Keys
    <2>3. Moves(r)
      <3> HIDE DEF k
      <3>1. QED
        BY <1>2, <2>1, AcquireKeeps
    <2>4. Goto(r, "clients") \/ Reply(r)
      BY <2>1 DEF TryAcquire
    <2>5. PlaceOK(r)'
      BY <1>2, <2>1, <2>4, GotoPlace, ReplyPlace DEF Early
    <2> HIDE DEF k
    <2>6. QueuesOK' /\ PromisesOK'
      BY <2>1, <2>2, CallOK
    <2>7. PlacesOK'
      BY <1>2, <2>1, <2>3, <2>5, PlacesMove
    <2>8. QED
      BY <2>6, <2>7
  <1>14. ASSUME NEW r \in Requests, ChargeHost(r) PROVE QueuesOK' /\ PromisesOK' /\ PlacesOK'
    <2> DEFINE k == local[r].host
    <2>1. /\ "host" \in Limiters /\ TryAcquire(r, "host", k, "fetching")
          /\ pc[r] = "host" /\ now' = now /\ head' = head
      BY <1>14 DEF ChargeHost, Limiters
    <2>2. /\ k \in Keys["host"] /\ local[r].stamp \in Nat
          /\ local[r].stamp <= now /\ now <= local[r].stamp + Skew
      BY <1>2, <2>1 DEF PlacesOK, PlaceOK, Keys
    <2>3. Moves(r) /\ pc'[r] \in {"fetching", "done"}
      <3> HIDE DEF k
      <3>1. QED
        BY <1>2, <2>1, AcquireKeeps
    <2>4. PlaceOK(r)'
      BY <2>3 DEF PlaceOK, Early
    <2> HIDE DEF k
    <2>5. QueuesOK' /\ PromisesOK'
      BY <2>1, <2>2, CallOK
    <2>6. PlacesOK'
      BY <1>2, <2>1, <2>3, <2>4, PlacesMove
    <2>7. QED
      BY <2>5, <2>6
  <1>15. CASE UNCHANGED vars
    <2>1. UNCHANGED <<limits, now, head, pc, local>>
      BY <1>15 DEF vars
    <2>2. PlacesOK'
      BY <1>2, <2>1 DEF PlacesOK, PlaceOK
    <2>3. QED
      BY <1>2, <2>1, <2>2, LimitsRest
  <1>16. QED
    BY <1>3, <1>4, <1>5, <1>6, <1>7, <1>8, <1>9, <1>10, <1>11, <1>12, <1>13, <1>14, <1>15 DEF Next

\* No client and no host is granted more than its quota in any stretch of time
\* as long as a window, less the skew, whatever the expiry of old hits and the
\* sweep of the key map forget.
THEOREM WindowsAreKept == Spec => []WindowKept
  <1>1. LimitInv => WindowKept
    BY DEF LimitInv, QueuesOK, Spaced, WindowKept
  <1>2. QED
    BY <1>1, LimitInit, LimitStep, PTL DEF Spec

\* A refused request finds a quota of its key exhausted.
LEMMA RefusedEarly ==
    ASSUME LimitInv, NEW r \in Requests, NEW l \in Limiters, NEW k \in Keys[l], NEW where,
           where # "done", TryAcquire(r, l, k, where), pc'[r] = "done",
           local[r].stamp \in Nat, local[r].stamp <= now, now <= local[r].stamp + Skew
    PROVE  local[r].stamp < promise[l][k] + Skew
  <1> DEFINE t == local[r].stamp
             H == Queue(hits[l], k)
             G == Tracked(l, k, t)[k]
  <1>1. /\ now \in Nat /\ now <= LastArrival + Deadline /\ Skew \in Nat
        /\ LastArrival \in Nat /\ Deadline \in Nat
    BY SpotCheckAssumption DEF LimitInv, QueuesOK
  <1>2. Binding(G, l, t) # {}
    <2> SUFFICES ASSUME Binding(G, l, t) = {} PROVE FALSE
      OBVIOUS
    <2>1. Goto(r, where)
      BY DEF TryAcquire
    <2>2. QED
      BY <2>1 DEF Goto, LimitInv, WarrantInv, LocalsOK
  <1>3. G = Queue(Tracked(l, k, t), k)
    BY DEF Tracked, Queue
  <1>4. t \in Nat /\ t <= now
    OBVIOUS
  <1>5. Log(admitted[l][k], now) /\ Trails(l, H, admitted[l][k], now)
    BY DEF LimitInv, QueuesOK
  <1> HIDE DEF t, G
  <1>6. Trims(l, H, G, admitted[l][k], now)
    BY <1>1, <1>3, <1>4, <1>5, CallKeeps
  <1>7. H \in Seq(Nat)
    BY <1>5 DEF Trails
  <1> HIDE DEF H
  <1>8. PICK m \in 0 .. Len(H) : G = SubSeq(H, m + 1, Len(H))
    BY <1>6 DEF Trims
  <1>9. Binding(H, l, t) # {}
    BY <1>2, <1>7, <1>8, ClearSuffix
  <1>10. promise[l][k] \in Nat /\ ~ (t >= promise[l][k] + Skew /\ t <= LastArrival + Deadline)
    BY <1>4, <1>9 DEF LimitInv, PromisesOK, H
  <1>11. t < promise[l][k] + Skew
    BY <1>1, <1>4, <1>10
  <1>12. QED
    BY <1>11 DEF t

\* Who waits for as long as a refusal said, and the skew, is not refused again
\* while nobody else of the same key is granted anything.
THEOREM RetriesAreHonest == Spec => RetryIsHonest
  <1> DEFINE Honest(r) ==
                /\ (pc[r] = "client" /\ pc'[r] = "done")
                      => local[r].stamp < promise["client"][local[r].client] + Skew
                /\ (pc[r] = "host" /\ pc'[r] = "done")
                      => local[r].stamp < promise["host"][local[r].host] + Skew
  <1>1. ASSUME LimitInv, [Next]_vars, NEW r \in Requests PROVE Honest(r)
    <2>1. /\ "client" \in Limiters /\ "host" \in Limiters
          /\ Keys["client"] = Clients /\ Keys["host"] = Hosts
      BY DEF Limiters, Keys
    <2>2. pc[r] \in {"client", "host"} =>
             /\ local[r].stamp \in Nat /\ local[r].stamp <= now /\ now <= local[r].stamp + Skew
      BY <1>1 DEF LimitInv, PlacesOK, PlaceOK
    <2>3. CASE ChargeClient(r)
      <3>1. pc[r] = "client" /\ TryAcquire(r, "client", local[r].client, "clients")
        BY <2>3 DEF ChargeClient
      <3>2. local[r].client \in Clients
        BY <1>1, <3>1 DEF LimitInv, PlacesOK, PlaceOK
      <3>3. pc'[r] = "done" => local[r].stamp < promise["client"][local[r].client] + Skew
        BY <1>1, <2>1, <2>2, <3>1, <3>2, RefusedEarly
      <3>4. QED
        BY <3>1, <3>3
    <2>4. CASE ChargeHost(r)
      <3>1. pc[r] = "host" /\ TryAcquire(r, "host", local[r].host, "fetching")
        BY <2>4 DEF ChargeHost
      <3>2. local[r].host \in Hosts
        BY <1>1, <3>1 DEF LimitInv, PlacesOK, PlaceOK
      <3>3. pc'[r] = "done" => local[r].stamp < promise["host"][local[r].host] + Skew
        BY <1>1, <2>1, <2>2, <3>1, <3>2, RefusedEarly
      <3>4. QED
        BY <3>1, <3>3
    <2>5. ASSUME ~ ChargeClient(r), ~ ChargeHost(r), pc[r] \in {"client", "host"}
          PROVE  pc'[r] = pc[r]
      <3>1. CASE Tick \/ NewBlock \/ UNCHANGED vars
        BY <3>1 DEF Tick, NewBlock, vars
      <3>2. ASSUME NEW q \in Requests,
                   \/ Malformed(q) \/ Arrive(q) \/ TakeClients(q) \/ Connect(q) \/ Pin(q)
                   \/ Snapshot(q) \/ Answer(q) \/ ChargeClient(q) \/ ChargeHost(q)
                   \/ TimesOut(q) \/ Disconnect(q)
            PROVE  pc'[r] = pc[r]
        <4>1. q # r
          BY <2>5, <3>2 DEF Malformed, Arrive, Comes, TakeClients, Connect, Pin, Snapshot, Answer,
                TimesOut, Disconnect, Overdue, AtAwait
        <4>2. \E where : pc' = [pc EXCEPT ![q] = where]
          BY <3>2 DEF Malformed, Arrive, TakeClients, Connect, Pin, Snapshot, Answer, ChargeClient,
                ChargeHost, TimesOut, Disconnect, Drop, Reply, Goto, TryAcquire
        <4>3. QED
          BY <1>1, <4>1, <4>2 DEF LimitInv, WarrantInv, LocalsOK
      <3>3. QED
        BY <1>1, <3>1, <3>2 DEF Next
    <2>6. CASE ~ ChargeClient(r) /\ ~ ChargeHost(r)
      BY <2>5, <2>6
    <2>7. QED
      BY <2>3, <2>4, <2>6
  <1>2. ASSUME LimitInv, [Next]_vars PROVE \A r \in Requests : Honest(r)
    BY <1>1, <1>2
  <1>3. LimitInv /\ [Next]_vars => [\A r \in Requests : Honest(r)]_vars
    BY <1>2
  <1> HIDE DEF Honest
  <1>4. Spec => [][\A r \in Requests : Honest(r)]_vars
    BY <1>3, LimitInit, LimitStep, PTL DEF Spec
  <1>5. QED
    BY <1>4 DEF RetryIsHonest, Honest
=============================================================================
