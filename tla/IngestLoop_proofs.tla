-------------------------- MODULE IngestLoop_proofs --------------------------
(***************************************************************************)
(* The indexer's log has no gap and no ghost, for any number of processes, *)
(* any buffer at least as deep as the deepest reorganisation, any batch.   *)
(***************************************************************************)
EXTENDS IngestLoop, TLAPS

\* The buffer is deep enough.
Buffered == MaxReorg <= Confirmations

\* What IngestAssumption says, one constant at a time.
LEMMA Constants ==
    /\ Deploy \in Nat /\ Confirmations \in Nat /\ Batch \in Nat \ {0}
    /\ LastBlock \in Nat /\ MaxReorg \in Nat /\ MaxVersion \in Nat /\ MaxFaults \in Nat
  BY IngestAssumption

\* saturating_sub.
LEMMA Saturating ==
    ASSUME NEW h \in Nat
    PROVE  (IF h > Confirmations THEN h - Confirmations ELSE 0) \in Nat
  BY Constants

\* The end of a range is a block of the chain.
LEMMA RangeEndType == ASSUME TypeOK, NEW p \in Procs PROVE to[p] \in Blocks /\ to[p] \in Nat
  BY Constants DEF TypeOK, Blocks

\* The safe head is a block of the chain.
LEMMA SafeHeadType == ASSUME TypeOK PROVE SafeHead \in Blocks /\ SafeHead <= head
  BY Constants DEF TypeOK, SafeHead, Blocks

\* A step of the chain moves the safe head forward only and leaves alone what is
\* below it.
LEMMA ChainStep ==
    ASSUME Buffered, TypeOK, Mine \/ Reorg
    PROVE  /\ SafeHead <= SafeHead'
           /\ \A b \in Blocks : b <= SafeHead => version'[b] = version[b]
           /\ head' \in Blocks /\ version' \in [Blocks -> Versions]
           /\ head <= head' /\ head \in Nat
  <1> USE Constants DEF Buffered, TypeOK, SafeHead, Blocks, Versions
  <1>1. CASE Mine
    BY <1>1 DEF Mine
  <1>2. CASE Reorg
    BY <1>2 DEF Reorg
  <1>3. QED
    BY <1>1, <1>2

\* What the chain does keeps the invariant.
LEMMA ChainKeeps ==
    ASSUME Buffered, TypeOK, IngestInv, Mine \/ Reorg
    PROVE  TypeOK' /\ IngestInv'
  <1> DEFINE rest == <<db, pc, batch, faults>>
  <1>1. UNCHANGED rest
    BY DEF Mine, Reorg
  <1>2. /\ SafeHead <= SafeHead'
        /\ \A b \in Blocks : b <= SafeHead => version'[b] = version[b]
        /\ head' \in Blocks /\ version' \in [Blocks -> Versions]
    BY ChainStep
  <1>3. SafeHead \in Nat /\ SafeHead' \in Nat
    <2>1. SafeHead \in Nat
      BY Constants, SafeHeadType DEF Blocks
    <2>2. SafeHead' \in Nat
      <3>1. head' \in Nat
        BY <1>2, Constants DEF Blocks
      <3>2. QED
        BY <3>1, Saturating DEF SafeHead
    <2>3. QED
      BY <2>1, <2>2
  <1>4. TypeOK'
    <2>1. to \in [Procs -> 0 .. head']
      <3>1. 0 .. head \subseteq 0 .. head'
        BY ChainStep, <1>2, Constants DEF Blocks
      <3>2. QED
        BY <3>1 DEF TypeOK
    <2>2. QED
      BY <1>1, <1>2, <2>1 DEF TypeOK, db, batch
  <1> USE Constants DEF TypeOK, Blocks, Versions, db, batch
  <1>5. ASSUME NEW last \in Int, last <= SafeHead \/ last < Deploy, CoveredTo(last)
        PROVE  CoveredTo(last)'
    BY <1>1, <1>2, <1>3, <1>5 DEF CoveredTo
  <1>6. ASSUME NEW p \in Procs PROVE BatchInv(p)'
    <2>1. BatchInv(p)
      BY DEF IngestInv
    <2>2. pc[p] # "idle" => (from[p] <= Deploy \/ from[p] <= SafeHead + 1)' /\ CoveredTo(from[p] - 1)'
      <3>1. pc[p] # "idle" => /\ from[p] <= Deploy \/ from[p] <= SafeHead + 1
                              /\ CoveredTo(from[p] - 1)
                              /\ from[p] \in Int /\ from'[p] = from[p]
        BY <1>1, <2>1 DEF BatchInv
      <3>2. pc[p] # "idle" => from[p] - 1 <= SafeHead \/ from[p] - 1 < Deploy
        BY <1>3, <3>1
      <3>3. pc[p] # "idle" => CoveredTo(from[p] - 1)'
        BY <1>5, <3>1, <3>2
      <3> HIDE DEF TypeOK, SafeHead
      <3>4. pc[p] # "idle" => from'[p] <= Deploy \/ from'[p] <= SafeHead' + 1
        BY <1>2, <1>3, <3>1
      <3>5. QED
        BY <3>3, <3>4
    <2>3. ASSUME NEW S \in SUBSET (Blocks \X Versions), Settled(S)
          PROVE  \A l \in S : l[1] <= SafeHead' /\ l[2] = version'[l[1]]
      BY <1>2, <1>3, <2>3 DEF Settled
    <2>4. pc[p] \in {"fetching", "writing"} => Settled(logs[p])' /\ Settled(headers[p])'
      BY <1>1, <2>1, <2>3 DEF BatchInv, Settled
    <2>5. ASSUME pc[p] \in {"fetching", "writing"}
          PROVE  /\ to[p] <= SafeHead'
                 /\ \A r \in stack[p] : r[2] <= to[p]
                 /\ \A b \in from[p] .. to[p] :
                      \/ <<b, version'[b]>> \in logs[p]
                      \/ \E r \in stack[p] : b \in r[1] .. r[2]
      <3>1. to[p] \in Blocks /\ to[p] <= SafeHead /\ from[p] \in Nat
        BY <2>1, <2>5, RangeEndType DEF BatchInv
      <3>2. \A b \in from[p] .. to[p] : version'[b] = version[b]
        BY <1>2, <1>3, <3>1
      <3>3. to[p] <= SafeHead'
        BY <1>2, <1>3, <3>1
      <3>4. QED
        BY <2>1, <2>5, <3>2, <3>3 DEF BatchInv
    <2>6. HeaderOf(p, 0)' = HeaderOf(p, 0) /\ \A b : HeaderOf(p, b)' = HeaderOf(p, b)
      BY <1>1 DEF HeaderOf
    <2>7. QED
      BY <1>1, <2>1, <2>2, <2>4, <2>5, <2>6 DEF BatchInv
  <1>7. \A r \in rows' : /\ r.block <= SafeHead'
                         /\ r.event = version'[r.block] /\ r.hash = r.event
    BY <1>1, <1>2, <1>3 DEF IngestInv, NoGhost
  <1>8. cursor' <= SafeHead' /\ NoGap'
    <2>1. cursor \in Int /\ cursor <= SafeHead /\ CoveredTo(cursor)
      BY DEF IngestInv, NoGap, CoveredTo, None
    <2>2. CoveredTo(cursor)' /\ cursor' = cursor
      <3>1. cursor' = cursor /\ rows' = rows
        BY <1>1
      <3>2. (CoveredTo(cursor))' <=> \A b \in Deploy .. cursor : \E q \in rows : q.block = b /\ q.event = version'[b]
        BY <3>1 DEF CoveredTo
      <3>3. ASSUME NEW b \in Deploy .. cursor PROVE version'[b] = version[b]
        <4>1. b \in Blocks /\ b <= SafeHead
          BY <1>3, <2>1 DEF None
        <4>2. QED
          BY <1>2, <4>1
      <3>4. QED
        BY <2>1, <3>1, <3>2, <3>3 DEF CoveredTo
    <2>3. QED
      BY <1>2, <1>3, <2>1, <2>2 DEF NoGap, CoveredTo
  <1>9. QED
    BY <1>4, <1>6, <1>7, <1>8 DEF IngestInv, NoGhost

-----------------------------------------------------------------------------
\* What a step of a process that writes nothing leaves to be shown: its own part.
LEMMA OwnStep ==
    ASSUME TypeOK, IngestInv, NEW p \in Procs,
           UNCHANGED <<chain, db>>, TypeOK',
           \A q \in Procs \ {p} : /\ pc'[q] = pc[q] /\ from'[q] = from[q] /\ to'[q] = to[q]
                                  /\ stack'[q] = stack[q] /\ logs'[q] = logs[q]
                                  /\ headers'[q] = headers[q],
           BatchInv(p)'
    PROVE  IngestInv'
  <1>1. SafeHead' = SafeHead
    BY DEF SafeHead, chain
  <1>2. ASSUME NEW q \in Procs \ {p} PROVE BatchInv(q)'
    <2>1. BatchInv(q)
      BY DEF IngestInv
    <2>2. QED
      BY <1>1, <2>1 DEF BatchInv, CoveredTo, Settled, HeaderOf, chain, db
  <1>3. QED
    BY <1>1, <1>2 DEF IngestInv, NoGap, NoGhost, chain, db

\* What the fetching half of run_batch keeps.
LEMMA FetchKeeps ==
    ASSUME TypeOK, IngestInv, NEW p \in Procs,
           \/ LoadCursor(p) \/ CaughtUp(p) \/ PlanRange(p) \/ GetLogs(p)
           \/ SplitRange(p) \/ GetHeader(p) \/ BeginWrite(p) \/ Fail(p)
    PROVE  TypeOK' /\ IngestInv'
  <1> USE Constants DEF Goto, db, chain, batch
  <1>1. BatchInv(p) /\ cursor <= SafeHead /\ NoGap
    BY DEF IngestInv
  <1>2. SafeHead \in Nat /\ SafeHead <= head /\ SafeHead \in Blocks
    BY SafeHeadType DEF TypeOK, Blocks
  <1>3. UNCHANGED <<chain, db>>
    BY DEF LoadCursor, CaughtUp, PlanRange, GetLogs, SplitRange, GetHeader, BeginWrite, Fail
  <1>4. SafeHead' = SafeHead
    BY <1>3 DEF SafeHead
  <1>5. CASE LoadCursor(p)
    <2>1. ResumeFrom \in Nat /\ CoveredTo(ResumeFrom - 1)
          /\ (ResumeFrom <= Deploy \/ ResumeFrom <= SafeHead + 1)
      <3>1. CASE cursor = None
        BY <3>1 DEF ResumeFrom, CoveredTo
      <3>2. CASE cursor # None
        <4>1. cursor \in Nat /\ ResumeFrom = cursor + 1 /\ ResumeFrom - 1 = cursor
          BY <3>2 DEF ResumeFrom, TypeOK, Blocks
        <4>2. QED
          BY <1>1, <1>2, <4>1 DEF NoGap, CoveredTo
      <3>3. QED
        BY <3>1, <3>2
    <2>2. TypeOK'
      BY <1>5, <2>1 DEF LoadCursor, TypeOK
    <2>3. BatchInv(p)'
      BY <1>3, <1>4, <1>5, <2>1 DEF LoadCursor, TypeOK, BatchInv, CoveredTo
    <2>4. QED
      BY <1>3, <1>5, <2>2, <2>3, OwnStep DEF LoadCursor, TypeOK
  <1>6. CASE CaughtUp(p) \/ Fail(p)
    <2>1. TypeOK'
      BY <1>6 DEF CaughtUp, Fail, TypeOK
    <2>2. BatchInv(p)'
      BY <1>6 DEF CaughtUp, Fail, TypeOK, BatchInv
    <2>3. QED
      BY <1>3, <1>6, <2>1, <2>2, OwnStep DEF CaughtUp, Fail, TypeOK
  <1>7. CASE PlanRange(p)
    <2>1. /\ LastOf(p) \in Blocks /\ LastOf(p) <= SafeHead /\ LastOf(p) \in Nat
          /\ from[p] \in Nat /\ LastOf(p) \in 0 .. head
      BY <1>2, <1>7 DEF PlanRange, Behind, LastOf, TypeOK, Blocks
    <2>2. TypeOK'
      BY <1>7, <2>1 DEF PlanRange, TypeOK
    <2>3. BatchInv(p)'
      <3>1. /\ pc'[p] = "fetching" /\ pc[p] = "asking" /\ from'[p] = from[p]
            /\ to'[p] = LastOf(p)
            /\ logs'[p] = {} /\ headers'[p] = {}
            /\ stack'[p] = {<<from[p], LastOf(p)>>}
        BY <1>7 DEF PlanRange, TypeOK
      <3>2. CoveredTo(from[p] - 1)' /\ (from[p] <= Deploy \/ from[p] <= SafeHead + 1)
        BY <1>1, <1>3, <1>7, <3>1 DEF BatchInv, CoveredTo, PlanRange
      <3>3. \A r \in stack'[p] : r[1] = from[p] /\ r[2] = to'[p]
        BY <3>1
      <3>4. \A b \in from[p] .. to'[p] : \E r \in stack'[p] : b \in r[1] .. r[2]
        BY <3>1
      <3>5. QED
        BY <1>4, <2>1, <3>1, <3>2, <3>3, <3>4 DEF BatchInv, Settled
    <2>4. QED
      BY <1>3, <1>7, <2>2, <2>3, OwnStep DEF PlanRange, TypeOK
  <1>8. CASE GetLogs(p)
    <2>1. PICK r \in stack[p] :
            /\ stack' = [stack EXCEPT ![p] = @ \ {r}]
            /\ logs' = [logs EXCEPT ![p] = @ \cup {<<b, version[b]>> : b \in r[1] .. r[2]}]
      BY <1>8 DEF GetLogs
    <2>2. /\ r[1] \in Nat /\ r[2] \in Nat /\ r[2] <= to[p] /\ to[p] <= SafeHead
      BY <1>1, <1>8 DEF GetLogs, TypeOK, BatchInv
    <2>3. r[1] .. r[2] \subseteq Blocks /\ \A b \in r[1] .. r[2] : b <= SafeHead
      BY <1>2, <2>2 DEF TypeOK, Blocks
    <2>4. TypeOK'
      BY <1>8, <2>1, <2>3 DEF GetLogs, TypeOK
    <2>5. BatchInv(p)'
      BY <1>1, <1>3, <1>4, <1>8, <2>1, <2>2, <2>3
         DEF GetLogs, TypeOK, BatchInv, CoveredTo, Settled
    <2>6. QED
      BY <1>3, <1>8, <2>1, <2>4, <2>5, OwnStep DEF GetLogs, TypeOK
  <1>9. CASE SplitRange(p)
    <2>1. PICK r \in stack[p] :
            /\ r[1] < r[2]
            /\ stack' = [stack EXCEPT ![p] = (@ \ {r}) \cup
                            {<<r[1] + (r[2] - r[1]) \div 2 + 1, r[2]>>,
                             <<r[1], r[1] + (r[2] - r[1]) \div 2>>}]
      BY <1>9 DEF SplitRange
    <2> DEFINE mid == r[1] + (r[2] - r[1]) \div 2
    <2>2. r[1] \in Nat /\ r[2] \in Nat /\ r[2] <= to[p] /\ to[p] \in Nat
      BY <1>1, <1>9 DEF SplitRange, TypeOK, BatchInv, Blocks
    <2>3. mid \in Nat /\ r[1] <= mid /\ mid < r[2]
      BY <2>1, <2>2
    <2>4. stack' = [stack EXCEPT ![p] = (@ \ {r}) \cup {<<mid + 1, r[2]>>, <<r[1], mid>>}]
      BY <2>1
    <2> HIDE DEF mid
    <2>5. TypeOK'
      BY <1>9, <2>2, <2>3, <2>4 DEF SplitRange, TypeOK
    <2>6. \A b \in from[p] .. to[p] :
            (\E q \in stack[p] : b \in q[1] .. q[2])
              => \E q \in stack'[p] : b \in q[1] .. q[2]
      <3> SUFFICES ASSUME NEW b \in from[p] .. to[p], NEW q \in stack[p], b \in q[1] .. q[2]
                   PROVE  \E u \in stack'[p] : b \in u[1] .. u[2]
        OBVIOUS
      <3>1. stack'[p] = (stack[p] \ {r}) \cup {<<mid + 1, r[2]>>, <<r[1], mid>>}
        BY <2>4 DEF TypeOK
      <3>2. CASE q # r
        BY <3>1, <3>2
      <3>3. CASE q = r
        <4>1. b \in Int
          BY <2>2 DEF TypeOK
        <4>2. CASE b <= mid
          <5>1. <<r[1], mid>> \in stack'[p] /\ b \in (<<r[1], mid>>)[1] .. (<<r[1], mid>>)[2]
            BY <2>2, <2>3, <3>1, <3>3, <4>1, <4>2
          <5>2. QED
            BY <5>1
        <4>3. CASE ~(b <= mid)
          <5>1. /\ <<mid + 1, r[2]>> \in stack'[p]
                /\ b \in (<<mid + 1, r[2]>>)[1] .. (<<mid + 1, r[2]>>)[2]
            BY <2>2, <2>3, <3>1, <3>3, <4>1, <4>3
          <5>2. QED
            BY <5>1
        <4>4. QED
          BY <4>2, <4>3
      <3>4. QED
        BY <3>2, <3>3
    <2>7. BatchInv(p)'
      <3>1. /\ pc' = pc /\ pc[p] = "fetching" /\ from' = from /\ to' = to
            /\ logs' = logs /\ headers' = headers /\ version' = version /\ rows' = rows
        BY <1>9 DEF SplitRange
      <3>2. \A q \in stack'[p] : q[2] <= to[p]
        <4>1. \A q \in stack[p] : q[2] <= to[p]
          BY <1>1, <3>1 DEF BatchInv
        <4>2. stack'[p] = (stack[p] \ {r}) \cup {<<mid + 1, r[2]>>, <<r[1], mid>>}
          BY <2>4 DEF TypeOK
        <4>3. (<<mid + 1, r[2]>>)[2] <= to[p] /\ (<<r[1], mid>>)[2] <= to[p]
          BY <2>2, <2>3
        <4>4. QED
          BY <4>1, <4>2, <4>3
      <3>3. QED
        BY <1>1, <1>4, <2>6, <3>1, <3>2 DEF BatchInv, CoveredTo, Settled
    <2>8. QED
      BY <1>3, <1>9, <2>4, <2>5, <2>7, OwnStep DEF SplitRange, TypeOK
  <1>10. CASE GetHeader(p)
    <2>1. PICK l \in logs[p] : headers' = [headers EXCEPT ![p] = @ \cup {<<l[1], version[l[1]]>>}]
      BY <1>10 DEF GetHeader
    <2>2. l[1] \in Blocks /\ version[l[1]] \in Versions /\ l[1] <= SafeHead
      BY <1>1, <1>10 DEF GetHeader, TypeOK, BatchInv, Settled
    <2>3. TypeOK'
      BY <1>10, <2>1, <2>2 DEF GetHeader, TypeOK
    <2>4. BatchInv(p)'
      BY <1>1, <1>3, <1>4, <1>10, <2>1, <2>2
         DEF GetHeader, TypeOK, BatchInv, CoveredTo, Settled
    <2>5. QED
      BY <1>3, <1>10, <2>1, <2>3, <2>4, OwnStep DEF GetHeader, TypeOK
  <1>11. CASE BeginWrite(p)
    <2>1. TypeOK'
      BY <1>11 DEF BeginWrite, TypeOK
    <2>2. BatchInv(p)'
      BY <1>1, <1>3, <1>4, <1>11 DEF BeginWrite, TypeOK, BatchInv, CoveredTo, Settled, HeaderOf
    <2>3. QED
      BY <1>3, <1>11, <2>1, <2>2, OwnStep DEF BeginWrite, TypeOK
  <1>12. QED
    BY <1>5, <1>6, <1>7, <1>8, <1>9, <1>10, <1>11

\* The transaction adds exactly what its range still lacks.
LEMMA CommitKeeps ==
    ASSUME TypeOK, IngestInv, NEW p \in Procs, Commit(p)
    PROVE  TypeOK' /\ IngestInv'
  <1> USE Constants DEF Goto, db, chain, batch
  <1>1. BatchInv(p) /\ NoGap /\ NoGhost /\ \A r \in rows : r.block <= SafeHead
    BY DEF IngestInv
  <1>2. /\ to[p] <= SafeHead /\ CoveredTo(from[p] - 1) /\ stack[p] = {}
        /\ Settled(logs[p]) /\ Settled(headers[p])
        /\ \A b \in from[p] .. to[p] : <<b, version[b]>> \in logs[p]
        /\ \A l \in logs[p] : HeaderOf(p, l[1]) # {}
    BY <1>1 DEF Commit, BatchInv
  <1>3. SafeHead' = SafeHead /\ SafeHead \in Blocks
    BY SafeHeadType DEF Commit, SafeHead
  <1>4. /\ rows' = rows \cup NewRows(p)
        /\ NewRows(p) \in SUBSET [block : Blocks, event : Versions, hash : Versions]
    BY DEF Commit, NewRows
  <1>5. TypeOK'
    BY <1>4, RangeEndType DEF Commit, TypeOK
  <1>6. \A r \in NewRows(p) :
          r.block <= SafeHead /\ r.event = version[r.block] /\ r.hash = r.event
    BY <1>2 DEF NewRows, Settled
  <1>7. NoGhost' /\ \A r \in rows' : r.block <= SafeHead'
    BY <1>1, <1>3, <1>4, <1>6 DEF NoGhost, Commit
  <1>8. ASSUME NEW b \in from[p] .. to[p], b >= Deploy
        PROVE  \E r \in rows' : r.block = b /\ r.event = version[b]
    <2>1. <<b, version[b]>> \in logs[p] /\ b \in Blocks /\ version[b] \in Versions
      BY <1>2, <1>8 DEF TypeOK
    <2>2. PICK h \in headers[p] : h[1] = b
      BY <1>2, <2>1 DEF HeaderOf
    <2>3. h = <<b, version[b]>>
      BY <1>2, <2>2 DEF Settled, TypeOK
    <2>4. CASE \E old \in rows : <<old.block, old.event>> = <<b, version[b]>>
      BY <1>4, <2>4
    <2>5. CASE \A old \in rows : <<old.block, old.event>> # <<b, version[b]>>
      <3>1. [block |-> b, event |-> version[b], hash |-> version[b]] \in NewRows(p)
        BY <2>1, <2>2, <2>3, <2>5 DEF NewRows
      <3>2. QED
        BY <1>4, <3>1
    <2>6. QED
      BY <2>4, <2>5
  <1>9. CoveredTo(to[p])'
    <2> SUFFICES ASSUME NEW b \in Deploy .. to[p]
                 PROVE  \E r \in rows' : r.block = b /\ r.event = version[b]
      BY DEF CoveredTo, Commit
    <2>1. from[p] \in Nat /\ to[p] \in Nat /\ b \in Int
      BY DEF TypeOK, Blocks
    <2>2. CASE b < from[p]
      <3>1. b \in Deploy .. from[p] - 1
        BY <2>1, <2>2
      <3>2. QED
        BY <1>2, <1>4, <3>1 DEF CoveredTo
    <2>3. CASE ~(b < from[p])
      BY <1>8, <2>1, <2>3
    <2>4. QED
      BY <2>2, <2>3
  <1>10. NoGap' /\ cursor' <= SafeHead'
    BY <1>2, <1>3, <1>9 DEF Commit, NoGap, CoveredTo, TypeOK
  <1>11. ASSUME NEW q \in Procs PROVE BatchInv(q)'
    <2>1. BatchInv(q)
      BY DEF IngestInv
    <2>2. ASSUME NEW last \in Int, CoveredTo(last) PROVE CoveredTo(last)'
      BY <1>4, <2>2 DEF Commit, CoveredTo
    <2>3. pc'[q] = (IF q = p THEN "idle" ELSE pc[q]) /\ from'[q] = from[q] /\ from[q] \in Nat
      BY DEF Commit, TypeOK
    <2>4. pc'[q] # "idle" => CoveredTo(from[q] - 1)'
      BY <2>1, <2>2, <2>3 DEF BatchInv
    <2>5. QED
      BY <1>3, <2>1, <2>3, <2>4 DEF Commit, BatchInv, Settled, CoveredTo, HeaderOf
  <1>12. QED
    BY <1>5, <1>7, <1>10, <1>11 DEF IngestInv

\* What the process, the chain and the faults do keeps types and invariant.
LEMMA IngestInductive == ASSUME Buffered PROVE Spec => [](TypeOK /\ IngestInv)
  <1>1. Init => TypeOK /\ IngestInv
    BY Constants
       DEF Init, TypeOK, IngestInv, BatchInv, NoGap, NoGhost, SafeHead, Blocks, Versions, None
  <1>2. ASSUME TypeOK, IngestInv, [Next]_vars PROVE (TypeOK /\ IngestInv)'
    <2>1. CASE Mine \/ Reorg
      BY <1>2, <2>1, ChainKeeps
    <2>2. ASSUME NEW p \in Procs, Step(p) \/ Fail(p) PROVE (TypeOK /\ IngestInv)'
      BY <1>2, <2>2, FetchKeeps, CommitKeeps DEF Step
    <2>3. CASE UNCHANGED vars
      BY <1>2, <2>3 DEF vars, chain, db, batch, TypeOK, IngestInv, BatchInv, CoveredTo,
                        Settled, HeaderOf, NoGap, NoGhost, SafeHead
    <2>4. QED
      BY <1>2, <2>1, <2>2, <2>3 DEF Next
  <1>3. QED
    BY <1>1, <1>2, PTL DEF Spec

\* Every block up to the cursor has its event.
THEOREM IndexHasNoGap == ASSUME Buffered PROVE Spec => []NoGap
  BY IngestInductive, PTL DEF IngestInv

\* Every row is on the canonical chain, with the hash of its block.
THEOREM IndexHasNoGhost == ASSUME Buffered PROVE Spec => []NoGhost
  BY IngestInductive, PTL DEF IngestInv

\* Up to its cursor the index is the canonical chain.
THEOREM IndexFollowsChain == ASSUME Buffered PROVE Spec => []IndexIsChain
  BY IngestInductive, PTL DEF IngestInv, IndexIsChain

-----------------------------------------------------------------------------
(* The loop implements the abstract log.                                   *)

\* What a process has in hand lies within its range, and its range on from
\* the first block of interest.
RangeInv ==
    /\ cursor = None \/ cursor >= Deploy
    /\ \A p \in Procs :
         /\ pc[p] # "idle" => from[p] >= Deploy
         /\ pc[p] \in {"fetching", "writing"} =>
              /\ from[p] <= to[p]
              /\ \A r \in stack[p] : from[p] <= r[1] /\ r[2] <= to[p]
              /\ \A l \in logs[p] : from[p] <= l[1] /\ l[1] <= to[p]

\* The range is kept by every step of its process.
LEMMA OwnRange ==
    ASSUME TypeOK, RangeInv, NEW p \in Procs, Step(p) \/ Fail(p)
    PROVE  /\ cursor' = None \/ cursor' >= Deploy
           /\ pc'[p] # "idle" => from'[p] >= Deploy
           /\ pc'[p] \in {"fetching", "writing"} =>
                /\ from'[p] <= to'[p]
                /\ \A r \in stack'[p] : from'[p] <= r[1] /\ r[2] <= to'[p]
                /\ \A l \in logs'[p] : from'[p] <= l[1] /\ l[1] <= to'[p]
  <1> USE Constants DEF Goto, RangeInv, db, chain, batch
  <1>1. CASE LoadCursor(p)
    BY <1>1 DEF LoadCursor, ResumeFrom, TypeOK, Blocks, None
  <1>2. CASE CaughtUp(p) \/ Fail(p)
    BY <1>2 DEF CaughtUp, Fail, TypeOK
  <1>3. CASE PlanRange(p)
    <2>1. SafeHead \in Nat /\ from[p] \in Nat
      BY SafeHeadType DEF TypeOK, Blocks
    <2>2. from[p] <= LastOf(p)
      BY <1>3, <2>1 DEF PlanRange, Behind, LastOf
    <2>3. /\ to'[p] = LastOf(p) /\ from'[p] = from[p] /\ logs'[p] = {}
          /\ \A r \in stack'[p] : r[1] = from[p] /\ r[2] = LastOf(p)
          /\ pc[p] = "asking" /\ cursor' = cursor
      BY <1>3 DEF PlanRange, TypeOK
    <2>4. LastOf(p) \in Nat
      BY <2>1 DEF LastOf
    <2>5. QED
      BY <2>1, <2>2, <2>3, <2>4
  <1>4. CASE GetLogs(p)
    <2>1. PICK r \in stack[p] :
            /\ stack' = [stack EXCEPT ![p] = @ \ {r}]
            /\ logs' = [logs EXCEPT ![p] = @ \cup {<<b, version[b]>> : b \in r[1] .. r[2]}]
      BY <1>4 DEF GetLogs
    <2>2. /\ r[1] \in Nat /\ r[2] \in Nat /\ from[p] <= r[1] /\ r[2] <= to[p]
          /\ from[p] \in Nat /\ to[p] \in Nat /\ from[p] <= to[p]
      BY <1>4, RangeEndType DEF GetLogs, TypeOK
    <2>3. \A l \in logs'[p] : l \in logs[p] \/ (r[1] <= l[1] /\ l[1] <= r[2] /\ l[1] \in Int)
      BY <2>1, <2>2 DEF TypeOK
    <2>4. \A l \in logs[p] : from[p] <= l[1] /\ l[1] <= to[p]
      BY <1>4 DEF GetLogs
    <2>5. \A l \in logs'[p] : from[p] <= l[1] /\ l[1] <= to[p]
      BY <2>2, <2>3, <2>4
    <2>6. QED
      BY <1>4, <2>1, <2>2, <2>5 DEF GetLogs, TypeOK
  <1>5. CASE SplitRange(p)
    <2>1. PICK r \in stack[p] :
            /\ r[1] < r[2]
            /\ stack' = [stack EXCEPT ![p] = (@ \ {r}) \cup
                            {<<r[1] + (r[2] - r[1]) \div 2 + 1, r[2]>>,
                             <<r[1], r[1] + (r[2] - r[1]) \div 2>>}]
      BY <1>5 DEF SplitRange
    <2> DEFINE mid == r[1] + (r[2] - r[1]) \div 2
    <2>2. /\ r[1] \in Nat /\ r[2] \in Nat /\ from[p] <= r[1] /\ r[2] <= to[p]
          /\ from[p] \in Nat /\ to[p] \in Nat
      BY <1>5, RangeEndType DEF SplitRange, TypeOK
    <2>3. mid \in Nat /\ from[p] <= mid + 1 /\ mid <= to[p]
      BY <2>1, <2>2
    <2>4. stack'[p] = (stack[p] \ {r}) \cup {<<mid + 1, r[2]>>, <<r[1], mid>>}
      BY <2>1 DEF TypeOK
    <2> HIDE DEF mid
    <2>5. \A q \in stack'[p] : from[p] <= q[1] /\ q[2] <= to[p]
      <3>1. \A q \in stack[p] : from[p] <= q[1] /\ q[2] <= to[p]
        BY <1>5 DEF SplitRange
      <3>2. from[p] <= (<<mid + 1, r[2]>>)[1] /\ (<<mid + 1, r[2]>>)[2] <= to[p]
        BY <2>2, <2>3
      <3>3. from[p] <= (<<r[1], mid>>)[1] /\ (<<r[1], mid>>)[2] <= to[p]
        BY <2>2, <2>3
      <3>4. QED
        BY <2>4, <3>1, <3>2, <3>3
    <2>6. QED
      BY <1>5, <2>5 DEF SplitRange, TypeOK
  <1>6. CASE GetHeader(p) \/ BeginWrite(p)
    BY <1>6 DEF GetHeader, BeginWrite, TypeOK
  <1>7. CASE Commit(p)
    <2>1. from[p] \in Nat /\ to[p] \in Nat
      BY RangeEndType DEF TypeOK
    <2>2. QED
      BY <1>7, <2>1 DEF Commit, TypeOK
  <1>8. QED
    BY <1>1, <1>2, <1>3, <1>4, <1>5, <1>6, <1>7 DEF Step

\* And by every other step.
LEMMA RangeKept == ASSUME TypeOK, RangeInv, [Next]_vars PROVE RangeInv'
  <1>1. CASE Mine \/ Reorg \/ UNCHANGED vars
    BY <1>1 DEF Mine, Reorg, vars, db, batch, RangeInv
  <1>2. ASSUME NEW p \in Procs, Step(p) \/ Fail(p) PROVE RangeInv'
    <2>1. ASSUME NEW q \in Procs, q # p
          PROVE  /\ pc'[q] = pc[q] /\ from'[q] = from[q] /\ to'[q] = to[q]
                 /\ stack'[q] = stack[q] /\ logs'[q] = logs[q]
      BY <1>2, <2>1
         DEF Step, LoadCursor, CaughtUp, PlanRange, GetLogs, SplitRange, GetHeader,
             BeginWrite, Commit, Fail, Goto, batch, TypeOK
    <2>2. QED
      BY <1>2, <2>1, OwnRange DEF RangeInv
  <1>3. QED
    BY <1>1, <1>2 DEF Next

\* The events of a set of rows.
Recorded(R) == {<<r.block, r.event>> : r \in R}

\* A commit adds the events of its range, of which those below the end of the
\* log are there already.
LEMMA CommitExtends ==
    ASSUME Buffered, TypeOK, IngestInv, RangeInv, NEW p \in Procs, Commit(p)
    PROVE  /\ \A e \in Recorded(rows') : e \in Recorded(rows)
                  \/ (\E b \in from[p] .. to[p] : e = <<b, version[b]>>)
           /\ \A b \in Deploy .. to[p] : <<b, version[b]>> \in Recorded(rows')
           /\ Recorded(rows) \subseteq Recorded(rows')
  <1> USE Constants
  <1>1. rows' = rows \cup NewRows(p) /\ cursor' = to[p] /\ version' = version
    BY DEF Commit, chain
  <1>2. /\ from[p] \in Nat /\ to[p] \in Nat
        /\ \A l \in logs[p] : l[1] \in from[p] .. to[p] /\ l[2] = version[l[1]]
    <2>1. Settled(logs[p])
      BY DEF Commit, IngestInv, BatchInv
    <2>2. QED
      BY <2>1, RangeEndType DEF Commit, RangeInv, TypeOK, Settled, Blocks
  <1>3. ASSUME NEW r \in NewRows(p)
        PROVE  \E b \in from[p] .. to[p] : <<r.block, r.event>> = <<b, version[b]>>
    <2>1. <<r.block, r.event>> \in logs[p]
      BY DEF NewRows
    <2>2. r.block \in from[p] .. to[p] /\ r.event = version[r.block]
      BY <1>2, <2>1
    <2>3. QED
      BY <2>2
  <1>4. \A b \in Deploy .. to[p] : <<b, version[b]>> \in Recorded(rows')
    <2>1. \A b \in Deploy .. to[p] : \E r \in rows' : r.block = b /\ r.event = version[b]
      BY <1>1, CommitKeeps DEF IngestInv, NoGap
    <2>2. QED
      BY <2>1 DEF Recorded
  <1>5. QED
    BY <1>1, <1>3, <1>4 DEF Recorded

\* Where the abstract log ends.
Covered == IF cursor = None THEN Deploy - 1 ELSE cursor

\* Every step of the loop extends the log, moves its end back, replaces blocks
\* that are not in it, or is none of its business.
LEMMA LogStep ==
    ASSUME Buffered, TypeOK, IngestInv, RangeInv, [Next]_vars
    PROVE  [Log!Next]_<<version, Covered, Recorded(rows)>>
  <1> USE Constants
  <1>1. CASE Mine \/ UNCHANGED vars
    BY <1>1 DEF Mine, vars, chain, db, Covered, Recorded
  <1>2. CASE Reorg
    <2>1. version' \in [Log!Blocks -> Nat]
      BY <1>2, ChainStep DEF Blocks, Versions, Log!Blocks
    <2>2. \A r \in rows : version'[r.block] = version[r.block]
      BY <1>2, ChainStep DEF IngestInv, TypeOK
    <2>3. \A e \in Recorded(rows) : version'[e[1]] = version[e[1]]
      BY <2>2 DEF Recorded
    <2>4. cursor' = cursor /\ rows' = rows
      BY <1>2 DEF Reorg, db
    <2>5. Log!Fork
      BY <2>1, <2>3, <2>4 DEF Log!Fork, Recorded
    <2>6. QED
      BY <2>5 DEF Log!Next
  <1>3. ASSUME NEW p \in Procs, Commit(p)
        PROVE  [Log!Next]_<<version, Covered, Recorded(rows)>>
    <2>1. /\ from[p] \in Nat /\ to[p] \in Nat /\ to[p] \in Blocks
          /\ version' = version /\ cursor' = to[p]
          /\ from[p] >= Deploy /\ from[p] <= to[p]
      BY <1>3, RangeEndType DEF Commit, TypeOK, RangeInv, chain
    <2>2. Covered' = to[p] /\ Covered \in Int /\ Covered >= Deploy - 1
      BY <2>1 DEF Covered, TypeOK, RangeInv, Blocks, None
    <2>3. \A b \in Deploy .. Covered : <<b, version[b]>> \in Recorded(rows)
      BY DEF Covered, IngestInv, NoGap, Recorded, None
    <2>4. /\ \A e \in Recorded(rows') : e \in Recorded(rows)
                 \/ (\E b \in from[p] .. to[p] : e = <<b, version[b]>>)
          /\ \A b \in Deploy .. to[p] : <<b, version[b]>> \in Recorded(rows')
          /\ Recorded(rows) \subseteq Recorded(rows')
      BY <1>3, CommitExtends
    <2>5. CASE to[p] > Covered
      <3>1. Recorded(rows') = Recorded(rows) \cup Log!EventsOf(Covered + 1, to[p])
        <4>1. \A e \in Recorded(rows') : e \in Recorded(rows) \/ e \in Log!EventsOf(Covered + 1, to[p])
          <5> SUFFICES ASSUME NEW b \in from[p] .. to[p]
                       PROVE  \/ <<b, version[b]>> \in Recorded(rows)
                              \/ <<b, version[b]>> \in Log!EventsOf(Covered + 1, to[p])
            BY <2>4
          <5>1. CASE b <= Covered
            BY <2>1, <2>2, <2>3, <5>1
          <5>2. CASE ~(b <= Covered)
            BY <2>1, <2>2, <5>2 DEF Log!EventsOf
          <5>3. QED
            BY <5>1, <5>2
        <4>2. \A e \in Log!EventsOf(Covered + 1, to[p]) : e \in Recorded(rows')
          <5> SUFFICES ASSUME NEW b \in Covered + 1 .. to[p]
                       PROVE  <<b, version[b]>> \in Recorded(rows')
            BY DEF Log!EventsOf
          <5>1. b \in Deploy .. to[p]
            BY <2>1, <2>2
          <5>2. QED
            BY <2>4, <5>1
        <4>3. QED
          BY <2>4, <4>1, <4>2
      <3>2. Log!Extend
        BY <2>1, <2>2, <2>5, <3>1 DEF Log!Extend, Log!Blocks, Blocks, Covered, Recorded
      <3>3. QED
        BY <3>2 DEF Log!Next
    <2>6. CASE to[p] <= Covered
      <3>1. Recorded(rows') = Recorded(rows)
        <4>1. ASSUME NEW b \in from[p] .. to[p]
              PROVE  <<b, version[b]>> \in Recorded(rows)
          BY <2>1, <2>2, <2>3, <2>6
        <4>2. QED
          BY <2>4, <4>1
      <3>2. CASE to[p] = Covered
        BY <2>1, <2>2, <3>1, <3>2
      <3>3. CASE to[p] # Covered
        <4>1. Log!Rewind
          BY <2>1, <2>2, <2>6, <3>1, <3>3 DEF Log!Rewind, Log!Blocks, Blocks, Covered, Recorded
        <4>2. QED
          BY <4>1 DEF Log!Next
      <3>4. QED
        BY <3>2, <3>3
    <2>7. QED
      BY <2>1, <2>2, <2>5, <2>6
  <1>4. ASSUME NEW p \in Procs, Step(p) \/ Fail(p), ~Commit(p)
        PROVE  UNCHANGED <<chain, db>>
    BY <1>4 DEF Step, LoadCursor, CaughtUp, PlanRange, GetLogs, SplitRange, GetHeader,
                BeginWrite, Fail
  <1>5. ASSUME UNCHANGED <<chain, db>>
        PROVE  UNCHANGED <<version, Covered, Recorded(rows)>>
    BY <1>5 DEF chain, db, Covered, Recorded
  <1>6. QED
    BY <1>1, <1>2, <1>3, <1>4, <1>5 DEF Next

\* The loop, with any number of processes, crashes and reorganisations within the
\* buffer, is a log of the canonical events that is only ever extended.
THEOREM LoopImplementsLog == ASSUME Buffered PROVE Spec => ImplementsLog
  <1>1. Init => RangeInv
    BY DEF Init, RangeInv
  <1>2. Init => Log!Init
    BY Constants DEF Init, Log!Init, Log!Blocks, Blocks, Versions, None
  <1>3. TypeOK /\ RangeInv /\ [Next]_vars => RangeInv'
    BY RangeKept
  <1>4. TypeOK /\ IngestInv /\ RangeInv /\ [Next]_vars =>
            [Log!Next]_<<version, Covered, Recorded(rows)>>
    BY LogStep
  <1>5. Spec => [](TypeOK /\ IngestInv)
    BY IngestInductive
  <1>6. QED
    BY <1>1, <1>2, <1>3, <1>4, <1>5, PTL
       DEF Spec, ImplementsLog, Log!Spec, Covered, Recorded
=============================================================================
