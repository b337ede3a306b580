------------------------ MODULE ChainReaders_proofs -------------------------
(***************************************************************************)
(* What is read of a chain: the agents minted since a census, by the tail  *)
(* (RegistrationTail); the population, before the first agent of a census  *)
(* (ChainReads); and the transfers, by the payments pass (Payments).       *)
(***************************************************************************)
EXTENDS RegistrationTail, Payments, FiniteSetTheorems, WellFoundedInduction, TLAPS

-----------------------------------------------------------------------------
(***************************************************************************)
(* The registration tail.                                                  *)
(***************************************************************************)

(* Types.                                                                  *)

\* The locals of a poller keep their types when a tick returns.
LEMMA ReturnTyped == ASSUME TickOK, NEW p \in Pollers, Return(p) PROVE TickOK'
  <1>1. 0 \in 0 .. MaxMinted
    BY TailAssumption
  <1>2. block' \in [Pollers -> 0 .. MaxMinted] /\ next' \in [Pollers -> 0 .. MaxMinted]
    BY <1>1 DEF Return, TickOK
  <1>3. last' \in [Pollers -> AgentIds \cup {None}] /\ goal' \in [Pollers -> AgentIds \cup {None}]
    BY DEF Return, TickOK
  <1>4. QED
    BY <1>2, <1>3 DEF Return, Goto, TickOK

\* So they do when the loop over the planned ids ends.
LEMMA SettleTyped == ASSUME TickOK, NEW p \in Pollers, Settle(p) PROVE TickOK'
  BY ReturnTyped DEF TickOK, Settle, Goto, plan

\* And in the steps of a tick, which also type the adopted head.
LEMMA PollTyped ==
    ASSUME TypeOK, NEW p \in Pollers, Poll(p) \/ Abandon(p)
    PROVE  TickOK' /\ adopted' \in AgentIds \cup {None}
  <1>1. CASE Backstop(p)
    BY <1>1 DEF Backstop, TypeOK, TickOK, Goto, plan
  <1>2. CASE ReadHead(p)
    <2>1. onChain \in 0 .. MaxMinted /\ (onChain > 0 => onChain - 1 \in 0 .. MaxMinted)
      BY TailAssumption DEF TypeOK
    <2>2. block' \in [Pollers -> 0 .. MaxMinted]
      BY <1>2, <2>1 DEF ReadHead, TypeOK, TickOK
    <2>3. QED
      BY <1>2, <2>2 DEF ReadHead, TypeOK, TickOK, Goto
  <1>3. CASE PlanAdopt(p)
    <2>1. block[p] - 1 \in AgentIds
      BY <1>3, TailAssumption DEF PlanAdopt, TypeOK, TickOK, AgentIds
    <2>2. goal' \in [Pollers -> AgentIds \cup {None}]
      BY <1>3, <2>1 DEF PlanAdopt, TypeOK, TickOK
    <2>3. QED
      BY <1>3, <2>1, <2>2 DEF PlanAdopt, TypeOK, TickOK, Goto
  <1>4. CASE PlanCaughtUp(p)
    <2>1. goal' \in [Pollers -> AgentIds \cup {None}]
      BY <1>4 DEF PlanCaughtUp, TypeOK, TickOK
    <2>2. QED
      BY <1>4, <2>1 DEF PlanCaughtUp, TypeOK, TickOK, Goto
  <1>5. CASE PlanIds(p)
    <2>1. PICK at \in AgentIds : /\ at < block[p] - 1
                           /\ next' = [next EXCEPT ![p] = at + 1]
                           /\ last' = [last EXCEPT ![p] = LastPlanned(p, at)]
      BY <1>5 DEF PlanIds
    <2>2. at + 1 \in 0 .. MaxMinted /\ LastPlanned(p, at) \in AgentIds
      BY <2>1, TailAssumption, SMTT(20) DEF TypeOK, TickOK, AgentIds, LastPlanned
    <2>3. QED
      BY <1>5, <2>1, <2>2 DEF PlanIds, TypeOK, TickOK, Goto
  <1>6. CASE ReadAgent(p)
    <2>1. next[p] \in 0 .. MaxMinted /\ last[p] \in AgentIds \cup {None} /\ next[p] <= last[p]
      BY <1>6 DEF ReadAgent, TypeOK, TickOK
    <2>2. next[p] \in AgentIds /\ next[p] + 1 \in 0 .. MaxMinted
      BY <2>1, TailAssumption DEF AgentIds, None
    <2>3. next' \in [Pollers -> 0 .. MaxMinted]
      BY <1>6, <2>2 DEF ReadAgent, TypeOK, TickOK
    <2>4. goal' \in [Pollers -> AgentIds \cup {None}]
      BY <1>6, <2>2 DEF ReadAgent, TypeOK, TickOK
    <2>5. QED
      BY <1>6, <2>3, <2>4 DEF ReadAgent, TypeOK, TickOK
  <1>7. CASE AllRead(p) \/ ReadFails(p)
    BY <1>7, SettleTyped DEF AllRead, ReadFails, TypeOK
  <1>8. CASE PlanNothing(p) \/ Advance(p) \/ Abandon(p)
    BY <1>8, ReturnTyped DEF PlanNothing, Advance, Abandon, TypeOK
  <1>9. QED
    BY <1>1, <1>2, <1>3, <1>4, <1>5, <1>6, <1>7, <1>8 DEF Poll

\* The rows and the cursor keep their types in the steps of a tick.
LEMMA TableTyped ==
    ASSUME TypeOK, NEW p \in Pollers, Poll(p) \/ Abandon(p)
    PROVE  /\ cursor' \in AgentIds \cup {None}
           /\ DOMAIN tail' \subseteq AgentIds /\ tail' \in [DOMAIN tail' -> 0 .. MaxMinted]
           /\ retired' \subseteq DOMAIN tail'
           /\ faults' \in 0 .. MaxFaults
           /\ UNCHANGED <<onChain, census>>
  <1>1. CASE Backstop(p)
    BY <1>1, TailAssumption DEF Backstop, Supersede, Fault, TypeOK
  <1>2. CASE ReadAgent(p)
    <2>1. next[p] \in 0 .. MaxMinted /\ last[p] \in AgentIds \cup {None} /\ next[p] <= last[p]
      BY <1>2 DEF ReadAgent, TypeOK, TickOK
    <2>2. next[p] \in AgentIds /\ block[p] \in 0 .. MaxMinted
      BY <2>1, TailAssumption DEF TypeOK, TickOK, AgentIds, None
    <2>3. QED
      BY <1>2, <2>2 DEF ReadAgent, Record, TypeOK
  <1>3. CASE Advance(p)
    BY <1>3 DEF Advance, TypeOK, TickOK
  <1>4. CASE ReadHead(p) \/ ReadFails(p) \/ Abandon(p)
    BY <1>4, TailAssumption DEF ReadHead, ReadFails, CannotRead, Abandon, Fault, TypeOK, table
  <1>5. CASE PlanNothing(p) \/ PlanAdopt(p) \/ PlanCaughtUp(p) \/ PlanIds(p) \/ AllRead(p)
    BY <1>5 DEF PlanNothing, PlanAdopt, PlanCaughtUp, PlanIds, AllRead, TypeOK, table
  <1>6. QED
    BY <1>1, <1>2, <1>3, <1>4, <1>5 DEF Poll

\* Every step keeps the type of every variable.
LEMMA TailStep == ASSUME TypeOK, [Next]_vars PROVE TypeOK'
  <1>1. CASE Mint
    BY <1>1, TailAssumption DEF Mint, TypeOK, TickOK, census, table, plan
  <1>2. ASSUME NEW r \in Runs, StartRun(r)
        PROVE  TypeOK'
    BY <1>2 DEF StartRun, TypeOK, TickOK, table, plan
  <1>3. ASSUME NEW r \in Runs, FinishRun(r)
        PROVE  TypeOK'
    <2>1. 0 .. pin[r] - 1 \subseteq AgentIds
      BY TailAssumption DEF TypeOK, AgentIds
    <2>2. snaps' \in [Runs -> SUBSET AgentIds] /\ finished' \in Seq(Runs)
      BY <1>3, <2>1 DEF FinishRun, TypeOK
    <2>3. QED
      BY <1>3, <2>2 DEF FinishRun, TypeOK, TickOK, table, plan
  <1>4. ASSUME NEW r \in Runs, SupersedeOnClose(r)
        PROVE  TypeOK'
    BY <1>4, TailAssumption DEF SupersedeOnClose, Supersede, Fault, TypeOK, TickOK, plan
  <1>5. ASSUME NEW p \in Pollers, Poll(p) \/ Abandon(p)
        PROVE  TypeOK'
    BY <1>5, PollTyped, TableTyped DEF TypeOK, census
  <1>6. CASE UNCHANGED vars
    BY <1>6 DEF vars, census, table, plan, TypeOK, TickOK
  <1>7. QED
    BY <1>1, <1>2, <1>3, <1>4, <1>5, <1>6 DEF Next

\* Every variable has its type: rows are of agents that exist, and only rows
\* that exist are retired.
THEOREM TailTyped == Spec => []TypeOK
  <1>1. Init => TypeOK
    BY TailAssumption DEF Init, TypeOK, TickOK, Runs, None
  <1>2. QED
    BY <1>1, TailStep, PTL DEF Spec

-----------------------------------------------------------------------------
(* The cursor is backed.                                                   *)

\* What accounts for an id is never taken away: rows are not deleted, the
\* adopted head does not move back, a finished run keeps its rows.
LEMMA AccountsGrow ==
    ASSUME TypeOK, [Next]_vars
    PROVE  /\ DOMAIN tail \subseteq DOMAIN tail'
           /\ adopted <= adopted'
           /\ \A r \in Runs : IsFinished(r) => IsFinished(r)' /\ snaps'[r] = snaps[r]
  <1>1. adopted \in Int
    BY DEF TypeOK, AgentIds, None
  <1>2. CASE Mint \/ UNCHANGED vars
    BY <1>1, <1>2 DEF Mint, vars, census, table, IsFinished
  <1>3. ASSUME NEW r \in Runs, StartRun(r) \/ FinishRun(r) \/ SupersedeOnClose(r)
        PROVE  /\ UNCHANGED <<tail, adopted>>
               /\ \A q \in Runs : IsFinished(q) => IsFinished(q)' /\ snaps'[q] = snaps[q]
    BY <1>3 DEF StartRun, FinishRun, SupersedeOnClose, IsFinished, TypeOK, table
  <1>4. ASSUME NEW p \in Pollers, Poll(p) \/ Abandon(p)
        PROVE  DOMAIN tail \subseteq DOMAIN tail' /\ adopted <= adopted' /\ UNCHANGED census
    <2>1. CASE PlanAdopt(p)
      <3>1. block[p] - 1 \in Int
        BY DEF TypeOK, TickOK
      <3>2. QED
        BY <1>1, <2>1, <3>1 DEF PlanAdopt, table
    <2>2. CASE ReadAgent(p)
      BY <1>1, <2>2 DEF ReadAgent, Record
    <2>3. CASE Backstop(p) \/ ReadHead(p) \/ PlanNothing(p) \/ PlanCaughtUp(p) \/ PlanIds(p)
      BY <1>1, <2>3 DEF Backstop, ReadHead, PlanNothing, PlanCaughtUp, PlanIds, table
    <2>4. CASE AllRead(p) \/ ReadFails(p) \/ Advance(p) \/ Abandon(p)
      BY <1>1, <2>4 DEF AllRead, ReadFails, Advance, Abandon, table
    <2>5. QED
      BY <1>4, <2>1, <2>2, <2>3, <2>4 DEF Poll
  <1>5. ASSUME NEW p \in Pollers, Poll(p) \/ Abandon(p)
        PROVE  \A r \in Runs : IsFinished(r) => IsFinished(r)' /\ snaps'[r] = snaps[r]
    BY <1>4, <1>5 DEF census, IsFinished
  <1>6. QED
    BY <1>1, <1>2, <1>3, <1>4, <1>5 DEF Next

\* An id once accounted for stays so.
LEMMA AccountedKept ==
    ASSUME TypeOK, [Next]_vars, NEW id \in Int, Accounted(id)
    PROVE  Accounted(id)'
  <1>1. TypeOK'
    BY TailStep
  <1>2. adopted \in Int /\ adopted' \in Int
    BY <1>1 DEF TypeOK, AgentIds, None
  <1>3. QED
    BY <1>2, AccountsGrow DEF Accounted

\* Every id up to what the tail knows is accounted for: below the cursor by the
\* invariant, below the census's highest agent by that agent.
LEMMA KnownBacked ==
    ASSUME TypeOK, TailInv, NEW at \in AgentIds, Known(at), NEW id \in 0 .. at
    PROVE  Accounted(id)
  <1>1. PICK h \in AgentIds \cup {None} : HighWater(h) /\ at = IF cursor >= h THEN cursor ELSE h
    BY DEF Known
  <1>2. cursor \in Int /\ h \in Int /\ at \in Int
    BY DEF TypeOK, AgentIds, None
  <1>3. CASE at = cursor
    BY <1>3 DEF TailInv, CursorIsBacked
  <1>4. CASE at # cursor
    <2>1. at = h /\ h # None
      BY <1>1, <1>2, <1>4 DEF AgentIds, None
    <2>2. finished # <<>> /\ h \in snaps[finished[Len(finished)]]
      BY <1>1, <2>1 DEF HighWater
    <2>3. /\ Len(finished) \in 1 .. Len(finished)
          /\ finished[Len(finished)] \in Runs
      BY <2>2 DEF TypeOK
    <2>4. IsFinished(finished[Len(finished)])
      BY <2>3 DEF TailInv
    <2>5. id <= h
      BY <1>2, <2>1
    <2>6. QED
      BY <2>2, <2>3, <2>4, <2>5 DEF Accounted
  <1>5. QED
    BY <1>3, <1>4

\* The poller that moves leaves its own progress backed.
LEMMA MoverBacked ==
    ASSUME TypeOK, TailInv, NEW p \in Pollers, Poll(p) \/ Abandon(p)
    PROVE  PollerInv(p)'
  <1>1. /\ [Next]_vars
        /\ pc[p] = "reading" => \A id \in 0 .. next[p] - 1 : Accounted(id)
        /\ pc[p] \in {"reading", "advancing"} => \A id \in 0 .. goal[p] : Accounted(id)
    BY DEF Next, TailInv, PollerInv
  <1>2. next[p] \in Nat /\ goal[p] \in Int /\ block[p] \in Nat
    BY DEF TypeOK, TickOK, AgentIds, None
  <1>3. \A id \in Int : Accounted(id) => Accounted(id)'
    BY <1>1, AccountedKept
  <1>4. CASE Backstop(p) \/ ReadHead(p)
    BY <1>4 DEF Backstop, ReadHead, Goto, PollerInv, TypeOK, TickOK
  <1>5. CASE PlanAdopt(p)
    <2>1. /\ goal'[p] = block[p] - 1
          /\ pc'[p] = "advancing"
          /\ adopted' = IF adopted >= block[p] - 1 THEN adopted ELSE block[p] - 1
      BY <1>5 DEF PlanAdopt, Goto, TypeOK, TickOK
    <2>2. adopted \in Int /\ adopted' \in Int /\ adopted' >= goal'[p]
      BY <1>2, <2>1 DEF TypeOK, AgentIds, None
    <2>3. \A id \in 0 .. goal'[p] : id <= adopted'
      BY <1>2, <2>1, <2>2
    <2>4. QED
      BY <2>1, <2>3 DEF PollerInv, Accounted
  <1>6. CASE PlanCaughtUp(p)
    <2>1. PICK at \in AgentIds : Known(at) /\ goal' = [goal EXCEPT ![p] = at]
      BY <1>6 DEF PlanCaughtUp
    <2>2. goal'[p] = at /\ pc'[p] = "advancing"
      BY <1>6, <2>1 DEF PlanCaughtUp, Goto, TypeOK, TickOK
    <2>3. \A id \in 0 .. at : Accounted(id)'
      BY <1>3, <2>1, KnownBacked
    <2>4. QED
      BY <2>2, <2>3 DEF PollerInv
  <1>7. CASE PlanIds(p)
    <2>1. PICK at \in AgentIds : Known(at) /\ next' = [next EXCEPT ![p] = at + 1]
      BY <1>7 DEF PlanIds
    <2>2. next'[p] - 1 = at /\ goal'[p] = None
      BY <1>7, <2>1 DEF PlanIds, TypeOK, TickOK, AgentIds
    <2>3. \A id \in 0 .. at : Accounted(id)'
      BY <1>3, <2>1, KnownBacked
    <2>4. QED
      BY <2>2, <2>3 DEF PollerInv, None
  <1>8. CASE ReadAgent(p)
    <2>1. next'[p] - 1 = next[p] /\ goal'[p] = next[p] /\ next[p] \in DOMAIN tail'
      BY <1>2, <1>8 DEF ReadAgent, Record, TypeOK, TickOK
    <2>2. ASSUME NEW id \in Int, id = next[p]
          PROVE  Accounted(id)'
      BY <2>1, <2>2 DEF Accounted
    <2>3. \A id \in 0 .. next[p] - 1 : Accounted(id)'
      BY <1>1, <1>3, <1>8 DEF ReadAgent
    <2>4. \A id \in 0 .. next[p] : id = next[p] \/ id \in 0 .. next[p] - 1
      BY <1>2
    <2>5. \A id \in 0 .. next[p] : Accounted(id)'
      BY <2>2, <2>3, <2>4
    <2>6. QED
      BY <2>1, <2>5 DEF PollerInv
  <1>9. CASE Return(p)
    BY <1>9 DEF Return, Goto, PollerInv, TypeOK, TickOK
  <1>10. CASE pc[p] = "reading" /\ Settle(p)
    <2>1. CASE Return(p)
      BY <1>9, <2>1
    <2>2. CASE Goto(p, "advancing") /\ UNCHANGED plan
      <3>1. pc'[p] = "advancing" /\ goal'[p] = goal[p]
        BY <2>2 DEF Goto, plan, TypeOK, TickOK
      <3>2. \A id \in 0 .. goal[p] : Accounted(id)'
        BY <1>1, <1>3, <1>10
      <3>3. QED
        BY <3>1, <3>2 DEF PollerInv
    <2>3. QED
      BY <1>10, <2>1, <2>2 DEF Settle
  <1>11. QED
    BY <1>4, <1>5, <1>6, <1>7, <1>8, <1>9, <1>10
       DEF Poll, PlanNothing, AllRead, ReadFails, Advance, Abandon

\* No other poller loses what backs its progress.
LEMMA OthersBacked ==
    ASSUME TypeOK, TailInv, [Next]_vars, NEW p \in Pollers,
           UNCHANGED <<pc[p], next[p], goal[p]>>
    PROVE  PollerInv(p)'
  <1>1. \A id \in Int : Accounted(id) => Accounted(id)'
    BY AccountedKept
  <1>2. PollerInv(p)
    BY DEF TailInv
  <1>3. QED
    BY <1>1, <1>2 DEF PollerInv

\* The cursor takes over only what a poller has earned.
LEMMA CursorMoves ==
    ASSUME TypeOK, TailInv, [Next]_vars
    PROVE  CursorIsBacked'
  <1>1. \A id \in Int : Accounted(id) => Accounted(id)'
    BY AccountedKept
  <1>2. cursor \in Int
    BY DEF TypeOK, AgentIds, None
  <1>3. CASE UNCHANGED cursor
    BY <1>1, <1>3 DEF TailInv, CursorIsBacked
  <1>4. ASSUME NEW p \in Pollers, Advance(p)
        PROVE  CursorIsBacked'
    <2>1. goal[p] \in Int /\ cursor' \in {cursor, goal[p]}
      BY <1>4 DEF Advance, TypeOK, TickOK, AgentIds, None
    <2>2. \A id \in 0 .. goal[p] : Accounted(id)
      BY <1>4 DEF Advance, TailInv, PollerInv
    <2>3. \A id \in 0 .. cursor : Accounted(id)
      BY DEF TailInv, CursorIsBacked
    <2>4. QED
      BY <1>1, <2>1, <2>2, <2>3 DEF CursorIsBacked
  <1>5. (\E p \in Pollers : Advance(p)) \/ UNCHANGED cursor
    BY DEF Next, Poll, Mint, StartRun, FinishRun, SupersedeOnClose, Backstop, ReadHead,
           PlanNothing, PlanAdopt, PlanCaughtUp, PlanIds, ReadAgent, AllRead, ReadFails,
           Abandon, vars, table
  <1>6. QED
    BY <1>3, <1>4, <1>5

\* The runs that are listed as finished are finished.
LEMMA FinishedListed ==
    ASSUME TypeOK, TailInv, [Next]_vars
    PROVE  (\A i \in 1 .. Len(finished) : IsFinished(finished[i]))'
  <1>1. \A i \in 1 .. Len(finished) : finished[i] \in Runs
    BY DEF TypeOK
  <1>2. \A i \in 1 .. Len(finished) : status'[finished[i]] \in {"closing", "closed"}
    BY <1>1, AccountsGrow DEF TailInv, IsFinished
  <1>3. ASSUME NEW r \in Runs, FinishRun(r)
        PROVE  \A i \in 1 .. Len(finished') : status'[finished'[i]] \in {"closing", "closed"}
    <2>1. status'[r] \in {"closing", "closed"}
      BY <1>3 DEF FinishRun, TypeOK
    <2>2. finished \in Seq(Runs) /\ finished' = Append(finished, r)
      BY <1>3 DEF FinishRun, TypeOK
    <2>3. \A i \in 1 .. Len(finished') :
             finished'[i] = r \/ (i \in 1 .. Len(finished) /\ finished'[i] = finished[i])
      BY <2>2
    <2>4. QED
      BY <1>2, <2>1, <2>3
  <1>4. (\E r \in Runs : FinishRun(r)) \/ UNCHANGED finished
    BY DEF Next, Poll, Mint, StartRun, SupersedeOnClose, Backstop, ReadHead,
           PlanNothing, PlanAdopt, PlanCaughtUp, PlanIds, ReadAgent, AllRead, ReadFails,
           Advance, Abandon, vars, census
  <1>5. QED
    BY <1>2, <1>3, <1>4 DEF IsFinished

\* A step moves the locals of one poller at most.
LEMMA OneMoves ==
    ASSUME TypeOK, NEW p \in Pollers, Poll(p) \/ Abandon(p), NEW q \in Pollers, q # p
    PROVE  UNCHANGED <<pc[q], next[q], goal[q]>>
  BY DEF Poll, Backstop, ReadHead, PlanNothing, PlanAdopt, PlanCaughtUp, PlanIds, ReadAgent,
         AllRead, ReadFails, Settle, Advance, Abandon, Return, Goto, plan, TypeOK, TickOK

\* The invariant and what makes it inductive.
THEOREM TailBacked == Spec => []TailInv
  <1>1. Init => TailInv
    BY DEF Init, TailInv, CursorIsBacked, PollerInv, None
  <1>2. ASSUME TypeOK, TailInv, [Next]_vars
        PROVE  TailInv'
    <2>1. ASSUME NEW q \in Pollers
          PROVE  PollerInv(q)'
      <3>1. ASSUME NEW p \in Pollers, Poll(p) \/ Abandon(p)
            PROVE  PollerInv(q)'
        BY <1>2, <3>1, MoverBacked, OneMoves, OthersBacked
      <3>2. CASE UNCHANGED <<pc, next, goal>>
        BY <1>2, <3>2, OthersBacked
      <3>3. (\E p \in Pollers : Poll(p) \/ Abandon(p)) \/ UNCHANGED <<pc, next, goal>>
        BY <1>2 DEF Next, Mint, StartRun, FinishRun, SupersedeOnClose, vars, plan
      <3>4. QED
        BY <3>1, <3>2, <3>3
    <2>2. QED
      BY <1>2, <2>1, CursorMoves, FinishedListed DEF TailInv
  <1>3. QED
    BY <1>1, <1>2, TailTyped, PTL DEF Spec

\* "The cursor may only advance past ids that are actually stored"
\* (bin/tail.rs:233): every id up to the cursor has a row, or lies below an agent
\* that a finished census has rows of, or was there before the tail.
THEOREM CursorBacked == Spec => []CursorIsBacked
  <1>1. TailInv => CursorIsBacked
    BY DEF TailInv
  <1>2. QED
    BY <1>1, TailBacked, PTL

-----------------------------------------------------------------------------
(* What no step does.                                                      *)

\* "Never backward" (tail.rs:220): however the ticks of several pollers are
\* interleaved, no one of them takes back what another has earned.
THEOREM CursorOnward == Spec => CursorForward
  <1>1. ASSUME TypeOK, [Next]_vars
        PROVE  cursor' >= cursor
    <2>1. cursor \in Int
      BY <1>1 DEF TypeOK, AgentIds, None
    <2>2. ASSUME NEW p \in Pollers, Advance(p)
          PROVE  cursor' >= cursor
      <3>1. goal[p] \in Int
        BY <1>1 DEF TypeOK, TickOK, AgentIds, None
      <3>2. QED
        BY <2>1, <2>2, <3>1 DEF Advance
    <2>3. (\E p \in Pollers : Advance(p)) \/ UNCHANGED cursor
      BY <1>1 DEF Next, Poll, Mint, StartRun, FinishRun, SupersedeOnClose, Backstop, ReadHead,
             PlanNothing, PlanAdopt, PlanCaughtUp, PlanIds, ReadAgent, AllRead, ReadFails,
             Abandon, vars, table
    <2>4. QED
      BY <2>1, <2>2, <2>3
  <1>2. QED
    BY <1>1, TailTyped, PTL DEF Spec, CursorForward

\* "The FIRST sighting is the one kept" (tail.rs:189): a row is never rewritten,
\* removed, or brought back once it is retired.
THEOREM FirstSightingKept == Spec => SightingKept
  <1>1. ASSUME TypeOK, [Next]_vars
        PROVE  /\ retired \subseteq retired'
               /\ \A id \in DOMAIN tail : id \in DOMAIN tail' /\ tail'[id] = tail[id]
    <2>1. ASSUME NEW p \in Pollers, ReadAgent(p)
          PROVE  /\ UNCHANGED retired
                 /\ \A id \in DOMAIN tail : id \in DOMAIN tail' /\ tail'[id] = tail[id]
      BY <2>1 DEF ReadAgent, Record
    <2>2. (\E p \in Pollers : ReadAgent(p)) \/ (UNCHANGED tail /\ retired \subseteq retired')
      BY <1>1 DEF Next, Poll, Mint, StartRun, FinishRun, SupersedeOnClose, Supersede, Backstop,
             ReadHead, PlanNothing, PlanAdopt, PlanCaughtUp, PlanIds, AllRead, ReadFails,
             Advance, Abandon, vars, table
    <2>3. QED
      BY <2>1, <2>2
  <1>2. QED
    BY <1>1, TailTyped, PTL DEF Spec, SightingKept

\* The cursor and every row of the tail are kept, for any number of pollers.
THEOREM TailGrows == Spec => TailOnlyGrows
  BY CursorOnward, FirstSightingKept, PTL DEF TailOnlyGrows

-----------------------------------------------------------------------------
(***************************************************************************)
(* The reads of a census, and the payments pass.                           *)
(***************************************************************************)

(* Numbers.                                                                *)

LEMMA LeastNat ==
    ASSUME NEW T \in SUBSET Nat, T # {} PROVE \E x \in T : \A y \in T : x <= y
  <1>1. PICK x \in T : \A y \in T : ~ (<<y, x>> \in OpToRel(<, Nat))
    BY NatLessThanWellFounded, WFMin
  <1>2. \A y \in T : ~(y < x)
    BY <1>1 DEF OpToRel
  <1>3. QED
    BY <1>2

LEMMA MinIs ==
    ASSUME NEW S \in SUBSET Nat, S # {}
    PROVE  Min(S) \in S /\ \A y \in S : Min(S) <= y
  BY LeastNat DEF Min

LEMMA MinOfTwo ==
    ASSUME NEW x \in Int, NEW y \in Int PROVE Min({x, y}) = IF x <= y THEN x ELSE y
  BY DEF Min

LEMMA MaxOfTwo ==
    ASSUME NEW x \in Int, NEW y \in Int PROVE Max({x, y}) = IF x >= y THEN x ELSE y
  BY DEF Max

-----------------------------------------------------------------------------
(* The population.                                                         *)

\* The ids are minted one after the other: those that exist are an interval.
LEMMA ExistsBelow ==
    ASSUME NEW n \in Nat, exists_at(n), NEW m \in Nat, m <= n PROVE exists_at(m)
  <1> DEFINE Missing == {d \in Nat : d <= n /\ ~exists_at(n - d)}
  <1>1. CASE Missing = {}
    <2>1. n - m \in Nat /\ n - m <= n /\ n - (n - m) = m
      OBVIOUS
    <2>2. QED
      BY <1>1, <2>1
  <1>2. CASE Missing # {}
    <2>1. PICK d \in Missing : \A y \in Missing : d <= y
      <3>1. Missing \in SUBSET Nat
        OBVIOUS
      <3> HIDE DEF Missing
      <3>2. QED
        BY <1>2, <3>1, LeastNat
    <2>2. d \in Nat /\ d <= n /\ ~exists_at(n - d) /\ d # 0
      OBVIOUS
    <2>3. d - 1 \in Nat /\ d - 1 <= n /\ d - 1 \notin Missing
      BY <2>1, <2>2
    <2>4. exists_at(n - (d - 1))
      BY <2>3
    <2>5. PICK r \in Registered : r.id = n - (d - 1) /\ r.block <= Pinned
      BY <2>4 DEF exists_at
    <2>6. r.id > 0 /\ r.id - 1 = n - d
      BY <2>2, <2>5
    <2>7. PICK q \in Registered : q.id = r.id - 1 /\ q.block <= r.block
      BY <2>6, ChainReadsAssumption
    <2>8. q.block <= Pinned
      BY <2>5, <2>7, ChainReadsAssumption
    <2>9. QED
      BY <2>2, <2>6, <2>7, <2>8 DEF exists_at
  <1>3. QED
    BY <1>1, <1>2

Existing == {i \in Ids : exists_at(i)}

LEMMA ExistingIs ==
    /\ ~exists_at(0) => Existing = {}
    /\ \A n \in Nat : exists_at(n) /\ ~exists_at(n + 1) => Existing = 0 .. n
  <1>1. ASSUME NEW i \in Existing PROVE i \in Nat /\ exists_at(i)
    BY ChainReadsAssumption DEF Existing, Ids
  <1>2. ~exists_at(0) => Existing = {}
    <2> SUFFICES ASSUME NEW i \in Existing PROVE exists_at(0)
      OBVIOUS
    <2>1. i \in Nat /\ exists_at(i) /\ 0 \in Nat /\ 0 <= i
      BY <1>1
    <2>2. QED
      BY <2>1, ExistsBelow
  <1>3. ASSUME NEW n \in Nat, exists_at(n), ~exists_at(n + 1) PROVE Existing = 0 .. n
    <2>1. ASSUME NEW i \in Existing PROVE i \in 0 .. n
      <3>1. i \in Nat /\ exists_at(i)
        BY <1>1, <2>1
      <3>2. ASSUME n + 1 <= i PROVE FALSE
        BY <1>3, <3>1, <3>2, ExistsBelow
      <3>3. QED
        BY <3>1, <3>2
    <2>2. ASSUME NEW i \in 0 .. n PROVE i \in Existing
      <3>1. exists_at(i)
        BY <1>3, ExistsBelow
      <3>2. QED
        BY <3>1 DEF Existing, exists_at, Ids
    <2>3. QED
      BY <2>1, <2>2
  <1>4. QED
    BY <1>2, <1>3

\* find_boundary keeps an id that exists below one that does not, and what
\* comes out of it is the population.
Bracket ==
    /\ lo \in Nat /\ hi \in Nat
    /\ stage \in {"zero", "double", "bisect", "lo_exists", "hi_absent",
                  "scan", "minters", "read", "bailed"}
    /\ stage = "zero" => lo = 0
    /\ stage = "double" => exists_at(lo) /\ lo < hi
    /\ stage = "bisect" => exists_at(lo) /\ ~exists_at(hi) /\ hi - lo > 1
    /\ stage \in {"lo_exists", "hi_absent"} => exists_at(lo) /\ ~exists_at(hi) /\ hi = lo + 1
    /\ stage \in {"scan", "minters", "read"} => ids = Existing

LEMMA LearnKeeps ==
    ASSUME Bracket, NEW there \in BOOLEAN, there <=> exists_at(Asked), Learn(there), Asking
    PROVE  Bracket'
  <1>1. CASE stage = "zero"
    <2>1. Asked = 0 /\ lo = 0
      BY <1>1 DEF Asked, Bracket
    <2>2. CASE there
      <3>1. stage' = "double" /\ hi' = 1 /\ lo' = 0
        BY <1>1, <2>1, <2>2 DEF Learn
      <3>2. exists_at(0)
        BY <2>1, <2>2
      <3>3. QED
        BY <3>1, <3>2 DEF Bracket, exists_at
    <2>3. CASE ~there
      <3>1. stage' = "scan" /\ ids' = {} /\ UNCHANGED <<lo, hi>>
        BY <1>1, <2>3 DEF Learn, Empty
      <3>2. Existing = {}
        BY <2>1, <2>3, ExistingIs
      <3>3. QED
        BY <3>1, <3>2 DEF Bracket, Existing, exists_at
    <2>4. QED
      BY <2>2, <2>3
  <1>2. CASE stage = "double"
    <2>1. Asked = hi /\ exists_at(lo) /\ lo < hi /\ lo \in Nat /\ hi \in Nat
      BY <1>2 DEF Asked, Bracket
    <2>2. CASE there
      <3>1. stage' = "double" /\ lo' = hi /\ hi' = 2 * hi
        BY <1>2, <2>2 DEF Learn
      <3>2. exists_at(hi)
        BY <2>1, <2>2
      <3>3. QED
        BY <2>1, <3>1, <3>2 DEF Bracket, exists_at
    <2>3. CASE ~there
      <3>1. stage' = Bisecting(lo, hi) /\ UNCHANGED <<lo, hi, ids>>
        BY <1>2, <2>3 DEF Learn
      <3>2. ~exists_at(hi)
        BY <2>1, <2>3
      <3>3. QED
        BY <2>1, <3>1, <3>2 DEF Bracket, Bisecting, exists_at
    <2>4. QED
      BY <2>2, <2>3
  <1>3. CASE stage = "bisect"
    <2> DEFINE mid == lo + (hi - lo) \div 2
    <2>1. /\ Asked = mid /\ exists_at(lo) /\ ~exists_at(hi) /\ hi - lo > 1
          /\ lo \in Nat /\ hi \in Nat
      BY <1>3 DEF Asked, Bracket
    <2>2. mid \in Nat /\ lo < mid /\ mid < hi
      BY <2>1
    <2> HIDE DEF mid
    <2>3. /\ lo' = IF there THEN mid ELSE lo
          /\ hi' = IF there THEN hi ELSE mid
          /\ stage' = Bisecting(lo', hi')
      BY <1>3, <2>1 DEF Learn
    <2>4. exists_at(lo') /\ ~exists_at(hi') /\ lo' < hi' /\ lo' \in Nat /\ hi' \in Nat
      BY <2>1, <2>2, <2>3
    <2>5. QED
      BY <2>3, <2>4 DEF Bracket, Bisecting, exists_at
  <1>4. CASE stage = "lo_exists"
    <2>1. Asked = lo
      BY <1>4 DEF Asked
    <2>2. stage' = "hi_absent" /\ UNCHANGED <<lo, hi, ids>>
      BY <1>4, <2>1 DEF Learn, Bracket
    <2>3. QED
      BY <1>4, <2>2 DEF Bracket, exists_at
  <1>5. CASE stage = "hi_absent"
    <2>1. Asked = hi
      BY <1>5 DEF Asked
    <2>2. stage' = "scan" /\ ids' = 0 .. lo /\ UNCHANGED <<lo, hi>>
      BY <1>5, <2>1 DEF Learn, Bracket
    <2>3. Existing = 0 .. lo
      BY <1>5, ExistingIs DEF Bracket
    <2>4. QED
      BY <2>2, <2>3 DEF Bracket, Existing, exists_at
  <1>6. QED
    BY <1>1, <1>2, <1>3, <1>4, <1>5 DEF Asking

LEMMA BailKeeps == ASSUME Bracket, Bail PROVE Bracket'
  BY DEF Bracket, Bail

LEMMA BracketStep == ASSUME Bracket, ReadNext \/ UNCHANGED <<stage, lo, hi, ids>> PROVE Bracket'
  <1>1. CASE Answer
    <2>1. Asking
      BY <1>1 DEF Answer
    <2>2. CASE exists_at(Asked) /\ Learn(TRUE)
      BY <2>1, <2>2, LearnKeeps
    <2>3. CASE ~exists_at(Asked) /\ \E e \in Reverts(Asked) : Judge(e)
      <3>1. PICK e \in Reverts(Asked) : Judge(e)
        BY <2>3
      <3>2. CASE Learn(FALSE)
        BY <2>1, <2>3, <3>2, LearnKeeps
      <3>3. CASE Bail
        BY <3>3, BailKeeps
      <3>4. CASE UNCHANGED <<stage, lo, hi, ids>>
        BY <3>4 DEF Bracket, exists_at, Existing
      <3>5. QED
        BY <3>1, <3>2, <3>3, <3>4 DEF Judge
    <2>4. QED
      BY <1>1, <2>2, <2>3 DEF Answer
  <1>2. CASE Fail
    <2>1. PICK e \in Failures : Judge(e)
      BY <1>2 DEF Fail
    <2>2. ~is_revert(e)
      BY DEF Failures, is_revert, is_undecodable
    <2>3. CASE Bail
      BY <2>3, BailKeeps
    <2>4. CASE UNCHANGED <<stage, lo, hi, ids>>
      BY <2>4 DEF Bracket, exists_at, Existing
    <2>5. QED
      BY <2>1, <2>2, <2>3, <2>4 DEF Judge
  <1>3. CASE TimeOut
    <2>1. CASE Bail
      BY <2>1, BailKeeps
    <2>2. CASE UNCHANGED <<stage, lo, hi, ids>>
      BY <2>2 DEF Bracket, exists_at, Existing
    <2>3. QED
      BY <1>3, <2>1, <2>2 DEF TimeOut
  <1>4. CASE ScanAnswer \/ (\E tx \in DOMAIN Sender : Resolve(tx)) \/ UNCHANGED <<stage, lo, hi, ids>>
    <2>1. UNCHANGED <<stage, lo, hi, ids>>
      BY <1>4 DEF ScanAnswer, Resolve
    <2>2. QED
      BY <2>1 DEF Bracket, exists_at, Existing
  <1>5. CASE ScanRefused \/ ScanEnd
    <2>1. stage = "scan" /\ stage' \in {"scan", "minters"} /\ UNCHANGED <<lo, hi, ids>>
      BY <1>5 DEF ScanRefused, ScanEnd
    <2>2. QED
      BY <2>1 DEF Bracket, exists_at, Existing
  <1>6. CASE MintersEnd
    <2>1. stage = "minters" /\ stage' = "read" /\ lo' = 0 /\ hi' = 0 /\ ids' = ids
      BY <1>6 DEF MintersEnd
    <2>2. QED
      BY <2>1 DEF Bracket, exists_at, Existing
  <1>7. QED
    BY <1>1, <1>2, <1>3, <1>4, <1>5, <1>6 DEF ReadNext

-----------------------------------------------------------------------------
(* The window of a query, and the queries that were refused.               *)

\* The window never grows: its ceiling comes down with it, so a window that
\* was refused is wider than every one that is asked for after it.
Windows ==
    /\ \E w \in Nat \ {0}, n \in Nat : window = [current |-> w, ceiling |-> w, ok |-> n]
    /\ refused \in Seq(Nat)
    /\ stage # "minters" => \A i \in DOMAIN refused : refused[i] > window.current
    /\ RefusedOnce

LEMMA WindowsStep ==
    ASSUME Windows, ReadNext \/ UNCHANGED <<stage, window, refused>> PROVE Windows'
  <1>1. PICK w \in Nat \ {0}, n \in Nat : window = [current |-> w, ceiling |-> w, ok |-> n]
    BY DEF Windows
  <1>2. CASE UNCHANGED <<window, refused>> /\ (stage = "minters" <=> stage' = "minters")
    BY <1>2 DEF Windows, RefusedOnce
  <1>3. CASE ScanAnswer
    <2>1. stage' = stage /\ refused' = refused /\ window' = on_success(window)
      BY <1>3 DEF ScanAnswer
    <2>2. on_success(window) = window
      BY <1>1 DEF on_success
    <2>3. QED
      BY <2>1, <2>2 DEF Windows, RefusedOnce
  <1>4. CASE ScanRefused
    <2>1. /\ stage = "scan" /\ refused' = Append(refused, w)
          /\ refused \in Seq(Nat) /\ \A i \in DOMAIN refused : refused[i] > w
      BY <1>1, <1>4 DEF ScanRefused, Windows
    <2>2. /\ refused' \in Seq(Nat) /\ DOMAIN refused' = 1 .. Len(refused) + 1
          /\ \A i \in 1 .. Len(refused) : refused'[i] = refused[i] /\ refused[i] > w /\ refused[i] \in Nat
          /\ refused'[Len(refused) + 1] = w
      BY <2>1
    <2>3. RefusedOnce'
      BY <1>1, <2>1, <2>2 DEF Windows, RefusedOnce
    <2>4. CASE w > 1 /\ window' = on_failure(window) /\ stage' = stage
      <3> DEFINE v == w \div 2
      <3>1. v \in Nat \ {0} /\ v < w
        BY <2>4
      <3>2. Max({v, 1}) = v
        BY <3>1, MaxOfTwo
      <3>3. window' = [current |-> v, ceiling |-> v, ok |-> 0]
        BY <1>1, <2>4, <3>2 DEF on_failure
      <3> HIDE DEF v
      <3>4. \A i \in DOMAIN refused' : refused'[i] > window'.current
        BY <2>2, <3>1, <3>3
      <3>5. QED
        BY <2>2, <2>3, <3>1, <3>3, <3>4 DEF Windows
    <2>5. CASE UNCHANGED window /\ stage' = "minters"
      BY <1>1, <2>2, <2>3, <2>5 DEF Windows
    <2>6. QED
      BY <1>1, <1>4, <2>4, <2>5 DEF ScanRefused
  <1>5. CASE ScanEnd
    BY <1>5 DEF ScanEnd, scanning, Windows, RefusedOnce
  <1>6. CASE MintersEnd
    <2>1. window' = LogWindow /\ refused' = <<>> /\ stage' = "read"
      BY <1>6 DEF MintersEnd
    <2>2. QED
      BY <2>1, ChainReadsAssumption DEF Windows, RefusedOnce, LogWindow
  <1>7. CASE Answer \/ Fail \/ TimeOut
    <2>1. UNCHANGED <<window, refused>> /\ stage # "minters"
      BY <1>7 DEF Answer, Fail, TimeOut, scanning, Asking
    <2>2. stage' # "minters"
      <3>1. ASSUME NEW there \in BOOLEAN, Learn(there) PROVE stage' # "minters"
        BY <2>1, <3>1 DEF Learn, Empty, Bisecting
      <3>2. CASE Bail
        BY <3>2 DEF Bail
      <3>3. CASE UNCHANGED stage
        BY <2>1, <3>3
      <3>4. CASE \E e \in Message : Judge(e)
        BY <3>1, <3>2, <3>3, <3>4 DEF Judge
      <3>5. QED
        BY <1>7, <3>1, <3>2, <3>3, <3>4 DEF Answer, Fail, TimeOut, Reverts, Failures
    <2>3. QED
      BY <1>2, <2>1, <2>2
  <1>8. CASE \E tx \in DOMAIN Sender : Resolve(tx)
    BY <1>2, <1>8 DEF Resolve
  <1>9. QED
    BY <1>2, <1>3, <1>4, <1>5, <1>6, <1>7, <1>8 DEF ReadNext

-----------------------------------------------------------------------------
(* The events, merged.                                                     *)

LEMMA EarliestIs ==
    ASSUME NEW i \in Ids
    PROVE  /\ Earliest(i) \in Nat
           /\ \E q \in Registered : q.id = i /\ q.block = Earliest(i)
           /\ \A q \in Registered : q.id = i => Earliest(i) <= q.block
  <1> DEFINE blocks == {r.block : r \in {q \in Registered : q.id = i}}
  <1>1. blocks \subseteq Nat /\ blocks # {}
    BY ChainReadsAssumption DEF Ids
  <1>2. Min(blocks) \in blocks /\ \A y \in blocks : Min(blocks) <= y
    <2> HIDE DEF blocks
    <2>1. QED
      BY <1>1, MinIs
  <1>3. QED
    BY <1>1, <1>2 DEF Earliest

\* An event of an agent in its earliest block.
First(i, entry) ==
    \E r \in Registered : r.id = i /\ r.block = Earliest(i) /\ entry = [tx |-> r.tx, block |-> r.block]

\* out holds the first event of every agent with one below the block.
Covers(out, below) ==
    /\ DOMAIN out = {r.id : r \in {q \in Registered : q.block < below /\ q.block <= Pinned}}
    /\ \A i \in DOMAIN out : First(i, out[i])

LEMMA MergedCovers ==
    ASSUME NEW out, NEW a \in Nat, NEW z \in Nat, Covers(out, a), a <= Pinned, z <= Pinned, a <= z
    PROVE  Covers(Merged(out, Events(a, z)), z + 1)
  <1> DEFINE new == Merged(out, Events(a, z))
             seen(i) == {[tx |-> r.tx, block |-> r.block] : r \in {q \in Events(a, z) : q.id = i}}
                            \cup (IF i \in DOMAIN out THEN {out[i]} ELSE {})
  <1>1. /\ DOMAIN new = DOMAIN out \cup {r.id : r \in Events(a, z)}
        /\ \A i \in DOMAIN new : new[i] = CHOOSE r \in seen(i) : \A q \in seen(i) : r.block <= q.block
    BY DEF Merged
  <1>2. \A r \in Registered : r.block \in Nat /\ r.id \in Ids
    BY ChainReadsAssumption DEF Ids
  <1>3. DOMAIN new = {r.id : r \in {q \in Registered : q.block < z + 1 /\ q.block <= Pinned}}
    <2>1. Pinned \in Nat
      BY ChainReadsAssumption
    <2>2. ASSUME NEW r \in Registered, r.block < z + 1 PROVE r.id \in DOMAIN new
      <3>1. r.block < a \/ r \in Events(a, z)
        BY <1>2, <2>2 DEF Events
      <3>2. r.block <= Pinned
        BY <1>2, <2>1, <2>2
      <3>3. QED
        BY <1>1, <3>1, <3>2 DEF Covers
    <2>3. ASSUME NEW i \in DOMAIN new
          PROVE  \E r \in Registered : r.id = i /\ r.block < z + 1 /\ r.block <= Pinned
      <3>1. CASE i \in DOMAIN out
        <4>1. PICK r \in Registered : r.id = i /\ r.block < a /\ r.block <= Pinned
          BY <3>1 DEF Covers
        <4>2. QED
          BY <1>2, <4>1
      <3>2. CASE i \in {r.id : r \in Events(a, z)}
        <4>1. PICK r \in Registered : r.id = i /\ r.block \in a .. z
          BY <3>2 DEF Events
        <4>2. QED
          BY <1>2, <2>1, <4>1
      <3>3. QED
        BY <1>1, <3>1, <3>2
    <2> HIDE DEF new
    <2>4. QED
      BY <2>2, <2>3
  <1>4. ASSUME NEW i \in DOMAIN new PROVE First(i, new[i])
    <2>1. i \in Ids
      BY <1>3, <1>4 DEF Ids
    <2>2. ASSUME NEW e \in seen(i)
          PROVE  \E r \in Registered : r.id = i /\ e = [tx |-> r.tx, block |-> r.block]
      <3>1. CASE e \in {[tx |-> r.tx, block |-> r.block] : r \in {q \in Events(a, z) : q.id = i}}
        BY <3>1 DEF Events
      <3>2. CASE i \in DOMAIN out /\ e = out[i]
        BY <3>2 DEF Covers, First
      <3>3. QED
        BY <2>2, <3>1, <3>2
    <2>3. \A e \in seen(i) : e.block \in Nat /\ Earliest(i) <= e.block
      <3>1. ASSUME NEW e \in seen(i) PROVE e.block \in Nat /\ Earliest(i) <= e.block
        <4> HIDE DEF seen
        <4>1. PICK r \in Registered : r.id = i /\ e = [tx |-> r.tx, block |-> r.block]
          BY <2>2
        <4>2. e.block = r.block
          BY <4>1
        <4>3. QED
          BY <1>2, <2>1, <4>1, <4>2, EarliestIs
      <3>2. QED
        BY <3>1
    <2>4. \E e \in seen(i) : e.block = Earliest(i)
      <3>1. CASE i \in DOMAIN out
        <4>1. out[i] \in seen(i) /\ First(i, out[i])
          BY <3>1 DEF Covers
        <4>2. out[i].block = Earliest(i)
          BY <4>1 DEF First
        <4>3. QED
          BY <4>1, <4>2
      <3>2. CASE i \notin DOMAIN out
        <4>1. PICK q \in Registered : q.id = i /\ q.block = Earliest(i)
          BY <2>1, EarliestIs
        <4>2. PICK r \in Registered : r.id = i /\ r.block \in a .. z
          BY <1>1, <1>4, <3>2 DEF Events
        <4>3. q.block <= r.block
          BY <2>1, <4>1, <4>2, EarliestIs
        <4>4. ~(q.block < a /\ q.block <= Pinned)
          BY <3>2, <4>1 DEF Covers
        <4>5. Pinned \in Nat /\ q.block \in Nat /\ r.block \in Nat
          BY <1>2, ChainReadsAssumption
        <4>6. q.block \in a .. z
          BY <4>2, <4>3, <4>4, <4>5
        <4>7. q \in Events(a, z)
          BY <4>6 DEF Events
        <4>8. [tx |-> q.tx, block |-> q.block] \in seen(i)
          BY <4>1, <4>7
        <4>9. QED
          BY <4>1, <4>8
      <3>3. QED
        BY <3>1, <3>2
    <2>5. new[i] = CHOOSE r \in seen(i) : \A q \in seen(i) : r.block <= q.block
      BY <1>1, <1>4
    <2>6. Earliest(i) \in Nat
      BY <2>1, EarliestIs
    <2> HIDE DEF seen, new
    <2>7. \E r \in seen(i) : \A q \in seen(i) : r.block <= q.block
      BY <2>3, <2>4
    <2>8. new[i] \in seen(i) /\ \A q \in seen(i) : new[i].block <= q.block
      BY <2>5, <2>7
    <2>9. new[i].block = Earliest(i)
      BY <2>3, <2>4, <2>6, <2>8
    <2>10. PICK r \in Registered : r.id = i /\ new[i] = [tx |-> r.tx, block |-> r.block]
      BY <2>2, <2>8
    <2>11. r.block = Earliest(i)
      BY <2>9, <2>10
    <2>12. QED
      BY <2>10, <2>11 DEF First
  <1>5. QED
    BY <1>3, <1>4 DEF Covers

-----------------------------------------------------------------------------
(* The scan, and the senders.                                              *)

\* What the scan has collected is the minting of every agent up to where it is, and
\* a sender that is known is the right one.
Scan ==
    /\ from \in Nat
    /\ stage \notin {"minters", "read"} => Covers(registrations, from)
    /\ stage \in {"minters", "read"} => registrations = <<>> \/ Covers(registrations, Pinned + 1)
    /\ \A tx \in DOMAIN minters : minters[tx] \in {Sender[tx], "none"}

LEMMA CoversPast ==
    ASSUME NEW out, NEW a \in Nat, a > Pinned, Covers(out, a) PROVE Covers(out, Pinned + 1)
  <1>1. \A q \in Registered : q.block \in Nat /\ Pinned \in Nat
    BY ChainReadsAssumption
  <1>2. \A q \in Registered : (q.block < a /\ q.block <= Pinned) <=> (q.block < Pinned + 1 /\ q.block <= Pinned)
    BY <1>1
  <1>3. QED
    BY <1>2 DEF Covers

LEMMA ScanStep ==
    ASSUME Bracket, Windows, Scan,
           ReadNext \/ UNCHANGED <<stage, scanning>>
    PROVE  Scan'
  <1>1. CASE UNCHANGED <<from, registrations, minters>> /\ stage' = stage
    BY <1>1 DEF Scan
  <1>2. CASE ScanAnswer
    <2>1. PICK w \in Nat \ {0}, n \in Nat : window = [current |-> w, ceiling |-> w, ok |-> n]
      BY DEF Windows
    <2>2. /\ stage = "scan" /\ stage' = "scan" /\ from <= Pinned /\ minters' = minters
          /\ registrations' = Merged(registrations, Events(from, To)) /\ from' = To + 1
      BY <1>2 DEF ScanAnswer
    <2>3. Pinned \in Nat /\ from \in Nat /\ Covers(registrations, from)
      BY <2>2, ChainReadsAssumption DEF Scan
    <2>4. To \in Nat /\ from <= To
      <3>1. window.current = w
        BY <2>1
      <3>2. from + w - 1 \in Int /\ from <= from + w - 1
        BY <2>3
      <3>3. To = IF from + w - 1 <= Pinned THEN from + w - 1 ELSE Pinned
        BY <2>3, <3>1, <3>2, MinOfTwo DEF To
      <3>4. QED
        BY <2>2, <2>3, <3>2, <3>3
    <2>5. PICK z \in Nat : z = To
      BY <2>4
    <2>6. from <= z /\ z <= Pinned
      <3>1. from + w - 1 \in Int
        BY <2>3
      <3>2. To = IF from + w - 1 <= Pinned THEN from + w - 1 ELSE Pinned
        BY <2>1, <2>3, <3>1, MinOfTwo DEF To
      <3>3. QED
        BY <2>3, <2>4, <2>5, <3>1, <3>2
    <2>7. Covers(Merged(registrations, Events(from, z)), z + 1)
      BY <2>2, <2>3, <2>5, <2>6, MergedCovers
    <2>8. registrations' = Merged(registrations, Events(from, z)) /\ from' = z + 1
      BY <2>2, <2>5
    <2>9. Covers(registrations', from')
      BY <2>7, <2>8
    <2>10. QED
      BY <2>2, <2>5, <2>8, <2>9 DEF Scan
  <1>3. CASE ScanRefused
    <2>1. stage = "scan" /\ UNCHANGED <<from, minters>>
      BY <1>3 DEF ScanRefused
    <2>2. CASE UNCHANGED <<stage, registrations>>
      BY <1>1, <2>1, <2>2
    <2>3. CASE registrations' = <<>> /\ stage' = "minters"
      BY <2>1, <2>3 DEF Scan
    <2>4. QED
      BY <1>3, <2>2, <2>3 DEF ScanRefused
  <1>4. CASE ScanEnd
    <2>1. stage = "scan" /\ from > Pinned /\ stage' = "minters" /\ UNCHANGED <<from, registrations, minters>>
      BY <1>4 DEF ScanEnd, scanning
    <2>2. Covers(registrations, Pinned + 1)
      BY <2>1, CoversPast DEF Scan
    <2>3. QED
      BY <2>1, <2>2 DEF Scan
  <1>5. ASSUME NEW tx \in DOMAIN Sender, Resolve(tx) PROVE Scan'
    <2>1. stage = "minters" /\ stage' = "minters" /\ UNCHANGED <<from, registrations>>
      BY <1>5 DEF Resolve
    <2>2. \E v \in {Sender[tx], "none"} : minters' = OrInsert(minters, tx, v)
      BY <1>5 DEF Resolve
    <2>3. \A x \in DOMAIN minters' : minters'[x] \in {Sender[x], "none"}
      BY <2>2 DEF OrInsert, Scan
    <2>4. QED
      BY <2>1, <2>3 DEF Scan
  <1>6. CASE MintersEnd
    <2>1. stage = "minters" /\ stage' = "read" /\ from' = Deploy /\ minters' = <<>> /\ registrations' = registrations
      BY <1>6 DEF MintersEnd
    <2>2. registrations = <<>> \/ Covers(registrations, Pinned + 1)
      BY <2>1 DEF Scan
    <2>3. registrations' = <<>> \/ Covers(registrations', Pinned + 1)
      BY <2>1, <2>2
    <2>4. from' \in Nat /\ \A tx \in DOMAIN minters' : minters'[tx] \in {Sender[tx], "none"}
      BY <2>1, ChainReadsAssumption
    <2>5. QED
      BY <2>1, <2>3, <2>4 DEF Scan
  <1>7. CASE Answer \/ Fail \/ TimeOut
    <2>1. UNCHANGED <<from, registrations, minters>> /\ stage \notin {"minters", "read"}
      BY <1>7 DEF Answer, Fail, TimeOut, scanning, Asking
    <2>2. stage' \notin {"minters", "read"}
      <3>1. ASSUME NEW there \in BOOLEAN, Learn(there) PROVE stage' \notin {"minters", "read"}
        BY <2>1, <3>1 DEF Learn, Empty, Bisecting
      <3>2. CASE Bail
        BY <3>2 DEF Bail
      <3>3. CASE UNCHANGED stage
        BY <2>1, <3>3
      <3>4. CASE \E e \in Message : Judge(e)
        BY <3>1, <3>2, <3>3, <3>4 DEF Judge
      <3>5. QED
        BY <1>7, <3>1, <3>2, <3>3, <3>4 DEF Answer, Fail, TimeOut, Reverts, Failures
    <2>3. QED
      BY <2>1, <2>2 DEF Scan
  <1>8. QED
    BY <1>1, <1>2, <1>3, <1>4, <1>5, <1>6, <1>7 DEF ReadNext, scanning

\* The reads, however they are retried, refused or cut.
ReadInv == Bracket /\ Windows /\ Scan

LEMMA ReadInvInit == ReadInit => ReadInv
  <1> SUFFICES ASSUME ReadInit PROVE ReadInv
    OBVIOUS
  <1>1. Bracket
    BY DEF ReadInit, Bracket
  <1>2. Windows
    BY ChainReadsAssumption DEF ReadInit, Windows, RefusedOnce, LogWindow
  <1>3. Covers(<<>>, Deploy)
    <2>1. \A r \in Registered : ~(r.block < Deploy)
      BY ChainReadsAssumption
    <2>2. QED
      BY <2>1 DEF Covers
  <1>4. Scan
    BY <1>3, ChainReadsAssumption DEF ReadInit, Scan
  <1>5. QED
    BY <1>1, <1>2, <1>4 DEF ReadInv

LEMMA ReadInvStep == ReadInv /\ [PaymentsNext]_paymentsVars => ReadInv'
  <1> SUFFICES ASSUME ReadInv, [PaymentsNext]_paymentsVars PROVE ReadInv'
    OBVIOUS
  <1>1. ReadNext \/ UNCHANGED readsKept
    BY DEF PaymentsNext, paymentsVars, reads, readsKept, scanning
  <1>2. Bracket'
    BY <1>1, BracketStep DEF ReadInv, readsKept
  <1>3. Windows'
    BY <1>1, WindowsStep DEF ReadInv, readsKept, scanning
  <1>4. Scan'
    BY <1>1, ScanStep DEF ReadInv, readsKept
  <1>5. QED
    BY <1>2, <1>3, <1>4 DEF ReadInv

\* The scan of the registrations either holds every agent of the population
\* or nothing.
LEMMA Registrations ==
    ASSUME ReadInv, stage \in {"minters", "read"}
    PROVE  /\ ids = Existing
           /\ registrations # <<>> => DOMAIN registrations = Existing
           /\ \A i \in DOMAIN registrations : First(i, registrations[i])
  <1>1. ids = Existing
    BY DEF ReadInv, Bracket
  <1>2. CASE registrations = <<>>
    BY <1>1, <1>2
  <1>3. CASE Covers(registrations, Pinned + 1)
    <2>1. \A q \in Registered : q.block \in Nat /\ Pinned \in Nat
      BY ChainReadsAssumption
    <2>2. \A q \in Registered : (q.block < Pinned + 1 /\ q.block <= Pinned) <=> q.block <= Pinned
      BY <2>1
    <2>3. {r.id : r \in {q \in Registered : q.block < Pinned + 1 /\ q.block <= Pinned}} = Existing
      BY <2>2 DEF Existing, Ids, exists_at
    <2>4. QED
      BY <1>1, <1>3, <2>3 DEF Covers
  <1>4. QED
    BY <1>2, <1>3 DEF ReadInv, Scan

\* Whatever the provider does in between, what the census knows of its
\* population is what the chain says at the pinned block: the agents that
\* exist, the block of each one's first event, and who sent it.
THEOREM PopulationIsExact == PaymentsSpec => []ReadIsExact
  <1>1. ReadInv => ReadIsExact
    <2> SUFFICES ASSUME ReadInv PROVE ReadIsExact
      OBVIOUS
    <2>1. stage \in {"scan", "minters", "read"} => ids = {i \in Ids : exists_at(i)}
      BY DEF ReadInv, Bracket, Existing
    <2>2. ASSUME stage \in {"minters", "read"}, NEW i \in ids
          PROVE  /\ minted(i) = IF registrations = <<>> THEN 0 ELSE Earliest(i)
                 /\ minter(i) \in {"none"} \cup
                       {Sender[r.tx] : r \in {q \in Registered : q.id = i /\ q.block = Earliest(i)}}
      <3>1. CASE registrations = <<>>
        BY <3>1 DEF minted, minter
      <3>2. CASE registrations # <<>>
        <4>1. i \in DOMAIN registrations /\ First(i, registrations[i])
          BY <2>2, <3>2, Registrations
        <4>2. PICK r \in Registered : r.id = i /\ r.block = Earliest(i) /\ registrations[i] = [tx |-> r.tx, block |-> r.block]
          BY <4>1 DEF First
        <4>3. registrations[i].block = Earliest(i) /\ registrations[i].tx = r.tx
          BY <4>2
        <4>4. minter(i) \in {Sender[r.tx], "none"}
          BY <4>1, <4>3 DEF minter, ReadInv, Scan
        <4>5. QED
          BY <3>2, <4>1, <4>2, <4>3, <4>4 DEF minted
      <3>3. QED
        BY <3>1, <3>2
    <2>3. QED
      BY <2>1, <2>2 DEF ReadIsExact
  <1>2. PaymentsInit => ReadInv
    BY ReadInvInit DEF PaymentsInit
  <1>3. QED
    BY <1>1, <1>2, ReadInvStep, PTL DEF PaymentsSpec

\* No range of blocks that the provider refused is ever asked for again.
THEOREM RefusalsArePaidOnce == PaymentsSpec => []RefusedOnce
  <1>1. ReadInv => RefusedOnce
    BY DEF ReadInv, Windows
  <1>2. PaymentsInit => ReadInv
    BY ReadInvInit DEF PaymentsInit
  <1>3. QED
    BY <1>1, <1>2, ReadInvStep, PTL DEF PaymentsSpec

-----------------------------------------------------------------------------
(* What a pass works on: the addresses of a basis, in one order, and the   *)
(* transfers of a token that touch them.                                   *)

LEMMA ListIs ==
    ASSUME NEW S, IsFiniteSet(S)
    PROVE  /\ Cardinality(S) \in Nat
           /\ SetToSeq(S) \in [1 .. Cardinality(S) -> S]
           /\ Len(SetToSeq(S)) = Cardinality(S)
           /\ \A x \in S : \E j \in 1 .. Cardinality(S) : SetToSeq(S)[j] = x
           /\ \A i, j \in 1 .. Cardinality(S) : SetToSeq(S)[i] = SetToSeq(S)[j] => i = j
  <1> DEFINE n == Cardinality(S)
  <1>1. n \in Nat /\ \E f \in Bijection(1 .. n, S) : TRUE
    BY FS_CardinalityType DEF ExistsBijection
  <1>2. \E f \in [1 .. n -> S] : \A i, j \in DOMAIN f : f[i] = f[j] => i = j
    <2>1. PICK f \in Bijection(1 .. n, S) : TRUE
      BY <1>1
    <2>2. f \in [1 .. n -> S] /\ \A i, j \in 1 .. n : f[i] = f[j] => i = j
      BY <2>1 DEF Bijection, Injection, IsInjective
    <2>3. QED
      BY <2>2
  <1> DEFINE list == CHOOSE f \in [1 .. n -> S] : \A i, j \in DOMAIN f : f[i] = f[j] => i = j
  <1>3. SetToSeq(S) = list
    BY DEF SetToSeq, IsInjective
  <1>4. list \in [1 .. n -> S] /\ \A i, j \in DOMAIN list : list[i] = list[j] => i = j
    <2> HIDE DEF n
    <2>1. QED
      BY <1>2
  <1> HIDE DEF list
  <1>5. list \in Injection(1 .. n, S)
    BY <1>4 DEF Injection, IsInjective
  <1>6. IsFiniteSet(1 .. n) /\ Cardinality(1 .. n) = n
    <2>1. IsFiniteSet(1 .. n) /\ Cardinality(1 .. n) = IF 1 > n THEN 0 ELSE n - 1 + 1
      <3> HIDE DEF n
      <3>1. QED
        BY <1>1, FS_Interval
    <2> HIDE DEF n
    <2>2. QED
      BY <1>1, <2>1
  <1>7. list \in Surjection(1 .. n, S)
    <2> HIDE DEF n
    <2>1. QED
      BY <1>5, <1>6, FS_Injection DEF n
  <1>8. Len(list) = n
    <2> HIDE DEF n
    <2>1. QED
      BY <1>1, <1>4
  <1>9. QED
    BY <1>1, <1>3, <1>4, <1>7, <1>8 DEF Surjection

\* Every log of an answer has one place in it.
LEMMA InOrderIs ==
    ASSUME NEW H \in SUBSET Transfers
    PROVE  /\ Cardinality(H) \in Nat
           /\ InOrder(H) \in [1 .. Cardinality(H) -> H]
           /\ Len(InOrder(H)) = Cardinality(H)
           /\ \A x \in H : \E i \in 1 .. Cardinality(H) : InOrder(H)[i] = x
           /\ \A i, j \in 1 .. Cardinality(H) : InOrder(H)[i] = InOrder(H)[j] => i = j
  <1> DEFINE n == Cardinality(H)
             q == InOrder(H)
             A(x) == {y \in H : Before(y, x)}
             rank == [x \in H |-> Cardinality(A(x))]
  <1>1. IsFiniteSet(H) /\ n \in Nat
    BY PaymentsAssumption, FS_Subset, FS_CardinalityType
  <1>2. \A x, y, z \in H :
          /\ ~ Before(x, x)
          /\ x = y \/ Before(x, y) \/ Before(y, x)
          /\ Before(x, y) /\ Before(y, z) => Before(x, z)
    BY PaymentsAssumption DEF Before
  <1>3. \A x \in H : /\ A(x) \in SUBSET H /\ IsFiniteSet(A(x)) /\ Cardinality(A(x)) \in Nat
                     /\ x \notin A(x)
    <2>1. \A x \in H : A(x) \in SUBSET H /\ x \notin A(x)
      BY <1>2
    <2> HIDE DEF A
    <2>2. QED
      BY <1>1, <2>1, FS_Subset, FS_CardinalityType
  <1>4. \A x, y \in H : /\ x # y => x \in A(y) \/ y \in A(x)
                        /\ x \in A(y) => A(x) \subseteq A(y)
    BY <1>2
  <1>5. q = [i \in 1 .. n |-> CHOOSE x \in H : Cardinality(A(x)) = i - 1]
    BY DEF InOrder
  <1> HIDE DEF A, q
  <1>6. ASSUME NEW x \in H, NEW y \in H, x \in A(y)
        PROVE  Cardinality(A(x)) < Cardinality(A(y))
    <2>1. A(x) \in SUBSET A(y) /\ A(x) # A(y)
      BY <1>3, <1>4, <1>6
    <2>2. Cardinality(A(x)) <= Cardinality(A(y)) /\ Cardinality(A(x)) # Cardinality(A(y))
      BY <1>3, <2>1, FS_Subset
    <2>3. QED
      BY <1>3, <2>2
  <1>7. ASSUME NEW x \in H, NEW y \in H, Cardinality(A(x)) = Cardinality(A(y)) PROVE x = y
    BY <1>3, <1>4, <1>6, <1>7
  <1>8. ASSUME NEW x \in H PROVE Cardinality(A(x)) \in 0 .. n - 1
    <2>1. A(x) # H
      BY <1>3
    <2>2. Cardinality(A(x)) <= n /\ Cardinality(A(x)) # n
      BY <1>1, <1>3, <2>1, FS_Subset
    <2>3. QED
      BY <1>1, <1>3, <2>2
  <1>9. rank \in Injection(H, 0 .. n - 1)
    <2>1. rank \in [H -> 0 .. n - 1]
      BY <1>8
    <2>2. \A x, y \in H : rank[x] = rank[y] => x = y
      BY <1>7
    <2>3. QED
      BY <2>1, <2>2 DEF Injection, IsInjective
  <1>10. IsFiniteSet(0 .. n - 1) /\ Cardinality(0 .. n - 1) = n
    <2>1. 0 \in Int /\ n - 1 \in Int
      BY <1>1
    <2>2. /\ IsFiniteSet(0 .. n - 1)
          /\ Cardinality(0 .. n - 1) = IF 0 > n - 1 THEN 0 ELSE n - 1 - 0 + 1
      BY <2>1, FS_Interval
    <2> HIDE DEF n
    <2>3. QED
      BY <1>1, <2>2
  <1>11. rank \in Surjection(H, 0 .. n - 1)
    <2> HIDE DEF n, rank
    <2>1. QED
      BY <1>9, <1>10, FS_Injection DEF n
  <1>12. ASSUME NEW i \in 1 .. n PROVE q[i] \in H /\ Cardinality(A(q[i])) = i - 1
    <2>1. i - 1 \in 0 .. n - 1
      BY <1>1
    <2>2. \E x \in H : Cardinality(A(x)) = i - 1
      BY <1>11, <2>1 DEF Surjection
    <2>3. q[i] = CHOOSE x \in H : Cardinality(A(x)) = i - 1
      BY <1>5
    <2>4. QED
      BY <2>2, <2>3
  <1>13. ASSUME NEW x \in H PROVE \E i \in 1 .. n : q[i] = x
    <2>1. Cardinality(A(x)) + 1 \in 1 .. n /\ (Cardinality(A(x)) + 1) - 1 = Cardinality(A(x))
      BY <1>1, <1>8
    <2>2. PICK i \in 1 .. n : i - 1 = Cardinality(A(x))
      BY <2>1
    <2>3. q[i] = x
      BY <1>7, <1>12, <2>2
    <2>4. QED
      BY <2>3
  <1>14. \A i, j \in 1 .. n : q[i] = q[j] => i = j
    <2> SUFFICES ASSUME NEW i \in 1 .. n, NEW j \in 1 .. n, q[i] = q[j] PROVE i = j
      OBVIOUS
    <2>1. i - 1 = j - 1
      BY <1>12
    <2>2. QED
      BY <1>1, <2>1
  <1>15. q \in [1 .. n -> H]
    BY <1>5, <1>12
  <1>16. Len(q) = n
    <2> HIDE DEF n
    <2>1. QED
      BY <1>1, <1>15
  <1>17. QED
    BY <1>1, <1>13, <1>14, <1>15, <1>16 DEF q

\* A sequence that holds every member of a set, and each of them once.
Lists(q, S) ==
    /\ q \in Seq(S)
    /\ \A x \in S : \E i \in DOMAIN q : q[i] = x
    /\ \A i, j \in DOMAIN q : q[i] = q[j] => i = j

LEMMA ListsMore ==
    ASSUME NEW S, NEW R, NEW q, NEW r, Lists(q, S), Lists(r, R), S \cap R = {}
    PROVE  Lists(q \o r, S \cup R)
  <1>1. q \in Seq(S \cup R) /\ r \in Seq(S \cup R) /\ q \in Seq(S) /\ r \in Seq(R)
    BY DEF Lists
  <1> DEFINE all == q \o r
  <1>2. /\ all \in Seq(S \cup R) /\ DOMAIN all = 1 .. Len(q) + Len(r)
        /\ \A i \in 1 .. Len(q) : all[i] = q[i]
        /\ \A i \in 1 .. Len(r) : all[Len(q) + i] = r[i]
        /\ \A i \in DOMAIN all : i \notin 1 .. Len(q) => i - Len(q) \in 1 .. Len(r) /\ all[i] = r[i - Len(q)]
        /\ Len(q) \in Nat /\ Len(r) \in Nat /\ DOMAIN q = 1 .. Len(q) /\ DOMAIN r = 1 .. Len(r)
    BY <1>1
  <1> HIDE DEF all
  <1>3. ASSUME NEW x \in S \cup R PROVE \E i \in DOMAIN all : all[i] = x
    <2>1. CASE x \in S
      BY <1>2, <2>1 DEF Lists
    <2>2. CASE x \in R
      <3>1. PICK i \in 1 .. Len(r) : r[i] = x
        BY <1>2, <2>2 DEF Lists
      <3>2. Len(q) + i \in DOMAIN all
        BY <1>2
      <3>3. QED
        BY <1>2, <3>1, <3>2
    <2>3. QED
      BY <1>3, <2>1, <2>2
  <1>4. ASSUME NEW i \in DOMAIN all, NEW j \in DOMAIN all, all[i] = all[j] PROVE i = j
    <2>1. \A m \in 1 .. Len(q) : q[m] \in S
      BY <1>1
    <2>2. \A m \in 1 .. Len(r) : r[m] \in R
      BY <1>1
    <2>3. CASE i \in 1 .. Len(q) /\ j \in 1 .. Len(q)
      BY <1>2, <1>4, <2>3 DEF Lists
    <2>4. CASE i \notin 1 .. Len(q) /\ j \notin 1 .. Len(q)
      <3>1. i - Len(q) = j - Len(q)
        BY <1>2, <1>4, <2>4 DEF Lists
      <3>2. QED
        BY <1>2, <3>1
    <2>5. CASE (i \in 1 .. Len(q)) # (j \in 1 .. Len(q))
      BY <1>2, <1>4, <2>1, <2>2, <2>5
    <2>6. QED
      BY <2>3, <2>4, <2>5
  <1>5. QED
    BY <1>2, <1>3, <1>4 DEF Lists, all

LEMMA ListsCount ==
    ASSUME NEW S, NEW q, IsFiniteSet(S), Lists(q, S) PROVE Len(q) = Cardinality(S)
  <1>1. /\ Len(q) \in Nat /\ q \in [1 .. Len(q) -> S] /\ DOMAIN q = 1 .. Len(q)
    BY DEF Lists
  <1>2. q \in Injection(1 .. Len(q), S) /\ q \in Surjection(1 .. Len(q), S)
    BY <1>1 DEF Lists, Injection, Surjection, IsInjective
  <1>3. IsFiniteSet(1 .. Len(q)) /\ Cardinality(1 .. Len(q)) = Len(q)
    <2>1. IsFiniteSet(1 .. Len(q)) /\ Cardinality(1 .. Len(q)) = IF 1 > Len(q) THEN 0 ELSE Len(q) - 1 + 1
      BY <1>1, FS_Interval
    <2>2. QED
      BY <1>1, <2>1
  <1>4. Cardinality(1 .. Len(q)) = Cardinality(S)
    BY <1>2, FS_Injection
  <1>5. QED
    BY <1>3, <1>4

-----------------------------------------------------------------------------
(* The pass.                                                               *)

Running == step \in {"targets", "token", "scan", "logs"}

\* Nothing is written before the reads have ended, and a pass that writes
\* has asked for every wallet.
PassOK ==
    /\ step \in {"idle", "wallets", "targets", "token", "scan", "logs"}
    /\ step # "idle" \/ payments # {} \/ scans # {} => stage = "read"
    /\ b \in Nat \ {0} /\ k \in Nat \ {0} /\ s \in 1 .. 2
    /\ step \in {"idle", "wallets"} => b = 1
    /\ step \in {"token", "scan", "logs"} => b <= Len(Bases)
    /\ step \in {"scan", "logs"} => k <= Len(Tokens)
    /\ DOMAIN wallets \subseteq ids
    /\ \A i \in DOMAIN wallets : wallets[i] \in {agent_wallet(i), "unread"}
    /\ step = "idle" => wallets = <<>>
    /\ Running => DOMAIN wallets = ids

LEMMA ReadsAreOver == ASSUME stage = "read" PROVE ~ ReadNext
  BY DEF ReadNext, Answer, Fail, TimeOut, Asking, ScanAnswer, ScanRefused, ScanEnd, Resolve, MintersEnd

LEMMA ExitKeeps ==
    ASSUME PassOK, step # "idle", Exit, UNCHANGED readsKept PROVE PassOK'
  BY DEF PassOK, Running, Exit, readsKept, tables

LEMMA PassOKStep == ASSUME PassOK, [PaymentsNext]_paymentsVars PROVE PassOK'
  <1>1. CASE UNCHANGED paymentsVars
    BY <1>1 DEF paymentsVars, reads, passVars, tables, locals, PassOK, Running, agent_wallet
  <1>2. CASE ReadNext /\ UNCHANGED passVars
    <2>1. stage # "read"
      BY <1>2, ReadsAreOver
    <2>2. step = "idle" /\ wallets = <<>> /\ payments = {} /\ scans = {}
      BY <2>1 DEF PassOK
    <2>3. QED
      BY <1>2, <2>2 DEF passVars, tables, locals, PassOK, Running
  <1>3. ASSUME UNCHANGED readsKept, PassStep \/ PassAborts \/ Killed PROVE PassOK'
    <2>1. stage' = stage /\ ids' = ids
      BY <1>3 DEF readsKept
    <2>2. CASE Start
      BY <2>1, <2>2 DEF Start, GoOn, tables, locals, PassOK, Running
    <2>3. ASSUME NEW i \in Ids, ReadWallet(i) PROVE PassOK'
      <3>1. /\ step = "wallets" /\ step' = "wallets" /\ i \in ids
            /\ UNCHANGED <<tables, b, k, s>>
            /\ \E w \in {agent_wallet(i), "unread"} : wallets' = OrInsert(wallets, i, w)
        BY <2>3 DEF ReadWallet, payment_candidates
      <3>2. /\ DOMAIN wallets' \subseteq ids
            /\ \A j \in DOMAIN wallets' : wallets'[j] \in {agent_wallet(j), "unread"}
        BY <3>1 DEF OrInsert, PassOK
      <3>3. QED
        BY <2>1, <3>1, <3>2 DEF PassOK, Running, tables, agent_wallet
    <2>4. CASE ClearPayments
      BY <2>1, <2>4 DEF ClearPayments, GoOn, locals, payment_candidates, PassOK, Running, agent_wallet
    <2>5. CASE WriteTargets
      <3>1. /\ step = "targets" /\ b <= Len(Bases) /\ UNCHANGED <<payments, scans, wallets>>
            /\ k' = 1 /\ s' = 1
            /\ (b' = b + 1 /\ step' = step) \/ (step' = "token" /\ b' = b)
        BY <2>5 DEF WriteTargets, GoOn
      <3>2. b' \in Nat \ {0} /\ step' \in {"targets", "token"} /\ (step' = "token" => b' <= Len(Bases))
        BY <3>1 DEF PassOK
      <3>3. QED
        BY <2>1, <3>1, <3>2 DEF PassOK, Running, agent_wallet
    <2>6. CASE OpenToken
      BY <2>1, <2>6 DEF OpenToken, GoOn, tables, PassOK, Running, agent_wallet
    <2>7. CASE CloseBasis
      <3>1. step = "token" /\ b' = b + 1 /\ step' = "targets" /\ UNCHANGED <<tables, wallets, k, s>>
        BY <2>7 DEF CloseBasis, GoOn
      <3>2. b' \in Nat \ {0}
        BY <3>1 DEF PassOK
      <3>3. QED
        BY <2>1, <3>1, <3>2 DEF tables, PassOK, Running, agent_wallet
    <2>8. CASE TransfersAnswer \/ TransfersRefused \/ NextChunk
      <3>1. step = "scan" /\ step' = "scan" /\ UNCHANGED <<tables, wallets, b, k, s>>
        BY <2>8 DEF TransfersAnswer, TransfersRefused, NextChunk, scanOnly
      <3>2. QED
        BY <2>1, <3>1 DEF tables, PassOK, Running, agent_wallet
    <2>9. CASE SideScanned
      BY <2>1, <2>9 DEF SideScanned, GoOn, tables, PassOK, Running, agent_wallet
    <2>10. CASE HandleLog
      <3>1. step = "logs" /\ UNCHANGED <<step, scans, wallets, b, k, s>>
        BY <2>10 DEF HandleLog
      <3>2. QED
        BY <2>1, <3>1 DEF PassOK, Running, agent_wallet
    <2>11. CASE NextSide
      <3>1. step = "logs" /\ step' = "scan" /\ s = 1 /\ s' = 2 /\ UNCHANGED <<tables, wallets, b, k>>
        BY <2>11 DEF NextSide, GoOn, scanOnly, Sides, PassOK
      <3>2. QED
        BY <2>1, <3>1 DEF tables, PassOK, Running, agent_wallet
    <2>12. CASE WriteScan
      <3>1. step = "logs" /\ step' = "token" /\ k' = k + 1 /\ UNCHANGED <<payments, wallets, b, s>>
        BY <2>12 DEF WriteScan, GoOn
      <3>2. k' \in Nat \ {0}
        BY <3>1 DEF PassOK
      <3>3. QED
        BY <2>1, <3>1, <3>2 DEF PassOK, Running, agent_wallet
    <2>13. CASE Done \/ CannotSplit \/ PassAborts \/ Killed
      <3>1. step # "idle" /\ Exit
        BY <2>13 DEF Done, CannotSplit, PassAborts, Killed
      <3>2. QED
        BY <1>3, <3>1, ExitKeeps
    <2>14. QED
      BY <1>3, <2>2, <2>3, <2>4, <2>5, <2>6, <2>7, <2>8, <2>9, <2>10, <2>11, <2>12, <2>13 DEF PassStep
  <1>4. QED
    BY <1>1, <1>2, <1>3 DEF PaymentsNext

-----------------------------------------------------------------------------
(* Who is behind an address.                                               *)

LEMMA SameTargets ==
    ASSUME UNCHANGED <<ids, wallets>>
    PROVE  /\ \A i, basis : targets_for(i, basis)' = targets_for(i, basis)
           /\ \A basis : addresses(basis)' = addresses(basis)
           /\ \A basis : SetToSeq(addresses(basis))' = SetToSeq(addresses(basis))
           /\ \A a, basis : reachers(a, basis)' = reachers(a, basis)
  <1>1. \A i, basis : targets_for(i, basis)' = targets_for(i, basis)
    BY DEF targets_for, verified_targets, declared_targets, declared_wallets
  <1>2. payment_candidates' = payment_candidates
    BY DEF payment_candidates
  <1>3. ASSUME NEW basis PROVE addresses(basis)' = addresses(basis)
    BY <1>1, <1>2 DEF addresses
  <1>4. ASSUME NEW a, NEW basis PROVE reachers(a, basis)' = reachers(a, basis)
    BY <1>1, <1>2 DEF reachers
  <1>5. QED
    BY <1>1, <1>3, <1>4

LEMMA ImageFinite ==
    ASSUME NEW S, IsFiniteSet(S), NEW f PROVE IsFiniteSet({f[x] : x \in S})
  <1> DEFINE R == {f[x] : x \in S}
             g == [x \in S |-> f[x]]
  <1>1. g \in Surjection(S, R)
    BY DEF Surjection
  <1> HIDE DEF g, R
  <1>2. IsFiniteSet(R)
    BY <1>1, FS_Surjection
  <1>3. QED
    BY <1>2 DEF R

LEMMA DeclaredFinite == ASSUME NEW i \in Ids PROVE IsFiniteSet(declared_wallets(i))
  <1> DEFINE D == {n \in DOMAIN Services[i] : Services[i][n].name = "agentWallet" /\ Services[i][n].address \in Addresses}
             named == [n \in D |-> Services[i][n].address]
  <1>1. IsFiniteSet(D)
    <2>1. Services[i] \in Seq([name : STRING, address : STRING])
      BY PaymentsAssumption
    <2>2. PICK m \in Nat : DOMAIN Services[i] = 1 .. m
      BY <2>1
    <2>3. IsFiniteSet(1 .. m)
      BY 1 \in Int, m \in Int, FS_Interval
    <2>4. D \in SUBSET (1 .. m)
      BY <2>2
    <2>5. QED
      BY <2>3, <2>4, FS_Subset
  <1>2. IsFiniteSet({named[n] : n \in D})
    <2> HIDE DEF D, named
    <2>1. QED
      BY <1>1, ImageFinite
  <1>3. declared_wallets(i) = {named[n] : n \in D}
    BY DEF declared_wallets
  <1>4. QED
    BY <1>2, <1>3

LEMMA DeclaredIs ==
    ASSUME NEW i, NEW d \in declared_targets(i)
    PROVE  /\ d.address \in declared_wallets(i) \cup {""}
           /\ d.ineligible = "none" => d.address \in declared_wallets(i)
  <1> DEFINE why(a) == IF is_burn_address(a) THEN "burn_address" ELSE "none"
             nowhere == ""
  <1>1. PICK D : D = declared_wallets(i)
    OBVIOUS
  <1>2. declared_targets(i) = IF D = {} THEN {[address |-> nowhere, ineligible |-> "no_declared_address"]}
                              ELSE {[address |-> a, ineligible |-> why(a)] : a \in D}
    BY <1>1 DEF declared_targets
  <1> HIDE DEF why, nowhere
  <1>3. CASE D = {}
    <2>1. d \in {[address |-> nowhere, ineligible |-> "no_declared_address"]}
      BY <1>2, <1>3
    <2>2. d.address = nowhere /\ d.ineligible = "no_declared_address"
      BY <2>1
    <2>3. QED
      BY <2>2 DEF nowhere
  <1>4. CASE D # {}
    <2>1. PICK a \in D : d = [address |-> a, ineligible |-> why(a)]
      BY <1>2, <1>4
    <2>2. QED
      BY <1>1, <2>1
  <1>5. QED
    BY <1>3, <1>4

LEMMA AddressesFinite ==
    ASSUME NEW basis, ids \subseteq Ids
    PROVE  IsFiniteSet(addresses(basis))
  <1> DEFINE Of(i) == {d.address : d \in targets_for(i, basis)}
             of == [i \in ids |-> Of(i)]
             All == UNION {of[i] : i \in ids}
  <1>1. IsFiniteSet(ids)
    <2> DEFINE id == [r \in Registered |-> r.id]
    <2>1. IsFiniteSet({id[r] : r \in Registered})
      <3> HIDE DEF id
      <3>1. QED
        BY ChainReadsAssumption, ImageFinite
    <2>2. Ids = {id[r] : r \in Registered}
      BY DEF Ids
    <2>3. QED
      BY <2>1, <2>2, FS_Subset
  <1>2. ASSUME NEW i \in ids PROVE IsFiniteSet(Of(i))
    <2>1. CASE basis = "verified_wallet"
      <3>1. Of(i) \in SUBSET {wallets[i]}
        BY <2>1 DEF targets_for, verified_targets
      <3>2. QED
        BY <3>1, FS_Singleton, FS_Subset
    <2>2. CASE basis # "verified_wallet"
      <3>1. Of(i) \in SUBSET (declared_wallets(i) \cup {""})
        <4>1. targets_for(i, basis) = declared_targets(i)
          BY <2>2 DEF targets_for
        <4>2. QED
          BY <4>1, DeclaredIs
      <3>2. IsFiniteSet(declared_wallets(i) \cup {""})
        <4>1. IsFiniteSet(declared_wallets(i)) /\ IsFiniteSet({""})
          BY DeclaredFinite, FS_Singleton
        <4>2. QED
          BY <4>1, FS_Union
      <3>3. QED
        BY <3>1, <3>2, FS_Subset
    <2>3. QED
      BY <2>1, <2>2
  <1>3. IsFiniteSet(All)
    <2>1. IsFiniteSet({of[i] : i \in ids})
      <3> HIDE DEF of
      <3>1. QED
        BY <1>1, ImageFinite
    <2>2. \A S \in {of[i] : i \in ids} : IsFiniteSet(S)
      BY <1>2
    <2> HIDE DEF of
    <2>3. QED
      BY <2>1, <2>2, FS_UNION
  <1>4. addresses(basis) \in SUBSET All
    BY DEF addresses, payment_candidates
  <1>5. QED
    BY <1>3, <1>4, FS_Subset

LEMMA ReachersIs ==
    ASSUME NEW basis, NEW a
    PROVE  /\ reachers(a, basis) \subseteq ids
           /\ reachers(a, basis) # {} <=> a \in addresses(basis)
  BY DEF reachers, addresses, payment_candidates

\* Whoever is behind an address is paid there.
LEMMA ReachersArePayees ==
    ASSUME PassOK, NEW basis, NEW a, NEW i \in reachers(a, basis), DOMAIN wallets = ids
    PROVE  IsPayee(i, a, basis)
  <1>1. PICK d \in targets_for(i, basis) : i \in ids /\ d.address = a /\ d.ineligible = "none"
    BY DEF reachers, payment_candidates
  <1>2. CASE basis = "verified_wallet"
    <2>1. /\ wallets[i] # "unread" /\ a = wallets[i] /\ wallets[i] # Owner[i]
      BY <1>1, <1>2 DEF targets_for, verified_targets
    <2>2. wallets[i] = agent_wallet(i)
      BY <1>1, <2>1 DEF PassOK
    <2>3. wallets[i] = Wallet[i]
      BY <2>1, <2>2 DEF agent_wallet
    <2>4. QED
      BY <1>2, <2>1, <2>3 DEF IsPayee
  <1>3. CASE basis # "verified_wallet"
    <2>1. d \in declared_targets(i)
      BY <1>1, <1>3 DEF targets_for
    <2>2. d.address \in declared_wallets(i)
      BY <1>1, <2>1, DeclaredIs
    <2>3. QED
      BY <1>1, <1>3, <2>2 DEF IsPayee
  <1>4. QED
    BY <1>2, <1>3

-----------------------------------------------------------------------------
(* A scan: the chunks of a list of addresses, and the blocks of a chunk.   *)

ChunkOf(list, first) == {list[j] : j \in {j \in DOMAIN list : first <= j /\ j < first + TargetsPerQuery}}

MatchingIn(who, side, token, low, high) ==
    {x \in Transfers : x.token = token /\ x.block \in low .. high /\ Credited(x, side) \in who}

\* The transfers of the chunks before this one, and of this one below a block.
ScannedBy(list, first, side, token, upto) ==
    {x \in Transfers :
        /\ x.token = token /\ x.block \in Deploy .. Pinned
        /\ \E j \in DOMAIN list : /\ Credited(x, side) = list[j]
                                  /\ j < first \/ (j < first + TargetsPerQuery /\ x.block < upto)}

IsList(list, S) ==
    /\ \A j \in DOMAIN list : j \in Nat \ {0} /\ list[j] \in S
    /\ \A x \in S : \E j \in DOMAIN list : list[j] = x
    /\ \A i, j \in DOMAIN list : list[i] = list[j] => i = j

LEMMA NothingScanned ==
    ASSUME NEW S, NEW list, IsList(list, S), NEW side, NEW token
    PROVE  ScannedBy(list, 1, side, token, Deploy) = {}
  BY ChainReadsAssumption, PaymentsAssumption DEF IsList, ScannedBy

LEMMA SpanScanned ==
    ASSUME NEW S, NEW list, IsList(list, S), NEW side, NEW token, NEW first \in Nat \ {0},
           NEW low \in Nat, NEW high \in Nat, Deploy <= low, low <= high, high <= Pinned
    PROVE  LET before == ScannedBy(list, first, side, token, low)
               answer == MatchingIn(ChunkOf(list, first), side, token, low, high)
           IN  /\ ScannedBy(list, first, side, token, high + 1) = before \cup answer
               /\ before \cap answer = {}
  <1> DEFINE before == ScannedBy(list, first, side, token, low)
             answer == MatchingIn(ChunkOf(list, first), side, token, low, high)
             after == ScannedBy(list, first, side, token, high + 1)
  <1>1. /\ TargetsPerQuery \in Nat \ {0} /\ Deploy \in Nat /\ Pinned \in Nat
        /\ \A x \in Transfers : x.block \in Nat
    BY ChainReadsAssumption, PaymentsAssumption
  <1>2. ASSUME NEW x \in before PROVE x \in after
    <2>1. x \in Transfers /\ x.token = token /\ x.block \in Deploy .. Pinned
      BY <1>2 DEF ScannedBy
    <2>2. PICK j \in DOMAIN list : /\ Credited(x, side) = list[j]
                                   /\ j < first \/ (j < first + TargetsPerQuery /\ x.block < low)
      BY <1>2 DEF ScannedBy
    <2>3. x.block < low => x.block < high + 1
      BY <1>1, <2>1
    <2>4. QED
      BY <2>1, <2>2, <2>3 DEF ScannedBy
  <1>3. ASSUME NEW x \in answer PROVE x \in after
    <2>1. x \in Transfers /\ x.token = token /\ x.block \in low .. high
      BY <1>3 DEF MatchingIn
    <2>2. PICK j \in DOMAIN list : Credited(x, side) = list[j] /\ first <= j /\ j < first + TargetsPerQuery
      BY <1>3 DEF MatchingIn, ChunkOf
    <2>3. x.block \in Deploy .. Pinned /\ x.block < high + 1
      BY <1>1, <2>1
    <2>4. QED
      BY <2>1, <2>2, <2>3 DEF ScannedBy
  <1>4. ASSUME NEW x \in after PROVE x \in before \cup answer
    <2>1. x \in Transfers /\ x.token = token /\ x.block \in Deploy .. Pinned
      BY <1>4 DEF ScannedBy
    <2>2. PICK j \in DOMAIN list : /\ Credited(x, side) = list[j]
                                   /\ j < first \/ (j < first + TargetsPerQuery /\ x.block < high + 1)
      BY <1>4 DEF ScannedBy
    <2>3. CASE j < first \/ x.block < low
      BY <2>1, <2>2, <2>3 DEF ScannedBy
    <2>4. CASE ~(j < first \/ x.block < low)
      <3>1. j \in Nat
        BY DEF IsList
      <3>2. first <= j /\ j < first + TargetsPerQuery /\ x.block \in low .. high
        BY <1>1, <2>1, <2>2, <2>4, <3>1
      <3>3. Credited(x, side) \in ChunkOf(list, first)
        BY <2>2, <3>2 DEF ChunkOf
      <3>4. QED
        BY <2>1, <3>2, <3>3 DEF MatchingIn
    <2>5. QED
      BY <2>3, <2>4
  <1>5. ASSUME NEW x \in before, x \in answer PROVE FALSE
    <2>1. PICK j \in DOMAIN list : /\ Credited(x, side) = list[j]
                                   /\ j < first \/ (j < first + TargetsPerQuery /\ x.block < low)
      BY <1>5 DEF ScannedBy
    <2>2. PICK i \in DOMAIN list : Credited(x, side) = list[i] /\ first <= i
      BY <1>5 DEF MatchingIn, ChunkOf
    <2>3. i = j /\ j \in Nat
      BY <2>1, <2>2 DEF IsList
    <2>4. x \in Transfers /\ x.block \in low .. high
      BY <1>5 DEF MatchingIn
    <2>5. QED
      BY <1>1, <2>1, <2>2, <2>3, <2>4
  <1> HIDE DEF before, answer, after
  <1>6. after = before \cup answer /\ before \cap answer = {}
    BY <1>2, <1>3, <1>4, <1>5
  <1>7. QED
    BY <1>6 DEF before, answer, after

LEMMA ChunkScanned ==
    ASSUME NEW S, NEW list, IsList(list, S), NEW side, NEW token, NEW first \in Nat \ {0}
    PROVE  ScannedBy(list, first + TargetsPerQuery, side, token, Deploy)
             = ScannedBy(list, first, side, token, Pinned + 1)
  <1>1. /\ TargetsPerQuery \in Nat \ {0} /\ Deploy \in Nat /\ Pinned \in Nat
        /\ \A x \in Transfers : x.block \in Nat
    BY ChainReadsAssumption, PaymentsAssumption
  <1>2. ASSUME NEW x \in Transfers, x.block \in Deploy .. Pinned, NEW j \in DOMAIN list
        PROVE  (j < first + TargetsPerQuery \/ (j < first + TargetsPerQuery + TargetsPerQuery /\ x.block < Deploy))
                 <=> (j < first \/ (j < first + TargetsPerQuery /\ x.block < Pinned + 1))
    <2>1. j \in Nat
      BY DEF IsList
    <2>2. QED
      BY <1>1, <1>2, <2>1
  <1>3. QED
    BY <1>2 DEF ScannedBy

LEMMA AllScanned ==
    ASSUME NEW S, NEW list, IsList(list, S), NEW side, NEW token, NEW first \in Nat \ {0},
           \A j \in DOMAIN list : j < first + TargetsPerQuery
    PROVE  ScannedBy(list, first, side, token, Pinned + 1) = MatchingIn(S, side, token, Deploy, Pinned)
  <1>1. /\ TargetsPerQuery \in Nat \ {0} /\ Deploy \in Nat /\ Pinned \in Nat
        /\ \A x \in Transfers : x.block \in Nat
    BY ChainReadsAssumption, PaymentsAssumption
  <1>2. ASSUME NEW x \in Transfers, x.block \in Deploy .. Pinned
        PROVE  x.block < Pinned + 1
    BY <1>1, <1>2
  <1>3. ASSUME NEW x \in Transfers, x.block \in Deploy .. Pinned
        PROVE  (\E j \in DOMAIN list : /\ Credited(x, side) = list[j]
                                       /\ j < first \/ (j < first + TargetsPerQuery /\ x.block < Pinned + 1))
                  <=> Credited(x, side) \in S
    BY <1>2, <1>3 DEF IsList
  <1>4. QED
    BY <1>3 DEF ScannedBy, MatchingIn

\* The ranges that are still to be asked for, one after the other.
SpansOK(sp) ==
    /\ sp \in Seq(Nat \X Nat)
    /\ \A n \in 1 .. Len(sp) : sp[n][1] <= sp[n][2] /\ Deploy <= sp[n][1] /\ sp[n][2] <= Pinned
    /\ \A n \in 1 .. Len(sp) - 1 : sp[n + 1][1] = sp[n][2] + 1
    /\ sp # <<>> => sp[Len(sp)][2] = Pinned

UptoOf(sp) == IF sp = <<>> THEN Pinned + 1 ELSE sp[1][1]

LEMMA WholeSpan ==
    ASSUME Deploy <= Pinned PROVE SpansOK(<<<<Deploy, Pinned>>>>) /\ UptoOf(<<<<Deploy, Pinned>>>>) = Deploy
  <1> DEFINE sp == <<<<Deploy, Pinned>>>>
  <1>1. Deploy \in Nat /\ Pinned \in Nat
    BY ChainReadsAssumption
  <1>2. sp \in Seq(Nat \X Nat) /\ Len(sp) = 1 /\ sp[1][1] = Deploy /\ sp[1][2] = Pinned /\ sp # <<>>
    BY <1>1
  <1> HIDE DEF sp
  <1>3. SpansOK(sp) /\ UptoOf(sp) = Deploy
    BY <1>1, <1>2 DEF SpansOK, UptoOf
  <1>4. QED
    BY <1>3 DEF sp

LEMMA SpanDone ==
    ASSUME NEW sp, SpansOK(sp), sp # <<>>
    PROVE  /\ SpansOK(Tail(sp)) /\ UptoOf(Tail(sp)) = sp[1][2] + 1
           /\ sp[1][1] \in Nat /\ sp[1][2] \in Nat /\ sp[1][1] <= sp[1][2]
           /\ Deploy <= sp[1][1] /\ sp[1][2] <= Pinned /\ UptoOf(sp) = sp[1][1]
  <1> DEFINE n == Len(sp)
             r == Tail(sp)
  <1>1. /\ sp \in Seq(Nat \X Nat) /\ n \in Nat \ {0}
        /\ \A m \in 1 .. n : sp[m] \in Nat \X Nat
    BY DEF SpansOK
  <1>2. /\ r \in Seq(Nat \X Nat) /\ Len(r) = n - 1
        /\ \A m \in 1 .. n - 1 : r[m] = sp[m + 1]
        /\ (r = <<>>) <=> (n = 1)
    <2> DEFINE D == Nat \X Nat
    <2>1. sp \in Seq(D) /\ Len(sp) = n /\ n \in Nat \ {0}
      BY <1>1
    <2> HIDE DEF D, n
    <2>2. r \in Seq(D) /\ Len(r) = n - 1
      BY <2>1
    <2>3. \A m \in 1 .. n - 1 : r[m] = sp[m + 1]
      BY <2>1
    <2>4. (r = <<>>) <=> (n = 1)
      <3> HIDE DEF r
      <3>1. QED
        BY <2>1, <2>2
    <2>5. QED
      BY <2>2, <2>3, <2>4 DEF D
  <1> HIDE DEF n, r
  <1>3. \A m \in 1 .. n : sp[m][1] \in Nat /\ sp[m][2] \in Nat
    BY <1>1
  <1>4. /\ \A m \in 1 .. n : sp[m][1] <= sp[m][2] /\ Deploy <= sp[m][1] /\ sp[m][2] <= Pinned
        /\ \A m \in 1 .. n - 1 : sp[m + 1][1] = sp[m][2] + 1
        /\ sp[n][2] = Pinned
    BY DEF SpansOK, n
  <1>5. \A m \in 1 .. n - 1 : m \in 1 .. n /\ m + 1 \in 1 .. n
    BY <1>1
  <1>6. \A m \in 1 .. Len(r) : r[m][1] <= r[m][2] /\ Deploy <= r[m][1] /\ r[m][2] <= Pinned
    BY <1>2, <1>4, <1>5
  <1>7. \A m \in 1 .. Len(r) - 1 : r[m + 1][1] = r[m][2] + 1
    <2> SUFFICES ASSUME NEW m \in 1 .. Len(r) - 1 PROVE r[m + 1][1] = r[m][2] + 1
      OBVIOUS
    <2>1. m \in 1 .. n - 1 /\ m + 1 \in 1 .. n - 1
      BY <1>1, <1>2
    <2>2. QED
      BY <1>2, <1>4, <2>1
  <1>8. r # <<>> => r[Len(r)][2] = Pinned
    <2> SUFFICES ASSUME r # <<>> PROVE r[Len(r)][2] = Pinned
      OBVIOUS
    <2>1. n # 1 /\ n - 1 \in 1 .. n - 1 /\ (n - 1) + 1 = n
      BY <1>1, <1>2
    <2>2. QED
      BY <1>2, <1>4, <2>1
  <1>9. UptoOf(r) = sp[1][2] + 1
    <2>1. CASE n = 1
      BY <1>2, <1>4, <2>1 DEF UptoOf
    <2>2. CASE n # 1
      <3>1. 1 \in 1 .. n - 1 /\ r # <<>>
        BY <1>1, <1>2, <2>2
      <3>2. r[1] = sp[2] /\ sp[1 + 1][1] = sp[1][2] + 1
        BY <1>2, <1>4, <3>1
      <3>3. QED
        BY <3>1, <3>2 DEF UptoOf
    <2>3. QED
      BY <2>1, <2>2
  <1>10. SpansOK(r)
    BY <1>2, <1>6, <1>7, <1>8 DEF SpansOK
  <1>11. 1 \in 1 .. n
    BY <1>1
  <1>12. UptoOf(sp) = sp[1][1]
    BY DEF UptoOf
  <1>13. QED
    BY <1>3, <1>4, <1>9, <1>10, <1>11, <1>12 DEF r

LEMMA TwoMore ==
    ASSUME NEW D, NEW x \in D, NEW y \in D, NEW r \in Seq(D)
    PROVE  /\ <<x, y>> \o r \in Seq(D) /\ Len(<<x, y>> \o r) = 2 + Len(r)
           /\ (<<x, y>> \o r)[1] = x /\ (<<x, y>> \o r)[2] = y
           /\ \A n \in 1 .. Len(r) : (<<x, y>> \o r)[n + 2] = r[n]
  <1>1. PICK q \in Seq(D) : q = <<x, y>> /\ Len(q) = 2 /\ q[1] = x /\ q[2] = y
    <2> DEFINE two == <<x, y>>
    <2>1. two \in Seq(D) /\ Len(two) = 2 /\ two[1] = x /\ two[2] = y
      OBVIOUS
    <2> HIDE DEF two
    <2>2. \E q \in Seq(D) : q = two /\ Len(q) = 2 /\ q[1] = x /\ q[2] = y
      BY <2>1
    <2>3. QED
      BY <2>2 DEF two
  <1>2. /\ q \o r \in Seq(D) /\ Len(q \o r) = 2 + Len(r)
        /\ \A n \in 1 .. Len(q) : (q \o r)[n] = q[n]
    BY <1>1
  <1>3. 1 \in 1 .. Len(q) /\ 2 \in 1 .. Len(q)
    BY <1>1
  <1>4. \A n \in 1 .. Len(r) : (q \o r)[n + 2] = r[n]
    BY <1>1
  <1>5. (q \o r)[1] = x /\ (q \o r)[2] = y
    BY <1>1, <1>2, <1>3
  <1>6. QED
    BY <1>1, <1>2, <1>4, <1>5

LEMMA SpanSplit ==
    ASSUME NEW sp, SpansOK(sp), sp # <<>>, sp[1][1] < sp[1][2]
    PROVE  SpansOK(Halves(sp[1]) \o Tail(sp)) /\ UptoOf(Halves(sp[1]) \o Tail(sp)) = UptoOf(sp)
  <1>1. PICK low \in Nat, high \in Nat : sp[1] = <<low, high>> /\ low = sp[1][1] /\ high = sp[1][2]
    <2>1. sp \in Seq(Nat \X Nat) /\ sp # <<>>
      BY DEF SpansOK
    <2>2. sp[1] \in Nat \X Nat
      BY <2>1
    <2>3. QED
      BY <2>2
  <1> DEFINE mid == low + (high - low) \div 2
             r == Tail(sp)
             first == <<low, mid>>
             second == <<mid + 1, high>>
             both == <<first, second>>
             t == both \o r
  <1>2. mid \in Nat /\ low <= mid /\ mid < high
    BY <1>1
  <1>3. Halves(sp[1]) = both
    BY <1>1 DEF Halves
  <1>4. /\ SpansOK(r) /\ UptoOf(r) = high + 1 /\ Deploy <= low /\ high <= Pinned /\ UptoOf(sp) = low
    BY <1>1, SpanDone
  <1> HIDE DEF mid, r
  <1>5. /\ first \in Nat \X Nat /\ second \in Nat \X Nat
        /\ first[1] = low /\ first[2] = mid /\ second[1] = mid + 1 /\ second[2] = high
    BY <1>1, <1>2
  <1> HIDE DEF first, second
  <1>6. /\ r \in Seq(Nat \X Nat) /\ Len(r) \in Nat
        /\ \A n \in 1 .. Len(r) : r[n][1] <= r[n][2] /\ Deploy <= r[n][1] /\ r[n][2] <= Pinned
        /\ \A n \in 1 .. Len(r) - 1 : r[n + 1][1] = r[n][2] + 1
        /\ r # <<>> => r[Len(r)][2] = Pinned
    BY <1>4 DEF SpansOK
  <1>7. /\ t \in Seq(Nat \X Nat) /\ Len(t) = 2 + Len(r)
        /\ t[1] = first /\ t[2] = second
        /\ \A n \in 1 .. Len(r) : t[n + 2] = r[n]
        /\ t # <<>>
    <2> DEFINE D == Nat \X Nat
    <2>1. r \in Seq(D) /\ first \in D /\ second \in D
      BY <1>5, <1>6
    <2> HIDE DEF D
    <2>2. /\ t \in Seq(D) /\ Len(t) = 2 + Len(r) /\ t[1] = first /\ t[2] = second
          /\ \A n \in 1 .. Len(r) : t[n + 2] = r[n]
      BY <2>1, TwoMore
    <2> HIDE DEF t
    <2>3. t # <<>>
      BY <2>2, <1>6
    <2>4. QED
      BY <2>2, <2>3 DEF D
  <1> HIDE DEF t
  <1>8. \A n \in 1 .. Len(t) : n = 1 \/ n = 2 \/ (n - 2 \in 1 .. Len(r) /\ t[n] = r[n - 2])
    <2> SUFFICES ASSUME NEW n \in 1 .. Len(t), n # 1, n # 2 PROVE n - 2 \in 1 .. Len(r) /\ t[n] = r[n - 2]
      OBVIOUS
    <2>1. n - 2 \in 1 .. Len(r) /\ (n - 2) + 2 = n
      BY <1>6, <1>7
    <2>2. QED
      BY <1>7, <2>1
  <1>9. Deploy \in Nat /\ Pinned \in Nat
    BY ChainReadsAssumption
  <1>10. ASSUME NEW n \in 1 .. Len(t) PROVE t[n][1] <= t[n][2] /\ Deploy <= t[n][1] /\ t[n][2] <= Pinned
    <2>1. CASE n = 1
      BY <1>1, <1>2, <1>4, <1>5, <1>7, <1>9, <2>1
    <2>2. CASE n = 2
      BY <1>1, <1>2, <1>4, <1>5, <1>7, <1>9, <2>2
    <2>3. CASE n - 2 \in 1 .. Len(r) /\ t[n] = r[n - 2]
      BY <1>6, <2>3
    <2>4. QED
      BY <1>8, <2>1, <2>2, <2>3
  <1>11. ASSUME NEW n \in 1 .. Len(t) - 1 PROVE t[n + 1][1] = t[n][2] + 1
    <2>1. CASE n = 1
      <3>1. n + 1 = 2
        BY <2>1
      <3>2. QED
        BY <1>5, <1>7, <2>1, <3>1
    <2>2. CASE n = 2
      <3>1. n + 1 = 1 + 2 /\ 1 \in 1 .. Len(r)
        BY <1>6, <1>7, <2>2
      <3>2. t[n + 1] = r[1] /\ r # <<>>
        BY <1>6, <1>7, <3>1
      <3>3. r[1][1] = high + 1
        BY <1>4, <3>2 DEF UptoOf
      <3>4. QED
        BY <1>5, <1>7, <2>2, <3>2, <3>3
    <2>3. CASE n # 1 /\ n # 2
      <3>1. n - 2 \in 1 .. Len(r) - 1 /\ (n - 2) + 1 \in 1 .. Len(r) /\ ((n - 2) + 1) + 2 = n + 1 /\ n \in 1 .. Len(t)
        BY <1>6, <1>7, <2>3
      <3>2. t[n + 1] = r[(n - 2) + 1] /\ t[n] = r[n - 2]
        BY <1>7, <1>8, <2>3, <3>1
      <3>3. QED
        BY <1>6, <3>1, <3>2
    <2>4. QED
      BY <2>1, <2>2, <2>3
  <1>12. t[Len(t)][2] = Pinned
    <2>1. CASE r = <<>>
      <3>1. Len(t) = 2 /\ UptoOf(r) = Pinned + 1
        BY <1>7, <2>1 DEF UptoOf
      <3>2. high = Pinned
        BY <1>1, <1>4, <1>9, <3>1
      <3>3. t[Len(t)] = second
        BY <1>7, <3>1
      <3>4. QED
        BY <1>5, <3>2, <3>3
    <2>2. CASE r # <<>>
      <3>1. Len(r) \in 1 .. Len(r) /\ Len(t) = Len(r) + 2
        BY <1>6, <1>7, <2>2
      <3>2. QED
        BY <1>6, <1>7, <2>2, <3>1
    <2>3. QED
      BY <2>1, <2>2
  <1>13. SpansOK(t)
    BY <1>7, <1>10, <1>11, <1>12 DEF SpansOK
  <1>14. UptoOf(t) = low
    BY <1>5, <1>7 DEF UptoOf
  <1>15. t = Halves(sp[1]) \o Tail(sp)
    BY <1>3 DEF t, r
  <1>16. QED
    BY <1>4, <1>13, <1>14, <1>15

-----------------------------------------------------------------------------
(* What is due, what has been written, and what has been counted.          *)

Due(basis, side, token) == MatchingIn(addresses(basis), side, token, Deploy, Pinned)

\* There is a row of that pass, or the pass knows that it failed to write it.
Written(x, i, basis, side, p) ==
    LET key == [agent |-> i, basis |-> basis, side |-> side, log |-> x]
    IN  key \in lost \/ \E r \in payments : r.key = key /\ r.pass = p

Handled(x, basis, side) == \A i \in reachers(Credited(x, side), basis) : Written(x, i, basis, side, pass)

DoneBases == IF step = "targets" THEN 1 .. b - 1 ELSE 1 .. b

TargetRows(basis) ==
    UNION {{[agent |-> i, basis |-> basis, address |-> d.address, ineligible |-> d.ineligible, pass |-> pass] :
               d \in targets_for(i, basis)} : i \in payment_candidates}

\* Whatever is there while a pass runs is of that pass, and of a basis it
\* has written the targets of.
TargetsOK ==
    Running =>
        /\ \A tg \in targets : \E j \in DoneBases : tg \in TargetRows(Bases[j])
        /\ \A j \in DoneBases : TargetRows(Bases[j]) \subseteq targets
        /\ \A sc \in scans : sc.pass = pass /\ \E j \in DoneBases : sc.basis = Bases[j]

FoundBefore == IF s = 1 THEN 0 ELSE Cardinality(Due(Bases[b], "in", Tokens[k]))

\* The logs are those of the chunks and blocks answered so far, each once,
\* and what is no longer among them has been handled.
WorkOK ==
    /\ step \in {"token", "scan", "logs"} => addresses(Bases[b]) # {}
    /\ step \in {"scan", "logs"} /\ s = 2 =>
          \A x \in Due(Bases[b], "in", Tokens[k]) : Handled(x, Bases[b], "in")
    /\ step = "scan" =>
          /\ c \in Nat \ {0} /\ SpansOK(spans) /\ found = FoundBefore
          /\ Lists(logs, ScannedBy(AddressList, c, Sides[s], Tokens[k], UptoOf(spans)))
    /\ step = "logs" =>
          /\ found = FoundBefore + Cardinality(Due(Bases[b], Sides[s], Tokens[k]))
          /\ logs \in Seq(Due(Bases[b], Sides[s], Tokens[k]))
          /\ \A x \in Due(Bases[b], Sides[s], Tokens[k]) :
                (\E n \in DOMAIN logs : logs[n] = x) \/ Handled(x, Bases[b], Sides[s])

LEMMA RunningIs ==
    ASSUME ReadInv, PassOK, Running
    PROVE  /\ stage = "read" /\ ids = Existing /\ ids \subseteq Ids
           /\ \A basis : addresses(basis) # {} => Deploy <= Pinned
           /\ \A basis : IsList(SetToSeq(addresses(basis)), addresses(basis))
  <1>1. stage = "read" /\ ids = Existing /\ ids \subseteq Ids
    <2>1. stage = "read"
      BY DEF PassOK, Running
    <2>2. QED
      BY <2>1 DEF ReadInv, Bracket, Existing
  <1>2. ASSUME NEW basis, addresses(basis) # {} PROVE Deploy <= Pinned
    <2>1. ids # {}
      BY <1>2 DEF addresses, payment_candidates
    <2>2. PICK r \in Registered : r.block <= Pinned
      BY <1>1, <2>1 DEF Existing, exists_at
    <2>3. QED
      BY <2>2, ChainReadsAssumption
  <1>3. ASSUME NEW basis PROVE IsList(SetToSeq(addresses(basis)), addresses(basis))
    <2> DEFINE S == addresses(basis)
               list == SetToSeq(S)
    <2>1. IsFiniteSet(S)
      BY <1>1, AddressesFinite
    <2> HIDE DEF S
    <2>2. /\ Cardinality(S) \in Nat /\ list \in [1 .. Cardinality(S) -> S]
          /\ \A x \in S : \E j \in 1 .. Cardinality(S) : list[j] = x
          /\ \A i, j \in 1 .. Cardinality(S) : list[i] = list[j] => i = j
      BY <2>1, ListIs
    <2> HIDE DEF list
    <2>3. IsList(list, S)
      BY <2>2 DEF IsList
    <2>4. QED
      BY <2>3 DEF list, S
  <1>4. QED
    BY <1>1, <1>2, <1>3

\* What classify makes of a transfer of an address of an agent.
LEMMA RowIsEarned ==
    ASSUME ReadInv, PassOK, step = "logs", NEW x \in Due(Bases[b], Sides[s], Tokens[k]),
           NEW i \in reachers(Credited(x, Sides[s]), Bases[b]), NEW code, NEW authorizer
    PROVE  LET r == Row(x, Sides[s], i, code, authorizer)
           IN  r.verdict = "counted" <=>
                 r.key.side = "in" /\ registrations # <<>> /\ Earned(r.key.agent, r.key.log, r.key.basis)
  <1>1. /\ Row(x, Sides[s], i, code, authorizer).verdict = classify(x, Sides[s], i)
        /\ Row(x, Sides[s], i, code, authorizer).key.side = Sides[s]
        /\ Row(x, Sides[s], i, code, authorizer).key.agent = i
        /\ Row(x, Sides[s], i, code, authorizer).key.log = x
        /\ Row(x, Sides[s], i, code, authorizer).key.basis = Bases[b]
    BY DEF Row
  <1>2. /\ stage = "read" /\ ids = Existing /\ ids \subseteq Ids /\ Running
    BY RunningIs DEF Running
  <1>3. i \in Ids /\ i \in ids /\ IsPayee(i, Credited(x, Sides[s]), Bases[b])
    BY <1>2, ReachersIs, ReachersArePayees DEF PassOK
  <1>4. x \in Transfers /\ x.block \in Nat /\ x.block <= Pinned
    BY PaymentsAssumption, ChainReadsAssumption DEF Due, MatchingIn
  <1>5. CASE Sides[s] = "out"
    BY <1>1, <1>5 DEF classify
  <1>6. CASE Sides[s] = "in"
    <2>1. Credited(x, Sides[s]) = x.to /\ Counterparty(x, Sides[s]) = x.sender
      BY <1>6 DEF Credited, Counterparty
    <2>2. Earliest(i) \in Nat \ {0}
      <3>1. PICK q \in Registered : q.id = i /\ q.block = Earliest(i)
        BY <1>3, EarliestIs
      <3>2. q.block \in Nat /\ q.block >= Deploy /\ Deploy \in Nat \ {0}
        BY ChainReadsAssumption
      <3>3. QED
        BY <3>1, <3>2
    <2>3. registrations # <<>> => minted(i) = Earliest(i)
      <3> SUFFICES ASSUME registrations # <<>> PROVE minted(i) = Earliest(i)
        OBVIOUS
      <3>1. i \in DOMAIN registrations /\ First(i, registrations[i])
        BY <1>2, <1>3, Registrations
      <3>2. registrations[i].block = Earliest(i)
        BY <3>1 DEF First
      <3>3. QED
        BY <3>1, <3>2 DEF minted
    <2>4. registrations = <<>> => minted(i) = 0
      BY DEF minted
    <2>5. classify(x, Sides[s], i) = "counted" <=>
            /\ x.to \notin Burn /\ x.sender \notin Burn /\ x.sender # x.to /\ x.sender # Owner[i]
            /\ minted(i) # 0 /\ ~(x.block < minted(i))
      BY <1>6, <2>1 DEF classify, is_burn_address
    <2>6. Earned(i, x, Bases[b]) <=>
            /\ x.block >= Earliest(i) /\ x.sender # Owner[i] /\ x.sender # x.to
            /\ x.to \notin Burn /\ x.sender \notin Burn
      BY <1>3, <1>4, <2>1 DEF Earned
    <2>7. CASE registrations = <<>>
      BY <1>1, <2>4, <2>5, <2>7
    <2>8. CASE registrations # <<>>
      <3>1. ~(x.block < minted(i)) <=> x.block >= Earliest(i)
        BY <1>4, <2>2, <2>3, <2>8
      <3>2. classify(x, Sides[s], i) = "counted" <=> Earned(i, x, Bases[b])
        BY <2>2, <2>3, <2>5, <2>6, <2>8, <3>1
      <3>3. QED
        BY <1>1, <1>6, <2>8, <3>2
    <2>9. QED
      BY <2>7, <2>8
  <1>7. QED
    BY <1>5, <1>6 DEF PassOK, Sides

-----------------------------------------------------------------------------
(* The work of a pass, step by step.                                       *)

LEMMA SameDue ==
    ASSUME UNCHANGED <<ids, wallets>>
    PROVE  \A basis, side, token : Due(basis, side, token)' = Due(basis, side, token)
  <1>1. \A basis : addresses(basis)' = addresses(basis)
    BY SameTargets
  <1>2. QED
    BY <1>1 DEF Due, MatchingIn, Credited

LEMMA SameReachers ==
    ASSUME UNCHANGED <<ids, wallets>>
    PROVE  \A x, basis, side : reachers(Credited(x, side), basis)' = reachers(Credited(x, side), basis)
  <1> SUFFICES ASSUME NEW x, NEW basis, NEW side
               PROVE  reachers(Credited(x, side), basis)' = reachers(Credited(x, side), basis)
    OBVIOUS
  <1>1. PICK a : a = Credited(x, side)
    OBVIOUS
  <1>2. Credited(x, side)' = Credited(x, side)
    BY DEF Credited
  <1>3. reachers(a, basis)' = reachers(a, basis)
    BY SameTargets
  <1>4. reachers(Credited(x, side), basis)' = reachers(a, basis)'
    BY <1>1, <1>2 DEF reachers, Credited
  <1>5. QED
    BY <1>1, <1>3, <1>4

LEMMA HandledStays ==
    ASSUME UNCHANGED <<ids, wallets, pass>>, lost \subseteq lost', payments \subseteq payments'
    PROVE  \A x, basis, side : Handled(x, basis, side) => Handled(x, basis, side)'
  <1> SUFFICES ASSUME NEW x, NEW basis, NEW side, Handled(x, basis, side) PROVE Handled(x, basis, side)'
    OBVIOUS
  <1>2. reachers(Credited(x, side), basis)' = reachers(Credited(x, side), basis)
    BY SameReachers
  <1>3. ASSUME NEW i \in reachers(Credited(x, side), basis) PROVE Written(x, i, basis, side, pass)'
    <2>1. Written(x, i, basis, side, pass)
      BY DEF Handled
    <2>2. QED
      BY <2>1 DEF Written
  <1>4. QED
    BY <1>2, <1>3 DEF Handled

\* Rows are only added, so what was due and handled stays so.
LEMMA SameWork ==
    ASSUME UNCHANGED <<ids, wallets, pass, b, k, s>>, lost \subseteq lost', payments \subseteq payments'
    PROVE  /\ AddressList' = AddressList /\ addresses(Bases[b])' = addresses(Bases[b])
           /\ Due(Bases[b], "in", Tokens[k])' = Due(Bases[b], "in", Tokens[k])
           /\ Due(Bases[b], Sides[s], Tokens[k])' = Due(Bases[b], Sides[s], Tokens[k])
           /\ FoundBefore' = FoundBefore
           /\ \A x, side : Handled(x, Bases[b], side) => Handled(x, Bases[b], side)'
  <1>1. PICK basis, token, at : basis = Bases[b] /\ token = Tokens[k] /\ at = Sides[s]
    OBVIOUS
  <1>2. AddressList' = AddressList /\ addresses(Bases[b])' = addresses(Bases[b])
    BY SameTargets DEF AddressList, addresses, payment_candidates
  <1>3. \A side : Due(basis, side, token)' = Due(basis, side, token)
    BY SameDue
  <1>4. /\ Due(Bases[b], "in", Tokens[k])' = Due(basis, "in", token)'
        /\ Due(Bases[b], Sides[s], Tokens[k])' = Due(basis, at, token)'
    BY <1>1 DEF Due, MatchingIn, addresses, payment_candidates, Credited
  <1>5. /\ Due(Bases[b], "in", Tokens[k])' = Due(Bases[b], "in", Tokens[k])
        /\ Due(Bases[b], Sides[s], Tokens[k])' = Due(Bases[b], Sides[s], Tokens[k])
    BY <1>1, <1>3, <1>4
  <1>6. FoundBefore' = FoundBefore
    BY <1>5 DEF FoundBefore
  <1>7. ASSUME NEW x, NEW side, Handled(x, Bases[b], side) PROVE Handled(x, Bases[b], side)'
    <2>1. Handled(x, basis, side)'
      BY <1>1, <1>7, HandledStays
    <2>2. Handled(x, basis, side)' <=> Handled(x, Bases[b], side)'
      BY <1>1 DEF Handled, Written, reachers, Credited
    <2>3. QED
      BY <2>1, <2>2
  <1>8. QED
    BY <1>2, <1>5, <1>6, <1>7

\* Where a scan starts: all blocks of the first chunk are to be asked for.
LEMMA ScanBegins ==
    ASSUME ReadInv, PassOK, Running, NEW side, NEW token, addresses(Bases[b]) # {}
    PROVE  /\ SpansOK(<<<<Deploy, Pinned>>>>)
           /\ Lists(<<>>, ScannedBy(AddressList, 1, side, token, UptoOf(<<<<Deploy, Pinned>>>>)))
  <1>1. Deploy <= Pinned /\ IsList(AddressList, addresses(Bases[b]))
    BY RunningIs DEF AddressList
  <1>2. ScannedBy(AddressList, 1, side, token, Deploy) = {}
    BY <1>1, NothingScanned
  <1>3. SpansOK(<<<<Deploy, Pinned>>>>) /\ UptoOf(<<<<Deploy, Pinned>>>>) = Deploy
    BY <1>1, WholeSpan
  <1>4. Lists(<<>>, {})
    BY DEF Lists
  <1>5. QED
    BY <1>2, <1>3, <1>4

LEMMA OpenTokenWork ==
    ASSUME ReadInv, PassOK, WorkOK, OpenToken, UNCHANGED readsKept PROVE WorkOK'
  <1>1. /\ step = "token" /\ step' = "scan" /\ spans' = <<<<Deploy, Pinned>>>> /\ logs' = <<>> /\ found' = 0
        /\ s' = 1 /\ c' = 1 /\ UNCHANGED <<ids, wallets, b, k>>
    BY DEF OpenToken, GoOn, readsKept
  <1>2. addresses(Bases[b]) # {} /\ Running
    BY <1>1 DEF WorkOK, Running
  <1>3. AddressList' = AddressList /\ addresses(Bases[b])' = addresses(Bases[b])
    BY <1>1, SameTargets DEF AddressList, addresses, payment_candidates
  <1>4. PICK list, side, token : list = AddressList /\ side = Sides[s'] /\ token = Tokens[k']
    OBVIOUS
  <1>5. Lists(<<>>, ScannedBy(list, 1, side, token, UptoOf(<<<<Deploy, Pinned>>>>))) /\ SpansOK(<<<<Deploy, Pinned>>>>)
    BY <1>2, <1>4, ScanBegins
  <1>6. Lists(logs', ScannedBy(AddressList', c', Sides[s'], Tokens[k'], UptoOf(spans'))) /\ SpansOK(spans')
    BY <1>1, <1>3, <1>4, <1>5
  <1>7. found' = FoundBefore'
    BY <1>1 DEF FoundBefore
  <1>8. QED
    BY <1>1, <1>2, <1>3, <1>6, <1>7 DEF WorkOK

\* While a side is scanned, what was there before stays.
LEMMA ScanSteps ==
    ASSUME ReadInv, PassOK, WorkOK, step = "scan", step' = "scan",
           UNCHANGED <<ids, wallets, pass, payments, lost, b, k, s, found>>,
           c' \in Nat \ {0}, SpansOK(spans'),
           Lists(logs', ScannedBy(AddressList, c', Sides[s], Tokens[k], UptoOf(spans')))
    PROVE  WorkOK'
  <1>1. /\ AddressList' = AddressList /\ addresses(Bases[b])' = addresses(Bases[b])
        /\ Due(Bases[b], "in", Tokens[k])' = Due(Bases[b], "in", Tokens[k])
        /\ FoundBefore' = FoundBefore
        /\ \A x : Handled(x, Bases[b], "in") => Handled(x, Bases[b], "in")'
    BY SameWork
  <1>2. s' = 2 => \A x \in Due(Bases[b], "in", Tokens[k])' : Handled(x, Bases[b], "in")'
    BY <1>1 DEF WorkOK
  <1>3. addresses(Bases[b])' # {} /\ found' = FoundBefore'
    BY <1>1 DEF WorkOK
  <1>4. UptoOf(spans)' = UptoOf(spans')
    BY DEF UptoOf
  <1>5. Lists(logs, ScannedBy(AddressList, c, Sides[s], Tokens[k], UptoOf(spans)))'
    BY <1>1, <1>4 DEF Lists, ScannedBy, Credited
  <1>6. SpansOK(spans)'
    BY DEF SpansOK
  <1>7. QED
    BY <1>2, <1>3, <1>5, <1>6 DEF WorkOK

LEMMA TransfersAnswerWork ==
    ASSUME ReadInv, PassOK, WorkOK, TransfersAnswer, UNCHANGED readsKept PROVE WorkOK'
  <1>1. /\ step = "scan" /\ step' = "scan" /\ spans # <<>> /\ c' = c
        /\ logs' = logs \o InOrder(Matching(spans[1])) /\ spans' = Tail(spans)
        /\ UNCHANGED <<ids, wallets, pass, payments, lost, b, k, s, found>>
    BY DEF TransfersAnswer, scanOnly, tables, readsKept
  <1>2. /\ Running /\ SpansOK(spans) /\ c \in Nat \ {0}
        /\ Lists(logs, ScannedBy(AddressList, c, Sides[s], Tokens[k], UptoOf(spans)))
    BY <1>1 DEF WorkOK, Running
  <1>3. /\ SpansOK(Tail(spans)) /\ UptoOf(Tail(spans)) = spans[1][2] + 1
        /\ spans[1][1] \in Nat /\ spans[1][2] \in Nat /\ spans[1][1] <= spans[1][2]
        /\ Deploy <= spans[1][1] /\ spans[1][2] <= Pinned /\ UptoOf(spans) = spans[1][1]
    BY <1>1, <1>2, SpanDone
  <1>4. PICK list, side, token, low, high :
          /\ list = AddressList /\ side = Sides[s] /\ token = Tokens[k]
          /\ low = spans[1][1] /\ high = spans[1][2] /\ low \in Nat /\ high \in Nat
    BY <1>3
  <1> DEFINE before == ScannedBy(list, c, side, token, low)
             answer == MatchingIn(ChunkOf(list, c), side, token, low, high)
  <1>5. IsList(list, addresses(Bases[b]))
    BY <1>2, <1>4, RunningIs DEF AddressList
  <1>6. ScannedBy(list, c, side, token, high + 1) = before \cup answer /\ before \cap answer = {}
    BY <1>2, <1>3, <1>4, <1>5, SpanScanned
  <1>7. Matching(spans[1]) = answer
    BY <1>4 DEF Matching, Chunk, MatchingIn, ChunkOf
  <1>8. Lists(InOrder(answer), answer)
    <2>1. answer \in SUBSET Transfers
      BY DEF MatchingIn
    <2> HIDE DEF answer
    <2>2. /\ Cardinality(answer) \in Nat
          /\ InOrder(answer) \in [1 .. Cardinality(answer) -> answer]
          /\ \A x \in answer : \E i \in 1 .. Cardinality(answer) : InOrder(answer)[i] = x
          /\ \A i, j \in 1 .. Cardinality(answer) : InOrder(answer)[i] = InOrder(answer)[j] => i = j
      BY <2>1, InOrderIs
    <2>3. PICK q, n : q = InOrder(answer) /\ n = Cardinality(answer) /\ n \in Nat
      BY <2>2
    <2>4. /\ q \in [1 .. n -> answer] /\ \A x \in answer : \E i \in 1 .. n : q[i] = x
          /\ \A i, j \in 1 .. n : q[i] = q[j] => i = j
      BY <2>2, <2>3
    <2>5. q \in Seq(answer) /\ DOMAIN q = 1 .. n
      BY <2>3, <2>4
    <2>6. QED
      BY <2>3, <2>4, <2>5 DEF Lists
  <1>9. Lists(logs, before)
    BY <1>2, <1>3, <1>4
  <1> HIDE DEF before, answer
  <1>10. Lists(logs \o InOrder(answer), before \cup answer)
    BY <1>6, <1>8, <1>9, ListsMore
  <1>11. Lists(logs', ScannedBy(AddressList, c', Sides[s], Tokens[k], UptoOf(spans')))
    BY <1>1, <1>3, <1>4, <1>6, <1>7, <1>10
  <1>12. QED
    BY <1>1, <1>2, <1>3, <1>11, ScanSteps

LEMMA TransfersRefusedWork ==
    ASSUME ReadInv, PassOK, WorkOK, TransfersRefused, UNCHANGED readsKept PROVE WorkOK'
  <1>1. /\ step = "scan" /\ step' = "scan" /\ spans # <<>> /\ c' = c /\ logs' = logs
        /\ spans[1][1] < spans[1][2] /\ spans' = Halves(spans[1]) \o Tail(spans)
        /\ UNCHANGED <<ids, wallets, pass, payments, lost, b, k, s, found>>
    BY DEF TransfersRefused, scanOnly, tables, readsKept
  <1>2. /\ SpansOK(spans) /\ c \in Nat \ {0}
        /\ Lists(logs, ScannedBy(AddressList, c, Sides[s], Tokens[k], UptoOf(spans)))
    BY <1>1 DEF WorkOK
  <1>3. SpansOK(spans') /\ UptoOf(spans') = UptoOf(spans)
    BY <1>1, <1>2, SpanSplit
  <1>4. QED
    BY <1>1, <1>2, <1>3, ScanSteps

LEMMA NextChunkWork ==
    ASSUME ReadInv, PassOK, WorkOK, NextChunk, UNCHANGED readsKept PROVE WorkOK'
  <1>1. /\ step = "scan" /\ step' = "scan" /\ spans = <<>> /\ c' = c + TargetsPerQuery /\ logs' = logs
        /\ spans' = <<<<Deploy, Pinned>>>>
        /\ UNCHANGED <<ids, wallets, pass, payments, lost, b, k, s, found>>
    BY DEF NextChunk, scanOnly, tables, readsKept
  <1>2. /\ Running /\ c \in Nat \ {0} /\ addresses(Bases[b]) # {}
        /\ Lists(logs, ScannedBy(AddressList, c, Sides[s], Tokens[k], UptoOf(spans)))
    BY <1>1 DEF WorkOK, Running
  <1>3. /\ Deploy <= Pinned /\ IsList(AddressList, addresses(Bases[b]))
    BY <1>2, RunningIs DEF AddressList
  <1>4. SpansOK(spans') /\ UptoOf(spans') = Deploy
    BY <1>1, <1>3, WholeSpan
  <1>5. UptoOf(spans) = Pinned + 1
    BY <1>1 DEF UptoOf
  <1>6. ScannedBy(AddressList, c', Sides[s], Tokens[k], Deploy) = ScannedBy(AddressList, c, Sides[s], Tokens[k], Pinned + 1)
    BY <1>1, <1>2, <1>3, ChunkScanned
  <1>7. c' \in Nat \ {0}
    BY <1>1, <1>2, PaymentsAssumption
  <1>8. QED
    BY <1>1, <1>2, <1>4, <1>5, <1>6, <1>7, ScanSteps

LEMMA SideScannedWork ==
    ASSUME ReadInv, PassOK, WorkOK, SideScanned, UNCHANGED readsKept PROVE WorkOK'
  <1>1. /\ step = "scan" /\ step' = "logs" /\ spans = <<>> /\ c + TargetsPerQuery > Len(AddressList)
        /\ found' = found + Len(logs)
        /\ UNCHANGED <<ids, wallets, pass, payments, lost, b, k, s, logs>>
    BY DEF SideScanned, GoOn, tables, readsKept
  <1>2. /\ Running /\ c \in Nat \ {0} /\ addresses(Bases[b]) # {} /\ found = FoundBefore
        /\ Lists(logs, ScannedBy(AddressList, c, Sides[s], Tokens[k], UptoOf(spans)))
    BY <1>1 DEF WorkOK, Running
  <1>3. IsList(AddressList, addresses(Bases[b]))
    BY <1>2, RunningIs DEF AddressList
  <1>4. \A j \in DOMAIN AddressList : j < c + TargetsPerQuery
    <2>1. IsFiniteSet(addresses(Bases[b]))
      BY <1>2, RunningIs, AddressesFinite
    <2>2. PICK S : S = addresses(Bases[b])
      OBVIOUS
    <2>3. /\ Cardinality(S) \in Nat /\ SetToSeq(S) \in [1 .. Cardinality(S) -> S]
          /\ Len(SetToSeq(S)) = Cardinality(S)
      BY <2>1, <2>2, ListIs
    <2>4. DOMAIN AddressList = 1 .. Len(AddressList) /\ Len(AddressList) \in Nat
      BY <2>2, <2>3 DEF AddressList
    <2>5. QED
      BY <1>1, <1>2, <2>4, PaymentsAssumption
  <1>5. UptoOf(spans) = Pinned + 1
    BY <1>1 DEF UptoOf
  <1>6. ScannedBy(AddressList, c, Sides[s], Tokens[k], Pinned + 1) = Due(Bases[b], Sides[s], Tokens[k])
    BY <1>2, <1>3, <1>4, AllScanned DEF Due
  <1>7. Lists(logs, Due(Bases[b], Sides[s], Tokens[k]))
    BY <1>2, <1>5, <1>6
  <1>8. Len(logs) = Cardinality(Due(Bases[b], Sides[s], Tokens[k]))
    <2>1. Due(Bases[b], Sides[s], Tokens[k]) \in SUBSET Transfers
      BY DEF Due, MatchingIn
    <2>2. IsFiniteSet(Due(Bases[b], Sides[s], Tokens[k]))
      BY <2>1, PaymentsAssumption, FS_Subset
    <2>3. QED
      BY <1>7, <2>2, ListsCount
  <1>9. /\ Due(Bases[b], "in", Tokens[k])' = Due(Bases[b], "in", Tokens[k])
        /\ Due(Bases[b], Sides[s], Tokens[k])' = Due(Bases[b], Sides[s], Tokens[k])
        /\ FoundBefore' = FoundBefore /\ addresses(Bases[b])' = addresses(Bases[b])
        /\ \A x : Handled(x, Bases[b], "in") => Handled(x, Bases[b], "in")'
    BY <1>1, SameWork
  <1>10. s' = 2 => \A x \in Due(Bases[b], "in", Tokens[k])' : Handled(x, Bases[b], "in")'
    BY <1>1, <1>9 DEF WorkOK
  <1>11. /\ found' = FoundBefore' + Cardinality(Due(Bases[b], Sides[s], Tokens[k])')
         /\ logs' \in Seq(Due(Bases[b], Sides[s], Tokens[k])')
         /\ \A x \in Due(Bases[b], Sides[s], Tokens[k])' : \E n \in DOMAIN logs' : logs'[n] = x
    BY <1>1, <1>2, <1>7, <1>8, <1>9 DEF Lists
  <1>12. QED
    BY <1>1, <1>2, <1>9, <1>10, <1>11 DEF WorkOK

\* One log: every agent behind its address gets a row, or one that is lost.
LEMMA HandleLogIs ==
    ASSUME ReadInv, PassOK, WorkOK, HandleLog, UNCHANGED readsKept,
           NEW x, NEW basis, NEW side, x = Head(logs), basis = Bases[b], side = Sides[s]
    PROVE  /\ step = "logs" /\ step' = "logs" /\ logs # <<>> /\ logs' = Tail(logs)
           /\ x \in Due(basis, side, Tokens[k])
           /\ UNCHANGED <<ids, wallets, pass, targets, scans, registrations, stage, b, k, s, found>>
           /\ lost \subseteq lost' /\ payments \subseteq payments'
           /\ Handled(x, basis, side)'
           /\ \A r \in payments' \ payments :
                 \E i \in reachers(Credited(x, side), basis) : \E code, authorizer :
                    r = Row(x, side, i, code, authorizer)
  <1>1. /\ step = "logs" /\ step' = "logs" /\ logs # <<>> /\ logs' = Tail(logs)
        /\ UNCHANGED <<ids, wallets, pass, targets, scans, registrations, stage, b, k, s, found>>
    BY DEF HandleLog, readsKept, scanning
  <1> DEFINE agents == reachers(Credited(x, side), basis)
             row(i) == Row(x, side, i, is_contract'[Counterparty(x, side)], authorizations'[x.tx])
  <1>2. PICK failed \in SUBSET agents :
          /\ payments' = payments \cup {row(i) : i \in agents \ failed}
          /\ lost' = lost \cup {row(i).key : i \in failed}
    <2> DEFINE y == Head(logs)
               who == Counterparty(y, Sides[s])
               wrote(i) == Row(y, Sides[s], i, is_contract'[who], authorizations'[y.tx])
               those == reachers(Credited(y, Sides[s]), Bases[b])
    <2>1. \E failed \in SUBSET those :
             /\ payments' = payments \cup {wrote(i) : i \in those \ failed}
             /\ lost' = lost \cup {wrote(i).key : i \in failed}
      BY DEF HandleLog
    <2>2. those = agents /\ \A i : wrote(i) = row(i)
      OBVIOUS
    <2> HIDE DEF those, agents, wrote, row
    <2>3. QED
      BY <2>1, <2>2
  <1>3. x \in Due(basis, side, Tokens[k])
    <2>1. logs \in Seq(Due(basis, side, Tokens[k])) /\ logs # <<>>
      BY <1>1 DEF WorkOK
    <2>2. Head(logs) \in Due(basis, side, Tokens[k])
      <3> DEFINE D == Due(basis, side, Tokens[k])
      <3> HIDE DEF D
      <3>1. logs \in Seq(D) /\ logs # <<>> => Head(logs) \in D
        OBVIOUS
      <3>2. QED
        BY <2>1, <3>1 DEF D
    <2>3. QED
      BY <2>2
  <1>4. \A i : /\ row(i).key = [agent |-> i, basis |-> basis, side |-> side, log |-> x]
               /\ row(i).pass = pass
    BY DEF Row
  <1>5. PICK p : p = pass /\ p = pass'
    BY <1>1
  <1>6. ASSUME NEW i \in agents PROVE Written(x, i, basis, side, p)'
    <2>1. CASE i \in failed
      <3>1. row(i).key \in lost'
        BY <1>2, <2>1
      <3>2. [agent |-> i, basis |-> basis, side |-> side, log |-> x] \in lost'
        BY <1>4, <3>1
      <3>3. QED
        BY <3>2 DEF Written
    <2>2. CASE i \notin failed
      <3>1. row(i) \in payments'
        BY <1>2, <1>6, <2>2
      <3> HIDE DEF row
      <3>2. \E r \in payments' : /\ r.key = [agent |-> i, basis |-> basis, side |-> side, log |-> x]
                                 /\ r.pass = p
        BY <1>4, <1>5, <3>1
      <3>3. QED
        BY <3>2 DEF Written
    <2>3. QED
      BY <2>1, <2>2
  <1>7. Handled(x, basis, side)'
    <2>1. reachers(Credited(x, side), basis)' = agents
      BY <1>1, SameReachers
    <2>2. \A i \in agents : Written(x, i, basis, side, pass)'
      BY <1>5, <1>6 DEF Written
    <2>3. QED
      BY <2>1, <2>2 DEF Handled
  <1>8. \A r \in payments' \ payments : \E i \in agents : \E code, authorizer :
           r = Row(x, side, i, code, authorizer)
    BY <1>2
  <1> HIDE DEF row
  <1>9. lost \subseteq lost' /\ payments \subseteq payments'
    BY <1>2
  <1>10. QED
    BY <1>1, <1>3, <1>7, <1>8, <1>9

LEMMA HandleLogWork ==
    ASSUME ReadInv, PassOK, WorkOK, HandleLog, UNCHANGED readsKept PROVE WorkOK'
  <1>1. PICK x, basis, side : x = Head(logs) /\ basis = Bases[b] /\ side = Sides[s]
    OBVIOUS
  <1>2. /\ step = "logs" /\ step' = "logs" /\ logs # <<>> /\ logs' = Tail(logs)
        /\ UNCHANGED <<ids, wallets, pass, targets, scans, registrations, stage, b, k, s, found>>
        /\ lost \subseteq lost' /\ payments \subseteq payments'
        /\ Handled(x, basis, side)'
    BY <1>1, HandleLogIs
  <1>3. /\ Due(Bases[b], "in", Tokens[k])' = Due(Bases[b], "in", Tokens[k])
        /\ Due(Bases[b], Sides[s], Tokens[k])' = Due(Bases[b], Sides[s], Tokens[k])
        /\ FoundBefore' = FoundBefore /\ addresses(Bases[b])' = addresses(Bases[b])
        /\ \A y, at : Handled(y, Bases[b], at) => Handled(y, Bases[b], at)'
    BY <1>2, SameWork
  <1>4. s' = 2 => \A y \in Due(Bases[b], "in", Tokens[k])' : Handled(y, Bases[b], "in")'
    BY <1>2, <1>3 DEF WorkOK
  <1>5. found' = FoundBefore' + Cardinality(Due(Bases[b], Sides[s], Tokens[k])')
    BY <1>2, <1>3 DEF WorkOK
  <1>6. PICK D : D = Due(Bases[b], Sides[s], Tokens[k])
    OBVIOUS
  <1>7. logs \in Seq(D) /\ logs # <<>>
    BY <1>2, <1>6 DEF WorkOK
  <1>8. /\ logs' \in Seq(D)
        /\ \A n \in DOMAIN logs : n = 1 \/ (n - 1 \in DOMAIN logs' /\ logs'[n - 1] = logs[n])
        /\ Head(logs) = logs[1]
    BY <1>2, <1>7
  <1>9. Handled(x, Bases[b], Sides[s])'
    <2>1. Handled(x, basis, side)' <=> Handled(x, Bases[b], Sides[s])'
      BY <1>1, <1>2 DEF Handled, Written, reachers, Credited
    <2>2. QED
      BY <1>2, <2>1
  <1>10. ASSUME NEW y \in D
         PROVE  (\E n \in DOMAIN logs' : logs'[n] = y) \/ Handled(y, Bases[b], Sides[s])'
    <2>1. CASE y = x
      BY <1>9, <2>1
    <2>2. CASE \E n \in DOMAIN logs : logs[n] = y /\ y # x
      <3>1. PICK n \in DOMAIN logs : logs[n] = y /\ y # x
        BY <2>2
      <3>2. n # 1
        BY <1>1, <1>8, <3>1
      <3>3. n - 1 \in DOMAIN logs' /\ logs'[n - 1] = y
        BY <1>8, <3>1, <3>2
      <3>4. QED
        BY <3>3
    <2>3. CASE Handled(y, Bases[b], Sides[s])
      <3>1. PICK at : at = Sides[s]
        OBVIOUS
      <3>2. Handled(y, Bases[b], at)'
        BY <1>3, <2>3, <3>1
      <3>3. Handled(y, Bases[b], at)' <=> Handled(y, Bases[b], Sides[s])'
        BY <1>2, <3>1 DEF Handled, Written, reachers, Credited
      <3>4. QED
        BY <3>2, <3>3
    <2>4. QED
      BY <1>2, <1>6, <2>1, <2>2, <2>3 DEF WorkOK
  <1>11. QED
    BY <1>2, <1>3, <1>4, <1>5, <1>6, <1>8, <1>10 DEF WorkOK

LEMMA NextSideWork ==
    ASSUME ReadInv, PassOK, WorkOK, NextSide, UNCHANGED readsKept PROVE WorkOK'
  <1>1. /\ step = "logs" /\ step' = "scan" /\ logs = <<>> /\ logs' = <<>> /\ s = 1 /\ s' = 2
        /\ c' = 1 /\ spans' = <<<<Deploy, Pinned>>>>
        /\ UNCHANGED <<ids, wallets, pass, payments, lost, b, k, found>>
    BY DEF NextSide, GoOn, scanOnly, tables, readsKept, Sides, PassOK
  <1>2. /\ addresses(Bases[b]) # {} /\ Running
        /\ found = FoundBefore + Cardinality(Due(Bases[b], Sides[s], Tokens[k]))
        /\ \A x \in Due(Bases[b], Sides[s], Tokens[k]) : Handled(x, Bases[b], Sides[s])
    BY <1>1 DEF WorkOK, Running
  <1>3. Sides[1] = "in" /\ Sides[2] = "out"
    BY DEF Sides
  <1>4. PICK basis, token, list : basis = Bases[b] /\ token = Tokens[k] /\ list = AddressList
    OBVIOUS
  <1>5. /\ Due(Bases[b], "in", Tokens[k])' = Due(Bases[b], "in", Tokens[k])
        /\ addresses(Bases[b])' = addresses(Bases[b]) /\ AddressList' = AddressList
    <2>1. Due(basis, "in", token)' = Due(basis, "in", token) /\ addresses(basis)' = addresses(basis)
      BY <1>1, SameDue, SameTargets
    <2>2. /\ Due(Bases[b], "in", Tokens[k])' = Due(basis, "in", token)'
          /\ addresses(Bases[b])' = addresses(basis)'
      BY <1>1, <1>4 DEF Due, MatchingIn, addresses, payment_candidates, Credited
    <2>3. QED
      BY <1>4, <2>1, <2>2 DEF AddressList
  <1>6. \A x \in Due(Bases[b], "in", Tokens[k])' : Handled(x, Bases[b], "in")'
    <2> SUFFICES ASSUME NEW x \in Due(Bases[b], "in", Tokens[k])' PROVE Handled(x, Bases[b], "in")'
      OBVIOUS
    <2>1. Handled(x, basis, "in")
      BY <1>1, <1>2, <1>3, <1>4, <1>5
    <2>2. Handled(x, basis, "in")'
      BY <1>1, <2>1, HandledStays
    <2>3. Handled(x, basis, "in")' <=> Handled(x, Bases[b], "in")'
      BY <1>1, <1>4 DEF Handled, Written, reachers, Credited
    <2>4. QED
      BY <2>2, <2>3
  <1>7. found' = FoundBefore'
    <2>1. FoundBefore = 0 /\ FoundBefore' = Cardinality(Due(Bases[b], "in", Tokens[k]))
      BY <1>1, <1>5 DEF FoundBefore
    <2>2. IsFiniteSet(Due(Bases[b], "in", Tokens[k]))
      <3>1. Due(Bases[b], "in", Tokens[k]) \in SUBSET Transfers
        BY DEF Due, MatchingIn
      <3>2. QED
        BY <3>1, PaymentsAssumption, FS_Subset
    <2>3. Cardinality(Due(Bases[b], "in", Tokens[k])) \in Nat
      BY <2>2, FS_CardinalityType
    <2>4. QED
      BY <1>1, <1>2, <1>3, <2>1, <2>3
  <1>8. SpansOK(spans') /\ Lists(logs', ScannedBy(AddressList', c', Sides[s'], Tokens[k'], UptoOf(spans')))
    <2>1. PICK side : side = Sides[s']
      OBVIOUS
    <2>2. /\ SpansOK(<<<<Deploy, Pinned>>>>)
          /\ Lists(<<>>, ScannedBy(list, 1, side, token, UptoOf(<<<<Deploy, Pinned>>>>)))
      BY <1>2, <1>4, ScanBegins
    <2>3. QED
      BY <1>1, <1>4, <1>5, <2>1, <2>2
  <1>9. QED
    BY <1>1, <1>2, <1>5, <1>6, <1>7, <1>8 DEF WorkOK

-----------------------------------------------------------------------------
(* The targets.                                                            *)

LEMMA TargetRowsAre ==
    ASSUME NEW basis
    PROVE  /\ \A tg \in TargetRows(basis) : tg.basis = basis /\ tg.pass = pass
           /\ \A tg \in TargetRows(basis) : tg.ineligible = "none" => tg.agent \in reachers(tg.address, basis)
           /\ \A a \in addresses(basis) : \E tg \in TargetRows(basis) : tg.address = a /\ tg.ineligible = "none"
  <1> DEFINE row(i, d) == [agent |-> i, basis |-> basis, address |-> d.address,
                           ineligible |-> d.ineligible, pass |-> pass]
  <1>1. \A i, d : /\ row(i, d).basis = basis /\ row(i, d).pass = pass /\ row(i, d).agent = i
                  /\ row(i, d).address = d.address /\ row(i, d).ineligible = d.ineligible
    OBVIOUS
  <1>2. \A tg : tg \in TargetRows(basis) <=>
          \E i \in payment_candidates : \E d \in targets_for(i, basis) : tg = row(i, d)
    BY DEF TargetRows
  <1> HIDE DEF row
  <1>3. ASSUME NEW tg \in TargetRows(basis)
        PROVE  /\ tg.basis = basis /\ tg.pass = pass
               /\ tg.ineligible = "none" => tg.agent \in reachers(tg.address, basis)
    <2>1. PICK i \in payment_candidates : \E d \in targets_for(i, basis) : tg = row(i, d)
      BY <1>2
    <2>2. PICK d \in targets_for(i, basis) : tg = row(i, d)
      BY <2>1
    <2>3. QED
      BY <1>1, <2>2 DEF reachers
  <1>4. ASSUME NEW a \in addresses(basis)
        PROVE  \E tg \in TargetRows(basis) : tg.address = a /\ tg.ineligible = "none"
    <2>1. PICK i \in payment_candidates : \E d \in targets_for(i, basis) : d.address = a /\ d.ineligible = "none"
      BY DEF addresses
    <2>2. PICK d \in targets_for(i, basis) : d.address = a /\ d.ineligible = "none"
      BY <2>1
    <2>3. row(i, d) \in TargetRows(basis)
      BY <1>2
    <2>4. QED
      BY <1>1, <2>2, <2>3
  <1>5. QED
    BY <1>3, <1>4

LEMMA SameRows ==
    ASSUME UNCHANGED <<ids, wallets, pass>> PROVE \A basis : TargetRows(basis)' = TargetRows(basis)
  <1>1. \A i, basis : targets_for(i, basis)' = targets_for(i, basis)
    BY SameTargets
  <1>2. QED
    BY <1>1 DEF TargetRows, payment_candidates

LEMMA ClearPaymentsTargets ==
    ASSUME PassOK, ClearPayments, UNCHANGED readsKept PROVE TargetsOK'
  <1>1. step = "wallets" /\ step' = "targets" /\ targets' = {} /\ scans' = {} /\ b' = b
    BY DEF ClearPayments, GoOn, locals
  <1>2. DoneBases' = {}
    BY <1>1 DEF DoneBases, PassOK
  <1>3. QED
    BY <1>1, <1>2 DEF TargetsOK

\* A pass that goes on with the basis it is at.
LEMMA TargetsStay ==
    ASSUME PassOK, TargetsOK, Running, UNCHANGED <<ids, wallets, pass, targets>>, DoneBases' = DoneBases,
           \A sc \in scans' : sc \in scans \/ (sc.pass = pass /\ \E j \in DoneBases : sc.basis = Bases[j])
    PROVE  TargetsOK'
  <1>1. \A basis : TargetRows(basis)' = TargetRows(basis)
    BY SameRows
  <1>2. /\ \A tg \in targets : \E j \in DoneBases : tg \in TargetRows(Bases[j])
        /\ \A j \in DoneBases : TargetRows(Bases[j]) \subseteq targets
        /\ \A sc \in scans : sc.pass = pass /\ \E j \in DoneBases : sc.basis = Bases[j]
    BY DEF TargetsOK
  <1>3. \A tg \in targets' : \E j \in DoneBases' : tg \in TargetRows(Bases[j])'
    BY <1>1, <1>2
  <1>4. \A j \in DoneBases' : TargetRows(Bases[j])' \subseteq targets'
    BY <1>1, <1>2
  <1>5. \A sc \in scans' : sc.pass = pass' /\ \E j \in DoneBases' : sc.basis = Bases[j]
    BY <1>2
  <1>6. QED
    BY <1>3, <1>4, <1>5 DEF TargetsOK

LEMMA WriteTargetsTargets ==
    ASSUME PassOK, TargetsOK, WriteTargets, UNCHANGED readsKept
    PROVE  /\ TargetsOK'
           /\ \A sc \in scans : \A tg \in targets' \ targets : tg.basis # sc.basis
           /\ targets \subseteq targets'
  <1>1. /\ step = "targets" /\ targets' = targets \cup TargetRows(Bases[b])
        /\ UNCHANGED <<ids, wallets, pass, payments, scans, lost>>
        /\ (b' = b + 1 /\ step' = step) \/ (step' = "token" /\ b' = b)
    BY DEF WriteTargets, GoOn, TargetRows, readsKept
  <1>2. DoneBases = 1 .. b - 1 /\ DoneBases' = 1 .. b /\ b \in Nat \ {0} /\ Running
    BY <1>1 DEF DoneBases, PassOK, Running
  <1>3. DoneBases' = DoneBases \cup {b}
    BY <1>2
  <1>4. \A basis : TargetRows(basis)' = TargetRows(basis)
    BY <1>1, SameRows
  <1>5. /\ \A tg \in targets : \E j \in DoneBases : tg \in TargetRows(Bases[j])
        /\ \A j \in DoneBases : TargetRows(Bases[j]) \subseteq targets
        /\ \A sc \in scans : sc.pass = pass /\ \E j \in DoneBases : sc.basis = Bases[j]
    BY <1>2 DEF TargetsOK
  <1>6. \A tg \in targets' : \E j \in DoneBases' : tg \in TargetRows(Bases[j])'
    BY <1>1, <1>3, <1>4, <1>5
  <1>7. \A j \in DoneBases' : TargetRows(Bases[j])' \subseteq targets'
    BY <1>1, <1>3, <1>4, <1>5
  <1>8. \A sc \in scans' : sc.pass = pass' /\ \E j \in DoneBases' : sc.basis = Bases[j]
    BY <1>1, <1>3, <1>5
  <1>9. ASSUME NEW sc \in scans, NEW tg \in targets' \ targets PROVE tg.basis # sc.basis
    <2>1. PICK j \in DoneBases : sc.basis = Bases[j]
      BY <1>5
    <2>2. tg \in TargetRows(Bases[b]) /\ tg.basis = Bases[b]
      BY <1>1, TargetRowsAre
    <2>3. TargetRows(Bases[j]) \subseteq targets
      BY <1>5
    <2>4. Bases[b] # Bases[j]
      BY <2>2, <2>3
    <2>5. QED
      BY <2>1, <2>2, <2>4
  <1>10. QED
    BY <1>1, <1>6, <1>7, <1>8, <1>9 DEF TargetsOK

-----------------------------------------------------------------------------
(* What a scan row says.                                                   *)

Eligible(basis) == {tg \in targets : tg.basis = basis /\ tg.ineligible = "none"}

DueOf(tgs, token, side) == {x \in Transfers : x.token = token /\ \E tg \in tgs : Matches(x, side, tg)}

CoveredScan(sc) ==
    /\ Eligible(sc.basis) # {} /\ \A tg \in Eligible(sc.basis) : tg.pass = sc.pass
    /\ sc.found = Cardinality(DueOf(Eligible(sc.basis), sc.token, "in"))
                    + Cardinality(DueOf(Eligible(sc.basis), sc.token, "out"))
    /\ \A tg \in Eligible(sc.basis), side \in {"in", "out"} :
          \A x \in DueOf(Eligible(sc.basis), sc.token, side) :
             Matches(x, side, tg) => Written(x, tg.agent, sc.basis, side, sc.pass)

LEMMA CoveredIs == ScanRowMeansCovered <=> \A sc \in scans : CoveredScan(sc)
  BY DEF ScanRowMeansCovered, CoveredScan, Eligible, DueOf, Written

LEMMA CoveredStays ==
    ASSUME NEW sc, CoveredScan(sc), payments \subseteq payments', lost \subseteq lost',
           targets \subseteq targets', \A tg \in targets' \ targets : tg.basis # sc.basis
    PROVE  CoveredScan(sc)'
  <1>1. Eligible(sc.basis)' = Eligible(sc.basis)
    BY DEF Eligible
  <1>2. \A x, i, basis, side, p : Written(x, i, basis, side, p) => Written(x, i, basis, side, p)'
    BY DEF Written
  <1>3. \A side : DueOf(Eligible(sc.basis), sc.token, side)' = DueOf(Eligible(sc.basis), sc.token, side)
    BY <1>1 DEF DueOf, Matches, Credited
  <1>4. QED
    BY <1>1, <1>2, <1>3 DEF CoveredScan, Matches, Credited

LEMMA NewScanIsCovered ==
    ASSUME ReadInv, PassOK, TargetsOK, WorkOK, step = "logs", logs = <<>>, s = 2
    PROVE  CoveredScan([basis |-> Bases[b], token |-> Tokens[k], found |-> found, pass |-> pass])
  <1> DEFINE sc == [basis |-> Bases[b], token |-> Tokens[k], found |-> found, pass |-> pass]
  <1>1. sc.basis = Bases[b] /\ sc.token = Tokens[k] /\ sc.found = found /\ sc.pass = pass
    OBVIOUS
  <1>2. PICK basis, token : basis = Bases[b] /\ token = Tokens[k]
    OBVIOUS
  <1>3. Running /\ b \in DoneBases
    BY DEF Running, DoneBases, PassOK
  <1>4. Eligible(basis) = {tg \in TargetRows(basis) : tg.ineligible = "none"}
    <2>1. TargetRows(basis) \subseteq targets
      BY <1>2, <1>3 DEF TargetsOK
    <2>2. ASSUME NEW tg \in targets, tg.basis = basis PROVE tg \in TargetRows(basis)
      <3>1. PICK j \in DoneBases : tg \in TargetRows(Bases[j])
        BY <1>3 DEF TargetsOK
      <3>2. Bases[j] = basis
        BY <2>2, <3>1, TargetRowsAre
      <3>3. QED
        BY <3>1, <3>2
    <2>3. \A tg \in TargetRows(basis) : tg.basis = basis
      BY TargetRowsAre
    <2>4. QED
      BY <2>1, <2>2, <2>3 DEF Eligible
  <1>5. /\ \A tg \in Eligible(basis) : tg.pass = pass /\ tg.agent \in reachers(tg.address, basis)
        /\ \A a \in addresses(basis) : \E tg \in Eligible(basis) : tg.address = a
    BY <1>4, TargetRowsAre
  <1>6. \A tg \in Eligible(basis) : tg.address \in addresses(basis)
    BY <1>5, ReachersIs
  <1>7. ASSUME NEW side PROVE DueOf(Eligible(basis), token, side) = Due(basis, side, token)
    BY <1>5, <1>6 DEF DueOf, Due, MatchingIn, Matches
  <1>8. Eligible(basis) # {}
    BY <1>2, <1>5 DEF WorkOK
  <1>9. /\ \A x \in Due(basis, "in", token) : Handled(x, basis, "in")
        /\ \A x \in Due(basis, "out", token) : Handled(x, basis, "out")
        /\ found = Cardinality(Due(basis, "in", token)) + Cardinality(Due(basis, "out", token))
    BY <1>2 DEF WorkOK, Sides, FoundBefore
  <1>10. ASSUME NEW tg \in Eligible(basis), NEW side \in {"in", "out"}, NEW x \in Due(basis, side, token),
                Matches(x, side, tg)
         PROVE  Written(x, tg.agent, basis, side, pass)
    <2>1. Handled(x, basis, side)
      BY <1>9, <1>10
    <2>2. tg.agent \in reachers(Credited(x, side), basis)
      BY <1>5, <1>10 DEF Matches
    <2>3. QED
      BY <2>1, <2>2 DEF Handled
  <1> HIDE DEF sc
  <1>11. CoveredScan(sc)
    BY <1>1, <1>2, <1>5, <1>7, <1>8, <1>9, <1>10 DEF CoveredScan
  <1>12. QED
    BY <1>11 DEF sc

-----------------------------------------------------------------------------
(* The invariant of the pass.                                              *)

\* Between the bases and between the tokens.
LEMMA BetweenWork ==
    ASSUME WorkOK, UNCHANGED <<ids, wallets>>, WriteTargets \/ CloseBasis \/ WriteScan PROVE WorkOK'
  <1>1. step' \in {"targets", "token"} /\ (step' = "token" => b' = b /\ addresses(Bases[b]) # {})
    BY DEF WriteTargets, CloseBasis, WriteScan, GoOn, WorkOK
  <1>2. PICK basis : basis = Bases[b]
    OBVIOUS
  <1>3. step' = "token" => addresses(Bases[b])' # {}
    <2>1. addresses(basis)' = addresses(basis)
      BY SameTargets
    <2>2. b' = b => addresses(Bases[b])' = addresses(basis)'
      BY <1>2 DEF addresses, payment_candidates
    <2>3. QED
      BY <1>1, <1>2, <2>1, <2>2
  <1>4. QED
    BY <1>1, <1>3 DEF WorkOK

LEMMA WorkOKStep ==
    ASSUME ReadInv, PassOK, WorkOK, [PaymentsNext]_paymentsVars PROVE WorkOK'
  <1>1. CASE UNCHANGED paymentsVars
    <2>1. /\ UNCHANGED <<ids, wallets, pass, b, k, s, payments, lost>>
          /\ UNCHANGED <<step, c, spans, found, logs>>
      BY <1>1 DEF paymentsVars, reads, passVars, tables, locals
    <2>2. /\ AddressList' = AddressList /\ addresses(Bases[b])' = addresses(Bases[b])
          /\ Due(Bases[b], "in", Tokens[k])' = Due(Bases[b], "in", Tokens[k])
          /\ Due(Bases[b], Sides[s], Tokens[k])' = Due(Bases[b], Sides[s], Tokens[k])
          /\ FoundBefore' = FoundBefore
          /\ \A x, side : Handled(x, Bases[b], side) => Handled(x, Bases[b], side)'
      BY <2>1, SameWork
    <2>3. PICK side : side = Sides[s]
      OBVIOUS
    <2>4. \A x : Handled(x, Bases[b], Sides[s]) => Handled(x, Bases[b], Sides[s])'
      <3>1. \A x : Handled(x, Bases[b], side)' <=> Handled(x, Bases[b], Sides[s])'
        BY <2>1, <2>3 DEF Handled, Written, reachers, Credited
      <3>2. QED
        BY <2>2, <2>3, <3>1
    <2>5. PICK D : D = Due(Bases[b], Sides[s], Tokens[k])
      OBVIOUS
    <2>6. step' = "logs" =>
             \A x \in D : (\E n \in DOMAIN logs' : logs'[n] = x) \/ Handled(x, Bases[b], Sides[s])'
      BY <2>1, <2>4, <2>5 DEF WorkOK
    <2>7. step' = "scan" =>
             /\ c' \in Nat \ {0} /\ SpansOK(spans)' /\ found' = FoundBefore'
             /\ Lists(logs, ScannedBy(AddressList, c, Sides[s], Tokens[k], UptoOf(spans)))'
      <3>1. PICK list, token, upto : list = AddressList /\ token = Tokens[k] /\ upto = UptoOf(spans)
        OBVIOUS
      <3>2. step = "scan" =>
              /\ c \in Nat \ {0} /\ SpansOK(spans) /\ found = FoundBefore
              /\ Lists(logs, ScannedBy(list, c, side, token, upto))
        BY <2>3, <3>1 DEF WorkOK
      <3>3. UptoOf(spans') = upto
        BY <2>1, <3>1
      <3>4. QED
        BY <2>1, <2>2, <2>3, <3>1, <3>2, <3>3
    <2>8. step' \in {"scan", "logs"} /\ s' = 2 =>
             \A x \in Due(Bases[b], "in", Tokens[k])' : Handled(x, Bases[b], "in")'
      BY <2>1, <2>2 DEF WorkOK
    <2>9. step' = "logs" =>
             /\ found' = FoundBefore' + Cardinality(Due(Bases[b], Sides[s], Tokens[k])')
             /\ logs' \in Seq(Due(Bases[b], Sides[s], Tokens[k])')
      BY <2>1, <2>2 DEF WorkOK
    <2>10. step' \in {"token", "scan", "logs"} => addresses(Bases[b])' # {}
      BY <2>1, <2>2 DEF WorkOK
    <2>11. QED
      BY <2>2, <2>5, <2>6, <2>7, <2>8, <2>9, <2>10 DEF WorkOK
  <1>2. CASE ReadNext /\ UNCHANGED passVars
    <2>1. step = "idle" /\ step' = "idle"
      BY <1>2, ReadsAreOver DEF PassOK, passVars
    <2>2. QED
      BY <2>1 DEF WorkOK
  <1>3. ASSUME UNCHANGED readsKept, PassStep \/ PassAborts \/ Killed PROVE WorkOK'
    <2>1. CASE step' \in {"idle", "wallets", "targets"}
      BY <2>1 DEF WorkOK
    <2>2. CASE WriteTargets \/ CloseBasis \/ WriteScan
      <3>1. UNCHANGED <<ids, wallets>>
        BY <1>3, <2>2 DEF WriteTargets, CloseBasis, WriteScan, readsKept
      <3>2. QED
        BY <2>2, <3>1, BetweenWork
    <2>3. CASE OpenToken
      BY <1>3, <2>3, OpenTokenWork
    <2>4. CASE TransfersAnswer
      BY <1>3, <2>4, TransfersAnswerWork
    <2>5. CASE TransfersRefused
      BY <1>3, <2>5, TransfersRefusedWork
    <2>6. CASE NextChunk
      BY <1>3, <2>6, NextChunkWork
    <2>7. CASE SideScanned
      BY <1>3, <2>7, SideScannedWork
    <2>8. CASE HandleLog
      BY <1>3, <2>8, HandleLogWork
    <2>9. CASE NextSide
      BY <1>3, <2>9, NextSideWork
    <2>10. CASE Start \/ (\E i \in Ids : ReadWallet(i)) \/ ClearPayments \/ Done \/ CannotSplit
                \/ PassAborts \/ Killed
      <3>1. step' \in {"idle", "wallets", "targets"}
        BY <2>10 DEF Start, ReadWallet, ClearPayments, Done, CannotSplit, PassAborts, Killed, Exit, GoOn
      <3>2. QED
        BY <2>1, <3>1
    <2>11. QED
      BY <1>3, <2>2, <2>3, <2>4, <2>5, <2>6, <2>7, <2>8, <2>9, <2>10 DEF PassStep
  <1>4. QED
    BY <1>1, <1>2, <1>3 DEF PaymentsNext

LEMMA TargetsOKStep ==
    ASSUME PassOK, TargetsOK, [PaymentsNext]_paymentsVars PROVE TargetsOK'
  <1>1. CASE UNCHANGED <<step, b, ids, wallets, pass, targets, scans>>
    <2>1. CASE ~ Running
      BY <1>1, <2>1 DEF TargetsOK, Running
    <2>2. CASE Running
      <3>1. DoneBases' = DoneBases
        BY <1>1 DEF DoneBases
      <3>2. QED
        BY <1>1, <2>2, <3>1, TargetsStay
    <2>3. QED
      BY <2>1, <2>2
  <1>2. CASE UNCHANGED paymentsVars
    BY <1>1, <1>2 DEF paymentsVars, reads, passVars, tables, locals
  <1>3. CASE ReadNext /\ UNCHANGED passVars
    <2>1. step = "idle" /\ step' = "idle"
      BY <1>3, ReadsAreOver DEF PassOK, passVars
    <2>2. QED
      BY <2>1 DEF TargetsOK, Running
  <1>4. ASSUME UNCHANGED readsKept, PassStep \/ PassAborts \/ Killed PROVE TargetsOK'
    <2>1. CASE step' \in {"idle", "wallets"}
      BY <2>1 DEF TargetsOK, Running
    <2>2. CASE ClearPayments
      BY <1>4, <2>2, ClearPaymentsTargets
    <2>3. CASE WriteTargets
      BY <1>4, <2>3, WriteTargetsTargets
    <2>4. CASE OpenToken \/ TransfersAnswer \/ TransfersRefused \/ NextChunk \/ SideScanned
               \/ HandleLog \/ NextSide
      <3>1. /\ step \in {"token", "scan", "logs"} /\ step' \in {"token", "scan", "logs"}
            /\ UNCHANGED <<ids, wallets, pass, targets, scans, b>>
        BY <1>4, <2>4 DEF OpenToken, TransfersAnswer, TransfersRefused, NextChunk, SideScanned, HandleLog,
                          NextSide, scanOnly, tables, GoOn, readsKept
      <3>2. DoneBases' = DoneBases /\ Running
        BY <3>1 DEF DoneBases, Running
      <3>3. QED
        BY <3>1, <3>2, TargetsStay
    <2>5. CASE CloseBasis
      <3>1. /\ step = "token" /\ step' = "targets" /\ b' = b + 1
            /\ UNCHANGED <<ids, wallets, pass, targets, scans>>
        BY <1>4, <2>5 DEF CloseBasis, tables, GoOn, readsKept
      <3>2. DoneBases' = DoneBases /\ Running
        BY <3>1 DEF DoneBases, Running, PassOK
      <3>3. QED
        BY <3>1, <3>2, TargetsStay
    <2>6. CASE WriteScan
      <3>1. /\ step = "logs" /\ step' = "token" /\ UNCHANGED <<ids, wallets, pass, targets, b>>
            /\ \A sc \in scans' : sc \in scans \/ (sc.pass = pass /\ sc.basis = Bases[b])
        BY <1>4, <2>6 DEF WriteScan, GoOn, readsKept
      <3>2. DoneBases' = DoneBases /\ Running /\ b \in DoneBases
        BY <3>1 DEF DoneBases, Running, PassOK
      <3>3. QED
        BY <3>1, <3>2, TargetsStay
    <2>7. CASE Start \/ (\E i \in Ids : ReadWallet(i)) \/ Done \/ CannotSplit \/ PassAborts \/ Killed
      <3>1. step' \in {"idle", "wallets"}
        BY <2>7 DEF Start, ReadWallet, Done, CannotSplit, PassAborts, Killed, Exit, GoOn
      <3>2. QED
        BY <2>1, <3>1
    <2>8. QED
      BY <1>4, <2>2, <2>3, <2>4, <2>5, <2>6, <2>7 DEF PassStep
  <1>5. QED
    BY <1>2, <1>3, <1>4 DEF PaymentsNext

\* What an action does to the tables, apart from the writing of targets and
\* of rows.
LEMMA TablesKept ==
    ASSUME [PaymentsNext]_paymentsVars
    PROVE  \/ ClearPayments \/ WriteScan
           \/ (WriteTargets \/ HandleLog) /\ UNCHANGED readsKept
           \/ UNCHANGED <<targets, payments, scans, lost>>
  <1>1. CASE UNCHANGED paymentsVars \/ (ReadNext /\ UNCHANGED passVars)
    BY <1>1 DEF paymentsVars, passVars, tables
  <1>2. CASE Exit
    BY <1>2 DEF Exit, tables
  <1>3. ASSUME NEW i \in Ids, ReadWallet(i) PROVE UNCHANGED <<targets, payments, scans, lost>>
    BY <1>3 DEF ReadWallet, tables
  <1>4. CASE Start \/ OpenToken \/ CloseBasis \/ TransfersAnswer \/ TransfersRefused \/ NextChunk
             \/ SideScanned \/ NextSide
    BY <1>4 DEF Start, OpenToken, CloseBasis, TransfersAnswer, TransfersRefused, NextChunk, SideScanned,
                NextSide, scanOnly, tables
  <1>5. QED
    BY <1>1, <1>2, <1>3, <1>4 DEF PaymentsNext, PassStep, Done, CannotSplit, PassAborts, Killed

LEMMA CoveredStep ==
    ASSUME ReadInv, PassOK, TargetsOK, WorkOK, ScanRowMeansCovered, [PaymentsNext]_paymentsVars
    PROVE  ScanRowMeansCovered'
  <1> SUFFICES ASSUME NEW sc \in scans' PROVE CoveredScan(sc)'
    BY CoveredIs DEF ScanRowMeansCovered, CoveredScan, Eligible, DueOf, Written
  <1>1. sc \in scans => CoveredScan(sc)
    BY CoveredIs
  <1>2. CASE ClearPayments
    BY <1>2 DEF ClearPayments
  <1>3. CASE WriteTargets /\ UNCHANGED readsKept
    <2>1. UNCHANGED <<payments, scans, lost>>
      BY <1>3 DEF WriteTargets
    <2>2. targets \subseteq targets' /\ \A tg \in targets' \ targets : tg.basis # sc.basis
      BY <1>3, <2>1, WriteTargetsTargets
    <2>3. QED
      BY <1>1, <2>1, <2>2, CoveredStays
  <1>4. CASE HandleLog /\ UNCHANGED readsKept
    <2>1. PICK x, basis, side : x = Head(logs) /\ basis = Bases[b] /\ side = Sides[s]
      OBVIOUS
    <2>2. UNCHANGED <<targets, scans>> /\ payments \subseteq payments' /\ lost \subseteq lost'
      BY <1>4, <2>1, HandleLogIs
    <2>3. QED
      BY <1>1, <2>2, CoveredStays
  <1>5. CASE WriteScan
    <2>1. /\ step = "logs" /\ logs = <<>> /\ s = 2 /\ UNCHANGED <<targets, payments, lost>>
          /\ sc \in scans \/ sc = [basis |-> Bases[b], token |-> Tokens[k], found |-> found, pass |-> pass]
      BY <1>5 DEF WriteScan, Sides
    <2>2. CoveredScan(sc)
      BY <1>1, <2>1, NewScanIsCovered
    <2>3. QED
      BY <2>1, <2>2, CoveredStays
  <1>6. CASE UNCHANGED <<targets, payments, scans, lost>>
    BY <1>1, <1>6, CoveredStays
  <1>7. QED
    BY <1>2, <1>3, <1>4, <1>5, <1>6, TablesKept

LEMMA CountedStep ==
    ASSUME ReadInv, PassOK, WorkOK, CountedIsEarned, [PaymentsNext]_paymentsVars
    PROVE  CountedIsEarned'
  <1> DEFINE Judged(r) ==
        r.verdict = "counted" <=>
            r.key.side = "in" /\ registrations # <<>> /\ Earned(r.key.agent, r.key.log, r.key.basis)
  <1>1. payments # {} => registrations' = registrations
    <2>1. payments # {} => stage = "read"
      BY DEF PassOK
    <2>2. QED
      BY <2>1, ReadsAreOver DEF PaymentsNext, paymentsVars, reads, readsKept, scanning
  <1>2. \A r \in payments : Judged(r)
    BY DEF CountedIsEarned
  <1>3. ASSUME payments' \subseteq payments PROVE CountedIsEarned'
    BY <1>1, <1>2, <1>3 DEF CountedIsEarned, Earned, IsPayee, declared_wallets
  <1>4. CASE HandleLog /\ UNCHANGED readsKept
    <2>1. PICK x, basis, side : x = Head(logs) /\ basis = Bases[b] /\ side = Sides[s]
      OBVIOUS
    <2>2. /\ step = "logs" /\ x \in Due(basis, side, Tokens[k]) /\ registrations' = registrations
          /\ \A r \in payments' \ payments :
                 \E i \in reachers(Credited(x, side), basis) : \E code, authorizer :
                    r = Row(x, side, i, code, authorizer)
      BY <1>4, <2>1, HandleLogIs
    <2>3. ASSUME NEW r \in payments' PROVE Judged(r)
      <3>1. CASE r \in payments
        BY <1>2, <3>1
      <3>2. CASE r \notin payments
        <4>1. PICK i \in reachers(Credited(x, side), basis) : \E code, authorizer :
                 r = Row(x, side, i, code, authorizer)
          BY <2>2, <3>2
        <4>2. PICK code, authorizer : r = Row(x, side, i, code, authorizer)
          BY <4>1
        <4>3. QED
          BY <2>1, <2>2, <4>1, <4>2, RowIsEarned
      <3>3. QED
        BY <3>1, <3>2
    <2>4. QED
      BY <2>2, <2>3 DEF CountedIsEarned, Earned, IsPayee, declared_wallets
  <1>5. CASE ClearPayments
    BY <1>3, <1>5 DEF ClearPayments
  <1>6. CASE WriteTargets \/ WriteScan
    BY <1>3, <1>6 DEF WriteTargets, WriteScan
  <1>7. CASE UNCHANGED payments
    BY <1>3, <1>7
  <1>8. QED
    BY <1>4, <1>5, <1>6, <1>7, TablesKept

\* The reads and the passes after them, together inductive.
PayInv == ReadInv /\ PassOK /\ TargetsOK /\ WorkOK /\ ScanRowMeansCovered /\ CountedIsEarned

LEMMA PayInvInit == PaymentsInit => PayInv
  <1> SUFFICES ASSUME PaymentsInit PROVE PayInv
    OBVIOUS
  <1>1. ReadInv
    BY ReadInvInit DEF PaymentsInit
  <1>2. /\ step = "idle" /\ payments = {} /\ scans = {} /\ wallets = <<>> /\ b = 1 /\ k = 1 /\ s = 1
    BY DEF PaymentsInit, NoLocals
  <1>3. PassOK
    BY <1>2 DEF PassOK, Running
  <1>4. TargetsOK /\ WorkOK /\ ScanRowMeansCovered /\ CountedIsEarned
    BY <1>2 DEF TargetsOK, Running, WorkOK, ScanRowMeansCovered, CountedIsEarned
  <1>5. QED
    BY <1>1, <1>3, <1>4 DEF PayInv

LEMMA PayInvStep == PayInv /\ [PaymentsNext]_paymentsVars => PayInv'
  <1> SUFFICES ASSUME PayInv, [PaymentsNext]_paymentsVars PROVE PayInv'
    OBVIOUS
  <1>1. ReadInv /\ PassOK /\ TargetsOK /\ WorkOK /\ ScanRowMeansCovered /\ CountedIsEarned
    BY DEF PayInv
  <1>2. ReadInv' /\ PassOK' /\ TargetsOK' /\ WorkOK'
    BY <1>1, ReadInvStep, PassOKStep, TargetsOKStep, WorkOKStep
  <1>3. ScanRowMeansCovered' /\ CountedIsEarned'
    BY <1>1, CoveredStep, CountedStep
  <1>4. QED
    BY <1>2, <1>3 DEF PayInv

\* A row that says a token was scanned is true of the chain, whenever the
\* pass is killed and however often it is run again: each transfer on either
\* side of an address of the basis is there for each agent behind it, judged
\* by that pass, or is one the pass knows it failed to write.
THEOREM ScansAreCovered == PaymentsSpec => []ScanRowMeansCovered
  <1>1. PayInv => ScanRowMeansCovered
    BY DEF PayInv
  <1>2. QED
    BY <1>1, PayInvInit, PayInvStep, PTL DEF PaymentsSpec

\* What is counted as a payment is what the chain says the agent was paid,
\* whichever read failed before.
THEOREM PaymentsAreEarned == PaymentsSpec => []CountedIsEarned
  <1>1. PayInv => CountedIsEarned
    BY DEF PayInv
  <1>2. QED
    BY <1>1, PayInvInit, PayInvStep, PTL DEF PaymentsSpec
=============================================================================
